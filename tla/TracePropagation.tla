-------------------------- MODULE TracePropagation --------------------------
(***************************************************************************)
(* One piece of work going from service to service, by HTTP calls, queue   *)
(* jobs and microservice messages, carrying Observe's trace id and, with   *)
(* OpenTelemetry interop on, W3C Trace Context.                            *)
(*                                                                         *)
(* An Observe trace id is [form, n]: a UUID or 32 hex digits (which are a  *)
(* W3C trace id, n), the nil UUID, any other token an `x-request-id` may   *)
(* be, or junk REQUEST_ID_PATTERN refuses.  A traceparent is [ok, tid,     *)
(* parent, sampled], ok when the spec accepts it; a tracestate is the      *)
(* sequence of its entries' lengths.                                       *)
(*                                                                         *)
(* A service is [sdk, interopIn, interopOut, records, covers]: whether an  *)
(* OpenTelemetry SDK propagating W3C Trace Context runs in it, whether     *)
(* interop is on as work arrives and as it sends, whether the agent        *)
(* records the operation, and whether the SDK instruments jobs/messages.   *)
(***************************************************************************)
EXTENDS Naturals, Sequences, FiniteSets

CONSTANTS
  ClientMessages,          \* what may reach the first service
  Services,                \* the services work may run in
  MAX_TRACE_STATE_LENGTH,
  MaxHops                  \* bound: services the work passes through

VARIABLES
  message,   \* what is on its way, or NoMessage
  here,      \* the async store of the operation running, or NoWork
  path       \* every operation so far: its store
propagationVars == <<message, here, path>>

NoTraceId == [form |-> "none", n |-> 0]
NoParent == [ok |-> FALSE, tid |-> 0, parent |-> <<"none", 0>>, sampled |-> FALSE]
NoContext == [tid |-> 0, parent |-> <<"none", 0>>, sampled |-> FALSE, traceState |-> <<>>]
NoMessage == [kind |-> "none", requestId |-> NoTraceId, traceparent |-> NoParent,
              tracestate |-> <<>>, copies |-> 0, forged |-> FALSE]
NoWork == [traceId |-> NoTraceId, context |-> NoContext, active |-> NoContext, service |-> <<>>,
           kind |-> "none", forged |-> FALSE]

fitsRequestIdPattern(id) == id.form \in {"uuid", "hex", "nil", "token"}
\* The 128 bits of a UUID or of 32 hex digits; a hash of anything else.
w3cTraceIdOf(id) == IF id.form \in {"uuid", "hex"} THEN id.n ELSE 100 + id.n
toUuid(tid) == [form |-> "uuid", n |-> tid]
uuidv7 == [form |-> "uuid", n |-> 10 + Len(path)]

----------------------------------------------------------------------------
(* Reading.                                                                 *)

RECURSIVE Length(_)
Length(entries) ==
  IF entries = <<>> THEN 0
  ELSE Head(entries) + Length(Tail(entries)) + (IF Len(entries) > 1 THEN 1 ELSE 0)
\* Whole entries are dropped from the end; an empty one takes no room.
RECURSIVE fitted(_, _)
fitted(sofar, entries) ==
  IF entries = <<>> THEN sofar
  ELSE IF Head(entries) = 0 THEN fitted(sofar, Tail(entries))
  ELSE IF Length(Append(sofar, Head(entries))) > MAX_TRACE_STATE_LENGTH THEN sofar
  ELSE fitted(Append(sofar, Head(entries)), Tail(entries))
fitTraceState(entries) ==
  IF Length(entries) <= MAX_TRACE_STATE_LENGTH THEN entries ELSE fitted(<<>>, entries)

readTraceContext(traceparent, tracestate) ==
  IF ~traceparent.ok THEN NoContext
  ELSE [tid |-> traceparent.tid, parent |-> traceparent.parent, sampled |-> traceparent.sampled,
        traceState |-> fitTraceState(tracestate)]

\* The span the SDK has open as work arrives: it continues what its HTTP
\* instrumentation reads, or starts a trace; jobs and messages only where an
\* instrumentation covers them.
activeOpenTelemetrySpanContext(m, service) ==
  LET span == <<"sdk", Len(path)>>
  IN IF ~service.sdk \/ (m.kind # "http" /\ ~service.covers) THEN NoContext
     ELSE IF m.traceparent.ok
     THEN [readTraceContext(m.traceparent, m.tracestate) EXCEPT !.parent = span]
     ELSE [NoContext EXCEPT !.tid = 50 + Len(path), !.parent = span, !.sampled = TRUE]

inboundTraceContext(m, service) ==
  LET active == activeOpenTelemetrySpanContext(m, service)
  IN IF active # NoContext THEN active ELSE readTraceContext(m.traceparent, m.tracestate)

handedOnTraceContext(m, traceId, service) ==
  LET handedOn == readTraceContext(m.traceparent, <<>>)
      active == activeOpenTelemetrySpanContext(m, service)
  IN IF ~handedOn.sampled \/ handedOn.tid # w3cTraceIdOf(traceId) THEN NoContext
     ELSE IF active # NoContext /\ active.tid = handedOn.tid THEN active ELSE handedOn

\* continueHandedOnTrace(): the span active while the work runs.
continueHandedOnTrace(m, traceId, service) ==
  LET parent == readTraceContext(m.traceparent, <<>>)
      active == activeOpenTelemetrySpanContext(m, service)
  IN IF service.sdk /\ parent # NoContext /\ parent.tid = w3cTraceIdOf(traceId)
          /\ active.tid # parent.tid
     THEN parent ELSE active

\* The trace id: an inherited one, else minted.
defaultTraceIdGenerator(m) ==
  IF fitsRequestIdPattern(m.requestId) THEN m.requestId ELSE uuidv7
openTelemetryTraceIdGenerator_named(m, service) ==
  IF inboundTraceContext(m, service) = NoContext THEN defaultTraceIdGenerator(m)
  ELSE toUuid(inboundTraceContext(m, service).tid)
traceIdIn(m, context) ==
  IF context = NoContext THEN defaultTraceIdGenerator(m)
  ELSE IF fitsRequestIdPattern(m.requestId) /\ w3cTraceIdOf(m.requestId) = context.tid
  THEN m.requestId ELSE toUuid(context.tid)
openTelemetryTraceIdGenerator(m, service) == traceIdIn(m, inboundTraceContext(m, service))

----------------------------------------------------------------------------
PropagationInit == message \in ClientMessages /\ here = NoWork /\ path = <<>>

\* What an operation that starts for a message carries.
workOf(m, traceId, service) ==
  LET http == m.kind = "http"
  IN [NoWork EXCEPT !.traceId = traceId, !.service = service, !.kind = m.kind, !.forged = m.forged,
        !.context = IF ~service.interopIn THEN NoContext
                    ELSE IF http THEN inboundTraceContext(m, service)
                    ELSE handedOnTraceContext(m, traceId, service),
        !.active = IF http \/ ~service.interopIn THEN activeOpenTelemetrySpanContext(m, service)
                   ELSE continueHandedOnTrace(m, traceId, service)]
starts(work) == here' = work /\ path' = Append(path, work) /\ message' = NoMessage
\* A request, job or message arrives.
arrivesIn(service) ==
  /\ message # NoMessage
  /\ starts(workOf(message,
                   IF message.kind = "http" /\ service.interopIn THEN openTelemetryTraceIdGenerator(message, service)
                   ELSE defaultTraceIdGenerator(message),
                   service))

\* traceContextHeaders() on an HTTP call, unless the SDK writes the header.
traceContextHeaders ==
  [ok |-> TRUE,
   tid |-> IF here.context # NoContext THEN here.context.tid ELSE w3cTraceIdOf(here.traceId),
   parent |-> <<IF here.service.records THEN "agent" ELSE "random", Len(path)>>,
   sampled |-> IF here.context # NoContext THEN here.context.sampled ELSE here.service.records]
sdkHeaders ==
  [ok |-> TRUE, tid |-> IF here.active # NoContext THEN here.active.tid ELSE 50 + Len(path),
   parent |-> <<"sdk", Len(path)>>,
   sampled |-> IF here.active # NoContext THEN here.active.sampled ELSE TRUE]
callsHttp ==
  LET agentWrites == here.service.interopOut /\ ~here.service.sdk
  IN message' = [NoMessage EXCEPT !.kind = "http", !.requestId = here.traceId,
       !.forged = here.forged,
       !.traceparent = IF here.service.sdk THEN sdkHeaders
                       ELSE IF agentWrites THEN traceContextHeaders ELSE NoParent,
       !.tracestate = IF here.service.sdk THEN here.active.traceState
                      ELSE IF agentWrites THEN here.context.traceState ELSE <<>>,
       !.copies = (IF here.service.sdk THEN 1 ELSE 0) + (IF agentWrites THEN 1 ELSE 0)]

traceparentToHandOn ==
  LET w3c == w3cTraceIdOf(here.traceId)
  IN IF here.active # NoContext /\ here.active.tid = w3c
     THEN [ok |-> TRUE, tid |-> w3c, parent |-> here.active.parent,
           sampled |-> here.active.sampled]
     ELSE [ok |-> TRUE, tid |-> w3c,
           parent |-> <<IF here.service.records THEN "agent" ELSE "random", Len(path)>>,
           sampled |-> IF here.context # NoContext /\ here.context.tid = w3c
                       THEN here.context.sampled ELSE here.service.records]
\* A job is enqueued, or a microservice message dispatched.
handsOn(kind) ==
  message' = [NoMessage EXCEPT !.kind = kind, !.requestId = here.traceId, !.forged = here.forged,
    !.traceparent = IF here.service.interopOut THEN traceparentToHandOn ELSE NoParent]

sends ==
  /\ message = NoMessage /\ path # <<>> /\ Len(path) < MaxHops
  /\ callsHttp \/ handsOn("job") \/ handsOn("rpc")
  /\ UNCHANGED <<here, path>>
\* Job options and packet metadata are writable by anything that reaches them.
rewritten ==
  /\ message.kind \in {"job", "rpc"} /\ ~message.forged
  /\ message' = [message EXCEPT !.forged = TRUE,
       !.traceparent = [ok |-> TRUE, tid |-> 7, parent |-> <<"forged", 0>>, sampled |-> TRUE]]
  /\ UNCHANGED <<here, path>>

PropagationNext == sends \/ rewritten \/ \E service \in Services : arrivesIn(service)

----------------------------------------------------------------------------
(* Correctness.                                                             *)

\* An SDK in the service decides the trace on its own: the agent does not
\* follow it, or nothing the SDK could continue arrived with the work.
SdkOnItsOwn(i) ==
  LET from == path[i - 1].service
  IN /\ path[i].service.sdk
     /\ \/ ~path[i].service.interopIn
        \/ i > 1 /\ ~from.interopOut /\ (path[i].kind = "http" => ~from.sdk)
        \/ path[i].forged

\* Work keeps one trace id through every hop, however HTTP calls, jobs and
\* messages alternate and whichever services have interop on, unless an SDK
\* on the way went its own way.
OneTraceThroughout ==
  (\A k \in DOMAIN path : ~SdkOnItsOwn(k)) =>
    \A i \in DOMAIN path : path[i].traceId = path[1].traceId

\* The trace context an operation runs in is of the trace it reports under,
\* also when what carried it was rewritten: nothing puts work under a span of
\* another trace (handedOnTraceContext).
ContextIsOfItsTrace ==
  \A i \in DOMAIN path :
    path[i].context # NoContext => path[i].context.tid = w3cTraceIdOf(path[i].traceId)

\* Along HTTP calls between agents the first caller's sampling decision and
\* the vendors' tracestate, once cut to size, are passed on unchanged.
DecisionPassedOn ==
  \A i \in DOMAIN path :
    (/\ path[1].context # NoContext
     /\ \A k \in 1 .. i : path[k].kind = "http" /\ ~path[k].service.sdk
                          /\ path[k].service.interopIn /\ path[k].service.interopOut)
      => /\ path[i].context.sampled = path[1].context.sampled
         /\ path[i].context.traceState = path[1].context.traceState
         /\ Length(path[i].context.traceState) <= MAX_TRACE_STATE_LENGTH

\* One request never carries two traceparent headers, which would make both
\* invalid (openTelemetryWritesTraceparent).
OneTraceparent == message.copies <= 1

PropagationTypeOK ==
  /\ Len(path) <= MaxHops
  /\ message.kind \in {"none", "http", "job", "rpc"}

\* Work that crosses services stays one trace, with the decision and the vendor
\* state it began with (trace-context.util, trace-handoff.util).
OneTraceEndToEnd ==
  PropagationTypeOK /\ OneTraceThroughout /\ ContextIsOfItsTrace /\ DecisionPassedOn /\ OneTraceparent
=============================================================================
