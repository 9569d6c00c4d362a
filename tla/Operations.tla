----------------------------- MODULE Operations -----------------------------
(* How a request, message, call or GraphQL operation gets its trace: the     *)
(* protocol agents (http, rpc, grpc, ws, graphql), the callbacks of the      *)
(* module options they guard, the sampler, and TracerService as the handler  *)
(* calls it.  Executions may share a correlation id (a caller that fans out  *)
(* or retries sends it twice); the registry key each agent mints is the      *)
(* execution itself.  The registry is what TraceRegistry details: here a key *)
(* leads to the snapshot of the execution that started it.                   *)
EXTENDS Naturals, Sequences

CONSTANTS
  Executions,      \* operations the process runs, in the order they arrive: 1, 2, ...
  CorrelationIds,  \* ids callers send and traceIdGenerator adopts: no execution's
  Plans,           \* what an execution brings and what the callbacks do to it
  Settings         \* the module's options: enabled, tracePreflights, samples, and
                   \* the transports that have hooks

None == 0

ASSUME OperationsAssumption ==
  /\ Executions \subseteq Nat \ {None} /\ None \notin CorrelationIds
  /\ Executions \cap CorrelationIds = {}
  /\ \A p \in Plans : p.generated \in CorrelationIds \cup {None} /\ p.preflight \in BOOLEAN

VARIABLES
  settings,   \* the options of the module
  plan,       \* the plan of an execution
  phase,      \* none, deferred, running, answered, aborted
  store,      \* its async local storage: trace id and registry key
  runs,       \* how often its handler was run
  registered, \* registry key -> the execution whose snapshot it holds
  snap,       \* that snapshot: who labelled it, who opened spans in it
  completing, \* none, microtask, timer, waiting: its deferred completion
  evicting,   \* the eviction timer of an aborted request runs
  reports,    \* the snapshots inserted into the buffer
  thrown      \* the execution a call of TracerService threw in last

opsVars == <<settings, plan, phase, store, runs, registered, snap, completing,
             evicting, reports, thrown>>
snapVars == <<registered, snap>>
doneVars == <<completing, evicting, reports, thrown>>

NoStore == [id |-> None, key |-> None]
NoPlan  == [how |-> "none", generated |-> None, callback |-> "quiet", ignore |-> "no",
            sampled |-> "no", preflight |-> FALSE, unparsable |-> FALSE]
NoSnap  == [labels |-> {}, spans |-> {}, open |-> {}, kept |-> FALSE]

OperationsInit ==
  /\ settings \in Settings
  /\ plan = [o \in Executions |-> NoPlan]
  /\ phase = [o \in Executions |-> "none"]
  /\ store = [o \in Executions |-> NoStore]
  /\ runs = [o \in Executions |-> 0]
  /\ registered = <<>>
  /\ snap = [o \in Executions |-> NoSnap]
  /\ completing = [o \in Executions |-> "none"]
  /\ evicting = {}
  /\ reports = <<>>
  /\ thrown = {}

(***************************************************************************)
(* The callbacks of the options, and the decision to record                *)
(***************************************************************************)

\* A callback that throws answers its fallback.
invokeUserCallbackSafely(outcome, fallback) == IF outcome = "throws" THEN fallback ELSE outcome

shouldIgnoreSafely(ignore)        == invokeUserCallbackSafely(ignore, "yes") = "yes"
generateTraceIdSafely(o, generated) == IF generated = None THEN o ELSE generated

\* tracesSampleRate unset, 0 or at least 1 captures all; else the dice or the
\* callback decide.  A disabled agent records nothing.
shouldCapture(p) ==
  /\ settings.enabled
  /\ settings.samples => invokeUserCallbackSafely(p.sampled, "no") = "yes"

isPreflight(p) == p.how = "http" /\ p.preflight
isUntracedPreflight(p) == isPreflight(p) /\ ~settings.tracePreflights

\* http.ignore is a predicate, or a list of which one entry matches the URL.
shouldIgnoreRequest(p) == shouldIgnoreSafely(p.ignore)

Recorded(p) ==
  /\ ~shouldIgnoreRequest(p)
  /\ ~isUntracedPreflight(p)
  /\ shouldCapture(p)

(***************************************************************************)
(* The store, and what the registry does under the key it leads to         *)
(***************************************************************************)

\* requireTraceId() and its likes: the registry key, else the trace id.
lookupKey(s) == IF s.key # None THEN s.key ELSE s.id
Has(reg, key) == key \in DOMAIN reg
Bound(reg, key, o) == [k \in DOMAIN reg \cup {key} |-> IF k = key THEN o ELSE reg[k]]
Without(reg, key) == [k \in DOMAIN reg \ {key} |-> reg[k]]

\* setOperationId(), addRouteMetadataToTrace(), addGraphQLMetadataToTrace(),
\* captureError(): whatever the key leads to is labelled.
Label(sn, key, o) == IF Has(registered, key)
                     THEN [sn EXCEPT ![registered[key]].labels = @ \cup {o}] ELSE sn

\* startTrace() overwrites what is registered under the key.
startTrace(sn, o, kept, spans) ==
  [sn EXCEPT ![o] = [NoSnap EXCEPT !.kept = kept, !.spans = spans, !.open = spans]]

\* Faulty: the key is claimed once the callbacks have run.
newStore_late(o, p) == [id |-> generateTraceIdSafely(o, p.generated), key |-> None]

\* The store an agent opens, before any callback of the options can use it.
\* A ws message is keyed by its own trace id.
newStore(o, p) ==
  IF p.how = "ws" THEN [id |-> o, key |-> None]
  ELSE [id |-> generateTraceIdSafely(o, p.generated), key |-> o]

(***************************************************************************)
(* The start hooks                                                         *)
(***************************************************************************)

\* setAttributes may use the tracer: whatever its store leads to is labelled.
setAttributesSafely(sn, o, p, s) ==
  IF p.callback = "reaches" THEN Label(sn, lookupKey(s), o) ELSE sn

\* An agent whose package or adapter has no hooks to set - a release before
\* they were added, a package that cannot be loaded - stands aside.
hasRequestHooks   == "http" \in settings.hooked
registerHttpHooks == hasRequestHooks
registerRpcHooks  == {"rpc", "grpc"} \subseteq settings.hooked
patchContextCreator == "ws" \in settings.hooked

Arrives(o) == phase[o] = "none" /\ (o > 1 => phase[o - 1] # "none")

\* The decision, startTrace() and the handler: done(), invoke().
Begin(o, p, sn) ==
  /\ registered' = IF Recorded(p) THEN Bound(registered, o, o) ELSE registered
  /\ snap' = IF Recorded(p) THEN startTrace(sn, o, isPreflight(p), {}) ELSE sn
  /\ runs' = [runs EXCEPT ![o] = @ + 1]
  /\ phase' = [phase EXCEPT ![o] = "running"]

\* The store, then setAttributes, then the decision.
StartTracing(o, p) ==
  /\ Arrives(o)
  /\ plan' = [plan EXCEPT ![o] = p]
  /\ store' = [store EXCEPT ![o] = newStore(o, p)]
  /\ Begin(o, p, setAttributesSafely(snap, o, p, newStore(o, p)))
  /\ UNCHANGED <<settings, doneVars>>

startHttpRequestTracing(o, p) == registerHttpHooks /\ p.how = "http" /\ StartTracing(o, p)
startRpcRequestTracing(o, p)  == registerRpcHooks /\ p.how = "rpc" /\ StartTracing(o, p)
traceMessage(o, p) == patchContextCreator /\ p.how = "ws" /\ StartTracing(o, p)

\* startGrpcRequestTracing(): the decision is put off to a timer ...
startGrpcRequestTracing(o, p) ==
  /\ Arrives(o)
  /\ registerRpcHooks /\ p.how = "grpc"
  /\ plan' = [plan EXCEPT ![o] = p]
  /\ store' = [store EXCEPT ![o] = newStore(o, p)]
  /\ snap' = setAttributesSafely(snap, o, p, newStore(o, p))
  /\ phase' = [phase EXCEPT ![o] = "deferred"]
  /\ UNCHANGED <<settings, runs, registered, doneVars>>

\* ... "A throw in this timer escapes the promise": everything is guarded.
grpcTimer(o) ==
  /\ phase[o] = "deferred"
  /\ Begin(o, plan[o], snap)
  /\ UNCHANGED <<settings, plan, store, doneVars>>

\* An operation whose transport has no hooks is only run.
runsUnhooked(o, p) ==
  /\ Arrives(o)
  /\ p.how \notin settings.hooked \cup {"graphql"}
  /\ plan' = [plan EXCEPT ![o] = p]
  /\ runs' = [runs EXCEPT ![o] = @ + 1]
  /\ phase' = [phase EXCEPT ![o] = "running"]
  /\ UNCHANGED <<settings, store, snapVars, doneVars>>

\* onRequestStart() goes on with a document it can parse and is not to ignore.
measured(p) == ~p.unparsable /\ ~shouldIgnoreSafely(p.ignore)

\* onRequestStart() of a GraphQL operation with no enclosing trace:
\* startAsOperation() keys its trace by the id it generates, which may be in
\* use, and opens its span; an unparsable, ignored or unsampled one has no store.
startAsOperation(o, p) ==
  LET id == generateTraceIdSafely(o, p.generated)
      on == measured(p) /\ shouldCapture(p)
  IN
  /\ Arrives(o)
  /\ p.how = "graphql"
  /\ plan' = [plan EXCEPT ![o] = p]
  /\ store' = IF on THEN [store EXCEPT ![o] = [id |-> id, key |-> None]] ELSE store
  /\ registered' = IF on THEN Bound(registered, id, o) ELSE registered
  /\ snap' = IF ~on THEN snap
             ELSE startTrace(setAttributesSafely(snap, o, p, [id |-> id, key |-> None]), o,
                             FALSE, {o})
  /\ runs' = [runs EXCEPT ![o] = @ + 1]
  /\ phase' = [phase EXCEPT ![o] = "running"]
  /\ UNCHANGED <<settings, doneVars>>

(***************************************************************************)
(* The handler, and what it leaves running when it has answered            *)
(***************************************************************************)

Lives(o) == runs[o] > 0
KeyOf(o) == lookupKey(store[o])

\* setOperationId(), the route the request found, captureError().
setOperationId(o) ==
  /\ Lives(o)
  /\ Has(registered, KeyOf(o))
  /\ o \notin snap[registered[KeyOf(o)]].labels
  /\ snap' = Label(snap, KeyOf(o), o)
  /\ UNCHANGED <<settings, plan, phase, store, runs, registered, doneVars>>

Opened(s, o) == [labels |-> s.labels, spans |-> s.spans \cup {o},
                 open |-> s.open \cup {o}, kept |-> s.kept]
Opens(sn, o) == [sn EXCEPT ![registered[KeyOf(o)]] = Opened(@, o)]
CanOpen(o) ==
  /\ Lives(o)
  /\ Has(registered, KeyOf(o))
  /\ o \notin snap[registered[KeyOf(o)]].spans

\* A call of the handler's opens a span - or none, where nothing is registered.
opensSpan(o) ==
  /\ CanOpen(o)
  /\ snap' = Opens(snap, o)
  /\ UNCHANGED <<settings, plan, phase, store, runs, registered, doneVars>>

\* startWithinRequest(): a GraphQL operation of the request names its trace and
\* opens a span in it.
startWithinRequest(o) ==
  /\ CanOpen(o)
  /\ measured(plan[o])
  /\ snap' = Opens(Label(snap, KeyOf(o), o), o)
  /\ UNCHANGED <<settings, plan, phase, store, runs, registered, doneVars>>

\* The call returns; the end hook of the GraphQL operation is told.
closesSpan(o) ==
  LET by == registered[KeyOf(o)] IN
  /\ Lives(o)
  /\ Has(registered, KeyOf(o))
  /\ o \in snap[by].open
  /\ snap' = [snap EXCEPT ![by].open = @ \ {o}]
  /\ UNCHANGED <<settings, plan, phase, store, runs, registered, doneVars>>

\* createSpan() needs a trace id; captureError(), setAttribute() and
\* getAttribute() need a store only, which here is the same.
createSpanThrows(o) == KeyOf(o) = None

\* activeSpan() also throws where a trace is registered but no span is active.
\* An operation that is not recorded gets a detached delegate.
activeSpanThrows(o) ==
  createSpanThrows(o) \/ (Has(registered, KeyOf(o)) /\ snap[registered[KeyOf(o)]].open = {})

callsTracer(o) ==
  /\ phase[o] = "running"
  /\ activeSpanThrows(o)
  /\ thrown' = {o}
  /\ UNCHANGED <<settings, plan, phase, store, runs, snapVars, completing, evicting, reports>>

(***************************************************************************)
(* The end hooks and the deferred completion                               *)
(***************************************************************************)

\* The key whose trace the end of the operation completes: its own.
endsKey(o) == KeyOf(o)

\* The operation is over, and its completion put off if it has one.
Answer(o, completes) ==
  /\ phase[o] = "running"
  /\ phase' = [phase EXCEPT ![o] = "answered"]
  /\ completing' = IF completes THEN [completing EXCEPT ![o] = "microtask"] ELSE completing
  /\ UNCHANGED <<settings, plan, store, runs, snapVars, evicting, reports, thrown>>

\* The response and processing hooks stand down unless a trace is registered
\* under the key of the store they find.
endHttpRequestTracing(o) == plan[o].how = "http" /\ Answer(o, Has(registered, endsKey(o)))
endRpcRequestTracing(o)  == plan[o].how \in {"rpc", "grpc"} /\ Answer(o, Has(registered, endsKey(o)))
\* A message that started a trace ends it, returned, resolved or thrown; so
\* does a GraphQL operation that owns its trace.
messageSettles(o) == plan[o].how = "ws" /\ Answer(o, store[o] # NoStore /\ Recorded(plan[o]))
endOperationTrace(o) == plan[o].how = "graphql" /\ Answer(o, store[o] # NoStore)
answers(o) == endHttpRequestTracing(o) \/ endRpcRequestTracing(o) \/ messageSettles(o)
              \/ endOperationTrace(o)

\* Faulty: the trace is left for a response that never finishes.
clientAborts_left(o) ==
  /\ phase[o] = "running"
  /\ plan[o].how = "http" /\ registerHttpHooks /\ Recorded(plan[o])
  /\ phase' = [phase EXCEPT ![o] = "aborted"]
  /\ UNCHANGED <<settings, plan, store, runs, snapVars, doneVars>>

\* The client goes away: the response closes unfinished, and the trace is
\* evicted after a grace period.
clientAborts(o) ==
  /\ phase[o] = "running"
  /\ plan[o].how = "http" /\ registerHttpHooks /\ Recorded(plan[o])
  /\ phase' = [phase EXCEPT ![o] = "aborted"]
  /\ evicting' = evicting \cup {o}
  /\ UNCHANGED <<settings, plan, store, runs, snapVars, completing, reports, thrown>>

abandonTrace(o) ==
  /\ o \in evicting
  /\ evicting' = evicting \ {o}
  /\ registered' = Without(registered, o)
  /\ UNCHANGED <<settings, plan, phase, store, runs, snap, completing, reports, thrown>>

\* deferTraceCompletion(): at once, or a timer later if a span is still open.
completionDue(o) ==
  LET key == endsKey(o) IN
  /\ completing[o] = "microtask"
  /\ Has(registered, key) /\ snap[registered[key]].open # {}
  /\ completing' = [completing EXCEPT ![o] = "timer"]
  /\ UNCHANGED <<settings, plan, phase, store, runs, snapVars, evicting, reports, thrown>>

\* endTrace() drops a trace without a span, unless it is a nameless preflight's;
\* pluckSnapshot() hands over the others, or waits for their open spans.
completion(o) ==
  LET key == endsKey(o)
      by  == registered[key]
  IN
  /\ \/ completing[o] = "timer"
     \/ completing[o] = "microtask" /\ ~(Has(registered, key) /\ snap[by].open # {})
  /\ IF Has(registered, key) /\ snap[by].open # {}
     THEN completing' = [completing EXCEPT ![o] = "waiting"] /\ UNCHANGED <<registered, reports>>
     ELSE /\ completing' = [completing EXCEPT ![o] = "none"]
          /\ registered' = Without(registered, key)
          /\ reports' = IF Has(registered, key)
                           /\ (snap[by].spans # {} \/ (snap[by].kept /\ snap[by].labels = {}))
                        THEN Append(reports, by) ELSE reports
  /\ UNCHANGED <<settings, plan, phase, store, runs, snap, evicting, thrown>>

\* SNAPSHOT_COMPLETION_TIMEOUT_MS later: without the spans still open.
completionTimeout(o) ==
  LET key == endsKey(o) IN
  /\ completing[o] = "waiting"
  /\ completing' = [completing EXCEPT ![o] = "none"]
  /\ registered' = Without(registered, key)
  /\ reports' = IF Has(registered, key) THEN Append(reports, registered[key]) ELSE reports
  /\ UNCHANGED <<settings, plan, phase, store, runs, snap, evicting, thrown>>

OperationsNext ==
  \/ \E o \in Executions, p \in Plans :
       \/ startHttpRequestTracing(o, p) \/ startRpcRequestTracing(o, p) \/ traceMessage(o, p)
       \/ startGrpcRequestTracing(o, p) \/ startAsOperation(o, p) \/ runsUnhooked(o, p)
  \/ \E o \in Executions :
       \/ grpcTimer(o) \/ setOperationId(o) \/ opensSpan(o) \/ startWithinRequest(o)
       \/ closesSpan(o) \/ callsTracer(o) \/ answers(o) \/ clientAborts(o) \/ abandonTrace(o)
       \/ completionDue(o) \/ completion(o) \/ completionTimeout(o)

OperationsSpec == OperationsInit /\ [][OperationsNext]_opsVars

(***************************************************************************)
(* Properties                                                              *)
(***************************************************************************)

OperationsTypeOK ==
  /\ \A o \in Executions :
       /\ phase[o] \in {"none", "deferred", "running", "answered", "aborted"}
       /\ completing[o] \in {"none", "microtask", "timer", "waiting"}
       /\ snap[o].open \subseteq snap[o].spans
  /\ DOMAIN registered \subseteq Executions \cup CorrelationIds
  /\ evicting \cup thrown \subseteq Executions

\* GraphQL operations that have no transport agent in front of them are kept
\* by the id they generate: two that are given one id share a trace, and
\* startAsOperation() says so.
ShareATrace(o, l) ==
  /\ plan[o].how = "graphql" /\ plan[l].how = "graphql"
  /\ store[o].id = store[l].id

\* "Claim this execution before option callbacks can reach another request's
\* trace" (startHttpRequestTracing): whatever an execution labels or opens a
\* span in - its callbacks, its handler, the work it left running - is its own
\* trace, whoever shares its id; and one that is ignored, sampled out or kept
\* out by a broken callback appears in no trace at all.
TraceIsItsOwn ==
  \A o \in Executions : \A l \in snap[o].labels \cup snap[o].spans :
    /\ l = o \/ ShareATrace(o, l)
    /\ Recorded(plan[l])

\* An execution is reported once at most, and only once it has answered: the
\* completion of one never takes the trace of another that shares its id.
ReportedByItself ==
  \A i, j \in DOMAIN reports :
    /\ phase[reports[i]] = "answered" \/ plan[reports[i]].how = "graphql"
    /\ reports[i] = reports[j] => i = j

\* "A handler tagging its span must not start failing because someone changed"
\* which operations are recorded (activeSpan): a call of TracerService in the
\* context of an operation throws only if the operation is recorded.
UnrecordedNeverThrows ==
  \A o \in thrown : store[o] # NoStore => Recorded(plan[o])

\* Operations that share ids, callbacks and an event loop are kept apart: each
\* records in its own trace, is reported once, and runs as it would without the
\* agent (startHttpRequestTracing, abandonTrace, activeSpan).
OperationsKeptApart == OperationsTypeOK /\ TraceIsItsOwn /\ ReportedByItself /\ UnrecordedNeverThrows

\* "A bug in [a callback] must not fail the request, message or job being
\* recorded" (invokeUserCallbackSafely): every operation that arrives is run.
EveryOperationRuns ==
  []<>(\A o \in Executions : phase[o] # "none" => runs[o] = 1)

\* Every trace leaves the registry, however its operation ends - answered with
\* spans open, or aborted by its client - unless a GraphQL operation was given
\* an id in use; and an answered one that recorded a span is reported.
TracesLeaveTheRegistry ==
  []<>(\A o \in Executions :
         /\ o \notin DOMAIN registered
         /\ phase[o] = "answered" /\ plan[o].how # "graphql" /\ snap[o].spans # {}
              => \E i \in DOMAIN reports : reports[i] = o)
=============================================================================
