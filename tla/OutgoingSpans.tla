---------------------------- MODULE OutgoingSpans ----------------------------
(***************************************************************************)
(* Spans of calls that leave the process: the patched drivers (pg, mysql2, *)
(* mongodb, mssql), the HTTP client channels and the model calls read off  *)
(* them, all through OutgoingSpanRecorder.                                 *)
(*                                                                         *)
(* A call goes through an entry point that opens its span; a pool hands    *)
(* the query to a connection, at once in the caller's async context or     *)
(* later in that of whoever released the connection; the driver reports    *)
(* the outcome, possibly more than once; a model call's response is read   *)
(* while its span is held open.                                            *)
(***************************************************************************)
EXTENDS Naturals, Sequences, FiniteSets

CONSTANTS
  Queries,      \* the calls made
  Issues,       \* the ways a call is made: [kind, form, described, op]
  Traced,       \* the operations the registry holds; others are sampled out
  MaxReports,   \* bound: completions a driver reports of one call
  MaxTime       \* bound on the clock, in units of HOLD_GRACE_MS

ASSUME OutgoingAssumption ==
  /\ MaxReports \in Nat \ {0} /\ MaxTime \in Nat
  /\ \A i \in Issues : i.described \in BOOLEAN

VARIABLES query, leaves, now
outgoingVars == <<query, leaves, now>>

Idle == [kind |-> "idle", form |-> "", described |-> FALSE, op |-> "none", hop |-> "",
         covered |-> FALSE, marked |-> FALSE, moved |-> FALSE, reports |-> 0, at |-> 0,
         streamError |-> FALSE, error |-> FALSE, read |-> FALSE]
pools == {"pgPool", "mysqlPoolQuery", "mysqlPoolExecute"}
\* A mysql2 pool's query hands over the command object, which can be marked.
SPANNED(kind) == kind \in {"mysqlPoolQuery", "mysql"}

OutgoingInit ==
  /\ query = [c \in Queries |-> Idle]
  /\ leaves = <<>> /\ now = 0

----------------------------------------------------------------------------
(* OutgoingSpanRecorder.                                                    *)
\* Faulty: a covered call is not told from another.
Attaches_covered(op, covered) == op \in Traced
\* openSpan(): nothing under a covered call or outside a recorded operation.
Attaches(op, covered) == ~covered /\ op \in Traced
openSpan(c, op, holds) ==
  [query |-> c, op |-> op, holds |-> holds, deferred |-> FALSE, at |-> 0,
   deferredError |-> FALSE, ends |-> 0, error |-> FALSE, duration |-> 0,
   tagged |-> FALSE, shippedTags |-> FALSE]

close(s, error, endedAt) ==
  IF s.ends > 0 THEN s
  ELSE [s EXCEPT !.ends = @ + 1, !.error = error, !.duration = endedAt, !.shippedTags = s.tagged]

end(s, error) ==
  IF s.ends > 0 \/ s.deferred THEN s
  ELSE IF s.holds = 0 THEN close(s, error, now)
  ELSE [s EXCEPT !.deferred = TRUE, !.at = now, !.deferredError = error]

release(s) ==
  LET t == [s EXCEPT !.holds = @ - 1]
  IN IF s.holds = 0 THEN s ELSE IF t.holds = 0 /\ t.deferred THEN close(t, t.deferredError, t.at) ELSE t

\* Every span of a call is told.
Update(c, f(_)) ==
  leaves' = [i \in DOMAIN leaves |-> IF leaves[i].query = c THEN f(leaves[i]) ELSE leaves[i]]

----------------------------------------------------------------------------
(* Entry points.                                                            *)

\* attachLlmSpan(): the span is held before undici can end it.
attachLlmSpan(kind) == IF kind = "llm" THEN 1 ELSE 0

\* A call as its entry point leaves it, told when its outcome is already known.
issued(i, opened, told) ==
  [kind |-> i.kind, form |-> i.form, described |-> i.described, op |-> i.op,
   hop |-> IF i.kind \in pools /\ ~told THEN "waiting" ELSE "", covered |-> opened /\ i.kind \in pools,
   marked |-> opened /\ SPANNED(i.kind), moved |-> FALSE, reports |-> IF told THEN 1 ELSE 0, at |-> now,
   streamError |-> FALSE, error |-> i.form = "throws", read |-> FALSE]

\* What the entry point makes of a call that is described: a cursor, a
\* prepare, the driver's housekeeping and an ignored URL are passed on as
\* they are.
wrapped(c, i, opened, told) ==
  /\ query' = [query EXCEPT ![c] = issued(i, opened, told)]
  /\ leaves' = IF ~opened THEN leaves
              ELSE LET s == openSpan(c, i.op, attachLlmSpan(i.kind))
                   IN Append(leaves, IF told THEN end(s, i.form = "throws") ELSE s)

\* pg Client#query and Pool#query: a callback or a promise reports.
patchPg(c, i) ==
  /\ i.kind \in {"pg", "pgPool"}
  /\ wrapped(c, i, i.described /\ Attaches(i.op, FALSE), i.form \in {"throws", "other"})
\* mysql2 query and execute; a pool's execute returns no command to watch.
patchMysql2(c, i) ==
  /\ i.kind \in {"mysql", "mysqlPoolQuery", "mysqlPoolExecute"}
  /\ wrapped(c, i, i.described /\ Attaches(i.op, FALSE), i.form \in {"throws", "other"})
\* mongodb Connection#command: anything but a promise ends the span at once.
patchMongodb(c, i) ==
  /\ i.kind = "mongodb"
  /\ wrapped(c, i, i.described /\ Attaches(i.op, FALSE), i.form # "promise")
\* mssql Request#_query and #_execute: always a callback.
patchMssql(c, i) ==
  /\ i.kind = "mssql"
  /\ wrapped(c, i, i.described /\ Attaches(i.op, FALSE), i.form = "throws")
\* The undici and node:http channels; a model call's response is read too.
subscribeOutgoingHttp(c, i) ==
  /\ i.kind \in {"http", "llm"}
  /\ wrapped(c, i, i.described /\ Attaches(i.op, FALSE), FALSE)

issue(c, i) ==
  /\ query[c].kind = "idle"
  /\ \/ patchPg(c, i) \/ patchMysql2(c, i) \/ patchMongodb(c, i)
     \/ patchMssql(c, i) \/ subscribeOutgoingHttp(c, i)
  /\ UNCHANGED now

\* A pool hands the query to a connection: within the caller's context, where
\* cover() is in force, or in that of an operation releasing the connection.
\* The connection's own entry point is patched too.
hop(c, op, later) ==
  /\ query[c].hop = "waiting"
  /\ later \/ op = query[c].op
  /\ query' = [query EXCEPT ![c].hop = "done", ![c].moved = later]
  /\ leaves' = IF ~query[c].marked /\ query[c].described /\ Attaches(op, query[c].covered /\ ~later)
              THEN Append(leaves, openSpan(c, op, 0)) ELSE leaves
  /\ UNCHANGED now

\* An `error` event of a streaming mssql request, remembered for its callback.
onError(c) ==
  /\ query[c].kind = "mssql" /\ query[c].reports = 0
  /\ query' = [query EXCEPT ![c].streamError = TRUE]
  /\ UNCHANGED <<leaves, now>>

\* The driver reports: a callback, a settled promise, a channel event, and
\* possibly another of them for the same call.
driverReports(c, error) ==
  LET first == query[c].reports = 0
      outcome == error \/ query[c].streamError
  IN /\ query[c].kind # "idle" /\ query[c].reports < MaxReports /\ now < MaxTime
     /\ query[c].hop = "waiting" => error
     /\ query' = [query EXCEPT ![c].reports = @ + 1, ![c].hop = "",
                    ![c].at = IF first THEN now ELSE @,
                    ![c].error = IF first THEN outcome ELSE @]
     /\ Update(c, LAMBDA s : end(s, outcome))
     /\ UNCHANGED now

\* observeCall(): the caller read the response, cancelled it or saw it fail;
\* finish() tags the span once and lets it go.
observeCall(c) ==
  /\ query[c].kind = "llm" /\ ~query[c].read
  /\ query' = [query EXCEPT ![c].read = TRUE]
  /\ Update(c, LAMBDA s : release([s EXCEPT !.tagged = TRUE]))
  /\ UNCHANGED now

\* HOLD_GRACE_MS after the call ended.
grace(i) ==
  /\ i \in DOMAIN leaves /\ leaves[i].deferred /\ leaves[i].ends = 0
  /\ now > leaves[i].at
  /\ leaves' = [leaves EXCEPT ![i] = close(@, leaves[i].deferredError, leaves[i].at)]
  /\ UNCHANGED <<query, now>>
Tick == now < MaxTime /\ now' = now + 1 /\ UNCHANGED <<query, leaves>>

OutgoingNext ==
  \/ Tick
  \/ \E i \in DOMAIN leaves : grace(i)
  \/ \E c \in Queries :
       \/ \E i \in Issues : issue(c, i)
       \/ \E op \in {i.op : i \in Issues}, later \in BOOLEAN : hop(c, op, later)
       \/ onError(c) \/ observeCall(c)
       \/ \E error \in BOOLEAN : driverReports(c, error)

OutgoingSpec == OutgoingInit /\ [][OutgoingNext]_outgoingVars

OutgoingTypeOK ==
  /\ now \in 0 .. MaxTime
  /\ \A c \in Queries : query[c].reports \in 0 .. MaxReports
  /\ \A i \in DOMAIN leaves : leaves[i].query \in Queries /\ leaves[i].op \in Traced /\ leaves[i].holds \in 0 .. 1

----------------------------------------------------------------------------
(* Correctness.                                                             *)
SpansOf(c) == {i \in DOMAIN leaves : leaves[i].query = c}

\* The registry counts ends against starts: a span ends once, however often
\* the driver reports its call (outgoing-span.recorder close()).
SpanEndsOnce == \A i \in DOMAIN leaves : leaves[i].ends <= 1

\* A span tells how its call went when it was first reported, an earlier
\* stream error included, and lasts until then - not until a hold let it go.
SpanTellsTheOutcome ==
  \A i \in DOMAIN leaves :
    LET q == query[leaves[i].query]
    IN leaves[i].ends > 0 => leaves[i].error = q.error /\ leaves[i].duration = q.at

\* A query through a pool is one span, in the operation that asked for it:
\* always when the command is marked, and otherwise when it reaches the
\* connection in the caller's own context.
OneSpanPerQuery ==
  \A c \in Queries :
    LET q == query[c]
    IN /\ ~q.moved \/ q.marked => Cardinality(SpansOf(c)) <= 1
       /\ q.described /\ q.op \in Traced => \E i \in SpansOf(c) : leaves[i].op = q.op

\* What a model's response said reaches the span of the call, unless the
\* caller left it unread past the grace period.
UsageReachesTheSpan ==
  \A i \in DOMAIN leaves :
    LET s == leaves[i]
    IN query[s.query].kind = "llm" /\ s.ends > 0 /\ ~s.shippedTags =>
         now > s.at

\* A call to another system is one span that ends once and tells how the call
\* went, however often and in whichever context its driver reports it
\* (outgoing-span.recorder begin, close).
SpanOfEachCall ==
  OutgoingTypeOK /\ SpanEndsOnce /\ SpanTellsTheOutcome /\ OneSpanPerQuery /\ UsageReachesTheSpan

\* A call that was reported does not leave its span open: an open span would
\* hold up the trace of its operation.
SpansCloseOnceReported ==
  \A c \in Queries :
    query[c].reports > 0 ~> (query[c].reports > 0 /\ \A i \in SpansOf(c) : leaves[i].ends > 0)
=============================================================================
