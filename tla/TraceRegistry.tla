---------------------------- MODULE TraceRegistry ----------------------------
(***************************************************************************)
(* The registry of traces: an operation starts a trace under a key, the    *)
(* calls it makes open and close spans in the trace's tree, and when the   *)
(* operation is over its snapshot is handed to the buffer - after a second *)
(* more if spans are still open, and without those that never close.       *)
(*                                                                         *)
(* An operation names the snapshot object its startTrace() makes, which    *)
(* outlives its entry in the registry while a pluck waits on it.  Work an  *)
(* operation did not await keeps its async context: it may open and close  *)
(* spans at any time, when the trace is shipped, dropped or not its own    *)
(* any more.  How long completion is put off is FinalFlush's concern.      *)
(***************************************************************************)
EXTENDS Naturals, Sequences, FiniteSets

CONSTANTS
    Ops,      \* operations, and the snapshots they start
    Keys,     \* registry keys
    Spans,    \* spans, each opened at most once
    Errors    \* what a call may throw: the status an IntrinsicException
              \* carries, or 0 for an error that is not one

ASSUME TraceRegistryAssumption ==
    /\ IsFiniteSet(Ops) /\ IsFiniteSet(Keys) /\ IsFiniteSet(Spans)
    /\ Errors \subseteq Nat
    /\ "none" \notin Ops \cup Keys \cup Spans

VARIABLES
    kind,        \* "http", "graphql", "job": how the operation arrived
    keyOf,       \* its registry key
    pc,          \* where its completion is
    holds,       \* the snapshot its pluckSnapshot() waits on
    registered,  \* traceSnapshots, by key
    refs,        \* callerIdsByTraceId, by key: the ids of the span map
    snapshot,    \* what else a snapshot holds
    context,     \* the operation in whose async context a span was opened
    tree,        \* the snapshot a span's node hangs in
    above,       \* the nodes it hangs under
    type,        \* "start", "end"
    nodeError,   \* spans whose node carries an error
    calls,       \* spans whose call has not returned
    shipped,     \* what was inserted into the buffer, by snapshot
    failed,      \* history: root spans that threw before their trace ended
    captured     \* history: spans captureError() was called in

spanVars == <<context, tree, above, type, nodeError, calls, failed, captured>>
opVars   == <<kind, keyOf, pc, holds>>
vars     == <<opVars, registered, refs, snapshot, spanVars, shipped>>

\* A fresh SnapshotWithSignal.
Fresh == [refsCounter |-> 0, refsMarkedAsComplete |-> 0, errorStatusCode |-> 0,
          statusCode |-> 0, error |-> FALSE, unfinished |-> 0, named |-> FALSE, kept |-> FALSE]

Init ==
    /\ kind = [o \in Ops |-> "none"]
    /\ keyOf = [o \in Ops |-> "none"]
    /\ pc = [o \in Ops |-> "none"]
    /\ holds = [o \in Ops |-> "none"]
    /\ registered = [k \in Keys |-> "none"]
    /\ refs = [k \in Keys |-> {}]
    /\ snapshot = [o \in Ops |-> Fresh]
    /\ context = [s \in Spans |-> "none"]
    /\ tree = [s \in Spans |-> "none"]
    /\ above = [s \in Spans |-> {}]
    /\ type = [s \in Spans |-> "none"]
    /\ nodeError = {}
    /\ calls = {}
    /\ shipped = [o \in Ops |-> <<>>]
    /\ failed = {}
    /\ captured = {}

hasTrace(key) == registered[key] # "none"
Opened(snap)  == {s \in Spans : tree[s] = snap}
Tree(snap)    == IF shipped[snap] = <<>> THEN Opened(snap)
                 ELSE shipped[snap][Len(shipped[snap])].nodes
Open(snap)    == {s \in Tree(snap) : type[s] = "start"}
Incomplete(snap) ==
    snapshot[snap].refsCounter > snapshot[snap].refsMarkedAsComplete

(***************************************************************************)
(* Operations                                                              *)
(***************************************************************************)

\* startTrace(): a trace open under the key is overwritten.  Requests and jobs
\* mint their key; a graphql operation of its own takes what traceIdGenerator
\* returns, which may be a key in use, and has its name from the start.  (An
\* rpc or ws operation is like a graphql one with a fresh key.)  A preflight
\* request is kept even if it records no span: keepWithoutSpans().
startTrace(o, key, how, preflight) ==
    /\ pc[o] = "none"
    /\ how # "graphql" => \A p \in Ops : keyOf[p] # key
    /\ preflight => how = "http"
    /\ pc' = [pc EXCEPT ![o] = "running"]
    /\ kind' = [kind EXCEPT ![o] = how]
    /\ keyOf' = [keyOf EXCEPT ![o] = key]
    /\ registered' = [registered EXCEPT ![key] = o]
    /\ refs' = [refs EXCEPT ![key] = {}]
    /\ snapshot' = [snapshot EXCEPT ![o] = [Fresh EXCEPT !.named = how = "graphql",
                                                        !.kept = preflight]]
    /\ UNCHANGED <<holds, spanVars, shipped>>

\* addRouteMetadataToTrace(): a request that found its route is named by it.
addRouteMetadataToTrace(o) ==
    /\ pc[o] = "running"
    /\ kind[o] = "http"
    /\ hasTrace(keyOf[o])
    /\ ~snapshot[o].named
    /\ snapshot' = [snapshot EXCEPT ![registered[keyOf[o]]].named = TRUE]
    /\ UNCHANGED <<opVars, registered, refs, spanVars, shipped>>

\* The operation is over, and its completion put off: endHttpRequestTracing()
\* stands down if the trace is gone, a job settles once.
operationOver(o) ==
    /\ pc[o] = "running"
    /\ pc' = [pc EXCEPT ![o] = IF kind[o] = "http" /\ ~hasTrace(keyOf[o])
                               THEN "done" ELSE "over"]
    /\ UNCHANGED <<kind, keyOf, holds, registered, refs, snapshot, spanVars, shipped>>

\* The client of a request goes away: the response closes unfinished, ...
clientAborts(o) ==
    /\ pc[o] = "running"
    /\ kind[o] = "http"
    /\ pc' = [pc EXCEPT ![o] = "aborted"]
    /\ UNCHANGED <<kind, keyOf, holds, registered, refs, snapshot, spanVars, shipped>>

\* ... and after a grace period its trace is dropped.
abandonTrace(o) ==
    /\ pc[o] = "aborted"
    /\ pc' = [pc EXCEPT ![o] = "abandoned"]
    /\ registered' = [registered EXCEPT ![keyOf[o]] = "none"]
    /\ refs' = [refs EXCEPT ![keyOf[o]] = {}]
    /\ UNCHANGED <<kind, keyOf, holds, snapshot, spanVars, shipped>>

(***************************************************************************)
(* Spans                                                                   *)
(***************************************************************************)

\* attachToCaller(): under a caller that is known and still open, or at the root.
attachToCaller(s, caller, key) ==
    above' = [above EXCEPT ![s] = IF caller \in refs[key] /\ type[caller] = "start"
                                  THEN above[caller] \cup {caller}
                                  ELSE {}]

\* The node of a new span, in the tree of whatever is registered under the key.
OpenNode(o, s, caller) ==
    LET key == keyOf[o] IN
    /\ hasTrace(key)
    /\ type[s] = "none"
    /\ caller = "none" \/ (caller \in Spans /\ context[caller] = o)
    /\ context' = [context EXCEPT ![s] = o]
    /\ tree' = [tree EXCEPT ![s] = registered[key]]
    /\ type' = [type EXCEPT ![s] = "start"]
    /\ attachToCaller(s, caller, key)
    /\ refs' = [refs EXCEPT ![key] = @ \cup {s}]
    /\ calls' = calls \cup {s}
    /\ UNCHANGED <<opVars, registered, nodeError, failed, captured, shipped>>

\* internalStartTraceStep(), in the async context of an operation.  With no
\* trace under its key the call is made without a span.
internalStartTraceStep(o, s, caller) ==
    /\ pc[o] # "none"
    /\ OpenNode(o, s, caller)
    /\ snapshot' = [snapshot EXCEPT ![registered[keyOf[o]]].refsCounter = @ + 1]

\* Faulty: a manual span is not booked, only its end is.
createManualSpan_unbooked(o, s, caller) ==
    /\ pc[o] # "none"
    /\ caller \in refs[keyOf[o]]
    /\ OpenNode(o, s, caller)
    /\ UNCHANGED snapshot

\* createManualSpan(): only where the caller's span is known, ended or not.
createManualSpan(o, s, caller) ==
    /\ pc[o] # "none"
    /\ caller \in refs[keyOf[o]]
    /\ OpenNode(o, s, caller)
    /\ snapshot' = [snapshot EXCEPT ![registered[keyOf[o]]].refsCounter = @ + 1]

\* toErrorStatusCode()
toErrorStatusCode(error) ==
    CASE error = 0          -> 500
      [] error \in 400..499 -> error
      [] OTHER              -> 400

\* internalEndTraceStep(): the call returns, or throws.  The end is counted
\* for whatever is registered under the key, before the span is looked up.
internalEndTraceStep(s, throws, error) ==
    LET key  == keyOf[context[s]]
        snap == registered[key]
        ends == s \in refs[key]
        says == ends /\ throws /\ s \notin nodeError   \* error && !activeTrace.error
        root == above[s] = {}
    IN
    /\ s \in calls
    /\ calls' = calls \ {s}
    /\ snapshot' =
         IF snap = "none" THEN snapshot
         ELSE [snapshot EXCEPT
                 ![snap].refsMarkedAsComplete = @ + 1,
                 ![snap].errorStatusCode = IF says /\ root
                                           THEN toErrorStatusCode(error) ELSE @]
    /\ type' = IF ends THEN [type EXCEPT ![s] = "end"] ELSE type
    /\ nodeError' = IF says THEN nodeError \cup {s} ELSE nodeError
    /\ failed' = IF ends /\ throws /\ root /\ pc[tree[s]] \in {"running", "over"}
                 THEN failed \cup {s} ELSE failed
    /\ UNCHANGED <<opVars, registered, refs, context, tree, above, captured, shipped>>

\* captureError(), called in a span: it need not throw afterwards, and the
\* span may be over already.
captureError(o, s) ==
    /\ pc[o] # "none"
    /\ hasTrace(keyOf[o])
    /\ context[s] = o
    /\ s \in refs[keyOf[o]]
    /\ s \notin captured
    /\ nodeError' = nodeError \cup {s}
    /\ captured' = captured \cup {s}
    /\ UNCHANGED <<opVars, registered, refs, snapshot, context, tree, above, type,
                   calls, failed, shipped>>

(***************************************************************************)
(* Completion                                                              *)
(***************************************************************************)

\* endTrace() drops a trace with no span: no handler ran, or none was
\* instrumented.
Dropped(snap) ==
    /\ Tree(snap) = {}
    /\ snapshot[snap].named \/ ~snapshot[snap].kept

\* endTrace() of a trace that is kept: a root span that threw outranks a
\* success the transport reports, and an error of a root span is the trace's.
EndedTrace(snap, reported) ==
    LET known == IF kind[snap] = "job" THEN 0 ELSE snapshot[snap].errorStatusCode
        code  == IF known # 0 /\ reported < 400 THEN known ELSE reported
    IN  [snapshot[snap] EXCEPT
            !.statusCode = IF code = 0 THEN @ ELSE code,
            !.error = @ \/ \E s \in Tree(snap) : above[s] = {} /\ s \in nodeError]

\* What an operation tells endTrace(): a request its status code.
Reports(o) == IF kind[o] = "http" THEN {200, 404} ELSE {0}

\* leaveOutUnfinishedSpans(): the spans still open and all recorded under them.
LeftOut(snap) == {s \in Tree(snap) : s \in Open(snap) \/ above[s] \cap Open(snap) # {}}

\* The end of pluckSnapshot() and the insert after it: the trace leaves the
\* registry - whatever is registered under the key by now - and its tree goes
\* as it is, without `cut`, or empty if skipSpans says so.
HandOff(o, snap, ended, cut) ==
    /\ pc' = [pc EXCEPT ![o] = "done"]
    /\ holds' = [holds EXCEPT ![o] = "none"]
    /\ registered' = [registered EXCEPT ![keyOf[o]] = "none"]
    /\ refs' = [refs EXCEPT ![keyOf[o]] = {}]
    /\ snapshot' = [snapshot EXCEPT
                      ![snap] = [ended EXCEPT !.refsCounter = 0, !.kept = FALSE,
                                              !.refsMarkedAsComplete = 0,
                                              !.errorStatusCode = 0,
                                              !.unfinished = @ + Cardinality(cut)]]
    /\ \E skip \in IF kind[snap] = "job" THEN {FALSE} ELSE BOOLEAN :
         shipped' = [shipped EXCEPT ![snap] = Append(@,
                       [nodes |-> IF skip THEN {} ELSE Tree(snap) \ cut,
                        open |-> IF skip THEN {} ELSE Open(snap) \ cut,
                        unfinished |-> ended.unfinished + Cardinality(cut),
                        skipped |-> skip, statusCode |-> ended.statusCode,
                        error |-> ended.error])]
    /\ UNCHANGED <<kind, keyOf, spanVars>>

\* The completion of an operation whose trace is gone or is dropped.
completionOfNothing(o) ==
    LET key == keyOf[o] IN
    /\ pc[o] = "over"
    /\ hasTrace(key) => Dropped(registered[key])
    /\ pc' = [pc EXCEPT ![o] = "done"]
    /\ registered' = [registered EXCEPT ![key] = "none"]
    /\ UNCHANGED <<kind, keyOf, holds, refs, snapshot, spanVars, shipped>>

\* The completion of an operation whose spans have closed: shipped at once.
completion(o) ==
    LET snap == registered[keyOf[o]] IN
    /\ pc[o] = "over"
    /\ snap # "none"
    /\ ~Dropped(snap)
    /\ ~Incomplete(snap)
    /\ \E reported \in Reports(o) : HandOff(o, snap, EndedTrace(snap, reported), {})

\* Spans are open: pluckSnapshot() waits.
completionWaits(o) ==
    LET snap == registered[keyOf[o]] IN
    /\ pc[o] = "over"
    /\ snap # "none"
    /\ ~Dropped(snap)
    /\ Incomplete(snap)
    /\ \E reported \in Reports(o) :
         snapshot' = [snapshot EXCEPT ![snap] = EndedTrace(snap, reported)]
    /\ pc' = [pc EXCEPT ![o] = "waiting"]
    /\ holds' = [holds EXCEPT ![o] = snap]
    /\ UNCHANGED <<kind, keyOf, registered, refs, spanVars, shipped>>

\* SNAPSHOT_COMPLETION_TIMEOUT_MS later.
completionTimeout(o) ==
    LET snap == holds[o] IN
    /\ pc[o] = "waiting"
    /\ HandOff(o, snap, snapshot[snap], IF Incomplete(snap) THEN LeftOut(snap) ELSE {})

Next ==
    \/ \E o \in Ops, key \in Keys, how \in {"http", "graphql", "job"},
          preflight \in BOOLEAN : startTrace(o, key, how, preflight)
    \/ \E o \in Ops :
        \/ addRouteMetadataToTrace(o)
        \/ operationOver(o)
        \/ clientAborts(o)
        \/ abandonTrace(o)
        \/ completionOfNothing(o)
        \/ completion(o)
        \/ completionWaits(o)
        \/ completionTimeout(o)
    \/ \E o \in Ops, s \in Spans :
        \/ captureError(o, s)
        \/ \E caller \in Spans \cup {"none"} : internalStartTraceStep(o, s, caller)
        \/ \E caller \in Spans : createManualSpan(o, s, caller)
    \/ \E s \in Spans :
        \/ internalEndTraceStep(s, FALSE, 0)
        \/ \E error \in Errors : internalEndTraceStep(s, TRUE, error)

Spec == Init /\ [][Next]_vars

(***************************************************************************)
(* Properties                                                              *)
(***************************************************************************)

\* No other operation was given the key of this one.
Alone(o) == \A p \in Ops \ {o} : keyOf[p] # keyOf[o]

SnapshotRecords ==
    [refsCounter : Nat, refsMarkedAsComplete : Nat, errorStatusCode : {0} \cup 400..500,
     statusCode : {0, 200} \cup 400..500, error : BOOLEAN, unfinished : Nat,
     named : BOOLEAN, kept : BOOLEAN]
ShippedRecords ==
    [nodes : SUBSET Spans, open : SUBSET Spans, unfinished : Nat, skipped : BOOLEAN,
     statusCode : {0, 200} \cup 400..500, error : BOOLEAN]

TypeOK ==
    /\ kind \in [Ops -> {"none", "http", "graphql", "job"}]
    /\ keyOf \in [Ops -> Keys \cup {"none"}]
    /\ pc \in [Ops -> {"none", "running", "over", "aborted", "waiting", "done",
                   "abandoned"}]
    /\ holds \in [Ops -> Ops \cup {"none"}]
    /\ registered \in [Keys -> Ops \cup {"none"}]
    /\ refs \in [Keys -> SUBSET Spans]
    /\ snapshot \in [Ops -> SnapshotRecords]
    /\ context \in [Spans -> Ops \cup {"none"}]
    /\ tree \in [Spans -> Ops \cup {"none"}]
    /\ above \in [Spans -> SUBSET Spans]
    /\ type \in [Spans -> {"none", "start", "end"}]
    /\ nodeError \subseteq Spans /\ calls \subseteq Spans
    /\ failed \subseteq Spans /\ captured \subseteq Spans
    /\ shipped \in [Ops -> Seq(ShippedRecords)]

\* "An open node cannot be shipped" (leaveOutUnfinishedSpans): counting starts
\* and ends finds every span that is still open, whoever opened it, so a tree
\* that ships has none - unless another operation was given the same key.
ShippedTreeIsClosed ==
    \A o \in Ops : Alone(o) => \A i \in DOMAIN shipped[o] : shipped[o][i].open = {}

\* A shipped snapshot says what became of every span opened in it: it is in
\* the tree together with all it hangs under, or it is counted by the
\* observe.unfinishedSpans tag - even when operations share a key.
SpansAccountedFor ==
    \A o \in Ops : \A i \in DOMAIN shipped[o] : LET report == shipped[o][i] IN
        (\A j \in 1..i : ~shipped[o][j].skipped) =>
            /\ Cardinality(report.nodes) + report.unfinished = Cardinality(Opened(o))
            /\ \A s \in report.nodes : above[s] \subseteq report.nodes

\* Both maps are freed (abandonTrace, pluckSnapshot): a snapshot stays in the
\* registry only while its operation has a completion or an eviction to come,
\* and a span map only beside the snapshot whose nodes it names - even when
\* operations share a key.
RegistryFreed ==
    \A k \in Keys :
        /\ registered[k] # "none" => pc[registered[k]] \notin {"done", "abandoned"}
        /\ \A s \in refs[k] : tree[s] = registered[k]

\* An operation is reported once, when it is over, and even if a span of it
\* never closes ("rather than not at all", pluckSnapshot) - unless its client
\* went away or nothing was recorded under it.
ReportedOnce ==
    \A o \in Ops : Alone(o) =>
        /\ Len(shipped[o]) <= 1
        /\ pc[o] = "done" /\ Opened(o) # {} => shipped[o] # <<>>
        /\ pc[o] = "abandoned" => shipped[o] = <<>>

\* The requests of their own key in which one of these spans is a root that
\* threw before the trace ended were counted as errors.
CountedAsErrors(roots) ==
    \A o \in Ops : Alone(o) /\ kind[o] # "job" /\ roots \cap Opened(o) # {} =>
        \A i \in DOMAIN shipped[o] :
            shipped[o][i].statusCode >= 400 /\ shipped[o][i].error

\* "A root span that threw outranks a success status code reported by the
\* transport" (endTrace).
RootFailureCounts == CountedAsErrors(failed)

\* The same, of root spans in which no error had been captured.
UncapturedFailureCounts == CountedAsErrors(failed \ captured)

\* An operation's trace is told whole, truthfully and once, and then leaves the
\* registry: no open span, every span in the tree or counted, one report,
\* failures counted (endTrace, pluckSnapshot, abandonTrace).
TracesToldOnce ==
    /\ TypeOK
    /\ ShippedTreeIsClosed /\ SpansAccountedFor
    /\ ReportedOnce /\ UncapturedFailureCounts
    /\ RegistryFreed

==============================================================================
