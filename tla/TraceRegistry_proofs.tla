------------------------ MODULE TraceRegistry_proofs ------------------------
(***************************************************************************)
(* TraceRegistry for any operations, keys, spans and errors: a trace is    *)
(* told whole, truthfully and once, and then leaves the registry.  And     *)
(* MintedIds, the ids of traces, ServiceVersion, the release they are of,  *)
(* SourceContext, the source of their errors, and ProfileUploader, the     *)
(* profiles of their code, have the last sections.                         *)
(*                                                                         *)
(* The argument is in three layers.  The shape: what is registered, held   *)
(* and hung where, which is true however operations share their keys.  An  *)
(* operation that is alone with its key: until it is done its trace stays  *)
(* registered, and the two counters of the snapshot count its spans and    *)
(* those that ended - which is why comparing them finds every open span.   *)
(* What was told: how a report relates to the spans opened in its tree and *)
(* to the failures of its root spans.                                      *)
(***************************************************************************)
EXTENDS TraceRegistry, MintedIds, ServiceVersion, SourceContext, ProfileUploader, FiniteSetTheorems,
        NaturalsInduction, WellFoundedInduction, TLAPS

\* Between startTrace() and the end of its completion.
Live == {"running", "over", "aborted", "waiting"}

\* An operation has a key once it started, and waits on a snapshot of that key.
Started ==
    \A o \in Ops :
        /\ pc[o] = "none" <=> keyOf[o] = "none"
        /\ pc[o] = "none" => shipped[o] = <<>>
        /\ pc[o] = "waiting" => holds[o] # "none" /\ keyOf[holds[o]] = keyOf[o]

\* What is registered is under its own key, and neither finished nor shipped.
Registered ==
    \A k \in Keys :
        /\ registered[k] # "none" => /\ keyOf[registered[k]] = k /\ pc[registered[k]] \in Live
                                     /\ shipped[registered[k]] = <<>>
        /\ \A s \in refs[k] : type[s] # "none" /\ tree[s] = registered[k]

\* A span hangs in a snapshot of its operation's key, under spans of the same
\* snapshot and all that they hang under.
SpanShape ==
    \A s \in Spans :
        /\ type[s] = "none" => /\ tree[s] = "none" /\ context[s] = "none" /\ above[s] = {}
                               /\ s \notin calls /\ s \notin nodeError /\ s \notin failed
        /\ type[s] # "none" => /\ tree[s] # "none" /\ context[s] # "none"
                               /\ keyOf[tree[s]] # "none" /\ keyOf[context[s]] = keyOf[tree[s]]
        /\ \A a \in above[s] : /\ type[a] # "none" /\ tree[a] = tree[s]
                               /\ above[a] \subseteq above[s]

ShapeInv == TypeOK /\ Started /\ Registered /\ SpanShape

\* The two counters of an operation that has its key to itself.
AloneLive ==
    \A o \in Ops : Alone(o) /\ pc[o] \in Live =>
        /\ registered[keyOf[o]] = o
        /\ refs[keyOf[o]] = Opened(o)
        /\ \A s \in Opened(o) : type[s] = "start" <=> s \in calls
        /\ snapshot[o].refsCounter = Cardinality(Opened(o))
        /\ snapshot[o].refsMarkedAsComplete = Cardinality(Opened(o) \ calls)

\* What a snapshot says of its spans before and after it shipped.
ToldOf(o) ==
    /\ snapshot[o].unfinished = IF shipped[o] = <<>> THEN 0
                                ELSE shipped[o][Len(shipped[o])].unfinished
    /\ Alone(o) /\ shipped[o] # <<>> => pc[o] = "done" /\ Len(shipped[o]) = 1
    /\ Alone(o) /\ pc[o] = "done" /\ Opened(o) # {} => shipped[o] # <<>>
    /\ \A i \in 1..Len(shipped[o]) : LET report == shipped[o][i] IN
         /\ report.nodes \subseteq Opened(o)
         /\ Alone(o) => report.open = {}
         /\ (\A j \in 1..i : ~shipped[o][j].skipped) =>
               /\ Cardinality(report.nodes) + report.unfinished = Cardinality(Opened(o))
               /\ \A s \in report.nodes : above[s] \subseteq report.nodes

Told == \A o \in Ops : ToldOf(o)

\* What a snapshot says of a root span that threw, before and after it shipped.
FailureOf(o, s) ==
    Alone(o) /\ kind[o] # "job" /\ tree[s] = o =>
        /\ pc[o] \in {"running", "over"} =>
              snapshot[o].errorStatusCode >= 400 /\ s \in nodeError /\ above[s] = {}
        /\ pc[o] = "waiting" => snapshot[o].statusCode >= 400 /\ snapshot[o].error
        /\ \A i \in 1..Len(shipped[o]) : shipped[o][i].statusCode >= 400 /\ shipped[o][i].error

Failures ==
    /\ calls \cap nodeError \subseteq captured
    /\ \A o \in Ops, s \in failed \ captured : FailureOf(o, s)

\* The inductive invariant.
RegistryInv == ShapeInv /\ AloneLive /\ Told /\ Failures

-----------------------------------------------------------------------------
(***************************************************************************)
(* The shape                                                               *)
(***************************************************************************)

\* Nothing is registered where there is no trace, and a span map only beside one.
LEMMA NoTraceNoRefs ==
    ASSUME ShapeInv, NEW k \in Keys, registered[k] = "none"
    PROVE  refs[k] = {}
<1>1. \A s \in refs[k] : s \in Spans /\ type[s] # "none" /\ tree[s] = "none"
  BY DEF ShapeInv, TypeOK, Registered
<1>2. \A s \in Spans : type[s] # "none" => tree[s] # "none"
  BY DEF ShapeInv, SpanShape
<1> QED BY <1>1, <1>2

\* The key of an operation that started, and the operation under a key.
LEMMA KeysOfOperations ==
    ASSUME ShapeInv
    PROVE  /\ \A o \in Ops : pc[o] # "none" => keyOf[o] \in Keys
           /\ \A k \in Keys : registered[k] # "none" => registered[k] \in Ops
           /\ \A k \in Keys : k # "none"
           /\ \A o \in Ops : o # "none"
           /\ \A s \in Spans : s # "none"
           /\ \A s \in Spans : type[s] # "none" =>
                  /\ tree[s] \in Ops /\ context[s] \in Ops
                  /\ keyOf[tree[s]] \in Keys /\ keyOf[context[s]] \in Keys
<1>1. /\ keyOf \in [Ops -> Keys \cup {"none"}] /\ registered \in [Keys -> Ops \cup {"none"}]
      /\ tree \in [Spans -> Ops \cup {"none"}] /\ context \in [Spans -> Ops \cup {"none"}]
  BY DEF ShapeInv, TypeOK
<1>2. \A o \in Ops : pc[o] # "none" => keyOf[o] \in Keys
  BY <1>1 DEF ShapeInv, Started
<1>3. \A s \in Spans : type[s] # "none" =>
                  /\ tree[s] \in Ops /\ context[s] \in Ops
                  /\ keyOf[tree[s]] \in Keys /\ keyOf[context[s]] \in Keys
  <2> TAKE s \in Spans
  <2> HAVE type[s] # "none"
  <2>1. /\ tree[s] # "none" /\ context[s] # "none"
        /\ keyOf[tree[s]] # "none" /\ keyOf[context[s]] = keyOf[tree[s]]
    BY DEF ShapeInv, SpanShape
  <2> QED BY <1>1, <2>1
<1> QED BY <1>1, <1>2, <1>3, TraceRegistryAssumption

\* A flag of a snapshot is set, whatever the flag becomes; and a new snapshot.
LEMMA FlagsSet ==
    ASSUME NEW q \in SnapshotRecords, NEW flag \in BOOLEAN
    PROVE  [q EXCEPT !.named = flag] \in SnapshotRecords /\ [q EXCEPT !.kept = flag] \in SnapshotRecords
<1>1. [q EXCEPT !.named = flag] \in SnapshotRecords
  BY DEF SnapshotRecords
<1>2. [q EXCEPT !.kept = flag] \in SnapshotRecords
  BY DEF SnapshotRecords
<1> QED BY <1>1, <1>2

LEMMA SnapshotOpened ==
    ASSUME NEW named \in BOOLEAN, NEW kept \in BOOLEAN
    PROVE  [Fresh EXCEPT !.named = named, !.kept = kept] \in SnapshotRecords
<1> DEFINE q == [Fresh EXCEPT !.named = named]
<1>1. Fresh \in SnapshotRecords
  BY DEF Fresh, SnapshotRecords
<1>2. q \in SnapshotRecords
  BY <1>1, FlagsSet
<1>3. [q EXCEPT !.kept = kept] \in SnapshotRecords
  <2> HIDE DEF q
  <2> QED BY <1>2, FlagsSet
<1>4. [Fresh EXCEPT !.named = named, !.kept = kept] = [q EXCEPT !.kept = kept]
  BY DEF Fresh
<1> QED BY <1>3, <1>4

\* Spans and the keys of operations that started are left alone.
LEMMA SpansLeftAlone ==
    ASSUME ShapeInv, UNCHANGED spanVars, \A p \in Ops : keyOf[p] # "none" => keyOf'[p] = keyOf[p]
    PROVE  SpanShape'
<1>1. UNCHANGED <<context, tree, above, type, nodeError, calls, failed>>
  BY DEF spanVars
<1>2. SUFFICES ASSUME NEW s \in Spans, type[s] # "none"
               PROVE  keyOf'[tree[s]] # "none" /\ keyOf'[context[s]] = keyOf'[tree[s]]
  BY <1>1 DEF ShapeInv, SpanShape
<1>3. /\ tree[s] \in Ops /\ context[s] \in Ops /\ keyOf[tree[s]] # "none"
      /\ keyOf[context[s]] = keyOf[tree[s]]
  BY <1>2, KeysOfOperations DEF ShapeInv, SpanShape
<1> QED BY <1>3

\* What an operation under a key does to the registry concerns that key alone.
LEMMA KeyFreed ==
    ASSUME ShapeInv, NEW o \in Ops, pc[o] # "none", NEW x, NEW q \in Ops, keyOf[q] = keyOf[o],
           registered' = [registered EXCEPT ![keyOf[o]] = "none"],
           refs' = [refs EXCEPT ![keyOf[o]] = {}],
           pc' = [pc EXCEPT ![o] = x],
           \A p \in Ops \ {q} : shipped'[p] = shipped[p],
           UNCHANGED <<keyOf, tree, type>>
    PROVE  Registered' /\ registered' \in [Keys -> Ops \cup {"none"}] /\ refs' \in [Keys -> SUBSET Spans]
<1>1. /\ registered \in [Keys -> Ops \cup {"none"}] /\ refs \in [Keys -> SUBSET Spans]
      /\ pc \in [Ops -> {"none", "running", "over", "aborted", "waiting", "done", "abandoned"}]
  BY DEF ShapeInv, TypeOK
<1>2. keyOf[o] \in Keys
  BY KeysOfOperations
<1>3. registered' \in [Keys -> Ops \cup {"none"}] /\ refs' \in [Keys -> SUBSET Spans]
  BY <1>1, <1>2
<1>4. ASSUME NEW k \in Keys
      PROVE  /\ registered'[k] # "none" => /\ keyOf'[registered'[k]] = k /\ pc'[registered'[k]] \in Live
                                           /\ shipped'[registered'[k]] = <<>>
             /\ \A s \in refs'[k] : type'[s] # "none" /\ tree'[s] = registered'[k]
  <2>1. CASE k = keyOf[o]
    BY <1>1, <2>1
  <2>2. CASE k # keyOf[o]
    <3>1. registered'[k] = registered[k] /\ refs'[k] = refs[k]
      BY <1>1, <1>2, <2>2
    <3>2. /\ registered[k] # "none" => /\ keyOf[registered[k]] = k /\ pc[registered[k]] \in Live
                                       /\ shipped[registered[k]] = <<>> /\ registered[k] \in Ops
          /\ \A s \in refs[k] : type[s] # "none" /\ tree[s] = registered[k]
      BY KeysOfOperations DEF ShapeInv, Registered
    <3>3. registered[k] # "none" => registered[k] # o /\ registered[k] # q
      BY <2>2, <3>2
    <3> QED BY <1>1, <3>1, <3>2, <3>3
  <2> QED BY <2>1, <2>2
<1> QED BY <1>3, <1>4 DEF Registered

-----------------------------------------------------------------------------
\* startTrace()
LEMMA StartShape ==
    ASSUME ShapeInv, NEW o \in Ops, NEW key \in Keys, NEW how \in {"http", "graphql", "job"},
           NEW preflight \in BOOLEAN, startTrace(o, key, how, preflight)
    PROVE  ShapeInv'
<1>1. /\ pc[o] = "none" /\ keyOf[o] = "none" /\ shipped[o] = <<>>
      /\ pc' = [pc EXCEPT ![o] = "running"] /\ kind' = [kind EXCEPT ![o] = how]
      /\ keyOf' = [keyOf EXCEPT ![o] = key] /\ registered' = [registered EXCEPT ![key] = o]
      /\ refs' = [refs EXCEPT ![key] = {}] /\ UNCHANGED <<holds, spanVars, shipped>>
      /\ snapshot' = [snapshot EXCEPT ![o] = [Fresh EXCEPT !.named = how = "graphql",
                                                          !.kept = preflight]]
  BY DEF startTrace, ShapeInv, Started
<1>2. /\ keyOf \in [Ops -> Keys \cup {"none"}] /\ registered \in [Keys -> Ops \cup {"none"}]
      /\ pc \in [Ops -> {"none", "running", "over", "aborted", "waiting", "done", "abandoned"}]
      /\ refs \in [Keys -> SUBSET Spans] /\ snapshot \in [Ops -> SnapshotRecords]
  BY DEF ShapeInv, TypeOK
<1>3. TypeOK'
  <2>1. [Fresh EXCEPT !.named = how = "graphql", !.kept = preflight] \in SnapshotRecords
    <3>1. (how = "graphql") \in BOOLEAN
      OBVIOUS
    <3> QED BY <3>1, SnapshotOpened
  <2>2. snapshot' \in [Ops -> SnapshotRecords]
    BY <1>1, <1>2, <2>1
  <2>3. /\ kind' \in [Ops -> {"none", "http", "graphql", "job"}]
        /\ keyOf' \in [Ops -> Keys \cup {"none"}]
        /\ pc' \in [Ops -> {"none", "running", "over", "aborted", "waiting", "done", "abandoned"}]
        /\ holds' \in [Ops -> Ops \cup {"none"}]
        /\ registered' \in [Keys -> Ops \cup {"none"}] /\ refs' \in [Keys -> SUBSET Spans]
    BY <1>1 DEF ShapeInv, TypeOK
  <2> QED BY <1>1, <2>2, <2>3 DEF ShapeInv, TypeOK, spanVars
<1>4. \A p \in Ops : keyOf[p] # "none" => keyOf'[p] = keyOf[p]
  BY <1>1, <1>2
<1>5. SpanShape'
  BY <1>1, <1>4, SpansLeftAlone
<1>6. Started'
  <2>1. ASSUME NEW p \in Ops
        PROVE  /\ pc'[p] = "none" <=> keyOf'[p] = "none"
               /\ pc'[p] = "none" => shipped'[p] = <<>>
    <3>1. keyOf'[o] = key /\ pc'[o] = "running" /\ key # "none"
      BY <1>1, <1>2, KeysOfOperations
    <3>2. p # o => pc'[p] = pc[p] /\ keyOf'[p] = keyOf[p]
      BY <1>1, <1>2
    <3> QED BY <1>1, <3>1, <3>2 DEF ShapeInv, Started
  <2>2. ASSUME NEW p \in Ops, pc'[p] = "waiting"
        PROVE  holds'[p] # "none" /\ keyOf'[holds'[p]] = keyOf'[p]
    <3>1. pc[p] = "waiting" /\ p # o
      BY <1>1, <1>2, <2>2
    <3>2. holds[p] # "none" /\ keyOf[holds[p]] = keyOf[p] /\ keyOf[p] # "none" /\ holds[p] \in Ops
      BY <3>1 DEF ShapeInv, Started, TypeOK
    <3> QED BY <1>1, <1>4, <3>1, <3>2
  <2> QED BY <2>1, <2>2 DEF Started
<1>7. Registered'
  <2> SUFFICES ASSUME NEW k \in Keys
               PROVE  /\ registered'[k] # "none" => /\ keyOf'[registered'[k]] = k
                                                    /\ pc'[registered'[k]] \in Live
                                                    /\ shipped'[registered'[k]] = <<>>
                      /\ \A s \in refs'[k] : type'[s] # "none" /\ tree'[s] = registered'[k]
    BY DEF Registered
  <2>1. CASE k = key
    BY <1>1, <1>2, <2>1 DEF Live
  <2>2. CASE k # key
    <3>1. registered'[k] = registered[k] /\ refs'[k] = refs[k]
      BY <1>1, <1>2, <2>2
    <3>2. /\ registered[k] # "none" => /\ keyOf[registered[k]] = k /\ pc[registered[k]] \in Live
                                       /\ shipped[registered[k]] = <<>> /\ registered[k] \in Ops
          /\ \A s \in refs[k] : type[s] # "none" /\ tree[s] = registered[k]
      BY KeysOfOperations DEF ShapeInv, Registered
    <3>3. registered[k] # "none" => registered[k] # o
      BY <1>1, <3>2 DEF Live
    <3> QED BY <1>1, <1>2, <3>1, <3>2, <3>3 DEF spanVars
  <2> QED BY <2>1, <2>2
<1> QED BY <1>3, <1>5, <1>6, <1>7 DEF ShapeInv

\* addRouteMetadataToTrace(), and completionWaits(), but for the place of the
\* operation: the snapshot under its key changes.
LEMMA SnapshotShape ==
    ASSUME ShapeInv, snapshot' \in [Ops -> SnapshotRecords],
           UNCHANGED <<opVars, registered, refs, spanVars, shipped>>
    PROVE  ShapeInv'
<1> USE DEF opVars, spanVars
<1>1. TypeOK'
  BY DEF ShapeInv, TypeOK
<1>2. Started'
  BY DEF ShapeInv, Started
<1>3. Registered'
  BY DEF ShapeInv, Registered
<1>4. SpanShape'
  BY SpansLeftAlone
<1> QED BY <1>1, <1>2, <1>3, <1>4 DEF ShapeInv

\* A route names the snapshot and changes no more of it.
LEMMA RouteNames ==
    ASSUME ShapeInv, NEW o \in Ops, addRouteMetadataToTrace(o)
    PROVE  \A p \in Ops : /\ snapshot'[p].refsCounter = snapshot[p].refsCounter
                          /\ snapshot'[p].refsMarkedAsComplete = snapshot[p].refsMarkedAsComplete
                          /\ snapshot'[p].errorStatusCode = snapshot[p].errorStatusCode
                          /\ snapshot'[p].statusCode = snapshot[p].statusCode
                          /\ snapshot'[p].error = snapshot[p].error
                          /\ snapshot'[p].unfinished = snapshot[p].unfinished
<1> DEFINE snap == registered[keyOf[o]]
<1>1. /\ pc[o] # "none" /\ snap # "none" /\ snapshot' = [snapshot EXCEPT ![snap].named = TRUE]
  BY DEF addRouteMetadataToTrace, hasTrace
<1>2. snap \in Ops /\ snapshot \in [Ops -> SnapshotRecords]
  BY <1>1, KeysOfOperations DEF ShapeInv, TypeOK
<1> HIDE DEF snap
<1>3. /\ snapshot'[snap] = [snapshot[snap] EXCEPT !.named = TRUE]
      /\ \A p \in Ops \ {snap} : snapshot'[p] = snapshot[p]
  BY <1>1, <1>2
<1>4. snapshot[snap] \in SnapshotRecords
  BY <1>2
<1> QED BY <1>2, <1>3, <1>4 DEF SnapshotRecords

LEMMA RouteShape ==
    ASSUME ShapeInv, NEW o \in Ops, addRouteMetadataToTrace(o)
    PROVE  ShapeInv'
<1> DEFINE snap == registered[keyOf[o]]
<1>1. /\ pc[o] # "none" /\ snap # "none" /\ UNCHANGED <<opVars, registered, refs, spanVars, shipped>>
      /\ snapshot' = [snapshot EXCEPT ![snap].named = TRUE]
  BY DEF addRouteMetadataToTrace, hasTrace
<1>2. snap \in Ops
  BY <1>1, KeysOfOperations
<1> HIDE DEF snap
<1>3. snapshot' \in [Ops -> SnapshotRecords]
  <2>1. snapshot \in [Ops -> SnapshotRecords] /\ snapshot[snap] \in SnapshotRecords
    BY <1>2 DEF ShapeInv, TypeOK
  <2>2. [snapshot[snap] EXCEPT !.named = TRUE] \in SnapshotRecords
    <3>1. TRUE \in BOOLEAN
      OBVIOUS
    <3> QED BY <2>1, <3>1, FlagsSet
  <2> QED BY <1>1, <1>2, <2>1, <2>2
<1> QED BY <1>1, <1>3, SnapshotShape

\* operationOver(), clientAborts() and, with holds and the snapshot,
\* completionWaits(): the place of an operation changes that is not done.
LEMMA PlaceShape ==
    ASSUME ShapeInv, NEW o \in Ops, pc[o] \in Live, NEW x \in Live \cup {"done"},
           pc' = [pc EXCEPT ![o] = x],
           x = "done" => registered[keyOf[o]] = "none",
           x = "waiting" => holds'[o] \in Ops /\ keyOf[holds'[o]] = keyOf[o],
           \A p \in Ops \ {o} : holds'[p] = holds[p],
           holds' \in [Ops -> Ops \cup {"none"}], snapshot' \in [Ops -> SnapshotRecords],
           UNCHANGED <<kind, keyOf, registered, refs, spanVars, shipped>>
    PROVE  ShapeInv'
<1>1. /\ pc \in [Ops -> {"none", "running", "over", "aborted", "waiting", "done", "abandoned"}]
      /\ pc'[o] = x /\ \A p \in Ops \ {o} : pc'[p] = pc[p]
      /\ x \in {"running", "over", "aborted", "waiting", "done"}
  BY DEF ShapeInv, TypeOK, Live
<1>2. TypeOK'
  <2>1. pc' \in [Ops -> {"none", "running", "over", "aborted", "waiting", "done", "abandoned"}]
    BY <1>1
  <2> QED BY <2>1 DEF ShapeInv, TypeOK, spanVars
<1>3. Started'
  <2>1. ASSUME NEW p \in Ops
        PROVE  /\ pc'[p] = "none" <=> keyOf'[p] = "none"
               /\ pc'[p] = "none" => shipped'[p] = <<>>
    BY <1>1 DEF ShapeInv, Started, Live
  <2>2. ASSUME NEW p \in Ops, pc'[p] = "waiting"
        PROVE  holds'[p] # "none" /\ keyOf'[holds'[p]] = keyOf'[p]
    <3>1. CASE p = o
      BY <1>1, <2>2, <3>1, KeysOfOperations
    <3>2. CASE p # o
      BY <1>1, <2>2, <3>2 DEF ShapeInv, Started
    <3> QED BY <3>1, <3>2
  <2> QED BY <2>1, <2>2 DEF Started
<1>4. Registered'
  <2> SUFFICES ASSUME NEW k \in Keys
               PROVE  /\ registered'[k] # "none" => /\ keyOf'[registered'[k]] = k
                                                    /\ pc'[registered'[k]] \in Live
                                                    /\ shipped'[registered'[k]] = <<>>
                      /\ \A s \in refs'[k] : type'[s] # "none" /\ tree'[s] = registered'[k]
    BY DEF Registered
  <2>1. /\ registered[k] # "none" => /\ keyOf[registered[k]] = k /\ pc[registered[k]] \in Live
                                     /\ shipped[registered[k]] = <<>> /\ registered[k] \in Ops
        /\ \A s \in refs[k] : type[s] # "none" /\ tree[s] = registered[k]
    BY KeysOfOperations DEF ShapeInv, Registered
  <2>2. registered[k] # "none" => pc'[registered[k]] \in Live
    BY <1>1, <2>1
  <2> QED BY <2>1, <2>2 DEF spanVars
<1>5. SpanShape'
  BY SpansLeftAlone
<1> QED BY <1>2, <1>3, <1>4, <1>5 DEF ShapeInv

LEMMA OverShape ==
    ASSUME ShapeInv, NEW o \in Ops, operationOver(o) \/ clientAborts(o)
    PROVE  ShapeInv'
<1> DEFINE x == IF operationOver(o) THEN IF kind[o] = "http" /\ ~hasTrace(keyOf[o])
                                         THEN "done" ELSE "over"
                ELSE "aborted"
<1>1. /\ pc[o] \in Live /\ pc' = [pc EXCEPT ![o] = x] /\ x \in {"done", "over", "aborted"}
      /\ x = "done" => registered[keyOf[o]] = "none"
      /\ UNCHANGED <<kind, keyOf, holds, registered, refs, snapshot, spanVars, shipped>>
  BY DEF operationOver, clientAborts, hasTrace, Live
<1> HIDE DEF x
<1>2. holds \in [Ops -> Ops \cup {"none"}] /\ snapshot \in [Ops -> SnapshotRecords]
  BY DEF ShapeInv, TypeOK
<1> QED BY <1>1, <1>2, PlaceShape DEF Live

\* internalStartTraceStep() and createManualSpan() are alike in what they do.
Books(o, s, caller) ==
    /\ pc[o] # "none"
    /\ OpenNode(o, s, caller)
    /\ snapshot' = [snapshot EXCEPT ![registered[keyOf[o]]].refsCounter = @ + 1]

\* The spans that a new one is put under.
Hung(o, caller) == IF caller \in refs[keyOf[o]] /\ type[caller] = "start"
                   THEN above[caller] \cup {caller} ELSE {}

\* What opening a span comes to: the snapshot it is opened in, ...
LEMMA OpenedIn ==
    ASSUME ShapeInv, NEW o \in Ops, NEW s \in Spans, NEW caller \in Spans \cup {"none"},
           Books(o, s, caller)
    PROVE  /\ keyOf[o] \in Keys /\ registered[keyOf[o]] \in Ops
           /\ keyOf[registered[keyOf[o]]] = keyOf[o] /\ shipped[registered[keyOf[o]]] = <<>>
           /\ pc[registered[keyOf[o]]] \in Live
           /\ snapshot[registered[keyOf[o]]] \in SnapshotRecords
           /\ snapshot' = [snapshot EXCEPT ![registered[keyOf[o]]] =
                  [snapshot[registered[keyOf[o]]] EXCEPT
                       !.refsCounter = snapshot[registered[keyOf[o]]].refsCounter + 1]]
<1>1. keyOf[o] \in Keys /\ registered[keyOf[o]] # "none" /\ registered[keyOf[o]] \in Ops
  BY KeysOfOperations DEF Books, OpenNode, hasTrace
<1>2. /\ keyOf[registered[keyOf[o]]] = keyOf[o] /\ shipped[registered[keyOf[o]]] = <<>>
      /\ pc[registered[keyOf[o]]] \in Live
  BY <1>1 DEF ShapeInv, Registered
<1>3. snapshot[registered[keyOf[o]]] \in SnapshotRecords
  BY <1>1 DEF ShapeInv, TypeOK
<1> QED BY <1>1, <1>2, <1>3 DEF Books

LEMMA OpenedRecord ==
    ASSUME ShapeInv, NEW o \in Ops, NEW s \in Spans, NEW caller \in Spans \cup {"none"},
           Books(o, s, caller)
    PROVE  LET snap == registered[keyOf[o]] IN
           /\ snapshot'[snap].refsCounter = snapshot[snap].refsCounter + 1
           /\ snapshot'[snap].refsMarkedAsComplete = snapshot[snap].refsMarkedAsComplete
           /\ snapshot'[snap].errorStatusCode = snapshot[snap].errorStatusCode
           /\ snapshot'[snap].statusCode = snapshot[snap].statusCode
           /\ snapshot'[snap].error = snapshot[snap].error
           /\ snapshot'[snap].unfinished = snapshot[snap].unfinished
           /\ \A p \in Ops \ {snap} : snapshot'[p] = snapshot[p]
<1> DEFINE snap == registered[keyOf[o]]
           q == snapshot[snap]
           r == [q EXCEPT !.refsCounter = q.refsCounter + 1]
<1>1. snap \in Ops /\ q \in SnapshotRecords /\ snapshot' = [snapshot EXCEPT ![snap] = r]
  BY OpenedIn
<1>2. snapshot \in [Ops -> SnapshotRecords]
  BY DEF ShapeInv, TypeOK
<1> HIDE DEF snap
<1>3. snapshot'[snap] = r /\ \A p \in Ops \ {snap} : snapshot'[p] = snapshot[p]
  BY <1>1, <1>2
<1>4. /\ r.refsCounter = q.refsCounter + 1 /\ r.refsMarkedAsComplete = q.refsMarkedAsComplete
      /\ r.errorStatusCode = q.errorStatusCode /\ r.statusCode = q.statusCode
      /\ r.error = q.error /\ r.unfinished = q.unfinished
  BY <1>1 DEF SnapshotRecords
<1> QED BY <1>3, <1>4 DEF snap

\* ... what becomes of the span, ...
LEMMA OpenedAs ==
    ASSUME ShapeInv, NEW o \in Ops, NEW s \in Spans, NEW caller \in Spans \cup {"none"},
           Books(o, s, caller)
    PROVE  /\ type[s] = "none" /\ tree[s] = "none" /\ s \notin calls
           /\ s \notin nodeError /\ s \notin failed
           /\ type'[s] = "start" /\ tree'[s] = registered[keyOf[o]] /\ context'[s] = o
           /\ above'[s] = Hung(o, caller)
           /\ \A t \in Spans \ {s} : /\ type'[t] = type[t] /\ tree'[t] = tree[t]
                                     /\ context'[t] = context[t] /\ above'[t] = above[t]
           /\ refs'[keyOf[o]] = refs[keyOf[o]] \cup {s}
           /\ \A k \in Keys \ {keyOf[o]} : refs'[k] = refs[k]
           /\ calls' = calls \cup {s}
           /\ kind' = kind /\ keyOf' = keyOf /\ pc' = pc /\ holds' = holds
           /\ registered' = registered /\ shipped' = shipped
           /\ nodeError' = nodeError /\ failed' = failed /\ captured' = captured
<1>1. type[s] = "none" /\ tree[s] = "none" /\ s \notin calls /\ s \notin nodeError /\ s \notin failed
  BY DEF Books, OpenNode, ShapeInv, SpanShape
<1>2. /\ context \in [Spans -> Ops \cup {"none"}] /\ tree \in [Spans -> Ops \cup {"none"}]
      /\ type \in [Spans -> {"none", "start", "end"}] /\ above \in [Spans -> SUBSET Spans]
      /\ refs \in [Keys -> SUBSET Spans] /\ keyOf[o] \in Keys
  BY OpenedIn DEF ShapeInv, TypeOK
<1>3. /\ context' = [context EXCEPT ![s] = o]
      /\ tree' = [tree EXCEPT ![s] = registered[keyOf[o]]]
      /\ type' = [type EXCEPT ![s] = "start"]
      /\ above' = [above EXCEPT ![s] = Hung(o, caller)]
      /\ refs' = [refs EXCEPT ![keyOf[o]] = refs[keyOf[o]] \cup {s}]
      /\ calls' = calls \cup {s}
  BY DEF Books, OpenNode, attachToCaller, Hung
<1>4. /\ kind' = kind /\ keyOf' = keyOf /\ pc' = pc /\ holds' = holds
      /\ registered' = registered /\ shipped' = shipped
      /\ nodeError' = nodeError /\ failed' = failed /\ captured' = captured
  BY DEF Books, OpenNode, opVars
<1>5. /\ type'[s] = "start" /\ tree'[s] = registered[keyOf[o]] /\ context'[s] = o
      /\ above'[s] = Hung(o, caller)
      /\ \A t \in Spans \ {s} : /\ type'[t] = type[t] /\ tree'[t] = tree[t]
                                /\ context'[t] = context[t] /\ above'[t] = above[t]
  BY <1>2, <1>3
<1>6. /\ refs'[keyOf[o]] = refs[keyOf[o]] \cup {s}
      /\ \A k \in Keys \ {keyOf[o]} : refs'[k] = refs[k]
  BY <1>2, <1>3
<1> QED BY <1>1, <1>3, <1>4, <1>5, <1>6

\* ... and what it hangs under.
LEMMA OpenedUnder ==
    ASSUME ShapeInv, NEW o \in Ops, NEW s \in Spans, NEW caller \in Spans \cup {"none"},
           Books(o, s, caller)
    PROVE  /\ Hung(o, caller) \subseteq Spans \ {s}
           /\ \A a \in Hung(o, caller) : /\ type[a] # "none" /\ tree[a] = registered[keyOf[o]]
                                         /\ above[a] \subseteq Hung(o, caller)
<1>1. keyOf[o] \in Keys
  BY OpenedIn
<1>2. type[s] = "none"
  BY OpenedAs
<1>3. CASE caller \in refs[keyOf[o]] /\ type[caller] = "start"
  <2>1. Hung(o, caller) = above[caller] \cup {caller}
    BY <1>3 DEF Hung
  <2>2. caller \in Spans /\ above[caller] \subseteq Spans /\ tree[caller] = registered[keyOf[o]]
    BY <1>1, <1>3 DEF ShapeInv, Registered, TypeOK
  <2>3. \A a \in above[caller] : /\ type[a] # "none" /\ tree[a] = tree[caller]
                                 /\ above[a] \subseteq above[caller]
    BY <2>2 DEF ShapeInv, SpanShape
  <2>4. caller # s /\ s \notin above[caller]
    BY <1>2, <1>3, <2>3
  <2> QED BY <1>3, <2>1, <2>2, <2>3, <2>4
<1>4. CASE ~(caller \in refs[keyOf[o]] /\ type[caller] = "start")
  BY <1>4 DEF Hung
<1> QED BY <1>3, <1>4

\* ... The types that leaves.
LEMMA OpenedTypes ==
    ASSUME ShapeInv, NEW o \in Ops, NEW s \in Spans, NEW caller \in Spans \cup {"none"},
           Books(o, s, caller)
    PROVE  TypeOK'
<1> DEFINE snap == registered[keyOf[o]]
           hung == Hung(o, caller)
<1>1. /\ context \in [Spans -> Ops \cup {"none"}] /\ tree \in [Spans -> Ops \cup {"none"}]
      /\ type \in [Spans -> {"none", "start", "end"}] /\ above \in [Spans -> SUBSET Spans]
      /\ refs \in [Keys -> SUBSET Spans] /\ calls \subseteq Spans
      /\ snapshot \in [Ops -> SnapshotRecords]
  BY DEF ShapeInv, TypeOK
<1>2. keyOf[o] \in Keys /\ snap \in Ops /\ snapshot[snap] \in SnapshotRecords
  BY OpenedIn
<1>3. hung \subseteq Spans
  BY OpenedUnder
<1>4. /\ context' = [context EXCEPT ![s] = o] /\ tree' = [tree EXCEPT ![s] = snap]
      /\ type' = [type EXCEPT ![s] = "start"] /\ above' = [above EXCEPT ![s] = hung]
      /\ refs' = [refs EXCEPT ![keyOf[o]] = refs[keyOf[o]] \cup {s}]
      /\ calls' = calls \cup {s}
      /\ snapshot' = [snapshot EXCEPT ![snap] =
                          [snapshot[snap] EXCEPT !.refsCounter = snapshot[snap].refsCounter + 1]]
  BY DEF Books, OpenNode, attachToCaller, Hung
<1> HIDE DEF snap, hung
<1>5. [snapshot[snap] EXCEPT !.refsCounter = snapshot[snap].refsCounter + 1] \in SnapshotRecords
  BY <1>2 DEF SnapshotRecords
<1>6. snapshot' \in [Ops -> SnapshotRecords]
  BY <1>1, <1>4, <1>5
<1>7. /\ context' \in [Spans -> Ops \cup {"none"}] /\ tree' \in [Spans -> Ops \cup {"none"}]
      /\ type' \in [Spans -> {"none", "start", "end"}] /\ above' \in [Spans -> SUBSET Spans]
      /\ refs' \in [Keys -> SUBSET Spans] /\ calls' \subseteq Spans
  BY <1>1, <1>2, <1>3, <1>4
<1>8. UNCHANGED <<opVars, registered, nodeError, failed, captured, shipped>>
  BY DEF Books, OpenNode
<1> QED BY <1>6, <1>7, <1>8 DEF ShapeInv, TypeOK, opVars

LEMMA OpenShape ==
    ASSUME ShapeInv, NEW o \in Ops, NEW s \in Spans, NEW caller \in Spans \cup {"none"},
           Books(o, s, caller)
    PROVE  ShapeInv'
<1> DEFINE key == keyOf[o]
           snap == registered[key]
           hung == Hung(o, caller)
<1>1. key \in Keys /\ snap \in Ops /\ keyOf[snap] = key /\ keyOf[o] = key
  BY OpenedIn
<1>2. /\ type[s] = "none" /\ tree[s] = "none"
      /\ type'[s] = "start" /\ tree'[s] = snap /\ context'[s] = o /\ above'[s] = hung
      /\ \A t \in Spans \ {s} : /\ type'[t] = type[t] /\ tree'[t] = tree[t]
                                /\ context'[t] = context[t] /\ above'[t] = above[t]
  BY OpenedAs
<1>3. /\ refs'[key] = refs[key] \cup {s} /\ \A k \in Keys \ {key} : refs'[k] = refs[k]
      /\ calls' = calls \cup {s} /\ keyOf' = keyOf /\ pc' = pc /\ holds' = holds
      /\ registered' = registered /\ shipped' = shipped
      /\ nodeError' = nodeError /\ failed' = failed
  BY OpenedAs
<1>4. /\ hung \subseteq Spans \ {s}
      /\ \A a \in hung : type[a] # "none" /\ tree[a] = snap /\ above[a] \subseteq hung
  BY OpenedUnder
<1>5. registered[key] = snap
  OBVIOUS
<1> HIDE DEF hung, snap, key
<1>6. refs \in [Keys -> SUBSET Spans] /\ above \in [Spans -> SUBSET Spans]
  BY DEF ShapeInv, TypeOK
<1>7. TypeOK'
  BY OpenedTypes
<1>8. Started'
  BY <1>3 DEF ShapeInv, Started
<1>9. Registered'
  <2> SUFFICES ASSUME NEW k \in Keys
               PROVE  /\ registered'[k] # "none" => /\ keyOf'[registered'[k]] = k
                                                    /\ pc'[registered'[k]] \in Live
                                                    /\ shipped'[registered'[k]] = <<>>
                      /\ \A t \in refs'[k] : type'[t] # "none" /\ tree'[t] = registered'[k]
    BY DEF Registered
  <2>1. registered'[k] # "none" => /\ keyOf'[registered'[k]] = k /\ pc'[registered'[k]] \in Live
                                   /\ shipped'[registered'[k]] = <<>>
    BY <1>3 DEF ShapeInv, Registered
  <2>2. ASSUME NEW t \in refs'[k] PROVE type'[t] # "none" /\ tree'[t] = registered'[k]
    <3>1. t \in refs[k] \/ (t = s /\ k = key)
      BY <1>3
    <3>2. CASE t = s /\ k = key
      BY <1>2, <1>3, <1>5, <3>2
    <3>3. CASE t \in refs[k]
      <4>1. type[t] # "none" /\ tree[t] = registered[k] /\ t \in Spans
        BY <1>6, <3>3 DEF ShapeInv, Registered
      <4> QED BY <1>2, <1>3, <4>1
    <3> QED BY <3>1, <3>2, <3>3
  <2> QED BY <2>1, <2>2
<1>10. SpanShape'
  <2> SUFFICES ASSUME NEW t \in Spans
               PROVE  /\ type'[t] = "none" =>
                             /\ tree'[t] = "none" /\ context'[t] = "none" /\ above'[t] = {}
                             /\ t \notin calls' /\ t \notin nodeError' /\ t \notin failed'
                      /\ type'[t] # "none" =>
                             /\ tree'[t] # "none" /\ context'[t] # "none"
                             /\ keyOf'[tree'[t]] # "none" /\ keyOf'[context'[t]] = keyOf'[tree'[t]]
                      /\ \A a \in above'[t] : /\ type'[a] # "none" /\ tree'[a] = tree'[t]
                                              /\ above'[a] \subseteq above'[t]
    BY DEF SpanShape
  <2>1. CASE t = s
    <3>1. snap # "none" /\ o # "none" /\ key # "none"
      BY <1>1, KeysOfOperations
    <3>2. \A a \in hung : a \in Spans \ {s} /\ type[a] # "none" /\ tree[a] = snap
                          /\ above[a] \subseteq hung
      BY <1>4
    <3> QED BY <1>1, <1>2, <1>3, <2>1, <3>1, <3>2
  <2>2. CASE t # s
    <3>1. /\ type[t] = "none" => /\ tree[t] = "none" /\ context[t] = "none" /\ above[t] = {}
                                 /\ t \notin calls /\ t \notin nodeError /\ t \notin failed
          /\ type[t] # "none" => /\ tree[t] # "none" /\ context[t] # "none"
                                 /\ keyOf[tree[t]] # "none" /\ keyOf[context[t]] = keyOf[tree[t]]
          /\ \A a \in above[t] : /\ type[a] # "none" /\ tree[a] = tree[t]
                                 /\ above[a] \subseteq above[t]
      BY DEF ShapeInv, SpanShape
    <3>2. \A a \in above[t] : a \in Spans \ {s}
      BY <1>2, <1>6, <3>1
    <3> QED BY <1>2, <1>3, <2>2, <3>1, <3>2
  <2> QED BY <2>1, <2>2
<1> QED BY <1>7, <1>8, <1>9, <1>10 DEF ShapeInv

\* toErrorStatusCode() is the status of an error.
LEMMA ErrorStatus ==
    ASSUME NEW error \in Nat
    PROVE  toErrorStatusCode(error) \in 400..500
BY DEF toErrorStatusCode

LEMMA RecordEnded ==
    ASSUME NEW q \in SnapshotRecords, NEW c \in {0} \cup 400..500
    PROVE  LET r == [q EXCEPT !.refsMarkedAsComplete = q.refsMarkedAsComplete + 1,
                              !.errorStatusCode = c]
           IN  /\ r \in SnapshotRecords
               /\ r.refsCounter = q.refsCounter
               /\ r.refsMarkedAsComplete = q.refsMarkedAsComplete + 1
               /\ r.statusCode = q.statusCode /\ r.error = q.error
               /\ r.unfinished = q.unfinished /\ r.errorStatusCode = c
<1> DEFINE n == q.refsMarkedAsComplete + 1
           r == [q EXCEPT !.refsMarkedAsComplete = n, !.errorStatusCode = c]
<1>1. n \in Nat
  BY DEF SnapshotRecords
<1> HIDE DEF n
<1>2. r \in SnapshotRecords
  <2> DEFINE q1 == [q EXCEPT !.refsMarkedAsComplete = n]
             q2 == [q1 EXCEPT !.errorStatusCode = c]
  <2>1. q1 \in SnapshotRecords
    BY <1>1 DEF SnapshotRecords
  <2>2. r = q2
    BY DEF SnapshotRecords
  <2> HIDE DEF q1
  <2>3. q2 \in SnapshotRecords
    BY <2>1 DEF SnapshotRecords
  <2> QED BY <2>2, <2>3
<1>3. /\ r.refsCounter = q.refsCounter /\ r.refsMarkedAsComplete = n
      /\ r.statusCode = q.statusCode /\ r.error = q.error
      /\ r.unfinished = q.unfinished /\ r.errorStatusCode = c
  BY DEF SnapshotRecords
<1> QED BY <1>2, <1>3 DEF n

\* What the end of a call comes to: for the snapshot, ...
LEMMA EndedIn ==
    ASSUME ShapeInv, NEW s \in Spans, NEW throws \in BOOLEAN, NEW error \in Nat,
           internalEndTraceStep(s, throws, error)
    PROVE  LET key == keyOf[context[s]]
               snap == registered[key]
           IN
           /\ key \in Keys /\ context[s] \in Ops /\ type[s] # "none" /\ snap \in Ops \cup {"none"}
           /\ snapshot' \in [Ops -> SnapshotRecords]
           /\ \A p \in Ops \ {snap} : snapshot'[p] = snapshot[p]
           /\ snap # "none" =>
                /\ snapshot'[snap].refsCounter = snapshot[snap].refsCounter
                /\ snapshot'[snap].refsMarkedAsComplete = snapshot[snap].refsMarkedAsComplete + 1
                /\ snapshot'[snap].statusCode = snapshot[snap].statusCode
                /\ snapshot'[snap].error = snapshot[snap].error
                /\ snapshot'[snap].unfinished = snapshot[snap].unfinished
                /\ snapshot'[snap].errorStatusCode =
                     IF s \in refs[key] /\ throws /\ s \notin nodeError /\ above[s] = {}
                     THEN toErrorStatusCode(error) ELSE snapshot[snap].errorStatusCode
<1> DEFINE key == keyOf[context[s]]
           snap == registered[key]
           told == (s \in refs[key] /\ throws /\ s \notin nodeError) /\ above[s] = {}
           code == IF told THEN toErrorStatusCode(error) ELSE snapshot[snap].errorStatusCode
           r == [snapshot[snap] EXCEPT !.refsMarkedAsComplete = snapshot[snap].refsMarkedAsComplete + 1,
                                       !.errorStatusCode = code]
<1>1. type[s] # "none"
  BY DEF internalEndTraceStep, ShapeInv, SpanShape
<1>2. key \in Keys /\ context[s] \in Ops
  BY <1>1, KeysOfOperations
<1>3. snap \in Ops \cup {"none"}
  BY <1>2 DEF ShapeInv, TypeOK
<1>4. CASE snap = "none"
  <2>1. snapshot' = snapshot
    BY <1>4 DEF internalEndTraceStep
  <2> QED BY <1>1, <1>2, <1>3, <1>4, <2>1 DEF ShapeInv, TypeOK
<1>5. CASE snap # "none"
  <2>1. snap \in Ops
    BY <1>3, <1>5
  <2>2. snapshot \in [Ops -> SnapshotRecords] /\ snapshot[snap] \in SnapshotRecords
    BY <2>1 DEF ShapeInv, TypeOK
  <2>3. snapshot' = [snapshot EXCEPT ![snap] = r]
    <3>1. snapshot' = [snapshot EXCEPT ![snap].refsMarkedAsComplete = @ + 1,
                                       ![snap].errorStatusCode = IF told THEN toErrorStatusCode(error)
                                                                 ELSE @]
      BY <1>5 DEF internalEndTraceStep
    <3> HIDE DEF snap, told
    <3> QED BY <2>1, <2>2, <3>1, ZenonT(60) DEF SnapshotRecords
  <2>4. code \in {0} \cup 400..500
    <3>1. snapshot[snap].errorStatusCode \in {0} \cup 400..500
      <4> HIDE DEF snap, told
      <4> QED BY <2>2 DEF SnapshotRecords
    <3>2. toErrorStatusCode(error) \in 400..500
      BY ErrorStatus
    <3> HIDE DEF snap, told
    <3> QED BY <3>1, <3>2
  <2> HIDE DEF snap, code
  <2>5. /\ r \in SnapshotRecords
        /\ r.refsCounter = snapshot[snap].refsCounter
        /\ r.refsMarkedAsComplete = snapshot[snap].refsMarkedAsComplete + 1
        /\ r.statusCode = snapshot[snap].statusCode /\ r.error = snapshot[snap].error
        /\ r.unfinished = snapshot[snap].unfinished /\ r.errorStatusCode = code
    BY <2>2, <2>4, RecordEnded, ZenonT(60)
  <2> HIDE DEF r
  <2>6. /\ snapshot' \in [Ops -> SnapshotRecords] /\ snapshot'[snap] = r
        /\ \A p \in Ops \ {snap} : snapshot'[p] = snapshot[p]
    BY <2>1, <2>2, <2>3, <2>5
  <2> QED BY <1>1, <1>2, <2>1, <2>5, <2>6 DEF code, snap
<1> QED BY <1>4, <1>5

\* ... for the span, and for the rest.
LEMMA EndedAs ==
    ASSUME ShapeInv, NEW s \in Spans, NEW throws \in BOOLEAN, NEW error \in Nat,
           internalEndTraceStep(s, throws, error)
    PROVE  /\ s \in calls /\ calls' = calls \ {s}
           /\ type' \in [Spans -> {"none", "start", "end"}]
           /\ s \in refs[keyOf[context[s]]] => type'[s] = "end"
           /\ s \notin refs[keyOf[context[s]]] => type'[s] = type[s]
           /\ \A t \in Spans \ {s} : type'[t] = type[t]
           /\ nodeError' = IF s \in refs[keyOf[context[s]]] /\ throws /\ s \notin nodeError
                           THEN nodeError \cup {s} ELSE nodeError
           /\ failed' = IF s \in refs[keyOf[context[s]]] /\ throws /\ above[s] = {}
                           /\ pc[tree[s]] \in {"running", "over"}
                        THEN failed \cup {s} ELSE failed
           /\ kind' = kind /\ keyOf' = keyOf /\ pc' = pc /\ holds' = holds
           /\ registered' = registered /\ refs' = refs /\ shipped' = shipped
           /\ context' = context /\ tree' = tree /\ above' = above /\ captured' = captured
<1>1. type \in [Spans -> {"none", "start", "end"}]
  BY DEF ShapeInv, TypeOK
<1>2. type' = IF s \in refs[keyOf[context[s]]] THEN [type EXCEPT ![s] = "end"] ELSE type
  BY DEF internalEndTraceStep
<1>3. /\ type' \in [Spans -> {"none", "start", "end"}]
      /\ s \in refs[keyOf[context[s]]] => type'[s] = "end"
      /\ s \notin refs[keyOf[context[s]]] => type'[s] = type[s]
      /\ \A t \in Spans \ {s} : type'[t] = type[t]
  BY <1>1, <1>2
<1> QED BY <1>3 DEF internalEndTraceStep, opVars

LEMMA EndShape ==
    ASSUME ShapeInv, NEW s \in Spans, NEW throws \in BOOLEAN, NEW error \in Nat,
           internalEndTraceStep(s, throws, error)
    PROVE  ShapeInv'
<1>1. /\ calls' = calls \ {s} /\ type' \in [Spans -> {"none", "start", "end"}]
      /\ nodeError' \subseteq nodeError \cup {s} /\ failed' \subseteq failed \cup {s}
      /\ kind' = kind /\ keyOf' = keyOf /\ pc' = pc /\ holds' = holds
      /\ registered' = registered /\ refs' = refs /\ shipped' = shipped
      /\ context' = context /\ tree' = tree /\ above' = above /\ captured' = captured
  BY EndedAs
<1>2. type[s] # "none" /\ snapshot' \in [Ops -> SnapshotRecords]
  BY EndedIn
<1>3. \A t \in Spans : type'[t] = "none" <=> type[t] = "none"
  <2>1. \A t \in Spans \ {s} : type'[t] = type[t]
    BY EndedAs
  <2>2. type'[s] \in {"end", type[s]}
    BY EndedAs
  <2> QED BY <1>2, <2>1, <2>2
<1>4. TypeOK'
  <2>1. calls' \subseteq Spans /\ nodeError' \subseteq Spans /\ failed' \subseteq Spans
    BY <1>1 DEF ShapeInv, TypeOK
  <2> QED BY <1>1, <1>2, <2>1 DEF ShapeInv, TypeOK
<1>5. Started'
  BY <1>1 DEF ShapeInv, Started
<1>6. Registered'
  <2>1. \A k \in Keys : refs[k] \subseteq Spans
    BY DEF ShapeInv, TypeOK
  <2> QED BY <1>1, <1>3, <2>1 DEF ShapeInv, Registered
<1>7. SpanShape'
  <2>1. \A t \in Spans : above[t] \subseteq Spans
    BY DEF ShapeInv, TypeOK
  <2>2. \A t \in Spans : type'[t] = "none" =>
            t \notin calls' /\ t \notin nodeError' /\ t \notin failed'
    BY <1>1, <1>2, <1>3 DEF ShapeInv, SpanShape
  <2> QED BY <1>1, <1>3, <2>1, <2>2 DEF ShapeInv, SpanShape
<1> QED BY <1>4, <1>5, <1>6, <1>7 DEF ShapeInv

\* captureError()
LEMMA CaptureShape ==
    ASSUME ShapeInv, NEW o \in Ops, NEW s \in Spans, captureError(o, s)
    PROVE  ShapeInv'
<1>1. /\ pc[o] # "none" /\ s \in refs[keyOf[o]]
      /\ nodeError' = nodeError \cup {s} /\ captured' = captured \cup {s}
      /\ UNCHANGED <<opVars, registered, refs, snapshot, context, tree, above, type,
                     calls, failed, shipped>>
  BY DEF captureError
<1>2. type[s] # "none"
  BY <1>1, KeysOfOperations DEF ShapeInv, Registered
<1>3. TypeOK'
  <2>1. nodeError' \subseteq Spans /\ captured' \subseteq Spans
    BY <1>1 DEF ShapeInv, TypeOK
  <2> QED BY <1>1, <2>1 DEF ShapeInv, TypeOK, opVars
<1>4. Started'
  BY <1>1 DEF ShapeInv, Started, opVars
<1>5. Registered'
  BY <1>1 DEF ShapeInv, Registered, opVars
<1>6. SpanShape'
  BY <1>1, <1>2 DEF ShapeInv, SpanShape, opVars
<1> QED BY <1>3, <1>4, <1>5, <1>6 DEF ShapeInv

\* abandonTrace(), and the completion of an operation with nothing to tell.
LEMMA FreeShape ==
    ASSUME ShapeInv, NEW o \in Ops, pc[o] # "none", NEW x \in {"done", "abandoned"},
           pc' = [pc EXCEPT ![o] = x],
           registered' = [registered EXCEPT ![keyOf[o]] = "none"],
           refs' = [refs EXCEPT ![keyOf[o]] = {}],
           UNCHANGED <<kind, keyOf, holds, snapshot, spanVars, shipped>>
    PROVE  ShapeInv'
<1>1. /\ Registered' /\ registered' \in [Keys -> Ops \cup {"none"}]
      /\ refs' \in [Keys -> SUBSET Spans]
  BY KeyFreed DEF spanVars
<1>2. /\ pc' \in [Ops -> {"none", "running", "over", "aborted", "waiting", "done", "abandoned"}]
      /\ pc'[o] = x /\ \A p \in Ops \ {o} : pc'[p] = pc[p]
  BY DEF ShapeInv, TypeOK
<1>3. TypeOK'
  BY <1>1, <1>2 DEF ShapeInv, TypeOK, spanVars
<1>4. Started'
  <2>1. ASSUME NEW p \in Ops
        PROVE  /\ pc'[p] = "none" <=> keyOf'[p] = "none"
               /\ pc'[p] = "none" => shipped'[p] = <<>>
               /\ pc'[p] = "waiting" => holds'[p] # "none" /\ keyOf'[holds'[p]] = keyOf'[p]
    BY <1>2 DEF ShapeInv, Started
  <2> QED BY <2>1 DEF Started
<1>5. SpanShape'
  BY SpansLeftAlone
<1> QED BY <1>1, <1>3, <1>4, <1>5 DEF ShapeInv

LEMMA AbandonShape ==
    ASSUME ShapeInv, NEW o \in Ops, abandonTrace(o)
    PROVE  ShapeInv'
BY FreeShape DEF abandonTrace

\* A trace with no span has no span map.
LEMMA NothingInRefs ==
    ASSUME ShapeInv, NEW o \in Ops, completionOfNothing(o)
    PROVE  /\ pc[o] = "over" /\ keyOf[o] \in Keys /\ refs[keyOf[o]] = {}
           /\ registered[keyOf[o]] # "none" => Opened(registered[keyOf[o]]) = {}
<1> DEFINE key == keyOf[o]
           snap == registered[key]
<1>1. pc[o] = "over" /\ key \in Keys /\ (snap # "none" => Dropped(snap))
  BY KeysOfOperations DEF completionOfNothing, hasTrace
<1>2. CASE snap = "none"
  BY <1>1, <1>2, NoTraceNoRefs
<1>3. CASE snap # "none"
  <2>1. snap \in Ops /\ shipped[snap] = <<>>
    BY <1>1, <1>3, KeysOfOperations DEF ShapeInv, Registered
  <2>2. Opened(snap) = {}
    BY <1>1, <1>3, <2>1 DEF Dropped, Tree
  <2>3. \A s \in refs[key] : s \in Spans /\ tree[s] = snap
    BY <1>1 DEF ShapeInv, Registered, TypeOK
  <2>4. \A s \in Spans : tree[s] # snap
    BY <2>2 DEF Opened
  <2> QED BY <1>1, <2>2, <2>3, <2>4
<1> QED BY <1>2, <1>3

LEMMA NothingShape ==
    ASSUME ShapeInv, NEW o \in Ops, completionOfNothing(o)
    PROVE  ShapeInv'
<1>1. pc[o] = "over" /\ keyOf[o] \in Keys /\ refs[keyOf[o]] = {}
  BY NothingInRefs
<1>2. refs' = [refs EXCEPT ![keyOf[o]] = {}]
  BY <1>1 DEF completionOfNothing, ShapeInv, TypeOK
<1>3. /\ pc' = [pc EXCEPT ![o] = "done"] /\ registered' = [registered EXCEPT ![keyOf[o]] = "none"]
      /\ UNCHANGED <<kind, keyOf, holds, snapshot, spanVars, shipped>>
  BY DEF completionOfNothing
<1> QED BY <1>1, <1>2, <1>3, FreeShape

\* What endTrace() makes of a snapshot.
LEMMA EndedTraceIs ==
    ASSUME ShapeInv, NEW snap \in Ops, NEW reported \in {0, 200, 404}
    PROVE  /\ EndedTrace(snap, reported) \in SnapshotRecords
           /\ EndedTrace(snap, reported).refsCounter = snapshot[snap].refsCounter
           /\ EndedTrace(snap, reported).refsMarkedAsComplete = snapshot[snap].refsMarkedAsComplete
           /\ EndedTrace(snap, reported).unfinished = snapshot[snap].unfinished
           /\ kind[snap] # "job" /\ snapshot[snap].errorStatusCode >= 400 =>
                  EndedTrace(snap, reported).statusCode >= 400
           /\ (\E s \in Tree(snap) : above[s] = {} /\ s \in nodeError) =>
                  EndedTrace(snap, reported).error
<1> DEFINE q == snapshot[snap]
           known == IF kind[snap] = "job" THEN 0 ELSE q.errorStatusCode
           code == IF known # 0 /\ reported < 400 THEN known ELSE reported
           status == IF code = 0 THEN q.statusCode ELSE code
           erred == q.error \/ \E s \in Tree(snap) : above[s] = {} /\ s \in nodeError
           e == [q EXCEPT !.statusCode = status, !.error = erred]
<1>1. q \in SnapshotRecords
  BY DEF ShapeInv, TypeOK
<1>2. e = EndedTrace(snap, reported)
  BY DEF EndedTrace
<1> HIDE DEF q
<1>3. /\ status \in {0, 200} \cup 400..500
      /\ kind[snap] # "job" /\ q.errorStatusCode >= 400 => status >= 400
  BY <1>1 DEF SnapshotRecords
<1>4. erred \in BOOLEAN /\ ((\E s \in Tree(snap) : above[s] = {} /\ s \in nodeError) => erred)
  BY <1>1 DEF SnapshotRecords
<1> HIDE DEF status, erred
<1>5. e \in SnapshotRecords
  <2> DEFINE q1 == [q EXCEPT !.statusCode = status]
             q2 == [q1 EXCEPT !.error = erred]
  <2>1. q1 \in SnapshotRecords
    BY <1>1, <1>3 DEF SnapshotRecords
  <2>2. e = q2
    BY <1>1 DEF SnapshotRecords
  <2> HIDE DEF q1
  <2>3. q2 \in SnapshotRecords
    BY <1>4, <2>1 DEF SnapshotRecords
  <2> QED BY <2>2, <2>3
<1>6. /\ e.refsCounter = q.refsCounter /\ e.refsMarkedAsComplete = q.refsMarkedAsComplete
      /\ e.unfinished = q.unfinished /\ e.statusCode = status /\ e.error = erred
  BY <1>1 DEF SnapshotRecords
<1> HIDE DEF e
<1> QED BY <1>2, <1>3, <1>4, <1>5, <1>6 DEF q

LEMMA TreeIsOfSpans ==
    ASSUME ShapeInv, NEW snap \in Ops
    PROVE  /\ Tree(snap) \subseteq Spans /\ Open(snap) \subseteq Tree(snap)
           /\ LeftOut(snap) \subseteq Tree(snap) /\ Open(snap) \subseteq LeftOut(snap)
           /\ Opened(snap) \subseteq Spans
<1>1. Tree(snap) \subseteq Spans
  <2>1. CASE shipped[snap] = <<>>
    BY <2>1 DEF Tree, Opened
  <2>2. CASE shipped[snap] # <<>>
    <3>1. shipped[snap] \in Seq(ShippedRecords)
      BY DEF ShapeInv, TypeOK
    <3>2. Len(shipped[snap]) \in 1..Len(shipped[snap])
      BY <2>2, <3>1
    <3>3. shipped[snap][Len(shipped[snap])] \in ShippedRecords
      BY <3>1, <3>2
    <3> QED BY <2>2, <3>3 DEF Tree, ShippedRecords
  <2> QED BY <2>1, <2>2
<1> QED BY <1>1 DEF Open, LeftOut, Opened

\* A completion that waits has ended the trace.
LEMMA WaitEnds ==
    ASSUME ShapeInv, NEW o \in Ops, completionWaits(o)
    PROVE  LET snap == registered[keyOf[o]] IN
           /\ pc[o] = "over" /\ snap \in Ops /\ keyOf[snap] = keyOf[o]
           /\ \E reported \in {0, 200, 404} : snapshot'[snap] = EndedTrace(snap, reported)
           /\ \A p \in Ops \ {snap} : snapshot'[p] = snapshot[p]
           /\ \A p \in Ops : /\ snapshot'[p].refsCounter = snapshot[p].refsCounter
                             /\ snapshot'[p].refsMarkedAsComplete = snapshot[p].refsMarkedAsComplete
                             /\ snapshot'[p].unfinished = snapshot[p].unfinished
<1> DEFINE snap == registered[keyOf[o]]
<1>1. pc[o] = "over" /\ snap # "none"
  BY DEF completionWaits
<1>2. snap \in Ops /\ keyOf[snap] = keyOf[o] /\ snapshot \in [Ops -> SnapshotRecords]
  BY <1>1, KeysOfOperations DEF ShapeInv, Registered, TypeOK
<1>3. PICK reported \in Reports(o) : snapshot' = [snapshot EXCEPT ![snap] = EndedTrace(snap, reported)]
  BY DEF completionWaits
<1>4. reported \in {0, 200, 404}
  BY DEF Reports
<1>5. /\ EndedTrace(snap, reported).refsCounter = snapshot[snap].refsCounter
      /\ EndedTrace(snap, reported).refsMarkedAsComplete = snapshot[snap].refsMarkedAsComplete
      /\ EndedTrace(snap, reported).unfinished = snapshot[snap].unfinished
  BY <1>2, <1>4, EndedTraceIs
<1>6. /\ snapshot'[snap] = EndedTrace(snap, reported)
      /\ \A p \in Ops \ {snap} : snapshot'[p] = snapshot[p]
  BY <1>2, <1>3
<1> HIDE DEF snap
<1>7. \A p \in Ops : /\ snapshot'[p].refsCounter = snapshot[p].refsCounter
                     /\ snapshot'[p].refsMarkedAsComplete = snapshot[p].refsMarkedAsComplete
                     /\ snapshot'[p].unfinished = snapshot[p].unfinished
  BY <1>5, <1>6
<1> QED BY <1>1, <1>2, <1>4, <1>6, <1>7 DEF snap

LEMMA WaitsShape ==
    ASSUME ShapeInv, NEW o \in Ops, completionWaits(o)
    PROVE  ShapeInv'
<1> DEFINE snap == registered[keyOf[o]]
<1>1. pc[o] = "over" /\ snap # "none"
  BY DEF completionWaits
<1>2. snap \in Ops /\ keyOf[snap] = keyOf[o]
  BY <1>1, KeysOfOperations DEF ShapeInv, Registered
<1>3. PICK reported \in Reports(o) : snapshot' = [snapshot EXCEPT ![snap] = EndedTrace(snap, reported)]
  BY DEF completionWaits
<1>4. EndedTrace(snap, reported) \in SnapshotRecords
  BY <1>2, EndedTraceIs DEF Reports
<1>5. /\ pc' = [pc EXCEPT ![o] = "waiting"] /\ holds' = [holds EXCEPT ![o] = snap]
      /\ UNCHANGED <<kind, keyOf, registered, refs, spanVars, shipped>>
  BY DEF completionWaits
<1> HIDE DEF snap
<1>6. /\ snapshot' \in [Ops -> SnapshotRecords] /\ holds' \in [Ops -> Ops \cup {"none"}]
      /\ holds'[o] = snap /\ \A p \in Ops \ {o} : holds'[p] = holds[p]
  BY <1>2, <1>3, <1>4, <1>5 DEF ShapeInv, TypeOK
<1>7. pc[o] \in Live /\ "waiting" \in Live \cup {"done"}
  BY <1>1 DEF Live
<1> QED BY <1>2, <1>5, <1>6, <1>7, PlaceShape

\* What is left of a snapshot that was handed off.
LEMMA RecordReset ==
    ASSUME NEW q \in SnapshotRecords, NEW n \in Nat
    PROVE  LET r == [q EXCEPT !.refsCounter = 0, !.kept = FALSE, !.refsMarkedAsComplete = 0,
                              !.errorStatusCode = 0, !.unfinished = q.unfinished + n]
           IN  r \in SnapshotRecords /\ r.unfinished = q.unfinished + n
<1> DEFINE m == q.unfinished + n
           q4 == [q EXCEPT !.kept = FALSE]
           q1 == [q4 EXCEPT !.refsCounter = 0]
           q0 == [q1 EXCEPT !.refsMarkedAsComplete = 0]
           q2 == [q0 EXCEPT !.errorStatusCode = 0]
           q3 == [q2 EXCEPT !.unfinished = m]
           r == [q EXCEPT !.refsCounter = 0, !.kept = FALSE, !.refsMarkedAsComplete = 0,
                          !.errorStatusCode = 0, !.unfinished = m]
<1>1. m \in Nat
  BY DEF SnapshotRecords
<1> HIDE DEF m
<1>2. r = q3
  BY ZenonT(60) DEF SnapshotRecords
<1>3. q1 \in SnapshotRecords
  <2>1. q4 \in SnapshotRecords
    <3>1. FALSE \in BOOLEAN
      OBVIOUS
    <3> QED BY <3>1, FlagsSet
  <2> HIDE DEF q4
  <2> QED BY <2>1 DEF SnapshotRecords
<1> HIDE DEF q1
<1>3a. q0 \in SnapshotRecords
  BY <1>3 DEF SnapshotRecords
<1> HIDE DEF q0
<1>4. q2 \in SnapshotRecords
  BY <1>3a DEF SnapshotRecords
<1> HIDE DEF q2
<1>5. q3 \in SnapshotRecords /\ q3.unfinished = m
  BY <1>1, <1>4 DEF SnapshotRecords
<1> QED BY <1>2, <1>5 DEF m

\* What a hand-off comes to: the report, ...
Reported(snap, ended, cut, report) ==
    /\ report \in ShippedRecords
    /\ report.unfinished = ended.unfinished + Cardinality(cut)
    /\ report.statusCode = ended.statusCode /\ report.error = ended.error
    /\ report.skipped => report.nodes = {} /\ report.open = {}
    /\ ~report.skipped => report.nodes = Tree(snap) \ cut /\ report.open = Open(snap) \ cut

LEMMA HandedOff ==
    ASSUME ShapeInv, NEW o \in Ops, NEW snap \in Ops, NEW ended \in SnapshotRecords,
           NEW cut \in SUBSET Tree(snap), HandOff(o, snap, ended, cut)
    PROVE  /\ \E report : /\ Reported(snap, ended, cut, report)
                          /\ shipped'[snap] = Append(shipped[snap], report)
                          /\ snapshot'[snap].unfinished = report.unfinished
           /\ \A p \in Ops \ {snap} : shipped'[p] = shipped[p] /\ snapshot'[p] = snapshot[p]
           /\ shipped' \in [Ops -> Seq(ShippedRecords)] /\ snapshot' \in [Ops -> SnapshotRecords]
<1> DEFINE n == Cardinality(cut)
           r == [ended EXCEPT !.refsCounter = 0, !.kept = FALSE, !.refsMarkedAsComplete = 0,
                              !.errorStatusCode = 0, !.unfinished = ended.unfinished + n]
           rep(skip) == [nodes |-> IF skip THEN {} ELSE Tree(snap) \ cut,
                         open |-> IF skip THEN {} ELSE Open(snap) \ cut,
                         unfinished |-> ended.unfinished + n,
                         skipped |-> skip, statusCode |-> ended.statusCode,
                         error |-> ended.error]
<1>1. Tree(snap) \subseteq Spans /\ Open(snap) \subseteq Spans
  BY TreeIsOfSpans
<1>2. n \in Nat
  BY <1>1, TraceRegistryAssumption, FS_Subset, FS_CardinalityType
<1>3. PICK skip \in BOOLEAN : shipped' = [shipped EXCEPT ![snap] = Append(shipped[snap], rep(skip))]
  BY DEF HandOff
<1>4. snapshot' = [snapshot EXCEPT ![snap] = r]
  BY DEF HandOff
<1> HIDE DEF n
<1>5. r \in SnapshotRecords /\ r.unfinished = ended.unfinished + n
  BY <1>2, RecordReset
<1> HIDE DEF r
<1> DEFINE report == rep(skip)
<1>6. /\ report.nodes = IF skip THEN {} ELSE Tree(snap) \ cut
      /\ report.open = IF skip THEN {} ELSE Open(snap) \ cut
      /\ report.unfinished = ended.unfinished + n /\ report.skipped = skip
      /\ report.statusCode = ended.statusCode /\ report.error = ended.error
  OBVIOUS
<1>7. report \in ShippedRecords
  <2>1. /\ ended.unfinished + n \in Nat /\ ended.statusCode \in {0, 200} \cup 400..500
        /\ ended.error \in BOOLEAN
    BY <1>2 DEF SnapshotRecords
  <2>2. (IF skip THEN {} ELSE Tree(snap) \ cut) \in SUBSET Spans
    BY <1>1
  <2>3. (IF skip THEN {} ELSE Open(snap) \ cut) \in SUBSET Spans
    BY <1>1
  <2> QED BY <2>1, <2>2, <2>3 DEF ShippedRecords
<1> HIDE DEF report
<1>8. Reported(snap, ended, cut, report)
  BY <1>6, <1>7 DEF Reported, n
<1>9. /\ shipped' = [shipped EXCEPT ![snap] = Append(shipped[snap], report)]
      /\ shipped \in [Ops -> Seq(ShippedRecords)] /\ shipped[snap] \in Seq(ShippedRecords)
  BY <1>3 DEF report, ShapeInv, TypeOK
<1>10. Append(shipped[snap], report) \in Seq(ShippedRecords)
  BY <1>7, <1>9
<1>11. /\ shipped' \in [Ops -> Seq(ShippedRecords)]
       /\ shipped'[snap] = Append(shipped[snap], report)
       /\ \A p \in Ops \ {snap} : shipped'[p] = shipped[p]
  BY <1>9, <1>10
<1>12. /\ snapshot' \in [Ops -> SnapshotRecords] /\ snapshot'[snap] = r
       /\ \A p \in Ops \ {snap} : snapshot'[p] = snapshot[p]
  BY <1>4, <1>5 DEF ShapeInv, TypeOK
<1>13. snapshot'[snap].unfinished = report.unfinished
  BY <1>5, <1>6, <1>12
<1> QED BY <1>8, <1>11, <1>12, <1>13

\* ... and the registry.
LEMMA HandOffShape ==
    ASSUME ShapeInv, NEW o \in Ops, pc[o] \in Live, NEW snap \in Ops, keyOf[snap] = keyOf[o],
           NEW ended \in SnapshotRecords, NEW cut \in SUBSET Tree(snap), HandOff(o, snap, ended, cut)
    PROVE  ShapeInv'
<1>1. /\ \A p \in Ops \ {snap} : shipped'[p] = shipped[p]
      /\ shipped' \in [Ops -> Seq(ShippedRecords)] /\ snapshot' \in [Ops -> SnapshotRecords]
  BY HandedOff
<1>2. /\ pc' = [pc EXCEPT ![o] = "done"] /\ holds' = [holds EXCEPT ![o] = "none"]
      /\ registered' = [registered EXCEPT ![keyOf[o]] = "none"]
      /\ refs' = [refs EXCEPT ![keyOf[o]] = {}] /\ UNCHANGED <<kind, keyOf, spanVars>>
  BY DEF HandOff
<1>3. pc[o] # "none" /\ tree' = tree /\ type' = type
  BY <1>2 DEF Live, spanVars
<1>4. /\ Registered' /\ registered' \in [Keys -> Ops \cup {"none"}]
      /\ refs' \in [Keys -> SUBSET Spans]
  BY <1>1, <1>2, <1>3, KeyFreed
<1>5. /\ pc' \in [Ops -> {"none", "running", "over", "aborted", "waiting", "done", "abandoned"}]
      /\ pc'[o] = "done" /\ \A p \in Ops \ {o} : pc'[p] = pc[p]
      /\ holds' \in [Ops -> Ops \cup {"none"}] /\ \A p \in Ops \ {o} : holds'[p] = holds[p]
  BY <1>2 DEF ShapeInv, TypeOK
<1>6. TypeOK'
  BY <1>1, <1>2, <1>4, <1>5 DEF ShapeInv, TypeOK, spanVars
<1>7. Started'
  <2>1. ASSUME NEW p \in Ops
        PROVE  /\ pc'[p] = "none" <=> keyOf'[p] = "none"
               /\ pc'[p] = "waiting" => holds'[p] # "none" /\ keyOf'[holds'[p]] = keyOf'[p]
    BY <1>2, <1>3, <1>5 DEF ShapeInv, Started
  <2>2. ASSUME NEW p \in Ops, pc'[p] = "none"
        PROVE  shipped'[p] = <<>>
    <3>1. pc[p] = "none" /\ keyOf[p] = "none" /\ keyOf[o] # "none" /\ shipped[p] = <<>>
      BY <1>3, <1>5, <2>2 DEF ShapeInv, Started
    <3> QED BY <1>1, <3>1
  <2> QED BY <2>1, <2>2 DEF Started
<1>8. SpanShape'
  BY <1>2, SpansLeftAlone
<1> QED BY <1>4, <1>6, <1>7, <1>8 DEF ShapeInv

\* The two ways to a hand-off: at once, and after the wait.
LEMMA CompletionHandsOff ==
    ASSUME ShapeInv, NEW o \in Ops, completion(o)
    PROVE  LET snap == registered[keyOf[o]] IN
           /\ pc[o] = "over" /\ snap \in Ops /\ keyOf[snap] = keyOf[o] /\ ~Incomplete(snap)
           /\ \E reported \in {0, 200, 404} : HandOff(o, snap, EndedTrace(snap, reported), {})
<1> DEFINE snap == registered[keyOf[o]]
<1>1. pc[o] = "over" /\ snap # "none" /\ ~Incomplete(snap)
  BY DEF completion
<1>2. snap \in Ops /\ keyOf[snap] = keyOf[o]
  BY <1>1, KeysOfOperations DEF ShapeInv, Registered
<1>3. PICK reported \in Reports(o) : HandOff(o, snap, EndedTrace(snap, reported), {})
  BY DEF completion
<1>4. reported \in {0, 200, 404}
  BY DEF Reports
<1> QED BY <1>1, <1>2, <1>3, <1>4

LEMMA TimeoutHandsOff ==
    ASSUME ShapeInv, NEW o \in Ops, completionTimeout(o)
    PROVE  LET snap == holds[o]
               cut == IF Incomplete(snap) THEN LeftOut(snap) ELSE {}
           IN
           /\ pc[o] = "waiting" /\ snap \in Ops /\ keyOf[snap] = keyOf[o]
           /\ cut \in SUBSET Tree(snap) /\ snapshot[snap] \in SnapshotRecords
           /\ HandOff(o, snap, snapshot[snap], cut)
<1> DEFINE snap == holds[o]
           cut == IF Incomplete(snap) THEN LeftOut(snap) ELSE {}
<1>1. pc[o] = "waiting" /\ HandOff(o, snap, snapshot[snap], cut)
  BY DEF completionTimeout
<1>2. snap \in Ops /\ keyOf[snap] = keyOf[o]
  BY <1>1 DEF ShapeInv, Started, TypeOK
<1>3. cut \in SUBSET Tree(snap)
  BY <1>2, TreeIsOfSpans
<1>4. snapshot[snap] \in SnapshotRecords
  BY <1>2 DEF ShapeInv, TypeOK
<1> QED BY <1>1, <1>2, <1>3, <1>4

LEMMA CompletionShape ==
    ASSUME ShapeInv, NEW o \in Ops, completion(o) \/ completionTimeout(o)
    PROVE  ShapeInv'
<1>1. CASE completion(o)
  <2> DEFINE snap == registered[keyOf[o]]
  <2>1. pc[o] = "over" /\ snap \in Ops /\ keyOf[snap] = keyOf[o]
    BY <1>1, CompletionHandsOff
  <2>2. PICK reported \in {0, 200, 404} : HandOff(o, snap, EndedTrace(snap, reported), {})
    BY <1>1, CompletionHandsOff
  <2>3. EndedTrace(snap, reported) \in SnapshotRecords
    BY <2>1, EndedTraceIs
  <2>4. {} \in SUBSET Tree(snap) /\ pc[o] \in Live
    BY <2>1 DEF Live
  <2> HIDE DEF snap
  <2> QED BY <2>1, <2>2, <2>3, <2>4, HandOffShape
<1>2. CASE completionTimeout(o)
  <2> DEFINE snap == holds[o]
             cut == IF Incomplete(snap) THEN LeftOut(snap) ELSE {}
  <2>1. /\ pc[o] = "waiting" /\ snap \in Ops /\ keyOf[snap] = keyOf[o]
        /\ cut \in SUBSET Tree(snap) /\ snapshot[snap] \in SnapshotRecords
        /\ HandOff(o, snap, snapshot[snap], cut)
    BY <1>2, TimeoutHandsOff
  <2>2. pc[o] \in Live
    BY <2>1 DEF Live
  <2> HIDE DEF snap, cut
  <2> QED BY <2>1, <2>2, HandOffShape
<1> QED BY <1>1, <1>2

-----------------------------------------------------------------------------
(***************************************************************************)
(* An operation alone with its key                                         *)
(***************************************************************************)

\* The part of AloneLive that is about one operation.
Counted(o) ==
    /\ registered[keyOf[o]] = o
    /\ refs[keyOf[o]] = Opened(o)
    /\ \A s \in Opened(o) : type[s] = "start" <=> s \in calls
    /\ snapshot[o].refsCounter = Cardinality(Opened(o))
    /\ snapshot[o].refsMarkedAsComplete = Cardinality(Opened(o) \ calls)

LEMMA SetsOfSpans ==
    ASSUME NEW T, T \subseteq Spans
    PROVE  IsFiniteSet(T) /\ Cardinality(T) \in Nat
BY TraceRegistryAssumption, FS_Subset, FS_CardinalityType

\* A step that does not touch the spans.
LEMMA AloneLeftAlone ==
    ASSUME AloneLive, UNCHANGED <<keyOf, tree, type, calls>>,
           \A p \in Ops : Alone(p) /\ pc'[p] \in Live =>
               /\ pc[p] \in Live
               /\ registered'[keyOf[p]] = registered[keyOf[p]] /\ refs'[keyOf[p]] = refs[keyOf[p]]
               /\ snapshot'[p].refsCounter = snapshot[p].refsCounter
               /\ snapshot'[p].refsMarkedAsComplete = snapshot[p].refsMarkedAsComplete
    PROVE  AloneLive'
<1>1. \A p \in Ops : (Alone(p)' <=> Alone(p)) /\ Opened(p)' = Opened(p)
  BY DEF Alone, Opened
<1>2. \A p \in Ops : Alone(p) /\ pc[p] \in Live => Counted(p)
  BY DEF AloneLive, Counted
<1>3. ASSUME NEW p \in Ops, Alone(p)', pc'[p] \in Live PROVE Counted(p)'
  <2>1. Counted(p) /\ Opened(p)' = Opened(p) /\ Alone(p)
    BY <1>1, <1>2, <1>3
  <2>2. /\ registered'[keyOf[p]] = registered[keyOf[p]] /\ refs'[keyOf[p]] = refs[keyOf[p]]
        /\ snapshot'[p].refsCounter = snapshot[p].refsCounter
        /\ snapshot'[p].refsMarkedAsComplete = snapshot[p].refsMarkedAsComplete
    BY <1>3, <2>1
  <2> QED BY <2>1, <2>2 DEF Counted
<1> QED BY <1>3 DEF AloneLive, Counted

LEMMA StartAlone ==
    ASSUME ShapeInv, AloneLive, NEW o \in Ops, NEW key \in Keys,
           NEW how \in {"http", "graphql", "job"},
           NEW preflight \in BOOLEAN, startTrace(o, key, how, preflight)
    PROVE  AloneLive'
<1>1. /\ pc[o] = "none" /\ keyOf[o] = "none" /\ pc' = [pc EXCEPT ![o] = "running"]
      /\ keyOf' = [keyOf EXCEPT ![o] = key] /\ registered' = [registered EXCEPT ![key] = o]
      /\ refs' = [refs EXCEPT ![key] = {}] /\ UNCHANGED <<tree, type, calls>>
      /\ snapshot' = [snapshot EXCEPT ![o] = [Fresh EXCEPT !.named = how = "graphql",
                                                          !.kept = preflight]]
  BY DEF startTrace, ShapeInv, Started, spanVars
<1>2. /\ keyOf \in [Ops -> Keys \cup {"none"}] /\ registered \in [Keys -> Ops \cup {"none"}]
      /\ pc \in [Ops -> {"none", "running", "over", "aborted", "waiting", "done", "abandoned"}]
      /\ refs \in [Keys -> SUBSET Spans] /\ snapshot \in [Ops -> SnapshotRecords]
  BY DEF ShapeInv, TypeOK
<1>3. /\ pc'[o] = "running" /\ keyOf'[o] = key /\ registered'[key] = o /\ refs'[key] = {}
      /\ \A p \in Ops \ {o} : /\ pc'[p] = pc[p] /\ keyOf'[p] = keyOf[p]
                              /\ snapshot'[p] = snapshot[p]
      /\ \A k \in Keys \ {key} : registered'[k] = registered[k] /\ refs'[k] = refs[k]
  BY <1>1, <1>2
<1>4. snapshot'[o].refsCounter = 0 /\ snapshot'[o].refsMarkedAsComplete = 0
  <2>1. snapshot'[o] = [Fresh EXCEPT !.named = how = "graphql", !.kept = preflight]
    BY <1>1, <1>2
  <2> QED BY <2>1 DEF Fresh
<1>5. Opened(o) = {}
  <2>1. \A s \in Spans : tree[s] # o
    BY <1>1, KeysOfOperations DEF ShapeInv, SpanShape
  <2> QED BY <2>1 DEF Opened
<1>6. \A p \in Ops : Opened(p)' = Opened(p)
  BY <1>1 DEF Opened
<1>7. ASSUME NEW p \in Ops, Alone(p)', pc'[p] \in Live PROVE Counted(p)'
  <2>1. CASE p = o
    <3>1. Opened(p)' = {} /\ Cardinality({}) = 0
      BY <1>5, <1>6, <2>1, FS_EmptySet
    <3> QED BY <1>3, <1>4, <2>1, <3>1 DEF Counted
  <2>2. CASE p # o
    <3>1. keyOf[p] # key /\ pc[p] \in Live /\ keyOf'[p] = keyOf[p]
      BY <1>3, <1>7, <2>2 DEF Alone
    <3>2. keyOf[p] \in Keys /\ keyOf[p] # "none"
      BY <3>1, KeysOfOperations DEF Live
    <3>3. Alone(p)
      <4>1. \A q \in Ops \ {p} : keyOf[q] # keyOf[p]
        BY <1>1, <1>3, <1>7, <2>2, <3>2 DEF Alone
      <4> QED BY <4>1 DEF Alone
    <3>4. Counted(p)
      BY <3>1, <3>3 DEF AloneLive, Counted
    <3>5. /\ registered'[keyOf[p]] = registered[keyOf[p]] /\ refs'[keyOf[p]] = refs[keyOf[p]]
          /\ snapshot'[p] = snapshot[p]
      BY <1>3, <2>2, <3>1, <3>2
    <3> QED BY <1>1, <1>6, <3>1, <3>4, <3>5 DEF Counted
  <2> QED BY <2>1, <2>2
<1> QED BY <1>7 DEF AloneLive, Counted

\* An operation that frees its key leaves those of others.
LEMMA FreeAlone ==
    ASSUME ShapeInv, AloneLive, NEW o \in Ops, pc[o] # "none", NEW x \in {"done", "abandoned"},
           NEW q \in Ops, keyOf[q] = keyOf[o],
           pc' = [pc EXCEPT ![o] = x],
           registered' = [registered EXCEPT ![keyOf[o]] = "none"],
           refs' = [refs EXCEPT ![keyOf[o]] = {}],
           \A p \in Ops \ {q} : snapshot'[p] = snapshot[p],
           UNCHANGED <<keyOf, tree, type, calls>>
    PROVE  AloneLive'
<1>1. /\ registered \in [Keys -> Ops \cup {"none"}] /\ refs \in [Keys -> SUBSET Spans]
      /\ pc \in [Ops -> {"none", "running", "over", "aborted", "waiting", "done", "abandoned"}]
      /\ keyOf[o] \in Keys
  BY KeysOfOperations DEF ShapeInv, TypeOK
<1>2. ASSUME NEW p \in Ops, Alone(p), pc'[p] \in Live
      PROVE  /\ pc[p] \in Live
             /\ registered'[keyOf[p]] = registered[keyOf[p]] /\ refs'[keyOf[p]] = refs[keyOf[p]]
             /\ snapshot'[p].refsCounter = snapshot[p].refsCounter
             /\ snapshot'[p].refsMarkedAsComplete = snapshot[p].refsMarkedAsComplete
  <2>1. p # o /\ pc[p] \in Live
    BY <1>1, <1>2 DEF Live
  <2>2. keyOf[p] # keyOf[o] /\ p # q
    BY <1>2, <2>1 DEF Alone
  <2>3. keyOf[p] \in Keys
    BY <2>1, KeysOfOperations DEF Live
  <2> QED BY <1>1, <2>1, <2>2, <2>3
<1> QED BY <1>2, AloneLeftAlone

LEMMA OpenAlone ==
    ASSUME ShapeInv, AloneLive, NEW o \in Ops, NEW s \in Spans,
           NEW caller \in Spans \cup {"none"}, Books(o, s, caller)
    PROVE  AloneLive'
<1> DEFINE key == keyOf[o]
           snap == registered[key]
<1>1. key \in Keys /\ snap \in Ops /\ keyOf[snap] = key
  BY OpenedIn
<1>2. /\ tree[s] = "none" /\ s \notin calls /\ type'[s] = "start" /\ tree'[s] = snap
      /\ \A t \in Spans \ {s} : type'[t] = type[t] /\ tree'[t] = tree[t]
  BY OpenedAs
<1>3. /\ refs'[key] = refs[key] \cup {s} /\ \A k \in Keys \ {key} : refs'[k] = refs[k]
      /\ calls' = calls \cup {s} /\ keyOf' = keyOf /\ pc' = pc /\ registered' = registered
  BY OpenedAs
<1>4. /\ snapshot'[snap].refsCounter = snapshot[snap].refsCounter + 1
      /\ snapshot'[snap].refsMarkedAsComplete = snapshot[snap].refsMarkedAsComplete
      /\ \A p \in Ops \ {snap} : snapshot'[p] = snapshot[p]
  BY OpenedRecord
<1>5. registered[key] = snap
  OBVIOUS
<1> HIDE DEF key, snap
<1>6. \A p \in Ops : s \notin Opened(p)
  BY <1>2, KeysOfOperations DEF Opened
<1>7. \A p \in Ops : Opened(p)' = IF p = snap THEN Opened(p) \cup {s} ELSE Opened(p)
  BY <1>1, <1>2, KeysOfOperations DEF Opened
<1>8. ASSUME NEW p \in Ops, Alone(p)', pc'[p] \in Live PROVE Counted(p)'
  <2>1. Alone(p) /\ pc[p] \in Live
    BY <1>3, <1>8 DEF Alone
  <2>2. Counted(p) /\ keyOf[p] \in Keys
    BY <2>1, KeysOfOperations DEF AloneLive, Counted, Live
  <2>3. CASE p = snap
    <3>1. /\ registered'[keyOf'[p]] = p /\ refs'[keyOf'[p]] = Opened(p)'
      BY <1>1, <1>3, <1>5, <1>7, <2>2, <2>3 DEF Counted
    <3>2. \A t \in Opened(p)' : type'[t] = "start" <=> t \in calls'
      <4>1. \A t \in Opened(p) : t \in Spans \ {s} /\ (type[t] = "start" <=> t \in calls)
        BY <1>6, <2>2 DEF Counted, Opened
      <4> QED BY <1>2, <1>3, <1>7, <2>3, <4>1
    <3>3. /\ Cardinality(Opened(p)') = Cardinality(Opened(p)) + 1
          /\ Opened(p)' \ calls' = Opened(p) \ calls
      <4>1. IsFiniteSet(Opened(p))
        BY SetsOfSpans DEF Opened
      <4>2. Cardinality(Opened(p) \cup {s}) = Cardinality(Opened(p)) + 1
        BY <1>6, <4>1, FS_AddElement
      <4> QED BY <1>3, <1>6, <1>7, <2>3, <4>2
    <3> QED BY <1>4, <2>2, <2>3, <3>1, <3>2, <3>3 DEF Counted
  <2>4. CASE p # snap
    <3>1. keyOf[p] # key
      BY <1>1, <2>1, <2>4 DEF Alone
    <3>2. /\ registered'[keyOf'[p]] = p /\ refs'[keyOf'[p]] = Opened(p)' /\ Opened(p)' = Opened(p)
      BY <1>3, <1>7, <2>2, <2>4, <3>1 DEF Counted
    <3>3. \A t \in Opened(p) : t \in Spans \ {s} /\ (type[t] = "start" <=> t \in calls)
      BY <1>6, <2>2 DEF Counted, Opened
    <3>4. Opened(p)' \ calls' = Opened(p) \ calls
      BY <1>3, <1>6, <3>2
    <3>5. snapshot'[p] = snapshot[p]
      BY <1>4, <2>4
    <3> QED BY <1>2, <1>3, <2>2, <3>2, <3>3, <3>4, <3>5 DEF Counted
  <2> QED BY <2>3, <2>4
<1> QED BY <1>8 DEF AloneLive, Counted

LEMMA EndAlone ==
    ASSUME ShapeInv, AloneLive, NEW s \in Spans, NEW throws \in BOOLEAN, NEW error \in Nat,
           internalEndTraceStep(s, throws, error)
    PROVE  AloneLive'
<1> DEFINE key == keyOf[context[s]]
           snap == registered[key]
<1>1. /\ key \in Keys /\ type[s] # "none" /\ \A p \in Ops \ {snap} : snapshot'[p] = snapshot[p]
      /\ snap # "none" =>
            /\ snapshot'[snap].refsCounter = snapshot[snap].refsCounter
            /\ snapshot'[snap].refsMarkedAsComplete = snapshot[snap].refsMarkedAsComplete + 1
  BY EndedIn
<1>2. /\ s \in calls /\ calls' = calls \ {s}
      /\ s \in refs[key] => type'[s] = "end"
      /\ \A t \in Spans \ {s} : type'[t] = type[t]
      /\ keyOf' = keyOf /\ pc' = pc /\ registered' = registered /\ refs' = refs /\ tree' = tree
  BY EndedAs
<1>3. tree[s] \in Ops /\ keyOf[tree[s]] = key
  BY <1>1, KeysOfOperations DEF ShapeInv, SpanShape
<1>4. snap # "none" => snap \in Ops /\ keyOf[snap] = key
  BY <1>1, KeysOfOperations DEF ShapeInv, Registered
<1>5. registered[key] = snap
  OBVIOUS
<1> HIDE DEF key, snap
<1>6. ASSUME NEW p \in Ops, Alone(p)', pc'[p] \in Live PROVE Counted(p)'
  <2>1. Alone(p) /\ pc[p] \in Live /\ Opened(p)' = Opened(p)
    BY <1>2, <1>6 DEF Alone, Opened
  <2>2. Counted(p)
    BY <2>1 DEF AloneLive, Counted
  <2>3. CASE keyOf[p] = key
    <3>1. p = tree[s] /\ snap = p /\ p # "none"
      BY <1>3, <1>5, <2>1, <2>2, <2>3, KeysOfOperations DEF Alone, Counted
    <3>2. s \in Opened(p) /\ type'[s] = "end"
      BY <1>2, <2>2, <2>3, <3>1 DEF Opened, Counted
    <3>3. \A t \in Opened(p) : type'[t] = "start" <=> t \in calls'
      <4>1. \A t \in Opened(p) : t \in Spans /\ (type[t] = "start" <=> t \in calls)
        BY <2>2 DEF Opened, Counted
      <4> QED BY <1>2, <3>2, <4>1
    <3>4. Cardinality(Opened(p) \ calls') = Cardinality(Opened(p) \ calls) + 1
      <4> DEFINE T == Opened(p) \ calls
      <4>1. IsFiniteSet(T) /\ s \notin T
        BY <1>2, SetsOfSpans DEF Opened
      <4>2. Opened(p) \ calls' = T \cup {s}
        BY <1>2, <3>2
      <4> HIDE DEF T
      <4>3. Cardinality(T \cup {s}) = Cardinality(T) + 1
        BY <4>1, FS_AddElement
      <4> QED BY <4>2, <4>3 DEF T
    <3> QED BY <1>1, <1>2, <2>1, <2>2, <3>1, <3>3, <3>4 DEF Counted
  <2>4. CASE keyOf[p] # key
    <3>1. p # snap /\ p # tree[s]
      BY <1>3, <1>4, <2>4, KeysOfOperations
    <3>2. s \notin Opened(p) /\ snapshot'[p] = snapshot[p]
      BY <1>1, <3>1 DEF Opened
    <3>3. \A t \in Opened(p) : t \in Spans \ {s} /\ (type[t] = "start" <=> t \in calls)
      BY <2>2, <3>2 DEF Opened, Counted
    <3>4. Opened(p) \ calls' = Opened(p) \ calls
      BY <1>2, <3>2
    <3> QED BY <1>2, <2>1, <2>2, <3>2, <3>3, <3>4 DEF Counted
  <2> QED BY <2>3, <2>4
<1> QED BY <1>6 DEF AloneLive, Counted

LEMMA RestAlone ==
    ASSUME ShapeInv, AloneLive, NEW o \in Ops,
           \/ addRouteMetadataToTrace(o) \/ operationOver(o) \/ clientAborts(o)
           \/ abandonTrace(o) \/ completionOfNothing(o) \/ completionWaits(o)
    PROVE  AloneLive'
<1>0. pc \in [Ops -> {"none", "running", "over", "aborted", "waiting", "done", "abandoned"}]
  BY DEF ShapeInv, TypeOK
<1>1. CASE addRouteMetadataToTrace(o)
  <2>1. UNCHANGED <<keyOf, pc, registered, refs, tree, type, calls>>
    BY <1>1 DEF addRouteMetadataToTrace, opVars, spanVars
  <2>2. \A p \in Ops : /\ snapshot'[p].refsCounter = snapshot[p].refsCounter
                       /\ snapshot'[p].refsMarkedAsComplete = snapshot[p].refsMarkedAsComplete
    BY <1>1, RouteNames
  <2> QED BY <2>1, <2>2, AloneLeftAlone
<1>2. CASE operationOver(o) \/ clientAborts(o)
  <2>1. UNCHANGED <<keyOf, registered, refs, snapshot, tree, type, calls>>
    BY <1>2 DEF operationOver, clientAborts, spanVars
  <2>2. \A p \in Ops : pc'[p] \in Live => pc[p] \in Live
    BY <1>0, <1>2 DEF operationOver, clientAborts, Live
  <2> QED BY <2>1, <2>2, AloneLeftAlone
<1>3. CASE abandonTrace(o)
  BY <1>3, FreeAlone DEF abandonTrace, spanVars
<1>4. CASE completionOfNothing(o)
  <2>1. pc[o] = "over" /\ keyOf[o] \in Keys /\ refs[keyOf[o]] = {}
    BY <1>4, NothingInRefs
  <2>2. refs' = [refs EXCEPT ![keyOf[o]] = {}]
    BY <1>4, <2>1 DEF completionOfNothing, ShapeInv, TypeOK
  <2>3. /\ pc' = [pc EXCEPT ![o] = "done"] /\ registered' = [registered EXCEPT ![keyOf[o]] = "none"]
        /\ UNCHANGED <<keyOf, snapshot, tree, type, calls>>
    BY <1>4 DEF completionOfNothing, spanVars
  <2> QED BY <2>1, <2>2, <2>3, FreeAlone
<1>5. CASE completionWaits(o)
  <2>1. /\ pc[o] = "over" /\ pc' = [pc EXCEPT ![o] = "waiting"]
        /\ UNCHANGED <<keyOf, registered, refs, tree, type, calls>>
    BY <1>5 DEF completionWaits, spanVars
  <2>2. \A p \in Ops : /\ snapshot'[p].refsCounter = snapshot[p].refsCounter
                       /\ snapshot'[p].refsMarkedAsComplete = snapshot[p].refsMarkedAsComplete
    BY <1>5, WaitEnds
  <2>3. \A p \in Ops : pc'[p] \in Live => pc[p] \in Live
    BY <1>0, <2>1 DEF Live
  <2> QED BY <2>1, <2>2, <2>3, AloneLeftAlone
<1> QED BY <1>1, <1>2, <1>3, <1>4, <1>5

LEMMA HandOffAlone ==
    ASSUME ShapeInv, AloneLive, NEW o \in Ops, pc[o] \in Live, NEW snap \in Ops,
           keyOf[snap] = keyOf[o], NEW ended \in SnapshotRecords, NEW cut \in SUBSET Tree(snap),
           HandOff(o, snap, ended, cut)
    PROVE  AloneLive'
<1>1. \A p \in Ops \ {snap} : snapshot'[p] = snapshot[p]
  BY HandedOff
<1>2. /\ pc' = [pc EXCEPT ![o] = "done"] /\ registered' = [registered EXCEPT ![keyOf[o]] = "none"]
      /\ refs' = [refs EXCEPT ![keyOf[o]] = {}] /\ UNCHANGED <<keyOf, tree, type, calls>>
  BY DEF HandOff, spanVars
<1>3. pc[o] # "none"
  BY DEF Live
<1> QED BY <1>1, <1>2, <1>3, FreeAlone

-----------------------------------------------------------------------------
(***************************************************************************)
(* What was told                                                           *)
(***************************************************************************)

\* A step that neither opens a span nor ships.
LEMMA ToldLeftAlone ==
    ASSUME Told, UNCHANGED <<tree, above, shipped>>,
           \A p \in Ops : snapshot'[p].unfinished = snapshot[p].unfinished,
           \A p \in Ops : Alone(p)' /\ shipped[p] # <<>> =>
               Alone(p) /\ (pc[p] = "done" => pc'[p] = "done"),
           \A p \in Ops : Alone(p)' /\ pc'[p] = "done" /\ Opened(p) # {} => shipped[p] # <<>>
    PROVE  Told'
<1>1. SUFFICES ASSUME NEW p \in Ops PROVE ToldOf(p)'
  BY DEF Told
<1>2. ToldOf(p) /\ Opened(p)' = Opened(p)
  BY DEF Told, Opened
<1>3. snapshot'[p].unfinished = snapshot[p].unfinished
  OBVIOUS
<1>4. Alone(p)' /\ shipped[p] # <<>> => Alone(p) /\ (pc[p] = "done" => pc'[p] = "done")
  OBVIOUS
<1>5. Alone(p)' /\ pc'[p] = "done" /\ Opened(p) # {} => shipped[p] # <<>>
  OBVIOUS
<1>6. CASE shipped[p] = <<>>
  BY <1>2, <1>3, <1>5, <1>6 DEF ToldOf
<1>7. CASE shipped[p] # <<>>
  BY <1>2, <1>3, <1>4, <1>7 DEF ToldOf
<1> QED BY <1>6, <1>7

LEMMA StartTold ==
    ASSUME ShapeInv, Told, NEW o \in Ops, NEW key \in Keys, NEW how \in {"http", "graphql", "job"},
           NEW preflight \in BOOLEAN, startTrace(o, key, how, preflight)
    PROVE  Told'
<1>1. /\ pc[o] = "none" /\ keyOf[o] = "none" /\ shipped[o] = <<>>
      /\ pc' = [pc EXCEPT ![o] = "running"] /\ keyOf' = [keyOf EXCEPT ![o] = key]
      /\ UNCHANGED <<tree, above, shipped>>
      /\ snapshot' = [snapshot EXCEPT ![o] = [Fresh EXCEPT !.named = how = "graphql",
                                                          !.kept = preflight]]
  BY DEF startTrace, ShapeInv, Started, spanVars
<1>2. /\ keyOf \in [Ops -> Keys \cup {"none"}] /\ snapshot \in [Ops -> SnapshotRecords]
      /\ pc \in [Ops -> {"none", "running", "over", "aborted", "waiting", "done", "abandoned"}]
  BY DEF ShapeInv, TypeOK
<1>3. /\ pc'[o] = "running" /\ keyOf'[o] = key
      /\ \A p \in Ops \ {o} : /\ pc'[p] = pc[p] /\ keyOf'[p] = keyOf[p]
                              /\ snapshot'[p] = snapshot[p]
  BY <1>1, <1>2
<1>4. \A p \in Ops : snapshot'[p].unfinished = snapshot[p].unfinished
  <2>1. snapshot'[o] = [Fresh EXCEPT !.named = how = "graphql", !.kept = preflight]
    BY <1>1, <1>2
  <2>2. snapshot'[o].unfinished = 0
    BY <2>1 DEF Fresh
  <2>3. snapshot[o].unfinished = 0
    BY <1>1 DEF Told, ToldOf
  <2> QED BY <1>3, <2>2, <2>3
<1>5. \A p \in Ops : Alone(p)' /\ pc[p] # "none" => Alone(p)
  <2> SUFFICES ASSUME NEW p \in Ops, Alone(p)', pc[p] # "none", NEW q \in Ops \ {p}
               PROVE  keyOf[q] # keyOf[p]
    BY DEF Alone
  <2>1. keyOf[p] # "none" /\ keyOf'[p] = keyOf[p] /\ keyOf'[q] # keyOf'[p]
    BY <1>1, <1>3 DEF ShapeInv, Started, Alone
  <2> QED BY <1>1, <1>3, <2>1
<1>6. \A p \in Ops : shipped[p] # <<>> => pc[p] # "none" /\ p # o
  BY <1>1 DEF ShapeInv, Started
<1>7. ASSUME NEW p \in Ops, Alone(p)', pc'[p] = "done", Opened(p) # {} PROVE shipped[p] # <<>>
  <2>1. p # o /\ pc[p] = "done"
    BY <1>3, <1>7
  <2>2. Alone(p)
    BY <1>5, <1>7, <2>1
  <2> QED BY <1>7, <2>1, <2>2 DEF Told, ToldOf
<1> QED BY <1>1, <1>3, <1>4, <1>5, <1>6, <1>7, ToldLeftAlone

\* An operation alone with its key that is not done has its trace registered.
LEMMA RestTold ==
    ASSUME ShapeInv, AloneLive, Told, NEW o \in Ops,
           \/ addRouteMetadataToTrace(o) \/ operationOver(o) \/ clientAborts(o)
           \/ abandonTrace(o) \/ completionOfNothing(o) \/ completionWaits(o)
    PROVE  Told'
<1>0. pc \in [Ops -> {"none", "running", "over", "aborted", "waiting", "done", "abandoned"}]
  BY DEF ShapeInv, TypeOK
<1>1. \A p \in Ops : Alone(p) /\ pc[p] \in Live => shipped[p] = <<>> /\ registered[keyOf[p]] = p
  BY DEF Told, ToldOf, AloneLive, Live
<1>2. \A p \in Ops : Alone(p) /\ pc[p] = "done" /\ Opened(p) # {} => shipped[p] # <<>>
  BY DEF Told, ToldOf
<1>3. UNCHANGED <<keyOf, tree, above, shipped>>
  BY DEF addRouteMetadataToTrace, operationOver, clientAborts, abandonTrace,
         completionOfNothing, completionWaits, opVars, spanVars
<1>4. \A p \in Ops : snapshot'[p].unfinished = snapshot[p].unfinished
  <2>1. CASE addRouteMetadataToTrace(o)
    BY <2>1, RouteNames
  <2>2. CASE completionWaits(o)
    BY <2>2, WaitEnds
  <2>3. CASE operationOver(o) \/ clientAborts(o) \/ abandonTrace(o) \/ completionOfNothing(o)
    BY <2>3 DEF operationOver, clientAborts, abandonTrace, completionOfNothing
  <2> QED BY <2>1, <2>2, <2>3
<1>5. pc[o] \in Live /\ \A p \in Ops \ {o} : pc'[p] = pc[p]
  BY <1>0 DEF addRouteMetadataToTrace, operationOver, clientAborts, abandonTrace,
         completionOfNothing, completionWaits, opVars, Live
<1>6. \A p \in Ops : Alone(p)' = Alone(p)
  BY <1>3 DEF Alone
<1>7. Alone(o) /\ pc'[o] = "done" => Opened(o) = {}
  <2> SUFFICES ASSUME Alone(o), pc'[o] = "done" PROVE Opened(o) = {}
    OBVIOUS
  <2>1. registered[keyOf[o]] = o /\ o # "none"
    BY <1>1, <1>5, KeysOfOperations
  <2>2. CASE completionOfNothing(o)
    BY <2>1, <2>2, NothingInRefs
  <2>3. CASE ~completionOfNothing(o)
    <3>1. FALSE
      BY <1>0, <2>1, <2>3 DEF addRouteMetadataToTrace, operationOver, clientAborts, abandonTrace,
         completionWaits, opVars, hasTrace
    <3> QED BY <3>1
  <2> QED BY <2>2, <2>3
<1>8. ASSUME NEW p \in Ops, Alone(p)', shipped[p] # <<>>
      PROVE  Alone(p) /\ (pc[p] = "done" => pc'[p] = "done")
  BY <1>1, <1>5, <1>6, <1>8 DEF Live
<1>9. ASSUME NEW p \in Ops, Alone(p)', pc'[p] = "done", Opened(p) # {} PROVE shipped[p] # <<>>
  BY <1>2, <1>5, <1>6, <1>7, <1>9
<1> QED BY <1>3, <1>4, <1>8, <1>9, ToldLeftAlone

\* internalEndTraceStep() and captureError()
LEMMA EndTold ==
    ASSUME ShapeInv, Told, NEW s \in Spans, NEW throws \in BOOLEAN, NEW error \in Nat,
           internalEndTraceStep(s, throws, error)
    PROVE  Told'
<1>1. UNCHANGED <<keyOf, pc, tree, above, shipped>>
  BY DEF internalEndTraceStep, opVars
<1>2. \A p \in Ops : snapshot'[p].unfinished = snapshot[p].unfinished
  <2> DEFINE snap == registered[keyOf[context[s]]]
  <2>1. \A p \in Ops \ {snap} : snapshot'[p] = snapshot[p]
    BY EndedIn
  <2>2. snap # "none" => snapshot'[snap].unfinished = snapshot[snap].unfinished
    BY EndedIn
  <2> HIDE DEF snap
  <2> QED BY <2>1, <2>2, KeysOfOperations
<1>3. \A p \in Ops : Alone(p)' = Alone(p)
  BY <1>1 DEF Alone
<1>4. \A p \in Ops : Alone(p) /\ pc[p] = "done" /\ Opened(p) # {} => shipped[p] # <<>>
  BY DEF Told, ToldOf
<1> QED BY <1>1, <1>2, <1>3, <1>4, ToldLeftAlone

LEMMA CaptureTold ==
    ASSUME AloneLive, Told, NEW o \in Ops, NEW s \in Spans, captureError(o, s)
    PROVE  AloneLive' /\ Told'
<1>1. UNCHANGED <<keyOf, pc, registered, refs, snapshot, tree, above, type, calls, shipped>>
  BY DEF captureError, opVars
<1>2. AloneLive'
  BY <1>1, AloneLeftAlone
<1>3. \A p \in Ops : Alone(p)' = Alone(p)
  BY <1>1 DEF Alone
<1>4. \A p \in Ops : Alone(p) /\ pc[p] = "done" /\ Opened(p) # {} => shipped[p] # <<>>
  BY DEF Told, ToldOf
<1> QED BY <1>1, <1>2, <1>3, <1>4, ToldLeftAlone

\* A span is opened in a tree that was not told of yet.
LEMMA OpenTold ==
    ASSUME ShapeInv, Told, NEW o \in Ops, NEW s \in Spans,
           NEW caller \in Spans \cup {"none"}, Books(o, s, caller)
    PROVE  Told'
<1> DEFINE snap == registered[keyOf[o]]
<1>1. snap \in Ops /\ shipped[snap] = <<>> /\ pc[snap] \in Live
  BY OpenedIn
<1>2. /\ tree[s] = "none" /\ tree'[s] = snap
      /\ \A t \in Spans \ {s} : tree'[t] = tree[t] /\ above'[t] = above[t]
  BY OpenedAs
<1>3. keyOf' = keyOf /\ pc' = pc /\ shipped' = shipped
  BY OpenedAs
<1>4. /\ snapshot'[snap].unfinished = snapshot[snap].unfinished
      /\ \A p \in Ops \ {snap} : snapshot'[p] = snapshot[p]
  BY OpenedRecord
<1> HIDE DEF snap
<1>5. SUFFICES ASSUME NEW p \in Ops PROVE ToldOf(p)'
  BY DEF Told
<1>6. ToldOf(p) /\ Alone(p)' = Alone(p)
  BY <1>3 DEF Told, Alone
<1>7. CASE p = snap
  BY <1>1, <1>3, <1>4, <1>6, <1>7 DEF ToldOf, Live
<1>8. CASE p # snap
  <2>1. s \notin Opened(p) /\ Opened(p)' = Opened(p)
    BY <1>2, <1>8, KeysOfOperations DEF Opened
  <2>2. \A t \in Opened(p) : above'[t] = above[t]
    BY <1>2, <2>1 DEF Opened
  <2>3. snapshot'[p] = snapshot[p]
    BY <1>4, <1>8
  <2>4. ASSUME NEW i \in 1..Len(shipped[p])
        PROVE  /\ shipped[p][i].nodes \subseteq Opened(p)
               /\ Alone(p)' => shipped[p][i].open = {}
               /\ (\A j \in 1..i : ~shipped[p][j].skipped) =>
                   /\ Cardinality(shipped[p][i].nodes) + shipped[p][i].unfinished
                        = Cardinality(Opened(p))
                   /\ \A t \in shipped[p][i].nodes : above'[t] \subseteq shipped[p][i].nodes
    <3>1. shipped[p][i].nodes \subseteq Opened(p) /\ (Alone(p)' => shipped[p][i].open = {})
      BY <1>6 DEF ToldOf
    <3>2. (\A j \in 1..i : ~shipped[p][j].skipped) =>
              /\ Cardinality(shipped[p][i].nodes) + shipped[p][i].unfinished
                   = Cardinality(Opened(p))
              /\ \A t \in shipped[p][i].nodes : above[t] \subseteq shipped[p][i].nodes
      BY <1>6 DEF ToldOf
    <3> QED BY <2>2, <3>1, <3>2
  <2> QED BY <1>3, <1>6, <2>1, <2>3, <2>4 DEF ToldOf
<1> QED BY <1>7, <1>8

\* The tree of a snapshot, and what was left out of it, are all that was
\* opened - as long as no report skipped the spans.
LEMMA TreeAddsUp ==
    ASSUME ShapeInv, Told, NEW snap \in Ops
    PROVE  /\ Tree(snap) \subseteq Opened(snap)
           /\ (\A j \in 1..Len(shipped[snap]) : ~shipped[snap][j].skipped) =>
                /\ Cardinality(Tree(snap)) + snapshot[snap].unfinished = Cardinality(Opened(snap))
                /\ \A s \in Tree(snap) : above[s] \subseteq Tree(snap)
<1>1. CASE shipped[snap] = <<>>
  <2>1. Tree(snap) = Opened(snap) /\ snapshot[snap].unfinished = 0
    BY <1>1 DEF Tree, Told, ToldOf
  <2>2. Cardinality(Opened(snap)) \in Nat
    BY SetsOfSpans DEF Opened
  <2>3. \A s \in Opened(snap) : above[s] \subseteq Opened(snap)
    BY DEF Opened, ShapeInv, SpanShape, TypeOK
  <2> QED BY <2>1, <2>2, <2>3
<1>2. CASE shipped[snap] # <<>>
  <2> DEFINE n == Len(shipped[snap])
  <2>1. n \in 1..n
    <3>1. shipped[snap] \in Seq(ShippedRecords)
      BY DEF ShapeInv, TypeOK
    <3> QED BY <1>2, <3>1
  <2>2. Tree(snap) = shipped[snap][n].nodes /\ snapshot[snap].unfinished = shipped[snap][n].unfinished
    BY <1>2 DEF Tree, Told, ToldOf
  <2>3. /\ shipped[snap][n].nodes \subseteq Opened(snap)
        /\ (\A j \in 1..n : ~shipped[snap][j].skipped) =>
             /\ Cardinality(shipped[snap][n].nodes) + shipped[snap][n].unfinished
                  = Cardinality(Opened(snap))
             /\ \A s \in shipped[snap][n].nodes : above[s] \subseteq shipped[snap][n].nodes
    BY <2>1 DEF Told, ToldOf
  <2> QED BY <2>2, <2>3
<1> QED BY <1>1, <1>2

\* What leaveOutUnfinishedSpans() leaves is a tree again.
LEMMA CutLeavesTree ==
    ASSUME ShapeInv, NEW snap \in Ops, \A s \in Tree(snap) : above[s] \subseteq Tree(snap)
    PROVE  \A s \in Tree(snap) \ LeftOut(snap) : above[s] \subseteq Tree(snap) \ LeftOut(snap)
<1> SUFFICES ASSUME NEW s \in Tree(snap), s \notin LeftOut(snap), NEW a \in above[s]
             PROVE  a \in Tree(snap) /\ a \notin LeftOut(snap)
  OBVIOUS
<1>1. a \in Tree(snap) /\ above[s] \cap Open(snap) = {}
  BY DEF LeftOut
<1>2. above[a] \subseteq above[s]
  <2>1. s \in Spans
    BY TreeIsOfSpans
  <2> QED BY <2>1 DEF ShapeInv, SpanShape
<1> QED BY <1>1, <1>2 DEF LeftOut

LEMMA HandOffTold ==
    ASSUME ShapeInv, Told, NEW o \in Ops, pc[o] \in Live, NEW snap \in Ops,
           keyOf[snap] = keyOf[o], NEW ended \in SnapshotRecords, NEW cut \in SUBSET Tree(snap),
           HandOff(o, snap, ended, cut), ended.unfinished = snapshot[snap].unfinished,
           cut = {} \/ cut = LeftOut(snap), Alone(snap) => Open(snap) \subseteq cut
    PROVE  Told'
<1>1. PICK report : /\ Reported(snap, ended, cut, report)
                    /\ shipped'[snap] = Append(shipped[snap], report)
                    /\ snapshot'[snap].unfinished = report.unfinished
  BY HandedOff
<1>2. \A p \in Ops \ {snap} : shipped'[p] = shipped[p] /\ snapshot'[p] = snapshot[p]
  BY HandedOff
<1>3. pc' = [pc EXCEPT ![o] = "done"] /\ UNCHANGED <<keyOf, tree, above>>
  BY DEF HandOff, spanVars
<1>4. /\ pc'[o] = "done" /\ \A p \in Ops \ {o} : pc'[p] = pc[p]
      /\ \A p \in Ops : Alone(p)' = Alone(p) /\ Opened(p)' = Opened(p)
  BY <1>3 DEF ShapeInv, TypeOK, Alone, Opened
<1>5. shipped[snap] \in Seq(ShippedRecords)
  BY DEF ShapeInv, TypeOK
<1>6. Alone(snap) => snap = o /\ shipped[snap] = <<>>
  BY DEF Alone, Told, ToldOf, Live
<1> DEFINE n == Len(shipped[snap])
<1>7. /\ n \in Nat /\ Len(shipped'[snap]) = n + 1 /\ shipped'[snap][n + 1] = report
      /\ \A i \in 1..n : shipped'[snap][i] = shipped[snap][i]
      /\ shipped'[snap] # <<>>
  BY <1>1, <1>5
<1>8. report.nodes \subseteq Opened(snap) /\ (Alone(snap) => report.open = {})
  <2>1. Tree(snap) \subseteq Opened(snap)
    BY TreeAddsUp
  <2> QED BY <1>1, <2>1 DEF Reported
<1>9. ASSUME ~report.skipped, \A j \in 1..n : ~shipped[snap][j].skipped
      PROVE  /\ Cardinality(report.nodes) + report.unfinished = Cardinality(Opened(snap))
             /\ \A s \in report.nodes : above[s] \subseteq report.nodes
  <2>1. /\ Cardinality(Tree(snap)) + snapshot[snap].unfinished = Cardinality(Opened(snap))
        /\ \A s \in Tree(snap) : above[s] \subseteq Tree(snap)
    BY <1>9, TreeAddsUp
  <2>2. /\ report.nodes = Tree(snap) \ cut
        /\ report.unfinished = ended.unfinished + Cardinality(cut)
    BY <1>1, <1>9 DEF Reported
  <2>3. /\ IsFiniteSet(Tree(snap)) /\ Cardinality(Tree(snap)) \in Nat
        /\ Cardinality(cut) \in Nat /\ Tree(snap) \cap cut = cut
    BY TreeIsOfSpans, SetsOfSpans
  <2>4. Cardinality(Tree(snap) \ cut) = Cardinality(Tree(snap)) - Cardinality(cut)
    <3>1. Cardinality(Tree(snap) \ cut) = Cardinality(Tree(snap)) - Cardinality(Tree(snap) \cap cut)
      BY <2>3, FS_Difference, Zenon
    <3> QED BY <2>3, <3>1, Zenon
  <2>5. snapshot[snap].unfinished \in Nat
    BY DEF ShapeInv, TypeOK, SnapshotRecords
  <2>6. Cardinality(report.nodes) + report.unfinished = Cardinality(Opened(snap))
    BY <2>1, <2>2, <2>3, <2>4, <2>5
  <2>7. \A s \in Tree(snap) \ cut : above[s] \subseteq Tree(snap) \ cut
    BY <2>1, CutLeavesTree
  <2> QED BY <2>2, <2>6, <2>7
<1>10. ToldOf(snap)'
  <2>1. ToldOf(snap)
    BY DEF Told
  <2>2. /\ snapshot'[snap].unfinished = shipped'[snap][Len(shipped'[snap])].unfinished
        /\ Alone(snap) => pc'[snap] = "done" /\ Len(shipped'[snap]) = 1
    BY <1>1, <1>4, <1>6, <1>7
  <2>3. ASSUME NEW i \in 1..Len(shipped'[snap])
        PROVE  LET told == shipped'[snap][i] IN
               /\ told.nodes \subseteq Opened(snap)
               /\ Alone(snap) => told.open = {}
               /\ (\A j \in 1..i : ~shipped'[snap][j].skipped) =>
                     /\ Cardinality(told.nodes) + told.unfinished = Cardinality(Opened(snap))
                     /\ \A s \in told.nodes : above[s] \subseteq told.nodes
    <3>1. CASE i \in 1..n
      <4>1. \A j \in 1..i : shipped'[snap][j] = shipped[snap][j]
        BY <1>7, <3>1
      <4>2. shipped'[snap][i] = shipped[snap][i]
        BY <1>7, <3>1
      <4> HIDE DEF n
      <4> QED BY <2>1, <3>1, <4>1, <4>2 DEF ToldOf, n
    <3>2. CASE i = n + 1
      <4>1. shipped'[snap][i] = report /\ n + 1 \in 1..i
        BY <1>7, <3>2
      <4>2. (\A j \in 1..i : ~shipped'[snap][j].skipped) =>
                ~report.skipped /\ \A j \in 1..n : ~shipped[snap][j].skipped
        BY <1>7, <3>2
      <4> QED BY <1>8, <1>9, <4>1, <4>2
    <3> QED BY <1>7, <3>1, <3>2
  <2> QED BY <1>3, <1>4, <1>7, <2>2, <2>3 DEF ToldOf
<1>11. ASSUME NEW p \in Ops \ {snap} PROVE ToldOf(p)'
  <2>1. ToldOf(p) /\ shipped'[p] = shipped[p] /\ snapshot'[p] = snapshot[p]
    BY <1>2 DEF Told
  <2>2. Alone(p) => p # o /\ pc'[p] = pc[p]
    BY <1>4 DEF Alone
  <2> QED BY <1>3, <1>4, <2>1, <2>2 DEF ToldOf
<1> QED BY <1>10, <1>11 DEF Told

\* When the two counters of an operation alone with its key agree, no span of
\* it is open.
LEMMA CountersFindOpen ==
    ASSUME ShapeInv, AloneLive, Told, NEW o \in Ops, pc[o] \in Live, NEW snap \in Ops,
           keyOf[snap] = keyOf[o], Alone(snap), ~Incomplete(snap)
    PROVE  Open(snap) = {}
<1>1. snap = o
  BY DEF Alone
<1>2. Counted(snap) /\ Tree(snap) = Opened(snap)
  BY <1>1 DEF AloneLive, Counted, Told, ToldOf, Tree, Live
<1>3. /\ IsFiniteSet(Opened(snap)) /\ Cardinality(Opened(snap)) \in Nat
      /\ Cardinality(Opened(snap) \ calls) \in Nat /\ Opened(snap) \subseteq Spans
  BY SetsOfSpans DEF Opened
<1>4. Cardinality(Opened(snap)) <= Cardinality(Opened(snap) \ calls)
  BY <1>2, <1>3 DEF Incomplete, Counted
<1>5. Opened(snap) \ calls = Opened(snap)
  <2>1. Cardinality(Opened(snap) \ calls) <= Cardinality(Opened(snap))
    BY <1>3, FS_Subset
  <2>2. Cardinality(Opened(snap) \ calls) = Cardinality(Opened(snap))
    BY <1>3, <1>4, <2>1
  <2> QED BY <1>3, <2>2, FS_Subset
<1> QED BY <1>2, <1>5 DEF Open, Counted

LEMMA CompletionTold ==
    ASSUME ShapeInv, AloneLive, Told, NEW o \in Ops, completion(o) \/ completionTimeout(o)
    PROVE  AloneLive' /\ Told'
<1>1. CASE completion(o)
  <2> DEFINE snap == registered[keyOf[o]]
  <2>1. pc[o] = "over" /\ snap \in Ops /\ keyOf[snap] = keyOf[o] /\ ~Incomplete(snap)
    BY <1>1, CompletionHandsOff
  <2>2. PICK reported \in {0, 200, 404} : HandOff(o, snap, EndedTrace(snap, reported), {})
    BY <1>1, CompletionHandsOff
  <2>3. /\ EndedTrace(snap, reported) \in SnapshotRecords
        /\ EndedTrace(snap, reported).unfinished = snapshot[snap].unfinished
    BY <2>1, EndedTraceIs
  <2>4. {} \in SUBSET Tree(snap) /\ pc[o] \in Live
    BY <2>1 DEF Live
  <2> HIDE DEF snap
  <2>5. Alone(snap) => Open(snap) \subseteq {}
    BY <2>1, <2>4, CountersFindOpen
  <2>6. AloneLive'
    BY <2>1, <2>2, <2>3, <2>4, HandOffAlone
  <2>7. Told'
    BY <2>1, <2>2, <2>3, <2>4, <2>5, HandOffTold
  <2> QED BY <2>6, <2>7
<1>2. CASE completionTimeout(o)
  <2> DEFINE snap == holds[o]
             cut == IF Incomplete(snap) THEN LeftOut(snap) ELSE {}
  <2>1. /\ pc[o] = "waiting" /\ snap \in Ops /\ keyOf[snap] = keyOf[o]
        /\ cut \in SUBSET Tree(snap) /\ snapshot[snap] \in SnapshotRecords
        /\ HandOff(o, snap, snapshot[snap], cut)
    BY <1>2, TimeoutHandsOff
  <2>2. pc[o] \in Live
    BY <2>1 DEF Live
  <2>3. Alone(snap) => Open(snap) \subseteq cut
    <3>1. CASE Incomplete(snap)
      BY <2>1, <3>1, TreeIsOfSpans
    <3>2. CASE ~Incomplete(snap)
      BY <2>1, <2>2, <3>2, CountersFindOpen
    <3> QED BY <3>1, <3>2
  <2>4. cut = {} \/ cut = LeftOut(snap)
    OBVIOUS
  <2> HIDE DEF snap, cut
  <2>5. AloneLive'
    BY <2>1, <2>2, HandOffAlone
  <2>6. Told'
    BY <2>1, <2>2, <2>3, <2>4, HandOffTold
  <2> QED BY <2>5, <2>6
<1> QED BY <1>1, <1>2

-----------------------------------------------------------------------------
(***************************************************************************)
(* What was told of failures                                               *)
(***************************************************************************)

\* A step that touches neither the spans nor what is known of them.
LEMMA FailuresLeftAlone ==
    ASSUME Failures, UNCHANGED <<tree, above, calls, nodeError, failed, captured, shipped>>,
           \A p \in Ops, s \in Spans : Alone(p)' /\ tree[s] = p =>
               /\ Alone(p) /\ kind'[p] = kind[p]
               /\ pc'[p] \in {"running", "over"} => pc[p] \in {"running", "over"}
               /\ pc'[p] = "waiting" => pc[p] = "waiting"
               /\ snapshot'[p].errorStatusCode = snapshot[p].errorStatusCode
               /\ snapshot'[p].statusCode = snapshot[p].statusCode
               /\ snapshot'[p].error = snapshot[p].error,
           failed \subseteq Spans
    PROVE  Failures'
<1>1. (calls \cap nodeError \subseteq captured)'
  BY DEF Failures
<1>2. ASSUME NEW p \in Ops, NEW s \in failed \ captured, Alone(p)', kind'[p] # "job", tree[s] = p
      PROVE  /\ pc'[p] \in {"running", "over"} =>
                   snapshot'[p].errorStatusCode >= 400 /\ s \in nodeError /\ above[s] = {}
             /\ pc'[p] = "waiting" => snapshot'[p].statusCode >= 400 /\ snapshot'[p].error
             /\ \A i \in 1..Len(shipped[p]) : shipped[p][i].statusCode >= 400 /\ shipped[p][i].error
  <2>1. s \in Spans
    OBVIOUS
  <2>2. /\ Alone(p) /\ kind'[p] = kind[p]
        /\ pc'[p] \in {"running", "over"} => pc[p] \in {"running", "over"}
        /\ pc'[p] = "waiting" => pc[p] = "waiting"
        /\ snapshot'[p].errorStatusCode = snapshot[p].errorStatusCode
        /\ snapshot'[p].statusCode = snapshot[p].statusCode
        /\ snapshot'[p].error = snapshot[p].error
    BY <1>2, <2>1
  <2>3. FailureOf(p, s)
    BY DEF Failures
  <2>4. /\ pc[p] \in {"running", "over"} =>
              snapshot[p].errorStatusCode >= 400 /\ s \in nodeError /\ above[s] = {}
        /\ pc[p] = "waiting" => snapshot[p].statusCode >= 400 /\ snapshot[p].error
        /\ \A i \in 1..Len(shipped[p]) : shipped[p][i].statusCode >= 400 /\ shipped[p][i].error
    BY <1>2, <2>2, <2>3 DEF FailureOf
  <2> QED BY <2>2, <2>4
<1> QED BY <1>1, <1>2 DEF Failures, FailureOf

LEMMA StartFailures ==
    ASSUME ShapeInv, Failures, NEW o \in Ops, NEW key \in Keys,
           NEW how \in {"http", "graphql", "job"},
           NEW preflight \in BOOLEAN, startTrace(o, key, how, preflight)
    PROVE  Failures'
<1>1. /\ pc[o] = "none" /\ keyOf[o] = "none"
      /\ pc' = [pc EXCEPT ![o] = "running"] /\ keyOf' = [keyOf EXCEPT ![o] = key]
      /\ kind' = [kind EXCEPT ![o] = how]
      /\ UNCHANGED <<tree, above, calls, nodeError, failed, captured, shipped>>
      /\ snapshot' = [snapshot EXCEPT ![o] = [Fresh EXCEPT !.named = how = "graphql",
                                                          !.kept = preflight]]
  BY DEF startTrace, ShapeInv, Started, spanVars
<1>2. /\ keyOf \in [Ops -> Keys \cup {"none"}] /\ snapshot \in [Ops -> SnapshotRecords]
      /\ pc \in [Ops -> {"none", "running", "over", "aborted", "waiting", "done", "abandoned"}]
      /\ kind \in [Ops -> {"none", "http", "graphql", "job"}] /\ failed \subseteq Spans
  BY DEF ShapeInv, TypeOK
<1>3. /\ keyOf'[o] = key
      /\ \A p \in Ops \ {o} : /\ pc'[p] = pc[p] /\ keyOf'[p] = keyOf[p]
                              /\ kind'[p] = kind[p] /\ snapshot'[p] = snapshot[p]
  BY <1>1, <1>2
<1>4. ASSUME NEW p \in Ops, NEW s \in Spans, Alone(p)', tree[s] = p
      PROVE  p # o /\ Alone(p)
  <2>1. keyOf[p] # "none"
    BY <1>4, KeysOfOperations DEF ShapeInv, SpanShape
  <2>2. p # o
    BY <1>1, <2>1
  <2>3. \A q \in Ops \ {p} : keyOf[q] # keyOf[p]
    BY <1>1, <1>3, <1>4, <2>1, <2>2 DEF Alone
  <2> QED BY <2>2, <2>3 DEF Alone
<1> QED BY <1>1, <1>2, <1>3, <1>4, FailuresLeftAlone

LEMMA PlaceFailures ==
    ASSUME ShapeInv, Failures, NEW o \in Ops,
           \/ addRouteMetadataToTrace(o) \/ operationOver(o) \/ clientAborts(o)
           \/ abandonTrace(o) \/ completionOfNothing(o)
    PROVE  Failures'
<1>1. UNCHANGED <<kind, keyOf, tree, above, calls, nodeError, failed, captured, shipped>>
  BY DEF addRouteMetadataToTrace, operationOver, clientAborts, abandonTrace,
         completionOfNothing, opVars, spanVars
<1>2. \A p \in Ops : /\ snapshot'[p].errorStatusCode = snapshot[p].errorStatusCode
                     /\ snapshot'[p].statusCode = snapshot[p].statusCode
                     /\ snapshot'[p].error = snapshot[p].error
  <2>1. CASE addRouteMetadataToTrace(o)
    BY <2>1, RouteNames
  <2>2. CASE operationOver(o) \/ clientAborts(o) \/ abandonTrace(o) \/ completionOfNothing(o)
    BY <2>2 DEF operationOver, clientAborts, abandonTrace, completionOfNothing
  <2> QED BY <2>1, <2>2
<1>3. /\ pc \in [Ops -> {"none", "running", "over", "aborted", "waiting", "done", "abandoned"}]
      /\ failed \subseteq Spans
  BY DEF ShapeInv, TypeOK
<1>4. \A p \in Ops : /\ pc'[p] \in {"running", "over"} => pc[p] \in {"running", "over"}
                     /\ pc'[p] = "waiting" => pc[p] = "waiting"
  BY <1>3 DEF addRouteMetadataToTrace, operationOver, clientAborts, abandonTrace,
         completionOfNothing, opVars
<1>5. \A p \in Ops : Alone(p)' = Alone(p)
  BY <1>1 DEF Alone
<1> QED BY <1>1, <1>2, <1>3, <1>4, <1>5, FailuresLeftAlone

LEMMA CaptureFailures ==
    ASSUME Failures, NEW o \in Ops, NEW s \in Spans, captureError(o, s)
    PROVE  Failures'
<1>1. /\ nodeError' = nodeError \cup {s} /\ captured' = captured \cup {s}
      /\ UNCHANGED <<kind, keyOf, pc, snapshot, tree, above, calls, failed, shipped>>
  BY DEF captureError, opVars
<1>2. (calls \cap nodeError \subseteq captured)'
  BY <1>1 DEF Failures
<1>3. ASSUME NEW p \in Ops, NEW t \in failed' \ captured' PROVE FailureOf(p, t)'
  <2>1. FailureOf(p, t) /\ Alone(p)' = Alone(p) /\ nodeError \subseteq nodeError'
    BY <1>1 DEF Failures, Alone
  <2> QED BY <1>1, <2>1 DEF FailureOf
<1> QED BY <1>2, <1>3 DEF Failures

LEMMA OpenFailures ==
    ASSUME ShapeInv, Failures, NEW o \in Ops, NEW s \in Spans,
           NEW caller \in Spans \cup {"none"}, Books(o, s, caller)
    PROVE  Failures'
<1> DEFINE snap == registered[keyOf[o]]
<1>1. /\ s \notin nodeError /\ s \notin failed /\ calls' = calls \cup {s}
      /\ \A t \in Spans \ {s} : tree'[t] = tree[t] /\ above'[t] = above[t]
      /\ kind' = kind /\ keyOf' = keyOf /\ pc' = pc /\ shipped' = shipped
      /\ nodeError' = nodeError /\ failed' = failed /\ captured' = captured
  BY OpenedAs
<1>2. /\ snapshot'[snap].errorStatusCode = snapshot[snap].errorStatusCode
      /\ snapshot'[snap].statusCode = snapshot[snap].statusCode
      /\ snapshot'[snap].error = snapshot[snap].error
      /\ \A p \in Ops \ {snap} : snapshot'[p] = snapshot[p]
  BY OpenedRecord
<1>3. failed \subseteq Spans
  BY DEF ShapeInv, TypeOK
<1> HIDE DEF snap
<1>4. (calls \cap nodeError \subseteq captured)'
  BY <1>1 DEF Failures
<1>5. ASSUME NEW p \in Ops, NEW t \in failed' \ captured' PROVE FailureOf(p, t)'
  <2>1. FailureOf(p, t) /\ Alone(p)' = Alone(p) /\ tree'[t] = tree[t] /\ above'[t] = above[t]
    BY <1>1, <1>3 DEF Failures, Alone
  <2>2. /\ snapshot'[p].errorStatusCode = snapshot[p].errorStatusCode
        /\ snapshot'[p].statusCode = snapshot[p].statusCode
        /\ snapshot'[p].error = snapshot[p].error
    BY <1>2
  <2> QED BY <1>1, <2>1, <2>2 DEF FailureOf
<1> QED BY <1>4, <1>5 DEF Failures

\* A root span that throws, with no error captured in it before, has its
\* status noted on the snapshot it hangs in: the one registered under its key.
LEMMA EndFailures ==
    ASSUME ShapeInv, AloneLive, Told, Failures, NEW s \in Spans, NEW throws \in BOOLEAN,
           NEW error \in Nat, internalEndTraceStep(s, throws, error)
    PROVE  Failures'
<1> DEFINE key == keyOf[context[s]]
           snap == registered[key]
           counts == s \in refs[key] /\ throws /\ s \notin nodeError /\ above[s] = {}
<1>1. /\ key \in Keys /\ type[s] # "none" /\ \A p \in Ops \ {snap} : snapshot'[p] = snapshot[p]
      /\ snap # "none" =>
            /\ snapshot'[snap].statusCode = snapshot[snap].statusCode
            /\ snapshot'[snap].error = snapshot[snap].error
            /\ snapshot'[snap].errorStatusCode = IF counts THEN toErrorStatusCode(error)
                                                 ELSE snapshot[snap].errorStatusCode
  BY EndedIn
<1>2. /\ s \in calls /\ calls' = calls \ {s}
      /\ nodeError' = IF s \in refs[key] /\ throws /\ s \notin nodeError
                      THEN nodeError \cup {s} ELSE nodeError
      /\ failed' = IF s \in refs[key] /\ throws /\ above[s] = {} /\ pc[tree[s]] \in {"running", "over"}
                   THEN failed \cup {s} ELSE failed
  BY EndedAs
<1>3. /\ kind' = kind /\ keyOf' = keyOf /\ pc' = pc /\ shipped' = shipped
      /\ tree' = tree /\ above' = above /\ captured' = captured
  BY EndedAs
<1>4. key = keyOf[tree[s]] /\ tree[s] \in Ops
  BY <1>1, KeysOfOperations DEF ShapeInv, SpanShape
<1>5. toErrorStatusCode(error) >= 400
  BY ErrorStatus
<1>6. registered[key] = snap
  OBVIOUS
<1>7. counts <=> s \in refs[key] /\ throws /\ s \notin nodeError /\ above[s] = {}
  OBVIOUS
<1> HIDE DEF key, snap, counts
<1>8. (calls \cap nodeError \subseteq captured)'
  BY <1>2, <1>3 DEF Failures
<1>9. ASSUME NEW p \in Ops, NEW t \in failed' \ captured', Alone(p), kind[p] # "job", tree[t] = p
      PROVE  /\ pc[p] \in {"running", "over"} =>
                   snapshot'[p].errorStatusCode >= 400 /\ t \in nodeError' /\ above[t] = {}
             /\ pc[p] = "waiting" => snapshot'[p].statusCode >= 400 /\ snapshot'[p].error
             /\ \A i \in 1..Len(shipped[p]) : shipped[p][i].statusCode >= 400 /\ shipped[p][i].error
  <2>1. CASE t \in failed
    <3>1. /\ pc[p] \in {"running", "over"} =>
                snapshot[p].errorStatusCode >= 400 /\ t \in nodeError /\ above[t] = {}
          /\ pc[p] = "waiting" => snapshot[p].statusCode >= 400 /\ snapshot[p].error
          /\ \A i \in 1..Len(shipped[p]) : shipped[p][i].statusCode >= 400 /\ shipped[p][i].error
      BY <1>3, <1>9, <2>1 DEF Failures, FailureOf
    <3>2. /\ snapshot'[p].statusCode = snapshot[p].statusCode
          /\ snapshot'[p].error = snapshot[p].error
      BY <1>1, KeysOfOperations
    <3>3. snapshot[p].errorStatusCode >= 400 => snapshot'[p].errorStatusCode >= 400
      <4>1. CASE p = snap
        BY <1>1, <1>5, <4>1, KeysOfOperations
      <4>2. CASE p # snap
        BY <1>1, <4>2
      <4> QED BY <4>1, <4>2
    <3>4. t \in nodeError => t \in nodeError'
      BY <1>2
    <3> QED BY <3>1, <3>2, <3>3, <3>4
  <2>2. CASE t \notin failed
    <3>1. t = s /\ s \in refs[key] /\ throws /\ above[s] = {} /\ pc[p] \in {"running", "over"}
      BY <1>2, <1>9, <2>2
    <3>2. s \notin nodeError
      BY <1>2, <1>3, <1>9, <3>1 DEF Failures
    <3>3. counts
      BY <1>7, <3>1, <3>2
    <3>4. shipped[p] = <<>> /\ registered[keyOf[p]] = p
      BY <1>9, <3>1, ZenonT(60) DEF Told, ToldOf, AloneLive, Live
    <3>5. snap = p /\ p # "none"
      BY <1>4, <1>6, <1>9, <3>1, <3>4, KeysOfOperations
    <3>6. snapshot'[p].errorStatusCode >= 400
      BY <1>1, <1>5, <3>3, <3>5
    <3>7. t \in nodeError'
      BY <1>2, <3>1, <3>2
    <3>8. 1..Len(shipped[p]) = {} /\ pc[p] # "waiting"
      BY <3>1, <3>4
    <3> QED BY <3>1, <3>6, <3>7, <3>8
  <2> QED BY <2>1, <2>2
<1>10. \A p \in Ops : Alone(p)' = Alone(p)
  BY <1>3 DEF Alone
<1> QED BY <1>3, <1>8, <1>9, <1>10 DEF Failures, FailureOf

\* endTrace() after the operation: a root span that threw makes it an error.
LEMMA FailureEnds ==
    ASSUME ShapeInv, Told, Failures, NEW snap \in Ops, pc[snap] = "over", Alone(snap),
           kind[snap] # "job", NEW t \in failed \ captured, tree[t] = snap,
           NEW reported \in {0, 200, 404}
    PROVE  EndedTrace(snap, reported).statusCode >= 400 /\ EndedTrace(snap, reported).error
<1>1. snapshot[snap].errorStatusCode >= 400 /\ t \in nodeError /\ above[t] = {}
  BY DEF Failures, FailureOf
<1>2. t \in Tree(snap)
  <2>1. shipped[snap] = <<>>
    BY DEF Told, ToldOf
  <2>2. t \in Spans
    BY DEF ShapeInv, TypeOK
  <2> QED BY <2>1, <2>2 DEF Tree, Opened
<1>3. EndedTrace(snap, reported).statusCode >= 400
  BY <1>1, EndedTraceIs
<1>4. EndedTrace(snap, reported).error
  BY <1>1, <1>2, EndedTraceIs
<1> QED BY <1>3, <1>4

LEMMA WaitsFailures ==
    ASSUME ShapeInv, Told, Failures, NEW o \in Ops, completionWaits(o)
    PROVE  Failures'
<1> DEFINE snap == registered[keyOf[o]]
<1>1. pc[o] = "over" /\ snap \in Ops /\ keyOf[snap] = keyOf[o]
  BY WaitEnds
<1>2. PICK reported \in {0, 200, 404} : snapshot'[snap] = EndedTrace(snap, reported)
  BY WaitEnds
<1>3. \A p \in Ops \ {snap} : snapshot'[p] = snapshot[p]
  BY WaitEnds
<1>4. /\ pc' = [pc EXCEPT ![o] = "waiting"]
      /\ UNCHANGED <<kind, keyOf, tree, above, calls, nodeError, failed, captured, shipped>>
  BY DEF completionWaits, spanVars
<1>5. pc'[o] = "waiting" /\ \A p \in Ops \ {o} : pc'[p] = pc[p]
  BY <1>4 DEF ShapeInv, TypeOK
<1> HIDE DEF snap
<1>6. (calls \cap nodeError \subseteq captured)'
  BY <1>4 DEF Failures
<1>7. ASSUME NEW p \in Ops, NEW t \in failed \ captured, Alone(p), kind[p] # "job", tree[t] = p
      PROVE  /\ pc'[p] \in {"running", "over"} =>
                   snapshot'[p].errorStatusCode >= 400 /\ t \in nodeError /\ above[t] = {}
             /\ pc'[p] = "waiting" => snapshot'[p].statusCode >= 400 /\ snapshot'[p].error
             /\ \A i \in 1..Len(shipped[p]) : shipped[p][i].statusCode >= 400 /\ shipped[p][i].error
  <2>1. /\ pc[p] \in {"running", "over"} =>
              snapshot[p].errorStatusCode >= 400 /\ t \in nodeError /\ above[t] = {}
        /\ pc[p] = "waiting" => snapshot[p].statusCode >= 400 /\ snapshot[p].error
        /\ \A i \in 1..Len(shipped[p]) : shipped[p][i].statusCode >= 400 /\ shipped[p][i].error
    BY <1>7 DEF Failures, FailureOf
  <2>2. CASE keyOf[p] = keyOf[o]
    <3>1. p = o /\ p = snap
      BY <1>1, <1>7, <2>2 DEF Alone
    <3>2. EndedTrace(p, reported).statusCode >= 400 /\ EndedTrace(p, reported).error
      BY <1>1, <1>7, <3>1, FailureEnds
    <3> QED BY <1>2, <1>5, <2>1, <3>1, <3>2
  <2>3. CASE keyOf[p] # keyOf[o]
    <3>1. pc'[p] = pc[p] /\ snapshot'[p] = snapshot[p]
      BY <1>1, <1>3, <1>5, <2>3
    <3> QED BY <2>1, <3>1
  <2> QED BY <2>2, <2>3
<1>8. \A p \in Ops : Alone(p)' = Alone(p)
  BY <1>4 DEF Alone
<1> QED BY <1>4, <1>6, <1>7, <1>8 DEF Failures, FailureOf

LEMMA HandOffFailures ==
    ASSUME ShapeInv, Told, Failures, NEW o \in Ops, pc[o] \in Live, NEW snap \in Ops,
           keyOf[snap] = keyOf[o], NEW ended \in SnapshotRecords, NEW cut \in SUBSET Tree(snap),
           HandOff(o, snap, ended, cut),
           \A t \in failed \ captured : Alone(snap) /\ kind[snap] # "job" /\ tree[t] = snap =>
               ended.statusCode >= 400 /\ ended.error
    PROVE  Failures'
<1>1. PICK report : /\ Reported(snap, ended, cut, report)
                    /\ shipped'[snap] = Append(shipped[snap], report)
  BY HandedOff
<1>2. \A p \in Ops \ {snap} : shipped'[p] = shipped[p] /\ snapshot'[p] = snapshot[p]
  BY HandedOff
<1>3. /\ pc' = [pc EXCEPT ![o] = "done"]
      /\ UNCHANGED <<kind, keyOf, tree, above, calls, nodeError, failed, captured>>
  BY DEF HandOff, spanVars
<1>4. pc'[o] = "done" /\ \A p \in Ops \ {o} : pc'[p] = pc[p]
  BY <1>3 DEF ShapeInv, TypeOK
<1>5. (calls \cap nodeError \subseteq captured)'
  BY <1>3 DEF Failures
<1>6. ASSUME NEW p \in Ops, NEW t \in failed \ captured, Alone(p), kind[p] # "job", tree[t] = p
      PROVE  /\ pc'[p] \in {"running", "over"} =>
                   snapshot'[p].errorStatusCode >= 400 /\ t \in nodeError /\ above[t] = {}
             /\ pc'[p] = "waiting" => snapshot'[p].statusCode >= 400 /\ snapshot'[p].error
             /\ \A i \in 1..Len(shipped'[p]) :
                    shipped'[p][i].statusCode >= 400 /\ shipped'[p][i].error
  <2>1. CASE keyOf[p] = keyOf[o]
    <3>1. p = o /\ p = snap
      BY <1>6, <2>1 DEF Alone
    <3>2. shipped[p] = <<>>
      BY <1>6, <3>1 DEF Told, ToldOf, Live
    <3>3. Len(shipped'[p]) = 1 /\ shipped'[p][1] = report
      <4>1. report \in ShippedRecords /\ <<>> \in Seq(ShippedRecords)
        BY <1>1 DEF Reported
      <4>2. shipped'[p] = Append(<<>>, report)
        BY <1>1, <3>1, <3>2
      <4> QED BY <4>1, <4>2
    <3>4. ended.statusCode >= 400 /\ ended.error
      BY <1>6, <3>1
    <3>5. report.statusCode = ended.statusCode /\ report.error = ended.error
      BY <1>1 DEF Reported
    <3>6. \A i \in 1..Len(shipped'[p]) : shipped'[p][i] = report
      BY <3>3
    <3> QED BY <1>4, <3>1, <3>4, <3>5, <3>6
  <2>2. CASE keyOf[p] # keyOf[o]
    <3>1. pc'[p] = pc[p] /\ snapshot'[p] = snapshot[p] /\ shipped'[p] = shipped[p]
      BY <1>2, <1>4, <2>2
    <3>2. /\ pc[p] \in {"running", "over"} =>
                snapshot[p].errorStatusCode >= 400 /\ t \in nodeError /\ above[t] = {}
          /\ pc[p] = "waiting" => snapshot[p].statusCode >= 400 /\ snapshot[p].error
          /\ \A i \in 1..Len(shipped[p]) : shipped[p][i].statusCode >= 400 /\ shipped[p][i].error
      BY <1>6 DEF Failures, FailureOf
    <3> QED BY <3>1, <3>2
  <2> QED BY <2>1, <2>2
<1>7. \A p \in Ops : Alone(p)' = Alone(p)
  BY <1>3 DEF Alone
<1> QED BY <1>3, <1>5, <1>6, <1>7 DEF Failures, FailureOf

LEMMA CompletionFailures ==
    ASSUME ShapeInv, Told, Failures, NEW o \in Ops, completion(o) \/ completionTimeout(o)
    PROVE  Failures'
<1>1. CASE completion(o)
  <2> DEFINE snap == registered[keyOf[o]]
  <2>1. pc[o] = "over" /\ snap \in Ops /\ keyOf[snap] = keyOf[o]
    BY <1>1, CompletionHandsOff
  <2>2. PICK reported \in {0, 200, 404} : HandOff(o, snap, EndedTrace(snap, reported), {})
    BY <1>1, CompletionHandsOff
  <2>3. EndedTrace(snap, reported) \in SnapshotRecords
    BY <2>1, EndedTraceIs
  <2>4. {} \in SUBSET Tree(snap) /\ pc[o] \in Live
    BY <2>1 DEF Live
  <2> HIDE DEF snap
  <2>5. ASSUME NEW t \in failed \ captured, Alone(snap), kind[snap] # "job", tree[t] = snap
        PROVE  EndedTrace(snap, reported).statusCode >= 400 /\ EndedTrace(snap, reported).error
    <3>1. snap = o
      BY <2>1, <2>5 DEF Alone
    <3> QED BY <2>1, <2>5, <3>1, FailureEnds
  <2> QED BY <2>1, <2>2, <2>3, <2>4, <2>5, HandOffFailures
<1>2. CASE completionTimeout(o)
  <2> DEFINE snap == holds[o]
             cut == IF Incomplete(snap) THEN LeftOut(snap) ELSE {}
  <2>1. /\ pc[o] = "waiting" /\ snap \in Ops /\ keyOf[snap] = keyOf[o]
        /\ cut \in SUBSET Tree(snap) /\ snapshot[snap] \in SnapshotRecords
        /\ HandOff(o, snap, snapshot[snap], cut)
    BY <1>2, TimeoutHandsOff
  <2>2. pc[o] \in Live
    BY <2>1 DEF Live
  <2> HIDE DEF snap, cut
  <2>3. ASSUME NEW t \in failed \ captured, Alone(snap), kind[snap] # "job", tree[t] = snap
        PROVE  snapshot[snap].statusCode >= 400 /\ snapshot[snap].error
    <3>1. snap = o
      BY <2>1, <2>3 DEF Alone
    <3> QED BY <2>1, <2>3, <3>1 DEF Failures, FailureOf
  <2> QED BY <2>1, <2>2, <2>3, HandOffFailures
<1> QED BY <1>1, <1>2

-----------------------------------------------------------------------------
(***************************************************************************)
(* The invariant                                                           *)
(***************************************************************************)

LEMMA InitRegistry ==
    ASSUME Init
    PROVE  RegistryInv
<1>1. Fresh \in SnapshotRecords
  BY DEF Fresh, SnapshotRecords
<1>2. TypeOK
  BY <1>1 DEF Init, TypeOK
<1>3. Started /\ Registered /\ SpanShape
  BY TraceRegistryAssumption DEF Init, Started, Registered, SpanShape
<1>4. AloneLive
  BY DEF Init, AloneLive, Live
<1>5. Told
  <2> SUFFICES ASSUME NEW o \in Ops PROVE ToldOf(o)
    BY DEF Told
  <2>1. snapshot[o].unfinished = 0 /\ shipped[o] = <<>> /\ pc[o] = "none"
    BY DEF Init, Fresh
  <2> QED BY <2>1 DEF ToldOf
<1>6. Failures
  BY DEF Init, Failures
<1> QED BY <1>2, <1>3, <1>4, <1>5, <1>6 DEF RegistryInv, ShapeInv

LEMMA StutterRegistry ==
    ASSUME RegistryInv, UNCHANGED vars
    PROVE  RegistryInv'
<1> USE DEF vars, opVars, spanVars
<1>1. TypeOK' /\ Started' /\ Registered' /\ SpanShape'
  BY DEF RegistryInv, ShapeInv, TypeOK, Started, Registered, SpanShape
<1>2. \A p \in Ops : Alone(p)' = Alone(p) /\ Opened(p)' = Opened(p)
  BY DEF Alone, Opened
<1>3. AloneLive'
  BY AloneLeftAlone DEF RegistryInv
<1>4. Told'
  BY <1>2 DEF RegistryInv, Told, ToldOf
<1>5. Failures'
  BY <1>2 DEF RegistryInv, Failures, FailureOf
<1> QED BY <1>1, <1>3, <1>4, <1>5 DEF RegistryInv, ShapeInv

\* The inductive invariant, along every action of Next.
LEMMA StepRegistry ==
    ASSUME RegistryInv, Next
    PROVE  RegistryInv'
<1>0. ShapeInv /\ AloneLive /\ Told /\ Failures
  BY DEF RegistryInv
<1> SUFFICES ShapeInv' /\ AloneLive' /\ Told' /\ Failures'
  BY DEF RegistryInv
<1>1. ASSUME NEW o \in Ops, NEW key \in Keys, NEW how \in {"http", "graphql", "job"},
             NEW preflight \in BOOLEAN, startTrace(o, key, how, preflight)
      PROVE  ShapeInv' /\ AloneLive' /\ Told' /\ Failures'
  BY <1>0, <1>1, StartShape, StartAlone, StartTold, StartFailures
<1>2. ASSUME NEW o \in Ops, addRouteMetadataToTrace(o)
      PROVE  ShapeInv' /\ AloneLive' /\ Told' /\ Failures'
  BY <1>0, <1>2, RouteShape, RestAlone, RestTold, PlaceFailures
<1>3. ASSUME NEW o \in Ops, operationOver(o) \/ clientAborts(o)
      PROVE  ShapeInv' /\ AloneLive' /\ Told' /\ Failures'
  BY <1>0, <1>3, OverShape, RestAlone, RestTold, PlaceFailures
<1>4. ASSUME NEW o \in Ops, abandonTrace(o)
      PROVE  ShapeInv' /\ AloneLive' /\ Told' /\ Failures'
  BY <1>0, <1>4, AbandonShape, RestAlone, RestTold, PlaceFailures
<1>5. ASSUME NEW o \in Ops, completionOfNothing(o)
      PROVE  ShapeInv' /\ AloneLive' /\ Told' /\ Failures'
  BY <1>0, <1>5, NothingShape, RestAlone, RestTold, PlaceFailures
<1>6. ASSUME NEW o \in Ops, completionWaits(o)
      PROVE  ShapeInv' /\ AloneLive' /\ Told' /\ Failures'
  BY <1>0, <1>6, WaitsShape, RestAlone, RestTold, WaitsFailures
<1>7. ASSUME NEW o \in Ops, completion(o) \/ completionTimeout(o)
      PROVE  ShapeInv' /\ AloneLive' /\ Told' /\ Failures'
  BY <1>0, <1>7, CompletionShape, CompletionTold, CompletionFailures
<1>8. ASSUME NEW o \in Ops, NEW s \in Spans, captureError(o, s)
      PROVE  ShapeInv' /\ AloneLive' /\ Told' /\ Failures'
  BY <1>0, <1>8, CaptureShape, CaptureTold, CaptureFailures
<1>9. ASSUME NEW o \in Ops, NEW s \in Spans, NEW caller \in Spans \cup {"none"},
             internalStartTraceStep(o, s, caller) \/ createManualSpan(o, s, caller)
      PROVE  ShapeInv' /\ AloneLive' /\ Told' /\ Failures'
  <2>1. Books(o, s, caller)
    BY <1>9 DEF internalStartTraceStep, createManualSpan, Books
  <2> QED BY <1>0, <2>1, OpenShape, OpenAlone, OpenTold, OpenFailures
<1>10. ASSUME NEW s \in Spans, NEW throws \in BOOLEAN, NEW error \in Nat,
              internalEndTraceStep(s, throws, error)
       PROVE  ShapeInv' /\ AloneLive' /\ Told' /\ Failures'
  BY <1>0, <1>10, EndShape, EndAlone, EndTold, EndFailures
<1>11. 0 \in Nat /\ Errors \subseteq Nat /\ Spans \subseteq Spans \cup {"none"}
  BY TraceRegistryAssumption
<1> QED BY <1>1, <1>2, <1>3, <1>4, <1>5, <1>6, <1>7, <1>8, <1>9, <1>10, <1>11 DEF Next

\* Whatever operations, keys, spans and errors there are, and however
\* operations share keys: the registry keeps its shape, an operation alone with
\* its key has both counters right until its completion is over, and a snapshot
\* has told what became of its spans and of their failures.
THEOREM RegistryKeepsItsBooks == Spec => []RegistryInv
<1>1. Init => RegistryInv
  BY InitRegistry
<1>2. RegistryInv /\ [Next]_vars => RegistryInv'
  BY StepRegistry, StutterRegistry
<1> QED BY <1>1, <1>2, PTL DEF Spec

LEMMA RegistryTells ==
    ASSUME RegistryInv
    PROVE  TracesToldOnce
<1>1. \A o \in Ops : shipped[o] \in Seq(ShippedRecords)
  BY DEF RegistryInv, ShapeInv, TypeOK
<1>2. \A o \in Ops : DOMAIN shipped[o] = 1..Len(shipped[o])
  BY <1>1
<1>3. \A o \in Ops : ToldOf(o)
  BY DEF RegistryInv, Told
<1>4. ShippedTreeIsClosed
  BY <1>2, <1>3 DEF ShippedTreeIsClosed, ToldOf
<1>5. SpansAccountedFor
  BY <1>2, <1>3 DEF SpansAccountedFor, ToldOf
<1>6. ReportedOnce
  <2> SUFFICES ASSUME NEW o \in Ops, Alone(o)
               PROVE  /\ Len(shipped[o]) <= 1
                      /\ pc[o] = "done" /\ Opened(o) # {} => shipped[o] # <<>>
                      /\ pc[o] = "abandoned" => shipped[o] = <<>>
    BY DEF ReportedOnce
  <2>1. /\ shipped[o] # <<>> => pc[o] = "done" /\ Len(shipped[o]) = 1
        /\ pc[o] = "done" /\ Opened(o) # {} => shipped[o] # <<>>
    BY <1>3 DEF ToldOf
  <2>2. Len(shipped[o]) <= 1
    <3>1. shipped[o] = <<>> \/ Len(shipped[o]) = 1
      BY <2>1
    <3> QED BY <3>1
  <2>3. pc[o] = "abandoned" => shipped[o] = <<>>
    BY <2>1
  <2> QED BY <2>1, <2>2, <2>3
<1>7. UncapturedFailureCounts
  <2> SUFFICES ASSUME NEW o \in Ops, Alone(o), kind[o] # "job",
                      NEW s \in (failed \ captured) \cap Opened(o), NEW i \in DOMAIN shipped[o]
               PROVE  shipped[o][i].statusCode >= 400 /\ shipped[o][i].error
    BY DEF UncapturedFailureCounts, CountedAsErrors
  <2>1. FailureOf(o, s) /\ tree[s] = o /\ i \in 1..Len(shipped[o])
    BY <1>2 DEF RegistryInv, Failures, Opened
  <2> QED BY <2>1 DEF FailureOf
<1>8. RegistryFreed
  BY DEF RegistryInv, ShapeInv, Registered, RegistryFreed, Live
<1> QED BY <1>4, <1>5, <1>6, <1>7, <1>8 DEF TracesToldOnce, RegistryInv, ShapeInv

\* An operation's trace is told whole, truthfully and once, and then leaves the
\* registry (endTrace, pluckSnapshot, abandonTrace).
THEOREM TracesAreToldOnce == Spec => []TracesToldOnce
<1>1. RegistryInv => TracesToldOnce
  BY RegistryTells
<1> QED BY <1>1, RegistryKeepsItsBooks, PTL

-----------------------------------------------------------------------------
(***************************************************************************)
(* MintedIds                                                               *)
(***************************************************************************)

\* Division by a number that is not written out.
LEMMA DivRest ==
    ASSUME NEW x \in Nat, NEW m \in Nat \ {0}
    PROVE  x \div m \in Nat /\ x % m \in 0 .. m - 1 /\ x = m * (x \div m) + (x % m)
OBVIOUS

LEMMA TimesOrder ==
    ASSUME NEW m \in Nat, NEW p \in Nat, NEW q \in Nat, p <= q
    PROVE  m * p \in Nat /\ m * q \in Nat /\ m * p <= m * q
<1>1. q - p \in Nat /\ m * (q - p) \in Nat
  OBVIOUS
<1>2. m * (q - p) = m * q - m * p
  OBVIOUS
<1>3. m * p \in Nat /\ m * q \in Nat
  OBVIOUS
<1> QED BY <1>1, <1>2, <1>3

LEMMA TimesMore ==
    ASSUME NEW m \in Nat, NEW p \in Nat, NEW q \in Nat, p < q
    PROVE  m * p + m <= m * q
<1>1. m * (p + 1) <= m * q
  BY TimesOrder
<1>2. m * (p + 1) = m * p + m
  OBVIOUS
<1>3. m * p \in Nat /\ m * q \in Nat
  OBVIOUS
<1> QED BY <1>1, <1>2, <1>3

LEMMA DivIs ==
    ASSUME NEW m \in Nat \ {0}, NEW q \in Nat, NEW r \in 0 .. m - 1, NEW x \in Nat, x = m * q + r
    PROVE  x \div m = q /\ x % m = r
<1>1. PICK p \in Nat, s \in 0 .. m - 1 : p = x \div m /\ s = x % m /\ x = m * p + s
  BY DivRest
<1>2. m * p + s = m * q + r /\ m * p \in Nat /\ m * q \in Nat
  BY <1>1
<1>3. ~(p < q)
  <2>1. p < q => m * p + m <= m * q
    BY <1>1, TimesMore
  <2> QED BY <1>1, <1>2, <2>1
<1>4. ~(q < p)
  <2>1. q < p => m * q + m <= m * p
    BY <1>1, TimesMore
  <2> QED BY <1>1, <1>2, <2>1
<1>5. p = q
  BY <1>1, <1>3, <1>4
<1> QED BY <1>1, <1>2, <1>5

LEMMA DivDiv ==
    ASSUME NEW x \in Nat, NEW m \in Nat \ {0}, NEW b \in Nat \ {0}
    PROVE  (x \div m) \div b = x \div (m * b)
<1>1. PICK p \in Nat, s \in 0 .. m - 1 : p = x \div m /\ x = m * p + s
  BY DivRest
<1>2. PICK q \in Nat, t \in 0 .. b - 1 : q = p \div b /\ p = b * q + t
  BY DivRest
<1>3. m * b \in Nat \ {0} /\ m * t \in Nat /\ m * t + m <= m * b
  <2>1. m * b \in Nat /\ m * t \in Nat
    OBVIOUS
  <2>2. m * t + m <= m * b
    BY TimesMore
  <2> QED BY <2>1, <2>2
<1>4. x = (m * b) * q + (m * t + s)
  <2>1. m * (b * q + t) = m * (b * q) + m * t
    OBVIOUS
  <2>2. m * (b * q) = (m * b) * q
    OBVIOUS
  <2>3. x = m * (b * q + t) + s
    BY <1>1, <1>2
  <2>4. x = (m * (b * q) + m * t) + s
    BY <2>1, <2>3
  <2>5. m * (b * q) \in Nat /\ m * t \in Nat
    OBVIOUS
  <2> QED BY <2>2, <2>4, <2>5
<1>5. m * t + s \in 0 .. (m * b) - 1
  BY <1>3
<1>6. x \div (m * b) = q
  BY <1>3, <1>4, <1>5, DivIs
<1> QED BY <1>1, <1>2, <1>6

LEMMA DivOrder ==
    ASSUME NEW x \in Nat, NEW y \in Nat, NEW m \in Nat \ {0}, x < y
    PROVE  \/ x \div m < y \div m
           \/ x \div m = y \div m /\ x % m < y % m
<1>1. PICK p \in Nat, s \in 0 .. m - 1 : p = x \div m /\ s = x % m /\ x = m * p + s
  BY DivRest
<1>2. PICK q \in Nat, t \in 0 .. m - 1 : q = y \div m /\ t = y % m /\ y = m * q + t
  BY DivRest
<1>3. ~(q < p)
  <2>1. q < p => m * q + m <= m * p
    BY TimesMore
  <2>2. m * p \in Nat /\ m * q \in Nat
    OBVIOUS
  <2> QED BY <1>1, <1>2, <2>1, <2>2
<1>4. p = q => s < t
  <2>1. m * p \in Nat /\ (p = q => m * p = m * q)
    OBVIOUS
  <2> QED BY <1>1, <1>2, <2>1
<1> QED BY <1>1, <1>2, <1>3, <1>4

LEMMA DivBelow ==
    ASSUME NEW x \in Nat, NEW m \in Nat \ {0}, NEW b \in Nat \ {0}, x < m * b
    PROVE  x \div m \in 0 .. b - 1
<1>1. PICK p \in Nat, s \in 0 .. m - 1 : p = x \div m /\ x = m * p + s
  BY DivRest
<1>2. ~(b <= p)
  <2>1. b <= p => m * b <= m * p
    BY TimesOrder
  <2>2. m * p \in Nat /\ m * b \in Nat
    OBVIOUS
  <2> QED BY <1>1, <2>1, <2>2
<1> QED BY <1>1, <1>2

\* Times of 48 bits are in the order of their bytes.
LEMMA BytesInOrder ==
    ASSUME NEW x \in 0 .. MaxTime, NEW y \in 0 .. MaxTime, x < y
    PROVE  Before_(timeBytes(x), timeBytes(y))
<1> DEFINE W == TimeWord
           H(z) == z \div W
           L(z) == z % W
           b1(z) == ByteOf(H(z), W * BYTE)
           b2(z) == ByteOf(H(z), W)
           b3(z) == ByteOf(H(z), BYTE)
           b4(z) == H(z) % BYTE
           b5(z) == ByteOf(L(z), BYTE)
           b6(z) == L(z) % BYTE
<1>1. BYTE \in Nat \ {0} /\ W \in Nat \ {0} /\ W * BYTE \in Nat \ {0} /\ W = BYTE * BYTE
      /\ W * W \in Nat \ {0} /\ BYTE * BYTE = W /\ (W * BYTE) * BYTE = W * W
  <2>1. BYTE \in Nat /\ BYTE # 0
    BY MintedIdsAssumption
  <2>2. BYTE * BYTE \in Nat /\ BYTE * BYTE # 0
    BY <2>1
  <2>3. W \in Nat /\ W # 0 /\ W = BYTE * BYTE
    BY <2>2 DEF TimeWord
  <2>4. W * BYTE \in Nat /\ W * BYTE # 0 /\ W * W \in Nat /\ W * W # 0
    BY ONLY <2>1, <2>3
  <2>5. (W * BYTE) * BYTE = W * (BYTE * BYTE)
    BY <2>1, <2>3
  <2> QED BY <2>1, <2>3, <2>4, <2>5
<1>2. x \in Nat /\ y \in Nat /\ x < W * W * W /\ y < W * W * W
  <2>1. W * W * W \in Nat
    BY <1>1
  <2> QED BY <1>1, <2>1 DEF MaxTime
<1> HIDE DEF W
<1>3. ASSUME NEW z \in Nat, z < W * W * W
      PROVE  /\ H(z) \in Nat /\ L(z) \in 0 .. W - 1
             /\ H(z) \div BYTE \in Nat /\ H(z) \div W \in Nat
             /\ (H(z) \div BYTE) \div BYTE = H(z) \div W
             /\ (H(z) \div W) \div BYTE = H(z) \div (W * BYTE)
             /\ H(z) \div (W * BYTE) \in 0 .. BYTE - 1 /\ L(z) \div BYTE \in 0 .. BYTE - 1
  <2>1. H(z) \in Nat /\ L(z) \in 0 .. W - 1
    BY <1>1, <1>3, DivRest
  <2>2. H(z) \div BYTE \in Nat /\ H(z) \div W \in Nat
    BY <1>1, <2>1, DivRest
  <2>3. (H(z) \div BYTE) \div BYTE = H(z) \div W /\ (H(z) \div W) \div BYTE = H(z) \div (W * BYTE)
    <3> HIDE DEF H
    <3>1. (H(z) \div BYTE) \div BYTE = H(z) \div (BYTE * BYTE)
      BY <1>1, <2>1, DivDiv
    <3>2. (H(z) \div W) \div BYTE = H(z) \div (W * BYTE)
      BY <1>1, <2>1, DivDiv
    <3> QED BY <1>1, <3>1, <3>2
  <2>4. H(z) < (W * BYTE) * BYTE
    <3>1. z < W * (W * W)
      BY <1>1, <1>3
    <3>2. H(z) \in 0 .. (W * W) - 1
      BY <1>1, <1>3, <3>1, DivBelow
    <3> QED BY <1>1, <3>2
  <2>5. H(z) \div (W * BYTE) \in 0 .. BYTE - 1
    BY <1>1, <2>1, <2>4, DivBelow
  <2>6. L(z) \in Nat /\ L(z) < BYTE * BYTE
    BY <1>1, <2>1
  <2>7. L(z) \div BYTE \in 0 .. BYTE - 1
    BY <1>1, <2>6, DivBelow
  <2> QED BY <2>1, <2>2, <2>3, <2>5, <2>7
<1>4. ASSUME NEW z \in 0 .. BYTE - 1 PROVE z % BYTE = z
  <2>1. z = BYTE * 0 + z
    BY <1>1
  <2> QED BY <1>1, <2>1, DivIs
<1> DEFINE h1(z) == H(z) \div BYTE
           h2(z) == H(z) \div W
           h3(z) == H(z) \div (W * BYTE)
\* The bytes, from the quotients they are the rests of.
<1>5. ASSUME NEW z \in Nat, z < W * W * W
      PROVE  /\ b1(z) = h3(z) /\ b2(z) = h2(z) % BYTE /\ b3(z) = h1(z) % BYTE
             /\ h2(z) = h1(z) \div BYTE /\ h3(z) = h2(z) \div BYTE /\ b5(z) = L(z) \div BYTE
  <2>1. h3(z) % BYTE = h3(z) /\ (L(z) \div BYTE) % BYTE = L(z) \div BYTE
    BY <1>3, <1>4, <1>5
  <2> QED BY <1>3, <1>5, <2>1 DEF ByteOf
<1>6. /\ H(x) \in Nat /\ H(y) \in Nat /\ L(x) \in Nat /\ L(y) \in Nat
      /\ h1(x) \in Nat /\ h1(y) \in Nat /\ h2(x) \in Nat /\ h2(y) \in Nat
      /\ h3(x) \in Nat /\ h3(y) \in Nat
  <2>1. ASSUME NEW z \in Nat, z < W * W * W
        PROVE  H(z) \in Nat /\ L(z) \in Nat /\ h1(z) \in Nat /\ h2(z) \in Nat /\ h3(z) \in Nat
    BY <1>1, <1>3, <2>1
  <2> QED BY <1>2, <2>1
<1> DEFINE s == timeBytes(x)
           t == timeBytes(y)
<1>7. /\ s[1] = b1(x) /\ s[2] = b2(x) /\ s[3] = b3(x) /\ s[4] = b4(x) /\ s[5] = b5(x) /\ s[6] = b6(x)
      /\ t[1] = b1(y) /\ t[2] = b2(y) /\ t[3] = b3(y) /\ t[4] = b4(y) /\ t[5] = b5(y) /\ t[6] = b6(y)
  BY DEF timeBytes, W
<1>8. /\ b1(x) = h3(x) /\ b2(x) = h2(x) % BYTE /\ b3(x) = h1(x) % BYTE /\ b5(x) = L(x) \div BYTE
      /\ b1(y) = h3(y) /\ b2(y) = h2(y) % BYTE /\ b3(y) = h1(y) % BYTE /\ b5(y) = L(y) \div BYTE
      /\ h2(x) = h1(x) \div BYTE /\ h3(x) = h2(x) \div BYTE
      /\ h2(y) = h1(y) \div BYTE /\ h3(y) = h2(y) \div BYTE
  BY <1>2, <1>5
<1>9. h1(x) = H(x) \div BYTE /\ h1(y) = H(y) \div BYTE
  OBVIOUS
<1> HIDE DEF h1, h2, h3, H, L
<1>10. CASE H(x) = H(y) /\ L(x) < L(y)
  <2>1. \A i \in 1 .. 4 : s[i] = t[i]
    <3>1. b1(x) = b1(y) /\ b2(x) = b2(y) /\ b3(x) = b3(y) /\ b4(x) = b4(y)
      BY <1>10
    <3> QED BY <1>7, <3>1
  <2>2. \/ b5(x) < b5(y)
        \/ b5(x) = b5(y) /\ b6(x) < b6(y)
    <3>1. \/ L(x) \div BYTE < L(y) \div BYTE
          \/ L(x) \div BYTE = L(y) \div BYTE /\ L(x) % BYTE < L(y) % BYTE
      BY <1>1, <1>6, <1>10, DivOrder
    <3> HIDE DEF b5
    <3> QED BY <1>8, <3>1
  <2>3. CASE b5(x) < b5(y)
    <3>1. s[5] < t[5] /\ \A j \in 1 .. 5 - 1 : s[j] = t[j]
      BY <1>7, <2>1, <2>3
    <3> QED BY <3>1 DEF Before_
  <2>4. CASE b5(x) = b5(y) /\ b6(x) < b6(y)
    <3>1. s[6] < t[6] /\ \A j \in 1 .. 6 - 1 : s[j] = t[j]
      BY <1>7, <2>1, <2>4
    <3> QED BY <3>1 DEF Before_
  <2> QED BY <2>2, <2>3, <2>4
<1>11. CASE H(x) < H(y)
  <2>1. h1(x) < h1(y) \/ (h1(x) = h1(y) /\ b4(x) < b4(y))
    <3>1. \/ H(x) \div BYTE < H(y) \div BYTE
          \/ H(x) \div BYTE = H(y) \div BYTE /\ H(x) % BYTE < H(y) % BYTE
      BY <1>1, <1>6, <1>11, DivOrder
    <3> QED BY <1>9, <3>1
  <2>2. h1(x) < h1(y) => h2(x) < h2(y) \/ (h2(x) = h2(y) /\ b3(x) < b3(y))
    <3> SUFFICES ASSUME h1(x) < h1(y) PROVE h2(x) < h2(y) \/ (h2(x) = h2(y) /\ b3(x) < b3(y))
      OBVIOUS
    <3>1. \/ h1(x) \div BYTE < h1(y) \div BYTE
          \/ h1(x) \div BYTE = h1(y) \div BYTE /\ h1(x) % BYTE < h1(y) % BYTE
      BY <1>1, <1>6, DivOrder
    <3> HIDE DEF b2, b3
    <3> QED BY <1>8, <3>1
  <2>3. h2(x) < h2(y) => h3(x) < h3(y) \/ (h3(x) = h3(y) /\ b2(x) < b2(y))
    <3> SUFFICES ASSUME h2(x) < h2(y) PROVE h3(x) < h3(y) \/ (h3(x) = h3(y) /\ b2(x) < b2(y))
      OBVIOUS
    <3>1. \/ h2(x) \div BYTE < h2(y) \div BYTE
          \/ h2(x) \div BYTE = h2(y) \div BYTE /\ h2(x) % BYTE < h2(y) % BYTE
      BY <1>1, <1>6, DivOrder
    <3> HIDE DEF b2, b3
    <3> QED BY <1>8, <3>1
  <2>4. h1(x) = h1(y) => h2(x) = h2(y) /\ b3(x) = b3(y)
    BY <1>8
  <2>5. h2(x) = h2(y) => h3(x) = h3(y) /\ b2(x) = b2(y) /\ b1(x) = b1(y)
    BY <1>8
  <2> HIDE DEF b1, b2, b3, b4, b5, b6, h1, h2, h3, s, t, H, L
  <2>6. CASE h3(x) < h3(y)
    <3>1. s[1] < t[1] /\ \A j \in 1 .. 1 - 1 : s[j] = t[j]
      BY <1>7, <1>8, <2>6
    <3> QED BY <3>1 DEF Before_, s, t
  <2>7. CASE h3(x) = h3(y) /\ b2(x) < b2(y)
    <3>1. s[2] < t[2] /\ \A j \in 1 .. 2 - 1 : s[j] = t[j]
      BY <1>7, <1>8, <2>7
    <3> QED BY <3>1 DEF Before_, s, t
  <2>8. CASE h2(x) = h2(y) /\ b3(x) < b3(y)
    <3>1. s[3] < t[3] /\ \A j \in 1 .. 3 - 1 : s[j] = t[j]
      BY <1>7, <2>5, <2>8
    <3> QED BY <3>1 DEF Before_, s, t
  <2>9. CASE h1(x) = h1(y) /\ b4(x) < b4(y)
    <3>1. s[4] < t[4] /\ \A j \in 1 .. 4 - 1 : s[j] = t[j]
      BY <1>7, <2>4, <2>5, <2>9
    <3> QED BY <3>1 DEF Before_, s, t
  <2> QED BY <2>1, <2>2, <2>3, <2>6, <2>7, <2>8, <2>9
<1>12. H(x) < H(y) \/ (H(x) = H(y) /\ L(x) < L(y))
  BY <1>1, <1>2, DivOrder DEF H, L
<1> QED BY <1>10, <1>11, <1>12

-----------------------------------------------------------------------------
\* The random bytes delivered so far are numbered up to this one.
Delivered == PoolLength * (Len(minted) + 1)

Ids == [at : 0 .. MaxTime, time : {timeBytes(z) : z \in 0 .. MaxTime},
        random : [1 .. RANDOM_BYTES_PER_ID -> Nat]]

\* An id is made of the time it was minted at and of bytes delivered by then.
IdShape ==
    /\ pool \in [1 .. PoolLength -> Nat] /\ poolOffset \in 0 .. PoolLength
    /\ clock \in 0 .. MaxTime
    /\ minted \in Seq(Ids)
    /\ \A i \in 1 .. Len(minted) : /\ minted[i].at \in 0 .. MaxTime
                                   /\ minted[i].time = timeBytes(minted[i].at)
                                   /\ minted[i].random \in [1 .. RANDOM_BYTES_PER_ID -> Nat]
BytesSpent ==
    \A i \in 1 .. Len(minted), k \in 1 .. RANDOM_BYTES_PER_ID :
        minted[i].random[k] # 0 /\ minted[i].random[k] <= Delivered
\* What is left of the pool is in no id, and no byte of it is there twice.
BytesLeft ==
    \A k \in poolOffset + 1 .. PoolLength :
        /\ pool[k] # 0 /\ pool[k] <= Delivered
        /\ \A m \in poolOffset + 1 .. PoolLength : m # k => pool[m] # pool[k]
        /\ \A i \in 1 .. Len(minted), m \in 1 .. RANDOM_BYTES_PER_ID : minted[i].random[m] # pool[k]
BytesDiffer ==
    \A i, j \in 1 .. Len(minted), k, m \in 1 .. RANDOM_BYTES_PER_ID :
        <<i, k>> # <<j, m>> => minted[i].random[k] # minted[j].random[m]
IdsInv == IdShape /\ BytesSpent /\ BytesLeft /\ BytesDiffer

\* The pool holds one id's bytes at least, and each refill delivers more.
LEMMA PoolIsLarge ==
    /\ RANDOM_BYTES_PER_ID \in Nat \ {0} /\ PoolLength \in Nat /\ PoolLength >= RANDOM_BYTES_PER_ID
    /\ \A n \in Nat : /\ PoolLength * (n + 1) \in Nat
                      /\ PoolLength * (n + 2) = PoolLength * (n + 1) + PoolLength
<1>1. RANDOM_BYTES_PER_ID \in Nat \ {0} /\ IdsPerPool \in Nat \ {0}
  BY MintedIdsAssumption
<1>2. RANDOM_BYTES_PER_ID * 1 <= RANDOM_BYTES_PER_ID * IdsPerPool
  BY <1>1, TimesOrder
<1>3. PoolLength \in Nat /\ PoolLength >= RANDOM_BYTES_PER_ID
  BY <1>1, <1>2 DEF PoolLength
<1>4. ASSUME NEW n \in Nat
      PROVE  PoolLength * (n + 1) \in Nat /\ PoolLength * (n + 2) = PoolLength * (n + 1) + PoolLength
  BY <1>3
<1> QED BY <1>1, <1>3, <1>4

LEMMA IdsStart == IdsInit => IdsInv
<1> SUFFICES ASSUME IdsInit PROVE IdsInv
  OBVIOUS
<1>1. minted = <<>> /\ Len(minted) = 0 /\ poolOffset = PoolLength
  BY DEF IdsInit
<1>2. IdShape
  BY <1>1, PoolIsLarge, MintedIdsAssumption DEF IdsInit, IdShape
<1>3. BytesSpent /\ BytesLeft /\ BytesDiffer
  BY <1>1, PoolIsLarge DEF BytesSpent, BytesLeft, BytesDiffer
<1> QED BY <1>2, <1>3 DEF IdsInv

\* uuidv7: the bytes of the new id are the next ones of the pool, or the first
\* of a new one.
LEMMA MintStep ==
    ASSUME IdsInv, uuidv7
    PROVE  IdsInv'
<1> DEFINE RB == RANDOM_BYTES_PER_ID
           n == Len(minted)
           r == IF mustRefill THEN 0 ELSE poolOffset
           fresh == IF mustRefill THEN [k \in 1 .. PoolLength |-> PoolLength * (n + 1) + k] ELSE pool
           bytes == [k \in 1 .. RB |-> IF r + k <= PoolLength THEN fresh[r + k] ELSE 0]
           id == [at |-> clock, time |-> timeBytes(clock), random |-> bytes]
<1>1. IdShape /\ BytesSpent /\ BytesLeft /\ BytesDiffer
  BY DEF IdsInv
<1>2. pool' = fresh /\ poolOffset' = r + RB /\ minted' = Append(minted, id) /\ clock' = clock
  BY DEF uuidv7
<1>3. /\ RB \in Nat \ {0} /\ PoolLength \in Nat /\ RB <= PoolLength /\ n \in Nat
      /\ Delivered \in Nat /\ Delivered = PoolLength * (n + 1) /\ poolOffset \in 0 .. PoolLength
  BY <1>1, PoolIsLarge DEF IdShape, Delivered
<1>4. r \in Nat /\ r + RB <= PoolLength
  BY <1>3 DEF mustRefill
<1>5. Len(minted') = n + 1 /\ Delivered' = Delivered + PoolLength
  <2>1. Len(minted') = n + 1
    BY <1>1, <1>2 DEF IdShape
  <2>2. Delivered' = PoolLength * (n + 2)
    BY <2>1, <1>3 DEF Delivered, PoolLength
  <2> QED BY <1>3, <2>1, <2>2, PoolIsLarge
\* The pool after the step, from where the id took its bytes on.
<1>6. ASSUME NEW k \in r + 1 .. PoolLength
      PROVE  /\ fresh[k] \in Nat /\ fresh[k] # 0 /\ fresh[k] <= Delivered'
             /\ \A m \in r + 1 .. PoolLength : m # k => fresh[m] # fresh[k]
             /\ \A i \in 1 .. n, m \in 1 .. RB : minted[i].random[m] # fresh[k]
  <2>1. CASE mustRefill
    <3>1. ASSUME NEW m \in r + 1 .. PoolLength PROVE fresh[m] = Delivered + m
      BY <1>3, <1>4, <2>1
    <3>2. ASSUME NEW i \in 1 .. n, NEW m \in 1 .. RB PROVE minted[i].random[m] # Delivered + k
      <4>1. minted[i].random[m] \in Nat /\ minted[i].random[m] <= Delivered
        BY <1>1 DEF BytesSpent, IdShape
      <4> QED BY <1>3, <1>4, <4>1
    <3>3. fresh[k] = Delivered + k
      BY <3>1
    <3> HIDE DEF fresh
    <3>4. \A m \in r + 1 .. PoolLength : m # k => fresh[m] # fresh[k]
      BY <1>3, <1>4, <3>1
    <3>5. fresh[k] \in Nat /\ fresh[k] # 0 /\ fresh[k] <= Delivered'
      BY <1>3, <1>4, <1>5, <3>3
    <3> QED BY <3>2, <3>3, <3>4, <3>5
  <2>2. CASE ~mustRefill
    <3>1. r = poolOffset /\ fresh = pool
      BY <2>2
    <3>2. /\ pool[k] # 0 /\ pool[k] <= Delivered
          /\ \A m \in r + 1 .. PoolLength : m # k => pool[m] # pool[k]
          /\ \A i \in 1 .. n, m \in 1 .. RB : minted[i].random[m] # pool[k]
      BY <1>1, <3>1 DEF BytesLeft
    <3>3. pool[k] \in Nat
      BY <1>1, <1>3, <1>4 DEF IdShape
    <3>4. pool[k] <= Delivered'
      BY <1>3, <1>5, <3>2, <3>3
    <3> QED BY <3>1, <3>2, <3>3, <3>4
  <2> QED BY <2>1, <2>2
<1>7. ASSUME NEW k \in 1 .. RB
      PROVE  bytes[k] = fresh[r + k] /\ r + k \in r + 1 .. r + RB /\ r + k \in r + 1 .. PoolLength
  BY <1>3, <1>4
<1>8. /\ \A i \in 1 .. n : minted'[i] = minted[i]
      /\ minted'[n + 1] = id /\ id.random = bytes /\ id.at = clock /\ id.time = timeBytes(clock)
  <2>1. id.random = bytes /\ id.at = clock /\ id.time = timeBytes(clock)
    OBVIOUS
  <2> HIDE DEF id
  <2>2. (\A i \in 1 .. n : minted'[i] = minted[i]) /\ minted'[n + 1] = id
    BY <1>1, <1>2 DEF IdShape
  <2> QED BY <2>1, <2>2
<1>9. fresh \in [1 .. PoolLength -> Nat] /\ bytes \in [1 .. RB -> Nat]
  <2>1. fresh \in [1 .. PoolLength -> Nat]
    BY <1>1, <1>3 DEF IdShape
  <2>2. \A k \in 1 .. RB : bytes[k] \in Nat
    BY <1>6, <1>7
  <2> QED BY <2>1, <2>2
<1> HIDE DEF fresh, bytes, r, n, RB
<1>10. IdShape'
  <2>1. pool' \in [1 .. PoolLength -> Nat] /\ poolOffset' \in 0 .. PoolLength /\ clock' \in 0 .. MaxTime
    BY <1>1, <1>2, <1>3, <1>4, <1>9 DEF IdShape
  <2>2. minted' \in Seq(Ids)
    <3>1. id \in Ids
      BY <1>1, <1>9 DEF IdShape, RB, Ids
    <3> HIDE DEF id
    <3> QED BY <1>1, <1>2, <3>1 DEF IdShape
  <2>3. ASSUME NEW i \in 1 .. n + 1
        PROVE  /\ minted'[i].at \in 0 .. MaxTime /\ minted'[i].time = timeBytes(minted'[i].at)
               /\ minted'[i].random \in [1 .. RANDOM_BYTES_PER_ID -> Nat]
    <3>1. CASE i \in 1 .. n
      BY <1>1, <1>8, <3>1 DEF IdShape, n
    <3>2. CASE i = n + 1
      <4>1. clock \in 0 .. MaxTime
        BY <1>1 DEF IdShape
      <4> HIDE DEF id
      <4> QED BY <1>8, <1>9, <3>2, <4>1 DEF RB
    <3> QED BY <1>3, <3>1, <3>2
  <2> QED BY <1>5, <2>1, <2>2, <2>3 DEF IdShape, PoolLength, MaxTime, TimeWord, timeBytes, ByteOf, Ids
<1> HIDE DEF id
\* A byte of any id, old or new.
<1>11. ASSUME NEW i \in 1 .. n + 1, NEW k \in 1 .. RB
       PROVE  /\ i \in 1 .. n => minted'[i].random[k] = minted[i].random[k]
              /\ i = n + 1 => minted'[i].random[k] = fresh[r + k]
              /\ i \in 1 .. n \/ i = n + 1
  BY <1>3, <1>7, <1>8
<1>12. BytesSpent'
  <2>1. ASSUME NEW i \in 1 .. n + 1, NEW k \in 1 .. RB
        PROVE  minted'[i].random[k] # 0 /\ minted'[i].random[k] <= Delivered'
    <3>1. CASE i \in 1 .. n
      <4>1. minted[i].random[k] \in Nat /\ minted[i].random[k] # 0 /\ minted[i].random[k] <= Delivered
        BY <1>1, <3>1 DEF BytesSpent, IdShape, n, RB
      <4> QED BY <1>3, <1>5, <1>11, <3>1, <4>1
    <3>2. CASE i = n + 1
      BY <1>6, <1>7, <1>11, <3>2
    <3> QED BY <1>11, <3>1, <3>2
  <2> QED BY <1>5, <2>1 DEF BytesSpent, RB
<1>13. BytesLeft'
  <2>1. ASSUME NEW k \in poolOffset' + 1 .. PoolLength
        PROVE  /\ pool'[k] # 0 /\ pool'[k] <= Delivered'
               /\ \A m \in poolOffset' + 1 .. PoolLength : m # k => pool'[m] # pool'[k]
               /\ \A i \in 1 .. n + 1, m \in 1 .. RB : minted'[i].random[m] # pool'[k]
    <3>1. k \in r + 1 .. PoolLength /\ \A m \in poolOffset' + 1 .. PoolLength : m \in r + 1 .. PoolLength
      BY <1>2, <1>3, <1>4
    <3>2. ASSUME NEW i \in 1 .. n + 1, NEW m \in 1 .. RB PROVE minted'[i].random[m] # fresh[k]
      <4>1. CASE i \in 1 .. n
        BY <1>6, <1>11, <3>1, <4>1
      <4>2. CASE i = n + 1
        <5>1. r + m # k
          BY <1>2, <1>3, <1>4
        <5> QED BY <1>6, <1>7, <1>11, <3>1, <4>2, <5>1
      <4> QED BY <1>11, <4>1, <4>2
    <3> QED BY <1>2, <1>6, <3>1, <3>2
  <2>2. PoolLength' = PoolLength
    BY DEF PoolLength
  <2> QED BY <1>5, <2>1, <2>2 DEF BytesLeft, RB
<1>14. BytesDiffer'
  <2>1. ASSUME NEW i \in 1 .. n + 1, NEW j \in 1 .. n + 1, NEW k \in 1 .. RB, NEW m \in 1 .. RB,
               <<i, k>> # <<j, m>>
        PROVE  minted'[i].random[k] # minted'[j].random[m]
    <3>1. CASE i \in 1 .. n /\ j \in 1 .. n
      <4>1. minted[i].random[k] # minted[j].random[m]
        BY <1>1, <2>1, <3>1 DEF BytesDiffer, n, RB
      <4> QED BY <1>11, <3>1, <4>1
    <3>2. CASE i \in 1 .. n /\ j = n + 1
      BY <1>6, <1>7, <1>11, <3>2
    <3>3. CASE i = n + 1 /\ j \in 1 .. n
      BY <1>6, <1>7, <1>11, <3>3
    <3>4. CASE i = n + 1 /\ j = n + 1
      <4>1. r + k # r + m
        BY <1>3, <1>4, <2>1, <3>4
      <4> QED BY <1>6, <1>7, <1>11, <3>4, <4>1
    <3> QED BY <1>11, <3>1, <3>2, <3>3, <3>4
  <2> QED BY <1>5, <2>1 DEF BytesDiffer, RB
<1> QED BY <1>10, <1>12, <1>13, <1>14 DEF IdsInv

\* A step of the clock, or none.
LEMMA IdsStay ==
    ASSUME IdsInv, clock' \in 0 .. MaxTime, UNCHANGED <<pool, poolOffset, minted>>
    PROVE  IdsInv'
<1>1. IdShape'
  BY DEF IdsInv, IdShape, PoolLength, MaxTime, TimeWord, timeBytes, ByteOf
<1>2. BytesSpent'
  BY DEF IdsInv, BytesSpent, Delivered, PoolLength
<1>3. BytesLeft'
  BY DEF IdsInv, BytesLeft, Delivered, PoolLength
<1>4. BytesDiffer'
  BY DEF IdsInv, BytesDiffer
<1> QED BY <1>1, <1>2, <1>3, <1>4 DEF IdsInv

\* For any size of the pool, any clock that may also be set back, and any number
\* of ids: ids sort by the time they were minted at, and no random byte is used
\* twice across the pool's refills (uuidv7).
THEOREM IdsAreSortable == IdsSpec => []IdsSortAndDiffer
<1>1. IdsInv /\ [IdsNext]_idVars => IdsInv'
  <2> SUFFICES ASSUME IdsInv, [IdsNext]_idVars PROVE IdsInv'
    OBVIOUS
  <2>1. CASE uuidv7
    BY <2>1, MintStep
  <2>2. CASE timePasses
    BY <2>2, IdsStay DEF timePasses
  <2>3. CASE UNCHANGED idVars
    <3>1. clock \in 0 .. MaxTime
      BY DEF IdsInv, IdShape
    <3> QED BY <2>3, <3>1, IdsStay DEF idVars
  <2> QED BY <2>1, <2>2, <2>3 DEF IdsNext
<1>2. IdsInv => IdsSortAndDiffer
  <2> SUFFICES ASSUME IdsInv PROVE IdsSortAndDiffer
    OBVIOUS
  <2>1. DOMAIN minted = 1 .. Len(minted)
    BY DEF IdsInv, IdShape
  <2>2. IdsInTimeOrder
    <3> SUFFICES ASSUME NEW i \in 1 .. Len(minted), NEW j \in 1 .. Len(minted),
                        minted[i].at < minted[j].at
                 PROVE  Before_(minted[i].time, minted[j].time)
      BY <2>1 DEF IdsInTimeOrder
    <3>1. /\ minted[i].at \in 0 .. MaxTime /\ minted[j].at \in 0 .. MaxTime
          /\ minted[i].time = timeBytes(minted[i].at) /\ minted[j].time = timeBytes(minted[j].at)
      BY DEF IdsInv, IdShape
    <3> QED BY <3>1, BytesInOrder
  <2>3. RandomBytesUsedOnce
    <3> DEFINE used == {<<i, k>> : i \in DOMAIN minted, k \in 1 .. RANDOM_BYTES_PER_ID}
    <3> SUFFICES ASSUME NEW a \in used, NEW b \in used
                 PROVE  /\ minted[a[1]].random[a[2]] # 0
                        /\ a # b => minted[a[1]].random[a[2]] # minted[b[1]].random[b[2]]
      BY DEF RandomBytesUsedOnce
    <3>1. PICK i \in 1 .. Len(minted), k \in 1 .. RANDOM_BYTES_PER_ID : a = <<i, k>>
      BY <2>1
    <3>2. PICK j \in 1 .. Len(minted), m \in 1 .. RANDOM_BYTES_PER_ID : b = <<j, m>>
      BY <2>1
    <3>3. minted[i].random[k] # 0
      BY DEF IdsInv, BytesSpent
    <3>4. a # b => minted[i].random[k] # minted[j].random[m]
      BY <3>1, <3>2 DEF IdsInv, BytesDiffer
    <3> QED BY <3>1, <3>2, <3>3, <3>4
  <2> QED BY <2>2, <2>3 DEF IdsSortAndDiffer
<1> QED BY <1>1, <1>2, IdsStart, PTL DEF IdsSpec

-----------------------------------------------------------------------------
(***************************************************************************)
(* ServiceVersion, for any checkouts, environments and number of commits.  *)
(* The reader takes each file at a time of its own.  What makes the commit *)
(* it reports one that was checked out: when it finds no loose reference,  *)
(* the packed one is what HEAD stands for, and later packings only put     *)
(* there what HEAD stood for meanwhile (ReaderKnows).  And git removes a   *)
(* loose reference only when the packed one says the same (GitPacks).      *)
(***************************************************************************)
Files == [detached : Nat, own : Nat, shared : Nat, packed : Nat]
Stands(f) == IF f.detached # 0 THEN f.detached
             ELSE IF f.own # 0 THEN f.own ELSE IF f.shared # 0 THEN f.shared ELSE f.packed
Given ==
    /\ env \in EnvVersions /\ revision \in Revisions /\ dotGit \in Checkouts /\ worktree \in BOOLEAN
    /\ searchFrom \in Seq(Seq(DOMAIN dotGit)) /\ commits \in Nat /\ git \in {"idle", "pruning"}
    /\ files \in [Repos -> Files]
    /\ \A r \in Repos : IF worktree THEN files[r].own = 0 ELSE files[r].shared = 0
ReaderKnows ==
    /\ repo \in Repos <=> reading \in {"head", "loose", "shared", "packed"}
    /\ reading = "env" => heads = {}
    /\ repo \in Repos => Stands(files[repo]) \in heads
    /\ reading \in {"loose", "shared", "packed"} => files[repo].detached = 0
    /\ reading = "shared" => worktree
    /\ reading = "packed" => files[repo].packed \in heads
GitPacks ==
    git = "pruning" =>
        /\ repo \in Repos \/ reading = "done"
        /\ repo \in Repos => /\ files[repo].detached = 0 /\ files[repo].packed # 0
                             /\ files[repo].packed = Stands(files[repo])
Results ==
    /\ reading # "done" => inferred = None
    /\ inferred.source = "env" => env # <<>> /\ inferred = Result("env", fitServiceVersion(env[1]))
    /\ inferred.source = "revision" =>
           revision # <<>> /\ inferred = Result("revision", fitRevision(revision[1]))
VersionInv ==
    /\ VersionTypeOK /\ Given /\ ReaderKnows /\ GitPacks /\ Results
    /\ CommitWasCheckedOut /\ CheckoutNotMissed

LEMMA VersionStart == VersionInit => VersionInv
<1> SUFFICES ASSUME VersionInit PROVE VersionInv
  OBVIOUS
<1>1. /\ env \in EnvVersions /\ revision \in Revisions /\ dotGit \in Checkouts /\ worktree \in BOOLEAN
      /\ searchFrom \in Seq(Seq(DOMAIN dotGit))
  BY VersionsAssumption DEF VersionInit
<1>2. files \in [Repos -> Files] /\ \A r \in Repos : IF worktree THEN files[r].own = 0 ELSE files[r].shared = 0
  BY <1>1 DEF VersionInit, Files
<1>3. /\ git = "idle" /\ commits = 0 /\ reading = "env" /\ repo = "none" /\ inferred = None /\ heads = {}
  BY DEF VersionInit
<1>4. VersionTypeOK
  BY <1>3 DEF VersionTypeOK, None
<1>5. Given /\ ReaderKnows /\ GitPacks
  BY <1>1, <1>2, <1>3 DEF Given, ReaderKnows, GitPacks, Repos
<1>6. Results /\ CommitWasCheckedOut /\ CheckoutNotMissed
  BY <1>3 DEF Results, CommitWasCheckedOut, CheckoutNotMissed, None
<1> QED BY <1>4, <1>5, <1>6 DEF VersionInv

\* Steps of the process that touch no file.
LEMMA EnvKeeps == ASSUME VersionInv, envRead PROVE VersionInv'
<1>1. /\ reading = "env" /\ UNCHANGED <<placeVars, files, git, commits, repo, heads>>
  BY DEF envRead, Reads
<1>2. Given'
  BY <1>1 DEF VersionInv, Given, placeVars
<1>3. inferred = None /\ repo \notin Repos /\ git # "pruning"
  BY <1>1 DEF VersionInv, Results, ReaderKnows, GitPacks
<1>4. CASE env # <<>> /\ inferred' = Result("env", fitServiceVersion(env[1])) /\ reading' = "done"
  <2>1. inferred'.source = "env"
    BY <1>4 DEF Result
  <2>2. VersionTypeOK'
    BY <1>1, <1>4, <2>1 DEF VersionInv, VersionTypeOK
  <2>3. ReaderKnows' /\ GitPacks'
    BY <1>1, <1>3, <1>4 DEF ReaderKnows, GitPacks
  <2>4. Results' /\ CommitWasCheckedOut' /\ CheckoutNotMissed'
    BY <1>1, <1>4, <2>1 DEF Results, CommitWasCheckedOut, CheckoutNotMissed, placeVars
  <2> QED BY <1>2, <2>2, <2>3, <2>4 DEF VersionInv
<1>5. CASE reading' = "walk" /\ UNCHANGED inferred
  <2>1. VersionTypeOK'
    BY <1>1, <1>5 DEF VersionInv, VersionTypeOK
  <2>2. ReaderKnows' /\ GitPacks'
    BY <1>1, <1>3, <1>5 DEF ReaderKnows, GitPacks
  <2>3. Results' /\ CommitWasCheckedOut'
    BY <1>3, <1>5 DEF Results, CommitWasCheckedOut, None
  <2>4. CheckoutNotMissed'
    BY <1>1, <1>5 DEF VersionInv, ReaderKnows, CheckoutNotMissed
  <2> QED BY <1>2, <2>1, <2>2, <2>3, <2>4 DEF VersionInv
<1> QED BY <1>4, <1>5 DEF envRead

\* A non-empty set of positions has a least one.
LEMMA LeastPosition ==
    ASSUME NEW T, T \subseteq Nat, T # {}
    PROVE  \E n \in T : \A k \in T : n <= k
<1>1. IsWellFoundedOn({pair \in Nat \X Nat : pair[1] < pair[2]}, Nat)
  BY NatLessThanWellFounded DEF OpToRel
<1>2. PICK n \in T : \A k \in T : ~(<<k, n>> \in {pair \in Nat \X Nat : pair[1] < pair[2]})
  BY <1>1, WFMin
<1>3. ASSUME NEW k \in T PROVE n <= k
  <2>1. <<k, n>> \in Nat \X Nat /\ <<k, n>>[1] = k /\ <<k, n>>[2] = n
    OBVIOUS
  <2>2. ~(k < n)
    BY <1>2, <2>1
  <2> QED BY <2>2
<1> QED BY <1>3

\* The repository that is read is the innermost on the way up.
LEMMA InnermostFound ==
    ASSUME VersionInv, readCheckoutHead, searchFrom # <<>>, resolveGitDir(searchFrom[1]) # {}
    PROVE  LET path == searchFrom[1]
               found == resolveGitDir(path)
               nearest == CHOOSE i \in found : \A j \in found : i <= j
           IN /\ nearest \in found /\ \A j \in found : nearest <= j
              /\ found \subseteq Nat /\ repo' = dotGit[path[nearest]] /\ repo' \in Repos
              /\ reading' = "head" /\ heads' = {Stands(files[repo'])} /\ UNCHANGED inferred
<1> DEFINE path == searchFrom[1]
           found == resolveGitDir(path)
           nearest == CHOOSE i \in found : \A j \in found : i <= j
<1>1. path \in Seq(DOMAIN dotGit)
  BY DEF VersionInv, Given
<1>2. found \subseteq Nat /\ \A i \in found : dotGit[path[i]] \in Repos
  BY <1>1 DEF resolveGitDir
<1>3. \E i \in found : \A j \in found : i <= j
  BY <1>2, LeastPosition
<1>4. nearest \in found /\ \A j \in found : nearest <= j
  BY <1>3
<1>5. repo' = dotGit[path[nearest]] /\ reading' = "head" /\ heads' = {HeadOf(repo')} /\ UNCHANGED inferred
  BY DEF readCheckoutHead
<1>6. HeadOf(repo') = Stands(files[repo'])
  BY DEF HeadOf, Stands
<1> HIDE DEF nearest
<1> QED BY <1>2, <1>4, <1>5, <1>6 DEF nearest

LEMMA WalkKeeps == ASSUME VersionInv, readCheckoutHead PROVE VersionInv'
<1>1. reading = "walk" /\ UNCHANGED <<env, revision, dotGit, worktree, files, git, commits, inferred>>
  BY DEF readCheckoutHead
<1>2. inferred = None /\ repo \notin Repos /\ git # "pruning"
  BY <1>1 DEF VersionInv, Results, ReaderKnows, GitPacks
<1>3. searchFrom' \in Seq(Seq(DOMAIN dotGit))
  <2> DEFINE Paths == Seq(DOMAIN dotGit)
  <2>1. searchFrom \in Seq(Paths)
    BY DEF VersionInv, Given
  <2>2. searchFrom' = searchFrom \/ (searchFrom # <<>> /\ searchFrom' = Tail(searchFrom))
    BY DEF readCheckoutHead
  <2> HIDE DEF Paths
  <2>3. searchFrom' \in Seq(Paths)
    BY <2>1, <2>2
  <2> QED BY <2>3 DEF Paths
<1>4. Given'
  BY <1>1, <1>3 DEF VersionInv, Given
<1>5. Results' /\ CommitWasCheckedOut'
  BY <1>1, <1>2 DEF Results, CommitWasCheckedOut, None
<1>6. CASE reading' \in {"walk", "revision"} /\ UNCHANGED <<repo, heads>>
  <2>1. VersionTypeOK'
    BY <1>1, <1>6 DEF VersionInv, VersionTypeOK
  <2>2. ReaderKnows' /\ GitPacks'
    BY <1>1, <1>2, <1>6 DEF ReaderKnows, GitPacks
  <2>3. CheckoutNotMissed'
    BY <1>1, <1>6 DEF VersionInv, CheckoutNotMissed
  <2> QED BY <1>4, <1>5, <2>1, <2>2, <2>3 DEF VersionInv
<1>7. CASE searchFrom # <<>> /\ resolveGitDir(searchFrom[1]) # {}
  <2>1. repo' \in Repos /\ reading' = "head" /\ heads' = {Stands(files[repo'])}
    BY <1>7, InnermostFound
  <2>2. VersionTypeOK'
    BY <1>1, <2>1 DEF VersionInv, VersionTypeOK
  <2>3. ReaderKnows' /\ GitPacks' /\ CheckoutNotMissed'
    BY <1>1, <1>2, <2>1 DEF ReaderKnows, GitPacks, CheckoutNotMissed
  <2> QED BY <1>4, <1>5, <2>2, <2>3 DEF VersionInv
<1> QED BY <1>1, <1>6, <1>7 DEF readCheckoutHead

\* A commit, or that there is none, is taken from a checkout.
LEMMA SettleKeeps ==
    ASSUME VersionInv, Reads, repo \in Repos, NEW c \in heads, c = 0 => git # "pruning", settle(c)
    PROVE  VersionInv'
<1>1. /\ UNCHANGED <<placeVars, files, git, commits, heads>> /\ repo' = "none" /\ repo' \notin Repos
  BY DEF Reads, settle, Repos
<1>2. Given'
  BY <1>1 DEF VersionInv, Given, placeVars
<1>3. inferred = None
  BY DEF VersionInv, ReaderKnows, Results
<1>4. CASE c = 0 /\ reading' = "walk" /\ UNCHANGED inferred
  <2>1. VersionTypeOK' /\ ReaderKnows' /\ GitPacks'
    BY <1>1, <1>4 DEF VersionInv, VersionTypeOK, ReaderKnows, GitPacks
  <2>2. Results' /\ CommitWasCheckedOut' /\ CheckoutNotMissed'
    BY <1>1, <1>3, <1>4 DEF Results, CommitWasCheckedOut, CheckoutNotMissed, None
  <2> QED BY <1>2, <2>1, <2>2 DEF VersionInv
<1>5. CASE inferred' = Result("git", fitServiceVersion(CommitVersion(c))) /\ reading' = "done"
  <2>1. inferred'.source = "git" /\ inferred'.head = c
    BY <1>5 DEF Result, fitServiceVersion, CommitVersion
  <2>2. VersionTypeOK' /\ ReaderKnows' /\ GitPacks'
    BY <1>1, <1>5, <2>1 DEF VersionInv, VersionTypeOK, ReaderKnows, GitPacks
  <2>3. Results' /\ CommitWasCheckedOut' /\ CheckoutNotMissed'
    BY <1>1, <1>5, <2>1 DEF Results, CommitWasCheckedOut, CheckoutNotMissed
  <2> QED BY <1>2, <2>2, <2>3 DEF VersionInv
<1> QED BY <1>4, <1>5 DEF settle

\* The next file of the checkout is looked at.
LEMMA GoOnKeeps ==
    ASSUME VersionInv, Reads, repo \in Repos, NEW step \in {"loose", "shared", "packed"}, goOn(step),
           files[repo].detached = 0, step = "shared" => worktree,
           step = "packed" => files[repo].packed \in heads
    PROVE  VersionInv'
<1>1. UNCHANGED <<placeVars, files, git, commits, heads, repo, inferred>> /\ reading' = step
  BY DEF Reads, goOn
<1>2. reading # "done"
  BY DEF VersionInv, ReaderKnows
<1>3. Given' /\ VersionTypeOK'
  BY <1>1 DEF VersionInv, Given, placeVars, VersionTypeOK
<1>4. ReaderKnows' /\ GitPacks'
  BY <1>1 DEF VersionInv, ReaderKnows, GitPacks, placeVars
<1>5. Results' /\ CommitWasCheckedOut' /\ CheckoutNotMissed'
  BY <1>1, <1>2 DEF VersionInv, Results, CommitWasCheckedOut, CheckoutNotMissed, None
<1> QED BY <1>3, <1>4, <1>5 DEF VersionInv

LEMMA CheckoutKeeps == ASSUME VersionInv, readHeadCommit PROVE VersionInv'
<1> DEFINE f == files[repo]
<1>1. Reads /\ repo \in Repos /\ Stands(f) \in heads /\ (IF worktree THEN f.own = 0 ELSE f.shared = 0)
  BY DEF VersionInv, ReaderKnows, Given, readHeadCommit, headRead, looseRead, sharedRead, packedRead
<1>2. CASE headRead
  <2>1. CASE f.detached # 0 /\ settle(f.detached)
    <3>1. f.detached \in heads
      BY <1>1, <2>1 DEF Stands
    <3> QED BY <1>1, <2>1, <3>1, SettleKeeps
  <2>2. CASE f.detached = 0 /\ goOn("loose")
    BY <1>1, <2>2, GoOnKeeps
  <2> QED BY <1>2, <2>1, <2>2 DEF headRead
<1>3. CASE looseRead
  <2>0. f.detached = 0
    BY <1>3 DEF looseRead, VersionInv, ReaderKnows
  <2>1. CASE f.own # 0 /\ settle(f.own)
    <3>1. f.own \in heads
      BY <1>1, <2>0, <2>1 DEF Stands
    <3> QED BY <1>1, <2>1, <3>1, SettleKeeps
  <2>2. CASE f.own = 0 /\ worktree /\ goOn("shared")
    BY <1>1, <2>0, <2>2, GoOnKeeps
  <2>3. CASE f.own = 0 /\ ~worktree /\ goOn("packed")
    <3>1. f.packed \in heads
      BY <1>1, <2>0, <2>3 DEF Stands
    <3> QED BY <1>1, <2>0, <2>3, <3>1, GoOnKeeps
  <2> QED BY <1>3, <2>1, <2>2, <2>3 DEF looseRead
<1>4. CASE sharedRead
  <2>0. f.detached = 0 /\ f.own = 0
    BY <1>1, <1>4 DEF sharedRead, VersionInv, ReaderKnows
  <2>1. CASE f.shared # 0 /\ settle(f.shared)
    <3>1. f.shared \in heads
      BY <1>1, <2>0, <2>1 DEF Stands
    <3> QED BY <1>1, <2>1, <3>1, SettleKeeps
  <2>2. CASE f.shared = 0 /\ goOn("packed")
    <3>1. f.packed \in heads
      BY <1>1, <2>0, <2>2 DEF Stands
    <3> QED BY <1>1, <2>0, <2>2, <3>1, GoOnKeeps
  <2> QED BY <1>4, <2>1, <2>2 DEF sharedRead
<1>5. CASE packedRead
  <2>1. f.packed \in heads /\ settle(f.packed)
    BY <1>5 DEF packedRead, VersionInv, ReaderKnows
  <2>2. f.packed = 0 => git # "pruning"
    BY <1>1 DEF VersionInv, GitPacks
  <2> QED BY <1>1, <2>1, <2>2, SettleKeeps
<1> QED BY <1>2, <1>3, <1>4, <1>5 DEF readHeadCommit

LEMMA RevisionKeeps == ASSUME VersionInv, revisionRead PROVE VersionInv'
<1>1. /\ reading = "revision" /\ reading' = "done"
      /\ UNCHANGED <<placeVars, files, git, commits, repo, heads>>
  BY DEF revisionRead, Reads
<1>2. repo \notin Repos /\ git # "pruning"
  BY <1>1 DEF VersionInv, ReaderKnows, GitPacks
<1>3. Given'
  BY <1>1 DEF VersionInv, Given, placeVars
<1>4. ReaderKnows' /\ GitPacks' /\ CheckoutNotMissed'
  BY <1>1, <1>2 DEF ReaderKnows, GitPacks, CheckoutNotMissed
<1>5. CASE revision = <<>> /\ inferred' = None
  <2>1. VersionTypeOK' /\ Results' /\ CommitWasCheckedOut'
    BY <1>1, <1>5 DEF VersionInv, VersionTypeOK, Results, CommitWasCheckedOut, None
  <2> QED BY <1>3, <1>4, <2>1 DEF VersionInv
<1>6. CASE revision # <<>> /\ inferred' = Result("revision", fitRevision(revision[1]))
  <2>1. inferred'.source = "revision"
    BY <1>6 DEF Result
  <2>2. VersionTypeOK' /\ Results' /\ CommitWasCheckedOut'
    BY <1>1, <1>6, <2>1 DEF VersionInv, VersionTypeOK, Results, CommitWasCheckedOut, placeVars
  <2> QED BY <1>3, <1>4, <2>2 DEF VersionInv
<1> QED BY <1>5, <1>6 DEF revisionRead

\* git's steps keep what the reader has seen: HEAD stands for what it stood for,
\* or for a commit that is new and noted.
LEMMA GitKeeps ==
    ASSUME VersionInv, Meanwhile, repo \in Repos, NEW f \in Files, files' = [files EXCEPT ![repo] = f],
           IF worktree THEN f.own = 0 ELSE f.shared = 0, f.detached = 0, files[repo].detached = 0,
           Stands(f) \in heads', heads \subseteq heads', f.packed \in heads' \/ f.packed = files[repo].packed,
           commits' \in Nat, git' \in {"idle", "pruning"},
           git' = "pruning" => f.packed # 0 /\ f.packed = Stands(f)
    PROVE  VersionInv'
<1>1. UNCHANGED <<placeVars, reading, repo, inferred>> /\ reading # "done"
  BY DEF Meanwhile
<1>2. files \in [Repos -> Files] /\ files'[repo] = f /\ \A r \in Repos : r # repo => files'[r] = files[r]
  BY DEF VersionInv, Given
<1>3. files' \in [Repos -> Files]
  BY <1>2
<1>4. Given'
  BY <1>1, <1>2, <1>3 DEF VersionInv, Given, placeVars
<1>5. VersionTypeOK' /\ Results' /\ CommitWasCheckedOut'
  BY <1>1 DEF VersionInv, VersionTypeOK, Results, CommitWasCheckedOut, None, placeVars
<1>6. ReaderKnows'
  BY <1>1, <1>2 DEF VersionInv, ReaderKnows, placeVars
<1>7. GitPacks' /\ CheckoutNotMissed'
  BY <1>1, <1>2 DEF VersionInv, ReaderKnows, GitPacks, CheckoutNotMissed
<1> QED BY <1>4, <1>5, <1>6, <1>7 DEF VersionInv

LEMMA CommitKeeps == ASSUME VersionInv, commit_ PROVE VersionInv'
<1> DEFINE c == 10 + commits
           f == IF worktree THEN [files[repo] EXCEPT !.shared = c] ELSE [files[repo] EXCEPT !.own = c]
<1>1. /\ Meanwhile /\ git = "idle" /\ repo \in Repos /\ files[repo].detached = 0
      /\ commits' = commits + 1 /\ git' = git /\ heads' = heads \cup {c}
  BY DEF commit_
<1>2. /\ files[repo] \in Files /\ commits \in Nat /\ files \in [Repos -> Files]
      /\ IF worktree THEN files[repo].own = 0 ELSE files[repo].shared = 0
  BY <1>1 DEF VersionInv, Given
<1>3. files' = [files EXCEPT ![repo] = f]
  BY <1>1, <1>2 DEF commit_
<1>4. /\ f \in Files /\ f.detached = 0 /\ f.packed = files[repo].packed
      /\ IF worktree THEN f.own = 0 ELSE f.shared = 0
  BY <1>1, <1>2 DEF Files
<1>5. Stands(f) = c
  BY <1>1, <1>2 DEF Files, Stands
<1> HIDE DEF f
<1>6. Stands(f) \in heads' /\ heads \subseteq heads' /\ commits' \in Nat /\ git' = "idle"
  BY <1>1, <1>2, <1>5
<1> QED BY <1>1, <1>2, <1>3, <1>4, <1>6, GitKeeps

LEMMA PackKeeps == ASSUME VersionInv, packRefs PROVE VersionInv'
<1> DEFINE f == [files[repo] EXCEPT !.packed = Stands(files[repo])]
<1>1. /\ Meanwhile /\ repo \in Repos /\ files[repo].detached = 0 /\ git' = "pruning"
      /\ UNCHANGED <<commits, heads>> /\ Stands(files[repo]) # 0
      /\ files' = [files EXCEPT ![repo].packed = Stands(files[repo])]
  BY DEF packRefs, HeadOf, Stands
<1>2. /\ files[repo] \in Files /\ commits \in Nat /\ files \in [Repos -> Files]
      /\ IF worktree THEN files[repo].own = 0 ELSE files[repo].shared = 0
      /\ Stands(files[repo]) \in heads
  BY <1>1 DEF VersionInv, Given, ReaderKnows
<1>3. files' = [files EXCEPT ![repo] = f]
  BY <1>1, <1>2
<1>4. Stands(files[repo]) \in Nat
  BY <1>2 DEF Files, Stands
<1>5. /\ f \in Files /\ f.detached = 0 /\ f.packed = Stands(files[repo])
      /\ f.own = files[repo].own /\ f.shared = files[repo].shared
  BY <1>1, <1>2, <1>4 DEF Files
<1>6. Stands(f) = Stands(files[repo])
  BY <1>1, <1>5 DEF Stands
<1> HIDE DEF f
<1> QED BY <1>1, <1>2, <1>3, <1>5, <1>6, GitKeeps

LEMMA PruneKeeps == ASSUME VersionInv, pruneLoose PROVE VersionInv'
<1> DEFINE f == [files[repo] EXCEPT !.own = 0, !.shared = 0]
<1>1. /\ Meanwhile /\ repo \in Repos /\ git = "pruning" /\ git' = "idle" /\ UNCHANGED <<commits, heads>>
      /\ files' = [files EXCEPT ![repo].own = 0, ![repo].shared = 0]
  BY DEF pruneLoose
<1>2. /\ files[repo] \in Files /\ commits \in Nat /\ files \in [Repos -> Files]
      /\ Stands(files[repo]) \in heads /\ files[repo].detached = 0
      /\ files[repo].packed = Stands(files[repo])
  BY <1>1 DEF VersionInv, Given, ReaderKnows, GitPacks
<1>3. files' = [files EXCEPT ![repo] = f]
  BY <1>1, <1>2
<1>4. /\ f \in Files /\ f.detached = 0 /\ f.packed = files[repo].packed /\ f.own = 0 /\ f.shared = 0
  BY <1>2 DEF Files
<1>5. Stands(f) = files[repo].packed
  BY <1>4 DEF Stands
<1> HIDE DEF f
<1> QED BY <1>1, <1>2, <1>3, <1>4, <1>5, GitKeeps

LEMMA VersionStep == VersionInv /\ [VersionNext]_versionVars => VersionInv'
<1> SUFFICES ASSUME VersionInv, [VersionNext]_versionVars PROVE VersionInv'
  OBVIOUS
<1>1. CASE UNCHANGED versionVars
  BY <1>1 DEF versionVars, VersionInv, VersionTypeOK, Given, ReaderKnows, GitPacks, Results,
     CommitWasCheckedOut, CheckoutNotMissed
<1> QED
  BY <1>1, EnvKeeps, WalkKeeps, CheckoutKeeps, RevisionKeeps, CommitKeeps, PackKeeps, PruneKeeps
  DEF VersionNext

\* What is left of a version that is cut tells it from the others.
LEMMA ToldApart == VersionInv => ReleasesToldApart
<1> SUFFICES ASSUME VersionInv PROVE ReleasesToldApart
  OBVIOUS
<1>1. ASSUME inferred.source = "env", NEW other \in EnvVersions, other # <<>>, other[1] # env[1]
      PROVE  Result("env", fitServiceVersion(other[1])) # inferred
  <2> DEFINE v == env[1]
             w == other[1]
  <2>1. env # <<>> /\ inferred = Result("env", fitServiceVersion(v)) /\ env \in EnvVersions
    BY <1>1 DEF VersionInv, Results, Given
  <2>2. v \in Named(EnvVersions) /\ w \in Named(EnvVersions)
    BY <1>1, <2>1 DEF Named
  <2> HIDE DEF v, w
  <2>3. SUFFICES ASSUME v.head = w.head, fitServiceVersion(v).tail = fitServiceVersion(w).tail PROVE v = w
    BY <1>1, <2>1 DEF Result, fitServiceVersion, v, w
  <2>4. CASE (v.long /\ v.hex) \/ (w.long /\ w.hex)
    BY <2>2, <2>3, <2>4, VersionsAssumption
  <2>5. CASE ~(v.long /\ v.hex) /\ ~(w.long /\ w.hex)
    <3>1. v.tail = w.tail
      BY <2>3, <2>5 DEF fitServiceVersion
    <3> QED BY <2>2, <2>3, <3>1, VersionsAssumption
  <2> QED BY <2>4, <2>5
<1>2. ASSUME inferred.source = "revision", NEW other \in Revisions, other # <<>>, other[1] # revision[1]
      PROVE  Result("revision", fitRevision(other[1])) # inferred
  <2> DEFINE v == revision[1]
             w == other[1]
  <2>1. revision # <<>> /\ inferred = Result("revision", fitRevision(v)) /\ revision \in Revisions
    BY <1>2 DEF VersionInv, Results, Given
  <2>2. v \in Named(Revisions) /\ w \in Named(Revisions)
    BY <1>2, <2>1 DEF Named
  <2> HIDE DEF v, w
  <2>3. SUFFICES ASSUME v.tail = w.tail, fitRevision(v).head = fitRevision(w).head PROVE v = w
    BY <1>2, <2>1 DEF Result, fitRevision, v, w
  <2>4. CASE v.long \/ w.long
    BY <2>2, <2>3, <2>4, VersionsAssumption
  <2>5. CASE ~v.long /\ ~w.long
    <3>1. v.head = w.head
      BY <2>3, <2>5 DEF fitRevision
    <3> QED BY <2>2, <2>3, <3>1, VersionsAssumption
  <2> QED BY <2>4, <2>5
<1> QED BY <1>1, <1>2 DEF ReleasesToldApart

\* A checkout is only found by the walk, which stops at the innermost.
LEMMA InnermostTaken == VersionInv /\ [VersionNext]_versionVars => InnermostIsRead
<1> SUFFICES ASSUME VersionInv, [VersionNext]_versionVars, repo' \in Repos, repo = "none"
             PROVE  LET path == searchFrom[1]
                        inside == {i \in DOMAIN path : dotGit[path[i]] \in Repos}
                    IN \A i \in inside : dotGit[path[i]] = repo' \/ \E j \in inside : j < i
  BY DEF InnermostIsRead
<1>0. "none" \notin Repos
  BY DEF Repos
<1>1. readCheckoutHead
  BY <1>0 DEF VersionNext, envRead, readHeadCommit, headRead, looseRead, sharedRead, packedRead, settle,
     goOn, revisionRead, Reads, commit_, packRefs, pruneLoose, Meanwhile, versionVars, VersionInv, ReaderKnows
<1> DEFINE path == searchFrom[1]
           inside == resolveGitDir(path)
           nearest == CHOOSE i \in inside : \A j \in inside : i <= j
<1>2. searchFrom # <<>> /\ inside # {}
  BY <1>0, <1>1 DEF readCheckoutHead
<1>3. /\ nearest \in inside /\ \A j \in inside : nearest <= j
      /\ inside \subseteq Nat /\ repo' = dotGit[path[nearest]]
  BY <1>1, <1>2, InnermostFound
<1> HIDE DEF nearest
<1>4. ASSUME NEW i \in inside PROVE dotGit[path[i]] = repo' \/ \E j \in inside : j < i
  <2>1. CASE i = nearest
    BY <1>3, <2>1
  <2>2. CASE i # nearest
    <3>1. nearest < i
      BY <1>3, <2>2
    <3> QED BY <1>3, <3>1
  <2> QED BY <2>1, <2>2
<1> QED BY <1>4 DEF resolveGitDir

\* However git commits and packs its references while the checkout is read file
\* by file: the release reported is a commit that was checked out meanwhile, of
\* the innermost repository, and differs from every other release's; and no
\* checkout with a commit is passed over (inferServiceVersion, readHeadCommit).
THEOREM ReleaseInferred == VersionSpec => ReleaseIsTheDeployed
<1>1. VersionInit => VersionInv
  BY VersionStart
<1>2. VersionInv /\ [VersionNext]_versionVars => VersionInv'
  BY VersionStep
<1>3. VersionInv => ReleasesToldApart
  BY ToldApart
<1>4. VersionInv /\ VersionInv' /\ ReleasesToldApart' /\ [VersionNext]_versionVars
      => [ReleaseKept]_versionVars
  <2> SUFFICES ASSUME VersionInv, VersionInv', ReleasesToldApart', [VersionNext]_versionVars
               PROVE  ReleaseKept
    OBVIOUS
  <2>1. VersionTypeOK' /\ CommitWasCheckedOut' /\ CheckoutNotMissed'
    BY DEF VersionInv
  <2>2. InnermostIsRead
    BY InnermostTaken
  <2> QED BY <2>1, <2>2 DEF ReleaseKept
<1> QED BY <1>1, <1>2, <1>3, <1>4, PTL DEF VersionSpec, ReleaseIsTheDeployed

-----------------------------------------------------------------------------
(***************************************************************************)
(* SourceContext, for any files, maps, stacks and limits.  A collection    *)
(* goes through the places of a stack's text; what holds of it after each  *)
(* is CollectionOf, by induction over the places.                          *)
(***************************************************************************)
\* A set of numbers with 0 and with the next of each number is all of them.
LEMMA AllNaturals ==
    ASSUME NEW S, S \subseteq Nat, 0 \in S, \A n \in S : n + 1 \in S
    PROVE  S = Nat
<1> SUFFICES ASSUME Nat \ S # {} PROVE FALSE
  OBVIOUS
<1>1. PICK x \in Nat \ S : \A y \in Nat \ S : x <= y
  BY LeastPosition
<1>2. x # 0 /\ x - 1 \in Nat /\ x - 1 \in S
  BY <1>1
<1> QED BY <1>2

SourceEntries == [file : SourcePaths, found : Nat]
CodeFrames ==
    [file : SourcePaths, line : Nat, embedded : BOOLEAN, firstLine : Nat, lines : Int]
Collections ==
    [sources : Seq(SourceEntries), maps : Seq(SourceEntries), reads : [SourcePaths -> Nat],
     evictions : Nat, out : Seq(CodeFrames)]

\* What ShippedIsOwnSource and HighlightInFrame say of one code frame.
Names(l, c) ==
    \/ l.file = c.file /\ l.line = c.line
    \/ /\ FileFacts[l.file].ours /\ MapFacts[l.file].mapped
       /\ MapFacts[l.file].file = c.file /\ MapFacts[l.file].line = c.line
FrameOf(written, c) ==
    /\ ~isIgnored(c.file) /\ (c.embedded \/ (FileFacts[c.file].ours /\ FileFacts[c.file].leads))
    /\ \E l \in written : l.parses /\ Names(l, c)
    /\ c.firstLine >= 1 /\ c.line \in c.firstLine..(c.firstLine + c.lines - 1)
    /\ (~c.embedded => c.firstLine + c.lines - 1 <= FileFacts[c.file].length)
Held(cache, f) == IF cached(cache, f) = {} THEN 0 ELSE 1

\* The caches are within their limits, an entry is what the file holds, a file
\* was asked for no more often than the cache let go and it is not in it.
CachesOf(st) ==
    /\ st \in Collections
    /\ Len(st.sources) <= MAX_CACHED_FILES /\ Len(st.maps) <= MAX_CACHED_MAPS
    /\ \A i \in DOMAIN st.sources : st.sources[i].found = contents(st.sources[i].file)
    /\ \A f \in SourcePaths : st.reads[f] <= st.evictions + Held(st.sources, f)
CollectionOf(written, st) ==
    CachesOf(st) /\ \A i \in DOMAIN st.out : FrameOf(written, st.out[i])

\* Remembering adds the entry last and lets at most the oldest go.
LEMMA Remembered ==
    ASSUME NEW cache \in Seq(SourceEntries), NEW limit \in Nat \ {0}, Len(cache) <= limit,
           NEW entry \in SourceEntries, NEW new, new = remember(cache, limit, entry)
    PROVE  /\ new \in Seq(SourceEntries) /\ Len(new) <= limit
           /\ \A i \in DOMAIN new : new[i] = entry \/ \E j \in DOMAIN cache : new[i] = cache[j]
           /\ cached(new, entry.file) # {}
<1>1. CASE Len(cache) >= limit
  <2>1. new = Append(Tail(cache), entry) /\ Tail(cache) \in Seq(SourceEntries) /\ Len(Tail(cache)) = Len(cache) - 1
    BY <1>1 DEF remember
  <2>2. /\ new \in Seq(SourceEntries) /\ Len(new) = Len(cache) /\ new[Len(new)] = entry
        /\ \A i \in 1..(Len(cache) - 1) : new[i] = cache[i + 1]
    BY <2>1
  <2>3. DOMAIN new = 1..Len(cache) /\ DOMAIN cache = 1..Len(cache) /\ Len(cache) \in Nat
    BY <2>2
  <2>4. \A i \in DOMAIN new : new[i] = entry \/ \E j \in DOMAIN cache : new[i] = cache[j]
    <3> SUFFICES ASSUME NEW i \in DOMAIN new, i # Len(cache) PROVE \E j \in DOMAIN cache : new[i] = cache[j]
      BY <2>2
    <3>1. i + 1 \in DOMAIN cache /\ new[i] = cache[i + 1]
      BY <2>2, <2>3
    <3> QED BY <3>1
  <2>5. Len(new) \in cached(new, entry.file)
    BY <1>1, <2>2, <2>3 DEF cached
  <2> QED BY <1>1, <2>2, <2>4, <2>5
<1>2. CASE Len(cache) < limit
  <2>1. new = Append(cache, entry)
    BY <1>2 DEF remember
  <2>2. /\ new \in Seq(SourceEntries) /\ Len(new) = Len(cache) + 1 /\ new[Len(new)] = entry
        /\ \A i \in 1..Len(cache) : new[i] = cache[i]
    BY <2>1
  <2>3. DOMAIN new = 1..(Len(cache) + 1) /\ DOMAIN cache = 1..Len(cache) /\ Len(cache) \in Nat
    BY <2>2
  <2>4. \A i \in DOMAIN new : new[i] = entry \/ \E j \in DOMAIN cache : new[i] = cache[j]
    BY <2>2, <2>3
  <2>5. Len(new) \in cached(new, entry.file)
    BY <2>2, <2>3 DEF cached
  <2> QED BY <1>2, <2>2, <2>4, <2>5
<1> QED BY <1>1, <1>2

LEMMA KeptWithRoom ==
    ASSUME NEW cache \in Seq(SourceEntries), NEW limit \in Nat, Len(cache) < limit,
           NEW entry \in SourceEntries, NEW f, cached(cache, f) # {}
    PROVE  cached(remember(cache, limit, entry), f) # {}
<1>1. remember(cache, limit, entry) = Append(cache, entry)
  BY DEF remember
<1>2. PICK i \in DOMAIN cache : cache[i].file = f
  BY DEF cached
<1>3. i \in DOMAIN Append(cache, entry) /\ Append(cache, entry)[i] = cache[i]
  OBVIOUS
<1>4. i \in cached(Append(cache, entry), f)
  BY <1>2, <1>3 DEF cached
<1> QED BY <1>1, <1>4

LEMMA ContentsTyped == ASSUME NEW f \in SourcePaths PROVE contents(f) \in Nat
  BY SourceAssumption DEF contents

\* A file is read once, until the cache lets it go.
LEMMA SourceRead ==
    ASSUME NEW st, CachesOf(st), NEW file \in SourcePaths
    PROVE  /\ CachesOf(readSource(st, file).st) /\ readSource(st, file).length = contents(file)
           /\ readSource(st, file).st.out = st.out
<1> DEFINE entry == [file |-> file, found |-> contents(file)]
           new == remember(st.sources, MAX_CACHED_FILES, entry)
           counted == [st.reads EXCEPT ![file] = @ + 1]
           gone == IF Len(st.sources) >= MAX_CACHED_FILES THEN 1 ELSE 0
           st2 == [st EXCEPT !.sources = new, !.reads = counted, !.evictions = @ + gone]
<1>0. /\ st \in Collections /\ st.sources \in Seq(SourceEntries) /\ st.reads \in [SourcePaths -> Nat]
      /\ st.evictions \in Nat /\ MAX_CACHED_FILES \in Nat \ {0}
  BY SourceAssumption DEF CachesOf, Collections
<1>1. CASE cached(st.sources, file) # {}
  <2> DEFINE at == CHOOSE i \in cached(st.sources, file) : TRUE
  <2>1. at \in cached(st.sources, file)
    BY <1>1
  <2>2. readSource(st, file) = [st |-> st, length |-> st.sources[at].found]
    BY <1>1 DEF readSource
  <2>3. st.sources[at].found = contents(file)
    BY <2>1 DEF CachesOf, cached
  <2> QED BY <2>2, <2>3
<1>2. CASE cached(st.sources, file) = {}
  <2>1. readSource(st, file) = [st |-> st2, length |-> contents(file)]
    BY <1>2 DEF readSource
  <2>2. entry \in SourceEntries /\ entry.file = file /\ entry.found = contents(file)
    BY ContentsTyped DEF SourceEntries
  <2> HIDE DEF entry
  <2>3. /\ new \in Seq(SourceEntries) /\ Len(new) <= MAX_CACHED_FILES
        /\ \A i \in DOMAIN new : new[i] = entry \/ \E j \in DOMAIN st.sources : new[i] = st.sources[j]
        /\ cached(new, file) # {}
    <3>1. Len(st.sources) <= MAX_CACHED_FILES /\ new = remember(st.sources, MAX_CACHED_FILES, entry)
      BY DEF CachesOf
    <3> HIDE DEF new
    <3> QED BY <1>0, <2>2, <3>1, Remembered
  <2>3a. ASSUME NEW f, Len(st.sources) < MAX_CACHED_FILES, cached(st.sources, f) # {} PROVE cached(new, f) # {}
    BY <1>0, <2>2, <2>3a, KeptWithRoom
  <2>4. gone \in Nat /\ (gone = 0 => Len(st.sources) < MAX_CACHED_FILES) /\ gone \in 0..1
    BY <1>0
  <2> HIDE DEF new, gone
  <2>5. /\ st2 \in Collections /\ st2.sources = new /\ st2.maps = st.maps /\ st2.out = st.out
        /\ st2.reads = counted /\ st2.evictions = st.evictions + gone
    <3>1. counted \in [SourcePaths -> Nat]
      BY <1>0
    <3> HIDE DEF counted
    <3>2. gone \in Nat
      BY <2>4
    <3> DEFINE more == st.evictions + gone
    <3>3. more \in Nat
      BY <1>0, <3>2
    <3> HIDE DEF more
    <3>4. [st EXCEPT !.sources = new, !.reads = counted, !.evictions = more] \in Collections
      BY <1>0, <2>3, <3>1, <3>3 DEF Collections
    <3>5. st2 \in Collections
      BY Zenon, <3>4 DEF more
    <3>6. st2.sources = new /\ st2.maps = st.maps /\ st2.out = st.out /\ st2.reads = counted
      BY <1>0 DEF Collections
    <3>7. st2.evictions = st.evictions + gone
      BY <1>0 DEF Collections
    <3> QED BY <3>5, <3>6, <3>7
  <2> HIDE DEF st2
  <2>6. \A i \in DOMAIN new : new[i].found = contents(new[i].file)
    BY <2>2, <2>3 DEF CachesOf
  <2>7. ASSUME NEW f \in SourcePaths PROVE st2.reads[f] <= st2.evictions + Held(st2.sources, f)
    <3>1. st.reads[f] <= st.evictions + Held(st.sources, f) /\ Held(st.sources, f) \in 0..1 /\ Held(new, f) \in 0..1
      BY DEF CachesOf, Held
    <3>2. st.reads[f] \in Nat
      BY <1>0
    <3>3. CASE f = file
      <4>1. Held(st.sources, f) = 0 /\ Held(new, f) = 1 /\ st2.reads[f] = st.reads[f] + 1
        BY <1>0, <1>2, <2>3, <2>5, <3>3 DEF Held
      <4> QED BY <1>0, <2>4, <2>5, <3>1, <3>2, <4>1
    <3>4. CASE f # file
      <4>1. st2.reads[f] = st.reads[f]
        BY <1>0, <2>5, <3>4
      <4>2. gone = 0 => Held(st.sources, f) <= Held(new, f)
        BY <2>3a, <2>4 DEF Held
      <4> QED BY <1>0, <2>4, <2>5, <3>1, <3>2, <4>1, <4>2
    <3> QED BY <3>3, <3>4
  <2>8. CachesOf(st2)
    BY <2>3, <2>5, <2>6, <2>7 DEF CachesOf
  <2> QED BY <2>1, <2>5, <2>8
<1> QED BY <1>1, <1>2

LEMMA MapLooked ==
    ASSUME NEW st, CachesOf(st), NEW file \in SourcePaths
    PROVE  CachesOf(getMap(st, file)) /\ getMap(st, file).out = st.out
<1> DEFINE entry == [file |-> file, found |-> IF MapFacts[file].mapped THEN 1 ELSE 0]
           new == remember(st.maps, MAX_CACHED_MAPS, entry)
           st2 == [st EXCEPT !.maps = new]
<1>1. CASE cached(st.maps, file) # {}
  BY <1>1 DEF getMap
<1>2. CASE cached(st.maps, file) = {}
  <2>1. getMap(st, file) = st2
    BY <1>2 DEF getMap
  <2>2. entry \in SourceEntries
    BY DEF SourceEntries
  <2>3. st \in Collections /\ st.maps \in Seq(SourceEntries) /\ MAX_CACHED_MAPS \in Nat \ {0}
    BY SourceAssumption DEF CachesOf, Collections
  <2> HIDE DEF entry
  <2>4. new \in Seq(SourceEntries) /\ Len(new) <= MAX_CACHED_MAPS
    BY <2>2, <2>3, Remembered DEF CachesOf
  <2> HIDE DEF new
  <2>5. /\ st2 \in Collections /\ st2.maps = new /\ st2.sources = st.sources /\ st2.out = st.out
        /\ st2.reads = st.reads /\ st2.evictions = st.evictions
    BY <2>3, <2>4 DEF Collections
  <2> HIDE DEF st2
  <2>6. CachesOf(st2)
    BY <2>4, <2>5 DEF CachesOf
  <2> QED BY <2>1, <2>5, <2>6
<1> QED BY <1>1, <1>2

\* What a collection does with one frame, step by step.
Looked(st, l, options) == IF options.sourceMaps THEN getMap(st, l.file) ELSE st
Place(l, options) ==
    IF options.sourceMaps THEN original(l.file, l.line) ELSE [file |-> l.file, line |-> l.line, content |-> 0]
Remapped(l, options) == options.sourceMaps /\ MapFacts[l.file].mapped
Refused(l, options) ==
    /\ Remapped(l, options)
    /\ \/ isIgnored(Place(l, options).file)
       \/ Place(l, options).content = 0 /\ ~FileFacts[Place(l, options).file].ours
ReadOf(st, l, options) ==
    IF Place(l, options).content > 0 THEN [st |-> Looked(st, l, options), length |-> Place(l, options).content]
    ELSE readSource(Looked(st, l, options), Place(l, options).file)
FrameAt(place, length, around) ==
    [file |-> place.file, line |-> place.line, embedded |-> place.content > 0,
     firstLine |-> frameWindow(place.line, length, around).firstLine,
     lines |-> frameWindow(place.line, length, around).lastLine
                 - frameWindow(place.line, length, around).firstLine + 1]

LEMMA CollectedInSteps ==
    ASSUME NEW st, NEW l, NEW options
    PROVE  collectFrame(st, l, options)
             = IF Refused(l, options) THEN Looked(st, l, options)
               ELSE IF \/ ReadOf(st, l, options).length = 0
                       \/ Place(l, options).line > ReadOf(st, l, options).length
                    THEN ReadOf(st, l, options).st
                    ELSE [ReadOf(st, l, options).st EXCEPT !.out =
                            Append(@, FrameAt(Place(l, options), ReadOf(st, l, options).length, options.linesOfContext))]
  BY Zenon DEF collectFrame, Looked, Place, Remapped, Refused, ReadOf, FrameAt

LEMMA PlaceTyped ==
    ASSUME NEW l \in StackLines, NEW options
    PROVE  /\ Place(l, options).file \in SourcePaths /\ Place(l, options).line \in Nat \ {0}
           /\ Place(l, options).content \in Nat
           /\ ~Remapped(l, options) => /\ Place(l, options).file = l.file /\ Place(l, options).line = l.line
                                       /\ Place(l, options).content = 0
           /\ Remapped(l, options) => /\ Place(l, options).file = MapFacts[l.file].file
                                      /\ Place(l, options).line = MapFacts[l.file].line
  BY SourceAssumption DEF Place, original, Remapped, StackLines

\* A frame that is written shows its line, in a window the source has.
LEMMA WindowHolds ==
    ASSUME NEW place, NEW length \in Nat, NEW around \in Nat, place.line \in Nat \ {0}, place.line <= length,
           NEW c, c = FrameAt(place, length, around)
    PROVE  /\ c.firstLine \in Nat /\ c.firstLine >= 1 /\ c.lines \in Int
           /\ c.line \in c.firstLine..(c.firstLine + c.lines - 1)
           /\ c.firstLine + c.lines - 1 <= length
<1> DEFINE w == frameWindow(place.line, length, around)
<1>1. /\ w.firstLine \in Nat /\ 1 <= w.firstLine /\ w.firstLine <= place.line
      /\ w.lastLine \in Nat /\ place.line <= w.lastLine /\ w.lastLine <= length
  BY DEF frameWindow
<1>2. c.firstLine = w.firstLine /\ c.lines = w.lastLine - w.firstLine + 1 /\ c.line = place.line
  BY DEF FrameAt
<1> HIDE DEF w
<1> QED BY <1>1, <1>2

LEMMA FrameCollected ==
    ASSUME NEW st, NEW written, CollectionOf(written, st), NEW options \in FrameOptions,
           NEW l \in StackLines, l \in written, l.parses, ~isIgnored(l.file), FileFacts[l.file].ours
    PROVE  CollectionOf(written, collectFrame(st, l, options))
<1> DEFINE looked == Looked(st, l, options)
           place == Place(l, options)
           read == ReadOf(st, l, options)
           c == FrameAt(place, read.length, options.linesOfContext)
<1>0. /\ place.file \in SourcePaths /\ place.line \in Nat \ {0} /\ place.content \in Nat
      /\ ~Remapped(l, options) => place.file = l.file /\ place.line = l.line /\ place.content = 0
      /\ Remapped(l, options) => place.file = MapFacts[l.file].file /\ place.line = MapFacts[l.file].line
  BY Zenon, PlaceTyped
<1>1. CachesOf(looked) /\ looked.out = st.out
  BY MapLooked DEF CollectionOf, Looked, StackLines
<1>2. /\ CachesOf(read.st) /\ read.st.out = st.out
      /\ read.length = IF place.content > 0 THEN place.content ELSE contents(place.file)
  <2>1. CASE place.content > 0
    BY <1>1, <2>1 DEF ReadOf
  <2>2. CASE ~(place.content > 0)
    <3>1. read = readSource(looked, place.file)
      BY <2>2 DEF ReadOf
    <3> HIDE DEF looked, place, read
    <3>2. /\ CachesOf(readSource(looked, place.file).st)
          /\ readSource(looked, place.file).length = contents(place.file)
          /\ readSource(looked, place.file).st.out = looked.out
      BY <1>0, <1>1, SourceRead
    <3> QED BY <1>1, <2>2, <3>1, <3>2
  <2> QED BY <2>1, <2>2
<1>3. collectFrame(st, l, options)
        = IF Refused(l, options) THEN looked
          ELSE IF read.length = 0 \/ place.line > read.length THEN read.st
          ELSE [read.st EXCEPT !.out = Append(@, c)]
  BY Zenon, CollectedInSteps
<1>4. Refused(l, options) = /\ Remapped(l, options)
                            /\ isIgnored(place.file) \/ (place.content = 0 /\ ~FileFacts[place.file].ours)
  BY DEF Refused
<1>5. read.length \in Nat
  BY <1>0, <1>2, ContentsTyped
<1>6. options.linesOfContext \in Nat
  BY SourceAssumption
<1>7. c.file = place.file /\ c.line = place.line /\ (c.embedded <=> place.content > 0) /\ c.embedded \in BOOLEAN
  <2>1. c.file = place.file /\ c.line = place.line
    BY DEF FrameAt
  <2>2. c.embedded = (place.content > 0)
    BY DEF FrameAt
  <2> HIDE DEF c, place
  <2>3. (c.embedded <=> place.content > 0) /\ c.embedded \in BOOLEAN
    <3>1. (place.content > 0) \in BOOLEAN
      BY <1>0
    <3> QED BY Zenon, <2>2, <3>1
  <2> QED BY <2>1, <2>3
<1> HIDE DEF looked, place, read
<1>8. CASE Refused(l, options)
  BY <1>1, <1>3, <1>8 DEF CollectionOf
<1>9. CASE ~Refused(l, options) /\ (read.length = 0 \/ place.line > read.length)
  BY <1>2, <1>3, <1>9 DEF CollectionOf
<1>10. CASE ~Refused(l, options) /\ ~(read.length = 0 \/ place.line > read.length)
  <2> DEFINE st2 == [read.st EXCEPT !.out = Append(@, c)]
  <2>1. /\ c.firstLine \in Nat /\ c.firstLine >= 1 /\ c.lines \in Int
        /\ c.line \in c.firstLine..(c.firstLine + c.lines - 1)
        /\ c.firstLine + c.lines - 1 <= read.length
    <3>1. c = FrameAt(place, read.length, options.linesOfContext)
      OBVIOUS
    <3> HIDE DEF c
    <3>2. place.line <= read.length
      BY <1>0, <1>5, <1>10
    <3> QED BY <1>0, <1>5, <1>6, <3>1, <3>2, WindowHolds
  <2>2. c \in CodeFrames
    BY <1>0, <2>1 DEF CodeFrames, FrameAt
  <2> HIDE DEF c
  <2>3. FrameOf(written, c)
    <3>1. ~isIgnored(c.file)
      BY <1>0, <1>4, <1>7, <1>10
    <3>2. c.embedded \/ (place.content = 0 /\ contents(c.file) = read.length)
      <4>1. c.embedded \/ place.content = 0
        BY <1>0, <1>7
      <4>2. place.content = 0 => read.length = contents(place.file)
        BY <1>2
      <4> QED BY <1>7, <4>1, <4>2
    <3>3. ~c.embedded => FileFacts[c.file].ours /\ FileFacts[c.file].leads /\ read.length = FileFacts[c.file].length
      BY <1>0, <1>4, <1>7, <1>10, <3>2 DEF contents
    <3>4. l.parses /\ Names(l, c)
      BY <1>0, <1>7 DEF Names, Remapped
    <3> QED BY <2>1, <3>1, <3>3, <3>4 DEF FrameOf
  <2>4. /\ st2 \in Collections /\ st2.out = Append(st.out, c) /\ st2.sources = read.st.sources
        /\ st2.maps = read.st.maps /\ st2.reads = read.st.reads /\ st2.evictions = read.st.evictions
        /\ st.out \in Seq(CodeFrames)
    <3>1. read.st \in Collections /\ read.st.out = st.out
      BY <1>2 DEF CachesOf
    <3>2. read.st.out \in Seq(CodeFrames)
      BY <3>1 DEF Collections
    <3> DEFINE longer == Append(read.st.out, c)
    <3>3. longer \in Seq(CodeFrames)
      BY <2>2, <3>2
    <3> HIDE DEF longer
    <3>4. [read.st EXCEPT !.out = longer] \in Collections
      BY <3>1, <3>3 DEF Collections
    <3>5. st2 \in Collections
      BY Zenon, <3>4 DEF longer
    <3>6. /\ st2.out = Append(read.st.out, c) /\ st2.sources = read.st.sources
          /\ st2.maps = read.st.maps /\ st2.reads = read.st.reads /\ st2.evictions = read.st.evictions
      BY <3>1 DEF Collections
    <3> QED BY <3>1, <3>2, <3>5, <3>6
  <2>5. collectFrame(st, l, options) = st2
    BY <1>3, <1>10
  <2> HIDE DEF st2
  <2>6. CachesOf(st2)
    BY <1>2, <2>4 DEF CachesOf
  <2>7. ASSUME NEW i \in DOMAIN st2.out PROVE FrameOf(written, st2.out[i])
    <3>1. CASE i \in DOMAIN st.out
      BY <2>4, <3>1 DEF CollectionOf
    <3>2. CASE i \notin DOMAIN st.out
      <4>1. st2.out[i] = c
        BY <2>4, <3>2
      <4> QED BY <2>3, <4>1
    <3> QED BY <3>1, <3>2
  <2> QED BY <2>5, <2>6, <2>7 DEF CollectionOf
<1> QED BY <1>8, <1>9, <1>10

\* The places collected from hold frames of the application that V8 wrote.
LEMMA FramesParsed ==
    ASSUME NEW stack \in StackTexts, NEW i \in parseFrames(stack)
    PROVE  LET l == textOf(stack)[i]
               written == Range(stack.frames) \cup IF stack.given = "none" THEN Range(stack.message) ELSE {}
           IN /\ l \in StackLines /\ l \in written /\ l.parses /\ ~isIgnored(l.file) /\ FileFacts[l.file].ours
<1> DEFINE l == textOf(stack)[i]
           m == stack.message
           f == stack.frames
<1>1. i \in frameLines(stack) /\ l.parses /\ ~isIgnored(l.file) /\ FileFacts[l.file].ours
  BY DEF parseFrames
<1>2. m \in Seq(StackLines) /\ f \in Seq(StackLines) /\ stack.given \in {"same", "reassigned", "none"}
  BY DEF StackTexts
<1>3. i \in DOMAIN textOf(stack) /\ (stack.given # "none" => Len(m) < i)
  BY <1>1 DEF frameLines
<1>4. textOf(stack) = m \o f
  BY DEF textOf
<1> HIDE DEF m, f
<1>5. i \in 1..(Len(m) + Len(f)) /\ Len(m) \in Nat /\ Len(f) \in Nat
  BY <1>2, <1>3, <1>4
<1>6. CASE i <= Len(m)
  <2>1. (m \o f)[i] = m[i] /\ m[i] \in StackLines /\ i \in DOMAIN m
    BY <1>2, <1>5, <1>6
  <2>2. l = m[i] /\ l \in StackLines /\ stack.given = "none"
    BY <1>3, <1>4, <1>5, <1>6, <2>1
  <2>3. l \in Range(m)
    BY <2>1, <2>2 DEF Range
  <2> QED BY <1>1, <2>2, <2>3 DEF m
<1>7. CASE Len(m) < i
  <2>1. (m \o f)[i] = f[i - Len(m)] /\ f[i - Len(m)] \in StackLines /\ i - Len(m) \in DOMAIN f
    BY <1>2, <1>5, <1>7
  <2>2. l = f[i - Len(m)] /\ l \in StackLines
    BY <1>4, <2>1
  <2>3. l \in Range(f)
    BY <2>1, <2>2 DEF Range
  <2> QED BY <1>1, <2>2, <2>3 DEF f
<1> QED BY <1>5, <1>6, <1>7

\* The collections one after the other: there are such, and each keeps what
\* holds of the first.
StepOf(stack, options, before, n) ==
    IF n \in firstFrames(parseFrames(stack), options.maxFrames)
    THEN collectFrame(before, textOf(stack)[n], options) ELSE before
CollectsUpTo(u, n, start, stack, options) ==
    u = [k \in 0..n |-> IF k = 0 THEN start ELSE StepOf(stack, options, u[k - 1], k)]

LEMMA OneMoreFrame ==
    ASSUME NEW n \in Nat, NEW start, NEW stack, NEW options, NEW u, CollectsUpTo(u, n, start, stack, options)
    PROVE  \E v : CollectsUpTo(v, n + 1, start, stack, options)
<1> DEFINE v == [k \in 0..(n + 1) |-> IF k = n + 1 THEN StepOf(stack, options, u[n], n + 1) ELSE u[k]]
           w == [k \in 0..(n + 1) |-> IF k = 0 THEN start ELSE StepOf(stack, options, v[k - 1], k)]
<1>1. \A k \in 0..n : u[k] = IF k = 0 THEN start ELSE StepOf(stack, options, u[k - 1], k)
  BY DEF CollectsUpTo
<1>2. /\ \A k \in 0..n : v[k] = u[k]
      /\ v[n + 1] = StepOf(stack, options, u[n], n + 1)
  OBVIOUS
<1> HIDE DEF v
<1>3. ASSUME NEW k \in 0..(n + 1) PROVE v[k] = IF k = 0 THEN start ELSE StepOf(stack, options, v[k - 1], k)
  <2>1. CASE k = 0
    BY <1>1, <1>2, <2>1
  <2>2. CASE k \in 1..n
    <3>1. k - 1 \in 0..n /\ k \in 0..n /\ k # 0
      BY <2>2
    <3>2. v[k - 1] = u[k - 1] /\ v[k] = u[k]
      BY <1>2, <3>1
    <3> QED BY <1>1, <3>1, <3>2
  <2>3. CASE k = n + 1
    <3>1. k - 1 = n /\ n \in 0..n /\ k # 0
      BY <2>3
    <3>2. v[k - 1] = u[n]
      BY <1>2, <3>1
    <3> QED BY <1>2, <2>3, <3>1, <3>2
  <2> QED BY <2>1, <2>2, <2>3
<1>4. v = w
  <2>1. v = [k \in 0..(n + 1) |-> v[k]]
    BY DEF v
  <2> QED BY <1>3, <2>1
<1> QED BY <1>4 DEF CollectsUpTo

LEMMA CollectionsExist ==
    ASSUME NEW N \in Nat, NEW start, NEW stack, NEW options
    PROVE  \E u : CollectsUpTo(u, N, start, stack, options)
<1> DEFINE T == {n \in Nat : \E u : CollectsUpTo(u, n, start, stack, options)}
<1>1. 0 \in T
  <2> DEFINE u == [k \in 0..0 |-> start]
             v == [k \in 0..0 |-> IF k = 0 THEN start ELSE StepOf(stack, options, u[k - 1], k)]
  <2>1. u = v
    <3>1. \A k \in 0..0 : u[k] = v[k]
      OBVIOUS
    <3> QED BY <3>1
  <2>2. CollectsUpTo(u, 0, start, stack, options)
    BY <2>1 DEF CollectsUpTo
  <2> QED BY <2>2
<1>2. \A n \in T : n + 1 \in T
  BY OneMoreFrame
<1> HIDE DEF T
<1>3. T = Nat
  <2>1. T \subseteq Nat
    BY DEF T
  <2> QED BY <1>1, <1>2, <2>1, AllNaturals
<1> QED BY <1>3 DEF T

LEMMA CollectedIsTheLast ==
    ASSUME NEW start, NEW stack \in StackTexts, NEW options
    PROVE  \E u : CollectsUpTo(u, Len(textOf(stack)), start, stack, options)
                  /\ collected(start, stack, options) = u[Len(textOf(stack))]
<1> DEFINE N == Len(textOf(stack))
           u == CHOOSE f : f = [n \in 0..N |->
                  IF n = 0 THEN start
                  ELSE IF n \in firstFrames(parseFrames(stack), options.maxFrames)
                       THEN collectFrame(f[n - 1], textOf(stack)[n], options) ELSE f[n - 1]]
<1>1. N \in Nat
  BY DEF StackTexts, textOf
<1>2. \E f : f = [n \in 0..N |->
                  IF n = 0 THEN start
                  ELSE IF n \in firstFrames(parseFrames(stack), options.maxFrames)
                       THEN collectFrame(f[n - 1], textOf(stack)[n], options) ELSE f[n - 1]]
  <2>1. PICK g : CollectsUpTo(g, N, start, stack, options)
    BY <1>1, CollectionsExist
  <2>2. g = [n \in 0..N |->
                  IF n = 0 THEN start
                  ELSE IF n \in firstFrames(parseFrames(stack), options.maxFrames)
                       THEN collectFrame(g[n - 1], textOf(stack)[n], options) ELSE g[n - 1]]
    BY <2>1 DEF CollectsUpTo, StepOf
  <2> QED BY <2>2
<1>3. u = [n \in 0..N |->
                  IF n = 0 THEN start
                  ELSE IF n \in firstFrames(parseFrames(stack), options.maxFrames)
                       THEN collectFrame(u[n - 1], textOf(stack)[n], options) ELSE u[n - 1]]
  BY <1>2
<1>4. CollectsUpTo(u, N, start, stack, options)
  BY <1>3 DEF CollectsUpTo, StepOf
<1>5. collected(start, stack, options) = u[N]
  BY Zenon DEF collected
<1> QED BY <1>4, <1>5

WrittenIn(stack) == Range(stack.frames) \cup IF stack.given = "none" THEN Range(stack.message) ELSE {}

LEMMA CollectionHolds ==
    ASSUME NEW stack \in StackTexts, NEW options \in FrameOptions, NEW start,
           CollectionOf(WrittenIn(stack), start)
    PROVE  CollectionOf(WrittenIn(stack), collected(start, stack, options))
<1> DEFINE N == Len(textOf(stack))
           written == WrittenIn(stack)
<1>1. PICK u : CollectsUpTo(u, N, start, stack, options) /\ collected(start, stack, options) = u[N]
  BY CollectedIsTheLast
<1>2. N \in Nat
  BY DEF StackTexts, textOf
<1> DEFINE T == {n \in Nat : n <= N => CollectionOf(written, u[n])}
<1> HIDE DEF N
<1>3. \A k \in 0..N : u[k] = IF k = 0 THEN start ELSE StepOf(stack, options, u[k - 1], k)
  BY <1>1 DEF CollectsUpTo
<1>4. 0 \in T
  BY <1>2, <1>3
<1>5. ASSUME NEW n \in T PROVE n + 1 \in T
  <2> SUFFICES ASSUME n + 1 <= N PROVE CollectionOf(written, u[n + 1])
    OBVIOUS
  <2>1. n \in Nat /\ CollectionOf(written, u[n])
    BY <1>2
  <2>2. n + 1 \in 0..N /\ n + 1 # 0 /\ (n + 1) - 1 = n
    BY <1>2, <2>1
  <2>3. u[n + 1] = StepOf(stack, options, u[n], n + 1)
    BY <1>3, <2>2
  <2>4. CASE n + 1 \in firstFrames(parseFrames(stack), options.maxFrames)
    <3> DEFINE l == textOf(stack)[n + 1]
    <3>1. n + 1 \in parseFrames(stack)
      BY <2>4 DEF firstFrames
    <3>2. l \in StackLines /\ l \in written /\ l.parses /\ ~isIgnored(l.file) /\ FileFacts[l.file].ours
      BY <3>1, FramesParsed DEF WrittenIn
    <3>3. u[n + 1] = collectFrame(u[n], l, options)
      BY <2>3, <2>4 DEF StepOf
    <3> HIDE DEF l, written
    <3> QED BY <2>1, <3>2, <3>3, FrameCollected
  <2>5. CASE n + 1 \notin firstFrames(parseFrames(stack), options.maxFrames)
    BY <2>1, <2>3, <2>5 DEF StepOf
  <2> QED BY <2>4, <2>5
<1> HIDE DEF T
<1>6. T = Nat
  <2>1. T \subseteq Nat
    BY DEF T
  <2> QED BY <1>4, <1>5, <2>1, AllNaturals
<1>7. CollectionOf(written, u[N])
  BY <1>2, <1>6 DEF T
<1> QED BY <1>1, <1>7 DEF N

\* Between collections: the caches, and the frames of the last error.
Gathered ==
    [sources |-> sourceCache, maps |-> mapCache, reads |-> sourceReads, evictions |-> sourceEvictions,
     out |-> codeFrames]
SourceInv == thrown \in StackTexts /\ CollectionOf(WrittenIn(thrown), Gathered)

LEMMA SourceStart == SourceInit => SourceInv
<1> SUFFICES ASSUME SourceInit PROVE SourceInv
  OBVIOUS
<1>1. /\ Gathered.sources = <<>> /\ Gathered.maps = <<>> /\ Gathered.out = <<>> /\ Gathered.evictions = 0
      /\ Gathered.reads = [f \in SourcePaths |-> 0] /\ Gathered \in Collections
  BY DEF Gathered, SourceInit, Collections, SourcePaths
<1>2. CachesOf(Gathered)
  BY <1>1, SourceAssumption DEF CachesOf, Held
<1>3. thrown \in StackTexts
  BY DEF SourceInit, StackTexts
<1> QED BY <1>1, <1>2, <1>3 DEF SourceInv, CollectionOf

LEMMA SourceStep == SourceInv /\ [SourceNext]_sourceVars => SourceInv'
<1> SUFFICES ASSUME SourceInv, [SourceNext]_sourceVars PROVE SourceInv'
  OBVIOUS
<1>1. CASE UNCHANGED sourceVars
  <2>1. thrown' = thrown /\ Gathered' = Gathered
    BY <1>1 DEF sourceVars, Gathered
  <2> QED BY <2>1 DEF SourceInv
<1>2. ASSUME NEW s \in Stacks, NEW o \in FrameOptions, collectCodeFrames(s, o) PROVE SourceInv'
  <2> DEFINE start == [sources |-> sourceCache, maps |-> mapCache, reads |-> sourceReads,
                       evictions |-> sourceEvictions, out |-> <<>>]
             end == collected(start, s, o)
  <2>1. /\ thrown' = s /\ sourceCache' = end.sources /\ mapCache' = end.maps /\ sourceReads' = end.reads
        /\ sourceEvictions' = end.evictions /\ codeFrames' = end.out
    BY <1>2 DEF collectCodeFrames
  <2>2. s \in StackTexts
    BY SourceAssumption
  <2>3. CollectionOf(WrittenIn(s), start)
    <3>1. CachesOf(Gathered)
      BY DEF SourceInv, CollectionOf
    <3>2. /\ start.sources = Gathered.sources /\ start.maps = Gathered.maps /\ start.reads = Gathered.reads
          /\ start.evictions = Gathered.evictions /\ start.out = <<>>
      BY DEF Gathered
    <3>3. start \in Collections
      BY <3>1 DEF CachesOf, Collections, Gathered
    <3> HIDE DEF start
    <3>4. CachesOf(start)
      BY <3>1, <3>2, <3>3 DEF CachesOf
    <3> QED BY <3>2, <3>4 DEF CollectionOf
  <2> HIDE DEF start
  <2>4. CollectionOf(WrittenIn(s), end)
    BY <2>2, <2>3, CollectionHolds
  <2> HIDE DEF end
  <2>5. Gathered' = end
    <3>1. end \in Collections
      BY <2>4 DEF CollectionOf, CachesOf
    <3> QED BY <2>1, <3>1 DEF Gathered, Collections
  <2> QED BY <2>1, <2>2, <2>4, <2>5 DEF SourceInv
<1> QED BY <1>1, <1>2 DEF SourceNext

LEMMA SourceSound == SourceInv => FramesAreOwnSource
<1> SUFFICES ASSUME SourceInv PROVE FramesAreOwnSource
  OBVIOUS
<1>1. CachesOf(Gathered) /\ \A i \in DOMAIN codeFrames : FrameOf(WrittenIn(thrown), codeFrames[i])
  BY DEF SourceInv, CollectionOf, Gathered
<1>2. SourceTypeOK
  BY <1>1 DEF SourceTypeOK, CachesOf, Gathered
<1>3. ShippedIsOwnSource
  BY <1>1 DEF ShippedIsOwnSource, FrameOf, WrittenIn, Names
<1>4. HighlightInFrame
  BY <1>1 DEF HighlightInFrame, FrameOf
<1>5. MissesRemembered
  <2>1. /\ DOMAIN sourceReads = SourcePaths /\ sourceReads \in [SourcePaths -> Nat] /\ sourceEvictions \in Nat
        /\ \A f \in SourcePaths : sourceReads[f] <= sourceEvictions + Held(sourceCache, f)
    BY <1>1 DEF CachesOf, Gathered, Collections
  <2>2. \A f : Held(sourceCache, f) \in 0..1
    BY DEF Held
  <2> QED BY <2>1, <2>2 DEF MissesRemembered
<1> QED BY <1>2, <1>3, <1>4, <1>5 DEF FramesAreOwnSource

\* Whatever an error's message and stack say: a code frame is of the
\* application's own source, at a line V8 named (or a map of it), shows that
\* line, and costs one read of the file until the cache lets it go
\* (collectCodeFrames).
THEOREM FramesAreOurs == SourceSpec => []FramesAreOwnSource
  BY SourceStart, SourceStep, SourceSound, PTL DEF SourceSpec

-----------------------------------------------------------------------------
(***************************************************************************)
(* ProfileUploader, for any limit on the queue and any number of windows.  *)
(* The queue is always the latest windows; what is neither in it nor in    *)
(* flight, delivered or discarded, an overflow paid for - at once, or when *)
(* the window in flight had left the queue before its answer.              *)
(***************************************************************************)
LeftQueue == enqueued - Len(pending)
Overtaken == sendingWindow # 0 /\ sendingWindow # pending[1]
Lost == (1..LeftQueue) \ (Range(delivered) \cup discarded \cup {sendingWindow})

QueueShape ==
    /\ pending \in Seq(Nat) /\ Len(pending) <= MAX_PENDING_WINDOWS
    /\ enqueued \in Nat /\ Len(pending) <= enqueued
    /\ \A i \in 1..Len(pending) : pending[i] = LeftQueue + i
FlightShape ==
    /\ sendingWindow \in 0..enqueued
    /\ sendingWindow # 0 => Len(pending) > 0 /\ sendingWindow <= pending[1]
    /\ Overtaken => Len(pending) = MAX_PENDING_WINDOWS
DeliveredShape ==
    /\ delivered \in Seq(Nat) /\ WindowsInOrder
    /\ \A i \in 1..Len(delivered) : /\ delivered[i] <= LeftQueue
                                    /\ sendingWindow # 0 => delivered[i] < sendingWindow
Freshest == enqueued = 0 \/ Len(pending) > 0 \/ enqueued \in Range(delivered) \cup discarded
Paid ==
    /\ overflows \in Nat
    /\ Cardinality(Lost) + (IF Overtaken THEN 1 ELSE 0) <= overflows
UploadInv == QueueShape /\ FlightShape /\ DeliveredShape /\ Freshest /\ Paid

LEMMA LostFinite == ASSUME QueueShape PROVE IsFiniteSet(Lost) /\ Cardinality(Lost) \in Nat
<1>1. IsFiniteSet(1..LeftQueue)
  BY FS_Interval DEF QueueShape, LeftQueue
<1>2. IsFiniteSet(Lost)
  BY <1>1, FS_Subset DEF Lost
<1> QED BY <1>2, FS_CardinalityType

\* A set within another, or within it and one more.
LEMMA Within ==
    ASSUME NEW S, IsFiniteSet(S), NEW T, T \subseteq S
    PROVE  IsFiniteSet(T) /\ Cardinality(T) \in Nat /\ Cardinality(T) <= Cardinality(S) /\ Cardinality(S) \in Nat
  BY FS_Subset, FS_CardinalityType
LEMMA WithinOneMore ==
    ASSUME NEW S, IsFiniteSet(S), NEW x, NEW T, T \subseteq S \cup {x}
    PROVE  Cardinality(T) \in Nat /\ Cardinality(T) <= Cardinality(S) + 1
<1>1. Cardinality(S) \in Nat
  BY FS_CardinalityType
<1>2. CASE x \in S
  BY <1>1, <1>2, Within, S \cup {x} = S
<1>3. CASE x \notin S
  <2>1. IsFiniteSet(S \cup {x}) /\ Cardinality(S \cup {x}) = Cardinality(S) + 1
    BY <1>3, FS_AddElement
  <2> QED BY <1>1, <2>1, Within
<1> QED BY <1>2, <1>3

\* The windows in the queue are the latest.
LEMMA QueueIsLatest ==
    ASSUME QueueShape
    PROVE  Range(pending) = (LeftQueue + 1)..enqueued /\ LeftQueue \in Nat
<1>1. LeftQueue \in Nat /\ DOMAIN pending = 1..Len(pending) /\ enqueued = LeftQueue + Len(pending) /\ Len(pending) \in Nat
  BY DEF QueueShape, LeftQueue
<1>2. \A i \in 1..Len(pending) : pending[i] \in (LeftQueue + 1)..enqueued
  BY <1>1 DEF QueueShape
<1>3. ASSUME NEW w \in (LeftQueue + 1)..enqueued PROVE w \in Range(pending)
  <2>1. w - LeftQueue \in 1..Len(pending) /\ pending[w - LeftQueue] = w
    BY <1>1 DEF QueueShape
  <2> QED BY <1>1, <2>1 DEF Range
<1> QED BY <1>1, <1>2, <1>3 DEF Range

LEMMA UploadSound == UploadInv => UploadTypeOK /\ WindowsInOrder /\ LostOnlyToOverflow
<1> SUFFICES ASSUME UploadInv PROVE UploadTypeOK /\ WindowsInOrder /\ LostOnlyToOverflow
  OBVIOUS
<1>1. UploadTypeOK /\ WindowsInOrder
  BY DEF UploadInv, QueueShape, FlightShape, DeliveredShape, UploadTypeOK
<1>2. Range(pending) = (LeftQueue + 1)..enqueued /\ LeftQueue \in Nat /\ LeftQueue <= enqueued /\ enqueued \in Nat
  BY QueueIsLatest DEF UploadInv, QueueShape, LeftQueue
<1>3. (1..enqueued) \ (Range(delivered) \cup discarded \cup Range(pending) \cup {sendingWindow}) = Lost
  BY <1>2 DEF Lost
<1>4. Cardinality(Lost) <= overflows
  BY LostFinite DEF UploadInv, Paid
<1>5. enqueued \notin Lost
  <2>1. CASE enqueued = 0
    BY <1>2, <2>1 DEF Lost
  <2>2. CASE Len(pending) > 0
    BY <1>2, <2>2 DEF Lost, LeftQueue, UploadInv, QueueShape
  <2>3. CASE enqueued \in Range(delivered) \cup discarded
    BY <2>3 DEF Lost
  <2> QED BY <2>1, <2>2, <2>3 DEF UploadInv, Freshest
<1> QED BY <1>1, <1>3, <1>4, <1>5 DEF LostOnlyToOverflow

LEMMA UploadStart == UploadInit => UploadInv
<1> SUFFICES ASSUME UploadInit PROVE UploadInv
  OBVIOUS
<1>1. QueueShape /\ FlightShape /\ Freshest /\ ~Overtaken
  BY UploaderAssumption DEF UploadInit, QueueShape, FlightShape, Freshest, Overtaken
<1>2. DeliveredShape
  BY DEF UploadInit, DeliveredShape, WindowsInOrder
<1>3. Lost = {}
  BY DEF Lost, LeftQueue, UploadInit
<1>4. Paid
  BY <1>1, <1>3, FS_EmptySet DEF Paid, UploadInit
<1> QED BY <1>1, <1>2, <1>4 DEF UploadInv

\* A window is queued behind the rest.
LEMMA WindowQueued ==
    ASSUME QueueShape, enqueueWindow, Len(pending) < MAX_PENDING_WINDOWS, overflows \in Nat
    PROVE  /\ QueueShape' /\ LeftQueue' = LeftQueue /\ overflows' = overflows
           /\ Len(pending') > 0 /\ pending'[1] = LeftQueue + 1 /\ Head(pending') = pending'[1]
<1>1. Len(pending) \in Nat /\ enqueued \in Nat /\ enqueued' = enqueued + 1
  BY DEF QueueShape, enqueueWindow
<1>2. pending' = Append(pending, enqueued') /\ overflows' = overflows
  BY <1>1, UploaderAssumption DEF enqueueWindow
<1>3. Len(pending') = Len(pending) + 1 /\ pending' \in Seq(Nat)
  BY <1>1, <1>2 DEF QueueShape
<1>4. LeftQueue' = LeftQueue /\ LeftQueue = enqueued - Len(pending)
  BY <1>1, <1>3 DEF LeftQueue
<1>5. \A i \in 1..Len(pending') : pending'[i] = LeftQueue + i
  BY <1>1, <1>2, <1>3, <1>4 DEF QueueShape
<1>6. QueueShape'
  BY <1>1, <1>3, <1>4, <1>5, UploaderAssumption DEF QueueShape
<1>7. Len(pending') > 0 /\ pending'[1] = LeftQueue + 1 /\ Head(pending') = pending'[1]
  BY <1>1, <1>3, <1>5
<1> QED BY <1>2, <1>4, <1>6, <1>7

\* Or the oldest goes to make room for it.
LEMMA WindowOverflows ==
    ASSUME QueueShape, enqueueWindow, ~(Len(pending) < MAX_PENDING_WINDOWS), overflows \in Nat
    PROVE  /\ QueueShape' /\ LeftQueue' = LeftQueue + 1 /\ overflows' = overflows + 1
           /\ Len(pending') = MAX_PENDING_WINDOWS
           /\ pending[1] = LeftQueue + 1
           /\ Len(pending') > 0 /\ pending'[1] = LeftQueue + 2 /\ Head(pending') = pending'[1]
<1>1. /\ Len(pending) = MAX_PENDING_WINDOWS /\ enqueued \in Nat /\ enqueued' = enqueued + 1
      /\ Len(pending) >= 2 /\ Len(pending) \in Nat
  BY UploaderAssumption DEF QueueShape, enqueueWindow
<1>2. pending' = Append(Tail(pending), enqueued') /\ overflows' = overflows + 1
  BY <1>1, UploaderAssumption DEF enqueueWindow
<1>t. Tail(pending) \in Seq(Nat) /\ Len(Tail(pending)) = Len(pending) - 1
      /\ \A i \in 1..Len(Tail(pending)) : Tail(pending)[i] = pending[i + 1]
  BY <1>1 DEF QueueShape
<1>3. Len(pending') = Len(pending) /\ pending' \in Seq(Nat)
  BY <1>1, <1>2, <1>t
<1>4. LeftQueue' = LeftQueue + 1 /\ LeftQueue = enqueued - Len(pending) /\ LeftQueue \in Nat
  BY <1>1, <1>3 DEF LeftQueue, QueueShape
<1>5. ASSUME NEW i \in 1..Len(pending') PROVE pending'[i] = LeftQueue + 1 + i
  <2>1. CASE i = Len(pending)
    <3>1. pending'[i] = enqueued'
      BY <1>1, <1>2, <1>t, <2>1
    <3> QED BY <1>1, <1>4, <2>1, <3>1
  <2>2. CASE i # Len(pending)
    <3>1. i \in 1..Len(Tail(pending)) /\ i + 1 \in 1..Len(pending)
      BY <1>1, <1>3, <1>t, <2>2
    <3>2. pending'[i] = Tail(pending)[i]
      BY <1>2, <1>t, <3>1
    <3> QED BY <1>t, <1>4, <3>1, <3>2, <1>1 DEF QueueShape
  <2> QED BY <2>1, <2>2
<1>6. QueueShape'
  BY <1>1, <1>3, <1>4, <1>5, UploaderAssumption DEF QueueShape
<1>7. 1 \in 1..Len(pending) /\ 1 \in 1..Len(pending') /\ Head(pending') = pending'[1]
  BY <1>1, <1>3
<1>8. pending[1] = LeftQueue + 1
  BY <1>7 DEF QueueShape
<1>9. pending'[1] = LeftQueue + 2
  BY <1>4, <1>5, <1>7
<1> QED BY <1>1, <1>2, <1>3, <1>4, <1>6, <1>7, <1>8, <1>9

\* The head of the queue goes when the request in flight is answered.
LEMMA HeadGoes ==
    ASSUME QueueShape, FlightShape, answeredFor
    PROVE  /\ QueueShape' /\ LeftQueue' = LeftQueue + 1 /\ overflows' = overflows
           /\ Len(pending) > 0 /\ Len(pending') = Len(pending) - 1
           /\ pending[1] = LeftQueue + 1 /\ enqueued' = enqueued
           /\ IF Len(pending') = 0 THEN sendingWindow' = 0
              ELSE sendingWindow' = pending'[1] /\ sendingWindow' = LeftQueue + 2 /\ sendingWindow' <= enqueued
<1>1. Len(pending) > 0 /\ Len(pending) \in Nat /\ enqueued \in Nat /\ enqueued' = enqueued /\ overflows' = overflows
  BY DEF QueueShape, FlightShape, answeredFor
<1>2. pending' = Tail(pending)
  BY <1>1 DEF answeredFor
<1>t. Tail(pending) \in Seq(Nat) /\ Len(Tail(pending)) = Len(pending) - 1
      /\ \A i \in 1..Len(Tail(pending)) : Tail(pending)[i] = pending[i + 1]
  BY <1>1 DEF QueueShape
<1>4. LeftQueue' = LeftQueue + 1 /\ LeftQueue = enqueued - Len(pending) /\ LeftQueue \in Nat
  BY <1>1, <1>2, <1>t DEF LeftQueue, QueueShape
<1>5. \A i \in 1..Len(pending') : pending'[i] = LeftQueue + 1 + i
  BY <1>1, <1>2, <1>t, <1>4 DEF QueueShape
<1>6. QueueShape'
  BY <1>1, <1>2, <1>t, <1>4, <1>5, UploaderAssumption DEF QueueShape
<1>7. pending[1] = LeftQueue + 1
  BY <1>1 DEF QueueShape
<1>8. IF Len(pending') = 0 THEN sendingWindow' = 0
      ELSE sendingWindow' = pending'[1] /\ sendingWindow' = LeftQueue + 2 /\ sendingWindow' <= enqueued
  <2>1. CASE Len(pending') = 0
    <3>1. pending' = <<>>
      <4>1. ASSUME NEW q \in Seq(Nat), Len(q) = 0 PROVE q = <<>>
        BY <4>1
      <4>2. pending' \in Seq(Nat)
        BY <1>2, <1>t
      <4> QED BY <2>1, <4>1, <4>2
    <3> QED BY <2>1, <3>1 DEF answeredFor
  <2>2. CASE Len(pending') # 0
    <3>1. sendingWindow' = Head(pending') /\ pending' # <<>>
      BY <2>2 DEF answeredFor
    <3>2. Head(pending') = pending'[1] /\ 1 \in 1..Len(pending')
      BY <2>2, <1>2, <1>t, <1>1
    <3>3. pending'[1] = LeftQueue + 2
      BY <1>4, <1>5, <3>2
    <3>4. LeftQueue + 2 <= enqueued
      BY <1>1, <1>2, <1>t, <1>4, <2>2
    <3> QED BY <2>2, <3>1, <3>2, <3>3, <3>4
  <2> QED BY <2>1, <2>2
<1> QED BY <1>1, <1>2, <1>t, <1>4, <1>6, <1>7, <1>8

\* Overtaken, in numbers: the request in flight carries a window that has
\* left the queue.
LEMMA OvertakenIs ==
    ASSUME QueueShape, FlightShape
    PROVE  Overtaken <=> sendingWindow # 0 /\ sendingWindow <= LeftQueue
<1>1. LeftQueue \in Nat /\ sendingWindow \in Nat
  BY DEF QueueShape, FlightShape, LeftQueue
<1>2. sendingWindow # 0 => pending[1] = LeftQueue + 1 /\ sendingWindow <= pending[1]
  BY DEF QueueShape, FlightShape
<1> QED BY <1>1, <1>2 DEF Overtaken

\* What was delivered stays in order, and the next window is later.
LEMMA DeliveredStays ==
    ASSUME DeliveredShape, QueueShape, QueueShape', delivered' = delivered, LeftQueue' \in {LeftQueue, LeftQueue + 1},
           sendingWindow' \in {0, sendingWindow, LeftQueue' + 1}
    PROVE  DeliveredShape'
<1>1. LeftQueue \in Nat /\ WindowsInOrder' /\ delivered \in Seq(Nat) /\ Len(delivered) \in Nat
  BY DEF DeliveredShape, WindowsInOrder, QueueShape, LeftQueue
<1>2. ASSUME NEW i \in 1..Len(delivered)
      PROVE delivered[i] <= LeftQueue' /\ (sendingWindow' # 0 => delivered[i] < sendingWindow')
  <2>1. delivered[i] \in Nat /\ delivered[i] <= LeftQueue /\ (sendingWindow # 0 => delivered[i] < sendingWindow)
    BY <1>1 DEF DeliveredShape
  <2>2. delivered[i] <= LeftQueue'
    BY <1>1, <2>1
  <2>3. LeftQueue' \in Nat
    BY <1>1
  <2>4. CASE sendingWindow' = LeftQueue' + 1
    <3>1. ASSUME NEW a \in Nat, NEW b \in Nat, a <= b PROVE a < b + 1
      BY <3>1
    <3>2. delivered[i] < LeftQueue' + 1
      BY <2>1, <2>2, <2>3, <3>1
    <3> QED BY <2>2, <2>4, <3>2
  <2>5. CASE sendingWindow' \in {0, sendingWindow}
    BY <2>1, <2>2, <2>5
  <2> QED BY <2>4, <2>5
<1> QED BY <1>1, <1>2 DEF DeliveredShape

LEMMA EnqueueKeeps == UploadInv /\ enqueueWindow => UploadInv'
<1> SUFFICES ASSUME UploadInv, enqueueWindow PROVE UploadInv'
  OBVIOUS
<1> USE DEF UploadInv
<1>1. /\ overflows \in Nat /\ LeftQueue \in Nat /\ enqueued \in Nat /\ enqueued' = enqueued + 1
      /\ delivered' = delivered /\ discarded' = discarded /\ Len(pending) \in Nat
      /\ sendingWindow \in 0..enqueued
  BY DEF Paid, QueueShape, LeftQueue, FlightShape, enqueueWindow
<1>2. pending[1] = LeftQueue + 1 \/ Len(pending) = 0
  BY <1>1 DEF QueueShape
<1>3. sendingWindow' \in {sendingWindow, Head(pending')} /\ (sendingWindow # 0 => sendingWindow' = sendingWindow)
  BY DEF enqueueWindow, drainUploads
<1>4. IsFiniteSet(Lost) /\ Cardinality(Lost) \in Nat
  BY LostFinite
<1>5. CASE Len(pending) < MAX_PENDING_WINDOWS
  <2>1. /\ QueueShape' /\ LeftQueue' = LeftQueue /\ overflows' = overflows
        /\ Len(pending') > 0 /\ pending'[1] = LeftQueue + 1 /\ Head(pending') = pending'[1]
    BY <1>1, <1>5, WindowQueued
  <2>2. ~Overtaken
    BY <1>1, <1>5, UploaderAssumption DEF FlightShape
  <2>3. sendingWindow # 0 => sendingWindow = LeftQueue + 1
    BY <1>1, <1>2, <2>2 DEF Overtaken, FlightShape
  <2>4. sendingWindow' \in {0, LeftQueue + 1} /\ LeftQueue + 1 <= enqueued'
    BY <1>1, <1>3, <2>1, <2>3 DEF QueueShape, LeftQueue
  <2>5. FlightShape' /\ ~Overtaken'
    BY <1>1, <2>1, <2>4 DEF FlightShape, Overtaken
  <2>6. DeliveredShape'
    BY <1>1, <2>1, <2>4, DeliveredStays
  <2>7. Lost' \subseteq Lost
    BY <1>1, <2>1, <2>3, <2>4 DEF Lost
  <2>8. Paid'
    BY <1>1, <1>4, <2>1, <2>2, <2>5, <2>7, Within DEF Paid
  <2> QED BY <2>1, <2>5, <2>6, <2>8 DEF Freshest
<1>6. CASE ~(Len(pending) < MAX_PENDING_WINDOWS)
  <2>1. /\ QueueShape' /\ LeftQueue' = LeftQueue + 1 /\ overflows' = overflows + 1
        /\ Len(pending') = MAX_PENDING_WINDOWS /\ pending[1] = LeftQueue + 1
        /\ Len(pending') > 0 /\ pending'[1] = LeftQueue + 2 /\ Head(pending') = pending'[1]
    BY <1>1, <1>6, WindowOverflows
  <2>2. sendingWindow # 0 => sendingWindow <= LeftQueue + 1
    BY <2>1 DEF FlightShape
  <2>3. sendingWindow' \in {sendingWindow, LeftQueue + 2} /\ LeftQueue + 2 <= enqueued'
        /\ (sendingWindow # 0 => sendingWindow' = sendingWindow)
    BY <1>1, <1>3, <2>1 DEF QueueShape, LeftQueue
  <2>4. FlightShape'
    BY <1>1, <2>1, <2>2, <2>3 DEF FlightShape, Overtaken
  <2>5. DeliveredShape'
    BY <1>1, <2>1, <2>3, DeliveredStays
  <2>6. Overtaken' => sendingWindow # 0 /\ sendingWindow' = sendingWindow
    BY <2>1, <2>3 DEF Overtaken
  <2>7. CASE Overtaken' /\ ~Overtaken
    <3>1. sendingWindow' = LeftQueue + 1 /\ sendingWindow = LeftQueue + 1
      BY <2>1, <2>6, <2>7 DEF Overtaken
    <3>2. Lost' \subseteq Lost
      BY <1>1, <2>1, <3>1 DEF Lost
    <3> QED BY <1>1, <1>4, <2>1, <2>4, <2>5, <2>7, <3>2, Within DEF Paid, Freshest
  <2>8. CASE Overtaken' => Overtaken
    <3>1. Lost' \subseteq Lost \cup {LeftQueue + 1}
      BY <1>1, <2>1, <2>3 DEF Lost
    <3>2. Cardinality(Lost') \in Nat /\ Cardinality(Lost') <= Cardinality(Lost) + 1
      BY <1>4, <3>1, WithinOneMore
    <3>3. Paid'
      BY <1>1, <1>4, <2>1, <2>8, <3>2 DEF Paid
    <3> QED BY <2>1, <2>4, <2>5, <3>3 DEF Freshest
  <2> QED BY <2>7, <2>8
<1> QED BY <1>5, <1>6

\* An answer: the window asked about is settled, and the head goes with it,
\* which an overflow may have made another.
LEMMA AnswerKeeps == UploadInv /\ (uploadAccepted \/ notInPlan) => UploadInv'
<1> SUFFICES ASSUME UploadInv, uploadAccepted \/ notInPlan PROVE UploadInv'
  OBVIOUS
<1> USE DEF UploadInv
<1>0. answeredFor /\ sendingWindow # 0
  BY DEF uploadAccepted, notInPlan, answeredFor
<1>1. /\ overflows \in Nat /\ LeftQueue \in Nat /\ enqueued \in Nat /\ Len(pending) \in Nat
      /\ sendingWindow \in 0..enqueued /\ delivered \in Seq(Nat) /\ Len(delivered) \in Nat
  BY DEF Paid, QueueShape, LeftQueue, FlightShape, DeliveredShape
<1>2. /\ QueueShape' /\ LeftQueue' = LeftQueue + 1 /\ overflows' = overflows
      /\ Len(pending) > 0 /\ Len(pending') = Len(pending) - 1
      /\ pending[1] = LeftQueue + 1 /\ enqueued' = enqueued
      /\ IF Len(pending') = 0 THEN sendingWindow' = 0
         ELSE sendingWindow' = pending'[1] /\ sendingWindow' = LeftQueue + 2 /\ sendingWindow' <= enqueued
  BY <1>0, HeadGoes
<1>3. sendingWindow <= LeftQueue + 1
  BY <1>0, <1>2 DEF FlightShape
<1>4. FlightShape' /\ ~Overtaken'
  BY <1>1, <1>2 DEF FlightShape, Overtaken
<1>5. \/ delivered' = Append(delivered, sendingWindow) /\ discarded' = discarded
      \/ delivered' = delivered /\ discarded' = discarded \cup {sendingWindow}
  BY DEF uploadAccepted, notInPlan
<1>6. Range(delivered') \cup discarded' = Range(delivered) \cup discarded \cup {sendingWindow}
  <2>1. CASE delivered' = Append(delivered, sendingWindow) /\ discarded' = discarded
    <3>1. Range(delivered') = Range(delivered) \cup {sendingWindow}
      <4>1. /\ DOMAIN delivered' = 1..(Len(delivered) + 1) /\ DOMAIN delivered = 1..Len(delivered)
            /\ \A i \in 1..Len(delivered) : delivered'[i] = delivered[i]
            /\ delivered'[Len(delivered) + 1] = sendingWindow
        BY <1>1, <2>1
      <4> QED BY <1>1, <4>1 DEF Range
    <3> QED BY <2>1, <3>1
  <2> QED BY <1>5, <2>1
<1>7. DeliveredShape'
  <2>1. CASE delivered' = delivered
    BY <1>1, <1>2, <2>1, DeliveredStays
  <2>2. CASE delivered' = Append(delivered, sendingWindow)
    <3>1. /\ delivered' \in Seq(Nat) /\ Len(delivered') = Len(delivered) + 1
          /\ DOMAIN delivered' = 1..Len(delivered') /\ DOMAIN delivered = 1..Len(delivered)
          /\ \A i \in 1..Len(delivered) : delivered'[i] = delivered[i]
          /\ delivered'[Len(delivered) + 1] = sendingWindow
      BY <1>1, <2>2
    <3>2. \A i \in 1..Len(delivered) : /\ delivered[i] \in Nat /\ delivered[i] <= LeftQueue
                                       /\ delivered[i] < sendingWindow
      BY <1>0, <1>1 DEF DeliveredShape
    <3>3. \A i \in 1..Len(delivered') : delivered'[i] <= LeftQueue + 1
      BY <1>1, <1>3, <3>1, <3>2
    <3>4. WindowsInOrder'
      <4>1. ASSUME NEW i \in 1..Len(delivered'), NEW j \in 1..Len(delivered'), i < j
            PROVE  delivered'[i] < delivered'[j]
        <5>1. i \in 1..Len(delivered) /\ (j \in 1..Len(delivered) \/ j = Len(delivered) + 1)
          BY <1>1, <3>1, <4>1
        <5>2. j \in 1..Len(delivered) => delivered[i] < delivered[j]
          BY <3>1, <4>1, <5>1 DEF DeliveredShape, WindowsInOrder
        <5> QED BY <3>1, <3>2, <5>1, <5>2
      <4> QED BY <3>1, <4>1 DEF WindowsInOrder
    <3>5. \A i \in 1..Len(delivered') : sendingWindow' # 0 => delivered'[i] < sendingWindow'
      <4>1. sendingWindow' # 0 => sendingWindow' = LeftQueue + 2
        BY <1>2
      <4>2. \A i \in 1..Len(delivered') : delivered'[i] \in Nat
        BY <3>1
      <4> QED BY <1>1, <3>3, <4>1, <4>2
    <3> QED BY <1>2, <3>1, <3>3, <3>4, <3>5 DEF DeliveredShape
  <2> QED BY <1>5, <2>1, <2>2
<1>8. Freshest'
  <2>1. CASE Len(pending') = 0
    <3>1. Len(pending) = 1 /\ LeftQueue + 1 = enqueued
      <4>1. Len(pending) = 1
        BY <1>1, <1>2, <2>1
      <4>2. LeftQueue = enqueued - 1
        BY <4>1 DEF LeftQueue
      <4> QED BY <1>1, <4>1, <4>2
    <3>2. ~Overtaken
      BY <3>1, UploaderAssumption DEF FlightShape
    <3>3. sendingWindow = enqueued
      BY <1>0, <1>2, <3>1, <3>2 DEF Overtaken
    <3> QED BY <1>2, <1>6, <3>3 DEF Freshest
  <2>2. CASE Len(pending') # 0
    BY <1>1, <1>2, <2>2 DEF Freshest
  <2> QED BY <2>1, <2>2
<1>9. Paid'
  <2>0. IsFiniteSet(Lost) /\ Cardinality(Lost) \in Nat
    BY LostFinite
  <2>1. CASE Overtaken
    <3>1. Lost' \subseteq Lost \cup {LeftQueue + 1}
      BY <1>1, <1>2, <1>6 DEF Lost
    <3>2. Cardinality(Lost') \in Nat /\ Cardinality(Lost') <= Cardinality(Lost) + 1
      BY <2>0, <3>1, WithinOneMore
    <3> QED BY <1>1, <1>2, <1>4, <2>0, <2>1, <3>2 DEF Paid
  <2>2. CASE ~Overtaken
    <3>1. sendingWindow = LeftQueue + 1
      BY <1>0, <1>2, <2>2 DEF Overtaken
    <3>2. Lost' \subseteq Lost
      BY <1>1, <1>2, <1>6, <3>1 DEF Lost
    <3> QED BY <1>1, <1>2, <1>4, <2>0, <2>2, <3>2, Within DEF Paid
  <2> QED BY <2>1, <2>2
<1> QED BY <1>2, <1>4, <1>7, <1>8, <1>9

\* A failure leaves the window in the queue, if the queue still has it.
LEMMA FailureKeeps == UploadInv /\ (rateLimited \/ uploadFails) => UploadInv'
<1> SUFFICES ASSUME UploadInv, rateLimited \/ uploadFails PROVE UploadInv'
  OBVIOUS
<1> USE DEF UploadInv
<1>1. /\ sendingWindow # 0 /\ sendingWindow' = 0 /\ pending' = pending /\ enqueued' = enqueued
      /\ delivered' = delivered /\ discarded' = discarded /\ overflows' = overflows
  BY DEF rateLimited, uploadFails
<1>2. /\ overflows \in Nat /\ LeftQueue \in Nat /\ enqueued \in Nat /\ LeftQueue' = LeftQueue
      /\ sendingWindow \in Nat
  BY <1>1 DEF Paid, QueueShape, LeftQueue, FlightShape
<1>3. QueueShape'
  BY <1>1, <1>2 DEF QueueShape
<1>4. FlightShape' /\ ~Overtaken'
  BY <1>1, <1>2 DEF FlightShape, Overtaken
<1>5. DeliveredShape'
  BY <1>1, <1>2, <1>3, DeliveredStays
<1>6. Freshest'
  BY <1>1 DEF Freshest
<1>7. Paid'
  <2>0. IsFiniteSet(Lost) /\ Cardinality(Lost) \in Nat
    BY LostFinite
  <2>1. CASE Overtaken
    <3>1. Lost' \subseteq Lost \cup {sendingWindow}
      BY <1>1, <1>2 DEF Lost
    <3>2. Cardinality(Lost') \in Nat /\ Cardinality(Lost') <= Cardinality(Lost) + 1
      BY <2>0, <3>1, WithinOneMore
    <3> QED BY <1>1, <1>2, <1>4, <2>0, <2>1, <3>2 DEF Paid
  <2>2. CASE ~Overtaken
    <3>1. sendingWindow > LeftQueue
      BY <1>1, <1>2, <2>2, OvertakenIs
    <3>2. Lost' \subseteq Lost
      BY <1>1, <1>2, <3>1 DEF Lost
    <3> QED BY <1>1, <1>2, <1>4, <2>0, <2>2, <3>2, Within DEF Paid
  <2> QED BY <2>1, <2>2
<1> QED BY <1>3, <1>4, <1>5, <1>6, <1>7

\* A lapsed pause, or a step of something else, leaves the queue alone.
LEMMA QueueUntouched ==
    ASSUME UploadInv, UNCHANGED <<pending, sendingWindow, enqueued, delivered, discarded, overflows>>
    PROVE  UploadInv'
<1> USE DEF UploadInv
<1>1. QueueShape' /\ FlightShape'
  BY DEF QueueShape, FlightShape, LeftQueue, Overtaken
<1>2. DeliveredShape' /\ Freshest'
  BY DEF DeliveredShape, WindowsInOrder, Freshest, LeftQueue
<1>3. Paid'
  BY DEF Paid, Lost, LeftQueue, Overtaken
<1> QED BY <1>1, <1>2, <1>3

(* The upload of profile windows, for any limit on the queue of at least two *)
(* and any number of windows, failures, pauses and overflows: windows reach  *)
(* the ingest in the order they were taken and none twice; each overflow     *)
(* costs at most one window, nothing else costs any, and the freshest is     *)
(* never the one that goes.                                                  *)
THEOREM UploadsHold == UploadSpec => [](UploadTypeOK /\ WindowsInOrder /\ LostOnlyToOverflow)
<1>1. UploadInit => UploadInv
  BY UploadStart
<1>2. UploadInv /\ [UploadNext]_uploadVars => UploadInv'
  BY EnqueueKeeps, AnswerKeeps, FailureKeeps, QueueUntouched DEF UploadNext, uploadPauseLapses, uploadVars
<1>3. UploadInv => UploadTypeOK /\ WindowsInOrder /\ LostOnlyToOverflow
  BY UploadSound
<1> QED BY <1>1, <1>2, <1>3, PTL DEF UploadSpec
=============================================================================
