----------------------------- MODULE Objectives -----------------------------
(* @Objective (objectives/objective.decorator.ts) and ObjectivesRegistry     *)
(* (objectives/objectives.registry.ts): what the decorators declare is read  *)
(* at boot, and each completed request may bring its handler's declaration   *)
(* due; the shared buffer puts it into the batch being built. The collector  *)
(* keeps one SLO per handler and refuses a batch whole over one declaration. *)
EXTENDS Integers, Sequences, FiniteSets, SequencesExt

CONSTANTS Handlers,
          Decorations,                 \* the ways a handler may be declared
          RESTATE_EVERY,               \* RESTATE_EVERY_MS, in ticks
          MAX_OBJECTIVES_PER_HANDLER, MAX_OBJECTIVES_PER_BATCH, MAX_SPANS_SEARCHED,
          MaxLost                      \* bound: batches lost on their way

VARIABLES
  declared,    \* handler -> what its decorators and its routing say
  age,         \* route stated -> ticks since, up to RESTATE_EVERY (statedAt)
  batch,       \* the declarations of the batch being built, in order
  slo,         \* history: handler -> the routes the collector was told of
  lostBatches
objectiveVars == <<declared, age, batch, slo, lostBatches>>

(* A decorated handler: its objectives in the order written (within the      *)
(* collector's bounds, past one of them, or with a field it does not know),  *)
(* how many paths times versions it is mounted on, and whether its name or   *)
(* its route is longer than the collector takes.                             *)
DecorationType ==
  [objectives: Seq({"ok", "bad", "extra"}), paths: 1..2, longName: BOOLEAN, longRoute: BOOLEAN]

ASSUME ObjectivesAssumption ==
  /\ Decorations \subseteq DecorationType /\ "w" \notin Handlers
  /\ RESTATE_EVERY \in Nat /\ MAX_OBJECTIVES_PER_HANDLER \in Nat \ {0}
  /\ MAX_OBJECTIVES_PER_BATCH \in Nat /\ MAX_SPANS_SEARCHED \in Nat \ {0} /\ MaxLost \in Nat

(* objectiveProblems: a declaration past a bound is dropped; unknown fields  *)
(* are not sent (unknownObjectiveFields, toDeclaredObjective).               *)
acceptable(kind) == kind # "bad"
toDeclaredObjective(kind) == "ok"

(* acceptedObjectives: checked, stripped, and no more than the collector     *)
(* takes for one handler, the first ones.                                    *)
acceptedObjectives(d) ==
  LET kept == {k \in DOMAIN d.objectives : acceptable(d.objectives[k])}
      n == IF Cardinality(kept) > MAX_OBJECTIVES_PER_HANDLER THEN MAX_OBJECTIVES_PER_HANDLER
           ELSE Cardinality(kept)
      nth(i) == CHOOSE k \in kept : Cardinality({j \in kept : j <= k}) = i
  IN IF d.longName THEN <<>> ELSE [i \in 1..n |-> toDeclaredObjective(d.objectives[nth(i)])]

(* onModuleInit: a handler on several routes declares nothing.               *)
byHandler == {h \in Handlers : declared[h].paths = 1 /\ acceptedObjectives(declared[h]) # <<>>}

ObjectivesInit ==
  /\ declared \in [Handlers -> Decorations]
  /\ age = <<>> /\ batch = <<>> /\ slo = [h \in Handlers |-> {}] /\ lostBatches = 0

-----------------------------------------------------------------------------
Renamed == <<"renamed">>   \* the name setOperationId gave the request

(* handlerOf: the declaring handler nearest the root, breadth first, among   *)
(* the first spans. A tree is the sequence of its spans in that order.       *)
declaringSpans(tree) == {i \in 1..Len(tree) : i <= MAX_SPANS_SEARCHED /\ tree[i] \in byHandler}
handlerOf_deepest(tree) ==
  IF declaringSpans(tree) = {} THEN {}
  ELSE {tree[CHOOSE i \in declaringSpans(tree) : \A j \in declaringSpans(tree) : i >= j]}
handlerOf(tree) ==
  IF declaringSpans(tree) = {} THEN {}
  ELSE {tree[CHOOSE i \in declaringSpans(tree) : \A j \in declaringSpans(tree) : i <= j]}

(* declarationFor: nothing for a renamed request or a route too long, and    *)
(* nothing again within the restatement interval.                            *)
statement(h, route) == [handler |-> h, route |-> route, objectives |-> acceptedObjectives(declared[h])]
restates_once(h, route) == <<h, route>> \notin DOMAIN age
restates(h, route) == <<h, route>> \in DOMAIN age => age[<<h, route>>] = RESTATE_EVERY
declarationFor(h, route, long) ==
  IF route = Renamed \/ long \/ ~restates(h, route) THEN {} ELSE {statement(h, route)}

(* The routes a handler serves; a renamed request reports under its name.    *)
RoutesOf(h) == {<<"path", h, k>> : k \in 1..declared[h].paths}

(* A request to h completes: its tree may hold spans of wrappers ("w") above *)
(* h's own and of other handlers' classes below it. The registry is asked    *)
(* only while the batch has room (observe-agent.shared-buffer.ts).           *)
Trees(h) == {<<h>>, <<"w", h>>, <<"w", "w", h>>}
            \cup (IF h \in byHandler THEN {<<h, o>> : o \in Handlers \ {h}} ELSE {})
completeRequest(h, tree, route) ==
  LET long == route # Renamed /\ declared[h].longRoute
      ds == IF Len(batch) >= MAX_OBJECTIVES_PER_BATCH THEN {}
            ELSE UNION {declarationFor(o, route, long) : o \in handlerOf(tree)}
      stated == {<<d.handler, d.route>> : d \in ds}
  IN /\ batch' = batch \o SetToSeq(ds)
     /\ age' = [r \in DOMAIN age \cup stated |-> IF r \in stated THEN 0 ELSE age[r]]
     /\ UNCHANGED <<declared, slo, lostBatches>>

(* The batch leaves, and the collector learns its declarations or never      *)
(* gets it.                                                                  *)
batchTaken ==
  /\ batch # <<>> /\ batch' = <<>>
  /\ slo' = [h \in Handlers |-> slo[h] \cup {batch[i].route : i \in {j \in 1..Len(batch) : batch[j].handler = h}}]
  /\ UNCHANGED <<declared, age, lostBatches>>
batchLost ==
  /\ batch # <<>> /\ lostBatches < MaxLost /\ batch' = <<>> /\ lostBatches' = lostBatches + 1
  /\ UNCHANGED <<declared, age, slo>>

timeGoesBy ==
  /\ \E r \in DOMAIN age : age[r] < RESTATE_EVERY
  /\ age' = [r \in DOMAIN age |-> IF age[r] < RESTATE_EVERY THEN age[r] + 1 ELSE age[r]]
  /\ UNCHANGED <<declared, batch, slo, lostBatches>>

requestTo(h) ==
  \E tree \in Trees(h), route \in RoutesOf(h) \cup {Renamed} : completeRequest(h, tree, route)
ObjectivesNext == timeGoesBy \/ batchTaken \/ batchLost \/ \E h \in Handlers : requestTo(h)
ObjectivesSpec == ObjectivesInit /\ [][ObjectivesNext]_objectiveVars

(* A handler that is asked for by its own name, again and again.             *)
plainRequest(h) == \E route \in RoutesOf(h) : completeRequest(h, <<h>>, route)

-----------------------------------------------------------------------------
ObjectivesTypeOK ==
  /\ Len(batch) <= MAX_OBJECTIVES_PER_BATCH /\ declared \in [Handlers -> DecorationType]
  /\ \A r \in DOMAIN age : age[r] \in 0..RESTATE_EVERY

(* Every declaration sent is one the collector takes: it would refuse the    *)
(* batch whole, telemetry included.                                          *)
BatchWithinBounds ==
  \A i \in 1..Len(batch) :
    /\ Len(batch[i].objectives) \in 1..MAX_OBJECTIVES_PER_HANDLER
    /\ \A k \in 1..Len(batch[i].objectives) : batch[i].objectives[k] = "ok"

(* "an SLO watches one route": the route a handler's SLO is declared for     *)
(* never changes, whichever requests bring it due.                           *)
SloStaysPut == \A h \in Handlers : Cardinality(slo[h]) <= 1

(* What is declared is what the collector takes, for one route per handler   *)
(* (ObjectivesRegistry).                                                     *)
DeclarationsHold == ObjectivesTypeOK /\ BatchWithinBounds /\ SloStaysPut

(* "a dropped one costs an hour of the SLO, not a release": a handler that   *)
(* keeps being asked for has its declaration at the collector in the end.    *)
DeclaredInTheEnd == \A h \in Handlers : (h \in byHandler /\ ~declared[h].longRoute) ~> (slo[h] # {})
=============================================================================
