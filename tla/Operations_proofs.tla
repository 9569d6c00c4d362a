-------------------------- MODULE Operations_proofs --------------------------
(***************************************************************************)
(* Proofs about the operations an application runs, for every value of     *)
(* their constants: they are kept apart, so are the runs of its jobs, a    *)
(* call one of them makes is one span of it, and so is each call through   *)
(* the proxy of one of the application's providers; and the global fetch   *)
(* is left as it was found.                                                *)
(***************************************************************************)
EXTENDS Operations, JobRuns, OutgoingSpans, Instrumentation, FetchObserver,
  SequenceTheorems, FiniteSetTheorems, WellFoundedInduction, TLAPS

-----------------------------------------------------------------------------
(***************************************************************************)
(* JobRuns                                                                 *)
(***************************************************************************)

Ids == {GoodId, BadId, NoId}
JobShapes ==
  [stamp : Ids, ctx : Ids, opts : {"plain", "repeat", "stamped", "invalid", "scheduled"},
   kind : {"promise", "sync", "callback"}, layers : {1, 2},
   hasId : BOOLEAN, outer : BOOLEAN, ignored : BOOLEAN]
\* The id stamped on a job is that of the operation that enqueued it, or its own.
StampIsDue(j) == j.stamp = GoodId => (j.ctx = GoodId /\ j.opts = "plain") \/ j.opts = "stamped"
Contexts == [active : BOOLEAN, id : Ids \cup {"own"}, key : Nat]

\* The store a handler sees, however many layers instrument the job and whatever
\* runs around it: the run's own trace, or none.
LEMMA StoreOfARun ==
    ASSUME job \in JobShapes, StampIsDue(job), NEW r \in Runs
    PROVE  /\ CtxOf(r) \in Contexts /\ CtxOf(r).key \in {0, r}
           /\ Owns(r) /\ (job.hasId \/ job.layers = 1) => CtxOf(r).key = r
           /\ CtxOf(r).id = GoodId => job.stamp = GoodId
<1> DEFINE own == [active |-> job.hasId, key |-> r,
                   id |-> IF job.stamp = GoodId THEN job.stamp ELSE "own"]
           under == [active |-> job.hasId, id |-> NoId, key |-> 0]
           first == layer(OuterCtx, r)
<1>0. /\ job.stamp \in Ids /\ job.layers \in {1, 2} /\ job.hasId \in BOOLEAN /\ job.outer \in BOOLEAN
      /\ r \in Nat /\ r # 0
  BY JobRunsAssumption DEF JobShapes
<1>1. own \in Contexts /\ under \in Contexts /\ own.id # NoId /\ under.id = NoId
  BY <1>0 DEF Contexts, Ids, GoodId, BadId, NoId
<1>2. \A outer : layer(outer, r) = IF job.hasId /\ outer.active THEN outer
                                   ELSE IF outer.id # NoId THEN under ELSE own
  BY <1>0 DEF layer, isSameJob, registryKey, readInheritedTraceId, GoodId, NoId
<1>3. first = IF job.outer THEN under ELSE own
  BY <1>0, <1>2 DEF OuterCtx, NoCtx, GoodId, NoId
<1>4. under.active = job.hasId /\ own.active = job.hasId /\ under.key = 0 /\ own.key = r
      /\ (own.id = GoodId => job.stamp = GoodId)
  BY DEF GoodId
<1> HIDE DEF own, under
<1>5. layer(first, r) = IF job.hasId THEN first ELSE IF job.outer THEN own ELSE under
  BY <1>0, <1>1, <1>2, <1>3, <1>4
<1>6. CtxOf(r) \in {own, under}
  BY <1>3, <1>5 DEF CtxOf
<1>7. ASSUME Owns(r), job.hasId \/ job.layers = 1 PROVE CtxOf(r) = own
  <2>1. Opening(OuterCtx) \/ (job.layers = 2 /\ Opening(first))
    BY <1>7 DEF Owns, OpensTrace
  <2>2. CASE job.outer
    <3>1. ~Opening(OuterCtx)
      BY <1>0, <2>2 DEF Opening, OuterCtx, GoodId, NoId
    <3>2. job.layers = 2 /\ ~(job.hasId /\ first.active)
      BY <2>1, <3>1 DEF Opening, isSameJob
    <3> QED BY <1>0, <1>3, <1>4, <1>7, <2>2, <3>2
  <2>3. CASE ~job.outer
    <3>1. first = own
      BY <1>3, <2>3
    <3>2. CASE job.layers = 2
      BY <1>5, <1>7, <3>1, <3>2 DEF CtxOf
    <3>3. CASE job.layers # 2
      BY <3>1, <3>3 DEF CtxOf
    <3> QED BY <3>2, <3>3
  <2> QED BY <1>0, <2>2, <2>3
<1>8. GoodId # NoId
  BY DEF GoodId, NoId
<1>9. CtxOf(r).id = GoodId => job.stamp = GoodId
  BY <1>1, <1>4, <1>6, <1>8
<1> QED BY <1>1, <1>4, <1>6, <1>7, <1>9

Statuses == {"completed", "failed"}
Once == {<<>>} \cup {<<s>> : s \in Statuses}
Reported(r) == \E i \in DOMAIN jobReports : jobReports[i].run = r

\* Everything but how the runs settle: what a run's store is, and whose spans a
\* trace holds.
JobsShape ==
  /\ agents \in 0..MaxAgents
  /\ \A p \in Patches : patched[p] \in {<<>>} \cup {<<a>> : a \in 0..MaxAgents}
  /\ job = NoJob \/ (job \in JobShapes /\ StampIsDue(job))
  /\ running \subseteq Runs /\ returned \subseteq running /\ open \subseteq running
  /\ running # {} => job # NoJob
  /\ ctx \in [Runs -> Contexts] /\ \A r \in running : ctx[r] = CtxOf(r)
  /\ dones \in [Runs -> 0..MaxDone]
  /\ spans \in [Runs -> SUBSET Runs] /\ \A r \in Runs : spans[r] \subseteq {r}

\* How far a run has come: it signals once it runs, what it signals first is what
\* it settles with if it owns the trace, and that is to be completed, waits for
\* open spans, or is reported - one of them at a time.
RunTied(r) ==
  /\ firstSignal[r] # <<>> => r \in running
  /\ settled[r] = IF Owns(r) THEN firstSignal[r] ELSE <<>>
  /\ pending[r] # <<>> => pending[r] = settled[r] /\ waiting[r] = 0 /\ ~Reported(r)
  /\ waiting[r] # 0 => waiting[r] = 1 /\ settled[r] = <<status[r]>> /\ ~Reported(r)
ReportsTied ==
  /\ \A i \in DOMAIN jobReports : settled[jobReports[i].run] = <<jobReports[i].status>>
  /\ \A i, j \in DOMAIN jobReports : jobReports[i].run = jobReports[j].run => i = j
SettlingShape ==
  /\ firstSignal \in [Runs -> Once] /\ settled \in [Runs -> Once] /\ pending \in [Runs -> Once]
  /\ waiting \in [Runs -> Nat] /\ status \in [Runs -> Statuses \cup {"none"}]
  /\ jobReports \in Seq([run : Runs, id : Ids \cup {"own"}, status : Statuses \cup {"none"}])
JobsInv == JobsShape /\ SettlingShape /\ (\A r \in Runs : RunTied(r)) /\ ReportsTied

LEMMA ReportsAreRuns ==
    ASSUME SettlingShape
    PROVE  /\ DOMAIN jobReports = 1..Len(jobReports) /\ Len(jobReports) \in Nat
           /\ \A i \in DOMAIN jobReports : jobReports[i].run \in Runs
<1> DEFINE R == [run : Runs, id : Ids \cup {"own"}, status : Statuses \cup {"none"}]
<1>1. \A x \in R : x.run \in Runs
  OBVIOUS
<1>2. jobReports \in Seq(R)
  BY DEF SettlingShape
<1> HIDE DEF R
<1> QED BY <1>1, <1>2

LEMMA JobsInvStarts == JobsInit => JobsInv
<1> SUFFICES ASSUME JobsInit PROVE JobsInv
  OBVIOUS
<1>1. JobsShape
  <2>1. NoCtx \in Contexts
    BY DEF NoCtx, Contexts, Ids, NoId
  <2>2. /\ agents = 0 /\ patched = [p \in Patches |-> <<>>] /\ job = NoJob
        /\ running = {} /\ returned = {} /\ open = {} /\ ctx = [r \in Runs |-> NoCtx]
        /\ dones = [r \in Runs |-> 0] /\ spans = [r \in Runs |-> {}]
    BY DEF JobsInit
  <2>3. 0 \in 0..MaxAgents /\ 0 \in 0..MaxDone
    BY JobRunsAssumption
  <2>4. ctx \in [Runs -> Contexts] /\ dones \in [Runs -> 0..MaxDone]
        /\ spans \in [Runs -> SUBSET Runs] /\ \A r \in Runs : spans[r] \subseteq {r}
    BY <2>1, <2>2, <2>3
  <2>5. \A p \in Patches : patched[p] \in {<<>>} \cup {<<a>> : a \in 0..MaxAgents}
    BY <2>2
  <2> QED BY <2>2, <2>3, <2>4, <2>5 DEF JobsShape
<1>2. SettlingShape
  BY DEF JobsInit, SettlingShape, Once
<1>3. ASSUME NEW r \in Runs PROVE RunTied(r)
  BY DEF JobsInit, RunTied
<1>4. ReportsTied
  BY DEF JobsInit, ReportsTied
<1> QED BY <1>1, <1>2, <1>3, <1>4 DEF JobsInv

LEMMA JobsShapeKept ==
    ASSUME JobsShape, [JobsNext]_jobVars
    PROVE  JobsShape'
<1> USE DEF JobsShape
<1>1. CASE agentBuilt
  <2>1. running = {} /\ UNCHANGED <<job, runVars>> /\ agents + 1 \in 0..MaxAgents
        /\ agents' = agents + 1
    BY <1>1, JobRunsAssumption DEF agentBuilt
  <2>2. ASSUME NEW p \in Patches PROVE patched'[p] \in {<<>>} \cup {<<a>> : a \in 0..MaxAgents}
    <3>1. patched'[p] = <<agents + 1>> \o <<>> \/ patched'[p] = <<agents + 1>> \/ patched'[p] = patched[p]
      BY <1>1, <2>2 DEF agentBuilt, Patches, patchEnqueue, patchWorkerPro, patchBull,
                        patchDecorate, patchScheduleExplorer, parkOriginal
    <3>2. <<agents + 1>> \o <<>> = <<agents + 1>>
      OBVIOUS
    <3>3. patched[p] \in {<<>>} \cup {<<a>> : a \in 0..MaxAgents}
      OBVIOUS
    <3>4. <<agents + 1>> \in {<<a>> : a \in 0..MaxAgents}
      BY <2>1
    <3> HIDE DEF JobsShape
    <3> QED BY <3>1, <3>2, <3>3, <3>4
  <2>3. ASSUME NEW x \in Runs PROVE CtxOf(x)' = CtxOf(x)
    BY <2>1 DEF CtxOf, OuterCtx, layer, isSameJob, registryKey, runVars
  <2> QED BY <2>1, <2>2 DEF runVars
<1>2. ASSUME NEW e \in Enqueued, enqueue(e) \/ instrumentHandler(e) PROVE JobsShape'
  <2>1. job = NoJob /\ running = {} /\ returned = {} /\ open = {}
        /\ UNCHANGED <<agents, patched, runVars>>
    BY <1>2 DEF enqueue, instrumentHandler
  <2>2. e \in [stamp : {NoId}, ctx : Ids, opts : {"plain", "repeat", "stamped", "invalid"},
               kind : {"promise", "sync", "callback"}, layers : {1, 2},
               hasId : BOOLEAN, outer : BOOLEAN, ignored : BOOLEAN]
    BY JobRunsAssumption DEF Ids
  <2>3. CASE enqueue(e)
    <3>1. job' = [e EXCEPT !.stamp = stampTraceId(e.ctx, e.opts)]
      BY <2>3 DEF enqueue
    <3>2. /\ stampTraceId(e.ctx, e.opts) \in Ids
          /\ stampTraceId(e.ctx, e.opts) = GoodId =>
                 (e.ctx = GoodId /\ e.opts = "plain") \/ e.opts = "stamped"
      BY <2>2 DEF stampTraceId, Ids, GoodId, BadId, NoId
    <3>3. job' \in JobShapes /\ StampIsDue(job')
      BY <2>2, <3>1, <3>2 DEF JobShapes, StampIsDue
    <3> QED BY <2>1, <3>3 DEF runVars
  <2>4. CASE instrumentHandler(e)
    <3>1. job' = [e EXCEPT !.stamp = NoId, !.opts = "scheduled"]
      BY <2>4 DEF instrumentHandler
    <3>3. job' \in JobShapes /\ StampIsDue(job')
      BY <2>2, <3>1 DEF JobShapes, StampIsDue, Ids, GoodId, BadId, NoId
    <3> QED BY <2>1, <3>3 DEF runVars
  <2> QED BY <1>2, <2>3, <2>4
<1>3. ASSUME NEW r \in Runs, run(r) PROVE JobsShape'
  <2>1. /\ job # NoJob /\ running' = running \cup {r} /\ ctx' = [ctx EXCEPT ![r] = CtxOf(r)]
        /\ open' \subseteq open \cup {r}
        /\ UNCHANGED <<agents, patched, job, returned, dones, spans>>
    BY <1>3 DEF run, registryKey
  <2>2. CtxOf(r) \in Contexts
    BY <2>1, StoreOfARun
  <2>3. ctx' \in [Runs -> Contexts]
    BY <2>1, <2>2
  <2>4. ASSUME NEW x \in Runs PROVE CtxOf(x)' = CtxOf(x)
    BY <2>1 DEF CtxOf, OuterCtx, layer, isSameJob, registryKey
  <2>5. \A x \in running' : ctx'[x] = CtxOf(x)'
    BY <2>1, <2>4
  <2> QED BY <2>1, <2>3, <2>5
<1>4. ASSUME NEW r \in Runs, NEW b \in BOOLEAN, recordsSpan(r, b) PROVE JobsShape'
  <2>1. /\ r \in running /\ ctx[r].key \in open /\ ctx[r] = CtxOf(r)
        /\ spans' = [spans EXCEPT ![ctx[r].key] = @ \cup {r}]
        /\ UNCHANGED <<agents, patched, job, ctx, running, returned, dones, open>>
    BY <1>4 DEF recordsSpan
  <2>2. ctx[r].key = r
    <3>1. CtxOf(r).key \in {0, r}
      BY <2>1, StoreOfARun
    <3>2. 0 \notin Runs
      BY JobRunsAssumption
    <3> QED BY <2>1, <3>1, <3>2
  <2>3. spans' \in [Runs -> SUBSET Runs] /\ \A x \in Runs : spans'[x] \subseteq {x}
    BY <2>1, <2>2
  <2>4. ASSUME NEW x \in Runs PROVE CtxOf(x)' = CtxOf(x)
    BY <2>1 DEF CtxOf, OuterCtx, layer, isSameJob, registryKey
  <2> QED BY <2>1, <2>3, <2>4
<1>5. ASSUME UNCHANGED <<agents, patched, job, ctx, running, spans>>,
             returned' \subseteq running, open' \subseteq running, dones' \in [Runs -> 0..MaxDone]
      PROVE  JobsShape'
  <2>1. ASSUME NEW x \in Runs PROVE CtxOf(x)' = CtxOf(x)
    BY <1>5 DEF CtxOf, OuterCtx, layer, isSameJob, registryKey
  <2> QED BY <1>5, <2>1
<1>6. ASSUME NEW r \in Runs, NEW b \in BOOLEAN, handlerReturns(r, b) \/ handlerFails(r) PROVE JobsShape'
  <2>1. /\ UNCHANGED <<agents, patched, job, ctx, running, spans, dones, open>>
        /\ r \in running /\ returned' = returned \cup {r}
    BY <1>6 DEF handlerReturns, handlerFails
  <2> QED BY <1>5, <2>1
<1>7. ASSUME NEW r \in Runs, NEW b \in BOOLEAN, callsBack(r, b) PROVE JobsShape'
  <2>1. /\ UNCHANGED <<agents, patched, job, ctx, running, spans, returned, open>>
        /\ dones[r] < MaxDone /\ dones' = [dones EXCEPT ![r] = @ + 1]
    BY <1>7 DEF callsBack
  <2>2. dones' \in [Runs -> 0..MaxDone]
    BY <2>1, JobRunsAssumption
  <2> QED BY <1>5, <2>1, <2>2
<1>8. ASSUME NEW r \in Runs, jobCompletes(r) \/ jobWaitOver(r) PROVE JobsShape'
  <2>1. /\ UNCHANGED <<agents, patched, job, ctx, running, spans, dones, returned>>
        /\ open' \subseteq open
    BY <1>8 DEF jobCompletes, jobWaitOver
  <2> QED BY <1>5, <2>1
<1>9. CASE UNCHANGED jobVars
  <2>1. UNCHANGED <<agents, patched, job, ctx, running, spans, dones, returned, open>>
    BY <1>9 DEF jobVars
  <2> QED BY <1>5, <2>1
<1> HIDE DEF JobsShape
<1> QED BY <1>1, <1>2, <1>3, <1>4, <1>6, <1>7, <1>8, <1>9 DEF JobsNext

\* Who owns a run's trace is settled once the job is enqueued.
LEMMA OwnerStays ==
    ASSUME job' = job, NEW r \in Runs
    PROVE  Owns(r)' = Owns(r)
BY DEF Owns, OpensTrace, isIgnored, Opening, OuterCtx, layer, isSameJob, registryKey

\* The steps that leave how the runs settle alone.
LEMMA TiesLeft ==
    ASSUME JobsInv, UNCHANGED <<settled, pending, waiting, status, jobReports, firstSignal>>,
           running \subseteq running', job' = job \/ running = {}
    PROVE  SettlingShape' /\ (\A r \in Runs : RunTied(r)') /\ ReportsTied'
<1>1. SettlingShape'
  BY DEF JobsInv, SettlingShape
<1>2. ReportsTied'
  BY DEF JobsInv, ReportsTied
<1>3. ASSUME NEW r \in Runs PROVE RunTied(r)'
  <2>1. RunTied(r) /\ Reported(r)' = Reported(r)
    BY DEF JobsInv, Reported
  <2>2. CASE job' = job
    BY <2>1, <2>2, OwnerStays DEF RunTied
  <2>3. CASE running = {}
    <3>1. firstSignal[r] = <<>> /\ settled[r] = <<>>
      BY <2>1, <2>3 DEF RunTied
    <3> QED BY <2>1, <3>1 DEF RunTied
  <2> QED BY <2>2, <2>3
<1> QED BY <1>1, <1>2, <1>3

SignalsIn(r, how) ==
    /\ r \in running /\ Signals(r, how)
    /\ UNCHANGED <<job, running, waiting, status, jobReports>>

\* A handler returns, throws or calls back, again perhaps: the first time counts.
LEMMA TiesSignalled ==
    ASSUME JobsInv, NEW r \in Runs, NEW how \in Statuses, SignalsIn(r, how)
    PROVE  SettlingShape' /\ (\A x \in Runs : RunTied(x)') /\ ReportsTied'
<1> DEFINE first == Owns(r) /\ settled[r] = <<>>
<1>1. /\ r \in running /\ running' = running /\ job' = job /\ waiting' = waiting
      /\ status' = status /\ jobReports' = jobReports
      /\ settled' = [settled EXCEPT ![r] = IF first THEN Append(@, how) ELSE @]
      /\ pending' = [pending EXCEPT ![r] = IF first THEN Append(@, how) ELSE @]
      /\ firstSignal' = [firstSignal EXCEPT ![r] = IF @ = <<>> THEN <<how>> ELSE @]
  BY DEF SignalsIn, Signals, settle
<1>2. /\ settled \in [Runs -> Once] /\ pending \in [Runs -> Once] /\ firstSignal \in [Runs -> Once]
      /\ \A x \in Runs : RunTied(x)
      /\ \A i \in DOMAIN jobReports : jobReports[i].run \in Runs
      /\ ReportsTied
  BY ReportsAreRuns DEF JobsInv, SettlingShape
<1>3. Append(<<>>, how) = <<how>> /\ <<how>> \in Once /\ <<how>> # <<>>
  BY DEF Once
<1>4. first => pending[r] = <<>> /\ waiting[r] = 0 /\ firstSignal[r] = <<>>
  <2> SUFFICES ASSUME first PROVE pending[r] = <<>> /\ waiting[r] = 0 /\ firstSignal[r] = <<>>
    OBVIOUS
  <2>1. RunTied(r)
    BY <1>2
  <2>2. \A s : <<s>> # <<>>
    OBVIOUS
  <2> QED BY <2>1, <2>2 DEF RunTied
<1>5. ~first => settled' = settled /\ pending' = pending
  BY <1>1, <1>2
<1>6. first => settled'[r] = <<how>> /\ pending'[r] = <<how>> /\ firstSignal'[r] = <<how>>
  BY <1>1, <1>2, <1>3, <1>4
<1>7. \A x \in Runs : x # r => /\ settled'[x] = settled[x] /\ pending'[x] = pending[x]
                               /\ firstSignal'[x] = firstSignal[x]
  BY <1>1, <1>2
<1>8. firstSignal'[r] \in Once /\ firstSignal'[r] # <<>>
      /\ (firstSignal[r] # <<>> => firstSignal'[r] = firstSignal[r])
  BY <1>1, <1>2, <1>3
<1>9. /\ DOMAIN settled' = Runs /\ DOMAIN pending' = Runs /\ DOMAIN firstSignal' = Runs
      /\ settled' = [x \in Runs |-> settled'[x]] /\ pending' = [x \in Runs |-> pending'[x]]
      /\ firstSignal' = [x \in Runs |-> firstSignal'[x]]
  BY <1>1, <1>2
<1>10. \A x \in Runs : settled'[x] \in Once /\ pending'[x] \in Once /\ firstSignal'[x] \in Once
  BY <1>2, <1>3, <1>5, <1>6, <1>7, <1>8
<1>11. SettlingShape'
  <2>1. settled' \in [Runs -> Once] /\ pending' \in [Runs -> Once] /\ firstSignal' \in [Runs -> Once]
    BY <1>9, <1>10
  <2> QED BY <1>1, <2>1 DEF JobsInv, SettlingShape
<1>12. \A x \in Runs : Reported(x)' = Reported(x)
  BY <1>1 DEF Reported
<1>13. Reported(r) => settled[r] # <<>>
  <2> SUFFICES ASSUME NEW i \in DOMAIN jobReports, jobReports[i].run = r PROVE settled[r] # <<>>
    BY DEF Reported
  <2>1. settled[jobReports[i].run] = <<jobReports[i].status>>
    BY <1>2 DEF ReportsTied
  <2>2. \A s : <<s>> # <<>>
    OBVIOUS
  <2> QED BY <2>1, <2>2
<1> HIDE DEF first
<1>14. ASSUME NEW x \in Runs PROVE RunTied(x)'
  <2>1. RunTied(x) /\ Owns(x)' = Owns(x) /\ Reported(x)' = Reported(x)
    BY <1>1, <1>2, <1>12, OwnerStays
  <2>2. CASE x # r
    BY <1>1, <1>7, <2>1, <2>2 DEF RunTied
  <2>3. CASE x = r /\ first
    <3>1. Owns(r) /\ ~Reported(r)
      BY <1>13, <2>3 DEF first
    <3> QED BY <1>1, <1>4, <1>6, <2>1, <2>3, <3>1 DEF RunTied
  <2>4. CASE x = r /\ ~first
    <3>1. ~Owns(r) \/ settled[r] # <<>>
      BY <2>4 DEF first
    <3>2. Owns(r) => firstSignal[r] # <<>> /\ firstSignal'[r] = firstSignal[r]
      BY <1>8, <2>1, <2>4, <3>1 DEF RunTied
    <3> QED BY <1>1, <1>5, <2>1, <2>4, <3>2 DEF RunTied
  <2> QED BY <2>2, <2>3, <2>4
<1>15. ReportsTied'
  <2>1. ASSUME NEW i \in DOMAIN jobReports
        PROVE  settled'[jobReports[i].run] = <<jobReports[i].status>>
    <3>1. settled[jobReports[i].run] = <<jobReports[i].status>> /\ jobReports[i].run \in Runs
      BY <1>2 DEF ReportsTied
    <3>2. <<jobReports[i].status>> # <<>>
      OBVIOUS
    <3>3. jobReports[i].run = r => ~first
      BY <3>1, <3>2 DEF first
    <3> QED BY <1>5, <1>7, <3>1, <3>3
  <2> QED BY <1>1, <1>2, <2>1 DEF ReportsTied
<1> QED BY <1>11, <1>14, <1>15

\* A run is reported, or - its trace recorded nothing - is not.
ReportAdded(r) ==
    /\ \/ jobReports' = jobReports
       \/ jobReports' = jobReports \o <<[run |-> r, id |-> ctx[r].id, status |-> status'[r]]>>
    /\ settled' = settled

LEMMA ReportsGrow ==
    ASSUME JobsInv, NEW r \in Runs, ReportAdded(r), settled[r] = <<status'[r]>>, ~Reported(r),
           status'[r] \in Statuses \cup {"none"}
    PROVE  /\ jobReports' \in Seq([run : Runs, id : Ids \cup {"own"}, status : Statuses \cup {"none"}])
           /\ ReportsTied' /\ \A x \in Runs : x # r => Reported(x)' = Reported(x)
<1> DEFINE R == [run : Runs, id : Ids \cup {"own"}, status : Statuses \cup {"none"}]
           rep == [run |-> r, id |-> ctx[r].id, status |-> status'[r]]
           n == Len(jobReports)
<1>1. jobReports \in Seq(R) /\ ReportsTied /\ settled' = settled
      /\ DOMAIN jobReports = 1..n /\ n \in Nat /\ (\A i \in 1..n : jobReports[i].run \in Runs)
  BY ReportsAreRuns DEF JobsInv, SettlingShape, ReportAdded
<1>2. CASE jobReports' = jobReports
  BY <1>1, <1>2 DEF ReportsTied, Reported
<1>3. CASE jobReports' = jobReports \o <<rep>>
  <2>1. rep \in R /\ rep.run = r /\ rep.status = status'[r]
    <3>1. ctx[r].id \in Ids \cup {"own"}
      BY DEF JobsInv, JobsShape, Contexts
    <3> QED BY <3>1
  <2> HIDE DEF rep, R
  <2>2. jobReports' \in Seq(R) /\ DOMAIN jobReports' = 1..(n + 1)
        /\ (\A i \in 1..n : jobReports'[i] = jobReports[i]) /\ jobReports'[n + 1] = rep
    BY <1>1, <1>3, <2>1
  <2>3. \A i \in 1..(n + 1) : i \in 1..n \/ i = n + 1
    BY <1>1
  <2>4. \A i \in 1..n : jobReports[i].run # r
    BY <1>1 DEF Reported
  <2>5. \A i \in 1..(n + 1) : settled[jobReports'[i].run] = <<jobReports'[i].status>>
    BY <1>1, <2>1, <2>2, <2>3 DEF ReportsTied
  <2>6. \A i, j \in 1..(n + 1) : jobReports'[i].run = jobReports'[j].run => i = j
    BY <1>1, <2>1, <2>2, <2>3, <2>4 DEF ReportsTied
  <2>7. ReportsTied'
    BY <1>1, <2>2, <2>5, <2>6 DEF ReportsTied
  <2>8. ASSUME NEW x \in Runs, x # r PROVE Reported(x)' = Reported(x)
    <3>1. (\E i \in 1..(n + 1) : jobReports'[i].run = x) <=> (\E i \in 1..n : jobReports[i].run = x)
      <4>1. ASSUME NEW i \in 1..n PROVE i \in 1..(n + 1)
        BY <1>1
      <4> QED BY <2>1, <2>2, <2>3, <2>8, <4>1
    <3>2. Reported(x) = \E i \in 1..n : jobReports[i].run = x
      BY <1>1 DEF Reported
    <3>3. Reported(x)' = \E i \in 1..(n + 1) : jobReports'[i].run = x
      BY <2>2 DEF Reported
    <3> QED BY <3>1, <3>2, <3>3
  <2> QED BY <2>2, <2>7, <2>8 DEF R
<1> QED BY <1>2, <1>3 DEF ReportAdded

\* The deferred completion of a run, and the end of its wait for open spans.
LEMMA TiesCompleted ==
    ASSUME JobsInv, NEW r \in Runs, jobCompletes(r)
    PROVE  SettlingShape' /\ (\A x \in Runs : RunTied(x)') /\ ReportsTied'
<1> DEFINE R == [run : Runs, id : Ids \cup {"own"}, status : Statuses \cup {"none"}]
<1>1. /\ pending[r] # <<>> /\ pending' = [pending EXCEPT ![r] = Tail(@)]
      /\ UNCHANGED <<job, running, settled, firstSignal>>
      /\ status' = IF r \in open THEN [status EXCEPT ![r] = Head(pending[r])] ELSE status
      /\ \/ r \in open /\ waiting' = [waiting EXCEPT ![r] = @ + 1] /\ jobReports' = jobReports
         \/ /\ waiting' = waiting
            /\ jobReports' = IF r \in open THEN jobReports \o Report(r) ELSE jobReports
  BY DEF jobCompletes, registryKey
<1>2. /\ settled \in [Runs -> Once] /\ pending \in [Runs -> Once] /\ firstSignal \in [Runs -> Once]
      /\ waiting \in [Runs -> Nat] /\ status \in [Runs -> Statuses \cup {"none"}]
      /\ RunTied(r) /\ (\A x \in Runs : RunTied(x)) /\ jobReports \in Seq(R) /\ ReportsTied
  BY DEF JobsInv, SettlingShape
<1>3. PICK h \in Statuses : pending[r] = <<h>>
  BY <1>1, <1>2 DEF Once
<1>4. Head(<<h>>) = h /\ Tail(<<h>>) = <<>>
  OBVIOUS
<1>5. settled[r] = <<h>> /\ waiting[r] = 0 /\ ~Reported(r)
  BY <1>1, <1>2, <1>3 DEF RunTied
<1>6. /\ pending' = [pending EXCEPT ![r] = <<>>] /\ (r \in open => status' = [status EXCEPT ![r] = h])
      /\ (r \notin open => status' = status)
  BY <1>1, <1>3, <1>4
<1>7. pending' \in [Runs -> Once] /\ status' \in [Runs -> Statuses \cup {"none"}] /\ waiting' \in [Runs -> Nat]
      /\ pending'[r] = <<>> /\ (r \in open => status'[r] = h)
      /\ (\A x \in Runs : x # r => /\ pending'[x] = pending[x] /\ status'[x] = status[x]
                                   /\ waiting'[x] = waiting[x])
  <2>1. <<>> \in Once
    BY DEF Once
  <2>2. waiting' \in [Runs -> Nat] /\ \A x \in Runs : x # r => waiting'[x] = waiting[x]
    BY <1>1, <1>2
  <2> QED BY <1>2, <1>6, <2>1, <2>2
<1>8. /\ jobReports' \in Seq(R) /\ ReportsTied' /\ \A x \in Runs : x # r => Reported(x)' = Reported(x)
      /\ (jobReports' = jobReports \/ (r \in open /\ waiting' = waiting))
  <2>1. CASE jobReports' = jobReports
    BY <1>1, <1>2, <2>1 DEF ReportsTied, Reported
  <2>2. CASE jobReports' # jobReports
    <3>1. r \in open /\ waiting' = waiting /\ jobReports' = jobReports \o Report(r)
      BY <1>1, <2>2
    <3>2. jobReports' = jobReports \/ jobReports' = jobReports \o <<[run |-> r, id |-> ctx[r].id, status |-> status'[r]]>>
      <4>1. jobReports \o <<>> = jobReports
        BY <1>2
      <4> QED BY <3>1, <4>1 DEF Report
    <3>3. ReportAdded(r)
      BY <1>1, <3>2 DEF ReportAdded
    <3>4. settled[r] = <<status'[r]>> /\ status'[r] \in Statuses \cup {"none"}
      BY <1>5, <1>7, <3>1
    <3> QED BY <1>5, <3>1, <3>3, <3>4, ReportsGrow
  <2> QED BY <2>1, <2>2
<1>9. SettlingShape'
  BY <1>1, <1>2, <1>7, <1>8 DEF SettlingShape
<1> HIDE DEF R
<1>10. ASSUME NEW x \in Runs PROVE RunTied(x)'
  <2>1. RunTied(x) /\ Owns(x)' = Owns(x)
    BY <1>1, <1>2, OwnerStays
  <2>2. CASE x # r
    <3>1. /\ Reported(x)' = Reported(x) /\ pending'[x] = pending[x] /\ status'[x] = status[x]
          /\ waiting'[x] = waiting[x]
      BY <1>7, <1>8, <2>2
    <3> QED BY <1>1, <2>1, <3>1 DEF RunTied
  <2>3. CASE x = r
    <3>1. waiting'[r] # 0 => waiting'[r] = 1 /\ settled'[r] = <<status'[r]>> /\ ~Reported(r)'
      <4>1. CASE waiting' = waiting
        BY <1>5, <4>1
      <4>2. CASE r \in open /\ waiting' = [waiting EXCEPT ![r] = @ + 1] /\ jobReports' = jobReports
        <5>1. waiting'[r] = 1
          BY <1>2, <1>5, <4>2
        <5>2. settled'[r] = <<status'[r]>>
          BY <1>1, <1>5, <1>7, <4>2
        <5>3. Reported(r)' = Reported(r)
          BY <4>2 DEF Reported
        <5> QED BY <1>5, <5>1, <5>2, <5>3
      <4> QED BY <1>1, <4>1, <4>2
    <3>2. /\ firstSignal'[r] = firstSignal[r] /\ settled'[r] = settled[r] /\ running' = running
          /\ Owns(r)' = Owns(r) /\ RunTied(r)
      BY <1>1, <2>1, <2>3
    <3> QED BY <1>7, <2>3, <3>1, <3>2 DEF RunTied
  <2> QED BY <2>2, <2>3
<1> QED BY <1>8, <1>9, <1>10

LEMMA TiesWaited ==
    ASSUME JobsInv, NEW r \in Runs, jobWaitOver(r)
    PROVE  SettlingShape' /\ (\A x \in Runs : RunTied(x)') /\ ReportsTied'
<1> DEFINE R == [run : Runs, id : Ids \cup {"own"}, status : Statuses \cup {"none"}]
<1>1. /\ waiting[r] > 0 /\ waiting' = [waiting EXCEPT ![r] = @ - 1]
      /\ UNCHANGED <<job, running, settled, firstSignal, pending, status>>
      /\ jobReports' = jobReports \o Report(r)
  BY DEF jobWaitOver
<1>2. /\ settled \in [Runs -> Once] /\ pending \in [Runs -> Once] /\ firstSignal \in [Runs -> Once]
      /\ waiting \in [Runs -> Nat] /\ status \in [Runs -> Statuses \cup {"none"}]
      /\ RunTied(r) /\ (\A x \in Runs : RunTied(x)) /\ jobReports \in Seq(R) /\ ReportsTied
  BY DEF JobsInv, SettlingShape
<1>3. waiting[r] = 1 /\ settled[r] = <<status[r]>> /\ ~Reported(r)
  BY <1>1, <1>2 DEF RunTied
<1>4. pending[r] = <<>>
  BY <1>2, <1>3 DEF RunTied
<1>5. /\ waiting' \in [Runs -> Nat] /\ waiting'[r] = 0
      /\ (\A x \in Runs : x # r => waiting'[x] = waiting[x])
  BY <1>1, <1>2, <1>3
<1>6. jobReports' = jobReports \/ jobReports' = jobReports \o <<[run |-> r, id |-> ctx[r].id, status |-> status'[r]]>>
  <2>1. jobReports \o <<>> = jobReports
    BY <1>2
  <2> QED BY <1>1, <2>1 DEF Report
<1>7. ReportAdded(r)
  BY <1>1, <1>6 DEF ReportAdded
<1>8. settled[r] = <<status'[r]>> /\ status'[r] \in Statuses \cup {"none"}
  BY <1>1, <1>2, <1>3
<1>9. /\ jobReports' \in Seq(R) /\ ReportsTied' /\ \A x \in Runs : x # r => Reported(x)' = Reported(x)
  BY <1>3, <1>7, <1>8, ReportsGrow
<1>10. SettlingShape'
  BY <1>1, <1>2, <1>5, <1>9 DEF SettlingShape
<1> HIDE DEF R
<1>11. ASSUME NEW x \in Runs PROVE RunTied(x)'
  <2>1. RunTied(x) /\ Owns(x)' = Owns(x)
    BY <1>1, <1>2, OwnerStays
  <2>2. CASE x # r
    <3>1. Reported(x)' = Reported(x) /\ waiting'[x] = waiting[x]
      BY <1>5, <1>9, <2>2
    <3> QED BY <1>1, <2>1, <3>1 DEF RunTied
  <2>3. CASE x = r
    BY <1>1, <1>4, <1>5, <2>1, <2>3 DEF RunTied
  <2> QED BY <2>2, <2>3
<1> QED BY <1>9, <1>10, <1>11

LEMMA JobsInvKept ==
    ASSUME JobsInv, [JobsNext]_jobVars
    PROVE  JobsInv'
<1>1. JobsShape'
  BY JobsShapeKept DEF JobsInv
<1>2. CASE agentBuilt
  <2>1. UNCHANGED <<job, settled, pending, waiting, status, jobReports, firstSignal, running>>
    BY <1>2 DEF agentBuilt, runVars
  <2> QED BY <1>1, <2>1, TiesLeft DEF JobsInv
<1>3. ASSUME NEW e \in Enqueued, enqueue(e) \/ instrumentHandler(e) PROVE JobsInv'
  <2>1. UNCHANGED <<settled, pending, waiting, status, jobReports, firstSignal, running>> /\ job = NoJob
    BY <1>3 DEF enqueue, instrumentHandler, runVars
  <2>2. running = {}
    BY <2>1 DEF JobsInv, JobsShape
  <2> QED BY <1>1, <2>1, <2>2, TiesLeft DEF JobsInv
<1>4. ASSUME NEW r \in Runs, NEW b \in BOOLEAN, run(r) \/ recordsSpan(r, b) PROVE JobsInv'
  <2>1. UNCHANGED <<job, settled, pending, waiting, status, jobReports, firstSignal>>
        /\ running \subseteq running'
    BY <1>4 DEF run, recordsSpan
  <2> QED BY <1>1, <2>1, TiesLeft DEF JobsInv
<1>5. ASSUME NEW r \in Runs, NEW b \in BOOLEAN, handlerReturns(r, b) PROVE JobsInv'
  <2>1. CASE b \/ job.kind = "sync"
    <3>1. SignalsIn(r, "completed")
      BY <1>5, <2>1 DEF handlerReturns, SignalsIn
    <3> QED BY <1>1, <3>1, TiesSignalled DEF JobsInv, Statuses
  <2>2. CASE ~(b \/ job.kind = "sync")
    <3>1. UNCHANGED <<job, settled, pending, waiting, status, jobReports, firstSignal, running>>
      BY <1>5, <2>2 DEF handlerReturns
    <3> QED BY <1>1, <3>1, TiesLeft DEF JobsInv
  <2> QED BY <2>1, <2>2
<1>6. ASSUME NEW r \in Runs, handlerFails(r) PROVE JobsInv'
  <2>1. SignalsIn(r, "failed")
    BY <1>6 DEF handlerFails, SignalsIn
  <2> QED BY <1>1, <2>1, TiesSignalled DEF JobsInv, Statuses
<1>7. ASSUME NEW r \in Runs, NEW b \in BOOLEAN, callsBack(r, b) PROVE JobsInv'
  <2>1. SignalsIn(r, IF b THEN "failed" ELSE "completed")
    BY <1>7 DEF callsBack, SignalsIn
  <2>2. (IF b THEN "failed" ELSE "completed") \in Statuses
    BY DEF Statuses
  <2> QED BY <1>1, <2>1, <2>2, TiesSignalled DEF JobsInv
<1>8. ASSUME NEW r \in Runs, jobCompletes(r) \/ jobWaitOver(r) PROVE JobsInv'
  BY <1>1, <1>8, TiesCompleted, TiesWaited DEF JobsInv
<1>9. CASE UNCHANGED jobVars
  <2>1. UNCHANGED <<job, settled, pending, waiting, status, jobReports, firstSignal, running>>
    BY <1>9 DEF jobVars
  <2> QED BY <1>1, <2>1, TiesLeft DEF JobsInv
<1> QED BY <1>2, <1>3, <1>4, <1>5, <1>6, <1>7, <1>8, <1>9 DEF JobsNext

LEMMA RunsTold == JobsInv => RunsReportedAsTheyWere
<1> SUFFICES ASSUME JobsInv PROVE RunsReportedAsTheyWere
  OBVIOUS
<1>1. JobsTypeOK
  <2>1. /\ agents \in 0..MaxAgents /\ open \subseteq running /\ returned \subseteq running
        /\ running \subseteq Runs /\ dones \in [Runs -> 0..MaxDone] /\ spans \in [Runs -> SUBSET Runs]
    BY DEF JobsInv, JobsShape
  <2>2. \A r \in Runs : dones[r] \in 0..MaxDone /\ spans[r] \subseteq Runs
    BY <2>1
  <2> QED BY <2>1, <2>2 DEF JobsTypeOK
<1>2. WrappedOnce
  <2> SUFFICES ASSUME NEW p \in Patches PROVE Len(patched[p]) <= 1
    BY DEF WrappedOnce
  <2>1. patched[p] = <<>> \/ \E a \in 0..MaxAgents : patched[p] = <<a>>
    BY DEF JobsInv, JobsShape
  <2>2. CASE patched[p] = <<>>
    BY <2>2
  <2>3. ASSUME NEW a \in 0..MaxAgents, patched[p] = <<a>> PROVE Len(patched[p]) <= 1
    <3>1. Len(<<a>>) = 1
      OBVIOUS
    <3> QED BY <2>3, <3>1
  <2> QED BY <2>1, <2>2, <2>3
<1>3. ReportedAsItSettled
  <2>1. ReportsTied /\ \A r \in Runs : RunTied(r)
    BY DEF JobsInv
  <2>2. \A i \in DOMAIN jobReports : jobReports[i].run \in Runs
    BY ReportsAreRuns DEF JobsInv
  <2>3. ASSUME NEW i \in DOMAIN jobReports
        PROVE  firstSignal[jobReports[i].run] = <<jobReports[i].status>>
    <3>1. settled[jobReports[i].run] = <<jobReports[i].status>> /\ RunTied(jobReports[i].run)
      BY <2>1, <2>2 DEF ReportsTied
    <3>2. <<jobReports[i].status>> # <<>>
      OBVIOUS
    <3> QED BY <3>1, <3>2 DEF RunTied
  <2> QED BY <2>1, <2>3 DEF ReportedAsItSettled, ReportsTied
<1>4. \A r \in running : r \in Runs /\ ctx[r] = CtxOf(r) /\ job \in JobShapes /\ StampIsDue(job)
  BY DEF JobsInv, JobsShape
<1>5. SpansInTheirRun
  <2>1. \A r \in Runs : spans[r] \subseteq {r}
    BY DEF JobsInv, JobsShape
  <2>2. \A r \in running : Owns(r) /\ (job.hasId \/ job.layers = 1) => ctx[r].key = registryKey(r)
    BY <1>4, StoreOfARun DEF registryKey
  <2> QED BY <2>1, <2>2 DEF SpansInTheirRun
<1>6. ReportsUnderItsEnqueuer
  <2> SUFFICES ASSUME NEW r \in running, ctx[r].id = GoodId
               PROVE  (job.ctx = GoodId /\ job.opts = "plain") \/ job.opts = "stamped"
    BY DEF ReportsUnderItsEnqueuer
  <2>1. job.stamp = GoodId /\ StampIsDue(job)
    BY <1>4, StoreOfARun
  <2> QED BY <2>1 DEF StampIsDue
<1> QED BY <1>1, <1>2, <1>3, <1>5, <1>6 DEF RunsReportedAsTheyWere

\* Whatever agents and layers instrument a job, however often it is run, calls back
\* or fails after it did: a run is reported once, as it first settled, with its own
\* spans, under the operation that enqueued it (run, settle, stampTraceId).
THEOREM RunsAreReported == JobsSpec => []RunsReportedAsTheyWere
<1>1. JobsInit => JobsInv
  BY JobsInvStarts
<1>2. JobsInv /\ [JobsNext]_jobVars => JobsInv'
  BY JobsInvKept
<1>3. JobsInv => RunsReportedAsTheyWere
  BY RunsTold
<1> QED BY <1>1, <1>2, <1>3, PTL DEF JobsSpec

-----------------------------------------------------------------------------
(***************************************************************************)
(* Operations                                                              *)
(***************************************************************************)

RecordedAt(o) == Recorded(plan[o])
Phases == {"none", "deferred", "running", "answered", "aborted"}
Stores == [id : Executions \cup CorrelationIds \cup {None}, key : Executions \cup {None}]
Begun(o) == phase[o] \notin {"none", "deferred"}

OpsShape ==
  /\ plan \in [Executions -> Plans \cup {NoPlan}] /\ phase \in [Executions -> Phases]
  /\ store \in [Executions -> Stores]
  /\ completing \in [Executions -> {"none", "microtask", "timer", "waiting"}]
  /\ snap \in [Executions -> [labels : SUBSET Executions, spans : SUBSET Executions,
                              open : SUBSET Executions, kept : BOOLEAN]]
  /\ reports \in Seq(Executions) /\ evicting \subseteq Executions /\ thrown \subseteq Executions

\* An execution is found under itself, or, as a GraphQL operation that was given an
\* id, under that - and then it is recorded.
StoreOf(o) ==
  /\ phase[o] = "none" => store[o] = NoStore /\ plan[o] = NoPlan
  /\ phase[o] = "deferred" => store[o] # NoStore /\ KeyOf(o) = o
  /\ store[o] # NoStore =>
       \/ KeyOf(o) = o
       \/ plan[o].how = "graphql" /\ KeyOf(o) \in CorrelationIds /\ store[o].id = KeyOf(o)
  /\ plan[o].how = "graphql" /\ store[o] # NoStore => RecordedAt(o)
  /\ completing[o] # "none" => phase[o] = "answered"

\* What a key leads to was begun, is recorded, and is found under that key.
KeyHeld(k) ==
  /\ registered[k] \in Executions /\ Begun(registered[k]) /\ RecordedAt(registered[k])
  /\ store[registered[k]] # NoStore /\ KeyOf(registered[k]) = k

\* Who left its mark in a snapshot, and may have.
Marks(o, l) ==
  /\ phase[l] # "none" /\ RecordedAt(l)
  /\ l = o \/ ShareATrace(o, l)
SnapOf(o) ==
  /\ snap[o].open \subseteq snap[o].spans
  /\ \A l \in snap[o].labels \cup snap[o].spans : Marks(o, l)

\* What was reported has left the registry, for good.
ReportOf(i) ==
  /\ Begun(reports[i])
  /\ phase[reports[i]] = "answered" \/ plan[reports[i]].how = "graphql"
  /\ \A k \in DOMAIN registered : registered[k] # reports[i]
ReportsDiffer == \A i, j \in DOMAIN reports : reports[i] = reports[j] => i = j

ThrowerKnown(o) == phase[o] # "none" /\ (store[o] # NoStore => RecordedAt(o))

OpsInv ==
  /\ OpsShape /\ ReportsDiffer
  /\ \A o \in Executions : StoreOf(o) /\ SnapOf(o)
  /\ \A k \in DOMAIN registered : KeyHeld(k)
  /\ \A i \in DOMAIN reports : ReportOf(i)
  /\ \A o \in thrown : ThrowerKnown(o)

LEMMA OpsInvStarts == OperationsInit => OpsInv
<1> SUFFICES ASSUME OperationsInit PROVE OpsInv
  OBVIOUS
<1>1. /\ plan = [o \in Executions |-> NoPlan] /\ phase = [o \in Executions |-> "none"]
      /\ store = [o \in Executions |-> NoStore] /\ registered = <<>>
      /\ snap = [o \in Executions |-> NoSnap] /\ completing = [o \in Executions |-> "none"]
      /\ evicting = {} /\ reports = <<>> /\ thrown = {}
  BY DEF OperationsInit
<1>2. NoStore \in Stores /\ NoSnap \in [labels : SUBSET Executions, spans : SUBSET Executions,
                                        open : SUBSET Executions, kept : BOOLEAN]
  BY DEF NoStore, Stores, NoSnap
<1>3. OpsShape
  BY <1>1, <1>2 DEF OpsShape, Phases
<1>4. ASSUME NEW o \in Executions PROVE StoreOf(o) /\ SnapOf(o)
  BY <1>1 DEF StoreOf, SnapOf, NoSnap
<1>5. ReportsDiffer /\ DOMAIN registered = {} /\ DOMAIN reports = {}
  BY <1>1 DEF ReportsDiffer
<1> QED BY <1>1, <1>3, <1>4, <1>5 DEF OpsInv

\* What is known of an execution stays while its plan and its store do.
LEMMA RecordedStays ==
    ASSUME settings' = settings, NEW o \in Executions, plan'[o] = plan[o]
    PROVE  RecordedAt(o)' = RecordedAt(o)
BY DEF RecordedAt, Recorded, shouldIgnoreRequest, shouldIgnoreSafely, isUntracedPreflight,
       isPreflight, shouldCapture

LEMMA KeyStays ==
    ASSUME NEW o \in Executions, store'[o] = store[o]
    PROVE  KeyOf(o)' = KeyOf(o)
BY DEF KeyOf, lookupKey

\* Whoever finds something registered under its key finds its own trace, or that of
\* a GraphQL operation it was made to share with - and is recorded.
LEMMA KeyIsOwn ==
    ASSUME OpsInv, NEW o \in Executions, KeyOf(o) \in DOMAIN registered
    PROVE  registered[KeyOf(o)] \in Executions /\ Marks(registered[KeyOf(o)], o)
<1> DEFINE k == KeyOf(o)
           by == registered[k]
<1>1. /\ StoreOf(o) /\ KeyHeld(k)
  BY DEF OpsInv
<1>2. by \in Executions /\ RecordedAt(by) /\ store[by] # NoStore /\ KeyOf(by) = k /\ StoreOf(by)
  BY <1>1 DEF KeyHeld, OpsInv
<1>3. k \in Executions \cup CorrelationIds
  BY <1>2 DEF StoreOf
<1>4. store[o] # NoStore
  <2> SUFFICES ASSUME store[o] = NoStore PROVE FALSE
    OBVIOUS
  <2>1. k = None
    BY DEF KeyOf, lookupKey, NoStore
  <2> QED BY <1>3, <2>1, OperationsAssumption
<1>5. phase[o] # "none"
  BY <1>1, <1>4 DEF StoreOf
<1> HIDE DEF k
<1>6. CASE k = o
  <2>1. k \notin CorrelationIds
    BY <1>6, OperationsAssumption
  <2>2. by = o
    BY <1>2, <1>6, <2>1 DEF StoreOf
  <2> QED BY <1>2, <1>5, <2>2 DEF Marks, k
<1>7. CASE k # o
  <2>1. plan[o].how = "graphql" /\ k \in CorrelationIds /\ store[o].id = k /\ RecordedAt(o)
    BY <1>1, <1>4, <1>7 DEF StoreOf, k
  <2>2. by # k
    BY <1>2, <2>1, OperationsAssumption
  <2>3. plan[by].how = "graphql" /\ store[by].id = k
    BY <1>2, <2>2 DEF StoreOf
  <2> QED BY <1>2, <1>5, <2>1, <2>3 DEF Marks, ShareATrace, k
<1> QED BY <1>6, <1>7

LEMMA FreshKey ==
    ASSUME OpsInv, NEW o \in Executions, ~Begun(o)
    PROVE  o \notin DOMAIN registered
<1> SUFFICES ASSUME o \in DOMAIN registered PROVE FALSE
  OBVIOUS
<1> DEFINE by == registered[o]
<1>1. by \in Executions /\ Begun(by) /\ store[by] # NoStore /\ KeyOf(by) = o /\ StoreOf(by)
  BY DEF OpsInv, KeyHeld
<1>2. o \notin CorrelationIds
  BY OperationsAssumption
<1>3. by = o
  BY <1>1, <1>2 DEF StoreOf
<1> QED BY <1>1, <1>3

\* A step of executions that have arrived: phases go on, keys are given up or, by
\* one that was put off, claimed, marks are those of who may leave them, and what is
\* reported leaves the registry.
Claims(o) == phase[o] = "deferred" /\ phase'[o] = "running" /\ RecordedAt(o)
Moves ==
  /\ UNCHANGED <<settings, plan, store>>
  /\ phase' \in [Executions -> Phases]
  /\ \A l \in Executions : \/ phase'[l] = phase[l]
                           \/ phase[l] = "running" /\ phase'[l] \in {"answered", "aborted"}
                           \/ phase[l] = "deferred" /\ phase'[l] = "running"
  /\ \A k \in DOMAIN registered' :
       \/ k \in DOMAIN registered /\ registered'[k] = registered[k]
       \/ \E o \in Executions : Claims(o) /\ registered'[k] = o /\ KeyOf(o) = k
  /\ completing' \in [Executions -> {"none", "microtask", "timer", "waiting"}]
  /\ \A o \in Executions : completing'[o] # "none" => phase'[o] = "answered"
  /\ evicting' \subseteq Executions
  /\ thrown' \subseteq Executions /\ \A o \in thrown' : ThrowerKnown(o)
  /\ snap' \in [Executions -> [labels : SUBSET Executions, spans : SUBSET Executions,
                               open : SUBSET Executions, kept : BOOLEAN]]
  /\ \A o \in Executions : /\ snap'[o].open \subseteq snap'[o].spans
                           /\ \A l \in snap'[o].labels \cup snap'[o].spans : Marks(o, l)
  /\ \/ reports' = reports
     \/ \E k \in DOMAIN registered \ DOMAIN registered' :
          /\ reports' = Append(reports, registered[k])
          /\ phase[registered[k]] = "answered" \/ plan[registered[k]].how = "graphql"

LEMMA MovesKeep ==
    ASSUME OpsInv, Moves
    PROVE  OpsInv'
<1>1. /\ settings' = settings /\ plan' = plan /\ store' = store /\ DOMAIN phase = Executions
      /\ phase \in [Executions -> Phases]
  BY DEF Moves, OpsInv, OpsShape
<1>2. ASSUME NEW o \in Executions
      PROVE  RecordedAt(o)' = RecordedAt(o) /\ KeyOf(o)' = KeyOf(o)
  BY <1>1, RecordedStays, KeyStays
<1>3. ASSUME NEW o \in Executions
      PROVE  /\ phase'[o] = "none" => phase[o] = "none"
             /\ phase'[o] = "deferred" => phase[o] = "deferred"
             /\ phase[o] = "answered" => phase'[o] = "answered"
             /\ Begun(o) => Begun(o)'
             /\ phase[o] # "none" => phase'[o] # "none"
  BY DEF Moves, Begun
<1>4. ASSUME NEW o \in Executions PROVE StoreOf(o)'
  <2>1. StoreOf(o) /\ (completing'[o] # "none" => phase'[o] = "answered")
    BY DEF OpsInv, Moves
  <2> QED BY <1>1, <1>2, <1>3, <2>1 DEF StoreOf
<1>5. ASSUME NEW o \in Executions, NEW l \in Executions, Marks(o, l) PROVE Marks(o, l)'
  BY <1>1, <1>2, <1>3, <1>5 DEF Marks, ShareATrace
<1>6. ASSUME NEW o \in Executions PROVE SnapOf(o)'
  <2>1. /\ snap'[o].open \subseteq snap'[o].spans
        /\ \A l \in snap'[o].labels \cup snap'[o].spans : l \in Executions /\ Marks(o, l)
    BY DEF Moves
  <2> QED BY <1>5, <2>1 DEF SnapOf
<1>7. ASSUME NEW k \in DOMAIN registered' PROVE KeyHeld(k)'
  <2>1. CASE k \in DOMAIN registered /\ registered'[k] = registered[k]
    <3>1. KeyHeld(k)
      BY <2>1 DEF OpsInv
    <3> QED BY <1>1, <1>2, <1>3, <2>1, <3>1 DEF KeyHeld
  <2>2. ASSUME NEW o \in Executions, Claims(o), registered'[k] = o, KeyOf(o) = k PROVE KeyHeld(k)'
    <3>1. StoreOf(o)
      BY DEF OpsInv
    <3> QED BY <1>1, <1>2, <2>2, <3>1 DEF KeyHeld, StoreOf, Claims, Begun
  <2> QED BY <2>1, <2>2 DEF Moves
<1>8. ASSUME NEW o \in thrown' PROVE ThrowerKnown(o)'
  <2>1. o \in Executions /\ ThrowerKnown(o)
    BY DEF Moves
  <2> QED BY <1>1, <1>2, <1>3, <2>1 DEF ThrowerKnown
<1>9. reports \in Seq(Executions) /\ ReportsDiffer /\ \A i \in DOMAIN reports : ReportOf(i)
  BY DEF OpsInv, OpsShape
<1>10. ASSUME NEW x \in Executions, Begun(x),
              \A k \in DOMAIN registered : k \in DOMAIN registered' => registered[k] # x
       PROVE  \A k \in DOMAIN registered' : registered'[k] # x
  <2> SUFFICES ASSUME NEW k \in DOMAIN registered', registered'[k] = x PROVE FALSE
    OBVIOUS
  <2>1. ~Claims(x)
    BY <1>10 DEF Begun, Claims
  <2> QED BY <1>10, <2>1 DEF Moves
<1>11. reports' \in Seq(Executions) /\ ReportsDiffer' /\ \A i \in DOMAIN reports' : ReportOf(i)'
  <2>1. ASSUME NEW i \in DOMAIN reports, reports'[i] = reports[i] PROVE ReportOf(i)'
    <3>1. ReportOf(i) /\ reports[i] \in Executions
      BY <1>9
    <3>2. \A k \in DOMAIN registered' : registered'[k] # reports[i]
      BY <1>10, <3>1 DEF ReportOf
    <3> QED BY <1>1, <1>3, <2>1, <3>1, <3>2 DEF ReportOf
  <2>2. CASE reports' = reports
    BY <1>9, <2>1, <2>2 DEF ReportsDiffer
  <2>3. ASSUME NEW k \in DOMAIN registered, k \notin DOMAIN registered',
               reports' = Append(reports, registered[k]),
               phase[registered[k]] = "answered" \/ plan[registered[k]].how = "graphql"
        PROVE  reports' \in Seq(Executions) /\ ReportsDiffer' /\ \A i \in DOMAIN reports' : ReportOf(i)'
    <3>0. PICK n \in Nat : n = Len(reports)
      BY <1>9
    <3>1. PICK by \in Executions : by = registered[k] /\ Begun(by) /\ KeyOf(by) = k
      BY DEF OpsInv, KeyHeld
    <3>2. /\ DOMAIN reports = 1..n /\ n \in Nat /\ reports' = Append(reports, by)
      BY <1>9, <2>3, <3>0, <3>1
    <3>3. /\ reports' \in Seq(Executions) /\ DOMAIN reports' = 1..(n + 1)
          /\ (\A i \in 1..n : reports'[i] = reports[i]) /\ reports'[n + 1] = by
      BY <1>9, <3>0, <3>1, <3>2
    <3>4. \A i \in 1..(n + 1) : i \in 1..n \/ i = n + 1
      BY <3>2
    <3>5. \A i \in 1..n : reports[i] # by
      BY <1>9, <2>3, <3>1, <3>2 DEF ReportOf
    <3>6. ReportsDiffer'
      BY <1>9, <3>2, <3>3, <3>4, <3>5 DEF ReportsDiffer
    <3>7. ReportOf(n + 1)'
      <4>1. ASSUME NEW j \in DOMAIN registered, j \in DOMAIN registered' PROVE registered[j] # by
        <5>1. KeyHeld(j)
          BY DEF OpsInv
        <5> QED BY <2>3, <3>1, <4>1, <5>1 DEF KeyHeld
      <4>2. \A j \in DOMAIN registered' : registered'[j] # by
        BY <1>10, <3>1, <4>1
      <4>3. phase'[by] = "answered" \/ plan'[by].how = "graphql"
        BY <1>1, <1>3, <2>3, <3>1
      <4>4. Begun(by)' /\ by \in Executions
        BY <1>3, <3>1
      <4> QED BY <3>3, <4>2, <4>3, <4>4 DEF ReportOf, Begun
    <3> QED BY <2>1, <3>2, <3>3, <3>4, <3>6, <3>7
  <2> QED BY <2>2, <2>3 DEF Moves
<1>12. OpsShape'
  BY <1>1, <1>11 DEF OpsInv, OpsShape, Moves
<1> QED BY <1>4, <1>6, <1>7, <1>8, <1>11, <1>12 DEF OpsInv

Snaps == [labels : SUBSET Executions, spans : SUBSET Executions,
          open : SUBSET Executions, kept : BOOLEAN]

\* An execution arrives: its plan and its store, its key if it is recorded, and the
\* marks its callbacks left under that key.
ArrivesAs(o, p, st, ph) ==
  /\ phase[o] = "none" /\ ph \in {"running", "deferred"} /\ st \in Stores
  /\ plan' = [plan EXCEPT ![o] = p] /\ store' = [store EXCEPT ![o] = st]
  /\ phase' = [phase EXCEPT ![o] = ph]
  /\ UNCHANGED <<settings, doneVars>>
  /\ st # NoStore => \/ lookupKey(st) = o
                     \/ p.how = "graphql" /\ st.id \in CorrelationIds /\ lookupKey(st) = st.id
  /\ p.how = "graphql" /\ st # NoStore => Recorded(p)
  /\ ph = "deferred" => st # NoStore /\ lookupKey(st) = o
  /\ \/ registered' = registered
     \/ /\ registered' = Bound(registered, lookupKey(st), o)
        /\ ph = "running" /\ st # NoStore /\ Recorded(p)
  /\ snap' \in [Executions -> Snaps]
  /\ \A x \in Executions :
       /\ snap'[x].open \subseteq snap'[x].spans
       /\ \A l \in snap'[x].labels \cup snap'[x].spans :
            \/ Marks(x, l)
            \/ /\ l = o /\ Recorded(p)
               /\ x = o \/ (p.how = "graphql" /\ plan[x].how = "graphql" /\ store[x].id = st.id)

LEMMA ArrivalKeeps ==
    ASSUME OpsInv, NEW o \in Executions, NEW p \in Plans, NEW st, NEW ph, ArrivesAs(o, p, st, ph)
    PROVE  OpsInv'
<1>1. /\ phase[o] = "none" /\ ph \in {"running", "deferred"} /\ st \in Stores
      /\ plan' = [plan EXCEPT ![o] = p] /\ store' = [store EXCEPT ![o] = st]
      /\ phase' = [phase EXCEPT ![o] = ph] /\ settings' = settings
      /\ completing' = completing /\ evicting' = evicting /\ reports' = reports /\ thrown' = thrown
  BY DEF ArrivesAs, doneVars
<1>2. /\ plan \in [Executions -> Plans \cup {NoPlan}] /\ phase \in [Executions -> Phases]
      /\ store \in [Executions -> Stores] /\ reports \in Seq(Executions) /\ thrown \subseteq Executions
  BY DEF OpsInv, OpsShape
<1>3. plan'[o] = p /\ store'[o] = st /\ phase'[o] = ph /\ phase'[o] # "none"
  BY <1>1, <1>2
<1>4. ASSUME NEW x \in Executions, x # o
      PROVE  /\ plan'[x] = plan[x] /\ store'[x] = store[x] /\ phase'[x] = phase[x]
             /\ RecordedAt(x)' = RecordedAt(x) /\ KeyOf(x)' = KeyOf(x)
  <2>1. plan'[x] = plan[x] /\ store'[x] = store[x] /\ phase'[x] = phase[x]
    BY <1>1, <1>2, <1>4
  <2> QED BY <1>1, <2>1, RecordedStays, KeyStays
<1>5. RecordedAt(o)' = Recorded(p) /\ KeyOf(o)' = lookupKey(st)
  BY <1>1, <1>3 DEF RecordedAt, Recorded, shouldIgnoreRequest, shouldIgnoreSafely,
                    isUntracedPreflight, isPreflight, shouldCapture, KeyOf, lookupKey
<1>6. StoreOf(o) /\ \A x \in Executions : StoreOf(x)
  BY DEF OpsInv
<1>7. ASSUME NEW x \in Executions PROVE StoreOf(x)'
  <2>1. CASE x = o
    <3>1. completing'[o] = "none"
      BY <1>1, <1>6 DEF StoreOf
    <3>2. /\ st # NoStore => \/ lookupKey(st) = o
                             \/ p.how = "graphql" /\ st.id \in CorrelationIds /\ lookupKey(st) = st.id
          /\ p.how = "graphql" /\ st # NoStore => Recorded(p)
          /\ ph = "deferred" => st # NoStore /\ lookupKey(st) = o
      BY DEF ArrivesAs
    <3> QED BY <1>3, <1>5, <2>1, <3>1, <3>2 DEF StoreOf
  <2>2. CASE x # o
    BY <1>1, <1>4, <1>6, <2>2 DEF StoreOf
  <2> QED BY <2>1, <2>2
<1>8. ASSUME NEW x \in Executions, NEW l \in Executions, Marks(x, l) PROVE Marks(x, l)'
  <2>1. l # o
    BY <1>1, <1>8 DEF Marks
  <2>2. x # o
    BY <1>6, <1>1, <1>8, <2>1 DEF Marks, ShareATrace, StoreOf, NoPlan
  <2> QED BY <1>4, <1>8, <2>1, <2>2 DEF Marks, ShareATrace
<1>9. ASSUME NEW x \in Executions PROVE SnapOf(x)'
  <2>1. snap'[x].open \subseteq snap'[x].spans
    BY DEF ArrivesAs
  <2>2. ASSUME NEW l \in snap'[x].labels \cup snap'[x].spans PROVE Marks(x, l)'
    <3>1. l \in Executions
      BY DEF ArrivesAs, Snaps
    <3>2. CASE Marks(x, l)
      BY <1>8, <3>1, <3>2
    <3>3. CASE /\ l = o /\ Recorded(p)
               /\ x = o \/ (p.how = "graphql" /\ plan[x].how = "graphql" /\ store[x].id = st.id)
      <4>1. RecordedAt(l)' /\ phase'[l] # "none"
        BY <1>3, <1>5, <3>3
      <4>2. x = o \/ (x # o /\ plan'[x].how = "graphql" /\ plan'[o].how = "graphql"
                       /\ store'[x].id = store'[o].id)
        BY <1>3, <1>4, <3>3
      <4> QED BY <3>3, <4>1, <4>2 DEF Marks, ShareATrace
    <3> QED BY <3>2, <3>3 DEF ArrivesAs
  <2> QED BY <2>1, <2>2 DEF SnapOf
<1>10. ASSUME NEW k \in DOMAIN registered'
       PROVE  \/ k \in DOMAIN registered /\ registered'[k] = registered[k]
              \/ registered'[k] = o /\ lookupKey(st) = k /\ ph = "running" /\ st # NoStore /\ Recorded(p)
  <2>1. CASE registered' = registered
    BY <2>1
  <2>2. CASE /\ registered' = Bound(registered, lookupKey(st), o)
             /\ ph = "running" /\ st # NoStore /\ Recorded(p)
    <3>1. k \in DOMAIN registered \cup {lookupKey(st)}
          /\ registered'[k] = IF k = lookupKey(st) THEN o ELSE registered[k]
      BY <1>10, <2>2 DEF Bound
    <3> QED BY <2>2, <3>1
  <2> QED BY <2>1, <2>2 DEF ArrivesAs
<1>11. ASSUME NEW k \in DOMAIN registered' PROVE KeyHeld(k)'
  <2>1. CASE k \in DOMAIN registered /\ registered'[k] = registered[k]
    <3>1. KeyHeld(k)
      BY <2>1 DEF OpsInv
    <3>2. registered[k] # o /\ registered[k] \in Executions
      BY <1>1, <3>1 DEF KeyHeld, Begun
    <3> QED BY <1>4, <2>1, <3>1, <3>2 DEF KeyHeld, Begun
  <2>2. CASE registered'[k] = o /\ lookupKey(st) = k /\ ph = "running" /\ st # NoStore /\ Recorded(p)
    BY <1>3, <1>5, <2>2 DEF KeyHeld, Begun
  <2> QED BY <1>10, <2>1, <2>2
<1>12. ASSUME NEW x \in thrown' PROVE ThrowerKnown(x)'
  <2>1. ThrowerKnown(x) /\ x \in Executions
    BY <1>1, <1>2, <1>12 DEF OpsInv
  <2> QED BY <1>1, <1>4, <2>1 DEF ThrowerKnown
<1>13. ASSUME NEW i \in DOMAIN reports' PROVE ReportOf(i)'
  <2>1. ReportOf(i) /\ reports[i] \in Executions /\ reports'[i] = reports[i]
    BY <1>1, <1>2, <1>13 DEF OpsInv
  <2>2. reports[i] # o
    BY <1>1, <2>1 DEF ReportOf, Begun
  <2>3. \A k \in DOMAIN registered' : registered'[k] # reports[i]
    BY <1>10, <2>1, <2>2 DEF ReportOf
  <2> QED BY <1>4, <2>1, <2>2, <2>3 DEF ReportOf, Begun
<1>14. ReportsDiffer'
  BY <1>1 DEF OpsInv, ReportsDiffer
<1>15. OpsShape'
  <2>1. plan' \in [Executions -> Plans \cup {NoPlan}] /\ store' \in [Executions -> Stores]
        /\ phase' \in [Executions -> Phases]
    BY <1>1, <1>2 DEF Phases
  <2>2. snap' \in [Executions -> Snaps]
    BY DEF ArrivesAs
  <2> QED BY <1>1, <2>1, <2>2 DEF OpsInv, OpsShape, Snaps
<1> QED BY <1>7, <1>9, <1>11, <1>12, <1>13, <1>14, <1>15 DEF OpsInv

\* Snapshots of which every mark is due.
WellMarked(sn) ==
  /\ sn \in [Executions -> Snaps]
  /\ \A x \in Executions : /\ sn[x].open \subseteq sn[x].spans
                           /\ \A l \in sn[x].labels \cup sn[x].spans : Marks(x, l)

LEMMA AsItWas ==
    ASSUME OpsInv
    PROVE  /\ phase \in [Executions -> Phases] /\ WellMarked(snap)
           /\ completing \in [Executions -> {"none", "microtask", "timer", "waiting"}]
           /\ \A o \in Executions : completing[o] # "none" => phase[o] = "answered"
           /\ evicting \subseteq Executions
           /\ thrown \subseteq Executions /\ \A o \in thrown : ThrowerKnown(o)
BY DEF OpsInv, OpsShape, WellMarked, Snaps, SnapOf, StoreOf

\* Moves, from what a step says about what it changes.
LEMMA MovesBy ==
    ASSUME OpsInv, UNCHANGED <<settings, plan, store>>,
           phase' \in [Executions -> Phases],
           \A l \in Executions : \/ phase'[l] = phase[l]
                                 \/ phase[l] = "running" /\ phase'[l] \in {"answered", "aborted"}
                                 \/ phase[l] = "deferred" /\ phase'[l] = "running",
           \A k \in DOMAIN registered' :
             \/ k \in DOMAIN registered /\ registered'[k] = registered[k]
             \/ \E o \in Executions : Claims(o) /\ registered'[k] = o /\ KeyOf(o) = k,
           completing' \in [Executions -> {"none", "microtask", "timer", "waiting"}],
           \A o \in Executions : completing'[o] # "none" => phase'[o] = "answered",
           evicting' \subseteq Executions,
           thrown' \subseteq Executions, \A o \in thrown' : ThrowerKnown(o),
           WellMarked(snap'),
           \/ reports' = reports
           \/ \E k \in DOMAIN registered \ DOMAIN registered' :
                /\ reports' = Append(reports, registered[k])
                /\ phase[registered[k]] = "answered" \/ plan[registered[k]].how = "graphql"
    PROVE  OpsInv'
<1>1. Moves
  BY DEF Moves, WellMarked, Snaps
<1> QED BY <1>1, MovesKeep

\* Labels and spans left under one's own key.
LEMMA LabelDue ==
    ASSUME OpsInv, NEW o \in Executions, NEW sn, WellMarked(sn), KeyOf(o) \in DOMAIN registered
    PROVE  WellMarked(Label(sn, KeyOf(o), o)) /\ phase[o] # "none" /\ RecordedAt(o)
<1>1. registered[KeyOf(o)] \in Executions /\ Marks(registered[KeyOf(o)], o)
  BY KeyIsOwn
<1>2. Label(sn, KeyOf(o), o) = [sn EXCEPT ![registered[KeyOf(o)]].labels = @ \cup {o}]
  BY DEF Label, Has
<1>3. WellMarked([sn EXCEPT ![registered[KeyOf(o)]].labels = @ \cup {o}])
  BY <1>1 DEF WellMarked, Snaps
<1> QED BY <1>1, <1>2, <1>3 DEF Marks

LEMMA OpenedSnap ==
    ASSUME NEW r \in Snaps, NEW o \in Executions
    PROVE  /\ Opened(r, o) \in Snaps /\ Opened(r, o).labels = r.labels
           /\ Opened(r, o).spans = r.spans \cup {o} /\ Opened(r, o).open = r.open \cup {o}
<1>1. /\ r = [labels |-> r.labels, spans |-> r.spans, open |-> r.open, kept |-> r.kept]
      /\ r.labels \in SUBSET Executions /\ r.spans \in SUBSET Executions
      /\ r.open \in SUBSET Executions /\ r.kept \in BOOLEAN
  BY DEF Snaps
<1>2. Opened(r, o) = [labels |-> r.labels, spans |-> r.spans \cup {o},
                      open |-> r.open \cup {o}, kept |-> r.kept]
  BY <1>1 DEF Opened
<1>3. r.spans \cup {o} \in SUBSET Executions /\ r.open \cup {o} \in SUBSET Executions
  BY <1>1
<1> QED BY <1>1, <1>2, <1>3 DEF Snaps

LEMMA OpenDue ==
    ASSUME OpsInv, NEW o \in Executions, NEW sn, WellMarked(sn), KeyOf(o) \in DOMAIN registered
    PROVE  WellMarked(Opens(sn, o))
<1>1. PICK by \in Executions : by = registered[KeyOf(o)] /\ Marks(by, o)
  BY KeyIsOwn
<1>2. sn \in [Executions -> Snaps] /\ sn[by] \in Snaps
  BY DEF WellMarked
<1>3. PICK s \in Snaps : /\ Opens(sn, o) = [sn EXCEPT ![by] = s]
                         /\ s.labels = sn[by].labels /\ s.spans = sn[by].spans \cup {o}
                         /\ s.open = sn[by].open \cup {o}
  <2>1. Opens(sn, o) = [sn EXCEPT ![by] = Opened(sn[by], o)]
    BY <1>1 DEF Opens
  <2> QED BY <1>2, <2>1, OpenedSnap
<1>4. [sn EXCEPT ![by] = s] \in [Executions -> Snaps]
  BY <1>2
<1>5. ASSUME NEW x \in Executions
      PROVE  /\ [sn EXCEPT ![by] = s][x].open \subseteq [sn EXCEPT ![by] = s][x].spans
             /\ \A l \in [sn EXCEPT ![by] = s][x].labels \cup [sn EXCEPT ![by] = s][x].spans : Marks(x, l)
  <2>1. /\ sn[x].open \subseteq sn[x].spans
        /\ \A l \in sn[x].labels \cup sn[x].spans : Marks(x, l)
    BY DEF WellMarked
  <2>2. CASE x = by
    BY <1>1, <1>2, <1>3, <2>1, <2>2
  <2>3. CASE x # by
    BY <1>2, <2>1, <2>3
  <2> QED BY <2>2, <2>3
<1> QED BY <1>3, <1>4, <1>5 DEF WellMarked

\* A trace is started over whatever the snapshot of the execution was.
LEMMA StartDue ==
    ASSUME NEW o \in Executions, NEW sn \in [Executions -> Snaps], NEW kept \in BOOLEAN,
           NEW spans_, spans_ = {} \/ spans_ = {o},
           NEW ss, ss = startTrace(sn, o, kept, spans_)
    PROVE  /\ ss \in [Executions -> Snaps] /\ ss[o].labels = {} /\ ss[o].spans = spans_
           /\ ss[o].open = spans_ /\ \A x \in Executions : x # o => ss[x] = sn[x]
BY DEF startTrace, NoSnap, Snaps

LEMMA ArrivalsMet ==
    ASSUME OpsInv, NEW o \in Executions, NEW p \in Plans
    PROVE  /\ StartTracing(o, p) /\ p.how \in {"http", "rpc", "ws"} => OpsInv'
           /\ startGrpcRequestTracing(o, p) => OpsInv'
           /\ runsUnhooked(o, p) => OpsInv'
<1>1. /\ NoStore \in Stores /\ lookupKey(NoStore) = None /\ o # None
      /\ p.generated \in CorrelationIds \cup {None} /\ p.preflight \in BOOLEAN
  BY OperationsAssumption DEF NoStore, Stores, lookupKey
<1>2. newStore(o, p) \in Stores /\ newStore(o, p) # NoStore /\ lookupKey(newStore(o, p)) = o
  BY <1>1 DEF newStore, generateTraceIdSafely, Stores, lookupKey, NoStore
<1>3. WellMarked(snap) /\ snap \in [Executions -> Snaps]
  BY AsItWas DEF WellMarked
<1>4. Arrives(o) => setAttributesSafely(snap, o, p, newStore(o, p)) = snap
  <2> SUFFICES ASSUME Arrives(o) PROVE setAttributesSafely(snap, o, p, newStore(o, p)) = snap
    OBVIOUS
  <2>1. o \notin DOMAIN registered
    BY FreshKey DEF Arrives, Begun
  <2> QED BY <1>2, <2>1 DEF setAttributesSafely, Label, Has
<1>5. ASSUME StartTracing(o, p), p.how \in {"http", "rpc", "ws"} PROVE OpsInv'
  <2> DEFINE st == newStore(o, p)
  <2>1. /\ phase[o] = "none" /\ plan' = [plan EXCEPT ![o] = p] /\ store' = [store EXCEPT ![o] = st]
        /\ phase' = [phase EXCEPT ![o] = "running"] /\ UNCHANGED <<settings, doneVars>>
        /\ registered' = IF Recorded(p) THEN Bound(registered, o, o) ELSE registered
        /\ snap' = IF Recorded(p) THEN startTrace(snap, o, isPreflight(p), {}) ELSE snap
    BY <1>4, <1>5 DEF StartTracing, Begin, Arrives
  <2> DEFINE ss == startTrace(snap, o, isPreflight(p), {})
  <2>2. isPreflight(p) \in BOOLEAN
    BY <1>1 DEF isPreflight
  <2>3. /\ ss \in [Executions -> Snaps] /\ ss[o].labels = {} /\ ss[o].spans = {}
        /\ ss[o].open = {} /\ \A x \in Executions : x # o => ss[x] = snap[x]
    BY <1>3, <2>2, StartDue
  <2> HIDE DEF ss, st
  <2>4. WellMarked(ss)
    BY <1>3, <2>3 DEF WellMarked
  <2>5. WellMarked(snap')
    BY <1>3, <2>1, <2>4 DEF ss
  <2>6. /\ st \in Stores /\ lookupKey(st) = o /\ st # NoStore
    BY <1>2 DEF st
  <2>7. ArrivesAs(o, p, st, "running")
    BY <1>5, <2>1, <2>5, <2>6 DEF ArrivesAs, WellMarked
  <2> QED BY <2>7, ArrivalKeeps
<1>6. ASSUME startGrpcRequestTracing(o, p) PROVE OpsInv'
  <2> DEFINE st == newStore(o, p)
  <2>1. /\ phase[o] = "none" /\ plan' = [plan EXCEPT ![o] = p] /\ store' = [store EXCEPT ![o] = st]
        /\ phase' = [phase EXCEPT ![o] = "deferred"] /\ UNCHANGED <<settings, doneVars>>
        /\ registered' = registered /\ p.how = "grpc" /\ snap' = snap
    BY <1>4, <1>6 DEF startGrpcRequestTracing, Arrives
  <2>2. /\ st \in Stores /\ lookupKey(st) = o /\ st # NoStore
    BY <1>2
  <2> HIDE DEF st
  <2>3. ArrivesAs(o, p, st, "deferred")
    BY <1>3, <2>1, <2>2 DEF ArrivesAs, WellMarked
  <2> QED BY <2>3, ArrivalKeeps
<1>7. ASSUME runsUnhooked(o, p) PROVE OpsInv'
  <2>1. /\ phase[o] = "none" /\ plan' = [plan EXCEPT ![o] = p] /\ store' = store
        /\ phase' = [phase EXCEPT ![o] = "running"] /\ UNCHANGED <<settings, doneVars>>
        /\ registered' = registered /\ snap' = snap
    BY <1>7 DEF runsUnhooked, Arrives, snapVars
  <2>2. store[o] = NoStore /\ store \in [Executions -> Stores]
    BY <2>1 DEF OpsInv, StoreOf, OpsShape
  <2>3. store' = [store EXCEPT ![o] = NoStore]
    BY <2>1, <2>2
  <2>4. ArrivesAs(o, p, NoStore, "running")
    BY <1>1, <1>3, <2>1, <2>3 DEF ArrivesAs, WellMarked
  <2> QED BY <2>4, ArrivalKeeps
<1> QED BY <1>5, <1>6, <1>7

\* A GraphQL operation of its own, under the id it was given.
LEMMA OperationMet ==
    ASSUME OpsInv, NEW o \in Executions, NEW p \in Plans, startAsOperation(o, p)
    PROVE  OpsInv'
<1> DEFINE id == generateTraceIdSafely(o, p.generated)
           on == measured(p) /\ shouldCapture(p)
           st == [id |-> id, key |-> None]
           sn == setAttributesSafely(snap, o, p, st)
           ss == startTrace(sn, o, FALSE, {o})
<1>1. /\ phase[o] = "none" /\ p.how = "graphql" /\ plan' = [plan EXCEPT ![o] = p]
      /\ store' = IF on THEN [store EXCEPT ![o] = st] ELSE store
      /\ registered' = IF on THEN Bound(registered, id, o) ELSE registered
      /\ snap' = IF on THEN ss ELSE snap
      /\ phase' = [phase EXCEPT ![o] = "running"] /\ UNCHANGED <<settings, doneVars>>
  BY DEF startAsOperation, Arrives
<1>2. WellMarked(snap) /\ snap \in [Executions -> Snaps]
  BY AsItWas DEF WellMarked
<1>3. o # None /\ NoStore \in Stores /\ lookupKey(NoStore) = None
  BY OperationsAssumption DEF NoStore, Stores, lookupKey
<1>4. CASE ~on
  <2>1. store[o] = NoStore /\ store \in [Executions -> Stores]
    BY <1>1 DEF OpsInv, StoreOf, OpsShape
  <2>2. store' = [store EXCEPT ![o] = NoStore] /\ registered' = registered /\ snap' = snap
    BY <1>1, <1>4, <2>1
  <2>3. ArrivesAs(o, p, NoStore, "running")
    BY <1>1, <1>2, <1>3, <2>2 DEF ArrivesAs, WellMarked
  <2> QED BY <2>3, ArrivalKeeps
<1>5. CASE on
  <2>1. Recorded(p)
    BY <1>1, <1>5 DEF Recorded, measured, shouldIgnoreRequest, isUntracedPreflight, isPreflight
  <2>2. /\ id = o \/ id \in CorrelationIds
        /\ st \in Stores /\ lookupKey(st) = id /\ st.id = id /\ st # NoStore
    <3>1. id \in {o} \cup CorrelationIds /\ id # None
      BY <1>3, OperationsAssumption DEF generateTraceIdSafely
    <3> HIDE DEF id
    <3> QED BY <1>3, <3>1 DEF Stores, lookupKey, NoStore
  <2>3. o \notin DOMAIN registered
    BY <1>1, FreshKey DEF Begun
  <2> HIDE DEF id, st, on
  <2>4. sn = snap \/ (id \in DOMAIN registered /\ sn = [snap EXCEPT ![registered[id]].labels = @ \cup {o}])
    BY <2>2 DEF setAttributesSafely, Label, Has
  <2>5. id \in DOMAIN registered =>
          registered[id] \in Executions /\ plan[registered[id]].how = "graphql" /\ store[registered[id]].id = id
    <3> SUFFICES ASSUME id \in DOMAIN registered
                 PROVE  /\ registered[id] \in Executions /\ plan[registered[id]].how = "graphql"
                        /\ store[registered[id]].id = id
      OBVIOUS
    <3>1. KeyHeld(id) /\ id \in CorrelationIds
      BY <2>2, <2>3 DEF OpsInv
    <3>2. registered[id] \in Executions /\ KeyOf(registered[id]) = id /\ registered[id] # id
          /\ store[registered[id]] # NoStore
      BY <3>1, OperationsAssumption DEF KeyHeld
    <3>3. StoreOf(registered[id])
      BY <3>2 DEF OpsInv
    <3> QED BY <3>2, <3>3 DEF StoreOf
  <2> HIDE DEF sn
  <2>6. /\ sn \in [Executions -> Snaps]
        /\ \A x \in Executions :
             /\ sn[x].open \subseteq sn[x].spans
             /\ \A l \in sn[x].labels \cup sn[x].spans :
                  \/ Marks(x, l)
                  \/ l = o /\ plan[x].how = "graphql" /\ store[x].id = id
    <3>1. CASE sn = snap
      BY <1>2, <3>1 DEF WellMarked
    <3>2. CASE id \in DOMAIN registered /\ sn = [snap EXCEPT ![registered[id]].labels = @ \cup {o}]
      <4>1. sn \in [Executions -> Snaps]
        BY <1>2, <2>5, <3>2 DEF Snaps
      <4>2. ASSUME NEW x \in Executions, x # registered[id] PROVE sn[x] = snap[x]
        BY <1>2, <2>5, <3>2, <4>2
      <4>3. /\ sn[registered[id]].open = snap[registered[id]].open
            /\ sn[registered[id]].spans = snap[registered[id]].spans
            /\ sn[registered[id]].labels = snap[registered[id]].labels \cup {o}
        BY <1>2, <2>5, <3>2 DEF Snaps
      <4> QED BY <1>2, <2>5, <3>2, <4>1, <4>2, <4>3 DEF WellMarked
    <3> QED BY <2>4, <3>1, <3>2
  <2>7. /\ ss \in [Executions -> Snaps] /\ ss[o].labels = {} /\ ss[o].spans = {o}
        /\ ss[o].open = {o} /\ \A x \in Executions : x # o => ss[x] = sn[x]
    <3>1. sn \in [Executions -> Snaps] /\ FALSE \in BOOLEAN /\ o \in Executions /\ {o} = {o}
      BY <2>6
    <3> HIDE DEF ss
    <3>2. PICK k \in BOOLEAN : ss = startTrace(sn, o, k, {o})
      BY DEF ss
    <3> QED BY <3>1, <3>2, StartDue
  <2> HIDE DEF ss
  <2>8. ASSUME NEW x \in Executions
        PROVE  /\ ss[x].open \subseteq ss[x].spans
               /\ \A l \in ss[x].labels \cup ss[x].spans :
                    \/ Marks(x, l)
                    \/ l = o /\ (x = o \/ (plan[x].how = "graphql" /\ store[x].id = id))
    <3>1. CASE x = o
      BY <2>7, <3>1
    <3>2. CASE x # o
      BY <2>6, <2>7, <3>2
    <3> QED BY <3>1, <3>2
  <2>9. /\ store' = [store EXCEPT ![o] = st] /\ registered' = Bound(registered, id, o) /\ snap' = ss
    BY <1>1, <1>5
  <2>10. ArrivesAs(o, p, st, "running")
    BY <1>1, <2>1, <2>2, <2>7, <2>8, <2>9 DEF ArrivesAs
  <2> QED BY <2>10, ArrivalKeeps
<1> QED BY <1>4, <1>5

\* A step that only leaves marks.
LEMMA MarksKeep ==
    ASSUME OpsInv, UNCHANGED <<settings, plan, phase, store, runs, registered, doneVars>>,
           WellMarked(snap')
    PROVE  OpsInv'
BY AsItWas, MovesBy DEF doneVars

LEMMA MarkingMet ==
    ASSUME OpsInv, NEW o \in Executions,
           setOperationId(o) \/ opensSpan(o) \/ startWithinRequest(o) \/ closesSpan(o)
    PROVE  OpsInv'
<1>1. UNCHANGED <<settings, plan, phase, store, runs, registered, doneVars>>
  BY DEF setOperationId, opensSpan, startWithinRequest, closesSpan, doneVars
<1>2. WellMarked(snap) /\ KeyOf(o) \in DOMAIN registered
  BY AsItWas DEF setOperationId, opensSpan, startWithinRequest, closesSpan, CanOpen, Has
<1>3. WellMarked(snap')
  <2>1. CASE setOperationId(o)
    BY <1>2, <2>1, LabelDue DEF setOperationId
  <2>2. CASE opensSpan(o)
    BY <1>2, <2>2, OpenDue DEF opensSpan
  <2>3. CASE startWithinRequest(o)
    <3>1. WellMarked(Label(snap, KeyOf(o), o))
      BY <1>2, LabelDue
    <3> QED BY <1>2, <2>3, <3>1, OpenDue DEF startWithinRequest
  <2>4. CASE closesSpan(o)
    <3>1. PICK by \in Executions : by = registered[KeyOf(o)]
      BY <1>2, KeyIsOwn
    <3>2. snap' = [snap EXCEPT ![by].open = @ \ {o}]
      BY <2>4, <3>1 DEF closesSpan
    <3> QED BY <1>2, <3>1, <3>2 DEF WellMarked, Snaps
  <2> QED BY <2>1, <2>2, <2>3, <2>4
<1> QED BY <1>1, <1>3, MarksKeep

LEMMA TimerMet ==
    ASSUME OpsInv, NEW o \in Executions, grpcTimer(o)
    PROVE  OpsInv'
<1>1. /\ phase[o] = "deferred" /\ phase' = [phase EXCEPT ![o] = "running"]
      /\ registered' = IF RecordedAt(o) THEN Bound(registered, o, o) ELSE registered
      /\ snap' = IF RecordedAt(o) THEN startTrace(snap, o, isPreflight(plan[o]), {}) ELSE snap
      /\ UNCHANGED <<settings, plan, store, doneVars>>
  BY DEF grpcTimer, Begin, RecordedAt
<1>2. /\ phase \in [Executions -> Phases] /\ WellMarked(snap) /\ snap \in [Executions -> Snaps]
      /\ KeyOf(o) = o
  BY <1>1, AsItWas DEF WellMarked, OpsInv, StoreOf
<1>3. isPreflight(plan[o]) \in BOOLEAN
  BY OperationsAssumption DEF OpsInv, OpsShape, isPreflight, NoPlan
<1>4. WellMarked(snap')
  <2>1. CASE RecordedAt(o)
    <3>1. /\ snap' \in [Executions -> Snaps] /\ snap'[o].labels = {} /\ snap'[o].spans = {}
          /\ snap'[o].open = {} /\ \A x \in Executions : x # o => snap'[x] = snap[x]
      BY <1>1, <1>2, <1>3, <2>1, StartDue
    <3> QED BY <1>2, <3>1 DEF WellMarked
  <2>2. CASE ~RecordedAt(o)
    BY <1>1, <1>2, <2>2
  <2> QED BY <2>1, <2>2
<1>5. /\ phase' \in [Executions -> Phases] /\ phase'[o] = "running"
      /\ \A l \in Executions : l # o => phase'[l] = phase[l]
  BY <1>1, <1>2 DEF Phases
<1>6. ASSUME NEW k \in DOMAIN registered'
      PROVE  \/ k \in DOMAIN registered /\ registered'[k] = registered[k]
             \/ Claims(o) /\ registered'[k] = o /\ KeyOf(o) = k
  <2>1. CASE RecordedAt(o)
    <3>1. k \in DOMAIN registered \cup {o}
          /\ registered'[k] = IF k = o THEN o ELSE registered[k]
      BY <1>1, <1>6, <2>1 DEF Bound
    <3> QED BY <1>1, <1>2, <1>5, <2>1, <3>1 DEF Claims
  <2>2. CASE ~RecordedAt(o)
    BY <1>1, <1>6, <2>2
  <2> QED BY <2>1, <2>2
<1>7. \A x \in Executions : completing'[x] # "none" => phase'[x] = "answered"
  BY <1>1, <1>5, AsItWas DEF doneVars
<1> QED BY <1>1, <1>4, <1>5, <1>6, <1>7, AsItWas, MovesBy DEF doneVars

LEMMA AnswerMet ==
    ASSUME OpsInv, NEW o \in Executions, answers(o) \/ clientAborts(o)
    PROVE  OpsInv'
<1>1. /\ phase[o] = "running" /\ UNCHANGED <<settings, plan, store, runs, snapVars, reports, thrown>>
      /\ \/ /\ phase' = [phase EXCEPT ![o] = "answered"] /\ evicting' = evicting
            /\ completing' = completing \/ completing' = [completing EXCEPT ![o] = "microtask"]
         \/ /\ phase' = [phase EXCEPT ![o] = "aborted"] /\ evicting' = evicting \cup {o}
            /\ completing' = completing
  BY DEF answers, endHttpRequestTracing, endRpcRequestTracing, messageSettles, endOperationTrace,
         Answer, clientAborts
<1>2. /\ phase \in [Executions -> Phases] /\ WellMarked(snap)
      /\ completing \in [Executions -> {"none", "microtask", "timer", "waiting"}]
      /\ \A x \in Executions : completing[x] # "none" => phase[x] = "answered"
  BY AsItWas
<1>3. /\ phase' \in [Executions -> Phases] /\ phase'[o] \in {"answered", "aborted"}
      /\ \A x \in Executions : x # o => phase'[x] = phase[x]
  BY <1>1, <1>2 DEF Phases
<1>4. completing' \in [Executions -> {"none", "microtask", "timer", "waiting"}]
  BY <1>1, <1>2
<1>5. ASSUME NEW x \in Executions PROVE completing'[x] # "none" => phase'[x] = "answered"
  <2>1. CASE x = o
    BY <1>1, <1>2, <2>1
  <2>2. CASE x # o
    BY <1>1, <1>2, <1>3, <2>2
  <2> QED BY <2>1, <2>2
<1>6. snap' = snap /\ registered' = registered /\ evicting' \subseteq Executions
  BY <1>1, AsItWas DEF snapVars
<1> QED BY <1>1, <1>2, <1>3, <1>4, <1>5, <1>6, AsItWas, MovesBy

\* TracerService throws only where an operation is recorded, or has no store.
LEMMA TracerMet ==
    ASSUME OpsInv, NEW o \in Executions, callsTracer(o)
    PROVE  OpsInv'
<1>1. /\ phase[o] = "running" /\ activeSpanThrows(o) /\ thrown' = {o}
      /\ UNCHANGED <<settings, plan, phase, store, runs, snapVars, completing, evicting, reports>>
  BY DEF callsTracer
<1>2. ThrowerKnown(o)
  <2> SUFFICES ASSUME store[o] # NoStore PROVE RecordedAt(o)
    BY <1>1 DEF ThrowerKnown
  <2>1. StoreOf(o) /\ o # None /\ None \notin CorrelationIds
    BY OperationsAssumption DEF OpsInv
  <2>2. KeyOf(o) # None
    BY <2>1 DEF StoreOf
  <2>3. KeyOf(o) \in DOMAIN registered
    BY <1>1, <2>2 DEF activeSpanThrows, createSpanThrows, Has
  <2> QED BY <2>3, KeyIsOwn DEF Marks
<1>3. snap' = snap /\ registered' = registered /\ thrown' \subseteq Executions
  BY <1>1 DEF snapVars
<1> QED BY <1>1, <1>2, <1>3, AsItWas, MovesBy

LEMMA GivenUp ==
    ASSUME NEW key, registered' = Without(registered, key)
    PROVE  /\ key \notin DOMAIN registered'
           /\ \A k \in DOMAIN registered' : k \in DOMAIN registered /\ registered'[k] = registered[k]
BY DEF Without

LEMMA EvictionMet ==
    ASSUME OpsInv, NEW o \in Executions, abandonTrace(o)
    PROVE  OpsInv'
<1>1. /\ evicting' \subseteq Executions /\ registered' = Without(registered, o)
      /\ UNCHANGED <<settings, plan, phase, store, runs, snap, completing, reports, thrown>>
  BY AsItWas DEF abandonTrace
<1> QED BY <1>1, AsItWas, GivenUp, MovesBy

LEMMA CompletionMet ==
    ASSUME OpsInv, NEW o \in Executions,
           completionDue(o) \/ completion(o) \/ completionTimeout(o)
    PROVE  OpsInv'
<1> DEFINE key == KeyOf(o)
<1>1. /\ completing[o] \in {"microtask", "timer", "waiting"}
      /\ UNCHANGED <<settings, plan, phase, store, runs, snap, evicting, thrown>>
      /\ \E c \in {"none", "timer", "waiting"} : completing' = [completing EXCEPT ![o] = c]
      /\ \/ registered' = registered /\ reports' = reports
         \/ /\ registered' = Without(registered, key)
            /\ \/ reports' = reports
               \/ key \in DOMAIN registered /\ reports' = Append(reports, registered[key])
  BY DEF completionDue, completion, completionTimeout, endsKey, Has, snapVars
<1>2. /\ phase \in [Executions -> Phases] /\ WellMarked(snap)
      /\ completing \in [Executions -> {"none", "microtask", "timer", "waiting"}]
      /\ \A x \in Executions : completing[x] # "none" => phase[x] = "answered"
  BY AsItWas
<1>3. phase[o] = "answered"
  BY <1>1, <1>2
<1>4. completing' \in [Executions -> {"none", "microtask", "timer", "waiting"}]
  BY <1>1, <1>2
<1>5. \A x \in Executions : completing'[x] # "none" => phase'[x] = "answered"
  BY <1>1, <1>2, <1>3
<1>6. \A k \in DOMAIN registered' : k \in DOMAIN registered /\ registered'[k] = registered[k]
  BY <1>1, GivenUp
<1>7. \/ reports' = reports
      \/ \E k \in DOMAIN registered \ DOMAIN registered' :
           /\ reports' = Append(reports, registered[k])
           /\ phase[registered[k]] = "answered" \/ plan[registered[k]].how = "graphql"
  <2> SUFFICES ASSUME reports' # reports
               PROVE  \E k \in DOMAIN registered \ DOMAIN registered' :
                        /\ reports' = Append(reports, registered[k])
                        /\ phase[registered[k]] = "answered" \/ plan[registered[k]].how = "graphql"
    OBVIOUS
  <2>1. /\ key \in DOMAIN registered /\ reports' = Append(reports, registered[key])
        /\ registered' = Without(registered, key)
    BY <1>1
  <2>2. key \notin DOMAIN registered'
    BY <2>1, GivenUp
  <2>3. phase[registered[key]] = "answered" \/ plan[registered[key]].how = "graphql"
    BY <1>3, <2>1, KeyIsOwn DEF Marks, ShareATrace
  <2> QED BY <2>1, <2>2, <2>3
<1> QED BY <1>1, <1>2, <1>4, <1>5, <1>6, <1>7, AsItWas, MovesBy

LEMMA OpsInvKept == OpsInv /\ [OperationsNext]_opsVars => OpsInv'
<1> SUFFICES ASSUME OpsInv, [OperationsNext]_opsVars PROVE OpsInv'
  OBVIOUS
<1>1. ASSUME NEW o \in Executions, NEW p \in Plans,
             \/ startHttpRequestTracing(o, p) \/ startRpcRequestTracing(o, p) \/ traceMessage(o, p)
             \/ startGrpcRequestTracing(o, p) \/ startAsOperation(o, p) \/ runsUnhooked(o, p)
      PROVE  OpsInv'
  BY <1>1, ArrivalsMet, OperationMet DEF startHttpRequestTracing, startRpcRequestTracing, traceMessage
<1>2. ASSUME NEW o \in Executions,
             \/ grpcTimer(o) \/ setOperationId(o) \/ opensSpan(o) \/ startWithinRequest(o)
             \/ closesSpan(o) \/ callsTracer(o) \/ answers(o) \/ clientAborts(o) \/ abandonTrace(o)
             \/ completionDue(o) \/ completion(o) \/ completionTimeout(o)
      PROVE  OpsInv'
  BY <1>2, MarkingMet, TimerMet, AnswerMet, TracerMet, EvictionMet, CompletionMet
<1>3. CASE UNCHANGED opsVars
  <2>1. UNCHANGED <<settings, plan, phase, store, runs, registered, doneVars>> /\ snap' = snap
    BY <1>3 DEF opsVars, doneVars
  <2> QED BY <2>1, AsItWas, MarksKeep
<1> QED BY <1>1, <1>2, <1>3 DEF OperationsNext

LEMMA KeptApart == OpsInv => OperationsKeptApart
<1> SUFFICES ASSUME OpsInv PROVE OperationsKeptApart
  OBVIOUS
<1>1. OperationsTypeOK
  <2>1. ASSUME NEW k \in DOMAIN registered PROVE k \in Executions \cup CorrelationIds
    <3>1. registered[k] \in Executions /\ store[registered[k]] # NoStore /\ KeyOf(registered[k]) = k
      BY DEF OpsInv, KeyHeld
    <3>2. StoreOf(registered[k])
      BY <3>1 DEF OpsInv
    <3> QED BY <3>1, <3>2 DEF StoreOf
  <2>2. \A o \in Executions : snap[o].open \subseteq snap[o].spans
    BY DEF OpsInv, SnapOf
  <2> QED BY <2>1, <2>2 DEF OpsInv, OpsShape, OperationsTypeOK, Phases
<1>2. TraceIsItsOwn
  <2> SUFFICES ASSUME NEW o \in Executions, NEW l \in snap[o].labels \cup snap[o].spans
               PROVE  (l = o \/ ShareATrace(o, l)) /\ Recorded(plan[l])
    BY DEF TraceIsItsOwn
  <2>1. Marks(o, l)
    BY DEF OpsInv, SnapOf
  <2> QED BY <2>1 DEF Marks, RecordedAt
<1>3. ReportedByItself
  BY DEF OpsInv, ReportOf, ReportsDiffer, ReportedByItself
<1>4. UnrecordedNeverThrows
  BY DEF OpsInv, ThrowerKnown, RecordedAt, UnrecordedNeverThrows
<1> QED BY <1>1, <1>2, <1>3, <1>4 DEF OperationsKeptApart

(* Whatever executions share - ids, callbacks, an event loop - each leaves its *)
(* labels and spans in its own trace, is reported once and answered by then,   *)
(* and TracerService throws only where an operation is recorded                *)
(* (startHttpRequestTracing, abandonTrace, activeSpan).                        *)
THEOREM OperationsApart == OperationsSpec => []OperationsKeptApart
<1>1. OperationsInit => OpsInv
  BY OpsInvStarts
<1>2. OpsInv /\ [OperationsNext]_opsVars => OpsInv'
  BY OpsInvKept
<1>3. OpsInv => OperationsKeptApart
  BY KeptApart
<1> QED BY <1>1, <1>2, <1>3, PTL DEF OperationsSpec

-----------------------------------------------------------------------------
(***************************************************************************)
(* OutgoingSpans                                                           *)
(***************************************************************************)

Calls ==
  [kind : {i.kind : i \in Issues} \cup {"idle"}, form : {i.form : i \in Issues} \cup {""},
   op : {i.op : i \in Issues} \cup {"none"}, described : BOOLEAN,
   hop : {"", "waiting", "done"}, covered : BOOLEAN, marked : BOOLEAN, moved : BOOLEAN,
   reports : 0..MaxReports, at : 0..MaxTime, streamError : BOOLEAN, error : BOOLEAN, read : BOOLEAN]
Leaves ==
  [query : Queries, op : Traced, holds : 0..1, deferred : BOOLEAN, at : 0..MaxTime,
   deferredError : BOOLEAN, ends : 0..1, error : BOOLEAN, duration : 0..MaxTime,
   tagged : BOOLEAN, shippedTags : BOOLEAN]
OutgoingShape ==
  /\ now \in 0..MaxTime /\ query \in [Queries -> Calls] /\ leaves \in Seq(Leaves)

\* A query in a pool has not been reported, and whatever opened its span
\* covers the way to the connection; a call nobody made has no span.
WaitsCovered(q) ==
  /\ q.hop = "waiting" =>
       /\ q.kind \in pools /\ q.reports = 0 /\ ~q.moved
       /\ q.described /\ q.op \in Traced => q.covered
CallsWait == \A c \in Queries : WaitsCovered(query[c])
IdleHasNoSpan == \A i \in DOMAIN leaves : query[leaves[i].query].kind # "idle"

\* What a span has come to, beside the call it is of.
LeafKeeps(s, q, t) ==
  /\ s.holds = 1 => q.kind = "llm"
  /\ q.kind = "llm" /\ s.holds = 0 => s.tagged
  /\ s.ends = 0 /\ ~s.deferred => q.reports = 0
  /\ s.ends = 0 /\ s.deferred => /\ s.holds = 1 /\ q.reports > 0
                                 /\ s.at = q.at /\ s.deferredError = q.error
  /\ s.ends = 1 => /\ q.reports > 0 /\ s.error = q.error /\ s.duration = q.at
                   /\ q.kind = "llm" /\ ~s.shippedTags => t > s.at
LeavesKeep == \A i \in DOMAIN leaves : LeafKeeps(leaves[i], query[leaves[i].query], now)

\* A call that kept to the context of its operation has one span at most, and a
\* described one of a recorded operation has one there.
OneAtMost ==
  \A c \in Queries : ~query[c].moved \/ query[c].marked =>
    \A i, j \in DOMAIN leaves : leaves[i].query = c /\ leaves[j].query = c => i = j
OneInItsOperation ==
  \A c \in Queries : query[c].described /\ query[c].op \in Traced =>
    \E i \in DOMAIN leaves : leaves[i].query = c /\ leaves[i].op = query[c].op

OutgoingInv ==
  /\ OutgoingShape /\ CallsWait /\ IdleHasNoSpan /\ LeavesKeep /\ OneAtMost /\ OneInItsOperation

\* How an open span is when it is closed with an outcome at a time.
ClosedWith(s, u, e, t) ==
  /\ u.query = s.query /\ u.op = s.op /\ u.holds = s.holds /\ u.tagged = s.tagged /\ u.at = s.at
  /\ u.ends = 1 /\ u.error = e /\ u.duration = t /\ u.shippedTags = s.tagged

LEMMA CloseEnds ==
    ASSUME NEW s \in Leaves, NEW e \in BOOLEAN, NEW t \in 0..MaxTime, s.ends = 0
    PROVE  close(s, e, t) \in Leaves /\ ClosedWith(s, close(s, e, t), e, t)
<1>1. close(s, e, t) = [s EXCEPT !.ends = 1, !.error = e, !.duration = t, !.shippedTags = s.tagged]
  <2>1. s.ends + 1 = 1 /\ ~(s.ends > 0)
    OBVIOUS
  <2>. QED  BY <2>1 DEF close
<1>2. PICK tags \in BOOLEAN : tags = s.tagged
  BY DEF Leaves
<1>3. [s EXCEPT !.ends = 1, !.error = e, !.duration = t, !.shippedTags = tags] \in Leaves
  <2>1. PICK u \in Leaves : u = [s EXCEPT !.ends = 1]
    <3>1. ASSUME NEW n \in 0..1 PROVE [s EXCEPT !.ends = n] \in Leaves
      BY DEF Leaves
    <3>. QED  BY <3>1
  <2>2. PICK v \in Leaves : v = [u EXCEPT !.error = e, !.duration = t]
    BY DEF Leaves
  <2>3. [v EXCEPT !.shippedTags = tags] \in Leaves
    BY DEF Leaves
  <2>. QED  BY <2>1, <2>2, <2>3
<1>. QED  BY <1>1, <1>2, <1>3 DEF Leaves, ClosedWith

LEMMA EndOf ==
    ASSUME NEW s \in Leaves, NEW e \in BOOLEAN, now \in 0..MaxTime
    PROVE  /\ end(s, e) \in Leaves
           /\ end(s, e).query = s.query /\ end(s, e).op = s.op
           /\ s.ends = 1 \/ s.deferred => end(s, e) = s
           /\ s.ends = 0 /\ ~s.deferred /\ s.holds = 0 => ClosedWith(s, end(s, e), e, now)
           /\ s.ends = 0 /\ ~s.deferred /\ s.holds = 1 =>
                /\ end(s, e).holds = 1 /\ end(s, e).ends = 0 /\ end(s, e).deferred
                /\ end(s, e).at = now /\ end(s, e).deferredError = e
<1>1. s.ends \in 0..1 /\ s.holds \in 0..1 /\ s.deferred \in BOOLEAN
  BY DEF Leaves
<1>2. CASE s.ends = 1 \/ s.deferred
  BY <1>1, <1>2 DEF end
<1>3. CASE s.ends = 0 /\ ~s.deferred /\ s.holds = 0
  <2>1. end(s, e) = close(s, e, now)
    BY <1>3 DEF end
  <2>. QED  BY <1>3, <2>1, CloseEnds DEF ClosedWith
<1>4. CASE s.ends = 0 /\ ~s.deferred /\ s.holds = 1
  <2>1. end(s, e) = [s EXCEPT !.deferred = TRUE, !.at = now, !.deferredError = e]
    BY <1>4 DEF end
  <2>2. [s EXCEPT !.deferred = TRUE, !.at = now, !.deferredError = e] \in Leaves
    BY DEF Leaves
  <2>. QED  BY <1>4, <2>1, <2>2 DEF Leaves
<1>. QED  BY <1>1, <1>2, <1>3, <1>4

LEMMA ReleaseOf ==
    ASSUME NEW s \in Leaves, NEW u, u = release([s EXCEPT !.tagged = TRUE])
    PROVE  /\ u \in Leaves /\ u.query = s.query /\ u.op = s.op
           /\ u.holds = 0 /\ u.tagged
           /\ s.ends = 1 \/ s.holds = 0 \/ ~s.deferred =>
                /\ u.ends = s.ends /\ u.deferred = s.deferred /\ u.at = s.at
                /\ u.error = s.error /\ u.duration = s.duration /\ u.shippedTags = s.shippedTags
           /\ s.ends = 0 /\ s.holds = 1 /\ s.deferred =>
                u.ends = 1 /\ u.error = s.deferredError /\ u.duration = s.at /\ u.shippedTags
<1>1. s.ends \in 0..1 /\ s.holds \in 0..1 /\ s.deferred \in BOOLEAN /\ s.deferredError \in BOOLEAN
      /\ s.at \in 0..MaxTime
  BY DEF Leaves
<1> DEFINE told == [s EXCEPT !.tagged = TRUE]
           free == [told EXCEPT !.holds = @ - 1]
<1>2. /\ told \in Leaves /\ told.tagged
      /\ told.query = s.query /\ told.op = s.op /\ told.holds = s.holds /\ told.deferred = s.deferred
      /\ told.at = s.at /\ told.ends = s.ends /\ told.error = s.error
      /\ told.duration = s.duration /\ told.shippedTags = s.shippedTags
      /\ told.deferredError = s.deferredError
  BY DEF Leaves
<1>3. CASE s.holds = 0
  BY <1>2, <1>3 DEF release
<1>4. CASE s.holds = 1
  <2>1. free = [told EXCEPT !.holds = 0]
    <3>. HIDE DEF told
    <3>1. told.holds - 1 = 0
      BY <1>2, <1>4
    <3>. QED  BY <3>1
  <2>2. /\ free \in Leaves /\ free.tagged /\ free.holds = 0
        /\ free.query = s.query /\ free.op = s.op /\ free.deferred = s.deferred
        /\ free.at = s.at /\ free.ends = s.ends /\ free.error = s.error
        /\ free.duration = s.duration /\ free.shippedTags = s.shippedTags
        /\ free.deferredError = s.deferredError
    <3>. HIDE DEF told
    <3>1. [told EXCEPT !.holds = 0] \in Leaves
      BY <1>2 DEF Leaves
    <3>. QED  BY <1>2, <2>1, <3>1 DEF Leaves
  <2>3. u = IF free.deferred THEN close(free, free.deferredError, free.at) ELSE free
    <3>. HIDE DEF told
    <3>. QED  BY <1>2, <1>4, <2>2 DEF release, told
  <2>. HIDE DEF free
  <2>4. CASE ~s.deferred
    BY <1>4, <2>2, <2>3, <2>4
  <2>5. CASE s.deferred /\ s.ends = 1
    <3>. HIDE DEF told
    <3>1. u = free
      BY <2>2, <2>3, <2>5 DEF close
    <3>2. /\ u \in Leaves /\ u.query = s.query /\ u.op = s.op /\ u.holds = 0 /\ u.tagged
          /\ u.ends = s.ends /\ u.deferred = s.deferred /\ u.at = s.at
          /\ u.error = s.error /\ u.duration = s.duration /\ u.shippedTags = s.shippedTags
      BY <2>2, <3>1
    <3>3. ~(s.ends = 0)
      BY <2>5
    <3>. QED  BY <3>2, <3>3
  <2>6. CASE s.deferred /\ s.ends = 0
    <3>1. u = close(free, s.deferredError, s.at)
      BY <2>2, <2>3, <2>6
    <3>2. u \in Leaves /\ ClosedWith(free, u, s.deferredError, s.at)
      BY <1>1, <2>2, <2>6, <3>1, CloseEnds
    <3>3. u.tagged /\ u.shippedTags
      BY <2>2, <3>2 DEF ClosedWith
    <3>4. u.ends = 1 /\ u.holds = 0 /\ u.query = s.query /\ u.op = s.op
      BY <2>2, <3>2 DEF ClosedWith
    <3>5. u.error = s.deferredError /\ u.duration = s.at
      BY <3>2 DEF ClosedWith
    <3>. QED  BY <1>4, <2>6, <3>2, <3>3, <3>4, <3>5
  <2>. QED  BY <1>1, <2>4, <2>5, <2>6
<1>. QED  BY <1>1, <1>3, <1>4

-----------------------------------------------------------------------------
\* The spans are those there were, each of its call and operation, and no call
\* has come to keep to its operation, or to be described, that did not before.
SameSpans ==
  /\ leaves' \in Seq(Leaves) /\ DOMAIN leaves' = DOMAIN leaves
  /\ \A i \in DOMAIN leaves : leaves'[i].query = leaves[i].query /\ leaves'[i].op = leaves[i].op
Keeping(d) == ~query[d].moved \/ query[d].marked
NoneOf(d) == \A i \in DOMAIN leaves : leaves[i].query # d
CallsAsBefore ==
  \A d \in Queries :
    /\ Keeping(d)' => Keeping(d) \/ NoneOf(d)
    /\ query'[d].described /\ query'[d].op \in Traced =>
         query[d].described /\ query[d].op = query'[d].op

LEMMA UnopenedKeeps ==
    ASSUME OutgoingInv, SameSpans, CallsAsBefore, now' \in 0..MaxTime, query' \in [Queries -> Calls],
           CallsWait', IdleHasNoSpan', LeavesKeep'
    PROVE  OutgoingInv'
<1>1. OutgoingShape'
  BY DEF SameSpans, OutgoingShape
<1>2. OneAtMost'
  <2>1. SUFFICES ASSUME NEW d \in Queries, Keeping(d)', NEW i \in DOMAIN leaves, NEW j \in DOMAIN leaves,
                        leaves'[i].query = d, leaves'[j].query = d
                 PROVE  i = j
    BY DEF OneAtMost, SameSpans, Keeping
  <2>2. Keeping(d) \/ NoneOf(d)
    BY <2>1 DEF CallsAsBefore
  <2>3. leaves[i].query = d /\ leaves[j].query = d
    BY <2>1 DEF SameSpans
  <2>. QED  BY <2>2, <2>3 DEF OutgoingInv, OneAtMost, Keeping, NoneOf
<1>3. OneInItsOperation'
  <2>1. SUFFICES ASSUME NEW d \in Queries, query'[d].described, query'[d].op \in Traced
                 PROVE  \E i \in DOMAIN leaves' : leaves'[i].query = d /\ leaves'[i].op = query'[d].op
    BY DEF OneInItsOperation
  <2>2. query[d].described /\ query[d].op = query'[d].op
    BY <2>1 DEF CallsAsBefore
  <2>3. PICK i \in DOMAIN leaves : leaves[i].query = d /\ leaves[i].op = query[d].op
    BY <2>1, <2>2 DEF OutgoingInv, OneInItsOperation
  <2>. QED  BY <2>2, <2>3 DEF SameSpans
<1>. QED  BY <1>1, <1>2, <1>3 DEF OutgoingInv

\* A call's span is opened.
OpensOne(s) == leaves' = Append(leaves, s)
CallBecomes(c, q) == query' = [query EXCEPT ![c] = q]

LEMMA OpenedKeeps ==
    ASSUME OutgoingInv, NEW c \in Queries, NEW q \in Calls, NEW s \in Leaves, OpensOne(s),
           CallBecomes(c, q), now' = now, s.query = c, q.kind # "idle", WaitsCovered(q),
           LeafKeeps(s, q, now), \A i \in DOMAIN leaves : leaves[i].query = c => LeafKeeps(leaves[i], q, now),
           ~q.moved \/ q.marked => NoneOf(c),
           q.described /\ q.op \in Traced =>
             s.op = q.op \/ \E i \in DOMAIN leaves : leaves[i].query = c /\ leaves[i].op = q.op
    PROVE  OutgoingInv'
<1>1. /\ leaves \in Seq(Leaves) /\ query \in [Queries -> Calls] /\ now \in 0..MaxTime
  BY DEF OutgoingInv, OutgoingShape
<1>2. /\ leaves' \in Seq(Leaves) /\ DOMAIN leaves = 1..Len(leaves) /\ Len(leaves) \in Nat
      /\ DOMAIN leaves' = 1..Len(leaves) + 1 /\ leaves'[Len(leaves) + 1] = s
      /\ \A i \in DOMAIN leaves : leaves'[i] = leaves[i]
  BY <1>1 DEF OpensOne
<1>3. query' \in [Queries -> Calls] /\ query'[c] = q /\ \A d \in Queries : d # c => query'[d] = query[d]
  BY <1>1 DEF CallBecomes
<1>4. ASSUME NEW i \in DOMAIN leaves PROVE leaves[i] \in Leaves /\ leaves[i].query \in Queries
  <2>1. leaves[i] \in Leaves
    BY <1>1, <1>2
  <2>. QED  BY <2>1 DEF Leaves
<1>5. \A i \in DOMAIN leaves' : i = Len(leaves) + 1 \/ i \in DOMAIN leaves
  BY <1>2
<1>6. OutgoingShape'
  BY <1>1, <1>2, <1>3 DEF OutgoingShape
<1>7. CallsWait'
  <2>1. ASSUME NEW d \in Queries PROVE WaitsCovered(query'[d])
    BY <1>3 DEF OutgoingInv, CallsWait
  <2>. QED  BY <2>1 DEF CallsWait
<1>8. IdleHasNoSpan' /\ LeavesKeep'
  <2>1. ASSUME NEW i \in DOMAIN leaves'
        PROVE  query'[leaves'[i].query].kind # "idle" /\ LeafKeeps(leaves'[i], query'[leaves'[i].query], now)
    <3>1. CASE i = Len(leaves) + 1
      BY <1>2, <1>3, <3>1
    <3>2. CASE i \in DOMAIN leaves /\ leaves[i].query = c
      BY <1>2, <1>3, <3>2
    <3>3. CASE i \in DOMAIN leaves /\ leaves[i].query # c
      BY <1>2, <1>3, <1>4, <3>3 DEF OutgoingInv, IdleHasNoSpan, LeavesKeep
    <3>. QED  BY <1>5, <3>1, <3>2, <3>3
  <2>. QED  BY <2>1 DEF IdleHasNoSpan, LeavesKeep
<1>9. OneAtMost'
  <2>1. SUFFICES ASSUME NEW d \in Queries, ~query'[d].moved \/ query'[d].marked,
                        NEW i \in DOMAIN leaves', NEW j \in DOMAIN leaves',
                        leaves'[i].query = d, leaves'[j].query = d
                 PROVE  i = j
    BY DEF OneAtMost
  <2>2. CASE d = c
    <3>1. NoneOf(c)
      BY <1>3, <2>1, <2>2
    <3>. QED  BY <1>2, <1>5, <2>1, <2>2, <3>1 DEF NoneOf
  <2>3. CASE d # c
    <3>1. i \in DOMAIN leaves /\ j \in DOMAIN leaves
      BY <1>2, <1>5, <2>1, <2>3
    <3>. QED  BY <1>2, <1>3, <2>1, <2>3, <3>1 DEF OutgoingInv, OneAtMost
  <2>. QED  BY <2>2, <2>3
<1>10. OneInItsOperation'
  <2>1. SUFFICES ASSUME NEW d \in Queries, query'[d].described, query'[d].op \in Traced
                 PROVE  \E i \in DOMAIN leaves' : leaves'[i].query = d /\ leaves'[i].op = query'[d].op
    BY DEF OneInItsOperation
  <2>2. Len(leaves) + 1 \in DOMAIN leaves' /\ DOMAIN leaves \subseteq DOMAIN leaves'
    BY <1>2
  <2>3. CASE d = c
    BY <1>2, <1>3, <2>1, <2>2, <2>3
  <2>4. CASE d # c
    <3>1. PICK i \in DOMAIN leaves : leaves[i].query = d /\ leaves[i].op = query[d].op
      BY <1>3, <2>1, <2>4 DEF OutgoingInv, OneInItsOperation
    <3>. QED  BY <1>2, <1>3, <2>2, <2>4, <3>1
  <2>. QED  BY <2>3, <2>4
<1>. QED  BY <1>6, <1>7, <1>8, <1>9, <1>10 DEF OutgoingInv

-----------------------------------------------------------------------------
\* The issue of a call. What a new span is.
LEMMA OpenedSpan ==
    ASSUME NEW c \in Queries, NEW op \in Traced, NEW holds \in 0..1
    PROVE  /\ openSpan(c, op, holds) \in Leaves
           /\ openSpan(c, op, holds).query = c /\ openSpan(c, op, holds).op = op
           /\ openSpan(c, op, holds).holds = holds /\ ~openSpan(c, op, holds).deferred
           /\ openSpan(c, op, holds).ends = 0 /\ ~openSpan(c, op, holds).tagged
<1>1. 0 \in 0..MaxTime /\ 0 \in 0..1
  BY OutgoingAssumption
<1>. QED  BY <1>1 DEF openSpan, Leaves

LEMMA WrappedKeeps ==
    ASSUME OutgoingInv, NEW c \in Queries, NEW i \in Issues, NEW told \in BOOLEAN,
           i.kind # "idle", i.kind = "llm" => ~told, query[c].kind = "idle",
           wrapped(c, i, i.described /\ Attaches(i.op, FALSE), told), now' = now
    PROVE  OutgoingInv'
<1>1. PICK opened \in BOOLEAN : opened <=> i.described /\ i.op \in Traced
  OBVIOUS
<1>2. PICK q : q = issued(i, opened, told)
  OBVIOUS
<1>3. /\ leaves \in Seq(Leaves) /\ query \in [Queries -> Calls] /\ now \in 0..MaxTime
  BY DEF OutgoingInv, OutgoingShape
<1>4. q \in Calls
  <2>1. /\ i.kind \in {j.kind : j \in Issues} \cup {"idle"} /\ i.form \in {j.form : j \in Issues} \cup {""}
        /\ i.op \in {j.op : j \in Issues} \cup {"none"} /\ i.described \in BOOLEAN
    BY OutgoingAssumption
  <2>2. 0 \in 0..MaxReports /\ 1 \in 0..MaxReports
    BY OutgoingAssumption
  <2>3. PICK hops \in {"", "waiting", "done"} : hops = (IF i.kind \in pools /\ ~told THEN "waiting" ELSE "")
    OBVIOUS
  <2>4. PICK covered \in BOOLEAN : covered <=> opened /\ i.kind \in pools
    OBVIOUS
  <2>5. PICK marked \in BOOLEAN : marked <=> opened /\ SPANNED(i.kind)
    OBVIOUS
  <2>6. PICK count \in 0..MaxReports : count = (IF told THEN 1 ELSE 0)
    BY <2>2
  <2>7. PICK error \in BOOLEAN : error <=> i.form = "throws"
    OBVIOUS
  <2>8. q = [kind |-> i.kind, form |-> i.form, described |-> i.described, op |-> i.op, hop |-> hops,
             covered |-> covered, marked |-> marked, moved |-> FALSE, reports |-> count, at |-> now,
             streamError |-> FALSE, error |-> error, read |-> FALSE]
    BY <1>2, <2>3, <2>4, <2>5, <2>6, <2>7 DEF issued
  <2>. QED  BY <1>3, <2>1, <2>8 DEF Calls
<1>5. /\ q.kind = i.kind /\ (q.described <=> i.described) /\ q.op = i.op /\ q.at = now /\ ~q.moved
      /\ q.hop = "waiting" => i.kind \in pools /\ ~told
      /\ i.kind \in pools /\ i.described /\ i.op \in Traced => q.covered
      /\ q.reports = (IF told THEN 1 ELSE 0) /\ (q.error <=> i.form = "throws")
  BY <1>1, <1>2 DEF issued
<1>6. WaitsCovered(q)
  BY <1>5 DEF WaitsCovered
<1>7. CallBecomes(c, q)
  <2>1. opened = (i.described /\ Attaches(i.op, FALSE))
    BY <1>1, Zenon DEF Attaches
  <2>2. wrapped(c, i, opened, told)
    BY <2>1
  <2>. QED  BY <1>2, <2>2 DEF CallBecomes, wrapped
<1>8. NoneOf(c)
  BY DEF OutgoingInv, IdleHasNoSpan, NoneOf
<1>9. CASE opened
  <2>1. PICK s : s = IF told THEN end(openSpan(c, i.op, attachLlmSpan(i.kind)), i.form = "throws")
                     ELSE openSpan(c, i.op, attachLlmSpan(i.kind))
    OBVIOUS
  <2>2. PICK o \in Leaves :
          /\ o = openSpan(c, i.op, attachLlmSpan(i.kind)) /\ o.query = c /\ o.op = i.op
          /\ o.holds = attachLlmSpan(i.kind) /\ ~o.deferred /\ o.ends = 0 /\ ~o.tagged
    <3>1. i.op \in Traced /\ attachLlmSpan(i.kind) \in 0..1
      BY <1>1, <1>9 DEF attachLlmSpan
    <3>. QED  BY <3>1, OpenedSpan
  <2>3. OpensOne(s)
    BY <1>1, <1>9, <2>1 DEF OpensOne, wrapped, Attaches
  <2>4. s \in Leaves /\ s.query = c /\ s.op = i.op /\ LeafKeeps(s, q, now)
    <3>1. CASE told
      <4>1. PICK error \in BOOLEAN : error = (i.form = "throws")
        OBVIOUS
      <4>2. s = end(o, error) /\ o.holds = 0
        BY <2>1, <2>2, <3>1, <4>1 DEF attachLlmSpan
      <4>3. s \in Leaves /\ s.query = c /\ s.op = i.op /\ ClosedWith(o, s, error, now)
        BY <1>3, <2>2, <4>2, EndOf
      <4>4. s.holds = 0 /\ s.ends = 1 /\ s.error = q.error /\ s.duration = now /\ q.reports = 1
            /\ i.kind # "llm"
        <5>1. q.error = error
          BY <1>2, <4>1 DEF issued
        <5>. QED  BY <1>5, <2>2, <3>1, <4>2, <4>3, <5>1 DEF ClosedWith
      <4>. QED  BY <1>5, <4>3, <4>4 DEF LeafKeeps
    <3>2. CASE ~told
      <4>1. s = o /\ q.reports = 0
        BY <1>5, <2>1, <2>2, <3>2
      <4>. QED  BY <1>5, <2>2, <4>1 DEF LeafKeeps, attachLlmSpan
    <3>. QED  BY <3>1, <3>2
  <2>. QED  BY <1>4, <1>5, <1>6, <1>7, <1>8, <2>3, <2>4, OpenedKeeps DEF NoneOf
<1>10. CASE ~opened
  <2>1. leaves' = leaves
    BY <1>1, <1>10 DEF wrapped, Attaches
  <2>2. query' \in [Queries -> Calls] /\ query'[c] = q /\ \A d \in Queries : d # c => query'[d] = query[d]
    BY <1>3, <1>4, <1>7 DEF CallBecomes
  <2>3. SameSpans
    BY <1>3, <2>1 DEF SameSpans
  <2>4. CallsAsBefore
    <3>1. ASSUME NEW d \in Queries
          PROVE  /\ Keeping(d)' => Keeping(d) \/ NoneOf(d)
                 /\ query'[d].described /\ query'[d].op \in Traced =>
                      query[d].described /\ query[d].op = query'[d].op
      <4>1. CASE d = c
        BY <1>1, <1>5, <1>8, <1>10, <2>2, <4>1
      <4>2. CASE d # c
        BY <2>2, <4>2 DEF Keeping
      <4>. QED  BY <4>1, <4>2
    <3>. QED  BY <3>1 DEF CallsAsBefore
  <2>5. CallsWait'
    <3>1. ASSUME NEW d \in Queries PROVE WaitsCovered(query'[d])
      BY <1>6, <2>2 DEF OutgoingInv, CallsWait
    <3>. QED  BY <3>1 DEF CallsWait
  <2>6. IdleHasNoSpan' /\ LeavesKeep'
    <3>1. ASSUME NEW j \in DOMAIN leaves PROVE query'[leaves[j].query] = query[leaves[j].query]
      <4>1. leaves[j] \in Leaves
        BY <1>3
      <4>. QED  BY <1>8, <2>2, <4>1 DEF NoneOf, Leaves
    <3>. QED  BY <2>1, <3>1 DEF OutgoingInv, IdleHasNoSpan, LeavesKeep
  <2>. QED  BY <1>3, <2>2, <2>3, <2>4, <2>5, <2>6, UnopenedKeeps
<1>. QED  BY <1>9, <1>10

LEMMA IssueKeeps ==
    ASSUME OutgoingInv, NEW c \in Queries, NEW i \in Issues, issue(c, i)
    PROVE  OutgoingInv'
<1>1. query[c].kind = "idle" /\ now' = now
  BY DEF issue
<1>2. ASSUME NEW told, i.kind # "idle", i.kind = "llm" => ~told,
             told \in BOOLEAN, wrapped(c, i, i.described /\ Attaches(i.op, FALSE), told)
      PROVE  OutgoingInv'
  BY <1>1, <1>2, WrappedKeeps
<1>. HIDE DEF wrapped, Attaches
<1>3. CASE patchPg(c, i)
  <2>1. PICK told \in BOOLEAN : told <=> i.form \in {"throws", "other"}
    OBVIOUS
  <2>2. told = (i.form \in {"throws", "other"})
    BY <2>1, Zenon
  <2>. QED  BY <1>2, <1>3, <2>2 DEF patchPg
<1>4. CASE patchMysql2(c, i)
  <2>1. PICK told \in BOOLEAN : told <=> i.form \in {"throws", "other"}
    OBVIOUS
  <2>2. told = (i.form \in {"throws", "other"})
    BY <2>1, Zenon
  <2>. QED  BY <1>2, <1>4, <2>2 DEF patchMysql2
<1>5. CASE patchMongodb(c, i)
  <2>1. PICK told \in BOOLEAN : told = (i.form # "promise")
    OBVIOUS
  <2>. QED  BY <1>2, <1>5, <2>1 DEF patchMongodb
<1>6. CASE patchMssql(c, i)
  <2>1. PICK told \in BOOLEAN : told = (i.form = "throws")
    OBVIOUS
  <2>. QED  BY <1>2, <1>6, <2>1 DEF patchMssql
<1>7. CASE subscribeOutgoingHttp(c, i)
  <2>1. PICK told \in BOOLEAN : told = FALSE
    OBVIOUS
  <2>. QED  BY <1>2, <1>7, <2>1 DEF subscribeOutgoingHttp
<1>. QED  BY <1>3, <1>4, <1>5, <1>6, <1>7 DEF issue

-----------------------------------------------------------------------------
\* A call's record after a hop, a stream error, a report or a read.
LEMMA HopKeeps ==
    ASSUME OutgoingInv, NEW c \in Queries, NEW op, NEW later \in BOOLEAN, hop(c, op, later)
    PROVE  OutgoingInv'
<1>1. /\ leaves \in Seq(Leaves) /\ query \in [Queries -> Calls] /\ query[c] \in Calls /\ now \in 0..MaxTime
      /\ WaitsCovered(query[c])
  BY DEF OutgoingInv, OutgoingShape, CallsWait
<1>2. PICK q \in Calls : q = [query[c] EXCEPT !.hop = "done", !.moved = later]
  BY <1>1 DEF Calls
<1>3. /\ q.kind = query[c].kind /\ q.described = query[c].described /\ q.op = query[c].op
      /\ q.at = query[c].at /\ q.reports = query[c].reports /\ q.marked = query[c].marked
      /\ q.error = query[c].error /\ q.hop = "done" /\ q.moved = later
  BY <1>1, <1>2, ZenonT(90) DEF Calls
<1>4. /\ query[c].hop = "waiting" /\ query[c].kind \in pools /\ query[c].reports = 0 /\ now' = now
      /\ later \/ op = query[c].op
  BY <1>1 DEF hop, WaitsCovered
<1>5. CallBecomes(c, q)
  BY <1>1, <1>2 DEF CallBecomes, hop
<1>6. q.kind # "idle" /\ q.kind # "llm" /\ WaitsCovered(q)
  BY <1>3, <1>4 DEF pools, WaitsCovered
<1>7. ASSUME NEW s, NEW t, LeafKeeps(s, query[c], t) PROVE LeafKeeps(s, q, t)
  BY <1>3, <1>7 DEF LeafKeeps
<1>8. \A j \in DOMAIN leaves : leaves[j].query = c => LeafKeeps(leaves[j], q, now)
  BY <1>7 DEF OutgoingInv, LeavesKeep
<1>9. CASE ~query[c].marked /\ query[c].described /\ Attaches(op, query[c].covered /\ ~later)
  <2>1. op \in Traced /\ ~(query[c].covered /\ ~later)
    BY <1>9 DEF Attaches
  <2>2. PICK s \in Leaves :
          /\ s = openSpan(c, op, 0) /\ s.query = c /\ s.op = op
          /\ s.holds = 0 /\ ~s.deferred /\ s.ends = 0
    BY <2>1, OpenedSpan
  <2>3. OpensOne(s)
    BY <1>9, <2>2 DEF OpensOne, hop
  <2>4. LeafKeeps(s, q, now)
    BY <1>3, <1>4, <1>6, <2>2 DEF LeafKeeps
  <2>5. ~q.moved \/ q.marked => NoneOf(c)
    <3>1. ~q.marked
      BY <1>3, <1>9
    <3>2. ASSUME ~q.moved PROVE FALSE
      <4>1. ~later /\ op = query[c].op
        BY <1>3, <1>4, <3>2
      <4>2. op \in Traced /\ query[c].described /\ ~query[c].covered
        BY <1>9, <2>1, <4>1
      <4>3. query[c].covered
        BY <1>1, <1>4, <4>1, <4>2 DEF WaitsCovered
      <4>. QED  BY <4>2, <4>3
    <3>. QED  BY <3>1, <3>2
  <2>6. ASSUME q.described, q.op \in Traced
        PROVE  \E j \in DOMAIN leaves : leaves[j].query = c /\ leaves[j].op = q.op
    <3>1. query[c].described /\ query[c].op \in Traced /\ q.op = query[c].op
      BY <1>3, <2>6
    <3>. QED  BY <3>1 DEF OutgoingInv, OneInItsOperation
  <2>. QED  BY <1>4, <1>5, <1>6, <1>8, <2>2, <2>3, <2>4, <2>5, <2>6, OpenedKeeps
<1>10. CASE ~(~query[c].marked /\ query[c].described /\ Attaches(op, query[c].covered /\ ~later))
  <2>1. leaves' = leaves
    BY <1>10 DEF hop
  <2>2. query' \in [Queries -> Calls] /\ query'[c] = q /\ \A d \in Queries : d # c => query'[d] = query[d]
    BY <1>1, <1>5 DEF CallBecomes
  <2>3. SameSpans
    BY <1>1, <2>1 DEF SameSpans
  <2>4. CallsAsBefore
    <3>1. ASSUME NEW d \in Queries
          PROVE  /\ Keeping(d)' => Keeping(d) \/ NoneOf(d)
                 /\ query'[d].described /\ query'[d].op \in Traced =>
                      query[d].described /\ query[d].op = query'[d].op
      <4>1. CASE d = c
        BY <1>1, <1>3, <1>4, <1>10, <2>2, <4>1 DEF Keeping, WaitsCovered
      <4>2. CASE d # c
        BY <2>2, <4>2 DEF Keeping
      <4>. QED  BY <4>1, <4>2
    <3>. QED  BY <3>1 DEF CallsAsBefore
  <2>5. CallsWait'
    <3>1. ASSUME NEW d \in Queries PROVE WaitsCovered(query'[d])
      BY <1>6, <2>2 DEF OutgoingInv, CallsWait
    <3>. QED  BY <3>1 DEF CallsWait
  <2>6. IdleHasNoSpan' /\ LeavesKeep'
    <3>1. ASSUME NEW j \in DOMAIN leaves
          PROVE  query'[leaves[j].query].kind # "idle" /\ LeafKeeps(leaves[j], query'[leaves[j].query], now)
      <4>1. leaves[j].query \in Queries
        <5>1. leaves[j] \in Leaves
          BY <1>1
        <5>. QED  BY <5>1 DEF Leaves
      <4>2. query[leaves[j].query].kind # "idle" /\ LeafKeeps(leaves[j], query[leaves[j].query], now)
        BY DEF OutgoingInv, IdleHasNoSpan, LeavesKeep
      <4>. QED  BY <1>6, <1>8, <2>2, <4>1, <4>2
    <3>. QED  BY <1>4, <2>1, <3>1 DEF IdleHasNoSpan, LeavesKeep
  <2>. QED  BY <1>1, <1>4, <2>2, <2>3, <2>4, <2>5, <2>6, UnopenedKeeps
<1>. QED  BY <1>9, <1>10

-----------------------------------------------------------------------------
\* What becomes of the spans of a call when the call is told something.
SpansBecome(c, q) ==
  /\ DOMAIN leaves' = DOMAIN leaves /\ leaves' \in Seq(Leaves)
  /\ \A i \in DOMAIN leaves :
       IF leaves[i].query # c THEN leaves'[i] = leaves[i]
       ELSE /\ leaves'[i].query = c /\ leaves'[i].op = leaves[i].op
            /\ LeafKeeps(leaves'[i], q, now)
SameCall(p, q) ==
  /\ p.kind = q.kind /\ p.described = q.described /\ p.op = q.op
  /\ p.marked = q.marked /\ p.moved = q.moved

LEMMA ToldKeeps ==
    ASSUME OutgoingInv, NEW c \in Queries, NEW q \in Calls, CallBecomes(c, q), SpansBecome(c, q),
           SameCall(query[c], q), q.kind # "idle", WaitsCovered(q), now' = now
    PROVE  OutgoingInv'
<1>1. /\ leaves \in Seq(Leaves) /\ query \in [Queries -> Calls] /\ now \in 0..MaxTime
  BY DEF OutgoingInv, OutgoingShape
<1>2. query' \in [Queries -> Calls] /\ query'[c] = q /\ \A d \in Queries : d # c => query'[d] = query[d]
  BY <1>1 DEF CallBecomes
<1>3. SameSpans
  BY DEF SameSpans, SpansBecome
<1>4. CallsAsBefore
  <2>1. ASSUME NEW d \in Queries
        PROVE  /\ Keeping(d)' => Keeping(d) \/ NoneOf(d)
               /\ query'[d].described /\ query'[d].op \in Traced =>
                    query[d].described /\ query[d].op = query'[d].op
    <3>1. CASE d = c
      BY <1>2, <3>1 DEF Keeping, SameCall
    <3>2. CASE d # c
      BY <1>2, <3>2 DEF Keeping
    <3>. QED  BY <3>1, <3>2
  <2>. QED  BY <2>1 DEF CallsAsBefore
<1>5. CallsWait'
  <2>1. ASSUME NEW d \in Queries PROVE WaitsCovered(query'[d])
    BY <1>2 DEF OutgoingInv, CallsWait
  <2>. QED  BY <2>1 DEF CallsWait
<1>6. IdleHasNoSpan' /\ LeavesKeep'
  <2>1. ASSUME NEW i \in DOMAIN leaves
        PROVE  /\ query'[leaves'[i].query].kind # "idle"
               /\ LeafKeeps(leaves'[i], query'[leaves'[i].query], now)
    <3>1. leaves[i].query \in Queries
      <4>1. leaves[i] \in Leaves
        BY <1>1
      <4>. QED  BY <4>1 DEF Leaves
    <3>2. query[leaves[i].query].kind # "idle" /\ LeafKeeps(leaves[i], query[leaves[i].query], now)
      BY DEF OutgoingInv, IdleHasNoSpan, LeavesKeep
    <3>3. CASE leaves[i].query = c
      BY <1>2, <3>3 DEF SpansBecome
    <3>4. CASE leaves[i].query # c
      BY <1>2, <3>1, <3>2, <3>4 DEF SpansBecome
    <3>. QED  BY <3>3, <3>4
  <2>. QED  BY <2>1 DEF IdleHasNoSpan, LeavesKeep, SpansBecome
<1>. QED  BY <1>1, <1>2, <1>3, <1>4, <1>5, <1>6, UnopenedKeeps

LEMMA StreamErrorKeeps ==
    ASSUME OutgoingInv, NEW c \in Queries, onError(c)
    PROVE  OutgoingInv'
<1>1. /\ leaves \in Seq(Leaves) /\ query \in [Queries -> Calls] /\ query[c] \in Calls
      /\ WaitsCovered(query[c])
  BY DEF OutgoingInv, OutgoingShape, CallsWait
<1>2. PICK q \in Calls : q = [query[c] EXCEPT !.streamError = TRUE]
  BY <1>1 DEF Calls
<1>3. /\ SameCall(query[c], q) /\ q.hop = query[c].hop /\ q.covered = query[c].covered
      /\ q.at = query[c].at /\ q.reports = query[c].reports /\ q.error = query[c].error
  BY <1>1, <1>2 DEF Calls, SameCall
<1>4. CallBecomes(c, q)
  BY <1>1, <1>2 DEF CallBecomes, onError
<1>5. ASSUME NEW i \in DOMAIN leaves, leaves[i].query = c PROVE LeafKeeps(leaves[i], q, now)
  <2>1. LeafKeeps(leaves[i], query[c], now)
    BY <1>5 DEF OutgoingInv, LeavesKeep
  <2>. QED  BY <1>3, <2>1 DEF LeafKeeps, SameCall
<1>6. SpansBecome(c, q)
  BY <1>1, <1>5 DEF SpansBecome, onError
<1>7. q.kind # "idle" /\ WaitsCovered(q)
  BY <1>1, <1>3 DEF SameCall, WaitsCovered, onError
<1>. QED  BY <1>3, <1>4, <1>6, <1>7, ToldKeeps DEF onError

\* Every span of the call is told the same.
LEMMA UpdateOf ==
    ASSUME OutgoingInv, NEW c \in Queries, NEW q, NEW told,
           leaves' = [i \in DOMAIN leaves |-> IF leaves[i].query = c THEN told[i] ELSE leaves[i]],
           \A i \in DOMAIN leaves : leaves[i].query = c =>
             /\ told[i] \in Leaves /\ told[i].query = c /\ told[i].op = leaves[i].op
             /\ LeafKeeps(told[i], q, now)
    PROVE  SpansBecome(c, q)
<1>1. leaves \in Seq(Leaves)
  BY DEF OutgoingInv, OutgoingShape
<1>2. \A i \in DOMAIN leaves : leaves'[i] = IF leaves[i].query = c THEN told[i] ELSE leaves[i]
  OBVIOUS
<1>3. \A i \in DOMAIN leaves : leaves'[i] \in Leaves
  BY <1>1, <1>2
<1>4. DOMAIN leaves' = DOMAIN leaves /\ leaves' \in Seq(Leaves)
  <2>1. /\ leaves' = [i \in DOMAIN leaves |-> leaves'[i]] /\ DOMAIN leaves' = DOMAIN leaves
        /\ Len(leaves) \in Nat /\ DOMAIN leaves = 1..Len(leaves)
    BY <1>1
  <2>. QED  BY <1>3, <2>1, IsASeq
<1>. QED  BY <1>2, <1>4 DEF SpansBecome

LEMMA ReportKeeps ==
    ASSUME OutgoingInv, NEW c \in Queries, NEW error \in BOOLEAN, driverReports(c, error)
    PROVE  OutgoingInv'
<1>1. /\ leaves \in Seq(Leaves) /\ query \in [Queries -> Calls] /\ query[c] \in Calls /\ now \in 0..MaxTime
      /\ WaitsCovered(query[c]) /\ now' = now
  BY DEF OutgoingInv, OutgoingShape, CallsWait, driverReports
<1>2. query[c].kind # "idle" /\ query[c].reports \in 0..MaxReports /\ query[c].reports < MaxReports
  BY <1>1 DEF driverReports, Calls
<1>3. PICK outcome \in BOOLEAN : outcome = (error \/ query[c].streamError)
  OBVIOUS
<1>4. PICK more \in 0..MaxReports : more = query[c].reports + 1 /\ more > 0
  BY <1>2, OutgoingAssumption
<1>5. PICK at \in 0..MaxTime : at = (IF query[c].reports = 0 THEN now ELSE query[c].at)
  BY <1>1 DEF Calls
<1>6. PICK final \in BOOLEAN : final = (IF query[c].reports = 0 THEN outcome ELSE query[c].error)
  BY <1>1 DEF Calls
<1>7. PICK q \in Calls : q = [query[c] EXCEPT !.reports = more, !.hop = "", !.at = at, !.error = final]
  <2>1. PICK p \in Calls : p = [query[c] EXCEPT !.reports = more, !.hop = ""]
    <3>1. ASSUME NEW hops \in {"", "waiting", "done"}
          PROVE  [query[c] EXCEPT !.reports = more, !.hop = hops] \in Calls
      BY <1>1 DEF Calls
    <3>. QED  BY <3>1
  <2>2. PICK r \in Calls : r = [p EXCEPT !.at = at]
    BY DEF Calls
  <2>3. [r EXCEPT !.error = final] \in Calls
    BY DEF Calls
  <2>. QED  BY <2>1, <2>2, <2>3
<1>8. CallBecomes(c, q)
  <2>1. query' = [query EXCEPT ![c].reports = query[c].reports + 1, ![c].hop = "",
                    ![c].at = IF query[c].reports = 0 THEN now ELSE query[c].at,
                    ![c].error = IF query[c].reports = 0 THEN error \/ query[c].streamError
                                 ELSE query[c].error]
    BY <1>1 DEF driverReports
  <2>2. query' = [query EXCEPT ![c].reports = more, ![c].hop = "", ![c].at = at, ![c].error = final]
    BY <1>3, <1>4, <1>5, <1>6, <2>1
  <2>. QED  BY <1>1, <1>7, <2>2 DEF CallBecomes
<1>9. /\ SameCall(query[c], q) /\ q.hop = "" /\ q.reports = more /\ q.at = at /\ q.error = final
  BY <1>1, <1>7, ZenonT(90) DEF SameCall, Calls
<1>10. ASSUME NEW i \in DOMAIN leaves, leaves[i].query = c
       PROVE  /\ end(leaves[i], outcome) \in Leaves /\ end(leaves[i], outcome).query = c
              /\ end(leaves[i], outcome).op = leaves[i].op /\ LeafKeeps(end(leaves[i], outcome), q, now)
  <2>1. PICK s \in Leaves : s = leaves[i]
    BY <1>1
  <2>2. PICK u \in Leaves :
          /\ u = end(s, outcome) /\ u.query = s.query /\ u.op = s.op
          /\ s.ends = 1 \/ s.deferred => u = s
          /\ s.ends = 0 /\ ~s.deferred /\ s.holds = 0 => ClosedWith(s, u, outcome, now)
          /\ s.ends = 0 /\ ~s.deferred /\ s.holds = 1 =>
               u.holds = 1 /\ u.ends = 0 /\ u.deferred /\ u.at = now /\ u.deferredError = outcome
    BY <1>1, EndOf
  <2>3. LeafKeeps(s, query[c], now)
    BY <1>10, <2>1 DEF OutgoingInv, LeavesKeep
  <2>4. s.ends \in 0..1 /\ s.holds \in 0..1
    BY DEF Leaves
  <2>7. LeafKeeps(u, q, now)
    <3>1. CASE s.ends = 1 \/ s.deferred
      <4>1. u = s /\ query[c].reports > 0
        BY <2>2, <2>3, <2>4, <3>1 DEF LeafKeeps
      <4>2. at = query[c].at /\ final = query[c].error
        BY <1>5, <1>6, <4>1
      <4>3. q.kind = query[c].kind
        BY <1>9 DEF SameCall
      <4>4. q.reports > 0 /\ q.at = query[c].at /\ q.error = query[c].error
        BY <1>4, <1>9, <4>2
      <4>5. LeafKeeps(s, q, now)
        BY <2>3, <2>4, <3>1, <4>1, <4>3, <4>4 DEF LeafKeeps
      <4>. QED  BY <4>1, <4>5
    <3>2. CASE s.ends = 0 /\ ~s.deferred
      <4>1. query[c].reports = 0
        BY <2>3, <3>2 DEF LeafKeeps
      <4>2. at = now /\ final = outcome /\ q.kind = query[c].kind
        BY <1>5, <1>6, <1>9, <4>1 DEF SameCall
      <4>3. CASE s.holds = 0
        <5>1. ClosedWith(s, u, outcome, now)
          BY <2>2, <3>2, <4>3
        <5>2. u.holds = 0 /\ u.ends = 1 /\ u.error = q.error /\ u.duration = q.at /\ q.reports > 0
          BY <1>4, <1>9, <4>2, <4>3, <5>1 DEF ClosedWith
        <5>3. q.kind = "llm" => u.tagged /\ u.shippedTags
          <6>1. s.tagged \in BOOLEAN
            BY DEF Leaves
          <6>. QED  BY <2>3, <4>2, <4>3, <5>1, <6>1 DEF LeafKeeps, ClosedWith
        <5>. QED  BY <5>2, <5>3 DEF LeafKeeps
      <4>4. CASE s.holds = 1
        BY <1>4, <1>9, <2>2, <2>3, <3>2, <4>2, <4>4 DEF LeafKeeps
      <4>. QED  BY <2>4, <4>3, <4>4
    <3>. QED  BY <2>4, <3>1, <3>2
  <2>. QED  BY <1>10, <2>1, <2>2, <2>7
<1>11. SpansBecome(c, q)
  <2>1. leaves' = [i \in DOMAIN leaves |-> IF leaves[i].query = c THEN end(leaves[i], outcome) ELSE leaves[i]]
    BY <1>3 DEF driverReports, Update
  <2>2. PICK told : told = [i \in DOMAIN leaves |-> end(leaves[i], outcome)]
    OBVIOUS
  <2>3. leaves' = [i \in DOMAIN leaves |-> IF leaves[i].query = c THEN told[i] ELSE leaves[i]]
    BY <2>1, <2>2
  <2>. QED  BY <1>10, <2>2, <2>3, UpdateOf
<1>12. q.kind # "idle" /\ WaitsCovered(q)
  BY <1>2, <1>9 DEF SameCall, WaitsCovered
<1>. QED  BY <1>1, <1>8, <1>9, <1>11, <1>12, ToldKeeps

LEMMA ReadKeeps ==
    ASSUME OutgoingInv, NEW c \in Queries, observeCall(c)
    PROVE  OutgoingInv'
<1>1. /\ leaves \in Seq(Leaves) /\ query \in [Queries -> Calls] /\ query[c] \in Calls
      /\ WaitsCovered(query[c]) /\ now' = now /\ query[c].kind = "llm"
  BY DEF OutgoingInv, OutgoingShape, CallsWait, observeCall
<1>2. PICK q \in Calls : q = [query[c] EXCEPT !.read = TRUE]
  BY <1>1 DEF Calls
<1>3. /\ SameCall(query[c], q) /\ q.hop = query[c].hop /\ q.covered = query[c].covered
      /\ q.at = query[c].at /\ q.reports = query[c].reports /\ q.error = query[c].error
  BY <1>1, <1>2 DEF Calls, SameCall
<1>4. CallBecomes(c, q)
  BY <1>1, <1>2 DEF CallBecomes, observeCall
<1>5. ASSUME NEW i \in DOMAIN leaves, leaves[i].query = c, NEW u,
             u = release([leaves[i] EXCEPT !.tagged = TRUE])
      PROVE  u \in Leaves /\ u.query = c /\ u.op = leaves[i].op /\ LeafKeeps(u, q, now)
  <2>1. PICK s \in Leaves : s = leaves[i]
    BY <1>1
  <2>2. u = release([s EXCEPT !.tagged = TRUE])
    BY <1>5, <2>1
  <2>3. LeafKeeps(s, query[c], now)
    BY <1>5, <2>1 DEF OutgoingInv, LeavesKeep
  <2>4. /\ u \in Leaves /\ u.query = s.query /\ u.op = s.op
        /\ u.holds = 0 /\ u.tagged
        /\ s.ends = 1 \/ s.holds = 0 \/ ~s.deferred =>
             /\ u.ends = s.ends /\ u.deferred = s.deferred /\ u.at = s.at
             /\ u.error = s.error /\ u.duration = s.duration /\ u.shippedTags = s.shippedTags
        /\ s.ends = 0 /\ s.holds = 1 /\ s.deferred =>
             u.ends = 1 /\ u.error = s.deferredError /\ u.duration = s.at /\ u.shippedTags
    BY <2>2, ReleaseOf
  <2>5. s.ends \in 0..1 /\ s.holds \in 0..1
    BY DEF Leaves
  <2>6. LeafKeeps(u, q, now)
    <3>1. CASE s.ends = 1 \/ s.holds = 0 \/ ~s.deferred
      BY <1>1, <1>3, <2>3, <2>4, <2>5, <3>1 DEF LeafKeeps, SameCall
    <3>2. CASE s.ends = 0 /\ s.holds = 1 /\ s.deferred
      BY <1>1, <1>3, <2>3, <2>4, <2>5, <3>2 DEF LeafKeeps, SameCall
    <3>. QED  BY <2>5, <3>1, <3>2
  <2>. QED  BY <1>5, <2>1, <2>2, <2>4, <2>6
<1>6. SpansBecome(c, q)
  <2>1. leaves' = [i \in DOMAIN leaves |->
                     IF leaves[i].query = c THEN release([leaves[i] EXCEPT !.tagged = TRUE]) ELSE leaves[i]]
    BY DEF observeCall, Update
  <2>2. PICK told : told = [i \in DOMAIN leaves |-> release([leaves[i] EXCEPT !.tagged = TRUE])]
    OBVIOUS
  <2>3. leaves' = [i \in DOMAIN leaves |-> IF leaves[i].query = c THEN told[i] ELSE leaves[i]]
    BY <2>1, <2>2
  <2>4. ASSUME NEW i \in DOMAIN leaves, leaves[i].query = c
        PROVE  /\ told[i] \in Leaves /\ told[i].query = c /\ told[i].op = leaves[i].op
               /\ LeafKeeps(told[i], q, now)
    BY <1>5, <2>2, <2>4
  <2>. QED  BY <2>3, <2>4, UpdateOf
<1>7. q.kind # "idle" /\ WaitsCovered(q)
  BY <1>1, <1>3 DEF SameCall, WaitsCovered
<1>. QED  BY <1>1, <1>3, <1>4, <1>6, <1>7, ToldKeeps

-----------------------------------------------------------------------------
\* No call changes: time passes, or a span held beyond the grace period ends.
LEMMA QuietKeeps ==
    ASSUME OutgoingInv, SameSpans, query' = query, now' \in 0..MaxTime, LeavesKeep'
    PROVE  OutgoingInv'
<1>1. CallsAsBefore
  BY DEF CallsAsBefore, Keeping
<1>2. query' \in [Queries -> Calls] /\ CallsWait'
  BY DEF OutgoingInv, OutgoingShape, CallsWait
<1>3. IdleHasNoSpan'
  BY DEF OutgoingInv, IdleHasNoSpan, SameSpans
<1>. QED  BY <1>1, <1>2, <1>3, UnopenedKeeps

LEMMA TickKeeps ==
    ASSUME OutgoingInv, Tick
    PROVE  OutgoingInv'
<1>1. leaves \in Seq(Leaves) /\ now \in 0..MaxTime
  BY DEF OutgoingInv, OutgoingShape
<1>2. now' = now + 1 /\ now' \in 0..MaxTime /\ leaves' = leaves /\ query' = query
  BY <1>1, OutgoingAssumption DEF Tick
<1>3. SameSpans
  BY <1>1, <1>2 DEF SameSpans
<1>4. LeavesKeep'
  <2>1. ASSUME NEW i \in DOMAIN leaves PROVE LeafKeeps(leaves[i], query[leaves[i].query], now + 1)
    <3>1. leaves[i].at \in 0..MaxTime
      <4>1. leaves[i] \in Leaves
        BY <1>1
      <4>. QED  BY <4>1 DEF Leaves
    <3>2. LeafKeeps(leaves[i], query[leaves[i].query], now)
      BY DEF OutgoingInv, LeavesKeep
    <3>3. now > leaves[i].at => now + 1 > leaves[i].at
      BY <1>1, <3>1, OutgoingAssumption
    <3>. QED  BY <3>2, <3>3 DEF LeafKeeps
  <2>. QED  BY <1>2, <2>1 DEF LeavesKeep
<1>. QED  BY <1>2, <1>3, <1>4, QuietKeeps

LEMMA GraceKeeps ==
    ASSUME OutgoingInv, NEW i \in DOMAIN leaves, grace(i)
    PROVE  OutgoingInv'
<1>1. leaves \in Seq(Leaves) /\ leaves[i] \in Leaves /\ now \in 0..MaxTime
  BY DEF OutgoingInv, OutgoingShape
<1>2. PICK s \in Leaves : s = leaves[i]
  BY <1>1
<1>3. s.deferred /\ s.ends = 0 /\ now > s.at /\ now' = now /\ query' = query
  BY <1>2 DEF grace
<1>4. LeafKeeps(s, query[s.query], now)
  BY <1>2 DEF OutgoingInv, LeavesKeep
<1>5. PICK u \in Leaves : u = close(s, s.deferredError, s.at) /\ ClosedWith(s, u, s.deferredError, s.at)
  <2>1. s.deferredError \in BOOLEAN /\ s.at \in 0..MaxTime
    BY DEF Leaves
  <2>. QED  BY <1>3, <2>1, CloseEnds
<1>6. leaves' = [leaves EXCEPT ![i] = u]
  BY <1>1, <1>2, <1>5 DEF grace
<1>7. /\ leaves' \in Seq(Leaves) /\ DOMAIN leaves' = DOMAIN leaves /\ leaves'[i] = u
      /\ \A j \in DOMAIN leaves : j # i => leaves'[j] = leaves[j]
  BY <1>1, <1>6
<1>8. SameSpans
  BY <1>2, <1>5, <1>7 DEF SameSpans, ClosedWith
<1>9. LeafKeeps(u, query[u.query], now)
  <2>1. /\ u.query = s.query /\ u.holds = 1 /\ u.ends = 1 /\ u.at = s.at /\ now > u.at
        /\ u.error = s.deferredError /\ u.duration = s.at
    BY <1>3, <1>4, <1>5 DEF LeafKeeps, ClosedWith
  <2>. QED  BY <1>3, <1>4, <2>1 DEF LeafKeeps
<1>10. LeavesKeep'
  <2>1. ASSUME NEW j \in DOMAIN leaves PROVE LeafKeeps(leaves'[j], query[leaves'[j].query], now)
    <3>1. CASE j = i
      BY <1>7, <1>9, <3>1
    <3>2. CASE j # i
      BY <1>7, <3>2 DEF OutgoingInv, LeavesKeep
    <3>. QED  BY <3>1, <3>2
  <2>. QED  BY <1>3, <1>7, <2>1 DEF LeavesKeep
<1>. QED  BY <1>1, <1>3, <1>8, <1>10, QuietKeeps

LEMMA OutgoingStarts ==
    ASSUME OutgoingInit
    PROVE  OutgoingInv
<1>1. Idle \in Calls
  <2>1. 0 \in 0..MaxReports /\ 0 \in 0..MaxTime
    BY OutgoingAssumption
  <2>2. /\ "idle" \in {i.kind : i \in Issues} \cup {"idle"} /\ "" \in {i.form : i \in Issues} \cup {""}
        /\ "none" \in {i.op : i \in Issues} \cup {"none"}
    BY Zenon
  <2>3. ASSUME NEW kind \in {i.kind : i \in Issues} \cup {"idle"},
               NEW form \in {i.form : i \in Issues} \cup {""},
               NEW op \in {i.op : i \in Issues} \cup {"none"},
               NEW no \in BOOLEAN, NEW hops \in {"", "waiting", "done"},
               NEW none \in 0..MaxReports, NEW start \in 0..MaxTime
        PROVE  [kind |-> kind, form |-> form, described |-> no, op |-> op, hop |-> hops,
                covered |-> no, marked |-> no, moved |-> no, reports |-> none, at |-> start,
                streamError |-> no, error |-> no, read |-> no] \in Calls
    BY DEF Calls
  <2>. QED  BY <2>1, <2>2, <2>3 DEF Idle
<1>2. 0 \in 0..MaxTime
  BY OutgoingAssumption
<1>3. OutgoingShape
  BY <1>1, <1>2 DEF OutgoingInit, OutgoingShape
<1>4. CallsWait /\ OneInItsOperation
  BY DEF OutgoingInit, CallsWait, WaitsCovered, OneInItsOperation, Idle
<1>5. IdleHasNoSpan /\ LeavesKeep /\ OneAtMost
  BY DEF OutgoingInit, IdleHasNoSpan, LeavesKeep, OneAtMost
<1>. QED  BY <1>3, <1>4, <1>5 DEF OutgoingInv

LEMMA OutgoingSteps ==
    ASSUME OutgoingInv, [OutgoingNext]_outgoingVars
    PROVE  OutgoingInv'
<1>1. CASE Tick
  BY <1>1, TickKeeps
<1>2. CASE \E i \in DOMAIN leaves : grace(i)
  BY <1>2, GraceKeeps
<1>3. ASSUME NEW c \in Queries, \E i \in Issues : issue(c, i) PROVE OutgoingInv'
  BY <1>3, IssueKeeps
<1>4. ASSUME NEW c \in Queries, \E op \in {i.op : i \in Issues}, later \in BOOLEAN : hop(c, op, later)
      PROVE  OutgoingInv'
  BY <1>4, HopKeeps
<1>5. ASSUME NEW c \in Queries, onError(c) \/ observeCall(c) PROVE OutgoingInv'
  BY <1>5, StreamErrorKeeps, ReadKeeps
<1>6. ASSUME NEW c \in Queries, \E error \in BOOLEAN : driverReports(c, error) PROVE OutgoingInv'
  BY <1>6, ReportKeeps
<1>7. CASE UNCHANGED outgoingVars
  BY <1>7 DEF outgoingVars, OutgoingInv, OutgoingShape, CallsWait, WaitsCovered, IdleHasNoSpan,
     LeavesKeep, OneAtMost, OneInItsOperation
<1>. QED  BY <1>1, <1>2, <1>3, <1>4, <1>5, <1>6, <1>7 DEF OutgoingNext

LEMMA OutgoingTells ==
    ASSUME OutgoingInv
    PROVE  SpanOfEachCall
<1>1. /\ leaves \in Seq(Leaves) /\ query \in [Queries -> Calls] /\ now \in 0..MaxTime
  BY DEF OutgoingInv, OutgoingShape
<1>2. ASSUME NEW i \in DOMAIN leaves
      PROVE  /\ leaves[i].query \in Queries /\ leaves[i].op \in Traced /\ leaves[i].holds \in 0..1
             /\ leaves[i].ends \in 0..1 /\ LeafKeeps(leaves[i], query[leaves[i].query], now)
  <2>1. leaves[i] \in Leaves
    BY <1>1
  <2>. QED  BY <2>1 DEF Leaves, OutgoingInv, LeavesKeep
<1>3. OutgoingTypeOK
  <2>1. ASSUME NEW c \in Queries PROVE query[c].reports \in 0..MaxReports
    <3>1. query[c] \in Calls
      BY <1>1
    <3>. QED  BY <3>1 DEF Calls
  <2>. QED  BY <1>1, <1>2, <2>1 DEF OutgoingTypeOK
<1>4. SpanEndsOnce
  BY <1>2 DEF SpanEndsOnce
<1>5. SpanTellsTheOutcome /\ UsageReachesTheSpan
  <2>1. ASSUME NEW i \in DOMAIN leaves, leaves[i].ends > 0 PROVE leaves[i].ends = 1
    BY <1>2, <2>1
  <2>. QED  BY <1>2, <2>1 DEF SpanTellsTheOutcome, UsageReachesTheSpan, LeafKeeps
<1>6. OneSpanPerQuery
  <2>1. ASSUME NEW c \in Queries, ~query[c].moved \/ query[c].marked
        PROVE  Cardinality(SpansOf(c)) <= 1
    <3>1. \A i, j \in SpansOf(c) : i = j
      BY <2>1 DEF OutgoingInv, OneAtMost, SpansOf
    <3>2. CASE SpansOf(c) = {}
      BY <3>2, FS_EmptySet
    <3>3. CASE SpansOf(c) # {}
      <4>1. PICK i : SpansOf(c) = {i}
        BY <3>1, <3>3
      <4>2. Cardinality({i}) = 1
        BY FS_Singleton, Zenon
      <4>3. Cardinality(SpansOf(c)) = 1
        BY <4>1, <4>2
      <4>. QED  BY <4>3
    <3>. QED  BY <3>2, <3>3
  <2>2. ASSUME NEW c \in Queries, query[c].described, query[c].op \in Traced
        PROVE  \E i \in SpansOf(c) : leaves[i].op = query[c].op
    BY <2>2 DEF OutgoingInv, OneInItsOperation, SpansOf
  <2>. QED  BY <2>1, <2>2 DEF OneSpanPerQuery
<1>. QED  BY <1>3, <1>4, <1>5, <1>6 DEF SpanOfEachCall

\* A call to another system is one span, ended once, that tells how the call
\* went when it was first reported - whatever the driver reports, in whichever
\* context a pool runs it, and however long its response is read
\* (outgoing-span.recorder begin, cover, close, hold).
THEOREM CallsAreOneSpan == OutgoingSpec => []SpanOfEachCall
<1>1. OutgoingInit => OutgoingInv
  BY OutgoingStarts
<1>2. OutgoingInv /\ [OutgoingNext]_outgoingVars => OutgoingInv'
  BY OutgoingSteps
<1>3. OutgoingInv => SpanOfEachCall
  BY OutgoingTells
<1>. QED  BY <1>1, <1>2, <1>3, PTL DEF OutgoingSpec

-----------------------------------------------------------------------------
(***************************************************************************)
(* Instrumentation                                                         *)
(***************************************************************************)

Frames ==
  [m : Members(provider) \cup {"", "await"}, this : {"raw", "proxy"}, req : Requests \cup {"none"},
   caller : Nat, step : Nat, wrapped : BOOLEAN, clears : BOOLEAN]
Spans ==
  [req : Requests, name : {classNameOf(provider)}, m : Members(provider), parent : Nat,
   ends : Nat, error : BOOLEAN, failed : BOOLEAN]
Promises == [step : Nat, req : Requests \cup {"none"}, this : {"raw", "proxy"}]
InstrumentShape ==
  /\ provider \in Providers /\ active \in [Members(provider) -> BOOLEAN]
  /\ frames \in Seq(Frames) /\ steps \in Seq(Spans) /\ promises \subseteq Promises
  /\ held \subseteq Requests /\ Len(steps) <= MaxSteps /\ Len(frames) <= MaxDepth

\* A frame belongs to the operation whose context was entered, and one with a
\* span is a wrapper's.
FrameOf(f, r, opened, flags, kept, p) ==
  /\ f.req = r
  /\ f.step # 0 => /\ f.step \in DOMAIN opened /\ opened[f.step].req = f.req
                   /\ f.clears /\ f.req \in kept /\ f.caller = f.step
  /\ f.clears => f.wrapped /\ flags[f.m]
  /\ f.clears /\ f.req \in kept => f.step # 0
  /\ f.caller # 0 => f.caller \in DOMAIN opened /\ opened[f.caller].req = f.req
  /\ f.wrapped => f.m \in Members(p)
  /\ f.this = "proxy" /\ f.m \in Members(p) =>
       /\ ~isMongoDriverHandle(p)
       /\ (\E c \in Classes(p) : c.privates \/ c.slots) => ~shouldProxy(p, f.m)
FrameHolds(f, r) == FrameOf(f, r, steps, active, held, provider)
OneContext == \A i \in DOMAIN frames : FrameHolds(frames[i], frames[Len(frames)].req)
\* The stack starts outside of the provider's wrappers.
Bottom == frames # <<>> => frames[Len(frames)].step = 0 /\ ~frames[Len(frames)].wrapped
                           /\ ~frames[Len(frames)].clears

\* A member's flag is set by the one call of it that clears it.
FlagIsACall ==
  \A m \in Members(provider) : active[m] => \E i \in DOMAIN frames : frames[i].clears /\ frames[i].m = m
OneCallAMember ==
  \A i, j \in DOMAIN frames : frames[i].clears /\ frames[j].clears /\ frames[i].m = frames[j].m => i = j
WrappedIsTraced ==
  \A i \in DOMAIN frames : frames[i].wrapped /\ ~frames[i].clears /\ frames[i].req \in held =>
    \E j \in DOMAIN frames : j > i /\ frames[j].clears /\ frames[j].m = frames[i].m

\* A call is made by the nearest call with a span below it, or by whoever
\* entered the context; and that is the parent of the span it opens.
CallerIsNearest ==
  /\ \A i \in DOMAIN frames :
       (\A k \in DOMAIN frames : k >= i => frames[k].step = 0) =>
         frames[i].caller = frames[Len(frames)].caller
  /\ \A i, j \in DOMAIN frames :
       /\ i <= j /\ frames[j].step # 0
       /\ \A k \in DOMAIN frames : i <= k /\ k < j => frames[k].step = 0
       => frames[i].caller = frames[j].step
ParentCalled ==
  \A i \in DOMAIN frames : frames[i].step # 0 =>
    i + 1 \in DOMAIN frames /\ steps[frames[i].step].parent = frames[i + 1].caller

\* A span's call is on the stack once, or is one promise.
OneCallASpan ==
  /\ \A i, j \in DOMAIN frames : frames[i].step # 0 /\ frames[i].step = frames[j].step => i = j
  /\ \A i \in DOMAIN frames, p \in promises : frames[i].step # p.step
  /\ \A p, q \in promises : p.step = q.step => p = q
PromiseOf(p) == p.step \in DOMAIN steps /\ steps[p.step].req = p.req
SpansInStep ==
  \A s \in DOMAIN steps :
    LET live == s \in OnStack \/ \E p \in promises : p.step = s
    IN /\ live => steps[s].ends = 0
       /\ ~live /\ steps[s].req \in held => steps[s].ends = 1
       /\ steps[s].error = steps[s].failed

InstrumentInv ==
  /\ InstrumentShape /\ OneContext /\ Bottom /\ FlagIsACall /\ OneCallAMember /\ WrappedIsTraced
  /\ CallerIsNearest /\ ParentCalled /\ OneCallASpan /\ (\A p \in promises : PromiseOf(p)) /\ SpansInStep

-----------------------------------------------------------------------------
\* A call is pushed.
PushesFrame(f) == frames' = <<f>> \o frames
SpansGrow(f) ==
  \/ f.step = 0 /\ steps' = steps
  \/ /\ f.step = Len(steps) + 1 /\ frames # <<>> /\ Len(steps) < MaxSteps
     /\ \E s \in Spans : /\ steps' = Append(steps, s) /\ s.req = f.req /\ s.parent = top.caller
                         /\ s.ends = 0 /\ s.error = s.failed
FlagsRise(f) ==
  \/ ~f.clears /\ active' = active
  \/ f.clears /\ f.m \in Members(provider) /\ ~active[f.m] /\ active' = [active EXCEPT ![f.m] = TRUE]
\* What the frame is to the one below it.
SitsOn(f) ==
  /\ frames = <<>> => f.step = 0 /\ ~f.wrapped /\ ~f.clears
  /\ frames # <<>> => f.req = top.req /\ (f.step = 0 => f.caller = top.caller)
  /\ f.wrapped /\ ~f.clears /\ f.req \in held => active[f.m]

LEMMA PushOf ==
    ASSUME InstrumentInv, NEW f, PushesFrame(f)
    PROVE  /\ Len(frames) \in Nat /\ DOMAIN frames = 1..Len(frames)
           /\ Len(frames') = Len(frames) + 1 /\ DOMAIN frames' = 1..Len(frames) + 1
           /\ frames'[1] = f /\ \A i \in DOMAIN frames : i + 1 \in DOMAIN frames' /\ frames'[i + 1] = frames[i]
           /\ \A i \in DOMAIN frames' : i = 1 \/ (i - 1 \in DOMAIN frames /\ frames'[i] = frames[i - 1])
           /\ f \in Frames => frames' \in Seq(Frames)
<1>1. frames \in Seq(Frames) /\ Len(frames) \in Nat /\ DOMAIN frames = 1..Len(frames)
  BY DEF InstrumentInv, InstrumentShape
<1>2. <<f>> \in Seq({f}) /\ Len(<<f>>) = 1 /\ <<f>>[1] = f
  OBVIOUS
<1>3. /\ Len(frames') = Len(frames) + 1 /\ DOMAIN frames' = 1..Len(frames) + 1
      /\ \A i \in 1..Len(frames) + 1 : frames'[i] = IF i <= 1 THEN <<f>>[i] ELSE frames[i - 1]
  <2>1. frames \in Seq(Frames \cup {f}) /\ <<f>> \in Seq(Frames \cup {f})
    BY <1>1, <1>2
  <2>. QED  BY <1>1, <1>2, <2>1, ConcatProperties DEF PushesFrame
<1>4. f \in Frames => frames' \in Seq(Frames)
  <2>1. ASSUME f \in Frames PROVE <<f>> \in Seq(Frames)
    BY <2>1
  <2>. QED  BY <1>1, <2>1, ConcatProperties DEF PushesFrame
<1>. QED  BY <1>1, <1>2, <1>3, <1>4

LEMMA PushSpans ==
    ASSUME InstrumentInv, NEW f, SpansGrow(f)
    PROVE  /\ steps' \in Seq(Spans) /\ Len(steps') <= MaxSteps
           /\ DOMAIN steps = 1..Len(steps) /\ Len(steps) \in Nat
           /\ DOMAIN steps \subseteq DOMAIN steps' /\ \A s \in DOMAIN steps : steps'[s] = steps[s]
           /\ f.step = 0 => steps' = steps
           /\ f.step # 0 => /\ f.step = Len(steps) + 1 /\ DOMAIN steps' = DOMAIN steps \cup {f.step}
                            /\ steps'[f.step].req = f.req /\ steps'[f.step].parent = top.caller
                            /\ steps'[f.step].ends = 0 /\ steps'[f.step].error = steps'[f.step].failed
                            /\ frames # <<>>
<1>1. steps \in Seq(Spans) /\ Len(steps) \in Nat /\ DOMAIN steps = 1..Len(steps) /\ Len(steps) <= MaxSteps
  BY DEF InstrumentInv, InstrumentShape
<1>2. CASE f.step = 0 /\ steps' = steps
  BY <1>1, <1>2
<1>3. CASE ~(f.step = 0 /\ steps' = steps)
  <2>1. PICK s \in Spans : /\ steps' = Append(steps, s) /\ s.req = f.req /\ s.parent = top.caller
                           /\ s.ends = 0 /\ s.error = s.failed
                           /\ f.step = Len(steps) + 1 /\ frames # <<>> /\ Len(steps) < MaxSteps
    BY <1>3 DEF SpansGrow
  <2>2. /\ steps' \in Seq(Spans) /\ Len(steps') = Len(steps) + 1 /\ DOMAIN steps' = 1..Len(steps) + 1
        /\ steps'[Len(steps) + 1] = s /\ \A k \in DOMAIN steps : steps'[k] = steps[k]
    BY <1>1, <2>1
  <2>3. Len(steps') <= MaxSteps
    <3>1. MaxSteps \in Nat
      BY InstrumentAssumption
    <3>2. ASSUME NEW n \in Nat, n < MaxSteps PROVE n + 1 <= MaxSteps
      BY <3>1, <3>2
    <3>. QED  BY <1>1, <2>1, <2>2, <3>2
  <2>4. DOMAIN steps' = DOMAIN steps \cup {f.step} /\ f.step # 0
    BY <1>1, <2>1, <2>2
  <2>. QED  BY <1>1, <2>1, <2>2, <2>3, <2>4
<1>. QED  BY <1>2, <1>3

LEMMA PushKeepsFrames ==
    ASSUME InstrumentInv, NEW f, PushesFrame(f), SpansGrow(f), FlagsRise(f), SitsOn(f),
           f \in Frames, FrameOf(f, f.req, steps', active', held, provider), UNCHANGED <<provider, promises, held>>
    PROVE  OneContext' /\ Bottom'
<1>1. /\ \A i \in DOMAIN frames : FrameHolds(frames[i], frames[Len(frames)].req) /\ frames[i] \in Frames
      /\ Len(frames) # 0 => frames # <<>> /\ frames[1] = top
      /\ Len(frames) = 0 => frames = <<>>
  <2>1. frames \in Seq(Frames)
    BY DEF InstrumentInv, InstrumentShape
  <2>. QED  BY <2>1 DEF InstrumentInv, OneContext, top
<1>2. /\ Len(frames) \in Nat /\ DOMAIN frames = 1..Len(frames)
      /\ Len(frames') = Len(frames) + 1 /\ DOMAIN frames' = 1..Len(frames) + 1 /\ frames'[1] = f
      /\ \A i \in DOMAIN frames : i + 1 \in DOMAIN frames' /\ frames'[i + 1] = frames[i]
      /\ \A i \in DOMAIN frames' : i = 1 \/ (i - 1 \in DOMAIN frames /\ frames'[i] = frames[i - 1])
  BY PushOf
<1>3. PICK r : r = frames'[Len(frames')].req
  OBVIOUS
<1>4. f.req = r /\ \A i \in DOMAIN frames : frames[i].req = r
  <2>1. CASE Len(frames) = 0
    BY <1>2, <1>3, <2>1
  <2>2. CASE Len(frames) # 0
    <3>1. Len(frames) \in DOMAIN frames /\ 1 \in DOMAIN frames
      BY <1>2, <2>2
    <3>2. frames'[Len(frames')] = frames[Len(frames)]
      BY <1>2, <3>1
    <3>3. \A i \in DOMAIN frames : frames[i].req = r
      BY <1>1, <1>3, <3>2 DEF FrameHolds, FrameOf
    <3>. QED  BY <1>1, <2>2, <3>1, <3>3 DEF SitsOn
  <2>. QED  BY <1>2, <2>1, <2>2
<1>5. ASSUME NEW g \in Frames, FrameHolds(g, r) PROVE FrameOf(g, r, steps', active', held, provider)
  <2>1. /\ DOMAIN steps \subseteq DOMAIN steps' /\ \A s \in DOMAIN steps : steps'[s] = steps[s]
    BY PushSpans
  <2>2. \A m \in Members(provider) : active[m] => active'[m]
    BY DEF FlagsRise, InstrumentInv, InstrumentShape
  <2>3. FrameOf(g, r, steps, active, held, provider)
    BY <1>5 DEF FrameHolds
  <2>. QED  BY <2>1, <2>2, <2>3 DEF FrameOf
<1>6. ASSUME NEW i \in DOMAIN frames' PROVE FrameOf(frames'[i], r, steps', active', held, provider)
  <2>1. CASE i = 1
    BY <1>2, <1>4, <2>1
  <2>2. CASE i # 1
    <3>1. PICK j \in DOMAIN frames : frames'[i] = frames[j]
      BY <1>2, <2>2
    <3>2. frames[j] \in Frames /\ FrameHolds(frames[j], r)
      BY <1>1, <1>4 DEF FrameHolds, FrameOf
    <3>. QED  BY <1>5, <3>1, <3>2
  <2>. QED  BY <2>1, <2>2
<1>7. OneContext'
  BY <1>3, <1>6 DEF OneContext, FrameHolds
<1>8. Bottom'
  <2>1. CASE Len(frames) = 0
    BY <1>1, <1>2, <2>1 DEF SitsOn, Bottom
  <2>2. CASE Len(frames) # 0
    <3>1. Len(frames) \in DOMAIN frames /\ frames'[Len(frames')] = frames[Len(frames)] /\ frames # <<>>
      <4>1. Len(frames) \in DOMAIN frames
        BY <1>2, <2>2
      <4>2. frames # <<>>
        BY <1>1, <2>2
      <4>. QED  BY <1>2, <4>1, <4>2
    <3>2. PICK g : g = frames[Len(frames)]
      OBVIOUS
    <3>3. g.step = 0 /\ ~g.wrapped /\ ~g.clears
      BY <3>1, <3>2 DEF InstrumentInv, Bottom
    <3>4. frames'[Len(frames')] = g
      BY <3>1, <3>2
    <3>. QED  BY <3>3, <3>4 DEF Bottom
  <2>. QED  BY <2>1, <2>2
<1>. QED  BY <1>7, <1>8

LEMMA PushKeepsFlags ==
    ASSUME InstrumentInv, NEW f, PushesFrame(f), FlagsRise(f), SitsOn(f), f \in Frames,
           f.wrapped => f.m \in Members(provider), UNCHANGED <<provider, promises, held>>
    PROVE  FlagIsACall' /\ OneCallAMember' /\ WrappedIsTraced'
<1>1. /\ Len(frames) \in Nat /\ DOMAIN frames = 1..Len(frames)
      /\ DOMAIN frames' = 1..Len(frames) + 1 /\ frames'[1] = f
      /\ \A i \in DOMAIN frames : i + 1 \in DOMAIN frames' /\ frames'[i + 1] = frames[i]
      /\ \A i \in DOMAIN frames' : i = 1 \/ (i - 1 \in DOMAIN frames /\ frames'[i] = frames[i - 1])
  BY PushOf
<1>2. 1 \in DOMAIN frames'
  BY <1>1
<1>3. active \in [Members(provider) -> BOOLEAN]
  BY DEF InstrumentInv, InstrumentShape
<1>4. ASSUME NEW m \in Members(provider), active'[m]
      PROVE  \E i \in DOMAIN frames' : frames'[i].clears /\ frames'[i].m = m
  <2>1. CASE f.clears /\ f.m = m
    BY <1>1, <1>2, <2>1
  <2>2. CASE ~(f.clears /\ f.m = m)
    <3>1. active[m]
      BY <1>3, <1>4, <2>2 DEF FlagsRise
    <3>2. PICK i \in DOMAIN frames : frames[i].clears /\ frames[i].m = m
      BY <3>1 DEF InstrumentInv, FlagIsACall
    <3>. QED  BY <1>1, <3>2
  <2>. QED  BY <2>1, <2>2
<1>5. ASSUME NEW j \in DOMAIN frames, f.clears, frames[j].clears, frames[j].m = f.m PROVE FALSE
  <2>1. FrameHolds(frames[j], frames[Len(frames)].req)
    BY DEF InstrumentInv, OneContext
  <2>. QED  BY <1>5, <2>1 DEF FlagsRise, FrameHolds, FrameOf
<1>6. ASSUME NEW i \in DOMAIN frames', NEW j \in DOMAIN frames', i < j,
             frames'[i].clears, frames'[j].clears, frames'[i].m = frames'[j].m
      PROVE  FALSE
  <2>1. j # 1 /\ j - 1 \in DOMAIN frames /\ frames'[j] = frames[j - 1] /\ i \in Nat /\ j \in Nat
    BY <1>1, <1>6
  <2>2. CASE i = 1
    BY <1>1, <1>5, <1>6, <2>1, <2>2
  <2>3. CASE i # 1
    <3>1. i - 1 \in DOMAIN frames /\ frames'[i] = frames[i - 1] /\ i - 1 # j - 1
      BY <1>1, <1>6, <2>1, <2>3
    <3>. QED  BY <1>6, <2>1, <3>1 DEF InstrumentInv, OneCallAMember
  <2>. QED  BY <2>2, <2>3
<1>7. OneCallAMember'
  <2>1. ASSUME NEW i \in DOMAIN frames', NEW j \in DOMAIN frames',
               frames'[i].clears, frames'[j].clears, frames'[i].m = frames'[j].m
        PROVE  i = j
    <3>1. i \in Nat /\ j \in Nat
      BY <1>1
    <3>. QED  BY <1>6, <2>1, <3>1
  <2>. QED  BY <2>1 DEF OneCallAMember
<1>8. ASSUME NEW i \in DOMAIN frames', frames'[i].wrapped, ~frames'[i].clears, frames'[i].req \in held
      PROVE  \E j \in DOMAIN frames' : j > i /\ frames'[j].clears /\ frames'[j].m = frames'[i].m
  <2>1. CASE i = 1
    <3>1. active[f.m] /\ f.m \in Members(provider)
      BY <1>1, <1>8, <2>1 DEF SitsOn
    <3>2. PICK k \in DOMAIN frames : frames[k].clears /\ frames[k].m = f.m
      BY <3>1 DEF InstrumentInv, FlagIsACall
    <3>3. k + 1 \in DOMAIN frames' /\ frames'[k + 1] = frames[k] /\ k + 1 > 1
      BY <1>1
    <3>. QED  BY <1>1, <2>1, <3>2, <3>3
  <2>2. CASE i # 1
    <3>1. i - 1 \in DOMAIN frames /\ frames'[i] = frames[i - 1]
      BY <1>1, <2>2
    <3>2. PICK k \in DOMAIN frames : k > i - 1 /\ frames[k].clears /\ frames[k].m = frames[i - 1].m
      BY <1>8, <3>1 DEF InstrumentInv, WrappedIsTraced
    <3>3. k + 1 \in DOMAIN frames' /\ frames'[k + 1] = frames[k] /\ k + 1 > i
      BY <1>1, <3>1, <3>2
    <3>. QED  BY <3>1, <3>2, <3>3
  <2>. QED  BY <2>1, <2>2
<1>. QED  BY <1>4, <1>7, <1>8 DEF FlagIsACall, WrappedIsTraced

LEMMA PushKeepsCallers ==
    ASSUME InstrumentInv, NEW f, PushesFrame(f), SpansGrow(f), SitsOn(f), f \in Frames,
           f.step # 0 => f.caller = f.step, UNCHANGED <<provider, promises, held>>
    PROVE  CallerIsNearest' /\ ParentCalled'
<1>1. /\ Len(frames) \in Nat /\ DOMAIN frames = 1..Len(frames)
      /\ Len(frames') = Len(frames) + 1 /\ DOMAIN frames' = 1..Len(frames) + 1 /\ frames'[1] = f
      /\ \A i \in DOMAIN frames : i + 1 \in DOMAIN frames' /\ frames'[i + 1] = frames[i]
      /\ \A i \in DOMAIN frames' : i = 1 \/ (i - 1 \in DOMAIN frames /\ frames'[i] = frames[i - 1])
  BY PushOf
<1>2. /\ \A i \in DOMAIN frames : frames[i] \in Frames /\ frames[i].step \in Nat
      /\ Len(frames) # 0 => frames # <<>> /\ 1 \in DOMAIN frames /\ frames[1] = top
                            /\ Len(frames) \in DOMAIN frames /\ frames'[Len(frames')] = frames[Len(frames)]
      /\ Len(frames) = 0 => frames = <<>>
  <2>1. frames \in Seq(Frames)
    BY DEF InstrumentInv, InstrumentShape
  <2>2. ASSUME NEW i \in DOMAIN frames PROVE frames[i] \in Frames /\ frames[i].step \in Nat
    <3>1. frames[i] \in Frames
      BY <2>1
    <3>. QED  BY <3>1 DEF Frames
  <2>3. ASSUME Len(frames) # 0
        PROVE  /\ frames # <<>> /\ 1 \in DOMAIN frames /\ frames[1] = top
               /\ Len(frames) \in DOMAIN frames /\ frames'[Len(frames')] = frames[Len(frames)]
    <3>1. Len(frames) \in DOMAIN frames /\ 1 \in DOMAIN frames
      BY <1>1, <2>3
    <3>. QED  BY <1>1, <2>1, <2>3, <3>1 DEF top
  <2>. QED  BY <2>1, <2>2, <2>3
<1>3. ASSUME NEW i \in DOMAIN frames', \A k \in DOMAIN frames' : k >= i => frames'[k].step = 0
      PROVE  frames'[i].caller = frames'[Len(frames')].caller
  <2>1. CASE Len(frames) = 0
    BY <1>1, <2>1
  <2>2. CASE Len(frames) # 0
    <3>1. PICK j \in DOMAIN frames : /\ frames'[i].caller = frames[j].caller
                                    /\ \A k \in DOMAIN frames : k >= j => frames[k].step = 0
      <4>1. CASE i = 1
        <5>1. f.step = 0 /\ f.caller = frames[1].caller
          BY <1>1, <1>2, <1>3, <2>2, <4>1 DEF SitsOn
        <5>2. ASSUME NEW k \in DOMAIN frames PROVE frames[k].step = 0
          <6>1. k + 1 \in DOMAIN frames' /\ k + 1 >= i /\ frames'[k + 1] = frames[k]
            BY <1>1, <4>1
          <6>. QED  BY <1>3, <6>1
        <5>. QED  BY <1>1, <1>2, <2>2, <4>1, <5>1, <5>2
      <4>2. CASE i # 1
        <5>1. i - 1 \in DOMAIN frames /\ frames'[i] = frames[i - 1]
          BY <1>1, <4>2
        <5>2. ASSUME NEW k \in DOMAIN frames, k >= i - 1 PROVE frames[k].step = 0
          <6>1. k + 1 \in DOMAIN frames' /\ k + 1 >= i /\ frames'[k + 1] = frames[k]
            BY <1>1, <5>1, <5>2
          <6>. QED  BY <1>3, <6>1
        <5>. QED  BY <5>1, <5>2
      <4>. QED  BY <4>1, <4>2
    <3>2. frames[j].caller = frames[Len(frames)].caller
      BY <3>1 DEF InstrumentInv, CallerIsNearest
    <3>. QED  BY <1>2, <2>2, <3>1, <3>2
  <2>. QED  BY <2>1, <2>2
<1>4. ASSUME NEW i \in DOMAIN frames', NEW j \in DOMAIN frames', i <= j, frames'[j].step # 0,
             \A k \in DOMAIN frames' : i <= k /\ k < j => frames'[k].step = 0
      PROVE  frames'[i].caller = frames'[j].step
  <2>1. CASE j = 1
    <3>1. i = 1
      BY <1>1, <1>4, <2>1
    <3>. QED  BY <1>1, <1>4, <2>1, <3>1
  <2>2. CASE j # 1
    <3>1. j - 1 \in DOMAIN frames /\ frames'[j] = frames[j - 1] /\ i \in Nat /\ j \in Nat /\ Len(frames) # 0
      BY <1>1, <2>2
    <3>2. PICK h \in DOMAIN frames : /\ h <= j - 1 /\ frames'[i].caller = frames[h].caller
                                    /\ \A k \in DOMAIN frames : h <= k /\ k < j - 1 => frames[k].step = 0
      <4>1. CASE i = 1
        <5>1. f.step = 0 /\ f.caller = frames[1].caller
          <6>1. f.step = 0
            BY <1>1, <1>4, <2>2, <3>1, <4>1
          <6>. QED  BY <1>2, <3>1, <6>1 DEF SitsOn
        <5>2. ASSUME NEW k \in DOMAIN frames, k < j - 1 PROVE frames[k].step = 0
          <6>1. k + 1 \in DOMAIN frames' /\ k + 1 >= i /\ k + 1 < j /\ frames'[k + 1] = frames[k]
            BY <1>1, <3>1, <4>1, <5>2
          <6>. QED  BY <1>4, <6>1
        <5>3. 1 <= j - 1 /\ 1 \in DOMAIN frames
          BY <1>1, <1>2, <3>1
        <5>. QED  BY <1>1, <4>1, <5>1, <5>2, <5>3
      <4>2. CASE i # 1
        <5>1. i - 1 \in DOMAIN frames /\ frames'[i] = frames[i - 1] /\ i - 1 <= j - 1
          BY <1>1, <1>4, <3>1, <4>2
        <5>2. ASSUME NEW k \in DOMAIN frames, k >= i - 1, k < j - 1 PROVE frames[k].step = 0
          <6>1. k + 1 \in DOMAIN frames' /\ k + 1 >= i /\ k + 1 < j /\ frames'[k + 1] = frames[k]
            BY <1>1, <3>1, <5>1, <5>2
          <6>. QED  BY <1>4, <6>1
        <5>. QED  BY <5>1, <5>2
      <4>. QED  BY <4>1, <4>2
    <3>3. frames[h].caller = frames[j - 1].step
      BY <1>4, <3>1, <3>2 DEF InstrumentInv, CallerIsNearest
    <3>. QED  BY <3>1, <3>2, <3>3
  <2>. QED  BY <2>1, <2>2
<1>5. ASSUME NEW i \in DOMAIN frames', frames'[i].step # 0
      PROVE  i + 1 \in DOMAIN frames' /\ steps'[frames'[i].step].parent = frames'[i + 1].caller
  <2>1. /\ \A s \in DOMAIN steps : steps'[s] = steps[s]
        /\ f.step # 0 => steps'[f.step].parent = top.caller /\ frames # <<>>
    BY PushSpans
  <2>2. CASE i = 1
    <3>1. Len(frames) # 0 /\ steps'[f.step].parent = frames[1].caller
      BY <1>1, <1>2, <1>5, <2>1, <2>2
    <3>2. 1 \in DOMAIN frames
      BY <1>2, <3>1
    <3>. QED  BY <1>1, <2>2, <3>1, <3>2
  <2>3. CASE i # 1
    <3>1. i - 1 \in DOMAIN frames /\ frames'[i] = frames[i - 1] /\ i \in Nat
      BY <1>1, <2>3
    <3>2. (i - 1) + 1 \in DOMAIN frames /\ steps[frames[i - 1].step].parent = frames[(i - 1) + 1].caller
      BY <1>5, <3>1 DEF InstrumentInv, ParentCalled
    <3>3. i \in DOMAIN frames /\ (i - 1) + 1 = i
      BY <3>1, <3>2
    <3>4. frames[i - 1].step \in DOMAIN steps
      BY <1>5, <3>1 DEF InstrumentInv, OneContext, FrameHolds, FrameOf
    <3>. QED  BY <1>1, <2>1, <3>1, <3>2, <3>3, <3>4
  <2>. QED  BY <2>2, <2>3
<1>. QED  BY <1>3, <1>4, <1>5 DEF CallerIsNearest, ParentCalled

LEMMA PushKeepsSpans ==
    ASSUME InstrumentInv, NEW f, PushesFrame(f), SpansGrow(f), f \in Frames,
           UNCHANGED <<provider, promises, held>>
    PROVE  OneCallASpan' /\ (\A p \in promises : PromiseOf(p))' /\ SpansInStep'
<1>1. /\ Len(frames) \in Nat /\ DOMAIN frames = 1..Len(frames)
      /\ DOMAIN frames' = 1..Len(frames) + 1 /\ frames'[1] = f
      /\ \A i \in DOMAIN frames : i + 1 \in DOMAIN frames' /\ frames'[i + 1] = frames[i]
      /\ \A i \in DOMAIN frames' : i = 1 \/ (i - 1 \in DOMAIN frames /\ frames'[i] = frames[i - 1])
  BY PushOf
<1>2. /\ DOMAIN steps = 1..Len(steps) /\ Len(steps) \in Nat
      /\ DOMAIN steps \subseteq DOMAIN steps' /\ \A s \in DOMAIN steps : steps'[s] = steps[s]
      /\ f.step = 0 => steps' = steps
      /\ f.step # 0 => /\ f.step = Len(steps) + 1 /\ DOMAIN steps' = DOMAIN steps \cup {f.step}
                       /\ steps'[f.step].ends = 0 /\ steps'[f.step].error = steps'[f.step].failed
  BY PushSpans
<1>3. /\ f.step # 0 => f.step \notin DOMAIN steps
      /\ \A i \in DOMAIN frames : frames[i].step # 0 => frames[i].step \in DOMAIN steps
      /\ \A p \in promises : p.step \in DOMAIN steps /\ p.step # 0
  BY <1>2 DEF InstrumentInv, OneContext, FrameHolds, FrameOf, PromiseOf
<1>4. ASSUME NEW i \in DOMAIN frames', NEW j \in DOMAIN frames', frames'[i].step # 0,
             frames'[i].step = frames'[j].step
      PROVE  i = j
  <2>1. CASE i = 1 /\ j = 1
    BY <2>1
  <2>2. CASE i = 1 /\ j # 1
    BY <1>1, <1>3, <1>4, <2>2
  <2>3. CASE i # 1 /\ j = 1
    BY <1>1, <1>3, <1>4, <2>3
  <2>4. CASE i # 1 /\ j # 1
    <3>1. /\ i - 1 \in DOMAIN frames /\ frames'[i] = frames[i - 1] /\ i \in Nat
          /\ j - 1 \in DOMAIN frames /\ frames'[j] = frames[j - 1] /\ j \in Nat
      BY <1>1, <2>4
    <3>2. i - 1 = j - 1
      BY <1>4, <3>1 DEF InstrumentInv, OneCallASpan
    <3>. QED  BY <3>1, <3>2
  <2>. QED  BY <2>1, <2>2, <2>3, <2>4
<1>5. ASSUME NEW i \in DOMAIN frames', NEW p \in promises PROVE frames'[i].step # p.step
  <2>1. CASE i = 1
    BY <1>1, <1>3, <2>1
  <2>2. CASE i # 1
    BY <1>1, <2>2 DEF InstrumentInv, OneCallASpan
  <2>. QED  BY <2>1, <2>2
<1>6. OneCallASpan'
  BY <1>4, <1>5 DEF InstrumentInv, OneCallASpan
<1>7. (\A p \in promises : PromiseOf(p))'
  <2>1. ASSUME NEW p \in promises PROVE p.step \in DOMAIN steps' /\ steps'[p.step].req = p.req
    <3>1. p.step \in DOMAIN steps /\ steps[p.step].req = p.req
      BY DEF InstrumentInv, PromiseOf
    <3>. QED  BY <1>2, <3>1
  <2>. QED  BY <2>1 DEF PromiseOf
<1>8. OnStack' = OnStack \cup ({f.step} \ {0})
  <2>1. ASSUME NEW s, s \in OnStack' PROVE s \in OnStack \cup ({f.step} \ {0})
    <3>1. PICK i \in DOMAIN frames' : s = frames'[i].step /\ s # 0
      BY <2>1 DEF OnStack
    <3>. QED  BY <1>1, <3>1 DEF OnStack
  <2>2. ASSUME NEW s, s \in OnStack PROVE s \in OnStack'
    <3>1. PICK i \in DOMAIN frames : s = frames[i].step /\ s # 0
      BY <2>2 DEF OnStack
    <3>2. i + 1 \in DOMAIN frames' /\ s = frames'[i + 1].step
      BY <1>1, <3>1
    <3>. QED  BY <3>1, <3>2 DEF OnStack
  <2>3. ASSUME f.step # 0 PROVE f.step \in OnStack'
    <3>1. 1 \in DOMAIN frames' /\ frames'[1] = f
      BY <1>1
    <3>. QED  BY <2>3, <3>1 DEF OnStack
  <2>. QED  BY <2>1, <2>2, <2>3
<1>9. ASSUME NEW s \in DOMAIN steps', NEW live,
             live = (s \in OnStack' \/ \E p \in promises : p.step = s)
      PROVE  /\ live => steps'[s].ends = 0
             /\ ~live /\ steps'[s].req \in held => steps'[s].ends = 1
             /\ steps'[s].error = steps'[s].failed
  <2>1. CASE s \in DOMAIN steps
    <3>1. steps'[s] = steps[s] /\ live = (s \in OnStack \/ \E p \in promises : p.step = s)
      BY <1>2, <1>3, <1>8, <1>9, <2>1
    <3>. QED  BY <2>1, <3>1 DEF InstrumentInv, SpansInStep
  <2>2. CASE s \notin DOMAIN steps
    <3>1. s = f.step /\ s # 0
      BY <1>2, <2>2
    <3>2. live
      BY <1>8, <1>9, <3>1
    <3>. QED  BY <1>2, <3>1, <3>2
  <2>. QED  BY <2>1, <2>2
<1>10. SpansInStep'
  BY <1>9 DEF SpansInStep
<1>. QED  BY <1>6, <1>7, <1>10

LEMMA PushKeeps ==
    ASSUME InstrumentInv, NEW f, PushesFrame(f), SpansGrow(f), FlagsRise(f), SitsOn(f),
           f \in Frames, FrameOf(f, f.req, steps', active', held, provider), Len(frames) < MaxDepth,
           UNCHANGED <<provider, promises, held>>
    PROVE  InstrumentInv'
<1>1. Len(frames) \in Nat /\ Len(frames') = Len(frames) + 1 /\ frames' \in Seq(Frames)
  BY PushOf
<1>2. steps' \in Seq(Spans) /\ Len(steps') <= MaxSteps
  BY PushSpans
<1>3. Len(frames') <= MaxDepth
  <2>1. MaxDepth \in Nat
    BY InstrumentAssumption
  <2>2. ASSUME NEW n \in Nat, n < MaxDepth PROVE n + 1 <= MaxDepth
    BY <2>1, <2>2
  <2>. QED  BY <1>1, <2>2
<1>4. active' \in [Members(provider) -> BOOLEAN]
  BY DEF FlagsRise, InstrumentInv, InstrumentShape
<1>5. Frames' = Frames /\ Spans' = Spans
  BY DEF Frames, Spans
<1>6. InstrumentShape'
  BY <1>1, <1>2, <1>3, <1>4, <1>5 DEF InstrumentInv, InstrumentShape
<1>7. (f.step # 0 => f.caller = f.step) /\ (f.wrapped => f.m \in Members(provider))
  BY DEF FrameOf
<1>. QED  BY <1>6, <1>7, PushKeepsFrames, PushKeepsFlags, PushKeepsCallers, PushKeepsSpans DEF InstrumentInv

-----------------------------------------------------------------------------
\* The frames that are pushed.
LEMMA OutsideIs ==
    ASSUME NEW r, NEW c, r \in Requests \cup {"none"}, c \in Nat
    PROVE  /\ Outside(r, c) \in Frames /\ Outside(r, c).m = "" /\ Outside(r, c).this = "raw"
           /\ Outside(r, c).req = r /\ Outside(r, c).caller = c /\ Outside(r, c).step = 0
           /\ ~Outside(r, c).wrapped /\ ~Outside(r, c).clears
<1>1. PICK a, b, n, w : a = "" /\ b = "raw" /\ n = 0 /\ w \in BOOLEAN /\ w = FALSE
  OBVIOUS
<1>2. Outside(r, c) = [m |-> a, this |-> b, req |-> r, caller |-> c, step |-> n, wrapped |-> w, clears |-> w]
  BY <1>1, Zenon DEF Outside
<1>3. /\ Outside(r, c).m = a /\ Outside(r, c).this = b /\ Outside(r, c).req = r
      /\ Outside(r, c).caller = c /\ Outside(r, c).step = n
  BY <1>2
<1>4. w \in BOOLEAN
  BY <1>1
<1>5. Outside(r, c).wrapped = w /\ Outside(r, c).clears = w
  BY <1>2, <1>4
<1>6. Outside(r, c) \in Frames
  <2>1. PICK M, R, B : M = Members(provider) \cup {"", "await"} /\ R = Requests \cup {"none"} /\ B = {"raw", "proxy"}
    OBVIOUS
  <2>2. a \in M /\ b \in B /\ r \in R /\ n \in Nat
    BY <1>1, <2>1
  <2>3. [m |-> a, this |-> b, req |-> r, caller |-> c, step |-> n, wrapped |-> w, clears |-> w]
          \in [m : M, this : B, req : R, caller : Nat, step : Nat, wrapped : BOOLEAN, clears : BOOLEAN]
    BY <1>4, <2>2
  <2>. QED  BY <1>2, <2>1, <2>3, Zenon DEF Frames
<1>. QED  BY <1>1, <1>3, <1>5, <1>6, Zenon

\* A frame put on the one that runs, with its operation and its caller.
LEMMA DirectIs ==
    ASSUME frames # <<>>, top \in Frames, NEW m \in Members(provider), NEW this \in {"raw", "proxy"}
    PROVE  /\ Direct(m, this) \in Frames /\ Direct(m, this).m = m /\ Direct(m, this).this = this
           /\ Direct(m, this).req = top.req /\ Direct(m, this).caller = top.caller
           /\ Direct(m, this).step = 0 /\ ~Direct(m, this).wrapped /\ ~Direct(m, this).clears
<1>1. PICK w \in BOOLEAN, n \in Nat : w = FALSE /\ n = 0
  OBVIOUS
<1>2. Direct(m, this) = [top EXCEPT !.m = m, !.this = this, !.step = n, !.wrapped = w, !.clears = w]
  BY <1>1, Zenon DEF Direct
<1>3. /\ Direct(m, this) \in Frames /\ Direct(m, this).m = m /\ Direct(m, this).this = this
      /\ Direct(m, this).req = top.req /\ Direct(m, this).caller = top.caller
      /\ Direct(m, this).step = n /\ Direct(m, this).wrapped = w /\ Direct(m, this).clears = w
  <2>1. PICK g : g = top
    OBVIOUS
  <2>2. PICK f : f = Direct(m, this)
    OBVIOUS
  <2>3. f = [g EXCEPT !.m = m, !.this = this, !.step = n, !.wrapped = w, !.clears = w]
    BY <1>2, <2>1, <2>2
  <2>4. /\ f \in Frames /\ f.m = m /\ f.this = this /\ f.req = g.req /\ f.caller = g.caller
        /\ f.step = n /\ f.wrapped = w /\ f.clears = w
    <3>1. g \in Frames
      BY <2>1
    <3>2. f = [m |-> m, this |-> this, req |-> g.req, caller |-> g.caller, step |-> n, wrapped |-> w, clears |-> w]
      BY <2>3, <3>1 DEF Frames
    <3>3. g.req \in Requests \cup {"none"} /\ g.caller \in Nat
      BY <3>1 DEF Frames
    <3>. QED  BY <3>2, <3>3 DEF Frames
  <2>. QED  BY <2>1, <2>2, <2>4
<1>. QED  BY <1>1, <1>3

\* What is called through a wrapper that opens no span, and one that opens one.
WrappedOn(d) == [d EXCEPT !.wrapped = TRUE]
LEMMA WrappedIs ==
    ASSUME NEW d \in Frames
    PROVE  /\ WrappedOn(d) \in Frames /\ WrappedOn(d).m = d.m /\ WrappedOn(d).this = d.this
           /\ WrappedOn(d).req = d.req /\ WrappedOn(d).caller = d.caller /\ WrappedOn(d).step = d.step
           /\ WrappedOn(d).wrapped /\ WrappedOn(d).clears = d.clears
<1>1. PICK w \in BOOLEAN : w = TRUE
  OBVIOUS
<1>2. WrappedOn(d) = [d EXCEPT !.wrapped = w]
  BY <1>1, Zenon DEF WrappedOn
<1>3. /\ WrappedOn(d) \in Frames /\ WrappedOn(d).m = d.m /\ WrappedOn(d).this = d.this
      /\ WrappedOn(d).req = d.req /\ WrappedOn(d).caller = d.caller /\ WrappedOn(d).step = d.step
      /\ WrappedOn(d).wrapped = w /\ WrappedOn(d).clears = d.clears
  BY <1>2 DEF Frames
<1>. QED  BY <1>1, <1>3, Zenon

MarkedOn(d) == [d EXCEPT !.clears = TRUE]
LEMMA MarkedIs ==
    ASSUME NEW d \in Frames
    PROVE  /\ MarkedOn(d) \in Frames /\ MarkedOn(d).m = d.m /\ MarkedOn(d).this = d.this
           /\ MarkedOn(d).req = d.req /\ MarkedOn(d).caller = d.caller /\ MarkedOn(d).step = d.step
           /\ MarkedOn(d).clears /\ MarkedOn(d).wrapped = d.wrapped
<1>1. PICK w \in BOOLEAN : w = TRUE
  OBVIOUS
<1>2. MarkedOn(d) = [d EXCEPT !.clears = w]
  BY <1>1, Zenon DEF MarkedOn
<1>3. /\ MarkedOn(d) \in Frames /\ MarkedOn(d).m = d.m /\ MarkedOn(d).this = d.this
      /\ MarkedOn(d).req = d.req /\ MarkedOn(d).caller = d.caller /\ MarkedOn(d).step = d.step
      /\ MarkedOn(d).clears = w /\ MarkedOn(d).wrapped = d.wrapped
  BY <1>2 DEF Frames
<1>. QED  BY <1>1, <1>3, Zenon

TracedOn(d, this, n) == [d EXCEPT !.this = this, !.caller = n, !.step = n, !.clears = TRUE]
LEMMA TracedIs ==
    ASSUME NEW d, NEW this, NEW n, d \in Frames, this \in {"raw", "proxy"}, n \in Nat
    PROVE  /\ TracedOn(d, this, n) \in Frames /\ TracedOn(d, this, n).m = d.m
           /\ TracedOn(d, this, n).this = this /\ TracedOn(d, this, n).req = d.req
           /\ TracedOn(d, this, n).caller = n /\ TracedOn(d, this, n).step = n
           /\ TracedOn(d, this, n).wrapped = d.wrapped /\ TracedOn(d, this, n).clears
<1>1. PICK x \in BOOLEAN : x = TRUE
  OBVIOUS
<1>2. TracedOn(d, this, n) = [d EXCEPT !.this = this, !.caller = n, !.step = n, !.clears = x]
  BY <1>1, Zenon DEF TracedOn
<1>3. /\ d.m \in Members(provider) \cup {"", "await"} /\ d.req \in Requests \cup {"none"}
      /\ d.wrapped \in BOOLEAN
  BY DEF Frames
<1>4. PICK m, r, w : m = d.m /\ r = d.req /\ w \in BOOLEAN /\ w = d.wrapped
  BY <1>3
<1>5. TracedOn(d, this, n) =
        [m |-> m, this |-> this, req |-> r, caller |-> n, step |-> n, wrapped |-> w, clears |-> x]
  <2>1. TracedOn(d, this, n) =
          [m |-> d.m, this |-> this, req |-> d.req, caller |-> n, step |-> n, wrapped |-> d.wrapped, clears |-> x]
    BY <1>2 DEF Frames
  <2>. QED  BY <1>4, <2>1, Zenon
<1>6. TracedOn(d, this, n).m = m /\ TracedOn(d, this, n).this = this /\ TracedOn(d, this, n).req = r
      /\ TracedOn(d, this, n).caller = n /\ TracedOn(d, this, n).step = n
  BY <1>5
<1>7. TracedOn(d, this, n).wrapped = w
  BY <1>4, <1>5
<1>8. TracedOn(d, this, n).clears = x
  BY <1>4, <1>5
<1>9. TracedOn(d, this, n) \in Frames
  <2>2. m \in Members(provider) \cup {"", "await"} /\ r \in Requests \cup {"none"} /\ w \in BOOLEAN
    BY <1>4, <1>3, Zenon
  <2>3. PICK M, R : M = Members(provider) \cup {"", "await"} /\ R = Requests \cup {"none"}
    OBVIOUS
  <2>4. m \in M /\ r \in R /\ w \in BOOLEAN
    BY <2>2, <2>3
  <2>5. [m |-> m, this |-> this, req |-> r, caller |-> n, step |-> n, wrapped |-> w, clears |-> x]
          \in [m : M, this : {"raw", "proxy"}, req : R, caller : Nat, step : Nat,
               wrapped : BOOLEAN, clears : BOOLEAN]
    BY <2>4
  <2>. QED  BY <1>5, <2>3, <2>5, Zenon DEF Frames
<1>. QED  BY <1>1, <1>4, <1>6, <1>7, <1>8, <1>9, Zenon

AwaitingOn(o, this) == [o EXCEPT !.m = "await", !.this = this]
LEMMA AwaitingIs ==
    ASSUME NEW o \in Frames, NEW this \in {"raw", "proxy"}
    PROVE  /\ AwaitingOn(o, this) \in Frames /\ AwaitingOn(o, this).m = "await"
           /\ AwaitingOn(o, this).this = this /\ AwaitingOn(o, this).req = o.req
           /\ AwaitingOn(o, this).caller = o.caller /\ AwaitingOn(o, this).step = o.step
           /\ AwaitingOn(o, this).wrapped = o.wrapped /\ AwaitingOn(o, this).clears = o.clears
<1>1. /\ o.req \in Requests \cup {"none"} /\ o.caller \in Nat /\ o.step \in Nat
      /\ o.wrapped \in BOOLEAN /\ o.clears \in BOOLEAN
  BY DEF Frames
<1>2. PICK a, r, c, n, w, x :
        /\ a = "await" /\ r = o.req /\ c = o.caller /\ n = o.step
        /\ w \in BOOLEAN /\ w = o.wrapped /\ x \in BOOLEAN /\ x = o.clears
  BY <1>1
<1>3. AwaitingOn(o, this) = [m |-> a, this |-> this, req |-> r, caller |-> c, step |-> n, wrapped |-> w, clears |-> x]
  <2>1. AwaitingOn(o, this) = [o EXCEPT !.m = a, !.this = this]
    BY <1>2, Zenon DEF AwaitingOn
  <2>2. AwaitingOn(o, this) = [m |-> a, this |-> this, req |-> o.req, caller |-> o.caller, step |-> o.step,
                               wrapped |-> o.wrapped, clears |-> o.clears]
    BY <2>1 DEF Frames
  <2>. QED  BY <1>2, <2>2, Zenon
<1>4. /\ AwaitingOn(o, this).m = a /\ AwaitingOn(o, this).this = this /\ AwaitingOn(o, this).req = r
      /\ AwaitingOn(o, this).caller = c /\ AwaitingOn(o, this).step = n
  BY <1>3
<1>5. AwaitingOn(o, this).wrapped = w /\ AwaitingOn(o, this).clears = x
  BY <1>2, <1>3
<1>6. AwaitingOn(o, this) \in Frames
  <2>1. PICK M, R : M = Members(provider) \cup {"", "await"} /\ R = Requests \cup {"none"}
    OBVIOUS
  <2>2. a \in M /\ r \in R /\ c \in Nat /\ n \in Nat /\ w \in BOOLEAN /\ x \in BOOLEAN
    BY <1>1, <1>2, <2>1
  <2>3. [m |-> a, this |-> this, req |-> r, caller |-> c, step |-> n, wrapped |-> w, clears |-> x]
          \in [m : M, this : {"raw", "proxy"}, req : R, caller : Nat, step : Nat,
               wrapped : BOOLEAN, clears : BOOLEAN]
    BY <2>2
  <2>. QED  BY <1>3, <2>1, <2>3, Zenon DEF Frames
<1>. QED  BY <1>2, <1>4, <1>5, <1>6, Zenon

LEMMA StackIs ==
    ASSUME InstrumentInv
    PROVE  /\ frames # <<>> => /\ top \in Frames /\ FrameHolds(top, frames[Len(frames)].req)
                               /\ 1 \in DOMAIN frames /\ Len(frames) # 0
           /\ frames = <<>> => Len(frames) < MaxDepth
           /\ provider \in Providers /\ active \in [Members(provider) -> BOOLEAN] /\ held \subseteq Requests
           /\ "" \notin Members(provider) /\ "await" \notin Members(provider) /\ "none" \notin held
           /\ Len(steps) \in Nat /\ promises \subseteq Promises
<1>1. frames \in Seq(Frames) /\ steps \in Seq(Spans) /\ held \subseteq Requests /\ provider \in Providers
      /\ active \in [Members(provider) -> BOOLEAN] /\ promises \subseteq Promises
  BY DEF InstrumentInv, InstrumentShape
<1>2. ASSUME frames # <<>>
      PROVE  /\ top \in Frames /\ FrameHolds(top, frames[Len(frames)].req)
             /\ 1 \in DOMAIN frames /\ Len(frames) # 0
  <2>1. 1 \in DOMAIN frames /\ Len(frames) # 0
    BY <1>1, <1>2
  <2>. QED  BY <1>1, <2>1 DEF InstrumentInv, OneContext, top
<1>3. "" \notin Members(provider) /\ "await" \notin Members(provider) /\ "none" \notin held
  <2>1. {"", "await"} \cap DOMAIN provider.fields = {}
    BY <1>1, InstrumentAssumption
  <2>2. {"", "await"} \cap Members(provider) = {}
    BY <2>1 DEF Members
  <2>. QED  BY <1>1, <2>2, InstrumentAssumption
<1>4. ASSUME frames = <<>> PROVE Len(frames) < MaxDepth
  <2>1. Len(frames) = 0
    BY <1>4
  <2>2. MaxDepth \in Nat /\ MaxDepth # 0
    BY InstrumentAssumption
  <2>3. 0 < MaxDepth
    BY <2>2
  <2>. QED  BY <2>1, <2>3
<1>5. Len(steps) \in Nat
  BY <1>1
<1>. QED  BY <1>1, <1>2, <1>3, <1>4, <1>5, Zenon

LEMMA EnterKeeps ==
    ASSUME InstrumentInv, NEW r \in Requests \cup {"none"}, Enter(r)
    PROVE  InstrumentInv'
<1>1. PICK c \in Nat : c = 0
  OBVIOUS
<1>2. PICK f : f = Outside(r, c)
  OBVIOUS
<1>3. frames = <<>> /\ PushesFrame(f) /\ steps' = steps /\ active' = active
      /\ UNCHANGED <<provider, promises, held>>
  BY <1>1, <1>2 DEF Enter, Push, PushesFrame
<1>4. f \in Frames /\ f.m = "" /\ f.this = "raw" /\ f.req = r /\ f.caller = 0 /\ f.step = 0
      /\ ~f.wrapped /\ ~f.clears
  <2>1. /\ Outside(r, c) \in Frames /\ Outside(r, c).m = "" /\ Outside(r, c).this = "raw"
        /\ Outside(r, c).req = r /\ Outside(r, c).caller = c /\ Outside(r, c).step = 0
        /\ ~Outside(r, c).wrapped /\ ~Outside(r, c).clears
    BY OutsideIs
  <2>. QED  BY <1>1, <1>2, <2>1
<1>5. SpansGrow(f) /\ FlagsRise(f) /\ SitsOn(f)
  BY <1>3, <1>4 DEF SpansGrow, FlagsRise, SitsOn
<1>6. FrameOf(f, f.req, steps', active', held, provider)
  BY <1>4 DEF FrameOf
<1>. QED  BY <1>3, <1>4, <1>5, <1>6, StackIs, PushKeeps

LEMMA ResumeKeeps ==
    ASSUME InstrumentInv, NEW p \in promises, Resume(p)
    PROVE  InstrumentInv'
<1>1. p.step \in Nat /\ p.req \in Requests \cup {"none"} /\ p.this \in {"raw", "proxy"}
  <2>1. p \in Promises
    BY StackIs
  <2>. QED  BY <2>1 DEF Promises
<1>2. PICK o : o = Outside(p.req, p.step)
  OBVIOUS
<1>3. PICK f : f = AwaitingOn(o, p.this)
  OBVIOUS
<1>4. frames = <<>> /\ PushesFrame(f) /\ steps' = steps /\ active' = active
      /\ UNCHANGED <<provider, promises, held>>
  BY <1>2, <1>3 DEF Resume, Push, PushesFrame, AwaitingOn
<1>5. o \in Frames /\ o.req = p.req /\ o.caller = p.step /\ o.step = 0 /\ ~o.wrapped /\ ~o.clears
  <2>1. PICK r \in Requests \cup {"none"}, c \in Nat : r = p.req /\ c = p.step
    BY <1>1
  <2>2. o = Outside(r, c)
    BY <1>2, <2>1
  <2>3. /\ Outside(r, c) \in Frames /\ Outside(r, c).m = "" /\ Outside(r, c).this = "raw"
        /\ Outside(r, c).req = r /\ Outside(r, c).caller = c /\ Outside(r, c).step = 0
        /\ ~Outside(r, c).wrapped /\ ~Outside(r, c).clears
    BY OutsideIs
  <2>. QED  BY <2>1, <2>2, <2>3
<1>6. PICK x : x = p.this
  OBVIOUS
<1>7. f \in Frames /\ f.m = "await" /\ f.this = x /\ f.req = o.req /\ f.caller = o.caller
      /\ f.step = o.step /\ f.wrapped = o.wrapped /\ f.clears = o.clears
  <2>1. x \in {"raw", "proxy"} /\ f = AwaitingOn(o, x)
    BY <1>1, <1>3, <1>6
  <2>. QED  BY <1>5, <2>1, AwaitingIs, Zenon
<1>8. f.m = "await" /\ f.step = 0 /\ ~f.wrapped /\ ~f.clears /\ f.req = p.req /\ f.caller = p.step
  BY <1>5, <1>7, Zenon
<1>9. SpansGrow(f) /\ FlagsRise(f) /\ SitsOn(f)
  BY <1>4, <1>8 DEF SpansGrow, FlagsRise, SitsOn
<1>10. FrameOf(f, f.req, steps', active', held, provider)
  <2>1. p.step \in DOMAIN steps' /\ steps'[p.step].req = p.req
    BY <1>4 DEF InstrumentInv, PromiseOf
  <2>. QED  BY <1>8, <2>1, StackIs DEF FrameOf
<1>. QED  BY <1>4, <1>7, <1>9, <1>10, StackIs, PushKeeps

\* A call that opens no span and sets no flag.
LEMMA PlainCallKeeps ==
    ASSUME InstrumentInv, frames # <<>>, Len(frames) < MaxDepth, NEW f, f \in Frames, PushesFrame(f),
           f.req = top.req, f.caller = top.caller, f.step = 0, ~f.clears,
           f.wrapped => f.m \in Members(provider),
           f.wrapped /\ f.req \in held => active[f.m],
           f.this = "proxy" /\ f.m \in Members(provider) =>
             /\ ~isMongoDriverHandle(provider)
             /\ (\E c \in Classes(provider) : c.privates \/ c.slots) => ~shouldProxy(provider, f.m),
           active' = active, steps' = steps, UNCHANGED <<provider, promises, held>>
    PROVE  InstrumentInv'
<1>1. SpansGrow(f) /\ FlagsRise(f) /\ SitsOn(f)
  BY DEF SpansGrow, FlagsRise, SitsOn
<1>2. f.caller # 0 => f.caller \in DOMAIN steps /\ steps[f.caller].req = f.req
  BY StackIs DEF FrameHolds, FrameOf
<1>3. FrameOf(f, f.req, steps', active', held, provider)
  BY <1>2 DEF FrameOf
<1>. QED  BY <1>1, <1>3, PushKeeps

\* A traced wrapper's receiver is one its member works with.
LEMMA ReceiverWorks ==
    ASSUME proxied(provider)
    PROVE  /\ receiver(provider) \in {"raw", "proxy"}
           /\ receiver(provider) = "proxy" =>
                /\ ~isMongoDriverHandle(provider)
                /\ ~(\E c \in Classes(provider) : c.privates \/ c.slots)
<1>1. receiver(provider) \in {"raw", "proxy"}
  BY DEF receiver
<1>2. ASSUME receiver(provider) = "proxy"
      PROVE  provider.kind # "function" /\ ~requiresRawReceiver(provider)
  BY <1>2 DEF receiver
<1>3. provider.kind # "function" => ~isMongoDriverHandle(provider)
  BY DEF proxied, isFrameworkNoise
<1>4. ~requiresRawReceiver(provider) => ~(\E c \in Classes(provider) : c.privates \/ c.slots)
  BY DEF requiresRawReceiver, usesNativePrivateMembers, isSlotBackedBuiltIn
<1>. QED  BY <1>1, <1>2, <1>3, <1>4

LEMMA WrapperKeeps ==
    ASSUME InstrumentInv, frames # <<>>, Len(frames) < MaxDepth, proxied(provider),
           NEW m \in Members(provider), wrapper(m), UNCHANGED <<provider, promises, held>>
    PROVE  InstrumentInv'
<1>1. top \in Frames /\ FrameHolds(top, frames[Len(frames)].req) /\ Len(steps) \in Nat
      /\ "none" \notin held /\ held \subseteq Requests
  BY StackIs
<1>2. PICK d : d = Direct(m, "raw")
  OBVIOUS
<1>3. d \in Frames /\ d.m = m /\ d.this = "raw" /\ d.req = top.req /\ d.caller = top.caller
      /\ d.step = 0 /\ ~d.wrapped /\ ~d.clears
  BY <1>1, <1>2, DirectIs
<1>4. PICK u : u = WrappedOn(d)
  OBVIOUS
<1>5. u \in Frames /\ u.m = m /\ u.this = "raw" /\ u.req = top.req /\ u.caller = top.caller
      /\ u.step = 0 /\ u.wrapped /\ ~u.clears
  <2>1. u \in Frames /\ u.m = d.m /\ u.this = d.this /\ u.req = d.req /\ u.caller = d.caller
        /\ u.step = d.step /\ u.wrapped /\ u.clears = d.clears
    BY <1>3, <1>4, WrappedIs, Zenon
  <2>. QED  BY <1>3, <2>1, Zenon
<1>6. CASE (active[m] \/ top.req = "none") /\ PushesFrame(u) /\ active' = active /\ steps' = steps
  <2>1. u.req \in held => active[u.m]
    BY <1>1, <1>5, <1>6
  <2>. QED  BY <1>5, <1>6, <2>1, PlainCallKeeps
<1>7. CASE /\ ~active[m] /\ top.req \notin held /\ active' = [active EXCEPT ![m] = TRUE]
           /\ PushesFrame(MarkedOn(u)) /\ steps' = steps
  <2>1. PICK f : f = MarkedOn(u)
    OBVIOUS
  <2>2. f \in Frames /\ f.m = m /\ f.this = "raw" /\ f.req = top.req /\ f.caller = top.caller
        /\ f.step = 0 /\ f.wrapped /\ f.clears
    <3>1. f \in Frames /\ f.m = u.m /\ f.this = u.this /\ f.req = u.req /\ f.caller = u.caller
          /\ f.step = u.step /\ f.wrapped = u.wrapped /\ f.clears
      BY <1>5, <2>1, MarkedIs, Zenon
    <3>. QED  BY <1>5, <3>1, Zenon
  <2>3. PushesFrame(f) /\ SpansGrow(f) /\ FlagsRise(f) /\ SitsOn(f)
    BY <1>7, <2>1, <2>2 DEF SpansGrow, FlagsRise, SitsOn
  <2>4. FrameOf(f, f.req, steps', active', held, provider)
    <3>1. f.caller # 0 => f.caller \in DOMAIN steps /\ steps[f.caller].req = f.req
      BY <1>1, <2>2 DEF FrameHolds, FrameOf
    <3>2. active'[m]
      BY <1>7, StackIs
    <3>. QED  BY <1>7, <2>2, <3>1, <3>2 DEF FrameOf
  <2>. QED  BY <2>2, <2>3, <2>4, PushKeeps
<1>8. CASE /\ ~active[m] /\ top.req \in held /\ active' = [active EXCEPT ![m] = TRUE]
           /\ Len(steps) < MaxSteps /\ internalStartTraceStep(top.req, m, top.caller)
           /\ PushesFrame(TracedOn(u, receiver(provider), Len(steps) + 1))
  <2>1. PICK n, this : n = Len(steps) + 1 /\ this = receiver(provider)
    OBVIOUS
  <2>2. PICK f : f = TracedOn(u, this, n)
    OBVIOUS
  <2>3. f \in Frames /\ f.m = m /\ f.this = this /\ f.req = top.req /\ f.caller = n
        /\ f.step = n /\ f.wrapped /\ f.clears /\ n \in Nat /\ n # 0
    <3>1. n \in Nat /\ n # 0 /\ this \in {"raw", "proxy"}
      BY <1>1, <2>1, ReceiverWorks
    <3>2. f \in Frames /\ f.m = u.m /\ f.this = this /\ f.req = u.req /\ f.caller = n
          /\ f.step = n /\ f.wrapped = u.wrapped /\ f.clears
      <4>2. u \in Frames
        BY <1>5
      <4>3. /\ TracedOn(u, this, n) \in Frames /\ TracedOn(u, this, n).m = u.m
            /\ TracedOn(u, this, n).this = this /\ TracedOn(u, this, n).req = u.req
            /\ TracedOn(u, this, n).caller = n /\ TracedOn(u, this, n).step = n
            /\ TracedOn(u, this, n).wrapped = u.wrapped /\ TracedOn(u, this, n).clears
        <5>1. n \in Nat
          BY <3>1
        <5>2. this \in {"raw", "proxy"}
          BY <3>1
        <5>. QED  BY <4>2, <5>1, <5>2, TracedIs, Zenon
      <4>. QED  BY <2>2, <4>3, Zenon
    <3>. QED  BY <1>5, <3>1, <3>2, Zenon
  <2>4. PICK s \in Spans : /\ steps' = Append(steps, s) /\ s.req = top.req /\ s.parent = top.caller
                           /\ s.ends = 0 /\ s.error = s.failed
    <3>1. PICK x \in BOOLEAN : x = FALSE
      OBVIOUS
    <3>2. PICK r, c, l : r = top.req /\ c = top.caller /\ l = classNameOf(provider)
      OBVIOUS
    <3>3. PICK s : s = [req |-> r, name |-> l, m |-> m, parent |-> c, ends |-> 0, error |-> x, failed |-> x]
      OBVIOUS
    <3>4. r \in Requests /\ c \in Nat
      <4>1. c \in Nat
        BY <1>1, <3>2 DEF Frames
      <4>. QED  BY <1>1, <1>8, <3>2, <4>1
    <3>5. s \in Spans
      BY <3>2, <3>3, <3>4 DEF Spans
    <3>6. s.req = r /\ s.parent = c /\ s.ends = 0 /\ s.error = s.failed
      BY <3>3
    <3>7. steps' = Append(steps, s)
      BY <1>8, <3>1, <3>2, <3>3, Zenon DEF internalStartTraceStep
    <3>. QED  BY <3>2, <3>5, <3>6, <3>7
  <2>5. PushesFrame(f) /\ SpansGrow(f)
    <3>1. PushesFrame(f)
      BY <1>8, <2>1, <2>2
    <3>. QED  BY <1>8, <2>1, <2>3, <2>4, <3>1 DEF SpansGrow
  <2>6. FlagsRise(f) /\ SitsOn(f)
    BY <1>8, <2>3 DEF FlagsRise, SitsOn
  <2>7. FrameOf(f, f.req, steps', active', held, provider)
    <3>1. n \in DOMAIN steps' /\ steps'[n].req = f.req
      <4>1. f.step # 0 => DOMAIN steps' = DOMAIN steps \cup {f.step} /\ steps'[f.step].req = f.req
        BY <2>5, PushSpans
      <4>. QED  BY <2>3, <4>1
    <3>2. active'[m]
      BY <1>8, StackIs
    <3>3. f.this = "proxy" => /\ ~isMongoDriverHandle(provider)
                              /\ ~(\E c \in Classes(provider) : c.privates \/ c.slots)
      BY <2>1, <2>3, ReceiverWorks
    <3>. QED  BY <1>8, <2>3, <3>1, <3>2, <3>3 DEF FrameOf
  <2>. QED  BY <2>3, <2>5, <2>6, <2>7, PushKeeps
<1>. QED
  <2>1. CASE /\ active[m] \/ top.req = "none"
             /\ Push([Direct(m, "raw") EXCEPT !.wrapped = TRUE]) /\ UNCHANGED <<active, steps>>
    BY <1>2, <1>4, <1>6, <2>1 DEF Push, PushesFrame, WrappedOn
  <2>2. CASE /\ ~active[m] /\ active' = [active EXCEPT ![m] = TRUE] /\ top.req \in held
             /\ Len(steps) < MaxSteps /\ internalStartTraceStep(top.req, m, top.caller)
             /\ Push([[Direct(m, "raw") EXCEPT !.wrapped = TRUE] EXCEPT !.this = receiver(provider),
                        !.caller = Len(steps) + 1, !.step = Len(steps) + 1, !.clears = TRUE])
    BY <1>2, <1>4, <1>8, <2>2 DEF Push, PushesFrame, WrappedOn, TracedOn
  <2>3. CASE /\ ~active[m] /\ active' = [active EXCEPT ![m] = TRUE] /\ top.req \notin held
             /\ Push([[Direct(m, "raw") EXCEPT !.wrapped = TRUE] EXCEPT !.clears = TRUE]) /\ UNCHANGED steps
    BY <1>2, <1>4, <1>7, <2>3 DEF Push, PushesFrame, WrappedOn, MarkedOn
  <2>. QED  BY <2>1, <2>2, <2>3, Zenon DEF wrapper

LEMMA CallKeeps ==
    ASSUME InstrumentInv, NEW m \in Members(provider), NEW self \in BOOLEAN, Call(m, self)
    PROVE  InstrumentInv'
<1>1. frames # <<>> /\ Len(frames) < MaxDepth /\ UNCHANGED <<provider, promises, held>>
  BY DEF Call
<1>2. ASSUME NEW this \in {"raw", "proxy"}, Push(Direct(m, this)), active' = active, steps' = steps,
             this = "proxy" => proxied(provider) /\ ~shouldProxy(provider, m)
      PROVE  InstrumentInv'
  <2>1. PICK f : f = Direct(m, this)
    OBVIOUS
  <2>2. f \in Frames /\ f.m = m /\ f.this = this /\ f.req = top.req /\ f.caller = top.caller
        /\ f.step = 0 /\ ~f.wrapped /\ ~f.clears
    <3>1. top \in Frames
      BY <1>1, StackIs
    <3>. QED  BY <1>1, <2>1, <3>1, DirectIs
  <2>3. this = "proxy" => ~isMongoDriverHandle(provider)
    BY <1>2 DEF proxied, isFrameworkNoise, shouldProxy
  <2>4. PushesFrame(f)
    BY <1>2, <2>1 DEF Push, PushesFrame
  <2>. QED  BY <1>1, <1>2, <2>2, <2>3, <2>4, PlainCallKeeps
<1>3. CASE Push(Direct(m, "raw")) /\ active' = active /\ steps' = steps
  BY <1>2, <1>3
<1>4. CASE proxied(provider) /\ ~shouldProxy(provider, m) /\ Push(Direct(m, "proxy"))
           /\ active' = active /\ steps' = steps
  BY <1>2, <1>4
<1>5. CASE proxied(provider) /\ wrapper(m)
  BY <1>1, <1>5, WrapperKeeps
<1>. QED  BY <1>3, <1>4, <1>5 DEF Call

-----------------------------------------------------------------------------
\* A call returns.
FlagsFall ==
  \/ top.clears /\ active' = [active EXCEPT ![top.m] = FALSE]
  \/ ~top.clears /\ active' = active
SpansKeep ==
  /\ steps' \in Seq(Spans) /\ Len(steps') = Len(steps)
  /\ \A s \in DOMAIN steps : steps'[s].req = steps[s].req /\ steps'[s].parent = steps[s].parent

LEMMA PopOf ==
    ASSUME InstrumentInv, frames # <<>>, frames' = Tail(frames)
    PROVE  /\ Len(frames) \in Nat /\ Len(frames) >= 1 /\ DOMAIN frames = 1..Len(frames) /\ frames[1] = top
           /\ frames' \in Seq(Frames) /\ Len(frames') = Len(frames) - 1 /\ DOMAIN frames' = 1..Len(frames) - 1
           /\ \A i \in DOMAIN frames' : i + 1 \in DOMAIN frames /\ frames'[i] = frames[i + 1]
           /\ \A i \in DOMAIN frames : i # 1 => i - 1 \in DOMAIN frames' /\ frames'[i - 1] = frames[i]
           /\ frames' # <<>> => Len(frames') \in DOMAIN frames' /\ frames'[Len(frames')] = frames[Len(frames)]
<1>1. frames \in Seq(Frames) /\ Len(frames) \in Nat /\ DOMAIN frames = 1..Len(frames) /\ Len(frames) >= 1
  BY DEF InstrumentInv, InstrumentShape
<1>2. /\ frames' \in Seq(Frames) /\ Len(frames') = Len(frames) - 1 /\ DOMAIN frames' = 1..Len(frames) - 1
      /\ \A i \in 1..Len(frames) - 1 : frames'[i] = frames[i + 1]
  BY <1>1
<1>3. \A i \in DOMAIN frames' : i + 1 \in DOMAIN frames /\ frames'[i] = frames[i + 1]
  BY <1>1, <1>2
<1>4. ASSUME NEW i \in DOMAIN frames, i # 1 PROVE i - 1 \in DOMAIN frames' /\ frames'[i - 1] = frames[i]
  <2>1. i - 1 \in 1..Len(frames) - 1 /\ (i - 1) + 1 = i
    BY <1>1, <1>4
  <2>. QED  BY <1>2, <2>1
<1>5. ASSUME frames' # <<>>
      PROVE  Len(frames') \in DOMAIN frames' /\ frames'[Len(frames')] = frames[Len(frames)]
  <2>1. Len(frames') \in DOMAIN frames'
    BY <1>1, <1>2, <1>5
  <2>2. Len(frames') + 1 = Len(frames)
    BY <1>1, <1>2
  <2>. QED  BY <1>3, <2>1, <2>2
<1>. QED  BY <1>1, <1>2, <1>3, <1>4, <1>5 DEF top

LEMMA PopKeepsFrames ==
    ASSUME InstrumentInv, frames # <<>>, frames' = Tail(frames), FlagsFall, SpansKeep,
           UNCHANGED <<provider, held>>
    PROVE  OneContext' /\ Bottom' /\ active' \in [Members(provider) -> BOOLEAN]
<1>1. /\ DOMAIN frames = 1..Len(frames) /\ Len(frames) \in Nat /\ DOMAIN frames' = 1..Len(frames) - 1
      /\ Len(frames) >= 1 /\ frames[1] = top
      /\ \A i \in DOMAIN frames' : i + 1 \in DOMAIN frames /\ frames'[i] = frames[i + 1]
      /\ frames' # <<>> => Len(frames') \in DOMAIN frames' /\ frames'[Len(frames')] = frames[Len(frames)]
      /\ frames' \in Seq(Frames)
  BY PopOf
<1>2. active \in [Members(provider) -> BOOLEAN]
  BY DEF InstrumentInv, InstrumentShape
<1>3. active' \in [Members(provider) -> BOOLEAN]
  BY <1>2 DEF FlagsFall
<1>4. PICK r : r = frames[Len(frames)].req
  OBVIOUS
<1>5. ASSUME NEW i \in DOMAIN frames' PROVE FrameOf(frames'[i], r, steps', active', held, provider)
  <2>1. PICK g : g = frames'[i]
    OBVIOUS
  <2>2. i + 1 \in DOMAIN frames /\ i + 1 # 1 /\ 1 \in DOMAIN frames /\ g = frames[i + 1]
    BY <1>1, <2>1
  <2>3. FrameOf(g, r, steps, active, held, provider)
    BY <1>4, <2>2 DEF InstrumentInv, OneContext, FrameHolds
  <2>4. g.clears => active'[g.m]
    <3>1. ASSUME g.clears PROVE active'[g.m]
      <4>1. active[g.m] /\ g.m \in Members(provider)
        BY <2>3, <3>1 DEF FrameOf
      <4>2. top.clears => g.m # top.m
        BY <1>1, <2>2, <3>1 DEF InstrumentInv, OneCallAMember
      <4>. QED  BY <1>2, <4>1, <4>2 DEF FlagsFall
    <3>. QED  BY <3>1
  <2>5. DOMAIN steps' = DOMAIN steps /\ \A s \in DOMAIN steps : steps'[s].req = steps[s].req
    <3>1. steps \in Seq(Spans)
      BY DEF InstrumentInv, InstrumentShape
    <3>. QED  BY <3>1 DEF SpansKeep
  <2>6. FrameOf(g, r, steps', active', held, provider)
    BY <2>3, <2>4, <2>5 DEF FrameOf
  <2>. QED  BY <2>1, <2>6
<1>6. OneContext'
  <2>1. ASSUME NEW i \in DOMAIN frames' PROVE frames'[Len(frames')].req = r
    <3>1. frames' # <<>>
      BY <1>1
    <3>. QED  BY <1>1, <1>4, <3>1
  <2>. QED  BY <1>5, <2>1 DEF OneContext, FrameHolds
<1>7. Bottom'
  <2>1. ASSUME frames' # <<>>
        PROVE  frames'[Len(frames')].step = 0 /\ ~frames'[Len(frames')].wrapped /\ ~frames'[Len(frames')].clears
    <3>1. PICK g : g = frames[Len(frames)]
      OBVIOUS
    <3>2. g.step = 0 /\ ~g.wrapped /\ ~g.clears
      BY <3>1 DEF InstrumentInv, Bottom
    <3>3. frames'[Len(frames')] = g
      BY <1>1, <2>1, <3>1
    <3>. QED  BY <3>2, <3>3
  <2>. QED  BY <2>1 DEF Bottom
<1>. QED  BY <1>3, <1>6, <1>7

LEMMA PopKeepsFlags ==
    ASSUME InstrumentInv, frames # <<>>, frames' = Tail(frames), FlagsFall,
           UNCHANGED <<provider, held>>
    PROVE  FlagIsACall' /\ OneCallAMember' /\ WrappedIsTraced'
<1>1. /\ DOMAIN frames = 1..Len(frames) /\ Len(frames) \in Nat /\ DOMAIN frames' = 1..Len(frames) - 1
      /\ frames[1] = top
      /\ \A i \in DOMAIN frames' : i + 1 \in DOMAIN frames /\ frames'[i] = frames[i + 1]
      /\ \A i \in DOMAIN frames : i # 1 => i - 1 \in DOMAIN frames' /\ frames'[i - 1] = frames[i]
  BY PopOf
<1>2. active \in [Members(provider) -> BOOLEAN]
  BY DEF InstrumentInv, InstrumentShape
<1>3. ASSUME NEW m \in Members(provider), active'[m]
      PROVE  \E i \in DOMAIN frames' : frames'[i].clears /\ frames'[i].m = m
  <2>1. active[m] /\ ~(top.clears /\ top.m = m)
    BY <1>2, <1>3 DEF FlagsFall
  <2>2. PICK i \in DOMAIN frames : frames[i].clears /\ frames[i].m = m
    BY <2>1 DEF InstrumentInv, FlagIsACall
  <2>3. i # 1
    BY <1>1, <2>1, <2>2
  <2>. QED  BY <1>1, <2>2, <2>3
<1>4. ASSUME NEW i \in DOMAIN frames', NEW j \in DOMAIN frames',
             frames'[i].clears, frames'[j].clears, frames'[i].m = frames'[j].m
      PROVE  i = j
  <2>1. /\ i + 1 \in DOMAIN frames /\ frames'[i] = frames[i + 1]
        /\ j + 1 \in DOMAIN frames /\ frames'[j] = frames[j + 1] /\ i \in Nat /\ j \in Nat
    BY <1>1
  <2>2. i + 1 = j + 1
    BY <1>4, <2>1 DEF InstrumentInv, OneCallAMember
  <2>. QED  BY <2>1, <2>2
<1>5. ASSUME NEW i \in DOMAIN frames', frames'[i].wrapped, ~frames'[i].clears, frames'[i].req \in held
      PROVE  \E j \in DOMAIN frames' : j > i /\ frames'[j].clears /\ frames'[j].m = frames'[i].m
  <2>1. i + 1 \in DOMAIN frames /\ frames'[i] = frames[i + 1] /\ i \in Nat /\ i >= 1
    BY <1>1
  <2>2. PICK k \in DOMAIN frames : k > i + 1 /\ frames[k].clears /\ frames[k].m = frames[i + 1].m
    BY <1>5, <2>1 DEF InstrumentInv, WrappedIsTraced
  <2>3. k # 1 /\ k - 1 > i
    BY <1>1, <2>1, <2>2
  <2>. QED  BY <1>1, <2>1, <2>2, <2>3
<1>. QED  BY <1>3, <1>4, <1>5 DEF FlagIsACall, OneCallAMember, WrappedIsTraced

LEMMA PopKeepsCallers ==
    ASSUME InstrumentInv, frames # <<>>, frames' = Tail(frames), SpansKeep, UNCHANGED <<provider, held>>
    PROVE  CallerIsNearest' /\ ParentCalled'
<1>1. /\ DOMAIN frames = 1..Len(frames) /\ Len(frames) \in Nat /\ DOMAIN frames' = 1..Len(frames) - 1
      /\ Len(frames') = Len(frames) - 1
      /\ \A i \in DOMAIN frames' : i + 1 \in DOMAIN frames /\ frames'[i] = frames[i + 1]
      /\ \A i \in DOMAIN frames : i # 1 => i - 1 \in DOMAIN frames' /\ frames'[i - 1] = frames[i]
      /\ frames' # <<>> => Len(frames') \in DOMAIN frames' /\ frames'[Len(frames')] = frames[Len(frames)]
  BY PopOf
<1>2. ASSUME NEW i \in DOMAIN frames', \A k \in DOMAIN frames' : k >= i => frames'[k].step = 0
      PROVE  frames'[i].caller = frames'[Len(frames')].caller
  <2>1. i + 1 \in DOMAIN frames /\ frames'[i] = frames[i + 1] /\ i \in Nat /\ i >= 1 /\ frames' # <<>>
    BY <1>1
  <2>2. ASSUME NEW k \in DOMAIN frames, k >= i + 1 PROVE frames[k].step = 0
    <3>1. k # 1 /\ k - 1 >= i
      BY <1>1, <2>1, <2>2
    <3>. QED  BY <1>1, <1>2, <3>1
  <2>3. frames[i + 1].caller = frames[Len(frames)].caller
    BY <2>1, <2>2 DEF InstrumentInv, CallerIsNearest
  <2>. QED  BY <1>1, <2>1, <2>3
<1>3. ASSUME NEW i \in DOMAIN frames', NEW j \in DOMAIN frames', i <= j, frames'[j].step # 0,
             \A k \in DOMAIN frames' : i <= k /\ k < j => frames'[k].step = 0
      PROVE  frames'[i].caller = frames'[j].step
  <2>1. /\ i + 1 \in DOMAIN frames /\ frames'[i] = frames[i + 1] /\ i \in Nat /\ i >= 1
        /\ j + 1 \in DOMAIN frames /\ frames'[j] = frames[j + 1] /\ j \in Nat /\ i + 1 <= j + 1
    BY <1>1, <1>3
  <2>2. ASSUME NEW k \in DOMAIN frames, i + 1 <= k, k < j + 1 PROVE frames[k].step = 0
    <3>1. k # 1 /\ i <= k - 1 /\ k - 1 < j
      BY <1>1, <2>1, <2>2
    <3>. QED  BY <1>1, <1>3, <3>1
  <2>. QED  BY <1>3, <2>1, <2>2 DEF InstrumentInv, CallerIsNearest
<1>4. ASSUME NEW i \in DOMAIN frames', frames'[i].step # 0
      PROVE  i + 1 \in DOMAIN frames' /\ steps'[frames'[i].step].parent = frames'[i + 1].caller
  <2>1. i + 1 \in DOMAIN frames /\ frames'[i] = frames[i + 1] /\ i \in Nat /\ i >= 1
    BY <1>1
  <2>2. /\ (i + 1) + 1 \in DOMAIN frames
        /\ steps[frames[i + 1].step].parent = frames[(i + 1) + 1].caller
    BY <1>4, <2>1 DEF InstrumentInv, ParentCalled
  <2>3. i + 1 \in DOMAIN frames' /\ frames'[i + 1] = frames[(i + 1) + 1]
    BY <1>1, <2>1, <2>2
  <2>4. frames[i + 1].step \in DOMAIN steps
    BY <1>4, <2>1 DEF InstrumentInv, OneContext, FrameHolds, FrameOf
  <2>. QED  BY <2>1, <2>2, <2>3, <2>4 DEF SpansKeep
<1>. QED  BY <1>2, <1>3, <1>4 DEF CallerIsNearest, ParentCalled

LEMMA PopKeeps ==
    ASSUME InstrumentInv, frames # <<>>, frames' = Tail(frames), FlagsFall, SpansKeep,
           promises' \subseteq Promises, UNCHANGED <<provider, held>>
    PROVE  /\ InstrumentShape' /\ OneContext' /\ Bottom' /\ FlagIsACall' /\ OneCallAMember'
           /\ WrappedIsTraced' /\ CallerIsNearest' /\ ParentCalled'
<1>1. Frames' = Frames /\ Spans' = Spans /\ Promises' = Promises
  BY DEF Frames, Spans, Promises
<1>2. frames' \in Seq(Frames) /\ Len(frames') = Len(frames) - 1 /\ Len(frames) \in Nat
  BY PopOf
<1>3. Len(frames') <= MaxDepth /\ Len(steps') <= MaxSteps
  <2>1. Len(frames) <= MaxDepth /\ Len(steps) <= MaxSteps /\ MaxDepth \in Nat
    BY InstrumentAssumption DEF InstrumentInv, InstrumentShape
  <2>2. ASSUME NEW n \in Nat, n <= MaxDepth PROVE n - 1 <= MaxDepth
    BY <2>1, <2>2
  <2>. QED  BY <1>2, <2>1, <2>2 DEF SpansKeep
<1>4. InstrumentShape'
  BY <1>1, <1>2, <1>3, PopKeepsFrames DEF InstrumentInv, InstrumentShape, SpansKeep
<1>. QED  BY <1>4, PopKeepsFrames, PopKeepsFlags, PopKeepsCallers

-----------------------------------------------------------------------------
\* A span ends.
LEMMA EndedIs ==
    ASSUME InstrumentInv, NEW s \in DOMAIN steps, NEW e \in BOOLEAN, steps' = Ended(s, e, e)
    PROVE  /\ SpansKeep /\ DOMAIN steps' = DOMAIN steps
           /\ \A x \in DOMAIN steps : x # s => steps'[x] = steps[x]
           /\ steps[s].req \in held => steps'[s].ends = steps[s].ends + 1
           /\ steps'[s].error = steps'[s].failed
<1>1. steps \in Seq(Spans) /\ steps[s] \in Spans /\ steps[s].error = steps[s].failed
  <2>1. steps \in Seq(Spans)
    BY DEF InstrumentInv, InstrumentShape
  <2>. QED  BY <2>1 DEF InstrumentInv, SpansInStep
<1>2. CASE steps[s].req \notin held
  <2>1. steps' = steps
    BY <1>2 DEF Ended
  <2>. QED  BY <1>1, <1>2, <2>1 DEF SpansKeep
<1>3. CASE steps[s].req \in held
  <2>1. PICK b : b = steps[s]
    OBVIOUS
  <2>2. b \in Spans /\ b.error = b.failed
    BY <1>1, <2>1
  <2>3. PICK n, x, y : n = b.ends + 1 /\ x = (b.error \/ e) /\ y = (b.failed \/ e)
    OBVIOUS
  <2>4. n \in Nat /\ x \in BOOLEAN /\ y \in BOOLEAN /\ x = y
    BY <2>2, <2>3 DEF Spans
  <2>5. PICK c : c = [b EXCEPT !.ends = n, !.error = x, !.failed = y]
    OBVIOUS
  <2>6. steps' = [steps EXCEPT ![s] = c]
    <3>1. steps' = [steps EXCEPT ![s].ends = @ + 1, ![s].error = @ \/ e, ![s].failed = @ \/ e]
      BY <1>3 DEF Ended
    <3>. QED  BY <1>1, <2>1, <2>2, <2>3, <2>5, <3>1 DEF Spans
  <2>7. c \in Spans /\ c.req = b.req /\ c.parent = b.parent /\ c.ends = n /\ c.error = x /\ c.failed = y
    BY <2>2, <2>4, <2>5 DEF Spans
  <2>8. /\ steps' \in Seq(Spans) /\ Len(steps') = Len(steps) /\ DOMAIN steps' = DOMAIN steps
        /\ steps'[s] = c /\ \A z \in DOMAIN steps : z # s => steps'[z] = steps[z]
    BY <1>1, <2>6, <2>7
  <2>9. SpansKeep
    <3>1. ASSUME NEW z \in DOMAIN steps
          PROVE  steps'[z].req = steps[z].req /\ steps'[z].parent = steps[z].parent
      BY <2>1, <2>7, <2>8
    <3>. QED  BY <2>8, <3>1 DEF SpansKeep
  <2>10. steps'[s].ends = steps[s].ends + 1
    BY <2>1, <2>3, <2>7, <2>8
  <2>11. steps'[s].error = steps'[s].failed
    BY <2>4, <2>7, <2>8, Zenon
  <2>. QED  BY <2>8, <2>9, <2>10, <2>11
<1>. QED  BY <1>2, <1>3

\* What runs when the innermost call returns.
LEMMA PopOnStack ==
    ASSUME InstrumentInv, frames # <<>>, frames' = Tail(frames)
    PROVE  /\ top.step \notin OnStack' /\ OnStack \subseteq OnStack' \cup {top.step} /\ OnStack' \subseteq OnStack
           /\ top.step # 0 => top.step \in OnStack /\ \A p \in promises : p.step # top.step
<1>1. /\ DOMAIN frames = 1..Len(frames) /\ Len(frames) \in Nat /\ DOMAIN frames' = 1..Len(frames) - 1
      /\ frames[1] = top /\ 1 \in DOMAIN frames
      /\ \A i \in DOMAIN frames' : i + 1 \in DOMAIN frames /\ frames'[i] = frames[i + 1]
      /\ \A i \in DOMAIN frames : i # 1 => i - 1 \in DOMAIN frames' /\ frames'[i - 1] = frames[i]
  BY PopOf, StackIs
<1>2. ASSUME top.step \in OnStack' PROVE FALSE
  <2>1. PICK i \in DOMAIN frames' : frames'[i].step = top.step /\ top.step # 0
    BY <1>2 DEF OnStack
  <2>2. i + 1 \in DOMAIN frames /\ frames[i + 1].step = frames[1].step /\ i + 1 # 1 /\ frames[1].step # 0
    BY <1>1, <2>1
  <2>. QED  BY <1>1, <2>2 DEF InstrumentInv, OneCallASpan
<1>3. ASSUME NEW s, s \in OnStack PROVE s \in OnStack' \cup {top.step}
  <2>1. PICK i \in DOMAIN frames : frames[i].step = s /\ s # 0
    BY <1>3 DEF OnStack
  <2>2. CASE i = 1
    BY <1>1, <2>1, <2>2
  <2>3. CASE i # 1
    BY <1>1, <2>1, <2>3 DEF OnStack
  <2>. QED  BY <2>2, <2>3
<1>4. ASSUME NEW s, s \in OnStack' PROVE s \in OnStack
  <2>1. PICK i \in DOMAIN frames' : frames'[i].step = s /\ s # 0
    BY <1>4 DEF OnStack
  <2>2. i + 1 \in DOMAIN frames /\ frames[i + 1].step = s
    BY <1>1, <2>1
  <2>. QED  BY <2>1, <2>2 DEF OnStack
<1>5. ASSUME top.step # 0 PROVE top.step \in OnStack /\ \A p \in promises : p.step # top.step
  <2>1. top.step \in OnStack
    BY <1>1, <1>5 DEF OnStack
  <2>2. \A p \in promises : frames[1].step # p.step
    BY <1>1 DEF InstrumentInv, OneCallASpan
  <2>. QED  BY <1>1, <2>1, <2>2
<1>. QED  BY <1>2, <1>3, <1>4, <1>5

LEMMA PopKeepsCalls ==
    ASSUME InstrumentInv, frames # <<>>, frames' = Tail(frames),
           \/ promises' = promises
           \/ \E p : promises' = promises \cup {p} /\ p.step = top.step /\ top.step # 0
    PROVE  OneCallASpan'
<1>1. /\ DOMAIN frames = 1..Len(frames) /\ Len(frames) \in Nat /\ DOMAIN frames' = 1..Len(frames) - 1
      /\ \A i \in DOMAIN frames' : i + 1 \in DOMAIN frames /\ frames'[i] = frames[i + 1]
      /\ frames[1] = top /\ 1 \in DOMAIN frames
  BY PopOf, StackIs
<1>2. ASSUME NEW i \in DOMAIN frames', NEW j \in DOMAIN frames', frames'[i].step # 0,
             frames'[i].step = frames'[j].step
      PROVE  i = j
  <2>1. /\ i + 1 \in DOMAIN frames /\ frames'[i] = frames[i + 1]
        /\ j + 1 \in DOMAIN frames /\ frames'[j] = frames[j + 1] /\ i \in Nat /\ j \in Nat
    BY <1>1
  <2>2. i + 1 = j + 1
    BY <1>2, <2>1 DEF InstrumentInv, OneCallASpan
  <2>. QED  BY <2>1, <2>2
<1>3. ASSUME NEW i \in DOMAIN frames', NEW p \in promises' PROVE frames'[i].step # p.step
  <2>1. i + 1 \in DOMAIN frames /\ frames'[i] = frames[i + 1] /\ i + 1 # 1
    BY <1>1
  <2>2. CASE p \in promises
    BY <2>1, <2>2 DEF InstrumentInv, OneCallASpan
  <2>3. CASE p \notin promises
    <3>1. p.step = frames[1].step /\ p.step # 0
      BY <1>1, <1>3, <2>3
    <3>. QED  BY <1>1, <2>1, <3>1 DEF InstrumentInv, OneCallASpan
  <2>. QED  BY <2>2, <2>3
<1>4. ASSUME NEW p \in promises', NEW q \in promises', p.step = q.step PROVE p = q
  <2>1. ASSUME NEW x \in promises PROVE top.step = 0 \/ x.step # top.step
    BY <2>1, PopOnStack
  <2>. QED  BY <1>4, <2>1 DEF InstrumentInv, OneCallASpan
<1>. QED  BY <1>2, <1>3, <1>4 DEF OneCallASpan

\* Ending the span of a call that is over, or of a promise that settled.
LEMMA EndKeepsSpans ==
    ASSUME InstrumentInv, NEW s \in DOMAIN steps, NEW e \in BOOLEAN, steps' = Ended(s, e, e),
           s \in OnStack \/ (\E p \in promises : p.step = s),
           \A x : x # s => (x \in OnStack' <=> x \in OnStack),
           \A x : x # s => ((\E p \in promises' : p.step = x) <=> (\E p \in promises : p.step = x)),
           s \notin OnStack', \A p \in promises' : p.step # s, UNCHANGED held
    PROVE  SpansInStep'
<1>1. /\ SpansKeep /\ DOMAIN steps' = DOMAIN steps
      /\ \A x \in DOMAIN steps : x # s => steps'[x] = steps[x]
      /\ steps[s].req \in held => steps'[s].ends = steps[s].ends + 1
      /\ steps'[s].error = steps'[s].failed
  BY EndedIs
<1>2. ASSUME NEW x \in DOMAIN steps', NEW live,
             live = (x \in OnStack' \/ \E p \in promises' : p.step = x)
      PROVE  /\ live => steps'[x].ends = 0
             /\ ~live /\ steps'[x].req \in held => steps'[x].ends = 1
             /\ steps'[x].error = steps'[x].failed
  <2>1. CASE x # s
    <3>1. live = (x \in OnStack \/ \E p \in promises : p.step = x)
      BY <1>2, <2>1
    <3>2. x \in DOMAIN steps /\ steps'[x] = steps[x]
      BY <1>1, <2>1
    <3>3. /\ live => steps[x].ends = 0
          /\ ~live /\ steps[x].req \in held => steps[x].ends = 1
          /\ steps[x].error = steps[x].failed
      BY <3>1, <3>2 DEF InstrumentInv, SpansInStep
    <3>. QED  BY <3>2, <3>3, Zenon
  <2>2. CASE x = s
    <3>1. ~live
      BY <1>2, <2>2
    <3>2. steps[s].ends = 0
      BY DEF InstrumentInv, SpansInStep
    <3>3. steps'[x].req \in held => steps'[x].ends = 1
      BY <1>1, <2>2, <3>2 DEF SpansKeep
    <3>. QED  BY <1>1, <2>2, <3>1, <3>3
  <2>. QED  BY <2>1, <2>2
<1>. QED  BY <1>2 DEF SpansInStep

LEMMA ReturnsKeeps ==
    ASSUME InstrumentInv, NEW how \in {"value", "throw", "promise"}, Returns(how)
    PROVE  InstrumentInv'
<1>1. frames # <<>> /\ frames' = Tail(frames) /\ UNCHANGED <<provider, held>>
  BY DEF Returns
<1>2. FlagsFall
  BY DEF Returns, FlagsFall
<1>3. /\ top.step \notin OnStack' /\ OnStack \subseteq OnStack' \cup {top.step} /\ OnStack' \subseteq OnStack
      /\ top.step # 0 => top.step \in OnStack /\ \A p \in promises : p.step # top.step
  BY <1>1, PopOnStack
<1>4. top \in Frames /\ promises \subseteq Promises /\ steps \in Seq(Spans)
      /\ FrameHolds(top, frames[Len(frames)].req)
  BY <1>1, StackIs DEF InstrumentInv, InstrumentShape
<1>5. CASE top.step = 0 /\ steps' = steps /\ promises' = promises
  <2>1. SpansKeep
    BY <1>4, <1>5 DEF SpansKeep
  <2>2. \A p \in promises' : PromiseOf(p)'
    BY <1>5 DEF InstrumentInv, PromiseOf
  <2>3. OnStack' = OnStack
    <3>1. 0 \notin OnStack
      BY DEF OnStack
    <3>. QED  BY <1>3, <1>5, <3>1
  <2>4. SpansInStep'
    <3>1. ASSUME NEW x \in DOMAIN steps', NEW live,
                 live = (x \in OnStack' \/ \E p \in promises' : p.step = x)
          PROVE  /\ live => steps'[x].ends = 0
                 /\ ~live /\ steps'[x].req \in held => steps'[x].ends = 1
                 /\ steps'[x].error = steps'[x].failed
      BY <1>5, <2>3, <3>1 DEF InstrumentInv, SpansInStep
    <3>. QED  BY <1>1, <3>1 DEF SpansInStep
  <2>. QED  BY <1>1, <1>2, <1>4, <1>5, <2>1, <2>2, <2>4, PopKeeps, PopKeepsCalls DEF InstrumentInv
<1>6. CASE /\ top.step # 0 /\ steps' = steps
           /\ promises' = promises \cup {[step |-> top.step, req |-> top.req, this |-> top.this]}
  <2>1. PICK n, r, t : n = top.step /\ r = top.req /\ t = top.this
    OBVIOUS
  <2>2. PICK p : p = [step |-> n, req |-> r, this |-> t]
    OBVIOUS
  <2>3. p \in Promises /\ p.step = n /\ p.req = r
    <3>1. n \in Nat /\ r \in Requests \cup {"none"} /\ t \in {"raw", "proxy"}
      BY <1>4, <2>1 DEF Frames
    <3>. QED  BY <2>2, <3>1 DEF Promises
  <2>4. promises' = promises \cup {p} /\ p.step = top.step
    BY <1>6, <2>1, <2>2, <2>3
  <2>5. n \in DOMAIN steps /\ steps[n].req = r /\ n # 0
    BY <1>4, <1>6, <2>1 DEF FrameHolds, FrameOf
  <2>6. SpansKeep
    BY <1>4, <1>6 DEF SpansKeep
  <2>7. \A q \in promises' : q.step \in DOMAIN steps' /\ steps'[q.step].req = q.req
    BY <1>6, <2>3, <2>4, <2>5 DEF InstrumentInv, PromiseOf
  <2>8. SpansInStep'
    <3>1. ASSUME NEW x \in DOMAIN steps', NEW live,
                 live = (x \in OnStack' \/ \E q \in promises' : q.step = x)
          PROVE  /\ live => steps'[x].ends = 0
                 /\ ~live /\ steps'[x].req \in held => steps'[x].ends = 1
                 /\ steps'[x].error = steps'[x].failed
      <4>1. live = (x \in OnStack \/ \E q \in promises : q.step = x)
        BY <1>3, <1>6, <2>4, <3>1
      <4>. QED  BY <1>6, <4>1 DEF InstrumentInv, SpansInStep
    <3>. QED  BY <1>1, <3>1 DEF SpansInStep
  <2>9. promises' \subseteq Promises /\ OneCallASpan'
    BY <1>1, <1>4, <1>6, <2>3, <2>4, PopKeepsCalls
  <2>. QED  BY <1>1, <1>2, <2>6, <2>7, <2>8, <2>9, PopKeeps DEF InstrumentInv, PromiseOf
<1>7. CASE top.step # 0 /\ steps' = Ended(top.step, how = "throw", how = "throw") /\ promises' = promises
  <2>1. PICK s, e : s = top.step /\ e \in BOOLEAN /\ e = (how = "throw")
    OBVIOUS
  <2>2. s \in DOMAIN steps /\ steps' = Ended(s, e, e)
    BY <1>4, <1>7, <2>1, Zenon DEF FrameHolds, FrameOf
  <2>3. SpansKeep /\ DOMAIN steps' = DOMAIN steps
    BY <2>1, <2>2, EndedIs
  <2>4. \A q \in promises' : q.step \in DOMAIN steps' /\ steps'[q.step].req = q.req
    BY <1>7, <2>3 DEF InstrumentInv, PromiseOf, SpansKeep
  <2>5. SpansInStep'
    <3>1. s \in OnStack /\ s \notin OnStack' /\ \A q \in promises' : q.step # s
      BY <1>3, <1>7, <2>1
    <3>2. \A x : x # s => (x \in OnStack' <=> x \in OnStack)
      BY <1>3, <2>1
    <3>3. \A x : x # s => ((\E q \in promises' : q.step = x) <=> (\E q \in promises : q.step = x))
      BY <1>7
    <3>. QED  BY <1>1, <2>1, <2>2, <3>1, <3>2, <3>3, EndKeepsSpans
  <2>. QED  BY <1>1, <1>2, <1>4, <1>7, <2>3, <2>4, <2>5, PopKeeps, PopKeepsCalls DEF InstrumentInv, PromiseOf
<1>. QED  BY <1>5, <1>6, <1>7 DEF Returns

LEMMA SettlesKeeps ==
    ASSUME InstrumentInv, NEW p \in promises, NEW rejects \in BOOLEAN, Settles(p, rejects)
    PROVE  InstrumentInv'
<1>1. /\ frames = <<>> /\ promises' = promises \ {p} /\ steps' = Ended(p.step, rejects, rejects)
      /\ UNCHANGED <<provider, frames, active, held>>
  BY DEF Settles
<1>2. PICK s : s = p.step
  OBVIOUS
<1>3. s \in DOMAIN steps /\ steps' = Ended(s, rejects, rejects) /\ promises \subseteq Promises
  BY <1>1, <1>2, StackIs DEF InstrumentInv, PromiseOf
<1>4. SpansKeep /\ DOMAIN steps' = DOMAIN steps
  BY <1>3, EndedIs
<1>5. OnStack = {} /\ OnStack' = {} /\ DOMAIN frames = {} /\ DOMAIN frames' = {}
  BY <1>1 DEF OnStack
<1>6. \A q \in promises : q.step = s => q = p
  BY <1>2 DEF InstrumentInv, OneCallASpan
<1>7. SpansInStep'
  <2>1. \A x : x # s => ((\E q \in promises' : q.step = x) <=> (\E q \in promises : q.step = x))
    BY <1>1, <1>2
  <2>2. \A q \in promises' : q.step # s
    BY <1>1, <1>6
  <2>. QED  BY <1>1, <1>2, <1>3, <1>5, <2>1, <2>2, EndKeepsSpans
<1>8. \A q \in promises' : q.step \in DOMAIN steps' /\ steps'[q.step].req = q.req
  BY <1>1, <1>4 DEF InstrumentInv, PromiseOf, SpansKeep
<1>9. InstrumentShape'
  <2>1. Frames' = Frames /\ Spans' = Spans /\ Promises' = Promises
    BY <1>1 DEF Frames, Spans, Promises
  <2>. QED  BY <1>1, <1>3, <1>4, <2>1 DEF InstrumentInv, InstrumentShape, SpansKeep
<1>10. OneContext' /\ Bottom' /\ OneCallAMember' /\ WrappedIsTraced' /\ CallerIsNearest' /\ ParentCalled'
  BY <1>1, <1>5 DEF OneContext, Bottom, OneCallAMember, WrappedIsTraced, CallerIsNearest, ParentCalled
<1>11. FlagIsACall'
  BY <1>1, <1>5 DEF InstrumentInv, FlagIsACall
<1>12. OneCallASpan'
  BY <1>1, <1>5 DEF InstrumentInv, OneCallASpan
<1>. QED  BY <1>7, <1>8, <1>9, <1>10, <1>11, <1>12 DEF InstrumentInv, PromiseOf

LEMMA HandedOffKeeps ==
    ASSUME InstrumentInv, NEW r \in held, HandedOff(r)
    PROVE  InstrumentInv'
<1>1. /\ frames = <<>> /\ held' = held \ {r}
      /\ provider' = provider /\ frames' = frames /\ promises' = promises /\ active' = active /\ steps' = steps
  BY DEF HandedOff
<1>2. OnStack' = OnStack /\ DOMAIN frames = {} /\ DOMAIN frames' = {}
  BY <1>1 DEF OnStack
<1>3. InstrumentShape'
  <2>1. Frames' = Frames /\ Spans' = Spans /\ Promises' = Promises
    BY <1>1 DEF Frames, Spans, Promises
  <2>. QED  BY <1>1, <2>1 DEF InstrumentInv, InstrumentShape
<1>4. OneContext' /\ Bottom' /\ OneCallAMember' /\ WrappedIsTraced' /\ CallerIsNearest' /\ ParentCalled'
  BY <1>1, <1>2 DEF OneContext, Bottom, OneCallAMember, WrappedIsTraced, CallerIsNearest, ParentCalled
<1>5. FlagIsACall' /\ OneCallASpan'
  BY <1>1, <1>2 DEF InstrumentInv, FlagIsACall, OneCallASpan
<1>6. \A q \in promises' : q.step \in DOMAIN steps' /\ steps'[q.step].req = q.req
  BY <1>1 DEF InstrumentInv, PromiseOf
<1>7. ASSUME NEW x \in DOMAIN steps', NEW live,
             live = (x \in OnStack' \/ \E q \in promises' : q.step = x)
      PROVE  /\ live => steps'[x].ends = 0
             /\ ~live /\ steps'[x].req \in held' => steps'[x].ends = 1
             /\ steps'[x].error = steps'[x].failed
  BY <1>1, <1>2, <1>7 DEF InstrumentInv, SpansInStep
<1>8. SpansInStep'
  BY <1>7 DEF SpansInStep
<1>. QED  BY <1>3, <1>4, <1>5, <1>6, <1>8 DEF InstrumentInv, PromiseOf

LEMMA InstrumentStays ==
    ASSUME InstrumentInv, UNCHANGED instrumentVars
    PROVE  InstrumentInv'
<1>1. /\ provider' = provider /\ frames' = frames /\ promises' = promises /\ active' = active
      /\ steps' = steps /\ held' = held
  BY DEF instrumentVars
<1>2. /\ InstrumentShape' = InstrumentShape /\ OneContext' = OneContext /\ Bottom' = Bottom
      /\ FlagIsACall' = FlagIsACall /\ OneCallAMember' = OneCallAMember
      /\ WrappedIsTraced' = WrappedIsTraced
  BY <1>1 DEF InstrumentShape, Frames, Spans, Promises, OneContext, FrameHolds, Bottom, FlagIsACall,
              OneCallAMember, WrappedIsTraced
<1>3. /\ CallerIsNearest' = CallerIsNearest /\ ParentCalled' = ParentCalled
      /\ OneCallASpan' = OneCallASpan /\ SpansInStep' = SpansInStep
      /\ (\A p \in promises : PromiseOf(p))' = (\A p \in promises : PromiseOf(p))
  BY <1>1 DEF CallerIsNearest, ParentCalled, OneCallASpan, SpansInStep, OnStack, PromiseOf
<1>. QED  BY <1>2, <1>3 DEF InstrumentInv

LEMMA InstrumentStarts ==
    ASSUME InstrumentInit
    PROVE  InstrumentInv
<1>1. /\ provider \in Providers /\ frames = <<>> /\ promises = {} /\ steps = <<>>
      /\ active = [m \in Members(provider) |-> FALSE] /\ held \subseteq Requests
  BY DEF InstrumentInit
<1>2. InstrumentShape
  <2>1. active \in [Members(provider) -> BOOLEAN]
    BY <1>1
  <2>2. Len(steps) <= MaxSteps /\ Len(frames) <= MaxDepth
    <3>1. Len(steps) = 0 /\ Len(frames) = 0
      BY <1>1
    <3>2. MaxSteps \in Nat /\ MaxDepth \in Nat
      BY InstrumentAssumption
    <3>. QED  BY <3>1, <3>2
  <2>. QED  BY <1>1, <2>1, <2>2 DEF InstrumentShape
<1>3. DOMAIN frames = {} /\ DOMAIN steps = {} /\ OnStack = {}
  BY <1>1 DEF OnStack
<1>4. FlagIsACall
  BY <1>1 DEF FlagIsACall
<1>. QED  BY <1>1, <1>2, <1>3, <1>4 DEF InstrumentInv, OneContext, Bottom, OneCallAMember, WrappedIsTraced,
             CallerIsNearest, ParentCalled, OneCallASpan, SpansInStep

LEMMA InstrumentStep ==
    ASSUME InstrumentInv, [InstrumentNext]_instrumentVars
    PROVE  InstrumentInv'
<1>1. ASSUME NEW r \in Requests \cup {"none"}, Enter(r) PROVE InstrumentInv'
  BY <1>1, EnterKeeps
<1>2. ASSUME NEW m \in Members(provider), NEW self \in BOOLEAN, Call(m, self) PROVE InstrumentInv'
  BY <1>2, CallKeeps
<1>3. ASSUME NEW how \in {"value", "throw", "promise"}, Returns(how) PROVE InstrumentInv'
  BY <1>3, ReturnsKeeps
<1>4. ASSUME NEW p \in promises, Resume(p) PROVE InstrumentInv'
  BY <1>4, ResumeKeeps
<1>5. ASSUME NEW p \in promises, NEW rejects \in BOOLEAN, Settles(p, rejects) PROVE InstrumentInv'
  BY <1>5, SettlesKeeps
<1>6. ASSUME NEW r \in held, HandedOff(r) PROVE InstrumentInv'
  BY <1>6, HandedOffKeeps
<1>7. CASE UNCHANGED instrumentVars
  BY <1>7, InstrumentStays
<1>. QED  BY <1>1, <1>2, <1>3, <1>4, <1>5, <1>6, <1>7 DEF InstrumentNext

-----------------------------------------------------------------------------
\* A set of natural numbers that holds one holds a least one.
LEMMA LeastOne ==
    ASSUME NEW T, T \subseteq Nat, T # {}
    PROVE  \E n \in T : \A k \in T : n <= k
<1>1. IsWellFoundedOn({pair \in Nat \X Nat : pair[1] < pair[2]}, Nat)
  BY NatLessThanWellFounded DEF OpToRel
<1>2. PICK n \in T : \A k \in T : ~(<<k, n>> \in {pair \in Nat \X Nat : pair[1] < pair[2]})
  BY <1>1, WFMin
<1>3. ASSUME NEW k \in T PROVE n <= k
  <2>1. <<k, n>> \in Nat \X Nat /\ <<k, n>>[1] = k /\ <<k, n>>[2] = n
    OBVIOUS
  <2>2. ~(k < n)
    BY <1>2, <2>1
  <2>. QED  BY <2>2
<1>. QED  BY <1>3

\* The parent of a span is the nearest traced call below its own.
LEMMA ParentsAreCallers == InstrumentInv => ParentIsTheCaller
<1>. SUFFICES ASSUME InstrumentInv PROVE ParentIsTheCaller
  OBVIOUS
<1>1. frames \in Seq(Frames) /\ DOMAIN frames = 1..Len(frames) /\ Len(frames) \in Nat
  BY DEF InstrumentInv, InstrumentShape
<1>2. ASSUME NEW i \in DOMAIN frames, frames[i].step # 0
      PROVE  LET under == {j \in Below(i) : frames[j].step # 0}
                 nearest == CHOOSE j \in under : \A k \in under : j <= k
                 parent == IF under # {} THEN frames[nearest].step ELSE frames[Len(frames)].caller
             IN /\ steps[frames[i].step].parent = parent
                /\ parent # 0 => steps[parent].req = steps[frames[i].step].req
  <2>1. PICK under : under = {j \in Below(i) : frames[j].step # 0}
    OBVIOUS
  <2>2. PICK nearest : nearest = CHOOSE j \in under : \A k \in under : j <= k
    OBVIOUS
  <2>3. PICK parent : parent = IF under # {} THEN frames[nearest].step ELSE frames[Len(frames)].caller
    OBVIOUS
  <2>4. i + 1 \in DOMAIN frames /\ steps[frames[i].step].parent = frames[i + 1].caller /\ i \in Nat
    BY <1>1, <1>2 DEF InstrumentInv, ParentCalled
  <2>5. frames[i + 1].caller = parent
    <3>1. CASE under # {}
      <4>1. under \subseteq Nat
        BY <1>1, <2>1 DEF Below
      <4>2. \E n \in under : \A k \in under : n <= k
        BY <3>1, <4>1, LeastOne
      <4>3. nearest \in under /\ \A k \in under : nearest <= k
        BY <2>2, <4>2
      <4>4. nearest \in DOMAIN frames /\ nearest > i /\ frames[nearest].step # 0 /\ nearest \in Nat
        BY <1>1, <2>1, <4>3 DEF Below
      <4>5. ASSUME NEW k \in DOMAIN frames, i + 1 <= k, k < nearest PROVE frames[k].step = 0
        <5>1. k \in Nat /\ k > i /\ ~(nearest <= k)
          BY <1>1, <2>4, <4>4, <4>5
        <5>2. k \notin under
          BY <4>3, <5>1
        <5>. QED  BY <2>1, <5>1, <5>2 DEF Below
      <4>6. i + 1 <= nearest
        BY <2>4, <4>4
      <4>7. frames[i + 1].caller = frames[nearest].step
        BY <2>4, <4>4, <4>5, <4>6 DEF InstrumentInv, CallerIsNearest
      <4>. QED  BY <2>3, <3>1, <4>7
    <3>2. CASE under = {}
      <4>1. ASSUME NEW k \in DOMAIN frames, k >= i + 1 PROVE frames[k].step = 0
        <5>1. k > i
          BY <1>1, <2>4, <4>1
        <5>. QED  BY <2>1, <3>2, <5>1 DEF Below
      <4>2. frames[i + 1].caller = frames[Len(frames)].caller
        BY <2>4, <4>1 DEF InstrumentInv, CallerIsNearest
      <4>. QED  BY <2>3, <3>2, <4>2
    <3>. QED  BY <3>1, <3>2
  <2>6. FrameHolds(frames[i], frames[Len(frames)].req) /\ FrameHolds(frames[i + 1], frames[Len(frames)].req)
    BY <2>4 DEF InstrumentInv, OneContext
  <2>7. /\ steps[frames[i].step].parent = parent
        /\ parent # 0 => steps[parent].req = steps[frames[i].step].req
    BY <1>2, <2>4, <2>5, <2>6 DEF FrameHolds, FrameOf
  <2>. QED  BY <2>1, <2>2, <2>3, <2>7, Zenon
<1>. QED  BY <1>2, Zenon DEF ParentIsTheCaller

LEMMA SpansTold == InstrumentInv => CallsAreTheirSpans
<1>. SUFFICES ASSUME InstrumentInv PROVE CallsAreTheirSpans
  OBVIOUS
<1>1. InstrumentTypeOK
  BY DEF InstrumentInv, InstrumentShape, InstrumentTypeOK, PromiseOf
<1>2. SpanIsItsCall
  BY DEF InstrumentInv, SpansInStep, SpanIsItsCall
<1>3. ASSUME NEW i \in DOMAIN frames PROVE FrameOf(frames[i], frames[Len(frames)].req, steps, active, held, provider)
  BY DEF InstrumentInv, OneContext, FrameHolds
<1>4. CallsAreTraced
  <2>1. ASSUME NEW i \in DOMAIN frames, frames[i].wrapped, frames[i].req \in held, frames[i].step = 0
        PROVE  \E j \in Below(i) : frames[j].m = frames[i].m /\ frames[j].step # 0
    <3>1. ~frames[i].clears
      BY <1>3, <2>1 DEF FrameOf
    <3>2. PICK j \in DOMAIN frames : j > i /\ frames[j].clears /\ frames[j].m = frames[i].m
      BY <2>1, <3>1 DEF InstrumentInv, WrappedIsTraced
    <3>3. frames[j].req = frames[i].req
      BY <1>3 DEF FrameOf
    <3>4. frames[j].step # 0
      BY <1>3, <2>1, <3>2, <3>3 DEF FrameOf
    <3>. QED  BY <3>2, <3>4 DEF Below
  <2>. QED  BY <2>1 DEF CallsAreTraced
<1>5. OneSpanPerRecursion
  BY <1>3 DEF InstrumentInv, OneCallAMember, OneSpanPerRecursion, FrameOf
<1>6. ReceiverIsUsable
  BY <1>3 DEF ReceiverIsUsable, FrameOf
<1>. QED  BY <1>1, <1>2, <1>4, <1>5, <1>6, ParentsAreCallers DEF CallsAreTheirSpans

\* Whatever providers the application has and however their members call one
\* another, return promises and resume: a span is open exactly while its call
\* runs, its parent is the traced call it was made from, and a member behaves
\* as it would without tracing (createInstanceDecorator).
THEOREM CallsAreSpans == InstrumentSpec => []CallsAreTheirSpans
<1>1. InstrumentInit => InstrumentInv
  BY InstrumentStarts
<1>2. InstrumentInv /\ [InstrumentNext]_instrumentVars => InstrumentInv'
  BY InstrumentStep
<1>3. InstrumentInv => CallsAreTheirSpans
  BY SpansTold
<1>. QED  BY <1>1, <1>2, <1>3, PTL DEF InstrumentSpec
-----------------------------------------------------------------------------
(***************************************************************************)
(* The wrapper of `fetch`.                                                 *)
(***************************************************************************)

Layers  == 1 .. MaxWrappers \cup {100, 200}
Stacks  == {s \in Seq(Layers) : s # <<>> /\ s[Len(s)] = 100}
Layered(s, l) == {i \in DOMAIN s : s[i] = l}

\* What goes through `fetch` ends at the native one, and a wrapper on top of it
\* is the one installed, over what it was installed over.
FetchShape ==
    /\ layers \in Stacks
    /\ installed \in [wrapper : 0 .. MaxWrappers, original : Seq(Layers)]
    /\ installed.wrapper # 0 => installed.original \in Stacks
    /\ installed.wrapper # 0 /\ layers[1] = installed.wrapper =>
           layers = <<installed.wrapper>> \o installed.original

FetchInv ==
    FetchShape /\ app \in [Apps -> {"new", "created", "running", "stopped"}] /\ ReadsForTheRunning

\* A layer put on a stack leaves a stack, the rest of it as it was.
LEMMA StackGrows ==
    ASSUME NEW s \in Stacks, NEW l \in Layers
    PROVE  /\ <<l>> \o s \in Stacks /\ (<<l>> \o s)[1] = l
           /\ DOMAIN s = 1 .. Len(s) /\ DOMAIN (<<l>> \o s) = 1 .. Len(s) + 1
           /\ \A i \in 1 .. Len(s) : (<<l>> \o s)[i + 1] = s[i]
<1> DEFINE t == <<l>> \o s
<1>1. s \in Seq(Layers) /\ Len(s) \in Nat /\ s # <<>> /\ s[Len(s)] = 100
  BY DEF Stacks
<1>2. <<l>> \in Seq(Layers) /\ Len(<<l>>) = 1 /\ <<l>>[1] = l
  OBVIOUS
<1>3. t \in Seq(Layers) /\ Len(t) = 1 + Len(s) /\ t[1] = l /\ \A i \in 1 .. Len(s) : t[i + 1] = s[i]
  <2>1. /\ t \in Seq(Layers) /\ Len(t) = 1 + Len(s)
        /\ \A i \in 1 .. 1 + Len(s) : t[i] = IF i <= 1 THEN <<l>>[i] ELSE s[i - 1]
    BY <1>1, <1>2, ConcatProperties
  <2>2. \A i \in 1 .. Len(s) : i + 1 \in 1 .. 1 + Len(s) /\ ~(i + 1 <= 1) /\ (i + 1) - 1 = i
    BY <1>1
  <2> HIDE DEF t
  <2>3. t[1] = l
    BY <1>1, <1>2, <2>1
  <2>4. ASSUME NEW i \in 1 .. Len(s) PROVE t[i + 1] = s[i]
    <3>1. t[i + 1] = s[(i + 1) - 1]
      BY <2>1, <2>2
    <3> QED BY <3>1, <2>2
  <2>5. t \in Seq(Layers) /\ Len(t) = 1 + Len(s)
    BY <2>1
  <2> QED BY <2>3, <2>4, <2>5
<1>4. Len(s) > 0
  BY <1>1
<1>5. t # <<>> /\ t[Len(t)] = 100
  BY <1>1, <1>3, <1>4
<1>6. DOMAIN s = 1 .. Len(s) /\ DOMAIN t = 1 .. Len(s) + 1
  <2>1. DOMAIN t = 1 .. Len(t)
    BY <1>3
  <2> QED BY <1>1, <1>3, <2>1
<1>7. t \in Stacks
  BY <1>3, <1>5 DEF Stacks
<1> QED BY <1>3, <1>6, <1>7

\* The places of a layer in a stack are finitely many; another layer on top
\* takes none away and, if it is a different one, adds none.
LEMMA PlacesKept ==
    ASSUME NEW s \in Stacks, NEW l \in Layers, NEW k
    PROVE  /\ Cardinality(Layered(s, k)) \in Nat
           /\ Cardinality(Layered(<<l>> \o s, k)) \in Nat
           /\ Cardinality(Layered(<<l>> \o s, k)) >= Cardinality(Layered(s, k))
           /\ l # k => Cardinality(Layered(<<l>> \o s, k)) = Cardinality(Layered(s, k))
<1> DEFINE t == <<l>> \o s
           S == Layered(s, k)
           T == Layered(t, k)
           f == [i \in S |-> i + 1]
<1>1. /\ Len(s) \in Nat /\ DOMAIN s = 1 .. Len(s) /\ DOMAIN t = 1 .. Len(s) + 1 /\ t[1] = l
      /\ \A i \in 1 .. Len(s) : t[i + 1] = s[i]
  BY StackGrows DEF Stacks
<1> HIDE DEF t
<1>2. S \subseteq 1 .. Len(s) /\ T \subseteq 1 .. Len(s) + 1
  BY <1>1 DEF Layered
<1>3. IsFiniteSet(S) /\ IsFiniteSet(T)
  <2>1. IsFiniteSet(1 .. Len(s)) /\ IsFiniteSet(1 .. Len(s) + 1)
    BY <1>1, FS_Interval
  <2> QED BY <1>2, <2>1, FS_Subset
<1>4. Cardinality(S) \in Nat /\ Cardinality(T) \in Nat
  BY <1>3, FS_CardinalityType
<1>5. \A i \in S : i + 1 \in T
  BY <1>1 DEF Layered
<1>6. f \in Injection(S, T)
  <2>1. f \in [S -> T]
    BY <1>5
  <2>2. \A i, j \in S : f[i] = f[j] => i = j
    BY <1>2
  <2> QED BY <2>1, <2>2 DEF Injection, IsInjective
<1>7. ASSUME l # k PROVE f \in Surjection(S, T)
  <2>1. \A j \in T : j - 1 \in S /\ f[j - 1] = j
    <3> SUFFICES ASSUME NEW j \in T PROVE j - 1 \in S /\ f[j - 1] = j
      OBVIOUS
    <3>1. j \in 1 .. Len(s) + 1 /\ t[j] = k /\ j # 1
      BY <1>1, <1>7 DEF Layered
    <3>2. j - 1 \in 1 .. Len(s) /\ s[j - 1] = k
      BY <3>1, <1>1
    <3>3. j - 1 \in S
      BY <3>2, <1>1 DEF Layered
    <3> QED BY <3>1, <3>3
  <2>2. f \in [S -> T]
    BY <1>5
  <2> QED BY <2>1, <2>2 DEF Surjection
<1> HIDE DEF f
<1>8. Cardinality(S) <= Cardinality(T) /\ (Cardinality(S) = Cardinality(T) <=> f \in Surjection(S, T))
  BY <1>6, <1>3, FS_Injection
<1> QED BY <1>4, <1>7, <1>8 DEF t

\* What is in `fetch` takes its shape from the first layer on.
LEMMA FetchInits == FetchInit => FetchInv
<1> SUFFICES ASSUME FetchInit PROVE FetchInv
  OBVIOUS
<1>1. layers \in Seq(Layers) /\ layers # <<>> /\ layers[Len(layers)] = 100
  BY DEF FetchInit, Layers
<1>2. layers \in Stacks
  BY <1>1 DEF Stacks
<1>3. installed.wrapper = 0 /\ installed \in [wrapper : 0 .. MaxWrappers, original : Seq(Layers)]
  BY FetchAssumption DEF FetchInit
<1>4. FetchShape
  BY <1>2, <1>3 DEF FetchShape
<1> QED BY <1>4 DEF FetchInit, FetchInv, ReadsForTheRunning

\* Our wrappers in a stack are so many.
LEMMA OursCounted == FetchShape => Count(Ours) \in Nat
<1> SUFFICES ASSUME FetchShape PROVE Count(Ours) \in Nat
  OBVIOUS
<1> DEFINE S == {i \in DOMAIN layers : Ours(layers[i])}
<1>1. Len(layers) \in Nat /\ DOMAIN layers = 1 .. Len(layers)
  BY DEF FetchShape, Stacks
<1>2. IsFiniteSet(1 .. Len(layers)) /\ S \subseteq 1 .. Len(layers)
  BY <1>1, FS_Interval
<1>3. IsFiniteSet(S)
  BY <1>2, FS_Subset
<1> HIDE DEF S
<1>4. Cardinality(S) \in Nat
  BY <1>3, FS_CardinalityType
<1> QED BY <1>4 DEF S, Count

\* What a step leaves of the layers: a stack, with no layer of another library
\* taken out of it.
Lasts == /\ FetchShape'
         /\ Cardinality(Layered(layers', 200)) >= Cardinality(Layered(layers, 200))

\* A step that leaves `fetch` alone.
LEMMA FetchStays ==
    ASSUME FetchShape, UNCHANGED <<layers, installed>>
    PROVE  Lasts
<1>1. 200 \in Layers /\ layers \in Stacks
  BY DEF Layers, FetchShape
<1>2. Cardinality(Layered(layers, 200)) \in Nat
  BY <1>1, PlacesKept
<1>3. FetchShape'
  BY DEF FetchShape
<1>4. Layered(layers', 200) = Layered(layers, 200)
  BY DEF Layered
<1> QED BY <1>2, <1>3, <1>4 DEF Lasts

\* A wrapper put in.
LEMMA InstallLasts ==
    ASSUME FetchShape, CanInstall,
           layers' = installed_after.layers, installed' = installed_after.installed
    PROVE  Lasts
<1>1. CASE Ours(layers[1])
  <2>1. UNCHANGED <<layers, installed>>
    BY <1>1 DEF installed_after
  <2> QED BY <2>1, FetchStays
<1>2. CASE ~Ours(layers[1])
  <2> DEFINE w == Count(Ours) + 1
  <2>1. w \in 1 .. MaxWrappers
    <3>1. Count(Ours) \in Nat /\ Count(Ours) < MaxWrappers
      BY <1>2, OursCounted DEF CanInstall
    <3>2. \A n \in Nat : n < MaxWrappers => n + 1 \in 1 .. MaxWrappers
      BY FetchAssumption
    <3> QED BY <3>1, <3>2
  <2>2. layers' = <<w>> \o layers /\ installed' = [wrapper |-> w, original |-> layers]
    BY <1>2 DEF installed_after
  <2> HIDE DEF w
  <2>3. w \in Layers /\ w # 200
    BY <2>1, FetchAssumption DEF Layers
  <2>7. layers \in Stacks /\ layers \in Seq(Layers)
    BY DEF FetchShape, Stacks
  <2>4. layers' \in Stacks
    BY <2>2, <2>3, <2>7, StackGrows
  <2>5. FetchShape'
    BY <2>1, <2>2, <2>3, <2>4, <2>7, FetchAssumption DEF FetchShape
  <2>6. Cardinality(Layered(layers', 200)) >= Cardinality(Layered(layers, 200))
    BY <2>2, <2>3, <2>7, PlacesKept
  <2> QED BY <2>5, <2>6 DEF Lasts
<1> QED BY <1>1, <1>2

\* A wrapper taken out: what it was installed over is what is under it.
LEMMA UninstallLasts ==
    ASSUME FetchShape, uninstallLlmFetchObserver
    PROVE  Lasts
<1>1. CASE installed.wrapper # 0 /\ layers[1] = installed.wrapper
  <2> DEFINE w == installed.wrapper
             under == installed.original
  <2>1. /\ under \in Stacks /\ w \in 1 .. MaxWrappers /\ layers = <<w>> \o under
        /\ layers' = under /\ installed' = [wrapper |-> 0, original |-> <<>>]
    BY <1>1, FetchAssumption DEF FetchShape, uninstallLlmFetchObserver
  <2>2. w \in Layers /\ w # 200
    BY <2>1, FetchAssumption DEF Layers
  <2>3. FetchShape'
    <3>1. installed'.wrapper = 0 /\ installed' \in [wrapper : 0 .. MaxWrappers, original : Seq(Layers)]
      BY <2>1, FetchAssumption
    <3>2. layers' \in Stacks
      BY <2>1
    <3> QED BY <3>1, <3>2 DEF FetchShape
  <2> HIDE DEF w, under
  <2>4. /\ Cardinality(Layered(under, 200)) \in Nat
        /\ Cardinality(Layered(<<w>> \o under, 200)) = Cardinality(Layered(under, 200))
    BY <2>1, <2>2, PlacesKept
  <2>5. Cardinality(Layered(layers', 200)) >= Cardinality(Layered(layers, 200))
    BY <2>1, <2>4
  <2> QED BY <2>3, <2>5 DEF Lasts
<1>2. CASE ~(installed.wrapper # 0 /\ layers[1] = installed.wrapper)
  BY <1>2, FetchStays DEF uninstallLlmFetchObserver
<1> QED BY <1>1, <1>2

\* A wrapper of another library is on top: ours is not.
LEMMA OthersLast ==
    ASSUME FetchShape, otherWraps
    PROVE  Lasts
<1>1. 200 \in Layers /\ layers \in Stacks
  BY DEF Layers, FetchShape
<1>2. layers' = <<200>> \o layers /\ installed' = installed
  BY DEF otherWraps
<1>3. layers' \in Stacks /\ layers'[1] = 200
  BY <1>1, <1>2, StackGrows
<1>4. FetchShape'
  <2>1. installed.wrapper # 200
    BY FetchAssumption DEF FetchShape
  <2> QED BY <1>2, <1>3, <2>1 DEF FetchShape
<1>5. Cardinality(Layered(layers', 200)) >= Cardinality(Layered(layers, 200))
  BY <1>1, <1>2, PlacesKept
<1> QED BY <1>4, <1>5 DEF Lasts

\* A step of an application or of another library.
LEMMA FetchStep ==
    ASSUME FetchInv, [FetchNext]_fetchVars
    PROVE  FetchInv' /\ Lasts
<1> DEFINE States == {"new", "created", "running", "stopped"}
<1>1. FetchShape /\ app \in [Apps -> States] /\ ReadsForTheRunning
  BY DEF FetchInv
<1>2. CASE otherWraps
  <2>1. app' = app /\ reader' = reader
    BY <1>2 DEF otherWraps
  <2> QED BY <1>1, <1>2, <2>1, OthersLast DEF FetchInv, Lasts, ReadsForTheRunning
<1>3. ASSUME NEW a \in Apps, created(a) PROVE FetchInv' /\ Lasts
  <2>1. Lasts
    BY <1>1, <1>3, InstallLasts DEF created
  <2>2. app' \in [Apps -> States] /\ ReadsForTheRunning'
    BY <1>1, <1>3 DEF created, ReadsForTheRunning
  <2> QED BY <2>1, <2>2 DEF FetchInv, Lasts
<1>4. ASSUME NEW a \in Apps, activateLlmFetchObserver(a) PROVE FetchInv' /\ Lasts
  <2>1. Lasts
    BY <1>1, <1>4, InstallLasts, UninstallLasts DEF activateLlmFetchObserver
  <2>2. app' = [app EXCEPT ![a] = "running"]
    BY <1>4 DEF activateLlmFetchObserver
  <2>3. reader' = IF a \in LlmOff THEN "none" ELSE a
    BY <1>4 DEF activateLlmFetchObserver, uninstallLlmFetchObserver
  <2>4. app' \in [Apps -> States] /\ ReadsForTheRunning'
    BY <1>1, <2>2, <2>3 DEF ReadsForTheRunning
  <2> QED BY <2>1, <2>4 DEF FetchInv, Lasts
<1>5. ASSUME NEW a \in Apps, deactivateLlm(a) PROVE FetchInv' /\ Lasts
  <2>1. Lasts
    BY <1>1, <1>5, FetchStays DEF deactivateLlm
  <2>2. app' \in [Apps -> States] /\ ReadsForTheRunning'
    BY <1>1, <1>5 DEF deactivateLlm, ReadsForTheRunning
  <2> QED BY <2>1, <2>2 DEF FetchInv, Lasts
<1>6. CASE UNCHANGED fetchVars
  <2>1. Lasts
    BY <1>1, <1>6, FetchStays DEF fetchVars
  <2> QED BY <1>1, <1>6, <2>1 DEF FetchInv, Lasts, ReadsForTheRunning, fetchVars
<1> QED BY <1>2, <1>3, <1>4, <1>5, <1>6 DEF FetchNext

\* The application finds `fetch` as it would without the agent: a wrapper that
\* is taken out takes no other library's with it, the native one stays at the
\* bottom, and model calls are read for a running application that has them on
\* (installLlmFetchObserver, uninstallLlmFetchObserver).
THEOREM FetchIsLeft == FetchSpec => FetchLeftAsFound
<1>1. FetchInv /\ [FetchNext]_fetchVars => FetchInv'
  BY FetchStep
<1>2. FetchInv /\ FetchInv' /\ [FetchNext]_fetchVars =>
          [/\ ReadsForTheRunning'
           /\ Cardinality({i \in DOMAIN layers' : layers'[i] = 200})
                >= Cardinality({i \in DOMAIN layers : layers[i] = 200})
           /\ layers'[Len(layers')] = 100]_fetchVars
  BY FetchStep DEF Lasts, Layered, FetchInv, FetchShape, Stacks
<1> QED BY <1>1, <1>2, FetchInits, PTL DEF FetchSpec, FetchLeftAsFound
=============================================================================
