------------------------------ MODULE JobRuns ------------------------------
(* Queue and scheduled jobs: the agents that patch BullMQ, BullMQ Pro, Bull  *)
(* and the scheduler, the trace id stamped on a job as it is enqueued, and   *)
(* JobTraceRunner.run() around its runs.  One job is enqueued and run more   *)
(* than once: a retry, or a stalled job taken by a second worker while the   *)
(* first still runs it.                                                      *)
EXTENDS Naturals, Sequences

CONSTANTS
  Enqueued,     \* jobs: the context and options they are enqueued with, their
                \* handler, the layers that instrument it and where it is run
  Runs,         \* attempts at the job: 1, 2, ...
  MaxAgents,    \* agents built in the process: a second application, a test
  MaxDone       \* how often a handler calls back

\* The ids a trace can have: one held to REQUEST_ID_PATTERN, and one that a
\* generator of the application made.
GoodId == "good"
BadId  == "bad"
NoId   == "none"

ASSUME JobRunsAssumption ==
  /\ Runs \subseteq Nat \ {0} /\ MaxAgents \in Nat /\ MaxDone \in Nat
  /\ Enqueued \subseteq [stamp : {NoId}, ctx : {GoodId, BadId, NoId},
                         opts : {"plain", "repeat", "stamped", "invalid"},
                         kind : {"promise", "sync", "callback"}, layers : {1, 2},
                         hasId : BOOLEAN, outer : BOOLEAN, ignored : BOOLEAN]

VARIABLES
  agents,    \* agents built so far
  patched,   \* prototype method -> the agents' wrappers a call goes through
  job,       \* what was enqueued, and how
  ctx,       \* the store each run's handler sees
  running,   \* runs whose handler has been invoked
  returned,  \* runs whose invocation has returned or settled
  dones,     \* how often a run's handler called back
  settled,   \* the statuses a run settled with
  open,      \* registry keys with a trace: the run that started it
  spans,     \* the spans recorded in a run's trace, by the run that opened them
  unclosed,  \* runs with a span still open in their trace
  pending,   \* the completions of a run still to come, by status
  waiting,   \* plucks of a run's trace waiting for its open spans
  status,    \* the status of its snapshot
  jobReports, \* what was inserted into the buffer
  firstSignal \* history: how each run first said it was over

jobVars == <<agents, patched, job, ctx, running, returned, dones, settled, open, spans,
             unclosed, pending, waiting, status, jobReports, firstSignal>>
runVars == <<ctx, running, returned, dones, settled, open, spans, unclosed, pending,
             waiting, status, jobReports, firstSignal>>

\* The methods the agents patch.
Patches == {"Queue.add", "QueuePro.add", "WorkerPro.callProcessJob", "Bull.setHandler",
            "decorate", "ScheduleExplorer.wrap"}
NoJob == [stamp |-> NoId, ctx |-> NoId, opts |-> "none", kind |-> "none", layers |-> 0,
          hasId |-> TRUE, outer |-> FALSE, ignored |-> FALSE]
NoCtx == [active |-> FALSE, id |-> NoId, key |-> 0]

JobsInit ==
  /\ agents = 0
  /\ patched = [p \in Patches |-> <<>>]
  /\ job = NoJob
  /\ ctx = [r \in Runs |-> NoCtx]
  /\ running = {} /\ returned = {} /\ unclosed = {}
  /\ dones = [r \in Runs |-> 0]
  /\ settled = [r \in Runs |-> <<>>]
  /\ open = {}
  /\ spans = [r \in Runs |-> {}]
  /\ pending = [r \in Runs |-> <<>>]
  /\ waiting = [r \in Runs |-> 0]
  /\ status = [r \in Runs |-> "none"]
  /\ jobReports = <<>>
  /\ firstSignal = [r \in Runs |-> <<>>]

(***************************************************************************)
(* Patching                                                                *)
(***************************************************************************)

\* parkOriginal() and its likes: the method from before any agent, own
\* property of the prototype.
parkOriginal(p, chain) == <<>>

\* Each puts the new agent's wrapper over the original: patchEnqueue() for
\* add() and addBulk(), patchWorkerPro(), patchBull(), patchDecorate().
patchEnqueue(p, agent)   == <<agent>> \o parkOriginal(p, patched[p])
patchWorkerPro(p, agent) == <<agent>> \o parkOriginal(p, patched[p])
patchBull(p, agent)      == <<agent>> \o parkOriginal(p, patched[p])
patchDecorate(p, agent)  == <<agent>>
\* This one leaves the first agent's in place.
patchScheduleExplorer(p, agent) == IF patched[p] # <<>> THEN patched[p] ELSE <<agent>>

agentBuilt ==
  /\ agents < MaxAgents /\ job = NoJob
  /\ agents' = agents + 1
  /\ patched' = [p \in Patches |->
       CASE p \in {"Queue.add", "QueuePro.add"} -> patchEnqueue(p, agents + 1)
         [] p = "WorkerPro.callProcessJob"      -> patchWorkerPro(p, agents + 1)
         [] p = "Bull.setHandler"               -> patchBull(p, agents + 1)
         [] p = "decorate"                      -> patchDecorate(p, agents + 1)
         [] p = "ScheduleExplorer.wrap"         -> patchScheduleExplorer(p, agents + 1)]
  /\ UNCHANGED <<job, runVars>>

(***************************************************************************)
(* Enqueuing                                                               *)
(***************************************************************************)

\* stampTraceId(): the id of the enqueuing operation, unless there is none,
\* the options are no options, or the job repeats or has an id already.
stampTraceId(context, opts) ==
  IF opts \in {"invalid", "repeat"} THEN NoId
  ELSE IF opts = "stamped" THEN GoodId
  ELSE context

\* add() or addBulk() in an operation's context, or outside of any.
enqueue(e) ==
  /\ job = NoJob /\ agents > 0
  /\ job' = [e EXCEPT !.stamp = stampTraceId(e.ctx, e.opts)]
  /\ UNCHANGED <<agents, patched, runVars>>

\* A cron, interval or timeout fires: a run with no options and an id of its
\* own each time.
instrumentHandler(e) ==
  /\ job = NoJob /\ agents > 0
  /\ e.hasId /\ e.layers = 1 /\ e.kind # "callback"
  /\ job' = [e EXCEPT !.stamp = NoId, !.opts = "scheduled"]
  /\ UNCHANGED <<agents, patched, runVars>>

(***************************************************************************)
(* Running                                                                 *)
(***************************************************************************)

\* readInheritedTraceId()
readInheritedTraceId(stamp) == IF stamp = GoodId THEN stamp ELSE NoId

\* "The registry key is always this run's own."
registryKey(r) == r

isSameJob(outer) == job.hasId /\ outer.active

\* The store one layer of instrumentation runs the next in: that of the run it
\* is nested in, an empty one inside another operation, or the run's own.
layer(outer, r) ==
  IF isSameJob(outer) THEN outer
  ELSE IF outer.id # NoId THEN [active |-> job.hasId, id |-> NoId, key |-> 0]
  ELSE [active |-> job.hasId, key |-> registryKey(r),
        id |-> IF readInheritedTraceId(job.stamp) # NoId THEN job.stamp ELSE "own"]

OuterCtx == IF job.outer THEN [active |-> FALSE, id |-> GoodId, key |-> 0] ELSE NoCtx
CtxOf(r) == LET first == layer(OuterCtx, r)
            IN IF job.layers = 2 THEN layer(first, r) ELSE first

\* A layer opens a trace unless it joins a run or is inside an operation.
Opening(outer) == ~isSameJob(outer) /\ outer.id = NoId
OpensTrace(r) ==
  \/ Opening(OuterCtx)
  \/ job.layers = 2 /\ Opening(layer(OuterCtx, r))

\* isIgnored(): a disabled agent, a match, or a predicate that throws.
isIgnored == job.ignored

\* run(), down to invoke(): the trace of the run, if it has one of its own.
run(r) ==
  /\ job # NoJob
  /\ r \notin running /\ (r > 1 => r - 1 \in running)
  /\ running' = running \cup {r}
  /\ ctx' = [ctx EXCEPT ![r] = CtxOf(r)]
  /\ open' = IF OpensTrace(r) /\ ~isIgnored THEN open \cup {registryKey(r)} ELSE open
  /\ UNCHANGED <<agents, patched, job, returned, dones, settled, spans, unclosed, pending,
                 waiting, status, jobReports, firstSignal>>

\* The handler of a run, or work it left behind, records a span in the trace
\* its store leads to, and may not have closed it yet.
recordsSpan(r, closes) ==
  LET key == ctx[r].key IN
  /\ r \in running
  /\ key \in open
  /\ r \notin spans[key]
  /\ spans' = [spans EXCEPT ![key] = @ \cup {r}]
  /\ unclosed' = IF closes THEN unclosed ELSE unclosed \cup {key}
  /\ UNCHANGED <<agents, patched, job, ctx, running, returned, dones, settled, open, pending,
                 waiting, status, jobReports, firstSignal>>

(***************************************************************************)
(* Settling                                                                *)
(***************************************************************************)

Owns(r) == OpensTrace(r) /\ ~isIgnored

\* Faulty: every settlement completes the trace.
settle_each(r, how) ==
  /\ settled' = [settled EXCEPT ![r] = IF Owns(r) THEN Append(@, how) ELSE @]
  /\ pending' = [pending EXCEPT ![r] = IF Owns(r) THEN Append(@, how) ELSE @]

\* settle(): the first one counts; a layer that opened no trace has nothing to.
settle(r, how) ==
  LET first == Owns(r) /\ settled[r] = <<>> IN
  /\ settled' = [settled EXCEPT ![r] = IF first THEN Append(@, how) ELSE @]
  /\ pending' = [pending EXCEPT ![r] = IF first THEN Append(@, how) ELSE @]

Signals(r, how) ==
  /\ settle(r, how)
  /\ firstSignal' = [firstSignal EXCEPT ![r] = IF @ = <<>> THEN <<how>> ELSE @]

\* The handler returns or its promise resolves: the job is completed - unless
\* it calls back and returned no promise, which says nothing.
handlerReturns(r, promise) ==
  /\ r \in running \ returned
  /\ returned' = returned \cup {r}
  /\ promise \/ job.kind # "promise"
  /\ IF promise \/ job.kind = "sync" THEN Signals(r, "completed")
     ELSE UNCHANGED <<settled, pending, firstSignal>>
  /\ UNCHANGED <<agents, patched, job, ctx, running, dones, open, spans, unclosed, waiting, status,
                 jobReports>>

\* It throws, or its promise rejects.
handlerFails(r) ==
  /\ r \in running \ returned
  /\ returned' = returned \cup {r}
  /\ Signals(r, "failed")
  /\ UNCHANGED <<agents, patched, job, ctx, running, dones, open, spans, unclosed, waiting, status,
                 jobReports>>

\* Bull's done(error, value), of a handler that declares it.
callsBack(r, error) ==
  /\ r \in running /\ job.kind = "callback"
  /\ dones[r] < MaxDone
  /\ dones' = [dones EXCEPT ![r] = @ + 1]
  /\ Signals(r, IF error THEN "failed" ELSE "completed")
  /\ UNCHANGED <<agents, patched, job, ctx, running, returned, open, spans, unclosed, waiting, status,
                 jobReports>>

\* Inserted into the buffer, unless the trace ended without a span.
Report(r) == IF spans[r] = {} THEN <<>>
             ELSE <<[run |-> r, id |-> ctx[r].id, status |-> status'[r]]>>

\* The deferred completion: endTrace() notes the status, and pluckSnapshot()
\* hands the trace over - or waits, holding it, for a span that is still open.
\* One that finds the trace gone reports nothing.
jobCompletes(r) ==
  LET key == registryKey(r) IN
  /\ pending[r] # <<>>
  /\ pending' = [pending EXCEPT ![r] = Tail(@)]
  /\ status' = IF key \in open THEN [status EXCEPT ![r] = Head(pending[r])] ELSE status
  /\ IF key \in open /\ key \in unclosed
     THEN waiting' = [waiting EXCEPT ![r] = @ + 1] /\ UNCHANGED <<open, jobReports>>
     ELSE /\ open' = open \ {key}
          /\ jobReports' = IF key \in open THEN jobReports \o Report(r) ELSE jobReports
          /\ UNCHANGED waiting
  /\ UNCHANGED <<agents, patched, job, ctx, running, returned, dones, settled, spans, unclosed,
                 firstSignal>>

\* The wait is over, and the trace goes without its open spans.
jobWaitOver(r) ==
  /\ waiting[r] > 0
  /\ waiting' = [waiting EXCEPT ![r] = @ - 1]
  /\ open' = open \ {registryKey(r)}
  /\ UNCHANGED status
  /\ jobReports' = jobReports \o Report(r)
  /\ UNCHANGED <<agents, patched, job, ctx, running, returned, dones, settled, spans, unclosed,
                 pending, firstSignal>>

JobsNext ==
  \/ agentBuilt
  \/ \E e \in Enqueued : enqueue(e) \/ instrumentHandler(e)
  \/ \E r \in Runs :
       \/ run(r) \/ handlerFails(r) \/ jobCompletes(r) \/ jobWaitOver(r)
       \/ \E b \in BOOLEAN : recordsSpan(r, b) \/ handlerReturns(r, b) \/ callsBack(r, b)

JobsSpec == JobsInit /\ [][JobsNext]_jobVars

(***************************************************************************)
(* Properties                                                              *)
(***************************************************************************)

JobsTypeOK ==
  /\ agents \in 0..MaxAgents
  /\ open \subseteq Runs /\ returned \subseteq running /\ running \subseteq Runs
  /\ \A r \in Runs : dones[r] \in 0..MaxDone /\ spans[r] \subseteq Runs

\* "A second agent replaces the wrapper instead of wrapping it again"
\* (parkOriginal): whatever agents were built, a call goes through one wrapper.
WrappedOnce == \A p \in Patches : Len(patched[p]) <= 1

\* A run is reported once, under the status it first settled with, whatever
\* its handler does afterwards: calls back twice, throws once it has called
\* back, or leaves a span open ("settled", run).
ReportedAsItSettled ==
  \A i, j \in DOMAIN jobReports :
    /\ jobReports[i].run = jobReports[j].run => i = j
    /\ firstSignal[jobReports[i].run] = <<jobReports[i].status>>

\* "The layer that saw the job first owns the trace; this one runs the job
\* inside it" (run): the spans of a run are in its own trace, also when two
\* layers instrument it or a second worker runs the job, and its handler always
\* has a trace to record them in - unless the job has no id to be known by.
SpansInTheirRun ==
  /\ \A r \in Runs : spans[r] \subseteq {r}
  /\ \A r \in running : Owns(r) /\ (job.hasId \/ job.layers = 1) => ctx[r].key = registryKey(r)

\* A run reports under the operation that enqueued it - never under the one
\* that registered a schedule, nor under an id the agent would not adopt.
ReportsUnderItsEnqueuer ==
  \A r \in running : Owns(r) /\ ctx[r].id = GoodId =>
                            \/ job.ctx = GoodId /\ job.opts = "plain"
                            \/ job.opts = "stamped"

\* A run is reported once, as it settled, with its own spans, under the
\* operation that enqueued it, whichever agents and layers see it (run).
RunsReportedAsTheyWere ==
  JobsTypeOK /\ WrappedOnce /\ ReportedAsItSettled /\ SpansInTheirRun /\ ReportsUnderItsEnqueuer

=============================================================================
