----------------------------- MODULE FinalFlush -----------------------------
(***************************************************************************)
(* The shutdown: what is still recorded is handed to the worker batch by   *)
(* batch, until nothing is left, the worker cannot send or time is up, and *)
(* then the worker is terminated.                                          *)
(*                                                                         *)
(* Telemetry is a set of items, each in one place: not recorded yet, on    *)
(* its way through the deferred completion of its operation, in the        *)
(* main-thread batch, held back, in the shared slot, or gone.  The main    *)
(* thread is an event loop: microtasks run before the next timer, and a    *)
(* pass of the final flush is not interrupted on its own thread - but the  *)
(* worker runs beside it, so each look a pass takes at the slot is a step. *)
(* A flush is one step here; SharedSlot has its every access.              *)
(***************************************************************************)
EXTENDS Naturals, Sequences, FiniteSets, TLC

CONSTANTS
    Ops,                       \* requests and jobs
    Logs,                      \* log lines
    MAX_LOGS_PER_TRANSACTION,
    MaxRefusals,               \* bound: replies that pause the worker
    MaxCrashes                 \* bound: times the worker thread dies

ASSUME FinalFlushAssumption ==
    /\ IsFiniteSet(Ops) /\ IsFiniteSet(Logs) /\ Ops \cap Logs = {}
    /\ MAX_LOGS_PER_TRANSACTION \in Nat \ {0}
    /\ MaxRefusals \in Nat /\ MaxCrashes \in Nat
    /\ {"interval sample", "final sample", "sleep0"} \cap (Ops \cup Logs) = {}

\* For TLC: operations are interchangeable, and so are lines.
Symmetry == Permutations(Ops) \cup Permutations(Logs)

Samples == {"interval sample", "final sample"}  \* of the runtime metrics
Items   == Ops \cup Logs \cup Samples

VARIABLES
    where,       \* where each item is
    open,        \* operations with a span still open
    micro,       \* the microtask queue: operations whose completion is due
    timers,      \* the zero timers set and not fired, in order
    locked,      \* the slot's lock
    workerPc,    \* "idle", "sending", "clear" or "dead"
    ahead,       \* the last pausedUntil lies in the future
    workerPaused,\* ... and this worker is the one that set it
    pauseSaid,   \* the message that says so is on its way
    pauseHeard,  \* ... and was handled: sendsPausedUntil holds it
    shutPc,      \* where shutDown() is
    isTerminating,
    exited,      \* onExit() of flushBeforeShutdown ran
    sampleLast,  \* sampleRuntimeMetrics
    end,         \* why flushBeforeShutdown returned
    refusals, crashes,
    owed         \* history: items the final flush has to deliver

loopVars   == <<micro, timers>>
workerVars == <<locked, workerPc, ahead, workerPaused, pauseSaid, refusals, crashes>>
shutVars   == <<shutPc, isTerminating, exited, sampleLast, end, owed>>
vars       == <<where, open, loopVars, pauseHeard, workerVars, shutVars>>

At(place) == {i \in Items : where[i] = place}
Move(items, place) == [i \in Items |-> IF i \in items THEN place ELSE where[i]]

Init ==
    /\ where = [i \in Items |-> "none"]
    /\ open = {}
    /\ micro = <<>>
    /\ timers = <<>>
    /\ locked = FALSE
    /\ workerPc = "idle"
    /\ ahead = FALSE
    /\ workerPaused = FALSE
    /\ pauseSaid = FALSE
    /\ pauseHeard = FALSE
    /\ shutPc = "running"
    /\ isTerminating = FALSE
    /\ exited = FALSE
    /\ sampleLast = FALSE
    /\ end = "none"
    /\ refusals = 0
    /\ crashes = 0
    /\ owed = {}

(***************************************************************************)
(* The application                                                         *)
(***************************************************************************)

\* The main thread is not inside a pass of the final flush, or past it: what
\* is recorded then is not the agent's to send.
Free == shutPc \in {"running", "sleep0", "poll"}

\* An operation is over, with or without a span still open:
\* deferTraceCompletion() queues its microtask.  A job settles in a microtask
\* itself, so this may happen with others queued.
deferTraceCompletion ==
    /\ Free
    /\ \E op \in Ops :
        /\ where[op] = "none"
        /\ where' = Move({op}, "microtask")
        /\ micro' = Append(micro, op)
        /\ open' \in {open, open \cup {op}}
    /\ UNCHANGED <<timers, pauseHeard, workerVars, shutVars>>

\* Faulty: completed at once and from the timer too.
completionMicrotask_both ==
    /\ Free
    /\ micro # <<>>
    /\ micro' = Tail(micro)
    /\ LET op == Head(micro) IN
       IF op \in open
       THEN timers' = Append(timers, op)
       ELSE UNCHANGED timers
    /\ where' = Move({Head(micro)}, "batch")
    /\ UNCHANGED <<open, pauseHeard, workerVars, shutVars>>

\* Its microtask: completed at once, or from a zero timer if a span is open.
completionMicrotask ==
    /\ Free
    /\ micro # <<>>
    /\ micro' = Tail(micro)
    /\ LET op == Head(micro) IN
       IF op \in open
       THEN /\ where' = Move({op}, "timer")
            /\ timers' = Append(timers, op)
       ELSE /\ where' = Move({op}, "batch")
            /\ UNCHANGED timers
    /\ UNCHANGED <<open, pauseHeard, workerVars, shutVars>>

\* Its timer: pluckSnapshot() waits a second more for a span still open.
completionTimer ==
    /\ Free
    /\ micro = <<>>
    /\ timers # <<>>
    /\ Head(timers) \in Ops
    /\ timers' = Tail(timers)
    /\ where' = Move({Head(timers)},
                     IF Head(timers) \in open THEN "plucking" ELSE "batch")
    /\ UNCHANGED <<open, micro, pauseHeard, workerVars, shutVars>>

\* The second is over: the trace is recorded, without the span if need be.
pluckSnapshot ==
    /\ Free
    /\ micro = <<>>
    /\ \E op \in At("plucking") :
        /\ where' = Move({op}, "batch")
        /\ open' = open \ {op}
    /\ UNCHANGED <<loopVars, pauseHeard, workerVars, shutVars>>

\* The last open span of an operation closes.
endTraceStep ==
    /\ Free
    /\ \E op \in open : open' = open \ {op}
    /\ UNCHANGED <<where, loopVars, pauseHeard, workerVars, shutVars>>

\* pushLogs(): into the batch while it has room, or held back for a later one.
pushLogs ==
    /\ Free
    /\ \E line \in Logs :
        /\ where[line] = "none"
        /\ where' = Move({line},
                         IF Cardinality(At("batch") \cap Logs) < MAX_LOGS_PER_TRANSACTION
                         THEN "batch" ELSE "pending")
    /\ UNCHANGED <<open, loopVars, pauseHeard, workerVars, shutVars>>

\* The runtime metrics timer.
addNodeRuntimeMetrics ==
    /\ Free
    /\ micro = <<>>
    /\ shutPc = "running"
    /\ where["interval sample"] = "none"
    /\ where' = Move({"interval sample"}, "batch")
    /\ UNCHANGED <<open, loopVars, pauseHeard, workerVars, shutVars>>

\* drainPendingLogs(): lines move into the batch up to the number it may hold.
Drained(room) ==
    LET space == room - Cardinality(At("batch") \cap Logs)
    IN  {lines \in SUBSET At("pending") :
            Cardinality(lines) = IF space <= 0 THEN 0
                                 ELSE IF space <= Cardinality(At("pending"))
                                      THEN space
                                      ELSE Cardinality(At("pending"))}

\* The worker has the lock for a moment, to look into an empty slot.
Looking == workerPc = "idle" /\ At("slot") = {}

\* flush() with these held-back lines drained into the batch: skipped when the
\* slot is locked; otherwise the batch takes the place of what is in the slot -
\* or does not fit, is reported and dropped.
FlushWith(lines) ==
    LET batch == At("batch") \cup lines IN
    \/ /\ batch = {} \/ locked \/ Looking
       /\ where' = Move(lines, "batch")
    \/ /\ batch # {} /\ ~locked
       /\ where' = [i \in Items |-> IF i \in batch THEN "slot"
                                    ELSE IF where[i] = "slot" THEN "overwritten"
                                    ELSE where[i]]
    \/ /\ batch # {} /\ ~locked
       /\ where' = Move(batch, "dropped")

\* The flush timer.
flushInterval ==
    /\ shutPc = "running"
    /\ micro = <<>>
    /\ \E lines \in Drained(MAX_LOGS_PER_TRANSACTION) : FlushWith(lines)
    /\ UNCHANGED <<open, loopVars, pauseHeard, workerVars, shutVars>>

(***************************************************************************)
(* The shutdown                                                            *)
(***************************************************************************)

\* onApplicationShutdown(), in whatever task Nest reaches it: the timers stop,
\* a last runtime sample is due unless one was just taken - added now, or after
\* the batch that holds an earlier one - and the final flush begins by waiting
\* for a zero timer.
shutDown ==
    /\ shutPc = "running"
    /\ shutPc' = "sleep0"
    /\ isTerminating' = TRUE
    /\ timers' = Append(timers, "sleep0")
    /\ \/ /\ UNCHANGED <<where, sampleLast>>
       \/ /\ where["interval sample"] = "batch"
          /\ sampleLast' = TRUE
          /\ UNCHANGED where
       \/ /\ where["interval sample"] # "batch"
          /\ where' = Move({"final sample"}, "batch")
          /\ UNCHANGED sampleLast
    /\ owed' = {i \in Items : where'[i] \in {"batch", "pending", "slot", "timer",
                                            "plucking"}}
    /\ UNCHANGED <<open, micro, pauseHeard, workerVars, exited, end>>

\* sleep(0) is over.
sleep0 ==
    /\ shutPc = "sleep0"
    /\ micro = <<>>
    /\ timers # <<>>
    /\ Head(timers) = "sleep0"
    /\ timers' = Tail(timers)
    /\ shutPc' = "head"
    /\ UNCHANGED <<where, open, micro, pauseHeard, workerVars, isTerminating,
                   exited, sampleLast, end, owed>>

Pass(from, to) ==
    /\ shutPc = from
    /\ shutPc' = to
    /\ UNCHANGED <<open, loopVars, pauseHeard, workerVars, isTerminating, exited,
                   owed>>

\* The head of the loop: a worker that is gone, or paused, is not waited for.
giveUp ==
    /\ exited \/ (ahead /\ pauseHeard)
    /\ Pass("head", "terminate")
    /\ end' = IF exited THEN "exited" ELSE "paused"
    /\ UNCHANGED <<where, sampleLast>>

\* Faulty: it flushes without waiting for the slot.
checkSlot_doesNotWait ==
    /\ ~exited /\ ~(ahead /\ pauseHeard)
    /\ Pass("head", "flush")
    /\ UNCHANGED <<where, sampleLast, end>>

\* hasBatchAwaitingWorker(): the worker is not done with the last batch.
checkSlot ==
    /\ ~exited /\ ~(ahead /\ pauseHeard)
    /\ Pass("head", IF At("slot") = {} THEN "flush" ELSE "deadline")
    /\ UNCHANGED <<where, sampleLast, end>>

\* A batch to itself for all the lines held back, then flush().
finalFlush ==
    /\ Pass("flush", "after")
    /\ IF At("batch") = {}
       THEN FlushWith(At("pending"))
       ELSE \E lines \in Drained(MAX_LOGS_PER_TRANSACTION) : FlushWith(lines)
    /\ UNCHANGED <<sampleLast, end>>

\* Faulty: traces waiting in the registry are forgotten.
NothingLeft_ignoresRegistry ==
    At("slot") = {} /\ At("batch") = {} /\ At("pending") = {}

NothingLeft ==
    At("slot") = {} /\ At("batch") = {} /\ At("pending") = {} /\ At("plucking") = {}

\* Nothing is left but the last runtime sample, if it can be collected.
addFinalRuntimeMetrics ==
    /\ NothingLeft
    /\ sampleLast
    /\ Pass("after", "head")
    /\ sampleLast' = FALSE
    /\ where' \in {where, Move({"final sample"}, "batch")}
    /\ UNCHANGED end

\* Nothing is left.
drained ==
    /\ NothingLeft
    /\ ~sampleLast
    /\ Pass("after", "terminate")
    /\ end' = "drained"
    /\ UNCHANGED <<where, sampleLast>>

somethingLeft ==
    /\ ~NothingLeft
    /\ Pass("after", "deadline")
    /\ UNCHANGED <<where, sampleLast, end>>

\* process.uptime() has reached the deadline ...
outOfTime ==
    /\ Pass("deadline", "terminate")
    /\ end' = "deadline"
    /\ UNCHANGED <<where, sampleLast>>

\* ... or there is time for another pass, after sleep(FINAL_FLUSH_POLL_MS).
timeLeft ==
    /\ Pass("deadline", "poll")
    /\ UNCHANGED <<where, sampleLast, end>>

poll ==
    /\ micro = <<>>
    /\ Pass("poll", "head")
    /\ UNCHANGED <<where, sampleLast, end>>

\* worker.terminate() stops the thread where it stands.
terminate ==
    /\ shutPc = "terminate"
    /\ shutPc' = "terminated"
    /\ workerPc' = "dead"
    /\ UNCHANGED <<where, open, loopVars, pauseHeard, locked, ahead, workerPaused,
                   pauseSaid, refusals, crashes, isTerminating, exited,
                   sampleLast, end, owed>>

(***************************************************************************)
(* The worker                                                              *)
(***************************************************************************)

\* The loop takes a batch.
acquireLock ==
    /\ workerPc = "idle"
    /\ ~(ahead /\ workerPaused)
    /\ ~locked
    /\ At("slot") # {}
    /\ locked' = TRUE
    /\ workerPc' = "sending"
    /\ UNCHANGED <<where, open, loopVars, pauseHeard, ahead, workerPaused,
                   pauseSaid, refusals, crashes, shutVars>>

\* The collector took the batch, or it is given up.
sent ==
    /\ workerPc = "sending"
    /\ workerPc' = "clear"
    /\ UNCHANGED <<where, open, loopVars, pauseHeard, locked, ahead, workerPaused,
                   pauseSaid, refusals, crashes, shutVars>>

\* The collector refused it and the worker says until when it will pause.
refused ==
    /\ workerPc = "sending"
    /\ refusals < MaxRefusals
    /\ workerPc' = "clear"
    /\ ahead' = TRUE
    /\ workerPaused' = TRUE
    /\ pauseSaid' = TRUE
    /\ refusals' = refusals + 1
    /\ UNCHANGED <<where, open, loopVars, pauseHeard, locked, crashes, shutVars>>

clearBuffer ==
    /\ workerPc = "clear"
    /\ workerPc' = "idle"
    /\ locked' = FALSE
    /\ where' = Move(At("slot"), "answered")
    /\ UNCHANGED <<open, loopVars, pauseHeard, ahead, workerPaused, pauseSaid,
                   refusals, crashes, shutVars>>

pauseLapses ==
    /\ ahead
    /\ ahead' = FALSE
    /\ UNCHANGED <<where, open, loopVars, pauseHeard, locked, workerPc,
                   workerPaused, pauseSaid, refusals, crashes, shutVars>>

\* Faulty: the message is only logged.
handlePaused_ignored ==
    /\ Free
    /\ micro = <<>>
    /\ pauseSaid
    /\ pauseSaid' = FALSE
    /\ UNCHANGED <<where, open, loopVars, pauseHeard, locked, workerPc, ahead, workerPaused,
                   refusals, crashes, shutVars>>

\* handleMessage(), for the message that announces a pause.
handlePaused ==
    /\ Free
    /\ micro = <<>>
    /\ pauseSaid
    /\ pauseSaid' = FALSE
    /\ pauseHeard' = TRUE
    /\ UNCHANGED <<where, open, loopVars, locked, workerPc, ahead, workerPaused,
                   refusals, crashes, shutVars>>

workerCrash ==
    /\ workerPc \in {"idle", "sending", "clear"}
    /\ crashes < MaxCrashes
    /\ workerPc' = "dead"
    /\ crashes' = crashes + 1
    /\ UNCHANGED <<where, open, loopVars, pauseHeard, locked, ahead, workerPaused,
                   pauseSaid, refusals, shutVars>>

\* The exit listeners: during the shutdown nobody restarts the worker, and the
\* final flush learns of its death; before, a new one takes its place.
workerExits ==
    /\ Free \/ shutPc = "terminated"
    /\ shutPc # "terminated" => micro = <<>>
    /\ workerPc = "dead"
    /\ ~pauseSaid
    /\ ~exited
    /\ IF isTerminating
       THEN exited' = TRUE /\ UNCHANGED <<workerPc, workerPaused>>
       ELSE workerPc' = "idle" /\ workerPaused' = FALSE /\ UNCHANGED exited
    /\ UNCHANGED <<where, open, loopVars, pauseHeard, locked, ahead, pauseSaid,
                   refusals, crashes, shutPc, isTerminating, sampleLast,
                   end, owed>>

-----------------------------------------------------------------------------
ApplicationStep ==
    \/ deferTraceCompletion \/ endTraceStep \/ pushLogs \/ addNodeRuntimeMetrics
    \/ flushInterval \/ shutDown

EventLoopStep ==
    \/ completionMicrotask \/ completionTimer \/ pluckSnapshot \/ sleep0 \/ poll
    \/ handlePaused \/ workerExits

PassStep ==
    \/ giveUp \/ checkSlot \/ finalFlush \/ addFinalRuntimeMetrics \/ drained
    \/ somethingLeft \/ outOfTime \/ timeLeft \/ terminate

WorkerStep == acquireLock \/ sent \/ refused \/ clearBuffer

Next ==
    \/ ApplicationStep \/ EventLoopStep \/ PassStep \/ WorkerStep
    \/ pauseLapses \/ workerCrash

Spec == Init /\ [][Next]_vars

\* The event loop gets to every event that is due between two passes; a pass
\* is synchronous code; the worker's loop goes on, its requests being bounded;
\* and the worker looks into an empty slot for an instant out of every 50 ms
\* while the final flush tries every 10.  Nothing is assumed of the
\* application, of the end of a pause, or of crashes.
Fairness ==
    /\ WF_vars(EventLoopStep)
    /\ SF_vars(pluckSnapshot) /\ SF_vars(handlePaused) /\ SF_vars(workerExits)
    /\ WF_vars(PassStep)
    /\ SF_vars(finalFlush /\ At("batch")' = {})
    /\ WF_vars(WorkerStep)

FairSpec == Spec /\ Fairness

(***************************************************************************)
(* Properties                                                              *)
(***************************************************************************)

FlagsOK ==
    /\ locked \in BOOLEAN /\ ahead \in BOOLEAN /\ workerPaused \in BOOLEAN
    /\ pauseSaid \in BOOLEAN /\ pauseHeard \in BOOLEAN /\ isTerminating \in BOOLEAN
    /\ exited \in BOOLEAN /\ sampleLast \in BOOLEAN

\* Every item is in one place, and the event loop's queues hold exactly the
\* operations whose completion is due (deferTraceCompletion).
TypeOK ==
    /\ where \in [Items -> {"none", "microtask", "timer", "plucking", "batch",
                            "pending", "slot", "overwritten", "dropped",
                            "answered"}]
    /\ open \subseteq Ops
    /\ micro \in Seq(Ops)
    /\ timers \in Seq(Ops \cup {"sleep0"})
    /\ At("microtask") = {micro[i] : i \in DOMAIN micro}
    /\ At("timer") = {timers[i] : i \in DOMAIN timers} \ {"sleep0"}
    /\ workerPc \in {"idle", "sending", "clear", "dead"}
    /\ shutPc \in {"running", "sleep0", "head", "flush", "after", "deadline",
                   "poll", "terminate", "terminated"}
    /\ end \in {"none", "exited", "paused", "drained", "deadline"}
    /\ FlagsOK
    /\ refusals \in Nat /\ crashes \in Nat
    /\ owed \subseteq Items

\* The final flush never writes over a batch the worker is not done with:
\* "Waiting for an empty slot before each write is also what stops the final
\* flush overwriting a batch the worker has not read yet" (flushBeforeShutdown).
NothingOverwritten ==
    [][isTerminating =>
          \A i \in Items : where[i] = "slot" => where'[i] # "overwritten"]_vars

\* When the final flush ends of its own accord, all that was recorded when the
\* shutdown began - in the batch, held back, in the slot, on a completion timer
\* or waiting in the registry - has been answered by the collector, or was too
\* large to send (flushBeforeShutdown).
DrainedMeansAnswered ==
    end = "drained" => \A i \in owed : where[i] \in {"answered", "dropped"}

\* As long as the worker lives the shutdown comes to an end without its deadline:
\* every batch is answered or given up, and "A worker paused after a 429, or
\* refused for its credentials, says so and is not waited for"
\* (flushBeforeShutdown).
EndsOfItself == isTerminating ~> shutPc = "terminated" \/ crashes > 0

\* As time passes it ends whatever becomes of the worker, dead with the lock in
\* its hands included (shutdownFlushTimeout), and a worker that was terminated
\* is not replaced by the listener that replaces one that died (watchWorker).
EndsInTime ==
    SF_vars(outOfTime) =>
        (isTerminating ~> [](shutPc = "terminated" /\ workerPc = "dead"))

\* The shutdown comes to an end, of itself or in time (onApplicationShutdown).
ShutdownEnds == EndsOfItself /\ EndsInTime
=============================================================================
