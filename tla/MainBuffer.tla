----------------------------- MODULE MainBuffer -----------------------------
(***************************************************************************)
(* The batch ObserveAgentSharedBuffer builds between two flushes: requests *)
(* and jobs under a limit, with or without their span trees, log lines     *)
(* under a limit of their own with a backlog behind it, and the count of   *)
(* what the collector's verdict made the agent withhold.                   *)
(*                                                                         *)
(* All of it is synchronous code of one thread; what varies is the order   *)
(* of the calls, the verdict and the OTLP grant in force at each of them,  *)
(* and whether a flush finds the slot locked, writes or throws.  An        *)
(* execution is what decides its fate: its status code, its error, whether *)
(* it was slow, and the size of its tree.                                  *)
(***************************************************************************)
EXTENDS Naturals, Sequences

CONSTANTS
    Executions,                \* the requests and jobs that may complete
    maxOperationsPerBatch,
    MAX_LOGS_PER_TRANSACTION,
    MAX_PENDING_LOGS,
    MaxExecutions,             \* bound: requests and jobs completed
    MaxLines                   \* bound: log lines pushed

Kinds == {"request", "job"}

ASSUME MainBufferAssumption ==
    /\ Executions \subseteq
           [kind : Kinds,
            sc   : {0} \cup 100..599,   \* a.sc; 0 when there is no status code
            e    : BOOLEAN,             \* it carries an error
            slow : BOOLEAN,             \* d > NOTABLE_DURATION_MS
            nodes : Nat]                \* countTraceNodes(t)
    /\ maxOperationsPerBatch \in Nat \ {0}
    /\ MAX_LOGS_PER_TRANSACTION \in Nat \ {0}
    /\ MAX_PENDING_LOGS \in Nat
    /\ MaxExecutions \in Nat /\ MaxLines \in Nat

VARIABLES
    sendsNothing,   \* an application without credentials, or disabled
    ingestMode,     \* the verdict in force: isErrorsOnly(), isDegraded()
    grant,          \* otlpExportGrant()
    batchOpen,       \* _mainThreadBuffer is not null
    kept,           \* its snapshots and its jobs
    withheld,       \* withheldSnapshots, withheldJobs
    truncatedSpans,
    logs,           \* its log lines; a line is its number
    pendingLogs,
    writtenBatch,        \* the batch encodeAndWrite() wrote, until the next call
    completions, pushedLines,   \* completed executions and pushed lines so far
    \* history, of the batch being built
    offered,        \* executions offered, by kind
    metered,        \* events recorded in it, in the units the collector bills
    exportedNow,    \* what a capped export sent meanwhile, by kind, each with the
                    \* place its execution has in the batch
    alwaysPaused,   \* its every call found errors-only in force
    \* history
    drainedUpTo     \* the newest line that left the backlog

batchVars == <<batchOpen, kept, withheld, truncatedSpans, logs>>
batchHistory   == <<offered, metered, exportedNow, alwaysPaused>>
verdictVars   == <<sendsNothing, ingestMode, grant>>
bufferVars      == <<verdictVars, batchVars, pendingLogs, writtenBatch, completions, pushedLines, batchHistory,
               drainedUpTo>>

NoBatch == [kept |-> [k \in Kinds |-> <<>>], logs |-> <<>>, truncatedSpans |-> 0,
            metered |-> 0, paused |-> FALSE]

BatchInit ==
    /\ sendsNothing \in BOOLEAN
    /\ ingestMode = "full"
    /\ grant = "off"
    /\ batchOpen = FALSE
    /\ kept = [k \in Kinds |-> <<>>]
    /\ withheld = [k \in Kinds |-> 0]
    /\ truncatedSpans = 0
    /\ logs = <<>>
    /\ pendingLogs = <<>>
    /\ writtenBatch = NoBatch
    /\ completions = 0
    /\ pushedLines = 0
    /\ offered = [k \in Kinds |-> 0]
    /\ metered = 0
    /\ exportedNow = [k \in Kinds |-> <<>>]
    /\ alwaysPaused = TRUE
    /\ drainedUpTo = 0

-----------------------------------------------------------------------------
\* A status code decides alone; without one, the error does.
isServerErrorSnapshot(ex) == IF ex.sc # 0 THEN ex.sc >= 500 ELSE ex.e

isNotableSnapshot(ex) == ex.slow \/ isServerErrorSnapshot(ex)

\* The request or job itself and the error it carries, without its tree.
Itself(ex) == IF ex.e THEN 2 ELSE 1

errorsOnlyNow == ingestMode = "errors-only"
degradedNow   == ingestMode # "full"

\* Whether the tree of an execution is kept.
keepsTree(ex) == ~degradedNow \/ (~errorsOnlyNow /\ isNotableSnapshot(ex))

atCap(kind) == Len(kept[kind]) + withheld[kind] >= maxOperationsPerBatch

\* Faulty: the error of a withheld execution is not counted.
countWithheld_noError(ex, sends) ==
    (IF keepsTree(ex) THEN 0 ELSE ex.nodes) + (IF sends THEN 0 ELSE 1)

\* What an execution adds to truncatedSpans: its tree, unless kept, and itself
\* when it is not sent at all.
countWithheld(ex, sends) ==
    (IF keepsTree(ex) THEN 0 ELSE ex.nodes) + (IF sends THEN 0 ELSE Itself(ex))

cappedExport(ex) == [ex |-> ex, tree |-> keepsTree(ex), at |-> Len(kept[ex.kind]) + 1]

\* insertRequestSnapshot() and insertJobSnapshot().  An execution past the cap
\* is dropped, with the batch it would have been in created all the same.  A full
\* grant exports before any of this and changes nothing here.
insertSnapshot ==
    /\ completions < MaxExecutions
    /\ completions' = completions + 1
    /\ batchOpen' = TRUE
    /\ \E ex \in Executions :
        LET sends == ~errorsOnlyNow \/ isServerErrorSnapshot(ex) IN
        /\ offered' = [offered EXCEPT ![ex.kind] = @ + 1]
        /\ alwaysPaused' = (alwaysPaused /\ errorsOnlyNow)
        /\ \/ /\ atCap(ex.kind)
              /\ UNCHANGED <<kept, withheld, truncatedSpans, exportedNow, metered>>
           \/ /\ ~atCap(ex.kind)
              /\ metered' = metered + Itself(ex) + ex.nodes
              /\ truncatedSpans' = truncatedSpans + countWithheld(ex, sends)
              /\ IF sends
                 THEN /\ kept' = [kept EXCEPT ![ex.kind] = Append(@,
                                    [ex |-> ex, tree |-> keepsTree(ex),
                                     capped |-> grant = "capped"])]
                      /\ exportedNow' =
                             IF grant = "capped"
                             THEN [exportedNow EXCEPT ![ex.kind] = Append(@, cappedExport(ex))]
                             ELSE exportedNow
                      /\ UNCHANGED withheld
                 ELSE /\ withheld' = [withheld EXCEPT ![ex.kind] = @ + 1]
                      /\ UNCHANGED <<kept, exportedNow>>
    /\ writtenBatch' = NoBatch
    /\ UNCHANGED <<verdictVars, logs, pendingLogs, pushedLines, drainedUpTo>>

\* insertRequestSnapshot() with no operation id to file the request under.
insertUnnamedSnapshot ==
    /\ completions < MaxExecutions
    /\ completions' = completions + 1
    /\ writtenBatch' = NoBatch
    /\ UNCHANGED <<verdictVars, batchVars, pendingLogs, pushedLines, batchHistory, drainedUpTo>>

\* pushLogs(), one line: into the batch, or the backlog, or - both full - lost.
pushLogs ==
    /\ pushedLines < MaxLines
    /\ pushedLines' = pushedLines + 1
    /\ batchOpen' = TRUE
    /\ alwaysPaused' = (alwaysPaused /\ errorsOnlyNow)
    /\ IF Len(logs) < MAX_LOGS_PER_TRANSACTION
       THEN /\ logs' = Append(logs, pushedLines')
            /\ metered' = metered + 1
            /\ UNCHANGED pendingLogs
       ELSE /\ pendingLogs' = IF Len(pendingLogs) < MAX_PENDING_LOGS
                              THEN Append(pendingLogs, pushedLines') ELSE pendingLogs
            /\ UNCHANGED <<logs, metered>>
    /\ writtenBatch' = NoBatch
    /\ UNCHANGED <<verdictVars, kept, withheld, truncatedSpans, completions, offered,
                   exportedNow, drainedUpTo>>

\* A reply's verdict and grant, or the lapse of either.
setIngestMode ==
    /\ ~sendsNothing
    /\ ingestMode' \in {"full", "reduced", "errors-only"}
    /\ grant' \in {"off", "capped", "full"}
    /\ writtenBatch' = NoBatch
    /\ UNCHANGED <<sendsNothing, batchVars, pendingLogs, completions, pushedLines, batchHistory,
                   drainedUpTo>>

\* drainPendingLogs(): the lines that move from the backlog into the batch, and
\* those that stay.
drainable ==
    LET n == Len(pendingLogs)
        space == MAX_LOGS_PER_TRANSACTION - Len(logs)
    IN  IF Len(logs) >= MAX_LOGS_PER_TRANSACTION THEN 0
        ELSE IF n <= space THEN n ELSE space
drained == SubSeq(pendingLogs, 1, drainable)

drainPendingLogs ==
    /\ pendingLogs' = SubSeq(pendingLogs, drainable + 1, Len(pendingLogs))
    /\ drainedUpTo' = IF drainable = 0 THEN drainedUpTo ELSE pendingLogs[drainable]

resetMainThreadBuffer ==
    /\ batchOpen' = FALSE
    /\ kept' = [k \in Kinds |-> <<>>]
    /\ truncatedSpans' = 0
    /\ logs' = <<>>
    /\ withheld' = [k \in Kinds |-> 0]
    /\ offered' = [k \in Kinds |-> 0]
    /\ metered' = 0
    /\ exportedNow' = [k \in Kinds |-> <<>>]
    /\ alwaysPaused' = TRUE

\* withholdLogs(): a pause takes the lines out of the batch and counts them.
withholdLogs(all) ==
    IF errorsOnlyNow THEN [logs |-> <<>>, count |-> Len(all)]
    ELSE [logs |-> all, count |-> 0]

\* flush() of an agent that sends nothing: the backlog drains, the batch goes.
flushNothing ==
    /\ sendsNothing
    /\ drainPendingLogs
    /\ resetMainThreadBuffer
    /\ UNCHANGED <<verdictVars, writtenBatch, completions, pushedLines>>

\* flush() with nothing to send.
flushEmpty ==
    /\ ~sendsNothing
    /\ ~batchOpen /\ pendingLogs = <<>>
    /\ UNCHANGED bufferVars

\* flush() while the worker has the slot: only the backlog has moved.
flushLocked ==
    /\ ~sendsNothing
    /\ batchOpen \/ pendingLogs # <<>>
    /\ batchOpen' = TRUE
    /\ drainPendingLogs
    /\ logs' = logs \o drained
    /\ metered' = metered + Len(drained)
    /\ alwaysPaused' = (alwaysPaused /\ errorsOnlyNow)
    /\ writtenBatch' = NoBatch
    /\ UNCHANGED <<verdictVars, kept, withheld, truncatedSpans, completions, pushedLines, offered,
                   exportedNow>>

\* flush() that gets the lock and writes.
flushBatch ==
    /\ ~sendsNothing
    /\ batchOpen \/ pendingLogs # <<>>
    /\ drainPendingLogs
    /\ LET out == withholdLogs(logs \o drained) IN
       writtenBatch' = [kept |-> kept, logs |-> out.logs,
                   truncatedSpans |-> truncatedSpans + out.count,
                   metered |-> metered + Len(drained),
                   paused |-> alwaysPaused /\ errorsOnlyNow]
    /\ resetMainThreadBuffer
    /\ UNCHANGED <<verdictVars, completions, pushedLines>>

\* flush() whose batch is too large for the slot: reported, and gone.
flushBatchThrows ==
    /\ ~sendsNothing
    /\ batchOpen \/ pendingLogs # <<>>
    /\ drainPendingLogs
    /\ resetMainThreadBuffer
    /\ UNCHANGED <<verdictVars, writtenBatch, completions, pushedLines>>

-----------------------------------------------------------------------------
BatchNext ==
    \/ insertSnapshot \/ insertUnnamedSnapshot \/ pushLogs
    \/ setIngestMode
    \/ flushNothing \/ flushEmpty \/ flushLocked \/ flushBatch \/ flushBatchThrows

BatchSpec == BatchInit /\ [][BatchNext]_bufferVars

(***************************************************************************)
(* Properties                                                              *)
(***************************************************************************)

BatchEntries == [ex : Executions, tree : BOOLEAN, capped : BOOLEAN]

\* The batch and the backlog stay within their limits, also across verdicts
\* that change half-way through a batch (MAX_LOGS_PER_TRANSACTION,
\* MAX_PENDING_LOGS, maxOperationsPerBatch).
BatchTypeOK ==
    /\ sendsNothing \in BOOLEAN /\ batchOpen \in BOOLEAN /\ alwaysPaused \in BOOLEAN
    /\ ingestMode \in {"full", "reduced", "errors-only"}
    /\ grant \in {"off", "capped", "full"}
    /\ kept \in [Kinds -> Seq(BatchEntries)]
    /\ withheld \in [Kinds -> 0..maxOperationsPerBatch]
    /\ \A k \in Kinds : Len(kept[k]) + withheld[k] <= maxOperationsPerBatch
    /\ logs \in Seq(1..pushedLines) /\ Len(logs) <= MAX_LOGS_PER_TRANSACTION
    /\ pendingLogs \in Seq(1..pushedLines) /\ Len(pendingLogs) <= MAX_PENDING_LOGS
    /\ truncatedSpans \in Nat /\ metered \in Nat
    /\ completions \in 0..MaxExecutions /\ pushedLines \in 0..MaxLines
    /\ offered \in [Kinds -> Nat]
    /\ exportedNow \in [Kinds -> Seq([ex : Executions, tree : BOOLEAN, at : Nat])]
    /\ drainedUpTo \in 0..pushedLines

\* The events a batch carries: executions, their errors, trees and log lines.
Units(entry) == Itself(entry.ex) + (IF entry.tree THEN entry.ex.nodes ELSE 0)
UnitsIn(entries) ==
    LET upTo[n \in 0..Len(entries)] == IF n = 0 THEN 0 ELSE upTo[n - 1] + Units(entries[n])
    IN  upTo[Len(entries)]
EventsIn(k, ls) == UnitsIn(k["request"]) + UnitsIn(k["job"]) + Len(ls)

\* "it carries everything withheld, in the units the meter bills" (truncatedSpans):
\* what was recorded is in the batch or counted as withheld, once - in the batch
\* being built and in the one written, through verdicts that change in between.
EventsAccounted ==
    /\ metered = EventsIn(kept, logs) + truncatedSpans
    /\ writtenBatch.metered = EventsIn(writtenBatch.kept, writtenBatch.logs) + writtenBatch.truncatedSpans

\* "a pause grades the same executions a batch would carry outside one"
\* (withheldSnapshots, withheldJobs): of the executions offered to a batch the
\* first maxOperationsPerBatch of each kind are graded, whatever the verdicts.
GradedAlike ==
    \A k \in Kinds :
        Len(kept[k]) + withheld[k] =
            IF offered[k] <= maxOperationsPerBatch THEN offered[k]
            ELSE maxOperationsPerBatch

\* A batch built under a pause from beginning to end carries server errors
\* without their trees, and nothing else (sendsWhileErrorsOnly, withholdLogs).
PauseShipsServerErrors ==
    writtenBatch.paused =>
        /\ writtenBatch.logs = <<>>
        /\ \A k \in Kinds : \A i \in 1..Len(writtenBatch.kept[k]) :
               /\ isServerErrorSnapshot(writtenBatch.kept[k][i].ex)
               /\ ~writtenBatch.kept[k][i].tree

\* "A capped export is what NestJS Observe keeps" (otlpExportCappedUntil): under
\* a capped grant an execution is exported if and only if it is in the batch,
\* and with its tree if and only if the tree is.
CappedExportIsWhatIsKept ==
    \A k \in Kinds : LET inBatch == kept[k]
                         sent == exportedNow[k] IN
        /\ \A i \in 1..Len(inBatch) :
               inBatch[i].capped <=> \E j \in 1..Len(sent) : sent[j].at = i
        /\ \A j \in 1..Len(sent) :
               /\ sent[j].at \in 1..Len(inBatch)
               /\ sent[j].ex = inBatch[sent[j].at].ex
               /\ sent[j].tree = inBatch[sent[j].at].tree
        /\ \A i, j \in 1..Len(sent) : i < j => sent[i].at < sent[j].at

\* The backlog is a queue: lines leave it oldest first, and none stays behind
\* one that was held back later (drainPendingLogs).
BacklogInOrder ==
    /\ \A i, j \in 1..Len(pendingLogs) : i < j => pendingLogs[i] < pendingLogs[j]
    /\ \A i \in 1..Len(pendingLogs) : pendingLogs[i] > drainedUpTo

\* Whatever verdicts come while a batch is built, all that was recorded is in it
\* or counted, graded alike and exported alike, and lines keep their order
\* (insertRequestSnapshot, pushLogs, flush).
BatchIsAccounted ==
    /\ BatchTypeOK
    /\ EventsAccounted /\ GradedAlike /\ PauseShipsServerErrors
    /\ CappedExportIsWhatIsKept /\ BacklogInOrder

\* No line is stranded in the backlog once the process goes quiet (as it does
\* here, after MaxLines lines and MaxExecutions executions): draining
\* "immediately before it decides whether there is anything worth flushing" is
\* "what stops a backlog stranding itself" (drainPendingLogs, flush).
BacklogDrains ==
    pendingLogs # <<>> ~> pendingLogs = <<>>
=============================================================================
