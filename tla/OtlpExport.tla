---------------------------- MODULE OtlpExport ----------------------------
(* OtlpTraceExporter (otlp/otlp-trace-exporter.service.ts): the queue of    *)
(* finished spans on the application's thread, one export at a time, the    *)
(* retry of an export the receiver refused, and the drain at shutdown.      *)
(* Spans are numbered in the order the operations hand them over.           *)
EXTENDS Integers, Sequences, SequencesExt

CONSTANTS MAX_QUEUED_SPANS, MAX_BATCH_SPANS,
          RETRY_BASE_MS, RETRY_MAX_MS, RETRY_AFTER_MAX_MS,
          TreeSizes,     \* how many spans a finished operation has
          RetryAfters,   \* what a receiver puts in Retry-After (0: nothing)
          MaxSpans       \* bound: spans handed over in a behaviour

ASSUME OtlpExportAssumption ==
  /\ MAX_QUEUED_SPANS \in Nat /\ MAX_BATCH_SPANS \in Nat \ {0} /\ MaxSpans \in Nat
  /\ RETRY_BASE_MS \in 1..RETRY_MAX_MS /\ RETRY_MAX_MS \in 1..RETRY_AFTER_MAX_MS
  /\ RETRY_AFTER_MAX_MS \in Nat /\ TreeSizes \subseteq Nat /\ RetryAfters \subseteq Nat

VARIABLES
  queue,            \* spans waiting
  sending,          \* the batch under way (<<>>: no export)
  wait,             \* what is left until retryNotBefore
  retryDelayMs, lastSendFailed, droppedSpans,
  pendingTrees,     \* operations that wait in the registry for their spans
  drain,            \* the shutdown: not begun, its steps, and how it ended
  handed,           \* history: spans handed over
  exported,         \* history: spans the receiver took, in order
  lost,             \* history: spans of a batch whose loss was reported or shut down
  toldDropped       \* history: dropped spans a recovery reported

otlpVars == <<queue, sending, wait, retryDelayMs, lastSendFailed, droppedSpans,
              pendingTrees, drain, handed, exported, lost, toldDropped>>
retryState == <<wait, retryDelayMs, lastSendFailed, droppedSpans>>
history == <<handed, exported, lost, toldDropped>>

Ended == {"drained", "failed", "expired"}
shuttingDown == drain # "no"

OtlpInit ==
  /\ queue = <<>> /\ sending = <<>> /\ wait = 0 /\ retryDelayMs = 0
  /\ lastSendFailed = FALSE /\ droppedSpans = 0 /\ pendingTrees = 0 /\ drain = "no"
  /\ handed = 0 /\ exported = <<>> /\ lost = 0 /\ toldDropped = 0

-----------------------------------------------------------------------------
Least(a, b) == IF a < b THEN a ELSE b

(* flush() on queue q when s is under way and w is left to wait.            *)
canFlush(q, s, w) == s = <<>> /\ q # <<>> /\ w = 0
batchOf(q) == SubSeq(q, 1, Least(MAX_BATCH_SPANS, Len(q)))
flushed(q, s, w) ==
  IF canFlush(q, s, w) THEN [queue |-> SubSeq(q, MAX_BATCH_SPANS + 1, Len(q)), sending |-> batchOf(q)]
                       ELSE [queue |-> q, sending |-> s]

(* The interval's flush; the timer is cleared by shutDown.                  *)
flushTimer ==
  /\ ~shuttingDown /\ canFlush(queue, sending, wait)
  /\ queue' = flushed(queue, sending, wait).queue
  /\ sending' = flushed(queue, sending, wait).sending
  /\ UNCHANGED <<retryState, pendingTrees, drain, history>>

(* enqueue: a tree that does not fit is dropped whole and counted; a queue  *)
(* that holds a batch is flushed at once.                                   *)
enqueue(n) ==
  LET q == queue \o [i \in 1..n |-> handed + i]
      f == IF Len(q) >= MAX_BATCH_SPANS THEN flushed(q, sending, wait)
                                        ELSE [queue |-> q, sending |-> sending]
  IN IF Len(queue) + n > MAX_QUEUED_SPANS
       THEN droppedSpans' = droppedSpans + n /\ UNCHANGED <<queue, sending>>
       ELSE queue' = f.queue /\ sending' = f.sending /\ UNCHANGED droppedSpans

(* An operation ends while spans under it are open: it waits in the         *)
(* registry (hasSnapshotsAwaitingCompletion). The servers are closed before *)
(* onApplicationShutdown, so none ends after it.                            *)
endsWithOpenSpans ==
  /\ pendingTrees = 0 /\ handed < MaxSpans /\ ~shuttingDown
  /\ pendingTrees' = 1
  /\ UNCHANGED <<queue, sending, retryState, drain, history>>

(* exportRequestSnapshot, exportJobSnapshot: an operation in a trace its    *)
(* caller sampled out, or one that cannot be mapped, hands over nothing.    *)
exportSnapshot(n, leftOut) ==
  /\ leftOut \/ handed + n <= MaxSpans
  /\ pendingTrees' \in {pendingTrees, 0}
  /\ IF leftOut THEN UNCHANGED <<queue, sending, droppedSpans, handed>>
                ELSE enqueue(n) /\ handed' = handed + n
  /\ UNCHANGED <<wait, retryDelayMs, lastSendFailed, drain, exported, lost, toldDropped>>

-----------------------------------------------------------------------------
(* send()'s finally: the slot is free, a backlog of a whole batch goes out  *)
(* at once unless the shutdown has begun, and a drain that awaited this     *)
(* export goes on.                                                          *)
settle(q, w) ==
  LET f == IF Len(q) >= MAX_BATCH_SPANS /\ ~shuttingDown THEN flushed(q, <<>>, w)
                                                         ELSE [queue |-> q, sending |-> <<>>]
  IN /\ queue' = f.queue /\ sending' = f.sending /\ wait' = w
     /\ drain' = IF drain = "awaiting" THEN "settled" ELSE drain
     /\ UNCHANGED <<pendingTrees, handed>>

(* A 2xx: recovered() clears the failure and reports what was dropped.      *)
recovered ==
  /\ sending # <<>>
  /\ retryDelayMs' = 0 /\ lastSendFailed' = FALSE /\ droppedSpans' = 0
  /\ toldDropped' = toldDropped + droppedSpans
  /\ exported' = exported \o sending /\ settle(queue, 0) /\ UNCHANGED lost

(* The wait retryLater sets: the receiver's own, up to a limit, or the next *)
(* step of the backoff.                                                     *)
nextDelay == IF retryDelayMs = 0 THEN RETRY_BASE_MS ELSE Least(retryDelayMs * 2, RETRY_MAX_MS)
retryWait(asked) == IF asked > 0 THEN Least(asked, RETRY_AFTER_MAX_MS) ELSE nextDelay

(* 429, 502, 503, 504, or no answer: the batch goes back to the front, if   *)
(* it still fits, and the exports are held back.                            *)
retryLater_back(asked) ==
  LET fits == Len(queue) + Len(sending) <= MAX_QUEUED_SPANS
  IN /\ sending # <<>> /\ lastSendFailed' = TRUE /\ retryDelayMs' = nextDelay
     /\ droppedSpans' = IF fits THEN droppedSpans ELSE droppedSpans + Len(sending)
     /\ settle(IF fits THEN queue \o sending ELSE queue, retryWait(asked))
     /\ UNCHANGED <<exported, lost, toldDropped>>
retryLater(asked) ==
  LET fits == Len(queue) + Len(sending) <= MAX_QUEUED_SPANS
  IN /\ sending # <<>> /\ lastSendFailed' = TRUE /\ retryDelayMs' = nextDelay
     /\ droppedSpans' = IF fits THEN droppedSpans ELSE droppedSpans + Len(sending)
     /\ settle(IF fits THEN sending \o queue ELSE queue, retryWait(asked))
     /\ UNCHANGED <<exported, lost, toldDropped>>

(* Any other status, and a batch that cannot be encoded: it is lost, said   *)
(* so, and the retry state stays as it is.                                  *)
sendRefused ==
  /\ sending # <<>> /\ lastSendFailed' = TRUE /\ lost' = lost + Len(sending)
  /\ settle(queue, wait) /\ UNCHANGED <<retryDelayMs, droppedSpans, exported, toldDropped>>

(* The connection goes with the shutdown: not a failure of the receiver.    *)
sendClosed ==
  /\ sending # <<>> /\ drain \in Ended /\ lost' = lost + Len(sending)
  /\ settle(queue, wait)
  /\ UNCHANGED <<retryDelayMs, lastSendFailed, droppedSpans, exported, toldDropped>>

(* Date.now() moves towards retryNotBefore.                                 *)
waitPasses ==
  /\ wait > 0 /\ wait' = wait - 1
  /\ UNCHANGED <<queue, sending, retryDelayMs, lastSendFailed, droppedSpans,
                 pendingTrees, drain, history>>

-----------------------------------------------------------------------------
(* onApplicationShutdown, whose first call alone does anything.             *)
shutDown ==
  /\ drain = "no" /\ drain' = "draining"
  /\ UNCHANGED <<queue, sending, retryState, pendingTrees, history>>

(* One turn of drain()'s loop, from one await to the next.                  *)
drainTurn ==
  /\ drain = "draining"
  /\ \/ sending # <<>> /\ drain' = "awaiting" /\ UNCHANGED <<queue, sending, wait>>
     \/ /\ sending = <<>> /\ pendingTrees = 0 /\ queue = <<>>
        /\ drain' = "drained" /\ UNCHANGED <<queue, sending, wait>>
     \/ /\ sending = <<>> /\ pendingTrees = 0 /\ queue # <<>>
        /\ wait' = 0 /\ drain' = "awaiting"
        /\ queue' = flushed(queue, <<>>, 0).queue /\ sending' = flushed(queue, <<>>, 0).sending
  /\ UNCHANGED <<retryDelayMs, lastSendFailed, droppedSpans, pendingTrees, history>>

(* The awaited export has settled: a failed one is not retried.             *)
drainResumes ==
  /\ drain = "settled" /\ drain' = IF lastSendFailed THEN "failed" ELSE "draining"
  /\ UNCHANGED <<queue, sending, retryState, pendingTrees, history>>

(* shutdownFlushTimeout.                                                    *)
drainDeadline ==
  /\ drain \in {"draining", "awaiting"} /\ drain' = "expired"
  /\ UNCHANGED <<queue, sending, retryState, pendingTrees, history>>

replies == recovered \/ sendRefused \/ sendClosed \/ \E asked \in RetryAfters : retryLater(asked)

OtlpNext ==
  \/ flushTimer \/ endsWithOpenSpans \/ waitPasses
  \/ \E n \in TreeSizes, leftOut \in BOOLEAN : exportSnapshot(n, leftOut)
  \/ replies
  \/ shutDown \/ drainTurn \/ drainResumes \/ drainDeadline

(* An export ends (its request has a timeout), the registry gives its       *)
(* snapshots up after a second, and the loop goes on; the deadline may      *)
(* never come.                                                              *)
treeCompletes ==
  /\ pendingTrees > 0 /\ pendingTrees' = 0
  /\ \E n \in TreeSizes, leftOut \in BOOLEAN : exportSnapshot(n, leftOut)

OtlpSpec == OtlpInit /\ [][OtlpNext]_otlpVars

-----------------------------------------------------------------------------
OtlpTypeOK ==
  /\ queue \in Seq(1..MaxSpans) /\ Len(queue) <= MAX_QUEUED_SPANS
  /\ sending \in Seq(1..MaxSpans) /\ Len(sending) <= MAX_BATCH_SPANS
  /\ retryDelayMs \in 0..RETRY_MAX_MS
  /\ wait <= RETRY_AFTER_MAX_MS
  /\ drain \in {"no", "draining", "awaiting", "settled"} \cup Ended

(* Every span handed over waits, is under way, was taken, was lost with a   *)
(* reported batch, or is in the count of dropped spans that is reported     *)
(* when exports recover ("Dropped spans are counted and reported").         *)
OtlpSpansAccounted ==
  handed = Len(queue) + Len(sending) + Len(exported) + lost + droppedSpans + toldDropped

(* Retries keep the order of the queue and never send a span twice.         *)
ExportedInOrder ==
  LET all == exported \o sending \o queue
  IN \A i, j \in 1..Len(all) : i < j => all[i] < all[j]

(* No span is lost unseen or exported twice, and a drain that ends neither  *)
(* at its deadline nor on a failed export has exported everything, the      *)
(* operations the registry still held included (enqueue, export, drain).    *)
ExportKeepsItsBooks ==
  [][/\ OtlpTypeOK' /\ OtlpSpansAccounted' /\ ExportedInOrder'
     /\ drain' = "drained" /\ drain # "drained" =>
          queue = <<>> /\ sending = <<>> /\ pendingTrees = 0]_otlpVars

(* The drain ends without its deadline: a receiver that keeps answering 503 *)
(* does not hold the shutdown back.                                         *)
DrainEnds == drain = "draining" ~> drain \in Ended
=============================================================================
