----------------------------- MODULE SharedSlot -----------------------------
(***************************************************************************)
(* The SharedArrayBuffer between the application's thread and the detached *)
(* worker: a lock word, a length word and the bytes of one batch.          *)
(* The two threads run in parallel, so every access either makes to the    *)
(* shared memory is a step of its own.  What a thread does between two     *)
(* accesses is invisible to the other and belongs to the step before.      *)
(*                                                                         *)
(* Main thread: ObserveAgentWorker.flush and the ObserveAgentSharedBuffer  *)
(* methods it calls.  It is synchronous, so nothing is inserted while a    *)
(* flush is under way.                                                     *)
(* Worker: the loop of detachedObserveWorker, which holds the lock from    *)
(* the moment it takes the slot until the collector has answered.          *)
(*                                                                         *)
(* A batch is its number: 1 is the first one the application built.  The   *)
(* pause after a refusal is a flag here; IngestReplies models its length.  *)
(***************************************************************************)
EXTENDS Naturals, Sequences

CONSTANTS MaxBatches,  \* bound: batches the application builds
          MaxCrashes   \* bound: times the worker thread dies on its own

ASSUME BoundsAssumption == MaxBatches \in Nat /\ MaxCrashes \in Nat

VARIABLES
    lock,      \* Int32Array word 0: 0 free, 1 taken
    length,    \* the Uint32 after it: the batch whose length it is, 0 for none
    bytes,     \* the batch whose JSON the rest of the buffer holds
    batch,     \* _mainThreadBuffer: the batch being built, 0 for null
    created,   \* batches built so far
    mainPc,    \* where flush() is
    workerPc,  \* where sendInstrumentationJsonData() is
    jsonLength,\* the worker's local: the length it read
    taken,     \* the worker's local: the batch it decoded
    retried,   \* whether this POST is already the retry on a fresh socket
    paused,    \* Date.now() < pausedUntil, in the worker
    crashes,   \* times the worker died
    orphaned,  \* history: a worker died holding the lock
    newest,    \* history: the newest batch ever written to the slot
    ingested   \* history: batches the collector took, in the order it did

vars == <<lock, length, bytes, batch, created, mainPc, workerPc, jsonLength,
          taken, retried, paused, crashes, orphaned, newest, ingested>>

mainVars   == <<batch, created, mainPc>>
workerVars == <<workerPc, jsonLength, taken, retried, paused, crashes, orphaned>>

MainPcs   == {"idle", "tryLock", "writeLength", "writeBytes", "release"}
WorkerPcs == {"loop", "wait", "acquire", "readLength", "readBytes", "post",
              "repair", "repost", "clear", "release", "sleep", "dead"}

MainHolds   == mainPc \in {"writeLength", "writeBytes", "release"}
WorkerHolds == workerPc \in {"readLength", "readBytes", "post", "repair",
                             "repost", "clear", "release"}

Init ==
    /\ lock = 0
    /\ length = 0
    /\ bytes = 0
    /\ batch = 0
    /\ created = 0
    /\ mainPc = "idle"
    /\ workerPc = "loop"
    /\ jsonLength = 0
    /\ taken = 0
    /\ retried = FALSE
    /\ paused = FALSE
    /\ crashes = 0
    /\ orphaned = FALSE
    /\ newest = 0
    /\ ingested = <<>>

(***************************************************************************)
(* The main thread                                                         *)
(***************************************************************************)

\* The first insert after a flush makes a new payload (createEmptyPayload);
\* later ones add to it.
createEmptyPayload ==
    /\ mainPc = "idle"
    /\ batch = 0
    /\ created < MaxBatches
    /\ created' = created + 1
    /\ batch' = created'
    /\ UNCHANGED <<lock, length, bytes, mainPc, newest, ingested>>
    /\ UNCHANGED workerVars

\* flush(), up to isBufferLocked(): an empty buffer returns, and so does a
\* locked one - the batch stays where it is for the next interval.
flush ==
    /\ mainPc = "idle"
    /\ batch # 0
    /\ lock = 0
    /\ mainPc' = "tryLock"
    /\ UNCHANGED <<lock, length, bytes, batch, created, newest, ingested>>
    /\ UNCHANGED workerVars

\* Faulty: a load and a later store instead of one compareExchange.
acquireLock_loadThenStore ==
    /\ mainPc = "tryLock"
    /\ lock' = 1
    /\ mainPc' = "writeLength"
    /\ UNCHANGED <<length, bytes, batch, created, newest, ingested>>
    /\ UNCHANGED workerVars

\* Faulty: an atomic add instead of the compareExchange.
acquireLock_add ==
    /\ mainPc = "tryLock"
    /\ lock' = lock + 1
    /\ mainPc' = IF lock = 0 THEN "writeLength" ELSE "idle"
    /\ UNCHANGED <<length, bytes, batch, created, newest, ingested>>
    /\ UNCHANGED workerVars

\* acquireLock(): one compareExchange; the worker may have come first.
acquireLock ==
    /\ mainPc = "tryLock"
    /\ lock' = 1
    /\ mainPc' = IF lock = 0 THEN "writeLength" ELSE "idle"
    /\ UNCHANGED <<length, bytes, batch, created, newest, ingested>>
    /\ UNCHANGED workerVars

\* encodeAndWrite(), when the payload is larger than the buffer (or does not
\* serialise): it throws before the first store.
encodeAndWriteThrows ==
    /\ mainPc = "writeLength"
    /\ mainPc' = "release"
    /\ UNCHANGED <<lock, length, bytes, batch, created, newest, ingested>>
    /\ UNCHANGED workerVars

\* encodeAndWrite(): view.setUint32(0, jsonLength) ...
writeLength ==
    /\ mainPc = "writeLength"
    /\ length' = batch
    /\ newest' = batch
    /\ mainPc' = "writeBytes"
    /\ UNCHANGED <<lock, bytes, batch, created, ingested>>
    /\ UNCHANGED workerVars

\* ... then sharedBytes.set(jsonBytes, 8).
writeBytes ==
    /\ mainPc = "writeBytes"
    /\ bytes' = batch
    /\ mainPc' = "release"
    /\ UNCHANGED <<lock, length, batch, created, newest, ingested>>
    /\ UNCHANGED workerVars

\* flush()'s finally block: releaseLock(), resetMainThreadBuffer().
releaseLock ==
    /\ mainPc = "release"
    /\ lock' = 0
    /\ batch' = 0
    /\ mainPc' = "idle"
    /\ UNCHANGED <<length, bytes, created, newest, ingested>>
    /\ UNCHANGED workerVars

(***************************************************************************)
(* The worker                                                              *)
(***************************************************************************)

shared == <<lock, length, bytes, newest, ingested>>

WorkerGoes(from, to) ==
    /\ workerPc = from
    /\ workerPc' = to
    /\ UNCHANGED mainVars
    /\ UNCHANGED <<crashes, orphaned, newest>>

\* The head of sendInstrumentationJsonData(): a paused worker does not even
\* take the lock.
checkPause ==
    /\ WorkerGoes("loop", IF paused THEN "sleep" ELSE "wait")
    /\ UNCHANGED <<jsonLength, taken, retried, paused>>
    /\ UNCHANGED shared

\* waitWhileLocked(): Atomics.wait returns on a notify, and on its timeout
\* whatever the lock word is then.
waitWhileLocked ==
    /\ WorkerGoes("wait", "acquire")
    /\ UNCHANGED <<jsonLength, taken, retried, paused>>
    /\ UNCHANGED shared

\* Faulty: the worker goes in after the wait, whether it got the lock or not.
workerAcquireLock_unchecked ==
    /\ WorkerGoes("acquire", "readLength")
    /\ lock' = 1
    /\ UNCHANGED <<jsonLength, taken, retried, paused>>
    /\ UNCHANGED <<length, bytes, ingested>>

\* acquireLock(): one compareExchange; lost to a flush, the loop sleeps.
workerAcquireLock ==
    /\ WorkerGoes("acquire", IF lock = 0 THEN "readLength" ELSE "sleep")
    /\ lock' = 1
    /\ UNCHANGED <<jsonLength, taken, retried, paused>>
    /\ UNCHANGED <<length, bytes, ingested>>

\* view.getUint32(0); an empty slot goes straight to the finally block.
readLength ==
    /\ WorkerGoes("readLength", IF length = 0 THEN "clear" ELSE "readBytes")
    /\ jsonLength' = length
    /\ taken' = 0
    /\ UNCHANGED <<retried, paused>>
    /\ UNCHANGED shared

\* buffer.slice(8, 8 + jsonLength), decoded; then the gzip.
readBytes ==
    /\ WorkerGoes("readBytes", "post")
    /\ taken' = bytes
    /\ retried' = FALSE
    /\ UNCHANGED <<jsonLength, paused>>
    /\ UNCHANGED shared

\* The collector takes the batch and its 2xx arrives - or it takes the batch
\* and the reply is lost, or times out, which the worker reports as a failure.
\* Either way the worker is done with the batch.
postAccepted ==
    /\ \/ WorkerGoes("post", "clear")
       \/ WorkerGoes("repost", "clear")
    /\ ingested' = Append(ingested, taken)
    /\ UNCHANGED <<jsonLength, taken, retried, paused>>
    /\ UNCHANGED <<lock, length, bytes>>

\* 401, 403 or 429 on the first send: sends pause.
postRefused ==
    /\ WorkerGoes("post", "clear")
    /\ paused' = TRUE
    /\ UNCHANGED <<jsonLength, taken, retried>>
    /\ UNCHANGED shared

\* Any other status, a transport failure, a silent collector after 15 s, or a
\* fault of the worker's own: the batch is given up.  The answer to a repaired
\* batch never pauses, whatever its status.
postFailed ==
    /\ \/ WorkerGoes("post", "clear")
       \/ WorkerGoes("repost", "clear")
    /\ UNCHANGED <<jsonLength, taken, retried, paused>>
    /\ UNCHANGED shared

\* post(): a kept-alive socket the server had closed while it sat idle, reset
\* before any reply.  The server never read the batch; it is sent once more.
postReset ==
    /\ ~retried
    /\ \/ WorkerGoes("post", "post")
       \/ WorkerGoes("repost", "repost")
    /\ retried' = TRUE
    /\ UNCHANGED <<jsonLength, taken, paused>>
    /\ UNCHANGED shared

\* 400: the collector refused the batch for its contents.
postRejected ==
    /\ WorkerGoes("post", "repair")
    /\ UNCHANGED <<jsonLength, taken, retried, paused>>
    /\ UNCHANGED shared

\* repairAndResend(): a batch the sanitizer changed is sent once more, one it
\* did not change is given up.
repairAndResend ==
    /\ \/ WorkerGoes("repair", "repost") /\ retried' = FALSE
       \/ WorkerGoes("repair", "clear") /\ UNCHANGED retried
    /\ UNCHANGED <<jsonLength, taken, paused>>
    /\ UNCHANGED shared

\* Faulty: the length is left as it is.
clearBuffer_keepsLength ==
    /\ WorkerGoes("clear", "release")
    /\ UNCHANGED <<jsonLength, taken, retried, paused>>
    /\ UNCHANGED <<lock, length, bytes, ingested>>

\* The finally block, on every path: clearBuffer() ...
clearBuffer ==
    /\ WorkerGoes("clear", "release")
    /\ length' = 0
    /\ UNCHANGED <<jsonLength, taken, retried, paused>>
    /\ UNCHANGED <<lock, bytes, ingested>>

\* ... then releaseLock().  A batch sent comes straight back, nothing to send
\* sleeps first.
workerReleaseLock ==
    /\ WorkerGoes("release", IF jsonLength # 0 THEN "loop" ELSE "sleep")
    /\ lock' = 0
    /\ UNCHANGED <<jsonLength, taken, retried, paused>>
    /\ UNCHANGED <<length, bytes, ingested>>

\* sleep(IDLE_SLEEP_MS) is over.
idleSleep ==
    /\ WorkerGoes("sleep", "loop")
    /\ UNCHANGED <<jsonLength, taken, retried, paused>>
    /\ UNCHANGED shared

\* Faulty: a Retry-After taken at its word, with no ceiling.
pauseLapses_never == paused /\ FALSE /\ UNCHANGED vars

\* The clock passes pausedUntil.
pauseLapses ==
    /\ paused
    /\ paused' = FALSE
    /\ UNCHANGED <<workerPc, jsonLength, taken, retried, crashes, orphaned>>
    /\ UNCHANGED mainVars
    /\ UNCHANGED shared

\* The thread dies where it stands: out of memory, an exception no handler
\* sees.  Its finally block does not run.
workerCrash ==
    /\ workerPc # "dead"
    /\ crashes < MaxCrashes
    /\ workerPc' = "dead"
    /\ crashes' = crashes + 1
    /\ orphaned' = (orphaned \/ WorkerHolds)
    /\ UNCHANGED <<jsonLength, taken, retried, paused>>
    /\ UNCHANGED mainVars
    /\ UNCHANGED shared

\* Faulty: the restart frees the lock and leaves the batch in the slot.
initializeWorker_freesLock ==
    /\ mainPc = "idle"
    /\ WorkerGoes("dead", "loop")
    /\ jsonLength' = 0
    /\ taken' = 0
    /\ retried' = FALSE
    /\ paused' = FALSE
    /\ lock' = 0
    /\ UNCHANGED <<length, bytes, ingested>>

\* watchWorker()'s exit listener: initializeWorker() starts a new thread over
\* the same shared buffer, with locals of its own and the memory as it is.
initializeWorker ==
    /\ mainPc = "idle"
    /\ WorkerGoes("dead", "loop")
    /\ jsonLength' = 0
    /\ taken' = 0
    /\ retried' = FALSE
    /\ paused' = FALSE
    /\ UNCHANGED shared

(***************************************************************************)
(* The specification                                                       *)
(***************************************************************************)

MainStep ==
    \/ acquireLock \/ encodeAndWriteThrows \/ writeLength \/ writeBytes
    \/ releaseLock

PostStep ==
    \/ postAccepted \/ postRefused \/ postFailed \/ postReset \/ postRejected
    \/ repairAndResend

WorkerStep ==
    \/ checkPause \/ waitWhileLocked \/ workerAcquireLock \/ readLength
    \/ readBytes \/ PostStep \/ clearBuffer \/ workerReleaseLock \/ idleSleep

Next ==
    \/ createEmptyPayload \/ flush \/ MainStep
    \/ WorkerStep \/ pauseLapses
    \/ workerCrash \/ initializeWorker

Spec == Init /\ [][Next]_vars

\* A flush that has begun is synchronous code and finishes; the worker's loop
\* goes on, its requests being bounded by REQUEST_TIMEOUT_MS; a pause is a
\* point in time that passes; an exit event is delivered.  Nothing is assumed
\* of the application's inserts, of when the timer fires, or of crashes.
Fairness ==
    /\ WF_vars(MainStep)
    /\ WF_vars(WorkerStep)
    /\ WF_vars(pauseLapses)
    /\ WF_vars(initializeWorker)

FairSpec == Spec /\ Fairness

(***************************************************************************)
(* Properties                                                              *)
(***************************************************************************)

\* The lock word is free or taken, never anything else, and every word and local
\* holds a batch that was built, or none.
TypeOK ==
    /\ lock \in {0, 1}
    /\ length \in 0..created
    /\ bytes \in 0..created
    /\ created \in 0..MaxBatches
    /\ batch \in {0, created}
    /\ mainPc \in MainPcs
    /\ workerPc \in WorkerPcs
    /\ jsonLength \in 0..created
    /\ taken \in 0..created
    /\ retried \in BOOLEAN
    /\ paused \in BOOLEAN
    /\ crashes \in 0..MaxCrashes
    /\ orphaned \in BOOLEAN
    /\ newest \in 0..created
    /\ ingested \in Seq(1..created)

\* The two threads are never both inside: while one writes the slot the other
\* neither reads nor clears it, also across a worker's death and restart
\* (acquireLock on both sides).
MutualExclusion == ~(MainHolds /\ WorkerHolds)

\* What the worker sends is one batch, whole: the bytes it decodes belong to
\* the length it read before, though the main thread stores the two apart
\* (encodeAndWrite, sendInstrumentationJsonData).
WholeBatchSent ==
    workerPc \in {"post", "repair", "repost"} =>
        taken # 0 /\ taken = jsonLength

\* A batch the worker has taken stays in the slot, length and bytes, until the
\* worker itself clears it: a non-zero length means the worker is not done
\* with that batch, which the shutdown relies on (hasBatchAwaitingWorker).
InFlightBatchStays ==
    workerPc \in {"post", "repair", "repost"} =>
        length = taken /\ bytes = taken

\* The collector takes no batch twice and none after a newer one, through
\* retries on a fresh socket, repaired batches, overwritten ones and worker
\* restarts (post, repairAndResend, clearBuffer).
IngestedOnceInOrder ==
    \A i, j \in 1..Len(ingested) : i < j => ingested[i] < ingested[j]

\* The slot with its lock implements a mailbox of one cell: no step of either
\* thread, a crash included, does to the length word and to what the collector
\* takes anything but put, ingest or discard (encodeAndWrite, post, clearBuffer).
Mailbox == INSTANCE BatchMailbox WITH cell <- length
MailboxSpec == Mailbox!Spec

\* A batch written to the slot does not sit there for ever: it is sent, given
\* up or replaced by a newer one - after a pause, at the latest when the pause
\* has lapsed, and after a death of the worker by the one that replaces it -
\* unless it died inside (the loop of detachedObserveWorker, initializeWorker).
SlotDrains ==
    \A b \in 1..MaxBatches : length = b ~> length # b \/ orphaned

\* Whoever takes the lock gives it back: "Once the worker takes the slot it
\* holds the lock until the collector has answered (or the send has failed),
\* and zeroes the length just before it lets go, on every path"
\* (observe-agent.shared-buffer.ts, hasBatchAwaitingWorker).
LockComesBack == lock = 1 ~> lock = 0
=============================================================================
