-------------------------- MODULE ProfileUploader --------------------------
(* The upload of profile windows, one request at a time and the oldest       *)
(* first.  Windows are numbered as they are enqueued.                        *)
EXTENDS Integers, Sequences, FiniteSets, SequencesExt

CONSTANTS MAX_PENDING_WINDOWS, MaxWindows
ASSUME UploaderAssumption == MAX_PENDING_WINDOWS \in Nat /\ MAX_PENDING_WINDOWS >= 2

VARIABLES pending,      \* windows not known to be delivered
          sendingWindow,  \* the window drain awaits an answer for, 0 for none
          uploadsPaused,  \* Date.now() < rateLimitedUntil
          enqueued, delivered, discarded, overflows
uploadVars == <<pending, sendingWindow, uploadsPaused, enqueued, delivered, discarded, overflows>>

UploadInit ==
  /\ pending = <<>> /\ sendingWindow = 0 /\ uploadsPaused = FALSE
  /\ enqueued = 0 /\ delivered = <<>> /\ discarded = {} /\ overflows = 0

(* drain, called with the windows there are: nothing while another drain     *)
(* runs or a pause lasts.                                                    *)
drainUploads(queue) ==
  sendingWindow' = IF sendingWindow # 0 \/ uploadsPaused \/ queue = <<>> THEN sendingWindow ELSE Head(queue)

enqueueWindow ==
  /\ enqueued < MaxWindows /\ enqueued' = enqueued + 1
  /\ LET full == Len(pending) >= MAX_PENDING_WINDOWS
     IN /\ pending' = Append(IF full THEN Tail(pending) ELSE pending, enqueued')
        /\ overflows' = overflows + (IF full THEN 1 ELSE 0)
  /\ drainUploads(pending')
  /\ UNCHANGED <<uploadsPaused, delivered, discarded>>

(* send answered: the head goes, whichever it is by now, and the loop takes  *)
(* the next.                                                                 *)
answeredFor ==
  /\ sendingWindow # 0
  /\ pending' = IF pending = <<>> THEN <<>> ELSE Tail(pending)
  /\ sendingWindow' = IF pending' = <<>> THEN 0 ELSE Head(pending')
  /\ UNCHANGED <<uploadsPaused, enqueued, overflows>>
uploadAccepted ==
  /\ answeredFor /\ delivered' = Append(delivered, sendingWindow) /\ UNCHANGED discarded
notInPlan ==    \* 403 with ENTITLEMENT_REQUIRED: dropped, not retried
  /\ answeredFor /\ discarded' = discarded \cup {sendingWindow} /\ UNCHANGED delivered
rateLimited ==  \* 429
  /\ sendingWindow # 0 /\ sendingWindow' = 0 /\ uploadsPaused' = TRUE
  /\ UNCHANGED <<pending, enqueued, delivered, discarded, overflows>>
uploadFails ==  \* 401, 403, another status, or the network
  /\ sendingWindow # 0 /\ sendingWindow' = 0
  /\ UNCHANGED <<pending, uploadsPaused, enqueued, delivered, discarded, overflows>>
uploadPauseLapses ==   \* at most RATE_LIMIT_PAUSE_MAX_MS later
  /\ uploadsPaused /\ uploadsPaused' = FALSE
  /\ UNCHANGED <<pending, sendingWindow, enqueued, delivered, discarded, overflows>>

UploadNext == enqueueWindow \/ uploadAccepted \/ notInPlan \/ rateLimited \/ uploadFails \/ uploadPauseLapses
UploadSpec == UploadInit /\ [][UploadNext]_uploadVars

-----------------------------------------------------------------------------
UploadTypeOK == Len(pending) <= MAX_PENDING_WINDOWS /\ sendingWindow \in 0..enqueued

(* Windows arrive in order and none twice, through retries, pauses and a     *)
(* queue that overflows under the request in flight.                         *)
WindowsInOrder == \A i, j \in DOMAIN delivered : i < j => delivered[i] < delivered[j]

(* Only an overflow costs a window, and at most one: every other window is   *)
(* delivered, discarded for the plan, or still queued or in flight; and the  *)
(* freshest is never the one that goes.                                      *)
LostOnlyToOverflow ==
  LET accounted == Range(delivered) \cup discarded \cup Range(pending) \cup {sendingWindow}
      lost == (1..enqueued) \ accounted
  IN Cardinality(lost) <= overflows /\ enqueued \notin lost
=============================================================================
