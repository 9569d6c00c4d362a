-------------------------- MODULE SharedSlot_proofs --------------------------
(***************************************************************************)
(* The two ways between the application's thread and the detached worker.  *)
(*                                                                         *)
(* SharedSlot for any number of batches and of worker crashes: its safety  *)
(* invariants, and that it implements BatchMailbox.  AgentNotices, the     *)
(* lines the worker posts back, and AgentStart, whether there is a worker  *)
(* at all and what is said of it, have the last two sections.              *)
(*                                                                         *)
(* MutualExclusion is not inductive on its own: the compareExchange keeps  *)
(* it only because the lock word is 1 exactly while somebody is inside -   *)
(* or died there, which LockWord records with the history variable         *)
(* orphaned.  From it follows that nobody touches the slot between the     *)
(* worker's two reads and its clear, which is what the order of ingestion  *)
(* rests on.                                                               *)
(***************************************************************************)
EXTENDS SharedSlot, AgentNotices, AgentStart, SequenceTheorems, TLAPS

\* The lock word is 1 exactly while a thread is inside or has died inside, and
\* never for two reasons at once.
LockWord ==
    /\ lock = 1 <=> (MainHolds \/ WorkerHolds \/ orphaned)
    /\ ~(MainHolds /\ WorkerHolds)
    /\ ~(orphaned /\ (MainHolds \/ WorkerHolds))

\* Length and bytes agree, except between the two stores of a flush.
SlotWhole ==
    /\ length \in {0, newest}
    /\ mainPc # "writeBytes" /\ length # 0 => bytes = length
    /\ mainPc = "writeBytes" => length = batch

\* What the worker read is still what the slot holds.
WorkerInStep ==
    /\ workerPc = "readBytes" => length # 0 /\ jsonLength = length
    /\ workerPc \in {"post", "repair", "repost"} =>
           taken # 0 /\ taken = jsonLength /\ taken = length

\* The batch being flushed is newer than any in the slot before it.
BatchIsNew ==
    /\ mainPc # "idle" => batch # 0
    /\ mainPc \in {"idle", "tryLock", "writeLength"} /\ batch # 0 =>
           newest < batch

\* The collector has nothing newer than the slot, and not the batch in the
\* slot itself before the worker is done with it.
NotYetIngested ==
    /\ \A i \in 1..Len(ingested) : ingested[i] <= newest
    /\ length # 0 /\ workerPc # "clear" /\ ~orphaned =>
           \A i \in 1..Len(ingested) : ingested[i] < length

IInv ==
    /\ TypeOK
    /\ LockWord
    /\ SlotWhole
    /\ WorkerInStep
    /\ BatchIsNew
    /\ NotYetIngested
    /\ IngestedOnceInOrder

-----------------------------------------------------------------------------
\* Appending an element larger than all others keeps a sequence of batches
\* strictly increasing, and within its bounds.
LEMMA AppendNewest ==
    ASSUME NEW n \in Nat, NEW s \in Seq(1..n), NEW b \in 1..n,
           \A i \in 1..Len(s) : s[i] < b,
           \A i, j \in 1..Len(s) : i < j => s[i] < s[j]
    PROVE  /\ Append(s, b) \in Seq(1..n)
           /\ \A i \in 1..Len(Append(s, b)) : Append(s, b)[i] <= b
           /\ \A i, j \in 1..Len(Append(s, b)) :
                  i < j => Append(s, b)[i] < Append(s, b)[j]
<1>1. /\ Append(s, b) \in Seq(1..n)
      /\ Len(Append(s, b)) = Len(s) + 1
      /\ \A i \in 1..Len(s) : Append(s, b)[i] = s[i]
      /\ Append(s, b)[Len(s) + 1] = b
      /\ Len(s) \in Nat
  OBVIOUS
<1>2. \A i \in 1..Len(s) : s[i] \in 1..n
  OBVIOUS
<1>. QED  BY <1>1, <1>2

\* A sequence of batch numbers stays one when a batch is added to the count.
LEMMA SeqWiden ==
    ASSUME NEW n \in Nat, NEW s \in Seq(1..n)
    PROVE  s \in Seq(1..(n + 1))
<1>1. \A i \in 1..Len(s) : s[i] \in 1..(n + 1)
  OBVIOUS
<1>. QED  BY <1>1

LEMMA InitIInv == Init => IInv
<1>. SUFFICES ASSUME Init PROVE IInv
  OBVIOUS
<1>1. Len(ingested) = 0 /\ ingested \in Seq(1..created)
  BY DEF Init
<1>2. /\ created = 0 /\ MaxBatches \in Nat /\ MaxCrashes \in Nat
      /\ 0 \in 0..MaxBatches /\ 0 \in 0..MaxCrashes
  BY BoundsAssumption DEF Init
<1>3. TypeOK
  <2>1. retried \in BOOLEAN /\ paused \in BOOLEAN /\ orphaned \in BOOLEAN
    BY Zenon DEF Init
  <2>2. mainPc \in MainPcs /\ workerPc \in WorkerPcs
    BY DEF Init, MainPcs, WorkerPcs
  <2>3. /\ lock \in {0, 1} /\ length \in 0..created /\ bytes \in 0..created
        /\ created \in 0..MaxBatches /\ batch \in {0, created}
        /\ jsonLength \in 0..created /\ taken \in 0..created
        /\ crashes \in 0..MaxCrashes /\ newest \in 0..created
    BY <1>2 DEF Init
  <2>. QED  BY <1>1, <2>1, <2>2, <2>3 DEF TypeOK
<1>. QED
  BY <1>1, <1>3
     DEF Init, IInv, LockWord, SlotWhole, WorkerInStep, BatchIsNew,
         NotYetIngested, IngestedOnceInOrder, MainHolds, WorkerHolds

\* Every step of either thread, a crash and a restart keep the invariant.
LEMMA NextIInv == IInv /\ [Next]_vars => IInv'
<1>. SUFFICES ASSUME IInv, [Next]_vars PROVE IInv'
  OBVIOUS
<1>. USE BoundsAssumption DEF IInv, TypeOK, MainPcs, WorkerPcs
<1>1. CASE createEmptyPayload
  <2>1. ingested \in Seq(1..(created + 1))
    BY SeqWiden
  <2>. QED
    BY <1>1, <2>1
       DEF createEmptyPayload, workerVars, LockWord, SlotWhole, WorkerInStep,
           BatchIsNew, NotYetIngested, IngestedOnceInOrder, MainHolds,
           WorkerHolds
<1>2. CASE flush
  BY <1>2 DEF flush, workerVars, LockWord, SlotWhole, WorkerInStep,
      BatchIsNew, NotYetIngested, IngestedOnceInOrder, MainHolds, WorkerHolds
<1>3. CASE acquireLock
  BY <1>3 DEF acquireLock, workerVars, LockWord, SlotWhole, WorkerInStep,
      BatchIsNew, NotYetIngested, IngestedOnceInOrder, MainHolds, WorkerHolds
<1>4. CASE encodeAndWriteThrows
  BY <1>4 DEF encodeAndWriteThrows, workerVars, LockWord, SlotWhole, WorkerInStep,
      BatchIsNew, NotYetIngested, IngestedOnceInOrder, MainHolds, WorkerHolds
<1>5. CASE writeLength
  BY <1>5 DEF writeLength, workerVars, LockWord, SlotWhole, WorkerInStep,
      BatchIsNew, NotYetIngested, IngestedOnceInOrder, MainHolds, WorkerHolds
<1>6. CASE writeBytes
  <2>1. TypeOK'
    BY <1>6 DEF writeBytes, workerVars
  <2>2. LockWord'
    BY <1>6 DEF writeBytes, workerVars, LockWord, MainHolds, WorkerHolds
  <2>3. SlotWhole'
    BY <1>6 DEF writeBytes, workerVars, SlotWhole, LockWord, MainHolds, WorkerHolds
  <2>4. WorkerInStep'
    BY <1>6 DEF writeBytes, workerVars, WorkerInStep, SlotWhole, LockWord, MainHolds, WorkerHolds
  <2>5. BatchIsNew'
    BY <1>6 DEF writeBytes, workerVars, BatchIsNew
  <2>6. NotYetIngested' /\ IngestedOnceInOrder'
    BY <1>6 DEF writeBytes, workerVars, NotYetIngested, IngestedOnceInOrder, LockWord, WorkerHolds
  <2>. QED  BY <2>1, <2>2, <2>3, <2>4, <2>5, <2>6
<1>7. CASE releaseLock
  BY <1>7 DEF releaseLock, workerVars, LockWord, SlotWhole, WorkerInStep,
      BatchIsNew, NotYetIngested, IngestedOnceInOrder, MainHolds, WorkerHolds
<1>8. CASE checkPause
  BY <1>8 DEF checkPause, WorkerGoes, shared, mainVars, LockWord, SlotWhole, WorkerInStep,
      BatchIsNew, NotYetIngested, IngestedOnceInOrder, MainHolds, WorkerHolds
<1>9. CASE waitWhileLocked
  BY <1>9 DEF waitWhileLocked, WorkerGoes, shared, mainVars, LockWord, SlotWhole, WorkerInStep,
      BatchIsNew, NotYetIngested, IngestedOnceInOrder, MainHolds, WorkerHolds
<1>10. CASE workerAcquireLock
  BY <1>10 DEF workerAcquireLock, WorkerGoes, shared, mainVars, LockWord, SlotWhole, WorkerInStep,
      BatchIsNew, NotYetIngested, IngestedOnceInOrder, MainHolds, WorkerHolds
<1>11. CASE readLength
  BY <1>11 DEF readLength, WorkerGoes, shared, mainVars, LockWord, SlotWhole, WorkerInStep,
      BatchIsNew, NotYetIngested, IngestedOnceInOrder, MainHolds, WorkerHolds
<1>12. CASE readBytes
  BY <1>12 DEF readBytes, WorkerGoes, shared, mainVars, LockWord, SlotWhole, WorkerInStep,
      BatchIsNew, NotYetIngested, IngestedOnceInOrder, MainHolds, WorkerHolds
<1>13. CASE postAccepted
  <2>1. /\ taken \in 1..created
        /\ \A i \in 1..Len(ingested) : ingested[i] < taken
        /\ taken = newest
        /\ length # 0
    BY <1>13 DEF postAccepted, WorkerGoes, WorkerInStep, NotYetIngested,
                LockWord, WorkerHolds, SlotWhole
  <2>2. /\ ingested' \in Seq(1..created)
        /\ \A i \in 1..Len(ingested') : ingested'[i] <= newest
        /\ IngestedOnceInOrder'
    BY <2>1, <1>13, AppendNewest DEF postAccepted, IngestedOnceInOrder
  <2>. QED
    BY <1>13, <2>2 DEF postAccepted, WorkerGoes, mainVars, LockWord, SlotWhole,
                 WorkerInStep, BatchIsNew, NotYetIngested, MainHolds,
                 WorkerHolds
<1>14. CASE postRefused
  BY <1>14 DEF postRefused, WorkerGoes, shared, mainVars, LockWord, SlotWhole, WorkerInStep,
      BatchIsNew, NotYetIngested, IngestedOnceInOrder, MainHolds, WorkerHolds
<1>15. CASE postFailed
  BY <1>15 DEF postFailed, WorkerGoes, shared, mainVars, LockWord, SlotWhole, WorkerInStep,
      BatchIsNew, NotYetIngested, IngestedOnceInOrder, MainHolds, WorkerHolds
<1>16. CASE postReset
  BY <1>16 DEF postReset, WorkerGoes, shared, mainVars, LockWord, SlotWhole, WorkerInStep,
      BatchIsNew, NotYetIngested, IngestedOnceInOrder, MainHolds, WorkerHolds
<1>17. CASE postRejected
  BY <1>17 DEF postRejected, WorkerGoes, shared, mainVars, LockWord, SlotWhole, WorkerInStep,
      BatchIsNew, NotYetIngested, IngestedOnceInOrder, MainHolds, WorkerHolds
<1>18. CASE repairAndResend
  <2>1. TypeOK'
    BY <1>18 DEF repairAndResend, WorkerGoes, shared, mainVars
  <2>2. LockWord'
    BY <1>18 DEF repairAndResend, WorkerGoes, shared, mainVars, LockWord, MainHolds, WorkerHolds
  <2>3. SlotWhole'
    BY <1>18 DEF repairAndResend, WorkerGoes, shared, mainVars, SlotWhole, LockWord, MainHolds, WorkerHolds
  <2>4. WorkerInStep'
    BY <1>18 DEF repairAndResend, WorkerGoes, shared, mainVars, WorkerInStep, SlotWhole, LockWord, MainHolds, WorkerHolds
  <2>5. BatchIsNew'
    BY <1>18 DEF repairAndResend, WorkerGoes, shared, mainVars, BatchIsNew
  <2>6. NotYetIngested' /\ IngestedOnceInOrder'
    BY <1>18 DEF repairAndResend, WorkerGoes, shared, mainVars, NotYetIngested, IngestedOnceInOrder, LockWord, WorkerHolds
  <2>. QED  BY <2>1, <2>2, <2>3, <2>4, <2>5, <2>6
<1>19. CASE clearBuffer
  BY <1>19 DEF clearBuffer, WorkerGoes, shared, mainVars, LockWord, SlotWhole, WorkerInStep,
      BatchIsNew, NotYetIngested, IngestedOnceInOrder, MainHolds, WorkerHolds
<1>20. CASE workerReleaseLock
  BY <1>20 DEF workerReleaseLock, WorkerGoes, shared, mainVars, LockWord, SlotWhole, WorkerInStep,
      BatchIsNew, NotYetIngested, IngestedOnceInOrder, MainHolds, WorkerHolds
<1>21. CASE idleSleep
  BY <1>21 DEF idleSleep, WorkerGoes, shared, mainVars, LockWord, SlotWhole, WorkerInStep,
      BatchIsNew, NotYetIngested, IngestedOnceInOrder, MainHolds, WorkerHolds
<1>22. CASE pauseLapses
  BY <1>22, ZenonT(60) DEF pauseLapses, WorkerGoes, shared, mainVars, LockWord, SlotWhole,
      WorkerInStep, BatchIsNew, NotYetIngested, IngestedOnceInOrder, MainHolds, WorkerHolds
<1>23. CASE workerCrash
  <2>1. TypeOK'
    BY <1>23 DEF workerCrash, WorkerGoes, shared, mainVars
  <2>2. LockWord'
    BY <1>23 DEF workerCrash, WorkerGoes, shared, mainVars, LockWord, MainHolds, WorkerHolds
  <2>3. SlotWhole'
    BY <1>23 DEF workerCrash, WorkerGoes, shared, mainVars, SlotWhole, LockWord, MainHolds, WorkerHolds
  <2>4. WorkerInStep'
    BY <1>23 DEF workerCrash, WorkerGoes, shared, mainVars, WorkerInStep, SlotWhole, LockWord, MainHolds, WorkerHolds
  <2>5. BatchIsNew'
    BY <1>23 DEF workerCrash, WorkerGoes, shared, mainVars, BatchIsNew
  <2>6. NotYetIngested' /\ IngestedOnceInOrder'
    BY <1>23 DEF workerCrash, WorkerGoes, shared, mainVars, NotYetIngested, IngestedOnceInOrder, LockWord, WorkerHolds
  <2>. QED  BY <2>1, <2>2, <2>3, <2>4, <2>5, <2>6
<1>24. CASE initializeWorker
  <2>1. TypeOK'
    <3>1. retried' \in BOOLEAN /\ paused' \in BOOLEAN
      BY <1>24, Zenon DEF initializeWorker
    <3>2. workerPc' \in WorkerPcs /\ jsonLength' = 0 /\ taken' = 0
      BY <1>24 DEF initializeWorker, WorkerGoes
    <3>3. UNCHANGED <<lock, length, bytes, batch, created, mainPc, crashes,
                      orphaned, newest, ingested>>
      BY <1>24 DEF initializeWorker, WorkerGoes, shared, mainVars
    <3>. QED  BY <3>1, <3>2, <3>3
  <2>2. LockWord'
    BY <1>24 DEF initializeWorker, WorkerGoes, shared, mainVars, LockWord, MainHolds, WorkerHolds
  <2>3. SlotWhole'
    BY <1>24 DEF initializeWorker, WorkerGoes, shared, mainVars, SlotWhole, LockWord, MainHolds, WorkerHolds
  <2>4. WorkerInStep'
    BY <1>24 DEF initializeWorker, WorkerGoes, shared, mainVars, WorkerInStep, SlotWhole, LockWord, MainHolds, WorkerHolds
  <2>5. BatchIsNew'
    BY <1>24 DEF initializeWorker, WorkerGoes, shared, mainVars, BatchIsNew
  <2>6. NotYetIngested' /\ IngestedOnceInOrder'
    BY <1>24 DEF initializeWorker, WorkerGoes, shared, mainVars, NotYetIngested, IngestedOnceInOrder, LockWord, WorkerHolds
  <2>. QED  BY <2>1, <2>2, <2>3, <2>4, <2>5, <2>6
<1>25. CASE UNCHANGED vars
  BY <1>25 DEF vars, LockWord, SlotWhole, WorkerInStep, BatchIsNew,
      NotYetIngested, IngestedOnceInOrder, MainHolds, WorkerHolds
<1>. QED
  BY <1>1, <1>2, <1>3, <1>4, <1>5, <1>6, <1>7, <1>8, <1>9, <1>10, <1>11, <1>12, <1>13, <1>14, <1>15, <1>16, <1>17, <1>18, <1>19, <1>20, <1>21, <1>22, <1>23, <1>24, <1>25
     DEF Next, MainStep, WorkerStep, PostStep

\* The inductive invariant holds throughout.
THEOREM Inductive == Spec => []IInv
BY InitIInv, NextIInv, PTL DEF Spec

\* Type correctness of the hand-off.
THEOREM TypeCorrect == Spec => []TypeOK
<1>1. IInv => TypeOK
  BY DEF IInv
<1>. QED  BY <1>1, Inductive, PTL

\* acquireLock on both sides: the threads are never both inside, whatever the
\* number of batches and of worker deaths.
THEOREM LockExcludes == Spec => []MutualExclusion
<1>1. IInv => MutualExclusion
  BY DEF IInv, LockWord, MutualExclusion
<1>. QED  BY <1>1, Inductive, PTL

\* sendInstrumentationJsonData: what is sent is one whole batch, and it stays
\* in the slot until the worker is done with it.
THEOREM SentWholeAndStable == Spec => [](WholeBatchSent /\ InFlightBatchStays)
<1>1. IInv => WholeBatchSent /\ InFlightBatchStays
  BY DEF IInv, LockWord, SlotWhole, WorkerInStep, WholeBatchSent,
         InFlightBatchStays, MainHolds, WorkerHolds
<1>. QED  BY <1>1, Inductive, PTL

\* Through retries, repairs, replaced batches and restarts, the collector
\* takes no batch twice and none after a newer one.
THEOREM AtMostOnceInOrder == Spec => []IngestedOnceInOrder
<1>1. IInv => IngestedOnceInOrder
  BY DEF IInv
<1>. QED  BY <1>1, Inductive, PTL

-----------------------------------------------------------------------------
\* The slot, its lock and the worker's loop implement the one-cell mailbox.
THEOREM ImplementsMailbox == Spec => MailboxSpec
<1>1. Init => Mailbox!Init
  BY DEF Init, Mailbox!Init
<1>2. IInv /\ [Next]_vars => [Mailbox!Next]_(Mailbox!mailboxVars)
  <2>. SUFFICES ASSUME IInv, [Next]_vars
                PROVE  Mailbox!Next \/ UNCHANGED <<length, newest, ingested>>
    BY DEF Mailbox!mailboxVars
  <2>1. CASE writeLength
    <3>1. newest \in Nat /\ batch \in Nat /\ newest < batch
      BY <2>1 DEF writeLength, IInv, TypeOK, BatchIsNew
    <3>. QED  BY <2>1, <3>1 DEF writeLength, Mailbox!Next, Mailbox!Put
  <2>2. CASE postAccepted
    <3>1. /\ taken = length /\ length # 0
          /\ \A i \in 1..Len(ingested) : ingested[i] < length
      BY <2>2 DEF postAccepted, WorkerGoes, IInv, WorkerInStep, NotYetIngested,
                  LockWord, WorkerHolds
    <3>. QED
      BY <2>2, <3>1 DEF postAccepted, WorkerGoes, Mailbox!Next, Mailbox!Ingest
  <2>3. CASE clearBuffer
    BY <2>3 DEF clearBuffer, WorkerGoes, Mailbox!Next, Mailbox!Discard
  <2>4. CASE createEmptyPayload \/ flush \/ acquireLock \/ encodeAndWriteThrows
             \/ writeBytes \/ releaseLock
    BY <2>4 DEF createEmptyPayload, flush, acquireLock, encodeAndWriteThrows,
                writeBytes, releaseLock
  <2>5. CASE checkPause \/ waitWhileLocked \/ workerAcquireLock \/ readLength
             \/ readBytes \/ workerReleaseLock \/ idleSleep \/ pauseLapses
             \/ workerCrash \/ initializeWorker
    BY <2>5 DEF checkPause, waitWhileLocked, workerAcquireLock, readLength,
                readBytes, workerReleaseLock, idleSleep, pauseLapses,
                workerCrash, initializeWorker, WorkerGoes, shared
  <2>6. CASE postRefused \/ postFailed \/ postReset \/ postRejected
             \/ repairAndResend
    BY <2>6 DEF postRefused, postFailed, postReset, postRejected,
                repairAndResend, shared
  <2>7. CASE UNCHANGED vars
    BY <2>7 DEF vars
  <2>. QED
    BY <2>1, <2>2, <2>3, <2>4, <2>5, <2>6, <2>7
       DEF Next, MainStep, WorkerStep, PostStep
<1>. QED
  BY <1>1, <1>2, Inductive, PTL DEF Spec, MailboxSpec, Mailbox!Spec

-----------------------------------------------------------------------------
(***************************************************************************)
(* AgentNotices, for any replies of the collector, batches and deaths of   *)
(* the worker.  What the lines do depends on where in a batch's they are:  *)
(* the lines not yet read are always the rest of one batch's, so the grant *)
(* and the mode lag the last reply by exactly the lines still to be read.  *)
(* And what was last said on each topic is what `reported` holds, so that  *)
(* a notice is said only when it differs from the last of its topic.       *)
(***************************************************************************)
Grants == {"off", "capped", "full"}
Modes == {"full", "reduced", "trimmed", "paced", "errors-only"}
Reasons == {"null", "spike", "budget"}
ModeWhat(m, why) == IF m = "errors-only" THEN <<m, why>> ELSE <<m>>
NewMode(m, why, new, reason) ==
    IF new = m /\ reason = why THEN <<>> ELSE <<[topic |-> "mode", what |-> ModeWhat(new, reason)]>>
Notices == [topic : {"interop", "export", "connection", "mode"},
            what : {"on", "off", "connected"} \cup Grants
                   \cup {ModeWhat(m, why) : m \in Modes, why \in Reasons}]

\* The last notice on a topic, and that there is none.
LastIs(s, t, w) ==
    \E i \in 1 .. Len(s) : /\ s[i].topic = t /\ s[i].what = w
                           /\ \A j \in 1 .. Len(s) : s[j].topic = t => j <= i
Unsaid(s, t) == \A j \in 1 .. Len(s) : s[j].topic # t
NoRepeat(s) ==
    \A i, j \in 1 .. Len(s) :
        i < j /\ s[i].topic = s[j].topic /\ s[i].what = s[j].what =>
            \E k \in i + 1 .. j - 1 : s[k].topic = s[i].topic

\* The notices s told last: interop, grant, connection, mode and its reason.
Told(s, interop, grant, connection, m, why) ==
    /\ s \in Seq(Notices) /\ NoRepeat(s)
    /\ LastIs(s, "interop", IF interop THEN "on" ELSE "off")
    /\ IF grant = "null" THEN Unsaid(s, "export") ELSE LastIs(s, "export", grant)
    /\ IF connection THEN LastIs(s, "connection", "connected") ELSE Unsaid(s, "connection")
    /\ \/ LastIs(s, "mode", ModeWhat(m, why))
       \/ Unsaid(s, "mode") /\ m = "full" /\ why = "null"

\* What a reply asks for.
Meant(r) ==
    IF ~r.degraded THEN "full" ELSE IF r.errorsOnly THEN "errors-only"
    ELSE IF r.trimmed THEN "trimmed" ELSE IF r.paced THEN "paced" ELSE "reduced"
GrantLine(r) == Line("otlp-export", grantOf(r))
VerdictLine(r) == Line("degraded", verdict(r))
SentLine == Line("prose", "sent")
Paused == Line("paused-until", "later")
Refused == Line("not-ingested", "refused")
Failed == Line("not-ingested", "failed")
Wrong == Line("prose", "Error:")

\* What is left to read of the lines of a batch.
Unread(r) == {<<GrantLine(r), VerdictLine(r), SentLine>>, <<VerdictLine(r), SentLine>>, <<SentLine>>}
UnreadOfFailure ==
    {<<Paused, Refused, Wrong>>, <<Refused, Wrong>>, <<Paused, Failed, Wrong>>, <<Failed, Wrong>>,
     <<Wrong>>, <<Wrong, Failed>>, <<Failed>>, <<>>}
LinesInv == lines \in Unread(lastReply) \/ lines \in UnreadOfFailure
AnsweredInv ==
    lastReply # NoReply =>
        /\ lines # <<GrantLine(lastReply), VerdictLine(lastReply), SentLine>> =>
               granted = grantOf(lastReply)
        /\ lines \notin {<<GrantLine(lastReply), VerdictLine(lastReply), SentLine>>,
                         <<VerdictLine(lastReply), SentLine>>} => mode = Meant(lastReply)
ReportedInv ==
    /\ reported \in [interop : BOOLEAN, grant : Grants \cup {"null"}, connection : BOOLEAN,
                     mode : Modes, reason : Reasons]
    /\ reported.interop = isReporting(reporting) /\ reported.mode = mode
    /\ reported.grant # "null" => reported.grant = granted
    /\ reported.mode # "errors-only" => reported.reason = "null"
ToldInv ==
    Told(said, reported.interop, reported.grant, reported.connection, reported.mode, reported.reason)
NoticesInv == NoticesTypeOK /\ ReportedInv /\ ToldInv /\ LinesInv /\ AnsweredInv

\* A notice that says something new is the last on its topic, and leaves the
\* other topics alone.
LEMMA SayOne ==
    ASSUME NEW s \in Seq(Notices), NoRepeat(s), NEW n \in Notices,
           Unsaid(s, n.topic) \/ \E w : LastIs(s, n.topic, w) /\ w # n.what
    PROVE  /\ Append(s, n) \in Seq(Notices) /\ NoRepeat(Append(s, n))
           /\ LastIs(Append(s, n), n.topic, n.what)
           /\ \A t : t # n.topic => /\ Unsaid(s, t) => Unsaid(Append(s, n), t)
                                    /\ \A w : LastIs(s, t, w) => LastIs(Append(s, n), t, w)
<1> DEFINE u == Append(s, n)
           N == Len(s)
<1>1. /\ u \in Seq(Notices) /\ N \in Nat /\ Len(u) = N + 1 /\ u[N + 1] = n
      /\ \A i \in 1 .. N : u[i] = s[i]
  OBVIOUS
<1> HIDE DEF u
<1>2. LastIs(u, n.topic, n.what)
  BY <1>1 DEF LastIs
<1>3. ASSUME NEW t, t # n.topic, Unsaid(s, t) PROVE Unsaid(u, t)
  BY <1>1, <1>3 DEF Unsaid
<1>4. ASSUME NEW t, t # n.topic, NEW w, LastIs(s, t, w) PROVE LastIs(u, t, w)
  <2>1. PICK i \in 1 .. N : /\ s[i].topic = t /\ s[i].what = w
                            /\ \A j \in 1 .. N : s[j].topic = t => j <= i
    BY <1>4 DEF LastIs
  <2>2. i \in 1 .. Len(u) /\ u[i].topic = t /\ u[i].what = w
    BY <1>1, <2>1
  <2>3. \A j \in 1 .. Len(u) : u[j].topic = t => j <= i
    BY <1>1, <1>4, <2>1
  <2> QED BY <2>2, <2>3 DEF LastIs
<1>5. NoRepeat(u)
  <2> SUFFICES ASSUME NEW i \in 1 .. Len(u), NEW j \in 1 .. Len(u),
                      i < j, u[i].topic = u[j].topic, u[i].what = u[j].what
               PROVE  \E k \in i + 1 .. j - 1 : u[k].topic = u[i].topic
    BY DEF NoRepeat
  <2>1. CASE j \in 1 .. N
    <3>1. PICK k \in i + 1 .. j - 1 : s[k].topic = s[i].topic
      BY <1>1, <2>1 DEF NoRepeat
    <3> QED BY <1>1, <2>1, <3>1
  <2>2. CASE j = N + 1
    <3>1. i \in 1 .. N /\ s[i].topic = n.topic /\ s[i].what = n.what
      BY <1>1, <2>2
    <3>2. PICK w : LastIs(s, n.topic, w) /\ w # n.what
      BY <3>1 DEF Unsaid
    <3>3. PICK k \in 1 .. N : /\ s[k].topic = n.topic /\ s[k].what = w
                              /\ \A m \in 1 .. N : s[m].topic = n.topic => m <= k
      BY <3>2 DEF LastIs
    <3>4. k # i /\ i <= k
      BY <3>1, <3>2, <3>3
    <3>5. k \in i + 1 .. j - 1
      BY <1>1, <2>2, <3>1, <3>4
    <3> QED BY <1>1, <3>1, <3>3, <3>5
  <2> QED BY <1>1, <2>1, <2>2
<1> QED BY <1>1, <1>2, <1>3, <1>4, <1>5 DEF u

\* One topic is last told one thing.
LEMMA OneLast ==
    ASSUME NEW s \in Seq(Notices), NEW t, NEW w, NEW v, LastIs(s, t, w), LastIs(s, t, v)
    PROVE  w = v
<1>1. PICK i \in 1 .. Len(s) : /\ s[i].topic = t /\ s[i].what = w
                               /\ \A j \in 1 .. Len(s) : s[j].topic = t => j <= i
  BY DEF LastIs
<1>2. PICK k \in 1 .. Len(s) : /\ s[k].topic = t /\ s[k].what = v
                               /\ \A j \in 1 .. Len(s) : s[j].topic = t => j <= k
  BY DEF LastIs
<1>3. i = k
  BY <1>1, <1>2
<1> QED BY <1>1, <1>2, <1>3

\* reportOpenTelemetryInterop, and the notices of a grant, a connection, a mode.
LEMMA TellInterop ==
    ASSUME NEW s, NEW i \in BOOLEAN, NEW g, NEW c, NEW m, NEW why, Told(s, i, g, c, m, why),
           NEW v \in BOOLEAN
    PROVE  Told(s \o (IF v = i THEN <<>>
                      ELSE <<[topic |-> "interop", what |-> IF v THEN "on" ELSE "off"]>>), v, g, c, m, why)
<1>1. s \in Seq(Notices) /\ NoRepeat(s) /\ LastIs(s, "interop", IF i THEN "on" ELSE "off")
  BY DEF Told
<1>2. CASE v = i
  <2>1. s \o <<>> = s
    BY <1>1
  <2> QED BY <1>2, <2>1
<1>3. CASE v # i
  <2> DEFINE n == [topic |-> "interop", what |-> IF v THEN "on" ELSE "off"]
  <2>1. n \in Notices /\ n.topic = "interop" /\ n.what = IF v THEN "on" ELSE "off"
    BY DEF Notices
  <2>2. (IF i THEN "on" ELSE "off") # n.what
    BY <1>3, <2>1
  <2> HIDE DEF n
  <2>3. s \o <<n>> = Append(s, n)
    BY <1>1, <2>1
  <2>4. /\ Append(s, n) \in Seq(Notices) /\ NoRepeat(Append(s, n))
        /\ LastIs(Append(s, n), n.topic, n.what)
        /\ \A t : t # n.topic => /\ Unsaid(s, t) => Unsaid(Append(s, n), t)
                                 /\ \A w : LastIs(s, t, w) => LastIs(Append(s, n), t, w)
    BY <1>1, <2>1, <2>2, SayOne
  <2>5. Told(Append(s, n), v, g, c, m, why)
    BY <2>1, <2>4 DEF Told
  <2> QED BY <1>3, <2>3, <2>5 DEF n
<1> QED BY <1>2, <1>3

LEMMA TellExport ==
    ASSUME NEW s, NEW i, NEW g \in Grants \cup {"null"}, NEW c, NEW m, NEW why,
           Told(s, i, g, c, m, why), NEW v \in Grants
    PROVE  Told(s \o (IF v = g THEN <<>> ELSE <<[topic |-> "export", what |-> v]>>), i, v, c, m, why)
<1>1. s \in Seq(Notices) /\ NoRepeat(s)
      /\ IF g = "null" THEN Unsaid(s, "export") ELSE LastIs(s, "export", g)
  BY DEF Told
<1>2. CASE v = g
  <2>1. s \o <<>> = s
    BY <1>1
  <2> QED BY <1>2, <2>1
<1>3. CASE v # g
  <2> DEFINE n == [topic |-> "export", what |-> v]
  <2>1. n \in Notices /\ n.topic = "export" /\ n.what = v /\ v # "null"
    BY DEF Notices, Grants
  <2> HIDE DEF n
  <2>2. Unsaid(s, n.topic) \/ \E w : LastIs(s, n.topic, w) /\ w # n.what
    BY <1>1, <1>3, <2>1
  <2>3. s \o <<n>> = Append(s, n)
    BY <1>1, <2>1
  <2>4. /\ Append(s, n) \in Seq(Notices) /\ NoRepeat(Append(s, n))
        /\ LastIs(Append(s, n), n.topic, n.what)
        /\ \A t : t # n.topic => /\ Unsaid(s, t) => Unsaid(Append(s, n), t)
                                 /\ \A w : LastIs(s, t, w) => LastIs(Append(s, n), t, w)
    BY <1>1, <2>1, <2>2, SayOne
  <2>5. Told(Append(s, n), i, v, c, m, why)
    BY <2>1, <2>4 DEF Told
  <2> QED BY <1>3, <2>3, <2>5 DEF n
<1> QED BY <1>2, <1>3

LEMMA TellConnection ==
    ASSUME NEW s, NEW i, NEW g, NEW c \in BOOLEAN, NEW m, NEW why, Told(s, i, g, c, m, why)
    PROVE  Told(s \o (IF c THEN <<>> ELSE <<[topic |-> "connection", what |-> "connected"]>>),
                i, g, TRUE, m, why)
<1>1. s \in Seq(Notices) /\ NoRepeat(s) /\ (~c => Unsaid(s, "connection"))
  BY DEF Told
<1>2. CASE c
  <2>1. s \o <<>> = s
    BY <1>1
  <2> QED BY <1>2, <2>1
<1>3. CASE ~c
  <2> DEFINE n == [topic |-> "connection", what |-> "connected"]
  <2>1. n \in Notices /\ n.topic = "connection" /\ n.what = "connected"
    BY DEF Notices
  <2> HIDE DEF n
  <2>2. Unsaid(s, n.topic)
    BY <1>1, <1>3, <2>1
  <2>3. s \o <<n>> = Append(s, n)
    BY <1>1, <2>1
  <2>4. /\ Append(s, n) \in Seq(Notices) /\ NoRepeat(Append(s, n))
        /\ LastIs(Append(s, n), n.topic, n.what)
        /\ \A t : t # n.topic => /\ Unsaid(s, t) => Unsaid(Append(s, n), t)
                                 /\ \A w : LastIs(s, t, w) => LastIs(Append(s, n), t, w)
    BY <1>1, <2>1, <2>2, SayOne
  <2>5. Told(Append(s, n), i, g, TRUE, m, why)
    BY <2>1, <2>4 DEF Told
  <2> QED BY <1>3, <2>3, <2>5 DEF n
<1> QED BY <1>2, <1>3

LEMMA TellMode ==
    ASSUME NEW s, NEW i, NEW g, NEW c, NEW m \in Modes, NEW why \in Reasons,
           Told(s, i, g, c, m, why), m # "errors-only" => why = "null",
           NEW new \in Modes, NEW reason \in Reasons, new # "errors-only" => reason = "null"
    PROVE  Told(s \o NewMode(m, why, new, reason), i, g, c, new, reason)
<1>1. s \in Seq(Notices) /\ NoRepeat(s) /\ (LastIs(s, "mode", ModeWhat(m, why)) \/ Unsaid(s, "mode"))
  BY DEF Told
<1>2. CASE new = m /\ reason = why
  <2>1. s \o <<>> = s
    BY <1>1
  <2> QED BY <1>2, <2>1 DEF NewMode
<1>3. CASE ~(new = m /\ reason = why)
  <2> DEFINE n == [topic |-> "mode", what |-> ModeWhat(new, reason)]
  <2>1. n \in Notices /\ n.topic = "mode" /\ n.what = ModeWhat(new, reason)
    <3> DEFINE x == ModeWhat(new, reason)
    <3>1. x \in {ModeWhat(a, b) : a \in Modes, b \in Reasons}
      OBVIOUS
    <3> HIDE DEF x
    <3>2. [topic |-> "mode", what |-> x] \in Notices
      BY <3>1 DEF Notices
    <3> QED BY <3>2 DEF x
  <2>2. ModeWhat(m, why) # ModeWhat(new, reason)
    <3>1. CASE m = "errors-only" /\ new = "errors-only"
      BY <1>3, <3>1 DEF ModeWhat
    <3>2. CASE m # "errors-only" /\ new # "errors-only"
      BY <1>3, <3>2 DEF ModeWhat
    <3>3. CASE m = "errors-only" /\ new # "errors-only"
      <4>1. ModeWhat(m, why)[1] = "errors-only" /\ ModeWhat(new, reason)[1] = new
        BY <3>3 DEF ModeWhat
      <4> QED BY <3>3, <4>1
    <3>4. CASE m # "errors-only" /\ new = "errors-only"
      <4>1. ModeWhat(m, why)[1] = m /\ ModeWhat(new, reason)[1] = "errors-only"
        BY <3>4 DEF ModeWhat
      <4> QED BY <3>4, <4>1
    <3> QED BY <3>1, <3>2, <3>3, <3>4
  <2> HIDE DEF n
  <2>3. Unsaid(s, n.topic) \/ \E w : LastIs(s, n.topic, w) /\ w # n.what
    BY <1>1, <2>1, <2>2
  <2>4. s \o <<n>> = Append(s, n)
    BY <1>1, <2>1
  <2>5. /\ Append(s, n) \in Seq(Notices) /\ NoRepeat(Append(s, n))
        /\ LastIs(Append(s, n), n.topic, n.what)
        /\ \A t : t # n.topic => /\ Unsaid(s, t) => Unsaid(Append(s, n), t)
                                 /\ \A w : LastIs(s, t, w) => LastIs(Append(s, n), t, w)
    BY <1>1, <2>1, <2>3, SayOne
  <2>6. Told(Append(s, n), i, g, c, new, reason)
    BY <2>1, <2>5 DEF Told
  <2> QED BY <1>3, <2>4, <2>6 DEF n, NewMode
<1> QED BY <1>2, <1>3

\* What the agent reads in the lines of a reply is what the reply asks for.
LEMMA LinesMean ==
    ASSUME NEW r
    PROVE  /\ parseOtlpExportMessage(GrantLine(r)) = grantOf(r) /\ grantOf(r) \in Grants
           /\ parseDegradedMessage(VerdictLine(r)) = Meant(r) /\ Meant(r) \in Modes
           /\ parseOveragePauseReason(VerdictLine(r)) \in Reasons
           /\ Meant(r) # "errors-only" => parseOveragePauseReason(VerdictLine(r)) = "null"
<1>1. parseOtlpExportMessage(GrantLine(r)) = grantOf(r) /\ grantOf(r) \in Grants
  BY DEF parseOtlpExportMessage, GrantLine, Line, grantOf, Grants
<1>2. verdict(r) \in {"false", "errors-only:spike", "errors-only:budget", "errors-only", "trimmed",
                      "paced", "true"}
  BY DEF verdict
<1>3. VerdictLine(r).prefix = "degraded" /\ VerdictLine(r).value = verdict(r)
  BY DEF VerdictLine, Line
<1>4. Meant(r) = CASE verdict(r) = "true" -> "reduced"
                   [] verdict(r) \in {"trimmed", "paced", "errors-only"} -> verdict(r)
                   [] verdict(r) \in {"errors-only:spike", "errors-only:budget"} -> "errors-only"
                   [] OTHER -> "full"
  BY DEF verdict, Meant
<1>5. parseDegradedMessage(VerdictLine(r)) = Meant(r)
  BY <1>3, <1>4 DEF parseDegradedMessage
<1>6. Meant(r) \in Modes
  BY DEF Meant, Modes
<1>7. parseOveragePauseReason(VerdictLine(r)) \in Reasons
  BY <1>2, <1>3 DEF parseOveragePauseReason, Reasons
<1>8. Meant(r) # "errors-only" => parseOveragePauseReason(VerdictLine(r)) = "null"
  BY <1>2, <1>3, <1>4 DEF parseOveragePauseReason
<1> QED BY <1>1, <1>5, <1>6, <1>7, <1>8

\* Which line comes next, and what is left after it.
LEMMA NextLine ==
    ASSUME NEW s, NEW r, s # <<>>, s \in Unread(r) \/ s \in UnreadOfFailure
    PROVE  \/ /\ s = <<GrantLine(r), VerdictLine(r), SentLine>> /\ Head(s) = GrantLine(r)
              /\ Tail(s) = <<VerdictLine(r), SentLine>>
           \/ s = <<VerdictLine(r), SentLine>> /\ Head(s) = VerdictLine(r) /\ Tail(s) = <<SentLine>>
           \/ /\ Head(s) \in {SentLine, Wrong, Paused, Refused, Failed} /\ Tail(s) \in UnreadOfFailure
              /\ s \notin {<<GrantLine(r), VerdictLine(r), SentLine>>, <<VerdictLine(r), SentLine>>}
<1> DEFINE G == GrantLine(r)
           V == VerdictLine(r)
           Two == {<<G, V, SentLine>>, <<V, SentLine>>}
<1>0. /\ V \notin {SentLine, Wrong, Paused, Refused, Failed}
      /\ G \notin {SentLine, Wrong, Paused, Refused, Failed}
  BY DEF GrantLine, VerdictLine, SentLine, Wrong, Paused, Refused, Failed, Line
<1>1. ASSUME NEW x, s = <<x>> PROVE Head(s) = x /\ Tail(s) = <<>> /\ s \notin Two
  BY <1>1
<1>2. ASSUME NEW x, NEW y, s = <<x, y>> PROVE Head(s) = x /\ Tail(s) = <<y>> /\ (x # V => s \notin Two)
  BY <1>2
<1>3. ASSUME NEW x, NEW y, NEW z, s = <<x, y, z>>
      PROVE  Head(s) = x /\ Tail(s) = <<y, z>> /\ (x # G => s \notin Two)
  BY <1>3
<1> HIDE DEF G, V, Two
<1>4. CASE s = <<G, V, SentLine>>
  BY <1>3, <1>4 DEF G, V
<1>5. CASE s = <<V, SentLine>>
  BY <1>2, <1>5 DEF V
<1>6. CASE s = <<SentLine>>
  BY <1>1, <1>6 DEF UnreadOfFailure, Two, G, V
<1>7. CASE s = <<Wrong>>
  BY <1>1, <1>7 DEF UnreadOfFailure, Two, G, V
<1>8. CASE s = <<Failed>>
  BY <1>1, <1>8 DEF UnreadOfFailure, Two, G, V
<1>9. CASE s = <<Refused, Wrong>>
  BY <1>0, <1>2, <1>9 DEF UnreadOfFailure, Two, G, V
<1>10. CASE s = <<Failed, Wrong>>
  BY <1>0, <1>2, <1>10 DEF UnreadOfFailure, Two, G, V
<1>11. CASE s = <<Wrong, Failed>>
  BY <1>0, <1>2, <1>11 DEF UnreadOfFailure, Two, G, V
<1>12. CASE s = <<Paused, Refused, Wrong>>
  BY <1>0, <1>3, <1>12 DEF UnreadOfFailure, Two, G, V
<1>13. CASE s = <<Paused, Failed, Wrong>>
  BY <1>0, <1>3, <1>13 DEF UnreadOfFailure, Two, G, V
<1> QED
  BY <1>4, <1>5, <1>6, <1>7, <1>8, <1>9, <1>10, <1>11, <1>12, <1>13
  DEF Unread, UnreadOfFailure, G, V

\* A batch is answered, and its lines posted.
LEMMA PostsKeep == ASSUME NoticesInv, workerPosts PROVE NoticesInv'
<1>1. /\ lines = <<>> /\ UNCHANGED <<reporting, granted, mode, reported, said, deaths>>
  BY DEF workerPosts
<1>2. NoticesTypeOK' /\ ReportedInv' /\ ToldInv'
  BY <1>1 DEF NoticesInv, NoticesTypeOK, ReportedInv, ToldInv, isReporting
<1>3. CASE \E reply \in CollectorReplies : lines' = acceptedLines(reply) /\ lastReply' = reply
  <2>1. lines' = <<GrantLine(lastReply'), VerdictLine(lastReply'), SentLine>>
    BY <1>3 DEF acceptedLines, GrantLine, VerdictLine, SentLine
  <2>2. LinesInv' /\ AnsweredInv'
    BY <2>1 DEF LinesInv, Unread, AnsweredInv
  <2> QED BY <1>2, <2>2 DEF NoticesInv
<1>4. CASE lines' \in {refusedLines, rateLimitedLines, failedLines} /\ UNCHANGED lastReply
  <2>1. lines' \in UnreadOfFailure
    BY <1>4 DEF refusedLines, rateLimitedLines, failedLines, UnreadOfFailure, Paused, Refused, Failed, Wrong
  <2>2. lastReply # NoReply => granted = grantOf(lastReply) /\ mode = Meant(lastReply)
    BY <1>1 DEF NoticesInv, AnsweredInv
  <2>3. LinesInv' /\ AnsweredInv'
    BY <1>1, <1>4, <2>1, <2>2 DEF LinesInv, AnsweredInv
  <2> QED BY <1>2, <2>3 DEF NoticesInv
<1> QED BY <1>3, <1>4 DEF workerPosts

\* The agent reads a grant.
LEMMA GrantKeeps ==
    ASSUME NoticesInv, handleMessage,
           lines = <<GrantLine(lastReply), VerdictLine(lastReply), SentLine>>
    PROVE  NoticesInv'
<1> DEFINE r == lastReply
           g == grantOf(r)
<1>1. /\ Head(lines) = GrantLine(r) /\ lines' = <<VerdictLine(r), SentLine>>
      /\ UNCHANGED <<posts, deaths, lastReply>>
  BY DEF handleMessage
<1>2. readOtlpExport(GrantLine(r))
  BY <1>1 DEF handleMessage, readPaused, readNotIngested, readDegraded, readProse, parsePausedMessage,
     parseNotIngestedMessage, parseDegradedMessage, GrantLine, Line
<1>3. /\ granted' = g /\ g \in Grants /\ said' = said \o exportNotice(g)
      /\ reported' = [reported EXCEPT !.grant = g] /\ UNCHANGED <<reporting, mode>>
  BY <1>2, LinesMean DEF readOtlpExport
<1> HIDE DEF g
<1>4. NoticesTypeOK' /\ ReportedInv'
  BY <1>3 DEF NoticesInv, NoticesTypeOK, ReportedInv, Grants, isReporting
<1>5. ToldInv'
  <2>1. reported \in [interop : BOOLEAN, grant : Grants \cup {"null"}, connection : BOOLEAN,
                      mode : Modes, reason : Reasons]
    BY DEF NoticesInv, ReportedInv
  <2>2. Told(said \o exportNotice(g), reported.interop, g, reported.connection, reported.mode,
             reported.reason)
    BY <1>3, <2>1, TellExport DEF NoticesInv, ToldInv, exportNotice
  <2>3. /\ reported'.interop = reported.interop /\ reported'.grant = g
        /\ reported'.connection = reported.connection /\ reported'.mode = reported.mode
        /\ reported'.reason = reported.reason
    BY <1>3, <2>1
  <2> QED BY <1>3, <2>2, <2>3 DEF ToldInv
<1>6. LinesInv' /\ AnsweredInv'
  BY <1>1, <1>3 DEF LinesInv, Unread, AnsweredInv, g
<1> QED BY <1>4, <1>5, <1>6 DEF NoticesInv

\* The agent reads a verdict.
LEMMA VerdictKeeps ==
    ASSUME NoticesInv, handleMessage, lines = <<VerdictLine(lastReply), SentLine>>
    PROVE  NoticesInv'
<1> DEFINE r == lastReply
           m == Meant(r)
           why == parseOveragePauseReason(VerdictLine(r))
<1>1. /\ Head(lines) = VerdictLine(r) /\ lines' = <<SentLine>>
      /\ UNCHANGED <<posts, deaths, lastReply>>
  BY DEF handleMessage
<1>2. readDegraded(VerdictLine(r))
  BY <1>1 DEF handleMessage, readPaused, readNotIngested, readOtlpExport, readProse, parsePausedMessage,
     parseNotIngestedMessage, parseOtlpExportMessage, VerdictLine, Line
<1>3. /\ m \in Modes /\ why \in Reasons /\ (m # "errors-only" => why = "null")
      /\ parseDegradedMessage(VerdictLine(r)) = m
  BY LinesMean
<1> HIDE DEF m, why
<1>4. /\ reporting' = "ingesting" /\ mode' = m /\ UNCHANGED granted
      /\ said' = said \o interopNotice("ingesting") \o connectionNotice \o modeNotice(m, why)
      /\ reported' = [reported EXCEPT !.interop = TRUE, !.connection = TRUE, !.mode = m, !.reason = why]
  BY <1>2, <1>3 DEF readDegraded, recordAccepted, why
<1>5. reported \in [interop : BOOLEAN, grant : Grants \cup {"null"}, connection : BOOLEAN,
                    mode : Modes, reason : Reasons]
      /\ (reported.mode # "errors-only" => reported.reason = "null")
  BY DEF NoticesInv, ReportedInv
<1>6. /\ reported'.interop = TRUE /\ reported'.grant = reported.grant
      /\ reported'.connection = TRUE /\ reported'.mode = m /\ reported'.reason = why
      /\ reported' \in [interop : BOOLEAN, grant : Grants \cup {"null"}, connection : BOOLEAN,
                        mode : Modes, reason : Reasons]
  BY <1>3, <1>4, <1>5
<1>7. NoticesTypeOK'
  BY <1>3, <1>4 DEF NoticesInv, NoticesTypeOK, Modes
<1>8. ReportedInv'
  BY <1>3, <1>4, <1>6 DEF NoticesInv, ReportedInv, isReporting
<1>9. ToldInv'
  <2> DEFINE one == said \o interopNotice("ingesting")
             two == one \o connectionNotice
  <2>1. Told(one, TRUE, reported.grant, reported.connection, reported.mode, reported.reason)
    <3>1. interopNotice("ingesting")
          = IF TRUE = reported.interop THEN <<>>
            ELSE <<[topic |-> "interop", what |-> IF TRUE THEN "on" ELSE "off"]>>
      BY DEF interopNotice, isReporting
    <3> QED BY <1>5, <3>1, TellInterop DEF NoticesInv, ToldInv
  <2> HIDE DEF one
  <2>2. Told(two, TRUE, reported.grant, TRUE, reported.mode, reported.reason)
    BY <1>5, <2>1, TellConnection DEF connectionNotice
  <2> HIDE DEF two
  <2>3. Told(two \o modeNotice(m, why), TRUE, reported.grant, TRUE, m, why)
    <3> DEFINE a == reported.mode
               b == reported.reason
               g == reported.grant
    <3>1. a \in Modes /\ b \in Reasons /\ (a # "errors-only" => b = "null")
      BY <1>5
    <3>2. modeNotice(m, why) = NewMode(a, b, m, why)
      BY DEF modeNotice, ModeWhat, NewMode
    <3>3. Told(two, TRUE, g, TRUE, a, b)
      BY <2>2
    <3> HIDE DEF a, b, g
    <3>4. Told(two \o NewMode(a, b, m, why), TRUE, g, TRUE, m, why)
      BY <1>3, <3>1, <3>3, TellMode
    <3>5. Told(two \o modeNotice(m, why), TRUE, g, TRUE, m, why)
      BY <3>2, <3>4
    <3> QED BY <3>5 DEF g
  <2> QED BY <1>4, <1>6, <2>3 DEF ToldInv, one, two
<1>10. LinesInv'
  BY <1>1 DEF LinesInv, Unread
<1>11. AnsweredInv'
  <2>1. r # NoReply => granted = grantOf(r)
    <3>1. lines # <<GrantLine(r), VerdictLine(r), SentLine>>
      OBVIOUS
    <3> QED BY <3>1 DEF NoticesInv, AnsweredInv
  <2> QED BY <1>1, <1>4, <2>1 DEF AnsweredInv, m
<1> QED BY <1>7, <1>8, <1>9, <1>10, <1>11 DEF NoticesInv

\* The agent reads one of the other lines.
LEMMA OthersKeep ==
    ASSUME NoticesInv, handleMessage, Head(lines) \in {SentLine, Wrong, Paused, Refused, Failed},
           Tail(lines) \in UnreadOfFailure,
           lines \notin {<<GrantLine(lastReply), VerdictLine(lastReply), SentLine>>,
                         <<VerdictLine(lastReply), SentLine>>}
    PROVE  NoticesInv'
<1> DEFINE l == Head(lines)
           now == IF l = Refused THEN "off" ELSE reporting
<1>1. lines' = Tail(lines) /\ UNCHANGED <<posts, deaths, lastReply>>
  BY DEF handleMessage
<1>2. /\ reporting' = now /\ UNCHANGED <<granted, mode>>
      /\ \/ UNCHANGED <<reporting, said, reported>>
         \/ said' = said \o interopNotice(now) /\ reported' = [reported EXCEPT !.interop = isReporting(now)]
  <2>1. readPaused(l) \/ readNotIngested(l) \/ readProse(l)
    BY DEF handleMessage, readOtlpExport, readDegraded, parseOtlpExportMessage, parseDegradedMessage,
       SentLine, Wrong, Paused, Refused, Failed, Line
  <2>2. CASE readPaused(l)
    <3>1. l # Refused
      BY <2>2 DEF readPaused, parsePausedMessage, Refused, Line
    <3> QED BY <2>2, <3>1 DEF readPaused
  <2>3. CASE readProse(l)
    <3>1. l # Refused
      BY <2>3 DEF readProse, Refused, Line
    <3> QED BY <2>3, <3>1 DEF readProse
  <2>4. CASE readNotIngested(l)
    <3>1. l \in {Refused, Failed}
      BY <2>4 DEF readNotIngested, parseNotIngestedMessage, SentLine, Wrong, Paused, Refused, Failed, Line
    <3>2. (parseNotIngestedMessage(l) = "refused") = (l = Refused)
      BY <3>1 DEF parseNotIngestedMessage, Refused, Failed, Line
    <3> QED BY <2>4, <3>2 DEF readNotIngested, recordRefused
  <2> QED BY <2>1, <2>2, <2>3, <2>4
<1> HIDE DEF l, now
<1>3. reported \in [interop : BOOLEAN, grant : Grants \cup {"null"}, connection : BOOLEAN,
                    mode : Modes, reason : Reasons]
  BY DEF NoticesInv, ReportedInv
<1>4. now \in {"off", "started", "ingesting"}
  BY DEF NoticesInv, NoticesTypeOK, now
<1>5. NoticesTypeOK'
  BY <1>2, <1>4 DEF NoticesInv, NoticesTypeOK
<1>6. ReportedInv' /\ ToldInv'
  <2>1. CASE UNCHANGED <<reporting, said, reported>>
    BY <1>2, <2>1 DEF NoticesInv, ReportedInv, ToldInv, isReporting
  <2>2. CASE said' = said \o interopNotice(now) /\ reported' = [reported EXCEPT !.interop = isReporting(now)]
    <3>1. isReporting(now) \in BOOLEAN
      BY DEF isReporting
    <3>2. Told(said \o interopNotice(now), isReporting(now), reported.grant, reported.connection,
               reported.mode, reported.reason)
      BY <1>3, <3>1, TellInterop DEF NoticesInv, ToldInv, interopNotice
    <3>3. /\ reported'.interop = isReporting(now) /\ reported'.grant = reported.grant
          /\ reported'.connection = reported.connection /\ reported'.mode = reported.mode
          /\ reported'.reason = reported.reason
          /\ reported' \in [interop : BOOLEAN, grant : Grants \cup {"null"}, connection : BOOLEAN,
                            mode : Modes, reason : Reasons]
      BY <1>3, <2>2, <3>1
    <3>4. ReportedInv'
      BY <1>2, <3>3 DEF NoticesInv, ReportedInv, isReporting
    <3> QED BY <2>2, <3>2, <3>3, <3>4 DEF ToldInv
  <2> QED BY <1>2, <2>1, <2>2
<1>7. LinesInv'
  BY <1>1 DEF LinesInv
<1>8. AnsweredInv'
  <2>1. lastReply # NoReply => granted = grantOf(lastReply) /\ mode = Meant(lastReply)
    BY DEF NoticesInv, AnsweredInv
  <2> QED BY <1>1, <1>2, <2>1 DEF AnsweredInv
<1> QED BY <1>5, <1>6, <1>7, <1>8 DEF NoticesInv

\* The worker is gone.
LEMMA ExitKeeps == ASSUME NoticesInv, workerExits PROVE NoticesInv'
<1>1. /\ reporting' = "off" /\ said' = said \o interopNotice("off")
      /\ reported' = [reported EXCEPT !.interop = FALSE]
      /\ UNCHANGED <<lines, granted, mode, posts, lastReply>>
  BY DEF workerExits, recordStopped
<1>2. reported \in [interop : BOOLEAN, grant : Grants \cup {"null"}, connection : BOOLEAN,
                    mode : Modes, reason : Reasons]
  BY DEF NoticesInv, ReportedInv
<1>3. Told(said \o interopNotice("off"), FALSE, reported.grant, reported.connection, reported.mode,
           reported.reason)
  <2>1. interopNotice("off")
        = IF FALSE = reported.interop THEN <<>>
          ELSE <<[topic |-> "interop", what |-> IF FALSE THEN "on" ELSE "off"]>>
    BY DEF interopNotice, isReporting
  <2> QED BY <1>2, <2>1, TellInterop DEF NoticesInv, ToldInv
<1>4. /\ reported'.interop = FALSE /\ reported'.grant = reported.grant
      /\ reported'.connection = reported.connection /\ reported'.mode = reported.mode
      /\ reported'.reason = reported.reason
      /\ reported' \in [interop : BOOLEAN, grant : Grants \cup {"null"}, connection : BOOLEAN,
                        mode : Modes, reason : Reasons]
  BY <1>1, <1>2
<1>5. NoticesTypeOK'
  BY <1>1 DEF NoticesInv, NoticesTypeOK
<1>6. ReportedInv'
  BY <1>1, <1>4 DEF NoticesInv, ReportedInv, isReporting
<1>7. ToldInv'
  BY <1>1, <1>3, <1>4 DEF ToldInv
<1>8. LinesInv' /\ AnsweredInv'
  BY <1>1 DEF NoticesInv, LinesInv, AnsweredInv
<1> QED BY <1>5, <1>6, <1>7, <1>8 DEF NoticesInv

LEMMA NoticesStart == NoticesInit => NoticesInv
<1> SUFFICES ASSUME NoticesInit PROVE NoticesInv
  OBVIOUS
<1>1. NoticesTypeOK /\ ReportedInv
  BY DEF NoticesInit, NoticesTypeOK, ReportedInv, recordStarted, isReporting, Grants, Modes, Reasons
<1>2. ToldInv
  <2> DEFINE n == [topic |-> "interop", what |-> "on"]
  <2>1. n \in Notices /\ n.topic = "interop" /\ n.what = "on"
    BY DEF Notices
  <2> HIDE DEF n
  <2>2. said = <<n>>
    BY DEF NoticesInit, n
  <2>3. said \in Seq(Notices) /\ Len(said) = 1 /\ said[1] = n
    BY <2>1, <2>2
  <2>4. LastIs(said, "interop", "on") /\ NoRepeat(said)
    BY <2>1, <2>3 DEF LastIs, NoRepeat
  <2>5. Unsaid(said, "export") /\ Unsaid(said, "connection") /\ Unsaid(said, "mode")
    BY <2>1, <2>3 DEF Unsaid
  <2>6. Told(said, TRUE, "null", FALSE, "full", "null")
    BY <2>3, <2>4, <2>5 DEF Told
  <2> QED BY <2>6 DEF ToldInv, NoticesInit
<1>3. LinesInv /\ AnsweredInv
  BY DEF NoticesInit, LinesInv, UnreadOfFailure, AnsweredInv
<1> QED BY <1>1, <1>2, <1>3 DEF NoticesInv

LEMMA NoticesStep == NoticesInv /\ [NoticesNext]_noticeVars => NoticesInv'
<1> SUFFICES ASSUME NoticesInv, [NoticesNext]_noticeVars PROVE NoticesInv'
  OBVIOUS
<1>1. CASE workerPosts
  BY <1>1, PostsKeep
<1>2. CASE handleMessage
  <2>1. lines # <<>> /\ (lines \in Unread(lastReply) \/ lines \in UnreadOfFailure)
    BY <1>2 DEF handleMessage, NoticesInv, LinesInv
  <2>2. CASE lines = <<GrantLine(lastReply), VerdictLine(lastReply), SentLine>>
    BY <1>2, <2>2, GrantKeeps
  <2>3. CASE lines = <<VerdictLine(lastReply), SentLine>>
    BY <1>2, <2>3, VerdictKeeps
  <2>4. CASE lines \notin {<<GrantLine(lastReply), VerdictLine(lastReply), SentLine>>,
                           <<VerdictLine(lastReply), SentLine>>}
    <3>1. /\ Head(lines) \in {SentLine, Wrong, Paused, Refused, Failed}
          /\ Tail(lines) \in UnreadOfFailure
      BY <2>1, <2>4, NextLine
    <3> QED BY <1>2, <2>4, <3>1, OthersKeep
  <2> QED BY <2>2, <2>3, <2>4
<1>3. CASE workerExits
  BY <1>3, ExitKeeps
<1>4. CASE UNCHANGED noticeVars
  BY <1>4 DEF noticeVars, NoticesInv, NoticesTypeOK, ReportedInv, isReporting, ToldInv, LinesInv, AnsweredInv
<1> QED BY <1>1, <1>2, <1>3, <1>4 DEF NoticesNext

LEMMA NoticesSound == NoticesInv => NoticesAreTrue
<1> SUFFICES ASSUME NoticesInv PROVE NoticesAreTrue
  OBVIOUS
<1> DEFINE N == Len(said)
<1>1. said \in Seq(Notices) /\ N \in Nat /\ DOMAIN said = 1 .. N
  BY DEF NoticesInv, ToldInv, Told
<1>2. ASSUME NEW t, NEW w, LastIs(said, t, w) PROVE LastSaid(t) = w
  <2> DEFINE on == {i \in DOMAIN said : said[i].topic = t}
             Latest(i) == i \in on /\ \A j \in on : j <= i
  <2>1. PICK i \in 1 .. N : /\ said[i].topic = t /\ said[i].what = w
                            /\ \A j \in 1 .. N : said[j].topic = t => j <= i
    BY <1>2 DEF LastIs
  <2>2. on # {} /\ Latest(i) /\ (\A j : Latest(j) => j = i)
    BY <1>1, <2>1
  <2>3. (CHOOSE k \in on : \A j \in on : j <= k) = i
    BY <2>2
  <2> QED BY <2>1, <2>2, <2>3 DEF LastSaid
<1>3. NothingSaidTwice
  BY <1>1 DEF NoticesInv, ToldInv, Told, NoRepeat, NothingSaidTwice
<1>4. LastNoticeHolds
  BY <1>2 DEF NoticesInv, ToldInv, Told, ReportedInv, LastNoticeHolds
<1>5. AnsweredAsMeant
  <2>1. ASSUME lines = <<>>, lastReply # NoReply
        PROVE  granted = grantOf(lastReply) /\ mode = Meant(lastReply)
    BY <2>1 DEF NoticesInv, AnsweredInv
  <2> QED BY <2>1 DEF AnsweredAsMeant, Meant
<1>6. GrantBeforeVerdict
  <2> SUFFICES ASSUME NEW i \in DOMAIN lines, lines[i].prefix = "otlp-export"
               PROVE  \E j \in DOMAIN lines : lines[j].prefix = "degraded"
    BY DEF GrantBeforeVerdict
  <2>1. /\ SentLine.prefix = "prose" /\ Wrong.prefix = "prose" /\ Paused.prefix = "paused-until"
        /\ Refused.prefix = "not-ingested" /\ Failed.prefix = "not-ingested"
        /\ VerdictLine(lastReply).prefix = "degraded"
    BY DEF SentLine, Wrong, Paused, Refused, Failed, VerdictLine, Line
  <2>2. CASE lines = <<GrantLine(lastReply), VerdictLine(lastReply), SentLine>>
    <3>1. 2 \in DOMAIN lines /\ lines[2] = VerdictLine(lastReply)
      BY <2>2
    <3> QED BY <2>1, <3>1
  <2>3. CASE lines = <<VerdictLine(lastReply), SentLine>>
    <3>1. 1 \in DOMAIN lines /\ lines[1] = VerdictLine(lastReply)
      BY <2>3
    <3> QED BY <2>1, <3>1
  <2>4. CASE lines = <<SentLine>> \/ lines \in UnreadOfFailure
    BY <2>1, <2>4 DEF UnreadOfFailure
  <2> QED BY <2>2, <2>3, <2>4 DEF NoticesInv, LinesInv, Unread
<1> QED BY <1>3, <1>4, <1>5, <1>6 DEF NoticesInv, NoticesAreTrue

\* For any replies of the collector and any number of batches and deaths of
\* the worker, the agent does what the last reply asked for, and what the
\* operator was last told is what is, said once (handleMessage, watchWorker,
\* reportOpenTelemetryInterop).
THEOREM NoticesHold == NoticesSpec => []NoticesAreTrue
<1>1. NoticesInit => NoticesInv
  BY NoticesStart
<1>2. NoticesInv /\ [NoticesNext]_noticeVars => NoticesInv'
  BY NoticesStep
<1>3. NoticesInv => NoticesAreTrue
  BY NoticesSound
<1> QED BY <1>1, <1>2, <1>3, PTL DEF NoticesSpec

-----------------------------------------------------------------------------
(***************************************************************************)
(* AgentStart, for any options and environment: the settings of an export, *)
(* the lines that explain a silence, and the two that are one interval.    *)
(***************************************************************************)
MissingKeys(c) == hasScaffoldCredentials(c.options) \/ lacksHostedCredentials(c)
QuietLine(c) ==
    IF ~c.options.enabled THEN <<[level |-> "log", about |-> {"disabled"}]>>
    ELSE IF MissingKeys(c) THEN <<describeMissingCredentials(c)>>
    ELSE IF warnsOfClearText(c) THEN <<[level |-> "warn", about |-> {"clear text"}]>> ELSE <<>>
InteropLine(c) ==
    IF c.options.openTelemetry /\ ~sendsToObserve(c)
    THEN <<[level |-> "warn", about |-> {"interop"}]>> ELSE <<>>
\* The agent that configuration c makes.
Made(c) ==
    [started |-> TRUE, worker |-> c.options.enabled /\ ~MissingKeys(c),
     said |-> QuietLine(c) \o InteropLine(c), exporter |-> OtlpTraceExporter(c).settings,
     exportWarnings |-> OtlpTraceExporter(c).warnings,
     asksForOtlpExport |-> c.options.enabled /\ ~MissingKeys(c) /\ exporterEnabled(OtlpTraceExporter(c).settings),
     flushInterval |-> flushIntervalOf(c).timer, workerInterval |-> flushIntervalOf(c).option,
     runtimeMetrics |-> sendsToObserve(c) /\ c.options.runtimeMetrics]
\* The settings of its export, and what is said of those it does not know.
Resolved(c) ==
    LET o == c.options.otlp
    IN [url |-> tracesUrl(o, c.env),
        protocol |-> otlpProtocol(First(o.protocol, c.env.TRACES_PROTOCOL, c.env.PROTOCOL, "")),
        compression |-> otlpCompression(First(o.compression, c.env.TRACES_COMPRESSION, c.env.COMPRESSION, "")),
        timeoutMs |-> FirstPositive(o.timeoutMillis, c.env.TRACES_TIMEOUT, c.env.TIMEOUT, DEFAULT_TIMEOUT_MS),
        headers |-> over(over(c.env.HEADERS, c.env.TRACES_HEADERS), o.headers),
        resource |-> resourceOf(o, c.env, c.options.serviceId)]
Unknown(c) ==
    LET o == c.options.otlp
    IN settingWarnings(First(o.protocol, c.env.TRACES_PROTOCOL, c.env.PROTOCOL, ""),
                       First(o.compression, c.env.TRACES_COMPRESSION, c.env.COMPRESSION, ""))
StartInv == configuration \in Configurations /\ (agent = Before \/ agent = Made(configuration))

LEMMA StartMakes == StartInv /\ [StartNext]_startVars => StartInv'
<1> SUFFICES ASSUME StartInv, [StartNext]_startVars PROVE StartInv'
  OBVIOUS
<1>1. CASE onModuleInit
  BY <1>1 DEF onModuleInit, StartInv, Made, MissingKeys, QuietLine, InteropLine
<1>2. CASE UNCHANGED startVars
  BY <1>2 DEF startVars, StartInv
<1> QED BY <1>1, <1>2 DEF StartNext

\* Reporting is there when the worker is.
LEMMA SendsIfStarted ==
    ASSUME NEW c
    PROVE  sendsToObserve(c) <=> c.options.enabled /\ ~MissingKeys(c)
  BY DEF sendsToObserve, MissingKeys

\* An export goes to an address it can reach, or there is none and it says so.
LEMMA ExportResolved ==
    ASSUME NEW c
    PROVE  /\ resolveOtlpSettings(c)
              = IF ~isHttp(tracesUrl(c.options.otlp, c.env)) THEN [settings |-> NoSettings, warnings |-> 1]
                ELSE [settings |-> Resolved(c), warnings |-> Unknown(c)]
           /\ isHttp(tracesUrl(c.options.otlp, c.env)) => exporterEnabled(Resolved(c))
<1>1. resolveOtlpSettings(c)
      = IF ~isHttp(tracesUrl(c.options.otlp, c.env)) THEN [settings |-> NoSettings, warnings |-> 1]
        ELSE [settings |-> Resolved(c), warnings |-> Unknown(c)]
  BY Zenon DEF resolveOtlpSettings, Resolved, Unknown
<1>2. ASSUME isHttp(tracesUrl(c.options.otlp, c.env)) PROVE exporterEnabled(Resolved(c))
  <2>1. Resolved(c).url = tracesUrl(c.options.otlp, c.env) /\ NoSettings.url = Unset
    BY DEF Resolved, NoSettings
  <2>2. ~isHttp(Unset)
    BY DEF isHttp, Unset, Endpoint
  <2> QED BY <1>2, <2>1, <2>2 DEF exporterEnabled
<1> QED BY <1>1, <1>2

\* What the settings of an export are.
LEMMA SettingsResolved ==
    ASSUME NEW c, exporterEnabled(OtlpTraceExporter(c).settings)
    PROVE  /\ c.options.otlp.on /\ c.options.enabled /\ c.options.openTelemetry /\ sendsToObserve(c)
           /\ isHttp(tracesUrl(c.options.otlp, c.env)) /\ OtlpTraceExporter(c).settings = Resolved(c)
<1>1. /\ c.options.otlp.on /\ c.options.enabled /\ c.options.openTelemetry /\ sendsToObserve(c)
      /\ OtlpTraceExporter(c) = resolveOtlpSettings(c)
  BY DEF OtlpTraceExporter, exporterEnabled
<1>2. CASE isHttp(tracesUrl(c.options.otlp, c.env))
  <2>1. OtlpTraceExporter(c) = [settings |-> Resolved(c), warnings |-> Unknown(c)]
    BY <1>1, <1>2, ExportResolved
  <2> QED BY <1>1, <1>2, <2>1
<1>3. CASE ~isHttp(tracesUrl(c.options.otlp, c.env))
  <2>1. OtlpTraceExporter(c) = [settings |-> NoSettings, warnings |-> 1]
    BY <1>1, <1>3, ExportResolved
  <2> QED BY <2>1 DEF exporterEnabled
<1> QED BY <1>2, <1>3

\* The address is what was set in code, else for traces, else in general.
LEMMA AddressResolved ==
    ASSUME NEW c \in Configurations
    PROVE  LET o == c.options.otlp
               url == tracesUrl(o, c.env)
           IN /\ url.tracesPath \/ url = c.env.TRACES_ENDPOINT
              /\ o.endpoint # Unset => url.host = o.endpoint.host
              /\ o.endpoint = Unset /\ c.env.TRACES_ENDPOINT # Unset => url = c.env.TRACES_ENDPOINT
<1> DEFINE o == c.options.otlp
           url == tracesUrl(o, c.env)
<1>1. o.endpoint \in EndpointRecords /\ c.env.ENDPOINT \in EndpointRecords
  BY StartAssumption
<1>2. ASSUME NEW e \in EndpointRecords PROVE toTracesUrl(e).tracesPath /\ toTracesUrl(e).host = e.host
  BY DEF toTracesUrl, EndpointRecords
<1>3. CASE o.endpoint # Unset
  BY <1>1, <1>2, <1>3 DEF tracesUrl
<1>4. CASE o.endpoint = Unset /\ c.env.TRACES_ENDPOINT # Unset
  BY <1>4 DEF tracesUrl
<1>5. CASE o.endpoint = Unset /\ c.env.TRACES_ENDPOINT = Unset
  <2>1. url = toTracesUrl(IF c.env.ENDPOINT # Unset THEN c.env.ENDPOINT ELSE DEFAULT_ENDPOINT)
    BY <1>5 DEF tracesUrl
  <2>2. toTracesUrl(DEFAULT_ENDPOINT).tracesPath
    BY DEF toTracesUrl, DEFAULT_ENDPOINT, Endpoint
  <2>3. url.tracesPath
    BY <1>1, <1>2, <2>1, <2>2
  <2> QED BY <1>5, <2>3
<1> QED BY <1>3, <1>4, <1>5

\* The later of two lists wins, name by name, and none is lost.
LEMMA LaterWins ==
    ASSUME NEW f, NEW g
    PROVE  /\ DOMAIN over(f, g) = DOMAIN f \cup DOMAIN g
           /\ \A k \in DOMAIN g : over(f, g)[k] = g[k]
           /\ \A k \in DOMAIN f \ DOMAIN g : over(f, g)[k] = f[k]
  BY DEF over

LEMMA LastOfThreeWins ==
    ASSUME NEW f, NEW g, NEW h
    PROVE  /\ \A k \in DOMAIN h : over(over(f, g), h)[k] = h[k]
           /\ DOMAIN f \subseteq DOMAIN over(over(f, g), h)
           /\ \A k \in DOMAIN g \ DOMAIN h : over(over(f, g), h)[k] = g[k]
<1> DEFINE both == over(f, g)
<1>1. /\ DOMAIN both = DOMAIN f \cup DOMAIN g
      /\ \A k \in DOMAIN g : both[k] = g[k]
  BY LaterWins
<1> HIDE DEF both
<1>2. /\ DOMAIN over(both, h) = DOMAIN both \cup DOMAIN h
      /\ \A k \in DOMAIN h : over(both, h)[k] = h[k]
      /\ \A k \in DOMAIN both \ DOMAIN h : over(both, h)[k] = both[k]
  BY LaterWins
<1>3. /\ \A k \in DOMAIN h : over(both, h)[k] = h[k]
      /\ DOMAIN f \subseteq DOMAIN over(both, h)
      /\ \A k \in DOMAIN g \ DOMAIN h : over(both, h)[k] = g[k]
  BY <1>1, <1>2
<1> QED BY Zenon, <1>3 DEF both

LEMMA NamedKeeps ==
    ASSUME NEW f, NEW name
    PROVE  /\ DOMAIN f \subseteq DOMAIN named(f, name)
           /\ name \notin {"unset", ""} => named(f, name)["service.name"] = name
<1>1. CASE name \in {"unset", ""}
  BY <1>1 DEF named
<1>2. CASE name \notin {"unset", ""}
  <2> DEFINE g == [k \in {"service.name"} |-> name]
  <2>1. named(f, name) = over(f, g) /\ DOMAIN g = {"service.name"} /\ g["service.name"] = name
    BY <1>2 DEF named
  <2> HIDE DEF g
  <2>2. DOMAIN over(f, g) = DOMAIN f \cup DOMAIN g /\ \A k \in DOMAIN g : over(f, g)[k] = g[k]
    BY LaterWins
  <2>3. "service.name" \in DOMAIN g /\ DOMAIN f \subseteq DOMAIN over(f, g)
    BY <2>1, <2>2
  <2> QED BY <2>1, <2>2, <2>3
<1> QED BY <1>1, <1>2

LEMMA ResourceNamed ==
    ASSUME NEW o, NEW e, NEW id
    PROVE  /\ "service.instance.id" \in DOMAIN resourceOf(o, e, id)
           /\ o.serviceName \notin {"unset", ""} => resourceOf(o, e, id)["service.name"] = o.serviceName
<1> DEFINE known == [k \in {"service.name", "service.instance.id"} |->
                        IF k = "service.name" THEN id ELSE "uuid"]
           one == over(known, e.RESOURCE_ATTRIBUTES)
           fromEnv == named(one, e.SERVICE_NAME)
           two == over(fromEnv, o.resourceAttributes)
<1>1. "service.instance.id" \in DOMAIN known
  OBVIOUS
<1>2. resourceOf(o, e, id) = named(two, o.serviceName)
  BY DEF resourceOf
<1> HIDE DEF known
<1>3. "service.instance.id" \in DOMAIN one
  <2>1. DOMAIN one = DOMAIN known \cup DOMAIN e.RESOURCE_ATTRIBUTES
    BY Zenon, LaterWins
  <2> QED BY <1>1, <2>1
<1> HIDE DEF one
<1>4. "service.instance.id" \in DOMAIN fromEnv
  BY <1>3, NamedKeeps
<1> HIDE DEF fromEnv
<1>5. "service.instance.id" \in DOMAIN two
  <2>1. DOMAIN two = DOMAIN fromEnv \cup DOMAIN o.resourceAttributes
    BY Zenon, LaterWins
  <2> QED BY <1>4, <2>1
<1> HIDE DEF two
<1> QED BY <1>2, <1>5, NamedKeeps

LEMMA ExportsBeside == ASSUME StartInv PROVE ExportBesideReporting
<1> DEFINE c == configuration
<1> SUFFICES ASSUME agent = Made(c), exporterEnabled(agent.exporter)
             PROVE  /\ c.options.otlp.on /\ c.options.openTelemetry
                    /\ agent.worker /\ agent.asksForOtlpExport
                    /\ isHttp(agent.exporter.url)
                    /\ agent.exporter.url.tracesPath \/ agent.exporter.url = c.env.TRACES_ENDPOINT
  BY DEF StartInv, ExportBesideReporting, Before
<1>1. c \in Configurations /\ exporterEnabled(OtlpTraceExporter(c).settings)
  BY DEF StartInv, Made
<1>2. /\ c.options.otlp.on /\ c.options.openTelemetry /\ sendsToObserve(c)
      /\ isHttp(tracesUrl(c.options.otlp, c.env)) /\ OtlpTraceExporter(c).settings = Resolved(c)
  BY <1>1, SettingsResolved
<1>3. agent.exporter.url = tracesUrl(c.options.otlp, c.env)
  <2>1. Made(c).exporter = OtlpTraceExporter(c).settings
    BY Zenon DEF Made
  <2>2. Resolved(c).url = tracesUrl(c.options.otlp, c.env)
    BY Zenon DEF Resolved
  <2> QED BY Zenon, <1>2, <2>1, <2>2
<1>4. agent.worker /\ agent.asksForOtlpExport
  BY <1>1, <1>2, SendsIfStarted DEF Made
<1> HIDE DEF c
<1> QED BY <1>1, <1>2, <1>3, <1>4, AddressResolved

\* The lines that explain a silence: one, or none when the worker starts.
Quieting(l) == l.about \cap {"disabled", "placeholders", "appKey", "appSecret"} # {}

\* What is missing is named, and nothing else.
LEMMA MissingExplained ==
    ASSUME NEW c, MissingKeys(c)
    PROVE  /\ Quieting(describeMissingCredentials(c))
           /\ \A k \in describeMissingCredentials(c).about \cap {"appKey", "appSecret"} : c.options[k] = "unset"
           /\ c.env.production => describeMissingCredentials(c).level = "warn"
<1>1. CASE hasScaffoldCredentials(c.options)
  <2>1. /\ describeMissingCredentials(c).about = {"placeholders"}
        /\ c.env.production => describeMissingCredentials(c).level = "warn"
    BY <1>1 DEF describeMissingCredentials
  <2> QED BY <2>1 DEF Quieting
<1>2. CASE ~hasScaffoldCredentials(c.options)
  <2>1. /\ describeMissingCredentials(c).about = {k \in {"appKey", "appSecret"} : c.options[k] = "unset"}
        /\ describeMissingCredentials(c).level = "warn"
    BY <1>2 DEF describeMissingCredentials
  <2>2. c.options["appKey"] = "unset" \/ c.options["appSecret"] = "unset"
    BY <1>2 DEF MissingKeys, lacksHostedCredentials
  <2> QED BY <2>1, <2>2 DEF Quieting
<1> QED BY <1>1, <1>2

LEMMA QuietLineTold ==
    ASSUME NEW c
    PROVE  IF c.options.enabled /\ ~MissingKeys(c)
           THEN QuietLine(c) = <<>> \/ \E l : QuietLine(c) = <<l>> /\ ~Quieting(l)
           ELSE \E l : /\ QuietLine(c) = <<l>> /\ Quieting(l)
                       /\ \A k \in l.about \cap {"appKey", "appSecret"} : c.options[k] = "unset"
                       /\ c.env.production /\ c.options.enabled => l.level = "warn"
<1> DEFINE off == [level |-> "log", about |-> {"disabled"}]
           clear == [level |-> "warn", about |-> {"clear text"}]
<1>1. CASE ~c.options.enabled
  <2>1. QuietLine(c) = <<off>>
    BY <1>1 DEF QuietLine
  <2>2. Quieting(off) /\ off.about \cap {"appKey", "appSecret"} = {}
    BY DEF Quieting
  <2> HIDE DEF off
  <2> QED BY <1>1, <2>1, <2>2
<1>2. CASE c.options.enabled /\ MissingKeys(c)
  <2>1. QuietLine(c) = <<describeMissingCredentials(c)>>
    BY Zenon, <1>2 DEF QuietLine
  <2> QED BY <1>2, <2>1, MissingExplained DEF Quieting
<1>3. CASE c.options.enabled /\ ~MissingKeys(c)
  <2>1. QuietLine(c) = <<>> \/ QuietLine(c) = <<clear>>
    BY <1>3 DEF QuietLine
  <2>2. ~Quieting(clear)
    BY DEF Quieting
  <2> HIDE DEF clear
  <2> QED BY <1>3, <2>1, <2>2
<1> QED BY <1>1, <1>2, <1>3

LEMMA WarnsWithoutExport ==
    ASSUME NEW c, c.options.otlp.on, c.options.enabled, ~exporterEnabled(OtlpTraceExporter(c).settings)
    PROVE  OtlpTraceExporter(c).warnings = 1
<1>1. CASE ~c.options.openTelemetry \/ ~sendsToObserve(c)
  BY <1>1 DEF OtlpTraceExporter
<1>2. CASE c.options.openTelemetry /\ sendsToObserve(c)
  <2>1. OtlpTraceExporter(c) = resolveOtlpSettings(c)
    BY <1>2 DEF OtlpTraceExporter
  <2>2. CASE isHttp(tracesUrl(c.options.otlp, c.env))
    <3>1. OtlpTraceExporter(c) = [settings |-> Resolved(c), warnings |-> Unknown(c)]
      BY <2>1, <2>2, ExportResolved
    <3> QED BY <2>2, <3>1, ExportResolved
  <2>3. CASE ~isHttp(tracesUrl(c.options.otlp, c.env))
    <3>1. OtlpTraceExporter(c) = [settings |-> NoSettings, warnings |-> 1]
      BY <2>1, <2>3, ExportResolved
    <3> QED BY <3>1
  <2> QED BY <2>2, <2>3
<1> QED BY <1>1, <1>2

QuietAt(told) == {i \in DOMAIN told : Quieting(told[i])}

LEMMA TwoLines ==
    ASSUME NEW l, NEW m
    PROVE  /\ Len(<<l>> \o <<m>>) = 2 /\ DOMAIN (<<l>> \o <<m>>) = 1..2
           /\ (<<l>> \o <<m>>)[1] = l /\ (<<l>> \o <<m>>)[2] = m
<1>1. <<l>> \in Seq({l, m}) /\ <<m>> \in Seq({l, m}) /\ Len(<<l>>) = 1 /\ Len(<<m>>) = 1
  OBVIOUS
<1>2. <<l>> \o <<m>> \in Seq({l, m}) /\ Len(<<l>> \o <<m>>) = 2
  BY <1>1
<1>3. (<<l>> \o <<m>>)[1] = l /\ (<<l>> \o <<m>>)[2] = m
  BY <1>1
<1> QED BY <1>2, <1>3

LEMMA NoneQuiet ==
    ASSUME NEW q, NEW r, q = <<>> \/ \E l : q = <<l>> /\ ~Quieting(l),
           r = <<>> \/ \E l : r = <<l>> /\ ~Quieting(l)
    PROVE  QuietAt(q \o r) = {} /\ Len(q \o r) <= 2
<1>1. CASE q = <<>> /\ r = <<>>
  BY <1>1 DEF QuietAt
<1>2. ASSUME NEW l, q = <<l>>, ~Quieting(l), r = <<>> PROVE QuietAt(q \o r) = {} /\ Len(q \o r) <= 2
  <2>1. q \o r = <<l>>
    BY <1>2
  <2> QED BY <1>2, <2>1 DEF QuietAt
<1>3. ASSUME NEW l, r = <<l>>, ~Quieting(l), q = <<>> PROVE QuietAt(q \o r) = {} /\ Len(q \o r) <= 2
  <2>1. q \o r = <<l>>
    BY <1>3
  <2> QED BY <1>3, <2>1 DEF QuietAt
<1>4. ASSUME NEW l, NEW m, q = <<l>>, r = <<m>>, ~Quieting(l), ~Quieting(m)
      PROVE  QuietAt(q \o r) = {} /\ Len(q \o r) <= 2
  <2> QED BY <1>4, TwoLines DEF QuietAt
<1> QED BY <1>1, <1>2, <1>3, <1>4

LEMMA OneQuiet ==
    ASSUME NEW l, NEW r, Quieting(l), r = <<>> \/ \E m : r = <<m>> /\ ~Quieting(m)
    PROVE  QuietAt(<<l>> \o r) = {1} /\ (<<l>> \o r)[1] = l /\ Len(<<l>> \o r) <= 2
<1>1. CASE r = <<>>
  <2>1. <<l>> \o r = <<l>>
    BY <1>1
  <2> QED BY <2>1 DEF QuietAt
<1>2. ASSUME NEW m, r = <<m>>, ~Quieting(m)
      PROVE  QuietAt(<<l>> \o r) = {1} /\ (<<l>> \o r)[1] = l /\ Len(<<l>> \o r) <= 2
  <2> QED BY <1>2, TwoLines DEF QuietAt
<1> QED BY <1>1, <1>2

LEMMA InteropTold ==
    ASSUME NEW c
    PROVE  InteropLine(c) = <<>> \/ \E l : InteropLine(c) = <<l>> /\ ~Quieting(l)
<1>1. ~Quieting([level |-> "warn", about |-> {"interop"}])
  BY DEF Quieting
<1> QED BY <1>1 DEF InteropLine

LEMMA SilenceIsExplained == ASSUME StartInv PROVE SilenceExplained
<1> DEFINE c == configuration
           quiet == {i \in DOMAIN agent.said :
                       agent.said[i].about \cap {"disabled", "placeholders", "appKey", "appSecret"} # {}}
<1> SUFFICES ASSUME agent = Made(c)
             PROVE  /\ agent.worker <=> quiet = {}
                    /\ \A i, j \in quiet : i = j
                    /\ \A i \in quiet : \A k \in agent.said[i].about \cap {"appKey", "appSecret"} :
                          c.options[k] = "unset"
                    /\ c.env.production /\ c.options.enabled => \A i \in quiet : agent.said[i].level = "warn"
                    /\ c.options.otlp.on /\ c.options.enabled /\ ~exporterEnabled(agent.exporter)
                         => agent.exportWarnings > 0
  BY DEF StartInv, SilenceExplained, Before
<1>1. /\ agent.worker = (c.options.enabled /\ ~MissingKeys(c)) /\ agent.said = QuietLine(c) \o InteropLine(c)
      /\ agent.exporter = OtlpTraceExporter(c).settings /\ agent.exportWarnings = OtlpTraceExporter(c).warnings
  BY DEF Made
<1>2. quiet = QuietAt(QuietLine(c) \o InteropLine(c))
  BY <1>1 DEF QuietAt, Quieting
<1>3. c.options.otlp.on /\ c.options.enabled /\ ~exporterEnabled(agent.exporter) => agent.exportWarnings > 0
  BY <1>1, WarnsWithoutExport
<1> HIDE DEF c, quiet
<1>4. CASE c.options.enabled /\ ~MissingKeys(c)
  <2>1. quiet = {}
    BY <1>2, <1>4, QuietLineTold, InteropTold, NoneQuiet
  <2> QED BY <1>1, <1>3, <1>4, <2>1
<1>5. CASE ~(c.options.enabled /\ ~MissingKeys(c))
  <2>1. PICK l : /\ QuietLine(c) = <<l>> /\ Quieting(l)
                 /\ \A k \in l.about \cap {"appKey", "appSecret"} : c.options[k] = "unset"
                 /\ c.env.production /\ c.options.enabled => l.level = "warn"
    BY <1>5, QuietLineTold
  <2>2. quiet = {1} /\ agent.said[1] = l
    BY <1>1, <1>2, <2>1, InteropTold, OneQuiet
  <2> QED BY <1>1, <1>3, <1>5, <2>1, <2>2
<1> QED BY <1>4, <1>5

LEMMA StartTyped == ASSUME StartInv PROVE StartTypeOK
<1> DEFINE c == configuration
<1>1. CASE agent = Before
  BY <1>1 DEF StartTypeOK, Before
<1>2. CASE agent = Made(c)
  <2>1. OtlpTraceExporter(c).warnings \in 0..2
    <3>1. Unknown(c) \in 0..2
      <4>1. ASSUME NEW p, NEW q PROVE settingWarnings(p, q) \in 0..2
        <5> DEFINE a == IF p \in {"", "http/json", "http/protobuf"} THEN 0 ELSE 1
                   b == IF q \in {"", "none", "gzip"} THEN 0 ELSE 1
        <5>1. settingWarnings(p, q) = a + b
          BY DEF settingWarnings
        <5>2. a \in 0..1 /\ b \in 0..1
          OBVIOUS
        <5> HIDE DEF a, b
        <5> QED BY <5>1, <5>2
      <4> QED BY Zenon, <4>1 DEF Unknown
    <3>2. resolveOtlpSettings(c).warnings \in 0..2
      <4>1. CASE isHttp(tracesUrl(c.options.otlp, c.env))
        <5>1. resolveOtlpSettings(c) = [settings |-> Resolved(c), warnings |-> Unknown(c)]
          BY <4>1, ExportResolved
        <5> QED BY <3>1, <5>1
      <4>2. CASE ~isHttp(tracesUrl(c.options.otlp, c.env))
        <5>1. resolveOtlpSettings(c) = [settings |-> NoSettings, warnings |-> 1]
          BY <4>2, ExportResolved
        <5> QED BY <5>1
      <4> QED BY <4>1, <4>2
    <3> QED BY <3>2 DEF OtlpTraceExporter
  <2>2. Len(QuietLine(c) \o InteropLine(c)) <= 2
    <3>1. CASE c.options.enabled /\ ~MissingKeys(c)
      BY <3>1, QuietLineTold, InteropTold, NoneQuiet
    <3>2. CASE ~(c.options.enabled /\ ~MissingKeys(c))
      <4>1. PICK l : QuietLine(c) = <<l>> /\ Quieting(l)
        BY <3>2, QuietLineTold
      <4> QED BY <4>1, InteropTold, OneQuiet
    <3> QED BY <3>1, <3>2
  <2>3. agent.said = QuietLine(c) \o InteropLine(c) /\ agent.exportWarnings = OtlpTraceExporter(c).warnings
    BY <1>2 DEF Made
  <2> QED BY <2>1, <2>2, <2>3 DEF StartTypeOK
<1> QED BY <1>1, <1>2 DEF StartInv

LEMMA CodeWins == ASSUME StartInv PROVE CodeOverEnvironment
<1> DEFINE c == configuration
           o == c.options.otlp
           env == c.env
           s == agent.exporter
<1>0. agent.started => agent = Made(c)
  BY DEF StartInv, Before
<1> SUFFICES ASSUME agent = Made(c), exporterEnabled(s)
             PROVE  /\ o.endpoint # Unset => s.url.host = o.endpoint.host
                    /\ o.endpoint = Unset /\ env.TRACES_ENDPOINT # Unset => s.url = env.TRACES_ENDPOINT
                    /\ o.protocol # "unset" => s.protocol = o.protocol
                    /\ o.compression # "unset" => s.compression = o.compression
                    /\ o.timeoutMillis > 0 => s.timeoutMs = o.timeoutMillis
                    /\ \A k \in DOMAIN o.headers : s.headers[k] = o.headers[k]
                    /\ DOMAIN env.HEADERS \subseteq DOMAIN s.headers
                    /\ \A k \in DOMAIN env.TRACES_HEADERS \ DOMAIN o.headers :
                          s.headers[k] = env.TRACES_HEADERS[k]
                    /\ o.serviceName \notin {"unset", ""} => s.resource["service.name"] = o.serviceName
                    /\ "service.instance.id" \in DOMAIN s.resource
  BY Zenon, <1>0 DEF CodeOverEnvironment
<1>1. c \in Configurations /\ s = Resolved(c)
  <2>1. s = OtlpTraceExporter(c).settings
    BY DEF Made
  <2>2. exporterEnabled(OtlpTraceExporter(c).settings)
    BY <2>1
  <2> QED BY <2>1, <2>2, SettingsResolved DEF StartInv
<1>2. /\ s.url = tracesUrl(o, env) /\ s.resource = resourceOf(o, env, c.options.serviceId)
      /\ s.headers = over(over(env.HEADERS, env.TRACES_HEADERS), o.headers)
      /\ s.protocol = otlpProtocol(First(o.protocol, env.TRACES_PROTOCOL, env.PROTOCOL, ""))
      /\ s.compression = otlpCompression(First(o.compression, env.TRACES_COMPRESSION, env.COMPRESSION, ""))
      /\ s.timeoutMs = FirstPositive(o.timeoutMillis, env.TRACES_TIMEOUT, env.TIMEOUT, DEFAULT_TIMEOUT_MS)
  <2>1. /\ Resolved(c).url = tracesUrl(o, env) /\ Resolved(c).resource = resourceOf(o, env, c.options.serviceId)
        /\ Resolved(c).headers = over(over(env.HEADERS, env.TRACES_HEADERS), o.headers)
        /\ Resolved(c).protocol = otlpProtocol(First(o.protocol, env.TRACES_PROTOCOL, env.PROTOCOL, ""))
        /\ Resolved(c).compression
             = otlpCompression(First(o.compression, env.TRACES_COMPRESSION, env.COMPRESSION, ""))
        /\ Resolved(c).timeoutMs
             = FirstPositive(o.timeoutMillis, env.TRACES_TIMEOUT, env.TIMEOUT, DEFAULT_TIMEOUT_MS)
    BY DEF Resolved
  <2> HIDE DEF c, s
  <2> QED BY Zenon, <1>1, <2>1
<1> HIDE DEF s
<1>3. /\ o.protocol \in {"unset", "http/json", "http/protobuf"}
      /\ o.compression \in {"unset", "gzip", "none"}
  BY <1>1, StartAssumption
<1>4. /\ o.endpoint # Unset => s.url.host = o.endpoint.host
      /\ o.endpoint = Unset /\ env.TRACES_ENDPOINT # Unset => s.url = env.TRACES_ENDPOINT
  BY <1>1, <1>2, AddressResolved
<1>5. o.protocol # "unset" => s.protocol = o.protocol
  BY <1>2, <1>3 DEF First, otlpProtocol
<1>6. o.compression # "unset" => s.compression = o.compression
  BY <1>2, <1>3 DEF First, otlpCompression
<1>7. o.timeoutMillis > 0 => s.timeoutMs = o.timeoutMillis
  BY <1>2 DEF FirstPositive, positive
<1>8. /\ \A k \in DOMAIN o.headers : s.headers[k] = o.headers[k]
      /\ DOMAIN env.HEADERS \subseteq DOMAIN s.headers
      /\ \A k \in DOMAIN env.TRACES_HEADERS \ DOMAIN o.headers : s.headers[k] = env.TRACES_HEADERS[k]
  <2>1. s.headers = over(over(env.HEADERS, env.TRACES_HEADERS), o.headers)
    BY <1>2
  <2> HIDE DEF o, env, s
  <2>2. \A k \in DOMAIN o.headers : over(over(env.HEADERS, env.TRACES_HEADERS), o.headers)[k] = o.headers[k]
    BY LastOfThreeWins
  <2>3. DOMAIN env.HEADERS \subseteq DOMAIN over(over(env.HEADERS, env.TRACES_HEADERS), o.headers)
    BY LastOfThreeWins
  <2>4. \A k \in DOMAIN env.TRACES_HEADERS \ DOMAIN o.headers :
           over(over(env.HEADERS, env.TRACES_HEADERS), o.headers)[k] = env.TRACES_HEADERS[k]
    BY LastOfThreeWins
  <2> QED BY <2>1, <2>2, <2>3, <2>4
<1>9. /\ o.serviceName \notin {"unset", ""} => s.resource["service.name"] = o.serviceName
      /\ "service.instance.id" \in DOMAIN s.resource
  <2> DEFINE r == resourceOf(o, env, c.options.serviceId)
  <2>1. s.resource = r
    BY <1>2
  <2> HIDE DEF o, env, s, c
  <2>2. (o.serviceName \notin {"unset", ""} => r["service.name"] = o.serviceName) /\ "service.instance.id" \in DOMAIN r
    BY ResourceNamed
  <2> HIDE DEF r
  <2> QED BY <2>1, <2>2
<1> HIDE DEF c
<1> QED BY <1>4, <1>5, <1>6, <1>7, <1>8, <1>9

LEMMA IntervalIsOne == ASSUME StartInv PROVE OneFlushInterval
<1>1. configuration \in Configurations => flushIntervalOf(configuration).timer = flushIntervalOf(configuration).option
        /\ flushIntervalOf(configuration).timer >= MIN_FLUSH_INTERVAL
  BY StartAssumption DEF flushIntervalOf
<1>2. agent = Made(configuration) => agent.flushInterval = flushIntervalOf(configuration).timer
        /\ agent.workerInterval = flushIntervalOf(configuration).option
  BY DEF Made
<1> QED BY <1>1, <1>2 DEF StartInv, OneFlushInterval, Before

(* The agent starts as it is configured, and says so where it does not       *)
(* report or export (onModuleInit, resolveOtlpSettings).                     *)
THEOREM StartsRight == StartSpec => []StartsAsConfigured
<1>1. StartInit => StartInv
  BY DEF StartInit, StartInv
<1>2. StartInv => StartsAsConfigured
  BY StartTyped, ExportsBeside, SilenceIsExplained, CodeWins, IntervalIsOne DEF StartsAsConfigured
<1> QED BY <1>1, <1>2, StartMakes, PTL DEF StartSpec
=============================================================================
