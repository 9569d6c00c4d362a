------------------------ MODULE IngestReplies_proofs ------------------------
(***************************************************************************)
(* IngestReplies for any durations, modes and Retry-After values, and for  *)
(* any number of batches, crashes and clock ticks: what the two threads do *)
(* is what the collector last answered.                                    *)
(*                                                                         *)
(* The properties speak of moments when nothing is on its way between the  *)
(* threads, and so say nothing of the steps that lead there.  Inductive is *)
(* what they say of the messages in transit: the last of its kind tells    *)
(* the main thread what the worker knows, and if there is none, the main   *)
(* thread knows it already.  A crash voids this, for the messages the      *)
(* worker had yet to post; a restart is what makes up for it.              *)
(***************************************************************************)
EXTENDS IngestReplies, SequenceTheorems, TLAPS

\* The messages on their way, oldest first.
InTransit == channel \o outbox

\* No element of s is in S; the last one that is, is in T; each one that is,
\* has one of V behind it.
NoneIn(s, S)      == \A i \in 1..Len(s) : s[i] \notin S
LastIn(s, S, T)   == \A i \in 1..Len(s) :
                         s[i] \in S /\ (\A j \in (i + 1)..Len(s) : s[j] \notin S) => s[i] \in T
Followed(s, S, V) == \A i \in 1..Len(s) :
                         s[i] \in S => \E j \in (i + 1)..Len(s) : s[j] \in V

Pauses   == {m \in Messages : m.kind = "paused"}
AGrant   == {m \in Messages : m.kind = "otlpExport"}
Verdicts == {m \in Messages : m.kind = "degraded"}
Refusals == {m \in Messages : m.kind = "notIngested" /\ m.reason = "refused"}

\* What the main thread has to believe after the last decisive reply.
Believed == CASE decisive = "accepted" -> "ingesting"
              [] decisive = "refused"  -> "off"
              [] decisive = "none"     -> IF restarted THEN "off" ELSE "started"
Telling  == {m \in Verdicts : decisive = "accepted"} \cup {m \in Refusals : decisive = "refused"}

PauseTold ==
    /\ LastIn(InTransit, Pauses, {m \in Pauses : m.until = pausedUntil})
    /\ NoneIn(InTransit, Pauses) =>
           pausedUntil = sendsPausedUntil \/ (restarted /\ pausedUntil = 0)
ReportingTold ==
    /\ LastIn(InTransit, Verdicts \cup Refusals, Telling)
    /\ NoneIn(InTransit, Verdicts \cup Refusals) => reporting = Believed
GrantTold ==
    /\ LastIn(InTransit, AGrant, {m \in AGrant : m.grant = granted})
    /\ NoneIn(InTransit, AGrant) => otlpExport = granted \/ decisive # "accepted"
\* A cap set by a grant does not outlast the verdict behind it.
CapTold ==
    \/ ~NoneIn(InTransit, Verdicts)
    \/ reporting # "ingesting"
    \/ otlpExport # "capped"
    \/ degradedUntil = 0
    \/ degradedUntil >= otlpExportCappedUntil

InStep ==
    /\ PauseTold /\ ReportingTold /\ GrantTold
    /\ Followed(InTransit, AGrant, Verdicts) /\ CapTold

\* The inductive invariant.
RepliesInv ==
    /\ RepliesTypeOK /\ PauseBounded /\ BackoffDoubles
    /\ workerPc # "posting" => outbox = <<>>
    /\ otlpExportCappedUntil <= now + DEGRADED_TTL
    /\ workerPc # "dead" => InStep

-----------------------------------------------------------------------------
\* Handling the oldest message.
LEMMA OldestHandled ==
    ASSUME NEW M, NEW s \in Seq(M), s # <<>>, NEW S, NEW T
    PROVE  /\ LastIn(s, S, T) => LastIn(Tail(s), S, T)
           /\ Followed(s, S, T) => Followed(Tail(s), S, T)
           /\ Head(s) \notin S /\ NoneIn(Tail(s), S) => NoneIn(s, S)
           /\ Head(s) \in S /\ NoneIn(Tail(s), S) /\ LastIn(s, S, T) => Head(s) \in T
           /\ Head(s) \in S /\ Followed(s, S, T) => ~NoneIn(Tail(s), T)
           /\ Tail(s) \in Seq(M) /\ Head(s) \in M
<1>1. /\ Tail(s) \in Seq(M) /\ Len(Tail(s)) = Len(s) - 1 /\ Len(s) \in Nat /\ Len(s) > 0
      /\ \A i \in 1..(Len(s) - 1) : Tail(s)[i] = s[i + 1]
      /\ Head(s) = s[1] /\ Head(s) \in M
  OBVIOUS
<1>2. LastIn(s, S, T) => LastIn(Tail(s), S, T)
  <2> SUFFICES ASSUME LastIn(s, S, T), NEW i \in 1..(Len(s) - 1), s[i + 1] \in S,
                      \A j \in (i + 1)..(Len(s) - 1) : s[j + 1] \notin S
               PROVE  s[i + 1] \in T
    BY <1>1 DEF LastIn
  <2>1. \A j \in (i + 2)..Len(s) : s[j] \notin S
    <3> SUFFICES ASSUME NEW j \in (i + 2)..Len(s) PROVE s[j] \notin S
      OBVIOUS
    <3>1. j - 1 \in (i + 1)..(Len(s) - 1) /\ (j - 1) + 1 = j
      BY <1>1
    <3> QED BY <3>1
  <2> QED BY <1>1, <2>1 DEF LastIn
<1>3. Followed(s, S, T) => Followed(Tail(s), S, T)
  <2> SUFFICES ASSUME Followed(s, S, T), NEW i \in 1..(Len(s) - 1), s[i + 1] \in S
               PROVE  \E j \in (i + 1)..(Len(s) - 1) : Tail(s)[j] \in T
    BY <1>1 DEF Followed
  <2>1. PICK j \in (i + 2)..Len(s) : s[j] \in T
    BY <1>1 DEF Followed
  <2>2. j - 1 \in (i + 1)..(Len(s) - 1) /\ Tail(s)[j - 1] = s[j]
    BY <1>1
  <2> QED BY <2>1, <2>2
<1>4. NoneIn(Tail(s), S) => \A i \in 2..Len(s) : s[i] \notin S
  <2> SUFFICES ASSUME NoneIn(Tail(s), S), NEW i \in 2..Len(s) PROVE s[i] \notin S
    OBVIOUS
  <2>1. i - 1 \in 1..(Len(s) - 1) /\ Tail(s)[i - 1] = s[i]
    BY <1>1
  <2> QED BY <1>1, <2>1 DEF NoneIn
<1>5. Head(s) \notin S /\ NoneIn(Tail(s), S) => NoneIn(s, S)
  BY <1>1, <1>4 DEF NoneIn
<1>6. Head(s) \in S /\ NoneIn(Tail(s), S) /\ LastIn(s, S, T) => Head(s) \in T
  BY <1>1, <1>4 DEF LastIn
<1>7. Head(s) \in S /\ Followed(s, S, T) => ~NoneIn(Tail(s), T)
  <2> SUFFICES ASSUME Head(s) \in S, Followed(s, S, T) PROVE ~NoneIn(Tail(s), T)
    OBVIOUS
  <2>1. PICK j \in 2..Len(s) : s[j] \in T
    BY <1>1 DEF Followed
  <2>2. j - 1 \in 1..(Len(s) - 1) /\ Tail(s)[j - 1] = s[j]
    BY <1>1
  <2> QED BY <1>1, <2>1, <2>2 DEF NoneIn
<1> QED BY <1>1, <1>2, <1>3, <1>5, <1>6, <1>7

\* Sending more messages behind those in transit.
LEMMA MoreSent ==
    ASSUME NEW M, NEW s \in Seq(M), NEW m \in Seq(M), NEW S, NEW T
    PROVE  /\ NoneIn(s \o m, S) => NoneIn(s, S) /\ NoneIn(m, S)
           /\ NoneIn(m, S) /\ LastIn(s, S, T) => LastIn(s \o m, S, T)
           /\ ~NoneIn(m, S) /\ LastIn(m, S, T) => LastIn(s \o m, S, T)
           /\ Followed(s, S, T) /\ Followed(m, S, T) => Followed(s \o m, S, T)
<1> DEFINE c == s \o m
<1>1. /\ c \in Seq(M) /\ Len(c) = Len(s) + Len(m) /\ Len(s) \in Nat /\ Len(m) \in Nat
      /\ \A i \in 1..Len(s) : c[i] = s[i]
      /\ \A i \in 1..Len(m) : c[Len(s) + i] = m[i]
  BY ConcatProperties
<1> HIDE DEF c
<1>2. ASSUME NEW i \in 1..Len(c), i \notin 1..Len(s)
      PROVE  i - Len(s) \in 1..Len(m) /\ c[i] = m[i - Len(s)]
  <2>1. i - Len(s) \in 1..Len(m) /\ Len(s) + (i - Len(s)) = i
    BY <1>1, <1>2
  <2> QED BY <1>1, <2>1
<1>3. NoneIn(c, S) => NoneIn(s, S) /\ NoneIn(m, S)
  BY <1>1 DEF NoneIn
<1>4. ASSUME NoneIn(m, S), LastIn(s, S, T) PROVE LastIn(c, S, T)
  <2> SUFFICES ASSUME NEW i \in 1..Len(c), c[i] \in S,
                      \A j \in (i + 1)..Len(c) : c[j] \notin S
               PROVE  c[i] \in T
    BY DEF LastIn
  <2>1. i \in 1..Len(s)
    BY <1>2, <1>4 DEF NoneIn
  <2>2. \A j \in (i + 1)..Len(s) : s[j] \notin S
    BY <1>1, <2>1
  <2> QED BY <1>1, <1>4, <2>1, <2>2 DEF LastIn
<1>5. ASSUME ~NoneIn(m, S), LastIn(m, S, T) PROVE LastIn(c, S, T)
  <2> SUFFICES ASSUME NEW i \in 1..Len(c), c[i] \in S,
                      \A j \in (i + 1)..Len(c) : c[j] \notin S
               PROVE  c[i] \in T
    BY DEF LastIn
  <2>1. PICK k \in 1..Len(m) : m[k] \in S
    BY <1>5 DEF NoneIn
  <2>2. Len(s) + k \in 1..Len(c) /\ c[Len(s) + k] \in S
    BY <1>1, <2>1
  <2>3. i \notin 1..Len(s)
    BY <1>1, <2>2
  <2>4. i - Len(s) \in 1..Len(m) /\ c[i] = m[i - Len(s)]
    BY <1>2, <2>3
  <2>5. \A j \in (i - Len(s) + 1)..Len(m) : m[j] \notin S
    <3> SUFFICES ASSUME NEW j \in (i - Len(s) + 1)..Len(m) PROVE m[j] \notin S
      OBVIOUS
    <3>1. Len(s) + j \in (i + 1)..Len(c) /\ c[Len(s) + j] = m[j]
      BY <1>1, <2>4
    <3> QED BY <3>1
  <2> QED BY <1>5, <2>4, <2>5 DEF LastIn
<1>6. ASSUME Followed(s, S, T), Followed(m, S, T) PROVE Followed(c, S, T)
  <2> SUFFICES ASSUME NEW i \in 1..Len(c), c[i] \in S
               PROVE  \E j \in (i + 1)..Len(c) : c[j] \in T
    BY DEF Followed
  <2>1. CASE i \in 1..Len(s)
    <3>1. PICK j \in (i + 1)..Len(s) : s[j] \in T
      BY <1>1, <1>6, <2>1 DEF Followed
    <3> QED BY <1>1, <2>1, <3>1
  <2>2. CASE i \notin 1..Len(s)
    <3>1. i - Len(s) \in 1..Len(m) /\ c[i] = m[i - Len(s)]
      BY <1>2, <2>2
    <3>2. PICK j \in (i - Len(s) + 1)..Len(m) : m[j] \in T
      BY <1>6, <3>1 DEF Followed
    <3>3. Len(s) + j \in (i + 1)..Len(c) /\ c[Len(s) + j] = m[j]
      BY <1>1, <3>1
    <3> QED BY <3>2, <3>3
  <2> QED BY <2>1, <2>2
<1> QED BY <1>3, <1>4, <1>5, <1>6 DEF c

\* What one or two messages say.
LEMMA FewSent ==
    ASSUME NEW a, NEW b, NEW S, NEW T
    PROVE  /\ NoneIn(<< >>, S) /\ Followed(<< >>, S, T) /\ LastIn(<< >>, S, T)
           /\ NoneIn(<<a>>, S) <=> a \notin S
           /\ NoneIn(<<a, b>>, S) <=> a \notin S /\ b \notin S
           /\ LastIn(<<a>>, S, T) <=> (a \in S => a \in T)
           /\ LastIn(<<a, b>>, S, T) <=> (b \in S => b \in T) /\ (a \in S /\ b \notin S => a \in T)
           /\ a \notin S => Followed(<<a>>, S, T)
           /\ b \notin S /\ (a \in S => b \in T) => Followed(<<a, b>>, S, T)
  BY DEF NoneIn, LastIn, Followed

\* Each message has a kind, and with it what the handler of that kind reads.
LEMMA MessageKinds ==
    /\ \A m \in Messages :
           /\ m.kind \in {"paused", "notIngested", "otlpExport", "degraded"}
           /\ m.kind = "paused" => m.until \in Nat
           /\ m.kind = "notIngested" => m.reason \in {"refused", "failed"}
           /\ m.kind = "otlpExport" => m.grant \in Grants
           /\ m.kind = "degraded" => m.mode \in IngestModes
    /\ \A u \in Nat : pausedMessage(u) \in Pauses /\ pausedMessage(u).until = u
    /\ notIngestedMessage("refused") \in Refusals
    /\ notIngestedMessage("failed") \in Messages
    /\ notIngestedMessage("failed").kind = "notIngested"
    /\ notIngestedMessage("failed") \notin Refusals
    /\ \A g \in Grants : otlpExportMessage(g) \in AGrant /\ otlpExportMessage(g).grant = g
    /\ \A d \in IngestModes : degradedMessage(d) \in Verdicts
  BY DEF Messages, pausedMessage, notIngestedMessage, otlpExportMessage, degradedMessage,
         Pauses, AGrant, Verdicts, Refusals

-----------------------------------------------------------------------------
\* The part of the invariant that speaks of no message's order.
LEMMA BoundsKept ==
    RepliesInv /\ [RepliesNext]_replyVars =>
        /\ RepliesTypeOK' /\ PauseBounded' /\ BackoffDoubles'
        /\ (workerPc # "posting" => outbox = <<>>)'
        /\ (otlpExportCappedUntil <= now + DEGRADED_TTL)'
<1> DEFINE Kept == /\ RepliesTypeOK /\ PauseBounded /\ BackoffDoubles
                   /\ workerPc # "posting" => outbox = <<>>
                   /\ otlpExportCappedUntil <= now + DEGRADED_TTL
<1> SUFFICES ASSUME RepliesInv, [RepliesNext]_replyVars PROVE Kept'
  OBVIOUS
<1> USE DurationsAssumption DEF workerVars, otlpVars, modeVars, mainVars, replyHistory, bounds
<1>1. Kept
  BY DEF RepliesInv
<1>2. CASE tick
  BY <1>1, <1>2 DEF RepliesTypeOK, PauseBounded, BackoffDoubles, tick
<1>3. CASE sendInstrumentationJsonData
  BY <1>1, <1>3 DEF RepliesTypeOK, PauseBounded, BackoffDoubles, sendInstrumentationJsonData
<1>4. CASE replyRefused
  <2>1. PICK retryAfter \in RetryAfters :
            /\ authBackoffMs' = IF authBackoffMs = 0 THEN Lesser(AUTH_BACKOFF_BASE, PAUSE_MAX)
                                ELSE Lesser(authBackoffMs * 2, PAUSE_MAX)
            /\ pausedUntil' = now + retryAfterMs(retryAfter, authBackoffMs')
            /\ Replies("sent", <<pausedMessage(pausedUntil'), notIngestedMessage("refused")>>)
            /\ decisive' = "refused"
            /\ doubled' = IF doubled = 0 THEN AUTH_BACKOFF_BASE ELSE 2 * doubled
            /\ UNCHANGED <<granted>>
    BY <1>4 DEF replyRefused
  <2>2. authBackoffMs' \in 0..PAUSE_MAX
    BY <1>1, <2>1 DEF RepliesTypeOK, Lesser
  <2>3. BackoffDoubles' /\ doubled' \in Nat
    BY <1>1, <2>1 DEF RepliesTypeOK, BackoffDoubles, Lesser
  <2>4. pausedUntil' \in Nat /\ pausedUntil' <= now + PAUSE_MAX
    BY <1>1, <2>1, <2>2 DEF RepliesTypeOK, retryAfterMs, Lesser
  <2>5. outbox' \in Seq(Messages)
    <3>1. pausedMessage(pausedUntil') \in Messages /\ notIngestedMessage("refused") \in Messages
      BY <2>4, MessageKinds DEF Pauses, Refusals
    <3> QED BY <2>1, <3>1 DEF Replies
  <2> QED BY <1>1, <2>1, <2>2, <2>3, <2>4, <2>5 DEF RepliesTypeOK, PauseBounded, Replies
<1>5. CASE replyRateLimited
  <2>1. PICK retryAfter \in RetryAfters :
            /\ pausedUntil' = now + retryAfterMs(retryAfter, RATE_LIMIT_PAUSE)
            /\ Replies("sent", <<pausedMessage(pausedUntil'), notIngestedMessage("failed")>>)
            /\ UNCHANGED <<authBackoffMs, decisive, doubled, granted>>
    BY <1>5 DEF replyRateLimited
  <2>2. pausedUntil' \in Nat /\ pausedUntil' <= now + PAUSE_MAX
    BY <1>1, <2>1 DEF RepliesTypeOK, retryAfterMs, Lesser
  <2>3. outbox' \in Seq(Messages)
    <3>1. pausedMessage(pausedUntil') \in Messages /\ notIngestedMessage("failed") \in Messages
      BY <2>2, MessageKinds DEF Pauses
    <3> QED BY <2>1, <3>1 DEF Replies
  <2> QED BY <1>1, <2>1, <2>2, <2>3 DEF RepliesTypeOK, PauseBounded, BackoffDoubles, Replies
<1>6. CASE replyFailed \/ repairedFailed
  <2>1. <<notIngestedMessage("failed")>> \in Seq(Messages)
    BY MessageKinds
  <2> QED BY <1>1, <1>6, <2>1
          DEF RepliesTypeOK, PauseBounded, BackoffDoubles, Replies, replyFailed, repairedFailed
<1>7. CASE replyAccepted
  <2>1. PICK mode \in IngestModes, grant \in Grants :
            /\ Replies("sent", <<otlpExportMessage(grant), degradedMessage(mode)>>)
            /\ authBackoffMs' = 0 /\ decisive' = "accepted" /\ doubled' = 0 /\ granted' = grant
            /\ UNCHANGED pausedUntil
    BY <1>7 DEF replyAccepted
  <2>2. otlpExportMessage(grant) \in Messages /\ degradedMessage(mode) \in Messages
    BY MessageKinds DEF AGrant, Verdicts
  <2> QED BY <1>1, <2>1, <2>2 DEF RepliesTypeOK, PauseBounded, BackoffDoubles, Replies, Lesser
<1>8. CASE repairAndResend
  BY <1>1, <1>8 DEF RepliesTypeOK, PauseBounded, BackoffDoubles, repairAndResend
<1>9. CASE repairedAccepted
  BY <1>1, <1>9 DEF RepliesTypeOK, PauseBounded, BackoffDoubles, Replies, repairedAccepted
<1>10. CASE postMessage
  <2>1. Tail(outbox) \in Seq(Messages) /\ Append(channel, Head(outbox)) \in Seq(Messages)
    BY <1>1, <1>10 DEF RepliesTypeOK, postMessage
  <2> QED BY <1>1, <1>10, <2>1 DEF RepliesTypeOK, PauseBounded, BackoffDoubles, postMessage
<1>11. CASE clearBuffer
  BY <1>1, <1>11 DEF RepliesTypeOK, PauseBounded, BackoffDoubles, clearBuffer
<1>12. CASE workerCrash
  BY <1>1, <1>12 DEF RepliesTypeOK, PauseBounded, BackoffDoubles, workerCrash
<1>13. CASE handleMessage
  <2>1. /\ channel # <<>> /\ channel' = Tail(channel) /\ Head(channel) \in Messages
        /\ UNCHANGED <<now, workerVars, bounds, replyHistory>>
    BY <1>1, <1>13, SMTT(60) DEF RepliesTypeOK, handleMessage, handlePaused, handleNotIngested,
                       handleOtlpExport, handleDegraded, Handles
  <2>2. channel' \in Seq(Messages)
    BY <1>1, <2>1 DEF RepliesTypeOK
  <2>3. /\ sendsPausedUntil' \in Nat /\ reporting' \in {"off", "started", "ingesting"}
        /\ otlpExport' \in Grants /\ otlpExportCappedUntil' \in Nat
        /\ otlpExportCappedUntil' <= now + DEGRADED_TTL
        /\ degradedUntil' \in Nat /\ errorsOnly' \in BOOLEAN
    <3>1. CASE handlePaused
      BY <1>1, <2>1, <3>1, MessageKinds DEF RepliesTypeOK, handlePaused, Handles
    <3>2. CASE handleNotIngested
      BY <1>1, <2>1, <3>2, MessageKinds DEF RepliesTypeOK, handleNotIngested, Handles
    <3>3. CASE handleOtlpExport
      BY <1>1, <2>1, <3>3, MessageKinds DEF RepliesTypeOK, handleOtlpExport, Handles
    <3>4. CASE handleDegraded
      BY <1>1, <2>1, <3>4, MessageKinds DEF RepliesTypeOK, handleDegraded, Handles
    <3> QED BY <1>13, <3>1, <3>2, <3>3, <3>4 DEF handleMessage
  <2> QED BY <1>1, <2>1, <2>2, <2>3 DEF RepliesTypeOK, PauseBounded, BackoffDoubles
<1>14. CASE initializeWorker
  BY <1>1, <1>14 DEF RepliesTypeOK, PauseBounded, BackoffDoubles, Lesser, initializeWorker
<1>15. CASE UNCHANGED replyVars
  BY <1>1, <1>15 DEF RepliesTypeOK, PauseBounded, BackoffDoubles, replyVars
<1> QED
  BY <1>2, <1>3, <1>4, <1>5, <1>6, <1>7, <1>8, <1>9, <1>10, <1>11, <1>12, <1>13, <1>14, <1>15
  DEF RepliesNext, WorkerStep

-----------------------------------------------------------------------------
\* The kinds a handler tells apart are different messages.
LEMMA KindsDiffer ==
    /\ Pauses \cap AGrant = {} /\ Pauses \cap Verdicts = {} /\ Pauses \cap Refusals = {}
    /\ AGrant \cap Verdicts = {} /\ AGrant \cap Refusals = {} /\ Verdicts \cap Refusals = {}
    /\ Pauses \cup AGrant \cup Verdicts \cup Refusals \subseteq Messages
  BY DEF Pauses, AGrant, Verdicts, Refusals

\* A reply's messages queue up behind those in transit, and tell the main
\* thread what the reply made the worker know.
LEMMA RepliesTell ==
    ASSUME RepliesInv, workerPc \notin {"posting", "dead"}, NEW m \in Seq(Messages),
           outbox' = m, UNCHANGED <<channel, mainVars, restarted>>,
           \* a pause is told, or there is none new
           \/ ~NoneIn(m, Pauses) /\ LastIn(m, Pauses, {x \in Pauses : x.until = pausedUntil'})
           \/ NoneIn(m, Pauses) /\ pausedUntil' = pausedUntil,
           \* and so are a verdict on the credentials and a grant
           \/ /\ ~NoneIn(m, Verdicts \cup Refusals)
              /\ LastIn(m, Verdicts \cup Refusals, Telling')
           \/ NoneIn(m, Verdicts \cup Refusals) /\ decisive' = decisive,
           \/ ~NoneIn(m, AGrant) /\ LastIn(m, AGrant, {x \in AGrant : x.grant = granted'})
           \/ NoneIn(m, AGrant) /\ granted' = granted /\ decisive' # "accepted"
           \/ NoneIn(m, AGrant) /\ granted' = granted /\ decisive' = decisive,
           Followed(m, AGrant, Verdicts)
    PROVE  InStep'
<1>1. /\ InTransit \in Seq(Messages) /\ InTransit' = InTransit \o m
      /\ InStep
  BY ConcatEmptySeq DEF RepliesInv, RepliesTypeOK, InTransit
<1>2. PauseTold'
  <2>1. LastIn(InTransit \o m, Pauses, {x \in Pauses : x.until = pausedUntil'})
    BY <1>1, MoreSent DEF InStep, PauseTold
  <2>2. ASSUME NoneIn(InTransit \o m, Pauses)
        PROVE  NoneIn(InTransit, Pauses) /\ NoneIn(m, Pauses)
    BY <1>1, <2>2, MoreSent
  <2> QED BY <1>1, <2>1, <2>2 DEF InStep, PauseTold, mainVars
<1>3. ReportingTold'
  <2> DEFINE V == Verdicts \cup Refusals
  <2>1. decisive' = decisive => Telling' = Telling /\ Believed' = Believed
    BY DEF Telling, Believed
  <2>2. LastIn(InTransit \o m, V, Telling')
    BY <1>1, <2>1, MoreSent DEF InStep, ReportingTold
  <2>3. ASSUME NoneIn(InTransit \o m, V)
        PROVE  NoneIn(InTransit, V) /\ NoneIn(m, V)
    BY <1>1, <2>3, MoreSent
  <2> QED BY <1>1, <2>1, <2>2, <2>3 DEF InStep, ReportingTold, mainVars
<1>4. GrantTold'
  <2>1. LastIn(InTransit \o m, AGrant, {x \in AGrant : x.grant = granted'})
    BY <1>1, MoreSent DEF InStep, GrantTold
  <2>2. ASSUME NoneIn(InTransit \o m, AGrant)
        PROVE  NoneIn(InTransit, AGrant) /\ NoneIn(m, AGrant)
    BY <1>1, <2>2, MoreSent
  <2> QED BY <1>1, <2>1, <2>2 DEF InStep, GrantTold, mainVars, otlpVars
<1>5. Followed(InTransit, AGrant, Verdicts)'
  BY <1>1, MoreSent DEF InStep
<1>6. CapTold'
  <2>1. NoneIn(InTransit \o m, Verdicts) => NoneIn(InTransit, Verdicts)
    BY <1>1, MoreSent
  <2> QED BY <1>1, <2>1 DEF InStep, CapTold, mainVars, otlpVars, modeVars
<1> QED BY <1>2, <1>3, <1>4, <1>5, <1>6 DEF InStep

\* Posting a message moves it, and changes nothing of what is on its way.
LEMMA PostingKeeps ==
    ASSUME RepliesInv, postMessage
    PROVE  InTransit' = InTransit
<1> DEFINE x == Append(channel, Head(outbox)) \o Tail(outbox)
           y == channel \o outbox
<1>1. channel \in Seq(Messages) /\ outbox \in Seq(Messages) /\ outbox # <<>>
  BY DEF RepliesInv, RepliesTypeOK, postMessage
<1>2. /\ x \in Seq(Messages) /\ y \in Seq(Messages) /\ Len(x) = Len(y)
      /\ \A i \in 1..Len(x) : x[i] = y[i]
  BY <1>1
<1>3. x = y
  BY <1>2, SeqEqual
<1> QED BY <1>3 DEF InTransit, postMessage

\* What a state says of its messages depends on nothing else.
LEMMA InStepUnmoved ==
    ASSUME InStep, InTransit' = InTransit,
           UNCHANGED <<pausedUntil, mainVars, restarted, decisive, granted>>
    PROVE  InStep'
  BY DEF InStep, PauseTold, ReportingTold, GrantTold, CapTold, Believed, Telling,
         mainVars, otlpVars, modeVars

\* The main thread handles the oldest of the messages in transit.
LEMMA HandlingKeeps ==
    ASSUME RepliesInv, workerPc # "dead", handleMessage
    PROVE  InStep'
<1> DEFINE s == InTransit
           h == Head(channel)
<1>1. /\ channel \in Seq(Messages) /\ outbox \in Seq(Messages) /\ channel # <<>> /\ InStep
      /\ UNCHANGED <<now, workerVars, bounds, replyHistory>> /\ channel' = Tail(channel)
  BY DEF RepliesInv, RepliesTypeOK, handleMessage, handlePaused, handleNotIngested,
         handleOtlpExport, handleDegraded, Handles
<1>2. s \in Seq(Messages) /\ s # <<>> /\ Head(s) = h /\ InTransit' = Tail(s) /\ h \in Messages
  <2>1. s \in Seq(Messages) /\ s # <<>> /\ Head(s) = h /\ h \in Messages
    BY <1>1 DEF InTransit
  <2> DEFINE t == Tail(channel) \o outbox
  <2>2. /\ t \in Seq(Messages) /\ Tail(s) \in Seq(Messages) /\ Len(t) = Len(Tail(s))
        /\ \A i \in 1..Len(t) : t[i] = Tail(s)[i]
    BY <1>1 DEF InTransit
  <2>3. t = Tail(s)
    BY <2>2, SeqEqual
  <2> QED BY <1>1, <2>1, <2>3 DEF InTransit, workerVars
<1> HIDE DEF s, h
<1> USE DEF workerVars, replyHistory, bounds, otlpVars, modeVars
<1>3. PauseTold'
  <2>1. LastIn(Tail(s), Pauses, {m \in Pauses : m.until = pausedUntil})
    BY <1>1, <1>2, OldestHandled DEF InStep, PauseTold, s
  <2>2. ASSUME NoneIn(Tail(s), Pauses)
        PROVE  pausedUntil = sendsPausedUntil' \/ (restarted /\ pausedUntil = 0)
    <3>1. CASE h \in Pauses
      <4>1. h \in {m \in Pauses : m.until = pausedUntil}
        BY <1>1, <1>2, <2>2, <3>1, OldestHandled DEF InStep, PauseTold, s
      <4>2. handlePaused
        BY <3>1 DEF Pauses, h, handleMessage, handleNotIngested, handleOtlpExport,
                    handleDegraded, Handles
      <4> QED BY <4>1, <4>2 DEF handlePaused, h
    <3>2. CASE h \notin Pauses
      <4>1. NoneIn(s, Pauses)
        BY <1>2, <2>2, <3>2, OldestHandled
      <4>2. sendsPausedUntil' = sendsPausedUntil
        BY <1>2, <3>2 DEF Pauses, h, handleMessage, handlePaused, handleNotIngested,
                          handleOtlpExport, handleDegraded, Handles
      <4> QED BY <1>1, <4>1, <4>2 DEF InStep, PauseTold, s
    <3> QED BY <3>1, <3>2
  <2> QED BY <1>1, <1>2, <2>1, <2>2 DEF PauseTold
<1>4. ReportingTold'
  <2> DEFINE V == Verdicts \cup Refusals
  <2>1. LastIn(Tail(s), V, Telling)
    BY <1>1, <1>2, OldestHandled DEF InStep, ReportingTold, s
  <2>2. ASSUME NoneIn(Tail(s), V) PROVE reporting' = Believed
    <3>1. CASE h \in V
      <4>1. h \in Telling
        BY <1>1, <1>2, <2>2, <3>1, OldestHandled DEF InStep, ReportingTold, s
      <4>2. CASE h \in Verdicts
        <5>1. decisive = "accepted"
          BY <4>1, <4>2, KindsDiffer DEF Telling
        <5>2. handleDegraded
          BY <4>2 DEF Verdicts, h, handleMessage, handlePaused, handleNotIngested,
                      handleOtlpExport, Handles
        <5> QED BY <5>1, <5>2 DEF Believed, handleDegraded
      <4>3. CASE h \in Refusals
        <5>1. decisive = "refused"
          BY <4>1, <4>3, KindsDiffer DEF Telling
        <5>2. handleNotIngested /\ h.reason = "refused"
          BY <4>3 DEF Refusals, h, handleMessage, handlePaused, handleOtlpExport,
                      handleDegraded, Handles
        <5> QED BY <5>1, <5>2 DEF Believed, handleNotIngested, h
      <4> QED BY <3>1, <4>2, <4>3
    <3>2. CASE h \notin V
      <4>1. NoneIn(s, V)
        BY <1>2, <2>2, <3>2, OldestHandled
      <4>2. reporting' = reporting
        BY <1>2, <3>2 DEF Verdicts, Refusals, h, handleMessage, handlePaused, handleNotIngested,
                          handleOtlpExport, handleDegraded, Handles
      <4> QED BY <1>1, <4>1, <4>2 DEF InStep, ReportingTold, s
    <3> QED BY <3>1, <3>2
  <2>3. Telling' = Telling /\ Believed' = Believed
    BY <1>1 DEF Telling, Believed
  <2> QED BY <1>2, <2>1, <2>2, <2>3 DEF ReportingTold
<1>5. GrantTold'
  <2>1. LastIn(Tail(s), AGrant, {m \in AGrant : m.grant = granted})
    BY <1>1, <1>2, OldestHandled DEF InStep, GrantTold, s
  <2>2. ASSUME NoneIn(Tail(s), AGrant) PROVE otlpExport' = granted \/ decisive # "accepted"
    <3>1. CASE h \in AGrant
      <4>1. h \in {m \in AGrant : m.grant = granted}
        BY <1>1, <1>2, <2>2, <3>1, OldestHandled DEF InStep, GrantTold, s
      <4>2. handleOtlpExport
        BY <3>1 DEF AGrant, h, handleMessage, handlePaused, handleNotIngested,
                    handleDegraded, Handles
      <4> QED BY <4>1, <4>2 DEF handleOtlpExport, h
    <3>2. CASE h \notin AGrant
      <4>1. NoneIn(s, AGrant)
        BY <1>2, <2>2, <3>2, OldestHandled
      <4>2. otlpExport' = otlpExport
        BY <1>2, <3>2 DEF AGrant, h, handleMessage, handlePaused, handleNotIngested,
                          handleOtlpExport, handleDegraded, Handles
      <4> QED BY <1>1, <4>1, <4>2 DEF InStep, GrantTold, s
    <3> QED BY <3>1, <3>2
  <2> QED BY <1>1, <1>2, <2>1, <2>2 DEF GrantTold
<1>6. Followed(InTransit, AGrant, Verdicts)'
  BY <1>1, <1>2, OldestHandled DEF InStep, s
<1>7. CapTold'
  <2>1. CASE handleOtlpExport
    <3>1. h \in AGrant
      BY <1>2, <2>1 DEF AGrant, handleOtlpExport, Handles, h
    <3>2. ~NoneIn(Tail(s), Verdicts)
      BY <1>1, <1>2, <3>1, OldestHandled DEF InStep, s
    <3> QED BY <1>2, <3>2 DEF CapTold
  <2>2. CASE handleDegraded
    BY <1>1, <2>2, DurationsAssumption DEF RepliesInv, RepliesTypeOK, CapTold, handleDegraded
  <2>3. CASE handlePaused \/ handleNotIngested
    <3>1. h \notin Verdicts
      BY <1>2, <2>3 DEF Verdicts, handlePaused, handleNotIngested, Handles, h
    <3>2. NoneIn(Tail(s), Verdicts) => NoneIn(s, Verdicts)
      BY <1>2, <3>1, OldestHandled
    <3> QED BY <1>1, <1>2, <2>3, <3>2 DEF InStep, CapTold, handlePaused, handleNotIngested, s
  <2> QED BY <2>1, <2>2, <2>3 DEF handleMessage
<1> QED BY <1>3, <1>4, <1>5, <1>6, <1>7 DEF InStep

\* The order of the messages, kept by every step.
LEMMA TellingKept ==
    RepliesInv /\ [RepliesNext]_replyVars => (workerPc # "dead" => InStep)'
<1> SUFFICES ASSUME RepliesInv, [RepliesNext]_replyVars, workerPc' # "dead" PROVE InStep'
  OBVIOUS
<1> USE DEF workerVars, replyHistory, bounds
<1>1. ASSUME UNCHANGED <<outbox, channel, pausedUntil, mainVars, replyHistory>>, workerPc # "dead"
      PROVE  InStep'
  BY <1>1, InStepUnmoved DEF RepliesInv, InTransit
<1>2. CASE tick \/ sendInstrumentationJsonData \/ repairAndResend \/ clearBuffer \/ UNCHANGED replyVars
  BY <1>1, <1>2 DEF tick, sendInstrumentationJsonData, repairAndResend, clearBuffer, replyVars
<1>3. CASE replyRefused
  <2> DEFINE p == pausedMessage(pausedUntil')
             r == notIngestedMessage("refused")
  <2>1. /\ workerPc = "sent" /\ outbox' = <<p, r>> /\ decisive' = "refused"
        /\ UNCHANGED <<channel, mainVars, restarted, granted>>
    BY <1>3 DEF replyRefused, Replies
  <2>2. p \in Pauses /\ p.until = pausedUntil' /\ r \in Refusals
    BY <1>3, BoundsKept, MessageKinds DEF RepliesTypeOK
  <2>3. <<p, r>> \in Seq(Messages) /\ p \notin AGrant /\ r \notin AGrant /\ r \notin Pauses
    BY <2>2, KindsDiffer
  <2>4. r \in Telling'
    BY <2>1, <2>2 DEF Telling
  <2> HIDE DEF p, r
  <2>5. ~NoneIn(<<p, r>>, Pauses) /\ LastIn(<<p, r>>, Pauses, {x \in Pauses : x.until = pausedUntil'})
    BY <2>2, <2>3, FewSent
  <2>6. /\ ~NoneIn(<<p, r>>, Verdicts \cup Refusals)
        /\ LastIn(<<p, r>>, Verdicts \cup Refusals, Telling')
    BY <2>2, <2>4, FewSent
  <2>7. NoneIn(<<p, r>>, AGrant) /\ Followed(<<p, r>>, AGrant, Verdicts)
    BY <2>3, FewSent
  <2> QED BY <2>1, <2>3, <2>5, <2>6, <2>7, RepliesTell
<1>4. CASE replyRateLimited
  <2> DEFINE p == pausedMessage(pausedUntil')
             f == notIngestedMessage("failed")
  <2>1. /\ workerPc = "sent" /\ outbox' = <<p, f>>
        /\ UNCHANGED <<channel, mainVars, restarted, decisive, granted>>
    BY <1>4 DEF replyRateLimited, Replies
  <2>2. p \in Pauses /\ p.until = pausedUntil'
    BY <1>4, BoundsKept, MessageKinds DEF RepliesTypeOK
  <2>3. f \in Messages /\ f \notin Pauses \cup AGrant \cup Verdicts \cup Refusals
    BY MessageKinds DEF Pauses, AGrant, Verdicts
  <2>4. <<p, f>> \in Seq(Messages) /\ p \notin AGrant \cup Verdicts \cup Refusals
    BY <2>2, <2>3, KindsDiffer
  <2> HIDE DEF p, f
  <2>5. ~NoneIn(<<p, f>>, Pauses) /\ LastIn(<<p, f>>, Pauses, {x \in Pauses : x.until = pausedUntil'})
    BY <2>2, <2>3, FewSent
  <2>6. NoneIn(<<p, f>>, Verdicts \cup Refusals)
    BY <2>3, <2>4, FewSent, ZenonT(60)
  <2>7. NoneIn(<<p, f>>, AGrant) /\ Followed(<<p, f>>, AGrant, Verdicts)
    BY <2>3, <2>4, FewSent
  <2> QED BY <2>1, <2>4, <2>5, <2>6, <2>7, RepliesTell
<1>5. CASE replyFailed \/ repairedFailed
  <2> DEFINE f == notIngestedMessage("failed")
  <2>1. /\ workerPc \in {"sent", "repaired"} /\ outbox' = <<f>>
        /\ UNCHANGED <<channel, mainVars, restarted, pausedUntil, decisive, granted>>
    BY <1>5 DEF replyFailed, repairedFailed, Replies
  <2>2. f \in Messages /\ f \notin Pauses \cup AGrant \cup Verdicts \cup Refusals
    BY MessageKinds DEF Pauses, AGrant, Verdicts
  <2> HIDE DEF f
  <2>3. /\ NoneIn(<<f>>, Pauses) /\ NoneIn(<<f>>, AGrant) /\ Followed(<<f>>, AGrant, Verdicts)
        /\ NoneIn(<<f>>, Verdicts \cup Refusals)
    BY <2>2, FewSent
  <2>4. <<f>> \in Seq(Messages)
    BY <2>2
  <2> QED BY <2>1, <2>3, <2>4, RepliesTell
<1>6. CASE replyAccepted
  <2>1. PICK g \in AGrant, d \in Verdicts :
            /\ Replies("sent", <<g, d>>) /\ g.grant = granted'
            /\ decisive' = "accepted" /\ UNCHANGED pausedUntil
    BY <1>6, MessageKinds DEF replyAccepted
  <2>2. /\ <<g, d>> \in Seq(Messages) /\ g \notin Pauses \cup Verdicts \cup Refusals
        /\ d \notin Pauses \cup AGrant
    BY KindsDiffer
  <2>3. d \in Telling'
    BY <2>1 DEF Telling
  <2>4. /\ workerPc = "sent" /\ outbox' = <<g, d>>
        /\ UNCHANGED <<channel, mainVars, restarted, pausedUntil>>
    BY <2>1 DEF Replies
  <2>5. ~NoneIn(<<g, d>>, AGrant) /\ LastIn(<<g, d>>, AGrant, {x \in AGrant : x.grant = granted'})
    BY <2>1, <2>2, FewSent
  <2>6. /\ ~NoneIn(<<g, d>>, Verdicts \cup Refusals)
        /\ LastIn(<<g, d>>, Verdicts \cup Refusals, Telling')
    BY <2>3, FewSent
  <2>7. NoneIn(<<g, d>>, Pauses) /\ Followed(<<g, d>>, AGrant, Verdicts)
    BY <2>2, FewSent
  <2> QED BY <2>2, <2>4, <2>5, <2>6, <2>7, RepliesTell
<1>7. CASE repairedAccepted
  <2>1. /\ workerPc = "repaired" /\ outbox' = <<>>
        /\ UNCHANGED <<channel, mainVars, pausedUntil, replyHistory>>
    BY <1>7 DEF repairedAccepted, Replies
  <2> QED BY <1>1, <2>1 DEF RepliesInv
<1>8. CASE postMessage
  BY <1>8, PostingKeeps, InStepUnmoved DEF RepliesInv, postMessage
<1>9. CASE workerCrash
  BY <1>9 DEF workerCrash
<1>10. CASE handleMessage
  <2>1. workerPc # "dead"
    BY <1>10 DEF handleMessage, handlePaused, handleNotIngested, handleOtlpExport,
                 handleDegraded, Handles
  <2> QED BY <1>10, <2>1, HandlingKeeps
<1>11. CASE initializeWorker
  <2>1. InTransit' = <<>>
    BY <1>11 DEF RepliesInv, InTransit, initializeWorker
  <2>2. /\ reporting' = "off" /\ decisive' = "none" /\ restarted' = TRUE /\ pausedUntil' = 0
    BY <1>11 DEF initializeWorker
  <2> QED BY <2>1, <2>2, FewSent
          DEF InStep, PauseTold, ReportingTold, GrantTold, CapTold, Believed
<1> QED
  BY <1>2, <1>3, <1>4, <1>5, <1>6, <1>7, <1>8, <1>9, <1>10, <1>11 DEF RepliesNext, WorkerStep

\* Whatever the collector answers and in whatever order the threads run, the
\* messages in transit tell the main thread what the worker knows.
THEOREM RepliesTold == RepliesSpec => []RepliesInv
<1>1. RepliesInit => RepliesInv
  <2> SUFFICES ASSUME RepliesInit PROVE RepliesInv
    OBVIOUS
  <2>1. InTransit = <<>>
    BY DEF RepliesInit, InTransit
  <2>2. \A S, T : NoneIn(<<>>, S) /\ LastIn(<<>>, S, T) /\ Followed(<<>>, S, T)
    BY FewSent
  <2>3. InStep
    BY <2>1, <2>2 DEF RepliesInit, InStep, PauseTold, ReportingTold, GrantTold, CapTold, Believed
  <2>4. RepliesTypeOK
    <3>1. errorsOnly \in BOOLEAN /\ restarted \in BOOLEAN
      BY DEF RepliesInit
    <3>2. authBackoffMs \in 0..PAUSE_MAX
      BY DurationsAssumption DEF RepliesInit
    <3>3. outbox \in Seq(Messages) /\ channel \in Seq(Messages)
      BY DEF RepliesInit
    <3> QED BY <3>1, <3>2, <3>3 DEF RepliesInit, RepliesTypeOK, Grants
  <2>5. PauseBounded /\ BackoffDoubles /\ outbox = <<>> /\ otlpExportCappedUntil <= now + DEGRADED_TTL
    BY DurationsAssumption DEF RepliesInit, PauseBounded, BackoffDoubles, Lesser
  <2> QED BY <2>3, <2>4, <2>5 DEF RepliesInv
<1>2. RepliesInv /\ [RepliesNext]_replyVars => RepliesInv'
  BY BoundsKept, TellingKept DEF RepliesInv
<1> QED BY <1>1, <1>2, PTL DEF RepliesSpec

\* Worker and main thread do what the collector last answered: no pause
\* outlasts the ceiling, the backoff doubles with each refusal, and once the
\* messages are handled the main thread pauses, reports and exports by the
\* last reply - through crashes and restarts of the worker too
\* (sendInstrumentationJsonData, handleMessage, initializeWorker).
THEOREM AgentFollows == RepliesSpec => []AgentFollowsReplies
<1>1. RepliesInv => AgentFollowsReplies
  <2> SUFFICES ASSUME RepliesInv PROVE AgentFollowsReplies
    OBVIOUS
  <2>1. RepliesTypeOK /\ PauseBounded /\ BackoffDoubles
    BY DEF RepliesInv
  <2>2. ASSUME Quiet
        PROVE  /\ pausedUntil = sendsPausedUntil \/ (restarted /\ pausedUntil = 0)
               /\ reporting = Believed
               /\ otlpExport = granted \/ decisive # "accepted"
               /\ CapTold /\ NoneIn(InTransit, Verdicts)
    <3>1. InTransit = <<>> /\ InStep
      BY <2>2 DEF Quiet, RepliesInv, InTransit
    <3> QED BY <3>1, FewSent DEF InStep, PauseTold, ReportingTold, GrantTold
  <2>3. PauseKnown /\ ReportingFollowsReplies
    BY <2>2 DEF PauseKnown, ReportingFollowsReplies, Believed
  <2>4. ExportAsGranted
    BY <2>1, <2>2 DEF ExportAsGranted, isIngesting, Believed, RepliesTypeOK
  <2>5. CappedExportLapses
    BY <2>1, <2>2 DEF CappedExportLapses, otlpExportGrant, isIngesting, isDegraded, CapTold,
                      RepliesTypeOK
  <2> QED BY <2>1, <2>3, <2>4, <2>5 DEF AgentFollowsReplies
<1> QED BY <1>1, RepliesTold, PTL
=============================================================================
