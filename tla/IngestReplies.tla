---------------------------- MODULE IngestReplies ----------------------------
(***************************************************************************)
(* What the collector answers, and how the answer reaches the application. *)
(*                                                                         *)
(* The worker reads a reply, changes its own pause and backoff, and posts  *)
(* one message after another; the main thread handles them one by one, in  *)
(* order, with anything in between.  Each side decides on its own copy:    *)
(* the worker on pausedUntil, the main thread on sendsPausedUntil,         *)
(* reporting, the OTLP grant and the ingest mode.                          *)
(*                                                                         *)
(* Time is a clock both threads read; a unit stands for minutes.  Lines    *)
(* for the log are left out: no decision reads them.                       *)
(***************************************************************************)
EXTENDS Naturals, Sequences

CONSTANTS
    AUTH_BACKOFF_BASE,   \* AUTH_BACKOFF_BASE_MS: the flush interval
    RATE_LIMIT_PAUSE,    \* RATE_LIMIT_PAUSE_MS
    PAUSE_MAX,           \* PAUSE_MAX_MS
    DEGRADED_TTL,        \* DEGRADED_TTL_MS
    IngestModes,         \* the verdicts on an accepted batch
    RetryAfters,         \* the Retry-After values a collector sends; 0: none usable
    MaxTime,             \* bound: how far the clock runs
    MaxSends,            \* bound: batches sent
    MaxCrashes           \* bound: times the worker thread dies on its own

ASSUME DurationsAssumption ==
    /\ AUTH_BACKOFF_BASE \in Nat \ {0}
    /\ RATE_LIMIT_PAUSE \in Nat \ {0}
    /\ PAUSE_MAX \in Nat
    /\ RATE_LIMIT_PAUSE <= PAUSE_MAX
    /\ DEGRADED_TTL \in Nat \ {0}
    /\ {"full", "errors-only"} \subseteq IngestModes
    /\ RetryAfters \subseteq Nat
    /\ MaxTime \in Nat /\ MaxSends \in Nat /\ MaxCrashes \in Nat

VARIABLES
    now,                   \* Date.now(), on both threads
    \* the worker
    workerPc,              \* "idle", "sent", "repaired", "posting" or "dead"
    pausedUntil,
    authBackoffMs,
    outbox,                \* messages the reply's handler has yet to post
    \* between the threads
    channel,               \* messages posted and not yet handled
    \* the main thread
    sendsPausedUntil,      \* ObserveAgentWorker.sendsPausedUntil
    reporting,             \* ObserveAgentSharedBuffer.reporting
    otlpExport,            \* ... its OTLP grant
    otlpExportCappedUntil,
    degradedUntil,
    errorsOnly,
    \* bounds and replyHistory
    sends, crashes,
    restarted,             \* a worker was restarted
    decisive,              \* this worker's last 2xx, 401 or 403 to a first send
    doubled,               \* the base, doubled with each refusal since its last such 2xx
    granted                \* the grant of the last such 2xx of any worker

workerVars == <<workerPc, pausedUntil, authBackoffMs, outbox>>
otlpVars   == <<otlpExport, otlpExportCappedUntil>>
modeVars   == <<degradedUntil, errorsOnly>>
mainVars   == <<sendsPausedUntil, reporting, otlpVars, modeVars>>
replyHistory    == <<restarted, decisive, doubled, granted>>
bounds     == <<sends, crashes>>
replyVars       == <<now, workerVars, channel, mainVars, bounds, replyHistory>>

Grants == {"off", "capped", "full"}

Lesser(a, b) == IF a <= b THEN a ELSE b

\* The messages of degraded-ingest.protocol.ts.
pausedMessage(until)   == [kind |-> "paused", until |-> until]
notIngestedMessage(r)  == [kind |-> "notIngested", reason |-> r]
otlpExportMessage(g)   == [kind |-> "otlpExport", grant |-> g]
degradedMessage(mode)  == [kind |-> "degraded", mode |-> mode]

\* The main thread as onModuleInit() leaves it, beside a worker just started.
RepliesInit ==
    /\ now = 0
    /\ workerPc = "idle"
    /\ pausedUntil = 0
    /\ authBackoffMs = 0
    /\ outbox = <<>>
    /\ channel = <<>>
    /\ sendsPausedUntil = 0
    /\ reporting = "started"
    /\ otlpExport = "off"
    /\ otlpExportCappedUntil = 0
    /\ degradedUntil = 0
    /\ errorsOnly = FALSE
    /\ sends = 0
    /\ crashes = 0
    /\ restarted = FALSE
    /\ decisive = "none"
    /\ doubled = 0
    /\ granted = "off"

tick ==
    /\ now < MaxTime
    /\ now' = now + 1
    /\ UNCHANGED <<workerVars, channel, mainVars, bounds, replyHistory>>

(***************************************************************************)
(* The worker                                                              *)
(***************************************************************************)

\* The loop finds a batch in the slot and is not paused: the batch is on its
\* way.  Its answer may take a while.
sendInstrumentationJsonData ==
    /\ workerPc = "idle"
    /\ now >= pausedUntil
    /\ sends < MaxSends
    /\ workerPc' = "sent"
    /\ sends' = sends + 1
    /\ UNCHANGED <<now, pausedUntil, authBackoffMs, outbox, channel, mainVars,
                   crashes, restarted, decisive, doubled, granted>>

Replies(from, messages) ==
    /\ workerPc = from
    /\ workerPc' = "posting"
    /\ outbox' = messages
    /\ UNCHANGED <<now, channel, mainVars, bounds, restarted>>

\* The pause a reply asks for, or otherwise when it asks for none.
retryAfterMs(retryAfter, otherwise) ==
    IF retryAfter = 0 THEN otherwise ELSE Lesser(retryAfter, PAUSE_MAX)

\* 401 or 403.
replyRefused ==
    \E retryAfter \in RetryAfters :
        /\ authBackoffMs' =
               IF authBackoffMs = 0 THEN Lesser(AUTH_BACKOFF_BASE, PAUSE_MAX)
               ELSE Lesser(authBackoffMs * 2, PAUSE_MAX)
        /\ pausedUntil' = now + retryAfterMs(retryAfter, authBackoffMs')
        /\ Replies("sent", <<pausedMessage(pausedUntil'),
                             notIngestedMessage("refused")>>)
        /\ decisive' = "refused"
        /\ doubled' = IF doubled = 0 THEN AUTH_BACKOFF_BASE ELSE 2 * doubled
        /\ UNCHANGED <<granted>>

\* 429.
replyRateLimited ==
    \E retryAfter \in RetryAfters :
        /\ pausedUntil' = now + retryAfterMs(retryAfter, RATE_LIMIT_PAUSE)
        /\ Replies("sent", <<pausedMessage(pausedUntil'),
                             notIngestedMessage("failed")>>)
        /\ UNCHANGED <<authBackoffMs, decisive, doubled, granted>>

\* No answer, any other status, a fault in the worker - or a 400 the sanitizer
\* finds nothing to repair in.
replyFailed ==
    /\ Replies("sent", <<notIngestedMessage("failed")>>)
    /\ UNCHANGED <<pausedUntil, authBackoffMs, decisive, doubled, granted>>

\* 200: the grant first, then the verdict.
replyAccepted ==
    \E mode \in IngestModes, grant \in Grants :
        /\ Replies("sent", <<otlpExportMessage(grant), degradedMessage(mode)>>)
        /\ authBackoffMs' = 0
        /\ decisive' = "accepted"
        /\ doubled' = 0
        /\ granted' = grant
        /\ UNCHANGED pausedUntil

\* 400, and the sanitizer changed the batch: it is sent again.
repairAndResend ==
    /\ workerPc = "sent"
    /\ workerPc' = "repaired"
    /\ UNCHANGED <<now, pausedUntil, authBackoffMs, outbox, channel, mainVars,
                   bounds, replyHistory>>

\* The repaired batch got in: a line for the log, and nothing else.
repairedAccepted ==
    /\ Replies("repaired", <<>>)
    /\ UNCHANGED <<pausedUntil, authBackoffMs, decisive, doubled, granted>>

\* The repaired batch was turned away, with whatever status, or got no answer.
repairedFailed ==
    /\ Replies("repaired", <<notIngestedMessage("failed")>>)
    /\ UNCHANGED <<pausedUntil, authBackoffMs, decisive, doubled, granted>>

\* parentPort.postMessage, one message at a time.
postMessage ==
    /\ workerPc = "posting"
    /\ outbox # <<>>
    /\ outbox' = Tail(outbox)
    /\ channel' = Append(channel, Head(outbox))
    /\ UNCHANGED <<now, workerPc, pausedUntil, authBackoffMs, mainVars, bounds,
                   replyHistory>>

\* The finally block, once the last message is posted.
clearBuffer ==
    /\ workerPc = "posting"
    /\ outbox = <<>>
    /\ workerPc' = "idle"
    /\ UNCHANGED <<now, pausedUntil, authBackoffMs, outbox, channel, mainVars,
                   bounds, replyHistory>>

\* The thread dies where it stands, possibly between two of its messages.
workerCrash ==
    /\ workerPc # "dead"
    /\ crashes < MaxCrashes
    /\ workerPc' = "dead"
    /\ outbox' = <<>>
    /\ crashes' = crashes + 1
    /\ UNCHANGED <<now, pausedUntil, authBackoffMs, channel, mainVars, sends,
                   replyHistory>>

(***************************************************************************)
(* The main thread                                                         *)
(***************************************************************************)

Handles(kind) ==
    /\ channel # <<>>
    /\ Head(channel).kind = kind
    /\ channel' = Tail(channel)
    /\ UNCHANGED <<now, workerVars, bounds, replyHistory>>

handlePaused ==
    /\ Handles("paused")
    /\ sendsPausedUntil' = Head(channel).until
    /\ UNCHANGED <<reporting, otlpVars, modeVars>>

\* recordRefused(); a batch that failed for any other reason changes nothing.
handleNotIngested ==
    /\ Handles("notIngested")
    /\ reporting' = IF Head(channel).reason = "refused" THEN "off" ELSE reporting
    /\ UNCHANGED <<sendsPausedUntil, otlpVars, modeVars>>

\* setOtlpExport().
handleOtlpExport ==
    /\ Handles("otlpExport")
    /\ otlpExport' = Head(channel).grant
    /\ otlpExportCappedUntil' =
           IF otlpExport' = "capped" THEN now + DEGRADED_TTL ELSE 0
    /\ UNCHANGED <<sendsPausedUntil, reporting, modeVars>>

\* recordAccepted() and setIngestMode().
handleDegraded ==
    /\ Handles("degraded")
    /\ reporting' = "ingesting"
    /\ degradedUntil' =
           IF Head(channel).mode = "full" THEN 0 ELSE now + DEGRADED_TTL
    /\ errorsOnly' = (Head(channel).mode = "errors-only")
    /\ UNCHANGED <<sendsPausedUntil, otlpVars>>

\* Faulty: a restarted worker goes on as if nothing had happened.
initializeWorker_keepsReporting ==
    /\ workerPc = "dead"
    /\ channel = <<>>
    /\ workerPc' = "idle"
    /\ pausedUntil' = 0
    /\ authBackoffMs' = 0
    /\ restarted' = TRUE
    /\ decisive' = "none"
    /\ doubled' = 0
    /\ UNCHANGED <<now, outbox, channel, mainVars, bounds, granted>>

\* The exit listener, after the messages the worker left: recordStopped(), and
\* a new worker with locals of its own.
initializeWorker ==
    /\ workerPc = "dead"
    /\ channel = <<>>
    /\ reporting' = "off"
    /\ workerPc' = "idle"
    /\ pausedUntil' = 0
    /\ authBackoffMs' = 0
    /\ restarted' = TRUE
    /\ decisive' = "none"
    /\ doubled' = 0
    /\ UNCHANGED <<now, outbox, channel, sendsPausedUntil, otlpVars, modeVars,
                   bounds, granted>>

isDegraded   == degradedUntil > now
isReporting  == reporting # "off"
isIngesting  == reporting = "ingesting"

\* What may be exported right now.
otlpExportGrant ==
    IF \/ ~isIngesting
       \/ otlpExport = "capped" /\ now >= otlpExportCappedUntil
    THEN "off" ELSE otlpExport

-----------------------------------------------------------------------------
WorkerStep ==
    \/ sendInstrumentationJsonData
    \/ replyRefused \/ replyRateLimited \/ replyFailed \/ replyAccepted
    \/ repairAndResend \/ repairedAccepted \/ repairedFailed
    \/ postMessage \/ clearBuffer

handleMessage ==
    handlePaused \/ handleNotIngested \/ handleOtlpExport \/ handleDegraded

RepliesNext == tick \/ WorkerStep \/ workerCrash \/ handleMessage \/ initializeWorker

RepliesSpec == RepliesInit /\ [][RepliesNext]_replyVars

(***************************************************************************)
(* Properties                                                              *)
(***************************************************************************)

Messages ==
         [kind : {"paused"}, until : Nat]
    \cup [kind : {"notIngested"}, reason : {"refused", "failed"}]
    \cup [kind : {"otlpExport"}, grant : Grants]
    \cup [kind : {"degraded"}, mode : IngestModes]

\* The clock, the two threads' copies and the messages between them have their
\* types; the backoff never exceeds its ceiling.
RepliesTypeOK ==
    /\ now \in Nat
    /\ workerPc \in {"idle", "sent", "repaired", "posting", "dead"}
    /\ pausedUntil \in Nat
    /\ authBackoffMs \in 0..PAUSE_MAX
    /\ outbox \in Seq(Messages)
    /\ channel \in Seq(Messages)
    /\ sendsPausedUntil \in Nat
    /\ reporting \in {"off", "started", "ingesting"}
    /\ otlpExport \in Grants
    /\ otlpExportCappedUntil \in Nat
    /\ degradedUntil \in Nat
    /\ errorsOnly \in BOOLEAN
    /\ sends \in Nat /\ crashes \in Nat
    /\ restarted \in BOOLEAN
    /\ decisive \in {"none", "accepted", "refused"}
    /\ doubled \in Nat
    /\ granted \in Grants

\* Nothing is on its way between the two threads.
Quiet == workerPc \in {"idle", "sent", "repaired"} /\ channel = <<>>

\* No pause outlasts the ceiling, whatever the collector asks for: "a bad
\* header cannot park the worker for a day" (retryAfterMs, PAUSE_MAX_MS).
PauseBounded ==
    pausedUntil <= now + PAUSE_MAX

\* The backoff after refused credentials starts at one flush interval and
\* doubles with each refusal in a row up to the ceiling; a rate limit, a failed
\* or a repaired batch in between neither resets nor advances it
\* (sendInstrumentationJsonData, authBackoffMs).
BackoffDoubles ==
    authBackoffMs = Lesser(doubled, PAUSE_MAX)

\* A worker that will send nothing for a while has said so: once its messages
\* are handled, a shutdown waits for it no more (handleMessage,
\* flushBeforeShutdown).
PauseKnown ==
    Quiet => \/ pausedUntil = sendsPausedUntil
             \/ restarted /\ pausedUntil = 0

\* What the application believes of its reporting is what the collector last
\* said of its credentials, through rate limits, outages and repairs - and
\* after a restart nothing, until a batch gets in again (recordAccepted,
\* recordRefused, recordStopped).
ReportingFollowsReplies ==
    Quiet =>
        reporting = CASE decisive = "accepted" -> "ingesting"
                      [] decisive = "refused"  -> "off"
                      [] decisive = "none"     ->
                             IF restarted THEN "off" ELSE "started"

\* While export runs, it runs on the grant of the last accepted reply - also
\* when a worker died between a grant and its verdict (setOtlpExport,
\* otlpExportGrant).
ExportAsGranted ==
    Quiet /\ isIngesting => otlpExport = granted

\* A capped export never falls back on whole traces: between replies, it has
\* lapsed by the time the verdict to withhold spans has
\* (otlpExportCappedUntil, isDegraded).
CappedExportLapses ==
    Quiet /\ otlpExportGrant = "capped" /\ degradedUntil # 0 => isDegraded

\* Worker and main thread do what the collector last answered: they pause as
\* long as asked and no longer, back off, and report and export by its verdict
\* (handleMessage, sendInstrumentationJsonData).
AgentFollowsReplies ==
    /\ RepliesTypeOK
    /\ PauseBounded /\ BackoffDoubles /\ PauseKnown
    /\ ReportingFollowsReplies /\ ExportAsGranted /\ CappedExportLapses
=============================================================================
