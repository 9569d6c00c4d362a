---------------------------- MODULE AgentNotices ----------------------------
(* The lines the detached worker posts, how the agent reads them, and what   *)
(* it tells the operator.  A line is [prefix, value]; the collector's        *)
(* replies are the records of their fields.                                  *)
EXTENDS Integers, Sequences

CONSTANTS CollectorReplies,   \* accepted replies the collector may give
          MaxPosts,           \* batches the worker sends
          MaxDeaths           \* of the worker

VARIABLES lines,              \* posted, not read
          reporting,          \* ObserveAgentSharedBuffer.reporting
          granted, mode,      \* otlpExport and the ingest mode as applied
          reported,           \* what was last said of each
          said,               \* every notice, in order
          posts, deaths,
          lastReply           \* the reply the last verdict read was for
noticeVars == <<lines, reporting, granted, mode, reported, said, posts, deaths, lastReply>>

Line(prefix, value) == [prefix |-> prefix, value |-> value]
NoReply == [degraded |-> FALSE, trimmed |-> FALSE, paced |-> FALSE, errorsOnly |-> FALSE, reason |-> "", otlpExport |-> ""]

-----------------------------------------------------------------------------
(* The worker's side.  errors-only wins over trimmed, trimmed over paced.    *)
verdict(reply) ==
  LET pauseReason == IF reply.reason \in {"spike", "budget"} THEN reply.reason ELSE ""
  IN IF ~reply.degraded THEN "false"
     ELSE IF reply.errorsOnly THEN IF pauseReason = "spike" THEN "errors-only:spike"
                                   ELSE IF pauseReason = "budget" THEN "errors-only:budget" ELSE "errors-only"
     ELSE IF reply.trimmed THEN "trimmed" ELSE IF reply.paced THEN "paced" ELSE "true"
grantOf(reply) == IF reply.otlpExport \in {"full", "capped"} THEN reply.otlpExport ELSE "off"
acceptedLines(reply) ==
  <<Line("otlp-export", grantOf(reply)), Line("degraded", verdict(reply)), Line("prose", "sent")>>
refusedLines == <<Line("paused-until", "later"), Line("not-ingested", "refused"), Line("prose", "Error:")>>
rateLimitedLines == <<Line("paused-until", "later"), Line("not-ingested", "failed"), Line("prose", "Error:")>>
failedLines == <<Line("prose", "Error:"), Line("not-ingested", "failed")>>

(* The agent's side; "null" is not that line.                                *)
parsePausedMessage(l) == l.prefix = "paused-until"
parseNotIngestedMessage(l) ==
  IF l.prefix = "not-ingested" /\ l.value \in {"refused", "failed"} THEN l.value ELSE "null"
parseOtlpExportMessage(l) ==
  IF l.prefix # "otlp-export" THEN "null" ELSE IF l.value \in {"full", "capped"} THEN l.value ELSE "off"
parseDegradedMessage(l) ==
  IF l.prefix # "degraded" THEN "null"
  ELSE CASE l.value = "true" -> "reduced"
         [] l.value \in {"trimmed", "paced", "errors-only"} -> l.value
         [] l.value \in {"errors-only:spike", "errors-only:budget"} -> "errors-only"
         [] OTHER -> "full"
parseOveragePauseReason(l) ==
  CASE l.prefix = "degraded" /\ l.value = "errors-only:spike" -> "spike"
    [] l.prefix = "degraded" /\ l.value = "errors-only:budget" -> "budget"
    [] OTHER -> "null"

-----------------------------------------------------------------------------
(* ObserveAgentSharedBuffer.reporting, which only an accepted batch moves on *)
(* from "off" once a worker was refused or stopped.                          *)
isReporting(state) == state # "off"
recordStarted == "started"
recordAccepted == "ingesting"
recordRefused == "off"
recordStopped == "off"

(* reportOpenTelemetryInterop: said when it turns on or off.                 *)
interopNotice(state) ==
  IF isReporting(state) = reported.interop THEN <<>>
  ELSE <<[topic |-> "interop", what |-> IF isReporting(state) THEN "on" ELSE "off"]>>
exportNotice(grant) == IF grant = reported.grant THEN <<>> ELSE <<[topic |-> "export", what |-> grant]>>
connectionNotice == IF reported.connection THEN <<>> ELSE <<[topic |-> "connection", what |-> "connected"]>>
modeNotice(new, reason) ==
  IF new = reported.mode /\ reason = reported.reason THEN <<>>
  ELSE <<[topic |-> "mode", what |-> IF new = "errors-only" THEN <<new, reason>> ELSE <<new>>]>>

NoticesInit ==
  /\ lines = <<>> /\ granted = "off" /\ mode = "full" /\ posts = 0 /\ deaths = 0 /\ lastReply = NoReply
  /\ reporting = recordStarted
  /\ reported = [interop |-> TRUE, grant |-> "null", connection |-> FALSE, mode |-> "full", reason |-> "null"]
  /\ said = <<[topic |-> "interop", what |-> "on"]>>

workerPosts ==
  /\ posts < MaxPosts /\ lines = <<>>
  /\ posts' = posts + 1
  /\ \/ \E reply \in CollectorReplies : lines' = acceptedLines(reply) /\ lastReply' = reply
     \/ /\ lines' \in {refusedLines, rateLimitedLines, failedLines}
        /\ UNCHANGED lastReply
  /\ UNCHANGED <<reporting, granted, mode, reported, said, deaths>>

(* handleMessage, in the order it asks.                                      *)
readPaused(l) ==   \* sendsPausedUntil: see FinalFlush
  parsePausedMessage(l) /\ UNCHANGED <<reporting, granted, mode, reported, said>>
readNotIngested(l) ==
  /\ parseNotIngestedMessage(l) # "null"
  /\ reporting' = IF parseNotIngestedMessage(l) = "refused" THEN recordRefused ELSE reporting
  /\ said' = said \o interopNotice(reporting')
  /\ reported' = [reported EXCEPT !.interop = isReporting(reporting')]
  /\ UNCHANGED <<granted, mode>>
readOtlpExport(l) ==
  /\ parseOtlpExportMessage(l) # "null"
  /\ granted' = parseOtlpExportMessage(l)
  /\ said' = said \o exportNotice(granted')
  /\ reported' = [reported EXCEPT !.grant = granted']
  /\ UNCHANGED <<reporting, mode>>
readDegraded(l) ==
  /\ parseDegradedMessage(l) # "null"
  /\ reporting' = recordAccepted /\ mode' = parseDegradedMessage(l)
  /\ said' = said \o interopNotice(reporting') \o connectionNotice \o modeNotice(mode', parseOveragePauseReason(l))
  /\ reported' = [reported EXCEPT !.interop = TRUE, !.connection = TRUE, !.mode = mode',
                                  !.reason = parseOveragePauseReason(l)]
  /\ UNCHANGED granted
readProse(l) == l.prefix = "prose" /\ UNCHANGED <<reporting, granted, mode, reported, said>>
handleMessage ==
  /\ lines # <<>> /\ lines' = Tail(lines)
  /\ LET l == Head(lines)
     IN readPaused(l) \/ readNotIngested(l) \/ readOtlpExport(l) \/ readDegraded(l) \/ readProse(l)
  /\ UNCHANGED <<posts, deaths, lastReply>>

(* The worker dies or stops; its lines were delivered before its exit, and a *)
(* restarted one has to get a batch in again.                                *)
workerExits_silent ==
  /\ deaths < MaxDeaths /\ lines = <<>>
  /\ deaths' = deaths + 1 /\ reporting' = recordStopped
  /\ UNCHANGED <<lines, granted, mode, reported, said, posts, lastReply>>
workerExits ==
  /\ deaths < MaxDeaths /\ lines = <<>>
  /\ deaths' = deaths + 1 /\ reporting' = recordStopped
  /\ said' = said \o interopNotice(recordStopped) /\ reported' = [reported EXCEPT !.interop = FALSE]
  /\ UNCHANGED <<lines, granted, mode, posts, lastReply>>

NoticesNext == workerPosts \/ handleMessage \/ workerExits
NoticesSpec == NoticesInit /\ [][NoticesNext]_noticeVars

-----------------------------------------------------------------------------
NoticesTypeOK ==
  /\ reporting \in {"off", "started", "ingesting"} /\ granted \in {"off", "capped", "full"}
  /\ mode \in {"full", "reduced", "trimmed", "paced", "errors-only"}

LastSaid(topic) ==
  LET on == {i \in DOMAIN said : said[i].topic = topic}
  IN IF on = {} THEN "nothing" ELSE said[CHOOSE i \in on : \A j \in on : j <= i].what

(* What the operator was last told is what is: interop on exactly while the  *)
(* agent reports, through refusals, deaths of the worker and restarts; the   *)
(* export as it was last granted; and a mode other than full as it stands.   *)
LastNoticeHolds ==
  /\ LastSaid("interop") = IF isReporting(reporting) THEN "on" ELSE "off"
  /\ reported.grant # "null" => LastSaid("export") = granted
  /\ reported.mode = mode

(* Each change is said once: no notice repeats the one before it on its      *)
(* topic, however many batches carry the same answer.                        *)
NothingSaidTwice ==
  \A i, j \in DOMAIN said :
    i < j /\ said[i].topic = said[j].topic /\ said[i].what = said[j].what =>
      \E k \in i + 1 .. j - 1 : said[k].topic = said[i].topic

(* The agent acts on what the collector answered: once its lines are read,   *)
(* spans are withheld the way the reply asked - errors-only before trimmed   *)
(* before paced - whatever the pause's reason, and the export goes by the    *)
(* grant of the same reply.                                                  *)
AnsweredAsMeant ==
  LET r == lastReply
  IN lines = <<>> /\ r # NoReply =>
       /\ mode = IF ~r.degraded THEN "full" ELSE IF r.errorsOnly THEN "errors-only"
                 ELSE IF r.trimmed THEN "trimmed" ELSE IF r.paced THEN "paced" ELSE "reduced"
       /\ granted = grantOf(r)

(* By the time a verdict makes the agent ingesting, the grant of the same    *)
(* reply is known.                                                           *)
GrantBeforeVerdict ==
  reporting = "ingesting" /\ (\E i \in DOMAIN lines : lines[i].prefix = "otlp-export") =>
    \E i \in DOMAIN lines : lines[i].prefix = "degraded"

(* Through replies, deaths of the worker and restarts the agent does what    *)
(* the collector last answered, and the operator has been told, once         *)
(* (handleMessage, watchWorker).                                             *)
NoticesAreTrue ==
  NoticesTypeOK /\ GrantBeforeVerdict /\ AnsweredAsMeant /\ LastNoticeHolds /\ NothingSaidTwice
=============================================================================
