---------------------------- MODULE LoggedLines ----------------------------
(***************************************************************************)
(* A logged line and what is read back off it: LoggerPatcherService puts   *)
(* the trace id into what ConsoleLogger writes, parseLogLine takes the     *)
(* line apart again when it passes stdout.                                 *)
(*                                                                         *)
(* A text line is a sequence of pieces: the "[Nest] pid - time" that       *)
(* ConsoleLogger begins with, a level, a bracketed context, words, blanks, *)
(* colour codes, the marker and ids.  A JSON line is a record.             *)
(***************************************************************************)
EXTENDS Integers, Sequences, SequencesExt

CONSTANTS
    LoggingApps,      \* applications in the process, each with its own store
    LoggedEntries,    \* what is logged
    ForeignRecords    \* JSON lines of other loggers

VARIABLES
    layers,       \* the patches around ConsoleLogger's methods, innermost first
    entry,        \* history: what was written; one line a behaviour
    added,        \* history: the ids its traces have, as the patches see them
    parsed        \* the entries its lines are read as
loggedVars == <<layers, entry, added, parsed>>

LOG_LEVELS == {"fatal", "error", "warn", "log", "debug", "verbose"}
LEVEL_ALIASES == [info |-> "log", warning |-> "warn", trace |-> "verbose"]
LowerCase == [LOG |-> "log", ERROR |-> "error", log |-> "log", info |-> "info", notice |-> "notice"]
Absent == "absent"
TRACE_ID_MARKER == "Trace ID:"
NoEntry == [json |-> FALSE, level |-> Absent, context |-> Absent, message |-> <<>>]

-----------------------------------------------------------------------------
(* LoggerPatcherService                                                      *)

LoggedInit == layers = <<>> /\ entry = NoEntry /\ added = <<>> /\ parsed = <<>>

\* onModuleInit: the watermark is the instance's own, so each application adds
\* a patch to the ones that are there.
injectTraceIdIntoLogs(app) ==
  /\ app \notin ToSet(layers)
  /\ layers' = Append(layers, app)
  /\ UNCHANGED <<entry, added, parsed>>

\* What the patches add, from the innermost out.
TraceIdsAdded(stores) == SelectSeq([i \in DOMAIN layers |-> stores[layers[i]]], LAMBDA id : id # Absent)

\* ConsoleLogger.formatMessage, colours on.
PlainText(e) ==
  <<"ansi", "[Nest] 1 - now", " ", e.level, " ", "ansi">>
  \o (IF e.context = Absent THEN <<>> ELSE <<e.context, " ">>) \o <<"ansi">> \o e.message \o <<"ansi", "nl">>

\* The patched formatMessage: the suffix goes before the line's own newline.
formatMessage(e, stores) ==
  Front(PlainText(e)) \o FlattenSeq([i \in DOMAIN TraceIdsAdded(stores) |->
                            <<" ", TRACE_ID_MARKER, " ", "ansi", TraceIdsAdded(stores)[i], "ansi">>])
  \o <<"nl">>

\* The patched getJsonLogObject: the outermost patch has the last word.
getJsonLogObject(e, stores) ==
  [level |-> e.level, context |-> e.context, message |-> e.message, extra |-> Absent,
   traceId |-> IF TraceIdsAdded(stores) = <<>> THEN Absent ELSE Last(TraceIdsAdded(stores))]

-----------------------------------------------------------------------------
(* parseLogLine                                                              *)

toLogLevel(value) ==
  IF value \notin DOMAIN LowerCase THEN Absent
  ELSE LET lower == LowerCase[value]
       IN IF lower \in LOG_LEVELS THEN lower
          ELSE IF lower \in DOMAIN LEVEL_ALIASES THEN LEVEL_ALIASES[lower] ELSE Absent

trimEnd(line) ==
  LET solid == {i \in DOMAIN line : line[i] # " "}
  IN IF solid = {} THEN <<>> ELSE SubSeq(line, 1, CHOOSE i \in solid : \A j \in solid : j <= i)
trimStart(line) == Reverse(trimEnd(Reverse(line)))
stripAnsi(line) == SelectSeq(line, LAMBDA c : c # "ansi")

\* A JSON object with a message; a level the collector does not know stays an
\* attribute, next to whatever else the record holds.
parseStructured(r) ==
  LET level == toLogLevel(r.level)
  IN [level |-> level, context |-> r.context, message |-> r.message, traceId |-> r.traceId,
      attributes |-> (IF level = Absent THEN {r.level} \ {Absent} ELSE {}) \cup ({r.extra} \ {Absent})]

\* The last marker, if one token and nothing else is behind it.
splitTraceIdSuffix(rest) ==
  LET markers == {i \in DOMAIN rest : rest[i] = TRACE_ID_MARKER}
      i == CHOOSE k \in markers : \A j \in markers : j <= k
      value == trimStart(trimEnd(SubSeq(rest, i + 1, Len(rest))))
  IN IF markers # {} /\ Len(value) = 1
     THEN [message |-> trimEnd(SubSeq(rest, 1, i - 1)), traceId |-> value[1]]
     ELSE [message |-> rest, traceId |-> Absent]

Unstructured(line) == [level |-> Absent, context |-> Absent, message |-> line, traceId |-> Absent, attributes |-> {}]

\* Where a line that ConsoleLogger wrote may have its level: a level's name
\* between blanks.
NEST_TEXT_PATTERN(line) ==
  {i \in 3 .. Len(line) - 1 : /\ line[1] = "[Nest] 1 - now" /\ line[i] \in {"LOG", "ERROR"}
                              /\ line[i - 1] = " " /\ line[i + 1] = " "}

\* The first of them is it; a context in brackets if that is next, and the rest.
parseNestText(line) ==
  LET levels == NEST_TEXT_PATTERN(line)
      at == CHOOSE i \in levels : \A j \in levels : i <= j
      behind == trimStart(SubSeq(line, at + 1, Len(line)))
      bracketed == behind # <<>> /\ behind[1] \in {"[c]", "[b]"}
      rest == splitTraceIdSuffix(IF bracketed THEN trimStart(Tail(behind)) ELSE behind)
  IN IF levels = {} THEN Unstructured(line)
     ELSE [Unstructured(rest.message) EXCEPT !.level = toLogLevel(line[at]), !.traceId = rest.traceId,
             !.context = IF bracketed THEN behind[1] ELSE Absent]
parseLogLine(line) == parseNestText(trimEnd(stripAnsi(line)))

\* The lines the forwarder finds in what was written.
LinesIn(text) ==
  LET ends == SetToSortSeq({i \in DOMAIN text : text[i] = "nl"} \cup {Len(text) + 1}, <)
      lines == [k \in DOMAIN ends |-> SubSeq(text, IF k = 1 THEN 1 ELSE ends[k - 1] + 1, ends[k] - 1)]
  IN SelectSeq(lines, LAMBDA l : l # <<>>)

-----------------------------------------------------------------------------
\* A call of the logger, inside the stores of some of the applications.
logsLine(e, stores) ==
  /\ entry = NoEntry
  /\ entry' = e /\ added' = TraceIdsAdded(stores)
  /\ parsed' = IF e.json THEN <<parseStructured(getJsonLogObject(e, stores))>>
               ELSE LET lines == LinesIn(formatMessage(e, stores))
                    IN [k \in DOMAIN lines |-> parseLogLine(lines[k])]
  /\ UNCHANGED layers

\* A JSON line of another logger.
foreignLine(r) ==
  /\ entry = NoEntry
  /\ entry' = [json |-> TRUE, level |-> r.level, context |-> r.context, message |-> r.message]
  /\ parsed' = <<parseStructured(r)>>
  /\ UNCHANGED <<layers, added>>

LoggedNext ==
  \/ \E app \in LoggingApps : injectTraceIdIntoLogs(app)
  \/ \E e \in LoggedEntries, stores \in [LoggingApps -> {"id1", Absent}] : logsLine(e, stores)
  \/ \E r \in ForeignRecords : foreignLine(r)
LoggedSpec == LoggedInit /\ [][LoggedNext]_loggedVars

-----------------------------------------------------------------------------
\* What is logged is one entry with its level, its context, its message and the
\* id of the trace it was logged in, whatever the message says, in colour or
\* as JSON, and however many applications of the process have patched the logger
\* (formatMessage, splitTraceIdSuffix).  Left out: a line the parser cannot tell
\* from another one (a message that begins in brackets without a context, or
\* ends like the suffix outside every trace) and a call inside the stores of two
\* applications.
LoggedIsReadBack ==
  LET m == entry.message
      ambiguous == ~entry.json /\ \/ entry.context = Absent /\ m[1] = "[b]"
                                  \/ added = <<>> /\ Len(m) > 2 /\ m[Len(m) - 2] = "Trace ID:"
  IN entry # NoEntry /\ Len(added) < 2 /\ ~ambiguous =>
       /\ Len(parsed) = 1
       /\ parsed[1].message = m /\ parsed[1].context = entry.context
       /\ parsed[1].level = toLogLevel(entry.level)
       /\ added # <<>> => parsed[1].traceId = added[1]

\* "It refuses a batch carrying any other value whole": the level of an entry is
\* one the collector accepts or none at all, and one it does not accept is still
\* told among the attributes (toLogLevel, parseStructured).
LevelsAreAccepted ==
  \A k \in DOMAIN parsed :
    /\ parsed[k].level \in LOG_LEVELS \cup {Absent}
    /\ parsed[k].level = Absent /\ entry.level # Absent => entry.level \in parsed[k].attributes
=============================================================================
