------------------------------ MODULE TracesMC ------------------------------
(* What is recorded of an operation and how it is shipped: its trace and its *)
(* errors, the profile of the code that ran, the source around a throw site, *)
(* what is masked in all of it, the ids minted for it, the shipped and the   *)
(* exported tree and its encoding; which release reports, and whether it     *)
(* does at all.  See ServicesMC for how parts are joined.  The registry's    *)
(* operations, keys and spans are interchangeable.                           *)
EXTENDS TLC, TraceRegistry, Profiling, ProfileUploader, RedactionMC, SourceContext, ShippedTrees,
        OtlpEncoding, AgentStart, ServiceVersion, AgentNotices, MintedIds

CONSTANT Recorded   \* the parts a behaviour may pick
VARIABLE recording
tracesVars == <<recording, vars, profilingVars, uploadVars, scrub, sourceVars,
                operation, encodingVars, startVars, noticeVars,
                idVars, versionVars>>

-----------------------------------------------------------------------------
(* A file of the application, its compiled form, one that is gone, a link    *)
(* that leads out of the root, a dependency and a file outside.              *)
OwnFile == [ignored |-> FALSE, absolute |-> TRUE, ours |-> TRUE, leads |-> TRUE, length |-> 4]
MCFileFacts ==
  [app |-> OwnFile, dist |-> [OwnFile EXCEPT !.length = 2], gone |-> [OwnFile EXCEPT !.length = 0],
   link |-> [OwnFile EXCEPT !.leads = FALSE], dep |-> [OwnFile EXCEPT !.ignored = TRUE],
   bundled |-> [OwnFile EXCEPT !.absolute = FALSE],
   outside |-> [OwnFile EXCEPT !.ours = FALSE, !.leads = FALSE]]
NoMap == [mapped |-> FALSE, file |-> "app", line |-> 1, content |-> 0]
MCMapFacts ==
  [f \in DOMAIN MCFileFacts |->
     CASE f = "dist" -> [NoMap EXCEPT !.mapped = TRUE, !.line = 4]
       [] f = "gone" -> [NoMap EXCEPT !.mapped = TRUE, !.file = "outside", !.content = 3]
       [] f = "link" -> [NoMap EXCEPT !.mapped = TRUE, !.file = "outside"]
       [] OTHER -> NoMap]
FrameLine(f, n) == [frame |-> TRUE, parses |-> TRUE, file |-> f, line |-> n]
Prose == [frame |-> FALSE, parses |-> FALSE, file |-> "app", line |-> 1]
MCStacks ==
  LET texts == {Prose, [Prose EXCEPT !.frame = TRUE], FrameLine("app", 1)}
               \cup {FrameLine(f, 2) : f \in DOMAIN MCFileFacts} \cup {FrameLine("dist", 3)}
      stacks(messages, givens) ==
        [message : messages, given : givens, frames : {<<a>> : a \in texts} \cup {<<a, b>> : a \in texts, b \in texts \ {FrameLine("bundled", 2), FrameLine("dep", 2), FrameLine("dist", 3)}}]
  IN stacks({<<Prose>>, <<Prose, FrameLine("app", 3)>>}, {"same"})
     \cup [message : {<<Prose>>}, given : {"reassigned", "none"}, frames : {<<a>> : a \in texts}]
MCFrameOptions ==
  [sourceMaps : BOOLEAN, maxFrames : {2}, linesOfContext : {1}] \cup
  {[sourceMaps |-> FALSE, maxFrames |-> 1, linesOfContext |-> 0]}
(* The clock goes on by a millisecond, or into the next word, or is set back. *)
IdLeaps == {1, TimeWord + 1, -1}
-----------------------------------------------------------------------------
(* Finished operations for ShippedTrees: every list of up to four siblings   *)
(* of a few kinds under every collapse setting, and every outcome an         *)
(* operation ends with.                                                      *)
Call(id, method, duration, start) ==
  [spanId |-> id, className |-> "Repo", methodKey |-> method, origin |-> "auto", duration |-> duration,
   startOffset |-> start, error |-> "none", ended |-> TRUE, stands |-> 1, tags |-> <<>>, children |-> <<>>]
SiblingKinds == {"find", "slow", "late", "failed", "manual", "nested"}
SiblingOf(k, i) ==
  LET find == Call(10 * i, "find", 1, 0)
  IN CASE k = "find" -> find
       [] k = "slow" -> [find EXCEPT !.duration = 3, !.spanId = 0, !.startOffset = i]
       [] k = "late" -> [find EXCEPT !.startOffset = Absent, !.tags = <<"db.statement">>]
       [] k = "failed" -> [find EXCEPT !.error = "payload", !.className = "http",
                                          !.tags = <<"http.method", "http.url">>]
       [] k = "manual" -> [find EXCEPT !.origin = "manual", !.error = "handled"]
       [] k = "nested" ->
            [find EXCEPT !.duration = 5,
                         !.children = <<Call(10 * i + 1, "map", 1, 1), Call(10 * i + 2, "map", 2, 0)>>]
ErroredFind(i) == [SiblingOf("find", i) EXCEPT !.error = "handled"]
PlainOperation ==
  [kind |-> "request", protocol |-> "http", statusCode |-> 200, error |-> FALSE, status |-> "none",
   queueName |-> "", context |-> 0, duration |-> 9, tags |-> <<"tenant">>, skipSpans |-> "none",
   listed |-> {}, claimed |-> "no", spanCollapse |-> [on |-> TRUE, threshold |-> 2, keepSlowest |-> 0],
   traces |-> <<ErroredFind(5), SiblingOf("find", 1), SiblingOf("find", 2), SiblingOf("failed", 3)>>]
CollapseSettings ==
  {[on |-> TRUE, threshold |-> 2, keepSlowest |-> 0], [on |-> TRUE, threshold |-> 1, keepSlowest |-> 1],
   [on |-> TRUE, threshold |-> -1, keepSlowest |-> -1], [on |-> FALSE, threshold |-> 1, keepSlowest |-> 0]}
MCOperations ==
  LET lists == UNION {[1..n -> SiblingKinds] : n \in {0, 3, 4}}
      trees == {[i \in DOMAIN list |-> SiblingOf(list[i], i)] : list \in lists}
  IN {[PlainOperation EXCEPT !.traces = nodes, !.spanCollapse = setting] :
         nodes \in trees, setting \in CollapseSettings}
     \cup {[PlainOperation EXCEPT !.protocol = protocol, !.statusCode = status, !.error = error, !.context = ctx,
                                  !.skipSpans = skip, !.listed = {404}, !.claimed = claimed] :
             protocol \in {"http", "graphql", "tcp"}, status \in {Absent, 200, 404, 500}, error \in BOOLEAN,
             ctx \in {0, 77}, skip \in {"none", "list", "function"}, claimed \in {"yes", "no", "throws"}}
     \cup {[PlainOperation EXCEPT !.kind = "job", !.statusCode = Absent, !.status = status, !.error = error,
                                  !.queueName = queue, !.skipSpans = "function", !.claimed = "yes"] :
             status \in {"none", "completed", "failed"}, error \in BOOLEAN, queue \in {"mail", "cron"}}
-----------------------------------------------------------------------------
(* Batches for OtlpEncoding: spans with each field at its default and away   *)
(* from it, attributes of each type at their edges, texts long enough for    *)
(* lengths of one, two and three varint bytes and for the buffer to grow.    *)
Text(n) == [i \in 1..n |-> i % 7]
Str(n) == [type |-> "string", bytes |-> Text(n), number |-> 0]
Numeric(t, n) == [type |-> t, bytes |-> <<>>, number |-> n]
MCValues == {Str(0), Str(9), Numeric("boolean", 0), Numeric("boolean", 1), Numeric("integer", 0),
             Numeric("integer", Group), Numeric("integer", -1), Numeric("integer", -(Group ^ 2)),
             [type |-> "double", bytes |-> [i \in 1..FixedBytes |-> 2 * Group - i], number |-> 0]}
Attribute(v) == [key |-> Text(3), value |-> v]
EmptySpan ==
  [traceId |-> Text(4), spanId |-> Text(2), parentSpanId |-> <<>>, traceState |-> <<>>, name |-> <<>>, kind |-> 1,
   startTimeUnixNano |-> 0, endTimeUnixNano |-> Word - 1, attributes |-> <<>>, droppedAttributesCount |-> 0,
   events |-> <<>>, status |-> [code |-> 0, message |-> <<>>], flags |-> 0]
MCSpans ==
  LET exception == [timeUnixNano |-> Group, name |-> Text(2), attributes |-> <<Attribute(Str(1))>>]
  IN {[EmptySpan EXCEPT !.parentSpanId = parent, !.traceState = parent, !.name = name, !.attributes = attributes,
                        !.droppedAttributesCount = Len(name), !.events = events, !.status = status,
                        !.flags = Len(name) % Group, !.startTimeUnixNano = Len(name)] :
         parent \in {<<>>, Text(2)}, name \in {<<>>, Text(1), Text(3 * Group ^ 2)},
         attributes \in {<<>>} \cup {<<Attribute(v)>> : v \in MCValues}, events \in {<<>>, <<exception, exception>>},
         status \in {[code |-> 0, message |-> <<>>], [code |-> 2, message |-> <<>>], [code |-> 2, message |-> Text(1)]}}
PlainBatch == [resource |-> <<>>, scope |-> [name |-> Text(1), version |-> <<>>], spans |-> <<>>]
MCBatches ==
  {[PlainBatch EXCEPT !.spans = <<span>>] : span \in MCSpans}
  \cup {[PlainBatch EXCEPT !.resource = <<Attribute(v), Attribute(w)>>, !.spans = <<EmptySpan, EmptySpan>>] :
          v, w \in MCValues}
-----------------------------------------------------------------------------
(* Configurations for AgentStart: every reporting decision with every way    *)
(* `otlp` is asked for, and every pair of sources of one setting.            *)
NoPairs == [k \in {} |-> ""]
Pairs(name, value) == [k \in {name} |-> value]
PlainEnv ==
  [OBSERVE_ENDPOINT |-> Unset, production |-> FALSE, TRACES_ENDPOINT |-> Unset, ENDPOINT |-> Unset,
   TRACES_PROTOCOL |-> "unset", PROTOCOL |-> "unset", TRACES_COMPRESSION |-> "unset", COMPRESSION |-> "unset",
   TRACES_TIMEOUT |-> 0, TIMEOUT |-> 0, HEADERS |-> NoPairs, TRACES_HEADERS |-> NoPairs,
   RESOURCE_ATTRIBUTES |-> NoPairs, SERVICE_NAME |-> "unset"]
PlainOtlp ==
  [on |-> TRUE, endpoint |-> Unset, protocol |-> "unset", compression |-> "unset", timeoutMillis |-> 0,
   headers |-> NoPairs, resourceAttributes |-> NoPairs, serviceName |-> "unset"]
PlainOptions ==
  [enabled |-> TRUE, appKey |-> "real", appSecret |-> "real", endpoint |-> Unset, openTelemetry |-> TRUE,
   otlp |-> PlainOtlp, serviceId |-> "shop", flushInterval |-> 0, runtimeMetrics |-> TRUE]
PlainConfiguration == [options |-> PlainOptions, env |-> PlainEnv]

Elsewhere == Endpoint("elsewhere", "http", FALSE)
Reporting ==
  {[options |-> [PlainOptions EXCEPT !.enabled = enabled, !.appKey = appKey, !.appSecret = secret,
                                     !.endpoint = endpoint, !.openTelemetry = interop, !.otlp.on = otlp,
                                     !.flushInterval = interval],
    env |-> [PlainEnv EXCEPT !.production = production, !.OBSERVE_ENDPOINT = collector,
                             !.ENDPOINT = Elsewhere]] :
     enabled, interop, otlp, production \in BOOLEAN, appKey, secret \in {"unset", "placeholder", "real"},
     endpoint \in {Unset, Elsewhere}, collector \in {Unset, Endpoint("localhost", "http", FALSE)},
     interval \in {0, MIN_FLUSH_INTERVAL - 1}}
With(otlp, environment) == [options |-> [PlainOptions EXCEPT !.otlp = otlp], env |-> environment]
Endpoints == {Unset, Elsewhere, Endpoint("vendor", "https", TRUE), Endpoint("vendor", "grpc", FALSE)}
Texts == {"unset", "", "http/json", "grpc"}
Settings ==
  {With([PlainOtlp EXCEPT !.endpoint = e], [PlainEnv EXCEPT !.TRACES_ENDPOINT = f, !.ENDPOINT = g]) :
     e, f, g \in Endpoints}
  \cup {With([PlainOtlp EXCEPT !.protocol = e], [PlainEnv EXCEPT !.TRACES_PROTOCOL = f, !.PROTOCOL = g]) :
          e \in {"unset", "http/json", "http/protobuf"}, f, g \in Texts}
  \cup {With([PlainOtlp EXCEPT !.compression = e], [PlainEnv EXCEPT !.TRACES_COMPRESSION = f, !.COMPRESSION = g]) :
          e \in {"unset", "gzip", "none"}, f, g \in {"unset", "", "none", "br"}}
  \cup {With([PlainOtlp EXCEPT !.timeoutMillis = e], [PlainEnv EXCEPT !.TRACES_TIMEOUT = f, !.TIMEOUT = g]) :
          e, f, g \in {-1, 0, 3}}
  \cup {With([PlainOtlp EXCEPT !.headers = e, !.resourceAttributes = f],
             [PlainEnv EXCEPT !.HEADERS = f, !.TRACES_HEADERS = g, !.RESOURCE_ATTRIBUTES = g]) :
          e, f, g \in {NoPairs, Pairs("service.name", "a"), Pairs("other", "b")}}
  \cup {With([PlainOtlp EXCEPT !.serviceName = e, !.resourceAttributes = f], [PlainEnv EXCEPT !.SERVICE_NAME = g]) :
          e, g \in {"unset", "", "named"}, f \in {NoPairs, Pairs("service.name", "a")}}
MCConfigurations == Reporting \cup Settings
-----------------------------------------------------------------------------
(* Two deploys' commits, image references with one long name and two tags,   *)
(* and revisions of one service; a package inside a repository, perhaps a    *)
(* repository itself.                                                        *)
Commit_(c) == [head |-> c, tail |-> 0, long |-> TRUE, hex |-> TRUE]
Image(tag) == [head |-> 3, tail |-> tag, long |-> TRUE, hex |-> FALSE]
MCEnvVersions == {<<>>, <<Commit_(1)>>, <<Image(2), Commit_(2)>>, <<Image(1)>>}
MCRevisions == {<<>>, <<Image(1)>>, <<Image(2)>>}
MCPlaces == {<<>>, << <<"pkg", "app", "root">> >>, << <<"root">>, <<"app", "root">> >>,
             << <<"app", "root">>, <<"pkg", "app", "root">> >>}
MCCheckouts ==
  {[pkg |-> p, app |-> a, root |-> "none"] : p \in {"none", "inner", "unreadable"},
                                             a \in {"none", "outer"}}
-----------------------------------------------------------------------------
MCProfileNodes == <<[parent |-> 0, frame |-> ""], [parent |-> 1, frame |-> "handler"]>>

MCReplies ==   \* each mode, a reason that is not known, and flags that come together
  LET r == [NoReply EXCEPT !.degraded = TRUE]
  IN {[NoReply EXCEPT !.otlpExport = "full"], [r EXCEPT !.otlpExport = "capped"],
      [r EXCEPT !.trimmed = TRUE, !.paced = TRUE], [r EXCEPT !.paced = TRUE, !.otlpExport = "capped"],
      [r EXCEPT !.errorsOnly = TRUE, !.paced = TRUE, !.reason = "spike"],
      [r EXCEPT !.errorsOnly = TRUE, !.reason = "budget"], [r EXCEPT !.errorsOnly = TRUE, !.reason = "other"],
      [NoReply EXCEPT !.paced = TRUE]}
Symmetry == Permutations(Ops) \cup Permutations(Keys) \cup Permutations(Spans)

PlainRelease ==
  /\ env = <<>> /\ revision = <<>> /\ searchFrom = <<>> /\ dotGit = <<>> /\ worktree = FALSE
  /\ files = <<>> /\ git = "idle" /\ commits = 0 /\ reading = "env" /\ repo = "none"
  /\ inferred = None /\ heads = {}

TracesInit ==
  /\ recording \in Recorded
  /\ Init /\ ProfilingInit /\ UploadInit /\ SourceInit /\ NoticesInit
  /\ scrub \in IF recording = "redaction" THEN ScrubInputs ELSE {PlainScrub}
  /\ operation \in IF recording = "trees" THEN FinishedOperations ELSE {[PlainOperation EXCEPT !.traces = <<>>]}
  /\ encoded \in IF recording = "encoding" THEN Batches ELSE {PlainBatch}
  /\ writer = ProtoWriter /\ writerCalls = encodeOtlpProtobuf(encoded)
  /\ configuration \in IF recording = "start" THEN Configurations ELSE {PlainConfiguration}
  /\ agent = Before
  /\ IdsInit /\ (recording # "ids" => clock = 0)
  /\ IF recording = "release" THEN VersionInit ELSE PlainRelease

OfTraces(p, A) ==
  /\ recording = p /\ UNCHANGED <<recording, scrub, operation>>
  /\ A
  /\ IF p = "registry" THEN TRUE ELSE UNCHANGED vars
  /\ IF p = "profiling" THEN TRUE ELSE UNCHANGED profilingVars
  /\ IF p = "uploads" THEN TRUE ELSE UNCHANGED uploadVars
  /\ IF p = "source" THEN TRUE ELSE UNCHANGED sourceVars
  /\ IF p = "encoding" THEN TRUE ELSE UNCHANGED encodingVars
  /\ IF p = "start" THEN TRUE ELSE UNCHANGED startVars
  /\ IF p = "notices" THEN TRUE ELSE UNCHANGED noticeVars
  /\ IF p = "ids" THEN TRUE ELSE UNCHANGED idVars
  /\ IF p = "release" THEN TRUE ELSE UNCHANGED versionVars
TracesNext ==
  \/ OfTraces("registry", Next) \/ OfTraces("profiling", ProfilingNext)
  \/ OfTraces("uploads", UploadNext) \/ OfTraces("source", SourceNext)
  \/ OfTraces("encoding", EncodingNext) \/ OfTraces("start", StartNext) \/ OfTraces("notices", NoticesNext)
  \/ OfTraces("ids", IdsNext) \/ OfTraces("release", VersionNext)
TracesSpec == TracesInit /\ [][TracesNext]_tracesVars

(* A profile is cut where spans begin and end: bursts do not overlap, no     *)
(* instant belongs to two spans, samples are those of the span that ran, and *)
(* windows are uploaded in order, none lost but to a full queue              *)
(* (CpuProfiler, SpanSliceRecorder, ProfileUploader).                        *)
ProfilesAreSound ==
  /\ ProfilingTypeOK /\ OneSession /\ SlicesDisjoint /\ SamplesOfOpenSpans
  /\ UploadTypeOK /\ WindowsInOrder /\ LostOnlyToOverflow
=============================================================================
