----------------------------- MODULE AgentStart -----------------------------
(* What the agent makes of its options and of the environment when it        *)
(* starts: whether it reports, whether it exports over OTLP and where, and   *)
(* what it says about either.  An endpoint is a record of what is told apart *)
(* of a URL; a text setting that is not there is "unset".                    *)
EXTENDS Integers, Sequences

CONSTANTS Configurations,       \* [options, env] the process may start with
          MIN_FLUSH_INTERVAL, DEFAULT_FLUSH_INTERVAL,
          DEFAULT_TIMEOUT_MS

VARIABLES configuration,
          agent                 \* what start-up decided, or the agent before it
startVars == <<configuration, agent>>

Endpoint(host, scheme, tracesPath) == [host |-> host, scheme |-> scheme, tracesPath |-> tracesPath]
Unset == Endpoint("", "", FALSE)
EndpointRecords == [host : STRING, scheme : STRING, tracesPath : BOOLEAN]

\* Options in the types of their interface.
ASSUME StartAssumption ==
  /\ MIN_FLUSH_INTERVAL \in Int /\ DEFAULT_FLUSH_INTERVAL \in Int /\ DEFAULT_TIMEOUT_MS \in Int
  /\ \A c \in Configurations :
       /\ c.options.flushInterval \in Int /\ c.options.otlp.timeoutMillis \in Int
       /\ c.options.otlp.endpoint \in EndpointRecords
       /\ c.options.otlp.protocol \in {"unset", "http/json", "http/protobuf"}
       /\ c.options.otlp.compression \in {"unset", "gzip", "none"}
       /\ c.env.TRACES_ENDPOINT \in EndpointRecords /\ c.env.ENDPOINT \in EndpointRecords
HOSTED_COLLECTOR_ENDPOINT == Endpoint("observe", "https", FALSE)
DEFAULT_ENDPOINT == Endpoint("localhost", "http", FALSE)
Loopback == {"localhost"}

-----------------------------------------------------------------------------
(* Whether the agent reports to Observe.  A key is "unset", "placeholder" -  *)
(* the one nest new writes - or "real".                                      *)
collectorEndpointOf(c) ==
  IF c.options.endpoint # Unset THEN c.options.endpoint
  ELSE IF c.env.OBSERVE_ENDPOINT # Unset THEN c.env.OBSERVE_ENDPOINT ELSE HOSTED_COLLECTOR_ENDPOINT
hasScaffoldCredentials(o) == o.appKey = "placeholder" /\ o.appSecret = "placeholder"
isHostedCollector(e) == e.host = HOSTED_COLLECTOR_ENDPOINT.host
lacksHostedCredentials(c) ==
  /\ c.options.appKey = "unset" \/ c.options.appSecret = "unset"
  /\ isHostedCollector(collectorEndpointOf(c))
sendsToObserve(c) ==
  /\ c.options.enabled
  /\ ~hasScaffoldCredentials(c.options)
  /\ ~lacksHostedCredentials(c)

(* The level and the reason of the one line about missing credentials.       *)
describeMissingCredentials(c) ==
  LET scaffold == hasScaffoldCredentials(c.options)
      unset == {k \in {"appKey", "appSecret"} : c.options[k] = "unset"}
  IN [level |-> IF scaffold /\ ~c.env.production THEN "log" ELSE "warn",
      about |-> IF scaffold THEN {"placeholders"} ELSE unset]

warnsOfClearText(c) ==
  /\ c.options.appKey # "unset" \/ c.options.appSecret # "unset"
  /\ collectorEndpointOf(c).scheme = "http" /\ collectorEndpointOf(c).host \notin Loopback

-----------------------------------------------------------------------------
(* resolveOtlpSettings.                                                      *)
First(a, b, c, fallback) ==   \* a ?? b ?? c: what is set, the empty text too
  IF a # "unset" THEN a ELSE IF b # "unset" THEN b ELSE IF c # "unset" THEN c ELSE fallback
positive(n) == n > 0
FirstPositive(a, b, c, fallback) ==
  IF positive(a) THEN a ELSE IF positive(b) THEN b ELSE IF positive(c) THEN c ELSE fallback
toTracesUrl(e) == [e EXCEPT !.tracesPath = TRUE]
tracesUrl(o, env) ==
  IF o.endpoint # Unset THEN toTracesUrl(o.endpoint)
  ELSE IF env.TRACES_ENDPOINT # Unset THEN env.TRACES_ENDPOINT
  ELSE toTracesUrl(IF env.ENDPOINT # Unset THEN env.ENDPOINT ELSE DEFAULT_ENDPOINT)
isHttp(e) == e.scheme \in {"http", "https"}
(* parseKeyValueList gives functions; the later of two wins.                 *)
over(f, g) == [k \in DOMAIN f \cup DOMAIN g |-> IF k \in DOMAIN g THEN g[k] ELSE f[k]]
named(f, name) == IF name = "unset" \/ name = "" THEN f ELSE over(f, [k \in {"service.name"} |-> name])
resourceOf(o, env, serviceId) ==
  LET known == [k \in {"service.name", "service.instance.id"} |-> IF k = "service.name" THEN serviceId ELSE "uuid"]
      fromEnv == named(over(known, env.RESOURCE_ATTRIBUTES), env.SERVICE_NAME)
  IN named(over(fromEnv, o.resourceAttributes), o.serviceName)
otlpProtocol(setting) == IF setting = "http/json" THEN setting ELSE "http/protobuf"
otlpCompression(setting) == IF setting = "none" THEN setting ELSE "gzip"
settingWarnings(protocol, compression) ==
  (IF protocol \in {"", "http/json", "http/protobuf"} THEN 0 ELSE 1)   \* grpc, or unknown
  + (IF compression \in {"", "none", "gzip"} THEN 0 ELSE 1)

NoSettings == [url |-> Unset, protocol |-> "", compression |-> "", timeoutMs |-> 0,
               headers |-> [k \in {} |-> ""], resource |-> [k \in {} |-> ""]]
resolveOtlpSettings(c) ==
  LET o == c.options.otlp
      env == c.env
      url == tracesUrl(o, env)
      protocol == First(o.protocol, env.TRACES_PROTOCOL, env.PROTOCOL, "")
      compression == First(o.compression, env.TRACES_COMPRESSION, env.COMPRESSION, "")
  IN IF ~isHttp(url) THEN [settings |-> NoSettings, warnings |-> 1]
     ELSE [settings |-> [url |-> url, protocol |-> otlpProtocol(protocol),
                         compression |-> otlpCompression(compression),
                         timeoutMs |-> FirstPositive(o.timeoutMillis, env.TRACES_TIMEOUT, env.TIMEOUT,
                                                     DEFAULT_TIMEOUT_MS),
                         headers |-> over(over(env.HEADERS, env.TRACES_HEADERS), o.headers),
                         resource |-> resourceOf(o, env, c.options.serviceId)],
           warnings |-> settingWarnings(protocol, compression)]

(* The exporter's constructor: off without a word when it was not asked for  *)
(* or the agent is off, else for a reason it gives.                          *)
OtlpTraceExporter_noInterop(c) ==
  IF ~c.options.otlp.on \/ ~c.options.enabled THEN [settings |-> NoSettings, warnings |-> 0]
  ELSE IF ~sendsToObserve(c) THEN [settings |-> NoSettings, warnings |-> 1]
  ELSE resolveOtlpSettings(c)
OtlpTraceExporter(c) ==
  LET off(n) == [settings |-> NoSettings, warnings |-> n]
  IN IF ~c.options.otlp.on \/ ~c.options.enabled THEN off(0)
     ELSE IF ~c.options.openTelemetry \/ ~sendsToObserve(c) THEN off(1)
     ELSE resolveOtlpSettings(c)
exporterEnabled(settings) == settings # NoSettings

-----------------------------------------------------------------------------
Before == [started |-> FALSE, worker |-> FALSE, said |-> <<>>, exporter |-> NoSettings, exportWarnings |-> 0,
           asksForOtlpExport |-> FALSE, flushInterval |-> 0, workerInterval |-> 0, runtimeMetrics |-> FALSE]
StartInit == configuration \in Configurations /\ agent = Before

(* onModuleInit of the exporter and of the agent.  The interval is clamped   *)
(* before the worker starts, which backs off from it.                        *)
flushIntervalOf(c) ==
  LET asked == IF c.options.flushInterval = 0 THEN DEFAULT_FLUSH_INTERVAL ELSE c.options.flushInterval
      clamped == IF asked < MIN_FLUSH_INTERVAL THEN MIN_FLUSH_INTERVAL ELSE asked
  IN [timer |-> clamped, option |-> clamped]
onModuleInit ==
  LET c == configuration
      export == OtlpTraceExporter(c)
      interval == flushIntervalOf(c)
      missing == hasScaffoldCredentials(c.options) \/ lacksHostedCredentials(c)
      lines == (IF ~c.options.enabled THEN <<[level |-> "log", about |-> {"disabled"}]>>
                ELSE IF missing THEN <<describeMissingCredentials(c)>>
                ELSE IF warnsOfClearText(c) THEN <<[level |-> "warn", about |-> {"clear text"}]>> ELSE <<>>)
               \o (IF c.options.openTelemetry /\ ~sendsToObserve(c)
                   THEN <<[level |-> "warn", about |-> {"interop"}]>> ELSE <<>>)
      starts == c.options.enabled /\ ~missing
  IN /\ ~agent.started
     /\ agent' = [started |-> TRUE, worker |-> starts, said |-> lines, exporter |-> export.settings,
                  exportWarnings |-> export.warnings, asksForOtlpExport |-> starts /\ exporterEnabled(export.settings),
                  flushInterval |-> interval.timer, workerInterval |-> interval.option,
                  runtimeMetrics |-> sendsToObserve(c) /\ c.options.runtimeMetrics]
     /\ UNCHANGED configuration
StartNext == onModuleInit
StartSpec == StartInit /\ [][StartNext]_startVars

-----------------------------------------------------------------------------
StartTypeOK == agent.exportWarnings \in 0..2 /\ Len(agent.said) <= 2

(* Export runs beside reporting, never instead of it, and never unasked:     *)
(* whatever the environment says, an exporter is there only when `otlp` and  *)
(* openTelemetry are on and the worker that asks the collector for a grant   *)
(* was started.                                                              *)
ExportBesideReporting ==
  agent.started /\ exporterEnabled(agent.exporter) =>
    /\ configuration.options.otlp.on /\ configuration.options.openTelemetry
    /\ agent.worker /\ agent.asksForOtlpExport
    /\ isHttp(agent.exporter.url)
    /\ agent.exporter.url.tracesPath \/ agent.exporter.url = configuration.env.TRACES_ENDPOINT

(* Silence is explained: an agent that sends nothing says so in exactly one  *)
(* line - naming only credentials that are really missing, and as a warning  *)
(* in production - and one asked to export that will not says why, unless    *)
(* the agent is off as a whole.                                              *)
SilenceExplained ==
  LET o == configuration.options
      quiet == {i \in DOMAIN agent.said :
                  agent.said[i].about \cap {"disabled", "placeholders", "appKey", "appSecret"} # {}}
  IN agent.started =>
       /\ agent.worker <=> quiet = {}
       /\ \A i, j \in quiet : i = j
       /\ \A i \in quiet : \A k \in agent.said[i].about \cap {"appKey", "appSecret"} : o[k] = "unset"
       /\ configuration.env.production /\ o.enabled => \A i \in quiet : agent.said[i].level = "warn"
       /\ o.otlp.on /\ o.enabled /\ ~exporterEnabled(agent.exporter) => agent.exportWarnings > 0

(* What the application says in code wins over the environment, and the      *)
(* signal's variable over the generic one, for every setting alike.          *)
CodeOverEnvironment ==
  LET o == configuration.options.otlp
      env == configuration.env
      s == agent.exporter
  IN agent.started /\ exporterEnabled(s) =>
       /\ o.endpoint # Unset => s.url.host = o.endpoint.host
       /\ o.endpoint = Unset /\ env.TRACES_ENDPOINT # Unset => s.url = env.TRACES_ENDPOINT
       /\ o.protocol # "unset" => s.protocol = o.protocol
       /\ o.compression # "unset" => s.compression = o.compression
       /\ o.timeoutMillis > 0 => s.timeoutMs = o.timeoutMillis
       /\ \A k \in DOMAIN o.headers : s.headers[k] = o.headers[k]
       /\ DOMAIN env.HEADERS \subseteq DOMAIN s.headers
       /\ \A k \in DOMAIN env.TRACES_HEADERS \ DOMAIN o.headers : s.headers[k] = env.TRACES_HEADERS[k]
       /\ o.serviceName \notin {"unset", ""} => s.resource["service.name"] = o.serviceName
       /\ "service.instance.id" \in DOMAIN s.resource

(* The interval the timer runs at is the one the worker backs off from, and  *)
(* never below the minimum.                                                  *)
OneFlushInterval ==
  agent.started => agent.flushInterval = agent.workerInterval /\ agent.flushInterval >= MIN_FLUSH_INTERVAL

(* The agent starts as it is configured, and says so where it does not       *)
(* report or export (onModuleInit, resolveOtlpSettings).                     *)
StartsAsConfigured ==
  StartTypeOK /\ ExportBesideReporting /\ SilenceExplained /\ CodeOverEnvironment /\ OneFlushInterval
=============================================================================
