---------------------------- MODULE WireContract ----------------------------
(* The shape the collector accepts, the encoders that must produce it, and   *)
(* the sanitizer that brings a refused batch back into it.  A JSON value is  *)
(* a record tagged with its kind; a string is its word (what an enumerated   *)
(* field compares) and its UTF-16 units (what a length limit counts).  The   *)
(* limits are scaled down: MAX_TEXT stands for 255, MAX_NAME for 100 and     *)
(* the other shorter ones.                                                   *)
EXTENDS Naturals, Sequences, FiniteSets, SequencesExt

CONSTANTS MAX_TEXT, MAX_NAME, MAX_LABELS, MAX_BATCH_ITEMS, MAX_OBJECTIVES,
          HASH_LENGTH, MAX_REMEMBERED,
          Inputs,     \* batches the collector may have refused, what the registry
                      \* and the metrics hand the encoders, or texts alone
          LongTexts   \* texts a field may be given

VARIABLES input, fitted, lastFit
wireVars == <<input, fitted, lastFit>>
refused == input.value
source == input.value

-----------------------------------------------------------------------------
(* Values: undefined is an absent key, NaN and Infinity a number not finite. *)
Str(word) == [kind |-> "string", word |-> word, text |-> <<0>>]
Text(units) == [kind |-> "string", word |-> "", text |-> units]
Num == [kind |-> "number", word |-> "", finite |-> TRUE]
Bool == [kind |-> "boolean"]
Null == [kind |-> "null"]
Obj(fields) == [kind |-> "object", fields |-> fields]
Arr(items) == [kind |-> "array", items |-> items]

HIGH == 2   \* the first half of a surrogate pair
LOW == 3    \* its second half
SELECTOR == 4
TILDE == 5

typeOf(v) == IF v.kind \in {"array", "null"} THEN "object" ELSE v.kind
isPlainObject(v) == v.kind = "object"
isPresent(fields, key) == key \in DOMAIN fields /\ fields[key].kind # "null"

(* The second half of a pair and a variation selector are no characters.     *)
exceedsMaxLength(text, max) ==
  LET pairs == {i \in 1..(Len(text) - 1) : text[i] = HIGH /\ text[i + 1] = LOW}
      selectors == {i \in 1..Len(text) : text[i] = SELECTOR}
  IN Len(text) - Cardinality(pairs) - Cardinality(selectors) > max

-----------------------------------------------------------------------------
(* The contract.  A nested shape is named, so that spans can nest in spans.  *)
Unlimited == 0
Field(type) == [type |-> type, also |-> {}, required |-> FALSE, fallback |-> FALSE,
                array |-> FALSE, shape |-> "", maxLength |-> Unlimited, oneOf |-> {},
                maxItems |-> Unlimited]
Required(f) == [f EXCEPT !.required = TRUE]
AtMost(n) == [Field("string") EXCEPT !.maxLength = n]
OneOf(words) == [Field("string") EXCEPT !.oneOf = words]
Shaped(shape) == [Field("object") EXCEPT !.shape = shape]
ListOf(shape, max) == [Shaped(shape) EXCEPT !.array = TRUE, !.maxItems = max]
Fields(keys, f) == [k \in keys |-> f]

TRACE_NODE ==
  [n |-> AtMost(MAX_TEXT), o |-> Required(OneOf({"manual", "auto"})),
   c |-> Required(AtMost(MAX_TEXT)), m |-> Required(AtMost(MAX_TEXT)),
   e |-> [Field("object") EXCEPT !.also = {"boolean"}],
   ch |-> ListOf("TRACE_NODE", Unlimited), t |-> Field("object"), s |-> Field("string")]
  @@ Fields({"d", "so"}, Field("number"))
REQUEST_ATTRIBUTES ==
  [sc |-> Field("number")] @@ Fields({"m", "ou", "dop"}, Field("string"))
TRACES == [ListOf("TRACE_NODE", Unlimited) EXCEPT !.required = TRUE, !.fallback = TRUE]
REQUEST_SNAPSHOT ==
  [ti |-> Required(AtMost(MAX_TEXT)), op |-> Required(Field("string")), d |-> Field("number"),
   a |-> Shaped("REQUEST_ATTRIBUTES"), t |-> TRACES]
  @@ Fields({"ct", "p", "u"}, Field("string")) @@ Fields({"tg", "e", "rq"}, Field("object"))
JOB_SNAPSHOT ==
  [i |-> Required(Field("string")), ti |-> Required(AtMost(MAX_TEXT)), t |-> TRACES]
  @@ Fields({"n", "q", "s", "c", "ea"}, Field("string"))
  @@ Fields({"d", "wd", "am", "ma"}, Field("number")) @@ Fields({"tg", "e"}, Field("object"))
GC_COLLECTIONS == Fields({"count", "duration"}, Field("number"))
RUNTIME_METRICS ==
  [c |-> Shaped("CPU"), m |-> Shaped("MEMORY"), g |-> Shaped("GC"), e |-> Shaped("EVENT_LOOP")]
CUSTOM_METRIC ==
  [n |-> Required(AtMost(MAX_NAME)), t |-> Required(OneOf({"counter", "gauge", "summary"})),
   d |-> AtMost(MAX_TEXT), lu |-> Field("number"), k |-> OneOf({"additive", "ratio", "peak"}),
   l |-> [AtMost(MAX_TEXT) EXCEPT !.array = TRUE, !.maxItems = MAX_LABELS]]
  @@ Fields({"v", "tg", "iv", "q50", "q95", "q99", "ct", "sm", "mx"}, Field("object"))
LOG_LEVELS == {"fatal", "error", "warn", "log", "debug", "verbose"}
LOG_ENTRY ==
  [timestamp |-> Required(Field("number")), text |-> Required(Field("string")),
   level |-> OneOf(LOG_LEVELS), attributes |-> Field("object")]
  @@ Fields({"traceId", "spanId", "context"}, AtMost(MAX_TEXT))
DECLARED_OBJECTIVE ==
  [availability |-> Field("number"), latency |-> Shaped("LATENCY"),
   windowDays |-> [Field("number") EXCEPT !.oneOf = {"7", "14", "28", "30"}],
   name |-> AtMost(MAX_NAME)]
OBJECTIVE_DECLARATION ==
  [method |-> AtMost(MAX_NAME), objectives |-> Required(ListOf("DECLARED_OBJECTIVE", MAX_OBJECTIVES))]
  @@ Fields({"handler", "operationId"}, Required(AtMost(MAX_TEXT)))
TELEMETRY_BATCH ==
  [serviceId |-> Required(AtMost(MAX_NAME)), serviceVersion |-> AtMost(MAX_NAME),
   truncatedSpans |-> Field("number"), forwardLogs |-> Field("boolean"),
   snapshots |-> ListOf("REQUEST_SNAPSHOT", MAX_BATCH_ITEMS),
   jobs |-> ListOf("JOB_SNAPSHOT", MAX_BATCH_ITEMS), runtime |-> Shaped("RUNTIME_METRICS"),
   custom |-> ListOf("CUSTOM_METRIC", MAX_BATCH_ITEMS), logs |-> ListOf("LOG_ENTRY", MAX_BATCH_ITEMS),
   objectives |-> ListOf("OBJECTIVE_DECLARATION", MAX_BATCH_ITEMS)]
SHAPES ==
  [TRACE_NODE |-> TRACE_NODE, REQUEST_ATTRIBUTES |-> REQUEST_ATTRIBUTES,
   REQUEST_SNAPSHOT |-> REQUEST_SNAPSHOT, JOB_SNAPSHOT |-> JOB_SNAPSHOT,
   RUNTIME_METRICS |-> RUNTIME_METRICS, GC_COLLECTIONS |-> GC_COLLECTIONS,
   CPU |-> Fields({"u", "s", "p"}, Field("number")),
   MEMORY |-> Fields({"r", "ht", "hu", "e", "ab", "p"}, Field("number")),
   GC |-> [b |-> Shaped("BREAKDOWN")] @@ Fields({"c", "td"}, Field("number")),
   BREAKDOWN |-> Fields({"m", "j", "i"}, Shaped("GC_COLLECTIONS")),
   EVENT_LOOP |-> Fields({"l", "u"}, Field("number")),
   CUSTOM_METRIC |-> CUSTOM_METRIC, LOG_ENTRY |-> LOG_ENTRY,
   LATENCY |-> Fields({"underMs", "target"}, Required(Field("number"))),
   DECLARED_OBJECTIVE |-> DECLARED_OBJECTIVE, OBJECTIVE_DECLARATION |-> OBJECTIVE_DECLARATION,
   TELEMETRY_BATCH |-> TELEMETRY_BATCH]
SECTION_SHAPES ==
  [snapshots |-> "REQUEST_SNAPSHOT", jobs |-> "JOB_SNAPSHOT", custom |-> "CUSTOM_METRIC",
   logs |-> "LOG_ENTRY", runtime |-> "RUNTIME_METRICS"]

RECURSIVE checkField(_, _)
checkObject(v, shape) ==
  /\ isPlainObject(v)
  /\ \A key \in DOMAIN shape :
       IF isPresent(v.fields, key) THEN checkField(v.fields[key], shape[key]) ELSE ~shape[key].required
  /\ DOMAIN v.fields \subseteq DOMAIN shape   \* forbidUnknown
checkShape(v, name) == checkObject(v, SHAPES[name])
checkField(v, spec) ==
  IF spec.array
  THEN /\ v.kind = "array" /\ (spec.maxItems # Unlimited => Len(v.items) <= spec.maxItems)
       /\ \A i \in DOMAIN v.items : checkField(v.items[i], [spec EXCEPT !.array = FALSE])
  ELSE \/ typeOf(v) \in spec.also
       \/ spec.shape # "" /\ checkShape(v, spec.shape)
       \/ spec.shape = "" /\ spec.type = "object" /\ isPlainObject(v)
       \/ /\ spec.shape = "" /\ spec.type # "object" /\ typeOf(v) = spec.type
          /\ spec.oneOf # {} => v.word \in spec.oneOf
          /\ spec.maxLength # Unlimited => ~exceedsMaxLength(v.text, spec.maxLength)

-----------------------------------------------------------------------------
EachOf(Op(_), seq) == FoldLeft(LAMBDA done, x : Append(done, Op(x)), <<>>, seq)

(* The repair.  A verdict is whether the value can still be sent, what is    *)
(* left of it, and whether a problem was reported.                           *)
Verdict(ok, v, reported) == [ok |-> ok, value |-> v, reported |-> reported]

fitsSpec(v, spec) ==
  IF spec.type = "object" THEN isPlainObject(v)
  ELSE /\ typeOf(v) = spec.type
       /\ spec.type = "number" => v.finite
       /\ spec.oneOf # {} => v.word \in spec.oneOf
       /\ spec.maxLength # Unlimited => ~exceedsMaxLength(v.text, spec.maxLength)

\* What is left of an object once each field that is there was judged.
repairObject(fields, shape, judged) ==
  LET there == {j.key : j \in judged}
      refusedKeys == {j.key : j \in {x \in judged : ~x.verdict.ok}}
      strippedKeys == {k \in refusedKeys : ~shape[k].required}
      missing == {k \in DOMAIN shape \ there : shape[k].required}
      filled == {k \in missing : shape[k].fallback}
      nulls == (missing \ filled) \cap DOMAIN fields
      repaired(k) == (CHOOSE j \in judged : j.key = k).verdict.value
  IN Verdict(
       missing = filled /\ refusedKeys = strippedKeys,
       Obj([k \in (there \ strippedKeys) \cup filled \cup nulls |->
              IF k \in there THEN repaired(k) ELSE IF k \in filled THEN Arr(<<>>) ELSE Null]),
       \/ DOMAIN fields \ DOMAIN shape # {} \/ missing # {}
       \/ \E j \in judged : j.verdict.reported)

\* What is left of a list once each of its items was judged.
repairList(each, max) ==
  LET usable == SelectSeq(each, LAMBDA r : r.ok)
      over == max # Unlimited /\ Len(usable) > max
      kept == IF over THEN SubSeq(usable, 1, max) ELSE usable
  IN Verdict(TRUE, Arr([i \in DOMAIN kept |-> kept[i].value]),
             over \/ \E i \in DOMAIN each : each[i].reported)

RECURSIVE sanitizeField(_, _)
sanitizeObject(fields, shape) ==
  repairObject(fields, shape,
    {[key |-> k, verdict |-> sanitizeField(fields[k], shape[k])] : k \in {x \in DOMAIN shape : isPresent(fields, x)}})
sanitizeShape(v, name) ==
  IF isPlainObject(v) THEN sanitizeObject(v.fields, SHAPES[name]) ELSE Verdict(FALSE, v, TRUE)
sanitizeField(v, spec) ==
  IF spec.array
  THEN IF v.kind # "array" THEN Verdict(FALSE, v, TRUE)
       ELSE repairList(EachOf(LAMBDA x : sanitizeField(x, [spec EXCEPT !.array = FALSE]), v.items), spec.maxItems)
  ELSE IF typeOf(v) \in spec.also THEN Verdict(TRUE, v, FALSE)
  ELSE IF spec.shape # "" THEN sanitizeShape(v, spec.shape)
  ELSE Verdict(fitsSpec(v, spec), v, ~fitsSpec(v, spec))

sanitizeEntry_noisy(section, entry) ==
  [sanitizeShape(entry, SECTION_SHAPES[section]) EXCEPT !.reported = TRUE]
sanitizeEntry(section, entry) == sanitizeShape(entry, SECTION_SHAPES[section])
ArraySections == {"snapshots", "jobs", "custom", "logs"}

\* What is left of a batch: judged are its lists, run what became of the sample.
repairBatch(f, judged, run) ==
  LET lists == {j.section : j \in judged}
      keptOf(j) == SelectSeq(j.verdicts, LAMBDA r : r.ok)
      repaired(s) == LET kept == keptOf(CHOOSE j \in judged : j.section = s)
                    IN Arr([i \in DOMAIN kept |-> kept[i].value])
      hasRuntime == isPresent(f, "runtime")
      noRuntime == hasRuntime /\ ~run.ok
      left == IF noRuntime THEN DOMAIN f \ {"runtime"} ELSE DOMAIN f
  IN [payload |-> Obj([s \in left |->
                        IF s \in lists THEN repaired(s)
                        ELSE IF s = "runtime" /\ hasRuntime THEN run.value ELSE f[s]]),
      changed |-> \/ \E j \in judged : \E i \in DOMAIN j.verdicts : j.verdicts[i].reported
                  \/ hasRuntime /\ run.reported,
      dropped |-> FoldSet(LAMBDA j, n : n + Len(j.verdicts) - Len(keptOf(j)), IF noRuntime THEN 1 ELSE 0, judged)]
sanitizeBatch(payload) ==
  repairBatch(payload.fields,
    {[section |-> s, verdicts |-> EachOf(LAMBDA x : sanitizeEntry(s, x), payload.fields[s].items)] :
       s \in {x \in ArraySections \cap DOMAIN payload.fields : payload.fields[x].kind = "array"}},
    sanitizeEntry("runtime", payload.fields["runtime"]))

-----------------------------------------------------------------------------
(* Cutting a text to a limit, with a hash of the whole at its end.  The hash *)
(* is HASH_LENGTH units; that two texts do not share one is taken from the   *)
(* digest, so the first of the units is a number of the whole text.          *)
Digest(text) ==
  <<10 + FoldLeft(LAMBDA a, u : 7 * a + u + 1, 0, text)>> \o [i \in 1..(HASH_LENGTH - 1) |-> 0]
cutTo(text, max) ==
  LET full == max - HASH_LENGTH - 1
      head == IF text[full] = HIGH THEN full - 1 ELSE full
  IN IF Len(text) <= max THEN text
     ELSE SubSeq(text, 1, head) \o <<TILDE>> \o Digest(text)

fittedKey(text, max) == <<max, text>>
fitToLength(text, max) ==
  LET key == fittedKey(text, max)
      fresh == key \notin DOMAIN fitted
      cut == IF Len(text) <= max \/ fresh THEN cutTo(text, max) ELSE fitted[key]
      before == IF Cardinality(DOMAIN fitted) >= MAX_REMEMBERED THEN <<>> ELSE fitted
  IN /\ lastFit' = [text |-> text, max |-> max, cut |-> cut]
     /\ fitted' = IF Len(text) > max /\ fresh THEN (key :> cut) @@ before ELSE fitted

-----------------------------------------------------------------------------
(* The encoders.                                                             *)
remapKeys(obj, keyMap) ==
  LET known == DOMAIN obj \cap DOMAIN keyMap
  IN [short \in {keyMap[k] : k \in known} |-> obj[CHOOSE k \in known : keyMap[k] = short]]

CutField(fields, key, max) ==
  IF key \in DOMAIN fields /\ fields[key].kind = "string"
  THEN [fields EXCEPT ![key].text = cutTo(@, max)] ELSE fields

TRACE_KEY_MAP ==
  [name |-> "n", origin |-> "o", tags |-> "t", duration |-> "d", error |-> "e", className |-> "c",
   methodKey |-> "m", children |-> "ch", spanId |-> "s", startOffset |-> "so"]
fitSpanText(fields) == CutField(CutField(CutField(fields, "n", MAX_TEXT), "c", MAX_TEXT), "m", MAX_TEXT)
RECURSIVE encodeTrace(_)
encodeTrace(span) ==
  LET encoded == fitSpanText(remapKeys(span.fields, TRACE_KEY_MAP))
      below == span.fields["children"].items
  IN Obj(IF below = <<>> THEN encoded
         ELSE [encoded EXCEPT !["ch"] = Arr([i \in DOMAIN below |-> encodeTrace(below[i])])])
encodeTraces(snapshot) ==
  Arr(IF "traces" \in DOMAIN snapshot
      THEN [i \in DOMAIN snapshot["traces"].items |-> encodeTrace(snapshot["traces"].items[i])]
      ELSE <<>>)

ATTRIBUTES_KEY_MAP ==
  [method |-> "m", statusCode |-> "sc", originalUrl |-> "ou", defaultOperationId |-> "dop"]
REQUEST_KEY_MAP ==
  [calledAt |-> "ct", traceId |-> "ti", startTimestamp |-> "st", duration |-> "d", protocol |-> "p",
   operationId |-> "op", traces |-> "t", attributes |-> "a", tags |-> "tg", error |-> "e",
   userId |-> "u", request |-> "rq"]
encodeRequest(s) ==
  LET encoded == [t |-> encodeTraces(s)] @@ remapKeys(s, REQUEST_KEY_MAP)
  IN Obj(IF "attributes" \in DOMAIN s
         THEN [a |-> Obj(remapKeys(s["attributes"].fields, ATTRIBUTES_KEY_MAP))] @@ encoded
         ELSE encoded)

JOB_KEY_MAP ==
  [id |-> "i", traceId |-> "ti", name |-> "n", queueName |-> "q", status |-> "s", calledAt |-> "c",
   startTimestamp |-> "st", duration |-> "d", enqueuedAt |-> "ea", waitDuration |-> "wd",
   attemptsMade |-> "am", maxAttempts |-> "ma", tags |-> "tg", traces |-> "t", error |-> "e"]
encodeJob(s) == Obj([t |-> encodeTraces(s)] @@ remapKeys(s, JOB_KEY_MAP))

RUNTIME_METRICS_KEY_MAP == [cpu |-> "c", memory |-> "m", gc |-> "g", eventLoop |-> "e"]
CPU_KEY_MAP == [user |-> "u", system |-> "s", percentageUsed |-> "p"]
MEMORY_KEY_MAP ==
  [rss |-> "r", heapTotal |-> "ht", heapUsed |-> "hu", external |-> "e", arrayBuffers |-> "ab",
   percentageUsed |-> "p"]
GC_KEY_MAP == [count |-> "c", totalDuration |-> "td", breakdown |-> "b"]
GC_BREAKDOWN_KEY_MAP == [minor |-> "m", major |-> "j", incremental |-> "i"]
EVENT_LOOP_KEY_MAP == [lag |-> "l", utilization |-> "u"]
encodeRuntime(w) ==
  LET gc == remapKeys(w["gc"].fields, GC_KEY_MAP)
      breakdown == IF isPresent(gc, "b")
                   THEN [gc EXCEPT !["b"] = Obj(remapKeys(@.fields, GC_BREAKDOWN_KEY_MAP))] ELSE gc
  IN Obj([remapKeys(w, RUNTIME_METRICS_KEY_MAP) EXCEPT
            !["c"] = Obj(remapKeys(@.fields, CPU_KEY_MAP)),
            !["m"] = Obj(remapKeys(@.fields, MEMORY_KEY_MAP)),
            !["g"] = Obj(breakdown),
            !["e"] = Obj(remapKeys(@.fields, EVENT_LOOP_KEY_MAP))])

CUSTOM_METRICS_KEY_MAP ==
  [name |-> "n", type |-> "t", value |-> "v", tags |-> "tg", description |-> "d", labels |-> "l",
   lastUpdated |-> "lu", kind |-> "k", increase |-> "iv", p50 |-> "q50", p95 |-> "q95",
   p99 |-> "q99", observations |-> "ct", total |-> "sm", maximum |-> "mx"]
(* The own properties of the metric objects; the rest are getters, which the *)
(* encoder copies by name.                                                   *)
OwnKeys == {"name", "type", "value", "description", "labels", "kind"}
SUMMARY_KEYS == {"p50", "p95", "p99", "observations", "total", "maximum"}
fitLabels(labels) ==
  IF Len(labels) <= MAX_LABELS /\ \A i \in DOMAIN labels : Len(labels[i].text) <= MAX_TEXT THEN labels
  ELSE [i \in 1..(IF Len(labels) < MAX_LABELS THEN Len(labels) ELSE MAX_LABELS) |-> [labels[i] EXCEPT !.text = cutTo(@, MAX_TEXT)]]
(* A summary's map, as the sequence of the texts it is keyed by.             *)
fitSummaryKeys(series) == fitLabels(series)
encodeMetric(s) ==
  LET own == {k \in DOMAIN s \cap OwnKeys : ~(s["type"].word = "summary" /\ k = "value")}
      copied == (DOMAIN s \cap {"tags", "lastUpdated"})
        \cup (IF s["type"].word = "counter" THEN DOMAIN s \cap {"increase"} ELSE {})
        \cup (IF s["type"].word = "summary" THEN {k \in DOMAIN s \cap SUMMARY_KEYS : s[k].series # <<>>} ELSE {})
      encoded == remapKeys([k \in own \cup copied |-> s[k]], CUSTOM_METRICS_KEY_MAP)
      labelled == IF "l" \in DOMAIN encoded THEN [encoded EXCEPT !["l"].items = fitLabels(@)] ELSE encoded
      summed == [k \in DOMAIN labelled |->
                   IF k \in {CUSTOM_METRICS_KEY_MAP[q] : q \in SUMMARY_KEYS}
                   THEN [labelled[k] EXCEPT !.series = fitSummaryKeys(@)] ELSE labelled[k]]
  IN Obj(CutField(CutField(summed, "n", MAX_NAME), "d", MAX_TEXT))

Encoded(s) ==
  CASE s.section = "snapshots" -> encodeRequest(s.fields)
    [] s.section = "jobs" -> encodeJob(s.fields)
    [] s.section = "runtime" -> encodeRuntime(s.fields)
    [] s.section = "custom" -> encodeMetric(s.fields)

-----------------------------------------------------------------------------
WireInit ==
  /\ input \in Inputs
  /\ fitted = <<>> /\ lastFit = [text |-> <<>>, max |-> MAX_TEXT, cut |-> <<>>]
WireNext ==
  /\ input.about = "text" /\ UNCHANGED input
  /\ \E t \in LongTexts, m \in {MAX_TEXT, MAX_NAME} : fitToLength(t, m)

(* The state's types.                                                        *)
WireTypeOK ==
  /\ input.about \in {"batch", "source", "text"}
  /\ \A key \in DOMAIN fitted : fitted[key] \in Seq(Nat)
  /\ Cardinality(DOMAIN fitted) <= MAX_REMEMBERED

(* What JSON makes of a value the collector judges: a number that is not     *)
(* finite arrives as null, and a declared field must not be null.            *)
RECURSIVE NoNulls(_, _)
NoNulls(v, shape) ==
  \A key \in DOMAIN v.fields \cap DOMAIN shape :
    LET f == v.fields[key]
        each == IF f.kind = "array" THEN f.items ELSE <<f>>
    IN \A i \in DOMAIN each :
         /\ each[i].kind # "null" /\ (each[i].kind = "number" => each[i].finite)
         /\ shape[key].shape # "" /\ isPlainObject(each[i]) => NoNulls(each[i], SHAPES[shape[key].shape])
InContract(payload) == checkShape(payload, "TELEMETRY_BATCH") /\ NoNulls(payload, TELEMETRY_BATCH)

(* A repaired batch is one the collector accepts: no undeclared key, no      *)
(* null, no value out of its limits, no entry without what it must have, at  *)
(* any depth of its span trees (createTelemetrySanitizer).                   *)
RepairedIsAccepted == input.about = "batch" => InContract(sanitizeBatch(refused).payload)

(* A batch in contract comes through the repair untouched and is not sent a  *)
(* second time (repairAndResend).                                            *)
InContractUntouched ==
  input.about = "batch" /\ InContract(refused) =>
    sanitizeBatch(refused) = [payload |-> refused, changed |-> FALSE, dropped |-> 0]

(* A batch is sent again only when it is another batch, and the entries said *)
(* to be dropped are the ones missing from it (sanitizeBatch).               *)
Entries(payload) ==
  FoldSet(LAMBDA s, n : n + IF payload.fields[s].kind = "array" THEN Len(payload.fields[s].items) ELSE 1,
          0, DOMAIN payload.fields \cap DOMAIN SECTION_SHAPES)
WorthIt(repair) ==
  /\ repair.changed => repair.payload # refused
  /\ repair.dropped = Entries(refused) - Entries(repair.payload)
ResendIsWorthIt == input.about = "batch" => WorthIt(sanitizeBatch(refused))

(* What the encoders make of what the registry and the metrics produce is in *)
(* contract: no key the collector refuses, no text over its limit, and every *)
(* summary's series under a label the metric declares.                       *)
MeetsTheContract(v, section) ==
  LET texts(seq) == {seq[i].text : i \in DOMAIN seq}
  IN /\ checkShape(v, SECTION_SHAPES[section])
     /\ section = "custom" =>
          \A k \in DOMAIN v.fields \cap {"q50", "mx"} : texts(v.fields[k].series) \subseteq texts(v.fields["l"].items)
EncodersMeetTheContract == input.about = "source" => MeetsTheContract(Encoded(source), source.section)

(* A cut text is within its limit whichever limit it was first cut to, does  *)
(* not end in half a pair, and two texts cut to one limit stay apart.        *)
CutsStayApart ==
  /\ Len(lastFit.cut) <= lastFit.max
  /\ \A i \in 1..(Len(lastFit.cut) - 1) :
       lastFit.text # lastFit.cut /\ lastFit.cut[i] = HIGH /\ lastFit.cut[i + 1] = TILDE => lastFit.text[i + 1] # LOW
  /\ \A key \in DOMAIN fitted : key[1] = lastFit.max /\ key[2] # lastFit.text => fitted[key] # lastFit.cut

(* What is sent meets the collector's contract, before or after a repair,    *)
(* and a repair is made only where it helps (createTelemetrySanitizer,       *)
(* fitToLength).                                                             *)
RepairIsSound ==
  /\ WireTypeOK
  /\ RepairedIsAccepted /\ InContractUntouched /\ ResendIsWorthIt
  /\ EncodersMeetTheContract /\ CutsStayApart

(* What the result's documentation says of `changed`: it is FALSE only when  *)
(* nothing was stripped or dropped.                                          *)
Untouched(repair) == ~repair.changed => repair.payload = refused
UnchangedMeansUntouched == input.about = "batch" => Untouched(sanitizeBatch(refused))
=============================================================================
