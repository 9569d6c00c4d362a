---------------------------- MODULE OperationsMC ----------------------------
(* What happens around an operation: see ServicesMC for how parts are joined.*)
EXTENDS TLC, Operations, JobRuns, Instrumentation, OutgoingSpans, FetchObserver, TracePropagation,
        GraphqlDocument, ModelCalls, SqlStatements

CONSTANT Parts   \* the parts a behaviour may pick
VARIABLE part
operationsVars == <<part, opsVars, jobVars, instrumentVars, outgoingVars, fetchVars, propagationVars,
                    documentVars, modelVars, sqlVars>>

MCPlans ==
  LET p == [how |-> "http", generated |-> 9, callback |-> "quiet", ignore |-> "no",
            sampled |-> "yes", preflight |-> FALSE, unparsable |-> FALSE]
  IN {[p EXCEPT !.how = "rpc", !.callback = "reaches"], [p EXCEPT !.how = "ws"],
      [p EXCEPT !.how = "grpc", !.generated = 0], [p EXCEPT !.how = "graphql"],
      [p EXCEPT !.preflight = TRUE], [p EXCEPT !.ignore = "yes"],
      [p EXCEPT !.how = "grpc", !.ignore = "throws"],
      [p EXCEPT !.how = "grpc", !.sampled = "throws"],
      [p EXCEPT !.how = "graphql", !.sampled = "no"],
      [p EXCEPT !.how = "graphql", !.unparsable = TRUE]}
MCSettings ==
  LET s == [enabled |-> TRUE, tracePreflights |-> TRUE, samples |-> TRUE,
            hooked |-> {"http", "rpc", "grpc", "ws"}]
  IN {s, [s EXCEPT !.enabled = FALSE],
      [s EXCEPT !.tracePreflights = FALSE, !.samples = FALSE, !.hooked = @ \ {"ws"}]}

MCEnqueued ==
  LET e == [NoJob EXCEPT !.ctx = GoodId, !.opts = "plain", !.kind = "promise", !.layers = 1]
  IN {e, [e EXCEPT !.ctx = NoId], [e EXCEPT !.ctx = BadId, !.kind = "sync"],
      [e EXCEPT !.opts = "repeat"], [e EXCEPT !.opts = "stamped", !.ctx = NoId],
      [e EXCEPT !.opts = "invalid"], [e EXCEPT !.kind = "callback"], [e EXCEPT !.ignored = TRUE],
      [e EXCEPT !.layers = 2], [e EXCEPT !.layers = 2, !.outer = TRUE],
      [e EXCEPT !.layers = 2, !.hasId = FALSE], [e EXCEPT !.layers = 2, !.hasId = FALSE, !.outer = TRUE]}

MCProviders ==
  LET class == [name |-> "AppService", native |-> FALSE, slots |-> FALSE, privates |-> FALSE,
                members |-> {"get", "load"}]
      map == [class EXCEPT !.name = "Map", !.native = TRUE, !.slots = TRUE]
      config == [class EXCEPT !.name = "ConfigService", !.members = @ \cup {"getFromValidatedEnv"}]
      mongo == [class EXCEPT !.name = "MongoClient", !.members = @ \cup {"startSession", "db"}]
      p == [kind |-> "object", chain |-> <<class>>, own |-> {}, skip |-> FALSE, unreadable |-> FALSE,
            isCluster |-> FALSE, fields |-> [m \in {"get", "load"} |-> "method"]]
  IN {p, [p EXCEPT !.chain = <<[class EXCEPT !.privates = TRUE]>>],
      [p EXCEPT !.chain = <<map>>], [p EXCEPT !.chain = <<class, map>>],
      [p EXCEPT !.chain = <<config>>], [p EXCEPT !.chain = <<mongo>>],
      [p EXCEPT !.kind = "function"]}

MCIssues ==
  LET i == [kind |-> "pg", form |-> "promise", described |-> TRUE, op |-> "a"]
  IN {i, [i EXCEPT !.described = FALSE], [i EXCEPT !.op = "sampledOut"],
      [i EXCEPT !.kind = "pgPool"], [i EXCEPT !.kind = "mysqlPoolQuery", !.op = "b"],
      [i EXCEPT !.kind = "mysqlPoolExecute", !.form = "throws"],
      [i EXCEPT !.kind = "mongodb", !.form = "callback"],
      [i EXCEPT !.kind = "mssql", !.form = "callback"],
      [i EXCEPT !.kind = "http"], [i EXCEPT !.kind = "llm"]}

MCServices ==
  LET s == [sdk |-> FALSE, interopIn |-> TRUE, interopOut |-> TRUE, records |-> TRUE, covers |-> FALSE]
  IN {s, [s EXCEPT !.records = FALSE], [s EXCEPT !.interopIn = FALSE, !.interopOut = FALSE],
      [s EXCEPT !.interopOut = FALSE], [s EXCEPT !.interopIn = FALSE],
      [s EXCEPT !.sdk = TRUE], [s EXCEPT !.sdk = TRUE, !.covers = TRUE],
      [s EXCEPT !.sdk = TRUE, !.interopIn = FALSE, !.interopOut = FALSE]}
MCClientMessages ==
  LET parent == [ok |-> TRUE, tid |-> 2, parent |-> <<"client", 0>>, sampled |-> TRUE]
      m == [NoMessage EXCEPT !.kind = "http"]
      ids == {[form |-> f, n |-> 2] : f \in {"none", "uuid", "hex", "token", "junk"}}
             \cup {[form |-> "nil", n |-> 0], [form |-> "uuid", n |-> 3]}
  IN {[m EXCEPT !.requestId = id] : id \in ids}
     \cup {[m EXCEPT !.requestId = id, !.traceparent = tp, !.tracestate = <<2, 0, 3, 2>>] :
              id \in ids, tp \in {parent, [parent EXCEPT !.sampled = FALSE]}}

-----------------------------------------------------------------------------
(* Documents put together from the parts that make a definition's header     *)
(* hard to read: each is its text and what it says.                          *)
Q == "quote"
Comment_ == <<"#", "s", Q, "{", "nl">>
Literals ==   \* a value, and whether it is a lexical corner
  {<<v, FALSE>> : v \in {<<"9">>, <<"-", "9", ".", "9", "e", "-", "9">>, <<"9", " ", "9">>, <<"{", "orders", ":", "9", "}">>,
     <<Q, "s", "{", Q>>, <<Q, "bs", Q, "s", "(", Q>>, <<Q, "#", "s", Q>>, <<Q, Q>>, <<Q, "s", "bs", "bs", Q>>,
     <<Q, Q, Q, "s", Q, "}", "9", "nl", Q, Q, Q>>}}
Plain == <<"9">>
Corners ==    \* an escaped """ in a block string, a number right behind a string
  {<<Q, Q, Q, "bs", Q, Q, Q, "s", Q, Q, Q>>, <<Q, "s", Q, "9">>}
FragmentText == <<"fragment", " ", "Page", " ", "{", "latest", "(", "e", ":", Q, "}", Q, ")", "}", "nl">>

DocumentText(lead, keyword, named, default, directive, alias, field, arg) ==
  lead \o (IF keyword = "" THEN <<>> ELSE <<keyword, " ">>)
  \o (IF named THEN <<"Page", "2">> ELSE <<>>)
  \o (IF default = <<>> THEN <<>> ELSE <<"(", "$", "e", "=">> \o default \o <<")">>)
  \o (IF directive THEN <<" ", "@", "latest", " ">> ELSE <<>>)
  \o <<"{">> \o alias \o field \o (IF arg = <<>> THEN <<>> ELSE <<"(", "e", ":">> \o arg \o <<")">>)
  \o <<" ", "nl", "}">>

Document(lead, keyword, named, default, directive, alias, field, arg, corner) ==
  [text |-> DocumentText(lead, keyword, named, default, directive, alias, field, arg),
   root |-> IF keyword = "mutation" THEN "Mutation" ELSE "Query",
   field |-> IF keyword \in {"", "query", "mutation"} /\ field # <<".", "latest">> THEN field ELSE <<>>,
   name |-> IF named THEN <<"Page", "2">> ELSE <<>>, corner |-> corner]

Headers ==
  {<<k, n>> : k \in {"query", "mutation", "type"}, n \in BOOLEAN} \cup {<<"", FALSE>>}
RootFields == {<<"orders">>, <<"orders", "2">>, <<".", "latest">>}
Aliases == {<<>>, <<"latest", " ", ":", "nl">>, <<"#", "orders", ":", "nl", "latest", ":">>}
OneEach ==
  {Document(lead, h[1], h[2], <<>>, dir, alias, field, <<>>, FALSE) :
     lead \in {<<>>, Comment_, FragmentText}, h \in Headers, dir \in BOOLEAN,
     alias \in Aliases, field \in RootFields}
  \cup UNION {{Document(<<>>, "query", TRUE, v[1], TRUE, <<>>, <<"orders">>, <<>>, FALSE),
               Document(Comment_, "mutation", FALSE, <<>>, FALSE, <<>>, <<"orders">>, v[1], FALSE)} :
                v \in Literals}
  \cup {Document(<<>>, "query", FALSE, <<>>, FALSE, <<>>, <<"orders">>, c, TRUE) : c \in Corners}
Few == {Document(<<>>, "", FALSE, <<>>, FALSE, <<>>, <<f>>, <<>>, FALSE) : f \in {"orders", "latest", "Page", "e"}}
Bulky == {Document(<<>>, "query", TRUE, FlattenSeq([i \in 1 .. 12 |-> Plain \o <<" ">>]), FALSE, <<>>, <<"orders">>, <<>>, FALSE)}
MCSessions == {{d} : d \in OneEach} \cup {Few \cup Bulky}
-----------------------------------------------------------------------------
(* Each provider's spelling of one call's usage, as a body whose counts sit  *)
(* at its end and as a stream that says it in pieces.                        *)
Consumed == [model |-> 7, inputTokens |-> 9, outputTokens |-> 4, cachedInputTokens |-> 3]
Uncached == [Consumed EXCEPT !.cachedInputTokens = NotSaid]
Counted(u) == [usage |-> u, nested |-> <<>>, model |-> 7, nestedModel |-> NotSaid]
Nested(u) == [usage |-> <<>>, nested |-> u, model |-> NotSaid, nestedModel |-> 7]
Unnamed(document) == [document EXCEPT !.model = NotSaid]

OpenAi == ("prompt_tokens" :> 9) @@ ("completion_tokens" :> 4) @@ ("details.cached_tokens" :> 3)
OpenAiResponses == ("input_tokens" :> 9) @@ ("output_tokens" :> 4) @@ ("details.cached_tokens" :> 3)
Anthropic == ("input_tokens" :> 4) @@ ("cache_read_input_tokens" :> 3)
             @@ ("cache_creation_input_tokens" :> 2) @@ ("output_tokens" :> 4)
Gemini == ("promptTokenCount" :> 9) @@ ("candidatesTokenCount" :> 1) @@ ("thoughtsTokenCount" :> 3)
          @@ ("cachedContentTokenCount" :> 3)
DeepSeek == ("prompt_tokens" :> 9) @@ ("completion_tokens" :> 4) @@ ("prompt_cache_hit_tokens" :> 3)
Cohere == ("billed.input_tokens" :> 9) @@ ("billed.output_tokens" :> 4)
Bedrock == ("inputTokens" :> 9) @@ ("outputTokens" :> 4) @@ ("input_tokens" :> -5)

Body(document, u, size, edges, consumed) ==
  [stream |-> FALSE, text |-> [k \in 1 .. size |-> <<0, k>>], document |-> document, edges |-> edges,
   usageAt |-> [name \in DOMAIN u |-> <<0, IF size <= EDGE_BYTES THEN size ELSE size - EDGE_BYTES + 1>>],
   modelAt |-> <<0, 1>>, requestModel |-> 5, lines |-> <<>>, consumed |-> consumed]
Sizes == {2, MAX_JSON_BYTES, MAX_JSON_BYTES + 1, MAX_JSON_BYTES + 4}
Bodies ==
  UNION {{Body(Counted(OpenAi), OpenAi, n, TRUE, Consumed),
          Body(Counted(OpenAiResponses), OpenAiResponses, n, TRUE, Consumed),
          Body(Counted(Anthropic), Anthropic, n, TRUE, Consumed),
          Body(Counted(Gemini), Gemini, n, FALSE, Consumed),
          Body(Counted(DeepSeek), DeepSeek, n, FALSE, Consumed),
          Body(Counted(Cohere), Cohere, n, FALSE, Uncached),
          Body(Counted(Bedrock), Bedrock, n, FALSE, Uncached)} : n \in Sizes}

Event(document, length, mentionsUsage) ==
  [kind |-> "data", length |-> length, json |-> TRUE, sage |-> mentionsUsage, document |-> document]
Delta == Event(Counted(<<>>), 2, FALSE)
Quotes == [Delta EXCEPT !.sage = TRUE]                \* content that says "message"
Garbled == [Delta EXCEPT !.sage = TRUE, !.json = FALSE]
Comment == [Delta EXCEPT !.kind = "comment", !.length = 1]
Blank == [Comment EXCEPT !.length = 0]
Long == [Delta EXCEPT !.length = MAX_SSE_LINE + 2]
LongQuotes == [Quotes EXCEPT !.length = MAX_SSE_LINE + 1]

OpeningEvent == Event(Nested([Anthropic EXCEPT !["output_tokens"] = 1]), 2, TRUE)
ClosingEvent == Event(Unnamed(Counted("output_tokens" :> 4)), 2, TRUE)
OpeningPlain == Event(Nested([Anthropic EXCEPT !["output_tokens"] = 1]), 1, FALSE)

StreamOf(events, ended) ==
  LET text == FlattenSeq([i \in DOMAIN events |->
                [k \in 1 .. events[i].length + 1 |-> <<i, IF k > events[i].length THEN 0 ELSE k>>]])
  IN [stream |-> TRUE, text |-> IF ended THEN text ELSE SubSeq(text, 1, Len(text) - 1),
      document |-> Counted(<<>>), edges |-> FALSE, usageAt |-> <<>>, modelAt |-> <<0, 0>>,
      requestModel |-> 5, lines |-> events,
      consumed |-> Consumed]
Between == {<<>>, <<Delta>>, <<Quotes, Blank>>, <<Garbled>>, <<Comment, Long>>, <<Long, Comment>>,
            <<LongQuotes, Delta>>, <<Long, Long>>}
EventSeqs ==
  {<<OpeningEvent>> \o d \o <<ClosingEvent>> : d \in Between}
  \cup {<<Comment, OpeningPlain>> \o d \o <<ClosingEvent, Blank>> : d \in Between}
  \cup {d \o <<Event(Counted(OpenAi), 2, TRUE)>> : d \in Between}
  \cup {<<Delta>> \o d \o <<Event(Nested(OpenAiResponses), 2, TRUE), Delta>> : d \in Between}
MCResponses == Bodies \cup {StreamOf(e, b) : e \in EventSeqs, b \in BOOLEAN}
-----------------------------------------------------------------------------
(* Every short statement over the characters that can be taken for one       *)
(* another, and a few with a verb, a table and a list.                       *)
TextsOver(alphabet, n) == UNION {[1 .. k -> alphabet] : k \in 1 .. n}
InDialect(dialect, texts) == {[sql |-> t, dialect |-> dialect] : t \in texts}
Lists == {<<"(">> \o l \o <<")">> : l \in {<<"1">>, <<"1", ",", "1">>, <<"1", " ", ",", "sq", "s", "sq">>,
            <<"$", "1", ",", "$", "1">>, <<"1", ",", "t">>}}
Verbs == {<<"SELECT", " ", "a", " ", "FROM", "nl", "t">>, <<"(", "SELECT", " ", "sq", "s", "FROM", " ", "b", "sq", " ", "FROM", " ", "ONLY", " ", "t">>,
          <<"UPDATE", " ", "t", " ", "FROM", " ", "b">>, <<"WITH", " ", "t">>, <<"INSERT", " ", "INTO", " ", "bt", "t", "bt">>, <<"SELECT", "FROM", " ", "1">>}
Written == {v \o <<" ">> \o l \o c : v \in Verbs, l \in Lists, c \in {<<>>, <<" ", " ", "nl">>, <<"--", "s", "nl", "1">>}}
LongComment == <<"/*">> \o [i \in 1 .. 28 |-> "s"] \o <<"*/", " ">>
Cut(texts) == {LongComment \o t : t \in texts}   \* the bound comes behind three more
MCSqlQueries ==
  InDialect("postgresql",
    TextsOver({"sq", "bs", "e", "s"}, 5) \cup TextsOver({"/*", "*/", "sq", "s"}, 5)
    \cup TextsOver({"--", "nl", "sq", "dq", "s"}, 4) \cup TextsOver({"$", "sq", "s"}, 5)
    \cup TextsOver({"1", "e", "+", " ", "."}, 4) \cup TextsOver({"0x", "1", "_", "$", "-"}, 4) \cup Written
    \cup Cut(TextsOver({"1", "e", "+", "-"}, 4) \cup TextsOver({"$", "s", "sq", "bs"}, 4)))
  \cup InDialect("mysql",
    TextsOver({"sq", "dq", "bs", "s"}, 5) \cup TextsOver({"/*", "*/", "#", "nl", "sq"}, 4)
    \cup TextsOver({"bt", "sq", "bs", "s"}, 4) \cup TextsOver({"--", "nl", "sq", "e"}, 4) \cup Written
    \cup Cut(TextsOver({"/*", "dq", "s"}, 4)))
-----------------------------------------------------------------------------
NoQuery == [sql |-> <<>>, dialect |-> "mysql"]
PlainResponse == CHOOSE r \in Responses : r.stream
Init ==
  /\ part \in Parts
  /\ OperationsInit /\ JobsInit /\ InstrumentInit /\ OutgoingInit /\ FetchInit /\ PropagationInit
  /\ part # "operations" => settings = CHOOSE s \in Settings : TRUE
  /\ part # "instrument" => provider = (CHOOSE p \in Providers : TRUE) /\ held = {}
  /\ session \in IF part = "documents" THEN Sessions ELSE {{}}
  /\ docCache = <<>> /\ asked = NoDocument /\ answer = NoOperation
  /\ ModelInit /\ (part # "answers" => response = PlainResponse)
  /\ sqlQuery \in IF part = "statements" THEN SqlQueries ELSE {NoQuery}
  /\ shown = <<>> /\ described = NotDescribed
  /\ part # "propagation" => message = CHOOSE m \in ClientMessages : TRUE
Of(p, A) ==
  /\ part = p /\ UNCHANGED part
  /\ A
  /\ IF p = "operations" THEN TRUE ELSE UNCHANGED opsVars
  /\ IF p = "jobs" THEN TRUE ELSE UNCHANGED jobVars
  /\ IF p = "instrument" THEN TRUE ELSE UNCHANGED instrumentVars
  /\ IF p = "outgoing" THEN TRUE ELSE UNCHANGED outgoingVars
  /\ IF p = "fetch" THEN TRUE ELSE UNCHANGED fetchVars
  /\ IF p = "propagation" THEN TRUE ELSE UNCHANGED propagationVars
  /\ IF p = "documents" THEN TRUE ELSE UNCHANGED documentVars
  /\ IF p = "answers" THEN TRUE ELSE UNCHANGED modelVars
  /\ IF p = "statements" THEN TRUE ELSE UNCHANGED sqlVars
Next ==
  \/ Of("operations", OperationsNext) \/ Of("jobs", JobsNext) \/ Of("instrument", InstrumentNext)
  \/ Of("outgoing", OutgoingNext) \/ Of("fetch", FetchNext) \/ Of("propagation", PropagationNext)
  \/ Of("documents", DocumentNext) \/ Of("answers", ModelNext)
  \/ Of("statements", SqlNext)

Fairness ==
  /\ \A o \in Executions :
    /\ WF_operationsVars(Of("operations", grpcTimer(o)))
    /\ WF_operationsVars(Of("operations", answers(o) \/ clientAborts(o)))
    /\ WF_operationsVars(Of("operations", completionDue(o) \/ completion(o)))
    /\ WF_operationsVars(Of("operations", completionTimeout(o)))
    /\ WF_operationsVars(Of("operations", abandonTrace(o)))
  /\ WF_operationsVars(Of("outgoing", Tick))
  /\ \A i \in 1 .. 2 : WF_operationsVars(Of("outgoing", grace(i)))
Spec == Init /\ [][Next]_operationsVars /\ Fairness

(* Every operation that arrives is run, every trace leaves the registry and  *)
(* every call that was reported closes its span, however operations end      *)
(* (invokeUserCallbackSafely, abandonTrace, HOLD_GRACE_MS).                  *)
WorkComesToAnEnd == EveryOperationRuns /\ TracesLeaveTheRegistry /\ SpansCloseOnceReported
=============================================================================
