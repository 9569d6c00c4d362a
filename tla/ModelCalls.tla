----------------------------- MODULE ModelCalls -----------------------------
(***************************************************************************)
(* Reading token usage out of a model provider's response as the caller    *)
(* reads it: a JSON body kept whole up to a limit and by its two ends past *)
(* it, or a server-sent stream read line by line, whatever chunks it comes *)
(* in; and the one tag that ends the reading, however it ends.             *)
(*                                                                         *)
(* A usage object is a function from the names it spells its counts with   *)
(* to numbers; a name of a nested object carries that object's name.  A    *)
(* byte of a body is its position, a model a number, a character of a stream the line and    *)
(* the position in it; position 0 is the newline.                          *)
(***************************************************************************)
EXTENDS Integers, Sequences, SequencesExt

CONSTANTS
    Responses,       \* what a provider may answer
    MAX_JSON_BYTES, EDGE_BYTES, MAX_SSE_LINE

ASSUME ModelCallsAssumption == EDGE_BYTES \in 1 .. MAX_JSON_BYTES /\ MAX_SSE_LINE \in Nat

VARIABLES
    response,   \* the answer: its reader, its text and what was really consumed
    taken,      \* how much of the text has come
    body,       \* of the JSON reader: kept bytes, or the two ends
    sse,        \* of the stream reader
    pulling,    \* a source.read() is under way
    ending,     \* how the caller's stream closed
    usageRead,  \* the usage the tag was given
    tagCalls
modelVars == <<response, taken, body, sse, pulling, ending, usageRead, tagCalls>>

NotSaid == -1
NoUsage == [model |-> NotSaid, inputTokens |-> NotSaid, outputTokens |-> NotSaid,
            cachedInputTokens |-> NotSaid]

-----------------------------------------------------------------------------
\* A number that is not a count reads as none.
count(u, name) == IF name \in DOMAIN u /\ u[name] >= 0 THEN u[name] ELSE NotSaid
Present(values) == SelectSeq(values, LAMBDA v : v # NotSaid)
sum(values) ==
  IF Present(values) = <<>> THEN NotSaid ELSE FoldLeft(LAMBDA t, v : t + v, 0, Present(values))
\* a ?? b ?? c
Coalesce(values) == IF Present(values) = <<>> THEN NotSaid ELSE Present(values)[1]

normalizeUsage(u) ==
  LET read == count(u, "cache_read_input_tokens")
      beside == sum(<<count(u, "input_tokens"), read, count(u, "cache_creation_input_tokens")>>)
  IN [model |-> NotSaid,
      inputTokens |->
        Coalesce(<<count(u, "prompt_tokens"), count(u, "promptTokenCount"),
                   count(u, "inputTokens"), beside, count(u, "billed.input_tokens")>>),
      outputTokens |->
        Coalesce(<<count(u, "completion_tokens"), count(u, "output_tokens"), count(u, "outputTokens"),
                   sum(<<count(u, "candidatesTokenCount"), count(u, "thoughtsTokenCount")>>),
                   count(u, "billed.output_tokens")>>),
      cachedInputTokens |->
        Coalesce(<<count(u, "details.cached_tokens"), read, count(u, "cachedContentTokenCount"),
                   count(u, "prompt_cache_hit_tokens"), count(u, "cacheReadInputTokens")>>)]

\* Later readings win, field by field.
mergeUsage(into, next) == [f \in DOMAIN into |-> IF next[f] # NotSaid THEN next[f] ELSE into[f]]

\* The usage of the nested response or message, if there is one with a usage,
\* else the document's own; the model likewise.
usageFromDocument(d) ==
  [normalizeUsage(IF d.nested # <<>> THEN d.nested ELSE d.usage)
     EXCEPT !.model = Coalesce(<<d.nestedModel, d.model>>)]

-----------------------------------------------------------------------------
\* JsonUsageReader
NoBody == [chunks |-> <<>>, cut |-> FALSE, head |-> <<>>, tail |-> <<>>]

LastOf(s, n) == IF Len(s) <= n THEN s ELSE SubSeq(s, Len(s) - n + 1, Len(s))
keepTail(tail, chunk) ==
  IF Len(chunk) >= EDGE_BYTES THEN LastOf(chunk, EDGE_BYTES)
  ELSE LastOf(tail, EDGE_BYTES - Len(chunk)) \o chunk

pushJson(b, chunk) ==
  LET whole == b.chunks \o chunk
  IN IF b.cut THEN [b EXCEPT !.tail = keepTail(@, chunk)]
     ELSE IF Len(whole) > MAX_JSON_BYTES
          THEN [chunks |-> <<>>, cut |-> TRUE, head |-> SubSeq(whole, 1, EDGE_BYTES),
                tail |-> LastOf(whole, EDGE_BYTES)]
          ELSE [b EXCEPT !.chunks = whole]

\* Counts are matched by name in the tail, the nested ones by their own name.
EdgeNames == {"prompt_tokens", "completion_tokens", "input_tokens", "output_tokens",
              "cache_read_input_tokens", "cache_creation_input_tokens",
              "promptTokenCount", "candidatesTokenCount"}
usageFromEdges(b) ==
  LET text == response.document.usage
      seen == {name \in DOMAIN text : response.usageAt[name] \in ToSet(b.tail)}
      u == normalizeUsage([name \in seen \cap EdgeNames |-> text[name]])
  IN [u EXCEPT !.cachedInputTokens =
                 IF @ = NotSaid /\ "details.cached_tokens" \in seen
                 THEN text["details.cached_tokens"] ELSE @,
               !.model = IF response.modelAt \in ToSet(b.head) THEN response.document.model ELSE @]

\* A body that did not come whole does not parse.
finishJson(b) ==
  IF b.cut THEN usageFromEdges(b)
  ELSE IF b.chunks = response.text THEN usageFromDocument(response.document)
  ELSE NoUsage

-----------------------------------------------------------------------------
\* SseUsageReader
NoLine == [pending |-> <<>>, skipping |-> FALSE, usage |-> NoUsage, sawEvent |-> FALSE]

\* A `data:` line is an event; the first, and any that mentions usage, is parsed.
line(r, raw) ==
  LET i == raw[1][1]
      event == response.lines[i]
      whole == raw = [k \in 1 .. event.length |-> <<i, k>>]
      parsed == whole /\ event.json /\ (~r.sawEvent \/ event.sage)
  IN IF raw = <<>> \/ event.kind # "data" THEN r
     ELSE [r EXCEPT !.sawEvent = TRUE,
                    !.usage = IF parsed THEN mergeUsage(@, usageFromDocument(event.document)) ELSE @]

\* A character of the chunk: a newline ends the line, read or skipped.
Newline(c) == c[2] = 0
readChar(r, c) ==
  IF ~Newline(c) THEN IF r.skipping THEN r ELSE [r EXCEPT !.pending = Append(@, c)]
  ELSE IF r.skipping THEN [r EXCEPT !.skipping = FALSE]
  ELSE [line(r, r.pending) EXCEPT !.pending = <<>>]

\* Faulty: what a chunk leaves of a line is not kept for the next one.
pushSse_dropsRest(r, chunk) == [FoldLeft(readChar, r, chunk) EXCEPT !.pending = <<>>]
\* What is left of a line is kept until it grows too long.
keepRest(r) ==
  IF Len(r.pending) > MAX_SSE_LINE THEN [r EXCEPT !.pending = <<>>, !.skipping = TRUE] ELSE r
pushSse(r, chunk) == keepRest(FoldLeft(readChar, r, chunk))

finishSse(r) == line(r, r.pending).usage

-----------------------------------------------------------------------------
ModelInit ==
  /\ response \in Responses
  /\ taken = 0 /\ body = NoBody /\ sse = NoLine
  /\ pulling = FALSE /\ ending = "open" /\ usageRead = NoUsage /\ tagCalls = 0

\* tag(): the model asked for stands where the answer named none.
tag(usage) ==
  /\ tagCalls' = tagCalls + 1
  /\ usageRead' = mergeUsage([NoUsage EXCEPT !.model = response.requestModel], usage)

\* finish(): the first ending reads what the reader has and tags the span.
finishReading ==
  IF tagCalls > 0 THEN UNCHANGED <<tagCalls, usageRead>>
  ELSE tag(IF response.stream THEN finishSse(sse) ELSE finishJson(body))

\* The caller reads: the source is asked for a chunk.
pull ==
  /\ ending = "open" /\ ~pulling /\ pulling' = TRUE
  /\ UNCHANGED <<response, taken, body, sse, ending, usageRead, tagCalls>>
\* One came: it is looked at and handed on.
chunkArrives ==
  /\ pulling /\ ending = "open" /\ taken < Len(response.text)
  /\ \E n \in taken + 1 .. Len(response.text) :
       LET chunk == SubSeq(response.text, taken + 1, n)
       IN /\ taken' = n
          /\ IF response.stream THEN sse' = pushSse(sse, chunk) /\ UNCHANGED body
             ELSE body' = pushJson(body, chunk) /\ UNCHANGED sse
  /\ pulling' = FALSE
  /\ UNCHANGED <<response, ending, usageRead, tagCalls>>
\* The body ended; so does a read that was under way when the caller cancelled.
bodyEnds ==
  /\ pulling /\ (ending = "cancelled" \/ taken = Len(response.text))
  /\ pulling' = FALSE /\ finishReading
  /\ ending' = IF ending = "open" THEN "done" ELSE ending
  /\ UNCHANGED <<response, taken, body, sse>>
\* The connection broke.
readFails ==
  /\ pulling /\ pulling' = FALSE /\ finishReading
  /\ ending' = IF ending = "open" THEN "failed" ELSE ending
  /\ UNCHANGED <<response, taken, body, sse>>
\* The caller gives up the stream, perhaps while a read is under way.
cancel ==
  /\ ending = "open" /\ ending' = "cancelled" /\ finishReading
  /\ UNCHANGED <<response, taken, body, sse, pulling>>

ModelNext == pull \/ chunkArrives \/ bodyEnds \/ readFails \/ cancel

-----------------------------------------------------------------------------
\* The reader's types.
ModelCallsTypeOK ==
  /\ taken \in 0 .. Len(response.text) /\ pulling \in BOOLEAN
  /\ ending \in {"open", "done", "failed", "cancelled"}
  /\ \A f \in DOMAIN usageRead : usageRead[f] \in Int

\* A body read to its end gives the model that answered and the counts it
\* consumed, cached input inside the input, in whichever spelling, size and chunks it came
\* (normalizeUsage, JsonUsageReader.push and finish, keepTail).  The edges of a
\* body past the limit are matched for the spellings that response.edges marks.
UsageIsWhatWasConsumed ==
  ending = "done" /\ ~response.stream /\ (body.cut => response.edges) => usageRead = response.consumed

\* The same of a stream, which says it in pieces over several events: no cut
\* through a line, and no over-long line of content before it, costs or garbles
\* a reading (SseUsageReader.push, line and finish).
StreamUsageIsWhatWasConsumed ==
  ending = "done" /\ response.stream => usageRead = response.consumed

\* "keeping at most 2 MB": what a reader holds of a response is bounded whatever
\* its length (JsonUsageReader, MAX_SSE_LINE), although the limit is only looked
\* at once a chunk is in.
ReaderBounded ==
  /\ Len(body.chunks) <= MAX_JSON_BYTES
  /\ Len(body.head) <= EDGE_BYTES /\ Len(body.tail) <= EDGE_BYTES
  /\ Len(sse.pending) <= MAX_SSE_LINE

\* The span is tagged and released once, although a cancelled read still ends
\* and a failed one may follow it (observeCall's finish, cancel and pull), and
\* never before the reading is over.
TaggedOnce == tagCalls = (IF ending = "open" THEN 0 ELSE 1)

\* What a model call consumed is read from its response, once, in bounded space
\* (observeCall, JsonUsageReader, SseUsageReader).
UsageReadOnce ==
  ModelCallsTypeOK /\ UsageIsWhatWasConsumed /\ StreamUsageIsWhatWasConsumed /\ ReaderBounded /\ TaggedOnce
=============================================================================
