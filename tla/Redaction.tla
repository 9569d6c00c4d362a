----------------------------- MODULE Redaction -----------------------------
(* What is masked before anything leaves the process: free text by pattern,  *)
(* structured values by key, URLs by query key, a captured body before its   *)
(* cut.  A text is a sequence of lexemes, each a stand-in for the strings a  *)
(* pattern tells apart; a cell remembers where in the input it came from, so *)
(* that what survives can be told from what was put in its place (at = 0).   *)
EXTENDS Integers, Sequences, FiniteSets, SequencesExt, FiniteSetsExt

CONSTANTS ScrubInputs,            \* what a behaviour has scrubbed, see Scrub
          MAX_ATTRIBUTE_DEPTH,
          CaptureBytes            \* maxBytes of the captured body

VARIABLE scrub
(* [text, tree, query, options]: options.useDefaults is useDefaultPatterns,  *)
(* options.keys the deployment's redaction.keys, options.patterns its        *)
(* redaction.patterns (lexemes they match).                                  *)

-----------------------------------------------------------------------------
(* Lexemes, and what the character classes of the patterns make of them.     *)
Digits == {"card", "id", "digit"}
Wordy  == {"word", "key", "scheme", "cred", "jwt", "aws", "custom"} \cup Digits  \* [A-Za-z0-9_-]
Token  == Wordy \cup {"sep"}             \* [A-Za-z0-9._~+/=-]
Space  == {"sp", "nl"}
Solid  == Token \cup {"quote", "comma", "tick", "wide", "mask", "part", "pem"}    \* \S
Bare   == Solid \ {"quote", "comma"}
Widths == [word |-> 4, key |-> 8, sep |-> 1, sp |-> 1, nl |-> 1, quote |-> 1, comma |-> 1, tick |-> 1,
           scheme |-> 6, cred |-> 9, jwt |-> 12, aws |-> 20, card |-> 16, id |-> 16, digit |-> 1,
           custom |-> 6, pem |-> 30, wide |-> 3, mask |-> 10]
NumberOf == [card |-> <<4>> \o [i \in 1..15 |-> 1], id |-> <<4>> \o [i \in 1..14 |-> 1] \o <<2>>, digit |-> <<7>>]
LinesIn(lex) == CASE lex = "nl" -> 1 [] lex = "pem" -> 2 [] OTHER -> 0

Cell(lex, at) == [lex |-> lex, at |-> at, bytes |-> Widths[lex]]
Cells(text) == [i \in DOMAIN text |-> Cell(text[i], i)]
Mask == Cell("mask", 0)
Sum(cells, f(_)) == FoldLeft(LAMBDA n, c : n + f(c), 0, cells)
newlines(cells) == Sum(cells, LAMBDA c : LinesIn(c.lex))
is(cells, i, class) == i \in DOMAIN cells /\ cells[i].lex \in class
runEnd(cells, i, class) == Max({k \in (i - 1)..Len(cells) : \A j \in i..k : cells[j].lex \in class})

-----------------------------------------------------------------------------
(* The rules: where a match that begins at i ends (0: none), and what it     *)
(* leaves.                                                                   *)
pemEnd(cells, i) == IF is(cells, i, {"pem"}) THEN i ELSE 0

schemeEnd(cells, i) ==
  LET from == runEnd(cells, i + 1, Space) + 1
      to   == runEnd(cells, from, Token)
  IN IF /\ is(cells, i, {"scheme"}) /\ ~is(cells, i - 1, Wordy) /\ from > i + 1
        /\ Sum(SubSeq(cells, from, to), LAMBDA c : c.bytes) >= 8
     THEN to ELSE 0

(* key, an optional quote, blanks, the separator, blanks; then the value.    *)
valueAt(cells, i) ==
  LET q == IF is(cells, i + 1, {"quote"}) THEN i + 2 ELSE i + 1
      s == runEnd(cells, q, Space) + 1
  IN IF is(cells, i, {"key"}) /\ is(cells, s, {"sep"}) THEN runEnd(cells, s + 1, Space) + 1 ELSE 0
quoted(cells, v, mark, within) ==   \* where the quoted value ends
  LET e == runEnd(cells, v + 1, within \ {mark}) + 1
  IN IF is(cells, v, {mark}) /\ is(cells, e, {mark}) THEN e ELSE 0
valueEnd_noScheme(cells, v, literalValuesOnly) ==
  LET text == quoted(cells, v, "quote", Solid \cup Space)
      literal == IF is(cells, v, {"tick"}) THEN quoted(cells, v, "tick", Solid \cup Space)
                 ELSE quoted(cells, v, "quote", Solid \cup {"sp"})
      bare == runEnd(cells, v, Bare)
  IN CASE literalValuesOnly -> literal
       [] is(cells, v, {"quote"}) -> text
       [] bare >= v -> bare
       [] OTHER -> 0
valueEnd(cells, v, literalValuesOnly) ==
  LET text == quoted(cells, v, "quote", Solid \cup Space)
      literal == IF is(cells, v, {"tick"}) THEN quoted(cells, v, "tick", Solid \cup Space)
                 ELSE quoted(cells, v, "quote", Solid \cup {"sp"})
      after == runEnd(cells, v + 1, Space) + 1
      bare == runEnd(cells, v, Bare)
  IN CASE literalValuesOnly -> literal
       [] is(cells, v, {"quote"}) -> text
       [] is(cells, v, {"scheme"}) /\ after > v + 1 /\ is(cells, after, Solid) -> runEnd(cells, after, Solid)
       [] bare >= v -> bare
       [] OTHER -> 0
keyEnd(cells, i, literalValuesOnly) ==
  LET v == valueAt(cells, i) IN IF v = 0 THEN 0 ELSE valueEnd(cells, v, literalValuesOnly)

jwtEnd(cells, i) ==
  IF is(cells, i, {"jwt"}) /\ ~is(cells, i - 1, Wordy) THEN runEnd(cells, i + 1, Wordy) ELSE 0
wholeWord(cells, i, class) ==
  IF is(cells, i, class) /\ ~is(cells, i - 1, Wordy) /\ ~is(cells, i + 1, Wordy) THEN i ELSE 0

isLuhnValid(digits) ==
  LET n == Len(digits)
      worth(i) == IF (n - i) % 2 = 0 THEN digits[i]
                  ELSE IF 2 * digits[i] > 9 THEN 2 * digits[i] - 9 ELSE 2 * digits[i]
  IN FoldLeft(LAMBDA s, i : s + worth(i), 0, [i \in 1..n |-> i]) % 10 = 0
digitsOf(cells) ==
  FoldLeft(LAMBDA d, c : IF c.lex \in Digits THEN d \o NumberOf[c.lex] ELSE d, <<>>, cells)
CARD_CANDIDATE(cells, i) ==   \* 13 to 19 digits, single blanks between them
  LET ends == {k \in i..Len(cells) :
                /\ \A j \in i..k : \/ cells[j].lex \in Digits
                                   \/ cells[j].lex = "sp" /\ j > i /\ cells[j - 1].lex \in Digits
                /\ cells[k].lex \in Digits /\ ~is(cells, k + 1, Wordy)
                /\ Len(digitsOf(SubSeq(cells, i, k))) \in 13..19}
  IN IF is(cells, i, Digits) /\ ~is(cells, i - 1, Wordy) /\ ends # {} THEN Max(ends) ELSE 0
maskedCard(match) == IF isLuhnValid(digitsOf(match)) THEN <<Mask>> ELSE match

(* String.replace with a global pattern, left to right.                      *)
replacedAll(cells, End(_, _), With(_, _, _)) ==
  FoldLeft(LAMBDA a, i :
             IF i < a.next THEN a
             ELSE LET e == End(cells, i)
                  IN IF e = 0 THEN [a EXCEPT !.out = Append(@, cells[i])]
                     ELSE [out |-> a.out \o With(cells, i, e), next |-> e + 1],
           [out |-> <<>>, next |-> 1], [i \in DOMAIN cells |-> i]).out

(* keepNewlines: a match's line breaks are put back after what masks it.     *)
keep(match, masked, keepNewlines) ==
  IF keepNewlines THEN masked \o [i \in 1..newlines(match) |-> Cell("nl", 0)] ELSE masked
defaultPatterns(cells, literalValuesOnly, keepNewlines) ==
  LET whole(c, i, e) == keep(SubSeq(c, i, e), <<Mask>>, keepNewlines)
      scheme(c, i, e) == keep(SubSeq(c, i, e), <<c[i], Cell("sp", 0), Mask>>, keepNewlines)
      pair(c, i, e) == keep(SubSeq(c, i, e), SubSeq(c, i, valueAt(c, i) - 1) \o <<Mask>>, keepNewlines)
      keyed(c, i) == keyEnd(c, i, literalValuesOnly)
      aws(c, i) == wholeWord(c, i, {"aws"})
  IN replacedAll(replacedAll(replacedAll(replacedAll(replacedAll(
       cells, pemEnd, whole), schemeEnd, scheme), keyed, pair), jwtEnd, whole), aws, whole)
apply(cells, options, literalValuesOnly, keepNewlines) ==
  LET whole(c, i, e) == keep(SubSeq(c, i, e), <<Mask>>, keepNewlines)
      card(c, i, e) == maskedCard(SubSeq(c, i, e))
      extra(c, i) == IF is(c, i, options.patterns) THEN i ELSE 0
  IN IF options.useDefaults
     THEN replacedAll(replacedAll(defaultPatterns(cells, literalValuesOnly, keepNewlines), extra, whole),
                      CARD_CANDIDATE, card)
     ELSE replacedAll(cells, extra, whole)
redactMessage(cells, options) == apply(cells, options, FALSE, FALSE)
redactSource(cells, options) == apply(cells, options, TRUE, TRUE)

-----------------------------------------------------------------------------
(* Keys: [words, together, numbered]; together is `apikey`, apart `api_key`  *)
(* or `apiKey`.                                                              *)
EXACT_KEYS == {<<"pwd">>, <<"auth">>}
SENSITIVE_SUFFIXES == {<<"password">>, <<"token">>, <<"secret">>, <<"credentials">>, <<"api", "key">>}
SENSITIVE_WORDS == {"password", "secret", "credentials"}
URL_ONLY_SENSITIVE_KEYS == {<<"code">>, <<"state">>, <<"sig">>, <<"key">>}
wordsOf(key) ==
  IF key.together THEN IF Len(key.words) = 1 /\ ~key.numbered THEN Range(key.words) ELSE {}
  ELSE Range(IF key.numbered THEN Front(key.words) ELSE key.words)
isSensitiveKey(key, keys) ==
  \/ ~key.numbered /\ key.words \in EXACT_KEYS \cup keys
  \/ \E s \in SENSITIVE_SUFFIXES : IsSuffix(s, key.words)
  \/ wordsOf(key) \cap SENSITIVE_WORDS # {}

(* redactValue.  A value is [kind, text, items], an item [key, value].       *)
TextValue(cells) == [kind |-> "text", text |-> cells, items |-> <<>>]
RECURSIVE redactValue(_, _, _)
redactValue(value, depth, options) ==
  IF depth > MAX_ATTRIBUTE_DEPTH THEN TextValue(<<Mask>>)
  ELSE CASE value.kind = "text" -> TextValue(redactMessage(value.text, options))
         [] value.kind = "list" -> [value EXCEPT !.items = [i \in DOMAIN @ |->
               [@[i] EXCEPT !.value = redactValue(@, depth + 1, options)]]]
         [] value.kind = "map" -> [value EXCEPT !.items = [i \in DOMAIN @ |->
               [@[i] EXCEPT !.value = IF isSensitiveKey(value.items[i].key, options.keys) THEN TextValue(<<Mask>>)
                                      ELSE redactValue(@, depth + 1, options)]]]
         [] OTHER -> value
redactAttributes(value, options) == redactValue(value, 0, options)

(* redactUrlQuery: URLSearchParams.set masks the first of a key and removes  *)
(* the others.  A parameter is [key, at], at = 0 once masked.                *)
set(params, key) ==
  LET first == Min({i \in DOMAIN params : params[i].key = key})
      keptIndices == SelectSeq([i \in DOMAIN params |-> i], LAMBDA i : i <= first \/ params[i].key # key)
  IN [k \in DOMAIN keptIndices |-> [params[keptIndices[k]] EXCEPT !.at = IF keptIndices[k] = first THEN 0 ELSE @]]
hidden(key, keys) == (key.words \in URL_ONLY_SENSITIVE_KEYS /\ ~key.numbered) \/ isSensitiveKey(key, keys)
redactUrlQuery(params, options) ==
  FoldLeft(LAMBDA p, i : IF hidden(params[i].key, options.keys) THEN set(p, params[i].key) ELSE p,
           params, [i \in DOMAIN params |-> i])

(* The captured body: redacted, then cut to the cap, back to the start of a  *)
(* character.  Whatever part of a character is left decodes to U+FFFD.       *)
serializeBody(cells, options) == redactMessage(cells, options)
offset(cells, i) == Sum(SubSeq(cells, 1, i - 1), LAMBDA c : c.bytes)
boundary(cells) ==
  LET split == {i \in DOMAIN cells : cells[i].lex = "wide" /\ offset(cells, i) < CaptureBytes
                                     /\ CaptureBytes < offset(cells, i) + cells[i].bytes}
  IN IF split = {} THEN CaptureBytes ELSE offset(cells, CHOOSE i \in split : TRUE)
cut(cells) ==
  LET end == boundary(cells)
      here == {i \in DOMAIN cells : offset(cells, i) < end}
      kept(i) == end - offset(cells, i)
      piece(i) == IF cells[i].bytes <= kept(i) THEN cells[i]
                  ELSE [cells[i] EXCEPT !.lex = "part", !.bytes = IF cells[i].lex = "wide" THEN 3 ELSE kept(i)]
  IN IF Sum(cells, LAMBDA c : c.bytes) <= CaptureBytes THEN cells
     ELSE [i \in 1..Cardinality(here) |-> piece(i)]
captureBody(cells, options) == cut(serializeBody(cells, options))

RedactionInit == scrub \in ScrubInputs

-----------------------------------------------------------------------------
(* The cells of a text that are secret by the shapes the redactor knows,     *)
(* told from the whole text at once: a private key; a credential behind its  *)
(* scheme; the value of a key that is not itself part of another's value; a  *)
(* JWT, an AWS key id or a card number that stands alone.                    *)
StandsAlone(cells, i) == ~is(cells, i - 1, Wordy) /\ ~is(cells, i + 1, Wordy)
AmongDigits(cells, i) ==
  \E d \in {-1, 1} : is(cells, i + d, {"sp"}) /\ is(cells, i + 2 * d, Digits)
KeyValue(cells, k, i) ==   \* the value of the key at k begins at i, or behind a scheme there
  /\ is(cells, i, Bare \ {"scheme"})
  /\ LET v == valueAt(cells, k)
     IN v = i \/ (v # 0 /\ is(cells, v, {"scheme"}) /\ i > v + 1 /\ \A j \in (v + 1)..(i - 1) : is(cells, j, Space))
  /\ \A j \in 1..(k - 1) : ~is(cells, j, {"key", "quote"})
Secret(cells) ==
  {i \in DOMAIN cells :
     \/ cells[i].lex = "pem"
     \/ cells[i].lex \in {"jwt", "aws"} /\ StandsAlone(cells, i)
     \/ cells[i].lex = "card" /\ StandsAlone(cells, i) /\ ~AmongDigits(cells, i)
     \/ cells[i].lex = "cred" /\ is(cells, i - 1, {"sp"}) /\ is(cells, i - 2, {"scheme"})
                              /\ ~is(cells, i - 3, Wordy)
     \/ \E k \in DOMAIN cells : KeyValue(cells, k, i)}
Kept(cells) == {cells[i].at : i \in DOMAIN cells}
Default == [useDefaults |-> TRUE, keys |-> {}, patterns |-> {}]

(* No secret of a shape the redactor knows is in a redacted message,         *)
(* whatever surrounds it and however many there are; the deployment's own    *)
(* patterns are applied to every occurrence too.                             *)
SecretsMasked(cells, redacted) ==
  Kept(redacted) \cap ((IF scrub.options.useDefaults THEN Secret(cells) ELSE {})
                       \cup {i \in DOMAIN cells : cells[i].lex \in scrub.options.patterns}) = {}

(* Ordinary text is not touched: with no key, scheme or secret in it a       *)
(* message is what it was - ids and numbers shaped like a card included.     *)
OrdinaryTextKept(cells, redacted) ==
  LET telling == {"pem", "jwt", "aws", "card", "scheme", "key"} \cup scrub.options.patterns
  IN (\A i \in DOMAIN cells : cells[i].lex \notin telling) => redacted = cells

(* A code frame's highlighted line indexes into the redacted lines: there    *)
(* are as many as there were.                                                *)
SourceLinesKept ==
  LET cells == Cells(scrub.text) IN newlines(redactSource(cells, scrub.options)) = newlines(cells)

(* No line of a code frame is lost, so the highlighted one is in it.         *)
NoSourceLineLost(cells) == newlines(redactSource(cells, scrub.options)) >= newlines(cells)

(* Below a sensitive key, or too deep to be walked, nothing of a value is    *)
(* left; every other text is what redactMessage makes of it, in its place.   *)
RECURSIVE Scrubbed(_, _, _, _)
Scrubbed(before, after, depth, options) ==
  IF depth > MAX_ATTRIBUTE_DEPTH THEN after = TextValue(<<Mask>>)
  ELSE /\ after.kind = before.kind /\ Len(after.items) = Len(before.items)
       /\ Kept(after.text) \cap Secret(before.text) = {}
       /\ \A i \in DOMAIN before.items :
            LET b == before.items[i]
                a == after.items[i]
            IN /\ a.key = b.key
               /\ IF before.kind = "map" /\ isSensitiveKey(b.key, options.keys) THEN a.value = TextValue(<<Mask>>)
                  ELSE Scrubbed(b.value, a.value, depth + 1, options)
AttributesScrubbed == Scrubbed(scrub.tree, redactAttributes(scrub.tree, Default), 0, Default)

(* One list of keys: a key masked in an attribute is masked in a query       *)
(* string, the deployment's own keys included, and each time it is repeated; *)
(* every key is still there, and nothing else is touched.                    *)
QueryScrubbed ==
  LET after == redactUrlQuery(scrub.query, scrub.options)
      masked(k) == isSensitiveKey(k, scrub.options.keys)
  IN /\ \A i \in DOMAIN after : masked(after[i].key) => after[i].at = 0
     /\ {after[i].key : i \in DOMAIN after} = {scrub.query[i].key : i \in DOMAIN scrub.query}
     /\ SelectSeq(scrub.query, LAMBDA p : ~hidden(p.key, scrub.options.keys))
          = SelectSeq(after, LAMBDA p : ~hidden(p.key, scrub.options.keys))

(* A captured body is within its cap, and the cut leaves no half of a        *)
(* secret.                                                                   *)
BodyCutClean(cells, body) ==
  /\ Sum(body, LAMBDA c : c.bytes) <= CaptureBytes
  /\ scrub.options.useDefaults => Kept(body) \cap Secret(cells) = {}

(* No secret of a known shape or under a known key leaves, in a message, an  *)
(* attribute, a query string or a captured body, and nothing else is         *)
(* touched (redactMessage, redactAttributes, redactUrlQuery, captureBody).   *)
TextLeavesClean(cells, redacted) ==
  /\ SecretsMasked(cells, redacted) /\ OrdinaryTextKept(cells, redacted)
  /\ BodyCutClean(cells, captureBody(cells, scrub.options)) /\ NoSourceLineLost(cells)
MessageLeavesClean(cells) == TextLeavesClean(cells, redactMessage(cells, scrub.options))
NothingSecretLeaves == AttributesScrubbed /\ QueryScrubbed /\ MessageLeavesClean(Cells(scrub.text))
=============================================================================
