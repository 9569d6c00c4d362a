--------------------------- MODULE GraphqlDocument ---------------------------
(***************************************************************************)
(* Reading the operation out of a GraphQL document without parsing it: the *)
(* literals are blanked, the first operation definition is scanned for its *)
(* keyword, name and first root field, and answers are cached.             *)
(*                                                                         *)
(* A document is a sequence of characters; a letter sequence nothing       *)
(* tells apart is one character ("query", "orders"), and the letters and   *)
(* digits of literals and comments are characters of their own.            *)
(***************************************************************************)
EXTENDS Integers, Sequences, FiniteSets, SequencesExt

CONSTANTS
    Sessions,          \* the documents one process is sent, as sets of records
    CACHE_LIMIT, MAX_CACHEABLE_DOCUMENT_LENGTH, MAX_SANITIZED_DOCUMENT_LENGTH

ASSUME GraphqlDocumentAssumption == CACHE_LIMIT \in Nat \ {0}

VARIABLES session, docCache, asked, answer
documentVars == <<session, docCache, asked, answer>>

NoOperation == [rootTypeName |-> "", fieldName |-> <<>>, operationName |-> <<>>,
                sanitizedDocument |-> <<>>]
NoDocument == [text |-> <<>>, root |-> "", field |-> <<>>, name |-> <<>>, corner |-> FALSE]

-----------------------------------------------------------------------------
Letters == {"query", "mutation", "fragment", "type", "orders", "Page", "latest", "e", "s", "_"}
isDigit(c) == c \in {"2", "9"}
isNameStart(c) == c \in Letters
isNameChar(c) == isNameStart(c) \/ isDigit(c)
isIgnoredChar(c) == c \in {" ", "nl"}
CharAt(s, i) == IF i \in DOMAIN s THEN s[i] ELSE ""

isNumberChar(s, i) ==
  \/ isDigit(CharAt(s, i)) \/ CharAt(s, i) \in {".", "e"}
  \/ CharAt(s, i) \in {"+", "-"} /\ CharAt(s, i - 1) = "e"

\* Where a run of such characters that i is in ends.
RECURSIVE NamesEnd(_, _), NumberEnd(_, _), CommentEnd(_, _), StringEnd(_, _), BlockEnd(_, _)
NamesEnd(s, i) == IF isNameChar(CharAt(s, i)) THEN NamesEnd(s, i + 1) ELSE i
NumberEnd(s, i) == IF isNumberChar(s, i) THEN NumberEnd(s, i + 1) ELSE i
CommentEnd(s, i) == IF CharAt(s, i) \in {"", "nl"} THEN i ELSE CommentEnd(s, i + 1)
\* Faulty: a backslash does not take the quote behind it along.
StringEnd_plain(s, i) == CHOOSE k \in i + 1 .. Len(s) + 1 :
  /\ k = Len(s) + 1 \/ s[k - 1] = "quote"
  /\ \A j \in i .. k - 2 : s[j] # "quote"

\* Past the closing quote; a backslash takes the next character with it.
StringEnd(s, i) ==
  IF i > Len(s) THEN i ELSE IF s[i] = "quote" THEN i + 1
  ELSE StringEnd(s, i + IF s[i] = "bs" THEN 2 ELSE 1)
TripleAt(s, i) == \A k \in 0 .. 2 : CharAt(s, i + k) = "quote"
\* Past the next three quotes, escaped or not.
BlockEnd(s, i) == IF i > Len(s) THEN i ELSE IF TripleAt(s, i) THEN i + 3 ELSE BlockEnd(s, i + 1)

startsNumber(s, i) == isDigit(s[i]) \/ (s[i] = "-" /\ isDigit(CharAt(s, i + 1)))

\* Comments go, strings and numbers become `_`; a digit that goes on with a
\* name is no number.
RECURSIVE strip(_, _, _)
strip(s, i, out) ==
  IF i > Len(s) THEN out
  ELSE IF s[i] = "#" THEN strip(s, CommentEnd(s, i), out)
  ELSE IF s[i] = "quote"
       THEN strip(s, IF TripleAt(s, i) THEN BlockEnd(s, i + 3) ELSE StringEnd(s, i + 1), Append(out, "_"))
  ELSE IF startsNumber(s, i) /\ ~isNameChar(CharAt(out, Len(out)))
       THEN strip(s, NumberEnd(s, i + 1), Append(out, "_"))
  ELSE strip(s, i + 1, Append(out, s[i]))
stripIgnoredTokens(s) == strip(s, 1, <<>>)

\* The position past the bracket that closes the one at `from`.
skipBalanced(s, from, open, close) ==
  LET depth(k) == Cardinality({j \in from .. k : s[j] = open})
                  - Cardinality({j \in from .. k : s[j] = close})
      closing == {k \in from .. Len(s) : depth(k) = 0}
  IN IF closing = {} THEN Len(s) + 1 ELSE 1 + CHOOSE k \in closing : \A j \in closing : k <= j

\* Faulty: an alias is taken for the field it renames.
RECURSIVE FieldFrom(_, _)

\* The first field of a selection set, seen through its alias.
FieldFrom(s, i) ==
  IF i > Len(s) \/ CharAt(s, i) \in {".", "}"} THEN <<>>
  ELSE IF ~isNameStart(s[i]) THEN FieldFrom(s, i + 1)
  ELSE LET end == NamesEnd(s, i)
           lookahead == CHOOSE k \in end .. Len(s) + 1 :
                          ~isIgnoredChar(CharAt(s, k)) /\ \A j \in end .. k - 1 : isIgnoredChar(s[j])
       IN IF CharAt(s, lookahead) = ":" THEN FieldFrom(s, lookahead + 1) ELSE SubSeq(s, i, end - 1)
readFirstFieldName(s, from) == FieldFrom(s, from)

\* Runs of whitespace become one blank, the ends are trimmed.
collapse(s) ==
  LET kept == SelectSeq([i \in DOMAIN s |-> i],
                LAMBDA i : \/ ~isIgnoredChar(s[i])
                           \/ /\ \E j \in 1 .. i - 1 : ~isIgnoredChar(s[j])
                              /\ i < Len(s) /\ ~isIgnoredChar(s[i + 1]))
  IN [k \in DOMAIN kept |-> IF isIgnoredChar(s[kept[k]]) THEN " " ELSE s[kept[k]]]

truncate(s) ==
  IF Len(s) <= MAX_SANITIZED_DOCUMENT_LENGTH THEN s
  ELSE Append(SubSeq(s, 1, MAX_SANITIZED_DOCUMENT_LENGTH - 1), "... [truncated by observe]")

ROOT_TYPE_BY_KEYWORD == [query |-> "Query", mutation |-> "Mutation"]
toOperation(words, fieldName, s) ==
  LET keyword == IF words = <<>> THEN "query" ELSE words[1][1]
  IN IF fieldName = <<>> \/ keyword \notin DOMAIN ROOT_TYPE_BY_KEYWORD THEN NoOperation
     ELSE [rootTypeName |-> ROOT_TYPE_BY_KEYWORD[keyword], fieldName |-> fieldName,
           operationName |-> IF Len(words) > 1 THEN words[2] ELSE <<>>,
           sanitizedDocument |-> truncate(collapse(s))]

\* The header of a definition, up to its selection set; a fragment's is passed by.
RECURSIVE scanFrom(_, _, _)
scanFrom(s, i, words) ==
  IF i > Len(s) THEN NoOperation
  ELSE IF isNameStart(s[i])
       THEN scanFrom(s, NamesEnd(s, i), Append(words, SubSeq(s, i, NamesEnd(s, i) - 1)))
  ELSE IF s[i] = "@" THEN scanFrom(s, NamesEnd(s, i + 1), words)
  ELSE IF s[i] = "(" THEN scanFrom(s, skipBalanced(s, i, "(", ")"), words)
  ELSE IF s[i] # "{" THEN scanFrom(s, i + 1, words)
  ELSE IF words # <<>> /\ words[1] = <<"fragment">>
       THEN scanFrom(s, skipBalanced(s, i, "{", "}"), <<>>)
  ELSE toOperation(words, readFirstFieldName(s, i + 1), s)
scan(document) == scanFrom(stripIgnoredTokens(document), 1, <<>>)

-----------------------------------------------------------------------------
DocumentInit ==
  /\ session \in Sessions
  /\ docCache = <<>> /\ asked = NoDocument /\ answer = NoOperation

\* A document of a size that repeats goes in, the oldest one out.
remembered(document, parsed) ==
  IF Len(document) > MAX_CACHEABLE_DOCUMENT_LENGTH THEN docCache
  ELSE Append(IF Len(docCache) >= CACHE_LIMIT THEN Tail(docCache) ELSE docCache,
              [document |-> document, parsed |-> parsed])

parseGraphQLOperation(d) ==
  LET hit == {i \in DOMAIN docCache : docCache[i].document = d.text}
  IN /\ asked' = d
     /\ IF hit # {}
        THEN answer' = docCache[CHOOSE i \in hit : TRUE].parsed /\ UNCHANGED docCache
        ELSE answer' = scan(d.text) /\ docCache' = remembered(d.text, answer')
     /\ UNCHANGED session

DocumentNext == \E d \in session : parseGraphQLOperation(d)

-----------------------------------------------------------------------------
\* The reader's types.
DocumentTypeOK ==
  /\ asked \in session \cup {NoDocument} /\ answer.rootTypeName \in {"", "Query", "Mutation"}
  /\ \A i \in DOMAIN docCache : docCache[i].document \in {d.text : d \in session}

\* A trace is labelled with the operation the document holds, whatever stands
\* before its first field - comments and defaults with braces and quotes in
\* them, directives, aliases, a fragment the operation uses - or not at all
\* (parseGraphQLOperation: "undefined for anything it cannot label with
\* confidence"), and whether or not the answer was cached.
LabelledAsSent ==
  /\ answer.fieldName = asked.field
  /\ answer # NoOperation => answer.rootTypeName = asked.root /\ answer.operationName = asked.name

\* What is recorded of a document holds no letter and no digit of a literal or
\* a comment (ParsedGraphQLOperation.sanitizedDocument); a document with one of
\* the two lexical corners that asked.corner names is left out.
LiteralsBlanked ==
  ~asked.corner => ToSet(answer.sanitizedDocument) \cap {"s", "9"} = {}

\* "Bounded in both dimensions because the key is" what a client sends: neither
\* the cache nor a recorded document grows with the documents (CACHE_LIMIT,
\* MAX_CACHEABLE_DOCUMENT_LENGTH, MAX_SANITIZED_DOCUMENT_LENGTH), and no
\* document is in the cache twice.
DocumentsBounded ==
  /\ Len(docCache) <= CACHE_LIMIT
  /\ \A i, j \in DOMAIN docCache :
       /\ Len(docCache[i].document) <= MAX_CACHEABLE_DOCUMENT_LENGTH
       /\ i # j => docCache[i].document # docCache[j].document
  /\ Len(answer.sanitizedDocument) <= MAX_SANITIZED_DOCUMENT_LENGTH

\* A GraphQL operation is labelled as it was sent and shown without its values,
\* at a bounded cost (parseGraphQLOperation).
DocumentsTold == DocumentTypeOK /\ LabelledAsSent /\ LiteralsBlanked /\ DocumentsBounded
=============================================================================
