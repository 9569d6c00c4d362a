---------------------------- MODULE SqlStatements ----------------------------
(***************************************************************************)
(* What is kept of a SQL statement a driver runs (sql-statement.util.ts):  *)
(* its text without comments and values, and a label of its verb and       *)
(* table.                                                                  *)
(*                                                                         *)
(* A statement is a sequence of characters; a word nothing looks into      *)
(* ("SELECT") and the markers of comments are one character.  What is left *)
(* of it is a sequence of positions in it, so that every character shown   *)
(* can be told from its likes: 0 stands for `?` and -1 for a blank.        *)
(***************************************************************************)
EXTENDS Integers, Sequences, FiniteSets, SequencesExt

CONSTANTS
    SqlQueries,            \* the statements run: their text and its dialect
    MAX_STATEMENT_LENGTH,
    MAX_INPUT_LENGTH       \* how much of a statement is read

ASSUME SqlStatementsAssumption == MAX_INPUT_LENGTH \in Nat /\ MAX_STATEMENT_LENGTH \in Nat

VARIABLES
    sqlQuery,    \* the statement run
    shown,       \* the positions of it that outlast its values
    described    \* what its span is given
sqlVars == <<sqlQuery, shown, described>>

NotDescribed == [operation |-> <<>>, statement |-> <<>>]

SqlDigits == {"1", "2"}
SqlLetters == {"e", "a", "b", "s", "t", "SELECT", "DELETE", "INSERT", "REPLACE", "UPDATE", "WITH",
               "FROM", "INTO", "ONLY"}
SqlWord == SqlLetters \cup SqlDigits \cup {"_", "0x"}     \* \w
SqlBlanks == {" ", "nl"}                                  \* \s
OneOf(s, i, set) == i \in DOMAIN s /\ s[i] \in set
Smallest(S, otherwise) == IF S = {} THEN otherwise ELSE CHOOSE i \in S : \A j \in S : i <= j

-----------------------------------------------------------------------------
(* TOKEN: where the token that begins at i ends.                             *)

\* A quoted run: the quote written twice is part of it, and so is, in a string
\* that escapes, whatever is behind a backslash.
QuotedEnd(s, i, escapes) ==
  LET past[j \in 1 .. Len(s) + 2] ==
        IF j > Len(s) THEN Len(s) + 1
        ELSE IF escapes /\ s[j] = "bs" THEN past[j + 2]
        ELSE IF s[j] # s[i] THEN past[j + 1]
        ELSE IF OneOf(s, j + 1, {s[i]}) THEN past[j + 2] ELSE j + 1
  IN past[i + 1]
LineEnd(s, i) == Smallest({j \in i .. Len(s) : s[j] = "nl"}, Len(s) + 1)
BlockCommentEnd(s, i) == 1 + Smallest({j \in i .. Len(s) : s[j] = "*/"}, Len(s))

\* Where a Postgres block comment opened before i ends.
endOfNestedComment(s, i) ==
  LET depth(k) == 1 + Cardinality({j \in i .. k : s[j] = "/*"})
                    - Cardinality({j \in i .. k : s[j] = "*/"})
  IN 1 + Smallest({k \in i .. Len(s) : depth(k) = 0}, Len(s))

\* $tag$ ... $tag$, where a token can start.
DollarTagEnd(s, i) ==
  IF s[i] = "$" /\ ~OneOf(s, i - 1, SqlWord)
  THEN Smallest({j \in i + 1 .. Len(s) : s[j] = "$" /\ \A k \in i + 1 .. j - 1 : s[k] \in SqlLetters \cup {"_"}}, 0)
  ELSE 0
DollarEnd(s, i, j) ==
  LET tag == SubSeq(s, i, j)
      closes == {k \in j + 1 .. Len(s) - Len(tag) + 1 : SubSeq(s, k, k + Len(tag) - 1) = tag}
  IN IF closes = {} THEN Len(s) + 1 ELSE Smallest(closes, 0) + Len(tag)

\* Faulty: no quote is taken for one that might be escaped.
endUnknown_never(s, i, end) == FALSE

\* An odd run of backslashes before a quote of a plain string.
endUnknown(s, i, end) ==
  \E q \in i + 1 .. end - 1 : \E b \in i + 1 .. q - 1 :
    /\ s[q] = "sq" /\ (q - b) % 2 = 1
    /\ \A k \in b .. q - 1 : s[k] = "bs"
    /\ s[b - 1] # "bs"

Kept(i, end) == [k \in 1 .. end - i |-> i + k - 1]

\* What is left from i on, by the first alternative that matches there.
stripLiteralsAndComments(s, dialect) ==
  LET postgres == dialect = "postgresql"
      from[i \in 1 .. Len(s) + 1] ==
        IF i > Len(s) THEN <<>>
        ELSE IF s[i] = "/*"
          THEN <<-1>> \o from[IF postgres THEN endOfNestedComment(s, i + 1) ELSE BlockCommentEnd(s, i)]
        ELSE IF s[i] = "--" \/ (~postgres /\ s[i] = "#") THEN <<-1>> \o from[LineEnd(s, i)]
        ELSE IF s[i] = "bt" \/ (postgres /\ s[i] = "dq")
          THEN Kept(i, QuotedEnd(s, i, FALSE)) \o from[QuotedEnd(s, i, FALSE)]
        ELSE IF postgres /\ s[i] = "e" /\ OneOf(s, i + 1, {"sq"}) /\ ~OneOf(s, i - 1, SqlWord \cup {"$"})
          THEN <<i, 0>> \o from[QuotedEnd(s, i + 1, TRUE)]
        ELSE IF s[i] = "sq" /\ postgres /\ endUnknown(s, i, QuotedEnd(s, i, FALSE)) THEN <<0>>
        ELSE IF s[i] \in {"sq", "dq"} THEN <<0>> \o from[QuotedEnd(s, i, ~postgres)]
        ELSE IF postgres /\ DollarTagEnd(s, i) # 0
          THEN <<0>> \o from[DollarEnd(s, i, DollarTagEnd(s, i))]
        ELSE <<i>> \o from[i + 1]
  IN from[1]

\* The characters that a sequence of positions of s stands for.
TextOf(s, at) == [k \in DOMAIN at |-> IF at[k] = 0 THEN "?" ELSE IF at[k] = -1 THEN " " ELSE s[at[k]]]

-----------------------------------------------------------------------------
\* -?\d[\d_]*(\.[\d_]+)?(e[+-]?\d[\d_]*)?, and the numbers that name their base
Run(s, i, k) == \A j \in i .. k : s[j] \in SqlDigits \cup {"_"}
Digits_(s, i, k) == i <= k /\ s[i] \in SqlDigits /\ Run(s, i, k)
NumberAt(s, i, k) ==
  \/ s[i] = "0x" /\ i < k /\ \A j \in i + 1 .. k : s[j] \in SqlDigits \cup {"_", "e", "a", "b"}
  \/ LET first == IF s[i] = "-" THEN i + 1 ELSE i
     IN \E whole \in first .. k : \E frac \in whole .. k :
          /\ Digits_(s, first, whole)
          /\ frac = whole \/ (frac > whole + 1 /\ s[whole + 1] = "." /\ Run(s, whole + 2, frac))
          /\ \/ frac = k
             \/ /\ s[frac + 1] = "e"
                /\ Digits_(s, IF OneOf(s, frac + 2, {"+", "-"}) THEN frac + 3 ELSE frac + 2, k)

Largest(S, otherwise) == IF S = {} THEN otherwise ELSE CHOOSE i \in S : \A j \in S : j <= i
\* Where the number of x that begins at i ends, or i - 1.
EndOfNumber(x, i) ==
  IF OneOf(x, i - 1, SqlWord \cup {"$"}) THEN i - 1
  ELSE Largest({k \in i .. Len(x) : NumberAt(x, i, k) /\ ~OneOf(x, k + 1, SqlWord)}, i - 1)

\* Positions whose text is a number become one `?`.
numbersBlanked(x, at) ==
  LET from[i \in 1 .. Len(x) + 1] ==
        IF i > Len(x) THEN <<>>
        ELSE LET end == EndOfNumber(x, i)
             IN IF end >= i THEN <<0>> \o from[end + 1] ELSE <<at[i]>> \o from[i + 1]
  IN from[1]
blankNumbers(s, at) == numbersBlanked(TextOf(s, at), at)

\* The word, and a sign behind it, that the bound may have cut in two.
blankCutWord(s, at) ==
  LET x == TextOf(s, at)
      n == IF OneOf(x, Len(x), {"+", "-"}) THEN Len(x) - 1 ELSE Len(x)
      starts == {i \in 1 .. n : \A j \in i .. n : x[j] \in SqlWord \cup {"$"}}
  IN IF starts = {} THEN at ELSE SubSeq(at, 1, Smallest(starts, 0) - 1) \o <<0>>

\* describeSqlStatement, as far as the values go.
Prefix(s, n) == SubSeq(s, 1, IF Len(s) < n THEN Len(s) ELSE n)
sanitizedInput(input, isCut, dialect) ==
  LET blanked == blankNumbers(input, stripLiteralsAndComments(input, dialect))
  IN IF isCut THEN blankCutWord(input, blanked) ELSE blanked
sanitized(s, dialect) ==
  sanitizedInput(Prefix(s, MAX_INPUT_LENGTH), Len(s) > MAX_INPUT_LENGTH, dialect)

-----------------------------------------------------------------------------
Spanning(x, at) == SubSeq(x, Smallest(at, 1), Largest(at, 0))
TrimBlanks(x) == Spanning(x, {i \in DOMAIN x : x[i] \notin SqlBlanks})
\* Whether the items between a list's brackets are two or more values, or two
\* or more placeholders.
ItemsAre(items) ==
  IF items = {<<"?">>} THEN "values"
  ELSE IF \A it \in items : Len(it) > 1 /\ it[1] = "$" /\ \A j \in 2 .. Len(it) : it[j] \in SqlDigits
       THEN "placeholders" ELSE "none"
SplitAt(x, edges) == {TrimBlanks(SubSeq(x, edges[k] + 1, edges[k + 1] - 1)) : k \in 1 .. Len(edges) - 1}
ListOf(x) ==
  IF "," \notin ToSet(x) THEN "none"
  ELSE ItemsAre(SplitAt(x, <<0>> \o SetToSortSeq({i \in DOMAIN x : x[i] = ","}, <) \o <<Len(x) + 1>>))
ListAt(x, i, close) == IF x[i] # "(" \/ close = 0 THEN "none" ELSE ListOf(SubSeq(x, i + 1, close - 1))

\* (?, ?, ?) becomes (?), and ($1, $2) becomes ($n).
collapsedList(kind) == IF kind = "values" THEN <<"(", "?", ")">> ELSE <<"(", "$", "n", ")">>
collapseLists(x) ==
  LET from[i \in 1 .. Len(x) + 1] ==
        IF i > Len(x) THEN <<>>
        ELSE LET close == Smallest({j \in i + 1 .. Len(x) : x[j] = ")"}, 0)
                 kind == ListAt(x, i, close)
             IN IF kind = "none" THEN <<x[i]>> \o from[i + 1] ELSE collapsedList(kind) \o from[close + 1]
  IN from[1]

AllAt(x, at) == [k \in DOMAIN at |-> IF x[at[k]] = "nl" THEN " " ELSE x[at[k]]]
blanksCollapsed(x) ==
  AllAt(x, SelectSeq([i \in DOMAIN x |-> i], LAMBDA i : x[i] \notin SqlBlanks \/ x[i - 1] \notin SqlBlanks))
collapseBlanks(x) == blanksCollapsed(TrimBlanks(x))

\* TABLE_AFTER: the name behind the keyword that a verb has before its table.
RunFrom(x, i, set) == SubSeq(x, i, Smallest({k \in i .. Len(x) : ~OneOf(x, k + 1, set)}, i - 1))
WordAt(x, i, w) == OneOf(x, i, {w}) /\ ~OneOf(x, i - 1, SqlWord) /\ OneOf(x, i + 1, SqlBlanks)
TABLE_AFTER == [SELECT |-> "FROM", DELETE |-> "FROM", INSERT |-> "INTO", REPLACE |-> "INTO", UPDATE |-> "UPDATE"]
TableName == SqlWord \cup {".", "dq", "bt"}
tableBehind(keyword, x, i) ==
  IF keyword # "INTO" /\ WordAt(x, i + 2, "ONLY") /\ OneOf(x, i + 4, TableName) THEN i + 4 ELSE i + 2
tableOf(keyword, x) ==
  LET at == Smallest({i \in DOMAIN x : /\ WordAt(x, i, keyword)
                                       /\ OneOf(x, tableBehind(keyword, x, i), TableName)
                                       /\ keyword = "UPDATE" => i = 1}, 0)
  IN IF at = 0 THEN <<>>
     ELSE SelectSeq(RunFrom(x, tableBehind(keyword, x, at), TableName), LAMBDA c : c \notin {"dq", "bt"})

verbAt(x, opening) == IF OneOf(x, opening, SqlLetters) THEN RunFrom(x, opening, SqlLetters) ELSE <<"QUERY">>
verbAndTable(verb, table) == IF table = <<>> THEN verb ELSE verb \o <<" ">> \o table
operationOf(verb, x) ==
  verbAndTable(verb, IF Len(verb) = 1 /\ verb[1] \in DOMAIN TABLE_AFTER THEN tableOf(TABLE_AFTER[verb[1]], x) ELSE <<>>)
labelled(x) ==
  [operation |-> operationOf(verbAt(x, Smallest({i \in DOMAIN x : x[i] \notin {" ", "("}}, 1)), x),
   statement |-> x]
describeSanitizedSqlStatement(x) == labelled(Prefix(collapseBlanks(collapseLists(x)), MAX_STATEMENT_LENGTH))

SqlInit == sqlQuery \in SqlQueries /\ shown = <<>> /\ described = NotDescribed
describeSqlStatement ==
  /\ described = NotDescribed
  /\ shown' = sanitized(sqlQuery.sql, sqlQuery.dialect)
  /\ described' = describeSanitizedSqlStatement(TextOf(sqlQuery.sql, shown'))
  /\ UNCHANGED sqlQuery
SqlNext == describeSqlStatement

-----------------------------------------------------------------------------
(* The reference: how a server reads the statement, one character at a time, *)
(* the mode it is in behind each.  Under `escaping` a backslash escapes in   *)
(* every Postgres string (standard_conforming_strings off).                  *)

SqlMode(s, dialect, escaping) ==
  LET postgres == dialect = "postgresql"
      plain == [m |-> "sql", quote |-> "", escapes |-> FALSE, skip |-> FALSE, depth |-> 0, since |-> 0]
      mode[i \in 0 .. Len(s)] ==
        IF i = 0 THEN plain
        ELSE
          LET was == mode[i - 1]
              c == s[i]
              again == was.quote = c /\ i > 1 /\ s[i - 1] = c   \* the quote doubled
              opens == {j \in 1 .. i - 1 :
                          /\ c = "$" /\ s[j] = "$" /\ j > was.since
                          /\ \A k \in j + 1 .. i - 1 : s[k] \in SqlLetters \cup {"_"}
                          /\ ~(j - 1 > was.since /\ OneOf(s, j - 1, SqlWord \cup {"$"}))}
          IN CASE was.m = "sql" /\ c = "sq" ->
                    [plain EXCEPT !.m = "string", !.quote = c,
                       !.escapes = IF again THEN was.escapes
                                   ELSE \/ ~postgres \/ escaping
                                        \/ OneOf(s, i - 1, {"e"}) /\ i - 1 > was.since /\ ~OneOf(s, i - 2, SqlWord \cup {"$"})]
               [] was.m = "sql" /\ c = "dq" ->
                    [plain EXCEPT !.m = IF postgres THEN "name" ELSE "string", !.quote = c, !.escapes = ~postgres]
               [] was.m = "sql" /\ c = "bt" -> [plain EXCEPT !.m = "name", !.quote = c]
               [] was.m = "sql" /\ c = "/*" -> [plain EXCEPT !.m = "block", !.depth = 1]
               [] was.m = "sql" /\ (c = "--" \/ (c = "#" /\ ~postgres)) -> [plain EXCEPT !.m = "line"]
               [] was.m = "sql" /\ postgres /\ opens # {} ->
                    [plain EXCEPT !.m = "dollar", !.since = i, !.depth = i - Smallest(opens, 0) + 1]
               [] was.m = "string" /\ was.skip -> [was EXCEPT !.skip = FALSE]
               [] was.m = "string" /\ ~was.skip /\ was.escapes /\ c = "bs" -> [was EXCEPT !.skip = TRUE]
               [] was.m \in {"string", "name"} /\ ~was.skip /\ c = was.quote -> [was EXCEPT !.m = "sql", !.since = i]
               [] was.m = "block" /\ c = "/*" /\ postgres -> [was EXCEPT !.depth = @ + 1]
               [] was.m = "block" /\ c = "*/" ->
                    IF was.depth = 1 \/ ~postgres THEN [plain EXCEPT !.since = i] ELSE [was EXCEPT !.depth = @ - 1]
               [] was.m = "line" /\ c = "nl" -> [plain EXCEPT !.since = i]
               [] was.m = "dollar" /\ i - was.depth >= was.since
                    /\ SubSeq(s, i - was.depth + 1, i) = SubSeq(s, was.since - was.depth + 1, was.since) ->
                    [plain EXCEPT !.since = i]
               [] OTHER -> was
  IN mode

\* The characters of values and comments, and those that belong to neither.
InValue(s, dialect, escaping) ==
  LET mode == SqlMode(s, dialect, escaping)
  IN {i \in 1 .. Len(s) : {mode[i].m, mode[i - 1].m} \cap {"sql", "name"} = {}}
DollarQuotes(mode, n) == {<<o - mode[o].depth + 1, o>> : o \in {i \in 1 .. n : mode[i].m = "dollar" /\ mode[i - 1].m = "sql"}}
OfShape(s, dialect) ==
  LET mode == SqlMode(s, dialect, FALSE)
  IN {i \in 1 .. Len(s) : {mode[i].m, mode[i - 1].m} \subseteq {"sql", "name"}}
     \ UNION {q[1] .. q[2] : q \in DollarQuotes(mode, Len(s))}
\* A name with two `$` in a row, which the code takes for a quote.
DollarsInName(s) ==
  \E i \in 3 .. Len(s) : s[i] = "$" /\ s[i - 1] = "$" /\ s[i - 2] \in SqlWord \cup {"$"}

\* The statements' types.
SqlTypeOK ==
  /\ \A k \in DOMAIN shown : shown[k] \in -1 .. Len(sqlQuery.sql)
  /\ Len(described.statement) <= MAX_STATEMENT_LENGTH

\* No character of a string, a dollar quote or a comment is shown, whatever
\* quotes, backslashes and comment markers it holds, wherever the bound cut it
\* and whichever way the server reads a backslash (stripLiteralsAndComments);
\* a Postgres name with two `$` in a row is left out.
ValuesAreBlanked ==
  sqlQuery.dialect = "mysql" \/ ~DollarsInName(sqlQuery.sql) =>
    \A escaping \in BOOLEAN :
      {shown[k] : k \in DOMAIN shown} \cap InValue(sqlQuery.sql, sqlQuery.dialect, escaping) = {}

\* The statement keeps its shape: every other character but a number's is
\* shown, in order and once, unless the end of a string is unknown or the
\* bound was reached (describeSqlStatement).
ShapeIsKept ==
  LET s == sqlQuery.sql
      kept == SelectSeq(shown, LAMBDA i : i > 0)
  IN /\ \A k \in 1 .. Len(kept) - 1 : kept[k] < kept[k + 1]
     /\ \/ described = NotDescribed
        \/ sqlQuery.dialect = "postgresql" /\ ("bs" \in ToSet(s) \/ DollarsInName(s))
        \/ Len(s) > MAX_INPUT_LENGTH \/ ToSet(s) \cap (SqlDigits \cup {"0x"}) # {}
        \/ OfShape(s, sqlQuery.dialect) \subseteq ToSet(kept)

\* Cutting a statement shows nothing that the whole of it would not: no digit
\* of a number stays because its other half is gone (describeSqlStatement: "The
\* bound may have cut a number short").
CutShowsNoMore ==
  LET s == sqlQuery.sql
      whole == ToSet(blankNumbers(s, stripLiteralsAndComments(s, sqlQuery.dialect)))
  IN \A i \in ToSet(shown) : i > 0 /\ s[i] \in SqlDigits => i \in whole

OtherValues(s, values) ==
  LET other(c) == IF c = "s" THEN "a" ELSE IF c = "1" THEN "2" ELSE c
      alone(i) == s[i] = "1" /\ ~OneOf(s, i - 1, SqlWord \cup {"$"}) /\ ~OneOf(s, i + 1, SqlWord)
  IN [i \in DOMAIN s |-> IF i \in values \/ alone(i) THEN other(s[i]) ELSE s[i]]
LongerLists(s) ==
  {SubSeq(s, 1, i - 1) \o <<",", " ", "1">> \o SubSeq(s, i, Len(s)) :
     i \in {j \in DOMAIN s : /\ s[j] = ")"
                             /\ \E k \in 1 .. j - 2 : /\ s[k] = "("
                                                      /\ ToSet(SubSeq(s, k + 1, j - 1)) \subseteq {"1", "sq", "s", ",", " "}}}
AllDescribedAs(description, texts) ==
  \A x \in texts : describeSanitizedSqlStatement(TextOf(x, sanitized(x, sqlQuery.dialect))) = description

\* "one row per kind of query, not one per distinct WHERE clause": statements
\* that differ in their values only are described alike
\* (SqlStatementDescription.operation), however many values a list holds.
OneLabelPerShape ==
  described # NotDescribed /\ Len(sqlQuery.sql) <= MAX_INPUT_LENGTH =>
    AllDescribedAs(described, {OtherValues(sqlQuery.sql, InValue(sqlQuery.sql, sqlQuery.dialect, FALSE))}
                              \cup LongerLists(sqlQuery.sql))

\* A statement is told by its shape and by nothing of its values
\* (describeSqlStatement).
StatementsShowShapeOnly ==
  SqlTypeOK /\ ValuesAreBlanked /\ ShapeIsKept /\ CutShowsNoMore /\ OneLabelPerShape
=============================================================================
