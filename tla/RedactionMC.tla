---------------------------- MODULE RedactionMC ----------------------------
(* Every text of three lexemes, of four of those pairs and schemes are made  *)
(* of, and longer ones of a key and its value; trees one deeper than are     *)
(* walked; queries of three.                                                 *)
EXTENDS Redaction

SomeLexemes == {"word", "key", "sep", "sp", "nl", "quote", "scheme", "cred", "jwt", "aws", "card", "id",
                "digit", "custom", "pem", "wide"}
PairLexemes == {"key", "sep", "sp", "nl", "quote", "scheme", "cred"}
TwoOf(s) == {x \in s : \A i \in 1..(Len(x) - 1) : ~(x[i] = "jwt" /\ x[i + 1] = "jwt")}
ScrubTexts == {<<>>} \cup TwoOf([1..3 -> SomeLexemes]) \cup [1..4 -> PairLexemes]
         \cup {<<"key">> \o t \o <<"sp", "word">> : t \in [1..4 -> {"sep", "sp", "tick", "nl", "cred"}] \cup [1..4 -> {"sep", "sp", "scheme", "cred"}]}

SomeKey(words) == [words |-> words, together |-> FALSE, numbered |-> FALSE]
SomeKeys ==
  LET plain == {SomeKey(<<"user">>), SomeKey(<<"token">>), SomeKey(<<"token", "count">>), SomeKey(<<"code">>),
                SomeKey(<<"password", "hint">>), SomeKey(<<"tenant", "ref">>)}
  IN plain \cup {[words |-> <<"api", "key">>, together |-> TRUE, numbered |-> TRUE]}
NoTree == [kind |-> "number", text |-> <<>>, items |-> <<>>]
Of1(kind, items) == [kind |-> kind, text |-> <<>>, items |-> items]
Wrapped(s) ==
  {Of1("list", <<[key |-> SomeKey(<<"0">>), value |-> v], [key |-> SomeKey(<<"1">>), value |-> NoTree]>>) : v \in s}
  \cup {Of1("map", <<[key |-> k, value |-> v]>>) : k \in SomeKeys, v \in s}
Leaves == {NoTree, TextValue(Cells(<<"word">>)), TextValue(Cells(<<"key", "sep", "cred">>))}
ScrubTrees == Leaves \cup Wrapped(Leaves) \cup Wrapped(Wrapped(Leaves)) \cup Wrapped(Wrapped(Wrapped(Leaves)))
Queries == UNION {{[i \in 1..n |-> [key |-> q[i], at |-> i]] : q \in [1..n -> SomeKeys]} : n \in 0..3}

PlainScrub == [text |-> <<>>, tree |-> NoTree, query |-> <<>>, options |-> Default]
Configured == [useDefaults |-> FALSE, keys |-> {<<"tenant", "ref">>}, patterns |-> {"custom"}]
MCScrubInputs ==
  {[PlainScrub EXCEPT !.text = t] : t \in ScrubTexts} \cup {[PlainScrub EXCEPT !.tree = t] : t \in ScrubTrees}
  \cup {[PlainScrub EXCEPT !.query = q, !.options = o] : q \in Queries, o \in {Default, Configured}}
  \cup {[PlainScrub EXCEPT !.text = t, !.options = o] :
          t \in [1..3 -> {"custom", "key", "sep", "cred"}], o \in {Configured, [Configured EXCEPT !.useDefaults = TRUE]}}
RedactionSpec == RedactionInit /\ [][UNCHANGED scrub]_scrub
=============================================================================
