--------------------------- MODULE Services_proofs ---------------------------
(***************************************************************************)
(* Proofs about the services around the agent's core, for every value of   *)
(* their constants: the OTLP exporter keeps its books, the runtime windows *)
(* tile the time the agent ran, the link command takes its care, and what  *)
(* handlers declare stays put.                                             *)
(***************************************************************************)
EXTENDS OtlpExport, RuntimeMetrics, CliLink, Objectives, SequenceTheorems, FiniteSetTheorems, TLAPS

-----------------------------------------------------------------------------
(***************************************************************************)
(* Rising sequences of numbers, and sequences of which one stays below the *)
(* other.                                                                  *)
(***************************************************************************)

Rising(s) == \A i, j \in 1..Len(s) : i < j => s[i] < s[j]
Below(s, t) == \A i \in 1..Len(s), j \in 1..Len(t) : s[i] < t[j]
UpTo(s, n) == \A i \in 1..Len(s) : s[i] <= n

\* What is joined rises if its parts do and one is below the other.
LEMMA RisingJoined ==
    ASSUME NEW s \in Seq(Nat), NEW t \in Seq(Nat)
    PROVE  Rising(s \o t) <=> Rising(s) /\ Rising(t) /\ Below(s, t)
<1> DEFINE st == s \o t
<1>1. /\ Len(s) \in Nat /\ Len(t) \in Nat /\ Len(st) = Len(s) + Len(t)
      /\ \A i \in 1..Len(s) : st[i] = s[i]
      /\ \A i \in 1..Len(t) : st[Len(s) + i] = t[i]
  OBVIOUS
<1> HIDE DEF st
<1>2. ASSUME Rising(st) PROVE Rising(s) /\ Rising(t) /\ Below(s, t)
  <2>1. Rising(s)
    <3> SUFFICES ASSUME NEW i \in 1..Len(s), NEW j \in 1..Len(s), i < j PROVE s[i] < s[j]
      BY DEF Rising
    <3>1. i \in 1..Len(st) /\ j \in 1..Len(st)
      BY <1>1
    <3> QED BY <1>1, <1>2, <3>1 DEF Rising
  <2>2. Rising(t)
    <3> SUFFICES ASSUME NEW i \in 1..Len(t), NEW j \in 1..Len(t), i < j PROVE t[i] < t[j]
      BY DEF Rising
    <3>1. Len(s) + i \in 1..Len(st) /\ Len(s) + j \in 1..Len(st) /\ Len(s) + i < Len(s) + j
      BY <1>1
    <3> QED BY <1>1, <1>2, <3>1 DEF Rising
  <2>3. Below(s, t)
    <3> SUFFICES ASSUME NEW i \in 1..Len(s), NEW j \in 1..Len(t) PROVE s[i] < t[j]
      BY DEF Below
    <3>1. i \in 1..Len(st) /\ Len(s) + j \in 1..Len(st) /\ i < Len(s) + j
      BY <1>1
    <3> QED BY <1>1, <1>2, <3>1 DEF Rising
  <2> QED BY <2>1, <2>2, <2>3
<1>3. ASSUME Rising(s), Rising(t), Below(s, t) PROVE Rising(st)
  <2> SUFFICES ASSUME NEW i \in 1..Len(st), NEW j \in 1..Len(st), i < j PROVE st[i] < st[j]
    BY DEF Rising
  <2>1. CASE j <= Len(s)
    <3>1. i \in 1..Len(s) /\ j \in 1..Len(s)
      BY <1>1, <2>1
    <3>2. st[i] = s[i] /\ st[j] = s[j]
      BY <1>1, <3>1
    <3> QED BY <1>3, <3>1, <3>2 DEF Rising
  <2>2. CASE i > Len(s)
    <3>1. /\ i - Len(s) \in 1..Len(t) /\ j - Len(s) \in 1..Len(t) /\ i - Len(s) < j - Len(s)
          /\ i = Len(s) + (i - Len(s)) /\ j = Len(s) + (j - Len(s))
      BY <1>1, <2>2
    <3>2. st[i] = t[i - Len(s)] /\ st[j] = t[j - Len(s)]
      BY <1>1, <3>1
    <3> QED BY <1>3, <3>1, <3>2 DEF Rising
  <2>3. CASE i <= Len(s) /\ j > Len(s)
    <3>1. /\ i \in 1..Len(s) /\ j - Len(s) \in 1..Len(t) /\ j = Len(s) + (j - Len(s))
      BY <1>1, <2>3
    <3>2. st[i] = s[i] /\ st[j] = t[j - Len(s)]
      BY <1>1, <3>1
    <3> QED BY <1>3, <3>1, <3>2 DEF Below
  <2> QED BY <1>1, <2>1, <2>2, <2>3
<1> QED BY <1>2, <1>3 DEF st

LEMMA BelowJoined ==
    ASSUME NEW s \in Seq(Nat), NEW t \in Seq(Nat), NEW u \in Seq(Nat)
    PROVE  /\ Below(u, s \o t) <=> Below(u, s) /\ Below(u, t)
           /\ Below(s \o t, u) <=> Below(s, u) /\ Below(t, u)
<1> DEFINE st == s \o t
<1>1. /\ Len(s) \in Nat /\ Len(t) \in Nat /\ Len(st) = Len(s) + Len(t)
      /\ \A i \in 1..Len(s) : i \in 1..Len(st) /\ st[i] = s[i]
      /\ \A i \in 1..Len(t) : Len(s) + i \in 1..Len(st) /\ st[Len(s) + i] = t[i]
  OBVIOUS
<1> HIDE DEF st
<1>2. \A k \in 1..Len(st) : \/ k \in 1..Len(s)
                            \/ k - Len(s) \in 1..Len(t) /\ k = Len(s) + (k - Len(s))
  BY <1>1
<1>3. \A k \in 1..Len(st) : \/ \E i \in 1..Len(s) : st[k] = s[i]
                            \/ \E i \in 1..Len(t) : st[k] = t[i]
  <2> SUFFICES ASSUME NEW k \in 1..Len(st)
               PROVE  (\E i \in 1..Len(s) : st[k] = s[i]) \/ (\E i \in 1..Len(t) : st[k] = t[i])
    OBVIOUS
  <2>1. CASE k \in 1..Len(s)
    BY <1>1, <2>1
  <2>2. CASE k - Len(s) \in 1..Len(t) /\ k = Len(s) + (k - Len(s))
    <3>1. st[k] = t[k - Len(s)]
      BY <1>1, <2>2
    <3> QED BY <2>2, <3>1
  <2> QED BY <1>2, <2>1, <2>2
<1>4. (\A i \in 1..Len(s) : \E k \in 1..Len(st) : st[k] = s[i])
      /\ (\A i \in 1..Len(t) : \E k \in 1..Len(st) : st[k] = t[i])
  BY <1>1
<1>5. Below(u, st) <=> Below(u, s) /\ Below(u, t)
  BY <1>3, <1>4 DEF Below
<1>6. Below(st, u) <=> Below(s, u) /\ Below(t, u)
  BY <1>3, <1>4 DEF Below
<1> QED BY <1>5, <1>6 DEF st

LEMMA UpToJoined ==
    ASSUME NEW s \in Seq(Nat), NEW t \in Seq(Nat), NEW n \in Nat
    PROVE  UpTo(s \o t, n) <=> UpTo(s, n) /\ UpTo(t, n)
<1> DEFINE st == s \o t
<1>1. /\ Len(s) \in Nat /\ Len(t) \in Nat /\ Len(st) = Len(s) + Len(t)
      /\ \A i \in 1..Len(s) : i \in 1..Len(st) /\ st[i] = s[i]
      /\ \A i \in 1..Len(t) : Len(s) + i \in 1..Len(st) /\ st[Len(s) + i] = t[i]
  OBVIOUS
<1> HIDE DEF st
<1>2. ASSUME UpTo(s, n), UpTo(t, n) PROVE UpTo(st, n)
  <2> SUFFICES ASSUME NEW k \in 1..Len(st) PROVE st[k] <= n
    BY DEF UpTo
  <2>1. CASE k <= Len(s)
    BY <1>1, <1>2, <2>1 DEF UpTo
  <2>2. CASE k > Len(s)
    <3>1. k - Len(s) \in 1..Len(t) /\ k = Len(s) + (k - Len(s))
      BY <1>1, <2>2
    <3>2. st[k] = t[k - Len(s)]
      BY <1>1, <3>1
    <3> QED BY <1>2, <3>1, <3>2 DEF UpTo
  <2> QED BY <1>1, <2>1, <2>2
<1>3. ASSUME UpTo(st, n) PROVE UpTo(s, n) /\ UpTo(t, n)
  BY <1>1, <1>3 DEF UpTo
<1> QED BY <1>2, <1>3 DEF st

-----------------------------------------------------------------------------
(***************************************************************************)
(* OtlpExport                                                              *)
(***************************************************************************)

\* What was exported, what is under way and what waits: in order, and none of
\* them handed over after the n-th.
Ordered(e, s, q, n) ==
    /\ Rising(e) /\ Rising(s) /\ Rising(q) /\ Below(e, s) /\ Below(e, q) /\ Below(s, q)
    /\ UpTo(e, n) /\ UpTo(s, n) /\ UpTo(q, n)
Spans_ == Seq(1..MaxSpans)

LEMMA SpansAreNumbers ==
    ASSUME NEW s \in Spans_
    PROVE  s \in Seq(Nat) /\ Len(s) \in Nat /\ \A i \in 1..Len(s) : s[i] \in 1..MaxSpans
BY OtlpExportAssumption DEF Spans_

LEMMA NothingOrdered ==
    ASSUME NEW s \in Spans_, NEW n \in Nat
    PROVE  /\ <<>> \in Spans_ /\ Rising(<<>>) /\ Below(<<>>, s) /\ Below(s, <<>>) /\ UpTo(<<>>, n)
           /\ Len(<<>>) = 0
BY DEF Spans_, Rising, Below, UpTo

LEMMA JoinedSpans ==
    ASSUME NEW s \in Spans_, NEW t \in Spans_
    PROVE  s \o t \in Spans_ /\ Len(s \o t) = Len(s) + Len(t)
BY DEF Spans_

\* A batch is cut from the front of the queue.
LEMMA BatchCut ==
    ASSUME NEW s \in Spans_, NEW q \in Spans_, NEW w \in Nat
    PROVE  LET f == flushed(q, s, w) IN
           /\ f.queue \in Spans_ /\ f.sending \in Spans_
           /\ canFlush(q, s, w) => f.sending \o f.queue = q /\ Len(f.sending) <= MAX_BATCH_SPANS
           /\ ~canFlush(q, s, w) => f.queue = q /\ f.sending = s
           /\ Len(f.sending) + Len(f.queue) = Len(s) + Len(q) /\ Len(f.queue) <= Len(q)
<1> DEFINE m == Least(MAX_BATCH_SPANS, Len(q))
           a == SubSeq(q, 1, m)
           b == SubSeq(q, MAX_BATCH_SPANS + 1, Len(q))
<1>1. /\ Len(q) \in Nat /\ q \in Seq(1..MaxSpans) /\ MAX_BATCH_SPANS \in Nat \ {0} /\ Len(s) \in Nat
      /\ \A i \in 1..Len(q) : q[i] \in 1..MaxSpans
  BY OtlpExportAssumption, SpansAreNumbers DEF Spans_
<1>2. m \in 0..Len(q) /\ m <= MAX_BATCH_SPANS
  BY <1>1 DEF Least
<1>3. a \in Spans_ /\ Len(a) = m /\ \A i \in 1..m : a[i] = q[i]
  <2> HIDE DEF m
  <2>1. m \in Int /\ \A i \in 1..m : q[i] \in 1..MaxSpans
    <3>1. \A i \in 1..m : i \in 1..Len(q)
      BY <1>1, <1>2
    <3> QED BY <1>1, <1>2, <3>1
  <2>2. /\ SubSeq(q, 1, m) \in Seq(1..MaxSpans)
        /\ Len(SubSeq(q, 1, m)) = IF 1 <= m THEN m - 1 + 1 ELSE 0
        /\ \A i \in 1..m - 1 + 1 : SubSeq(q, 1, m)[i] = q[1 + i - 1]
    BY <2>1, SubSeqProperties
  <2> QED BY <1>1, <1>2, <2>2 DEF Spans_
<1>4. /\ b \in Spans_ /\ Len(b) = Len(q) - m
      /\ \A i \in 1..(Len(q) - m) : b[i] = q[m + i]
  <2>1. CASE MAX_BATCH_SPANS <= Len(q)
    <3>1. m = MAX_BATCH_SPANS
      BY <1>1, <2>1 DEF Least
    <3> HIDE DEF m
    <3>2. m + 1 \in Int /\ Len(q) \in Int /\ \A i \in (m + 1)..Len(q) : q[i] \in 1..MaxSpans
      BY <1>1, <1>2
    <3>3. /\ SubSeq(q, m + 1, Len(q)) \in Seq(1..MaxSpans)
          /\ Len(SubSeq(q, m + 1, Len(q))) = IF m + 1 <= Len(q) THEN Len(q) - (m + 1) + 1 ELSE 0
          /\ \A i \in 1..Len(q) - (m + 1) + 1 :
                 SubSeq(q, m + 1, Len(q))[i] = q[m + 1 + i - 1]
      BY <3>2, SubSeqProperties
    <3>4. b = SubSeq(q, m + 1, Len(q))
      BY <3>1
    <3> HIDE DEF b
    <3> QED BY <1>1, <1>2, <3>3, <3>4 DEF Spans_
  <2>2. CASE MAX_BATCH_SPANS > Len(q)
    <3>1. m = Len(q)
      BY <1>1, <2>2 DEF Least
    <3>2. b = <<>>
      BY <1>1, <2>2, SubSeqEmpty
    <3> HIDE DEF m, b
    <3> QED BY <1>1, <3>1, <3>2 DEF Spans_
  <2> QED BY <1>1, <2>1, <2>2
<1> HIDE DEF m, a, b
<1>5. a \o b = q
  <2>1. /\ a \o b \in Seq(1..MaxSpans) /\ Len(a \o b) = Len(a) + Len(b)
        /\ \A i \in 1..Len(a) + Len(b) : (a \o b)[i] = IF i <= Len(a) THEN a[i] ELSE b[i - Len(a)]
    BY <1>3, <1>4, ConcatProperties DEF Spans_
  <2>2. ASSUME NEW i \in 1..Len(q) PROVE (a \o b)[i] = q[i]
    <3>1. (a \o b)[i] = IF i <= m THEN a[i] ELSE b[i - m]
      BY <1>1, <1>2, <1>3, <1>4, <2>1
    <3>2. CASE i <= m
      BY <1>2, <1>3, <3>1, <3>2
    <3>3. CASE i > m
      <4>1. i - m \in 1..(Len(q) - m) /\ m + (i - m) = i
        BY <1>1, <1>2, <3>3
      <4> QED BY <1>2, <1>4, <3>1, <3>3, <4>1
    <3>4. i <= m \/ i > m
      BY <1>2
    <3> QED BY <3>2, <3>3, <3>4
  <2>3. Len(a \o b) = Len(q)
    BY <1>1, <1>2, <1>3, <1>4, <2>1
  <2> QED BY <1>1, <2>1, <2>2, <2>3, SeqEqual
<1>6. CASE canFlush(q, s, w)
  <2>1. flushed(q, s, w) = [queue |-> b, sending |-> a]
    BY <1>6 DEF flushed, batchOf, a, b, m
  <2>2. Len(s) = 0
    BY <1>6 DEF canFlush
  <2>3. Len(a) + Len(b) = Len(s) + Len(q) /\ Len(b) <= Len(q) /\ Len(a) <= MAX_BATCH_SPANS
    BY <1>1, <1>2, <1>3, <1>4, <2>2
  <2>4. flushed(q, s, w).queue = b /\ flushed(q, s, w).sending = a
    BY <2>1
  <2> QED BY <1>3, <1>4, <1>5, <1>6, <2>3, <2>4
<1>7. CASE ~canFlush(q, s, w)
  <2>1. flushed(q, s, w) = [queue |-> q, sending |-> s]
    BY <1>7 DEF flushed
  <2> QED BY <1>1, <1>7, <2>1
<1> QED BY <1>6, <1>7

\* Moves that keep the order: a batch is cut, an export ends one way or the other,
\* spans are handed over.
LEMMA OrderKept ==
    ASSUME NEW e \in Spans_, NEW s \in Spans_, NEW q \in Spans_, NEW n \in Nat
    PROVE  /\ Ordered(e, <<>>, s \o q, n) <=> Ordered(e, s, q, n)
           /\ Ordered(e, s, q, n) => Ordered(e \o s, <<>>, q, n)
           /\ Ordered(e, s, q, n) => Ordered(e, <<>>, q, n)
           /\ Ordered(e, s, q, n) <=> Rising((e \o s) \o q) /\ UpTo((e \o s) \o q, n)
<1>1. e \in Seq(Nat) /\ s \in Seq(Nat) /\ q \in Seq(Nat)
  BY SpansAreNumbers
<1>2. e \o s \in Spans_ /\ s \o q \in Spans_ /\ e \o s \in Seq(Nat) /\ s \o q \in Seq(Nat)
  BY JoinedSpans, SpansAreNumbers
<1>3. /\ Rising(<<>>) /\ Below(<<>>, q) /\ Below(e, <<>>) /\ UpTo(<<>>, n) /\ Below(<<>>, s \o q)
      /\ Below(e \o s, <<>>)
  BY <1>2, NothingOrdered
<1>4. Rising(s \o q) <=> Rising(s) /\ Rising(q) /\ Below(s, q)
  BY <1>1, RisingJoined
<1>5. Below(e, s \o q) <=> Below(e, s) /\ Below(e, q)
  BY <1>1, BelowJoined
<1>6. UpTo(s \o q, n) <=> UpTo(s, n) /\ UpTo(q, n)
  BY <1>1, UpToJoined
<1>7. Rising(e \o s) <=> Rising(e) /\ Rising(s) /\ Below(e, s)
  BY <1>1, RisingJoined
<1>8. Below(e \o s, q) <=> Below(e, q) /\ Below(s, q)
  BY <1>1, BelowJoined
<1>9. UpTo(e \o s, n) <=> UpTo(e, n) /\ UpTo(s, n)
  BY <1>1, UpToJoined
<1>10. Rising((e \o s) \o q) <=> Rising(e \o s) /\ Rising(q) /\ Below(e \o s, q)
  BY <1>1, <1>2, RisingJoined
<1>11. UpTo((e \o s) \o q, n) <=> UpTo(e \o s, n) /\ UpTo(q, n)
  BY <1>1, <1>2, UpToJoined
<1> QED BY <1>3, <1>4, <1>5, <1>6, <1>7, <1>8, <1>9, <1>10, <1>11 DEF Ordered

LEMMA OrderGrows ==
    ASSUME NEW e \in Spans_, NEW s \in Spans_, NEW q \in Spans_, NEW n \in Nat, NEW k \in Nat,
           n + k <= MaxSpans, Ordered(e, s, q, n)
    PROVE  LET t == [i \in 1..k |-> n + i] IN
           /\ q \o t \in Spans_ /\ Len(q \o t) = Len(q) + k
           /\ Ordered(e, s, q \o t, n + k)
<1> DEFINE t == [i \in 1..k |-> n + i]
<1>1. t \in Spans_ /\ Len(t) = k /\ t \in Seq(Nat)
  BY OtlpExportAssumption DEF Spans_
<1>2. Rising(t) /\ UpTo(t, n + k)
  BY DEF Rising, UpTo
<1>3. \A i \in 1..k : t[i] > n
  OBVIOUS
<1> HIDE DEF t
<1>4. ASSUME NEW u \in Spans_, UpTo(u, n) PROVE Below(u, t) /\ UpTo(u, n + k)
  <2>1. \A i \in 1..Len(u) : u[i] \in Nat /\ u[i] <= n
    BY <1>4, SpansAreNumbers, OtlpExportAssumption DEF UpTo
  <2>2. \A i \in 1..Len(t) : t[i] \in Nat /\ t[i] > n
    BY <1>1, <1>3
  <2> QED BY <2>1, <2>2 DEF Below, UpTo
<1>5. q \o t \in Spans_ /\ Len(q \o t) = Len(q) + k
  BY <1>1, JoinedSpans
<1>6. e \in Seq(Nat) /\ s \in Seq(Nat) /\ q \in Seq(Nat)
  BY SpansAreNumbers
<1>7. Rising(q \o t)
  BY <1>1, <1>2, <1>4, <1>6, RisingJoined DEF Ordered
<1>8. Below(e, q \o t) /\ Below(s, q \o t)
  BY <1>1, <1>4, <1>6, BelowJoined DEF Ordered
<1>9. UpTo(q \o t, n + k)
  BY <1>1, <1>2, <1>4, <1>6, UpToJoined DEF Ordered
<1>10. UpTo(e, n + k) /\ UpTo(s, n + k)
  BY <1>4 DEF Ordered
<1> QED BY <1>5, <1>7, <1>8, <1>9, <1>10 DEF Ordered, t

\* What the queue and the export come to when a batch is cut, or cannot be.
WellCut(e, s, q, w, n) ==
    LET f == flushed(q, s, w) IN
    /\ f.queue \in Spans_ /\ f.sending \in Spans_ /\ Ordered(e, f.sending, f.queue, n)
    /\ Len(f.sending) + Len(f.queue) = Len(s) + Len(q) /\ Len(f.queue) <= Len(q)
    /\ Len(f.sending) <= MAX_BATCH_SPANS

LEMMA CutKept ==
    ASSUME NEW e \in Spans_, NEW s \in Spans_, NEW q \in Spans_, NEW w \in Nat, NEW n \in Nat,
           Ordered(e, s, q, n), Len(s) <= MAX_BATCH_SPANS
    PROVE  WellCut(e, s, q, w, n)
<1> DEFINE f == flushed(q, s, w)
<1>1. /\ f.queue \in Spans_ /\ f.sending \in Spans_
      /\ canFlush(q, s, w) => f.sending \o f.queue = q /\ Len(f.sending) <= MAX_BATCH_SPANS
      /\ ~canFlush(q, s, w) => f.queue = q /\ f.sending = s
      /\ Len(f.sending) + Len(f.queue) = Len(s) + Len(q) /\ Len(f.queue) <= Len(q)
  BY BatchCut
<1> HIDE DEF f
<1>2. CASE canFlush(q, s, w)
  <2>1. s = <<>> /\ f.sending \o f.queue = q
    BY <1>1, <1>2 DEF canFlush
  <2>2. Ordered(e, <<>>, f.sending \o f.queue, n)
    BY <2>1
  <2>3. Ordered(e, f.sending, f.queue, n)
    BY <1>1, <2>2, OrderKept
  <2> QED BY <1>1, <1>2, <2>3 DEF f, WellCut
<1>3. CASE ~canFlush(q, s, w)
  BY <1>1, <1>3 DEF f, WellCut
<1> QED BY <1>2, <1>3

\* The invariant: the books, and the order of all that was handed over.
OtlpInv ==
    /\ OtlpTypeOK /\ OtlpSpansAccounted /\ Ordered(exported, sending, queue, handed)
    /\ exported \in Spans_ /\ handed \in 0..MaxSpans /\ wait \in Nat
    /\ lost \in Nat /\ droppedSpans \in Nat /\ toldDropped \in Nat

LEMMA OtlpInvStarts == OtlpInit => OtlpInv
<1> SUFFICES ASSUME OtlpInit PROVE OtlpInv
  OBVIOUS
<1>1. /\ queue = <<>> /\ sending = <<>> /\ exported = <<>> /\ handed = 0 /\ wait = 0 /\ lost = 0
      /\ droppedSpans = 0 /\ toldDropped = 0 /\ retryDelayMs = 0 /\ drain = "no"
  BY DEF OtlpInit
<1>2. <<>> \in Spans_ /\ Len(<<>>) = 0
  BY DEF Spans_
<1>3. Ordered(<<>>, <<>>, <<>>, 0)
  BY <1>2, NothingOrdered DEF Ordered
<1>4. OtlpTypeOK
  BY <1>1, <1>2, OtlpExportAssumption DEF OtlpTypeOK, Spans_
<1>5. OtlpSpansAccounted
  BY <1>1, <1>2 DEF OtlpSpansAccounted
<1> QED BY <1>1, <1>2, <1>3, <1>4, <1>5, OtlpExportAssumption DEF OtlpInv

\* What the invariant says of the sequences and their lengths.
LEMMA OtlpShape ==
    ASSUME OtlpInv
    PROVE  /\ queue \in Spans_ /\ sending \in Spans_ /\ exported \in Spans_
           /\ Len(queue) \in Nat /\ Len(sending) \in Nat /\ Len(exported) \in Nat
           /\ Len(queue) <= MAX_QUEUED_SPANS /\ Len(sending) <= MAX_BATCH_SPANS
           /\ handed \in Nat /\ handed <= MaxSpans
           /\ handed = Len(queue) + Len(sending) + Len(exported) + lost + droppedSpans + toldDropped
<1>1. queue \in Spans_ /\ sending \in Spans_ /\ exported \in Spans_
  BY DEF OtlpInv, OtlpTypeOK, Spans_
<1>2. Len(queue) \in Nat /\ Len(sending) \in Nat /\ Len(exported) \in Nat
  BY <1>1, SpansAreNumbers
<1> QED BY <1>1, <1>2, OtlpExportAssumption DEF OtlpInv, OtlpTypeOK, OtlpSpansAccounted

\* The invariant, from its parts.
LEMMA OtlpInvNext ==
    ASSUME queue' \in Spans_, sending' \in Spans_, exported' \in Spans_,
           Len(queue') <= MAX_QUEUED_SPANS, Len(sending') <= MAX_BATCH_SPANS,
           retryDelayMs' \in 0..RETRY_MAX_MS, wait' \in 0..RETRY_AFTER_MAX_MS,
           drain' \in {"no", "draining", "awaiting", "settled"} \cup Ended,
           handed' \in 0..MaxSpans, lost' \in Nat, droppedSpans' \in Nat, toldDropped' \in Nat,
           Ordered(exported', sending', queue', handed'),
           handed' = Len(queue') + Len(sending') + Len(exported') + lost' + droppedSpans'
                     + toldDropped'
    PROVE  OtlpInv'
<1>1. OtlpTypeOK'
  BY OtlpExportAssumption DEF OtlpTypeOK, Spans_
<1>2. OtlpSpansAccounted'
  BY DEF OtlpSpansAccounted
<1>3. (Ordered(exported, sending, queue, handed))'
  BY DEF Ordered, Rising, Below, UpTo
<1>4. wait' \in Nat /\ exported' \in Spans_
  BY OtlpExportAssumption
<1> QED BY <1>1, <1>2, <1>3, <1>4 DEF OtlpInv, Spans_

\* An export ends, and the next batch may go out.
LEMMA ExportSettled ==
    ASSUME OtlpInv, NEW e \in Spans_, NEW q \in Spans_, NEW w \in 0..RETRY_AFTER_MAX_MS,
           Len(q) <= MAX_QUEUED_SPANS, Ordered(e, <<>>, q, handed), settle(q, w)
    PROVE  /\ queue' \in Spans_ /\ sending' \in Spans_ /\ Ordered(e, sending', queue', handed')
           /\ Len(queue') <= MAX_QUEUED_SPANS /\ Len(sending') <= MAX_BATCH_SPANS
           /\ Len(queue') + Len(sending') = Len(q) /\ wait' = w /\ handed' = handed
           /\ drain' \in {"no", "draining", "awaiting", "settled"} \cup Ended
           /\ drain' = "drained" => drain = "drained"
<1> DEFINE f == flushed(q, <<>>, w)
<1>1. /\ \/ queue' = f.queue /\ sending' = f.sending
         \/ queue' = q /\ sending' = <<>>
      /\ wait' = w /\ handed' = handed
      /\ drain' = IF drain = "awaiting" THEN "settled" ELSE drain
  BY DEF settle
<1>2. drain \in {"no", "draining", "awaiting", "settled"} \cup Ended
  BY DEF OtlpInv, OtlpTypeOK
<1>3. /\ <<>> \in Spans_ /\ Len(<<>>) = 0 /\ handed \in Nat /\ w \in Nat
      /\ MAX_BATCH_SPANS \in Nat /\ Len(q) \in Nat
  BY OtlpShape, OtlpExportAssumption, SpansAreNumbers DEF Spans_
<1>4. /\ f.queue \in Spans_ /\ f.sending \in Spans_ /\ Ordered(e, f.sending, f.queue, handed)
      /\ Len(f.sending) + Len(f.queue) = Len(q) /\ Len(f.queue) <= Len(q)
      /\ Len(f.sending) <= MAX_BATCH_SPANS
  <2>1. Len(<<>>) <= MAX_BATCH_SPANS
    BY <1>3
  <2>2. /\ f.queue \in Spans_ /\ f.sending \in Spans_ /\ Ordered(e, f.sending, f.queue, handed)
        /\ Len(f.sending) + Len(f.queue) = Len(<<>>) + Len(q) /\ Len(f.queue) <= Len(q)
        /\ Len(f.sending) <= MAX_BATCH_SPANS
    BY <1>3, <2>1, CutKept DEF WellCut
  <2>3. Len(f.sending) + Len(f.queue) = Len(q)
    <3> HIDE DEF f
    <3>1. Len(f.sending) + Len(f.queue) = 0 + Len(q)
      BY <1>3, <2>2
    <3>2. 0 + Len(q) = Len(q)
      BY <1>3
    <3> QED BY <3>1, <3>2
  <2> QED BY <2>2, <2>3
<1>5. Len(f.sending) \in Nat /\ Len(f.queue) \in Nat
  BY <1>4, SpansAreNumbers
<1> HIDE DEF f
<1>6. /\ queue' \in Spans_ /\ sending' \in Spans_ /\ Ordered(e, sending', queue', handed')
  BY <1>1, <1>3, <1>4
<1>7. /\ Len(queue') <= MAX_QUEUED_SPANS /\ Len(sending') <= MAX_BATCH_SPANS
      /\ Len(queue') + Len(sending') = Len(q)
  <2>1. CASE queue' = f.queue /\ sending' = f.sending
    <3>1. Len(queue') \in Nat /\ Len(queue') <= Len(q) /\ Len(sending') <= MAX_BATCH_SPANS
      BY <1>4, <1>5, <2>1
    <3>2. Len(queue') <= MAX_QUEUED_SPANS
      BY <1>3, <3>1, OtlpExportAssumption
    <3>3. Len(sending') + Len(queue') = Len(q) /\ Len(sending') \in Nat
      BY <1>4, <1>5, <2>1
    <3>4. Len(queue') + Len(sending') = Len(q)
      BY <3>1, <3>3
    <3> QED BY <3>1, <3>2, <3>4
  <2>2. CASE queue' = q /\ sending' = <<>>
    BY <1>3, <2>2, OtlpExportAssumption
  <2> QED BY <1>1, <2>1, <2>2
<1>8. /\ drain' \in {"no", "draining", "awaiting", "settled"} \cup Ended
      /\ drain' = "drained" => drain = "drained"
  BY <1>1, <1>2
<1> QED BY <1>1, <1>6, <1>7, <1>8

\* The steps that leave the spans where they are.
LEMMA BooksLeft ==
    ASSUME OtlpInv, UNCHANGED <<queue, sending, exported, handed, lost, droppedSpans, toldDropped>>,
           retryDelayMs' = retryDelayMs, wait' \in 0..wait,
           drain' \in {"no", "draining", "awaiting", "settled"} \cup Ended
    PROVE  OtlpInv'
<1>1. wait' \in 0..RETRY_AFTER_MAX_MS
  BY OtlpExportAssumption DEF OtlpInv, OtlpTypeOK
<1>2. retryDelayMs' \in 0..RETRY_MAX_MS /\ handed' \in 0..MaxSpans
  BY DEF OtlpInv, OtlpTypeOK
<1>3. Ordered(exported', sending', queue', handed')
  BY DEF OtlpInv
<1>4. lost' \in Nat /\ droppedSpans' \in Nat /\ toldDropped' \in Nat
  BY DEF OtlpInv
<1> QED BY <1>1, <1>2, <1>3, <1>4, OtlpShape, OtlpInvNext

\* The steps that cut a batch and leave everything else.
OnlyCuts(w) ==
    /\ queue' = flushed(queue, sending, w).queue /\ sending' = flushed(queue, sending, w).sending
    /\ UNCHANGED <<exported, handed, lost, droppedSpans, toldDropped, retryDelayMs>>
    /\ wait' \in 0..wait /\ drain' \in {"no", "draining", "awaiting", "settled"} \cup Ended

LEMMA BooksCut ==
    ASSUME OtlpInv, NEW w \in Nat, OnlyCuts(w)
    PROVE  OtlpInv'
<1> DEFINE f == flushed(queue, sending, w)
<1>0. /\ exported' = exported /\ handed' = handed /\ lost' = lost /\ retryDelayMs' = retryDelayMs
      /\ droppedSpans' = droppedSpans /\ toldDropped' = toldDropped
      /\ drain' \in {"no", "draining", "awaiting", "settled"} \cup Ended /\ wait' \in 0..wait
  BY DEF OnlyCuts
<1>1. wait' \in 0..RETRY_AFTER_MAX_MS
  BY <1>0, OtlpExportAssumption DEF OtlpInv, OtlpTypeOK
<1>2. retryDelayMs' \in 0..RETRY_MAX_MS /\ handed' \in 0..MaxSpans
  BY <1>0 DEF OtlpInv, OtlpTypeOK
<1>3. lost' \in Nat /\ droppedSpans' \in Nat /\ toldDropped' \in Nat
  BY <1>0 DEF OtlpInv
<1>4. Ordered(exported, sending, queue, handed)
  BY DEF OtlpInv
<1>5. /\ f.queue \in Spans_ /\ f.sending \in Spans_ /\ Ordered(exported, f.sending, f.queue, handed)
      /\ Len(f.sending) + Len(f.queue) = Len(sending) + Len(queue) /\ Len(f.queue) <= Len(queue)
      /\ Len(f.sending) <= MAX_BATCH_SPANS
  BY <1>4, OtlpShape, CutKept DEF WellCut
<1>6. queue' = f.queue /\ sending' = f.sending
  BY DEF OnlyCuts
<1> HIDE DEF f
<1>7. queue' \in Spans_ /\ sending' \in Spans_ /\ Ordered(exported', sending', queue', handed')
  BY <1>0, <1>5, <1>6
<1>8. /\ Len(queue') \in Nat /\ Len(sending') \in Nat
      /\ Len(sending') + Len(queue') = Len(sending) + Len(queue) /\ Len(queue') <= Len(queue)
      /\ Len(sending') <= MAX_BATCH_SPANS
  BY <1>5, <1>6, SpansAreNumbers
<1>9. Len(queue') <= MAX_QUEUED_SPANS
  BY <1>8, OtlpShape, OtlpExportAssumption
<1>10. handed' = Len(queue') + Len(sending') + Len(exported') + lost' + droppedSpans' + toldDropped'
  <2>1. /\ Len(queue) \in Nat /\ Len(sending) \in Nat /\ Len(exported) \in Nat
        /\ handed = Len(queue) + Len(sending) + Len(exported) + lost + droppedSpans + toldDropped
    BY OtlpShape
  <2>2. /\ handed' = handed /\ Len(exported') = Len(exported) /\ lost' = lost
        /\ droppedSpans' = droppedSpans /\ toldDropped' = toldDropped
    BY <1>0
  <2>3. lost \in Nat /\ droppedSpans \in Nat /\ toldDropped \in Nat
    BY DEF OtlpInv
  <2>4. Len(queue') + Len(sending') = Len(queue) + Len(sending)
    BY <1>8, <2>1
  <2> QED BY <2>1, <2>2, <2>4
<1> QED BY <1>0, <1>1, <1>2, <1>3, <1>7, <1>8, <1>9, <1>10, OtlpShape, OtlpInvNext

\* An operation hands its spans over.
HandsOver(n) ==
    /\ handed + n <= MaxSpans /\ enqueue(n) /\ handed' = handed + n
    /\ UNCHANGED <<wait, retryDelayMs, drain, exported, lost, toldDropped>>

LEMMA BooksGrow ==
    ASSUME OtlpInv, NEW n \in TreeSizes, HandsOver(n)
    PROVE  OtlpInv'
<1> DEFINE t == [i \in 1..n |-> handed + i]
           q == queue \o t
           f == flushed(q, sending, wait)
           m == handed + n
<1>0. /\ handed + n <= MaxSpans /\ handed' = handed + n /\ wait' = wait /\ drain' = drain
      /\ retryDelayMs' = retryDelayMs /\ exported' = exported /\ lost' = lost
      /\ toldDropped' = toldDropped
  BY DEF HandsOver
<1>1. n \in Nat /\ handed \in Nat /\ wait \in Nat /\ droppedSpans \in Nat
  BY OtlpExportAssumption, OtlpShape DEF OtlpInv
<1>2. Ordered(exported, sending, queue, handed)
  BY DEF OtlpInv
<1>3. q \in Spans_ /\ Len(q) = Len(queue) + n /\ Ordered(exported, sending, q, m)
  BY <1>0, <1>1, <1>2, OtlpShape, OrderGrows
<1>4. m \in Nat
  BY <1>1
<1> HIDE DEF q, m
<1>5. /\ f.queue \in Spans_ /\ f.sending \in Spans_
      /\ Ordered(exported, f.sending, f.queue, m)
      /\ Len(f.sending) + Len(f.queue) = Len(sending) + Len(q) /\ Len(f.queue) <= Len(q)
      /\ Len(f.sending) <= MAX_BATCH_SPANS
  <2>1. sending \in Spans_ /\ exported \in Spans_ /\ Len(sending) <= MAX_BATCH_SPANS
    BY OtlpShape
  <2>2. q \in Spans_ /\ wait \in Nat /\ m \in Nat /\ Ordered(exported, sending, q, m)
    BY <1>1, <1>3, <1>4
  <2> HIDE DEF f
  <2>3. WellCut(exported, sending, q, wait, m)
    BY <2>1, <2>2, CutKept
  <2> QED BY <2>3 DEF WellCut, f
<1>6. \/ /\ Len(queue) + n > MAX_QUEUED_SPANS
         /\ droppedSpans' = droppedSpans + n /\ queue' = queue /\ sending' = sending
      \/ /\ ~(Len(queue) + n > MAX_QUEUED_SPANS) /\ droppedSpans' = droppedSpans
         /\ queue' = f.queue /\ sending' = f.sending
      \/ /\ ~(Len(queue) + n > MAX_QUEUED_SPANS) /\ droppedSpans' = droppedSpans
         /\ queue' = q /\ sending' = sending
  BY DEF HandsOver, enqueue, q
<1> HIDE DEF f
<1>7. /\ wait' \in 0..RETRY_AFTER_MAX_MS /\ retryDelayMs' \in 0..RETRY_MAX_MS
      /\ drain' \in {"no", "draining", "awaiting", "settled"} \cup Ended
      /\ lost' \in Nat /\ toldDropped' \in Nat
  BY <1>0, <1>1, OtlpExportAssumption DEF OtlpInv, OtlpTypeOK
<1>8. handed' \in 0..MaxSpans /\ handed' = m
  BY <1>0, <1>1, OtlpExportAssumption DEF m
<1>9. exported' \in Spans_ /\ Len(exported') = Len(exported)
  BY <1>0, OtlpShape
<1>10. CASE Len(queue) + n > MAX_QUEUED_SPANS /\ droppedSpans' = droppedSpans + n
            /\ queue' = queue /\ sending' = sending
  <2>1. Ordered(exported, sending, queue, m)
    <3>1. \A i, j \in Nat : i <= handed => i <= m
      BY <1>1 DEF m
    <3>2. ASSUME NEW u \in Spans_, UpTo(u, handed) PROVE UpTo(u, m)
      <4>1. \A i \in 1..Len(u) : u[i] \in Nat
        BY SpansAreNumbers, OtlpExportAssumption
      <4> QED BY <1>1, <3>2, <4>1 DEF UpTo, m
    <3> QED BY <1>2, <3>2, OtlpShape DEF Ordered
  <2>2. Ordered(exported', sending', queue', handed')
    BY <1>0, <1>8, <1>10, <2>1
  <2>3. droppedSpans' \in Nat
    BY <1>1, <1>10
  <2>4. handed' = Len(queue') + Len(sending') + Len(exported') + lost' + droppedSpans' + toldDropped'
    BY <1>0, <1>1, <1>7, <1>9, <1>10, OtlpShape
  <2> QED BY <1>7, <1>8, <1>9, <1>10, <2>2, <2>3, <2>4, OtlpShape, OtlpInvNext
<1>11. ASSUME ~(Len(queue) + n > MAX_QUEUED_SPANS), droppedSpans' = droppedSpans,
              \/ queue' = f.queue /\ sending' = f.sending
              \/ queue' = q /\ sending' = sending
       PROVE  OtlpInv'
  <2>1. queue' \in Spans_ /\ sending' \in Spans_ /\ Ordered(exported', sending', queue', handed')
    BY <1>0, <1>3, <1>5, <1>8, <1>11, OtlpShape
  <2>2. Len(queue') \in Nat /\ Len(sending') \in Nat /\ Len(q) \in Nat
    BY <1>3, <2>1, SpansAreNumbers
  <2>3. /\ Len(sending') + Len(queue') = Len(sending) + Len(q) /\ Len(queue') <= Len(q)
        /\ Len(sending') <= MAX_BATCH_SPANS
    <3>1. CASE queue' = f.queue /\ sending' = f.sending
      BY <1>5, <3>1
    <3>2. CASE queue' = q /\ sending' = sending
      BY <2>2, <3>2, OtlpShape
    <3> QED BY <1>11, <3>1, <3>2
  <2>4. Len(queue') <= MAX_QUEUED_SPANS
    BY <1>1, <1>3, <1>11, <2>2, <2>3, OtlpShape, OtlpExportAssumption
  <2>5. handed' = Len(queue') + Len(sending') + Len(exported') + lost' + droppedSpans' + toldDropped'
    BY <1>0, <1>1, <1>3, <1>7, <1>9, <1>11, <2>2, <2>3, OtlpShape, SMTT(60)
  <2>6. droppedSpans' \in Nat
    BY <1>1, <1>11
  <2> QED BY <1>7, <1>8, <1>9, <2>1, <2>3, <2>4, <2>5, <2>6, OtlpInvNext
<1> QED BY <1>6, <1>10, <1>11

-----------------------------------------------------------------------------
\* An export that ends: taken, refused for good, closed by the shutdown, or put back.
LEMMA RepliesKeep ==
    ASSUME OtlpInv, replies
    PROVE  OtlpInv' /\ (drain' = "drained" => drain = "drained")
<1>1. /\ Len(queue) \in Nat /\ Len(sending) \in Nat /\ Len(exported) \in Nat /\ handed \in Nat
      /\ lost \in Nat /\ droppedSpans \in Nat /\ toldDropped \in Nat
      /\ handed = Len(queue) + Len(sending) + Len(exported) + lost + droppedSpans + toldDropped
      /\ handed \in 0..MaxSpans
  BY OtlpShape DEF OtlpInv
<1>2. /\ queue \in Spans_ /\ sending \in Spans_ /\ exported \in Spans_
      /\ Len(queue) <= MAX_QUEUED_SPANS
      /\ Ordered(exported, sending, queue, handed)
  BY OtlpShape DEF OtlpInv
<1>3. retryDelayMs \in 0..RETRY_MAX_MS /\ wait \in 0..RETRY_AFTER_MAX_MS /\ 0 \in 0..RETRY_AFTER_MAX_MS
  BY OtlpExportAssumption DEF OtlpInv, OtlpTypeOK
<1>4. Ordered(exported, <<>>, queue, handed)
  BY <1>1, <1>2, OrderKept
<1>5. CASE recovered
  <2> DEFINE e == exported \o sending
  <2>1. e \in Spans_ /\ Len(e) = Len(exported) + Len(sending)
    BY <1>2, JoinedSpans
  <2>2. Ordered(e, <<>>, queue, handed)
    BY <1>1, <1>2, OrderKept
  <2>3. /\ exported' = e /\ settle(queue, 0) /\ lost' = lost /\ retryDelayMs' = 0
        /\ droppedSpans' = 0 /\ toldDropped' = toldDropped + droppedSpans
    BY <1>5 DEF recovered
  <2> HIDE DEF e
  <2>4. /\ queue' \in Spans_ /\ sending' \in Spans_ /\ Ordered(e, sending', queue', handed')
        /\ Len(queue') <= MAX_QUEUED_SPANS /\ Len(sending') <= MAX_BATCH_SPANS
        /\ Len(queue') + Len(sending') = Len(queue) /\ wait' = 0 /\ handed' = handed
        /\ drain' \in {"no", "draining", "awaiting", "settled"} \cup Ended
        /\ drain' = "drained" => drain = "drained"
    BY <1>2, <1>3, <2>1, <2>2, <2>3, ExportSettled
  <2>5. exported' \in Spans_ /\ Ordered(exported', sending', queue', handed')
    BY <2>1, <2>3, <2>4
  <2>6. Len(queue') \in Nat /\ Len(sending') \in Nat /\ Len(exported') = Len(exported) + Len(sending)
    BY <2>1, <2>3, <2>4, SpansAreNumbers
  <2>7. handed' = Len(queue') + Len(sending') + Len(exported') + lost' + droppedSpans' + toldDropped'
    BY <1>1, <2>3, <2>4, <2>6
  <2>8. /\ lost' \in Nat /\ droppedSpans' \in Nat /\ toldDropped' \in Nat /\ handed' \in 0..MaxSpans
        /\ wait' \in 0..RETRY_AFTER_MAX_MS /\ retryDelayMs' \in 0..RETRY_MAX_MS
    BY <1>1, <1>3, <2>3, <2>4, OtlpExportAssumption
  <2> QED BY <2>4, <2>5, <2>7, <2>8, OtlpInvNext
<1>6. ASSUME settle(queue, wait), lost' = lost + Len(sending),
             UNCHANGED <<retryDelayMs, droppedSpans, exported, toldDropped>>
      PROVE  OtlpInv' /\ (drain' = "drained" => drain = "drained")
  <2>1. /\ queue' \in Spans_ /\ sending' \in Spans_ /\ Ordered(exported, sending', queue', handed')
        /\ Len(queue') <= MAX_QUEUED_SPANS /\ Len(sending') <= MAX_BATCH_SPANS
        /\ Len(queue') + Len(sending') = Len(queue) /\ wait' = wait /\ handed' = handed
        /\ drain' \in {"no", "draining", "awaiting", "settled"} \cup Ended
        /\ drain' = "drained" => drain = "drained"
    BY <1>2, <1>3, <1>4, <1>6, ExportSettled
  <2>2. exported' \in Spans_ /\ Ordered(exported', sending', queue', handed')
    BY <1>2, <1>6, <2>1
  <2>3. Len(queue') \in Nat /\ Len(sending') \in Nat /\ Len(exported') = Len(exported)
    BY <1>6, <2>1, SpansAreNumbers
  <2>4. handed' = Len(queue') + Len(sending') + Len(exported') + lost' + droppedSpans' + toldDropped'
    BY <1>1, <1>6, <2>1, <2>3
  <2>5. /\ lost' \in Nat /\ droppedSpans' \in Nat /\ toldDropped' \in Nat /\ handed' \in 0..MaxSpans
        /\ wait' \in 0..RETRY_AFTER_MAX_MS /\ retryDelayMs' \in 0..RETRY_MAX_MS
    BY <1>1, <1>3, <1>6, <2>1
  <2> QED BY <2>1, <2>2, <2>4, <2>5, OtlpInvNext
<1>7. ASSUME NEW after \in RetryAfters, retryLater(after)
      PROVE  OtlpInv' /\ (drain' = "drained" => drain = "drained")
  <2> DEFINE fits == Len(queue) + Len(sending) <= MAX_QUEUED_SPANS
             q == IF fits THEN sending \o queue ELSE queue
             w == retryWait(after)
  <2>1. /\ retryDelayMs' = nextDelay /\ settle(q, w)
        /\ droppedSpans' = IF fits THEN droppedSpans ELSE droppedSpans + Len(sending)
        /\ exported' = exported /\ lost' = lost /\ toldDropped' = toldDropped
    BY <1>7 DEF retryLater
  <2>2. nextDelay \in 0..RETRY_MAX_MS /\ w \in 0..RETRY_AFTER_MAX_MS
    <3>1. nextDelay \in 0..RETRY_MAX_MS
      BY <1>3, OtlpExportAssumption DEF nextDelay, Least
    <3>2. after \in Nat
      BY <1>7, OtlpExportAssumption
    <3> HIDE DEF w
    <3>3. w = IF after > 0 THEN Least(after, RETRY_AFTER_MAX_MS) ELSE nextDelay
      BY DEF w, retryWait
    <3> QED BY <3>1, <3>2, <3>3, OtlpExportAssumption DEF Least
  <2>3. /\ sending \o queue \in Spans_ /\ Len(sending \o queue) = Len(sending) + Len(queue)
        /\ Ordered(exported, <<>>, sending \o queue, handed)
    BY <1>1, <1>2, JoinedSpans, OrderKept
  <2>4. /\ q \in Spans_ /\ Ordered(exported, <<>>, q, handed)
    BY <1>2, <1>4, <2>3
  <2>5. /\ Len(q) = IF fits THEN Len(queue) + Len(sending) ELSE Len(queue)
        /\ Len(q) <= MAX_QUEUED_SPANS
    <3>1. CASE fits
      BY <1>1, <2>3, <3>1
    <3>2. CASE ~fits
      BY <1>2, <3>2
    <3> QED BY <3>1, <3>2
  <2> HIDE DEF q, w
  <2>6. /\ queue' \in Spans_ /\ sending' \in Spans_ /\ Ordered(exported, sending', queue', handed')
        /\ Len(queue') <= MAX_QUEUED_SPANS /\ Len(sending') <= MAX_BATCH_SPANS
        /\ Len(queue') + Len(sending') = Len(q) /\ wait' = w /\ handed' = handed
        /\ drain' \in {"no", "draining", "awaiting", "settled"} \cup Ended
        /\ drain' = "drained" => drain = "drained"
    BY <1>2, <2>1, <2>2, <2>4, <2>5, ExportSettled
  <2>7. exported' \in Spans_ /\ Ordered(exported', sending', queue', handed')
    BY <1>2, <2>1, <2>6
  <2>8. Len(queue') \in Nat /\ Len(sending') \in Nat /\ Len(exported') = Len(exported)
    BY <2>1, <2>6, SpansAreNumbers
  <2>9. handed' = Len(queue') + Len(sending') + Len(exported') + lost' + droppedSpans' + toldDropped'
    <3>1. /\ lost' = lost /\ toldDropped' = toldDropped /\ handed' = handed
          /\ Len(exported') = Len(exported) /\ Len(queue') \in Nat /\ Len(sending') \in Nat
      BY <2>1, <2>6, <2>8
    <3>2. CASE fits
      <4>1. /\ Len(queue') + Len(sending') = Len(queue) + Len(sending)
            /\ droppedSpans' = droppedSpans
        BY <2>1, <2>5, <2>6, <3>2
      <4> HIDE DEF fits
      <4> QED BY <1>1, <3>1, <4>1
    <3>3. CASE ~fits
      <4>1. /\ Len(queue') + Len(sending') = Len(queue)
            /\ droppedSpans' = droppedSpans + Len(sending)
        BY <2>1, <2>5, <2>6, <3>3
      <4> HIDE DEF fits
      <4> QED BY <1>1, <3>1, <4>1
    <3> QED BY <3>2, <3>3
  <2>10. /\ lost' \in Nat /\ droppedSpans' \in Nat /\ toldDropped' \in Nat /\ handed' \in 0..MaxSpans
         /\ wait' \in 0..RETRY_AFTER_MAX_MS /\ retryDelayMs' \in 0..RETRY_MAX_MS
    BY <1>1, <2>1, <2>2, <2>6
  <2> QED BY <2>6, <2>7, <2>9, <2>10, OtlpInvNext
<1>8. CASE sendRefused
  BY <1>6, <1>8 DEF sendRefused
<1>9. CASE sendClosed
  BY <1>6, <1>9 DEF sendClosed
<1> QED BY <1>5, <1>7, <1>8, <1>9 DEF replies

\* A turn of the drain's loop: only one that finds nothing left ends it.
LEMMA DrainKeeps ==
    ASSUME OtlpInv, drainTurn
    PROVE  /\ OtlpInv'
           /\ drain' = "drained" => queue = <<>> /\ sending = <<>> /\ pendingTrees = 0
<1>1. wait \in Nat /\ UNCHANGED <<retryDelayMs, lastSendFailed, droppedSpans, pendingTrees, history>>
  BY DEF OtlpInv, drainTurn
<1>2. CASE sending # <<>> /\ drain' = "awaiting" /\ UNCHANGED <<queue, sending, wait>>
  BY <1>1, <1>2, BooksLeft DEF history
<1>3. CASE /\ sending = <<>> /\ pendingTrees = 0 /\ queue = <<>>
           /\ drain' = "drained" /\ UNCHANGED <<queue, sending, wait>>
  BY <1>1, <1>3, BooksLeft DEF history, Ended
<1>4. CASE /\ sending = <<>> /\ pendingTrees = 0 /\ queue # <<>>
           /\ wait' = 0 /\ drain' = "awaiting"
           /\ queue' = flushed(queue, <<>>, 0).queue /\ sending' = flushed(queue, <<>>, 0).sending
  <2>1. queue' = flushed(queue, sending, 0).queue /\ sending' = flushed(queue, sending, 0).sending
    BY <1>4
  <2>2. OnlyCuts(0)
    BY <1>1, <1>4, <2>1 DEF OnlyCuts, history
  <2> QED BY <1>4, <2>2, BooksCut
<1> QED BY <1>2, <1>3, <1>4 DEF drainTurn

LEMMA OtlpInvKept ==
    ASSUME OtlpInv, [OtlpNext]_otlpVars
    PROVE  /\ OtlpInv'
           /\ drain' = "drained" /\ drain # "drained" =>
                queue = <<>> /\ sending = <<>> /\ pendingTrees = 0
<1>1. /\ drain \in {"no", "draining", "awaiting", "settled"} \cup Ended
      /\ wait \in Nat
  BY DEF OtlpInv, OtlpTypeOK
<1>2. CASE flushTimer
  <2>1. OnlyCuts(wait) /\ drain' = drain
    BY <1>1, <1>2 DEF flushTimer, OnlyCuts, retryState, history
  <2> QED BY <1>1, <2>1, BooksCut
<1>3. CASE endsWithOpenSpans \/ shutDown \/ drainResumes \/ drainDeadline
  <2>1. /\ UNCHANGED <<queue, sending, exported, handed, lost, droppedSpans, toldDropped>>
        /\ retryDelayMs' = retryDelayMs /\ wait' = wait
    BY <1>3 DEF endsWithOpenSpans, shutDown, drainResumes, drainDeadline, retryState, history
  <2>2. drain' \in {drain, "draining", "failed", "expired"}
    BY <1>3 DEF endsWithOpenSpans, shutDown, drainResumes, drainDeadline
  <2> QED BY <1>1, <2>1, <2>2, BooksLeft DEF Ended
<1>4. CASE waitPasses
  <2>1. /\ UNCHANGED <<queue, sending, exported, handed, lost, droppedSpans, toldDropped>>
        /\ retryDelayMs' = retryDelayMs /\ wait' \in 0..wait /\ drain' = drain
    BY <1>1, <1>4 DEF waitPasses, history
  <2> QED BY <1>1, <2>1, BooksLeft
<1>5. ASSUME NEW n \in TreeSizes, NEW leftOut \in BOOLEAN, exportSnapshot(n, leftOut)
      PROVE  OtlpInv' /\ drain' = drain
  <2>1. UNCHANGED <<wait, retryDelayMs, lastSendFailed, drain, exported, lost, toldDropped>>
    BY <1>5 DEF exportSnapshot
  <2>2. CASE leftOut
    <3>1. UNCHANGED <<queue, sending, droppedSpans, handed>>
      BY <1>5, <2>2 DEF exportSnapshot
    <3> QED BY <1>1, <2>1, <3>1, BooksLeft
  <2>3. CASE ~leftOut
    <3>1. HandsOver(n)
      BY <1>5, <2>1, <2>3 DEF exportSnapshot, HandsOver
    <3> QED BY <1>5, <2>1, <3>1, BooksGrow
  <2> QED BY <2>2, <2>3
<1>6. CASE replies
  BY <1>6, RepliesKeep
<1>7. CASE drainTurn
  BY <1>7, DrainKeeps
<1>8. CASE UNCHANGED otlpVars
  BY <1>1, <1>8, BooksLeft DEF otlpVars
<1> QED BY <1>2, <1>3, <1>4, <1>5, <1>6, <1>7, <1>8 DEF OtlpNext

\* The invariant says the order of everything that was ever handed over.
LEMMA InOrder == OtlpInv => OtlpTypeOK /\ OtlpSpansAccounted /\ ExportedInOrder
<1> SUFFICES ASSUME OtlpInv PROVE OtlpTypeOK /\ OtlpSpansAccounted /\ ExportedInOrder
  OBVIOUS
<1>1. Rising((exported \o sending) \o queue)
  BY OtlpShape, OrderKept DEF OtlpInv
<1> QED BY <1>1 DEF OtlpInv, ExportedInOrder, Rising

\* Whatever the sizes of queue and batch, however replies, retries and the shutdown
\* interleave: no span is lost unseen, sent twice or out of order, and a drain that
\* says it is done has exported everything (enqueue, send, retryLater, drain).
THEOREM ExportBooksHold == OtlpSpec => ExportKeepsItsBooks
<1>1. OtlpInit => OtlpInv
  BY OtlpInvStarts
<1>2. OtlpInv /\ [OtlpNext]_otlpVars => OtlpInv'
  BY OtlpInvKept
<1>3. OtlpInv /\ OtlpInv' /\ [OtlpNext]_otlpVars =>
        [/\ OtlpTypeOK' /\ OtlpSpansAccounted' /\ ExportedInOrder'
         /\ drain' = "drained" /\ drain # "drained" =>
              queue = <<>> /\ sending = <<>> /\ pendingTrees = 0]_otlpVars
  <2>1. OtlpInv' => OtlpTypeOK' /\ OtlpSpansAccounted' /\ ExportedInOrder'
    BY InOrder, PTL
  <2> QED BY <2>1, OtlpInvKept
<1> QED BY <1>1, <1>2, <1>3, PTL DEF OtlpSpec, ExportKeepsItsBooks

-----------------------------------------------------------------------------
(***************************************************************************)
(* RuntimeMetrics                                                          *)
(***************************************************************************)

Readings == [delays : Nat, cpu : Nat, gc : Nat]
BreakdownOf(b, n) ==
  \/ b = <<>>
  \/ b \in [Buckets -> Nat] /\ b["minor"] + b["major"] + b["incremental"] <= n
SoundWindow(w) ==
  /\ w.delays \in Nat /\ w.cpu \in Nat /\ w.gc \in Nat /\ w.elapsed \in Nat /\ w.elapsed > 0
  /\ BreakdownOf(w.breakdown, w.gc)

\* What the window of the batch holds: nothing, or the one there is.
Holds(h) == \/ runtime = {} /\ h = Zero
            \/ runtime = {h} /\ SoundWindow(h)
TiledBy(h) ==
  /\ sent.delays + replaced.delays + h.delays = last.delays
  /\ sent.cpu + replaced.cpu + h.cpu = last.cpu
  /\ sent.gc + replaced.gc + h.gc + gc = process.gc

RuntimeShape ==
  /\ process \in Readings /\ last \in Readings /\ sent \in Readings /\ replaced \in Readings
  /\ gc \in Nat /\ BreakdownOf(gcBreakdown, gc)
  /\ last.delays <= process.delays /\ last.cpu <= process.cpu
  /\ now \in Nat /\ lastCpuUsageTimestamp \in Nat /\ lastRuntimeSampleAt \in Nat
  /\ closing \in {"no", "batch", "last", "done"}

\* The window that is due is longer than nothing.
WindowDue ==
  /\ closing = "no" => lastCpuUsageTimestamp = lastRuntimeSampleAt
  /\ closing \in {"batch", "last"} => lastCpuUsageTimestamp < now

RuntimeInv == RuntimeShape /\ WindowDue /\ \E h : Holds(h) /\ TiledBy(h)

LEMMA PlusFields ==
    ASSUME NEW a \in Readings, NEW b, b.delays \in Nat, b.cpu \in Nat, b.gc \in Nat
    PROVE  /\ plus(a, b) \in Readings /\ plus(a, b).delays = a.delays + b.delays
           /\ plus(a, b).cpu = a.cpu + b.cpu /\ plus(a, b).gc = a.gc + b.gc
BY DEF plus, Readings

LEMMA PlusZero ==
    ASSUME NEW a \in Readings
    PROVE  plus(a, Zero) = a
BY DEF plus, Readings, Zero

LEMMA HeldWindow ==
    ASSUME NEW h, Holds(h)
    PROVE  /\ Overwrites(runtime) = h /\ h.delays \in Nat /\ h.cpu \in Nat /\ h.gc \in Nat
           /\ \A w \in runtime : w = h /\ SoundWindow(w)
<1>1. CASE runtime = {} /\ h = Zero
  BY <1>1 DEF Overwrites, Zero
<1>2. CASE runtime = {h} /\ SoundWindow(h)
  BY <1>2 DEF Overwrites, SoundWindow
<1> QED BY <1>1, <1>2 DEF Holds

LEMMA RuntimeInvStarts == RuntimeInit => RuntimeInv
<1> SUFFICES ASSUME RuntimeInit PROVE RuntimeInv
  OBVIOUS
<1>1. RuntimeShape /\ WindowDue
  BY DEF RuntimeInit, RuntimeShape, WindowDue, Readings, Zero, BreakdownOf
<1>2. Holds(Zero) /\ TiledBy(Zero)
  BY DEF RuntimeInit, Holds, TiledBy, Zero
<1> QED BY <1>1, <1>2 DEF RuntimeInv

\* A sample: what was held is replaced, the window that is due takes its place.
LEMMA SampleKept ==
    ASSUME RuntimeInv, addNodeRuntimeMetrics, now - lastCpuUsageTimestamp > 0,
           process' = process /\ now' = now /\ sent' = sent,
           lastRuntimeSampleAt' \in Nat,
           closing' = "done" \/ (closing' = "no" /\ lastRuntimeSampleAt' = now)
    PROVE  RuntimeInv'
<1>1. PICK h : Holds(h) /\ TiledBy(h)
  BY DEF RuntimeInv
<1>2. PICK w : /\ w = window /\ w.delays = process.delays - last.delays
               /\ w.cpu = process.cpu - last.cpu /\ w.gc = gc
               /\ w.elapsed = now - lastCpuUsageTimestamp /\ w.breakdown = gcBreakdown
  <2>1. /\ window.delays = process.delays - last.delays
        /\ window.cpu = process.cpu - last.cpu /\ window.gc = gc
        /\ window.elapsed = now - lastCpuUsageTimestamp /\ window.breakdown = gcBreakdown
    BY DEF window
  <2> QED BY <2>1
<1>3. /\ runtime' = {w} /\ replaced' = plus(replaced, h) /\ last' = process /\ gc' = 0
      /\ gcBreakdown' = <<>> /\ lastCpuUsageTimestamp' = now
  BY <1>1, <1>2, HeldWindow DEF addNodeRuntimeMetrics, advance
<1>4. RuntimeShape /\ h.delays \in Nat /\ h.cpu \in Nat /\ h.gc \in Nat
  BY <1>1, HeldWindow DEF RuntimeInv
<1>5. /\ replaced' \in Readings /\ replaced'.delays = replaced.delays + h.delays
      /\ replaced'.cpu = replaced.cpu + h.cpu /\ replaced'.gc = replaced.gc + h.gc
  BY <1>3, <1>4, PlusFields DEF RuntimeShape
<1>6. SoundWindow(w)
  BY <1>2, <1>4 DEF RuntimeShape, Readings, SoundWindow
<1>7. Holds(w)'
  BY <1>3, <1>6 DEF Holds, SoundWindow, BreakdownOf
<1>8. TiledBy(w)'
  <2>1. /\ sent.delays \in Nat /\ sent.cpu \in Nat /\ sent.gc \in Nat
        /\ replaced.delays \in Nat /\ replaced.cpu \in Nat /\ replaced.gc \in Nat
        /\ process.delays \in Nat /\ process.cpu \in Nat /\ process.gc \in Nat
        /\ last.delays \in Nat /\ last.cpu \in Nat /\ gc \in Nat
    BY <1>4 DEF RuntimeShape, Readings
  <2>2. sent.delays + (replaced.delays + h.delays) + w.delays = process.delays
    BY <1>1, <1>2, <1>4, <2>1 DEF TiledBy
  <2>3. sent.cpu + (replaced.cpu + h.cpu) + w.cpu = process.cpu
    BY <1>1, <1>2, <1>4, <2>1 DEF TiledBy
  <2>4. sent.gc + (replaced.gc + h.gc) + w.gc + 0 = process.gc
    BY <1>1, <1>2, <1>4, <2>1 DEF TiledBy
  <2> QED BY <1>3, <1>5, <2>2, <2>3, <2>4 DEF TiledBy
<1>9. RuntimeShape' /\ WindowDue'
  <2>1. BreakdownOf(gcBreakdown', gc') /\ gc' \in Nat
    BY <1>3 DEF BreakdownOf
  <2>2. process.delays <= process.delays /\ process.cpu <= process.cpu /\ process \in Readings
    BY <1>4 DEF RuntimeShape, Readings
  <2>3. RuntimeShape'
    BY <1>3, <1>4, <1>5, <2>1, <2>2 DEF RuntimeShape
  <2>4. WindowDue'
    BY <1>3 DEF WindowDue
  <2> QED BY <2>3, <2>4
<1> QED BY <1>7, <1>8, <1>9 DEF RuntimeInv

LEMMA RuntimeInvKept ==
    RuntimeInv /\ [RuntimeNext]_runtimeVars
      => RuntimeInv' /\ (closing = "no" /\ closing' # "no" => replaced' = replaced)
<1> SUFFICES ASSUME RuntimeInv, [RuntimeNext]_runtimeVars
             PROVE  RuntimeInv' /\ (closing = "no" /\ closing' # "no" => replaced' = replaced)
  OBVIOUS
<1>1. RuntimeShape /\ WindowDue
  BY DEF RuntimeInv
<1>2. PICK h : Holds(h) /\ TiledBy(h)
  BY DEF RuntimeInv
<1>3. ASSUME NEW reading \in {"delays", "cpu"}, processRuns(reading)
      PROVE  RuntimeInv' /\ closing' = closing
  <2>1. /\ process' = [process EXCEPT ![reading] = @ + 1]
        /\ UNCHANGED <<last, gc, gcBreakdown, now, lastCpuUsageTimestamp, lastRuntimeSampleAt,
                       runtime, closing, sent, replaced>>
    BY <1>3 DEF processRuns
  <2>2. /\ process' \in Readings /\ process'.gc = process.gc
        /\ process'.delays >= process.delays /\ process'.cpu >= process.cpu
    BY <1>1, <2>1 DEF RuntimeShape, Readings
  <2>3. RuntimeShape' /\ WindowDue'
    BY <1>1, <2>1, <2>2 DEF RuntimeShape, WindowDue, Readings
  <2>4. Holds(h)' /\ TiledBy(h)'
    BY <1>2, <2>1, <2>2 DEF Holds, TiledBy
  <2> QED BY <2>1, <2>3, <2>4 DEF RuntimeInv
<1>4. ASSUME NEW k \in Buckets \cup {"weakcb", "minor-ms"}, recordGarbageCollection(k)
      PROVE  RuntimeInv' /\ closing' = closing
  <2>1. /\ process' = [process EXCEPT !.gc = @ + 1] /\ gc' = gc + 1
        /\ UNCHANGED <<last, now, lastCpuUsageTimestamp, lastRuntimeSampleAt,
                       runtime, closing, sent, replaced>>
    BY <1>4 DEF recordGarbageCollection
  <2>2. /\ process' \in Readings /\ process'.gc = process.gc + 1
        /\ process'.delays = process.delays /\ process'.cpu = process.cpu
    BY <1>1, <2>1 DEF RuntimeShape, Readings
  <2>3. BreakdownOf(gcBreakdown', gc')
    <3>1. CASE gcBucketOf(k) = {}
      BY <1>1, <1>4, <2>1, <3>1 DEF recordGarbageCollection, BreakdownOf, RuntimeShape, Buckets
    <3>2. ASSUME NEW x \in Buckets, gcBucketOf(k) = {x} PROVE BreakdownOf(gcBreakdown', gc')
      <4> DEFINE f == IF gcBreakdown = <<>> THEN [i \in Buckets |-> 0] ELSE gcBreakdown
      <4>1. gcBreakdown' = [j \in Buckets |-> f[j] + IF j \in {x} THEN 1 ELSE 0]
        <5>1. {x} # {} /\ gcBreakdown' = IF gcBucketOf(k) = {} THEN gcBreakdown
                   ELSE [j \in Buckets |-> f[j] + IF j \in gcBucketOf(k) THEN 1 ELSE 0]
          BY <1>4, Zenon DEF recordGarbageCollection
        <5> HIDE DEF f
        <5> QED BY <3>2, <5>1
      <4>2. f \in [Buckets -> Nat] /\ f["minor"] + f["major"] + f["incremental"] <= gc
        BY <1>1 DEF RuntimeShape, BreakdownOf, Buckets
      <4> HIDE DEF f
      <4>3. gcBreakdown' \in [Buckets -> Nat]
        BY <4>1, <4>2
      <4>4. gcBreakdown'["minor"] + gcBreakdown'["major"] + gcBreakdown'["incremental"] <= gc'
        BY <1>1, <2>1, <4>1, <4>2 DEF Buckets, RuntimeShape
      <4> QED BY <4>3, <4>4 DEF BreakdownOf
    <3>3. gcBucketOf(k) = {} \/ \E x \in Buckets : gcBucketOf(k) = {x}
      BY DEF gcBucketOf, Buckets
    <3> QED BY <3>1, <3>2, <3>3
  <2>4. RuntimeShape' /\ WindowDue'
    BY <1>1, <2>1, <2>2, <2>3 DEF RuntimeShape, WindowDue
  <2>5. Holds(h)' /\ TiledBy(h)'
    <3>1. h.delays \in Nat /\ h.cpu \in Nat /\ h.gc \in Nat
      BY <1>2, HeldWindow
    <3> QED BY <1>1, <1>2, <2>1, <2>2, <3>1 DEF Holds, TiledBy, RuntimeShape, Readings
  <2> QED BY <2>1, <2>4, <2>5 DEF RuntimeInv
<1>5. ASSUME timePasses PROVE RuntimeInv' /\ closing' = closing
  <2>1. RuntimeShape' /\ WindowDue'
    BY <1>1, <1>5 DEF timePasses, RuntimeShape, WindowDue
  <2>2. Holds(h)' /\ TiledBy(h)'
    BY <1>2, <1>5 DEF timePasses, Holds, TiledBy
  <2> QED BY <1>5, <2>1, <2>2 DEF RuntimeInv, timePasses
<1>6. ASSUME sampleScheduled PROVE RuntimeInv' /\ closing' = closing
  <2>1. /\ closing = "no" /\ closing' = "no" /\ addNodeRuntimeMetrics
        /\ lastRuntimeSampleAt' = now /\ now - lastRuntimeSampleAt = INTERVAL
        /\ process' = process /\ now' = now /\ sent' = sent
    BY <1>6 DEF sampleScheduled
  <2>2. now - lastCpuUsageTimestamp > 0 /\ lastRuntimeSampleAt' \in Nat
    BY <1>1, <2>1, RuntimeAssumption DEF RuntimeShape, WindowDue
  <2> QED BY <2>1, <2>2, SampleKept
<1>7. ASSUME batchWritten PROVE RuntimeInv' /\ (closing = "no" => closing' = "no")
  <2>1. /\ runtime # {} /\ sent' = plus(sent, h) /\ runtime' = {}
        /\ closing' = IF closing = "batch" THEN "last" ELSE closing
        /\ UNCHANGED <<process, last, gc, gcBreakdown, now, lastCpuUsageTimestamp,
                       lastRuntimeSampleAt, replaced>>
        /\ h.delays \in Nat /\ h.cpu \in Nat /\ h.gc \in Nat
    BY <1>2, <1>7, HeldWindow DEF batchWritten
  <2>2. /\ sent' \in Readings /\ sent'.delays = sent.delays + h.delays
        /\ sent'.cpu = sent.cpu + h.cpu /\ sent'.gc = sent.gc + h.gc
    BY <1>1, <2>1, PlusFields DEF RuntimeShape
  <2>3. RuntimeShape' /\ WindowDue'
    BY <1>1, <2>1, <2>2 DEF RuntimeShape, WindowDue
  <2>4. Holds(Zero)' /\ TiledBy(Zero)'
    BY <1>1, <1>2, <2>1, <2>2 DEF Holds, TiledBy, RuntimeShape, Readings, Zero
  <2> QED BY <2>1, <2>3, <2>4 DEF RuntimeInv
<1>8. ASSUME takeFinalRuntimeSample PROVE RuntimeInv' /\ replaced' = replaced
  <2>1. closing = "no" /\ UNCHANGED <<process, now, lastRuntimeSampleAt, sent>>
    BY <1>8 DEF takeFinalRuntimeSample
  <2>2. CASE now - lastRuntimeSampleAt < MIN_FINAL_RUNTIME_WINDOW_MS \/ runtime # {}
    <3>1. /\ closing' \in {"done", "batch"}
          /\ closing' = "batch" => ~(now - lastRuntimeSampleAt < MIN_FINAL_RUNTIME_WINDOW_MS)
          /\ UNCHANGED <<runtime, replaced, last, gc, gcBreakdown, lastCpuUsageTimestamp>>
      BY <1>8, <2>2 DEF takeFinalRuntimeSample
    <3>2. WindowDue'
      BY <1>1, <2>1, <3>1, RuntimeAssumption DEF RuntimeShape, WindowDue
    <3>3. RuntimeShape'
      BY <1>1, <2>1, <3>1 DEF RuntimeShape
    <3>4. Holds(h)' /\ TiledBy(h)'
      BY <1>2, <2>1, <3>1 DEF Holds, TiledBy
    <3> QED BY <3>1, <3>2, <3>3, <3>4 DEF RuntimeInv
  <2>3. CASE ~(now - lastRuntimeSampleAt < MIN_FINAL_RUNTIME_WINDOW_MS \/ runtime # {})
    <3>1. closing' = "done" /\ addNodeRuntimeMetrics /\ runtime = {}
      BY <1>8, <2>3 DEF takeFinalRuntimeSample
    <3>2. now - lastCpuUsageTimestamp > 0 /\ lastRuntimeSampleAt' \in Nat
      BY <1>1, <2>1, <2>3, RuntimeAssumption DEF RuntimeShape, WindowDue
    <3>3. replaced' = replaced
      BY <1>1, <3>1, PlusZero DEF addNodeRuntimeMetrics, Overwrites, RuntimeShape
    <3> QED BY <2>1, <3>1, <3>2, <3>3, SampleKept
  <2> QED BY <2>2, <2>3
<1>9. ASSUME addFinalRuntimeMetrics PROVE RuntimeInv' /\ closing # "no"
  <2>1. closing = "last" /\ closing' = "done" /\ addNodeRuntimeMetrics
        /\ UNCHANGED <<process, now, lastRuntimeSampleAt, sent>>
    BY <1>9 DEF addFinalRuntimeMetrics
  <2>2. now - lastCpuUsageTimestamp > 0 /\ lastRuntimeSampleAt' \in Nat
    BY <1>1, <2>1 DEF RuntimeShape, WindowDue
  <2> QED BY <2>1, <2>2, SampleKept
<1>10. ASSUME UNCHANGED runtimeVars PROVE RuntimeInv' /\ closing' = closing
  <2>1. RuntimeShape' /\ WindowDue'
    BY <1>1, <1>10 DEF RuntimeShape, WindowDue, runtimeVars
  <2>2. Holds(h)' /\ TiledBy(h)'
    BY <1>2, <1>10 DEF Holds, TiledBy, runtimeVars
  <2> QED BY <1>10, <2>1, <2>2 DEF RuntimeInv, runtimeVars
<1> QED BY <1>3, <1>4, <1>5, <1>6, <1>7, <1>8, <1>9, <1>10 DEF RuntimeNext

LEMMA WindowsTold == RuntimeInv => RuntimeTypeOK /\ WindowsTile /\ EverySampleHasAWindow /\ BreakdownComplete
<1> SUFFICES ASSUME RuntimeInv PROVE RuntimeTypeOK /\ WindowsTile /\ EverySampleHasAWindow /\ BreakdownComplete
  OBVIOUS
<1>1. RuntimeShape
  BY DEF RuntimeInv
<1>2. PICK h : Holds(h) /\ TiledBy(h)
  BY DEF RuntimeInv
<1>3. /\ Overwrites(runtime) = h /\ h.delays \in Nat /\ h.cpu \in Nat /\ h.gc \in Nat
      /\ \A w \in runtime : SoundWindow(w)
  BY <1>2, HeldWindow
<1>4. RuntimeTypeOK
  <2>1. Cardinality(runtime) <= 1
    BY <1>2, FS_EmptySet, FS_Singleton DEF Holds
  <2> QED BY <1>1, <1>3, <2>1 DEF RuntimeTypeOK, RuntimeShape, SoundWindow
<1>5. WindowsTile
  <2>1. PICK a \in Readings : /\ a = plus(sent, replaced) /\ a.delays = sent.delays + replaced.delays
                              /\ a.cpu = sent.cpu + replaced.cpu /\ a.gc = sent.gc + replaced.gc
    BY <1>1, PlusFields DEF RuntimeShape, Readings
  <2>2. PICK b \in Readings : /\ b = plus(a, h) /\ b.delays = a.delays + h.delays
                              /\ b.cpu = a.cpu + h.cpu /\ b.gc = a.gc + h.gc
    BY <1>3, PlusFields
  <2>3. /\ b.delays = last.delays /\ b.cpu = last.cpu /\ b.gc + gc = process.gc
    BY <1>1, <1>2, <1>3, <2>1, <2>2 DEF TiledBy, RuntimeShape, Readings
  <2>4. plus(plus(sent, replaced), Overwrites(runtime)) = b
    BY <1>3, <2>1, <2>2
  <2> QED BY <1>1, <2>3, <2>4 DEF WindowsTile, RuntimeShape, Readings
<1>6. EverySampleHasAWindow
  BY <1>3 DEF EverySampleHasAWindow, SoundWindow
<1>7. BreakdownComplete
  <2> SUFFICES ASSUME NEW w \in runtime, w.breakdown # <<>>
               PROVE  /\ DOMAIN w.breakdown = Buckets
                      /\ w.breakdown["minor"] + w.breakdown["major"] + w.breakdown["incremental"] <= w.gc
    BY DEF BreakdownComplete
  <2> QED BY <1>3 DEF SoundWindow, BreakdownOf
<1> QED BY <1>4, <1>5, <1>6, <1>7

\* Whatever the interval and whenever samples, batches and the shutdown come: every
\* reading is in one window, none is empty, and the last sample replaces nothing
\* (collectNodeRuntimeMetrics, takeFinalRuntimeSample).
THEOREM WindowsHold == RuntimeSpec => RuntimeWindowsHold
<1>1. RuntimeInit => RuntimeInv
  BY RuntimeInvStarts
<1>2. RuntimeInv /\ [RuntimeNext]_runtimeVars => RuntimeInv'
  BY RuntimeInvKept
<1>3. RuntimeInv /\ RuntimeInv' /\ [RuntimeNext]_runtimeVars =>
        [/\ RuntimeTypeOK' /\ WindowsTile' /\ EverySampleHasAWindow' /\ BreakdownComplete'
         /\ closing = "no" /\ closing' # "no" => replaced' = replaced]_runtimeVars
  <2>1. RuntimeInv' => RuntimeTypeOK' /\ WindowsTile' /\ EverySampleHasAWindow' /\ BreakdownComplete'
    BY WindowsTold, PTL
  <2> QED BY <2>1, RuntimeInvKept
<1> QED BY <1>1, <1>2, <1>3, PTL DEF RuntimeSpec, RuntimeWindowsHold

-----------------------------------------------------------------------------
(***************************************************************************)
(* CliLink                                                                 *)
(***************************************************************************)

LinkSteps == {"idle", "polling", "env", "ignore", "scripts", "install", "wire", "wireModule",
              "wireMain", "notes"}
Wiring == {"wire", "wireModule", "wireMain", "notes"}

LinkShape ==
  /\ project \in [env: {"none", "pair"}, ignored: BOOLEAN, scripts: {"nest", "other"},
                  loadsEnv: BOOLEAN, sdk: {"none", "old", "current"},
                  nest: {"none", "10", "11"}, source: Sources, moduleWired: BOOLEAN,
                  mainWired: BOOLEAN, notes: BOOLEAN]
  /\ setup \in [install: BOOLEAN, wire: BOOLEAN] /\ exitCode \in {-1, 0, 1}
  /\ step \in LinkSteps

\* The interval is the one asked for, and grew no more often than was polled.
PollsInStep ==
  /\ clock \in Nat /\ interval \in Nat /\ asked = interval
  /\ step = "polling" => interval >= 1
  /\ \E k \in 0..ExpiresIn : k <= clock /\ interval <= FirstInterval + SLOW_DOWN_SECONDS * k

\* What a run has done of its work when it is at a step.
DoneSoFar ==
  /\ step \notin {"idle", "polling"} => approvedEver
  /\ step \in {"ignore", "scripts", "install"} \cup Wiring => project.env = "pair"
  /\ step \in {"scripts", "install"} \cup Wiring => project.ignored
  /\ step \in {"install"} \cup Wiring => (project.scripts = "nest" => project.loadsEnv)
  /\ step \in Wiring => project.sdk # "none"
  /\ step \in {"polling", "env", "ignore", "scripts", "install"} => setup = inspectProject
  /\ step = "wire" => setup.wire = ~usesSdk
  /\ step \in {"wireModule", "wireMain"} => project.source = "one"
  /\ step = "wireMain" => project.moduleWired
  /\ step = "notes" => (project.source = "one" => project.moduleWired)
  /\ step # "idle" => exitCode = -1

\* The module is wired first, and only what can be.
WiredInOrder ==
  /\ project.mainWired => project.moduleWired
  /\ project.moduleWired => project.source = "one"
  /\ step # "wireMain" /\ project.moduleWired # project.mainWired => torn

LinkInv == LinkShape /\ PollsInStep /\ DoneSoFar /\ WiredInOrder /\ LinkedMeansSetUp

LEMMA MoreIsMore ==
    ASSUME NEW s \in Nat, NEW a \in Nat, NEW b \in Nat, a <= b
    PROVE  s * a <= s * b /\ s * (a + 1) = s * a + s
<1>1. b - a \in Nat /\ b = a + (b - a)
  OBVIOUS
<1>2. s * (b - a) \in Nat /\ s * b = s * a + s * (b - a) /\ s * a \in Nat /\ s * (a + 1) = s * a + s
  BY <1>1
<1>3. s * a <= s * a + s * (b - a)
  BY <1>2
<1> QED BY <1>2, <1>3

LEMMA LinkInvStarts == LinkInit => LinkInv
<1> SUFFICES ASSUME LinkInit PROVE LinkInv
  OBVIOUS
<1>1. LinkShape
  BY DEF LinkInit, LinkShape, Projects, LinkSteps
<1>2. PollsInStep
  <2>1. 0 \in 0..ExpiresIn /\ 0 <= FirstInterval + SLOW_DOWN_SECONDS * 0 /\ clock = 0 /\ interval = 0
    BY LinkAssumption DEF LinkInit
  <2> QED BY <2>1 DEF LinkInit, PollsInStep
<1>3. DoneSoFar /\ WiredInOrder /\ LinkedMeansSetUp
  BY DEF LinkInit, DoneSoFar, WiredInOrder, LinkedMeansSetUp, Wiring, Projects
<1> QED BY <1>1, <1>2, <1>3 DEF LinkInv

\* Steps that leave the poll alone.
LEMMA PollLeft ==
    ASSUME PollsInStep, UNCHANGED <<clock, interval, asked>>, step' # "polling" \/ step = "polling"
    PROVE  PollsInStep'
BY DEF PollsInStep

LEMMA LinkInvKept ==
    ASSUME LinkInv, LinkNext
    PROVE  LinkInv' /\ (project' # project => approvedEver)
<1>1. LinkShape /\ PollsInStep /\ DoneSoFar /\ WiredInOrder /\ LinkedMeansSetUp
  BY DEF LinkInv
<1>2. ASSUME NEW reached \in BOOLEAN, beginLink(reached)
      PROVE  LinkInv' /\ project' = project
  <2>1. PollsInStep'
    <3>1. 0 \in 0..ExpiresIn /\ FirstInterval <= FirstInterval + SLOW_DOWN_SECONDS * 0
      BY LinkAssumption
    <3> QED BY <1>2, <3>1, LinkAssumption DEF beginLink, PollsInStep
  <2>2. /\ setup' = inspectProject /\ inspectProject \in [install: BOOLEAN, wire: BOOLEAN]
        /\ inspectProject' = inspectProject
    BY <1>1, <1>2 DEF beginLink, inspectProject, usesSdk, LinkShape
  <2>3. LinkShape' /\ DoneSoFar' /\ WiredInOrder' /\ LinkedMeansSetUp'
    BY <1>1, <1>2, <2>2 DEF beginLink, LinkShape, LinkSteps, DoneSoFar, Wiring, WiredInOrder, LinkedMeansSetUp
  <2> QED BY <1>2, <2>1, <2>3 DEF LinkInv, beginLink
<1>3. ASSUME NEW reply \in Replies, poll(reply)
      PROVE  LinkInv' /\ project' = project
  <2>1. PollsInStep'
    <3>1. PICK k \in 0..ExpiresIn : k <= clock /\ interval <= FirstInterval + SLOW_DOWN_SECONDS * k
      BY <1>1 DEF PollsInStep
    <3>2. PICK m \in Nat : m = SLOW_DOWN_SECONDS * k /\ SLOW_DOWN_SECONDS * (k + 1) = m + SLOW_DOWN_SECONDS
      BY LinkAssumption, MoreIsMore
    <3>3. /\ clock \in Nat /\ interval \in Nat /\ interval >= 1 /\ clock < ExpiresIn /\ clock' = clock + interval
          /\ asked' = interval' /\ interval' \in {interval, interval + SLOW_DOWN_SECONDS}
      BY <1>1, <1>3 DEF poll, PollsInStep
    <3>4. k + 1 \in 0..ExpiresIn /\ k + 1 <= clock' /\ interval' <= FirstInterval + SLOW_DOWN_SECONDS * (k + 1)
          /\ clock' \in Nat /\ interval' \in Nat /\ interval' >= 1
      BY <3>1, <3>2, <3>3, LinkAssumption
    <3> QED BY <3>3, <3>4 DEF PollsInStep
  <2>2. /\ step = "polling" /\ UNCHANGED <<project, setup, torn>>
        /\ \/ step' = "env" /\ exitCode' = exitCode /\ approvedEver'
           \/ step' = "idle" /\ exitCode' = 1
           \/ step' = step /\ exitCode' = exitCode
    BY <1>3 DEF poll, ends
  <2>3. inspectProject' = inspectProject
    BY <2>2 DEF inspectProject, usesSdk
  <2>4. LinkShape' /\ DoneSoFar' /\ WiredInOrder' /\ LinkedMeansSetUp'
    BY <1>1, <2>2, <2>3 DEF LinkShape, LinkSteps, DoneSoFar, Wiring, WiredInOrder, LinkedMeansSetUp
  <2> QED BY <2>1, <2>2, <2>4 DEF LinkInv
<1>4. ASSUME codeExpires \/ interrupted PROVE LinkInv' /\ project' = project
  <2>1. /\ step' = "idle" /\ exitCode' \in {-1, 1} /\ UNCHANGED <<project, setup, clock, interval, asked>>
        /\ (step = "wireMain" => torn') /\ (torn => torn')
    <3>1. CASE codeExpires
      BY <3>1 DEF codeExpires, ends
    <3>2. CASE interrupted
      <4>1. /\ step' = "idle" /\ exitCode' = -1 /\ UNCHANGED <<project, setup, clock, interval, asked>>
            /\ torn' = (torn \/ step = "wireMain")
        BY <3>2 DEF interrupted, ends
      <4>2. (step = "wireMain" => torn') /\ (torn => torn')
        BY <4>1, Zenon
      <4> QED BY <4>1, <4>2
    <3> QED BY <1>4, <3>1, <3>2
  <2>2. LinkShape' /\ DoneSoFar' /\ WiredInOrder' /\ LinkedMeansSetUp'
    <3>1. LinkShape'
      BY <1>1, <2>1 DEF LinkShape, LinkSteps
    <3>2. DoneSoFar'
      BY <1>1, <2>1 DEF LinkShape, DoneSoFar, Wiring
    <3>3. WiredInOrder'
      BY <1>1, <2>1 DEF LinkShape, DoneSoFar, Wiring, WiredInOrder
    <3>4. LinkedMeansSetUp'
      BY <1>1, <2>1 DEF LinkShape, DoneSoFar, LinkedMeansSetUp
    <3>. QED  BY <3>1, <3>2, <3>3, <3>4
  <2> QED BY <1>1, <2>1, <2>2, PollLeft DEF LinkInv
<1>5. ASSUME writeEnvFile \/ ensureEnvIgnored \/ addEnvFileToStartScripts
      PROVE  LinkInv' /\ approvedEver
  <2>1. /\ UNCHANGED <<setup, clock, interval, asked, approvedEver, torn, exitCode>> /\ step' # "polling"
        /\ \/ step = "env" /\ step' = "ignore" /\ project' = [project EXCEPT !.env = "pair"]
           \/ step = "ignore" /\ step' = "scripts" /\ project' = [project EXCEPT !.ignored = TRUE]
           \/ /\ step = "scripts" /\ step' = "install"
              /\ project' = [project EXCEPT !.loadsEnv = @ \/ project.scripts = "nest"]
    BY <1>5 DEF writeEnvFile, ensureEnvIgnored, addEnvFileToStartScripts, goTo, Rest
  <2>2. LinkShape'
    BY <1>1, <2>1 DEF LinkShape, LinkSteps
  <2>3. /\ project'.sdk = project.sdk /\ project'.moduleWired = project.moduleWired
        /\ project'.mainWired = project.mainWired /\ project'.source = project.source
        /\ inspectProject' = inspectProject
    BY <1>1, <2>1 DEF LinkShape, inspectProject, usesSdk
  <2>4. DoneSoFar'
    BY <1>1, <2>1, <2>3 DEF LinkShape, DoneSoFar, Wiring
  <2>5. WiredInOrder' /\ LinkedMeansSetUp'
    BY <1>1, <2>1, <2>3 DEF WiredInOrder, LinkedMeansSetUp, DoneSoFar
  <2>6. approvedEver
    BY <1>1, <2>1 DEF DoneSoFar
  <2> QED BY <1>1, <2>1, <2>2, <2>4, <2>5, <2>6, PollLeft DEF LinkInv
<1>6. ASSUME NEW succeeds \in BOOLEAN, addDependency(succeeds)
      PROVE  LinkInv' /\ approvedEver
  <2>1. /\ UNCHANGED <<setup, clock, interval, asked, approvedEver, torn>> /\ step = "install"
        /\ \/ step' = "wire" /\ exitCode' = exitCode /\ ~setup.install /\ project' = project
           \/ step' = "wire" /\ exitCode' = exitCode /\ project' = [project EXCEPT !.sdk = "current"]
           \/ step' = "idle" /\ exitCode' = 1 /\ project' = project
    BY <1>6 DEF addDependency, goTo, ends, Rest
  <2>2. LinkShape' /\ (step' = "wire" => project'.sdk # "none") /\ setup.wire = ~usesSdk
    BY <1>1, <2>1 DEF LinkShape, LinkSteps, DoneSoFar, inspectProject
  <2>3. /\ project'.env = project.env /\ project'.ignored = project.ignored
        /\ project'.scripts = project.scripts /\ project'.loadsEnv = project.loadsEnv
        /\ project'.moduleWired = project.moduleWired
        /\ project'.mainWired = project.mainWired /\ project'.source = project.source
        /\ usesSdk' = usesSdk
    BY <1>1, <2>1 DEF LinkShape, usesSdk
  <2>4. DoneSoFar' /\ approvedEver
    BY <1>1, <2>1, <2>2, <2>3 DEF DoneSoFar, Wiring
  <2>5. WiredInOrder' /\ LinkedMeansSetUp'
    BY <1>1, <2>1, <2>3 DEF WiredInOrder, LinkedMeansSetUp, DoneSoFar
  <2> QED BY <1>1, <2>1, <2>2, <2>4, <2>5, PollLeft DEF LinkInv
<1>7. ASSUME planWiring PROVE LinkInv' /\ project' = project
  <2>1. /\ UNCHANGED <<project, setup, clock, interval, asked, approvedEver, torn, exitCode>> /\ step = "wire"
        /\ \/ step' = "wireModule" /\ project.source = "one"
           \/ step' = "notes" /\ ~(setup.wire /\ project.source = "one")
    BY <1>7 DEF planWiring, goTo, Rest
  <2>2. LinkShape' /\ DoneSoFar' /\ WiredInOrder' /\ LinkedMeansSetUp'
    BY <1>1, <2>1 DEF LinkShape, LinkSteps, DoneSoFar, Wiring, usesSdk, WiredInOrder, LinkedMeansSetUp
  <2> QED BY <1>1, <2>1, <2>2, PollLeft DEF LinkInv
<1>8. ASSUME wireRootModule \/ wireMain PROVE LinkInv' /\ approvedEver
  <2>1. /\ UNCHANGED <<setup, clock, interval, asked, approvedEver, torn, exitCode>>
        /\ \/ step = "wireModule" /\ step' = "wireMain" /\ project' = [project EXCEPT !.moduleWired = TRUE]
           \/ step = "wireMain" /\ step' = "notes" /\ project' = [project EXCEPT !.mainWired = TRUE]
    BY <1>8 DEF wireRootModule, wireMain, goTo, Rest
  <2>2. LinkShape' /\ DoneSoFar' /\ WiredInOrder' /\ LinkedMeansSetUp' /\ approvedEver
    <3>1. LinkShape'
      BY <1>1, <2>1 DEF LinkShape, LinkSteps
    <3>2. DoneSoFar' /\ approvedEver
      BY <1>1, <2>1 DEF LinkShape, DoneSoFar, Wiring
    <3>3. WiredInOrder'
      BY <1>1, <2>1 DEF LinkShape, DoneSoFar, Wiring, WiredInOrder
    <3>4. LinkedMeansSetUp'
      BY <1>1, <2>1 DEF LinkShape, DoneSoFar, LinkedMeansSetUp
    <3>. QED  BY <3>1, <3>2, <3>3, <3>4
  <2> QED BY <1>1, <2>1, <2>2, PollLeft DEF LinkInv
<1>9. ASSUME NEW succeeds \in BOOLEAN, writeAgentNotes(succeeds)
      PROVE  LinkInv' /\ approvedEver
  <2>1. /\ UNCHANGED <<setup, clock, interval, asked, approvedEver, torn>> /\ step = "notes" /\ step' = "idle"
        /\ exitCode' = 0 /\ project' = [project EXCEPT !.notes = @ \/ succeeds]
    BY <1>9 DEF writeAgentNotes, ends, Rest
  <2>2. LinkShape' /\ DoneSoFar' /\ WiredInOrder' /\ LinkedMeansSetUp' /\ approvedEver
    <3>1. LinkShape'
      BY <1>1, <2>1 DEF LinkShape, LinkSteps
    <3>2. DoneSoFar' /\ approvedEver
      BY <1>1, <2>1 DEF LinkShape, DoneSoFar, Wiring
    <3>3. WiredInOrder'
      BY <1>1, <2>1 DEF LinkShape, DoneSoFar, Wiring, WiredInOrder
    <3>4. LinkedMeansSetUp'
      BY <1>1, <2>1, SMTT(60) DEF LinkShape, DoneSoFar, Wiring, WiredInOrder, LinkedMeansSetUp
    <3>. QED  BY <3>1, <3>2, <3>3, <3>4
  <2> QED BY <1>1, <2>1, <2>2, PollLeft DEF LinkInv
<1> QED BY <1>2, <1>3, <1>4, <1>5, <1>6, <1>7, <1>8, <1>9 DEF LinkNext, linkStep

LEMMA LinkStays ==
    ASSUME LinkInv, UNCHANGED linkVars
    PROVE  LinkInv'
<1>1. /\ project' = project /\ step' = step /\ setup' = setup /\ clock' = clock /\ interval' = interval
      /\ exitCode' = exitCode /\ asked' = asked /\ approvedEver' = approvedEver /\ torn' = torn
  BY DEF linkVars
<1>2. LinkShape' /\ WiredInOrder' /\ LinkedMeansSetUp'
  BY <1>1 DEF LinkInv, LinkShape, WiredInOrder, LinkedMeansSetUp
<1>3. PollsInStep'
  BY <1>1 DEF LinkInv, PollsInStep
<1>4. DoneSoFar'
  BY <1>1 DEF LinkInv, DoneSoFar, inspectProject, usesSdk
<1> QED BY <1>2, <1>3, <1>4 DEF LinkInv

LEMMA LinkTold == LinkInv => LinkTypeOK /\ PollsAsSlowlyAsAsked /\ LinkedMeansSetUp /\ OnlyEditableWired
<1> SUFFICES ASSUME LinkInv
             PROVE  LinkTypeOK /\ PollsAsSlowlyAsAsked /\ LinkedMeansSetUp /\ OnlyEditableWired
  OBVIOUS
<1>1. LinkShape /\ PollsInStep /\ WiredInOrder /\ LinkedMeansSetUp
  BY DEF LinkInv
<1>2. interval \in 0..(FirstInterval + SLOW_DOWN_SECONDS * ExpiresIn)
  <2>1. PICK k \in 0..ExpiresIn : interval <= FirstInterval + SLOW_DOWN_SECONDS * k
    BY <1>1 DEF PollsInStep
  <2>2. PICK a \in Nat, b \in Nat : a = SLOW_DOWN_SECONDS * k /\ b = SLOW_DOWN_SECONDS * ExpiresIn /\ a <= b
    BY LinkAssumption, MoreIsMore
  <2> QED BY <1>1, <2>1, <2>2, LinkAssumption DEF PollsInStep
<1>3. LinkTypeOK
  BY <1>1, <1>2 DEF LinkTypeOK, LinkShape
<1>4. PollsAsSlowlyAsAsked
  BY <1>1 DEF PollsInStep, PollsAsSlowlyAsAsked
<1>5. OnlyEditableWired
  BY <1>1 DEF WiredInOrder, OnlyEditableWired
<1> QED BY <1>1, <1>3, <1>4, <1>5

\* Whatever the collector answers, wherever a run is cut and however often it is run
\* again: nothing is written before the key pair is there, and a run that ends well
\* leaves a project that is set up (link, waitForApproval, wireApplication).
THEOREM LinksWithCare == LinkSpec => LinkIsCareful
<1>1. LinkInit => LinkInv
  BY LinkInvStarts
<1>2. LinkInv /\ [LinkNext]_linkVars => LinkInv'
  BY LinkInvKept, LinkStays
<1>3. LinkInv /\ LinkInv' /\ [LinkNext]_linkVars =>
        [/\ LinkTypeOK' /\ PollsAsSlowlyAsAsked' /\ LinkedMeansSetUp' /\ OnlyEditableWired'
         /\ project' # project => approvedEver]_linkVars
  <2>1. LinkInv' => LinkTypeOK' /\ PollsAsSlowlyAsAsked' /\ LinkedMeansSetUp' /\ OnlyEditableWired'
    BY LinkTold, PTL
  <2>2. LinkInv /\ LinkNext => (project' # project => approvedEver)
    BY LinkInvKept
  <2> QED BY <2>1, <2>2
<1> QED BY <1>1, <1>2, <1>3, PTL DEF LinkSpec, LinkIsCareful

-----------------------------------------------------------------------------
(***************************************************************************)
(* Objectives                                                              *)
(***************************************************************************)

\* What may be in a batch or at the collector for a handler: its accepted
\* objectives, for the one route it is mounted on.
OneRoute(h) == <<"path", h, 1>>
DueOf(h) == statement(h, OneRoute(h))
Due == {DueOf(h) : h \in byHandler}
ObjectivesInv ==
    /\ ObjectivesTypeOK /\ batch \in Seq(Due)
    /\ DOMAIN slo = Handlers /\ \A h \in Handlers : slo[h] \subseteq {OneRoute(h)}

\* What a handler declares is stripped and within the collector's limit.
LEMMA AcceptedWithinBounds ==
    ASSUME NEW d \in DecorationType
    PROVE  LET a == acceptedObjectives(d) IN
           /\ Len(a) \in 0 .. MAX_OBJECTIVES_PER_HANDLER
           /\ Len(a) = 0 => a = <<>>
           /\ \A k \in 1 .. Len(a) : a[k] = "ok"
<1> DEFINE kept == {k \in DOMAIN d.objectives : acceptable(d.objectives[k])}
           n == IF Cardinality(kept) > MAX_OBJECTIVES_PER_HANDLER THEN MAX_OBJECTIVES_PER_HANDLER
                ELSE Cardinality(kept)
           a == acceptedObjectives(d)
<1>1. Cardinality(kept) \in Nat
  <2>1. d.objectives \in Seq({"ok", "bad", "extra"})
    BY DEF DecorationType
  <2>2. DOMAIN d.objectives = 1 .. Len(d.objectives) /\ Len(d.objectives) \in Nat
    BY <2>1
  <2>3. IsFiniteSet(1 .. Len(d.objectives))
    BY <2>2, FS_Interval
  <2>4. IsFiniteSet(kept)
    BY <2>2, <2>3, FS_Subset
  <2> QED BY <2>4, FS_CardinalityType
<1> HIDE DEF kept
<1>2. n \in 0 .. MAX_OBJECTIVES_PER_HANDLER
  BY <1>1, ObjectivesAssumption
<1>3. a = IF d.longName THEN <<>> ELSE [i \in 1 .. n |-> "ok"]
  BY DEF acceptedObjectives, toDeclaredObjective, kept
<1> HIDE DEF n, a
<1>4. CASE d.longName
  <2>1. a = <<>>
    BY <1>3, <1>4
  <2>2. Len(a) = 0
    BY <2>1
  <2>3. 0 \in 0 .. MAX_OBJECTIVES_PER_HANDLER
    BY ObjectivesAssumption
  <2> QED BY <2>1, <2>2, <2>3 DEF a
<1>5. CASE ~d.longName
  <2>1. a = [i \in 1 .. n |-> "ok"] /\ n \in Nat
    BY <1>2, <1>3, <1>5, ObjectivesAssumption
  <2>2. Len(a) = n /\ \A k \in 1 .. n : a[k] = "ok"
    BY <2>1
  <2>3. n = 0 => a = <<>>
    BY <2>1
  <2> QED BY <1>2, <2>2, <2>3 DEF a
<1> QED BY <1>4, <1>5

\* The handler a request's declaration is looked up for is the one that was
\* asked for: it is nearest the root.
LEMMA NearestIsAsked ==
    ASSUME NEW h \in Handlers, NEW tree \in Trees(h)
    PROVE  handlerOf(tree) \subseteq {h} \cap byHandler
<1> DEFINE D == declaringSpans(tree)
<1>1. byHandler \subseteq Handlers /\ "w" \notin byHandler
  BY ObjectivesAssumption DEF byHandler
<1>2. ASSUME D # {} PROVE \E i \in D : tree[i] = h /\ h \in byHandler /\ \A j \in D : i <= j
  <2>1. CASE tree = <<h>>
    BY <1>1, <1>2, <2>1 DEF declaringSpans
  <2>2. CASE tree = <<"w", h>>
    <3>1. Len(tree) = 2 /\ tree[1] = "w" /\ tree[2] = h
      BY <2>2
    <3>2. D \subseteq {2}
      BY <1>1, <3>1 DEF declaringSpans
    <3>3. \A i \in D : tree[i] \in byHandler
      BY DEF declaringSpans
    <3> QED BY <1>2, <3>1, <3>2, <3>3
  <2>3. CASE tree = <<"w", "w", h>>
    <3>1. Len(tree) = 3 /\ tree[1] = "w" /\ tree[2] = "w" /\ tree[3] = h
      BY <2>3
    <3>2. D \subseteq {3}
      BY <1>1, <3>1 DEF declaringSpans
    <3>3. \A i \in D : tree[i] \in byHandler
      BY DEF declaringSpans
    <3> QED BY <1>2, <3>1, <3>2, <3>3
  <2>4. CASE h \in byHandler /\ \E o \in Handlers \ {h} : tree = <<h, o>>
    <3>1. Len(tree) = 2 /\ tree[1] = h
      BY <2>4
    <3>2. 1 \in D /\ \A j \in D : 1 <= j
      BY <2>4, <3>1, ObjectivesAssumption DEF declaringSpans
    <3> QED BY <2>4, <3>1, <3>2
  <2> QED BY <2>1, <2>2, <2>3, <2>4 DEF Trees
<1>3. CASE D = {}
  BY <1>3 DEF handlerOf
<1>4. CASE D # {}
  <2>1. PICK i \in D : tree[i] = h /\ h \in byHandler /\ \A j \in D : i <= j
    BY <1>2, <1>4
  <2> DEFINE m == CHOOSE k \in D : \A j \in D : k <= j
  <2>2. m \in D /\ \A j \in D : m <= j
    BY <2>1
  <2>3. D \subseteq Nat
    BY DEF declaringSpans
  <2>4. m = i
    BY <2>1, <2>2, <2>3
  <2>5. handlerOf(tree) = {tree[m]}
    BY <1>4 DEF handlerOf
  <2> QED BY <2>1, <2>4, <2>5
<1> QED BY <1>3, <1>4

\* The sequence of no declaration, and of one.
LEMMA SequenceOfOne ==
    /\ SetToSeq({}) = <<>>
    /\ \A x : SetToSeq({x}) = <<x>>
<1>1. SetToSeq({}) = <<>>
  <2>1. Cardinality({}) = 0
    BY FS_EmptySet
  <2>2. <<>> \in [1 .. 0 -> {}] /\ IsInjective(<<>>)
    BY DEF IsInjective
  <2>3. \A f \in [1 .. 0 -> {}] : f = <<>>
    OBVIOUS
  <2> QED BY <2>1, <2>2, <2>3 DEF SetToSeq
<1>2. ASSUME NEW x PROVE SetToSeq({x}) = <<x>>
  <2>1. Cardinality({x}) = 1
    BY FS_Singleton
  <2>2. <<x>> \in [1 .. 1 -> {x}] /\ IsInjective(<<x>>)
    BY DEF IsInjective
  <2>3. \A f \in [1 .. 1 -> {x}] : f = <<x>>
    OBVIOUS
  <2> QED BY <2>1, <2>2, <2>3 DEF SetToSeq
<1> QED BY <1>1, <1>2

\* The objectives of an entry, and the handlers that declare, do not change.
LEMMA ObjectivesStep == ObjectivesInv /\ [ObjectivesNext]_objectiveVars => ObjectivesInv'
<1> SUFFICES ASSUME ObjectivesInv, [ObjectivesNext]_objectiveVars PROVE ObjectivesInv'
  OBVIOUS
<1>1. /\ declared' = declared /\ Due' = Due /\ batch \in Seq(Due) /\ ObjectivesTypeOK
      /\ Len(batch) \in Nat /\ Len(batch) <= MAX_OBJECTIVES_PER_BATCH
      /\ DOMAIN slo = Handlers /\ \A h \in Handlers : slo[h] \subseteq {OneRoute(h)}
      /\ \A r \in DOMAIN age : age[r] \in 0 .. RESTATE_EVERY
  <2>1. declared' = declared
    BY DEF ObjectivesNext, timeGoesBy, batchTaken, batchLost, requestTo, completeRequest, objectiveVars
  <2>2. Due' = Due
    BY <2>1 DEF Due, DueOf, OneRoute, statement, byHandler, acceptedObjectives
  <2> QED BY <2>1, <2>2 DEF ObjectivesInv, ObjectivesTypeOK
<1>2. ASSUME batch' \in Seq(Due), Len(batch') <= MAX_OBJECTIVES_PER_BATCH,
             \A r \in DOMAIN age' : age'[r] \in 0 .. RESTATE_EVERY,
             DOMAIN slo' = Handlers, \A h \in Handlers : slo'[h] \subseteq {OneRoute(h)}
      PROVE  ObjectivesInv'
  <2>1. ObjectivesTypeOK'
    BY <1>1, <1>2 DEF ObjectivesTypeOK, DecorationType
  <2>2. batch' \in Seq(Due')
    BY <1>1, <1>2
  <2>3. (\A h \in Handlers : slo[h] \subseteq {OneRoute(h)})'
    BY <1>2 DEF OneRoute
  <2> QED BY <1>2, <2>1, <2>2, <2>3 DEF ObjectivesInv
<1>3. RESTATE_EVERY \in Nat /\ MAX_OBJECTIVES_PER_BATCH \in Nat
  BY ObjectivesAssumption
<1>4. <<>> \in Seq(Due) /\ Len(<<>>) = 0
  OBVIOUS
<1>5. CASE timeGoesBy
  <2>1. age' = [r \in DOMAIN age |-> IF age[r] < RESTATE_EVERY THEN age[r] + 1 ELSE age[r]]
        /\ batch' = batch /\ slo' = slo
    BY <1>5 DEF timeGoesBy
  <2>2. \A r \in DOMAIN age' : age'[r] \in 0 .. RESTATE_EVERY
    BY <1>1, <1>3, <2>1
  <2> QED BY <1>1, <1>2, <2>1, <2>2
<1>6. CASE batchTaken
  <2>1. batch' = <<>> /\ age' = age
        /\ slo' = [h \in Handlers |-> slo[h] \cup {batch[i].route : i \in {j \in 1..Len(batch) : batch[j].handler = h}}]
    BY <1>6 DEF batchTaken
  <2>2. ASSUME NEW i \in 1 .. Len(batch) PROVE batch[i].route = OneRoute(batch[i].handler)
    <3>1. PICK h \in byHandler : batch[i] = DueOf(h)
      BY <1>1 DEF Due
    <3> QED BY <3>1 DEF DueOf, statement
  <2>3. ASSUME NEW h \in Handlers PROVE slo'[h] \subseteq {OneRoute(h)}
    BY <1>1, <2>1, <2>2
  <2>4. DOMAIN slo' = Handlers /\ \A h \in Handlers : slo'[h] \subseteq {OneRoute(h)}
    BY <2>1, <2>3
  <2>5. batch' \in Seq(Due) /\ Len(batch') <= MAX_OBJECTIVES_PER_BATCH /\ age' = age
    BY <1>3, <1>4, <2>1
  <2>6. \A r \in DOMAIN age' : age'[r] \in 0 .. RESTATE_EVERY
    BY <1>1, <2>5
  <2> QED BY <1>2, <2>4, <2>5, <2>6
<1>7. CASE batchLost
  BY <1>1, <1>2, <1>3, <1>4, <1>7 DEF batchLost
<1>8. CASE \E h \in Handlers : requestTo(h)
  <2>1. PICK h \in Handlers : \E tree \in Trees(h), route \in RoutesOf(h) \cup {Renamed} :
                                 completeRequest(h, tree, route)
    BY <1>8 DEF requestTo
  <2>2. PICK tree \in Trees(h), route \in RoutesOf(h) \cup {Renamed} : completeRequest(h, tree, route)
    BY <2>1
  <2> DEFINE long == route # Renamed /\ declared[h].longRoute
             ds == IF Len(batch) >= MAX_OBJECTIVES_PER_BATCH THEN {}
                   ELSE UNION {declarationFor(o, route, long) : o \in handlerOf(tree)}
             stated == {<<d.handler, d.route>> : d \in ds}
  <2>3. /\ batch' = batch \o SetToSeq(ds) /\ slo' = slo
        /\ age' = [r \in DOMAIN age \cup stated |-> IF r \in stated THEN 0 ELSE age[r]]
    BY <2>2 DEF completeRequest
  <2>4. ds = {} \/ (Len(batch) < MAX_OBJECTIVES_PER_BATCH /\ \E d \in Due : ds = {d})
    <3>0. CASE ds = {}
      BY <3>0
    <3> SUFFICES ASSUME ds # {}
                 PROVE  Len(batch) < MAX_OBJECTIVES_PER_BATCH /\ \E d \in Due : ds = {d}
      BY <3>0
    <3>9. ~(Len(batch) >= MAX_OBJECTIVES_PER_BATCH)
      OBVIOUS
    <3>1. handlerOf(tree) \subseteq {h} \cap byHandler
      BY NearestIsAsked
    <3>2. ds = UNION {declarationFor(o, route, long) : o \in handlerOf(tree)}
      BY <3>9
    <3>3. h \in byHandler /\ ds = declarationFor(h, route, long)
      <4> HIDE DEF ds, long
      <4>1. handlerOf(tree) # {}
        BY <3>2
      <4>2. h \in byHandler /\ handlerOf(tree) = {h}
        BY <3>1, <4>1
      <4> QED BY <3>2, <4>2
    <3>4. route # Renamed /\ ds = {statement(h, route)}
      BY <3>3 DEF declarationFor
    <3>5. route = OneRoute(h)
      BY <3>3, <3>4 DEF RoutesOf, byHandler, OneRoute
    <3>6. DueOf(h) \in Due /\ ds = {DueOf(h)}
      BY <3>3, <3>4, <3>5 DEF Due, DueOf
    <3> HIDE DEF ds
    <3> QED BY <1>1, <1>3, <3>9, <3>6
  <2>5. \A r \in DOMAIN age' : age'[r] \in 0 .. RESTATE_EVERY
    <3> HIDE DEF stated
    <3> QED BY <1>1, <1>3, <2>3
  <2> HIDE DEF ds, stated
  <2>6. batch' \in Seq(Due) /\ Len(batch') <= MAX_OBJECTIVES_PER_BATCH
    <3>1. CASE ds = {}
      <4>1. batch' = batch \o <<>>
        BY <2>3, <3>1, SequenceOfOne
      <4> QED BY <1>1, <4>1
    <3>2. CASE ds # {}
      <4>1. PICK d \in Due : ds = {d}
        BY <2>4, <3>2
      <4>2. batch' = batch \o <<d>>
        BY <2>3, <4>1, SequenceOfOne
      <4>3. Len(batch) + 1 <= MAX_OBJECTIVES_PER_BATCH
        BY <1>1, <1>3, <2>4, <3>2
      <4> QED BY <1>1, <4>2, <4>3
    <3> QED BY <3>1, <3>2
  <2> QED BY <1>1, <1>2, <2>3, <2>5, <2>6
<1>9. CASE UNCHANGED objectiveVars
  BY <1>1, <1>2, <1>9 DEF objectiveVars
<1> QED BY <1>5, <1>6, <1>7, <1>8, <1>9 DEF ObjectivesNext

\* For any handlers, decorations and limits, whichever batches are lost: what is
\* declared is what the collector takes, and a handler's objectives are declared
\* for one route (ObjectivesRegistry).
THEOREM DeclarationsStayPut == ObjectivesSpec => []DeclarationsHold
<1>1. ObjectivesInit => ObjectivesInv
  <2> SUFFICES ASSUME ObjectivesInit PROVE ObjectivesInv
    OBVIOUS
  <2>1. ObjectivesTypeOK
    <3>1. batch = <<>> /\ Len(batch) = 0 /\ DOMAIN age = {} /\ declared \in [Handlers -> Decorations]
      BY DEF ObjectivesInit
    <3> QED BY <3>1, ObjectivesAssumption DEF ObjectivesTypeOK
  <2> QED BY <2>1 DEF ObjectivesInv, ObjectivesInit
<1>2. ObjectivesInv => DeclarationsHold
  <2> SUFFICES ASSUME ObjectivesInv PROVE DeclarationsHold
    OBVIOUS
  <2>1. BatchWithinBounds
    <3> SUFFICES ASSUME NEW i \in 1 .. Len(batch)
                 PROVE  /\ Len(batch[i].objectives) \in 1 .. MAX_OBJECTIVES_PER_HANDLER
                        /\ \A k \in 1 .. Len(batch[i].objectives) : batch[i].objectives[k] = "ok"
      BY DEF BatchWithinBounds
    <3>1. PICK h \in byHandler : batch[i] = DueOf(h)
      BY DEF ObjectivesInv, Due
    <3> DEFINE a == acceptedObjectives(declared[h])
    <3>2. batch[i].objectives = a
      BY <3>1 DEF DueOf, statement
    <3>3. a # <<>> /\ declared[h] \in DecorationType
      BY DEF byHandler, ObjectivesInv, ObjectivesTypeOK
    <3>4. /\ Len(a) \in 0 .. MAX_OBJECTIVES_PER_HANDLER /\ (Len(a) = 0 => a = <<>>)
          /\ \A k \in 1 .. Len(a) : a[k] = "ok"
      BY <3>3, AcceptedWithinBounds
    <3> HIDE DEF a
    <3> QED BY <3>2, <3>3, <3>4, ObjectivesAssumption
  <2>2. SloStaysPut
    <3> SUFFICES ASSUME NEW h \in Handlers PROVE Cardinality(slo[h]) <= 1
      BY DEF SloStaysPut
    <3>1. slo[h] = {} \/ slo[h] = {OneRoute(h)}
      BY DEF ObjectivesInv
    <3>2. Cardinality({}) = 0 /\ Cardinality({OneRoute(h)}) = 1
      BY FS_EmptySet, FS_Singleton
    <3> QED BY <3>1, <3>2
  <2> QED BY <2>1, <2>2 DEF DeclarationsHold, ObjectivesInv
<1> QED BY <1>1, <1>2, ObjectivesStep, PTL DEF ObjectivesSpec
=============================================================================
