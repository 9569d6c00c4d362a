-------------------------- MODULE MainBuffer_proofs --------------------------
(***************************************************************************)
(* MainBuffer and CustomMetrics, for any limits, any executions and any    *)
(* readings: what was recorded on the main thread is in the batch that is  *)
(* built of it, or counted, and nothing is counted twice.                  *)
(*                                                                         *)
(* Two things need more than the properties of the batch say.  What it     *)
(* carries is a sum over its entries, defined by recursion: the first      *)
(* lemmas show that it grows by what is appended, by induction over the    *)
(* naturals in the form of "a set of naturals that is not empty has a      *)
(* least one".  And that a batch written under a pause holds only server   *)
(* errors rests on what every batch still being built under that pause     *)
(* holds.                                                                  *)
(*                                                                         *)
(* The metrics, in the second half, need that what a series was told never *)
(* passes its baseline, nor that the readings of its window; that the      *)
(* increases in a batch are what was told since; and what a summary counts *)
(* over its series, again a sum by recursion, here over a set.             *)
(***************************************************************************)
EXTENDS MainBuffer, CustomMetrics, SequenceTheorems, FiniteSetTheorems, WellFoundedInduction, TLAPS

\* An entry that a pause ships.
ServerErrorOnly(entry) == isServerErrorSnapshot(entry.ex) /\ ~entry.tree

\* A batch that was built under a pause so far.
PausedSoFar ==
    alwaysPaused => \A k \in Kinds : \A i \in 1..Len(kept[k]) : ServerErrorOnly(kept[k][i])

\* The two halves of EventsAccounted.
BuiltAccounted   == metered = EventsIn(kept, logs) + truncatedSpans
WrittenAccounted ==
    writtenBatch.metered = EventsIn(writtenBatch.kept, writtenBatch.logs) + writtenBatch.truncatedSpans

\* CappedExportIsWhatIsKept, of one kind.
Exports == [ex : Executions, tree : BOOLEAN, at : Nat]
ExportMatches(inBatch, sent) ==
    /\ \A i \in 1..Len(inBatch) : inBatch[i].capped <=> \E j \in 1..Len(sent) : sent[j].at = i
    /\ \A j \in 1..Len(sent) :
           /\ sent[j].at \in 1..Len(inBatch)
           /\ sent[j].ex = inBatch[sent[j].at].ex
           /\ sent[j].tree = inBatch[sent[j].at].tree
    /\ \A i, j \in 1..Len(sent) : i < j => sent[i].at < sent[j].at

\* The inductive invariant.
BatchInv == BatchIsAccounted /\ PausedSoFar

-----------------------------------------------------------------------------
\* A set of naturals that is not empty has a least element.
LEMMA LeastNatural ==
    ASSUME NEW T, T \subseteq Nat, T # {}
    PROVE  \E x \in T : \A y \in T : x <= y
<1> DEFINE R == {pair \in Nat \X Nat : pair[1] < pair[2]}
<1>1. IsWellFoundedOn(R, Nat)
  BY NatLessThanWellFounded DEF OpToRel
<1>2. PICK x \in T : \A y \in T : ~(<<y, x>> \in R)
  BY <1>1, WFMin
<1>3. ASSUME NEW y \in T PROVE x <= y
  <2>1. <<y, x>> \in Nat \X Nat /\ <<y, x>>[1] = y /\ <<y, x>>[2] = x
    OBVIOUS
  <2>2. ~(y < x)
    BY <1>2, <2>1
  <2> QED BY <2>2
<1> QED BY <1>3

\* A set of naturals with 0 in it, and with each number the next, is all of them.
LEMMA AllNaturals ==
    ASSUME NEW S, S \subseteq Nat, 0 \in S, \A n \in S : n + 1 \in S
    PROVE  S = Nat
<1> SUFFICES ASSUME Nat \ S # {} PROVE FALSE
  OBVIOUS
<1>1. PICK x \in Nat \ S : \A y \in Nat \ S : x <= y
  BY LeastNatural
<1>2. x # 0 /\ x - 1 \in Nat /\ x - 1 \in S
  BY <1>1
<1> QED BY <1>2

-----------------------------------------------------------------------------
\* f adds up the entries of s one by one; it does so up to n.
SumsOf(s, f)    == f = [n \in 0..Len(s) |-> IF n = 0 THEN 0 ELSE f[n - 1] + Units(s[n])]
AddsUp(s, n, f) == f[0] = 0 /\ \A i \in 1..n : f[i] = f[i - 1] + Units(s[i])

\* What the meter bills is a number.
LEMMA UnitsAreNumbers ==
    /\ \A ex \in Executions : Itself(ex) \in Nat /\ ex.nodes \in Nat /\ ex.kind \in Kinds
    /\ \A entry \in BatchEntries : Units(entry) \in Nat
<1>1. \A ex \in Executions : Itself(ex) \in Nat /\ ex.nodes \in Nat /\ ex.kind \in Kinds
  BY MainBufferAssumption DEF Itself
<1>2. \A entry \in BatchEntries : Units(entry) \in Nat
  BY <1>1 DEF BatchEntries, Units
<1> QED BY <1>1, <1>2

\* There is such a sum of the entries of any sequence ...
LEMMA SumsExist ==
    ASSUME NEW s \in Seq(BatchEntries)
    PROVE  \E f \in [0..Len(s) -> Nat] : SumsOf(s, f)
<1> DEFINE T == {n \in Nat : n <= Len(s) => \E f \in [0..n -> Nat] : AddsUp(s, n, f)}
<1>1. Len(s) \in Nat /\ \A i \in 1..Len(s) : Units(s[i]) \in Nat
  BY UnitsAreNumbers
<1>2. 0 \in T
  <2>1. [i \in 0..0 |-> 0] \in [0..0 -> Nat]
    OBVIOUS
  <2>2. AddsUp(s, 0, [i \in 0..0 |-> 0])
    <3>1. 1..0 = {} /\ 0 \in 0..0
      OBVIOUS
    <3> QED BY <3>1 DEF AddsUp
  <2> QED BY <2>1, <2>2
<1>3. ASSUME NEW n \in T PROVE n + 1 \in T
  <2>1. SUFFICES ASSUME n + 1 <= Len(s) PROVE \E f \in [0..(n + 1) -> Nat] : AddsUp(s, n + 1, f)
    BY SMTT(60)
  <2>2. PICK f \in [0..n -> Nat] : AddsUp(s, n, f)
    BY <1>1, <2>1
  <2> DEFINE g == [i \in 0..(n + 1) |-> IF i <= n THEN f[i] ELSE f[n] + Units(s[n + 1])]
  <2>3. g \in [0..(n + 1) -> Nat]
    BY <1>1, <2>1
  <2>4. AddsUp(s, n + 1, g)
    BY <1>1, <2>1, <2>2 DEF AddsUp
  <2> QED BY <2>3, <2>4
<1>4. T = Nat
  <2> HIDE DEF T
  <2> QED BY <1>2, <1>3, AllNaturals DEF T
<1>5. Len(s) \in T
  BY <1>1, <1>4
<1>6. PICK f \in [0..Len(s) -> Nat] : AddsUp(s, Len(s), f)
  BY <1>1, <1>5
<1>7. SumsOf(s, f)
  BY <1>1, <1>6 DEF SumsOf, AddsUp
<1> QED BY <1>7

\* ... and only one: sums of two sequences agree as far as these do.
LEMMA SumsAgree ==
    ASSUME NEW s \in Seq(BatchEntries), NEW t \in Seq(BatchEntries), NEW f, NEW g,
           SumsOf(s, f), SumsOf(t, g), Len(s) <= Len(t), \A i \in 1..Len(s) : s[i] = t[i]
    PROVE  f[Len(s)] = g[Len(s)]
<1> DEFINE T == {n \in Nat : n <= Len(s) => f[n] = g[n]}
<1>1. Len(s) \in Nat /\ Len(t) \in Nat
  OBVIOUS
<1>2. 0 \in T
  BY <1>1 DEF SumsOf
<1>3. ASSUME NEW n \in T PROVE n + 1 \in T
  <2>1. SUFFICES ASSUME n + 1 <= Len(s) PROVE f[n + 1] = g[n + 1]
    OBVIOUS
  <2>2. n + 1 \in 0..Len(s) /\ n + 1 \in 0..Len(t) /\ n + 1 # 0 /\ (n + 1) - 1 = n /\ n <= Len(s)
    BY <1>1, <2>1
  <2>3. f[n + 1] = f[n] + Units(s[n + 1]) /\ g[n + 1] = g[n] + Units(t[n + 1])
    BY <2>2 DEF SumsOf
  <2> QED BY <2>2, <2>3
<1>4. T = Nat
  <2> HIDE DEF T
  <2> QED BY <1>2, <1>3, AllNaturals DEF T
<1> QED BY <1>1, <1>4

\* UnitsIn is that sum.
LEMMA UnitsInIsTheSum ==
    ASSUME NEW s \in Seq(BatchEntries)
    PROVE  \E f \in [0..Len(s) -> Nat] : SumsOf(s, f) /\ UnitsIn(s) = f[Len(s)]
<1> DEFINE u == CHOOSE f : f = [n \in 0..Len(s) |-> IF n = 0 THEN 0 ELSE f[n - 1] + Units(s[n])]
<1>1. PICK f \in [0..Len(s) -> Nat] : SumsOf(s, f)
  BY SumsExist
<1>2. SumsOf(s, u)
  <2>1. \E h : h = [n \in 0..Len(s) |-> IF n = 0 THEN 0 ELSE h[n - 1] + Units(s[n])]
    BY <1>1 DEF SumsOf
  <2>2. u = [n \in 0..Len(s) |-> IF n = 0 THEN 0 ELSE u[n - 1] + Units(s[n])]
    BY <2>1, Zenon
  <2> HIDE DEF u
  <2> QED BY <2>2 DEF SumsOf
<1>3. UnitsIn(s) = u[Len(s)]
  BY DEF UnitsIn
<1> HIDE DEF u
<1>4. u[Len(s)] = f[Len(s)]
  BY <1>1, <1>2, SumsAgree
<1> QED BY <1>1, <1>3, <1>4

\* What a batch carries grows by what is added to it.
LEMMA UnitsAddUp ==
    ASSUME NEW s \in Seq(BatchEntries), NEW e \in BatchEntries
    PROVE  UnitsIn(s) \in Nat /\ UnitsIn(Append(s, e)) = UnitsIn(s) + Units(e)
<1>1. PICK f \in [0..Len(s) -> Nat] : SumsOf(s, f) /\ UnitsIn(s) = f[Len(s)]
  BY UnitsInIsTheSum
<1> DEFINE t == Append(s, e)
<1>2. /\ t \in Seq(BatchEntries) /\ Len(t) = Len(s) + 1 /\ Len(s) \in Nat /\ t[Len(t)] = e
      /\ \A i \in 1..Len(s) : s[i] = t[i]
  OBVIOUS
<1> HIDE DEF t
<1>3. PICK g \in [0..Len(t) -> Nat] : SumsOf(t, g) /\ UnitsIn(t) = g[Len(t)]
  BY <1>2, UnitsInIsTheSum
<1>4. g[Len(t)] = g[Len(s)] + Units(e)
  BY <1>2, <1>3 DEF SumsOf
<1>5. f[Len(s)] = g[Len(s)]
  BY <1>1, <1>2, <1>3, SumsAgree
<1> QED BY <1>1, <1>2, <1>3, <1>4, <1>5 DEF t

LEMMA NothingAddsUpToNothing ==
    UnitsIn(<<>>) = 0
<1> DEFINE s == <<>>
<1>1. s \in Seq(BatchEntries) /\ Len(s) = 0
  OBVIOUS
<1> HIDE DEF s
<1>2. PICK f \in [0..Len(s) -> Nat] : SumsOf(s, f) /\ UnitsIn(s) = f[Len(s)]
  BY <1>1, UnitsInIsTheSum
<1>3. f[0] = 0
  BY <1>1, <1>2 DEF SumsOf
<1> QED BY <1>1, <1>2, <1>3 DEF s

-----------------------------------------------------------------------------
\* Draining takes lines from the front of the backlog, as many as fit.
LEMMA BacklogDrained ==
    ASSUME BatchTypeOK, BacklogInOrder, drainPendingLogs
    PROVE  /\ drained \in Seq(1..pushedLines) /\ Len(drained) \in Nat
           /\ Len(logs) + Len(drained) <= MAX_LOGS_PER_TRANSACTION
           /\ pendingLogs' \in Seq(1..pushedLines) /\ Len(pendingLogs') <= MAX_PENDING_LOGS
           /\ drainedUpTo' \in 0..pushedLines
           /\ BacklogInOrder'
<1> DEFINE d == drainable
           n == Len(pendingLogs)
           rest == SubSeq(pendingLogs, d + 1, n)
<1>1. /\ pendingLogs \in Seq(1..pushedLines) /\ n \in Nat /\ pushedLines \in Nat /\ Len(logs) \in Nat
      /\ Len(logs) <= MAX_LOGS_PER_TRANSACTION /\ n <= MAX_PENDING_LOGS
      /\ \A i \in 1..n : pendingLogs[i] \in 1..pushedLines
      /\ drainedUpTo \in 0..pushedLines
      /\ MAX_LOGS_PER_TRANSACTION \in Nat /\ MAX_PENDING_LOGS \in Nat
  BY MainBufferAssumption, SMTT(60) DEF BatchTypeOK
<1>2. d \in 0..n /\ Len(logs) + d <= MAX_LOGS_PER_TRANSACTION
  BY <1>1 DEF drainable
<1> HIDE DEF d
<1>3. drained = SubSeq(pendingLogs, 1, d) /\ drained \in Seq(1..pushedLines) /\ Len(drained) = d
  BY <1>1, <1>2 DEF drained, d
<1>4. /\ rest \in Seq(1..pushedLines) /\ Len(rest) = n - d
      /\ \A i \in 1..(n - d) : rest[i] = pendingLogs[d + i]
  BY <1>1, <1>2
<1>5. pendingLogs' = rest /\ drainedUpTo' = IF d = 0 THEN drainedUpTo ELSE pendingLogs[d]
  BY DEF drainPendingLogs, d
<1> HIDE DEF rest
<1>6. BacklogInOrder'
  <2>1. ASSUME NEW i \in 1..(n - d), NEW j \in 1..(n - d), i < j
        PROVE  rest[i] < rest[j]
    <3>1. d + i \in 1..n /\ d + j \in 1..n /\ d + i < d + j
      BY <1>1, <1>2, <2>1
    <3> QED BY <1>4, <3>1 DEF BacklogInOrder
  <2>2. ASSUME NEW i \in 1..(n - d)
        PROVE  rest[i] > drainedUpTo'
    <3>1. d + i \in 1..n /\ (d # 0 => d \in 1..n /\ d < d + i)
      BY <1>1, <1>2
    <3>2. d # 0 => pendingLogs[d] < pendingLogs[d + i]
      BY <3>1 DEF BacklogInOrder
    <3>3. pendingLogs[d + i] > drainedUpTo
      BY <3>1 DEF BacklogInOrder
    <3> QED BY <1>1, <1>4, <1>5, <3>1, <3>2, <3>3
  <2> QED BY <1>4, <1>5, <2>1, <2>2 DEF BacklogInOrder
<1>7. drainedUpTo' \in 0..pushedLines
  BY <1>1, <1>2, <1>5
<1> QED BY <1>1, <1>2, <1>3, <1>4, <1>5, <1>6, <1>7, SMTT(60)

-----------------------------------------------------------------------------
\* Appending to the sequence of one kind.
LEMMA AppendedToKind ==
    ASSUME NEW S, NEW f \in [Kinds -> Seq(S)], NEW kd \in Kinds, NEW e \in S, NEW g,
           g = [f EXCEPT ![kd] = Append(@, e)]
    PROVE  /\ g \in [Kinds -> Seq(S)]
           /\ \A k \in Kinds : Len(f[k]) \in Nat
           /\ Len(g[kd]) = Len(f[kd]) + 1 /\ g[kd][Len(f[kd]) + 1] = e
           /\ \A i \in 1..Len(f[kd]) : g[kd][i] = f[kd][i]
           /\ g[kd] = Append(f[kd], e)
           /\ \A k \in Kinds \ {kd} : g[k] = f[k]
<1>1. Append(f[kd], e) \in Seq(S)
  OBVIOUS
<1>2. g \in [Kinds -> Seq(S)] /\ g[kd] = Append(f[kd], e) /\ \A k \in Kinds \ {kd} : g[k] = f[k]
  BY <1>1
<1>3. \A k \in Kinds : Len(f[k]) \in Nat
  OBVIOUS
<1> DEFINE s == f[kd]
<1>4. s \in Seq(S)
  OBVIOUS
<1> HIDE DEF s
<1>5. /\ Len(Append(s, e)) = Len(s) + 1 /\ Append(s, e)[Len(s) + 1] = e
      /\ \A i \in 1..Len(s) : Append(s, e)[i] = s[i]
  BY <1>4
<1> QED BY <1>2, <1>3, <1>5 DEF s

\* What a batch of both kinds carries, likewise.
LEMMA EventsAddUp ==
    ASSUME NEW f \in [Kinds -> Seq(BatchEntries)], NEW ls, Len(ls) \in Nat
    PROVE  /\ EventsIn(f, ls) \in Nat
           /\ \A kd \in Kinds : \A e \in BatchEntries :
                  EventsIn([f EXCEPT ![kd] = Append(@, e)], ls) = EventsIn(f, ls) + Units(e)
           /\ \A more : Len(more) \in Nat =>
                  EventsIn(f, more) = EventsIn(f, ls) + Len(more) - Len(ls)
<1> DEFINE a == UnitsIn(f["request"])
           b == UnitsIn(f["job"])
<1>1. f["request"] \in Seq(BatchEntries) /\ f["job"] \in Seq(BatchEntries)
  BY DEF Kinds
<1>2. \A e \in BatchEntries : /\ UnitsIn(Append(f["request"], e)) = a + Units(e)
                              /\ UnitsIn(Append(f["job"], e)) = b + Units(e)
  BY <1>1, UnitsAddUp
<1>3. a \in Nat /\ b \in Nat
  <2>1. UnitsIn(f["request"]) \in Nat
    <3>1. PICK h \in [0..Len(f["request"]) -> Nat] : UnitsIn(f["request"]) = h[Len(f["request"])]
      BY <1>1, UnitsInIsTheSum
    <3> QED BY <1>1, <3>1
  <2>2. UnitsIn(f["job"]) \in Nat
    <3>1. PICK h \in [0..Len(f["job"]) -> Nat] : UnitsIn(f["job"]) = h[Len(f["job"])]
      BY <1>1, UnitsInIsTheSum
    <3> QED BY <1>1, <3>1
  <2> QED BY <2>1, <2>2
<1>4. \A more : EventsIn(f, more) = a + b + Len(more)
  BY DEF EventsIn
<1>5. ASSUME NEW kd \in Kinds, NEW e \in BatchEntries
      PROVE  EventsIn([f EXCEPT ![kd] = Append(@, e)], ls) = a + b + Len(ls) + Units(e)
  <2> DEFINE g == [f EXCEPT ![kd] = Append(@, e)]
  <2>1. EventsIn(g, ls) = UnitsIn(g["request"]) + UnitsIn(g["job"]) + Len(ls)
    BY DEF EventsIn
  <2>2. Units(e) \in Nat
    BY UnitsAreNumbers
  <2>3. CASE kd = "request"
    <3>1. g["request"] = Append(f["request"], e) /\ g["job"] = f["job"]
      BY <2>3 DEF Kinds
    <3>2. UnitsIn(g["request"]) = a + Units(e) /\ UnitsIn(g["job"]) = b
      BY <1>2, <3>1
    <3> HIDE DEF a, b
    <3>3. UnitsIn(g["request"]) + UnitsIn(g["job"]) + Len(ls) = a + b + Len(ls) + Units(e)
      BY <1>3, <2>2, <3>2
    <3> QED BY <2>1, <3>3
  <2>4. CASE kd = "job"
    <3>1. g["request"] = f["request"] /\ g["job"] = Append(f["job"], e)
      BY <2>4 DEF Kinds
    <3>2. UnitsIn(g["request"]) = a /\ UnitsIn(g["job"]) = b + Units(e)
      BY <1>2, <3>1
    <3> HIDE DEF a, b
    <3>3. UnitsIn(g["request"]) + UnitsIn(g["job"]) + Len(ls) = a + b + Len(ls) + Units(e)
      BY <1>3, <2>2, <3>2
    <3> QED BY <2>1, <3>3
  <2> QED BY <2>3, <2>4 DEF Kinds
<1>6. \A e \in BatchEntries : Units(e) \in Nat
  BY UnitsAreNumbers
<1> HIDE DEF a, b
<1>7. EventsIn(f, ls) = a + b + Len(ls) /\ EventsIn(f, ls) \in Nat
  BY <1>3, <1>4
<1>8. ASSUME NEW more, Len(more) \in Nat
      PROVE  EventsIn(f, more) = EventsIn(f, ls) + Len(more) - Len(ls)
  <2>1. EventsIn(f, more) = a + b + Len(more)
    BY <1>4
  <2> QED BY <1>3, <1>7, <1>8, <2>1
<1>9. ASSUME NEW kd \in Kinds, NEW e \in BatchEntries
      PROVE  EventsIn([f EXCEPT ![kd] = Append(@, e)], ls) = EventsIn(f, ls) + Units(e)
  BY <1>5, <1>7
<1> QED BY <1>7, <1>8, <1>9

\* Whether it is kept or withheld, one more execution of the kind is graded.
LEMMA OneMoreGraded ==
    ASSUME BatchInv, NEW kd \in Kinds,
           kept' \in [Kinds -> Seq(BatchEntries)], withheld' \in [Kinds -> 0..maxOperationsPerBatch],
           offered' = [offered EXCEPT ![kd] = @ + 1],
           \/ atCap(kd) /\ UNCHANGED <<kept, withheld>>
           \/ /\ ~atCap(kd)
              /\ \A k \in Kinds : Len(kept'[k]) + withheld'[k] =
                     IF k = kd THEN Len(kept[k]) + withheld[k] + 1 ELSE Len(kept[k]) + withheld[k]
    PROVE  GradedAlike' /\ offered' \in [Kinds -> Nat]
<1>1. /\ kept \in [Kinds -> Seq(BatchEntries)] /\ withheld \in [Kinds -> 0..maxOperationsPerBatch]
      /\ offered \in [Kinds -> Nat] /\ GradedAlike /\ maxOperationsPerBatch \in Nat
      /\ \A k \in Kinds : Len(kept[k]) \in Nat /\ withheld[k] \in Nat
      /\ \A k \in Kinds : Len(kept[k]) + withheld[k] <= maxOperationsPerBatch
  BY MainBufferAssumption DEF BatchInv, BatchIsAccounted, BatchTypeOK
<1>2. offered' \in [Kinds -> Nat] /\ \A k \in Kinds : offered'[k] = IF k = kd THEN offered[k] + 1
                                                                   ELSE offered[k]
  BY <1>1
<1>3. ASSUME NEW k \in Kinds
      PROVE  Len(kept'[k]) + withheld'[k] =
                 IF offered'[k] <= maxOperationsPerBatch THEN offered'[k] ELSE maxOperationsPerBatch
  BY <1>1, <1>2, SMTT(60) DEF GradedAlike, atCap
<1> QED BY <1>2, <1>3 DEF GradedAlike

-----------------------------------------------------------------------------
\* What was written stays accounted for: a step that writes nothing forgets it
\* or leaves it.
LEMMA WrittenBefore ==
    ASSUME BatchInv, writtenBatch' \in {NoBatch, writtenBatch}
    PROVE  WrittenAccounted' /\ PauseShipsServerErrors'
<1>1. CASE writtenBatch' = NoBatch
  <2>1. /\ writtenBatch'.kept = [k \in Kinds |-> <<>>] /\ writtenBatch'.logs = <<>>
        /\ writtenBatch'.truncatedSpans = 0 /\ writtenBatch'.metered = 0 /\ ~writtenBatch'.paused
    BY <1>1 DEF NoBatch
  <2>2. EventsIn([k \in Kinds |-> <<>>], <<>>) = 0
    BY NothingAddsUpToNothing DEF EventsIn, Kinds
  <2> QED BY <2>1, <2>2 DEF WrittenAccounted, PauseShipsServerErrors
<1>2. CASE writtenBatch' = writtenBatch
  BY <1>2 DEF BatchInv, BatchIsAccounted, EventsAccounted, WrittenAccounted, PauseShipsServerErrors
<1> QED BY <1>1, <1>2

\* One more execution kept, exported with it or not, still matches.
LEMMA MatchesGrow ==
    ASSUME NEW b \in Seq(BatchEntries), NEW x \in Seq(Exports), ExportMatches(b, x),
           NEW e \in BatchEntries
    PROVE  /\ ~e.capped => ExportMatches(Append(b, e), x)
           /\ e.capped => ExportMatches(Append(b, e),
                              Append(x, [ex |-> e.ex, tree |-> e.tree, at |-> Len(b) + 1]))
<1> DEFINE c == Append(b, e)
           r == [ex |-> e.ex, tree |-> e.tree, at |-> Len(b) + 1]
           y == Append(x, r)
<1>1. /\ Len(b) \in Nat /\ Len(x) \in Nat /\ Len(c) = Len(b) + 1 /\ c[Len(b) + 1] = e
      /\ \A i \in 1..Len(b) : c[i] = b[i]
  OBVIOUS
<1>2. r.ex = e.ex /\ r.tree = e.tree /\ r.at = Len(b) + 1 /\ r \in Exports
  BY <1>1 DEF Exports, BatchEntries
<1> HIDE DEF r
<1>3. Len(y) = Len(x) + 1 /\ y[Len(x) + 1] = r /\ \A j \in 1..Len(x) : y[j] = x[j]
  BY <1>2
<1> HIDE DEF c, y
<1>4. \A j \in 1..Len(x) : x[j].at \in 1..Len(b)
  BY DEF ExportMatches
<1>5. ASSUME ~e.capped PROVE ExportMatches(c, x)
  <2>1. ASSUME NEW i \in 1..Len(c) PROVE c[i].capped <=> \E j \in 1..Len(x) : x[j].at = i
    <3>1. CASE i \in 1..Len(b)
      BY <1>1, <3>1 DEF ExportMatches
    <3>2. CASE i = Len(b) + 1
      BY <1>1, <1>4, <1>5, <3>2
    <3> QED BY <1>1, <3>1, <3>2
  <2>2. ASSUME NEW j \in 1..Len(x)
        PROVE  x[j].at \in 1..Len(c) /\ x[j].ex = c[x[j].at].ex /\ x[j].tree = c[x[j].at].tree
    <3>1. x[j].at \in 1..Len(b) /\ x[j].ex = b[x[j].at].ex /\ x[j].tree = b[x[j].at].tree
      BY DEF ExportMatches
    <3> QED BY <1>1, <3>1
  <2>3. \A i, j \in 1..Len(x) : i < j => x[i].at < x[j].at
    BY DEF ExportMatches
  <2> QED BY <2>1, <2>2, <2>3 DEF ExportMatches
<1>6. ASSUME e.capped PROVE ExportMatches(c, y)
  <2>1. ASSUME NEW i \in 1..Len(c) PROVE c[i].capped <=> \E j \in 1..Len(y) : y[j].at = i
    <3>1. CASE i \in 1..Len(b)
      <4>1. c[i].capped <=> \E j \in 1..Len(x) : x[j].at = i
        BY <1>1, <3>1 DEF ExportMatches
      <4>2. (\E j \in 1..Len(x) : x[j].at = i) => \E j \in 1..Len(y) : y[j].at = i
        BY <1>1, <1>3
      <4>3. ASSUME NEW j \in 1..Len(y), y[j].at = i PROVE \E l \in 1..Len(x) : x[l].at = i
        <5>1. j # Len(x) + 1
          BY <1>1, <1>2, <1>3, <3>1, <4>3
        <5>2. j \in 1..Len(x) /\ y[j] = x[j]
          BY <1>1, <1>3, <5>1
        <5> QED BY <4>3, <5>2
      <4> QED BY <4>1, <4>2, <4>3
    <3>2. CASE i = Len(b) + 1
      <4>1. Len(x) + 1 \in 1..Len(y) /\ y[Len(x) + 1].at = i
        BY <1>1, <1>2, <1>3, <3>2
      <4> QED BY <1>1, <1>6, <3>2, <4>1
    <3> QED BY <1>1, <3>1, <3>2
  <2>2. ASSUME NEW j \in 1..Len(y)
        PROVE  y[j].at \in 1..Len(c) /\ y[j].ex = c[y[j].at].ex /\ y[j].tree = c[y[j].at].tree
    <3>1. CASE j \in 1..Len(x)
      <4>1. x[j].at \in 1..Len(b) /\ x[j].ex = b[x[j].at].ex /\ x[j].tree = b[x[j].at].tree
        BY <3>1 DEF ExportMatches
      <4>2. y[j] = x[j]
        BY <1>3, <3>1
      <4> QED BY <1>1, <4>1, <4>2
    <3>2. CASE j = Len(x) + 1
      BY <1>1, <1>2, <1>3, <3>2
    <3> QED BY <1>1, <1>3, <3>1, <3>2
  <2>3. ASSUME NEW i \in 1..Len(y), NEW j \in 1..Len(y), i < j PROVE y[i].at < y[j].at
    <3>1. i \in 1..Len(x) /\ y[i] = x[i]
      BY <1>1, <1>3, <2>3
    <3>2. CASE j \in 1..Len(x)
      <4>1. x[i].at < x[j].at
        BY <2>3, <3>1, <3>2 DEF ExportMatches
      <4> QED BY <1>3, <3>1, <3>2, <4>1
    <3>3. CASE j = Len(x) + 1
      BY <1>1, <1>2, <1>3, <1>4, <3>1, <3>3
    <3> QED BY <1>1, <1>3, <3>2, <3>3
  <2> QED BY <2>1, <2>2, <2>3 DEF ExportMatches
<1> QED BY <1>5, <1>6 DEF c, y, r

-----------------------------------------------------------------------------
\* A request or a job completes: past the cap, kept or withheld
\* (insertRequestSnapshot, insertJobSnapshot).
LEMMA SnapshotStep ==
    ASSUME BatchInv, insertSnapshot
    PROVE  BatchInv'
<1>1. PICK ex \in Executions :
        LET sends == ~errorsOnlyNow \/ isServerErrorSnapshot(ex) IN
        /\ offered' = [offered EXCEPT ![ex.kind] = @ + 1]
        /\ alwaysPaused' = (alwaysPaused /\ errorsOnlyNow)
        /\ \/ /\ atCap(ex.kind)
              /\ UNCHANGED <<kept, withheld, truncatedSpans, exportedNow, metered>>
           \/ /\ ~atCap(ex.kind)
              /\ metered' = metered + Itself(ex) + ex.nodes
              /\ truncatedSpans' = truncatedSpans + countWithheld(ex, sends)
              /\ IF sends
                 THEN /\ kept' = [kept EXCEPT ![ex.kind] = Append(@,
                                    [ex |-> ex, tree |-> keepsTree(ex),
                                     capped |-> grant = "capped"])]
                      /\ exportedNow' =
                             IF grant = "capped"
                             THEN [exportedNow EXCEPT ![ex.kind] = Append(@, cappedExport(ex))]
                             ELSE exportedNow
                      /\ UNCHANGED withheld
                 ELSE /\ withheld' = [withheld EXCEPT ![ex.kind] = @ + 1]
                      /\ UNCHANGED <<kept, exportedNow>>
  BY DEF insertSnapshot
<1> DEFINE kd == ex.kind
           sends == ~errorsOnlyNow \/ isServerErrorSnapshot(ex)
           e == [ex |-> ex, tree |-> keepsTree(ex), capped |-> grant = "capped"]
<1>2. kd \in Kinds /\ Itself(ex) \in Nat /\ ex.nodes \in Nat /\ maxOperationsPerBatch \in Nat
  BY UnitsAreNumbers, MainBufferAssumption
<1>3. /\ kept \in [Kinds -> Seq(BatchEntries)] /\ withheld \in [Kinds -> 0..maxOperationsPerBatch]
      /\ \A k \in Kinds : Len(kept[k]) \in Nat /\ withheld[k] \in Nat
      /\ \A k \in Kinds : Len(kept[k]) + withheld[k] <= maxOperationsPerBatch
  BY <1>2 DEF BatchInv, BatchIsAccounted, BatchTypeOK
<1>3a. /\ metered \in Nat /\ truncatedSpans \in Nat /\ Len(logs) \in Nat
       /\ metered = EventsIn(kept, logs) + truncatedSpans
  BY DEF BatchInv, BatchIsAccounted, BatchTypeOK, EventsAccounted
<1>3b. /\ exportedNow \in [Kinds -> Seq(Exports)]
       /\ \A k \in Kinds : ExportMatches(kept[k], exportedNow[k])
  BY DEF BatchInv, BatchIsAccounted, BatchTypeOK, CappedExportIsWhatIsKept, ExportMatches, Exports
<1>4. /\ UNCHANGED <<verdictVars, logs, pendingLogs, pushedLines, drainedUpTo>>
      /\ batchOpen' = TRUE /\ writtenBatch' = NoBatch /\ completions' \in 0..MaxExecutions
  BY MainBufferAssumption DEF insertSnapshot, BatchInv, BatchIsAccounted, BatchTypeOK
<1>5. WrittenAccounted' /\ PauseShipsServerErrors'
  BY <1>4, WrittenBefore
<1>6. EventsIn(kept, logs) \in Nat
  BY <1>3, <1>3a, EventsAddUp
<1>7. SUFFICES /\ kept' \in [Kinds -> Seq(BatchEntries)]
               /\ withheld' \in [Kinds -> 0..maxOperationsPerBatch]
               /\ \A k \in Kinds : Len(kept'[k]) + withheld'[k] <= maxOperationsPerBatch
               /\ truncatedSpans' \in Nat /\ metered' \in Nat /\ offered' \in [Kinds -> Nat]
               /\ exportedNow' \in [Kinds -> Seq(Exports)]
               /\ BuiltAccounted' /\ GradedAlike' /\ PausedSoFar'
               /\ \A k \in Kinds : ExportMatches(kept'[k], exportedNow'[k])
  <2>1. /\ sendsNothing' \in BOOLEAN /\ batchOpen' \in BOOLEAN /\ alwaysPaused' \in BOOLEAN
        /\ ingestMode' \in {"full", "reduced", "errors-only"} /\ grant' \in {"off", "capped", "full"}
    BY <1>1, <1>4 DEF BatchInv, BatchIsAccounted, BatchTypeOK, verdictVars
  <2>2. /\ logs' \in Seq(1..pushedLines') /\ Len(logs') <= MAX_LOGS_PER_TRANSACTION
        /\ pendingLogs' \in Seq(1..pushedLines') /\ Len(pendingLogs') <= MAX_PENDING_LOGS
        /\ pushedLines' \in 0..MaxLines /\ drainedUpTo' \in 0..pushedLines'
    BY <1>4 DEF BatchInv, BatchIsAccounted, BatchTypeOK
  <2>3. BacklogInOrder'
    BY <1>4 DEF BatchInv, BatchIsAccounted, BacklogInOrder
  <2>4. BatchTypeOK'
    BY <1>4, <1>7, <2>1, <2>2 DEF BatchTypeOK, Exports
  <2>5. EventsAccounted' /\ CappedExportIsWhatIsKept'
    BY <1>5, <1>7 DEF EventsAccounted, BuiltAccounted, WrittenAccounted, CappedExportIsWhatIsKept,
                      ExportMatches
  <2> QED BY <1>5, <1>7, <2>3, <2>4, <2>5 DEF BatchInv, BatchIsAccounted
<1> HIDE DEF kd
<1>8. CASE atCap(kd) /\ UNCHANGED <<kept, withheld, truncatedSpans, exportedNow, metered>>
  <2>1. BuiltAccounted'
    BY <1>3a, <1>4, <1>8 DEF BuiltAccounted
  <2>2. PausedSoFar'
    BY <1>1, <1>8 DEF PausedSoFar, BatchInv, ServerErrorOnly
  <2>3. GradedAlike' /\ offered' \in [Kinds -> Nat]
    BY <1>1, <1>2, <1>3, <1>8, OneMoreGraded DEF kd
  <2> QED BY <1>3, <1>3a, <1>3b, <1>8, <2>1, <2>2, <2>3
<1>9. CASE /\ ~atCap(kd) /\ sends
           /\ metered' = metered + Itself(ex) + ex.nodes
           /\ truncatedSpans' = truncatedSpans + countWithheld(ex, TRUE)
           /\ kept' = [kept EXCEPT ![kd] = Append(@, e)]
           /\ exportedNow' = IF grant = "capped"
                             THEN [exportedNow EXCEPT ![kd] = Append(@, cappedExport(ex))]
                             ELSE exportedNow
           /\ withheld' = withheld
  <2>1. e \in BatchEntries /\ e.ex = ex /\ e.tree = keepsTree(ex) /\ e.capped = (grant = "capped")
    BY DEF BatchEntries, keepsTree
  <2> HIDE DEF e
  <2>2. /\ kept' \in [Kinds -> Seq(BatchEntries)]
        /\ Len(kept'[kd]) = Len(kept[kd]) + 1 /\ kept'[kd][Len(kept[kd]) + 1] = e
        /\ \A i \in 1..Len(kept[kd]) : kept'[kd][i] = kept[kd][i]
        /\ kept'[kd] = Append(kept[kd], e)
        /\ \A k \in Kinds \ {kd} : kept'[k] = kept[k]
    BY <1>2, <1>3, <1>9, <2>1, AppendedToKind
  <2>3. \A k \in Kinds : Len(kept'[k]) + withheld'[k] =
                     IF k = kd THEN Len(kept[k]) + withheld[k] + 1 ELSE Len(kept[k]) + withheld[k]
    <3>1. Len(kept'[kd]) + withheld'[kd] = Len(kept[kd]) + withheld[kd] + 1
      BY <1>2, <1>3, <1>9, <2>2
    <3> QED BY <1>9, <2>2, <3>1
  <2>4. ~(Len(kept[kd]) + withheld[kd] >= maxOperationsPerBatch)
    BY <1>9 DEF atCap
  <2>5. \A k \in Kinds : Len(kept'[k]) + withheld'[k] <= maxOperationsPerBatch
    <3>1. Len(kept[kd]) + withheld[kd] + 1 <= maxOperationsPerBatch
      BY <1>2, <1>3, <2>4
    <3> QED BY <1>3, <2>3, <3>1
  <2>6. GradedAlike' /\ offered' \in [Kinds -> Nat]
    BY <1>1, <1>2, <1>3, <1>9, <2>2, <2>3, OneMoreGraded DEF kd
  <2>7. metered' \in Nat /\ truncatedSpans' \in Nat /\ BuiltAccounted'
    <3> DEFINE c == countWithheld(ex, TRUE)
    <3>1. c \in Nat /\ Units(e) \in Nat /\ Units(e) + c = Itself(ex) + ex.nodes
      BY <1>2, <2>1 DEF countWithheld, Units
    <3>2. EventsIn(kept', logs') = EventsIn(kept, logs) + Units(e)
      BY <1>2, <1>3, <1>3a, <1>4, <1>9, <2>1, EventsAddUp
    <3>3. truncatedSpans' = truncatedSpans + c
      BY <1>9
    <3> HIDE DEF c
    <3>4. metered' = metered + Itself(ex) + ex.nodes
      BY <1>9
    <3>5. metered' = (EventsIn(kept, logs) + Units(e)) + (truncatedSpans + c)
      <4> DEFINE ev == EventsIn(kept, logs)
                 u == Units(e)
                 i == Itself(ex)
                 n == ex.nodes
      <4>1. /\ metered = ev + truncatedSpans /\ metered' = metered + i + n /\ u + c = i + n
            /\ ev \in Nat /\ u \in Nat /\ i \in Nat /\ n \in Nat /\ c \in Nat
            /\ metered \in Nat /\ truncatedSpans \in Nat
        BY <1>2, <1>3a, <1>6, <3>1, <3>4
      <4> HIDE DEF ev, u, i, n
      <4>2. metered' = (ev + u) + (truncatedSpans + c)
        BY <4>1
      <4> QED BY <4>2 DEF ev, u
    <3>6. metered' \in Nat /\ truncatedSpans' \in Nat
      BY <1>2, <1>3a, <3>1, <3>3, <3>4, SMTT(60)
    <3> QED BY <3>2, <3>3, <3>5, <3>6 DEF BuiltAccounted
  <2>8. PausedSoFar'
    <3>1. SUFFICES ASSUME alwaysPaused', NEW k \in Kinds, NEW i \in 1..Len(kept'[k])
                   PROVE  ServerErrorOnly(kept'[k][i])
      BY DEF PausedSoFar, ServerErrorOnly
    <3>2. alwaysPaused /\ errorsOnlyNow
      BY <1>1, <3>1
    <3>3. ServerErrorOnly(e)
      BY <1>9, <2>1, <3>2 DEF ServerErrorOnly, keepsTree, degradedNow, errorsOnlyNow
    <3>4. \A l \in Kinds : \A j \in 1..Len(kept[l]) : ServerErrorOnly(kept[l][j])
      BY <3>2 DEF BatchInv, PausedSoFar
    <3>5. CASE k = kd
      <4>1. i \in 1..Len(kept[kd]) \/ i = Len(kept[kd]) + 1
        BY <1>2, <1>3, <2>2, <3>5
      <4> QED BY <1>2, <2>2, <3>3, <3>4, <3>5, <4>1
    <3>6. CASE k # kd
      BY <2>2, <3>4, <3>6
    <3> QED BY <3>5, <3>6
  <2>9. /\ exportedNow' \in [Kinds -> Seq(Exports)]
        /\ \A k \in Kinds : ExportMatches(kept'[k], exportedNow'[k])
    <3> DEFINE r == [ex |-> e.ex, tree |-> e.tree, at |-> Len(kept[kd]) + 1]
    <3>1. r = cappedExport(ex) /\ r \in Exports
      BY <1>2, <1>3, <2>1 DEF cappedExport, Exports, BatchEntries, kd
    <3>2. /\ kept[kd] \in Seq(BatchEntries) /\ exportedNow[kd] \in Seq(Exports)
          /\ ExportMatches(kept[kd], exportedNow[kd])
      BY <1>2, <1>3, <1>3b
    <3>3. /\ ~e.capped => ExportMatches(kept'[kd], exportedNow[kd])
          /\ e.capped => ExportMatches(kept'[kd], Append(exportedNow[kd], r))
      BY <2>1, <2>2, <3>2, MatchesGrow, ZenonT(60)
    <3> HIDE DEF r
    <3>4. CASE grant = "capped"
      <4>1. exportedNow' = [exportedNow EXCEPT ![kd] = Append(@, r)]
        BY <1>9, <3>1, <3>4
      <4>2. /\ exportedNow' \in [Kinds -> Seq(Exports)]
            /\ exportedNow'[kd] = Append(exportedNow[kd], r)
            /\ \A k \in Kinds \ {kd} : exportedNow'[k] = exportedNow[k]
        BY <1>2, <1>3b, <3>1, <4>1, AppendedToKind
      <4> QED BY <1>3b, <2>1, <2>2, <3>3, <3>4, <4>2
    <3>5. CASE grant # "capped"
      <4>1. exportedNow' = exportedNow
        BY <1>9, <3>5
      <4> QED BY <1>3b, <2>1, <2>2, <3>3, <3>5, <4>1
    <3> QED BY <3>4, <3>5
  <2> QED BY <1>3, <1>9, <2>2, <2>5, <2>6, <2>7, <2>8, <2>9
<1>10. CASE /\ ~atCap(kd) /\ ~sends
            /\ metered' = metered + Itself(ex) + ex.nodes
            /\ truncatedSpans' = truncatedSpans + countWithheld(ex, FALSE)
            /\ withheld' = [withheld EXCEPT ![kd] = @ + 1]
            /\ UNCHANGED <<kept, exportedNow>>
  <2>1. ~(Len(kept[kd]) + withheld[kd] >= maxOperationsPerBatch)
    BY <1>10 DEF atCap
  <2>2. withheld[kd] + 1 \in 0..maxOperationsPerBatch
    BY <1>2, <1>3, <2>1
  <2>3. /\ withheld' \in [Kinds -> 0..maxOperationsPerBatch] /\ withheld'[kd] = withheld[kd] + 1
        /\ \A k \in Kinds \ {kd} : withheld'[k] = withheld[k]
    BY <1>2, <1>3, <1>10, <2>2
  <2>4. \A k \in Kinds : Len(kept'[k]) + withheld'[k] =
                     IF k = kd THEN Len(kept[k]) + withheld[k] + 1 ELSE Len(kept[k]) + withheld[k]
    BY <1>2, <1>3, <1>10, <2>3
  <2>5. \A k \in Kinds : Len(kept'[k]) + withheld'[k] <= maxOperationsPerBatch
    <3>1. Len(kept[kd]) + withheld[kd] + 1 <= maxOperationsPerBatch
      BY <1>2, <1>3, <2>1
    <3> QED BY <1>3, <2>4, <3>1
  <2>6. GradedAlike' /\ offered' \in [Kinds -> Nat]
    BY <1>1, <1>2, <1>3, <1>10, <2>3, <2>4, OneMoreGraded DEF kd
  <2>7. countWithheld(ex, FALSE) = Itself(ex) + ex.nodes
    BY <1>2, <1>10 DEF countWithheld, keepsTree, degradedNow, errorsOnlyNow
  <2>8. /\ metered' = metered + Itself(ex) + ex.nodes
        /\ truncatedSpans' = truncatedSpans + (Itself(ex) + ex.nodes)
    BY <1>10, <2>7
  <2>9. EventsIn(kept', logs') = EventsIn(kept, logs)
    BY <1>4, <1>10
  <2>10. metered' \in Nat /\ truncatedSpans' \in Nat /\ BuiltAccounted'
    <3> DEFINE ev == EventsIn(kept, logs)
               i == Itself(ex)
               n == ex.nodes
    <3>1. /\ metered = ev + truncatedSpans /\ metered' = metered + i + n
          /\ truncatedSpans' = truncatedSpans + (i + n)
          /\ ev \in Nat /\ i \in Nat /\ n \in Nat /\ metered \in Nat /\ truncatedSpans \in Nat
      BY <1>2, <1>3a, <1>6, <2>8
    <3> HIDE DEF ev, i, n
    <3>2. metered' \in Nat /\ truncatedSpans' \in Nat /\ metered' = ev + truncatedSpans'
      BY <3>1
    <3> QED BY <2>9, <3>2 DEF BuiltAccounted, ev
  <2>11. PausedSoFar'
    BY <1>1, <1>10 DEF PausedSoFar, BatchInv, ServerErrorOnly
  <2> QED BY <1>3, <1>3b, <1>10, <2>3, <2>5, <2>6, <2>10, <2>11
<1> QED BY <1>1, <1>8, <1>9, <1>10 DEF kd

-----------------------------------------------------------------------------
LEMMA SequencesGrow ==
    ASSUME NEW T, NEW S, T \subseteq S
    PROVE  \A q \in Seq(T) : q \in Seq(S)
<1> TAKE q \in Seq(T)
<1>1. q \in [1..Len(q) -> T] /\ Len(q) \in Nat
  OBVIOUS
<1>2. q \in [1..Len(q) -> S]
  BY <1>1
<1> QED BY <1>1, <1>2, SeqDef

\* A line goes into the batch, the backlog or nowhere (pushLogs).
LEMMA PushLogsStep ==
    ASSUME BatchInv, pushLogs
    PROVE  BatchInv'
<1>1. /\ pushedLines \in Nat /\ pushedLines' = pushedLines + 1 /\ pushedLines' \in 0..MaxLines
      /\ MAX_LOGS_PER_TRANSACTION \in Nat /\ MAX_PENDING_LOGS \in Nat
      /\ logs \in Seq(1..pushedLines) /\ Len(logs) <= MAX_LOGS_PER_TRANSACTION
      /\ pendingLogs \in Seq(1..pushedLines) /\ Len(pendingLogs) <= MAX_PENDING_LOGS
      /\ drainedUpTo \in 0..pushedLines
  BY MainBufferAssumption DEF pushLogs, BatchInv, BatchIsAccounted, BatchTypeOK
<1>2. /\ UNCHANGED <<verdictVars, kept, withheld, truncatedSpans, completions, offered,
                     exportedNow, drainedUpTo>>
      /\ batchOpen' = TRUE /\ writtenBatch' = NoBatch
      /\ alwaysPaused' = (alwaysPaused /\ errorsOnlyNow)
  BY DEF pushLogs
<1>3. WrittenAccounted' /\ PauseShipsServerErrors'
  BY <1>2, WrittenBefore
<1>4. GradedAlike' /\ CappedExportIsWhatIsKept' /\ PausedSoFar'
  <2>1. GradedAlike'
    BY <1>2 DEF BatchInv, BatchIsAccounted, GradedAlike
  <2>2. CappedExportIsWhatIsKept'
    BY <1>2 DEF BatchInv, BatchIsAccounted, CappedExportIsWhatIsKept
  <2>3. PausedSoFar'
    BY <1>2 DEF BatchInv, PausedSoFar, ServerErrorOnly
  <2> QED BY <2>1, <2>2, <2>3
<1> DEFINE S == 1..pushedLines'
<1>5. /\ logs \in Seq(S) /\ pendingLogs \in Seq(S) /\ pushedLines' \in S
      /\ drainedUpTo' \in 0..pushedLines' /\ Len(logs) \in Nat /\ Len(pendingLogs) \in Nat
  <2>1. 1..pushedLines \subseteq S /\ pushedLines' \in S
    BY <1>1
  <2>2. drainedUpTo' \in 0..pushedLines'
    BY <1>1, <1>2
  <2>3. \A q \in Seq(1..pushedLines) : q \in Seq(S)
    <3> HIDE DEF S
    <3> QED BY <2>1, SequencesGrow
  <2> QED BY <1>1, <2>1, <2>2, <2>3
<1>6. /\ metered \in Nat /\ truncatedSpans \in Nat /\ EventsIn(kept, logs) \in Nat
      /\ metered = EventsIn(kept, logs) + truncatedSpans
      /\ \A more : Len(more) \in Nat =>
             EventsIn(kept, more) = EventsIn(kept, logs) + Len(more) - Len(logs)
  <2>1. /\ metered \in Nat /\ truncatedSpans \in Nat /\ kept \in [Kinds -> Seq(BatchEntries)]
        /\ metered = EventsIn(kept, logs) + truncatedSpans
    BY DEF BatchInv, BatchIsAccounted, BatchTypeOK, EventsAccounted
  <2> QED BY <1>5, <2>1, EventsAddUp
<1>7. SUFFICES /\ logs' \in Seq(S) /\ Len(logs') <= MAX_LOGS_PER_TRANSACTION
               /\ pendingLogs' \in Seq(S) /\ Len(pendingLogs') <= MAX_PENDING_LOGS
               /\ metered' \in Nat /\ BuiltAccounted' /\ BacklogInOrder'
  <2>1. alwaysPaused' \in BOOLEAN /\ batchOpen' \in BOOLEAN
    BY <1>2
  <2>2. BatchTypeOK'
    BY <1>1, <1>2, <1>5, <1>7, <2>1 DEF BatchInv, BatchIsAccounted, BatchTypeOK, verdictVars
  <2>3. EventsAccounted'
    BY <1>3, <1>7 DEF EventsAccounted, BuiltAccounted, WrittenAccounted
  <2> QED BY <1>3, <1>4, <1>7, <2>2, <2>3 DEF BatchInv, BatchIsAccounted
<1> HIDE DEF S
<1>8. CASE Len(logs) < MAX_LOGS_PER_TRANSACTION
  <2>1. logs' = Append(logs, pushedLines') /\ metered' = metered + 1 /\ pendingLogs' = pendingLogs
    BY <1>8 DEF pushLogs
  <2>2. logs' \in Seq(S) /\ Len(logs') = Len(logs) + 1
    BY <1>5, <2>1
  <2>3. BacklogInOrder'
    BY <1>2, <2>1 DEF BatchInv, BatchIsAccounted, BacklogInOrder
  <2>4. EventsIn(kept, logs') = EventsIn(kept, logs) + 1
    <3>1. Len(logs') \in Nat
      BY <1>5, <2>2
    <3>2. EventsIn(kept, logs') = EventsIn(kept, logs) + Len(logs') - Len(logs)
      BY <1>6, <3>1
    <3> QED BY <1>5, <1>6, <2>2, <3>2
  <2>5. metered' \in Nat /\ BuiltAccounted'
    <3> DEFINE ev == EventsIn(kept, logs)
    <3>1. ev \in Nat /\ metered = ev + truncatedSpans /\ truncatedSpans \in Nat
      BY <1>6
    <3> HIDE DEF ev
    <3>2. metered' \in Nat /\ metered' = (ev + 1) + truncatedSpans
      BY <2>1, <3>1
    <3> QED BY <1>2, <2>4, <3>2 DEF BuiltAccounted, ev
  <2> QED BY <1>1, <1>5, <1>8, <2>1, <2>2, <2>3, <2>5
<1>9. CASE ~(Len(logs) < MAX_LOGS_PER_TRANSACTION)
  <2>1. /\ logs' = logs /\ metered' = metered
        /\ pendingLogs' = IF Len(pendingLogs) < MAX_PENDING_LOGS
                          THEN Append(pendingLogs, pushedLines') ELSE pendingLogs
    BY <1>9 DEF pushLogs
  <2>2. BuiltAccounted'
    BY <1>2, <1>6, <2>1 DEF BuiltAccounted
  <2>3. CASE Len(pendingLogs) < MAX_PENDING_LOGS
    <3> DEFINE q == Append(pendingLogs, pushedLines')
    <3>1. /\ pendingLogs' = q /\ q \in Seq(S) /\ Len(q) = Len(pendingLogs) + 1
          /\ q[Len(pendingLogs) + 1] = pushedLines'
          /\ \A i \in 1..Len(pendingLogs) : q[i] = pendingLogs[i]
      BY <1>5, <2>1, <2>3
    <3> HIDE DEF q
    <3>2. /\ \A i \in 1..Len(pendingLogs) : pendingLogs[i] \in 1..pushedLines
          /\ \A i, j \in 1..Len(pendingLogs) : i < j => pendingLogs[i] < pendingLogs[j]
          /\ \A i \in 1..Len(pendingLogs) : pendingLogs[i] > drainedUpTo
      BY <1>1 DEF BatchInv, BatchIsAccounted, BacklogInOrder
    <3>3. ASSUME NEW i \in 1..Len(q) PROVE q[i] > drainedUpTo
      <4>1. CASE i \in 1..Len(pendingLogs)
        BY <3>1, <3>2, <4>1
      <4>2. CASE i = Len(pendingLogs) + 1
        BY <1>1, <3>1, <4>2
      <4> QED BY <1>5, <3>1, <4>1, <4>2
    <3>4. ASSUME NEW i \in 1..Len(q), NEW j \in 1..Len(q), i < j PROVE q[i] < q[j]
      <4>1. i \in 1..Len(pendingLogs) /\ q[i] = pendingLogs[i] /\ q[i] \in 1..pushedLines
        BY <1>5, <3>1, <3>2, <3>4
      <4>2. CASE j \in 1..Len(pendingLogs)
        BY <3>1, <3>2, <3>4, <4>1, <4>2
      <4>3. CASE j = Len(pendingLogs) + 1
        BY <1>1, <3>1, <4>1, <4>3
      <4> QED BY <1>5, <3>1, <4>2, <4>3
    <3>5. BacklogInOrder'
      BY <1>2, <3>1, <3>3, <3>4 DEF BacklogInOrder
    <3>6. Len(pendingLogs') <= MAX_PENDING_LOGS
      BY <1>1, <1>5, <2>3, <3>1
    <3> QED BY <1>1, <1>5, <1>6, <2>1, <2>2, <3>1, <3>5, <3>6
  <2>4. CASE ~(Len(pendingLogs) < MAX_PENDING_LOGS)
    <3>1. pendingLogs' = pendingLogs
      BY <2>1, <2>4
    <3>2. BacklogInOrder'
      BY <1>2, <3>1 DEF BatchInv, BatchIsAccounted, BacklogInOrder
    <3> QED BY <1>1, <1>5, <1>6, <2>1, <2>2, <3>1, <3>2
  <2> QED BY <2>3, <2>4
<1> QED BY <1>8, <1>9

\* A verdict, a grant or the end of either leaves the batch alone, and so does a
\* request with no operation to file it under (setIngestMode,
\* insertRequestSnapshot).
LEMMA BatchLeftAlone ==
    ASSUME BatchInv, setIngestMode \/ insertUnnamedSnapshot
    PROVE  BatchInv'
<1>1. /\ UNCHANGED <<sendsNothing, batchVars, pendingLogs, pushedLines, batchHistory, drainedUpTo>>
      /\ writtenBatch' = NoBatch
      /\ ingestMode' \in {"full", "reduced", "errors-only"} /\ grant' \in {"off", "capped", "full"}
      /\ completions' \in 0..MaxExecutions
  BY MainBufferAssumption DEF setIngestMode, insertUnnamedSnapshot, verdictVars, BatchInv,
                              BatchIsAccounted, BatchTypeOK
<1>2. BatchTypeOK'
  BY <1>1 DEF BatchInv, BatchIsAccounted, BatchTypeOK, batchVars, batchHistory
<1>3. EventsAccounted' /\ PauseShipsServerErrors'
  <2>1. WrittenAccounted' /\ PauseShipsServerErrors'
    BY <1>1, WrittenBefore
  <2> QED BY <1>1, <2>1 DEF BatchInv, BatchIsAccounted, EventsAccounted, WrittenAccounted,
                            batchVars, batchHistory
<1>4. GradedAlike'
  BY <1>1 DEF BatchInv, BatchIsAccounted, GradedAlike, batchVars, batchHistory
<1>5. CappedExportIsWhatIsKept'
  BY <1>1 DEF BatchInv, BatchIsAccounted, CappedExportIsWhatIsKept, batchVars, batchHistory
<1>6. BacklogInOrder'
  BY <1>1 DEF BatchInv, BatchIsAccounted, BacklogInOrder
<1>7. PausedSoFar'
  BY <1>1 DEF BatchInv, PausedSoFar, ServerErrorOnly, batchVars, batchHistory
<1> QED BY <1>2, <1>3, <1>4, <1>5, <1>6, <1>7 DEF BatchInv, BatchIsAccounted

-----------------------------------------------------------------------------
\* A flush that reset the batch has left a new one, with all of it to come.
LEMMA AfterReset ==
    ASSUME BatchInv, drainPendingLogs, resetMainThreadBuffer,
           UNCHANGED <<verdictVars, completions, pushedLines>>,
           WrittenAccounted', PauseShipsServerErrors'
    PROVE  BatchInv'
<1>1. /\ pendingLogs' \in Seq(1..pushedLines) /\ Len(pendingLogs') <= MAX_PENDING_LOGS
      /\ drainedUpTo' \in 0..pushedLines /\ BacklogInOrder'
  BY BacklogDrained DEF BatchInv, BatchIsAccounted
<1>2. /\ batchOpen' = FALSE /\ alwaysPaused' = TRUE /\ kept' = [k \in Kinds |-> <<>>]
      /\ truncatedSpans' = 0 /\ metered' = 0 /\ logs' = <<>> /\ withheld' = [k \in Kinds |-> 0]
      /\ offered' = [k \in Kinds |-> 0] /\ exportedNow' = [k \in Kinds |-> <<>>]
  BY DEF resetMainThreadBuffer
<1>3. /\ kept' \in [Kinds -> Seq(BatchEntries)]
      /\ exportedNow' \in [Kinds -> Seq([ex : Executions, tree : BOOLEAN, at : Nat])]
      /\ withheld' \in [Kinds -> 0..maxOperationsPerBatch] /\ offered' \in [Kinds -> Nat]
      /\ logs' \in Seq(1..pushedLines) /\ Len(logs') <= MAX_LOGS_PER_TRANSACTION
      /\ \A k \in Kinds : /\ Len(kept'[k]) = 0 /\ Len(exportedNow'[k]) = 0
                          /\ withheld'[k] = 0 /\ offered'[k] = 0
  BY <1>2, MainBufferAssumption
<1>4. BatchTypeOK'
  <2>1. \A k \in Kinds : Len(kept'[k]) + withheld'[k] <= maxOperationsPerBatch
    BY <1>3, MainBufferAssumption
  <2>2. truncatedSpans' \in Nat /\ metered' \in Nat /\ batchOpen' \in BOOLEAN
        /\ alwaysPaused' \in BOOLEAN
    BY <1>2
  <2> QED BY <1>1, <1>3, <2>1, <2>2
          DEF BatchInv, BatchIsAccounted, BatchTypeOK, verdictVars
<1>5. EventsAccounted'
  <2>1. EventsIn(kept', logs') = 0
    BY <1>2, NothingAddsUpToNothing DEF EventsIn, Kinds
  <2> QED BY <1>2, <2>1 DEF EventsAccounted, WrittenAccounted
<1>6. GradedAlike'
  BY <1>3, MainBufferAssumption DEF GradedAlike
<1>7. CappedExportIsWhatIsKept' /\ PausedSoFar'
  <2>1. \A k \in Kinds : 1..Len(kept'[k]) = {} /\ 1..Len(exportedNow'[k]) = {}
    BY <1>3
  <2> QED BY <2>1 DEF CappedExportIsWhatIsKept, PausedSoFar
<1> QED BY <1>1, <1>4, <1>5, <1>6, <1>7 DEF BatchInv, BatchIsAccounted

\* flush() of an agent that sends nothing, and one that throws.
LEMMA FlushUnwrittenStep ==
    ASSUME BatchInv, flushNothing \/ flushBatchThrows
    PROVE  BatchInv'
<1>1. /\ drainPendingLogs /\ resetMainThreadBuffer
      /\ UNCHANGED <<verdictVars, completions, pushedLines>> /\ writtenBatch' = writtenBatch
  BY DEF flushNothing, flushBatchThrows
<1>2. WrittenAccounted' /\ PauseShipsServerErrors'
  BY <1>1, WrittenBefore
<1> QED BY <1>1, <1>2, AfterReset

\* What the batch comes to with the drained lines in it.
LEMMA DrainedIsBilled ==
    ASSUME BatchInv, drainPendingLogs
    PROVE  /\ logs \o drained \in Seq(1..pushedLines)
           /\ Len(logs \o drained) \in Nat /\ Len(logs \o drained) <= MAX_LOGS_PER_TRANSACTION
           /\ metered + Len(drained) \in Nat /\ truncatedSpans \in Nat
           /\ metered + Len(drained) = EventsIn(kept, logs \o drained) + truncatedSpans
           /\ EventsIn(kept, logs \o drained) = EventsIn(kept, <<>>) + Len(logs \o drained)
           /\ EventsIn(kept, <<>>) \in Nat
<1> DEFINE all == logs \o drained
           ev == EventsIn(kept, logs)
<1>1. /\ drained \in Seq(1..pushedLines) /\ Len(drained) \in Nat
      /\ Len(logs) + Len(drained) <= MAX_LOGS_PER_TRANSACTION
  BY BacklogDrained DEF BatchInv, BatchIsAccounted
<1>2. /\ logs \in Seq(1..pushedLines) /\ Len(logs) \in Nat /\ kept \in [Kinds -> Seq(BatchEntries)]
      /\ metered \in Nat /\ truncatedSpans \in Nat /\ metered = ev + truncatedSpans
  BY DEF BatchInv, BatchIsAccounted, BatchTypeOK, EventsAccounted
<1>3. all \in Seq(1..pushedLines) /\ Len(all) = Len(logs) + Len(drained) /\ Len(all) \in Nat
  BY <1>1, <1>2
<1>4. Len(<<>>) = 0
  OBVIOUS
<1> HIDE DEF all
<1>5. /\ ev \in Nat /\ EventsIn(kept, all) = ev + Len(all) - Len(logs)
      /\ EventsIn(kept, <<>>) = ev + Len(<<>>) - Len(logs)
  BY <1>2, <1>3, <1>4, EventsAddUp
<1>6. EventsIn(kept, <<>>) \in Nat
  BY <1>2, <1>4, EventsAddUp
<1> HIDE DEF ev
<1>7. metered + Len(drained) \in Nat /\ metered + Len(drained) = EventsIn(kept, all) + truncatedSpans
  BY <1>1, <1>2, <1>3, <1>5
<1>8. EventsIn(kept, all) = EventsIn(kept, <<>>) + Len(all)
  BY <1>2, <1>3, <1>4, <1>5
<1> QED BY <1>1, <1>2, <1>3, <1>6, <1>7, <1>8 DEF all

\* flush() that gets the lock: what it writes is what was recorded, less the lines
\* a pause takes out and counts (flush, withholdLogs).
LEMMA FlushBatchStep ==
    ASSUME BatchInv, flushBatch
    PROVE  BatchInv'
<1> DEFINE all == logs \o drained
           out == withholdLogs(all)
<1>1. /\ drainPendingLogs /\ resetMainThreadBuffer
      /\ UNCHANGED <<verdictVars, completions, pushedLines>>
      /\ writtenBatch' = [kept |-> kept, logs |-> out.logs,
                          truncatedSpans |-> truncatedSpans + out.count,
                          metered |-> metered + Len(drained),
                          paused |-> alwaysPaused /\ errorsOnlyNow]
  BY DEF flushBatch
<1>2. /\ Len(all) \in Nat /\ truncatedSpans \in Nat
      /\ metered + Len(drained) = EventsIn(kept, all) + truncatedSpans
      /\ EventsIn(kept, all) = EventsIn(kept, <<>>) + Len(all)
      /\ EventsIn(kept, <<>>) \in Nat
  BY <1>1, DrainedIsBilled
<1> HIDE DEF all
<1>3. /\ errorsOnlyNow => out.logs = <<>> /\ out.count = Len(all)
      /\ ~errorsOnlyNow => out.logs = all /\ out.count = 0
  BY DEF withholdLogs
<1> HIDE DEF out
<1>4. /\ writtenBatch'.kept = kept /\ writtenBatch'.logs = out.logs
      /\ writtenBatch'.truncatedSpans = truncatedSpans + out.count
      /\ writtenBatch'.metered = metered + Len(drained)
      /\ writtenBatch'.paused = (alwaysPaused /\ errorsOnlyNow)
  BY <1>1
<1>5. WrittenAccounted'
  <2>1. metered + Len(drained) = EventsIn(kept, out.logs) + (truncatedSpans + out.count)
    <3>1. CASE errorsOnlyNow
      <4>1. out.logs = <<>> /\ out.count = Len(all)
        BY <1>3, <3>1
      <4>2. metered + Len(drained) = EventsIn(kept, <<>>) + (truncatedSpans + Len(all))
        BY <1>2
      <4> QED BY <4>1, <4>2
    <3>2. CASE ~errorsOnlyNow
      <4>1. out.logs = all /\ out.count = 0
        BY <1>3, <3>2
      <4>2. EventsIn(kept, all) + truncatedSpans = EventsIn(kept, all) + (truncatedSpans + 0)
        BY <1>2
      <4> QED BY <1>2, <4>1, <4>2
    <3> QED BY <3>1, <3>2
  <2> QED BY <1>4, <2>1 DEF WrittenAccounted
<1>6. PauseShipsServerErrors'
  <2>1. SUFFICES ASSUME alwaysPaused /\ errorsOnlyNow
                 PROVE  /\ writtenBatch'.logs = <<>>
                        /\ \A k \in Kinds : \A i \in 1..Len(writtenBatch'.kept[k]) :
                               ServerErrorOnly(writtenBatch'.kept[k][i])
    BY <1>4 DEF PauseShipsServerErrors, ServerErrorOnly
  <2> QED BY <1>3, <1>4, <2>1 DEF BatchInv, PausedSoFar
<1> QED BY <1>1, <1>5, <1>6, AfterReset

\* flush() while the worker has the slot.
LEMMA FlushLockedStep ==
    ASSUME BatchInv, flushLocked
    PROVE  BatchInv'
<1> DEFINE all == logs \o drained
<1>1. /\ drainPendingLogs /\ logs' = all /\ metered' = metered + Len(drained)
      /\ batchOpen' = TRUE /\ writtenBatch' = NoBatch
      /\ alwaysPaused' = (alwaysPaused /\ errorsOnlyNow)
      /\ UNCHANGED <<verdictVars, kept, withheld, truncatedSpans, completions, pushedLines, offered,
                     exportedNow>>
  BY DEF flushLocked
<1>2. /\ all \in Seq(1..pushedLines) /\ Len(all) <= MAX_LOGS_PER_TRANSACTION
      /\ metered + Len(drained) \in Nat
      /\ metered + Len(drained) = EventsIn(kept, all) + truncatedSpans
  BY <1>1, DrainedIsBilled
<1>3. /\ pendingLogs' \in Seq(1..pushedLines) /\ Len(pendingLogs') <= MAX_PENDING_LOGS
      /\ drainedUpTo' \in 0..pushedLines /\ BacklogInOrder'
  BY <1>1, BacklogDrained DEF BatchInv, BatchIsAccounted
<1> HIDE DEF all
<1>4. BatchTypeOK'
  <2>1. alwaysPaused' \in BOOLEAN /\ batchOpen' \in BOOLEAN
    BY <1>1
  <2> QED BY <1>1, <1>2, <1>3, <2>1 DEF BatchInv, BatchIsAccounted, BatchTypeOK, verdictVars
<1>5. EventsAccounted' /\ PauseShipsServerErrors'
  <2>1. WrittenAccounted' /\ PauseShipsServerErrors'
    BY <1>1, WrittenBefore
  <2> QED BY <1>1, <1>2, <2>1 DEF EventsAccounted, WrittenAccounted
<1>6. GradedAlike'
  BY <1>1 DEF BatchInv, BatchIsAccounted, GradedAlike
<1>7. CappedExportIsWhatIsKept'
  BY <1>1 DEF BatchInv, BatchIsAccounted, CappedExportIsWhatIsKept
<1>8. PausedSoFar'
  BY <1>1 DEF BatchInv, PausedSoFar, ServerErrorOnly
<1> QED BY <1>3, <1>4, <1>5, <1>6, <1>7, <1>8 DEF BatchInv, BatchIsAccounted

-----------------------------------------------------------------------------
\* A step that changes nothing.
LEMMA BatchStutter ==
    ASSUME BatchInv, UNCHANGED bufferVars
    PROVE  BatchInv'
<1> USE DEF bufferVars, verdictVars, batchVars, batchHistory
<1>1. BatchTypeOK'
  BY DEF BatchInv, BatchIsAccounted, BatchTypeOK
<1>2. EventsAccounted' /\ PauseShipsServerErrors'
  BY DEF BatchInv, BatchIsAccounted, EventsAccounted, PauseShipsServerErrors
<1>3. GradedAlike'
  BY DEF BatchInv, BatchIsAccounted, GradedAlike
<1>4. CappedExportIsWhatIsKept'
  <2>1. kept' = kept /\ exportedNow' = exportedNow
    OBVIOUS
  <2>2. CappedExportIsWhatIsKept
    BY DEF BatchInv, BatchIsAccounted
  <2> QED BY ONLY <2>1, <2>2 DEF CappedExportIsWhatIsKept
<1>5. BacklogInOrder'
  BY DEF BatchInv, BatchIsAccounted, BacklogInOrder
<1>6. PausedSoFar'
  BY DEF BatchInv, PausedSoFar, ServerErrorOnly
<1> QED BY <1>1, <1>2, <1>3, <1>4, <1>5, <1>6 DEF BatchInv, BatchIsAccounted

LEMMA BatchStart ==
    ASSUME BatchInit
    PROVE  BatchInv
<1>1. /\ sendsNothing \in BOOLEAN /\ ingestMode = "full" /\ grant = "off" /\ batchOpen = FALSE
      /\ kept = [k \in Kinds |-> <<>>] /\ withheld = [k \in Kinds |-> 0] /\ truncatedSpans = 0
      /\ logs = <<>> /\ pendingLogs = <<>> /\ writtenBatch = NoBatch /\ completions = 0
      /\ pushedLines = 0 /\ offered = [k \in Kinds |-> 0] /\ metered = 0
      /\ exportedNow = [k \in Kinds |-> <<>>] /\ alwaysPaused = TRUE /\ drainedUpTo = 0
  BY DEF BatchInit
<1>2. /\ kept \in [Kinds -> Seq(BatchEntries)]
      /\ exportedNow \in [Kinds -> Seq([ex : Executions, tree : BOOLEAN, at : Nat])]
      /\ withheld \in [Kinds -> 0..maxOperationsPerBatch] /\ offered \in [Kinds -> Nat]
      /\ logs \in Seq(1..pushedLines) /\ Len(logs) <= MAX_LOGS_PER_TRANSACTION
      /\ pendingLogs \in Seq(1..pushedLines) /\ Len(pendingLogs) <= MAX_PENDING_LOGS
      /\ \A k \in Kinds : /\ Len(kept[k]) = 0 /\ Len(exportedNow[k]) = 0
                          /\ withheld[k] = 0 /\ offered[k] = 0
  BY <1>1, MainBufferAssumption
<1>3. BatchTypeOK
  <2>1. \A k \in Kinds : Len(kept[k]) + withheld[k] <= maxOperationsPerBatch
    BY <1>2, MainBufferAssumption
  <2>2. /\ completions = 0 /\ pushedLines = 0 /\ drainedUpTo = 0 /\ truncatedSpans = 0
        /\ metered = 0
    BY <1>1
  <2>3. /\ truncatedSpans \in Nat /\ metered \in Nat /\ drainedUpTo \in 0..pushedLines
        /\ completions \in 0..MaxExecutions /\ pushedLines \in 0..MaxLines
    BY <2>2, MainBufferAssumption
  <2>4. batchOpen \in BOOLEAN /\ alwaysPaused \in BOOLEAN
    BY <1>1
  <2> QED BY <1>1, <1>2, <2>1, <2>3, <2>4 DEF BatchTypeOK
<1>4. EventsAccounted /\ PauseShipsServerErrors
  <2>1. EventsIn([k \in Kinds |-> <<>>], <<>>) = 0
    BY NothingAddsUpToNothing DEF EventsIn, Kinds
  <2> QED BY <1>1, <2>1 DEF EventsAccounted, PauseShipsServerErrors, NoBatch
<1>5. GradedAlike
  BY <1>2, MainBufferAssumption DEF GradedAlike
<1>6. CappedExportIsWhatIsKept /\ PausedSoFar /\ BacklogInOrder
  <2>1. \A k \in Kinds : 1..Len(kept[k]) = {} /\ 1..Len(exportedNow[k]) = {}
    BY <1>2
  <2>2. 1..Len(pendingLogs) = {}
    BY <1>1
  <2>3. CappedExportIsWhatIsKept /\ PausedSoFar
    BY <2>1 DEF CappedExportIsWhatIsKept, PausedSoFar
  <2> QED BY <2>2, <2>3 DEF BacklogInOrder
<1> QED BY <1>3, <1>4, <1>5, <1>6 DEF BatchInv, BatchIsAccounted

\* The batch and what it says it withheld balance at every moment, with what a
\* pause built so far; whatever is completed, logged, decided or flushed.
THEOREM BatchBalances ==
    BatchSpec => []BatchInv
<1>1. BatchInit => BatchInv
  BY BatchStart
<1>2. BatchInv /\ [BatchNext]_bufferVars => BatchInv'
  <2> SUFFICES ASSUME BatchInv, [BatchNext]_bufferVars PROVE BatchInv'
    OBVIOUS
  <2>1. CASE insertSnapshot
    BY <2>1, SnapshotStep
  <2>2. CASE insertUnnamedSnapshot \/ setIngestMode
    BY <2>2, BatchLeftAlone
  <2>3. CASE pushLogs
    BY <2>3, PushLogsStep
  <2>4. CASE flushNothing \/ flushBatchThrows
    BY <2>4, FlushUnwrittenStep
  <2>5. CASE flushEmpty
    BY <2>5, BatchStutter DEF flushEmpty
  <2>6. CASE flushLocked
    BY <2>6, FlushLockedStep
  <2>7. CASE flushBatch
    BY <2>7, FlushBatchStep
  <2>8. CASE UNCHANGED bufferVars
    BY <2>8, BatchStutter
  <2> QED BY <2>1, <2>2, <2>3, <2>4, <2>5, <2>6, <2>7, <2>8 DEF BatchNext
<1> QED BY <1>1, <1>2, PTL DEF BatchSpec

\* The property of the batch, for all limits and executions: what was recorded is
\* in the batch or counted, graded alike, exported alike, and lines keep their
\* order (insertRequestSnapshot, pushLogs, flush).
THEOREM BatchAccounted ==
    BatchSpec => []BatchIsAccounted
<1>1. BatchInv => BatchIsAccounted
  BY DEF BatchInv
<1> QED BY <1>1, BatchBalances, PTL

-----------------------------------------------------------------------------
(***************************************************************************)
(* Sums over the series of a summary (CountIn): u adds up ct, over any of  *)
(* its sets of series, taking one out at a time.                           *)
(***************************************************************************)
Countable(ct) == IsFiniteSet(DOMAIN ct) /\ \A s \in DOMAIN ct : ct[s] \in Nat
Taken(S) == CHOOSE s \in S : TRUE
Totals(ct, u) ==
    u = [S \in SUBSET DOMAIN ct |->
            IF S = {} THEN 0 ELSE LET s == CHOOSE s \in S : TRUE IN ct[s] + u[S \ {s}]]
Tallies(ct, u) == u \in [SUBSET DOMAIN ct -> Nat] /\ Totals(ct, u)

\* A finite set less one of its elements is smaller by one.
LEMMA OneTaken ==
    ASSUME NEW S, IsFiniteSet(S), NEW x \in S, NEW n \in Nat, Cardinality(S) <= n + 1
    PROVE  IsFiniteSet(S \ {x}) /\ Cardinality(S \ {x}) \in Nat /\ Cardinality(S \ {x}) <= n
<1>1. IsFiniteSet(S \ {x}) /\ Cardinality(S \ {x}) = Cardinality(S) - 1
  BY FS_RemoveElement
<1>2. Cardinality(S) \in Nat /\ Cardinality(S \ {x}) \in Nat
  BY <1>1, FS_CardinalityType
<1> QED BY <1>1, <1>2

\* A finite set is empty or one can be taken.
LEMMA EmptyOrTaken ==
    ASSUME NEW S, IsFiniteSet(S)
    PROVE  /\ Cardinality(S) \in Nat
           /\ Cardinality(S) <= 0 => S = {}
           /\ S # {} => Taken(S) \in S
<1>1. Cardinality(S) \in Nat /\ (Cardinality(S) = 0 <=> S = {})
  BY FS_CardinalityType, FS_EmptySet
<1> QED BY <1>1 DEF Taken

\* Totals of two functions agree where these do.
LEMMA TotalsAgree ==
    ASSUME NEW ct, NEW dt, NEW u, NEW v, Totals(ct, u), Totals(dt, v), IsFiniteSet(DOMAIN ct)
    PROVE  \A S \in SUBSET (DOMAIN ct \cap DOMAIN dt) :
               (\A s \in S : ct[s] = dt[s]) => u[S] = v[S]
<1> DEFINE Same(S) == S \in SUBSET (DOMAIN ct \cap DOMAIN dt) /\ \A s \in S : ct[s] = dt[s]
           T == {n \in Nat : \A S : Same(S) /\ Cardinality(S) <= n => u[S] = v[S]}
<1>1. ASSUME NEW S, Same(S) PROVE IsFiniteSet(S)
  BY <1>1, FS_Subset
<1>2. u[{}] = 0 /\ v[{}] = 0
  BY DEF Totals
<1>3. 0 \in T
  <2> SUFFICES ASSUME NEW S, Same(S), Cardinality(S) <= 0 PROVE u[S] = v[S]
    OBVIOUS
  <2>1. S = {}
    BY <1>1, EmptyOrTaken
  <2> QED BY <1>2, <2>1
<1>4. ASSUME NEW n \in T PROVE n + 1 \in T
  <2>6. n \in Nat /\ n + 1 \in Nat
    OBVIOUS
  <2> SUFFICES ASSUME NEW S, Same(S), Cardinality(S) <= n + 1 PROVE u[S] = v[S]
    BY <2>6
  <2>7. CASE S = {}
    BY <1>2, <2>7
  <2> SUFFICES ASSUME S # {} PROVE u[S] = v[S]
    BY <2>7
  <2>1. IsFiniteSet(S) /\ Taken(S) \in S
    BY <1>1, EmptyOrTaken
  <2>2. Same(S \ {Taken(S)}) /\ Cardinality(S \ {Taken(S)}) <= n
    BY <2>1, OneTaken
  <2>3. u[S \ {Taken(S)}] = v[S \ {Taken(S)}]
    BY <2>2
  <2>4. u[S] = ct[Taken(S)] + u[S \ {Taken(S)}]
    BY DEF Totals, Taken
  <2>5. v[S] = dt[Taken(S)] + v[S \ {Taken(S)}]
    BY DEF Totals, Taken
  <2> QED BY <2>1, <2>3, <2>4, <2>5
<1>5. T = Nat
  <2> HIDE DEF T
  <2> QED BY <1>3, <1>4, AllNaturals DEF T
<1> SUFFICES ASSUME NEW S, Same(S) PROVE u[S] = v[S]
  OBVIOUS
<1>6. Cardinality(S) \in T
  BY <1>1, <1>5, EmptyOrTaken
<1>7. Cardinality(S) <= Cardinality(S)
  BY <1>1, EmptyOrTaken
<1> QED BY <1>6, <1>7

\* There are such totals of any finite function to numbers ...
LEMMA TotalsExist ==
    ASSUME NEW ct, Countable(ct)
    PROVE  \E u \in [SUBSET DOMAIN ct -> Nat] : Totals(ct, u)
<1> DEFINE D == DOMAIN ct
           Next(u, S) == IF S = {} THEN 0 ELSE ct[Taken(S)] + u[S \ {Taken(S)}]
           UpTo(u, n) == \A S \in SUBSET D : Cardinality(S) <= n => u[S] = Next(u, S)
           T == {n \in Nat : \E u \in [SUBSET D -> Nat] : UpTo(u, n)}
<1>0. IsFiniteSet(DOMAIN ct) /\ \A s \in DOMAIN ct : ct[s] \in Nat
  BY DEF Countable
<1>1. \A S \in SUBSET D : IsFiniteSet(S) /\ Cardinality(S) \in Nat
  BY <1>0, FS_Subset, FS_CardinalityType
<1>2. 0 \in T
  <2> DEFINE z == [S \in SUBSET D |-> 0]
  <2>1. UpTo(z, 0)
    BY <1>1, EmptyOrTaken
  <2>2. z \in [SUBSET D -> Nat]
    OBVIOUS
  <2> HIDE DEF z, UpTo
  <2> QED BY <2>1, <2>2
<1>3. ASSUME NEW n \in T PROVE n + 1 \in T
  <2>1. PICK u \in [SUBSET D -> Nat] : UpTo(u, n)
    OBVIOUS
  <2> DEFINE w == [S \in SUBSET D |-> Next(u, S)]
  <2>2. ASSUME NEW S \in SUBSET D, S # {} PROVE Taken(S) \in S /\ S \ {Taken(S)} \in SUBSET D
    BY <1>1, <2>2, EmptyOrTaken
  <2>3. w \in [SUBSET D -> Nat]
    <3>1. ASSUME NEW S \in SUBSET D PROVE Next(u, S) \in Nat
      <4>1. CASE S = {}
        BY <4>1
      <4>2. CASE S # {}
        <5>1. ct[Taken(S)] \in Nat /\ u[S \ {Taken(S)}] \in Nat
          BY <1>0, <2>2, <4>2
        <5> QED BY <4>2, <5>1
      <4> QED BY <4>1, <4>2
    <3> HIDE DEF Next
    <3> QED BY <3>1
  <2>4. ASSUME NEW S \in SUBSET D, Cardinality(S) <= n PROVE w[S] = u[S]
    BY <2>1, <2>4
  <2>5. ASSUME NEW S \in SUBSET D, Cardinality(S) <= n + 1 PROVE w[S] = Next(w, S)
    <3>1. CASE S = {}
      BY <3>1
    <3>2. CASE S # {}
      <4>1. S \ {Taken(S)} \in SUBSET D /\ Cardinality(S \ {Taken(S)}) <= n
        BY <1>1, <2>2, <2>5, <3>2, OneTaken
      <4>2. w[S \ {Taken(S)}] = u[S \ {Taken(S)}]
        BY <2>4, <4>1
      <4>3. w[S] = ct[Taken(S)] + u[S \ {Taken(S)}]
        BY <3>2
      <4> HIDE DEF w
      <4> QED BY <3>2, <4>2, <4>3
    <3> QED BY <3>1, <3>2
  <2> HIDE DEF w
  <2>6. UpTo(w, n + 1)
    BY <2>5
  <2>7. n + 1 \in Nat
    OBVIOUS
  <2> HIDE DEF UpTo
  <2> QED BY <2>3, <2>6, <2>7
<1>4. T = Nat
  <2> HIDE DEF T
  <2> QED BY <1>2, <1>3, AllNaturals DEF T
<1>5. PICK u \in [SUBSET D -> Nat] : UpTo(u, Cardinality(D))
  <2>1. Cardinality(D) \in T
    BY <1>1, <1>4
  <2> QED BY <2>1
<1>6. \A S \in SUBSET D : u[S] = Next(u, S)
  <2>1. \A S \in SUBSET D : Cardinality(S) <= Cardinality(D)
    BY <1>0, FS_Subset
  <2> QED BY <1>5, <2>1
<1>7. Totals(ct, u)
  BY <1>6 DEF Totals, Taken
<1> QED BY <1>7

\* ... and CountIn is the last of them.
LEMMA CountIsATotal ==
    ASSUME NEW ct, Countable(ct)
    PROVE  \E u \in [SUBSET DOMAIN ct -> Nat] : Totals(ct, u) /\ CountIn(ct) = u[DOMAIN ct]
<1> DEFINE w == CHOOSE u : u = [S \in SUBSET DOMAIN ct |->
                IF S = {} THEN 0 ELSE LET s == CHOOSE s \in S : TRUE IN ct[s] + u[S \ {s}]]
<1>1. PICK u \in [SUBSET DOMAIN ct -> Nat] : Totals(ct, u)
  BY TotalsExist
<1>2. Totals(ct, w)
  <2>1. \E f : f = [S \in SUBSET DOMAIN ct |->
                IF S = {} THEN 0 ELSE LET s == CHOOSE s \in S : TRUE IN ct[s] + f[S \ {s}]]
    BY <1>1 DEF Totals
  <2>2. w = [S \in SUBSET DOMAIN ct |->
                IF S = {} THEN 0 ELSE LET s == CHOOSE s \in S : TRUE IN ct[s] + w[S \ {s}]]
    BY <2>1, Zenon
  <2> HIDE DEF w
  <2> QED BY <2>2 DEF Totals
<1>3. CountIn(ct) = w[DOMAIN ct]
  BY DEF CountIn
<1> HIDE DEF w
<1>4. w[DOMAIN ct] = u[DOMAIN ct]
  BY <1>1, <1>2, TotalsAgree DEF Countable
<1> QED BY <1>1, <1>3, <1>4

\* Whichever series is taken out first, the total is the same.
LEMMA AnyTaken ==
    ASSUME NEW ct, Countable(ct),
           NEW u, Tallies(ct, u), NEW S \in SUBSET DOMAIN ct, NEW x \in S
    PROVE  u[S] = ct[x] + u[S \ {x}]
<1> DEFINE D == DOMAIN ct
           T == {n \in Nat : \A B \in SUBSET D : Cardinality(B) <= n =>
                                 \A y \in B : u[B] = ct[y] + u[B \ {y}]}
<1>9. u \in [SUBSET D -> Nat] /\ Totals(ct, u)
  BY DEF Tallies
<1>0. IsFiniteSet(DOMAIN ct) /\ \A s \in DOMAIN ct : ct[s] \in Nat
  BY DEF Countable
<1>1. \A B \in SUBSET D : IsFiniteSet(B) /\ Cardinality(B) \in Nat
  BY <1>0, FS_Subset, FS_CardinalityType
<1>2. 0 \in T
  <2>1. \A B \in SUBSET D : Cardinality(B) <= 0 => B = {}
    BY <1>1, EmptyOrTaken
  <2> QED BY <2>1
<1>3. ASSUME NEW n \in T PROVE n + 1 \in T
  <2>1. n \in Nat /\ n + 1 \in Nat
    OBVIOUS
  <2> SUFFICES ASSUME NEW B \in SUBSET D, Cardinality(B) <= n + 1, NEW y \in B
               PROVE  u[B] = ct[y] + u[B \ {y}]
    BY <2>1
  <2> DEFINE e == Taken(B)
  <2>2. e \in B
    BY <1>1, EmptyOrTaken
  <2>3. u[B] = ct[e] + u[B \ {e}]
    BY <1>9 DEF Totals, Taken
  <2> HIDE DEF e
  <2>4. CASE y = e
    BY <2>3, <2>4
  <2>5. CASE y # e
    <3> DEFINE R == B \ {e}
               Q == B \ {y}
    <3>1. /\ R \in SUBSET D /\ y \in R /\ Cardinality(R) <= n
          /\ Q \in SUBSET D /\ e \in Q /\ Cardinality(Q) <= n
      BY <1>1, <2>1, <2>2, <2>5, OneTaken
    <3>2. R \ {y} = Q \ {e} /\ R \ {y} \in SUBSET D
      OBVIOUS
    <3> HIDE DEF R, Q
    <3>3. u[R] = ct[y] + u[R \ {y}] /\ u[Q] = ct[e] + u[Q \ {e}]
      BY <3>1
    <3>4. ct[y] \in Nat /\ ct[e] \in Nat /\ u[R \ {y}] \in Nat
      BY <1>0, <1>9, <2>2, <3>2
    <3>5. u[B] = ct[e] + u[R]
      BY <2>3 DEF R
    <3>6. u[B] = ct[y] + u[Q]
      <4>1. u[Q \ {e}] = u[R \ {y}]
        BY <3>2
      <4>2. u[R] = ct[y] + u[R \ {y}] /\ u[Q] = ct[e] + u[R \ {y}]
        BY <3>3, <4>1
      <4> QED BY <3>4, <3>5, <4>2
    <3> QED BY <3>6 DEF Q
  <2> QED BY <2>4, <2>5
<1>4. T = Nat
  <2> HIDE DEF T
  <2> QED BY <1>2, <1>3, AllNaturals DEF T
<1>5. Cardinality(S) \in T /\ Cardinality(S) <= Cardinality(S)
  BY <1>1, <1>4
<1> QED BY <1>5

\* The count of no series, and of one series more or one that has another count.
LEMMA CountOfNone == CountIn([s \in {} |-> 0]) = 0
<1> DEFINE ct == [s \in {} |-> 0]
<1>1. DOMAIN ct = {} /\ Countable(ct)
  BY FS_EmptySet DEF Countable
<1> HIDE DEF ct
<1>2. PICK u \in [SUBSET DOMAIN ct -> Nat] : Totals(ct, u) /\ CountIn(ct) = u[DOMAIN ct]
  BY <1>1, CountIsATotal
<1>3. u[{}] = 0
  BY <1>2 DEF Totals
<1> QED BY <1>1, <1>2, <1>3 DEF ct

LEMMA CountAfterPut ==
    ASSUME NEW ct, Countable(ct),
           NEW x, NEW n \in Nat
    PROVE  /\ CountIn(ct) \in Nat
           /\ At(ct, x, 0) \in Nat
           /\ CountIn(Put(ct, x, n)) = (CountIn(ct) - At(ct, x, 0)) + n
<1> DEFINE D == DOMAIN ct
           dt == Put(ct, x, n)
           R == D \ {x}
<1>0. IsFiniteSet(DOMAIN ct) /\ \A s \in DOMAIN ct : ct[s] \in Nat
  BY DEF Countable
<1>1. /\ DOMAIN dt = D \cup {x} /\ dt[x] = n /\ \A s \in R : dt[s] = ct[s]
      /\ \A s \in DOMAIN dt : dt[s] \in Nat
  BY <1>0 DEF Put
<1>2. Countable(dt)
  BY <1>0, <1>1, FS_AddElement DEF Countable
<1> HIDE DEF dt
<1>3. PICK u \in [SUBSET D -> Nat] : Totals(ct, u) /\ CountIn(ct) = u[D]
  BY CountIsATotal
<1>4. PICK v \in [SUBSET DOMAIN dt -> Nat] : Totals(dt, v) /\ CountIn(dt) = v[DOMAIN dt]
  BY <1>1, <1>2, CountIsATotal
<1>5. R \in SUBSET D /\ R \in SUBSET DOMAIN dt /\ DOMAIN dt \ {x} = R
  BY <1>1
<1>6. u[R] = v[R] /\ u[R] \in Nat
  BY <1>0, <1>1, <1>3, <1>4, <1>5, TotalsAgree
<1>7. v[DOMAIN dt] = n + v[R]
  <2>1. v[DOMAIN dt] = dt[x] + v[DOMAIN dt \ {x}]
    <3>1. x \in DOMAIN dt /\ DOMAIN dt \in SUBSET DOMAIN dt
      BY <1>1
    <3>2. Tallies(dt, v)
      BY <1>4 DEF Tallies
    <3> QED BY <1>2, <3>1, <3>2, AnyTaken
  <2> QED BY <1>1, <1>5, <2>1
<1>8. CASE x \in D
  <2>1. u[D] = ct[x] + u[R]
    <3>1. x \in D /\ D \in SUBSET D
      BY <1>8
    <3>2. Tallies(ct, u)
      BY <1>3 DEF Tallies
    <3> QED BY <3>1, <3>2, AnyTaken
  <2>2. At(ct, x, 0) = ct[x] /\ ct[x] \in Nat
    BY <1>0, <1>8 DEF At
  <2>3. CountIn(ct) = ct[x] + u[R] /\ CountIn(dt) = n + u[R]
    BY <1>3, <1>4, <1>6, <1>7, <2>1
  <2>4. CountIn(ct) \in Nat /\ CountIn(dt) = (CountIn(ct) - ct[x]) + n
    BY <1>6, <2>2, <2>3
  <2> QED BY <2>2, <2>4 DEF dt
<1>9. CASE x \notin D
  <2>1. R = D /\ At(ct, x, 0) = 0
    BY <1>9 DEF At
  <2>2. CountIn(ct) = u[R] /\ CountIn(dt) = n + u[R]
    BY <1>3, <1>4, <1>6, <1>7, <2>1
  <2>3. CountIn(ct) \in Nat /\ CountIn(dt) = (CountIn(ct) - 0) + n
    BY <1>6, <2>2
  <2> QED BY <2>1, <2>3 DEF dt
<1> QED BY <1>8, <1>9

-----------------------------------------------------------------------------
(***************************************************************************)
(* The inductive invariant.                                                *)
(***************************************************************************)

\* The sums and samples of one series of a summary.
ReadingHolds(r) ==
    /\ r.count \in Nat \ {0} /\ r.sum \in Nat /\ r.max \in Nat
    /\ r.samples \in Seq(Nat) /\ Len(r.samples) \in 1 .. sampleSize
    /\ \A i \in 1 .. Len(r.samples) : r.samples[i] <= r.max
    /\ r.max <= r.sum /\ r.sum <= r.count * r.max
WindowHolds(w) == IsFiniteSet(DOMAIN w) /\ \A s \in DOMAIN w : ReadingHolds(w[s])
Counts(w) == [s \in DOMAIN w |-> w[s].count]

\* The readings of a counter or gauge.
LevelHolds(v) ==
    /\ IsFiniteSet(DOMAIN v) /\ Cardinality(DOMAIN v) <= MAX_SERIES_PER_METRIC
    /\ DOMAIN v \subseteq Series \ LongKeys
    /\ \A s \in DOMAIN v : v[s] \in Int

\* The readings v of a counter, those it is measured from, and the increases
\* written so far: at most what it is measured from, or exactly that.
Measured(v, base, told, exact) ==
    /\ \A s \in DOMAIN base : s \in DOMAIN v /\ base[s] \in Int
    /\ \A s \in DOMAIN told : s \in DOMAIN v /\ told[s] \in Int
    /\ \A s \in DOMAIN v :
           /\ v[s] \in Nat
           /\ At(told, s, 0) <= At(base, s, 0) /\ At(base, s, 0) <= v[s]
           /\ exact => At(told, s, 0) = At(base, s, 0)

\* The increase in the batch: at most what the readings rose by, or exactly that.
Encoded(v, base, iv, exact) ==
    /\ DOMAIN iv = DOMAIN v
    /\ \A s \in DOMAIN v :
           /\ iv[s] \in Int
           /\ iv[s] <= v[s] - At(base, s, 0)
           /\ exact => iv[s] = v[s] - At(base, s, 0)

\* What waits for the batch to be written is in it, unless one was thrown away.
BatchShape ==
    /\ initialValue \in Nat /\ labelled \subseteq Metrics /\ warned \subseteq Levels
    /\ hasBatch \in BOOLEAN /\ failed \in BOOLEAN
    /\ DOMAIN custom \subseteq Metrics /\ (custom # NoSeries => hasBatch)
    /\ awaiting \subseteq Counters \cup Summaries
    /\ DOMAIN custom \ Gauges \subseteq awaiting
    /\ ~failed => awaiting \subseteq DOMAIN custom

LevelsHold ==
    /\ DOMAIN value = Levels
    /\ \A m \in Levels : LevelHolds(value[m])
    /\ \A m \in Levels : m \in Counters \cap labelled \/ DEFAULT_LABEL \in DOMAIN value[m]

CounterHolds(c) ==
    /\ Measured(value[c], lastFlushed[c], delivered[c], ~failed /\ c \notin seededLate)
    /\ c \in DOMAIN custom =>
           Encoded(value[c], lastFlushed[c], custom[c].iv, c \notin seededLate)
CountersHold ==
    /\ DOMAIN lastFlushed = Counters /\ DOMAIN delivered = Counters
    /\ \A c \in Counters : CounterHolds(c)

SummaryHolds(m) ==
    /\ WindowHolds(summaryWindow[m])
    /\ m \notin awaiting => summaryWindow[m] = NoSeries
    /\ m \in DOMAIN custom => custom[m] = encodeSummary(summaryWindow[m])
    /\ reported[m] \in Nat /\ observed[m] \in Nat
    /\ reported[m] + CountIn(Counts(summaryWindow[m])) <= observed[m]
    /\ ~failed => reported[m] + CountIn(Counts(summaryWindow[m])) = observed[m]
SummariesHold ==
    /\ DOMAIN summaryWindow = Summaries /\ DOMAIN reported = Summaries /\ DOMAIN observed = Summaries
    /\ \A m \in Summaries : SummaryHolds(m)

MetricsInv == BatchShape /\ LevelsHold /\ CountersHold /\ SummariesHold /\ OneWindow

-----------------------------------------------------------------------------
(***************************************************************************)
(* Quantiles.                                                              *)
(***************************************************************************)

\* The value at a rank is one of the sample, it reaches the rank, and it is the
\* least that does.
LEMMA NearestReaches ==
    ASSUME NEW s \in Seq(Nat), NEW rank \in 1 .. Len(s)
    PROVE  /\ \E i \in 1 .. Len(s) : nearest(s, rank) = s[i]
           /\ Reaches(s, nearest(s, rank), rank)
           /\ \A i \in 1 .. Len(s) : Reaches(s, s[i], rank) => nearest(s, rank) <= s[i]
<1> DEFINE D == 1 .. Len(s)
           Bounds == {b \in Nat : \A i \in D : s[i] <= b}
           At_ == {s[i] : i \in {j \in D : Reaches(s, s[j], rank)}}
           P(x) == /\ x \in {s[i] : i \in DOMAIN s}
                   /\ Reaches(s, x, rank)
                   /\ \A i \in DOMAIN s : Reaches(s, s[i], rank) => x <= s[i]
<1>1. Len(s) \in Nat /\ DOMAIN s = D /\ \A i \in D : s[i] \in Nat
  OBVIOUS
<1>2. IsFiniteSet(D) /\ Cardinality(D) = Len(s)
  <2>1. IsFiniteSet(D) /\ Cardinality(D) = IF 1 > Len(s) THEN 0 ELSE (Len(s) - 1) + 1
    BY <1>1, FS_Interval
  <2> HIDE DEF D
  <2> QED BY <1>1, <2>1
<1>3. ASSUME NEW i \in D, \A j \in D : s[j] <= s[i] PROVE Reaches(s, s[i], rank)
  <2>1. {j \in D : s[j] <= s[i]} = D
    BY <1>3
  <2> DEFINE B == {j \in DOMAIN s : s[j] <= s[i]}
  <2>2. B = D
    BY <1>1, <2>1
  <2> HIDE DEF B
  <2>3. Cardinality(B) >= rank
    BY <1>1, <1>2, <2>2
  <2> QED BY <2>3 DEF Reaches, B
<1>4. \E i \in D : \A j \in D : s[j] <= s[i]
  <2>1. Bounds # {}
    <3> DEFINE T == {n \in Nat : n <= Len(s) => \E b \in Nat : \A i \in 1 .. n : s[i] <= b}
    <3>1. 0 \in T
      OBVIOUS
    <3>2. ASSUME NEW n \in T PROVE n + 1 \in T
      <4>1. n \in Nat /\ n + 1 \in Nat
        OBVIOUS
      <4> SUFFICES ASSUME n + 1 <= Len(s) PROVE \E b \in Nat : \A i \in 1 .. n + 1 : s[i] <= b
        BY <4>1
      <4>2. PICK b \in Nat : \A i \in 1 .. n : s[i] <= b
        BY <1>1, <4>1
      <4>3. s[n + 1] \in Nat
        BY <1>1, <4>1
      <4> DEFINE c == b + s[n + 1]
      <4>4. c \in Nat /\ b <= c /\ s[n + 1] <= c
        BY <4>3
      <4>5. ASSUME NEW i \in 1 .. n + 1 PROVE s[i] <= c
        <5>1. CASE i = n + 1
          BY <4>4, <5>1
        <5>2. CASE i # n + 1
          <6>1. i \in 1 .. n /\ s[i] \in Nat
            BY <1>1, <4>1, <5>2
          <6> QED BY <4>2, <4>4, <6>1
        <5> QED BY <5>1, <5>2
      <4> HIDE DEF c
      <4> QED BY <4>4, <4>5
    <3>3. T = Nat
      <4> HIDE DEF T
      <4> QED BY <3>1, <3>2, AllNaturals DEF T
    <3>4. Len(s) \in T
      <4> HIDE DEF T
      <4> QED BY <1>1, <3>3
    <3>5. Len(s) <= Len(s)
      BY <1>1
    <3>6. PICK b \in Nat : \A i \in D : s[i] <= b
      BY <3>4, <3>5
    <3> QED BY <3>6
  <2>2. Bounds \subseteq Nat
    OBVIOUS
  <2>3. PICK b \in Bounds : \A c \in Bounds : b <= c
    <3> HIDE DEF Bounds
    <3> QED BY <2>1, <2>2, LeastNatural
  <2>4. b \in Nat /\ \A i \in D : s[i] <= b
    BY <2>3
  <2> SUFFICES ASSUME \A i \in D : s[i] # b PROVE FALSE
    BY <2>4
  <2>5. 1 \in D
    BY <1>1
  <2>6. b - 1 \in Nat /\ \A i \in D : s[i] <= b - 1
    BY <1>1, <2>4, <2>5
  <2>7. b - 1 \in Bounds
    BY <2>6
  <2> QED BY <2>3, <2>4, <2>7
<1>5. At_ # {} /\ At_ \subseteq Nat
  BY <1>1, <1>3, <1>4
<1>6. PICK x \in At_ : \A y \in At_ : x <= y
  <2> HIDE DEF At_
  <2> QED BY <1>5, LeastNatural
<1>7. P(x)
  BY <1>1, <1>6
<1>8. P(nearest(s, rank))
  <2>1. nearest(s, rank) = CHOOSE y : P(y)
    BY DEF nearest
  <2> HIDE DEF P
  <2> QED BY <1>7, <2>1
<1> QED BY <1>1, <1>8

\* The ranks of the three quantiles, in order.
LEMMA RanksInOrder ==
    ASSUME NEW n \in Nat \ {0}
    PROVE  LET rank(p) == (p * n + 99) \div 100
           IN  rank(50) \in 1 .. n /\ rank(95) \in 1 .. n /\ rank(99) \in 1 .. n
               /\ rank(50) <= rank(95) /\ rank(95) <= rank(99)
OBVIOUS

\* A higher rank is not below a lower one, and none is above the maximum.
LEMMA QuantilesInOrder ==
    ASSUME NEW s \in Seq(Nat), NEW q \in 1 .. Len(s), NEW r \in 1 .. Len(s), q <= r,
           NEW top \in Nat, \A i \in 1 .. Len(s) : s[i] <= top
    PROVE  /\ nearest(s, q) \in Nat /\ nearest(s, r) \in Nat
           /\ nearest(s, q) <= nearest(s, r) /\ nearest(s, r) <= top
<1>1. PICK i \in 1 .. Len(s) : nearest(s, q) = s[i]
  BY NearestReaches
<1>2. PICK j \in 1 .. Len(s) : nearest(s, r) = s[j]
  BY NearestReaches
<1>3. s[i] \in Nat /\ s[j] \in Nat
  OBVIOUS
<1>4. Reaches(s, s[j], r)
  BY <1>2, NearestReaches
<1>5. Reaches(s, s[j], q)
  <2> DEFINE B == {k \in DOMAIN s : s[k] <= s[j]}
  <2>1. B \subseteq 1 .. Len(s) /\ Len(s) \in Nat
    OBVIOUS
  <2>2. IsFiniteSet(B)
    <3>1. IsFiniteSet(1 .. Len(s))
      BY <2>1, FS_Interval
    <3> HIDE DEF B
    <3> QED BY <2>1, <3>1, FS_Subset
  <2>3. Cardinality(B) \in Nat
    BY <2>2, FS_CardinalityType
  <2> HIDE DEF B
  <2>4. Cardinality(B) >= r
    BY <1>4 DEF Reaches, B
  <2>5. Cardinality(B) >= q
    BY <2>3, <2>4
  <2> QED BY <2>5 DEF Reaches, B
<1>6. nearest(s, q) <= s[j]
  BY <1>5, NearestReaches
<1> QED BY <1>1, <1>2, <1>3, <1>6

\* The figures of a window that holds: ordered quantiles, a maximum they do not
\* exceed, and a sum in between.
LEMMA FiguresInOrder ==
    ASSUME NEW w, WindowHolds(w), NEW s \in DOMAIN w
    PROVE  LET e == encodeSummary(w) IN
           /\ e.q50[s] <= e.q95[s] /\ e.q95[s] <= e.q99[s] /\ e.q99[s] <= e.mx[s]
           /\ e.mx[s] <= e.sm[s] /\ e.sm[s] <= e.ct[s] * e.mx[s]
<1> DEFINE e == encodeSummary(w)
           x == w[s].samples
           n == Len(x)
           rank(p) == (p * n + 99) \div 100
<1>1. ReadingHolds(w[s])
  BY DEF WindowHolds
<1>2. /\ x \in Seq(Nat) /\ n \in Nat \ {0} /\ w[s].max \in Nat
      /\ \A i \in 1 .. Len(x) : x[i] <= w[s].max
  BY <1>1, CustomMetricsAssumption DEF ReadingHolds
<1>3. /\ e.mx[s] = w[s].max /\ e.sm[s] = w[s].sum /\ e.ct[s] = w[s].count
      /\ e.q50[s] = quantile(50, x) /\ e.q95[s] = quantile(95, x) /\ e.q99[s] = quantile(99, x)
  <2>1. e.mx[s] = w[s].max /\ e.sm[s] = w[s].sum /\ e.ct[s] = w[s].count
    BY DEF encodeSummary, figures
  <2>2. e.q50[s] = quantile(50, x)
    BY DEF encodeSummary, figures
  <2>3. e.q95[s] = quantile(95, x)
    BY DEF encodeSummary, figures
  <2>4. e.q99[s] = quantile(99, x)
    BY DEF encodeSummary, figures
  <2> QED BY <2>1, <2>2, <2>3, <2>4
<1>4. /\ rank(50) \in 1 .. n /\ rank(95) \in 1 .. n /\ rank(99) \in 1 .. n
      /\ rank(50) <= rank(95) /\ rank(95) <= rank(99)
  <2>1. n \in Nat \ {0}
    BY <1>2
  <2> HIDE DEF e, x, n
  <2> QED BY <2>1, RanksInOrder
<1>5. /\ quantile(50, x) = nearest(x, rank(50)) /\ quantile(95, x) = nearest(x, rank(95))
      /\ quantile(99, x) = nearest(x, rank(99))
  <2>1. \A k \in 1 .. n : ~(k < 1)
    BY <1>2
  <2>2. ~(rank(50) < 1) /\ ~(rank(95) < 1) /\ ~(rank(99) < 1)
    BY <1>4, <2>1
  <2> QED BY <2>2 DEF quantile
<1> HIDE DEF e, x, rank
<1>6. nearest(x, rank(50)) <= nearest(x, rank(95))
  BY <1>2, <1>4, QuantilesInOrder
<1>7. nearest(x, rank(95)) <= nearest(x, rank(99)) /\ nearest(x, rank(99)) <= w[s].max
  BY <1>2, <1>4, QuantilesInOrder
<1>8. w[s].max <= w[s].sum /\ w[s].sum <= w[s].count * w[s].max
  BY <1>1 DEF ReadingHolds
<1> QED BY <1>3, <1>5, <1>6, <1>7, <1>8 DEF e

-----------------------------------------------------------------------------
(***************************************************************************)
(* One series, one window, one counter.                                    *)
(***************************************************************************)

\* An observation leaves a series' reading sound, whichever part of the sample
\* it takes the place of.
LEMMA ReadingGrows ==
    ASSUME NEW r, NEW x \in Nat \ {0}, NEW ks,
           ReadingHolds(r) \/ r = [count |-> 0, sum |-> 0, max |-> x, samples |-> <<>>],
           ks \in sample(r.samples, x, r.count + 1)
    PROVE  ReadingHolds([count |-> r.count + 1, sum |-> r.sum + x,
                         max |-> IF x > r.max THEN x ELSE r.max, samples |-> ks])
<1> DEFINE c == r.count
           sum == r.sum
           max == r.max
           ss == r.samples
           top == IF x > max THEN x ELSE max
<1>1. /\ c \in Nat /\ sum \in Nat /\ max \in Nat /\ ss \in Seq(Nat)
      /\ Len(ss) \in 0 .. sampleSize /\ \A i \in 1 .. Len(ss) : ss[i] <= max
  <2>1. CASE ReadingHolds(r)
    BY <2>1, CustomMetricsAssumption DEF ReadingHolds
  <2>2. CASE r = [count |-> 0, sum |-> 0, max |-> x, samples |-> <<>>]
    <3>1. c = 0 /\ sum = 0 /\ max = x /\ ss = <<>>
      BY <2>2
    <3> HIDE DEF c, sum, max, ss
    <3>2. Len(ss) = 0 /\ ss \in Seq(Nat)
      BY <3>1
    <3> QED BY <3>1, <3>2, CustomMetricsAssumption
  <2> QED BY <2>1, <2>2
<1>2. sum <= c * max /\ (max <= sum \/ max = x)
  <2>1. CASE ReadingHolds(r)
    BY <2>1 DEF ReadingHolds
  <2>2. CASE r = [count |-> 0, sum |-> 0, max |-> x, samples |-> <<>>]
    BY <2>2
  <2> QED BY <2>1, <2>2
<1>3. ks \in sample(ss, x, c + 1)
  OBVIOUS
<1> HIDE DEF c, sum, max, ss
<1>4. top \in Nat /\ x <= top /\ max <= top /\ top <= sum + x
  BY <1>1, <1>2
<1>5. sum + x <= (c + 1) * top
  <2> HIDE DEF top
  <2>1. c * max <= c * top
    <3>1. \A a, b, n \in Nat : a <= b => n * a <= n * b
      OBVIOUS
    <3> QED BY <1>1, <1>4, <3>1
  <2>2. c * max \in Nat /\ c * top \in Nat /\ (c + 1) * top = c * top + top
    BY <1>1, <1>4
  <2> QED BY <1>1, <1>2, <1>4, <2>1, <2>2
<1>6. /\ ks \in Seq(Nat) /\ Len(ks) \in 1 .. sampleSize
      /\ \A i \in 1 .. Len(ks) : ks[i] <= top
  <2> HIDE DEF top
  <2>1. CASE Len(ss) < sampleSize
    <3>1. ks = Append(ss, x)
      BY <1>3, <2>1 DEF sample
    <3>2. /\ ks \in Seq(Nat) /\ Len(ks) = Len(ss) + 1
          /\ \A i \in 1 .. Len(ks) : ks[i] = IF i = Len(ss) + 1 THEN x ELSE ss[i]
      BY <1>1, <3>1
    <3>3. Len(ks) \in 1 .. sampleSize
      BY <1>1, <2>1, <3>2, CustomMetricsAssumption
    <3>4. ASSUME NEW i \in 1 .. Len(ks) PROVE ks[i] <= top
      <4>1. CASE i = Len(ss) + 1
        BY <1>4, <3>2, <4>1
      <4>2. CASE i # Len(ss) + 1
        <5>1. i \in 1 .. Len(ss) /\ ks[i] = ss[i] /\ ss[i] \in Nat
          BY <1>1, <3>2, <4>2
        <5> QED BY <1>1, <1>4, <5>1
      <4> QED BY <4>1, <4>2
    <3> QED BY <3>2, <3>3, <3>4
  <2>2. CASE ~(Len(ss) < sampleSize)
    <3>1. Len(ss) = sampleSize /\ sampleSize \in Nat \ {0}
      BY <1>1, <2>2, CustomMetricsAssumption
    <3>2. PICK slot \in 0 .. c : ks = IF slot < sampleSize THEN [ss EXCEPT ![slot + 1] = x] ELSE ss
      <4>1. ks \in {IF slot < sampleSize THEN [ss EXCEPT ![slot + 1] = x] ELSE ss : slot \in 0 .. (c + 1) - 1}
        BY <1>3, <2>2 DEF sample
      <4> QED BY <1>1, <4>1
    <3>3. CASE slot < sampleSize
      <4>1. /\ ks \in Seq(Nat) /\ Len(ks) = Len(ss)
            /\ \A i \in 1 .. Len(ss) : ks[i] = IF i = slot + 1 THEN x ELSE ss[i]
        <5>1. slot + 1 \in 1 .. Len(ss) /\ x \in Nat
          BY <1>1, <3>1, <3>3
        <5>2. ks = [ss EXCEPT ![slot + 1] = x]
          BY <3>2, <3>3
        <5> QED BY <1>1, <5>1, <5>2
      <4>2. ASSUME NEW i \in 1 .. Len(ks) PROVE ks[i] <= top
        <5>1. ss[i] \in Nat /\ ss[i] <= max
          BY <1>1, <4>1
        <5> QED BY <1>1, <1>4, <4>1, <5>1
      <4> QED BY <3>1, <4>1, <4>2
    <3>4. CASE ~(slot < sampleSize)
      <4>1. ks = ss
        BY <3>2, <3>4
      <4>2. ASSUME NEW i \in 1 .. Len(ks) PROVE ks[i] <= top
        <5>1. ss[i] \in Nat /\ ss[i] <= max
          BY <1>1, <4>1
        <5> QED BY <1>1, <1>4, <4>1, <5>1
      <4> QED BY <1>1, <3>1, <4>1, <4>2
    <3> QED BY <3>3, <3>4
  <2> QED BY <2>1, <2>2
<1>7. c + 1 \in Nat \ {0} /\ sum + x \in Nat
  BY <1>1
<1> DEFINE n == [count |-> c + 1, sum |-> sum + x, max |-> top, samples |-> ks]
<1> HIDE DEF top
<1>8. ReadingHolds(n)
  BY <1>4, <1>5, <1>6, <1>7 DEF ReadingHolds
<1> QED BY <1>8 DEF top, c, sum, max

\* A window with one observation more counts one more.
LEMMA WindowGrows ==
    ASSUME NEW w, WindowHolds(w), NEW s, NEW r, ReadingHolds(r),
           r.count = At(Counts(w), s, 0) + 1
    PROVE  /\ WindowHolds(Put(w, s, r))
           /\ CountIn(Counts(w)) \in Nat
           /\ CountIn(Counts(Put(w, s, r))) = CountIn(Counts(w)) + 1
<1> DEFINE ct == Counts(w)
           v == Put(w, s, r)
<1>1. DOMAIN v = DOMAIN w \cup {s} /\ v[s] = r /\ \A t \in DOMAIN w : t # s => v[t] = w[t]
  BY DEF Put
<1>2. IsFiniteSet(DOMAIN w) /\ \A t \in DOMAIN w : ReadingHolds(w[t])
  BY DEF WindowHolds
<1> HIDE DEF v
<1>3. WindowHolds(v)
  <2>1. IsFiniteSet(DOMAIN v)
    BY <1>1, <1>2, FS_AddElement
  <2> QED BY <1>1, <1>2, <2>1 DEF WindowHolds
<1>4. Countable(ct)
  <2>1. DOMAIN ct = DOMAIN w /\ \A t \in DOMAIN w : ct[t] = w[t].count
    BY DEF Counts
  <2>2. \A t \in DOMAIN w : w[t].count \in Nat
    BY <1>2 DEF ReadingHolds
  <2> QED BY <1>2, <2>1, <2>2 DEF Countable
<1>5. Counts(v) = Put(ct, s, r.count)
  BY <1>1 DEF Counts, Put
<1>6. r.count \in Nat
  BY DEF ReadingHolds
<1> HIDE DEF ct
<1>7. /\ CountIn(ct) \in Nat /\ At(ct, s, 0) \in Nat
      /\ CountIn(Put(ct, s, r.count)) = (CountIn(ct) - At(ct, s, 0)) + r.count
  BY <1>4, <1>6, CountAfterPut
<1>8. r.count = At(ct, s, 0) + 1
  BY DEF ct
<1>9. CountIn(Put(ct, s, r.count)) = CountIn(ct) + 1
  BY <1>6, <1>7, <1>8
<1> QED BY <1>3, <1>5, <1>7, <1>9 DEF ct, v

\* A series moved, or a new one admitted.
LEMMA LevelPut ==
    ASSUME NEW v, LevelHolds(v), NEW s \in Series, NEW x \in Int,
           \/ s \in DOMAIN v
           \/ s \notin LongKeys /\ Cardinality(DOMAIN v) < MAX_SERIES_PER_METRIC
    PROVE  LevelHolds(Put(v, s, x))
<1> DEFINE u == Put(v, s, x)
<1>1. DOMAIN u = DOMAIN v \cup {s} /\ u[s] = x /\ \A t \in DOMAIN v : t # s => u[t] = v[t]
  BY DEF Put
<1>2. /\ IsFiniteSet(DOMAIN v) /\ Cardinality(DOMAIN v) <= MAX_SERIES_PER_METRIC
      /\ DOMAIN v \subseteq Series \ LongKeys /\ \A t \in DOMAIN v : v[t] \in Int
  BY DEF LevelHolds
<1>3. Cardinality(DOMAIN v) \in Nat
  BY <1>2, FS_CardinalityType
<1> HIDE DEF u
<1>4. IsFiniteSet(DOMAIN u) /\ Cardinality(DOMAIN u) <= MAX_SERIES_PER_METRIC
  <2>1. CASE s \in DOMAIN v
    <3>1. DOMAIN u = DOMAIN v
      BY <1>1, <2>1
    <3> QED BY <1>2, <3>1
  <2>2. CASE s \notin DOMAIN v
    <3>1. IsFiniteSet(DOMAIN u) /\ Cardinality(DOMAIN u) = Cardinality(DOMAIN v) + 1
      BY <1>1, <1>2, <2>2, FS_AddElement
    <3> QED BY <1>3, <2>2, <3>1, CustomMetricsAssumption
  <2> QED BY <2>1, <2>2
<1>5. DOMAIN u \subseteq Series \ LongKeys /\ \A t \in DOMAIN u : u[t] \in Int
  BY <1>1, <1>2
<1> QED BY <1>4, <1>5 DEF LevelHolds, u

\* A reading that goes up leaves what was measured and told.
LEMMA MeasuredPut ==
    ASSUME NEW v, NEW base, NEW told, NEW exact \in BOOLEAN, Measured(v, base, told, exact),
           NEW s, NEW x \in Nat, s \in DOMAIN v => v[s] <= x
    PROVE  Measured(Put(v, s, x), base, told, exact)
<1> DEFINE u == Put(v, s, x)
<1>1. DOMAIN u = DOMAIN v \cup {s} /\ u[s] = x /\ \A t \in DOMAIN v : t # s => u[t] = v[t]
  BY DEF Put
<1> HIDE DEF u
<1>2. /\ \A t \in DOMAIN base : t \in DOMAIN v /\ base[t] \in Int
      /\ \A t \in DOMAIN told : t \in DOMAIN v /\ told[t] \in Int
  BY DEF Measured
<1>3. ASSUME NEW t \in DOMAIN u
      PROVE  /\ u[t] \in Nat
             /\ At(told, t, 0) <= At(base, t, 0) /\ At(base, t, 0) <= u[t]
             /\ exact => At(told, t, 0) = At(base, t, 0)
  <2>1. At(base, t, 0) \in Int /\ At(told, t, 0) \in Int
    BY <1>2 DEF At
  <2>2. CASE t \in DOMAIN v
    <3>1. /\ v[t] \in Nat
          /\ At(told, t, 0) <= At(base, t, 0) /\ At(base, t, 0) <= v[t]
          /\ exact => At(told, t, 0) = At(base, t, 0)
      BY <2>2 DEF Measured
    <3>2. u[t] \in Nat /\ v[t] <= u[t]
      BY <1>1, <2>2, <3>1
    <3> QED BY <2>1, <3>1, <3>2
  <2>3. CASE t \notin DOMAIN v
    <3>1. At(told, t, 0) = 0 /\ At(base, t, 0) = 0 /\ u[t] = x
      BY <1>1, <1>2, <2>3 DEF At
    <3> QED BY <3>1
  <2> QED BY <2>2, <2>3
<1>4. /\ \A t \in DOMAIN base : t \in DOMAIN u /\ base[t] \in Int
      /\ \A t \in DOMAIN told : t \in DOMAIN u /\ told[t] \in Int
  BY <1>1, <1>2
<1>5. Measured(u, base, told, exact)
  BY <1>3, <1>4 DEF Measured
<1> QED BY <1>5 DEF u

LEMMA MeasuredLess ==
    ASSUME NEW v, NEW base, NEW told, NEW exact, NEW less, Measured(v, base, told, exact),
           less => exact
    PROVE  Measured(v, base, told, less)
BY DEF Measured

\* What is encoded when a counter changed is the rise since it was measured ...
LEMMA EncodedFresh ==
    ASSUME NEW v, NEW base, NEW told, NEW exact, Measured(v, base, told, exact), NEW less
    PROVE  Encoded(v, base, increase(v, base), less)
<1> DEFINE iv == increase(v, base)
<1>1. ASSUME NEW s \in DOMAIN v PROVE iv[s] \in Int /\ iv[s] = v[s] - At(base, s, 0)
  <2>1. v[s] \in Int /\ At(base, s, 0) \in Int
    BY DEF Measured, At
  <2>2. NaN \notin {v[s], At(base, s, 0)}
    BY <2>1, CustomMetricsAssumption
  <2>3. iv[s] = v[s] - At(base, s, 0)
    BY <2>2 DEF increase, Minus
  <2> QED BY <2>1, <2>3
<1>2. DOMAIN iv = DOMAIN v
  BY DEF increase
<1> HIDE DEF iv
<1>3. Encoded(v, base, iv, less)
  BY <1>1, <1>2 DEF Encoded
<1> QED BY <1>3 DEF iv

\* ... and at most that once a reading was seeded.
LEMMA EncodedSeeded ==
    ASSUME NEW v, NEW base, NEW told, NEW e, Measured(v, base, told, e),
           NEW iv, NEW exact, Encoded(v, base, iv, exact),
           NEW s \in DOMAIN v, NEW x \in Nat, v[s] <= x, NEW less, ~less
    PROVE  Encoded(Put(v, s, x), base, iv, less)
<1> DEFINE u == Put(v, s, x)
<1>1. DOMAIN u = DOMAIN v /\ u[s] = x /\ \A t \in DOMAIN v : t # s => u[t] = v[t]
  BY DEF Put
<1> HIDE DEF u
<1>2. ASSUME NEW t \in DOMAIN v PROVE iv[t] \in Int /\ iv[t] <= u[t] - At(base, t, 0)
  <2>1. v[t] \in Nat /\ At(base, t, 0) \in Int
    BY DEF Measured, At
  <2>2. iv[t] \in Int /\ iv[t] <= v[t] - At(base, t, 0)
    BY DEF Encoded
  <2>3. u[t] \in Nat /\ v[t] <= u[t]
    BY <1>1, <2>1
  <2> QED BY <2>1, <2>2, <2>3
<1>3. DOMAIN iv = DOMAIN u
  BY <1>1 DEF Encoded
<1>4. Encoded(u, base, iv, less)
  BY <1>1, <1>2, <1>3 DEF Encoded
<1> QED BY <1>4 DEF u

\* A batch with the counter in it is written: what is told is the new baseline.
LEMMA MeasuredWritten ==
    ASSUME NEW v, NEW base, NEW told, NEW exact, Measured(v, base, told, exact),
           NEW iv, NEW sound, Encoded(v, base, iv, sound), exact => sound
    PROVE  Measured(v, v, [s \in DOMAIN v |-> Plus(At(told, s, 0), At(iv, s, 0))], exact)
<1> DEFINE now == [s \in DOMAIN v |-> Plus(At(told, s, 0), At(iv, s, 0))]
<1>1. ASSUME NEW s \in DOMAIN v
      PROVE  /\ v[s] \in Nat /\ now[s] \in Int
             /\ At(now, s, 0) = now[s] /\ At(v, s, 0) = v[s] /\ now[s] <= v[s]
             /\ exact => now[s] = v[s]
  <2>1. /\ v[s] \in Nat /\ At(base, s, 0) \in Int /\ At(told, s, 0) \in Int
        /\ At(told, s, 0) <= At(base, s, 0) /\ (exact => At(told, s, 0) = At(base, s, 0))
    BY DEF Measured, At
  <2>2. /\ iv[s] \in Int /\ At(iv, s, 0) = iv[s] /\ iv[s] <= v[s] - At(base, s, 0)
        /\ exact => iv[s] = v[s] - At(base, s, 0)
    BY DEF Encoded, At
  <2>3. NaN \notin {At(told, s, 0), At(iv, s, 0)}
    BY <2>1, <2>2, CustomMetricsAssumption
  <2>4. now[s] = At(told, s, 0) + iv[s]
    BY <2>2, <2>3 DEF Plus
  <2>5. At(now, s, 0) = now[s] /\ At(v, s, 0) = v[s]
    BY DEF At
  <2> HIDE DEF now
  <2> QED BY <2>1, <2>2, <2>4, <2>5
<1>2. DOMAIN now = DOMAIN v
  OBVIOUS
<1> HIDE DEF now
<1>3. Measured(v, v, now, exact)
  BY <1>1, <1>2 DEF Measured
<1> QED BY <1>3 DEF now

\* One without it is.
LEMMA MeasuredSkipped ==
    ASSUME NEW v, NEW base, NEW told, NEW exact, Measured(v, base, told, exact), NEW less, ~less
    PROVE  Measured(v, v, told, less)
<1>1. ASSUME NEW s \in DOMAIN v
      PROVE  v[s] \in Nat /\ At(v, s, 0) = v[s] /\ At(told, s, 0) <= v[s]
  <2>1. /\ v[s] \in Nat /\ At(base, s, 0) \in Int /\ At(told, s, 0) \in Int
        /\ At(told, s, 0) <= At(base, s, 0) /\ At(base, s, 0) <= v[s]
    BY DEF Measured, At
  <2> QED BY <2>1 DEF At
<1> QED BY <1>1 DEF Measured

-----------------------------------------------------------------------------
(***************************************************************************)
(* Steps.                                                                  *)
(***************************************************************************)

\* Which metric is which.
LEMMA KindsApart ==
    /\ \A c \in Counters : c \notin Gauges /\ c \notin Summaries
    /\ \A g \in Gauges : g \notin Counters /\ g \notin Summaries
    /\ \A m \in Summaries : m \notin Counters /\ m \notin Gauges
BY CustomMetricsAssumption

\* Counters and summaries that a step leaves alone.
LEMMA CountersStay ==
    ASSUME CountersHold, UNCHANGED <<lastFlushed, delivered, seededLate>>, failed => failed',
           \A c \in Counters : /\ value'[c] = value[c]
                               /\ c \in DOMAIN custom' => c \in DOMAIN custom /\ custom'[c] = custom[c]
    PROVE  CountersHold'
<1>1. ASSUME NEW c \in Counters PROVE CounterHolds(c)'
  <2>1. CounterHolds(c)
    BY DEF CountersHold
  <2>2. Measured(value[c], lastFlushed[c], delivered[c], ~failed' /\ c \notin seededLate)
    BY <2>1, MeasuredLess DEF CounterHolds
  <2> QED BY <2>1, <2>2 DEF CounterHolds
<1> QED BY <1>1 DEF CountersHold

LEMMA SummariesStay ==
    ASSUME SummariesHold, UNCHANGED <<summaryWindow, reported, observed>>, failed => failed',
           \A m \in Summaries : /\ m \in awaiting => m \in awaiting'
                                /\ m \in DOMAIN custom' => m \in DOMAIN custom /\ custom'[m] = custom[m]
    PROVE  SummariesHold'
<1>1. ASSUME NEW m \in Summaries PROVE SummaryHolds(m)'
  <2>1. SummaryHolds(m)
    BY DEF SummariesHold
  <2> QED BY <2>1 DEF SummaryHolds
<1> QED BY <1>1 DEF SummariesHold

\* A call that is refused, a declaration, another entry of the batch.
LEMMA QuietStep ==
    ASSUME MetricsInv,
           UNCHANGED <<initialValue, value, summaryWindow, lastFlushed, custom, awaiting, delivered,
                       observed, reported, failed, seededLate, lastBatch>>,
           warned' \subseteq Levels, labelled \subseteq labelled', labelled' \subseteq Metrics,
           hasBatch' \in {hasBatch, TRUE}
    PROVE  MetricsInv'
<1>1. BatchShape /\ LevelsHold /\ CountersHold /\ SummariesHold /\ OneWindow
  BY DEF MetricsInv
<1>2. BatchShape'
  BY <1>1 DEF BatchShape
<1>3. LevelsHold'
  BY <1>1 DEF LevelsHold
<1>4. CountersHold' /\ SummariesHold'
  BY <1>1, CountersStay, SummariesStay
<1>5. OneWindow'
  BY <1>1 DEF OneWindow
<1> QED BY <1>2, <1>3, <1>4, <1>5 DEF MetricsInv

\* A metric put into the batch.
LEMMA UpsertShape ==
    ASSUME BatchShape, NEW m \in Metrics, NEW e, upsertCustomMetric(m, e),
           UNCHANGED <<initialValue, labelled, warned, failed>>
    PROVE  /\ BatchShape'
           /\ awaiting' = awaiting \cup ({m} \ Gauges)
           /\ DOMAIN custom' = DOMAIN custom \cup {m} /\ custom'[m] = e
           /\ \A k \in DOMAIN custom : k # m => custom'[k] = custom[k]
<1>1. /\ DOMAIN custom' = DOMAIN custom \cup {m} /\ custom'[m] = e
      /\ \A k \in DOMAIN custom : k # m => custom'[k] = custom[k]
      /\ awaiting' = awaiting \cup ({m} \ Gauges) /\ hasBatch' = TRUE
  BY DEF upsertCustomMetric, Put
<1>2. BatchShape'
  BY <1>1 DEF BatchShape, Metrics
<1> QED BY <1>1, <1>2

\* One reading of a counter or gauge moved, or a new one admitted.
LEMMA LevelMoves ==
    ASSUME LevelsHold, NEW m \in Levels, NEW s \in Series, NEW x \in Int,
           \/ s \in DOMAIN value[m]
           \/ s \notin LongKeys /\ Cardinality(DOMAIN value[m]) < MAX_SERIES_PER_METRIC,
           value' = [value EXCEPT ![m] = Put(@, s, x)], UNCHANGED labelled
    PROVE  LevelsHold' /\ value'[m] = Put(value[m], s, x)
           /\ \A k \in Levels : k # m => value'[k] = value[k]
<1>1. /\ DOMAIN value = Levels /\ DOMAIN value' = Levels
      /\ value'[m] = Put(value[m], s, x) /\ \A k \in Levels : k # m => value'[k] = value[k]
  BY DEF LevelsHold
<1>2. LevelHolds(Put(value[m], s, x))
  <2>1. LevelHolds(value[m])
    BY DEF LevelsHold
  <2> QED BY <2>1, LevelPut
<1>3. DOMAIN Put(value[m], s, x) = DOMAIN value[m] \cup {s}
  BY DEF Put
<1>4. ASSUME NEW k \in Levels
      PROVE  /\ LevelHolds(value'[k])
             /\ k \in Counters \cap labelled' \/ DEFAULT_LABEL \in DOMAIN value'[k]
  <2>1. /\ LevelHolds(value[k])
        /\ k \in Counters \cap labelled \/ DEFAULT_LABEL \in DOMAIN value[k]
    BY DEF LevelsHold
  <2>2. CASE k = m
    BY <1>1, <1>2, <1>3, <2>1, <2>2
  <2>3. CASE k # m
    BY <1>1, <2>1, <2>3
  <2> QED BY <2>2, <2>3
<1> QED BY <1>1, <1>4 DEF LevelsHold

\* A series a call may name and that is admitted is one there is room for.
LEMMA AdmittedHasRoom ==
    ASSUME NEW m, NEW s \in MayName(m), admitsSeries(m, s)
    PROVE  /\ s \in Series
           /\ \/ s \in DOMAIN value[m]
              \/ s \notin LongKeys /\ Cardinality(DOMAIN value[m]) < MAX_SERIES_PER_METRIC
BY DEF MayName, Series, admitsSeries

LEMMA LatchInLevels ==
    ASSUME BatchShape, NEW m \in Levels, NEW s PROVE capReached(m, s) \subseteq Levels
BY DEF BatchShape, capReached

\* Counter.increment
LEMMA IncrementStep ==
    ASSUME MetricsInv, NEW c \in Counters, incrementCounter(c)
    PROVE  MetricsInv'
<1>1. BatchShape /\ LevelsHold /\ CountersHold /\ SummariesHold /\ OneWindow
  BY DEF MetricsInv
<1>2. PICK s \in MayName(c), x \in Amounts :
        \/ /\ admitsFinite(x)
           /\ admitsSeries(c, s)
           /\ value' = [value EXCEPT ![c] = Put(@, s, Plus(At(@, s, initialValue), x))]
           /\ upsertCustomMetric(c, encodeCounter(c, value'[c]))
           /\ UNCHANGED warned
        \/ /\ admitsFinite(x)
           /\ ~admitsSeries(c, s)
           /\ warned' = capReached(c, s)
           /\ UNCHANGED <<value, metricBatchVars>>
        \/ /\ ~admitsFinite(x)
           /\ UNCHANGED <<value, warned, metricBatchVars>>
  BY DEF incrementCounter
<1>3. UNCHANGED <<initialValue, labelled, summaryWindow, observed, lastFlushed, delivered, reported,
                  failed, lastBatch, seededLate>>
  BY DEF incrementCounter, metricHistory
<1>4. c \in Levels /\ c \in Metrics /\ c \notin Gauges /\ c \notin Summaries
  BY KindsApart DEF Levels, Metrics
<1>5. CASE UNCHANGED <<value, metricBatchVars>> /\ (warned' = capReached(c, s) \/ UNCHANGED warned)
  <2>1. warned' \subseteq Levels /\ labelled \subseteq Metrics
    BY <1>1, <1>4, <1>5, LatchInLevels DEF BatchShape
  <2>2. UNCHANGED <<value, hasBatch, custom, awaiting>>
    BY <1>5 DEF metricBatchVars
  <2> QED BY <1>3, <2>1, <2>2, QuietStep
<1>6. CASE /\ admitsFinite(x) /\ admitsSeries(c, s)
           /\ value' = [value EXCEPT ![c] = Put(@, s, Plus(At(@, s, initialValue), x))]
           /\ upsertCustomMetric(c, encodeCounter(c, value'[c]))
           /\ UNCHANGED warned
  <2> DEFINE y == Plus(At(value[c], s, initialValue), x)
  <2>1. CounterHolds(c) /\ DOMAIN value = Levels
    BY <1>1 DEF CountersHold, LevelsHold
  <2>2. y \in Nat /\ (s \in DOMAIN value[c] => value[c][s] <= y)
    <3>1. x \in Nat
      BY <1>6, CustomMetricsAssumption DEF admitsFinite
    <3>2. At(value[c], s, initialValue) \in Nat
      BY <1>1, <2>1 DEF CounterHolds, Measured, At, BatchShape
    <3>3. NaN \notin {At(value[c], s, initialValue), x}
      BY <3>1, <3>2, CustomMetricsAssumption
    <3>4. y = At(value[c], s, initialValue) + x
      BY <3>3 DEF Plus
    <3> HIDE DEF y
    <3> QED BY <3>1, <3>2, <3>4 DEF At
  <2>3. value' = [value EXCEPT ![c] = Put(@, s, y)]
    BY <1>4, <1>6, <2>1
  <2> HIDE DEF y
  <2>4. /\ LevelsHold' /\ value'[c] = Put(value[c], s, y)
        /\ \A k \in Levels : k # c => value'[k] = value[k]
    <3>1. y \in Int
      BY <2>2
    <3>2. /\ s \in Series
          /\ \/ s \in DOMAIN value[c]
             \/ s \notin LongKeys /\ Cardinality(DOMAIN value[c]) < MAX_SERIES_PER_METRIC
      BY <1>6, AdmittedHasRoom
    <3>3. UNCHANGED labelled
      BY <1>3
    <3> QED BY <1>1, <1>4, <2>3, <3>1, <3>2, <3>3, LevelMoves
  <2>5. /\ BatchShape'
        /\ awaiting' = awaiting \cup ({c} \ Gauges)
        /\ DOMAIN custom' = DOMAIN custom \cup {c} /\ custom'[c] = encodeCounter(c, value'[c])
        /\ \A k \in DOMAIN custom : k # c => custom'[k] = custom[k]
    BY <1>1, <1>3, <1>4, <1>6, UpsertShape
  <2>6. ASSUME NEW k \in Counters PROVE CounterHolds(k)'
    <3>1. CounterHolds(k)
      BY <1>1 DEF CountersHold
    <3>2. CASE k = c
      <4> DEFINE v == Put(value[c], s, y)
                 exact == ~failed /\ c \notin seededLate
      <4>1. Measured(value[c], lastFlushed[c], delivered[c], exact)
        BY <2>1 DEF CounterHolds
      <4>2. exact \in BOOLEAN
        OBVIOUS
      <4>3. Measured(v, lastFlushed[c], delivered[c], exact)
        <5> HIDE DEF exact
        <5> QED BY <2>2, <4>1, <4>2, MeasuredPut
      <4> HIDE DEF v
      <4>4. Encoded(v, lastFlushed[c], increase(v, lastFlushed[c]), c \notin seededLate)
        BY <4>3, EncodedFresh
      <4>5. custom'[c].iv = increase(v, lastFlushed[c])
        BY <2>4, <2>5 DEF encodeCounter, v
      <4>6. value'[c] = v
        BY <2>4 DEF v
      <4> QED BY <1>3, <3>2, <4>3, <4>4, <4>5, <4>6 DEF CounterHolds
    <3>3. CASE k # c
      <4>1. value'[k] = value[k]
        BY <2>4, <3>3 DEF Levels
      <4>2. k \in DOMAIN custom' => k \in DOMAIN custom /\ custom'[k] = custom[k]
        BY <2>5, <3>3
      <4> QED BY <1>3, <3>1, <4>1, <4>2 DEF CounterHolds
    <3> QED BY <3>2, <3>3
  <2>7. CountersHold'
    BY <1>1, <1>3, <2>6 DEF CountersHold
  <2>8. SummariesHold'
    BY <1>1, <1>3, <1>4, <2>5, SummariesStay
  <2>9. OneWindow'
    BY <1>1, <1>3 DEF OneWindow
  <2> QED BY <2>4, <2>5, <2>7, <2>8, <2>9 DEF MetricsInv
<1> QED BY <1>2, <1>5, <1>6

\* Gauge.increment, decrement and setValue
LEMMA GaugeStep ==
    ASSUME MetricsInv, NEW g \in Gauges, incrementGauge(g) \/ decrementGauge(g) \/ setGauge(g)
    PROVE  MetricsInv'
<1>1. BatchShape /\ LevelsHold /\ CountersHold /\ SummariesHold /\ OneWindow
  BY DEF MetricsInv
<1>2. g \in Levels /\ g \in Metrics /\ g \notin Counters /\ g \notin Summaries
  BY KindsApart DEF Levels, Metrics
<1>3. PICK s, x, to : s \in MayName(g) /\ moveGauge(g, s, x, to) /\ (admitsFinite(x) => to \in Int)
  <2>1. initialValue \in Int /\ initialValue # NaN
    BY <1>1, CustomMetricsAssumption DEF BatchShape
  <2>2. ASSUME NEW s PROVE Reading(g, s) \in Int /\ Reading(g, s) # NaN
    <3>1. LevelHolds(value[g])
      BY <1>1, <1>2 DEF LevelsHold
    <3>2. Reading(g, s) \in Int
      BY <2>1, <3>1 DEF Reading, At, LevelHolds
    <3> QED BY <3>2, CustomMetricsAssumption
  <2>3. ASSUME NEW x \in Amounts \cup {initialValue}, admitsFinite(x) PROVE x \in Int /\ x # NaN
    BY <2>1, <2>3, CustomMetricsAssumption DEF admitsFinite
  <2>4. CASE incrementGauge(g)
    <3>1. PICK s \in MayName(g), x \in Amounts : moveGauge(g, s, x, Plus(Reading(g, s), x))
      BY <2>4 DEF incrementGauge
    <3>2. admitsFinite(x) => Plus(Reading(g, s), x) \in Int
      BY <2>2, <2>3 DEF Plus
    <3> QED BY <3>1, <3>2
  <2>5. CASE decrementGauge(g)
    <3>1. PICK s \in MayName(g), x \in Amounts : moveGauge(g, s, x, Minus(Reading(g, s), x))
      BY <2>5 DEF decrementGauge
    <3>2. admitsFinite(x) => Minus(Reading(g, s), x) \in Int
      BY <2>2, <2>3 DEF Minus
    <3> QED BY <3>1, <3>2
  <2>6. CASE setGauge(g)
    <3>1. PICK s \in MayName(g), x \in Amounts \cup {initialValue} : moveGauge(g, s, x, x)
      BY <2>6 DEF setGauge
    <3> QED BY <2>3, <3>1
  <2> QED BY <2>4, <2>5, <2>6
<1>4. UNCHANGED <<initialValue, labelled, summaryWindow, observed, lastFlushed, delivered, reported,
                  failed, lastBatch, seededLate>>
  BY <1>3 DEF moveGauge, metricHistory
<1>5. CASE UNCHANGED <<value, metricBatchVars>> /\ (warned' = capReached(g, s) \/ UNCHANGED warned)
  <2>1. warned' \subseteq Levels /\ labelled \subseteq Metrics
    BY <1>1, <1>2, <1>5, LatchInLevels DEF BatchShape
  <2>2. UNCHANGED <<value, hasBatch, custom, awaiting>>
    BY <1>5 DEF metricBatchVars
  <2> QED BY <1>4, <2>1, <2>2, QuietStep
<1>6. CASE /\ admitsFinite(x) /\ admitsSeries(g, s)
           /\ value' = [value EXCEPT ![g] = Put(@, s, to)]
           /\ upsertCustomMetric(g, encodeGauge)
           /\ UNCHANGED warned
  <2>1. LevelsHold' /\ \A k \in Levels : k # g => value'[k] = value[k]
    <3>1. /\ s \in Series
          /\ \/ s \in DOMAIN value[g]
             \/ s \notin LongKeys /\ Cardinality(DOMAIN value[g]) < MAX_SERIES_PER_METRIC
      BY <1>3, <1>6, AdmittedHasRoom
    <3>2. UNCHANGED labelled /\ to \in Int
      BY <1>3, <1>4, <1>6
    <3> QED BY <1>1, <1>2, <1>6, <3>1, <3>2, LevelMoves
  <2>2. /\ BatchShape' /\ awaiting' = awaiting \cup ({g} \ Gauges)
        /\ DOMAIN custom' = DOMAIN custom \cup {g}
        /\ \A k \in DOMAIN custom : k # g => custom'[k] = custom[k]
    BY <1>1, <1>2, <1>4, <1>6, UpsertShape
  <2>3. CountersHold'
    <3>1. \A c \in Counters : c # g /\ c \in Levels
      BY <1>2 DEF Levels
    <3> QED BY <1>1, <1>4, <2>1, <2>2, <3>1, CountersStay
  <2>4. SummariesHold'
    BY <1>1, <1>2, <1>4, <2>2, SummariesStay
  <2>5. OneWindow'
    BY <1>1, <1>4 DEF OneWindow
  <2> QED BY <2>1, <2>2, <2>3, <2>4, <2>5 DEF MetricsInv
<1> QED BY <1>3, <1>5, <1>6 DEF moveGauge

\* Summary.observe
LEMMA ObserveStep ==
    ASSUME MetricsInv, NEW m \in Summaries, observe(m)
    PROVE  MetricsInv'
<1>1. BatchShape /\ LevelsHold /\ CountersHold /\ SummariesHold /\ OneWindow
  BY DEF MetricsInv
<1>2. m \in Metrics /\ m \notin Counters /\ m \notin Gauges
  BY KindsApart DEF Metrics
<1>3. UNCHANGED <<initialValue, labelled, value, warned, lastFlushed, delivered, reported, failed,
                  lastBatch, seededLate>>
  BY DEF observe, metricHistory
<1>4. CASE UNCHANGED <<summaryWindow, metricBatchVars, observed>>
  <2>1. UNCHANGED <<summaryWindow, hasBatch, custom, awaiting, observed>>
    BY <1>4 DEF metricBatchVars
  <2>2. warned' \subseteq Levels /\ labelled \subseteq Metrics
    BY <1>1, <1>3 DEF BatchShape
  <2> QED BY <1>3, <2>1, <2>2, QuietStep
<1>5. CASE ~UNCHANGED <<summaryWindow, metricBatchVars, observed>>
  <2> DEFINE fresh(x) == [count |-> 0, sum |-> 0, max |-> x, samples |-> <<>>]
             grown(r, x, ks) == [count |-> r.count + 1, sum |-> r.sum + x,
                                   max |-> IF x > r.max THEN x ELSE r.max, samples |-> ks]
             w == summaryWindow[m]
  <2>1. PICK s \in MayName(m), x \in Amounts :
          /\ admitsFinite(x)
          /\ \E ks \in sample(At(w, s, fresh(x)).samples, x, At(w, s, fresh(x)).count + 1) :
                summaryWindow' = [summaryWindow EXCEPT ![m] =
                                     Put(@, s, grown(At(w, s, fresh(x)), x, ks))]
          /\ upsertCustomMetric(m, encodeSummary(summaryWindow'[m]))
          /\ observed' = [observed EXCEPT ![m] = @ + 1]
    BY <1>5 DEF observe
  <2> DEFINE old == At(w, s, fresh(x))
  <2>2. PICK ks \in sample(old.samples, x, old.count + 1) :
          summaryWindow' = [summaryWindow EXCEPT ![m] = Put(@, s, grown(old, x, ks))]
    BY <2>1
  <2> DEFINE new == grown(old, x, ks)
  <2>3. SummaryHolds(m) /\ DOMAIN summaryWindow = Summaries /\ DOMAIN observed = Summaries
    BY <1>1 DEF SummariesHold
  <2>4. x \in Nat \ {0}
    BY <2>1, CustomMetricsAssumption DEF admitsFinite
  <2>5. ReadingHolds(new)
    <3>1. ReadingHolds(old) \/ old = fresh(x)
      BY <2>3 DEF SummaryHolds, WindowHolds, At
    <3> HIDE DEF old
    <3> QED BY <2>4, <3>1, ReadingGrows
  <2>6. new.count = At(Counts(w), s, 0) + 1
    <3>1. old.count = At(Counts(w), s, 0)
      BY DEF At, Counts
    <3>2. new.count = old.count + 1
      OBVIOUS
    <3> QED BY <3>1, <3>2
  <2> HIDE DEF new, old
  <2>7. /\ DOMAIN summaryWindow' = Summaries /\ summaryWindow'[m] = Put(w, s, new)
        /\ \A k \in Summaries : k # m => summaryWindow'[k] = summaryWindow[k]
    BY <2>2, <2>3 DEF new
  <2>8. /\ WindowHolds(Put(w, s, new)) /\ CountIn(Counts(w)) \in Nat
        /\ CountIn(Counts(Put(w, s, new))) = CountIn(Counts(w)) + 1
    <3>1. WindowHolds(w)
      BY <2>3 DEF SummaryHolds
    <3> HIDE DEF w
    <3> QED BY <2>5, <2>6, <3>1, WindowGrows
  <2>9. /\ BatchShape' /\ awaiting' = awaiting \cup ({m} \ Gauges)
        /\ DOMAIN custom' = DOMAIN custom \cup {m}
        /\ custom'[m] = encodeSummary(summaryWindow'[m])
        /\ \A k \in DOMAIN custom : k # m => custom'[k] = custom[k]
    BY <1>1, <1>2, <1>3, <2>1, UpsertShape
  <2>10. /\ DOMAIN observed' = Summaries /\ observed'[m] = observed[m] + 1
         /\ \A k \in Summaries : k # m => observed'[k] = observed[k]
    BY <2>1, <2>3
  <2>11. ASSUME NEW k \in Summaries PROVE SummaryHolds(k)'
    <3>1. CASE k = m
      <4> DEFINE now == CountIn(Counts(summaryWindow[m]))
                 then == CountIn(Counts(summaryWindow'[m]))
      <4>1. /\ reported[m] \in Nat /\ observed[m] \in Nat /\ reported[m] + now <= observed[m]
            /\ ~failed => reported[m] + now = observed[m]
        BY <2>3 DEF SummaryHolds
      <4>2. now \in Nat /\ then = now + 1
        BY <2>7, <2>8
      <4> HIDE DEF now, then
      <4>3. /\ observed'[m] \in Nat /\ reported'[m] \in Nat /\ reported'[m] + then <= observed'[m]
            /\ ~failed' => reported'[m] + then = observed'[m]
        BY <1>3, <2>10, <4>1, <4>2
      <4>4. WindowHolds(summaryWindow'[m])
        BY <2>7, <2>8
      <4>5. m \in awaiting' /\ custom'[m] = encodeSummary(summaryWindow'[m])
        BY <1>2, <2>9
      <4> QED BY <3>1, <4>3, <4>4, <4>5 DEF SummaryHolds, then
    <3>2. CASE k # m
      <4>1. SummaryHolds(k)
        BY <1>1 DEF SummariesHold
      <4>2. /\ summaryWindow'[k] = summaryWindow[k] /\ observed'[k] = observed[k]
            /\ reported' = reported /\ failed' = failed
        BY <1>3, <2>7, <2>10, <3>2
      <4>3. /\ k \in awaiting => k \in awaiting'
            /\ k \in DOMAIN custom' => k \in DOMAIN custom /\ custom'[k] = custom[k]
        BY <2>9, <3>2
      <4> QED BY <4>1, <4>2, <4>3 DEF SummaryHolds
    <3> QED BY <3>1, <3>2
  <2>12. SummariesHold'
    BY <1>1, <1>3, <2>7, <2>10, <2>11 DEF SummariesHold
  <2>13. CountersHold'
    <3>1. \A c \in Counters : c # m
      BY <1>2
    <3> QED BY <1>1, <1>3, <2>9, <3>1, CountersStay
  <2>14. LevelsHold' /\ OneWindow'
    BY <1>1, <1>3 DEF LevelsHold, OneWindow
  <2> QED BY <2>9, <2>12, <2>13, <2>14 DEF MetricsInv
<1> QED BY <1>4, <1>5

\* A counter or a gauge is asked for again with an initial value.
LEMMA SeedStep ==
    ASSUME MetricsInv, NaN \notin Seeds, NEW m \in Levels, seed(m)
    PROVE  MetricsInv'
<1>1. BatchShape /\ LevelsHold /\ CountersHold /\ SummariesHold /\ OneWindow
  BY DEF MetricsInv
<1>2. UNCHANGED <<initialValue, labelled, summaryWindow, warned, observed, hasBatch, custom, awaiting,
                  lastFlushed, delivered, reported, failed, lastBatch>>
  BY DEF seed, metricHistory, metricBatchVars
<1>3. PICK x \in Seeds : value' = [value EXCEPT ![m][DEFAULT_LABEL] = x]
  BY DEF seed
<1>4. x \in Nat
  BY CustomMetricsAssumption
<1>5. DEFAULT_LABEL \in DOMAIN value[m] /\ value[m][DEFAULT_LABEL] = 0 /\ DOMAIN value = Levels
  BY <1>1 DEF LevelsHold, seed
<1>6. value' = [value EXCEPT ![m] = Put(@, DEFAULT_LABEL, x)]
  <2>1. [value[m] EXCEPT ![DEFAULT_LABEL] = x] = Put(value[m], DEFAULT_LABEL, x)
    <3>1. DOMAIN value[m] \cup {DEFAULT_LABEL} = DOMAIN value[m]
      BY <1>5
    <3> QED BY <3>1 DEF Put
  <2> QED BY <1>3, <1>5, <2>1
<1>7. /\ LevelsHold' /\ value'[m] = Put(value[m], DEFAULT_LABEL, x)
      /\ \A k \in Levels : k # m => value'[k] = value[k]
  <2>1. x \in Int /\ DEFAULT_LABEL \in Series /\ UNCHANGED labelled
    BY <1>2, <1>4 DEF Series
  <2> QED BY <1>1, <1>5, <1>6, <2>1, LevelMoves
<1>8. ASSUME NEW c \in Counters PROVE CounterHolds(c)'
  <2>1. CounterHolds(c)
    BY <1>1 DEF CountersHold
  <2>2. seededLate' = seededLate \cup ({m} \cap awaiting)
    BY DEF seed
  <2>3. CASE c # m
    <3>1. value'[c] = value[c] /\ (c \in seededLate' <=> c \in seededLate)
      BY <1>7, <2>2, <2>3 DEF Levels
    <3> QED BY <1>2, <2>1, <3>1 DEF CounterHolds
  <2>4. CASE c = m
    <3> DEFINE v == Put(value[c], DEFAULT_LABEL, x)
               exact == ~failed /\ c \notin seededLate
               less == ~failed /\ c \notin seededLate'
    <3>1. Measured(value[c], lastFlushed[c], delivered[c], exact)
      BY <2>1 DEF CounterHolds
    <3>2. value[c][DEFAULT_LABEL] <= x
      BY <1>4, <1>5, <2>4
    <3>3. Measured(v, lastFlushed[c], delivered[c], exact)
      <4>1. exact \in BOOLEAN
        OBVIOUS
      <4> HIDE DEF exact
      <4> QED BY <1>4, <3>1, <3>2, <4>1, MeasuredPut
    <3>4. Measured(v, lastFlushed[c], delivered[c], less)
      <4>1. less => exact
        BY <2>2
      <4> HIDE DEF exact, less, v
      <4> QED BY <3>3, <4>1, MeasuredLess
    <3>5. ASSUME c \in DOMAIN custom
          PROVE  Encoded(v, lastFlushed[c], custom[c].iv, c \notin seededLate')
      <4>1. c \in awaiting
        BY <1>1, <3>5, KindsApart DEF BatchShape
      <4>2. c \in seededLate'
        BY <2>2, <2>4, <4>1
      <4>3. Encoded(value[c], lastFlushed[c], custom[c].iv, c \notin seededLate)
        BY <2>1, <3>5 DEF CounterHolds
      <4>4. DEFAULT_LABEL \in DOMAIN value[c]
        BY <1>5, <2>4
      <4> DEFINE late == c \notin seededLate'
                 sure == c \notin seededLate
      <4>5. ~late
        BY <4>2
      <4>6. Encoded(value[c], lastFlushed[c], custom[c].iv, sure)
        BY <4>3
      <4> HIDE DEF late, sure, exact
      <4>7. Encoded(v, lastFlushed[c], custom[c].iv, late)
        BY <1>4, <3>1, <3>2, <4>4, <4>5, <4>6, EncodedSeeded
      <4> QED BY <4>7 DEF late
    <3>6. value'[c] = v
      BY <1>7, <2>4
    <3> HIDE DEF v
    <3> QED BY <1>2, <3>4, <3>5, <3>6 DEF CounterHolds
  <2> QED BY <2>3, <2>4
<1>9. CountersHold'
  BY <1>1, <1>2, <1>8 DEF CountersHold
<1>10. SummariesHold'
  BY <1>1, <1>2, SummariesStay
<1>11. BatchShape' /\ OneWindow'
  BY <1>1, <1>2 DEF BatchShape, OneWindow
<1> QED BY <1>7, <1>9, <1>10, <1>11 DEF MetricsInv

\* A batch is written.
LEMMA WrittenStep ==
    ASSUME MetricsInv, flushWritten
    PROVE  MetricsInv'
<1>1. BatchShape /\ LevelsHold /\ CountersHold /\ SummariesHold /\ OneWindow
  BY DEF MetricsInv
<1>2. /\ lastFlushed' = [c \in Counters |-> IF c \in awaiting THEN baseline(c) ELSE lastFlushed[c]]
      /\ summaryWindow' = [m \in Summaries |->
                              IF m \in awaiting THEN freshWindow(summaryWindow[m]) ELSE summaryWindow[m]]
      /\ delivered' = [c \in Counters |->
                          IF c \notin DOMAIN custom THEN delivered[c]
                          ELSE [s \in DOMAIN value[c] |->
                                  Plus(At(delivered[c], s, 0), At(custom[c].iv, s, 0))]]
      /\ reported' = [m \in Summaries |->
                         IF m \notin DOMAIN custom THEN reported[m]
                         ELSE reported[m] + CountIn(custom[m].ct)]
      /\ lastBatch' = custom /\ custom' = NoSeries /\ awaiting' = {} /\ hasBatch' = FALSE
      /\ UNCHANGED <<initialValue, labelled, value, warned, observed, failed, seededLate>>
  BY DEF flushWritten
<1>3. DOMAIN custom' = {}
  BY <1>2 DEF NoSeries
<1>4. BatchShape'
  BY <1>1, <1>2, <1>3 DEF BatchShape
<1>5. LevelsHold'
  BY <1>1, <1>2 DEF LevelsHold
<1>6. ASSUME NEW c \in Counters PROVE CounterHolds(c)'
  <2> DEFINE exact == ~failed /\ c \notin seededLate
             sound == c \notin seededLate
  <2>1. CounterHolds(c)
    BY <1>1 DEF CountersHold
  <2>2. Measured(value[c], lastFlushed[c], delivered[c], exact)
    BY <2>1 DEF CounterHolds
  <2>3. Measured(value'[c], lastFlushed'[c], delivered'[c], exact)
    <3>1. CASE c \in DOMAIN custom
      <4>1. c \in awaiting
        BY <1>1, <3>1, KindsApart DEF BatchShape
      <4>2. Encoded(value[c], lastFlushed[c], custom[c].iv, sound)
        BY <2>1, <3>1 DEF CounterHolds
      <4>3. exact => sound
        OBVIOUS
      <4>4. /\ value'[c] = value[c] /\ lastFlushed'[c] = value[c]
            /\ delivered'[c] = [s \in DOMAIN value[c] |->
                                    Plus(At(delivered[c], s, 0), At(custom[c].iv, s, 0))]
        BY <1>2, <3>1, <4>1 DEF baseline
      <4> HIDE DEF exact, sound
      <4> QED BY <2>2, <4>2, <4>3, <4>4, MeasuredWritten
    <3>2. CASE c \notin DOMAIN custom /\ c \in awaiting
      <4>1. ~exact
        BY <1>1, <3>2 DEF BatchShape
      <4>2. value'[c] = value[c] /\ lastFlushed'[c] = value[c] /\ delivered'[c] = delivered[c]
        BY <1>2, <3>2 DEF baseline
      <4> HIDE DEF exact
      <4> QED BY <2>2, <4>1, <4>2, MeasuredSkipped
    <3>3. CASE c \notin DOMAIN custom /\ c \notin awaiting
      <4>1. value'[c] = value[c] /\ lastFlushed'[c] = lastFlushed[c] /\ delivered'[c] = delivered[c]
        BY <1>2, <3>3
      <4> QED BY <2>2, <4>1
    <3> QED BY <3>1, <3>2, <3>3
  <2> QED BY <1>2, <1>3, <2>3 DEF CounterHolds
<1>7. ASSUME NEW m \in Summaries PROVE SummaryHolds(m)'
  <2> DEFINE now == CountIn(Counts(summaryWindow[m]))
  <2>1. SummaryHolds(m)
    BY <1>1 DEF SummariesHold
  <2>2. summaryWindow'[m] = NoSeries
    BY <1>2, <2>1 DEF SummaryHolds, freshWindow
  <2>3. CountIn(Counts(NoSeries)) = 0 /\ WindowHolds(NoSeries)
    <3>1. Counts(NoSeries) = [s \in {} |-> 0]
      BY DEF Counts, NoSeries
    <3>2. WindowHolds(NoSeries)
      BY FS_EmptySet DEF WindowHolds, NoSeries
    <3> QED BY <3>1, <3>2, CountOfNone
  <2>4. now \in Nat
    <3>1. Countable(Counts(summaryWindow[m]))
      BY <2>1 DEF SummaryHolds, WindowHolds, ReadingHolds, Counts, Countable
    <3> QED BY <3>1, CountAfterPut
  <2>5. /\ reported[m] \in Nat /\ observed[m] \in Nat /\ reported[m] + now <= observed[m]
        /\ ~failed => reported[m] + now = observed[m]
    BY <2>1 DEF SummaryHolds
  <2>6. /\ reported'[m] \in Nat /\ reported'[m] <= observed[m]
        /\ ~failed => reported'[m] = observed[m]
    <3>1. CASE m \in DOMAIN custom
      <4>1. custom[m].ct = Counts(summaryWindow[m])
        BY <2>1, <3>1 DEF SummaryHolds, encodeSummary, figures, Counts
      <4>2. reported'[m] = reported[m] + now
        BY <1>2, <3>1, <4>1
      <4> HIDE DEF now
      <4> QED BY <2>4, <2>5, <4>2
    <3>2. CASE m \notin DOMAIN custom
      <4>1. reported'[m] = reported[m]
        BY <1>2, <3>2
      <4>2. ~failed => summaryWindow[m] = NoSeries
        BY <1>1, <2>1, <3>2 DEF BatchShape, SummaryHolds
      <4>3. ~failed => now = 0
        BY <2>3, <4>2
      <4> HIDE DEF now
      <4> QED BY <2>4, <2>5, <4>1, <4>3
    <3> QED BY <3>1, <3>2
  <2>7. observed' = observed /\ failed' = failed
    BY <1>2
  <2> QED BY <1>3, <2>2, <2>3, <2>5, <2>6, <2>7 DEF SummaryHolds
<1>8. CountersHold' /\ SummariesHold'
  BY <1>1, <1>2, <1>6, <1>7 DEF CountersHold, SummariesHold
<1>9. OneWindow'
  <2> SUFFICES ASSUME NEW m \in DOMAIN custom \cap Summaries, NEW s \in DOMAIN custom[m].ct
               PROVE  /\ custom[m].q50[s] <= custom[m].q95[s]
                      /\ custom[m].q95[s] <= custom[m].q99[s]
                      /\ custom[m].q99[s] <= custom[m].mx[s]
                      /\ custom[m].mx[s] <= custom[m].sm[s]
                      /\ custom[m].sm[s] <= custom[m].ct[s] * custom[m].mx[s]
    BY <1>2 DEF OneWindow
  <2>1. WindowHolds(summaryWindow[m]) /\ custom[m] = encodeSummary(summaryWindow[m])
    BY <1>1 DEF SummariesHold, SummaryHolds
  <2>2. s \in DOMAIN summaryWindow[m]
    BY <2>1 DEF encodeSummary, figures
  <2> QED BY <2>1, <2>2, FiguresInOrder
<1> QED BY <1>4, <1>5, <1>8, <1>9 DEF MetricsInv

\* A batch is thrown away.
LEMMA ThrownStep ==
    ASSUME MetricsInv, flushThrows
    PROVE  MetricsInv'
<1>1. BatchShape /\ LevelsHold /\ CountersHold /\ SummariesHold /\ OneWindow
  BY DEF MetricsInv
<1>2. /\ custom' = NoSeries /\ failed' = TRUE /\ hasBatch' = FALSE
      /\ UNCHANGED <<initialValue, labelled, value, warned, summaryWindow, observed, lastFlushed,
                     awaiting, delivered, reported, seededLate, lastBatch>>
  BY DEF flushThrows, metricAppVars
<1>3. DOMAIN custom' = {}
  BY <1>2 DEF NoSeries
<1>4. BatchShape'
  BY <1>1, <1>2, <1>3 DEF BatchShape
<1>5. CountersHold' /\ SummariesHold'
  BY <1>1, <1>2, <1>3, CountersStay, SummariesStay
<1>6. LevelsHold' /\ OneWindow'
  BY <1>1, <1>2 DEF LevelsHold, OneWindow
<1> QED BY <1>4, <1>5, <1>6 DEF MetricsInv

\* The metrics as the application first asks for them.
LEMMA MetricsInits == MetricsInit => MetricsInv
<1> SUFFICES ASSUME MetricsInit PROVE MetricsInv
  OBVIOUS
<1>1. initialValue \in Nat
  BY CustomMetricsAssumption DEF MetricsInit, CounterInit, admitsFinite
<1>2. DOMAIN NoSeries = {} /\ DOMAIN custom = {} /\ DOMAIN lastBatch = {}
  BY DEF MetricsInit, NoSeries
<1>3. BatchShape
  BY <1>1, <1>2 DEF MetricsInit, BatchShape
<1>4. LevelHolds(NoSeries)
  BY <1>2, FS_EmptySet, CustomMetricsAssumption DEF LevelHolds
<1>5. LevelHolds(Put(NoSeries, DEFAULT_LABEL, initialValue))
  <2>1. Cardinality(DOMAIN NoSeries) < MAX_SERIES_PER_METRIC
    BY <1>2, FS_EmptySet, CustomMetricsAssumption
  <2>2. DEFAULT_LABEL \in Series /\ DEFAULT_LABEL \notin LongKeys
    BY CustomMetricsAssumption DEF Series
  <2> QED BY <1>1, <1>4, <2>1, <2>2, LevelPut
<1>6. LevelsHold
  <2>1. DEFAULT_LABEL \in DOMAIN Put(NoSeries, DEFAULT_LABEL, initialValue)
    BY DEF Put
  <2> QED BY <1>4, <1>5, <2>1 DEF MetricsInit, LevelsHold, ReadingInit
<1>7. CountersHold
  <2> SUFFICES ASSUME NEW c \in Counters PROVE CounterHolds(c)
    BY DEF CountersHold, MetricsInit, CounterInit
  <2>1. lastFlushed[c] = NoSeries /\ delivered[c] = NoSeries
    BY DEF MetricsInit, CounterInit
  <2>2. \A s : At(NoSeries, s, 0) = 0
    BY <1>2 DEF At
  <2>3. \A s \in DOMAIN value[c] : value[c][s] = initialValue
    <3>1. value[c] = NoSeries \/ value[c] = Put(NoSeries, DEFAULT_LABEL, initialValue)
      BY DEF MetricsInit, ReadingInit, Levels
    <3> QED BY <1>2, <3>1 DEF Put
  <2> QED BY <1>1, <1>2, <2>1, <2>2, <2>3 DEF CounterHolds, Measured
<1>8. SummariesHold
  <2> SUFFICES ASSUME NEW m \in Summaries PROVE SummaryHolds(m)
    BY DEF SummariesHold, MetricsInit, SummaryInit
  <2>1. summaryWindow[m] = NoSeries /\ reported[m] = 0 /\ observed[m] = 0
    BY DEF MetricsInit, SummaryInit
  <2>2. Counts(NoSeries) = [s \in {} |-> 0] /\ WindowHolds(NoSeries)
    BY FS_EmptySet DEF Counts, NoSeries, WindowHolds
  <2> QED BY <1>2, <2>1, <2>2, CountOfNone DEF SummaryHolds
<1>9. OneWindow
  BY <1>2 DEF OneWindow
<1> QED BY <1>3, <1>6, <1>7, <1>8, <1>9 DEF MetricsInv

LEMMA MetricsStep ==
    ASSUME NaN \notin Seeds, MetricsInv, [MetricsNext]_metricVars
    PROVE  MetricsInv'
<1>0. /\ warned \subseteq Levels /\ labelled \subseteq Metrics
      /\ Counters \subseteq Levels /\ Gauges \subseteq Levels /\ Levels \subseteq Metrics
      /\ Summaries \subseteq Metrics
  BY DEF MetricsInv, BatchShape, Levels, Metrics
<1>1. ASSUME NEW m \in Metrics, declareLabels(m) PROVE MetricsInv'
  <2>1. UNCHANGED <<initialValue, value, summaryWindow, lastFlushed, custom, awaiting, delivered,
                    observed, reported, failed, seededLate, lastBatch, warned, hasBatch>>
    BY <1>1 DEF declareLabels, metricBatchVars, metricHistory
  <2>2. labelled' = labelled \cup {m}
    BY <1>1 DEF declareLabels
  <2> QED BY <1>0, <2>1, <2>2, QuietStep
<1>2. ASSUME NEW c \in Counters, incrementCounter(c) \/ counter(c) PROVE MetricsInv'
  BY <1>0, <1>1, <1>2, IncrementStep, SeedStep DEF counter
<1>3. ASSUME NEW g \in Gauges, incrementGauge(g) \/ decrementGauge(g) \/ setGauge(g) \/ gauge(g)
      PROVE  MetricsInv'
  BY <1>0, <1>1, <1>3, GaugeStep, SeedStep DEF gauge
<1>4. ASSUME NEW m \in Summaries, observe(m) \/ summary(m) PROVE MetricsInv'
  BY <1>0, <1>1, <1>4, ObserveStep DEF summary
<1>5. CASE insertOther
  <2>1. /\ UNCHANGED <<initialValue, value, summaryWindow, lastFlushed, custom, awaiting, delivered,
                       observed, reported, failed, seededLate, lastBatch, warned, labelled>>
        /\ hasBatch' = TRUE
    BY <1>5 DEF insertOther, metricAppVars, metricHistory
  <2> QED BY <1>0, <2>1, QuietStep
<1>6. CASE flushWritten \/ flushThrows
  BY <1>6, WrittenStep, ThrownStep
<1>7. CASE UNCHANGED metricVars
  <2>1. UNCHANGED <<initialValue, value, summaryWindow, lastFlushed, custom, awaiting, delivered,
                    observed, reported, failed, seededLate, lastBatch, warned, labelled, hasBatch>>
    BY <1>7 DEF metricVars, metricAppVars, metricHistory
  <2> QED BY <1>0, <2>1, QuietStep
<1> QED BY <1>2, <1>3, <1>4, <1>5, <1>6, <1>7 DEF MetricsNext

\* Whatever an application does with its metrics, and whichever batches are
\* written: an increase and an observation are reported at most once, and exactly
\* once as long as no batch was thrown away; the series stay within their cap and
\* the sample within its size; what one report says of a summary fits together.
\* An initial value given to a metric that exists has to be a number
\* (TracerService.counter does not look).
THEOREM MetricsAreReported ==
    ASSUME NaN \notin Seeds
    PROVE  MetricsSpec => []MetricsReportedOnce
<1>1. MetricsInv /\ [MetricsNext]_metricVars => MetricsInv'
  BY MetricsStep
<1>2. MetricsInv => MetricsReportedOnce
  <2> SUFFICES ASSUME MetricsInv PROVE MetricsReportedOnce
    OBVIOUS
  <2>1. BatchShape /\ LevelsHold /\ CountersHold /\ SummariesHold /\ OneWindow
    BY DEF MetricsInv
  <2>2. SeriesBounded
    <3>1. ASSUME NEW m \in Summaries, NEW s \in DOMAIN summaryWindow[m]
          PROVE  Len(summaryWindow[m][s].samples) <= sampleSize
      BY <2>1, CustomMetricsAssumption DEF SummariesHold, SummaryHolds, WindowHolds, ReadingHolds
    <3> QED BY <2>1, <3>1 DEF SeriesBounded, BatchShape, LevelsHold, LevelHolds
  <2>3. IncreaseReportedOnce
    BY <2>1 DEF IncreaseReportedOnce, CountersHold, CounterHolds, Measured
  <2>4. ObservationReportedOnce
    BY <2>1 DEF ObservationReportedOnce, SummariesHold, SummaryHolds, Counts
  <2> QED BY <2>1, <2>2, <2>3, <2>4 DEF MetricsReportedOnce
<1> QED BY <1>1, <1>2, MetricsInits, PTL DEF MetricsSpec
=============================================================================
