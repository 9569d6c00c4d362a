------------------------------ MODULE MintedIds ------------------------------
(***************************************************************************)
(* The ids the agent mints: version 7 UUIDs, whose first six bytes are the *)
(* minting time and whose random bytes come from a pool that is refilled   *)
(* when it runs out.  A byte holds BYTE values (256), and every random     *)
(* byte the source delivers is its own number, so that using one twice     *)
(* shows.                                                                  *)
(***************************************************************************)
EXTENDS Integers, Sequences

CONSTANTS BYTE, RANDOM_BYTES_PER_ID, IdsPerPool,
          StartTimes,  \* when the process starts
          Leaps,       \* how far the clock may go on, or back, at a time
          MaxIds       \* bound: ids minted

TimeWord == BYTE * BYTE                   \* 2^16
MaxTime == TimeWord * TimeWord * TimeWord - 1     \* 48 bits

ASSUME MintedIdsAssumption ==
  /\ BYTE \in Nat \ {0, 1} /\ RANDOM_BYTES_PER_ID \in Nat \ {0} /\ IdsPerPool \in Nat \ {0}
  /\ StartTimes \subseteq 0 .. MaxTime /\ Leaps \subseteq Int /\ MaxIds \in Nat

VARIABLES pool, poolOffset, clock, minted
idVars == <<pool, poolOffset, clock, minted>>

PoolLength == RANDOM_BYTES_PER_ID * IdsPerPool

IdsInit == pool = [k \in 1 .. PoolLength |-> 0] /\ poolOffset = PoolLength
           /\ clock \in StartTimes /\ minted = <<>>

\* Faulty: the pool is refilled once it is past its end.
mustRefill_late == poolOffset > PoolLength
mustRefill == poolOffset + RANDOM_BYTES_PER_ID > PoolLength

\* Byte i of a word, most significant first.
ByteOf(word, shift) == (word \div shift) % BYTE
\* 48 bits big-endian, split 32/16.
timeBytes(now) ==
  LET high == now \div TimeWord  low == now % TimeWord
  IN <<ByteOf(high, TimeWord * BYTE), ByteOf(high, TimeWord), ByteOf(high, BYTE), high % BYTE,
       ByteOf(low, BYTE), low % BYTE>>

\* uuidv7(): pool bytes past the end of the pool would read as 0.
uuidv7 ==
  /\ Len(minted) < MaxIds
  /\ LET r == IF mustRefill THEN 0 ELSE poolOffset
         fresh == IF mustRefill THEN [k \in 1 .. PoolLength |-> PoolLength * (Len(minted) + 1) + k] ELSE pool
         bytes == [k \in 1 .. RANDOM_BYTES_PER_ID |-> IF r + k <= PoolLength THEN fresh[r + k] ELSE 0]
     IN /\ pool' = fresh /\ poolOffset' = r + RANDOM_BYTES_PER_ID
        /\ minted' = Append(minted, [at |-> clock, time |-> timeBytes(clock), random |-> bytes])
  /\ UNCHANGED clock

\* Date.now() goes on, or the clock is set back.
timePasses ==
  /\ Len(minted) < MaxIds
  /\ \E leap \in Leaps : clock + leap \in 0 .. MaxTime /\ clock' = clock + leap
  /\ UNCHANGED <<pool, poolOffset, minted>>

IdsNext == uuidv7 \/ timePasses
IdsSpec == IdsInit /\ [][IdsNext]_idVars

-----------------------------------------------------------------------------
\* The byte order of two times.
Before_(s, t) == \E i \in 1 .. 6 : s[i] < t[i] /\ \A j \in 1 .. i - 1 : s[j] = t[j]

\* "a v7 id tells the collector which chunk to open": ids compare as the times
\* they were minted at, however far apart (uuidv7).
IdsInTimeOrder ==
  \A i, j \in DOMAIN minted :
    minted[i].at < minted[j].at => Before_(minted[i].time, minted[j].time)

\* No random byte is in two ids, or twice in one, and every id has its full
\* share of them, across the pool's refills (uuidv7).
RandomBytesUsedOnce ==
  LET used == {<<i, k>> : i \in DOMAIN minted, k \in 1 .. RANDOM_BYTES_PER_ID}
  IN \A a, b \in used :
       /\ minted[a[1]].random[a[2]] # 0
       /\ a # b => minted[a[1]].random[a[2]] # minted[b[1]].random[b[2]]

\* Ids sort by the time they were minted at and no two share what tells them
\* apart (uuidv7).
IdsSortAndDiffer == IdsInTimeOrder /\ RandomBytesUsedOnce
=============================================================================
