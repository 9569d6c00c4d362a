-------------------------- MODULE FinalFlush_proofs --------------------------
(***************************************************************************)
(* FinalFlush for any number of operations, log lines, refusals and        *)
(* crashes: what is recorded when the shutdown begins is delivered by the  *)
(* time the final flush calls itself done, and no batch is written over.   *)
(*                                                                         *)
(* What the invariant adds to the properties is the order of the event     *)
(* loop: the timers set before the shutdown fire before its own sleep(0)   *)
(* does, so no trace that was due is still on a timer once the flush has   *)
(* begun; and the emptiness of the slot a pass has seen lasts until that   *)
(* pass writes, since nobody but the main thread fills it.                 *)
(***************************************************************************)
EXTENDS FinalFlush, SequenceTheorems, TLAPS

\* Queues: what they hold, that they hold it once, and who is before whom.
Elems(s)       == {s[i] : i \in DOMAIN s}
Once(s)        == \A i, j \in 1..Len(s) : s[i] = s[j] => i = j
Before(s, x, y) == \E i, j \in 1..Len(s) : i < j /\ s[i] = x /\ s[j] = y

\* The places of what the final flush has to deliver.
OwedPlaces == {"batch", "pending", "slot", "timer", "plucking", "answered", "dropped"}

QueuesInOrder ==
    /\ Once(micro) /\ Once(timers)
    /\ shutPc # "sleep0" => "sleep0" \notin Elems(timers)
OwedKept ==
    /\ shutPc = "running" => owed = {}
    /\ \A i \in owed : where[i] \in OwedPlaces
TimersFirst ==
    \A i \in owed : where[i] = "timer" =>
        shutPc = "sleep0" /\ Before(timers, i, "sleep0")
PassInOrder ==
    /\ isTerminating <=> shutPc # "running"
    /\ shutPc = "flush" => At("slot") = {}
    /\ end = "drained" => shutPc \in {"terminate", "terminated"}

\* The inductive invariant.
ShutdownInv ==
    /\ TypeOK
    /\ QueuesInOrder /\ OwedKept /\ TimersFirst /\ PassInOrder
    /\ DrainedMeansAnswered

-----------------------------------------------------------------------------
\* Queueing an element, and taking the oldest.
LEMMA Queued ==
    ASSUME NEW S, NEW s \in Seq(S), NEW x \in S
    PROVE  /\ Elems(Append(s, x)) = Elems(s) \cup {x}
           /\ Once(s) /\ x \notin Elems(s) => Once(Append(s, x))
           /\ \A a, b : Before(s, a, b) => Before(Append(s, x), a, b)
           /\ \A a : a \in Elems(s) => Before(Append(s, x), a, x)
<1> DEFINE t == Append(s, x)
<1>1. /\ t \in Seq(S) /\ Len(t) = Len(s) + 1 /\ Len(s) \in Nat /\ t[Len(t)] = x
      /\ \A i \in 1..Len(s) : t[i] = s[i]
      /\ DOMAIN s = 1..Len(s) /\ DOMAIN t = 1..Len(t)
  OBVIOUS
<1> HIDE DEF t
<1>2. Elems(t) = Elems(s) \cup {x}
  <2>1. 1..Len(t) = 1..Len(s) \cup {Len(t)}
    BY <1>1
  <2> QED BY <1>1, <2>1 DEF Elems
<1>3. Once(s) /\ x \notin Elems(s) => Once(t)
  BY <1>1 DEF Once, Elems
<1>4. ASSUME NEW a, NEW b, Before(s, a, b) PROVE Before(t, a, b)
  BY <1>1, <1>4 DEF Before
<1>5. ASSUME NEW a, a \in Elems(s) PROVE Before(t, a, x)
  BY <1>1, <1>5 DEF Before, Elems
<1> QED BY <1>2, <1>3, <1>4, <1>5 DEF t

LEMMA Taken ==
    ASSUME NEW S, NEW s \in Seq(S), s # <<>>
    PROVE  /\ Head(s) \in Elems(s) /\ Head(s) \in S
           /\ Once(s) => Elems(Tail(s)) = Elems(s) \ {Head(s)} /\ Once(Tail(s))
           /\ \A a, b : Before(s, a, b) /\ Head(s) # a => Before(Tail(s), a, b)
           /\ Once(s) => \A a : ~Before(s, a, Head(s))
           /\ \A a, b : Before(s, a, b) => a \in Elems(s) /\ b \in Elems(s)
<1> DEFINE t == Tail(s)
<1>1. /\ t \in Seq(S) /\ Len(t) = Len(s) - 1 /\ Len(s) \in Nat /\ Len(s) > 0
      /\ \A i \in 1..Len(t) : t[i] = s[i + 1]
      /\ Head(s) = s[1] /\ Head(s) \in S
      /\ DOMAIN s = 1..Len(s) /\ DOMAIN t = 1..Len(t)
  OBVIOUS
<1>2. \A i \in 2..Len(s) : i - 1 \in 1..Len(t) /\ t[i - 1] = s[i]
  BY <1>1
<1> HIDE DEF t
<1>3. Head(s) \in Elems(s)
  BY <1>1 DEF Elems
<1>4. ASSUME Once(s) PROVE Elems(t) = Elems(s) \ {Head(s)} /\ Once(t)
  <2>1. ASSUME NEW x \in Elems(t) PROVE x \in Elems(s) \ {Head(s)}
    BY <1>1, <1>4, <2>1 DEF Elems, Once
  <2>2. ASSUME NEW x \in Elems(s), x # Head(s) PROVE x \in Elems(t)
    <3>1. PICK i \in 1..Len(s) : x = s[i]
      BY <1>1 DEF Elems
    <3>2. i \in 2..Len(s)
      BY <1>1, <2>2, <3>1
    <3> QED BY <1>1, <1>2, <3>1, <3>2 DEF Elems
  <2>3. Once(t)
    BY <1>1, <1>4 DEF Once
  <2> QED BY <2>1, <2>2, <2>3
<1>5. ASSUME NEW a, NEW b, Before(s, a, b), Head(s) # a PROVE Before(t, a, b)
  <2>1. PICK i, j \in 1..Len(s) : i < j /\ s[i] = a /\ s[j] = b
    BY <1>5 DEF Before
  <2>2. i \in 2..Len(s) /\ j \in 2..Len(s)
    BY <1>1, <1>5, <2>1
  <2> QED BY <1>1, <1>2, <2>1, <2>2 DEF Before
<1>6. Once(s) => \A a : ~Before(s, a, Head(s))
  BY <1>1 DEF Once, Before
<1>7. \A a, b : Before(s, a, b) => a \in Elems(s) /\ b \in Elems(s)
  BY <1>1 DEF Before, Elems
<1> QED BY <1>1, <1>3, <1>4, <1>5, <1>6, <1>7 DEF t

-----------------------------------------------------------------------------
\* Only operations have a completion that is due.
LEMMA OnlyOps ==
    ASSUME ShutdownInv
    PROVE  /\ \A i \in Items : where[i] \in {"microtask", "timer"} => i \in Ops
           /\ \A i \in Items : where[i] = "microtask" <=> i \in Elems(micro)
           /\ \A i \in Items : where[i] = "timer" <=> i \in Elems(timers) /\ i # "sleep0"
           /\ Elems(micro) \subseteq Ops /\ Elems(timers) \subseteq Ops \cup {"sleep0"}
           /\ "sleep0" \notin Ops /\ Ops \subseteq Items
<1>1. /\ micro \in Seq(Ops) /\ timers \in Seq(Ops \cup {"sleep0"})
      /\ At("microtask") = Elems(micro) /\ At("timer") = Elems(timers) \ {"sleep0"}
  BY DEF ShutdownInv, TypeOK, Elems
<1>2. Elems(micro) \subseteq Ops /\ Elems(timers) \subseteq Ops \cup {"sleep0"}
  BY <1>1 DEF Elems
<1> QED BY <1>1, <1>2, FinalFlushAssumption DEF At, Items

\* What a step may do to items that are in no queue of the event loop: none
\* enters or leaves a queue, and what is owed goes from one of its places to
\* another.  Of the shutdown it only needs to be told where a pass goes.
LEMMA QueuesUntouched ==
    ASSUME ShutdownInv, UNCHANGED <<micro, timers, owed>>,
           where' \in [Items -> {"none", "microtask", "timer", "plucking", "batch", "pending",
                                 "slot", "overwritten", "dropped", "answered"}],
           \A i \in Items : where[i] \in {"microtask", "timer"} \/ where'[i] \in {"microtask", "timer"}
                                => where'[i] = where[i],
           \A i \in owed : where'[i] \in OwedPlaces,
           shutPc' \in {"running", "sleep0"} => shutPc' = shutPc,
           shutPc = "sleep0" => shutPc' = "sleep0"
    PROVE  /\ QueuesInOrder' /\ OwedKept' /\ TimersFirst'
           /\ At("microtask")' = {micro'[i] : i \in DOMAIN micro'}
           /\ At("timer")' = {timers'[i] : i \in DOMAIN timers'} \ {"sleep0"}
<1>1. /\ owed \subseteq Items
      /\ At("microtask") = {micro[i] : i \in DOMAIN micro}
      /\ At("timer") = {timers[i] : i \in DOMAIN timers} \ {"sleep0"}
      /\ QueuesInOrder /\ OwedKept /\ TimersFirst
  BY DEF ShutdownInv, TypeOK
<1>2. At("microtask")' = At("microtask") /\ At("timer")' = At("timer")
  BY DEF At
<1>3. QueuesInOrder'
  BY <1>1 DEF QueuesInOrder, Elems, Once
<1>4. OwedKept'
  BY <1>1 DEF OwedKept
<1>5. TimersFirst'
  BY <1>1 DEF TimersFirst, Before
<1> QED BY <1>1, <1>2, <1>3, <1>4, <1>5

\* The steps that move no item: the worker's, and most of a pass.
LEMMA NothingMoves ==
    ASSUME ShutdownInv, UNCHANGED <<where, micro, timers, owed>>,
           shutPc' \in {"running", "sleep0"} => shutPc' = shutPc,
           shutPc = "sleep0" => shutPc' = "sleep0"
    PROVE  /\ QueuesInOrder' /\ OwedKept' /\ TimersFirst'
           /\ At("microtask")' = {micro'[i] : i \in DOMAIN micro'}
           /\ At("timer")' = {timers'[i] : i \in DOMAIN timers'} \ {"sleep0"}
  BY QueuesUntouched DEF ShutdownInv, TypeOK, OwedKept

\* The worker never moves what a pass has yet to look at, or is done with.
LEMMA WorkerKeeps ==
    ASSUME ShutdownInv, WorkerStep \/ pauseLapses \/ workerCrash
    PROVE  ShutdownInv'
<1> USE DEF loopVars, workerVars, shutVars
<1>1. CASE acquireLock \/ sent \/ refused \/ pauseLapses \/ workerCrash
  <2>1. /\ UNCHANGED <<where, open, micro, timers, shutVars, pauseHeard>>
    BY <1>1 DEF acquireLock, sent, refused, pauseLapses, workerCrash
  <2>2. /\ QueuesInOrder' /\ OwedKept' /\ TimersFirst'
        /\ At("microtask")' = {micro'[i] : i \in DOMAIN micro'}
        /\ At("timer")' = {timers'[i] : i \in DOMAIN timers'} \ {"sleep0"}
    BY <2>1, NothingMoves
  <2>3. TypeOK'
    <3>1. FlagsOK'
      BY <1>1, <2>1 DEF ShutdownInv, TypeOK, FlagsOK, acquireLock, sent, refused, pauseLapses,
                        workerCrash
    <3>2. /\ workerPc' \in {"idle", "sending", "clear", "dead"}
          /\ refusals' \in Nat /\ crashes' \in Nat
      BY <1>1 DEF ShutdownInv, TypeOK, acquireLock, sent, refused, pauseLapses, workerCrash
    <3> QED BY <2>1, <2>2, <3>1, <3>2 DEF ShutdownInv, TypeOK
  <2>4. PassInOrder' /\ DrainedMeansAnswered'
    BY <2>1 DEF ShutdownInv, PassInOrder, DrainedMeansAnswered, At
  <2> QED BY <2>2, <2>3, <2>4 DEF ShutdownInv
<1>2. CASE clearBuffer
  <2>1. /\ UNCHANGED <<open, micro, timers, shutVars, pauseHeard>>
        /\ where' = [i \in Items |-> IF where[i] = "slot" THEN "answered" ELSE where[i]]
    BY <1>2 DEF clearBuffer, Move, At
  <2>2. /\ QueuesInOrder' /\ OwedKept' /\ TimersFirst'
        /\ At("microtask")' = {micro'[i] : i \in DOMAIN micro'}
        /\ At("timer")' = {timers'[i] : i \in DOMAIN timers'} \ {"sleep0"}
    BY <2>1, QueuesUntouched DEF ShutdownInv, TypeOK, OwedKept, OwedPlaces
  <2>3. TypeOK'
    <3>1. FlagsOK'
      BY <1>2, <2>1 DEF ShutdownInv, TypeOK, FlagsOK, clearBuffer
    <3> QED BY <1>2, <2>1, <2>2, <3>1 DEF ShutdownInv, TypeOK, clearBuffer
  <2>4. PassInOrder' /\ DrainedMeansAnswered'
    BY <2>1 DEF ShutdownInv, TypeOK, PassInOrder, DrainedMeansAnswered, At
  <2> QED BY <2>2, <2>3, <2>4 DEF ShutdownInv
<1> QED BY <1>1, <1>2 DEF WorkerStep

\* A flush moves the batch, the lines drained into it and what was in the slot.
LEMMA FlushMoves ==
    ASSUME ShutdownInv, NEW lines \in SUBSET At("pending"), FlushWith(lines)
    PROVE  /\ where' \in [Items -> {"none", "microtask", "timer", "plucking", "batch", "pending",
                                    "slot", "overwritten", "dropped", "answered"}]
           /\ \A i \in Items :
                 \/ where'[i] = where[i]
                 \/ where[i] \in {"batch", "pending"} /\ where'[i] \in {"batch", "slot", "dropped"}
                 \/ where[i] = "slot" /\ where'[i] = "overwritten"
<1>1. where \in [Items -> {"none", "microtask", "timer", "plucking", "batch", "pending",
                           "slot", "overwritten", "dropped", "answered"}]
  BY DEF ShutdownInv, TypeOK
<1>2. CASE where' = Move(lines, "batch")
  BY <1>1, <1>2 DEF Move, At
<1>3. CASE where' = [i \in Items |-> IF i \in At("batch") \cup lines THEN "slot"
                                     ELSE IF where[i] = "slot" THEN "overwritten" ELSE where[i]]
  BY <1>1, <1>3 DEF At
<1>4. CASE where' = Move(At("batch") \cup lines, "dropped")
  BY <1>1, <1>4 DEF Move, At
<1> QED BY <1>2, <1>3, <1>4 DEF FlushWith

\* finalFlush() drains lines that were held back, and flushes.
LEMMA FinalFlushMoves ==
    ASSUME ShutdownInv, finalFlush
    PROVE  \E lines \in SUBSET At("pending") : FlushWith(lines)
  BY DEF finalFlush, Drained

\* A pass of the final flush.
LEMMA PassKeeps ==
    ASSUME ShutdownInv, PassStep \/ poll
    PROVE  ShutdownInv'
<1> USE DEF loopVars, workerVars, shutVars
<1> DEFINE QueuesKept ==
              /\ QueuesInOrder' /\ OwedKept' /\ TimersFirst'
              /\ At("microtask")' = {micro'[i] : i \in DOMAIN micro'}
              /\ At("timer")' = {timers'[i] : i \in DOMAIN timers'} \ {"sleep0"}
<1>1. ASSUME QueuesKept, UNCHANGED <<open, loopVars, workerVars, pauseHeard, isTerminating, exited, owed>>,
             where' \in [Items -> {"none", "microtask", "timer", "plucking", "batch", "pending",
                                   "slot", "overwritten", "dropped", "answered"}],
             shutPc' \in {"head", "flush", "after", "deadline", "poll", "terminate"},
             end' \in {"none", "exited", "paused", "drained", "deadline"},
             sampleLast' \in BOOLEAN
      PROVE  TypeOK'
  <2>1. FlagsOK'
    BY <1>1 DEF ShutdownInv, TypeOK, FlagsOK
  <2> QED BY <1>1, <2>1 DEF ShutdownInv, TypeOK
<1>2. ASSUME UNCHANGED <<where, open, loopVars, workerVars, pauseHeard, isTerminating, exited, owed>>,
             shutPc \in {"head", "after", "deadline", "poll"},
             shutPc' \in {"head", "flush", "after", "deadline", "poll", "terminate"},
             shutPc' = "flush" => At("slot") = {},
             end' \in {"none", "exited", "paused", "deadline"},
             sampleLast' \in BOOLEAN
      PROVE  ShutdownInv'
  <2>1. QueuesKept
    BY <1>2, NothingMoves
  <2>2. TypeOK'
    BY <1>1, <1>2, <2>1 DEF ShutdownInv, TypeOK
  <2>3. PassInOrder' /\ DrainedMeansAnswered'
    BY <1>2 DEF ShutdownInv, PassInOrder, DrainedMeansAnswered, At
  <2> QED BY <2>1, <2>2, <2>3 DEF ShutdownInv
<1>3. end \in {"none", "exited", "paused", "drained", "deadline"} /\ sampleLast \in BOOLEAN
  BY DEF ShutdownInv, TypeOK, FlagsOK
<1>4. shutPc \in {"head", "after", "deadline", "poll"} => end # "drained"
  BY DEF ShutdownInv, PassInOrder
<1>5. CASE giveUp
  BY <1>2, <1>3, <1>5 DEF giveUp, Pass
<1>6. CASE checkSlot
  BY <1>2, <1>3, <1>4, <1>6 DEF checkSlot, Pass
<1>7. CASE finalFlush
  <2>1. /\ UNCHANGED <<open, loopVars, workerVars, pauseHeard, isTerminating, exited, owed, sampleLast, end>>
        /\ shutPc = "flush" /\ shutPc' = "after"
    BY <1>7 DEF finalFlush, Pass
  <2>2. PICK lines \in SUBSET At("pending") : FlushWith(lines)
    BY <1>7, FinalFlushMoves
  <2>3. At("slot") = {} /\ end # "drained"
    BY <2>1 DEF ShutdownInv, PassInOrder
  <2>4. QueuesKept
    BY <2>1, <2>2, <2>3, FlushMoves, QueuesUntouched
    DEF ShutdownInv, TypeOK, OwedKept, OwedPlaces, At
  <2>5. TypeOK'
    BY <1>1, <1>3, <2>1, <2>2, <2>4, FlushMoves
  <2>6. PassInOrder' /\ DrainedMeansAnswered'
    BY <2>1, <2>3 DEF ShutdownInv, PassInOrder, DrainedMeansAnswered
  <2> QED BY <2>4, <2>5, <2>6 DEF ShutdownInv
<1>8. CASE addFinalRuntimeMetrics
  <2>1. /\ UNCHANGED <<open, loopVars, workerVars, pauseHeard, isTerminating, exited, owed, end>>
        /\ shutPc = "after" /\ shutPc' = "head" /\ sampleLast' = FALSE
        /\ where' \in {where, Move({"final sample"}, "batch")}
    BY <1>8 DEF addFinalRuntimeMetrics, Pass
  <2>2. CASE where' = where
    BY <1>2, <1>3, <1>4, <2>1, <2>2
  <2>3. CASE where' = Move({"final sample"}, "batch")
    <3>1. where["final sample"] \notin {"microtask", "timer"}
      BY OnlyOps, FinalFlushAssumption DEF Items, Samples
    <3>2. /\ where' \in [Items -> {"none", "microtask", "timer", "plucking", "batch", "pending",
                                   "slot", "overwritten", "dropped", "answered"}]
          /\ \A i \in Items : where'[i] = IF i = "final sample" THEN "batch" ELSE where[i]
      BY <2>3 DEF ShutdownInv, TypeOK, Move
    <3>3. QueuesKept
      BY <2>1, <3>1, <3>2, QueuesUntouched DEF ShutdownInv, TypeOK, OwedKept, OwedPlaces
    <3>4. TypeOK'
      BY <1>1, <1>3, <2>1, <3>2, <3>3
    <3>5. PassInOrder' /\ DrainedMeansAnswered'
      BY <1>4, <2>1 DEF ShutdownInv, PassInOrder, DrainedMeansAnswered
    <3> QED BY <3>3, <3>4, <3>5 DEF ShutdownInv
  <2> QED BY <2>1, <2>2, <2>3
<1>9. CASE drained
  <2>1. /\ UNCHANGED <<where, open, loopVars, workerVars, pauseHeard, isTerminating, exited, owed, sampleLast>>
        /\ shutPc = "after" /\ shutPc' = "terminate" /\ end' = "drained" /\ NothingLeft
    BY <1>9 DEF drained, Pass
  <2>2. QueuesKept
    BY <2>1, NothingMoves
  <2>3. TypeOK'
    BY <1>1, <1>3, <2>1, <2>2 DEF ShutdownInv, TypeOK
  <2>4. \A i \in owed : where[i] \in {"answered", "dropped"}
    BY <2>1 DEF ShutdownInv, TypeOK, OwedKept, TimersFirst, OwedPlaces, NothingLeft, At
  <2>5. PassInOrder' /\ DrainedMeansAnswered'
    BY <2>1, <2>4 DEF ShutdownInv, PassInOrder, DrainedMeansAnswered
  <2> QED BY <2>2, <2>3, <2>5 DEF ShutdownInv
<1>10. CASE somethingLeft \/ outOfTime \/ timeLeft \/ poll
  BY <1>2, <1>3, <1>4, <1>10 DEF somethingLeft, outOfTime, timeLeft, poll, Pass
<1>11. CASE terminate
  <2>1. /\ UNCHANGED <<where, open, loopVars, pauseHeard, isTerminating, exited, owed, sampleLast, end,
                      locked, ahead, workerPaused, pauseSaid, refusals, crashes>>
        /\ shutPc = "terminate" /\ shutPc' = "terminated" /\ workerPc' = "dead"
    BY <1>11 DEF terminate
  <2>2. QueuesKept
    BY <2>1, NothingMoves
  <2>3. TypeOK'
    <3>1. FlagsOK'
      BY <2>1 DEF ShutdownInv, TypeOK, FlagsOK
    <3> QED BY <2>1, <2>2, <3>1 DEF ShutdownInv, TypeOK
  <2>4. PassInOrder' /\ DrainedMeansAnswered'
    BY <2>1 DEF ShutdownInv, PassInOrder, DrainedMeansAnswered
  <2> QED BY <2>2, <2>3, <2>4 DEF ShutdownInv
<1> QED BY <1>5, <1>6, <1>7, <1>8, <1>9, <1>10, <1>11 DEF PassStep

\* What the steps of the event loop and the application leave of the invariant
\* once they have kept its queues in order.
LEMMA LoopKeeps ==
    ASSUME ShutdownInv, Free, UNCHANGED <<workerVars, pauseHeard, shutVars>>,
           where' \in [Items -> {"none", "microtask", "timer", "plucking", "batch", "pending",
                                 "slot", "overwritten", "dropped", "answered"}],
           open' \subseteq Ops, micro' \in Seq(Ops), timers' \in Seq(Ops \cup {"sleep0"}),
           At("microtask")' = Elems(micro'), At("timer")' = Elems(timers') \ {"sleep0"},
           QueuesInOrder', OwedKept', TimersFirst'
    PROVE  ShutdownInv'
<1> USE DEF loopVars, workerVars, shutVars
<1>1. FlagsOK'
  BY DEF ShutdownInv, TypeOK, FlagsOK
<1>2. TypeOK'
  BY <1>1 DEF ShutdownInv, TypeOK, Elems
<1>3. PassInOrder' /\ DrainedMeansAnswered'
  BY DEF ShutdownInv, PassInOrder, DrainedMeansAnswered, Free
<1> QED BY <1>2, <1>3 DEF ShutdownInv

\* The steps of the application that queue nothing.
LEMMA RecordingKeeps ==
    ASSUME ShutdownInv, endTraceStep \/ pushLogs \/ addNodeRuntimeMetrics \/ flushInterval \/ pluckSnapshot
    PROVE  ShutdownInv'
<1> USE DEF loopVars, shutVars
<1>1. /\ Free /\ UNCHANGED <<loopVars, workerVars, pauseHeard, shutVars>>
      /\ open' \subseteq Ops
  BY DEF ShutdownInv, TypeOK, Free, endTraceStep, pushLogs, addNodeRuntimeMetrics, flushInterval,
         pluckSnapshot
<1>2. where \in [Items -> {"none", "microtask", "timer", "plucking", "batch", "pending",
                           "slot", "overwritten", "dropped", "answered"}]
      /\ owed \subseteq Items /\ OwedKept
  BY DEF ShutdownInv, TypeOK
<1>3. /\ where' \in [Items -> {"none", "microtask", "timer", "plucking", "batch", "pending",
                               "slot", "overwritten", "dropped", "answered"}]
      /\ \A i \in Items : where[i] \in {"microtask", "timer"} \/ where'[i] \in {"microtask", "timer"}
                              => where'[i] = where[i]
      /\ \A i \in owed : where'[i] \in OwedPlaces
  <2>1. CASE endTraceStep
    BY <1>2, <2>1 DEF endTraceStep, OwedKept
  <2>2. CASE pushLogs
    <3>1. PICK line \in Items, place \in {"batch", "pending"} :
              where[line] = "none" /\ where' = Move({line}, place)
      BY <2>2 DEF pushLogs, Items
    <3> QED BY <1>2, <3>1 DEF Move, OwedKept, OwedPlaces
  <2>3. CASE addNodeRuntimeMetrics
    BY <1>2, <2>3 DEF addNodeRuntimeMetrics, Move, OwedKept, OwedPlaces
  <2>4. CASE flushInterval
    <3>1. PICK lines \in SUBSET At("pending") : FlushWith(lines)
      BY <2>4 DEF flushInterval, Drained
    <3>2. owed = {}
      BY <1>2, <2>4 DEF flushInterval, OwedKept
    <3> QED BY <3>1, <3>2, FlushMoves
  <2>5. CASE pluckSnapshot
    <3>1. PICK op \in At("plucking") : where' = Move({op}, "batch")
      BY <2>5 DEF pluckSnapshot
    <3> QED BY <1>2, <3>1 DEF Move, At, OwedKept, OwedPlaces
  <2> QED BY <2>1, <2>2, <2>3, <2>4, <2>5
<1>4. /\ QueuesInOrder' /\ OwedKept' /\ TimersFirst'
      /\ At("microtask")' = Elems(micro') /\ At("timer")' = Elems(timers') \ {"sleep0"}
  BY <1>1, <1>3, QueuesUntouched DEF Elems
<1>5. micro' \in Seq(Ops) /\ timers' \in Seq(Ops \cup {"sleep0"})
  BY <1>1 DEF ShutdownInv, TypeOK
<1> QED BY <1>1, <1>3, <1>4, <1>5, LoopKeeps

\* An operation is over: its completion is queued behind the others.
LEMMA DeferKeeps ==
    ASSUME ShutdownInv, deferTraceCompletion
    PROVE  ShutdownInv'
<1> USE DEF shutVars
<1>1. PICK op \in Ops : /\ where[op] = "none" /\ where' = Move({op}, "microtask")
                        /\ micro' = Append(micro, op) /\ open' \in {open, open \cup {op}}
  BY DEF deferTraceCompletion
<1>2. Free /\ UNCHANGED <<timers, pauseHeard, workerVars, shutVars>>
  BY DEF deferTraceCompletion
<1>3. /\ micro \in Seq(Ops) /\ QueuesInOrder /\ OwedKept /\ TimersFirst /\ open \subseteq Ops
      /\ owed \subseteq Items /\ timers \in Seq(Ops \cup {"sleep0"})
      /\ where \in [Items -> {"none", "microtask", "timer", "plucking", "batch", "pending",
                              "slot", "overwritten", "dropped", "answered"}]
  BY DEF ShutdownInv, TypeOK
<1>4. op \in Items /\ op \notin Elems(micro) /\ op \notin owed
  BY <1>1, <1>3, OnlyOps DEF OwedKept, OwedPlaces
<1>5. /\ where' \in [Items -> {"none", "microtask", "timer", "plucking", "batch", "pending",
                               "slot", "overwritten", "dropped", "answered"}]
      /\ \A i \in Items : where'[i] = IF i = op THEN "microtask" ELSE where[i]
  BY <1>1, <1>3, <1>4 DEF Move
<1>6. Elems(micro') = Elems(micro) \cup {op} /\ Once(micro') /\ micro' \in Seq(Ops)
  BY <1>1, <1>3, <1>4, Queued DEF QueuesInOrder
<1>7. At("microtask")' = Elems(micro') /\ At("timer")' = Elems(timers') \ {"sleep0"}
  <2>1. At("microtask")' = {i \in Items : i = op \/ where[i] = "microtask"}
    BY <1>5 DEF At
  <2>2. At("timer")' = {i \in Items : where[i] = "timer"}
    BY <1>1, <1>5 DEF At
  <2> QED BY <1>2, <1>4, <1>6, <2>1, <2>2, OnlyOps
<1>8. QueuesInOrder'
  BY <1>2, <1>3, <1>6 DEF QueuesInOrder, Elems, Once
<1>9. OwedKept'
  BY <1>2, <1>3, <1>4, <1>5 DEF OwedKept
<1>10. TimersFirst'
  BY <1>2, <1>3, <1>4, <1>5 DEF TimersFirst, Before
<1> QED BY <1>1, <1>2, <1>3, <1>5, <1>6, <1>7, <1>8, <1>9, <1>10, LoopKeeps

\* Its completion is due: it goes into the batch, or behind the other timers.
LEMMA MicrotaskKeeps ==
    ASSUME ShutdownInv, completionMicrotask
    PROVE  ShutdownInv'
<1> USE DEF shutVars
<1> DEFINE op == Head(micro)
<1>1. /\ micro \in Seq(Ops) /\ micro # <<>> /\ micro' = Tail(micro) /\ Free
      /\ UNCHANGED <<open, pauseHeard, workerVars, shutVars>>
      /\ QueuesInOrder /\ OwedKept /\ TimersFirst /\ open \subseteq Ops
      /\ owed \subseteq Items /\ timers \in Seq(Ops \cup {"sleep0"})
      /\ where \in [Items -> {"none", "microtask", "timer", "plucking", "batch", "pending",
                              "slot", "overwritten", "dropped", "answered"}]
  BY DEF ShutdownInv, TypeOK, completionMicrotask
<1>2. /\ \/ where' = Move({op}, "timer") /\ timers' = Append(timers, op)
         \/ where' = Move({op}, "batch") /\ timers' = timers
  BY DEF completionMicrotask
<1>3. /\ op \in Elems(micro) /\ op \in Ops /\ Elems(micro') = Elems(micro) \ {op}
      /\ Once(micro') /\ micro' \in Seq(Ops)
  BY <1>1, Taken DEF QueuesInOrder
<1> HIDE DEF op
<1>4. op \in Items /\ where[op] = "microtask" /\ op \notin owed /\ op \notin Elems(timers)
      /\ op # "sleep0"
  BY <1>1, <1>3, OnlyOps DEF OwedKept, OwedPlaces
<1>5. ASSUME NEW place \in {"timer", "batch"}, where' = Move({op}, place)
      PROVE  /\ where' \in [Items -> {"none", "microtask", "timer", "plucking", "batch", "pending",
                                      "slot", "overwritten", "dropped", "answered"}]
             /\ \A i \in Items : where'[i] = IF i = op THEN place ELSE where[i]
             /\ At("microtask")' = Elems(micro') /\ OwedKept'
  <2>1. /\ where' \in [Items -> {"none", "microtask", "timer", "plucking", "batch", "pending",
                                 "slot", "overwritten", "dropped", "answered"}]
        /\ \A i \in Items : where'[i] = IF i = op THEN place ELSE where[i]
    BY <1>1, <1>4, <1>5 DEF Move
  <2>2. At("microtask")' = {i \in Items : where[i] = "microtask" /\ i # op}
    BY <2>1 DEF At
  <2>3. At("microtask")' = Elems(micro')
    BY <1>3, <2>2, OnlyOps
  <2>4. OwedKept'
    BY <1>1, <1>4, <2>1 DEF OwedKept
  <2> QED BY <2>1, <2>3, <2>4
<1>6. CASE where' = Move({op}, "timer") /\ timers' = Append(timers, op)
  <2>1. /\ Elems(timers') = Elems(timers) \cup {op} /\ Once(timers')
        /\ timers' \in Seq(Ops \cup {"sleep0"})
        /\ \A a, b : Before(timers, a, b) => Before(timers', a, b)
    BY <1>1, <1>3, <1>4, <1>6, Queued DEF QueuesInOrder
  <2>2. At("timer")' = Elems(timers') \ {"sleep0"}
    <3>1. At("timer")' = {i \in Items : where[i] = "timer" \/ i = op}
      BY <1>5, <1>6 DEF At
    <3> QED BY <1>4, <2>1, <3>1, OnlyOps
  <2>3. QueuesInOrder'
    BY <1>1, <1>3, <1>4, <2>1 DEF QueuesInOrder
  <2>4. TimersFirst'
    BY <1>1, <1>4, <1>5, <1>6, <2>1 DEF TimersFirst
  <2> QED BY <1>1, <1>3, <1>5, <1>6, <2>1, <2>2, <2>3, <2>4, LoopKeeps
<1>7. CASE where' = Move({op}, "batch") /\ timers' = timers
  <2>1. At("timer")' = Elems(timers') \ {"sleep0"}
    <3>1. At("timer")' = {i \in Items : where[i] = "timer"}
      BY <1>4, <1>5, <1>7 DEF At
    <3> QED BY <1>7, <3>1, OnlyOps
  <2>2. QueuesInOrder'
    BY <1>1, <1>3, <1>7 DEF QueuesInOrder, Elems, Once
  <2>3. TimersFirst'
    BY <1>1, <1>4, <1>5, <1>7 DEF TimersFirst, Before
  <2> QED BY <1>1, <1>3, <1>5, <1>7, <2>1, <2>2, <2>3, LoopKeeps
<1> QED BY <1>2, <1>6, <1>7

\* The oldest timer is a completion's.
LEMMA TimerKeeps ==
    ASSUME ShutdownInv, completionTimer
    PROVE  ShutdownInv'
<1> USE DEF shutVars
<1> DEFINE op == Head(timers)
<1>1. /\ timers # <<>> /\ op \in Ops /\ timers' = Tail(timers) /\ Free
      /\ UNCHANGED <<open, micro, pauseHeard, workerVars, shutVars>>
      /\ QueuesInOrder /\ OwedKept /\ TimersFirst /\ open \subseteq Ops /\ micro \in Seq(Ops)
      /\ owed \subseteq Items /\ timers \in Seq(Ops \cup {"sleep0"})
      /\ where \in [Items -> {"none", "microtask", "timer", "plucking", "batch", "pending",
                              "slot", "overwritten", "dropped", "answered"}]
  BY DEF ShutdownInv, TypeOK, completionTimer
<1>2. PICK place \in {"plucking", "batch"} : where' = Move({op}, place)
  BY DEF completionTimer
<1>3. /\ op \in Elems(timers) /\ Elems(timers') = Elems(timers) \ {op} /\ Once(timers')
      /\ timers' \in Seq(Ops \cup {"sleep0"})
      /\ \A a, b : Before(timers, a, b) /\ op # a => Before(timers', a, b)
  BY <1>1, Taken DEF QueuesInOrder
<1> HIDE DEF op
<1>4. op \in Items /\ where[op] = "timer" /\ op # "sleep0"
  BY <1>1, <1>3, OnlyOps
<1>5. /\ where' \in [Items -> {"none", "microtask", "timer", "plucking", "batch", "pending",
                               "slot", "overwritten", "dropped", "answered"}]
      /\ \A i \in Items : where'[i] = IF i = op THEN place ELSE where[i]
  BY <1>1, <1>2, <1>4 DEF Move
<1>6. At("microtask")' = Elems(micro') /\ At("timer")' = Elems(timers') \ {"sleep0"}
  <2>1. At("timer")' = {i \in Items : where[i] = "timer" /\ i # op}
    BY <1>5 DEF At
  <2>2. At("microtask")' = {i \in Items : where[i] = "microtask"}
    BY <1>4, <1>5 DEF At
  <2>3. At("timer")' = Elems(timers') \ {"sleep0"}
    BY <1>3, <2>1, OnlyOps
  <2>4. At("microtask")' = Elems(micro)
    BY <2>2, OnlyOps
  <2> QED BY <1>1, <2>3, <2>4
<1>7. QueuesInOrder'
  BY <1>1, <1>3 DEF QueuesInOrder, Once
<1>8. OwedKept'
  BY <1>1, <1>5 DEF OwedKept, OwedPlaces
<1>9. TimersFirst'
  BY <1>1, <1>3, <1>5 DEF TimersFirst
<1> QED BY <1>1, <1>3, <1>5, <1>6, <1>7, <1>8, <1>9, LoopKeeps

\* The oldest timer is the shutdown's own: no trace it owes is on one any more.
LEMMA SleepKeeps ==
    ASSUME ShutdownInv, sleep0
    PROVE  ShutdownInv'
<1> USE DEF loopVars, workerVars, shutVars
<1>1. /\ timers # <<>> /\ Head(timers) = "sleep0" /\ timers' = Tail(timers)
      /\ shutPc = "sleep0" /\ shutPc' = "head"
      /\ UNCHANGED <<where, open, micro, pauseHeard, workerVars, isTerminating, exited, sampleLast,
                     end, owed>>
      /\ QueuesInOrder /\ OwedKept /\ TimersFirst /\ timers \in Seq(Ops \cup {"sleep0"})
      /\ micro \in Seq(Ops)
  BY DEF ShutdownInv, TypeOK, sleep0
<1>2. /\ Elems(timers') = Elems(timers) \ {"sleep0"} /\ Once(timers')
      /\ timers' \in Seq(Ops \cup {"sleep0"}) /\ \A a : ~Before(timers, a, "sleep0")
  <2>1. /\ Elems(Tail(timers)) = Elems(timers) \ {Head(timers)} /\ Once(Tail(timers))
        /\ \A a : ~Before(timers, a, Head(timers))
    BY <1>1, Taken DEF QueuesInOrder
  <2>2. Tail(timers) \in Seq(Ops \cup {"sleep0"})
    BY <1>1
  <2> QED BY <1>1, <2>1, <2>2
<1>3. QueuesInOrder' /\ OwedKept' /\ TimersFirst'
  BY <1>1, <1>2 DEF QueuesInOrder, OwedKept, TimersFirst, Once
<1>4. TypeOK'
  <2>1. FlagsOK'
    BY <1>1 DEF ShutdownInv, TypeOK, FlagsOK
  <2>2. At("microtask")' = At("microtask") /\ At("timer")' = At("timer")
    BY <1>1 DEF At
  <2>3. At("microtask") = Elems(micro) /\ At("timer") = Elems(timers) \ {"sleep0"}
    BY DEF ShutdownInv, TypeOK, Elems
  <2>4. /\ At("microtask")' = {micro'[i] : i \in DOMAIN micro'}
        /\ At("timer")' = {timers'[i] : i \in DOMAIN timers'} \ {"sleep0"}
    BY <1>1, <1>2, <2>2, <2>3 DEF Elems
  <2> QED BY <1>1, <1>2, <2>1, <2>4 DEF ShutdownInv, TypeOK
<1>5. PassInOrder' /\ DrainedMeansAnswered'
  BY <1>1 DEF ShutdownInv, PassInOrder, DrainedMeansAnswered
<1> QED BY <1>3, <1>4, <1>5 DEF ShutdownInv

\* The shutdown begins: what it owes from now on is behind no timer but ones
\* already set.
LEMMA ShutDownKeeps ==
    ASSUME ShutdownInv, shutDown
    PROVE  ShutdownInv'
<1> USE DEF loopVars, workerVars, shutVars
<1>1. /\ shutPc = "running" /\ shutPc' = "sleep0" /\ timers' = Append(timers, "sleep0")
      /\ isTerminating' = TRUE
      /\ owed' = {i \in Items : where'[i] \in {"batch", "pending", "slot", "timer", "plucking"}}
      /\ UNCHANGED <<open, micro, pauseHeard, workerVars, exited, end>>
  BY DEF shutDown
<1>2. /\ micro \in Seq(Ops) /\ timers \in Seq(Ops \cup {"sleep0"}) /\ QueuesInOrder
      /\ where \in [Items -> {"none", "microtask", "timer", "plucking", "batch", "pending",
                              "slot", "overwritten", "dropped", "answered"}]
      /\ sampleLast' \in BOOLEAN /\ sampleLast \in BOOLEAN
  BY DEF ShutdownInv, TypeOK, FlagsOK, shutDown
<1>3. "final sample" \in Items /\ where["final sample"] \notin {"microtask", "timer"}
  BY OnlyOps, FinalFlushAssumption DEF Items, Samples
<1>4. /\ where' \in [Items -> {"none", "microtask", "timer", "plucking", "batch", "pending",
                               "slot", "overwritten", "dropped", "answered"}]
      /\ \A i \in Items : where[i] \in {"microtask", "timer"} \/ where'[i] \in {"microtask", "timer"}
                              => where'[i] = where[i]
  <2>1. CASE where' = where
    BY <1>2, <2>1
  <2>2. CASE where' = Move({"final sample"}, "batch")
    BY <1>2, <1>3, <2>2 DEF Move
  <2> QED BY <2>1, <2>2 DEF shutDown
<1>5. At("microtask")' = Elems(micro) /\ At("timer")' = Elems(timers) \ {"sleep0"}
  <2>1. At("microtask")' = At("microtask") /\ At("timer")' = At("timer")
    BY <1>4 DEF At
  <2> QED BY <2>1 DEF ShutdownInv, TypeOK, Elems
<1>6. /\ Elems(timers') = Elems(timers) \cup {"sleep0"} /\ Once(timers')
      /\ timers' \in Seq(Ops \cup {"sleep0"})
      /\ \A a : a \in Elems(timers) => Before(timers', a, "sleep0")
  BY <1>1, <1>2, Queued DEF QueuesInOrder
<1>7. QueuesInOrder' /\ OwedKept'
  BY <1>1, <1>2, <1>6 DEF QueuesInOrder, OwedKept, OwedPlaces, Once
<1>8. TimersFirst'
  BY <1>1, <1>5, <1>6 DEF TimersFirst, At
<1>9. TypeOK'
  <2>1. FlagsOK'
    BY <1>1, <1>2 DEF ShutdownInv, TypeOK, FlagsOK
  <2>2. /\ At("microtask")' = {micro'[i] : i \in DOMAIN micro'}
        /\ At("timer")' = {timers'[i] : i \in DOMAIN timers'} \ {"sleep0"}
    BY <1>1, <1>5, <1>6 DEF Elems
  <2> QED BY <1>1, <1>4, <1>6, <2>1, <2>2 DEF ShutdownInv, TypeOK
<1>10. PassInOrder' /\ DrainedMeansAnswered'
  BY <1>1 DEF ShutdownInv, PassInOrder, DrainedMeansAnswered
<1> QED BY <1>7, <1>8, <1>9, <1>10 DEF ShutdownInv

\* What the main thread hears of the worker.
LEMMA HearingKeeps ==
    ASSUME ShutdownInv, handlePaused \/ workerExits
    PROVE  ShutdownInv'
<1> USE DEF loopVars, workerVars, shutVars
<1>1. UNCHANGED <<where, open, micro, timers, shutPc, isTerminating, sampleLast, end, owed, locked,
                  ahead, refusals, crashes>>
  BY DEF handlePaused, workerExits
<1>2. /\ QueuesInOrder' /\ OwedKept' /\ TimersFirst'
      /\ At("microtask")' = {micro'[i] : i \in DOMAIN micro'}
      /\ At("timer")' = {timers'[i] : i \in DOMAIN timers'} \ {"sleep0"}
  BY <1>1, NothingMoves
<1>3. TypeOK'
  <2>1. FlagsOK'
    BY <1>1 DEF ShutdownInv, TypeOK, FlagsOK, handlePaused, workerExits
  <2>2. workerPc' \in {"idle", "sending", "clear", "dead"}
    BY DEF ShutdownInv, TypeOK, handlePaused, workerExits
  <2> QED BY <1>1, <1>2, <2>1, <2>2 DEF ShutdownInv, TypeOK
<1>4. PassInOrder' /\ DrainedMeansAnswered'
  BY <1>1 DEF ShutdownInv, PassInOrder, DrainedMeansAnswered, At
<1> QED BY <1>2, <1>3, <1>4 DEF ShutdownInv

-----------------------------------------------------------------------------
\* The order of the event loop and of the final flush's passes, in every state.
THEOREM ShutdownInOrder == Spec => []ShutdownInv
<1>1. Init => ShutdownInv
  <2> SUFFICES ASSUME Init PROVE ShutdownInv
    OBVIOUS
  <2>1. Elems(<<>>) = {} /\ Once(<<>>)
    BY DEF Elems, Once
  <2>2. /\ At("microtask") = {} /\ At("timer") = {} /\ At("slot") = {}
    BY DEF Init, At
  <2>3. FlagsOK
    BY DEF Init, FlagsOK
  <2>4. TypeOK
    <3>1. where \in [Items -> {"none"}] /\ micro \in Seq(Ops) /\ timers \in Seq(Ops \cup {"sleep0"})
      BY DEF Init
    <3> QED BY <2>1, <2>2, <2>3, <3>1 DEF Init, TypeOK, Elems
  <2>5. QueuesInOrder /\ OwedKept /\ TimersFirst
    BY <2>1 DEF Init, QueuesInOrder, OwedKept, TimersFirst
  <2>6. PassInOrder /\ DrainedMeansAnswered
    BY DEF Init, PassInOrder, DrainedMeansAnswered
  <2> QED BY <2>4, <2>5, <2>6 DEF ShutdownInv
<1>2. ShutdownInv /\ [Next]_vars => ShutdownInv'
  <2> SUFFICES ASSUME ShutdownInv, [Next]_vars PROVE ShutdownInv'
    OBVIOUS
  <2>1. CASE ApplicationStep
    BY <2>1, DeferKeeps, RecordingKeeps, ShutDownKeeps DEF ApplicationStep
  <2>2. CASE EventLoopStep
    BY <2>2, MicrotaskKeeps, TimerKeeps, RecordingKeeps, SleepKeeps, PassKeeps, HearingKeeps
    DEF EventLoopStep
  <2>3. CASE PassStep
    BY <2>3, PassKeeps
  <2>4. CASE WorkerStep \/ pauseLapses \/ workerCrash
    BY <2>4, WorkerKeeps
  <2>5. CASE UNCHANGED vars
    <3> USE <2>5 DEF vars, loopVars, workerVars, shutVars
    <3>1. TypeOK' /\ QueuesInOrder'
      BY DEF ShutdownInv, TypeOK, FlagsOK, QueuesInOrder, At, Elems, Once
    <3>2. OwedKept' /\ TimersFirst' /\ PassInOrder' /\ DrainedMeansAnswered'
      BY DEF ShutdownInv, OwedKept, TimersFirst, PassInOrder, DrainedMeansAnswered, At, Before
    <3> QED BY <3>1, <3>2 DEF ShutdownInv
  <2> QED BY <2>1, <2>2, <2>3, <2>4, <2>5 DEF Next
<1> QED BY <1>1, <1>2, PTL DEF Spec

\* Every item is in one place, and the event loop's queues hold exactly the
\* operations whose completion is due (deferTraceCompletion).
THEOREM EveryItemInOnePlace == Spec => []TypeOK
  BY ShutdownInOrder, PTL DEF ShutdownInv

\* When the final flush ends of its own accord, all that was recorded when the
\* shutdown began was answered or too large to send, however many operations,
\* lines, refusals and crashes there are (flushBeforeShutdown).
THEOREM DrainedIsAnswered == Spec => []DrainedMeansAnswered
  BY ShutdownInOrder, PTL DEF ShutdownInv

\* The final flush never writes over a batch the worker is not done with
\* (hasBatchAwaitingWorker, flushBeforeShutdown).
THEOREM NeverOverwritten == Spec => NothingOverwritten
<1> DEFINE Kept == \A i \in Items : where[i] = "slot" => where'[i] # "overwritten"
<1>1. ShutdownInv /\ [Next]_vars => [isTerminating => Kept]_vars
  <2> SUFFICES ASSUME ShutdownInv, Next, isTerminating, NEW i \in Items, where[i] = "slot"
               PROVE  where'[i] # "overwritten"
    OBVIOUS
  <2> USE DEF loopVars, workerVars, shutVars
  <2>1. shutPc # "running"
    BY DEF ShutdownInv, PassInOrder
  <2>2. CASE where' = where
    BY <2>2
  <2>3. CASE \E S \in SUBSET Items, place \in {"microtask", "timer", "plucking", "batch", "pending",
                                               "answered"} : where' = Move(S, place)
    BY <2>3 DEF Move
  <2>4. CASE finalFlush
    BY <2>4 DEF ShutdownInv, PassInOrder, finalFlush, Pass, At
  <2>5. CASE ApplicationStep
    BY <2>1, <2>2, <2>3, <2>5 DEF ApplicationStep, deferTraceCompletion, endTraceStep, pushLogs,
       addNodeRuntimeMetrics, flushInterval, shutDown, Items, Samples
  <2>6. CASE EventLoopStep
    <3>1. CASE completionMicrotask
      <4>1. {Head(micro)} \in SUBSET Items
        BY <3>1, Taken, OnlyOps DEF ShutdownInv, TypeOK, completionMicrotask
      <4> QED BY <2>3, <3>1, <4>1 DEF completionMicrotask
    <3>2. CASE completionTimer
      <4>1. {Head(timers)} \in SUBSET Items
        BY <3>2, OnlyOps DEF completionTimer
      <4> QED BY <2>3, <3>2, <4>1 DEF completionTimer
    <3>3. CASE pluckSnapshot
      BY <2>3, <3>3 DEF pluckSnapshot, At
    <3>4. CASE sleep0 \/ poll \/ handlePaused \/ workerExits
      BY <2>2, <3>4 DEF sleep0, poll, handlePaused, workerExits
    <3> QED BY <2>6, <3>1, <3>2, <3>3, <3>4 DEF EventLoopStep
  <2>7. CASE PassStep
    <3>1. CASE addFinalRuntimeMetrics
      BY <2>2, <2>3, <3>1 DEF addFinalRuntimeMetrics, Items, Samples
    <3> QED BY <2>2, <2>4, <2>7, <3>1 DEF PassStep, giveUp, checkSlot, drained, somethingLeft, outOfTime,
                                          timeLeft, terminate
  <2>8. CASE WorkerStep
    BY <2>2, <2>3, <2>8 DEF WorkerStep, acquireLock, sent, refused, clearBuffer, At
  <2>9. CASE pauseLapses \/ workerCrash
    BY <2>2, <2>9 DEF pauseLapses, workerCrash
  <2> QED BY <2>5, <2>6, <2>7, <2>8, <2>9 DEF Next
<1> QED BY <1>1, ShutdownInOrder, PTL DEF Spec, NothingOverwritten
=============================================================================
