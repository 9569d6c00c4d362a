----------------------------- MODULE Profiling -----------------------------
(* Continuous profiling: the recorder of which span ran when, the profiler's *)
(* bursts over the inspector, and the folding that joins the two.  Spans     *)
(* open and close at even times, V8 samples at odd ones.  A post of the      *)
(* inspector session is answered before the next window is due (a handshake  *)
(* takes microtasks, a window a minute), and in any order with the rest.     *)
EXTENDS Integers, Sequences, FiniteSets, SequencesExt

CONSTANTS MaxProfiledSpans,  \* spans are numbered as they start
          MAX_SLICES,
          ProfileNodes,     \* V8's tree: node -> [parent, frame], parent 0 for the root
          MaxNow

VARIABLES profiledAt,
          recorder,         \* [active, stack, slices]
          lived,            \* span -> [from, to] as the recorder was told
          profiler,         \* CpuProfilerService
          v8,               \* [recording, samples], of the open session
          beginning,        \* where beginBurst is: "no", "enabling", "starting"
          finishing,        \* who awaits Profiler.stop -> "no", "profile", "error"
          stopped,          \* "no", "stopping", "done"
          folded            \* the last window and what it was made of
profilingVars == <<profiledAt, recorder, lived, profiler, v8, beginning, finishing, stopped, folded>>

ProfiledSpans == 1..MaxProfiledSpans
NothingFolded == [samples |-> <<>>, stacks |-> {}, open |-> 0, full |-> FALSE]
Never == -1

-----------------------------------------------------------------------------
(* SpanSliceRecorder.  An entry of the stack is [span, since].               *)
push(slices, span, from, to) ==
  IF to <= from THEN slices
  ELSE Append(IF Len(slices) >= MAX_SLICES THEN Tail(slices) ELSE slices,
              [span |-> span, from |-> from, to |-> to])
resume(stack, at) == IF stack = <<>> THEN stack ELSE [stack EXCEPT ![Len(stack)].since = at]
closeTop(r, at) ==
  IF r.stack = <<>> THEN r
  ELSE [r EXCEPT !.slices = push(@, Last(r.stack).span, Last(r.stack).since, at), !.stack = resume(@, at)]
enter(r, span, at) == LET closed == closeTop(r, at)
                      IN [closed EXCEPT !.stack = Append(@, [span |-> span, since |-> at])]
(* Everything above the span goes too, innermost first.                      *)
exit_keepsSince(r, span, at) ==
  LET index == {i \in DOMAIN r.stack : r.stack[i].span = span}
      from == CHOOSE i \in index : TRUE
  IN IF index = {} THEN r
     ELSE [r EXCEPT !.slices = FoldRight(LAMBDA e, s : push(s, e.span, e.since, at),
                                         SubSeq(r.stack, from, Len(r.stack)), @),
                    !.stack = SubSeq(@, 1, from - 1)]
unwind(r, at) ==
  [r EXCEPT !.slices = push(@, Last(r.stack).span, Last(r.stack).since, at),
            !.stack = resume(Front(@), at)]
exit(r, span, at) ==
  LET index == {i \in DOMAIN r.stack : r.stack[i].span = span}
      above == {i \in DOMAIN r.stack : \E j \in index : i >= j}
  IN FoldLeft(LAMBDA q, i : unwind(q, at), r, SetToSeq(above))
byFrom(slices) ==
  LET order == SortSeq([i \in DOMAIN slices |-> i],
                       LAMBDA i, j : \/ slices[i].from < slices[j].from
                                     \/ slices[i].from = slices[j].from /\ i < j)
  IN [k \in DOMAIN order |-> slices[order[k]]]
openSlices(r, until) ==
  [i \in DOMAIN r.stack |-> [span |-> r.stack[i].span, from |-> r.stack[i].since, to |-> until]]
drainSlices(r, until) ==
  [drained |-> byFrom(r.slices \o openSlices(r, until)),
   left |-> [r EXCEPT !.slices = <<>>, !.stack = [i \in DOMAIN @ |-> [@[i] EXCEPT !.since = until]]]]
reset(r) == [r EXCEPT !.slices = <<>>, !.stack = <<>>]

-----------------------------------------------------------------------------
(* foldProfile.  A frame that is dropped is "".                              *)
RECURSIVE buildStackIndex(_)
buildStackIndex(node) ==
  IF node = 0 THEN <<>>
  ELSE buildStackIndex(ProfileNodes[node].parent)
       \o (IF ProfileNodes[node].frame = "" THEN <<>> ELSE <<ProfileNodes[node].frame>>)
findSlice(slices, at) ==   \* the last that begins by then, if it lasts
  LET before == {i \in DOMAIN slices : slices[i].from <= at}
      last == CHOOSE i \in before : \A j \in before : j <= i
  IN IF before = {} THEN {} ELSE IF at < slices[last].to THEN {slices[last].span} ELSE {}
labelled(samples, slices) ==   \* [frames, span] of each sample with a stack
  LET seen == SelectSeq(samples, LAMBDA s : buildStackIndex(s.node) # <<>>)
  IN [i \in DOMAIN seen |-> [frames |-> buildStackIndex(seen[i].node), span |-> findSlice(slices, seen[i].at)]]
foldProfile(samples, slices) ==
  LET all == labelled(samples, slices)
  IN {[key |-> k, samples |-> Cardinality({i \in DOMAIN all : all[i] = k})] : k \in {all[i] : i \in DOMAIN all}}

-----------------------------------------------------------------------------
ProfilingInit ==   \* startContinuousProfiling, up to its first await
  /\ profiledAt = 0 /\ recorder = [active |-> TRUE, stack |-> <<>>, slices |-> <<>>]
  /\ lived = [s \in ProfiledSpans |-> [from |-> Never, to |-> Never]]
  /\ profiler = [sessions |-> 1, session |-> TRUE, running |-> FALSE, disabled |-> FALSE,
                 windowTimer |-> TRUE, dutyTimer |-> FALSE]
  /\ v8 = [recording |-> FALSE, samples |-> <<>>]
  /\ beginning = "enabling" /\ finishing = [w \in {"timer", "stop"} |-> "no"]
  /\ stopped = "no" /\ folded = NothingFolded

(* The registry tells the recorder of spans while it is the active one; of   *)
(* a span whose trace is gone when it ends, it is told nothing.              *)
spanStarts(s) ==
  /\ recorder.active /\ lived[s].from = Never /\ (\A t \in 1..(s - 1) : lived[t].from # Never)
  /\ lived' = [lived EXCEPT ![s].from = profiledAt]
  /\ recorder' = enter(recorder, s, profiledAt)
  /\ UNCHANGED <<profiledAt, profiler, v8, beginning, finishing, stopped, folded>>
spanEnds(s) ==
  /\ recorder.active /\ lived[s].from # Never /\ lived[s].to = Never
  /\ lived' = [lived EXCEPT ![s].to = profiledAt]
  /\ recorder' = exit(recorder, s, profiledAt)
  /\ UNCHANGED <<profiledAt, profiler, v8, beginning, finishing, stopped, folded>>
profiledTime(node) ==
  /\ profiledAt < MaxNow /\ recorder.active /\ profiledAt' = profiledAt + 2   \* nothing depends on time afterwards
  /\ v8' = IF v8.recording
           THEN [v8 EXCEPT !.samples = Append(@, [at |-> profiledAt + 1, node |-> node,
                                                  top |-> IF recorder.stack = <<>> THEN {} ELSE {Last(recorder.stack).span}])]
           ELSE v8
  /\ UNCHANGED <<recorder, lived, profiler, beginning, finishing, stopped, folded>>

closeSession(p) == [p EXCEPT !.session = FALSE, !.sessions = IF p.session THEN @ - 1 ELSE @]
disable(p) ==
  closeSession([p EXCEPT !.disabled = TRUE, !.running = FALSE, !.windowTimer = FALSE, !.dutyTimer = FALSE])
onDisabled(r) == [r EXCEPT !.active = FALSE]

(* runWindow and beginBurst, an await to a step.                             *)
runWindow ==
  /\ profiler.windowTimer /\ beginning = "no" /\ ~profiler.running /\ ~profiler.disabled
  /\ profiler' = [profiler EXCEPT !.session = TRUE, !.sessions = @ + 1]
  /\ beginning' = "enabling"
  /\ UNCHANGED <<profiledAt, recorder, lived, v8, finishing, stopped, folded>>
burstEnabled ==
  /\ beginning = "enabling" /\ profiler.session
  /\ profiler' = [profiler EXCEPT !.running = TRUE]
  /\ v8' = [recording |-> TRUE, samples |-> <<>>]
  /\ beginning' = "starting"
  /\ UNCHANGED <<profiledAt, recorder, lived, finishing, stopped, folded>>
burstStarted ==
  /\ beginning = "starting"
  /\ profiler' = [profiler EXCEPT !.dutyTimer = TRUE]
  /\ beginning' = "no"
  /\ UNCHANGED <<profiledAt, recorder, lived, v8, finishing, stopped, folded>>
burstFails ==   \* the inspector refuses, or stop() closed the session
  /\ beginning = "enabling" \/ (beginning = "starting" /\ profiler.running)
  /\ profiler' = disable(profiler) /\ recorder' = onDisabled(recorder)
  /\ v8' = [v8 EXCEPT !.recording = FALSE]
  /\ beginning' = "no"
  /\ UNCHANGED <<profiledAt, lived, finishing, stopped, folded>>

(* finish, up to its await: a second Profiler.stop finds nothing recording.  *)
posted == IF v8.recording THEN "profile" ELSE "error"
dutyEnds ==
  /\ profiler.dutyTimer
  /\ profiler' = [profiler EXCEPT !.dutyTimer = FALSE]
  /\ IF profiler.session /\ profiler.running
     THEN finishing' = [finishing EXCEPT !["timer"] = posted] /\ v8' = [v8 EXCEPT !.recording = FALSE]
     ELSE UNCHANGED <<finishing, v8>>
  /\ UNCHANGED <<profiledAt, recorder, lived, beginning, stopped, folded>>
stop ==
  /\ stopped = "no"
  /\ LET quiet == [profiler EXCEPT !.windowTimer = FALSE, !.dutyTimer = FALSE]
     IN IF profiler.running /\ profiler.session
        THEN /\ profiler' = quiet /\ recorder' = onDisabled(recorder)
             /\ finishing' = [finishing EXCEPT !["stop"] = posted]
             /\ v8' = [v8 EXCEPT !.recording = FALSE] /\ stopped' = "stopping"
        ELSE /\ profiler' = closeSession(quiet) /\ recorder' = reset(onDisabled(recorder))
             /\ stopped' = "done" /\ UNCHANGED <<finishing, v8>>
  /\ UNCHANGED <<profiledAt, lived, beginning, folded>>

(* What finish does with the profile: fold it, close the session, and give   *)
(* profiling up when the burst cost too much.                                *)
finishBurst(who, overBudget) ==
  LET d == drainSlices(recorder, profiledAt)
      idle == closeSession([profiler EXCEPT !.running = FALSE])
      p == IF overBudget THEN disable(idle) ELSE idle
  IN /\ finishing[who] = "profile"
     /\ folded' = [samples |-> v8.samples, stacks |-> foldProfile(v8.samples, d.drained),
                   open |-> Len(recorder.stack), full |-> Len(recorder.slices) >= MAX_SLICES]
     /\ v8' = [v8 EXCEPT !.samples = <<>>]
     /\ finishing' = [finishing EXCEPT ![who] = "no"]
     /\ profiler' = p
     /\ recorder' = IF who = "stop" THEN reset(onDisabled(d.left))
                    ELSE IF overBudget THEN onDisabled(d.left) ELSE d.left
     /\ stopped' = IF who = "stop" THEN "done" ELSE stopped
     /\ UNCHANGED <<profiledAt, lived, beginning>>
finishFails(who) ==   \* answers come in the order of the posts
  /\ finishing[who] = "error" /\ (who = "stop" => finishing["timer"] = "no")
  /\ finishing' = [finishing EXCEPT ![who] = "no"]
  /\ IF who = "timer" THEN profiler' = disable(profiler) /\ recorder' = onDisabled(recorder) /\ UNCHANGED stopped
     ELSE profiler' = closeSession(profiler) /\ recorder' = reset(recorder) /\ stopped' = "done"
  /\ UNCHANGED <<profiledAt, lived, v8, beginning, folded>>

ProfilingNext ==
  \/ \E s \in ProfiledSpans : spanStarts(s) \/ spanEnds(s)
  \/ \E n \in DOMAIN ProfileNodes : profiledTime(n)
  \/ runWindow \/ burstEnabled \/ burstStarted \/ burstFails \/ dutyEnds \/ stop
  \/ \E who \in {"timer", "stop"} : (\E over \in BOOLEAN : finishBurst(who, over)) \/ finishFails(who)

-----------------------------------------------------------------------------
ProfilingTypeOK == Len(recorder.slices) <= MAX_SLICES /\ stopped \in {"no", "stopping", "done"}

(* Bursts never fight over the isolate and none outlives profiling: at most  *)
(* one inspector session is connected, and none once stop() or disable() is  *)
(* through - whatever was being awaited when they were called.               *)
OneSession ==
  /\ profiler.sessions = IF profiler.session THEN 1 ELSE 0
  /\ stopped = "done" \/ profiler.disabled => ~profiler.session /\ ~profiler.windowTimer

(* No instant belongs to two spans: the slices recorded so far are disjoint, *)
(* also when a span ends with spans still open above it.                     *)
SlicesDisjoint ==
  LET s == recorder.slices
  IN \A i, j \in DOMAIN s : i < j => s[i].to <= s[j].from \/ s[j].to <= s[i].from

(* A sample is labelled with a span that was open when it fired, and - with  *)
(* no more than one open at the end of the burst - with the innermost one;   *)
(* each sample that ran code is counted once.                                *)
SamplesOfOpenSpans ==
  LET ran == SelectSeq(folded.samples, LAMBDA s : buildStackIndex(s.node) # <<>>)
      counted(P(_)) == FoldLeft(LAMBDA n, st : n + (IF P(st) THEN st.samples ELSE 0), 0, SetToSeq(folded.stacks))
      here(i) == \E st \in folded.stacks :
                   /\ st.key.frames = buildStackIndex(ran[i].node)
                   /\ st.key.span = IF folded.open <= 1 /\ ~folded.full THEN ran[i].top ELSE st.key.span
                   /\ \A s \in st.key.span : lived[s].from < ran[i].at /\ (lived[s].to = Never \/ ran[i].at < lived[s].to)
  IN /\ counted(LAMBDA st : TRUE) = Len(ran)
     /\ \A i \in DOMAIN ran : here(i)
=============================================================================
