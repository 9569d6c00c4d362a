---------------------------- MODULE ServicesMC ----------------------------
(* The services around the agent's core that share no state with it or with  *)
(* each other: a behaviour picks one and leaves the others as they began, so *)
(* their state spaces add up instead of multiplying.                         *)
EXTENDS OtlpExport, Objectives, LogForwarding, LoggedLines, RuntimeMetrics, CliLink,
        MainBuffer

CONSTANT Services   \* the parts a behaviour may pick
VARIABLE part
servicesVars == <<part, otlpVars, objectiveVars, forwardVars, runtimeVars, linkVars,
                  bufferVars, loggedVars>>

MCDecorations ==
  LET d == [objectives |-> <<"ok">>, paths |-> 1, longName |-> FALSE, longRoute |-> FALSE]
  IN {d, [d EXCEPT !.objectives = <<>>], [d EXCEPT !.objectives = <<"bad">>],
      [d EXCEPT !.objectives = <<"extra", "bad", "ok", "ok">>], [d EXCEPT !.paths = 2],
      [d EXCEPT !.longName = TRUE], [d EXCEPT !.longRoute = TRUE]}
PlainHandler == [objectives |-> <<>>, paths |-> 1, longName |-> FALSE, longRoute |-> FALSE]
MCMessages ==
  {<<"w">>, <<"[b]", " ", "w">>, <<"w", " ", "ERROR", " ", "w">>, <<"ERROR">>, <<"w", " ", "Trace ID:", " ", "id9">>,
   <<"Trace ID:", " ", "id9", " ", "w">>, <<"w", " ", "Trace ID:">>, <<"Trace ID:", " ", "id9", " ", "Trace ID:", " ", "id8">>}
MCLoggedEntries ==
  {[json |-> j, level |-> l, context |-> c, message |-> m] :
     j \in BOOLEAN, l \in {"LOG", "ERROR"}, c \in {"[c]", Absent}, m \in MCMessages}
MCForeignRecords ==
  {[level |-> l, context |-> c, message |-> <<"w">>, extra |-> x, traceId |-> id] :
     l \in {"log", "info", "notice", "30", Absent}, c \in {"[c]", Absent}, x \in {"x", Absent}, id \in {"id1", Absent}}
FewExecutions == {[kind |-> "request", sc |-> 200, e |-> FALSE, slow |-> FALSE, nodes |-> 0]}
PlainProject ==
  [env |-> "none", ignored |-> FALSE, scripts |-> "nest", loadsEnv |-> FALSE, sdk |-> "none",
   nest |-> "11", source |-> "one", moduleWired |-> FALSE, mainWired |-> FALSE, notes |-> FALSE]

Init ==
  /\ part \in Services
  /\ OtlpInit /\ ForwardInit /\ RuntimeInit
  /\ ObjectivesInit /\ (part # "objectives" => declared = [h \in Handlers |-> PlainHandler])
  /\ LinkInit /\ (part # "link" => project = PlainProject)
  /\ LoggedInit
  /\ BatchInit /\ (part # "batch" => ~sendsNothing)

(* A step of one part; every other keeps what it has.                        *)
Of(p, A) ==
  /\ part = p /\ UNCHANGED part
  /\ A
  /\ IF p = "otlp" THEN TRUE ELSE UNCHANGED otlpVars
  /\ IF p = "objectives" THEN TRUE ELSE UNCHANGED objectiveVars
  /\ IF p = "forwarding" THEN TRUE ELSE UNCHANGED forwardVars
  /\ IF p = "runtime" THEN TRUE ELSE UNCHANGED runtimeVars
  /\ IF p = "link" THEN TRUE ELSE UNCHANGED linkVars
  /\ IF p = "batch" THEN TRUE ELSE UNCHANGED bufferVars
  /\ IF p = "logged" THEN TRUE ELSE UNCHANGED loggedVars
Next ==
  \/ Of("otlp", OtlpNext) \/ Of("objectives", ObjectivesNext) \/ Of("forwarding", ForwardNext)
  \/ Of("runtime", RuntimeNext) \/ Of("link", LinkNext) \/ Of("batch", BatchNext)
  \/ Of("logged", LoggedNext)

(* What goes on by itself: the receiver answers or its request times out,    *)
(* the registry completes what it holds, the drain's loop turns; the loop of *)
(* the link command; time, batches and the requests of the objectives; the   *)
(* flush timer, which does not find the slot locked every time: the worker   *)
(* gives it back after each send and sleeps 50 ms when idle.                 *)
Fairness ==
  /\ WF_servicesVars(Of("otlp", replies)) /\ WF_servicesVars(Of("otlp", treeCompletes))
  /\ WF_servicesVars(Of("otlp", drainTurn \/ drainResumes))
  /\ WF_servicesVars(Of("link", linkStep))
  /\ WF_servicesVars(Of("objectives", timeGoesBy)) /\ WF_servicesVars(Of("objectives", batchTaken))
  /\ \A h \in Handlers : SF_servicesVars(Of("objectives", plainRequest(h)))
  /\ WF_servicesVars(Of("batch", flushNothing)) /\ SF_servicesVars(Of("batch", flushBatch))
Spec == Init /\ [][Next]_servicesVars /\ Fairness

(* A line that is logged arrives as one entry, under its level, its context  *)
(* and the trace and span it was logged in, however writes cut it and        *)
(* whichever logger formatted it (StdoutForwarder, LoggerPatcher,            *)
(* parseLogLine).                                                            *)
LinesArriveWhole ==
  /\ ForwardTypeOK /\ EveryLineForwarded /\ LinesKeptWhole /\ SpanOfItsTrace
  /\ LoggedIsReadBack /\ LevelsAreAccepted

(* What must happen in the end does: the exporter's drain and the link       *)
(* command end, a declaration reaches the collector although a batch was     *)
(* lost, and the backlog of log lines drains (drain, waitForApproval,        *)
(* ObjectivesRegistry, drainPendingLogs).                                    *)
ServicesSettle == DrainEnds /\ LinkEnds /\ DeclaredInTheEnd /\ BacklogDrains
=============================================================================
