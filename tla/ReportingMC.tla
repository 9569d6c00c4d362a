---------------------------- MODULE ReportingMC ----------------------------
(* What is reported and what comes of it: the collector's replies, the       *)
(* metrics, the batch being built and the contract it has to meet.  See      *)
(* ServicesMC for how parts are joined.                                      *)
EXTENDS IngestReplies, CustomMetrics, WireContractMC, MainBuffer

CONSTANT Parts   \* the parts a behaviour may pick
VARIABLE part
reportingVars == <<part, replyVars, metricVars, wireVars, bufferVars>>

Ex(kind, sc, e, slow, nodes) == [kind |-> kind, sc |-> sc, e |-> e, slow |-> slow, nodes |-> nodes]
AllExecutions ==   \* one for each way the rules tell executions apart
  {Ex("request", 200, FALSE, FALSE, 2),  \* fine
   Ex("request", 404, TRUE, TRUE, 1),    \* slow, with an expected error
   Ex("request", 500, TRUE, FALSE, 2),   \* a server error
   Ex("job", 0, TRUE, FALSE, 1)}         \* a failed job

Init ==
  /\ part \in Parts
  /\ RepliesInit /\ MetricsInit /\ WireInit /\ BatchInit
  /\ part # "metrics" => initialValue = 0 /\ labelled = {}
  /\ part # "wire" => input = TextsOnly
  /\ part # "batch" => ~sendsNothing

OfReplies(A) == part = "replies" /\ A /\ UNCHANGED <<part, metricVars, wireVars, bufferVars>>
OfMetrics(A) == part = "metrics" /\ A /\ UNCHANGED <<part, replyVars, wireVars, bufferVars>>
OfWire(A) == part = "wire" /\ A /\ UNCHANGED <<part, replyVars, metricVars, bufferVars>>
OfBatch(A) == part = "batch" /\ A /\ UNCHANGED <<part, replyVars, metricVars, wireVars>>
Next == OfReplies(RepliesNext) \/ OfMetrics(MetricsNext) \/ OfWire(WireNext) \/ OfBatch(BatchNext)
Spec == Init /\ [][Next]_reportingVars

(* Label combinations are alike, but for the ones that are too long.         *)
LabelsAlike == Permutations(Labels \ LongKeys)
=============================================================================
