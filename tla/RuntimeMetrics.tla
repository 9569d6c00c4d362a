--------------------------- MODULE RuntimeMetrics ---------------------------
(* NodeRuntimeMetricsService (services/node-runtime-metrics.service.ts) and  *)
(* its schedule in ObserveAgentWorker: cumulative readings of the process,   *)
(* differenced into windows, one window per batch. A reading counts: delays  *)
(* of the event loop, milliseconds of CPU, collections by kind.              *)
EXTENDS Integers, FiniteSets

CONSTANTS INTERVAL,                      \* runtimeMetricsInterval
          MIN_FINAL_RUNTIME_WINDOW_MS,
          MaxReading, MaxClock           \* bounds

\* Neither is zero: the interval has a minimum, the other is a constant.
ASSUME RuntimeAssumption == INTERVAL \in Nat \ {0} /\ MIN_FINAL_RUNTIME_WINDOW_MS \in Nat \ {0}

VARIABLES
  process,     \* what the process has done since it started
  last,        \* the readings of the sample before
  gc, gcBreakdown,   \* collections since then, and by bucket (<<>>: none seen)
  now, lastCpuUsageTimestamp, lastRuntimeSampleAt,
  runtime,     \* the window the batch being built carries ({}: none)
  closing,     \* the shutdown: not begun, a last sample to take, done
  sent, replaced   \* history: the windows that left, the windows overwritten
runtimeVars == <<process, last, gc, gcBreakdown, now, lastCpuUsageTimestamp,
                 lastRuntimeSampleAt, runtime, closing, sent, replaced>>

Zero == [delays |-> 0, cpu |-> 0, gc |-> 0]
Buckets == {"minor", "major", "incremental"}
plus(a, b) == [delays |-> a.delays + b.delays, cpu |-> a.cpu + b.cpu, gc |-> a.gc + b.gc]

RuntimeInit ==
  /\ process = Zero /\ last = Zero /\ gc = 0 /\ gcBreakdown = <<>>
  /\ now = 0 /\ lastCpuUsageTimestamp = 0 /\ lastRuntimeSampleAt = 0
  /\ runtime = {} /\ closing = "no" /\ sent = Zero /\ replaced = Zero

(* The application runs: a delay is recorded, CPU time is used.              *)
processRuns(reading) ==
  /\ process[reading] < MaxReading /\ process' = [process EXCEPT ![reading] = @ + 1]
  /\ UNCHANGED <<last, gc, gcBreakdown, now, lastCpuUsageTimestamp, lastRuntimeSampleAt,
                 runtime, closing, sent, replaced>>

(* gcBucketOf: a weak-callback pass is in no bucket.                         *)
gcBucketOf(kind) == IF kind = "weakcb" THEN {} ELSE IF kind = "minor-ms" THEN {"minor"} ELSE {kind}
recordGarbageCollection(kind) ==
  /\ process.gc < MaxReading /\ process' = [process EXCEPT !.gc = @ + 1] /\ gc' = gc + 1
  /\ LET b == gcBucketOf(kind)
         seeded == IF gcBreakdown = <<>> THEN [k \in Buckets |-> 0] ELSE gcBreakdown
     IN gcBreakdown' = IF b = {} THEN gcBreakdown
                       ELSE [k \in Buckets |-> seeded[k] + IF k \in b THEN 1 ELSE 0]
  /\ UNCHANGED <<last, now, lastCpuUsageTimestamp, lastRuntimeSampleAt,
                 runtime, closing, sent, replaced>>

timePasses ==
  /\ now < MaxClock /\ now' = now + 1
  /\ now' - lastRuntimeSampleAt <= INTERVAL
  /\ UNCHANGED <<process, last, gc, gcBreakdown, lastCpuUsageTimestamp, lastRuntimeSampleAt,
                 runtime, closing, sent, replaced>>

(* collectNodeRuntimeMetrics: the window since the sample before, whose      *)
(* readings it replaces.                                                     *)
window == [delays |-> process.delays - last.delays, cpu |-> process.cpu - last.cpu,
           gc |-> gc, elapsed |-> now - lastCpuUsageTimestamp, breakdown |-> gcBreakdown]
advance_keepsGc ==
  /\ last' = process /\ UNCHANGED <<gc, gcBreakdown>> /\ lastCpuUsageTimestamp' = now
advance == /\ last' = process /\ gc' = 0 /\ gcBreakdown' = <<>> /\ lastCpuUsageTimestamp' = now

Overwrites(w) == IF w = {} THEN Zero ELSE CHOOSE x \in w : TRUE

(* addNodeRuntimeMetrics replaces what the batch carries.                    *)
addNodeRuntimeMetrics ==
  /\ runtime' = {window} /\ replaced' = plus(replaced, Overwrites(runtime)) /\ advance

(* The interval's sample.                                                    *)
sampleScheduled ==
  /\ closing = "no" /\ now - lastRuntimeSampleAt = INTERVAL
  /\ lastRuntimeSampleAt' = now /\ addNodeRuntimeMetrics
  /\ UNCHANGED <<process, now, closing, sent>>

(* A batch is written: its window leaves with it.                            *)
batchWritten ==
  /\ runtime # {} /\ sent' = plus(sent, Overwrites(runtime)) /\ runtime' = {}
  /\ closing' = IF closing = "batch" THEN "last" ELSE closing
  /\ UNCHANGED <<process, last, gc, gcBreakdown, now, lastCpuUsageTimestamp,
                 lastRuntimeSampleAt, replaced>>

(* takeFinalRuntimeSample: not right after a sample; at once when the batch  *)
(* carries none; otherwise once that batch is written.                       *)
takeFinalRuntimeSample ==
  /\ closing = "no"
  /\ IF now - lastRuntimeSampleAt < MIN_FINAL_RUNTIME_WINDOW_MS \/ runtime # {}
       THEN /\ closing' = IF now - lastRuntimeSampleAt < MIN_FINAL_RUNTIME_WINDOW_MS
                            THEN "done" ELSE "batch"
            /\ UNCHANGED <<runtime, replaced, last, gc, gcBreakdown, lastCpuUsageTimestamp>>
       ELSE closing' = "done" /\ addNodeRuntimeMetrics
  /\ UNCHANGED <<process, now, lastRuntimeSampleAt, sent>>

addFinalRuntimeMetrics ==
  /\ closing = "last" /\ closing' = "done" /\ addNodeRuntimeMetrics
  /\ UNCHANGED <<process, now, lastRuntimeSampleAt, sent>>

RuntimeNext ==
  \/ \E reading \in {"delays", "cpu"} : processRuns(reading)
  \/ \E kind \in Buckets \cup {"weakcb", "minor-ms"} : recordGarbageCollection(kind)
  \/ timePasses \/ sampleScheduled \/ batchWritten
  \/ takeFinalRuntimeSample \/ addFinalRuntimeMetrics

RuntimeSpec == RuntimeInit /\ [][RuntimeNext]_runtimeVars

-----------------------------------------------------------------------------
RuntimeTypeOK ==
  /\ \A w \in runtime : w.delays \in Nat /\ w.cpu \in Nat
  /\ closing \in {"no", "batch", "last", "done"} /\ Cardinality(runtime) <= 1

(* Windows tile the process's life: every delay, collection and CPU         *)
(* millisecond is in exactly one window, the one being built, the batch's, one that left *)
(* or one a later sample replaced before its batch was written.              *)
WindowsTile ==
  LET all == plus(plus(sent, replaced), Overwrites(runtime))
  IN /\ all.delays + (process.delays - last.delays) = process.delays
     /\ all.cpu + (process.cpu - last.cpu) = process.cpu
     /\ all.gc + gc = process.gc

(* No sample divides by an empty window: its CPU share is a number.          *)
EverySampleHasAWindow == \A w \in runtime : w.elapsed > 0

(* A window that saw a collection of either generation names all three       *)
(* buckets, and they never hold more than the window's total.                *)
BreakdownComplete ==
  \A w \in runtime : w.breakdown # <<>> =>
    /\ DOMAIN w.breakdown = Buckets
    /\ w.breakdown["minor"] + w.breakdown["major"] + w.breakdown["incremental"] <= w.gc

(* Every reading is in one window with a length and a full breakdown, and    *)
(* the sample of the shutdown never replaces one that has not left           *)
(* (advance, takeFinalRuntimeSample).                                        *)
RuntimeWindowsHold ==
  [][/\ RuntimeTypeOK' /\ WindowsTile' /\ EverySampleHasAWindow' /\ BreakdownComplete'
     /\ closing = "no" /\ closing' # "no" => replaced' = replaced]_runtimeVars

=============================================================================
