---------------------------- MODULE CustomMetrics ----------------------------
(***************************************************************************)
(* Counters, gauges and summaries, from the application's calls to the     *)
(* batch that reports them.  Every change of a metric puts it into the     *)
(* batch being built (upsertCustomMetric); a counter reports how much it   *)
(* rose since it was last acknowledged, a summary what it observed since.  *)
(* A batch that is written acknowledges the metrics that wait for it; one  *)
(* that does not fit the slot is thrown away.                              *)
(*                                                                         *)
(* A label combination is a model value; calls that throw because of a     *)
(* missing label change nothing and are left out.                          *)
(***************************************************************************)
EXTENDS Integers, Sequences, FiniteSets

CONSTANTS
    Counters, Gauges, Summaries,
    Labels,                  \* label combinations
    LongKeys,                \* the ones longer than MAX_SERIES_KEY_LENGTH
    DEFAULT_LABEL,
    NaN,                     \* any number that is not finite
    Amounts,                 \* what a call records
    Seeds,                   \* what may be given as initialValue
    MAX_SERIES_PER_METRIC,
    sampleSize,
    MaxCalls                 \* bound: calls of the application

ASSUME CustomMetricsAssumption ==
    /\ Counters \cap Gauges = {} /\ (Counters \cup Gauges) \cap Summaries = {}
    /\ NaN \notin Int
    /\ LongKeys \subseteq Labels
    /\ DEFAULT_LABEL \notin Labels
    /\ Amounts \ {NaN} \subseteq Nat \ {0}
    /\ Seeds \ {NaN} \subseteq Nat
    /\ MAX_SERIES_PER_METRIC \in Nat \ {0}
    /\ sampleSize \in Nat \ {0}
    /\ MaxCalls \in Nat

Metrics == Counters \cup Gauges \cup Summaries
Series  == Labels \cup {DEFAULT_LABEL}
Levels  == Counters \cup Gauges   \* the metrics with a reading per series

VARIABLES
    initialValue, \* _initialValue, what every series starts from
    labelled,     \* the metrics declared with labels
    value,        \* of a counter or gauge: its series and their readings
    warned,       \* seriesLimit.warned
    lastFlushed,  \* _lastFlushedValue of a counter
    summaryWindow, \* of a summary: _count, _sum, _max and _samples by series
    hasBatch,     \* _mainThreadBuffer is not null
    custom,       \* its custom metrics, as encoded
    awaiting,     \* _awaitingFlushAck
    calls,
    \* metricHistory
    delivered,    \* increases written so far, by counter and series
    observed, reported, \* observations made and written so far, by summary
    failed,       \* a batch has been thrown away
    seededLate,   \* counters seeded while the batch held them
    lastBatch          \* the custom metrics last written

metricAppVars == <<initialValue, labelled, value, warned, summaryWindow, observed>>
metricHistory == <<delivered, reported, failed, lastBatch>>
metricVars    == <<metricAppVars, lastFlushed, hasBatch, custom, awaiting, calls,
             metricHistory, seededLate>>

\* Numbers and partial functions
Plus(x, y)  == IF NaN \in {x, y} THEN NaN ELSE x + y
Minus(x, y) == IF NaN \in {x, y} THEN NaN ELSE x - y
At(f, s, otherwise) == IF s \in DOMAIN f THEN f[s] ELSE otherwise
NoSeries == [s \in {} |-> 0]
Put(f, s, x) == [t \in DOMAIN f \cup {s} |-> IF t = s THEN x ELSE f[t]]

-----------------------------------------------------------------------------
admitsFinite(x) == x # NaN

\* The metrics as the application first asks for them: an initial value that is
\* not finite is replaced; a labelled counter has no series yet, any gauge has
\* its default one, a summary an empty window.
CounterInit ==
    /\ initialValue \in {IF admitsFinite(x) THEN x ELSE 0 : x \in Seeds}
    /\ lastFlushed = [c \in Counters |-> NoSeries]
ReadingInit(m) == IF m \in Counters \cap labelled THEN NoSeries ELSE Put(NoSeries, DEFAULT_LABEL, initialValue)
SummaryInit == summaryWindow = [m \in Summaries |-> NoSeries]

MetricsInit ==
    /\ labelled \in SUBSET Metrics
    /\ CounterInit
    /\ SummaryInit
    /\ value = [m \in Levels |-> ReadingInit(m)]
    /\ warned = {}
    /\ hasBatch = FALSE
    /\ custom = NoSeries
    /\ awaiting = {}
    /\ calls = 0
    /\ delivered = [c \in Counters |-> NoSeries]
    /\ observed = [m \in Summaries |-> 0]
    /\ reported = [m \in Summaries |-> 0]
    /\ failed = FALSE
    /\ seededLate = {}
    /\ lastBatch = NoSeries

\* The series a call on m may name: a labelled metric wants its labels.
MayName(m) == IF m \in labelled THEN Labels ELSE Series

\* A series it has, or a new one short enough and within the cap.
admitsSeries(m, s) ==
    \/ s \in DOMAIN value[m]
    \/ /\ s \notin LongKeys
       /\ m \notin warned
       /\ Cardinality(DOMAIN value[m]) < MAX_SERIES_PER_METRIC

\* The latch a refusal for want of room leaves behind.
capReached(m, s) ==
    IF s \in DOMAIN value[m] \cup LongKeys \/ admitsSeries(m, s) THEN warned
    ELSE warned \cup {m}

\* Counter.increase
increase(val, base) == [s \in DOMAIN val |-> Minus(val[s], At(base, s, 0))]

\* Summary.quantile: nearest rank over the sample, which is the least value
\* with at least `rank` of the sample at or below it.
Reaches(samples, x, rank) == Cardinality({i \in DOMAIN samples : samples[i] <= x}) >= rank
nearest(samples, rank) ==
    CHOOSE x \in {samples[i] : i \in DOMAIN samples} :
        /\ Reaches(samples, x, rank)
        /\ \A i \in DOMAIN samples : Reaches(samples, samples[i], rank) => x <= samples[i]
quantile(percent, samples) ==
    LET rank == (percent * Len(samples) + 99) \div 100
    IN  nearest(samples, IF rank < 1 THEN 1 ELSE rank)

\* What a summary reads as: quantiles of the sample, the rest of every
\* observation since the last flush.
figures(w) ==
    LET each(percent) == [s \in DOMAIN w |-> quantile(percent, w[s].samples)]
    IN  [p50 |-> each(50), p95 |-> each(95), p99 |-> each(99),
         observations |-> [s \in DOMAIN w |-> w[s].count],
         total |-> [s \in DOMAIN w |-> w[s].sum],
         maximum |-> [s \in DOMAIN w |-> w[s].max]]

\* CustomMetricsEncoder.encode.  The readings of a counter or gauge are not
\* copied: the batch refers to the metric's own.
encodeCounter(c, val) == [t |-> "counter", iv |-> increase(val, lastFlushed[c])]
encodeGauge == [t |-> "gauge"]
encodeSummary(w) ==
    LET f == figures(w)
    IN  [t |-> "summary", q50 |-> f.p50, q95 |-> f.p95, q99 |-> f.p99,
         ct |-> f.observations, sm |-> f.total, mx |-> f.maximum]

\* Every change of a metric replaces what the batch holds of it.
upsertCustomMetric(m, encoded) ==
    /\ hasBatch' = TRUE
    /\ awaiting' = awaiting \cup ({m} \ Gauges)
    /\ custom' = Put(custom, m, encoded)

Called == calls < MaxCalls /\ calls' = calls + 1
metricBatchVars == <<hasBatch, custom, awaiting>>

-----------------------------------------------------------------------------
\* Counter.increment
incrementCounter(c) ==
    /\ Called
    /\ \E s \in MayName(c), x \in Amounts :
        \/ /\ admitsFinite(x)
           /\ admitsSeries(c, s)
           /\ value' = [value EXCEPT ![c] = Put(@, s, Plus(At(@, s, initialValue), x))]
           /\ upsertCustomMetric(c, encodeCounter(c, value'[c]))
           /\ UNCHANGED warned
        \/ /\ admitsFinite(x)
           /\ ~admitsSeries(c, s)
           /\ warned' = capReached(c, s)
           /\ UNCHANGED <<value, metricBatchVars>>
        \/ /\ ~admitsFinite(x)
           /\ UNCHANGED <<value, warned, metricBatchVars>>
    /\ UNCHANGED <<initialValue, labelled, summaryWindow, observed, lastFlushed,
                   metricHistory, seededLate>>

\* What a call of a gauge does with the reading it leads to.
moveGauge(g, s, x, to) ==
    /\ Called
    /\ \/ /\ admitsFinite(x)
          /\ admitsSeries(g, s)
          /\ value' = [value EXCEPT ![g] = Put(@, s, to)]
          /\ upsertCustomMetric(g, encodeGauge)
          /\ UNCHANGED warned
       \/ /\ admitsFinite(x)
          /\ ~admitsSeries(g, s)
          /\ warned' = capReached(g, s)
          /\ UNCHANGED <<value, metricBatchVars>>
       \/ /\ ~admitsFinite(x)
          /\ UNCHANGED <<value, warned, metricBatchVars>>
    /\ UNCHANGED <<initialValue, labelled, summaryWindow, observed, lastFlushed,
                   metricHistory, seededLate>>
Reading(g, s) == At(value[g], s, initialValue)

\* Gauge.increment, decrement and setValue; without a value the last goes back
\* to the initial one.
incrementGauge(g) ==
    \E s \in MayName(g), x \in Amounts : moveGauge(g, s, x, Plus(Reading(g, s), x))
decrementGauge(g) ==
    \E s \in MayName(g), x \in Amounts : moveGauge(g, s, x, Minus(Reading(g, s), x))
setGauge(g) ==
    \E s \in MayName(g), x \in Amounts \cup {initialValue} : moveGauge(g, s, x, x)

\* Summary.sample: the first sampleSize are kept; after that the n-th takes a
\* slot chosen among n, if there is such a slot.
sample(samples, x, n) ==
    IF Len(samples) < sampleSize THEN {Append(samples, x)}
    ELSE {IF slot < sampleSize THEN [samples EXCEPT ![slot + 1] = x] ELSE samples :
              slot \in 0..n - 1}

\* Summary.observe
observe(m) ==
    /\ Called
    /\ \E s \in MayName(m), x \in Amounts :
        \/ /\ admitsFinite(x)
           /\ LET w == At(summaryWindow[m], s, [count |-> 0, sum |-> 0, max |-> x,
                                         samples |-> <<>>])
              IN  \E kept \in sample(w.samples, x, w.count + 1) :
                    summaryWindow' = [summaryWindow EXCEPT ![m] =
                        Put(@, s, [count |-> w.count + 1, sum |-> w.sum + x,
                                   max |-> IF x > w.max THEN x ELSE w.max,
                                   samples |-> kept])]
           /\ upsertCustomMetric(m, encodeSummary(summaryWindow'[m]))
           /\ observed' = [observed EXCEPT ![m] = @ + 1]
        \/ /\ ~admitsFinite(x)
           /\ UNCHANGED <<summaryWindow, metricBatchVars, observed>>
    /\ UNCHANGED <<initialValue, labelled, value, warned, lastFlushed, metricHistory,
                   seededLate>>

\* A counter or a gauge that exists is asked for again: an initial value replaces a default reading that is still zero, and nobody is told.
seed(m) ==
    /\ Called
    /\ m \notin labelled
    /\ value[m][DEFAULT_LABEL] = 0
    /\ \E x \in Seeds : value' = [value EXCEPT ![m][DEFAULT_LABEL] = x]
    /\ seededLate' = seededLate \cup ({m} \cap awaiting)
    /\ UNCHANGED <<initialValue, labelled, warned, summaryWindow, observed, metricBatchVars,
                   lastFlushed, metricHistory>>

\* A metric that exists is asked for again, with labels.
declareLabels(m) ==
    /\ Called
    /\ m \notin labelled
    /\ labelled' = labelled \cup {m}
    /\ UNCHANGED <<initialValue, value, warned, summaryWindow, observed, metricBatchVars,
                   lastFlushed, metricHistory, seededLate>>

\* TracerService.counter(), gauge() and summary() for a name they know; labels
\* given along with an initial value leave nothing to seed.
counter(c) == seed(c) \/ declareLabels(c)
gauge(g)   == seed(g) \/ declareLabels(g)
summary(m) == declareLabels(m)

\* A request, a job or a log line: a batch without a metric in it.
insertOther ==
    /\ ~hasBatch
    /\ hasBatch' = TRUE
    /\ UNCHANGED <<metricAppVars, lastFlushed, custom, awaiting, calls, metricHistory,
                   seededLate>>

-----------------------------------------------------------------------------

\* Summary.markFlushed
freshWindow(w) == NoSeries

\* Faulty: the baseline stays where it was.
baseline_stays(c) == lastFlushed[c]

\* Counter.markFlushed
baseline(c) == value[c]

\* Observations in an encoded summary, over its series.
CountIn(ct) ==
    LET sum[S \in SUBSET DOMAIN ct] ==
            IF S = {} THEN 0
            ELSE LET s == CHOOSE s \in S : TRUE IN ct[s] + sum[S \ {s}]
    IN  sum[DOMAIN ct]

\* flush() that writes: encodeAndWrite() acknowledges, then the batch is reset.
flushWritten ==
    /\ hasBatch
    /\ lastFlushed' = [c \in Counters |->
                          IF c \in awaiting THEN baseline(c) ELSE lastFlushed[c]]
    /\ summaryWindow' = [m \in Summaries |->
                          IF m \in awaiting THEN freshWindow(summaryWindow[m]) ELSE summaryWindow[m]]
    /\ awaiting' = {}
    /\ delivered' = [c \in Counters |->
                        IF c \notin DOMAIN custom THEN delivered[c]
                        ELSE [s \in DOMAIN value[c] |->
                                Plus(At(delivered[c], s, 0), At(custom[c].iv, s, 0))]]
    /\ reported' = [m \in Summaries |->
                       IF m \notin DOMAIN custom THEN reported[m]
                       ELSE reported[m] + CountIn(custom[m].ct)]
    /\ lastBatch' = custom
    /\ hasBatch' = FALSE
    /\ custom' = NoSeries
    /\ UNCHANGED <<initialValue, labelled, value, warned, observed, calls,
                   failed, seededLate>>

\* flush() whose batch is too large: encodeAndWrite() throws before it
\* acknowledges anything, and the batch is reset all the same.
flushThrows ==
    /\ hasBatch
    /\ hasBatch' = FALSE
    /\ custom' = NoSeries
    /\ failed' = TRUE
    /\ UNCHANGED <<metricAppVars, lastFlushed, awaiting, calls, delivered, reported,
                   seededLate, lastBatch>>

MetricsNext ==
    \/ \E c \in Counters : incrementCounter(c) \/ counter(c)
    \/ \E g \in Gauges : incrementGauge(g) \/ decrementGauge(g) \/ setGauge(g) \/ gauge(g)
    \/ \E m \in Summaries : observe(m) \/ summary(m)
    \/ insertOther
    \/ flushWritten
    \/ flushThrows

MetricsSpec == MetricsInit /\ [][MetricsNext]_metricVars

(***************************************************************************)
(* Properties                                                              *)
(***************************************************************************)

\* Readings stay numbers and a metric's series stay within the cap: "far above a
\* sensible label set and far below a leak" (MAX_SERIES_PER_METRIC), whichever
\* way the metric was declared and re-declared; no key the collector would
\* refuse is recorded (admitsSeries).
SeriesBounded ==
    /\ labelled \subseteq Metrics /\ warned \subseteq Levels
    /\ DOMAIN custom \subseteq Metrics
    /\ awaiting \subseteq Counters \cup Summaries
    /\ \A m \in Levels :
           /\ DOMAIN value[m] \subseteq Series \ LongKeys
           /\ Cardinality(DOMAIN value[m]) <= MAX_SERIES_PER_METRIC
           /\ \A s \in DOMAIN value[m] : value[m][s] \in Int
    /\ \A m \in Summaries : \A s \in DOMAIN summaryWindow[m] :
           Len(summaryWindow[m][s].samples) <= sampleSize
    /\ (custom # NoSeries => hasBatch)

\* A counter's increase is reported at most once over all batches, and, as long
\* as every batch could be written, exactly once: what was written adds up to
\* the baseline it is measured from (Counter.increase, markFlushed).  A counter
\* seeded while the batch already holds it is told about too late to be exact.
IncreaseReportedOnce ==
    \A c \in Counters : \A s \in DOMAIN value[c] :
        LET told == At(delivered[c], s, 0)
            base == At(lastFlushed[c], s, 0)
        IN  /\ told <= base
            /\ ~failed /\ c \notin seededLate => told = base

\* The same for a summary: an observation is in one batch that was written or
\* still in the window, never in both, and in neither only once a batch was
\* thrown away (Summary.observations, markFlushed).
ObservationReportedOnce ==
    \A m \in Summaries :
        LET counted == reported[m] +
                       CountIn([s \in DOMAIN summaryWindow[m] |-> summaryWindow[m][s].count])
        IN  counted <= observed[m] /\ (~failed => counted = observed[m])

\* A summary's fields describe one window: its quantiles are ordered and none
\* exceeds the maximum, although the quantiles come from a sample and the
\* maximum, count and total from all of it (Summary.quantile, sample).
OneWindow ==
    \A m \in DOMAIN lastBatch \cap Summaries : \A s \in DOMAIN lastBatch[m].ct :
        /\ lastBatch[m].q50[s] <= lastBatch[m].q95[s]
        /\ lastBatch[m].q95[s] <= lastBatch[m].q99[s]
        /\ lastBatch[m].q99[s] <= lastBatch[m].mx[s]
        /\ lastBatch[m].mx[s] <= lastBatch[m].sm[s]
        /\ lastBatch[m].sm[s] <= lastBatch[m].ct[s] * lastBatch[m].mx[s]

\* What an application counts and observes reaches the collector once, in
\* bounded space (encodeCustomMetric, markFlushed).
MetricsReportedOnce ==
    SeriesBounded /\ IncreaseReportedOnce /\ ObservationReportedOnce /\ OneWindow

\* "a failed flush leaves the baseline untouched and the increase rolls into the
\* next one instead of being lost" (Counter.markFlushed).
FailedFlushRollsOver ==
    \A c \in Counters : \A s \in DOMAIN value[c] :
        At(delivered[c], s, 0) = At(lastFlushed[c], s, 0)
=============================================================================
