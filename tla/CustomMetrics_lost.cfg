\* One counter, two increments, a batch thrown away in between.
SPECIFICATION MetricsSpec
CONSTANTS
    Counters = {c}
    Gauges = {}
    Summaries = {}
    Labels = {l1, l2, long}
    LongKeys = {long}
    DEFAULT_LABEL = default
    NaN = NaN
    Amounts = {1, 2, NaN}
    Seeds = {0}
    MAX_SERIES_PER_METRIC = 2
    sampleSize = 2
    MaxCalls = 2
INVARIANT
    FailedFlushRollsOver
CHECK_DEADLOCK FALSE
