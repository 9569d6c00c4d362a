\* Two pauses in a row reach the ceiling, the TTL passes, one restart;
\* room for two series, three to be had and one too long, a sample of one;
\* a batch of two and a third one past the cap, every class of execution.
SPECIFICATION Spec
CONSTANTS
  AUTH_BACKOFF_BASE = 1
  RATE_LIMIT_PAUSE = 2
  PAUSE_MAX = 3
  DEGRADED_TTL = 2
  IngestModes = {"full", "reduced", "errors-only"}
  RetryAfters = {0, 1, 5}
  MaxTime = 3
  MaxSends = 3
  MaxCrashes = 1
  Counters = {c}
  Gauges = {g}
  Summaries = {m}
  Labels = {l1, l2, long}
  LongKeys = {long}
  DEFAULT_LABEL = default
  NaN = NaN
  Amounts = {1, 2, NaN}
  Seeds = {0, 1}
  MAX_SERIES_PER_METRIC = 2
  sampleSize = 1
  MaxCalls = 3
  MAX_TEXT = 6
  MAX_NAME = 5
  MAX_LABELS = 2
  MAX_BATCH_ITEMS = 3
  MAX_OBJECTIVES = 2
  HASH_LENGTH = 2
  MAX_REMEMBERED = 2
  Inputs <- MCInputs
  LongTexts <- MCLongTexts
  Executions <- AllExecutions
  maxOperationsPerBatch = 2
  MAX_LOGS_PER_TRANSACTION = 1
  MAX_PENDING_LOGS = 2
  MaxExecutions = 3
  MaxLines = 3
  Parts = {"replies", "metrics", "wire", "batch"}
SYMMETRY LabelsAlike
CHECK_DEADLOCK FALSE
INVARIANTS AgentFollowsReplies MetricsReportedOnce BatchIsAccounted RepairIsSound
