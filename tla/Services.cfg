SPECIFICATION Spec
CONSTANTS
  MAX_QUEUED_SPANS = 4
  MAX_BATCH_SPANS = 2
  RETRY_BASE_MS = 1
  RETRY_MAX_MS = 2
  RETRY_AFTER_MAX_MS = 3
  TreeSizes = {1, 3}
  RetryAfters = {0, 5}
  MaxSpans = 6
  Handlers = {h1, h2}
  Decorations <- MCDecorations
  RESTATE_EVERY = 2
  MAX_OBJECTIVES_PER_HANDLER = 2
  MAX_OBJECTIVES_PER_BATCH = 2
  MAX_SPANS_SEARCHED = 2
  MaxLost = 1
  MAX_PARTIAL_LINE_LENGTH = 1
  Traces = {"A", "B"}
  MaxCells = 4
  INTERVAL = 2
  MIN_FINAL_RUNTIME_WINDOW_MS = 1
  MaxReading = 2
  MaxClock = 4
  ExpiresIn = 6
  FirstInterval = 2
  SLOW_DOWN_SECONDS = 3
  MaxRuns = 2
  Executions <- FewExecutions
  maxOperationsPerBatch = 1
  MAX_LOGS_PER_TRANSACTION = 1
  MAX_PENDING_LOGS = 2
  MaxExecutions = 1
  MaxLines = 3
  Services = {"otlp", "objectives", "forwarding", "runtime", "link", "batch", "logged"}
  LoggingApps = {"app1", "app2"}
  LoggedEntries <- MCLoggedEntries
  ForeignRecords <- MCForeignRecords
CHECK_DEADLOCK FALSE
INVARIANTS  LinesArriveWhole
PROPERTIES  RuntimeWindowsHold LinkIsCareful ServicesSettle
