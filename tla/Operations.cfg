SPECIFICATION Spec
CONSTANTS
  Parts = {"operations", "jobs", "instrument", "outgoing", "fetch", "propagation", "documents", "answers", "statements"}
  Executions = {1, 2}
  CorrelationIds = {9}
  Plans <- MCPlans
  Settings <- MCSettings
  Enqueued <- MCEnqueued
  Runs = {1, 2}
  MaxAgents = 2
  MaxDone = 2
  Providers <- MCProviders
  Requests = {"r1", "r2"}
  MaxSteps = 2
  MaxDepth = 3
  Queries = {"q1"}
  Issues <- MCIssues
  Traced = {"a", "b"}
  MaxReports = 3
  MaxTime = 2
  Apps = {"app1", "app2", "app3"}
  LlmOff = {"app3"}
  MaxWrappers = 2
  ClientMessages <- MCClientMessages
  Services <- MCServices
  MAX_TRACE_STATE_LENGTH = 6
  MaxHops = 3
  Sessions <- MCSessions
  CACHE_LIMIT = 2
  MAX_CACHEABLE_DOCUMENT_LENGTH = 40
  MAX_SANITIZED_DOCUMENT_LENGTH = 30
  Responses <- MCResponses
  MAX_JSON_BYTES = 5
  EDGE_BYTES = 3
  MAX_SSE_LINE = 2
  SqlQueries <- MCSqlQueries
  MAX_STATEMENT_LENGTH = 30
  MAX_INPUT_LENGTH = 34
CHECK_DEADLOCK FALSE
INVARIANTS
  OperationsKeptApart RunsReportedAsTheyWere   OneTraceEndToEnd
  DocumentsTold UsageReadOnce StatementsShowShapeOnly
PROPERTIES FetchLeftAsFound WorkComesToAnEnd
