\* Two operations, with a key each or sharing one; two spans under a profiler;
\* five windows to upload through a queue of two; two errors, one file more
\* than the cache holds; a pool of random bytes refilled once; one commit made
\* while the checkout is read.
SPECIFICATION TracesSpec
CONSTANTS
  Ops = {o1, o2}
  Keys = {k1, k2}
  Spans = {s1, s2}
  Errors = {302}
  MaxProfiledSpans = 2
  MAX_SLICES = 2
  ProfileNodes <- MCProfileNodes
  MaxNow = 4
  MAX_PENDING_WINDOWS = 2
  MaxWindows = 5
  ScrubInputs <- MCScrubInputs
  MAX_ATTRIBUTE_DEPTH = 2
  CaptureBytes = 14
  FileFacts <- MCFileFacts
  MapFacts <- MCMapFacts
  Stacks <- MCStacks
  FrameOptions <- MCFrameOptions
  MAX_CACHED_FILES = 2
  MAX_CACHED_MAPS = 1
  MAX_FRAME_LINES = 3
  MaxThrows = 2
  FinishedOperations <- MCOperations
  DefaultThreshold = 3
  DefaultKeepSlowest = 1
  MAX_ATTRIBUTES_PER_SPAN = 4
  Batches <- MCBatches
  Group = 8
  LENGTH_PREFIX_RESERVE = 4
  InitialCapacity = 16
  FixedBytes = 3
  Configurations <- MCConfigurations
  MIN_FLUSH_INTERVAL = 2
  DEFAULT_FLUSH_INTERVAL = 3
  DEFAULT_TIMEOUT_MS = 5
  CollectorReplies <- MCReplies
  MaxPosts = 3
  MaxDeaths = 1
  BYTE = 2
  RANDOM_BYTES_PER_ID = 2
  IdsPerPool = 2
  StartTimes = {0, 3, 14, 62}
  Leaps <- IdLeaps
  MaxIds = 3
  EnvVersions <- MCEnvVersions
  Revisions <- MCRevisions
  Places <- MCPlaces
  Checkouts <- MCCheckouts
  MaxCommits = 1
  Recorded = {"registry", "profiling", "uploads", "redaction", "source", "trees", "encoding", "start", "notices", "ids", "release"}
SYMMETRY Symmetry
CHECK_DEADLOCK FALSE
INVARIANTS
   ShippedAsRecorded EncodedFaithfully  
  ProfilesAreSound  FramesAreOwnSource IdsSortAndDiffer
PROPERTY ReleaseIsTheDeployed
