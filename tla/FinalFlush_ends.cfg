\* One operation, one refusal, one death of the worker.
SPECIFICATION FairSpec
CONSTANTS
    Ops = {o1}
    Logs = {}
    MAX_LOGS_PER_TRANSACTION = 1
    MaxRefusals = 1
    MaxCrashes = 1
PROPERTY ShutdownEnds
CHECK_DEADLOCK FALSE
