SPECIFICATION Spec
CONSTANTS
    Ops = {o1}
    Logs = {l1, l2}
    MAX_LOGS_PER_TRANSACTION = 1
    MaxRefusals = 1
    MaxCrashes = 1
INVARIANTS
    TypeOK
    DrainedMeansAnswered
PROPERTY NothingOverwritten
SYMMETRY Symmetry
CHECK_DEADLOCK FALSE
