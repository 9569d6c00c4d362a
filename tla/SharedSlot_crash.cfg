\* One crash, under the same fairness.
CONSTANTS
    MaxBatches = 2
    MaxCrashes = 1
SPECIFICATION FairSpec
PROPERTIES
    LockComesBack
