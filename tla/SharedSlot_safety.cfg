\* Three batches and two deaths of the worker, at any step.
CONSTANTS
    MaxBatches = 3
    MaxCrashes = 2
SPECIFICATION FairSpec
INVARIANTS
    TypeOK
    MutualExclusion
    WholeBatchSent
    
PROPERTIES
    SlotDrains
    
