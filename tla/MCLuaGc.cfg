SPECIFICATION FairSpec
CONSTANTS
    Scenarios <- MCScenarios
    GCSWEEPMAX = 1
    MINSTRTABSIZE = 1
INVARIANTS HeapSound StringsInterned
PROPERTIES FinalizersTrue GarbageFreed
