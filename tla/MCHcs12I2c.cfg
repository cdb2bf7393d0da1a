SPECIFICATION FairSpec
CONSTANTS
    Tasks = {t1, t2}
    Calls <- SmallCalls
    ByteMax = 2
    Tries = 1
    MaxCalls = 3
INVARIANTS BusSound
PROPERTIES TransfersTrue CallReturns
