SPECIFICATION FairSpec
CONSTANTS
    a = a
    b = b
    c = c
    Inputs = {a}
    Divisor <- HalfRate
    CacheSize = 3
    MaxCount = 2
    MaxTime = 6
    CallbackMayStop = TRUE
INVARIANTS TypeOK NoTornFrame NeverServesEmptySlot Unbroken SkipsReportedOnce Cadence
PROPERTIES ImplementsFeed StopReturns
