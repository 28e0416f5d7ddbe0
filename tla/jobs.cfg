\* One process at a time of a directory with two jobs files; two threads; memory
\* may run out.  The system ends, or a leaked lock stops it.
SPECIFICATION FairSpec
CONSTANTS
    NoThread = 0
    None = None
    AnyNumber = 7
    NumberBuffer = 16
    MaxUint = 999
    MaxReservation = 3
    MaxThreads = 2
    MaxProc = 1
    AllocMayFail = TRUE
    Threads <- TwoThreads
    Directory <- MCDirectory
    Files <- MCFiles
    Requests <- MCRequests
INVARIANTS
    StuckOnlyIfLeaked
    OpsInv
    ThreadsInv
    LocksHeld
    NumbersAccounted
    EveryLineRan
    PoolBound
    EndsReported
    ReadAsWritten
    ParsersAgree
CHECK_DEADLOCK FALSE
PROPERTIES
    StoreSpec
    OrderSpec
    PoolEnds
