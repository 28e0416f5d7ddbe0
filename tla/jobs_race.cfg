\* One jobs file that creates one event twice, its two lines in two threads.
SPECIFICATION Spec
CONSTANTS
    NoThread = 0
    None = None
    AnyNumber = 7
    NumberBuffer = 16
    MaxUint = 999
    MaxReservation = 3
    MaxThreads = 2
    MaxProc = 1
    AllocMayFail = FALSE
    Threads <- TwoThreads
    Directory <- OneJob
    Files <- RaceFiles
    Requests <- MCRequests
INVARIANTS
    UniqueIds
CHECK_DEADLOCK FALSE
