\* One jobs file that creates an event that exists, and later another event.
SPECIFICATION FairSpec
CONSTANTS
    NoThread = 0
    None = None
    AnyNumber = 7
    NumberBuffer = 16
    MaxUint = 999
    MaxReservation = 3
    MaxThreads = 2
    MaxProc = 1
    AllocMayFail = FALSE
    Threads <- TwoThreads
    Directory <- OneJob
    Files <- HangFiles
    Requests <- MCRequests
PROPERTIES
    OpsReturn
CHECK_DEADLOCK FALSE
