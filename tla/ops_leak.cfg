\* A report fails on stdout and a create is waiting for the list lock.
SPECIFICATION FairSpec
CONSTANTS
    s1 = s1
    s2 = s2
    s3 = s3
    Host = Host
    NoThread = NoThread
    None = None
    Threads <- TwoSessions
    Requests <- MCRequests
    MaxCalls = 2
    MaxShowAlls = 1
    AllocMayFail = FALSE
    StdoutMayFail = TRUE
PROPERTIES
    CallsReturn
CHECK_DEADLOCK FALSE
