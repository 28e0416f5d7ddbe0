\* A report fails on the empty line after an event, while sessions reserve.
SPECIFICATION Spec
CONSTANTS
    s1 = s1
    s2 = s2
    s3 = s3
    Host = Host
    NoThread = NoThread
    None = None
    Threads <- TwoSessions
    Requests <- MCRequests
    MaxCalls = 3
    MaxShowAlls = 1
    AllocMayFail = FALSE
    StdoutMayFail = TRUE
PROPERTIES
    SeatsPermanent
CHECK_DEADLOCK FALSE
