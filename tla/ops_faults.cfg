\* Two sessions, three requests, one report; memory may run out and writes to
\* stdout may fail.
\* A failed report may leave creates waiting for good: the system may stop.
SPECIFICATION FairSpec
CONSTANTS
    s1 = s1
    s2 = s2
    s3 = s3
    Host = Host
    NoThread = NoThread
    None = None
    Threads <- TwoSessions
    Requests <- MCRequests
    MaxCalls = 3
    MaxShowAlls = 1
    AllocMayFail = TRUE
    StdoutMayFail = TRUE
INVARIANTS
    IInv
    StuckOnlyIfLeft
PROPERTIES
    ReadersReturn
    CallsReturnUnlessLeft
CHECK_DEADLOCK FALSE
