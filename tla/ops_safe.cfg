\* Three sessions, four requests, one report; memory may run out, stdout works.
SPECIFICATION Spec
CONSTANTS
    s1 = s1
    s2 = s2
    s3 = s3
    Host = Host
    NoThread = NoThread
    None = None
    Threads <- ThreeSessions
    Requests <- MCRequests
    MaxCalls = 4
    MaxShowAlls = 1
    AllocMayFail = TRUE
    StdoutMayFail = FALSE
SYMMETRY Symmetric
INVARIANTS
    TypeOK
    UniqueIds
    SnapshotIsHistory
    ReservationsAccounted
    LocksReleased
    ShowAllComplete
    StoreInv
PROPERTIES
    SeatsPermanent
    AbstractSpec
