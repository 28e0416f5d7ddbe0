\* One worker; clients may be killed at any moment or fail to make their pipes.
\* The server may end, and a worker may wait for a killed client for good.
SPECIFICATION Spec
CONSTANTS
    c1 = c1
    c2 = c2
    c3 = c3
    w1 = w1
    w2 = w2
    None = None
    Clients <- ThreeClients
    Workers <- OneWorker
    MaxRequests = 2
    MayCrash <- ThreeClients
    MayFailMkfifo <- ThreeClients
    Spaced = FALSE
    Spurious = TRUE
SYMMETRY Symmetric
INVARIANTS
    AnswersMatch
    DiesOnlyOfClient
    NoLostWakeup
PROPERTIES
    ServiceSpec
    OperationsAreAsked
CHECK_DEADLOCK FALSE
