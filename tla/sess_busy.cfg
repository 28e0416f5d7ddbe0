\* Two workers; clients come whenever they like; they may fail to make their pipes.
\* Workers and clients may wait for one another for good.
SPECIFICATION Spec
CONSTANTS
    c1 = c1
    c2 = c2
    c3 = c3
    w1 = w1
    w2 = w2
    None = None
    Clients <- ThreeClients
    Workers <- TwoWorkers
    MaxRequests = 1
    MayCrash <- Nobody
    MayFailMkfifo <- ThreeClients
    Spaced = FALSE
    Spurious = TRUE
SYMMETRY Symmetric
INVARIANTS
    PathsConserved
CHECK_DEADLOCK FALSE
