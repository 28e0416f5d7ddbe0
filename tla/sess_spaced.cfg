\* Two workers; clients come one at a time and none fails.
SPECIFICATION FairSpec
CONSTANTS
    c1 = c1
    c2 = c2
    c3 = c3
    w1 = w1
    w2 = w2
    None = None
    Clients <- ThreeClients
    Workers <- TwoWorkers
    MaxRequests = 1
    MayCrash <- Nobody
    MayFailMkfifo <- Nobody
    Spaced = TRUE
    Spurious = FALSE
INVARIANTS
    AllInv
PROPERTIES
    AllServed
