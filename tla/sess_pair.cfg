\* Two workers, two clients that may come together.
SPECIFICATION Spec
CONSTANTS
    c1 = c1
    c2 = c2
    c3 = c3
    w1 = w1
    w2 = w2
    None = None
    Clients <- TwoClients
    Workers <- TwoWorkers
    MaxRequests = 1
    MayCrash <- Nobody
    MayFailMkfifo <- Nobody
    Spaced = FALSE
    Spurious = FALSE
INVARIANTS
    ClientsPipes
CHECK_DEADLOCK FALSE
