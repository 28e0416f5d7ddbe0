\* One of two clients is killed.
SPECIFICATION Spec
CONSTANTS
    c1 = c1
    c2 = c2
    c3 = c3
    w1 = w1
    w2 = w2
    None = None
    Clients <- TwoClients
    Workers <- TwoWorkers
    MaxRequests = 1
    MayCrash <- TwoClients
    MayFailMkfifo <- Nobody
    Spaced = TRUE
    Spurious = FALSE
PROPERTIES
    RequestsOnce
CHECK_DEADLOCK FALSE
