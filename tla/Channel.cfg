SPECIFICATION MCSpec
CONSTANTS
    MaxMessages = 2
    Handlers = {h1, h2}
    MaxArrivals = 3
    MaxTime = 3
    MaxAge = 1
    Skew = 1
    ClockOffsets <- Offsets
    Clients = {a, b}
    Sockets = {s1, s2}
    Limit = 1
    Window = 1
    Grace = 1
    Ttl = 1
    Period = 1
    MaxThreads = 1
    MaxClock = 4
    None = None
SYMMETRY Symmetric
INVARIANTS
    NonceUsedOnce
    NoSplice
    ChainsAgree
    RateBounded
    ThreadsKeptWhileActive
