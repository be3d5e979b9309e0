SPECIFICATION Spec
CONSTANTS
    MaxMessages = 2
    Handlers = {h1}
    MaxArrivals = 2
    MaxTime = 1
    MaxAge = 1
    Skew = 1
    ClockOffsets <- Offsets
INVARIANT EveryEnvelopeChained
