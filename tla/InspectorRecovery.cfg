SPECIFICATION InspectSpec
CONSTANTS
    Tokens <- TwoTokens
    MaxFrames = 3
    MaxFaults = 0
INVARIANT NothingCriticalInRecovery
