SPECIFICATION InspectSpec
CONSTANTS
    Tokens <- TwoTokens
    MaxFrames = 2
    MaxFaults = 1
INVARIANT TamperingShows
