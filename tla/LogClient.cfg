SPECIFICATION MCSpec
CONSTANTS
    Writers = {w1, w2}
    MaxCalls = 3
    MaxCrashes = 2
    Garbled = Garbled
    Empty = Empty
    Tokens <- TwoTokens
    MaxFrames = 3
    MaxFaults = 1
    Sockets = {s1, s2, s3, s4}
    NoSocket = NoSocket
    MaxPongs = 2
    maxRetries = 3
    HeartbeatEnabled = TRUE
INVARIANTS
    RecordsInOrder
    CleanLogVerifies
    VerifiedLogIsComplete
    AcceptedIsSegment
    OutageRespected
    RecordingIsNeutral
    OnlyCurrentSocketLives
    ConnectedIsBacked
    DisconnectIsFinal
    NeverStranded
PROPERTIES
    LogReturns
    ConnectSettles
