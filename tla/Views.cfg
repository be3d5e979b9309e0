SPECIFICATION ViewsSpec
CONSTANTS
    Senders <- TwoSenders
    MAX_FRAMES = 5
    MaxLength = 6
    MaxCaptures = 2
    MaxOdd = 1
    Vectors <- Family
    HintLevels = {50}
    SectorIds = {1, 2}
    Deltas <- BigSteps
    FrameCount = 12
    Anchors <- LateEvents
    Batches <- SomeBatches
    TREND_WINDOW = 3
    MaxArrivals = 4
    OkTicks = 2
    WarnTicks = 5
    HistoryLimit = 2
    LtpSockets = {s1, s2, s3}
    Latencies = {40, 50, 100, 300}
    UpstreamSockets = {u1, u2}
    MaxTime = 9
    None = None
INVARIANTS
    KitImpliesHttp
    KitImpliesCanonical
    CleanSweep
    PhaseNeedsEnergy
    AngleMatchesFrame
    WeaveInTickOrder
    SuggestionsSettle
    HealthHonest
    NoOrphanHeartbeat
    OneUpstream
PROPERTY
    MergeIsNews
