SPECIFICATION MCSpec
CONSTANTS
    Vectors <- Family
    HintLevels = {50}
    SectorIds = {1, 2}
    Deltas <- BigSteps
    FrameCount = 12
    Anchors <- LateEvents
    Batches <- SomeBatches
    TREND_WINDOW = 3
    MaxArrivals = 3
INVARIANT PicksAreBetter
