CONSTANTS
    LastMR = 2
    FixLimit = 1
    MaxTroubles = 1
    FreeOrders = FALSE
    Workers = {w1, w2}
    NoWorker = NoWorker
    CleanHandover = TRUE
    MaxFailures = 1
SPECIFICATION Spec
INVARIANTS
    LoopsTypeOK
    FixesBounded
    DoneMeansSeenTo
    RepeatsBounded
PROPERTIES
    MergesAreSpaced
    MergesWhatWasGreen
    QueueDrains
    OutageIsAlerted
    SilenceIsNoticed
    AliveIsSeen
CHECK_DEADLOCK FALSE
