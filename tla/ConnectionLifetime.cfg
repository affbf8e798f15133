CONSTANTS
    Layered = TRUE
    Patient = TRUE
    Mixed = FALSE
    MaxQueueSendCount = 1
    MaxActs = 3
    MaxPings = 1
SPECIFICATION FairSpec
INVARIANT ToldOnce
PROPERTY ForceEnds
PROPERTY SilenceIsNoticed
PROPERTY PublishEnds
CHECK_DEADLOCK FALSE
