SPECIFICATION Spec
CONSTANTS
    AlwaysSendReasonCode = TRUE
    Openings <- MCOpenings
    Followers <- MCFollowers
    Aliases <- MCAliases
    BulkLimits = {0, 256}
    PropsLimits = {0, 128}
    Uninitialized = {0, 130}
    Cuts = {0, 1, 9}
    MaxSent = 2
INVARIANTS StoredAsSent
PROPERTIES ImplementsPacketChannel WholeHandled
CHECK_DEADLOCK FALSE
