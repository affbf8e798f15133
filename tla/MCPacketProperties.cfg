SPECIFICATION Spec
CONSTANTS
    AlwaysSendReasonCode = FALSE
    Openings <- MCOpenings
    Followers <- MCFollowers
    Aliases <- MCAliases
    BulkLimits = {0, 256}
    PropsLimits = {0, 128}
    Uninitialized = {0, 130}
    Cuts = {0, 1, 9}
    MaxSent = 2
INVARIANTS PropertiesArrive
CHECK_DEADLOCK FALSE
