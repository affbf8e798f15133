SPECIFICATION Spec
CONSTANTS
    MaxCons = 3
    Params <- MCParams
    Credentials <- MCCredentials
    User = "u1"
    Uuid <- MCUuid
    Accounts <- MCAccounts
    Groups <- MCGroups
    Rules <- MCRules
    AnyGroup = "@any"
    Absent = "absent"
    SystemLevels = {}
    Overtaking = FALSE
INVARIANTS
    Attached
    WillKept
    ResponseTopicServed
PROPERTIES
    StateKept
    EndsInTime
CHECK_DEADLOCK FALSE
