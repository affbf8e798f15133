SPECIFICATION FairSpec
CONSTANTS
    Qos <- MCQos
    Pids <- MCPids
    V5 = TRUE
    ReceiveMax = 1
    Refused = {6}
    Expirable = {5}
    Interleaved = FALSE
    MaxConnects = 3
INVARIANTS InflightIsStored WindowExact
PROPERTIES ImplementsOrderedDelivery EventuallyReceived
CHECK_DEADLOCK FALSE
