CONSTANTS
    Qos <- Qos2012
    Pids = {1, 2, 3}
    V5 = FALSE
    ReceiveMax = 2
    AnyTime = FALSE
    Denied <- OneDenied
    CleanStarts = {FALSE}
    MayExpire = FALSE
    MaxConnects = 3
    MaxSubscribes = 1
    ByPacketId = FALSE
    Sessionless = FALSE
    MaxRestarts = 2
SPECIFICATION SerializedSpec
INVARIANT InOrder
PROPERTY ImplementsReliableDelivery
PROPERTY EventuallyDelivered
CHECK_DEADLOCK FALSE
