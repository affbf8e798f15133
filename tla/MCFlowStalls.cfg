CONSTANTS
    Qos <- Qos222
    Pids = {1, 2, 3}
    V5 = TRUE
    ReceiveMax = 1
    AnyTime = FALSE
    Denied = {}
    CleanStarts = {FALSE}
    MayExpire = FALSE
    MaxConnects = 2
    MaxSubscribes = 0
SPECIFICATION FairSpec
PROPERTY EventuallyDelivered
CHECK_DEADLOCK FALSE
