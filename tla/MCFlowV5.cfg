CONSTANTS
    Qos <- Qos22012
    Pids = {1, 2, 3}
    V5 = TRUE
    ReceiveMax = 2
    AnyTime = FALSE
    Denied <- OneDenied
    CleanStarts = {FALSE, TRUE}
    MayExpire = TRUE
    MaxConnects = 3
    MaxSubscribes = 1
SPECIFICATION FairSpec
INVARIANT TypeOK
INVARIANT PidsConsistent
INVARIANT NoProtocolError
INVARIANT WindowSafe
INVARIANT NoQuotaExceeded
INVARIANT NothingLost
PROPERTY PidsComeBack
CHECK_DEADLOCK FALSE
