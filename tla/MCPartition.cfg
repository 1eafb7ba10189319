SPECIFICATION Spec
CONSTANTS
    s1 = s1
    s2 = s2
    k1 = k1
    k2 = k2
    NoMessage = NoMessage
    NsPerMicro = 1
    Source = {s1}
    Key = {k1, k2}
    SrcOf <- OneSource
    Repeats = {k1}
    MaxTime = 20
    Leeway = 1
    TimeLimit = 1
    Start = 2
    InitialStop = 20
    StopTimes = {2, 3}
    CanStop = FALSE
    CanDestroy = TRUE
    Horizon = 4
    MaxLog = 2
    MaxErrors = 0
    MaxPauses = 0
    MaxRequests = 2
INVARIANTS
    StopTimeNotLost
    WindowComplete
PROPERTIES
    DeliversMessages
CHECK_DEADLOCK FALSE
