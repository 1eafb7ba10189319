SPECIFICATION FairSpec
CONSTANTS
    s1 = s1
    s2 = s2
    k1 = k1
    k2 = k2
    NoMessage = NoMessage
    NsPerMicro = 1
    Source = {s1}
    Key = {k1}
    SrcOf <- JustOne
    Repeats = {k1}
    MaxTime = 20
    Leeway = 0
    TimeLimit = 1
    Start = 1
    InitialStop = 20
    StopTimes = {1}
    CanStop = TRUE
    CanDestroy = TRUE
    Horizon = 2
    MaxLog = 1
    MaxErrors = 2
    MaxPauses = 1
    MaxRequests = 1
PROPERTIES
    ErrorStopExact
    TimeOutLogExact
    FinishesWhenTold
    JoinReturns
CHECK_DEADLOCK FALSE
