SPECIFICATION FairSpec
CONSTANTS
    t1 = t1
    t2 = t2
    t3 = t3
    p1 = p1
    p2 = p2
    p3 = p3
    NullTopic = NullTopic
    NoTime = 99
    TopicSeq <- OneTopic
    Part = {p1}
    TopicOf <- OneOfOne
    StopTimes = {1}
    MaxQueuedWrites = 1
    CanStopNow = TRUE
    CanFail = TRUE
    Horizon = 2
    MaxMessages = 2
    MaxRetries = 1
    MaxSetStops = 1
PROPERTIES
    JobEnds
    PauseEnds
    ErrorReported
CHECK_DEADLOCK FALSE
