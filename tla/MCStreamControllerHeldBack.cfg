SPECIFICATION Spec
CONSTANTS
    t1 = t1
    t2 = t2
    t3 = t3
    p1 = p1
    p2 = p2
    p3 = p3
    NullTopic = NullTopic
    NoTime = 99
    TopicSeq <- OneTopic
    Part = {p1}
    TopicOf <- OneOfOne
    StopTimes = {1, 2}
    MaxQueuedWrites = 2
    CanStopNow = TRUE
    CanFail = FALSE
    Horizon = 3
    MaxMessages = 2
    MaxRetries = 1
    MaxSetStops = 1
INVARIANTS
    HeldBackIsWritten
CHECK_DEADLOCK FALSE
