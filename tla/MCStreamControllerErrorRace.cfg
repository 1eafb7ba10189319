SPECIFICATION Spec
CONSTANTS
    t1 = t1
    t2 = t2
    t3 = t3
    p1 = p1
    p2 = p2
    p3 = p3
    NullTopic = NullTopic
    NoTime = 99
    TopicSeq <- ThreeTopics
    Part = {p1, p2, p3}
    TopicOf <- ThreeEachItsOwn
    StopTimes = {1}
    MaxQueuedWrites = 2
    CanStopNow = FALSE
    CanFail = TRUE
    Horizon = 3
    MaxMessages = 1
    MaxRetries = 0
    MaxSetStops = 1
INVARIANTS
    NoNullDereference
CHECK_DEADLOCK FALSE
