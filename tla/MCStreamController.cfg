SPECIFICATION Spec
CONSTANTS
    t1 = t1
    t2 = t2
    t3 = t3
    p1 = p1
    p2 = p2
    p3 = p3
    NullTopic = NullTopic
    NoTime = 99
    TopicSeq <- TwoTopics
    Part = {p1, p2}
    TopicOf <- EachItsOwn
    StopTimes = {1}
    MaxQueuedWrites = 1
    CanStopNow = TRUE
    CanFail = TRUE
    Horizon = 2
    MaxMessages = 0
    MaxRetries = 0
    MaxSetStops = 1
INVARIANTS
    CompleteJob
    StopTimePropagated
PROPERTIES
    FreedWhenDone
CHECK_DEADLOCK FALSE
