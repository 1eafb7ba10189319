SPECIFICATION MCSpec
CONSTANTS
    Source = {s1, s2}
    FilterSource = s1
    NsPerMicro = 2
    NoMessage = NoMessage
    Time = {1, 2}
    Timestamp = {1, 2, 3, 4}
    MaxMessages = 4
INVARIANTS
    ForwardedInOrder
    AtLeastOneMessage
    BufferedIsNewest
    WindowOfOrderedStream
PROPERTIES
    FinishedIsFinal
CHECK_DEADLOCK FALSE
