SPECIFICATION FairSpec
CONSTANTS
    Endpoints = {2}
    MaxMessageQueueSize = 1
    MessageAdditionLimit = 2
    MaxSurprises = 1
    m1 = m1
    m2 = m2
    Metric = {m1, m2}
    SinksOf <- BothAndCarbon
    Name = {n1, n2}
    NoName = NoName
    NoMetric = NoMetric
    MaxOffered = 2
INVARIANTS
    OneConnection
    CharactersInOrder
    RegisteredIsReported
PROPERTIES
    QueueDrains
CHECK_DEADLOCK FALSE
