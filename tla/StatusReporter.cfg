SPECIFICATION FairSpec
CONSTANTS
    NoTopic = NoTopic
    MaxQueue = 2
    MaxPolls = 2
    MaxJobs = 3
    MaxFaults = 1
INVARIANTS
    MessageOwnedOnce
    SettledTopics
    ReportUndisturbed
PROPERTIES
    DestructorReturns
CHECK_DEADLOCK FALSE
