SPECIFICATION FairSpec
CONSTANTS
    Default = default
    Control = {c1}
    None = none
    Failing = {"metadata", "missing", "pool", "connect", "producer", "create", "status", "revert"}
    Signals = {"SIGINT", "SIGTERM", "SIGHUP"}
    MaxStarts = 2
    MaxStops = 1
    MaxSignals = 2
    MaxFaults = 1
    MaxTroubles = 2
INVARIANTS
    OnTopicOfJob
    EachAnswered
    OneFinishedPerJob
PROPERTIES
    JobFinishes
    ShutsDown
CHECK_DEADLOCK FALSE
