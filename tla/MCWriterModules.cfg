SPECIFICATION Spec
CONSTANTS
    Fill = Fill
    Kind = {"f144", "ev44", "se00", "tdct", "ad00", "al00", "ep01", "da00"}
    Stamp = {1, 3}
    Val = {2, 5}
    Config <- Configurations
    CueInterval = 2
    MaxWrites <- Bound
    MaxFaults = 1
INVARIANTS
    ContentOfMessages
    CueFindsEntry
    ConfigurationCompleted
PROPERTIES
    WrittenStays
CHECK_DEADLOCK FALSE
