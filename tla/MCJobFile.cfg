SPECIFICATION Spec
CONSTANTS
    Node <- MCNode
    FileName <- MCFileName
    Document <- MCDocument
    TemplateDoc <- MCTemplateDoc
    StopTime <- MCStopTime
    MaxJobs = 2
    MaxFaults = 1
    MaxKills = 1
INVARIANTS
    SourcesAreOpen
    NoStreamForgotten
    TemplateCanBeUsed
PROPERTIES
    FilesAreKept
    FinishedIsComplete
CHECK_DEADLOCK FALSE
