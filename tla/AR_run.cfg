SPECIFICATION AdapterRunSpec
CONSTANTS
    VerifyCommands = TRUE
    Attempts = 2
    Stages <- MCStages
    Reports <- MCReports
    FileStages <- MCFileStages
    Timed = TRUE
    CopilotStages = {"requirements-analysis"}
    TTL = 1
INVARIANTS
    StoppedNeverCompletes
    CompletedKeepsRole
    NoStaleDeliverable
    VerdictIsTold
PROPERTIES
    StartsAreProbed
    AdapterRunEnds
CHECK_DEADLOCK FALSE
