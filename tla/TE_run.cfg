SPECIFICATION Spec
CONSTANTS
    db = db
    api = api
    Service <- TwoServices
    DependsOn <- ApiNeedsDb
    StartupOrder <- DbFirst
    Alphabetical <- ByName
    MaxUploadFaults = 1
INVARIANTS
    CompletedMeansVerified
    StartedServicesAreStopped
    EvidenceIsTold
PROPERTIES
    ExecutionEnds
CHECK_DEADLOCK FALSE
