SPECIFICATION SubmissionSpec
CONSTANTS
    submitA = submitA
    submitB = submitB
    again = again
    fromGraph = fromGraph
    register = register
    edit = edit
    runA = runA
    runB = runB
    repo = repo
    web = web
    home = home
    fork = fork
    found = found
    chosen = chosen
    NoProfile = NoProfile
    Nothing = Nothing
    Asked <- Questions
    Run <- Two
    Repository <- OneRepository
    Project <- OneProject
    Root <- Roots
    Token <- SameToken
    Profile <- Profiles
    Found <- FoundAtHome
    Request <- AnyRequest
    MaxRequests = 3
    MaxCrashes = 1
    MaxCleanups = 1
INVARIANTS
    RunIsWhole
    RunOwnsItsWorktree
    AcceptedRunIsThere
PROPERTIES
    TransactionsEnd
CHECK_DEADLOCK FALSE
