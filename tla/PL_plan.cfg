SPECIFICATION Spec
CONSTANTS
    DocsGovernance = DocsGovernance
    CliRuntime = CliRuntime
    SchemaContracts = SchemaContracts
    docs = docs
    schemas = schemas
    cli = cli
    TopologyRoute = {DocsGovernance, CliRuntime, SchemaContracts}
    Service = {docs, schemas, cli}
    Elsewhere = Elsewhere
    Topology <- Acyclic
    Request <- Requests
INVARIANTS
    SomeRouteCanStart
    ChangeReachesItsRoutes
CHECK_DEADLOCK FALSE
