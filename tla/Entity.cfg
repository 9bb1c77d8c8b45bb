SPECIFICATION Spec
CONSTANTS
    WorkStream = WorkStream
    Meeting = Meeting
    globalId = globalId
    name = name
    startsOn = startsOn
    Types = {WorkStream, Meeting}
    Slugs = {kickoff}
    FieldIds = {globalId, name, startsOn}
    GlobalId = globalId
    LocalFields <- MCLocalFields
    RemoteFields <- MCRemoteFields
    Required = {name}
    Rank <- MCRank
    Surfaceable = {}
    Refusing = {startsOn}
    None = None
    MaxSuffix = 2
    MaxCommands = 3
    MaxEdits = 1
    MaxFailures = 1
INVARIANT CreatedIsListed
INVARIANT HealthyIsListed
INVARIANT UpdatedIsReady
INVARIANT FacadeLast
\* The command line stops once its commands have ended.
CHECK_DEADLOCK FALSE
