SPECIFICATION FairSpec
CONSTANTS
    Paths = {c1, c2}
    Outside = {}
    Ids = {i1, i2}
    NoId = NoId
    NoGraph = NoGraph
    Unreadable = Unreadable
    Procs = {p1, p2}
    MaxCommands = 2
    MaxCrashes = 1
    MaxFolderOps = 1
INVARIANT TypeOK
INVARIANT UniqueIds
INVARIANT IndexFromContainers
PROPERTY CommandsEnd
\* The CLI stops once its commands have ended.
CHECK_DEADLOCK FALSE
