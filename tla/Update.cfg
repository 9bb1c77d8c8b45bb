SPECIFICATION Spec
CONSTANTS
    Tabular = {csv}
    Opaque = {pdf}
    Junk = {junk}
    IndexFile = index
    Contents = {v1, v2}
    Original = v1
    Gone = Gone
    PartialView = PartialView
    Datasets = {d1}
    None = None
    MaxCommands = 2
    MaxEdits = 1
    MaxFailures = 1
INVARIANT UpdateConverges
INVARIANT DatasetsVisited
INVARIANT DatasetPathReleased
INVARIANT NoSpuriousError
PROPERTY UpdateEnds
\* The command line stops once its commands have ended.
CHECK_DEADLOCK FALSE
