SPECIFICATION Spec
CONSTANTS
    Paths = {c1, c2, c3}
    Outside = {c3}
    Ids = {i1, i2, i3}
    NoId = NoId
    NoGraph = NoGraph
    Unreadable = Unreadable
    Procs = {p1}
    MaxCommands = 3
    MaxCrashes = 0
    MaxFolderOps = 2
SYMMETRY Symmetry
INVARIANT IdentityKept
INVARIANT RegistrationKept
\* The CLI stops once its commands have ended.
CHECK_DEADLOCK FALSE
