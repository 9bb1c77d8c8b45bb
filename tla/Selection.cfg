SPECIFICATION Spec
CONSTANTS
    a = a
    b = b
    c = c
    Dirs = {a, b}
    Above <- MCAbove
    Ids = {i1, i2}
    None = None
    Broken = Broken
    MaxCommands = 3
    MaxCrashes = 1
SYMMETRY Symmetry
INVARIANT SelectorObeyed
INVARIANT CwdObeyed
INVARIANT DirectoryObeyed
\* The CLI stops once its commands have ended.
CHECK_DEADLOCK FALSE
