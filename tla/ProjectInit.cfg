SPECIFICATION Spec
CONSTANTS
    Procs = {p1, p2}
    outer = outer
    inner = inner
    Dirs = {outer, inner}
    Above <- MCAbove
    Foreign = {}
    None = None
    Envs = {None, outer}
    BrandKeys = {"name", "slogan"}
    MaxRuns = 2
    MaxFaults = 1
    MaxEdits = 1
SYMMETRY Symmetry
INVARIANTS TypeOK OkIsReady NothingLost Repairs OkIsFound
