SPECIFICATION Spec
CONSTANTS
    Procs = {p1, p2}
    outer = outer
    inner = inner
    Dirs = {outer, inner}
    Above <- MCAbove
    Foreign = {outer}
    None = None
    Envs = {None, outer}
    BrandKeys = {"name", "slogan"}
    MaxRuns = 1
    MaxFaults = 0
    MaxEdits = 0
SYMMETRY Symmetry
INVARIANT DiscoveredIsProject
