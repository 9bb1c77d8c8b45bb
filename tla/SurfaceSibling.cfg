SPECIFICATION Spec
CONSTANTS
    Containers = {c1, c2}
    None = None
    Entities <- MCEntities
    Types <- MCTypes
    TermsOf <- MCTermsOf
    Surfaceable <- MCSurfaceable
    WorkStreams <- MCWorkStreams
    Fixed <- MCFixed
    Components <- MCComponents
    Chrome <- MCChrome
    Layout <- MCLayout
    Cells <- MCCells
    MaxAttempts = 2
    MaxCommands = 2
    MaxEdits = 1
    MaxFaults = 0
INVARIANT PageOfOwnContainer
CHECK_DEADLOCK FALSE
