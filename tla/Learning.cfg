SPECIFICATION Spec
CONSTANTS
    c1 = c1
    c2 = c2
    nearer = nearer
    mid = mid
    farther = farther
    other = other
    Paths = {p1, p2}
    Contents = {c1, c2}
    Alter = c2
    Entities = {e1}
    Candidates = {nearer, mid, farther, other}
    Unsuited = {other}
    None = None
    WeightOf <- MCWeightOf
    MaxDistance = 4
    MaxCommands = 2
    MaxEdits = 1
    MaxFailures = 1
INVARIANT StepsInOrder
INVARIANT Lineage
INVARIANT BestMatchNearest
\* The command line stops once its commands have ended.
CHECK_DEADLOCK FALSE
