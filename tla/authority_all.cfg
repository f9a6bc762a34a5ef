SPECIFICATION Spec
CONSTANTS
    Ids = {i1, i2, i3}
    NoId = NoId
    Actions = {"read"}
    Resources <- MCResources
    Paths <- MCPaths
    AnySegments = "**"
    OneSegment = "*"
    Expiries = {Never, 0}
    Never = Never
    Commands = {c1, c2}
    MaxUses = 1
    MaxClock = 1
SYMMETRY MCSymmetry
INVARIANTS
    HistoryIsWhole
    MatcherIsGlob
PROPERTIES
    DenialStands
CHECK_DEADLOCK FALSE
