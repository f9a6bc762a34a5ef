SPECIFICATION LiveSpec
CONSTANTS
    u = u
    g = g
    p = p
    f = f
    s = s
    Ids = {u, g, p, f, s}
    NoParent = NoParent
    Snapshots <- MCSnapshots
    ByName <- MCByName
    Findings <- MCFindings
    Ledgers <- MCLedgers
    Conflicts = {k}
    Disputes <- MCDisputes
    Floors <- MCFloors
    Resolutions = {"no_match"}
    MaxChanges = 2
INVARIANTS
    Settled
    GreenIsEarned
    RecordedCounts
PROPERTIES
    MovedIsHonest
    EvaluationEnds
CHECK_DEADLOCK FALSE
