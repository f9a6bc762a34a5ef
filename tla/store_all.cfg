\* Two processes with any jobs, edits, and processes that stop half-way.
CONSTANTS
    Procs = {p1, p2}
    Jobs <- Everything
    Facts = {f1}
    MaxEdits = 2
    MaxStarts = 4
    MaxStops = 1
SPECIFICATION Spec
INVARIANTS
    WholeUnlessOverlap
    EvidenceIsKept
PROPERTIES
    QuietScanHeals
    UndisturbedUndoesNothing
SYMMETRY Symmetry
CHECK_DEADLOCK FALSE
