\* Two scans: one after the other with three edits, or at once with one, any tree to
\* begin with.  A torn registry stops every scan: the system may end there.
SPECIFICATION Spec
CONSTANTS
    Ax = Ax
    Aby = Aby
    Cx = Cx
    c1 = c1
    c2 = c2
    s1 = s1
    s2 = s2
    Paths <- MCPaths
    SystemOf <- MCSystemOf
    PlanetOf <- MCPlanetOf
    Contents = {c1, c2}
    Gone = Gone
    Procs = {s1, s2}
    MaxEdits = 3
    MaxRaced = 1
SYMMETRY MCSymmetry
INVARIANTS
    RegistryIsWhole
    StillTreeStillIds
    StayingFilesKeepTheirIds
    RefusedForReason
CHECK_DEADLOCK FALSE
