\* Three events, writes cut short and a line of scan, in any order.
CONSTANTS
    Events = {e1, e2, e3}
    Garbage = Garbage
    Split = Split
    Nothing = Nothing
    MaxTears = 2
    MaxForeign = 1
SPECIFICATION JSpec
INVARIANTS
    ReadsAreFaithful
    UnmarkedStaysPending
    CutCostsOneMarker
PROPERTIES
    CutLosesNothing
SYMMETRY Symmetry
CHECK_DEADLOCK FALSE
