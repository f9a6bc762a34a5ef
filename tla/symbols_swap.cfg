SPECIFICATION Spec
CONSTANTS
    f = f
    t = t
    a = a
    b = b
    fn = fn
    method = method
    type = type
    Files = {f, t}
    Tests = {t}
    Names = {a, b}
    MaxPlace = 4
    Line <- MCLine
    Constructs = {fn, method, type}
    KindOf <- MCKindOf
    Described = {"function"}
    Hash <- MCHash
    ByName <- MCByName
    Texts <- MCTexts
    Project = Project
    Protected = {Project}
    Mute = {}
    Proposals <- MCProposals
    Budget = 1
    MaxEdits = 1
PROPERTIES
    RescanIsStable
CHECK_DEADLOCK FALSE
