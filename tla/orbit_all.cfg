SPECIFICATION LiveSpec
CONSTANTS
    Ids = {1, 2, 3, 4, 5, 6, 7, 8, 9, 10}
    NoId = 0
    Snapshots <- MCSnapshots
    Requests <- MCRequests
    Values = {"login", "billing", "untested"}
    Cost <- MCCost
    Digits <- MCDigits
    EdgeCost = 1
    EdgeDigits = 1
    Envelope = 2
    MaxStarts = 2
INVARIANTS
    WalkIsExact
    CutsAreFair
    PacketIsCoherent
    RetryIsGranted
PROPERTIES
    CompileEnds
CHECK_DEADLOCK FALSE
