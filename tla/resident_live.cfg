\* Two roots in one daemon, the first of them never reconcilable: does the other
\* converge, and come to rest.
CONSTANTS
    N = 2
    Files <- OneFile
    Unwatched <- NoFile
    Outputs <- AtlasIdx
    Broken <- FirstRoot
    InitialMayFail = FALSE
    MayIngest = FALSE
    MaxEdits = 3
    MaxFaults = 1
    MaxEvents = 4
SPECIFICATION FairSpec
PROPERTIES
    Converges
    ComesToRest
