\* One root, a file the watcher tells of and one it drops: two edits after the first
\* contents, two faults and two events, at any moment.
CONSTANTS
    N = 1
    Files <- SourceAndTmp
    Unwatched <- Tmp
    Outputs <- AtlasIdx
    Broken <- NoRoot
    InitialMayFail = TRUE
    MayIngest = TRUE
    MaxEdits = 3
    MaxFaults = 2
    MaxEvents = 3
SPECIFICATION Spec
INVARIANTS
    AppliedIsServed
    NoSilentStaleness
PROPERTIES
    CopiesAreMirrors
