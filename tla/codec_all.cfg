\* Five files in four directories, any of which may be missing at the start: two edits,
\* or one change others make to the root's file, losses and rebuilds, at any moment.
SPECIFICATION CSpec
CONSTANTS
    ScanOrder <- MCPaths
    Systems <- MCSystems
    Root = "root"
    Exporting <- MCExporting
    Requiring <- MCRequiring
    Goals = {"goal"}
    Galaxy = Galaxy
    Missing = Missing
    MaxEdits = 2
    MaxBeside = 0
    MaxTouches = 1
INVARIANTS
    NavigationIsExact
PROPERTIES
    RebuildRestores
