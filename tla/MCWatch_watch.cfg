SPECIFICATION FairWatch
CONSTANTS
    Runs = {r1, r2}
    Files <- MCFiles
    Contents <- MCContents
    Broken <- MCNone
    Names <- MCNames
    Modules <- MCModules
    TestFiles <- MCTestFiles
    Defines <- MCDefines
    ImportsOf <- MCImportsOf
    CallsOf <- MCCallsOf
    ModuleOf <- MCModuleOf
    Modes <- MCModes
    Absent = Absent
    MaxActs = 2
INVARIANTS
    WatchTypeOK
    RestedMirrors
    SymbolsCoverSha
    ModuleGraphCovers
PROPERTIES
    GraphFollows
    StopIsFinal
