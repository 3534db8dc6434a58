SPECIFICATION FairSpec
CONSTANTS
    Runs = {r1}
    Files <- MCFiles
    Contents <- MCTextsAndBroken
    Broken <- MCBroken
    Names <- MCNames
    Modules <- MCModules
    TestFiles <- MCTestFiles
    Defines <- MCDefines
    ImportsOf <- MCImportsOf
    CallsOf <- MCCallsOf
    ModuleOf <- MCModuleOf
    Modes <- MCBothModes
    Absent = Absent
INVARIANTS
    TypeOK
    QuietRunMirrorsDisk
    ShaVouchesForSymbols
    EdgesMatchText
    FirstIndexLinksBackward
    GateClosedWhileRebuilding
PROPERTIES
    RunsEnd
    UnchangedFilesKept
    RunsAreShort
