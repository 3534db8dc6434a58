SPECIFICATION Spec
CONSTANTS
    Runs = {r1, r2}
    Files <- MCFiles
    Contents <- MCTexts
    Broken <- MCBroken
    Names <- MCNames
    Modules <- MCModules
    TestFiles <- MCTestFiles
    Defines <- MCDefines
    ImportsOf <- MCImportsOf
    CallsOf <- MCCallsOf
    ModuleOf <- MCModuleOf
    Modes <- MCIncremental
    Absent = Absent
INVARIANT
    ShaVouchesForSymbols
