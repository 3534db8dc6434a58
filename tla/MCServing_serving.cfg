SPECIFICATION ServingSpec
CONSTANTS
    Runs = {r1}
    Files <- MCFiles
    Contents <- MCContents
    Broken <- MCNone
    Names <- MCNames
    Modules <- MCModules
    TestFiles <- MCFiles
    Defines <- MCDefines
    ImportsOf <- MCNothing
    CallsOf <- MCCallsOf
    ModuleOf <- MCModuleOf
    Modes <- MCModes
    Absent = Absent
    MaxActs = 2
    Calls = {a}
    Tools <- MCTools
    LikelyTests <- MCLikelyTests
    ChainTests <- MCLikelyTests
    Like <- MCLike
    SuffixOf <- MCSuffixOf
    Hops <- MCHops
    NameOf <- MCNameOf
    MaxLookups = 1
    FullBlast = 3
    Percents <- MCNoPercents
    Limit = 1
    None = None
INVARIANTS
    ServingTypeOK
    SteadyTestsSuggested
    SavedTestsSuggested
PROPERTIES
    RunsWriteAsQueriesExpects
