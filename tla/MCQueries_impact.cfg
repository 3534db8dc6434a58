SPECIFICATION QuerySpec
CONSTANTS
    Files <- MCFiles
    Contents <- MCContents
    Names <- MCOneName
    Modules <- MCModules
    TestFiles <- MCNone
    Defines <- MCDefinesP
    ImportsOf <- MCImportsOf
    CallsOf <- MCNothing
    ModuleOf <- MCModuleOf
    Absent = Absent
    Calls = {a}
    Tools <- MCTools
    LikelyTests <- MCNone
    ChainTests <- MCNone
    Like <- MCLikeP
    SuffixOf <- MCNone
    Hops <- MCNoHops
    NameOf <- MCAlwaysP
    MaxLookups = 1
    FullBlast = 3
    Percents <- MCNoPercents
    Limit = 2
    None = None
INVARIANTS
    SteadyImpactFound
    RiskNotUnderstated
    BoundaryAgrees
