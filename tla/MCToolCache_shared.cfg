SPECIFICATION Spec
CONSTANTS
    Servers = {s}
    a = a
    b = b
    wa = wa
    wb = wb
    Calls = {a, b, wa}
    ServerOf <- MCOneServer
    WarmUp <- MCOneWarmUp
    Keys = {k}
    MemoKeys = {}
    Instants <- MCOneInstant
    FirstStamp <- MCPruned
    MaxContent = 2
    None = None
SYMMETRY MCCallSymmetry
PROPERTIES
    KeepsPromise
INVARIANTS
    TypeOK
    AnswersReflectQuery
    OneQueryInFlight
