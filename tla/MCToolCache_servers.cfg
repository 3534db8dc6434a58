SPECIFICATION Spec
CONSTANTS
    Servers = {a, b}
    a = a
    b = b
    wa = wa
    wb = wb
    Calls = {a, b, wa, wb}
    ServerOf <- MCOwnServer
    WarmUp <- MCOwnWarmUp
    Keys = {k}
    MemoKeys = {}
    Instants <- MCOneInstant
    FirstStamp <- MCNoSpans
    MaxContent = 2
    None = None
SYMMETRY MCServerSymmetry
CONSTRAINT MCStampsDiffer
INVARIANTS
    StampVouchesForEntry
    AnswersReflectPublished
