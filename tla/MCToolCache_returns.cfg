SPECIFICATION FairSpec
CONSTANTS
    Servers = {s}
    a = a
    b = b
    wa = wa
    wb = wb
    Calls = {a, b, wa}
    ServerOf <- MCOneServer
    WarmUp <- MCOneWarmUp
    Keys = {k}
    MemoKeys = {k}
    Instants <- MCOneInstant
    FirstStamp <- MCIndexed
    MaxContent = 1
    None = None
PROPERTIES
    CallsReturn
    CallsAreShort
