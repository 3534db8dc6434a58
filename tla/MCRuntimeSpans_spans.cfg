SPECIFICATION Spec
CONSTANTS
    f = f
    g = g
    s1 = s1
    s2 = s2
    s3 = s3
    Nodes = {f, g}
    Spans = {s1, s2, s3}
    CallerOf <- MCCallerOf
    CalleeOf <- MCCalleeOf
    Failed = {s2}
    Hour = 2
    Horizon = 2
    Lookbacks = {1, 2}
    Limit = 2
    Readers = {q}
    None = None
SYMMETRY MCSpanSymmetry
INVARIANTS
    WindowsAddUp
    AnswersWithinLookback
    RecentSpansCounted
    TotalsMatchRows
