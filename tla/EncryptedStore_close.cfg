\* Close against an Initialize or an Unlock in flight.
CONSTANTS
    Proc = {p1, p2}
    Inst = {i1}
    Alias = {}
    Kek = {k1}
    Rec = {r1}
    NULL = NULL
    MaxRevision = 2
    MaxDraw = 1
SPECIFICATION Spec
INVARIANT
    ClosedStaysLocked
