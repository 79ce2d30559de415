\* Liveness: two goroutines on one Store, no symmetry.
CONSTANTS
    Proc = {p1, p2}
    Inst = {i1}
    Alias = {a1}
    Kek = {k1}
    Rec = {r1}
    NULL = NULL
    MaxRevision = 2
    MaxDraw = 1
SPECIFICATION FairSpec
PROPERTY
    CallsReturn
