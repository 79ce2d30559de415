\* Two processes share the database: two initialisers (MaxDraw = 2), two
\* rotations of revision 1 to revision 2, stale unlocks, no records.
CONSTANTS
    Proc = {p1, p2}
    Inst = {i1, i2}
    Alias = {}
    Kek = {k1, k2}
    Rec = {r1}
    NULL = NULL
    MaxRevision = 2
    MaxDraw = 2
SYMMETRY Symmetric
SPECIFICATION Spec
INVARIANTS
    TypeOK
    HeaderOpens
    UnlockedHoldsStoreDek
    NoLostRotation
    UnlockUsesCurrentKek
    IInv
