\* Records under rotations and restarts: two processes, one alias, two
\* records that compete for it.
CONSTANTS
    Proc = {p1, p2}
    Inst = {i1, i2}
    Alias = {a1}
    Kek = {k1}
    Rec = {r1, r2}
    NULL = NULL
    MaxRevision = 2
    MaxDraw = 1
SYMMETRY Symmetric
SPECIFICATION Spec
INVARIANTS
    EnvelopesRecoverable
    InFlightGetOpens
    AckedPutDurable
PROPERTY
    ImplementsVault
