\* Two goroutines on one database that holds records, a header and
\* envelopes, or plain records alone.
CONSTANTS
    Proc = {p1, p2}
    Alias <- MCAlias
    Blob = {b1, b2}
    Revision = {1, 2}
    NULL = NULL
    Uses <- Either
SYMMETRY Symmetric
SPECIFICATION Spec
INVARIANT
    TypeOK
PROPERTY
    ImplementsBackend
