\* Three goroutines of any processes; three revisions, so that a swap can
\* fail between its two statements and the header move on.
CONSTANTS
    Proc = {p1, p2, p3}
    Alias = {a1}
    Blob = {b1, b2}
    Revision = {1, 2, 3}
    NULL = NULL
    Asked <- Everything
SYMMETRY Symmetric
SPECIFICATION Spec
INVARIANT
    TypeOK
PROPERTY
    ImplementsBackend
