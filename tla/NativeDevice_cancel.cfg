\* Three goroutines: an operation that ends, another that begins, and a
\* Cancel in between.  No symmetry, so that liveness can be checked.
SPECIFICATION FairSpec
CONSTANTS
    Proc = {p1, p2, p3}
    Handle = {h1, h2, h3}
    NULL = NULL
INVARIANTS
    CancelReachesOpenHandle
    IInv
PROPERTY
    OperationsEnd
CHECK_DEADLOCK FALSE
