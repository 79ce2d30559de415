\* The plain List of a database that the encrypted store uses as well.
CONSTANTS
    Proc = {p1}
    Alias <- MCAlias
    Blob = {b1}
    Revision = {1, 2}
    NULL = NULL
    Uses <- Both
SPECIFICATION Spec
INVARIANT
    ListReturnsAliases
