\* Two goroutines, any installation, every request; with one extension output
\* looked at, a list may be empty, just long enough or too long.
SPECIFICATION Spec
CONSTANTS
    Proc = {p1, p2}
    Addr = {a1, a2}
    Cred = {c1, c2}
    Rp = {rp}
    Salt = {s1}
    ShortSalt = short
    Systems <- System
    Requests <- Request
    ExtensionLimit = 1
    NULL = NULL
SYMMETRY Symmetry
INVARIANTS
    TypeOK
    StructuresOwned
    AbandonedCannotDerive
    RefusedMeansUntouched
PROPERTY ImplementsAuthenticator
