\* Two goroutines on two instances with different RP ids over one store and
\* two authenticators, one of them without hmac-secret: racing Creates, Deletes
\* and crashes in the middle of a Create.  No symmetry, so that liveness can be
\* checked.
CONSTANTS
    Proc = {p1, p2}
    Service = {s1, s2}
    Alias = {a1}
    Device = {d1, d2}
    HmacSecret = {d1}
    Salt = {t1}
    Rp = {rp1, rp2}
    RpId <- MCRpId
    NULL = NULL
    MaxCred = 2
SPECIFICATION FairSpec
INVARIANTS
    TypeOK
    RecordsNameCredentials
    AnsweredStaysDerivable
    SecretsAreStable
    OwnCreatesDoNotCollide
    IInv
PROPERTIES
    ImplementsKeyring
    CallsReturn
