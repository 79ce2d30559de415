\* A process that runs the command and other programs again and again, with
\* a device and the broker plugged in and out at any time.
SPECIFICATION SpecCLI
CONSTANTS
    Proc = {p1}
    Path = {d1, hello}
    Auth = {full, plain, u2f}
    Fido2 = {full, plain}
    HmacSecret = {full}
    Cred = {c1, c2}
    Rp = {rp1, rp2}
    Salt = {s1, s2}
    ShortSalt = short
    NULL = NULL
    Hello = {hello}
    MaxDevices = 2
    AutoSingle = TRUE
SYMMETRY Symmetric
INVARIANTS
    TypeOKCLI
    ListingFaithful
    RefusedMeansUntouched
    PrintedSuffices
PROPERTY
    ImplementsAuthenticator
