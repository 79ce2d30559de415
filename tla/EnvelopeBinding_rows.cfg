SPECIFICATION Spec
CONSTANTS
    MaxPayloadField = 1
    MaxCiphertext = 19
    Overhead = 2
    SaltSize = 1
    StoreIdSize = 1
    HeaderAADPrefix <- HeaderText
    RecordAADPrefix <- RecordText
    Database <- TwoDatabases
    Alias <- Aliases
    Candidate <- Records
    Ref <- Refs
    MaxNonce = 3
    MaxRevision = 2
    NULL = NULL
INVARIANTS GetReturnsWhatWasPut UnlockAcceptsWrittenHeader PutIsReadable IInv
CHECK_DEADLOCK FALSE
