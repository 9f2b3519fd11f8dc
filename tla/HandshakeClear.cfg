SPECIFICATION Spec
CONSTANTS
    MaxSeq = 1
    AllOnes = 3
    HeaderSeq = FALSE
    MaxSessions = 2
    LastHalf = 65535
    MaxDhe = 0
    MaxPsk = 1
    HandshakeInTheClear = TRUE
    PskContext = FALSE
    Interleaved = TRUE
    Exchanges = {"KEY_EXCHANGE", "PSK_EXCHANGE"}
    RetryTimes = 1
    RdTm = 2
    DropOnDecryptError = TRUE
    ResponseStates = {"NORMAL", "BUSY"}
    TokenCount = 2
    FaultKinds = {"LOSS", "LATE", "CRYPTO", "DAMAGE", "SEND"}
    MaxFaults = 2
    MaxRandom = 4
    SeqBound = 3
INVARIANTS
    TablesConsistent
    KeysAgree
PROPERTIES
    EstablishAgreement
CHECK_DEADLOCK FALSE
