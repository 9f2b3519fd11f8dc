SPECIFICATION Spec
CONSTANTS
    MaxSeq = 7
    AllOnes = 8
    HeaderSeq = FALSE
    MaxSessions = 2
    LastHalf = 65535
    MaxDhe = 1
    MaxPsk = 0
    HandshakeInTheClear = FALSE
    PskContext = TRUE
    Interleaved = TRUE
    Exchanges = {"KEY_EXCHANGE", "PSK_EXCHANGE"}
    RetryTimes = 1
    RdTm = 2
    DropOnDecryptError = FALSE
    ResponseStates = {"NORMAL", "BUSY", "NOT_READY"}
    TokenCount = 2
    FaultKinds = {"SEND", "LOSS", "LATE", "CRYPTO"}
    MaxFaults = 1
    MaxRandom = 3
    SeqBound = 1
INVARIANTS
    TablesConsistent
    NoAssertion
    FinishSucceeds
PROPERTIES
    EstablishAgreement
CHECK_DEADLOCK FALSE
