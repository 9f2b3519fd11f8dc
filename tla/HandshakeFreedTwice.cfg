SPECIFICATION Spec
CONSTANTS
    MaxSeq = 7
    AllOnes = 8
    HeaderSeq = FALSE
    MaxSessions = 2
    LastHalf = 65535
    MaxDhe = 0
    MaxPsk = 0
    HandshakeInTheClear = FALSE
    PskContext = TRUE
    Interleaved = TRUE
    Exchanges = {"KEY_EXCHANGE"}
    RetryTimes = 1
    RdTm = 2
    DropOnDecryptError = FALSE
    ResponseStates = {"NORMAL"}
    TokenCount = 2
    FaultKinds = {"DAMAGE"}
    MaxFaults = 1
    MaxRandom = 4
    SeqBound = 1
INVARIANTS
    NoAssertion
CHECK_DEADLOCK FALSE
