SPECIFICATION Spec
CONSTANTS
    MaxSeq = 7
    AllOnes = 8
    HeaderSeq = FALSE
    MaxSessions = 2
    LastHalf = 65535
    MaxDhe = 0
    MaxPsk = 0
    HandshakeInTheClear = FALSE
    PskContext = TRUE
    Interleaved = TRUE
    Exchanges = {"PSK_EXCHANGE"}
    RetryTimes = 1
    RdTm = 2
    DropOnDecryptError = FALSE
    ResponseStates = {"NORMAL", "BUSY"}
    TokenCount = 2
    FaultKinds = {}
    MaxFaults = 0
    MaxRandom = 4
    SeqBound = 1
INVARIANTS
    PskFinishSucceeds
CHECK_DEADLOCK FALSE
