SPECIFICATION FairSpec
CONSTANTS
    Locals <- ConnectionLocals
    Calls = {"INIT"}
    Portions = 1
    MultiKey = TRUE
    RetryTimes = 1
    RdTm = 2
    ResponseStates = {"BUSY", "NOT_READY", "NEED_RESYNC"}
    TokenCount = 3
    FaultKinds = {"SEND", "LOSS"}
    MaxFaults = 2
    MaxHolds = 2
    MaxNonce = 1
    MaxPortions = 1
INVARIANTS TypeOK VcaAgreement
PROPERTIES FreshAfterVersion ConnectionRecovers
