SPECIFICATION FairSpec
CONSTANTS
    MaxSeq = 4
    AllOnes = 4
    HeaderSeq = FALSE
    RetryTimes = 1
    RdTm = 2
    DropPolicies = {FALSE, TRUE}
    Apis = {"UPDATE_KEY", "UPDATE_ALL_KEYS", "HEARTBEAT", "END_SESSION", "ENCAP"}
    ResponseStates = {"NORMAL", "BUSY", "NOT_READY"}
    Tags = {0}
    TokenCount = 2
    FaultKinds = {"SEND", "LOSS", "LATE", "ENTROPY"}
    MaxFaults = 1
    MaxGen = 3
INVARIANTS
    TypeOK
    NonceFresh
    NoDecryptError
    InStepWhenQuiet
    SuccessMeansUpdated
    EndAgreement
    BoundedRequests

    
CHECK_DEADLOCK FALSE
