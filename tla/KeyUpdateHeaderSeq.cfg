SPECIFICATION Spec
CONSTANTS
    MaxSeq = 4
    AllOnes = 4
    HeaderSeq = TRUE
    RetryTimes = 1
    RdTm = 2
    DropPolicies = {FALSE}
    Apis = {"UPDATE_KEY", "UPDATE_ALL_KEYS"}
    ResponseStates = {"NORMAL", "NOT_READY"}
    Tags = {0}
    TokenCount = 2
    FaultKinds = {}
    MaxFaults = 0
    MaxGen = 2
INVARIANTS
    NoDecryptError
CHECK_DEADLOCK FALSE
