SPECIFICATION Spec
CONSTANTS
    Locals <- OneLocal
    Calls = {"INIT", "GET_DIGESTS", "GET_CERTIFICATE", "CHALLENGE", "GET_MEASUREMENTS", "VENDOR_DEFINED"}
    Portions = 2
    MultiKey = TRUE
    RetryTimes = 1
    RdTm = 2
    ResponseStates = {}
    TokenCount = 3
    FaultKinds = {}
    MaxFaults = 1
    MaxHolds = 1
    MaxNonce = 6
    MaxPortions = 4
INVARIANT OtherRequestsResetM
