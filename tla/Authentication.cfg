SPECIFICATION Spec
CONSTANTS
    Locals <- OneLocal
    Calls = {"INIT", "GET_DIGESTS", "GET_CERTIFICATE", "CHALLENGE", "GET_MEASUREMENTS", "VENDOR_DEFINED"}
    Portions = 2
    MultiKey = TRUE
    RetryTimes = 1
    RdTm = 2
    ResponseStates = {"BUSY", "NOT_READY", "NEED_RESYNC"}
    TokenCount = 3
    FaultKinds = {"SEND", "LOSS"}
    MaxFaults = 1
    MaxHolds = 1
    MaxNonce = 4
    MaxPortions = 4
INVARIANTS TranscriptsAgree SignatureResynchronises
PROPERTIES SignaturesVerify
