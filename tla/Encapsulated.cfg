SPECIFICATION Spec
CONSTANTS
    MaxId = 2
    Chains <- MCChains
    EmptySlots = {2}
    Portion = 2
    BufferSize = 3
    ClearHandshakes = {FALSE, TRUE}
    MutAuth = {"ENCAP", "DIGESTS"}
    FaultKinds = {"SEND", "LOSS", "LATE", "HOLD", "HANDLER", "CRYPTO"}
    MaxFaults = 2
    MaxIssued = 3
    MaxCalls = 3
INVARIANTS
    TypeOK
    AnswersOutstanding
    ChainInOrder
    ChallengeVerifies
    SuccessEndsFlow
    FinishAfterFlow
CHECK_DEADLOCK FALSE
