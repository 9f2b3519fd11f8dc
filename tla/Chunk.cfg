SPECIFICATION FairSpec
CONSTANTS
    ReqDts = 6
    RspDts = 6
    ReqSend = 5
    RspSend = 5
    MinDts = 5
    Header = 2
    SizeField = 1
    Ack = 1
    Wide = FALSE
    SeqCount = 3
    HandleCount = 2
    MaxMsg = 9
    ReqSizes = {1, 6, 8, 9}
    RspSizes = {1, 5, 8, 9, 10}
    RetryTimes = 1
    ResponseStates = {"BUSY", "NOT_READY", "NEED_RESYNC"}
    FaultKinds = {"SEND", "LOSS"}
    MaxFaults = 1
    MaxHolds = 1
INVARIANTS TypeOK TransferAgreement
PROPERTIES ImplementsExchange FailsOnlyIfDisturbed CallReturns
