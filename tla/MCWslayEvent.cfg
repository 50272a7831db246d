CONSTANTS
    Server = TRUE
    NoBuffering = FALSE
    DefaultMaxRecvMsgLength = 4
    RecvMsgLimits = {}
    NULL = NULL
    RecvFails = TRUE
    SendFails = TRUE
    MaxHostCalls = 2
    AllocFails = FALSE
    HostMsgs <- OneTextMsg
    HostFragMsgs <- OneFragMsg
    HostCloses <- OneClose
    PeerScripts <- ServerScripts
SPECIFICATION MCFairSpec
INVARIANTS TypeOK SentDataIsQueuedData CloseIsLastFrame DeliveredMatchesWire ConformingPeerNeverFailed
PROPERTY CloseEchoed MessageInFlightCompletes
CHECK_DEADLOCK FALSE
