CONSTANTS
    Server = FALSE
    NoBuffering = TRUE
    DefaultMaxRecvMsgLength = 4
    RecvMsgLimits = {}
    NULL = NULL
    RecvFails = TRUE
    SendFails = TRUE
    MaxHostCalls = 2
    AllocFails = TRUE
    HostMsgs <- TwoByteMsg
    HostFragMsgs <- OneFragMsg
    HostCloses <- OneClose
    PeerScripts <- ClientScripts
SPECIFICATION MCSpec
INVARIANTS FramesOnWire SentDataIsQueuedData
CHECK_DEADLOCK FALSE
