CONSTANTS
    Server = TRUE
    NoBuffering = FALSE
    DefaultMaxRecvMsgLength = 2
    RecvMsgLimits = {}
    NULL = NULL
    RecvFails = TRUE
    SendFails = FALSE
    MaxHostCalls = 0
    AllocFails = FALSE
    HostMsgs <- OneTextMsg
    HostFragMsgs <- OneFragMsg
    HostCloses <- OneClose
    PeerScripts <- ServerScripts
SPECIFICATION MCSpec
CHECK_DEADLOCK FALSE
INVARIANT WriteStopsOnlyAfterClose
