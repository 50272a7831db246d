CONSTANTS
    Server = FALSE
    NoBuffering = TRUE
    DefaultMaxRecvMsgLength = 4
    RecvMsgLimits = {}
    NULL = NULL
    RecvFails = FALSE
    SendFails = TRUE
    MaxHostCalls = 1
    AllocFails = FALSE
    HostMsgs <- TwoByteMsg
    HostFragMsgs <- OneFragMsg
    HostCloses <- OneClose
    PeerScripts <- ClientScripts
SPECIFICATION MCSpec
CHECK_DEADLOCK FALSE
PROPERTY ShortReadIsNotFatal
