CONSTANTS
    Server = TRUE
    NoBuffering = FALSE
    DefaultMaxRecvMsgLength = 4
    RecvMsgLimits = {}
    NULL = NULL
    RecvFails = TRUE
    SendFails = TRUE
    MaxHostCalls = 0
    AllocFails = FALSE
    HostMsgs <- OneTextMsg
    HostFragMsgs <- OneFragMsg
    HostCloses <- OneClose
    PeerScripts <- BadReasonClose
SPECIFICATION MCSpec
CHECK_DEADLOCK FALSE
INVARIANT CloseReasonIsUtf8
