CONSTANTS
    Server = TRUE
    NoBuffering = FALSE
    DefaultMaxRecvMsgLength = 2
    RecvMsgLimits = {}
    NULL = NULL
    RecvFails = FALSE
    SendFails = TRUE
    MaxHostCalls = 1
    AllocFails = FALSE
    HostMsgs <- OneTextMsg
    HostFragMsgs <- OneFragMsg
    HostCloses <- OneClose
    PeerScripts <- BadScripts
SPECIFICATION MCSpec
CHECK_DEADLOCK FALSE
PROPERTY ProtoErrorClosesWith1002
