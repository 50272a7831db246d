CONSTANTS
    Server = TRUE
    NoBuffering = FALSE
    DefaultMaxRecvMsgLength = 4
    RecvMsgLimits = {2}
    NULL = NULL
    RecvFails = FALSE
    SendFails = TRUE
    MaxHostCalls = 1
    AllocFails = TRUE
    HostMsgs <- OneTextMsg
    HostFragMsgs <- OneFragMsg
    HostCloses <- OneClose
    PeerScripts <- ErrorScripts
SPECIFICATION MCRecvFairSpec
INVARIANTS DeliveredMatchesWire 
PROPERTY PeerMessagesDelivered
CHECK_DEADLOCK FALSE
