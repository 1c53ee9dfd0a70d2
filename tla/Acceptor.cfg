CONSTANTS
    MaxFds = 4
    MaxPeers = 4
    MaxOthers = 2
    Release = TRUE
    Errors = {"ENFILE", "ECONNABORTED", "EINTR", "EADDRINUSE"}
    ListenAddrs <- MCListenAddrs
SPECIFICATION AcceptorFairSpec
INVARIANTS NoneLost NotAborted
PROPERTY Served
CHECK_DEADLOCK FALSE
