CONSTANTS
    Threads = {t1}
    MaxMsgs = 2
    MsgLen = 2
    SockCap = 1
    HighWater = 2
    Users <- MCUsers
    MaxQueue = 1
    None = None
SPECIFICATION Spec
INVARIANT OnlyMessages
