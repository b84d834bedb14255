CONSTANTS
    Mem = {"tagA", "tagB"}
    Fd <- MCFd
    SC_FD_LEN = 2
    SC_SYS_LEN = 16
    MaxId = 2
    Policies <- MCServers
    Val = {7}
    Chan = {1, 2}
    Peer = {1, 2}
    PipeCap = 1
    MaxDepth = 3
    NULL = NULL
SPECIFICATION FairSpec
PROPERTIES
    JoinSettles
CHECK_DEADLOCK FALSE
