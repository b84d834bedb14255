CONSTANTS
    Mem = {"tagA"}
    Fd = {1, 2, 3}
    SC_FD_LEN = 1
    SC_SYS_LEN = 16
    MaxId = 1
    Policies <- MCReaders
    Val = {7}
    Chan = {1, 2}
    Peer = {2}
    PipeCap = 1
    MaxDepth = 3
    NULL = NULL
    Page = {"data"}
    Stack = "stack"
    HostBuffers = {"data"}
    TlbKeeps = {}
SPECIFICATION WSpec
INVARIANT FreshStart
CHECK_DEADLOCK FALSE
