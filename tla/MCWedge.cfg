CONSTANTS
    Mem = {"tagA"}
    Fd = {1, 2, 3}
    SC_FD_LEN = 1
    SC_SYS_LEN = 16
    MaxId = 2
    Policies <- MCReaders
    Val = {7}
    Chan = {1, 2}
    Peer = {2}
    PipeCap = 1
    MaxDepth = 3
    NULL = NULL
    Page = {"data", "buffer"}
    Stack = "stack"
    HostBuffers = {"buffer"}
    TlbKeeps = {"stack"}
SPECIFICATION WSpec
INVARIANTS
    TrackedFresh
    
CHECK_DEADLOCK FALSE
