CONSTANTS
    Mem = {"tagA", "tagB"}
    Fd <- MCFd
    SC_FD_LEN = 2
    SC_SYS_LEN = 16
    MaxId = 2
    Policies <- MCPolicies
    Val = {7, 8}
    Chan = {1, 2}
    Peer = {2}
    PipeCap = 1
    MaxDepth = 3
    NULL = NULL
SPECIFICATION Spec
INVARIANTS
    ResumableFromOwnFrame
    AbortOnlyOnSecondJoin
    PolicyOfCreator
    OffOwnRootOnlyAfterRead
    ActivationsNest
PROPERTIES
    ImplementsApi
CHECK_DEADLOCK FALSE
