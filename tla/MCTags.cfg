CONSTANTS
    Pages = 19
    PGSIZE = 2
    WORD = 64
    TAG_SIZE = 1
    STACK_SIZE = 1
    MEM_MAX = 2
    MAPS_BUF = 3
    SizeofKstate = 0
    SizeofSthread = 1
    Maps <- MCMaps
    Sizes <- MCSizes
    Policies <- MCPolicies
    Buffers <- MCBuffers
    Places <- MCPlaces
    MaxTags = 1
    MaxSthreads = 2
    MaxBlocks = 2
SPECIFICATION TagsSpec
INVARIANTS
    PolicyHolds
    WritesOwn
    Isolation
    BlocksDisjoint
    BufferTranslated
    AssertOnlyAfterRefusal
CHECK_DEADLOCK FALSE
