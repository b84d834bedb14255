CONSTANTS
    PGSIZE = 2
    WORD = 256
    TASK_SIZE = 18
    APP_MAX_ELF_VADDR = 2
    APP_MMAP_LEN = 8
    APP_STACK_SIZE = 4
    mmap_base = 8
    DUNE = TRUE
    Elf <- MCElf
    Addr <- MCAddr
    Length <- MCLength
    Fault <- MCFault
    INT = 16
    sizeof <- MCSizeof
    Nul <- MCNul
    IovAt <- MCIovAt
    LenAt <- MCLenAt
    ARCH_GET_FS = 1
    IOC_SIZE_UNIT = 4
    IOC_DIR_UNIT = 8
    UIO_MAXIOV = 3
    NGROUPS_MAX = 6
    t1 = t1
    t2 = t2
    Thread = {t1, t2}
    NoThread = NoThread
    NoFault = NoFault
    Calls <- MCCalls
    Denied <- MCDenied
SPECIFICATION TrapFairSpec
INVARIANTS
    MutexHolder
    
    
PROPERTIES
    ImplementsUmm
    LockReleased
CHECK_DEADLOCK FALSE
