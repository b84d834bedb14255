CONSTANTS
    PGSIZE = 2
    WORD = 64
    TASK_SIZE = 18
    APP_MAX_ELF_VADDR = 4
    APP_MMAP_LEN = 8
    APP_STACK_SIZE = 4
    mmap_base = 8
    DUNE = TRUE
    Elf <- MCElf
    Addr <- MCAddr
    Length <- MCLength
    Fault <- MCFault
SPECIFICATION UmmSpec
INVARIANTS
    RegionsApart
    NeverReplacesPlaced
    GuardUnmapped
    
    MappedIsReachable
CHECK_DEADLOCK FALSE
