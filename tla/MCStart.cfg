CONSTANTS
    PORT = 4
    Bit = {1, 2}
    Absent = Absent
    Star = Star
    Junk = Junk
    Unset = Unset
    EXECPGSIZE = 6
    Char <- MCChar
    sandbox_path <- MCSandbox
    ld_path <- MCLd
    WORD = 16
    TASK_SIZE = 8
    APP_MAX_ELF_VADDR = 4
    LOADER_VADDR_OFF = 1
    Inputs <- MCInputs
    Elfs <- MCElfs
    Texts <- MCTexts
    Filename <- MCFilename
    Argvs <- MCArgvs
    MaxExec = 1
SPECIFICATION StartSpec
INVARIANTS
    LastLineDecides
    BindsAsListed
    OwnWords
    AllRulesRead
    LoadedInside
    ArgumentsArrive
    
    BufferKept
CHECK_DEADLOCK FALSE
