CONSTANTS
    NUM_ITERATIONS = 3
    Progs <- MCProgs
SPECIFICATION IpiFairSpec
INVARIANTS
    NoLostWakeup
    EachOnce
    

    
CHECK_DEADLOCK FALSE
