------------------------------ MODULE MCTrap ------------------------------
(* An instance of TrapUmm for TLC: two threads, pages of two bytes, the     *)
(* layout of MCUmm.  A C int has 16 values and a machine word 256, so that  *)
(* the counts of the calls wrap in both widths.                             *)
EXTENDS TrapUmm

CONSTANTS t1, t2

Call(rax, a0, a1, a2, a3, a4) == [rax |-> rax, arg |-> <<a0, a1, a2, a3, a4>>]

MCElf == {0}
MCFault == {0}

MCSizeof == [epoll_event |-> 3, gid_t |-> 1, iovec |-> 2, socklen_t |-> 1, long |-> 1]
MCNul == {APP_MAX_ELF_VADDR - 1}

(* An array of iovecs at mmap_base: the second one reaches out of the program.     *)
MCIovAt == [a \in 0 .. WORD - 1 |->
              IF a = mmap_base + 2 THEN [base |-> 2, len |-> 3] ELSE [base |-> mmap_base, len |-> 2]]
MCLenAt == [a \in 0 .. WORD - 1 |-> a % INT]

Memory ==
    {Call("brk", mmap_base + n, 0, 0, 0, 0) : n \in {0, 1}}
    \cup {Call("mmap", 0, 1, 0, 0, 0), Call("munmap", mmap_base, 2, 0, 0, 0)}
    \cup {Call("mprotect", 0, 2, 0, 0, 0), Call("shmat", 2, 0, 0, 0, 0)}
    \cup {Call("mremap", 0, 2, 1, 1, 0), Call("mremap", mmap_base, 2, 2, 3, 0)}

Other ==
    {Call("read", 0, mmap_base, n, 0, 0) : n \in {2, WORD - 1}}
    \cup {Call("connect", 0, mmap_base, n, 0, 0) : n \in {7, INT + 1}}
    \cup {Call("setgroups", n, 1, 0, 0, 0) : n \in {1, INT + 1}}
    \cup {Call("epoll_wait", 0, mmap_base, n, 0, 0) : n \in {86, INT, 2}}
    \cup {Call("readv", 0, mmap_base, n, 0, 0) : n \in {1, 2, 15}}
    \cup {Call("accept", 0, a, 1, 0, 0) : a \in {0, 1, 3}}
    \cup {Call("close", 1, 0, 0, 0, 0), Call("exit", 0, 0, 0, 0, 0), Call("execve", 0, 0, 0, 0, 0)}

(* The second thread makes the calls that are passed through.              *)
MCCalls == [t \in Thread |->
              IF t = t1 THEN Memory
              ELSE Other \cup {f \in Memory : f.rax = "mmap"}]
MCDenied == {Call("setgroups", 1, 1, 0, 0, 0)}

MCAddr == {f.arg[i] : f \in Memory, i \in 1 .. 5}
MCLength == MCAddr \ {0}
===========================================================================
