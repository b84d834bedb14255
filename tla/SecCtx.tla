------------------------------ MODULE SecCtx ------------------------------
(***************************************************************************)
(* The security context of an sthread (wedge/include/sthread.h, sc_t) and  *)
(* the checks wedge/src/sthread.c makes on it at every system call.        *)
(*                                                                         *)
(* sc.mem  the sc_mem array: the tags the sthread may use, as one opaque   *)
(*         value (sthread_create only compares it with memcmp);            *)
(* sc.fd   the non-zero prefix of the sc_fd array, oldest entry first;     *)
(* sc.sys  the system call numbers whose bit is set in sc_sys.             *)
(***************************************************************************)
EXTENDS Naturals, Sequences

CONSTANTS
    Mem,         \* contents of sc_mem
    Fd,          \* descriptor numbers
    SC_FD_LEN,   \* entries of sc_fd, 8 in sthread.h
    SC_SYS_LEN   \* bytes of sc_sys, 16 in sthread.h

ASSUME ScAssumption == SC_FD_LEN \in Nat \ {0} /\ SC_SYS_LEN \in Nat \ {0}

SYS_read  == 0
SYS_write == 1
SYS_open  == 2
SYS_close == 3
SYS_exit_sthread == 666

Prot == {"PROT_READ", "PROT_WRITE"}

FdEntry == [fd : Fd, prot : SUBSET Prot]

Sc == [mem : Mem, fd : Seq(FdEntry), sys : SUBSET Nat]

-----------------------------------------------------------------------------
sc_init(mem) == [mem |-> mem, fd |-> <<>>, sys |-> {}]

(* sc_fd_add calls errx, which ends the process, when the array is full.   *)
sc_fd_full(sc) == Len(sc.fd) >= SC_FD_LEN

sc_fd_add(sc, fd, prot) ==
    [sc EXCEPT !.fd = Append(sc.fd, [fd |-> fd, prot |-> prot])]

sc_sys_add(sc, sysno) == [sc EXCEPT !.sys = @ \cup {sysno}]

(* The scan stops at the first entry for fd, whatever it permits.          *)
has_fd_perm(sc, fd, perm) ==
    \E i \in 1 .. Len(sc.fd) :
        /\ sc.fd[i].fd = fd
        /\ perm \in sc.fd[i].prot
        /\ \A j \in 1 .. (i - 1) : sc.fd[j].fd # fd

(* can_do_sys accepts byte positions up to and including SC_SYS_LEN.  The  *)
(* byte at SC_SYS_LEN is the low byte of st_writable, a page address: 0.   *)
sys_in_range(sysno) == sysno \div 8 <= SC_SYS_LEN

can_do_sys(sc, sysno) ==
    \/ sysno \in {SYS_exit_sthread, SYS_read, SYS_write}
    \/ sysno \div 8 < SC_SYS_LEN /\ sysno \in sc.sys
=============================================================================
