------------------------------ MODULE Params ------------------------------
(***************************************************************************)
(* The parameter checks of the sandbox, sandbox/src/trap.c: what            *)
(* syscall_check_params makes of the registers of a system call before the  *)
(* monitor and the call itself see them.                                    *)
(*                                                                          *)
(* A system call f is a frame: f.rax names the call, f.arg holds ARG0 to    *)
(* ARG4 as machine words.  What pointers point to does not change while     *)
(* the call is checked.                                                     *)
(***************************************************************************)
EXTENDS Umm, Sequences

CONSTANTS
    INT,            \* number of values of a C int, 2^32
    sizeof,         \* size of the structures, by name
    Nul,            \* addresses that hold a zero byte
    IovAt,          \* the struct iovec stored at an address
    LenAt,          \* the socklen_t stored at an address
    ARCH_GET_FS,    \* the arch_prctl request that stores through a pointer
    IOC_SIZE_UNIT,  \* position of the size in an ioctl request, 2^16
    IOC_DIR_UNIT,   \* position of the direction, 2^30
    UIO_MAXIOV,     \* the host kernel takes no longer iovec array
    NGROUPS_MAX     \* nor more groups

ARG(f, i) == f.arg[i + 1]

(* A machine word passed as an int: the low half, signed.                  *)
Signed(n) == LET k == n % INT IN IF 2 * k < INT THEN k ELSE k - INT

ASSUME ParamsAssumption ==
    /\ INT \in Nat \ {0} /\ INT % 2 = 0 /\ WORD % INT = 0
    /\ \A s \in DOMAIN sizeof : sizeof[s] \in 1 .. INT - 1
    /\ {"epoll_event", "gid_t", "iovec", "socklen_t"} \subseteq DOMAIN sizeof
    /\ Nul \subseteq 0 .. WORD - 1
    /\ IovAt \in [0 .. WORD - 1 -> [base : 0 .. WORD - 1, len : 0 .. WORD - 1]]
    /\ LenAt \in [0 .. WORD - 1 -> 0 .. INT - 1]
    /\ IOC_SIZE_UNIT \in Nat \ {0} /\ IOC_DIR_UNIT \in Nat \ {0}
    /\ UIO_MAXIOV \in Nat /\ NGROUPS_MAX \in Nat
    /\ 2 * UIO_MAXIOV < INT /\ NGROUPS_MAX * sizeof["gid_t"] < INT
    /\ UIO_MAXIOV * sizeof["iovec"] < INT /\ INT * sizeof["iovec"] + Top <= WORD
    /\ TASK_SIZE + APP_MAX_ELF_VADDR <= WORD

-----------------------------------------------------------------------------
check_extent(ptr, len) == mem_ref_is_safe(ptr, Word(len))

check_string(ptr) ==
    LET end == IF ptr < APP_MAX_ELF_VADDR THEN APP_MAX_ELF_VADDR ELSE Top IN
    /\ ptr < APP_MAX_ELF_VADDR \/ ptr >= mmap_base
    /\ \E p \in Nul : ptr <= p /\ p < end

check_iovec_all_but_one_faulty(iov, num) ==
    /\ check_extent(iov, sizeof["iovec"] * num)
    /\ \A i \in 0 .. num - 2 :
         LET v == IovAt[Word(iov + i * sizeof["iovec"])] IN check_extent(v.base, v.len)

check_iovec(iov, num) ==
    /\ check_extent(iov, sizeof["iovec"] * num)
    /\ \A i \in 0 .. num - 1 :
         LET v == IovAt[Word(iov + i * sizeof["iovec"])] IN check_extent(v.base, v.len)

-----------------------------------------------------------------------------
(* The register that holds the buffer, for the calls that have one, and    *)
(* the structure it is, for the calls whose buffer has a fixed size.       *)
ptr_arg ==
    [uname |-> 0, time |-> 0, getcwd |-> 0, rt_sigpending |-> 0, rt_sigsuspend |-> 0,
     getdents |-> 1, read |-> 1, write |-> 1, connect |-> 1, bind |-> 1,
     stat |-> 1, lstat |-> 1, fstat |-> 1, statfs |-> 1, epoll_wait |-> 1,
     setgroups |-> 1, rt_sigaction |-> 1, sigaltstack |-> 1, signalfd |-> 1,
     signalfd4 |-> 1, rt_sigqueueinfo |-> 1, getrlimit |-> 1,
     sendfile |-> 2, epoll_ctl |-> 3, setsockopt |-> 3]

struct_of ==
    [uname |-> "utsname", time |-> "time_t", stat |-> "stat", lstat |-> "stat",
     fstat |-> "stat", statfs |-> "statfs", epoll_ctl |-> "epoll_event",
     rt_sigaction |-> "sigaction", sigaltstack |-> "sigset_t", signalfd |-> "sigset_t",
     signalfd4 |-> "sigset_t", rt_sigpending |-> "sigset_t", rt_sigsuspend |-> "sigset_t",
     rt_sigqueueinfo |-> "siginfo_t", getrlimit |-> "rlimit", sendfile |-> "off_t"]

str_arg ==
    [access |-> 0, open |-> 0, unlink |-> 0, openat |-> 1, stat |-> 0, lstat |-> 0, statfs |-> 0]

(* The length of the buffer; products wrap like size_t.                    *)
counted_len(f) ==
    CASE f.rax \in {"getdents", "read", "write", "connect", "bind"} -> ARG(f, 2)
      [] f.rax = "getcwd"     -> ARG(f, 1)
      [] f.rax = "setsockopt" -> ARG(f, 4)
      [] f.rax = "epoll_wait" -> Word(ARG(f, 2) * sizeof["epoll_event"])
      [] f.rax = "setgroups"  -> Word(ARG(f, 0) * sizeof["gid_t"])

F_PLAIN == {0, 1, 2, 3, 4, 8, 9, 1030}
F_LOCK  == {5, 6, 7}

IOC_DIR(req)  == (req \div IOC_DIR_UNIT) % 4
IOC_SIZE(req) == (req \div IOC_SIZE_UNIT) % (IOC_DIR_UNIT \div IOC_SIZE_UNIT)

NoBuffer == [ptr |-> 0, len |-> 0]

buffer(f) ==
    CASE f.rax \in DOMAIN struct_of ->
           [ptr |-> ARG(f, ptr_arg[f.rax]), len |-> sizeof[struct_of[f.rax]]]
      [] f.rax \in DOMAIN ptr_arg \ DOMAIN struct_of ->
           [ptr |-> ARG(f, ptr_arg[f.rax]), len |-> counted_len(f)]
      [] f.rax = "arch_prctl" /\ ARG(f, 0) = ARCH_GET_FS ->
           [ptr |-> ARG(f, 1), len |-> sizeof["long"]]
      [] f.rax = "accept" /\ ARG(f, 2) # 0 -> [ptr |-> ARG(f, 1), len |-> LenAt[ARG(f, 2)]]
      [] f.rax = "fcntl" /\ ARG(f, 1) \in F_LOCK -> [ptr |-> ARG(f, 2), len |-> sizeof["flock"]]
      [] f.rax = "ioctl" /\ IOC_DIR(ARG(f, 1)) # 0 ->
           [ptr |-> ARG(f, 2), len |-> IOC_SIZE(ARG(f, 1))]
      [] f.rax = "rt_sigprocmask" -> [ptr |-> ARG(f, 1), len |-> sizeof["sigset_t"]]
      [] OTHER -> NoBuffer

(* The checks a call has besides those of its buffer and its string.       *)
refused_first(f) ==
    \/ f.rax \in {"readv", "writev"} /\ ~check_iovec(ARG(f, 1), Signed(ARG(f, 2)))
    \/ f.rax = "accept" /\ ARG(f, 2) # 0 /\ ~check_extent(ARG(f, 2), sizeof["socklen_t"])
    \/ f.rax = "fcntl" /\ ARG(f, 1) \notin F_PLAIN \cup F_LOCK
    \/ /\ f.rax = "rt_sigaction"
       /\ ARG(f, 2) # 0 /\ ~check_extent(ARG(f, 2), sizeof["sigaction"])
    \/ /\ f.rax = "rt_sigprocmask"
       /\ ARG(f, 2) # 0 /\ ~check_extent(ARG(f, 2), sizeof["sigset_t"])
    \/ /\ f.rax = "rt_sigtimedwait"
       /\ \/ ~check_extent(ARG(f, 0), sizeof["siginfo_t"])
          \/ ~check_extent(ARG(f, 1), sizeof["siginfo_t"])
          \/ ARG(f, 2) # 0 /\ ~check_extent(ARG(f, 2), sizeof["timespec"])
    \/ f.rax = "execve" /\ ~check_string(ARG(f, 0))

(* A buffer is checked unless its address or its length is zero.           *)
refused_buffer(f) ==
    LET b == buffer(f) IN b.ptr # 0 /\ b.len # 0 /\ ~check_extent(b.ptr, b.len)

refused_string(f) ==
    /\ f.rax \in DOMAIN str_arg
    /\ ARG(f, str_arg[f.rax]) # 0 /\ ~check_string(ARG(f, str_arg[f.rax]))

(* accept with a length but no address fails the assertion, which ends the *)
(* process; closing a standard descriptor returns 0 and does nothing.      *)
asserts(f) ==
    /\ f.rax = "accept"
    /\ ARG(f, 2) # 0 /\ check_extent(ARG(f, 2), sizeof["socklen_t"])
    /\ ARG(f, 1) = 0

syscall_check_params(f) ==
    CASE asserts(f) -> "abort"
      [] f.rax = "close" /\ ARG(f, 0) < 3 -> "0"
      [] refused_first(f) \/ refused_buffer(f) \/ refused_string(f) -> "EFAULT"
      [] OTHER -> "pass"

-----------------------------------------------------------------------------
(* The host kernel: the addresses a call that it accepts reads or writes.  *)
(* It faults at address 0, where nothing is mapped, and beyond TASK_SIZE.  *)
Reached(ptr, len) ==
    IF ptr = 0 \/ len <= 0 \/ ptr + len > TASK_SIZE THEN {} ELSE ptr .. ptr + len - 1

KernelTouches(f) ==
    CASE f.rax \in {"getdents", "read", "write"} -> Reached(ARG(f, 1), ARG(f, 2))
      [] f.rax \in {"connect", "bind"} -> Reached(ARG(f, 1), Signed(ARG(f, 2)))
      [] f.rax = "getcwd" -> Reached(ARG(f, 0), ARG(f, 1))
      [] f.rax = "setsockopt" -> Reached(ARG(f, 3), Signed(ARG(f, 4)))
      [] f.rax = "epoll_wait" /\ 2 * Signed(ARG(f, 2)) * sizeof["epoll_event"] < INT ->
           Reached(ARG(f, 1), Signed(ARG(f, 2)) * sizeof["epoll_event"])
      [] f.rax = "setgroups" /\ Signed(ARG(f, 0)) \in 0 .. NGROUPS_MAX ->
           Reached(ARG(f, 1), Signed(ARG(f, 0)) * sizeof["gid_t"])
      [] f.rax \in {"readv", "writev"} /\ ARG(f, 2) <= UIO_MAXIOV ->
           Reached(ARG(f, 1), ARG(f, 2) * sizeof["iovec"]) \cup
           UNION {LET v == IovAt[Word(ARG(f, 1) + i * sizeof["iovec"])] IN Reached(v.base, v.len)
                    : i \in 0 .. ARG(f, 2) - 1}
      [] f.rax = "accept" /\ ARG(f, 2) # 0 ->
           Reached(ARG(f, 2), sizeof["socklen_t"]) \cup Reached(ARG(f, 1), LenAt[ARG(f, 2)])
      [] OTHER -> {}

AppMemory == 0 .. APP_MAX_ELF_VADDR - 1 \cup mmap_base .. Top - 1
=============================================================================
