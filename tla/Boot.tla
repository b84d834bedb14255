------------------------------- MODULE Boot -------------------------------
(***************************************************************************)
(* How the sandbox loads a program and lays out the first page of its      *)
(* stack, sandbox/src/main.c.  Strings are sequences of characters.        *)
(***************************************************************************)
EXTENDS Naturals, Sequences, FiniteSets

CONSTANTS
    WORD,               \* number of values of a machine word, 2^64
    TASK_SIZE,          \* end of the addresses the host kernel accepts
    APP_MAX_ELF_VADDR,  \* end of the program's own segments
    LOADER_VADDR_OFF    \* where position independent programs are put

ASSUME BootAssumption ==
    /\ {WORD, TASK_SIZE, APP_MAX_ELF_VADDR, LOADER_VADDR_OFF} \subseteq Nat
    /\ LOADER_VADDR_OFF <= APP_MAX_ELF_VADDR /\ APP_MAX_ELF_VADDR <= TASK_SIZE
    /\ TASK_SIZE + APP_MAX_ELF_VADDR <= WORD

(* An ELF file is [e_type, ph], ph the sequence of its program headers     *)
(* [p_type, p_vaddr, p_memsz, p_filesz].                                   *)
off(elf) == IF elf.e_type = "DYN" THEN LOADER_VADDR_OFF ELSE 0

(* Definitions named ..._faulty are variants with a plausible mistake; no  *)
(* action uses them.  README.md says which property notices which.         *)

insecure_ignores_off_faulty(elf, ph) ==
    \/ (ph.p_vaddr + ph.p_memsz) % WORD > APP_MAX_ELF_VADDR
    \/ ph.p_memsz > APP_MAX_ELF_VADDR
    \/ ph.p_filesz > ph.p_memsz

insecure(elf, ph) ==
    \/ (ph.p_vaddr + off(elf) + ph.p_memsz) % WORD > APP_MAX_ELF_VADDR
    \/ ph.p_memsz > APP_MAX_ELF_VADDR
    \/ ph.p_filesz > ph.p_memsz

segment_start(elf, ph) == (ph.p_vaddr + off(elf)) % WORD

(* The host kernel loads a segment at its address if that is below         *)
(* TASK_SIZE.                                                              *)
host_loads(elf, ph) == segment_start(elf, ph) + ph.p_memsz <= TASK_SIZE

Segment(elf, ph) == {a \in 0 .. TASK_SIZE - 1 :
                       segment_start(elf, ph) <= a /\ a < segment_start(elf, ph) + ph.p_memsz}

-----------------------------------------------------------------------------
(* setup_arguments.                                                        *)
NUM_AUX == 13
WORDSIZE == 8
ALIGN == 32

(* Bytes of the strings: one for each character and each terminator.       *)
bytes(strs) == Cardinality(UNION {{k} \X (0 .. Len(strs[k])) : k \in DOMAIN strs})

(* argc, the name of the program, argv, NULL, envv, NULL; then the entries *)
(* of setup_aux.                                                           *)
arg_words(argc, envc) == argc + envc + 4
table_bytes(argc, envc) == WORDSIZE * (arg_words(argc, envc) + 2 * NUM_AUX)

align_down_faulty(len) == (len \div ALIGN) * ALIGN

align(len) == ((len + ALIGN - 1) \div ALIGN) * ALIGN

setup_len(argc, envc, data) == align(data + table_bytes(argc, envc))

(* Bytes between the tables and the strings.                               *)
padding(argc, envc, data) ==
    setup_len(argc, envc, data) - data - table_bytes(argc, envc)

(* The type of the entry that ends the aux vector is one more word: it is  *)
(* written after the strings, and over them if the padding is too short.   *)
overlap(argc, envc, data) ==
    IF padding(argc, envc, data) < WORDSIZE THEN WORDSIZE - padding(argc, envc, data) ELSE 0

(* The arguments as the program finds them: a string that begins in the    *)
(* bytes written over is empty.                                            *)
app_argv(path, argv, envv) ==
    LET strs == <<path>> \o argv
        data == bytes(strs \o envv)
        lost == overlap(Len(argv), Len(envv), data)
    IN  [k \in 1 .. Len(strs) |-> IF bytes(SubSeq(strs, 1, k - 1)) < lost THEN <<>> ELSE strs[k]]
=============================================================================
