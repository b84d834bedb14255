-------------------------------- MODULE Ipi --------------------------------
(***************************************************************************)
(* The three programs that time an interrupt sent from one core to another *)
(* (bench/src): posted_ipi.c ("posted"), whose main thread sends,          *)
(* bench_dune_ipi.c ("threads") and bench_fork_ipi.c ("fork").  The sender *)
(* waits for t2_ready, then sends and spins on wait once per iteration;    *)
(* the handler, which runs on top of t2, clears wait.  Line numbers are    *)
(* those of bench_dune_ipi.c unless another file is named.                 *)
(*                                                                         *)
(* "fork" runs the two sides in processes, each with flags of its own.     *)
(* A store of the sender stays in its store buffer for a while; whether    *)
(* dune_apic_send_ipi waits for it is not visible in bench/src.            *)
(***************************************************************************)
EXTENDS Naturals

CONSTANTS NUM_ITERATIONS, Progs

ASSUME IpiAssumption ==
    NUM_ITERATIONS \in Nat /\ Progs \subseteq {"posted", "threads", "fork"}

VARIABLES
    prog,      \* which of the programs
    drains,    \* whether dune_apic_send_ipi drains the store buffer
    pcm, pc1, pc2,   \* main, the sender, thread 2
    mem,       \* t2_ready, wait and done, of the threads or of each process
    sb,        \* wait = true is still in the store buffer of the sender
    core2,     \* where thread 2 runs: "T2" is THREAD_2_CORE
    route,     \* the core for which dune_apic_init_rt_entry made the entry
    irr,       \* an interrupt is pending for thread 2
    hdl,       \* where test_handler is
    i,         \* iterations finished
    got        \* ghost: handlers that have run

ivars == <<prog, drains, pcm, pc1, pc2, mem, sb, core2, route, irr, hdl, i, got>>

Space == {"all", "t1", "t2"}

of_one_space_faulty(a) == "all"

of(a) == IF prog = "fork" THEN a ELSE "all"

Core == {"T2", "other"}

IpiInit ==
    /\ prog \in Progs
    /\ drains \in BOOLEAN
    /\ pcm = "init" /\ pc1 = "none" /\ pc2 = "none"
    /\ mem = [s \in Space |-> [t2_ready |-> FALSE, wait |-> TRUE, done |-> FALSE]]
    /\ sb = FALSE
    /\ core2 = "other" /\ route = "none"
    /\ irr = FALSE /\ hdl = "idle"
    /\ i = 0 /\ got = 0

-----------------------------------------------------------------------------
(* main.                                                                   *)

mvars == <<prog, drains, mem, sb, route, irr, hdl, i, got>>

(* Pinning (posted_ipi.c only) and dune_init; a failure ends the program.  *)
MainInit ==
    /\ pcm = "init"
    /\ pcm' \in {"exit", IF prog = "fork" THEN "spawn1" ELSE "spawn2"}
    /\ UNCHANGED <<mvars, pc1, pc2, core2>>

Spawn2 ==
    /\ pcm = "spawn2"
    /\ pc2' = "start"
    /\ core2' \in Core
    /\ pcm' = CASE prog = "posted" -> "pin" [] prog = "threads" -> "spawn1" [] OTHER -> "join2"
    /\ UNCHANGED <<mvars, pc1>>

Spawn1 ==
    /\ pcm = "spawn1"
    /\ pc1' = "start"
    /\ pcm' = IF prog = "fork" THEN "spawn2" ELSE "join1"
    /\ UNCHANGED <<mvars, pc2, core2>>

(* The first fork fails, or the second, and then the server is killed.     *)
ForkFails ==
    /\ prog = "fork" /\ pcm \in {"spawn1", "spawn2"}
    /\ pc1' = IF pc1 \in {"none", "end"} THEN pc1 ELSE "killed"
    /\ pcm' = "exit"
    /\ UNCHANGED <<mvars, pc2, core2>>

(* posted_ipi.c:78: main pins thread 2, which may have gone on meanwhile,  *)
(* and becomes the sender.                                                 *)
Pin ==
    /\ pcm = "pin"
    /\ core2' = "T2"
    /\ pc1' = "ready"
    /\ pcm' = "join1"
    /\ UNCHANGED <<mvars, pc2>>

Join1 ==
    /\ pcm = "join1" /\ pc1 = "end"
    /\ pcm' = IF prog = "fork" THEN "exit" ELSE "join2"
    /\ UNCHANGED <<mvars, pc1, pc2, core2>>

Join2 ==
    /\ pcm = "join2" /\ pc2 = "end"
    /\ pcm' = IF prog = "fork" THEN "join1" ELSE "exit"
    /\ UNCHANGED <<mvars, pc1, pc2, core2>>

-----------------------------------------------------------------------------
(* The sender: t1_start, or the second half of main in posted_ipi.c.       *)

t1vars == <<prog, drains, pcm, pc2, core2, route, hdl, got>>

T1Enter ==
    /\ pc1 = "start"
    /\ pc1' \in {"ready", "end"}
    /\ UNCHANGED <<t1vars, mem, sb, irr, i>>

T1SeesReady ==
    /\ pc1 = "ready" /\ mem[of("t1")].t2_ready
    /\ pc1' = "send"
    /\ UNCHANGED <<t1vars, mem, sb, irr, i>>

(* An interrupt for a core without an entry goes nowhere; a second one     *)
(* while one is pending is lost in it.                                     *)
Send ==
    /\ pc1 = "send" /\ i < NUM_ITERATIONS /\ (drains => ~sb)
    /\ irr' = (irr \/ route = "T2")
    /\ pc1' = "spin"
    /\ UNCHANGED <<t1vars, mem, sb, i>>

T1SeesWait_no_reset_faulty ==
    /\ pc1 = "spin" /\ ~sb /\ ~mem[of("t1")].wait
    /\ i' = i + 1
    /\ pc1' = "send"
    /\ UNCHANGED <<t1vars, mem, sb, irr>>

(* while (wait); wait = true: the store goes to the store buffer, where    *)
(* the sender's own loads find it.                                         *)
T1SeesWait ==
    /\ pc1 = "spin" /\ ~sb /\ ~mem[of("t1")].wait
    /\ sb' = TRUE
    /\ i' = i + 1
    /\ pc1' = "send"
    /\ UNCHANGED <<t1vars, mem, irr>>

Drain ==
    /\ sb
    /\ sb' = FALSE
    /\ mem' = [mem EXCEPT ![of("t1")].wait = TRUE]
    /\ UNCHANGED <<t1vars, pc1, irr, i>>

T1Ends_not_done_faulty ==
    /\ pc1 = "send" /\ i = NUM_ITERATIONS /\ ~sb
    /\ pc1' = "end"
    /\ UNCHANGED <<t1vars, mem, sb, irr, i>>

T1Ends ==
    /\ pc1 = "send" /\ i = NUM_ITERATIONS /\ ~sb
    /\ mem' = [mem EXCEPT ![of("t1")].done = TRUE]
    /\ pc1' = "end"
    /\ UNCHANGED <<t1vars, sb, irr, i>>

-----------------------------------------------------------------------------
(* Thread 2, and the handler that interrupts it.                           *)

t2vars == <<prog, drains, pcm, pc1, sb, i>>

T2Enter ==
    /\ pc2 = "start"
    /\ pc2' \in {"entered", "end"}
    /\ core2' = IF prog = "posted" THEN core2 ELSE "T2"
    /\ UNCHANGED <<t2vars, mem, route, irr, hdl, got>>

(* dune_apic_init_rt_entry, for the core it runs on, and the handler.      *)
T2Registers ==
    /\ pc2 = "entered"
    /\ route' = core2
    /\ pc2' = "registered"
    /\ UNCHANGED <<t2vars, mem, core2, irr, hdl, got>>

T2Ready_early_faulty ==
    /\ pc2 \in {"entered", "registered"}
    /\ mem' = [mem EXCEPT ![of("t2")].t2_ready = TRUE]
    /\ pc2' = IF pc2 = "registered" THEN "spin" ELSE pc2
    /\ UNCHANGED <<t2vars, core2, route, irr, hdl, got>>

T2Ready ==
    /\ pc2 = "registered"
    /\ mem' = [mem EXCEPT ![of("t2")].t2_ready = TRUE]
    /\ pc2' = "spin"
    /\ UNCHANGED <<t2vars, core2, route, irr, hdl, got>>

T2Ends ==
    /\ pc2 = "spin" /\ hdl = "idle" /\ mem[of("t2")].done
    /\ pc2' = "end"
    /\ UNCHANGED <<t2vars, mem, core2, route, irr, hdl, got>>

Interrupt ==
    /\ irr /\ hdl = "idle" /\ pc2 = "spin"
    /\ irr' = FALSE
    /\ hdl' = "eoi"
    /\ UNCHANGED <<t2vars, pc2, mem, core2, route, got>>

Eoi ==
    /\ hdl = "eoi"
    /\ hdl' = "clear"
    /\ UNCHANGED <<t2vars, pc2, mem, core2, route, irr, got>>

Clear ==
    /\ hdl = "clear"
    /\ mem' = [mem EXCEPT ![of("t2")].wait = FALSE]
    /\ got' = got + 1
    /\ hdl' = "return"
    /\ UNCHANGED <<t2vars, pc2, core2, route, irr>>

HandlerReturns ==
    /\ hdl = "return"
    /\ hdl' = "idle"
    /\ UNCHANGED <<t2vars, pc2, mem, core2, route, irr, got>>

-----------------------------------------------------------------------------
Main == MainInit \/ Spawn2 \/ Spawn1 \/ Pin \/ Join1 \/ Join2
T1 == T1Enter \/ T1SeesReady \/ Send \/ T1SeesWait \/ T1Ends
T2 == \/ T2Enter \/ T2Registers \/ T2Ready \/ T2Ends
      \/ Interrupt \/ Eoi \/ Clear \/ HandlerReturns

IpiNext == Main \/ ForkFails \/ T1 \/ Drain \/ T2

IpiSpec == IpiInit /\ [][IpiNext]_ivars

(* The threads run on cores of their own, and a store buffer drains.       *)
IpiFairSpec ==
    IpiSpec /\ WF_ivars(Main) /\ WF_ivars(T1) /\ WF_ivars(Drain) /\ WF_ivars(T2)

-----------------------------------------------------------------------------
(* Every variable stays in its type; no program counts past its number of  *)
(* iterations.                                                             *)
IpiTypeOK ==
    /\ prog \in {"posted", "threads", "fork"} /\ drains \in BOOLEAN
    /\ pcm \in {"init", "spawn1", "spawn2", "pin", "join1", "join2", "exit"}
    /\ pc1 \in {"none", "start", "ready", "send", "spin", "killed", "end"}
    /\ pc2 \in {"none", "start", "entered", "registered", "spin", "end"}
    /\ mem \in [Space -> [t2_ready : BOOLEAN, wait : BOOLEAN, done : BOOLEAN]]
    /\ sb \in BOOLEAN /\ irr \in BOOLEAN
    /\ core2 \in Core /\ route \in Core \cup {"none"}
    /\ hdl \in {"idle", "eoi", "clear", "return"}
    /\ i \in 0 .. NUM_ITERATIONS /\ got \in Nat

(* The interrupt that ends an iteration is on its way, or its effect has   *)
(* not been overwritten: when thread 2 registered on THREAD_2_CORE and the *)
(* send drains the store buffer, the sender never spins on a wait that     *)
(* nothing is going to clear.                                              *)
NoLostWakeup ==
    (pc1 = "spin" /\ route = "T2" /\ drains) =>
        irr \/ hdl \in {"eoi", "clear"} \/ ~mem[of("t1")].wait

(* Every iteration that is counted is one interrupt handled: none is       *)
(* counted twice or merged with another, so the time divided by            *)
(* NUM_ITERATIONS is the time of one, on any route and store order.        *)
EachOnce ==
    /\ i <= got /\ got <= i + 1
    /\ pc1 = "end" /\ i > 0 => got = i

(* bench_fork_ipi.c: the flags of the two processes are apart, so no       *)
(* interrupt is ever sent and thread 2 never leaves its loop.              *)
ForkNeverSends ==
    prog = "fork" => /\ pc1 \notin {"send", "spin"} /\ ~irr /\ got = 0
                     /\ pc2 = "end" => ~mem["t2"].t2_ready

(* Once the sender has seen t2_ready the program ends, given that the send *)
(* drains the store buffer and, in posted_ipi.c where main pins thread 2   *)
(* after creating it, that thread 2 registered on THREAD_2_CORE.           *)
Completes ==
    (pc1 = "send" /\ drains /\ (prog = "posted" => route = "T2")) ~> (pcm = "exit")
=============================================================================
