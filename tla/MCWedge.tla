------------------------------ MODULE MCWedge ------------------------------
(* Instances of Wedge for TLC: sthreads that wait for a peer, with the same *)
(* tags so that each can be recycled into the other.                        *)
EXTENDS Wedge

Reader == sc_fd_add(sc_init("tagA"), 2, {"PROT_READ"})
Worker == sc_sys_add(sc_sys_add(
            sc_fd_add(sc_init("tagA"), 1, Prot), SYS_open), SYS_close)

MCPolicies == {Reader, Worker}
MCReaders == {Reader}
=============================================================================
