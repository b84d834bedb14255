----------------------------- MODULE MCSthread -----------------------------
(* Instances of Sthread for TLC.  Descriptor 1 and 2 are channels; 3 is     *)
(* free until an sthread opens a file.                                      *)
EXTENDS Sthread

R == {"PROT_READ"}
W == {"PROT_WRITE"}

MCFd == {1, 2, 3}

(* A reader, a writer that may also open and close files.                  *)
Reader == sc_fd_add(sc_init("tagA"), 1, R)
Writer == sc_sys_add(sc_sys_add(sc_fd_add(sc_init("tagB"), 1, W), SYS_open), SYS_close)
(* The same tags as Reader, so that one can be recycled into the other.    *)
Echo   == sc_fd_add(sc_fd_add(sc_init("tagA"), 2, R), 1, W)

MCPolicies == {Reader, Writer, Echo}

(* Two kinds of sthread that wait for a peer.                              *)
Server == sc_fd_add(sc_init("tagA"), 2, R)
Client == sc_fd_add(sc_init("tagB"), 1, R)

MCServers == {Server, Client}
=============================================================================
