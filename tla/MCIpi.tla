------------------------------- MODULE MCIpi -------------------------------
(* An instance of Ipi for TLC: all three programs, three iterations.       *)
EXTENDS Ipi

MCProgs == {"posted", "threads", "fork"}
=============================================================================
