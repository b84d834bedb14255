--------------------------- MODULE MCThreadCreate ---------------------------
(* Instances of ThreadCreate for TLC: all calls at one address.             *)
EXTENDS ThreadCreate

SameSlot == [c \in Child |-> 1]
=============================================================================
