---------------------------- MODULE SthreadApi ----------------------------
(***************************************************************************)
(* What wedge/include/sthread.h promises to the program that uses it: an   *)
(* sthread that was created runs under the context it was created with,    *)
(* returns one value, and sthread_join hands exactly that value out, once, *)
(* before the sthread can be created again.                                *)
(***************************************************************************)
CONSTANTS Id, Policies, Val, NULL

VARIABLES
    life,    \* per sthread: "free", "running" or "returned"
    policy,  \* per sthread: the context of its last creation
    value,   \* per sthread: what it returned, NULL before that
    joined   \* what the last join handed out

apivars == <<life, policy, value, joined>>

Init ==
    /\ life = [s \in Id |-> "free"]
    /\ policy \in [Id -> Policies]
    /\ value = [s \in Id |-> NULL]
    /\ joined = NULL

Create(s, p) ==
    /\ life[s] = "free"
    /\ life' = [life EXCEPT ![s] = "running"]
    /\ policy' = [policy EXCEPT ![s] = p]
    /\ value' = [value EXCEPT ![s] = NULL]
    /\ UNCHANGED joined

Return(s, v) ==
    /\ life[s] = "running"
    /\ life' = [life EXCEPT ![s] = "returned"]
    /\ value' = [value EXCEPT ![s] = v]
    /\ UNCHANGED <<policy, joined>>

Join(s) ==
    /\ life[s] = "returned"
    /\ life' = [life EXCEPT ![s] = "free"]
    /\ joined' = value[s]
    /\ UNCHANGED <<policy, value>>

Next ==
    \E s \in Id :
        \/ \E p \in Policies : Create(s, p)
        \/ \E v \in Val : Return(s, v)
        \/ Join(s)

Spec == Init /\ [][Next]_apivars
=============================================================================
