----------------------------- MODULE LeasedLock -----------------------------
(***************************************************************************)
(* What the maintenance gate of runtime_admission.rs promises to the owners *)
(* of a lease, without its clock: a lock that is taken with a fresh token,  *)
(* given up (by its owner or by time) and never handed from one token to    *)
(* another, nor ever put back in force under a token that has lost it.      *)
(***************************************************************************)
EXTENDS Naturals

CONSTANT Tokens

VARIABLES holder,   \* the token in force, 0 when the gate is open
          spent     \* every token ever granted

Init ==
    /\ holder = 0
    /\ spent = {}

Take(t) ==
    /\ holder = 0
    /\ t \notin spent
    /\ holder' = t
    /\ spent' = spent \cup {t}

GiveUp ==
    /\ holder # 0
    /\ holder' = 0
    /\ UNCHANGED spent

Next == (\E t \in Tokens : Take(t)) \/ GiveUp

Spec == Init /\ [][Next]_<<holder, spent>>
=============================================================================
