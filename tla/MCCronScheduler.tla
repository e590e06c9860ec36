-------------------------- MODULE MCCronScheduler --------------------------
(***************************************************************************)
(* Two jobs; one-time schedules and a recurring one.                       *)
(***************************************************************************)
EXTENDS CronScheduler, TLC

At(t) == [kind |-> "at", n |-> t]
Every(t) == [kind |-> "every", n |-> t]

Mixed == {At(1), At(2), Every(1)}

Symmetry == Permutations(Jobs) \cup Permutations(Origins)
=============================================================================
