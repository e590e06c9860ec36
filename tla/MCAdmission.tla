---------------------------- MODULE MCAdmission ----------------------------
(***************************************************************************)
(* Three workers, two updaters, leases of two ticks, three leases in all: *)
(* enough for one updater to lose its lease, the other to take over, and    *)
(* the first to come back with its stale token.                             *)
(***************************************************************************)
EXTENDS Admission, TLC

Symmetry == Permutations(Workers) \cup Permutations(Owners)
=============================================================================
