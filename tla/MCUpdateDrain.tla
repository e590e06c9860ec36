--------------------------- MODULE MCUpdateDrain ---------------------------
(***************************************************************************)
(* Three requests, two sessions, one repeated renewal.                     *)
(*                                                                         *)
(* The requests differ in nothing but their kind, so that it is enough to  *)
(* begin with kinds that do not descend: every other beginning is one of   *)
(* these with the requests renamed.  (Symmetry proper is not sound for the *)
(* temporal property.)                                                     *)
(***************************************************************************)
EXTENDS UpdateDrain

Rank == [plain |-> 1, stop |-> 2, new |-> 3]
OrderedInit ==
    /\ DrainInit
    /\ \A q, r \in Requests : q < r => Rank[req[q].kind] <= Rank[req[r].kind]

OrderedSpec == OrderedInit /\ [][DrainNext]_drainVars /\ WF_drainVars(Desk)
=============================================================================
