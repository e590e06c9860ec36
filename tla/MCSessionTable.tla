--------------------------- MODULE MCSessionTable ---------------------------
(***************************************************************************)
(* Three requests of one caller on one source.  No request creates more    *)
(* than one session, so three sessions are never too few.                  *)
(***************************************************************************)
EXTENDS SessionTable, TLC

Symmetry == Permutations(Requests)
=============================================================================
