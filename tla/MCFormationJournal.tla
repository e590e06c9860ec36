------------------------- MODULE MCFormationJournal -------------------------
(***************************************************************************)
(* Two messages, either of which may be a card that is not formed, so that *)
(* a window can grow between two submissions and one can be passed over;   *)
(* and a second conversation to leave the first one for.                   *)
(***************************************************************************)
EXTENDS FormationJournal, TLC
=============================================================================
