-------------------------- MODULE MCSessionMailbox --------------------------
(***************************************************************************)
(* Three requests join a session over a channel of capacity one or two, so *)
(* that a sender can block, a batch can hold several messages, and a stop  *)
(* can have messages on both sides of it.                                  *)
(***************************************************************************)
EXTENDS SessionMailbox, TLC

Symmetry == Permutations(Requests)
=============================================================================
