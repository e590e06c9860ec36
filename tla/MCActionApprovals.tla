------------------------- MODULE MCActionApprovals -------------------------
(***************************************************************************)
(* A tool the mode asks an approval for runs beside another, or an MCP     *)
(* server's question, over a channel for one event.                        *)
(***************************************************************************)
EXTENDS ActionApprovals, TLC

CONSTANTS w1, w2

MixedKinds == w1 :> {"policy"} @@ w2 :> {"policy", "input"}
OneKind == w2 :> {"policy"}
=============================================================================
