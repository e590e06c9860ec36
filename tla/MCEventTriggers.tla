-------------------------- MODULE MCEventTriggers --------------------------
(***************************************************************************)
(* Streams of an event each, so that the position in one can be met by an  *)
(* event of another; the event of the third waits from the start.          *)
(***************************************************************************)
EXTENDS EventTriggers, TLC

OneEach == [k \in Keys |-> 1]
ThirdWaits == [k \in Keys |-> IF k = 3 THEN 1 ELSE 0]
=============================================================================
