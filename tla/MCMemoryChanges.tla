--------------------------- MODULE MCMemoryChanges ---------------------------
(***************************************************************************)
(* Changes of one record: a correction, a deletion, a misrecording.        *)
(***************************************************************************)
EXTENDS MemoryChanges, TLC
=============================================================================
