--------------------------- MODULE MCEncapsulated ---------------------------
(***************************************************************************)
(* A small instance of Encapsulated for TLC: a Requester with a chain of   *)
(* three units in slot 0, one of two units in slot 1, and none in slot 2.  *)
(***************************************************************************)
EXTENDS Encapsulated, TLC

MCChains == (0 :> 3) @@ (1 :> 2)
=============================================================================
