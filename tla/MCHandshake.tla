----------------------------- MODULE MCHandshake -----------------------------
(***************************************************************************)
(* Small instances of Handshake for TLC.  The configurations differ in the *)
(* kinds of exchange, the answers and the faults they allow.               *)
(***************************************************************************)
EXTENDS Handshake
=============================================================================
