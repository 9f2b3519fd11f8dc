----------------------------- MODULE MCKeyUpdate -----------------------------
(***************************************************************************)
(* Small instances of KeyUpdate for TLC.  The configurations differ in the *)
(* API calls, the answers and the faults they allow.                       *)
(***************************************************************************)
EXTENDS KeyUpdate
=============================================================================
