------------------------------ MODULE MCChunk -------------------------------
(* Instances of Chunk for TLC.                                             *)
EXTENDS Chunk
=============================================================================
