------------------------------ MODULE MCReads -------------------------------
(* Small instances of Reads for TLC.                                       *)
EXTENDS Reads
=============================================================================
