------------------------------ MODULE MCPaging ------------------------------
(* Small instances of Paging for TLC.                                      *)
EXTENDS Paging
=============================================================================
