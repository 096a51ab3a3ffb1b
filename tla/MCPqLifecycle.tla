--------------------------- MODULE MCPqLifecycle ---------------------------
(* PqLifecycle for TLC: the constants are given in the .cfg files. *)
EXTENDS PqLifecycle
=============================================================================
