--------------------------- MODULE MCPqExchange ----------------------------
(* PqExchange for TLC: the constants are given in the .cfg files. *)
EXTENDS PqExchange
=============================================================================
