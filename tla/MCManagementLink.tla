-------------------------- MODULE MCManagementLink --------------------------
(* ManagementLink for TLC: the constants are given in the .cfg files. *)
EXTENDS ManagementLink
=============================================================================
