--------------------------- MODULE MCPrivateStore ---------------------------
(* PrivateStore for TLC. *)
EXTENDS PrivateStore
=============================================================================
