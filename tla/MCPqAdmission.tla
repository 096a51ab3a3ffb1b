--------------------------- MODULE MCPqAdmission ----------------------------
(* PqAdmission for TLC. *)
EXTENDS PqAdmission, TLC

\* Callers are alike.
PeerSymmetry == Permutations(Peers)
=============================================================================
