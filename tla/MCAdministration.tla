-------------------------- MODULE MCAdministration --------------------------
(* Administration for TLC. *)
EXTENDS Administration

\* Addresses 1 to 6: the root, the server's CIDR, one with peers, one without,
\* and a part of the latter that an administrator may ask for.
MCRanges    == {1 .. 6, {1}, {2, 3, 4}, {5, 6}, {5}}
MCNewRanges == {{5}}
=============================================================================
