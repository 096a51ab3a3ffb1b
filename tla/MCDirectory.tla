---------------------------- MODULE MCDirectory ----------------------------
(* Directory for TLC. *)
EXTENDS Directory

\* Addresses 1 to 7: the root, the server's CIDR, two with peers, and two
\* that an administrator may ask for: a free one, and one across siblings.
MCRanges == {1 .. 7, {1}, {2, 3, 4}, {5, 6}, {7}, {1, 2, 3, 4}}
=============================================================================
