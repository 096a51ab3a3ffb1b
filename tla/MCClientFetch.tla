---------------------------- MODULE MCClientFetch ----------------------------
\* The client's fetch cycle with two other peers, one of them perhaps legacy.
EXTENDS ClientFetch
==============================================================================
