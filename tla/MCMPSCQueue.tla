---------------------------- MODULE MCMPSCQueue ----------------------------
(* MPSCQueue for TLC: two producers, three elements.                       *)
EXTENDS MPSCQueue
=============================================================================
