---------------------------- MODULE MCConnection ----------------------------
(* Connection for TLC: two workers and a thread that pushes.                *)
EXTENDS Connection
=============================================================================
