---------------------------- MODULE MCWebserver ----------------------------
(* Webserver for TLC: two connections of the same user, a worker, a thread   *)
(* that pushes, and one descriptor more than MAX_FD admits.                  *)
EXTENDS Webserver

CONSTANTS u1

SameUser == [o \in Objs |-> u1]
=============================================================================
