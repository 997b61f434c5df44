------------------------------- MODULE MCLog -------------------------------
(* Log for TLC: two threads that log, files of two lines, a change of day.  *)
(* One thread alone fills a file and begins the next.                       *)
EXTENDS Log, TLC

CONSTANTS t1, t2

ThreeAndOne == t1 :> 3 @@ t2 :> 1
============================================================================
