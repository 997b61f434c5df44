-------------------------- MODULE MCNetworkManager --------------------------
(* NetworkManager for TLC: two requests, with a timeout for each of them.    *)
EXTENDS NetworkManager
============================================================================
