---------------------------- MODULE MCMessaging ----------------------------
(* Messaging for TLC: two users, batches and syncs of one message.           *)
EXTENDS Messaging
============================================================================
