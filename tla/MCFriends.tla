----------------------------- MODULE MCFriends -----------------------------
(* Friends for TLC: two users who may ask each other.                       *)
EXTENDS Friends, TLC

CONSTANTS a, b

TwoUsers == {a, b}
BothWays == {<<a, b>>, <<b, a>>}
Symmetry == Permutations(Users)
============================================================================
