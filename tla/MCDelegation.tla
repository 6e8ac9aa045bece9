---------------------------- MODULE MCDelegation ----------------------------
(* Delegation for TLC: each .cfg gives the constants that make one of the *)
(* questions of the README happen on two delegators.                       *)
EXTENDS Delegation
=============================================================================
