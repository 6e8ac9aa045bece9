------------------------------ MODULE MCNodes -------------------------------
(* NodeFunds for TLC: three keys, of which a call can carry two.           *)
EXTENDS NodeFunds
=============================================================================
