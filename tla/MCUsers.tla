------------------------------ MODULE MCUsers -------------------------------
(* UserData for TLC: as many ids as addresses, so that every genesis       *)
(* registry of that size occurs.                                           *)
EXTENDS UserData
=============================================================================
