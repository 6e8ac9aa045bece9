------------------------------ MODULE MCLedger ------------------------------
(* Ledger for TLC: sets of amounts that a .cfg cannot write.               *)
EXTENDS Ledger

MCPayments == 1 .. 2
MCCaps == 0 .. 5
MCRewards == {1, 2}
=============================================================================
