---------------------------- MODULE MCFundModule ----------------------------
(* FundModule for TLC: a few items of two delegators, with lists of up to  *)
(* MaxId elements.                                                         *)
EXTENDS FundModule
=============================================================================
