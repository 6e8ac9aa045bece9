------------------------------ MODULE Lending -------------------------------
(***************************************************************************)
(* What the bookkeeping of the contract (Ledger) and its calls to the      *)
(* auction contract (NodeFunds) promise each other about the stake that    *)
(* runs nodes: it is lent out of what the contract owes to nobody else at  *)
(* once, what is lent is not promised to delegators before it is back, and *)
(* no amount vanishes between the two contracts.                           *)
(***************************************************************************)
EXTENDS Integers

VARIABLES
    lendable,   \* the stake that nodes may run with
    lent        \* the part of it that is not in the contract

vars == <<lendable, lent>>

Init == /\ lendable \in Nat
        /\ lent \in 0 .. lendable

(* Stake becomes active; a returned fine adds to it.                       *)
Grow    == lendable' \in Nat /\ lendable' > lendable /\ lent' = lent

(* Stake is promised to delegators, never the part that is lent.           *)
Shrink  == lendable' \in lent .. lendable /\ lent' = lent

(* stakeNodes; and any payment of the auction contract.                    *)
Lend    == lent' \in lent .. lendable /\ lendable' = lendable
GetBack == lent' \in 0 .. lent /\ lendable' = lendable

Next == Grow \/ Shrink \/ Lend \/ GetBack

Spec == Init /\ [][Next]_vars
=============================================================================
