----------------------------- MODULE NodeFunds ------------------------------
(***************************************************************************)
(* The calls of Nodes with the EGLD they carry (node_activation.rs): the   *)
(* stake sent with stakeNodes, which comes back with the answer if the     *)
(* call failed as a whole, what unBondNodes, unBondTokens and              *)
(* claimUnusedFunds bring back, and the fine sent with unJailNodes.        *)
(*                                                                         *)
(* The endpoints that only call the auction contract and have no callback  *)
(* change nothing in the contract: the call and what it pays are one step. *)
(* What the rest of the contract does is one number here, the EGLD that it *)
(* owes to nobody: Ledger shows that it moves as LedgerMoves allows.       *)
(***************************************************************************)
EXTENDS Nodes, FiniteSetsExt

CONSTANTS
    StakeAmounts,   \* amounts sent with stakeNodes
    Fines,          \* fines sent with unJailNodes
    FundsBound      \* bound on the EGLD available to run nodes

ASSUME FundsAssumption ==
    /\ StakeAmounts \subseteq Nat
    /\ Fines \subseteq Nat
    /\ FundsBound \in Nat

VARIABLES
    total_unprotected,  \* the EGLD that stakeNodes may send
    carried,            \* the EGLD that travels with a call for some keys,
                        \* or back with its answer
    held                \* external: the EGLD the auction contract holds

funds  == <<total_unprotected, carried, held>>
allVars == <<vars, funds>>

travelling == MapThenSumSet(LAMBDA call : carried[call.keys], calls)
lent == held + travelling

-----------------------------------------------------------------------------
(* That bootstrap mode is over and that the owner's share is large enough  *)
(* is checked in Ledger and Delegation.  Without keys the call only adds   *)
(* to the stake, and its callback does nothing.                            *)
stake_nodes_with(keys, amount_to_stake) ==
    /\ amount_to_stake <= total_unprotected
    /\ stake_nodes(keys)
    /\ total_unprotected' = total_unprotected - amount_to_stake
    /\ carried' = [carried EXCEPT ![keys] = amount_to_stake]
    /\ UNCHANGED held

stake_without_nodes(amount_to_stake) ==
    /\ ~ global_op
    /\ amount_to_stake <= total_unprotected
    /\ total_unprotected' = total_unprotected - amount_to_stake
    /\ held' = held + amount_to_stake
    /\ UNCHANGED <<vars, carried>>

(* A stake call that fails as a whole leaves its EGLD with the answer; one *)
(* that fails for some nodes only does not.                                *)
AuctionTakesStake(call, failed) ==
    /\ call.kind = "stake"
    /\ AuctionExecutes(call, failed)
    /\ \/ /\ held' = held + carried[call.keys]
          /\ carried' = [carried EXCEPT ![call.keys] = 0]
       \/ /\ failed = call.keys
          /\ UNCHANGED <<carried, held>>
    /\ UNCHANGED total_unprotected

AuctionPaysStake(call, failed, paid) ==
    /\ call.kind = "unBond"
    /\ AuctionExecutes(call, failed)
    /\ held' = held - paid
    /\ carried' = [carried EXCEPT ![call.keys] = paid]
    /\ UNCHANGED total_unprotected

AuctionUnstakes(call, failed) ==
    /\ call.kind = "unStake"
    /\ AuctionExecutes(call, failed)
    /\ UNCHANGED funds

AuctionStep(call) ==
    \E failed \in SUBSET call.keys :
        \/ AuctionTakesStake(call, failed)
        \/ \E paid \in 0 .. held : AuctionPaysStake(call, failed, paid)
        \/ AuctionUnstakes(call, failed)

(* Mutant of credit: the EGLD of an answer is counted, and still there.    *)
credit_again(call) ==
    /\ total_unprotected' = total_unprotected + carried[call.keys]
    /\ UNCHANGED <<carried, held>>

(* The EGLD of an answer is credited before the callback runs, and stays   *)
(* if the callback fails.                                                  *)
credit(call) ==
    /\ total_unprotected' = total_unprotected + carried[call.keys]
    /\ carried' = [carried EXCEPT ![call.keys] = 0]
    /\ UNCHANGED held

CallbackStep(call)  == Callback(call) /\ credit(call)
CallbackLost(call)  == CallbackFails(call) /\ credit(call)

auction_pays(amount) ==
    /\ held' = held - amount
    /\ total_unprotected' = total_unprotected + amount
    /\ UNCHANGED <<vars, carried>>

claim_unused_funds(amount) == ~ global_op /\ auction_pays(amount)

(* Any caller, at any time.                                                *)
unbond_tokens(amount) == auction_pays(amount)

(* Mutant of unjail_nodes: a fine that comes back is taken for stake.      *)
unjail_counts_as_stake(keys, fine, failed) ==
    /\ keys \subseteq in_state("Active")
    /\ held' = held - fine
    /\ total_unprotected' = total_unprotected + fine
    /\ UNCHANGED <<vars, carried>>

(* The fine is not the contract's; it stays with the contract if the call  *)
(* fails, as there is no callback that returns it to the owner.            *)
unjail_nodes(keys, fine, failed) ==
    /\ keys \subseteq in_state("Active")
    /\ total_unprotected + fine + lent <= FundsBound
    /\ total_unprotected' = IF failed THEN total_unprotected + fine
                            ELSE total_unprotected
    /\ UNCHANGED <<vars, carried, held>>

LedgerMoves(amount) ==
    /\ amount + lent <= FundsBound
    /\ total_unprotected' = amount
    /\ UNCHANGED <<vars, carried, held>>

-----------------------------------------------------------------------------
FundsInit ==
    /\ Init
    /\ total_unprotected = 0
    /\ carried = [keys \in SUBSET Keys |-> 0]
    /\ held = 0

NodeEndpoints ==
    /\ \/ \E keys \in (SUBSET Keys) \ {{}} :
             \/ add_nodes(keys)
             \/ remove_nodes(keys)
             \/ unstake_nodes(keys)
             \/ unbond_specific_nodes(keys)
             \/ owner_may_force(keys) /\ force_node_unbond_period(keys)
       \/ unbond_all_possible_nodes
       \/ GlobalOpBeginsOrEnds
       \/ NextBlock
    /\ UNCHANGED funds

MoneyEndpoints ==
    \/ \E amount \in StakeAmounts :
          \/ \E keys \in (SUBSET Keys) \ {{}} : stake_nodes_with(keys, amount)
          \/ stake_without_nodes(amount)
    \/ \E amount \in 1 .. held : \/ claim_unused_funds(amount)
                                 \/ unbond_tokens(amount)
    \/ \E keys \in SUBSET Keys, fine \in Fines, failed \in BOOLEAN :
          unjail_nodes(keys, fine, failed)
    \/ \E amount \in 0 .. FundsBound : LedgerMoves(amount)

CallStep == \E call \in calls :
                AuctionStep(call) \/ CallbackStep(call) \/ CallbackLost(call)

FundsNext == NodeEndpoints \/ MoneyEndpoints \/ CallStep

(* The protocol executes every call and every callback.                    *)
FundsSpec ==
    /\ FundsInit
    /\ [][FundsNext]_allVars
    /\ \A k \in Keys :
          WF_allVars(\E call \in calls :
                         /\ k \in call.keys
                         /\ AuctionStep(call) \/ CallbackStep(call))

-----------------------------------------------------------------------------
(* EGLD travels only in a call that is still to be answered: its callback, *)
(* or its failure, will find it.  No endpoint can send the same nodes      *)
(* again meanwhile and overwrite the amount.                               *)
EgldTravelsWithItsCall ==
    \A keys \in SUBSET Keys :
        carried[keys] > 0 =>
            \E call \in calls : /\ call.keys = keys
                                /\ \/ call.kind = "stake"
                                   \/ call.kind = "unBond" /\ call.answered

Lent == INSTANCE Lending WITH lendable <- total_unprotected + lent

(* Whatever fails, is lost or comes back late: the contract lends only     *)
(* what it owes to nobody, and a payment or a refund is never counted      *)
(* twice or forgotten.                                                     *)
RefinesLending == Lent!Spec
=============================================================================
