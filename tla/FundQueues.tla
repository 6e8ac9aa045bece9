----------------------------- MODULE FundQueues -----------------------------
(***************************************************************************)
(* What the fund storage promises to the contract: a bag of fund items in  *)
(* the order of their creation that the operations of                      *)
(* fund_transf_module.rs transform.  FundModule.tla, which keeps the items *)
(* in linked lists, is shown to implement it.                              *)
(***************************************************************************)
EXTENDS FundBook

CONSTANTS
    NumUsers,       \* delegators
    Amounts,        \* amounts staked and swapped
    DustLimits,     \* limits given to swap_dust
    GasLimits,      \* loop iterations a caller can pay for
    UnBondBlocks,   \* n_blocks_before_claim
    NonceBound      \* bound on the block nonce

VARIABLES funds, dust_cleanup_checkpoint, block_nonce

vars == <<funds, dust_cleanup_checkpoint, block_nonce>>

Init == /\ funds = <<>>
        /\ dust_cleanup_checkpoint = 0
        /\ block_nonce = 0

commit(fs) == /\ funds' = save(fs)
              /\ dust_cleanup_checkpoint' = follow(dust_cleanup_checkpoint, fs)
              /\ UNCHANGED block_nonce

commit_dust(swap) == /\ funds' = save(swap.funds)
                     /\ dust_cleanup_checkpoint' = follow(swap.next_id,
                                                          swap.funds)
                     /\ UNCHANGED block_nonce

UserOperation(u) ==
    \/ \E amount \in Amounts :
          \/ commit(create_waiting(funds, u, amount))
          \/ commit(swap_user_active_to_unstaked(funds, u, amount,
                                                 block_nonce).funds)
          \/ commit(swap_user_waiting_to_withdraw_only(funds, u,
                                                       amount).funds)
    \/ \E gas \in GasLimits :
          \/ commit(liquidate_all_withdraw_only(funds, u, gas))
          \/ commit(swap_eligible_deferred_to_withdraw(funds, u, UnBondBlocks,
                                                       block_nonce, gas).funds)

QueueOperation(amount, gas) ==
    \/ commit(swap_waiting_to_active(funds, amount, gas).funds)
    \/ commit(swap_unstaked_to_deferred_payment(funds, amount, gas).funds)
    \/ commit(swap_active_to_deferred_payment(funds, amount, block_nonce,
                                              gas).funds)

DustOperation(limit, gas) ==
    \/ commit_dust(swap_dust(funds, dust_cleanup_checkpoint, limit, "Waiting",
                             [item \in Item |-> WithdrawOnly], gas))
    \/ commit_dust(swap_dust(funds, dust_cleanup_checkpoint, limit, "Active",
                             [item \in Item |-> UnStaked(0)], gas))

NextBlock == /\ block_nonce < NonceBound
             /\ block_nonce' = block_nonce + 1
             /\ UNCHANGED <<funds, dust_cleanup_checkpoint>>

Next == \/ \E u \in 1 .. NumUsers : UserOperation(u)
        \/ \E gas \in GasLimits :
              \/ \E amount \in Amounts : QueueOperation(amount, gas)
              \/ \E limit \in DustLimits : DustOperation(limit, gas)
        \/ NextBlock

Spec == Init /\ [][Next]_vars
=============================================================================
