------------------------------- MODULE Ledger -------------------------------
(***************************************************************************)
(* What the delegation contract promises about money, at the level of the  *)
(* five fund totals (the total_balance of each "ftype" list), the cap, the *)
(* EGLD it holds and the EGLD it lent to the auction contract.             *)
(*                                                                         *)
(* Which user and which fund item an amount belongs to is left open: an    *)
(* endpoint moves some amount that its guards allow.  Delegation.tla fixes *)
(* those choices and is shown to implement this module.                    *)
(***************************************************************************)
EXTENDS Integers

CONSTANTS
    Payments,           \* amounts a delegator may send with stake
    Caps,               \* delegation caps the owner may ask for
    Rewards,            \* amounts of protocol rewards that may arrive
    Fines,              \* fines that an unJail call may bring back
    GenesisStakes,      \* stakes of the genesis contract, if upgraded
    DepositBound,       \* bound on the stake ever held in the five lists
    RewardBound,        \* bound on the cumulated rewards
    FineBound,          \* bound on the fines that came back
    ExactBootstrapCap   \* may the owner close bootstrap mode by asking for
                        \* exactly the stake present? (README, finding 3)

ASSUME AmountAssumption ==
    /\ Payments \subseteq Nat
    /\ Caps \subseteq Nat
    /\ Rewards \subseteq Nat
    /\ Fines \subseteq Nat
    /\ GenesisStakes \subseteq Nat
    /\ DepositBound \in Nat
    /\ RewardBound \in Nat
    /\ FineBound \in Nat
    /\ ExactBootstrapCap \in BOOLEAN

VARIABLES
    total_waiting, total_active, total_unstaked, total_deferred,
    total_withdraw,         \* total_balance of the five fund lists
    total_delegation_cap, bootstrap_mode,
    global_op,              \* the variant of global_op_checkpoint, and its
    new_delegation_cap,     \* ModifyTotalDelegationCapData; the step is
    remaining_swap_waiting_to_active,       \* implied by what remains
    remaining_swap_unstaked_to_def_p,
    remaining_swap_active_to_def_p,
    total_rewards,          \* get_cumulated_validator_rewards
    sent_rewards,
    sc_balance,             \* EGLD owned by the contract
    auction_stake,          \* EGLD sent to the auction contract, not returned
    returned_fines          \* EGLD of failed unJail calls

stakes  == <<total_waiting, total_active, total_unstaked, total_deferred,
             total_withdraw>>
opVars  == <<global_op, new_delegation_cap, remaining_swap_waiting_to_active,
             remaining_swap_unstaked_to_def_p, remaining_swap_active_to_def_p>>
capVars == <<total_delegation_cap, bootstrap_mode, opVars>>
money   == <<total_rewards, sent_rewards, sc_balance, auction_stake,
             returned_fines>>
vars    == <<stakes, capVars, money>>

-----------------------------------------------------------------------------
GlobalOps == {"None", "ModifyTotalDelegationCap", "ChangeServiceFee"}

is_global_op_in_progress == global_op # "None"

(* global_op_checkpoint().set(o), with what a cap change has still to swap *)
set_global_op(o, new_cap, w2a, u2d, a2d) ==
    /\ global_op' = o
    /\ new_delegation_cap' = new_cap
    /\ remaining_swap_waiting_to_active' = w2a
    /\ remaining_swap_unstaked_to_def_p' = u2d
    /\ remaining_swap_active_to_def_p' = a2d

min(a, b) == IF a <= b THEN a ELSE b

total_stake == total_waiting + total_active + total_unstaked
               + total_deferred + total_withdraw

total_unprotected ==
    sc_balance + sent_rewards - total_rewards
        - total_waiting - total_deferred - total_withdraw

delegation_cap_holds ==
    IF bootstrap_mode
    THEN total_active + total_unstaked < total_delegation_cap
    ELSE total_active + total_unstaked = total_delegation_cap

-----------------------------------------------------------------------------
(* Mutant of use_waiting_to_replace_unstaked: replaces all unstaked funds. *)
replace_all_unstaked(w, a, u, d) ==
    LET filled == min(total_delegation_cap - a, w)
    IN  /\ IF bootstrap_mode
           THEN /\ total_waiting' = w - filled
                /\ total_active'  = a + filled
           ELSE /\ total_waiting' = w - u
                /\ total_active'  = a + u
        /\ total_unstaked' = 0
        /\ total_deferred' = d + u
        /\ bootstrap_mode' = (/\ bootstrap_mode
                              /\ total_active' < total_delegation_cap)

(* use_waiting_to_replace_unstaked, from totals w, a, u and d.             *)
use_waiting_to_replace_unstaked(w, a, u, d) ==
    LET fillable  == total_delegation_cap - a
        filled    == min(fillable, w)
        swappable == min(w, u)
    IN  IF bootstrap_mode
        THEN /\ fillable >= 0                    \* BigUint subtraction
             /\ total_waiting'  = w - filled
             /\ total_active'   = a + filled
             /\ total_unstaked' = 0
             /\ total_deferred' = d + u
             /\ IF filled = fillable THEN bootstrap_mode' = FALSE
                                     ELSE UNCHANGED bootstrap_mode
        ELSE /\ total_waiting'  = w - swappable
             /\ total_active'   = a + swappable
             /\ total_unstaked' = u - swappable
             /\ total_deferred' = d + swappable
             /\ UNCHANGED bootstrap_mode

stake_endpoint(payment) ==
    /\ ~ is_global_op_in_progress
    /\ total_stake + payment <= DepositBound
    /\ delegation_cap_holds
    /\ sc_balance' = sc_balance + payment
    /\ use_waiting_to_replace_unstaked(total_waiting + payment, total_active,
                                       total_unstaked, total_deferred)
    /\ UNCHANGED <<total_withdraw, total_delegation_cap, opVars,
                   total_rewards, sent_rewards, auction_stake,
                   returned_fines>>

(* Mutants of unstake_endpoint: one leaves the waiting list alone, one is  *)
(* not blocked by a global operation.                                      *)
unstake_without_swap(w, a) ==
    /\ ~ is_global_op_in_progress
    /\ total_withdraw' = total_withdraw + w
    /\ total_waiting'  = total_waiting - w
    /\ total_active'   = total_active - a
    /\ total_unstaked' = total_unstaked + a
    /\ UNCHANGED <<total_deferred, capVars, money>>

unstake_during_global_op(w, a) ==
    /\ total_withdraw' = total_withdraw + w
    /\ use_waiting_to_replace_unstaked(total_waiting - w, total_active - a,
                                       total_unstaked + a, total_deferred)
    /\ UNCHANGED <<total_delegation_cap, opVars, money>>

(* w comes out of the caller's waiting funds, a out of the active ones.    *)
unstake_endpoint(w, a) ==
    /\ ~ is_global_op_in_progress
    /\ total_withdraw' = total_withdraw + w
    /\ IF a = 0
       THEN /\ total_waiting' = total_waiting - w
            /\ UNCHANGED <<total_active, total_unstaked, total_deferred,
                           bootstrap_mode>>
       ELSE use_waiting_to_replace_unstaked(total_waiting - w,
                total_active - a, total_unstaked + a, total_deferred)
    /\ UNCHANGED <<total_delegation_cap, opVars, money>>

(* eligible deferred payments become withdraw-only, then some are paid.    *)
unbond_user(eligible, amount_liquidated) ==
    /\ amount_liquidated <= total_withdraw + eligible
    /\ amount_liquidated <= sc_balance
    /\ total_deferred' = total_deferred - eligible
    /\ total_withdraw' = total_withdraw + eligible - amount_liquidated
    /\ sc_balance'     = sc_balance - amount_liquidated
    /\ UNCHANGED <<total_waiting, total_active, total_unstaked, capVars,
                   total_rewards, sent_rewards, auction_stake,
                   returned_fines>>

claim_rewards(amount) ==
    /\ ~ is_global_op_in_progress
    /\ amount <= total_rewards - sent_rewards
    /\ amount <= sc_balance
    /\ sent_rewards' = sent_rewards + amount
    /\ sc_balance'   = sc_balance - amount
    /\ UNCHANGED <<stakes, capVars, total_rewards, auction_stake,
                   returned_fines>>

dust_cleanup_waiting_list(dust) ==
    /\ ~ is_global_op_in_progress
    /\ total_waiting'  = total_waiting - dust
    /\ total_withdraw' = total_withdraw + dust
    /\ UNCHANGED <<total_active, total_unstaked, total_deferred, capVars,
                   money>>

dust_cleanup_active(dust) ==
    /\ ~ is_global_op_in_progress
    /\ use_waiting_to_replace_unstaked(total_waiting, total_active - dust,
                                       total_unstaked + dust, total_deferred)
    /\ UNCHANGED <<total_withdraw, total_delegation_cap, opVars, money>>

-----------------------------------------------------------------------------
(* Mutant of swap_some: the new cap is not stored at the end.              *)
swap_some_keeping_cap(new_cap, w2a, u2d, a2d, x, y, z) ==
    /\ y > 0 => x = w2a
    /\ z > 0 => x = w2a /\ y = u2d
    /\ total_waiting'  = total_waiting - x
    /\ total_active'   = total_active + x - z
    /\ total_unstaked' = total_unstaked - y
    /\ total_deferred' = total_deferred + y + z
    /\ IF x = w2a /\ y = u2d /\ z = a2d
       THEN set_global_op("None", 0, 0, 0, 0)
       ELSE set_global_op("ModifyTotalDelegationCap", new_cap,
                          w2a - x, u2d - y, a2d - z)
    /\ UNCHANGED <<total_withdraw, total_delegation_cap, money>>

(***************************************************************************)
(* One transaction of a cap change that has w2a, u2d and a2d to swap: it   *)
(* runs out of gas after swapping x waiting -> active, y unstaked ->       *)
(* deferred and z active -> deferred, in that order, or it completes and   *)
(* stores the new cap.                                                     *)
(***************************************************************************)
swap_some(new_cap, w2a, u2d, a2d, x, y, z) ==
    /\ y > 0 => x = w2a
    /\ z > 0 => x = w2a /\ y = u2d
    /\ total_waiting'  = total_waiting - x
    /\ total_active'   = total_active + x - z
    /\ total_unstaked' = total_unstaked - y
    /\ total_deferred' = total_deferred + y + z
    /\ IF x = w2a /\ y = u2d /\ z = a2d
       THEN /\ total_delegation_cap' = new_cap
            /\ set_global_op("None", 0, 0, 0, 0)
       ELSE /\ UNCHANGED total_delegation_cap
            /\ set_global_op("ModifyTotalDelegationCap", new_cap,
                             w2a - x, u2d - y, a2d - z)
    /\ UNCHANGED <<total_withdraw, money>>

continue_modify_cap(new_cap, w2a, u2d, a2d) ==
    \E x \in 0 .. min(w2a, total_waiting), y \in 0 .. min(u2d, total_unstaked),
       z \in 0 .. min(a2d, total_active) :
        swap_some(new_cap, w2a, u2d, a2d, x, y, z)

continue_change_fee ==
    /\ \/ set_global_op("None", 0, 0, 0, 0)
       \/ set_global_op("ChangeServiceFee", 0, 0, 0, 0)
    /\ UNCHANGED <<stakes, total_delegation_cap, bootstrap_mode, money>>

continue_global_operation_endpoint ==
    \/ /\ global_op = "ModifyTotalDelegationCap"
       /\ continue_modify_cap(new_delegation_cap,
                              remaining_swap_waiting_to_active,
                              remaining_swap_unstaked_to_def_p,
                              remaining_swap_active_to_def_p)
       /\ UNCHANGED bootstrap_mode
    \/ /\ global_op = "ChangeServiceFee"
       /\ continue_change_fee

set_service_fee_endpoint ==
    /\ ~ is_global_op_in_progress
    /\ ~ bootstrap_mode
    /\ continue_change_fee

raise_cap(new_total_cap, previous_total_cap) ==
    /\ total_unstaked = 0
    /\ continue_modify_cap(new_total_cap, new_total_cap - previous_total_cap,
                           0, 0)

(* Mutant of lower_cap: without the require on total_unprotected.          *)
lower_cap_unchecked(new_total_cap, previous_total_cap) ==
    LET swap_amount   == previous_total_cap - new_total_cap
        from_unstaked == min(swap_amount, total_unstaked)
    IN  continue_modify_cap(new_total_cap, 0, from_unstaked,
                            swap_amount - from_unstaked)

(* Unstaked funds are released first, then active ones.                    *)
lower_cap(new_total_cap, previous_total_cap) ==
    LET swap_amount   == previous_total_cap - new_total_cap
        from_unstaked == min(swap_amount, total_unstaked)
    IN  /\ swap_amount <= total_unprotected
        /\ continue_modify_cap(new_total_cap, 0, from_unstaked,
                               swap_amount - from_unstaked)

modify_total_delegation_cap(new_total_cap) ==
    LET max_available == total_active + total_waiting + total_unstaked
    IN  /\ ~ is_global_op_in_progress
        /\ \/ /\ bootstrap_mode
              /\ new_total_cap > max_available
              /\ total_delegation_cap' = new_total_cap
              /\ UNCHANGED <<stakes, bootstrap_mode, opVars, money>>
           \/ /\ bootstrap_mode
              /\ new_total_cap = max_available
              /\ ExactBootstrapCap
              /\ bootstrap_mode' = FALSE
              /\ UNCHANGED <<stakes, total_delegation_cap, opVars, money>>
           \/ /\ bootstrap_mode
              /\ new_total_cap < max_available
              /\ lower_cap(new_total_cap, max_available)
              /\ bootstrap_mode' = FALSE
           \/ /\ ~ bootstrap_mode
              /\ new_total_cap <= max_available
              /\ \/ /\ new_total_cap = total_delegation_cap
                    /\ UNCHANGED <<stakes, total_delegation_cap, opVars,
                                   money>>
                 \/ /\ new_total_cap > total_delegation_cap
                    /\ raise_cap(new_total_cap, total_delegation_cap)
                 \/ /\ new_total_cap < total_delegation_cap
                    /\ lower_cap(new_total_cap, total_delegation_cap)
              /\ UNCHANGED bootstrap_mode

-----------------------------------------------------------------------------
(* Mutant of stake_nodes: stakes whatever the contract holds.              *)
stake_nodes_unchecked(amount_to_stake) ==
    /\ ~ bootstrap_mode
    /\ ~ is_global_op_in_progress
    /\ amount_to_stake <= sc_balance
    /\ sc_balance'    = sc_balance - amount_to_stake
    /\ auction_stake' = auction_stake + amount_to_stake
    /\ UNCHANGED <<stakes, capVars, total_rewards, sent_rewards,
                   returned_fines>>

stake_nodes(amount_to_stake) ==
    /\ ~ bootstrap_mode
    /\ ~ is_global_op_in_progress
    /\ amount_to_stake <= total_unprotected
    /\ amount_to_stake <= sc_balance
    /\ sc_balance'    = sc_balance - amount_to_stake
    /\ auction_stake' = auction_stake + amount_to_stake
    /\ UNCHANGED <<stakes, capVars, total_rewards, sent_rewards,
                   returned_fines>>

(* The auction contract refunds a failed stake, or pays unbonded or unused *)
(* stake back, in a transaction of its own.                                *)
AuctionPaysBack(amount) ==
    /\ auction_stake' = auction_stake - amount
    /\ sc_balance'    = sc_balance + amount
    /\ UNCHANGED <<stakes, capVars, total_rewards, sent_rewards,
                   returned_fines>>

(* The protocol rewards the nodes, which run only once bootstrap is over.  *)
RewardsArrive(amount) ==
    /\ ~ bootstrap_mode
    /\ total_rewards + amount <= RewardBound
    /\ total_rewards' = total_rewards + amount
    /\ sc_balance'    = sc_balance + amount
    /\ UNCHANGED <<stakes, capVars, sent_rewards, auction_stake,
                   returned_fines>>

(* unJailNodes without success: the fine comes back to the contract, and   *)
(* no callback passes it on to the owner (NodeFunds).  A call that names   *)
(* no nodes is accepted in bootstrap mode too.                             *)
FineComesBack(fine) ==
    /\ returned_fines + fine <= FineBound
    /\ returned_fines' = returned_fines + fine
    /\ sc_balance'     = sc_balance + fine
    /\ UNCHANGED <<stakes, capVars, total_rewards, sent_rewards,
                   auction_stake>>

-----------------------------------------------------------------------------
(* "checking that the total delegation cap was not already set"            *)
update_total_delegation_cap_if_necessary(cap, active, unstaked) ==
    IF cap = 0 THEN active + unstaked ELSE cap

(* The owner installs another version, at any time: init of latest_update. *)
upgrade ==
    /\ total_delegation_cap' = update_total_delegation_cap_if_necessary(
                                   total_delegation_cap, total_active,
                                   total_unstaked)
    /\ UNCHANGED <<stakes, bootstrap_mode, opVars, money>>

(* init of latest_full                                                     *)
Deployed ==
    /\ total_active = 0
    /\ total_unstaked = 0
    /\ total_delegation_cap \in Caps
    /\ bootstrap_mode = TRUE
    /\ auction_stake = 0

(* The genesis contract, whose stake runs nodes from the start and which   *)
(* knows no cap, after its first upgrade.                                  *)
UpgradedGenesis ==
    /\ total_active \in GenesisStakes
    /\ total_unstaked \in {0} \cup GenesisStakes
    /\ total_delegation_cap = update_total_delegation_cap_if_necessary(
                                  0, total_active, total_unstaked)
    /\ bootstrap_mode = FALSE
    /\ auction_stake = total_active + total_unstaked

Init ==
    /\ Deployed \/ UpgradedGenesis
    /\ total_waiting = 0
    /\ total_deferred = 0
    /\ total_withdraw = 0
    /\ global_op = "None"
    /\ new_delegation_cap = 0
    /\ remaining_swap_waiting_to_active = 0
    /\ remaining_swap_unstaked_to_def_p = 0
    /\ remaining_swap_active_to_def_p = 0
    /\ total_rewards = 0
    /\ sent_rewards = 0
    /\ sc_balance = 0
    /\ returned_fines = 0

UserNext ==
    \/ \E payment \in Payments : stake_endpoint(payment)
    \/ \E w \in 0 .. total_waiting, a \in 0 .. total_active :
          unstake_endpoint(w, a)
    \/ \E eligible \in 0 .. total_deferred,
          amount \in 0 .. total_withdraw + total_deferred :
          unbond_user(eligible, amount)
    \/ \E amount \in 0 .. total_rewards : claim_rewards(amount)

OwnerNext ==
    \/ \E new_total_cap \in Caps : modify_total_delegation_cap(new_total_cap)
    \/ set_service_fee_endpoint
    \/ continue_global_operation_endpoint
    \/ \E dust \in 0 .. total_waiting : dust_cleanup_waiting_list(dust)
    \/ \E dust \in 0 .. total_active : dust_cleanup_active(dust)
    \/ \E amount \in 0 .. sc_balance : stake_nodes(amount)
    \/ upgrade

EnvironmentNext ==
    \/ \E amount \in 0 .. auction_stake : AuctionPaysBack(amount)
    \/ \E amount \in Rewards : RewardsArrive(amount)
    \/ \E fine \in Fines : FineComesBack(fine)

Next == UserNext \/ OwnerNext \/ EnvironmentNext

Spec == Init /\ [][Next]_vars

-----------------------------------------------------------------------------
TypeOK ==
    /\ total_waiting \in Nat
    /\ total_active \in Nat
    /\ total_unstaked \in Nat
    /\ total_deferred \in Nat
    /\ total_withdraw \in Nat
    /\ total_delegation_cap \in Nat
    /\ bootstrap_mode \in BOOLEAN
    /\ global_op \in GlobalOps
    /\ new_delegation_cap \in Nat
    /\ remaining_swap_waiting_to_active \in Nat
    /\ remaining_swap_unstaked_to_def_p \in Nat
    /\ remaining_swap_active_to_def_p \in Nat
    /\ total_rewards \in Nat
    /\ sent_rewards \in Nat
    /\ sc_balance \in Nat
    /\ auction_stake \in Nat
    /\ returned_fines \in Nat

(* What the contract holds covers all it owes: undistributed rewards and   *)
(* the waiting, deferred and withdraw-only funds.  This is what keeps the  *)
(* BigUint subtractions of total_unprotected from underflowing and what    *)
(* lets every unBond and claimRewards be paid out.                         *)
Solvency ==
    /\ total_unprotected >= 0
    /\ sent_rewards <= total_rewards

(* validateDelegationCapInvariant "should never return error" when no      *)
(* global operation is running.  A contract deployed with a zero cap holds *)
(* no stake and is the one exception.                                      *)
DelegationCapInvariant ==
    ~ is_global_op_in_progress =>
        \/ delegation_cap_holds
        \/ bootstrap_mode /\ total_delegation_cap = 0 /\ total_active = 0

(* Whatever the owner asked for, the stake that shares the rewards never   *)
(* exceeds the cap those rewards are divided by.                           *)
ActiveWithinCap ==
    ~ is_global_op_in_progress =>
        total_active + total_unstaked <= total_delegation_cap

(* "The contract can be either overstaked (waiting > 0) or understaked     *)
(* (unstaked > 0). Cannot have both" (use_waiting_to_replace_unstaked).    *)
NeverOverAndUnderstaked == total_waiting = 0 \/ total_unstaked = 0

(* The stake the contract will share rewards between once the running cap  *)
(* change is done, and the cap it will divide them by.                     *)
stake_after_op ==
    total_active + total_unstaked + remaining_swap_waiting_to_active
        - remaining_swap_unstaked_to_def_p - remaining_swap_active_to_def_p

cap_after_op == IF global_op = "ModifyTotalDelegationCap"
                THEN new_delegation_cap ELSE total_delegation_cap

(* An interrupted cap change always finds in the lists what it still has   *)
(* to swap, so continuing it can complete it whatever happened meanwhile.  *)
(* The exception: the cap exceeds the stake (README, finding 3) and a      *)
(* returned fine makes total_unprotected exceed it too, which lets the     *)
(* owner ask for a cut of the cap that no stake can satisfy.  A fine alone *)
(* does not suffice.                                                       *)
GlobalOpCanFinish ==
    /\ remaining_swap_waiting_to_active <= total_waiting
    /\ remaining_swap_unstaked_to_def_p <= total_unstaked
    /\ \/ remaining_swap_active_to_def_p <= total_active
       \/ returned_fines > 0 /\ stake_after_op < cap_after_op

-----------------------------------------------------------------------------
(* The parts of the inductive invariant behind the properties above.       *)

(* EGLD is neither made nor lost: the contract holds the stake in the      *)
(* lists, the rewards not yet sent and fines that came back, less what it  *)
(* lent to the auction.                                                    *)
Conservation ==
    sc_balance = total_stake + total_rewards - sent_rewards + returned_fines
                 - auction_stake

(* In bootstrap mode every fund is active, or already on its way out.      *)
BootstrapShape ==
    bootstrap_mode =>
        /\ total_waiting = 0
        /\ total_unstaked = 0
        /\ auction_stake = 0
        /\ ~ is_global_op_in_progress
        /\ \/ total_active < total_delegation_cap
           \/ total_active = 0 /\ total_delegation_cap = 0

(* What nodes may run with, and stays so when a running cap change is      *)
(* done.                                                                   *)
lendable == total_active + total_unstaked + returned_fines
    - remaining_swap_unstaked_to_def_p - remaining_swap_active_to_def_p

(* Stake lent to the auction contract is never part of what a running cap  *)
(* change will release.                                                    *)
AuctionCovered == auction_stake <= lendable

GlobalOpShape ==
    global_op # "ModifyTotalDelegationCap" =>
        /\ remaining_swap_waiting_to_active = 0
        /\ remaining_swap_unstaked_to_def_p = 0
        /\ remaining_swap_active_to_def_p = 0

StakeReachesCap ==
    /\ stake_after_op <= cap_after_op
    /\ ~ ExactBootstrapCap /\ ~ bootstrap_mode =>
            stake_after_op = cap_after_op

IInv == /\ TypeOK
        /\ Conservation
        /\ sent_rewards <= total_rewards
        /\ BootstrapShape
        /\ NeverOverAndUnderstaked
        /\ AuctionCovered
        /\ GlobalOpShape
        /\ GlobalOpCanFinish
        /\ StakeReachesCap

Lent == INSTANCE Lending WITH lent <- auction_stake

(* The endpoints move the totals as the calls to the auction contract      *)
(* expect (NodeFunds): nothing that is lent is promised to delegators.     *)
RefinesLending == Lent!Spec
=============================================================================
