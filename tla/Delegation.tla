----------------------------- MODULE Delegation -----------------------------
(***************************************************************************)
(* The delegation contract: fund items, user rewards, the delegation cap,  *)
(* the resumable global operations and the dust cleanup.  A transaction is *)
(* one action; a failed require or a BigUint underflow reverts it, so it   *)
(* is a guard.  Loops that watch the gas stop after a number of iterations *)
(* that the caller's gas limit determines: the parameter gas.              *)
(***************************************************************************)
EXTENDS FundBook, FiniteSetsExt

CONSTANTS
    NumUsers,           \* addresses that may become delegators
    Payments,           \* amounts sent with stake
    Withdrawals,        \* amounts asked from unStake
    Caps,               \* caps the owner asks for, the initial one included
    Fees,               \* service fees per 10000 the owner asks for
    Rewards,            \* rewards that may arrive at once
    NodeStakes,         \* amounts sent with stakeNodes
    DustLimits,         \* limits given to the dust cleanup
    GenesisStakes,      \* stakes of the genesis contract, if upgraded
    GasLimits,          \* loop iterations a transaction can pay for
    Switches,           \* subset of {"paused", "claimRewards",
                        \*   "continueGlobalOperation"} the owner operates
    MinimumStakes,      \* values of min_stake the owner sets
    UnBondPeriods,      \* values of n_blocks_before_unbond the owner sets
    OwnerShare,         \* owner_min_stake_share
    DepositBound, RewardBound, NonceBound,
    ExactBootstrapCap,  \* see Ledger
    CheckedDust         \* does the owner look at dustCleanupCheckpoint
                        \* before a dust cleanup? (README, finding 2)

Users == 1 .. NumUsers
OWNER_USER_ID == 1
PERCENTAGE_DENOMINATOR == 10000

ASSUME DelegationAssumption ==
    /\ NumUsers \in Nat \ {0}
    /\ Payments \subseteq Nat /\ Withdrawals \subseteq Nat
    /\ Caps \subseteq Nat /\ MinimumStakes \subseteq Nat
    /\ UnBondPeriods \subseteq Nat /\ DustLimits \subseteq Nat
    /\ Fees \subseteq 0 .. PERCENTAGE_DENOMINATOR
    /\ Rewards \subseteq Nat /\ NodeStakes \subseteq Nat
    /\ DepositBound \in Nat /\ RewardBound \in Nat /\ NonceBound \in Nat
    /\ GenesisStakes \subseteq 0 .. DepositBound
    /\ GasLimits \subseteq Nat
    /\ Switches \subseteq {"paused", "claimRewards", "continueGlobalOperation"}
    /\ ExactBootstrapCap \in BOOLEAN /\ CheckedDust \in BOOLEAN

VARIABLES
    num_users,              \* user u is the u-th address to be registered
    funds,                  \* FundBook
    user_rewards,           \* u_rew_checkp and u_rew_unclmd of each user
    total_delegation_cap, bootstrap_mode, service_fee,
    min_stake, n_blocks_before_unbond,
    global_op,              \* global_op_checkpoint
    dust_cleanup_checkpoint,
    block_nonce,
    total_rewards, sent_rewards, sc_balance, auction_stake,
    off                     \* the switches that are off (or paused)

accounts == <<num_users, funds, user_rewards, dust_cleanup_checkpoint>>
limits   == <<min_stake, n_blocks_before_unbond>>
settings == <<total_delegation_cap, bootstrap_mode, service_fee, limits>>
money    == <<total_rewards, sent_rewards, sc_balance, auction_stake>>
chain    == <<block_nonce, off>>
vars     == <<accounts, settings, global_op, money, chain>>

-----------------------------------------------------------------------------
(* GlobalOpCheckpoint, with the fields of all its variants.                *)
NoGlobalOp ==
    [op |-> "None", step |-> "ComputeAllRewards", new_value |-> 0,
     waiting_to_active |-> 0, unstaked_to_def_p |-> 0, active_to_def_p |-> 0,
     last_id |-> 0, sum_unclaimed |-> 0, rewards_checkpoint |-> 0]

ModifyTotalDelegationCap(new_cap, w2a, u2d, a2d) ==
    [NoGlobalOp EXCEPT !.op = "ModifyTotalDelegationCap",
                       !.new_value = new_cap,
                       !.waiting_to_active = w2a,
                       !.unstaked_to_def_p = u2d,
                       !.active_to_def_p = a2d,
                       !.rewards_checkpoint = total_rewards]

ChangeServiceFee(new_service_fee) ==
    [NoGlobalOp EXCEPT !.op = "ChangeServiceFee",
                       !.new_value = new_service_fee,
                       !.rewards_checkpoint = total_rewards]

is_global_op_in_progress == global_op.op # "None"

not_paused == "paused" \notin off
feature_on(name) == name \notin off

total_unprotected ==
    sc_balance + sent_rewards - total_rewards - total_of_type(funds, "Waiting")
        - total_of_type(funds, "DeferredPayment")
        - total_of_type(funds, "WithdrawOnly")

stake_of(u) == sum_of(funds, of_user(funds, u))

-----------------------------------------------------------------------------
(* Rewards *)
split_service_reward(tot_rewards) ==
    [service |-> (service_fee * tot_rewards) \div PERCENTAGE_DENOMINATOR,
     delegators |-> ((PERCENTAGE_DENOMINATOR - service_fee) * tot_rewards)
                        \div PERCENTAGE_DENOMINATOR]

(* The rewards of user u brought up to date, given the user's record.      *)
load_updated_user_rewards(u, data, fs) ==
    LET new    == total_rewards - data.reward_checkpoint
        split  == split_service_reward(new)
        cap    == total_delegation_cap
        active == total_of_type(fs, "Active")
        share(stake) == IF stake > 0 THEN (split.delegators * stake) \div cap
                                     ELSE 0
        own    == share(get_user_stake_of_type(fs, u, "Active"))
        extra  == IF u = OWNER_USER_ID
                  THEN split.service + share(cap - active) ELSE 0
    IN  IF new = 0 THEN data
        ELSE [reward_checkpoint |-> total_rewards,
              unclaimed_rewards |-> data.unclaimed_rewards + own + extra]

compute_rewards_of(users, rewards, fs) ==
    [u \in Users |-> IF u \in users
                     THEN load_updated_user_rewards(u, rewards[u], fs)
                     ELSE rewards[u]]

get_claimable_rewards(u) ==
    load_updated_user_rewards(u, user_rewards[u], funds).unclaimed_rewards

get_total_unclaimed_rewards ==
    SumTo([u \in Users |-> get_claimable_rewards(u)], num_users)

claim_rewards(u) ==
    LET data == load_updated_user_rewards(u, user_rewards[u], funds)
        amount == data.unclaimed_rewards
    IN  /\ not_paused
        /\ feature_on("claimRewards")
        /\ u <= num_users
        /\ ~ is_global_op_in_progress
        /\ amount <= sc_balance
        /\ sc_balance' = sc_balance - amount
        /\ sent_rewards' = sent_rewards + amount
        /\ user_rewards' = [user_rewards EXCEPT ![u] =
                                [data EXCEPT !.unclaimed_rewards = 0]]
        /\ UNCHANGED <<num_users, funds, dust_cleanup_checkpoint, settings,
                       global_op, total_rewards, auction_stake, chain>>

-----------------------------------------------------------------------------
(* User stake.  The result of a computation is the fund items, the rewards *)
(* and the mode it leaves, and whether all its requires held.              *)
fill_bootstrap(deferred, rewards) ==
    LET fs       == deferred.funds
        fillable == total_delegation_cap - total_of_type(fs, "Active")
        active   == swap_waiting_to_active(fs, fillable, NoLimit(fs))
    IN  [funds |-> active.funds, rewards |-> rewards,
         bootstrap |-> active.left # 0,
         ok |-> deferred.left = 0 /\ fillable >= 0]

replace_unstaked(deferred, swappable, rewards) ==
    LET fs       == deferred.funds
        affected == get_affected_users_of_swap_waiting_to_active(fs, swappable)
        active   == swap_waiting_to_active(fs, swappable, NoLimit(fs))
    IN  [funds |-> active.funds,
         rewards |-> compute_rewards_of({OWNER_USER_ID} \cup affected,
                                        rewards, fs),
         bootstrap |-> FALSE,
         ok |-> deferred.left = 0 /\ active.left = 0]

use_waiting_to_replace_unstaked(fs, rewards) ==
    LET total_unstaked == total_of_type(fs, "UnStaked")
        swappable == Smaller(total_of_type(fs, "Waiting"), total_unstaked)
        defer(amount) == swap_unstaked_to_deferred_payment(fs, amount,
                                                           NoLimit(fs))
    IN  IF bootstrap_mode THEN fill_bootstrap(defer(total_unstaked), rewards)
        ELSE IF swappable = 0
        THEN [funds |-> fs, rewards |-> rewards, bootstrap |-> FALSE,
              ok |-> TRUE]
        ELSE replace_unstaked(defer(swappable), swappable, rewards)

(* The transaction ends with fund items fs.                                *)
commit_funds(fs) ==
    /\ funds' = save(fs)
    /\ dust_cleanup_checkpoint' = follow(dust_cleanup_checkpoint, fs)

commit(result) ==
    /\ result.ok
    /\ commit_funds(result.funds)
    /\ user_rewards' = result.rewards
    /\ bootstrap_mode' = result.bootstrap

validate_delegation_cap_invariant(fs) ==
    LET held == total_of_type(fs, "Active") + total_of_type(fs, "UnStaked")
    IN  IF bootstrap_mode THEN held < total_delegation_cap
                          ELSE held = total_delegation_cap

stake_endpoint(u, payment) ==
    /\ not_paused
    /\ payment >= min_stake
    /\ ~ is_global_op_in_progress
    /\ u <= num_users + 1
    /\ Everything(funds) + payment <= DepositBound
    /\ num_users' = IF u > num_users THEN u ELSE num_users
    /\ sc_balance' = sc_balance + payment
    /\ LET fs == create_waiting(funds, u, payment)
       IN  /\ validate_delegation_cap_invariant(fs)
           /\ commit(use_waiting_to_replace_unstaked(fs, user_rewards))
    /\ UNCHANGED <<total_delegation_cap, service_fee, limits, global_op,
                   total_rewards, sent_rewards, auction_stake, chain>>

get_unstakeable(u) == get_user_stake_of_type(funds, u, "Waiting")
                      + get_user_stake_of_type(funds, u, "Active")

validate_unstake_amount(u, amount) ==
    LET max_unstake == get_unstakeable(u)
    IN  /\ amount <= max_unstake
        /\ amount < max_unstake => amount >= min_stake

(* The active stake is the contract's, as in the source (finding 4).       *)
validate_user_minimum_stake(fs, u) ==
    LET relevant_stake == get_user_stake_of_type(fs, u, "Waiting")
                          + total_of_type(fs, "Active")
    IN  relevant_stake = 0 \/ relevant_stake >= min_stake

commit_unstake(result, u) ==
    /\ commit(result)
    /\ validate_user_minimum_stake(result.funds, u)

(* What the waiting funds of the user do not cover comes from the active.  *)
unstake_rest(from_waiting, u) ==
    LET rewards == compute_rewards_of({OWNER_USER_ID, u}, user_rewards,
                                      from_waiting.funds)
        from_active == swap_user_active_to_unstaked(from_waiting.funds, u,
                            from_waiting.left, block_nonce)
    IN  IF from_waiting.left = 0
        THEN /\ commit_funds(from_waiting.funds)
             /\ UNCHANGED <<user_rewards, bootstrap_mode>>
        ELSE /\ from_active.left = 0
             /\ commit_unstake(use_waiting_to_replace_unstaked(
                                   from_active.funds, rewards), u)

unstake_endpoint(u, amount) ==
    /\ not_paused
    /\ ~ is_global_op_in_progress
    /\ u <= num_users
    /\ validate_unstake_amount(u, amount)
    /\ unstake_rest(swap_user_waiting_to_withdraw_only(funds, u, amount), u)
    /\ UNCHANGED <<num_users, total_delegation_cap, service_fee, limits,
                   global_op, money, chain>>

unbond_user(u, gas) ==
    LET released == swap_eligible_deferred_to_withdraw(funds, u,
                        n_blocks_before_unbond, block_nonce, gas)
        fs == liquidate_all_withdraw_only(released.funds, u,
                                          gas - released.visited)
        amount_liquidated == Everything(funds) - Everything(fs)
    IN  /\ not_paused
        /\ u <= num_users
        /\ amount_liquidated <= sc_balance
        /\ commit_funds(fs)
        /\ sc_balance' = sc_balance - amount_liquidated
        /\ UNCHANGED <<num_users, user_rewards, settings, global_op,
                       total_rewards, sent_rewards, auction_stake, chain>>

-----------------------------------------------------------------------------
(* Dust cleanup.  What it does with a checkpoint whose item is gone is the *)
(* subject of FundModule.tla; here the owner starts it with a valid one,   *)
(* and if CheckedDust, with one that the same endpoint left.               *)
owner_checked_dust(source_type) ==
    \/ dust_cleanup_checkpoint = 0
    \/ /\ dust_cleanup_checkpoint \in 1 .. Len(funds)
       /\ CheckedDust =>
            funds[dust_cleanup_checkpoint].fund_desc.type = source_type

dust_cleanup_waiting_list(dust_limit, gas) ==
    LET swap == swap_dust(funds, dust_cleanup_checkpoint, dust_limit,
                          "Waiting", [item \in Item |-> WithdrawOnly], gas)
    IN  /\ owner_checked_dust("Waiting")
        /\ ~ is_global_op_in_progress
        /\ funds' = save(swap.funds)
        /\ dust_cleanup_checkpoint' = follow(swap.next_id, swap.funds)
        /\ UNCHANGED <<num_users, user_rewards, settings, global_op, money,
                       chain>>

(* Mutant of users_before_dust.                                            *)
only_swept(swept) == swept

(* The users whose rewards are computed before their stake is swept.       *)
users_before_dust(swept) == {OWNER_USER_ID} \cup swept

commit_dust(result, next_id) ==
    /\ result.ok
    /\ funds' = save(result.funds)
    /\ dust_cleanup_checkpoint' = follow(next_id, result.funds)
    /\ user_rewards' = result.rewards
    /\ bootstrap_mode' = result.bootstrap

dust_cleanup_active(dust_limit, gas) ==
    LET swap == swap_dust(funds, dust_cleanup_checkpoint, dust_limit,
                          "Active", [item \in Item |-> UnStaked(0)], gas)
        swept == { funds[id].user_id :
                     id \in { k \in swap.touched :
                                funds[k].balance < dust_limit } }
        rewards == compute_rewards_of(users_before_dust(swept), user_rewards,
                                      funds)
    IN  /\ owner_checked_dust("Active")
        /\ ~ is_global_op_in_progress
        /\ commit_dust(use_waiting_to_replace_unstaked(swap.funds, rewards),
                       swap.next_id)
        /\ UNCHANGED <<num_users, total_delegation_cap, service_fee, limits,
                       global_op, money, chain>>

-----------------------------------------------------------------------------
(***************************************************************************)
(* Global operations.  A transaction carries the checkpoint op, the fund   *)
(* items, the rewards and the gas left through the steps of                *)
(* continue_global_operation; a step that is not the current one passes    *)
(* them on.                                                                *)
(***************************************************************************)
start(op, gas) == [op |-> op, funds |-> funds, rewards |-> user_rewards,
                   gas |-> gas, ok |-> TRUE]

(* Mutant of restart_if_rewards_arrived.                                   *)
never_restart(op) == op

restart_if_rewards_arrived(op) ==
    IF op.rewards_checkpoint = total_rewards THEN op
    ELSE [op EXCEPT !.last_id = 0, !.sum_unclaimed = 0,
                    !.rewards_checkpoint = total_rewards]

(* The unclaimed rewards of the users 1 to n.                              *)
unclaimed_to(rewards, n) ==
    SumTo([u \in Users |-> rewards[u].unclaimed_rewards], n)

(* "divisions are inexact so a small remainder can remain".                *)
give_owner(remainder, rewards) ==
    [rewards EXCEPT ![OWNER_USER_ID].unclaimed_rewards = @ + remainder]

compute_all_rewards(r, next_step) ==
    LET op == restart_if_rewards_arrived(r.op)
        last_id == op.last_id + Smaller(r.gas, num_users - op.last_id)
        users   == op.last_id + 1 .. last_id
        rewards == compute_rewards_of(users, r.rewards, r.funds)
        sum_unclaimed == op.sum_unclaimed
            + unclaimed_to(rewards, last_id) - unclaimed_to(rewards, op.last_id)
        remainder == total_rewards - sum_unclaimed - sent_rewards
    IN  IF r.op.step # "ComputeAllRewards" THEN r
        ELSE IF last_id < num_users
        THEN [r EXCEPT !.op = [op EXCEPT !.last_id = last_id,
                                         !.sum_unclaimed = sum_unclaimed],
                       !.rewards = rewards,
                       !.gas = 0]
        ELSE [r EXCEPT !.op = [op EXCEPT !.step = next_step, !.last_id = 0,
                                         !.sum_unclaimed = 0,
                                         !.rewards_checkpoint = 0],
                       !.rewards = give_owner(remainder, rewards),
                       !.gas = r.gas - Cardinality(users),
                       !.ok = remainder >= 0]

(* One swap of continue_modify_total_delegation_cap_step: result is what   *)
(* the gas allowed of it, remaining the field it counts down.              *)
swap_step(r, step, remaining, result, next_step) ==
    IF r.op.step # step THEN r
    ELSE [r EXCEPT !.op = [r.op EXCEPT ![remaining] = result.left,
                                       !.step = IF result.left > 0 THEN step
                                                ELSE next_step],
                   !.funds = result.funds,
                   !.gas = r.gas - result.visited]

swap_waiting_step(r) ==
    swap_step(r, "SwapWaitingToActive", "waiting_to_active",
              swap_waiting_to_active(r.funds, r.op.waiting_to_active, r.gas),
              "SwapUnstakedToDeferredPayment")

swap_unstaked_step(r) ==
    swap_step(r, "SwapUnstakedToDeferredPayment", "unstaked_to_def_p",
              swap_unstaked_to_deferred_payment(r.funds,
                  r.op.unstaked_to_def_p, r.gas),
              "SwapActiveToDeferredPayment")

swap_active_step(r) ==
    swap_step(r, "SwapActiveToDeferredPayment", "active_to_def_p",
              swap_active_to_deferred_payment(r.funds, r.op.active_to_def_p,
                  block_nonce, r.gas),
              "Finished")

finished(r) == r.op.step = "Finished"

(* The transaction ends with r: the checkpoint is saved, or cleared.       *)
commit_global_op(r) ==
    /\ r.ok
    /\ commit_funds(r.funds)
    /\ user_rewards' = r.rewards
    /\ global_op' = IF finished(r) THEN NoGlobalOp ELSE r.op

commit_cap(r) ==
    /\ commit_global_op(r)
    /\ total_delegation_cap' = IF finished(r) THEN r.op.new_value
                               ELSE total_delegation_cap

cap_steps(op, gas) ==
    swap_active_step(swap_unstaked_step(swap_waiting_step(
        compute_all_rewards(start(op, gas), "SwapWaitingToActive"))))

continue_modify_total_delegation_cap(op, gas) ==
    /\ commit_cap(cap_steps(op, gas))
    /\ UNCHANGED <<num_users, service_fee, limits, money, chain>>

commit_service_fee(r) ==
    /\ commit_global_op(r)
    /\ service_fee' = IF finished(r) THEN r.op.new_value ELSE service_fee

service_fee_steps(op, gas) == compute_all_rewards(start(op, gas), "Finished")

continue_change_service_fee(op, gas) ==
    /\ commit_service_fee(service_fee_steps(op, gas))
    /\ UNCHANGED <<num_users, total_delegation_cap, bootstrap_mode, limits,
                   money, chain>>

continue_global_operation_endpoint(gas) ==
    /\ feature_on("continueGlobalOperation")
    /\ \/ /\ global_op.op = "ModifyTotalDelegationCap"
          /\ continue_modify_total_delegation_cap(global_op, gas)
          /\ UNCHANGED bootstrap_mode
       \/ /\ global_op.op = "ChangeServiceFee"
          /\ continue_change_service_fee(global_op, gas)

(* Mutant of raise_cap: swaps the whole cap instead of what is added.      *)
raise_cap_by_all(new_total_cap, previous_total_cap, gas) ==
    /\ total_of_type(funds, "UnStaked") = 0
    /\ continue_modify_total_delegation_cap(
           ModifyTotalDelegationCap(new_total_cap, new_total_cap, 0, 0), gas)

raise_cap(new_total_cap, previous_total_cap, gas) ==
    /\ total_of_type(funds, "UnStaked") = 0
    /\ continue_modify_total_delegation_cap(
           ModifyTotalDelegationCap(new_total_cap,
               new_total_cap - previous_total_cap, 0, 0), gas)

(* Mutant of lower_cap: without the require on total_unprotected.          *)
lower_cap_unchecked(new_total_cap, previous_total_cap, gas) ==
    LET swap_amount == previous_total_cap - new_total_cap
        unstaked == Smaller(swap_amount, total_of_type(funds, "UnStaked"))
    IN  continue_modify_total_delegation_cap(
            ModifyTotalDelegationCap(new_total_cap, 0, unstaked,
                                     swap_amount - unstaked), gas)

lower_cap(new_total_cap, previous_total_cap, gas) ==
    LET swap_amount == previous_total_cap - new_total_cap
        unstaked == Smaller(swap_amount, total_of_type(funds, "UnStaked"))
    IN  /\ swap_amount <= total_unprotected
        /\ continue_modify_total_delegation_cap(
               ModifyTotalDelegationCap(new_total_cap, 0, unstaked,
                                        swap_amount - unstaked), gas)

modify_total_delegation_cap(new_total_cap, gas) ==
    LET max_available == total_of_type(funds, "Active")
                         + total_of_type(funds, "Waiting")
                         + total_of_type(funds, "UnStaked")
    IN  /\ ~ is_global_op_in_progress
        /\ \/ /\ bootstrap_mode
              /\ new_total_cap > max_available
              /\ total_delegation_cap' = new_total_cap
              /\ UNCHANGED <<accounts, bootstrap_mode, service_fee, limits,
                             global_op, money, chain>>
           \/ /\ bootstrap_mode
              /\ new_total_cap = max_available
              /\ ExactBootstrapCap
              /\ bootstrap_mode' = FALSE
              /\ UNCHANGED <<accounts, total_delegation_cap, service_fee,
                             limits, global_op, money, chain>>
           \/ /\ bootstrap_mode
              /\ new_total_cap < max_available
              /\ lower_cap(new_total_cap, max_available, gas)
              /\ bootstrap_mode' = FALSE
           \/ /\ ~ bootstrap_mode
              /\ new_total_cap <= max_available
              /\ \/ /\ new_total_cap = total_delegation_cap
                    /\ UNCHANGED <<accounts, total_delegation_cap,
                                   service_fee, limits, global_op, money,
                                   chain>>
                 \/ /\ new_total_cap > total_delegation_cap
                    /\ raise_cap(new_total_cap, total_delegation_cap, gas)
                 \/ /\ new_total_cap < total_delegation_cap
                    /\ lower_cap(new_total_cap, total_delegation_cap, gas)
              /\ UNCHANGED bootstrap_mode

(* Mutant of set_service_fee_endpoint: no rewards are computed first.      *)
set_service_fee_directly(service_fee_per_10000, gas) ==
    /\ ~ is_global_op_in_progress
    /\ service_fee' = service_fee_per_10000
    /\ UNCHANGED <<accounts, total_delegation_cap, bootstrap_mode, limits,
                   global_op, money, chain>>

set_service_fee_endpoint(service_fee_per_10000, gas) ==
    /\ ~ is_global_op_in_progress
    /\ service_fee # service_fee_per_10000
    /\ IF bootstrap_mode
       THEN /\ service_fee' = service_fee_per_10000
            /\ UNCHANGED <<accounts, total_delegation_cap, bootstrap_mode,
                           limits, global_op, money, chain>>
       ELSE continue_change_service_fee(
                ChangeServiceFee(service_fee_per_10000), gas)

-----------------------------------------------------------------------------
set_minimum_stake_endpoint(minimum_stake) ==
    /\ min_stake' = minimum_stake
    /\ UNCHANGED <<accounts, total_delegation_cap, bootstrap_mode, service_fee,
                   n_blocks_before_unbond, global_op, money, chain>>

set_n_blocks_before_unbond_endpoint(n) ==
    /\ n_blocks_before_unbond' = n
    /\ UNCHANGED <<accounts, total_delegation_cap, bootstrap_mode, service_fee,
                   min_stake, global_op, money, chain>>

(* pause, unpause and setFeatureFlag.                                      *)
OwnerSwitches(name) ==
    /\ off' = IF name \in off THEN off \ {name} ELSE off \cup {name}
    /\ UNCHANGED <<accounts, settings, global_op, money, block_nonce>>

validate_owner_stake_share ==
    get_user_stake_of_type(funds, OWNER_USER_ID, "Active")
            * PERCENTAGE_DENOMINATOR
        >= total_of_type(funds, "Active") * OwnerShare

(* Which nodes are staked is the subject of Nodes.tla.                     *)
stake_nodes(amount_to_stake) ==
    /\ ~ bootstrap_mode
    /\ ~ is_global_op_in_progress
    /\ amount_to_stake <= total_unprotected
    /\ validate_owner_stake_share
    /\ amount_to_stake <= sc_balance
    /\ sc_balance' = sc_balance - amount_to_stake
    /\ auction_stake' = auction_stake + amount_to_stake
    /\ UNCHANGED <<accounts, settings, global_op, total_rewards, sent_rewards,
                   chain>>

AuctionPaysBack ==
    /\ auction_stake > 0
    /\ sc_balance' = sc_balance + auction_stake
    /\ auction_stake' = 0
    /\ UNCHANGED <<accounts, settings, global_op, total_rewards, sent_rewards,
                   chain>>

RewardsArrive(amount) ==
    /\ ~ bootstrap_mode
    /\ total_rewards + amount <= RewardBound
    /\ total_rewards' = total_rewards + amount
    /\ sc_balance' = sc_balance + amount
    /\ UNCHANGED <<accounts, settings, global_op, sent_rewards, auction_stake,
                   chain>>

NextBlock ==
    /\ block_nonce < NonceBound
    /\ block_nonce' = block_nonce + 1
    /\ UNCHANGED <<accounts, settings, global_op, money, off>>

(* Mutant of cap_if_necessary: does not look whether the cap was set.      *)
cap_recomputed(cap, fs) ==
    total_of_type(fs, "Active") + total_of_type(fs, "UnStaked")

(* update_total_delegation_cap_if_necessary                                *)
cap_if_necessary(cap, fs) ==
    IF cap = 0 THEN total_of_type(fs, "Active") + total_of_type(fs, "UnStaked")
               ELSE cap

(* The owner installs another version, at any time: init of latest_update. *)
upgrade ==
    /\ total_delegation_cap' = cap_if_necessary(total_delegation_cap, funds)
    /\ UNCHANGED <<accounts, bootstrap_mode, service_fee, limits, global_op,
                   money, chain>>

(* init of latest_full                                                     *)
Deployed ==
    /\ num_users = 1
    /\ funds = <<>>
    /\ total_delegation_cap \in Caps
    /\ bootstrap_mode = TRUE
    /\ auction_stake = 0

(* The genesis contract after its first upgrade: all its delegators are    *)
(* registered, and the stake of one of them already runs nodes.            *)
UpgradedGenesis ==
    \E u \in Users, stake \in GenesisStakes :
        /\ num_users = NumUsers
        /\ funds = create_fund(<<>>, u, Active, stake)
        /\ total_delegation_cap = cap_if_necessary(0, funds)
        /\ bootstrap_mode = FALSE
        /\ auction_stake = stake

Init ==
    /\ Deployed \/ UpgradedGenesis
    /\ user_rewards = [u \in Users |-> [reward_checkpoint |-> 0,
                                        unclaimed_rewards |-> 0]]
    /\ service_fee \in Fees
    /\ min_stake \in MinimumStakes
    /\ n_blocks_before_unbond \in UnBondPeriods
    /\ global_op = NoGlobalOp
    /\ dust_cleanup_checkpoint = 0
    /\ block_nonce = 0
    /\ total_rewards = 0
    /\ sent_rewards = 0
    /\ sc_balance = 0
    /\ off = {}

UserNext ==
    \E u \in Users :
        \/ \E payment \in Payments : stake_endpoint(u, payment)
        \/ \E amount \in Withdrawals : unstake_endpoint(u, amount)
        \/ \E gas \in GasLimits : unbond_user(u, gas)
        \/ claim_rewards(u)

OwnerNext ==
    \/ \E gas \in GasLimits :
          \/ \E cap \in Caps : modify_total_delegation_cap(cap, gas)
          \/ \E fee \in Fees : set_service_fee_endpoint(fee, gas)
          \/ continue_global_operation_endpoint(gas)
          \/ \E limit \in DustLimits : dust_cleanup_waiting_list(limit, gas)
          \/ \E limit \in DustLimits : dust_cleanup_active(limit, gas)
    \/ \E amount \in MinimumStakes : set_minimum_stake_endpoint(amount)
    \/ \E n \in UnBondPeriods : set_n_blocks_before_unbond_endpoint(n)
    \/ \E name \in Switches : OwnerSwitches(name)
    \/ \E amount \in NodeStakes : stake_nodes(amount)
    \/ upgrade

EnvironmentNext ==
    \/ AuctionPaysBack
    \/ \E amount \in Rewards : RewardsArrive(amount)
    \/ NextBlock

Next == UserNext \/ OwnerNext \/ EnvironmentNext

Spec == Init /\ [][Next]_vars

-----------------------------------------------------------------------------
(* What user u could withdraw at once by calling unBond.                   *)
withdrawable(u) ==
    sum_of(funds, { id \in of_user(funds, u) :
        \/ funds[id].fund_desc.type = "WithdrawOnly"
        \/ /\ funds[id].fund_desc.type = "DeferredPayment"
           /\ due(funds[id].fund_desc, n_blocks_before_unbond, block_nonce) })

(***************************************************************************)
(* Fairness.  Anybody may call continueGlobalOperation and pay for one     *)
(* more loop iteration, every delegator may call unBond with gas for all   *)
(* of their items, and blocks are produced.  The first two are weak        *)
(* fairness with the condition under which the call succeeds and changes   *)
(* the state spelled out, which TLC evaluates much faster than ENABLED.    *)
(***************************************************************************)
ContinueWithGas ==
    \E gas \in GasLimits \ {0} : continue_global_operation_endpoint(gas)

succeeds_with_progress(r) ==
    r.ok /\ <<r.op, r.funds, r.rewards>> # <<global_op, funds, user_rewards>>

can_continue ==
    /\ feature_on("continueGlobalOperation")
    /\ \E gas \in GasLimits \ {0} :
          \/ /\ global_op.op = "ModifyTotalDelegationCap"
             /\ succeeds_with_progress(cap_steps(global_op, gas))
          \/ /\ global_op.op = "ChangeServiceFee"
             /\ succeeds_with_progress(service_fee_steps(global_op, gas))

UnBondAll(u) == unbond_user(u, Max(GasLimits))

can_unbond(u) == /\ not_paused
                 /\ u <= num_users
                 /\ withdrawable(u) \in 1 .. sc_balance

Fairness ==
    /\ WF_vars(NextBlock)
    /\ []<>(~ can_continue) \/ []<><<ContinueWithGas>>_vars
    /\ \A u \in Users : []<>(~ can_unbond(u)) \/ []<><<UnBondAll(u)>>_vars

FairSpec == Spec /\ Fairness

-----------------------------------------------------------------------------
FundItem ==
    [user_id : Users,
     fund_desc : [type : FundType, created : 0 .. NonceBound],
     balance : 1 .. DepositBound]

Checkpoints ==
    [op : {"None", "ModifyTotalDelegationCap", "ChangeServiceFee"},
     step : {"ComputeAllRewards", "SwapWaitingToActive",
             "SwapUnstakedToDeferredPayment", "SwapActiveToDeferredPayment"},
     new_value : Nat, waiting_to_active : Nat, unstaked_to_def_p : Nat,
     active_to_def_p : Nat, last_id : 0 .. NumUsers, sum_unclaimed : Nat,
     rewards_checkpoint : 0 .. RewardBound]

(* Every BigUint is a natural, every stored item has a balance, and the    *)
(* global operation is never stored past its last step.                    *)
TypeOK ==
    /\ num_users \in Users
    /\ \A id \in 1 .. Len(funds) : funds[id] \in FundItem
    /\ user_rewards \in [Users -> [reward_checkpoint : 0 .. RewardBound,
                                   unclaimed_rewards : 0 .. RewardBound]]
    /\ total_delegation_cap \in Nat
    /\ bootstrap_mode \in BOOLEAN
    /\ service_fee \in Fees
    /\ min_stake \in MinimumStakes
    /\ n_blocks_before_unbond \in UnBondPeriods
    /\ global_op \in Checkpoints
    /\ dust_cleanup_checkpoint \in {GoneId} \cup 0 .. Len(funds)
    /\ block_nonce \in 0 .. NonceBound
    /\ total_rewards \in 0 .. RewardBound
    /\ sent_rewards \in Nat
    /\ sc_balance \in Nat
    /\ auction_stake \in Nat
    /\ off \subseteq Switches

(* What all delegators together can claim was received as rewards and not  *)
(* paid yet: the rounding of load_updated_user_rewards, the checkpoints of *)
(* users that became active later and the changes of cap and fee never     *)
(* promise a reward twice.  It is what keeps the remainder of              *)
(* compute_all_rewards from underflowing.                                  *)
RewardsCovered ==
    ~ is_global_op_in_progress =>
        get_total_unclaimed_rewards + sent_rewards <= total_rewards

(* Once compute_all_rewards is done, everybody's rewards are computed up   *)
(* to the same point and every reward up to there has an owner, whatever   *)
(* arrived while it was interrupted ("the computation must be restarted"). *)
RewardsSettledBeforeSwap ==
    is_global_op_in_progress /\ global_op.step # "ComputeAllRewards" =>
        LET settled == user_rewards[OWNER_USER_ID].reward_checkpoint
        IN  /\ \A u \in 1 .. num_users :
                    user_rewards[u].reward_checkpoint = settled
            /\ unclaimed_to(user_rewards, num_users) + sent_rewards = settled

(* What a delegator cannot lose any more: all that is claimable, but while *)
(* a change of cap swaps funds, only what was stored before it did.        *)
secured_rewards(u) ==
    IF is_global_op_in_progress /\ global_op.step # "ComputeAllRewards"
    THEN user_rewards[u].unclaimed_rewards
    ELSE get_claimable_rewards(u)

(* Rewards are computed before what they depend on changes: whatever a     *)
(* delegator can claim, until a global operation starts to swap funds, is  *)
(* his until it is paid out, through that operation's interruptions and    *)
(* any change of cap, fee or stake.  Rewards that arrive between two swaps *)
(* are not covered: get_claimable_rewards divides them by the old cap, the *)
(* operation then sets the new one without another compute_all_rewards.    *)
ClaimableNeverLost ==
    [][\A u \in Users :
          secured_rewards(u)' < secured_rewards(u) =>
              /\ sent_rewards' = sent_rewards + secured_rewards(u)
              /\ \A v \in Users \ {u} :
                    secured_rewards(v)' >= secured_rewards(v)]_vars

(* The stake of a user, summed over all fund types, changes only by EGLD   *)
(* that this transaction receives from or pays to that user: unstaking,    *)
(* global operations and dust cleanups only relabel funds.                 *)
StakeMovesOnlyWithEGLD ==
    [][\A u \in Users :
          stake_of(u)' # stake_of(u) =>
              /\ sc_balance' - sc_balance = stake_of(u)' - stake_of(u)
              /\ \A v \in Users \ {u} : stake_of(v)' = stake_of(v)]_vars

(* Funds that reached the end of the unbonding period stay withdrawable    *)
(* until paid, whatever coalesces with them, unless the owner changes the  *)
(* period.                                                                 *)
WithdrawableUntilPaid ==
    [][\A u \in Users :
          \/ withdrawable(u)' >= withdrawable(u)
          \/ sc_balance' = sc_balance - (withdrawable(u) - withdrawable(u)')
          \/ n_blocks_before_unbond' # n_blocks_before_unbond]_vars

(* Funds of user u whose unbond period is over, in exact arithmetic.  What *)
(* a period does that is set so long that the sum wraps is left open.      *)
matured(u) ==
    sum_of(funds, { id \in of_user(funds, u) :
        LET end == funds[id].fund_desc.created + n_blocks_before_unbond
        IN  \/ funds[id].fund_desc.type = "WithdrawOnly"
            \/ /\ funds[id].fund_desc.type = "DeferredPayment"
               /\ end >= U64 \/ block_nonce >= end })

(* What user u asked to have back at block b or before, and waits for.     *)
waiting_since(u, b) ==
    sum_of(funds, { id \in of_user(funds, u) :
        /\ funds[id].fund_desc.type \in {"UnStaked", "DeferredPayment"}
        /\ funds[id].fund_desc.created <= b })

(* Nobody is paid before the unbond period is over, counted from the block *)
(* in which the funds were unstaked: no conversion or coalescing on the    *)
(* way makes funds older than they are.  Only stake that a dust cleanup    *)
(* sweeps starts with the age of block 0.                                  *)
PaidOnlyWhenDue ==
    [][\A u \in Users :
          /\ stake_of(u) - stake_of(u)' <= matured(u)
          /\ \A b \in 0 .. block_nonce - 1 :
                \/ waiting_since(u, b)' <= waiting_since(u, b)
                \/ \E limit \in DustLimits, gas \in GasLimits :
                       dust_cleanup_active(limit, gas)]_vars

(* An interrupted global operation, which blocks staking and claiming for  *)
(* everybody, is eventually completed.                                     *)
GlobalOpCompletes == is_global_op_in_progress ~> ~ is_global_op_in_progress

(* A deferred payment that falls due is eventually paid: the money is      *)
(* there, whatever part of the stake is lent to the auction contract, and  *)
(* no global operation blocks unBond.                                      *)
DeferredIsPaid ==
    \A u \in Users : withdrawable(u) > 0 ~> withdrawable(u) = 0

(* "cannot have waiting + active stake less than minimum stake": what      *)
(* unStake leaves a delegator with is nothing or at least the minimum, as  *)
(* long as the owner changes neither the cap nor the minimum.              *)
UserMinimumStake ==
    \A u \in Users :
        get_unstakeable(u) = 0 \/ get_unstakeable(u) >= min_stake

L == INSTANCE Ledger WITH
        total_waiting  <- total_of_type(funds, "Waiting"),
        total_active   <- total_of_type(funds, "Active"),
        total_unstaked <- total_of_type(funds, "UnStaked"),
        total_deferred <- total_of_type(funds, "DeferredPayment"),
        total_withdraw <- total_of_type(funds, "WithdrawOnly"),
        global_op <- global_op.op,
        returned_fines <- 0,            \* no unJailNodes here, see NodeFunds
        Fines <- {},
        FineBound <- 0,
        new_delegation_cap <-
            IF global_op.op = "ModifyTotalDelegationCap"
            THEN global_op.new_value ELSE 0,
        remaining_swap_waiting_to_active <- global_op.waiting_to_active,
        remaining_swap_unstaked_to_def_p <- global_op.unstaked_to_def_p,
        remaining_swap_active_to_def_p <- global_op.active_to_def_p

(* The contract with its users, items, rewards and interruptions keeps     *)
(* every promise of the ledger: each transaction maps to one of its steps. *)
RefinesLedger == L!Spec

(* What the ledger proves of itself, on the contract's own state.          *)
Solvency == L!Solvency
DelegationCapInvariant == L!DelegationCapInvariant
=============================================================================
