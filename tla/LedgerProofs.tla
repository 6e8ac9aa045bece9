---------------------------- MODULE LedgerProofs ----------------------------
(***************************************************************************)
(* The money invariants of the delegation contract, for every set of       *)
(* payments, caps and rewards.  IInv (Ledger.tla) is inductive: the proof  *)
(* takes the endpoints one by one.                                         *)
(***************************************************************************)
EXTENDS Ledger, TLAPS

(* The contract as init leaves it satisfies the inductive invariant.       *)
LEMMA InitIInv == Init => IInv
  <1> SUFFICES ASSUME Init PROVE IInv
    OBVIOUS
  <1>1. CASE Deployed
    BY <1>1, AmountAssumption
    DEF Init, Deployed, IInv, TypeOK, Conservation, BootstrapShape,
        AuctionCovered, lendable, NeverOverAndUnderstaked, GlobalOpShape,
        GlobalOpCanFinish, GlobalOps, StakeReachesCap, stake_after_op,
        cap_after_op, total_stake, is_global_op_in_progress
  <1>2. CASE UpgradedGenesis
    <2>1. /\ total_active \in Nat /\ total_unstaked \in Nat
          /\ total_delegation_cap = total_active + total_unstaked
          /\ auction_stake = total_active + total_unstaked
          /\ bootstrap_mode = FALSE
      BY <1>2, AmountAssumption
      DEF UpgradedGenesis, update_total_delegation_cap_if_necessary
    <2>2. /\ total_waiting = 0 /\ total_deferred = 0 /\ total_withdraw = 0
          /\ global_op = "None" /\ new_delegation_cap = 0
          /\ remaining_swap_waiting_to_active = 0
          /\ remaining_swap_unstaked_to_def_p = 0
          /\ remaining_swap_active_to_def_p = 0
          /\ total_rewards = 0 /\ sent_rewards = 0
          /\ sc_balance = 0 /\ returned_fines = 0
      BY DEF Init
    <2>3. bootstrap_mode \in BOOLEAN
      BY <2>1
    <2>4. auction_stake \in Nat /\ total_delegation_cap \in Nat
      BY <2>1
    <2>5. TypeOK
      BY <2>1, <2>2, <2>3, <2>4 DEF TypeOK, GlobalOps
    <2> QED
      BY <2>1, <2>2, <2>5
      DEF IInv, Conservation, BootstrapShape, AuctionCovered, lendable,
          NeverOverAndUnderstaked, GlobalOpShape, GlobalOpCanFinish,
          StakeReachesCap, stake_after_op, cap_after_op, total_stake
  <1> QED BY <1>1, <1>2 DEF Init

(* use_waiting_to_replace_unstaked preserves IInv when it is applied to    *)
(* totals in which u - total_unstaked has left the active funds, whatever  *)
(* was deposited into or withdrawn from the waiting ones.                  *)
LEMMA UseWaitingKeepsIInv ==
  ASSUME IInv, ~ is_global_op_in_progress,
         NEW w \in Nat, NEW a \in Nat, NEW u \in Nat,
         a = total_active + total_unstaked - u,
         u >= total_unstaked,
         bootstrap_mode /\ w > 0 => total_active < total_delegation_cap,
         use_waiting_to_replace_unstaked(w, a, u, total_deferred),
         total_withdraw' \in Nat, sc_balance' \in Nat,
         sc_balance' = sc_balance + total_withdraw' + w
                       - total_withdraw - total_waiting,
         UNCHANGED <<total_delegation_cap, opVars, total_rewards,
                     sent_rewards, auction_stake, returned_fines>>
  PROVE  IInv'
  <1>1. /\ total_waiting \in Nat /\ total_active \in Nat
        /\ total_unstaked \in Nat /\ total_deferred \in Nat
        /\ total_withdraw \in Nat /\ total_delegation_cap \in Nat
        /\ total_rewards \in Nat /\ sent_rewards \in Nat
        /\ sc_balance \in Nat /\ auction_stake \in Nat
        /\ returned_fines \in Nat
        /\ bootstrap_mode \in BOOLEAN /\ new_delegation_cap \in Nat
    BY DEF IInv, TypeOK
  <1>2. /\ global_op = "None" /\ UNCHANGED opVars
        /\ remaining_swap_waiting_to_active = 0
        /\ remaining_swap_unstaked_to_def_p = 0
        /\ remaining_swap_active_to_def_p = 0
    BY DEF IInv, GlobalOpShape, is_global_op_in_progress
  <1>3. CASE bootstrap_mode /\ total_delegation_cap - a <= w
    <2>1. /\ total_delegation_cap >= a
          /\ total_waiting' = w - (total_delegation_cap - a)
          /\ total_active' = total_delegation_cap
          /\ total_unstaked' = 0
          /\ total_deferred' = total_deferred + u
          /\ bootstrap_mode' = FALSE
      BY <1>1, <1>3 DEF use_waiting_to_replace_unstaked, min
    <2>2. total_waiting' \in Nat /\ total_active' \in Nat
          /\ total_unstaked' \in Nat /\ total_deferred' \in Nat
      BY <1>1, <1>3, <2>1
    <2>3. bootstrap_mode' \in BOOLEAN
      BY <1>1, <2>1
    <2>4. TypeOK'
      BY <1>1, <1>2, <2>2, <2>3 DEF IInv, TypeOK, opVars
    <2> QED
      BY <1>1, <1>2, <1>3, <2>1, <2>4
      DEF IInv, Conservation, total_stake, BootstrapShape, AuctionCovered, lendable,
          NeverOverAndUnderstaked, GlobalOpShape, GlobalOpCanFinish,
          StakeReachesCap, stake_after_op, cap_after_op,
          is_global_op_in_progress, opVars
  <1>4. CASE bootstrap_mode /\ ~ (total_delegation_cap - a <= w)
    <2>1. /\ total_waiting' = 0
          /\ total_active' = a + w
          /\ total_unstaked' = 0
          /\ total_deferred' = total_deferred + u
          /\ bootstrap_mode' = bootstrap_mode
      <3>1. /\ min(total_delegation_cap - a, w) = w
            /\ w # total_delegation_cap - a
            /\ w - w = 0
        BY <1>1, <1>4 DEF min
      <3> QED
        BY <1>1, <1>4, <3>1 DEF use_waiting_to_replace_unstaked
    <2>2. total_waiting' \in Nat /\ total_active' \in Nat
          /\ total_unstaked' \in Nat /\ total_deferred' \in Nat
      BY <1>1, <1>4, <2>1
    <2>3. bootstrap_mode' \in BOOLEAN
      BY <1>1, <2>1
    <2>4. TypeOK'
      BY <1>1, <1>2, <2>2, <2>3 DEF IInv, TypeOK, opVars
    <2> QED
      BY <1>1, <1>2, <1>4, <2>1, <2>4
      DEF IInv, Conservation, total_stake, BootstrapShape, AuctionCovered, lendable,
          NeverOverAndUnderstaked, GlobalOpShape, GlobalOpCanFinish,
          StakeReachesCap, stake_after_op, cap_after_op,
          is_global_op_in_progress, opVars
  <1>5. CASE ~ bootstrap_mode /\ w <= u
    <2>1. /\ total_waiting' = 0
          /\ total_active' = a + w
          /\ total_unstaked' = u - w
          /\ total_deferred' = total_deferred + w
          /\ bootstrap_mode' = bootstrap_mode
      BY <1>1, <1>5 DEF use_waiting_to_replace_unstaked, min
    <2>2. total_waiting' \in Nat /\ total_active' \in Nat
          /\ total_unstaked' \in Nat /\ total_deferred' \in Nat
      BY <1>1, <1>5, <2>1
    <2>3. bootstrap_mode' \in BOOLEAN
      BY <1>1, <2>1
    <2>4. TypeOK'
      BY <1>1, <1>2, <2>2, <2>3 DEF IInv, TypeOK, opVars
    <2> QED
      BY <1>1, <1>2, <1>5, <2>1, <2>4
      DEF IInv, Conservation, total_stake, BootstrapShape, AuctionCovered, lendable,
          NeverOverAndUnderstaked, GlobalOpShape, GlobalOpCanFinish,
          StakeReachesCap, stake_after_op, cap_after_op,
          is_global_op_in_progress, opVars
  <1>6. CASE ~ bootstrap_mode /\ ~ (w <= u)
    <2>1. /\ total_waiting' = w - u
          /\ total_active' = a + u
          /\ total_unstaked' = 0
          /\ total_deferred' = total_deferred + u
          /\ bootstrap_mode' = bootstrap_mode
      BY <1>1, <1>6 DEF use_waiting_to_replace_unstaked, min
    <2>2. total_waiting' \in Nat /\ total_active' \in Nat
          /\ total_unstaked' \in Nat /\ total_deferred' \in Nat
      BY <1>1, <1>6, <2>1
    <2>3. bootstrap_mode' \in BOOLEAN
      BY <1>1, <2>1
    <2>4. TypeOK'
      BY <1>1, <1>2, <2>2, <2>3 DEF IInv, TypeOK, opVars
    <2> QED
      BY <1>1, <1>2, <1>6, <2>1, <2>4
      DEF IInv, Conservation, total_stake, BootstrapShape, AuctionCovered, lendable,
          NeverOverAndUnderstaked, GlobalOpShape, GlobalOpCanFinish,
          StakeReachesCap, stake_after_op, cap_after_op,
          is_global_op_in_progress, opVars
  <1> QED BY <1>3, <1>4, <1>5, <1>6

(* Running a cap change, whether it was just requested or was stored by an *)
(* earlier transaction, preserves IInv if the lists hold what is left to   *)
(* swap and the swaps end with the stake at the new cap.                   *)
LEMMA ContinueKeepsIInv ==
  ASSUME IInv,
         NEW c \in Nat, NEW w2a \in Nat, NEW u2d \in Nat, NEW a2d \in Nat,
         w2a <= total_waiting, u2d <= total_unstaked,
         \/ a2d <= total_active
         \/ /\ returned_fines > 0
            /\ total_active + total_unstaked + w2a - u2d - a2d < c,
         auction_stake <= total_active + total_unstaked + returned_fines
                          - u2d - a2d,
         total_active + total_unstaked + w2a - u2d - a2d <= c,
         ~ ExactBootstrapCap =>
            c = total_active + total_unstaked + w2a - u2d - a2d,
         continue_modify_cap(c, w2a, u2d, a2d),
         bootstrap_mode' = FALSE
  PROVE  IInv'
  <1>1. /\ total_waiting \in Nat /\ total_active \in Nat
        /\ total_unstaked \in Nat /\ total_deferred \in Nat
        /\ total_withdraw \in Nat /\ total_delegation_cap \in Nat
        /\ total_rewards \in Nat /\ sent_rewards \in Nat
        /\ sc_balance \in Nat /\ auction_stake \in Nat
        /\ returned_fines \in Nat
    BY DEF IInv, TypeOK
  <1>2. PICK x \in 0 .. min(w2a, total_waiting),
             y \in 0 .. min(u2d, total_unstaked),
             z \in 0 .. min(a2d, total_active) :
          swap_some(c, w2a, u2d, a2d, x, y, z)
    BY DEF continue_modify_cap
  <1>3. /\ x \in Nat /\ x <= w2a /\ x <= total_waiting
        /\ y \in Nat /\ y <= u2d /\ y <= total_unstaked
        /\ z \in Nat /\ z <= a2d /\ z <= total_active
    BY <1>1 DEF min
  <1>4. /\ total_waiting'  = total_waiting - x
        /\ total_active'   = total_active + x - z
        /\ total_unstaked' = total_unstaked - y
        /\ total_deferred' = total_deferred + y + z
        /\ UNCHANGED <<total_withdraw, total_rewards, sent_rewards,
                       sc_balance, auction_stake, returned_fines>>
    BY <1>2 DEF swap_some, money
  <1>5. bootstrap_mode' \in BOOLEAN
    OBVIOUS
  <1>6. CASE x = w2a /\ y = u2d /\ z = a2d
    <2>1. /\ total_delegation_cap' = c
          /\ global_op' = "None"
          /\ new_delegation_cap' = 0
          /\ remaining_swap_waiting_to_active' = 0
          /\ remaining_swap_unstaked_to_def_p' = 0
          /\ remaining_swap_active_to_def_p' = 0
      BY <1>2, <1>6 DEF swap_some, set_global_op
    <2>2. TypeOK'
      BY <1>1, <1>3, <1>4, <1>5, <2>1 DEF TypeOK, GlobalOps
    <2> QED
      BY <1>1, <1>3, <1>4, <1>6, <2>1, <2>2
      DEF IInv, Conservation, total_stake, BootstrapShape, AuctionCovered, lendable,
          NeverOverAndUnderstaked, GlobalOpShape, GlobalOpCanFinish,
          StakeReachesCap, stake_after_op, cap_after_op,
          is_global_op_in_progress
  <1>7. CASE ~ (x = w2a /\ y = u2d /\ z = a2d)
    <2>1. /\ total_delegation_cap' = total_delegation_cap
          /\ global_op' = "ModifyTotalDelegationCap"
          /\ new_delegation_cap' = c
          /\ remaining_swap_waiting_to_active' = w2a - x
          /\ remaining_swap_unstaked_to_def_p' = u2d - y
          /\ remaining_swap_active_to_def_p' = a2d - z
      BY <1>2, <1>7 DEF swap_some, set_global_op
    <2>2. TypeOK'
      BY <1>1, <1>3, <1>4, <1>5, <2>1 DEF TypeOK, GlobalOps
    <2> QED
      BY <1>1, <1>3, <1>4, <1>7, <2>1, <2>2
      DEF IInv, Conservation, total_stake, BootstrapShape, AuctionCovered, lendable,
          NeverOverAndUnderstaked, GlobalOpShape, GlobalOpCanFinish,
          StakeReachesCap, stake_after_op, cap_after_op,
          is_global_op_in_progress
  <1> QED BY <1>6, <1>7

-----------------------------------------------------------------------------
(* Every endpoint called by a delegator preserves IInv.                    *)
LEMMA UserStepKeepsIInv == IInv /\ UserNext => IInv'
  <1> SUFFICES ASSUME IInv, UserNext PROVE IInv'
    OBVIOUS
  <1>1. TypeOK
    BY DEF IInv
  <1>2. CASE \E payment \in Payments : stake_endpoint(payment)
    <2>1. PICK payment \in Payments : stake_endpoint(payment)
      BY <1>2
    <2>2. payment \in Nat
      BY AmountAssumption
    <2>3. bootstrap_mode => total_active < total_delegation_cap
      BY <1>1, <2>1 DEF TypeOK, stake_endpoint, delegation_cap_holds, IInv,
                        BootstrapShape
    <2>4. /\ sc_balance' = sc_balance + total_withdraw'
                + (total_waiting + payment) - total_withdraw - total_waiting
          /\ sc_balance' \in Nat /\ total_withdraw' \in Nat
          /\ total_waiting + payment \in Nat
          /\ total_active = total_active + total_unstaked - total_unstaked
      BY <1>1, <2>1, <2>2 DEF TypeOK, stake_endpoint
    <2> QED
      BY <1>1, <2>1, <2>3, <2>4, UseWaitingKeepsIInv
      DEF TypeOK, stake_endpoint
  <1>3. CASE \E w \in 0 .. total_waiting, a \in 0 .. total_active :
                unstake_endpoint(w, a)
    <2>1. PICK w \in 0 .. total_waiting, a \in 0 .. total_active :
                unstake_endpoint(w, a)
      BY <1>3
    <2>2. /\ w \in Nat /\ total_waiting - w \in Nat
          /\ a \in Nat /\ total_active - a \in Nat
          /\ total_unstaked + a \in Nat
          /\ total_unstaked + a >= total_unstaked
          /\ total_active - a = total_active + total_unstaked
                                - (total_unstaked + a)
      BY <1>1 DEF TypeOK
    <2>3. /\ total_withdraw' = total_withdraw + w
          /\ UNCHANGED <<total_delegation_cap, opVars, total_rewards,
                         sent_rewards, sc_balance, auction_stake,
                         returned_fines>>
          /\ ~ is_global_op_in_progress
      BY <2>1 DEF unstake_endpoint, money
    <2>4. CASE a = 0
      <3>1. /\ total_waiting' = total_waiting - w
            /\ UNCHANGED <<total_active, total_unstaked, total_deferred,
                           bootstrap_mode>>
        BY <2>1, <2>4 DEF unstake_endpoint
      <3>2. TypeOK'
        BY <1>1, <2>2, <2>3, <3>1 DEF TypeOK, opVars
      <3> QED
        BY <1>1, <2>2, <2>3, <3>1, <3>2
        DEF IInv, TypeOK, Conservation, total_stake, BootstrapShape,
            AuctionCovered, lendable, NeverOverAndUnderstaked, GlobalOpShape,
            GlobalOpCanFinish, StakeReachesCap, stake_after_op, cap_after_op,
            is_global_op_in_progress, opVars
    <2>5. CASE a # 0
      <3>1. use_waiting_to_replace_unstaked(total_waiting - w,
                total_active - a, total_unstaked + a, total_deferred)
        BY <2>1, <2>5 DEF unstake_endpoint
      <3>2. ~ (bootstrap_mode /\ total_waiting - w > 0)
        BY <1>1, <2>2 DEF IInv, BootstrapShape, TypeOK
      <3>3. /\ sc_balance' = sc_balance + total_withdraw'
                  + (total_waiting - w) - total_withdraw - total_waiting
            /\ sc_balance' \in Nat /\ total_withdraw' \in Nat
        BY <1>1, <2>2, <2>3 DEF TypeOK
      <3> QED
        BY <2>2, <2>3, <3>1, <3>2, <3>3, UseWaitingKeepsIInv
    <2> QED BY <2>4, <2>5
  <1>4. CASE \E eligible \in 0 .. total_deferred,
                amount \in 0 .. total_withdraw + total_deferred :
                   unbond_user(eligible, amount)
    <2>1. PICK eligible \in 0 .. total_deferred,
               amount \in 0 .. total_withdraw + total_deferred :
                   unbond_user(eligible, amount)
      BY <1>4
    <2>2. /\ eligible \in Nat /\ eligible <= total_deferred
          /\ amount \in Nat
          /\ amount <= total_withdraw + eligible /\ amount <= sc_balance
      BY <1>1, <2>1 DEF TypeOK, unbond_user
    <2>3. TypeOK'
      BY <1>1, <2>1, <2>2 DEF TypeOK, unbond_user, capVars, opVars
    <2> QED
      BY <1>1, <2>1, <2>2, <2>3
      DEF IInv, TypeOK, unbond_user, Conservation, total_stake,
          BootstrapShape, AuctionCovered, lendable, NeverOverAndUnderstaked,
          GlobalOpShape, GlobalOpCanFinish, StakeReachesCap, stake_after_op,
          cap_after_op, is_global_op_in_progress, capVars, opVars
  <1>5. CASE \E amount \in 0 .. total_rewards : claim_rewards(amount)
    <2>1. PICK amount \in 0 .. total_rewards : claim_rewards(amount)
      BY <1>5
    <2>2. /\ amount \in Nat /\ amount <= total_rewards - sent_rewards
          /\ amount <= sc_balance
      BY <1>1, <2>1 DEF TypeOK, claim_rewards
    <2>3. TypeOK'
      BY <1>1, <2>1, <2>2 DEF TypeOK, claim_rewards, capVars, opVars, stakes
    <2> QED
      BY <1>1, <2>1, <2>2, <2>3
      DEF IInv, TypeOK, claim_rewards, Conservation, total_stake,
          BootstrapShape, AuctionCovered, lendable, NeverOverAndUnderstaked,
          GlobalOpShape, GlobalOpCanFinish, StakeReachesCap, stake_after_op,
          cap_after_op, is_global_op_in_progress, capVars, opVars, stakes
  <1> QED BY <1>2, <1>3, <1>4, <1>5 DEF UserNext

(* modifyTotalDelegationCap preserves IInv: each of its four outcomes      *)
(* meets the conditions under which a cap change can be run.               *)
LEMMA ModifyCapKeepsIInv ==
  ASSUME IInv, NEW c \in Caps, modify_total_delegation_cap(c)
  PROVE  IInv'
  <1>1. TypeOK /\ c \in Nat /\ ~ is_global_op_in_progress
    BY AmountAssumption DEF IInv, modify_total_delegation_cap
  <1>2. /\ remaining_swap_waiting_to_active = 0
        /\ remaining_swap_unstaked_to_def_p = 0
        /\ remaining_swap_active_to_def_p = 0
        /\ global_op = "None"
    BY <1>1 DEF IInv, GlobalOpShape, is_global_op_in_progress
  <1>3. /\ total_active + total_unstaked <= total_delegation_cap
        /\ auction_stake <= total_active + total_unstaked + returned_fines
        /\ ~ ExactBootstrapCap /\ ~ bootstrap_mode =>
               total_delegation_cap = total_active + total_unstaked
        /\ total_unprotected = total_active + total_unstaked + returned_fines
                               - auction_stake
    BY <1>1, <1>2 DEF IInv, TypeOK, StakeReachesCap, stake_after_op,
        cap_after_op, AuctionCovered, lendable, Conservation, total_stake,
        total_unprotected
  <1>4. CASE /\ bootstrap_mode
             /\ c > total_active + total_waiting + total_unstaked
             /\ total_delegation_cap' = c
             /\ UNCHANGED <<stakes, bootstrap_mode, opVars, money>>
    <2>1. TypeOK'
      BY <1>1, <1>4 DEF TypeOK, stakes, opVars, money
    <2> QED
      BY <1>1, <1>2, <1>4, <2>1
      DEF IInv, TypeOK, Conservation, total_stake, BootstrapShape,
          AuctionCovered, lendable, NeverOverAndUnderstaked, GlobalOpShape,
          GlobalOpCanFinish, StakeReachesCap, stake_after_op, cap_after_op,
          is_global_op_in_progress, opVars, stakes, money
  <1>5. CASE /\ ExactBootstrapCap
             /\ bootstrap_mode' = FALSE
             /\ UNCHANGED <<stakes, total_delegation_cap, opVars, money>>
    <2>1. TypeOK'
      BY <1>1, <1>5 DEF TypeOK, stakes, opVars, money
    <2> QED
      BY <1>1, <1>2, <1>5, <2>1
      DEF IInv, TypeOK, Conservation, total_stake, BootstrapShape,
          AuctionCovered, lendable, NeverOverAndUnderstaked, GlobalOpShape,
          GlobalOpCanFinish, StakeReachesCap, stake_after_op, cap_after_op,
          is_global_op_in_progress, opVars, stakes, money
  <1>6. ASSUME NEW p \in Nat, c < p, lower_cap(c, p), bootstrap_mode' = FALSE,
               total_active + total_unstaked <= p,
               ~ ExactBootstrapCap => p = total_active + total_unstaked
        PROVE  IInv'
    <2> DEFINE u2d == min(p - c, total_unstaked)
               a2d == (p - c) - u2d
    <2>1. /\ u2d \in Nat /\ u2d <= total_unstaked
          /\ u2d <= p - c
          /\ u2d = total_unstaked \/ u2d = p - c
      BY <1>1, <1>6 DEF TypeOK, min
    <2> HIDE DEF u2d
    <2>2. p - c <= total_active + total_unstaked + returned_fines
                   - auction_stake
      BY <1>3, <1>6 DEF lower_cap
    <2>3. continue_modify_cap(c, 0, u2d, a2d)
      BY <1>6 DEF lower_cap, u2d
    <2>4. /\ a2d \in Nat
          /\ \/ a2d <= total_active
             \/ /\ returned_fines > 0
                /\ total_active + total_unstaked + 0 - u2d - a2d < c
          /\ auction_stake <= total_active + total_unstaked + returned_fines
                              - u2d - a2d
          /\ total_active + total_unstaked + 0 - u2d - a2d <= c
          /\ ~ ExactBootstrapCap =>
                c = total_active + total_unstaked + 0 - u2d - a2d
          /\ 0 \in Nat /\ 0 <= total_waiting
      BY <1>1, <1>6, <2>1, <2>2 DEF TypeOK
    <2> HIDE DEF a2d
    <2> QED
      BY <1>1, <1>6, <2>1, <2>3, <2>4, ContinueKeepsIInv
  <1>7. CASE /\ bootstrap_mode
             /\ c < total_active + total_waiting + total_unstaked
             /\ lower_cap(c, total_active + total_waiting + total_unstaked)
             /\ bootstrap_mode' = FALSE
    <2>1. total_active + total_waiting + total_unstaked \in Nat
      BY <1>1 DEF TypeOK
    <2>2. /\ total_active + total_unstaked
                <= total_active + total_waiting + total_unstaked
          /\ total_active + total_waiting + total_unstaked
                = total_active + total_unstaked
      BY <1>1, <1>7 DEF TypeOK, IInv, BootstrapShape
    <2> QED BY <1>6, <1>7, <2>1, <2>2
  <1>8. CASE ~ bootstrap_mode /\ c = total_delegation_cap
             /\ UNCHANGED <<stakes, total_delegation_cap, opVars, money>>
             /\ UNCHANGED bootstrap_mode
    BY <1>1, <1>8
    DEF IInv, TypeOK, Conservation, total_stake, BootstrapShape,
        AuctionCovered, lendable, NeverOverAndUnderstaked, GlobalOpShape,
        GlobalOpCanFinish, StakeReachesCap, stake_after_op, cap_after_op,
        is_global_op_in_progress, opVars, stakes, money
  <1>9. CASE /\ ~ bootstrap_mode
             /\ c <= total_active + total_waiting + total_unstaked
             /\ c > total_delegation_cap
             /\ raise_cap(c, total_delegation_cap)
             /\ UNCHANGED bootstrap_mode
    <2> DEFINE w2a == c - total_delegation_cap
    <2>1. total_unstaked = 0 /\ continue_modify_cap(c, w2a, 0, 0)
      BY <1>9 DEF raise_cap
    <2>2. /\ w2a \in Nat /\ w2a <= total_waiting
          /\ 0 \in Nat /\ 0 <= total_unstaked /\ 0 <= total_active
          /\ auction_stake <= total_active + total_unstaked + returned_fines
                              - 0 - 0
          /\ total_active + total_unstaked + w2a - 0 - 0 <= c
          /\ ~ ExactBootstrapCap =>
                c = total_active + total_unstaked + w2a - 0 - 0
      BY <1>1, <1>3, <1>9, <2>1 DEF TypeOK
    <2>3. bootstrap_mode' = FALSE
      BY <1>1, <1>9 DEF TypeOK
    <2> HIDE DEF w2a
    <2> QED
      BY <1>1, <2>1, <2>2, <2>3, ContinueKeepsIInv
  <1>10. CASE /\ ~ bootstrap_mode
              /\ c < total_delegation_cap
              /\ lower_cap(c, total_delegation_cap)
              /\ UNCHANGED bootstrap_mode
    <2>1. bootstrap_mode' = FALSE /\ total_delegation_cap \in Nat
      BY <1>1, <1>10 DEF TypeOK
    <2> QED BY <1>3, <1>6, <1>10, <2>1
  <1> QED
    BY <1>4, <1>5, <1>7, <1>8, <1>9, <1>10 DEF modify_total_delegation_cap

(* Every other endpoint of the owner preserves IInv.                       *)
LEMMA OwnerStepKeepsIInv == IInv /\ OwnerNext => IInv'
  <1> SUFFICES ASSUME IInv, OwnerNext PROVE IInv'
    OBVIOUS
  <1>1. TypeOK
    BY DEF IInv
  <1>2. CASE \E c \in Caps : modify_total_delegation_cap(c)
    BY <1>2, ModifyCapKeepsIInv
  <1>3. ASSUME continue_change_fee,
               global_op # "ModifyTotalDelegationCap", ~ bootstrap_mode
        PROVE  IInv'
    <2>1. TypeOK'
      BY <1>1, <1>3 DEF TypeOK, continue_change_fee, set_global_op, stakes,
                        money, GlobalOps
    <2> QED
      BY <1>1, <1>3, <2>1
      DEF IInv, TypeOK, continue_change_fee, set_global_op, Conservation,
          total_stake, BootstrapShape, AuctionCovered, lendable,
          NeverOverAndUnderstaked, GlobalOpShape, GlobalOpCanFinish,
          StakeReachesCap, stake_after_op, cap_after_op, stakes, money
  <1>4. CASE set_service_fee_endpoint
    BY <1>3, <1>4 DEF set_service_fee_endpoint, is_global_op_in_progress
  <1>5. CASE continue_global_operation_endpoint
    <2>1. bootstrap_mode = FALSE
      BY <1>1, <1>5 DEF TypeOK, IInv, BootstrapShape,
            is_global_op_in_progress, continue_global_operation_endpoint
    <2>2. CASE global_op = "ChangeServiceFee"
      BY <1>3, <1>5, <2>1, <2>2 DEF continue_global_operation_endpoint
    <2>3. CASE global_op = "ModifyTotalDelegationCap"
      <3>1. /\ continue_modify_cap(new_delegation_cap,
                  remaining_swap_waiting_to_active,
                  remaining_swap_unstaked_to_def_p,
                  remaining_swap_active_to_def_p)
            /\ bootstrap_mode' = FALSE
        BY <1>5, <2>1, <2>3 DEF continue_global_operation_endpoint
      <3> QED
        BY <1>1, <2>1, <2>3, <3>1, ContinueKeepsIInv
        DEF IInv, TypeOK, AuctionCovered, lendable, GlobalOpCanFinish,
            StakeReachesCap, stake_after_op, cap_after_op
    <2> QED BY <1>5, <2>2, <2>3 DEF continue_global_operation_endpoint
  <1>6. CASE \E dust \in 0 .. total_waiting : dust_cleanup_waiting_list(dust)
    <2>1. PICK dust \in 0 .. total_waiting : dust_cleanup_waiting_list(dust)
      BY <1>6
    <2>2. dust \in Nat /\ dust <= total_waiting
      BY <1>1 DEF TypeOK
    <2>3. TypeOK'
      BY <1>1, <2>1, <2>2 DEF TypeOK, dust_cleanup_waiting_list, capVars,
                              opVars, money
    <2> QED
      BY <1>1, <2>1, <2>2, <2>3
      DEF IInv, TypeOK, dust_cleanup_waiting_list, Conservation, total_stake,
          BootstrapShape, AuctionCovered, lendable, NeverOverAndUnderstaked,
          GlobalOpShape, GlobalOpCanFinish, StakeReachesCap, stake_after_op,
          cap_after_op, is_global_op_in_progress, capVars, opVars, money
  <1>7. CASE \E dust \in 0 .. total_active : dust_cleanup_active(dust)
    <2>1. PICK dust \in 0 .. total_active : dust_cleanup_active(dust)
      BY <1>7
    <2>2. /\ dust \in Nat /\ total_active - dust \in Nat
          /\ total_unstaked + dust \in Nat
          /\ total_unstaked + dust >= total_unstaked
          /\ total_active - dust = total_active + total_unstaked
                                   - (total_unstaked + dust)
      BY <1>1 DEF TypeOK
    <2>3. ~ (bootstrap_mode /\ total_waiting > 0)
      BY <1>1 DEF IInv, BootstrapShape, TypeOK
    <2>4. /\ sc_balance' = sc_balance + total_withdraw'
                + total_waiting - total_withdraw - total_waiting
          /\ sc_balance' \in Nat /\ total_withdraw' \in Nat
      BY <1>1, <2>1 DEF TypeOK, dust_cleanup_active, money
    <2> QED
      BY <1>1, <2>1, <2>2, <2>3, <2>4, UseWaitingKeepsIInv
      DEF TypeOK, dust_cleanup_active, money
  <1>8. CASE \E amount \in 0 .. sc_balance : stake_nodes(amount)
    <2>1. PICK amount \in 0 .. sc_balance : stake_nodes(amount)
      BY <1>8
    <2>2. /\ amount \in Nat /\ amount <= sc_balance
          /\ amount <= total_unprotected
      BY <1>1, <2>1 DEF TypeOK, stake_nodes
    <2>3. TypeOK'
      BY <1>1, <2>1, <2>2 DEF TypeOK, stake_nodes, capVars, opVars, stakes
    <2> QED
      BY <1>1, <2>1, <2>2, <2>3
      DEF IInv, TypeOK, stake_nodes, total_unprotected, Conservation,
          total_stake, BootstrapShape, AuctionCovered, lendable,
          NeverOverAndUnderstaked, GlobalOpShape, GlobalOpCanFinish,
          StakeReachesCap, stake_after_op, cap_after_op,
          is_global_op_in_progress, capVars, opVars, stakes
  <1>9. CASE upgrade
    <2>1. /\ UNCHANGED <<stakes, bootstrap_mode, opVars, money>>
          /\ total_delegation_cap' \in Nat
          /\ \/ total_delegation_cap' = total_delegation_cap
             \/ /\ total_delegation_cap = 0
                /\ total_delegation_cap' = total_active + total_unstaked
      BY <1>1, <1>9
      DEF TypeOK, upgrade, update_total_delegation_cap_if_necessary
    <2>2. TypeOK'
      BY <1>1, <2>1 DEF TypeOK, stakes, opVars, money
    <2> QED
      BY <1>1, <2>1, <2>2
      DEF IInv, TypeOK, Conservation, total_stake, BootstrapShape,
          AuctionCovered, lendable, NeverOverAndUnderstaked, GlobalOpShape,
          GlobalOpCanFinish, StakeReachesCap, stake_after_op, cap_after_op,
          is_global_op_in_progress, opVars, stakes, money
  <1> QED
    BY <1>2, <1>4, <1>5, <1>6, <1>7, <1>8, <1>9 DEF OwnerNext

(* Payments from the auction contract and rewards from the protocol may    *)
(* come at any time, also in the middle of a cap change.                   *)
LEMMA EnvironmentStepKeepsIInv == IInv /\ EnvironmentNext => IInv'
  <1> SUFFICES ASSUME IInv, EnvironmentNext PROVE IInv'
    OBVIOUS
  <1>1. TypeOK
    BY DEF IInv
  <1>2. CASE \E amount \in 0 .. auction_stake : AuctionPaysBack(amount)
    <2>1. PICK amount \in 0 .. auction_stake : AuctionPaysBack(amount)
      BY <1>2
    <2>2. amount \in Nat /\ amount <= auction_stake
      BY <1>1 DEF TypeOK
    <2>3. TypeOK'
      BY <1>1, <2>1, <2>2 DEF TypeOK, AuctionPaysBack, capVars, opVars, stakes
    <2> QED
      BY <1>1, <2>1, <2>2, <2>3
      DEF IInv, TypeOK, AuctionPaysBack, Conservation, total_stake,
          BootstrapShape, AuctionCovered, lendable, NeverOverAndUnderstaked,
          GlobalOpShape, GlobalOpCanFinish, StakeReachesCap, stake_after_op,
          cap_after_op, is_global_op_in_progress, capVars, opVars, stakes
  <1>3. CASE \E amount \in Rewards : RewardsArrive(amount)
    <2>1. PICK amount \in Rewards : RewardsArrive(amount)
      BY <1>3
    <2>2. amount \in Nat
      BY AmountAssumption
    <2>3. TypeOK'
      BY <1>1, <2>1, <2>2 DEF TypeOK, RewardsArrive, capVars, opVars, stakes
    <2> QED
      BY <1>1, <2>1, <2>2, <2>3
      DEF IInv, TypeOK, RewardsArrive, Conservation, total_stake,
          BootstrapShape, AuctionCovered, lendable, NeverOverAndUnderstaked,
          GlobalOpShape, GlobalOpCanFinish, StakeReachesCap, stake_after_op,
          cap_after_op, is_global_op_in_progress, capVars, opVars, stakes
  <1>4. CASE \E fine \in Fines : FineComesBack(fine)
    <2>1. PICK fine \in Fines : FineComesBack(fine)
      BY <1>4
    <2>2. fine \in Nat
      BY AmountAssumption
    <2>3. TypeOK'
      BY <1>1, <2>1, <2>2 DEF TypeOK, FineComesBack, capVars, opVars, stakes
    <2> QED
      BY <1>1, <2>1, <2>2, <2>3
      DEF IInv, TypeOK, FineComesBack, Conservation, total_stake,
          BootstrapShape, AuctionCovered, lendable, NeverOverAndUnderstaked,
          GlobalOpShape, GlobalOpCanFinish, StakeReachesCap, stake_after_op,
          cap_after_op, is_global_op_in_progress, capVars, opVars, stakes
  <1> QED BY <1>2, <1>3, <1>4 DEF EnvironmentNext

(* A step that changes nothing preserves IInv.                             *)
LEMMA StutterKeepsIInv == IInv /\ UNCHANGED vars => IInv'
  BY DEF vars, stakes, capVars, opVars, money, IInv, TypeOK, Conservation,
         total_stake, BootstrapShape, AuctionCovered, lendable,
         NeverOverAndUnderstaked, GlobalOpShape, GlobalOpCanFinish,
         StakeReachesCap, stake_after_op, cap_after_op,
         is_global_op_in_progress

-----------------------------------------------------------------------------
(* The inductive invariant holds in every reachable state of the contract. *)
THEOREM IInvHolds == Spec => []IInv
  <1>1. IInv /\ [Next]_vars => IInv'
    BY UserStepKeepsIInv, OwnerStepKeepsIInv, EnvironmentStepKeepsIInv,
       StutterKeepsIInv
    DEF Next
  <1> QED BY InitIInv, <1>1, PTL DEF Spec

(* Amounts stay natural numbers: no BigUint subtraction of the endpoints   *)
(* ever underflows.                                                        *)
THEOREM TypeCorrect == Spec => []TypeOK
  <1>1. IInv => TypeOK
    BY DEF IInv
  <1> QED BY IInvHolds, <1>1, PTL

(* The contract can always pay what it owes: total_unprotected never       *)
(* underflows and never more rewards are sent than arrived.                *)
THEOREM SolvencyHolds == Spec => []Solvency
  <1>1. IInv => Solvency
    BY DEF IInv, TypeOK, Solvency, total_unprotected, Conservation,
           total_stake, AuctionCovered, lendable
  <1> QED BY IInvHolds, <1>1, PTL

(* validateDelegationCapInvariant never fails while no global operation    *)
(* runs, if the owner does not close bootstrap mode with the exact cap.    *)
THEOREM DelegationCapHolds ==
  ASSUME ~ ExactBootstrapCap
  PROVE  Spec => []DelegationCapInvariant
  <1>1. IInv => DelegationCapInvariant
    BY DEF IInv, TypeOK, DelegationCapInvariant, delegation_cap_holds,
           BootstrapShape, StakeReachesCap, stake_after_op, cap_after_op,
           GlobalOpShape, is_global_op_in_progress
  <1> QED BY IInvHolds, <1>1, PTL

(* The stake that shares rewards never exceeds the cap that divides them,  *)
(* whatever cap the owner asks for.                                        *)
THEOREM ActiveWithinCapHolds == Spec => []ActiveWithinCap
  <1>1. IInv => ActiveWithinCap
    BY DEF IInv, TypeOK, ActiveWithinCap, StakeReachesCap, stake_after_op,
           cap_after_op, GlobalOpShape, is_global_op_in_progress
  <1> QED BY IInvHolds, <1>1, PTL

(* Waiting and unstaked funds never coexist.                               *)
THEOREM NeverOverAndUnderstakedHolds == Spec => []NeverOverAndUnderstaked
  <1>1. IInv => NeverOverAndUnderstaked
    BY DEF IInv
  <1> QED BY IInvHolds, <1>1, PTL

(* An interrupted cap change can always be completed by continuing it.     *)
THEOREM GlobalOpCanFinishHolds == Spec => []GlobalOpCanFinish
  <1>1. IInv => GlobalOpCanFinish
    BY DEF IInv
  <1> QED BY IInvHolds, <1>1, PTL

-----------------------------------------------------------------------------
(* A step that changes neither the stake that nodes may run with nor what  *)
(* is lent is no step for the calls to the auction contract.  Otherwise    *)
(* IInv, before and after it, makes it one of Lending's.                   *)
LEMMA TotalsMoveAsLending ==
  ASSUME IInv, IInv', auction_stake' = auction_stake
  PROVE  [Lent!Next]_(Lent!vars)
  <1>1. /\ lendable \in Int /\ lendable' \in Int /\ auction_stake \in Nat
        /\ auction_stake <= lendable /\ auction_stake <= lendable'
    <2>1. /\ total_active \in Nat /\ total_unstaked \in Nat
          /\ remaining_swap_unstaked_to_def_p \in Nat
          /\ remaining_swap_active_to_def_p \in Nat
          /\ returned_fines \in Nat /\ auction_stake \in Nat
          /\ auction_stake <= lendable
      BY DEF IInv, TypeOK, AuctionCovered
    <2>2. /\ total_active' \in Nat /\ total_unstaked' \in Nat
          /\ remaining_swap_unstaked_to_def_p' \in Nat
          /\ remaining_swap_active_to_def_p' \in Nat
          /\ returned_fines' \in Nat
          /\ auction_stake' <= lendable'
      BY DEF IInv, TypeOK, AuctionCovered
    <2>3. lendable \in Int /\ lendable' \in Int
      BY <2>1, <2>2 DEF lendable
    <2> QED BY <2>1, <2>2, <2>3
  <1>2. lendable' \in Nat
    BY <1>1
  <1>3. lendable' = lendable \/ lendable' > lendable
        \/ lendable' \in auction_stake .. lendable
    BY <1>1
  <1> QED
    BY <1>2, <1>3 DEF Lent!Next, Lent!Grow, Lent!Shrink, Lent!vars

(* The bookkeeping of the contract keeps its side of Lending: no endpoint  *)
(* promises to delegators what the auction contract holds.                 *)
THEOREM LedgerRefinesLending == Spec => RefinesLending
  <1>1. Init => Lent!Init
    <2> SUFFICES ASSUME Init PROVE Lent!Init
      OBVIOUS
    <2>1. IInv
      BY InitIInv
    <2> QED
      BY <2>1 DEF IInv, TypeOK, AuctionCovered, lendable, Lent!Init
  <1>2. IInv /\ IInv' /\ [Next]_vars => [Lent!Next]_(Lent!vars)
    <2> SUFFICES ASSUME IInv, IInv', [Next]_vars
                 PROVE  [Lent!Next]_(Lent!vars)
      OBVIOUS
    <2>1. TypeOK
      BY DEF IInv
    <2>2. CASE UNCHANGED auction_stake
      BY <2>2, TotalsMoveAsLending
    <2>3. CASE \E amount \in 0 .. sc_balance : stake_nodes(amount)
      <3>1. PICK amount \in 0 .. sc_balance : stake_nodes(amount)
        BY <2>3
      <3>2. /\ amount \in Nat
            /\ auction_stake' = auction_stake + amount
            /\ lendable' = lendable
        BY <2>1, <3>1
        DEF TypeOK, stake_nodes, lendable, stakes, capVars, opVars
      <3>3. auction_stake' \in auction_stake .. lendable
        <4>1. auction_stake' <= lendable'
          BY DEF IInv, AuctionCovered
        <4>2. lendable \in Int /\ auction_stake \in Nat
          BY <2>1 DEF TypeOK, lendable
        <4> QED BY <3>2, <4>1, <4>2
      <3> QED
        BY <3>2, <3>3 DEF Lent!Next, Lent!Lend
    <2>4. CASE \E amount \in 0 .. auction_stake : AuctionPaysBack(amount)
      <3>1. PICK amount \in 0 .. auction_stake : AuctionPaysBack(amount)
        BY <2>4
      <3>2. /\ auction_stake' \in 0 .. auction_stake
            /\ lendable' = lendable
        BY <2>1, <3>1
        DEF TypeOK, AuctionPaysBack, lendable, stakes, capVars, opVars
      <3> QED
        BY <3>2 DEF Lent!Next, Lent!GetBack
    <2>5. CASE UserNext
      BY <2>2, <2>5
      DEF UserNext, stake_endpoint, unstake_endpoint, unbond_user,
          claim_rewards, money
    <2>6. CASE OwnerNext
      BY <2>2, <2>3, <2>6
      DEF OwnerNext, modify_total_delegation_cap, raise_cap, lower_cap,
          set_service_fee_endpoint, continue_change_fee,
          continue_global_operation_endpoint, continue_modify_cap, swap_some,
          dust_cleanup_waiting_list, dust_cleanup_active, upgrade, money
    <2>7. CASE EnvironmentNext
      BY <2>2, <2>4, <2>7 DEF EnvironmentNext, RewardsArrive, FineComesBack
    <2>8. CASE UNCHANGED vars
      BY <2>2, <2>8 DEF vars, money
    <2> QED BY <2>5, <2>6, <2>7, <2>8 DEF Next
  <1> QED
    BY <1>1, <1>2, IInvHolds, PTL DEF Spec, RefinesLending, Lent!Spec
=============================================================================
