-------------------------- MODULE DelegationProofs --------------------------
(***************************************************************************)
(* The items of the contract. The book invariant says what every reachable *)
(* state's items and checkpoint are like; every endpoint keeps it, and     *)
(* every endpoint moves funds in one of a few ways.                        *)
(*                                                                         *)
(* No theorem here assumes anything of the owner: the dust sweeps may      *)
(* resume from any cursor.                                                 *)
(***************************************************************************)
EXTENDS Delegation, FundBookProofs, FiniteSetTheorems

(* The five totals of the items fs.                                        *)
TypeTotals(fs, w, a, u, d, x) ==
    /\ total_of_type(fs, "Waiting") = w
    /\ total_of_type(fs, "Active") = a
    /\ total_of_type(fs, "UnStaked") = u
    /\ total_of_type(fs, "DeferredPayment") = d
    /\ total_of_type(fs, "WithdrawOnly") = x

(* Every book has its five totals, and they are naturals.                  *)
LEMMA HasTotals ==
    ASSUME NEW fs \in Seq(Item)
    PROVE  \E w, a, u, d, x \in Nat : TypeTotals(fs, w, a, u, d, x)
<1>1. /\ total_of_type(fs, "Waiting") \in Nat
      /\ total_of_type(fs, "Active") \in Nat
      /\ total_of_type(fs, "UnStaked") \in Nat
      /\ total_of_type(fs, "DeferredPayment") \in Nat
      /\ total_of_type(fs, "WithdrawOnly") \in Nat
  BY TypeTotal
<1> QED BY <1>1, Zenon DEF TypeTotals

(* Dropping the empty items leaves the five totals.                        *)
LEMMA SaveTotals ==
    ASSUME NEW fs \in Seq(Item), NEW w, NEW a, NEW u, NEW d, NEW x,
           TypeTotals(fs, w, a, u, d, x)
    PROVE  TypeTotals(save(fs), w, a, u, d, x)
<1>1. PICK gs : gs = save(fs)
  OBVIOUS
<1>2. gs \in Seq(Item) /\ \A K : Total(gs, K) = Total(fs, K)
  BY <1>1, SaveKeepsTotals
<1>3. \A t : total_of_type(gs, t) = total_of_type(fs, t)
  <2>1. TAKE t
  <2>2. /\ total_of_type(gs, t) = Total(gs, OfType(t))
        /\ total_of_type(fs, t) = Total(fs, OfType(t))
    BY <1>2, TypeTotal
  <2> QED BY <1>2, <2>2
<1> QED BY <1>1, <1>3 DEF TypeTotals

(* What a swap between two types does to the five totals.                  *)
LEMMA WaitingToActiveTotals ==
    ASSUME NEW fs, NEW w \in Nat, NEW a \in Nat, NEW u \in Nat,
           NEW d \in Nat, NEW x \in Nat, TypeTotals(fs, w, a, u, d, x),
           NEW r, NEW max \in Nat, NEW K,
           Shift(r, fs, max, K, "Waiting", "Active"),
           NEW n, n = max - r.left
    PROVE  TypeTotals(r.funds, w - n, a + n, u, d, x)
BY DEF Shift, ShiftsTypes, shifted, TypeTotals

(* The five totals after a swap from waiting to withdraw-only.             *)
LEMMA WaitingToWithdrawTotals ==
    ASSUME NEW fs, NEW w \in Nat, NEW a \in Nat, NEW u \in Nat,
           NEW d \in Nat, NEW x \in Nat, TypeTotals(fs, w, a, u, d, x),
           NEW r, NEW max \in Nat, NEW K,
           Shift(r, fs, max, K, "Waiting", "WithdrawOnly"),
           NEW n, n = max - r.left
    PROVE  TypeTotals(r.funds, w - n, a, u, d, x + n)
BY DEF Shift, ShiftsTypes, shifted, TypeTotals

(* The five totals after a swap from unstaked to deferred.                 *)
LEMMA UnstakedToDeferredTotals ==
    ASSUME NEW fs, NEW w \in Nat, NEW a \in Nat, NEW u \in Nat,
           NEW d \in Nat, NEW x \in Nat, TypeTotals(fs, w, a, u, d, x),
           NEW r, NEW max \in Nat, NEW K,
           Shift(r, fs, max, K, "UnStaked", "DeferredPayment"),
           NEW n, n = max - r.left
    PROVE  TypeTotals(r.funds, w, a, u - n, d + n, x)
BY DEF Shift, ShiftsTypes, shifted, TypeTotals

(* The five totals after a swap from active to unstaked.                   *)
LEMMA ActiveToUnstakedTotals ==
    ASSUME NEW fs, NEW w \in Nat, NEW a \in Nat, NEW u \in Nat,
           NEW d \in Nat, NEW x \in Nat, TypeTotals(fs, w, a, u, d, x),
           NEW r, NEW max \in Nat, NEW K,
           Shift(r, fs, max, K, "Active", "UnStaked"),
           NEW n, n = max - r.left
    PROVE  TypeTotals(r.funds, w, a - n, u + n, d, x)
BY DEF Shift, ShiftsTypes, shifted, TypeTotals

(* The five totals after a swap from active to deferred.                   *)
LEMMA ActiveToDeferredTotals ==
    ASSUME NEW fs, NEW w \in Nat, NEW a \in Nat, NEW u \in Nat,
           NEW d \in Nat, NEW x \in Nat, TypeTotals(fs, w, a, u, d, x),
           NEW r, NEW max \in Nat, NEW K,
           Shift(r, fs, max, K, "Active", "DeferredPayment"),
           NEW n, n = max - r.left
    PROVE  TypeTotals(r.funds, w, a - n, u, d + n, x)
BY DEF Shift, ShiftsTypes, shifted, TypeTotals

(* The five totals after a swap from deferred to withdraw-only.            *)
LEMMA DeferredToWithdrawTotals ==
    ASSUME NEW fs, NEW w \in Nat, NEW a \in Nat, NEW u \in Nat,
           NEW d \in Nat, NEW x \in Nat, TypeTotals(fs, w, a, u, d, x),
           NEW r, NEW max \in Nat, NEW K,
           Shift(r, fs, max, K, "DeferredPayment", "WithdrawOnly"),
           NEW n, n = max - r.left
    PROVE  TypeTotals(r.funds, w, a, u, d - n, x + n)
BY DEF Shift, ShiftsTypes, shifted, TypeTotals

(* What use_waiting_to_replace_unstaked does to the totals.                *)
Replaced(r, w, a, u, d, x) ==
    LET fillable == total_delegation_cap - a
        filled   == Smaller(fillable, w)
        swapped  == Smaller(w, u)
    IN  IF bootstrap_mode
        THEN /\ fillable >= 0
             /\ TypeTotals(r.funds, w - filled, a + filled, 0, d + u, x)
             /\ r.bootstrap = (filled # fillable)
        ELSE /\ TypeTotals(r.funds, w - swapped, a + swapped, u - swapped,
                           d + swapped, x)
             /\ r.bootstrap = FALSE

Replaces(r, fs, nonce, w, a, u, d, x) ==
    Follows(r.funds, fs, nonce) /\ Replaced(r, w, a, u, d, x)

(* use_waiting_to_replace_unstaked in bootstrap mode: the pool is filled   *)
(* and every unstaked fund is deferred.                                    *)
LEMMA FillBootstrap ==
    ASSUME NEW fs \in Seq(Item), NEW rewards, total_delegation_cap \in Nat,
           NEW nonce \in Nat, NEW w \in Nat, NEW a \in Nat, NEW u \in Nat,
           NEW d \in Nat, NEW x \in Nat, TypeTotals(fs, w, a, u, d, x),
           NEW r, r = fill_bootstrap(swap_unstaked_to_deferred_payment(
                          fs, u, NoLimit(fs)), rewards),
           r.ok, bootstrap_mode
    PROVE  Replaces(r, fs, nonce, w, a, u, d, x)
<1>1. PICK s : s = swap_unstaked_to_deferred_payment(fs, u, NoLimit(fs))
  OBVIOUS
<1>2. NoLimit(fs) \in Nat
  BY DEF NoLimit
<1>3. Shift(s, fs, u, OfType("UnStaked"), "UnStaked", "DeferredPayment")
  BY <1>1, <1>2, UnstakedToDeferred
<1>4. Follows(s.funds, fs, nonce)
  BY <1>1, <1>2, SwapsFollow
<1>5. PICK gs \in Seq(Item) : gs = s.funds
  BY <1>3 DEF Shift
<1>6. PICK fillable : fillable = total_delegation_cap
                                    - total_of_type(gs, "Active")
  OBVIOUS
<1>7. PICK act : act = swap_waiting_to_active(gs, fillable, NoLimit(gs))
  OBVIOUS
<1>8. /\ r.funds = act.funds /\ r.bootstrap = (act.left # 0)
      /\ r.ok = (s.left = 0 /\ fillable >= 0)
  BY <1>1, <1>5, <1>6, <1>7 DEF fill_bootstrap
<1>9. s.left = 0 /\ fillable >= 0
  BY <1>8
<1>10. TypeTotals(gs, w, a, 0, d + u, x)
  <2>1. \A ty : total_of_type(gs, ty) = shifted(total_of_type(fs, ty), ty,
                      "UnStaked", "DeferredPayment", u - 0)
    BY <1>3, <1>5, <1>9 DEF Shift, ShiftsTypes
  <2> QED BY ONLY <2>1, u \in Nat, d \in Nat, TypeTotals(fs, w, a, u, d, x)
          DEF shifted, TypeTotals
<1>11. fillable \in Nat /\ fillable = total_delegation_cap - a
  BY <1>6, <1>9, <1>10 DEF TypeTotals
<1>12. NoLimit(gs) \in Nat /\ Len(gs) <= NoLimit(gs)
  BY DEF NoLimit
<1>13. /\ Shift(act, gs, fillable, OfType("Waiting"), "Waiting", "Active")
       /\ fillable - act.left = Smaller(fillable, Total(gs, OfType("Waiting")))
  BY <1>7, <1>11, <1>12, WaitingToActive
<1>14. Total(gs, OfType("Waiting")) = w
  BY <1>10, TypeTotal DEF TypeTotals
<1>15. Follows(act.funds, gs, nonce)
  BY <1>7, <1>11, <1>12, SwapsFollow
<1>16. Follows(r.funds, fs, nonce)
  BY <1>4, <1>5, <1>8, <1>15, FollowsTransitive
<1>17. PICK filled : filled = Smaller(fillable, w)
  OBVIOUS
<1>18. fillable - act.left = filled /\ act.left \in Nat /\ filled \in Nat
  BY <1>11, <1>13, <1>14, <1>17 DEF Shift, Smaller
<1>19. TypeTotals(act.funds, w - filled, a + filled, 0, d + u, x)
  BY <1>10, <1>13, <1>18 DEF Shift, ShiftsTypes, shifted, TypeTotals
<1>20. (act.left # 0) = (filled # fillable)
  BY <1>11, <1>18
<1>21. /\ total_delegation_cap - a >= 0
       /\ TypeTotals(r.funds, w - filled, a + filled, 0, d + u, x)
       /\ r.bootstrap = (filled # fillable)
  BY <1>8, <1>9, <1>11, <1>19, <1>20
<1> QED BY <1>11, <1>16, <1>17, <1>21 DEF Replaces, Replaced

(* use_waiting_to_replace_unstaked past bootstrap: waiting stake takes the *)
(* place of unstaked stake, unit for unit.                                 *)
LEMMA ReplaceUnstaked ==
    ASSUME NEW fs \in Seq(Item), NEW rewards, NEW nonce \in Nat,
           NEW w \in Nat, NEW a \in Nat, NEW u \in Nat,
           NEW d \in Nat, NEW x \in Nat, TypeTotals(fs, w, a, u, d, x),
           NEW amount \in Nat, amount = Smaller(w, u),
           NEW r, r = replace_unstaked(swap_unstaked_to_deferred_payment(
                          fs, amount, NoLimit(fs)), amount, rewards),
           r.ok, ~ bootstrap_mode
    PROVE  Replaces(r, fs, nonce, w, a, u, d, x)
<1>1. PICK s : s = swap_unstaked_to_deferred_payment(fs, amount, NoLimit(fs))
  OBVIOUS
<1>2. NoLimit(fs) \in Nat
  BY DEF NoLimit
<1>3. Shift(s, fs, amount, OfType("UnStaked"), "UnStaked", "DeferredPayment")
  BY <1>1, <1>2, UnstakedToDeferred
<1>4. Follows(s.funds, fs, nonce)
  BY <1>1, <1>2, SwapsFollow
<1>5. PICK gs \in Seq(Item) : gs = s.funds
  BY <1>3 DEF Shift
<1>6. PICK act : act = swap_waiting_to_active(gs, amount, NoLimit(gs))
  OBVIOUS
<1>7. /\ r.funds = act.funds /\ r.bootstrap = FALSE
      /\ r.ok = (s.left = 0 /\ act.left = 0)
  BY <1>1, <1>5, <1>6 DEF replace_unstaked
<1>8. s.left = 0 /\ act.left = 0
  BY <1>7
<1>9. TypeTotals(gs, w, a, u - amount, d + amount, x)
  BY <1>3, <1>5, <1>8 DEF Shift, ShiftsTypes, shifted, TypeTotals
<1>10. NoLimit(gs) \in Nat
  BY DEF NoLimit
<1>11. Shift(act, gs, amount, OfType("Waiting"), "Waiting", "Active")
  BY <1>6, <1>10, WaitingToActive
<1>12. Follows(act.funds, gs, nonce)
  BY <1>6, <1>10, SwapsFollow
<1>13. Follows(r.funds, fs, nonce)
  BY <1>4, <1>5, <1>7, <1>12, FollowsTransitive
<1>14. TypeTotals(r.funds, w - amount, a + amount, u - amount, d + amount, x)
  <2>1. amount = amount - act.left /\ u - amount \in Nat /\ d + amount \in Nat
    BY <1>8 DEF Smaller
  <2> QED BY <1>7, <1>9, <1>11, <2>1, WaitingToActiveTotals
<1> QED BY <1>7, <1>13, <1>14 DEF Replaces, Replaced

(* Both branches of use_waiting_to_replace_unstaked.                       *)
LEMMA UseWaiting ==
    ASSUME NEW fs \in Seq(Item), NEW rewards, total_delegation_cap \in Nat,
           bootstrap_mode \in BOOLEAN,
           NEW nonce \in Nat, NEW w \in Nat, NEW a \in Nat, NEW u \in Nat,
           NEW d \in Nat, NEW x \in Nat, TypeTotals(fs, w, a, u, d, x),
           NEW r, r = use_waiting_to_replace_unstaked(fs, rewards), r.ok
    PROVE  Replaces(r, fs, nonce, w, a, u, d, x)
<1>1. PICK amount : amount = Smaller(w, u)
  OBVIOUS
<1>2. amount \in Nat
  BY <1>1 DEF Smaller
<1>3. /\ total_of_type(fs, "UnStaked") = u
      /\ Smaller(total_of_type(fs, "Waiting"), total_of_type(fs, "UnStaked"))
            = amount
  BY <1>1 DEF TypeTotals
<1>4. CASE bootstrap_mode
  <2>1. r = fill_bootstrap(swap_unstaked_to_deferred_payment(
                               fs, u, NoLimit(fs)), rewards)
    BY <1>3, <1>4 DEF use_waiting_to_replace_unstaked
  <2> QED BY <1>4, <2>1, FillBootstrap
<1>5. CASE ~ bootstrap_mode /\ amount = 0
  <2>1. r = [funds |-> fs, rewards |-> rewards, bootstrap |-> FALSE,
             ok |-> TRUE]
    BY <1>3, <1>5 DEF use_waiting_to_replace_unstaked
  <2>2. r.funds = fs /\ r.bootstrap = FALSE
    BY <2>1
  <2>3. /\ w - amount = w /\ a + amount = a /\ u - amount = u
        /\ d + amount = d
    BY <1>5
  <2>4. Follows(r.funds, fs, nonce)
    BY <2>2, FollowsItself
  <2>5. TypeTotals(r.funds, w - amount, a + amount, u - amount, d + amount, x)
    BY <2>2, <2>3
  <2> QED BY <1>1, <1>5, <2>2, <2>4, <2>5 DEF Replaces, Replaced
<1>6. CASE ~ bootstrap_mode /\ amount # 0
  <2>1. r = replace_unstaked(swap_unstaked_to_deferred_payment(
                          fs, amount, NoLimit(fs)), amount, rewards)
    BY <1>3, <1>6 DEF use_waiting_to_replace_unstaked
  <2> QED BY <1>1, <1>2, <1>6, <2>1, ReplaceUnstaked
<1> QED BY <1>4, <1>5, <1>6

Strangers(n) == { k \in Keys : k[1] \notin 1 .. n }
Later(n)     == { k \in Keys : k[2].created > n }

(* The items belong to the users 1 to n and none is of a later block.      *)
Orderly(fs, n, nonce) ==
    /\ fs \in Seq(Item)
    /\ Total(fs, Strangers(n)) = 0
    /\ Total(fs, Later(nonce)) = 0
    /\ Everything(fs) <= DepositBound

Sound(fs, n, nonce) ==
    /\ Orderly(fs, n, nonce)
    /\ \A id \in 1 .. Len(fs) : fs[id].balance > 0

FundsInv == Sound(funds, num_users, block_nonce)

(* The kinds that a change of label does not leave.                        *)
LEMMA UserKinds ==
    /\ UserKind(Keys)
    /\ \A n : UserKind(Strangers(n))
    /\ \A u : UserKind(OfUser(u))
BY DEF UserKind, Strangers, OfUser

(* No swap stamps funds with a block that has not come.                    *)
LEMMA LaterNeverGrows ==
    ASSUME NEW nonce \in Nat PROVE NeverAdds(Later(nonce), nonce)
<1>1. ASSUME NEW S, NEW transform,
             \A item \in Item : transform[item] \in Desc /\
                 (\/ transform[item].created <= nonce
                  \/ transform[item].created = item.fund_desc.created)
      PROVE  Moves(-1, 0, Later(nonce), S, transform)
  <2>1. ASSUME NEW item \in Item
        PROVE  /\ -1 <= effect_on(Later(nonce), item, transform[item])
               /\ effect_on(Later(nonce), item, transform[item]) <= 0
    <3>1. /\ transform[item] \in Desc
          /\ \/ transform[item].created <= nonce
             \/ transform[item].created = item.fund_desc.created
      BY <1>1
    <3>2. /\ key(item) \in Keys /\ key(item)[2] = item.fund_desc
          /\ item.fund_desc.created \in Nat /\ item.user_id \in Nat
      BY ItemFields DEF key
    <3>3. transform[item].created \in Nat
      BY <3>1 DEF Desc
    <3>4. <<item.user_id, transform[item]>> \in Later(nonce)
             => key(item) \in Later(nonce)
      BY <3>1, <3>2, <3>3 DEF Later
    <3> QED BY <3>4 DEF effect_on, indicator
  <2> QED BY <2>1 DEF Moves
<1>2. /\ \A item \in Item : to_unstaked(nonce)[item] \in Desc
      /\ \A item \in Item : to_active[item] \in Desc
      /\ \A item \in Item : to_withdraw_only[item] \in Desc
      /\ \A item \in Item : to_deferred[item] \in Desc
      /\ \A item \in Item : to_deferred_at(nonce)[item] \in Desc
  BY ItemFields DEF to_unstaked, to_active, to_withdraw_only, to_deferred,
     to_deferred_at, Desc, FundType, UnStaked, Active, WithdrawOnly,
     DeferredPayment
<1>3. \A item \in Item :
         /\ to_unstaked(nonce)[item].created <= nonce
         /\ to_active[item].created <= nonce
         /\ to_withdraw_only[item].created <= nonce
         /\ to_deferred[item].created = item.fund_desc.created
         /\ to_deferred_at(nonce)[item].created <= nonce
  BY DEF to_unstaked, to_active, to_withdraw_only, to_deferred,
     to_deferred_at, UnStaked, Active, WithdrawOnly, DeferredPayment
<1>4. /\ Moves(-1, 0, Later(nonce), OfType("Active"), to_unstaked(nonce))
      /\ Moves(-1, 0, Later(nonce), OfType("Waiting"), to_active)
      /\ Moves(-1, 0, Later(nonce), OfType("Waiting"), to_withdraw_only)
      /\ Moves(-1, 0, Later(nonce), OfType("UnStaked"), to_deferred)
      /\ Moves(-1, 0, Later(nonce), OfType("Active"), to_deferred_at(nonce))
  BY <1>1, <1>2, <1>3
<1> QED BY <1>4 DEF NeverAdds, MovesAll

(* Saving what follows from orderly items leaves sound ones.               *)
LEMMA SavedIsSound ==
    ASSUME NEW fs, NEW gs, NEW n, NEW nonce \in Nat, Orderly(fs, n, nonce),
           Follows(gs, fs, nonce)
    PROVE  Sound(save(gs), n, nonce)
<1>1. gs \in Seq(Item) /\ fs \in Seq(Item)
  BY DEF Follows, Orderly
<1>2. PICK hs : hs = save(gs)
  OBVIOUS
<1>3. /\ hs \in Seq(Item) /\ \A i \in 1 .. Len(hs) : hs[i].balance > 0
      /\ \A K : Total(hs, K) = Total(gs, K)
  BY <1>1, <1>2, SaveKeepsTotals
<1>4. Total(gs, Strangers(n)) = 0 /\ Total(gs, Keys) = Total(fs, Keys)
  BY <1>1, UserKinds, UserKindIsKept DEF Orderly
<1>5. Total(gs, Later(nonce)) = 0
  <2>1. Total(gs, Later(nonce)) <= 0
    BY LaterNeverGrows DEF Follows, Orderly
  <2>2. Total(gs, Later(nonce)) \in Nat
    BY <1>1, TotalNat
  <2> QED BY <2>1, <2>2
<1>6. Everything(hs) = Everything(fs)
  BY <1>1, <1>3, <1>4, EverythingTotal
<1> QED BY <1>2, <1>3, <1>4, <1>5, <1>6 DEF Sound, Orderly

(* The user u adds an item of this block, or of none.                      *)
LEMMA CreatedIsOrderly ==
    ASSUME NEW fs, NEW n \in Nat, NEW nonce \in Nat, Orderly(fs, n, nonce),
           NEW u \in Nat, u \in 1 .. n + 1, NEW m, m = IF u > n THEN u ELSE n,
           NEW payment \in Nat, Everything(fs) + payment <= DepositBound,
           NEW gs, gs = create_waiting(fs, u, payment)
    PROVE  /\ Orderly(gs, m, nonce)
           /\ \A K : Total(gs, K) = Total(fs, K)
                        + IF <<u, Waiting>> \in K THEN payment ELSE 0
<1>1. fs \in Seq(Item)
  BY DEF Orderly
<1>2. Waiting \in Desc
  BY DEF Waiting, Desc, FundType
<1>3. gs = increase_fund_balance(fs, u, Waiting, payment)
  BY DEF create_waiting
<1>4. /\ gs \in Seq(Item)
      /\ \A K : Total(gs, K) = Total(fs, K)
                   + IF <<u, Waiting>> \in K THEN payment ELSE 0
  BY <1>1, <1>2, <1>3, IncreaseFund DEF Increased, Extends
<1>5. <<u, Waiting>> \in Keys /\ u \in 1 .. m /\ m \in Nat /\ n <= m
  BY <1>2 DEF Keys
<1>6. /\ <<u, Waiting>> \notin Strangers(m)
      /\ <<u, Waiting>> \notin Later(nonce)
  BY <1>5 DEF Strangers, Later, Waiting
<1>7. Total(gs, Strangers(m)) = 0
  <2>1. Strangers(m) \subseteq Strangers(n)
    BY <1>5 DEF Strangers
  <2>2. /\ Total(fs, Strangers(m)) <= Total(fs, Strangers(n))
        /\ Total(fs, Strangers(m)) \in Nat
    BY <1>1, <2>1, TotalSubset, TotalNat
  <2>3. Total(fs, Strangers(m)) = 0
    BY <2>2 DEF Orderly
  <2> QED BY <1>4, <1>6, <2>3
<1>8. Total(gs, Later(nonce)) = 0
  BY <1>4, <1>6 DEF Orderly
<1>9. Everything(gs) <= DepositBound
  BY <1>1, <1>4, <1>5, EverythingTotal
<1> QED BY <1>4, <1>7, <1>8, <1>9 DEF Orderly

(* The five totals are all there is.                                       *)
LEMMA EverythingIsTypes ==
    ASSUME NEW fs \in Seq(Item), NEW w \in Nat, NEW a \in Nat, NEW u \in Nat,
           NEW d \in Nat, NEW x \in Nat, TypeTotals(fs, w, a, u, d, x)
    PROVE  Everything(fs) = w + a + u + d + x
<1>1. PICK A, B, C, D, E :
         /\ A = OfType("Waiting") /\ B = OfType("Active")
         /\ C = OfType("UnStaked") /\ D = OfType("DeferredPayment")
         /\ E = OfType("WithdrawOnly")
  OBVIOUS
<1>2. PICK I, J, K : /\ I = D \cup E /\ J = C \cup I /\ K = B \cup J
  OBVIOUS
<1>3. /\ Keys = A \cup K /\ A \cap K = {} /\ B \cap J = {}
      /\ C \cap I = {} /\ D \cap E = {}
  BY <1>1, <1>2 DEF OfType, Keys, Desc, FundType
<1>4. /\ Total(fs, A) = w /\ Total(fs, B) = a /\ Total(fs, C) = u
      /\ Total(fs, D) = d /\ Total(fs, E) = x
  BY <1>1, TypeTotal DEF TypeTotals
<1>5. /\ Total(fs, I) = Total(fs, D) + Total(fs, E)
      /\ Total(fs, J) = Total(fs, C) + Total(fs, I)
      /\ Total(fs, K) = Total(fs, B) + Total(fs, J)
      /\ Total(fs, Keys) = Total(fs, A) + Total(fs, K)
  BY <1>2, <1>3, TotalUnion
<1>6. Total(fs, Keys) = w + (a + (u + (d + x)))
  BY <1>4, <1>5
<1> QED BY <1>6, EverythingTotal

(* gs is fs relabelled: every user keeps what the user has, and nothing    *)
(* becomes later than this block.                                          *)
Keeps(gs, fs, nonce) ==
    /\ gs \in Seq(Item)
    /\ \A K : UserKind(K) => Total(gs, K) = Total(fs, K)
    /\ Total(gs, Later(nonce)) <= Total(fs, Later(nonce))

(* Legal swaps keep what every user has.                                   *)
LEMMA FollowsKeeps ==
    ASSUME NEW fs \in Seq(Item), NEW gs, NEW nonce \in Nat,
           Follows(gs, fs, nonce)
    PROVE  Keeps(gs, fs, nonce)
<1>1. \A K : UserKind(K) => Total(gs, K) = Total(fs, K)
  BY UserKindIsKept
<1>2. Total(gs, Later(nonce)) <= Total(fs, Later(nonce))
  BY LaterNeverGrows DEF Follows
<1> QED BY <1>1, <1>2 DEF Keeps, Follows

(* Two changes of label are one.                                           *)
LEMMA KeepsTransitive ==
    ASSUME NEW fs \in Seq(Item), NEW gs, NEW hs, NEW nonce,
           Keeps(gs, fs, nonce), Keeps(hs, gs, nonce)
    PROVE  Keeps(hs, fs, nonce)
<1>1. gs \in Seq(Item) /\ hs \in Seq(Item)
  BY DEF Keeps
<1>2. PICK K : K = Later(nonce)
  OBVIOUS
<1>3. PICK x \in Nat, y \in Nat, z \in Nat :
         x = Total(fs, K) /\ y = Total(gs, K) /\ z = Total(hs, K)
  BY <1>1, TotalNat
<1>4. y <= x /\ z <= y
  BY <1>2, <1>3 DEF Keeps
<1>5. Total(hs, Later(nonce)) <= Total(fs, Later(nonce))
  BY <1>2, <1>3, <1>4
<1>6. \A K2 : UserKind(K2) => Total(hs, K2) = Total(fs, K2)
  BY DEF Keeps
<1> QED BY <1>1, <1>5, <1>6 DEF Keeps

(* A book whose funds only changed label is sound once it is saved.        *)
LEMMA KeptIsSound ==
    ASSUME NEW fs, NEW gs, NEW n, NEW nonce \in Nat, Orderly(fs, n, nonce),
           Keeps(gs, fs, nonce)
    PROVE  /\ Sound(save(gs), n, nonce)
           /\ \A K : UserKind(K) => Total(save(gs), K) = Total(fs, K)
<1>1. gs \in Seq(Item) /\ fs \in Seq(Item)
  BY DEF Keeps, Orderly
<1>2. PICK hs : hs = save(gs)
  OBVIOUS
<1>3. /\ hs \in Seq(Item) /\ \A i \in 1 .. Len(hs) : hs[i].balance > 0
      /\ \A K : Total(hs, K) = Total(gs, K)
  BY <1>1, <1>2, SaveKeepsTotals
<1>4. Total(gs, Strangers(n)) = 0 /\ Total(gs, Keys) = Total(fs, Keys)
  BY <1>1, UserKinds DEF Orderly, Keeps
<1>5. Total(gs, Later(nonce)) = 0
  <2>1. Total(gs, Later(nonce)) <= 0
    BY DEF Keeps, Orderly
  <2>2. Total(gs, Later(nonce)) \in Nat
    BY <1>1, TotalNat
  <2> QED BY <2>1, <2>2
<1>6. Everything(hs) = Everything(fs)
  BY <1>1, <1>3, <1>4, EverythingTotal
<1>7. Sound(hs, n, nonce)
  BY <1>3, <1>4, <1>5, <1>6 DEF Sound, Orderly
<1>8. \A K : UserKind(K) => Total(hs, K) = Total(fs, K)
  BY <1>3 DEF Keeps
<1> QED BY <1>2, <1>7, <1>8

-----------------------------------------------------------------------------
(* Global operations *)

SwapSteps == {"SwapWaitingToActive", "SwapUnstakedToDeferredPayment",
              "SwapActiveToDeferredPayment", "Finished"}

IsOp(op) ==
    op \in [op : {"None", "ModifyTotalDelegationCap", "ChangeServiceFee"},
            step : {"ComputeAllRewards"} \cup SwapSteps,
            new_value : Nat, waiting_to_active : Nat, unstaked_to_def_p : Nat,
            active_to_def_p : Nat, last_id : Nat,
            sum_unclaimed : {op.sum_unclaimed},
            rewards_checkpoint : {op.rewards_checkpoint}]

(* What is swapped by one operation, and what no later step takes up.      *)
OpShape(op) ==
    /\ IsOp(op)
    /\ op.last_id <= num_users
    /\ op.waiting_to_active = 0
          \/ (op.unstaked_to_def_p = 0 /\ op.active_to_def_p = 0)
    /\ op.step \in SwapSteps /\ op.step # "SwapWaitingToActive" =>
          op.waiting_to_active = 0
    /\ op.step \in {"SwapActiveToDeferredPayment", "Finished"} =>
          op.unstaked_to_def_p = 0
    /\ op.step = "Finished" => op.active_to_def_p = 0

IsRun(r) ==
    /\ r = [op |-> r.op, funds |-> r.funds, rewards |-> r.rewards,
            gas |-> r.gas, ok |-> r.ok]
    /\ r.gas \in Nat
    /\ OpShape(r.op)

same_swaps(p, q) ==
    /\ p.op = q.op /\ p.new_value = q.new_value
    /\ p.waiting_to_active = q.waiting_to_active
    /\ p.unstaked_to_def_p = q.unstaked_to_def_p
    /\ p.active_to_def_p = q.active_to_def_p

ComputeRun(s, r, next_step) ==
    /\ IsRun(s) /\ s.funds = r.funds /\ same_swaps(s.op, r.op)
    /\ r.op.step # "ComputeAllRewards" => s = r
    /\ r.op.step = "ComputeAllRewards" =>
          s.op.step \in {"ComputeAllRewards", next_step}

(* compute_all_rewards touches neither the items nor the amounts to swap,  *)
(* whatever gas it runs out of.                                            *)
LEMMA ComputeAllRuns ==
    ASSUME num_users \in Nat, NEW r, IsRun(r), NEW next_step,
           \/ next_step = "SwapWaitingToActive"
           \/ /\ next_step = "Finished"
              /\ r.op.waiting_to_active = 0 /\ r.op.unstaked_to_def_p = 0
              /\ r.op.active_to_def_p = 0,
           NEW s, s = compute_all_rewards(r, next_step)
    PROVE  ComputeRun(s, r, next_step)
<1>1. CASE r.op.step # "ComputeAllRewards"
  <2>1. s = r
    BY <1>1 DEF compute_all_rewards
  <2> QED BY <1>1, <2>1 DEF ComputeRun, same_swaps
<1>2. CASE r.op.step = "ComputeAllRewards"
  <2>1. PICK op : op = restart_if_rewards_arrived(r.op)
    OBVIOUS
  <2>2. PICK old : old = r.op
    OBVIOUS
  <2>3. OpShape(old) /\ old.step = "ComputeAllRewards"
    BY <1>2, <2>2 DEF IsRun
  <2>4. OpShape(op) /\ same_swaps(op, old) /\ op.step = "ComputeAllRewards"
    <3>1. CASE op = old
      BY <2>3, <3>1 DEF same_swaps
    <3>2. CASE op # old
      <4>1. op = [old EXCEPT !.last_id = 0, !.sum_unclaimed = 0,
                             !.rewards_checkpoint = total_rewards]
        BY <2>1, <2>2, <3>2 DEF restart_if_rewards_arrived
      <4>2. IsOp(op) /\ op.last_id = 0 /\ op.step = old.step
            /\ same_swaps(op, old)
        BY <2>3, <4>1 DEF OpShape, IsOp, same_swaps
      <4> QED BY <2>3, <4>2 DEF OpShape, same_swaps
    <3> QED BY <3>1, <3>2
  <2>5. PICK first \in Nat, gas \in Nat :
           first = op.last_id /\ gas = r.gas /\ first <= num_users
    BY <2>4 DEF OpShape, IsOp, IsRun
  <2>6. PICK last_id \in Nat :
           /\ last_id = op.last_id + Smaller(r.gas, num_users - op.last_id)
           /\ first <= last_id /\ last_id <= num_users
           /\ last_id - first <= gas
    BY <2>5 DEF Smaller
  <2>7. PICK users : users = op.last_id + 1 .. last_id
    OBVIOUS
  <2>8. PICK size \in Nat : size = Cardinality(users) /\ size <= gas
    <3>1. Cardinality(first + 1 .. last_id) =
             IF first + 1 > last_id THEN 0 ELSE last_id - (first + 1) + 1
      BY FS_Interval
    <3> QED BY <2>5, <2>6, <2>7, <3>1
  <2>9. PICK rewards : rewards = compute_rewards_of(users, r.rewards, r.funds)
    OBVIOUS
  <2>10. PICK sum : sum = op.sum_unclaimed
            + unclaimed_to(rewards, last_id) - unclaimed_to(rewards, op.last_id)
    OBVIOUS
  <2>11. PICK remainder : remainder = total_rewards - sum - sent_rewards
    OBVIOUS
  <2>12. CASE last_id < num_users
    <3>1. s = [r EXCEPT !.op = [op EXCEPT !.last_id = last_id,
                                          !.sum_unclaimed = sum],
                        !.rewards = rewards, !.gas = 0]
      BY <1>2, <2>1, <2>6, <2>7, <2>9, <2>10, <2>12 DEF compute_all_rewards
    <3>2. PICK new : new = [op EXCEPT !.last_id = last_id,
                                      !.sum_unclaimed = sum]
      OBVIOUS
    <3>3. OpShape(new) /\ same_swaps(new, op) /\ new.step = "ComputeAllRewards"
      BY <2>4, <2>6, <3>2 DEF OpShape, IsOp, same_swaps
    <3>4. s = [op |-> new, funds |-> r.funds, rewards |-> rewards,
               gas |-> 0, ok |-> r.ok]
      BY <3>1, <3>2 DEF IsRun
    <3>5. IsRun(s) /\ s.op = new /\ s.funds = r.funds
      BY <3>3, <3>4 DEF IsRun
    <3> QED BY <1>2, <2>2, <2>4, <3>3, <3>5 DEF ComputeRun, same_swaps
  <2>13. CASE ~ (last_id < num_users)
    <3>1. s = [r EXCEPT !.op = [op EXCEPT !.step = next_step, !.last_id = 0,
                                          !.sum_unclaimed = 0,
                                          !.rewards_checkpoint = 0],
                        !.rewards = give_owner(remainder, rewards),
                        !.gas = r.gas - size,
                        !.ok = remainder >= 0]
      BY <1>2, <2>1, <2>6, <2>7, <2>8, <2>9, <2>10, <2>11, <2>13
      DEF compute_all_rewards
    <3>2. PICK new : new = [op EXCEPT !.step = next_step, !.last_id = 0,
                                      !.sum_unclaimed = 0,
                                      !.rewards_checkpoint = 0]
      OBVIOUS
    <3>3. /\ OpShape(new) /\ same_swaps(new, op) /\ new.step = next_step
      <4>1. next_step \in SwapSteps
        BY DEF SwapSteps
      <4>2. /\ IsOp(new) /\ new.last_id = 0 /\ new.step = next_step
            /\ same_swaps(new, op)
        BY <2>4, <3>2, <4>1 DEF OpShape, IsOp, same_swaps
      <4> QED BY <2>2, <2>4, <4>2 DEF OpShape, same_swaps
    <3>4. PICK new_rewards : new_rewards = give_owner(remainder, rewards)
      OBVIOUS
    <3>5. s = [op |-> new, funds |-> r.funds, rewards |-> new_rewards,
               gas |-> gas - size, ok |-> remainder >= 0]
      BY <2>5, <3>1, <3>2, <3>4 DEF IsRun
    <3>6. IsRun(s) /\ s.op = new /\ s.funds = r.funds
      BY <2>5, <2>8, <3>3, <3>5 DEF IsRun
    <3> QED BY <1>2, <2>2, <2>4, <3>3, <3>6 DEF ComputeRun, same_swaps
  <2> QED BY <2>12, <2>13
<1> QED BY <1>1, <1>2

(***************************************************************************)
(* The swaps of a transaction of the cap change op, after moving x from    *)
(* waiting to active, y from unstaked to deferred and z from active to     *)
(* deferred, from the totals w, a, u, d and v.                             *)
(***************************************************************************)
Stage(r, op, fs, nonce, w, a, u, d, v, x, y, z) ==
    /\ IsRun(r)
    /\ r.funds \in Seq(Item)
    /\ Follows(r.funds, fs, nonce)
    /\ TypeTotals(r.funds, w - x, (a + x) - z, u - y, (d + y) + z, v)
    /\ r.op.op = op.op /\ r.op.new_value = op.new_value
    /\ r.op.waiting_to_active = op.waiting_to_active - x
    /\ r.op.unstaked_to_def_p = op.unstaked_to_def_p - y
    /\ r.op.active_to_def_p = op.active_to_def_p - z
    /\ y > 0 => x = op.waiting_to_active
    /\ z > 0 => x = op.waiting_to_active /\ y = op.unstaked_to_def_p
    /\ x <= w /\ y <= u /\ z <= a + x

(* The run r after such a swap.                                            *)
Stepped(s, r, result, step, field, next_step) ==
    /\ s = [op |-> s.op, funds |-> s.funds, rewards |-> s.rewards,
                   gas |-> s.gas, ok |-> s.ok]
    /\ s.gas \in Nat /\ s.funds = result.funds
    /\ s.rewards = r.rewards /\ s.ok = r.ok
    /\ IsOp(s.op) /\ s.op.last_id = r.op.last_id
    /\ s.op.op = r.op.op /\ s.op.new_value = r.op.new_value
    /\ s.op.step = IF result.left > 0 THEN step ELSE next_step
    /\ s.op.waiting_to_active = IF field = "waiting_to_active"
                 THEN result.left ELSE r.op.waiting_to_active
    /\ s.op.unstaked_to_def_p = IF field = "unstaked_to_def_p"
                 THEN result.left ELSE r.op.unstaked_to_def_p
    /\ s.op.active_to_def_p = IF field = "active_to_def_p"
                 THEN result.left ELSE r.op.active_to_def_p

(* The checkpoint after one swap of a global operation.                    *)
LEMMA SwapStepRun ==
    ASSUME NEW r, IsRun(r), NEW result,
           result.left \in Nat, result.visited \in Nat, result.visited <= r.gas,
           NEW field \in {"waiting_to_active", "unstaked_to_def_p",
                          "active_to_def_p"},
           NEW next_step \in SwapSteps, NEW step \in SwapSteps,
           r.op.step = step,
           NEW s, s = swap_step(r, step, field, result, next_step)
    PROVE  Stepped(s, r, result, step, field, next_step)
<1>1. PICK left \in Nat, visited \in Nat, gas \in Nat :
         /\ left = result.left /\ visited = result.visited /\ gas = r.gas
         /\ visited <= gas
  BY DEF IsRun
<1>2. PICK op : op = r.op
  OBVIOUS
<1>3. PICK now : now = IF left > 0 THEN step ELSE next_step
  OBVIOUS
<1>4. PICK new : new = [op EXCEPT ![field] = left, !.step = now]
  OBVIOUS
<1>5. IsOp(op)
  BY <1>2 DEF IsRun, OpShape
<1>6. now \in SwapSteps
  BY <1>3
<1>7. /\ IsOp(new) /\ new.last_id = op.last_id
      /\ new.op = op.op /\ new.new_value = op.new_value
      /\ new.step = now
      /\ new.waiting_to_active = IF field = "waiting_to_active"
            THEN left ELSE op.waiting_to_active
      /\ new.unstaked_to_def_p = IF field = "unstaked_to_def_p"
            THEN left ELSE op.unstaked_to_def_p
      /\ new.active_to_def_p = IF field = "active_to_def_p"
            THEN left ELSE op.active_to_def_p
  <2>1. CASE field = "waiting_to_active"
    BY <1>1, <1>4, <1>5, <1>6, <2>1 DEF IsOp
  <2>2. CASE field = "unstaked_to_def_p"
    BY <1>1, <1>4, <1>5, <1>6, <2>2 DEF IsOp
  <2>3. CASE field = "active_to_def_p"
    BY <1>1, <1>4, <1>5, <1>6, <2>3 DEF IsOp
  <2> QED BY <2>1, <2>2, <2>3
<1>8. s = [r EXCEPT !.op = new, !.funds = result.funds, !.gas = gas - visited]
  BY <1>1, <1>2, <1>3, <1>4 DEF swap_step
<1>9. s = [op |-> new, funds |-> result.funds, rewards |-> r.rewards,
           gas |-> gas - visited, ok |-> r.ok]
  BY <1>8 DEF IsRun
<1>10. /\ s.op = new /\ s.gas \in Nat /\ s.funds = result.funds
       /\ s.rewards = r.rewards /\ s.ok = r.ok
  BY <1>1, <1>9
<1> QED BY <1>1, <1>2, <1>3, <1>7, <1>9, <1>10 DEF Stepped

(* A step that is not the current one is passed; the current one is done   *)
(* unless some amount is left.                                             *)
Advances(s, r, step, left, next_step) ==
    /\ r.op.step # step => s = r
    /\ r.op.step = step => \/ s.op.step = step /\ left > 0
                           \/ s.op.step = next_step

WaitingStaged(s, op, fs, nonce, w, a, u, d, v, y, z) ==
    \E n \in Nat : Stage(s, op, fs, nonce, w, a, u, d, v, n, y, z)

(* The first swap of a cap change, interrupted or not.                     *)
LEMMA WaitingStage ==
    ASSUME NEW fs \in Seq(Item), NEW nonce \in Nat, block_nonce = nonce,
           NEW op, OpShape(op), NEW w \in Nat, NEW a \in Nat, NEW u \in Nat,
           NEW d \in Nat, NEW v \in Nat, NEW x \in Nat, NEW y \in Nat,
           NEW z \in Nat, NEW r, Stage(r, op, fs, nonce, w, a, u, d, v, x, y, z),
           NEW s, s = swap_waiting_step(r)
    PROVE  /\ Advances(s, r, "SwapWaitingToActive", s.op.waiting_to_active, "SwapUnstakedToDeferredPayment")
           /\ WaitingStaged(s, op, fs, nonce, w, a, u, d, v, y, z)
<1>1. CASE r.op.step # "SwapWaitingToActive"
  <2>1. s = r
    BY <1>1 DEF swap_waiting_step, swap_step
  <2> QED BY <1>1, <2>1 DEF Advances, WaitingStaged
<1>2. CASE r.op.step = "SwapWaitingToActive"
  <2>1. PICK gs \in Seq(Item), amount \in Nat, gas \in Nat :
           gs = r.funds /\ amount = r.op.waiting_to_active /\ gas = r.gas
    BY DEF Stage, IsRun, OpShape, IsOp
  <2>2. PICK result : result = swap_waiting_to_active(gs, amount, gas)
    OBVIOUS
  <2>3. /\ Shift(result, gs, amount, OfType("Waiting"), "Waiting", "Active")
        /\ result.visited <= gas
    BY <2>2, WaitingToActive
  <2>4. PICK left \in Nat, n \in Nat :
           left = result.left /\ n = amount - left
    <3>1. result.left \in Nat /\ result.left <= amount
      BY <2>3 DEF Shift
    <3> QED BY ONLY <3>1, amount \in Nat
  <2>5. /\ w - x \in Nat /\ (a + x) - z \in Nat /\ u - y \in Nat
        /\ (d + y) + z \in Nat
    BY DEF Stage
  <2>6. TypeTotals(gs, w - x, (a + x) - z, u - y, (d + y) + z, v)
    BY <2>1 DEF Stage
  <2>7. TypeTotals(result.funds, (w - x) - n, ((a + x) - z) + n, u - y, (d + y) + z, v)
    BY <2>3, <2>4, <2>5, <2>6, WaitingToActiveTotals
  <2>8. n <= w - x
    BY <2>3, <2>4, <2>6, TypeTotal DEF Shift, TypeTotals
  <2>9. Follows(result.funds, gs, nonce) /\ Follows(gs, fs, nonce)
    BY <2>1, <2>2, SwapsFollow DEF Stage
  <2>10. Follows(result.funds, fs, nonce) /\ result.funds \in Seq(Item)
    BY <2>3, <2>9, FollowsTransitive DEF Shift
  <2>11. s = swap_step(r, "SwapWaitingToActive", "waiting_to_active", result, "SwapUnstakedToDeferredPayment")
    BY <2>1, <2>2 DEF swap_waiting_step
  <2>12. /\ IsRun(r) /\ result.left \in Nat /\ result.visited \in Nat
         /\ result.visited <= r.gas
    BY <2>1, <2>3 DEF Stage, Shift
  <2>13. "SwapWaitingToActive" \in SwapSteps /\ "SwapUnstakedToDeferredPayment" \in SwapSteps
    BY DEF SwapSteps
  <2>14. /\ s = [op |-> s.op, funds |-> s.funds, rewards |-> s.rewards,
                 gas |-> s.gas, ok |-> s.ok]
         /\ s.gas \in Nat /\ s.funds = result.funds
         /\ IsOp(s.op) /\ s.op.last_id = r.op.last_id
         /\ s.op.op = r.op.op /\ s.op.new_value = r.op.new_value
         /\ s.op.step = IF result.left > 0 THEN "SwapWaitingToActive" ELSE "SwapUnstakedToDeferredPayment"
         /\ s.op.waiting_to_active = result.left
         /\ s.op.unstaked_to_def_p = r.op.unstaked_to_def_p
         /\ s.op.active_to_def_p = r.op.active_to_def_p
    <3>1. Stepped(s, r, result, "SwapWaitingToActive", "waiting_to_active", "SwapUnstakedToDeferredPayment")
      BY <1>2, <2>11, <2>12, <2>13, SwapStepRun
    <3> QED BY <3>1 DEF Stepped
  <2>15. PICK p \in Nat, q \in Nat, t \in Nat :
            /\ p = op.waiting_to_active /\ q = op.unstaked_to_def_p
            /\ t = op.active_to_def_p /\ (p = 0 \/ (q = 0 /\ t = 0))
    BY DEF OpShape, IsOp
  <2>16. /\ r.op.waiting_to_active = p - x /\ r.op.unstaked_to_def_p = q - y
         /\ r.op.active_to_def_p = t - z
         /\ r.op.op = op.op /\ r.op.new_value = op.new_value
    BY <2>15 DEF Stage
  <2>161. /\ y > 0 => x = p
          /\ z > 0 => x = p /\ y = q
          /\ x <= w /\ y <= u /\ z <= a + x
    BY <2>15 DEF Stage
  <2>17. /\ p - x \in Nat /\ q - y \in Nat /\ t - z \in Nat
    BY <2>16 DEF Stage, IsRun, OpShape, IsOp
  <2>18. /\ p - x = 0 \/ (q - y = 0 /\ t - z = 0)
    BY <1>2, <2>16, <2>17 DEF Stage, IsRun, OpShape, SwapSteps
  <2>19. PICK m \in Nat : m = x + n
    BY ONLY x \in Nat, n \in Nat
  <2>20. /\ left = p - m /\ s.op.waiting_to_active = left
         /\ s.op.unstaked_to_def_p = q - y
         /\ s.op.active_to_def_p = t - z
    <3>1. amount = p - x
      BY <2>1, <2>16
    <3>2. n = amount - left
      BY <2>4
    <3>3. left = p - m
      BY <2>19, <3>1, <3>2
    <3> QED BY <2>4, <2>14, <2>16, <3>3
  <2>21. /\ s.op.step = IF left > 0 THEN "SwapWaitingToActive" ELSE "SwapUnstakedToDeferredPayment"
         /\ s.op.last_id <= num_users
    BY <2>4, <2>14 DEF Stage, IsRun, OpShape
  <2>22. OpShape(s.op)
    <3>1. IsOp(s.op)
      BY <2>14
    <3>2. s.op.waiting_to_active = 0
            \/ (s.op.unstaked_to_def_p = 0 /\ s.op.active_to_def_p = 0)
      BY ONLY <2>17, <2>18, <2>19, <2>20, x \in Nat, y \in Nat, z \in Nat,
              p \in Nat, q \in Nat, t \in Nat, n \in Nat, m \in Nat,
              left \in Nat
    <3>3. /\ s.op.step \in SwapSteps /\ s.op.step # "SwapWaitingToActive" =>
                s.op.waiting_to_active = 0
          /\ s.op.step \in {"SwapActiveToDeferredPayment", "Finished"} =>
                s.op.unstaked_to_def_p = 0
          /\ s.op.step = "Finished" => s.op.active_to_def_p = 0
      BY ONLY <2>18, <2>20, <2>21, left \in Nat
    <3> QED BY <2>21, <3>1, <3>2, <3>3 DEF OpShape
  <2>23. IsRun(s)
    BY <2>14, <2>22 DEF IsRun
  <2>24. TypeTotals(s.funds, w - m, (a + m) - z, u - y, (d + y) + z, v)
    <3>1. (w - x) - n = w - m /\ ((a + x) - z) + n = (a + m) - z
      BY <2>19
    <3> QED BY <2>7, <2>14, <3>1
  <2>25. /\ y > 0 => m = p
         /\ z > 0 => m = p /\ y = q
         /\ m <= w /\ z <= a + m
    <3>1. left = p - m
      BY ONLY <2>20
    <3>2. x = p => m = p
      BY ONLY <2>19, <3>1, x \in Nat, p \in Nat, n \in Nat, m \in Nat,
              left \in Nat
    <3>3. m <= w
      BY ONLY <2>8, <2>19, x \in Nat, n \in Nat, w \in Nat
    <3>4. x <= m
      BY ONLY <2>19, x \in Nat, n \in Nat
    <3>5. z <= a + m
      BY ONLY <2>161, <3>4, x \in Nat, z \in Nat, a \in Nat, m \in Nat
    <3> QED BY ONLY <2>161, <3>2, <3>3, <3>5
  <2>26. Stage(s, op, fs, nonce, w, a, u, d, v, m, y, z)
    BY <2>10, <2>14, <2>15, <2>16, <2>161, <2>20, <2>23, <2>24, <2>25 DEF Stage
  <2> QED BY <1>2, <2>20, <2>21, <2>26 DEF Advances, WaitingStaged
<1> QED BY <1>1, <1>2

UnstakedStaged(s, op, fs, nonce, w, a, u, d, v, x, z) ==
    \E n \in Nat : Stage(s, op, fs, nonce, w, a, u, d, v, x, n, z)

(* The second swap of a cap change, interrupted or not.                    *)
LEMMA UnstakedStage ==
    ASSUME NEW fs \in Seq(Item), NEW nonce \in Nat, block_nonce = nonce,
           NEW op, OpShape(op), NEW w \in Nat, NEW a \in Nat, NEW u \in Nat,
           NEW d \in Nat, NEW v \in Nat, NEW x \in Nat, NEW y \in Nat,
           NEW z \in Nat, NEW r, Stage(r, op, fs, nonce, w, a, u, d, v, x, y, z),
           NEW s, s = swap_unstaked_step(r)
    PROVE  /\ Advances(s, r, "SwapUnstakedToDeferredPayment", s.op.unstaked_to_def_p, "SwapActiveToDeferredPayment")
           /\ UnstakedStaged(s, op, fs, nonce, w, a, u, d, v, x, z)
<1>1. CASE r.op.step # "SwapUnstakedToDeferredPayment"
  <2>1. s = r
    BY <1>1 DEF swap_unstaked_step, swap_step
  <2> QED BY <1>1, <2>1 DEF Advances, UnstakedStaged
<1>2. CASE r.op.step = "SwapUnstakedToDeferredPayment"
  <2>1. PICK gs \in Seq(Item), amount \in Nat, gas \in Nat :
           gs = r.funds /\ amount = r.op.unstaked_to_def_p /\ gas = r.gas
    BY DEF Stage, IsRun, OpShape, IsOp
  <2>2. PICK result : result = swap_unstaked_to_deferred_payment(gs, amount, gas)
    OBVIOUS
  <2>3. /\ Shift(result, gs, amount, OfType("UnStaked"), "UnStaked", "DeferredPayment")
        /\ result.visited <= gas
    BY <2>2, UnstakedToDeferred
  <2>4. PICK left \in Nat, n \in Nat :
           left = result.left /\ n = amount - left
    <3>1. result.left \in Nat /\ result.left <= amount
      BY <2>3 DEF Shift
    <3> QED BY ONLY <3>1, amount \in Nat
  <2>5. /\ w - x \in Nat /\ (a + x) - z \in Nat /\ u - y \in Nat
        /\ (d + y) + z \in Nat
    BY DEF Stage
  <2>6. TypeTotals(gs, w - x, (a + x) - z, u - y, (d + y) + z, v)
    BY <2>1 DEF Stage
  <2>7. TypeTotals(result.funds, w - x, (a + x) - z, (u - y) - n, ((d + y) + z) + n, v)
    BY <2>3, <2>4, <2>5, <2>6, UnstakedToDeferredTotals
  <2>8. n <= u - y
    BY <2>3, <2>4, <2>6, TypeTotal DEF Shift, TypeTotals
  <2>9. Follows(result.funds, gs, nonce) /\ Follows(gs, fs, nonce)
    BY <2>1, <2>2, SwapsFollow DEF Stage
  <2>10. Follows(result.funds, fs, nonce) /\ result.funds \in Seq(Item)
    BY <2>3, <2>9, FollowsTransitive DEF Shift
  <2>11. s = swap_step(r, "SwapUnstakedToDeferredPayment", "unstaked_to_def_p", result, "SwapActiveToDeferredPayment")
    BY <2>1, <2>2 DEF swap_unstaked_step
  <2>12. /\ IsRun(r) /\ result.left \in Nat /\ result.visited \in Nat
         /\ result.visited <= r.gas
    BY <2>1, <2>3 DEF Stage, Shift
  <2>13. "SwapUnstakedToDeferredPayment" \in SwapSteps /\ "SwapActiveToDeferredPayment" \in SwapSteps
    BY DEF SwapSteps
  <2>14. /\ s = [op |-> s.op, funds |-> s.funds, rewards |-> s.rewards,
                 gas |-> s.gas, ok |-> s.ok]
         /\ s.gas \in Nat /\ s.funds = result.funds
         /\ IsOp(s.op) /\ s.op.last_id = r.op.last_id
         /\ s.op.op = r.op.op /\ s.op.new_value = r.op.new_value
         /\ s.op.step = IF result.left > 0 THEN "SwapUnstakedToDeferredPayment" ELSE "SwapActiveToDeferredPayment"
         /\ s.op.waiting_to_active = r.op.waiting_to_active
         /\ s.op.unstaked_to_def_p = result.left
         /\ s.op.active_to_def_p = r.op.active_to_def_p
    <3>1. Stepped(s, r, result, "SwapUnstakedToDeferredPayment", "unstaked_to_def_p", "SwapActiveToDeferredPayment")
      BY <1>2, <2>11, <2>12, <2>13, SwapStepRun
    <3> QED BY <3>1 DEF Stepped
  <2>15. PICK p \in Nat, q \in Nat, t \in Nat :
            /\ p = op.waiting_to_active /\ q = op.unstaked_to_def_p
            /\ t = op.active_to_def_p /\ (p = 0 \/ (q = 0 /\ t = 0))
    BY DEF OpShape, IsOp
  <2>16. /\ r.op.waiting_to_active = p - x /\ r.op.unstaked_to_def_p = q - y
         /\ r.op.active_to_def_p = t - z
         /\ r.op.op = op.op /\ r.op.new_value = op.new_value
    BY <2>15 DEF Stage
  <2>161. /\ y > 0 => x = p
          /\ z > 0 => x = p /\ y = q
          /\ x <= w /\ y <= u /\ z <= a + x
    BY <2>15 DEF Stage
  <2>17. /\ p - x \in Nat /\ q - y \in Nat /\ t - z \in Nat
    BY <2>16 DEF Stage, IsRun, OpShape, IsOp
  <2>18. /\ p - x = 0 \/ (q - y = 0 /\ t - z = 0)
         /\ p - x = 0
    BY <1>2, <2>16, <2>17 DEF Stage, IsRun, OpShape, SwapSteps
  <2>19. PICK m \in Nat : m = y + n
    BY ONLY y \in Nat, n \in Nat
  <2>20. /\ left = q - m /\ s.op.unstaked_to_def_p = left
         /\ s.op.waiting_to_active = p - x
         /\ s.op.active_to_def_p = t - z
    <3>1. amount = q - y
      BY <2>1, <2>16
    <3>2. n = amount - left
      BY <2>4
    <3>3. left = q - m
      BY <2>19, <3>1, <3>2
    <3> QED BY <2>4, <2>14, <2>16, <3>3
  <2>21. /\ s.op.step = IF left > 0 THEN "SwapUnstakedToDeferredPayment" ELSE "SwapActiveToDeferredPayment"
         /\ s.op.last_id <= num_users
    BY <2>4, <2>14 DEF Stage, IsRun, OpShape
  <2>22. OpShape(s.op)
    <3>1. IsOp(s.op)
      BY <2>14
    <3>2. s.op.waiting_to_active = 0
            \/ (s.op.unstaked_to_def_p = 0 /\ s.op.active_to_def_p = 0)
      BY ONLY <2>17, <2>18, <2>19, <2>20, x \in Nat, y \in Nat, z \in Nat,
              p \in Nat, q \in Nat, t \in Nat, n \in Nat, m \in Nat,
              left \in Nat
    <3>3. /\ s.op.step \in SwapSteps /\ s.op.step # "SwapWaitingToActive" =>
                s.op.waiting_to_active = 0
          /\ s.op.step \in {"SwapActiveToDeferredPayment", "Finished"} =>
                s.op.unstaked_to_def_p = 0
          /\ s.op.step = "Finished" => s.op.active_to_def_p = 0
      BY ONLY <2>18, <2>20, <2>21, left \in Nat
    <3> QED BY <2>21, <3>1, <3>2, <3>3 DEF OpShape
  <2>23. IsRun(s)
    BY <2>14, <2>22 DEF IsRun
  <2>24. TypeTotals(s.funds, w - x, (a + x) - z, u - m, (d + m) + z, v)
    <3>1. (u - y) - n = u - m /\ ((d + y) + z) + n = (d + m) + z
      BY <2>19
    <3> QED BY <2>7, <2>14, <3>1
  <2>25. /\ m > 0 => x = p
         /\ z > 0 => x = p /\ m = q
         /\ m <= u
    <3>1. left = q - m
      BY ONLY <2>20
    <3>2. x = p
      BY ONLY <2>18, x \in Nat, p \in Nat
    <3>3. y = q => m = q
      BY ONLY <2>19, <3>1, y \in Nat, q \in Nat, n \in Nat, m \in Nat,
              left \in Nat
    <3>4. m <= u
      BY ONLY <2>8, <2>19, y \in Nat, n \in Nat, u \in Nat
    <3> QED BY ONLY <2>161, <3>2, <3>3, <3>4
  <2>26. Stage(s, op, fs, nonce, w, a, u, d, v, x, m, z)
    BY <2>10, <2>14, <2>15, <2>16, <2>161, <2>20, <2>23, <2>24, <2>25 DEF Stage
  <2> QED BY <1>2, <2>20, <2>21, <2>26 DEF Advances, UnstakedStaged
<1> QED BY <1>1, <1>2

ActiveStaged(s, op, fs, nonce, w, a, u, d, v, x, y) ==
    \E n \in Nat : Stage(s, op, fs, nonce, w, a, u, d, v, x, y, n)

(* The third swap of a cap change, interrupted or not.                     *)
LEMMA ActiveStage ==
    ASSUME NEW fs \in Seq(Item), NEW nonce \in Nat, block_nonce = nonce,
           NEW op, OpShape(op), NEW w \in Nat, NEW a \in Nat, NEW u \in Nat,
           NEW d \in Nat, NEW v \in Nat, NEW x \in Nat, NEW y \in Nat,
           NEW z \in Nat, NEW r, Stage(r, op, fs, nonce, w, a, u, d, v, x, y, z),
           NEW s, s = swap_active_step(r)
    PROVE  /\ Advances(s, r, "SwapActiveToDeferredPayment", s.op.active_to_def_p, "Finished")
           /\ ActiveStaged(s, op, fs, nonce, w, a, u, d, v, x, y)
<1>1. CASE r.op.step # "SwapActiveToDeferredPayment"
  <2>1. s = r
    BY <1>1 DEF swap_active_step, swap_step
  <2> QED BY <1>1, <2>1 DEF Advances, ActiveStaged
<1>2. CASE r.op.step = "SwapActiveToDeferredPayment"
  <2>1. PICK gs \in Seq(Item), amount \in Nat, gas \in Nat :
           gs = r.funds /\ amount = r.op.active_to_def_p /\ gas = r.gas
    BY DEF Stage, IsRun, OpShape, IsOp
  <2>2. PICK result : result = swap_active_to_deferred_payment(gs, amount, nonce, gas)
    OBVIOUS
  <2>3. /\ Shift(result, gs, amount, OfType("Active"), "Active", "DeferredPayment")
        /\ result.visited <= gas
    BY <2>2, ActiveToDeferred
  <2>4. PICK left \in Nat, n \in Nat :
           left = result.left /\ n = amount - left
    <3>1. result.left \in Nat /\ result.left <= amount
      BY <2>3 DEF Shift
    <3> QED BY ONLY <3>1, amount \in Nat
  <2>5. /\ w - x \in Nat /\ (a + x) - z \in Nat /\ u - y \in Nat
        /\ (d + y) + z \in Nat
    BY DEF Stage
  <2>6. TypeTotals(gs, w - x, (a + x) - z, u - y, (d + y) + z, v)
    BY <2>1 DEF Stage
  <2>7. TypeTotals(result.funds, w - x, ((a + x) - z) - n, u - y, ((d + y) + z) + n, v)
    BY <2>3, <2>4, <2>5, <2>6, ActiveToDeferredTotals
  <2>8. n <= (a + x) - z
    BY <2>3, <2>4, <2>6, TypeTotal DEF Shift, TypeTotals
  <2>9. Follows(result.funds, gs, nonce) /\ Follows(gs, fs, nonce)
    BY <2>1, <2>2, SwapsFollow DEF Stage
  <2>10. Follows(result.funds, fs, nonce) /\ result.funds \in Seq(Item)
    BY <2>3, <2>9, FollowsTransitive DEF Shift
  <2>11. s = swap_step(r, "SwapActiveToDeferredPayment", "active_to_def_p", result, "Finished")
    BY <2>1, <2>2 DEF swap_active_step
  <2>12. /\ IsRun(r) /\ result.left \in Nat /\ result.visited \in Nat
         /\ result.visited <= r.gas
    BY <2>1, <2>3 DEF Stage, Shift
  <2>13. "SwapActiveToDeferredPayment" \in SwapSteps /\ "Finished" \in SwapSteps
    BY DEF SwapSteps
  <2>14. /\ s = [op |-> s.op, funds |-> s.funds, rewards |-> s.rewards,
                 gas |-> s.gas, ok |-> s.ok]
         /\ s.gas \in Nat /\ s.funds = result.funds
         /\ IsOp(s.op) /\ s.op.last_id = r.op.last_id
         /\ s.op.op = r.op.op /\ s.op.new_value = r.op.new_value
         /\ s.op.step = IF result.left > 0 THEN "SwapActiveToDeferredPayment" ELSE "Finished"
         /\ s.op.waiting_to_active = r.op.waiting_to_active
         /\ s.op.unstaked_to_def_p = r.op.unstaked_to_def_p
         /\ s.op.active_to_def_p = result.left
    <3>1. Stepped(s, r, result, "SwapActiveToDeferredPayment", "active_to_def_p", "Finished")
      BY <1>2, <2>11, <2>12, <2>13, SwapStepRun
    <3> QED BY <3>1 DEF Stepped
  <2>15. PICK p \in Nat, q \in Nat, t \in Nat :
            /\ p = op.waiting_to_active /\ q = op.unstaked_to_def_p
            /\ t = op.active_to_def_p /\ (p = 0 \/ (q = 0 /\ t = 0))
    BY DEF OpShape, IsOp
  <2>16. /\ r.op.waiting_to_active = p - x /\ r.op.unstaked_to_def_p = q - y
         /\ r.op.active_to_def_p = t - z
         /\ r.op.op = op.op /\ r.op.new_value = op.new_value
    BY <2>15 DEF Stage
  <2>161. /\ y > 0 => x = p
          /\ z > 0 => x = p /\ y = q
          /\ x <= w /\ y <= u /\ z <= a + x
    BY <2>15 DEF Stage
  <2>17. /\ p - x \in Nat /\ q - y \in Nat /\ t - z \in Nat
    BY <2>16 DEF Stage, IsRun, OpShape, IsOp
  <2>18. /\ p - x = 0 \/ (q - y = 0 /\ t - z = 0)
         /\ p - x = 0 /\ q - y = 0
    BY <1>2, <2>16, <2>17 DEF Stage, IsRun, OpShape, SwapSteps
  <2>19. PICK m \in Nat : m = z + n
    BY ONLY z \in Nat, n \in Nat
  <2>20. /\ left = t - m /\ s.op.active_to_def_p = left
         /\ s.op.waiting_to_active = p - x
         /\ s.op.unstaked_to_def_p = q - y
    <3>1. amount = t - z
      BY <2>1, <2>16
    <3>2. n = amount - left
      BY <2>4
    <3>3. left = t - m
      BY <2>19, <3>1, <3>2
    <3> QED BY <2>4, <2>14, <2>16, <3>3
  <2>21. /\ s.op.step = IF left > 0 THEN "SwapActiveToDeferredPayment" ELSE "Finished"
         /\ s.op.last_id <= num_users
    BY <2>4, <2>14 DEF Stage, IsRun, OpShape
  <2>22. OpShape(s.op)
    <3>1. IsOp(s.op)
      BY <2>14
    <3>2. s.op.waiting_to_active = 0
            \/ (s.op.unstaked_to_def_p = 0 /\ s.op.active_to_def_p = 0)
      BY ONLY <2>17, <2>18, <2>19, <2>20, x \in Nat, y \in Nat, z \in Nat,
              p \in Nat, q \in Nat, t \in Nat, n \in Nat, m \in Nat,
              left \in Nat
    <3>3. /\ s.op.step \in SwapSteps /\ s.op.step # "SwapWaitingToActive" =>
                s.op.waiting_to_active = 0
          /\ s.op.step \in {"SwapActiveToDeferredPayment", "Finished"} =>
                s.op.unstaked_to_def_p = 0
          /\ s.op.step = "Finished" => s.op.active_to_def_p = 0
      BY ONLY <2>18, <2>20, <2>21, left \in Nat
    <3> QED BY <2>21, <3>1, <3>2, <3>3 DEF OpShape
  <2>23. IsRun(s)
    BY <2>14, <2>22 DEF IsRun
  <2>24. TypeTotals(s.funds, w - x, (a + x) - m, u - y, (d + y) + m, v)
    <3>1. ((a + x) - z) - n = (a + x) - m /\ ((d + y) + z) + n = (d + y) + m
      BY <2>19
    <3> QED BY <2>7, <2>14, <3>1
  <2>25. /\ m > 0 => x = p /\ y = q
         /\ m <= a + x
    <3>1. x = p /\ y = q
      BY ONLY <2>18, x \in Nat, p \in Nat, y \in Nat, q \in Nat
    <3>2. m <= a + x
      BY ONLY <2>8, <2>19, z \in Nat, n \in Nat, a \in Nat, x \in Nat
    <3> QED BY ONLY <3>1, <3>2
  <2>26. Stage(s, op, fs, nonce, w, a, u, d, v, x, y, m)
    BY <2>10, <2>14, <2>15, <2>16, <2>161, <2>20, <2>23, <2>24, <2>25 DEF Stage
  <2> QED BY <1>2, <2>20, <2>21, <2>26 DEF Advances, ActiveStaged
<1> QED BY <1>1, <1>2

Pending(op) == \/ op.waiting_to_active > 0
               \/ op.unstaked_to_def_p > 0
               \/ op.active_to_def_p > 0

(* What a transaction of the cap change op leaves.                         *)
CapRun(r, op, fs, nonce, w, a, u, d, v, x, y, z) ==
    /\ Stage(r, op, fs, nonce, w, a, u, d, v, x, y, z)
    /\ z <= a
    /\ r.op.step # "Finished" => Pending(r.op)
    /\ finished(r) <=> /\ x = op.waiting_to_active
                       /\ y = op.unstaked_to_def_p
                       /\ z = op.active_to_def_p

(* A transaction of a cap change moves some of what is pending, in order,  *)
(* and finishes exactly when it has moved all of it.                       *)
LEMMA CapSteps ==
    ASSUME num_users \in Nat, NEW nonce \in Nat, block_nonce = nonce,
           funds \in Seq(Item), NEW op, OpShape(op), op.step # "Finished",
           Pending(op), NEW gas \in Nat, NEW w \in Nat, NEW a \in Nat,
           NEW u \in Nat, NEW d \in Nat, NEW v \in Nat,
           TypeTotals(funds, w, a, u, d, v), NEW r, r = cap_steps(op, gas)
    PROVE  \E x, y, z \in Nat :
              CapRun(r, op, funds, nonce, w, a, u, d, v, x, y, z)
<1>1. PICK r0 : r0 = start(op, gas)
  OBVIOUS
<1>2. PICK r1 : r1 = compute_all_rewards(r0, "SwapWaitingToActive")
  OBVIOUS
<1>3. PICK r2 : r2 = swap_waiting_step(r1)
  OBVIOUS
<1>4. PICK r3 : r3 = swap_unstaked_step(r2)
  OBVIOUS
<1>5. r = swap_active_step(r3)
  BY <1>1, <1>2, <1>3, <1>4 DEF cap_steps
<1>6. IsRun(r0) /\ r0.funds = funds /\ r0.op = op
  BY <1>1 DEF start, IsRun
<1>7. ComputeRun(r1, r0, "SwapWaitingToActive")
  BY <1>2, <1>6, ComputeAllRuns
<1>8. /\ IsRun(r1) /\ r1.funds = funds /\ same_swaps(r1.op, op)
      /\ op.step # "ComputeAllRewards" => r1.op = op
      /\ op.step = "ComputeAllRewards" =>
            r1.op.step \in {"ComputeAllRewards", "SwapWaitingToActive"}
  BY <1>6, <1>7 DEF ComputeRun
<1>90. PICK o \in Nat : o = 0
  OBVIOUS
<1>9. Stage(r1, op, funds, nonce, w, a, u, d, v, o, o, o)
  <2>1. /\ w - 0 = w /\ (a + 0) - 0 = a /\ u - 0 = u /\ (d + 0) + 0 = d
        /\ 0 <= w /\ 0 <= u /\ 0 <= a + 0 /\ ~ (0 > 0)
    OBVIOUS
  <2>2. /\ op.waiting_to_active - 0 = op.waiting_to_active
        /\ op.unstaked_to_def_p - 0 = op.unstaked_to_def_p
        /\ op.active_to_def_p - 0 = op.active_to_def_p
    <3>1. /\ op.waiting_to_active \in Nat /\ op.unstaked_to_def_p \in Nat
          /\ op.active_to_def_p \in Nat
      BY DEF OpShape, IsOp
    <3> QED BY <3>1
  <2>3. Follows(funds, funds, nonce)
    BY FollowsItself
  <2> QED BY <1>8, <1>90, <2>1, <2>2, <2>3 DEF Stage, same_swaps
<1>10. /\ Advances(r2, r1, "SwapWaitingToActive",
                   r2.op.waiting_to_active, "SwapUnstakedToDeferredPayment")
       /\ WaitingStaged(r2, op, funds, nonce, w, a, u, d, v, o, o)
  BY <1>3, <1>9, WaitingStage
<1>11. PICK x \in Nat : Stage(r2, op, funds, nonce, w, a, u, d, v, x, o, o)
  BY <1>10 DEF WaitingStaged
<1>12. /\ Advances(r3, r2, "SwapUnstakedToDeferredPayment",
                   r3.op.unstaked_to_def_p, "SwapActiveToDeferredPayment")
       /\ UnstakedStaged(r3, op, funds, nonce, w, a, u, d, v, x, o)
  BY <1>4, <1>11, UnstakedStage
<1>13. PICK y \in Nat : Stage(r3, op, funds, nonce, w, a, u, d, v, x, y, o)
  BY <1>12 DEF UnstakedStaged
<1>14. /\ Advances(r, r3, "SwapActiveToDeferredPayment",
                   r.op.active_to_def_p, "Finished")
       /\ ActiveStaged(r, op, funds, nonce, w, a, u, d, v, x, y)
  BY <1>5, <1>13, ActiveStage
<1>15. PICK z \in Nat : Stage(r, op, funds, nonce, w, a, u, d, v, x, y, z)
  BY <1>14 DEF ActiveStaged
<1>16. /\ r1.op.step = "ComputeAllRewards" /\ Pending(r1.op)
       \/ r1.op.step \in SwapSteps \ {"Finished"}
  <2>1. Pending(r1.op)
    BY <1>8 DEF Pending, same_swaps
  <2>2. r1.op.step \in {"ComputeAllRewards"} \cup SwapSteps
    BY <1>8 DEF IsRun, OpShape, IsOp
  <2>3. r1.op.step # "Finished"
    BY <1>8
  <2> QED BY <2>1, <2>2, <2>3
<1>17. r.op.step # "Finished" => Pending(r.op)
  BY <1>10, <1>12, <1>14, <1>16 DEF Pending, SwapSteps, Advances
<1>18. PICK p \in Nat, q \in Nat, t \in Nat :
         /\ p = op.waiting_to_active /\ q = op.unstaked_to_def_p
         /\ t = op.active_to_def_p /\ (p = 0 \/ (q = 0 /\ t = 0))
  BY DEF OpShape, IsOp
<1>19. /\ r.op.waiting_to_active = p - x /\ r.op.unstaked_to_def_p = q - y
       /\ r.op.active_to_def_p = t - z
       /\ p - x \in Nat /\ q - y \in Nat /\ t - z \in Nat
  BY <1>15, <1>18 DEF Stage, IsRun, OpShape, IsOp
<1>20. z <= a
  <2>1. z <= a + x
    BY <1>15 DEF Stage
  <2>2. (p = 0 \/ t = 0) /\ p - x \in Nat /\ t - z \in Nat
    BY <1>18, <1>19
  <2> QED BY <2>1, <2>2
<1>21. r.op.step = "Finished" => p - x = 0 /\ q - y = 0 /\ t - z = 0
  BY <1>15, <1>19 DEF Stage, IsRun, OpShape, SwapSteps
<1>22. r.op.step # "Finished" => p - x > 0 \/ q - y > 0 \/ t - z > 0
  BY <1>17, <1>19 DEF Pending
<1>23. finished(r) <=> x = p /\ y = q /\ z = t
  BY <1>19, <1>21, <1>22 DEF finished
<1>24. CapRun(r, op, funds, nonce, w, a, u, d, v, x, y, z)
  BY <1>15, <1>17, <1>18, <1>20, <1>23 DEF CapRun
<1> QED BY <1>24

(* The checkpoint stored between two transactions.                         *)
OpInv ==
    /\ OpShape(global_op)
    /\ global_op.step # "Finished"
    /\ global_op.op = "None" => global_op = NoGlobalOp
    /\ global_op.op = "ModifyTotalDelegationCap" => Pending(global_op)
    /\ global_op.op # "ModifyTotalDelegationCap" =>
          /\ global_op.step = "ComputeAllRewards"
          /\ global_op.waiting_to_active = 0
          /\ global_op.unstaked_to_def_p = 0
          /\ global_op.active_to_def_p = 0

Basics ==
    /\ num_users \in Users
    /\ total_delegation_cap \in Nat
    /\ bootstrap_mode \in BOOLEAN
    /\ block_nonce \in 0 .. NonceBound
    /\ OpInv

(* What the contract stores, as far as the items are concerned.            *)
BookInv == FundsInv /\ Basics

(* The sets the stored counters belong to.                                 *)
LEMMA BasicFacts ==
    ASSUME Basics
    PROVE  /\ num_users \in Nat /\ 1 <= num_users
           /\ block_nonce \in Nat
           /\ Users \subseteq Nat /\ NumUsers \in Nat
BY DelegationAssumption DEF Basics, Users

(* The checkpoint that says no operation is under way.                     *)
LEMMA NoOpShape ==
    ASSUME num_users \in Nat
    PROVE  /\ OpShape(NoGlobalOp) /\ NoGlobalOp.step # "Finished"
           /\ NoGlobalOp.op = "None"
           /\ NoGlobalOp.step = "ComputeAllRewards"
           /\ NoGlobalOp.waiting_to_active = 0
           /\ NoGlobalOp.unstaked_to_def_p = 0
           /\ NoGlobalOp.active_to_def_p = 0 /\ NoGlobalOp.new_value = 0
BY DEF NoGlobalOp, OpShape, IsOp, SwapSteps

-----------------------------------------------------------------------------
(* The endpoints *)

(* use_waiting_to_replace_unstaked and the end of the transaction.         *)
LEMMA UseWaitingMaps ==
    ASSUME NEW r, NEW w \in Nat, NEW a \in Nat, NEW u \in Nat, NEW d \in Nat,
           NEW x \in Nat, Replaced(r, w, a, u, d, x), r.funds \in Seq(Item),
           bootstrap_mode \in BOOLEAN, total_delegation_cap \in Nat,
           funds' = save(r.funds), bootstrap_mode' = r.bootstrap
    PROVE  /\ L!use_waiting_to_replace_unstaked(w, a, u, d)
           /\ total_of_type(funds', "WithdrawOnly") = x
           /\ bootstrap_mode' \in BOOLEAN
<1>1. PICK gs : gs = r.funds
  OBVIOUS
<1>2. gs \in Seq(Item) /\ funds' = save(gs)
  BY <1>1
<1>3. CASE bootstrap_mode
  <2>1. PICK filled, fillable : filled = Smaller(fillable, w)
           /\ fillable = total_delegation_cap - a
    OBVIOUS
  <2>2. /\ fillable >= 0
        /\ TypeTotals(gs, w - filled, a + filled, 0, d + u, x)
        /\ r.bootstrap = (filled # fillable)
    BY <1>1, <1>3, <2>1 DEF Replaced
  <2>3. TypeTotals(funds', w - filled, a + filled, 0, d + u, x)
    BY <1>2, <2>2, SaveTotals
  <2> QED
    BY <1>3, <2>1, <2>2, <2>3
    DEF TypeTotals, Smaller, L!use_waiting_to_replace_unstaked, L!min
<1>4. CASE ~ bootstrap_mode
  <2>1. PICK n : n = Smaller(w, u)
    OBVIOUS
  <2>2. /\ TypeTotals(gs, w - n, a + n, u - n, d + n, x)
        /\ r.bootstrap = FALSE
    BY <1>1, <1>4, <2>1 DEF Replaced
  <2>3. TypeTotals(funds', w - n, a + n, u - n, d + n, x)
    BY <1>2, <2>2, SaveTotals
  <2> QED
    BY <1>4, <2>1, <2>2, <2>3
    DEF TypeTotals, Smaller, L!use_waiting_to_replace_unstaked, L!min
<1> QED BY <1>3, <1>4

(* An endpoint that leaves the global operation alone.                     *)
LEMMA BasicsKept ==
    ASSUME Basics, num_users' \in Users, num_users <= num_users',
           total_delegation_cap' \in Nat, bootstrap_mode' \in BOOLEAN,
           global_op' = global_op, block_nonce' = block_nonce
    PROVE  Basics'
<1>1. num_users \in Nat /\ num_users' \in Nat
  BY DelegationAssumption DEF Basics, Users
<1>2. OpShape(global_op) /\ global_op.last_id \in Nat
  BY DEF Basics, OpInv, OpShape, IsOp
<1>3. OpShape(global_op)'
  BY <1>1, <1>2 DEF OpShape, IsOp, SwapSteps
<1>4. OpInv'
  BY <1>3 DEF Basics, OpInv, Pending, NoGlobalOp
<1> QED BY <1>4 DEF Basics

(* The user u deposits, and then funds are relabelled.                     *)
Deposited(fs, u, payment) ==
    /\ fs \in Seq(Item)
    /\ \A K : Total(fs, K) = Total(funds, K)
                  + IF <<u, Waiting>> \in K THEN payment ELSE 0
    /\ Follows(funds', fs, block_nonce)

Deposits(u, payment) == \E fs : Deposited(fs, u, payment)

(* stake keeps the book sound and is a step of the ledger.                 *)
LEMMA StakeStep ==
    ASSUME BookInv, NEW u \in Users, NEW payment \in Payments,
           stake_endpoint(u, payment)
    PROVE  /\ BookInv' /\ Deposits(u, payment) /\ L!stake_endpoint(payment)
<1>1. /\ num_users \in Nat /\ block_nonce \in Nat /\ u \in Nat
      /\ payment \in Nat /\ u \in 1 .. num_users + 1
      /\ total_delegation_cap \in Nat /\ bootstrap_mode \in BOOLEAN
  BY DelegationAssumption DEF BookInv, Basics, Users, stake_endpoint
<1>2. Orderly(funds, num_users, block_nonce) /\ funds \in Seq(Item)
  BY DEF BookInv, FundsInv, Sound, Orderly
<1>3. PICK w, a, s, d, x \in Nat : TypeTotals(funds, w, a, s, d, x)
  BY <1>2, HasTotals
<1>4. PICK fs : fs = create_waiting(funds, u, payment)
  OBVIOUS
<1>5. PICK m : m = IF u > num_users THEN u ELSE num_users
  OBVIOUS
<1>6. /\ num_users' = m
      /\ Everything(funds) + payment <= DepositBound
      /\ ~ is_global_op_in_progress
      /\ validate_delegation_cap_invariant(fs)
      /\ commit(use_waiting_to_replace_unstaked(fs, user_rewards))
      /\ sc_balance' = sc_balance + payment
      /\ UNCHANGED <<total_delegation_cap, service_fee, limits, global_op,
                   total_rewards, sent_rewards, auction_stake, chain>>
  BY <1>4, <1>5 DEF stake_endpoint
<1>7. /\ Orderly(fs, m, block_nonce)
      /\ \A K : Total(fs, K) = Total(funds, K)
                   + IF <<u, Waiting>> \in K THEN payment ELSE 0
  BY <1>1, <1>2, <1>4, <1>5, <1>6, CreatedIsOrderly
<1>8. fs \in Seq(Item)
  BY <1>7 DEF Orderly
<1>9. TypeTotals(fs, w + payment, a, s, d, x)
  <2>1. ASSUME NEW t
        PROVE  total_of_type(fs, t) = total_of_type(funds, t)
                  + IF t = "Waiting" THEN payment ELSE 0
    <3>1. <<u, Waiting>> \in OfType(t) <=> t = "Waiting"
      BY <1>1 DEF OfType, Keys, Waiting, Desc, FundType
    <3>2. /\ total_of_type(fs, t) = Total(fs, OfType(t))
          /\ total_of_type(funds, t) = Total(funds, OfType(t))
      BY <1>2, <1>8, TypeTotal
    <3> QED BY <1>7, <3>1, <3>2
  <2> QED BY <1>1, <1>3, <2>1 DEF TypeTotals
<1>10. PICK r : r = use_waiting_to_replace_unstaked(fs, user_rewards)
  OBVIOUS
<1>11. r.ok /\ funds' = save(r.funds) /\ bootstrap_mode' = r.bootstrap
  BY <1>6, <1>10 DEF commit, commit_funds
<1>12. w + payment \in Nat
  BY <1>1
<1>13. Replaces(r, fs, block_nonce, w + payment, a, s, d, x)
  BY <1>1, <1>8, <1>9, <1>10, <1>11, <1>12, UseWaiting
<1>14. /\ Follows(r.funds, fs, block_nonce) /\ r.funds \in Seq(Item)
       /\ Replaced(r, w + payment, a, s, d, x)
  BY <1>13 DEF Replaces, Follows
<1>15. /\ L!use_waiting_to_replace_unstaked(w + payment, a, s, d)
       /\ total_of_type(funds', "WithdrawOnly") = x
       /\ bootstrap_mode' \in BOOLEAN
  BY <1>1, <1>11, <1>12, <1>14, UseWaitingMaps
<1>16. /\ Sound(funds', m, block_nonce)
       /\ \A K : UserKind(K) => Total(funds', K) = Total(fs, K)
  <2>1. Keeps(r.funds, fs, block_nonce)
    BY <1>1, <1>8, <1>14, FollowsKeeps
  <2> QED BY <1>1, <1>7, <1>11, <2>1, KeptIsSound
<1>17. FundsInv'
  BY <1>6, <1>16 DEF FundsInv, Sound, Orderly, chain
<1>18. Basics'
  <2>1. m \in Users /\ num_users <= m
    BY <1>1, <1>5 DEF BookInv, Basics
  <2> QED BY <1>1, <1>6, <1>15, <2>1, BasicsKept DEF BookInv, chain
<1>19. Deposits(u, payment)
  <2>1. Follows(save(r.funds), r.funds, block_nonce)
    BY <1>14, SaveFollows
  <2>2. Follows(funds', fs, block_nonce)
    BY <1>8, <1>11, <1>14, <2>1, FollowsTransitive
  <2>3. Deposited(fs, u, payment)
    BY <1>7, <1>8, <2>2 DEF Deposited
  <2> QED BY <2>3 DEF Deposits
<1>20. L!stake_endpoint(payment)
  <2>1. L!delegation_cap_holds
    BY <1>3, <1>6, <1>9
    DEF validate_delegation_cap_invariant, TypeTotals, L!delegation_cap_holds
  <2>2. Everything(funds) = w + a + s + d + x
    BY <1>2, <1>3, EverythingIsTypes
  <2>3. L!total_stake + payment <= DepositBound
    BY <1>1, <1>3, <1>6, <2>2 DEF L!total_stake, TypeTotals
  <2>4. L!use_waiting_to_replace_unstaked(total_of_type(funds, "Waiting")
            + payment, total_of_type(funds, "Active"),
            total_of_type(funds, "UnStaked"),
            total_of_type(funds, "DeferredPayment"))
    BY <1>3, <1>15 DEF TypeTotals
  <2>5. total_of_type(funds', "WithdrawOnly")
           = total_of_type(funds, "WithdrawOnly")
    BY <1>3, <1>15 DEF TypeTotals
  <2> QED
    BY <1>6, <2>1, <2>3, <2>4, <2>5
    DEF L!stake_endpoint, L!opVars, L!is_global_op_in_progress,
        is_global_op_in_progress
<1> QED BY <1>17, <1>18, <1>19, <1>20 DEF BookInv

(* The transaction ends with the relabelled items gs.                      *)
LEMMA Relabelled ==
    ASSUME BookInv, NEW gs, Follows(gs, funds, block_nonce),
           funds' = save(gs), UNCHANGED <<num_users, block_nonce>>
    PROVE  FundsInv' /\ Follows(funds', funds, block_nonce)
<1>1. /\ block_nonce \in Nat /\ funds \in Seq(Item) /\ gs \in Seq(Item)
      /\ Orderly(funds, num_users, block_nonce)
  BY BasicFacts DEF BookInv, FundsInv, Sound, Orderly, Follows
<1>2. Sound(funds', num_users, block_nonce)
  BY <1>1, SavedIsSound
<1>3. FundsInv'
  BY <1>2 DEF FundsInv, Sound, Orderly
<1>4. Follows(save(gs), gs, block_nonce)
  BY <1>1, SaveFollows
<1>5. Follows(funds', funds, block_nonce)
  BY <1>1, <1>4, FollowsTransitive
<1> QED BY <1>3, <1>5

UnstakeLeaves ==
    /\ BookInv' /\ Follows(funds', funds, block_nonce)
    /\ sc_balance' = sc_balance
    /\ \E w \in 0 .. total_of_type(funds, "Waiting"),
          a \in 0 .. total_of_type(funds, "Active") : L!unstake_endpoint(w, a)

(* unStake keeps the book sound, relabels only and is a step of the        *)
(* ledger.                                                                 *)
LEMMA UnstakeStep ==
    ASSUME BookInv, NEW u \in Users, NEW amount \in Withdrawals,
           unstake_endpoint(u, amount)
    PROVE  UnstakeLeaves
<1>1. /\ num_users \in Nat /\ block_nonce \in Nat /\ u \in Nat
      /\ amount \in Nat
      /\ total_delegation_cap \in Nat /\ bootstrap_mode \in BOOLEAN
  BY BasicFacts, DelegationAssumption DEF BookInv, Basics
<1>2. funds \in Seq(Item)
  BY DEF BookInv, FundsInv, Sound, Orderly
<1>3. PICK w, a, s, d, x \in Nat : TypeTotals(funds, w, a, s, d, x)
  BY <1>2, HasTotals
<1>4. PICK r : r = swap_user_waiting_to_withdraw_only(funds, u, amount)
  OBVIOUS
<1>5. /\ unstake_rest(r, u)
      /\ ~ is_global_op_in_progress
      /\ UNCHANGED <<num_users, total_delegation_cap, service_fee, limits,
                   global_op, money, chain>>
  BY <1>4 DEF unstake_endpoint
<1>6. PICK K : K = OfUser(u) \cap OfType("Waiting")
  OBVIOUS
<1>7. Shift(r, funds, amount, K, "Waiting", "WithdrawOnly")
  BY <1>1, <1>2, <1>4, <1>6, UserWaitingToWithdrawOnly
<1>8. PICK o \in Nat : o = 0
  OBVIOUS
<1>9. Follows(r.funds, funds, block_nonce)
  BY <1>1, <1>2, <1>4, <1>8, SwapsFollow
<1>10. PICK fs \in Seq(Item) : fs = r.funds
  BY <1>9 DEF Follows
<1>11. PICK n \in Nat, left \in Nat :
          left = r.left /\ n = amount - left /\ n = amount - r.left
  BY <1>1, <1>7 DEF Shift
<1>12. TypeTotals(fs, w - n, a, s, d, x + n)
  BY <1>1, <1>3, <1>7, <1>10, <1>11, WaitingToWithdrawTotals
<1>13. w - n \in Nat /\ x + n \in Nat
  <2>1. PICK w1, a1, s1, d1, x1 \in Nat : TypeTotals(fs, w1, a1, s1, d1, x1)
    BY <1>10, HasTotals
  <2> QED BY <1>12, <2>1 DEF TypeTotals
<1>14. CASE left = 0
  <2>1. funds' = save(fs) /\ UNCHANGED <<user_rewards, bootstrap_mode>>
    BY <1>5, <1>10, <1>11, <1>14 DEF unstake_rest, commit_funds
  <2>2. FundsInv' /\ Follows(funds', funds, block_nonce)
    BY <1>5, <1>9, <1>10, <2>1, Relabelled DEF chain
  <2>3. Basics'
    BY <1>1, <1>5, <2>1, BasicsKept DEF BookInv, Basics, chain
  <2>4. TypeTotals(funds', w - n, a, s, d, x + n)
    BY <1>10, <1>12, <2>1, SaveTotals
  <2>5. L!unstake_endpoint(n, o)
    BY <1>3, <1>5, <1>8, <2>1, <2>4
    DEF L!unstake_endpoint, L!opVars, L!is_global_op_in_progress,
        is_global_op_in_progress, TypeTotals, L!money, money
  <2>6. /\ n \in 0 .. total_of_type(funds, "Waiting")
        /\ o \in 0 .. total_of_type(funds, "Active")
    BY <1>3, <1>8, <1>13 DEF TypeTotals
  <2> QED BY <1>5, <2>2, <2>3, <2>5, <2>6 DEF UnstakeLeaves, BookInv, money
<1>15. CASE left # 0
  <2>1. PICK q : q = swap_user_active_to_unstaked(fs, u, left, block_nonce)
    OBVIOUS
  <2>2. PICK rewards : rewards = compute_rewards_of({OWNER_USER_ID, u},
                                     user_rewards, fs)
    OBVIOUS
  <2>3. PICK t : t = use_waiting_to_replace_unstaked(q.funds, rewards)
    OBVIOUS
  <2>4. q.left = 0 /\ commit_unstake(t, u)
    BY <1>5, <1>10, <1>11, <1>15, <2>1, <2>2, <2>3 DEF unstake_rest
  <2>5. t.ok /\ funds' = save(t.funds) /\ bootstrap_mode' = t.bootstrap
    BY <2>4 DEF commit_unstake, commit, commit_funds
  <2>6. PICK J : J = OfUser(u) \cap OfType("Active")
    OBVIOUS
  <2>7. Shift(q, fs, left, J, "Active", "UnStaked")
    BY <1>1, <2>1, <2>6, UserActiveToUnstaked
  <2>8. Follows(q.funds, fs, block_nonce)
    BY <1>1, <1>8, <2>1, SwapsFollow
  <2>9. PICK gs \in Seq(Item) : gs = q.funds
    BY <2>8 DEF Follows
  <2>10. left = left - q.left
    BY <2>4
  <2>11. PICK w2, x2 \in Nat : w2 = w - n /\ x2 = x + n
    BY <1>13
  <2>12. TypeTotals(gs, w2, a - left, s + left, d, x2)
    BY <1>12, <2>7, <2>9, <2>10, <2>11, ActiveToUnstakedTotals
  <2>13. a - left \in Nat /\ s + left \in Nat
    <3>1. PICK w1, a1, s1, d1, x1 \in Nat : TypeTotals(gs, w1, a1, s1, d1, x1)
      BY <2>9, HasTotals
    <3> QED BY <2>12, <3>1 DEF TypeTotals
  <2>14. PICK a2, s2 \in Nat : a2 = a - left /\ s2 = s + left
    BY <2>13
  <2>15. TypeTotals(gs, w2, a2, s2, d, x2)
    BY <2>12, <2>14
  <2>16. t = use_waiting_to_replace_unstaked(gs, rewards)
    BY <2>3, <2>9
  <2>17. Replaces(t, gs, block_nonce, w2, a2, s2, d, x2)
    BY <1>1, <2>5, <2>15, <2>16, UseWaiting
  <2>18. /\ Follows(t.funds, gs, block_nonce) /\ t.funds \in Seq(Item)
         /\ Replaced(t, w2, a2, s2, d, x2)
    BY <2>17 DEF Replaces, Follows
  <2>19. /\ L!use_waiting_to_replace_unstaked(w2, a2, s2, d)
         /\ total_of_type(funds', "WithdrawOnly") = x2
         /\ bootstrap_mode' \in BOOLEAN
    BY <1>1, <2>5, <2>18, UseWaitingMaps
  <2>20. Follows(gs, funds, block_nonce)
    BY <1>2, <1>9, <1>10, <2>8, <2>9, FollowsTransitive
  <2>21. Follows(t.funds, funds, block_nonce)
    BY <1>2, <2>18, <2>20, FollowsTransitive
  <2>22. FundsInv' /\ Follows(funds', funds, block_nonce)
    BY <1>5, <2>5, <2>21, Relabelled DEF chain
  <2>23. Basics'
    BY <1>1, <1>5, <2>19, BasicsKept DEF BookInv, Basics, chain
  <2>24. L!use_waiting_to_replace_unstaked(
             total_of_type(funds, "Waiting") - n,
             total_of_type(funds, "Active") - left,
             total_of_type(funds, "UnStaked") + left,
             total_of_type(funds, "DeferredPayment"))
    BY <1>3, <2>11, <2>14, <2>19 DEF TypeTotals
  <2>25. total_of_type(funds', "WithdrawOnly")
            = total_of_type(funds, "WithdrawOnly") + n
    BY <1>3, <2>11, <2>19 DEF TypeTotals
  <2>26. L!unstake_endpoint(n, left)
    BY <1>5, <1>15, <2>24, <2>25
    DEF L!unstake_endpoint, L!opVars, L!is_global_op_in_progress,
        is_global_op_in_progress, L!money, money
  <2>27. /\ n \in 0 .. total_of_type(funds, "Waiting")
         /\ left \in 0 .. total_of_type(funds, "Active")
    BY <1>3, <1>13, <2>13 DEF TypeTotals
  <2> QED BY <1>5, <2>22, <2>23, <2>26, <2>27 DEF UnstakeLeaves, BookInv, money
<1> QED BY <1>14, <1>15

(* A swap whose moves do not enter a kind does not make it grow.           *)
LEMMA SwapNeverAdds ==
    ASSUME NEW fs \in Seq(Item), NEW max \in Nat, NEW S, NEW transform,
           NEW r, Swap(r, fs, max, S, transform), NEW K,
           Moves(-1, 0, K, S, transform)
    PROVE  Total(r.funds, K) <= Total(fs, K)
<1>1. r.funds \in Seq(Item) /\ r.left \in Nat /\ r.left <= max
  BY DEF Swap, IsState
<1>2. PICK x \in Nat, y \in Nat : x = Total(fs, K) /\ y = Total(r.funds, K)
  BY <1>1, TotalNat
<1>3. Between(-1, 0, y, x, max - r.left)
  BY <1>2 DEF Swap, Effects
<1>4. y <= x
  BY <1>3 DEF Between, signed
<1> QED BY <1>2, <1>4

(* The release of due payments is a transformation.                        *)
LEMMA ReleaseIsTransform ==
    ASSUME NEW n_blocks, NEW nonce PROVE IsTransform(release(n_blocks, nonce))
<1>1. WithdrawOnly \in Desc
  BY DEF WithdrawOnly, Desc, FundType
<1> QED BY <1>1 DEF release, IsTransform

(* unBond: due payments are released and withdraw-only funds paid out.     *)
Unbonded(u, r, gs) ==
    /\ Swap(r, funds, Everything(funds),
            OfUser(u) \cap OfType("DeferredPayment"),
            release(n_blocks_before_unbond, block_nonce))
    /\ Liquidated(gs, r.funds, u)
    /\ funds' = save(gs)
    /\ Everything(r.funds) = Everything(funds)
    /\ sc_balance' = sc_balance - (Everything(r.funds) - Everything(gs))

Unbonds(u) == \E r, gs : Unbonded(u, r, gs)

(* Released funds are not stamped with a later block.                      *)
LEMMA ReleaseMakesNothingLater ==
    ASSUME NEW n_blocks, NEW nonce \in Nat, NEW S
    PROVE  Moves(-1, 0, Later(nonce), S, release(n_blocks, nonce))
<1> DEFINE transform == release(n_blocks, nonce)
<1>1. ASSUME NEW item \in Item, transform[item] # NoDescription
      PROVE  /\ -1 <= effect_on(Later(nonce), item, transform[item])
             /\ effect_on(Later(nonce), item, transform[item]) <= 0
  <2>1. transform[item] = WithdrawOnly
    BY <1>1 DEF release
  <2>2. <<item.user_id, WithdrawOnly>> \notin Later(nonce)
    BY DEF Later, WithdrawOnly
  <2> QED BY <2>1, <2>2 DEF effect_on, indicator
<1> QED BY <1>1 DEF Moves

(* The five totals after the withdraw-only funds were paid out.            *)
LEMMA UnbondTotals ==
    ASSUME BookInv, NEW u, NEW r, NEW gs, NEW w \in Nat, NEW a \in Nat,
           NEW s \in Nat, NEW d \in Nat, NEW x \in Nat,
           TypeTotals(r.funds, w, a, s, d, x), Liquidated(gs, r.funds, u),
           NEW paid, paid = Everything(r.funds) - Everything(gs)
    PROVE  TypeTotals(save(gs), w, a, s, d, x - paid) /\ paid \in Nat
<1>1. PICK fs \in Seq(Item) : fs = r.funds
  BY DEF Liquidated
<1>2. PICK P : P = OfUser(u) \cap OfType("WithdrawOnly")
  OBVIOUS
<1>3. /\ gs \in Seq(Item)
      /\ \A K : K \cap P = {} => Total(gs, K) = Total(fs, K)
      /\ \A K : P \subseteq K =>
            Total(fs, K) - Total(gs, K) = Everything(fs) - Everything(gs)
      /\ \A K : Total(gs, K) <= Total(fs, K)
  BY <1>1, <1>2 DEF Liquidated
<1>4. \A t : /\ total_of_type(fs, t) = Total(fs, OfType(t))
             /\ total_of_type(gs, t) = Total(gs, OfType(t))
             /\ Total(fs, OfType(t)) \in Nat
             /\ Total(gs, OfType(t)) \in Nat
  BY <1>3, TypeTotal, TotalNat
<1>5. \A t : t # "WithdrawOnly" => OfType(t) \cap P = {}
  BY <1>2 DEF OfType
<1>6. P \subseteq OfType("WithdrawOnly")
  BY <1>2
<1>7. \A t : t # "WithdrawOnly" => total_of_type(gs, t) = total_of_type(fs, t)
  BY <1>3, <1>4, <1>5
<1>8. /\ Total(fs, OfType("WithdrawOnly")) - Total(gs, OfType("WithdrawOnly"))
            = paid
      /\ Total(gs, OfType("WithdrawOnly")) <= Total(fs, OfType("WithdrawOnly"))
  BY <1>1, <1>3, <1>6
<1>9. total_of_type(gs, "WithdrawOnly") = x - paid /\ paid \in Nat
  <2>1. total_of_type(fs, "WithdrawOnly") = x
    BY <1>1 DEF TypeTotals
  <2> QED BY ONLY <1>4, <1>8, <2>1, x \in Nat
<1>10. TypeTotals(gs, w, a, s, d, x - paid)
  BY <1>1, <1>7, <1>9 DEF TypeTotals
<1> QED BY <1>3, <1>9, <1>10, SaveTotals

(* The book is sound after a payout.                                       *)
LEMMA UnbondedIsSound ==
    ASSUME BookInv, NEW u, NEW r, NEW gs, Unbonded(u, r, gs),
           UNCHANGED <<num_users, block_nonce>>
    PROVE  FundsInv'
<1>1. /\ block_nonce \in Nat /\ num_users \in Nat
      /\ Orderly(funds, num_users, block_nonce) /\ funds \in Seq(Item)
  BY BasicFacts DEF BookInv, FundsInv, Sound, Orderly
<1>2. PICK max \in Nat : max = Everything(funds)
  BY <1>1, EverythingTotal, TotalNat
<1>3. PICK S : S = OfUser(u) \cap OfType("DeferredPayment")
  OBVIOUS
<1>4. PICK transform : transform = release(n_blocks_before_unbond, block_nonce)
  OBVIOUS
<1>5. Swap(r, funds, max, S, transform)
  BY <1>2, <1>3, <1>4 DEF Unbonded
<1>6. IsTransform(transform)
  BY <1>4, ReleaseIsTransform
<1>7. \A K : UserKind(K) => Total(r.funds, K) = Total(funds, K)
  BY <1>1, <1>5, <1>6, SwapKeepsUsers
<1>8. Total(r.funds, Later(block_nonce)) <= Total(funds, Later(block_nonce))
  <2>1. Moves(-1, 0, Later(block_nonce), S, transform)
    BY <1>1, <1>4, ReleaseMakesNothingLater
  <2> QED BY <1>1, <1>5, <2>1, SwapNeverAdds
<1>9. /\ gs \in Seq(Item) /\ r.funds \in Seq(Item) /\ funds' = save(gs)
      /\ \A K : Total(gs, K) <= Total(r.funds, K)
  BY DEF Unbonded, Liquidated
<1>10. PICK hs : hs = save(gs)
  OBVIOUS
<1>11. /\ hs \in Seq(Item) /\ \A i \in 1 .. Len(hs) : hs[i].balance > 0
       /\ \A K : Total(hs, K) = Total(gs, K) /\ Total(hs, K) \in Nat
  BY <1>9, <1>10, SaveKeepsTotals, TotalNat
<1>12. Total(hs, Strangers(num_users)) = 0 /\ Total(hs, Later(block_nonce)) = 0
  <2>1. /\ Total(hs, Strangers(num_users)) <= 0
        /\ Total(hs, Later(block_nonce)) <= Total(r.funds, Later(block_nonce))
        /\ Total(r.funds, Later(block_nonce)) <= 0
        /\ Total(r.funds, Later(block_nonce)) \in Nat
    BY <1>1, <1>7, <1>8, <1>9, <1>11, UserKinds, TotalNat DEF Orderly
  <2> QED BY <1>11, <2>1
<1>13. Everything(hs) <= DepositBound
  <2>1. /\ Everything(hs) = Total(hs, Keys)
        /\ Total(hs, Keys) <= Total(funds, Keys)
        /\ Everything(funds) = Total(funds, Keys)
        /\ Total(hs, Keys) \in Nat /\ Total(funds, Keys) \in Nat
    BY <1>1, <1>7, <1>9, <1>11, UserKinds, EverythingTotal, TotalNat
  <2> QED BY <1>1, <2>1, DelegationAssumption DEF Orderly
<1>14. Sound(funds', num_users, block_nonce)
  BY <1>9, <1>10, <1>11, <1>12, <1>13 DEF Sound, Orderly
<1> QED BY <1>14 DEF FundsInv, Sound, Orderly

UnbondLeaves(u) ==
    /\ BookInv' /\ Unbonds(u)
    /\ \E eligible \in 0 .. total_of_type(funds, "DeferredPayment"),
          amount \in 0 .. total_of_type(funds, "WithdrawOnly")
                            + total_of_type(funds, "DeferredPayment") :
          L!unbond_user(eligible, amount)

(* unBond keeps the book sound and is a step of the ledger.                *)
LEMMA UnbondStep ==
    ASSUME BookInv, NEW u \in Users, NEW gas \in GasLimits,
           unbond_user(u, gas)
    PROVE  UnbondLeaves(u)
<1>1. /\ num_users \in Nat /\ block_nonce \in Nat /\ u \in Nat
      /\ gas \in Nat
      /\ total_delegation_cap \in Nat /\ bootstrap_mode \in BOOLEAN
  BY BasicFacts, DelegationAssumption DEF BookInv, Basics
<1>2. funds \in Seq(Item)
  BY DEF BookInv, FundsInv, Sound, Orderly
<1>3. PICK w, a, s, d, x \in Nat : TypeTotals(funds, w, a, s, d, x)
  BY <1>2, HasTotals
<1>4. PICK r : r = swap_eligible_deferred_to_withdraw(funds, u,
                       n_blocks_before_unbond, block_nonce, gas)
  OBVIOUS
<1>5. PICK gs : gs = liquidate_all_withdraw_only(r.funds, u, gas - r.visited)
  OBVIOUS
<1>6. PICK paid : paid = Everything(funds) - Everything(gs)
  OBVIOUS
<1>7. /\ funds' = save(gs) /\ sc_balance' = sc_balance - paid
      /\ paid <= sc_balance
      /\ UNCHANGED <<num_users, user_rewards, settings, global_op,
                   total_rewards, sent_rewards, auction_stake, chain>>
  BY <1>4, <1>5, <1>6 DEF unbond_user, commit_funds
<1>8. PICK max \in Nat : max = Everything(funds)
  BY <1>2, EverythingTotal, TotalNat
<1>9. PICK S : S = OfUser(u) \cap OfType("DeferredPayment")
  OBVIOUS
<1>10. PICK transform : transform = release(n_blocks_before_unbond, block_nonce)
  OBVIOUS
<1>11. /\ Swap(r, funds, max, S, transform)
       /\ Shift(r, funds, max, S, "DeferredPayment", "WithdrawOnly")
       /\ r.visited <= gas
  BY <1>1, <1>2, <1>4, <1>8, <1>9, <1>10, EligibleToWithdraw
<1>12. r.funds \in Seq(Item) /\ r.visited \in Nat
  BY <1>11 DEF Swap, IsState
<1>13. PICK rest \in Nat : rest = gas - r.visited
  BY <1>1, <1>11, <1>12
<1>14. PICK fs \in Seq(Item) : fs = r.funds
  BY <1>12
<1>15. Liquidated(gs, fs, u)
  <2>1. gs = liquidate_all_withdraw_only(fs, u, rest)
    BY <1>5, <1>13, <1>14
  <2> QED BY <2>1, Liquidate
<1>16. Everything(fs) = Everything(funds)
  <2>1. IsTransform(transform)
    BY <1>10, ReleaseIsTransform
  <2>2. Total(fs, Keys) = Total(funds, Keys)
    BY <1>2, <1>11, <1>14, <2>1, SwapKeepsUsers, UserKinds
  <2> QED BY <1>2, <2>2, EverythingTotal
<1>17. Unbonded(u, r, gs)
  BY <1>6, <1>7, <1>8, <1>9, <1>10, <1>11, <1>14, <1>15, <1>16 DEF Unbonded
<1>18. FundsInv'
  BY <1>7, <1>17, UnbondedIsSound DEF chain
<1>19. Basics'
  BY <1>1, <1>7, BasicsKept DEF BookInv, Basics, chain, settings
<1>20. PICK e \in Nat : e = max - r.left
  BY <1>11 DEF Shift
<1>21. TypeTotals(fs, w, a, s, d - e, x + e)
  BY <1>3, <1>11, <1>14, <1>20, DeferredToWithdrawTotals
<1>22. d - e \in Nat /\ x + e \in Nat
  <2>1. PICK w1, a1, s1, d1, x1 \in Nat : TypeTotals(fs, w1, a1, s1, d1, x1)
    BY HasTotals
  <2> QED BY <1>21, <2>1 DEF TypeTotals
<1>23. PICK d2, x2 \in Nat : d2 = d - e /\ x2 = x + e
  BY <1>22
<1>24. /\ TypeTotals(r.funds, w, a, s, d2, x2)
       /\ Liquidated(gs, r.funds, u)
       /\ paid = Everything(r.funds) - Everything(gs)
  BY <1>6, <1>14, <1>15, <1>16, <1>21, <1>23
<1>25. TypeTotals(funds', w, a, s, d2, x2 - paid) /\ paid \in Nat
  <2>1. TypeTotals(save(gs), w, a, s, d2, x2 - paid) /\ paid \in Nat
    BY <1>24, UnbondTotals
  <2> QED BY <1>7, <2>1
<1>26. x2 - paid \in Nat
  <2>1. funds' \in Seq(Item)
    BY <1>18 DEF FundsInv, Sound, Orderly
  <2>2. PICK w1, a1, s1, d1, x1 \in Nat :
           TypeTotals(funds', w1, a1, s1, d1, x1)
    BY <2>1, HasTotals
  <2> QED BY <1>25, <2>2 DEF TypeTotals
<1>27. L!unbond_user(e, paid)
  <2>1. /\ total_of_type(funds, "Waiting") = w
        /\ total_of_type(funds, "Active") = a
        /\ total_of_type(funds, "UnStaked") = s
        /\ total_of_type(funds, "DeferredPayment") = d
        /\ total_of_type(funds, "WithdrawOnly") = x
    BY <1>3 DEF TypeTotals
  <2>2. /\ total_of_type(funds', "Waiting") = w
        /\ total_of_type(funds', "Active") = a
        /\ total_of_type(funds', "UnStaked") = s
        /\ total_of_type(funds', "DeferredPayment") = d - e
        /\ total_of_type(funds', "WithdrawOnly") = (x + e) - paid
    BY <1>23, <1>25 DEF TypeTotals
  <2>3. paid <= x + e
    BY <1>23, <1>25, <1>26
  <2>4. UNCHANGED <<total_delegation_cap, bootstrap_mode, global_op,
                    total_rewards, sent_rewards, auction_stake>>
    BY <1>7 DEF settings
  <2>5. /\ paid <= sc_balance /\ sc_balance' = sc_balance - paid
    BY <1>7
  <2>6. /\ paid <= total_of_type(funds, "WithdrawOnly") + e
        /\ total_of_type(funds', "DeferredPayment")
              = total_of_type(funds, "DeferredPayment") - e
        /\ total_of_type(funds', "WithdrawOnly")
              = total_of_type(funds, "WithdrawOnly") + e - paid
        /\ total_of_type(funds', "Waiting") = total_of_type(funds, "Waiting")
        /\ total_of_type(funds', "Active") = total_of_type(funds, "Active")
        /\ total_of_type(funds', "UnStaked") = total_of_type(funds, "UnStaked")
    BY <1>25, <2>1, <2>2, <2>3
  <2> QED
    BY <2>4, <2>5, <2>6 DEF L!unbond_user, L!capVars, L!opVars
<1>28. /\ e \in 0 .. total_of_type(funds, "DeferredPayment")
       /\ paid \in 0 .. total_of_type(funds, "WithdrawOnly")
                           + total_of_type(funds, "DeferredPayment")
  <2>1. e <= d /\ paid <= x + d
    BY <1>22, <1>23, <1>25, <1>26
  <2> QED BY <1>3, <1>25, <2>1 DEF TypeTotals
<1>29. Unbonds(u)
  BY <1>17 DEF Unbonds
<1> QED BY <1>18, <1>19, <1>27, <1>28, <1>29 DEF UnbondLeaves, BookInv

(* A dust cleanup, and then funds are relabelled.                          *)
Swept(s, limit, source, transform) ==
    /\ DustSwap(s, funds, Everything(funds), dust_cleanup_checkpoint, source,
                small(limit, transform))
    /\ CheckedDust => in_source_list(funds, dust_cleanup_checkpoint, source)
    /\ Follows(funds', s.funds, block_nonce)

Sweeps(source, transform) == \E s, limit : Swept(s, limit, source, transform)

Target(transform, q) ==
    \A item \in Item : /\ transform[item] \in Desc
                       /\ transform[item].type = q
                       /\ transform[item].created = 0

(* A sweep keeps what every user has, with or without the check of its     *)
(* cursor.                                                                 *)
LEMMA DustKeeps ==
    ASSUME NEW fs \in Seq(Item), NEW max \in Nat, NEW transform, NEW q,
           Target(transform, q), NEW limit, NEW s, NEW nonce \in Nat,
           Swap(s, fs, max, Keys, small(limit, transform))
    PROVE  /\ Into(q, small(limit, transform))
           /\ Keeps(s.funds, fs, nonce)
<1>1. PICK convert : convert = small(limit, transform)
  OBVIOUS
<1>2. \A item \in Item :
         convert[item] = transform[item] \/ convert[item] = NoDescription
  BY <1>1 DEF small
<1>3. Into(q, convert) /\ IsTransform(convert)
  BY <1>2 DEF Into, IsTransform, Target
<1>4. Swap(s, fs, max, Keys, convert)
  BY <1>1
<1>5. s.funds \in Seq(Item)
  BY <1>4 DEF Swap, IsState
<1>6. \A K : UserKind(K) => Total(s.funds, K) = Total(fs, K)
  BY <1>3, <1>4, SwapKeepsUsers
<1>7. Moves(-1, 0, Later(nonce), Keys, convert)
  <2>1. ASSUME NEW item \in Item, convert[item] # NoDescription
        PROVE  /\ -1 <= effect_on(Later(nonce), item, convert[item])
               /\ effect_on(Later(nonce), item, convert[item]) <= 0
    <3>1. convert[item].created = 0
      BY <1>2, <2>1 DEF Target
    <3>2. <<item.user_id, convert[item]>> \notin Later(nonce)
      BY <3>1 DEF Later
    <3> QED BY <3>2 DEF effect_on, indicator
  <2> QED BY <2>1 DEF Moves
<1>8. Total(s.funds, Later(nonce)) <= Total(fs, Later(nonce))
  BY <1>4, <1>7, SwapNeverAdds
<1> QED BY <1>1, <1>3, <1>5, <1>6, <1>8 DEF Keeps

(* What a swept list leaves is saved, possibly relabelled.                 *)
LEMMA SweptIsSound ==
    ASSUME BookInv, NEW gs, Keeps(gs, funds, block_nonce), NEW hs,
           Follows(hs, gs, block_nonce), funds' = save(hs),
           UNCHANGED <<num_users, block_nonce>>
    PROVE  FundsInv' /\ Follows(funds', gs, block_nonce)
<1>1. /\ block_nonce \in Nat /\ num_users \in Nat
      /\ Orderly(funds, num_users, block_nonce) /\ funds \in Seq(Item)
  BY BasicFacts DEF BookInv, FundsInv, Sound, Orderly
<1>2. gs \in Seq(Item) /\ hs \in Seq(Item)
  BY DEF Keeps, Follows
<1>3. Keeps(hs, gs, block_nonce)
  BY <1>1, <1>2, FollowsKeeps
<1>4. Keeps(hs, funds, block_nonce)
  BY <1>1, <1>3, KeepsTransitive
<1>5. Sound(funds', num_users, block_nonce)
  BY <1>1, <1>4, KeptIsSound
<1>6. FundsInv'
  BY <1>5 DEF FundsInv, Sound, Orderly
<1>7. Follows(save(hs), hs, block_nonce)
  BY <1>2, SaveFollows
<1> QED BY <1>2, <1>6, <1>7, FollowsTransitive

DustWaitingLeaves ==
    /\ BookInv' /\ sc_balance' = sc_balance
    /\ Sweeps("Waiting", to_withdraw_only)
    /\ CheckedDust => \E dust \in 0 .. total_of_type(funds, "Waiting") :
                          L!dust_cleanup_waiting_list(dust)

(* dustCleanupWaitingList keeps the book sound; with a checked cursor it   *)
(* is a step of the ledger.                                                *)
LEMMA DustWaitingStep ==
    ASSUME BookInv, NEW limit \in DustLimits, NEW gas \in GasLimits,
           dust_cleanup_waiting_list(limit, gas)
    PROVE  DustWaitingLeaves
<1>1. /\ num_users \in Nat /\ block_nonce \in Nat /\ gas \in Nat
      /\ total_delegation_cap \in Nat /\ bootstrap_mode \in BOOLEAN
      /\ CheckedDust \in BOOLEAN
  BY BasicFacts, DelegationAssumption DEF BookInv, Basics
<1>2. funds \in Seq(Item)
  BY DEF BookInv, FundsInv, Sound, Orderly
<1>3. PICK w, a, s, d, x \in Nat : TypeTotals(funds, w, a, s, d, x)
  BY <1>2, HasTotals
<1>4. PICK r : r = swap_dust(funds, dust_cleanup_checkpoint, limit, "Waiting",
                             to_withdraw_only, gas)
  OBVIOUS
<1>5. /\ funds' = save(r.funds)
      /\ owner_checked_dust("Waiting")
      /\ ~ is_global_op_in_progress
      /\ UNCHANGED <<num_users, user_rewards, settings, global_op, money,
                   chain>>
  BY <1>4 DEF dust_cleanup_waiting_list, to_withdraw_only
<1>6. PICK transform : transform = to_withdraw_only
  OBVIOUS
<1>7. Target(transform, "WithdrawOnly")
  BY <1>6 DEF Target, to_withdraw_only, WithdrawOnly, Desc, FundType
<1>8. IsTransform(transform)
  BY <1>7 DEF IsTransform, Target
<1>9. PICK max \in Nat : max = Everything(funds)
  BY <1>2, EverythingTotal, TotalNat
<1>10. PICK q : /\ r.funds = q.funds
                /\ DustSwap(q, funds, max, dust_cleanup_checkpoint, "Waiting",
                            small(limit, transform))
  BY <1>1, <1>2, <1>4, <1>6, <1>8, <1>9, DustIsSwap
<1>11. Swap(q, funds, max, Keys, small(limit, transform))
  BY <1>10 DEF DustSwap
<1>12. /\ Into("WithdrawOnly", small(limit, transform))
       /\ Keeps(q.funds, funds, block_nonce)
  BY <1>1, <1>2, <1>7, <1>11, DustKeeps
<1>13. q.funds \in Seq(Item)
  BY <1>12 DEF Keeps
<1>14. Follows(q.funds, q.funds, block_nonce)
  BY <1>13, FollowsItself
<1>15. FundsInv' /\ Follows(funds', q.funds, block_nonce)
  BY <1>5, <1>10, <1>12, <1>14, SweptIsSound DEF chain
<1>16. Basics'
  BY <1>1, <1>5, BasicsKept DEF BookInv, Basics, chain, settings
<1>17. CheckedDust => in_source_list(funds, dust_cleanup_checkpoint, "Waiting")
  BY <1>5 DEF owner_checked_dust, in_source_list
<1>18. Sweeps("Waiting", to_withdraw_only)
  <2>1. Swept(q, limit, "Waiting", to_withdraw_only)
    BY <1>6, <1>9, <1>10, <1>15, <1>17 DEF Swept
  <2> QED BY <2>1 DEF Sweeps
<1>19. ASSUME CheckedDust
       PROVE  \E dust \in 0 .. total_of_type(funds, "Waiting") :
                  L!dust_cleanup_waiting_list(dust)
  <2>1. Swap(q, funds, max, OfType("Waiting"), small(limit, transform))
    BY <1>10, <1>17, <1>19 DEF DustSwap
  <2>2. Shift(q, funds, max, OfType("Waiting"), "Waiting", "WithdrawOnly")
    <3>1. PICK ty, qy : ty = "Waiting" /\ qy = "WithdrawOnly" /\ qy # ty
      OBVIOUS
    <3>2. Shift(q, funds, max, OfType(ty), ty, qy)
      BY <1>2, <1>12, <2>1, <3>1, SwapIsShift
    <3> QED BY <3>1, <3>2
  <2>3. PICK n \in Nat : n = max - q.left
    BY <2>2 DEF Shift
  <2>4. TypeTotals(q.funds, w - n, a, s, d, x + n)
    BY <1>3, <2>2, <2>3, WaitingToWithdrawTotals
  <2>5. TypeTotals(funds', w - n, a, s, d, x + n)
    <3>1. TypeTotals(save(q.funds), w - n, a, s, d, x + n)
      BY <1>13, <2>4, SaveTotals
    <3> QED BY <1>5, <1>10, <3>1
  <2>6. w - n \in Nat
    <3>1. funds' \in Seq(Item)
      BY <1>15 DEF FundsInv, Sound, Orderly
    <3>2. PICK w1, a1, s1, d1, x1 \in Nat :
             TypeTotals(funds', w1, a1, s1, d1, x1)
      BY <3>1, HasTotals
    <3> QED BY <2>5, <3>2 DEF TypeTotals
  <2>7. L!dust_cleanup_waiting_list(n)
    BY <1>3, <1>5, <2>3, <2>5
    DEF L!dust_cleanup_waiting_list, L!capVars, L!opVars, L!money, money,
        settings, L!is_global_op_in_progress, is_global_op_in_progress,
        TypeTotals
  <2>8. n \in 0 .. total_of_type(funds, "Waiting")
    BY <1>3, <2>6 DEF TypeTotals
  <2> QED BY <2>7, <2>8
<1> QED BY <1>5, <1>15, <1>16, <1>18, <1>19 DEF DustWaitingLeaves, BookInv, money

to_unstaked_at_once == [item \in Item |-> UnStaked(0)]

DustActiveLeaves ==
    /\ BookInv' /\ sc_balance' = sc_balance
    /\ Sweeps("Active", to_unstaked_at_once)
    /\ CheckedDust => \E dust \in 0 .. total_of_type(funds, "Active") :
                          L!dust_cleanup_active(dust)

(* dustCleanupActive keeps the book sound; with a checked cursor it is a   *)
(* step of the ledger.                                                     *)
LEMMA DustActiveStep ==
    ASSUME BookInv, NEW limit \in DustLimits, NEW gas \in GasLimits,
           dust_cleanup_active(limit, gas)
    PROVE  DustActiveLeaves
<1>1. /\ num_users \in Nat /\ block_nonce \in Nat /\ gas \in Nat
      /\ total_delegation_cap \in Nat /\ bootstrap_mode \in BOOLEAN
      /\ CheckedDust \in BOOLEAN
  BY BasicFacts, DelegationAssumption DEF BookInv, Basics
<1>2. funds \in Seq(Item)
  BY DEF BookInv, FundsInv, Sound, Orderly
<1>3. PICK w, a, s, d, x \in Nat : TypeTotals(funds, w, a, s, d, x)
  BY <1>2, HasTotals
<1>4. PICK r : r = swap_dust(funds, dust_cleanup_checkpoint, limit, "Active",
                             to_unstaked_at_once, gas)
  OBVIOUS
<1>5. PICK rewards : commit_dust(use_waiting_to_replace_unstaked(r.funds,
                                     rewards), r.next_id)
  BY <1>4, Zenon DEF dust_cleanup_active, to_unstaked_at_once
<1>6. /\ owner_checked_dust("Active")
      /\ ~ is_global_op_in_progress
      /\ UNCHANGED <<num_users, total_delegation_cap, service_fee, limits,
                   global_op, money, chain>>
  BY DEF dust_cleanup_active
<1>7. PICK t : t = use_waiting_to_replace_unstaked(r.funds, rewards)
  OBVIOUS
<1>8. t.ok /\ funds' = save(t.funds) /\ bootstrap_mode' = t.bootstrap
  BY <1>5, <1>7 DEF commit_dust
<1>9. PICK transform : transform = to_unstaked_at_once
  OBVIOUS
<1>10. Target(transform, "UnStaked")
  BY <1>9 DEF Target, to_unstaked_at_once, UnStaked, Desc, FundType
<1>11. IsTransform(transform)
  BY <1>10 DEF IsTransform, Target
<1>12. PICK max \in Nat : max = Everything(funds)
  BY <1>2, EverythingTotal, TotalNat
<1>13. PICK q : /\ r.funds = q.funds
                /\ DustSwap(q, funds, max, dust_cleanup_checkpoint, "Active",
                            small(limit, transform))
  BY <1>1, <1>2, <1>4, <1>9, <1>11, <1>12, DustIsSwap
<1>14. Swap(q, funds, max, Keys, small(limit, transform))
  BY <1>13 DEF DustSwap
<1>15. /\ Into("UnStaked", small(limit, transform))
       /\ Keeps(q.funds, funds, block_nonce)
  BY <1>1, <1>2, <1>10, <1>14, DustKeeps
<1>16. PICK gs \in Seq(Item) : gs = q.funds
  BY <1>15 DEF Keeps
<1>17. t = use_waiting_to_replace_unstaked(gs, rewards)
  BY <1>7, <1>13, <1>16
<1>18. PICK w2, a2, s2, d2, x2 \in Nat : TypeTotals(gs, w2, a2, s2, d2, x2)
  BY <1>16, HasTotals
<1>19. Replaces(t, gs, block_nonce, w2, a2, s2, d2, x2)
  BY <1>1, <1>8, <1>17, <1>18, UseWaiting
<1>20. /\ Follows(t.funds, gs, block_nonce) /\ t.funds \in Seq(Item)
       /\ Replaced(t, w2, a2, s2, d2, x2)
  BY <1>19 DEF Replaces, Follows
<1>21. /\ L!use_waiting_to_replace_unstaked(w2, a2, s2, d2)
       /\ total_of_type(funds', "WithdrawOnly") = x2
       /\ bootstrap_mode' \in BOOLEAN
  BY <1>1, <1>8, <1>20, UseWaitingMaps
<1>22. FundsInv' /\ Follows(funds', q.funds, block_nonce)
  BY <1>6, <1>8, <1>15, <1>16, <1>20, SweptIsSound DEF chain
<1>23. Basics'
  BY <1>1, <1>6, <1>21, BasicsKept DEF BookInv, Basics, chain
<1>24. CheckedDust => in_source_list(funds, dust_cleanup_checkpoint, "Active")
  BY <1>6 DEF owner_checked_dust, in_source_list
<1>25. Sweeps("Active", to_unstaked_at_once)
  <2>1. Swept(q, limit, "Active", to_unstaked_at_once)
    BY <1>9, <1>12, <1>13, <1>22, <1>24 DEF Swept
  <2> QED BY <2>1 DEF Sweeps
<1>26. ASSUME CheckedDust
       PROVE  \E dust \in 0 .. total_of_type(funds, "Active") :
                  L!dust_cleanup_active(dust)
  <2>1. Swap(q, funds, max, OfType("Active"), small(limit, transform))
    BY <1>13, <1>24, <1>26 DEF DustSwap
  <2>2. Shift(q, funds, max, OfType("Active"), "Active", "UnStaked")
    <3>1. PICK ty, qy : ty = "Active" /\ qy = "UnStaked" /\ qy # ty
      OBVIOUS
    <3>2. Shift(q, funds, max, OfType(ty), ty, qy)
      BY <1>2, <1>15, <2>1, <3>1, SwapIsShift
    <3> QED BY <3>1, <3>2
  <2>3. PICK n \in Nat : n = max - q.left
    BY <2>2 DEF Shift
  <2>4. TypeTotals(gs, w, a - n, s + n, d, x)
    BY <1>3, <1>16, <2>2, <2>3, ActiveToUnstakedTotals
  <2>5. /\ w2 = w /\ a2 = a - n /\ s2 = s + n /\ d2 = d /\ x2 = x
    BY <1>18, <2>4 DEF TypeTotals
  <2>6. L!use_waiting_to_replace_unstaked(total_of_type(funds, "Waiting"),
             total_of_type(funds, "Active") - n,
             total_of_type(funds, "UnStaked") + n,
             total_of_type(funds, "DeferredPayment"))
    BY <1>3, <1>21, <2>5 DEF TypeTotals
  <2>7. total_of_type(funds', "WithdrawOnly")
           = total_of_type(funds, "WithdrawOnly")
    BY <1>3, <1>21, <2>5 DEF TypeTotals
  <2>8. L!dust_cleanup_active(n)
    BY <1>6, <2>6, <2>7
    DEF L!dust_cleanup_active, L!opVars, L!money, money,
        L!is_global_op_in_progress, is_global_op_in_progress
  <2>9. n \in 0 .. total_of_type(funds, "Active")
    BY <1>3, <2>5 DEF TypeTotals
  <2> QED BY <2>8, <2>9
<1> QED BY <1>6, <1>22, <1>23, <1>25, <1>26 DEF DustActiveLeaves, BookInv, money

(* The checkpoint a transaction of a global operation leaves.              *)
LEMMA OpStored ==
    ASSUME num_users \in Nat, NEW r, IsRun(r), r.op.op # "None",
           ~ finished(r) => IF r.op.op = "ModifyTotalDelegationCap"
                            THEN Pending(r.op)
                            ELSE /\ r.op.step = "ComputeAllRewards"
                                 /\ r.op.waiting_to_active = 0
                                 /\ r.op.unstaked_to_def_p = 0
                                 /\ r.op.active_to_def_p = 0,
           global_op' = IF finished(r) THEN NoGlobalOp ELSE r.op,
           num_users' = num_users
    PROVE  OpInv'
<1>1. CASE finished(r)
  <2>1. PICK op : op = NoGlobalOp
    OBVIOUS
  <2>2. /\ OpShape(op) /\ op.step # "Finished" /\ op.op = "None"
        /\ op.step = "ComputeAllRewards" /\ op.waiting_to_active = 0
        /\ op.unstaked_to_def_p = 0 /\ op.active_to_def_p = 0
    BY <2>1, NoOpShape
  <2>3. global_op' = op
    BY <1>1, <2>1
  <2>4. OpShape(global_op)'
    BY <2>2, <2>3 DEF OpShape, IsOp
  <2> QED BY <2>1, <2>2, <2>3, <2>4 DEF OpInv, NoGlobalOp
<1>2. CASE ~ finished(r)
  <2>1. PICK op : op = r.op
    OBVIOUS
  <2>2. /\ OpShape(op) /\ op.step # "Finished" /\ op.op # "None"
        /\ op.op = "ModifyTotalDelegationCap" => Pending(op)
        /\ op.op # "ModifyTotalDelegationCap" =>
              /\ op.step = "ComputeAllRewards"
              /\ op.waiting_to_active = 0 /\ op.unstaked_to_def_p = 0
              /\ op.active_to_def_p = 0
    BY <1>2, <2>1 DEF IsRun, finished
  <2>3. global_op' = op
    BY <1>2, <2>1
  <2>4. OpShape(global_op)'
    BY <2>2, <2>3 DEF OpShape, IsOp
  <2>5. Pending(op) => Pending(global_op)'
    BY <2>3 DEF Pending
  <2> QED BY <2>2, <2>3, <2>4, <2>5 DEF OpInv
<1> QED BY <1>1, <1>2

CapLeaves(op) ==
    /\ FundsInv' /\ OpInv' /\ total_delegation_cap' \in Nat
    /\ Follows(funds', funds, block_nonce)
    /\ sc_balance' = sc_balance
    /\ L!continue_modify_cap(op.new_value, op.waiting_to_active,
                             op.unstaked_to_def_p, op.active_to_def_p)
    /\ UNCHANGED <<num_users, limits, chain>>

(* continue_modify_total_delegation_cap, from any point at which it was    *)
(* interrupted.                                                            *)
LEMMA CapStep ==
    ASSUME BookInv, NEW op, OpShape(op), op.step # "Finished", Pending(op),
           op.op = "ModifyTotalDelegationCap", NEW gas \in Nat,
           continue_modify_total_delegation_cap(op, gas)
    PROVE  CapLeaves(op)
<1>1. /\ num_users \in Nat /\ block_nonce \in Nat
      /\ total_delegation_cap \in Nat
  BY BasicFacts DEF BookInv, Basics
<1>2. funds \in Seq(Item)
  BY DEF BookInv, FundsInv, Sound, Orderly
<1>3. PICK w, a, s, d, v \in Nat : TypeTotals(funds, w, a, s, d, v)
  BY <1>2, HasTotals
<1>4. PICK r : r = cap_steps(op, gas)
  OBVIOUS
<1>5. /\ funds' = save(r.funds)
      /\ global_op' = IF finished(r) THEN NoGlobalOp ELSE r.op
      /\ total_delegation_cap' = IF finished(r) THEN r.op.new_value
                                 ELSE total_delegation_cap
      /\ UNCHANGED <<num_users, service_fee, limits, money, chain>>
  BY <1>4 DEF continue_modify_total_delegation_cap, commit_cap,
     commit_global_op, commit_funds
<1>6. PICK nonce \in Nat : nonce = block_nonce
  BY <1>1
<1>7. PICK x, y, z \in Nat :
         CapRun(r, op, funds, nonce, w, a, s, d, v, x, y, z)
  BY <1>1, <1>2, <1>3, <1>4, <1>6, CapSteps
<1>8. /\ Stage(r, op, funds, nonce, w, a, s, d, v, x, y, z) /\ z <= a
      /\ r.op.step # "Finished" => Pending(r.op)
      /\ finished(r) <=> /\ x = op.waiting_to_active
                         /\ y = op.unstaked_to_def_p
                         /\ z = op.active_to_def_p
  BY <1>7 DEF CapRun
<1>9. /\ IsRun(r) /\ r.funds \in Seq(Item) /\ Follows(r.funds, funds, nonce)
      /\ TypeTotals(r.funds, w - x, (a + x) - z, s - y, (d + y) + z, v)
      /\ r.op.op = op.op /\ r.op.new_value = op.new_value
      /\ r.op.waiting_to_active = op.waiting_to_active - x
      /\ r.op.unstaked_to_def_p = op.unstaked_to_def_p - y
      /\ r.op.active_to_def_p = op.active_to_def_p - z
      /\ y > 0 => x = op.waiting_to_active
      /\ z > 0 => x = op.waiting_to_active /\ y = op.unstaked_to_def_p
      /\ x <= w /\ y <= s
  BY <1>8 DEF Stage
<1>10. FundsInv' /\ Follows(funds', funds, block_nonce)
  BY <1>5, <1>6, <1>9, Relabelled DEF chain
<1>11. OpInv'
  <2>1. r.op.op # "None" /\ r.op.op = "ModifyTotalDelegationCap"
    BY <1>9
  <2>2. ~ finished(r) => Pending(r.op)
    BY <1>8 DEF finished
  <2> QED BY <1>1, <1>5, <1>9, <2>1, <2>2, OpStored
<1>12. total_delegation_cap' \in Nat
  <2>1. op.new_value \in Nat
    BY DEF OpShape, IsOp
  <2> QED BY <1>1, <1>5, <1>9, <2>1
<1>13. PICK new_cap, w2a, u2d, a2d \in Nat :
          /\ new_cap = op.new_value /\ w2a = op.waiting_to_active
          /\ u2d = op.unstaked_to_def_p /\ a2d = op.active_to_def_p
  BY DEF OpShape, IsOp
<1>14. /\ w2a - x \in Nat /\ u2d - y \in Nat /\ a2d - z \in Nat
  BY <1>9, <1>13 DEF IsRun, OpShape, IsOp
<1>15. TypeTotals(funds', w - x, (a + x) - z, s - y, (d + y) + z, v)
  BY <1>5, <1>9, SaveTotals
<1>16. /\ x \in 0 .. L!min(w2a, total_of_type(funds, "Waiting"))
       /\ y \in 0 .. L!min(u2d, total_of_type(funds, "UnStaked"))
       /\ z \in 0 .. L!min(a2d, total_of_type(funds, "Active"))
  <2>1. /\ x <= w2a /\ y <= u2d /\ z <= a2d /\ x <= w /\ y <= s /\ z <= a
    BY <1>8, <1>9, <1>14
  <2> QED BY <1>3, <2>1 DEF TypeTotals, L!min
<1>17. L!swap_some(new_cap, w2a, u2d, a2d, x, y, z)
  <2>1. /\ total_of_type(funds', "Waiting") = total_of_type(funds, "Waiting") - x
        /\ total_of_type(funds', "Active")
              = total_of_type(funds, "Active") + x - z
        /\ total_of_type(funds', "UnStaked")
              = total_of_type(funds, "UnStaked") - y
        /\ total_of_type(funds', "DeferredPayment")
              = total_of_type(funds, "DeferredPayment") + y + z
        /\ total_of_type(funds', "WithdrawOnly")
              = total_of_type(funds, "WithdrawOnly")
    BY <1>3, <1>15 DEF TypeTotals
  <2>2. /\ y > 0 => x = w2a
        /\ z > 0 => x = w2a /\ y = u2d
    BY <1>9, <1>13
  <2>3. CASE finished(r)
    <3>1. x = w2a /\ y = u2d /\ z = a2d
      BY <1>8, <1>13, <2>3
    <3>2. total_delegation_cap' = new_cap
      BY <1>5, <1>9, <1>13, <2>3
    <3>3. PICK g : g = global_op'
      OBVIOUS
    <3>4. /\ g.op = "None" /\ g.waiting_to_active = 0
          /\ g.unstaked_to_def_p = 0 /\ g.active_to_def_p = 0
      BY <1>5, <2>3, <3>3 DEF NoGlobalOp
    <3>5. L!set_global_op("None", 0, 0, 0, 0)
      BY <3>3, <3>4 DEF L!set_global_op
    <3> QED
      BY <1>5, <2>1, <2>2, <3>1, <3>2, <3>5 DEF L!swap_some, L!money, money
  <2>4. CASE ~ finished(r)
    <3>1. ~ (x = w2a /\ y = u2d /\ z = a2d)
      BY <1>8, <1>13, <2>4
    <3>2. total_delegation_cap' = total_delegation_cap
      BY <1>5, <2>4
    <3>3. PICK g : g = global_op'
      OBVIOUS
    <3>4. /\ g.op = "ModifyTotalDelegationCap" /\ g.new_value = new_cap
          /\ g.waiting_to_active = w2a - x
          /\ g.unstaked_to_def_p = u2d - y /\ g.active_to_def_p = a2d - z
      BY <1>5, <1>9, <1>13, <2>4, <3>3
    <3>5. L!set_global_op("ModifyTotalDelegationCap", new_cap,
                          w2a - x, u2d - y, a2d - z)
      BY <3>3, <3>4 DEF L!set_global_op
    <3> QED
      BY <1>5, <2>1, <2>2, <3>1, <3>2, <3>5 DEF L!swap_some, L!money, money
  <2> QED BY <2>3, <2>4
<1>18. L!continue_modify_cap(op.new_value, op.waiting_to_active,
                             op.unstaked_to_def_p, op.active_to_def_p)
  <2>1. L!continue_modify_cap(new_cap, w2a, u2d, a2d)
    BY <1>16, <1>17 DEF L!continue_modify_cap
  <2> QED BY <1>13, <2>1
<1> QED BY <1>5, <1>10, <1>11, <1>12, <1>18 DEF CapLeaves, money

(* A transaction that relabels funds and pays nobody.                      *)
OpLeaves ==
    /\ BookInv' /\ Follows(funds', funds, block_nonce)
    /\ sc_balance' = sc_balance
    /\ UNCHANGED <<limits, chain>>

(* The checkpoint with which a cap change begins.                          *)
LEMMA CapOpIsWellFormed ==
    ASSUME num_users \in Nat, NEW new_cap \in Nat, NEW p \in Nat, NEW q \in Nat,
           NEW t \in Nat, p = 0 \/ (q = 0 /\ t = 0), p > 0 \/ q > 0 \/ t > 0,
           NEW op, op = ModifyTotalDelegationCap(new_cap, p, q, t)
    PROVE  /\ OpShape(op) /\ op.step # "Finished" /\ Pending(op)
           /\ op.op = "ModifyTotalDelegationCap"
           /\ op.new_value = new_cap /\ op.waiting_to_active = p
           /\ op.unstaked_to_def_p = q /\ op.active_to_def_p = t
<1>1. op = [op |-> "ModifyTotalDelegationCap", step |-> "ComputeAllRewards",
            new_value |-> new_cap, waiting_to_active |-> p,
            unstaked_to_def_p |-> q, active_to_def_p |-> t,
            last_id |-> 0, sum_unclaimed |-> 0,
            rewards_checkpoint |-> total_rewards]
  BY DEF ModifyTotalDelegationCap, NoGlobalOp
<1>2. IsOp(op)
  BY <1>1 DEF IsOp, SwapSteps
<1> QED BY <1>1, <1>2 DEF OpShape, SwapSteps, Pending

(* A transaction of a cap change keeps the book sound.                     *)
LEMMA CapLeavesBook ==
    ASSUME BookInv, NEW op, CapLeaves(op), bootstrap_mode' \in BOOLEAN
    PROVE  OpLeaves
<1>1. Basics'
  BY DEF CapLeaves, Basics, BookInv, chain
<1> QED BY <1>1 DEF CapLeaves, OpLeaves, BookInv

(* A cap change upwards.                                                   *)
LEMMA RaiseCapStep ==
    ASSUME BookInv, NEW gas \in Nat, NEW cap \in Nat,
           cap > total_delegation_cap, raise_cap(cap, total_delegation_cap, gas),
           bootstrap_mode' \in BOOLEAN
    PROVE  OpLeaves /\ L!raise_cap(cap, total_delegation_cap)
<1>1. num_users \in Nat /\ total_delegation_cap \in Nat
  BY BasicFacts DEF BookInv, Basics
<1>2. PICK p \in Nat : p = cap - total_delegation_cap /\ p > 0
  BY <1>1
<1>3. PICK o \in Nat : o = 0
  OBVIOUS
<1>4. PICK op : op = ModifyTotalDelegationCap(cap, p, o, o)
  OBVIOUS
<1>5. /\ OpShape(op) /\ op.step # "Finished" /\ Pending(op)
      /\ op.op = "ModifyTotalDelegationCap"
      /\ op.new_value = cap /\ op.waiting_to_active = p
      /\ op.unstaked_to_def_p = o /\ op.active_to_def_p = o
  BY <1>1, <1>2, <1>3, <1>4, CapOpIsWellFormed
<1>6. /\ total_of_type(funds, "UnStaked") = 0
      /\ continue_modify_total_delegation_cap(op, gas)
  BY <1>2, <1>3, <1>4 DEF raise_cap
<1>7. CapLeaves(op)
  BY <1>5, <1>6, CapStep
<1>8. OpLeaves
  BY <1>7, CapLeavesBook
<1>9. L!continue_modify_cap(cap, cap - total_delegation_cap, 0, 0)
  BY <1>2, <1>3, <1>5, <1>7 DEF CapLeaves
<1>10. L!raise_cap(cap, total_delegation_cap)
  BY <1>6, <1>9 DEF L!raise_cap
<1> QED BY <1>8, <1>10

(* A cap change downwards.                                                 *)
LEMMA LowerCapStep ==
    ASSUME BookInv, NEW gas \in Nat, NEW cap \in Nat, NEW previous \in Nat,
           cap < previous, lower_cap(cap, previous, gas),
           bootstrap_mode' \in BOOLEAN
    PROVE  OpLeaves /\ L!lower_cap(cap, previous)
<1>1. num_users \in Nat
  BY BasicFacts DEF BookInv, Basics
<1>2. PICK p \in Nat : p = previous - cap /\ p > 0
  OBVIOUS
<1>3. PICK s \in Nat : s = total_of_type(funds, "UnStaked")
  <2>1. funds \in Seq(Item)
    BY DEF BookInv, FundsInv, Sound, Orderly
  <2> QED BY <2>1, TypeTotal
<1>4. PICK q \in Nat : q = Smaller(p, s) /\ q <= p
  BY DEF Smaller
<1>5. PICK t \in Nat : t = p - q
  BY <1>4
<1>6. PICK o \in Nat : o = 0
  OBVIOUS
<1>7. o = 0 \/ (q = 0 /\ t = 0)
  BY <1>6
<1>8. o > 0 \/ q > 0 \/ t > 0
  BY <1>2, <1>4, <1>5
<1>9. PICK op : op = ModifyTotalDelegationCap(cap, o, q, t)
  OBVIOUS
<1>10. /\ OpShape(op) /\ op.step # "Finished" /\ Pending(op)
       /\ op.op = "ModifyTotalDelegationCap"
       /\ op.new_value = cap /\ op.waiting_to_active = o
       /\ op.unstaked_to_def_p = q /\ op.active_to_def_p = t
  BY <1>1, <1>7, <1>8, <1>9, CapOpIsWellFormed
<1>11. /\ p <= total_unprotected
       /\ continue_modify_total_delegation_cap(op, gas)
  BY <1>2, <1>3, <1>4, <1>5, <1>6, <1>9 DEF lower_cap
<1>12. CapLeaves(op)
  BY <1>10, <1>11, CapStep
<1>13. OpLeaves
  BY <1>12, CapLeavesBook
<1>14. L!continue_modify_cap(cap, 0, q, t)
  BY <1>6, <1>10, <1>12 DEF CapLeaves
<1>15. total_unprotected = L!total_unprotected
  BY DEF total_unprotected, L!total_unprotected
<1>16. q = L!min(p, total_of_type(funds, "UnStaked"))
  BY <1>3, <1>4 DEF Smaller, L!min
<1>17. L!lower_cap(cap, previous)
  BY <1>2, <1>5, <1>11, <1>14, <1>15, <1>16 DEF L!lower_cap
<1> QED BY <1>13, <1>17

(* The items, the users and the checkpoint stay as they are.               *)
LEMMA Untouched ==
    ASSUME BookInv, UNCHANGED <<funds, num_users, global_op, block_nonce>>,
           total_delegation_cap' \in Nat, bootstrap_mode' \in BOOLEAN
    PROVE  BookInv' /\ Follows(funds', funds, block_nonce)
<1>1. Basics'
  <2>1. num_users' \in Users /\ num_users <= num_users' /\ Basics
    BY BasicFacts DEF BookInv, Basics
  <2> QED BY <2>1, BasicsKept
<1>2. FundsInv'
  BY DEF BookInv, FundsInv, Sound, Orderly
<1>3. funds \in Seq(Item)
  BY DEF BookInv, FundsInv, Sound, Orderly
<1>4. Follows(funds, funds, block_nonce)
  BY <1>3, FollowsItself
<1>5. Follows(funds', funds, block_nonce)
  BY <1>4
<1> QED BY <1>1, <1>2, <1>5 DEF BookInv

(* modifyTotalDelegationCap keeps the book sound and is a step of the      *)
(* ledger.                                                                 *)
LEMMA ModifyCapStep ==
    ASSUME BookInv, NEW cap \in Caps, NEW gas \in GasLimits,
           modify_total_delegation_cap(cap, gas)
    PROVE  OpLeaves /\ L!modify_total_delegation_cap(cap)
<1>1. /\ num_users \in Nat /\ gas \in Nat /\ cap \in Nat
      /\ total_delegation_cap \in Nat /\ bootstrap_mode \in BOOLEAN
  BY BasicFacts, DelegationAssumption DEF BookInv, Basics
<1>2. funds \in Seq(Item)
  BY DEF BookInv, FundsInv, Sound, Orderly
<1>3. PICK max \in Nat : max = total_of_type(funds, "Active")
                               + total_of_type(funds, "Waiting")
                               + total_of_type(funds, "UnStaked")
  BY <1>2, TypeTotal
<1>4. ~ is_global_op_in_progress /\ ~ L!is_global_op_in_progress
  BY DEF modify_total_delegation_cap, is_global_op_in_progress,
     L!is_global_op_in_progress
<1>5. CASE /\ bootstrap_mode /\ cap > max
           /\ total_delegation_cap' = cap
           /\ UNCHANGED <<accounts, bootstrap_mode, service_fee, limits,
                          global_op, money, chain>>
  <2>1. BookInv' /\ Follows(funds', funds, block_nonce)
    BY <1>1, <1>5, Untouched DEF accounts, chain
  <2>2. L!modify_total_delegation_cap(cap)
    BY <1>3, <1>4, <1>5
    DEF L!modify_total_delegation_cap, L!stakes, L!opVars, L!money, money,
        accounts
  <2> QED BY <1>5, <2>1, <2>2 DEF OpLeaves, money
<1>6. CASE /\ bootstrap_mode /\ cap = max /\ ExactBootstrapCap
           /\ bootstrap_mode' = FALSE
           /\ UNCHANGED <<accounts, total_delegation_cap, service_fee,
                          limits, global_op, money, chain>>
  <2>1. BookInv' /\ Follows(funds', funds, block_nonce)
    BY <1>1, <1>6, Untouched DEF accounts, chain
  <2>2. L!modify_total_delegation_cap(cap)
    BY <1>3, <1>4, <1>6
    DEF L!modify_total_delegation_cap, L!stakes, L!opVars, L!money, money,
        accounts
  <2> QED BY <1>6, <2>1, <2>2 DEF OpLeaves, money
<1>7. CASE /\ bootstrap_mode /\ cap < max
           /\ lower_cap(cap, max, gas)
           /\ bootstrap_mode' = FALSE
  <2>1. OpLeaves /\ L!lower_cap(cap, max)
    BY <1>1, <1>7, LowerCapStep
  <2>2. L!modify_total_delegation_cap(cap)
    BY <1>3, <1>4, <1>7, <2>1 DEF L!modify_total_delegation_cap
  <2> QED BY <2>1, <2>2
<1>8. CASE /\ ~ bootstrap_mode /\ cap <= max /\ UNCHANGED bootstrap_mode
           /\ cap = total_delegation_cap
           /\ UNCHANGED <<accounts, total_delegation_cap, service_fee,
                          limits, global_op, money, chain>>
  <2>1. BookInv' /\ Follows(funds', funds, block_nonce)
    BY <1>1, <1>8, Untouched DEF accounts, chain
  <2>2. L!modify_total_delegation_cap(cap)
    BY <1>3, <1>4, <1>8
    DEF L!modify_total_delegation_cap, L!stakes, L!opVars, L!money, money,
        accounts
  <2> QED BY <1>8, <2>1, <2>2 DEF OpLeaves, money
<1>9. CASE /\ ~ bootstrap_mode /\ cap <= max /\ UNCHANGED bootstrap_mode
           /\ cap > total_delegation_cap
           /\ raise_cap(cap, total_delegation_cap, gas)
  <2>1. OpLeaves /\ L!raise_cap(cap, total_delegation_cap)
    BY <1>1, <1>9, RaiseCapStep
  <2>2. L!modify_total_delegation_cap(cap)
    BY <1>3, <1>4, <1>9, <2>1 DEF L!modify_total_delegation_cap
  <2> QED BY <2>1, <2>2
<1>10. CASE /\ ~ bootstrap_mode /\ cap <= max /\ UNCHANGED bootstrap_mode
            /\ cap < total_delegation_cap
            /\ lower_cap(cap, total_delegation_cap, gas)
  <2>1. OpLeaves /\ L!lower_cap(cap, total_delegation_cap)
    BY <1>1, <1>10, LowerCapStep
  <2>2. L!modify_total_delegation_cap(cap)
    BY <1>3, <1>4, <1>10, <2>1 DEF L!modify_total_delegation_cap
  <2> QED BY <2>1, <2>2
<1> QED BY <1>3, <1>5, <1>6, <1>7, <1>8, <1>9, <1>10
        DEF modify_total_delegation_cap

(* continue_change_service_fee leaves the items and the ledger's money.    *)
LEMMA FeeStep ==
    ASSUME BookInv, NEW op, OpShape(op), op.step = "ComputeAllRewards",
           op.op = "ChangeServiceFee", op.waiting_to_active = 0,
           op.unstaked_to_def_p = 0, op.active_to_def_p = 0,
           NEW gas \in Nat, continue_change_service_fee(op, gas)
    PROVE  OpLeaves /\ L!continue_change_fee
<1>1. /\ num_users \in Nat /\ block_nonce \in Nat
      /\ total_delegation_cap \in Nat /\ bootstrap_mode \in BOOLEAN
  BY BasicFacts DEF BookInv, Basics
<1>2. funds \in Seq(Item)
  BY DEF BookInv, FundsInv, Sound, Orderly
<1>3. PICK w, a, s, d, x \in Nat : TypeTotals(funds, w, a, s, d, x)
  BY <1>2, HasTotals
<1>4. PICK r : r = service_fee_steps(op, gas)
  OBVIOUS
<1>5. /\ funds' = save(r.funds)
      /\ global_op' = IF finished(r) THEN NoGlobalOp ELSE r.op
      /\ UNCHANGED <<num_users, total_delegation_cap, bootstrap_mode, limits,
                   money, chain>>
  BY <1>4 DEF continue_change_service_fee, commit_service_fee,
     commit_global_op, commit_funds
<1>6. PICK r0 : r0 = start(op, gas)
  OBVIOUS
<1>7. IsRun(r0) /\ r0.funds = funds /\ r0.op = op
  BY <1>6 DEF start, IsRun
<1>8. r = compute_all_rewards(r0, "Finished")
  BY <1>4, <1>6 DEF service_fee_steps
<1>9. ComputeRun(r, r0, "Finished")
  BY <1>1, <1>7, <1>8, ComputeAllRuns
<1>10. /\ IsRun(r) /\ r.funds = funds /\ same_swaps(r.op, op)
       /\ r.op.step \in {"ComputeAllRewards", "Finished"}
  BY <1>7, <1>9 DEF ComputeRun
<1>11. Follows(r.funds, funds, block_nonce)
  BY <1>2, <1>10, FollowsItself
<1>12. FundsInv' /\ Follows(funds', funds, block_nonce)
  BY <1>5, <1>11, Relabelled DEF chain
<1>13. /\ r.op.op = "ChangeServiceFee"
       /\ r.op.waiting_to_active = 0
       /\ r.op.unstaked_to_def_p = 0
       /\ r.op.active_to_def_p = 0
       /\ ~ finished(r) => r.op.step = "ComputeAllRewards"
  BY <1>10 DEF same_swaps, finished
<1>14. OpInv'
  BY <1>1, <1>5, <1>10, <1>13, OpStored
<1>15. Basics'
  BY <1>5, <1>14 DEF BookInv, Basics, chain
<1>16. OpLeaves
  BY <1>5, <1>12, <1>15 DEF OpLeaves, BookInv, money
<1>17. TypeTotals(funds', w, a, s, d, x)
  BY <1>2, <1>3, <1>5, <1>10, SaveTotals
<1>18. PICK g : g = global_op'
  OBVIOUS
<1>19. /\ \/ g.op = "None"
          \/ g.op = "ChangeServiceFee"
       /\ g.waiting_to_active = 0
       /\ g.unstaked_to_def_p = 0 /\ g.active_to_def_p = 0
  BY <1>5, <1>13, <1>18 DEF NoGlobalOp
<1>20. \/ L!set_global_op("None", 0, 0, 0, 0)
       \/ L!set_global_op("ChangeServiceFee", 0, 0, 0, 0)
  BY <1>18, <1>19 DEF L!set_global_op
<1>21. L!continue_change_fee
  BY <1>3, <1>5, <1>17, <1>20
  DEF L!continue_change_fee, L!stakes, L!money, money, TypeTotals
<1> QED BY <1>16, <1>21

ContinueLeaves == OpLeaves /\ L!continue_global_operation_endpoint

(* continueGlobalOperation keeps the book sound and is a step of the       *)
(* ledger.                                                                 *)
LEMMA ContinueStep ==
    ASSUME BookInv, NEW gas \in GasLimits,
           continue_global_operation_endpoint(gas)
    PROVE  ContinueLeaves
<1>1. gas \in Nat /\ bootstrap_mode \in BOOLEAN
  BY DelegationAssumption DEF BookInv, Basics
<1>2. PICK op : op = global_op
  OBVIOUS
<1>3. /\ OpShape(op) /\ op.step # "Finished"
      /\ op.op = "ModifyTotalDelegationCap" => Pending(op)
      /\ op.op # "ModifyTotalDelegationCap" =>
            /\ op.step = "ComputeAllRewards"
            /\ op.waiting_to_active = 0
            /\ op.unstaked_to_def_p = 0
            /\ op.active_to_def_p = 0
  BY <1>2 DEF BookInv, Basics, OpInv
<1>4. CASE /\ op.op = "ModifyTotalDelegationCap"
           /\ continue_modify_total_delegation_cap(op, gas)
           /\ UNCHANGED bootstrap_mode
  <2>1. CapLeaves(op)
    BY <1>1, <1>3, <1>4, CapStep
  <2>2. OpLeaves
    BY <1>1, <1>4, <2>1, CapLeavesBook
  <2>3. L!continue_modify_cap(op.new_value, op.waiting_to_active,
                              op.unstaked_to_def_p, op.active_to_def_p)
    BY <2>1 DEF CapLeaves
  <2>4. L!continue_global_operation_endpoint
    BY <1>2, <1>4, <2>3 DEF L!continue_global_operation_endpoint
  <2> QED BY <2>2, <2>4 DEF ContinueLeaves
<1>5. CASE /\ op.op = "ChangeServiceFee"
           /\ continue_change_service_fee(op, gas)
  <2>1. op.op # "ModifyTotalDelegationCap"
    BY <1>5
  <2>2. OpLeaves /\ L!continue_change_fee
    BY <1>1, <1>3, <1>5, <2>1, FeeStep
  <2>3. L!continue_global_operation_endpoint
    BY <1>2, <1>5, <2>2 DEF L!continue_global_operation_endpoint
  <2> QED BY <2>2, <2>3 DEF ContinueLeaves
<1> QED BY <1>2, <1>4, <1>5 DEF continue_global_operation_endpoint

(* The ledger does not see the fee: in bootstrap mode it stutters.         *)
SetFeeLeaves ==
    OpLeaves /\ (UNCHANGED L!vars \/ L!set_service_fee_endpoint)

(* setServiceFee keeps the book sound and is a step of the ledger, or      *)
(* invisible to it.                                                        *)
LEMMA SetFeeStep ==
    ASSUME BookInv, NEW fee \in Fees, NEW gas \in GasLimits,
           set_service_fee_endpoint(fee, gas)
    PROVE  SetFeeLeaves
<1>1. /\ gas \in Nat /\ fee \in Nat /\ bootstrap_mode \in BOOLEAN
      /\ total_delegation_cap \in Nat /\ num_users \in Nat
  <2>1. gas \in Nat /\ fee \in 0 .. PERCENTAGE_DENOMINATOR
    BY DelegationAssumption
  <2>2. fee \in Nat
    BY <2>1 DEF PERCENTAGE_DENOMINATOR
  <2> QED BY <2>1, <2>2, BasicFacts DEF BookInv, Basics
<1>2. ~ is_global_op_in_progress /\ ~ L!is_global_op_in_progress
  BY DEF set_service_fee_endpoint, is_global_op_in_progress,
     L!is_global_op_in_progress
<1>3. CASE bootstrap_mode
  <2>1. UNCHANGED <<accounts, total_delegation_cap, bootstrap_mode,
                    limits, global_op, money, chain>>
    BY <1>3 DEF set_service_fee_endpoint
  <2>2. BookInv' /\ Follows(funds', funds, block_nonce)
    BY <1>1, <2>1, Untouched DEF accounts, chain
  <2>3. UNCHANGED L!vars
    BY <2>1 DEF L!vars, L!stakes, L!capVars, L!opVars, L!money, accounts, money
  <2> QED BY <2>1, <2>2, <2>3 DEF SetFeeLeaves, OpLeaves, money
<1>4. CASE ~ bootstrap_mode
  <2>1. PICK op : op = ChangeServiceFee(fee)
    OBVIOUS
  <2>2. op = [op |-> "ChangeServiceFee", step |-> "ComputeAllRewards",
              new_value |-> fee, waiting_to_active |-> 0,
              unstaked_to_def_p |-> 0, active_to_def_p |-> 0,
              last_id |-> 0, sum_unclaimed |-> 0,
              rewards_checkpoint |-> total_rewards]
    BY <2>1 DEF ChangeServiceFee, NoGlobalOp
  <2>3. IsOp(op)
    BY <1>1, <2>2 DEF IsOp, SwapSteps
  <2>4. /\ OpShape(op) /\ op.step = "ComputeAllRewards"
        /\ op.op = "ChangeServiceFee" /\ op.waiting_to_active = 0
        /\ op.unstaked_to_def_p = 0 /\ op.active_to_def_p = 0
    BY <1>1, <2>2, <2>3 DEF OpShape, SwapSteps
  <2>5. continue_change_service_fee(op, gas)
    BY <1>4, <2>1 DEF set_service_fee_endpoint
  <2>6. OpLeaves /\ L!continue_change_fee
    BY <1>1, <2>4, <2>5, FeeStep
  <2>7. L!set_service_fee_endpoint
    BY <1>2, <1>4, <2>6 DEF L!set_service_fee_endpoint
  <2> QED BY <2>6, <2>7 DEF SetFeeLeaves
<1> QED BY <1>3, <1>4

(* The endpoints and events that leave the items alone.                    *)
QuietNext ==
    \/ \E u \in Users : claim_rewards(u)
    \/ \E amount \in MinimumStakes : set_minimum_stake_endpoint(amount)
    \/ \E n \in UnBondPeriods : set_n_blocks_before_unbond_endpoint(n)
    \/ \E name \in Switches : OwnerSwitches(name)
    \/ \E amount \in NodeStakes : stake_nodes(amount)
    \/ upgrade
    \/ AuctionPaysBack
    \/ \E amount \in Rewards : RewardsArrive(amount)
    \/ NextBlock

(* With the next block fewer kinds are of a later block.                   *)
LEMMA LaterShrinks ==
    ASSUME NEW n \in Nat PROVE Later(n + 1) \subseteq Later(n)
<1>1. ASSUME NEW k \in Keys PROVE k[2].created \in Nat
  BY DEF Keys, Desc
<1> QED BY <1>1 DEF Later

(* The endpoints that leave the items alone keep the book sound.           *)
LEMMA QuietStep ==
    ASSUME BookInv, QuietNext \/ UNCHANGED vars
    PROVE  BookInv' /\ funds' = funds
<1>1. /\ block_nonce \in Nat /\ total_delegation_cap \in Nat
      /\ bootstrap_mode \in BOOLEAN
  BY BasicFacts DEF BookInv, Basics
<1>2. funds \in Seq(Item)
  BY DEF BookInv, FundsInv, Sound, Orderly
<1>3. CASE /\ UNCHANGED <<funds, num_users, global_op, block_nonce>>
           /\ total_delegation_cap' \in Nat /\ bootstrap_mode' \in BOOLEAN
  BY <1>3, Untouched
<1>4. CASE NextBlock
  <2>1. /\ block_nonce' = block_nonce + 1 /\ block_nonce' \in 0 .. NonceBound
        /\ UNCHANGED <<funds, num_users, global_op, total_delegation_cap,
                       bootstrap_mode>>
    BY <1>1, <1>4, DelegationAssumption DEF NextBlock, accounts, settings
  <2>2. Basics'
    BY <2>1 DEF BookInv, Basics, OpInv, OpShape, IsOp, Pending, NoGlobalOp
  <2>3. Total(funds, Later(block_nonce + 1)) = 0
    <3>1. Later(block_nonce + 1) \subseteq Later(block_nonce)
      BY <1>1, LaterShrinks
    <3>2. /\ Total(funds, Later(block_nonce + 1))
                <= Total(funds, Later(block_nonce))
          /\ Total(funds, Later(block_nonce + 1)) \in Nat
          /\ Total(funds, Later(block_nonce)) = 0
      BY <1>2, <3>1, TotalSubset, TotalNat DEF BookInv, FundsInv, Sound, Orderly
    <3> QED BY <3>2
  <2>4. FundsInv'
    BY <2>1, <2>3 DEF BookInv, FundsInv, Sound, Orderly
  <2> QED BY <2>1, <2>2, <2>4 DEF BookInv
<1>5. CASE upgrade
  <2>1. total_of_type(funds, "Active") \in Nat
        /\ total_of_type(funds, "UnStaked") \in Nat
    BY <1>2, TypeTotal
  <2>2. cap_if_necessary(total_delegation_cap, funds) \in Nat
    BY <1>1, <2>1 DEF cap_if_necessary
  <2> QED BY <1>1, <1>3, <1>5, <2>2 DEF upgrade, accounts, chain
<1>6. CASE UNCHANGED vars
  BY <1>1, <1>3, <1>6 DEF vars, accounts, settings, chain
<1>7. CASE \E u \in Users : claim_rewards(u)
  BY <1>1, <1>3, <1>7 DEF claim_rewards, settings, chain
<1>8. CASE \E amount \in MinimumStakes : set_minimum_stake_endpoint(amount)
  BY <1>1, <1>3, <1>8 DEF set_minimum_stake_endpoint, accounts, chain
<1>9. CASE \E n \in UnBondPeriods : set_n_blocks_before_unbond_endpoint(n)
  BY <1>1, <1>3, <1>9 DEF set_n_blocks_before_unbond_endpoint, accounts, chain
<1>10. CASE \E name \in Switches : OwnerSwitches(name)
  BY <1>1, <1>3, <1>10 DEF OwnerSwitches, accounts, settings
<1>11. CASE \E amount \in NodeStakes : stake_nodes(amount)
  BY <1>1, <1>3, <1>11 DEF stake_nodes, accounts, settings, chain
<1>12. CASE AuctionPaysBack
  BY <1>1, <1>3, <1>12 DEF AuctionPaysBack, accounts, settings, chain
<1>13. CASE \E amount \in Rewards : RewardsArrive(amount)
  BY <1>1, <1>3, <1>13 DEF RewardsArrive, accounts, settings, chain
<1> QED BY <1>4, <1>5, <1>6, <1>7, <1>8, <1>9, <1>10, <1>11, <1>12, <1>13
        DEF QuietNext

(* A book with no items is sound.                                          *)
LEMMA EmptyBook ==
    ASSUME NEW n, NEW nonce PROVE Sound(<<>>, n, nonce)
<1>1. <<>> \in Seq(Item) /\ Len(<<>>) = 0 /\ 1 .. 0 = {}
  OBVIOUS
<1>2. \A K : Total(<<>>, K) = 0
  BY <1>1, TotalOfNothing
<1>3. Everything(<<>>) = 0
  BY <1>1, <1>2, EverythingTotal
<1> QED BY <1>1, <1>2, <1>3, DelegationAssumption DEF Sound, Orderly

(* The items of the genesis contract are sound.                            *)
LEMMA GenesisBook ==
    ASSUME NEW u \in Users, NEW stake \in GenesisStakes, NEW fs,
           fs = create_fund(<<>>, u, Active, stake)
    PROVE  Sound(fs, NumUsers, 0)
<1>1. /\ u \in Nat /\ stake \in Nat /\ stake <= DepositBound
      /\ DepositBound \in Nat /\ u \in 1 .. NumUsers
  BY DelegationAssumption DEF Users
<1>2. /\ Active \in Desc /\ Active.created = 0 /\ <<>> \in Seq(Item)
      /\ Len(<<>>) = 0 /\ 0 \in Nat /\ 1 .. 0 = {}
  BY DEF Active, Desc, FundType
<1>3. /\ fs \in Seq(Item)
      /\ \A K : Total(fs, K) =
                Total(<<>>, K) + IF <<u, Active>> \in K THEN stake ELSE 0
  <2>1. PICK es : es = <<>>
    OBVIOUS
  <2>2. PICK d : d = Active
    OBVIOUS
  <2>3. es \in Seq(Item) /\ d \in Desc /\ fs = create_fund(es, u, d, stake)
    BY <1>2, <2>1, <2>2
  <2>4. /\ Extends(fs, es)
        /\ \A K : Total(fs, K) =
                Total(es, K) + IF <<u, d>> \in K THEN stake ELSE 0
    BY <1>1, <2>3, CreateFund
  <2> QED BY <2>1, <2>2, <2>4 DEF Extends
<1>4. \A K : Total(<<>>, K) = 0
  BY <1>2, TotalOfNothing
<1>5. Total(fs, Strangers(NumUsers)) = 0
  BY <1>1, <1>3, <1>4 DEF Strangers
<1>6. Total(fs, Later(0)) = 0
  BY <1>2, <1>3, <1>4 DEF Later
<1>7. Everything(fs) <= DepositBound
  <2>1. Total(fs, Keys) <= DepositBound
    BY <1>1, <1>3, <1>4
  <2> QED BY <1>3, <2>1, EverythingTotal
<1>8. \A id \in 1 .. Len(fs) : fs[id].balance > 0
  <2>1. CASE stake = 0
    BY <1>2, <2>1 DEF create_fund
  <2>2. CASE stake # 0
    <3>1. PICK item : item = [user_id |-> u, fund_desc |-> Active,
                              balance |-> stake]
      OBVIOUS
    <3>2. fs = Append(<<>>, item) /\ item \in Item /\ item.balance > 0
      BY <1>1, <1>2, <2>2, <3>1 DEF create_fund, Item, Desc
    <3>3. Len(fs) = 1 /\ fs[1] = item
      BY <1>2, <3>2
    <3> QED BY <3>2, <3>3
  <2> QED BY <2>1, <2>2
<1> QED BY <1>3, <1>5, <1>6, <1>7, <1>8 DEF Sound, Orderly

(* The book is sound when the contract is deployed or upgraded from        *)
(* genesis.                                                                *)
LEMMA InitBook == Init => BookInv
<1> SUFFICES ASSUME Init PROVE BookInv
  OBVIOUS
<1>1. /\ global_op = NoGlobalOp /\ block_nonce = 0
      /\ (Deployed \/ UpgradedGenesis)
  BY DEF Init
<1>2. NumUsers \in Nat \ {0} /\ NonceBound \in Nat /\ Caps \subseteq Nat
      /\ DepositBound \in Nat
  BY DelegationAssumption
<1>3. ASSUME num_users \in Users PROVE OpInv
  <2>1. num_users \in Nat
    BY <1>2, <1>3 DEF Users
  <2> QED BY <1>1, <2>1, NoOpShape DEF OpInv
<1>4. CASE Deployed
  <2>1. /\ num_users \in Users /\ funds = <<>> /\ total_delegation_cap \in Nat
        /\ bootstrap_mode \in BOOLEAN
    BY <1>2, <1>4 DEF Deployed, Users
  <2>2. FundsInv
    BY <1>2, <2>1, EmptyBook DEF FundsInv
  <2> QED BY <1>1, <1>2, <1>3, <2>1, <2>2 DEF BookInv, Basics
<1>5. CASE UpgradedGenesis
  <2>1. PICK u \in Users, stake \in GenesisStakes :
            /\ num_users = NumUsers
            /\ funds = create_fund(<<>>, u, Active, stake)
            /\ total_delegation_cap = cap_if_necessary(0, funds)
            /\ bootstrap_mode = FALSE
    BY <1>5 DEF UpgradedGenesis
  <2>2. Sound(funds, NumUsers, 0)
    BY <2>1, GenesisBook
  <2>3. FundsInv
    BY <1>1, <2>1, <2>2 DEF FundsInv
  <2>4. funds \in Seq(Item)
    BY <2>2 DEF Sound, Orderly
  <2>5. total_delegation_cap \in Nat
    <3>1. total_of_type(funds, "Active") \in Nat
          /\ total_of_type(funds, "UnStaked") \in Nat
      BY <2>4, TypeTotal
    <3> QED BY <2>1, <3>1 DEF cap_if_necessary
  <2>6. num_users \in Users
    BY <1>2, <2>1 DEF Users
  <2>7. block_nonce \in 0 .. NonceBound
    BY <1>1, <1>2
  <2>8. bootstrap_mode \in BOOLEAN
    BY <2>1
  <2> QED BY <1>3, <2>3, <2>5, <2>6, <2>7, <2>8 DEF BookInv, Basics
<1> QED BY <1>1, <1>4, <1>5

(* Every endpoint and event, by the name of the lemma about it.            *)
LEMMA NextCases ==
    ASSUME Next
    PROVE  \/ \E u \in Users, payment \in Payments : stake_endpoint(u, payment)
           \/ \E u \in Users, amount \in Withdrawals : unstake_endpoint(u, amount)
           \/ \E u \in Users, gas \in GasLimits : unbond_user(u, gas)
           \/ \E gas \in GasLimits, cap \in Caps :
                 modify_total_delegation_cap(cap, gas)
           \/ \E gas \in GasLimits, fee \in Fees :
                 set_service_fee_endpoint(fee, gas)
           \/ \E gas \in GasLimits : continue_global_operation_endpoint(gas)
           \/ \E gas \in GasLimits, limit \in DustLimits :
                 dust_cleanup_waiting_list(limit, gas)
           \/ \E gas \in GasLimits, limit \in DustLimits :
                 dust_cleanup_active(limit, gas)
           \/ QuietNext
BY Zenon DEF Next, UserNext, OwnerNext, EnvironmentNext, QuietNext

(* Every step keeps the book sound: one case per endpoint.                 *)
LEMMA BookStep ==
    ASSUME BookInv, Next \/ UNCHANGED vars PROVE BookInv'
<1>1. CASE \E u \in Users, payment \in Payments : stake_endpoint(u, payment)
  BY <1>1, StakeStep
<1>2. CASE \E u \in Users, amount \in Withdrawals : unstake_endpoint(u, amount)
  BY <1>2, UnstakeStep DEF UnstakeLeaves
<1>3. CASE \E u \in Users, gas \in GasLimits : unbond_user(u, gas)
  BY <1>3, UnbondStep DEF UnbondLeaves
<1>4. CASE \E gas \in GasLimits, cap \in Caps :
              modify_total_delegation_cap(cap, gas)
  BY <1>4, ModifyCapStep DEF OpLeaves
<1>5. CASE \E gas \in GasLimits, fee \in Fees :
              set_service_fee_endpoint(fee, gas)
  BY <1>5, SetFeeStep DEF SetFeeLeaves, OpLeaves
<1>6. CASE \E gas \in GasLimits : continue_global_operation_endpoint(gas)
  BY <1>6, ContinueStep DEF ContinueLeaves, OpLeaves
<1>7. CASE \E gas \in GasLimits, limit \in DustLimits :
              dust_cleanup_waiting_list(limit, gas)
  BY <1>7, DustWaitingStep DEF DustWaitingLeaves
<1>8. CASE \E gas \in GasLimits, limit \in DustLimits :
              dust_cleanup_active(limit, gas)
  BY <1>8, DustActiveStep DEF DustActiveLeaves
<1>9. CASE QuietNext \/ UNCHANGED vars
  BY <1>9, QuietStep
<1> QED BY <1>1, <1>2, <1>3, <1>4, <1>5, <1>6, <1>7, <1>8, <1>9, NextCases

(* In every reachable state, and whatever the owner does with the dust     *)
(* sweeps, the items of the fund book are well formed: no empty item is    *)
(* stored, every item belongs to a registered user and to a block that has *)
(* come, and the global operation under way has something left to do, of   *)
(* which no later step has been begun before an earlier one ended.         *)
THEOREM BookIsSound == Spec => []BookInv
<1>1. Init => BookInv
  BY InitBook
<1>2. BookInv /\ [Next]_vars => BookInv'
  BY BookStep
<1> QED BY <1>1, <1>2, PTL DEF Spec

-----------------------------------------------------------------------------
(* The settings *)

SettingsInv ==
    /\ min_stake \in MinimumStakes
    /\ n_blocks_before_unbond \in UnBondPeriods
    /\ off \subseteq Switches

(* Every step keeps the settings in their sets.                            *)
LEMMA SettingsStep ==
    ASSUME SettingsInv, Next \/ UNCHANGED vars PROVE SettingsInv'
<1>1. CASE UNCHANGED <<limits, chain>>
  BY <1>1 DEF SettingsInv, limits, chain
<1>2. CASE \E u \in Users, payment \in Payments : stake_endpoint(u, payment)
  BY <1>1, <1>2 DEF stake_endpoint
<1>3. CASE \E u \in Users, amount \in Withdrawals : unstake_endpoint(u, amount)
  BY <1>1, <1>3 DEF unstake_endpoint
<1>4. CASE \E u \in Users, gas \in GasLimits : unbond_user(u, gas)
  BY <1>1, <1>4 DEF unbond_user, settings
<1>5. CASE \E gas \in GasLimits, cap \in Caps :
              modify_total_delegation_cap(cap, gas)
  BY <1>1, <1>5 DEF modify_total_delegation_cap, lower_cap, raise_cap,
     continue_modify_total_delegation_cap
<1>6. CASE \E gas \in GasLimits, fee \in Fees :
              set_service_fee_endpoint(fee, gas)
  BY <1>1, <1>6 DEF set_service_fee_endpoint, continue_change_service_fee
<1>7. CASE \E gas \in GasLimits : continue_global_operation_endpoint(gas)
  BY <1>1, <1>7 DEF continue_global_operation_endpoint,
     continue_modify_total_delegation_cap, continue_change_service_fee
<1>8. CASE \E gas \in GasLimits, limit \in DustLimits :
              dust_cleanup_waiting_list(limit, gas)
  BY <1>1, <1>8 DEF dust_cleanup_waiting_list, settings
<1>9. CASE \E gas \in GasLimits, limit \in DustLimits :
              dust_cleanup_active(limit, gas)
  BY <1>1, <1>9 DEF dust_cleanup_active
<1>10. CASE \E u \in Users : claim_rewards(u)
  BY <1>1, <1>10 DEF claim_rewards, settings
<1>11. CASE \E amount \in MinimumStakes : set_minimum_stake_endpoint(amount)
  BY <1>11 DEF SettingsInv, set_minimum_stake_endpoint, chain
<1>12. CASE \E n \in UnBondPeriods : set_n_blocks_before_unbond_endpoint(n)
  BY <1>12 DEF SettingsInv, set_n_blocks_before_unbond_endpoint, chain
<1>13. CASE \E name \in Switches : OwnerSwitches(name)
  BY <1>13 DEF SettingsInv, OwnerSwitches, settings, limits
<1>14. CASE \E amount \in NodeStakes : stake_nodes(amount)
  BY <1>1, <1>14 DEF stake_nodes, settings
<1>15. CASE upgrade
  BY <1>1, <1>15 DEF upgrade
<1>16. CASE AuctionPaysBack
  BY <1>1, <1>16 DEF AuctionPaysBack, settings
<1>17. CASE \E amount \in Rewards : RewardsArrive(amount)
  BY <1>1, <1>17 DEF RewardsArrive, settings
<1>18. CASE NextBlock
  BY <1>18 DEF SettingsInv, NextBlock, settings, limits
<1>19. CASE UNCHANGED vars
  BY <1>1, <1>19 DEF vars, settings
<1> QED BY <1>2, <1>3, <1>4, <1>5, <1>6, <1>7, <1>8, <1>9, <1>10, <1>11,
           <1>12, <1>13, <1>14, <1>15, <1>16, <1>17, <1>18, <1>19, NextCases
        DEF QuietNext

(* In every reachable state the book is sound and every setting has a      *)
(* value its setter accepts.                                               *)
THEOREM SettingsHold == Spec => [](BookInv /\ SettingsInv)
<1>1. Init => SettingsInv
  BY DEF Init, SettingsInv
<1>2. SettingsInv /\ [Next]_vars => SettingsInv'
  BY SettingsStep
<1> QED BY <1>1, <1>2, BookIsSound, PTL DEF Spec

-----------------------------------------------------------------------------
(* How a step moves funds *)

SameClock == UNCHANGED <<block_nonce, n_blocks_before_unbond>>

Deposit == \E u \in Users, payment \in Nat :
              /\ Deposits(u, payment) /\ sc_balance' = sc_balance + payment
              /\ SameClock

Relabel == /\ Follows(funds', funds, block_nonce) /\ sc_balance' = sc_balance
           /\ SameClock

Payout == SameClock /\ \E u \in Users : Unbonds(u)

SweepWaiting == /\ Sweeps("Waiting", to_withdraw_only)
                /\ sc_balance' = sc_balance /\ SameClock

SweepActive == /\ Sweeps("Active", to_unstaked_at_once)
               /\ \E limit \in DustLimits, gas \in GasLimits :
                     dust_cleanup_active(limit, gas)
               /\ sc_balance' = sc_balance /\ SameClock

FundsStay == funds' = funds /\ block_nonce <= block_nonce'

(* Whatever endpoint is called, the items change in one of six ways: a     *)
(* deposit, a change of label, a payout, one of the two sweeps, or not at  *)
(* all.                                                                    *)
LEMMA StepMovesFunds ==
    ASSUME BookInv, Next \/ UNCHANGED vars
    PROVE  \/ Deposit \/ Relabel \/ Payout \/ SweepWaiting \/ SweepActive
           \/ FundsStay
<1>1. CASE \E u \in Users, payment \in Payments : stake_endpoint(u, payment)
  <2>1. PICK u \in Users, payment \in Payments : stake_endpoint(u, payment)
    BY <1>1
  <2>2. /\ Deposits(u, payment) /\ payment \in Nat
    BY <2>1, StakeStep, DelegationAssumption
  <2>3. sc_balance' = sc_balance + payment /\ SameClock
    BY <2>1 DEF stake_endpoint, limits, chain, SameClock
  <2> QED BY <2>2, <2>3 DEF Deposit
<1>2. CASE \E u \in Users, amount \in Withdrawals : unstake_endpoint(u, amount)
  <2>1. UnstakeLeaves
    BY <1>2, UnstakeStep
  <2>2. SameClock
    BY <1>2 DEF unstake_endpoint, limits, chain, SameClock
  <2> QED BY <2>1, <2>2 DEF UnstakeLeaves, Relabel
<1>3. CASE \E u \in Users, gas \in GasLimits : unbond_user(u, gas)
  <2>1. PICK u \in Users : UnbondLeaves(u)
    BY <1>3, UnbondStep
  <2>2. SameClock
    BY <1>3 DEF unbond_user, settings, limits, chain, SameClock
  <2> QED BY <2>1, <2>2 DEF UnbondLeaves, Payout
<1>4. CASE OpLeaves
  BY <1>4 DEF OpLeaves, Relabel, SameClock, limits, chain
<1>5. CASE \E gas \in GasLimits, cap \in Caps :
              modify_total_delegation_cap(cap, gas)
  BY <1>4, <1>5, ModifyCapStep
<1>6. CASE \E gas \in GasLimits, fee \in Fees :
              set_service_fee_endpoint(fee, gas)
  BY <1>4, <1>6, SetFeeStep DEF SetFeeLeaves
<1>7. CASE \E gas \in GasLimits : continue_global_operation_endpoint(gas)
  BY <1>4, <1>7, ContinueStep DEF ContinueLeaves
<1>8. CASE \E gas \in GasLimits, limit \in DustLimits :
              dust_cleanup_waiting_list(limit, gas)
  <2>1. DustWaitingLeaves
    BY <1>8, DustWaitingStep
  <2>2. SameClock
    BY <1>8 DEF dust_cleanup_waiting_list, settings, limits, chain, SameClock
  <2> QED BY <2>1, <2>2 DEF DustWaitingLeaves, SweepWaiting
<1>9. CASE \E gas \in GasLimits, limit \in DustLimits :
              dust_cleanup_active(limit, gas)
  <2>1. DustActiveLeaves
    BY <1>9, DustActiveStep
  <2>2. SameClock
    BY <1>9 DEF dust_cleanup_active, limits, chain, SameClock
  <2> QED BY <1>9, <2>1, <2>2 DEF DustActiveLeaves, SweepActive
<1>10. CASE QuietNext \/ UNCHANGED vars
  <2>1. funds' = funds /\ block_nonce \in Nat
    BY <1>10, QuietStep, BasicFacts DEF BookInv
  <2>2. block_nonce' = block_nonce \/ block_nonce' = block_nonce + 1
    BY <1>10 DEF QuietNext, claim_rewards, set_minimum_stake_endpoint,
       set_n_blocks_before_unbond_endpoint, OwnerSwitches, stake_nodes,
       upgrade, AuctionPaysBack, RewardsArrive, NextBlock, vars, chain
  <2> QED BY <2>1, <2>2 DEF FundsStay
<1> QED BY <1>1, <1>2, <1>3, <1>5, <1>6, <1>7, <1>8, <1>9, <1>10, NextCases

-----------------------------------------------------------------------------
(* Nobody is paid before the time *)

(* A transformation that never moves funds into a kind.                    *)
LEMMA NeverEnters ==
    ASSUME NEW K, NEW S, NEW transform,
           \A item \in Item :
               /\ key(item) \in S
               /\ transform[item] # NoDescription
               /\ <<item.user_id, transform[item]>> \in K
               => key(item) \in K
    PROVE  Moves(-1, 0, K, S, transform)
BY DEF Moves, effect_on, indicator

(* One that never moves funds out of it.                                   *)
LEMMA NeverLeaves ==
    ASSUME NEW K, NEW S, NEW transform,
           \A item \in Item :
               /\ key(item) \in S
               /\ transform[item] # NoDescription
               /\ key(item) \in K
               => <<item.user_id, transform[item]>> \in K
    PROVE  Moves(0, 1, K, S, transform)
BY DEF Moves, effect_on, indicator

SinceKinds(u, b) ==
    { k \in Keys : /\ k[1] = u
                   /\ k[2].type \in {"UnStaked", "DeferredPayment"}
                   /\ k[2].created <= b }

MaturedKinds(u, n, nonce) ==
    { k \in Keys : /\ k[1] = u
                   /\ \/ k[2].type = "WithdrawOnly"
                      \/ /\ k[2].type = "DeferredPayment"
                         /\ \/ k[2].created + n >= U64
                            \/ nonce >= k[2].created + n }

(* The key of an item spells out its fields.                               *)
LEMMA KeyFields ==
    ASSUME NEW item \in Item
    PROVE  /\ key(item) \in Keys /\ key(item)[1] = item.user_id
           /\ key(item)[2] = item.fund_desc
BY ItemFields DEF key

(* Only the current block's stamp is put on funds that are unstaked.       *)
LEMMA SinceNeverGrows ==
    ASSUME NEW nonce \in Nat, NEW b \in Nat, b < nonce, NEW u
    PROVE  NeverAdds(SinceKinds(u, b), nonce)
<1>1. PICK K : K = SinceKinds(u, b)
  OBVIOUS
<1>2. Moves(-1, 0, K, OfType("Active"), to_unstaked(nonce))
  <2>1. \A item \in Item : <<item.user_id, to_unstaked(nonce)[item]>> \notin K
    BY <1>1 DEF SinceKinds, to_unstaked, UnStaked
  <2> QED BY <2>1, NeverEnters
<1>3. Moves(-1, 0, K, OfType("Waiting"), to_active)
  <2>1. \A item \in Item : <<item.user_id, to_active[item]>> \notin K
    BY <1>1 DEF SinceKinds, to_active, Active
  <2> QED BY <2>1, NeverEnters
<1>4. Moves(-1, 0, K, OfType("Waiting"), to_withdraw_only)
  <2>1. \A item \in Item : <<item.user_id, to_withdraw_only[item]>> \notin K
    BY <1>1 DEF SinceKinds, to_withdraw_only, WithdrawOnly
  <2> QED BY <2>1, NeverEnters
<1>5. Moves(-1, 0, K, OfType("UnStaked"), to_deferred)
  <2>1. ASSUME NEW item \in Item, key(item) \in OfType("UnStaked"),
               <<item.user_id, to_deferred[item]>> \in K
        PROVE  key(item) \in K
    <3>1. /\ key(item) \in Keys /\ key(item)[1] = item.user_id
          /\ key(item)[2] = item.fund_desc
      BY KeyFields
    <3>2. to_deferred[item].created = item.fund_desc.created
      BY DEF to_deferred, DeferredPayment
    <3> QED BY <1>1, <2>1, <3>1, <3>2 DEF SinceKinds, OfType
  <2> QED BY <2>1, NeverEnters
<1>6. Moves(-1, 0, K, OfType("Active"), to_deferred_at(nonce))
  <2>1. \A item \in Item : <<item.user_id, to_deferred_at(nonce)[item]>> \notin K
    BY <1>1 DEF SinceKinds, to_deferred_at, DeferredPayment
  <2> QED BY <2>1, NeverEnters
<1> QED BY <1>1, <1>2, <1>3, <1>4, <1>5, <1>6 DEF NeverAdds, MovesAll

(* What is released was due.                                               *)
LEMMA ReleasedWasMatured ==
    ASSUME NEW n \in Nat, NEW nonce \in Nat, NEW u
    PROVE  Moves(-1, 0, MaturedKinds(u, n, nonce),
                 OfUser(u) \cap OfType("DeferredPayment"), release(n, nonce))
<1>1. ASSUME NEW item \in Item,
             key(item) \in OfUser(u) \cap OfType("DeferredPayment"),
             release(n, nonce)[item] # NoDescription
      PROVE  key(item) \in MaturedKinds(u, n, nonce)
  <2>1. /\ key(item) \in Keys /\ key(item)[1] = item.user_id
        /\ key(item)[2] = item.fund_desc
    BY KeyFields
  <2>2. due(item.fund_desc, n, nonce)
    BY <1>1 DEF release
  <2>3. PICK c \in Nat : c = item.fund_desc.created
    BY ItemFields
  <2>4. nonce >= (c + n) % U64
    BY <2>2, <2>3 DEF due
  <2>5. c + n >= U64 \/ nonce >= c + n
    <3>1. c + n < U64 => (c + n) % U64 = c + n
      BY ONLY c \in Nat, n \in Nat, U64Assumption
    <3> QED BY <2>4, <3>1, U64Assumption
  <2> QED BY <1>1, <2>1, <2>3, <2>5 DEF MaturedKinds, OfUser, OfType
<1> QED BY <1>1, NeverEnters

since_sum(fs, u, b) ==
    sum_of(fs, { id \in of_user(fs, u) :
        /\ fs[id].fund_desc.type \in {"UnStaked", "DeferredPayment"}
        /\ fs[id].fund_desc.created <= b })

matured_sum(fs, u, n, nonce) ==
    sum_of(fs, { id \in of_user(fs, u) :
        LET end == fs[id].fund_desc.created + n
        IN  \/ fs[id].fund_desc.type = "WithdrawOnly"
            \/ /\ fs[id].fund_desc.type = "DeferredPayment"
               /\ end >= U64 \/ nonce >= end })

(* The sums that the properties speak of, before and after a step.         *)
LEMMA SumsAreTotals ==
    ASSUME NEW fs \in Seq(Item), NEW u, NEW b, NEW n, NEW nonce
    PROVE  /\ since_sum(fs, u, b) = Total(fs, SinceKinds(u, b))
           /\ matured_sum(fs, u, n, nonce) = Total(fs, MaturedKinds(u, n, nonce))
<1>1. \A i \in 1 .. Len(fs) :
         /\ key(fs[i]) \in Keys /\ key(fs[i])[1] = fs[i].user_id
         /\ key(fs[i])[2] = fs[i].fund_desc /\ i \in DOMAIN fs
  BY KeyFields
<1>2. PICK since : since = { id \in of_user(fs, u) :
                  /\ fs[id].fund_desc.type \in {"UnStaked", "DeferredPayment"}
                  /\ fs[id].fund_desc.created <= b }
  OBVIOUS
<1>3. \A i \in 1 .. Len(fs) : i \in since <=> key(fs[i]) \in SinceKinds(u, b)
  BY <1>1, <1>2 DEF of_user, SinceKinds
<1>4. sum_of(fs, since) = Total(fs, SinceKinds(u, b))
  BY <1>3, SumOfIsTotal
<1>5. PICK mature : mature = { id \in of_user(fs, u) :
                  LET end == fs[id].fund_desc.created + n
                  IN  \/ fs[id].fund_desc.type = "WithdrawOnly"
                      \/ /\ fs[id].fund_desc.type = "DeferredPayment"
                         /\ end >= U64 \/ nonce >= end }
  OBVIOUS
<1>6. \A i \in 1 .. Len(fs) :
         i \in mature <=> key(fs[i]) \in MaturedKinds(u, n, nonce)
  BY <1>1, <1>5 DEF of_user, MaturedKinds
<1>7. sum_of(fs, mature) = Total(fs, MaturedKinds(u, n, nonce))
  BY <1>6, SumOfIsTotal
<1> QED BY <1>2, <1>4, <1>5, <1>7 DEF since_sum, matured_sum

(* unBond, as far as the totals of funds can tell.                         *)
LEMMA PayoutTotals ==
    ASSUME BookInv, n_blocks_before_unbond \in Nat, NEW w, Unbonds(w)
    PROVE  /\ \A u : u # w => Total(funds', OfUser(u)) = Total(funds, OfUser(u))
           /\ Total(funds, OfUser(w)) - Total(funds', OfUser(w))
                 <= Total(funds, MaturedKinds(w, n_blocks_before_unbond,
                                              block_nonce))
           /\ \A u, b : Total(funds', SinceKinds(u, b))
                           <= Total(funds, SinceKinds(u, b))
<1>1. funds \in Seq(Item) /\ block_nonce \in Nat
  BY BasicFacts DEF BookInv, FundsInv, Sound, Orderly
<1>2. PICK r, gs : Unbonded(w, r, gs)
  BY DEF Unbonds
<1>3. PICK n \in Nat, nonce \in Nat :
         n = n_blocks_before_unbond /\ nonce = block_nonce
  BY <1>1
<1>4. PICK f, S, max : /\ f = release(n, nonce) /\ max = Everything(funds)
                       /\ S = OfUser(w) \cap OfType("DeferredPayment")
  OBVIOUS
<1>5. /\ Swap(r, funds, max, S, f) /\ Liquidated(gs, r.funds, w)
      /\ funds' = save(gs) /\ max \in Nat /\ IsTransform(f)
  BY <1>1, <1>2, <1>3, <1>4, EverythingTotal, ReleaseIsTransform DEF Unbonded
<1>6. r.funds \in Seq(Item) /\ gs \in Seq(Item)
  BY <1>5 DEF Liquidated
<1>7. \A K : Total(funds', K) = Total(gs, K)
  BY <1>5, <1>6, SaveKeepsTotals
<1>8. PICK P : P = OfUser(w) \cap OfType("WithdrawOnly")
  OBVIOUS
<1>9. /\ \A K : Total(gs, K) <= Total(r.funds, K)
      /\ \A K : K \cap P = {} => Total(gs, K) = Total(r.funds, K)
      /\ \A K : P \subseteq K => Total(r.funds, K) - Total(gs, K)
                                   = Everything(r.funds) - Everything(gs)
  BY <1>5, <1>8 DEF Liquidated
<1>10. \A u : Total(r.funds, OfUser(u)) = Total(funds, OfUser(u))
  BY <1>1, <1>5, UserKinds, SwapKeepsUsers
<1>11. ASSUME NEW u, u # w
       PROVE  Total(funds', OfUser(u)) = Total(funds, OfUser(u))
  <2>1. OfUser(u) \cap P = {}
    BY <1>8, <1>11 DEF OfUser
  <2> QED BY <1>7, <1>9, <1>10, <2>1
<1>12. Total(funds, OfUser(w)) - Total(funds', OfUser(w))
          <= Total(funds, MaturedKinds(w, n, nonce))
  <2>1. PICK M : M = MaturedKinds(w, n, nonce)
    OBVIOUS
  <2>2. Total(r.funds, M) <= Total(funds, M)
    BY <1>1, <1>4, <1>5, <2>1, ReleasedWasMatured, SwapNeverAdds
  <2>3. P \subseteq M /\ P \subseteq OfUser(w) /\ P \subseteq P
    BY <1>8, <2>1 DEF MaturedKinds, OfType, OfUser
  <2>4. Total(r.funds, P) <= Total(r.funds, M)
    BY <1>6, <2>3, TotalSubset
  <2>5. Total(r.funds, OfUser(w)) - Total(gs, OfUser(w))
           = Total(r.funds, P) - Total(gs, P)
    BY <1>9, <2>3
  <2>6. /\ Total(r.funds, P) \in Nat /\ Total(gs, P) \in Nat
        /\ Total(r.funds, M) \in Nat /\ Total(funds, M) \in Nat
    BY <1>1, <1>6, TotalNat
  <2>7. Total(r.funds, P) - Total(gs, P) <= Total(funds, M)
    BY <2>2, <2>4, <2>6
  <2> QED BY <1>7, <1>10, <2>1, <2>5, <2>7
<1>13. ASSUME NEW u, NEW b
       PROVE  Total(funds', SinceKinds(u, b)) <= Total(funds, SinceKinds(u, b))
  <2>1. PICK K : K = SinceKinds(u, b)
    OBVIOUS
  <2>2. \A item \in Item : <<item.user_id, f[item]>> \notin K
    BY <1>4, <2>1 DEF SinceKinds, release, WithdrawOnly, NoDescription
  <2>3. Moves(-1, 0, K, S, f)
    BY <2>2, NeverEnters
  <2>4. Total(r.funds, K) <= Total(funds, K)
    BY <1>1, <1>5, <2>3, SwapNeverAdds
  <2>5. /\ Total(r.funds, K) \in Nat /\ Total(gs, K) \in Nat
        /\ Total(funds, K) \in Nat
    BY <1>1, <1>6, TotalNat
  <2> QED BY <1>7, <1>9, <2>1, <2>4, <2>5
<1> QED BY <1>3, <1>11, <1>12, <1>13

(* Swaps of the contract move no user's stake and age no funds.            *)
LEMMA FollowsTotals ==
    ASSUME NEW fs \in Seq(Item), NEW gs, NEW nonce \in Nat,
           Follows(gs, fs, nonce)
    PROVE  /\ \A u : Total(gs, OfUser(u)) = Total(fs, OfUser(u))
           /\ \A u : \A b \in Nat : b < nonce =>
                 Total(gs, SinceKinds(u, b)) <= Total(fs, SinceKinds(u, b))
<1>1. \A u : Total(gs, OfUser(u)) = Total(fs, OfUser(u))
  BY FollowsKeeps, UserKinds DEF Keeps
<1>2. \A u : \A b \in Nat : b < nonce =>
         Total(gs, SinceKinds(u, b)) <= Total(fs, SinceKinds(u, b))
  BY SinceNeverGrows DEF Follows
<1> QED BY <1>1, <1>2

(* stake adds the payment to the stake of the caller and ages no funds.    *)
LEMMA DepositTotals ==
    ASSUME BookInv, NEW w \in Users, NEW payment \in Nat, Deposits(w, payment)
    PROVE  /\ \A u : Total(funds', OfUser(u)) = Total(funds, OfUser(u))
                        + IF u = w THEN payment ELSE 0
           /\ \A u : \A b \in Nat : b < block_nonce =>
                 Total(funds', SinceKinds(u, b)) <= Total(funds, SinceKinds(u, b))
<1>1. funds \in Seq(Item) /\ block_nonce \in Nat /\ w \in Nat
  BY BasicFacts DEF BookInv, FundsInv, Sound, Orderly
<1>2. PICK fs : Deposited(fs, w, payment)
  BY DEF Deposits
<1>3. /\ fs \in Seq(Item) /\ Follows(funds', fs, block_nonce)
      /\ \A K : Total(fs, K) = Total(funds, K)
                   + IF <<w, Waiting>> \in K THEN payment ELSE 0
  BY <1>2 DEF Deposited
<1>4. \A u : <<w, Waiting>> \in OfUser(u) <=> u = w
  BY <1>1 DEF OfUser, Keys, Waiting, Desc, FundType
<1>5. \A u, b : <<w, Waiting>> \notin SinceKinds(u, b)
  BY DEF SinceKinds, Waiting
<1>6. \A u, b : Total(fs, SinceKinds(u, b)) = Total(funds, SinceKinds(u, b))
  <2>1. \A u, b : Total(funds, SinceKinds(u, b)) \in Nat
    BY <1>1, TotalNat
  <2>2. \A u, b : Total(fs, SinceKinds(u, b))
                     = Total(funds, SinceKinds(u, b)) + 0
    BY <1>3, <1>5
  <2> QED BY ONLY <2>1, <2>2
<1>7. \A u : Total(fs, OfUser(u)) = Total(funds, OfUser(u))
                + IF u = w THEN payment ELSE 0
  BY <1>3, <1>4
<1>8. PICK nonce \in Nat : nonce = block_nonce
  BY <1>1
<1>9. /\ \A u : Total(funds', OfUser(u)) = Total(fs, OfUser(u))
      /\ \A u : \A b \in Nat : b < nonce =>
            Total(funds', SinceKinds(u, b)) <= Total(fs, SinceKinds(u, b))
  BY <1>3, <1>8, FollowsTotals
<1> QED BY <1>6, <1>7, <1>8, <1>9

(* A sweep moves no user's stake; one of waiting stake ages no funds.      *)
LEMMA SweepTotals ==
    ASSUME BookInv, NEW source, NEW transform, NEW q, Target(transform, q),
           Sweeps(source, transform)
    PROVE  /\ \A u : Total(funds', OfUser(u)) = Total(funds, OfUser(u))
           /\ \A u : \A b \in Nat :
                 q = "WithdrawOnly" /\ b < block_nonce =>
                 Total(funds', SinceKinds(u, b)) <= Total(funds, SinceKinds(u, b))
<1>1. funds \in Seq(Item) /\ block_nonce \in Nat
  BY BasicFacts DEF BookInv, FundsInv, Sound, Orderly
<1>2. PICK s, limit : Swept(s, limit, source, transform)
  BY DEF Sweeps
<1>3. PICK nonce \in Nat : nonce = block_nonce
  BY <1>1
<1>31. PICK convert, max : /\ convert = small(limit, transform)
                           /\ max = Everything(funds)
  OBVIOUS
<1>4. Swap(s, funds, max, Keys, convert) /\ max \in Nat
  BY <1>1, <1>2, <1>31, EverythingTotal DEF Swept, DustSwap
<1>5. Into(q, convert) /\ Keeps(s.funds, funds, nonce)
  BY <1>1, <1>3, <1>31, <1>4, DustKeeps
<1>6. PICK gs \in Seq(Item) : gs = s.funds
  BY <1>5 DEF Keeps
<1>7. Follows(funds', gs, nonce)
  BY <1>2, <1>3, <1>6 DEF Swept
<1>8. /\ \A u : Total(funds', OfUser(u)) = Total(gs, OfUser(u))
      /\ \A u : \A b \in Nat : b < nonce =>
            Total(funds', SinceKinds(u, b)) <= Total(gs, SinceKinds(u, b))
  BY <1>7, FollowsTotals
<1>9. \A u : Total(gs, OfUser(u)) = Total(funds, OfUser(u))
  BY <1>5, <1>6, UserKinds DEF Keeps
<1>10. ASSUME NEW u, NEW b \in Nat, q = "WithdrawOnly", b < nonce
       PROVE  Total(funds', SinceKinds(u, b)) <= Total(funds, SinceKinds(u, b))
  <2>1. PICK K : K = SinceKinds(u, b)
    OBVIOUS
  <2>2. \A item \in Item : convert[item] # NoDescription =>
           <<item.user_id, convert[item]>> \notin K
    BY <1>5, <1>10, <2>1 DEF SinceKinds, Into
  <2>3. Moves(-1, 0, K, Keys, convert)
    BY <2>2, NeverEnters
  <2>4. Total(gs, K) <= Total(funds, K)
    BY <1>1, <1>4, <1>6, <2>3, SwapNeverAdds
  <2>5. Total(funds', K) <= Total(gs, K)
    BY <1>8, <1>10, <2>1
  <2>6. /\ Total(gs, K) \in Nat /\ Total(funds, K) \in Nat
        /\ Total(funds', K) \in Nat
    BY <1>1, <1>7, TotalNat DEF Follows
  <2> QED BY <2>1, <2>4, <2>5, <2>6
<1> QED BY <1>3, <1>8, <1>9, <1>10

(* The targets of the two sweeps.                                          *)
LEMMA SweepTargets ==
    /\ Target(to_withdraw_only, "WithdrawOnly")
    /\ Target(to_unstaked_at_once, "UnStaked")
BY DEF Target, to_withdraw_only, to_unstaked_at_once, WithdrawOnly, UnStaked,
       Desc, FundType

(* What PaidOnlyWhenDue says of one step and one user, with totals.        *)
PaidInTime(u) ==
    /\ Total(funds, OfUser(u)) - Total(funds', OfUser(u))
          <= Total(funds, MaturedKinds(u, n_blocks_before_unbond, block_nonce))
    /\ \A b \in 0 .. block_nonce - 1 :
          \/ Total(funds', SinceKinds(u, b)) <= Total(funds, SinceKinds(u, b))
          \/ \E limit \in DustLimits, gas \in GasLimits :
                dust_cleanup_active(limit, gas)

(* A user whose stake did not shrink was paid nothing early.               *)
LEMMA NothingPaid ==
    ASSUME BookInv, BookInv', NEW u,
           Total(funds, OfUser(u)) <= Total(funds', OfUser(u)),
           \A b \in 0 .. block_nonce - 1 :
              \/ Total(funds', SinceKinds(u, b)) <= Total(funds, SinceKinds(u, b))
              \/ \E limit \in DustLimits, gas \in GasLimits :
                    dust_cleanup_active(limit, gas)
    PROVE  PaidInTime(u)
<1>1. funds \in Seq(Item) /\ funds' \in Seq(Item)
  BY DEF BookInv, FundsInv, Sound, Orderly
<1>2. PICK M : M = MaturedKinds(u, n_blocks_before_unbond, block_nonce)
  OBVIOUS
<1>3. /\ Total(funds, OfUser(u)) \in Nat /\ Total(funds', OfUser(u)) \in Nat
      /\ Total(funds, M) \in Nat
  BY <1>1, TotalNat
<1>4. Total(funds, OfUser(u)) - Total(funds', OfUser(u)) <= Total(funds, M)
  BY <1>3
<1> QED BY <1>2, <1>4 DEF PaidInTime

(* Every step pays in time: one case per way in which funds move.          *)
LEMMA PaidStep ==
    ASSUME BookInv, BookInv', SettingsInv, Next \/ UNCHANGED vars,
           NEW u \in Users
    PROVE  PaidInTime(u)
<1>1. /\ funds \in Seq(Item) /\ funds' \in Seq(Item) /\ block_nonce \in Nat
      /\ n_blocks_before_unbond \in Nat
  BY BasicFacts, DelegationAssumption
     DEF BookInv, FundsInv, Sound, Orderly, SettingsInv
<1>2. /\ Total(funds, OfUser(u)) \in Nat
      /\ \A b \in 0 .. block_nonce - 1 : b \in Nat /\ b < block_nonce
  BY <1>1, TotalNat
<1>3. CASE Deposit
  <2>1. PICK w \in Users, payment \in Nat : Deposits(w, payment)
    BY <1>3 DEF Deposit
  <2>2. PICK more \in Nat : more = IF u = w THEN payment ELSE 0
    OBVIOUS
  <2>3. Total(funds', OfUser(u)) = Total(funds, OfUser(u)) + more
    BY <2>1, <2>2, DepositTotals
  <2>4. \A b \in 0 .. block_nonce - 1 :
           Total(funds', SinceKinds(u, b)) <= Total(funds, SinceKinds(u, b))
    BY <1>2, <2>1, DepositTotals
  <2>5. Total(funds, OfUser(u)) <= Total(funds', OfUser(u))
    BY <1>2, <2>3
  <2> QED BY <2>4, <2>5, NothingPaid
<1>4. ASSUME Total(funds', OfUser(u)) = Total(funds, OfUser(u)),
             \A b \in 0 .. block_nonce - 1 :
                \/ Total(funds', SinceKinds(u, b))
                     <= Total(funds, SinceKinds(u, b))
                \/ \E limit \in DustLimits, gas \in GasLimits :
                      dust_cleanup_active(limit, gas)
      PROVE  PaidInTime(u)
  <2>1. Total(funds, OfUser(u)) <= Total(funds', OfUser(u))
    BY <1>2, <1>4
  <2> QED BY <1>4, <2>1, NothingPaid
<1>5. CASE Relabel
  <2>1. PICK nonce \in Nat : nonce = block_nonce
    BY <1>1
  <2>2. Follows(funds', funds, nonce)
    BY <1>5, <2>1 DEF Relabel
  <2>3. /\ Total(funds', OfUser(u)) = Total(funds, OfUser(u))
        /\ \A b \in Nat : b < nonce =>
              Total(funds', SinceKinds(u, b)) <= Total(funds, SinceKinds(u, b))
    BY <1>1, <2>2, FollowsTotals
  <2> QED BY <1>2, <1>4, <2>1, <2>3
<1>6. CASE Payout
  <2>1. PICK w \in Users : Unbonds(w)
    BY <1>6 DEF Payout
  <2>2. \A b : Total(funds', SinceKinds(u, b)) <= Total(funds, SinceKinds(u, b))
    BY <1>1, <2>1, PayoutTotals
  <2>3. CASE u # w
    <3>1. Total(funds', OfUser(u)) = Total(funds, OfUser(u))
      BY <1>1, <2>1, <2>3, PayoutTotals
    <3> QED BY <1>4, <2>2, <3>1
  <2>4. CASE u = w
    <3>1. Total(funds, OfUser(u)) - Total(funds', OfUser(u))
            <= Total(funds, MaturedKinds(u, n_blocks_before_unbond, block_nonce))
      BY <1>1, <2>1, <2>4, PayoutTotals
    <3> QED BY <2>2, <3>1 DEF PaidInTime
  <2> QED BY <2>3, <2>4
<1>7. CASE SweepWaiting
  <2>1. Sweeps("Waiting", to_withdraw_only)
    BY <1>7 DEF SweepWaiting
  <2>2. /\ Total(funds', OfUser(u)) = Total(funds, OfUser(u))
        /\ \A b \in Nat : b < block_nonce =>
              Total(funds', SinceKinds(u, b)) <= Total(funds, SinceKinds(u, b))
    BY <2>1, SweepTargets, SweepTotals
  <2> QED BY <1>2, <1>4, <2>2
<1>8. CASE SweepActive
  <2>1. /\ Sweeps("Active", to_unstaked_at_once)
        /\ \E limit \in DustLimits, gas \in GasLimits :
              dust_cleanup_active(limit, gas)
    BY <1>8 DEF SweepActive
  <2>2. Total(funds', OfUser(u)) = Total(funds, OfUser(u))
    BY <2>1, SweepTargets, SweepTotals
  <2> QED BY <1>4, <2>1, <2>2
<1>9. CASE FundsStay
  <2>1. funds' = funds /\ \A b : Total(funds, SinceKinds(u, b)) \in Nat
    BY <1>1, <1>9, TotalNat DEF FundsStay
  <2> QED BY <1>4, <2>1
<1> QED BY <1>3, <1>5, <1>6, <1>7, <1>8, <1>9, StepMovesFunds

(* No transaction pays a delegator more than what was withdrawable or due  *)
(* before it, and none but the dust sweep of active stake makes unstaked   *)
(* funds older than they are: for every unbond period, wrapping or not,    *)
(* and whatever cursor the sweeps resume from.                             *)
THEOREM PaidOnlyWhenDueHolds == Spec => PaidOnlyWhenDue
<1>1. ASSUME BookInv, BookInv', SettingsInv, Next \/ UNCHANGED vars,
             NEW u \in Users
      PROVE  /\ stake_of(u) - stake_of(u)' <= matured(u)
             /\ \A b \in 0 .. block_nonce - 1 :
                   \/ waiting_since(u, b)' <= waiting_since(u, b)
                   \/ \E limit \in DustLimits, gas \in GasLimits :
                          dust_cleanup_active(limit, gas)
  <2>1. PaidInTime(u)
    BY <1>1, PaidStep
  <2>2. funds \in Seq(Item) /\ funds' \in Seq(Item)
    BY <1>1 DEF BookInv, FundsInv, Sound, Orderly
  <2>3. /\ stake_of(u) = Total(funds, OfUser(u))
        /\ stake_of(u)' = Total(funds', OfUser(u))
    BY <2>2, UserTotal DEF stake_of
  <2>4. PICK n, nonce : n = n_blocks_before_unbond /\ nonce = block_nonce
    OBVIOUS
  <2>5. /\ matured(u) = matured_sum(funds, u, n, nonce)
        /\ \A b : waiting_since(u, b) = since_sum(funds, u, b)
        /\ \A b : waiting_since(u, b)' = since_sum(funds', u, b)
    BY <2>4 DEF matured, matured_sum, waiting_since, since_sum
  <2>6. /\ matured_sum(funds, u, n, nonce)
               = Total(funds, MaturedKinds(u, n, nonce))
        /\ \A b : since_sum(funds, u, b) = Total(funds, SinceKinds(u, b))
        /\ \A b : since_sum(funds', u, b) = Total(funds', SinceKinds(u, b))
    BY <2>2, SumsAreTotals
  <2> QED BY <2>1, <2>3, <2>4, <2>5, <2>6 DEF PaidInTime
<1>2. /\ BookInv /\ SettingsInv /\ (BookInv /\ SettingsInv)' /\ [Next]_vars
      => [\A u \in Users :
            /\ stake_of(u) - stake_of(u)' <= matured(u)
            /\ \A b \in 0 .. block_nonce - 1 :
                  \/ waiting_since(u, b)' <= waiting_since(u, b)
                  \/ \E limit \in DustLimits, gas \in GasLimits :
                         dust_cleanup_active(limit, gas)]_vars
  BY <1>1
<1> QED BY <1>2, SettingsHold, PTL DEF Spec, PaidOnlyWhenDue

=============================================================================
