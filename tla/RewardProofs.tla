---------------------------- MODULE RewardProofs ----------------------------
(***************************************************************************)
(* The rewards of the contract, and the contract as an implementation of   *)
(* the ledger.                                                             *)
(*                                                                         *)
(* The argument: every user has a rate at which new rewards are owed to    *)
(* the user, and the rates of all users, the owner's fee and unused share  *)
(* included, add up to at most the whole. So the debt, computed or not,    *)
(* grows no faster than what is received; computing rewards rounds down    *)
(* and only lowers it; and a change of stake does not change it because    *)
(* everybody whose rate changes is brought up to date first.  For the      *)
(* same reason no step takes a claim away from a single user.              *)
(***************************************************************************)
EXTENDS DelegationProofs

(* A quotient rounds down.                                                 *)
LEMMA DivFloor ==
    ASSUME NEW x \in Nat, NEW y \in Nat, y > 0
    PROVE  x \div y \in Nat /\ y * (x \div y) <= x
OBVIOUS

(* Quotients grow with what is divided.                                    *)
LEMMA DivMonotone ==
    ASSUME NEW x \in Nat, NEW z \in Nat, NEW y \in Nat, y > 0, x <= z
    PROVE  x \div y <= z \div y
<1>1. PICK p, q : p = x \div y /\ q = z \div y
  OBVIOUS
<1>2. /\ p \in Nat /\ y * p <= x
  BY <1>1, DivFloor
<1>3. q \in Nat /\ z < y * (q + 1)
  BY <1>1
<1>4. y * p < y * (q + 1)
  BY <1>2, <1>3
<1>5. p <= q
  BY ONLY <1>2, <1>3, <1>4, y \in Nat, y > 0
<1> QED BY <1>1, <1>5

(* Products grow with their factors.                                       *)
LEMMA TimesMonotone ==
    ASSUME NEW a \in Int, NEW b \in Int, NEW c \in Nat, a <= b
    PROVE  a * c <= b * c /\ c * a <= c * b
OBVIOUS

(* A product of naturals is a natural.                                     *)
LEMMA TimesNat ==
    ASSUME NEW a \in Nat, NEW b \in Nat PROVE a * b \in Nat
OBVIOUS

(* Products distribute over sums.                                          *)
LEMMA TimesAdd ==
    ASSUME NEW a \in Int, NEW b \in Int, NEW c \in Int
    PROVE  (a + b) * c = a * c + b * c /\ c * (a + b) = c * a + c * b
OBVIOUS

(* A positive factor may be cancelled.                                     *)
LEMMA TimesCancel ==
    ASSUME NEW a \in Int, NEW b \in Int, NEW c \in Nat, c > 0, c * a <= c * b
    PROVE  a <= b
OBVIOUS

(* Two roundings in a row, first for the fee and then for the share, lose  *)
(* and never gain.                                                         *)
LEMMA ShareBound ==
    ASSUME NEW D \in Nat, NEW g \in Nat, NEW n \in Nat, NEW a \in Nat,
           NEW C \in Nat, C > 0, NEW del \in Nat, D * del <= g * n,
           NEW own \in Nat, C * own <= del * a
    PROVE  (D * C) * own <= (g * a) * n
<1>1. D * (C * own) <= D * (del * a)
  BY TimesMonotone
<1>2. (D * del) * a <= (g * n) * a
  BY TimesMonotone
<1> QED BY <1>1, <1>2

(* A common factor may be taken out of a sum.                              *)
LEMMA SumScale ==
    ASSUME NEW f, NEW h, NEW n \in Nat, NEW c \in Nat,
           \A k \in 1 .. n : f[k] \in Nat /\ h[k] = c * f[k]
    PROVE  SumTo(h, n) = c * SumTo(f, n)
<1> DEFINE S == { k \in Nat : /\ SumTo(f, k) \in Nat
                              /\ SumTo(h, k) = c * SumTo(f, k) }
<1>1. 0 \in S
  BY SumZero
<1>2. ASSUME NEW k \in 0 .. n - 1, k \in S PROVE k + 1 \in S
  <2>1. /\ SumTo(f, k + 1) = SumTo(f, k) + f[k + 1]
        /\ SumTo(h, k + 1) = SumTo(h, k) + h[k + 1]
    BY SumStep
  <2>2. f[k + 1] \in Nat /\ h[k + 1] = c * f[k + 1] /\ k + 1 \in Nat
    OBVIOUS
  <2>3. SumTo(f, k) \in Nat /\ SumTo(h, k) = c * SumTo(f, k)
    BY <1>2
  <2>4. c * (SumTo(f, k) + f[k + 1]) = c * SumTo(f, k) + c * f[k + 1]
    BY <2>2, <2>3, TimesAdd
  <2> QED BY <2>1, <2>2, <2>3, <2>4
<1>3. 0 .. n \subseteq S
  <2> HIDE DEF S
  <2> QED BY <1>1, <1>2, RangeInduction
<1> QED BY <1>3

(* What a user has active shares in what all users together have.          *)
active_of(fs) == [u \in Users |-> get_user_stake_of_type(fs, u, "Active")]

(* The active stakes of the registered users are at most the active stake  *)
(* there is.                                                               *)
LEMMA SharesWithinActive ==
    ASSUME NEW fs \in Seq(Item), NEW n \in Nat, n <= NumUsers
    PROVE  /\ SumTo(active_of(fs), n) \in Nat
           /\ SumTo(active_of(fs), n) <= total_of_type(fs, "Active")
           /\ \A u \in 1 .. n : active_of(fs)[u] \in Nat
<1> DEFINE UpTo(k) == { i \in OfType("Active") : i[1] \in 1 .. k }
           S == { k \in Nat : SumTo(active_of(fs), k) = Total(fs, UpTo(k)) }
<1>1. NumUsers \in Nat
  BY DelegationAssumption
<1>2. \A u \in 1 .. n : /\ active_of(fs)[u]
                              = Total(fs, OfUser(u) \cap OfType("Active"))
                        /\ active_of(fs)[u] \in Nat
  <2> SUFFICES ASSUME NEW u \in 1 .. n
               PROVE  /\ active_of(fs)[u]
                            = Total(fs, OfUser(u) \cap OfType("Active"))
                      /\ active_of(fs)[u] \in Nat
    OBVIOUS
  <2>1. u \in Users
    BY <1>1 DEF Users
  <2>2. active_of(fs)[u] = get_user_stake_of_type(fs, u, "Active")
    BY <2>1 DEF active_of
  <2> QED BY <2>2, UserTypeTotal
<1>3. 0 \in S
  <2>1. UpTo(0) = {}
    OBVIOUS
  <2>2. Total(fs, UpTo(0)) = 0
    BY <2>1, TotalOfNothing
  <2> QED BY <2>2, SumZero
<1>4. ASSUME NEW k \in 0 .. n - 1, k \in S PROVE k + 1 \in S
  <2>1. SumTo(active_of(fs), k + 1) = SumTo(active_of(fs), k)
                                      + active_of(fs)[k + 1]
    BY SumStep
  <2>2. PICK K, M, J : /\ K = UpTo(k) /\ J = UpTo(k + 1)
                       /\ M = OfUser(k + 1) \cap OfType("Active")
    OBVIOUS
  <2>3. K \cap M = {} /\ J = K \cup M
    <3>1. \A i \in Keys : i[1] \in Nat
      BY DEF Keys
    <3> QED BY <2>2, <3>1 DEF OfUser, OfType
  <2>4. Total(fs, J) = Total(fs, K) + Total(fs, M)
    BY <2>3, TotalUnion
  <2>5. active_of(fs)[k + 1] = Total(fs, M)
    BY <1>2, <2>2
  <2>6. SumTo(active_of(fs), k) = Total(fs, K)
    BY <1>4, <2>2
  <2>7. SumTo(active_of(fs), k + 1) = Total(fs, J)
    BY <2>1, <2>4, <2>5, <2>6
  <2>8. k + 1 \in Nat
    OBVIOUS
  <2> QED BY <2>2, <2>7, <2>8
<1>5. n \in S
  <2>1. 0 .. n \subseteq S
    <3> HIDE DEF S
    <3> QED BY <1>3, <1>4, RangeInduction
  <2> QED BY <2>1
<1>6. Total(fs, UpTo(n)) <= Total(fs, OfType("Active"))
  <2>1. UpTo(n) \subseteq OfType("Active")
    OBVIOUS
  <2> QED BY <2>1, TotalSubset
<1> QED BY <1>2, <1>5, <1>6, TotalNat, TypeTotal

positive(cap) == IF cap = 0 THEN 1 ELSE cap
unit(cap) == PERCENTAGE_DENOMINATOR * positive(cap)

owner_rate(fs, cap, fee) ==
    fee * positive(cap)
        + (PERCENTAGE_DENOMINATOR - fee) * (cap - total_of_type(fs, "Active"))

rate(u, fs, cap, fee) ==
    (PERCENTAGE_DENOMINATOR - fee) * get_user_stake_of_type(fs, u, "Active")
        + IF u = OWNER_USER_ID THEN owner_rate(fs, cap, fee) ELSE 0

owed(u, data, fs, cap, fee, T) ==
    unit(cap) * data.unclaimed_rewards
        + rate(u, fs, cap, fee) * (T - data.reward_checkpoint)

all_owed(rewards, fs, cap, fee, T) ==
    [u \in Users |-> owed(u, rewards[u], fs, cap, fee, T)]

Covered(rewards, fs, n, cap, fee, T, S) ==
    SumTo(all_owed(rewards, fs, cap, fee, T), n) <= unit(cap) * (T - S)

Within(fs, cap, fee) ==
    /\ fs \in Seq(Item) /\ cap \in Nat
    /\ fee \in 0 .. PERCENTAGE_DENOMINATOR
    /\ total_of_type(fs, "Active") <= cap

IsData(data, T) ==
    /\ data = [reward_checkpoint |-> data.reward_checkpoint,
               unclaimed_rewards |-> data.unclaimed_rewards]
    /\ data.reward_checkpoint \in 0 .. T
    /\ data.unclaimed_rewards \in Nat

(* The unit in which debts are compared is a positive natural.             *)
LEMMA UnitNat ==
    ASSUME NEW cap \in Nat
    PROVE  /\ positive(cap) \in Nat /\ positive(cap) > 0 /\ cap <= positive(cap)
           /\ unit(cap) \in Nat /\ unit(cap) > 0
BY DEF positive, unit, PERCENTAGE_DENOMINATOR

(* Nobody's rate is negative while the active stake is within the cap.     *)
LEMMA RateNat ==
    ASSUME NEW fs, NEW cap, NEW fee, Within(fs, cap, fee), NEW u
    PROVE  rate(u, fs, cap, fee) \in Nat /\ owner_rate(fs, cap, fee) \in Nat
<1>1. PICK g : g = PERCENTAGE_DENOMINATOR - fee
  OBVIOUS
<1>2. g \in Nat /\ fee \in Nat /\ cap \in Nat /\ fs \in Seq(Item)
  BY <1>1 DEF Within, PERCENTAGE_DENOMINATOR
<1>3. cap - total_of_type(fs, "Active") \in Nat
  BY <1>2, TypeTotal DEF Within
<1>4. /\ g * (cap - total_of_type(fs, "Active")) \in Nat
      /\ fee * positive(cap) \in Nat
      /\ g * get_user_stake_of_type(fs, u, "Active") \in Nat
  BY <1>2, <1>3, TimesNat, UnitNat, UserTypeTotal
<1>5. owner_rate(fs, cap, fee) \in Nat
  BY <1>1, <1>4 DEF owner_rate
<1> QED BY <1>1, <1>4, <1>5 DEF rate

(* The delegators' rates and the owner's add up to no more than one unit:  *)
(* the arithmetic.                                                         *)
LEMMA RateBound ==
    ASSUME NEW D \in Nat, NEW fee \in Nat, NEW g \in Nat, fee + g = D,
           NEW cap \in Nat, NEW c \in Nat, cap <= c, NEW a \in Nat, a <= cap,
           NEW s \in Nat, s <= a
    PROVE  g * s + (fee * c + g * (cap - a)) <= D * c
<1>1. g * s <= g * a
  BY TimesMonotone
<1>2. g * a + g * (cap - a) = g * cap
  OBVIOUS
<1>3. g * cap <= g * c
  BY TimesMonotone
<1>4. g * c + fee * c = D * c
  BY TimesAdd
<1>5. /\ g * s \in Int /\ g * a \in Int /\ g * (cap - a) \in Int
      /\ g * cap \in Int /\ g * c \in Int /\ fee * c \in Int /\ D * c \in Int
  OBVIOUS
<1> QED BY <1>1, <1>2, <1>3, <1>4, <1>5

rates(fs, cap, fee) == [u \in Users |-> rate(u, fs, cap, fee)]

(* Of every unit of reward that arrives the users together are owed at     *)
(* most that unit.                                                         *)
LEMMA RatesWithinUnit ==
    ASSUME NEW fs, NEW cap, NEW fee, Within(fs, cap, fee), NEW n \in Nat,
           1 <= n, n <= NumUsers
    PROVE  /\ SumTo(rates(fs, cap, fee), n) \in Nat
           /\ SumTo(rates(fs, cap, fee), n) <= unit(cap)
           /\ \A u \in 1 .. n : rates(fs, cap, fee)[u] \in Nat
<1>1. PICK g : g = PERCENTAGE_DENOMINATOR - fee
  OBVIOUS
<1>2. /\ g \in Nat /\ fee \in Nat /\ cap \in Nat /\ fs \in Seq(Item)
      /\ PERCENTAGE_DENOMINATOR \in Nat
      /\ fee + g = PERCENTAGE_DENOMINATOR
  BY <1>1 DEF Within, PERCENTAGE_DENOMINATOR
<1>3. PICK own : own = owner_rate(fs, cap, fee)
  OBVIOUS
<1>4. own \in Nat
  BY <1>3, RateNat
<1>5. NumUsers \in Nat
  BY DelegationAssumption
<1>6. PICK a : a = active_of(fs)
  OBVIOUS
<1>7. /\ SumTo(a, n) \in Nat /\ SumTo(a, n) <= total_of_type(fs, "Active")
      /\ \A u \in 1 .. n : a[u] \in Nat
  BY <1>2, <1>6, SharesWithinActive
<1>8. PICK f : f = [u \in 1 .. n |-> g * a[u]]
  OBVIOUS
<1>9. PICK p : p = [u \in 1 .. n |-> IF u = 1 THEN own ELSE 0]
  OBVIOUS
<1>10. PICK z : z = [u \in 1 .. n |-> 0]
  OBVIOUS
<1>11. PICK h : h = rates(fs, cap, fee)
  OBVIOUS
<1>12. \A u \in 1 .. n : /\ f[u] \in Nat /\ p[u] \in Nat
                         /\ f[u] = g * a[u]
  BY <1>2, <1>4, <1>7, <1>8, <1>9, TimesNat
<1>13. \A u \in 1 .. n : h[u] = f[u] + p[u]
  <2> SUFFICES ASSUME NEW u \in 1 .. n PROVE h[u] = f[u] + p[u]
    OBVIOUS
  <2>1. u \in Users
    BY <1>5 DEF Users
  <2>2. a[u] = get_user_stake_of_type(fs, u, "Active")
    BY <1>6, <2>1 DEF active_of
  <2>3. h[u] = rate(u, fs, cap, fee)
    BY <1>11, <2>1 DEF rates
  <2>4. p[u] = IF u = 1 THEN own ELSE 0
    BY <1>9
  <2>5. f[u] = g * a[u]
    BY <1>8
  <2> QED BY <1>1, <1>3, <2>2, <2>3, <2>4, <2>5 DEF rate, OWNER_USER_ID
<1>14. SumTo(h, n) = SumTo(f, n) + SumTo(p, n)
  BY ONLY <1>12, <1>13, SumAdd, n \in Nat
<1>15. SumTo(f, n) = g * SumTo(a, n)
  <2>1. \A u \in 1 .. n : a[u] \in Nat /\ f[u] = g * a[u]
    BY <1>7, <1>12
  <2> QED BY ONLY <1>2, <2>1, SumScale, n \in Nat, SMTT(30)
<1>16. SumTo(p, n) = own
  <2>1. SumTo(z, n) = 0
    BY <1>10, SumOfZeros
  <2>2. /\ 1 \in 1 .. n
        /\ \A u \in 1 .. n : p[u] \in Nat /\ z[u] \in Nat
        /\ \A u \in 1 .. n : u # 1 => z[u] = p[u]
        /\ p[1] = own /\ z[1] = 0
    BY <1>4, <1>9, <1>10
  <2>3. SumTo(p, n) = SumTo(z, n) + p[1] - z[1]
    BY <2>2, SumPoint
  <2> QED BY <1>4, <2>1, <2>2, <2>3
<1>17. /\ positive(cap) \in Nat /\ cap <= positive(cap)
       /\ unit(cap) = PERCENTAGE_DENOMINATOR * positive(cap)
  BY <1>2, UnitNat DEF unit
<1>18. own = fee * positive(cap) + g * (cap - total_of_type(fs, "Active"))
  BY <1>1, <1>3 DEF owner_rate
<1>19. /\ total_of_type(fs, "Active") \in Nat
       /\ total_of_type(fs, "Active") <= cap
  BY <1>2, TypeTotal DEF Within
<1>20. g * SumTo(a, n) + own <= unit(cap)
  <2>1. PICK D, c, s, t : /\ D = PERCENTAGE_DENOMINATOR /\ c = positive(cap)
                          /\ s = SumTo(a, n)
                          /\ t = total_of_type(fs, "Active")
    OBVIOUS
  <2>2. /\ D \in Nat /\ fee \in Nat /\ g \in Nat /\ fee + g = D
        /\ cap \in Nat /\ c \in Nat /\ cap <= c /\ t \in Nat /\ t <= cap
        /\ s \in Nat /\ s <= t
    BY <1>2, <1>7, <1>17, <1>19, <2>1
  <2>3. g * s + (fee * c + g * (cap - t)) <= D * c
    BY ONLY <2>2, RateBound
  <2> QED BY <1>17, <1>18, <2>1, <2>3
<1>21. \A u \in 1 .. n : h[u] \in Nat
  BY <1>12, <1>13
<1>22. SumTo(h, n) \in Nat
  BY <1>21, SumNat
<1> QED BY <1>11, <1>14, <1>15, <1>16, <1>20, <1>21, <1>22

(* What the code credits a delegator, rounded down, is at most the exact   *)
(* share.                                                                  *)
LEMMA EntitledShare ==
    ASSUME NEW n \in Nat, NEW cap \in Nat, NEW g \in Nat, NEW a \in Nat,
           a <= cap, NEW del, del = (g * n) \div PERCENTAGE_DENOMINATOR,
           NEW own, own = IF a > 0 THEN (del * a) \div cap ELSE 0
    PROVE  own \in Nat /\ unit(cap) * own <= (g * a) * n
<1>1. PICK D, c : D = PERCENTAGE_DENOMINATOR /\ c = positive(cap)
  OBVIOUS
<1>2. D \in Nat /\ D > 0 /\ c \in Nat /\ unit(cap) = D * c
  BY <1>1, UnitNat DEF unit, PERCENTAGE_DENOMINATOR
<1>3. g * n \in Nat
  BY TimesNat
<1>4. del \in Nat /\ D * del <= g * n
  BY <1>1, <1>2, <1>3, DivFloor
<1>5. CASE a > 0
  <2>1. c = cap /\ cap > 0
    BY <1>1, <1>5 DEF positive
  <2>2. del * a \in Nat
    BY <1>4, TimesNat
  <2>3. own \in Nat /\ cap * own <= del * a
    BY <1>5, <2>1, <2>2, DivFloor
  <2> QED BY <1>2, <1>4, <2>1, <2>3, ShareBound
<1>6. CASE ~ (a > 0)
  <2>1. own = 0 /\ a = 0
    BY <1>6
  <2>2. (g * a) * n = 0 /\ (D * c) * own = 0
    BY <1>2, <2>1
  <2> QED BY <1>2, <2>1, <2>2
<1> QED BY <1>5, <1>6

(* What the code credits the owner as a fee, rounded down, is at most the  *)
(* exact fee.                                                              *)
LEMMA ServicePart ==
    ASSUME NEW n \in Nat, NEW cap \in Nat, NEW fee \in Nat,
           NEW ser, ser = (fee * n) \div PERCENTAGE_DENOMINATOR
    PROVE  ser \in Nat /\ unit(cap) * ser <= (fee * positive(cap)) * n
<1>1. PICK D, c : D = PERCENTAGE_DENOMINATOR /\ c = positive(cap)
  OBVIOUS
<1>2. D \in Nat /\ D > 0 /\ c \in Nat /\ unit(cap) = D * c
  BY <1>1, UnitNat DEF unit, PERCENTAGE_DENOMINATOR
<1>3. fee * n \in Nat
  BY TimesNat
<1>4. ser \in Nat /\ D * ser <= fee * n
  BY <1>1, <1>2, <1>3, DivFloor
<1>5. c * (D * ser) <= c * (fee * n)
  <2>1. D * ser \in Int /\ fee * n \in Int
    BY <1>2, <1>3, <1>4
  <2> QED BY <1>2, <1>4, <2>1, TimesMonotone
<1>6. (D * c) * ser <= (fee * c) * n
  BY ONLY <1>2, <1>4, <1>5, fee \in Nat, n \in Nat
<1> QED BY <1>1, <1>2, <1>4, <1>6

(* The numbers that the shares of rewards are computed from.               *)
RewardNumbers ==
    /\ total_rewards \in Nat
    /\ total_delegation_cap \in Nat
    /\ service_fee \in 0 .. PERCENTAGE_DENOMINATOR

owed_now(u, data, fs) ==
    owed(u, data, fs, total_delegation_cap, service_fee, total_rewards)

UpToDate(v, data, u, fs) ==
    /\ IsData(v, total_rewards)
    /\ v.reward_checkpoint = total_rewards
    /\ v.unclaimed_rewards >= data.unclaimed_rewards
    /\ owed_now(u, v, fs) <= owed_now(u, data, fs)
    /\ owed_now(u, v, fs) = unit(total_delegation_cap) * v.unclaimed_rewards

(* A user whose rewards are computed up to now is owed exactly what is     *)
(* stored as unclaimed.                                                    *)
LEMMA OwedWhenUpToDate ==
    ASSUME NEW fs, NEW cap, NEW fee, Within(fs, cap, fee), NEW T \in Nat,
           NEW data, IsData(data, T), NEW u, data.reward_checkpoint = T
    PROVE  owed(u, data, fs, cap, fee, T) = unit(cap) * data.unclaimed_rewards
<1>1. PICK x, y, q : /\ x = unit(cap) * data.unclaimed_rewards
                     /\ y = rate(u, fs, cap, fee)
                     /\ q = T - data.reward_checkpoint
  OBVIOUS
<1>2. x \in Nat /\ y \in Nat /\ q = 0
  <2>1. y \in Nat /\ cap \in Nat
    BY <1>1, RateNat DEF Within
  <2>2. data.unclaimed_rewards \in Nat
    BY DEF IsData
  <2> QED BY <1>1, <2>1, <2>2, UnitNat, TimesNat
<1>3. x + y * q = x
  BY <1>2
<1> QED BY <1>1, <1>3 DEF owed

(* load_updated_user_rewards credits a user no more than is owed, and      *)
(* brings the checkpoint up to now.                                        *)
LEMMA UpdateOwes ==
    ASSUME RewardNumbers, NEW fs, NEW u, NEW data,
           Within(fs, total_delegation_cap, service_fee),
           IsData(data, total_rewards), NEW v,
           v = load_updated_user_rewards(u, data, fs)
    PROVE  UpToDate(v, data, u, fs)
<1>1. PICK n, cap, fee, g, a, t, un :
          /\ n = total_rewards - data.reward_checkpoint
          /\ cap = total_delegation_cap /\ fee = service_fee
          /\ g = PERCENTAGE_DENOMINATOR - service_fee
          /\ a = get_user_stake_of_type(fs, u, "Active")
          /\ t = total_of_type(fs, "Active")
          /\ un = data.unclaimed_rewards
  OBVIOUS
<1>2. /\ n \in Nat /\ cap \in Nat /\ fee \in Nat /\ g \in Nat /\ a \in Nat
      /\ t \in Nat /\ t <= cap /\ un \in Nat /\ cap - t \in Nat
      /\ a <= t /\ a <= cap /\ cap - t <= cap
  <2>1. fs \in Seq(Item)
    BY DEF Within
  <2>2. /\ a \in Nat /\ t \in Nat
        /\ a = Total(fs, OfUser(u) \cap OfType("Active"))
        /\ t = Total(fs, OfType("Active"))
    BY <1>1, <2>1, UserTypeTotal, TypeTotal
  <2>3. a <= t
    BY <2>1, <2>2, TotalSubset
  <2>4. /\ n \in Nat /\ cap \in Nat /\ fee \in Nat /\ g \in Nat /\ t <= cap
        /\ un \in Nat
    <3>1. /\ data.reward_checkpoint \in 0 .. total_rewards
          /\ data.unclaimed_rewards \in Nat
      BY DEF IsData
    <3> QED BY <1>1, <3>1 DEF Within, RewardNumbers, PERCENTAGE_DENOMINATOR
  <2> QED BY <2>2, <2>3, <2>4
<1>3. CASE n = 0
  <2>1. v = data
    BY <1>1, <1>3 DEF load_updated_user_rewards
  <2>2. v.reward_checkpoint = total_rewards
    BY <1>1, <1>3, <2>1 DEF RewardNumbers, IsData
  <2>3. owed_now(u, v, fs) = unit(total_delegation_cap) * v.unclaimed_rewards
    BY <2>1, <2>2, OwedWhenUpToDate DEF owed_now, RewardNumbers
  <2>4. owed_now(u, v, fs) \in Int /\ v.unclaimed_rewards \in Nat
    BY <1>1, <1>2, <2>1, <2>3, UnitNat, TimesNat
  <2> QED BY <1>1, <1>2, <2>1, <2>2, <2>3, <2>4 DEF UpToDate
<1>4. CASE n # 0
  <2>1. PICK del : del = (g * n) \div PERCENTAGE_DENOMINATOR
    OBVIOUS
  <2>2. PICK ser : ser = (fee * n) \div PERCENTAGE_DENOMINATOR
    OBVIOUS
  <2>3. PICK own : own = IF a > 0 THEN (del * a) \div cap ELSE 0
    OBVIOUS
  <2>4. PICK rest : rest = IF cap - t > 0 THEN (del * (cap - t)) \div cap ELSE 0
    OBVIOUS
  <2>5. PICK extra : extra = IF u = OWNER_USER_ID THEN ser + rest ELSE 0
    OBVIOUS
  <2>6. v = [reward_checkpoint |-> total_rewards,
             unclaimed_rewards |-> un + own + extra]
    BY <1>1, <1>4, <2>1, <2>2, <2>3, <2>4, <2>5
       DEF load_updated_user_rewards, split_service_reward
  <2>7. own \in Nat /\ unit(cap) * own <= (g * a) * n
    BY <1>2, <2>1, <2>3, EntitledShare
  <2>8. rest \in Nat /\ unit(cap) * rest <= (g * (cap - t)) * n
    BY <1>2, <2>1, <2>4, EntitledShare
  <2>9. ser \in Nat /\ unit(cap) * ser <= (fee * positive(cap)) * n
    BY <1>2, <2>2, ServicePart
  <2>10. PICK r, k, e : /\ r = rate(u, fs, cap, fee) /\ k = unit(cap)
                        /\ e = IF u = OWNER_USER_ID
                               THEN owner_rate(fs, cap, fee) ELSE 0
    OBVIOUS
  <2>11. r = g * a + e /\ r \in Nat /\ e \in Nat /\ k \in Nat
    <3>1. r = g * a + e
      BY <1>1, <2>10 DEF rate
    <3>2. Within(fs, cap, fee)
      BY <1>1
    <3>3. r \in Nat /\ owner_rate(fs, cap, fee) \in Nat
      BY <2>10, <3>2, RateNat
    <3>4. k \in Nat
      BY <1>2, <2>10, UnitNat
    <3> QED BY <2>10, <3>1, <3>3, <3>4
  <2>12. extra \in Nat /\ k * extra <= e * n
    <3>1. CASE u = OWNER_USER_ID
      <4>1. extra = ser + rest /\ e = fee * positive(cap) + g * (cap - t)
        BY <1>1, <2>5, <2>10, <3>1 DEF owner_rate
      <4>2. PICK b, c : b = fee * positive(cap) /\ c = g * (cap - t)
        OBVIOUS
      <4>3. b \in Nat /\ c \in Nat
        BY <1>2, <4>2, UnitNat, TimesNat
      <4>4. k * (ser + rest) = k * ser + k * rest /\ (b + c) * n = b * n + c * n
        BY <1>2, <2>8, <2>9, <2>11, <4>3, TimesAdd
      <4>5. k * ser <= b * n /\ k * rest <= c * n
        BY <2>8, <2>9, <2>10, <4>2
      <4>6. /\ k * ser \in Int /\ k * rest \in Int /\ b * n \in Int
            /\ c * n \in Int
        BY <1>2, <2>8, <2>9, <2>11, <4>3
      <4> QED BY <2>8, <2>9, <4>1, <4>2, <4>4, <4>5, <4>6
    <3>2. CASE u # OWNER_USER_ID
      BY <1>2, <2>5, <2>10, <2>11, <3>2
    <3> QED BY <3>1, <3>2
  <2>13. k * ((un + own) + extra) <= k * un + r * n
    <3>1. PICK q : q = g * a
      OBVIOUS
    <3>2. q \in Nat
      BY <1>2, <3>1, TimesNat
    <3>3. k * own <= q * n /\ k * extra <= e * n /\ r = q + e
      BY <2>7, <2>10, <2>11, <2>12, <3>1
    <3>4. r * n = q * n + e * n
      BY <1>2, <2>11, <3>2, <3>3, TimesAdd
    <3>5. k * ((un + own) + extra) = (k * un + k * own) + k * extra
      BY <1>2, <2>7, <2>11, <2>12
    <3>6. /\ k * un \in Int /\ k * own \in Int /\ k * extra \in Int
          /\ q * n \in Int /\ e * n \in Int
      BY <1>2, <2>7, <2>11, <2>12, <3>2
    <3> QED BY <3>3, <3>4, <3>5, <3>6
  <2>14. /\ IsData(v, total_rewards) /\ v.reward_checkpoint = total_rewards
         /\ v.unclaimed_rewards = (un + own) + extra
         /\ v.unclaimed_rewards >= un
    <3>1. (un + own) + extra \in Nat /\ (un + own) + extra >= un
      BY <1>2, <2>7, <2>12
    <3>2. total_rewards \in 0 .. total_rewards
      BY DEF RewardNumbers
    <3> QED BY <2>6, <3>1, <3>2 DEF IsData
  <2>15. owed_now(u, v, fs) = k * v.unclaimed_rewards
    BY <1>1, <2>10, <2>14, OwedWhenUpToDate DEF owed_now, RewardNumbers
  <2>16. owed_now(u, data, fs) = k * un + r * n
    BY <1>1, <2>10 DEF owed_now, owed
  <2> QED BY <1>1, <2>10, <2>13, <2>14, <2>15, <2>16 DEF UpToDate
<1> QED BY <1>3, <1>4

IsRewards(rewards, T) ==
    /\ rewards = [u \in Users |-> rewards[u]]
    /\ \A u \in Users : IsData(rewards[u], T)

Count(n) == n \in Nat /\ 1 <= n /\ n <= NumUsers

(* The registered users are users.                                         *)
LEMMA CountFacts ==
    ASSUME NEW n, Count(n)
    PROVE  n \in Nat /\ 1 \in 1 .. n /\ 1 .. n \subseteq Users
BY DelegationAssumption DEF Count, Users

(* What a user is owed is a natural, and at least what is stored as        *)
(* unclaimed.                                                              *)
LEMMA OwedNat ==
    ASSUME NEW fs, NEW cap, NEW fee, Within(fs, cap, fee), NEW T \in Nat,
           NEW data, IsData(data, T), NEW u
    PROVE  /\ owed(u, data, fs, cap, fee, T) \in Nat
           /\ unit(cap) * data.unclaimed_rewards \in Nat
           /\ unit(cap) * data.unclaimed_rewards
                <= owed(u, data, fs, cap, fee, T)
<1>1. PICK x, y, q : /\ x = unit(cap) * data.unclaimed_rewards
                     /\ y = rate(u, fs, cap, fee)
                     /\ q = T - data.reward_checkpoint
  OBVIOUS
<1>2. x \in Nat /\ y \in Nat /\ q \in Nat
  <2>1. y \in Nat /\ cap \in Nat
    BY <1>1, RateNat DEF Within
  <2>2. data.unclaimed_rewards \in Nat /\ data.reward_checkpoint \in 0 .. T
    BY DEF IsData
  <2> QED BY <1>1, <2>1, <2>2, UnitNat, TimesNat
<1>3. y * q \in Nat
  BY <1>2, TimesNat
<1>4. x + y * q \in Nat /\ x <= x + y * q
  BY <1>2, <1>3
<1> QED BY <1>1, <1>2, <1>4 DEF owed

(* The terms of the sum of all debts.                                      *)
LEMMA AllOwed ==
    ASSUME NEW fs, NEW cap, NEW fee, Within(fs, cap, fee), NEW T \in Nat,
           NEW rewards, IsRewards(rewards, T), NEW n, Count(n),
           NEW f, f = all_owed(rewards, fs, cap, fee, T)
    PROVE  /\ \A u \in 1 .. n :
                 f[u] \in Nat /\ f[u] = owed(u, rewards[u], fs, cap, fee, T)
           /\ SumTo(f, n) \in Nat
<1>1. \A u \in 1 .. n :
          f[u] \in Nat /\ f[u] = owed(u, rewards[u], fs, cap, fee, T)
  BY CountFacts, OwedNat DEF all_owed, IsRewards
<1> QED BY <1>1, CountFacts, SumNat

(* Covered as a comparison of sums.                                        *)
LEMMA NoMoreOwed ==
    ASSUME NEW fs, NEW gs, NEW cap, NEW fee, Within(fs, cap, fee),
           Within(gs, cap, fee), NEW T \in Nat, NEW S \in Nat, NEW n, Count(n),
           NEW old, IsRewards(old, T), NEW new, IsRewards(new, T),
           Covered(old, fs, n, cap, fee, T, S),
           \A u \in 1 .. n : owed(u, new[u], gs, cap, fee, T)
                                <= owed(u, old[u], fs, cap, fee, T)
    PROVE  Covered(new, gs, n, cap, fee, T, S)
<1>1. PICK f, h : /\ f = all_owed(new, gs, cap, fee, T)
                  /\ h = all_owed(old, fs, cap, fee, T)
  OBVIOUS
<1>2. /\ \A u \in 1 .. n :
             f[u] \in Nat /\ f[u] = owed(u, new[u], gs, cap, fee, T)
      /\ SumTo(f, n) \in Nat
  BY <1>1, AllOwed
<1>3. /\ \A u \in 1 .. n :
             h[u] \in Nat /\ h[u] = owed(u, old[u], fs, cap, fee, T)
      /\ SumTo(h, n) \in Nat
  BY <1>1, AllOwed
<1>4. \A u \in 1 .. n : f[u] \in Nat /\ h[u] \in Nat /\ f[u] <= h[u]
  BY <1>2, <1>3
<1>5. SumTo(f, n) <= SumTo(h, n)
  BY <1>4, CountFacts, SumMonotone
<1>6. SumTo(h, n) <= unit(cap) * (T - S)
  BY <1>1 DEF Covered
<1>7. unit(cap) * (T - S) \in Int
  <2>1. PICK c \in Nat : c = unit(cap)
    BY UnitNat DEF Within
  <2> QED BY ONLY <2>1, c \in Nat, T \in Nat, S \in Nat
<1>8. SumTo(f, n) <= unit(cap) * (T - S)
  BY <1>2, <1>3, <1>5, <1>6, <1>7
<1> QED BY <1>1, <1>8 DEF Covered

(* Who is up to date is owed the same whatever the stakes become.          *)
LEMMA MoveCovers ==
    ASSUME NEW fs, NEW gs, NEW cap, NEW fee, Within(fs, cap, fee),
           Within(gs, cap, fee), NEW T \in Nat, NEW S \in Nat, NEW n, Count(n),
           NEW rewards, IsRewards(rewards, T),
           Covered(rewards, fs, n, cap, fee, T, S),
           \A u \in 1 .. n : \/ rewards[u].reward_checkpoint = T
                             \/ rate(u, gs, cap, fee) = rate(u, fs, cap, fee)
    PROVE  Covered(rewards, gs, n, cap, fee, T, S)
<1>1. ASSUME NEW u \in 1 .. n
      PROVE  owed(u, rewards[u], gs, cap, fee, T)
                <= owed(u, rewards[u], fs, cap, fee, T)
  <2>1. IsData(rewards[u], T)
    BY CountFacts DEF IsRewards
  <2>2. /\ owed(u, rewards[u], gs, cap, fee, T) \in Nat
        /\ owed(u, rewards[u], fs, cap, fee, T) \in Nat
    BY <2>1, OwedNat
  <2>3. owed(u, rewards[u], gs, cap, fee, T)
            = owed(u, rewards[u], fs, cap, fee, T)
    <3>1. CASE rewards[u].reward_checkpoint = T
      BY <2>1, <3>1, OwedWhenUpToDate
    <3>2. CASE rate(u, gs, cap, fee) = rate(u, fs, cap, fee)
      BY <3>2 DEF owed
    <3> QED BY <3>1, <3>2
  <2> QED BY <2>2, <2>3
<1> QED BY <1>1, NoMoreOwed

Brought(v, users, rewards, fs) ==
    /\ IsRewards(v, total_rewards)
    /\ \A u \in Users : IF u \in users
                        THEN UpToDate(v[u], rewards[u], u, fs)
                        ELSE v[u] = rewards[u]

(* compute_rewards_of brings the users it is given up to date and leaves   *)
(* the others.                                                             *)
LEMMA ComputeBrings ==
    ASSUME RewardNumbers, NEW fs, NEW rewards, NEW users,
           Within(fs, total_delegation_cap, service_fee),
           IsRewards(rewards, total_rewards), NEW v,
           v = compute_rewards_of(users, rewards, fs)
    PROVE  Brought(v, users, rewards, fs)
<1>1. ASSUME NEW u \in Users
      PROVE  /\ IsData(v[u], total_rewards)
             /\ IF u \in users THEN UpToDate(v[u], rewards[u], u, fs)
                               ELSE v[u] = rewards[u]
  <2>1. IsData(rewards[u], total_rewards)
    BY DEF IsRewards
  <2>2. CASE u \in users
    <3>1. v[u] = load_updated_user_rewards(u, rewards[u], fs)
      BY <2>2 DEF compute_rewards_of
    <3>2. UpToDate(v[u], rewards[u], u, fs)
      BY <2>1, <3>1, UpdateOwes
    <3> QED BY <2>2, <3>2 DEF UpToDate
  <2>3. CASE u \notin users
    BY <2>1, <2>3 DEF compute_rewards_of
  <2> QED BY <2>2, <2>3
<1>2. v = [u \in Users |-> v[u]]
  BY DEF compute_rewards_of
<1> QED BY <1>1, <1>2 DEF Brought, IsRewards

covered_now(rewards, fs, n) ==
    Covered(rewards, fs, n, total_delegation_cap, service_fee,
            total_rewards, sent_rewards)

(* Computing rewards never makes the contract owe more than it has.        *)
LEMMA BroughtCovers ==
    ASSUME RewardNumbers, sent_rewards \in Nat, NEW n, Count(n),
           NEW fs, NEW rewards, NEW users,
           Within(fs, total_delegation_cap, service_fee),
           IsRewards(rewards, total_rewards), covered_now(rewards, fs, n),
           NEW v, Brought(v, users, rewards, fs)
    PROVE  covered_now(v, fs, n)
<1>1. PICK cap, fee, T, S : /\ cap = total_delegation_cap
                            /\ fee = service_fee /\ T = total_rewards
                            /\ S = sent_rewards
  OBVIOUS
<1>2. /\ Count(n) /\ Within(fs, cap, fee) /\ T \in Nat /\ S \in Nat
      /\ IsRewards(rewards, T) /\ IsRewards(v, T)
      /\ Covered(rewards, fs, n, cap, fee, T, S)
  BY <1>1 DEF RewardNumbers, Brought, covered_now
<1>3. ASSUME NEW u \in 1 .. n
      PROVE  owed(u, v[u], fs, cap, fee, T)
                <= owed(u, rewards[u], fs, cap, fee, T)
  <2>1. u \in Users
    BY <1>2, CountFacts
  <2>2. owed(u, rewards[u], fs, cap, fee, T) \in Nat
    BY <1>2, <2>1, OwedNat DEF IsRewards
  <2>3. CASE u \in users
    BY <1>1, <2>1, <2>3 DEF Brought, UpToDate, owed_now
  <2>4. CASE u \notin users
    BY <2>1, <2>2, <2>4 DEF Brought
  <2> QED BY <2>3, <2>4
<1>4. Covered(v, fs, n, cap, fee, T, S)
  BY <1>2, <1>3, NoMoreOwed
<1> QED BY <1>1, <1>4 DEF covered_now

unclaimed(rewards) == [u \in Users |-> rewards[u].unclaimed_rewards]

(* The terms of the sum of all unclaimed rewards.                          *)
LEMMA UnclaimedNat ==
    ASSUME NEW rewards, NEW T, IsRewards(rewards, T), NEW n, Count(n)
    PROVE  /\ \A u \in 1 .. n :
                 /\ unclaimed(rewards)[u] \in Nat
                 /\ unclaimed(rewards)[u] = rewards[u].unclaimed_rewards
           /\ SumTo(unclaimed(rewards), n) \in Nat
           /\ unclaimed_to(rewards, n) = SumTo(unclaimed(rewards), n)
<1>1. \A u \in 1 .. n :
          /\ unclaimed(rewards)[u] \in Nat
          /\ unclaimed(rewards)[u] = rewards[u].unclaimed_rewards
  BY CountFacts DEF unclaimed, IsRewards, IsData
<1>2. SumTo(unclaimed(rewards), n) \in Nat
  BY <1>1, CountFacts, SumNat
<1> QED BY <1>1, <1>2 DEF unclaimed_to, unclaimed

(* If all debts are covered, what is stored as unclaimed and what was sent *)
(* were received.                                                          *)
LEMMA CoveredBound ==
    ASSUME NEW fs, NEW cap, NEW fee, Within(fs, cap, fee), NEW T \in Nat,
           NEW S \in Nat, NEW n, Count(n), NEW rewards, IsRewards(rewards, T),
           Covered(rewards, fs, n, cap, fee, T, S)
    PROVE  unclaimed_to(rewards, n) + S <= T
<1>1. PICK f, a, h, k : /\ f = all_owed(rewards, fs, cap, fee, T)
                        /\ a = unclaimed(rewards)
                        /\ k = unit(cap)
                        /\ h = [u \in 1 .. n |-> k * a[u]]
  OBVIOUS
<1>2. k \in Nat /\ k > 0 /\ n \in Nat
  BY <1>1, UnitNat, CountFacts DEF Within
<1>3. /\ \A u \in 1 .. n : a[u] \in Nat /\ a[u] = rewards[u].unclaimed_rewards
      /\ SumTo(a, n) \in Nat /\ unclaimed_to(rewards, n) = SumTo(a, n)
  BY <1>1, UnclaimedNat
<1>4. \A u \in 1 .. n : a[u] \in Nat /\ h[u] = k * a[u]
  BY <1>1, <1>3
<1>5. SumTo(h, n) = k * SumTo(a, n)
  BY ONLY <1>2, <1>4, SumScale
<1>6. /\ \A u \in 1 .. n : f[u] = owed(u, rewards[u], fs, cap, fee, T)
      /\ SumTo(f, n) \in Nat
  BY <1>1, AllOwed
<1>7. \A u \in 1 .. n : h[u] \in Nat /\ f[u] \in Nat /\ h[u] <= f[u]
  <2> SUFFICES ASSUME NEW u \in 1 .. n
               PROVE  h[u] \in Nat /\ f[u] \in Nat /\ h[u] <= f[u]
    OBVIOUS
  <2>1. IsData(rewards[u], T)
    BY CountFacts DEF IsRewards
  <2>2. h[u] = unit(cap) * rewards[u].unclaimed_rewards
    BY <1>1, <1>3
  <2> QED BY <1>6, <2>1, <2>2, OwedNat
<1>8. SumTo(h, n) <= SumTo(f, n)
  BY <1>2, <1>7, SumMonotone
<1>9. SumTo(f, n) <= k * (T - S)
  BY <1>1 DEF Covered
<1>10. k * SumTo(a, n) <= k * (T - S)
  <2>1. k * (T - S) \in Int /\ k * SumTo(a, n) \in Int
    BY <1>2, <1>3
  <2> QED BY <1>5, <1>6, <1>8, <1>9, <2>1
<1>11. SumTo(a, n) <= T - S
  BY <1>2, <1>3, <1>10, TimesCancel
<1> QED BY <1>3, <1>11

(* Rewards that arrive are shared by rates that add up to one unit.        *)
LEMMA ArriveCovers ==
    ASSUME NEW fs, NEW cap, NEW fee, Within(fs, cap, fee), NEW T \in Nat,
           NEW S \in Nat, NEW x \in Nat, NEW n, Count(n), NEW rewards,
           IsRewards(rewards, T), Covered(rewards, fs, n, cap, fee, T, S)
    PROVE  Covered(rewards, fs, n, cap, fee, T + x, S)
<1>1. PICK f, g, h, q, k : /\ f = all_owed(rewards, fs, cap, fee, T)
                           /\ h = all_owed(rewards, fs, cap, fee, T + x)
                           /\ q = rates(fs, cap, fee)
                           /\ k = unit(cap)
                           /\ g = [u \in 1 .. n |-> x * q[u]]
  OBVIOUS
<1>2. k \in Nat /\ n \in Nat /\ 1 <= n /\ n <= NumUsers /\ T + x \in Nat
  BY <1>1, UnitNat DEF Within, Count
<1>3. /\ SumTo(q, n) \in Nat /\ SumTo(q, n) <= k
      /\ \A u \in 1 .. n : q[u] \in Nat
  BY <1>1, <1>2, RatesWithinUnit
<1>4. \A u \in 1 .. n : q[u] \in Nat /\ g[u] = x * q[u]
  BY <1>1, <1>3
<1>5. SumTo(g, n) = x * SumTo(q, n)
  BY ONLY <1>2, <1>4, x \in Nat, SumScale
<1>6. /\ \A u \in 1 .. n :
             f[u] \in Nat /\ f[u] = owed(u, rewards[u], fs, cap, fee, T)
      /\ SumTo(f, n) \in Nat
  BY <1>1, AllOwed
<1>7. \A u \in 1 .. n : f[u] \in Nat /\ g[u] \in Nat /\ h[u] = f[u] + g[u]
  <2> SUFFICES ASSUME NEW u \in 1 .. n
               PROVE  g[u] \in Nat /\ h[u] = f[u] + g[u]
    BY <1>6
  <2>1. u \in Users
    BY CountFacts
  <2>2. PICK r, c, b : /\ r = rate(u, fs, cap, fee)
                       /\ c = rewards[u].reward_checkpoint
                       /\ b = unit(cap) * rewards[u].unclaimed_rewards
    OBVIOUS
  <2>3. IsData(rewards[u], T)
    BY <2>1 DEF IsRewards
  <2>4. c \in Nat /\ b \in Nat /\ r \in Nat
    <3>1. c \in 0 .. T
      BY <2>2, <2>3 DEF IsData
    <3> QED BY <2>2, <2>3, <3>1, OwedNat, RateNat
  <2>5. q[u] = r
    BY <1>1, <2>1, <2>2 DEF rates
  <2>6. f[u] = b + r * (T - c)
    BY <1>6, <2>2 DEF owed
  <2>7. h[u] = b + r * ((T + x) - c)
    BY <1>1, <2>1, <2>2 DEF all_owed, owed
  <2>8. g[u] = x * r /\ g[u] \in Nat
    BY <1>4, <2>4, <2>5, TimesNat
  <2>9. b + r * ((T + x) - c) = (b + r * (T - c)) + x * r
    BY ONLY <2>4, T \in Nat, x \in Nat
  <2> QED BY <2>6, <2>7, <2>8, <2>9
<1>8. SumTo(h, n) = SumTo(f, n) + SumTo(g, n)
  BY ONLY <1>2, <1>7, SumAdd
<1>9. SumTo(f, n) <= k * (T - S)
  BY <1>1 DEF Covered
<1>10. x * SumTo(q, n) <= x * k
  BY <1>2, <1>3, TimesMonotone
<1>11. k * (T - S) + x * k = k * ((T + x) - S)
  BY <1>2
<1>12. /\ x * SumTo(q, n) \in Int /\ k * (T - S) \in Int /\ x * k \in Int
       /\ k * ((T + x) - S) \in Int
  BY <1>2, <1>3
<1>13. SumTo(h, n) <= k * ((T + x) - S)
  BY <1>5, <1>6, <1>8, <1>9, <1>10, <1>11, <1>12
<1> QED BY <1>1, <1>13 DEF Covered

(* Computed up to the same point, whatever cap and fee apply from then on. *)
LEMMA SettledCovers ==
    ASSUME NEW fs, NEW cap, NEW fee, Within(fs, cap, fee), NEW T \in Nat,
           NEW S \in Nat, NEW n, Count(n), NEW rewards, IsRewards(rewards, T),
           NEW t \in Nat, t <= T,
           \A u \in 1 .. n : rewards[u].reward_checkpoint = t,
           \A u \in Users : u > n => rewards[u].reward_checkpoint = 0,
           unclaimed_to(rewards, n) + S <= t
    PROVE  Covered(rewards, fs, n, cap, fee, T, S)
<1>1. PICK f, a, k : /\ f = all_owed(rewards, fs, cap, fee, t)
                     /\ a = unclaimed(rewards)
                     /\ k = unit(cap)
  OBVIOUS
<1>2. k \in Nat /\ n \in Nat
  BY <1>1, UnitNat, CountFacts DEF Within
<1>3. /\ \A u \in 1 .. n : a[u] \in Nat /\ a[u] = rewards[u].unclaimed_rewards
      /\ SumTo(a, n) \in Nat /\ unclaimed_to(rewards, n) = SumTo(a, n)
  BY <1>1, UnclaimedNat
<1>4. \A u \in 1 .. n : a[u] \in Nat /\ f[u] = k * a[u]
  <2> SUFFICES ASSUME NEW u \in 1 .. n PROVE f[u] = k * a[u]
    BY <1>3
  <2>1. u \in Users
    BY CountFacts
  <2>2. IsData(rewards[u], T)
    BY <2>1 DEF IsRewards
  <2>3. IsData(rewards[u], t)
    <3>1. rewards[u].reward_checkpoint \in 0 .. t
      OBVIOUS
    <3> QED BY <2>2, <3>1 DEF IsData
  <2>4. owed(u, rewards[u], fs, cap, fee, t) = k * rewards[u].unclaimed_rewards
    BY <1>1, <2>3, OwedWhenUpToDate
  <2> QED BY <1>1, <1>3, <2>1, <2>4 DEF all_owed
<1>5. SumTo(f, n) = k * SumTo(a, n)
  BY ONLY <1>2, <1>4, SumScale
<1>6. k * SumTo(a, n) <= k * (t - S)
  <2>1. SumTo(a, n) <= t - S
    BY <1>3
  <2> QED BY <1>2, <1>3, <2>1, TimesMonotone
<1>7. Covered(rewards, fs, n, cap, fee, t, S)
  BY <1>1, <1>5, <1>6 DEF Covered
<1>8. IsRewards(rewards, t)
  <2> SUFFICES ASSUME NEW u \in Users PROVE IsData(rewards[u], t)
    BY DEF IsRewards
  <2>1. IsData(rewards[u], T)
    BY DEF IsRewards
  <2>2. u \in Nat /\ u >= 1
    BY DelegationAssumption DEF Users
  <2>3. rewards[u].reward_checkpoint \in 0 .. t
    BY <1>2, <2>2
  <2> QED BY <2>1, <2>3 DEF IsData
<1>9. PICK x \in Nat : T = t + x
  <2>1. T - t \in Nat /\ T = t + (T - t)
    OBVIOUS
  <2> QED BY <2>1
<1>10. Covered(rewards, fs, n, cap, fee, t + x, S)
  BY <1>7, <1>8, ArriveCovers
<1> QED BY <1>9, <1>10

(* What is paid is no longer owed.                                         *)
LEMMA ClaimCovers ==
    ASSUME NEW fs, NEW cap, NEW fee, Within(fs, cap, fee), NEW T \in Nat,
           NEW S \in Nat, NEW n, Count(n), NEW rewards, IsRewards(rewards, T),
           Covered(rewards, fs, n, cap, fee, T, S), NEW u \in 1 .. n,
           rewards[u].reward_checkpoint = T,
           NEW amount, amount = rewards[u].unclaimed_rewards,
           NEW v, IsRewards(v, T), v[u].unclaimed_rewards = 0,
           v[u].reward_checkpoint = T,
           \A w \in Users : w # u => v[w] = rewards[w]
    PROVE  Covered(v, fs, n, cap, fee, T, S + amount)
<1>1. PICK f, h, k : /\ f = all_owed(rewards, fs, cap, fee, T)
                     /\ h = all_owed(v, fs, cap, fee, T)
                     /\ k = unit(cap)
  OBVIOUS
<1>2. k \in Nat /\ n \in Nat /\ u \in Users
  BY <1>1, UnitNat, CountFacts DEF Within
<1>3. IsData(rewards[u], T) /\ IsData(v[u], T)
  BY <1>2 DEF IsRewards
<1>4. amount \in Nat
  BY <1>3 DEF IsData
<1>5. /\ \A w \in 1 .. n :
             f[w] \in Nat /\ f[w] = owed(w, rewards[w], fs, cap, fee, T)
      /\ SumTo(f, n) \in Nat
  BY <1>1, AllOwed
<1>6. /\ \A w \in 1 .. n :
             h[w] \in Nat /\ h[w] = owed(w, v[w], fs, cap, fee, T)
      /\ SumTo(h, n) \in Nat
  BY <1>1, AllOwed
<1>7. f[u] = k * amount
  BY <1>1, <1>3, <1>5, OwedWhenUpToDate
<1>8. h[u] = 0
  <2>1. h[u] = k * v[u].unclaimed_rewards
    BY <1>1, <1>3, <1>6, OwedWhenUpToDate
  <2> QED BY <1>2, <2>1
<1>9. \A w \in 1 .. n : w # u => f[w] = h[w]
  BY <1>5, <1>6, CountFacts
<1>10. SumTo(h, n) = SumTo(f, n) + h[u] - f[u]
  <2>1. \A w \in 1 .. n : f[w] \in Nat /\ h[w] \in Nat
    BY <1>5, <1>6
  <2> QED BY <1>2, <1>9, <2>1, SumPoint
<1>11. SumTo(f, n) <= k * (T - S)
  BY <1>1 DEF Covered
<1>12. k * (T - S) - k * amount = k * (T - (S + amount))
  BY <1>2, <1>4
<1>13. k * amount \in Int /\ k * (T - S) \in Int
  BY <1>2, <1>4
<1>14. SumTo(h, n) <= k * (T - (S + amount))
  BY <1>5, <1>7, <1>8, <1>10, <1>11, <1>12, <1>13
<1> QED BY <1>1, <1>14 DEF Covered

(* A user who registers has nothing active.                                *)
LEMMA NewUserCovers ==
    ASSUME NEW fs, NEW cap, NEW fee, Within(fs, cap, fee), NEW T \in Nat,
           NEW S \in Nat, NEW n, Count(n), Count(n + 1), NEW rewards,
           IsRewards(rewards, T), Covered(rewards, fs, n, cap, fee, T, S),
           rewards[n + 1].unclaimed_rewards = 0,
           get_user_stake_of_type(fs, n + 1, "Active") = 0
    PROVE  Covered(rewards, fs, n + 1, cap, fee, T, S)
<1>1. PICK f, m : f = all_owed(rewards, fs, cap, fee, T) /\ m = n + 1
  OBVIOUS
<1>2. n \in Nat /\ m \in Users /\ m # OWNER_USER_ID
  BY <1>1, CountFacts DEF OWNER_USER_ID, Count
<1>3. IsData(rewards[m], T)
  BY <1>2 DEF IsRewards
<1>4. rate(m, fs, cap, fee) = 0
  <2>1. PERCENTAGE_DENOMINATOR - fee \in Int
    BY DEF Within, PERCENTAGE_DENOMINATOR
  <2>2. (PERCENTAGE_DENOMINATOR - fee) * 0 + 0 = 0
    BY <2>1
  <2> QED BY <1>1, <1>2, <2>2 DEF rate
<1>5. f[m] = 0
  <2>1. f[m] = owed(m, rewards[m], fs, cap, fee, T)
    BY <1>1, <1>2 DEF all_owed
  <2>2. T - rewards[m].reward_checkpoint \in Int /\ unit(cap) \in Int
    <3>1. rewards[m].reward_checkpoint \in 0 .. T
      BY <1>3 DEF IsData
    <3>2. unit(cap) \in Nat
      BY UnitNat DEF Within
    <3> QED BY <3>1, <3>2
  <2>3. unit(cap) * 0 + 0 * (T - rewards[m].reward_checkpoint) = 0
    BY <2>2
  <2> QED BY <1>1, <1>4, <2>1, <2>3 DEF owed
<1>6. SumTo(f, m) = SumTo(f, n) + f[m]
  BY <1>1, <1>2, SumStep
<1>7. SumTo(f, n) \in Nat
  BY <1>1, AllOwed
<1>8. SumTo(f, m) = SumTo(f, n)
  BY <1>5, <1>6, <1>7
<1> QED BY <1>1, <1>8 DEF Covered

SameShares(gs, fs) ==
    /\ gs \in Seq(Item)
    /\ \A K : K \subseteq OfType("Active") => Total(gs, K) = Total(fs, K)

SharesOutside(gs, fs, users) ==
    /\ gs \in Seq(Item)
    /\ \A v : v \notin users =>
          Total(gs, OfUser(v) \cap OfType("Active"))
            = Total(fs, OfUser(v) \cap OfType("Active"))

(* Two changes that leave the active stakes leave them together.           *)
LEMMA SameSharesTransitive ==
    ASSUME NEW fs, NEW gs, NEW hs, SameShares(gs, fs), SameShares(hs, gs)
    PROVE  SameShares(hs, fs)
BY DEF SameShares

(* Dropping the empty items leaves the active stakes.                      *)
LEMMA SaveShares ==
    ASSUME NEW fs \in Seq(Item) PROVE SameShares(save(fs), fs)
BY SaveKeepsTotals DEF SameShares

(* Rates depend on the active stakes only.                                 *)
LEMMA SameRates ==
    ASSUME NEW fs \in Seq(Item), NEW gs, SameShares(gs, fs)
    PROVE  /\ total_of_type(gs, "Active") = total_of_type(fs, "Active")
           /\ \A u : get_user_stake_of_type(gs, u, "Active")
                        = get_user_stake_of_type(fs, u, "Active")
           /\ \A u, cap, fee : rate(u, gs, cap, fee) = rate(u, fs, cap, fee)
<1>1. gs \in Seq(Item)
  BY DEF SameShares
<1>2. total_of_type(gs, "Active") = total_of_type(fs, "Active")
  BY <1>1, TypeTotal DEF SameShares
<1>3. ASSUME NEW u
      PROVE  get_user_stake_of_type(gs, u, "Active")
                = get_user_stake_of_type(fs, u, "Active")
  <2>1. PICK K : K = OfUser(u) \cap OfType("Active")
    OBVIOUS
  <2>2. Total(gs, K) = Total(fs, K)
    BY <2>1 DEF SameShares
  <2> QED BY <1>1, <2>1, <2>2, UserTypeTotal
<1> QED BY <1>2, <1>3 DEF rate, owner_rate

(* The rate of a user whose active stake stayed is the same, except the    *)
(* owner's.                                                                *)
LEMMA OutsideRates ==
    ASSUME NEW fs \in Seq(Item), NEW gs, NEW users,
           SharesOutside(gs, fs, users), NEW u, u \notin users,
           u # OWNER_USER_ID, NEW cap, NEW fee
    PROVE  rate(u, gs, cap, fee) = rate(u, fs, cap, fee)
<1>1. gs \in Seq(Item)
  BY DEF SharesOutside
<1>2. PICK K : K = OfUser(u) \cap OfType("Active")
  OBVIOUS
<1>3. Total(gs, K) = Total(fs, K)
  BY <1>2 DEF SharesOutside
<1>4. get_user_stake_of_type(gs, u, "Active")
        = get_user_stake_of_type(fs, u, "Active")
  BY <1>1, <1>2, <1>3, UserTypeTotal
<1> QED BY <1>4 DEF rate

(* What claimRewards would pay u, given the user's record and the items.   *)
claim_now(u, data, fs) ==
    load_updated_user_rewards(u, data, fs).unclaimed_rewards

Claimable(rewards, fs, claims) ==
    \A u \in Users : claim_now(u, rewards[u], fs) = claims[u]

SameStake(u, gs, fs) ==
    /\ get_user_stake_of_type(gs, u, "Active")
         = get_user_stake_of_type(fs, u, "Active")
    /\ u = OWNER_USER_ID =>
          total_of_type(gs, "Active") = total_of_type(fs, "Active")

(* What a user may claim changes with the stakes only if it was not        *)
(* computed before.                                                        *)
LEMMA ClaimMoves ==
    ASSUME total_rewards \in Nat, NEW u, NEW data, NEW fs, NEW gs,
           data.reward_checkpoint = total_rewards \/ SameStake(u, gs, fs)
    PROVE  claim_now(u, data, gs) = claim_now(u, data, fs)
<1>1. CASE data.reward_checkpoint = total_rewards
  <2>1. total_rewards - data.reward_checkpoint = 0
    BY <1>1
  <2> QED BY <2>1 DEF claim_now, load_updated_user_rewards
<1>2. CASE SameStake(u, gs, fs)
  BY <1>2 DEF SameStake, claim_now, load_updated_user_rewards
<1> QED BY <1>1, <1>2

(* Computing the rewards of a user turns the claim into unclaimed rewards. *)
LEMMA ClaimComputed ==
    ASSUME total_rewards \in Nat, NEW u, NEW data, IsData(data, total_rewards),
           NEW fs, NEW v, v = load_updated_user_rewards(u, data, fs)
    PROVE  /\ v.reward_checkpoint = total_rewards
           /\ claim_now(u, v, fs) = claim_now(u, data, fs)
<1>1. PICK new : new = total_rewards - data.reward_checkpoint
  OBVIOUS
<1>2. data.reward_checkpoint \in 0 .. total_rewards
  BY DEF IsData
<1>3. CASE new = 0
  <2>1. v = data
    BY <1>1, <1>3 DEF load_updated_user_rewards
  <2> QED BY <1>1, <1>2, <1>3, <2>1
<1>4. CASE new # 0
  <2>1. v.reward_checkpoint = total_rewards
    BY <1>1, <1>4 DEF load_updated_user_rewards
  <2>2. total_rewards - v.reward_checkpoint = 0
    BY <2>1
  <2>3. claim_now(u, v, fs) = v.unclaimed_rewards
    BY <2>2 DEF claim_now, load_updated_user_rewards
  <2> QED BY <2>1, <2>3 DEF claim_now
<1> QED BY <1>3, <1>4

(* Nobody's claim changes when no active stake moves.                      *)
LEMMA ClaimableSame ==
    ASSUME total_rewards \in Nat, NEW rewards, NEW fs \in Seq(Item),
           NEW claims, Claimable(rewards, fs, claims), NEW gs,
           SameShares(gs, fs)
    PROVE  Claimable(rewards, gs, claims)
<1>1. ASSUME NEW u \in Users PROVE claim_now(u, rewards[u], gs) = claims[u]
  <2>1. SameStake(u, gs, fs)
    BY SameRates DEF SameStake
  <2>2. claim_now(u, rewards[u], gs) = claim_now(u, rewards[u], fs)
    BY <2>1, ClaimMoves
  <2> QED BY <2>2 DEF Claimable
<1> QED BY <1>1 DEF Claimable

(* Nor when the rewards of all whose stake moves, and the owner's, are     *)
(* computed first.                                                         *)
LEMMA ClaimableBrought ==
    ASSUME total_rewards \in Nat, NEW rewards, NEW fs \in Seq(Item),
           IsRewards(rewards, total_rewards),
           NEW claims, Claimable(rewards, fs, claims), NEW users,
           OWNER_USER_ID \in users, NEW gs, SharesOutside(gs, fs, users),
           NEW v, v = compute_rewards_of(users, rewards, fs)
    PROVE  Claimable(v, gs, claims)
<1>1. ASSUME NEW u \in Users PROVE claim_now(u, v[u], gs) = claims[u]
  <2>1. IsData(rewards[u], total_rewards)
        /\ claim_now(u, rewards[u], fs) = claims[u]
    BY DEF IsRewards, Claimable
  <2>2. CASE u \in users
    <3>1. v[u] = load_updated_user_rewards(u, rewards[u], fs)
      BY <2>2 DEF compute_rewards_of
    <3>2. /\ v[u].reward_checkpoint = total_rewards
          /\ claim_now(u, v[u], fs) = claims[u]
      BY <2>1, <3>1, ClaimComputed
    <3> QED BY <3>2, ClaimMoves
  <2>3. CASE u \notin users
    <3>1. v[u] = rewards[u]
      BY <2>3 DEF compute_rewards_of
    <3>2. SameStake(u, gs, fs)
      <4>1. PICK K : K = OfUser(u) \cap OfType("Active")
        OBVIOUS
      <4>2. Total(gs, K) = Total(fs, K) /\ gs \in Seq(Item)
        BY <2>3, <4>1 DEF SharesOutside
      <4>3. get_user_stake_of_type(gs, u, "Active")
              = get_user_stake_of_type(fs, u, "Active")
        BY <4>1, <4>2, UserTypeTotal
      <4> QED BY <2>3, <4>3 DEF SameStake
    <3> QED BY <2>1, <3>1, <3>2, ClaimMoves
  <2> QED BY <2>2, <2>3
<1> QED BY <1>1 DEF Claimable

(* Users that are not registered have no rewards.                          *)
Fresh(rewards, n) ==
    \A u \in Users : u > n => /\ rewards[u].reward_checkpoint = 0
                             /\ rewards[u].unclaimed_rewards = 0

(* Rewards computed against the items fs, of n users.                      *)
Owing(rewards, fs, n) ==
    /\ Count(n) /\ Fresh(rewards, n)
    /\ Within(fs, total_delegation_cap, service_fee)
    /\ IsRewards(rewards, total_rewards)
    /\ covered_now(rewards, fs, n)

Numbers ==
    /\ RewardNumbers
    /\ sent_rewards \in Nat
    /\ bootstrap_mode => total_rewards = 0

(* Debts stay covered when stakes move, if every user whose rate changes   *)
(* was brought up to date first.                                           *)
LEMMA OwingMoves ==
    ASSUME Numbers, NEW rewards, NEW fs, NEW n, Owing(rewards, fs, n),
           NEW gs, Within(gs, total_delegation_cap, service_fee),
           \A u \in 1 .. n :
               \/ rewards[u].reward_checkpoint = total_rewards
               \/ rate(u, gs, total_delegation_cap, service_fee)
                    = rate(u, fs, total_delegation_cap, service_fee)
    PROVE  Owing(rewards, gs, n)
<1>1. PICK cap, fee, T, S : /\ cap = total_delegation_cap
                            /\ fee = service_fee /\ T = total_rewards
                            /\ S = sent_rewards
  OBVIOUS
<1>2. /\ Count(n) /\ Within(fs, cap, fee) /\ T \in Nat /\ S \in Nat
      /\ IsRewards(rewards, T) /\ Within(gs, cap, fee)
      /\ Covered(rewards, fs, n, cap, fee, T, S)
  BY <1>1 DEF Numbers, RewardNumbers, Owing, covered_now
<1>3. Covered(rewards, gs, n, cap, fee, T, S)
  BY <1>1, <1>2, MoveCovers
<1> QED BY <1>1, <1>3 DEF Owing, covered_now

(* Debts stay covered when no active stake moves.                          *)
LEMMA OwingSame ==
    ASSUME Numbers, NEW rewards, NEW fs, NEW n, Owing(rewards, fs, n),
           NEW gs, SameShares(gs, fs)
    PROVE  Owing(rewards, gs, n)
<1>1. fs \in Seq(Item) /\ gs \in Seq(Item)
  BY DEF Owing, Within, SameShares
<1>2. Within(gs, total_delegation_cap, service_fee)
  BY <1>1, SameRates DEF Owing, Within
<1>3. \A u : rate(u, gs, total_delegation_cap, service_fee)
                = rate(u, fs, total_delegation_cap, service_fee)
  BY <1>1, SameRates
<1> QED BY <1>2, <1>3, OwingMoves

(* The rewards of some users are computed.                                 *)
LEMMA BroughtOwes ==
    ASSUME Numbers, NEW rewards, NEW fs, NEW n, Owing(rewards, fs, n),
           NEW users, users \subseteq 1 .. n, NEW v,
           v = compute_rewards_of(users, rewards, fs)
    PROVE  Owing(v, fs, n) /\ Brought(v, users, rewards, fs)
<1>1. /\ RewardNumbers /\ Within(fs, total_delegation_cap, service_fee)
      /\ IsRewards(rewards, total_rewards) /\ covered_now(rewards, fs, n)
      /\ Count(n) /\ sent_rewards \in Nat /\ fs \in Seq(Item)
  BY DEF Numbers, Owing, Within
<1>2. Brought(v, users, rewards, fs)
  BY <1>1, ComputeBrings
<1>3. covered_now(v, fs, n)
  BY <1>1, <1>2, BroughtCovers
<1>4. ASSUME NEW u \in Users, u > n PROVE v[u] = rewards[u]
  <2>1. u \in Nat
    BY DelegationAssumption DEF Users
  <2>2. n \in Nat
    BY <1>1, CountFacts
  <2>3. u \notin 1 .. n
    BY ONLY <1>4, <2>1, <2>2
  <2>4. u \notin users
    BY ONLY <2>3, users \subseteq 1 .. n
  <2> QED BY <1>2, <2>4 DEF Brought
<1>5. Fresh(v, n)
  BY <1>4 DEF Owing, Fresh
<1> QED BY <1>1, <1>2, <1>3, <1>5 DEF Owing, Brought

(* The rewards of some users are computed, then their stake moves.         *)
LEMMA OwingBrought ==
    ASSUME Numbers, NEW rewards, NEW fs, NEW n, Owing(rewards, fs, n),
           NEW users, OWNER_USER_ID \in users, users \subseteq 1 .. n,
           NEW gs, SharesOutside(gs, fs, users),
           Within(gs, total_delegation_cap, service_fee), NEW v,
           v = compute_rewards_of(users, rewards, fs)
    PROVE  Owing(v, gs, n)
<1>1. Owing(v, fs, n) /\ Brought(v, users, rewards, fs)
  BY BroughtOwes
<1>2. Count(n) /\ fs \in Seq(Item)
  BY DEF Owing, Within
<1>3. ASSUME NEW u \in 1 .. n
      PROVE  \/ v[u].reward_checkpoint = total_rewards
             \/ rate(u, gs, total_delegation_cap, service_fee)
                  = rate(u, fs, total_delegation_cap, service_fee)
  <2>1. u \in Users
    BY <1>2, CountFacts
  <2>2. CASE u \in users
    BY <1>1, <2>1, <2>2 DEF Brought, UpToDate
  <2>3. CASE u \notin users
    BY <1>2, <2>3, OutsideRates
  <2> QED BY <2>2, <2>3
<1> QED BY <1>1, <1>3, OwingMoves

(* Deferring unstaked funds moves no active stake.                         *)
LEMMA DeferShares ==
    ASSUME NEW fs \in Seq(Item), NEW amount \in Nat, NEW gas \in Nat, NEW r,
           r = swap_unstaked_to_deferred_payment(fs, amount, gas)
    PROVE  SameShares(r.funds, fs)
<1>1. /\ Swap(r, fs, amount, OfType("UnStaked"), to_deferred)
      /\ r.funds \in Seq(Item)
  BY UnstakedToDeferred DEF Shift, to_deferred
<1>2. Into("DeferredPayment", to_deferred)
  BY DEF Into, IsTransform, to_deferred, DeferredPayment, Desc, FundType, Item
<1>3. PICK t, q, p : /\ t = "UnStaked" /\ q = "DeferredPayment"
                     /\ p = "Active" /\ p # t /\ p # q
  OBVIOUS
<1>4. ASSUME NEW K, K \subseteq OfType(p)
      PROVE  Total(r.funds, K) = Total(fs, K)
  <2>1. Swap(r, fs, amount, OfType(t), to_deferred) /\ Into(q, to_deferred)
    BY <1>1, <1>2, <1>3
  <2> QED BY ONLY <1>3, <1>4, <2>1, OtherTypesUnmoved, fs \in Seq(Item),
             amount \in Nat
<1> QED BY <1>1, <1>3, <1>4 DEF SameShares

NoStrangers(fs, n) == fs \in Seq(Item) /\ Total(fs, Strangers(n)) = 0

(* An item that is not empty belongs to a registered user.                 *)
LEMMA LiveIsRegistered ==
    ASSUME NEW n, Count(n), NEW fs, NoStrangers(fs, n), NEW ids,
           IsIds(ids, fs), NEW j \in 1 .. Len(ids)
    PROVE  fs[ids[j]].user_id \in 1 .. n
<1>1. PICK i, item : i = ids[j] /\ item = fs[i]
  OBVIOUS
<1>2. i \in 1 .. Len(fs) /\ item.balance > 0 /\ item \in Item
  BY <1>1 DEF IsIds, NoStrangers
<1>3. key(item) \notin Strangers(n)
  BY <1>1, <1>2, NoneOfKind DEF NoStrangers
<1>4. key(item) \in Keys /\ key(item)[1] = item.user_id
  BY <1>2, ItemFields DEF key
<1>5. item.user_id \in 1 .. n
  BY <1>3, <1>4 DEF Strangers
<1> QED BY <1>1, <1>5

(* The users that a swap of waiting stake affects are registered.          *)
LEMMA AffectedAreRegistered ==
    ASSUME NEW n, Count(n), NEW fs, NoStrangers(fs, n), NEW amount \in Nat
    PROVE  get_affected_users_of_swap_waiting_to_active(fs, amount)
             \subseteq 1 .. n
<1>1. PICK ids, r : /\ ids = fund_list_by_type(fs, "Waiting")
                    /\ r = swap_waiting_to_active(fs, amount, NoLimit(fs))
  OBVIOUS
<1>2. fs \in Seq(Item)
  BY DEF NoStrangers
<1>3. IsIds(ids, fs)
  BY <1>1, <1>2, TypeList DEF ListOfKind
<1>4. r = split_convert(fs, ids, amount, to_active, Len(fs)) /\ Len(fs) \in Nat
  BY <1>1, <1>2 DEF swap_waiting_to_active, to_active, NoLimit
<1>5. IsTransform(to_active) /\ ids \in Seq(1 .. Len(fs))
  BY <1>3 DEF IsTransform, to_active, Active, Desc, FundType, IsIds
<1>6. r.visited <= Len(ids) /\ r.visited \in Nat
  <2>1. LoopInv(r, Smaller(Len(fs), Len(ids)), fs, same_kind(fs, ids), amount,
                to_active)
    BY <1>2, <1>4, <1>5, SplitConvert
  <2>2. r.visited <= Smaller(Len(fs), Len(ids)) /\ r.visited \in Nat
    BY <2>1 DEF LoopInv, IsState
  <2>3. Len(ids) \in Nat /\ Len(fs) \in Nat
    BY <1>4, <1>5
  <2> QED BY <2>2, <2>3 DEF Smaller
<1>7. \A k \in 1 .. r.visited : fs[ids[k]].user_id \in 1 .. n
  <2> SUFFICES ASSUME NEW k \in 1 .. r.visited
               PROVE  fs[ids[k]].user_id \in 1 .. n
    OBVIOUS
  <2>1. k \in 1 .. Len(ids)
    BY <1>5, <1>6
  <2> QED BY <1>3, <2>1, LiveIsRegistered
<1>8. get_affected_users_of_swap_waiting_to_active(fs, amount)
        = { fs[ids[k]].user_id : k \in 1 .. r.visited }
  BY <1>1 DEF get_affected_users_of_swap_waiting_to_active
<1> QED BY <1>7, <1>8

(* In bootstrap mode there are no rewards to share yet.                    *)
LEMMA BootstrapOwes ==
    ASSUME Numbers, bootstrap_mode, NEW rewards, NEW fs, NEW n,
           Owing(rewards, fs, n), NEW gs,
           Within(gs, total_delegation_cap, service_fee)
    PROVE  Owing(rewards, gs, n)
<1>1. total_rewards = 0
  BY DEF Numbers
<1>2. ASSUME NEW u \in 1 .. n
      PROVE  rewards[u].reward_checkpoint = total_rewards
  <2>1. IsData(rewards[u], total_rewards)
    BY CountFacts DEF Owing, IsRewards
  <2>2. rewards[u].reward_checkpoint \in 0 .. total_rewards
    BY <2>1 DEF IsData
  <2> QED BY <1>1, <2>2
<1> QED BY <1>2, OwingMoves

LEMMA BootstrapClaims ==
    ASSUME Numbers, bootstrap_mode, NEW rewards, NEW fs,
           IsRewards(rewards, total_rewards), NEW claims,
           Claimable(rewards, fs, claims), NEW gs
    PROVE  Claimable(rewards, gs, claims)
<1>1. total_rewards = 0
  BY DEF Numbers
<1>2. ASSUME NEW u \in Users PROVE claim_now(u, rewards[u], gs) = claims[u]
  <2>1. rewards[u].reward_checkpoint \in 0 .. total_rewards
    BY DEF IsRewards, IsData
  <2>2. rewards[u].reward_checkpoint = total_rewards /\ total_rewards \in Nat
    BY <1>1, <2>1
  <2>3. claim_now(u, rewards[u], gs) = claim_now(u, rewards[u], fs)
    BY <2>2, ClaimMoves
  <2> QED BY <2>3 DEF Claimable
<1> QED BY <1>2 DEF Claimable

(* use_waiting_to_replace_unstaked brings up to date everybody whose stake *)
(* it activates, and the owner, before it does so.  Nobody's claim changes.*)
LEMMA UseWaitingOwes ==
    ASSUME Numbers, NEW rewards, NEW fs, NEW n, Owing(rewards, fs, n),
           NoStrangers(fs, n), NEW r,
           r = use_waiting_to_replace_unstaked(fs, rewards),
           Within(r.funds, total_delegation_cap, service_fee),
           NEW claims, Claimable(rewards, fs, claims)
    PROVE  Owing(r.rewards, r.funds, n) /\ Claimable(r.rewards, r.funds, claims)
<1>1. /\ fs \in Seq(Item) /\ Count(n) /\ IsRewards(rewards, total_rewards)
      /\ total_rewards \in Nat
  BY DEF NoStrangers, Owing, Numbers, RewardNumbers
<1>2. PICK w, a, u, d, x \in Nat : TypeTotals(fs, w, a, u, d, x)
  BY <1>1, HasTotals
<1>3. PICK amount : amount = Smaller(w, u)
  OBVIOUS
<1>4. amount \in Nat
  BY <1>2, <1>3 DEF Smaller
<1>5. Smaller(total_of_type(fs, "Waiting"), total_of_type(fs, "UnStaked"))
         = amount
  BY <1>2, <1>3 DEF TypeTotals
<1>6. CASE bootstrap_mode
  <2>1. r.rewards = rewards
    BY <1>6 DEF use_waiting_to_replace_unstaked, fill_bootstrap
  <2>2. Claimable(rewards, r.funds, claims)
    BY <1>1, <1>6, BootstrapClaims
  <2> QED BY <1>6, <2>1, <2>2, BootstrapOwes
<1>7. CASE ~ bootstrap_mode /\ amount = 0
  <2>1. r.rewards = rewards /\ r.funds = fs
    BY <1>5, <1>7 DEF use_waiting_to_replace_unstaked
  <2> QED BY <2>1
<1>8. CASE ~ bootstrap_mode /\ amount # 0
  <2>1. r = replace_unstaked(swap_unstaked_to_deferred_payment(
                          fs, amount, NoLimit(fs)), amount, rewards)
    BY <1>5, <1>8 DEF use_waiting_to_replace_unstaked
  <2>2. PICK s : s = swap_unstaked_to_deferred_payment(fs, amount, NoLimit(fs))
    OBVIOUS
  <2>3. NoLimit(fs) \in Nat
    BY <1>1 DEF NoLimit
  <2>4. SameShares(s.funds, fs)
    BY <1>1, <1>4, <2>2, <2>3, DeferShares
  <2>5. PICK gs \in Seq(Item) : gs = s.funds
    BY <2>4 DEF SameShares
  <2>6. PICK users : users = {OWNER_USER_ID}
            \cup get_affected_users_of_swap_waiting_to_active(gs, amount)
    OBVIOUS
  <2>7. PICK act : act = swap_waiting_to_active(gs, amount, NoLimit(gs))
    OBVIOUS
  <2>8. /\ r.funds = act.funds
        /\ r.rewards = compute_rewards_of(users, rewards, gs)
    BY <2>1, <2>2, <2>5, <2>6, <2>7 DEF replace_unstaked
  <2>9. Owing(rewards, gs, n)
    BY <2>4, <2>5, OwingSame
  <2>10. NoStrangers(gs, n)
    <3>1. Shift(s, fs, amount, OfType("UnStaked"), "UnStaked",
                "DeferredPayment")
      BY <1>1, <1>4, <2>2, <2>3, UnstakedToDeferred
    <3>2. Total(gs, Strangers(n)) = Total(fs, Strangers(n))
      BY <2>5, <3>1, UserKinds DEF Shift
    <3> QED BY <3>2 DEF NoStrangers
  <2>11. users \subseteq 1 .. n /\ OWNER_USER_ID \in users
    BY <1>1, <1>4, <2>6, <2>10, AffectedAreRegistered, CountFacts
       DEF OWNER_USER_ID
  <2>12. SharesOutside(act.funds, gs, users)
    <3>1. act.funds \in Seq(Item)
      <4>1. NoLimit(gs) \in Nat
        BY DEF NoLimit
      <4> QED BY <1>4, <2>7, <4>1, WaitingToActive DEF Shift
    <3>2. ASSUME NEW v, v \notin users
          PROVE  Total(act.funds, OfUser(v) \cap OfType("Active"))
                   = Total(gs, OfUser(v) \cap OfType("Active"))
      <4>1. PICK K : K = OfUser(v) \cap OfType("Active")
        OBVIOUS
      <4>2. /\ v \notin get_affected_users_of_swap_waiting_to_active(gs, amount)
            /\ K \subseteq OfUser(v)
        BY <2>6, <3>2, <4>1
      <4>3. Total(act.funds, K) = Total(gs, K)
        BY <1>4, <2>7, <4>2, AffectedUsers
      <4> QED BY <4>1, <4>3
    <3> QED BY <3>1, <3>2 DEF SharesOutside
  <2>13. Within(act.funds, total_delegation_cap, service_fee)
    BY <2>8
  <2>14. Owing(r.rewards, act.funds, n)
    BY <2>8, <2>9, <2>11, <2>12, <2>13, OwingBrought
  <2>15. Claimable(rewards, gs, claims)
    BY <1>1, <2>4, <2>5, ClaimableSame
  <2>16. Claimable(r.rewards, act.funds, claims)
    BY <1>1, <2>8, <2>11, <2>12, <2>15, ClaimableBrought
  <2> QED BY <2>8, <2>14, <2>16
<1> QED BY <1>6, <1>7, <1>8

(* The items that share rewards and those to be replaced are within the    *)
(* cap.                                                                    *)
Filled(fs, cap) ==
    total_of_type(fs, "Active") + total_of_type(fs, "UnStaked") <= cap

(* Everybody's rewards are computed up to t and all of t has an owner.     *)
SettledAt(t, rewards, n, S) ==
    /\ \A u \in 1 .. n : rewards[u].reward_checkpoint = t
    /\ unclaimed_to(rewards, n) + S = t

Settled(rewards, n, T, S) == \E t \in 0 .. T : SettledAt(t, rewards, n, S)

(* How far compute_all_rewards has come.                                   *)
Counting(op, rewards, T) ==
    /\ op.rewards_checkpoint \in 0 .. T
    /\ \A u \in 1 .. op.last_id :
          rewards[u].reward_checkpoint = op.rewards_checkpoint
    /\ op.sum_unclaimed = unclaimed_to(rewards, op.last_id)

Swapping == is_global_op_in_progress /\ global_op.step # "ComputeAllRewards"

RewardBasics ==
    /\ total_rewards \in 0 .. RewardBound
    /\ sent_rewards \in Nat
    /\ service_fee \in Fees
    /\ global_op.op = "ChangeServiceFee" => global_op.new_value \in Fees
    /\ bootstrap_mode => total_rewards = 0

RewardsStored ==
    /\ IsRewards(user_rewards, total_rewards)
    /\ Fresh(user_rewards, num_users)
    /\ Counting(global_op, user_rewards, total_rewards)

(* Once everybody is settled the stakes may move without owing more.       *)
RewardInv ==
    /\ RewardBasics
    /\ RewardsStored
    /\ IF Swapping
       THEN Settled(user_rewards, num_users, total_rewards, sent_rewards)
       ELSE /\ Owing(user_rewards, funds, num_users)
            /\ Filled(funds, total_delegation_cap)

(* Outside a global operation active and unstaked funds are within the     *)
(* cap.                                                                    *)
LEMMA FilledByLedger ==
    ASSUME L!IInv, OpInv, ~ is_global_op_in_progress
    PROVE  Filled(funds, total_delegation_cap)
<1>1. /\ L!stake_after_op <= L!cap_after_op /\ L!TypeOK
      /\ global_op.op = "None" /\ global_op = NoGlobalOp
  BY DEF L!IInv, L!StakeReachesCap, is_global_op_in_progress, OpInv
<1>2. /\ global_op.waiting_to_active = 0 /\ global_op.unstaked_to_def_p = 0
      /\ global_op.active_to_def_p = 0
  BY <1>1 DEF NoGlobalOp
<1>3. /\ total_of_type(funds, "Active") \in Nat
      /\ total_of_type(funds, "UnStaked") \in Nat
      /\ total_delegation_cap \in Nat
  BY <1>1 DEF L!TypeOK
<1>4. L!cap_after_op = total_delegation_cap
  BY <1>1 DEF L!cap_after_op
<1>5. L!stake_after_op = total_of_type(funds, "Active")
                            + total_of_type(funds, "UnStaked")
  BY <1>2, <1>3 DEF L!stake_after_op
<1> QED BY <1>1, <1>4, <1>5 DEF Filled

(* The same of the state a step leaves.                                    *)
LEMMA FilledByLedgerNext ==
    ASSUME L!IInv', OpInv', global_op'.op = "None"
    PROVE  Filled(funds', total_delegation_cap')
<1>1. /\ L!stake_after_op' <= L!cap_after_op' /\ L!TypeOK'
      /\ global_op' = NoGlobalOp
  BY DEF L!IInv, L!StakeReachesCap, OpInv
<1>2. /\ global_op'.waiting_to_active = 0 /\ global_op'.unstaked_to_def_p = 0
      /\ global_op'.active_to_def_p = 0
  BY <1>1 DEF NoGlobalOp
<1>3. /\ total_of_type(funds', "Active") \in Nat
      /\ total_of_type(funds', "UnStaked") \in Nat
      /\ total_delegation_cap' \in Nat
  BY <1>1 DEF L!TypeOK
<1>4. L!cap_after_op' = total_delegation_cap'
  BY <1>1 DEF L!cap_after_op
<1>5. L!stake_after_op' = total_of_type(funds', "Active")
                            + total_of_type(funds', "UnStaked")
  BY <1>2, <1>3 DEF L!stake_after_op
<1> QED BY <1>1, <1>4, <1>5 DEF Filled

(* Then the active stake is within the cap too.                            *)
LEMMA FilledIsWithin ==
    ASSUME NEW fs \in Seq(Item), NEW cap \in Nat, Filled(fs, cap),
           NEW fee \in Fees
    PROVE  Within(fs, cap, fee)
<1>1. fee \in 0 .. PERCENTAGE_DENOMINATOR
  BY DelegationAssumption
<1>2. PICK w, a, u, d, x \in Nat : TypeTotals(fs, w, a, u, d, x)
  BY HasTotals
<1>3. a + u <= cap
  BY <1>2 DEF TypeTotals, Filled
<1>4. a <= cap
  BY <1>3
<1> QED BY <1>1, <1>2, <1>4 DEF TypeTotals, Within

(* Where no operation is under way nothing is counted.                     *)
LEMMA NoOpCounts ==
    ASSUME NEW rewards, NEW T \in Nat PROVE Counting(NoGlobalOp, rewards, T)
<1>1. /\ NoGlobalOp.rewards_checkpoint = 0 /\ NoGlobalOp.last_id = 0
      /\ NoGlobalOp.sum_unclaimed = 0
  BY DEF NoGlobalOp
<1>2. unclaimed_to(rewards, 0) = 0
  BY SumZero DEF unclaimed_to
<1> QED BY <1>1, <1>2 DEF Counting

(* What the invariants say of the numbers.                                 *)
LEMMA RewardFacts ==
    ASSUME BookInv, RewardInv
    PROVE  /\ Numbers /\ Count(num_users) /\ total_rewards \in Nat
           /\ funds \in Seq(Item) /\ NoStrangers(funds, num_users)
<1>1. Numbers
  <2>1. RewardNumbers
    BY DelegationAssumption
       DEF RewardInv, RewardBasics, BookInv, Basics, RewardNumbers
  <2> QED BY <2>1 DEF RewardInv, RewardBasics, Numbers
<1>2. Count(num_users)
  BY DelegationAssumption DEF BookInv, Basics, Users, Count
<1>3. total_rewards \in Nat
  BY <1>1 DEF Numbers, RewardNumbers
<1> QED
  BY <1>1, <1>2, <1>3 DEF BookInv, FundsInv, Sound, Orderly, NoStrangers

(* An endpoint that needs that no global operation runs.                   *)
LEMMA OwingStep ==
    ASSUME BookInv, RewardInv, BookInv', L!IInv',
           ~ is_global_op_in_progress,
           UNCHANGED <<total_delegation_cap, service_fee, total_rewards,
                       sent_rewards, global_op>>,
           bootstrap_mode' => bootstrap_mode,
           Owing(user_rewards', funds', num_users')
    PROVE  RewardInv'
<1>1. /\ global_op'.op = "None" /\ OpInv' /\ global_op' = NoGlobalOp
      /\ ~ Swapping'
  BY DEF is_global_op_in_progress, BookInv, Basics, Swapping, OpInv
<1>2. Filled(funds', total_delegation_cap')
  BY <1>1, FilledByLedgerNext
<1>3. RewardBasics'
  BY DEF RewardInv, RewardBasics
<1>4. Owing(user_rewards, funds, num_users)'
  BY DEF Owing, covered_now
<1>5. RewardsStored'
  <2>1. Counting(global_op', user_rewards', total_rewards')
    <3>1. total_rewards' \in Nat
      BY RewardFacts
    <3> QED BY <1>1, <3>1, NoOpCounts
  <2> QED BY <2>1, <1>4 DEF Owing, RewardsStored
<1> QED BY <1>1, <1>2, <1>3, <1>4, <1>5 DEF RewardInv

(* The transaction ends by replacing unstaked funds and saving.            *)
LEMMA FinishOwes ==
    ASSUME Numbers, service_fee \in Fees, NEW rewards, NEW fs, NEW n,
           Owing(rewards, fs, n), NoStrangers(fs, n), NEW r,
           r = use_waiting_to_replace_unstaked(fs, rewards),
           r.funds \in Seq(Item), NEW gs, gs = save(r.funds),
           Filled(gs, total_delegation_cap),
           NEW claims, Claimable(rewards, fs, claims)
    PROVE  Owing(r.rewards, gs, n) /\ Claimable(r.rewards, gs, claims)
<1>1. SameShares(gs, r.funds) /\ gs \in Seq(Item)
  BY SaveShares DEF SameShares
<1>2. total_delegation_cap \in Nat
  BY DEF Numbers, RewardNumbers
<1>3. Within(gs, total_delegation_cap, service_fee)
  BY <1>1, <1>2, FilledIsWithin
<1>4. total_of_type(gs, "Active") = total_of_type(r.funds, "Active")
  BY <1>1, SameRates
<1>5. Within(r.funds, total_delegation_cap, service_fee)
  BY <1>3, <1>4 DEF Within
<1>6. Owing(r.rewards, r.funds, n) /\ Claimable(r.rewards, r.funds, claims)
  BY <1>5, UseWaitingOwes
<1>7. Claimable(r.rewards, gs, claims)
  BY <1>1, <1>6, ClaimableSame DEF Numbers, RewardNumbers
<1> QED BY <1>1, <1>6, <1>7, OwingSame

(* A user who registers is owed nothing.                                   *)
LEMMA RegisterOwes ==
    ASSUME Numbers, NEW rewards, NEW fs, NEW n, Owing(rewards, fs, n),
           NoStrangers(fs, n), Count(n + 1)
    PROVE  Owing(rewards, fs, n + 1)
<1>1. PICK cap, fee, T, S, m : /\ cap = total_delegation_cap
                               /\ fee = service_fee /\ T = total_rewards
                               /\ S = sent_rewards /\ m = n + 1
  OBVIOUS
<1>2. /\ Count(n) /\ Within(fs, cap, fee) /\ T \in Nat /\ S \in Nat
      /\ IsRewards(rewards, T) /\ Covered(rewards, fs, n, cap, fee, T, S)
      /\ Fresh(rewards, n) /\ fs \in Seq(Item)
  BY <1>1 DEF Numbers, RewardNumbers, Owing, covered_now, NoStrangers
<1>3. n \in Nat /\ n + 1 \in Users /\ n + 1 > n
  BY <1>2, CountFacts, DelegationAssumption DEF Count, Users
<1>4. rewards[n + 1].unclaimed_rewards = 0
  BY <1>2, <1>3 DEF Fresh
<1>5. get_user_stake_of_type(fs, n + 1, "Active") = 0
  <2>1. PICK K : K = OfUser(n + 1) \cap OfType("Active")
    OBVIOUS
  <2>2. K \subseteq Strangers(n)
    BY <1>3, <2>1 DEF OfUser, Strangers
  <2>3. Total(fs, K) <= 0 /\ Total(fs, K) \in Nat
    BY <1>2, <2>2, TotalSubset, TotalNat DEF NoStrangers
  <2> QED BY <1>2, <2>1, <2>3, UserTypeTotal
<1>6. Covered(rewards, fs, n + 1, cap, fee, T, S)
  BY <1>2, <1>4, <1>5, NewUserCovers
<1>7. Fresh(rewards, n + 1)
  <2>1. ASSUME NEW u \in Users, u > n + 1 PROVE u > n
    <3>1. u \in Nat
      BY DelegationAssumption DEF Users
    <3> QED BY <1>3, <2>1, <3>1
  <2> QED BY <1>2, <2>1 DEF Fresh
<1> QED BY <1>1, <1>2, <1>6, <1>7 DEF Owing, covered_now

(* What everybody may claim is what it was before the step.                *)
ClaimsSame ==
    \A u \in Users : get_claimable_rewards(u)' = get_claimable_rewards(u)

claims_now == [u \in Users |-> get_claimable_rewards(u)]

(* The claims before and after a step, as functions of rewards and items.  *)
LEMMA ClaimsBefore == Claimable(user_rewards, funds, claims_now)
BY DEF Claimable, claims_now, claim_now, get_claimable_rewards

LEMMA ClaimsAfter ==
    ASSUME UNCHANGED <<total_delegation_cap, service_fee, total_rewards>>,
           Claimable(user_rewards', funds', claims_now)
    PROVE  ClaimsSame
<1>1. ASSUME NEW u \in Users
      PROVE  get_claimable_rewards(u)' = get_claimable_rewards(u)
  <2>1. claim_now(u, user_rewards'[u], funds') = get_claimable_rewards(u)
    BY DEF Claimable, claims_now
  <2>2. get_claimable_rewards(u)' = claim_now(u, user_rewards'[u], funds')
    BY DEF get_claimable_rewards, claim_now, load_updated_user_rewards,
           split_service_reward
  <2> QED BY <2>1, <2>2
<1> QED BY <1>1 DEF ClaimsSame

(* Secured rewards go down only by being paid.                             *)
NeverLost ==
    \A u \in Users :
        secured_rewards(u)' < secured_rewards(u) =>
            /\ sent_rewards' = sent_rewards + secured_rewards(u)
            /\ \A v \in Users \ {u} :
                  secured_rewards(v)' >= secured_rewards(v)

(* What is secured, before and after a step.                               *)
LEMMA SecuredBefore ==
    /\ Swapping => \A u \in Users :
          secured_rewards(u) = user_rewards[u].unclaimed_rewards
    /\ ~ Swapping => \A u \in Users :
          secured_rewards(u) = get_claimable_rewards(u)
BY DEF secured_rewards, Swapping

LEMMA SecuredAfter ==
    /\ Swapping' => \A u \in Users :
          secured_rewards(u)' = user_rewards'[u].unclaimed_rewards
    /\ ~ Swapping' => \A u \in Users :
          secured_rewards(u)' = get_claimable_rewards(u)'
BY DEF secured_rewards, Swapping, is_global_op_in_progress

(* What a user may claim is at least what is stored as unclaimed.          *)
ClaimsBounded ==
    \A u \in Users :
        /\ get_claimable_rewards(u) \in Nat
        /\ user_rewards[u].unclaimed_rewards \in Nat
        /\ get_claimable_rewards(u) >= user_rewards[u].unclaimed_rewards

LEMMA ClaimBounds ==
    BookInv /\ RewardInv /\ ~ Swapping => ClaimsBounded
<1> SUFFICES ASSUME BookInv, RewardInv, ~ Swapping, NEW u \in Users
             PROVE  /\ get_claimable_rewards(u) \in Nat
                    /\ user_rewards[u].unclaimed_rewards \in Nat
                    /\ get_claimable_rewards(u)
                         >= user_rewards[u].unclaimed_rewards
  BY DEF ClaimsBounded
<1>1. /\ RewardNumbers /\ Within(funds, total_delegation_cap, service_fee)
      /\ IsData(user_rewards[u], total_rewards)
  BY RewardFacts DEF RewardInv, Owing, Numbers, IsRewards
<1>2. PICK v : v = load_updated_user_rewards(u, user_rewards[u], funds)
  OBVIOUS
<1>3. UpToDate(v, user_rewards[u], u, funds)
  BY <1>1, <1>2, UpdateOwes
<1>4. get_claimable_rewards(u) = v.unclaimed_rewards
  BY <1>2 DEF get_claimable_rewards
<1> QED BY <1>1, <1>3, <1>4 DEF UpToDate, IsData

(* So is what is secured.                                                  *)
SecuredBounded ==
    \A u \in Users :
        /\ secured_rewards(u) \in Nat
        /\ user_rewards[u].unclaimed_rewards \in Nat
        /\ secured_rewards(u) >= user_rewards[u].unclaimed_rewards

LEMMA SecuredBounds == BookInv /\ RewardInv => SecuredBounded
<1> SUFFICES ASSUME BookInv, RewardInv PROVE SecuredBounded
  OBVIOUS
<1>1. CASE Swapping
  <2>1. \A u \in Users : user_rewards[u].unclaimed_rewards \in Nat
    BY DEF RewardInv, RewardsStored, IsRewards, IsData
  <2>2. \A u \in Users : /\ secured_rewards(u) \in Nat
                         /\ secured_rewards(u)
                              = user_rewards[u].unclaimed_rewards
    BY <1>1, <2>1, SecuredBefore
  <2>3. \A u \in Users :
           secured_rewards(u) >= user_rewards[u].unclaimed_rewards
    BY <2>1, <2>2
  <2> QED BY <2>1, <2>2, <2>3 DEF SecuredBounded
<1>2. CASE ~ Swapping
  BY <1>2, ClaimBounds, SecuredBefore DEF ClaimsBounded, SecuredBounded
<1> QED BY <1>1, <1>2

(* The same of the state a step leaves.                                    *)
LEMMA SecuredBoundsNext == BookInv' /\ RewardInv' => SecuredBounded'
BY SecuredBounds, PTL

(* Nothing is lost when nothing secured shrinks.                           *)
LEMMA KeptNotLost ==
    ASSUME BookInv, RewardInv,
           \A u \in Users : /\ secured_rewards(u)' \in Nat
                            /\ secured_rewards(u)' >= secured_rewards(u)
    PROVE  NeverLost
<1>1. ASSUME NEW u \in Users
      PROVE  ~ (secured_rewards(u)' < secured_rewards(u))
  <2>1. PICK x \in Nat : x = secured_rewards(u)
    BY SecuredBounds DEF SecuredBounded
  <2>2. PICK y \in Nat : y = secured_rewards(u)' /\ y >= x
    BY <2>1
  <2>3. ~ (y < x)
    BY <2>2
  <2> QED BY <2>1, <2>2, <2>3
<1> QED BY <1>1 DEF NeverLost

(* Nothing is lost when no claim changes.                                  *)
LEMMA SameNotLost ==
    ASSUME BookInv, RewardInv, ClaimsSame, UNCHANGED global_op,
           Swapping => UNCHANGED user_rewards
    PROVE  NeverLost
<1>1. Swapping' <=> Swapping
  BY DEF Swapping, is_global_op_in_progress
<1>2. \A u \in Users : secured_rewards(u)' = secured_rewards(u)
  BY <1>1, SecuredBefore, SecuredAfter DEF ClaimsSame
<1>3. \A u \in Users : secured_rewards(u) \in Nat
  BY SecuredBounds DEF SecuredBounded
<1>4. \A u \in Users : /\ secured_rewards(u)' \in Nat
                       /\ secured_rewards(u)' >= secured_rewards(u)
  BY <1>2, <1>3
<1> QED BY <1>4, KeptNotLost

(* Rewards that are stored as unclaimed at least as claimed before.        *)
Promised(rewards, claims) ==
    \A u \in Users : rewards[u].unclaimed_rewards >= claims[u]

(* What a transaction does with the claims that begins, continues or ends  *)
(* the operation op: it stores all of them, or has not yet computed all    *)
(* and changes none.  Once they are stored it leaves them alone.           *)
Pays(op) ==
    IF op.step = "ComputeAllRewards"
    THEN Promised(user_rewards', claims_now) \/ (ClaimsSame /\ ~ Swapping')
    ELSE UNCHANGED user_rewards

(* Then nothing is lost.                                                   *)
LEMMA PaysNotLost ==
    ASSUME BookInv, RewardInv, BookInv', RewardInv', NEW op, Pays(op),
           op.step = "ComputeAllRewards" <=> ~ Swapping
    PROVE  NeverLost
<1>1. ASSUME NEW u \in Users
      PROVE  /\ secured_rewards(u)' \in Nat
             /\ secured_rewards(u)' >= secured_rewards(u)
  <2>1. PICK x, y, z : /\ x = secured_rewards(u)
                       /\ y = user_rewards'[u].unclaimed_rewards
                       /\ z = secured_rewards(u)'
    OBVIOUS
  <2>2. x \in Nat
    BY <2>1, SecuredBounds DEF SecuredBounded
  <2>3. y \in Nat /\ z \in Nat /\ z >= y
    BY <2>1, SecuredBoundsNext DEF SecuredBounded
  <2>4. y >= x \/ z = x
    <3>1. CASE Swapping
      <4>1. y = x
        BY <2>1, <3>1, SecuredBefore DEF Pays
      <4> QED BY <2>2, <4>1
    <3>2. CASE ~ Swapping /\ Promised(user_rewards', claims_now)
      <4>1. x = claims_now[u]
        BY <2>1, <3>2, SecuredBefore DEF claims_now
      <4> QED BY <2>1, <3>2, <4>1 DEF Promised
    <3>3. CASE ~ Swapping /\ ClaimsSame /\ ~ Swapping'
      BY <2>1, <3>3, SecuredBefore, SecuredAfter DEF ClaimsSame
    <3> QED BY <3>1, <3>2, <3>3 DEF Pays
  <2>5. z >= x
    BY <2>2, <2>3, <2>4
  <2> QED BY <2>1, <2>3, <2>5
<1> QED BY <1>1, KeptNotLost

(* The end that stake, unStake and dustCleanupActive have in common.       *)
LEMMA CommitOwes ==
    ASSUME BookInv, RewardInv, BookInv', L!IInv',
           ~ is_global_op_in_progress,
           UNCHANGED <<total_delegation_cap, service_fee, total_rewards,
                       sent_rewards, global_op>>,
           NEW fs, NEW rewards, Owing(rewards, fs, num_users'),
           NoStrangers(fs, num_users'), NEW r,
           r = use_waiting_to_replace_unstaked(fs, rewards), r.ok,
           funds' = save(r.funds), bootstrap_mode' = r.bootstrap,
           user_rewards' = r.rewards, Claimable(rewards, fs, claims_now)
    PROVE  RewardInv' /\ ClaimsSame
<1>1. /\ total_delegation_cap \in Nat /\ bootstrap_mode \in BOOLEAN
      /\ block_nonce \in Nat /\ Numbers /\ service_fee \in Fees
  BY BasicFacts, RewardFacts DEF BookInv, Basics, RewardInv, RewardBasics
<1>2. fs \in Seq(Item)
  BY DEF NoStrangers
<1>3. PICK w, a, s, d, x \in Nat : TypeTotals(fs, w, a, s, d, x)
  BY <1>2, HasTotals
<1>4. Replaces(r, fs, block_nonce, w, a, s, d, x)
  BY <1>1, <1>2, <1>3, UseWaiting
<1>5. r.funds \in Seq(Item)
  BY <1>4 DEF Replaces, Follows
<1>6. bootstrap_mode' => bootstrap_mode
  BY <1>1, <1>4 DEF Replaces, Replaced
<1>7. Filled(funds', total_delegation_cap)
  <2>1. OpInv' /\ global_op'.op = "None"
    BY DEF BookInv, Basics, is_global_op_in_progress
  <2>2. Filled(funds', total_delegation_cap')
    BY <2>1, FilledByLedgerNext
  <2> QED BY <2>2
<1>8. /\ Owing(user_rewards', funds', num_users')
      /\ Claimable(user_rewards', funds', claims_now)
  BY <1>1, <1>5, <1>7, FinishOwes
<1>9. ClaimsSame
  BY <1>8, ClaimsAfter
<1> QED BY <1>6, <1>8, <1>9, OwingStep

(* stake keeps the rewards covered.                                        *)
LEMMA StakeRewards ==
    ASSUME BookInv, RewardInv, NEW u \in Users, NEW payment \in Payments,
           stake_endpoint(u, payment), BookInv', L!IInv'
    PROVE  RewardInv' /\ ClaimsSame
<1>1. /\ num_users \in Nat /\ block_nonce \in Nat /\ u \in Nat
      /\ payment \in Nat /\ u \in 1 .. num_users + 1
  BY DelegationAssumption DEF BookInv, Basics, Users, stake_endpoint
<1>2. Orderly(funds, num_users, block_nonce) /\ funds \in Seq(Item)
  BY DEF BookInv, FundsInv, Sound, Orderly
<1>3. PICK fs : fs = create_waiting(funds, u, payment)
  OBVIOUS
<1>4. PICK m : m = IF u > num_users THEN u ELSE num_users
  OBVIOUS
<1>5. /\ num_users' = m
      /\ Everything(funds) + payment <= DepositBound
      /\ ~ is_global_op_in_progress
      /\ commit(use_waiting_to_replace_unstaked(fs, user_rewards))
      /\ UNCHANGED <<total_delegation_cap, service_fee, global_op,
                     total_rewards, sent_rewards>>
  BY <1>3, <1>4 DEF stake_endpoint
<1>6. /\ Orderly(fs, m, block_nonce)
      /\ \A K : Total(fs, K) = Total(funds, K)
                   + IF <<u, Waiting>> \in K THEN payment ELSE 0
  BY <1>1, <1>2, <1>3, <1>4, <1>5, CreatedIsOrderly
<1>7. fs \in Seq(Item) /\ NoStrangers(fs, m)
  BY <1>6 DEF Orderly, NoStrangers
<1>8. SameShares(fs, funds)
  <2>1. ASSUME NEW K, K \subseteq OfType("Active")
        PROVE  Total(fs, K) = Total(funds, K)
    <3>1. <<u, Waiting>> \notin K
      BY <1>1, <2>1 DEF OfType, Keys, Waiting, Desc, FundType
    <3>2. Total(funds, K) \in Nat
      BY <1>2, TotalNat
    <3> QED BY <1>6, <3>1, <3>2
  <2> QED BY <1>7, <2>1 DEF SameShares
<1>9. Numbers /\ Owing(user_rewards, funds, num_users) /\ service_fee \in Fees
      /\ NoStrangers(funds, num_users)
  BY <1>5, RewardFacts DEF RewardInv, Swapping, RewardBasics
<1>10. Owing(user_rewards, funds, m)
  <2>1. CASE u > num_users
    <3>1. m = num_users + 1
      BY <1>1, <1>4, <2>1
    <3>2. Count(num_users + 1)
      <4>1. u = num_users + 1
        BY <1>1, <2>1
      <4> QED BY <1>1, <4>1, DelegationAssumption DEF Users, Count
    <3> QED BY <1>9, <3>1, <3>2, RegisterOwes
  <2>2. CASE ~ (u > num_users)
    BY <1>4, <1>9, <2>2
  <2> QED BY <2>1, <2>2
<1>11. Owing(user_rewards, fs, m)
  BY <1>8, <1>9, <1>10, OwingSame
<1>12. PICK r : r = use_waiting_to_replace_unstaked(fs, user_rewards)
  OBVIOUS
<1>13. commit(r)
  BY <1>5, <1>12
<1>14. Claimable(user_rewards, fs, claims_now)
  BY <1>2, <1>8, <1>9, ClaimsBefore, ClaimableSame DEF Numbers, RewardNumbers
<1> QED BY <1>5, <1>7, <1>9, <1>11, <1>12, <1>13, <1>14, CommitOwes
        DEF commit, commit_funds

(* A swap between types that do not share rewards.                         *)
LEMMA SwapShares ==
    ASSUME NEW fs \in Seq(Item), NEW max \in Nat, NEW S, NEW transform,
           NEW r, Swap(r, fs, max, S, transform), r.funds \in Seq(Item),
           NEW t, NEW q, S \subseteq OfType(t), Into(q, transform),
           t # "Active", q # "Active"
    PROVE  SameShares(r.funds, fs)
<1>1. PICK p : p = "Active" /\ p # t /\ p # q
  OBVIOUS
<1>2. ASSUME NEW K, K \subseteq OfType(p)
      PROVE  Total(r.funds, K) = Total(fs, K)
  BY ONLY fs \in Seq(Item), max \in Nat, Swap(r, fs, max, S, transform),
     S \subseteq OfType(t), Into(q, transform), <1>1, <1>2, OtherTypesUnmoved,
     SMTT(30)
<1> QED BY <1>1, <1>2 DEF SameShares

(* unStake keeps the rewards covered.                                      *)
LEMMA UnstakeRewards ==
    ASSUME BookInv, RewardInv, NEW u \in Users, NEW amount \in Withdrawals,
           unstake_endpoint(u, amount), BookInv', L!IInv'
    PROVE  RewardInv' /\ ClaimsSame
<1>1. /\ num_users \in Nat /\ block_nonce \in Nat /\ u \in Nat
      /\ amount \in Nat
      /\ total_delegation_cap \in Nat /\ bootstrap_mode \in BOOLEAN
  BY BasicFacts, DelegationAssumption DEF BookInv, Basics
<1>2. funds \in Seq(Item)
  BY DEF BookInv, FundsInv, Sound, Orderly
<1>3. PICK r : r = swap_user_waiting_to_withdraw_only(funds, u, amount)
  OBVIOUS
<1>4. /\ unstake_rest(r, u)
      /\ ~ is_global_op_in_progress
      /\ u <= num_users
      /\ UNCHANGED <<num_users, total_delegation_cap, service_fee, limits,
                   global_op, money, chain>>
  BY <1>3 DEF unstake_endpoint
<1>5. Numbers /\ Owing(user_rewards, funds, num_users) /\ service_fee \in Fees
      /\ NoStrangers(funds, num_users)
  BY <1>4, RewardFacts DEF RewardInv, Swapping, RewardBasics
<1>6. PICK K, f : /\ K = OfUser(u) \cap OfType("Waiting")
                  /\ f = [item \in Item |-> WithdrawOnly]
  OBVIOUS
<1>7. /\ Swap(r, funds, amount, K, f)
      /\ Shift(r, funds, amount, K, "Waiting", "WithdrawOnly")
  BY <1>1, <1>2, <1>3, <1>6, UserWaitingToWithdrawOnly
<1>8. PICK fs \in Seq(Item) : fs = r.funds
  BY <1>7 DEF Shift
<1>9. SameShares(fs, funds)
  <2>1. Into("WithdrawOnly", f)
    BY <1>6 DEF Into, IsTransform, WithdrawOnly, Desc, FundType
  <2>2. K \subseteq OfType("Waiting")
    BY <1>6
  <2>3. PICK t, q : /\ t = "Waiting" /\ q = "WithdrawOnly"
                    /\ t # "Active" /\ q # "Active"
    OBVIOUS
  <2>4. SameShares(r.funds, funds)
    BY <1>1, <1>2, <1>7, <1>8, <2>1, <2>2, <2>3, SwapShares
  <2> QED BY <1>8, <2>4
<1>10. Owing(user_rewards, fs, num_users)
  BY <1>5, <1>9, OwingSame
<1>11. NoStrangers(fs, num_users)
  BY <1>5, <1>7, <1>8, UserKinds DEF Shift, NoStrangers
<1>12. UNCHANGED <<total_delegation_cap, service_fee, total_rewards,
                   sent_rewards, global_op, num_users>>
  BY <1>4 DEF money
<1>13. total_rewards \in Nat /\ IsRewards(user_rewards, total_rewards)
  BY <1>5 DEF Numbers, RewardNumbers, Owing
<1>14. Claimable(user_rewards, fs, claims_now)
  BY <1>2, <1>9, <1>13, ClaimsBefore, ClaimableSame
<1>15. CASE r.left = 0
  <2>1. funds' = save(fs) /\ UNCHANGED <<user_rewards, bootstrap_mode>>
    BY <1>4, <1>8, <1>15 DEF unstake_rest, commit_funds
  <2>2. Owing(user_rewards', funds', num_users')
    BY <1>5, <1>10, <1>12, <2>1, SaveShares, OwingSame
  <2>3. Claimable(user_rewards', funds', claims_now)
    BY <1>13, <1>14, <2>1, SaveShares, ClaimableSame
  <2> QED BY <1>4, <1>12, <2>1, <2>2, <2>3, OwingStep, ClaimsAfter
<1>16. CASE r.left # 0
  <2>1. PICK left \in Nat : left = r.left
    BY <1>7 DEF Shift
  <2>2. PICK q : q = swap_user_active_to_unstaked(fs, u, left, block_nonce)
    OBVIOUS
  <2>3. PICK users : users = {OWNER_USER_ID, u}
    OBVIOUS
  <2>4. PICK rewards : rewards = compute_rewards_of(users, user_rewards, fs)
    OBVIOUS
  <2>5. PICK t : t = use_waiting_to_replace_unstaked(q.funds, rewards)
    OBVIOUS
  <2>6. commit_unstake(t, u)
    BY <1>4, <1>8, <1>16, <2>1, <2>2, <2>3, <2>4, <2>5 DEF unstake_rest
  <2>7. /\ t.ok /\ funds' = save(t.funds) /\ bootstrap_mode' = t.bootstrap
        /\ user_rewards' = t.rewards
    BY <2>6 DEF commit_unstake, commit, commit_funds
  <2>8. PICK J, g : /\ J = OfUser(u) \cap OfType("Active")
                    /\ g = [item \in Item |-> UnStaked(block_nonce)]
    OBVIOUS
  <2>9. /\ Swap(q, fs, left, J, g)
        /\ Shift(q, fs, left, J, "Active", "UnStaked")
    BY <1>1, <2>2, <2>8, UserActiveToUnstaked
  <2>10. PICK gs \in Seq(Item) : gs = q.funds
    BY <2>9 DEF Shift
  <2>11. SharesOutside(gs, fs, users)
    <3>1. ASSUME NEW v, v \notin users
          PROVE  Total(gs, OfUser(v) \cap OfType("Active"))
                   = Total(fs, OfUser(v) \cap OfType("Active"))
      <4>1. PICK M : M = OfUser(v) \cap OfType("Active")
        OBVIOUS
      <4>2. M \subseteq OfUser(v) /\ \A k \in J : k[1] # v
        BY <2>3, <2>8, <3>1, <4>1 DEF OfUser
      <4>3. Total(q.funds, M) = Total(fs, M)
        BY ONLY fs \in Seq(Item), left \in Nat, <2>9, <4>2, OthersUnmoved
      <4> QED BY <2>10, <4>1, <4>3
    <3> QED BY <3>1 DEF SharesOutside
  <2>12. NoStrangers(gs, num_users)
    BY <1>11, <2>9, <2>10, UserKinds DEF Shift, NoStrangers
  <2>13. Within(gs, total_delegation_cap, service_fee)
    <3>1. PICK w, a, s, d, x \in Nat : TypeTotals(fs, w, a, s, d, x)
      BY HasTotals
    <3>2. PICK n \in Nat : n = left - q.left
      BY <2>9 DEF Shift
    <3>3. TypeTotals(gs, w, a - n, s + n, d, x)
      BY <2>9, <2>10, <3>1, <3>2, ActiveToUnstakedTotals
    <3>4. a <= total_delegation_cap
      BY <1>10, <3>1 DEF Owing, Within, TypeTotals
    <3>5. a - n <= total_delegation_cap
      BY <1>1, <3>4
    <3> QED BY <1>10, <3>3, <3>5 DEF Owing, Within, TypeTotals
  <2>14. users \subseteq 1 .. num_users /\ OWNER_USER_ID \in users
    <3>1. u \in 1 .. num_users /\ 1 \in 1 .. num_users
      BY <1>1, <1>4, BasicFacts, DelegationAssumption DEF BookInv, Users
    <3> QED BY <2>3, <3>1 DEF OWNER_USER_ID
  <2>15. Owing(rewards, gs, num_users)
    BY <1>5, <1>10, <2>4, <2>11, <2>13, <2>14, OwingBrought
  <2>16. t = use_waiting_to_replace_unstaked(gs, rewards)
    BY <2>5, <2>10
  <2>17. Owing(rewards, gs, num_users') /\ NoStrangers(gs, num_users')
    BY <1>12, <2>12, <2>15
  <2>18. Claimable(rewards, gs, claims_now)
    BY <1>13, <1>14, <2>4, <2>11, <2>14, ClaimableBrought
  <2> QED BY <1>4, <1>12, <2>7, <2>16, <2>17, <2>18, CommitOwes
<1> QED BY <1>15, <1>16

(* A transaction that leaves shares and rewards alone.                     *)
LEMMA SharesKept ==
    ASSUME BookInv, RewardInv, SameShares(funds', funds),
           total_of_type(funds', "UnStaked") = total_of_type(funds, "UnStaked"),
           UNCHANGED <<num_users, user_rewards, total_delegation_cap,
                       bootstrap_mode, service_fee, global_op, total_rewards,
                       sent_rewards>>
    PROVE  RewardInv' /\ ClaimsSame
<1>1. RewardBasics' /\ RewardsStored' /\ (Swapping' <=> Swapping)
  BY DEF RewardInv, RewardBasics, RewardsStored, Swapping,
         is_global_op_in_progress
<1>2. ASSUME Swapping PROVE RewardInv'
  BY <1>1, <1>2 DEF RewardInv
<1>3. ASSUME ~ Swapping PROVE RewardInv'
  <2>1. /\ Owing(user_rewards, funds, num_users)
        /\ Filled(funds, total_delegation_cap)
    BY <1>3 DEF RewardInv
  <2>2. Numbers /\ funds \in Seq(Item)
    BY RewardFacts
  <2>3. Owing(user_rewards, funds', num_users)
    BY <2>1, <2>2, OwingSame
  <2>4. Owing(user_rewards, funds, num_users)'
    BY <2>3 DEF Owing, covered_now
  <2>5. total_of_type(funds', "Active") = total_of_type(funds, "Active")
    BY <2>2, SameRates
  <2>6. Filled(funds', total_delegation_cap')
    BY <2>1, <2>5 DEF Filled
  <2> QED BY <1>1, <1>3, <2>4, <2>6 DEF RewardInv
<1>4. Claimable(user_rewards', funds', claims_now)
  BY RewardFacts, ClaimsBefore, ClaimableSame
<1> QED BY <1>2, <1>3, <1>4, ClaimsAfter

(* unBond moves no active stake.                                           *)
LEMMA UnbondShares ==
    ASSUME BookInv, NEW u, Unbonds(u)
    PROVE  SameShares(funds', funds)
<1>1. PICK r, gs : Unbonded(u, r, gs)
  BY DEF Unbonds
<1>2. funds \in Seq(Item)
  BY DEF BookInv, FundsInv, Sound, Orderly
<1>3. PICK max \in Nat : max = Everything(funds)
  BY <1>2, EverythingTotal, TotalNat
<1>4. PICK S, P, f, fs :
        /\ S = OfUser(u) \cap OfType("DeferredPayment")
        /\ P = OfUser(u) \cap OfType("WithdrawOnly")
        /\ f = release(n_blocks_before_unbond, block_nonce)
        /\ fs = r.funds
  OBVIOUS
<1>5. /\ Swap(r, funds, max, S, f) /\ fs \in Seq(Item) /\ gs \in Seq(Item)
      /\ \A K : K \cap P = {} => Total(gs, K) = Total(fs, K)
      /\ funds' = save(gs)
  BY <1>1, <1>3, <1>4 DEF Unbonded, Liquidated
<1>6. SameShares(fs, funds)
  <2>1. Into("WithdrawOnly", f)
    BY <1>4 DEF Into, IsTransform, release, WithdrawOnly, Desc, FundType
  <2>2. S \subseteq OfType("DeferredPayment")
    BY <1>4
  <2>3. PICK t, q : /\ t = "DeferredPayment" /\ q = "WithdrawOnly"
                    /\ t # "Active" /\ q # "Active"
    OBVIOUS
  <2>4. r.funds \in Seq(Item)
    BY <1>4, <1>5
  <2>5. SameShares(r.funds, funds)
    BY ONLY <1>2, max \in Nat, <1>5, <2>1, <2>2, <2>3, <2>4, SwapShares
  <2> QED BY <1>4, <2>5
<1>7. SameShares(gs, fs)
  <2>1. ASSUME NEW K, K \subseteq OfType("Active")
        PROVE  Total(gs, K) = Total(fs, K)
    <3>1. K \cap P = {}
      BY <1>4, <2>1 DEF OfType
    <3> QED BY <1>5, <3>1
  <2> QED BY <1>5, <2>1 DEF SameShares
<1>8. SameShares(funds', gs)
  BY <1>5, SaveShares
<1> QED BY <1>6, <1>7, <1>8, SameSharesTransitive

(* unBond keeps the rewards covered.                                       *)
LEMMA UnbondRewards ==
    ASSUME BookInv, RewardInv, NEW u \in Users, NEW gas \in GasLimits,
           unbond_user(u, gas), UnbondLeaves(u)
    PROVE  RewardInv' /\ ClaimsSame
<1>1. UNCHANGED <<num_users, user_rewards, total_delegation_cap,
                  bootstrap_mode, service_fee, global_op, total_rewards,
                  sent_rewards>>
  BY DEF unbond_user, settings
<1>2. total_of_type(funds', "UnStaked") = total_of_type(funds, "UnStaked")
  BY DEF UnbondLeaves, L!unbond_user
<1>3. SameShares(funds', funds)
  BY UnbondShares DEF UnbondLeaves
<1> QED BY <1>1, <1>2, <1>3, SharesKept

(* dustCleanupWaitingList keeps the rewards covered when its cursor is     *)
(* checked.                                                                *)
LEMMA DustWaitingRewards ==
    ASSUME CheckedDust, BookInv, RewardInv, NEW limit \in DustLimits,
           NEW gas \in GasLimits, dust_cleanup_waiting_list(limit, gas),
           DustWaitingLeaves
    PROVE  RewardInv' /\ ClaimsSame
<1>1. funds \in Seq(Item) /\ gas \in Nat
  BY DelegationAssumption DEF BookInv, FundsInv, Sound, Orderly
<1>2. PICK f : f = to_withdraw_only
  OBVIOUS
<1>3. PICK r : r = swap_dust(funds, dust_cleanup_checkpoint, limit, "Waiting",
                             f, gas)
  OBVIOUS
<1>4. /\ funds' = save(r.funds)
      /\ owner_checked_dust("Waiting")
      /\ UNCHANGED <<num_users, user_rewards, total_delegation_cap,
                     bootstrap_mode, service_fee, global_op, total_rewards,
                     sent_rewards>>
  BY <1>2, <1>3 DEF dust_cleanup_waiting_list, settings, money,
                    to_withdraw_only
<1>5. in_source_list(funds, dust_cleanup_checkpoint, "Waiting")
  BY <1>4 DEF owner_checked_dust, in_source_list
<1>6. Target(f, "WithdrawOnly")
  BY <1>2 DEF Target, to_withdraw_only, WithdrawOnly, Desc, FundType
<1>7. PICK max \in Nat : max = Everything(funds)
  BY <1>1, EverythingTotal, TotalNat
<1>8. PICK s : /\ r.funds = s.funds
               /\ DustSwap(s, funds, max, dust_cleanup_checkpoint, "Waiting",
                           small(limit, f))
  <2>1. IsTransform(f)
    BY <1>6 DEF IsTransform, Target
  <2> QED BY <1>1, <1>3, <1>7, <2>1, DustIsSwap
<1>9. PICK g : g = small(limit, f)
  OBVIOUS
<1>10. /\ Swap(s, funds, max, OfType("Waiting"), g)
       /\ Swap(s, funds, max, Keys, g)
  BY <1>5, <1>8, <1>9 DEF DustSwap
<1>11. Into("WithdrawOnly", g) /\ s.funds \in Seq(Item)
  <2>1. PICK o \in Nat : o = 0
    OBVIOUS
  <2> QED BY <1>1, <1>6, <1>9, <1>10, <2>1, DustKeeps DEF Keeps
<1>12. SameShares(s.funds, funds)
  <2>1. PICK t, q : /\ t = "Waiting" /\ q = "WithdrawOnly"
                    /\ t # "Active" /\ q # "Active"
    OBVIOUS
  <2>2. OfType(t) \subseteq OfType(t)
    OBVIOUS
  <2>3. Swap(s, funds, max, OfType(t), g) /\ Into(q, g)
    BY <1>10, <1>11, <2>1
  <2> QED BY ONLY <1>1, max \in Nat, <1>11, <2>1, <2>2, <2>3, SwapShares
<1>13. SameShares(funds', funds)
  <2>1. SameShares(funds', s.funds)
    BY <1>4, <1>8, <1>11, SaveShares
  <2> QED BY <1>12, <2>1, SameSharesTransitive
<1>14. total_of_type(funds', "UnStaked") = total_of_type(funds, "UnStaked")
  BY DEF DustWaitingLeaves, L!dust_cleanup_waiting_list
<1> QED BY <1>4, <1>13, <1>14, SharesKept

(* The items a sweep touches belong to registered users.                   *)
LEMMA TouchedAreRegistered ==
    ASSUME NEW n, Count(n), NEW fs, NoStrangers(fs, n), NEW current_id,
           NEW limit, NEW source, NEW transform, NEW gas \in Nat, NEW r,
           r = swap_dust(fs, current_id, limit, source, transform, gas)
    PROVE  \A id \in r.touched : fs[id].user_id \in 1 .. n
<1>1. PICK path : path = dust_path(fs, current_id, source)
  OBVIOUS
<1>2. IsIds(path, fs)
  BY <1>1, DustPath DEF NoStrangers
<1>3. r.touched = { path[k] : k \in 1 .. Smaller(gas, Len(path)) }
  BY <1>1 DEF swap_dust
<1>4. ASSUME NEW k \in 1 .. Smaller(gas, Len(path))
      PROVE  k \in 1 .. Len(path)
  <2>1. Len(path) \in Nat
    BY <1>2 DEF IsIds
  <2> QED BY <2>1, <1>4 DEF Smaller
<1>5. ASSUME NEW k \in 1 .. Smaller(gas, Len(path))
      PROVE  fs[path[k]].user_id \in 1 .. n
  BY <1>2, <1>4, <1>5, LiveIsRegistered
<1> QED BY <1>3, <1>5

(* dustCleanupActive keeps the rewards covered when its cursor is checked. *)
LEMMA DustActiveRewards ==
    ASSUME CheckedDust, BookInv, RewardInv, NEW limit \in DustLimits,
           NEW gas \in GasLimits, dust_cleanup_active(limit, gas),
           BookInv', L!IInv'
    PROVE  RewardInv' /\ ClaimsSame
<1>1. funds \in Seq(Item) /\ gas \in Nat
  BY DelegationAssumption DEF BookInv, FundsInv, Sound, Orderly
<1>2. PICK f : f = to_unstaked_at_once
  OBVIOUS
<1>3. PICK r : r = swap_dust(funds, dust_cleanup_checkpoint, limit, "Active",
                             f, gas)
  OBVIOUS
<1>4. PICK swept : swept = { funds[id].user_id :
                     id \in { k \in r.touched : funds[k].balance < limit } }
  OBVIOUS
<1>5. PICK users : users = {OWNER_USER_ID} \cup swept
  OBVIOUS
<1>6. PICK rewards : rewards = compute_rewards_of(users, user_rewards, funds)
  OBVIOUS
<1>7. PICK t : t = use_waiting_to_replace_unstaked(r.funds, rewards)
  OBVIOUS
<1>8. commit_dust(t, r.next_id)
  BY <1>2, <1>3, <1>4, <1>5, <1>6, <1>7, Zenon
     DEF dust_cleanup_active, to_unstaked_at_once, users_before_dust
<1>9. /\ owner_checked_dust("Active")
      /\ ~ is_global_op_in_progress
      /\ UNCHANGED <<num_users, total_delegation_cap, service_fee,
                     global_op, total_rewards, sent_rewards>>
  BY DEF dust_cleanup_active, money
<1>10. /\ t.ok /\ funds' = save(t.funds) /\ bootstrap_mode' = t.bootstrap
       /\ user_rewards' = t.rewards
  BY <1>8 DEF commit_dust
<1>11. in_source_list(funds, dust_cleanup_checkpoint, "Active")
  BY <1>9 DEF owner_checked_dust, in_source_list
<1>12. Target(f, "UnStaked")
  BY <1>2 DEF Target, to_unstaked_at_once, UnStaked, Desc, FundType
<1>13. IsTransform(f)
  BY <1>12 DEF IsTransform, Target
<1>14. PICK max \in Nat : max = Everything(funds)
  BY <1>1, EverythingTotal, TotalNat
<1>15. PICK s : /\ r.funds = s.funds
                /\ DustSwap(s, funds, max, dust_cleanup_checkpoint, "Active",
                            small(limit, f))
  BY <1>1, <1>3, <1>13, <1>14, DustIsSwap
<1>16. PICK g : g = small(limit, f)
  OBVIOUS
<1>17. /\ Swap(s, funds, max, OfType("Active"), g)
       /\ Swap(s, funds, max, Keys, g)
  BY <1>11, <1>15, <1>16 DEF DustSwap
<1>18. Into("UnStaked", g) /\ Keeps(s.funds, funds, 0)
  <2>1. PICK o \in Nat : o = 0
    OBVIOUS
  <2> QED BY <1>1, <1>12, <1>16, <1>17, <2>1, DustKeeps
<1>19. PICK gs \in Seq(Item) : gs = s.funds
  BY <1>18 DEF Keeps
<1>20. Numbers /\ Owing(user_rewards, funds, num_users)
       /\ NoStrangers(funds, num_users) /\ Count(num_users)
  BY <1>9, RewardFacts DEF RewardInv, Swapping
<1>21. NoStrangers(gs, num_users)
  BY <1>18, <1>19, <1>20, UserKinds DEF Keeps, NoStrangers
<1>22. SharesOutside(gs, funds, users)
  <2>1. Leaves("Active", small(limit, f))
    BY <1>2 DEF Leaves, small, to_unstaked_at_once, UnStaked, NoDescription
  <2>2. ASSUME NEW v, v \notin users
        PROVE  Total(gs, OfUser(v) \cap OfType("Active"))
                 = Total(funds, OfUser(v) \cap OfType("Active"))
    <3>1. PICK K : K = OfUser(v) \cap OfType("Active")
      OBVIOUS
    <3>2. /\ K \subseteq OfUser(v)
          /\ \A id \in r.touched :
                funds[id].balance < limit => funds[id].user_id # v
      BY <1>4, <1>5, <2>2, <3>1
    <3>3. Total(r.funds, K) = Total(funds, K)
      BY ONLY <1>1, <1>3, <1>11, <1>13, <2>1, <3>2, DustSpares, SMTT(30)
    <3> QED BY <1>15, <1>19, <3>1, <3>3
  <2> QED BY <2>2 DEF SharesOutside
<1>23. Within(gs, total_delegation_cap, service_fee)
  <2>1. PICK w, a, u, d, x \in Nat : TypeTotals(funds, w, a, u, d, x)
    BY <1>1, HasTotals
  <2>2. PICK ty, qy : ty = "Active" /\ qy = "UnStaked" /\ qy # ty
    OBVIOUS
  <2>3. Shift(s, funds, max, OfType(ty), ty, qy)
    BY <1>1, <1>17, <1>18, <2>2, SwapIsShift
  <2>4. PICK n \in Nat : n = max - s.left
    BY <2>3 DEF Shift
  <2>5. TypeTotals(gs, w, a - n, u + n, d, x)
    BY <1>19, <2>1, <2>2, <2>3, <2>4, ActiveToUnstakedTotals
  <2>6. a <= total_delegation_cap /\ total_delegation_cap \in Nat
    BY <1>20, <2>1 DEF Owing, Within, TypeTotals
  <2>7. a - n <= total_delegation_cap
    BY <2>6
  <2> QED BY <1>20, <2>5, <2>7 DEF Owing, Within, TypeTotals
<1>24. users \subseteq 1 .. num_users /\ OWNER_USER_ID \in users
  <2>1. \A id \in r.touched : funds[id].user_id \in 1 .. num_users
    BY <1>1, <1>3, <1>20, TouchedAreRegistered
  <2>2. swept \subseteq 1 .. num_users
    BY <1>4, <2>1
  <2>3. 1 \in 1 .. num_users
    BY <1>20, CountFacts
  <2> QED BY <1>5, <2>2, <2>3 DEF OWNER_USER_ID
<1>25. Owing(rewards, gs, num_users)
  BY <1>6, <1>20, <1>22, <1>23, <1>24, OwingBrought
<1>26. t = use_waiting_to_replace_unstaked(gs, rewards)
  BY <1>7, <1>15, <1>19
<1>27. Owing(rewards, gs, num_users') /\ NoStrangers(gs, num_users')
  BY <1>9, <1>21, <1>25
<1>28. Claimable(rewards, gs, claims_now)
  <2>1. total_rewards \in Nat /\ IsRewards(user_rewards, total_rewards)
    BY <1>20 DEF Numbers, RewardNumbers, Owing
  <2> QED BY <1>1, <1>6, <1>22, <1>24, <2>1, ClaimsBefore, ClaimableBrought
<1> QED BY <1>9, <1>10, <1>26, <1>27, <1>28, CommitOwes

(* What claim_rewards pays, and what it leaves.                            *)
Claims(u, amount) ==
    /\ amount \in Nat /\ amount + sent_rewards <= total_rewards
    /\ amount <= sc_balance
    /\ sc_balance' = sc_balance - amount
    /\ sent_rewards' = sent_rewards + amount
    /\ IsRewards(user_rewards', total_rewards)
    /\ \A w \in Users : w # u => user_rewards'[w] = user_rewards[w]
    /\ Covered(user_rewards', funds, num_users, total_delegation_cap,
               service_fee, total_rewards, sent_rewards')

(* claimRewards pays what is owed, and the balance covers it.              *)
LEMMA ClaimPays ==
    ASSUME BookInv, RewardInv, NEW u \in Users, claim_rewards(u)
    PROVE  \E amount : Claims(u, amount)
<1>1. /\ ~ is_global_op_in_progress /\ u <= num_users
  BY DEF claim_rewards
<1>2. /\ Numbers /\ Owing(user_rewards, funds, num_users) /\ Count(num_users)
      /\ total_rewards \in Nat
  BY <1>1, RewardFacts DEF RewardInv, Swapping
<1>3. PICK data : data = load_updated_user_rewards(u, user_rewards[u], funds)
  OBVIOUS
<1>4. PICK amount : amount = data.unclaimed_rewards
  OBVIOUS
<1>5. PICK v : v = compute_rewards_of({u}, user_rewards, funds)
  OBVIOUS
<1>6. /\ RewardNumbers /\ Within(funds, total_delegation_cap, service_fee)
      /\ IsRewards(user_rewards, total_rewards)
      /\ covered_now(user_rewards, funds, num_users) /\ sent_rewards \in Nat
  BY <1>2 DEF Numbers, Owing
<1>7. Brought(v, {u}, user_rewards, funds)
  BY <1>5, <1>6, ComputeBrings
<1>8. covered_now(v, funds, num_users) /\ IsRewards(v, total_rewards)
  BY <1>2, <1>6, <1>7, BroughtCovers DEF Brought
<1>9. v[u] = data /\ \A w \in Users : w # u => v[w] = user_rewards[w]
  BY <1>3, <1>5 DEF compute_rewards_of
<1>10. /\ data.reward_checkpoint = total_rewards /\ amount \in Nat
       /\ IsData(data, total_rewards)
  BY <1>4, <1>7, <1>9 DEF Brought, UpToDate, IsData
<1>11. u \in 1 .. num_users
  <2>1. u \in Nat /\ u >= 1 /\ num_users \in Nat
    BY <1>2, CountFacts, DelegationAssumption DEF Users
  <2> QED BY <1>1, <2>1
<1>12. amount + sent_rewards <= total_rewards
  <2>1. PICK cap, fee, T, S, n : /\ cap = total_delegation_cap
                                 /\ fee = service_fee /\ T = total_rewards
                                 /\ S = sent_rewards /\ n = num_users
    OBVIOUS
  <2>2. unclaimed_to(v, n) + S <= T
    BY <1>2, <1>6, <1>8, <2>1, CoveredBound DEF covered_now
  <2>3. /\ \A k \in 1 .. n : unclaimed(v)[k] \in Nat
        /\ unclaimed(v)[u] = amount /\ n \in Nat /\ u \in 1 .. n
        /\ unclaimed_to(v, n) = SumTo(unclaimed(v), n)
        /\ SumTo(unclaimed(v), n) \in Nat
    BY <1>2, <1>4, <1>8, <1>9, <1>11, <2>1, UnclaimedNat, CountFacts
  <2>4. PICK g : g = unclaimed(v)
    OBVIOUS
  <2>5. g[u] <= SumTo(g, n)
    BY <2>3, <2>4, SumMember
  <2> QED BY <1>2, <1>6, <1>10, <2>1, <2>2, <2>3, <2>4, <2>5
<1>13. /\ sc_balance' = sc_balance - amount /\ amount <= sc_balance
       /\ sent_rewards' = sent_rewards + amount
       /\ user_rewards' = [user_rewards EXCEPT ![u] =
                              [data EXCEPT !.unclaimed_rewards = 0]]
  BY <1>3, <1>4 DEF claim_rewards
<1>14. /\ user_rewards'[u] = [data EXCEPT !.unclaimed_rewards = 0]
       /\ \A w \in Users : w # u => user_rewards'[w] = user_rewards[w]
       /\ user_rewards' = [w \in Users |-> user_rewards'[w]]
  BY <1>6, <1>13 DEF IsRewards
<1>15. /\ user_rewards'[u].unclaimed_rewards = 0
       /\ user_rewards'[u].reward_checkpoint = total_rewards
       /\ IsData(user_rewards'[u], total_rewards)
  BY <1>2, <1>10, <1>14 DEF IsData
<1>16. IsRewards(user_rewards', total_rewards)
  BY <1>6, <1>14, <1>15 DEF IsRewards
<1>17. \A w \in Users : w # u => user_rewards'[w] = v[w]
  BY <1>9, <1>14
<1>18. Covered(user_rewards', funds, num_users, total_delegation_cap,
               service_fee, total_rewards, sent_rewards + amount)
  <2>1. PICK cap, fee, T, S, n, w :
          /\ cap = total_delegation_cap /\ fee = service_fee
          /\ T = total_rewards /\ S = sent_rewards /\ n = num_users
          /\ w = user_rewards'
    OBVIOUS
  <2>2. /\ Within(funds, cap, fee) /\ T \in Nat /\ S \in Nat /\ Count(n)
        /\ IsRewards(v, T) /\ Covered(v, funds, n, cap, fee, T, S)
        /\ u \in 1 .. n /\ v[u].reward_checkpoint = T
        /\ amount = v[u].unclaimed_rewards
        /\ IsRewards(w, T) /\ w[u].unclaimed_rewards = 0
        /\ w[u].reward_checkpoint = T
        /\ \A x \in Users : x # u => w[x] = v[x]
    BY <1>2, <1>4, <1>6, <1>8, <1>9, <1>10, <1>11, <1>15, <1>16, <1>17, <2>1
       DEF covered_now
  <2>3. Covered(w, funds, n, cap, fee, T, S + amount)
    BY ONLY <2>2, ClaimCovers
  <2> QED BY <2>1, <2>3
<1>19. Claims(u, amount)
  BY <1>10, <1>12, <1>13, <1>14, <1>16, <1>18 DEF Claims
<1> QED BY <1>19

(* claimRewards keeps the rewards covered.                                 *)
LEMMA ClaimRewards ==
    ASSUME BookInv, RewardInv, BookInv', NEW u \in Users, claim_rewards(u)
    PROVE  RewardInv' /\ NeverLost
<1>1. PICK amount : Claims(u, amount)
  BY ClaimPays
<1>2. /\ UNCHANGED <<num_users, funds, total_delegation_cap, bootstrap_mode,
                     service_fee, global_op, total_rewards>>
      /\ ~ is_global_op_in_progress /\ u <= num_users
  BY DEF claim_rewards, settings
<1>3. /\ Owing(user_rewards, funds, num_users)
      /\ Filled(funds, total_delegation_cap) /\ sent_rewards \in Nat
      /\ total_rewards \in Nat
  BY <1>2, RewardFacts DEF RewardInv, Swapping, RewardBasics
<1>4. sent_rewards' \in Nat
  BY <1>1, <1>3 DEF Claims
<1>5. RewardBasics'
  BY <1>2, <1>4 DEF RewardInv, RewardBasics
<1>6. Fresh(user_rewards', num_users)
  <2>1. ASSUME NEW w \in Users, w > num_users PROVE w # u
    <3>1. w \in Nat /\ u \in Nat /\ num_users \in Nat
      BY BasicFacts DEF BookInv
    <3> QED BY <1>2, <2>1, <3>1
  <2> QED BY <1>1, <1>3, <2>1 DEF Claims, Owing, Fresh
<1>7. Owing(user_rewards, funds, num_users)'
  BY <1>1, <1>2, <1>3, <1>6 DEF Claims, Owing, covered_now
<1>8. global_op' = NoGlobalOp /\ ~ Swapping'
  BY <1>2 DEF BookInv, Basics, OpInv, is_global_op_in_progress, Swapping
<1>9. RewardsStored'
  <2>1. Counting(global_op', user_rewards', total_rewards')
    BY <1>2, <1>3, <1>8, NoOpCounts
  <2> QED BY <2>1, <1>7 DEF Owing, RewardsStored
<1>10. Filled(funds', total_delegation_cap')
  BY <1>2, <1>3
<1>11. RewardInv'
  BY <1>5, <1>7, <1>8, <1>9, <1>10 DEF RewardInv
<1>12. ASSUME NEW w \in Users \ {u}
       PROVE  /\ get_claimable_rewards(w)' = get_claimable_rewards(w)
              /\ get_claimable_rewards(w) \in Nat
  <2>1. user_rewards'[w] = user_rewards[w]
    BY <1>1 DEF Claims
  <2>2. get_claimable_rewards(w)' = get_claimable_rewards(w)
    BY <1>2, <2>1 DEF get_claimable_rewards, load_updated_user_rewards,
       split_service_reward
  <2> QED BY <1>2, <2>2, ClaimBounds DEF ClaimsBounded, Swapping
<1>13. sent_rewards' = sent_rewards + get_claimable_rewards(u)
  BY DEF claim_rewards, get_claimable_rewards
<1>14. \A w \in Users : /\ secured_rewards(w) = get_claimable_rewards(w)
                        /\ secured_rewards(w)' = get_claimable_rewards(w)'
  BY <1>2, <1>8, SecuredBefore, SecuredAfter DEF Swapping
<1>15. sent_rewards' = sent_rewards + secured_rewards(u)
  BY <1>13, <1>14
<1>16. \A w \in Users \ {u} : secured_rewards(w)' = secured_rewards(w)
                             /\ secured_rewards(w) \in Nat
  BY <1>12, <1>14
<1>17. \A w \in Users \ {u} : /\ secured_rewards(w)' >= secured_rewards(w)
                             /\ ~ (secured_rewards(w)' < secured_rewards(w))
  BY <1>16
<1> QED BY <1>11, <1>15, <1>17 DEF NeverLost

(* Checkpoints stay in range when rewards arrive.                          *)
LEMMA MoreRewards ==
    ASSUME NEW rewards, NEW T \in Nat, NEW x \in Nat, IsRewards(rewards, T)
    PROVE  IsRewards(rewards, T + x)
<1>1. ASSUME NEW u \in Users PROVE IsData(rewards[u], T + x)
  <2>1. IsData(rewards[u], T)
    BY DEF IsRewards
  <2>2. rewards[u].reward_checkpoint \in 0 .. T
    BY <2>1 DEF IsData
  <2>3. rewards[u].reward_checkpoint \in 0 .. T + x
    BY <2>2
  <2> QED BY <2>1, <2>3 DEF IsData
<1> QED BY <1>1 DEF IsRewards

(* The share of new rewards n that a stake earns, and the service fee.     *)
share_of(n, cap, fee, stake) ==
    IF stake > 0
    THEN ((((PERCENTAGE_DENOMINATOR - fee) * n) \div PERCENTAGE_DENOMINATOR)
            * stake) \div cap
    ELSE 0

fee_of(n, fee) == (fee * n) \div PERCENTAGE_DENOMINATOR

LEMMA ShareGrows ==
    ASSUME NEW n \in Nat, NEW m \in Nat, n <= m, NEW cap \in Nat,
           NEW fee \in 0 .. PERCENTAGE_DENOMINATOR, NEW stake \in Nat,
           stake <= cap
    PROVE  /\ share_of(n, cap, fee, stake) \in Nat
           /\ share_of(m, cap, fee, stake) \in Nat
           /\ share_of(n, cap, fee, stake) <= share_of(m, cap, fee, stake)
<1>1. PICK D, g : D = PERCENTAGE_DENOMINATOR /\ g = D - fee
  OBVIOUS
<1>2. D \in Nat /\ D > 0 /\ g \in Nat
  BY <1>1 DEF PERCENTAGE_DENOMINATOR
<1>3. PICK x, y : x = g * n /\ y = g * m
  OBVIOUS
<1>4. x \in Nat /\ y \in Nat /\ x <= y
  BY <1>2, <1>3, TimesNat, TimesMonotone
<1>5. PICK p, q : p = x \div D /\ q = y \div D
  OBVIOUS
<1>6. p \in Nat /\ q \in Nat /\ p <= q
  BY <1>2, <1>4, <1>5, DivFloor, DivMonotone
<1>7. PICK a, b : a = p * stake /\ b = q * stake
  OBVIOUS
<1>8. a \in Nat /\ b \in Nat /\ a <= b
  BY <1>6, <1>7, TimesNat, TimesMonotone
<1>9. CASE stake > 0
  <2>1. cap > 0
    BY <1>9
  <2>2. /\ share_of(n, cap, fee, stake) = a \div cap
        /\ share_of(m, cap, fee, stake) = b \div cap
    BY <1>1, <1>3, <1>5, <1>7, <1>9 DEF share_of
  <2>3. /\ a \div cap \in Nat /\ b \div cap \in Nat
        /\ a \div cap <= b \div cap
    BY <1>8, <2>1, DivFloor, DivMonotone
  <2> QED BY <2>2, <2>3
<1>10. CASE ~ (stake > 0)
  BY <1>10 DEF share_of
<1> QED BY <1>9, <1>10

LEMMA FeeGrows ==
    ASSUME NEW n \in Nat, NEW m \in Nat, n <= m, NEW fee \in Nat
    PROVE  fee_of(n, fee) \in Nat /\ fee_of(n, fee) <= fee_of(m, fee)
<1>1. PICK D, x, y : /\ D = PERCENTAGE_DENOMINATOR
                     /\ x = fee * n /\ y = fee * m
  OBVIOUS
<1>2. D \in Nat /\ D > 0 /\ x \in Nat /\ y \in Nat /\ x <= y
  BY <1>1, TimesNat, TimesMonotone DEF PERCENTAGE_DENOMINATOR
<1>3. x \div D \in Nat /\ x \div D <= y \div D
  BY <1>2, DivFloor, DivMonotone
<1> QED BY <1>1, <1>3 DEF fee_of

(* The claim of a user with un unclaimed rewards on n new ones.            *)
claim_of(u, un, fs, cap, fee, n) ==
    IF n = 0 THEN un
    ELSE un + share_of(n, cap, fee, get_user_stake_of_type(fs, u, "Active"))
            + IF u = OWNER_USER_ID
              THEN fee_of(n, fee)
                     + share_of(n, cap, fee, cap - total_of_type(fs, "Active"))
              ELSE 0

LEMMA ClaimGrows ==
    ASSUME NEW n \in Nat, NEW m \in Nat, n <= m, NEW u, NEW un \in Nat,
           NEW fs, NEW cap \in Nat, NEW fee, Within(fs, cap, fee)
    PROVE  /\ claim_of(u, un, fs, cap, fee, m) \in Nat
           /\ claim_of(u, un, fs, cap, fee, n)
                <= claim_of(u, un, fs, cap, fee, m)
<1>1. PICK a, t, r : /\ a = get_user_stake_of_type(fs, u, "Active")
                     /\ t = total_of_type(fs, "Active") /\ r = cap - t
  OBVIOUS
<1>2. /\ a \in Nat /\ r \in Nat /\ a <= cap /\ r <= cap
      /\ fee \in 0 .. PERCENTAGE_DENOMINATOR /\ fee \in Nat
  <2>1. fs \in Seq(Item) /\ fee \in 0 .. PERCENTAGE_DENOMINATOR
    BY DEF Within
  <2>2. /\ a \in Nat /\ t \in Nat
        /\ a = Total(fs, OfUser(u) \cap OfType("Active"))
        /\ t = Total(fs, OfType("Active"))
    BY <1>1, <2>1, UserTypeTotal, TypeTotal
  <2>3. a <= t /\ t <= cap
    BY <1>1, <2>1, <2>2, TotalSubset DEF Within
  <2> QED BY <1>1, <2>1, <2>2, <2>3 DEF PERCENTAGE_DENOMINATOR
<1>3. PICK p, q, x, y, e, f :
        /\ p = share_of(n, cap, fee, a) /\ q = share_of(m, cap, fee, a)
        /\ x = share_of(n, cap, fee, r) /\ y = share_of(m, cap, fee, r)
        /\ e = fee_of(n, fee) /\ f = fee_of(m, fee)
  OBVIOUS
<1>4. /\ p \in Nat /\ q \in Nat /\ p <= q
      /\ x \in Nat /\ y \in Nat /\ x <= y
  BY <1>2, <1>3, ShareGrows
<1>5. e \in Nat /\ f \in Nat /\ e <= f
  <2>1. m <= m
    OBVIOUS
  <2> QED BY <1>2, <1>3, <2>1, FeeGrows
<1>6. PICK c, d : /\ c = IF u = OWNER_USER_ID THEN e + x ELSE 0
                  /\ d = IF u = OWNER_USER_ID THEN f + y ELSE 0
  OBVIOUS
<1>7. c \in Nat /\ d \in Nat /\ c <= d
  BY <1>4, <1>5, <1>6
<1>8. /\ claim_of(u, un, fs, cap, fee, n) = IF n = 0 THEN un ELSE un + p + c
      /\ claim_of(u, un, fs, cap, fee, m) = IF m = 0 THEN un ELSE un + q + d
  BY <1>1, <1>3, <1>6 DEF claim_of
<1> QED BY <1>4, <1>7, <1>8

(* What somebody may claim never shrinks when rewards arrive.              *)
LEMMA ArriveClaims ==
    ASSUME BookInv, RewardInv, NEW amount \in Nat,
           UNCHANGED <<funds, user_rewards, total_delegation_cap, service_fee,
                       global_op>>,
           total_rewards' = total_rewards + amount
    PROVE  NeverLost
<1>1. CASE ~ Swapping
  <2>1. ASSUME NEW u \in Users
        PROVE  /\ secured_rewards(u)' \in Nat
               /\ secured_rewards(u)' >= secured_rewards(u)
    <3>1. PICK un, c, n, m : /\ un = user_rewards[u].unclaimed_rewards
                             /\ c = user_rewards[u].reward_checkpoint
                             /\ n = total_rewards - c
                             /\ m = total_rewards' - c
      OBVIOUS
    <3>2. /\ IsData(user_rewards[u], total_rewards) /\ total_rewards \in Nat
          /\ total_delegation_cap \in Nat
          /\ Within(funds, total_delegation_cap, service_fee)
      BY <1>1, RewardFacts
         DEF RewardInv, Owing, IsRewards, Numbers, RewardNumbers
    <3>3. un \in Nat /\ n \in Nat /\ m \in Nat /\ n <= m
      <4>1. c \in 0 .. total_rewards /\ un \in Nat
        BY <3>1, <3>2 DEF IsData
      <4> QED BY <3>1, <3>2, <4>1
    <3>4. PICK x, y :
            /\ x = claim_of(u, un, funds, total_delegation_cap, service_fee, n)
            /\ y = claim_of(u, un, funds, total_delegation_cap, service_fee, m)
      OBVIOUS
    <3>5. y \in Nat /\ x <= y
      BY <3>2, <3>3, <3>4, ClaimGrows
    <3>6. get_claimable_rewards(u) = x
      BY <3>1, <3>4 DEF get_claimable_rewards, load_updated_user_rewards,
         split_service_reward, claim_of, share_of, fee_of
    <3>7. get_claimable_rewards(u)' = y
      BY <3>1, <3>4 DEF get_claimable_rewards, load_updated_user_rewards,
         split_service_reward, claim_of, share_of, fee_of
    <3>8. x \in Nat
      BY <1>1, <3>6, ClaimBounds DEF ClaimsBounded
    <3>9. secured_rewards(u) = x /\ secured_rewards(u)' = y
      <4>1. ~ Swapping'
        BY <1>1 DEF Swapping, is_global_op_in_progress
      <4> QED BY <1>1, <3>6, <3>7, <4>1, SecuredBefore, SecuredAfter
    <3>10. y >= x
      BY <3>5, <3>8
    <3> QED BY <3>5, <3>9, <3>10
  <2> QED BY <2>1, KeptNotLost
<1>2. CASE Swapping
  <2>1. Swapping'
    BY <1>2 DEF Swapping, is_global_op_in_progress
  <2>2. \A u \in Users : /\ secured_rewards(u)' = secured_rewards(u)
                        /\ secured_rewards(u) \in Nat
    BY <1>2, <2>1, SecuredBefore, SecuredAfter, SecuredBounds
       DEF SecuredBounded
  <2>3. \A u \in Users : secured_rewards(u)' >= secured_rewards(u)
    BY <2>2
  <2> QED BY <2>2, <2>3, KeptNotLost
<1> QED BY <1>1, <1>2

(* Rewards that arrive are owed to the users at their rates and to nobody  *)
(* twice.                                                                  *)
LEMMA ArriveRewards ==
    ASSUME BookInv, RewardInv, NEW amount \in Rewards, RewardsArrive(amount)
    PROVE  RewardInv' /\ NeverLost
<1>1. /\ UNCHANGED <<num_users, funds, user_rewards, total_delegation_cap,
                     bootstrap_mode, service_fee, global_op, sent_rewards>>
      /\ total_rewards' = total_rewards + amount
      /\ total_rewards + amount <= RewardBound /\ ~ bootstrap_mode
  BY DEF RewardsArrive, accounts, settings
<1>2. /\ amount \in Nat /\ total_rewards \in Nat /\ RewardBound \in Nat
      /\ Numbers /\ Count(num_users)
  BY RewardFacts, DelegationAssumption
<1>3. total_rewards' \in 0 .. RewardBound /\ total_rewards <= total_rewards'
  BY <1>1, <1>2
<1>4. RewardBasics'
  BY <1>1, <1>3 DEF RewardInv, RewardBasics
<1>5. RewardsStored'
  <2>1. IsRewards(user_rewards, total_rewards')
    BY <1>1, <1>2, MoreRewards DEF RewardInv, RewardsStored
  <2>2. PICK c : c = global_op.rewards_checkpoint
    OBVIOUS
  <2>3. c \in 0 .. total_rewards
    BY <2>2 DEF RewardInv, RewardsStored, Counting
  <2>4. c \in 0 .. total_rewards'
    BY <1>1, <1>2, <2>3
  <2>5. Counting(global_op', user_rewards', total_rewards')
    BY <1>1, <2>2, <2>4 DEF RewardInv, RewardsStored, Counting
  <2> QED BY <1>1, <2>1, <2>5 DEF RewardInv, RewardsStored
<1>6. Swapping' <=> Swapping
  BY <1>1 DEF Swapping, is_global_op_in_progress
<1>7. ASSUME Swapping PROVE RewardInv'
  <2>1. PICK t \in 0 .. total_rewards :
          SettledAt(t, user_rewards, num_users, sent_rewards)
    BY <1>7 DEF RewardInv, Settled
  <2>2. t \in 0 .. total_rewards'
    BY <1>1, <1>2
  <2>3. Settled(user_rewards', num_users', total_rewards', sent_rewards')
    BY <1>1, <2>1, <2>2 DEF Settled
  <2> QED BY <1>4, <1>5, <1>6, <1>7, <2>3 DEF RewardInv
<1>8. ASSUME ~ Swapping PROVE RewardInv'
  <2>1. /\ Owing(user_rewards, funds, num_users)
        /\ Filled(funds, total_delegation_cap)
    BY <1>8 DEF RewardInv
  <2>2. PICK cap, fee, T, S, n :
          /\ cap = total_delegation_cap /\ fee = service_fee
          /\ T = total_rewards /\ S = sent_rewards /\ n = num_users
    OBVIOUS
  <2>3. /\ Within(funds, cap, fee) /\ T \in Nat /\ S \in Nat /\ Count(n)
        /\ IsRewards(user_rewards, T)
        /\ Covered(user_rewards, funds, n, cap, fee, T, S)
    BY <1>2, <2>1, <2>2 DEF Numbers, Owing, covered_now
  <2>4. Covered(user_rewards, funds, n, cap, fee, T + amount, S)
    BY <1>2, <2>3, ArriveCovers
  <2>5. Owing(user_rewards, funds, num_users)'
    BY <1>1, <1>5, <2>1, <2>2, <2>4 DEF Owing, covered_now, RewardsStored
  <2> QED BY <1>1, <1>4, <1>5, <1>6, <1>8, <2>1, <2>5 DEF RewardInv
<1>9. NeverLost
  BY <1>1, <1>2, ArriveClaims
<1> QED BY <1>7, <1>8, <1>9

(* A step that only the clock, the switches, the limits or the EGLD see.   *)
LEMMA StutterRewards ==
    ASSUME BookInv, RewardInv,
           UNCHANGED <<num_users, funds, user_rewards, total_delegation_cap,
                       bootstrap_mode, service_fee, global_op, total_rewards,
                       sent_rewards>>
    PROVE  RewardInv' /\ NeverLost
<1>1. SameShares(funds, funds)
  BY RewardFacts DEF SameShares
<1>2. SameShares(funds', funds)
  BY <1>1
<1> QED BY <1>2, SharesKept, SameNotLost

(* The cap is recomputed only if it is zero and nothing is held.           *)
LEMMA UpgradeRewards ==
    ASSUME BookInv, RewardInv, upgrade
    PROVE  RewardInv' /\ NeverLost
<1>1. /\ UNCHANGED <<num_users, funds, user_rewards, bootstrap_mode,
                     service_fee, global_op, total_rewards, sent_rewards>>
      /\ total_delegation_cap' = cap_if_necessary(total_delegation_cap, funds)
  BY DEF upgrade, accounts, money
<1>2. CASE Swapping
  <2>1. Swapping' /\ RewardBasics' /\ RewardsStored'
    BY <1>1, <1>2 DEF RewardInv, RewardBasics, RewardsStored, Swapping,
         is_global_op_in_progress
  <2>2. NeverLost
    <3>1. \A u \in Users : /\ secured_rewards(u)' = secured_rewards(u)
                          /\ secured_rewards(u) \in Nat
      BY <1>1, <1>2, <2>1, SecuredBefore, SecuredAfter, SecuredBounds
         DEF SecuredBounded
    <3>2. \A u \in Users : secured_rewards(u)' >= secured_rewards(u)
      BY <3>1
    <3> QED BY <3>1, <3>2, KeptNotLost
  <2> QED BY <1>1, <1>2, <2>1, <2>2 DEF RewardInv
<1>3. CASE ~ Swapping
  <2>1. /\ Filled(funds, total_delegation_cap) /\ funds \in Seq(Item)
    BY <1>3, RewardFacts DEF RewardInv
  <2>2. PICK w, a, u, d, x \in Nat : TypeTotals(funds, w, a, u, d, x)
    BY <2>1, HasTotals
  <2>3. total_delegation_cap = 0 => a + u = total_delegation_cap
    BY <2>1, <2>2 DEF Filled, TypeTotals
  <2>4. total_delegation_cap' = total_delegation_cap
    BY <1>1, <2>2, <2>3 DEF cap_if_necessary, TypeTotals
  <2> QED BY <1>1, <2>4, StutterRewards
<1> QED BY <1>2, <1>3

(* The endpoints that leave the items alone keep the rewards covered.      *)
LEMMA QuietRewards ==
    ASSUME BookInv, RewardInv, BookInv', QuietNext \/ UNCHANGED vars
    PROVE  RewardInv' /\ NeverLost
<1>1. CASE \E u \in Users : claim_rewards(u)
  BY <1>1, ClaimRewards
<1>2. CASE \E amount \in MinimumStakes : set_minimum_stake_endpoint(amount)
  BY <1>2, StutterRewards DEF set_minimum_stake_endpoint, accounts, money
<1>3. CASE \E n \in UnBondPeriods : set_n_blocks_before_unbond_endpoint(n)
  BY <1>3, StutterRewards DEF set_n_blocks_before_unbond_endpoint, accounts,
     money
<1>4. CASE \E name \in Switches : OwnerSwitches(name)
  BY <1>4, StutterRewards DEF OwnerSwitches, accounts, settings, money
<1>5. CASE \E amount \in NodeStakes : stake_nodes(amount)
  BY <1>5, StutterRewards DEF stake_nodes, accounts, settings
<1>6. CASE upgrade
  BY <1>6, UpgradeRewards
<1>7. CASE AuctionPaysBack
  BY <1>7, StutterRewards DEF AuctionPaysBack, accounts, settings
<1>8. CASE \E amount \in Rewards : RewardsArrive(amount)
  BY <1>8, ArriveRewards
<1>9. CASE NextBlock
  BY <1>9, StutterRewards DEF NextBlock, accounts, settings, money
<1>10. CASE UNCHANGED vars
  BY <1>10, StutterRewards DEF vars, accounts, settings, money
<1> QED BY <1>1, <1>2, <1>3, <1>4, <1>5, <1>6, <1>7, <1>8, <1>9, <1>10
        DEF QuietNext

(* The unclaimed rewards of the first k users.                             *)
LEMMA UnclaimedUpTo ==
    ASSUME NEW rewards, NEW T, IsRewards(rewards, T), NEW k \in Nat,
           k <= NumUsers
    PROVE  /\ unclaimed_to(rewards, k) \in Nat
           /\ unclaimed_to(rewards, k) = SumTo(unclaimed(rewards), k)
           /\ \A u \in 1 .. k :
                 /\ u \in Users /\ unclaimed(rewards)[u] \in Nat
                 /\ unclaimed(rewards)[u] = rewards[u].unclaimed_rewards
<1>1. \A u \in 1 .. k :
         /\ u \in Users /\ unclaimed(rewards)[u] \in Nat
         /\ unclaimed(rewards)[u] = rewards[u].unclaimed_rewards
  BY DelegationAssumption DEF Users, IsRewards, IsData, unclaimed
<1>2. unclaimed_to(rewards, k) = SumTo(unclaimed(rewards), k)
  BY DEF unclaimed_to, unclaimed
<1>3. PICK g : g = unclaimed(rewards)
  OBVIOUS
<1>4. SumTo(g, k) \in Nat
  BY <1>1, <1>3, SumNat
<1> QED BY <1>1, <1>2, <1>3, <1>4

(* Equal unclaimed rewards have equal sums.                                *)
LEMMA UnclaimedSame ==
    ASSUME NEW rewards, NEW v, NEW T, IsRewards(rewards, T), IsRewards(v, T),
           NEW k \in Nat, k <= NumUsers,
           \A u \in 1 .. k : v[u].unclaimed_rewards
                                = rewards[u].unclaimed_rewards
    PROVE  unclaimed_to(v, k) = unclaimed_to(rewards, k)
<1>1. PICK f, g : f = unclaimed(rewards) /\ g = unclaimed(v)
  OBVIOUS
<1>2. /\ unclaimed_to(rewards, k) = SumTo(f, k)
      /\ unclaimed_to(v, k) = SumTo(g, k)
      /\ \A u \in 1 .. k : g[u] = f[u]
  BY <1>1, UnclaimedUpTo
<1>3. SumTo(g, k) = SumTo(f, k)
  BY <1>2, SumSame
<1> QED BY <1>2, <1>3

(* Computing rewards leaves every claim as it is.                          *)
LEMMA ClaimableComputed ==
    ASSUME total_rewards \in Nat, NEW rewards, NEW fs,
           IsRewards(rewards, total_rewards), NEW claims,
           Claimable(rewards, fs, claims), NEW users, NEW v,
           v = compute_rewards_of(users, rewards, fs)
    PROVE  Claimable(v, fs, claims)
<1>1. ASSUME NEW u \in Users PROVE claim_now(u, v[u], fs) = claims[u]
  <2>1. IsData(rewards[u], total_rewards)
        /\ claim_now(u, rewards[u], fs) = claims[u]
    BY DEF IsRewards, Claimable
  <2>2. CASE u \in users
    <3>1. v[u] = load_updated_user_rewards(u, rewards[u], fs)
      BY <2>2 DEF compute_rewards_of
    <3> QED BY <2>1, <3>1, ClaimComputed
  <2>3. CASE u \notin users
    BY <2>1, <2>3 DEF compute_rewards_of
  <2> QED BY <2>2, <2>3
<1> QED BY <1>1 DEF Claimable

(* Once everybody is computed all claims are stored.                       *)
LEMMA AllComputedPromised ==
    ASSUME Numbers, NEW rewards, NEW fs, NEW n, Owing(rewards, fs, n),
           NoStrangers(fs, n), NEW claims, Claimable(rewards, fs, claims),
           \A u \in 1 .. n : rewards[u].reward_checkpoint = total_rewards
    PROVE  \A u \in Users : /\ rewards[u].unclaimed_rewards = claims[u]
                             /\ rewards[u].unclaimed_rewards \in Nat
<1>1. /\ total_rewards \in Nat /\ n \in Nat /\ 1 <= n
      /\ fs \in Seq(Item) /\ Fresh(rewards, n)
      /\ IsRewards(rewards, total_rewards)
  BY DEF Numbers, RewardNumbers, Owing, Count, Within
<1>2. ASSUME NEW u \in Users
      PROVE  /\ rewards[u].unclaimed_rewards = claims[u]
             /\ rewards[u].unclaimed_rewards \in Nat
  <2>1. /\ u \in Nat /\ 1 <= u /\ claim_now(u, rewards[u], fs) = claims[u]
        /\ rewards[u].unclaimed_rewards \in Nat
    BY <1>1, DelegationAssumption DEF Users, Claimable, IsRewards, IsData
  <2>2. CASE u <= n
    <3>1. rewards[u].reward_checkpoint = total_rewards
      BY <1>1, <2>1, <2>2
    <3>2. total_rewards - rewards[u].reward_checkpoint = 0
      BY <1>1, <3>1
    <3>3. claim_now(u, rewards[u], fs) = rewards[u].unclaimed_rewards
      BY <3>2 DEF claim_now, load_updated_user_rewards
    <3> QED BY <2>1, <3>3
  <2>3. CASE ~ (u <= n)
    <3>1. u > n /\ u # OWNER_USER_ID
      BY <1>1, <2>1, <2>3 DEF OWNER_USER_ID
    <3>2. rewards[u].unclaimed_rewards = 0
      BY <1>1, <3>1 DEF Fresh
    <3>3. get_user_stake_of_type(fs, u, "Active") = 0
      <4>1. PICK K : K = OfUser(u) \cap OfType("Active")
        OBVIOUS
      <4>2. K \subseteq Strangers(n)
        BY <1>1, <2>1, <3>1, <4>1 DEF OfUser, Strangers
      <4>3. Total(fs, K) <= 0 /\ Total(fs, K) \in Nat
        BY <1>1, <4>2, TotalSubset, TotalNat DEF NoStrangers
      <4> QED BY <1>1, <4>1, <4>3, UserTypeTotal
    <3>4. claim_now(u, rewards[u], fs) = 0
      BY <3>1, <3>2, <3>3 DEF claim_now, load_updated_user_rewards
    <3> QED BY <2>1, <3>2, <3>4
  <2> QED BY <2>1, <2>2, <2>3
<1> QED BY <1>2

(* The remainder goes to the owner.                                        *)
LEMMA GiveOwner ==
    ASSUME NEW rewards, NEW T, IsRewards(rewards, T), NEW n, Count(n),
           NEW x \in Nat, NEW v, v = give_owner(x, rewards)
    PROVE  /\ IsRewards(v, T)
           /\ \A u \in Users :
                 v[u].reward_checkpoint = rewards[u].reward_checkpoint
           /\ \A u \in Users : u # OWNER_USER_ID => v[u] = rewards[u]
           /\ v[OWNER_USER_ID].unclaimed_rewards
                = rewards[OWNER_USER_ID].unclaimed_rewards + x
           /\ unclaimed_to(v, n) = unclaimed_to(rewards, n) + x
<1>1. PICK o : o = OWNER_USER_ID
  OBVIOUS
<1>2. o \in Users /\ o \in 1 .. n /\ n \in Nat /\ n <= NumUsers
  BY <1>1, CountFacts DEF OWNER_USER_ID, Count
<1>3. PICK d, e, y : /\ d = rewards[o] /\ e = v[o]
                     /\ y = d.unclaimed_rewards + x
  OBVIOUS
<1>4. rewards = [u \in Users |-> rewards[u]] /\ IsData(d, T)
  BY <1>2, <1>3 DEF IsRewards
<1>5. /\ v = [u \in Users |-> IF u = o
                 THEN [rewards[o] EXCEPT !.unclaimed_rewards = @ + x]
                 ELSE rewards[u]]
  BY <1>1, <1>2, <1>4 DEF give_owner
<1>6. /\ e = [d EXCEPT !.unclaimed_rewards = y]
      /\ \A u \in Users : u # o => v[u] = rewards[u]
      /\ v = [u \in Users |-> v[u]]
  BY <1>2, <1>3, <1>5
<1>7. y \in Nat
  BY <1>3, <1>4 DEF IsData
<1>8. /\ IsData(e, T) /\ e.reward_checkpoint = d.reward_checkpoint
      /\ e.unclaimed_rewards = y
  BY <1>4, <1>6, <1>7 DEF IsData
<1>9. IsRewards(v, T)
  BY <1>3, <1>6, <1>8 DEF IsRewards
<1>10. PICK f, g : f = unclaimed(rewards) /\ g = unclaimed(v)
  OBVIOUS
<1>11. /\ unclaimed_to(rewards, n) = SumTo(f, n)
       /\ unclaimed_to(v, n) = SumTo(g, n)
       /\ SumTo(f, n) \in Nat
       /\ \A u \in 1 .. n : f[u] \in Nat /\ g[u] \in Nat
       /\ \A u \in 1 .. n : u # o => f[u] = g[u]
       /\ f[o] = d.unclaimed_rewards /\ g[o] = y
  <2>1. /\ unclaimed_to(rewards, n) = SumTo(f, n)
        /\ unclaimed_to(v, n) = SumTo(g, n)
        /\ unclaimed_to(rewards, n) \in Nat
        /\ \A u \in 1 .. n : /\ u \in Users /\ f[u] \in Nat
                             /\ f[u] = rewards[u].unclaimed_rewards
        /\ \A u \in 1 .. n : /\ u \in Users /\ g[u] \in Nat
                             /\ g[u] = v[u].unclaimed_rewards
    BY ONLY IsRewards(rewards, T), <1>2, <1>9, <1>10, UnclaimedUpTo
  <2>2. \A u \in 1 .. n : u # o => f[u] = g[u]
    BY ONLY <1>6, <2>1
  <2> QED BY ONLY <1>2, <1>3, <1>8, <2>1, <2>2
<1>12. SumTo(g, n) = SumTo(f, n) + g[o] - f[o]
  BY <1>2, <1>11, SumPoint
<1>13. f[o] \in Nat /\ g[o] = f[o] + x
  BY <1>2, <1>3, <1>11
<1>14. SumTo(g, n) = SumTo(f, n) + x
  BY <1>11, <1>12, <1>13
<1> QED BY <1>1, <1>3, <1>6, <1>8, <1>9, <1>11, <1>14

(* The next users are brought up to date.                                  *)
LEMMA ComputeSome ==
    ASSUME Numbers, NEW rewards, NEW fs, NEW n, Owing(rewards, fs, n),
           NEW first \in Nat, NEW last \in Nat, first <= last, last <= n,
           \A u \in 1 .. first : rewards[u].reward_checkpoint = total_rewards,
           NEW sum, sum = unclaimed_to(rewards, first), NEW v,
           v = compute_rewards_of(first + 1 .. last, rewards, fs)
    PROVE  /\ Owing(v, fs, n)
           /\ \A u \in 1 .. last : v[u].reward_checkpoint = total_rewards
           /\ unclaimed_to(v, last) \in Nat
           /\ sum + unclaimed_to(v, last) - unclaimed_to(v, first)
                = unclaimed_to(v, last)
<1>1. Count(n) /\ n \in Nat /\ n <= NumUsers /\ 1 .. n \subseteq Users
      /\ NumUsers \in Nat
  BY CountFacts, DelegationAssumption DEF Owing, Count
<1>2. PICK users : users = first + 1 .. last
  OBVIOUS
<1>3. users \subseteq 1 .. n
  BY <1>1, <1>2
<1>4. Owing(v, fs, n) /\ Brought(v, users, rewards, fs)
  BY <1>2, <1>3, BroughtOwes
<1>5. \A u \in 1 .. first : u \notin users /\ u \in Users
  BY <1>1, <1>2
<1>6. \A u \in 1 .. first : v[u] = rewards[u]
  BY <1>4, <1>5 DEF Brought
<1>7. ASSUME NEW u \in 1 .. last
      PROVE  v[u].reward_checkpoint = total_rewards
  <2>1. u \in Users /\ (u \in 1 .. first \/ u \in users)
    BY <1>1, <1>2
  <2>2. CASE u \in 1 .. first
    BY <1>6, <2>2
  <2>3. CASE u \in users
    BY <1>4, <2>1, <2>3 DEF Brought, UpToDate
  <2> QED BY <2>1, <2>2, <2>3
<1>8. IsRewards(rewards, total_rewards) /\ IsRewards(v, total_rewards)
  BY <1>4 DEF Owing
<1>9. first <= NumUsers /\ last <= NumUsers
  BY <1>1
<1>10. unclaimed_to(v, first) = sum
  BY <1>6, <1>8, <1>9, UnclaimedSame
<1>11. sum \in Nat /\ unclaimed_to(v, last) \in Nat
  BY <1>8, <1>9, UnclaimedUpTo
<1>12. sum + unclaimed_to(v, last) - sum = unclaimed_to(v, last)
  BY <1>11
<1> QED BY <1>4, <1>7, <1>10, <1>11, <1>12

(* Where a transaction of a global operation has brought the rewards.      *)
Computed(r) ==
    /\ IsRewards(r.rewards, total_rewards) /\ Fresh(r.rewards, num_users)
    /\ Counting(r.op, r.rewards, total_rewards)
    /\ IF r.op.step = "ComputeAllRewards"
       THEN Owing(r.rewards, r.funds, num_users)
       ELSE Settled(r.rewards, num_users, total_rewards, sent_rewards)

(* The count goes on, or starts again if rewards arrived.                  *)
LEMMA Restarted ==
    ASSUME total_rewards \in Nat, num_users \in Nat, NEW old, OpShape(old),
           NEW rewards, Counting(old, rewards, total_rewards), NEW op,
           op = restart_if_rewards_arrived(old)
    PROVE  /\ OpShape(op) /\ op.step = old.step
           /\ op.rewards_checkpoint = total_rewards
           /\ Counting(op, rewards, total_rewards)
<1>1. CASE old.rewards_checkpoint = total_rewards
  BY <1>1 DEF restart_if_rewards_arrived
<1>2. CASE old.rewards_checkpoint # total_rewards
  <2>1. op = [old EXCEPT !.last_id = 0, !.sum_unclaimed = 0,
                         !.rewards_checkpoint = total_rewards]
    BY <1>2 DEF restart_if_rewards_arrived
  <2>2. IsOp(op) /\ op.last_id = 0 /\ op.step = old.step
        /\ op.sum_unclaimed = 0 /\ op.rewards_checkpoint = total_rewards
        /\ same_swaps(op, old)
    BY <2>1 DEF OpShape, IsOp, same_swaps
  <2>3. OpShape(op)
    BY <2>2 DEF OpShape, same_swaps
  <2>4. unclaimed_to(rewards, 0) = 0
    BY SumZero DEF unclaimed_to
  <2>5. total_rewards \in 0 .. total_rewards
    OBVIOUS
  <2>6. Counting(op, rewards, total_rewards)
    BY <2>2, <2>4, <2>5 DEF Counting
  <2> QED BY <2>2, <2>3, <2>6
<1> QED BY <1>1, <1>2

(* When everybody has been counted, the owner is given the remainder and   *)
(* nothing is left over.                                                   *)
LEMMA CountedAll ==
    ASSUME Numbers, NEW rewards, NEW fs, NEW n, Owing(rewards, fs, n),
           \A u \in 1 .. n : rewards[u].reward_checkpoint = total_rewards,
           NEW x, x = total_rewards - unclaimed_to(rewards, n) - sent_rewards,
           NEW v, v = give_owner(x, rewards), NoStrangers(fs, n),
           NEW claims, Claimable(rewards, fs, claims)
    PROVE  /\ IsRewards(v, total_rewards) /\ Fresh(v, n)
           /\ Settled(v, n, total_rewards, sent_rewards)
           /\ Promised(v, claims)
<1>1. PICK cap, fee, T, S : /\ cap = total_delegation_cap
                            /\ fee = service_fee /\ T = total_rewards
                            /\ S = sent_rewards
  OBVIOUS
<1>2. /\ Count(n) /\ Within(fs, cap, fee) /\ T \in Nat /\ S \in Nat
      /\ IsRewards(rewards, T) /\ Covered(rewards, fs, n, cap, fee, T, S)
      /\ Fresh(rewards, n)
  BY <1>1 DEF Numbers, RewardNumbers, Owing, covered_now
<1>3. unclaimed_to(rewards, n) + S <= T
  BY <1>2, CoveredBound
<1>4. PICK sum \in Nat : sum = unclaimed_to(rewards, n)
  BY <1>2, UnclaimedNat
<1>5. x \in Nat /\ x = T - sum - S
  BY <1>1, <1>2, <1>3, <1>4
<1>6. /\ IsRewards(v, T)
      /\ \A u \in Users :
            v[u].reward_checkpoint = rewards[u].reward_checkpoint
      /\ \A u \in Users : u # OWNER_USER_ID => v[u] = rewards[u]
      /\ v[OWNER_USER_ID].unclaimed_rewards
           = rewards[OWNER_USER_ID].unclaimed_rewards + x
      /\ unclaimed_to(v, n) = sum + x
  <2>1. /\ IsRewards(v, T)
        /\ \A u \in Users :
              v[u].reward_checkpoint = rewards[u].reward_checkpoint
        /\ \A u \in Users : u # OWNER_USER_ID => v[u] = rewards[u]
        /\ v[OWNER_USER_ID].unclaimed_rewards
             = rewards[OWNER_USER_ID].unclaimed_rewards + x
        /\ unclaimed_to(v, n) = unclaimed_to(rewards, n) + x
    BY ONLY <1>2, <1>5, v = give_owner(x, rewards), GiveOwner,
            SMTT(30)
  <2> QED BY ONLY <1>4, <2>1
<1>7. Fresh(v, n)
  <2>1. ASSUME NEW u \in Users, u > n PROVE u # OWNER_USER_ID
    <3>1. u \in Nat /\ n \in Nat /\ 1 <= n
      BY <1>2, DelegationAssumption DEF Count, Users
    <3> QED BY <2>1, <3>1 DEF OWNER_USER_ID
  <2> QED BY <1>2, <1>6, <2>1 DEF Fresh
<1>8. SettledAt(T, v, n, S)
  <2>1. \A u \in 1 .. n : v[u].reward_checkpoint = T
    BY <1>1, <1>2, <1>6, CountFacts
  <2>2. unclaimed_to(v, n) + S = T
    BY <1>2, <1>5, <1>6
  <2> QED BY <2>1, <2>2 DEF SettledAt
<1>9. T \in 0 .. T
  BY <1>2
<1>10. Promised(v, claims)
  <2>1. \A u \in Users : /\ rewards[u].unclaimed_rewards = claims[u]
                          /\ rewards[u].unclaimed_rewards \in Nat
    BY <1>2, AllComputedPromised
  <2> QED BY <1>5, <1>6, <2>1 DEF Promised
<1> QED BY <1>1, <1>6, <1>7, <1>8, <1>9, <1>10 DEF Settled

(* compute_all_rewards, interrupted or not, resumes its count correctly    *)
(* and settles everything when it ends, although rewards arrive and are    *)
(* claimed between its transactions.                                       *)
LEMMA ComputeAllSettles ==
    ASSUME Numbers, Count(num_users), NEW r, IsRun(r), Computed(r),
           NEW next_step, next_step # "ComputeAllRewards", NEW s,
           s = compute_all_rewards(r, next_step), NoStrangers(r.funds, num_users),
           NEW claims, Claimable(r.rewards, r.funds, claims)
    PROVE  /\ Computed(s)
           /\ r.op.step = "ComputeAllRewards" =>
                 \/ /\ s.op.step = "ComputeAllRewards"
                    /\ Claimable(s.rewards, s.funds, claims)
                 \/ Promised(s.rewards, claims)
<1>1. CASE r.op.step # "ComputeAllRewards"
  <2>1. s = r
    BY <1>1 DEF compute_all_rewards
  <2> QED BY <2>1
<1>2. CASE r.op.step = "ComputeAllRewards"
  <2>1. PICK op, old : op = restart_if_rewards_arrived(old) /\ old = r.op
    OBVIOUS
  <2>2. /\ total_rewards \in Nat /\ num_users \in Nat /\ OpShape(old)
        /\ Counting(old, r.rewards, total_rewards)
        /\ Owing(r.rewards, r.funds, num_users)
    BY <1>2, <2>1, CountFacts DEF Numbers, RewardNumbers, IsRun, Computed
  <2>3. /\ OpShape(op) /\ op.step = "ComputeAllRewards"
        /\ op.rewards_checkpoint = total_rewards
        /\ Counting(op, r.rewards, total_rewards)
    BY <1>2, <2>1, <2>2, Restarted
  <2>4. PICK first \in Nat, gas \in Nat :
           first = op.last_id /\ gas = r.gas /\ first <= num_users
    BY <2>3 DEF OpShape, IsOp, IsRun
  <2>5. PICK last \in Nat :
           /\ last = op.last_id + Smaller(r.gas, num_users - op.last_id)
           /\ first <= last /\ last <= num_users
    BY <2>2, <2>4 DEF Smaller
  <2>6. PICK users : users = first + 1 .. last
    OBVIOUS
  <2>7. PICK rewards : rewards = compute_rewards_of(users, r.rewards, r.funds)
    OBVIOUS
  <2>8. PICK sum : sum = op.sum_unclaimed
            + unclaimed_to(rewards, last) - unclaimed_to(rewards, first)
    OBVIOUS
  <2>9. /\ Owing(rewards, r.funds, num_users)
        /\ \A u \in 1 .. last : rewards[u].reward_checkpoint = total_rewards
        /\ sum = unclaimed_to(rewards, last)
    <3>1. PICK sum0 : /\ sum0 = op.sum_unclaimed
                      /\ sum0 = unclaimed_to(r.rewards, first)
      BY <2>3, <2>4 DEF Counting
    <3>2. \A u \in 1 .. first : r.rewards[u].reward_checkpoint = total_rewards
      BY <2>3, <2>4 DEF Counting
    <3>3. /\ Owing(rewards, r.funds, num_users)
          /\ \A u \in 1 .. last : rewards[u].reward_checkpoint = total_rewards
          /\ sum0 + unclaimed_to(rewards, last) - unclaimed_to(rewards, first)
                = unclaimed_to(rewards, last)
      <4>1. /\ first <= last /\ last <= num_users
            /\ Owing(r.rewards, r.funds, num_users)
        BY <2>2, <2>5
      <4>2. rewards = compute_rewards_of(first + 1 .. last, r.rewards, r.funds)
        BY <2>6, <2>7
      <4> QED BY ONLY Numbers, first \in Nat, last \in Nat, <3>1, <3>2, <4>1, <4>2,
                 ComputeSome
    <3> QED BY <2>8, <3>1, <3>3
  <2>10. Claimable(rewards, r.funds, claims)
    BY <2>2, <2>7, ClaimableComputed DEF Owing
  <2>11. CASE last < num_users
    <3>1. PICK new : new = [op EXCEPT !.last_id = last,
                                      !.sum_unclaimed = sum]
      OBVIOUS
    <3>2. s = [r EXCEPT !.op = new, !.rewards = rewards, !.gas = 0]
      BY <1>2, <2>1, <2>4, <2>5, <2>6, <2>7, <2>8, <2>11, <3>1
         DEF compute_all_rewards
    <3>3. s.op = new /\ s.rewards = rewards /\ s.funds = r.funds
      BY <3>2 DEF IsRun
    <3>4. /\ new.last_id = last /\ new.sum_unclaimed = sum
          /\ new.rewards_checkpoint = total_rewards
          /\ new.step = "ComputeAllRewards"
      BY <2>3, <3>1 DEF OpShape, IsOp
    <3>5. total_rewards \in 0 .. total_rewards
      BY <2>2
    <3>6. Counting(new, rewards, total_rewards)
      BY <2>9, <3>4, <3>5 DEF Counting
    <3> QED BY <2>9, <2>10, <3>3, <3>4, <3>6 DEF Computed, Owing
  <2>12. CASE ~ (last < num_users)
    <3>1. last = num_users
      BY <2>2, <2>5, <2>12
    <3>2. PICK x : x = total_rewards - sum - sent_rewards
      OBVIOUS
    <3>3. PICK new : new = [op EXCEPT !.step = next_step, !.last_id = 0,
                                      !.sum_unclaimed = 0,
                                      !.rewards_checkpoint = 0]
      OBVIOUS
    <3>4. PICK v : v = give_owner(x, rewards)
      OBVIOUS
    <3>5. s = [r EXCEPT !.op = new, !.rewards = v,
                        !.gas = r.gas - Cardinality(users),
                        !.ok = x >= 0]
      BY <1>2, <2>1, <2>4, <2>5, <2>6, <2>7, <2>8, <2>12, <3>2, <3>3, <3>4
         DEF compute_all_rewards
    <3>6. s.op = new /\ s.rewards = v
      BY <3>5 DEF IsRun
    <3>7. /\ new.last_id = 0 /\ new.sum_unclaimed = 0
          /\ new.rewards_checkpoint = 0 /\ new.step = next_step
      BY <2>3, <3>3 DEF OpShape, IsOp
    <3>8. /\ IsRewards(v, total_rewards) /\ Fresh(v, num_users)
          /\ Settled(v, num_users, total_rewards, sent_rewards)
          /\ Promised(v, claims)
      BY <2>9, <2>10, <3>1, <3>2, <3>4, CountedAll
    <3>9. unclaimed_to(v, 0) = 0
      BY SumZero DEF unclaimed_to
    <3>10. Counting(new, v, total_rewards)
      BY <2>2, <3>7, <3>9 DEF Counting
    <3> QED BY <3>6, <3>7, <3>8, <3>10 DEF Computed
  <2> QED BY <2>11, <2>12
<1> QED BY <1>1, <1>2

(* A transaction of a global operation ends with r.                        *)
LEMMA OpRewards ==
    ASSUME BookInv, RewardInv, BookInv', L!IInv', NEW r, Computed(r),
           r.op.op # "None", r.funds \in Seq(Item),
           r.op.step = "ComputeAllRewards" =>
              r.funds = funds /\ Filled(funds, total_delegation_cap),
           funds' = save(r.funds), user_rewards' = r.rewards,
           global_op' = IF finished(r) THEN NoGlobalOp ELSE r.op,
           UNCHANGED <<num_users, total_rewards, sent_rewards>>,
           ~ finished(r) => UNCHANGED <<total_delegation_cap, service_fee>>,
           service_fee' \in Fees,
           r.op.op = "ChangeServiceFee" => r.op.new_value \in Fees,
           bootstrap_mode' => bootstrap_mode
    PROVE  RewardInv'
<1>1. /\ total_rewards \in Nat /\ sent_rewards \in Nat /\ Count(num_users)
      /\ Numbers /\ funds \in Seq(Item)
  BY RewardFacts DEF Numbers
<1>2. NoGlobalOp.op = "None" /\ NoGlobalOp.step = "ComputeAllRewards"
  BY DEF NoGlobalOp
<1>3. RewardBasics'
  <2>1. global_op'.op = "ChangeServiceFee" => global_op'.new_value \in Fees
    BY <1>2
  <2> QED BY <2>1 DEF RewardInv, RewardBasics
<1>4. RewardsStored'
  <2>1. Counting(global_op', user_rewards', total_rewards')
    <3>1. CASE finished(r)
      BY <1>1, <3>1, NoOpCounts
    <3>2. CASE ~ finished(r)
      BY <3>2 DEF Computed
    <3> QED BY <3>1, <3>2
  <2> QED BY <2>1 DEF Computed, RewardsStored
<1>5. CASE r.op.step = "ComputeAllRewards"
  <2>1. /\ ~ finished(r) /\ ~ Swapping'
    BY <1>5 DEF finished, Swapping
  <2>2. /\ Owing(r.rewards, funds, num_users) /\ funds' = save(funds)
    BY <1>5 DEF Computed
  <2>3. Owing(r.rewards, funds', num_users)
    BY <1>1, <2>2, SaveShares, OwingSame
  <2>4. Owing(user_rewards, funds, num_users)'
    BY <2>1, <2>3 DEF Owing, covered_now
  <2>5. PICK w, a, u, d, x \in Nat : TypeTotals(funds, w, a, u, d, x)
    BY <1>1, HasTotals
  <2>6. TypeTotals(funds', w, a, u, d, x)
    BY <1>1, <2>2, <2>5, SaveTotals
  <2>7. Filled(funds', total_delegation_cap')
    BY <1>5, <2>1, <2>5, <2>6 DEF Filled, TypeTotals
  <2> QED BY <1>3, <1>4, <2>1, <2>4, <2>7 DEF RewardInv
<1>6. CASE finished(r)
  <2>1. /\ global_op'.op = "None" /\ ~ Swapping' /\ OpInv'
        /\ total_delegation_cap' \in Nat
    BY <1>2, <1>6 DEF Swapping, is_global_op_in_progress, BookInv, Basics
  <2>2. Filled(funds', total_delegation_cap')
    BY <2>1, FilledByLedgerNext
  <2>3. PICK cap, fee, T, S, n, fs, rewards :
          /\ cap = total_delegation_cap' /\ fee = service_fee'
          /\ T = total_rewards /\ S = sent_rewards /\ n = num_users
          /\ fs = funds' /\ rewards = user_rewards'
    OBVIOUS
  <2>4. fs \in Seq(Item)
    BY <2>3, SaveShares DEF SameShares
  <2>5. Within(fs, cap, fee)
    BY <2>1, <2>2, <2>3, <2>4, FilledIsWithin
  <2>6. PICK t \in 0 .. T : SettledAt(t, rewards, n, S)
    BY <1>6, <2>3 DEF Computed, finished, Settled
  <2>7. /\ t \in Nat /\ t <= T /\ T \in Nat /\ S \in Nat /\ Count(n)
        /\ IsRewards(rewards, T) /\ Fresh(rewards, n)
    BY <1>1, <2>3 DEF Computed
  <2>8. /\ \A u \in 1 .. n : rewards[u].reward_checkpoint = t
        /\ \A u \in Users : u > n => rewards[u].reward_checkpoint = 0
        /\ unclaimed_to(rewards, n) + S <= t
    BY <2>6, <2>7 DEF SettledAt, Fresh
  <2>9. Covered(rewards, fs, n, cap, fee, T, S)
    BY ONLY <2>5, <2>7, <2>8, SettledCovers
  <2>10. Owing(user_rewards, funds, num_users)'
    BY <2>3, <2>5, <2>7, <2>9 DEF Owing, covered_now
  <2> QED BY <1>3, <1>4, <2>1, <2>2, <2>10 DEF RewardInv
<1>7. CASE r.op.step # "ComputeAllRewards" /\ ~ finished(r)
  <2>1. Swapping'
    BY <1>7 DEF Swapping, is_global_op_in_progress
  <2>2. Settled(user_rewards', num_users', total_rewards', sent_rewards')
    BY <1>7 DEF Computed
  <2> QED BY <1>3, <1>4, <2>1, <2>2 DEF RewardInv
<1> QED BY <1>5, <1>6, <1>7

OpFields(op) ==
    op = [op |-> op.op, step |-> op.step, new_value |-> op.new_value,
          waiting_to_active |-> op.waiting_to_active,
          unstaked_to_def_p |-> op.unstaked_to_def_p,
          active_to_def_p |-> op.active_to_def_p, last_id |-> op.last_id,
          sum_unclaimed |-> op.sum_unclaimed,
          rewards_checkpoint |-> op.rewards_checkpoint]

RunFields(r) ==
    /\ r = [op |-> r.op, funds |-> r.funds, rewards |-> r.rewards,
            gas |-> r.gas, ok |-> r.ok]
    /\ OpFields(r.op)

(* A swap leaves the rewards and the count alone.                          *)
StillComputed(s, r) ==
    /\ RunFields(s) /\ Computed(s) /\ s.op.op = r.op.op
    /\ s.op.new_value = r.op.new_value
    /\ s.op.step = "ComputeAllRewards" => s = r
    /\ r.op.step = "ComputeAllRewards" => s = r
    /\ s.rewards = r.rewards

(* A swap of a global operation leaves rewards and count.                  *)
LEMMA SwapKeepsComputed ==
    ASSUME NEW r, RunFields(r), Computed(r), NEW step \in SwapSteps,
           NEW next_step \in SwapSteps, NEW result,
           NEW field \in {"waiting_to_active", "unstaked_to_def_p",
                          "active_to_def_p"},
           NEW s, s = swap_step(r, step, field, result, next_step)
    PROVE  StillComputed(s, r)
<1>1. CASE r.op.step # step
  <2>1. s = r
    BY <1>1 DEF swap_step
  <2> QED BY <2>1 DEF StillComputed
<1>2. CASE r.op.step = step
  <2>1. PICK op, left, then : /\ op = r.op /\ left = result.left
                              /\ then = IF left > 0 THEN step ELSE next_step
    OBVIOUS
  <2>2. PICK new : new = [op EXCEPT ![field] = left, !.step = then]
    OBVIOUS
  <2>3. s = [r EXCEPT !.op = new, !.funds = result.funds,
                      !.gas = r.gas - result.visited]
    BY <1>2, <2>1, <2>2 DEF swap_step
  <2>4. /\ s = [op |-> new, funds |-> result.funds, rewards |-> r.rewards,
                gas |-> r.gas - result.visited, ok |-> r.ok]
    BY <2>3 DEF RunFields
  <2>5. OpFields(op)
    BY <2>1 DEF RunFields
  <2>6. /\ OpFields(new) /\ new.op = op.op /\ new.new_value = op.new_value
        /\ new.last_id = op.last_id /\ new.sum_unclaimed = op.sum_unclaimed
        /\ new.rewards_checkpoint = op.rewards_checkpoint
        /\ new.step = then
    <3>1. CASE field = "waiting_to_active"
      BY <2>2, <2>5, <3>1 DEF OpFields
    <3>2. CASE field = "unstaked_to_def_p"
      BY <2>2, <2>5, <3>2 DEF OpFields
    <3>3. CASE field = "active_to_def_p"
      BY <2>2, <2>5, <3>3 DEF OpFields
    <3> QED BY <3>1, <3>2, <3>3
  <2>7. then # "ComputeAllRewards" /\ step # "ComputeAllRewards"
    BY <2>1 DEF SwapSteps
  <2>8. /\ s.op = new /\ s.rewards = r.rewards /\ RunFields(s)
    BY <2>4, <2>6 DEF RunFields
  <2>9. Computed(s)
    BY <1>2, <2>1, <2>6, <2>7, <2>8 DEF Computed, Counting
  <2> QED BY <1>2, <2>1, <2>6, <2>7, <2>8, <2>9 DEF StillComputed
<1> QED BY <1>1, <1>2

(* So do the three swaps of a cap change.                                  *)
LEMMA SwapsKeepComputed ==
    ASSUME NEW r, RunFields(r), Computed(r), NEW s,
           s = swap_active_step(swap_unstaked_step(swap_waiting_step(r)))
    PROVE  StillComputed(s, r)
<1>1. PICK p, q : p = swap_waiting_step(r) /\ q = swap_unstaked_step(p)
  OBVIOUS
<1>2. StillComputed(p, r)
  BY <1>1, SwapKeepsComputed DEF swap_waiting_step, SwapSteps
<1>3. RunFields(p) /\ Computed(p)
  BY <1>2 DEF StillComputed
<1>4. StillComputed(q, p)
  BY <1>1, <1>3, SwapKeepsComputed DEF swap_unstaked_step, SwapSteps
<1>5. RunFields(q) /\ Computed(q)
  BY <1>4 DEF StillComputed
<1>6. StillComputed(s, q)
  BY <1>1, <1>5, SwapKeepsComputed DEF swap_active_step, SwapSteps
<1> QED BY <1>2, <1>4, <1>6 DEF StillComputed

(* A transaction may go on with the global operation op.                   *)
MayContinue(op) ==
    /\ OpShape(op) /\ Counting(op, user_rewards, total_rewards)
    /\ IF op.step = "ComputeAllRewards" THEN ~ Swapping
       ELSE Settled(user_rewards, num_users, total_rewards, sent_rewards)

(* A transaction that continues an operation starts from what the          *)
(* invariant says.                                                         *)
LEMMA StartComputed ==
    ASSUME RewardInv, NEW op, MayContinue(op), NEW gas \in Nat, NEW r,
           r = start(op, gas)
    PROVE  /\ IsRun(r) /\ Computed(r) /\ r.funds = funds /\ r.op = op
           /\ op.step = "ComputeAllRewards" =>
                 Filled(funds, total_delegation_cap)
           /\ Claimable(r.rewards, r.funds, claims_now)
<1>1. /\ r = [op |-> op, funds |-> funds, rewards |-> user_rewards,
              gas |-> gas, ok |-> TRUE]
  BY DEF start
<1>2. /\ r.op = op /\ r.funds = funds /\ r.rewards = user_rewards
      /\ r.gas = gas
  BY <1>1
<1>3. IsRun(r)
  BY <1>1, <1>2 DEF IsRun, MayContinue
<1>4. Computed(r)
  <2>1. /\ IsRewards(user_rewards, total_rewards)
        /\ Fresh(user_rewards, num_users)
    BY DEF RewardInv, RewardsStored
  <2>2. CASE op.step = "ComputeAllRewards"
    <3>1. Owing(user_rewards, funds, num_users)
      BY <2>2 DEF MayContinue, RewardInv
    <3> QED BY <1>2, <2>1, <2>2, <3>1 DEF Computed, MayContinue
  <2>3. CASE op.step # "ComputeAllRewards"
    BY <1>2, <2>1, <2>3 DEF Computed, MayContinue
  <2> QED BY <2>2, <2>3
<1>5. op.step = "ComputeAllRewards" => Filled(funds, total_delegation_cap)
  BY DEF MayContinue, RewardInv
<1> QED BY <1>2, <1>3, <1>4, <1>5, ClaimsBefore

(* A run is a record with its fields.                                      *)
LEMMA RunHasFields ==
    ASSUME NEW r, IsRun(r) PROVE RunFields(r)
<1>1. PICK op : op = r.op
  OBVIOUS
<1>2. OpFields(op)
  BY <1>1 DEF IsRun, OpShape, IsOp, OpFields
<1> QED BY <1>1, <1>2 DEF IsRun, RunFields

(* A transaction that only computes rewards changes nobody's claims.       *)
LEMMA SavedClaims ==
    ASSUME Numbers, NEW r, r.funds \in Seq(Item), funds' = save(r.funds),
           user_rewards' = r.rewards,
           Claimable(r.rewards, r.funds, claims_now),
           UNCHANGED <<total_delegation_cap, service_fee, total_rewards>>
    PROVE  ClaimsSame
<1>1. SameShares(funds', r.funds) /\ total_rewards \in Nat
  BY SaveShares DEF Numbers, RewardNumbers
<1>2. Claimable(user_rewards', funds', claims_now)
  BY <1>1, ClaimableSame
<1> QED BY <1>2, ClaimsAfter

(* A transaction of a cap change keeps the rewards covered.                *)
LEMMA CapRewards ==
    ASSUME BookInv, RewardInv, BookInv', L!IInv', NEW op, MayContinue(op),
           op.step # "Finished", Pending(op),
           op.op = "ModifyTotalDelegationCap", NEW gas \in Nat,
           continue_modify_total_delegation_cap(op, gas),
           bootstrap_mode' => bootstrap_mode
    PROVE  RewardInv' /\ Pays(op)
<1>1. /\ num_users \in Nat /\ block_nonce \in Nat /\ Numbers
      /\ Count(num_users) /\ funds \in Seq(Item)
      /\ NoStrangers(funds, num_users)
  BY BasicFacts, RewardFacts DEF BookInv
<1>2. PICK w, a, s, d, v \in Nat : TypeTotals(funds, w, a, s, d, v)
  BY <1>1, HasTotals
<1>3. PICK r : r = cap_steps(op, gas)
  OBVIOUS
<1>4. /\ funds' = save(r.funds) /\ user_rewards' = r.rewards
      /\ global_op' = IF finished(r) THEN NoGlobalOp ELSE r.op
      /\ total_delegation_cap' = IF finished(r) THEN r.op.new_value
                                 ELSE total_delegation_cap
      /\ UNCHANGED <<num_users, service_fee, total_rewards, sent_rewards>>
  BY <1>3 DEF continue_modify_total_delegation_cap, commit_cap,
     commit_global_op, commit_funds, money
<1>5. PICK nonce \in Nat : nonce = block_nonce
  BY <1>1
<1>6. OpShape(op)
  BY DEF MayContinue
<1>7. PICK x, y, z \in Nat :
         CapRun(r, op, funds, nonce, w, a, s, d, v, x, y, z)
  BY <1>1, <1>2, <1>3, <1>5, <1>6, CapSteps
<1>8. r.funds \in Seq(Item) /\ r.op.op = op.op
  BY <1>7 DEF CapRun, Stage
<1>9. PICK r0 : r0 = start(op, gas)
  OBVIOUS
<1>10. /\ IsRun(r0) /\ Computed(r0) /\ r0.funds = funds /\ r0.op = op
       /\ op.step = "ComputeAllRewards" => Filled(funds, total_delegation_cap)
       /\ Claimable(r0.rewards, r0.funds, claims_now)
  BY <1>9, StartComputed
<1>11. PICK next : next = "SwapWaitingToActive"
  OBVIOUS
<1>12. PICK r1 : r1 = compute_all_rewards(r0, next)
  OBVIOUS
<1>13. ComputeRun(r1, r0, next)
  BY <1>1, <1>10, <1>11, <1>12, ComputeAllRuns
<1>14. /\ Computed(r1)
       /\ op.step = "ComputeAllRewards" =>
             \/ /\ r1.op.step = "ComputeAllRewards"
                /\ Claimable(r1.rewards, r1.funds, claims_now)
             \/ Promised(r1.rewards, claims_now)
  <2>1. next # "ComputeAllRewards"
    BY <1>11
  <2> QED BY <1>1, <1>10, <1>12, <2>1, ComputeAllSettles
<1>15. IsRun(r1) /\ RunFields(r1)
  BY <1>13, RunHasFields DEF ComputeRun
<1>16. r = swap_active_step(swap_unstaked_step(swap_waiting_step(r1)))
  BY <1>3, <1>9, <1>11, <1>12 DEF cap_steps
<1>17. StillComputed(r, r1)
  BY <1>14, <1>15, <1>16, SwapsKeepComputed
<1>18. /\ Computed(r)
       /\ r.op.step = "ComputeAllRewards" => r = r1
       /\ r1.op.step = "ComputeAllRewards" => r = r1
       /\ r.rewards = r1.rewards
  BY <1>17 DEF StillComputed
<1>19. r.op.step = "ComputeAllRewards" =>
          r.funds = funds /\ Filled(funds, total_delegation_cap)
  <2>1. r1.funds = funds
    BY <1>10, <1>13 DEF ComputeRun
  <2>2. r1.op.step = "ComputeAllRewards" => op.step = "ComputeAllRewards"
    BY <1>10, <1>13 DEF ComputeRun
  <2> QED BY <1>10, <1>18, <2>1, <2>2
<1>20. r.op.op # "None" /\ r.op.op # "ChangeServiceFee"
  BY <1>8
<1>21. service_fee' \in Fees
  BY <1>4 DEF RewardInv, RewardBasics
<1>22. ~ finished(r) => UNCHANGED <<total_delegation_cap, service_fee>>
  BY <1>4
<1>23. Pays(op)
  <2>1. CASE op.step # "ComputeAllRewards"
    <3>1. r1 = r0
      BY <1>10, <1>12, <2>1 DEF compute_all_rewards
    <3>2. user_rewards' = user_rewards
      BY <1>4, <1>9, <1>18, <3>1 DEF start
    <3> QED BY <2>1, <3>2 DEF Pays
  <2>2. CASE Promised(r1.rewards, claims_now)
    <3>1. Promised(user_rewards', claims_now)
      BY <1>4, <1>18, <2>2
    <3>2. CASE op.step = "ComputeAllRewards"
      BY <3>1, <3>2 DEF Pays
    <3> QED BY <2>1, <3>2
  <2>3. CASE /\ op.step = "ComputeAllRewards"
             /\ r1.op.step = "ComputeAllRewards"
             /\ Claimable(r1.rewards, r1.funds, claims_now)
    <3>1. r = r1 /\ r.op.step = "ComputeAllRewards" /\ ~ finished(r)
      BY <1>18, <2>3 DEF finished
    <3>2. UNCHANGED <<total_delegation_cap, service_fee, total_rewards>>
      BY <1>4, <3>1
    <3>3. ~ Swapping'
      BY <1>4, <3>1 DEF Swapping
    <3>4. ClaimsSame
      BY <1>1, <1>4, <1>8, <2>3, <3>1, <3>2, SavedClaims
    <3> QED BY <2>3, <3>3, <3>4 DEF Pays
  <2> QED BY <1>14, <2>1, <2>2, <2>3
<1> QED BY <1>4, <1>8, <1>18, <1>19, <1>20, <1>21, <1>22, <1>23, OpRewards

(* A transaction of a fee change keeps the rewards covered: the fee        *)
(* changes only when everybody is settled.                                 *)
LEMMA FeeRewards ==
    ASSUME BookInv, RewardInv, BookInv', L!IInv', NEW op, MayContinue(op),
           op.step = "ComputeAllRewards", op.op = "ChangeServiceFee",
           op.waiting_to_active = 0, op.unstaked_to_def_p = 0,
           op.active_to_def_p = 0, op.new_value \in Fees,
           NEW gas \in Nat, continue_change_service_fee(op, gas)
    PROVE  RewardInv' /\ Pays(op)
<1>1. /\ num_users \in Nat /\ Numbers
      /\ Count(num_users) /\ funds \in Seq(Item)
      /\ NoStrangers(funds, num_users)
  BY BasicFacts, RewardFacts DEF BookInv
<1>2. PICK next : next = "Finished"
  OBVIOUS
<1>3. PICK r0, r : r0 = start(op, gas) /\ r = compute_all_rewards(r0, next)
  OBVIOUS
<1>4. /\ funds' = save(r.funds) /\ user_rewards' = r.rewards
      /\ global_op' = IF finished(r) THEN NoGlobalOp ELSE r.op
      /\ service_fee' = IF finished(r) THEN r.op.new_value ELSE service_fee
      /\ UNCHANGED <<num_users, total_delegation_cap, bootstrap_mode,
                     total_rewards, sent_rewards>>
  BY <1>2, <1>3 DEF continue_change_service_fee, commit_service_fee,
     service_fee_steps, commit_global_op, commit_funds, money
<1>5. /\ IsRun(r0) /\ Computed(r0) /\ r0.funds = funds /\ r0.op = op
      /\ Filled(funds, total_delegation_cap)
      /\ Claimable(r0.rewards, r0.funds, claims_now)
  BY <1>3, StartComputed
<1>6. ComputeRun(r, r0, next)
  BY <1>1, <1>2, <1>3, <1>5, ComputeAllRuns
<1>7. /\ Computed(r)
      /\ \/ /\ r.op.step = "ComputeAllRewards"
            /\ Claimable(r.rewards, r.funds, claims_now)
         \/ Promised(r.rewards, claims_now)
  <2>1. next # "ComputeAllRewards"
    BY <1>2
  <2> QED BY <1>1, <1>3, <1>5, <2>1, ComputeAllSettles
<1>8. /\ r.funds = funds /\ r.op.op = op.op /\ r.op.new_value = op.new_value
  BY <1>5, <1>6 DEF ComputeRun, same_swaps
<1>9. service_fee' \in Fees
  BY <1>4, <1>8 DEF RewardInv, RewardBasics
<1>10. ~ finished(r) => UNCHANGED <<total_delegation_cap, service_fee>>
  BY <1>4
<1>11. r.op.op # "None" /\ r.funds \in Seq(Item)
  BY <1>1, <1>8
<1>12. r.op.op = "ChangeServiceFee" => r.op.new_value \in Fees
  BY <1>8
<1>13. bootstrap_mode' => bootstrap_mode
  BY <1>4
<1>14. Pays(op)
  <2>1. CASE Promised(r.rewards, claims_now)
    BY <1>4, <2>1 DEF Pays
  <2>2. CASE /\ r.op.step = "ComputeAllRewards"
             /\ Claimable(r.rewards, r.funds, claims_now)
    <3>1. ~ finished(r)
      BY <2>2 DEF finished
    <3>2. UNCHANGED <<total_delegation_cap, service_fee, total_rewards>>
      BY <1>4, <3>1
    <3>3. ~ Swapping'
      BY <1>4, <2>2, <3>1 DEF Swapping
    <3>4. ClaimsSame
      BY <1>1, <1>4, <1>11, <2>2, <3>2, SavedClaims
    <3> QED BY <3>3, <3>4 DEF Pays
  <2> QED BY <1>7, <2>1, <2>2
<1> QED BY <1>4, <1>5, <1>7, <1>8, <1>9, <1>10, <1>11, <1>12, <1>13, <1>14,
        OpRewards

(* continueGlobalOperation keeps the rewards covered.                      *)
LEMMA ContinueRewards ==
    ASSUME BookInv, RewardInv, BookInv', L!IInv', NEW gas \in GasLimits,
           continue_global_operation_endpoint(gas)
    PROVE  RewardInv' /\ NeverLost
<1>1. gas \in Nat
  BY DelegationAssumption
<1>2. PICK op : op = global_op
  OBVIOUS
<1>3. /\ OpShape(op) /\ op.step # "Finished"
      /\ op.op = "ModifyTotalDelegationCap" => Pending(op)
      /\ op.op # "ModifyTotalDelegationCap" =>
            /\ op.step = "ComputeAllRewards"
            /\ op.waiting_to_active = 0
            /\ op.unstaked_to_def_p = 0
            /\ op.active_to_def_p = 0
  BY <1>2 DEF BookInv, Basics, OpInv
<1>4. /\ Counting(op, user_rewards, total_rewards)
      /\ op.op = "ChangeServiceFee" => op.new_value \in Fees
  BY <1>2 DEF RewardInv, RewardsStored, RewardBasics
<1>5. op.op # "None" => MayContinue(op)
  BY <1>2, <1>3, <1>4 DEF MayContinue, RewardInv, Swapping,
     is_global_op_in_progress
<1>6. op.op # "None" => (op.step = "ComputeAllRewards" <=> ~ Swapping)
  BY <1>2 DEF Swapping, is_global_op_in_progress
<1>7. CASE /\ op.op = "ModifyTotalDelegationCap"
           /\ continue_modify_total_delegation_cap(op, gas)
           /\ UNCHANGED bootstrap_mode
  <2>1. MayContinue(op) /\ Pending(op) /\ (bootstrap_mode' => bootstrap_mode)
    BY <1>3, <1>5, <1>7
  <2>2. RewardInv' /\ Pays(op)
    BY <1>1, <1>3, <1>7, <2>1, CapRewards
  <2> QED BY <1>6, <1>7, <2>2, PaysNotLost
<1>8. CASE /\ op.op = "ChangeServiceFee"
           /\ continue_change_service_fee(op, gas)
  <2>1. /\ MayContinue(op) /\ op.new_value \in Fees
        /\ op.step = "ComputeAllRewards"
        /\ op.waiting_to_active = 0
        /\ op.unstaked_to_def_p = 0
        /\ op.active_to_def_p = 0
    BY <1>3, <1>4, <1>5, <1>8
  <2>2. RewardInv' /\ Pays(op)
    BY <1>1, <1>8, <2>1, FeeRewards
  <2> QED BY <1>6, <1>8, <2>2, PaysNotLost
<1> QED BY <1>2, <1>7, <1>8 DEF continue_global_operation_endpoint

(* An operation that just started has counted nobody.                      *)
LEMMA NewOpMayContinue ==
    ASSUME BookInv, RewardInv, ~ is_global_op_in_progress, NEW op, OpShape(op),
           op.step = "ComputeAllRewards", op.last_id = 0,
           op.sum_unclaimed = 0, op.rewards_checkpoint = total_rewards
    PROVE  MayContinue(op)
<1>1. total_rewards \in Nat
  BY RewardFacts
<1>2. unclaimed_to(user_rewards, 0) = 0
  BY SumZero DEF unclaimed_to
<1>3. Counting(op, user_rewards, total_rewards)
  BY <1>1, <1>2 DEF Counting
<1> QED BY <1>3 DEF MayContinue, Swapping

(* A new cap change may start when no operation is under way.              *)
LEMMA CapOpMayContinue ==
    ASSUME BookInv, RewardInv, ~ is_global_op_in_progress,
           NEW new_cap \in Nat, NEW p \in Nat, NEW q \in Nat,
           NEW t \in Nat, p = 0 \/ (q = 0 /\ t = 0), p > 0 \/ q > 0 \/ t > 0,
           NEW op, op = ModifyTotalDelegationCap(new_cap, p, q, t)
    PROVE  /\ MayContinue(op) /\ op.step # "Finished" /\ Pending(op)
           /\ op.op = "ModifyTotalDelegationCap"
           /\ op.step = "ComputeAllRewards"
<1>1. num_users \in Nat
  BY BasicFacts DEF BookInv
<1>2. /\ OpShape(op) /\ op.step # "Finished" /\ Pending(op)
      /\ op.op = "ModifyTotalDelegationCap"
  BY <1>1, CapOpIsWellFormed
<1>3. op = [op |-> "ModifyTotalDelegationCap", step |-> "ComputeAllRewards",
            new_value |-> new_cap, waiting_to_active |-> p,
            unstaked_to_def_p |-> q, active_to_def_p |-> t,
            last_id |-> 0, sum_unclaimed |-> 0,
            rewards_checkpoint |-> total_rewards]
  BY DEF ModifyTotalDelegationCap, NoGlobalOp
<1>4. /\ op.step = "ComputeAllRewards" /\ op.last_id = 0
      /\ op.sum_unclaimed = 0 /\ op.rewards_checkpoint = total_rewards
  BY <1>3
<1>5. MayContinue(op)
  BY <1>2, <1>4, NewOpMayContinue
<1> QED BY <1>2, <1>4, <1>5

(* A cap change upwards keeps the rewards covered.                         *)
LEMMA RaiseRewards ==
    ASSUME BookInv, RewardInv, BookInv', L!IInv', ~ is_global_op_in_progress,
           NEW gas \in Nat, NEW cap \in Nat,
           cap > total_delegation_cap, raise_cap(cap, total_delegation_cap, gas),
           bootstrap_mode' => bootstrap_mode
    PROVE  RewardInv' /\ NeverLost
<1>1. total_delegation_cap \in Nat
  BY DEF BookInv, Basics
<1>2. PICK p \in Nat : p = cap - total_delegation_cap /\ p > 0
  BY <1>1
<1>3. PICK o \in Nat : o = 0
  OBVIOUS
<1>4. PICK op : op = ModifyTotalDelegationCap(cap, p, o, o)
  OBVIOUS
<1>5. /\ MayContinue(op) /\ op.step # "Finished" /\ Pending(op)
      /\ op.op = "ModifyTotalDelegationCap"
      /\ op.step = "ComputeAllRewards"
  BY <1>2, <1>3, <1>4, CapOpMayContinue
<1>6. continue_modify_total_delegation_cap(op, gas)
  BY <1>2, <1>3, <1>4 DEF raise_cap
<1>7. RewardInv' /\ Pays(op)
  BY <1>5, <1>6, CapRewards
<1> QED BY <1>5, <1>7, PaysNotLost DEF Swapping

(* A cap change downwards keeps the rewards covered.                       *)
LEMMA LowerRewards ==
    ASSUME BookInv, RewardInv, BookInv', L!IInv', ~ is_global_op_in_progress,
           NEW gas \in Nat, NEW cap \in Nat, NEW previous \in Nat,
           cap < previous, lower_cap(cap, previous, gas),
           bootstrap_mode' => bootstrap_mode
    PROVE  RewardInv' /\ NeverLost
<1>1. PICK p \in Nat : p = previous - cap /\ p > 0
  OBVIOUS
<1>2. PICK s \in Nat : s = total_of_type(funds, "UnStaked")
  BY RewardFacts, TypeTotal
<1>3. PICK q \in Nat : q = Smaller(p, s) /\ q <= p
  BY DEF Smaller
<1>4. PICK t \in Nat : t = p - q
  BY <1>3
<1>5. PICK o \in Nat : o = 0
  OBVIOUS
<1>6. o = 0 \/ (q = 0 /\ t = 0)
  BY <1>5
<1>7. o > 0 \/ q > 0 \/ t > 0
  BY <1>1, <1>3, <1>4
<1>8. PICK op : op = ModifyTotalDelegationCap(cap, o, q, t)
  OBVIOUS
<1>9. /\ MayContinue(op) /\ op.step # "Finished" /\ Pending(op)
      /\ op.op = "ModifyTotalDelegationCap"
      /\ op.step = "ComputeAllRewards"
  BY <1>6, <1>7, <1>8, CapOpMayContinue
<1>10. continue_modify_total_delegation_cap(op, gas)
  BY <1>1, <1>2, <1>3, <1>4, <1>5, <1>8 DEF lower_cap
<1>11. RewardInv' /\ Pays(op)
  BY <1>9, <1>10, CapRewards
<1> QED BY <1>9, <1>11, PaysNotLost DEF Swapping

(* In bootstrap mode there are no rewards yet that cap and fee could share *)
(* otherwise.                                                              *)
LEMMA BootstrapRewards ==
    ASSUME BookInv, RewardInv, bootstrap_mode, ~ is_global_op_in_progress,
           UNCHANGED <<num_users, funds, user_rewards, global_op,
                       total_rewards, sent_rewards>>,
           total_delegation_cap' \in Nat, service_fee' \in Fees,
           Filled(funds, total_delegation_cap'),
           bootstrap_mode' => bootstrap_mode
    PROVE  RewardInv' /\ NeverLost
<1>1. /\ RewardBasics' /\ RewardsStored' /\ ~ Swapping' /\ ~ Swapping
  BY DEF RewardInv, RewardBasics, RewardsStored, Swapping,
     is_global_op_in_progress
<1>2. PICK cap, fee, fs, n, T, S, old, was, rewards :
        /\ cap = total_delegation_cap' /\ fee = service_fee' /\ fs = funds
        /\ n = num_users /\ T = total_rewards /\ S = sent_rewards
        /\ old = total_delegation_cap /\ was = service_fee
        /\ rewards = user_rewards
  OBVIOUS
<1>3. /\ Owing(user_rewards, funds, num_users) /\ T = 0
  BY <1>1, <1>2 DEF RewardInv, RewardBasics
<1>4. /\ S \in Nat /\ T \in Nat /\ Count(n) /\ fs \in Seq(Item)
      /\ IsRewards(rewards, T) /\ Fresh(rewards, n)
      /\ Within(fs, old, was) /\ Covered(rewards, fs, n, old, was, T, S)
  BY <1>2, <1>3, RewardFacts DEF Owing, covered_now, Numbers
<1>5. unclaimed_to(rewards, n) + S <= T
  BY ONLY <1>4, CoveredBound
<1>6. Within(fs, cap, fee)
  BY <1>2, <1>4, FilledIsWithin
<1>7. /\ \A u \in 1 .. n : rewards[u].reward_checkpoint = T
      /\ \A u \in Users : u > n => rewards[u].reward_checkpoint = 0
  <2>1. \A u \in Users : rewards[u].reward_checkpoint = 0
    BY <1>3, <1>4 DEF IsRewards, IsData
  <2>2. 1 .. n \subseteq Users
    BY <1>4, DelegationAssumption DEF Count, Users
  <2> QED BY <1>3, <2>1, <2>2
<1>8. T <= T
  BY <1>4
<1>9. Covered(rewards, fs, n, cap, fee, T, S)
  BY ONLY <1>4, <1>5, <1>6, <1>7, <1>8, SettledCovers
<1>10. Owing(user_rewards, funds, num_users)'
  BY <1>2, <1>4, <1>6, <1>9 DEF Owing, covered_now
<1>11. Filled(funds, total_delegation_cap)'
  BY DEF Filled
<1>12. ASSUME NEW u \in Users
       PROVE  get_claimable_rewards(u)' = get_claimable_rewards(u)
  <2>1. total_rewards = 0 /\ user_rewards[u].reward_checkpoint = 0
    <3>1. IsData(rewards[u], T)
      BY <1>4 DEF IsRewards
    <3>2. rewards[u].reward_checkpoint \in 0 .. T
      BY <3>1 DEF IsData
    <3> QED BY <1>2, <1>3, <3>2
  <2>2. /\ total_rewards - user_rewards[u].reward_checkpoint = 0
        /\ total_rewards' - user_rewards'[u].reward_checkpoint = 0
    BY <2>1
  <2> QED BY <2>2 DEF get_claimable_rewards, load_updated_user_rewards
<1>13. NeverLost
  BY <1>1, <1>12, SameNotLost DEF ClaimsSame
<1> QED BY <1>1, <1>10, <1>11, <1>13 DEF RewardInv

(* modifyTotalDelegationCap keeps the rewards covered.                     *)
LEMMA ModifyCapRewards ==
    ASSUME BookInv, RewardInv, BookInv', L!IInv', NEW cap \in Caps,
           NEW gas \in GasLimits, modify_total_delegation_cap(cap, gas)
    PROVE  RewardInv' /\ NeverLost
<1>1. /\ gas \in Nat /\ cap \in Nat
      /\ total_delegation_cap \in Nat /\ bootstrap_mode \in BOOLEAN
  BY DelegationAssumption DEF BookInv, Basics
<1>2. funds \in Seq(Item) /\ service_fee \in Fees
  BY RewardFacts DEF RewardInv, RewardBasics
<1>3. PICK max \in Nat : max = total_of_type(funds, "Active")
                               + total_of_type(funds, "Waiting")
                               + total_of_type(funds, "UnStaked")
  BY <1>2, TypeTotal
<1>4. ~ is_global_op_in_progress
  BY DEF modify_total_delegation_cap
<1>5. Filled(funds, total_delegation_cap)
  BY <1>4 DEF RewardInv, Swapping
<1>6. CASE /\ bootstrap_mode /\ cap > max
           /\ total_delegation_cap' = cap
           /\ UNCHANGED <<accounts, bootstrap_mode, service_fee, limits,
                          global_op, money, chain>>
  <2>1. PICK w, a, u, d, x \in Nat : TypeTotals(funds, w, a, u, d, x)
    BY <1>2, HasTotals
  <2>2. Filled(funds, cap)
    BY <1>1, <1>3, <1>6, <2>1 DEF Filled, TypeTotals
  <2>3. /\ UNCHANGED <<num_users, funds, user_rewards, global_op,
                       total_rewards, sent_rewards>>
        /\ total_delegation_cap' \in Nat /\ service_fee' \in Fees
        /\ Filled(funds, total_delegation_cap')
        /\ bootstrap_mode' => bootstrap_mode
    BY <1>1, <1>2, <1>6, <2>2 DEF accounts, money
  <2> QED BY <1>4, <1>6, <2>3, BootstrapRewards
<1>7. CASE /\ bootstrap_mode /\ cap = max /\ ExactBootstrapCap
           /\ bootstrap_mode' = FALSE
           /\ UNCHANGED <<accounts, total_delegation_cap, service_fee,
                          limits, global_op, money, chain>>
  <2>1. /\ UNCHANGED <<num_users, funds, user_rewards, global_op,
                       total_rewards, sent_rewards>>
        /\ total_delegation_cap' \in Nat /\ service_fee' \in Fees
        /\ Filled(funds, total_delegation_cap')
        /\ bootstrap_mode' => bootstrap_mode
    BY <1>1, <1>2, <1>5, <1>7 DEF accounts, money
  <2> QED BY <1>4, <1>7, <2>1, BootstrapRewards
<1>8. CASE /\ bootstrap_mode /\ cap < max
           /\ lower_cap(cap, max, gas)
           /\ bootstrap_mode' = FALSE
  BY <1>1, <1>4, <1>8, LowerRewards
<1>9. CASE /\ ~ bootstrap_mode /\ cap <= max /\ UNCHANGED bootstrap_mode
           /\ cap = total_delegation_cap
           /\ UNCHANGED <<accounts, total_delegation_cap, service_fee,
                          limits, global_op, money, chain>>
  BY <1>9, StutterRewards DEF accounts, money
<1>10. CASE /\ ~ bootstrap_mode /\ cap <= max /\ UNCHANGED bootstrap_mode
            /\ cap > total_delegation_cap
            /\ raise_cap(cap, total_delegation_cap, gas)
  BY <1>1, <1>4, <1>10, RaiseRewards
<1>11. CASE /\ ~ bootstrap_mode /\ cap <= max /\ UNCHANGED bootstrap_mode
            /\ cap < total_delegation_cap
            /\ lower_cap(cap, total_delegation_cap, gas)
  BY <1>1, <1>4, <1>11, LowerRewards
<1> QED BY <1>3, <1>6, <1>7, <1>8, <1>9, <1>10, <1>11
        DEF modify_total_delegation_cap

(* setServiceFee keeps the rewards covered.                                *)
LEMMA SetFeeRewards ==
    ASSUME BookInv, RewardInv, BookInv', L!IInv', NEW fee \in Fees,
           NEW gas \in GasLimits, set_service_fee_endpoint(fee, gas)
    PROVE  RewardInv' /\ NeverLost
<1>1. /\ gas \in Nat /\ fee \in Nat /\ bootstrap_mode \in BOOLEAN
      /\ total_delegation_cap \in Nat /\ num_users \in Nat
  <2>1. gas \in Nat /\ fee \in 0 .. PERCENTAGE_DENOMINATOR
    BY DelegationAssumption
  <2>2. fee \in Nat
    BY <2>1 DEF PERCENTAGE_DENOMINATOR
  <2> QED BY <2>1, <2>2, BasicFacts DEF BookInv, Basics
<1>2. ~ is_global_op_in_progress
  BY DEF set_service_fee_endpoint
<1>3. Filled(funds, total_delegation_cap)
  BY <1>2 DEF RewardInv, Swapping
<1>4. CASE bootstrap_mode
  <2>1. /\ UNCHANGED <<accounts, total_delegation_cap, bootstrap_mode,
                       limits, global_op, money, chain>>
        /\ service_fee' = fee
    BY <1>4 DEF set_service_fee_endpoint
  <2>2. /\ UNCHANGED <<num_users, funds, user_rewards, global_op,
                       total_rewards, sent_rewards>>
        /\ total_delegation_cap' \in Nat /\ service_fee' \in Fees
        /\ Filled(funds, total_delegation_cap')
        /\ bootstrap_mode' => bootstrap_mode
    BY <1>1, <1>3, <2>1 DEF accounts, money
  <2> QED BY <1>2, <1>4, <2>2, BootstrapRewards
<1>5. CASE ~ bootstrap_mode
  <2>1. PICK op : op = ChangeServiceFee(fee)
    OBVIOUS
  <2>2. op = [op |-> "ChangeServiceFee", step |-> "ComputeAllRewards",
              new_value |-> fee, waiting_to_active |-> 0,
              unstaked_to_def_p |-> 0, active_to_def_p |-> 0,
              last_id |-> 0, sum_unclaimed |-> 0,
              rewards_checkpoint |-> total_rewards]
    BY <2>1 DEF ChangeServiceFee, NoGlobalOp
  <2>3. IsOp(op)
    BY <1>1, <2>2 DEF IsOp, SwapSteps
  <2>4. /\ OpShape(op) /\ op.step = "ComputeAllRewards"
        /\ op.op = "ChangeServiceFee" /\ op.waiting_to_active = 0
        /\ op.unstaked_to_def_p = 0 /\ op.active_to_def_p = 0
        /\ op.new_value = fee
        /\ op.last_id = 0 /\ op.sum_unclaimed = 0
        /\ op.rewards_checkpoint = total_rewards
    BY <1>1, <2>2, <2>3 DEF OpShape, SwapSteps
  <2>5. continue_change_service_fee(op, gas)
    BY <1>5, <2>1 DEF set_service_fee_endpoint
  <2>6. MayContinue(op)
    BY <1>2, <2>4, NewOpMayContinue
  <2>7. RewardInv' /\ Pays(op)
    BY <1>1, <2>4, <2>5, <2>6, FeeRewards
  <2> QED BY <1>2, <2>4, <2>7, PaysNotLost DEF Swapping
<1> QED BY <1>4, <1>5

LP == INSTANCE LedgerProofs WITH
        total_waiting  <- total_of_type(funds, "Waiting"),
        total_active   <- total_of_type(funds, "Active"),
        total_unstaked <- total_of_type(funds, "UnStaked"),
        total_deferred <- total_of_type(funds, "DeferredPayment"),
        total_withdraw <- total_of_type(funds, "WithdrawOnly"),
        global_op <- global_op.op,
        returned_fines <- 0,
        Fines <- {},
        FineBound <- 0,
        new_delegation_cap <-
            IF global_op.op = "ModifyTotalDelegationCap"
            THEN global_op.new_value ELSE 0,
        remaining_swap_waiting_to_active <- global_op.waiting_to_active,
        remaining_swap_unstaked_to_def_p <- global_op.unstaked_to_def_p,
        remaining_swap_active_to_def_p <- global_op.active_to_def_p

(* The assumption of the ledger holds of the contract's constants.         *)
LEMMA LedgerAmounts == LP!AmountAssumption
<1>1. \A x \in 0 .. DepositBound : x \in Nat
  OBVIOUS
<1>2. GenesisStakes \subseteq Nat
  BY <1>1, DelegationAssumption
<1> QED BY <1>2, DelegationAssumption DEF LP!AmountAssumption

(* The totals of the five lists and the money stay as they are.            *)
LEMMA LedgerStutters ==
    ASSUME UNCHANGED <<funds, total_delegation_cap, bootstrap_mode, global_op,
                       total_rewards, sent_rewards, sc_balance, auction_stake>>
    PROVE  UNCHANGED L!vars
BY DEF L!vars, L!stakes, L!capVars, L!opVars, L!money

(* The endpoints that leave the items alone are steps of the ledger, or    *)
(* invisible to it.                                                        *)
LEMMA QuietMapsToLedger ==
    ASSUME BookInv, RewardInv, L!IInv, QuietNext \/ UNCHANGED vars
    PROVE  L!Next \/ UNCHANGED L!vars
<1>1. CASE \E u \in Users : claim_rewards(u)
  <2>1. PICK u \in Users : claim_rewards(u)
    BY <1>1
  <2>2. PICK amount : Claims(u, amount)
    BY <2>1, ClaimPays
  <2>3. /\ amount \in Nat /\ amount + sent_rewards <= total_rewards
        /\ amount <= sc_balance
        /\ sc_balance' = sc_balance - amount
        /\ sent_rewards' = sent_rewards + amount
    BY <2>2 DEF Claims
  <2>4. sent_rewards \in Nat /\ total_rewards \in Nat
    BY RewardFacts DEF Numbers
  <2>5. amount \in 0 .. total_rewards /\ amount <= total_rewards - sent_rewards
    BY <2>3, <2>4
  <2>6. /\ ~ is_global_op_in_progress
        /\ UNCHANGED <<funds, total_delegation_cap, bootstrap_mode, global_op,
                       total_rewards, auction_stake>>
    BY <2>1 DEF claim_rewards, settings
  <2>7. L!claim_rewards(amount)
    BY <2>3, <2>5, <2>6
    DEF L!claim_rewards, L!stakes, L!capVars, L!opVars,
        is_global_op_in_progress, L!is_global_op_in_progress
  <2> QED BY <2>5, <2>7 DEF L!Next, L!UserNext
<1>2. CASE \E amount \in MinimumStakes : set_minimum_stake_endpoint(amount)
  BY <1>2, LedgerStutters DEF set_minimum_stake_endpoint, accounts, money
<1>3. CASE \E n \in UnBondPeriods : set_n_blocks_before_unbond_endpoint(n)
  BY <1>3, LedgerStutters DEF set_n_blocks_before_unbond_endpoint, accounts,
     money
<1>4. CASE \E name \in Switches : OwnerSwitches(name)
  BY <1>4, LedgerStutters DEF OwnerSwitches, accounts, settings, money
<1>5. CASE \E amount \in NodeStakes : stake_nodes(amount)
  <2>1. PICK amount \in NodeStakes : stake_nodes(amount)
    BY <1>5
  <2>2. /\ amount \in Nat /\ amount <= sc_balance
        /\ ~ bootstrap_mode /\ ~ is_global_op_in_progress
        /\ amount <= total_unprotected
        /\ sc_balance' = sc_balance - amount
        /\ auction_stake' = auction_stake + amount
        /\ UNCHANGED <<funds, total_delegation_cap, bootstrap_mode, global_op,
                       total_rewards, sent_rewards>>
    BY <2>1, DelegationAssumption DEF stake_nodes, accounts, settings
  <2>3. sc_balance \in Nat
    BY DEF L!IInv, L!TypeOK
  <2>4. amount \in 0 .. sc_balance
    BY <2>2, <2>3
  <2>5. total_unprotected = L!total_unprotected
    BY DEF total_unprotected, L!total_unprotected
  <2>6. L!stake_nodes(amount)
    BY <2>2, <2>5
    DEF L!stake_nodes, L!stakes, L!capVars, L!opVars,
        is_global_op_in_progress, L!is_global_op_in_progress
  <2> QED BY <2>4, <2>6 DEF L!Next, L!OwnerNext
<1>6. CASE upgrade
  <2>1. /\ UNCHANGED <<funds, bootstrap_mode, global_op, total_rewards,
                       sent_rewards, sc_balance, auction_stake>>
        /\ total_delegation_cap' = cap_if_necessary(total_delegation_cap,
                                                    funds)
    BY <1>6 DEF upgrade, accounts, money
  <2>2. L!upgrade
    BY <2>1 DEF L!upgrade, L!update_total_delegation_cap_if_necessary,
       cap_if_necessary, L!stakes, L!opVars, L!money
  <2> QED BY <2>2 DEF L!Next, L!OwnerNext
<1>7. CASE AuctionPaysBack
  <2>1. /\ UNCHANGED <<funds, total_delegation_cap, bootstrap_mode, global_op,
                       total_rewards, sent_rewards>>
        /\ sc_balance' = sc_balance + auction_stake
        /\ auction_stake' = 0
    BY <1>7 DEF AuctionPaysBack, accounts, settings
  <2>2. PICK amount \in Nat : amount = auction_stake
    BY DEF L!IInv, L!TypeOK
  <2>3. amount \in 0 .. auction_stake /\ auction_stake' = auction_stake - amount
    BY <2>1, <2>2
  <2>4. L!AuctionPaysBack(amount)
    BY <2>1, <2>2, <2>3
    DEF L!AuctionPaysBack, L!stakes, L!capVars, L!opVars
  <2> QED BY <2>3, <2>4 DEF L!Next, L!EnvironmentNext
<1>8. CASE \E amount \in Rewards : RewardsArrive(amount)
  <2>1. PICK amount \in Rewards : RewardsArrive(amount)
    BY <1>8
  <2>2. L!RewardsArrive(amount)
    BY <2>1 DEF RewardsArrive, accounts, settings, L!RewardsArrive,
       L!stakes, L!capVars, L!opVars
  <2> QED BY <2>2 DEF L!Next, L!EnvironmentNext
<1>9. CASE NextBlock
  BY <1>9, LedgerStutters DEF NextBlock, accounts, settings, money
<1>10. CASE UNCHANGED vars
  BY <1>10, LedgerStutters DEF vars, accounts, settings, money
<1> QED BY <1>1, <1>2, <1>3, <1>4, <1>5, <1>6, <1>7, <1>8, <1>9, <1>10
        DEF QuietNext

(* Every transaction and event is a step of the ledger, if the owner looks *)
(* at the checkpoint before a dust cleanup.                                *)
LEMMA StepMapsToLedger ==
    ASSUME CheckedDust, BookInv, RewardInv, L!IInv, Next \/ UNCHANGED vars
    PROVE  L!Next \/ UNCHANGED L!vars
<1>1. CASE \E u \in Users, payment \in Payments : stake_endpoint(u, payment)
  <2>1. PICK u \in Users, payment \in Payments : stake_endpoint(u, payment)
    BY <1>1
  <2>2. L!stake_endpoint(payment)
    BY <2>1, StakeStep
  <2> QED BY <2>2 DEF L!Next, L!UserNext
<1>2. CASE \E u \in Users, amount \in Withdrawals : unstake_endpoint(u, amount)
  <2>1. UnstakeLeaves
    BY <1>2, UnstakeStep
  <2> QED BY <2>1 DEF UnstakeLeaves, L!Next, L!UserNext
<1>3. CASE \E u \in Users, gas \in GasLimits : unbond_user(u, gas)
  <2>1. PICK u \in Users : UnbondLeaves(u)
    BY <1>3, UnbondStep
  <2> QED BY <2>1 DEF UnbondLeaves, L!Next, L!UserNext
<1>4. CASE \E gas \in GasLimits, cap \in Caps :
              modify_total_delegation_cap(cap, gas)
  BY <1>4, ModifyCapStep DEF L!Next, L!OwnerNext
<1>5. CASE \E gas \in GasLimits, fee \in Fees :
              set_service_fee_endpoint(fee, gas)
  <2>1. SetFeeLeaves
    BY <1>5, SetFeeStep
  <2> QED BY <2>1 DEF SetFeeLeaves, L!Next, L!OwnerNext
<1>6. CASE \E gas \in GasLimits : continue_global_operation_endpoint(gas)
  <2>1. ContinueLeaves
    BY <1>6, ContinueStep
  <2> QED BY <2>1 DEF ContinueLeaves, L!Next, L!OwnerNext
<1>7. CASE \E gas \in GasLimits, limit \in DustLimits :
              dust_cleanup_waiting_list(limit, gas)
  <2>1. DustWaitingLeaves
    BY <1>7, DustWaitingStep
  <2> QED BY <2>1 DEF DustWaitingLeaves, L!Next, L!OwnerNext
<1>8. CASE \E gas \in GasLimits, limit \in DustLimits :
              dust_cleanup_active(limit, gas)
  <2>1. DustActiveLeaves
    BY <1>8, DustActiveStep
  <2> QED BY <2>1 DEF DustActiveLeaves, L!Next, L!OwnerNext
<1>9. CASE QuietNext \/ UNCHANGED vars
  BY <1>9, QuietMapsToLedger
<1> QED BY <1>1, <1>2, <1>3, <1>4, <1>5, <1>6, <1>7, <1>8, <1>9, NextCases

(* The two instances of the ledger have the same invariant,                *)
LEMMA SameIInv == L!IInv <=> LP!IInv
BY Zenon DEF L!IInv, LP!IInv, L!TypeOK, LP!TypeOK, L!Conservation, LP!Conservation,
   L!BootstrapShape, LP!BootstrapShape, L!AuctionCovered, LP!AuctionCovered,
   L!lendable, LP!lendable, L!NeverOverAndUnderstaked,
   LP!NeverOverAndUnderstaked, L!GlobalOpShape, LP!GlobalOpShape,
   L!GlobalOpCanFinish, LP!GlobalOpCanFinish, L!StakeReachesCap,
   LP!StakeReachesCap, L!stake_after_op, LP!stake_after_op,
   L!cap_after_op, LP!cap_after_op, L!total_stake, LP!total_stake,
   L!is_global_op_in_progress, LP!is_global_op_in_progress, L!GlobalOps,
   LP!GlobalOps

(* also after a step,                                                      *)
LEMMA SameIInvNext == L!IInv' <=> LP!IInv'
BY Zenon DEF L!IInv, LP!IInv, L!TypeOK, LP!TypeOK, L!Conservation, LP!Conservation,
   L!BootstrapShape, LP!BootstrapShape, L!AuctionCovered, LP!AuctionCovered,
   L!lendable, LP!lendable, L!NeverOverAndUnderstaked,
   LP!NeverOverAndUnderstaked, L!GlobalOpShape, LP!GlobalOpShape,
   L!GlobalOpCanFinish, LP!GlobalOpCanFinish, L!StakeReachesCap,
   LP!StakeReachesCap, L!stake_after_op, LP!stake_after_op,
   L!cap_after_op, LP!cap_after_op, L!total_stake, LP!total_stake,
   L!is_global_op_in_progress, LP!is_global_op_in_progress, L!GlobalOps,
   LP!GlobalOps

(* the same user steps,                                                    *)
LEMMA SameUserNext == L!UserNext <=> LP!UserNext
BY Zenon DEF L!UserNext, LP!UserNext, L!stake_endpoint, LP!stake_endpoint,
   L!unstake_endpoint, LP!unstake_endpoint, L!unbond_user, LP!unbond_user,
   L!claim_rewards, LP!claim_rewards, L!is_global_op_in_progress,
   LP!is_global_op_in_progress, L!use_waiting_to_replace_unstaked,
   LP!use_waiting_to_replace_unstaked, L!min, LP!min, L!capVars, LP!capVars,
   L!opVars, LP!opVars, L!stakes, LP!stakes, L!money, LP!money,
   L!total_stake, LP!total_stake, L!delegation_cap_holds,
   LP!delegation_cap_holds

(* the same owner steps,                                                   *)
LEMMA SameOwnerNext == L!OwnerNext <=> LP!OwnerNext
BY Zenon DEF L!OwnerNext, LP!OwnerNext, L!modify_total_delegation_cap,
   LP!modify_total_delegation_cap, L!set_service_fee_endpoint,
   LP!set_service_fee_endpoint, L!continue_global_operation_endpoint,
   LP!continue_global_operation_endpoint, L!dust_cleanup_waiting_list,
   LP!dust_cleanup_waiting_list, L!dust_cleanup_active,
   LP!dust_cleanup_active, L!stake_nodes, LP!stake_nodes, L!upgrade,
   LP!upgrade, L!update_total_delegation_cap_if_necessary,
   LP!update_total_delegation_cap_if_necessary, L!raise_cap, LP!raise_cap,
   L!lower_cap, LP!lower_cap, L!continue_modify_cap, LP!continue_modify_cap,
   L!continue_change_fee, LP!continue_change_fee, L!swap_some, LP!swap_some,
   L!set_global_op, LP!set_global_op, L!total_unprotected,
   LP!total_unprotected, L!is_global_op_in_progress,
   LP!is_global_op_in_progress, L!use_waiting_to_replace_unstaked,
   LP!use_waiting_to_replace_unstaked, L!min, LP!min, L!capVars, LP!capVars,
   L!opVars, LP!opVars, L!stakes, LP!stakes, L!money, LP!money

(* and the same environment steps.                                         *)
LEMMA SameEnvironmentNext == L!EnvironmentNext <=> LP!EnvironmentNext
BY Zenon DEF L!EnvironmentNext, LP!EnvironmentNext, L!AuctionPaysBack,
   LP!AuctionPaysBack, L!RewardsArrive, LP!RewardsArrive, L!FineComesBack,
   LP!FineComesBack, L!capVars, LP!capVars,
   L!opVars, LP!opVars, L!stakes, LP!stakes, L!money, LP!money

(* An empty book has the totals zero.                                      *)
LEMMA EmptyTotals == TypeTotals(<<>>, 0, 0, 0, 0, 0)
<1>1. PICK fs : fs = <<>>
  OBVIOUS
<1>2. fs \in Seq(Item) /\ 1 .. Len(fs) = {}
  BY <1>1
<1>3. \A t : total_of_type(fs, t) = 0
  BY <1>2, TotalOfNothing, TypeTotal
<1> QED BY <1>1, <1>3 DEF TypeTotals

(* The totals of the genesis contract's book.                              *)
LEMMA GenesisTotals ==
    ASSUME NEW u \in Users, NEW stake \in GenesisStakes, NEW fs,
           fs = create_fund(<<>>, u, Active, stake)
    PROVE  TypeTotals(fs, 0, stake, 0, 0, 0)
<1>1. PICK es, d : es = <<>> /\ d = Active
  OBVIOUS
<1>2. /\ es \in Seq(Item) /\ d \in Desc /\ u \in Nat /\ stake \in Nat
      /\ d.type = "Active"
  BY <1>1, DelegationAssumption DEF Active, Desc, FundType, Users
<1>3. /\ Extends(fs, es)
      /\ \A K : Total(fs, K) =
              Total(es, K) + IF <<u, d>> \in K THEN stake ELSE 0
  <2>1. fs = create_fund(es, u, d, stake)
    BY <1>1
  <2> QED BY <1>2, <2>1, CreateFund
<1>4. \A K : Total(es, K) = 0
  <2>1. 1 .. Len(es) = {}
    BY <1>1
  <2> QED BY <1>2, <2>1, TotalOfNothing
<1>5. fs \in Seq(Item)
  BY <1>3 DEF Extends
<1>6. \A t : total_of_type(fs, t)
                = IF <<u, d>> \in OfType(t) THEN stake ELSE 0
  BY <1>2, <1>3, <1>4, <1>5, TypeTotal
<1>7. \A t : <<u, d>> \in OfType(t) <=> t = "Active"
  BY <1>2 DEF OfType, Keys
<1> QED BY <1>6, <1>7 DEF TypeTotals

(* The contract starts in a state of the ledger.                           *)
LEMMA InitLedger == Init => L!Init
<1> SUFFICES ASSUME Init PROVE L!Init
  OBVIOUS
<1>1. /\ global_op = NoGlobalOp /\ total_rewards = 0 /\ sent_rewards = 0
      /\ sc_balance = 0 /\ (Deployed \/ UpgradedGenesis)
  BY DEF Init
<1>2. /\ global_op.op = "None" /\ global_op.waiting_to_active = 0
      /\ global_op.unstaked_to_def_p = 0 /\ global_op.active_to_def_p = 0
  BY <1>1 DEF NoGlobalOp
<1>3. CASE Deployed
  <2>1. /\ TypeTotals(funds, 0, 0, 0, 0, 0) /\ total_delegation_cap \in Caps
        /\ bootstrap_mode = TRUE /\ auction_stake = 0
    BY <1>3, EmptyTotals DEF Deployed
  <2> QED BY <1>1, <1>2, <2>1 DEF L!Init, L!Deployed, TypeTotals
<1>4. CASE UpgradedGenesis
  <2>1. PICK u \in Users, stake \in GenesisStakes :
           /\ funds = create_fund(<<>>, u, Active, stake)
           /\ total_delegation_cap = cap_if_necessary(0, funds)
           /\ bootstrap_mode = FALSE
           /\ auction_stake = stake
    BY <1>4 DEF UpgradedGenesis
  <2>2. TypeTotals(funds, 0, stake, 0, 0, 0) /\ stake \in Nat
    BY <2>1, GenesisTotals, DelegationAssumption
  <2>3. total_delegation_cap = stake
    BY <2>1, <2>2 DEF cap_if_necessary, TypeTotals
  <2>4. L!UpgradedGenesis
    BY <2>1, <2>2, <2>3 DEF L!UpgradedGenesis, TypeTotals,
       L!update_total_delegation_cap_if_necessary
  <2> QED BY <1>1, <1>2, <2>2, <2>4 DEF L!Init, TypeTotals
<1> QED BY <1>1, <1>3, <1>4

(* The two instances of the ledger have the same initial states.           *)
LEMMA SameInit == L!Init <=> LP!Init
BY Zenon DEF L!Init, LP!Init, L!Deployed, LP!Deployed, L!UpgradedGenesis,
   LP!UpgradedGenesis, L!update_total_delegation_cap_if_necessary,
   LP!update_total_delegation_cap_if_necessary

(* The rewards are covered when the contract is deployed or upgraded.      *)
LEMMA InitRewards == Init => RewardInv
<1> SUFFICES ASSUME Init PROVE RewardInv
  OBVIOUS
<1>1. BookInv
  BY InitBook
<1>2. L!IInv
  BY InitLedger, SameInit, SameIInv, LP!InitIInv, LedgerAmounts
<1>3. /\ user_rewards = [u \in Users |-> [reward_checkpoint |-> 0,
                                          unclaimed_rewards |-> 0]]
      /\ global_op = NoGlobalOp /\ total_rewards = 0 /\ sent_rewards = 0
      /\ service_fee \in Fees
  BY DEF Init
<1>4. /\ ~ is_global_op_in_progress /\ ~ Swapping
      /\ global_op.op # "ChangeServiceFee"
  BY <1>3 DEF NoGlobalOp, is_global_op_in_progress, Swapping
<1>5. RewardBasics
  BY <1>3, <1>4, DelegationAssumption DEF RewardBasics
<1>6. \A u \in Users :
         user_rewards[u] = [reward_checkpoint |-> 0, unclaimed_rewards |-> 0]
  BY <1>3
<1>7. IsRewards(user_rewards, 0) /\ Fresh(user_rewards, num_users)
  BY <1>3, <1>6 DEF IsRewards, IsData, Fresh
<1>8. RewardsStored
  BY <1>3, <1>7, NoOpCounts DEF RewardsStored
<1>9. Filled(funds, total_delegation_cap)
  BY <1>1, <1>2, <1>4, FilledByLedger DEF BookInv, Basics
<1>10. /\ funds \in Seq(Item) /\ total_delegation_cap \in Nat
       /\ Count(num_users)
  BY <1>1, DelegationAssumption
  DEF BookInv, Basics, FundsInv, Sound, Orderly, Count, Users
<1>11. PICK cap, fee, n, rewards, fs :
          /\ cap = total_delegation_cap /\ fee = service_fee
          /\ n = num_users /\ rewards = user_rewards /\ fs = funds
  OBVIOUS
<1>12. Within(fs, cap, fee)
  BY <1>3, <1>9, <1>10, <1>11, FilledIsWithin
<1>13. unclaimed_to(rewards, n) = 0
  <2>1. \A u \in 1 .. n : u \in Users
    BY <1>10, <1>11, DelegationAssumption DEF Count, Users
  <2>2. \A u \in 1 .. n : unclaimed(rewards)[u] = 0
    BY <1>6, <1>11, <2>1 DEF unclaimed
  <2> QED BY <1>10, <1>11, <2>2, SumOfZeros DEF unclaimed_to, unclaimed, Count
<1>14. PICK z \in Nat : z = 0
  OBVIOUS
<1>15. /\ \A u \in 1 .. n : rewards[u].reward_checkpoint = z
       /\ \A u \in Users : u > n => rewards[u].reward_checkpoint = 0
       /\ unclaimed_to(rewards, n) + z <= z /\ z <= z
       /\ IsRewards(rewards, z) /\ Count(n)
  <2>1. \A u \in 1 .. n : u \in Users
    BY <1>10, <1>11, DelegationAssumption DEF Count, Users
  <2> QED BY <1>6, <1>7, <1>10, <1>11, <1>13, <1>14, <2>1
<1>16. Covered(rewards, fs, n, cap, fee, z, z)
  BY ONLY <1>12, <1>15, z \in Nat, SettledCovers
<1>17. Owing(user_rewards, funds, num_users)
  BY <1>3, <1>7, <1>10, <1>11, <1>12, <1>14, <1>16 DEF Owing, covered_now
<1> QED BY <1>4, <1>5, <1>8, <1>9, <1>17 DEF RewardInv

(* What the contract stores, with the money and the rewards.               *)
ContractInv == BookInv /\ L!IInv /\ RewardInv

(* A step of the ledger keeps its invariant.                               *)
LEMMA LedgerStep ==
    ASSUME L!IInv, L!Next \/ UNCHANGED L!vars
    PROVE  L!IInv'
<1>1. LP!IInv
  BY SameIInv
<1>2. CASE L!UserNext
  BY <1>1, <1>2, SameUserNext, LP!UserStepKeepsIInv, LedgerAmounts,
     SameIInvNext
<1>3. CASE L!OwnerNext
  BY <1>1, <1>3, SameOwnerNext, LP!OwnerStepKeepsIInv, LedgerAmounts,
     SameIInvNext
<1>4. CASE L!EnvironmentNext
  BY <1>1, <1>4, SameEnvironmentNext, LP!EnvironmentStepKeepsIInv,
     LedgerAmounts, SameIInvNext
<1>5. CASE UNCHANGED L!vars
  <2>1. UNCHANGED LP!vars
    BY <1>5 DEF L!vars, LP!vars, L!stakes, LP!stakes, L!capVars, LP!capVars,
       L!opVars, LP!opVars, L!money, LP!money
  <2> QED BY <1>1, <2>1, LP!StutterKeepsIInv, LedgerAmounts, SameIInvNext
<1> QED BY <1>2, <1>3, <1>4, <1>5 DEF L!Next

(* Every step of the contract keeps the three invariants together and is a *)
(* step of the ledger, or invisible to it.                                 *)
LEMMA ContractStep ==
    ASSUME CheckedDust, ContractInv, Next \/ UNCHANGED vars
    PROVE  ContractInv' /\ (L!Next \/ UNCHANGED L!vars) /\ NeverLost
<1>1. BookInv /\ L!IInv /\ RewardInv
  BY DEF ContractInv
<1>2. BookInv'
  BY <1>1, BookStep
<1>3. L!Next \/ UNCHANGED L!vars
  BY <1>1, StepMapsToLedger
<1>4. L!IInv'
  BY <1>1, <1>3, LedgerStep
<1>5. RewardInv' /\ NeverLost
  <2>1. CASE \E u \in Users, payment \in Payments : stake_endpoint(u, payment)
    <3>1. ~ is_global_op_in_progress /\ UNCHANGED global_op
      BY <2>1 DEF stake_endpoint
    <3> QED BY <1>1, <1>2, <1>4, <2>1, <3>1, StakeRewards, SameNotLost
            DEF Swapping
  <2>2. CASE \E u \in Users, amount \in Withdrawals :
                unstake_endpoint(u, amount)
    <3>1. ~ is_global_op_in_progress /\ UNCHANGED global_op
      BY <2>2 DEF unstake_endpoint
    <3> QED BY <1>1, <1>2, <1>4, <2>2, <3>1, UnstakeRewards, SameNotLost
            DEF Swapping
  <2>3. CASE \E u \in Users, gas \in GasLimits : unbond_user(u, gas)
    <3>1. UNCHANGED <<user_rewards, global_op>>
      BY <2>3 DEF unbond_user
    <3> QED BY <1>1, <2>3, <3>1, UnbondStep, UnbondRewards, SameNotLost
  <2>4. CASE \E gas \in GasLimits, cap \in Caps :
                modify_total_delegation_cap(cap, gas)
    BY <1>1, <1>2, <1>4, <2>4, ModifyCapRewards
  <2>5. CASE \E gas \in GasLimits, fee \in Fees :
                set_service_fee_endpoint(fee, gas)
    BY <1>1, <1>2, <1>4, <2>5, SetFeeRewards
  <2>6. CASE \E gas \in GasLimits : continue_global_operation_endpoint(gas)
    BY <1>1, <1>2, <1>4, <2>6, ContinueRewards
  <2>7. CASE \E gas \in GasLimits, limit \in DustLimits :
                dust_cleanup_waiting_list(limit, gas)
    <3>1. UNCHANGED <<user_rewards, global_op>>
      BY <2>7 DEF dust_cleanup_waiting_list
    <3> QED BY <1>1, <2>7, <3>1, DustWaitingStep, DustWaitingRewards,
               SameNotLost
  <2>8. CASE \E gas \in GasLimits, limit \in DustLimits :
                dust_cleanup_active(limit, gas)
    <3>1. ~ is_global_op_in_progress /\ UNCHANGED global_op
      BY <2>8 DEF dust_cleanup_active
    <3> QED BY <1>1, <1>2, <1>4, <2>8, <3>1, DustActiveRewards, SameNotLost
            DEF Swapping
  <2>9. CASE QuietNext \/ UNCHANGED vars
    BY <1>1, <1>2, <2>9, QuietRewards
  <2> QED BY <2>1, <2>2, <2>3, <2>4, <2>5, <2>6, <2>7, <2>8, <2>9, NextCases
<1> QED BY <1>2, <1>3, <1>4, <1>5 DEF ContractInv

(* The three invariants hold when the contract is deployed or upgraded.    *)
LEMMA InitContract == Init => ContractInv
<1> SUFFICES ASSUME Init PROVE ContractInv
  OBVIOUS
<1>1. L!IInv
  BY InitLedger, SameInit, SameIInv, LP!InitIInv, LedgerAmounts
<1> QED BY <1>1, InitBook, InitRewards DEF ContractInv

(* With checked dust cursors every reachable state of the contract         *)
(* satisfies the book invariant, the inductive invariant of the ledger and *)
(* the reward invariant: while no swap of a global operation is pending,   *)
(* everything all users are owed (unclaimed and not yet computed, the      *)
(* owner's fee and unused share included) is covered by rewards received   *)
(* and not sent; while one is pending, everybody is settled.               *)
THEOREM ContractIsSound ==
    ASSUME CheckedDust
    PROVE  Spec => []ContractInv
<1>1. ContractInv /\ [Next]_vars => ContractInv'
  BY ContractStep
<1> QED BY <1>1, InitContract, PTL DEF Spec

-----------------------------------------------------------------------------
(* The invariant covers the rewards.                                       *)
LEMMA CoveredByInv == ContractInv => RewardsCovered
<1> SUFFICES ASSUME ContractInv, ~ is_global_op_in_progress
             PROVE  get_total_unclaimed_rewards + sent_rewards <= total_rewards
  BY DEF RewardsCovered
<1>1. /\ BookInv /\ RewardInv /\ ~ Swapping
  BY DEF ContractInv, Swapping
<1>2. /\ Owing(user_rewards, funds, num_users) /\ Numbers /\ Count(num_users)
      /\ total_rewards \in Nat /\ sent_rewards \in Nat
  BY <1>1, RewardFacts DEF RewardInv, Numbers
<1>3. PICK n, users, v : /\ n = num_users /\ users = 1 .. n
                         /\ v = compute_rewards_of(users, user_rewards, funds)
  OBVIOUS
<1>4. Owing(v, funds, n) /\ Count(n)
  BY <1>2, <1>3, BroughtOwes
<1>5. PICK cap, fee, T, S :
        /\ cap = total_delegation_cap /\ fee = service_fee
        /\ T = total_rewards /\ S = sent_rewards
  OBVIOUS
<1>6. /\ Within(funds, cap, fee) /\ IsRewards(v, T) /\ T \in Nat /\ S \in Nat
      /\ Covered(v, funds, n, cap, fee, T, S)
  BY <1>2, <1>4, <1>5 DEF Owing, covered_now
<1>7. unclaimed_to(v, n) + S <= T
  BY ONLY <1>4, <1>6, CoveredBound
<1>8. unclaimed_to(v, n) = get_total_unclaimed_rewards
  <2>1. n \in Nat /\ 1 .. n \subseteq Users
    BY <1>4, CountFacts
  <2>2. PICK f, g : /\ f = unclaimed(v)
                    /\ g = [u \in Users |-> get_claimable_rewards(u)]
    OBVIOUS
  <2>3. ASSUME NEW u \in 1 .. n PROVE f[u] = g[u]
    <3>1. u \in Users
      BY <2>1
    <3>2. v[u] = load_updated_user_rewards(u, user_rewards[u], funds)
      BY <1>3, <3>1 DEF compute_rewards_of
    <3> QED BY <2>2, <3>1, <3>2 DEF unclaimed, get_claimable_rewards
  <2>4. SumTo(f, n) = SumTo(g, n)
    BY ONLY <2>1, <2>3, SumSame
  <2> QED BY <1>3, <2>2, <2>4
          DEF unclaimed_to, unclaimed, get_total_unclaimed_rewards
<1> QED BY <1>5, <1>7, <1>8

(* Whenever no global operation is in progress, the unclaimed rewards of   *)
(* all users and what was sent never exceed what was received, for every   *)
(* number of users, cap, fee and interleaving of claims, arrivals, stakes  *)
(* and interrupted operations.                                             *)
THEOREM RewardsCoveredHolds ==
    ASSUME CheckedDust
    PROVE  Spec => []RewardsCovered
BY ContractIsSound, CoveredByInv, PTL

(* By the invariant everything is settled when the swaps begin.            *)
LEMMA SettledByInv == ContractInv => RewardsSettledBeforeSwap
<1> SUFFICES ASSUME ContractInv, Swapping
             PROVE  LET settled == user_rewards[OWNER_USER_ID].reward_checkpoint
                    IN  /\ \A u \in 1 .. num_users :
                              user_rewards[u].reward_checkpoint = settled
                        /\ unclaimed_to(user_rewards, num_users) + sent_rewards
                             = settled
  BY DEF RewardsSettledBeforeSwap, Swapping
<1>1. BookInv /\ RewardInv
  BY DEF ContractInv
<1>2. PICK t \in 0 .. total_rewards :
         SettledAt(t, user_rewards, num_users, sent_rewards)
  BY <1>1 DEF RewardInv, Settled
<1>3. OWNER_USER_ID \in 1 .. num_users
  BY <1>1, RewardFacts, CountFacts DEF OWNER_USER_ID
<1> QED BY <1>2, <1>3 DEF SettledAt

(* When a global operation starts to swap funds, every user's rewards are  *)
(* computed up to one point and no reward received before it is without an *)
(* owner.                                                                  *)
THEOREM RewardsSettledHolds ==
    ASSUME CheckedDust
    PROVE  Spec => []RewardsSettledBeforeSwap
BY ContractIsSound, SettledByInv, PTL

(* The contract's balance, the nodes' stake and what the auction holds     *)
(* cover all that users may withdraw, for the contract with its items and  *)
(* not only for the ledger's totals.                                       *)
THEOREM ContractSolvent ==
    ASSUME CheckedDust
    PROVE  Spec => []Solvency
<1>1. ContractInv => Solvency
  BY DEF ContractInv, Solvency, L!Solvency, L!IInv, L!TypeOK,
     L!total_unprotected, L!Conservation, L!total_stake, L!AuctionCovered,
     L!lendable
<1> QED BY ContractIsSound, <1>1, PTL

(* Outside bootstrap mode and global operations, active and unstaked funds *)
(* add up to the delegation cap, if the owner does not close bootstrap     *)
(* mode with an exact cap.                                                 *)
THEOREM ContractKeepsCap ==
    ASSUME CheckedDust, ~ ExactBootstrapCap
    PROVE  Spec => []DelegationCapInvariant
<1>1. ContractInv => DelegationCapInvariant
  BY DEF ContractInv, L!IInv, L!TypeOK, DelegationCapInvariant,
     L!DelegationCapInvariant, L!delegation_cap_holds, L!BootstrapShape,
     L!StakeReachesCap, L!stake_after_op, L!cap_after_op, L!GlobalOpShape,
     L!is_global_op_in_progress
<1> QED BY ContractIsSound, <1>1, PTL

(* The contract implements the ledger: five totals of items stand for the  *)
(* ledger's five numbers, and every endpoint is a step of the ledger or    *)
(* leaves all of it unchanged.                                             *)
THEOREM ContractRefinesLedger ==
    ASSUME CheckedDust
    PROVE  Spec => RefinesLedger
<1>1. ContractInv /\ [Next]_vars => [L!Next]_(L!vars)
  BY ContractStep
<1> QED BY <1>1, InitLedger, ContractIsSound, PTL DEF Spec, RefinesLedger, L!Spec

-----------------------------------------------------------------------------
(* Where the money of a user goes *)

WithdrawableKinds(u, n, nonce) ==
    { k \in Keys : /\ k[1] = u
                   /\ \/ k[2].type = "WithdrawOnly"
                      \/ /\ k[2].type = "DeferredPayment"
                         /\ due(k[2], n, nonce) }

withdrawable_sum(fs, u, n, nonce) ==
    sum_of(fs, { id \in of_user(fs, u) :
        \/ fs[id].fund_desc.type = "WithdrawOnly"
        \/ /\ fs[id].fund_desc.type = "DeferredPayment"
           /\ due(fs[id].fund_desc, n, nonce) })

(* What a user can withdraw is the total of the kinds that are due.        *)
LEMMA WithdrawableTotal ==
    ASSUME NEW fs \in Seq(Item), NEW u, NEW n, NEW nonce
    PROVE  withdrawable_sum(fs, u, n, nonce)
              = Total(fs, WithdrawableKinds(u, n, nonce))
<1>1. \A i \in 1 .. Len(fs) :
         /\ key(fs[i]) \in Keys /\ key(fs[i])[1] = fs[i].user_id
         /\ key(fs[i])[2] = fs[i].fund_desc /\ i \in DOMAIN fs
  BY KeyFields
<1>2. PICK ids : ids = { id \in of_user(fs, u) :
                  \/ fs[id].fund_desc.type = "WithdrawOnly"
                  \/ /\ fs[id].fund_desc.type = "DeferredPayment"
                     /\ due(fs[id].fund_desc, n, nonce) }
  OBVIOUS
<1>3. \A i \in 1 .. Len(fs) :
         i \in ids <=> key(fs[i]) \in WithdrawableKinds(u, n, nonce)
  BY <1>1, <1>2 DEF of_user, WithdrawableKinds
<1>4. sum_of(fs, ids) = Total(fs, WithdrawableKinds(u, n, nonce))
  BY <1>3, SumOfIsTotal
<1> QED BY <1>2, <1>4 DEF withdrawable_sum

(* A swap whose moves do not leave a kind does not make it shrink.         *)
LEMMA SwapNeverTakes ==
    ASSUME NEW fs \in Seq(Item), NEW max \in Nat, NEW S, NEW transform,
           NEW r, Swap(r, fs, max, S, transform), NEW K,
           Moves(0, 1, K, S, transform)
    PROVE  Total(fs, K) <= Total(r.funds, K)
<1>1. r.funds \in Seq(Item) /\ r.left \in Nat /\ r.left <= max
  BY DEF Swap, IsState
<1>2. PICK x \in Nat, y \in Nat : x = Total(fs, K) /\ y = Total(r.funds, K)
  BY <1>1, TotalNat
<1>3. Between(0, 1, y, x, max - r.left)
  BY <1>2 DEF Swap, Effects
<1>4. x <= y
  BY <1>3 DEF Between, signed
<1> QED BY <1>2, <1>4

(* No swap of the contract's operations takes withdrawable funds.          *)
LEMMA WithdrawableNeverShrinks ==
    ASSUME NEW u, NEW n, NEW nonce, NEW now
    PROVE  NeverTakes(WithdrawableKinds(u, n, nonce), now)
<1>1. PICK K : K = WithdrawableKinds(u, n, nonce)
  OBVIOUS
<1>2. \A k \in K : k[2].type \in {"WithdrawOnly", "DeferredPayment"}
  BY <1>1 DEF WithdrawableKinds
<1>3. ASSUME NEW t \in {"Active", "Waiting", "UnStaked"}, NEW f
      PROVE  Moves(0, 1, K, OfType(t), f)
  <2>1. \A k \in OfType(t) : k \notin K
    BY <1>2 DEF OfType
  <2> QED BY <2>1, NeverLeaves
<1>4. NeverTakes(K, now)
  BY <1>3 DEF NeverTakes, MovesAll
<1> QED BY <1>1, <1>4

(* Funds that are due stay due.                                            *)
LEMMA DueStaysDue ==
    ASSUME NEW u, NEW n \in Nat, NEW nonce \in Nat, NEW later \in Nat,
           nonce <= later
    PROVE  WithdrawableKinds(u, n, nonce) \subseteq WithdrawableKinds(u, n, later)
<1>1. ASSUME NEW k \in Keys, due(k[2], n, nonce) PROVE due(k[2], n, later)
  <2>1. PICK c \in Nat : c = k[2].created
    BY DEF Keys, Desc
  <2>2. PICK end \in Int : end = (c + n) % U64
    BY U64Assumption
  <2>3. nonce >= end
    BY <1>1, <2>1, <2>2 DEF due
  <2>4. later >= end
    BY <2>3
  <2> QED BY <2>1, <2>2, <2>4 DEF due
<1> QED BY <1>1 DEF WithdrawableKinds

(* unBond releases and pays only funds of the caller that were due, and    *)
(* what the caller's withdrawable funds lose is what the caller is paid.   *)
LEMMA PayoutPays ==
    ASSUME BookInv, NEW w, Unbonds(w), sc_balance \in Int, NEW u,
           NEW K, K = WithdrawableKinds(u, n_blocks_before_unbond, block_nonce)
    PROVE  /\ u # w => Total(funds, K) <= Total(funds', K)
           /\ u = w => sc_balance' = sc_balance - (Total(funds, K) - Total(funds', K))
           /\ u = w => sc_balance' - sc_balance
                 = Total(funds', OfUser(u)) - Total(funds, OfUser(u))
           /\ u # w => Total(funds', OfUser(u)) = Total(funds, OfUser(u))
<1>1. funds \in Seq(Item)
  BY DEF BookInv, FundsInv, Sound, Orderly
<1>2. PICK r, gs : Unbonded(w, r, gs)
  BY DEF Unbonds
<1>3. PICK f, S, max : /\ f = release(n_blocks_before_unbond, block_nonce)
                       /\ S = OfUser(w) \cap OfType("DeferredPayment")
                       /\ max = Everything(funds)
  OBVIOUS
<1>4. /\ Swap(r, funds, max, S, f) /\ Liquidated(gs, r.funds, w)
      /\ funds' = save(gs) /\ max \in Nat /\ IsTransform(f)
      /\ sc_balance' = sc_balance - (Everything(r.funds) - Everything(gs))
  BY <1>1, <1>2, <1>3, EverythingTotal, ReleaseIsTransform DEF Unbonded
<1>5. r.funds \in Seq(Item) /\ gs \in Seq(Item)
  BY <1>4 DEF Liquidated
<1>6. \A J : Total(funds', J) = Total(gs, J)
  BY <1>4, <1>5, SaveKeepsTotals
<1>7. PICK P : P = OfUser(w) \cap OfType("WithdrawOnly")
  OBVIOUS
<1>8. /\ \A J : J \cap P = {} => Total(gs, J) = Total(r.funds, J)
      /\ \A J : P \subseteq J => Total(r.funds, J) - Total(gs, J)
                                   = Everything(r.funds) - Everything(gs)
  BY <1>4, <1>7 DEF Liquidated
<1>9. Total(r.funds, OfUser(u)) = Total(funds, OfUser(u))
  BY <1>1, <1>4, UserKinds, SwapKeepsUsers
<1>10. \A J : /\ Total(funds, J) \in Nat /\ Total(r.funds, J) \in Nat
              /\ Total(gs, J) \in Nat
  BY <1>1, <1>5, TotalNat
<1>11. PICK paid \in Int : paid = Everything(r.funds) - Everything(gs)
  BY <1>5, EverythingTotal
<1>12. CASE u # w
  <2>1. OfUser(u) \cap P = {} /\ K \cap P = {} /\ K \cap S = {}
    BY <1>3, <1>7, <1>12 DEF OfUser, WithdrawableKinds
  <2>2. Total(funds', OfUser(u)) = Total(funds, OfUser(u))
    BY <1>6, <1>8, <1>9, <2>1
  <2>3. Moves(0, 1, K, S, f)
    BY <2>1, NeverLeaves
  <2>4. Total(funds, K) <= Total(r.funds, K)
    BY <1>1, <1>4, <2>3, SwapNeverTakes
  <2> QED BY <1>6, <1>8, <1>12, <2>1, <2>2, <2>4
<1>13. CASE u = w
  <2>1. P \subseteq OfUser(u) /\ P \subseteq K
    BY <1>7, <1>13 DEF WithdrawableKinds, OfUser, OfType
  <2>2. ASSUME NEW item \in Item, key(item) \in S, f[item] # NoDescription
        PROVE  key(item) \in K /\ <<item.user_id, f[item]>> \in K
    <3>1. /\ key(item) \in Keys /\ key(item)[1] = item.user_id
          /\ key(item)[2] = item.fund_desc
      BY KeyFields
    <3>2. /\ f[item] = WithdrawOnly
          /\ due(item.fund_desc, n_blocks_before_unbond, block_nonce)
      BY <1>3, <2>2 DEF release
    <3>3. key(item)[1] = u /\ key(item)[2].type = "DeferredPayment"
      BY <1>3, <1>13, <2>2 DEF OfUser, OfType
    <3>4. key(item) \in K
      BY <3>1, <3>2, <3>3 DEF WithdrawableKinds
    <3>5. <<item.user_id, f[item]>> \in Keys
      BY <3>2, ItemFields DEF Keys, WithdrawOnly, Desc, FundType
    <3>6. <<item.user_id, f[item]>> \in K
      BY <3>1, <3>2, <3>3, <3>5 DEF WithdrawableKinds, WithdrawOnly
    <3> QED BY <3>4, <3>6
  <2>3. Moves(0, 1, K, S, f) /\ Moves(-1, 0, K, S, f)
    BY <2>2, NeverLeaves, NeverEnters
  <2>4. Total(r.funds, K) = Total(funds, K)
    <3>1. Total(r.funds, K) <= Total(funds, K)
      BY <1>1, <1>4, <2>3, SwapNeverAdds
    <3>2. Total(funds, K) <= Total(r.funds, K)
      BY <1>1, <1>4, <2>3, SwapNeverTakes
    <3> QED BY <1>10, <3>1, <3>2
  <2>5. Total(funds, K) - Total(funds', K) = paid
    BY <1>6, <1>8, <1>11, <2>1, <2>4
  <2>6. Total(funds, OfUser(u)) - Total(funds', OfUser(u)) = paid
    BY <1>6, <1>8, <1>9, <1>11, <2>1
  <2>7. sc_balance' = sc_balance - paid
    BY <1>4, <1>11
  <2>8. PICK x \in Nat, y \in Nat : x = Total(funds, OfUser(u))
                                    /\ y = Total(funds', OfUser(u))
    BY <1>6, <1>10
  <2>9. sc_balance' - sc_balance = y - x
    BY <2>6, <2>7, <2>8
  <2> QED BY <1>13, <2>5, <2>7, <2>8, <2>9
<1> QED BY <1>12, <1>13

(* One step moves the stake of at most one user, by what the contract's    *)
(* balance moves by.                                                       *)
StakeMoves ==
    \A u \in Users :
        Total(funds', OfUser(u)) # Total(funds, OfUser(u)) =>
            /\ sc_balance' - sc_balance
                  = Total(funds', OfUser(u)) - Total(funds, OfUser(u))
            /\ \A v \in Users \ {u} :
                  Total(funds', OfUser(v)) = Total(funds, OfUser(v))

(* A step that only relabels funds moves nobody's stake.                   *)
LEMMA StakeStays ==
    ASSUME \A u \in Users :
               Total(funds', OfUser(u)) = Total(funds, OfUser(u))
    PROVE  StakeMoves
BY DEF StakeMoves

(* Every step: one case per way in which funds move.                       *)
LEMMA StakeMovesStep ==
    ASSUME BookInv, sc_balance \in Int, Next \/ UNCHANGED vars
    PROVE  StakeMoves
<1>1. funds \in Seq(Item) /\ block_nonce \in Nat
  BY BasicFacts DEF BookInv, FundsInv, Sound, Orderly
<1>2. CASE Deposit
  <2>1. PICK w \in Users, payment \in Nat :
           Deposits(w, payment) /\ sc_balance' = sc_balance + payment
    BY <1>2 DEF Deposit
  <2>2. \A u : Total(funds', OfUser(u)) = Total(funds, OfUser(u))
                  + IF u = w THEN payment ELSE 0
    BY <2>1, DepositTotals
  <2>3. \A u : Total(funds, OfUser(u)) \in Nat
    BY <1>1, TotalNat
  <2>4. \A u : u # w => Total(funds', OfUser(u)) = Total(funds, OfUser(u))
    <3>1. \A u : u # w => Total(funds', OfUser(u)) = Total(funds, OfUser(u)) + 0
      BY <2>2
    <3> QED BY ONLY <2>3, <3>1
  <2>5. sc_balance' - sc_balance
           = Total(funds', OfUser(w)) - Total(funds, OfUser(w))
    <3>1. PICK x \in Nat : x = Total(funds, OfUser(w))
      BY <2>3
    <3>2. PICK y : y = Total(funds', OfUser(w))
      OBVIOUS
    <3>3. y = x + payment
      BY <2>2, <3>1, <3>2
    <3>4. sc_balance' - sc_balance = y - x
      BY <2>1, <3>3
    <3> QED BY <3>1, <3>2, <3>4
  <2> QED BY <2>4, <2>5 DEF StakeMoves
<1>3. CASE Relabel
  <2>1. PICK nonce \in Nat : nonce = block_nonce
    BY <1>1
  <2>2. Follows(funds', funds, nonce)
    BY <1>3, <2>1 DEF Relabel
  <2>3. \A u : Total(funds', OfUser(u)) = Total(funds, OfUser(u))
    BY <1>1, <2>2, FollowsTotals
  <2> QED BY <2>3, StakeStays
<1>4. CASE Payout
  <2>1. PICK w \in Users : Unbonds(w)
    BY <1>4 DEF Payout
  <2>2. \A u : /\ u = w => sc_balance' - sc_balance
                     = Total(funds', OfUser(u)) - Total(funds, OfUser(u))
               /\ u # w => Total(funds', OfUser(u)) = Total(funds, OfUser(u))
    BY <2>1, PayoutPays
  <2> QED BY <2>2 DEF StakeMoves
<1>5. CASE SweepWaiting
  <2>1. \A u : Total(funds', OfUser(u)) = Total(funds, OfUser(u))
    BY <1>5, SweepTargets, SweepTotals DEF SweepWaiting
  <2> QED BY <2>1, StakeStays
<1>6. CASE SweepActive
  <2>1. \A u : Total(funds', OfUser(u)) = Total(funds, OfUser(u))
    BY <1>6, SweepTargets, SweepTotals DEF SweepActive
  <2> QED BY <2>1, StakeStays
<1>7. CASE FundsStay
  BY <1>7, StakeStays DEF FundsStay
<1> QED BY <1>2, <1>3, <1>4, <1>5, <1>6, <1>7, StepMovesFunds

(* A delegator's stake over all fund types changes only by the EGLD that   *)
(* the transaction takes from or pays to that delegator, and then nobody   *)
(* else's changes.                                                         *)
THEOREM StakeMovesHolds ==
    ASSUME CheckedDust
    PROVE  Spec => StakeMovesOnlyWithEGLD
<1>1. ASSUME ContractInv, BookInv', Next \/ UNCHANGED vars
      PROVE  \A u \in Users :
                stake_of(u)' # stake_of(u) =>
                  /\ sc_balance' - sc_balance = stake_of(u)' - stake_of(u)
                  /\ \A v \in Users \ {u} : stake_of(v)' = stake_of(v)
  <2>1. sc_balance \in Int /\ BookInv
    BY <1>1 DEF ContractInv, L!IInv, L!TypeOK
  <2>2. StakeMoves
    BY <1>1, <2>1, StakeMovesStep
  <2>3. funds \in Seq(Item) /\ funds' \in Seq(Item)
    BY <1>1, <2>1 DEF BookInv, FundsInv, Sound, Orderly
  <2>4. /\ \A u : stake_of(u) = Total(funds, OfUser(u))
        /\ \A u : stake_of(u)' = Total(funds', OfUser(u))
    BY <2>3, UserTotal DEF stake_of
  <2> QED BY <2>2, <2>4 DEF StakeMoves
<1>2. ContractInv => BookInv
  BY DEF ContractInv
<1>3. ContractInv /\ BookInv' /\ [Next]_vars =>
        [\A u \in Users :
            stake_of(u)' # stake_of(u) =>
              /\ sc_balance' - sc_balance = stake_of(u)' - stake_of(u)
              /\ \A v \in Users \ {u} : stake_of(v)' = stake_of(v)]_vars
  BY <1>1
<1> QED BY <1>2, <1>3, ContractIsSound, PTL DEF Spec, StakeMovesOnlyWithEGLD

(* A delegator's claimable rewards only go down by being paid to that      *)
(* delegator: with checked dust cursors no cap, fee or stake change, no    *)
(* registration, sweep or upgrade takes any of them, nor does an           *)
(* interruption of compute_all_rewards; and once a change of cap swaps     *)
(* funds, what it stored before stays, for all caps, fees and roundings.   *)
THEOREM ClaimableNeverLostHolds ==
    ASSUME CheckedDust
    PROVE  Spec => ClaimableNeverLost
<1>1. ContractInv /\ [Next]_vars =>
        [\A u \in Users :
            secured_rewards(u)' < secured_rewards(u) =>
              /\ sent_rewards' = sent_rewards + secured_rewards(u)
              /\ \A v \in Users \ {u} :
                    secured_rewards(v)' >= secured_rewards(v)]_vars
  BY ContractStep DEF NeverLost
<1> QED BY <1>1, ContractIsSound, PTL DEF Spec, ClaimableNeverLost

(* What WithdrawableUntilPaid says of one step and one user, with totals   *)
(* before and after the step.                                              *)
StaysWithdrawable(before, after) ==
    \/ after >= before
    \/ sc_balance' = sc_balance - (before - after)
    \/ n_blocks_before_unbond' # n_blocks_before_unbond

(* A checked sweep takes no withdrawable funds: it stays in the list of    *)
(* waiting or of active stake.                                             *)
LEMMA SweepSpares ==
    ASSUME CheckedDust, BookInv, NEW source \in {"Waiting", "Active"},
           NEW transform, Sweeps(source, transform), NEW u, NEW n, NEW K,
           K = WithdrawableKinds(u, n, block_nonce)
    PROVE  Total(funds, K) <= Total(funds', K)
<1>1. funds \in Seq(Item)
  BY DEF BookInv, FundsInv, Sound, Orderly
<1>2. PICK s, limit : Swept(s, limit, source, transform)
  BY DEF Sweeps
<1>3. PICK convert, max : /\ convert = small(limit, transform)
                          /\ max = Everything(funds)
  OBVIOUS
<1>4. Swap(s, funds, max, OfType(source), convert) /\ max \in Nat
  BY <1>1, <1>2, <1>3, EverythingTotal DEF Swept, DustSwap
<1>5. PICK gs \in Seq(Item) : gs = s.funds
  BY <1>4 DEF Swap, IsState
<1>6. OfType(source) \cap K = {}
  BY DEF WithdrawableKinds, OfType
<1>7. Moves(0, 1, K, OfType(source), convert)
  BY <1>6, NeverLeaves
<1>8. Total(funds, K) <= Total(gs, K)
  BY <1>1, <1>4, <1>5, <1>7, SwapNeverTakes
<1>9. Total(gs, K) <= Total(funds', K) /\ funds' \in Seq(Item)
  BY <1>2, <1>5, WithdrawableNeverShrinks DEF Swept, Follows
<1>10. /\ Total(funds, K) \in Nat /\ Total(gs, K) \in Nat
       /\ Total(funds', K) \in Nat
  BY <1>1, <1>9, TotalNat
<1> QED BY <1>8, <1>9, <1>10

(* Every step: one case per way in which funds move.                       *)
LEMMA WithdrawableStep ==
    ASSUME CheckedDust, BookInv, BookInv', SettingsInv, sc_balance \in Int,
           Next \/ UNCHANGED vars, NEW u, NEW K, NEW J,
           K = WithdrawableKinds(u, n_blocks_before_unbond, block_nonce),
           J = WithdrawableKinds(u, n_blocks_before_unbond', block_nonce')
    PROVE  StaysWithdrawable(Total(funds, K), Total(funds', J))
<1>1. /\ funds \in Seq(Item) /\ funds' \in Seq(Item)
      /\ block_nonce \in Nat /\ block_nonce' \in Nat
      /\ n_blocks_before_unbond \in Nat
  BY BasicFacts, DelegationAssumption
     DEF BookInv, FundsInv, Sound, Orderly, SettingsInv, Basics
<1>2. /\ Total(funds, K) \in Nat /\ Total(funds', K) \in Nat
      /\ Total(funds', J) \in Nat
  BY <1>1, TotalNat
<1>3. ASSUME Total(funds, K) <= Total(funds', K), SameClock
      PROVE  StaysWithdrawable(Total(funds, K), Total(funds', J))
  <2>1. J = K
    BY <1>3 DEF SameClock
  <2>2. Total(funds', J) >= Total(funds, K)
    BY <1>2, <1>3, <2>1
  <2> QED BY <2>2 DEF StaysWithdrawable
<1>4. CASE Deposit
  <2>1. PICK w \in Users, payment \in Nat : Deposits(w, payment)
    BY <1>4 DEF Deposit
  <2>2. PICK fs : Deposited(fs, w, payment)
    BY <2>1 DEF Deposits
  <2>3. <<w, Waiting>> \notin K
    BY DEF WithdrawableKinds, Waiting
  <2>4. fs \in Seq(Item) /\ Total(fs, K) = Total(funds, K) + 0
    BY <2>2, <2>3 DEF Deposited
  <2>5. Total(fs, K) <= Total(funds', K)
    BY <2>2, WithdrawableNeverShrinks DEF Deposited, Follows
  <2>6. Total(funds, K) <= Total(funds', K)
    BY <1>2, <2>4, <2>5
  <2>7. SameClock
    BY <1>4 DEF Deposit
  <2> QED BY <1>3, <2>6, <2>7
<1>5. CASE Relabel
  <2>1. Total(funds, K) <= Total(funds', K)
    BY <1>5, WithdrawableNeverShrinks DEF Relabel, Follows
  <2> QED BY <1>3, <1>5, <2>1 DEF Relabel
<1>6. CASE Payout
  <2>1. PICK w \in Users : Unbonds(w)
    BY <1>6 DEF Payout
  <2>2. SameClock
    BY <1>6 DEF Payout
  <2>3. /\ u # w => Total(funds, K) <= Total(funds', K)
        /\ u = w => sc_balance' = sc_balance - (Total(funds, K) - Total(funds', K))
    BY <2>1, PayoutPays
  <2>4. J = K
    BY <2>2 DEF SameClock
  <2> QED BY <1>3, <2>2, <2>3, <2>4 DEF StaysWithdrawable
<1>7. CASE SweepWaiting
  <2>1. Total(funds, K) <= Total(funds', K)
    BY <1>7, SweepSpares DEF SweepWaiting
  <2> QED BY <1>3, <1>7, <2>1 DEF SweepWaiting
<1>8. CASE SweepActive
  <2>1. Total(funds, K) <= Total(funds', K)
    BY <1>8, SweepSpares DEF SweepActive
  <2> QED BY <1>3, <1>8, <2>1 DEF SweepActive
<1>9. CASE FundsStay
  <2>1. CASE n_blocks_before_unbond' # n_blocks_before_unbond
    BY <2>1 DEF StaysWithdrawable
  <2>2. CASE n_blocks_before_unbond' = n_blocks_before_unbond
    <3>1. K \subseteq J
      BY <1>1, <1>9, <2>2, DueStaysDue DEF FundsStay
    <3>2. Total(funds, K) <= Total(funds, J) /\ funds' = funds
      BY <1>1, <1>9, <3>1, TotalSubset DEF FundsStay
    <3>3. Total(funds', J) >= Total(funds, K)
      BY <1>2, <3>2
    <3> QED BY <3>3 DEF StaysWithdrawable
  <2> QED BY <2>1, <2>2
<1> QED BY <1>4, <1>5, <1>6, <1>7, <1>8, <1>9, StepMovesFunds

(* Funds that a delegator could withdraw stay withdrawable until they are  *)
(* paid to that delegator, whatever is unstaked, swapped or swept, unless  *)
(* the owner changes the unbond period.                                    *)
THEOREM WithdrawableHolds ==
    ASSUME CheckedDust
    PROVE  Spec => WithdrawableUntilPaid
<1>1. ASSUME ContractInv, SettingsInv, BookInv', Next \/ UNCHANGED vars,
             NEW u \in Users
      PROVE  \/ withdrawable(u)' >= withdrawable(u)
             \/ sc_balance' = sc_balance - (withdrawable(u) - withdrawable(u)')
             \/ n_blocks_before_unbond' # n_blocks_before_unbond
  <2>1. sc_balance \in Int /\ BookInv
    BY <1>1 DEF ContractInv, L!IInv, L!TypeOK
  <2>2. PICK K, J :
           /\ K = WithdrawableKinds(u, n_blocks_before_unbond, block_nonce)
           /\ J = WithdrawableKinds(u, n_blocks_before_unbond', block_nonce')
    OBVIOUS
  <2>3. StaysWithdrawable(Total(funds, K), Total(funds', J))
    BY <1>1, <2>1, <2>2, WithdrawableStep
  <2>4. funds \in Seq(Item) /\ funds' \in Seq(Item)
    BY <1>1, <2>1 DEF BookInv, FundsInv, Sound, Orderly
  <2>5. PICK n, m, nonce, later :
           /\ n = n_blocks_before_unbond /\ nonce = block_nonce
           /\ m = n_blocks_before_unbond' /\ later = block_nonce'
    OBVIOUS
  <2>6. /\ withdrawable(u) = withdrawable_sum(funds, u, n, nonce)
        /\ withdrawable(u)' = withdrawable_sum(funds', u, m, later)
    BY <2>5 DEF withdrawable, withdrawable_sum
  <2>7. /\ withdrawable(u) = Total(funds, K)
        /\ withdrawable(u)' = Total(funds', J)
    BY <2>2, <2>4, <2>5, <2>6, WithdrawableTotal
  <2> QED BY <2>3, <2>7 DEF StaysWithdrawable
<1>2. ContractInv => BookInv
  BY DEF ContractInv
<1>3. ContractInv /\ SettingsInv /\ BookInv' /\ [Next]_vars =>
        [\A u \in Users :
            \/ withdrawable(u)' >= withdrawable(u)
            \/ sc_balance' = sc_balance - (withdrawable(u) - withdrawable(u)')
            \/ n_blocks_before_unbond' # n_blocks_before_unbond]_vars
  BY <1>1
<1> QED BY <1>2, <1>3, ContractIsSound, SettingsHold, PTL
        DEF Spec, WithdrawableUntilPaid

-----------------------------------------------------------------------------
(* The checkpoint of the dust cleanups *)

(* Until it commits, a transaction removes no item from the book.          *)
Grows(gs, fs) == gs \in Seq(Item) /\ Len(fs) <= Len(gs)

(* Two steps that remove no item.                                          *)
LEMMA GrowsTransitive ==
    ASSUME NEW fs \in Seq(Item), NEW gs, NEW hs, Grows(gs, fs), Grows(hs, gs)
    PROVE  Grows(hs, fs)
<1>1. Len(fs) \in Nat /\ Len(gs) \in Nat /\ Len(hs) \in Nat
  BY DEF Grows
<1> QED BY <1>1 DEF Grows

(* A swap removes no item.                                                 *)
LEMMA SwapGrows ==
    ASSUME NEW fs, NEW r, NEW max, NEW S, NEW transform,
           Swap(r, fs, max, S, transform)
    PROVE  Grows(r.funds, fs)
BY DEF Swap, IsState, Extends, Grows

(* save keeps the order of the items: the saved part of a prefix is no     *)
(* longer than all that is saved.                                          *)
LEMMA SavedPrefix ==
    ASSUME NEW fs \in Seq(Item), NEW id \in 1 .. Len(fs)
    PROVE  Len(save(SubSeq(fs, 1, id))) \in 0 .. Len(save(fs))
<1> DEFINE N == Len(fs)
           l == CHOOSE x : IsKept(x, fs, N)
           gs == SubSeq(fs, 1, id)
           m == CHOOSE x : IsKept(x, gs, id)
<1>1. N \in Nat /\ id \in Nat /\ id <= N
  OBVIOUS
<1>2. gs \in Seq(Item) /\ Len(gs) = id /\ \A k \in 1 .. id : gs[k] = fs[k]
  OBVIOUS
<1>3. IsKept(l, fs, N) /\ IsKept(m, gs, id)
  BY <1>1, KeptExists
<1>4. save(fs) = l[N]
  BY DEF save, IsKept, kept_with
<1>5. save(gs) = m[id]
  BY <1>2 DEF save, IsKept, kept_with
<1> HIDE DEF l, N, m, gs
<1>6. /\ l[0] = <<>> /\ \A k \in 1 .. N : l[k] = kept_with(l[k - 1], fs[k])
      /\ m[0] = <<>> /\ \A k \in 1 .. id : m[k] = kept_with(m[k - 1], gs[k])
  BY <1>1, <1>3, KeptAt
<1>7. m[id] = l[id]
  <2> DEFINE S == { k \in Nat : m[k] = l[k] }
  <2>1. 0 \in S
    BY <1>6
  <2>2. ASSUME NEW k \in 0 .. id - 1, k \in S PROVE k + 1 \in S
    <3>1. k + 1 \in 1 .. id /\ k + 1 \in 1 .. N /\ (k + 1) - 1 = k
          /\ k + 1 \in Nat
      BY <1>1
    <3>2. m[k + 1] = kept_with(m[k], fs[k + 1])
          /\ l[k + 1] = kept_with(l[k], fs[k + 1])
      BY <1>2, <1>6, <3>1
    <3> QED BY <2>2, <3>1, <3>2
  <2>3. 0 .. id \subseteq S
    <3> HIDE DEF S
    <3> QED BY <1>1, <2>1, <2>2, RangeInduction
  <2> QED BY <1>1, <2>3
<1>8. \A k \in 0 .. N : l[k] \in Seq(Item)
  <2> DEFINE S == { k \in Nat : l[k] \in Seq(Item) }
  <2>1. 0 \in S
    <3>1. <<>> \in Seq(Item)
      OBVIOUS
    <3> QED BY <1>6, <3>1
  <2>2. ASSUME NEW k \in 0 .. N - 1, k \in S PROVE k + 1 \in S
    <3>1. k + 1 \in 1 .. N /\ (k + 1) - 1 = k /\ k + 1 \in Nat
      BY <1>1
    <3>2. l[k + 1] = kept_with(l[k], fs[k + 1]) /\ fs[k + 1] \in Item
      BY <1>6, <3>1 DEF N
    <3>3. l[k] \in Seq(Item)
      BY <2>2
    <3>4. l[k + 1] \in Seq(Item)
      BY <3>2, <3>3 DEF kept_with
    <3> QED BY <3>1, <3>4
  <2>3. 0 .. N \subseteq S
    <3> HIDE DEF S
    <3> QED BY <1>1, <2>1, <2>2, RangeInduction
  <2> QED BY <2>3
<1>9. Len(l[id]) <= Len(l[N])
  <2> DEFINE S == { k \in Nat : id <= k => Len(l[id]) <= Len(l[k]) }
  <2>1. 0 \in S
    BY <1>1
  <2>2. ASSUME NEW k \in 0 .. N - 1, k \in S PROVE k + 1 \in S
    <3>1. /\ k + 1 \in 1 .. N /\ (k + 1) - 1 = k /\ k + 1 \in Nat
          /\ k \in 0 .. N /\ k + 1 \in 0 .. N /\ id \in 0 .. N
      BY <1>1
    <3>2. l[k + 1] = kept_with(l[k], fs[k + 1])
      BY <1>6, <3>1
    <3>3. PICK a \in Seq(Item) : a = l[k]
      BY <1>8, <3>1
    <3>4. l[k + 1] = Append(a, fs[k + 1]) \/ l[k + 1] = a
      BY <3>2, <3>3 DEF kept_with
    <3>5. Len(l[k]) <= Len(l[k + 1]) /\ Len(l[k]) \in Nat
          /\ Len(l[k + 1]) \in Nat /\ Len(l[id]) \in Nat
      <4>1. Len(Append(a, fs[k + 1])) = Len(a) + 1 /\ Len(a) \in Nat
        OBVIOUS
      <4> QED BY <1>8, <3>1, <3>3, <3>4, <4>1
    <3>6. id <= k + 1 => id <= k \/ id = k + 1
      BY <1>1
    <3>7. id <= k => Len(l[id]) <= Len(l[k])
      BY <2>2
    <3> QED BY <3>1, <3>5, <3>6, <3>7
  <2>3. 0 .. N \subseteq S
    <3> HIDE DEF S
    <3> QED BY <1>1, <2>1, <2>2, RangeInduction
  <2> QED BY <1>1, <2>3
<1>10. Len(l[id]) \in Nat /\ Len(l[N]) \in Nat
  BY <1>1, <1>8
<1>11. Len(save(gs)) \in 0 .. Len(save(fs))
  BY <1>4, <1>5, <1>7, <1>9, <1>10
<1> QED BY <1>11 DEF gs

(* An id of the book, none, or that of an item that is gone.               *)
IsCheckpoint(id, fs) == id \in {GoneId} \cup 0 .. Len(fs)

(* An id kept elsewhere names an item of the saved book, or none.          *)
LEMMA FollowsItem ==
    ASSUME NEW fs \in Seq(Item), NEW gs, Grows(gs, fs), NEW id,
           IsCheckpoint(id, fs)
    PROVE  IsCheckpoint(follow(id, gs), save(gs))
<1>1. gs \in Seq(Item) /\ Len(fs) <= Len(gs) /\ Len(fs) \in Nat
      /\ Len(gs) \in Nat
  BY DEF Grows
<1>2. save(gs) \in Seq(Item) /\ Len(save(gs)) \in Nat
  BY <1>1, SaveKeepsTotals
<1>3. CASE id \notin 1 .. Len(gs)
  <2>1. id = GoneId \/ id = 0
    BY <1>1, <1>3 DEF IsCheckpoint, GoneId
  <2> QED BY <1>2, <1>3, <2>1 DEF follow, IsCheckpoint
<1>4. CASE id \in 1 .. Len(gs)
  <2>1. Len(save(SubSeq(gs, 1, id))) \in 0 .. Len(save(gs))
    BY <1>1, <1>4, SavedPrefix
  <2> QED BY <1>4, <2>1 DEF follow, IsCheckpoint
<1> QED BY <1>3, <1>4

CheckpointInv == IsCheckpoint(dust_cleanup_checkpoint, funds)

(* Committing a book that lost no item keeps the checkpoint.               *)
LEMMA CommitKeepsCheckpoint ==
    ASSUME funds \in Seq(Item), CheckpointInv, NEW gs, Grows(gs, funds),
           commit_funds(gs)
    PROVE  CheckpointInv'
<1>1. PICK id : id = dust_cleanup_checkpoint
  OBVIOUS
<1>2. IsCheckpoint(follow(id, gs), save(gs))
  BY <1>1, FollowsItem DEF CheckpointInv
<1>3. funds' = save(gs) /\ dust_cleanup_checkpoint' = follow(id, gs)
  BY <1>1 DEF commit_funds
<1> QED BY <1>2, <1>3 DEF CheckpointInv, IsCheckpoint

(* use_waiting_to_replace_unstaked removes no item.                        *)
LEMMA UseWaitingGrows ==
    ASSUME NEW fs \in Seq(Item), NEW rewards, NEW r,
           r = use_waiting_to_replace_unstaked(fs, rewards), r.ok,
           total_delegation_cap \in Nat, bootstrap_mode \in BOOLEAN
    PROVE  Grows(r.funds, fs)
<1>1. PICK unstaked \in Nat, amount \in Nat :
         /\ unstaked = total_of_type(fs, "UnStaked")
         /\ amount = Smaller(total_of_type(fs, "Waiting"), unstaked)
  BY TypeTotal DEF Smaller
<1>2. \A hs \in Seq(Item) : NoLimit(hs) \in Nat
  BY DEF NoLimit
<1>3. ASSUME NEW n \in Nat, NEW s,
             s = swap_unstaked_to_deferred_payment(fs, n, NoLimit(fs))
      PROVE  Grows(s.funds, fs)
  BY <1>2, <1>3, UnstakedToDeferred, SwapGrows
<1>4. ASSUME NEW gs, Grows(gs, fs), NEW n \in Nat, NEW s,
             s = swap_waiting_to_active(gs, n, NoLimit(gs))
      PROVE  Grows(s.funds, fs)
  <2>1. gs \in Seq(Item)
    BY <1>4 DEF Grows
  <2>2. Grows(s.funds, gs)
    BY <1>2, <1>4, <2>1, WaitingToActive, SwapGrows
  <2> QED BY <1>4, <2>2, GrowsTransitive
<1>5. CASE bootstrap_mode
  <2>1. PICK s : s = swap_unstaked_to_deferred_payment(fs, unstaked, NoLimit(fs))
    OBVIOUS
  <2>2. PICK gs \in Seq(Item) : gs = s.funds
    BY <1>3, <2>1 DEF Grows
  <2>3. r = fill_bootstrap(s, rewards)
    BY <1>1, <1>5, <2>1 DEF use_waiting_to_replace_unstaked
  <2>4. PICK fillable : fillable = total_delegation_cap
                                     - total_of_type(gs, "Active")
    OBVIOUS
  <2>5. PICK act : act = swap_waiting_to_active(gs, fillable, NoLimit(gs))
    OBVIOUS
  <2>6. r.funds = act.funds /\ r.ok = (s.left = 0 /\ fillable >= 0)
    BY ONLY <2>2, <2>3, <2>4, <2>5 DEF fill_bootstrap
  <2>7. fillable >= 0
    BY <2>6
  <2>8. fillable \in Nat
    BY <2>2, <2>4, <2>7, TypeTotal
  <2> QED BY <1>3, <1>4, <2>1, <2>2, <2>5, <2>6, <2>8
<1>6. CASE ~ bootstrap_mode /\ amount = 0
  <2>1. r.funds = fs
    BY <1>1, <1>6 DEF use_waiting_to_replace_unstaked
  <2> QED BY <2>1 DEF Grows
<1>7. CASE ~ bootstrap_mode /\ amount # 0
  <2>1. PICK s : s = swap_unstaked_to_deferred_payment(fs, amount, NoLimit(fs))
    OBVIOUS
  <2>2. r = replace_unstaked(s, amount, rewards)
    BY <1>1, <1>7, <2>1 DEF use_waiting_to_replace_unstaked
  <2>3. PICK gs : gs = s.funds
    OBVIOUS
  <2>4. r.funds = swap_waiting_to_active(gs, amount, NoLimit(gs)).funds
    BY <2>2, <2>3 DEF replace_unstaked
  <2> QED BY <1>3, <1>4, <2>1, <2>3, <2>4
<1> QED BY <1>5, <1>6, <1>7

(* A step of continue_modify_total_delegation_cap_step, with the field it  *)
(* counts down and the step that comes after it.                           *)
IsSwapStep(step, field, next_step, op, amount) ==
    \/ /\ step = "SwapWaitingToActive" /\ field = "waiting_to_active"
       /\ next_step = "SwapUnstakedToDeferredPayment"
       /\ amount = op.waiting_to_active
    \/ /\ step = "SwapUnstakedToDeferredPayment"
       /\ field = "unstaked_to_def_p"
       /\ next_step = "SwapActiveToDeferredPayment"
       /\ amount = op.unstaked_to_def_p
    \/ /\ step = "SwapActiveToDeferredPayment" /\ field = "active_to_def_p"
       /\ next_step = "Finished" /\ amount = op.active_to_def_p

(* A swap of a cap change removes no item.                                 *)
LEMMA SwapStepGrows ==
    ASSUME NEW r, IsRun(r), NEW fs \in Seq(Item), fs = r.funds, NEW amount,
           NEW result, NEW S, NEW transform,
           Swap(result, fs, amount, S, transform), result.visited <= r.gas,
           NEW step, NEW field, NEW next_step,
           IsSwapStep(step, field, next_step, r.op, amount),
           NEW s, s = swap_step(r, step, field, result, next_step)
    PROVE  IsRun(s) /\ Grows(s.funds, fs)
<1>1. CASE r.op.step # step
  <2>1. s = r
    BY <1>1 DEF swap_step
  <2> QED BY <2>1 DEF Grows
<1>2. CASE r.op.step = step
  <2>1. /\ result.left \in Nat /\ result.visited \in Nat
        /\ result.left <= amount
    BY DEF Swap, IsState
  <2>2. /\ field \in {"waiting_to_active", "unstaked_to_def_p",
                      "active_to_def_p"}
        /\ step \in SwapSteps /\ next_step \in SwapSteps
    BY DEF IsSwapStep, SwapSteps
  <2>3. Stepped(s, r, result, step, field, next_step)
    BY <1>2, <2>1, <2>2, SwapStepRun
  <2>4. Grows(s.funds, fs)
    BY <2>3, SwapGrows DEF Stepped
  <2>5. OpShape(r.op)
    BY DEF IsRun
  <2>6. OpShape(s.op)
    <3>1. CASE step = "SwapWaitingToActive"
      BY <1>2, <2>1, <2>3, <2>5, <3>1
         DEF IsSwapStep, Stepped, OpShape, IsOp, SwapSteps
    <3>2. CASE step = "SwapUnstakedToDeferredPayment"
      BY <1>2, <2>1, <2>3, <2>5, <3>2
         DEF IsSwapStep, Stepped, OpShape, IsOp, SwapSteps
    <3>3. CASE step = "SwapActiveToDeferredPayment"
      BY <1>2, <2>1, <2>3, <2>5, <3>3
         DEF IsSwapStep, Stepped, OpShape, IsOp, SwapSteps
    <3> QED BY <3>1, <3>2, <3>3 DEF IsSwapStep
  <2> QED BY <2>3, <2>4, <2>6 DEF Stepped, IsRun
<1> QED BY <1>1, <1>2

(* The steps of a cap change remove no item.                               *)
LEMMA CapStepsGrow ==
    ASSUME num_users \in Nat, block_nonce \in Nat, funds \in Seq(Item),
           NEW op, OpShape(op), NEW gas \in Nat, NEW r, r = cap_steps(op, gas)
    PROVE  Grows(r.funds, funds)
<1>1. PICK b : b = start(op, gas)
  OBVIOUS
<1>2. IsRun(b) /\ b.funds = funds
  BY <1>1 DEF start, IsRun
<1>3. PICK c : c = compute_all_rewards(b, "SwapWaitingToActive")
  OBVIOUS
<1>4. IsRun(c) /\ c.funds = funds
  BY <1>2, <1>3, ComputeAllRuns DEF ComputeRun
<1>5. PICK p : p = swap_waiting_step(c)
  OBVIOUS
<1>6. IsRun(p) /\ Grows(p.funds, funds)
  <2>1. PICK amount \in Nat, left \in Nat :
           amount = c.op.waiting_to_active /\ left = c.gas
    BY <1>4 DEF IsRun, OpShape, IsOp
  <2>2. PICK t : t = swap_waiting_to_active(funds, amount, left)
    OBVIOUS
  <2>3. PICK S, transform : Swap(t, funds, amount, S, transform)
                            /\ t.visited <= left
    BY <2>2, WaitingToActive
  <2>4. p = swap_step(c, "SwapWaitingToActive", "waiting_to_active", t,
                      "SwapUnstakedToDeferredPayment")
    BY <1>4, <1>5, <2>1, <2>2 DEF swap_waiting_step
  <2>5. IsSwapStep("SwapWaitingToActive", "waiting_to_active",
                   "SwapUnstakedToDeferredPayment", c.op, amount)
    BY <2>1 DEF IsSwapStep
  <2> QED BY <1>4, <2>1, <2>3, <2>4, <2>5, SwapStepGrows
<1>7. PICK q : q = swap_unstaked_step(p)
  OBVIOUS
<1>8. PICK fs \in Seq(Item) : fs = p.funds
  BY <1>6 DEF Grows
<1>9. IsRun(q) /\ Grows(q.funds, fs)
  <2>1. PICK amount \in Nat, left \in Nat :
           amount = p.op.unstaked_to_def_p /\ left = p.gas
    BY <1>6 DEF IsRun, OpShape, IsOp
  <2>2. PICK t : t = swap_unstaked_to_deferred_payment(fs, amount, left)
    OBVIOUS
  <2>3. PICK S, transform : Swap(t, fs, amount, S, transform)
                            /\ t.visited <= left
    BY <2>2, UnstakedToDeferred
  <2>4. q = swap_step(p, "SwapUnstakedToDeferredPayment",
                      "unstaked_to_def_p", t, "SwapActiveToDeferredPayment")
    BY <1>7, <1>8, <2>1, <2>2 DEF swap_unstaked_step
  <2>5. IsSwapStep("SwapUnstakedToDeferredPayment", "unstaked_to_def_p",
                   "SwapActiveToDeferredPayment", p.op, amount)
    BY <2>1 DEF IsSwapStep
  <2> QED BY <1>6, <1>8, <2>1, <2>3, <2>4, <2>5, SwapStepGrows
<1>10. PICK gs \in Seq(Item) : gs = q.funds
  BY <1>9 DEF Grows
<1>11. Grows(r.funds, gs)
  <2>1. PICK amount \in Nat, left \in Nat, nonce \in Nat :
           /\ amount = q.op.active_to_def_p /\ left = q.gas
           /\ nonce = block_nonce
    BY <1>9 DEF IsRun, OpShape, IsOp
  <2>2. PICK t : t = swap_active_to_deferred_payment(gs, amount, nonce, left)
    OBVIOUS
  <2>3. PICK S, transform : Swap(t, gs, amount, S, transform)
                            /\ t.visited <= left
    BY <2>2, ActiveToDeferred
  <2>4. r = swap_active_step(q)
    BY <1>1, <1>3, <1>5, <1>7 DEF cap_steps
  <2>5. r = swap_step(q, "SwapActiveToDeferredPayment", "active_to_def_p", t,
                      "Finished")
    BY <1>10, <2>1, <2>2, <2>4 DEF swap_active_step
  <2>6. IsSwapStep("SwapActiveToDeferredPayment", "active_to_def_p",
                   "Finished", q.op, amount)
    BY <2>1 DEF IsSwapStep
  <2> QED BY <1>9, <1>10, <2>1, <2>3, <2>5, <2>6, SwapStepGrows
<1>12. Grows(gs, funds)
  BY <1>6, <1>8, <1>9, <1>10, GrowsTransitive
<1> QED BY <1>11, <1>12, GrowsTransitive

(* Changing the service fee moves no item.                                 *)
LEMMA FeeStepsKeep ==
    ASSUME NEW op, NEW gas
    PROVE  service_fee_steps(op, gas).funds = funds
BY DEF service_fee_steps, compute_all_rewards, start

(* stake keeps the checkpoint of the dust cleanups.                        *)
LEMMA StakeCheckpoint ==
    ASSUME BookInv, CheckpointInv, NEW u \in Users, NEW payment \in Payments,
           stake_endpoint(u, payment)
    PROVE  CheckpointInv'
<1>1. /\ funds \in Seq(Item) /\ u \in Nat /\ payment \in Nat
      /\ total_delegation_cap \in Nat /\ bootstrap_mode \in BOOLEAN
  BY BasicFacts, DelegationAssumption
     DEF BookInv, Basics, FundsInv, Sound, Orderly
<1>2. PICK fs : fs = create_waiting(funds, u, payment)
  OBVIOUS
<1>3. PICK r : r = use_waiting_to_replace_unstaked(fs, user_rewards)
  OBVIOUS
<1>4. r.ok /\ commit_funds(r.funds)
  BY <1>2, <1>3 DEF stake_endpoint, commit
<1>5. Grows(fs, funds)
  <2>1. Waiting \in Desc
    BY DEF Waiting, Desc, FundType
  <2>2. Increased(fs, funds, u, Waiting, payment)
    BY <1>1, <1>2, <2>1, IncreaseFund DEF create_waiting
  <2> QED BY <2>2 DEF Increased, Extends, Grows
<1>6. Grows(r.funds, fs) /\ fs \in Seq(Item)
  BY <1>1, <1>3, <1>4, <1>5, UseWaitingGrows DEF Grows
<1> QED BY <1>1, <1>4, <1>5, <1>6, GrowsTransitive, CommitKeepsCheckpoint

(* unStake keeps it, wherever the amount comes from.                       *)
LEMMA UnstakeCheckpoint ==
    ASSUME BookInv, CheckpointInv, NEW u \in Users,
           NEW amount \in Withdrawals, unstake_endpoint(u, amount)
    PROVE  CheckpointInv'
<1>1. /\ funds \in Seq(Item) /\ amount \in Nat /\ block_nonce \in Nat
      /\ total_delegation_cap \in Nat /\ bootstrap_mode \in BOOLEAN
  BY BasicFacts, DelegationAssumption
     DEF BookInv, Basics, FundsInv, Sound, Orderly
<1>2. PICK s : s = swap_user_waiting_to_withdraw_only(funds, u, amount)
  OBVIOUS
<1>3. PICK S, transform : Swap(s, funds, amount, S, transform)
  BY <1>1, <1>2, UserWaitingToWithdrawOnly
<1>4. Grows(s.funds, funds) /\ s.left \in Nat
  BY <1>3, SwapGrows DEF Swap, IsState
<1>5. unstake_rest(s, u)
  BY <1>2 DEF unstake_endpoint
<1>6. CASE s.left = 0
  <2>1. commit_funds(s.funds)
    BY <1>5, <1>6 DEF unstake_rest
  <2> QED BY <1>1, <1>4, <2>1, CommitKeepsCheckpoint
<1>7. CASE s.left # 0
  <2>1. PICK fs \in Seq(Item), left \in Nat, nonce \in Nat :
           fs = s.funds /\ left = s.left /\ nonce = block_nonce
    BY <1>1, <1>4 DEF Grows
  <2>2. PICK t : t = swap_user_active_to_unstaked(fs, u, left, nonce)
    OBVIOUS
  <2>3. PICK R, convert : Swap(t, fs, left, R, convert)
    BY <2>1, <2>2, UserActiveToUnstaked
  <2>4. Grows(t.funds, fs)
    BY <2>3, SwapGrows
  <2>5. PICK rewards :
           commit_unstake(use_waiting_to_replace_unstaked(t.funds, rewards), u)
    BY <1>5, <1>7, <2>1, <2>2, Zenon DEF unstake_rest
  <2>6. PICK r : r = use_waiting_to_replace_unstaked(t.funds, rewards)
    OBVIOUS
  <2>7. r.ok /\ commit_funds(r.funds)
    BY <2>5, <2>6 DEF commit_unstake, commit
  <2>8. t.funds \in Seq(Item)
    BY <2>4 DEF Grows
  <2>9. Grows(r.funds, t.funds)
    BY <1>1, <2>6, <2>7, <2>8, UseWaitingGrows
  <2>10. Grows(t.funds, funds)
    BY <1>1, <1>4, <2>1, <2>4, GrowsTransitive
  <2>11. Grows(r.funds, funds)
    BY <1>1, <2>9, <2>10, GrowsTransitive
  <2> QED BY <1>1, <2>7, <2>11, CommitKeepsCheckpoint
<1> QED BY <1>6, <1>7

(* unBond keeps it: items that are paid out lose their balance and stay    *)
(* until the transaction commits.                                          *)
LEMMA UnbondCheckpoint ==
    ASSUME BookInv, CheckpointInv, NEW u \in Users, NEW gas \in GasLimits,
           unbond_user(u, gas)
    PROVE  CheckpointInv'
<1>1. funds \in Seq(Item) /\ gas \in Nat /\ u \in Nat
  BY BasicFacts, DelegationAssumption
     DEF BookInv, Basics, FundsInv, Sound, Orderly
<1>2. PICK s : s = swap_eligible_deferred_to_withdraw(funds, u,
                       n_blocks_before_unbond, block_nonce, gas)
  OBVIOUS
<1>3. PICK max : max = Everything(funds)
  OBVIOUS
<1>4. PICK S, transform : Swap(s, funds, max, S, transform)
                          /\ s.visited <= gas
  BY <1>1, <1>2, <1>3, EligibleToWithdraw
<1>5. PICK fs \in Seq(Item), rest \in Nat :
         fs = s.funds /\ rest = gas - s.visited
  <2>1. s.funds \in Seq(Item) /\ s.visited \in Nat
    BY <1>4 DEF Swap, IsState
  <2> QED BY <1>1, <1>4, <2>1
<1>6. PICK gs : gs = liquidate_all_withdraw_only(fs, u, rest)
  OBVIOUS
<1>7. Len(gs) = Len(fs)
  <2>1. PICK f : gs = [id \in 1 .. Len(fs) |-> f[id]]
    <3> DEFINE ids  == fund_list_by_user(fs, u, "WithdrawOnly")
               gone == ToSet(SubSeq(ids, 1, Smaller(rest, Len(ids))))
               f == [id \in 1 .. Len(fs) |->
                        IF id \in gone THEN [fs[id] EXCEPT !.balance = 0]
                                       ELSE fs[id]]
    <3>1. gs = f
      BY <1>6 DEF liquidate_all_withdraw_only
    <3> HIDE DEF gone
    <3>2. f = [id \in 1 .. Len(fs) |-> f[id]]
      OBVIOUS
    <3> QED BY <3>1, <3>2
  <2>2. Len(fs) \in Nat
    OBVIOUS
  <2> QED BY <2>1, <2>2
<1>8. gs \in Seq(Item)
  BY <1>6, Liquidate DEF Liquidated
<1>9. Grows(gs, funds)
  <2>1. Grows(fs, funds)
    BY <1>4, <1>5, SwapGrows
  <2> QED BY <1>7, <1>8, <2>1 DEF Grows
<1>10. commit_funds(gs)
  BY <1>2, <1>5, <1>6 DEF unbond_user
<1> QED BY <1>1, <1>9, <1>10, CommitKeepsCheckpoint

(* A dust cleanup leaves an id of its list, none, or where it started.     *)
LEMMA DustLeavesId ==
    ASSUME funds \in Seq(Item), CheckpointInv, NEW limit, NEW source,
           NEW transform, IsTransform(transform), NEW gas \in Nat, NEW r,
           r = swap_dust(funds, dust_cleanup_checkpoint, limit, source,
                         transform, gas)
    PROVE  Grows(r.funds, funds) /\ IsCheckpoint(r.next_id, funds)
<1>1. PICK id : id = dust_cleanup_checkpoint
  OBVIOUS
<1>2. PICK max : max = Everything(funds)
  OBVIOUS
<1>3. Grows(r.funds, funds)
  <2>1. PICK s : r.funds = s.funds
                 /\ DustSwap(s, funds, max, id, source,
                             small(limit, transform))
    BY <1>1, <1>2, DustIsSwap
  <2>2. PICK S, convert : Swap(s, funds, max, S, convert)
    BY <2>1 DEF DustSwap
  <2> QED BY <2>1, <2>2, SwapGrows
<1>4. PICK path : path = dust_path(funds, id, source)
  OBVIOUS
<1>5. path \in Seq(1 .. Len(funds)) /\ Len(path) \in Nat
  BY <1>4, DustPath DEF IsIds
<1>6. PICK visited : visited = Smaller(gas, Len(path))
  OBVIOUS
<1>7. r.next_id = IF visited < Len(path) THEN path[visited + 1]
                  ELSE IF gas = 0 THEN id ELSE 0
  BY <1>1, <1>4, <1>6 DEF swap_dust
<1>8. visited \in Nat
  BY <1>5, <1>6 DEF Smaller
<1>9. CASE visited < Len(path)
  <2>1. visited + 1 \in 1 .. Len(path)
    BY <1>5, <1>8, <1>9
  <2>2. path[visited + 1] \in 1 .. Len(funds)
    BY <1>5, <2>1
  <2> QED BY <1>3, <1>7, <1>9, <2>2 DEF IsCheckpoint
<1>10. CASE ~ (visited < Len(path))
  <2>1. r.next_id = id \/ r.next_id = 0
    BY <1>7, <1>10
  <2>2. Len(funds) \in Nat
    OBVIOUS
  <2> QED BY <1>1, <1>3, <2>1, <2>2 DEF CheckpointInv, IsCheckpoint
<1> QED BY <1>9, <1>10

(* An id kept by a dust cleanup names an item of the saved book.           *)
LEMMA DustKeepsCheckpoint ==
    ASSUME funds \in Seq(Item), NEW gs, Grows(gs, funds), NEW id,
           IsCheckpoint(id, funds), funds' = save(gs),
           dust_cleanup_checkpoint' = follow(id, gs)
    PROVE  CheckpointInv'
<1>1. IsCheckpoint(follow(id, gs), save(gs))
  BY FollowsItem
<1> QED BY <1>1 DEF CheckpointInv, IsCheckpoint

(* dustCleanupWaitingList keeps it.                                        *)
LEMMA DustWaitingCheckpoint ==
    ASSUME BookInv, CheckpointInv, NEW limit \in DustLimits,
           NEW gas \in GasLimits, dust_cleanup_waiting_list(limit, gas)
    PROVE  CheckpointInv'
<1>1. funds \in Seq(Item) /\ gas \in Nat
  BY DelegationAssumption DEF BookInv, FundsInv, Sound, Orderly
<1>2. PICK transform : transform = [item \in Item |-> WithdrawOnly]
  OBVIOUS
<1>3. IsTransform(transform)
  BY <1>2 DEF IsTransform, WithdrawOnly, Desc, FundType
<1>4. PICK r : r = swap_dust(funds, dust_cleanup_checkpoint, limit, "Waiting",
                             transform, gas)
  OBVIOUS
<1>5. Grows(r.funds, funds) /\ IsCheckpoint(r.next_id, funds)
  BY <1>1, <1>3, <1>4, DustLeavesId
<1>6. /\ funds' = save(r.funds)
      /\ dust_cleanup_checkpoint' = follow(r.next_id, r.funds)
  BY <1>2, <1>4 DEF dust_cleanup_waiting_list
<1> QED BY <1>1, <1>5, <1>6, DustKeepsCheckpoint

(* So does dustCleanupActive, with the swaps that follow it.               *)
LEMMA DustActiveCheckpoint ==
    ASSUME BookInv, CheckpointInv, NEW limit \in DustLimits,
           NEW gas \in GasLimits, dust_cleanup_active(limit, gas)
    PROVE  CheckpointInv'
<1>1. /\ funds \in Seq(Item) /\ gas \in Nat /\ total_delegation_cap \in Nat
      /\ bootstrap_mode \in BOOLEAN
  BY DelegationAssumption DEF BookInv, Basics, FundsInv, Sound, Orderly
<1>2. PICK transform : transform = to_unstaked_at_once
  OBVIOUS
<1>3. IsTransform(transform)
  BY <1>2 DEF IsTransform, to_unstaked_at_once, UnStaked, Desc, FundType
<1>4. PICK r : r = swap_dust(funds, dust_cleanup_checkpoint, limit, "Active",
                             transform, gas)
  OBVIOUS
<1>5. Grows(r.funds, funds) /\ IsCheckpoint(r.next_id, funds)
  BY <1>1, <1>3, <1>4, DustLeavesId
<1>6. PICK rewards : commit_dust(use_waiting_to_replace_unstaked(r.funds,
                                     rewards), r.next_id)
  BY <1>2, <1>4, Zenon DEF dust_cleanup_active, to_unstaked_at_once
<1>7. PICK t : t = use_waiting_to_replace_unstaked(r.funds, rewards)
  OBVIOUS
<1>8. /\ t.ok /\ funds' = save(t.funds)
      /\ dust_cleanup_checkpoint' = follow(r.next_id, t.funds)
  BY <1>6, <1>7 DEF commit_dust
<1>9. Grows(t.funds, r.funds)
  <2>1. r.funds \in Seq(Item)
    BY <1>5 DEF Grows
  <2> QED BY <1>1, <1>7, <1>8, <2>1, UseWaitingGrows
<1>10. Grows(t.funds, funds)
  BY <1>1, <1>5, <1>9, GrowsTransitive
<1> QED BY <1>1, <1>5, <1>8, <1>10, DustKeepsCheckpoint

(* A cap change keeps it, at every step.                                   *)
LEMMA CapCheckpoint ==
    ASSUME BookInv, CheckpointInv, NEW op, OpShape(op), NEW gas \in Nat,
           continue_modify_total_delegation_cap(op, gas)
    PROVE  CheckpointInv'
<1>1. funds \in Seq(Item) /\ num_users \in Nat /\ block_nonce \in Nat
  BY BasicFacts DEF BookInv, FundsInv, Sound, Orderly
<1>2. PICK r : r = cap_steps(op, gas)
  OBVIOUS
<1>3. commit_funds(r.funds)
  BY <1>2 DEF continue_modify_total_delegation_cap, commit_cap,
     commit_global_op
<1>4. Grows(r.funds, funds)
  BY <1>1, <1>2, CapStepsGrow
<1> QED BY <1>1, <1>3, <1>4, CommitKeepsCheckpoint

(* A change of the service fee keeps it, at every step.                    *)
LEMMA FeeCheckpoint ==
    ASSUME BookInv, CheckpointInv, NEW op, NEW gas,
           continue_change_service_fee(op, gas)
    PROVE  CheckpointInv'
<1>1. funds \in Seq(Item)
  BY DEF BookInv, FundsInv, Sound, Orderly
<1>2. PICK r : r = service_fee_steps(op, gas)
  OBVIOUS
<1>3. commit_funds(r.funds)
  BY <1>2 DEF continue_change_service_fee, commit_service_fee,
     commit_global_op
<1>4. Grows(r.funds, funds)
  <2>1. r.funds = funds
    BY <1>2, FeeStepsKeep
  <2> QED BY <1>1, <2>1 DEF Grows
<1> QED BY <1>1, <1>3, <1>4, CommitKeepsCheckpoint

(* raise_cap and lower_cap start a cap change.                             *)
LEMMA StartCapCheckpoint ==
    ASSUME BookInv, CheckpointInv, NEW gas \in Nat, NEW cap \in Nat,
           NEW previous \in Nat,
           \/ cap > previous /\ raise_cap(cap, previous, gas)
           \/ cap < previous /\ lower_cap(cap, previous, gas)
    PROVE  CheckpointInv'
<1>1. num_users \in Nat /\ funds \in Seq(Item)
  BY BasicFacts DEF BookInv, FundsInv, Sound, Orderly
<1>2. PICK o \in Nat : o = 0
  OBVIOUS
<1>3. CASE cap > previous /\ raise_cap(cap, previous, gas)
  <2>1. PICK p \in Nat : p = cap - previous /\ p > 0
    BY <1>3
  <2>2. PICK op : op = ModifyTotalDelegationCap(cap, p, o, o)
    OBVIOUS
  <2>3. OpShape(op)
    BY <1>1, <1>2, <2>1, <2>2, CapOpIsWellFormed
  <2>4. continue_modify_total_delegation_cap(op, gas)
    BY <1>2, <1>3, <2>1, <2>2 DEF raise_cap
  <2> QED BY <2>3, <2>4, CapCheckpoint
<1>4. CASE cap < previous /\ lower_cap(cap, previous, gas)
  <2>1. PICK p \in Nat : p = previous - cap /\ p > 0
    BY <1>4
  <2>2. PICK s \in Nat : s = total_of_type(funds, "UnStaked")
    BY <1>1, TypeTotal
  <2>3. PICK q \in Nat : q = Smaller(p, s) /\ q <= p
    BY DEF Smaller
  <2>4. PICK t \in Nat : t = p - q
    BY <2>3
  <2>5. PICK op : op = ModifyTotalDelegationCap(cap, o, q, t)
    OBVIOUS
  <2>6. o = 0 \/ (q = 0 /\ t = 0)
    BY <1>2
  <2>7. o > 0 \/ q > 0 \/ t > 0
    BY <2>1, <2>3, <2>4
  <2>8. OpShape(op)
    BY <1>1, <2>5, <2>6, <2>7, CapOpIsWellFormed
  <2>9. continue_modify_total_delegation_cap(op, gas)
    BY <1>2, <1>4, <2>1, <2>2, <2>3, <2>4, <2>5 DEF lower_cap
  <2> QED BY <2>8, <2>9, CapCheckpoint
<1> QED BY <1>3, <1>4

(* The checkpoint of the dust cleanups names an item of the book after     *)
(* every step, unless the item it named is gone.                           *)
LEMMA CheckpointStep ==
    ASSUME BookInv, CheckpointInv, Next \/ UNCHANGED vars
    PROVE  CheckpointInv'
<1>1. CASE \E u \in Users, payment \in Payments : stake_endpoint(u, payment)
  BY <1>1, StakeCheckpoint
<1>2. CASE \E u \in Users, amount \in Withdrawals : unstake_endpoint(u, amount)
  BY <1>2, UnstakeCheckpoint
<1>3. CASE \E u \in Users, gas \in GasLimits : unbond_user(u, gas)
  BY <1>3, UnbondCheckpoint
<1>4. CASE UNCHANGED accounts
  BY <1>4 DEF accounts, CheckpointInv, IsCheckpoint
<1>5. CASE \E gas \in GasLimits, cap \in Caps :
              modify_total_delegation_cap(cap, gas)
  <2>1. PICK gas \in GasLimits, cap \in Caps :
           modify_total_delegation_cap(cap, gas)
    BY <1>5
  <2>2. gas \in Nat /\ cap \in Nat /\ total_delegation_cap \in Nat
    BY DelegationAssumption DEF BookInv, Basics
  <2>3. PICK max \in Nat : max = total_of_type(funds, "Active")
                                 + total_of_type(funds, "Waiting")
                                 + total_of_type(funds, "UnStaked")
    <3>1. funds \in Seq(Item)
      BY DEF BookInv, FundsInv, Sound, Orderly
    <3> QED BY <3>1, TypeTotal
  <2>4. \/ UNCHANGED accounts
        \/ cap < max /\ lower_cap(cap, max, gas)
        \/ cap > total_delegation_cap
           /\ raise_cap(cap, total_delegation_cap, gas)
        \/ cap < total_delegation_cap
           /\ lower_cap(cap, total_delegation_cap, gas)
    BY <2>1, <2>3 DEF modify_total_delegation_cap
  <2> QED BY <1>4, <2>2, <2>4, StartCapCheckpoint
<1>6. CASE \E gas \in GasLimits, fee \in Fees :
              set_service_fee_endpoint(fee, gas)
  <2>1. PICK gas \in GasLimits, fee \in Fees :
           set_service_fee_endpoint(fee, gas)
    BY <1>6
  <2>2. \/ UNCHANGED accounts
        \/ continue_change_service_fee(ChangeServiceFee(fee), gas)
    BY <2>1 DEF set_service_fee_endpoint
  <2> QED BY <1>4, <2>2, FeeCheckpoint
<1>7. CASE \E gas \in GasLimits : continue_global_operation_endpoint(gas)
  <2>1. PICK gas \in GasLimits : continue_global_operation_endpoint(gas)
    BY <1>7
  <2>2. gas \in Nat /\ OpShape(global_op)
    BY DelegationAssumption DEF BookInv, Basics, OpInv
  <2>3. \/ continue_modify_total_delegation_cap(global_op, gas)
        \/ continue_change_service_fee(global_op, gas)
    BY <2>1 DEF continue_global_operation_endpoint
  <2> QED BY <2>2, <2>3, CapCheckpoint, FeeCheckpoint
<1>8. CASE \E gas \in GasLimits, limit \in DustLimits :
              dust_cleanup_waiting_list(limit, gas)
  BY <1>8, DustWaitingCheckpoint
<1>9. CASE \E gas \in GasLimits, limit \in DustLimits :
              dust_cleanup_active(limit, gas)
  BY <1>9, DustActiveCheckpoint
<1>10. CASE QuietNext \/ UNCHANGED vars
  <2>1. \/ UNCHANGED accounts
        \/ UNCHANGED <<funds, dust_cleanup_checkpoint>>
    BY <1>10 DEF QuietNext, claim_rewards, set_minimum_stake_endpoint,
       set_n_blocks_before_unbond_endpoint, OwnerSwitches, stake_nodes,
       upgrade, AuctionPaysBack, RewardsArrive, NextBlock, vars
  <2> QED BY <1>4, <2>1 DEF CheckpointInv, IsCheckpoint
<1> QED BY <1>1, <1>2, <1>3, <1>5, <1>6, <1>7, <1>8, <1>9, <1>10, NextCases

(* The items of a sound book have the types of FundItem.                   *)
LEMMA SoundItems ==
    ASSUME FundsInv, Basics, NEW id \in 1 .. Len(funds)
    PROVE  funds[id] \in FundItem
<1>1. /\ funds \in Seq(Item) /\ Total(funds, Strangers(num_users)) = 0
      /\ Total(funds, Later(block_nonce)) = 0
      /\ Everything(funds) <= DepositBound /\ funds[id].balance > 0
  BY DEF FundsInv, Sound, Orderly
<1>2. /\ num_users \in 1 .. NumUsers /\ NumUsers \in Nat
      /\ block_nonce \in 0 .. NonceBound /\ NonceBound \in Nat
      /\ DepositBound \in Nat
  BY DelegationAssumption DEF Basics, Users
<1>3. PICK item \in Item : item = funds[id]
  BY <1>1
<1>4. key(item) \notin Strangers(num_users) /\ key(item) \notin Later(block_nonce)
  BY <1>1, <1>3, NoneOfKind
<1>5. /\ item.user_id \in Nat /\ item.fund_desc.type \in FundType
      /\ item.fund_desc.created \in Nat /\ item.balance \in Nat
      /\ item.fund_desc = [type |-> item.fund_desc.type,
                           created |-> item.fund_desc.created]
      /\ item = [user_id |-> item.user_id, fund_desc |-> item.fund_desc,
                 balance |-> item.balance]
      /\ item.fund_desc \in Desc
  BY DEF Item, Desc
<1>6. key(item) = <<item.user_id, item.fund_desc>> /\ key(item) \in Keys
  BY <1>5 DEF key, Keys
<1>7. item.user_id \in Users
  BY <1>2, <1>4, <1>5, <1>6 DEF Strangers, Users
<1>8. item.fund_desc.created \in 0 .. NonceBound
  BY <1>2, <1>4, <1>5, <1>6 DEF Later
<1>9. item.balance <= DepositBound
  <2>1. PICK f : f = weights(funds, Keys)
    OBVIOUS
  <2>2. \A k \in 1 .. Len(funds) : f[k] \in Nat
    BY <1>1, <2>1, TotalNat
  <2>3. f[id] <= Total(funds, Keys)
    BY <2>1, <2>2, SumMember DEF Total
  <2>4. f[id] = item.balance
    BY <1>3, <1>6, <2>1 DEF weights, weight
  <2>5. Everything(funds) = Total(funds, Keys) /\ Everything(funds) \in Nat
    BY <1>1, EverythingTotal
  <2> QED BY <1>1, <1>2, <1>5, <2>3, <2>4, <2>5
<1>10. item.balance \in 1 .. DepositBound
  BY <1>1, <1>2, <1>3, <1>5, <1>9
<1>11. item \in FundItem
  BY <1>5, <1>7, <1>8, <1>10 DEF FundItem
<1> QED BY <1>3, <1>11

(* Nobody's unclaimed rewards exceed the rewards that arrived.             *)
LEMMA UnclaimedBounded ==
    ASSUME BookInv, RewardInv
    PROVE  unclaimed_to(user_rewards, num_users) <= total_rewards
<1>1. PICK rewards, n, T, S, fs, cap, fee :
        /\ rewards = user_rewards /\ n = num_users /\ T = total_rewards
        /\ S = sent_rewards /\ fs = funds /\ cap = total_delegation_cap
        /\ fee = service_fee
  OBVIOUS
<1>2. /\ T \in Nat /\ S \in Nat /\ Count(n) /\ IsRewards(rewards, T)
  BY <1>1, RewardFacts DEF RewardInv, RewardBasics, RewardsStored
<1>3. PICK sum \in Nat : sum = unclaimed_to(rewards, n)
  BY <1>2, UnclaimedNat
<1>4. CASE Swapping
  <2>1. PICK t \in 0 .. T : sum + S = t
    BY <1>1, <1>3, <1>4 DEF RewardInv, Settled, SettledAt
  <2>2. sum <= T
    BY <1>2, <2>1
  <2> QED BY <1>1, <1>3, <2>2
<1>5. CASE ~ Swapping
  <2>1. /\ Within(fs, cap, fee) /\ Covered(rewards, fs, n, cap, fee, T, S)
    BY <1>1, <1>5 DEF RewardInv, Owing, covered_now
  <2>2. unclaimed_to(rewards, n) + S <= T
    BY ONLY <1>2, <2>1, CoveredBound
  <2>3. sum <= T
    BY <1>2, <1>3, <2>2
  <2> QED BY <1>1, <1>3, <2>3
<1> QED BY <1>4, <1>5

(* The records of the users' rewards.                                      *)
LEMMA RewardRecords ==
    ASSUME BookInv, RewardInv
    PROVE  user_rewards \in [Users -> [reward_checkpoint : 0 .. RewardBound,
                                       unclaimed_rewards : 0 .. RewardBound]]
<1>1. PICK rewards, n, T : /\ rewards = user_rewards /\ n = num_users
                           /\ T = total_rewards
  OBVIOUS
<1>2. /\ T \in Nat /\ T <= RewardBound /\ RewardBound \in Nat /\ Count(n)
      /\ IsRewards(rewards, T) /\ Fresh(rewards, n)
  BY <1>1, RewardFacts, DelegationAssumption
     DEF RewardInv, RewardBasics, RewardsStored
<1>3. PICK sum : sum = unclaimed_to(rewards, n)
  OBVIOUS
<1>4. sum <= T
  BY <1>1, <1>3, UnclaimedBounded
<1>5. ASSUME NEW u \in Users
      PROVE  rewards[u] \in [reward_checkpoint : 0 .. RewardBound,
                             unclaimed_rewards : 0 .. RewardBound]
  <2>1. PICK data : data = rewards[u]
    OBVIOUS
  <2>2. IsData(data, T)
    BY <1>2, <2>1 DEF IsRewards
  <2>3. data.unclaimed_rewards <= T
    <3>1. CASE u > n
      BY <1>2, <2>1, <3>1 DEF Fresh
    <3>2. CASE ~ (u > n)
      <4>1. u \in 1 .. n /\ n \in Nat
        BY <1>2, <3>2 DEF Users, Count
      <4>2. PICK f : f = unclaimed(rewards)
        OBVIOUS
      <4>3. /\ \A k \in 1 .. n : f[k] \in Nat
            /\ f[u] = data.unclaimed_rewards
            /\ SumTo(f, n) = sum /\ sum \in Nat
        BY <1>2, <1>3, <2>1, <4>1, <4>2, UnclaimedNat
      <4>4. f[u] <= SumTo(f, n)
        BY <4>1, <4>3, SumMember
      <4> QED BY <1>2, <1>4, <2>2, <4>3, <4>4 DEF IsData
    <3> QED BY <3>1, <3>2
  <2>4. /\ data.reward_checkpoint \in 0 .. RewardBound
        /\ data.unclaimed_rewards \in 0 .. RewardBound
    BY <1>2, <2>2, <2>3 DEF IsData
  <2> QED BY <2>1, <2>2, <2>4 DEF IsData
<1>6. rewards = [u \in Users |-> rewards[u]]
  BY <1>2 DEF IsRewards
<1>7. rewards \in [Users -> [reward_checkpoint : 0 .. RewardBound,
                             unclaimed_rewards : 0 .. RewardBound]]
  BY <1>5, <1>6
<1> QED BY <1>1, <1>7

(* The operation that is stored between two transactions.                  *)
LEMMA StoredOp ==
    ASSUME BookInv, RewardInv
    PROVE  global_op \in Checkpoints
<1>1. PICK op, T, rewards : /\ op = global_op /\ T = total_rewards
                            /\ rewards = user_rewards
  OBVIOUS
<1>2. /\ IsOp(op) /\ op.last_id <= num_users /\ op.step # "Finished"
      /\ num_users \in Users
  BY <1>1 DEF BookInv, Basics, OpInv, OpShape
<1>3. /\ Counting(op, rewards, T) /\ IsRewards(rewards, T)
      /\ T \in 0 .. RewardBound /\ RewardBound \in Nat
      /\ num_users \in Nat /\ num_users <= NumUsers /\ NumUsers \in Nat
  BY <1>1, <1>2, DelegationAssumption
     DEF RewardInv, RewardBasics, RewardsStored, Users
<1>4. op.last_id \in Nat
  BY <1>2 DEF IsOp
<1>5. op.last_id <= NumUsers
  BY <1>2, <1>3, <1>4
<1>6. op.sum_unclaimed \in Nat
  BY <1>3, <1>4, <1>5, UnclaimedUpTo DEF Counting
<1>7. op.rewards_checkpoint \in 0 .. RewardBound
  BY <1>3 DEF Counting
<1>8. op.last_id \in 0 .. NumUsers
  BY <1>3, <1>4, <1>5
<1>9. op \in Checkpoints
  BY <1>2, <1>6, <1>7, <1>8 DEF IsOp, SwapSteps, Checkpoints
<1> QED BY <1>1, <1>9

(* Every BigUint is a natural, every stored item has an owner, a block     *)
(* that has been and a balance, nobody's unclaimed rewards exceed what     *)
(* arrived, no global operation is stored past its last step, and the dust *)
(* checkpoint names an item of the book or one that is gone.               *)
THEOREM ContractTypeOK ==
    ASSUME CheckedDust
    PROVE  Spec => []TypeOK
<1>1. Init => CheckpointInv
  <2> SUFFICES ASSUME Init PROVE CheckpointInv
    OBVIOUS
  <2>1. funds \in Seq(Item)
    BY InitBook DEF BookInv, FundsInv, Sound, Orderly
  <2>2. dust_cleanup_checkpoint = 0 /\ Len(funds) \in Nat
    BY <2>1 DEF Init
  <2> QED BY <2>2 DEF CheckpointInv, IsCheckpoint
<1>2. BookInv /\ CheckpointInv /\ [Next]_vars => CheckpointInv'
  BY CheckpointStep
<1>3. ContractInv => BookInv
  BY DEF ContractInv
<1>4. ContractInv /\ CheckpointInv /\ SettingsInv => TypeOK
  <2> SUFFICES ASSUME ContractInv, CheckpointInv, SettingsInv PROVE TypeOK
    OBVIOUS
  <2>1. BookInv /\ RewardInv /\ L!IInv /\ FundsInv /\ Basics
    BY DEF ContractInv, BookInv
  <2>2. \A id \in 1 .. Len(funds) : funds[id] \in FundItem
    BY <2>1, SoundItems
  <2>3. sc_balance \in Nat /\ auction_stake \in Nat
    BY <2>1 DEF L!IInv, L!TypeOK
  <2>4. /\ total_rewards \in 0 .. RewardBound /\ sent_rewards \in Nat
        /\ service_fee \in Fees
    BY <2>1 DEF RewardInv, RewardBasics
  <2>5. /\ num_users \in Users /\ total_delegation_cap \in Nat
        /\ bootstrap_mode \in BOOLEAN /\ block_nonce \in 0 .. NonceBound
    BY <2>1 DEF Basics
  <2> QED BY <2>1, <2>2, <2>3, <2>4, <2>5, RewardRecords, StoredOp
          DEF TypeOK, SettingsInv, CheckpointInv, IsCheckpoint
<1> QED BY <1>1, <1>2, <1>3, <1>4, ContractIsSound, SettingsHold, PTL DEF Spec

=============================================================================
