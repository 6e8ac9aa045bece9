--------------------------- MODULE FundBookProofs ---------------------------
(***************************************************************************)
(* What the operations of FundBook do to the sum of any kind of fund, for  *)
(* every list of items: the lemmas behind the theorems about the contract. *)
(*                                                                         *)
(* Sums, lists and loops are recursive functions. Facts about them are     *)
(* proved by induction, for which a set of numbers stands in place of the  *)
(* predicate: a set that has 0 and with every number the next one has them *)
(* all (NatSetInduction below).                                            *)
(***************************************************************************)
EXTENDS FundBook, SequenceTheorems, WellFoundedInduction, TLAPS

-----------------------------------------------------------------------------
(* Induction *)

(* A set of naturals that is not empty has a least element.                *)
LEMMA LeastNatural ==
    ASSUME NEW S \in SUBSET Nat, S # {}
    PROVE  \E m \in S : \A k \in S : m <= k
<1>1. PICK x \in S : \A y \in S : <<y, x>> \notin OpToRel(<, Nat)
  BY NatLessThanWellFounded, WFMin, Zenon
<1>2. ASSUME NEW k \in S PROVE x <= k
  <2>1. <<k, x>> \notin OpToRel(<, Nat)
    BY <1>1, Zenon
  <2>2. ~ (k < x)
    BY <2>1 DEF OpToRel
  <2> QED BY <2>2
<1> QED BY <1>1, <1>2

(* What holds of 0 and is passed on to the successor holds of every        *)
(* natural number.                                                         *)
LEMMA NatSetInduction ==
    ASSUME NEW S, 0 \in S, \A n \in Nat : n \in S => n + 1 \in S
    PROVE  Nat \subseteq S
<1>1. SUFFICES ASSUME Nat \ S # {} PROVE FALSE
  OBVIOUS
<1>2. PICK m \in Nat \ S : \A k \in Nat \ S : m <= k
  BY <1>1, LeastNatural
<1>3. m - 1 \in Nat /\ m - 1 \in S
  BY <1>2
<1> QED BY <1>2, <1>3

(* The same up to a bound.                                                 *)
LEMMA RangeInduction ==
    ASSUME NEW N \in Nat, NEW S, 0 \in S,
           \A n \in 0 .. N - 1 : n \in S => n + 1 \in S
    PROVE  0 .. N \subseteq S
<1> DEFINE T == { n \in Nat : n <= N => n \in S }
<1>1. 0 \in T
  OBVIOUS
<1>2. ASSUME NEW n \in Nat, n \in T PROVE n + 1 \in T
  BY <1>2
<1>3. Nat \subseteq T
  <2> HIDE DEF T
  <2> QED BY <1>1, <1>2, NatSetInduction
<1> QED BY <1>3

-----------------------------------------------------------------------------
(* Sums *)

IsSum(s, f, n) == s = [k \in 0 .. n |-> IF k = 0 THEN 0 ELSE s[k - 1] + f[k]]

(* The recursive function of SumTo exists.                                 *)
LEMMA SumExists ==
    ASSUME NEW f, NEW N \in Nat
    PROVE  \E s : IsSum(s, f, N)
<1> DEFINE T == { n \in Nat : \E s : IsSum(s, f, n) }
<1>1. 0 \in T
  <2>1. IsSum([k \in 0 .. 0 |-> 0], f, 0)
    BY DEF IsSum
  <2> QED BY <2>1
<1>2. ASSUME NEW n \in Nat, n \in T PROVE n + 1 \in T
  <2>1. PICK s : IsSum(s, f, n)
    BY <1>2
  <2> DEFINE t == [k \in 0 .. n + 1 |->
                      IF k <= n THEN s[k] ELSE s[n] + f[n + 1]]
  <2>2. ASSUME NEW k \in 0 .. n + 1
        PROVE  t[k] = IF k = 0 THEN 0 ELSE t[k - 1] + f[k]
    <3>1. CASE k = 0
      BY <3>1, <2>1 DEF IsSum
    <3>2. CASE k \in 1 .. n
      <4>1. s[k] = s[k - 1] + f[k]
        BY <2>1, <3>2 DEF IsSum
      <4> QED BY <4>1, <3>2
    <3>3. CASE k = n + 1
      BY <3>3
    <3> QED BY <3>1, <3>2, <3>3
  <2>3. IsSum(t, f, n + 1)
    <3> HIDE DEF t
    <3>1. t = [k \in 0 .. n + 1 |-> t[k]]
      BY DEF t
    <3> QED BY <2>2, <3>1 DEF IsSum
  <2> QED BY <2>3
<1>3. Nat \subseteq T
  <2> HIDE DEF T
  <2> QED BY <1>1, <1>2, NatSetInduction
<1> QED BY <1>3

(* SumTo reads the last value of the function of partial sums.             *)
LEMMA SumIsSum ==
    ASSUME NEW f, NEW n \in Nat
    PROVE  \E s : IsSum(s, f, n) /\ SumTo(f, n) = s[n]
<1> DEFINE sum == CHOOSE s : IsSum(s, f, n)
<1>1. IsSum(sum, f, n)
  BY SumExists
<1>2. SumTo(f, n) = sum[n]
  BY DEF SumTo, IsSum
<1> HIDE DEF sum
<1> QED BY <1>1, <1>2

(* Two sums of functions that agree up to n agree up to n.                 *)
LEMMA SumUnique ==
    ASSUME NEW f, NEW g, NEW m \in Nat, NEW p \in Nat, NEW s, NEW t,
           NEW n \in Nat, n \in 0 .. m, n \in 0 .. p,
           IsSum(s, f, m), IsSum(t, g, p),
           \A k \in 1 .. n : f[k] = g[k]
    PROVE  s[n] = t[n]
<1> DEFINE S == { k \in Nat : s[k] = t[k] }
<1>1. 0 \in S
  BY DEF IsSum
<1>2. ASSUME NEW k \in 0 .. n - 1, k \in S PROVE k + 1 \in S
  <2>1. s[k + 1] = s[k] + f[k + 1] /\ t[k + 1] = t[k] + g[k + 1]
    <3>1. k + 1 \in 0 .. m /\ k + 1 \in 0 .. p /\ k + 1 # 0
          /\ (k + 1) - 1 = k
      OBVIOUS
    <3> QED BY <3>1 DEF IsSum
  <2> QED BY <1>2, <2>1
<1>3. 0 .. n \subseteq S
  <2> HIDE DEF S
  <2> QED BY <1>1, <1>2, RangeInduction
<1> QED BY <1>3

(* A sum depends on what is summed only.                                   *)
LEMMA SumSame ==
    ASSUME NEW f, NEW g, NEW n \in Nat, \A k \in 1 .. n : f[k] = g[k]
    PROVE  SumTo(f, n) = SumTo(g, n)
<1>1. PICK s : IsSum(s, f, n) /\ SumTo(f, n) = s[n]
  BY SumIsSum
<1>2. PICK t : IsSum(t, g, n) /\ SumTo(g, n) = t[n]
  BY SumIsSum
<1>3. IsSum(s, f, n) /\ IsSum(t, g, n) /\ n \in 0 .. n
  BY <1>1, <1>2
<1>4. s[n] = t[n]
  BY <1>3, SumUnique
<1> QED BY <1>1, <1>2, <1>4

(* The sum of no terms is zero.                                            *)
LEMMA SumZero ==
    ASSUME NEW f PROVE SumTo(f, 0) = 0
BY SumIsSum DEF IsSum

(* A sum with one more term.                                               *)
LEMMA SumStep ==
    ASSUME NEW f, NEW n \in Nat
    PROVE  SumTo(f, n + 1) = SumTo(f, n) + f[n + 1]
<1>1. PICK s : IsSum(s, f, n) /\ SumTo(f, n) = s[n]
  BY SumIsSum
<1>2. PICK t : IsSum(t, f, n + 1) /\ SumTo(f, n + 1) = t[n + 1]
  BY SumIsSum
<1>3. s[n] = t[n]
  <2>1. n \in 0 .. n /\ n \in 0 .. n + 1
    OBVIOUS
  <2> QED BY <1>1, <1>2, <2>1, SumUnique
<1>4. t[n + 1] = t[n] + f[n + 1]
  <2>1. n + 1 \in 0 .. n + 1 /\ n + 1 # 0 /\ (n + 1) - 1 = n
    OBVIOUS
  <2> QED BY <1>2, <2>1 DEF IsSum
<1> QED BY <1>1, <1>2, <1>3, <1>4

(* A sum of naturals is a natural.                                         *)
LEMMA SumNat ==
    ASSUME NEW f, NEW n \in Nat, \A k \in 1 .. n : f[k] \in Nat
    PROVE  SumTo(f, n) \in Nat
<1> DEFINE S == { k \in Nat : SumTo(f, k) \in Nat }
<1>1. 0 \in S
  BY SumZero
<1>2. ASSUME NEW k \in 0 .. n - 1, k \in S PROVE k + 1 \in S
  BY <1>2, SumStep
<1>3. 0 .. n \subseteq S
  <2> HIDE DEF S
  <2> QED BY <1>1, <1>2, RangeInduction
<1> QED BY <1>3

(* A sum of zeros is zero.                                                 *)
LEMMA SumOfZeros ==
    ASSUME NEW f, NEW n \in Nat, \A k \in 1 .. n : f[k] = 0
    PROVE  SumTo(f, n) = 0
<1> DEFINE S == { k \in Nat : SumTo(f, k) = 0 }
<1>1. 0 \in S
  BY SumZero
<1>2. ASSUME NEW k \in 0 .. n - 1, k \in S PROVE k + 1 \in S
  BY <1>2, SumStep
<1>3. 0 .. n \subseteq S
  <2> HIDE DEF S
  <2> QED BY <1>1, <1>2, RangeInduction
<1> QED BY <1>3

(* The sum of the termwise sums is the sum of the sums.                    *)
LEMMA SumAdd ==
    ASSUME NEW f, NEW g, NEW h, NEW n \in Nat,
           \A k \in 1 .. n : /\ f[k] \in Nat /\ g[k] \in Nat
                             /\ h[k] = f[k] + g[k]
    PROVE  SumTo(h, n) = SumTo(f, n) + SumTo(g, n)
<1> DEFINE S == { k \in Nat : /\ SumTo(f, k) \in Nat /\ SumTo(g, k) \in Nat
                              /\ SumTo(h, k) = SumTo(f, k) + SumTo(g, k) }
<1>1. 0 \in S
  BY SumZero
<1>2. ASSUME NEW k \in 0 .. n - 1, k \in S PROVE k + 1 \in S
  <2>1. /\ SumTo(f, k + 1) = SumTo(f, k) + f[k + 1]
        /\ SumTo(g, k + 1) = SumTo(g, k) + g[k + 1]
        /\ SumTo(h, k + 1) = SumTo(h, k) + h[k + 1]
    BY SumStep
  <2> QED BY <1>2, <2>1
<1>3. 0 .. n \subseteq S
  <2> HIDE DEF S
  <2> QED BY <1>1, <1>2, RangeInduction
<1> QED BY <1>3

(* Larger terms have a larger sum.                                         *)
LEMMA SumMonotone ==
    ASSUME NEW f, NEW g, NEW n \in Nat,
           \A k \in 1 .. n : f[k] \in Nat /\ g[k] \in Nat /\ f[k] <= g[k]
    PROVE  SumTo(f, n) <= SumTo(g, n)
<1> DEFINE S == { k \in Nat : /\ SumTo(f, k) \in Nat /\ SumTo(g, k) \in Nat
                              /\ SumTo(f, k) <= SumTo(g, k) }
<1>1. 0 \in S
  BY SumZero
<1>2. ASSUME NEW k \in 0 .. n - 1, k \in S PROVE k + 1 \in S
  <2>1. /\ SumTo(f, k + 1) = SumTo(f, k) + f[k + 1]
        /\ SumTo(g, k + 1) = SumTo(g, k) + g[k + 1]
    BY SumStep
  <2> QED BY <1>2, <2>1
<1>3. 0 .. n \subseteq S
  <2> HIDE DEF S
  <2> QED BY <1>1, <1>2, RangeInduction
<1> QED BY <1>3

(* Changing one term changes the sum by as much.                           *)
LEMMA SumPoint ==
    ASSUME NEW f, NEW g, NEW n \in Nat, NEW i \in 1 .. n,
           \A k \in 1 .. n : f[k] \in Nat /\ g[k] \in Nat,
           \A k \in 1 .. n : k # i => f[k] = g[k]
    PROVE  SumTo(g, n) = SumTo(f, n) + g[i] - f[i]
<1> DEFINE S == { k \in Nat : /\ SumTo(f, k) \in Nat /\ SumTo(g, k) \in Nat
                              /\ SumTo(g, k) = IF i <= k
                                    THEN SumTo(f, k) + g[i] - f[i]
                                    ELSE SumTo(f, k) }
<1>1. 0 \in S
  BY SumZero
<1>2. ASSUME NEW k \in 0 .. n - 1, k \in S PROVE k + 1 \in S
  <2>1. /\ SumTo(f, k + 1) = SumTo(f, k) + f[k + 1]
        /\ SumTo(g, k + 1) = SumTo(g, k) + g[k + 1]
    BY SumStep
  <2> QED BY <1>2, <2>1
<1>3. 0 .. n \subseteq S
  <2> HIDE DEF S
  <2> QED BY <1>1, <1>2, RangeInduction
<1> QED BY <1>3

(* No term exceeds the sum.                                                *)
LEMMA SumMember ==
    ASSUME NEW f, NEW n \in Nat, NEW i \in 1 .. n,
           \A k \in 1 .. n : f[k] \in Nat
    PROVE  f[i] <= SumTo(f, n)
<1> DEFINE g == [k \in 1 .. n |-> IF k = i THEN 0 ELSE f[k]]
<1>1. /\ \A k \in 1 .. n : g[k] \in Nat
      /\ \A k \in 1 .. n : k # i => f[k] = g[k]
      /\ g[i] = 0
  OBVIOUS
<1> HIDE DEF g
<1>2. SumTo(g, n) = SumTo(f, n) + g[i] - f[i]
  BY <1>1, SumPoint
<1>3. SumTo(g, n) \in Nat /\ SumTo(f, n) \in Nat
  BY <1>1, SumNat
<1> QED BY <1>1, <1>2, <1>3

-----------------------------------------------------------------------------
(* The balance of all funds of some kind.  A kind is a set of keys: pairs  *)
(* of a user and a description.                                            *)

Desc == [type : FundType, created : Nat]

key(item) == <<item.user_id, item.fund_desc>>

weight(item, K) == IF key(item) \in K THEN item.balance ELSE 0

weights(fs, K) == [n \in 1 .. Len(fs) |-> weight(fs[n], K)]

Total(fs, K) == SumTo(weights(fs, K), Len(fs))

Keys == Nat \X Desc
OfType(t) == { k \in Keys : k[2].type = t }
OfUser(u) == { k \in Keys : k[1] = u }

(* The fields of an item have their types.                                 *)
LEMMA ItemFields ==
    ASSUME NEW item \in Item
    PROVE  /\ item.user_id \in Nat /\ item.balance \in Nat
           /\ item.fund_desc \in Desc
           /\ item.fund_desc.type \in FundType
           /\ item.fund_desc.created \in Nat
           /\ key(item) \in Keys
BY DEF Item, Desc, Keys, key

(* A total is a natural, and so is every weight it adds.                   *)
LEMMA TotalNat ==
    ASSUME NEW fs \in Seq(Item), NEW K
    PROVE  /\ Total(fs, K) \in Nat
           /\ \A n \in 1 .. Len(fs) : weights(fs, K)[n] \in Nat
<1>1. \A n \in 1 .. Len(fs) : weights(fs, K)[n] \in Nat
  BY ItemFields DEF weights, weight
<1> QED BY <1>1, SumNat DEF Total

(* The sums of the contract are of this form.                              *)
LEMMA SumOfIsTotal ==
    ASSUME NEW fs \in Seq(Item), NEW ids, NEW K,
           \A n \in 1 .. Len(fs) : n \in ids <=> key(fs[n]) \in K
    PROVE  sum_of(fs, ids) = Total(fs, K)
<1> DEFINE f == [n \in 1 .. Len(fs) |->
                    IF n \in ids THEN fs[n].balance ELSE 0]
<1>1. \A n \in 1 .. Len(fs) : f[n] = weights(fs, K)[n]
  BY DEF weights, weight
<1>2. SumTo(f, Len(fs)) = SumTo(weights(fs, K), Len(fs))
  <2> HIDE DEF f
  <2>1. Len(fs) \in Nat
    OBVIOUS
  <2> QED BY <1>1, <2>1, SumSame
<1> QED BY <1>2 DEF sum_of, Total

(* The query total_of_type is the total of the kinds of that type.         *)
LEMMA TypeTotal ==
    ASSUME NEW fs \in Seq(Item), NEW t
    PROVE  /\ total_of_type(fs, t) = Total(fs, OfType(t))
           /\ total_of_type(fs, t) \in Nat
<1>1. \A n \in 1 .. Len(fs) : /\ fs[n] \in Item
                              /\ key(fs[n]) \in Keys
                              /\ key(fs[n])[2] = fs[n].fund_desc
  BY ItemFields DEF key
<1>2. \A n \in 1 .. Len(fs) :
         n \in of_type(fs, t) <=> key(fs[n]) \in OfType(t)
  BY <1>1 DEF of_type, OfType
<1> QED BY <1>2, SumOfIsTotal, TotalNat DEF total_of_type

(* The query get_user_stake_of_type is the total of the kinds of that user *)
(* and type.                                                               *)
LEMMA UserTypeTotal ==
    ASSUME NEW fs \in Seq(Item), NEW u, NEW t
    PROVE  /\ get_user_stake_of_type(fs, u, t)
                 = Total(fs, OfUser(u) \cap OfType(t))
           /\ get_user_stake_of_type(fs, u, t) \in Nat
<1> DEFINE K == OfUser(u) \cap OfType(t)
           ids == of_user(fs, u) \cap of_type(fs, t)
<1>1. \A n \in 1 .. Len(fs) : /\ n \in DOMAIN fs
                              /\ key(fs[n]) \in Keys
                              /\ key(fs[n])[1] = fs[n].user_id
                              /\ key(fs[n])[2] = fs[n].fund_desc
  BY ItemFields DEF key
<1>2. \A n \in 1 .. Len(fs) : n \in ids <=> key(fs[n]) \in K
  BY <1>1 DEF of_user, of_type, OfUser, OfType
<1>3. get_user_stake_of_type(fs, u, t) = sum_of(fs, ids)
  BY DEF get_user_stake_of_type
<1> HIDE DEF K, ids
<1>4. sum_of(fs, ids) = Total(fs, K)
  BY <1>2, SumOfIsTotal
<1>5. Total(fs, K) \in Nat
  BY TotalNat
<1> QED BY <1>3, <1>4, <1>5 DEF K

(* All a user has is the total of the kinds of that user.                  *)
LEMMA UserTotal ==
    ASSUME NEW fs \in Seq(Item), NEW u
    PROVE  sum_of(fs, of_user(fs, u)) = Total(fs, OfUser(u))
<1>1. \A n \in 1 .. Len(fs) : /\ fs[n] \in Item
                              /\ key(fs[n]) \in Keys
                              /\ key(fs[n])[1] = fs[n].user_id
  BY ItemFields DEF key
<1>2. \A n \in 1 .. Len(fs) :
         n \in of_user(fs, u) <=> key(fs[n]) \in OfUser(u)
  BY <1>1 DEF of_user, OfUser
<1> QED BY <1>2, SumOfIsTotal

(* Everything in the book is the total of all the kinds.                   *)
LEMMA EverythingTotal ==
    ASSUME NEW fs \in Seq(Item)
    PROVE  Everything(fs) = Total(fs, Keys) /\ Everything(fs) \in Nat
<1> DEFINE ids == DOMAIN fs
<1>1. \A n \in 1 .. Len(fs) : n \in ids <=> key(fs[n]) \in Keys
  BY ItemFields
<1>2. Everything(fs) = sum_of(fs, ids)
  BY DEF Everything
<1> HIDE DEF ids
<1> QED BY <1>1, <1>2, SumOfIsTotal, TotalNat

(* Kinds that have nothing in common add up.                               *)
LEMMA TotalUnion ==
    ASSUME NEW fs \in Seq(Item), NEW J, NEW K, NEW M, K \cap M = {},
           J = K \cup M
    PROVE  Total(fs, J) = Total(fs, K) + Total(fs, M)
<1>1. \A n \in 1 .. Len(fs) :
         /\ weights(fs, K)[n] \in Nat /\ weights(fs, M)[n] \in Nat
         /\ weights(fs, J)[n] = weights(fs, K)[n] + weights(fs, M)[n]
  BY ItemFields DEF weights, weight
<1>2. Len(fs) \in Nat
  OBVIOUS
<1>3. SumTo(weights(fs, J), Len(fs))
        = SumTo(weights(fs, K), Len(fs)) + SumTo(weights(fs, M), Len(fs))
  BY ONLY <1>1, <1>2, SumAdd
<1> QED BY <1>3 DEF Total

(* More kinds have a larger total.                                         *)
LEMMA TotalSubset ==
    ASSUME NEW fs \in Seq(Item), NEW K, NEW M, K \subseteq M
    PROVE  Total(fs, K) <= Total(fs, M)
<1>1. \A n \in 1 .. Len(fs) :
         /\ weights(fs, K)[n] \in Nat /\ weights(fs, M)[n] \in Nat
         /\ weights(fs, K)[n] <= weights(fs, M)[n]
  BY ItemFields DEF weights, weight
<1>2. Len(fs) \in Nat
  OBVIOUS
<1> QED BY <1>1, <1>2, SumMonotone DEF Total

(* Only the items of a kind that have a balance count.                     *)
LEMMA TotalSameKind ==
    ASSUME NEW fs \in Seq(Item), NEW K, NEW M,
           \A n \in 1 .. Len(fs) : fs[n].balance > 0 =>
                (key(fs[n]) \in K <=> key(fs[n]) \in M)
    PROVE  Total(fs, K) = Total(fs, M)
<1>1. \A n \in 1 .. Len(fs) : weights(fs, K)[n] = weights(fs, M)[n]
  BY ItemFields DEF weights, weight
<1>2. Len(fs) \in Nat
  OBVIOUS
<1> QED BY <1>1, <1>2, SumSame DEF Total

(* A kind of which every item is empty has the total zero.                 *)
LEMMA TotalOfNothing ==
    ASSUME NEW fs \in Seq(Item), NEW K,
           \A n \in 1 .. Len(fs) : key(fs[n]) \in K => fs[n].balance = 0
    PROVE  Total(fs, K) = 0
<1>1. \A n \in 1 .. Len(fs) : weights(fs, K)[n] = 0
  BY DEF weights, weight
<1>2. Len(fs) \in Nat
  OBVIOUS
<1> QED BY <1>1, <1>2, SumOfZeros DEF Total

(* A new item adds its own weight to a total.                              *)
LEMMA TotalAppend ==
    ASSUME NEW fs \in Seq(Item), NEW item \in Item, NEW K
    PROVE  Total(Append(fs, item), K) = Total(fs, K) + weight(item, K)
<1> DEFINE gs == Append(fs, item)
<1>1. gs \in Seq(Item) /\ Len(gs) = Len(fs) + 1 /\ Len(fs) \in Nat
  OBVIOUS
<1>2. \A n \in 1 .. Len(fs) : gs[n] = fs[n]
  OBVIOUS
<1>3. gs[Len(fs) + 1] = item
  OBVIOUS
<1> HIDE DEF gs
<1>4. \A n \in 1 .. Len(fs) : weights(gs, K)[n] = weights(fs, K)[n]
  BY <1>1, <1>2 DEF weights
<1>5. SumTo(weights(gs, K), Len(fs)) = SumTo(weights(fs, K), Len(fs))
  BY <1>1, <1>4, SumSame
<1>6. weights(gs, K)[Len(fs) + 1] = weight(item, K)
  BY <1>1, <1>3 DEF weights
<1>7. SumTo(weights(gs, K), Len(fs) + 1)
        = SumTo(weights(gs, K), Len(fs)) + weights(gs, K)[Len(fs) + 1]
  BY <1>1, SumStep
<1>8. Total(gs, K) = Total(fs, K) + weight(item, K)
  BY <1>1, <1>5, <1>6, <1>7 DEF Total
<1> QED BY <1>8 DEF gs

(* One item is replaced.                                                   *)
LEMMA TotalReplace ==
    ASSUME NEW fs \in Seq(Item), NEW gs \in Seq(Item), Len(gs) = Len(fs),
           NEW i \in 1 .. Len(fs), NEW K,
           \A n \in 1 .. Len(fs) : n # i => gs[n] = fs[n]
    PROVE  Total(gs, K) = Total(fs, K) + weight(gs[i], K) - weight(fs[i], K)
<1>1. \A n \in 1 .. Len(fs) : /\ weights(fs, K)[n] \in Nat
                              /\ weights(gs, K)[n] \in Nat
  BY TotalNat
<1>2. \A n \in 1 .. Len(fs) : n # i => weights(fs, K)[n] = weights(gs, K)[n]
  BY DEF weights
<1>3. /\ weights(gs, K)[i] = weight(gs[i], K)
      /\ weights(fs, K)[i] = weight(fs[i], K)
      /\ Len(fs) \in Nat
  BY DEF weights
<1> QED BY <1>1, <1>2, <1>3, SumPoint DEF Total

-----------------------------------------------------------------------------
(* Lists *)

(* One step of list_of.                                                    *)
grown(a, k, ids, fs) ==
    IF k \in ids /\ fs[k].balance > 0 THEN Append(a, k) ELSE a

IsList(l, ids, fs, n) ==
    l = [k \in 0 .. n |->
            IF k = 0 THEN <<>> ELSE grown(l[k - 1], k, ids, fs)]

(* The steps by which a fund list grows.                                   *)
LEMMA ListAt ==
    ASSUME NEW fs, NEW ids, NEW n \in Nat, NEW l, IsList(l, ids, fs, n)
    PROVE  /\ l[0] = <<>>
           /\ \A k \in 1 .. n : l[k] = grown(l[k - 1], k, ids, fs)
BY DEF IsList

(* The recursive function of list_of exists.                               *)
LEMMA ListExists ==
    ASSUME NEW fs, NEW ids, NEW N \in Nat
    PROVE  \E l : IsList(l, ids, fs, N)
<1> DEFINE T == { n \in Nat : \E l : IsList(l, ids, fs, n) }
<1>1. 0 \in T
  <2>1. IsList([k \in 0 .. 0 |-> <<>>], ids, fs, 0)
    BY DEF IsList
  <2> QED BY <2>1
<1>2. ASSUME NEW n \in Nat, n \in T PROVE n + 1 \in T
  <2>1. PICK l : IsList(l, ids, fs, n)
    BY <1>2
  <2>2. /\ l[0] = <<>>
        /\ \A k \in 1 .. n : l[k] = grown(l[k - 1], k, ids, fs)
    BY <2>1, ListAt
  <2> DEFINE t == [k \in 0 .. n + 1 |->
                      IF k <= n THEN l[k] ELSE grown(l[n], n + 1, ids, fs)]
  <2>3. ASSUME NEW k \in 0 .. n + 1
        PROVE  t[k] = IF k = 0 THEN <<>> ELSE grown(t[k - 1], k, ids, fs)
    <3>1. CASE k = 0
      BY <2>2, <3>1
    <3>2. CASE k \in 1 .. n
      BY <2>2, <3>2
    <3>3. CASE k = n + 1
      BY <3>3
    <3> QED BY <3>1, <3>2, <3>3
  <2>4. IsList(t, ids, fs, n + 1)
    <3> HIDE DEF t
    <3>1. t = [k \in 0 .. n + 1 |-> t[k]]
      BY DEF t
    <3> QED BY <2>3, <3>1, Zenon DEF IsList
  <2> QED BY <2>4
<1>3. Nat \subseteq T
  <2> HIDE DEF T
  <2> QED BY <1>1, <1>2, NatSetInduction
<1> QED BY <1>3

(* The ids of a list: some of the live ones, each one once.                *)
IsIds(list, fs) ==
    /\ list \in Seq(1 .. Len(fs))
    /\ Len(list) <= Len(fs)
    /\ \A i \in 1 .. Len(list) : fs[list[i]].balance > 0
    /\ \A i, j \in 1 .. Len(list) : i # j => list[i] # list[j]

Lists(list, ids, fs) ==
    /\ \A i \in 1 .. Len(list) : list[i] \in ids
    /\ \A id \in 1 .. Len(fs) : id \in ids /\ fs[id].balance > 0 =>
          \E i \in 1 .. Len(list) : list[i] = id

(* What list_of has made of the first k items.                             *)
ListInv(a, k, ids, fs) ==
    /\ a \in Seq(1 .. Len(fs))
    /\ Len(a) <= k
    /\ \A i \in 1 .. Len(a) : /\ a[i] \in ids /\ a[i] <= k
                              /\ fs[a[i]].balance > 0
    /\ \A i, j \in 1 .. Len(a) : i # j => a[i] # a[j]
    /\ \A id \in 1 .. k : id \in ids /\ fs[id].balance > 0 =>
          \E i \in 1 .. Len(a) : a[i] = id

(* The next item keeps what holds of the list so far.                      *)
LEMMA ListInvStep ==
    ASSUME NEW fs \in Seq(Item), NEW ids, NEW k \in Nat, k + 1 <= Len(fs),
           NEW a, ListInv(a, k, ids, fs)
    PROVE  ListInv(grown(a, k + 1, ids, fs), k + 1, ids, fs)
<1> DEFINE N == Len(fs)
<1>1. /\ a \in Seq(1 .. N) /\ Len(a) \in Nat /\ N \in Nat
      /\ \A i \in 1 .. Len(a) : a[i] \in 1 .. N
      /\ k + 1 \in 1 .. N
  BY DEF ListInv
<1>2. /\ Len(a) <= k
      /\ \A i \in 1 .. Len(a) : /\ a[i] \in ids /\ a[i] <= k
                                /\ fs[a[i]].balance > 0
      /\ \A i, j \in 1 .. Len(a) : i # j => a[i] # a[j]
      /\ \A id \in 1 .. k : id \in ids /\ fs[id].balance > 0 =>
            \E i \in 1 .. Len(a) : a[i] = id
  BY DEF ListInv
<1> HIDE DEF N
<1>3. CASE k + 1 \in ids /\ fs[k + 1].balance > 0
  <2>1. PICK b : b = Append(a, k + 1)
    OBVIOUS
  <2>2. /\ b \in Seq(1 .. N) /\ Len(b) = Len(a) + 1
        /\ \A i \in 1 .. Len(a) : b[i] = a[i]
        /\ b[Len(a) + 1] = k + 1
    BY <1>1, <2>1
  <2>3. \A i \in 1 .. Len(b) : i \in 1 .. Len(a) \/ i = Len(a) + 1
    BY <1>1, <2>2
  <2>4. \A i \in 1 .. Len(a) : a[i] \in Nat
    BY <1>1
  <2>5. ASSUME NEW i \in 1 .. Len(b)
        PROVE  b[i] \in ids /\ b[i] <= k + 1 /\ fs[b[i]].balance > 0
    <3>1. CASE i \in 1 .. Len(a)
      BY <1>2, <2>2, <2>4, <3>1
    <3>2. CASE i = Len(a) + 1
      BY <1>3, <2>2, <3>2
    <3> QED BY <2>3, <3>1, <3>2
  <2>6. ASSUME NEW i \in 1 .. Len(b), NEW j \in 1 .. Len(b), i # j
        PROVE  b[i] # b[j]
    <3>1. CASE i \in 1 .. Len(a) /\ j \in 1 .. Len(a)
      BY <1>2, <2>2, <2>6, <3>1
    <3>2. CASE i \in 1 .. Len(a) /\ j = Len(a) + 1
      <4>1. b[i] <= k
        BY <1>2, <2>2, <3>2
      <4> QED BY <2>2, <2>4, <3>2, <4>1
    <3>3. CASE i = Len(a) + 1 /\ j \in 1 .. Len(a)
      <4>1. b[j] <= k
        BY <1>2, <2>2, <3>3
      <4> QED BY <2>2, <2>4, <3>3, <4>1
    <3> QED BY <2>3, <2>6, <3>1, <3>2, <3>3
  <2>7. ASSUME NEW id \in 1 .. k + 1, id \in ids, fs[id].balance > 0
        PROVE  \E i \in 1 .. Len(b) : b[i] = id
    <3>1. CASE id = k + 1
      <4>1. Len(a) + 1 \in 1 .. Len(b) /\ b[Len(a) + 1] = id
        BY <1>1, <2>2, <3>1
      <4> QED BY ONLY <4>1
    <3>2. CASE id \in 1 .. k
      <4>1. PICK i \in 1 .. Len(a) : a[i] = id
        BY <1>2, <2>7, <3>2
      <4>2. i \in 1 .. Len(b) /\ b[i] = id
        <5>1. i \in 1 .. Len(b)
          BY ONLY <1>1, <2>2, i \in 1 .. Len(a)
        <5> QED BY ONLY <2>2, <4>1, <5>1, i \in 1 .. Len(a)
      <4> QED BY ONLY <4>2
    <3> QED BY <3>1, <3>2
  <2>8. ListInv(b, k + 1, ids, fs)
    BY <1>1, <1>2, <2>2, <2>5, <2>6, <2>7 DEF ListInv, N
  <2> QED BY <1>3, <2>1, <2>8 DEF grown
<1>4. CASE ~ (k + 1 \in ids /\ fs[k + 1].balance > 0)
  <2>1. /\ Len(a) <= k + 1
        /\ \A i \in 1 .. Len(a) : a[i] <= k + 1
    BY <1>1, <1>2
  <2>2. \A id \in 1 .. k + 1 : id \in ids /\ fs[id].balance > 0 =>
           id \in 1 .. k
    BY <1>4
  <2>3. ListInv(a, k + 1, ids, fs)
    BY <1>1, <1>2, <2>1, <2>2 DEF ListInv, N
  <2> QED BY <1>4, <2>3 DEF grown
<1> QED BY <1>3, <1>4

(* list_of lists each of the live ids once.                                *)
LEMMA ListOf ==
    ASSUME NEW fs \in Seq(Item), NEW ids
    PROVE  IsIds(list_of(fs, ids), fs) /\ Lists(list_of(fs, ids), ids, fs)
<1> DEFINE N == Len(fs)
           l == CHOOSE x : IsList(x, ids, fs, N)
<1>1. N \in Nat
  OBVIOUS
<1>2. IsList(l, ids, fs, N)
  BY <1>1, ListExists
<1>3. list_of(fs, ids) = l[N]
  BY DEF list_of, IsList, grown
<1> HIDE DEF l, N
<1> DEFINE S == { k \in Nat : ListInv(l[k], k, ids, fs) }
<1>4. 0 \in S
  <2>1. l[0] = <<>>
    BY <1>1, <1>2, ListAt
  <2>2. ListInv(<<>>, 0, ids, fs)
    BY DEF ListInv
  <2> QED BY <2>1, <2>2
<1>5. ASSUME NEW k \in 0 .. N - 1, k \in S PROVE k + 1 \in S
  <2>1. k + 1 \in 1 .. N /\ (k + 1) - 1 = k /\ k \in Nat /\ k + 1 <= N
    BY <1>1
  <2>2. l[k + 1] = grown(l[k], k + 1, ids, fs)
    <3>1. \A n \in 1 .. N : l[n] = grown(l[n - 1], n, ids, fs)
      BY <1>1, <1>2, ListAt
    <3> QED BY <2>1, <3>1
  <2>3. ListInv(l[k], k, ids, fs)
    BY <1>5
  <2>4. ListInv(l[k + 1], k + 1, ids, fs)
    BY <2>1, <2>2, <2>3, ListInvStep DEF N
  <2> QED BY <2>1, <2>4
<1>6. 0 .. N \subseteq S
  <2> HIDE DEF S
  <2> QED BY <1>1, <1>4, <1>5, RangeInduction
<1>7. ListInv(l[N], N, ids, fs)
  BY <1>1, <1>6
<1> QED BY <1>3, <1>7 DEF IsIds, Lists, ListInv, N

(* Walked backwards a list has the same items.                             *)
LEMMA ReverseList ==
    ASSUME NEW fs \in Seq(Item), NEW list, IsIds(list, fs), NEW ids,
           Lists(list, ids, fs)
    PROVE  IsIds(Reverse(list), fs) /\ Lists(Reverse(list), ids, fs)
<1> DEFINE n == Len(list)
           r == Reverse(list)
<1>1. n \in Nat /\ list \in Seq(1 .. Len(fs))
  BY DEF IsIds
<1>2. \A i \in 1 .. n : (n - i) + 1 \in 1 .. n
  BY <1>1
<1>3. /\ r \in Seq(1 .. Len(fs)) /\ Len(r) = n
      /\ \A i \in 1 .. n : r[i] = list[(n - i) + 1]
  BY <1>1, <1>2 DEF Reverse
<1> HIDE DEF r
<1>4. \A i, j \in 1 .. n : i # j => (n - i) + 1 # (n - j) + 1
  BY <1>1
<1>5. IsIds(r, fs)
  BY <1>1, <1>2, <1>3, <1>4 DEF IsIds
<1>6. ASSUME NEW id \in 1 .. Len(fs), id \in ids, fs[id].balance > 0
      PROVE  \E i \in 1 .. Len(r) : r[i] = id
  <2>1. PICK i \in 1 .. n : list[i] = id
    BY <1>6 DEF Lists
  <2>2. (n - ((n - i) + 1)) + 1 = i
    BY <1>1
  <2>3. (n - i) + 1 \in 1 .. n
    BY <1>2
  <2> QED BY <1>1, <1>3, <2>1, <2>2, <2>3
<1>7. Lists(r, ids, fs)
  BY <1>1, <1>2, <1>3, <1>6 DEF Lists
<1> QED BY <1>5, <1>7 DEF r

-----------------------------------------------------------------------------
(* Changing a balance and adding funds *)

(* Items are only added: an item keeps its user and its description.       *)
Extends(gs, fs) ==
    /\ gs \in Seq(Item)
    /\ Len(fs) <= Len(gs)
    /\ \A n \in 1 .. Len(fs) : key(gs[n]) = key(fs[n])

with_balance(fs, i, b) == [fs EXCEPT ![i].balance = b]

(* Writing one balance changes the totals by the difference, and only      *)
(* those the item counts in.                                               *)
LEMMA SetBalance ==
    ASSUME NEW fs \in Seq(Item), NEW i \in 1 .. Len(fs), NEW b \in Nat,
           NEW gs, gs = with_balance(fs, i, b)
    PROVE  /\ Extends(gs, fs)
           /\ Len(gs) = Len(fs)
           /\ gs[i].balance = b
           /\ \A n \in 1 .. Len(fs) : n # i => gs[n] = fs[n]
           /\ \A K : Total(gs, K) =
                Total(fs, K) + IF key(fs[i]) \in K
                               THEN b - fs[i].balance ELSE 0
<1> DEFINE item == [fs[i] EXCEPT !.balance = b]
<1>1. fs[i] \in Item
  OBVIOUS
<1>2. item \in Item /\ item.balance = b /\ key(item) = key(fs[i])
  BY <1>1 DEF Item, key
<1>3. gs = [fs EXCEPT ![i] = item]
  BY DEF with_balance
<1> HIDE DEF item
<1>4. /\ gs \in Seq(Item) /\ Len(gs) = Len(fs)
      /\ \A n \in 1 .. Len(fs) : gs[n] = IF n = i THEN item ELSE fs[n]
  BY <1>2, <1>3, ExceptSeq
<1>5. gs[i] = item /\ \A n \in 1 .. Len(fs) : n # i => gs[n] = fs[n]
  BY <1>4
<1>6. Extends(gs, fs)
  BY <1>2, <1>4, <1>5 DEF Extends
<1>7. ASSUME NEW K
      PROVE  Total(gs, K) = Total(fs, K) + IF key(fs[i]) \in K
                                           THEN b - fs[i].balance ELSE 0
  <2>1. Total(gs, K) = Total(fs, K) + weight(gs[i], K) - weight(fs[i], K)
    BY <1>4, <1>5, TotalReplace
  <2>2. fs[i].balance \in Nat /\ Total(fs, K) \in Nat
    BY <1>1, ItemFields, TotalNat
  <2> QED BY <1>2, <1>5, <2>1, <2>2 DEF weight
<1> QED BY <1>2, <1>4, <1>5, <1>6, <1>7

(* create_fund adds the amount to the kind of the new or coalesced item    *)
(* and to no other.                                                        *)
LEMMA CreateFund ==
    ASSUME NEW fs \in Seq(Item), NEW u \in Nat, NEW d \in Desc,
           NEW amount \in Nat, NEW gs, gs = create_fund(fs, u, d, amount)
    PROVE  /\ Extends(gs, fs)
           /\ \A n \in 1 .. Len(fs) : gs[n] = fs[n]
           /\ \A n \in Len(fs) + 1 .. Len(gs) : key(gs[n]) = <<u, d>>
           /\ \A K : Total(gs, K) =
                Total(fs, K) + IF <<u, d>> \in K THEN amount ELSE 0
<1>1. CASE amount = 0
  <2>1. gs = fs
    BY <1>1 DEF create_fund
  <2>2. \A K : Total(fs, K) \in Nat
    BY TotalNat
  <2> QED BY <1>1, <2>1, <2>2 DEF Extends
<1>2. CASE amount # 0
  <2> DEFINE item == [user_id |-> u, fund_desc |-> d, balance |-> amount]
  <2>1. gs = Append(fs, item)
    BY <1>2 DEF create_fund
  <2>2. item \in Item /\ key(item) = <<u, d>> /\ item.balance = amount
    BY DEF Item, Desc, key
  <2> HIDE DEF item
  <2>3. /\ gs \in Seq(Item) /\ Len(gs) = Len(fs) + 1 /\ Len(fs) \in Nat
        /\ \A n \in 1 .. Len(fs) : gs[n] = fs[n]
        /\ gs[Len(fs) + 1] = item
    BY <2>1, <2>2
  <2>4. \A n \in Len(fs) + 1 .. Len(gs) : n = Len(fs) + 1
    BY <2>3
  <2>5. ASSUME NEW K
        PROVE  Total(gs, K) = Total(fs, K) + IF <<u, d>> \in K
                                             THEN amount ELSE 0
    BY <2>1, <2>2, TotalAppend DEF weight
  <2>6. Extends(gs, fs)
    BY <2>3 DEF Extends
  <2> QED BY <2>2, <2>3, <2>4, <2>5, <2>6
<1> QED BY <1>1, <1>2

(* The amount is in the book, under the description d of the user u.       *)
Increased(gs, fs, u, d, amount) ==
    /\ Extends(gs, fs)
    /\ \A n \in 1 .. Len(fs) :
          fs[n].fund_desc.type # d.type => gs[n] = fs[n]
    /\ \A n \in Len(fs) + 1 .. Len(gs) : key(gs[n]) = <<u, d>>
    /\ \A K : Total(gs, K) =
          Total(fs, K) + IF <<u, d>> \in K THEN amount ELSE 0

(* increase_fund_balance adds the amount to the funds of that user and     *)
(* description, and touches no item of another type.                       *)
LEMMA IncreaseFund ==
    ASSUME NEW fs \in Seq(Item), NEW u \in Nat, NEW d \in Desc,
           NEW amount \in Nat, NEW gs,
           gs = increase_fund_balance(fs, u, d, amount)
    PROVE  Increased(gs, fs, u, d, amount)
<1> DEFINE list == fund_list_by_user(fs, u, d.type)
           ids == of_user(fs, u) \cap of_type(fs, d.type)
           last == Last(list)
           coalesced == /\ allow_coalesce(d.type)
                        /\ list # <<>>
                        /\ fs[last].fund_desc = d
<1>1. CASE coalesced
  <2>1. IsIds(list, fs) /\ Lists(list, ids, fs)
    BY ListOf DEF fund_list_by_user
  <2>2. list \in Seq(1 .. Len(fs)) /\ list # <<>>
    BY <1>1, <2>1 DEF IsIds
  <2>3. Len(list) \in 1 .. Len(list) /\ last = list[Len(list)]
    <3> HIDE DEF list
    <3> QED BY <2>2 DEF Last
  <2>4. last \in 1 .. Len(fs)
    <3> HIDE DEF list, last
    <3> QED BY <2>2, <2>3
  <2>5. last \in ids
    <3> HIDE DEF list, ids, last
    <3> QED BY <2>1, <2>3 DEF Lists
  <2>6. fs[last].user_id = u /\ fs[last].fund_desc = d
    BY <1>1, <2>5 DEF of_user
  <2>7. gs = with_balance(fs, last, fs[last].balance + amount)
    BY <1>1 DEF increase_fund_balance, with_balance
  <2> HIDE DEF last, list, ids
  <2>8. fs[last] \in Item /\ fs[last].balance \in Nat
    BY <2>4, ItemFields
  <2>9. fs[last].balance + amount \in Nat
    BY <2>8
  <2>10. /\ Extends(gs, fs) /\ Len(gs) = Len(fs)
         /\ \A n \in 1 .. Len(fs) : n # last => gs[n] = fs[n]
         /\ \A K : Total(gs, K) =
              Total(fs, K) + IF key(fs[last]) \in K
                THEN (fs[last].balance + amount) - fs[last].balance ELSE 0
    BY <2>4, <2>7, <2>9, SetBalance
  <2>11. key(fs[last]) = <<u, d>>
    BY <2>6 DEF key
  <2>12. (fs[last].balance + amount) - fs[last].balance = amount
    BY <2>8
  <2>13. \A n \in 1 .. Len(fs) :
            fs[n].fund_desc.type # d.type => n # last
    BY <2>6
  <2>14. \A n \in Len(fs) + 1 .. Len(gs) : FALSE
    BY <2>10
  <2> QED BY <2>10, <2>11, <2>12, <2>13, <2>14 DEF Increased
<1>2. CASE ~ coalesced
  <2>1. gs = create_fund(fs, u, d, amount)
    BY <1>2 DEF increase_fund_balance
  <2> QED BY <2>1, CreateFund DEF Increased
<1> QED BY <1>1, <1>2

-----------------------------------------------------------------------------
(* Saving *)

(* One step of save.                                                       *)
kept_with(a, item) == IF item.balance > 0 THEN Append(a, item) ELSE a

IsKept(l, fs, n) ==
    l = [k \in 0 .. n |-> IF k = 0 THEN <<>> ELSE kept_with(l[k - 1], fs[k])]

(* The steps in which save drops the empty items.                          *)
LEMMA KeptAt ==
    ASSUME NEW fs, NEW n \in Nat, NEW l, IsKept(l, fs, n)
    PROVE  /\ l[0] = <<>>
           /\ \A k \in 1 .. n : l[k] = kept_with(l[k - 1], fs[k])
BY DEF IsKept

(* The recursive function of save exists.                                  *)
LEMMA KeptExists ==
    ASSUME NEW fs, NEW N \in Nat
    PROVE  \E l : IsKept(l, fs, N)
<1> DEFINE T == { n \in Nat : \E l : IsKept(l, fs, n) }
<1>1. 0 \in T
  <2>1. IsKept([k \in 0 .. 0 |-> <<>>], fs, 0)
    BY DEF IsKept
  <2> QED BY <2>1
<1>2. ASSUME NEW n \in Nat, n \in T PROVE n + 1 \in T
  <2>1. PICK l : IsKept(l, fs, n)
    BY <1>2
  <2>2. /\ l[0] = <<>>
        /\ \A k \in 1 .. n : l[k] = kept_with(l[k - 1], fs[k])
    BY <2>1, KeptAt
  <2> DEFINE t == [k \in 0 .. n + 1 |->
                      IF k <= n THEN l[k] ELSE kept_with(l[n], fs[n + 1])]
  <2>3. ASSUME NEW k \in 0 .. n + 1
        PROVE  t[k] = IF k = 0 THEN <<>> ELSE kept_with(t[k - 1], fs[k])
    <3>1. CASE k = 0
      BY <2>2, <3>1
    <3>2. CASE k \in 1 .. n
      BY <2>2, <3>2
    <3>3. CASE k = n + 1
      BY <3>3
    <3> QED BY <3>1, <3>2, <3>3
  <2>4. IsKept(t, fs, n + 1)
    <3> HIDE DEF t
    <3>1. t = [k \in 0 .. n + 1 |-> t[k]]
      BY DEF t
    <3> QED BY <2>3, <3>1, Zenon DEF IsKept
  <2> QED BY <2>4
<1>3. Nat \subseteq T
  <2> HIDE DEF T
  <2> QED BY <1>1, <1>2, NatSetInduction
<1> QED BY <1>3

(* What save has made of the first k items.                                *)
KeptInv(a, k, fs) ==
    /\ a \in Seq(Item)
    /\ Len(a) <= k
    /\ \A i \in 1 .. Len(a) : a[i].balance > 0
    /\ \A K : Total(a, K) = SumTo(weights(fs, K), k)

(* One more item keeps what holds of the items saved so far: no total      *)
(* changes, for a dropped item is empty.                                   *)
LEMMA KeptInvStep ==
    ASSUME NEW fs \in Seq(Item), NEW k \in Nat, k + 1 <= Len(fs),
           NEW a, KeptInv(a, k, fs)
    PROVE  KeptInv(kept_with(a, fs[k + 1]), k + 1, fs)
<1>1. /\ a \in Seq(Item) /\ Len(a) \in Nat /\ Len(a) <= k
      /\ \A i \in 1 .. Len(a) : a[i].balance > 0
      /\ \A K : Total(a, K) = SumTo(weights(fs, K), k)
  BY DEF KeptInv
<1>2. k + 1 \in 1 .. Len(fs) /\ fs[k + 1] \in Item
  OBVIOUS
<1>3. \A K : /\ SumTo(weights(fs, K), k + 1)
                  = SumTo(weights(fs, K), k) + weight(fs[k + 1], K)
             /\ SumTo(weights(fs, K), k) \in Nat
  <2> TAKE K
  <2>1. weights(fs, K)[k + 1] = weight(fs[k + 1], K)
    BY <1>2 DEF weights
  <2>2. \A n \in 1 .. k : weights(fs, K)[n] \in Nat
    BY <1>2, TotalNat
  <2> QED BY <2>1, <2>2, SumStep, SumNat
<1>4. CASE fs[k + 1].balance > 0
  <2>1. PICK b : b = Append(a, fs[k + 1])
    OBVIOUS
  <2>2. /\ b \in Seq(Item) /\ Len(b) = Len(a) + 1
        /\ \A i \in 1 .. Len(a) : b[i] = a[i]
        /\ b[Len(a) + 1] = fs[k + 1]
    BY <1>1, <1>2, <2>1
  <2>3. \A i \in 1 .. Len(b) : i \in 1 .. Len(a) \/ i = Len(a) + 1
    BY <1>1, <2>2
  <2>4. \A i \in 1 .. Len(b) : b[i].balance > 0
    BY <1>1, <1>4, <2>2, <2>3
  <2>5. \A K : Total(b, K) = SumTo(weights(fs, K), k + 1)
    BY <1>1, <1>2, <1>3, <2>1, TotalAppend
  <2>6. KeptInv(b, k + 1, fs)
    BY <1>1, <2>2, <2>4, <2>5 DEF KeptInv
  <2> QED BY <1>4, <2>1, <2>6 DEF kept_with
<1>5. CASE ~ (fs[k + 1].balance > 0)
  <2>1. fs[k + 1].balance = 0
    BY <1>2, <1>5, ItemFields
  <2>2. \A K : weight(fs[k + 1], K) = 0
    BY <2>1 DEF weight
  <2>3. KeptInv(a, k + 1, fs)
    BY <1>1, <1>3, <2>2 DEF KeptInv
  <2> QED BY <1>5, <2>3 DEF kept_with
<1> QED BY <1>4, <1>5

(* save keeps every total and leaves items with a balance only.            *)
LEMMA SaveKeepsTotals ==
    ASSUME NEW fs \in Seq(Item), NEW gs, gs = save(fs)
    PROVE  /\ gs \in Seq(Item)
           /\ Len(gs) <= Len(fs)
           /\ \A i \in 1 .. Len(gs) : gs[i].balance > 0
           /\ \A K : Total(gs, K) = Total(fs, K)
<1> DEFINE N == Len(fs)
           l == CHOOSE x : IsKept(x, fs, N)
<1>1. N \in Nat
  OBVIOUS
<1>2. IsKept(l, fs, N)
  BY <1>1, KeptExists
<1>3. save(fs) = l[N]
  BY DEF save, IsKept, kept_with
<1> HIDE DEF l, N
<1> DEFINE S == { k \in Nat : KeptInv(l[k], k, fs) }
<1>4. 0 \in S
  <2>1. l[0] = <<>>
    BY <1>1, <1>2, KeptAt
  <2>2. <<>> \in Seq(Item) /\ Len(<<>>) = 0
    OBVIOUS
  <2>3. \A K : Total(<<>>, K) = SumTo(weights(fs, K), 0)
    BY <2>2, SumZero DEF Total
  <2>4. KeptInv(<<>>, 0, fs)
    BY <2>2, <2>3 DEF KeptInv
  <2> QED BY <2>1, <2>4
<1>5. ASSUME NEW k \in 0 .. N - 1, k \in S PROVE k + 1 \in S
  <2>1. k + 1 \in 1 .. N /\ (k + 1) - 1 = k /\ k \in Nat /\ k + 1 <= N
    BY <1>1
  <2>2. l[k + 1] = kept_with(l[k], fs[k + 1])
    <3>1. \A n \in 1 .. N : l[n] = kept_with(l[n - 1], fs[n])
      BY <1>1, <1>2, KeptAt
    <3> QED BY <2>1, <3>1
  <2>3. KeptInv(l[k], k, fs)
    BY <1>5
  <2>4. KeptInv(l[k + 1], k + 1, fs)
    BY <2>1, <2>2, <2>3, KeptInvStep DEF N
  <2> QED BY <2>1, <2>4
<1>6. 0 .. N \subseteq S
  <2> HIDE DEF S
  <2> QED BY <1>1, <1>4, <1>5, RangeInduction
<1>7. KeptInv(gs, N, fs)
  BY <1>1, <1>3, <1>6
<1> QED BY <1>7 DEF KeptInv, N, Total

(* A kind that has no balance has no item, once saved.                     *)
LEMMA NoneOfKind ==
    ASSUME NEW fs \in Seq(Item), NEW K, Total(fs, K) = 0,
           NEW n \in 1 .. Len(fs), fs[n].balance > 0
    PROVE  key(fs[n]) \notin K
<1>1. \A k \in 1 .. Len(fs) : weights(fs, K)[k] \in Nat
  BY TotalNat
<1>2. weights(fs, K)[n] <= Total(fs, K)
  BY <1>1, SumMember DEF Total
<1>3. fs[n].balance \in Nat /\ weights(fs, K)[n] = weight(fs[n], K)
  BY ItemFields DEF weights
<1> QED BY <1>2, <1>3 DEF weight

-----------------------------------------------------------------------------
(* The loop of split_convert *)

(* A transformation gives every item a description, or none.               *)
IsTransform(transform) ==
    \A item \in Item : transform[item] \in Desc \cup {NoDescription}

start_of(fs, max) == [funds |-> fs, left |-> max, visited |-> 0]

(* One step of split_convert.                                              *)
visit_next(s, id, transform) ==
    IF s.left = 0 THEN s
    ELSE IF transform[s.funds[id]] = NoDescription
    THEN [s EXCEPT !.visited = @ + 1]
    ELSE converted(s, id, s.funds[id], transform[s.funds[id]],
                   Smaller(s.left, s.funds[id].balance))

IsLoop(a, fs, ids, max, transform, n) ==
    a = [k \in 0 .. n |-> IF k = 0 THEN start_of(fs, max)
                          ELSE visit_next(a[k - 1], ids[k], transform)]

(* The steps of the loop of split_convert.                                 *)
LEMMA LoopAt ==
    ASSUME NEW fs, NEW ids, NEW max, NEW transform, NEW n \in Nat, NEW a,
           IsLoop(a, fs, ids, max, transform, n)
    PROVE  /\ a[0] = start_of(fs, max)
           /\ \A k \in 1 .. n : a[k] = visit_next(a[k - 1], ids[k], transform)
BY DEF IsLoop

(* The recursive function of split_convert exists.                         *)
LEMMA LoopExists ==
    ASSUME NEW fs, NEW ids, NEW max, NEW transform, NEW N \in Nat
    PROVE  \E a : IsLoop(a, fs, ids, max, transform, N)
<1> DEFINE T == { n \in Nat : \E a : IsLoop(a, fs, ids, max, transform, n) }
<1>1. 0 \in T
  <2>1. IsLoop([k \in 0 .. 0 |-> start_of(fs, max)], fs, ids, max,
               transform, 0)
    BY DEF IsLoop
  <2> QED BY <2>1
<1>2. ASSUME NEW n \in Nat, n \in T PROVE n + 1 \in T
  <2>1. PICK a : IsLoop(a, fs, ids, max, transform, n)
    BY <1>2
  <2>2. /\ a[0] = start_of(fs, max)
        /\ \A k \in 1 .. n : a[k] = visit_next(a[k - 1], ids[k], transform)
    BY <2>1, LoopAt
  <2> DEFINE t == [k \in 0 .. n + 1 |->
                      IF k <= n THEN a[k]
                      ELSE visit_next(a[n], ids[n + 1], transform)]
  <2>3. ASSUME NEW k \in 0 .. n + 1
        PROVE  t[k] = IF k = 0 THEN start_of(fs, max)
                      ELSE visit_next(t[k - 1], ids[k], transform)
    <3>1. CASE k = 0
      BY <2>2, <3>1
    <3>2. CASE k \in 1 .. n
      BY <2>2, <3>2
    <3>3. CASE k = n + 1
      BY <3>3
    <3> QED BY <3>1, <3>2, <3>3
  <2>4. IsLoop(t, fs, ids, max, transform, n + 1)
    <3> HIDE DEF t
    <3>1. t = [k \in 0 .. n + 1 |-> t[k]]
      BY DEF t
    <3> QED BY <2>3, <3>1, Zenon DEF IsLoop
  <2> QED BY <2>4
<1>3. Nat \subseteq T
  <2> HIDE DEF T
  <2> QED BY <1>1, <1>2, NatSetInduction
<1> QED BY <1>3

(* What a conversion of the item does to the total of the kind K, per unit *)
(* of balance.                                                             *)
indicator(k, K) == IF k \in K THEN 1 ELSE 0

Effects == {-1, 0, 1}

effect_on(K, item, d) ==
    indicator(<<item.user_id, d>>, K) - indicator(key(item), K)

HasEffect(lo, hi, K, items, transform) ==
    \A item \in items :
        transform[item] # NoDescription =>
            /\ lo <= effect_on(K, item, transform[item])
            /\ effect_on(K, item, transform[item]) <= hi

(* A converted unit leaves a kind, enters it, or neither.                  *)
LEMMA EffectValue ==
    ASSUME NEW K, NEW item, NEW d PROVE effect_on(K, item, d) \in Effects
BY DEF effect_on, indicator, Effects

signed(e, amount) == IF e = 1 THEN amount
                     ELSE IF e = 0 THEN 0 ELSE 0 - amount

IsState(s, fs, max) ==
    /\ s = [funds |-> s.funds, left |-> s.left, visited |-> s.visited]
    /\ s.funds \in Seq(Item) /\ s.left \in Nat /\ s.visited \in Nat
    /\ Extends(s.funds, fs)
    /\ s.left <= max

(* A description is never the value that says there is none.               *)
LEMMA DescIsSomething ==
    ASSUME NEW d \in Desc PROVE d # NoDescription
BY DEF Desc, NoDescription, FundType

(* What one conversion does.                                               *)
Converts(r, s, id, d) ==
    /\ r.visited = s.visited + 1
    /\ r.left = s.left - Smaller(s.left, s.funds[id].balance)
    /\ \A K : Total(r.funds, K) = Total(s.funds, K)
          + signed(effect_on(K, s.funds[id], d), s.left - r.left)
    /\ Extends(r.funds, s.funds)
    /\ s.funds[id].fund_desc.type # d.type =>
          /\ r.funds[id].balance = s.funds[id].balance
                - Smaller(s.left, s.funds[id].balance)
          /\ \A n \in 1 .. Len(s.funds) :
                n # id /\ s.funds[n].fund_desc.type # d.type =>
                   r.funds[n] = s.funds[n]
    /\ \A n \in Len(s.funds) + 1 .. Len(r.funds) :
          r.funds[n].fund_desc.type = d.type

(* One converted item: what leaves the item arrives under the new          *)
(* description.                                                            *)
LEMMA ConvertedStep ==
    ASSUME NEW fs \in Seq(Item), NEW max \in Nat, NEW s, IsState(s, fs, max),
           NEW id \in 1 .. Len(fs), NEW d \in Desc,
           NEW r, r = converted(s, id, s.funds[id], d,
                                Smaller(s.left, s.funds[id].balance))
    PROVE  IsState(r, fs, max) /\ Converts(r, s, id, d)
<1> DEFINE gs == s.funds
           item == gs[id]
           x == Smaller(s.left, item.balance)
           hs == with_balance(gs, id, item.balance - x)
           ks == increase_fund_balance(hs, item.user_id, d, x)
<1>1. /\ gs \in Seq(Item) /\ s.left \in Nat /\ s.visited \in Nat
      /\ Extends(gs, fs) /\ s.left <= max /\ Len(fs) <= Len(gs)
      /\ Len(gs) \in Nat /\ Len(fs) \in Nat
      /\ \A n \in 1 .. Len(fs) : key(gs[n]) = key(fs[n])
  BY DEF IsState, Extends
<1>2. id \in 1 .. Len(gs)
  BY <1>1
<1>3. item \in Item /\ item.balance \in Nat /\ item.user_id \in Nat
  <2> HIDE DEF gs
  <2>1. item \in Item
    BY <1>1, <1>2
  <2> HIDE DEF item
  <2> QED BY <2>1, ItemFields
<1>4. x \in Nat /\ x <= s.left /\ item.balance - x \in Nat
  <2> HIDE DEF gs, item
  <2> QED BY <1>1, <1>3 DEF Smaller
<1>5. r = [funds |-> ks, left |-> s.left - x, visited |-> s.visited + 1]
  BY DEF converted, with_balance
<1> HIDE DEF x, item, gs
<1>6. /\ Extends(hs, gs) /\ Len(hs) = Len(gs)
      /\ hs[id].balance = item.balance - x
      /\ \A n \in 1 .. Len(gs) : n # id => hs[n] = gs[n]
      /\ \A K : Total(hs, K) = Total(gs, K)
            + IF key(gs[id]) \in K THEN (item.balance - x) - gs[id].balance
                                   ELSE 0
  <2> HIDE DEF hs
  <2>1. hs = with_balance(gs, id, item.balance - x)
    BY DEF hs
  <2> QED BY <1>1, <1>2, <1>4, <2>1, SetBalance
<1> HIDE DEF hs
<1>7. /\ Extends(ks, hs)
      /\ \A n \in 1 .. Len(hs) :
            hs[n].fund_desc.type # d.type => ks[n] = hs[n]
      /\ \A n \in Len(hs) + 1 .. Len(ks) : key(ks[n]) = <<item.user_id, d>>
      /\ \A K : Total(ks, K) = Total(hs, K)
            + IF <<item.user_id, d>> \in K THEN x ELSE 0
  <2> HIDE DEF ks
  <2>1. ks = increase_fund_balance(hs, item.user_id, d, x)
    BY DEF ks
  <2>2. hs \in Seq(Item)
    BY <1>6 DEF Extends
  <2>3. PICK u \in Nat : u = item.user_id
    BY <1>3
  <2>4. Increased(ks, hs, u, d, x)
    BY <1>4, <2>1, <2>2, <2>3, IncreaseFund
  <2> QED BY <2>3, <2>4 DEF Increased
<1> HIDE DEF ks
<1>8. r.funds = ks /\ r.left = s.left - x /\ r.visited = s.visited + 1
  BY <1>5
<1>9. /\ ks \in Seq(Item) /\ Len(ks) \in Nat /\ Len(gs) <= Len(ks)
      /\ \A n \in 1 .. Len(gs) : key(ks[n]) = key(gs[n])
  BY <1>1, <1>6, <1>7 DEF Extends
<1>91. Extends(ks, fs) /\ Extends(ks, gs)
  <2>1. ASSUME NEW n \in 1 .. Len(fs) PROVE key(ks[n]) = key(fs[n])
    <3>1. n \in 1 .. Len(gs)
      BY <1>1
    <3> QED BY <1>1, <1>9, <3>1
  <2>2. Len(fs) <= Len(ks)
    BY <1>1, <1>9
  <2> QED BY <1>9, <2>1, <2>2 DEF Extends
<1>10. IsState(r, fs, max)
  BY <1>1, <1>4, <1>5, <1>8, <1>9, <1>91 DEF IsState
<1>11. ASSUME NEW K
       PROVE  Total(ks, K) = Total(gs, K)
                + signed(effect_on(K, item, d), s.left - r.left)
  <2>1. Total(gs, K) \in Nat
    BY <1>1, TotalNat
  <2>2. Total(hs, K) = Total(gs, K) + IF key(item) \in K THEN 0 - x ELSE 0
    <3>1. (item.balance - x) - item.balance = 0 - x
      BY <1>3, <1>4
    <3> QED BY <1>6, <3>1 DEF item
  <2>3. Total(ks, K) = Total(hs, K)
            + IF <<item.user_id, d>> \in K THEN x ELSE 0
    BY <1>7
  <2>4. s.left - r.left = x
    BY <1>1, <1>4, <1>8
  <2> QED BY <1>4, <2>1, <2>2, <2>3, <2>4 DEF signed, indicator, effect_on
<1>12. ASSUME item.fund_desc.type # d.type
       PROVE  /\ ks[id].balance = item.balance - x
              /\ \A n \in 1 .. Len(gs) :
                    n # id /\ gs[n].fund_desc.type # d.type => ks[n] = gs[n]
  <2>1. key(hs[id]) = key(gs[id])
    BY <1>2, <1>6 DEF Extends
  <2>2. hs[id].fund_desc.type = item.fund_desc.type
    BY <2>1 DEF key, item
  <2>3. ks[id] = hs[id]
    BY <1>2, <1>6, <1>7, <1>12, <2>2
  <2> QED BY <1>6, <1>7, <2>3
<1>13. ASSUME NEW n \in Len(gs) + 1 .. Len(ks)
       PROVE  ks[n].fund_desc.type = d.type
  <2>1. key(ks[n]) = <<item.user_id, d>>
    BY <1>6, <1>7
  <2> QED BY <2>1 DEF key
<1> QED
  BY <1>8, <1>91, <1>10, <1>11, <1>12, <1>13 DEF gs, item, x, Converts

Between(lo, hi, total, before, amount) ==
    /\ before + signed(lo, amount) <= total
    /\ total <= before + signed(hi, amount)

(* Bounds on a total add up over two steps.                                *)
LEMMA BetweenAdd ==
    ASSUME NEW lo \in Effects, NEW hi \in Effects, NEW e \in Effects,
           lo <= e, e <= hi, NEW p \in Nat, NEW q \in Nat, NEW x \in Int,
           NEW y \in Int, NEW z \in Int, Between(lo, hi, y, x, p),
           z = y + signed(e, q), NEW w, w = p + q
    PROVE  Between(lo, hi, z, x, w)
<1>1. /\ x + signed(lo, p) <= y
      /\ y <= x + signed(hi, p)
  BY DEF Between
<1>2. /\ signed(lo, w) = signed(lo, p) + signed(lo, q)
      /\ signed(lo, q) <= signed(e, q)
      /\ signed(lo, p) \in Int /\ signed(lo, q) \in Int
  BY DEF signed, Effects
<1>3. /\ signed(hi, w) = signed(hi, p) + signed(hi, q)
      /\ signed(e, q) <= signed(hi, q)
      /\ signed(hi, p) \in Int /\ signed(hi, q) \in Int
  BY DEF signed, Effects
<1>4. signed(e, q) \in Int
  BY DEF signed
<1> QED BY <1>1, <1>2, <1>3, <1>4 DEF Between

(* Every iteration keeps the account of each kind of funds.                *)
LoopInv(s, k, fs, seen, max, transform) ==
    /\ IsState(s, fs, max)
    /\ s.visited <= k
    /\ s.left > 0 => s.visited = k
    /\ \A K : \A lo, hi \in Effects :
          (\A j \in 1 .. s.visited :
              HasEffect(lo, hi, K, seen[j], transform)) =>
                 Between(lo, hi, Total(s.funds, K), Total(fs, K), max - s.left)

(* One step of split_convert keeps the invariant of the loop.              *)
LEMMA LoopInvStep ==
    ASSUME NEW fs \in Seq(Item), NEW ids \in Seq(1 .. Len(fs)),
           NEW max \in Nat, NEW transform, IsTransform(transform),
           NEW seen, NEW k \in Nat, k + 1 <= Len(ids), NEW s,
           s.funds[ids[k + 1]] \in seen[k + 1],
           LoopInv(s, k, fs, seen, max, transform),
           NEW r, r = visit_next(s, ids[k + 1], transform)
    PROVE  LoopInv(r, k + 1, fs, seen, max, transform)
<1> DEFINE id == ids[k + 1]
           item == s.funds[id]
           d == transform[item]
<1>1. /\ IsState(s, fs, max) /\ s.visited <= k
      /\ s.left > 0 => s.visited = k
      /\ s.left \in Nat /\ s.visited \in Nat /\ s.left <= max
      /\ s.funds \in Seq(Item)
  BY DEF LoopInv, IsState
<1>2. ASSUME NEW K, NEW lo \in Effects, NEW hi \in Effects,
             \A j \in 1 .. s.visited :
                HasEffect(lo, hi, K, seen[j], transform)
      PROVE  Between(lo, hi, Total(s.funds, K), Total(fs, K), max - s.left)
  BY <1>2 DEF LoopInv
<1>3. id \in 1 .. Len(fs)
  OBVIOUS
<1>4. item \in Item /\ key(item) = key(fs[id])
  <2> HIDE DEF id
  <2> QED BY <1>1, <1>3 DEF IsState, Extends
<1>5. d \in Desc \cup {NoDescription}
  BY <1>4 DEF IsTransform
<1>6. CASE s.left = 0
  <2>1. r = s
    BY <1>6 DEF visit_next
  <2>2. s.visited <= k + 1
    BY <1>1
  <2>3. ~ (s.left > 0)
    BY <1>6
  <2> QED BY <1>1, <1>2, <2>1, <2>2, <2>3, Zenon DEF LoopInv
<1>7. CASE s.left # 0 /\ d = NoDescription
  <2>1. r = [s EXCEPT !.visited = @ + 1]
    BY <1>7 DEF visit_next
  <2>2. s = [funds |-> s.funds, left |-> s.left, visited |-> s.visited]
    BY <1>1 DEF IsState
  <2>3. /\ r.funds = s.funds /\ r.left = s.left /\ r.visited = s.visited + 1
        /\ r = [funds |-> r.funds, left |-> r.left, visited |-> r.visited]
    BY <2>1, <2>2
  <2>4. IsState(r, fs, max)
    BY <1>1, <2>3 DEF IsState
  <2>5. r.visited = k + 1
    BY <1>1, <1>7, <2>3
  <2>6. ASSUME NEW K, NEW lo \in Effects, NEW hi \in Effects,
               \A j \in 1 .. r.visited :
                  HasEffect(lo, hi, K, seen[j], transform)
        PROVE  Between(lo, hi, Total(r.funds, K), Total(fs, K), max - r.left)
    <3>1. \A j \in 1 .. s.visited :
             HasEffect(lo, hi, K, seen[j], transform)
      BY <1>1, <2>3, <2>6
    <3> QED BY <1>2, <2>3, <3>1
  <2> QED BY <2>4, <2>5, <2>6 DEF LoopInv
<1>8. CASE s.left # 0 /\ d # NoDescription
  <2>1. r = converted(s, id, s.funds[id], d,
                      Smaller(s.left, s.funds[id].balance))
    BY <1>8 DEF visit_next
  <2>2. d \in Desc
    BY <1>5, <1>8
  <2>3. s.visited = k
    BY <1>1, <1>8
  <2> HIDE DEF d, id
  <2>40. IsState(r, fs, max) /\ Converts(r, s, id, d)
    BY <1>1, <1>3, <2>1, <2>2, ConvertedStep
  <2>4. /\ IsState(r, fs, max)
        /\ r.visited = s.visited + 1
        /\ r.left = s.left - Smaller(s.left, s.funds[id].balance)
        /\ \A K : Total(r.funds, K) = Total(s.funds, K)
                + signed(effect_on(K, s.funds[id], d), s.left - r.left)
    BY <2>40 DEF Converts
  <2>5. ASSUME NEW K, NEW lo \in Effects, NEW hi \in Effects,
               \A j \in 1 .. r.visited :
                  HasEffect(lo, hi, K, seen[j], transform)
        PROVE  Between(lo, hi, Total(r.funds, K), Total(fs, K), max - r.left)
    <3>1. \A j \in 1 .. s.visited :
             HasEffect(lo, hi, K, seen[j], transform)
      BY <1>1, <2>4, <2>5
    <3>2. Between(lo, hi, Total(s.funds, K), Total(fs, K), max - s.left)
      BY <1>2, <3>1
    <3>3. HasEffect(lo, hi, K, seen[k + 1], transform) /\ item \in seen[k + 1]
      <4>1. k + 1 \in 1 .. r.visited
        BY <1>1, <2>3, <2>4
      <4> QED BY <2>5, <4>1 DEF id
    <3>4. PICK e \in Effects :
             e = effect_on(K, item, d) /\ lo <= e /\ e <= hi
      BY <1>4, <1>8, <3>3, EffectValue DEF HasEffect, d
    <3>5. Total(r.funds, K) = Total(s.funds, K) + signed(e, s.left - r.left)
      BY <2>4, <3>4
    <3>6. /\ Total(fs, K) \in Nat /\ Total(s.funds, K) \in Nat
          /\ Total(r.funds, K) \in Nat /\ r.left \in Nat
      BY <1>1, <2>4, TotalNat DEF IsState
    <3>7. /\ Total(fs, K) \in Int /\ Total(s.funds, K) \in Int
          /\ Total(r.funds, K) \in Int
      BY <3>6
    <3>8. PICK x \in Int, y \in Int, z \in Int :
             x = Total(fs, K) /\ y = Total(s.funds, K) /\ z = Total(r.funds, K)
      BY <3>7
    <3>9. PICK p \in Nat, q \in Nat, w \in Nat :
             /\ p = max - s.left /\ q = s.left - r.left
             /\ w = max - r.left /\ w = p + q
      <4>1. PICK c \in Nat : c = s.funds[id].balance
        BY <1>4, ItemFields
      <4>2. r.left = s.left - Smaller(s.left, c) /\ Smaller(s.left, c) \in Nat
        BY <1>1, <2>4, <4>1 DEF Smaller
      <4>3. /\ max - s.left \in Nat /\ s.left - r.left \in Nat
            /\ max - r.left \in Nat
            /\ max - r.left = (max - s.left) + (s.left - r.left)
        <5>1. PICK a \in Nat, b \in Nat : a = s.left /\ b = r.left
          BY <1>1, <3>6
        <5>2. b = a - Smaller(a, c) /\ a <= max
          BY <1>1, <4>2, <5>1
        <5>3. /\ max - a \in Nat /\ a - b \in Nat /\ max - b \in Nat
              /\ max - b = (max - a) + (a - b)
          BY <5>2 DEF Smaller
        <5> QED BY <5>1, <5>3, Zenon
      <4> QED BY <4>3, Zenon
    <3>10. Between(lo, hi, y, x, p) /\ z = y + signed(e, q)
      BY <3>2, <3>5, <3>8, <3>9
    <3>11. Between(lo, hi, z, x, w)
      BY ONLY <3>4, <3>9, <3>10, lo \in Effects, hi \in Effects,
              e \in Effects, x \in Int, y \in Int, z \in Int, p \in Nat,
              q \in Nat, BetweenAdd
    <3> QED BY <3>8, <3>9, <3>11
  <2> QED BY <2>3, <2>4, <2>5 DEF LoopInv
<1> QED BY <1>6, <1>7, <1>8

(* What becomes of the items of the visited type t: those not reached stay *)
(* as they are, and those reached are emptied while an amount is left.     *)
RestInv(s, k, fs, ids, t, transform) ==
    /\ \A n \in 1 .. Len(s.funds) : s.funds[n].fund_desc.type = t =>
          /\ n <= Len(fs)
          /\ (\A j \in 1 .. k : ids[j] # n) => s.funds[n] = fs[n]
    /\ s.left > 0 =>
          \A j \in 1 .. k : transform[fs[ids[j]]] # NoDescription =>
             s.funds[ids[j]].balance = 0

(* The transformation takes items away from type t.                        *)
Leaves(t, transform) ==
    \A item \in Item : item.fund_desc.type = t => transform[item].type # t

(* A swap out of a type leaves the items of that type it has not come to   *)
(* as they were.                                                           *)
LEMMA RestInvStep ==
    ASSUME NEW fs \in Seq(Item), NEW ids, IsIds(ids, fs), NEW max \in Nat,
           NEW transform, IsTransform(transform), NEW t,
           Leaves(t, transform),
           \A j \in 1 .. Len(ids) : fs[ids[j]].fund_desc.type = t,
           NEW k \in Nat, k + 1 <= Len(ids), NEW s,
           IsState(s, fs, max), RestInv(s, k, fs, ids, t, transform),
           NEW r, r = visit_next(s, ids[k + 1], transform)
    PROVE  RestInv(r, k + 1, fs, ids, t, transform)
<1> DEFINE id == ids[k + 1]
           item == s.funds[id]
           d == transform[item]
<1>1. /\ s.left \in Nat /\ s.visited \in Nat /\ s.left <= max
      /\ s.funds \in Seq(Item) /\ Extends(s.funds, fs)
      /\ ids \in Seq(1 .. Len(fs)) /\ Len(ids) \in Nat /\ Len(fs) \in Nat
      /\ Len(s.funds) \in Nat /\ Len(fs) <= Len(s.funds)
  BY DEF IsState, IsIds, Extends
<1>2. /\ k + 1 \in 1 .. Len(ids)
      /\ \A j \in 1 .. k : j \in 1 .. Len(ids) /\ j # k + 1
      /\ \A j \in 1 .. k + 1 : j \in 1 .. k \/ j = k + 1
  BY ONLY <1>1, k \in Nat, k + 1 <= Len(ids)
<1>3. id \in 1 .. Len(fs) /\ id \in 1 .. Len(s.funds)
  BY <1>1, <1>2
<1>4. \A j \in 1 .. k : ids[j] # id
  BY <1>2 DEF IsIds
<1>5. /\ \A n \in 1 .. Len(s.funds) : s.funds[n].fund_desc.type = t =>
            /\ n <= Len(fs)
            /\ (\A j \in 1 .. k : ids[j] # n) => s.funds[n] = fs[n]
      /\ s.left > 0 =>
            \A j \in 1 .. k : transform[fs[ids[j]]] # NoDescription =>
               s.funds[ids[j]].balance = 0
  BY DEF RestInv
<1>6. item \in Item /\ item.fund_desc.type = t /\ item = fs[id]
  <2>1. fs[id].fund_desc.type = t
    BY <1>2
  <2> HIDE DEF id
  <2>2. key(item) = key(fs[id]) /\ item \in Item
    BY <1>1, <1>3 DEF Extends
  <2>3. item.fund_desc.type = t
    BY <2>1, <2>2 DEF key
  <2> QED BY <1>3, <1>4, <1>5, <2>2, <2>3
<1>7. d \in Desc \cup {NoDescription} /\ d.type # t
  BY <1>6 DEF IsTransform, Leaves
<1>8. CASE s.left = 0
  <2>1. r = s
    BY <1>8 DEF visit_next
  <2>2. \A n : (\A j \in 1 .. k + 1 : ids[j] # n) =>
                  \A j \in 1 .. k : ids[j] # n
    BY <1>1
  <2> QED BY <1>5, <1>8, <2>1, <2>2 DEF RestInv
<1>9. CASE s.left # 0 /\ d = NoDescription
  <2>1. r = [s EXCEPT !.visited = @ + 1]
    BY <1>9 DEF visit_next
  <2>2. s = [funds |-> s.funds, left |-> s.left, visited |-> s.visited]
    BY DEF IsState
  <2>3. r.funds = s.funds /\ r.left = s.left
    BY <2>1, <2>2
  <2>4. \A n : (\A j \in 1 .. k + 1 : ids[j] # n) =>
                  \A j \in 1 .. k : ids[j] # n
    BY <1>1
  <2>5. transform[fs[ids[k + 1]]] = NoDescription
    BY <1>6, <1>9
  <2> QED BY <1>2, <1>5, <2>3, <2>4, <2>5 DEF RestInv
<1>10. CASE s.left # 0 /\ d # NoDescription
  <2>1. r = converted(s, id, s.funds[id], d,
                      Smaller(s.left, s.funds[id].balance))
    BY <1>10 DEF visit_next
  <2>2. d \in Desc
    BY <1>7, <1>10
  <2> HIDE DEF d, id
  <2>30. Converts(r, s, id, d)
    BY <1>1, <1>3, <2>1, <2>2, ConvertedStep
  <2>3. /\ r.left = s.left - Smaller(s.left, s.funds[id].balance)
        /\ Extends(r.funds, s.funds)
        /\ s.funds[id].fund_desc.type # d.type =>
                 /\ r.funds[id].balance = s.funds[id].balance
                       - Smaller(s.left, s.funds[id].balance)
                 /\ \A n \in 1 .. Len(s.funds) :
                       n # id /\ s.funds[n].fund_desc.type # d.type =>
                          r.funds[n] = s.funds[n]
        /\ \A n \in Len(s.funds) + 1 .. Len(r.funds) :
              r.funds[n].fund_desc.type = d.type
    BY <2>30 DEF Converts
  <2>4. /\ s.funds[id].fund_desc.type # d.type
        /\ s.funds[id].balance \in Nat
    BY <1>6, <1>7, ItemFields
  <2>5. ASSUME NEW n \in 1 .. Len(r.funds), r.funds[n].fund_desc.type = t
        PROVE  /\ n <= Len(fs)
               /\ (\A j \in 1 .. k + 1 : ids[j] # n) => r.funds[n] = fs[n]
    <3>1. Len(r.funds) \in Nat
      BY <2>3 DEF Extends
    <3>2. n \in 1 .. Len(s.funds)
      <4>1. r.funds[n].fund_desc.type # d.type
        BY <1>7, <2>5 DEF d
      <4>2. n \notin Len(s.funds) + 1 .. Len(r.funds)
        BY <2>3, <4>1
      <4> QED BY ONLY <1>1, <3>1, <4>2, n \in 1 .. Len(r.funds)
    <3>3. s.funds[n].fund_desc.type = t
      BY <2>3, <2>5, <3>2 DEF Extends, key
    <3>4. ASSUME \A j \in 1 .. k + 1 : ids[j] # n
          PROVE  r.funds[n] = fs[n]
      <4>1. n # id /\ \A j \in 1 .. k : ids[j] # n
        BY <1>1, <3>4 DEF id
      <4>2. s.funds[n] = fs[n]
        BY <1>5, <3>2, <3>3, <4>1
      <4>3. r.funds[n] = s.funds[n]
        BY <1>7, <2>3, <2>4, <3>2, <3>3, <4>1
      <4> QED BY <4>2, <4>3
    <3> QED BY <1>5, <3>2, <3>3, <3>4
  <2>6. ASSUME r.left > 0, NEW j \in 1 .. k + 1,
               transform[fs[ids[j]]] # NoDescription
        PROVE  r.funds[ids[j]].balance = 0
    <3>1. CASE j = k + 1
      <4>1. r.funds[id].balance = 0
        <5>1. PICK b \in Nat : b = s.funds[id].balance
          BY <2>4
        <5>2. r.funds[id].balance = b - Smaller(s.left, b)
          BY <2>3, <2>4, <5>1
        <5>3. s.left - Smaller(s.left, b) > 0
          BY <2>3, <2>6, <5>1
        <5>4. b - Smaller(s.left, b) = 0
          BY <1>1, <5>3 DEF Smaller
        <5> QED BY <5>2, <5>4
      <4> QED BY <3>1, <4>1 DEF id
    <3>2. CASE j \in 1 .. k
      <4>1. ids[j] # id /\ ids[j] \in 1 .. Len(s.funds)
        <5>1. j \in 1 .. Len(ids) /\ ids[j] # id
          BY <1>2, <1>4, <3>2
        <5> QED BY ONLY <1>1, <5>1
      <4>2. fs[ids[j]].fund_desc.type = t
        BY <1>2, <3>2
      <4>3. s.funds[ids[j]].fund_desc.type = t
        <5>0. ids[j] \in 1 .. Len(fs)
          <6>1. j \in 1 .. Len(ids)
            BY <1>2, <3>2
          <6> QED BY ONLY <1>1, <6>1
        <5>1. PICK n \in 1 .. Len(fs) : n = ids[j]
          BY <5>0
        <5>2. key(s.funds[n]) = key(fs[n])
          BY <1>1 DEF Extends
        <5> QED BY <4>2, <5>1, <5>2 DEF key
      <4>4. r.funds[ids[j]] = s.funds[ids[j]]
        BY <1>7, <2>3, <2>4, <4>1, <4>3
      <4> QED BY <1>1, <1>5, <1>10, <2>6, <3>2, <4>4
    <3> QED BY <1>2, <3>1, <3>2
  <2> QED BY <2>5, <2>6 DEF RestInv
<1> QED BY <1>8, <1>9, <1>10

(* split_convert is the last value of the loop.                            *)
LEMMA SplitIsLoop ==
    ASSUME NEW fs, NEW ids, Len(ids) \in Nat, NEW max, NEW transform, NEW gas,
           NEW r, r = split_convert(fs, ids, max, transform, gas)
    PROVE  \E a : /\ IsLoop(a, fs, ids, max, transform, Len(ids))
                 /\ r = a[Smaller(gas, Len(ids))]
<1> DEFINE a == CHOOSE x : IsLoop(x, fs, ids, max, transform, Len(ids))
<1>1. IsLoop(a, fs, ids, max, transform, Len(ids))
  BY LoopExists
<1>2. r = a[Smaller(gas, Len(ids))]
  BY DEF split_convert, IsLoop, start_of, visit_next
<1> HIDE DEF a
<1> QED BY <1>1, <1>2

(* The invariant of the loop holds before the first step.                  *)
LEMMA LoopInvInit ==
    ASSUME NEW fs \in Seq(Item), NEW seen, NEW max \in Nat, NEW transform
    PROVE  LoopInv(start_of(fs, max), 0, fs, seen, max, transform)
<1> DEFINE s == start_of(fs, max)
<1>1. s.funds = fs /\ s.left = max /\ s.visited = 0
  BY DEF start_of
<1>2. IsState(s, fs, max)
  BY <1>1 DEF IsState, start_of, Extends
<1>3. ASSUME NEW K, NEW lo \in Effects, NEW hi \in Effects
      PROVE  Between(lo, hi, Total(fs, K), Total(fs, K), max - max)
  <2>1. Total(fs, K) \in Nat
    BY TotalNat
  <2>2. signed(lo, max - max) = 0 /\ signed(hi, max - max) = 0
    BY DEF signed, Effects
  <2> QED BY <2>1, <2>2 DEF Between
<1> HIDE DEF s
<1> QED BY <1>1, <1>2, <1>3 DEF LoopInv, s

(* The invariant of the loop holds after every step, for items known only  *)
(* by a set they belong to.                                                *)
LEMMA LoopKeeps ==
    ASSUME NEW fs \in Seq(Item), NEW ids \in Seq(1 .. Len(fs)),
           NEW max \in Nat, NEW transform, IsTransform(transform), NEW seen,
           NEW a, IsLoop(a, fs, ids, max, transform, Len(ids)),
           \A k \in Nat : k + 1 <= Len(ids) /\ IsState(a[k], fs, max) =>
               a[k].funds[ids[k + 1]] \in seen[k + 1]
    PROVE  \A k \in 0 .. Len(ids) : LoopInv(a[k], k, fs, seen, max, transform)
<1> DEFINE N == Len(ids)
           S == { k \in Nat :
                     k <= N => LoopInv(a[k], k, fs, seen, max, transform) }
<1>1. N \in Nat
  OBVIOUS
<1>2. /\ a[0] = start_of(fs, max)
      /\ \A k \in 1 .. N : a[k] = visit_next(a[k - 1], ids[k], transform)
  BY <1>1, LoopAt
<1>3. 0 \in S
  BY <1>2, LoopInvInit
<1>4. ASSUME NEW k \in Nat, k \in S PROVE k + 1 \in S
  <2>1. SUFFICES ASSUME k + 1 <= N
                 PROVE  LoopInv(a[k + 1], k + 1, fs, seen, max, transform)
    BY <1>1
  <2>2. LoopInv(a[k], k, fs, seen, max, transform)
    BY <1>1, <1>4, <2>1
  <2>3. k + 1 \in 1 .. N /\ (k + 1) - 1 = k
    BY <1>1, <2>1
  <2>4. a[k + 1] = visit_next(a[k], ids[k + 1], transform)
    BY <1>2, <2>3
  <2>5. a[k].funds[ids[k + 1]] \in seen[k + 1]
    BY <2>1, <2>2 DEF LoopInv
  <2>6. PICK s : s = a[k]
    OBVIOUS
  <2>7. /\ s.funds[ids[k + 1]] \in seen[k + 1]
        /\ LoopInv(s, k, fs, seen, max, transform)
    BY <2>2, <2>5, <2>6
  <2>8. a[k + 1] = visit_next(s, ids[k + 1], transform)
    BY <2>4, <2>6
  <2> QED BY <2>1, <2>7, <2>8, LoopInvStep
<1>5. Nat \subseteq S
  <2> HIDE DEF S
  <2> QED BY <1>3, <1>4, NatSetInduction
<1> QED BY <1>1, <1>5

(* Whatever was converted before, an item has the user and the description *)
(* it started with.                                                        *)
same_kind(fs, ids) ==
    [j \in 1 .. Len(ids) |-> { item \in Item : key(item) = key(fs[ids[j]]) }]

(* The invariant of the loop with every visited item known by its kind.    *)
LEMMA LoopStates ==
    ASSUME NEW fs \in Seq(Item), NEW ids \in Seq(1 .. Len(fs)),
           NEW max \in Nat, NEW transform, IsTransform(transform),
           NEW a, IsLoop(a, fs, ids, max, transform, Len(ids))
    PROVE  \A k \in 0 .. Len(ids) :
              LoopInv(a[k], k, fs, same_kind(fs, ids), max, transform)
<1>1. ASSUME NEW k \in Nat, k + 1 <= Len(ids), IsState(a[k], fs, max)
      PROVE  a[k].funds[ids[k + 1]] \in same_kind(fs, ids)[k + 1]
  <2>1. k + 1 \in 1 .. Len(ids)
    BY <1>1
  <2>2. PICK id \in 1 .. Len(fs) : id = ids[k + 1]
    BY <2>1
  <2>3. a[k].funds[id] \in Item /\ key(a[k].funds[id]) = key(fs[id])
    <3>1. PICK gs : gs = a[k].funds
      OBVIOUS
    <3>2. gs \in Seq(Item) /\ Extends(gs, fs)
      BY <1>1, <3>1 DEF IsState
    <3>3. id \in 1 .. Len(gs) /\ key(gs[id]) = key(fs[id])
      BY <3>2 DEF Extends
    <3> QED BY <3>1, <3>2, <3>3
  <2> QED BY <2>1, <2>2, <2>3 DEF same_kind
<1> QED BY <1>1, LoopKeeps

(* What split_convert does to the total of a kind of funds: it is the      *)
(* amount converted, or nothing, or minus that amount.                     *)
LEMMA SplitConvert ==
    ASSUME NEW fs \in Seq(Item), NEW ids \in Seq(1 .. Len(fs)),
           NEW max \in Nat, NEW transform, IsTransform(transform),
           NEW gas \in Nat, NEW r,
           r = split_convert(fs, ids, max, transform, gas)
    PROVE  LoopInv(r, Smaller(gas, Len(ids)), fs, same_kind(fs, ids), max,
                   transform)
<1>1. Len(ids) \in Nat
  OBVIOUS
<1>2. PICK a : /\ IsLoop(a, fs, ids, max, transform, Len(ids))
               /\ r = a[Smaller(gas, Len(ids))]
  BY <1>1, SplitIsLoop
<1>3. Smaller(gas, Len(ids)) \in 0 .. Len(ids)
  BY <1>1 DEF Smaller
<1> QED BY <1>2, <1>3, LoopStates

(* The items of the source type not come to yet are untouched after every  *)
(* step.                                                                   *)
LEMMA RestKeeps ==
    ASSUME NEW fs \in Seq(Item), NEW ids, IsIds(ids, fs), NEW max \in Nat,
           NEW transform, IsTransform(transform), NEW t,
           Leaves(t, transform),
           \A j \in 1 .. Len(ids) : fs[ids[j]].fund_desc.type = t,
           NEW a, IsLoop(a, fs, ids, max, transform, Len(ids))
    PROVE  \A k \in 0 .. Len(ids) : RestInv(a[k], k, fs, ids, t, transform)
<1> DEFINE N == Len(ids)
           S == { k \in Nat : k <= N => RestInv(a[k], k, fs, ids, t, transform) }
<1>0. ids \in Seq(1 .. Len(fs))
  BY DEF IsIds
<1>1. N \in Nat /\ Len(fs) \in Nat
  BY <1>0
<1>2. /\ a[0] = start_of(fs, max)
      /\ \A k \in 1 .. N : a[k] = visit_next(a[k - 1], ids[k], transform)
  BY <1>1, LoopAt
<1>3. 0 \in S
  <2>1. a[0].funds = fs
    BY <1>2 DEF start_of
  <2>2. \A n \in 1 .. Len(fs) : n <= Len(fs)
    BY <1>1
  <2>3. \A j \in 1 .. 0 : FALSE
    OBVIOUS
  <2> QED BY <2>1, <2>2, <2>3 DEF RestInv
<1>4. ASSUME NEW k \in Nat, k \in S PROVE k + 1 \in S
  <2>1. SUFFICES ASSUME k + 1 <= N
                 PROVE  RestInv(a[k + 1], k + 1, fs, ids, t, transform)
    BY <1>1
  <2>2. RestInv(a[k], k, fs, ids, t, transform)
    BY <1>1, <1>4, <2>1
  <2>3. k + 1 \in 1 .. N /\ (k + 1) - 1 = k /\ k \in 0 .. N
    BY <1>1, <2>1
  <2>4. a[k + 1] = visit_next(a[k], ids[k + 1], transform)
    BY <1>2, <2>3
  <2>5. IsState(a[k], fs, max)
    BY <1>0, <2>3, LoopStates DEF LoopInv
  <2> QED BY <2>1, <2>2, <2>4, <2>5, RestInvStep
<1>5. Nat \subseteq S
  <2> HIDE DEF S
  <2> QED BY <1>3, <1>4, NatSetInduction
<1> QED BY <1>1, <1>5

(* If the conversion leads to another type, an item is as it was when it   *)
(* is visited.                                                             *)
as_it_was(fs, ids) == [j \in 1 .. Len(ids) |-> { fs[ids[j]] }]

(* In a swap out of a type every visited item is still what it was when    *)
(* the swap began.                                                         *)
LEMMA SplitExactly ==
    ASSUME NEW fs \in Seq(Item), NEW ids, IsIds(ids, fs), NEW max \in Nat,
           NEW transform, IsTransform(transform), NEW t,
           Leaves(t, transform),
           \A j \in 1 .. Len(ids) : fs[ids[j]].fund_desc.type = t,
           NEW gas \in Nat, NEW r,
           r = split_convert(fs, ids, max, transform, gas)
    PROVE  LoopInv(r, Smaller(gas, Len(ids)), fs, as_it_was(fs, ids), max,
                   transform)
<1>1. ids \in Seq(1 .. Len(fs)) /\ Len(ids) \in Nat
  BY DEF IsIds
<1>2. PICK a : /\ IsLoop(a, fs, ids, max, transform, Len(ids))
               /\ r = a[Smaller(gas, Len(ids))]
  BY <1>1, SplitIsLoop
<1>3. Smaller(gas, Len(ids)) \in 0 .. Len(ids)
  BY <1>1 DEF Smaller
<1>4. ASSUME NEW k \in Nat, k + 1 <= Len(ids), IsState(a[k], fs, max)
      PROVE  a[k].funds[ids[k + 1]] \in as_it_was(fs, ids)[k + 1]
  <2>1. k + 1 \in 1 .. Len(ids) /\ k \in 0 .. Len(ids)
    BY <1>1, <1>4
  <2>2. PICK id \in 1 .. Len(fs) : id = ids[k + 1]
    BY <1>1, <2>1
  <2>3. PICK s : s = a[k]
    OBVIOUS
  <2>4. PICK gs : gs = s.funds
    OBVIOUS
  <2>5. gs \in Seq(Item) /\ Extends(gs, fs)
    BY <1>4, <2>3, <2>4 DEF IsState
  <2>6. id \in 1 .. Len(gs) /\ key(gs[id]) = key(fs[id])
    BY <2>5 DEF Extends
  <2>7. gs[id].fund_desc.type = t
    BY <2>1, <2>2, <2>6 DEF key
  <2>8. RestInv(s, k, fs, ids, t, transform)
    BY <1>2, <2>1, <2>3, RestKeeps
  <2>9. \A j \in 1 .. k : ids[j] # id
    BY <1>1, <2>1, <2>2 DEF IsIds
  <2>10. gs[id] = fs[id]
    BY <2>4, <2>6, <2>7, <2>8, <2>9 DEF RestInv
  <2> QED BY <2>1, <2>2, <2>3, <2>4, <2>10 DEF as_it_was
<1>5. \A k \in 0 .. Len(ids) :
         LoopInv(a[k], k, fs, as_it_was(fs, ids), max, transform)
  BY <1>1, <1>2, <1>4, LoopKeeps
<1> QED BY <1>2, <1>3, <1>5

(* With gas for the whole list, and a transformation that selects all of   *)
(* it, split_convert stops only when the amount or the list is used up.    *)
LEMMA SplitAll ==
    ASSUME NEW fs \in Seq(Item), NEW ids, IsIds(ids, fs), NEW idset,
           Lists(ids, idset, fs), NEW max \in Nat,
           NEW transform, IsTransform(transform), NEW t,
           Leaves(t, transform),
           \A j \in 1 .. Len(ids) :
               /\ fs[ids[j]].fund_desc.type = t
               /\ transform[fs[ids[j]]] # NoDescription,
           NEW gas \in Nat, Len(ids) <= gas, NEW r,
           r = split_convert(fs, ids, max, transform, gas),
           NEW K, \A n \in 1 .. Len(fs) : key(fs[n]) \in K => n \in idset,
           K \subseteq OfType(t),
           Total(r.funds, K) = Total(fs, K) + signed(-1, max - r.left)
    PROVE  max - r.left = Smaller(max, Total(fs, K))
<1>0. ids \in Seq(1 .. Len(fs)) /\ Len(ids) \in Nat
  BY DEF IsIds
<1>1. PICK a : /\ IsLoop(a, fs, ids, max, transform, Len(ids))
               /\ r = a[Smaller(gas, Len(ids))]
  BY ONLY <1>0, r = split_convert(fs, ids, max, transform, gas), SplitIsLoop
<1>2. Smaller(gas, Len(ids)) = Len(ids)
  BY <1>0 DEF Smaller
<1>3. r = a[Len(ids)] /\ Len(ids) \in 0 .. Len(ids)
  BY <1>0, <1>1, <1>2
<1>4. RestInv(r, Len(ids), fs, ids, t, transform)
  BY <1>1, <1>3, RestKeeps
<1>5. IsState(r, fs, max)
  BY <1>0, <1>1, <1>3, LoopStates DEF LoopInv
<1>6. PICK gs \in Seq(Item), l \in Nat : gs = r.funds /\ l = r.left /\ l <= max
  BY <1>5 DEF IsState
<1>7. PICK x \in Nat, y \in Nat : x = Total(fs, K) /\ y = Total(gs, K)
  BY TotalNat
<1>8. y = x - (max - l)
  BY <1>6, <1>7 DEF signed
<1>9. ASSUME l > 0 PROVE y = 0
  <2>1. ASSUME NEW n \in 1 .. Len(gs), key(gs[n]) \in K
        PROVE  gs[n].balance = 0
    <3>1. gs[n].fund_desc.type = t
      BY <2>1 DEF OfType, key
    <3>2. /\ n <= Len(fs)
          /\ (\A j \in 1 .. Len(ids) : ids[j] # n) => gs[n] = fs[n]
      BY <1>4, <1>6, <3>1 DEF RestInv
    <3>3. n \in 1 .. Len(fs)
      BY <3>2
    <3>4. CASE \A j \in 1 .. Len(ids) : ids[j] # n
      <4>1. gs[n] = fs[n] /\ n \in idset
        BY <2>1, <3>2, <3>3, <3>4
      <4>2. ~ (fs[n].balance > 0)
        BY <3>3, <3>4, <4>1 DEF Lists
      <4>3. fs[n].balance \in Nat
        BY <3>3, ItemFields
      <4> QED BY <4>1, <4>2, <4>3
    <3>5. CASE \E j \in 1 .. Len(ids) : ids[j] = n
      BY <1>4, <1>6, <1>9, <3>5 DEF RestInv
    <3> QED BY <3>4, <3>5
  <2> QED BY <1>7, <2>1, TotalOfNothing
<1>10. max - l = Smaller(max, x)
  BY ONLY <1>6, <1>8, <1>9, max \in Nat, l \in Nat, x \in Nat, y \in Nat
     DEF Smaller
<1> QED BY ONLY <1>6, <1>7, <1>10

-----------------------------------------------------------------------------
(* The swaps *)

(* A conversion of any item of the kinds S changes the total of K by lo to *)
(* hi times the amount converted.                                          *)
Moves(lo, hi, K, S, transform) ==
    \A item \in Item :
        key(item) \in S /\ transform[item] # NoDescription =>
            /\ lo <= effect_on(K, item, transform[item])
            /\ effect_on(K, item, transform[item]) <= hi

(* r is what converting some items of the kinds S makes of fs.             *)
Swap(r, fs, max, S, transform) ==
    /\ IsState(r, fs, max)
    /\ \A K : \A lo, hi \in Effects :
          Moves(lo, hi, K, S, transform) =>
             Between(lo, hi, Total(r.funds, K), Total(fs, K), max - r.left)

(* split_convert over items of given kinds changes the totals by what the  *)
(* transformation does to those kinds.                                     *)
LEMMA SplitIsSwap ==
    ASSUME NEW fs \in Seq(Item), NEW ids \in Seq(1 .. Len(fs)),
           NEW max \in Nat, NEW transform, IsTransform(transform),
           NEW gas \in Nat, NEW r,
           r = split_convert(fs, ids, max, transform, gas),
           NEW S, \A j \in 1 .. Len(ids) : key(fs[ids[j]]) \in S
    PROVE  Swap(r, fs, max, S, transform) /\ r.visited <= gas
<1>1. LoopInv(r, Smaller(gas, Len(ids)), fs, same_kind(fs, ids), max,
              transform)
  BY SplitConvert
<1>2. IsState(r, fs, max) /\ r.visited <= Smaller(gas, Len(ids))
      /\ r.visited \in Nat
  BY <1>1 DEF LoopInv, IsState
<1>3. r.visited <= gas /\ r.visited <= Len(ids)
  BY <1>2 DEF Smaller
<1>4. ASSUME NEW K, NEW lo \in Effects, NEW hi \in Effects,
             Moves(lo, hi, K, S, transform)
      PROVE  Between(lo, hi, Total(r.funds, K), Total(fs, K), max - r.left)
  <2>1. ASSUME NEW j \in 1 .. r.visited
        PROVE  HasEffect(lo, hi, K, same_kind(fs, ids)[j], transform)
    <3>1. j \in 1 .. Len(ids)
      BY <1>2, <1>3
    <3>2. same_kind(fs, ids)[j] = { item \in Item : key(item) = key(fs[ids[j]]) }
      BY <3>1 DEF same_kind
    <3>3. key(fs[ids[j]]) \in S
      BY <3>1
    <3> QED BY <1>4, <3>2, <3>3 DEF HasEffect, Moves
  <2> QED BY <1>1, <2>1 DEF LoopInv
<1> QED BY <1>2, <1>3, <1>4 DEF Swap

(* A swap that changes a total by exactly e times the amount converted.    *)
LEMMA SwapBy ==
    ASSUME NEW fs \in Seq(Item), NEW max \in Nat, NEW S, NEW transform, NEW r,
           Swap(r, fs, max, S, transform), NEW K, NEW e \in Effects,
           Moves(e, e, K, S, transform)
    PROVE  Total(r.funds, K) = Total(fs, K) + signed(e, max - r.left)
<1>1. Between(e, e, Total(r.funds, K), Total(fs, K), max - r.left)
  BY DEF Swap
<1>2. PICK x \in Nat, y \in Nat, w \in Nat :
         x = Total(fs, K) /\ y = Total(r.funds, K) /\ w = max - r.left
  <2>1. r.funds \in Seq(Item) /\ r.left \in Nat /\ r.left <= max
    BY DEF Swap, IsState
  <2>2. Total(fs, K) \in Nat /\ Total(r.funds, K) \in Nat
    BY <2>1, TotalNat
  <2>3. max - r.left \in Nat
    BY <2>1
  <2> QED BY <2>2, <2>3, Zenon
<1>3. x + signed(e, w) <= y /\ y <= x + signed(e, w) /\ signed(e, w) \in Int
  BY <1>1, <1>2 DEF Between, signed
<1>4. y = x + signed(e, w)
  BY <1>3
<1> QED BY <1>2, <1>4

(* Kinds of funds that only the user decides.                              *)
UserKind(K) ==
    \A j, k \in Keys : j[1] = k[1] => (j \in K <=> k \in K)

(* No swap moves funds between users.                                      *)
LEMMA SwapKeepsUsers ==
    ASSUME NEW fs \in Seq(Item), NEW max \in Nat, NEW S, NEW transform,
           IsTransform(transform), NEW r, Swap(r, fs, max, S, transform),
           NEW K, UserKind(K)
    PROVE  Total(r.funds, K) = Total(fs, K)
<1>1. ASSUME NEW item \in Item, transform[item] # NoDescription
      PROVE  effect_on(K, item, transform[item]) = 0
  <2>1. transform[item] \in Desc
    BY <1>1 DEF IsTransform
  <2>2. PICK j \in Keys, k \in Keys :
           j = <<item.user_id, transform[item]>> /\ k = key(item)
    BY <2>1, ItemFields DEF Keys
  <2>3. j[1] = k[1]
    BY <2>2 DEF key
  <2>4. j \in K <=> k \in K
    BY <2>3 DEF UserKind
  <2> QED BY <2>2, <2>4 DEF effect_on, indicator
<1>2. Moves(0, 0, K, S, transform) /\ 0 \in Effects
  BY <1>1 DEF Moves, Effects
<1>3. Total(r.funds, K) = Total(fs, K) + signed(0, max - r.left)
  BY <1>2, SwapBy
<1>4. Total(fs, K) \in Nat /\ signed(0, max - r.left) = 0
  BY TotalNat DEF signed
<1> QED BY <1>3, <1>4

(* A transformation into type q.                                           *)
Into(q, transform) ==
    /\ IsTransform(transform)
    /\ \A item \in Item : transform[item] # NoDescription =>
          transform[item].type = q

(* The totals of the types after x moved from type t to type q.            *)
shifted(total, ty, t, q, x) ==
    IF ty = t THEN total - x ELSE IF ty = q THEN total + x ELSE total

ShiftsTypes(r, fs, max, t, q) ==
    \A ty : total_of_type(r.funds, ty)
              = shifted(total_of_type(fs, ty), ty, t, q, max - r.left)

(* A swap from type t to type q.                                           *)
LEMMA SwapShifts ==
    ASSUME NEW fs \in Seq(Item), NEW max \in Nat, NEW S, NEW transform,
           NEW r, Swap(r, fs, max, S, transform), NEW t, NEW q, q # t,
           S \subseteq OfType(t), Into(q, transform)
    PROVE  ShiftsTypes(r, fs, max, t, q)
<1>1. SUFFICES ASSUME NEW ty
               PROVE  total_of_type(r.funds, ty)
                   = shifted(total_of_type(fs, ty), ty, t, q, max - r.left)
  BY DEF ShiftsTypes
<1> DEFINE e == IF ty = t THEN -1 ELSE IF ty = q THEN 1 ELSE 0
<1>2. ASSUME NEW item \in Item, key(item) \in S,
             transform[item] # NoDescription
      PROVE  effect_on(OfType(ty), item, transform[item]) = e
  <2>1. transform[item] \in Desc /\ transform[item].type = q
    BY <1>2 DEF IsTransform, Into
  <2>2. <<item.user_id, transform[item]>> \in Keys
    BY <2>1, ItemFields DEF Keys
  <2>3. <<item.user_id, transform[item]>> \in OfType(ty) <=> ty = q
    BY <2>1, <2>2 DEF OfType
  <2>4. key(item) \in OfType(ty) <=> ty = t
    BY <1>2 DEF OfType
  <2> QED BY <2>3, <2>4 DEF effect_on, indicator
<1>3. e \in Effects
  BY DEF Effects
<1> HIDE DEF e
<1>4. Moves(e, e, OfType(ty), S, transform)
  <2>1. e <= e
    BY <1>3 DEF Effects
  <2> QED BY <1>2, <2>1 DEF Moves
<1>5. Total(r.funds, OfType(ty)) = Total(fs, OfType(ty)) + signed(e, max - r.left)
  BY <1>3, <1>4, SwapBy
<1>6. r.funds \in Seq(Item) /\ r.left \in Nat
  BY DEF Swap, IsState
<1>7. /\ total_of_type(r.funds, ty) = Total(r.funds, OfType(ty))
      /\ total_of_type(fs, ty) = Total(fs, OfType(ty))
      /\ total_of_type(fs, ty) \in Nat
  BY <1>6, TypeTotal
<1> QED BY <1>5, <1>6, <1>7 DEF signed, e, shifted

(* The ids are the live items of the kinds K, which are of type t.         *)
ListOfKind(ids, fs, K, t) ==
    /\ IsIds(ids, fs)
    /\ \A j \in 1 .. Len(ids) : key(fs[ids[j]]) \in K
    /\ \A n \in 1 .. Len(fs) : key(fs[n]) \in K /\ fs[n].balance > 0 =>
          \E j \in 1 .. Len(ids) : ids[j] = n
    /\ K \subseteq OfType(t)

(* The list of a set of ids holds the live items of the kind those ids     *)
(* have, forwards and backwards.                                           *)
LEMMA KindList ==
    ASSUME NEW fs \in Seq(Item), NEW idset, NEW K, NEW t, K \subseteq OfType(t),
           \A n \in 1 .. Len(fs) : n \in idset <=> key(fs[n]) \in K,
           NEW list, list = list_of(fs, idset)
    PROVE  ListOfKind(list, fs, K, t) /\ ListOfKind(Reverse(list), fs, K, t)
<1>1. IsIds(list, fs) /\ Lists(list, idset, fs)
  BY ListOf
<1>2. IsIds(Reverse(list), fs) /\ Lists(Reverse(list), idset, fs)
  BY <1>1, ReverseList
<1>3. ASSUME NEW ids, IsIds(ids, fs), Lists(ids, idset, fs)
      PROVE  ListOfKind(ids, fs, K, t)
  <2>1. ids \in Seq(1 .. Len(fs))
    BY <1>3 DEF IsIds
  <2>2. \A j \in 1 .. Len(ids) : ids[j] \in 1 .. Len(fs)
    BY <2>1
  <2> QED BY <1>3, <2>2 DEF Lists, ListOfKind
<1> QED BY <1>1, <1>2, <1>3

(* The list of a type holds all the live items of the type.                *)
LEMMA TypeList ==
    ASSUME NEW fs \in Seq(Item), NEW t, NEW list,
           list = fund_list_by_type(fs, t)
    PROVE  /\ ListOfKind(list, fs, OfType(t), t)
           /\ ListOfKind(Reverse(list), fs, OfType(t), t)
<1>1. \A n \in 1 .. Len(fs) : n \in of_type(fs, t) <=> key(fs[n]) \in OfType(t)
  BY ItemFields DEF key, of_type, OfType
<1>2. list = list_of(fs, of_type(fs, t))
  BY DEF fund_list_by_type
<1> QED BY <1>1, <1>2, KindList

(* The list of a user and a type holds all the live items of both.         *)
LEMMA UserList ==
    ASSUME NEW fs \in Seq(Item), NEW u, NEW t, NEW list,
           list = fund_list_by_user(fs, u, t)
    PROVE  /\ ListOfKind(list, fs, OfUser(u) \cap OfType(t), t)
           /\ ListOfKind(Reverse(list), fs, OfUser(u) \cap OfType(t), t)
<1> DEFINE K == OfUser(u) \cap OfType(t)
           ids == of_user(fs, u) \cap of_type(fs, t)
<1>1. \A n \in 1 .. Len(fs) : /\ n \in DOMAIN fs
                              /\ key(fs[n]) \in Keys
                              /\ key(fs[n])[1] = fs[n].user_id
                              /\ key(fs[n])[2] = fs[n].fund_desc
  BY ItemFields DEF key
<1>2. \A n \in 1 .. Len(fs) : n \in ids <=> key(fs[n]) \in K
  BY <1>1 DEF of_user, of_type, OfUser, OfType
<1>3. list = list_of(fs, ids)
  BY DEF fund_list_by_user
<1>4. K \subseteq OfType(t)
  OBVIOUS
<1> HIDE DEF K, ids
<1>5. ListOfKind(list, fs, K, t) /\ ListOfKind(Reverse(list), fs, K, t)
  BY <1>2, <1>3, <1>4, KindList
<1> QED BY <1>5 DEF K

(* A conversion of a whole list of the kinds K into another type.          *)
LEMMA SwapList ==
    ASSUME NEW fs \in Seq(Item), NEW ids, NEW K, NEW t \in FundType,
           ListOfKind(ids, fs, K, t), NEW max \in Nat, NEW transform, NEW q,
           q # t, Into(q, transform), NEW gas \in Nat, NEW r,
           r = split_convert(fs, ids, max, transform, gas)
    PROVE  /\ Swap(r, fs, max, K, transform)
           /\ r.visited <= gas
           /\ Total(r.funds, K) = Total(fs, K) - (max - r.left)
           /\ (\A item \in Item : transform[item] # NoDescription)
                 /\ Len(fs) <= gas =>
                    max - r.left = Smaller(max, Total(fs, K))
<1>1. /\ IsIds(ids, fs) /\ ids \in Seq(1 .. Len(fs)) /\ IsTransform(transform)
      /\ \A j \in 1 .. Len(ids) : key(fs[ids[j]]) \in K
      /\ Len(ids) <= Len(fs) /\ Len(ids) \in Nat /\ Len(fs) \in Nat
      /\ K \subseteq OfType(t)
      /\ \A n \in 1 .. Len(fs) : key(fs[n]) \in K /\ fs[n].balance > 0 =>
            \E j \in 1 .. Len(ids) : ids[j] = n
      /\ \A item \in Item : transform[item] # NoDescription =>
            transform[item].type = q
  BY DEF IsIds, ListOfKind, Into
<1>2. Swap(r, fs, max, K, transform) /\ r.visited <= gas
  BY <1>1, SplitIsSwap
<1>3. ASSUME NEW item \in Item, key(item) \in K,
             transform[item] # NoDescription
      PROVE  effect_on(K, item, transform[item]) = -1
  <2>1. transform[item].type # t
    BY <1>1, <1>3
  <2>2. <<item.user_id, transform[item]>> \notin K
    BY <1>1, <2>1 DEF OfType
  <2> QED BY <1>3, <2>2 DEF effect_on, indicator
<1>4. Moves(-1, -1, K, K, transform) /\ -1 \in Effects
  <2>1. -1 <= -1 /\ -1 \in Effects
    BY DEF Effects
  <2> QED BY <1>3, <2>1 DEF Moves
<1>5. Total(r.funds, K) = Total(fs, K) + signed(-1, max - r.left)
  BY <1>2, <1>4, SwapBy
<1>6. /\ Total(fs, K) \in Nat /\ r.left \in Nat
      /\ signed(-1, max - r.left) = 0 - (max - r.left)
  BY <1>2, TotalNat DEF Swap, IsState, signed
<1>7. Total(r.funds, K) = Total(fs, K) - (max - r.left)
  BY <1>5, <1>6
<1>8. ASSUME \A item \in Item : transform[item] # NoDescription,
             Len(fs) <= gas
      PROVE  max - r.left = Smaller(max, Total(fs, K))
  <2>1. Leaves(t, transform)
    BY <1>1, <1>8 DEF Leaves
  <2> DEFINE idset == { n \in 1 .. Len(fs) : key(fs[n]) \in K }
  <2>2. \A j \in 1 .. Len(ids) : ids[j] \in 1 .. Len(fs)
    BY <1>1
  <2>3. Lists(ids, idset, fs)
    BY <1>1, <2>2 DEF Lists
  <2>4. \A j \in 1 .. Len(ids) :
           /\ fs[ids[j]].fund_desc.type = t
           /\ transform[fs[ids[j]]] # NoDescription
    <3>1. ASSUME NEW j \in 1 .. Len(ids)
          PROVE  /\ fs[ids[j]].fund_desc.type = t
                 /\ transform[fs[ids[j]]] # NoDescription
      <4>1. fs[ids[j]] \in Item
        BY <2>2
      <4>2. key(fs[ids[j]]) \in OfType(t)
        BY <1>1
      <4> QED BY <1>8, <4>1, <4>2 DEF OfType, key
    <3> QED BY <3>1
  <2>5. \A n \in 1 .. Len(fs) : key(fs[n]) \in K => n \in idset
    OBVIOUS
  <2>6. Len(ids) <= gas
    BY <1>1, <1>8
  <2> HIDE DEF idset
  <2> QED BY <1>1, <1>5, <2>1, <2>3, <2>4, <2>5, <2>6, SplitAll
<1> QED BY <1>2, <1>7, <1>8

(* r.funds is fs with max - r.left moved from type t to type q, all of it  *)
(* from the kinds K, and no other account is different.                    *)
Shift(r, fs, max, K, t, q) ==
    /\ r.funds \in Seq(Item) /\ r.left \in Nat /\ r.left <= max
    /\ r.visited \in Nat
    /\ max - r.left <= Total(fs, K)
    /\ ShiftsTypes(r, fs, max, t, q)
    /\ \A users : UserKind(users) => Total(r.funds, users) = Total(fs, users)

(* split_convert over a list of one type into another: what the source     *)
(* type loses the target gains, no user gains or loses, and with enough    *)
(* gas the amount moved is the smaller of what was asked and what there    *)
(* is.                                                                     *)
LEMMA ListShift ==
    ASSUME NEW fs \in Seq(Item), NEW ids, NEW K, NEW t \in FundType,
           ListOfKind(ids, fs, K, t), NEW max \in Nat, NEW transform, NEW q,
           q # t, Into(q, transform), NEW gas \in Nat, NEW r,
           r = split_convert(fs, ids, max, transform, gas)
    PROVE  /\ Swap(r, fs, max, K, transform)
           /\ Shift(r, fs, max, K, t, q)
           /\ r.visited <= gas
           /\ (\A item \in Item : transform[item] # NoDescription)
                 /\ Len(fs) <= gas =>
                    max - r.left = Smaller(max, Total(fs, K))
<1>1. /\ Swap(r, fs, max, K, transform)
      /\ r.visited <= gas
      /\ Total(r.funds, K) = Total(fs, K) - (max - r.left)
      /\ (\A item \in Item : transform[item] # NoDescription)
            /\ Len(fs) <= gas =>
               max - r.left = Smaller(max, Total(fs, K))
  BY SwapList
<1>2. IsTransform(transform) /\ K \subseteq OfType(t)
  BY DEF Into, ListOfKind
<1>3. /\ r.funds \in Seq(Item) /\ r.left \in Nat /\ r.left <= max
      /\ r.visited \in Nat
  BY <1>1 DEF Swap, IsState
<1>4. Total(r.funds, K) \in Nat /\ Total(fs, K) \in Nat
  BY <1>3, TotalNat
<1>5. max - r.left <= Total(fs, K)
  BY <1>1, <1>3, <1>4
<1>6. ShiftsTypes(r, fs, max, t, q)
  BY <1>1, <1>2, SwapShifts
<1>7. \A users : UserKind(users) => Total(r.funds, users) = Total(fs, users)
  BY <1>1, <1>2, SwapKeepsUsers
<1> QED BY <1>1, <1>3, <1>5, <1>6, <1>7 DEF Shift

(* swap_user_active_to_unstaked: unStake of active stake.                  *)
LEMMA UserActiveToUnstaked ==
    ASSUME NEW fs \in Seq(Item), NEW u, NEW amount \in Nat, NEW nonce \in Nat, NEW r,
           r = swap_user_active_to_unstaked(fs, u, amount, nonce)
    PROVE  /\ Swap(r, fs, amount, OfUser(u) \cap OfType("Active"),
                   [item \in Item |-> UnStaked(nonce)])
           /\ Shift(r, fs, amount, OfUser(u) \cap OfType("Active"), "Active", "UnStaked")
           /\ amount - r.left = Smaller(amount, Total(fs, OfUser(u) \cap OfType("Active")))
<1> DEFINE transform == [item \in Item |-> UnStaked(nonce)]
           ids == fund_list_by_user(fs, u, "Active")
           K == OfUser(u) \cap OfType("Active")
<1>1. ListOfKind(ids, fs, K, "Active")
  BY UserList
<1>2. \A item \in Item : transform[item] \in Desc /\ transform[item].type = "UnStaked"
  BY ItemFields DEF UnStaked, Desc, FundType
<1>3. \A item \in Item : transform[item] # NoDescription
  BY <1>2, DescIsSomething
<1>4. Into("UnStaked", transform)
  BY <1>2 DEF Into, IsTransform
<1>5. r = split_convert(fs, ids, amount, transform, NoLimit(fs))
  BY DEF swap_user_active_to_unstaked
<1>6. "Active" \in FundType /\ NoLimit(fs) \in Nat /\ Len(fs) <= Len(fs)
  BY DEF FundType, NoLimit
<1> HIDE DEF transform, ids, K
<1>7. /\ Swap(r, fs, amount, K, transform)
      /\ Shift(r, fs, amount, K, "Active", "UnStaked")
      /\ r.visited <= NoLimit(fs)
      /\ Len(fs) <= NoLimit(fs) => amount - r.left = Smaller(amount, Total(fs, K))
  BY <1>1, <1>3, <1>4, <1>5, <1>6, ListShift
<1> QED BY <1>6, <1>7 DEF transform, K, NoLimit

(* swap_waiting_to_active: the front of the queue becomes active.          *)
LEMMA WaitingToActive ==
    ASSUME NEW fs \in Seq(Item), NEW amount \in Nat, NEW gas \in Nat, NEW r,
           r = swap_waiting_to_active(fs, amount, gas)
    PROVE  /\ Swap(r, fs, amount, OfType("Waiting"),
                   [item \in Item |-> Active])
           /\ Shift(r, fs, amount, OfType("Waiting"), "Waiting", "Active")
           /\ r.visited <= gas
           /\ Len(fs) <= gas =>
                 amount - r.left = Smaller(amount, Total(fs, OfType("Waiting")))
<1> DEFINE transform == [item \in Item |-> Active]
           ids == fund_list_by_type(fs, "Waiting")
           K == OfType("Waiting")
<1>1. ListOfKind(ids, fs, K, "Waiting")
  BY TypeList
<1>2. \A item \in Item : transform[item] \in Desc /\ transform[item].type = "Active"
  BY ItemFields DEF Active, Desc, FundType
<1>3. \A item \in Item : transform[item] # NoDescription
  BY <1>2, DescIsSomething
<1>4. Into("Active", transform)
  BY <1>2 DEF Into, IsTransform
<1>5. r = split_convert(fs, ids, amount, transform, gas)
  BY DEF swap_waiting_to_active
<1>6. "Waiting" \in FundType /\ gas \in Nat /\ Len(fs) <= Len(fs)
  BY DEF FundType, NoLimit
<1> HIDE DEF transform, ids, K
<1>7. /\ Swap(r, fs, amount, K, transform)
      /\ Shift(r, fs, amount, K, "Waiting", "Active")
      /\ r.visited <= gas
      /\ Len(fs) <= gas => amount - r.left = Smaller(amount, Total(fs, K))
  BY <1>1, <1>3, <1>4, <1>5, <1>6, ListShift
<1> QED BY <1>6, <1>7 DEF transform, K

(* swap_user_waiting_to_withdraw_only: unStake of waiting stake.           *)
LEMMA UserWaitingToWithdrawOnly ==
    ASSUME NEW fs \in Seq(Item), NEW u, NEW amount \in Nat, NEW r,
           r = swap_user_waiting_to_withdraw_only(fs, u, amount)
    PROVE  /\ Swap(r, fs, amount, OfUser(u) \cap OfType("Waiting"),
                   [item \in Item |-> WithdrawOnly])
           /\ Shift(r, fs, amount, OfUser(u) \cap OfType("Waiting"), "Waiting", "WithdrawOnly")
           /\ amount - r.left = Smaller(amount, Total(fs, OfUser(u) \cap OfType("Waiting")))
<1> DEFINE transform == [item \in Item |-> WithdrawOnly]
           ids == Reverse(fund_list_by_user(fs, u, "Waiting"))
           K == OfUser(u) \cap OfType("Waiting")
<1>1. ListOfKind(ids, fs, K, "Waiting")
  BY UserList
<1>2. \A item \in Item : transform[item] \in Desc /\ transform[item].type = "WithdrawOnly"
  BY ItemFields DEF WithdrawOnly, Desc, FundType
<1>3. \A item \in Item : transform[item] # NoDescription
  BY <1>2, DescIsSomething
<1>4. Into("WithdrawOnly", transform)
  BY <1>2 DEF Into, IsTransform
<1>5. r = split_convert(fs, ids, amount, transform, NoLimit(fs))
  BY DEF swap_user_waiting_to_withdraw_only
<1>6. "Waiting" \in FundType /\ NoLimit(fs) \in Nat /\ Len(fs) <= Len(fs)
  BY DEF FundType, NoLimit
<1> HIDE DEF transform, ids, K
<1>7. /\ Swap(r, fs, amount, K, transform)
      /\ Shift(r, fs, amount, K, "Waiting", "WithdrawOnly")
      /\ r.visited <= NoLimit(fs)
      /\ Len(fs) <= NoLimit(fs) => amount - r.left = Smaller(amount, Total(fs, K))
  BY <1>1, <1>3, <1>4, <1>5, <1>6, ListShift
<1> QED BY <1>6, <1>7 DEF transform, K, NoLimit

(* swap_unstaked_to_deferred_payment keeps the block in which the funds    *)
(* were unstaked.                                                          *)
LEMMA UnstakedToDeferred ==
    ASSUME NEW fs \in Seq(Item), NEW amount \in Nat, NEW gas \in Nat, NEW r,
           r = swap_unstaked_to_deferred_payment(fs, amount, gas)
    PROVE  /\ Swap(r, fs, amount, OfType("UnStaked"),
                   [item \in Item |-> DeferredPayment(item.fund_desc.created)])
           /\ Shift(r, fs, amount, OfType("UnStaked"), "UnStaked", "DeferredPayment")
           /\ r.visited <= gas
           /\ Len(fs) <= gas =>
                 amount - r.left = Smaller(amount, Total(fs, OfType("UnStaked")))
<1> DEFINE transform == [item \in Item |-> DeferredPayment(item.fund_desc.created)]
           ids == fund_list_by_type(fs, "UnStaked")
           K == OfType("UnStaked")
<1>1. ListOfKind(ids, fs, K, "UnStaked")
  BY TypeList
<1>2. \A item \in Item : transform[item] \in Desc /\ transform[item].type = "DeferredPayment"
  BY ItemFields DEF DeferredPayment, Desc, FundType
<1>3. \A item \in Item : transform[item] # NoDescription
  BY <1>2, DescIsSomething
<1>4. Into("DeferredPayment", transform)
  BY <1>2 DEF Into, IsTransform
<1>5. r = split_convert(fs, ids, amount, transform, gas)
  BY DEF swap_unstaked_to_deferred_payment
<1>6. "UnStaked" \in FundType /\ gas \in Nat /\ Len(fs) <= Len(fs)
  BY DEF FundType, NoLimit
<1> HIDE DEF transform, ids, K
<1>7. /\ Swap(r, fs, amount, K, transform)
      /\ Shift(r, fs, amount, K, "UnStaked", "DeferredPayment")
      /\ r.visited <= gas
      /\ Len(fs) <= gas => amount - r.left = Smaller(amount, Total(fs, K))
  BY <1>1, <1>3, <1>4, <1>5, <1>6, ListShift
<1> QED BY <1>6, <1>7 DEF transform, K

(* swap_active_to_deferred_payment stamps the funds with the current       *)
(* block.                                                                  *)
LEMMA ActiveToDeferred ==
    ASSUME NEW fs \in Seq(Item), NEW amount \in Nat, NEW nonce \in Nat, NEW gas \in Nat, NEW r,
           r = swap_active_to_deferred_payment(fs, amount, nonce, gas)
    PROVE  /\ Swap(r, fs, amount, OfType("Active"),
                   [item \in Item |-> DeferredPayment(nonce)])
           /\ Shift(r, fs, amount, OfType("Active"), "Active", "DeferredPayment")
           /\ r.visited <= gas
           /\ Len(fs) <= gas =>
                 amount - r.left = Smaller(amount, Total(fs, OfType("Active")))
<1> DEFINE transform == [item \in Item |-> DeferredPayment(nonce)]
           ids == Reverse(fund_list_by_type(fs, "Active"))
           K == OfType("Active")
<1>1. ListOfKind(ids, fs, K, "Active")
  BY TypeList
<1>2. \A item \in Item : transform[item] \in Desc /\ transform[item].type = "DeferredPayment"
  BY ItemFields DEF DeferredPayment, Desc, FundType
<1>3. \A item \in Item : transform[item] # NoDescription
  BY <1>2, DescIsSomething
<1>4. Into("DeferredPayment", transform)
  BY <1>2 DEF Into, IsTransform
<1>5. r = split_convert(fs, ids, amount, transform, gas)
  BY DEF swap_active_to_deferred_payment
<1>6. "Active" \in FundType /\ gas \in Nat /\ Len(fs) <= Len(fs)
  BY DEF FundType, NoLimit
<1> HIDE DEF transform, ids, K
<1>7. /\ Swap(r, fs, amount, K, transform)
      /\ Shift(r, fs, amount, K, "Active", "DeferredPayment")
      /\ r.visited <= gas
      /\ Len(fs) <= gas => amount - r.left = Smaller(amount, Total(fs, K))
  BY <1>1, <1>3, <1>4, <1>5, <1>6, ListShift
<1> QED BY <1>6, <1>7 DEF transform, K

(* Deferred payments that are due become withdraw-only.                    *)
release(n_blocks, nonce) ==
    [item \in Item |-> IF due(item.fund_desc, n_blocks, nonce)
                       THEN WithdrawOnly ELSE NoDescription]

(* swap_eligible_deferred_to_withdraw: the first half of withdraw.         *)
LEMMA EligibleToWithdraw ==
    ASSUME NEW fs \in Seq(Item), NEW u, NEW n_blocks, NEW nonce,
           NEW gas \in Nat, NEW max, max = Everything(fs), NEW r,
           r = swap_eligible_deferred_to_withdraw(fs, u, n_blocks, nonce, gas)
    PROVE  /\ Swap(r, fs, max, OfUser(u) \cap OfType("DeferredPayment"),
                   release(n_blocks, nonce))
           /\ Shift(r, fs, max, OfUser(u) \cap OfType("DeferredPayment"),
                    "DeferredPayment", "WithdrawOnly")
           /\ r.visited <= gas
<1> DEFINE transform == release(n_blocks, nonce)
           ids == fund_list_by_user(fs, u, "DeferredPayment")
           K == OfUser(u) \cap OfType("DeferredPayment")
<1>1. ListOfKind(ids, fs, K, "DeferredPayment")
  BY UserList
<1>2. WithdrawOnly \in Desc /\ WithdrawOnly.type = "WithdrawOnly"
  BY DEF WithdrawOnly, Desc, FundType
<1>3. \A item \in Item : transform[item] = WithdrawOnly
                         \/ transform[item] = NoDescription
  BY DEF release
<1>4. Into("WithdrawOnly", transform)
  BY <1>2, <1>3 DEF Into, IsTransform
<1>5. r = split_convert(fs, ids, max, transform, gas)
  BY DEF swap_eligible_deferred_to_withdraw, release
<1>6. "DeferredPayment" \in FundType /\ max \in Nat
  BY EverythingTotal DEF FundType
<1> HIDE DEF transform, ids, K
<1>7. /\ Swap(r, fs, max, K, transform)
      /\ Shift(r, fs, max, K, "DeferredPayment", "WithdrawOnly")
      /\ r.visited <= gas
  BY <1>1, <1>4, <1>5, <1>6, ListShift
<1> QED BY <1>7 DEF transform, K

(* The ids are those of items of type t.                                   *)
AllOfType(list, fs, t) ==
    /\ IsIds(list, fs)
    /\ \A j \in 1 .. Len(list) : fs[list[j]].fund_desc.type = t

(* The dust sweep walks items of the type it was asked for, as long as its *)
(* cursor is still in the list of that type.                               *)
LEMMA DustList ==
    ASSUME NEW fs \in Seq(Item), NEW last_id, NEW t
    PROVE  AllOfType(Reverse(list_of(fs, of_type(fs, t) \cap 1 .. last_id)),
                     fs, t)
<1>1. PICK ids : ids = of_type(fs, t) \cap 1 .. last_id
  OBVIOUS
<1>2. PICK l : l = list_of(fs, ids)
  OBVIOUS
<1>3. IsIds(l, fs) /\ Lists(l, ids, fs)
  BY <1>2, ListOf
<1>4. PICK list : list = Reverse(l)
  OBVIOUS
<1>5. IsIds(list, fs) /\ Lists(list, ids, fs)
  BY <1>3, <1>4, ReverseList
<1>6. AllOfType(list, fs, t)
  BY <1>1, <1>5 DEF Lists, of_type, AllOfType
<1> QED BY <1>1, <1>2, <1>4, <1>6

(* The items that a dust cleanup visits have one type.                     *)
LEMMA DustPath ==
    ASSUME NEW fs \in Seq(Item), NEW current_id, NEW source, NEW path,
           path = dust_path(fs, current_id, source)
    PROVE  /\ IsIds(path, fs)
           /\ current_id = 0 => AllOfType(path, fs, source)
           /\ current_id \in 1 .. Len(fs) =>
                 AllOfType(path, fs, fs[current_id].fund_desc.type)
<1>2. CASE current_id = 0
  <2>1. path = Reverse(list_of(fs, of_type(fs, source) \cap 1 .. Len(fs)))
    BY <1>2 DEF dust_path
  <2>2. 0 \notin 1 .. Len(fs)
    OBVIOUS
  <2>3. AllOfType(path, fs, source)
    BY <2>1, DustList
  <2> QED BY <1>2, <2>2, <2>3 DEF AllOfType
<1>3. CASE current_id # 0 /\ current_id \in 1 .. Len(fs)
  <2>1. path = Reverse(list_of(fs, of_type(fs, fs[current_id].fund_desc.type)
                                       \cap 1 .. current_id))
    BY <1>3 DEF dust_path
  <2>2. AllOfType(path, fs, fs[current_id].fund_desc.type)
    BY <2>1, DustList
  <2> QED BY <1>3, <2>2 DEF AllOfType
<1>4. CASE current_id # 0 /\ current_id \notin 1 .. Len(fs)
  <2>1. path = <<>>
    BY <1>4 DEF dust_path
  <2> QED BY <1>4, <2>1 DEF IsIds
<1> QED BY <1>2, <1>3, <1>4

small(dust_limit, transform) ==
    [item \in Item |-> IF item.balance < dust_limit
                       THEN transform[item] ELSE NoDescription]

(* The dust cleanup starts at the end of the list of source, or in it.     *)
in_source_list(fs, current_id, source) ==
    \/ current_id = 0
    \/ current_id \in 1 .. Len(fs) /\ fs[current_id].fund_desc.type = source

DustSwap(s, fs, max, current_id, source, convert) ==
    /\ Swap(s, fs, max, Keys, convert)
    /\ in_source_list(fs, current_id, source) =>
          Swap(s, fs, max, OfType(source), convert)

(* A dust cleanup, whatever list its checkpoint is in.                     *)
LEMMA DustIsSwap ==
    ASSUME NEW fs \in Seq(Item), NEW current_id, NEW dust_limit, NEW source,
           NEW transform, IsTransform(transform), NEW gas \in Nat,
           NEW max, max = Everything(fs), NEW r,
           r = swap_dust(fs, current_id, dust_limit, source, transform, gas)
    PROVE  \E s : r.funds = s.funds
                  /\ DustSwap(s, fs, max, current_id, source,
                              small(dust_limit, transform))
<1> DEFINE path == dust_path(fs, current_id, source)
           convert == small(dust_limit, transform)
           s == split_convert(fs, path, max, convert, gas)
<1>1. r.funds = s.funds
  BY DEF swap_dust, small
<1>2. /\ IsIds(path, fs)
      /\ current_id = 0 => AllOfType(path, fs, source)
      /\ current_id \in 1 .. Len(fs) =>
            AllOfType(path, fs, fs[current_id].fund_desc.type)
  BY DustPath
<1>3. \A item \in Item : convert[item] = transform[item]
                         \/ convert[item] = NoDescription
  BY DEF small
<1>4. max \in Nat
  BY EverythingTotal
<1> HIDE DEF path, convert, s
<1>5. IsTransform(convert)
  BY <1>3 DEF IsTransform
<1>6. path \in Seq(1 .. Len(fs))
  BY <1>2 DEF IsIds
<1>7. \A j \in 1 .. Len(path) :
         fs[path[j]] \in Item /\ key(fs[path[j]]) \in Keys
  BY <1>6, ItemFields
<1>8. Swap(s, fs, max, Keys, convert)
  BY <1>4, <1>5, <1>6, <1>7, SplitIsSwap DEF s
<1>9. ASSUME in_source_list(fs, current_id, source)
      PROVE  Swap(s, fs, max, OfType(source), convert)
  <2>1. \A j \in 1 .. Len(path) : fs[path[j]].fund_desc.type = source
    BY <1>2, <1>9 DEF AllOfType, in_source_list
  <2>2. \A j \in 1 .. Len(path) : key(fs[path[j]]) \in OfType(source)
    BY <1>7, <2>1 DEF OfType, key
  <2> QED BY <1>4, <1>5, <1>6, <2>2, SplitIsSwap DEF s
<1>10. DustSwap(s, fs, max, current_id, source, convert)
  BY <1>8, <1>9 DEF DustSwap
<1> QED BY <1>1, <1>10 DEF convert

(* A swap of funds of type t into type q.                                  *)
LEMMA SwapIsShift ==
    ASSUME NEW fs \in Seq(Item), NEW max \in Nat, NEW s, NEW t, NEW q, q # t,
           NEW convert, Into(q, convert),
           Swap(s, fs, max, OfType(t), convert)
    PROVE  Shift(s, fs, max, OfType(t), t, q)
<1>1. ShiftsTypes(s, fs, max, t, q)
  BY SwapShifts
<1>2. /\ s.funds \in Seq(Item) /\ s.left \in Nat /\ s.left <= max
      /\ s.visited \in Nat
  BY DEF Swap, IsState
<1>3. \A users : UserKind(users) => Total(s.funds, users) = Total(fs, users)
  BY SwapKeepsUsers DEF Into
<1>4. max - s.left <= Total(fs, OfType(t))
  <2>1. /\ total_of_type(s.funds, t) = total_of_type(fs, t) - (max - s.left)
        /\ total_of_type(s.funds, t) \in Nat
        /\ total_of_type(fs, t) \in Nat
        /\ total_of_type(fs, t) = Total(fs, OfType(t))
    BY <1>1, <1>2, TypeTotal DEF ShiftsTypes, shifted
  <2> QED BY <1>2, <2>1
<1> QED BY <1>1, <1>2, <1>3, <1>4 DEF Shift

(* The withdraw-only items of user u that the gas allows are paid out.     *)
Liquidated(gs, fs, u) ==
    LET P == OfUser(u) \cap OfType("WithdrawOnly")
    IN  /\ gs \in Seq(Item) /\ fs \in Seq(Item)
        /\ \A K : Total(gs, K) <= Total(fs, K)
        /\ \A K : K \cap P = {} => Total(gs, K) = Total(fs, K)
        /\ \A K : P \subseteq K =>
              Total(fs, K) - Total(gs, K) = Everything(fs) - Everything(gs)

(* liquidate_all_withdraw_only takes only withdrawable funds of the        *)
(* caller, and what every larger kind loses is what the book loses.        *)
LEMMA Liquidate ==
    ASSUME NEW fs \in Seq(Item), NEW u, NEW gas \in Nat, NEW gs,
           gs = liquidate_all_withdraw_only(fs, u, gas),
           NEW P, P = OfUser(u) \cap OfType("WithdrawOnly")
    PROVE  Liquidated(gs, fs, u)
<1> DEFINE ids == fund_list_by_user(fs, u, "WithdrawOnly")
           gone == ToSet(SubSeq(ids, 1, Smaller(gas, Len(ids))))
<1>1. gs = [id \in 1 .. Len(fs) |->
               IF id \in gone THEN [fs[id] EXCEPT !.balance = 0] ELSE fs[id]]
  BY DEF liquidate_all_withdraw_only
<1>2. ASSUME NEW n \in gone PROVE n \in 1 .. Len(fs) /\ key(fs[n]) \in P
  <2>1. ListOfKind(ids, fs, P, "WithdrawOnly")
    BY UserList
  <2>2. ids \in Seq(1 .. Len(fs)) /\ Len(ids) \in Nat
    BY <2>1 DEF ListOfKind, IsIds
  <2> HIDE DEF ids
  <2>3. \E j \in 1 .. Len(ids) : n = ids[j]
    BY <2>2 DEF ToSet, Smaller
  <2> QED BY <2>1, <2>2, <2>3 DEF ListOfKind
<1> HIDE DEF gone
<1>3. /\ Len(gs) = Len(fs) /\ gs \in Seq(Item)
      /\ \A n \in 1 .. Len(fs) : key(gs[n]) = key(fs[n]) /\ gs[n] \in Item
      /\ \A n \in 1 .. Len(fs) : n \notin gone => gs[n] = fs[n]
      /\ \A n \in 1 .. Len(fs) : n \in gone => gs[n].balance = 0
  <2>1. ASSUME NEW n \in 1 .. Len(fs)
        PROVE  /\ gs[n] \in Item /\ key(gs[n]) = key(fs[n])
               /\ n \notin gone => gs[n] = fs[n]
               /\ n \in gone => gs[n].balance = 0
    <3>1. PICK item \in Item : item = fs[n]
      OBVIOUS
    <3>2. PICK empty : empty = [item EXCEPT !.balance = 0]
      OBVIOUS
    <3>3. empty \in Item /\ key(empty) = key(item) /\ empty.balance = 0
      BY <3>2 DEF Item, key
    <3>4. gs[n] = IF n \in gone THEN empty ELSE item
      BY <1>1, <3>1, <3>2
    <3> QED BY <3>1, <3>3, <3>4
  <2>2. gs = [n \in 1 .. Len(fs) |-> gs[n]] /\ Len(fs) \in Nat
    BY <1>1
  <2>3. gs \in [1 .. Len(fs) -> Item]
    BY <2>1, <2>2
  <2>4. gs \in Seq(Item) /\ Len(gs) = Len(fs)
    BY <2>2, <2>3
  <2> QED BY <2>1, <2>4
<1>4. ASSUME NEW K PROVE Total(gs, K) <= Total(fs, K)
  <2>1. \A n \in 1 .. Len(fs) :
           /\ weights(gs, K)[n] \in Nat /\ weights(fs, K)[n] \in Nat
           /\ weights(gs, K)[n] <= weights(fs, K)[n]
    <3>1. ASSUME NEW n \in 1 .. Len(fs)
          PROVE  /\ weights(gs, K)[n] \in Nat /\ weights(fs, K)[n] \in Nat
                 /\ weights(gs, K)[n] <= weights(fs, K)[n]
      <4>1. /\ weights(gs, K)[n] = weight(gs[n], K)
            /\ weights(fs, K)[n] = weight(fs[n], K)
        BY <1>3 DEF weights
      <4>2. /\ gs[n].balance \in Nat /\ fs[n].balance \in Nat
            /\ gs[n].balance <= fs[n].balance /\ key(gs[n]) = key(fs[n])
        <5>1. gs[n] \in Item /\ fs[n] \in Item /\ key(gs[n]) = key(fs[n])
          BY <1>3
        <5>2. gs[n].balance \in Nat /\ fs[n].balance \in Nat
          BY <5>1, ItemFields
        <5>3. CASE n \in gone
          BY <1>3, <5>1, <5>2, <5>3
        <5>4. CASE n \notin gone
          BY <1>3, <5>1, <5>2, <5>4
        <5> QED BY <5>3, <5>4
      <4> QED BY <4>1, <4>2 DEF weight
    <3> QED BY <3>1
  <2>2. Len(fs) \in Nat
    OBVIOUS
  <2> QED BY <1>3, <2>1, <2>2, SumMonotone DEF Total
<1>5. ASSUME NEW K, K \cap P = {} PROVE Total(gs, K) = Total(fs, K)
  <2>1. \A n \in 1 .. Len(fs) : weights(gs, K)[n] = weights(fs, K)[n]
    BY <1>2, <1>3, <1>5 DEF weights, weight
  <2>2. Len(fs) \in Nat
    OBVIOUS
  <2> QED BY <1>3, <2>1, <2>2, SumSame DEF Total
<1>6. ASSUME NEW K, P \subseteq K
      PROVE  Total(fs, K) - Total(gs, K) = Everything(fs) - Everything(gs)
  <2> DEFINE J == Keys \cap K
             M == Keys \ K
  <2>1. M \cap P = {} /\ J \cap M = {} /\ Keys = J \cup M
    BY <1>6
  <2> HIDE DEF J, M
  <2>2. Total(gs, M) = Total(fs, M)
    BY <1>5, <2>1
  <2>3. /\ Total(fs, Keys) = Total(fs, J) + Total(fs, M)
        /\ Total(gs, Keys) = Total(gs, J) + Total(gs, M)
    BY <1>3, <2>1, TotalUnion
  <2>4. Total(fs, J) = Total(fs, K) /\ Total(gs, J) = Total(gs, K)
    <3>1. \A n \in 1 .. Len(fs) : key(fs[n]) \in Keys /\ key(gs[n]) \in Keys
      BY <1>3, ItemFields
    <3> QED BY <1>3, <3>1, TotalSameKind DEF J
  <2>5. /\ Everything(fs) = Total(fs, Keys) /\ Everything(gs) = Total(gs, Keys)
        /\ Total(fs, J) \in Nat /\ Total(fs, M) \in Nat /\ Total(gs, J) \in Nat
    BY <1>3, EverythingTotal, TotalNat
  <2> QED BY <2>2, <2>3, <2>4, <2>5
<1> QED BY <1>3, <1>4, <1>5, <1>6 DEF Liquidated

(* The conversions that unStake, staking and cap changes perform.          *)
to_unstaked(nonce) == [item \in Item |-> UnStaked(nonce)]
to_active          == [item \in Item |-> Active]
to_withdraw_only   == [item \in Item |-> WithdrawOnly]
to_deferred        == [item \in Item |->
                          DeferredPayment(item.fund_desc.created)]
to_deferred_at(nonce) == [item \in Item |-> DeferredPayment(nonce)]

MovesAll(lo, hi, K, nonce) ==
    /\ Moves(lo, hi, K, OfType("Active"), to_unstaked(nonce))
    /\ Moves(lo, hi, K, OfType("Waiting"), to_active)
    /\ Moves(lo, hi, K, OfType("Waiting"), to_withdraw_only)
    /\ Moves(lo, hi, K, OfType("UnStaked"), to_deferred)
    /\ Moves(lo, hi, K, OfType("Active"), to_deferred_at(nonce))

(* Kinds of funds that no conversion adds to, or takes from.               *)
NeverAdds(K, nonce)  == MovesAll(-1, 0, K, nonce)
NeverTakes(K, nonce) == MovesAll(0, 1, K, nonce)

(* gs comes from fs by such conversions, as far as totals can tell.        *)
Follows(gs, fs, nonce) ==
    /\ gs \in Seq(Item)
    /\ \A K : NeverAdds(K, nonce)  => Total(gs, K) <= Total(fs, K)
    /\ \A K : NeverTakes(K, nonce) => Total(fs, K) <= Total(gs, K)

(* Two runs of legal swaps are one.                                        *)
LEMMA FollowsTransitive ==
    ASSUME NEW fs \in Seq(Item), NEW gs, NEW hs, NEW nonce,
           Follows(gs, fs, nonce), Follows(hs, gs, nonce)
    PROVE  Follows(hs, fs, nonce)
<1>1. gs \in Seq(Item) /\ hs \in Seq(Item)
  BY DEF Follows
<1>2. ASSUME NEW K
      PROVE  /\ NeverAdds(K, nonce) => Total(hs, K) <= Total(fs, K)
             /\ NeverTakes(K, nonce) => Total(fs, K) <= Total(hs, K)
  <2>1. PICK x \in Nat, y \in Nat, z \in Nat :
           x = Total(fs, K) /\ y = Total(gs, K) /\ z = Total(hs, K)
    BY <1>1, TotalNat
  <2>2. NeverAdds(K, nonce) => y <= x /\ z <= y
    BY <2>1 DEF Follows
  <2>3. NeverTakes(K, nonce) => x <= y /\ y <= z
    BY <2>1 DEF Follows
  <2> QED BY <2>1, <2>2, <2>3
<1> QED BY <1>1, <1>2 DEF Follows

(* No swap at all is a run of legal swaps.                                 *)
LEMMA FollowsItself ==
    ASSUME NEW fs \in Seq(Item), NEW nonce PROVE Follows(fs, fs, nonce)
<1>1. ASSUME NEW K PROVE Total(fs, K) <= Total(fs, K)
  <2>1. Total(fs, K) \in Nat
    BY TotalNat
  <2> QED BY <2>1
<1> QED BY <1>1 DEF Follows

(* Dropping the empty items is a run of legal swaps.                       *)
LEMMA SaveFollows ==
    ASSUME NEW fs \in Seq(Item), NEW nonce PROVE Follows(save(fs), fs, nonce)
<1>1. PICK gs : gs = save(fs)
  OBVIOUS
<1>2. gs \in Seq(Item) /\ \A K : Total(gs, K) = Total(fs, K)
  BY <1>1, SaveKeepsTotals
<1>3. ASSUME NEW K PROVE Total(gs, K) <= Total(fs, K) /\ Total(fs, K) <= Total(gs, K)
  <2>1. Total(fs, K) \in Nat
    BY TotalNat
  <2> QED BY <1>2, <2>1
<1> QED BY <1>1, <1>2, <1>3 DEF Follows

(* What a transformation does to some kinds it does to fewer.              *)
LEMMA MovesPart ==
    ASSUME NEW lo, NEW hi, NEW K, NEW S, NEW T, T \subseteq S, NEW transform,
           Moves(lo, hi, K, S, transform)
    PROVE  Moves(lo, hi, K, T, transform)
BY DEF Moves

(* A swap whose moves are among the legal ones is a run of legal swaps.    *)
LEMMA SwapFollows ==
    ASSUME NEW fs \in Seq(Item), NEW max \in Nat, NEW S, NEW transform,
           NEW r, Swap(r, fs, max, S, transform), NEW nonce,
           \A lo, hi, K :
               MovesAll(lo, hi, K, nonce) => Moves(lo, hi, K, S, transform)
    PROVE  Follows(r.funds, fs, nonce)
<1>1. r.funds \in Seq(Item) /\ r.left \in Nat /\ r.left <= max
  BY DEF Swap, IsState
<1>2. ASSUME NEW K
      PROVE  /\ NeverAdds(K, nonce) => Total(r.funds, K) <= Total(fs, K)
             /\ NeverTakes(K, nonce) => Total(fs, K) <= Total(r.funds, K)
  <2>1. PICK x \in Nat, y \in Nat : x = Total(fs, K) /\ y = Total(r.funds, K)
    BY <1>1, TotalNat
  <2>2. -1 \in Effects /\ 0 \in Effects /\ 1 \in Effects
    BY DEF Effects
  <2>3. ASSUME NeverAdds(K, nonce) PROVE y <= x
    <3>1. Between(-1, 0, y, x, max - r.left)
      BY <2>1, <2>2, <2>3 DEF Swap, NeverAdds
    <3> QED BY <3>1 DEF Between, signed
  <2>4. ASSUME NeverTakes(K, nonce) PROVE x <= y
    <3>1. Between(0, 1, y, x, max - r.left)
      BY <2>1, <2>2, <2>4 DEF Swap, NeverTakes
    <3> QED BY <3>1 DEF Between, signed
  <2> QED BY <2>1, <2>3, <2>4
<1> QED BY <1>1, <1>2 DEF Follows

(* A user keeps what the user has.                                         *)
LEMMA UserKindIsKept ==
    ASSUME NEW fs \in Seq(Item), NEW gs, NEW nonce \in Nat,
           Follows(gs, fs, nonce), NEW K, UserKind(K)
    PROVE  Total(gs, K) = Total(fs, K)
<1>1. ASSUME NEW transform, \A item \in Item : transform[item] \in Desc, NEW S
      PROVE  Moves(-1, 0, K, S, transform) /\ Moves(0, 1, K, S, transform)
  <2>1. ASSUME NEW item \in Item
        PROVE  effect_on(K, item, transform[item]) = 0
    <3>1. transform[item] \in Desc
      BY <1>1
    <3>2. PICK j \in Keys, k \in Keys :
             j = <<item.user_id, transform[item]>> /\ k = key(item)
      BY <3>1, ItemFields DEF Keys
    <3>3. j[1] = k[1]
      BY <3>2 DEF key
    <3>4. j \in K <=> k \in K
      BY <3>3 DEF UserKind
    <3> QED BY <3>2, <3>4 DEF effect_on, indicator
  <2> QED BY <2>1 DEF Moves
<1>2. /\ \A item \in Item : to_unstaked(nonce)[item] \in Desc
      /\ \A item \in Item : to_active[item] \in Desc
      /\ \A item \in Item : to_withdraw_only[item] \in Desc
      /\ \A item \in Item : to_deferred[item] \in Desc
      /\ \A item \in Item : to_deferred_at(nonce)[item] \in Desc
  BY ItemFields DEF to_unstaked, to_active, to_withdraw_only, to_deferred,
     to_deferred_at, Desc, FundType, UnStaked, Active, WithdrawOnly,
     DeferredPayment
<1>3. NeverAdds(K, nonce) /\ NeverTakes(K, nonce)
  BY <1>1, <1>2 DEF NeverAdds, NeverTakes, MovesAll
<1>4. Total(gs, K) <= Total(fs, K) /\ Total(fs, K) <= Total(gs, K)
  BY <1>3 DEF Follows
<1>5. Total(gs, K) \in Nat /\ Total(fs, K) \in Nat
  BY TotalNat DEF Follows
<1> QED BY <1>4, <1>5

(* The five swaps of the contract's operations are legal.                  *)
LEMMA SwapsFollow ==
    ASSUME NEW fs \in Seq(Item), NEW amount \in Nat, NEW nonce \in Nat,
           NEW gas \in Nat, NEW u
    PROVE  /\ Follows(swap_user_active_to_unstaked(fs, u, amount, nonce).funds,
                      fs, nonce)
           /\ Follows(swap_waiting_to_active(fs, amount, gas).funds, fs, nonce)
           /\ Follows(swap_user_waiting_to_withdraw_only(fs, u, amount).funds,
                      fs, nonce)
           /\ Follows(swap_unstaked_to_deferred_payment(fs, amount, gas).funds,
                      fs, nonce)
           /\ Follows(swap_active_to_deferred_payment(fs, amount, nonce,
                                                      gas).funds, fs, nonce)
<1>1. /\ OfUser(u) \cap OfType("Active") \subseteq OfType("Active")
      /\ OfUser(u) \cap OfType("Waiting") \subseteq OfType("Waiting")
  OBVIOUS
<1>2. PICK r : r = swap_user_active_to_unstaked(fs, u, amount, nonce)
  OBVIOUS
<1>3. Follows(r.funds, fs, nonce)
  <2>1. Swap(r, fs, amount, OfUser(u) \cap OfType("Active"), to_unstaked(nonce))
    BY <1>2, UserActiveToUnstaked DEF to_unstaked
  <2>2. \A lo, hi, K : MovesAll(lo, hi, K, nonce) =>
           Moves(lo, hi, K, OfUser(u) \cap OfType("Active"), to_unstaked(nonce))
    BY <1>1, MovesPart DEF MovesAll
  <2> QED BY <2>1, <2>2, SwapFollows
<1>4. PICK s : s = swap_waiting_to_active(fs, amount, gas)
  OBVIOUS
<1>5. Follows(s.funds, fs, nonce)
  <2>1. Swap(s, fs, amount, OfType("Waiting"), to_active)
    BY <1>4, WaitingToActive DEF to_active
  <2>2. \A lo, hi, K : MovesAll(lo, hi, K, nonce) =>
           Moves(lo, hi, K, OfType("Waiting"), to_active)
    BY DEF MovesAll
  <2> QED BY <2>1, <2>2, SwapFollows
<1>6. PICK t : t = swap_user_waiting_to_withdraw_only(fs, u, amount)
  OBVIOUS
<1>7. Follows(t.funds, fs, nonce)
  <2>1. Swap(t, fs, amount, OfUser(u) \cap OfType("Waiting"), to_withdraw_only)
    BY <1>6, UserWaitingToWithdrawOnly DEF to_withdraw_only
  <2>2. \A lo, hi, K : MovesAll(lo, hi, K, nonce) =>
           Moves(lo, hi, K, OfUser(u) \cap OfType("Waiting"), to_withdraw_only)
    BY <1>1, MovesPart DEF MovesAll
  <2> QED BY <2>1, <2>2, SwapFollows
<1>8. PICK v : v = swap_unstaked_to_deferred_payment(fs, amount, gas)
  OBVIOUS
<1>9. Follows(v.funds, fs, nonce)
  <2>1. Swap(v, fs, amount, OfType("UnStaked"), to_deferred)
    BY <1>8, UnstakedToDeferred DEF to_deferred
  <2>2. \A lo, hi, K : MovesAll(lo, hi, K, nonce) =>
           Moves(lo, hi, K, OfType("UnStaked"), to_deferred)
    BY DEF MovesAll
  <2> QED BY <2>1, <2>2, SwapFollows
<1>10. PICK w : w = swap_active_to_deferred_payment(fs, amount, nonce, gas)
  OBVIOUS
<1>11. Follows(w.funds, fs, nonce)
  <2>1. Swap(w, fs, amount, OfType("Active"), to_deferred_at(nonce))
    BY <1>10, ActiveToDeferred DEF to_deferred_at
  <2>2. \A lo, hi, K : MovesAll(lo, hi, K, nonce) =>
           Moves(lo, hi, K, OfType("Active"), to_deferred_at(nonce))
    BY DEF MovesAll
  <2> QED BY <2>1, <2>2, SwapFollows
<1> QED BY <1>2, <1>3, <1>4, <1>5, <1>6, <1>7, <1>8, <1>9, <1>10, <1>11

(* Only the items that a loop visited matter.                              *)
LEMMA SplitOfVisited ==
    ASSUME NEW fs \in Seq(Item), NEW ids \in Seq(1 .. Len(fs)),
           NEW max \in Nat, NEW transform, IsTransform(transform),
           NEW gas \in Nat, NEW r,
           r = split_convert(fs, ids, max, transform, gas),
           NEW S, \A j \in 1 .. Len(ids) : j <= r.visited => key(fs[ids[j]]) \in S
    PROVE  Swap(r, fs, max, S, transform)
<1>1. LoopInv(r, Smaller(gas, Len(ids)), fs, same_kind(fs, ids), max,
              transform)
  BY SplitConvert
<1>2. IsState(r, fs, max) /\ r.visited <= Smaller(gas, Len(ids))
      /\ r.visited \in Nat
  BY <1>1 DEF LoopInv, IsState
<1>3. r.visited <= gas /\ r.visited <= Len(ids)
  BY <1>2 DEF Smaller
<1>4. ASSUME NEW K, NEW lo \in Effects, NEW hi \in Effects,
             Moves(lo, hi, K, S, transform)
      PROVE  Between(lo, hi, Total(r.funds, K), Total(fs, K), max - r.left)
  <2>1. ASSUME NEW j \in 1 .. r.visited
        PROVE  HasEffect(lo, hi, K, same_kind(fs, ids)[j], transform)
    <3>1. j \in 1 .. Len(ids) /\ j <= r.visited
      BY <1>2, <1>3
    <3>2. same_kind(fs, ids)[j] = { item \in Item : key(item) = key(fs[ids[j]]) }
      BY <3>1 DEF same_kind
    <3>3. key(fs[ids[j]]) \in S
      BY <3>1
    <3> QED BY <1>4, <3>2, <3>3 DEF HasEffect, Moves
  <2> QED BY <1>1, <2>1 DEF LoopInv
<1> QED BY <1>2, <1>4 DEF Swap

(* Converting items of other users leaves the kinds of user v alone.       *)
LEMMA OthersUnmoved ==
    ASSUME NEW fs \in Seq(Item), NEW max \in Nat, NEW S, NEW transform,
           NEW r, Swap(r, fs, max, S, transform), NEW v,
           \A k \in S : k[1] # v, NEW K, K \subseteq OfUser(v)
    PROVE  Total(r.funds, K) = Total(fs, K)
<1>1. ASSUME NEW item \in Item, key(item) \in S
      PROVE  effect_on(K, item, transform[item]) = 0
  <2>1. item.user_id # v
    BY <1>1 DEF key
  <2>2. <<item.user_id, transform[item]>> \notin K /\ key(item) \notin K
    BY <2>1 DEF OfUser, key
  <2> QED BY <2>2 DEF effect_on, indicator
<1>2. Moves(0, 0, K, S, transform) /\ 0 \in Effects
  BY <1>1 DEF Moves, Effects
<1>3. Total(r.funds, K) = Total(fs, K) + signed(0, max - r.left)
  BY <1>2, SwapBy
<1>4. Total(fs, K) \in Nat /\ signed(0, max - r.left) = 0
  BY TotalNat DEF signed
<1> QED BY <1>3, <1>4

(* Converting items of type t into type q leaves the other types alone.    *)
LEMMA OtherTypesUnmoved ==
    ASSUME NEW fs \in Seq(Item), NEW max \in Nat, NEW S, NEW transform,
           NEW r, Swap(r, fs, max, S, transform), NEW t, NEW q,
           S \subseteq OfType(t), Into(q, transform), NEW p, p # t, p # q,
           NEW K, K \subseteq OfType(p)
    PROVE  Total(r.funds, K) = Total(fs, K)
<1>1. ASSUME NEW item \in Item, key(item) \in S, transform[item] # NoDescription
      PROVE  effect_on(K, item, transform[item]) = 0
  <2>1. item.fund_desc.type = t
    BY <1>1 DEF key, OfType
  <2>2. transform[item].type = q
    BY <1>1 DEF Into
  <2>3. key(item) \notin K
    BY <2>1 DEF key, OfType
  <2>4. <<item.user_id, transform[item]>> \notin K
    BY <2>2 DEF OfType
  <2> QED BY <2>3, <2>4 DEF effect_on, indicator
<1>2. Moves(0, 0, K, S, transform) /\ 0 \in Effects
  BY <1>1 DEF Moves, Effects
<1>3. Total(r.funds, K) = Total(fs, K) + signed(0, max - r.left)
  BY <1>2, SwapBy
<1>4. Total(fs, K) \in Nat /\ signed(0, max - r.left) = 0
  BY TotalNat DEF signed
<1> QED BY <1>3, <1>4

(* The dry run of a swap names every user whose active stake it changes.   *)
LEMMA AffectedUsers ==
    ASSUME NEW fs \in Seq(Item), NEW amount \in Nat, NEW r,
           r = swap_waiting_to_active(fs, amount, NoLimit(fs)), NEW v,
           v \notin get_affected_users_of_swap_waiting_to_active(fs, amount),
           NEW K, K \subseteq OfUser(v)
    PROVE  Total(r.funds, K) = Total(fs, K)
<1>1. PICK ids : ids = fund_list_by_type(fs, "Waiting")
  OBVIOUS
<1>2. ids \in Seq(1 .. Len(fs))
  BY <1>1, TypeList DEF ListOfKind, IsIds
<1>3. PICK S : S = { k \in Keys : k[1] # v }
  OBVIOUS
<1>4. ASSUME NEW j \in 1 .. Len(ids), j <= r.visited
      PROVE  key(fs[ids[j]]) \in S
  <2>1. fs[ids[j]] \in Item
    BY <1>2
  <2>2. j \in 1 .. r.visited
    <3>1. r.visited \in Nat
      BY WaitingToActive DEF Shift, NoLimit
    <3> QED BY <1>4, <3>1
  <2>3. fs[ids[j]].user_id
          \in get_affected_users_of_swap_waiting_to_active(fs, amount)
    BY <1>1, <2>2 DEF get_affected_users_of_swap_waiting_to_active
  <2> QED BY <1>3, <2>1, <2>3, ItemFields DEF key
<1>5. IsTransform(to_active)
  BY DEF IsTransform, to_active, Active, Desc, FundType
<1>6. r = split_convert(fs, ids, amount, to_active, Len(fs)) /\ Len(fs) \in Nat
  BY <1>1 DEF swap_waiting_to_active, to_active, NoLimit
<1>7. Swap(r, fs, amount, S, to_active)
  BY <1>2, <1>4, <1>5, <1>6, SplitOfVisited
<1>8. \A k \in S : k[1] # v
  BY <1>3
<1> QED BY ONLY <1>7, <1>8, OthersUnmoved, fs \in Seq(Item), amount \in Nat,
           K \subseteq OfUser(v)

(* A dust cleanup sweeps only the users of small items it touched.         *)
LEMMA DustSpares ==
    ASSUME NEW fs \in Seq(Item), NEW current_id, NEW dust_limit, NEW source,
           in_source_list(fs, current_id, source),
           NEW transform, IsTransform(transform),
           Leaves(source, small(dust_limit, transform)),
           NEW gas \in Nat, NEW r,
           r = swap_dust(fs, current_id, dust_limit, source, transform, gas),
           NEW v, \A id \in r.touched :
                     fs[id].balance < dust_limit => fs[id].user_id # v,
           NEW K, K \subseteq OfUser(v)
    PROVE  Total(r.funds, K) = Total(fs, K)
<1>1. PICK path, convert, max : /\ path = dust_path(fs, current_id, source)
                                /\ convert = small(dust_limit, transform)
                                /\ max = Everything(fs)
  OBVIOUS
<1>2. PICK s : s = split_convert(fs, path, max, convert, gas)
  OBVIOUS
<1>3. /\ r.funds = s.funds
      /\ r.touched = { path[k] : k \in 1 .. Smaller(gas, Len(path)) }
  BY <1>1, <1>2 DEF swap_dust, small
<1>4. max \in Nat
  BY <1>1, EverythingTotal
<1>5. IsIds(path, fs) /\ \A j \in 1 .. Len(path) :
                            fs[path[j]].fund_desc.type = source
  BY <1>1, DustPath DEF AllOfType, in_source_list
<1>6. IsTransform(convert) /\ Leaves(source, convert)
  <2>1. \A item \in Item : convert[item] = transform[item]
                           \/ convert[item] = NoDescription
    BY <1>1 DEF small
  <2> QED BY <1>1, <2>1 DEF IsTransform
<1>7. LoopInv(s, Smaller(gas, Len(path)), fs, as_it_was(fs, path), max,
              convert)
  BY <1>2, <1>4, <1>5, <1>6, SplitExactly
<1>8. IsState(s, fs, max) /\ s.visited <= Smaller(gas, Len(path))
      /\ s.visited \in Nat /\ path \in Seq(1 .. Len(fs))
  BY <1>5, <1>7 DEF LoopInv, IsState, IsIds
<1>9. ASSUME NEW j \in 1 .. s.visited
      PROVE  HasEffect(0, 0, K, as_it_was(fs, path)[j], convert)
  <2>1. j \in 1 .. Smaller(gas, Len(path)) /\ j \in 1 .. Len(path)
    BY <1>8 DEF Smaller
  <2>2. as_it_was(fs, path)[j] = { fs[path[j]] }
    BY <2>1 DEF as_it_was
  <2>3. PICK item : item = fs[path[j]]
    OBVIOUS
  <2>4. item \in Item /\ path[j] \in r.touched
    BY <1>3, <1>8, <2>1, <2>3
  <2>5. CASE item.balance < dust_limit
    <3>1. item.user_id # v
      BY <2>3, <2>4, <2>5
    <3>2. <<item.user_id, convert[item]>> \notin K /\ key(item) \notin K
      BY <3>1 DEF OfUser, key
    <3>3. effect_on(K, item, convert[item]) = 0
      BY <3>2 DEF effect_on, indicator
    <3> QED BY <2>2, <2>3, <3>3 DEF HasEffect
  <2>6. CASE ~ (item.balance < dust_limit)
    <3>1. convert[item] = NoDescription
      BY <1>1, <2>4, <2>6 DEF small
    <3> QED BY <2>2, <2>3, <3>1 DEF HasEffect
  <2> QED BY <2>5, <2>6
<1>10. Between(0, 0, Total(s.funds, K), Total(fs, K), max - s.left)
  <2>1. 0 \in Effects
    BY DEF Effects
  <2> QED BY <1>7, <1>9, <2>1 DEF LoopInv
<1>11. /\ Total(fs, K) <= Total(s.funds, K) /\ Total(s.funds, K) <= Total(fs, K)
       /\ Total(fs, K) \in Nat /\ Total(s.funds, K) \in Nat
  <2>1. s.funds \in Seq(Item)
    BY <1>8 DEF IsState
  <2>2. Total(fs, K) \in Nat /\ Total(s.funds, K) \in Nat
    BY <2>1, TotalNat
  <2> QED BY <1>10, <2>2 DEF Between, signed
<1> QED BY <1>3, <1>11

=============================================================================
