-------------------------- MODULE NodeFundsProofs ---------------------------
(***************************************************************************)
(* Proofs about NodeFunds.tla.  It implements Nodes, so that what is       *)
(* proved of the registry holds with the EGLD that its calls carry; and    *)
(* that EGLD is always in a call.                                          *)
(***************************************************************************)
EXTENDS NodeFunds, NodesProofs, WellFoundedInduction

(* Seen without its EGLD, a step of NodeFunds is a step of Nodes.          *)
LEMMA FundsStepIsNodesStep == [FundsNext]_allVars => [Next]_vars
<1> SUFFICES ASSUME [FundsNext]_allVars PROVE [Next]_vars
  OBVIOUS
<1>1. CASE NodeEndpoints
  BY <1>1 DEF NodeEndpoints, Next, OwnerNext
<1>2. CASE MoneyEndpoints
  <2>1. CASE \E keys \in (SUBSET Keys) \ {{}} : stake_nodes(keys)
    BY <2>1 DEF Next, OwnerNext
  <2>2. CASE UNCHANGED vars
    BY <2>2
  <2>3. QED
    BY <1>2, <2>1, <2>2
    DEF MoneyEndpoints, stake_nodes_with, stake_without_nodes,
        claim_unused_funds, unbond_tokens, auction_pays, unjail_nodes,
        LedgerMoves
<1>3. CASE CallStep
  <2>1. \E call \in calls : \/ \E failed \in SUBSET call.keys :
                                  AuctionExecutes(call, failed)
                            \/ Callback(call)
                            \/ CallbackFails(call)
    BY <1>3 DEF CallStep, AuctionStep, AuctionTakesStake, AuctionPaysStake,
                AuctionUnstakes, CallbackStep, CallbackLost
  <2>2. QED
    BY <2>1 DEF Next, CallNext
<1>4. CASE UNCHANGED allVars
  BY <1>4 DEF allVars
<1>5. QED
  BY <1>1, <1>2, <1>3, <1>4 DEF FundsNext

(* The calls with their EGLD implement the registry: everything proved of  *)
(* Nodes holds of them.                                                    *)
THEOREM FundsImplementNodes == FundsSpec => Spec
<1>1. FundsInit => Init
  BY DEF FundsInit
<1>2. QED
  BY <1>1, FundsStepIsNodesStep, PTL DEF FundsSpec, Spec

-----------------------------------------------------------------------------
(* Amounts are natural numbers.                                            *)
CarriedType == carried \in [SUBSET Keys -> Nat]

(* The EGLD of a stake call leaves with the call, comes back with its      *)
(* answer and is credited when the call ends, whether or not its callback  *)
(* could run; so does what unBondNodes pays.                               *)
THEOREM EgldTravelsWithItsCallHolds == FundsSpec => []EgldTravelsWithItsCall
<1> DEFINE Travels(keys, set) ==
              \E call \in set : /\ call.keys = keys
                                /\ \/ call.kind = "stake"
                                   \/ call.kind = "unBond" /\ call.answered
           Inv == CarriedType /\ held \in Nat /\ EgldTravelsWithItsCall
<1>1. FundsInit => Inv
  BY DEF FundsInit, CarriedType, EgldTravelsWithItsCall
<1>2. NodesInv /\ Inv /\ [FundsNext]_allVars => Inv'
  <2> SUFFICES ASSUME NodesInv, Inv, [FundsNext]_allVars PROVE Inv'
    OBVIOUS
  <2> USE DEF CarriedType
  <2>0. /\ calls \subseteq [kind : {"stake", "unStake", "unBond"},
                            keys : SUBSET Keys, answered : BOOLEAN,
                            failed : SUBSET Keys]
        /\ \A keys \in SUBSET Keys : carried[keys] > 0 => Travels(keys, calls)
    BY DEF NodesInv, TypeOK, EgldTravelsWithItsCall
  <2>1. CASE /\ UNCHANGED carried /\ held' \in Nat
             /\ calls \subseteq calls'
    BY <2>0, <2>1 DEF EgldTravelsWithItsCall
  <2>2. CASE \E keys \in SUBSET Keys, amount \in StakeAmounts :
                stake_nodes_with(keys, amount)
    <3>1. PICK keys \in SUBSET Keys, amount \in StakeAmounts :
              stake_nodes_with(keys, amount)
      BY <2>2
    <3> DEFINE new == [kind |-> "stake", keys |-> keys, answered |-> FALSE,
                       failed |-> {}]
    <3>2. /\ calls' = calls \cup {new} /\ new.keys = keys
          /\ new.kind = "stake"
      BY <3>1 DEF stake_nodes_with, stake_nodes, send_call
    <3> HIDE DEF new
    <3>3. /\ carried' = [carried EXCEPT ![keys] = amount]
          /\ amount \in Nat /\ UNCHANGED held
      BY <3>1, FundsAssumption DEF stake_nodes_with
    <3>4. \A other \in (SUBSET Keys) \ {keys} :
              carried'[other] > 0 => Travels(other, calls')
      BY <2>0, <3>2, <3>3
    <3>5. Travels(keys, calls')
      BY <3>2
    <3>6. QED
      BY <3>3, <3>4, <3>5 DEF EgldTravelsWithItsCall
  <2>3. CASE CallStep
    <3>1. PICK call \in calls :
              AuctionStep(call) \/ CallbackStep(call) \/ CallbackLost(call)
      BY <2>3 DEF CallStep
    <3>2. call.keys \in SUBSET Keys
      BY <2>0
    <3>3. CASE CallbackStep(call) \/ CallbackLost(call)
      <4>1. /\ calls' = calls \ {call}
            /\ carried' = [carried EXCEPT ![call.keys] = 0]
            /\ UNCHANGED held
        BY <3>3 DEF CallbackStep, CallbackLost, credit, CallbackFails,
                    Callback, auction_stake_callback,
                    auction_unstake_callback, auction_unbond_callback,
                    finish
      <4>2. \A keys \in SUBSET Keys :
                carried'[keys] > 0 =>
                    keys # call.keys /\ carried[keys] > 0
        BY <3>2, <4>1
      <4>3. \A keys \in SUBSET Keys :
                carried'[keys] > 0 => Travels(keys, calls')
        BY <2>0, <4>1, <4>2
      <4>4. QED
        BY <4>1, <4>3 DEF EgldTravelsWithItsCall
    <3>4. CASE AuctionStep(call)
      <4>1. PICK failed \in SUBSET call.keys :
                \/ AuctionTakesStake(call, failed)
                \/ \E paid \in 0 .. held : AuctionPaysStake(call, failed, paid)
                \/ AuctionUnstakes(call, failed)
        BY <3>4 DEF AuctionStep
      <4> DEFINE answer == [call EXCEPT !.answered = TRUE, !.failed = failed]
      <4>2. calls' = (calls \ {call}) \cup {answer}
        BY <4>1 DEF AuctionTakesStake, AuctionPaysStake, AuctionUnstakes,
                    AuctionExecutes
      <4>3. /\ answer.keys = call.keys /\ answer.kind = call.kind
            /\ answer.answered
        BY <2>0
      <4> HIDE DEF answer
      <4>4. \A keys \in SUBSET Keys :
                Travels(keys, calls) => Travels(keys, calls')
        BY <4>2, <4>3
      <4>5. /\ carried' \in [SUBSET Keys -> Nat] /\ held' \in Nat
            /\ \A keys \in SUBSET Keys : keys # call.keys =>
                  carried'[keys] = carried[keys]
        BY <3>2, <4>1 DEF AuctionTakesStake, AuctionPaysStake,
                          AuctionUnstakes, funds
      <4>6. carried'[call.keys] > 0 =>
                \/ carried[call.keys] > 0
                \/ call.kind = "unBond"
        BY <3>2, <4>1 DEF AuctionTakesStake, AuctionPaysStake,
                          AuctionUnstakes, funds
      <4>7. call.kind = "unBond" => Travels(call.keys, calls')
        BY <4>2, <4>3
      <4>8. \A keys \in SUBSET Keys :
                carried'[keys] > 0 => Travels(keys, calls')
        BY <2>0, <4>4, <4>5, <4>6, <4>7
      <4>9. QED
        BY <4>5, <4>8 DEF EgldTravelsWithItsCall
    <3>5. QED
      BY <3>1, <3>3, <3>4
  <2>4. CASE NodeEndpoints
    BY <2>1, <2>4
    DEF NodeEndpoints, funds, add_nodes, remove_nodes, unstake_nodes,
        unbond_specific_nodes, unbond_all_possible_nodes, send_call,
        force_node_unbond_period, GlobalOpBeginsOrEnds, NextBlock
  <2>5. CASE MoneyEndpoints
    <3>1. CASE \E amount \in 1 .. held : \/ claim_unused_funds(amount)
                                         \/ unbond_tokens(amount)
      BY <2>1, <3>1
      DEF claim_unused_funds, unbond_tokens, auction_pays, vars
    <3>2. CASE \E amount \in StakeAmounts : stake_without_nodes(amount)
      BY <2>1, <3>2, FundsAssumption DEF stake_without_nodes, vars
    <3>3. QED
      BY <2>1, <2>2, <2>5, <3>1, <3>2
      DEF MoneyEndpoints, unjail_nodes, LedgerMoves, vars
  <2>6. CASE UNCHANGED allVars
    BY <2>1, <2>6 DEF allVars, funds, vars
  <2>7. QED
    BY <2>3, <2>4, <2>5, <2>6 DEF FundsNext
<1>3. QED
  BY <1>1, <1>2, FundsImplementNodes, NodesInvHolds, PTL DEF FundsSpec

-----------------------------------------------------------------------------
(* The EGLD that calls carry: sums over finite sets of calls.              *)

(* A set of naturals that has 0, and with every number the next, has them  *)
(* all.                                                                    *)
LEMMA NumberInduction ==
    ASSUME NEW S, 0 \in S, \A n \in Nat : n \in S => n + 1 \in S
    PROVE  Nat \subseteq S
<1> SUFFICES ASSUME Nat \ S # {} PROVE FALSE
  OBVIOUS
<1>1. \E m \in Nat \ S : \A k \in Nat \ S : <<k, m>> \notin OpToRel(<, Nat)
  BY NatLessThanWellFounded, WFMin, Zenon
<1>2. PICK m \in Nat \ S : \A k \in Nat \ S : ~ (k < m)
  BY <1>1 DEF OpToRel
<1>3. m - 1 \in Nat /\ m - 1 \in S
  BY <1>2
<1> QED BY <1>2, <1>3

EgldOf(f, set) == MapThenSumSet(LAMBDA call : f[call.keys], set)

IsSetSum(s, f, set) ==
    s = [T \in SUBSET set |->
            IF T = {} THEN 0
            ELSE f[(CHOOSE x \in T : TRUE).keys] + s[T \ {CHOOSE x \in T : TRUE}]]

(* The sum of the community module is a recursive function on sets.        *)
LEMMA EgldIsSetSum ==
    ASSUME NEW f, NEW set
    PROVE  EgldOf(f, set) = (CHOOSE s : IsSetSum(s, f, set))[set]
BY DEF EgldOf, MapThenSumSet, MapThenFoldSet, IsSetSum

(* It takes one value on each set.                                         *)
LEMMA SetSumUnique ==
    ASSUME NEW f, NEW A, NEW B, NEW s, NEW t, NEW set, IsFiniteSet(set),
           set \in SUBSET A, set \in SUBSET B,
           IsSetSum(s, f, A), IsSetSum(t, f, B)
    PROVE  s[set] = t[set]
<1> DEFINE S == { n \in Nat : \A T \in SUBSET set :
                                  Cardinality(T) = n => s[T] = t[T] }
<1>0. \A T \in SUBSET set : IsFiniteSet(T) /\ Cardinality(T) \in Nat
  BY FS_Subset, FS_CardinalityType
<1>1. 0 \in S
  <2> SUFFICES ASSUME NEW T \in SUBSET set, Cardinality(T) = 0
               PROVE  s[T] = t[T]
    OBVIOUS
  <2>1. T = {}
    BY <1>0, FS_EmptySet
  <2> QED BY <2>1 DEF IsSetSum
<1>2. ASSUME NEW n \in Nat, n \in S PROVE n + 1 \in S
  <2> SUFFICES ASSUME NEW T \in SUBSET set, Cardinality(T) = n + 1
               PROVE  s[T] = t[T]
    OBVIOUS
  <2> DEFINE x == CHOOSE x \in T : TRUE
  <2>1. T # {} /\ T \in SUBSET A /\ T \in SUBSET B
    BY FS_EmptySet
  <2>2. x \in T
    BY <2>1
  <2>3. /\ s[T] = f[x.keys] + s[T \ {x}]
        /\ t[T] = f[x.keys] + t[T \ {x}]
    BY <2>1 DEF IsSetSum
  <2> HIDE DEF x
  <2>4. Cardinality(T \ {x}) = n
    <3>1. Cardinality(T \ {x}) = Cardinality(T) - 1
      BY <1>0, <2>2, FS_RemoveElement
    <3> QED BY <3>1
  <2>5. s[T \ {x}] = t[T \ {x}]
    BY <1>2, <2>4
  <2> QED BY <2>3, <2>5
<1>3. Nat \subseteq S
  <2> HIDE DEF S
  <2> QED BY <1>1, <1>2, NumberInduction
<1> QED BY <1>0, <1>3

(* It exists for every finite set.                                         *)
LEMMA SetSumExists ==
    ASSUME NEW f, NEW set, IsFiniteSet(set)
    PROVE  \E s : IsSetSum(s, f, set)
<1> DEFINE S == { n \in Nat : \A T \in SUBSET set :
                      Cardinality(T) = n => \E s : IsSetSum(s, f, T) }
<1>0. \A T \in SUBSET set : IsFiniteSet(T) /\ Cardinality(T) \in Nat
  BY FS_Subset, FS_CardinalityType
<1>1. 0 \in S
  <2> SUFFICES ASSUME NEW T \in SUBSET set, Cardinality(T) = 0
               PROVE  \E s : IsSetSum(s, f, T)
    OBVIOUS
  <2>1. T = {}
    BY <1>0, FS_EmptySet
  <2>2. IsSetSum([U \in SUBSET T |-> 0], f, T)
    BY <2>1 DEF IsSetSum
  <2> QED BY <2>2
<1>2. ASSUME NEW n \in Nat, n \in S PROVE n + 1 \in S
  <2> SUFFICES ASSUME NEW T \in SUBSET set, Cardinality(T) = n + 1
               PROVE  \E s : IsSetSum(s, f, T)
    OBVIOUS
  <2> DEFINE first(U) == CHOOSE x \in U : TRUE
             of(x) == CHOOSE s : IsSetSum(s, f, T \ {x})
             value(U) == IF U = {} THEN 0
                         ELSE f[first(U).keys] + of(first(U))[U \ {first(U)}]
             sum == [U \in SUBSET T |-> value(U)]
  <2>1. ASSUME NEW x \in T
        PROVE  IsSetSum(of(x), f, T \ {x}) /\ IsFiniteSet(T \ {x})
    <3>1. Cardinality(T \ {x}) = n /\ T \ {x} \in SUBSET set
      BY <1>0, FS_RemoveElement
    <3>2. \E s : IsSetSum(s, f, T \ {x})
      BY <1>2, <3>1
    <3> QED BY <1>0, <3>1, <3>2
  <2>2. ASSUME NEW x \in T, NEW U \in SUBSET (T \ {x})
        PROVE  of(x)[U] = value(U)
    <3>0. IsSetSum(of(x), f, T \ {x}) /\ IsFiniteSet(T \ {x})
      BY <2>1
    <3> HIDE DEF of
    <3>1. CASE U = {}
      BY <3>0, <3>1 DEF IsSetSum
    <3>2. CASE U # {}
      <4> DEFINE y == first(U)
      <4>1. y \in U /\ y \in T
        BY <3>2
      <4>2. of(x)[U] = f[y.keys] + of(x)[U \ {y}]
        BY <3>0, <3>2 DEF IsSetSum
      <4>5. IsSetSum(of(y), f, T \ {y})
        BY <2>1, <4>1
      <4> HIDE DEF y
      <4>3. /\ IsFiniteSet(U \ {y}) /\ U \ {y} \in SUBSET (T \ {x})
            /\ U \ {y} \in SUBSET (T \ {y})
        BY <1>0
      <4>4. of(x)[U \ {y}] = of(y)[U \ {y}]
        <5> DEFINE V == U \ {y}
                   A == T \ {x}
                   B == T \ {y}
        <5>1. /\ IsFiniteSet(V) /\ V \in SUBSET A /\ V \in SUBSET B
              /\ IsSetSum(of(x), f, A) /\ IsSetSum(of(y), f, B)
          BY <3>0, <4>3, <4>5
        <5> HIDE DEF V, A, B
        <5>2. of(x)[V] = of(y)[V]
          BY <5>1, SetSumUnique
        <5> QED BY <5>2 DEF V
      <4> QED BY <3>2, <4>2, <4>4 DEF y
    <3> QED BY <3>1, <3>2
  <2>3. ASSUME NEW U \in SUBSET T, U # {}
        PROVE  value(U) = f[first(U).keys] + sum[U \ {first(U)}]
    <3>1. first(U) \in T /\ U \ {first(U)} \in SUBSET (T \ {first(U)})
      BY <2>3
    <3>2. of(first(U))[U \ {first(U)}] = value(U \ {first(U)})
      <4> HIDE DEF of, value, first
      <4> QED BY <2>2, <3>1
    <3>3. sum[U \ {first(U)}] = value(U \ {first(U)})
      <4> HIDE DEF of, value, first
      <4> QED OBVIOUS
    <3>4. value(U) = f[first(U).keys] + of(first(U))[U \ {first(U)}]
      BY <2>3
    <3> HIDE DEF of, value, first, sum
    <3> QED BY <3>2, <3>3, <3>4
  <2>4. value({}) = 0
    OBVIOUS
  <2>5. IsSetSum(sum, f, T)
    <3> HIDE DEF value
    <3>1. \A U \in SUBSET T : sum[U] = value(U)
      OBVIOUS
    <3>2. sum = [U \in SUBSET T |-> sum[U]]
      OBVIOUS
    <3> HIDE DEF sum
    <3> QED BY <2>3, <2>4, <3>1, <3>2 DEF IsSetSum
  <2> QED BY <2>5
<1>3. Nat \subseteq S
  <2> HIDE DEF S
  <2> QED BY <1>1, <1>2, NumberInduction
<1>4. set \in SUBSET set
  OBVIOUS
<1> QED BY <1>0, <1>3, <1>4

(* The sum over no calls, and over one chosen call and the others.         *)
LEMMA EgldStep ==
    ASSUME NEW f, NEW set, IsFiniteSet(set)
    PROVE  /\ set = {} => EgldOf(f, set) = 0
           /\ set # {} => \E x \in set :
                 EgldOf(f, set) = f[x.keys] + EgldOf(f, set \ {x})
<1> DEFINE sum(T) == CHOOSE s : IsSetSum(s, f, T)
<1>1. \A T \in SUBSET set : IsFiniteSet(T) /\ IsSetSum(sum(T), f, T)
                            /\ EgldOf(f, T) = sum(T)[T]
  BY SetSumExists, EgldIsSetSum, FS_Subset
<1> HIDE DEF sum
<1>2. set = {} => sum(set)[set] = 0
  BY <1>1 DEF IsSetSum
<1>3. ASSUME set # {} PROVE  \E x \in set :
                 EgldOf(f, set) = f[x.keys] + EgldOf(f, set \ {x})
  <2> DEFINE x == CHOOSE x \in set : TRUE
  <2>1. x \in set
    BY <1>3
  <2>2. sum(set)[set] = f[x.keys] + sum(set)[set \ {x}]
    BY <1>1, <1>3 DEF IsSetSum
  <2> HIDE DEF x
  <2>3. sum(set)[set \ {x}] = sum(set \ {x})[set \ {x}]
    BY <1>1, SetSumUnique
  <2> QED BY <1>1, <2>1, <2>2, <2>3
<1> QED BY <1>1, <1>2, <1>3

(* A sum of naturals is a natural, and any call may be taken out first.    *)
LEMMA EgldRemove ==
    ASSUME NEW f, NEW set, IsFiniteSet(set),
           \A c \in set : f[c.keys] \in Nat
    PROVE  /\ EgldOf(f, set) \in Nat
           /\ \A c \in set : /\ EgldOf(f, set \ {c}) \in Nat
                             /\ EgldOf(f, set) = f[c.keys]
                                                 + EgldOf(f, set \ {c})
<1> DEFINE S == { n \in Nat : \A T \in SUBSET set : Cardinality(T) = n =>
              /\ EgldOf(f, T) \in Nat
              /\ \A c \in T : /\ EgldOf(f, T \ {c}) \in Nat
                              /\ EgldOf(f, T) = f[c.keys]
                                                + EgldOf(f, T \ {c}) }
<1>0. \A T \in SUBSET set : IsFiniteSet(T) /\ Cardinality(T) \in Nat
  BY FS_Subset, FS_CardinalityType
<1>1. 0 \in S
  <2> SUFFICES ASSUME NEW T \in SUBSET set, Cardinality(T) = 0
               PROVE  T = {} /\ EgldOf(f, T) \in Nat
    OBVIOUS
  <2>1. T = {}
    BY <1>0, FS_EmptySet
  <2> QED BY <1>0, <2>1, EgldStep
<1>2. ASSUME NEW n \in Nat, n \in S PROVE n + 1 \in S
  <2> SUFFICES ASSUME NEW T \in SUBSET set, Cardinality(T) = n + 1
               PROVE  /\ EgldOf(f, T) \in Nat
                      /\ \A c \in T : /\ EgldOf(f, T \ {c}) \in Nat
                                      /\ EgldOf(f, T) = f[c.keys]
                                                 + EgldOf(f, T \ {c})
    OBVIOUS
  <2>1. T # {}
    BY FS_EmptySet
  <2>2. PICK x \in T : EgldOf(f, T) = f[x.keys] + EgldOf(f, T \ {x})
    BY <1>0, <2>1, EgldStep
  <2>3. ASSUME NEW c \in T PROVE Cardinality(T \ {c}) = n
    <3>1. Cardinality(T \ {c}) = Cardinality(T) - 1
      BY <1>0, FS_RemoveElement
    <3> QED BY <3>1
  <2>4. \A c \in T : EgldOf(f, T \ {c}) \in Nat
    BY <1>2, <2>3
  <2>5. ASSUME NEW c \in T, c # x
        PROVE  EgldOf(f, T) = f[c.keys] + EgldOf(f, T \ {c})
    <3>1. (T \ {x}) \ {c} = (T \ {c}) \ {x}
      OBVIOUS
    <3>2. /\ EgldOf(f, T \ {x}) = f[c.keys] + EgldOf(f, (T \ {x}) \ {c})
          /\ EgldOf(f, T \ {c}) = f[x.keys] + EgldOf(f, (T \ {c}) \ {x})
          /\ EgldOf(f, (T \ {x}) \ {c}) \in Nat
      BY <1>2, <2>3, <2>5
    <3>3. f[x.keys] \in Nat /\ f[c.keys] \in Nat
      OBVIOUS
    <3> HIDE DEF S
    <3>4. EgldOf(f, (T \ {x}) \ {c}) = EgldOf(f, (T \ {c}) \ {x})
      BY <3>1, Zenon
    <3> QED BY <2>2, <3>2, <3>3, <3>4
  <2>6. EgldOf(f, T) \in Nat
    BY <2>2, <2>4
  <2> QED BY <2>2, <2>4, <2>5, <2>6
<1>3. Nat \subseteq S
  <2> HIDE DEF S
  <2> QED BY <1>1, <1>2, NumberInduction
<1>4. set \in SUBSET set
  OBVIOUS
<1> QED BY <1>0, <1>3, <1>4

(* The same for a given call and the rest of the calls.                    *)
LEMMA EgldWithout ==
    ASSUME NEW f, NEW set, IsFiniteSet(set), NEW c, NEW rest,
           c \notin rest, \A x : x \in set <=> x = c \/ x \in rest,
           \A x \in set : f[x.keys] \in Nat
    PROVE  /\ EgldOf(f, rest) \in Nat
           /\ EgldOf(f, set) = f[c.keys] + EgldOf(f, rest)
<1>1. \A x \in set : /\ EgldOf(f, set \ {x}) \in Nat
                     /\ EgldOf(f, set) = f[x.keys] + EgldOf(f, set \ {x})
  BY EgldRemove, Zenon
<1>2. rest = set \ {c} /\ c \in set
  OBVIOUS
<1> QED BY <1>1, <1>2, Zenon

(* The sum depends on what the calls of the set carry only.                *)
LEMMA EgldSame ==
    ASSUME NEW f, NEW g, NEW set, IsFiniteSet(set),
           \A c \in set : f[c.keys] = g[c.keys]
    PROVE  EgldOf(f, set) = EgldOf(g, set)
<1> DEFINE S == { n \in Nat : \A T \in SUBSET set :
                      Cardinality(T) = n => EgldOf(f, T) = EgldOf(g, T) }
<1>0. \A T \in SUBSET set : IsFiniteSet(T) /\ Cardinality(T) \in Nat
  BY FS_Subset, FS_CardinalityType
<1>1. 0 \in S
  <2> SUFFICES ASSUME NEW T \in SUBSET set, Cardinality(T) = 0
               PROVE  EgldOf(f, T) = EgldOf(g, T)
    OBVIOUS
  <2>1. T = {}
    BY <1>0, FS_EmptySet
  <2> QED BY <1>0, <2>1, EgldStep
<1>2. ASSUME NEW n \in Nat, n \in S PROVE n + 1 \in S
  <2> SUFFICES ASSUME NEW T \in SUBSET set, Cardinality(T) = n + 1
               PROVE  EgldOf(f, T) = EgldOf(g, T)
    OBVIOUS
  <2> DEFINE x == CHOOSE x \in T : TRUE
             sf == CHOOSE s : IsSetSum(s, f, T)
             sg == CHOOSE s : IsSetSum(s, g, T)
  <2>1. T # {}
    BY FS_EmptySet
  <2>2. x \in T
    BY <2>1
  <2>3. /\ IsSetSum(sf, f, T) /\ EgldOf(f, T) = sf[T]
        /\ IsSetSum(sg, g, T) /\ EgldOf(g, T) = sg[T]
    BY <1>0, SetSumExists, EgldIsSetSum
  <2> HIDE DEF sf, sg
  <2>4. /\ sf[T] = f[x.keys] + sf[T \ {x}]
        /\ sg[T] = g[x.keys] + sg[T \ {x}]
    BY <2>1, <2>3 DEF IsSetSum
  <2> HIDE DEF x
  <2>5. /\ Cardinality(T \ {x}) = n /\ IsFiniteSet(T \ {x})
        /\ T \ {x} \in SUBSET set /\ T \ {x} \in SUBSET T
        /\ T \ {x} \in SUBSET (T \ {x})
    <3>1. Cardinality(T \ {x}) = Cardinality(T) - 1
      BY <1>0, <2>2, FS_RemoveElement
    <3> QED BY <1>0, <3>1
  <2>6. EgldOf(f, T \ {x}) = EgldOf(g, T \ {x})
    BY <1>2, <2>5
  <2>7. sf[T \ {x}] = EgldOf(f, T \ {x}) /\ sg[T \ {x}] = EgldOf(g, T \ {x})
    <3> DEFINE R  == T \ {x}
               rf == CHOOSE s : IsSetSum(s, f, R)
               rg == CHOOSE s : IsSetSum(s, g, R)
    <3>1. IsFiniteSet(R) /\ R \in SUBSET T /\ R \in SUBSET R
      BY <2>5
    <3> HIDE DEF R, S
    <3>2. /\ IsSetSum(rf, f, R) /\ EgldOf(f, R) = rf[R]
          /\ IsSetSum(rg, g, R) /\ EgldOf(g, R) = rg[R]
      BY <3>1, SetSumExists, EgldIsSetSum
    <3> HIDE DEF rf, rg
    <3>3. sf[R] = rf[R] /\ sg[R] = rg[R]
      BY <2>3, <3>1, <3>2, SetSumUnique
    <3> QED BY <3>2, <3>3 DEF R
  <2>8. f[x.keys] = g[x.keys]
    BY <2>2
  <2> QED BY <2>3, <2>4, <2>6, <2>7, <2>8
<1>3. Nat \subseteq S
  <2> HIDE DEF S
  <2> QED BY <1>1, <1>2, NumberInduction
<1>4. set \in SUBSET set
  OBVIOUS
<1> QED BY <1>0, <1>3, <1>4

-----------------------------------------------------------------------------
(* Calls are finitely many and about some node; amounts are numbers.       *)
FundsInv ==
    /\ IsFiniteSet(calls)
    /\ \A call \in calls : call.keys # {}
    /\ CarriedType
    /\ held \in Nat
    /\ total_unprotected \in Nat

AllInv == NodesInv /\ EgldTravelsWithItsCall /\ FundsInv

(* What travels is the sum over the calls, before and after a step.        *)
LEMMA TravellingIsEgld ==
    /\ travelling = EgldOf(carried, calls)
    /\ travelling' = EgldOf(carried', calls')
BY DEF travelling, EgldOf, MapThenSumSet, MapThenFoldSet

(* No two calls are about the same keys.                                   *)
LEMMA KeysNameTheCall ==
    ASSUME AllInv, NEW call \in calls, NEW other \in calls,
           other.keys = call.keys
    PROVE  other = call
BY DEF AllInv, NodesInv, FundsInv, CallsOwnTheirNodes

(* What a call carries is a number, and so is what all of them carry.      *)
LEMMA TravellingNat ==
    ASSUME AllInv
    PROVE  /\ \A call \in calls : /\ call.keys \in SUBSET Keys
                                  /\ carried[call.keys] \in Nat
           /\ travelling \in Nat /\ lent \in Nat
<1>1. \A call \in calls : call.keys \in SUBSET Keys
  BY DEF AllInv, NodesInv, TypeOK
<1>2. \A call \in calls : carried[call.keys] \in Nat
  BY <1>1 DEF AllInv, FundsInv, CarriedType
<1>3. IsFiniteSet(calls) /\ held \in Nat
  BY DEF AllInv, FundsInv
<1>4. EgldOf(carried, calls) \in Nat
  BY <1>2, <1>3, EgldRemove
<1> QED BY <1>1, <1>2, <1>3, <1>4, TravellingIsEgld DEF lent

(* A call sent for nodes of which none is pending carries what is sent     *)
(* with it, and nothing that another call left behind.                     *)
LEMMA SendTravels ==
    ASSUME AllInv, NEW keys \in (SUBSET Keys) \ {{}}, NEW kind,
           NEW amount \in Nat,
           \A k \in keys : ~ pending(k),
           calls' = calls \cup {[kind |-> kind, keys |-> keys,
                                 answered |-> FALSE, failed |-> {}]},
           CarriedType', carried'[keys] = amount,
           \A other \in SUBSET Keys :
               other # keys => carried'[other] = carried[other]
    PROVE  /\ IsFiniteSet(calls') /\ (\A call \in calls' : call.keys # {})
           /\ carried[keys] = 0
           /\ travelling' = travelling + amount
<1> DEFINE new == [kind |-> kind, keys |-> keys, answered |-> FALSE,
                   failed |-> {}]
<1>1. new.keys = keys /\ calls' = calls \cup {new}
  OBVIOUS
<1> HIDE DEF new
<1>2. ASSUME NEW call \in calls PROVE call.keys # keys /\ call # new
  <2>1. PICK k \in keys : TRUE
    OBVIOUS
  <2>2. call.kind \in {"stake", "unStake", "unBond"}
    BY DEF AllInv, NodesInv, TypeOK
  <2>3. k \notin call.keys
    BY <2>2 DEF AllInv, NodesInv, CallsOwnTheirNodes, PendingStateOf, pending
  <2> QED BY <1>1, <2>1, <2>3
<1>3. /\ carried \in [SUBSET Keys -> Nat]
      /\ IsFiniteSet(calls) /\ \A call \in calls : call.keys # {}
  BY DEF AllInv, FundsInv, CarriedType
<1>4. carried[keys] = 0
  BY <1>2, <1>3 DEF AllInv, EgldTravelsWithItsCall
<1>5. IsFiniteSet(calls') /\ (\A call \in calls' : call.keys # {})
  BY <1>1, <1>3, FS_AddElement
<1>6. /\ carried'[new.keys] = amount
      /\ \A call \in calls : carried'[call.keys] = carried[call.keys]
  BY <1>1, <1>2, <1>3, TravellingNat
<1>7. new \notin calls /\ \A x : x \in calls' <=> x = new \/ x \in calls
  BY <1>1, <1>2
<1>8. \A call \in calls' : carried'[call.keys] \in Nat
  BY <1>1, <1>6, TravellingNat
<1>9. EgldOf(carried', calls') = amount + EgldOf(carried', calls)
  BY <1>5, <1>6, <1>7, <1>8, EgldWithout
<1>10. EgldOf(carried', calls) = EgldOf(carried, calls)
  BY <1>3, <1>6, EgldSame
<1> QED
  BY <1>4, <1>5, <1>9, <1>10, TravellingIsEgld, TravellingNat

(* A call that is answered, or ends, with another amount than it carried:  *)
(* only that amount changes.                                               *)
LEMMA AnswerTravels ==
    ASSUME AllInv, NEW call \in calls, NEW after, NEW amount \in Nat,
           \/ calls' = calls \ {call} /\ amount = 0
           \/ /\ calls' = (calls \ {call}) \cup {after}
              /\ after.keys = call.keys /\ (after \in calls => after = call),
           CarriedType', carried'[call.keys] = amount,
           \A other \in SUBSET Keys :
               other # call.keys => carried'[other] = carried[other]
    PROVE  /\ IsFiniteSet(calls') /\ (\A c \in calls' : c.keys # {})
           /\ travelling' = travelling - carried[call.keys] + amount
           /\ carried[call.keys] <= travelling
<1> DEFINE rest == calls \ {call}
<1>1. /\ carried \in [SUBSET Keys -> Nat] /\ call.keys \in SUBSET Keys
      /\ IsFiniteSet(calls) /\ (\A c \in calls : c.keys # {})
      /\ \A c \in calls : carried[c.keys] \in Nat
  BY TravellingNat DEF AllInv, FundsInv, CarriedType
<1>2. IsFiniteSet(rest)
  BY <1>1, FS_RemoveElement
<1>3. IsFiniteSet(calls') /\ (\A c \in calls' : c.keys # {})
  <2>1. IsFiniteSet(rest \cup {after})
    BY <1>2, FS_AddElement
  <2> QED BY <1>1, <1>2, <2>1
<1>4. \A c \in rest : carried'[c.keys] = carried[c.keys]
  BY <1>1, KeysNameTheCall, TravellingNat
<1>6. /\ EgldOf(carried, calls) = carried[call.keys] + EgldOf(carried, rest)
      /\ EgldOf(carried, rest) \in Nat
  <2>1. call \notin rest /\ \A x : x \in calls <=> x = call \/ x \in rest
    OBVIOUS
  <2>2. IsFiniteSet(calls) /\ \A x \in calls : carried[x.keys] \in Nat
    BY <1>1
  <2> HIDE DEF rest
  <2> QED BY <2>1, <2>2, EgldWithout
<1>5. \/ calls' = rest /\ amount = 0
      \/ /\ calls' = rest \cup {after} /\ after.keys = call.keys
         /\ after \notin rest
  OBVIOUS
<1>10. \A c \in rest : carried'[c.keys] \in Nat
  BY <1>1, <1>4
<1> HIDE DEF rest
<1>7. EgldOf(carried', rest) = EgldOf(carried, rest)
  BY <1>2, <1>4, EgldSame
<1>8. EgldOf(carried', calls') = amount + EgldOf(carried', rest)
  <2>1. CASE calls' = rest /\ amount = 0
    BY <2>1, <1>6, <1>7
  <2>2. CASE /\ calls' = rest \cup {after} /\ after.keys = call.keys
             /\ after \notin rest
    <3>1. \A x : x \in calls' <=> x = after \/ x \in rest
      BY <2>2
    <3>2. \A c \in calls' : carried'[c.keys] \in Nat
      BY <1>10, <2>2
    <3>3. EgldOf(carried', calls')
              = carried'[after.keys] + EgldOf(carried', rest)
      BY <1>3, <2>2, <3>1, <3>2, EgldWithout
    <3> QED BY <2>2, <3>3
  <2> QED BY <1>5, <2>1, <2>2
<1> QED BY <1>1, <1>3, <1>6, <1>7, <1>8, TravellingIsEgld

(* An endpoint of the registry sends no EGLD and takes none away.          *)
LEMMA EndpointsKeepLent ==
    ASSUME AllInv, NodeEndpoints
    PROVE  FundsInv' /\ lent' = lent /\ UNCHANGED total_unprotected
<1>0. UNCHANGED <<total_unprotected, carried, held>>
  BY DEF NodeEndpoints, funds
<1>1. CASE UNCHANGED calls
  <2>1. UNCHANGED travelling
    BY <1>0, <1>1, TravellingIsEgld
  <2> QED BY <1>0, <1>1, <2>1 DEF AllInv, FundsInv, CarriedType, lent
<1>2. CASE \E keys \in (SUBSET Keys) \ {{}}, kind \in {"unStake", "unBond"} :
              (\A k \in keys : ~ pending(k)) /\ send_call(kind, keys)
  <2>1. PICK keys \in (SUBSET Keys) \ {{}}, kind \in {"unStake", "unBond"} :
            (\A k \in keys : ~ pending(k)) /\ send_call(kind, keys)
    BY <1>2
  <2>2. calls' = calls \cup {[kind |-> kind, keys |-> keys,
                              answered |-> FALSE, failed |-> {}]}
    BY <2>1 DEF send_call
  <2>3. carried[keys] \in Nat /\ carried'[keys] = carried[keys]
        /\ CarriedType'
        /\ \A other \in SUBSET Keys : carried'[other] = carried[other]
    BY <1>0 DEF AllInv, FundsInv, CarriedType
  <2>4. /\ IsFiniteSet(calls') /\ (\A call \in calls' : call.keys # {})
        /\ carried[keys] = 0 /\ travelling' = travelling + carried[keys]
    BY <2>1, <2>2, <2>3, SendTravels
  <2> QED
    BY <1>0, <2>3, <2>4, TravellingNat DEF AllInv, FundsInv, lent
<1>3. \A type \in {"Active", "UnBondPeriod"}, keys \in SUBSET Keys :
          keys \subseteq in_state(type) => \A k \in keys : ~ pending(k)
  BY DEF in_state, pending
<1>4. CASE \E keys \in (SUBSET Keys) \ {{}} : \/ unstake_nodes(keys)
                                              \/ unbond_specific_nodes(keys)
  BY <1>2, <1>3, <1>4 DEF unstake_nodes, unbond_specific_nodes
<1>5. CASE unbond_all_possible_nodes
  <2>1. in_state("UnBondPeriod") \in SUBSET Keys
    BY DEF in_state
  <2> QED BY <1>2, <1>3, <1>5, <2>1 DEF unbond_all_possible_nodes
<1>6. CASE \/ \E keys \in (SUBSET Keys) \ {{}} :
                 \/ add_nodes(keys) \/ remove_nodes(keys)
                 \/ force_node_unbond_period(keys)
           \/ GlobalOpBeginsOrEnds
           \/ NextBlock
  BY <1>1, <1>6 DEF add_nodes, remove_nodes, force_node_unbond_period,
                    GlobalOpBeginsOrEnds, NextBlock
<1> QED BY <1>4, <1>5, <1>6 DEF NodeEndpoints

(* stakeNodes with its nodes lends what it sends.                          *)
LEMMA StakeLends ==
    ASSUME AllInv, NEW keys \in (SUBSET Keys) \ {{}},
           NEW amount \in StakeAmounts, stake_nodes_with(keys, amount)
    PROVE  /\ FundsInv' /\ lent' = lent + amount
           /\ amount \in Nat /\ amount <= total_unprotected
           /\ total_unprotected' = total_unprotected - amount
<1>1. /\ amount \in Nat /\ amount <= total_unprotected
      /\ total_unprotected' = total_unprotected - amount
      /\ carried' = [carried EXCEPT ![keys] = amount]
      /\ UNCHANGED held
  BY FundsAssumption DEF stake_nodes_with
<1>2. /\ calls' = calls \cup {[kind |-> "stake", keys |-> keys,
                               answered |-> FALSE, failed |-> {}]}
      /\ \A k \in keys : ~ pending(k)
  BY DEF stake_nodes_with, stake_nodes, send_call, in_state, pending
<1>3. /\ CarriedType' /\ carried'[keys] = amount
      /\ \A other \in SUBSET Keys :
            other # keys => carried'[other] = carried[other]
  BY <1>1 DEF AllInv, FundsInv, CarriedType
<1>4. /\ IsFiniteSet(calls') /\ (\A call \in calls' : call.keys # {})
      /\ travelling' = travelling + amount
  BY <1>1, <1>2, <1>3, SendTravels
<1> QED BY <1>1, <1>3, <1>4, TravellingNat DEF AllInv, FundsInv, lent

(* The auction contract takes the stake of a call, or pays with its        *)
(* answer: what is lent only changes its place.                            *)
LEMMA AuctionKeepsLent ==
    ASSUME AllInv, NEW call \in calls, AuctionStep(call)
    PROVE  FundsInv' /\ lent' = lent /\ UNCHANGED total_unprotected
<1>1. PICK failed \in SUBSET call.keys :
          \/ AuctionTakesStake(call, failed)
          \/ \E paid \in 0 .. held : AuctionPaysStake(call, failed, paid)
          \/ AuctionUnstakes(call, failed)
  BY DEF AuctionStep
<1> DEFINE answer == [call EXCEPT !.answered = TRUE, !.failed = failed]
<1>2. /\ calls' = (calls \ {call}) \cup {answer} /\ ~ call.answered
      /\ UNCHANGED total_unprotected
  BY <1>1 DEF AuctionTakesStake, AuctionPaysStake, AuctionUnstakes,
              AuctionExecutes, funds
<1>3. /\ call.keys \in SUBSET Keys /\ carried \in [SUBSET Keys -> Nat]
      /\ held \in Nat /\ total_unprotected \in Nat
      /\ travelling \in Nat
      /\ call \in [kind : {"stake", "unStake", "unBond"}, keys : SUBSET Keys,
                   answered : BOOLEAN, failed : SUBSET Keys]
  BY TravellingNat DEF AllInv, FundsInv, CarriedType, NodesInv, TypeOK
<1>4. answer.keys = call.keys
  BY <1>3
<1>5. answer \in calls => answer = call
  BY <1>4, KeysNameTheCall
<1> HIDE DEF answer
<1>6. ASSUME NEW amount \in Nat, carried' = [carried EXCEPT ![call.keys] = amount],
             held' \in Nat, held' + amount = held + carried[call.keys]
      PROVE  FundsInv' /\ lent' = lent
  <2>1. /\ CarriedType' /\ carried'[call.keys] = amount
        /\ \A other \in SUBSET Keys :
              other # call.keys => carried'[other] = carried[other]
    BY <1>3, <1>6 DEF CarriedType
  <2>2. /\ IsFiniteSet(calls') /\ (\A c \in calls' : c.keys # {})
        /\ travelling' = travelling - carried[call.keys] + amount
    BY <1>2, <1>4, <1>5, <2>1, AnswerTravels
  <2>3. carried[call.keys] \in Nat
    BY <1>3
  <2>4. FundsInv'
    BY <1>2, <1>3, <1>6, <2>1, <2>2 DEF FundsInv
  <2>5. held' + travelling' = held + travelling
    <3>1. /\ held \in Nat /\ held' \in Nat /\ travelling \in Nat
          /\ amount \in Nat /\ carried[call.keys] \in Nat
          /\ held' + amount = held + carried[call.keys]
          /\ travelling' = travelling - carried[call.keys] + amount
      BY <1>3, <1>6, <2>2, <2>3
    <3> QED BY <3>1
  <2> QED BY <2>4, <2>5 DEF lent
<1>7. carried = [carried EXCEPT ![call.keys] = carried[call.keys]]
      /\ carried[call.keys] \in Nat
  BY <1>3
<1>8. CASE AuctionTakesStake(call, failed)
  <2>1. CASE /\ held' = held + carried[call.keys]
             /\ carried' = [carried EXCEPT ![call.keys] = 0]
    <3>1. held' \in Nat /\ held' + 0 = held + carried[call.keys]
      BY <1>3, <1>7, <2>1
    <3> QED BY <1>2, <1>6, <2>1, <3>1
  <2>2. CASE UNCHANGED <<carried, held>>
    BY <1>2, <1>3, <1>6, <1>7, <2>2
  <2> QED BY <1>8, <2>1, <2>2 DEF AuctionTakesStake
<1>9. CASE AuctionUnstakes(call, failed)
  BY <1>2, <1>3, <1>6, <1>7, <1>9 DEF AuctionUnstakes, funds
<1>10. ASSUME NEW paid \in 0 .. held, AuctionPaysStake(call, failed, paid)
       PROVE  FundsInv' /\ lent' = lent
  <2>1. /\ call.kind = "unBond" /\ held' = held - paid
        /\ carried' = [carried EXCEPT ![call.keys] = paid]
    BY <1>10 DEF AuctionPaysStake
  <2>2. carried[call.keys] = 0
    <3> SUFFICES ASSUME carried[call.keys] > 0 PROVE FALSE
      BY <1>7
    <3>1. PICK other \in calls : /\ other.keys = call.keys
                                 /\ \/ other.kind = "stake"
                                    \/ other.kind = "unBond" /\ other.answered
      BY <1>3 DEF AllInv, EgldTravelsWithItsCall
    <3> QED BY <1>2, <2>1, <3>1, KeysNameTheCall
  <2>3. /\ held' \in Nat /\ paid \in Nat
        /\ held' + paid = held + carried[call.keys]
    BY <1>3, <2>1, <2>2
  <2> QED BY <1>6, <2>1, <2>3
<1> QED BY <1>1, <1>2, <1>8, <1>9, <1>10

(* The EGLD of an answer is back when the call ends, whether or not the    *)
(* callback could run.                                                     *)
LEMMA EndOfCallGetsBack ==
    ASSUME AllInv, NEW call \in calls, CallbackStep(call) \/ CallbackLost(call)
    PROVE  /\ FundsInv' /\ lent' = lent - carried[call.keys]
           /\ carried[call.keys] \in 0 .. lent
           /\ total_unprotected' = total_unprotected + carried[call.keys]
<1>1. /\ calls' = calls \ {call}
      /\ carried' = [carried EXCEPT ![call.keys] = 0]
      /\ total_unprotected' = total_unprotected + carried[call.keys]
      /\ UNCHANGED held
  BY DEF CallbackStep, CallbackLost, credit, CallbackFails, Callback,
         auction_stake_callback, auction_unstake_callback,
         auction_unbond_callback, finish
<1>2. /\ call.keys \in SUBSET Keys /\ carried \in [SUBSET Keys -> Nat]
      /\ held \in Nat /\ total_unprotected \in Nat
      /\ travelling \in Nat /\ carried[call.keys] \in Nat
  BY TravellingNat DEF AllInv, FundsInv, CarriedType
<1>3. /\ CarriedType' /\ carried'[call.keys] = 0
      /\ \A other \in SUBSET Keys :
            other # call.keys => carried'[other] = carried[other]
  BY <1>1, <1>2 DEF CarriedType
<1>4. /\ IsFiniteSet(calls') /\ (\A c \in calls' : c.keys # {})
      /\ travelling' = travelling - carried[call.keys] + 0
      /\ carried[call.keys] <= travelling
  BY <1>1, <1>3, AnswerTravels
<1> QED BY <1>1, <1>2, <1>3, <1>4 DEF FundsInv, lent

(* The endpoints without nodes of their own, and the rest of the contract. *)
LEMMA MoneyMoves ==
    ASSUME AllInv, UNCHANGED <<vars, carried>>,
           \/ \E amount \in StakeAmounts : stake_without_nodes(amount)
           \/ \E amount \in 1 .. held : \/ claim_unused_funds(amount)
                                        \/ unbond_tokens(amount)
           \/ \E keys \in SUBSET Keys, fine \in Fines, failed \in BOOLEAN :
                 unjail_nodes(keys, fine, failed)
           \/ \E amount \in 0 .. FundsBound : LedgerMoves(amount)
    PROVE  FundsInv' /\ [Lent!Next]_(Lent!vars)
<1>1. UNCHANGED <<calls, carried, travelling>>
  BY TravellingIsEgld DEF vars
<1>2. held \in Nat /\ total_unprotected \in Nat /\ travelling \in Nat
  BY TravellingNat DEF AllInv, FundsInv
<1>3. FundsInv' <=> held' \in Nat /\ total_unprotected' \in Nat
  BY <1>1 DEF AllInv, FundsInv, CarriedType
<1> USE DEF Lent!Next, Lent!vars, Lent!Grow, Lent!Shrink, Lent!Lend,
            Lent!GetBack, lent
<1>4. CASE \E amount \in StakeAmounts : stake_without_nodes(amount)
  <2>1. PICK amount \in StakeAmounts : stake_without_nodes(amount)
    BY <1>4
  <2>2. /\ amount \in Nat /\ amount <= total_unprotected
        /\ total_unprotected' = total_unprotected - amount
        /\ held' = held + amount
    BY <2>1, FundsAssumption DEF stake_without_nodes
  <2> QED BY <1>1, <1>2, <1>3, <2>2
<1>5. CASE \E amount \in 1 .. held : \/ claim_unused_funds(amount)
                                     \/ unbond_tokens(amount)
  <2>1. PICK amount \in 1 .. held : auction_pays(amount)
    BY <1>5 DEF claim_unused_funds, unbond_tokens
  <2>2. /\ total_unprotected' = total_unprotected + amount
        /\ held' = held - amount
    BY <2>1 DEF auction_pays
  <2> QED BY <1>1, <1>2, <1>3, <2>2
<1>6. CASE \E keys \in SUBSET Keys, fine \in Fines, failed \in BOOLEAN :
              unjail_nodes(keys, fine, failed)
  <2>1. PICK fine \in Nat : /\ total_unprotected' \in {total_unprotected,
                                                total_unprotected + fine}
                            /\ UNCHANGED held
    BY <1>6, FundsAssumption DEF unjail_nodes
  <2>2. CASE total_unprotected' = total_unprotected
    BY <1>1, <1>2, <1>3, <2>1, <2>2
  <2>3. CASE total_unprotected' = total_unprotected + fine /\ fine > 0
    BY <1>1, <1>2, <1>3, <2>1, <2>3
  <2> QED BY <1>2, <2>1, <2>2, <2>3
<1>7. CASE \E amount \in 0 .. FundsBound : LedgerMoves(amount)
  <2>1. PICK amount \in Nat : total_unprotected' = amount /\ UNCHANGED held
    BY <1>7, FundsAssumption DEF LedgerMoves
  <2> QED BY <1>1, <1>2, <1>3, <2>1
<1> QED BY <1>4, <1>5, <1>6, <1>7

(* Every step of NodeFunds is one of Lending, or changes neither of its    *)
(* numbers.                                                                *)
LEMMA FundsStepIsLendingStep ==
    ASSUME AllInv, [FundsNext]_allVars
    PROVE  FundsInv' /\ [Lent!Next]_(Lent!vars)
<1>0. /\ held \in Nat /\ total_unprotected \in Nat /\ lent \in Nat
  BY TravellingNat DEF AllInv, FundsInv
<1> USE DEF Lent!Next, Lent!vars, Lent!Lend, Lent!GetBack
<1>1. CASE NodeEndpoints
  BY <1>1, EndpointsKeepLent
<1>2. CASE \E keys \in (SUBSET Keys) \ {{}}, amount \in StakeAmounts :
              stake_nodes_with(keys, amount)
  BY <1>0, <1>2, StakeLends
<1>3. CASE MoneyEndpoints /\ ~ \E keys \in (SUBSET Keys) \ {{}},
                                  amount \in StakeAmounts :
                                    stake_nodes_with(keys, amount)
  <2>1. UNCHANGED <<vars, carried>>
    BY <1>3 DEF MoneyEndpoints, stake_without_nodes, claim_unused_funds,
                unbond_tokens, auction_pays, unjail_nodes, LedgerMoves
  <2> QED BY <1>3, <2>1, MoneyMoves DEF MoneyEndpoints
<1>4. CASE CallStep
  <2>1. PICK call \in calls :
            AuctionStep(call) \/ CallbackStep(call) \/ CallbackLost(call)
    BY <1>4 DEF CallStep
  <2>2. CASE AuctionStep(call)
    BY <2>2, AuctionKeepsLent
  <2>3. CASE CallbackStep(call) \/ CallbackLost(call)
    <3>1. /\ FundsInv' /\ lent' = lent - carried[call.keys]
          /\ carried[call.keys] \in 0 .. lent
          /\ total_unprotected' = total_unprotected + carried[call.keys]
      BY <2>3, EndOfCallGetsBack
    <3> QED BY <1>0, <3>1
  <2> QED BY <2>1, <2>2, <2>3
<1>5. CASE UNCHANGED allVars
  <2>1. UNCHANGED <<calls, carried, held, total_unprotected, travelling>>
    BY <1>5, TravellingIsEgld DEF allVars, vars, funds
  <2> QED BY <2>1 DEF AllInv, FundsInv, CarriedType, lent
<1> QED BY <1>1, <1>2, <1>3, <1>4, <1>5 DEF FundsNext

(* Whatever fails, is lost or comes back late, the calls to the auction    *)
(* contract do no more to the stake than Lending allows: what is lent was  *)
(* owed to nobody, and no payment is forgotten or counted twice.           *)
THEOREM NodeFundsRefinesLending == FundsSpec => RefinesLending
<1>1. FundsInit => FundsInv /\ Lent!Init
  <2> SUFFICES ASSUME FundsInit PROVE FundsInv /\ Lent!Init
    OBVIOUS
  <2>1. /\ calls = {} /\ total_unprotected = 0 /\ held = 0
        /\ carried = [keys \in SUBSET Keys |-> 0]
    BY DEF FundsInit, Init
  <2>2. IsFiniteSet(calls)
    BY <2>1, FS_EmptySet
  <2>3. travelling = 0
    BY <2>1, <2>2, EgldStep, TravellingIsEgld
  <2> QED BY <2>1, <2>2, <2>3 DEF FundsInv, CarriedType, Lent!Init, lent
<1>2. FundsInv /\ NodesInv /\ EgldTravelsWithItsCall /\ [FundsNext]_allVars
          => FundsInv' /\ [Lent!Next]_(Lent!vars)
  BY FundsStepIsLendingStep DEF AllInv
<1>3. QED
  BY <1>1, <1>2, FundsImplementNodes, NodesInvHolds,
     EgldTravelsWithItsCallHolds, PTL DEF FundsSpec, RefinesLending, Lent!Spec
=============================================================================
