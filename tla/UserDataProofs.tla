--------------------------- MODULE UserDataProofs ---------------------------
(***************************************************************************)
(* Proofs about UserData.tla, for any set of addresses and any registry    *)
(* that the genesis contract may have left behind.                         *)
(***************************************************************************)
EXTENDS UserData, FiniteSetTheorems, WellFoundedInduction, TLAPS

(* A freshly deployed registry, and any that an upgrade finds.             *)
LEMMA RegistryInit == Init => RegistryInv
<1> SUFFICES ASSUME Init PROVE RegistryInv
  OBVIOUS
<1>1. CASE \E owner \in Addresses : Deployed(owner)
  <2>1. PICK owner \in Addresses : Deployed(owner)
    BY <1>1
  <2>2. TypeOK
    BY <2>1, UserDataAssumption DEF Init, Deployed, TypeOK, Ids
  <2>3. IdsMatchAddresses
    BY <2>1, UserDataAssumption
    DEF Deployed, IdsMatchAddresses, is_empty_user_address, Ids
  <2>4. QED
    BY <2>2, <2>3 DEF Init, RegistryInv, WaitingListReadable
<1>2. CASE \E n \in Ids : \E users \in distinct_users(n) :
              UpgradedGenesis(users)
  <2>0. PICK n \in Ids : \E users \in distinct_users(n) :
                             UpgradedGenesis(users)
    BY <1>2
  <2>1. PICK users \in distinct_users(n) : UpgradedGenesis(users)
    BY <2>0
  <2>2. /\ users \in [1 .. n -> Addresses]
        /\ \A i, j \in 1 .. n : users[i] = users[j] => i = j
        /\ n \in Nat /\ Len(users) = n
    BY DEF distinct_users, Ids
  <2>3. /\ num_users = n
        /\ user_address \in [Ids -> Addresses \cup {NoAddress}]
        /\ \A id \in Ids : user_address[id] \in IF id <= n
                                                THEN {users[id], NoAddress}
                                                ELSE {NoAddress}
    BY <2>1, <2>2, UserDataAssumption DEF UpgradedGenesis
  <2>4. user_id = [a \in Addresses |->
            IF \E id \in 1 .. n : users[id] = a
            THEN CHOOSE id \in 1 .. n : users[id] = a ELSE 0]
    BY <2>1, <2>2 DEF UpgradedGenesis
  <2>5. \A a \in Addresses :
            \/ user_id[a] = 0 /\ \A id \in 1 .. n : users[id] # a
            \/ user_id[a] \in 1 .. n /\ users[user_id[a]] = a
    BY <2>4
  <2>6. \A id \in 1 .. n : users[id] \in Addresses /\ user_id[users[id]] = id
    BY <2>2, <2>5
  <2>7. TypeOK
    <3>1. \A a \in Addresses : user_id[a] \in 0 .. MaxUsers
      BY <2>2, <2>5, UserDataAssumption DEF Ids
    <3>2. user_id \in [Addresses -> 0 .. MaxUsers]
      BY <2>4, <3>1
    <3>3. QED
      BY <2>3, <3>2, UserDataAssumption DEF Init, TypeOK
  <2>8. IdsMatchAddresses
    <3>1. \A a, b \in Addresses :
              user_id[a] = user_id[b] /\ user_id[a] # 0 => a = b
      BY <2>5
    <3>2. \A id \in 1 .. num_users : \E a \in Addresses : user_id[a] = id
      BY <2>3, <2>6
    <3>3. \A a \in Addresses : user_id[a] <= num_users
      BY <2>2, <2>3, <2>5
    <3>4. \A id \in Ids : user_address[id] = NoAddress
                          \/ user_id[user_address[id]] = id
      BY <2>2, <2>3, <2>6 DEF Ids
    <3>5. QED
      BY <3>1, <3>2, <3>3, <3>4
      DEF IdsMatchAddresses, is_empty_user_address
  <2>9. QED
    BY <2>7, <2>8 DEF Init, RegistryInv, WaitingListReadable
<1>3. QED
  BY <1>1, <1>2 DEF Init

(* A new address gets the next id and its entry; one that is known gets    *)
(* its entry if that is missing.                                           *)
LEMMA StakeKeepsInv ==
    ASSUME RegistryInv, NEW address \in Addresses, stake_endpoint(address)
    PROVE  RegistryInv'
<1> USE DEF RegistryInv, Ids
<1> DEFINE id == user_id[address]
<1>1. CASE id = 0
  <2>1. /\ num_users + 1 \in 1 .. MaxUsers
        /\ num_users' = num_users + 1
        /\ user_id' = [user_id EXCEPT ![address] = num_users + 1]
        /\ user_address' = [user_address EXCEPT ![num_users + 1] = address]
        /\ waiting' = waiting \cup {user_id'[address]}
    BY <1>1 DEF stake_endpoint, get_or_create_user, new_user
  <2>2. /\ user_id'[address] = num_users + 1
        /\ user_address'[num_users + 1] = address
        /\ \A a \in Addresses \ {address} : user_id'[a] = user_id[a]
        /\ \A i \in 1 .. MaxUsers : i # num_users + 1 =>
               user_address'[i] = user_address[i]
    BY <2>1 DEF TypeOK
  <2>3. TypeOK'
    <3>1. user_id' \in [Addresses -> 0 .. MaxUsers]
      BY <2>1 DEF TypeOK
    <3>2. user_address' \in [1 .. MaxUsers -> Addresses \cup {NoAddress}]
      BY <2>1 DEF TypeOK
    <3>3. waiting' \subseteq 1 .. MaxUsers
      BY <2>1, <2>2 DEF TypeOK
    <3>4. QED
      BY <2>1, <3>1, <3>2, <3>3 DEF TypeOK
  <2>4. IdsMatchAddresses'
    <3>1. (\A a, b \in Addresses : user_id[a] = user_id[b] /\ user_id[a] # 0
                                   => a = b)'
      BY <2>2 DEF IdsMatchAddresses, TypeOK
    <3>2. (\A i \in 1 .. num_users : \E a \in Addresses : user_id[a] = i)'
      <4> SUFFICES ASSUME NEW i \in 1 .. num_users'
                   PROVE  \E a \in Addresses : user_id'[a] = i
        OBVIOUS
      <4>1. CASE i = num_users + 1
        BY <2>2, <4>1
      <4>2. CASE i \in 1 .. num_users
        <5>1. PICK a \in Addresses : user_id[a] = i
          BY <4>2 DEF IdsMatchAddresses
        <5>2. a # address
          BY <1>1, <4>2, <5>1
        <5>3. QED
          BY <2>2, <5>1, <5>2
      <4>3. QED
        BY <2>1, <4>1, <4>2 DEF TypeOK
    <3>3. (\A a \in Addresses : user_id[a] <= num_users)'
      BY <2>1, <2>2 DEF IdsMatchAddresses, TypeOK
    <3>4. (\A i \in Ids : is_empty_user_address(i)
                          \/ user_id[user_address[i]] = i)'
      <4> SUFFICES ASSUME NEW i \in Ids, user_address'[i] # NoAddress
                   PROVE  user_id'[user_address'[i]] = i
        BY DEF is_empty_user_address
      <4>1. CASE i = num_users + 1
        BY <2>2, <4>1
      <4>2. CASE i # num_users + 1
        <5>1. user_id[user_address[i]] = i /\ user_address[i] \in Addresses
              /\ user_address'[i] = user_address[i]
          BY <2>2, <4>2 DEF IdsMatchAddresses, is_empty_user_address, TypeOK
        <5>2. user_address[i] # address
          BY <1>1, <5>1
        <5>3. QED
          BY <2>2, <5>1, <5>2
      <4>3. QED
        BY <4>1, <4>2
    <3>5. QED
      BY <3>1, <3>2, <3>3, <3>4 DEF IdsMatchAddresses
  <2>5. WaitingListReadable'
    BY <2>1, <2>2, UserDataAssumption
    DEF WaitingListReadable, is_empty_user_address, TypeOK
  <2>6. QED
    BY <2>3, <2>4, <2>5
<1>2. CASE id # 0
  <2>1. /\ user_address' = IF is_empty_user_address(id)
                           THEN [user_address EXCEPT ![id] = address]
                           ELSE user_address
        /\ UNCHANGED <<user_id, num_users>>
        /\ waiting' = waiting \cup {id}
    BY <1>2 DEF stake_endpoint, get_or_create_user
  <2>2. id \in 1 .. MaxUsers /\ id <= num_users
    BY <1>2 DEF TypeOK, IdsMatchAddresses
  <2>3. TypeOK'
    BY <2>1, <2>2 DEF TypeOK
  <2>4. user_address'[id] # NoAddress
    BY <2>1, <2>2, UserDataAssumption DEF is_empty_user_address, TypeOK
  <2>5. /\ \A i \in 1 .. MaxUsers : i # id =>
               user_address'[i] = user_address[i]
        /\ user_address'[id] \in {address, user_address[id]}
    BY <2>1, <2>2 DEF TypeOK
  <2>6. IdsMatchAddresses'
    BY <2>1, <2>4, <2>5 DEF IdsMatchAddresses, is_empty_user_address
  <2>7. WaitingListReadable'
    BY <2>1, <2>2, <2>4, <2>5
    DEF WaitingListReadable, is_empty_user_address, TypeOK
  <2>8. QED
    BY <2>3, <2>6, <2>7
<1>3. QED
  BY <1>1, <1>2

(* Whatever addresses are given to updateUserAddress, an entry receives    *)
(* the owner of its id or stays as it is.                                  *)
LEMMA UpdateStep ==
    ASSUME RegistryInv, NEW addresses \in SUBSET Addresses,
           update_user_address(addresses)
    PROVE  /\ user_address' \in [Ids -> Addresses \cup {NoAddress}]
           /\ \A id \in Ids :
                 \/ user_address'[id] = user_address[id]
                 \/ /\ is_empty_user_address(id)
                    /\ user_address'[id] \in Addresses
                    /\ user_id[user_address'[id]] = id
           /\ UNCHANGED <<user_id, num_users, waiting>>
  BY DEF update_user_address, with_updated_addresses, RegistryInv, TypeOK,
         is_empty_user_address

(* updateUserAddress preserves the invariant.                               *)
LEMMA UpdateKeepsInv ==
    ASSUME RegistryInv, NEW addresses \in SUBSET Addresses,
           update_user_address(addresses)
    PROVE  RegistryInv'
<1> USE DEF RegistryInv
<1>1. TypeOK'
  BY UpdateStep DEF TypeOK
<1>2. IdsMatchAddresses'
  BY UpdateStep, UserDataAssumption
  DEF IdsMatchAddresses, is_empty_user_address
<1>3. WaitingListReadable'
  BY UpdateStep, UserDataAssumption
  DEF WaitingListReadable, is_empty_user_address, TypeOK
<1>4. QED
  BY <1>1, <1>2, <1>3

-----------------------------------------------------------------------------
(* The registry is consistent at all times, whatever genesis left behind   *)
(* and whoever calls updateUserAddress with which addresses.               *)
THEOREM RegistryInvHolds == Spec => []RegistryInv
<1>1. RegistryInv /\ [Next]_vars => RegistryInv'
  <2> SUFFICES ASSUME RegistryInv, [Next]_vars PROVE RegistryInv'
    OBVIOUS
  <2>1. CASE \E id \in Ids : WaitingLeaves(id)
    BY <2>1 DEF WaitingLeaves, RegistryInv, TypeOK, IdsMatchAddresses,
                WaitingListReadable, is_empty_user_address
  <2>2. CASE UNCHANGED vars
    BY <2>2 DEF vars, RegistryInv, TypeOK, IdsMatchAddresses,
                WaitingListReadable, is_empty_user_address
  <2>3. QED
    BY <2>1, <2>2, StakeKeepsInv, UpdateKeepsInv DEF Next
<1>2. QED
  BY <1>1, RegistryInit, PTL DEF Spec

(* Two delegators never share an id, and the entry of an id names its      *)
(* owner.                                                                  *)
THEOREM IdsMatchAddressesHolds == Spec => []IdsMatchAddresses
<1>1. RegistryInv => IdsMatchAddresses
  BY DEF RegistryInv
<1>2. QED
  BY <1>1, RegistryInvHolds, PTL

(* getFullWaitingList never meets a user without an address.               *)
THEOREM WaitingListReadableHolds == Spec => []WaitingListReadable
<1>1. RegistryInv => WaitingListReadable
  BY DEF RegistryInv
<1>2. QED
  BY <1>1, RegistryInvHolds, PTL

(* No step changes an id or an address entry that is set.                  *)
THEOREM RegistrationIsFinalHolds == Spec => RegistrationIsFinal
<1> DEFINE Final ==
        /\ num_users' >= num_users
        /\ \A a \in Addresses : user_id[a] # 0 => user_id'[a] = user_id[a]
        /\ \A id \in Ids : ~ is_empty_user_address(id) =>
                               user_address'[id] = user_address[id]
<1>1. RegistryInv /\ [Next]_vars => Final
  <2> SUFFICES ASSUME RegistryInv, [Next]_vars PROVE Final
    OBVIOUS
  <2>1. CASE \E address \in Addresses : stake_endpoint(address)
    <3>1. PICK address \in Addresses : stake_endpoint(address)
      BY <2>1
    <3>2. CASE user_id[address] = 0
      <4>1. /\ num_users' = num_users + 1
            /\ user_id' = [user_id EXCEPT ![address] = num_users + 1]
            /\ user_address' = [user_address EXCEPT ![num_users + 1] = address]
        BY <3>1, <3>2 DEF stake_endpoint, get_or_create_user, new_user
      <4>2. \A id \in Ids : ~ is_empty_user_address(id) => id # num_users + 1
        BY DEF RegistryInv, IdsMatchAddresses, TypeOK,
               is_empty_user_address, Ids
      <4>3. QED
        BY <3>2, <4>1, <4>2 DEF RegistryInv, TypeOK, Ids
    <3>3. CASE user_id[address] # 0
      <4>1. /\ user_address' = IF is_empty_user_address(user_id[address])
                   THEN [user_address EXCEPT ![user_id[address]] = address]
                   ELSE user_address
            /\ UNCHANGED <<user_id, num_users>>
        BY <3>1, <3>3 DEF stake_endpoint, get_or_create_user
      <4>2. num_users' >= num_users
        BY <4>1 DEF RegistryInv, TypeOK, Ids
      <4>3. \A id \in Ids : ~ is_empty_user_address(id) =>
                user_address'[id] = user_address[id]
        BY <4>1 DEF RegistryInv, TypeOK, is_empty_user_address
      <4>4. QED
        BY <4>1, <4>2, <4>3
    <3>4. QED
      BY <3>2, <3>3
  <2>2. CASE \E addresses \in SUBSET Addresses : update_user_address(addresses)
    <3>1. PICK addresses \in SUBSET Addresses :
              update_user_address(addresses)
      BY <2>2
    <3>2. /\ \A id \in Ids : \/ user_address'[id] = user_address[id]
                             \/ is_empty_user_address(id)
          /\ UNCHANGED <<user_id, num_users>>
      BY <3>1, UpdateStep
    <3>3. num_users' >= num_users
      BY <3>2 DEF RegistryInv, TypeOK, Ids
    <3>4. QED
      BY <3>2, <3>3
  <2>3. CASE (\E id \in Ids : WaitingLeaves(id)) \/ UNCHANGED vars
    <3>1. UNCHANGED <<user_id, user_address, num_users>>
      BY <2>3 DEF WaitingLeaves, vars
    <3>2. num_users' >= num_users
      BY <3>1 DEF RegistryInv, TypeOK, Ids
    <3>3. QED
      BY <3>1, <3>2
  <2>4. QED
    BY <2>1, <2>2, <2>3 DEF Next
<1>2. QED
  BY <1>1, RegistryInvHolds, PTL DEF Spec, RegistrationIsFinal

-----------------------------------------------------------------------------
(* The loop of updateUserAddress *)

(* A set with 0 and with the successor of each of its numbers below N has  *)
(* all numbers up to N.                                                    *)
LEMMA CountingUp ==
    ASSUME NEW N \in Nat, NEW S, 0 \in S,
           \A n \in 0 .. N - 1 : n \in S => n + 1 \in S
    PROVE  0 .. N \subseteq S
<1> DEFINE T == 0 .. N \ S
<1>1. SUFFICES ASSUME T # {} PROVE FALSE
  OBVIOUS
<1>2. PICK m \in T : \A k \in T : <<k, m>> \notin OpToRel(<, Nat)
  <2>1. T \in SUBSET Nat
    OBVIOUS
  <2> HIDE DEF T
  <2> QED BY <1>1, <2>1, NatLessThanWellFounded, WFMin, Zenon
<1>3. m \in 1 .. N /\ m \notin S
  OBVIOUS
<1>4. m - 1 \in 0 .. N - 1 /\ (m - 1) + 1 = m /\ m - 1 < m
      /\ m - 1 \in Nat /\ m \in Nat
  BY <1>3
<1>5. <<m - 1, m>> \in OpToRel(<, Nat)
  BY <1>4 DEF OpToRel
<1>6. m - 1 \notin T
  BY <1>2, <1>5, Zenon
<1>7. m - 1 \in S
  BY <1>4, <1>6
<1>8. (m - 1) + 1 \in S
  BY <1>4, <1>7
<1> QED BY <1>3, <1>4, <1>8

(* One argument, and all of them.                                          *)
update_one(r, address) ==
    LET id == user_id[address]
    IN  IF id = 0 THEN [r EXCEPT !.num_not_found = @ + 1]
        ELSE IF r.user_address[id] # NoAddress
        THEN [r EXCEPT !.num_not_updated = @ + 1]
        ELSE [r EXCEPT !.user_address[id] = address, !.num_updated = @ + 1]

before_loop == [user_address |-> user_address, num_updated |-> 0,
                num_not_updated |-> 0, num_not_found |-> 0]

IsLoop(l, addresses, n) ==
    l = [k \in 0 .. n |-> IF k = 0 THEN before_loop
                          ELSE update_one(l[k - 1], addresses[k])]

(* The steps of the loop.                                                  *)
LEMMA LoopAt ==
    ASSUME NEW addresses, NEW n \in Nat, NEW l, IsLoop(l, addresses, n)
    PROVE  /\ l[0] = before_loop
           /\ \A k \in 1 .. n : l[k] = update_one(l[k - 1], addresses[k])
BY DEF IsLoop

(* The recursive function of update_loop exists.                           *)
LEMMA LoopExists ==
    ASSUME NEW addresses, NEW N \in Nat
    PROVE  \E l : IsLoop(l, addresses, N)
<1> DEFINE T == { n \in 0 .. N : \E l : IsLoop(l, addresses, n) }
<1>1. 0 \in T
  <2>1. IsLoop([k \in 0 .. 0 |-> before_loop], addresses, 0)
    BY DEF IsLoop
  <2> QED BY <2>1
<1>2. ASSUME NEW n \in 0 .. N - 1, n \in T PROVE n + 1 \in T
  <2>1. PICK l : IsLoop(l, addresses, n)
    BY <1>2
  <2>2. /\ l[0] = before_loop
        /\ \A k \in 1 .. n : l[k] = update_one(l[k - 1], addresses[k])
    BY <2>1, LoopAt
  <2> DEFINE t == [k \in 0 .. n + 1 |->
                      IF k <= n THEN l[k]
                      ELSE update_one(l[n], addresses[n + 1])]
  <2>3. ASSUME NEW k \in 0 .. n + 1
        PROVE  t[k] = IF k = 0 THEN before_loop
                      ELSE update_one(t[k - 1], addresses[k])
    <3>1. CASE k = 0
      BY <2>2, <3>1
    <3>2. CASE k \in 1 .. n
      BY <2>2, <3>2
    <3>3. CASE k = n + 1
      BY <3>3
    <3> QED BY <3>1, <3>2, <3>3
  <2>4. IsLoop(t, addresses, n + 1)
    <3> HIDE DEF t
    <3>1. t = [k \in 0 .. n + 1 |-> t[k]]
      BY DEF t
    <3> QED BY <2>3, <3>1, Zenon DEF IsLoop
  <2> QED BY <2>4
<1>3. 0 .. N \subseteq T
  <2> HIDE DEF T
  <2> QED BY <1>1, <1>2, CountingUp
<1> QED BY <1>3

(* The ids of the first k arguments.                                       *)
asked(addresses, k) == { user_id[addresses[i]] : i \in 1 .. k }

changed(entries) == { id \in Ids : entries[id] # user_address[id] }

(* An entry is as it was, or was empty and names the owner of an id that   *)
(* is among the arguments.                                                 *)
Filled(entries, ids) ==
    /\ entries \in [Ids -> Addresses \cup {NoAddress}]
    /\ \A id \in Ids :
          IF is_empty_user_address(id) /\ id \in ids
          THEN entries[id] \in Addresses /\ user_id[entries[id]] = id
          ELSE entries[id] = user_address[id]

(* What the loop has done after k arguments: every change was counted.     *)
Done(r, addresses, k) ==
    /\ r = [user_address |-> r.user_address, num_updated |-> r.num_updated,
            num_not_updated |-> r.num_not_updated,
            num_not_found |-> r.num_not_found]
    /\ r.num_updated \in Nat /\ r.num_not_updated \in Nat
    /\ r.num_not_found \in Nat
    /\ r.num_updated + r.num_not_updated + r.num_not_found = k
    /\ Filled(r.user_address, asked(addresses, k))
    /\ IsFiniteSet(changed(r.user_address))
    /\ r.num_updated = Cardinality(changed(r.user_address))

(* The loop before its first argument.                                     *)
LEMMA NothingDone ==
    ASSUME RegistryInv, NEW addresses
    PROVE  Done(before_loop, addresses, 0)
<1>1. changed(user_address) = {}
  BY DEF changed
<1>2. IsFiniteSet({}) /\ Cardinality({}) = 0
  BY FS_EmptySet
<1>3. Filled(user_address, asked(addresses, 0))
  BY DEF Filled, asked, RegistryInv, TypeOK
<1> QED BY <1>1, <1>2, <1>3 DEF Done, before_loop

(* One argument more: an address given twice finds its entry filled.       *)
LEMMA OneMoreDone ==
    ASSUME RegistryInv, NEW n \in Nat, NEW addresses \in [1 .. n -> Addresses],
           NEW k \in 0 .. n - 1, NEW r, Done(r, addresses, k)
    PROVE  Done(update_one(r, addresses[k + 1]), addresses, k + 1)
<1>1. PICK a \in Addresses, id \in 0 .. MaxUsers :
         a = addresses[k + 1] /\ id = user_id[a]
  BY DEF RegistryInv, TypeOK
<1>2. PICK e, u, v, w :
        /\ e = r.user_address /\ u = r.num_updated /\ v = r.num_not_updated
        /\ w = r.num_not_found
  OBVIOUS
<1>3. /\ r = [user_address |-> e, num_updated |-> u, num_not_updated |-> v,
              num_not_found |-> w]
      /\ u \in Nat /\ v \in Nat /\ w \in Nat /\ u + v + w = k
  BY <1>2 DEF Done
<1>4. PICK ids : ids = asked(addresses, k)
  OBVIOUS
<1>5. /\ Filled(e, ids) /\ IsFiniteSet(changed(e))
      /\ u = Cardinality(changed(e))
  BY <1>2, <1>4 DEF Done
<1>6. asked(addresses, k + 1) = ids \cup {id}
  <2>1. 1 .. k + 1 = (1 .. k) \cup {k + 1}
    OBVIOUS
  <2> QED BY <1>1, <1>4, <2>1 DEF asked
<1>7. id # 0 => id \in Ids
  BY UserDataAssumption DEF Ids
<1>8. ASSUME NEW f, NEW u2 \in Nat, NEW v2 \in Nat, NEW w2 \in Nat,
             update_one(r, a) = [user_address |-> f, num_updated |-> u2,
                                 num_not_updated |-> v2, num_not_found |-> w2],
             u2 + v2 + w2 = k + 1, Filled(f, ids \cup {id}),
             IsFiniteSet(changed(f)), u2 = Cardinality(changed(f))
      PROVE  Done(update_one(r, addresses[k + 1]), addresses, k + 1)
  <2>1. PICK s : s = update_one(r, addresses[k + 1])
    OBVIOUS
  <2>2. /\ s = [user_address |-> f, num_updated |-> u2,
                num_not_updated |-> v2, num_not_found |-> w2]
        /\ s.user_address = f /\ s.num_updated = u2
        /\ s.num_not_updated = v2 /\ s.num_not_found = w2
    BY <1>1, <1>8, <2>1
  <2>3. Done(s, addresses, k + 1)
    BY <1>6, <1>8, <2>2 DEF Done
  <2> QED BY <2>1, <2>3
<1>9. CASE id = 0
  <2>1. update_one(r, a) = [user_address |-> e, num_updated |-> u,
                            num_not_updated |-> v, num_not_found |-> w + 1]
    BY <1>1, <1>3, <1>9 DEF update_one
  <2>2. Filled(e, ids \cup {id})
    BY <1>5, <1>9 DEF Filled, Ids
  <2>3. u + v + (w + 1) = k + 1 /\ w + 1 \in Nat
    BY <1>3
  <2> QED BY <1>3, <1>5, <1>8, <2>1, <2>2, <2>3
<1>10. CASE id # 0 /\ e[id] # NoAddress
  <2>1. update_one(r, a) = [user_address |-> e, num_updated |-> u,
                            num_not_updated |-> v + 1, num_not_found |-> w]
    BY <1>1, <1>2, <1>3, <1>10 DEF update_one
  <2>2. Filled(e, ids \cup {id})
    BY <1>5, <1>7, <1>10 DEF Filled, is_empty_user_address
  <2>3. u + (v + 1) + w = k + 1 /\ v + 1 \in Nat
    BY <1>3
  <2> QED BY <1>3, <1>5, <1>8, <2>1, <2>2, <2>3
<1>11. CASE id # 0 /\ e[id] = NoAddress
  <2>1. PICK f : f = [e EXCEPT ![id] = a]
    OBVIOUS
  <2>2. update_one(r, a) = [user_address |-> f, num_updated |-> u + 1,
                            num_not_updated |-> v, num_not_found |-> w]
    BY <1>1, <1>2, <1>3, <1>11, <2>1 DEF update_one
  <2>3. id \in Ids /\ e \in [Ids -> Addresses \cup {NoAddress}]
    BY <1>5, <1>7, <1>11 DEF Filled
  <2>4. /\ f \in [Ids -> Addresses \cup {NoAddress}] /\ f[id] = a
        /\ \A j \in Ids : j # id => f[j] = e[j]
    BY <2>1, <2>3
  <2>5. is_empty_user_address(id)
    BY <1>5, <1>11, <2>3, UserDataAssumption DEF Filled, is_empty_user_address
  <2>6. Filled(f, ids \cup {id})
    BY <1>1, <1>5, <2>4, <2>5 DEF Filled
  <2>7. changed(f) = changed(e) \cup {id} /\ id \notin changed(e)
    BY <1>11, <2>3, <2>4, <2>5, UserDataAssumption
       DEF changed, is_empty_user_address
  <2>8. IsFiniteSet(changed(f)) /\ Cardinality(changed(f)) = u + 1
    <3>1. PICK S : S = changed(e)
      OBVIOUS
    <3>2. IsFiniteSet(S \cup {id}) /\ Cardinality(S \cup {id}) = u + 1
      BY <1>5, <2>7, <3>1, FS_AddElement
    <3> QED BY <2>7, <3>1, <3>2
  <2>9. (u + 1) + v + w = k + 1 /\ u + 1 \in Nat
    BY <1>3
  <2> QED BY <1>3, <1>8, <2>2, <2>6, <2>8, <2>9
<1> QED BY <1>9, <1>10, <1>11

(* The whole loop.                                                         *)
LEMMA AllDone ==
    ASSUME RegistryInv, NEW n \in Nat, NEW addresses \in [1 .. n -> Addresses]
    PROVE  Done(update_loop(addresses), addresses, n)
<1> DEFINE l == CHOOSE x : IsLoop(x, addresses, n)
<1>1. Len(addresses) = n
  OBVIOUS
<1>2. IsLoop(l, addresses, n)
  BY LoopExists
<1>3. update_loop(addresses) = l[n]
  BY <1>1 DEF update_loop, IsLoop, update_one, before_loop
<1> HIDE DEF l
<1>4. /\ l[0] = before_loop
      /\ \A k \in 1 .. n : l[k] = update_one(l[k - 1], addresses[k])
  BY <1>2, LoopAt
<1> DEFINE S == { k \in 0 .. n : Done(l[k], addresses, k) }
<1>5. 0 \in S
  BY <1>4, NothingDone
<1>6. ASSUME NEW k \in 0 .. n - 1, k \in S PROVE k + 1 \in S
  <2>1. k + 1 \in 1 .. n /\ (k + 1) - 1 = k /\ k + 1 \in 0 .. n
    OBVIOUS
  <2>2. l[k + 1] = update_one(l[k], addresses[k + 1])
    BY <1>4, <2>1
  <2>3. Done(l[k + 1], addresses, k + 1)
    BY <1>6, <2>2, OneMoreDone
  <2> QED BY <2>1, <2>3
<1>7. 0 .. n \subseteq S
  <2> HIDE DEF S
  <2> QED BY <1>5, <1>6, CountingUp
<1> QED BY <1>3, <1>7

(* Called with any addresses in any order, some of them twice, unknown or  *)
(* supplied before, updateUserAddress fills the entries of those that are  *)
(* registered and lack one, and its three counters are exact.              *)
THEOREM UpdateCountsExactHolds == Spec => []UpdateCountsExact
<1>1. ASSUME RegistryInv PROVE UpdateCountsExact
  <2> SUFFICES ASSUME NEW n \in 0 .. MaxArguments,
                      NEW addresses \in [1 .. n -> Addresses],
                      NEW r, r = update_loop(addresses),
                      NEW given, given = { addresses[i] : i \in 1 .. n }
               PROVE  /\ r.user_address = with_updated_addresses(given)
                      /\ r.num_updated = Cardinality(
                            { id \in Ids : r.user_address[id] # user_address[id] })
                      /\ r.num_updated + r.num_not_updated + r.num_not_found = n
    BY DEF UpdateCountsExact
  <2>1. n \in Nat
    BY UserDataAssumption
  <2>2. Done(r, addresses, n)
    BY <1>1, <2>1, AllDone
  <2>3. /\ Filled(r.user_address, asked(addresses, n))
        /\ r.num_updated = Cardinality(changed(r.user_address))
        /\ r.num_updated + r.num_not_updated + r.num_not_found = n
    BY <2>2 DEF Done
  <2>4. ASSUME NEW id \in Ids
        PROVE  r.user_address[id] = with_updated_addresses(given)[id]
    <3>1. id \in asked(addresses, n) <=> \E a \in given : user_id[a] = id
      BY DEF asked
    <3>2. with_updated_addresses(given)[id] =
            IF is_empty_user_address(id) /\ \E a \in given : user_id[a] = id
            THEN CHOOSE a \in given : user_id[a] = id
            ELSE user_address[id]
      BY DEF with_updated_addresses
    <3>3. CASE is_empty_user_address(id) /\ \E a \in given : user_id[a] = id
      <4>1. PICK a \in Addresses : a = r.user_address[id] /\ user_id[a] = id
        BY <2>3, <3>1, <3>3 DEF Filled
      <4>2. PICK b : b = CHOOSE x \in given : user_id[x] = id
        OBVIOUS
      <4>3. b \in given /\ user_id[b] = id
        BY <3>3, <4>2
      <4>4. b \in Addresses /\ id # 0
        BY <4>3 DEF Ids
      <4>5. b = a
        BY <1>1, <4>1, <4>3, <4>4 DEF RegistryInv, IdsMatchAddresses
      <4> QED BY <3>2, <3>3, <4>1, <4>2, <4>5
    <3>4. CASE ~ (is_empty_user_address(id) /\ \E a \in given : user_id[a] = id)
      <4>1. r.user_address[id] = user_address[id]
        BY <2>3, <3>1, <3>4 DEF Filled
      <4> QED BY <3>2, <3>4, <4>1
    <3> QED BY <3>3, <3>4
  <2>5. r.user_address = with_updated_addresses(given)
    <3>1. with_updated_addresses(given)
            = [id \in Ids |-> with_updated_addresses(given)[id]]
      BY DEF with_updated_addresses
    <3>2. r.user_address = [id \in Ids |-> r.user_address[id]]
      BY <2>3 DEF Filled
    <3> QED BY <2>4, <3>1, <3>2, Zenon
  <2> QED BY <2>3, <2>5 DEF changed
<1> QED BY <1>1, RegistryInvHolds, PTL
=============================================================================
