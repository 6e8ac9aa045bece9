-------------------------- MODULE FundModuleProofs --------------------------
(***************************************************************************)
(* Proofs about FundModule.tla: the linked lists stay consistent, for any  *)
(* number of users and items, whatever the order of the operations and     *)
(* wherever the gas interrupts them.                                       *)
(***************************************************************************)
EXTENDS FundModule, FiniteSetTheorems, TLAPS

P == INSTANCE FundBookProofs

(* The assumption of FundBook holds here.                                  *)
LEMMA U64IsPositive == P!U64Assumption
BY FundModuleAssumption DEF P!U64Assumption

-----------------------------------------------------------------------------
(* Neighbours in a set of ids; 0 stands for none.                          *)

IsNext(M, i, j) == \/ j = 0 /\ \A k \in M : k <= i
                   \/ j \in M /\ j > i /\ \A k \in M : k > i => j <= k

IsPrev(M, i, j) == \/ j = 0 /\ \A k \in M : i <= k
                   \/ j \in M /\ j < i /\ \A k \in M : k < i => k <= j

IsLast(M, j) == \/ j = 0 /\ M = {}
                \/ j \in M /\ \A k \in M : k <= j

(* Without d, its neighbours are each other's neighbours.                  *)
LEMMA RemoveNext ==
    ASSUME NEW M \in SUBSET (Nat \ {0}), NEW d \in M, NEW p \in Nat,
           NEW n \in Nat, IsPrev(M, d, p), IsNext(M, d, n),
           NEW i \in (M \ {d}) \cup {0}, NEW j \in Nat, IsNext(M, i, j)
    PROVE  IsNext(M \ {d}, i, IF i = p THEN n ELSE j)
BY DEF IsPrev, IsNext

(* The same towards the front.                                             *)
LEMMA RemovePrev ==
    ASSUME NEW M \in SUBSET (Nat \ {0}), NEW d \in M, NEW p \in Nat,
           NEW n \in Nat, IsPrev(M, d, p), IsNext(M, d, n),
           NEW i \in M \ {d}, NEW j \in Nat, IsPrev(M, i, j)
    PROVE  IsPrev(M \ {d}, i, IF i = n THEN p ELSE j)
BY DEF IsPrev, IsNext

(* The end of the list.                                                    *)
LEMMA RemoveLast ==
    ASSUME NEW M \in SUBSET (Nat \ {0}), NEW d \in M, NEW p \in Nat,
           NEW n \in Nat, IsPrev(M, d, p), IsNext(M, d, n),
           NEW j \in Nat, IsLast(M, j)
    PROVE  IsLast(M \ {d}, IF n = 0 THEN p ELSE j)
BY DEF IsPrev, IsNext, IsLast

(* A new greatest id d comes after the last one.                           *)
LEMMA AppendNext ==
    ASSUME NEW M \in SUBSET (Nat \ {0}), NEW d \in Nat \ {0},
           \A k \in M : k < d, NEW l \in Nat, IsLast(M, l)
    PROVE  /\ \A i \in M \cup {0}, j \in Nat :
                 IsNext(M, i, j) => IsNext(M \cup {d}, i,
                                           IF i = l THEN d ELSE j)
           /\ \A i \in M, j \in Nat :
                 IsPrev(M, i, j) => IsPrev(M \cup {d}, i, j)
           /\ IsNext(M \cup {d}, d, 0)
           /\ IsPrev(M \cup {d}, d, l)
           /\ IsLast(M \cup {d}, d)
<1>1. ASSUME NEW i \in M \cup {0}, NEW j \in Nat, IsNext(M, i, j)
      PROVE  IsNext(M \cup {d}, i, IF i = l THEN d ELSE j)
  BY <1>1 DEF IsNext, IsLast
<1>2. ASSUME NEW i \in M, NEW j \in Nat, IsPrev(M, i, j)
      PROVE  IsPrev(M \cup {d}, i, j)
  BY <1>2 DEF IsPrev
<1>3. IsNext(M \cup {d}, d, 0) /\ IsPrev(M \cup {d}, d, l)
      /\ IsLast(M \cup {d}, d)
  BY DEF IsNext, IsPrev, IsLast
<1> QED BY <1>1, <1>2, <1>3

-----------------------------------------------------------------------------
(* Stores *)

Ids == 0 .. 2 * MaxId

FundList == [first : Nat, last : Nat, total_balance : Nat]

Store == [fund_by_id : [Ids -> FundItem], fund_max_id : Nat,
          lists : [Keys -> FundList]]

(* The fields of a store have their types.                                 *)
LEMMA StoreFields ==
    ASSUME NEW s \in Store
    PROVE  /\ s.fund_by_id \in [Ids -> FundItem]
           /\ s.fund_max_id \in Nat
           /\ s.lists \in [Keys -> FundList]
           /\ \A id \in Ids : s.fund_by_id[id] \in FundItem
           /\ \A key \in Keys : s.lists[key] \in FundList
BY DEF Store

(* The fields of an item have their types.                                 *)
LEMMA ItemFields ==
    ASSUME NEW item \in FundItem
    PROVE  /\ item.fund_desc \in [type : B!FundType, created : Nat]
           /\ item.fund_desc.type \in B!FundType
           /\ item.fund_desc.created \in Nat
           /\ item.user_id \in Nat /\ item.balance \in Nat
           /\ item.next \in [Kinds -> Nat] /\ item.prev \in [Kinds -> Nat]
           /\ \A kind \in Kinds : item.next[kind] \in Nat
           /\ \A kind \in Kinds : item.prev[kind] \in Nat
BY DEF FundItem

(* The fields of a list have their types.                                  *)
LEMMA ListFields ==
    ASSUME NEW list \in FundList
    PROVE  list.first \in Nat /\ list.last \in Nat /\ list.total_balance \in Nat
BY DEF FundList

(* The absent item and list are an item and a list.                        *)
LEMMA Defaults == DefaultItem \in FundItem /\ DefaultList \in FundList
BY DEF DefaultItem, DefaultList, FundItem, FundList, NoLinks, B!WithdrawOnly,
       B!FundType

saved(item) == IF /\ item.balance = 0
                  /\ item.next = NoLinks
                  /\ item.prev = NoLinks
               THEN DefaultItem ELSE item

(* set_fund changes one item.                                              *)
LEMMA SetFund ==
    ASSUME NEW s \in Store, NEW id \in Ids, NEW item \in FundItem
    PROVE  /\ set_fund(s, id, item) \in Store
           /\ set_fund(s, id, item).fund_by_id[id] = saved(item)
           /\ \A k \in Ids \ {id} :
                 set_fund(s, id, item).fund_by_id[k] = s.fund_by_id[k]
           /\ set_fund(s, id, item).fund_max_id = s.fund_max_id
           /\ set_fund(s, id, item).lists = s.lists
<1>1. saved(item) \in FundItem
  BY Defaults DEF saved
<1>2. set_fund(s, id, item) = [s EXCEPT !.fund_by_id[id] = saved(item)]
  BY DEF set_fund, saved
<1> QED BY <1>1, <1>2 DEF Store

(* An item with balance is saved as it is.                                 *)
LEMMA SavedLive ==
    ASSUME NEW item \in FundItem, item.balance > 0
    PROVE  saved(item) = item
BY ItemFields DEF saved

with_next(item, kind, n) == [item EXCEPT !.next[kind] = n]
with_prev(item, kind, n) == [item EXCEPT !.prev[kind] = n]

(* Setting a link changes that link.                                       *)
LEMMA WithLink ==
    ASSUME NEW item \in FundItem, NEW kind \in Kinds, NEW n \in Nat
    PROVE  /\ with_next(item, kind, n) \in FundItem
           /\ with_next(item, kind, n).fund_desc = item.fund_desc
           /\ with_next(item, kind, n).user_id = item.user_id
           /\ with_next(item, kind, n).balance = item.balance
           /\ with_next(item, kind, n).next[kind] = n
           /\ \A other \in Kinds \ {kind} :
                 with_next(item, kind, n).next[other] = item.next[other]
           /\ with_next(item, kind, n).prev = item.prev
           /\ with_prev(item, kind, n) \in FundItem
           /\ with_prev(item, kind, n).fund_desc = item.fund_desc
           /\ with_prev(item, kind, n).user_id = item.user_id
           /\ with_prev(item, kind, n).balance = item.balance
           /\ with_prev(item, kind, n).prev[kind] = n
           /\ \A other \in Kinds \ {kind} :
                 with_prev(item, kind, n).prev[other] = item.prev[other]
           /\ with_prev(item, kind, n).next = item.next
BY DEF with_next, with_prev, FundItem

(* set_next and set_prev change a link of a live item.                     *)
LEMMA SetLink ==
    ASSUME NEW s \in Store, NEW id \in Ids, s.fund_by_id[id].balance > 0,
           NEW kind \in Kinds, NEW n \in Nat
    PROVE  /\ set_next(s, id, kind, n) \in Store
           /\ set_next(s, id, kind, n).fund_by_id[id]
                 = with_next(s.fund_by_id[id], kind, n)
           /\ \A k \in Ids \ {id} :
                 set_next(s, id, kind, n).fund_by_id[k] = s.fund_by_id[k]
           /\ set_next(s, id, kind, n).fund_max_id = s.fund_max_id
           /\ set_next(s, id, kind, n).lists = s.lists
           /\ set_prev(s, id, kind, n) \in Store
           /\ set_prev(s, id, kind, n).fund_by_id[id]
                 = with_prev(s.fund_by_id[id], kind, n)
           /\ \A k \in Ids \ {id} :
                 set_prev(s, id, kind, n).fund_by_id[k] = s.fund_by_id[k]
           /\ set_prev(s, id, kind, n).fund_max_id = s.fund_max_id
           /\ set_prev(s, id, kind, n).lists = s.lists
<1> DEFINE item == s.fund_by_id[id]
<1>1. item \in FundItem /\ item.balance > 0
  BY StoreFields
<1> HIDE DEF item
<1> DEFINE x == with_next(item, kind, n)
           y == with_prev(item, kind, n)
<1>2. x \in FundItem /\ x.balance > 0 /\ y \in FundItem /\ y.balance > 0
  BY <1>1, WithLink
<1>3. /\ set_next(s, id, kind, n) = set_fund(s, id, x)
      /\ set_prev(s, id, kind, n) = set_fund(s, id, y)
  BY DEF set_next, set_prev, with_next, with_prev, item
<1> HIDE DEF x, y
<1>4. saved(x) = x /\ saved(y) = y
  BY <1>2, SavedLive
<1>5. /\ set_next(s, id, kind, n) \in Store
      /\ set_next(s, id, kind, n).fund_by_id[id] = x
      /\ \A k \in Ids \ {id} :
                 set_next(s, id, kind, n).fund_by_id[k] = s.fund_by_id[k]
      /\ set_next(s, id, kind, n).fund_max_id = s.fund_max_id
      /\ set_next(s, id, kind, n).lists = s.lists
  BY <1>2, <1>3, <1>4, SetFund
<1>6. /\ set_prev(s, id, kind, n) \in Store
      /\ set_prev(s, id, kind, n).fund_by_id[id] = y
      /\ \A k \in Ids \ {id} :
                 set_prev(s, id, kind, n).fund_by_id[k] = s.fund_by_id[k]
      /\ set_prev(s, id, kind, n).fund_max_id = s.fund_max_id
      /\ set_prev(s, id, kind, n).lists = s.lists
  BY <1>2, <1>3, <1>4, SetFund
<1> QED BY <1>5, <1>6 DEF item, x, y

-----------------------------------------------------------------------------
(* Adding an item *)

SameEntry(x, y) == /\ x.fund_desc = y.fund_desc
                   /\ x.user_id = y.user_id
                   /\ x.balance = y.balance

(* A list without a last item is an absent one, any other ends with a live *)
(* item.                                                                   *)
EndIsLive(s, key) ==
    \/ s.lists[key] = DefaultList
    \/ /\ s.lists[key].last \in Ids \ {0}
       /\ s.fund_by_id[s.lists[key].last].balance > 0

(* The key of an item of a user.                                           *)
LEMMA KeyOf ==
    ASSUME NEW item \in FundItem, item.user_id \in 0 .. NumUsers,
           NEW kind \in Kinds
    PROVE  list_key(kind, item) \in Keys
BY ItemFields DEF list_key, Keys

(* The keys of the two kinds are different.                                *)
LEMMA KindsApart ==
    ASSUME NEW x \in FundItem, NEW y \in FundItem
    PROVE  list_key("type", x) # list_key("user", y)
BY ItemFields DEF list_key, AnyUser

(* What add_fund_to_list does: the last item of the list key is linked to  *)
(* the new one.                                                            *)
Added(s, item, s1, item1, id, kind, key) ==
    /\ s1 \in Store /\ item1 \in FundItem
    /\ s1.fund_max_id = s.fund_max_id
    /\ \A k \in Ids :
          s1.fund_by_id[k] = IF k # 0 /\ k = s.lists[key].last
                             THEN with_next(s.fund_by_id[k], kind, id)
                             ELSE s.fund_by_id[k]
    /\ s1.lists[key].first = IF s.lists[key].last = 0 THEN id
                             ELSE s.lists[key].first
    /\ s1.lists[key].last = id
    /\ s1.lists[key].total_balance
          = s.lists[key].total_balance + item.balance
    /\ \A k \in Keys \ {key} : s1.lists[k] = s.lists[k]
    /\ SameEntry(item1, item) /\ item1.next = item.next
    /\ item1.prev[kind] = s.lists[key].last
    /\ \A other \in Kinds \ {kind} : item1.prev[other] = item.prev[other]

(* It does that when the list is a list.                                   *)
LEMMA AddToList ==
    ASSUME NEW s \in Store, NEW item \in FundItem, NEW id \in Ids,
           NEW kind \in Kinds, NEW key \in Keys, key = list_key(kind, item),
           EndIsLive(s, key), item.prev[kind] = 0,
           NEW r, r = add_fund_to_list([s |-> s, item |-> item], id, kind)
    PROVE  Added(s, item, r.s, r.item, id, kind, key)
<1> DEFINE list == s.lists[key]
           new  == [first |-> IF list = DefaultList THEN id ELSE list.first,
                    last |-> id,
                    total_balance |-> list.total_balance + item.balance]
           linked == IF list = DefaultList THEN s
                     ELSE set_next(s, list.last, kind, id)
<1>1. list \in FundList /\ id \in Nat /\ item.balance \in Nat
  BY StoreFields, ItemFields DEF Ids
<1>2. new \in FundList
  BY <1>1, ListFields DEF FundList
<1>3. list = DefaultList <=> list.last = 0
  BY DEF EndIsLive, DefaultList
<1>4. /\ r.s = [linked EXCEPT !.lists[key] = new]
      /\ r.item = IF list = DefaultList THEN item
                  ELSE with_prev(item, kind, list.last)
  BY DEF add_fund_to_list, with_prev
<1>5. /\ linked \in Store
      /\ linked.fund_max_id = s.fund_max_id
      /\ \A k \in Ids :
            linked.fund_by_id[k] = IF k # 0 /\ k = list.last
                                   THEN with_next(s.fund_by_id[k], kind, id)
                                   ELSE s.fund_by_id[k]
      /\ linked.lists = s.lists
  <2>1. CASE list = DefaultList
    BY <2>1, <1>3
  <2>2. CASE list # DefaultList
    <3>1. list.last \in Ids \ {0} /\ s.fund_by_id[list.last].balance > 0
      BY <2>2 DEF EndIsLive
    <3>2. linked = set_next(s, list.last, kind, id)
      BY <2>2
    <3> DEFINE last == list.last
    <3> HIDE DEF linked
    <3>3. /\ linked \in Store
          /\ linked.fund_by_id[last] = with_next(s.fund_by_id[last], kind, id)
          /\ \A k \in Ids \ {last} : linked.fund_by_id[k] = s.fund_by_id[k]
          /\ linked.fund_max_id = s.fund_max_id
          /\ linked.lists = s.lists
      <4> last \in Ids /\ s.fund_by_id[last].balance > 0
        BY <3>1
      <4> HIDE DEF last
      <4>1. linked = set_next(s, last, kind, id)
        BY <3>2 DEF last
      <4> HIDE DEF list
      <4> QED BY <4>1, <1>1, SetLink
    <3> QED BY <3>1, <3>3
  <2> QED BY <2>1, <2>2
<1>6. new.first = (IF list.last = 0 THEN id ELSE list.first) /\ new.last = id
      /\ new.total_balance = list.total_balance + item.balance
  BY <1>3
<1>7. /\ r.s \in Store
      /\ r.s.fund_max_id = linked.fund_max_id
      /\ r.s.fund_by_id = linked.fund_by_id
      /\ r.s.lists[key] = new
      /\ \A k \in Keys \ {key} : r.s.lists[k] = linked.lists[k]
  <2> HIDE DEF linked, new, list
  <2> QED BY <1>2, <1>4, <1>5 DEF Store
<1>8. /\ r.item \in FundItem
      /\ SameEntry(r.item, item) /\ r.item.next = item.next
      /\ r.item.prev[kind] = list.last
      /\ \A other \in Kinds \ {kind} : r.item.prev[other] = item.prev[other]
  <2>1. CASE list = DefaultList
    BY <2>1, <1>3, <1>4 DEF SameEntry
  <2>2. CASE list # DefaultList
    <3>1. list.last \in Nat /\ r.item = with_prev(item, kind, list.last)
      BY <2>2, <1>1, <1>4, ListFields
    <3> DEFINE last == list.last
    <3>2. last \in Nat /\ r.item = with_prev(item, kind, last)
      BY <3>1
    <3> HIDE DEF last
    <3>3. /\ r.item \in FundItem
          /\ SameEntry(r.item, item) /\ r.item.next = item.next
          /\ r.item.prev[kind] = last
          /\ \A other \in Kinds \ {kind} :
                r.item.prev[other] = item.prev[other]
      BY <3>2, WithLink DEF SameEntry
    <3> QED BY <3>3 DEF last
  <2> QED BY <2>1, <2>2
<1> HIDE DEF linked, new
<1> QED BY <1>5, <1>6, <1>7, <1>8 DEF Added

NextIs(x, y, kind, n) ==
    /\ SameEntry(y, x) /\ y.prev = x.prev /\ y.next[kind] = n
    /\ \A other \in Kinds \ {kind} : y.next[other] = x.next[other]

next_after(s, id, kind, key, k) ==
    IF k # 0 /\ k = s.lists[key].last THEN id ELSE s.fund_by_id[k].next[kind]

(* An item added to a list is the same but for its link.                   *)
LEMMA AddedItem ==
    ASSUME NEW s \in Store, NEW item, NEW s1, NEW item1, NEW id \in Ids,
           NEW kind \in Kinds, NEW key, Added(s, item, s1, item1, id, kind, key),
           NEW k \in Ids
    PROVE  NextIs(s.fund_by_id[k], s1.fund_by_id[k], kind,
                  next_after(s, id, kind, key, k))
<1> DEFINE x == s.fund_by_id[k]
           y == s1.fund_by_id[k]
           here == k # 0 /\ k = s.lists[key].last
<1>1. y = IF here THEN with_next(x, kind, id) ELSE x
  BY DEF Added
<1>2. x \in FundItem /\ id \in Nat
  BY StoreFields DEF Ids
<1> HIDE DEF x, y, here
<1>3. /\ SameEntry(y, x) /\ y.prev = x.prev
      /\ y.next[kind] = IF here THEN id ELSE x.next[kind]
      /\ \A other \in Kinds \ {kind} : y.next[other] = x.next[other]
  <2>1. CASE here
    <3>1. y = with_next(x, kind, id)
      BY <1>1, <2>1
    <3> QED BY <1>2, <2>1, <3>1, WithLink DEF SameEntry
  <2>2. CASE ~here
    BY <1>1, <2>2 DEF SameEntry
  <2> QED BY <2>1, <2>2
<1> QED BY <1>3 DEF x, y, here, NextIs, next_after

(* r is s with a new item id, at the end of its lists.                     *)
Inserted(s, r, id, item) ==
    /\ r \in Store /\ id = s.fund_max_id + 1 /\ r.fund_max_id = id
    /\ \A k \in Ids \ {id} :
          /\ SameEntry(r.fund_by_id[k], s.fund_by_id[k])
          /\ \A kind \in Kinds :
                /\ r.fund_by_id[k].prev[kind] = s.fund_by_id[k].prev[kind]
                /\ r.fund_by_id[k].next[kind]
                     = IF k # 0 /\ k = s.lists[list_key(kind, item)].last
                       THEN id ELSE s.fund_by_id[k].next[kind]
    /\ SameEntry(r.fund_by_id[id], item)
    /\ \A kind \in Kinds :
          LET key == list_key(kind, item)
          IN  /\ r.fund_by_id[id].next[kind] = 0
              /\ r.fund_by_id[id].prev[kind] = s.lists[key].last
              /\ r.lists[key].first = IF s.lists[key].last = 0 THEN id
                                      ELSE s.lists[key].first
              /\ r.lists[key].last = id
              /\ r.lists[key].total_balance
                    = s.lists[key].total_balance + item.balance
    /\ \A key \in Keys :
          (\A kind \in Kinds : key # list_key(kind, item)) =>
              r.lists[key] = s.lists[key]

new_item(user_id, fund_desc, balance) ==
    [fund_desc |-> fund_desc, user_id |-> user_id, balance |-> balance,
     next |-> NoLinks, prev |-> NoLinks]

(* A new item is an item.                                                  *)
LEMMA NewItem ==
    ASSUME NEW u \in 0 .. NumUsers, NEW d \in [type : B!FundType, created : Nat],
           NEW b \in Nat
    PROVE  LET item == new_item(u, d, b)
           IN  /\ item \in FundItem /\ item.balance = b
               /\ item.user_id = u /\ item.fund_desc = d
               /\ \A kind \in Kinds : item.next[kind] = 0 /\ item.prev[kind] = 0
               /\ list_key("type", item) = <<AnyUser, d.type>>
               /\ list_key("user", item) = <<u, d.type>>
BY FundModuleAssumption DEF new_item, FundItem, NoLinks, list_key

(* create_fund inserts an item.                                            *)
LEMMA CreateFund ==
    ASSUME NEW s \in Store, NEW u \in 0 .. NumUsers,
           NEW d \in [type : B!FundType, created : Nat], NEW b \in Nat \ {0},
           s.fund_max_id + 1 \in Ids,
           s.fund_by_id[s.fund_max_id + 1].balance = 0,
           EndIsLive(s, <<AnyUser, d.type>>), EndIsLive(s, <<u, d.type>>)
    PROVE  Inserted(s, create_fund(s, u, d, b), s.fund_max_id + 1,
                    new_item(u, d, b))
<1> DEFINE id   == s.fund_max_id + 1
           item == new_item(u, d, b)
           s0   == [s EXCEPT !.fund_max_id = id]
           r1   == add_fund_to_list([s |-> s0, item |-> item], id, "type")
           r2   == add_fund_to_list(r1, id, "user")
           kt   == <<AnyUser, d.type>>
           ku   == <<u, d.type>>
           r    == create_fund(s, u, d, b)
<1> "type" \in Kinds /\ "user" \in Kinds /\ Kinds = {"type", "user"}
    /\ "type" # "user"
  BY DEF Kinds
<1>1. /\ item \in FundItem /\ item.balance = b
      /\ \A kind \in Kinds : item.next[kind] = 0 /\ item.prev[kind] = 0
      /\ list_key("type", item) = kt /\ list_key("user", item) = ku
      /\ item.user_id = u /\ item.fund_desc = d
  BY NewItem
<1>2. kt \in Keys /\ ku \in Keys /\ kt # ku
  <2>1. item.user_id \in 0 .. NumUsers
    BY <1>1
  <2> HIDE DEF item, kt, ku
  <2> QED BY <1>1, <2>1, KeyOf, KindsApart
<1>3. r = save_item(r2, id)
  BY DEF create_fund, new_item
<1>4. /\ s0 \in Store /\ s0.fund_max_id = id /\ s0.fund_by_id = s.fund_by_id
      /\ s0.lists = s.lists
  BY DEF Store
<1> HIDE DEF item, s0, kt, ku, r
<1>5. EndIsLive(s, kt) /\ EndIsLive(s, ku)
  BY DEF kt, ku
<1>6. EndIsLive(s0, kt)
  BY <1>4, <1>5 DEF EndIsLive
<1> HIDE DEF id
<1> id \in Ids
  BY DEF id
<1> HIDE DEF r1
<1>7. r1 = add_fund_to_list([s |-> s0, item |-> item], id, "type")
  BY DEF r1
<1>8. Added(s0, item, r1.s, r1.item, id, "type", kt)
  BY <1>1, <1>2, <1>4, <1>6, <1>7, AddToList
<1>9. /\ r1.s \in Store /\ r1.item \in FundItem
      /\ list_key("user", r1.item) = ku /\ r1.item.prev["user"] = 0
  BY <1>1, <1>8 DEF list_key, SameEntry, Added
<1>10. EndIsLive(r1.s, ku)
  <2>1. r1.s.lists[ku] = s.lists[ku]
    BY <1>2, <1>4, <1>8 DEF Added
  <2>2. ASSUME NEW k \in Ids PROVE r1.s.fund_by_id[k].balance = s.fund_by_id[k].balance
    <3>1. SameEntry(r1.s.fund_by_id[k], s0.fund_by_id[k])
      BY <1>4, <1>8, AddedItem DEF NextIs
    <3> QED BY <3>1, <1>4 DEF SameEntry
  <2> QED BY <1>5, <2>1, <2>2 DEF EndIsLive
<1> HIDE DEF r2
<1>11. r2 = add_fund_to_list([s |-> r1.s, item |-> r1.item], id, "user")
  BY DEF r2, add_fund_to_list
<1>12. Added(r1.s, r1.item, r2.s, r2.item, id, "user", ku)
  BY <1>2, <1>9, <1>10, <1>11, AddToList
<1>13. r2.item \in FundItem /\ r2.item.balance = b /\ b > 0 /\ r2.s \in Store
  BY <1>1, <1>8, <1>12 DEF SameEntry, Added
<1>14. /\ r \in Store /\ r.fund_by_id[id] = r2.item
       /\ \A k \in Ids \ {id} : r.fund_by_id[k] = r2.s.fund_by_id[k]
       /\ r.fund_max_id = r2.s.fund_max_id
       /\ r.lists = r2.s.lists
  <2>1. saved(r2.item) = r2.item
    BY <1>13, SavedLive
  <2> QED BY <1>3, <1>13, <2>1, SetFund DEF save_item
<1>17. /\ r.lists[kt] = r1.s.lists[kt] /\ r1.s.lists[ku] = s.lists[ku]
       /\ \A key \in Keys : key # kt /\ key # ku => r.lists[key] = s.lists[key]
  <2>1. \A key \in Keys \ {kt} : r1.s.lists[key] = s.lists[key]
    BY <1>4, <1>8 DEF Added
  <2>2. \A key \in Keys \ {ku} : r.lists[key] = r1.s.lists[key]
    BY <1>12, <1>14 DEF Added
  <2> QED BY <1>2, <2>1, <2>2
<1>15. ASSUME NEW k \in Ids \ {id}
       PROVE  /\ SameEntry(r.fund_by_id[k], s.fund_by_id[k])
              /\ \A kind \in Kinds :
                    /\ r.fund_by_id[k].prev[kind] = s.fund_by_id[k].prev[kind]
                    /\ r.fund_by_id[k].next[kind]
                         = IF k # 0 /\ k = s.lists[list_key(kind, item)].last
                           THEN id ELSE s.fund_by_id[k].next[kind]
  <2> DEFINE x == s.fund_by_id[k]
             y == r1.s.fund_by_id[k]
             z == r.fund_by_id[k]
             t == k # 0 /\ k = s.lists[kt].last
             v == k # 0 /\ k = s.lists[ku].last
  <2>4. /\ SameEntry(y, x) /\ y.prev = x.prev /\ y.next["user"] = x.next["user"]
        /\ y.next["type"] = IF t THEN id ELSE x.next["type"]
    <3>1. NextIs(s0.fund_by_id[k], r1.s.fund_by_id[k], "type",
                 next_after(s0, id, "type", kt, k))
      BY <1>4, <1>8, AddedItem
    <3>2. NextIs(x, y, "type", IF t THEN id ELSE x.next["type"])
      BY <3>1, <1>4 DEF next_after
    <3> HIDE DEF x, y, t
    <3> QED BY <3>2 DEF NextIs
  <2>5. /\ SameEntry(z, y) /\ z.prev = y.prev /\ z.next["type"] = y.next["type"]
        /\ z.next["user"] = IF v THEN id ELSE y.next["user"]
    <3>1. z = r2.s.fund_by_id[k]
      BY <1>14
    <3>2. NextIs(r1.s.fund_by_id[k], r2.s.fund_by_id[k], "user",
                 next_after(r1.s, id, "user", ku, k))
      BY <1>9, <1>12, AddedItem
    <3>3. NextIs(y, z, "user", IF v THEN id ELSE y.next["user"])
      BY <3>1, <3>2, <1>17 DEF next_after
    <3> HIDE DEF y, z, v
    <3> QED BY <3>3 DEF NextIs
  <2> HIDE DEF x, y, z, t, v
  <2>6. /\ SameEntry(z, x) /\ z.prev = x.prev
        /\ z.next["type"] = IF t THEN id ELSE x.next["type"]
        /\ z.next["user"] = IF v THEN id ELSE x.next["user"]
    BY <2>4, <2>5 DEF SameEntry
  <2> QED BY <2>6, <1>1 DEF x, z, t, v
<1>16. /\ SameEntry(r1.item, item) /\ r1.item.next = item.next
       /\ r1.item.prev["type"] = s.lists[kt].last
  BY <1>4, <1>8 DEF Added
<1>21. /\ SameEntry(r.fund_by_id[id], r1.item)
       /\ r.fund_by_id[id].next = r1.item.next
       /\ r.fund_by_id[id].prev["type"] = r1.item.prev["type"]
       /\ r.fund_by_id[id].prev["user"] = r1.s.lists[ku].last
  BY <1>12, <1>14 DEF Added
<1>22. SameEntry(r.fund_by_id[id], item)
  BY <1>16, <1>21 DEF SameEntry
<1>18. ASSUME NEW kind \in Kinds
       PROVE  /\ r.fund_by_id[id].next[kind] = 0
              /\ r.fund_by_id[id].prev[kind] = s.lists[list_key(kind, item)].last
  BY <1>1, <1>16, <1>21, <1>17
<1>19. ASSUME NEW kind \in Kinds, NEW key, key = list_key(kind, item)
       PROVE  /\ r.lists[key].first = IF s.lists[key].last = 0 THEN id
                                      ELSE s.lists[key].first
              /\ r.lists[key].last = id
              /\ r.lists[key].total_balance
                    = s.lists[key].total_balance + item.balance
  <2>1. CASE kind = "type"
    <3>1. key = kt /\ r.lists[key] = r1.s.lists[key] /\ s0.lists = s.lists
      BY <2>1, <1>1, <1>4, <1>17, <1>19
    <3> QED BY <3>1, <1>8 DEF Added
  <2>2. CASE kind = "user"
    <3>1. key = ku /\ r.lists = r2.s.lists /\ r1.s.lists[key] = s.lists[key]
          /\ r1.item.balance = item.balance
      BY <2>2, <1>1, <1>14, <1>16, <1>17, <1>19 DEF SameEntry
    <3> QED BY <3>1, <1>12 DEF Added
  <2> QED BY <2>1, <2>2
<1>20. r.fund_max_id = id
  BY <1>4, <1>8, <1>12, <1>14 DEF Added
<1>23. Inserted(s, r, id, item)
  BY <1>1, <1>14, <1>15, <1>22, <1>17, <1>18, <1>19, <1>20 DEF Inserted, id
<1> QED BY <1>23 DEF r, id, item

-----------------------------------------------------------------------------
(* Deleting an item *)

LiveOrNone(s, id) == id = 0 \/ (id \in Ids /\ s.fund_by_id[id].balance > 0)

next_without(s, kind, p, n, k) ==
    IF k # 0 /\ k = p THEN n ELSE s.fund_by_id[k].next[kind]
prev_without(s, kind, p, n, k) ==
    IF k # 0 /\ k = n THEN p ELSE s.fund_by_id[k].prev[kind]

OtherLinks(x, y, kind) ==
    \A other \in Kinds \ {kind} : /\ y.next[other] = x.next[other]
                                  /\ y.prev[other] = x.prev[other]

(* p and n are linked to each other in the list key.                       *)
Joined(s, s1, kind, key, p, n) ==
    /\ s1 \in Store /\ s1.fund_max_id = s.fund_max_id
    /\ \A k \in Ids :
          /\ SameEntry(s1.fund_by_id[k], s.fund_by_id[k])
          /\ s1.fund_by_id[k].next[kind] = next_without(s, kind, p, n, k)
          /\ s1.fund_by_id[k].prev[kind] = prev_without(s, kind, p, n, k)
          /\ OtherLinks(s.fund_by_id[k], s1.fund_by_id[k], kind)
    /\ s1.lists[key].first = IF p = 0 THEN n ELSE s.lists[key].first
    /\ s1.lists[key].last = IF n = 0 THEN p ELSE s.lists[key].last
    /\ s1.lists[key].total_balance = s.lists[key].total_balance
    /\ \A k \in Keys \ {key} : s1.lists[k] = s.lists[k]

(* What setting a link changes.                                            *)
LEMMA LinkIs ==
    ASSUME NEW x \in FundItem, NEW kind \in Kinds, NEW n \in Nat
    PROVE  /\ NextIs(x, with_next(x, kind, n), kind, n)
           /\ with_prev(x, kind, n) \in FundItem
           /\ SameEntry(with_prev(x, kind, n), x)
           /\ with_prev(x, kind, n).next = x.next
           /\ with_prev(x, kind, n).prev[kind] = n
           /\ OtherLinks(x, with_prev(x, kind, n), kind)
<1>1. NextIs(x, with_next(x, kind, n), kind, n)
  BY WithLink DEF NextIs, SameEntry
<1>2. /\ with_prev(x, kind, n) \in FundItem
      /\ SameEntry(with_prev(x, kind, n), x)
      /\ with_prev(x, kind, n).next = x.next
      /\ with_prev(x, kind, n).prev[kind] = n
  BY WithLink DEF SameEntry
<1>3. OtherLinks(x, with_prev(x, kind, n), kind)
  BY WithLink DEF OtherLinks
<1> QED BY <1>1, <1>2, <1>3

(* delete_fund_from_list joins the neighbours of the item and clears the   *)
(* item's own links.                                                       *)
LEMMA Unlink ==
    ASSUME NEW s \in Store, NEW item \in FundItem, NEW kind \in Kinds,
           NEW key \in Keys, key = list_key(kind, item),
           LiveOrNone(s, item.prev[kind]), LiveOrNone(s, item.next[kind]),
           NEW r, r = delete_fund_from_list([s |-> s, item |-> item], kind)
    PROVE  /\ Joined(s, r.s, kind, key, item.prev[kind], item.next[kind])
           /\ r.item \in FundItem /\ SameEntry(r.item, item)
           /\ r.item.next[kind] = 0 /\ r.item.prev[kind] = 0
           /\ OtherLinks(item, r.item, kind)
           /\ r = [s |-> r.s, item |-> r.item]
<1> DEFINE p == item.prev[kind]
           n == item.next[kind]
           r0 == [s |-> s, item |-> item]
           sp == IF p = 0 THEN [s EXCEPT !.lists[key].first = n]
                 ELSE set_next(s, p, kind, n)
           sn == IF n = 0 THEN [sp EXCEPT !.lists[key].last = p]
                 ELSE set_prev(sp, n, kind, p)
<1>1. p \in Nat /\ n \in Nat
  BY ItemFields
<1>2. relink_prev(r0, kind) = [s |-> sp, item |-> item]
  BY DEF relink_prev
<1>3. relink_next([s |-> sp, item |-> item], kind) = [s |-> sn, item |-> item]
  <2> HIDE DEF sp
  <2> QED BY DEF relink_next
<1>4. r = clear_links([s |-> sn, item |-> item], kind)
  BY <1>2, <1>3 DEF delete_fund_from_list
<1> HIDE DEF sn
<1>5. r = [s |-> sn, item |-> [item EXCEPT !.prev[kind] = 0, !.next[kind] = 0]]
  BY <1>4 DEF clear_links
<1>6. /\ r.item \in FundItem /\ SameEntry(r.item, item)
      /\ r.item.next[kind] = 0 /\ r.item.prev[kind] = 0
      /\ OtherLinks(item, r.item, kind)
  <2> DEFINE x == with_prev(item, kind, 0)
             y == with_next(x, kind, 0)
  <2>1. r.item = y
    BY <1>5 DEF with_prev, with_next, FundItem
  <2>2. /\ x \in FundItem /\ SameEntry(x, item) /\ x.next = item.next
        /\ x.prev[kind] = 0 /\ OtherLinks(item, x, kind)
    BY LinkIs
  <2> HIDE DEF x
  <2>3. y \in FundItem /\ NextIs(x, y, kind, 0)
    BY <2>2, WithLink, LinkIs
  <2> HIDE DEF y
  <2> QED BY <2>1, <2>2, <2>3 DEF NextIs, SameEntry, OtherLinks
<1> HIDE DEF sp, p, n
<1>7. LiveOrNone(s, p) /\ LiveOrNone(s, n)
  BY DEF p, n
<1>8. /\ sp \in Store /\ sp.fund_max_id = s.fund_max_id
      /\ \A k \in Ids : NextIs(s.fund_by_id[k], sp.fund_by_id[k], kind,
                               next_without(s, kind, p, n, k))
      /\ sp.lists[key] = [s.lists[key] EXCEPT
                              !.first = IF p = 0 THEN n ELSE @]
      /\ \A k \in Keys \ {key} : sp.lists[k] = s.lists[k]
  <2>0. s.lists[key] \in FundList
    BY StoreFields
  <2>1. CASE p = 0
    <3>1. sp = [s EXCEPT !.lists[key].first = n]
      BY <2>1 DEF sp
    <3>2. /\ sp \in Store /\ sp.fund_max_id = s.fund_max_id
          /\ sp.fund_by_id = s.fund_by_id
          /\ sp.lists[key] = [s.lists[key] EXCEPT !.first = n]
          /\ \A k \in Keys \ {key} : sp.lists[k] = s.lists[k]
      BY <3>1, <1>1 DEF Store, FundList
    <3>3. ASSUME NEW k \in Ids
          PROVE  NextIs(s.fund_by_id[k], sp.fund_by_id[k], kind,
                        next_without(s, kind, p, n, k))
      BY <3>2, <2>1 DEF NextIs, next_without, SameEntry
    <3> QED BY <2>1, <3>2, <3>3
  <2>2. CASE p # 0
    <3>1. sp = set_next(s, p, kind, n)
      BY <2>2 DEF sp
    <3>2. p \in Ids /\ s.fund_by_id[p].balance > 0
      BY <1>7, <2>2 DEF LiveOrNone
    <3>3. /\ sp \in Store /\ sp.fund_max_id = s.fund_max_id
          /\ sp.lists = s.lists
          /\ sp.fund_by_id[p] = with_next(s.fund_by_id[p], kind, n)
          /\ \A k \in Ids \ {p} : sp.fund_by_id[k] = s.fund_by_id[k]
      BY <3>1, <3>2, <1>1, SetLink
    <3>4. ASSUME NEW k \in Ids
          PROVE  NextIs(s.fund_by_id[k], sp.fund_by_id[k], kind,
                        next_without(s, kind, p, n, k))
      <4>1. CASE k = p
        <5>1. s.fund_by_id[k] \in FundItem
          BY StoreFields
        <5>2. sp.fund_by_id[k] = with_next(s.fund_by_id[k], kind, n)
              /\ next_without(s, kind, p, n, k) = n
          BY <3>3, <4>1, <2>2 DEF next_without
        <5> QED BY <5>1, <5>2, <1>1, LinkIs
      <4>2. CASE k # p
        BY <3>3, <4>2 DEF NextIs, SameEntry, next_without
      <4> QED BY <4>1, <4>2
    <3>5. s.lists[key] = [s.lists[key] EXCEPT !.first = @]
      BY <2>0 DEF FundList
    <3> QED BY <2>2, <3>3, <3>4, <3>5
  <2> QED BY <2>1, <2>2
<1>9. LiveOrNone(sp, n)
  BY <1>7, <1>8 DEF LiveOrNone, NextIs, SameEntry
<1>10. /\ sn \in Store /\ sn.fund_max_id = sp.fund_max_id
       /\ \A k \in Ids :
             /\ SameEntry(sn.fund_by_id[k], sp.fund_by_id[k])
             /\ sn.fund_by_id[k].next = sp.fund_by_id[k].next
             /\ sn.fund_by_id[k].prev[kind] = prev_without(sp, kind, p, n, k)
             /\ OtherLinks(sp.fund_by_id[k], sn.fund_by_id[k], kind)
       /\ sn.lists[key] = [sp.lists[key] EXCEPT
                               !.last = IF n = 0 THEN p ELSE @]
       /\ \A k \in Keys \ {key} : sn.lists[k] = sp.lists[k]
  <2>0. sp.lists[key] \in FundList /\ sp \in Store
    BY <1>8, StoreFields
  <2>1. CASE n = 0
    <3>1. sn = [sp EXCEPT !.lists[key].last = p]
      BY <2>1 DEF sn
    <3>2. /\ sn \in Store /\ sn.fund_max_id = sp.fund_max_id
          /\ sn.fund_by_id = sp.fund_by_id
          /\ sn.lists[key] = [sp.lists[key] EXCEPT !.last = p]
          /\ \A k \in Keys \ {key} : sn.lists[k] = sp.lists[k]
      BY <3>1, <1>1, <2>0 DEF Store, FundList
    <3>3. ASSUME NEW k \in Ids
          PROVE  /\ SameEntry(sn.fund_by_id[k], sp.fund_by_id[k])
                 /\ sn.fund_by_id[k].next = sp.fund_by_id[k].next
                 /\ sn.fund_by_id[k].prev[kind] = prev_without(sp, kind, p, n, k)
                 /\ OtherLinks(sp.fund_by_id[k], sn.fund_by_id[k], kind)
      BY <3>2, <2>1 DEF OtherLinks, prev_without, SameEntry
    <3> QED BY <2>1, <3>2, <3>3
  <2>2. CASE n # 0
    <3>1. sn = set_prev(sp, n, kind, p)
      BY <2>2 DEF sn
    <3>2. n \in Ids /\ sp.fund_by_id[n].balance > 0
      BY <1>9, <2>2 DEF LiveOrNone
    <3>3. /\ sn \in Store /\ sn.fund_max_id = sp.fund_max_id
          /\ sn.lists = sp.lists
          /\ sn.fund_by_id[n] = with_prev(sp.fund_by_id[n], kind, p)
          /\ \A k \in Ids \ {n} : sn.fund_by_id[k] = sp.fund_by_id[k]
      BY <3>1, <3>2, <1>1, <2>0, SetLink
    <3>4. ASSUME NEW k \in Ids
          PROVE  /\ SameEntry(sn.fund_by_id[k], sp.fund_by_id[k])
                 /\ sn.fund_by_id[k].next = sp.fund_by_id[k].next
                 /\ sn.fund_by_id[k].prev[kind] = prev_without(sp, kind, p, n, k)
                 /\ OtherLinks(sp.fund_by_id[k], sn.fund_by_id[k], kind)
      <4>1. CASE k = n
        <5>1. sp.fund_by_id[k] \in FundItem
          BY <2>0, StoreFields
        <5>2. sn.fund_by_id[k] = with_prev(sp.fund_by_id[k], kind, p)
              /\ prev_without(sp, kind, p, n, k) = p
          BY <3>3, <4>1, <2>2 DEF prev_without
        <5> QED BY <5>1, <5>2, <1>1, LinkIs
      <4>2. CASE k # n
        BY <3>3, <4>2 DEF OtherLinks, SameEntry, prev_without
      <4> QED BY <4>1, <4>2
    <3>5. sp.lists[key] = [sp.lists[key] EXCEPT !.last = @]
      BY <2>0 DEF FundList
    <3> QED BY <2>2, <3>3, <3>4, <3>5
  <2> QED BY <2>1, <2>2
<1>11. ASSUME NEW k \in Ids
       PROVE  /\ SameEntry(sn.fund_by_id[k], s.fund_by_id[k])
              /\ sn.fund_by_id[k].next[kind] = next_without(s, kind, p, n, k)
              /\ sn.fund_by_id[k].prev[kind] = prev_without(s, kind, p, n, k)
              /\ OtherLinks(s.fund_by_id[k], sn.fund_by_id[k], kind)
  <2>1. NextIs(s.fund_by_id[k], sp.fund_by_id[k], kind,
               next_without(s, kind, p, n, k))
    BY <1>8
  <2>2. /\ SameEntry(sn.fund_by_id[k], sp.fund_by_id[k])
        /\ sn.fund_by_id[k].next = sp.fund_by_id[k].next
        /\ sn.fund_by_id[k].prev[kind] = prev_without(sp, kind, p, n, k)
        /\ OtherLinks(sp.fund_by_id[k], sn.fund_by_id[k], kind)
    BY <1>10
  <2>3. prev_without(sp, kind, p, n, k) = prev_without(s, kind, p, n, k)
    BY <2>1 DEF NextIs, prev_without
  <2> QED BY <2>1, <2>2, <2>3 DEF NextIs, SameEntry, OtherLinks
<1>12. /\ sn.lists[key].first = IF p = 0 THEN n ELSE s.lists[key].first
       /\ sn.lists[key].last = IF n = 0 THEN p ELSE s.lists[key].last
       /\ sn.lists[key].total_balance = s.lists[key].total_balance
  <2>1. s.lists[key] \in FundList
    BY StoreFields
  <2> QED BY <1>8, <1>10, <2>1 DEF FundList
<1>13. Joined(s, sn, kind, key, p, n)
  <2>1. /\ sn \in Store /\ sn.fund_max_id = s.fund_max_id
        /\ \A k \in Keys \ {key} : sn.lists[k] = s.lists[k]
    BY <1>8, <1>10
  <2> QED BY <1>11, <1>12, <2>1 DEF Joined
<1>14. r = [s |-> r.s, item |-> r.item]
  BY <1>5
<1> QED BY <1>5, <1>6, <1>13, <1>14 DEF p, n

HasKeys(item) == \A kind \in Kinds : list_key(kind, item) \in Keys

IsKeyOf(key, item) == \E kind \in Kinds : key = list_key(kind, item)

(* change_totals changes the totals of the two lists of an item.           *)
LEMMA ChangeTotals ==
    ASSUME NEW s \in Store, NEW item \in FundItem, NEW amount \in Int,
           \A key \in Keys : IsKeyOf(key, item) =>
               s.lists[key].total_balance + amount \in Nat,
           NEW r, r = change_totals(s, item, amount)
    PROVE  /\ r \in Store /\ r.fund_by_id = s.fund_by_id
           /\ r.fund_max_id = s.fund_max_id
           /\ \A key \in Keys :
                 /\ r.lists[key].first = s.lists[key].first
                 /\ r.lists[key].last = s.lists[key].last
                 /\ IsKeyOf(key, item) => r.lists[key].total_balance
                                        = s.lists[key].total_balance + amount
                 /\ ~IsKeyOf(key, item) => r.lists[key] = s.lists[key]
<1> DEFINE new(key) == IF IsKeyOf(key, item)
                       THEN [s.lists[key] EXCEPT !.total_balance = @ + amount]
                       ELSE s.lists[key]
           lists == [key \in Keys |-> new(key)]
<1>1. r = [s EXCEPT !.lists = lists]
  BY DEF change_totals, IsKeyOf
<1>2. ASSUME NEW key \in Keys
      PROVE  /\ new(key) \in FundList
             /\ new(key).first = s.lists[key].first
             /\ new(key).last = s.lists[key].last
             /\ IsKeyOf(key, item) => new(key).total_balance
                                    = s.lists[key].total_balance + amount
             /\ ~IsKeyOf(key, item) => new(key) = s.lists[key]
  <2>1. s.lists[key] \in FundList
    BY StoreFields
  <2>2. CASE IsKeyOf(key, item)
    <3>1. s.lists[key].total_balance + amount \in Nat
      BY <2>2
    <3>2. new(key) = [s.lists[key] EXCEPT !.total_balance = @ + amount]
      BY <2>2
    <3> HIDE DEF new
    <3> QED BY <2>1, <2>2, <3>1, <3>2 DEF FundList
  <2>3. CASE ~IsKeyOf(key, item)
    BY <2>1, <2>3
  <2> QED BY <2>2, <2>3
<1> HIDE DEF new
<1>3. lists \in [Keys -> FundList] /\ \A key \in Keys : lists[key] = new(key)
  BY <1>2
<1> HIDE DEF lists
<1>4. /\ r \in Store /\ r.fund_by_id = s.fund_by_id
      /\ r.fund_max_id = s.fund_max_id /\ r.lists = lists
  BY <1>1, <1>3 DEF Store
<1> QED BY <1>2, <1>3, <1>4

(* r is s with another balance of the item id.                             *)
Rebalanced(s, r, id, b) ==
    /\ r \in Store /\ r.fund_max_id = s.fund_max_id
    /\ \A k \in Ids \ {id} : r.fund_by_id[k] = s.fund_by_id[k]
    /\ r.fund_by_id[id] = [s.fund_by_id[id] EXCEPT !.balance = b]
    /\ \A key \in Keys :
          /\ r.lists[key].first = s.lists[key].first
          /\ r.lists[key].last = s.lists[key].last
          /\ IsKeyOf(key, s.fund_by_id[id]) =>
                r.lists[key].total_balance
                  = s.lists[key].total_balance + (b - s.fund_by_id[id].balance)
          /\ ~IsKeyOf(key, s.fund_by_id[id]) => r.lists[key] = s.lists[key]

TotalsCover(s, id, b) ==
    \A key \in Keys : IsKeyOf(key, s.fund_by_id[id]) =>
        s.lists[key].total_balance + (b - s.fund_by_id[id].balance) \in Nat

(* Changing the totals before or after saving the item with its new        *)
(* balance.                                                                *)
LEMMA Rebalance ==
    ASSUME NEW s \in Store, NEW id \in Ids, NEW b \in Nat \ {0},
           TotalsCover(s, id, b)
    PROVE  LET item == s.fund_by_id[id]
               new  == [item EXCEPT !.balance = b]
               a    == b - item.balance
           IN  /\ Rebalanced(s, set_fund(change_totals(s, item, a), id, new),
                             id, b)
               /\ Rebalanced(s, change_totals(set_fund(s, id, new), item, a),
                             id, b)
<1> DEFINE item == s.fund_by_id[id]
           new  == [item EXCEPT !.balance = b]
           a    == b - item.balance
           t    == change_totals(s, item, a)
           f    == set_fund(s, id, new)
<1>1. item \in FundItem /\ new \in FundItem /\ new.balance = b /\ a \in Int
  BY StoreFields DEF FundItem
<1>2. saved(new) = new
  <2> HIDE DEF new
  <2> QED BY <1>1, SavedLive
<1>3. \A key \in Keys : IsKeyOf(key, item) =>
          s.lists[key].total_balance + a \in Nat
  BY DEF TotalsCover
<1>4. /\ f \in Store /\ f.fund_by_id[id] = new
      /\ \A k \in Ids \ {id} : f.fund_by_id[k] = s.fund_by_id[k]
      /\ f.fund_max_id = s.fund_max_id /\ f.lists = s.lists
  <2> HIDE DEF new
  <2> QED BY <1>1, <1>2, SetFund
<1> HIDE DEF f, t, a
<1> DEFINE SameTotals(r) ==
    \A key \in Keys :
        /\ r.lists[key].first = s.lists[key].first
        /\ r.lists[key].last = s.lists[key].last
        /\ IsKeyOf(key, item) => r.lists[key].total_balance
                                 = s.lists[key].total_balance + a
        /\ ~IsKeyOf(key, item) => r.lists[key] = s.lists[key]
<1>5. /\ t \in Store /\ t.fund_by_id = s.fund_by_id
      /\ t.fund_max_id = s.fund_max_id /\ SameTotals(t)
  <2> HIDE DEF item
  <2>1. t = change_totals(s, item, a)
    BY DEF t
  <2> QED BY <1>1, <1>3, <2>1, ChangeTotals
<1>6. /\ set_fund(t, id, new) \in Store
      /\ set_fund(t, id, new).fund_by_id[id] = new
      /\ \A k \in Ids \ {id} :
            set_fund(t, id, new).fund_by_id[k] = s.fund_by_id[k]
      /\ set_fund(t, id, new).fund_max_id = s.fund_max_id
      /\ SameTotals(set_fund(t, id, new))
  <2> HIDE DEF new, item
  <2> QED BY <1>1, <1>2, <1>5, SetFund
<1>7. Rebalanced(s, set_fund(t, id, new), id, b)
  BY <1>6 DEF Rebalanced, a
<1> DEFINE u == change_totals(f, item, a)
<1>8. /\ u \in Store /\ u.fund_by_id = f.fund_by_id
      /\ u.fund_max_id = f.fund_max_id /\ SameTotals(u)
  <2> HIDE DEF item, u
  <2>1. u = change_totals(f, item, a)
    BY DEF u
  <2>2. \A key \in Keys : IsKeyOf(key, item) =>
            f.lists[key].total_balance + a \in Nat
    BY <1>3, <1>4
  <2>3. /\ u \in Store /\ u.fund_by_id = f.fund_by_id
        /\ u.fund_max_id = f.fund_max_id
        /\ \A key \in Keys :
                 /\ u.lists[key].first = f.lists[key].first
                 /\ u.lists[key].last = f.lists[key].last
                 /\ IsKeyOf(key, item) => u.lists[key].total_balance
                                        = f.lists[key].total_balance + a
                 /\ ~IsKeyOf(key, item) => u.lists[key] = f.lists[key]
    BY <1>1, <1>4, <2>1, <2>2, ChangeTotals
  <2> QED BY <1>4, <2>3
<1> HIDE DEF u
<1>9. Rebalanced(s, u, id, b)
  BY <1>4, <1>8 DEF Rebalanced, a
<1> QED BY <1>7, <1>9 DEF t, f, a, u

(* In r the item id of s is in no list any more, and gone, respectively.   *)
CutOut(s, r, id) ==
    LET item == s.fund_by_id[id]
    IN  /\ r \in Store /\ r.fund_max_id = s.fund_max_id
        /\ \A k \in Ids \ {id} :
              /\ SameEntry(r.fund_by_id[k], s.fund_by_id[k])
              /\ \A kind \in Kinds :
                    LET p == item.prev[kind]
                        n == item.next[kind]
                    IN  /\ r.fund_by_id[k].next[kind]
                             = next_without(s, kind, p, n, k)
                        /\ r.fund_by_id[k].prev[kind]
                             = prev_without(s, kind, p, n, k)
        /\ \A kind \in Kinds :
              LET key == list_key(kind, item)
                  p == item.prev[kind]
                  n == item.next[kind]
              IN  /\ r.lists[key].first = IF p = 0 THEN n ELSE s.lists[key].first
                  /\ r.lists[key].last = IF n = 0 THEN p ELSE s.lists[key].last
                  /\ r.lists[key].total_balance
                       = s.lists[key].total_balance + (0 - item.balance)
        /\ \A key \in Keys : ~IsKeyOf(key, item) => r.lists[key] = s.lists[key]

Erased(s, r, id) == CutOut(s, r, id) /\ r.fund_by_id[id] = DefaultItem

LinksAreLive(s, id) ==
    \A kind \in Kinds : /\ LiveOrNone(s, s.fund_by_id[id].prev[kind])
                        /\ LiveOrNone(s, s.fund_by_id[id].next[kind])

(* delete_fund cuts the item out of its lists and leaves nothing of it to  *)
(* save.                                                                   *)
LEMMA DeleteFund ==
    ASSUME NEW s \in Store, NEW id \in Ids, HasKeys(s.fund_by_id[id]),
           TotalsCover(s, id, 0), LinksAreLive(s, id),
           NEW d, d = delete_fund(s, s.fund_by_id[id])
    PROVE  /\ CutOut(s, d.s, id)
           /\ d.item \in FundItem /\ d.item.balance = 0
           /\ saved(d.item) = DefaultItem
<1> DEFINE item == s.fund_by_id[id]
           s0   == change_totals(s, item, 0 - item.balance)
           r1   == delete_fund_from_list([s |-> s0, item |-> item], "type")
           r2   == delete_fund_from_list(r1, "user")
           kt   == list_key("type", item)
           ku   == list_key("user", item)
<1> "type" \in Kinds /\ "user" \in Kinds /\ Kinds = {"type", "user"}
    /\ "type" # "user"
  BY DEF Kinds
<1>1. d = [r2 EXCEPT !.item.balance = 0]
  BY DEF delete_fund
<1>2. item \in FundItem /\ kt \in Keys /\ ku \in Keys /\ item.balance \in Nat
  BY StoreFields, ItemFields DEF HasKeys
<1> HIDE DEF s0, r1, r2
<1>3. kt # ku
  <2> HIDE DEF item
  <2> QED BY <1>2, KindsApart
<1>4. /\ s0 \in Store /\ s0.fund_by_id = s.fund_by_id
      /\ s0.fund_max_id = s.fund_max_id
      /\ \A key \in Keys :
            /\ s0.lists[key].first = s.lists[key].first
            /\ s0.lists[key].last = s.lists[key].last
            /\ IsKeyOf(key, item) => s0.lists[key].total_balance
                                   = s.lists[key].total_balance + (0 - item.balance)
            /\ ~IsKeyOf(key, item) => s0.lists[key] = s.lists[key]
  <2>1. \A key \in Keys : IsKeyOf(key, item) =>
            s.lists[key].total_balance + (0 - item.balance) \in Nat
    BY DEF TotalsCover
  <2> DEFINE a == 0 - item.balance
  <2>2. a \in Int /\ s0 = change_totals(s, item, a)
    BY <1>2 DEF s0
  <2> HIDE DEF a, item
  <2>3. \A key \in Keys : IsKeyOf(key, item) =>
            s.lists[key].total_balance + a \in Nat
    BY <2>1 DEF a
  <2>4. /\ s0 \in Store /\ s0.fund_by_id = s.fund_by_id
        /\ s0.fund_max_id = s.fund_max_id
        /\ \A key \in Keys :
            /\ s0.lists[key].first = s.lists[key].first
            /\ s0.lists[key].last = s.lists[key].last
            /\ IsKeyOf(key, item) => s0.lists[key].total_balance
                                   = s.lists[key].total_balance + a
            /\ ~IsKeyOf(key, item) => s0.lists[key] = s.lists[key]
    BY <1>2, <2>2, <2>3, ChangeTotals
  <2> QED BY <2>4 DEF a
<1> DEFINE pt == item.prev["type"]
           nt == item.next["type"]
           pu == item.prev["user"]
           nu == item.next["user"]
<1>5. /\ LiveOrNone(s, pt) /\ LiveOrNone(s, nt)
      /\ LiveOrNone(s, pu) /\ LiveOrNone(s, nu)
  BY DEF LinksAreLive
<1> HIDE DEF kt, ku, item
<1>6. LiveOrNone(s0, pt) /\ LiveOrNone(s0, nt)
  BY <1>4, <1>5 DEF LiveOrNone
<1>7. /\ Joined(s0, r1.s, "type", kt, pt, nt)
      /\ r1.item \in FundItem /\ SameEntry(r1.item, item)
      /\ r1.item.next["type"] = 0 /\ r1.item.prev["type"] = 0
      /\ OtherLinks(item, r1.item, "type")
      /\ r1 = [s |-> r1.s, item |-> r1.item]
  <2>1. r1 = delete_fund_from_list([s |-> s0, item |-> item], "type")
        /\ kt = list_key("type", item)
    BY DEF r1, kt
  <2> QED BY <1>2, <1>4, <1>6, <2>1, Unlink
<1> HIDE DEF pt, nt, pu, nu
<1>8. /\ r1.s \in Store /\ list_key("user", r1.item) = ku
      /\ r1.item.prev["user"] = pu /\ r1.item.next["user"] = nu
  BY <1>7 DEF Joined, OtherLinks, SameEntry, list_key, ku, pu, nu
<1>9. LiveOrNone(r1.s, pu) /\ LiveOrNone(r1.s, nu)
  <2>1. \A k \in Ids : r1.s.fund_by_id[k].balance = s0.fund_by_id[k].balance
    BY <1>7 DEF Joined, SameEntry
  <2> QED BY <2>1, <1>4, <1>5 DEF LiveOrNone
<1>10. /\ Joined(r1.s, r2.s, "user", ku, pu, nu)
       /\ r2.item \in FundItem /\ SameEntry(r2.item, r1.item)
       /\ r2.item.next["user"] = 0 /\ r2.item.prev["user"] = 0
       /\ OtherLinks(r1.item, r2.item, "user")
       /\ r2 = [s |-> r2.s, item |-> r2.item]
  <2>2. r2 = delete_fund_from_list([s |-> r1.s, item |-> r1.item], "user")
    BY <1>7 DEF r2
  <2> DEFINE s1 == r1.s
             item1 == r1.item
  <2>3. /\ s1 \in Store /\ item1 \in FundItem /\ ku = list_key("user", item1)
        /\ item1.prev["user"] = pu /\ item1.next["user"] = nu
        /\ LiveOrNone(s1, pu) /\ LiveOrNone(s1, nu)
        /\ r2 = delete_fund_from_list([s |-> s1, item |-> item1], "user")
    BY <2>2, <1>7, <1>8, <1>9
  <2> HIDE DEF s1, item1
  <2>4. /\ Joined(s1, r2.s, "user", ku, pu, nu)
        /\ r2.item \in FundItem /\ SameEntry(r2.item, item1)
        /\ r2.item.next["user"] = 0 /\ r2.item.prev["user"] = 0
        /\ OtherLinks(item1, r2.item, "user")
        /\ r2 = [s |-> r2.s, item |-> r2.item]
    BY <1>2, <2>3, Unlink
  <2> QED BY <2>4 DEF s1, item1
<1>11. d.s = r2.s /\ d.item = [r2.item EXCEPT !.balance = 0]
  BY <1>1, <1>10
<1>12. /\ d.item \in FundItem /\ d.item.balance = 0
       /\ d.item.next = NoLinks /\ d.item.prev = NoLinks
  <2>1. /\ r2.item.next["type"] = 0 /\ r2.item.prev["type"] = 0
        /\ r2.item.next["user"] = 0 /\ r2.item.prev["user"] = 0
    BY <1>7, <1>10 DEF OtherLinks
  <2>2. r2.item.next = NoLinks /\ r2.item.prev = NoLinks
    <3>1. r2.item.next \in [Kinds -> Nat] /\ r2.item.prev \in [Kinds -> Nat]
      BY <1>10, ItemFields
    <3> QED BY <2>1, <3>1 DEF NoLinks
  <2> QED BY <1>10, <1>11, <2>2 DEF FundItem
<1>13. saved(d.item) = DefaultItem
  BY <1>12 DEF saved
<1>14. /\ r1.s.lists[ku] = s0.lists[ku] /\ r2.s.lists[kt] = r1.s.lists[kt]
       /\ \A key \in Keys : key # kt /\ key # ku => r2.s.lists[key] = s0.lists[key]
  <2>1. \A k \in Keys \ {kt} : r1.s.lists[k] = s0.lists[k]
    BY <1>7 DEF Joined
  <2>2. \A k \in Keys \ {ku} : r2.s.lists[k] = r1.s.lists[k]
    BY <1>10 DEF Joined
  <2> QED BY <1>2, <1>3, <2>1, <2>2
<1>15. \A key : IsKeyOf(key, item) <=> key = kt \/ key = ku
  BY DEF IsKeyOf, kt, ku
<1>16. /\ r2.s \in Store /\ r2.s.fund_max_id = s.fund_max_id
  BY <1>4, <1>7, <1>10 DEF Joined
<1>17. ASSUME NEW k \in Ids
       PROVE  /\ SameEntry(r2.s.fund_by_id[k], s.fund_by_id[k])
              /\ r2.s.fund_by_id[k].next["type"]
                    = next_without(s, "type", pt, nt, k)
              /\ r2.s.fund_by_id[k].prev["type"]
                    = prev_without(s, "type", pt, nt, k)
              /\ r2.s.fund_by_id[k].next["user"]
                    = next_without(s, "user", pu, nu, k)
              /\ r2.s.fund_by_id[k].prev["user"]
                    = prev_without(s, "user", pu, nu, k)
  <2> DEFINE x == s0.fund_by_id[k]
             y == r1.s.fund_by_id[k]
             z == r2.s.fund_by_id[k]
  <2>1. /\ SameEntry(y, x) /\ OtherLinks(x, y, "type")
        /\ y.next["type"] = next_without(s0, "type", pt, nt, k)
        /\ y.prev["type"] = prev_without(s0, "type", pt, nt, k)
    BY <1>7 DEF Joined
  <2>2. /\ SameEntry(z, y) /\ OtherLinks(y, z, "user")
        /\ z.next["user"] = next_without(r1.s, "user", pu, nu, k)
        /\ z.prev["user"] = prev_without(r1.s, "user", pu, nu, k)
    BY <1>10 DEF Joined
  <2>3. /\ next_without(r1.s, "user", pu, nu, k)
           = next_without(s0, "user", pu, nu, k)
        /\ prev_without(r1.s, "user", pu, nu, k)
           = prev_without(s0, "user", pu, nu, k)
    BY <2>1 DEF next_without, prev_without, OtherLinks
  <2>4. /\ next_without(s0, "user", pu, nu, k) = next_without(s, "user", pu, nu, k)
        /\ prev_without(s0, "user", pu, nu, k) = prev_without(s, "user", pu, nu, k)
        /\ next_without(s0, "type", pt, nt, k) = next_without(s, "type", pt, nt, k)
        /\ prev_without(s0, "type", pt, nt, k) = prev_without(s, "type", pt, nt, k)
        /\ s.fund_by_id[k] = x
    BY <1>4 DEF next_without, prev_without
  <2> HIDE DEF x, y, z
  <2>5. SameEntry(z, x) /\ z.next["type"] = y.next["type"]
        /\ z.prev["type"] = y.prev["type"]
    BY <2>1, <2>2 DEF SameEntry, OtherLinks
  <2>6. z = r2.s.fund_by_id[k]
    BY DEF z
  <2> QED BY <2>1, <2>2, <2>3, <2>4, <2>5, <2>6
<1>18. /\ r2.s.lists[kt].first = IF pt = 0 THEN nt ELSE s.lists[kt].first
       /\ r2.s.lists[kt].last = IF nt = 0 THEN pt ELSE s.lists[kt].last
       /\ r2.s.lists[kt].total_balance
             = s.lists[kt].total_balance + (0 - item.balance)
  <2>1. /\ r1.s.lists[kt].first = IF pt = 0 THEN nt ELSE s0.lists[kt].first
        /\ r1.s.lists[kt].last = IF nt = 0 THEN pt ELSE s0.lists[kt].last
        /\ r1.s.lists[kt].total_balance = s0.lists[kt].total_balance
    BY <1>7 DEF Joined
  <2>2. /\ s0.lists[kt].first = s.lists[kt].first
        /\ s0.lists[kt].last = s.lists[kt].last
        /\ s0.lists[kt].total_balance
             = s.lists[kt].total_balance + (0 - item.balance)
    BY <1>2, <1>4, <1>15
  <2> QED BY <2>1, <2>2, <1>14
<1>19. /\ r2.s.lists[ku].first = IF pu = 0 THEN nu ELSE s.lists[ku].first
       /\ r2.s.lists[ku].last = IF nu = 0 THEN pu ELSE s.lists[ku].last
       /\ r2.s.lists[ku].total_balance
             = s.lists[ku].total_balance + (0 - item.balance)
  <2>1. /\ r2.s.lists[ku].first = IF pu = 0 THEN nu ELSE r1.s.lists[ku].first
        /\ r2.s.lists[ku].last = IF nu = 0 THEN pu ELSE r1.s.lists[ku].last
        /\ r2.s.lists[ku].total_balance = r1.s.lists[ku].total_balance
    BY <1>10 DEF Joined
  <2>2. /\ s0.lists[ku].first = s.lists[ku].first
        /\ s0.lists[ku].last = s.lists[ku].last
        /\ s0.lists[ku].total_balance
             = s.lists[ku].total_balance + (0 - item.balance)
    BY <1>2, <1>4, <1>15
  <2> QED BY <2>1, <2>2, <1>14
<1>20. \A key \in Keys : ~IsKeyOf(key, item) => r2.s.lists[key] = s.lists[key]
  BY <1>4, <1>14, <1>15
<1>21. ASSUME NEW k \in Ids, NEW kind \in Kinds
       PROVE  /\ r2.s.fund_by_id[k].next[kind]
                 = next_without(s, kind, item.prev[kind], item.next[kind], k)
              /\ r2.s.fund_by_id[k].prev[kind]
                 = prev_without(s, kind, item.prev[kind], item.next[kind], k)
  BY <1>17 DEF pt, nt, pu, nu
<1>22. ASSUME NEW kind \in Kinds, NEW key, key = list_key(kind, item),
              NEW p, p = item.prev[kind], NEW n, n = item.next[kind]
       PROVE  /\ r2.s.lists[key].first = IF p = 0 THEN n ELSE s.lists[key].first
              /\ r2.s.lists[key].last = IF n = 0 THEN p ELSE s.lists[key].last
              /\ r2.s.lists[key].total_balance
                    = s.lists[key].total_balance + (0 - item.balance)
  <2>1. CASE kind = "type"
    BY <2>1, <1>18, <1>22 DEF pt, nt, kt
  <2>2. CASE kind = "user"
    BY <2>2, <1>19, <1>22 DEF pu, nu, ku
  <2> QED BY <2>1, <2>2
<1>23. \A k \in Ids : SameEntry(r2.s.fund_by_id[k], s.fund_by_id[k])
  BY <1>17
<1>24. CutOut(s, r2.s, id)
  BY <1>16, <1>20, <1>21, <1>22, <1>23 DEF CutOut, item
<1> QED BY <1>11, <1>12, <1>13, <1>24

-----------------------------------------------------------------------------
(* Sums of balances *)

share(s, ids, id) == IF id \in ids THEN s.fund_by_id[id].balance ELSE 0

shares(s, ids) == [id \in 1 .. 2 * MaxId |-> share(s, ids, id)]

(* sum_of is a sum of naturals.                                            *)
LEMMA SumOfShares ==
    ASSUME NEW s \in Store, NEW ids
    PROVE  /\ sum_of(s, ids) = P!SumTo(shares(s, ids), 2 * MaxId)
           /\ 2 * MaxId \in Nat
           /\ \A id \in 1 .. 2 * MaxId : /\ id \in Ids
                                         /\ shares(s, ids)[id] = share(s, ids, id)
                                         /\ share(s, ids, id) \in Nat
<1>1. 2 * MaxId \in Nat
  BY FundModuleAssumption
<1>2. sum_of(s, ids) = P!SumTo(shares(s, ids), 2 * MaxId)
  BY DEF sum_of, shares, share, P!SumTo, B!SumTo
<1>3. ASSUME NEW id \in 1 .. 2 * MaxId
      PROVE  /\ id \in Ids /\ shares(s, ids)[id] = share(s, ids, id)
             /\ share(s, ids, id) \in Nat
  <2>1. id \in Ids
    BY <1>1 DEF Ids
  <2>2. s.fund_by_id[id].balance \in Nat
    BY <2>1, StoreFields, ItemFields
  <2> QED BY <2>1, <2>2 DEF shares, share
<1> QED BY <1>1, <1>2, <1>3

(* No balance exceeds the sum.                                             *)
LEMMA SumOfMember ==
    ASSUME NEW s \in Store, NEW ids
    PROVE  /\ sum_of(s, ids) \in Nat
           /\ \A id \in 1 .. 2 * MaxId :
                 id \in ids => s.fund_by_id[id].balance <= sum_of(s, ids)
<1> DEFINE f == shares(s, ids)
           n == 2 * MaxId
<1>1. /\ n \in Nat /\ sum_of(s, ids) = P!SumTo(f, n)
      /\ \A id \in 1 .. n : f[id] = share(s, ids, id) /\ f[id] \in Nat
  BY SumOfShares
<1> HIDE DEF f, n
<1>2. P!SumTo(f, n) \in Nat
  BY <1>1, P!SumNat, U64IsPositive
<1>3. ASSUME NEW id \in 1 .. n, id \in ids
      PROVE  s.fund_by_id[id].balance <= P!SumTo(f, n)
  <2>1. f[id] <= P!SumTo(f, n)
    BY <1>1, P!SumMember, U64IsPositive
  <2> QED BY <1>1, <1>3, <2>1 DEF share
<1> QED BY <1>1, <1>2, <1>3 DEF n

(* The sum of no items is zero.                                            *)
LEMMA SumOfNone ==
    ASSUME NEW s \in Store PROVE sum_of(s, {}) = 0
<1> DEFINE f == shares(s, {})
           n == 2 * MaxId
<1>1. /\ n \in Nat /\ sum_of(s, {}) = P!SumTo(f, n)
      /\ \A id \in 1 .. n : f[id] = 0
  BY SumOfShares DEF share
<1> HIDE DEF f, n
<1> QED BY <1>1, P!SumOfZeros, U64IsPositive

(* The same balances have the same sum.                                    *)
LEMMA SumOfSame ==
    ASSUME NEW s \in Store, NEW r \in Store, NEW ids, NEW others,
           \A k \in 1 .. 2 * MaxId : share(s, ids, k) = share(r, others, k)
    PROVE  sum_of(r, others) = sum_of(s, ids)
<1> DEFINE f == shares(s, ids)
           g == shares(r, others)
           n == 2 * MaxId
<1>1. /\ n \in Nat /\ sum_of(s, ids) = P!SumTo(f, n)
      /\ sum_of(r, others) = P!SumTo(g, n)
      /\ \A k \in 1 .. n : g[k] = f[k]
  BY SumOfShares
<1> HIDE DEF f, g, n
<1>2. P!SumTo(g, n) = P!SumTo(f, n)
  BY <1>1, P!SumSame, U64IsPositive
<1> QED BY <1>1, <1>2

(* One different balance makes the difference of the sums.                 *)
LEMMA SumOfPoint ==
    ASSUME NEW s \in Store, NEW r \in Store, NEW ids, NEW others,
           NEW id \in 1 .. 2 * MaxId,
           \A k \in 1 .. 2 * MaxId :
               k # id => share(s, ids, k) = share(r, others, k)
    PROVE  sum_of(r, others)
             = sum_of(s, ids) + (share(r, others, id) - share(s, ids, id))
<1> DEFINE f == shares(s, ids)
           g == shares(r, others)
           n == 2 * MaxId
<1>1. /\ n \in Nat /\ sum_of(s, ids) = P!SumTo(f, n)
      /\ sum_of(r, others) = P!SumTo(g, n)
      /\ \A k \in 1 .. n : f[k] \in Nat /\ g[k] \in Nat
      /\ \A k \in 1 .. n : k # id => f[k] = g[k]
      /\ f[id] = share(s, ids, id) /\ g[id] = share(r, others, id)
      /\ id \in 1 .. n
  BY SumOfShares
<1> HIDE DEF f, g, n
<1>2. P!SumTo(g, n) = P!SumTo(f, n) + g[id] - f[id]
  BY <1>1, P!SumPoint, U64IsPositive
<1>3. P!SumTo(f, n) \in Nat /\ f[id] \in Nat /\ g[id] \in Nat
  BY <1>1, P!SumNat, U64IsPositive
<1> QED BY <1>1, <1>2, <1>3

-----------------------------------------------------------------------------
(* Consistent stores *)

Mem(s, kind, key) ==
    { id \in Ids \ {0} : /\ s.fund_by_id[id].balance > 0
                         /\ list_key(kind, s.fund_by_id[id]) = key }

ListOK(s, kind, key) ==
    LET M == Mem(s, kind, key)
    IN  /\ IsNext(M, 0, s.lists[key].first)
        /\ IsLast(M, s.lists[key].last)
        /\ s.lists[key].total_balance = sum_of(s, M)
        /\ \A id \in M : /\ IsNext(M, id, s.fund_by_id[id].next[kind])
                         /\ IsPrev(M, id, s.fund_by_id[id].prev[kind])

ItemOK(s, id) == \/ s.fund_by_id[id] = DefaultItem
                 \/ /\ id \in 1 .. s.fund_max_id
                    /\ s.fund_by_id[id].balance > 0
                    /\ s.fund_by_id[id].user_id \in 1 .. NumUsers

(* The keys of the lists of a kind.                                        *)
KeysOf(kind) == { key \in Keys : (kind = "type") = (key[1] = AnyUser) }

Good(s) ==
    /\ s \in Store
    /\ \A kind \in Kinds : \A key \in KeysOf(kind) : ListOK(s, kind, key)
    /\ \A id \in Ids : ItemOK(s, id)

Live(s, id) == id \in Ids /\ s.fund_by_id[id].balance > 0

(* Every key is one of a list of some kind.                                *)
LEMMA KindOfKey ==
    ASSUME NEW key \in Keys PROVE \E kind \in Kinds : key \in KeysOf(kind)
BY DEF KeysOf, Kinds

(* The members of a list are ids of live items.                            *)
LEMMA MemberIs ==
    ASSUME NEW s, NEW kind, NEW key
    PROVE  /\ Mem(s, kind, key) \in SUBSET (Nat \ {0})
           /\ \A id : id \in Mem(s, kind, key) <=>
                         /\ Live(s, id) /\ id # 0
                         /\ list_key(kind, s.fund_by_id[id]) = key
BY DEF Mem, Live, Ids

(* A live item is a member of its two lists.                               *)
LEMMA GoodItem ==
    ASSUME NEW s, Good(s), NEW id, Live(s, id)
    PROVE  LET item == s.fund_by_id[id]
           IN  /\ item \in FundItem /\ item.user_id \in 1 .. NumUsers
               /\ id \in 1 .. s.fund_max_id /\ id \in 1 .. 2 * MaxId
               /\ HasKeys(item)
               /\ \A kind \in Kinds :
                     /\ list_key(kind, item) \in KeysOf(kind)
                     /\ id \in Mem(s, kind, list_key(kind, item))
                     /\ ListOK(s, kind, list_key(kind, item))
<1> DEFINE item == s.fund_by_id[id]
<1>1. id \in Ids /\ item \in FundItem /\ item.balance > 0 /\ s \in Store
  BY StoreFields DEF Good, Live
<1>2. item.user_id \in 1 .. NumUsers /\ id \in 1 .. s.fund_max_id
  <2>1. ItemOK(s, id) /\ item # DefaultItem
    BY <1>1 DEF Good, DefaultItem
  <2> QED BY <2>1 DEF ItemOK
<1>3. id \in 1 .. 2 * MaxId /\ id # 0
  BY <1>1, <1>2, FundModuleAssumption, StoreFields DEF Ids
<1>4. ASSUME NEW kind \in Kinds
      PROVE  /\ list_key(kind, item) \in Keys
             /\ list_key(kind, item) \in KeysOf(kind)
             /\ id \in Mem(s, kind, list_key(kind, item))
             /\ ListOK(s, kind, list_key(kind, item))
  <2>1. list_key(kind, item) \in Keys
    <3>1. item.user_id \in 0 .. NumUsers
      BY <1>2, FundModuleAssumption
    <3> HIDE DEF item
    <3> QED BY <1>1, <3>1, KeyOf
  <2>2. list_key(kind, item)[1] = AnyUser <=> kind = "type"
    BY <1>2, FundModuleAssumption DEF list_key, AnyUser
  <2>3. list_key(kind, item) \in KeysOf(kind)
    <3> HIDE DEF item
    <3> QED BY <2>1, <2>2 DEF KeysOf
  <2>4. id \in Mem(s, kind, list_key(kind, item))
    BY <1>1, <1>3 DEF Mem
  <2> HIDE DEF item
  <2> QED BY <2>1, <2>3, <2>4 DEF Good
<1> QED BY <1>1, <1>2, <1>3, <1>4 DEF HasKeys

(* The parts of a consistent list.                                         *)
LEMMA ListParts ==
    ASSUME NEW s \in Store, NEW kind, NEW key \in Keys, ListOK(s, kind, key),
           NEW M, M = Mem(s, kind, key)
    PROVE  /\ M \in SUBSET (Nat \ {0})
           /\ IsNext(M, 0, s.lists[key].first)
           /\ IsLast(M, s.lists[key].last)
           /\ s.lists[key].total_balance = sum_of(s, M)
           /\ \A id \in M : /\ IsNext(M, id, s.fund_by_id[id].next[kind])
                            /\ IsPrev(M, id, s.fund_by_id[id].prev[kind])
           /\ s.lists[key].first \in Nat /\ s.lists[key].last \in Nat
           /\ s.lists[key].total_balance \in Nat
<1>1. M \in SUBSET (Nat \ {0})
  BY MemberIs
<1>2. s.lists[key] \in FundList
  BY StoreFields
<1> QED BY <1>1, <1>2, ListFields DEF ListOK

(* Every list of a consistent store ends with a live item.                 *)
LEMMA GoodEnd ==
    ASSUME NEW s, Good(s), NEW key \in Keys
    PROVE  /\ EndIsLive(s, key)
           /\ \A kind \in Kinds : key \in KeysOf(kind) =>
                 \/ s.lists[key].last = 0
                 \/ s.lists[key].last \in Mem(s, kind, key)
<1>1. s \in Store
  BY DEF Good
<1>2. ASSUME NEW kind \in Kinds, key \in KeysOf(kind)
      PROVE  /\ EndIsLive(s, key)
             /\ s.lists[key].last = 0 \/ s.lists[key].last \in Mem(s, kind, key)
  <2> DEFINE M == Mem(s, kind, key)
             last == s.lists[key].last
  <2>1. ListOK(s, kind, key)
    BY <1>2 DEF Good
  <2> HIDE DEF M
  <2>2. M = Mem(s, kind, key)
    BY DEF M
  <2>3. /\ IsNext(M, 0, s.lists[key].first) /\ IsLast(M, last)
        /\ s.lists[key].total_balance = sum_of(s, M)
    BY <1>1, <2>1, <2>2, ListParts
  <2>4. CASE last \in M
    <3>1. Live(s, last) /\ last # 0
      BY <2>2, <2>4, MemberIs
    <3> QED BY <2>2, <2>4, <3>1 DEF EndIsLive, Live
  <2>5. CASE last = 0 /\ M = {}
    <3>1. s.lists[key].total_balance = 0
      BY <1>1, <2>3, <2>5, SumOfNone
    <3>2. s.lists[key].first = 0
      BY <2>3, <2>5 DEF IsNext
    <3>3. s.lists[key] \in FundList
      BY <1>1, StoreFields
    <3>4. s.lists[key] = DefaultList
      BY <2>5, <3>1, <3>2, <3>3 DEF FundList, DefaultList
    <3> QED BY <2>5, <3>4 DEF EndIsLive
  <2> QED BY <2>3, <2>4, <2>5 DEF IsLast
<1> QED BY <1>2, KindOfKey

(* The links of a live item lead to live items or nowhere.                 *)
LEMMA GoodLinks ==
    ASSUME NEW s, Good(s), NEW id, Live(s, id)
    PROVE  LinksAreLive(s, id)
<1>1. SUFFICES ASSUME NEW kind \in Kinds
               PROVE  /\ LiveOrNone(s, s.fund_by_id[id].prev[kind])
                      /\ LiveOrNone(s, s.fund_by_id[id].next[kind])
  BY DEF LinksAreLive
<1> DEFINE key == list_key(kind, s.fund_by_id[id])
           M   == Mem(s, kind, key)
<1>2. id \in M /\ ListOK(s, kind, key)
  BY GoodItem
<1>3. /\ IsNext(M, id, s.fund_by_id[id].next[kind])
      /\ IsPrev(M, id, s.fund_by_id[id].prev[kind])
  BY <1>2 DEF ListOK
<1>4. \A k \in M : k \in Ids /\ s.fund_by_id[k].balance > 0
  BY DEF Mem
<1> HIDE DEF M
<1> QED BY <1>3, <1>4 DEF IsNext, IsPrev, LiveOrNone

(* The totals of the lists of an item cover its balance.                   *)
LEMMA GoodTotals ==
    ASSUME NEW s, Good(s), NEW id, Live(s, id), NEW b \in Nat
    PROVE  TotalsCover(s, id, b)
<1> DEFINE item == s.fund_by_id[id]
<1>1. SUFFICES ASSUME NEW kind \in Kinds, NEW key \in Keys,
                      key = list_key(kind, item)
               PROVE  s.lists[key].total_balance + (b - item.balance) \in Nat
  BY DEF TotalsCover, IsKeyOf
<1> DEFINE M == Mem(s, kind, key)
<1>2. id \in M /\ ListOK(s, kind, key) /\ id \in 1 .. 2 * MaxId
      /\ item \in FundItem /\ s \in Store
  BY <1>1, GoodItem DEF Good
<1>3. item.balance <= sum_of(s, M) /\ sum_of(s, M) \in Nat
  <2> HIDE DEF M
  <2> QED BY <1>2, SumOfMember
<1>4. s.lists[key].total_balance = sum_of(s, M)
  BY <1>2 DEF ListOK
<1>5. item.balance \in Nat
  BY <1>2, ItemFields
<1> HIDE DEF M, item
<1> QED BY <1>3, <1>4, <1>5

(* A consistent store stays so when an item is erased.                     *)
LEMMA GoodErased ==
    ASSUME NEW s, Good(s), NEW id, Live(s, id), NEW r, Erased(s, r, id)
    PROVE  Good(r)
<1> DEFINE item == s.fund_by_id[id]
<1>1. /\ s \in Store /\ r \in Store /\ id \in Ids /\ id \in 1 .. 2 * MaxId
      /\ item \in FundItem /\ r.fund_max_id = s.fund_max_id
      /\ r.fund_by_id[id] = DefaultItem /\ item.balance \in Nat
  BY GoodItem, ItemFields DEF Good, Erased, CutOut, Live
<1>2. \A k \in Ids \ {id} : SameEntry(r.fund_by_id[k], s.fund_by_id[k])
  BY DEF Erased, CutOut
<1>3. ASSUME NEW k \in Ids PROVE ItemOK(r, k)
  <2>1. CASE k = id
    BY <1>1, <2>1 DEF ItemOK
  <2>2. CASE k # id /\ s.fund_by_id[k].balance > 0
    <3>1. ItemOK(s, k) /\ s.fund_by_id[k] # DefaultItem
      BY <2>2 DEF Good, DefaultItem
    <3> QED BY <1>1, <1>2, <2>2, <3>1 DEF ItemOK, SameEntry
  <2>3. CASE k # id /\ ~(s.fund_by_id[k].balance > 0)
    <3>1. s.fund_by_id[k] = DefaultItem
      BY <2>3 DEF Good, ItemOK
    <3>2. \A kind \in Kinds : LiveOrNone(s, item.prev[kind])
                              /\ LiveOrNone(s, item.next[kind])
      BY GoodLinks DEF LinksAreLive
    <3>3. \A kind \in Kinds : /\ r.fund_by_id[k].next[kind] = 0
                              /\ r.fund_by_id[k].prev[kind] = 0
      <4>1. \A kind \in Kinds :
               /\ r.fund_by_id[k].next[kind]
                    = next_without(s, kind, item.prev[kind], item.next[kind], k)
               /\ r.fund_by_id[k].prev[kind]
                    = prev_without(s, kind, item.prev[kind], item.next[kind], k)
        BY <2>3 DEF Erased, CutOut
      <4>2. ASSUME NEW kind \in Kinds
            PROVE  /\ r.fund_by_id[k].next[kind] = s.fund_by_id[k].next[kind]
                   /\ r.fund_by_id[k].prev[kind] = s.fund_by_id[k].prev[kind]
        BY <2>3, <3>2, <4>1 DEF next_without, prev_without, LiveOrNone
      <4> QED BY <3>1, <4>2 DEF DefaultItem, NoLinks
    <3>4. r.fund_by_id[k] \in FundItem /\ SameEntry(r.fund_by_id[k], DefaultItem)
      BY <1>1, <1>2, <2>3, <3>1, StoreFields
    <3>5. r.fund_by_id[k] = DefaultItem
      <4> DEFINE x == r.fund_by_id[k]
      <4>1. x.next \in [Kinds -> Nat] /\ x.prev \in [Kinds -> Nat]
        BY <3>4, ItemFields
      <4> HIDE DEF x
      <4>2. x.next = NoLinks /\ x.prev = NoLinks
        BY <3>3, <4>1 DEF NoLinks, x
      <4>3. x \in FundItem /\ SameEntry(x, DefaultItem)
        BY <3>4 DEF x
      <4> QED BY <4>2, <4>3 DEF FundItem, SameEntry, DefaultItem, x
    <3> QED BY <3>5 DEF ItemOK
  <2> QED BY <2>1, <2>2, <2>3
<1>4. ASSUME NEW kind \in Kinds, NEW key \in KeysOf(kind)
      PROVE  ListOK(r, kind, key)
  <2> DEFINE M == Mem(s, kind, key)
             N == Mem(r, kind, key)
             p == item.prev[kind]
             n == item.next[kind]
  <2>1. key \in Keys /\ ListOK(s, kind, key)
    BY DEF Good, KeysOf
  <2>2. /\ M \in SUBSET (Nat \ {0})
        /\ IsNext(M, 0, s.lists[key].first) /\ IsLast(M, s.lists[key].last)
        /\ s.lists[key].total_balance = sum_of(s, M)
        /\ \A k \in M : /\ IsNext(M, k, s.fund_by_id[k].next[kind])
                        /\ IsPrev(M, k, s.fund_by_id[k].prev[kind])
        /\ s.lists[key].first \in Nat /\ s.lists[key].last \in Nat
        /\ s.lists[key].total_balance \in Nat
    <3> HIDE DEF M
    <3>1. M = Mem(s, kind, key)
      BY DEF M
    <3> QED BY <1>1, <2>1, <3>1, ListParts
  <2>3. p \in Nat /\ n \in Nat
    BY <1>1, ItemFields
  <2>4. ASSUME NEW k
        PROVE  k \in N <=> k \in M /\ k # id
    <3>1. CASE k \in Ids /\ k # id
      <4>1. SameEntry(r.fund_by_id[k], s.fund_by_id[k])
        BY <1>2, <3>1
      <4> QED BY <3>1, <4>1 DEF Mem, SameEntry, list_key
    <3>2. CASE k = id
      BY <1>1, <3>2 DEF Mem, DefaultItem
    <3>3. CASE k \notin Ids
      BY <3>3 DEF Mem
    <3> QED BY <3>1, <3>2, <3>3
  <2>5. N = M \ {id}
    <3> HIDE DEF M, N
    <3> QED BY <2>4
  <2>6. ASSUME NEW k \in N
        PROVE  k \in Ids /\ k # 0 /\ k # id /\ k \in M
    BY <2>4 DEF Mem
  <2>7. ASSUME NEW k \in Ids \ {id}
        PROVE  /\ r.fund_by_id[k].next[kind] = next_without(s, kind, p, n, k)
               /\ r.fund_by_id[k].prev[kind] = prev_without(s, kind, p, n, k)
    BY DEF Erased, CutOut
  <2>8. \A k \in N : share(s, M, k) = share(r, N, k)
    <3>1. ASSUME NEW k \in N PROVE share(s, M, k) = share(r, N, k)
      BY <1>2, <2>6 DEF SameEntry, share
    <3> QED BY <3>1
  <2>9. CASE id \in M
    <3>1. key = list_key(kind, item)
      BY <2>9 DEF Mem
    <3>2. IsPrev(M, id, p) /\ IsNext(M, id, n)
      BY <2>2, <2>9
    <3>3. /\ r.lists[key].first = IF p = 0 THEN n ELSE s.lists[key].first
          /\ r.lists[key].last = IF n = 0 THEN p ELSE s.lists[key].last
          /\ r.lists[key].total_balance
                = s.lists[key].total_balance + (0 - item.balance)
      BY <3>1 DEF Erased, CutOut
    <3> HIDE DEF M, N, p, n
    <3>4. ASSUME NEW k \in N PROVE IsNext(N, k, r.fund_by_id[k].next[kind])
      <4>1. k \in (M \ {id}) \cup {0} /\ k \in M /\ k # 0 /\ k \in Ids \ {id}
        BY <2>6
      <4> DEFINE j == s.fund_by_id[k].next[kind]
      <4>2. IsNext(M, k, j) /\ j \in Nat
        BY <1>1, <2>2, <4>1, StoreFields, ItemFields
      <4>3. r.fund_by_id[k].next[kind] = IF k = p THEN n ELSE j
        BY <2>7, <4>1 DEF next_without
      <4> HIDE DEF j
      <4>4. IsNext(M \ {id}, k, IF k = p THEN n ELSE j)
        BY <2>2, <2>3, <2>9, <3>2, <4>1, <4>2, RemoveNext
      <4> QED BY <2>5, <4>3, <4>4
    <3>5. ASSUME NEW k \in N PROVE IsPrev(N, k, r.fund_by_id[k].prev[kind])
      <4>1. k \in M \ {id} /\ k \in M /\ k # 0 /\ k \in Ids \ {id}
        BY <2>6
      <4> DEFINE j == s.fund_by_id[k].prev[kind]
      <4>2. IsPrev(M, k, j) /\ j \in Nat
        BY <1>1, <2>2, <4>1, StoreFields, ItemFields
      <4>3. r.fund_by_id[k].prev[kind] = IF k = n THEN p ELSE j
        BY <2>7, <4>1 DEF prev_without
      <4> HIDE DEF j
      <4>4. IsPrev(M \ {id}, k, IF k = n THEN p ELSE j)
        BY <2>2, <2>3, <2>9, <3>2, <4>1, <4>2, RemovePrev
      <4> QED BY <2>5, <4>3, <4>4
    <3>6. IsNext(N, 0, r.lists[key].first)
      <4> DEFINE j == s.lists[key].first
      <4>1. IsNext(M, 0, j) /\ j \in Nat /\ 0 \in (M \ {id}) \cup {0}
        BY <2>2
      <4>2. r.lists[key].first = IF 0 = p THEN n ELSE j
        BY <3>3
      <4> HIDE DEF j
      <4>3. IsNext(M \ {id}, 0, IF 0 = p THEN n ELSE j)
        BY <2>2, <2>3, <2>9, <3>2, <4>1, RemoveNext
      <4> QED BY <2>5, <4>2, <4>3
    <3>7. IsLast(N, r.lists[key].last)
      <4> DEFINE j == s.lists[key].last
      <4>1. IsLast(M, j) /\ j \in Nat
        BY <2>2
      <4>2. r.lists[key].last = IF n = 0 THEN p ELSE j
        BY <3>3
      <4> HIDE DEF j
      <4>3. IsLast(M \ {id}, IF n = 0 THEN p ELSE j)
        BY <2>2, <2>3, <2>9, <3>2, <4>1, RemoveLast
      <4> QED BY <2>5, <4>2, <4>3
    <3>8. r.lists[key].total_balance = sum_of(r, N)
      <4>1. ASSUME NEW k \in 1 .. 2 * MaxId, k # id
            PROVE  share(s, M, k) = share(r, N, k)
        BY <2>4, <2>8, <4>1 DEF share
      <4>2. sum_of(r, N) = sum_of(s, M) + (share(r, N, id) - share(s, M, id))
        BY <1>1, <4>1, SumOfPoint
      <4>3. share(r, N, id) = 0 /\ share(s, M, id) = item.balance
        BY <2>4, <2>9 DEF share
      <4> QED BY <2>2, <3>3, <4>2, <4>3
    <3> QED BY <3>4, <3>5, <3>6, <3>7, <3>8 DEF ListOK, N
  <2>10. CASE id \notin M
    <3> DEFINE own == list_key(kind, item)
    <3>1. key # own /\ id \in Mem(s, kind, own) /\ ListOK(s, kind, own)
      BY <2>10, GoodItem
    <3>2. ~IsKeyOf(key, item)
      <4>1. \A other \in Kinds : list_key(other, item) \in KeysOf(other)
        BY GoodItem
      <4> QED BY <3>1, <4>1 DEF IsKeyOf, KeysOf, Kinds
    <3>3. r.lists[key] = s.lists[key]
      BY <2>1, <3>2 DEF Erased, CutOut
    <3>4. p \notin M /\ n \notin M
      <4>1. p = 0 \/ p \in Mem(s, kind, own)
        BY <3>1 DEF ListOK, IsPrev
      <4>2. n = 0 \/ n \in Mem(s, kind, own)
        BY <3>1 DEF ListOK, IsNext
      <4> QED BY <3>1, <4>1, <4>2 DEF Mem
    <3> HIDE DEF M, N, p, n
    <3>5. N = M
      BY <2>4, <2>10
    <3>6. ASSUME NEW k \in N
          PROVE  /\ r.fund_by_id[k].next[kind] = s.fund_by_id[k].next[kind]
                 /\ r.fund_by_id[k].prev[kind] = s.fund_by_id[k].prev[kind]
      BY <2>6, <2>7, <3>4 DEF next_without, prev_without
    <3>7. sum_of(r, N) = sum_of(s, M)
      <4>1. ASSUME NEW k \in 1 .. 2 * MaxId
            PROVE  share(s, M, k) = share(r, N, k)
        BY <2>8, <3>5 DEF share
      <4> QED BY <1>1, <4>1, SumOfSame
    <3> QED BY <2>2, <3>3, <3>5, <3>6, <3>7 DEF ListOK, N
  <2> QED BY <2>9, <2>10
<1> QED BY <1>1, <1>3, <1>4 DEF Good

(* A consistent store stays so when a balance changes.                     *)
LEMMA GoodRebalanced ==
    ASSUME NEW s, Good(s), NEW id, Live(s, id), NEW b \in Nat \ {0},
           NEW r, Rebalanced(s, r, id, b)
    PROVE  Good(r)
<1> DEFINE item == s.fund_by_id[id]
           x    == r.fund_by_id[id]
<1>1. /\ s \in Store /\ r \in Store /\ id \in Ids /\ id \in 1 .. 2 * MaxId
      /\ item \in FundItem /\ r.fund_max_id = s.fund_max_id
      /\ item.balance \in Nat /\ item.balance > 0
      /\ \A k \in Ids \ {id} : r.fund_by_id[k] = s.fund_by_id[k]
  BY GoodItem, ItemFields DEF Good, Rebalanced, Live
<1>2. /\ x.fund_desc = item.fund_desc /\ x.user_id = item.user_id
      /\ x.balance = b /\ x.next = item.next /\ x.prev = item.prev
  <2>1. x = [item EXCEPT !.balance = b]
    BY DEF Rebalanced
  <2> HIDE DEF x
  <2> QED BY <1>1, <2>1 DEF FundItem
<1>3. ASSUME NEW k \in Ids PROVE ItemOK(r, k)
  <2>1. CASE k = id
    <3>1. item.user_id \in 1 .. NumUsers /\ id \in 1 .. s.fund_max_id
      BY GoodItem
    <3> QED BY <1>1, <1>2, <2>1, <3>1 DEF ItemOK
  <2>2. CASE k # id
    <3>1. ItemOK(s, k)
      BY DEF Good
    <3> QED BY <1>1, <2>2, <3>1 DEF ItemOK
  <2> QED BY <2>1, <2>2
<1>4. ASSUME NEW k \in Ids
      PROVE  /\ r.fund_by_id[k].fund_desc = s.fund_by_id[k].fund_desc
             /\ r.fund_by_id[k].user_id = s.fund_by_id[k].user_id
             /\ r.fund_by_id[k].next = s.fund_by_id[k].next
             /\ r.fund_by_id[k].prev = s.fund_by_id[k].prev
             /\ r.fund_by_id[k].balance > 0 <=> s.fund_by_id[k].balance > 0
  BY <1>1, <1>2
<1>5. ASSUME NEW kind \in Kinds, NEW key \in KeysOf(kind)
      PROVE  ListOK(r, kind, key)
  <2> DEFINE M == Mem(s, kind, key)
             N == Mem(r, kind, key)
  <2>1. key \in Keys /\ ListOK(s, kind, key)
    BY DEF Good, KeysOf
  <2>2. N = M
    BY <1>4 DEF Mem, list_key
  <2>3. \A k \in M : k \in Ids
    BY DEF Mem
  <2>4. /\ r.lists[key].first = s.lists[key].first
        /\ r.lists[key].last = s.lists[key].last
    BY <2>1 DEF Rebalanced
  <2>5. /\ IsNext(M, 0, s.lists[key].first) /\ IsLast(M, s.lists[key].last)
        /\ s.lists[key].total_balance = sum_of(s, M)
        /\ \A k \in M : /\ IsNext(M, k, s.fund_by_id[k].next[kind])
                        /\ IsPrev(M, k, s.fund_by_id[k].prev[kind])
    BY <2>1 DEF ListOK
  <2>6. id \in M <=> IsKeyOf(key, item)
    <3>1. \A other \in Kinds : list_key(other, item) \in KeysOf(other)
      BY GoodItem
    <3>2. IsKeyOf(key, item) <=> key = list_key(kind, item)
      BY <3>1 DEF IsKeyOf, KeysOf, Kinds
    <3> QED BY <1>1, <3>2 DEF Mem
  <2> HIDE DEF M, N
  <2>7. sum_of(r, M) = sum_of(s, M) + (share(r, M, id) - share(s, M, id))
    <3>1. ASSUME NEW k \in 1 .. 2 * MaxId, k # id
          PROVE  share(s, M, k) = share(r, M, k)
      BY <1>1, <2>3, <3>1 DEF share
    <3> QED BY <1>1, <3>1, SumOfPoint
  <2>8. r.lists[key].total_balance = sum_of(r, M)
    <3>1. CASE id \in M
      <4>1. r.lists[key].total_balance
              = s.lists[key].total_balance + (b - item.balance)
        BY <2>1, <2>6, <3>1 DEF Rebalanced
      <4>2. share(r, M, id) = b /\ share(s, M, id) = item.balance
        BY <1>2, <3>1 DEF share
      <4> QED BY <2>5, <2>7, <4>1, <4>2
    <3>2. CASE id \notin M
      <4>1. r.lists[key] = s.lists[key]
        BY <2>1, <2>6, <3>2 DEF Rebalanced
      <4>2. share(r, M, id) = 0 /\ share(s, M, id) = 0
        BY <3>2 DEF share
      <4>3. sum_of(s, M) \in Nat
        BY <1>1, SumOfMember
      <4> QED BY <2>5, <2>7, <4>1, <4>2, <4>3
    <3> QED BY <3>1, <3>2
  <2>9. \A k \in M : /\ IsNext(M, k, r.fund_by_id[k].next[kind])
                     /\ IsPrev(M, k, r.fund_by_id[k].prev[kind])
    BY <1>4, <2>3, <2>5
  <2> QED BY <2>2, <2>4, <2>5, <2>8, <2>9 DEF ListOK, N
<1> QED BY <1>1, <1>3, <1>5 DEF Good

(* A consistent store stays so when an item is inserted.                   *)
LEMMA GoodInserted ==
    ASSUME NEW s, Good(s), NEW id \in Ids, NEW item \in FundItem,
           item.user_id \in 1 .. NumUsers, item.balance > 0,
           NEW r, Inserted(s, r, id, item)
    PROVE  Good(r)
<1> DEFINE x == r.fund_by_id[id]
<1>1. /\ s \in Store /\ r \in Store /\ id = s.fund_max_id + 1
      /\ r.fund_max_id = id /\ s.fund_max_id \in Nat
      /\ SameEntry(x, item)
      /\ \A k \in Ids \ {id} : SameEntry(r.fund_by_id[k], s.fund_by_id[k])
      /\ item.balance \in Nat
  BY StoreFields, ItemFields DEF Good, Inserted
<1>2. id # 0 /\ id \in 1 .. 2 * MaxId /\ id \in Nat
  BY <1>1 DEF Ids
<1>3. s.fund_by_id[id] = DefaultItem
  BY <1>1 DEF Good, ItemOK
<1>4. \A kind \in Kinds : list_key(kind, item) \in KeysOf(kind)
  <2>1. item.user_id \in 0 .. NumUsers
    BY FundModuleAssumption
  <2>2. \A kind \in Kinds : list_key(kind, item) \in Keys
    BY <2>1, KeyOf
  <2>3. ASSUME NEW kind \in Kinds
        PROVE  list_key(kind, item)[1] = AnyUser <=> kind = "type"
    BY FundModuleAssumption DEF list_key, AnyUser
  <2> QED BY <2>2, <2>3 DEF KeysOf
<1>5. ASSUME NEW kind \in Kinds
      PROVE  LET last == s.lists[list_key(kind, item)].last
             IN  last = 0 \/ last \in Mem(s, kind, list_key(kind, item))
  BY <1>4, GoodEnd DEF KeysOf
<1>6. ASSUME NEW k \in Ids \ {id}, NEW kind \in Kinds
      PROVE  /\ r.fund_by_id[k].prev[kind] = s.fund_by_id[k].prev[kind]
             /\ r.fund_by_id[k].next[kind]
                  = IF k # 0 /\ k = s.lists[list_key(kind, item)].last
                    THEN id ELSE s.fund_by_id[k].next[kind]
  BY DEF Inserted
<1>7. ASSUME NEW k \in Ids PROVE ItemOK(r, k)
  <2>1. CASE k = id
    BY <1>1, <1>2, <2>1 DEF ItemOK, SameEntry
  <2>2. CASE k # id /\ s.fund_by_id[k].balance > 0
    <3>1. ItemOK(s, k) /\ s.fund_by_id[k] # DefaultItem
      BY <2>2 DEF Good, DefaultItem
    <3> QED BY <1>1, <2>2, <3>1 DEF ItemOK, SameEntry
  <2>3. CASE k # id /\ ~(s.fund_by_id[k].balance > 0)
    <3>1. s.fund_by_id[k] = DefaultItem
      BY <2>3 DEF Good, ItemOK
    <3>2. ASSUME NEW kind \in Kinds
          PROVE  ~(k # 0 /\ k = s.lists[list_key(kind, item)].last)
      BY <1>5, <2>3 DEF Mem
    <3>3. \A kind \in Kinds : /\ r.fund_by_id[k].next[kind] = 0
                              /\ r.fund_by_id[k].prev[kind] = 0
      BY <1>6, <2>3, <3>1, <3>2 DEF DefaultItem, NoLinks
    <3>4. r.fund_by_id[k] \in FundItem /\ SameEntry(r.fund_by_id[k], DefaultItem)
      BY <1>1, <2>3, <3>1, StoreFields
    <3>5. r.fund_by_id[k] = DefaultItem
      <4> DEFINE y == r.fund_by_id[k]
      <4>1. y.next \in [Kinds -> Nat] /\ y.prev \in [Kinds -> Nat]
        BY <3>4, ItemFields
      <4> HIDE DEF y
      <4>2. y.next = NoLinks /\ y.prev = NoLinks
        BY <3>3, <4>1 DEF NoLinks, y
      <4>3. y \in FundItem /\ SameEntry(y, DefaultItem)
        BY <3>4 DEF y
      <4> QED BY <4>2, <4>3 DEF FundItem, SameEntry, DefaultItem, y
    <3> QED BY <3>5 DEF ItemOK
  <2> QED BY <2>1, <2>2, <2>3
<1>8. ASSUME NEW kind \in Kinds, NEW key \in KeysOf(kind)
      PROVE  ListOK(r, kind, key)
  <2> DEFINE M == Mem(s, kind, key)
             N == Mem(r, kind, key)
             own == list_key(kind, item)
  <2>1. key \in Keys /\ ListOK(s, kind, key)
    BY DEF Good, KeysOf
  <2>2. /\ M \in SUBSET (Nat \ {0})
        /\ IsNext(M, 0, s.lists[key].first) /\ IsLast(M, s.lists[key].last)
        /\ s.lists[key].total_balance = sum_of(s, M)
        /\ \A k \in M : /\ IsNext(M, k, s.fund_by_id[k].next[kind])
                        /\ IsPrev(M, k, s.fund_by_id[k].prev[kind])
        /\ s.lists[key].first \in Nat /\ s.lists[key].last \in Nat
        /\ s.lists[key].total_balance \in Nat
    <3> HIDE DEF M
    <3>1. M = Mem(s, kind, key)
      BY DEF M
    <3> QED BY <1>1, <2>1, <3>1, ListParts
  <2>3. ASSUME NEW k
        PROVE  k \in N <=> k \in M \/ (k = id /\ key = own)
    <3>1. CASE k \in Ids /\ k # id
      <4>1. SameEntry(r.fund_by_id[k], s.fund_by_id[k])
        BY <1>1, <3>1
      <4> QED BY <3>1, <4>1 DEF Mem, SameEntry, list_key
    <3>2. CASE k = id
      <4>1. id \notin M
        BY <1>3 DEF Mem, DefaultItem
      <4>2. id \in N <=> key = own
        BY <1>1, <1>2 DEF Mem, SameEntry, list_key
      <4> QED BY <3>2, <4>1, <4>2
    <3>3. CASE k \notin Ids
      BY <3>3, <1>2 DEF Mem
    <3> QED BY <3>1, <3>2, <3>3
  <2>4. ASSUME NEW k \in M
        PROVE  k \in Ids \ {id} /\ k # 0 /\ k < id /\ k \in Nat
    <3>1. k \in Ids /\ k # 0 /\ s.fund_by_id[k].balance > 0
      BY DEF Mem
    <3>2. ItemOK(s, k) /\ s.fund_by_id[k] # DefaultItem
      BY <3>1 DEF Good, DefaultItem
    <3>3. k \in 1 .. s.fund_max_id
      BY <3>2 DEF ItemOK
    <3> QED BY <1>1, <3>1, <3>3
  <2>5. \A k \in M : share(s, M, k) = share(r, N, k)
    <3>1. ASSUME NEW k \in M PROVE share(s, M, k) = share(r, N, k)
      BY <1>1, <2>3, <2>4 DEF SameEntry, share
    <3> QED BY <3>1
  <2>6. CASE key = own
    <3> DEFINE last == s.lists[key].last
    <3>1. /\ x.next[kind] = 0 /\ x.prev[kind] = last
          /\ r.lists[key].first = IF last = 0 THEN id ELSE s.lists[key].first
          /\ r.lists[key].last = id
          /\ r.lists[key].total_balance
                = s.lists[key].total_balance + item.balance
      BY <2>6 DEF Inserted
    <3>2. IsLast(M, last) /\ last \in Nat
      BY <2>2
    <3> HIDE DEF M, N, own
    <3>3. N = M \cup {id}
      BY <2>3, <2>6
    <3>4. ASSUME NEW k \in M
          PROVE  /\ r.fund_by_id[k].prev[kind] = s.fund_by_id[k].prev[kind]
                 /\ r.fund_by_id[k].next[kind]
                      = IF k = last THEN id ELSE s.fund_by_id[k].next[kind]
      BY <1>6, <2>4, <2>6 DEF own
    <3> HIDE DEF last
    <3>5. /\ \A i \in M \cup {0}, j \in Nat :
                 IsNext(M, i, j) => IsNext(M \cup {id}, i,
                                           IF i = last THEN id ELSE j)
          /\ \A i \in M, j \in Nat :
                 IsPrev(M, i, j) => IsPrev(M \cup {id}, i, j)
          /\ IsNext(M \cup {id}, id, 0)
          /\ IsPrev(M \cup {id}, id, last)
          /\ IsLast(M \cup {id}, id)
      BY <1>2, <2>2, <2>4, <3>2, AppendNext
    <3>6. ASSUME NEW k \in M
          PROVE  /\ IsNext(N, k, r.fund_by_id[k].next[kind])
                 /\ IsPrev(N, k, r.fund_by_id[k].prev[kind])
      <4> DEFINE j == s.fund_by_id[k].next[kind]
                 i == s.fund_by_id[k].prev[kind]
      <4>1. IsNext(M, k, j) /\ IsPrev(M, k, i) /\ j \in Nat /\ i \in Nat
        BY <1>1, <2>2, <2>4, StoreFields, ItemFields
      <4>2. /\ r.fund_by_id[k].next[kind] = IF k = last THEN id ELSE j
            /\ r.fund_by_id[k].prev[kind] = i
        BY <3>4
      <4> HIDE DEF i, j
      <4> QED BY <3>3, <3>5, <4>1, <4>2
    <3>7. IsNext(N, 0, r.lists[key].first)
      <4> DEFINE j == s.lists[key].first
      <4>1. IsNext(M, 0, j) /\ j \in Nat
        BY <2>2
      <4>2. r.lists[key].first = IF 0 = last THEN id ELSE j
        BY <3>1
      <4> HIDE DEF j
      <4> QED BY <3>3, <3>5, <4>1, <4>2
    <3>8. r.lists[key].total_balance = sum_of(r, N)
      <4>1. ASSUME NEW k \in 1 .. 2 * MaxId, k # id
            PROVE  share(s, M, k) = share(r, N, k)
        BY <2>3, <2>5, <4>1 DEF share
      <4>2. sum_of(r, N) = sum_of(s, M) + (share(r, N, id) - share(s, M, id))
        BY <1>1, <1>2, <4>1, SumOfPoint
      <4>3. id \notin M /\ id \in N
        BY <2>3, <2>4, <2>6
      <4>4. share(r, N, id) = item.balance /\ share(s, M, id) = 0
        BY <1>1, <4>3 DEF share, SameEntry
      <4> QED BY <1>1, <2>2, <3>1, <4>2, <4>4
    <3>9. IsNext(N, id, x.next[kind]) /\ IsPrev(N, id, x.prev[kind])
          /\ IsLast(N, r.lists[key].last)
      BY <3>1, <3>3, <3>5
    <3>10. \A k \in N : /\ IsNext(N, k, r.fund_by_id[k].next[kind])
                        /\ IsPrev(N, k, r.fund_by_id[k].prev[kind])
      BY <2>3, <3>6, <3>9
    <3> QED BY <3>7, <3>8, <3>9, <3>10 DEF ListOK, N
  <2>7. CASE key # own
    <3>1. r.lists[key] = s.lists[key]
      <4>1. \A other \in Kinds : key # list_key(other, item)
        BY <1>4, <2>7 DEF KeysOf, Kinds
      <4> QED BY <2>1, <4>1 DEF Inserted
    <3>2. \A k \in M : k # s.lists[own].last
      BY <1>5, <2>7 DEF Mem
    <3> HIDE DEF M, N
    <3>3. N = M
      BY <2>3, <2>7
    <3>4. ASSUME NEW k \in M
          PROVE  /\ r.fund_by_id[k].prev[kind] = s.fund_by_id[k].prev[kind]
                 /\ r.fund_by_id[k].next[kind] = s.fund_by_id[k].next[kind]
      BY <1>6, <2>4, <3>2
    <3>5. sum_of(r, N) = sum_of(s, M)
      <4>1. ASSUME NEW k \in 1 .. 2 * MaxId
            PROVE  share(s, M, k) = share(r, N, k)
        BY <2>5, <3>3 DEF share
      <4> QED BY <1>1, <4>1, SumOfSame
    <3> QED BY <2>2, <3>1, <3>3, <3>4, <3>5 DEF ListOK, N
  <2> QED BY <2>6, <2>7
<1> QED BY <1>1, <1>7, <1>8 DEF Good

-----------------------------------------------------------------------------
(* fund_max_id grows by at most one, whatever the arguments                *)

Shaped(s) == /\ s = [fund_by_id |-> s.fund_by_id,
                     fund_max_id |-> s.fund_max_id, lists |-> s.lists]
             /\ s.fund_max_id \in Nat

SameMax(s, r) == Shaped(r) /\ r.fund_max_id = s.fund_max_id

GrowsByOne(s, r) == /\ Shaped(r)
                    /\ r.fund_max_id \in {s.fund_max_id, s.fund_max_id + 1}

IsPair(r) == r = [s |-> r.s, item |-> r.item]

(* A store has the shape of one.                                           *)
LEMMA StoreShape == ASSUME NEW s \in Store PROVE Shaped(s)
BY DEF Store, Shaped

(* Saving items and changing lists keeps fund_max_id.                      *)
LEMMA MaxSet ==
    ASSUME NEW s, Shaped(s)
    PROVE  /\ \A id, v : SameMax(s, [s EXCEPT !.fund_by_id[id] = v])
           /\ \A v : SameMax(s, [s EXCEPT !.lists = v])
           /\ \A key, v : SameMax(s, [s EXCEPT !.lists[key] = v])
           /\ \A key, v : SameMax(s, [s EXCEPT !.lists[key].first = v])
           /\ \A key, v : SameMax(s, [s EXCEPT !.lists[key].last = v])
BY DEF Shaped, SameMax

(* So do the operations made of that.                                      *)
LEMMA MaxOps ==
    ASSUME NEW s, Shaped(s)
    PROVE  /\ \A id, item : SameMax(s, set_fund(s, id, item))
           /\ \A id, kind, n : SameMax(s, set_next(s, id, kind, n))
           /\ \A id, kind, n : SameMax(s, set_prev(s, id, kind, n))
           /\ \A item, a : SameMax(s, change_totals(s, item, a))
<1>1. ASSUME NEW id, NEW item PROVE SameMax(s, set_fund(s, id, item))
  BY MaxSet DEF set_fund
<1>2. ASSUME NEW id, NEW kind, NEW n
      PROVE  SameMax(s, set_next(s, id, kind, n))
             /\ SameMax(s, set_prev(s, id, kind, n))
  BY <1>1 DEF set_next, set_prev
<1>3. ASSUME NEW item, NEW a PROVE SameMax(s, change_totals(s, item, a))
  BY MaxSet DEF change_totals
<1> QED BY <1>1, <1>2, <1>3

(* Adding to a list.                                                       *)
LEMMA MaxAdd ==
    ASSUME NEW r, Shaped(r.s), NEW id, NEW kind
    PROVE  SameMax(r.s, add_fund_to_list(r, id, kind).s)
<1> DEFINE key == list_key(kind, r.item)
           list == r.s.lists[key]
           linked == IF list = DefaultList THEN r.s
                     ELSE set_next(r.s, list.last, kind, id)
           new  == [first |-> IF list = DefaultList THEN id ELSE list.first,
                    last |-> id,
                    total_balance |-> list.total_balance + r.item.balance]
<1>1. SameMax(r.s, linked)
  <2>1. SameMax(r.s, r.s) /\ SameMax(r.s, set_next(r.s, list.last, kind, id))
    BY MaxOps DEF SameMax
  <2> QED BY <2>1
<1>2. add_fund_to_list(r, id, kind).s = [linked EXCEPT !.lists[key] = new]
  BY DEF add_fund_to_list
<1> HIDE DEF linked, new, key
<1>3. SameMax(linked, [linked EXCEPT !.lists[key] = new])
  BY <1>1, MaxSet DEF SameMax
<1> QED BY <1>1, <1>2, <1>3 DEF SameMax

(* Creating an item takes the next id.                                     *)
LEMMA MaxCreate ==
    ASSUME NEW s, Shaped(s), NEW u, NEW d, NEW b, b # 0
    PROVE  LET r == create_fund(s, u, d, b)
           IN  Shaped(r) /\ r.fund_max_id = s.fund_max_id + 1
<1> DEFINE id   == s.fund_max_id + 1
           item == [fund_desc |-> d, user_id |-> u, balance |-> b,
                    next |-> NoLinks, prev |-> NoLinks]
           s0   == [s EXCEPT !.fund_max_id = id]
           r0   == [s |-> s0, item |-> item]
           r1   == add_fund_to_list(r0, id, "type")
           r2   == add_fund_to_list(r1, id, "user")
<1>1. Shaped(s0) /\ s0.fund_max_id = s.fund_max_id + 1 /\ r0.s = s0
  BY DEF Shaped
<1>2. create_fund(s, u, d, b) = set_fund(r2.s, id, r2.item)
  BY DEF create_fund, save_item
<1> HIDE DEF r0, s0, r1, r2, id
<1>3. SameMax(s0, r1.s)
  BY <1>1, MaxAdd DEF r1
<1>4. SameMax(r1.s, r2.s)
  BY <1>3, MaxAdd DEF r2, SameMax
<1>5. SameMax(r2.s, set_fund(r2.s, id, r2.item))
  BY <1>4, MaxOps DEF SameMax
<1> QED BY <1>1, <1>2, <1>3, <1>4, <1>5 DEF SameMax

(* Adding a balance takes the next id or keeps the last one.               *)
LEMMA MaxIncrease ==
    ASSUME NEW s, Shaped(s), NEW u, NEW d, NEW a
    PROVE  GrowsByOne(s, increase_fund_balance(s, u, d, a))
<1> DEFINE list == s.lists[<<u, d.type>>]
           last == s.fund_by_id[list.last]
           f    == set_fund(s, list.last, [last EXCEPT !.balance = @ + a])
           r    == increase_fund_balance(s, u, d, a)
<1>1. SameMax(s, f)
  BY MaxOps
<1>2. SameMax(f, change_totals(f, last, a))
  <2> HIDE DEF f
  <2> QED BY <1>1, MaxOps DEF SameMax
<1>3. r = s \/ r = change_totals(f, last, a)
      \/ (a # 0 /\ r = create_fund(s, u, d, a))
  BY DEF increase_fund_balance
<1> HIDE DEF f, last, r
<1>4. SameMax(s, change_totals(f, last, a)) /\ s.fund_max_id \in Nat
  BY <1>1, <1>2 DEF SameMax, Shaped
<1>5. a # 0 => GrowsByOne(s, create_fund(s, u, d, a))
  BY <1>4, MaxCreate DEF GrowsByOne
<1>6. GrowsByOne(s, s) /\ GrowsByOne(s, change_totals(f, last, a))
  BY <1>4 DEF GrowsByOne, SameMax
<1> QED BY <1>3, <1>5, <1>6 DEF r

(* Deleting from a list.                                                   *)
LEMMA MaxUnlink ==
    ASSUME NEW r, IsPair(r), Shaped(r.s), NEW kind
    PROVE  /\ SameMax(r.s, delete_fund_from_list(r, kind).s)
           /\ IsPair(delete_fund_from_list(r, kind))
<1> DEFINE key == list_key(kind, r.item)
           p == r.item.prev[kind]
           n == r.item.next[kind]
           sp == IF p = 0 THEN [r.s EXCEPT !.lists[key].first = n]
                 ELSE set_next(r.s, p, kind, n)
           sn == IF n = 0 THEN [sp EXCEPT !.lists[key].last = p]
                 ELSE set_prev(sp, n, kind, p)
           rp == [s |-> sp, item |-> r.item]
           rn == [s |-> sn, item |-> r.item]
<1>1. relink_prev(r, kind) = [r EXCEPT !.s = sp]
  BY DEF relink_prev, IsPair
<1>2. [r EXCEPT !.s = sp] = rp
  <2> HIDE DEF sp
  <2> QED BY DEF IsPair
<1>3. relink_next(rp, kind) = rn
  <2> HIDE DEF sp
  <2> QED BY DEF relink_next
<1>4. SameMax(r.s, sp)
  <2>1. /\ SameMax(r.s, set_next(r.s, p, kind, n))
        /\ SameMax(r.s, [r.s EXCEPT !.lists[key].first = n])
    BY MaxOps, MaxSet
  <2> QED BY <2>1
<1> HIDE DEF sp
<1>5. SameMax(sp, sn)
  <2>1. /\ SameMax(sp, set_prev(sp, n, kind, p))
        /\ SameMax(sp, [sp EXCEPT !.lists[key].last = p])
    BY <1>4, MaxOps, MaxSet DEF SameMax
  <2> QED BY <2>1
<1> HIDE DEF sn
<1>6. delete_fund_from_list(r, kind) = clear_links(rn, kind)
  BY <1>1, <1>2, <1>3 DEF delete_fund_from_list
<1>7. clear_links(rn, kind).s = sn /\ IsPair(clear_links(rn, kind))
  <2> DEFINE x == clear_links(rn, kind)
  <2>1. x = [[s |-> sn, item |-> r.item] EXCEPT !.item.prev[kind] = 0,
                                                !.item.next[kind] = 0]
    BY DEF clear_links
  <2> HIDE DEF x
  <2>2. x = [s |-> sn, item |-> x.item]
    BY <2>1
  <2>3. x.s = sn /\ x = [s |-> x.s, item |-> x.item]
    BY <2>2
  <2> QED BY <2>3 DEF IsPair, x
<1> QED BY <1>4, <1>5, <1>6, <1>7 DEF SameMax

(* Taking a balance out of an item.                                        *)
LEMMA MaxDecrease ==
    ASSUME NEW s, Shaped(s), NEW item, NEW max
    PROVE  SameMax(s, decrease_fund_balance(s, item, max).s)
<1> DEFINE a == 0 - item.balance
           s0 == change_totals(s, item, a)
           r0 == [s |-> s0, item |-> item]
           r1 == delete_fund_from_list(r0, "type")
           r2 == delete_fund_from_list(r1, "user")
           d  == decrease_fund_balance(s, item, max)
<1>1. SameMax(s, s0) /\ SameMax(s, change_totals(s, item, 0 - max))
  BY MaxOps
<1> HIDE DEF s0
<1>2. IsPair(r0) /\ r0.s = s0
  BY DEF IsPair
<1> HIDE DEF r0
<1>3. SameMax(s0, r1.s) /\ IsPair(r1)
  BY <1>1, <1>2, MaxUnlink DEF SameMax
<1> HIDE DEF r1
<1>4. SameMax(r1.s, r2.s) /\ IsPair(r2)
  BY <1>3, MaxUnlink DEF SameMax
<1>5. delete_fund(s, item) = [r2 EXCEPT !.item.balance = 0]
  BY DEF delete_fund, r1, r0, s0
<1> HIDE DEF r2
<1>6. delete_fund(s, item).s = r2.s
  BY <1>4, <1>5 DEF IsPair
<1>7. d.s = r2.s \/ d.s = change_totals(s, item, 0 - max)
  BY <1>6 DEF decrease_fund_balance
<1> QED BY <1>1, <1>3, <1>4, <1>7 DEF SameMax

(* A loop iteration.                                                       *)
LEMMA MaxVisit ==
    ASSUME NEW t, Shaped(t.s), NEW kind, NEW direction, NEW filter_transf,
           t = [s |-> t.s, id |-> t.id, left |-> t.left, visited |-> t.visited]
    PROVE  GrowsByOne(t.s, visit(t, kind, direction, filter_transf).s)
<1> DEFINE item == t.s.fund_by_id[t.id]
           dec  == decrease_fund_balance(t.s, item, t.left)
           desc == filter_transf[item]
           nid  == neighbour(item, kind, direction)
           skip == [t EXCEPT !.id = nid, !.visited = @ + 1]
           inc  == IF desc = Destroyed THEN dec.s
                   ELSE increase_fund_balance(dec.s, item.user_id, desc,
                                              item.balance - dec.item.balance)
           r    == visit(t, kind, direction, filter_transf)
<1>1. r = t \/ r = skip \/ r = converted(t, item, dec, desc, nid)
  BY DEF visit
<1>2. skip.s = t.s /\ t.s.fund_max_id \in Nat
  BY DEF Shaped
<1>3. converted(t, item, dec, desc, nid).s = set_fund(inc, t.id, dec.item)
  BY DEF converted, split_convert_individual_fund
<1>4. SameMax(t.s, dec.s)
  BY MaxDecrease
<1> HIDE DEF dec, skip, r
<1>5. GrowsByOne(dec.s, inc)
  <2> DEFINE a == item.balance - dec.item.balance
             f == increase_fund_balance(dec.s, item.user_id, desc, a)
  <2>1. GrowsByOne(dec.s, f)
    BY <1>4, MaxIncrease DEF SameMax
  <2>2. GrowsByOne(dec.s, dec.s)
    BY <1>2, <1>4 DEF SameMax, GrowsByOne, Shaped
  <2>3. inc = dec.s \/ inc = f
    OBVIOUS
  <2> HIDE DEF f, inc
  <2> QED BY <2>1, <2>2, <2>3
<1> HIDE DEF inc
<1>6. SameMax(inc, set_fund(inc, t.id, dec.item))
  BY <1>5, MaxOps DEF GrowsByOne
<1>7. GrowsByOne(t.s, set_fund(inc, t.id, dec.item)) /\ GrowsByOne(t.s, t.s)
  BY <1>2, <1>4, <1>5, <1>6 DEF SameMax, GrowsByOne
<1> QED BY <1>1, <1>2, <1>3, <1>7 DEF r

-----------------------------------------------------------------------------
(* Adding a balance *)

FundDesc == [type : B!FundType, created : Nat]

Coalesces(s, u, d) ==
    LET last == s.lists[<<u, d.type>>].last
    IN  /\ B!allow_coalesce(d.type) /\ last # 0
        /\ s.fund_by_id[last].fund_desc = d

(* r is s with the amount a of the user u and the description d added.     *)
Increased(s, r, u, d, a) ==
    LET last == s.lists[<<u, d.type>>].last
    IN  /\ Coalesces(s, u, d) =>
              Rebalanced(s, r, last, s.fund_by_id[last].balance + a)
        /\ ~Coalesces(s, u, d) =>
              /\ s.fund_max_id + 1 \in Ids
              /\ Inserted(s, r, s.fund_max_id + 1, new_item(u, d, a))

Fits(s) == s.fund_max_id <= MaxId

(* The map of the model has room for the ids of a traversal that does not  *)
(* fit.                                                                    *)
Room(s) == s.fund_max_id \in Ids

(* An id that fits is an id of the store.                                  *)
LEMMA FitIsId ==
    ASSUME NEW n \in Nat, n <= MaxId PROVE n \in Ids
BY FundModuleAssumption DEF Ids

(* A store that fits has room.                                             *)
LEMMA FitHasRoom ==
    ASSUME NEW s, Shaped(s), Fits(s) PROVE Room(s)
BY FitIsId DEF Shaped, Fits, Room

(* What increase_fund_balance does, on a store whose lists end with live   *)
(* items.                                                                  *)
LEMMA Increase ==
    ASSUME NEW s \in Store, NEW u \in 0 .. NumUsers, NEW d \in FundDesc,
           NEW a \in Nat \ {0},
           EndIsLive(s, <<AnyUser, d.type>>), EndIsLive(s, <<u, d.type>>),
           s.fund_max_id + 1 \in Ids =>
               s.fund_by_id[s.fund_max_id + 1].balance = 0,
           NEW r, r = increase_fund_balance(s, u, d, a), Room(r)
    PROVE  Increased(s, r, u, d, a)
<1> DEFINE list == s.lists[<<u, d.type>>]
           item == s.fund_by_id[list.last]
           b    == item.balance + a
           new  == [item EXCEPT !.balance = b]
<1>1. <<u, d.type>> \in Keys
  BY DEF Keys, FundDesc
<1>2. list \in FundList /\ (list # DefaultList <=> list.last # 0)
      /\ (list # DefaultList => list.last \in Ids)
  BY <1>1, StoreFields DEF EndIsLive, DefaultList
<1>3. r = IF Coalesces(s, u, d)
          THEN change_totals(set_fund(s, list.last, new), item, a)
          ELSE create_fund(s, u, d, a)
  BY <1>2 DEF increase_fund_balance, Coalesces
<1>4. ASSUME Coalesces(s, u, d) PROVE Rebalanced(s, r, list.last, b)
  <2> DEFINE id == list.last
  <2>1. id \in Ids
    BY <1>2, <1>4 DEF Coalesces
  <2>2. item \in FundItem
    BY <2>1, StoreFields
  <2>3. b \in Nat \ {0} /\ a = b - item.balance
    BY <2>2, ItemFields
  <2>4. TotalsCover(s, id, b)
    <3>1. ASSUME NEW key \in Keys
          PROVE  s.lists[key].total_balance + (b - item.balance) \in Nat
      <4>1. s.lists[key].total_balance \in Nat
        BY StoreFields, ListFields
      <4> HIDE DEF b, item
      <4> QED BY <2>3, <4>1
    <3> QED BY <3>1 DEF TotalsCover
  <2>5. r = change_totals(set_fund(s, id, new), item, b - item.balance)
    BY <1>3, <1>4, <2>3
  <2> HIDE DEF id, b
  <2>6. Rebalanced(s, change_totals(set_fund(s, id,
                       [s.fund_by_id[id] EXCEPT !.balance = b]),
                       s.fund_by_id[id], b - s.fund_by_id[id].balance), id, b)
    BY <2>1, <2>3, <2>4, Rebalance
  <2> QED BY <2>5, <2>6 DEF id
<1>5. ASSUME ~Coalesces(s, u, d)
      PROVE  /\ s.fund_max_id + 1 \in Ids
             /\ Inserted(s, r, s.fund_max_id + 1, new_item(u, d, a))
  <2>1. r = create_fund(s, u, d, a)
    BY <1>3, <1>5
  <2>2. r.fund_max_id = s.fund_max_id + 1 /\ s.fund_max_id \in Nat
    BY <2>1, StoreShape, StoreFields, MaxCreate
  <2>3. s.fund_max_id + 1 \in Ids
    BY <2>2 DEF Room
  <2>4. Inserted(s, create_fund(s, u, d, a), s.fund_max_id + 1,
                 new_item(u, d, a))
    BY <2>3, CreateFund DEF FundDesc
  <2> QED BY <2>1, <2>3, <2>4
<1> QED BY <1>4, <1>5 DEF Increased

(* Saving an item elsewhere afterwards, instead of before.                 *)
LEMMA RebalancedAround ==
    ASSUME NEW s \in Store, NEW id \in Ids, NEW x \in FundItem,
           NEW last \in Ids, last # id, NEW b, NEW r, Rebalanced(s, r, last, b)
    PROVE  Rebalanced(set_fund(s, id, x), set_fund(r, id, x), last, b)
<1> DEFINE t == set_fund(s, id, x)
           q == set_fund(r, id, x)
<1>1. /\ t \in Store /\ t.fund_by_id[id] = saved(x)
      /\ \A k \in Ids \ {id} : t.fund_by_id[k] = s.fund_by_id[k]
      /\ t.fund_max_id = s.fund_max_id /\ t.lists = s.lists
  BY SetFund
<1>2. r \in Store
  BY DEF Rebalanced
<1>3. /\ q \in Store /\ q.fund_by_id[id] = saved(x)
      /\ \A k \in Ids \ {id} : q.fund_by_id[k] = r.fund_by_id[k]
      /\ q.fund_max_id = r.fund_max_id /\ q.lists = r.lists
  BY <1>2, SetFund
<1> HIDE DEF t, q
<1>4. t.fund_by_id[last] = s.fund_by_id[last]
  BY <1>1
<1>5. /\ q.fund_max_id = t.fund_max_id
      /\ \A k \in Ids \ {last} : q.fund_by_id[k] = t.fund_by_id[k]
      /\ q.fund_by_id[last] = [t.fund_by_id[last] EXCEPT !.balance = b]
  BY <1>1, <1>3 DEF Rebalanced
<1>6. ASSUME NEW key \in Keys
      PROVE  /\ q.lists[key].first = t.lists[key].first
             /\ q.lists[key].last = t.lists[key].last
             /\ IsKeyOf(key, t.fund_by_id[last]) =>
                   q.lists[key].total_balance
                     = t.lists[key].total_balance + (b - t.fund_by_id[last].balance)
             /\ ~IsKeyOf(key, t.fund_by_id[last]) => q.lists[key] = t.lists[key]
  BY <1>1, <1>3, <1>4 DEF Rebalanced
<1> QED BY <1>3, <1>5, <1>6 DEF Rebalanced, t, q

(* The same for an insertion.                                              *)
LEMMA InsertedAround ==
    ASSUME NEW s \in Store, NEW id \in Ids, NEW x \in FundItem,
           NEW new \in Ids, new # id, NEW item, NEW r,
           \A kind \in Kinds : s.lists[list_key(kind, item)].last # id,
           Inserted(s, r, new, item)
    PROVE  Inserted(set_fund(s, id, x), set_fund(r, id, x), new, item)
<1> DEFINE t == set_fund(s, id, x)
           q == set_fund(r, id, x)
<1>1. /\ t \in Store /\ t.fund_by_id[id] = saved(x)
      /\ \A k \in Ids \ {id} : t.fund_by_id[k] = s.fund_by_id[k]
      /\ t.fund_max_id = s.fund_max_id /\ t.lists = s.lists
  BY SetFund
<1>2. r \in Store
  BY DEF Inserted
<1>3. /\ q \in Store /\ q.fund_by_id[id] = saved(x)
      /\ \A k \in Ids \ {id} : q.fund_by_id[k] = r.fund_by_id[k]
      /\ q.fund_max_id = r.fund_max_id /\ q.lists = r.lists
  BY <1>2, SetFund
<1> HIDE DEF t, q
<1>4. ASSUME NEW k \in Ids \ {new}
      PROVE  /\ SameEntry(q.fund_by_id[k], t.fund_by_id[k])
             /\ \A kind \in Kinds :
                   /\ q.fund_by_id[k].prev[kind] = t.fund_by_id[k].prev[kind]
                   /\ q.fund_by_id[k].next[kind]
                        = IF k # 0 /\ k = t.lists[list_key(kind, item)].last
                          THEN new ELSE t.fund_by_id[k].next[kind]
  <2>1. CASE k = id
    BY <1>1, <1>3, <2>1 DEF SameEntry
  <2>2. CASE k # id
    <3>1. q.fund_by_id[k] = r.fund_by_id[k] /\ t.fund_by_id[k] = s.fund_by_id[k]
      BY <1>1, <1>3, <2>2
    <3> QED BY <1>1, <3>1 DEF Inserted
  <2> QED BY <2>1, <2>2
<1>5. q.fund_by_id[new] = r.fund_by_id[new]
  BY <1>3
<1>6. ASSUME NEW kind \in Kinds, NEW key, key = list_key(kind, item)
      PROVE  /\ q.fund_by_id[new].next[kind] = 0
             /\ q.fund_by_id[new].prev[kind] = t.lists[key].last
             /\ q.lists[key].first = IF t.lists[key].last = 0 THEN new
                                     ELSE t.lists[key].first
             /\ q.lists[key].last = new
             /\ q.lists[key].total_balance
                   = t.lists[key].total_balance + item.balance
  BY <1>1, <1>3, <1>5, <1>6 DEF Inserted
<1>7. /\ new = t.fund_max_id + 1 /\ q.fund_max_id = new
      /\ SameEntry(q.fund_by_id[new], item)
      /\ \A key \in Keys :
            (\A kind \in Kinds : key # list_key(kind, item)) =>
                q.lists[key] = t.lists[key]
  BY <1>1, <1>3, <1>5 DEF Inserted
<1> QED BY <1>3, <1>4, <1>6, <1>7 DEF Inserted, t, q

(* The keys of a new item.                                                 *)
LEMMA NewKeys ==
    ASSUME NEW u, NEW d, NEW a
    PROVE  /\ list_key("type", new_item(u, d, a)) = <<AnyUser, d.type>>
           /\ list_key("user", new_item(u, d, a)) = <<u, d.type>>
BY DEF list_key, new_item

(* The last item of a user's list is a live one of that key.               *)
LEMMA LastOfUser ==
    ASSUME NEW s, Good(s), NEW u \in 0 .. NumUsers, NEW type \in B!FundType,
           NEW last, last = s.lists[<<u, type>>].last, last # 0
    PROVE  /\ Live(s, last) /\ s.fund_by_id[last].user_id = u
           /\ s.fund_by_id[last].fund_desc.type = type
<1> DEFINE key == <<u, type>>
<1>1. key \in Keys /\ key \in KeysOf("user") /\ "user" \in Kinds
  BY FundModuleAssumption DEF Keys, KeysOf, AnyUser, Kinds
<1>2. last \in Mem(s, "user", key)
  <2> HIDE DEF key
  <2>1. last = s.lists[key].last
    BY DEF key
  <2> QED BY <1>1, <2>1, GoodEnd
<1>3. Live(s, last) /\ list_key("user", s.fund_by_id[last]) = key
  BY <1>2, MemberIs
<1> QED BY <1>3 DEF list_key

(* The same for the list of a type.                                        *)
LEMMA LastOfType ==
    ASSUME NEW s, Good(s), NEW type \in B!FundType,
           NEW last, last = s.lists[<<AnyUser, type>>].last, last # 0
    PROVE  Live(s, last) /\ s.fund_by_id[last].fund_desc.type = type
<1> DEFINE key == <<AnyUser, type>>
<1>1. key \in Keys /\ key \in KeysOf("type") /\ "type" \in Kinds
  BY DEF Keys, KeysOf, Kinds
<1>2. last \in Mem(s, "type", key)
  <2> HIDE DEF key
  <2>1. last = s.lists[key].last
    BY DEF key
  <2> QED BY <1>1, <2>1, GoodEnd
<1>3. Live(s, last) /\ list_key("type", s.fund_by_id[last]) = key
  BY <1>2, MemberIs
<1> QED BY <1>3 DEF list_key

(* Adding a balance keeps a store consistent.                              *)
LEMMA GoodIncreased ==
    ASSUME NEW s, Good(s), NEW u \in 1 .. NumUsers, NEW d \in FundDesc,
           NEW a \in Nat \ {0}, NEW r, Increased(s, r, u, d, a)
    PROVE  Good(r)
<1>1. u \in 0 .. NumUsers /\ d.type \in B!FundType
  BY FundModuleAssumption DEF FundDesc
<1>2. CASE Coalesces(s, u, d)
  <2> DEFINE last == s.lists[<<u, d.type>>].last
             b == s.fund_by_id[last].balance + a
  <2>1. Live(s, last) /\ s \in Store
    BY <1>1, <1>2, LastOfUser DEF Coalesces, Good
  <2>2. b \in Nat \ {0}
    BY <2>1, StoreFields, ItemFields DEF Live
  <2>3. Rebalanced(s, r, last, b)
    BY <1>2 DEF Increased
  <2> HIDE DEF last, b
  <2> QED BY <2>1, <2>2, <2>3, GoodRebalanced
<1>3. CASE ~Coalesces(s, u, d)
  <2> DEFINE item == new_item(u, d, a)
             id == s.fund_max_id + 1
  <2>1. item \in FundItem /\ item.user_id \in 1 .. NumUsers /\ item.balance > 0
    BY <1>1, NewItem DEF FundDesc
  <2>2. id \in Ids /\ Inserted(s, r, id, item)
    BY <1>3 DEF Increased
  <2> HIDE DEF item, id
  <2> QED BY <2>1, <2>2, GoodInserted
<1> QED BY <1>2, <1>3

-----------------------------------------------------------------------------
(* Converting an item *)

(* r is s with the amount x taken out of the item id.                      *)
Taken(s, r, id, x) ==
    LET b == s.fund_by_id[id].balance
    IN  /\ x \in 1 .. b
        /\ x = b => Erased(s, r, id)
        /\ x < b => Rebalanced(s, r, id, b - x)

MaxAmount == Nat \cup {NoMax}

taken_of(item, max) == IF max = NoMax \/ max >= item.balance
                       THEN item.balance ELSE max

(* decrease_fund_balance and saving what is left.                          *)
LEMMA Decrease ==
    ASSUME NEW s, Good(s), NEW id, Live(s, id), NEW max \in MaxAmount, max # 0,
           NEW d, d = decrease_fund_balance(s, s.fund_by_id[id], max)
    PROVE  /\ d.s \in Store /\ d.item \in FundItem
           /\ s.fund_by_id[id].balance - d.item.balance
                = taken_of(s.fund_by_id[id], max)
           /\ Taken(s, set_fund(d.s, id, d.item), id,
                    taken_of(s.fund_by_id[id], max))
           /\ d.s.fund_max_id = s.fund_max_id
           /\ \A k \in Ids \ {id} :
                 d.s.fund_by_id[k].balance = s.fund_by_id[k].balance
<1> DEFINE item == s.fund_by_id[id]
           b == item.balance
           x == taken_of(item, max)
           r == set_fund(d.s, id, d.item)
<1>1. /\ s \in Store /\ id \in Ids /\ item \in FundItem /\ b \in Nat /\ b > 0
      /\ HasKeys(item)
  BY GoodItem, ItemFields DEF Good, Live
<1>2. CASE max = NoMax \/ max >= b
  <2>1. d = delete_fund(s, item) /\ x = b
    BY <1>2 DEF decrease_fund_balance, taken_of
  <2>2. TotalsCover(s, id, 0) /\ LinksAreLive(s, id)
    BY GoodTotals, GoodLinks
  <2>3. /\ CutOut(s, d.s, id)
        /\ d.item \in FundItem /\ d.item.balance = 0
        /\ saved(d.item) = DefaultItem
    BY <1>1, <2>1, <2>2, DeleteFund
  <2>4. d.s \in Store /\ d.s.fund_max_id = s.fund_max_id
        /\ \A k \in Ids \ {id} :
              d.s.fund_by_id[k].balance = s.fund_by_id[k].balance
    BY <2>3 DEF CutOut, SameEntry
  <2>5. /\ r \in Store /\ r.fund_by_id[id] = DefaultItem
        /\ \A k \in Ids \ {id} : r.fund_by_id[k] = d.s.fund_by_id[k]
        /\ r.fund_max_id = d.s.fund_max_id /\ r.lists = d.s.lists
    BY <1>1, <2>3, <2>4, SetFund
  <2>6. Erased(s, r, id)
    <3> HIDE DEF r
    <3>1. CutOut(s, r, id)
      BY <2>3, <2>5 DEF CutOut
    <3> QED BY <2>5, <3>1 DEF Erased
  <2>7. Taken(s, r, id, x)
    BY <1>1, <2>1, <2>6 DEF Taken
  <2> QED BY <1>1, <2>1, <2>3, <2>4, <2>7
<1>3. CASE ~(max = NoMax \/ max >= b)
  <2> DEFINE new == [item EXCEPT !.balance = b - max]
             t   == change_totals(s, item, 0 - max)
  <2>1. d = [s |-> t, item |-> new] /\ x = max /\ max \in Nat \ {0} /\ max < b
    BY <1>1, <1>3 DEF decrease_fund_balance, taken_of, MaxAmount, NoMax
  <2>2. new \in FundItem /\ new.balance = b - max
    <3> HIDE DEF b
    <3> QED BY <1>1, <2>1 DEF FundItem
  <2> DEFINE c == b - max
  <2>3. c \in Nat \ {0} /\ 0 - max = c - item.balance
    BY <1>1, <2>1
  <2>4. TotalsCover(s, id, c)
    BY <2>3, GoodTotals
  <2>5. Rebalanced(s, set_fund(change_totals(s, s.fund_by_id[id],
                                             c - s.fund_by_id[id].balance),
                               id, [s.fund_by_id[id] EXCEPT !.balance = c]),
                   id, c)
    <3> HIDE DEF c
    <3> QED BY <1>1, <2>3, <2>4, Rebalance
  <2>6. Rebalanced(s, r, id, b - x)
    BY <2>1, <2>3, <2>5
  <2>7. Taken(s, r, id, x)
    <3> HIDE DEF r, x
    <3> QED BY <1>1, <2>1, <2>6 DEF Taken
  <2>8. t \in Store /\ t.fund_by_id = s.fund_by_id
        /\ t.fund_max_id = s.fund_max_id
    <3> DEFINE a == 0 - max
    <3>1. a \in Int
      BY <2>1
    <3>2. \A key \in Keys : IsKeyOf(key, item) =>
             s.lists[key].total_balance + a \in Nat
      BY <2>3, <2>4 DEF TotalsCover
    <3>3. t = change_totals(s, item, a)
      OBVIOUS
    <3> HIDE DEF a, t, item
    <3> QED BY <1>1, <3>1, <3>2, <3>3, ChangeTotals
  <2>9. b - (b - max) = max
    BY <1>1, <2>1
  <2> HIDE DEF t, new
  <2> QED BY <2>1, <2>2, <2>7, <2>8, <2>9
<1> QED BY <1>2, <1>3

(* Taking a balance out keeps a store consistent.                          *)
LEMMA GoodTaken ==
    ASSUME NEW s, Good(s), NEW id, Live(s, id), NEW x, NEW r,
           Taken(s, r, id, x)
    PROVE  Good(r) /\ r.fund_max_id = s.fund_max_id
<1> DEFINE b == s.fund_by_id[id].balance
<1>1. b \in Nat /\ x \in 1 .. b
  BY StoreFields, ItemFields DEF Good, Live, Taken
<1>2. CASE x = b
  <2>1. Erased(s, r, id)
    BY <1>2 DEF Taken
  <2> QED BY <2>1, GoodErased DEF Erased, CutOut
<1>3. CASE x < b
  <2>1. Rebalanced(s, r, id, b - x) /\ b - x \in Nat \ {0}
    BY <1>1, <1>3 DEF Taken
  <2> HIDE DEF b
  <2>2. Good(r)
    BY <2>1, GoodRebalanced
  <2> QED BY <2>1, <2>2 DEF Rebalanced
<1> QED BY <1>1, <1>2, <1>3

All == 1 .. 2 * MaxId

target(s, u, d) == IF Coalesces(s, u, d) THEN s.lists[<<u, d.type>>].last
                   ELSE s.fund_max_id + 1

(* What taking a balance out does to the items.                            *)
LEMMA TakenItems ==
    ASSUME NEW s, Good(s), NEW id, Live(s, id), NEW x, NEW r,
           Taken(s, r, id, x)
    PROVE  /\ \A k \in Ids \ {id} : SameEntry(r.fund_by_id[k], s.fund_by_id[k])
           /\ r.fund_by_id[id].balance = s.fund_by_id[id].balance - x
           /\ \/ r.fund_by_id[id] = DefaultItem
              \/ /\ r.fund_by_id[id].fund_desc = s.fund_by_id[id].fund_desc
                 /\ r.fund_by_id[id].user_id = s.fund_by_id[id].user_id
           /\ sum_of(r, All) = sum_of(s, All) - x
           /\ x \in Nat \ {0}
<1> DEFINE item == s.fund_by_id[id]
           b == item.balance
<1>1. /\ b \in Nat /\ x \in 1 .. b /\ x \in Nat \ {0} /\ s \in Store /\ r \in Store
      /\ item \in FundItem /\ id \in Ids /\ id \in 1 .. 2 * MaxId
  <2>1. item \in FundItem /\ id \in 1 .. 2 * MaxId
    BY GoodItem
  <2>2. b \in Nat /\ x \in 1 .. b
    BY <2>1, ItemFields DEF Taken
  <2>3. s \in Store /\ r \in Store /\ id \in Ids
    BY GoodTaken DEF Good, Live
  <2> QED BY <2>1, <2>2, <2>3
<1>2. /\ \A k \in Ids \ {id} : SameEntry(r.fund_by_id[k], s.fund_by_id[k])
      /\ r.fund_by_id[id].balance = b - x
      /\ \/ r.fund_by_id[id] = DefaultItem
         \/ /\ r.fund_by_id[id].fund_desc = item.fund_desc
            /\ r.fund_by_id[id].user_id = item.user_id
  <2>1. CASE x = b
    <3>1. Erased(s, r, id)
      BY <2>1 DEF Taken
    <3> QED BY <1>1, <2>1, <3>1 DEF Erased, CutOut, DefaultItem
  <2>2. CASE x < b
    <3>1. Rebalanced(s, r, id, b - x)
      BY <2>2 DEF Taken
    <3>2. r.fund_by_id[id] = [item EXCEPT !.balance = b - x]
      BY <3>1 DEF Rebalanced
    <3>3. \A k \in Ids \ {id} : SameEntry(r.fund_by_id[k], s.fund_by_id[k])
      BY <3>1 DEF Rebalanced, SameEntry
    <3> HIDE DEF item
    <3> QED BY <1>1, <3>2, <3>3 DEF FundItem
  <2> QED BY <1>1, <2>1, <2>2
<1>3. sum_of(r, All) = sum_of(s, All) + (share(r, All, id) - share(s, All, id))
  <2>1. ASSUME NEW k \in 1 .. 2 * MaxId, k # id
        PROVE  share(s, All, k) = share(r, All, k)
    <3>1. k \in Ids
      BY <1>1, SumOfShares
    <3> QED BY <1>2, <2>1, <3>1 DEF share, SameEntry
  <2> QED BY <1>1, <2>1, SumOfPoint
<1>4. share(r, All, id) = b - x /\ share(s, All, id) = b
      /\ sum_of(s, All) \in Nat
  BY <1>1, <1>2, SumOfMember DEF share, All
<1> QED BY <1>1, <1>2, <1>3, <1>4

(* What adding a balance does to the items.                                *)
LEMMA IncreasedItems ==
    ASSUME NEW s, Good(s), NEW u \in 1 .. NumUsers, NEW d \in FundDesc,
           NEW a \in Nat \ {0}, NEW r, Increased(s, r, u, d, a),
           NEW id, id = target(s, u, d)
    PROVE  /\ id \in All /\ id \in Ids /\ id # 0
           /\ \A k \in Ids \ {id} : SameEntry(r.fund_by_id[k], s.fund_by_id[k])
           /\ r.fund_by_id[id].user_id = u /\ r.fund_by_id[id].fund_desc = d
           /\ r.fund_by_id[id].balance = s.fund_by_id[id].balance + a
           /\ \/ s.fund_by_id[id] = DefaultItem /\ id = s.fund_max_id + 1
              \/ /\ s.fund_by_id[id].fund_desc = d
                 /\ s.fund_by_id[id].user_id = u
                 /\ Live(s, id)
           /\ sum_of(r, All) = sum_of(s, All) + a
           /\ r.fund_max_id >= s.fund_max_id
<1>1. u \in 0 .. NumUsers /\ d.type \in B!FundType /\ s \in Store /\ r \in Store
      /\ s.fund_max_id \in Nat
  BY FundModuleAssumption, GoodIncreased, StoreFields DEF FundDesc, Good
<1>2. /\ id \in All /\ id \in Ids /\ id # 0
      /\ \A k \in Ids \ {id} : SameEntry(r.fund_by_id[k], s.fund_by_id[k])
      /\ r.fund_by_id[id].user_id = u /\ r.fund_by_id[id].fund_desc = d
      /\ r.fund_by_id[id].balance = s.fund_by_id[id].balance + a
      /\ s.fund_by_id[id].balance \in Nat
      /\ \/ s.fund_by_id[id] = DefaultItem /\ id = s.fund_max_id + 1
         \/ /\ s.fund_by_id[id].fund_desc = d
            /\ s.fund_by_id[id].user_id = u
            /\ Live(s, id)
      /\ r.fund_max_id >= s.fund_max_id
  <2>1. CASE Coalesces(s, u, d)
    <3> DEFINE item == s.fund_by_id[id]
    <3>1. id = s.lists[<<u, d.type>>].last /\ id # 0 /\ item.fund_desc = d
      BY <2>1 DEF target, Coalesces
    <3>2. Live(s, id) /\ item.user_id = u
      BY <1>1, <3>1, LastOfUser
    <3>3. id \in Ids /\ item \in FundItem /\ id \in 1 .. 2 * MaxId
          /\ item.balance \in Nat
      BY <1>1, <3>2, GoodItem, ItemFields DEF Live
    <3>4. Rebalanced(s, r, id, item.balance + a)
      BY <2>1, <3>1 DEF Increased
    <3>5. /\ r.fund_by_id[id] = [item EXCEPT !.balance = item.balance + a]
          /\ \A k \in Ids \ {id} : SameEntry(r.fund_by_id[k], s.fund_by_id[k])
          /\ r.fund_max_id = s.fund_max_id
      BY <3>4 DEF Rebalanced, SameEntry
    <3>6. /\ r.fund_by_id[id].user_id = u /\ r.fund_by_id[id].fund_desc = d
          /\ r.fund_by_id[id].balance = item.balance + a
      <4> HIDE DEF item
      <4> QED BY <3>1, <3>2, <3>3, <3>5 DEF FundItem
    <3> HIDE DEF item
    <3> QED BY <1>1, <3>1, <3>2, <3>3, <3>5, <3>6 DEF All, item
  <2>2. CASE ~Coalesces(s, u, d)
    <3> DEFINE item == new_item(u, d, a)
    <3>1. id = s.fund_max_id + 1 /\ id \in Ids /\ Inserted(s, r, id, item)
      BY <2>2 DEF Increased, target
    <3>2. id # 0 /\ id \in All
      BY <1>1, <3>1 DEF Ids, All
    <3>3. s.fund_by_id[id] = DefaultItem
      BY <1>1, <3>1 DEF Good, ItemOK
    <3>4. SameEntry(r.fund_by_id[id], item) /\ r.fund_max_id = id
          /\ \A k \in Ids \ {id} : SameEntry(r.fund_by_id[k], s.fund_by_id[k])
      BY <3>1 DEF Inserted
    <3>5. item.user_id = u /\ item.fund_desc = d /\ item.balance = a
      BY DEF new_item
    <3> HIDE DEF item
    <3> QED BY <1>1, <3>1, <3>2, <3>3, <3>4, <3>5 DEF SameEntry, DefaultItem
  <2> QED BY <2>1, <2>2
<1>3. sum_of(r, All) = sum_of(s, All) + (share(r, All, id) - share(s, All, id))
  <2>1. ASSUME NEW k \in 1 .. 2 * MaxId, k # id
        PROVE  share(s, All, k) = share(r, All, k)
    <3>1. k \in Ids
      BY <1>1, SumOfShares
    <3> QED BY <1>2, <2>1, <3>1 DEF share, SameEntry
  <2>2. id \in 1 .. 2 * MaxId
    BY <1>2 DEF All
  <2> QED BY <1>1, <2>1, <2>2, SumOfPoint
<1>4. /\ share(r, All, id) = s.fund_by_id[id].balance + a
      /\ share(s, All, id) = s.fund_by_id[id].balance
      /\ sum_of(s, All) \in Nat
  BY <1>1, <1>2, SumOfMember DEF share
<1>5. sum_of(r, All) = sum_of(s, All) + a
  BY <1>2, <1>3, <1>4
<1> QED BY <1>2, <1>5

(* r is s with the amount x of the item id converted to the description d. *)
Converted(s, r, id, x, d) ==
    \E s2 : /\ Taken(s, s2, id, x)
            /\ IF d = Destroyed THEN r = s2
               ELSE Increased(s2, r, s.fund_by_id[id].user_id, d, x)

(* split_convert_individual_fund converts, if the new description has      *)
(* another type.                                                           *)
LEMMA Convert ==
    ASSUME NEW s, Good(s), NEW id, Live(s, id), NEW max \in MaxAmount, max # 0,
           NEW item, item = s.fund_by_id[id],
           NEW dec, dec = decrease_fund_balance(s, item, max),
           NEW d, d = Destroyed \/ (d \in FundDesc
                                    /\ d.type # item.fund_desc.type),
           NEW r, r = split_convert_individual_fund(id, item, dec, d),
           d # Destroyed => Room(r)
    PROVE  Converted(s, r, id, taken_of(item, max), d)
<1> DEFINE x  == taken_of(item, max)
           s1 == dec.s
           y  == dec.item
           s2 == set_fund(s1, id, y)
           u  == item.user_id
           q  == increase_fund_balance(s1, u, d, x)
<1>1. /\ s1 \in Store /\ y \in FundItem /\ item.balance - y.balance = x
      /\ Taken(s, s2, id, x)
      /\ s1.fund_max_id = s.fund_max_id
      /\ \A k \in Ids \ {id} : s1.fund_by_id[k].balance = s.fund_by_id[k].balance
  BY Decrease
<1> HIDE DEF x, s1, y, s2
<1>2. id \in Ids /\ id \in 1 .. s.fund_max_id /\ u \in 1 .. NumUsers
  BY GoodItem DEF Live
<1>3. s2 = set_fund(s1, id, y)
  BY DEF s2
<1>4. CASE d = Destroyed
  <2>1. r = s2
    BY <1>4, <1>3 DEF split_convert_individual_fund, s1, y
  <2> QED BY <1>1, <1>4, <2>1 DEF Converted, x
<1>5. CASE d # Destroyed
  <2>1. r = set_fund(q, id, y) /\ d \in FundDesc
        /\ d.type # item.fund_desc.type /\ d.type \in B!FundType
    BY <1>1, <1>5 DEF split_convert_individual_fund, s1, y, FundDesc
  <2>2. Good(s2) /\ s2.fund_max_id = s.fund_max_id
    BY <1>1, GoodTaken
  <2>3. /\ s2.lists = s1.lists
        /\ \A k \in Ids \ {id} : s2.fund_by_id[k] = s1.fund_by_id[k]
    BY <1>1, <1>2, <1>3, SetFund
  <2>4. ~(Live(s2, id) /\ s2.fund_by_id[id].fund_desc.type = d.type)
    BY <1>1, <2>1, TakenItems DEF Live, DefaultItem
  <2> DEFINE ku == <<u, d.type>>
             kt == <<AnyUser, d.type>>
  <2>5. ku \in Keys /\ kt \in Keys /\ u \in 0 .. NumUsers
    BY <1>2, <2>1, FundModuleAssumption DEF Keys
  <2>6. s1.lists[ku].last # id /\ s1.lists[kt].last # id
    <3>1. id # 0
      BY <1>2
    <3>2. s2.lists[ku].last # id
      BY <2>1, <2>2, <2>4, <2>5, <3>1, LastOfUser
    <3>3. s2.lists[kt].last # id
      BY <2>1, <2>2, <2>4, <3>1, LastOfType
    <3> QED BY <2>3, <3>2, <3>3
  <2>7. EndIsLive(s1, ku) /\ EndIsLive(s1, kt)
    <3>1. EndIsLive(s2, ku) /\ EndIsLive(s2, kt)
      BY <2>2, <2>5, GoodEnd
    <3> QED BY <2>3, <2>6, <3>1 DEF EndIsLive
  <2>8. s1.fund_max_id + 1 \in Ids =>
            s1.fund_by_id[s1.fund_max_id + 1].balance = 0
    <3>1. SUFFICES ASSUME s.fund_max_id + 1 \in Ids
                   PROVE  s1.fund_by_id[s.fund_max_id + 1].balance = 0
      BY <1>1
    <3>2. s.fund_max_id \in Nat
      BY StoreFields DEF Good
    <3>3. s.fund_by_id[s.fund_max_id + 1] = DefaultItem
      BY <3>1, <3>2 DEF Good, ItemOK
    <3>4. s.fund_max_id + 1 # id
      BY <1>2, <3>2
    <3> QED BY <1>1, <3>1, <3>3, <3>4 DEF DefaultItem
  <2>9. Room(q) /\ Shaped(q)
    <3>1. Shaped(q)
      BY <1>1, StoreShape, MaxIncrease DEF GrowsByOne
    <3>2. r.fund_max_id = q.fund_max_id
      BY <2>1, <3>1, MaxOps DEF SameMax
    <3> QED BY <1>5, <3>1, <3>2 DEF Room
  <2>10. x \in Nat \ {0}
    BY <1>1, TakenItems
  <2> HIDE DEF q, u
  <2>11. Increased(s1, q, u, d, x)
    BY <1>1, <2>1, <2>5, <2>7, <2>8, <2>9, <2>10, Increase DEF q
  <2>12. Coalesces(s2, u, d) <=> Coalesces(s1, u, d)
    <3>1. s1.lists[ku].last = 0 \/ s1.lists[ku].last \in Ids
      BY <2>7 DEF EndIsLive, DefaultList
    <3> QED BY <2>3, <2>6, <3>1 DEF Coalesces
  <2>13. ASSUME Coalesces(s2, u, d)
         PROVE  Rebalanced(s2, r, s2.lists[ku].last,
                           s2.fund_by_id[s2.lists[ku].last].balance + x)
    <3> DEFINE last == s1.lists[ku].last
               b == s1.fund_by_id[last].balance + x
    <3>1. Rebalanced(s1, q, last, b)
      BY <2>11, <2>12, <2>13 DEF Increased
    <3>2. last \in Ids /\ last # id
      BY <2>6, <2>7, <2>12, <2>13 DEF EndIsLive, DefaultList, Coalesces
    <3>3. Rebalanced(s2, r, last, b)
      <4> HIDE DEF last, b
      <4> QED BY <1>1, <1>2, <1>3, <2>1, <3>1, <3>2, RebalancedAround
    <3> QED BY <2>3, <3>2, <3>3
  <2>14. ASSUME ~Coalesces(s2, u, d)
         PROVE  /\ s2.fund_max_id + 1 \in Ids
                /\ Inserted(s2, r, s2.fund_max_id + 1, new_item(u, d, x))
    <3> DEFINE new == s1.fund_max_id + 1
               n == new_item(u, d, x)
    <3>1. new \in Ids /\ Inserted(s1, q, new, n)
      BY <2>11, <2>12, <2>14 DEF Increased
    <3>2. new # id
      BY <1>1, <1>2, StoreFields
    <3>3. \A kind \in Kinds : s1.lists[list_key(kind, n)].last # id
      BY <2>6, NewKeys DEF Kinds
    <3>4. Inserted(s2, r, new, n)
      <4> HIDE DEF new, n
      <4> QED BY <1>1, <1>2, <1>3, <2>1, <3>1, <3>2, <3>3, InsertedAround
    <3> QED BY <1>1, <2>2, <3>1, <3>4
  <2>15. Increased(s2, r, u, d, x)
    BY <2>13, <2>14 DEF Increased
  <2> QED BY <1>1, <1>5, <2>15 DEF Converted, x, u
<1> QED BY <1>4, <1>5

-----------------------------------------------------------------------------
(* The traversal *)

(* What the bounds of the model ask of a store besides consistency.        *)
Bounded(s) == /\ \A k \in Ids : s.fund_by_id[k].fund_desc.created <= NonceBound
              /\ sum_of(s, All) <= DepositBound

(* A conversion keeps consistency and the bounds, and does not touch the   *)
(* other items of types other than the new one.                            *)
LEMMA ConvertedKeeps ==
    ASSUME NEW s, Good(s), NEW id, Live(s, id), NEW x, NEW r, NEW d,
           d = Destroyed \/ d \in FundDesc, Converted(s, r, id, x, d)
    PROVE  /\ Good(r) /\ r.fund_max_id >= s.fund_max_id
           /\ \A k \in Ids \ {id} :
                 Live(s, k) /\ s.fund_by_id[k].fund_desc.type # d.type =>
                     SameEntry(r.fund_by_id[k], s.fund_by_id[k])
           /\ Bounded(s) /\ d.created <= NonceBound => Bounded(r)
<1>1. PICK s2 : /\ Taken(s, s2, id, x)
                /\ IF d = Destroyed THEN r = s2
                   ELSE Increased(s2, r, s.fund_by_id[id].user_id, d, x)
  BY DEF Converted
<1> DEFINE u == s.fund_by_id[id].user_id
<1>2. u \in 1 .. NumUsers /\ x \in Nat \ {0} /\ s.fund_max_id \in Nat
      /\ s \in Store
  BY <1>1, GoodItem, TakenItems, StoreFields DEF Good
<1>3. /\ Good(s2) /\ s2.fund_max_id = s.fund_max_id /\ s2 \in Store
      /\ \A k \in Ids \ {id} : SameEntry(s2.fund_by_id[k], s.fund_by_id[k])
      /\ sum_of(s2, All) = sum_of(s, All) - x
  BY <1>1, GoodTaken, TakenItems DEF Good
<1>4. Bounded(s) => \A k \in Ids : s2.fund_by_id[k].fund_desc.created <= NonceBound
  <2>1. \/ s2.fund_by_id[id] = DefaultItem
        \/ s2.fund_by_id[id].fund_desc = s.fund_by_id[id].fund_desc
    BY <1>1, TakenItems
  <2>2. DefaultItem.fund_desc.created <= NonceBound
    BY FundModuleAssumption DEF DefaultItem, B!WithdrawOnly
  <2> QED BY <1>3, <2>1, <2>2 DEF Bounded, SameEntry
<1>5. sum_of(s, All) \in Nat /\ sum_of(s2, All) \in Nat
  BY <1>2, <1>3, SumOfMember
<1>6. CASE d = Destroyed
  <2>1. r = s2
    BY <1>1, <1>6
  <2>2. Bounded(s) => Bounded(r)
    BY <1>2, <1>3, <1>4, <1>5, <2>1, FundModuleAssumption DEF Bounded
  <2> QED BY <1>2, <1>3, <2>1, <2>2
<1>7. CASE d # Destroyed
  <2> DEFINE new == target(s2, u, d)
  <2>1. Increased(s2, r, u, d, x) /\ d \in FundDesc
    BY <1>1, <1>7
  <2> HIDE DEF u, new
  <2>2. Good(r)
    BY <1>2, <1>3, <2>1, GoodIncreased
  <2>3. /\ new \in Ids
        /\ \A k \in Ids \ {new} : SameEntry(r.fund_by_id[k], s2.fund_by_id[k])
        /\ r.fund_by_id[new].fund_desc = d
        /\ \/ s2.fund_by_id[new] = DefaultItem
           \/ s2.fund_by_id[new].fund_desc = d
        /\ sum_of(r, All) = sum_of(s2, All) + x
        /\ r.fund_max_id >= s2.fund_max_id
    <3>1. new = target(s2, u, d)
      BY DEF new
    <3> QED BY <1>2, <1>3, <2>1, <3>1, IncreasedItems
  <2>4. ASSUME NEW k \in Ids \ {id}, Live(s, k),
               s.fund_by_id[k].fund_desc.type # d.type
        PROVE  SameEntry(r.fund_by_id[k], s.fund_by_id[k])
    <3>1. SameEntry(s2.fund_by_id[k], s.fund_by_id[k])
      BY <1>3
    <3>2. k # new
      BY <2>3, <2>4, <3>1 DEF SameEntry, Live, DefaultItem
    <3> QED BY <2>3, <3>1, <3>2 DEF SameEntry
  <2>5. Bounded(s) /\ d.created <= NonceBound => Bounded(r)
    <3>1. Bounded(s) => sum_of(r, All) <= DepositBound
      BY <1>2, <1>3, <1>5, <2>3, FundModuleAssumption DEF Bounded
    <3>2. Bounded(s) /\ d.created <= NonceBound =>
             \A k \in Ids : r.fund_by_id[k].fund_desc.created <= NonceBound
      BY <1>4, <2>3 DEF SameEntry
    <3> QED BY <3>1, <3>2 DEF Bounded
  <2> QED BY <1>3, <2>2, <2>3, <2>4, <2>5
<1> QED BY <1>6, <1>7

(* What a filter may answer about the items of a type.                     *)
FilterOK(filter_transf, type) ==
    \A item \in FundItem :
        (item.fund_desc.type = type /\ item.fund_desc.created <= NonceBound)
        => LET d == filter_transf[item]
           IN  \/ d = B!NoDescription
               \/ d = Destroyed
               \/ /\ d \in FundDesc /\ d.type # type
                  /\ d.created <= NonceBound

(* A state of the traversal of the list key of a kind.                     *)
Traversing(t, kind, key) ==
    /\ t = [s |-> t.s, id |-> t.id, left |-> t.left, visited |-> t.visited]
    /\ Good(t.s) /\ Bounded(t.s) /\ Fits(t.s)
    /\ t.id = 0 \/ t.id \in Mem(t.s, kind, key)
    /\ t.left \in MaxAmount

(* Or one that will not be committed.                                      *)
Overflown(t) ==
    /\ t = [s |-> t.s, id |-> t.id, left |-> t.left, visited |-> t.visited]
    /\ Shaped(t.s) /\ ~Fits(t.s)

(* The next item of the traversal.                                         *)
LEMMA NeighbourIs ==
    ASSUME NEW s, Good(s), NEW kind \in Kinds, NEW key \in KeysOf(kind),
           NEW id \in Mem(s, kind, key), NEW direction,
           NEW n, n = neighbour(s.fund_by_id[id], kind, direction)
    PROVE  n = 0 \/ (n \in Mem(s, kind, key) /\ n # id)
<1> DEFINE M == Mem(s, kind, key)
<1>1. ListOK(s, kind, key)
  BY DEF Good
<1>2. /\ IsNext(M, id, s.fund_by_id[id].next[kind])
      /\ IsPrev(M, id, s.fund_by_id[id].prev[kind])
  BY <1>1 DEF ListOK
<1>3. M \in SUBSET (Nat \ {0}) /\ id \in M
  BY MemberIs
<1> HIDE DEF M
<1>4. \/ n = s.fund_by_id[id].next[kind]
      \/ n = s.fund_by_id[id].prev[kind]
  BY DEF neighbour
<1>5. n = 0 \/ (n \in M /\ n # id)
  BY <1>2, <1>3, <1>4 DEF IsNext, IsPrev
<1> QED BY <1>5 DEF M

(* An iteration keeps the traversal in its list.                           *)
LEMMA Visit ==
    ASSUME NEW t, NEW kind \in Kinds, NEW key \in KeysOf(kind),
           Traversing(t, kind, key), NEW direction, NEW filter_transf,
           FilterOK(filter_transf, key[2]),
           NEW r, r = visit(t, kind, direction, filter_transf), Fits(r.s)
    PROVE  /\ Traversing(r, kind, key)
           /\ \/ r = t \/ r.s = t.s
              \/ \E d : /\ filter_transf[t.s.fund_by_id[t.id]] = d
                        /\ Converted(t.s, r.s, t.id,
                               taken_of(t.s.fund_by_id[t.id], t.left), d)
<1> DEFINE s == t.s
           item == s.fund_by_id[t.id]
           desc == filter_transf[item]
           nid  == neighbour(item, kind, direction)
           skip == [t EXCEPT !.id = nid, !.visited = @ + 1]
           dec  == decrease_fund_balance(s, item, t.left)
           conv == converted(t, item, dec, desc, nid)
<1>1. CASE t.id = 0 \/ t.left = 0
  BY <1>1 DEF visit
<1>2. CASE ~(t.id = 0 \/ t.left = 0)
  <2>1. /\ Good(s) /\ Bounded(s) /\ t.id \in Mem(s, kind, key)
        /\ t.left \in MaxAmount /\ t.left # 0 /\ Fits(s)
        /\ t = [s |-> s, id |-> t.id, left |-> t.left, visited |-> t.visited]
    BY <1>2 DEF Traversing
  <2>2. Live(s, t.id) /\ list_key(kind, item) = key
    BY <2>1, MemberIs
  <2>3. /\ item \in FundItem /\ item.fund_desc.type = key[2]
        /\ item.fund_desc.created <= NonceBound
    BY <2>1, <2>2, GoodItem DEF list_key, Bounded, Live
  <2>4. nid = 0 \/ (nid \in Mem(s, kind, key) /\ nid # t.id)
    <3> HIDE DEF nid, s
    <3>1. nid = neighbour(s.fund_by_id[t.id], kind, direction)
      BY DEF nid
    <3> QED BY <2>1, <3>1, NeighbourIs
  <2>5. CASE desc = B!NoDescription
    <3>1. r = skip
      BY <1>2, <2>5 DEF visit
    <3>2. r = [s |-> s, id |-> nid, left |-> t.left, visited |-> t.visited + 1]
      <4> HIDE DEF nid, s
      <4> QED BY <2>1, <3>1 DEF s
    <3> HIDE DEF s, nid
    <3> QED BY <2>1, <2>4, <3>2 DEF Traversing, s
  <2>6. CASE desc # B!NoDescription
    <3> DEFINE q == split_convert_individual_fund(t.id, item, dec, desc)
               left == IF t.left = NoMax THEN NoMax
                       ELSE t.left - (item.balance - dec.item.balance)
    <3>1. r = conv
      BY <1>2, <2>6 DEF visit
    <3>2. r = [s |-> q, id |-> nid, left |-> left, visited |-> t.visited + 1]
      BY <3>1 DEF converted
    <3>3. \/ desc = Destroyed
          \/ /\ desc \in FundDesc /\ desc.type # item.fund_desc.type
             /\ desc.created <= NonceBound
      BY <2>3, <2>6 DEF FilterOK
    <3> HIDE DEF desc, dec, nid
    <3>4. Fits(q) /\ Room(q)
      <4>1. GrowsByOne(s, r.s)
        BY <2>1, StoreShape, MaxVisit DEF Good
      <4> QED BY <3>2, <4>1, FitHasRoom DEF GrowsByOne
    <3>5. dec = decrease_fund_balance(s, item, t.left)
      BY DEF dec
    <3>6. Converted(s, q, t.id, taken_of(item, t.left), desc)
      <4> HIDE DEF q, s
      <4>1. q = split_convert_individual_fund(t.id, item, dec, desc)
        BY DEF q
      <4> QED BY <2>1, <2>2, <3>3, <3>4, <3>5, <4>1, Convert
    <3>7. desc.created <= NonceBound /\ desc.type # item.fund_desc.type
      BY <2>3, <3>3, FundModuleAssumption, ItemFields DEF Destroyed, B!FundType
    <3> HIDE DEF q, left
    <3>8. /\ Good(q)
          /\ \A k \in Ids \ {t.id} :
                Live(s, k) /\ s.fund_by_id[k].fund_desc.type # desc.type =>
                    SameEntry(q.fund_by_id[k], s.fund_by_id[k])
          /\ Bounded(q)
      <4> DEFINE x == taken_of(item, t.left)
                 id == t.id
      <4> HIDE DEF s, x, id
      <4>1. Live(s, id) /\ Converted(s, q, id, x, desc) /\ t.id = id
        BY <2>2, <3>6 DEF x, id
      <4> QED BY <2>1, <3>3, <3>7, <4>1, ConvertedKeeps
    <3>9. nid = 0 \/ nid \in Mem(q, kind, key)
      <4>1. CASE nid \in Mem(s, kind, key) /\ nid # t.id
        <5>1. Live(s, nid) /\ nid # 0 /\ list_key(kind, s.fund_by_id[nid]) = key
              /\ nid \in Ids
          BY <4>1, MemberIs DEF Live
        <5>2. s.fund_by_id[nid].fund_desc.type # desc.type
          BY <2>2, <3>7, <5>1 DEF list_key
        <5>3. SameEntry(q.fund_by_id[nid], s.fund_by_id[nid])
          BY <3>8, <4>1, <5>1, <5>2
        <5>4. Live(q, nid) /\ list_key(kind, q.fund_by_id[nid]) = key
          BY <5>1, <5>3 DEF Live, SameEntry, list_key
        <5> QED BY <5>1, <5>4, MemberIs
      <4> QED BY <2>4, <4>1
    <3>10. left \in MaxAmount
      <4>1. item.balance - dec.item.balance = taken_of(item, t.left)
        <5> HIDE DEF s
        <5> QED BY <2>1, <2>2, <3>5, Decrease
      <4>2. item.balance \in Nat
        BY <2>3, ItemFields
      <4> HIDE DEF item
      <4> QED BY <2>1, <4>1, <4>2 DEF left, taken_of, MaxAmount, NoMax
    <3> HIDE DEF s, item
    <3>11. Traversing(r, kind, key)
      BY <3>2, <3>4, <3>8, <3>9, <3>10 DEF Traversing
    <3> QED BY <3>2, <3>6, <3>11 DEF s, item, desc
  <2> QED BY <2>5, <2>6
<1> QED BY <1>1, <1>2

walk_start(s, id, max) == [s |-> s, id |-> id, left |-> max, visited |-> 0]

IsWalk(a, s, id, kind, direction, max, filter_transf, n) ==
    a = [k \in 0 .. n |->
            IF k = 0 THEN walk_start(s, id, max)
            ELSE visit(a[k - 1], kind, direction, filter_transf)]

(* The steps of a traversal.                                               *)
LEMMA WalkAt ==
    ASSUME NEW s, NEW id, NEW kind, NEW direction, NEW max, NEW f,
           NEW n \in Nat, NEW a, IsWalk(a, s, id, kind, direction, max, f, n)
    PROVE  /\ a[0] = walk_start(s, id, max)
           /\ \A k \in 1 .. n : a[k] = visit(a[k - 1], kind, direction, f)
BY DEF IsWalk

(* The recursive function of traverse exists.                              *)
LEMMA WalkExists ==
    ASSUME NEW s, NEW id, NEW kind, NEW direction, NEW max, NEW f,
           NEW N \in Nat
    PROVE  \E a : IsWalk(a, s, id, kind, direction, max, f, N)
<1> DEFINE T == { n \in Nat :
                    \E a : IsWalk(a, s, id, kind, direction, max, f, n) }
           start == walk_start(s, id, max)
           step(t) == visit(t, kind, direction, f)
<1> HIDE DEF start
<1>1. 0 \in T
  <2>1. IsWalk([k \in 0 .. 0 |-> start], s, id, kind, direction, max, f, 0)
    BY DEF IsWalk, start
  <2> QED BY <2>1
<1>2. ASSUME NEW n \in Nat, n \in T PROVE n + 1 \in T
  <2>1. PICK a : IsWalk(a, s, id, kind, direction, max, f, n)
    BY <1>2
  <2>2. a[0] = start /\ \A k \in 1 .. n : a[k] = step(a[k - 1])
    BY <2>1, WalkAt DEF start
  <2> HIDE DEF step
  <2> DEFINE t == [k \in 0 .. n + 1 |-> IF k <= n THEN a[k] ELSE step(a[n])]
  <2>3. ASSUME NEW k \in 0 .. n + 1
        PROVE  t[k] = IF k = 0 THEN start ELSE step(t[k - 1])
    <3>1. CASE k = 0
      BY <2>2, <3>1
    <3>2. CASE k \in 1 .. n
      BY <2>2, <3>2
    <3>3. CASE k = n + 1
      BY <3>3
    <3> QED BY <3>1, <3>2, <3>3
  <2>4. IsWalk(t, s, id, kind, direction, max, f, n + 1)
    <3> HIDE DEF t
    <3>1. t = [k \in 0 .. n + 1 |-> t[k]]
      BY DEF t
    <3>2. t = [k \in 0 .. n + 1 |-> IF k = 0 THEN start ELSE step(t[k - 1])]
      BY <2>3, <3>1, Zenon
    <3> QED BY <3>2 DEF IsWalk, start, step
  <2> QED BY <2>4
<1>3. Nat \subseteq T
  <2> HIDE DEF T
  <2> QED BY <1>1, <1>2, P!NatSetInduction, U64IsPositive
<1> QED BY <1>3

(* traverse is its last step.                                              *)
LEMMA TraverseIsWalk ==
    ASSUME NEW s, NEW id, NEW kind, NEW direction, NEW max, NEW f,
           NEW gas \in Nat
    PROVE  \E a : /\ IsWalk(a, s, id, kind, direction, max, f, gas)
                  /\ traverse(s, id, kind, direction, max, f, gas) = a[gas]
<1> DEFINE w == CHOOSE a : IsWalk(a, s, id, kind, direction, max, f, gas)
<1>1. IsWalk(w, s, id, kind, direction, max, f, gas)
  BY WalkExists
<1>2. traverse(s, id, kind, direction, max, f, gas) = w[gas]
  BY DEF traverse, IsWalk, walk_start
<1> HIDE DEF w
<1> QED BY <1>1, <1>2

(* A skipped item.                                                         *)
LEMMA SkippedIs ==
    ASSUME NEW t, NEW s, NEW id, NEW left, NEW visited, NEW n,
           t = [s |-> s, id |-> id, left |-> left, visited |-> visited],
           NEW r, r = [t EXCEPT !.id = n, !.visited = @ + 1]
    PROVE  r = [s |-> s, id |-> n, left |-> left, visited |-> visited + 1]
OBVIOUS

(* An iteration gives a traversal state.                                   *)
LEMMA VisitShape ==
    ASSUME NEW t, NEW kind, NEW direction, NEW f,
           t = [s |-> t.s, id |-> t.id, left |-> t.left, visited |-> t.visited],
           NEW r, r = visit(t, kind, direction, f)
    PROVE  r = [s |-> r.s, id |-> r.id, left |-> r.left, visited |-> r.visited]
<1> DEFINE item == t.s.fund_by_id[t.id]
           nid  == neighbour(item, kind, direction)
           skip == [t EXCEPT !.id = nid, !.visited = @ + 1]
           dec  == decrease_fund_balance(t.s, item, t.left)
           conv == converted(t, item, dec, f[item], nid)
<1>1. r = t \/ r = skip \/ r = conv
  BY DEF visit
<1>2. skip = [s |-> t.s, id |-> nid, left |-> t.left, visited |-> t.visited + 1]
  <2> HIDE DEF nid, skip
  <2>1. skip = [t EXCEPT !.id = nid, !.visited = @ + 1]
    BY DEF skip
  <2> QED BY <2>1, SkippedIs, Zenon
<1>3. conv = [s |-> conv.s, id |-> conv.id, left |-> conv.left,
              visited |-> conv.visited]
  BY DEF converted
<1> HIDE DEF skip, conv
<1> QED BY <1>1, <1>2, <1>3

(* A traversal that fits stays in its list and keeps the store consistent. *)
LEMMA TraverseKeeps ==
    ASSUME NEW s, NEW kind \in Kinds, NEW key \in KeysOf(kind), NEW id,
           NEW max, Traversing(walk_start(s, id, max), kind, key),
           NEW direction, NEW f, FilterOK(f, key[2]), NEW gas \in Nat,
           NEW r, r = traverse(s, id, kind, direction, max, f, gas), Fits(r.s)
    PROVE  Traversing(r, kind, key)
<1>1. PICK a : /\ IsWalk(a, s, id, kind, direction, max, f, gas)
               /\ r = a[gas]
  BY TraverseIsWalk
<1>2. /\ a[0] = walk_start(s, id, max)
      /\ \A k \in 1 .. gas : a[k] = visit(a[k - 1], kind, direction, f)
  BY <1>1, WalkAt
<1> DEFINE S == { k \in Nat : Traversing(a[k], kind, key) \/ Overflown(a[k]) }
<1>3. 0 \in S
  BY <1>2
<1>4. ASSUME NEW k \in 0 .. gas - 1, k \in S PROVE k + 1 \in S
  <2> DEFINE t == a[k]
             q == a[k + 1]
  <2>1. q = visit(t, kind, direction, f)
    BY <1>2
  <2>2. t = [s |-> t.s, id |-> t.id, left |-> t.left, visited |-> t.visited]
        /\ Shaped(t.s)
    <3>1. CASE Traversing(t, kind, key)
      BY <3>1, StoreShape DEF Traversing, Good
    <3>2. CASE Overflown(t)
      BY <3>2 DEF Overflown
    <3> QED BY <1>4, <3>1, <3>2
  <2> HIDE DEF t, q
  <2>3. q = [s |-> q.s, id |-> q.id, left |-> q.left, visited |-> q.visited]
    BY <2>1, <2>2, VisitShape
  <2>4. GrowsByOne(t.s, q.s)
    BY <2>1, <2>2, MaxVisit
  <2>5. CASE Fits(q.s)
    <3>1. ~Overflown(t)
      BY <2>2, <2>4, <2>5, FundModuleAssumption
         DEF Overflown, Fits, GrowsByOne, Shaped
    <3>2. Traversing(t, kind, key)
      BY <1>4, <3>1 DEF t
    <3>3. Traversing(q, kind, key)
      BY <2>1, <2>5, <3>2, Visit
    <3> QED BY <3>3 DEF q
  <2>6. CASE ~Fits(q.s)
    <3>1. Overflown(q)
      BY <2>3, <2>4, <2>6 DEF Overflown, GrowsByOne
    <3> QED BY <3>1 DEF q
  <2> QED BY <2>5, <2>6
<1>5. 0 .. gas \subseteq S
  <2> HIDE DEF S
  <2> QED BY <1>3, <1>4, P!RangeInduction, U64IsPositive
<1>6. Traversing(a[gas], kind, key) \/ Overflown(a[gas])
  BY <1>5
<1> QED BY <1>1, <1>6 DEF Overflown

-----------------------------------------------------------------------------
(* The operations *)

FundInv ==
    /\ Good(store) /\ Bounded(store) /\ Fits(store)
    /\ block_nonce \in 0 .. NonceBound
    /\ dust_cleanup_checkpoint \in 0 .. MaxId

(* A list is entered at an end.                                            *)
LEMMA WalkStart ==
    ASSUME NEW s, Good(s), Bounded(s), Fits(s), NEW kind \in Kinds,
           NEW key \in KeysOf(kind), NEW max \in MaxAmount, NEW id,
           id = s.lists[key].first \/ id = s.lists[key].last
           \/ id \in Mem(s, kind, key)
    PROVE  Traversing(walk_start(s, id, max), kind, key)
<1> DEFINE M == Mem(s, kind, key)
<1>1. ListOK(s, kind, key)
  BY DEF Good
<1>2. IsNext(M, 0, s.lists[key].first) /\ IsLast(M, s.lists[key].last)
  BY <1>1 DEF ListOK
<1> HIDE DEF M
<1>3. id = 0 \/ id \in M
  BY <1>2 DEF IsNext, IsLast, M
<1> QED BY <1>3 DEF Traversing, walk_start, M

(* The keys of the traversed lists.                                        *)
LEMMA SourceKeys ==
    ASSUME NEW type \in B!FundType
    PROVE  /\ <<AnyUser, type>> \in KeysOf("type")
           /\ \A u \in 1 .. NumUsers : <<u, type>> \in KeysOf("user")
           /\ "type" \in Kinds /\ "user" \in Kinds
BY FundModuleAssumption DEF KeysOf, Keys, AnyUser, Kinds

(* Committing the result of a traversal keeps the invariant.               *)
LEMMA CommitKeeps ==
    ASSUME FundInv, NEW kind \in Kinds, NEW key \in KeysOf(kind), NEW r,
           Fits(r.s) => Traversing(r, kind, key), commit(r)
    PROVE  FundInv'
<1>1. /\ store' = r.s /\ Fits(r.s) /\ block_nonce' = block_nonce
      /\ dust_cleanup_checkpoint' = dust_cleanup_checkpoint
  BY DEF commit, within_bounds, Fits
<1>2. Good(r.s) /\ Bounded(r.s)
  BY <1>1 DEF Traversing
<1>3. Good(store') /\ Bounded(store') /\ Fits(store')
  BY <1>1, <1>2
<1> QED BY <1>1, <1>3 DEF FundInv

(* The operations on the list of a user.                                   *)
LEMMA UserSwapKeeps ==
    ASSUME FundInv, NEW u \in 1 .. NumUsers, NEW type \in B!FundType,
           NEW max \in MaxAmount, NEW direction, NEW f, FilterOK(f, type),
           NEW gas \in Nat,
           commit(split_convert_max_by_user(max, u, type, direction, f, gas))
    PROVE  FundInv'
<1> DEFINE key == <<u, type>>
           id  == IF direction = "next" THEN store.lists[key].first
                  ELSE store.lists[key].last
           r   == traverse(store, id, "user", direction, max, f, gas)
<1>1. key \in KeysOf("user") /\ "user" \in Kinds /\ key[2] = type
  BY SourceKeys
<1> HIDE DEF key
<1>2. Traversing(walk_start(store, id, max), "user", key)
  BY <1>1, WalkStart DEF FundInv
<1> HIDE DEF id, r
<1>3. Fits(r.s) => Traversing(r, "user", key)
  <2>1. r = traverse(store, id, "user", direction, max, f, gas)
    BY DEF r
  <2> QED BY <1>1, <1>2, <2>1, TraverseKeeps
<1>4. commit(r)
  BY DEF split_convert_max_by_user, r, id, key
<1> QED BY <1>1, <1>3, <1>4, CommitKeeps

(* The operations on the list of a type.                                   *)
LEMMA TypeSwapKeeps ==
    ASSUME FundInv, NEW type \in B!FundType,
           NEW max \in MaxAmount, NEW direction, NEW f, FilterOK(f, type),
           NEW gas \in Nat,
           commit(split_convert_max_by_type(max, type, direction, f, gas))
    PROVE  FundInv'
<1> DEFINE key == <<AnyUser, type>>
           id  == IF direction = "next" THEN store.lists[key].first
                  ELSE store.lists[key].last
           r   == traverse(store, id, "type", direction, max, f, gas)
<1>1. key \in KeysOf("type") /\ "type" \in Kinds /\ key[2] = type
  BY SourceKeys
<1> HIDE DEF key
<1>2. Traversing(walk_start(store, id, max), "type", key)
  BY <1>1, WalkStart DEF FundInv
<1> HIDE DEF id, r
<1>3. Fits(r.s) => Traversing(r, "type", key)
  <2>1. r = traverse(store, id, "type", direction, max, f, gas)
    BY DEF r
  <2> QED BY <1>1, <1>2, <2>1, TraverseKeeps
<1>4. commit(r)
  BY DEF split_convert_max_by_type, r, id, key
<1> QED BY <1>1, <1>3, <1>4, CommitKeeps

(* The dust cleanup, from an item the owner has looked at.                 *)
LEMMA DustKeeps ==
    ASSUME FundInv, CheckedDust, NEW limit, NEW type \in B!FundType,
           NEW transform, NEW gas \in Nat,
           FilterOK([item \in FundItem |-> IF item.balance < limit
                                           THEN transform[item]
                                           ELSE B!NoDescription], type),
           swap_dust(limit, type, transform, gas)
    PROVE  FundInv'
<1> DEFINE f   == [item \in FundItem |-> IF item.balance < limit
                                         THEN transform[item]
                                         ELSE B!NoDescription]
           key == <<AnyUser, type>>
           id  == IF dust_cleanup_checkpoint = 0 THEN store.lists[key].last
                  ELSE dust_cleanup_checkpoint
           r   == traverse(store, id, "type", "prev", NoMax, f, gas)
<1>1. /\ owner_checked_dust(type) /\ store' = r.s /\ Fits(r.s)
      /\ dust_cleanup_checkpoint' = r.id /\ block_nonce' = block_nonce
  BY DEF swap_dust, split_convert_max_by_type_with_checkpoint, within_bounds,
         Fits
<1> HIDE DEF f
<1>2. key \in KeysOf("type") /\ "type" \in Kinds /\ key[2] = type
      /\ FilterOK(f, type) /\ NoMax \in MaxAmount
  BY SourceKeys DEF f, MaxAmount
<1>3. id = store.lists[key].last \/ id \in Mem(store, "type", key)
  <2>1. CASE dust_cleanup_checkpoint # 0
    <3>1. LET item == store.fund_by_id[dust_cleanup_checkpoint]
          IN  item.balance > 0 /\ item.fund_desc.type = type
      BY <1>1, <2>1 DEF owner_checked_dust
    <3>2. dust_cleanup_checkpoint \in Ids
      BY FitIsId, FundModuleAssumption DEF FundInv
    <3> QED BY <2>1, <3>1, <3>2 DEF Mem, list_key
  <2> QED BY <2>1
<1> HIDE DEF key
<1>4. Traversing(walk_start(store, id, NoMax), "type", key)
  BY <1>2, <1>3, WalkStart DEF FundInv
<1> HIDE DEF id, r
<1>5. Traversing(r, "type", key)
  <2>1. r = traverse(store, id, "type", "prev", NoMax, f, gas)
    BY DEF r
  <2> QED BY <1>1, <1>2, <1>4, <2>1, TraverseKeeps
<1>6. Good(r.s) /\ Bounded(r.s) /\ r.id \in 0 .. MaxId
  <2>1. Good(r.s) /\ Bounded(r.s) /\ (r.id = 0 \/ r.id \in Mem(r.s, "type", key))
    BY <1>5 DEF Traversing
  <2>2. r.id \in Mem(r.s, "type", key) => r.id \in 1 .. r.s.fund_max_id
    BY <2>1, MemberIs, GoodItem
  <2>3. r.s.fund_max_id \in Nat
    BY <2>1, StoreFields DEF Good
  <2> QED BY <1>1, <2>1, <2>2, <2>3, FundModuleAssumption DEF Fits
<1>7. Good(store') /\ Bounded(store') /\ Fits(store')
  BY <1>1, <1>6
<1> QED BY <1>1, <1>6, <1>7 DEF FundInv

(* A deposit.                                                              *)
LEMMA CreateKeeps ==
    ASSUME FundInv, NEW u \in 1 .. NumUsers, NEW a \in Nat,
           create_waiting(u, a)
    PROVE  FundInv'
<1> DEFINE r == increase_fund_balance(store, u, B!Waiting, a)
           d == B!Waiting
<1>1. /\ store' = r /\ Fits(r) /\ block_nonce' = block_nonce
      /\ dust_cleanup_checkpoint' = dust_cleanup_checkpoint
      /\ sum_of(store, All) + a <= DepositBound
  BY DEF create_waiting, commit, within_bounds, Fits, All
<1>2. d \in FundDesc /\ d.created = 0 /\ d.type \in B!FundType
  BY DEF FundDesc, B!Waiting, B!FundType
<1> HIDE DEF d
<1>3. Good(r) /\ Bounded(r)
  <2>1. CASE a = 0
    BY <2>1 DEF increase_fund_balance, FundInv
  <2>2. CASE a # 0
    <3>1. store \in Store /\ store.fund_max_id \in Nat /\ u \in 0 .. NumUsers
          /\ a \in Nat \ {0}
      BY <2>2, StoreFields, FundModuleAssumption DEF FundInv, Good
    <3>2. EndIsLive(store, <<AnyUser, d.type>>) /\ EndIsLive(store, <<u, d.type>>)
      BY <1>2, <3>1, GoodEnd DEF FundInv, Keys
    <3>3. store.fund_max_id + 1 \in Ids =>
             store.fund_by_id[store.fund_max_id + 1].balance = 0
      BY <3>1 DEF FundInv, Good, ItemOK, DefaultItem
    <3>4. r = increase_fund_balance(store, u, d, a)
      BY DEF d
    <3> HIDE DEF r
    <3>5. Increased(store, r, u, d, a)
      <4>1. Room(r)
        BY <1>1, <3>1, <3>4, StoreShape, MaxIncrease, FitHasRoom DEF GrowsByOne
      <4> QED BY <1>2, <3>1, <3>2, <3>3, <3>4, <4>1, Increase
    <3>6. Good(r)
      BY <1>2, <3>1, <3>5, GoodIncreased DEF FundInv
    <3>7. /\ \A k \in Ids \ {target(store, u, d)} :
                SameEntry(r.fund_by_id[k], store.fund_by_id[k])
          /\ r.fund_by_id[target(store, u, d)].fund_desc = d
          /\ sum_of(r, All) = sum_of(store, All) + a
      <4>1. Good(store)
        BY DEF FundInv
      <4>2. PICK id : id = target(store, u, d)
        OBVIOUS
      <4>3. /\ \A k \in Ids \ {id} :
                  SameEntry(r.fund_by_id[k], store.fund_by_id[k])
            /\ r.fund_by_id[id].fund_desc = d
            /\ sum_of(r, All) = sum_of(store, All) + a
        BY <1>2, <3>1, <3>5, <4>1, <4>2, IncreasedItems
      <4> QED BY <4>2, <4>3
    <3>8. Bounded(r)
      BY <1>1, <1>2, <3>7, FundModuleAssumption
         DEF FundInv, Bounded, SameEntry
    <3> QED BY <3>6, <3>8
  <2> QED BY <2>1, <2>2
<1> HIDE DEF r
<1>4. Good(store') /\ Bounded(store') /\ Fits(store')
  BY <1>1, <1>3
<1> QED BY <1>1, <1>4 DEF FundInv

-----------------------------------------------------------------------------
(* The invariant *)

(* The empty storage is consistent.                                        *)
LEMMA InitHolds == Init => FundInv
<1> SUFFICES ASSUME Init PROVE FundInv
  OBVIOUS
<1>1. store \in Store /\ store.fund_max_id = 0
  <2>1. DefaultItem \in FundItem /\ DefaultList \in FundList
    BY Defaults
  <2> QED BY <2>1 DEF Init, Store, Ids
<1>2. /\ \A id \in Ids : store.fund_by_id[id] = DefaultItem
      /\ \A key \in Keys : store.lists[key] = DefaultList
  BY DEF Init, Ids
<1>3. ASSUME NEW kind \in Kinds, NEW key \in KeysOf(kind)
      PROVE  ListOK(store, kind, key)
  <2>1. Mem(store, kind, key) = {}
    BY <1>2 DEF Mem, DefaultItem
  <2>2. store.lists[key] = DefaultList
    BY <1>2 DEF KeysOf
  <2>3. sum_of(store, {}) = 0
    BY <1>1, SumOfNone
  <2> QED BY <2>1, <2>2, <2>3 DEF ListOK, DefaultList, IsNext, IsLast
<1>4. Good(store)
  BY <1>1, <1>2, <1>3 DEF Good, ItemOK
<1>5. Bounded(store)
  <2>1. sum_of(store, All) = sum_of(store, {})
    <3>1. ASSUME NEW k \in 1 .. 2 * MaxId
          PROVE  share(store, {}, k) = share(store, All, k)
      <4>1. k \in Ids
        BY <1>1, SumOfShares
      <4> QED BY <1>2, <4>1 DEF share, DefaultItem
    <3> QED BY <1>1, <3>1, SumOfSame
  <2>2. sum_of(store, All) = 0
    BY <1>1, <2>1, SumOfNone
  <2> QED BY <1>2, <2>2, FundModuleAssumption
          DEF Bounded, DefaultItem, B!WithdrawOnly
<1>6. Fits(store) /\ block_nonce \in 0 .. NonceBound
      /\ dust_cleanup_checkpoint \in 0 .. MaxId
  BY <1>1, FundModuleAssumption DEF Fits, Init
<1> QED BY <1>4, <1>5, <1>6 DEF FundInv

(* What the filters of the operations answer.                              *)
LEMMA Filters ==
    ASSUME NEW nonce \in 0 .. NonceBound
    PROVE  /\ FilterOK([item \in FundItem |-> Destroyed], "WithdrawOnly")
           /\ FilterOK([item \in FundItem |-> B!UnStaked(nonce)], "Active")
           /\ FilterOK([item \in FundItem |-> B!WithdrawOnly], "Waiting")
           /\ FilterOK([item \in FundItem |->
                           IF B!due(item.fund_desc, UnBondBlocks, nonce)
                           THEN B!WithdrawOnly ELSE B!NoDescription],
                       "DeferredPayment")
           /\ FilterOK([item \in FundItem |-> B!Active], "Waiting")
           /\ FilterOK([item \in FundItem |->
                           B!DeferredPayment(item.fund_desc.created)],
                       "UnStaked")
           /\ FilterOK([item \in FundItem |-> B!DeferredPayment(nonce)],
                       "Active")
<1> USE FundModuleAssumption DEF FilterOK, FundDesc, B!FundType
<1>1. FilterOK([item \in FundItem |-> Destroyed], "WithdrawOnly")
  OBVIOUS
<1>2. FilterOK([item \in FundItem |-> B!UnStaked(nonce)], "Active")
  BY DEF B!UnStaked
<1>3. FilterOK([item \in FundItem |-> B!WithdrawOnly], "Waiting")
  BY DEF B!WithdrawOnly
<1>4. FilterOK([item \in FundItem |->
                   IF B!due(item.fund_desc, UnBondBlocks, nonce)
                   THEN B!WithdrawOnly ELSE B!NoDescription],
               "DeferredPayment")
  BY DEF B!WithdrawOnly
<1>5. FilterOK([item \in FundItem |-> B!Active], "Waiting")
  BY DEF B!Active
<1>6. FilterOK([item \in FundItem |->
                   B!DeferredPayment(item.fund_desc.created)], "UnStaked")
  BY ItemFields DEF B!DeferredPayment
<1>7. FilterOK([item \in FundItem |-> B!DeferredPayment(nonce)], "Active")
  BY DEF B!DeferredPayment
<1> QED BY <1>1, <1>2, <1>3, <1>4, <1>5, <1>6, <1>7

(* And those of the dust cleanups.                                         *)
LEMMA DustFilters ==
    ASSUME NEW limit
    PROVE  /\ FilterOK([item \in FundItem |->
                 IF item.balance < limit
                 THEN [i \in FundItem |-> B!WithdrawOnly][item]
                 ELSE B!NoDescription], "Waiting")
           /\ FilterOK([item \in FundItem |->
                 IF item.balance < limit
                 THEN [i \in FundItem |-> IF i.user_id = 0
                                          THEN B!NoDescription
                                          ELSE B!UnStaked(0)][item]
                 ELSE B!NoDescription], "Active")
<1>1. FilterOK([item \in FundItem |->
                 IF item.balance < limit
                 THEN [i \in FundItem |-> B!WithdrawOnly][item]
                 ELSE B!NoDescription], "Waiting")
  BY FundModuleAssumption DEF FilterOK, FundDesc, B!FundType, B!WithdrawOnly
<1>2. FilterOK([item \in FundItem |->
                 IF item.balance < limit
                 THEN [i \in FundItem |-> IF i.user_id = 0
                                          THEN B!NoDescription
                                          ELSE B!UnStaked(0)][item]
                 ELSE B!NoDescription], "Active")
  BY FundModuleAssumption DEF FilterOK, FundDesc, B!FundType, B!UnStaked
<1> QED BY <1>1, <1>2

(* Every step keeps the storage consistent.                                *)
LEMMA NextKeeps ==
    ASSUME CheckedDust, FundInv, [Next]_vars
    PROVE  FundInv'
<1>0. /\ block_nonce \in 0 .. NonceBound
      /\ \A a \in Amounts : a \in Nat /\ a \in MaxAmount
      /\ \A gas \in GasLimits : gas \in Nat
      /\ NoLimit \in Nat /\ NoMax \in MaxAmount
      /\ "WithdrawOnly" \in B!FundType /\ "Waiting" \in B!FundType
      /\ "Active" \in B!FundType /\ "UnStaked" \in B!FundType
      /\ "DeferredPayment" \in B!FundType
  BY FundModuleAssumption DEF FundInv, MaxAmount, NoLimit, B!FundType
<1>1. ASSUME NEW u \in 1 .. NumUsers, NEW a \in Amounts, create_waiting(u, a)
      PROVE  FundInv'
  BY <1>0, <1>1, CreateKeeps
<1>2. ASSUME NEW u \in 1 .. NumUsers, NEW a \in Amounts,
             swap_user_active_to_unstaked(u, a)
      PROVE  FundInv'
  <2> DEFINE f == [item \in FundItem |-> B!UnStaked(block_nonce)]
  <2>1. FilterOK(f, "Active")
    BY <1>0, Filters
  <2>2. commit(split_convert_max_by_user(a, u, "Active", "next", f, NoLimit))
    BY <1>2 DEF swap_user_active_to_unstaked
  <2> HIDE DEF f
  <2> QED BY <1>0, <2>1, <2>2, UserSwapKeeps
<1>3. ASSUME NEW u \in 1 .. NumUsers, NEW a \in Amounts,
             swap_user_waiting_to_withdraw_only(u, a)
      PROVE  FundInv'
  <2> DEFINE f == [item \in FundItem |-> B!WithdrawOnly]
  <2>1. FilterOK(f, "Waiting")
    BY <1>0, Filters
  <2>2. commit(split_convert_max_by_user(a, u, "Waiting", "prev", f, NoLimit))
    BY <1>3 DEF swap_user_waiting_to_withdraw_only
  <2> HIDE DEF f
  <2> QED BY <1>0, <2>1, <2>2, UserSwapKeeps
<1>4. ASSUME NEW u \in 1 .. NumUsers, NEW gas \in GasLimits,
             liquidate_all_withdraw_only(u, gas)
      PROVE  FundInv'
  <2> DEFINE f == [item \in FundItem |-> Destroyed]
  <2>1. FilterOK(f, "WithdrawOnly")
    BY <1>0, Filters
  <2>2. commit(split_convert_max_by_user(NoMax, u, "WithdrawOnly", "next", f,
                                         gas))
    BY <1>4 DEF liquidate_all_withdraw_only
  <2> HIDE DEF f
  <2> QED BY <1>0, <2>1, <2>2, UserSwapKeeps
<1>5. ASSUME NEW u \in 1 .. NumUsers, NEW gas \in GasLimits,
             swap_eligible_deferred_to_withdraw(u, gas)
      PROVE  FundInv'
  <2> DEFINE f == [item \in FundItem |->
                      IF B!due(item.fund_desc, UnBondBlocks, block_nonce)
                      THEN B!WithdrawOnly ELSE B!NoDescription]
  <2>1. FilterOK(f, "DeferredPayment")
    BY <1>0, Filters
  <2>2. commit(split_convert_max_by_user(NoMax, u, "DeferredPayment", "next",
                                         f, gas))
    BY <1>5 DEF swap_eligible_deferred_to_withdraw
  <2> HIDE DEF f
  <2> QED BY <1>0, <2>1, <2>2, UserSwapKeeps
<1>6. ASSUME NEW a \in Amounts, NEW gas \in GasLimits,
             swap_waiting_to_active(a, gas)
      PROVE  FundInv'
  <2> DEFINE f == [item \in FundItem |-> B!Active]
  <2>1. FilterOK(f, "Waiting")
    BY <1>0, Filters
  <2>2. commit(split_convert_max_by_type(a, "Waiting", "next", f, gas))
    BY <1>6 DEF swap_waiting_to_active, commit_affected
  <2> HIDE DEF f
  <2> QED BY <1>0, <2>1, <2>2, TypeSwapKeeps
<1>7. ASSUME NEW a \in Amounts, NEW gas \in GasLimits,
             swap_unstaked_to_deferred_payment(a, gas)
      PROVE  FundInv'
  <2> DEFINE f == [item \in FundItem |->
                      B!DeferredPayment(item.fund_desc.created)]
  <2>1. FilterOK(f, "UnStaked")
    BY <1>0, Filters
  <2>2. commit(split_convert_max_by_type(a, "UnStaked", "next", f, gas))
    BY <1>7 DEF swap_unstaked_to_deferred_payment, commit_affected
  <2> HIDE DEF f
  <2> QED BY <1>0, <2>1, <2>2, TypeSwapKeeps
<1>8. ASSUME NEW a \in Amounts, NEW gas \in GasLimits,
             swap_active_to_deferred_payment(a, gas)
      PROVE  FundInv'
  <2> DEFINE f == [item \in FundItem |-> B!DeferredPayment(block_nonce)]
  <2>1. FilterOK(f, "Active")
    BY <1>0, Filters
  <2>2. commit(split_convert_max_by_type(a, "Active", "prev", f, gas))
    BY <1>8 DEF swap_active_to_deferred_payment, commit_affected
  <2> HIDE DEF f
  <2> QED BY <1>0, <2>1, <2>2, TypeSwapKeeps
<1>9. ASSUME NEW limit \in DustLimits, NEW gas \in GasLimits,
             swap_dust_waiting(limit, gas)
      PROVE  FundInv'
  <2> DEFINE f == [item \in FundItem |-> B!WithdrawOnly]
  <2>1. FilterOK([item \in FundItem |-> IF item.balance < limit THEN f[item]
                                        ELSE B!NoDescription], "Waiting")
    BY DustFilters
  <2>2. swap_dust(limit, "Waiting", f, gas)
    BY <1>9 DEF swap_dust_waiting
  <2> HIDE DEF f
  <2> QED BY <1>0, <2>1, <2>2, DustKeeps
<1>10. ASSUME NEW limit \in DustLimits, NEW gas \in GasLimits,
              swap_dust_active(limit, gas)
       PROVE  FundInv'
  <2> DEFINE f == [item \in FundItem |-> IF item.user_id = 0
                                         THEN B!NoDescription
                                         ELSE B!UnStaked(0)]
  <2>1. FilterOK([item \in FundItem |-> IF item.balance < limit THEN f[item]
                                        ELSE B!NoDescription], "Active")
    BY DustFilters
  <2>2. swap_dust(limit, "Active", f, gas)
    BY <1>10 DEF swap_dust_active
  <2> HIDE DEF f
  <2> QED BY <1>0, <2>1, <2>2, DustKeeps
<1>11. CASE NextBlock
  <2>1. store' = store /\ dust_cleanup_checkpoint' = dust_cleanup_checkpoint
        /\ block_nonce' \in 0 .. NonceBound
    BY <1>0, <1>11, FundModuleAssumption DEF NextBlock
  <2> QED BY <2>1 DEF FundInv
<1>12. CASE UNCHANGED vars
  BY <1>12 DEF vars, FundInv
<1> QED BY <1>1, <1>2, <1>3, <1>4, <1>5, <1>6, <1>7, <1>8, <1>9, <1>10, <1>11,
           <1>12 DEF Next, UserOperation, QueueOperation, DustOperation

-----------------------------------------------------------------------------
(* The properties *)

(* A neighbour is the least member above or the greatest below.            *)
LEMMA NextIsLeast ==
    ASSUME NEW M, \A k \in M : k \in Nat, NEW i \in Nat, NEW j, IsNext(M, i, j)
    PROVE  j = LeastOf({k \in M : k > i})
<1> DEFINE S == {k \in M : k > i}
<1>1. CASE j = 0 /\ \A k \in M : k <= i
  <2>1. S = {}
    BY <1>1
  <2> QED BY <1>1, <2>1 DEF LeastOf
<1>2. CASE j \in M /\ j > i /\ \A k \in M : k > i => j <= k
  <2>1. /\ j \in S /\ \A k \in S : j <= k
        /\ \A k \in S : k \in Nat
    BY <1>2
  <2> HIDE DEF S
  <2>2. Min(S) \in S /\ \A k \in S : Min(S) <= k
    BY <2>1 DEF Min
  <2>3. Min(S) = j
    BY <2>1, <2>2
  <2>4. LeastOf(S) = Min(S)
    BY <2>1 DEF LeastOf
  <2>5. LeastOf(S) = j
    BY <2>3, <2>4
  <2> QED BY <2>5 DEF S
<1> QED BY <1>1, <1>2 DEF IsNext

(* Backwards likewise.                                                     *)
LEMMA PrevIsGreatest ==
    ASSUME NEW M, \A k \in M : k \in Nat, NEW i \in Nat, NEW j, IsPrev(M, i, j)
    PROVE  j = GreatestOf({k \in M : k < i})
<1> DEFINE S == {k \in M : k < i}
<1>1. CASE j = 0 /\ \A k \in M : i <= k
  <2>1. S = {}
    BY <1>1
  <2> QED BY <1>1, <2>1 DEF GreatestOf
<1>2. CASE j \in M /\ j < i /\ \A k \in M : k < i => k <= j
  <2>1. /\ j \in S /\ \A k \in S : k <= j
        /\ \A k \in S : k \in Nat
    BY <1>2
  <2> HIDE DEF S
  <2>2. Max(S) \in S /\ \A k \in S : Max(S) >= k
    BY <2>1 DEF Max
  <2>3. Max(S) = j
    BY <2>1, <2>2
  <2>4. GreatestOf(S) = Max(S)
    BY <2>1 DEF GreatestOf
  <2>5. GreatestOf(S) = j
    BY <2>3, <2>4
  <2> QED BY <2>5 DEF S
<1> QED BY <1>1, <1>2 DEF IsPrev

(* The ends of a list are its least and greatest members.                  *)
LEMMA EndsAre ==
    ASSUME NEW M, \A k \in M : k \in Nat \ {0}, NEW i, IsNext(M, 0, i),
           NEW j, IsLast(M, j)
    PROVE  i = LeastOf(M) /\ j = GreatestOf(M)
<1>1. i = LeastOf(M)
  <2>1. i = LeastOf({k \in M : k > 0})
    BY NextIsLeast
  <2>2. {k \in M : k > 0} = M
    OBVIOUS
  <2> QED BY <2>1, <2>2
<1>2. CASE j = 0 /\ M = {}
  BY <1>1, <1>2 DEF GreatestOf
<1>3. CASE j \in M /\ \A k \in M : k <= j
  <2>1. Max(M) \in M /\ \A k \in M : Max(M) >= k
    BY <1>3 DEF Max
  <2>2. Max(M) = j
    BY <1>3, <2>1
  <2> QED BY <1>1, <1>3, <2>2 DEF GreatestOf
<1> QED BY <1>2, <1>3 DEF IsLast

(* The members of a list, as the property and as the proof write them.     *)
LEMMA MembersAre ==
    ASSUME FundInv, NEW kind, NEW key
    PROVE  members(kind, key) = Mem(store, kind, key)
<1>1. DOMAIN store.fund_by_id = Ids /\ Good(store)
  BY StoreFields DEF FundInv, Good
<1>2. 0 \notin live
  BY <1>1, GoodItem DEF live, Live
<1> QED BY <1>1, <1>2 DEF members, Mem, live

(* Each list is linked through exactly its members, both ways.             *)
LEMMA ConsistentLists == FundInv => ListsConsistent
<1> SUFFICES ASSUME FundInv, NEW kind \in Kinds, NEW key \in Keys,
                    (kind = "type") = (key[1] = AnyUser)
             PROVE  LET list == store.lists[key]
                        ids  == members(kind, key)
                    IN  /\ list.first = LeastOf(ids)
                        /\ list.last = GreatestOf(ids)
                        /\ list.total_balance = sum_of(store, ids)
                        /\ \A id \in ids :
                              LET item == store.fund_by_id[id]
                              IN  /\ item.next[kind]
                                       = LeastOf({k \in ids : k > id})
                                  /\ item.prev[kind]
                                       = GreatestOf({k \in ids : k < id})
  BY DEF ListsConsistent
<1> DEFINE ids == members(kind, key)
<1>1. ids = Mem(store, kind, key)
  BY MembersAre
<1>2. \A k \in ids : k \in Nat \ {0}
  BY <1>1, FundModuleAssumption DEF Mem, Ids
<1>3. ListOK(store, kind, key)
  BY DEF FundInv, Good, KeysOf
<1>4. /\ IsNext(ids, 0, store.lists[key].first)
      /\ IsLast(ids, store.lists[key].last)
      /\ store.lists[key].total_balance = sum_of(store, ids)
      /\ \A id \in ids : /\ IsNext(ids, id, store.fund_by_id[id].next[kind])
                         /\ IsPrev(ids, id, store.fund_by_id[id].prev[kind])
  BY <1>1, <1>3 DEF ListOK
<1> HIDE DEF ids
<1>5. /\ store.lists[key].first = LeastOf(ids)
      /\ store.lists[key].last = GreatestOf(ids)
  BY <1>2, <1>4, EndsAre
<1>6. ASSUME NEW id \in ids
      PROVE  /\ store.fund_by_id[id].next[kind] = LeastOf({k \in ids : k > id})
             /\ store.fund_by_id[id].prev[kind]
                  = GreatestOf({k \in ids : k < id})
  BY <1>2, <1>4, NextIsLeast, PrevIsGreatest
<1> QED BY <1>4, <1>5, <1>6 DEF ids

(* An item that is not live is the one that reading nothing gives.         *)
LEMMA NothingSpentStays == FundInv => SpentItemsRemoved
<1> SUFFICES ASSUME FundInv, NEW id \in DOMAIN store.fund_by_id \ live
             PROVE  store.fund_by_id[id] = DefaultItem
  BY DEF SpentItemsRemoved
<1>1. DOMAIN store.fund_by_id = Ids /\ ItemOK(store, id)
  BY StoreFields DEF FundInv, Good
<1> QED BY <1>1 DEF ItemOK, live

(* A part of the items is worth no more than all of them.                  *)
LEMMA SumOfPart ==
    ASSUME NEW s \in Store, NEW ids
    PROVE  sum_of(s, ids) <= sum_of(s, All)
<1> DEFINE f == shares(s, ids)
           g == shares(s, All)
           n == 2 * MaxId
<1>1. ASSUME NEW k \in 1 .. n
      PROVE  f[k] \in Nat /\ g[k] \in Nat /\ f[k] <= g[k]
  <2>1. /\ f[k] = share(s, ids, k) /\ g[k] = share(s, All, k)
        /\ f[k] \in Nat /\ g[k] \in Nat
    BY SumOfShares
  <2>2. share(s, All, k) = s.fund_by_id[k].balance
    BY DEF share, All
  <2> HIDE DEF f, g
  <2>3. share(s, ids, k) = share(s, All, k) \/ share(s, ids, k) = 0
    BY <2>2 DEF share
  <2> QED BY <2>1, <2>3
<1>2. /\ sum_of(s, ids) = P!SumTo(f, n) /\ sum_of(s, All) = P!SumTo(g, n)
      /\ n \in Nat
  BY SumOfShares
<1> HIDE DEF f, g, n
<1>3. P!SumTo(f, n) <= P!SumTo(g, n)
  BY <1>1, <1>2, P!SumMonotone, U64IsPositive
<1> QED BY <1>2, <1>3

(* Every link leads to a live item or nowhere.                             *)
LEMMA LinkInRange ==
    ASSUME FundInv, NEW kind \in Kinds, NEW key \in KeysOf(kind)
    PROVE  /\ store.lists[key].first \in 0 .. MaxId
           /\ store.lists[key].last \in 0 .. MaxId
           /\ store.lists[key].total_balance \in 0 .. DepositBound
           /\ \A id \in Mem(store, kind, key) :
                 /\ store.fund_by_id[id].next[kind] \in 0 .. MaxId
                 /\ store.fund_by_id[id].prev[kind] \in 0 .. MaxId
<1> DEFINE M == Mem(store, kind, key)
<1>1. Good(store) /\ ListOK(store, kind, key) /\ store \in Store
  BY DEF FundInv, Good
<1>2. \A k \in M : k \in 0 .. MaxId
  <2>1. ASSUME NEW k \in M PROVE k \in 1 .. store.fund_max_id
    BY <1>1, GoodItem DEF Mem, Live
  <2> QED BY <1>1, <2>1, FundModuleAssumption DEF FundInv, Fits, Store
<1>3. sum_of(store, M) <= DepositBound /\ sum_of(store, M) \in Nat
  <2>1. /\ sum_of(store, M) \in Nat /\ sum_of(store, All) \in Nat
        /\ sum_of(store, M) <= sum_of(store, All)
    BY <1>1, SumOfPart, SumOfMember
  <2> QED BY <2>1, FundModuleAssumption DEF FundInv, Bounded
<1>4. 0 \in 0 .. MaxId
  BY FundModuleAssumption
<1>5. /\ IsNext(M, 0, store.lists[key].first)
      /\ IsLast(M, store.lists[key].last)
      /\ store.lists[key].total_balance = sum_of(store, M)
      /\ \A id \in M : /\ IsNext(M, id, store.fund_by_id[id].next[kind])
                       /\ IsPrev(M, id, store.fund_by_id[id].prev[kind])
  BY <1>1 DEF ListOK
<1> HIDE DEF M
<1>6. /\ \A i, j : IsNext(M, i, j) => j \in 0 .. MaxId
      /\ \A i, j : IsPrev(M, i, j) => j \in 0 .. MaxId
      /\ \A j : IsLast(M, j) => j \in 0 .. MaxId
  BY <1>2, <1>4 DEF IsNext, IsPrev, IsLast
<1>7. sum_of(store, M) \in 0 .. DepositBound
  BY <1>3, FundModuleAssumption
<1> QED BY <1>5, <1>6, <1>7 DEF M

(* Every item, link and total is in its range.                             *)
LEMMA TypesHold == FundInv => TypeOK
<1> SUFFICES ASSUME FundInv PROVE TypeOK
  OBVIOUS
<1>1. /\ Good(store) /\ store \in Store /\ Bounded(store)
      /\ DOMAIN store.fund_by_id = Ids
  BY StoreFields DEF FundInv, Good
<1>2. ASSUME NEW id \in Ids PROVE store.fund_by_id[id] \in Items
  <2> DEFINE item == store.fund_by_id[id]
  <2>1. CASE item = DefaultItem
    BY <2>1, FundModuleAssumption
       DEF DefaultItem, Items, B!WithdrawOnly, B!FundType, NoLinks
  <2>2. CASE Live(store, id)
    <3>1. /\ item \in FundItem /\ item.user_id \in 1 .. NumUsers
          /\ id \in 1 .. 2 * MaxId
      BY <1>1, <2>2, GoodItem
    <3>2. ASSUME NEW kind \in Kinds
          PROVE  item.next[kind] \in 0 .. MaxId /\ item.prev[kind] \in 0 .. MaxId
      <4>1. /\ list_key(kind, item) \in KeysOf(kind)
            /\ id \in Mem(store, kind, list_key(kind, item))
        BY <1>1, <2>2, GoodItem
      <4> HIDE DEF item
      <4>2. /\ store.fund_by_id[id].next[kind] \in 0 .. MaxId
            /\ store.fund_by_id[id].prev[kind] \in 0 .. MaxId
        BY <4>1, LinkInRange
      <4> QED BY <4>2 DEF item
    <3>3. item.balance <= DepositBound
      <4>1. item.balance <= sum_of(store, All) /\ sum_of(store, All) \in Nat
        BY <1>1, <3>1, SumOfMember DEF All
      <4> QED BY <1>1, <3>1, <4>1, FundModuleAssumption
              DEF Bounded, FundItem
    <3>4. item.fund_desc.created <= NonceBound
      BY <1>1 DEF Bounded
    <3> HIDE DEF item
    <3>5. item \in Items
      BY <3>1, <3>2, <3>3, <3>4, FundModuleAssumption DEF FundItem, Items
    <3> QED BY <3>5 DEF item
  <2>3. item = DefaultItem \/ Live(store, id)
    BY <1>1 DEF Good, ItemOK, Live
  <2> QED BY <2>1, <2>2, <2>3
<1>3. store.lists \in [Keys -> [first : 0 .. MaxId, last : 0 .. MaxId,
                                total_balance : 0 .. DepositBound]]
  <2>1. store.lists \in [Keys -> FundList]
    BY <1>1 DEF Store
  <2>2. ASSUME NEW key \in Keys
        PROVE  /\ store.lists[key].first \in 0 .. MaxId
               /\ store.lists[key].last \in 0 .. MaxId
               /\ store.lists[key].total_balance \in 0 .. DepositBound
    <3>1. PICK kind \in Kinds : key \in KeysOf(kind)
      BY KindOfKey
    <3> QED BY <3>1, LinkInRange
  <2> QED BY <2>1, <2>2 DEF FundList
<1>4. store.fund_max_id \in 0 .. MaxId
  BY <1>1, FundModuleAssumption DEF FundInv, Fits, Store
<1> QED BY <1>1, <1>2, <1>3, <1>4 DEF TypeOK, FundInv

-----------------------------------------------------------------------------
(* The dry run of swap_waiting_to_active                                   *)

dry_start(amount) == [id |-> store.lists[<<AnyUser, "Waiting">>].first,
                      left |-> amount, users |-> {}]

dry_step(y) ==
    LET item == store.fund_by_id[y.id]
    IN  IF y.id = 0 \/ y.left = 0 THEN y
        ELSE [id |-> item.next["type"],
              left |-> decrease_max_amount(y.left, item),
              users |-> y.users \cup {item.user_id}]

IsDryRun(a, amount, n) ==
    a = [k \in 0 .. n |-> IF k = 0 THEN dry_start(amount)
                          ELSE dry_step(a[k - 1])]

(* The recursive function of the dry run exists.                           *)
LEMMA DryRunExists ==
    ASSUME NEW amount, NEW N \in Nat PROVE \E a : IsDryRun(a, amount, N)
<1> DEFINE T == { n \in Nat : \E a : IsDryRun(a, amount, n) }
           start == dry_start(amount)
<1> HIDE DEF start
<1>1. 0 \in T
  <2>1. IsDryRun([k \in 0 .. 0 |-> start], amount, 0)
    BY DEF IsDryRun, start
  <2> QED BY <2>1
<1>2. ASSUME NEW n \in Nat, n \in T PROVE n + 1 \in T
  <2>1. PICK a : IsDryRun(a, amount, n)
    BY <1>2
  <2>2. a[0] = start /\ \A k \in 1 .. n : a[k] = dry_step(a[k - 1])
    BY <2>1 DEF IsDryRun, start
  <2> DEFINE t == [k \in 0 .. n + 1 |-> IF k <= n THEN a[k]
                                        ELSE dry_step(a[n])]
  <2>3. ASSUME NEW k \in 0 .. n + 1
        PROVE  t[k] = IF k = 0 THEN start ELSE dry_step(t[k - 1])
    <3>1. CASE k = 0
      BY <2>2, <3>1
    <3>2. CASE k \in 1 .. n
      BY <2>2, <3>2
    <3>3. CASE k = n + 1
      BY <3>3
    <3> QED BY <3>1, <3>2, <3>3
  <2>4. IsDryRun(t, amount, n + 1)
    <3> HIDE DEF t
    <3>1. t = [k \in 0 .. n + 1 |-> t[k]]
      BY DEF t
    <3>2. t = [k \in 0 .. n + 1 |-> IF k = 0 THEN start ELSE dry_step(t[k - 1])]
      BY <2>3, <3>1, Zenon
    <3> QED BY <3>2 DEF IsDryRun, start
  <2> QED BY <2>4
<1>3. Nat \subseteq T
  <2> HIDE DEF T
  <2> QED BY <1>1, <1>2, P!NatSetInduction, U64IsPositive
<1> QED BY <1>3

(* get_affected_users_of_swap_waiting_to_active gives its last step.       *)
LEMMA DryRunIsWalk ==
    ASSUME NEW amount
    PROVE  \E a : /\ IsDryRun(a, amount, NoLimit)
                  /\ get_affected_users_of_swap_waiting_to_active(amount)
                        = a[NoLimit]
<1> DEFINE w == CHOOSE a : IsDryRun(a, amount, NoLimit)
<1>1. IsDryRun(w, amount, NoLimit)
  <2>1. NoLimit \in Nat
    BY FundModuleAssumption DEF NoLimit
  <2> QED BY <2>1, DryRunExists
<1>2. get_affected_users_of_swap_waiting_to_active(amount) = w[NoLimit]
  BY DEF get_affected_users_of_swap_waiting_to_active, IsDryRun, dry_start,
         dry_step
<1> HIDE DEF w
<1> QED BY <1>1, <1>2

(* A conversion does not touch the other items that do not have the new    *)
(* type afterwards.                                                        *)
LEMMA ConvertedElsewhere ==
    ASSUME NEW s, Good(s), NEW id, Live(s, id), NEW x, NEW r,
           NEW d \in FundDesc, d # Destroyed, Converted(s, r, id, x, d),
           NEW k \in Ids \ {id}, r.fund_by_id[k].fund_desc.type # d.type
    PROVE  SameEntry(r.fund_by_id[k], s.fund_by_id[k])
<1> DEFINE u == s.fund_by_id[id].user_id
<1>1. PICK s2 : Taken(s, s2, id, x) /\ Increased(s2, r, u, d, x)
  BY DEF Converted
<1>2. /\ Good(s2) /\ u \in 1 .. NumUsers /\ x \in Nat \ {0}
      /\ SameEntry(s2.fund_by_id[k], s.fund_by_id[k])
  BY <1>1, GoodTaken, GoodItem, TakenItems
<1> HIDE DEF u
<1> DEFINE new == target(s2, u, d)
<1> HIDE DEF new
<1>3. /\ \A j \in Ids \ {new} : SameEntry(r.fund_by_id[j], s2.fund_by_id[j])
      /\ r.fund_by_id[new].fund_desc = d
  <2>1. new = target(s2, u, d)
    BY DEF new
  <2> QED BY <1>1, <1>2, <2>1, IncreasedItems
<1>4. SameEntry(r.fund_by_id[k], s2.fund_by_id[k])
  BY <1>3
<1> QED BY <1>2, <1>4 DEF SameEntry

type_total(s, u, type) == s.lists[<<u, type>>].total_balance

(* Totals are natural numbers.                                             *)
LEMMA TypeTotalIsNat ==
    ASSUME NEW s, Good(s), NEW u \in {AnyUser} \cup 0 .. NumUsers,
           NEW type \in B!FundType
    PROVE  type_total(s, u, type) \in Nat
<1>1. <<u, type>> \in Keys
  BY DEF Keys
<1> QED BY <1>1, StoreFields, ListFields DEF type_total, Good

(* Adding a balance shows in the totals of its user and of everybody, for  *)
(* its type, and in no other total.                                        *)
LEMMA IncreasedTotals ==
    ASSUME NEW s, Good(s), NEW u \in 1 .. NumUsers, NEW d \in FundDesc,
           NEW a \in Nat \ {0}, NEW r, Increased(s, r, u, d, a),
           NEW w \in {AnyUser} \cup 0 .. NumUsers, NEW type \in B!FundType
    PROVE  type_total(r, w, type)
             = type_total(s, w, type)
                 + IF type = d.type /\ w \in {u, AnyUser} THEN a ELSE 0
<1> DEFINE key == <<w, type>>
           hit == type = d.type /\ w \in {u, AnyUser}
<1>1. /\ key \in Keys /\ u \in 0 .. NumUsers /\ d.type \in B!FundType
      /\ type_total(s, w, type) \in Nat
  BY FundModuleAssumption, TypeTotalIsNat DEF Keys, FundDesc
<1>2. CASE Coalesces(s, u, d)
  <2> DEFINE last == s.lists[<<u, d.type>>].last
             item == s.fund_by_id[last]
             b == item.balance + a
  <2>1. Live(s, last) /\ item.user_id = u /\ item.fund_desc.type = d.type
    BY <1>1, <1>2, LastOfUser DEF Coalesces
  <2>2. item.balance \in Nat /\ b - item.balance = a
    <3>1. item \in FundItem
      BY <2>1, GoodItem
    <3>2. item.balance \in Nat
      BY <3>1, ItemFields
    <3> HIDE DEF item
    <3> QED BY <3>2
  <2>3. Rebalanced(s, r, last, b)
    BY <1>2 DEF Increased
  <2> HIDE DEF last, b
  <2>4. IsKeyOf(key, item) <=> hit
    BY <2>1 DEF IsKeyOf, list_key, Kinds
  <2> HIDE DEF key, hit
  <2>5. CASE hit
    BY <1>1, <2>2, <2>3, <2>4, <2>5 DEF Rebalanced, type_total, key, hit
  <2>6. CASE ~hit
    BY <1>1, <2>3, <2>4, <2>6 DEF Rebalanced, type_total, key, hit
  <2> QED BY <2>5, <2>6
<1>3. CASE ~Coalesces(s, u, d)
  <2> DEFINE item == new_item(u, d, a)
             id == s.fund_max_id + 1
  <2>1. Inserted(s, r, id, item) /\ item.balance = a
    BY <1>3 DEF Increased, new_item
  <2>2. /\ list_key("type", item) = <<AnyUser, d.type>>
        /\ list_key("user", item) = <<u, d.type>>
    BY NewKeys
  <2> HIDE DEF item, id
  <2>3. CASE hit
    <3>1. \E kind \in Kinds : key = list_key(kind, item)
      BY <2>2, <2>3 DEF Kinds
    <3>2. r.lists[key].total_balance = s.lists[key].total_balance + a
      BY <2>1, <3>1 DEF Inserted
    <3> QED BY <2>3, <3>2 DEF type_total
  <2>4. CASE ~hit
    <3>1. \A kind \in Kinds : key # list_key(kind, item)
      BY <2>2, <2>4 DEF Kinds
    <3>2. r.lists[key] = s.lists[key]
      BY <1>1, <2>1, <3>1 DEF Inserted
    <3>3. type_total(r, w, type) = type_total(s, w, type)
      BY <3>2 DEF type_total
    <3> QED BY <1>1, <2>4, <3>3
  <2> QED BY <2>3, <2>4
<1> QED BY <1>2, <1>3

(* Taking a balance out shows likewise.                                    *)
LEMMA TakenTotals ==
    ASSUME NEW s, Good(s), NEW id, Live(s, id), NEW x, NEW r,
           Taken(s, r, id, x),
           NEW item, item = s.fund_by_id[id],
           NEW w \in {AnyUser} \cup 0 .. NumUsers, NEW type \in B!FundType
    PROVE  type_total(r, w, type)
             = type_total(s, w, type)
                 - IF /\ type = item.fund_desc.type
                      /\ w \in {item.user_id, AnyUser} THEN x ELSE 0
<1> DEFINE key == <<w, type>>
           hit == type = item.fund_desc.type /\ w \in {item.user_id, AnyUser}
           b == item.balance
<1>1. key \in Keys /\ type_total(s, w, type) \in Nat
      /\ b \in Nat /\ x \in 1 .. b
  BY GoodItem, ItemFields, TypeTotalIsNat DEF Keys, Taken
<1>2. IsKeyOf(key, item) <=> hit
  BY DEF IsKeyOf, list_key, Kinds
<1>3. hit => r.lists[key].total_balance = s.lists[key].total_balance + (0 - x)
  <2>1. ASSUME x = b, hit
        PROVE  r.lists[key].total_balance = s.lists[key].total_balance + (0 - b)
    <3>1. PICK kind \in Kinds : key = list_key(kind, item)
      BY <1>2, <2>1 DEF IsKeyOf
    <3>2. Erased(s, r, id)
      BY <2>1 DEF Taken
    <3> HIDE DEF key
    <3> QED BY <3>1, <3>2 DEF Erased, CutOut
  <2>2. ASSUME x # b, hit
        PROVE  r.lists[key].total_balance
                 = s.lists[key].total_balance + ((b - x) - b)
    <3>1. Rebalanced(s, r, id, b - x)
      BY <1>1, <2>2 DEF Taken
    <3> HIDE DEF key, hit
    <3> QED BY <1>1, <1>2, <2>2, <3>1 DEF Rebalanced
  <2>3. (b - x) - b = 0 - x
    <3> HIDE DEF b
    <3> QED BY <1>1
  <2> HIDE DEF b, key, hit
  <2> QED BY <2>1, <2>2, <2>3
<1>4. ~hit => r.lists[key] = s.lists[key]
  <2>1. ASSUME x = b, ~hit PROVE r.lists[key] = s.lists[key]
    <3>1. Erased(s, r, id)
      BY <2>1 DEF Taken
    <3> HIDE DEF key, hit
    <3> QED BY <1>1, <1>2, <2>1, <3>1 DEF Erased, CutOut
  <2>2. ASSUME x # b, ~hit PROVE r.lists[key] = s.lists[key]
    <3>1. Rebalanced(s, r, id, b - x)
      BY <1>1, <2>2 DEF Taken
    <3> HIDE DEF key, hit
    <3> QED BY <1>1, <1>2, <2>2, <3>1 DEF Rebalanced
  <2> QED BY <2>1, <2>2
<1>5. x \in Nat /\ type_total(s, w, type) = s.lists[key].total_balance
      /\ type_total(r, w, type) = r.lists[key].total_balance
  BY <1>1 DEF type_total
<1> HIDE DEF key, hit, b
<1>6. CASE hit
  <2>1. type_total(r, w, type) = type_total(s, w, type) - x
    BY <1>1, <1>3, <1>5, <1>6
  <2> QED BY <1>6, <2>1 DEF hit
<1>7. CASE ~hit
  <2>1. type_total(r, w, type) = type_total(s, w, type)
    BY <1>4, <1>5, <1>7
  <2> QED BY <1>1, <1>7, <2>1 DEF hit
<1> QED BY <1>6, <1>7

(* Converting an item moves its balance from the totals of its type to     *)
(* those of the new type.                                                  *)
LEMMA ConvertedTotals ==
    ASSUME NEW s, Good(s), NEW id, Live(s, id), NEW x, NEW r,
           NEW d \in FundDesc, d # Destroyed, Converted(s, r, id, x, d),
           NEW item, item = s.fund_by_id[id], d.type # item.fund_desc.type,
           NEW w \in {AnyUser} \cup 0 .. NumUsers, NEW type \in B!FundType
    PROVE  /\ x \in Nat \ {0}
           /\ type_total(r, w, type)
                = type_total(s, w, type)
                    + IF w \in {item.user_id, AnyUser}
                      THEN IF type = d.type THEN x
                           ELSE IF type = item.fund_desc.type THEN 0 - x ELSE 0
                      ELSE 0
<1> DEFINE u == item.user_id
<1>1. PICK s2 : Taken(s, s2, id, x) /\ Increased(s2, r, u, d, x)
  BY DEF Converted
<1>2. Good(s2) /\ u \in 1 .. NumUsers /\ x \in Nat \ {0}
  BY <1>1, GoodTaken, GoodItem, TakenItems
<1> HIDE DEF u
<1>3. type_total(r, w, type)
        = type_total(s2, w, type)
            + IF type = d.type /\ w \in {u, AnyUser} THEN x ELSE 0
  BY <1>1, <1>2, IncreasedTotals
<1>4. type_total(s2, w, type)
        = type_total(s, w, type)
            - IF type = item.fund_desc.type /\ w \in {u, AnyUser} THEN x ELSE 0
  BY <1>1, TakenTotals DEF u
<1>5. type_total(s, w, type) \in Nat
  BY TypeTotalIsNat
<1> QED BY <1>2, <1>3, <1>4, <1>5 DEF u

(* The item k is in the list of s if and only if it is in the one of the   *)
(* storage, and it is the same item.                                       *)
AsStored(s, kind, key, k) ==
    LET M == Mem(s, kind, key)
        L == Mem(store, kind, key)
    IN  k \in M \/ k \in L =>
            /\ k \in M /\ k \in L
            /\ SameEntry(s.fund_by_id[k], store.fund_by_id[k])

(* A list that is as the storage has it from some id on continues as there. *)
LEMMA SameNext ==
    ASSUME NEW s, Good(s), Good(store), NEW kind \in Kinds,
           NEW key \in KeysOf(kind), NEW id, id \in Mem(s, kind, key),
           id \in Mem(store, kind, key),
           \A k \in Ids : k >= id => AsStored(s, kind, key, k),
           NEW n, n = store.fund_by_id[id].next[kind]
    PROVE  /\ s.fund_by_id[id].next[kind] = n
           /\ n = 0 \/ (n \in Mem(store, kind, key) /\ n > id)
<1> DEFINE M == Mem(s, kind, key)
           L == Mem(store, kind, key)
<1>1. /\ M \in SUBSET (Nat \ {0}) /\ L \in SUBSET (Nat \ {0})
      /\ \A k \in M : k \in Ids
      /\ \A k \in L : k \in Ids
  BY MemberIs DEF Live
<1>2. /\ IsNext(M, id, s.fund_by_id[id].next[kind]) /\ IsNext(L, id, n)
  BY DEF Good, ListOK
<1>3. \A k \in Ids : k >= id => (k \in M <=> k \in L)
  BY DEF AsStored
<1> HIDE DEF M, L
<1>4. {k \in M : k > id} = {k \in L : k > id}
  <2>1. id \in Nat
    BY <1>1 DEF M
  <2>2. ASSUME NEW k, k \in Nat, k > id PROVE k \in M <=> k \in L
    <3>1. k >= id
      BY <2>1, <2>2
    <3> QED BY <1>1, <1>3, <3>1
  <2> QED BY <1>1, <2>2
<1>5. /\ s.fund_by_id[id].next[kind] = LeastOf({k \in M : k > id})
      /\ n = LeastOf({k \in L : k > id})
  <2>1. id \in Nat
    BY <1>1 DEF M
  <2> QED BY <1>1, <1>2, <2>1, NextIsLeast
<1>6. n = 0 \/ (n \in L /\ n > id)
  BY <1>2 DEF IsNext
<1> QED BY <1>4, <1>5, <1>6 DEF L

waiting == <<AnyUser, "Waiting">>

Queue(s) == Mem(s, "type", waiting)

(* The waiting list is the list of a type.                                 *)
LEMMA WaitingKey == "type" \in Kinds /\ waiting \in KeysOf("type")
BY DEF waiting, KeysOf, Keys, Kinds, B!FundType

(* The swap, at t, and the dry run, at y, are at the same item, with the   *)
(* same amount left; what they have still to visit is as it was; and the   *)
(* users of y are those with more active stake than before.  In front of   *)
(* the item id there were at most id - 1 items to convert, so at most as   *)
(* many ids were taken.                                                    *)
InStep(t, y) ==
    /\ t = [s |-> t.s, id |-> t.id, left |-> t.left, visited |-> t.visited]
    /\ Good(t.s)
    /\ y.id = t.id /\ y.left = t.left /\ t.left \in Nat
    /\ t.id # 0 =>
          /\ t.id \in Queue(store)
          /\ t.s.fund_max_id < MaxId + t.id
          /\ \A k \in Ids : k >= t.id => AsStored(t.s, "type", waiting, k)
    /\ y.users \subseteq 1 .. NumUsers
    /\ \A u \in 1 .. NumUsers :
          IF u \in y.users
          THEN type_total(t.s, u, "Active") > type_total(store, u, "Active")
          ELSE type_total(t.s, u, "Active") = type_total(store, u, "Active")

activate == [item \in FundItem |-> B!Active]

left_after(left, x) == IF left = NoMax THEN NoMax ELSE left - x

(* What an iteration does to an item that its filter selects, with enough  *)
(* ids.                                                                    *)
LEMMA VisitConverts ==
    ASSUME NEW t, Good(t.s),
           t = [s |-> t.s, id |-> t.id, left |-> t.left, visited |-> t.visited],
           NEW kind \in Kinds, NEW key, t.id \in Mem(t.s, kind, key),
           t.left \in MaxAmount, t.left # 0,
           NEW item, item = t.s.fund_by_id[t.id],
           NEW f, NEW d, f[item] = d, d # B!NoDescription,
           \/ d = Destroyed
           \/ /\ d \in FundDesc /\ d.type # item.fund_desc.type
              /\ t.s.fund_max_id + 1 \in Ids,
           NEW r, r = visit(t, kind, "next", f)
    PROVE  /\ r.id = item.next[kind]
           /\ r.left = left_after(t.left, taken_of(item, t.left))
           /\ Converted(t.s, r.s, t.id, taken_of(item, t.left), d)
           /\ r.s.fund_max_id <= t.s.fund_max_id + 1
<1> DEFINE s == t.s
           id == t.id
           left == t.left
           dec == decrease_fund_balance(s, item, left)
           q == split_convert_individual_fund(id, item, dec, d)
<1>1. Live(s, id) /\ id # 0
  BY MemberIs
<1>2. item \in FundItem
  BY <1>1, GoodItem
<1>3. /\ r.s = q /\ r.id = item.next[kind]
      /\ r.left = left_after(left, item.balance - dec.item.balance)
  <2>1. r = converted(t, item, dec, d, item.next[kind])
    BY <1>1 DEF visit, neighbour
  <2> HIDE DEF dec
  <2> QED BY <2>1 DEF converted, left_after
<1>4. /\ GrowsByOne(s, r.s) /\ s.fund_max_id \in Nat
  BY StoreShape, StoreFields, MaxVisit DEF Good
<1>5. r.s.fund_max_id <= s.fund_max_id + 1
  BY <1>4 DEF GrowsByOne
<1>6. d # Destroyed => Room(r.s)
  BY <1>4, FundModuleAssumption DEF GrowsByOne, Room, Ids
<1>7. Good(s) /\ \/ d = Destroyed
                 \/ d \in FundDesc /\ d.type # item.fund_desc.type
  OBVIOUS
<1> HIDE DEF s, id, left
<1>8. item = s.fund_by_id[id] /\ left # 0 /\ left \in MaxAmount
  BY DEF s, id, left
<1>9. item.balance - dec.item.balance = taken_of(item, left)
  BY <1>1, <1>7, <1>8, Decrease
<1>10. Converted(s, r.s, id, taken_of(item, left), d)
  <2> HIDE DEF dec
  <2>1. dec = decrease_fund_balance(s, item, left)
    BY DEF dec
  <2>2. r.s = split_convert_individual_fund(id, item, dec, d)
    BY <1>3
  <2> QED BY <1>1, <1>6, <1>7, <1>8, <2>1, <2>2, Convert
<1> QED BY <1>3, <1>5, <1>9, <1>10 DEF s, id, left

(* What the dry run leaves over is what the swap leaves over.              *)
LEMMA SameLeft ==
    ASSUME NEW x, NEW y, SameEntry(x, y), x.balance \in Nat, NEW left \in Nat
    PROVE  decrease_max_amount(left, y) = left - taken_of(x, left)
           /\ left - taken_of(x, left) \in Nat
BY DEF SameEntry, decrease_max_amount, taken_of, NoMax

(* The next iterations are at the same item again.                         *)
LEMMA StepTogether ==
    ASSUME FundInv, NEW t, NEW y, InStep(t, y),
           NEW r, r = visit(t, "type", "next", activate),
           NEW z, z = dry_step(y)
    PROVE  InStep(r, z)
<1> DEFINE s == t.s
           id == t.id
           item == s.fund_by_id[id]
           stored == store.fund_by_id[id]
           x == taken_of(item, t.left)
           d == B!Active
           nid == stored.next["type"]
<1>1. CASE t.id = 0 \/ t.left = 0
  <2>1. r = t /\ z = y
    BY <1>1 DEF visit, dry_step, InStep
  <2> QED BY <2>1
<1>2. CASE ~(t.id = 0 \/ t.left = 0)
  <2>1. /\ t = [s |-> s, id |-> id, left |-> t.left, visited |-> t.visited]
        /\ Good(s) /\ t.left \in Nat /\ t.left # 0
        /\ y.id = id /\ y.left = t.left
        /\ id # 0 /\ id \in Queue(store) /\ s.fund_max_id < MaxId + id
        /\ \A k \in Ids : k >= id => AsStored(s, "type", waiting, k)
        /\ Good(store) /\ Fits(store)
    BY <1>2 DEF InStep, FundInv
  <2>2. /\ Live(store, id) /\ id \in Ids /\ id \in 1 .. store.fund_max_id
        /\ store.fund_max_id \in Nat /\ s.fund_max_id \in Nat
    BY <2>1, MemberIs, GoodItem, StoreFields DEF Queue, Live, Good
  <2>3. s.fund_max_id + 1 \in Ids /\ id <= MaxId
    BY <2>1, <2>2, FundModuleAssumption DEF Ids, Fits
  <2>4. id \in Queue(s) /\ SameEntry(item, stored)
    <3>1. AsStored(s, "type", waiting, id)
      BY <2>1, <2>2 DEF Ids
    <3> QED BY <2>1, <3>1 DEF AsStored, Queue
  <2>5. Live(s, id) /\ item.fund_desc.type = "Waiting"
    BY <2>4, MemberIs DEF Queue, waiting, list_key
  <2>6. item.user_id \in 1 .. NumUsers /\ item.balance \in Nat
        /\ stored.user_id = item.user_id
    BY <2>1, <2>4, <2>5, GoodItem, ItemFields DEF SameEntry
  <2>7. /\ item.next["type"] = nid
        /\ nid = 0 \/ (nid \in Queue(store) /\ nid > id)
    <3> HIDE DEF s, id
    <3> QED BY <2>1, <2>4, SameNext, WaitingKey DEF Queue
  <2>8. /\ r.id = nid /\ r.left = t.left - x
        /\ Converted(s, r.s, id, x, d)
        /\ r.s.fund_max_id <= s.fund_max_id + 1
    <3>1. /\ item \in FundItem /\ activate[item] = d /\ d # B!NoDescription
          /\ d \in FundDesc /\ d.type # item.fund_desc.type
      <4>1. item \in FundItem
        BY <2>1, <2>5, GoodItem
      <4> QED BY <2>5, <4>1 DEF activate, B!Active, B!NoDescription, FundDesc,
                               B!FundType
    <3>2. t.left \in MaxAmount /\ t.left # NoMax /\ "type" \in Kinds
      BY <2>1, WaitingKey DEF MaxAmount, NoMax
    <3>3. id \in Mem(s, "type", waiting)
      BY <2>4 DEF Queue
    <3> HIDE DEF d, x
    <3>4. /\ r.id = item.next["type"]
          /\ r.left = left_after(t.left, taken_of(item, t.left))
          /\ Converted(s, r.s, id, taken_of(item, t.left), d)
          /\ r.s.fund_max_id <= s.fund_max_id + 1
      BY <2>1, <2>3, <3>1, <3>2, <3>3, VisitConverts
    <3> QED BY <2>7, <3>2, <3>4 DEF left_after, x
  <2>9. z.id = nid /\ z.left = t.left - x /\ t.left - x \in Nat
        /\ z.users = y.users \cup {item.user_id}
    <3>1. z = [id |-> nid, left |-> decrease_max_amount(t.left, stored),
               users |-> y.users \cup {stored.user_id}]
      BY <2>1 DEF dry_step
    <3>2. decrease_max_amount(t.left, stored) = t.left - x /\ t.left - x \in Nat
      <4> HIDE DEF item, stored
      <4> QED BY <2>1, <2>4, <2>6, SameLeft
    <3> HIDE DEF stored, nid, x
    <3> QED BY <2>6, <3>1, <3>2
  <2>10. d \in FundDesc /\ d # Destroyed /\ d.type = "Active"
    BY DEF FundDesc, B!Active, B!FundType, Destroyed
  <2>11. /\ Good(r.s) /\ x \in Nat \ {0}
         /\ \A k \in Ids \ {id} : /\ Live(s, k)
                                  /\ s.fund_by_id[k].fund_desc.type # "Active"
                => SameEntry(r.s.fund_by_id[k], s.fund_by_id[k])
         /\ \A k \in Ids \ {id} : r.s.fund_by_id[k].fund_desc.type # "Active"
                => SameEntry(r.s.fund_by_id[k], s.fund_by_id[k])
         /\ \A u \in 1 .. NumUsers :
               type_total(r.s, u, "Active") = type_total(s, u, "Active")
                   + IF u = item.user_id THEN x ELSE 0
         /\ r.s.fund_max_id \in Nat
    <3> HIDE DEF s, id, x, d
    <3>1. Good(r.s) /\ \A k \in Ids \ {id} :
              Live(s, k) /\ s.fund_by_id[k].fund_desc.type # d.type =>
                  SameEntry(r.s.fund_by_id[k], s.fund_by_id[k])
      BY <2>1, <2>5, <2>8, <2>10, ConvertedKeeps
    <3>2. \A k \in Ids \ {id} : r.s.fund_by_id[k].fund_desc.type # d.type
                => SameEntry(r.s.fund_by_id[k], s.fund_by_id[k])
      BY <2>1, <2>5, <2>8, <2>10, ConvertedElsewhere
    <3>3. ASSUME NEW u \in 1 .. NumUsers
          PROVE  /\ x \in Nat \ {0}
                 /\ type_total(r.s, u, "Active") = type_total(s, u, "Active")
                       + IF u = item.user_id THEN x ELSE 0
      <4>1. /\ u \in {AnyUser} \cup 0 .. NumUsers /\ "Active" \in B!FundType
            /\ u # AnyUser /\ d.type # item.fund_desc.type
        BY <2>5, <2>10, FundModuleAssumption DEF B!FundType, AnyUser
      <4> DEFINE it == item
      <4>2. it = s.fund_by_id[id]
        BY DEF s, id
      <4> HIDE DEF it
      <4>3. /\ x \in Nat \ {0}
            /\ type_total(r.s, u, "Active")
                = type_total(s, u, "Active")
                    + IF u \in {it.user_id, AnyUser}
                      THEN IF "Active" = d.type THEN x
                           ELSE IF "Active" = it.fund_desc.type THEN 0 - x
                           ELSE 0
                      ELSE 0
        BY <2>1, <2>5, <2>8, <2>10, <4>1, <4>2, ConvertedTotals DEF it
      <4> QED BY <2>10, <4>1, <4>3 DEF it
    <3>4. r.s.fund_max_id \in Nat
      BY <3>1, StoreFields DEF Good
    <3> QED BY <2>6, <2>10, <3>1, <3>2, <3>3, <3>4
  <2>12. r = [s |-> r.s, id |-> r.id, left |-> r.left, visited |-> r.visited]
    BY <2>1, VisitShape
  <2> HIDE DEF s, id, item, stored, x, d, nid
  <2>13. ASSUME nid # 0
         PROVE  /\ nid \in Queue(store) /\ r.s.fund_max_id < MaxId + nid
                /\ \A k \in Ids : k >= nid => AsStored(r.s, "type", waiting, k)
    <3>1. nid \in Queue(store) /\ nid > id
      BY <2>7, <2>13
    <3>2. nid \in Nat
      BY <3>1, MemberIs DEF Queue
    <3>3. r.s.fund_max_id < MaxId + nid
      BY <2>1, <2>2, <2>8, <2>11, <3>1, <3>2, FundModuleAssumption
    <3>4. ASSUME NEW k \in Ids, k >= nid PROVE AsStored(r.s, "type", waiting, k)
      <4>1. k \in Ids \ {id} /\ AsStored(s, "type", waiting, k)
        BY <2>1, <2>2, <3>1, <3>2, <3>4 DEF Ids
      <4>2. ASSUME k \in Queue(r.s)
            PROVE  SameEntry(r.s.fund_by_id[k], s.fund_by_id[k])
        <5>1. r.s.fund_by_id[k].fund_desc.type = "Waiting"
          BY <4>2, MemberIs DEF Queue, waiting, list_key
        <5> QED BY <2>11, <4>1, <5>1
      <4>3. ASSUME k \in Queue(s)
            PROVE  SameEntry(r.s.fund_by_id[k], s.fund_by_id[k])
        <5>1. s.fund_by_id[k].fund_desc.type = "Waiting" /\ Live(s, k)
          BY <4>3, MemberIs DEF Queue, waiting, list_key
        <5> QED BY <2>11, <4>1, <5>1
      <4>4. SameEntry(r.s.fund_by_id[k], s.fund_by_id[k])
              => (k \in Queue(r.s) <=> k \in Queue(s))
        BY DEF SameEntry, Queue, Mem, list_key
      <4> QED BY <4>1, <4>2, <4>3, <4>4 DEF AsStored, Queue, SameEntry
    <3> QED BY <3>1, <3>3, <3>4
  <2>14. ASSUME NEW u \in 1 .. NumUsers
         PROVE  IF u \in z.users
                THEN type_total(r.s, u, "Active") > type_total(store, u, "Active")
                ELSE type_total(r.s, u, "Active") = type_total(store, u, "Active")
    <3>1. IF u \in y.users
          THEN type_total(s, u, "Active") > type_total(store, u, "Active")
          ELSE type_total(s, u, "Active") = type_total(store, u, "Active")
      BY DEF InStep, s
    <3>2. /\ type_total(s, u, "Active") \in Nat
          /\ type_total(store, u, "Active") \in Nat
      BY <2>1, TypeTotalIsNat, FundModuleAssumption DEF B!FundType
    <3>3. type_total(r.s, u, "Active") = type_total(s, u, "Active")
              + IF u = item.user_id THEN x ELSE 0
      BY <2>11
    <3>4. u \in z.users <=> u \in y.users \/ u = item.user_id
      BY <2>9
    <3> QED BY <2>11, <3>1, <3>2, <3>3, <3>4
  <2>15. z.users \subseteq 1 .. NumUsers
    BY <2>6, <2>9 DEF InStep
  <2> QED BY <2>8, <2>9, <2>11, <2>12, <2>13, <2>14, <2>15 DEF InStep
<1> QED BY <1>1, <1>2

(* So the dry run ends where the swap ends.                                *)
LEMMA DryRunPredicts ==
    ASSUME FundInv PROVE DryRunPredictsSwap
<1> SUFFICES ASSUME NEW amount \in Amounts
             PROVE  LET dry == get_affected_users_of_swap_waiting_to_active(amount)
                        swap == split_convert_max_by_type(amount, "Waiting",
                                    "next", activate, NoLimit)
                    IN  /\ dry.left = swap.left
                        /\ dry.users = { u \in 1 .. NumUsers :
                              swap.s.lists[<<u, "Active">>].total_balance
                                  # store.lists[<<u, "Active">>].total_balance }
  BY DEF DryRunPredictsSwap, activate
<1> DEFINE first == store.lists[<<AnyUser, "Waiting">>].first
           swap == split_convert_max_by_type(amount, "Waiting", "next",
                                             activate, NoLimit)
           dry == get_affected_users_of_swap_waiting_to_active(amount)
<1>1. /\ NoLimit \in Nat /\ amount \in Nat
      /\ swap = traverse(store, first, "type", "next", amount, activate, NoLimit)
  BY FundModuleAssumption DEF NoLimit, split_convert_max_by_type
<1> HIDE DEF swap, dry, first
<1>2. PICK a : /\ IsWalk(a, store, first, "type", "next", amount, activate,
                         NoLimit)
               /\ swap = a[NoLimit]
  BY <1>1, TraverseIsWalk
<1>3. PICK b : IsDryRun(b, amount, NoLimit) /\ dry = b[NoLimit]
  BY DryRunIsWalk DEF dry
<1>4. /\ a[0] = walk_start(store, first, amount)
      /\ \A k \in 1 .. NoLimit :
            a[k] = visit(a[k - 1], "type", "next", activate)
  BY <1>1, <1>2, WalkAt
<1>5. /\ b[0] = dry_start(amount)
      /\ \A k \in 1 .. NoLimit : b[k] = dry_step(b[k - 1])
  BY <1>1, <1>3 DEF IsDryRun
<1> DEFINE S == { k \in Nat : InStep(a[k], b[k]) }
<1>6. 0 \in S
  <2>1. Good(store) /\ store.fund_max_id \in Nat /\ store.fund_max_id <= MaxId
    BY StoreFields DEF FundInv, Good, Fits
  <2>2. first = 0 \/ first \in Queue(store)
    <3>1. ListOK(store, "type", <<AnyUser, "Waiting">>)
      BY <2>1, SourceKeys DEF Good, B!FundType
    <3> QED BY <3>1 DEF ListOK, IsNext, Queue, waiting, first
  <2>3. first # 0 => store.fund_max_id < MaxId + first
    BY <2>1, <2>2, MemberIs, FundModuleAssumption DEF Queue
  <2>4. \A k \in Ids : AsStored(store, "type", waiting, k)
    BY DEF AsStored, Queue, SameEntry
  <2>5. InStep(walk_start(store, first, amount), dry_start(amount))
    BY <1>1, <2>1, <2>2, <2>3, <2>4
       DEF InStep, walk_start, dry_start, first
  <2> QED BY <1>4, <1>5, <2>5
<1>7. ASSUME NEW k \in 0 .. NoLimit - 1, k \in S PROVE k + 1 \in S
  <2>1. /\ a[k + 1] = visit(a[k], "type", "next", activate)
        /\ b[k + 1] = dry_step(b[k])
    BY <1>1, <1>4, <1>5
  <2>2. InStep(a[k + 1], b[k + 1])
    BY <1>7, <2>1, StepTogether
  <2> QED BY <2>2
<1>8. 0 .. NoLimit \subseteq S
  <2> HIDE DEF S
  <2> QED BY <1>1, <1>6, <1>7, P!RangeInduction, U64IsPositive
<1>9. InStep(swap, dry)
  BY <1>1, <1>2, <1>3, <1>8
<1>10. /\ dry.left = swap.left /\ dry.users \subseteq 1 .. NumUsers
       /\ \A u \in 1 .. NumUsers :
             u \in dry.users <=> type_total(swap.s, u, "Active")
                                    # type_total(store, u, "Active")
  <2>1. ASSUME NEW u \in 1 .. NumUsers
        PROVE  type_total(store, u, "Active") \in Nat
               /\ type_total(swap.s, u, "Active") \in Nat
    <3>1. u \in {AnyUser} \cup 0 .. NumUsers /\ "Active" \in B!FundType
      BY FundModuleAssumption DEF B!FundType
    <3> QED BY <1>9, <3>1, TypeTotalIsNat DEF InStep, FundInv
  <2> QED BY <1>9, <2>1 DEF InStep
<1> QED BY <1>10 DEF type_total, swap, dry

-----------------------------------------------------------------------------
(* Sums over sets, as the community modules define them                    *)

(* Functions on sets that agree on the empty set and, if they agree        *)
(* without the element that is chosen, with it, agree.                     *)
LEMMA AgreeByRemoval ==
    ASSUME NEW set, IsFiniteSet(set), NEW v, NEW w, v[{}] = w[{}],
           \A T \in SUBSET set :
              T # {} => \E x \in T : v[T \ {x}] = w[T \ {x}] => v[T] = w[T]
    PROVE  v[set] = w[set]
<1> DEFINE S == { n \in Nat : \A T \in SUBSET set :
                                  Cardinality(T) = n => v[T] = w[T] }
<1>1. \A T \in SUBSET set : IsFiniteSet(T) /\ Cardinality(T) \in Nat
  BY FS_Subset, FS_CardinalityType
<1>2. 0 \in S
  <2> SUFFICES ASSUME NEW T \in SUBSET set, Cardinality(T) = 0
               PROVE  v[T] = w[T]
    OBVIOUS
  <2>1. T = {}
    BY <1>1, FS_EmptySet
  <2> QED BY <2>1
<1>3. ASSUME NEW n \in Nat, n \in S PROVE n + 1 \in S
  <2> SUFFICES ASSUME NEW T \in SUBSET set, Cardinality(T) = n + 1
               PROVE  v[T] = w[T]
    OBVIOUS
  <2>1. T # {}
    <3>1. Cardinality({}) = 0
      BY FS_EmptySet
    <3>2. Cardinality(T) # 0
      <4>1. Cardinality(T) = n + 1 /\ n + 1 # 0
        OBVIOUS
      <4> QED BY <4>1
    <3>3. T = {} => Cardinality(T) = 0
      BY <3>1, Zenon
    <3> QED BY <3>2, <3>3, Zenon
  <2>2. PICK x \in T : v[T \ {x}] = w[T \ {x}] => v[T] = w[T]
    BY <2>1
  <2>3. Cardinality(T \ {x}) = n
    <3>1. Cardinality(T \ {x}) = Cardinality(T) - 1
      BY <1>1, FS_RemoveElement
    <3> QED BY <3>1
  <2>4. v[T \ {x}] = w[T \ {x}]
    BY <1>3, <2>3
  <2> QED BY <2>2, <2>4
<1>4. Nat \subseteq S
  <2> HIDE DEF S
  <2> QED BY <1>2, <1>3, P!NatSetInduction, U64IsPositive
<1> QED BY <1>1, <1>4

is_due(item) == B!due(item.fund_desc, UnBondBlocks, block_nonce)

due_of(item) == IF is_due(item) THEN item.balance ELSE 0

due_part(items, T) ==
    [k \in 1 .. Len(items) |-> IF k \in T THEN due_of(items[k]) ELSE 0]

due_within(items, T) == P!SumTo(due_part(items, T), Len(items))

(* What is due of a list of items.                                         *)
DueSum(items) == due_within(items, 1 .. Len(items))

deferred_list(items) == [k \in DOMAIN items |->
                            [balance |-> items[k].balance,
                             created |-> items[k].fund_desc.created]]

IsDueFold(v, list) ==
    v = [T \in SUBSET DOMAIN list |->
            IF T = {} THEN 0
            ELSE IF B!due(list[CHOOSE x \in T : TRUE], UnBondBlocks, block_nonce)
            THEN v[T \ {CHOOSE x \in T : TRUE}]
                    + list[CHOOSE x \in T : TRUE].balance
            ELSE v[T \ {CHOOSE x \in T : TRUE}]]

(* eligible_deferred_payment is a recursive function on sets of positions. *)
LEMMA EligibleIsFold ==
    ASSUME NEW s, NEW u, NEW list, list = get_user_deferred_payment_list(s, u)
    PROVE  eligible_deferred_payment(s, u)
             = (CHOOSE v : IsDueFold(v, list))[DOMAIN list]
BY DEF eligible_deferred_payment, FoldSeq, FoldFunction, FoldFunctionOnSet,
       MapThenFoldSet, IsDueFold

(* What is due at a position counts once.                                  *)
LEMMA DueWithin ==
    ASSUME NEW items \in Seq(FundItem), NEW T \in SUBSET (1 .. Len(items))
    PROVE  /\ due_within(items, T) \in Nat
           /\ T = {} => due_within(items, T) = 0
           /\ \A x \in T : /\ due_of(items[x]) \in Nat
                           /\ due_within(items, T)
                                = due_within(items, T \ {x}) + due_of(items[x])
<1> DEFINE n == Len(items)
<1>1. n \in Nat /\ \A k \in 1 .. n : due_of(items[k]) \in Nat
  BY ItemFields DEF due_of
<1>2. ASSUME NEW U PROVE /\ \A k \in 1 .. n : due_part(items, U)[k] \in Nat
                         /\ due_within(items, U) \in Nat
  <2>1. \A k \in 1 .. n : due_part(items, U)[k] \in Nat
    BY <1>1 DEF due_part
  <2> QED BY <1>1, <2>1, P!SumNat, U64IsPositive DEF due_within
<1>3. ASSUME T = {} PROVE due_within(items, T) = 0
  <2>1. \A k \in 1 .. n : due_part(items, T)[k] = 0
    BY <1>3 DEF due_part
  <2> QED BY <1>1, <2>1, P!SumOfZeros, U64IsPositive DEF due_within
<1>4. ASSUME NEW x \in T
      PROVE  due_within(items, T)
               = due_within(items, T \ {x}) + due_of(items[x])
  <2> DEFINE f == due_part(items, T \ {x})
             g == due_part(items, T)
  <2>1. /\ x \in 1 .. n /\ g[x] = due_of(items[x]) /\ f[x] = 0
        /\ \A k \in 1 .. n : k # x => f[k] = g[k]
    BY <1>4 DEF due_part
  <2>2. \A k \in 1 .. n : f[k] \in Nat /\ g[k] \in Nat
    BY <1>2
  <2> HIDE DEF f, g
  <2>3. P!SumTo(g, n) = P!SumTo(f, n) + g[x] - f[x]
    BY <1>1, <2>1, <2>2, P!SumPoint, U64IsPositive
  <2>4. P!SumTo(f, n) \in Nat /\ P!SumTo(g, n) \in Nat
    BY <1>1, <2>2, P!SumNat, U64IsPositive
  <2>5. P!SumTo(g, n) = P!SumTo(f, n) + due_of(items[x])
    BY <1>1, <2>1, <2>3, <2>4
  <2> QED BY <2>5 DEF due_within, f, g
<1> QED BY <1>1, <1>2, <1>3, <1>4

(* The view adds up what is due of the items it visits.                    *)
LEMMA EligibleIsDueSum ==
    ASSUME NEW s, NEW u, NEW items \in Seq(FundItem),
           items = foreach_fund(s, "user", <<u, "DeferredPayment">>)
    PROVE  eligible_deferred_payment(s, u) = DueSum(items)
<1> DEFINE list == deferred_list(items)
           n == Len(items)
           w == [T \in SUBSET (1 .. n) |-> due_within(items, T)]
           v == CHOOSE z : IsDueFold(z, list)
<1>1. /\ list = get_user_deferred_payment_list(s, u)
      /\ DOMAIN items = 1 .. n /\ DOMAIN list = 1 .. n /\ n \in Nat
  BY DEF get_user_deferred_payment_list, deferred_list
<1>2. ASSUME NEW x \in 1 .. n
      PROVE  /\ B!due(list[x], UnBondBlocks, block_nonce) <=> is_due(items[x])
             /\ list[x].balance = items[x].balance
  <2>1. list[x] = [balance |-> items[x].balance,
                   created |-> items[x].fund_desc.created]
    BY <1>1 DEF deferred_list
  <2> HIDE DEF list
  <2> QED BY <2>1 DEF is_due, B!due
<1> HIDE DEF list
<1>3. ASSUME NEW T \in SUBSET (1 .. n), NEW x \in T
      PROVE  w[T] = IF B!due(list[x], UnBondBlocks, block_nonce)
                    THEN w[T \ {x}] + list[x].balance ELSE w[T \ {x}]
  <2>1. /\ due_within(items, T) = due_within(items, T \ {x}) + due_of(items[x])
        /\ due_within(items, T \ {x}) \in Nat
    <3>1. T \ {x} \in SUBSET (1 .. n)
      OBVIOUS
    <3> QED BY <3>1, DueWithin
  <2>2. w[T] = due_within(items, T) /\ w[T \ {x}] = due_within(items, T \ {x})
    OBVIOUS
  <2> HIDE DEF w
  <2>3. items[x].balance \in Nat
    BY ItemFields
  <2>4. CASE is_due(items[x])
    BY <1>2, <2>1, <2>2, <2>4 DEF due_of
  <2>5. CASE ~is_due(items[x])
    BY <1>2, <2>1, <2>2, <2>5 DEF due_of
  <2> QED BY <2>4, <2>5
<1>4. w[{}] = 0
  BY DueWithin
<1> DEFINE c(T) == CHOOSE x \in T : TRUE
<1>5. IsDueFold(w, list)
  <2>1. ASSUME NEW T \in SUBSET (1 .. n)
        PROVE  w[T] = IF T = {} THEN 0
                      ELSE IF B!due(list[c(T)], UnBondBlocks, block_nonce)
                      THEN w[T \ {c(T)}] + list[c(T)].balance
                      ELSE w[T \ {c(T)}]
    <3>1. CASE T # {}
      <4>1. c(T) \in T
        BY <3>1
      <4> HIDE DEF c, w
      <4> QED BY <1>3, <3>1, <4>1
    <3>2. CASE T = {}
      <4> HIDE DEF c, w
      <4> QED BY <1>4, <3>2
    <3> QED BY <3>1, <3>2
  <2>2. w = [T \in SUBSET (1 .. n) |-> w[T]]
    OBVIOUS
  <2> HIDE DEF w
  <2>3. w = [T \in SUBSET (1 .. n) |->
                IF T = {} THEN 0
                ELSE IF B!due(list[c(T)], UnBondBlocks, block_nonce)
                THEN w[T \ {c(T)}] + list[c(T)].balance
                ELSE w[T \ {c(T)}]]
    <3> HIDE DEF c
    <3> QED BY <2>1, <2>2, Zenon
  <2> QED BY <1>1, <2>3 DEF IsDueFold
<1>6. IsDueFold(v, list)
  BY <1>5
<1> HIDE DEF v
<1>7. v[1 .. n] = w[1 .. n]
  <2>1. IsFiniteSet(1 .. n)
    BY <1>1, FS_Interval
  <2>2. v[{}] = 0
    BY <1>1, <1>6 DEF IsDueFold
  <2>3. ASSUME NEW T \in SUBSET (1 .. n), T # {}
        PROVE  \E x \in T : v[T \ {x}] = w[T \ {x}] => v[T] = w[T]
    <3>1. c(T) \in T
      BY <2>3
    <3>2. v[T] = IF B!due(list[c(T)], UnBondBlocks, block_nonce)
                 THEN v[T \ {c(T)}] + list[c(T)].balance
                 ELSE v[T \ {c(T)}]
      BY <1>1, <1>6, <2>3 DEF IsDueFold
    <3> HIDE DEF c, w
    <3>3. PICK x \in T : x = c(T)
      BY <3>1
    <3>4. w[T] = IF B!due(list[x], UnBondBlocks, block_nonce)
                 THEN w[T \ {x}] + list[x].balance ELSE w[T \ {x}]
      BY <1>3
    <3>5. v[T] = IF B!due(list[x], UnBondBlocks, block_nonce)
                 THEN v[T \ {x}] + list[x].balance ELSE v[T \ {x}]
      BY <3>2, <3>3
    <3>6. v[T \ {x}] = w[T \ {x}] => v[T] = w[T]
      BY <3>4, <3>5
    <3> QED BY <3>6
  <2> DEFINE set == 1 .. n
  <2> HIDE DEF w, set
  <2>4. /\ IsFiniteSet(set) /\ v[{}] = w[{}]
        /\ \A T \in SUBSET set :
              T # {} => \E x \in T : v[T \ {x}] = w[T \ {x}] => v[T] = w[T]
    BY <1>4, <2>1, <2>2, <2>3 DEF set
  <2>5. v[set] = w[set]
    BY <2>4, AgreeByRemoval
  <2> QED BY <2>5 DEF set
<1>8. eligible_deferred_payment(s, u) = v[DOMAIN list]
  BY <1>1, EligibleIsFold DEF v
<1> QED BY <1>1, <1>7, <1>8 DEF DueSum

(* One more item.                                                          *)
LEMMA DueSumAppend ==
    ASSUME NEW items \in Seq(FundItem), NEW item \in FundItem
    PROVE  /\ DueSum(Append(items, item)) = DueSum(items) + due_of(item)
           /\ DueSum(items) \in Nat
<1> DEFINE more == Append(items, item)
           n == Len(items)
           f == due_part(items, 1 .. n)
           g == due_part(more, 1 .. n + 1)
<1>1. /\ n \in Nat /\ Len(more) = n + 1 /\ more[n + 1] = item
      /\ \A k \in 1 .. n : more[k] = items[k]
  OBVIOUS
<1> HIDE DEF more
<1>2. \A k \in 1 .. n : f[k] = g[k]
  BY <1>1 DEF due_part
<1>3. g[n + 1] = due_of(item)
  BY <1>1 DEF due_part
<1> HIDE DEF f, g
<1>4. P!SumTo(g, n + 1) = P!SumTo(g, n) + g[n + 1]
  BY <1>1, P!SumStep, U64IsPositive
<1>5. P!SumTo(f, n) = P!SumTo(g, n)
  BY <1>1, <1>2, P!SumSame, U64IsPositive
<1>6. DueSum(more) = P!SumTo(g, n + 1) /\ DueSum(items) = P!SumTo(f, n)
  BY <1>1 DEF DueSum, due_within, f, g
<1>7. DueSum(items) \in Nat
  BY DueWithin DEF DueSum
<1> QED BY <1>3, <1>4, <1>5, <1>6, <1>7 DEF more

(* Nothing is due of no items.                                             *)
LEMMA DueSumOfNone == DueSum(<<>>) = 0
<1>1. <<>> \in Seq(FundItem) /\ 1 .. Len(<<>>) = {}
  OBVIOUS
<1> QED BY <1>1, DueWithin DEF DueSum

-----------------------------------------------------------------------------
(* The total stake of a user                                               *)

part(f, T, type) == IF type \in T THEN f[type] ELSE 0

FiveParts(f, T) ==
    part(f, T, "WithdrawOnly") + part(f, T, "Waiting") + part(f, T, "Active")
        + part(f, T, "UnStaked") + part(f, T, "DeferredPayment")

IsTypeFold(v, f) ==
    v = [T \in SUBSET B!FundType |->
            IF T = {} THEN 0
            ELSE f[CHOOSE x \in T : TRUE] + v[T \ {CHOOSE x \in T : TRUE}]]

stake_of(s, w) == [type \in B!FundType |-> type_total(s, w, type)]

(* get_user_total_stake is a recursive function on sets of types.          *)
LEMMA TotalIsFold ==
    ASSUME NEW s, NEW w
    PROVE  get_user_total_stake(s, w)
             = (CHOOSE v : v = [T \in SUBSET B!FundType |->
                   IF T = {} THEN 0
                   ELSE get_user_stake_of_type(s, w, CHOOSE x \in T : TRUE)
                          + v[T \ {CHOOSE x \in T : TRUE}]])[B!FundType]
BY DEF get_user_total_stake, MapThenSumSet, MapThenFoldSet

(* The set of types is finite.                                             *)
LEMMA TypesAreFinite == IsFiniteSet(B!FundType)
<1>1. /\ IsFiniteSet({"WithdrawOnly"})
      /\ IsFiniteSet({"WithdrawOnly"} \cup {"Waiting"})
      /\ IsFiniteSet({"WithdrawOnly", "Waiting"} \cup {"Active"})
      /\ IsFiniteSet({"WithdrawOnly", "Waiting", "Active"} \cup {"UnStaked"})
      /\ IsFiniteSet({"WithdrawOnly", "Waiting", "Active", "UnStaked"}
                         \cup {"DeferredPayment"})
  <2>1. IsFiniteSet({"WithdrawOnly"})
    BY FS_Singleton
  <2>2. IsFiniteSet({"WithdrawOnly"} \cup {"Waiting"})
    BY <2>1, FS_AddElement
  <2>3. {"WithdrawOnly"} \cup {"Waiting"} = {"WithdrawOnly", "Waiting"}
    OBVIOUS
  <2>4. IsFiniteSet({"WithdrawOnly", "Waiting"} \cup {"Active"})
    BY <2>2, <2>3, FS_AddElement
  <2>5. {"WithdrawOnly", "Waiting"} \cup {"Active"}
          = {"WithdrawOnly", "Waiting", "Active"}
    OBVIOUS
  <2>6. IsFiniteSet({"WithdrawOnly", "Waiting", "Active"} \cup {"UnStaked"})
    BY <2>4, <2>5, FS_AddElement
  <2>7. {"WithdrawOnly", "Waiting", "Active"} \cup {"UnStaked"}
          = {"WithdrawOnly", "Waiting", "Active", "UnStaked"}
    OBVIOUS
  <2>8. IsFiniteSet({"WithdrawOnly", "Waiting", "Active", "UnStaked"}
                        \cup {"DeferredPayment"})
    BY <2>6, <2>7, FS_AddElement
  <2> QED BY <2>1, <2>2, <2>4, <2>6, <2>8
<1>2. B!FundType = {"WithdrawOnly", "Waiting", "Active", "UnStaked"}
                        \cup {"DeferredPayment"}
  BY DEF B!FundType
<1> QED BY <1>1, <1>2

(* Every type counts once.                                                 *)
LEMMA FivePartsStep ==
    ASSUME NEW f, \A type \in B!FundType : f[type] \in Nat,
           NEW T \in SUBSET B!FundType, NEW x \in T
    PROVE  FiveParts(f, T) = f[x] + FiveParts(f, T \ {x})
<1>1. /\ f["WithdrawOnly"] \in Nat /\ f["Waiting"] \in Nat
      /\ f["Active"] \in Nat /\ f["UnStaked"] \in Nat
      /\ f["DeferredPayment"] \in Nat
  BY DEF B!FundType
<1>2. x \in B!FundType
  OBVIOUS
<1>3. ASSUME NEW type \in B!FundType
      PROVE  /\ type # x => part(f, T \ {x}, type) = part(f, T, type)
             /\ type = x => part(f, T \ {x}, type) = 0
                            /\ part(f, T, type) = f[x]
             /\ part(f, T, type) \in Nat
  BY DEF part
<1>4. x \in {"WithdrawOnly", "Waiting", "Active", "UnStaked",
             "DeferredPayment"}
  BY <1>2 DEF B!FundType
<1> DEFINE a(type) == part(f, T, type)
           b(type) == part(f, T \ {x}, type)
<1>5. /\ a("WithdrawOnly") \in Nat /\ a("Waiting") \in Nat
      /\ a("Active") \in Nat /\ a("UnStaked") \in Nat
      /\ a("DeferredPayment") \in Nat
  BY <1>3 DEF B!FundType
<1>6. \A type \in {"WithdrawOnly", "Waiting", "Active", "UnStaked",
                   "DeferredPayment"} :
         b(type) = IF type = x THEN 0 ELSE a(type)
  BY <1>3 DEF B!FundType
<1>7. a(x) = f[x]
  BY <1>2, <1>3
<1> HIDE DEF a, b
<1>8. /\ b("WithdrawOnly") = IF "WithdrawOnly" = x THEN 0 ELSE a("WithdrawOnly")
      /\ b("Waiting") = IF "Waiting" = x THEN 0 ELSE a("Waiting")
      /\ b("Active") = IF "Active" = x THEN 0 ELSE a("Active")
      /\ b("UnStaked") = IF "UnStaked" = x THEN 0 ELSE a("UnStaked")
      /\ b("DeferredPayment") = IF "DeferredPayment" = x THEN 0
                                ELSE a("DeferredPayment")
  BY <1>6
<1>9. a("WithdrawOnly") + a("Waiting") + a("Active") + a("UnStaked")
         + a("DeferredPayment")
      = a(x) + (b("WithdrawOnly") + b("Waiting") + b("Active")
                  + b("UnStaked") + b("DeferredPayment"))
  <2>1. CASE x = "WithdrawOnly"
    BY <1>5, <1>8, <2>1
  <2>2. CASE x = "Waiting"
    BY <1>5, <1>8, <2>2
  <2>3. CASE x = "Active"
    BY <1>5, <1>8, <2>3
  <2>4. CASE x = "UnStaked"
    BY <1>5, <1>8, <2>4
  <2>5. CASE x = "DeferredPayment"
    BY <1>5, <1>8, <2>5
  <2> QED BY <1>4, <2>1, <2>2, <2>3, <2>4, <2>5
<1> QED BY <1>7, <1>9 DEF FiveParts, a, b

(* get_user_total_stake is the sum of the totals of the five types.        *)
LEMMA TotalIsSum ==
    ASSUME NEW s, Good(s), NEW w \in {AnyUser} \cup 0 .. NumUsers
    PROVE  get_user_total_stake(s, w)
             = type_total(s, w, "WithdrawOnly") + type_total(s, w, "Waiting")
                 + type_total(s, w, "Active") + type_total(s, w, "UnStaked")
                 + type_total(s, w, "DeferredPayment")
<1> DEFINE f == stake_of(s, w)
           q == [T \in SUBSET B!FundType |-> FiveParts(f, T)]
           v == CHOOSE z : z = [T \in SUBSET B!FundType |->
                   IF T = {} THEN 0
                   ELSE get_user_stake_of_type(s, w, CHOOSE x \in T : TRUE)
                          + z[T \ {CHOOSE x \in T : TRUE}]]
           c(T) == CHOOSE x \in T : TRUE
           set == B!FundType
<1>1. \A type \in B!FundType :
         /\ f[type] \in Nat
         /\ f[type] = get_user_stake_of_type(s, w, type)
         /\ f[type] = type_total(s, w, type)
  BY TypeTotalIsNat DEF stake_of, type_total, get_user_stake_of_type
<1> HIDE DEF f
<1>2. ASSUME NEW T \in SUBSET set, T # {}
      PROVE  /\ c(T) \in T
             /\ q[T] = get_user_stake_of_type(s, w, c(T)) + q[T \ {c(T)}]
  <2>1. PICK x \in T : x = c(T)
    BY <1>2
  <2>2. FiveParts(f, T) = f[x] + FiveParts(f, T \ {x})
    BY <1>1, FivePartsStep
  <2>3. q[T] = FiveParts(f, T) /\ q[T \ {x}] = FiveParts(f, T \ {x})
    OBVIOUS
  <2> HIDE DEF c, q
  <2> QED BY <1>1, <2>1, <2>2, <2>3
<1>3. q[{}] = 0
  <2>1. FiveParts(f, {}) = 0
    BY DEF FiveParts, part
  <2> QED BY <2>1
<1>4. q = [T \in SUBSET set |->
              IF T = {} THEN 0
              ELSE get_user_stake_of_type(s, w, c(T)) + q[T \ {c(T)}]]
  <2>1. q = [T \in SUBSET set |-> q[T]]
    OBVIOUS
  <2>2. \A T \in SUBSET set :
           q[T] = IF T = {} THEN 0
                  ELSE get_user_stake_of_type(s, w, c(T)) + q[T \ {c(T)}]
    <3> HIDE DEF q, c
    <3> QED BY <1>2, <1>3
  <2> HIDE DEF q, c, set
  <2> QED BY <2>1, <2>2, Zenon
<1>5. v = [T \in SUBSET set |->
              IF T = {} THEN 0
              ELSE get_user_stake_of_type(s, w, c(T)) + v[T \ {c(T)}]]
  <2> HIDE DEF q
  <2> QED BY <1>4
<1>6. get_user_total_stake(s, w) = v[set]
  BY TotalIsFold
<1> HIDE DEF v, q, set
<1>7. v[{}] = 0
  BY <1>5
<1>8. ASSUME NEW T \in SUBSET set, T # {}
      PROVE  \E x \in T : v[T \ {x}] = q[T \ {x}] => v[T] = q[T]
  <2>1. v[T] = get_user_stake_of_type(s, w, c(T)) + v[T \ {c(T)}]
    BY <1>5, <1>8
  <2> HIDE DEF c
  <2> QED BY <1>2, <1>8, <2>1
<1>9. v[set] = q[set]
  <2>1. IsFiniteSet(set)
    BY TypesAreFinite DEF set
  <2>2. /\ v[{}] = q[{}]
        /\ \A T \in SUBSET set :
              T # {} => \E x \in T : v[T \ {x}] = q[T \ {x}] => v[T] = q[T]
    BY <1>3, <1>7, <1>8
  <2> QED BY <2>1, <2>2, AgreeByRemoval
<1>10. q[set] = FiveParts(f, B!FundType)
  BY DEF q, set
<1>11. FiveParts(f, B!FundType)
         = f["WithdrawOnly"] + f["Waiting"] + f["Active"] + f["UnStaked"]
             + f["DeferredPayment"]
  BY DEF FiveParts, part, B!FundType
<1>12. /\ "WithdrawOnly" \in B!FundType /\ "Waiting" \in B!FundType
       /\ "Active" \in B!FundType /\ "UnStaked" \in B!FundType
       /\ "DeferredPayment" \in B!FundType
  BY DEF B!FundType
<1>13. /\ f["WithdrawOnly"] = type_total(s, w, "WithdrawOnly")
       /\ f["Waiting"] = type_total(s, w, "Waiting")
       /\ f["Active"] = type_total(s, w, "Active")
       /\ f["UnStaked"] = type_total(s, w, "UnStaked")
       /\ f["DeferredPayment"] = type_total(s, w, "DeferredPayment")
  BY <1>1, <1>12
<1> QED BY <1>6, <1>9, <1>10, <1>11, <1>13

-----------------------------------------------------------------------------
(* The views and unBond                                                    *)

view_start(s, key) == [id |-> s.lists[key].first, items |-> <<>>]

view_step(s, kind, y) ==
    LET item == s.fund_by_id[y.id]
    IN  IF y.id = 0 THEN y
        ELSE [id |-> item.next[kind], items |-> Append(y.items, item)]

IsView(a, s, kind, key, n) ==
    a = [k \in 0 .. n |-> IF k = 0 THEN view_start(s, key)
                          ELSE view_step(s, kind, a[k - 1])]

(* The recursive function of foreach_fund exists.                          *)
LEMMA ViewExists ==
    ASSUME NEW s, NEW kind, NEW key, NEW N \in Nat
    PROVE  \E a : IsView(a, s, kind, key, N)
<1> DEFINE T == { n \in Nat : \E a : IsView(a, s, kind, key, n) }
           start == view_start(s, key)
           step(y) == view_step(s, kind, y)
<1> HIDE DEF start
<1>1. 0 \in T
  <2>1. IsView([k \in 0 .. 0 |-> start], s, kind, key, 0)
    BY DEF IsView, start
  <2> QED BY <2>1
<1>2. ASSUME NEW n \in Nat, n \in T PROVE n + 1 \in T
  <2>1. PICK a : IsView(a, s, kind, key, n)
    BY <1>2
  <2>2. a[0] = start /\ \A k \in 1 .. n : a[k] = step(a[k - 1])
    BY <2>1 DEF IsView, start
  <2> HIDE DEF step
  <2> DEFINE t == [k \in 0 .. n + 1 |-> IF k <= n THEN a[k] ELSE step(a[n])]
  <2>3. ASSUME NEW k \in 0 .. n + 1
        PROVE  t[k] = IF k = 0 THEN start ELSE step(t[k - 1])
    <3>1. CASE k = 0
      BY <2>2, <3>1
    <3>2. CASE k \in 1 .. n
      BY <2>2, <3>2
    <3>3. CASE k = n + 1
      BY <3>3
    <3> QED BY <3>1, <3>2, <3>3
  <2>4. IsView(t, s, kind, key, n + 1)
    <3> HIDE DEF t
    <3>1. t = [k \in 0 .. n + 1 |-> t[k]]
      BY DEF t
    <3>2. t = [k \in 0 .. n + 1 |-> IF k = 0 THEN start ELSE step(t[k - 1])]
      BY <2>3, <3>1, Zenon
    <3> QED BY <3>2 DEF IsView, start, step
  <2> QED BY <2>4
<1>3. Nat \subseteq T
  <2> HIDE DEF T
  <2> QED BY <1>1, <1>2, P!NatSetInduction, U64IsPositive
<1> QED BY <1>3

(* foreach_fund gives the items of its last step.                          *)
LEMMA ForeachIsView ==
    ASSUME NEW s, NEW kind, NEW key
    PROVE  \E a : /\ IsView(a, s, kind, key, NoLimit)
                  /\ foreach_fund(s, kind, key) = a[NoLimit].items
<1> DEFINE w == CHOOSE a : IsView(a, s, kind, key, NoLimit)
<1>1. IsView(w, s, kind, key, NoLimit)
  <2>1. NoLimit \in Nat
    BY FundModuleAssumption DEF NoLimit
  <2> QED BY <2>1, ViewExists
<1>2. foreach_fund(s, kind, key) = w[NoLimit].items
  BY DEF foreach_fund, IsView, view_start, view_step
<1> HIDE DEF w
<1> QED BY <1>1, <1>2

(* A conversion leaves the rest of a list of another type as stored.       *)
LEMMA StaysAsStored ==
    ASSUME NEW s, Good(s), NEW id, Live(s, id), NEW x, NEW r,
           NEW d \in FundDesc, d # Destroyed, Converted(s, r, id, x, d),
           NEW kind, NEW key, key[2] # d.type,
           NEW k \in Ids \ {id}, AsStored(s, kind, key, k)
    PROVE  AsStored(r, kind, key, k)
<1>1. ASSUME k \in Mem(r, kind, key)
      PROVE  SameEntry(r.fund_by_id[k], s.fund_by_id[k])
  <2>1. r.fund_by_id[k].fund_desc.type = key[2]
    BY <1>1, MemberIs DEF list_key
  <2> QED BY <2>1, ConvertedElsewhere
<1>2. ASSUME k \in Mem(s, kind, key)
      PROVE  SameEntry(r.fund_by_id[k], s.fund_by_id[k])
  <2>1. s.fund_by_id[k].fund_desc.type = key[2] /\ Live(s, k)
    BY <1>2, MemberIs DEF list_key
  <2> QED BY <2>1, ConvertedKeeps
<1>3. SameEntry(r.fund_by_id[k], s.fund_by_id[k])
        => (k \in Mem(r, kind, key) <=> k \in Mem(s, kind, key))
  BY DEF SameEntry, Mem, list_key
<1> QED BY <1>1, <1>2, <1>3 DEF AsStored, SameEntry

(* Taking from an item of another type leaves the last item of a list.     *)
LEMMA TakenKeepsLast ==
    ASSUME NEW s, Good(s), NEW id, Live(s, id), NEW x, NEW r,
           Taken(s, r, id, x), NEW key \in Keys, ~IsKeyOf(key, s.fund_by_id[id])
    PROVE  r.lists[key] = s.lists[key]
<1> DEFINE b == s.fund_by_id[id].balance
<1>1. b \in Nat /\ x \in 1 .. b
  BY GoodItem, ItemFields DEF Taken
<1>2. CASE x = b
  BY <1>2 DEF Taken, Erased, CutOut
<1>3. CASE x < b
  <2>1. Rebalanced(s, r, id, b - x)
    BY <1>3 DEF Taken
  <2> HIDE DEF b
  <2> QED BY <2>1 DEF Rebalanced
<1> QED BY <1>1, <1>2, <1>3

(* After a conversion to withdraw-only funds the next ones coalesce.       *)
LEMMA ConvertedCoalesces ==
    ASSUME NEW s, Good(s), NEW id, Live(s, id), NEW x, NEW r,
           Converted(s, r, id, x, B!WithdrawOnly),
           NEW u, u = s.fund_by_id[id].user_id,
           s.fund_by_id[id].fund_desc.type # "WithdrawOnly"
    PROVE  /\ Coalesces(r, u, B!WithdrawOnly)
           /\ Coalesces(s, u, B!WithdrawOnly) => r.fund_max_id = s.fund_max_id
           /\ r.fund_max_id \in {s.fund_max_id, s.fund_max_id + 1}
<1> DEFINE d == B!WithdrawOnly
           key == <<u, "WithdrawOnly">>
<1>1. /\ d \in FundDesc /\ d.type = "WithdrawOnly" /\ d # Destroyed
      /\ B!allow_coalesce(d.type) /\ u \in 1 .. NumUsers /\ key \in Keys
      /\ "WithdrawOnly" \in B!FundType /\ u \in 0 .. NumUsers
  BY GoodItem, FundModuleAssumption DEF B!WithdrawOnly, FundDesc, B!FundType,
     Destroyed, B!allow_coalesce, Keys
<1> HIDE DEF d
<1>2. PICK s2 : Taken(s, s2, id, x) /\ Increased(s2, r, u, d, x)
  BY <1>1 DEF Converted, d
<1>3. /\ Good(s2) /\ s2.fund_max_id = s.fund_max_id /\ x \in Nat \ {0}
      /\ \A k \in Ids \ {id} : SameEntry(s2.fund_by_id[k], s.fund_by_id[k])
  BY <1>2, GoodTaken, TakenItems
<1>4. s2.lists[key] = s.lists[key]
  <2>1. ~IsKeyOf(key, s.fund_by_id[id])
    BY DEF IsKeyOf, list_key, Kinds
  <2> HIDE DEF key
  <2> QED BY <1>1, <1>2, <2>1, TakenKeepsLast
<1>5. ASSUME Coalesces(s, u, d) PROVE Coalesces(s2, u, d)
  <2> DEFINE last == s.lists[key].last
  <2>1. last # 0 /\ s.fund_by_id[last].fund_desc = d
    BY <1>1, <1>5 DEF Coalesces
  <2>2. last \in Ids /\ last # id
    <3>1. Live(s, last)
      BY <1>1, <2>1, LastOfUser
    <3> QED BY <1>1, <2>1, <3>1 DEF Live
  <2>3. s2.fund_by_id[last].fund_desc = d
    BY <1>3, <2>1, <2>2 DEF SameEntry
  <2> QED BY <1>1, <1>4, <2>1, <2>3 DEF Coalesces
<1>6. CASE Coalesces(s2, u, d)
  <2> DEFINE last == s2.lists[<<u, d.type>>].last
             b == s2.fund_by_id[last].balance + x
  <2>1. Rebalanced(s2, r, last, b) /\ last # 0
        /\ s2.fund_by_id[last].fund_desc = d
    BY <1>2, <1>6 DEF Increased, Coalesces
  <2> HIDE DEF last, b
  <2>2. Live(s2, last) /\ s2.fund_by_id[last] \in FundItem
    <3>1. d.type \in B!FundType /\ last = s2.lists[<<u, d.type>>].last
      BY <1>1 DEF last
    <3>2. Live(s2, last)
      BY <1>1, <1>3, <2>1, <3>1, LastOfUser
    <3> QED BY <1>3, <3>2, GoodItem
  <2>3. /\ r.fund_max_id = s2.fund_max_id
        /\ r.fund_by_id[last] = [s2.fund_by_id[last] EXCEPT !.balance = b]
        /\ r.lists[<<u, d.type>>].last = s2.lists[<<u, d.type>>].last
    BY <1>1, <2>1 DEF Rebalanced
  <2>4. r.fund_by_id[last].fund_desc = d
    BY <2>1, <2>2, <2>3 DEF FundItem
  <2>5. Coalesces(r, u, d)
    BY <1>1, <2>1, <2>3, <2>4 DEF Coalesces, last
  <2> QED BY <1>3, <2>3, <2>5 DEF d
<1>7. CASE ~Coalesces(s2, u, d)
  <2> DEFINE new == s2.fund_max_id + 1
             item == new_item(u, d, x)
  <2>1. Inserted(s2, r, new, item) /\ new \in Ids
    BY <1>2, <1>7 DEF Increased
  <2>2. list_key("user", item) = <<u, d.type>> /\ item.fund_desc = d
    BY NewKeys DEF new_item
  <2>3. s2.fund_max_id \in Nat
    BY <1>3, StoreFields DEF Good
  <2> HIDE DEF item
  <2>4. /\ r.fund_max_id = new /\ r.fund_by_id[new].fund_desc = d
        /\ r.lists[<<u, d.type>>].last = new /\ new # 0
    <3> HIDE DEF new
    <3>1. r.lists[list_key("user", item)].last = new
      BY <2>1 DEF Inserted, Kinds
    <3>2. r.fund_max_id = new /\ r.fund_by_id[new].fund_desc = d
      BY <2>1, <2>2 DEF Inserted, SameEntry
    <3> QED BY <2>2, <2>3, <3>1, <3>2 DEF new
  <2>5. Coalesces(r, u, d)
    BY <1>1, <2>4 DEF Coalesces
  <2> QED BY <1>3, <1>5, <1>7, <2>4, <2>5 DEF d
<1> QED BY <1>6, <1>7

deferred(u) == <<u, "DeferredPayment">>

Deferred(s, u) == Mem(s, "user", deferred(u))

(* The deferred list is the list of a user.                                *)
LEMMA DeferredKey ==
    ASSUME NEW u \in 1 .. NumUsers
    PROVE  "user" \in Kinds /\ deferred(u) \in KeysOf("user")
BY SourceKeys DEF deferred, B!FundType

release == [item \in FundItem |->
                IF B!due(item.fund_desc, UnBondBlocks, block_nonce)
                THEN B!WithdrawOnly ELSE B!NoDescription]

(* What a total gains when the amount x of a user becomes withdraw-only.   *)
gain(u, w, type, x) ==
    IF w \in {u, AnyUser}
    THEN IF type = "WithdrawOnly" THEN x
         ELSE IF type = "DeferredPayment" THEN 0 - x ELSE 0
    ELSE 0

(* The release of what is due, at t, and the view, at y, are at the same   *)
(* item; what they have still to visit is as it was; the totals differ by  *)
(* what is due of the items that the view has seen; and at most one id was *)
(* taken, since what is released afterwards coalesces.                     *)
Releasing(t, y, u) ==
    /\ t = [s |-> t.s, id |-> t.id, left |-> t.left, visited |-> t.visited]
    /\ Good(t.s) /\ t.left = NoMax
    /\ y.id = t.id /\ y.items \in Seq(FundItem)
    /\ \/ t.s.fund_max_id <= MaxId
       \/ t.s.fund_max_id = MaxId + 1 /\ Coalesces(t.s, u, B!WithdrawOnly)
    /\ t.id # 0 =>
          /\ t.id \in Deferred(store, u)
          /\ t.s.fund_max_id < MaxId + t.id
          /\ \A k \in Ids : k >= t.id => AsStored(t.s, "user", deferred(u), k)
    /\ \A w \in {AnyUser} \cup 0 .. NumUsers, type \in B!FundType :
          type_total(t.s, w, type)
             = type_total(store, w, type) + gain(u, w, type, DueSum(y.items))

(* What the next iteration of the release finds.                           *)
LEMMA ReleaseAt ==
    ASSUME FundInv, NEW u \in 1 .. NumUsers, NEW t, NEW y, Releasing(t, y, u),
           NEW s, s = t.s, NEW id, id = t.id, id # 0,
           NEW item, item = s.fund_by_id[id],
           NEW stored, stored = store.fund_by_id[id],
           NEW n, n = stored.next["user"]
    PROVE  /\ Live(s, id) /\ id \in Ids /\ s.fund_max_id + 1 \in Ids
           /\ id \in Deferred(s, u) /\ SameEntry(item, stored)
           /\ item \in FundItem /\ stored \in FundItem
           /\ item.user_id = u /\ item.fund_desc.type = "DeferredPayment"
           /\ item.next["user"] = n
           /\ n = 0 \/ (n \in Deferred(store, u) /\ n > id /\ n \in Nat)
           /\ s.fund_max_id \in Nat /\ id \in Nat
<1>1. /\ Good(s) /\ id \in Deferred(store, u) /\ s.fund_max_id < MaxId + id
      /\ \A k \in Ids : k >= id => AsStored(s, "user", deferred(u), k)
      /\ Good(store) /\ Fits(store)
  BY DEF Releasing, FundInv
<1>2. /\ Live(store, id) /\ id \in Ids /\ id \in 1 .. store.fund_max_id
      /\ store.fund_max_id \in Nat /\ s.fund_max_id \in Nat
      /\ stored \in FundItem
  BY <1>1, MemberIs, GoodItem, StoreFields DEF Deferred, Live, Good
<1>3. s.fund_max_id + 1 \in Ids /\ id <= MaxId
  BY <1>1, <1>2, FundModuleAssumption DEF Ids, Fits
<1>4. id \in Deferred(s, u) /\ SameEntry(item, stored)
  <2>1. AsStored(s, "user", deferred(u), id)
    BY <1>1, <1>2 DEF Ids
  <2> QED BY <1>1, <2>1 DEF AsStored, Deferred
<1>5. /\ Live(s, id) /\ item.user_id = u
      /\ item.fund_desc.type = "DeferredPayment"
  BY <1>4, MemberIs DEF Deferred, deferred, list_key
<1>6. item \in FundItem
  BY <1>1, <1>5, GoodItem
<1>7. /\ item.next["user"] = n
      /\ n = 0 \/ (n \in Deferred(store, u) /\ n > id)
  BY <1>1, <1>4, SameNext, DeferredKey DEF Deferred
<1>8. n \in Deferred(store, u) => n \in Nat
  BY MemberIs DEF Deferred
<1> QED BY <1>2, <1>3, <1>4, <1>5, <1>6, <1>7, <1>8

(* The next iterations of release and view are at the same item again.     *)
LEMMA ReleaseStep ==
    ASSUME FundInv, NEW u \in 1 .. NumUsers, NEW t, NEW y, Releasing(t, y, u),
           NEW r, r = visit(t, "user", "next", release),
           NEW z, z = view_step(store, "user", y)
    PROVE  Releasing(r, z, u)
<1> DEFINE s == t.s
           id == t.id
           item == s.fund_by_id[id]
           stored == store.fund_by_id[id]
           n == stored.next["user"]
           key == deferred(u)
           d == B!WithdrawOnly
           old == DueSum(y.items)
           x == item.balance
<1>1. CASE t.id = 0
  <2>1. r = t /\ z = y
    BY <1>1 DEF visit, view_step, Releasing
  <2> QED BY <2>1
<1>2. CASE t.id # 0
  <2>1. /\ t = [s |-> s, id |-> id, left |-> NoMax, visited |-> t.visited]
        /\ t.left = NoMax /\ NoMax # 0
        /\ Good(s) /\ y.id = id /\ y.items \in Seq(FundItem)
        /\ \/ s.fund_max_id <= MaxId
           \/ s.fund_max_id = MaxId + 1 /\ Coalesces(s, u, d)
        /\ s.fund_max_id < MaxId + id
        /\ \A k \in Ids : k >= id => AsStored(s, "user", key, k)
        /\ \A w \in {AnyUser} \cup 0 .. NumUsers, type \in B!FundType :
              type_total(s, w, type)
                 = type_total(store, w, type) + gain(u, w, type, old)
    BY <1>2 DEF Releasing, NoMax
  <2>2. /\ Live(s, id) /\ id \in Ids /\ s.fund_max_id + 1 \in Ids
        /\ id \in Deferred(s, u) /\ SameEntry(item, stored)
        /\ item \in FundItem /\ stored \in FundItem
        /\ item.user_id = u /\ item.fund_desc.type = "DeferredPayment"
        /\ item.next["user"] = n
        /\ n = 0 \/ (n \in Deferred(store, u) /\ n > id /\ n \in Nat)
        /\ s.fund_max_id \in Nat /\ id \in Nat
    BY <1>2, ReleaseAt
  <2>3. z.id = n /\ z.items = Append(y.items, stored)
        /\ z.items \in Seq(FundItem)
    <3>1. z = [id |-> n, items |-> Append(y.items, stored)]
      BY <1>2, <2>1 DEF view_step
    <3>2. stored \in FundItem /\ y.items \in Seq(FundItem)
      BY <2>1, <2>2
    <3> HIDE DEF stored, n
    <3> QED BY <3>1, <3>2
  <2>4. DueSum(z.items) = old + due_of(stored) /\ old \in Nat
    <3> HIDE DEF stored
    <3> QED BY <2>1, <2>2, <2>3, DueSumAppend
  <2>5. /\ x \in Nat
        /\ due_of(stored) = IF is_due(item) THEN x ELSE 0
    <3>1. is_due(item) <=> is_due(stored)
      BY <2>2 DEF SameEntry, is_due
    <3>2. item.balance = stored.balance
      BY <2>2 DEF SameEntry
    <3> QED BY <2>2, <3>1, <3>2, ItemFields DEF due_of
  <2>6. r = [s |-> r.s, id |-> r.id, left |-> r.left, visited |-> r.visited]
    BY <2>1, VisitShape
  <2>7. CASE ~is_due(item)
    <3>1. release[item] = B!NoDescription
      BY <2>2, <2>7 DEF release, is_due
    <3>2. r = [t EXCEPT !.id = n, !.visited = @ + 1]
      BY <1>2, <2>1, <2>2, <3>1 DEF visit, neighbour
    <3>3. r.s = s /\ r.id = n /\ r.left = NoMax
      <4> HIDE DEF s, id, n
      <4> DEFINE v == t.visited
      <4>1. t = [s |-> s, id |-> id, left |-> NoMax, visited |-> v]
        BY <2>1
      <4> HIDE DEF v
      <4>2. r = [s |-> s, id |-> n, left |-> NoMax, visited |-> v + 1]
        BY <3>2, <4>1, SkippedIs, Zenon
      <4> QED BY <4>2
    <3>4. DueSum(z.items) = old
      <4> HIDE DEF item, stored, old
      <4> QED BY <2>4, <2>5, <2>7
    <3> HIDE DEF s, id, n, item, stored, old, x
    <3>5. ASSUME n # 0
          PROVE  /\ n \in Deferred(store, u) /\ r.s.fund_max_id < MaxId + n
                 /\ \A k \in Ids : k >= n => AsStored(r.s, "user", key, k)
      <4>1. n \in Deferred(store, u) /\ n > id /\ n \in Nat
        BY <2>2, <3>5
      <4>2. \A k \in Ids : k >= n => k >= id
        BY <2>2, <4>1 DEF Ids
      <4> QED BY <2>1, <2>2, <3>3, <4>1, <4>2, FundModuleAssumption
    <3> QED BY <2>1, <2>3, <2>6, <3>3, <3>4, <3>5 DEF Releasing
  <2>8. CASE is_due(item)
    <3>1. /\ release[item] = d /\ d # B!NoDescription
          /\ d \in FundDesc /\ d.type # item.fund_desc.type /\ d # Destroyed
          /\ d.type = "WithdrawOnly"
      BY <2>2, <2>8 DEF release, is_due, B!WithdrawOnly, B!NoDescription,
                        FundDesc, B!FundType, Destroyed
    <3>2. id \in Mem(s, "user", key) /\ "user" \in Kinds
          /\ NoMax \in MaxAmount /\ taken_of(item, NoMax) = x
          /\ left_after(NoMax, x) = NoMax /\ t.left \in MaxAmount
      BY <2>1, <2>2, DeferredKey
         DEF Deferred, MaxAmount, taken_of, left_after
    <3> HIDE DEF d
    <3> HIDE DEF key, x
    <3>3. /\ r.id = item.next["user"]
          /\ r.left = left_after(t.left, taken_of(item, t.left))
          /\ Converted(s, r.s, id, taken_of(item, t.left), d)
          /\ r.s.fund_max_id <= s.fund_max_id + 1
      <4>1. /\ t = [s |-> s, id |-> id, left |-> t.left, visited |-> t.visited]
            /\ Good(s) /\ id \in Mem(s, "user", key) /\ "user" \in Kinds
            /\ t.left \in MaxAmount /\ t.left # 0
            /\ release[item] = d /\ d # B!NoDescription
            /\ d \in FundDesc /\ d.type # item.fund_desc.type
            /\ s.fund_max_id + 1 \in Ids
        BY <2>1, <2>2, <3>1, <3>2
      <4> QED BY <4>1, VisitConverts
    <3>4. /\ r.id = n /\ r.left = NoMax /\ Converted(s, r.s, id, x, d)
      <4> HIDE DEF s, id, n, x, item
      <4> QED BY <2>1, <2>2, <3>2, <3>3
    <3> HIDE DEF s, id, n, x, stored, old
    <3>5. Good(r.s) /\ r.s.fund_max_id \in Nat
      BY <2>1, <2>2, <3>1, <3>4, ConvertedKeeps, StoreFields DEF Good
    <3>6. /\ Coalesces(r.s, u, d)
          /\ Coalesces(s, u, d) => r.s.fund_max_id = s.fund_max_id
          /\ r.s.fund_max_id \in {s.fund_max_id, s.fund_max_id + 1}
      <4> DEFINE owner == s.fund_by_id[id].user_id
      <4>1. owner = u /\ Converted(s, r.s, id, x, B!WithdrawOnly)
            /\ s.fund_by_id[id].fund_desc.type # "WithdrawOnly"
        BY <2>2, <3>1, <3>4 DEF d
      <4> QED BY <2>1, <2>2, <4>1, ConvertedCoalesces DEF d
    <3>7. \/ r.s.fund_max_id <= MaxId
          \/ r.s.fund_max_id = MaxId + 1 /\ Coalesces(r.s, u, d)
      BY <2>1, <2>2, <3>6, FundModuleAssumption
    <3>8. ASSUME n # 0
          PROVE  /\ n \in Deferred(store, u) /\ r.s.fund_max_id < MaxId + n
                 /\ \A k \in Ids : k >= n => AsStored(r.s, "user", key, k)
      <4>1. n \in Deferred(store, u) /\ n > id /\ n \in Nat
        BY <2>2, <3>8
      <4>2. r.s.fund_max_id < MaxId + n
        BY <2>1, <2>2, <3>6, <4>1, FundModuleAssumption
      <4>3. ASSUME NEW k \in Ids, k >= n PROVE AsStored(r.s, "user", key, k)
        <5>1. k \in Ids \ {id} /\ k >= id
          BY <2>2, <4>1, <4>3 DEF Ids
        <5>2. AsStored(s, "user", key, k) /\ key[2] # d.type
          BY <2>1, <3>1, <5>1 DEF deferred, key
        <5> QED BY <2>1, <2>2, <3>1, <3>4, <5>1, <5>2, StaysAsStored
      <4> QED BY <4>1, <4>2, <4>3
    <3>9. ASSUME NEW w \in {AnyUser} \cup 0 .. NumUsers, NEW type \in B!FundType
          PROVE  type_total(r.s, w, type)
                   = type_total(store, w, type)
                       + gain(u, w, type, DueSum(z.items))
      <4> DEFINE it == item
      <4> HIDE DEF it
      <4>1. type_total(r.s, w, type)
              = type_total(s, w, type)
                  + IF w \in {it.user_id, AnyUser}
                    THEN IF type = d.type THEN x
                         ELSE IF type = it.fund_desc.type THEN 0 - x ELSE 0
                    ELSE 0
        <5>1. it = s.fund_by_id[id] /\ d.type # it.fund_desc.type
          BY <3>1 DEF it
        <5>2. /\ Good(s) /\ Live(s, id) /\ Converted(s, r.s, id, x, d)
              /\ d \in FundDesc /\ d # Destroyed
          BY <2>1, <2>2, <3>1, <3>4
        <5> QED BY <5>1, <5>2, ConvertedTotals
      <4>2. type_total(s, w, type)
              = type_total(store, w, type) + gain(u, w, type, old)
        BY <2>1
      <4>3. type_total(store, w, type) \in Nat
        BY TypeTotalIsNat DEF FundInv
      <4>4. DueSum(z.items) = old + x
        BY <2>4, <2>5, <2>8
      <4>5. type_total(r.s, w, type)
              = type_total(s, w, type) + gain(u, w, type, x)
        BY <2>2, <3>1, <4>1 DEF gain, it
      <4> HIDE DEF item
      <4>6. gain(u, w, type, old + x)
              = gain(u, w, type, old) + gain(u, w, type, x)
            /\ gain(u, w, type, old) \in Int /\ gain(u, w, type, x) \in Int
        BY <2>4, <2>5 DEF gain
      <4> QED BY <4>2, <4>3, <4>4, <4>5, <4>6
    <3> QED BY <2>3, <2>6, <3>4, <3>5, <3>7, <3>8, <3>9 DEF Releasing, d, key
  <2> QED BY <2>7, <2>8
<1> QED BY <1>1, <1>2

(* Releasing what is due moves what the view calls due, in the totals of   *)
(* the user and of everybody.                                              *)
LEMMA ReleaseMovesEligible ==
    ASSUME FundInv, NEW u \in 1 .. NumUsers,
           NEW r, r = storage_after_release(u),
           NEW due, due = eligible_deferred_payment(store, u)
    PROVE  /\ Good(r) /\ r.fund_max_id <= MaxId + 1 /\ due \in Nat
           /\ \A w \in {AnyUser} \cup 0 .. NumUsers, type \in B!FundType :
                 type_total(r, w, type)
                    = type_total(store, w, type) + gain(u, w, type, due)
<1> DEFINE key == deferred(u)
           first == store.lists[key].first
           walk == traverse(store, first, "user", "next", NoMax, release, NoLimit)
<1>1. /\ NoLimit \in Nat /\ r = walk.s
  BY FundModuleAssumption
     DEF NoLimit, storage_after_release, split_convert_max_by_user, release,
         deferred
<1> HIDE DEF walk, first, key
<1>2. PICK a : /\ IsWalk(a, store, first, "user", "next", NoMax, release, NoLimit)
               /\ walk = a[NoLimit]
  BY <1>1, TraverseIsWalk DEF walk
<1>3. PICK b : /\ IsView(b, store, "user", key, NoLimit)
               /\ foreach_fund(store, "user", key) = b[NoLimit].items
  BY ForeachIsView
<1>4. /\ a[0] = walk_start(store, first, NoMax)
      /\ \A k \in 1 .. NoLimit : a[k] = visit(a[k - 1], "user", "next", release)
  BY <1>1, <1>2, WalkAt
<1>5. /\ b[0] = view_start(store, key)
      /\ \A k \in 1 .. NoLimit : b[k] = view_step(store, "user", b[k - 1])
  BY <1>1, <1>3 DEF IsView
<1> DEFINE S == { k \in Nat : Releasing(a[k], b[k], u) }
<1>6. 0 \in S
  <2> DEFINE t == walk_start(store, first, NoMax)
             y == view_start(store, key)
  <2>1. /\ t = [s |-> t.s, id |-> t.id, left |-> t.left, visited |-> t.visited]
        /\ t.s = store /\ t.id = first /\ t.left = NoMax
        /\ y.id = first /\ y.items = <<>>
    BY DEF walk_start, view_start, first
  <2> HIDE DEF t, y
  <2>2. Good(store) /\ store.fund_max_id \in Nat /\ store.fund_max_id <= MaxId
    BY StoreFields DEF FundInv, Good, Fits
  <2>3. first = 0 \/ first \in Deferred(store, u)
    <3>1. ListOK(store, "user", key)
      BY <2>2, DeferredKey DEF Good, key
    <3> QED BY <3>1 DEF ListOK, IsNext, Deferred, first, key
  <2>4. first # 0 => store.fund_max_id < MaxId + first
    BY <2>2, <2>3, MemberIs, FundModuleAssumption DEF Deferred
  <2>5. \A k \in Ids : AsStored(store, "user", deferred(u), k)
    BY DEF AsStored, SameEntry
  <2>6. ASSUME NEW w \in {AnyUser} \cup 0 .. NumUsers, NEW type \in B!FundType
        PROVE  type_total(store, w, type)
                 = type_total(store, w, type) + gain(u, w, type, DueSum(<<>>))
    <3>1. type_total(store, w, type) \in Nat /\ gain(u, w, type, 0) = 0
      BY <2>2, TypeTotalIsNat DEF gain
    <3> QED BY <3>1, DueSumOfNone
  <2>7. <<>> \in Seq(FundItem)
    OBVIOUS
  <2>8. Releasing(t, y, u)
    BY <2>1, <2>2, <2>3, <2>4, <2>5, <2>6, <2>7 DEF Releasing
  <2> QED BY <1>4, <1>5, <2>8 DEF t, y
<1>7. ASSUME NEW k \in 0 .. NoLimit - 1, k \in S PROVE k + 1 \in S
  <2>1. /\ a[k + 1] = visit(a[k], "user", "next", release)
        /\ b[k + 1] = view_step(store, "user", b[k])
    BY <1>1, <1>4, <1>5
  <2>2. Releasing(a[k + 1], b[k + 1], u)
    BY <1>7, <2>1, ReleaseStep
  <2> QED BY <2>2
<1>8. 0 .. NoLimit \subseteq S
  <2> HIDE DEF S
  <2> QED BY <1>1, <1>6, <1>7, P!RangeInduction, U64IsPositive
<1> DEFINE items == b[NoLimit].items
<1>9. Releasing(walk, b[NoLimit], u)
  BY <1>1, <1>2, <1>8
<1>10. items \in Seq(FundItem) /\ Good(r) /\ r.fund_max_id \in Nat
       /\ r.fund_max_id <= MaxId + 1
  BY <1>1, <1>9, StoreFields, FundModuleAssumption DEF Releasing, Good
<1>11. due = DueSum(items)
  <2> HIDE DEF items
  <2>1. items = foreach_fund(store, "user", <<u, "DeferredPayment">>)
    BY <1>3 DEF items, key, deferred
  <2> QED BY <1>10, <2>1, EligibleIsDueSum
<1>12. due \in Nat
  <2> HIDE DEF items
  <2> QED BY <1>10, <1>11, DueWithin DEF DueSum
<1> QED BY <1>1, <1>9, <1>10, <1>11, <1>12 DEF Releasing

withdrawable(u) == <<u, "WithdrawOnly">>

Withdrawable(s, u) == Mem(s, "user", withdrawable(u))

destroy == [item \in FundItem |-> Destroyed]

(* What a total loses when the amount x of a user is withdrawn.            *)
loss(u, w, type, x) ==
    IF w \in {u, AnyUser} /\ type = "WithdrawOnly" THEN x ELSE 0

(* The payment, at t, is at the front of what is left of the list, behind  *)
(* the id k; the totals are below those of s1 by what was taken.           *)
Paying(t, s1, u, k) ==
    /\ t = [s |-> t.s, id |-> t.id, left |-> t.left, visited |-> t.visited]
    /\ Good(t.s) /\ t.left = NoMax /\ t.s.fund_max_id <= MaxId + 1
    /\ t.id = t.s.lists[withdrawable(u)].first
    /\ t.id = 0 \/ t.id > k
    /\ \E x \in Nat :
          \A w \in {AnyUser} \cup 0 .. NumUsers, type \in B!FundType :
              type_total(t.s, w, type)
                 = type_total(s1, w, type) - loss(u, w, type, x)

(* The front of a list when its first item is erased.                      *)
LEMMA FrontErased ==
    ASSUME NEW M \in SUBSET (Nat \ {0}), NEW d \in M, IsNext(M, 0, d),
           NEW n \in Nat, IsNext(M, d, n), NEW j \in Nat, IsNext(M \ {d}, 0, j)
    PROVE  j = n /\ (n = 0 \/ n > d)
BY DEF IsNext

(* An iteration pays the first item.                                       *)
LEMMA PayStep ==
    ASSUME NEW u \in 1 .. NumUsers, NEW t, NEW s1, NEW k \in Nat,
           Paying(t, s1, u, k), Good(s1),
           NEW r, r = visit(t, "user", "next", destroy)
    PROVE  Paying(r, s1, u, k + 1)
<1> DEFINE s == t.s
           id == t.id
           item == s.fund_by_id[id]
           n == item.next["user"]
           key == withdrawable(u)
           x == item.balance
<1>1. CASE t.id = 0
  <2>1. r = t
    BY <1>1 DEF visit
  <2> QED BY <1>1, <2>1 DEF Paying
<1>2. CASE t.id # 0
  <2>1. /\ t = [s |-> s, id |-> id, left |-> t.left, visited |-> t.visited]
        /\ t.left = NoMax /\ t.left # 0 /\ t.left \in MaxAmount
        /\ Good(s) /\ s \in Store /\ s.fund_max_id <= MaxId + 1
        /\ s.fund_max_id \in Nat
        /\ id = s.lists[key].first /\ id > k
    BY <1>2, StoreFields DEF Paying, NoMax, MaxAmount, Good
  <2>2. /\ "user" \in Kinds /\ key \in KeysOf("user") /\ key \in Keys
        /\ "WithdrawOnly" \in B!FundType
    BY SourceKeys DEF withdrawable, B!FundType, KeysOf
  <2> HIDE DEF key
  <2> DEFINE M == Mem(s, "user", key)
  <2>3. /\ M \in SUBSET (Nat \ {0}) /\ IsNext(M, 0, id)
        /\ id \in M => IsNext(M, id, n)
    <3> HIDE DEF M
    <3>1. ListOK(s, "user", key) /\ M = Mem(s, "user", key)
      BY <2>1, <2>2 DEF Good, M
    <3> QED BY <2>1, <2>2, <3>1, ListParts
  <2>4. id \in M
    BY <1>2, <2>3 DEF IsNext
  <2>5. /\ Live(s, id) /\ item \in FundItem /\ item.user_id = u
        /\ item.fund_desc.type = "WithdrawOnly" /\ n \in Nat /\ id \in Nat
        /\ id \in Ids
    <3>1. Live(s, id) /\ list_key("user", item) = key
      BY <2>4, MemberIs
    <3>2. item \in FundItem
      BY <2>1, <3>1, GoodItem
    <3> HIDE DEF item
    <3> QED BY <2>2, <2>3, <2>4, <3>1, <3>2, ItemFields
            DEF list_key, key, withdrawable, Live
  <2>6. /\ r.id = n /\ r.left = NoMax
        /\ Converted(s, r.s, id, x, Destroyed)
    <3>1. /\ destroy[item] = Destroyed /\ Destroyed # B!NoDescription
          /\ taken_of(item, t.left) = x /\ left_after(t.left, x) = NoMax
      BY <2>1, <2>5 DEF destroy, Destroyed, B!NoDescription, taken_of, left_after
    <3> HIDE DEF x
    <3>2. /\ r.id = item.next["user"]
          /\ r.left = left_after(t.left, taken_of(item, t.left))
          /\ Converted(s, r.s, id, taken_of(item, t.left), Destroyed)
      BY <2>1, <2>2, <2>4, <3>1, VisitConverts
    <3> QED BY <3>1, <3>2
  <2>7. r = [s |-> r.s, id |-> r.id, left |-> r.left, visited |-> r.visited]
    BY <2>1, VisitShape
  <2>8. Taken(s, r.s, id, x)
    BY <2>6 DEF Converted
  <2> HIDE DEF s, id, n, M, x
  <2>9. Good(r.s) /\ r.s.fund_max_id = s.fund_max_id /\ r.s \in Store
    BY <2>1, <2>5, <2>8, GoodTaken DEF Good
  <2>10. Mem(r.s, "user", key) = M \ {id}
    <3>1. \A j \in Ids \ {id} : SameEntry(r.s.fund_by_id[j], s.fund_by_id[j])
      BY <2>1, <2>5, <2>8, TakenItems
    <3>2. r.s.fund_by_id[id] = DefaultItem
      BY <2>8 DEF Taken, Erased, x
    <3> QED BY <3>1, <3>2 DEF Mem, M, SameEntry, list_key, DefaultItem
  <2>11. r.id = r.s.lists[key].first /\ (r.id = 0 \/ r.id > k + 1)
    <3> DEFINE first == r.s.lists[key].first
               N == Mem(r.s, "user", key)
    <3>1. first \in Nat /\ IsNext(M \ {id}, 0, first)
      <4>1. ListOK(r.s, "user", key)
        BY <2>2, <2>9 DEF Good
      <4> HIDE DEF N
      <4>2. N = Mem(r.s, "user", key)
        BY DEF N
      <4>3. first \in Nat /\ IsNext(N, 0, first)
        BY <2>2, <2>9, <4>1, <4>2, ListParts
      <4> QED BY <2>10, <4>2, <4>3
    <3> HIDE DEF first
    <3>2. first = n /\ (n = 0 \/ n > id)
      BY <2>3, <2>4, <2>5, <3>1, FrontErased
    <3> QED BY <2>1, <2>5, <2>6, <3>2 DEF first
  <2>12. PICK z \in Nat :
            \A w \in {AnyUser} \cup 0 .. NumUsers, type \in B!FundType :
                type_total(s, w, type)
                   = type_total(s1, w, type) - loss(u, w, type, z)
    BY DEF Paying, s
  <2>13. x \in Nat
    BY <2>5, ItemFields DEF x
  <2>14. ASSUME NEW w \in {AnyUser} \cup 0 .. NumUsers, NEW type \in B!FundType
         PROVE  type_total(r.s, w, type)
                  = type_total(s1, w, type) - loss(u, w, type, z + x)
    <3> DEFINE it == item
    <3>1. it = s.fund_by_id[id] /\ it.user_id = u
          /\ it.fund_desc.type = "WithdrawOnly"
      BY <2>5
    <3> HIDE DEF it
    <3>2. type_total(r.s, w, type)
            = type_total(s, w, type)
                - IF /\ type = it.fund_desc.type
                     /\ w \in {it.user_id, AnyUser} THEN x ELSE 0
      BY <2>1, <2>5, <2>8, <3>1, TakenTotals
    <3>3. type_total(r.s, w, type)
            = type_total(s, w, type) - loss(u, w, type, x)
      BY <3>1, <3>2 DEF loss
    <3>4. type_total(s, w, type)
            = type_total(s1, w, type) - loss(u, w, type, z)
      BY <2>12
    <3>5. /\ type_total(s1, w, type) \in Nat
          /\ loss(u, w, type, z + x) = loss(u, w, type, z) + loss(u, w, type, x)
          /\ loss(u, w, type, z) \in Nat /\ loss(u, w, type, x) \in Nat
      BY <2>13, TypeTotalIsNat DEF loss
    <3> QED BY <3>3, <3>4, <3>5
  <2>15. \E y \in Nat :
            \A w \in {AnyUser} \cup 0 .. NumUsers, type \in B!FundType :
                type_total(r.s, w, type)
                   = type_total(s1, w, type) - loss(u, w, type, y)
    <3>1. z + x \in Nat
      BY <2>13
    <3> QED BY <2>14, <3>1
  <2> QED BY <2>1, <2>6, <2>7, <2>9, <2>11, <2>15 DEF Paying, key
<1> QED BY <1>1, <1>2

(* Enough iterations pay all withdraw-only funds of the user.              *)
LEMMA PaymentTakesAll ==
    ASSUME NEW u \in 1 .. NumUsers, NEW s1, Good(s1),
           s1.fund_max_id <= MaxId + 1,
           NEW r, r = storage_after_payment(s1, u)
    PROVE  /\ Good(r)
           /\ \A w \in {AnyUser} \cup 0 .. NumUsers, type \in B!FundType :
                 type_total(r, w, type)
                    = type_total(s1, w, type)
                        - loss(u, w, type, type_total(s1, u, "WithdrawOnly"))
<1> DEFINE key == withdrawable(u)
           first == s1.lists[key].first
           walk == traverse(s1, first, "user", "next", NoMax, destroy, NoLimit)
<1>1. /\ NoLimit \in Nat /\ NoLimit = MaxId + 1 /\ r = walk.s
  BY FundModuleAssumption
     DEF NoLimit, storage_after_payment, destroy, withdrawable
<1> HIDE DEF walk, first, key
<1>2. PICK a : /\ IsWalk(a, s1, first, "user", "next", NoMax, destroy, NoLimit)
               /\ walk = a[NoLimit]
  BY <1>1, TraverseIsWalk DEF walk
<1>3. /\ a[0] = walk_start(s1, first, NoMax)
      /\ \A k \in 1 .. NoLimit : a[k] = visit(a[k - 1], "user", "next", destroy)
  BY <1>1, <1>2, WalkAt
<1>4. /\ "user" \in Kinds /\ key \in KeysOf("user") /\ key \in Keys
      /\ s1 \in Store /\ "WithdrawOnly" \in B!FundType
      /\ u \in {AnyUser} \cup 0 .. NumUsers
  BY SourceKeys, FundModuleAssumption
     DEF key, withdrawable, B!FundType, KeysOf, Good
<1> DEFINE S == { k \in Nat : Paying(a[k], s1, u, k) }
<1>5. 0 \in S
  <2> DEFINE t == walk_start(s1, first, NoMax)
  <2>1. /\ t = [s |-> t.s, id |-> t.id, left |-> t.left, visited |-> t.visited]
        /\ t.s = s1 /\ t.id = first /\ t.left = NoMax
    BY DEF walk_start
  <2> HIDE DEF t
  <2>2. first = 0 \/ first > 0
    <3>1. s1.lists[key] \in FundList
      BY <1>4, StoreFields
    <3> QED BY <3>1, ListFields DEF first
  <2>3. ASSUME NEW w \in {AnyUser} \cup 0 .. NumUsers, NEW type \in B!FundType
        PROVE  type_total(s1, w, type)
                 = type_total(s1, w, type) - loss(u, w, type, 0)
    BY TypeTotalIsNat DEF loss
  <2>4. Paying(t, s1, u, 0)
    BY <2>1, <2>2, <2>3 DEF Paying, first, key
  <2> QED BY <1>3, <2>4 DEF t
<1>6. ASSUME NEW k \in 0 .. NoLimit - 1, k \in S PROVE k + 1 \in S
  <2>1. a[k + 1] = visit(a[k], "user", "next", destroy)
    BY <1>1, <1>3
  <2>2. Paying(a[k + 1], s1, u, k + 1)
    BY <1>6, <2>1, PayStep
  <2> QED BY <2>2
<1>7. 0 .. NoLimit \subseteq S
  <2> HIDE DEF S
  <2> QED BY <1>1, <1>5, <1>6, P!RangeInduction, U64IsPositive
<1>8. Paying(walk, s1, u, NoLimit)
  BY <1>1, <1>2, <1>7
<1> DEFINE id == r.lists[key].first
           M == Mem(r, "user", key)
<1>9. /\ Good(r) /\ r.fund_max_id <= MaxId + 1 /\ r.fund_max_id \in Nat
      /\ id = 0 \/ id > MaxId + 1
      /\ r \in Store
  BY <1>1, <1>8, StoreFields DEF Paying, Good, key
<1>10. PICK x \in Nat :
          \A w \in {AnyUser} \cup 0 .. NumUsers, type \in B!FundType :
              type_total(r, w, type)
                 = type_total(s1, w, type) - loss(u, w, type, x)
  BY <1>1, <1>8 DEF Paying
<1>11. M = {} /\ r.lists[key].total_balance = sum_of(r, M)
  <2> HIDE DEF M, id
  <2>1. ListOK(r, "user", key) /\ M = Mem(r, "user", key)
    BY <1>4, <1>9 DEF Good, M
  <2>2. /\ M \in SUBSET (Nat \ {0}) /\ IsNext(M, 0, id)
        /\ r.lists[key].total_balance = sum_of(r, M)
    BY <1>4, <1>9, <2>1, ListParts DEF id
  <2>3. id \notin M
    <3>1. ASSUME id \in M PROVE id \in 1 .. r.fund_max_id
      <4>1. Live(r, id)
        BY <2>1, <3>1, MemberIs
      <4> QED BY <1>9, <4>1, GoodItem
    <3> QED BY <1>9, <3>1, FundModuleAssumption
  <2> QED BY <2>2, <2>3 DEF IsNext
<1>12. type_total(r, u, "WithdrawOnly") = 0
  BY <1>9, <1>11, SumOfNone DEF type_total, key, withdrawable
<1>13. x = type_total(s1, u, "WithdrawOnly")
  <2>1. type_total(r, u, "WithdrawOnly")
          = type_total(s1, u, "WithdrawOnly") - loss(u, u, "WithdrawOnly", x)
    BY <1>4, <1>10
  <2>2. loss(u, u, "WithdrawOnly", x) = x
    BY DEF loss
  <2>3. type_total(s1, u, "WithdrawOnly") \in Nat
    BY <1>4, TypeTotalIsNat
  <2> QED BY <1>12, <2>1, <2>2, <2>3
<1> QED BY <1>9, <1>10, <1>13

(* So unBond pays what getUnBondable has told.                             *)
LEMMA UnBondPays ==
    ASSUME FundInv PROVE UnBondPaysUnBondable
<1> SUFFICES ASSUME NEW u \in 1 .. NumUsers
             PROVE  paid_exactly(
                        storage_after_payment(storage_after_release(u), u), u,
                        get_unbondable(store, u))
  BY DEF UnBondPaysUnBondable
<1> DEFINE s1 == storage_after_release(u)
           r == storage_after_payment(s1, u)
           due == eligible_deferred_payment(store, u)
           free == type_total(store, u, "WithdrawOnly")
           users == {AnyUser} \cup 0 .. NumUsers
<1> HIDE DEF s1, r, due
<1>1. /\ Good(s1) /\ s1.fund_max_id <= MaxId + 1 /\ due \in Nat
      /\ \A w \in users, type \in B!FundType :
            type_total(s1, w, type)
               = type_total(store, w, type) + gain(u, w, type, due)
  BY ReleaseMovesEligible DEF s1, due
<1>2. /\ Good(r)
      /\ \A w \in users, type \in B!FundType :
            type_total(r, w, type)
               = type_total(s1, w, type)
                   - loss(u, w, type, type_total(s1, u, "WithdrawOnly"))
  BY <1>1, PaymentTakesAll DEF r
<1>3. Good(store) /\ u \in users /\ AnyUser \in users
      /\ 1 .. NumUsers \subseteq users
      /\ get_unbondable(store, u) = free + due
  BY FundModuleAssumption
     DEF FundInv, get_unbondable, get_user_stake_of_type, type_total, due
<1>4. /\ "WithdrawOnly" \in B!FundType /\ "Waiting" \in B!FundType
      /\ "Active" \in B!FundType /\ "UnStaked" \in B!FundType
      /\ "DeferredPayment" \in B!FundType
  BY DEF B!FundType
<1>5. type_total(s1, u, "WithdrawOnly") = free + due /\ free \in Nat
  <2>1. gain(u, u, "WithdrawOnly", due) = due
    BY DEF gain
  <2>2. type_total(s1, u, "WithdrawOnly")
          = free + gain(u, u, "WithdrawOnly", due)
    BY <1>1, <1>3, <1>4
  <2>3. free \in Nat
    BY <1>3, <1>4, TypeTotalIsNat
  <2> QED BY <2>1, <2>2, <2>3
<1>6. \A w \in users, type \in B!FundType :
          /\ type_total(r, w, type)
                = type_total(store, w, type) + gain(u, w, type, due)
                    - loss(u, w, type, free + due)
          /\ type_total(store, w, type) \in Nat
  <2> SUFFICES ASSUME NEW w \in users, NEW type \in B!FundType
               PROVE  /\ type_total(r, w, type)
                            = type_total(store, w, type) + gain(u, w, type, due)
                                - loss(u, w, type, free + due)
                      /\ type_total(store, w, type) \in Nat
    OBVIOUS
  <2> DEFINE x == type_total(s1, u, "WithdrawOnly")
             y == free + due
  <2>1. x = y
    BY <1>5
  <2> HIDE DEF free, x, y
  <2>2. type_total(s1, w, type)
          = type_total(store, w, type) + gain(u, w, type, due)
    BY <1>1
  <2>3. type_total(r, w, type) = type_total(s1, w, type) - loss(u, w, type, x)
    BY <1>2 DEF x
  <2>4. type_total(store, w, type) \in Nat
    BY <1>3, TypeTotalIsNat
  <2>5. type_total(r, w, type) = type_total(s1, w, type) - loss(u, w, type, y)
    BY <2>1, <2>3
  <2>6. type_total(r, w, type)
          = type_total(store, w, type) + gain(u, w, type, due)
              - loss(u, w, type, y)
    <3>1. gain(u, w, type, due) \in Int
      BY <1>1 DEF gain
    <3>2. loss(u, w, type, y) \in Int
      BY <1>1, <1>5 DEF loss, y
    <3> QED BY <2>2, <2>4, <2>5, <3>1, <3>2
  <2> QED BY <2>4, <2>6, Zenon DEF y
<1>7. ASSUME NEW w \in {u, AnyUser}
      PROVE  get_user_total_stake(r, w)
               = get_user_total_stake(store, w) - (free + due)
  <2> DEFINE new(type) == type_total(r, w, type)
             old(type) == type_total(store, w, type)
  <2>1. w \in users
    BY <1>3
  <2>2. /\ get_user_total_stake(r, w)
              = new("WithdrawOnly") + new("Waiting") + new("Active")
                  + new("UnStaked") + new("DeferredPayment")
        /\ get_user_total_stake(store, w)
              = old("WithdrawOnly") + old("Waiting") + old("Active")
                  + old("UnStaked") + old("DeferredPayment")
    BY <1>2, <1>3, <2>1, TotalIsSum
  <2>3. /\ new("WithdrawOnly") = old("WithdrawOnly") + due - (free + due)
        /\ new("Waiting") = old("Waiting") + 0 - 0
        /\ new("Active") = old("Active") + 0 - 0
        /\ new("UnStaked") = old("UnStaked") + 0 - 0
        /\ new("DeferredPayment") = old("DeferredPayment") + (0 - due) - 0
    <3>1. /\ gain(u, w, "WithdrawOnly", due) = due
          /\ gain(u, w, "Waiting", due) = 0 /\ gain(u, w, "Active", due) = 0
          /\ gain(u, w, "UnStaked", due) = 0
          /\ gain(u, w, "DeferredPayment", due) = 0 - due
      BY DEF gain
    <3>2. /\ loss(u, w, "WithdrawOnly", free + due) = free + due
          /\ loss(u, w, "Waiting", free + due) = 0
          /\ loss(u, w, "Active", free + due) = 0
          /\ loss(u, w, "UnStaked", free + due) = 0
          /\ loss(u, w, "DeferredPayment", free + due) = 0
      BY DEF loss
    <3> QED BY <1>4, <1>6, <2>1, <3>1, <3>2
  <2>4. /\ old("WithdrawOnly") \in Nat /\ old("Waiting") \in Nat
        /\ old("Active") \in Nat /\ old("UnStaked") \in Nat
        /\ old("DeferredPayment") \in Nat
    BY <1>4, <1>6, <2>1
  <2> HIDE DEF new, old, free
  <2>5. free \in Nat /\ due \in Nat
    BY <1>1, <1>5
  <2> QED BY <2>2, <2>3, <2>4, <2>5
<1>8. ASSUME NEW w \in 1 .. NumUsers \ {u}
      PROVE  get_user_stake_by_type(r, w) = get_user_stake_by_type(store, w)
  <2>1. w \in users /\ w # u /\ w # AnyUser
    BY <1>3, FundModuleAssumption DEF AnyUser
  <2>2. ASSUME NEW type \in B!FundType
        PROVE  get_user_stake_of_type(r, w, type)
                 = get_user_stake_of_type(store, w, type)
    <3>1. gain(u, w, type, due) = 0 /\ loss(u, w, type, free + due) = 0
      BY <2>1 DEF gain, loss
    <3>2. type_total(r, w, type) = type_total(store, w, type)
      BY <1>6, <2>1, <3>1
    <3> QED BY <3>2 DEF get_user_stake_of_type, type_total
  <2> QED BY <2>2 DEF get_user_stake_by_type
<1>9. paid_exactly(r, u, get_unbondable(store, u))
  BY <1>3, <1>7, <1>8 DEF paid_exactly
<1> QED BY <1>9 DEF r, s1

(* Whatever order users, queue operations and dust cleanups come in, the   *)
(* storage of the fund items stays consistent, as long as the owner starts *)
(* a dust cleanup at an item that is there.                                *)
THEOREM FundStorageInvariant ==
    ASSUME CheckedDust PROVE Spec => []FundInv
<1>1. Init => FundInv
  BY InitHolds
<1>2. FundInv /\ [Next]_vars => FundInv'
  BY NextKeeps
<1> QED BY <1>1, <1>2, PTL DEF Spec

(* Ids, balances, links and totals stay in their ranges: no total of a     *)
(* list underflows when delete_fund or decrease_fund_balance subtracts.    *)
THEOREM FundStorageTypes ==
    ASSUME CheckedDust PROVE Spec => []TypeOK
<1>1. FundInv => TypeOK
  BY TypesHold
<1> QED BY <1>1, FundStorageInvariant, PTL

(* The consistency that the tests of user-fund-storage assert after their  *)
(* scenarios holds after every sequence of operations of any length.       *)
THEOREM FundListsConsistent ==
    ASSUME CheckedDust PROVE Spec => []ListsConsistent
<1>1. FundInv => ListsConsistent
  BY ConsistentLists
<1> QED BY <1>1, FundStorageInvariant, PTL

(* set_fund clears every item that was spent, links included.              *)
THEOREM FundSpentItemsRemoved ==
    ASSUME CheckedDust PROVE Spec => []SpentItemsRemoved
<1>1. FundInv => SpentItemsRemoved
  BY NothingSpentStays
<1> QED BY <1>1, FundStorageInvariant, PTL

(* use_waiting_to_replace_unstaked computes the rewards of exactly those   *)
(* users whose active stake the swap then changes, for any waiting list    *)
(* that the operations can leave behind and any amount.                    *)
THEOREM FundDryRunPredictsSwap ==
    ASSUME CheckedDust PROVE Spec => []DryRunPredictsSwap
<1>1. FundInv => DryRunPredictsSwap
  BY DryRunPredicts
<1> QED BY <1>1, FundStorageInvariant, PTL

(* getUnBondable tells a delegator exactly what unBond then pays, whatever *)
(* deferred items he has and in whatever order they are due, and paying it *)
(* shows in his and in everybody's totals and in nobody else's stake.      *)
THEOREM FundUnBondPaysUnBondable ==
    ASSUME CheckedDust PROVE Spec => []UnBondPaysUnBondable
<1>1. FundInv => UnBondPaysUnBondable
  BY UnBondPays
<1> QED BY <1>1, FundStorageInvariant, PTL
=============================================================================
