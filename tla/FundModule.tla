----------------------------- MODULE FundModule -----------------------------
(***************************************************************************)
(* The storage of the fund items: every item is in two doubly linked       *)
(* lists, that of its type and that of its user and type, threaded through *)
(* the items by their ids.  The operations are those of fund_module.rs,    *)
(* called as fund_transf_module.rs calls them.                             *)
(*                                                                         *)
(* The two kinds of list differ only in their key, so the functions that   *)
(* the source has twice are written once, for a kind "type" or "user".     *)
(***************************************************************************)
EXTENDS Integers, FiniteSetsExt, SequencesExt

CONSTANTS
    NumUsers, Amounts, DustLimits, GasLimits, UnBondBlocks, NonceBound,
                            \* see FundQueues
    MAX_AFFECTED_USERS,     \* capacity of AffectedUserIdVec
    DepositBound,           \* bound on the sum of the items
    MaxId,                  \* bound on fund_max_id
    U64,                    \* see FundBook
    CheckedDust             \* does the owner look at the item of
                            \* dustCleanupCheckpoint before a dust cleanup?
                            \* (README, finding 1)

ASSUME FundModuleAssumption ==
    /\ NumUsers \in Nat \ {0}
    /\ MaxId \in Nat \ {0}
    /\ U64 \in Nat \ {0}
    /\ Amounts \subseteq Nat
    /\ GasLimits \subseteq Nat
    /\ NonceBound \in Nat
    /\ DepositBound \in Nat
    /\ CheckedDust \in BOOLEAN

VARIABLES
    store,      \* fund_by_id, fund_max_id and the lists, as one record
    dust_cleanup_checkpoint,
    block_nonce

vars == <<store, dust_cleanup_checkpoint, block_nonce>>

B == INSTANCE FundBook

Kinds == {"type", "user"}
NoLinks == [kind \in Kinds |-> 0]

FundItem == [fund_desc : [type : B!FundType, created : Nat], user_id : Nat,
             balance : Nat, next : [Kinds -> Nat], prev : [Kinds -> Nat]]

(* What reading an absent item or list gives.                              *)
DefaultItem == [fund_desc |-> B!WithdrawOnly, user_id |-> 0, balance |-> 0,
                next |-> NoLinks, prev |-> NoLinks]
DefaultList == [first |-> 0, last |-> 0, total_balance |-> 0]

AnyUser == -1
Keys == ({AnyUser} \cup 0 .. NumUsers) \X B!FundType

list_key(kind, item) == <<IF kind = "type" THEN AnyUser ELSE item.user_id,
                          item.fund_desc.type>>

(* An item without balance and links is cleared from storage when saved.   *)
set_fund(s, id, item) ==
    LET is_default == /\ item.balance = 0
                      /\ item.next = NoLinks
                      /\ item.prev = NoLinks
    IN  [s EXCEPT !.fund_by_id[id] = IF is_default THEN DefaultItem ELSE item]

set_next(s, id, kind, next) ==
    set_fund(s, id, [s.fund_by_id[id] EXCEPT !.next[kind] = next])

set_prev(s, id, kind, prev) ==
    set_fund(s, id, [s.fund_by_id[id] EXCEPT !.prev[kind] = prev])

sum_of(s, ids) ==
    B!SumTo([id \in 1 .. 2 * MaxId |->
                IF id \in ids THEN s.fund_by_id[id].balance ELSE 0],
            2 * MaxId)

-----------------------------------------------------------------------------
(* add_fund_to_type_list and add_fund_to_user_list                         *)
add_fund_to_list(r, id, kind) ==
    LET key  == list_key(kind, r.item)
        list == r.s.lists[key]
        new  == [first |-> IF list = DefaultList THEN id ELSE list.first,
                 last |-> id,
                 total_balance |-> list.total_balance + r.item.balance]
        linked == IF list = DefaultList THEN r.s
                  ELSE set_next(r.s, list.last, kind, id)
    IN  [s    |-> [linked EXCEPT !.lists[key] = new],
         item |-> IF list = DefaultList THEN r.item
                  ELSE [r.item EXCEPT !.prev[kind] = list.last]]

save_item(r, id) == set_fund(r.s, id, r.item)

create_fund(s, user_id, fund_desc, balance) ==
    LET id   == s.fund_max_id + 1
        item == [fund_desc |-> fund_desc, user_id |-> user_id,
                 balance |-> balance, next |-> NoLinks, prev |-> NoLinks]
        in_type_list == add_fund_to_list([s |-> [s EXCEPT !.fund_max_id = id],
                                          item |-> item], id, "type")
    IN  IF balance = 0 THEN s
        ELSE save_item(add_fund_to_list(in_type_list, id, "user"), id)

change_totals(s, item, amount) ==
    [s EXCEPT !.lists = [key \in Keys |->
        IF \E kind \in Kinds : key = list_key(kind, item)
        THEN [s.lists[key] EXCEPT !.total_balance = @ + amount]
        ELSE s.lists[key]]]

(* Mutant of increase_fund_balance: coalesces without updating the totals. *)
increase_without_totals(s, user_id, fund_desc, amount) ==
    LET list == s.lists[<<user_id, fund_desc.type>>]
        last == s.fund_by_id[list.last]
    IN  IF amount = 0 THEN s
        ELSE IF /\ B!allow_coalesce(fund_desc.type)
                /\ list # DefaultList
                /\ last.fund_desc = fund_desc
        THEN set_fund(s, list.last, [last EXCEPT !.balance = @ + amount])
        ELSE create_fund(s, user_id, fund_desc, amount)

increase_fund_balance(s, user_id, fund_desc, amount) ==
    LET list == s.lists[<<user_id, fund_desc.type>>]
        last == s.fund_by_id[list.last]
        coalesced == /\ B!allow_coalesce(fund_desc.type)
                     /\ list # DefaultList
                     /\ last.fund_desc = fund_desc
    IN  IF amount = 0 THEN s
        ELSE IF coalesced
        THEN change_totals(set_fund(s, list.last,
                               [last EXCEPT !.balance = @ + amount]),
                           last, amount)
        ELSE create_fund(s, user_id, fund_desc, amount)

(* An item being deleted is in memory, its neighbours and the list are in  *)
(* storage.                                                                *)
relink_prev(r, kind) ==
    LET prev == r.item.prev[kind]
        next == r.item.next[kind]
    IN  [r EXCEPT !.s =
            IF prev = 0
            THEN [@ EXCEPT !.lists[list_key(kind, r.item)].first = next]
            ELSE set_next(@, prev, kind, next)]

relink_next(r, kind) ==
    LET prev == r.item.prev[kind]
        next == r.item.next[kind]
    IN  [r EXCEPT !.s =
            IF next = 0
            THEN [@ EXCEPT !.lists[list_key(kind, r.item)].last = prev]
            ELSE set_prev(@, next, kind, prev)]

clear_links(r, kind) == [r EXCEPT !.item.prev[kind] = 0,
                                  !.item.next[kind] = 0]

(* Mutants of delete_fund_from_list: one leaves the successor linked to    *)
(* the deleted item, one does not clear the item's own links.              *)
delete_half_linked(r, kind) ==
    LET linked == relink_prev(r, kind)
    IN  clear_links(IF r.item.next[kind] = 0 THEN relink_next(linked, kind)
                                             ELSE linked, kind)

delete_keeping_links(r, kind) == relink_next(relink_prev(r, kind), kind)

(* delete_fund_from_type_list and delete_fund_from_user_list               *)
delete_fund_from_list(r, kind) ==
    clear_links(relink_next(relink_prev(r, kind), kind), kind)

delete_fund(s, item) ==
    LET r == [s |-> change_totals(s, item, 0 - item.balance), item |-> item]
    IN  [delete_fund_from_list(delete_fund_from_list(r, "type"), "user")
            EXCEPT !.item.balance = 0]

(* NoMax stands for opt_max_amount = None.                                 *)
NoMax == -1

decrease_fund_balance(s, item, max_amount) ==
    IF max_amount = NoMax \/ max_amount >= item.balance
    THEN delete_fund(s, item)
    ELSE [s |-> change_totals(s, item, 0 - max_amount),
          item |-> [item EXCEPT !.balance = @ - max_amount]]

(***************************************************************************)
(* The traversal shared by the four loops of the source, from item id in a *)
(* direction ("next" or "prev") along the lists of a kind.  filter_transf  *)
(* maps an item to the new description of the funds taken out of it; loops *)
(* stop after gas iterations, at the end of the list, or when max_amount   *)
(* is used up.                                                             *)
(***************************************************************************)
Destroyed == [type |-> "Destroyed", created |-> 0]

(* What is left of the item, dec.item, is written back after the extracted *)
(* part was added elsewhere.                                               *)
split_convert_individual_fund(id, item, dec, desc) ==
    set_fund(IF desc = Destroyed THEN dec.s
             ELSE increase_fund_balance(dec.s, item.user_id, desc,
                                        item.balance - dec.item.balance),
             id, dec.item)

converted(t, item, dec, desc, next_id) ==
    [s |-> split_convert_individual_fund(t.id, item, dec, desc),
     id |-> next_id,
     left |-> IF t.left = NoMax THEN NoMax
              ELSE t.left - (item.balance - dec.item.balance),
     visited |-> t.visited + 1]

neighbour(item, kind, direction) ==
    IF direction = "next" THEN item.next[kind] ELSE item.prev[kind]

visit(t, kind, direction, filter_transf) ==
    LET item == t.s.fund_by_id[t.id]
        next_id == neighbour(item, kind, direction)
    IN  IF t.id = 0 \/ t.left = 0 THEN t
        ELSE IF filter_transf[item] = B!NoDescription
        THEN [t EXCEPT !.id = next_id, !.visited = @ + 1]
        ELSE converted(t, item, decrease_fund_balance(t.s, item, t.left),
                       filter_transf[item], next_id)

traverse(s0, id0, kind, direction, max_amount, filter_transf, gas) ==
    LET after[n \in 0 .. gas] ==
            IF n = 0
            THEN [s |-> s0, id |-> id0, left |-> max_amount, visited |-> 0]
            ELSE visit(after[n - 1], kind, direction, filter_transf)
    IN  after[gas]

(* More iterations than there are items: || false as the interrupt.        *)
NoLimit == MaxId + 1

split_convert_max_by_type(max_amount, source_type, direction,
                          filter_transf, gas) ==
    LET list == store.lists[<<AnyUser, source_type>>]
    IN  traverse(store, IF direction = "next" THEN list.first ELSE list.last,
                 "type", direction, max_amount, filter_transf, gas)

split_convert_max_by_user(max_amount, user_id, source_type, direction,
                          filter_transf, gas) ==
    LET list == store.lists[<<user_id, source_type>>]
    IN  traverse(store, IF direction = "next" THEN list.first ELSE list.last,
                 "user", direction, max_amount, filter_transf, gas)

split_convert_max_by_type_with_checkpoint(current_id, source_type,
                                          filter_transf, gas) ==
    LET list == store.lists[<<AnyUser, source_type>>]
    IN  traverse(store, IF current_id = 0 THEN list.last ELSE current_id,
                 "type", "prev", NoMax, filter_transf, gas)

(* Mutant of decrease_max_amount.                                          *)
decrease_to_zero(max_amount, item) == 0

decrease_max_amount(max_amount, item) ==
    IF item.balance >= max_amount THEN 0 ELSE max_amount - item.balance

(* The dry run of swap_waiting_to_active: decrease_max_amount instead of   *)
(* converting.                                                             *)
get_affected_users_of_swap_waiting_to_active(amount) ==
    LET after[n \in 0 .. NoLimit] ==
            IF n = 0
            THEN [id |-> store.lists[<<AnyUser, "Waiting">>].first,
                  left |-> amount, users |-> {}]
            ELSE LET t == after[n - 1]
                     item == store.fund_by_id[t.id]
                 IN  IF t.id = 0 \/ t.left = 0 THEN t
                     ELSE [id |-> item.next["type"],
                           left |-> decrease_max_amount(t.left, item),
                           users |-> t.users \cup {item.user_id}]
    IN  after[NoLimit]

-----------------------------------------------------------------------------
(* The operations of fund_transf_module.rs.                                *)
within_bounds(s) == s.fund_max_id <= MaxId

commit(r) == /\ store' = r.s
             /\ within_bounds(r.s)
             /\ UNCHANGED <<dust_cleanup_checkpoint, block_nonce>>

(* AffectedUserIdVec takes a user per visited item of a type list.         *)
commit_affected(r) == /\ r.visited <= MAX_AFFECTED_USERS
                      /\ commit(r)

create_waiting(user_id, balance) ==
    /\ sum_of(store, 1 .. 2 * MaxId) + balance <= DepositBound
    /\ store.fund_max_id < MaxId
    /\ commit([s |-> increase_fund_balance(store, user_id, B!Waiting,
                                           balance)])

liquidate_all_withdraw_only(user_id, gas) ==
    commit(split_convert_max_by_user(NoMax, user_id, "WithdrawOnly", "next",
               [item \in FundItem |-> Destroyed], gas))

swap_user_active_to_unstaked(user_id, amount) ==
    commit(split_convert_max_by_user(amount, user_id, "Active", "next",
               [item \in FundItem |-> B!UnStaked(block_nonce)], NoLimit))

(* Mutant of swap_user_waiting_to_withdraw_only: SwapDirection::Forwards.  *)
swap_oldest_waiting(user_id, amount) ==
    commit(split_convert_max_by_user(amount, user_id, "Waiting", "next",
               [item \in FundItem |-> B!WithdrawOnly], NoLimit))

swap_user_waiting_to_withdraw_only(user_id, amount) ==
    commit(split_convert_max_by_user(amount, user_id, "Waiting", "prev",
               [item \in FundItem |-> B!WithdrawOnly], NoLimit))

swap_eligible_deferred_to_withdraw(user_id, gas) ==
    commit(split_convert_max_by_user(NoMax, user_id, "DeferredPayment", "next",
               [item \in FundItem |->
                   IF B!due(item.fund_desc, UnBondBlocks, block_nonce)
                   THEN B!WithdrawOnly ELSE B!NoDescription], gas))

swap_waiting_to_active(amount, gas) ==
    commit_affected(split_convert_max_by_type(amount, "Waiting", "next",
                        [item \in FundItem |-> B!Active], gas))

swap_unstaked_to_deferred_payment(amount, gas) ==
    commit_affected(split_convert_max_by_type(amount, "UnStaked", "next",
               [item \in FundItem |->
                   B!DeferredPayment(item.fund_desc.created)], gas))

swap_active_to_deferred_payment(amount, gas) ==
    commit_affected(split_convert_max_by_type(amount, "Active", "prev",
               [item \in FundItem |-> B!DeferredPayment(block_nonce)], gas))

owner_checked_dust(source_type) ==
    CheckedDust =>
        \/ dust_cleanup_checkpoint = 0
        \/ LET item == store.fund_by_id[dust_cleanup_checkpoint]
           IN  item.balance > 0 /\ item.fund_desc.type = source_type

swap_dust(dust_limit, source_type, transform, gas) ==
    LET r == split_convert_max_by_type_with_checkpoint(
                 dust_cleanup_checkpoint, source_type,
                 [item \in FundItem |-> IF item.balance < dust_limit
                                        THEN transform[item]
                                        ELSE B!NoDescription],
                 gas)
    IN  /\ owner_checked_dust(source_type)
        /\ store' = r.s
        /\ within_bounds(r.s)
        /\ dust_cleanup_checkpoint' = r.id
        /\ UNCHANGED block_nonce

swap_dust_waiting(dust_limit, gas) ==
    swap_dust(dust_limit, "Waiting", [item \in FundItem |-> B!WithdrawOnly],
              gas)

(* An item that is gone has user_id 0, which is no NonZeroUsize.           *)
swap_dust_active(dust_limit, gas) ==
    swap_dust(dust_limit, "Active",
              [item \in FundItem |-> IF item.user_id = 0
                                     THEN B!NoDescription
                                     ELSE B!UnStaked(0)], gas)

NextBlock == /\ block_nonce < NonceBound
             /\ block_nonce' = block_nonce + 1
             /\ UNCHANGED <<store, dust_cleanup_checkpoint>>

Init ==
    /\ store = [fund_by_id |-> [id \in 0 .. 2 * MaxId |-> DefaultItem],
                fund_max_id |-> 0,
                lists |-> [key \in Keys |-> DefaultList]]
    /\ dust_cleanup_checkpoint = 0
    /\ block_nonce = 0

UserOperation(u) ==
    \/ \E amount \in Amounts : \/ create_waiting(u, amount)
                               \/ swap_user_active_to_unstaked(u, amount)
                               \/ swap_user_waiting_to_withdraw_only(u, amount)
    \/ \E gas \in GasLimits : \/ liquidate_all_withdraw_only(u, gas)
                              \/ swap_eligible_deferred_to_withdraw(u, gas)

QueueOperation(amount, gas) ==
    \/ swap_waiting_to_active(amount, gas)
    \/ swap_unstaked_to_deferred_payment(amount, gas)
    \/ swap_active_to_deferred_payment(amount, gas)

DustOperation(limit, gas) ==
    \/ swap_dust_waiting(limit, gas)
    \/ swap_dust_active(limit, gas)

Next == \/ \E u \in 1 .. NumUsers : UserOperation(u)
        \/ \E gas \in GasLimits :
              \/ \E amount \in Amounts : QueueOperation(amount, gas)
              \/ \E limit \in DustLimits : DustOperation(limit, gas)
        \/ NextBlock

Spec == Init /\ [][Next]_vars

-----------------------------------------------------------------------------
(***************************************************************************)
(* The views, of a storage s: they walk the same links as the endpoints    *)
(* and change nothing.  USER_STAKE_TOTALS_ID is AnyUser here.              *)
(***************************************************************************)
get_user_stake_of_type(s, user_id, fund_type) ==
    s.lists[<<user_id, fund_type>>].total_balance

get_user_stake_by_type(s, user_id) ==
    [t \in B!FundType |-> get_user_stake_of_type(s, user_id, t)]

get_user_total_stake(s, user_id) ==
    MapThenSumSet(LAMBDA t : get_user_stake_of_type(s, user_id, t),
                  B!FundType)

(* The items that foreach_fund_by_type or foreach_fund_by_user_type visits *)
(* forwards.                                                               *)
foreach_fund(s, kind, key) ==
    LET after[n \in 0 .. NoLimit] ==
            IF n = 0 THEN [id |-> s.lists[key].first, items |-> <<>>]
            ELSE LET t == after[n - 1]
                     item == s.fund_by_id[t.id]
                 IN  IF t.id = 0 THEN t
                     ELSE [id |-> item.next[kind],
                           items |-> Append(t.items, item)]
    IN  after[NoLimit].items

get_user_deferred_payment_list(s, user_id) ==
    LET items == foreach_fund(s, "user", <<user_id, "DeferredPayment">>)
    IN  [k \in DOMAIN items |-> [balance |-> items[k].balance,
                                 created |-> items[k].fund_desc.created]]

(* Mutant of eligible_deferred_payment: not yet in the block it is due.    *)
eligible_after_due(s, user_id) ==
    FoldSeq(LAMBDA item, sum :
                IF B!due([created |-> item.created + 1], UnBondBlocks,
                         block_nonce)
                THEN sum + item.balance ELSE sum,
            0, get_user_deferred_payment_list(s, user_id))

eligible_deferred_payment(s, user_id) ==
    FoldSeq(LAMBDA item, sum :
                IF B!due(item, UnBondBlocks, block_nonce)
                THEN sum + item.balance ELSE sum,
            0, get_user_deferred_payment_list(s, user_id))

get_unbondable(s, user_id) ==
    get_user_stake_of_type(s, user_id, "WithdrawOnly")
        + eligible_deferred_payment(s, user_id)

(* getFullWaitingList and getFullActiveList, without the addresses.        *)
get_full_list(s, fund_type) ==
    LET items == foreach_fund(s, "type", <<AnyUser, fund_type>>)
    IN  [k \in DOMAIN items |-> [user_id |-> items[k].user_id,
                                 balance |-> items[k].balance]]

(* Mutant of count_fund_items_by_type: counts items at the limit too.      *)
count_up_to_limit(s, fund_type, dust_limit) ==
    Len(SelectSeq(foreach_fund(s, "type", <<AnyUser, fund_type>>),
                  LAMBDA item : item.balance <= dust_limit))

(* as countDustItemsWaitingList and countDustItemsActive use it            *)
count_fund_items_by_type(s, fund_type, dust_limit) ==
    Len(SelectSeq(foreach_fund(s, "type", <<AnyUser, fund_type>>),
                  LAMBDA item : item.balance < dust_limit))

-----------------------------------------------------------------------------
Items == [fund_desc : [type : B!FundType, created : 0 .. NonceBound],
          user_id : 0 .. NumUsers, balance : 0 .. DepositBound,
          next : [Kinds -> 0 .. MaxId], prev : [Kinds -> 0 .. MaxId]]

(* Ids stay below the bound and no BigUint total underflows.               *)
TypeOK ==
    /\ \A id \in DOMAIN store.fund_by_id : store.fund_by_id[id] \in Items
    /\ store.fund_max_id \in 0 .. MaxId
    /\ store.lists \in [Keys -> [first : 0 .. MaxId, last : 0 .. MaxId,
                                 total_balance : 0 .. DepositBound]]
    /\ dust_cleanup_checkpoint \in 0 .. MaxId
    /\ block_nonce \in 0 .. NonceBound

live == { id \in DOMAIN store.fund_by_id : store.fund_by_id[id].balance > 0 }

members(kind, key) ==
    { id \in live : list_key(kind, store.fund_by_id[id]) = key }

LeastOf(ids)    == IF ids = {} THEN 0 ELSE Min(ids)
GreatestOf(ids) == IF ids = {} THEN 0 ELSE Max(ids)

(* The assertions of check_consistency_for_type and                        *)
(* check_consistency_for_user_type in user-fund-storage/tests: each list   *)
(* is linked both ways through exactly the items with its key, in the      *)
(* order of their ids, and its total is their sum.                         *)
ListsConsistent ==
    \A kind \in Kinds, key \in Keys :
        LET list == store.lists[key]
            ids  == members(kind, key)
        IN  (kind = "type") = (key[1] = AnyUser) =>
            /\ list.first = LeastOf(ids)
            /\ list.last = GreatestOf(ids)
            /\ list.total_balance = sum_of(store, ids)
            /\ \A id \in ids :
                  LET item == store.fund_by_id[id]
                  IN  /\ item.next[kind] = LeastOf({k \in ids : k > id})
                      /\ item.prev[kind] = GreatestOf({k \in ids : k < id})

(* "setting balance to zero causes the fund item to be removed from        *)
(* storage when saving": nothing of a spent item stays behind.             *)
SpentItemsRemoved ==
    \A id \in DOMAIN store.fund_by_id \ live :
        store.fund_by_id[id] = DefaultItem

(* The dry run of swap_waiting_to_active names exactly the users whose     *)
(* stake the swap itself moves, which are the ones whose rewards           *)
(* use_waiting_to_replace_unstaked computes beforehand.                    *)
DryRunPredictsSwap ==
    \A amount \in Amounts :
        LET dry  == get_affected_users_of_swap_waiting_to_active(amount)
            swap == split_convert_max_by_type(amount, "Waiting", "next",
                        [item \in FundItem |-> B!Active], NoLimit)
        IN  /\ dry.left = swap.left
            /\ dry.users = { u \in 1 .. NumUsers :
                    swap.s.lists[<<u, "Active">>].total_balance
                        # store.lists[<<u, "Active">>].total_balance }

(* unBond with enough gas, on the storage alone.                           *)
storage_after_release(user_id) ==
    split_convert_max_by_user(NoMax, user_id, "DeferredPayment", "next",
        [item \in FundItem |->
            IF B!due(item.fund_desc, UnBondBlocks, block_nonce)
            THEN B!WithdrawOnly ELSE B!NoDescription], NoLimit).s

storage_after_payment(s, user_id) ==
    traverse(s, s.lists[<<user_id, "WithdrawOnly">>].first, "user", "next",
             NoMax, [item \in FundItem |-> Destroyed], NoLimit).s

paid_exactly(s, user_id, amount) ==
    /\ \A u \in {user_id, AnyUser} :
          get_user_total_stake(s, u) = get_user_total_stake(store, u) - amount
    /\ \A u \in 1 .. NumUsers \ {user_id} :
          get_user_stake_by_type(s, u) = get_user_stake_by_type(store, u)

(* getUnBondable tells a delegator exactly what unBond then pays, and      *)
(* paying it shows in the totals and in nobody else's stake.               *)
UnBondPaysUnBondable ==
    \A u \in 1 .. NumUsers :
        paid_exactly(storage_after_payment(storage_after_release(u), u), u,
                     get_unbondable(store, u))

total_of(list) == FoldSeq(LAMBDA entry, sum : sum + entry.balance, 0, list)

(* A queue after an amount was taken from its front.                       *)
served_in_order(rest, queue, amount) ==
    LET served == Len(queue) - Len(rest)
    IN  /\ total_of(rest) = total_of(queue) - amount
        /\ \A k \in DOMAIN rest :
              /\ rest[k].user_id = queue[served + k].user_id
              /\ k > 1 => rest[k] = queue[served + k]

list_after_activation(swap, queue, amount) ==
    served_in_order(get_full_list(swap.s, "Waiting"), queue,
                    amount - swap.left)

list_after_cleanup(fund_type, dust_limit) ==
    get_full_list(traverse(store, store.lists[<<AnyUser, fund_type>>].last,
        "type", "prev", NoMax,
        [item \in FundItem |-> IF item.balance < dust_limit
                               THEN B!UnStaked(0) ELSE B!NoDescription],
        NoLimit).s, fund_type)

(* getFullWaitingList shows the queue: activating an amount takes it from  *)
(* the front of the list.  countDustItems tells how many items a cleanup   *)
(* from the start takes out of the list.                                   *)
ListViewsForetell ==
    /\ \A amount \in Amounts :
          list_after_activation(
              split_convert_max_by_type(amount, "Waiting", "next",
                  [item \in FundItem |-> B!Active], NoLimit),
              get_full_list(store, "Waiting"), amount)
    /\ \A fund_type \in {"Waiting", "Active"}, limit \in DustLimits :
          Len(list_after_cleanup(fund_type, limit))
              = Len(get_full_list(store, fund_type))
                - count_fund_items_by_type(store, fund_type, limit)

(* The fund items in the order of their ids, without the links.            *)
book ==
    LET book_entry(item) == [user_id |-> item.user_id,
                             fund_desc |-> item.fund_desc,
                             balance |-> item.balance]
        items[id \in 0 .. 2 * MaxId] ==
            IF id = 0 THEN <<>>
            ELSE IF id \in live
            THEN Append(items[id - 1], book_entry(store.fund_by_id[id]))
            ELSE items[id - 1]
    IN  items[2 * MaxId]

position(id) == IF id = 0 THEN 0
                ELSE IF id \in live
                THEN Cardinality({k \in live \ {0} : k <= id})
                ELSE B!GoneId

Q == INSTANCE FundQueues WITH
        funds <- book,
        dust_cleanup_checkpoint <- position(dust_cleanup_checkpoint)

(* Following links gives what the queues promise: who is served first, how *)
(* much is converted, which items coalesce, and where an interrupted dust  *)
(* cleanup continues.                                                      *)
RefinesFundQueues == Q!Spec
=============================================================================
