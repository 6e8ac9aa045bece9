------------------------------ MODULE FundBook ------------------------------
(***************************************************************************)
(* The fund items of the contract as one sequence in the order of their    *)
(* ids, and what each transformation of fund_transf_module.rs does to it.  *)
(*                                                                         *)
(* Ids are handed out in increasing order and every list appends at its    *)
(* end, so the list of a type, or of a user and a type, is the             *)
(* subsequence of the items with that key.  FundModule.tla is about the    *)
(* links that realise it.  An item whose balance is 0 is a deleted one: it *)
(* keeps its place until the transaction commits.                          *)
(***************************************************************************)
EXTENDS Integers, SequencesExt

CONSTANT U64        \* the number of values of a u64

ASSUME U64Assumption == U64 \in Nat \ {0}

(* FundDescription: the created field of Waiting is read by no operation   *)
(* and is left out.                                                        *)
WithdrawOnly       == [type |-> "WithdrawOnly", created |-> 0]
Waiting            == [type |-> "Waiting", created |-> 0]
Active             == [type |-> "Active", created |-> 0]
UnStaked(n)        == [type |-> "UnStaked", created |-> n]
DeferredPayment(n) == [type |-> "DeferredPayment", created |-> n]
NoDescription      == [type |-> "None", created |-> 0]

FundType == {"WithdrawOnly", "Waiting", "Active", "UnStaked",
             "DeferredPayment"}

allow_coalesce(fund_type) == fund_type \in {"WithdrawOnly", "DeferredPayment"}

Smaller(a, b) == IF a <= b THEN a ELSE b

-----------------------------------------------------------------------------
(* FundItem: what the operations below read of an item.                    *)
Item == [user_id : Nat,
         fund_desc : [type : FundType, created : Nat],
         balance : Nat]

SumTo(f, n) ==
    LET sum[k \in 0 .. n] == IF k = 0 THEN 0 ELSE sum[k - 1] + f[k]
    IN  sum[n]

of_type(funds, fund_type) ==
    { id \in DOMAIN funds : funds[id].fund_desc.type = fund_type }
of_user(funds, user_id) ==
    { id \in DOMAIN funds : funds[id].user_id = user_id }

(* The lists: the live ones of some ids, in the order of traversal.        *)
list_of(funds, ids) ==
    LET list[n \in 0 .. Len(funds)] ==
            IF n = 0 THEN <<>>
            ELSE IF n \in ids /\ funds[n].balance > 0
            THEN Append(list[n - 1], n) ELSE list[n - 1]
    IN  list[Len(funds)]

fund_list_by_type(funds, fund_type) ==
    list_of(funds, of_type(funds, fund_type))

fund_list_by_user(funds, user_id, fund_type) ==
    list_of(funds, of_user(funds, user_id) \cap of_type(funds, fund_type))

sum_of(funds, ids) ==
    SumTo([n \in 1 .. Len(funds) |->
              IF n \in ids THEN funds[n].balance ELSE 0], Len(funds))

total_of_type(funds, fund_type) == sum_of(funds, of_type(funds, fund_type))

get_user_stake_of_type(funds, user_id, fund_type) ==
    sum_of(funds, of_user(funds, user_id) \cap of_type(funds, fund_type))

-----------------------------------------------------------------------------
create_fund(funds, user, fund_desc, amount) ==
    IF amount = 0 THEN funds
    ELSE Append(funds, [user_id |-> user, fund_desc |-> fund_desc,
                        balance |-> amount])

(* Mutant of increase_fund_balance: coalesces funds of different age.      *)
increase_any_age(funds, user, fund_desc, amount) ==
    LET list == fund_list_by_user(funds, user, fund_desc.type)
    IN  IF allow_coalesce(fund_desc.type) /\ list # <<>>
        THEN [funds EXCEPT ![Last(list)].balance = @ + amount,
                           ![Last(list)].fund_desc = fund_desc]
        ELSE create_fund(funds, user, fund_desc, amount)

(* Mutant of increase_fund_balance: newer funds take the age of older ones.*)
increase_keeping_age(funds, user, fund_desc, amount) ==
    LET list == fund_list_by_user(funds, user, fund_desc.type)
    IN  IF allow_coalesce(fund_desc.type) /\ list # <<>>
        THEN [funds EXCEPT ![Last(list)].balance = @ + amount]
        ELSE create_fund(funds, user, fund_desc, amount)

(* Only the last item of the user's list is tried for coalescing.          *)
increase_fund_balance(funds, user, fund_desc, amount) ==
    LET list == fund_list_by_user(funds, user, fund_desc.type)
        coalesced == /\ allow_coalesce(fund_desc.type)
                     /\ list # <<>>
                     /\ funds[Last(list)].fund_desc = fund_desc
    IN  IF coalesced
        THEN [funds EXCEPT ![Last(list)].balance = @ + amount]
        ELSE create_fund(funds, user, fund_desc, amount)

(***************************************************************************)
(* The loop shared by the split_convert functions: visit the items ids in  *)
(* order for at most gas iterations, convert what transform selects, stop  *)
(* once max_amount is used up.  Items made on the way have another type    *)
(* than the ones visited, so the list can be taken before the loop.        *)
(***************************************************************************)
converted(s, id, item, desc, extracted) ==
    [funds |-> increase_fund_balance(
                   [s.funds EXCEPT ![id].balance = @ - extracted],
                   item.user_id, desc, extracted),
     left |-> s.left - extracted,
     visited |-> s.visited + 1]

split_convert(funds, ids, max_amount, transform, gas) ==
    LET visit(s, id, item, desc) ==
            IF desc = NoDescription THEN [s EXCEPT !.visited = @ + 1]
            ELSE converted(s, id, item, desc, Smaller(s.left, item.balance))
        step(s, id) ==
            IF s.left = 0 THEN s
            ELSE visit(s, id, s.funds[id], transform[s.funds[id]])
        after[n \in 0 .. Len(ids)] ==
            IF n = 0
            THEN [funds |-> funds, left |-> max_amount, visited |-> 0]
            ELSE step(after[n - 1], ids[n])
    IN  after[Smaller(gas, Len(ids))]

(* Gas is counted in loop iterations; this much never interrupts a loop.   *)
NoLimit(funds) == Len(funds)

(* opt_max_amount = None: as much as there is.                             *)
Everything(funds) == sum_of(funds, DOMAIN funds)

-----------------------------------------------------------------------------
create_waiting(funds, user_id, balance) ==
    increase_fund_balance(funds, user_id, Waiting, balance)

swap_user_active_to_unstaked(funds, user_id, amount, nonce) ==
    split_convert(funds, fund_list_by_user(funds, user_id, "Active"), amount,
                  [item \in Item |-> UnStaked(nonce)], NoLimit(funds))

swap_waiting_to_active(funds, remaining, gas) ==
    split_convert(funds, fund_list_by_type(funds, "Waiting"), remaining,
                  [item \in Item |-> Active], gas)

(* The users visited by the dry run: those of the items swapped.           *)
get_affected_users_of_swap_waiting_to_active(funds, amount) ==
    LET ids == fund_list_by_type(funds, "Waiting")
        n   == swap_waiting_to_active(funds, amount, NoLimit(funds)).visited
    IN  { funds[ids[k]].user_id : k \in 1 .. n }

swap_user_waiting_to_withdraw_only(funds, user_id, remaining) ==
    split_convert(funds,
                  Reverse(fund_list_by_user(funds, user_id, "Waiting")),
                  remaining, [item \in Item |-> WithdrawOnly], NoLimit(funds))

swap_unstaked_to_deferred_payment(funds, remaining, gas) ==
    split_convert(funds, fund_list_by_type(funds, "UnStaked"), remaining,
                  [item \in Item |-> DeferredPayment(item.fund_desc.created)],
                  gas)

swap_active_to_deferred_payment(funds, remaining, nonce, gas) ==
    split_convert(funds, Reverse(fund_list_by_type(funds, "Active")),
                  remaining, [item \in Item |-> DeferredPayment(nonce)], gas)

(* Mutant of due.                                                          *)
due_at_once(fund_desc, n_blocks, nonce) == nonce >= fund_desc.created

(* The unbond period of a deferred payment is over.  The sum is a u64 one  *)
(* of a contract built without overflow checks.                            *)
due(fund_desc, n_blocks, nonce) ==
    nonce >= (fund_desc.created + n_blocks) % U64

swap_eligible_deferred_to_withdraw(funds, user_id, n_blocks, nonce, gas) ==
    split_convert(funds,
                  fund_list_by_user(funds, user_id, "DeferredPayment"),
                  Everything(funds),
                  [item \in Item |-> IF due(item.fund_desc, n_blocks, nonce)
                                     THEN WithdrawOnly ELSE NoDescription],
                  gas)

(* Mutant of liquidate_all_withdraw_only: walks the list of the type.      *)
liquidate_everybody(funds, user_id, gas) ==
    LET ids  == fund_list_by_type(funds, "WithdrawOnly")
        gone == ToSet(SubSeq(ids, 1, Smaller(gas, Len(ids))))
    IN  [id \in 1 .. Len(funds) |->
            IF id \in gone THEN [funds[id] EXCEPT !.balance = 0]
                           ELSE funds[id]]

liquidate_all_withdraw_only(funds, user_id, gas) ==
    LET ids  == fund_list_by_user(funds, user_id, "WithdrawOnly")
        gone == ToSet(SubSeq(ids, 1, Smaller(gas, Len(ids))))
    IN  [id \in 1 .. Len(funds) |->
            IF id \in gone THEN [funds[id] EXCEPT !.balance = 0]
                           ELSE funds[id]]

-----------------------------------------------------------------------------
(***************************************************************************)
(* swap_dust: from the item current_id, or from the end of the list if it  *)
(* is 0, towards the front along type_list_prev, that is along the list    *)
(* that item is in.  An id whose item is gone reads back as the default    *)
(* item, which has no predecessor.  The result names the visited items and *)
(* the id to continue from.                                                *)
(***************************************************************************)
dust_path(funds, current_id, source_type) ==
    LET list_up_to(last_id, fund_type) ==
            Reverse(list_of(funds, of_type(funds, fund_type)
                                       \cap 1 .. last_id))
    IN  IF current_id = 0 THEN list_up_to(Len(funds), source_type)
        ELSE IF current_id \in 1 .. Len(funds)
        THEN list_up_to(current_id, funds[current_id].fund_desc.type)
        ELSE <<>>

swap_dust(funds, current_id, dust_limit, source_type, transform, gas) ==
    LET path    == dust_path(funds, current_id, source_type)
        visited == Smaller(gas, Len(path))
        convert == [item \in Item |-> IF item.balance < dust_limit
                                      THEN transform[item] ELSE NoDescription]
    IN  [funds   |-> split_convert(funds, path, Everything(funds), convert,
                                   gas).funds,
         touched |-> { path[k] : k \in 1 .. visited },
         next_id |-> IF visited < Len(path) THEN path[visited + 1]
                     ELSE IF gas = 0 THEN current_id ELSE 0]

(* Saving an item without balance removes it from storage.  The remaining  *)
(* items are renumbered, which keeps their order and so every list; an id  *)
(* held elsewhere follows its item, or becomes GoneId.                     *)
GoneId == -1

(* Mutant of save.                                                         *)
save_all(funds) == funds

save(funds) ==
    LET kept[n \in 0 .. Len(funds)] ==
            IF n = 0 THEN <<>>
            ELSE IF funds[n].balance > 0 THEN Append(kept[n - 1], funds[n])
            ELSE kept[n - 1]
    IN  kept[Len(funds)]

follow(id, funds) ==
    IF id \notin 1 .. Len(funds) THEN id
    ELSE IF funds[id].balance = 0 THEN GoneId
    ELSE Len(save(SubSeq(funds, 1, id)))
=============================================================================
