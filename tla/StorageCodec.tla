---------------------------- MODULE StorageCodec ----------------------------
(***************************************************************************)
(* How the contract's objects are laid out in storage, before and after    *)
(* the hand-written serialization (kept under fuzz/old_serialization) was  *)
(* replaced by a derived one.  A contract that was deployed with the old   *)
(* version and upgraded must find and understand everything it stored.     *)
(*                                                                         *)
(* Stored data is a sequence of cells, one per fixed-width integer or      *)
(* length-prefixed BigUint: both versions write these alike, and a decoder *)
(* that expects another width fails.  (A byte 0 that is all of the data    *)
(* may also be stored as no byte; one cell stands for both.)  The state is *)
(* one object of the storage; all others are stored the same way under     *)
(* keys of their own.                                                      *)
(***************************************************************************)
EXTENDS Integers, SequencesExt

CONSTANTS
    Ids,                    \* usize values: user ids, item ids and links
    Balances,               \* BigUint values
    Nonces,                 \* u64 values
    BLS_KEY_BYTE_LENGTH,
    BLS_SIGNATURE_BYTE_LENGTH

ASSUME CodecAssumption ==
    /\ Ids \subseteq Nat /\ Balances \subseteq Nat /\ Nonces \subseteq Nat
    /\ 0 \in Ids \cap Balances \cap Nonces
    /\ BLS_KEY_BYTE_LENGTH \in Nat \ {0}
    /\ BLS_SIGNATURE_BYTE_LENGTH \in Nat \ {0}

VARIABLES
    version,    \* "old" or "new": the code that is installed
    object,     \* the object last saved: its name and its value
    key, data   \* where and how it is stored

vars == <<version, object, key, data>>

Versions == {"old", "new"}

cell(width, value) == [width |-> width, value |-> value]
u8(n) == cell("u8", n)
u64(n) == cell("u64", n)
usize(n) == cell("usize", n)
BigUint(n) == cell("BigUint", n)

-----------------------------------------------------------------------------
(* Enums.  The old version has a constant per variant, the derived one     *)
(* numbers the variants as they are declared.                              *)
old_fund_discriminant ==
    [WithdrawOnly |-> 0, Waiting |-> 1, Active |-> 4, UnStaked |-> 5,
     DeferredPayment |-> 6]

(* Mutant of fund_variants: without the variants kept for serialization.   *)
fund_variants_in_use ==
    <<"WithdrawOnly", "Waiting", "Active", "UnStaked", "DeferredPayment">>

fund_variants ==
    <<"WithdrawOnly", "Waiting", "_PendingAct", "_ActiveFailed", "Active",
      "UnStaked", "DeferredPayment">>

old_node_discriminant ==
    [Inactive |-> 0, PendingActivation |-> 1, ActivationFailed |-> 2,
     Active |-> 3, PendingDeactivation |-> 4, UnBondPeriod |-> 5,
     PendingUnBond |-> 6, Removed |-> 7]

(* Mutant of node_variants: the one no longer used was moved to the end.   *)
node_variants_reordered ==
    <<"Inactive", "PendingActivation", "Active", "PendingDeactivation",
      "UnBondPeriod", "PendingUnBond", "Removed", "ActivationFailed">>

node_variants ==
    <<"Inactive", "PendingActivation", "ActivationFailed", "Active",
      "PendingDeactivation", "UnBondPeriod", "PendingUnBond", "Removed">>

derived(variants) == [v \in ToSet(variants) |->
                         (CHOOSE k \in DOMAIN variants : variants[k] = v) - 1]

fund_discriminant(ver) == IF ver = "old" THEN old_fund_discriminant
                          ELSE derived(fund_variants)
node_discriminant(ver) == IF ver = "old" THEN old_node_discriminant
                          ELSE derived(node_variants)

(* The variants with a u64 field.                                          *)
dated_funds == {"Waiting", "UnStaked", "DeferredPayment"}
dated_nodes == {"UnBondPeriod", "PendingUnBond"}

dep_encode_enum(discriminant, dated, v) ==
    <<u8(discriminant[v.type])>>
        \o IF v.type \in dated THEN <<u64(v.nonce)>> ELSE <<>>

enum_length(dated, type) == IF type \in dated THEN 2 ELSE 1

(* The value that the cells start with: none if the byte is no             *)
(* discriminant (INVALID_VALUE) or no u64 follows.                         *)
dep_decode_enum(discriminant, dated, input) ==
    { [type |-> t, nonce |-> IF t \in dated THEN input[2].value ELSE 0] :
        t \in { t \in DOMAIN discriminant :
                  /\ Len(input) >= enum_length(dated, t)
                  /\ input[1] = u8(discriminant[t])
                  /\ t \in dated => input[2].width = "u64" } }

-----------------------------------------------------------------------------
Links == {"type_list_next", "type_list_prev", "user_list_next",
          "user_list_prev"}

(* Saved items have a user and a description, whatever their balance.      *)
FundDescription == { d \in [type : DOMAIN old_fund_discriminant,
                            nonce : Nonces] :
                        d.type \notin dated_funds => d.nonce = 0 }
NodeState == { s \in [type : DOMAIN old_node_discriminant, nonce : Nonces] :
                  s.type \notin dated_nodes => s.nonce = 0 }
FundItem == [fund_desc : FundDescription, user_id : Ids, balance : Balances,
             links : [Links -> Ids]]
FundsListInfo == [total_balance : Balances, first : Ids, last : Ids]

DefaultItem == [fund_desc |-> [type |-> "WithdrawOnly", nonce |-> 0],
                user_id |-> 0, balance |-> 0, links |-> [l \in Links |-> 0]]
DefaultList == [total_balance |-> 0, first |-> 0, last |-> 0]

(* Mutant of is_default_item: does not look at the links.                  *)
is_spent(item) == item.balance = 0

is_default_item(item) == item.balance = 0 /\ \A l \in Links : item.links[l] = 0

dep_encode_item(ver, item) ==
    dep_encode_enum(fund_discriminant(ver), dated_funds, item.fund_desc)
        \o <<usize(item.user_id), BigUint(item.balance),
             usize(item.links["type_list_next"]),
             usize(item.links["type_list_prev"]),
             usize(item.links["user_list_next"]),
             usize(item.links["user_list_prev"])>>

dep_encode_list(list) ==
    <<BigUint(list.total_balance), usize(list.first), usize(list.last)>>

(* A BLS key or signature is an array of bytes of fixed length.            *)
dep_encode_bytes(bytes) == [k \in DOMAIN bytes |-> u8(bytes[k])]

(* Cells of the given widths and no more, as top_decode_from_nested wants. *)
has_widths(input, widths) ==
    /\ Len(input) = Len(widths)
    /\ \A k \in DOMAIN input : input[k].width = widths[k]

Failed == [decode_error |-> TRUE]

item_from(fund_desc, rest) ==
    IF ~ has_widths(rest, <<"usize", "BigUint", "usize", "usize", "usize",
                            "usize">>) THEN Failed
    ELSE [fund_desc |-> fund_desc, user_id |-> rest[1].value,
          balance |-> rest[2].value,
          links |-> [type_list_next |-> rest[3].value,
                     type_list_prev |-> rest[4].value,
                     user_list_next |-> rest[5].value,
                     user_list_prev |-> rest[6].value]]

dep_decode_item(ver, input) ==
    LET fund_desc == dep_decode_enum(fund_discriminant(ver), dated_funds,
                                     input)
        rest(d) == SubSeq(input, enum_length(dated_funds, d.type) + 1,
                          Len(input))
    IN  IF fund_desc = {} THEN Failed
        ELSE LET d == CHOOSE d \in fund_desc : TRUE IN item_from(d, rest(d))

dep_decode_list(input) ==
    IF ~ has_widths(input, <<"BigUint", "usize", "usize">>) THEN Failed
    ELSE [total_balance |-> input[1].value, first |-> input[2].value,
          last |-> input[3].value]

decode_bytes(input, length) ==
    IF ~ has_widths(input, [k \in 1 .. length |-> "u8"]) THEN Failed
    ELSE [k \in 1 .. length |-> input[k].value]

decode_node_state(ver, input) ==
    LET state == { s \in dep_decode_enum(node_discriminant(ver), dated_nodes,
                                         input) :
                     Len(input) = enum_length(dated_nodes, s.type) }
    IN  IF state = {} THEN Failed ELSE CHOOSE s \in state : TRUE

-----------------------------------------------------------------------------
(* Storage.  The keys of the lists contain an encoded FundType.            *)
storage_key(ver, name) ==
    CASE name.kind = "f"     -> <<"f", usize(name.id)>>
      [] name.kind = "ftype" ->
            <<"ftype", u8(fund_discriminant(ver)[name.type])>>
      [] name.kind = "fuser" ->
            <<"fuser", usize(name.id), u8(fund_discriminant(ver)[name.type])>>
      [] OTHER               -> <<name.kind, usize(name.id)>>

(* Values that are default are not stored: their slot is empty.            *)
top_encode(ver, kind, value) ==
    CASE kind = "f" -> IF is_default_item(value) THEN <<>>
                       ELSE dep_encode_item(ver, value)
      [] kind \in {"ftype", "fuser"} ->
            IF value = DefaultList THEN <<>> ELSE dep_encode_list(value)
      [] kind = "node_state" ->
            dep_encode_enum(node_discriminant(ver), dated_nodes, value)
      [] OTHER -> dep_encode_bytes(value)

top_decode(ver, kind, input) ==
    CASE kind = "f" ->
            IF input = <<>> THEN DefaultItem ELSE dep_decode_item(ver, input)
      [] kind \in {"ftype", "fuser"} ->
            IF input = <<>> THEN DefaultList ELSE dep_decode_list(input)
      [] kind = "node_state" -> decode_node_state(ver, input)
      [] kind = "node_id_to_bls" -> decode_bytes(input, BLS_KEY_BYTE_LENGTH)
      [] kind = "node_signature" ->
            decode_bytes(input, BLS_SIGNATURE_BYTE_LENGTH)

(* A slot that was never written is empty.                                 *)
get(name) ==
    top_decode(version, name.kind,
               IF storage_key(version, name) = key THEN data ELSE <<>>)

Names ==
    [kind : {"f", "node_state", "node_id_to_bls", "node_signature"},
     id : Ids \ {0}, type : {"-"}]
    \cup [kind : {"ftype"}, id : {0}, type : DOMAIN old_fund_discriminant]
    \cup [kind : {"fuser"}, id : Ids \ {0},
          type : DOMAIN old_fund_discriminant]

Values(kind) ==
    CASE kind = "f" -> FundItem
      [] kind \in {"ftype", "fuser"} -> FundsListInfo
      [] kind = "node_state" -> NodeState
      [] kind = "node_id_to_bls" -> [1 .. BLS_KEY_BYTE_LENGTH -> {0, 1}]
      [] kind = "node_signature" -> [1 .. BLS_SIGNATURE_BYTE_LENGTH -> {0, 1}]

save(name, value) ==
    /\ object' = [name |-> name, value |-> value]
    /\ key' = storage_key(version, name)
    /\ data' = top_encode(version, name.kind, value)
    /\ UNCHANGED version

upgrade == /\ version = "old"
           /\ version' = "new"
           /\ UNCHANGED <<object, key, data>>

(* Nothing is stored yet.                                                  *)
Init ==
    /\ version \in Versions
    /\ object = [name |-> [kind |-> "ftype", id |-> 0, type |-> "Waiting"],
                 value |-> DefaultList]
    /\ key = storage_key(version, object.name)
    /\ data = <<>>

Next == \/ \E name \in Names : \E value \in Values(name.kind) :
              save(name, value)
        \/ upgrade

Spec == Init /\ [][Next]_vars

-----------------------------------------------------------------------------
(* What a fund item is worth keeping for.                                  *)
carries_something(item) ==
    item.balance > 0 \/ \E l \in Links : item.links[l] > 0

(* Whatever was saved, also by a version since replaced, is read back: an  *)
(* item with neither balance nor links as the default item, everything     *)
(* else as it was.  And it is found under its own name only: no other list *)
(* or item is taken for it ("Unused. Kept for serialization.").            *)
SavedIsFoundAgain ==
    /\ get(object.name) =
          IF object.name.kind = "f" /\ ~ carries_something(object.value)
          THEN DefaultItem ELSE object.value
    /\ \A name \in Names \ {object.name} : storage_key(version, name) # key

(* NodeState::discriminant, a table of its own.                            *)
discriminant ==
    [Inactive |-> 0, PendingActivation |-> 1, ActivationFailed |-> 2,
     Active |-> 3, PendingDeactivation |-> 4, UnBondPeriod |-> 5,
     PendingUnBond |-> 6, Removed |-> 7]

(* The number that getAllNodeStates reports for a node is the one that its *)
(* state is stored as, whichever version stored it.                        *)
ReportedStateIsStoredState ==
    object.name.kind = "node_state" =>
        data[1] = u8(discriminant[object.value.type])
=============================================================================
