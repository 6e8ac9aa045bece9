------------------------------ MODULE UserData ------------------------------
(***************************************************************************)
(* The registry of delegators (user_data.rs): an address gets a user id    *)
(* when it first stakes, and fund items and rewards are kept under the id. *)
(* Users that the genesis contract registered may lack the entry that      *)
(* leads from the id back to the address; stake and updateUserAddress      *)
(* supply it, and the views that list delegators need it.                  *)
(***************************************************************************)
EXTENDS Integers, FiniteSets, Sequences

CONSTANTS
    Addresses,      \* accounts that may call the contract
    NoAddress,      \* what an empty user_address entry is
    MaxUsers,       \* bound on num_users
    MaxArguments    \* bound on the addresses given to updateUserAddress

ASSUME UserDataAssumption ==
    /\ NoAddress \notin Addresses
    /\ MaxUsers \in Nat \ {0}
    /\ MaxArguments \in Nat

Ids == 1 .. MaxUsers

VARIABLES
    user_id,        \* by address, 0 if there is none
    user_address,   \* by id, NoAddress if empty
    num_users,
    waiting         \* the ids that own items of the waiting list (FundModule)

vars == <<user_id, user_address, num_users, waiting>>

is_empty_user_address(id) == user_address[id] = NoAddress

-----------------------------------------------------------------------------
new_user == num_users + 1

(* Mutants of get_or_create_user: the entry that leads back is not set for *)
(* users left over from genesis, or is set whether or not there is one.    *)
create_user_only(address) ==
    IF user_id[address] # 0
    THEN UNCHANGED <<user_id, user_address, num_users>>
    ELSE /\ new_user \in Ids
         /\ num_users' = new_user
         /\ user_id' = [user_id EXCEPT ![address] = new_user]
         /\ user_address' = [user_address EXCEPT ![new_user] = address]

create_user_in_old_id(address) ==
    IF user_id[address] # 0
    THEN UNCHANGED <<user_id, user_address, num_users>>
    ELSE /\ new_user \in Ids
         /\ num_users' = new_user
         /\ user_id' = [user_id EXCEPT ![address] = num_users]
         /\ user_address' = [user_address EXCEPT ![num_users] = address]

get_or_create_user(address) ==
    LET id == user_id[address]
    IN  \/ /\ id = 0
           /\ new_user \in Ids
           /\ num_users' = new_user
           /\ user_id' = [user_id EXCEPT ![address] = new_user]
           /\ user_address' = [user_address EXCEPT ![new_user] = address]
        \/ /\ id # 0
           /\ user_address' = IF is_empty_user_address(id)
                              THEN [user_address EXCEPT ![id] = address]
                              ELSE user_address
           /\ UNCHANGED <<user_id, num_users>>

(* process_stake: the payment becomes an item of the waiting list.         *)
stake_endpoint(address) ==
    /\ get_or_create_user(address)
    /\ waiting' = waiting \cup {user_id'[address]}

(* Waiting funds become active or are withdrawn; nothing but stake makes   *)
(* new ones.                                                               *)
WaitingLeaves(id) ==
    /\ waiting' = waiting \ {id}
    /\ UNCHANGED <<user_id, user_address, num_users>>

-----------------------------------------------------------------------------
(* Mutant of update_loop: tests the entries as they were before the call.  *)
update_loop_stale(addresses) ==
    LET after[n \in 0 .. Len(addresses)] ==
            IF n = 0
            THEN [user_address |-> user_address, num_updated |-> 0,
                  num_not_updated |-> 0, num_not_found |-> 0]
            ELSE LET r  == after[n - 1]
                     id == user_id[addresses[n]]
                 IN  IF id = 0 THEN [r EXCEPT !.num_not_found = @ + 1]
                     ELSE IF ~ is_empty_user_address(id)
                     THEN [r EXCEPT !.num_not_updated = @ + 1]
                     ELSE [r EXCEPT !.user_address[id] = addresses[n],
                                    !.num_updated = @ + 1]
    IN  after[Len(addresses)]

(* updateUserAddress: its loop over the arguments, with what it returns.   *)
(* user_id does not change meanwhile.                                      *)
update_loop(addresses) ==
    LET after[n \in 0 .. Len(addresses)] ==
            IF n = 0
            THEN [user_address |-> user_address, num_updated |-> 0,
                  num_not_updated |-> 0, num_not_found |-> 0]
            ELSE LET r  == after[n - 1]
                     id == user_id[addresses[n]]
                 IN  IF id = 0 THEN [r EXCEPT !.num_not_found = @ + 1]
                     ELSE IF r.user_address[id] # NoAddress
                     THEN [r EXCEPT !.num_not_updated = @ + 1]
                     ELSE [r EXCEPT !.user_address[id] = addresses[n],
                                    !.num_updated = @ + 1]
    IN  after[Len(addresses)]

(* What the loop does to the entries: since an id belongs to one address,  *)
(* only the set of the arguments matters.                                  *)
with_updated_addresses(addresses) ==
    [id \in Ids |->
        IF is_empty_user_address(id) /\ \E a \in addresses : user_id[a] = id
        THEN CHOOSE a \in addresses : user_id[a] = id
        ELSE user_address[id]]

(* Mutants of update_user_address: the address that is not registered yet  *)
(* takes the entry of the last user; the last user is left out.            *)
update_any_address(addresses) ==
    /\ user_address' = [id \in Ids |->
            IF \E a \in addresses : user_id[a] = 0 /\ id = num_users
            THEN CHOOSE a \in addresses : user_id[a] = 0
            ELSE user_address[id]]
    /\ UNCHANGED <<user_id, num_users, waiting>>

update_all_but_last(addresses) ==
    /\ user_address' = [with_updated_addresses(addresses) EXCEPT
                           ![num_users] = user_address[num_users]]
    /\ UNCHANGED <<user_id, num_users, waiting>>

(* Anybody may call it.                                                    *)
update_user_address(addresses) ==
    /\ user_address' = with_updated_addresses(addresses)
    /\ UNCHANGED <<user_id, num_users, waiting>>

user_ids_without_address == { id \in 1 .. num_users : is_empty_user_address(id) }

-----------------------------------------------------------------------------
(* init of latest_full: the owner is user 1.                               *)
Deployed(owner) ==
    /\ num_users = 1
    /\ user_id = [a \in Addresses |-> IF a = owner THEN 1 ELSE 0]
    /\ user_address = [id \in Ids |-> IF id = 1 THEN owner ELSE NoAddress]

(* The genesis contract numbers its users, and the entries of some of them *)
(* are missing.                                                            *)
UpgradedGenesis(users) ==
    /\ num_users = Len(users)
    /\ user_id = [a \in Addresses |->
            IF \E id \in 1 .. Len(users) : users[id] = a
            THEN CHOOSE id \in 1 .. Len(users) : users[id] = a ELSE 0]
    /\ user_address \in
          { f \in [Ids -> Addresses \cup {NoAddress}] :
              \A id \in Ids : f[id] \in IF id <= Len(users)
                                        THEN {users[id], NoAddress}
                                        ELSE {NoAddress} }

distinct_users(n) ==
    { users \in [1 .. n -> Addresses] :
        \A i, j \in 1 .. n : users[i] = users[j] => i = j }

Init ==
    /\ \/ \E owner \in Addresses : Deployed(owner)
       \/ \E n \in Ids : \E users \in distinct_users(n) :
              UpgradedGenesis(users)
    /\ waiting = {}

Next ==
    \/ \E address \in Addresses : stake_endpoint(address)
    \/ \E id \in Ids : WaitingLeaves(id)
    \/ \E addresses \in SUBSET Addresses : update_user_address(addresses)

Spec == Init /\ [][Next]_vars

(* Somebody calls updateUserAddress for an address as long as that is      *)
(* needed: the call is open to everybody and costs little gas.             *)
FairSpec ==
    /\ Spec
    /\ \A address \in Addresses : WF_vars(update_user_address({address}))

-----------------------------------------------------------------------------
TypeOK ==
    /\ user_id \in [Addresses -> 0 .. MaxUsers]
    /\ user_address \in [Ids -> Addresses \cup {NoAddress}]
    /\ num_users \in Ids
    /\ waiting \subseteq Ids

(* Ids and addresses are in one-to-one correspondence: two delegators      *)
(* never share a stake, every id up to num_users has its owner, and the    *)
(* entry that leads back names that owner, whoever supplied it.            *)
IdsMatchAddresses ==
    /\ \A a, b \in Addresses : user_id[a] = user_id[b] /\ user_id[a] # 0 => a = b
    /\ \A id \in 1 .. num_users : \E a \in Addresses : user_id[a] = id
    /\ \A a \in Addresses : user_id[a] <= num_users
    /\ \A id \in Ids : is_empty_user_address(id) \/ user_id[user_address[id]] = id

(* getFullWaitingList reads the address of every user with waiting funds   *)
(* and, unlike getFullActiveList, would fail on an empty entry: it never   *)
(* meets one, as only stake creates waiting funds.                         *)
WaitingListReadable ==
    \A id \in waiting : id <= num_users /\ ~ is_empty_user_address(id)

RegistryInv == TypeOK /\ IdsMatchAddresses /\ WaitingListReadable

(* What is registered stays: an id never changes its owner, under whom the *)
(* stake and the rewards of that id are paid out.                          *)
RegistrationIsFinal ==
    [][/\ num_users' >= num_users
       /\ \A a \in Addresses : user_id[a] # 0 => user_id'[a] = user_id[a]
       /\ \A id \in Ids : ~ is_empty_user_address(id) =>
                              user_address'[id] = user_address[id]]_vars

(* The loop of updateUserAddress does what with_updated_addresses says,    *)
(* for any arguments in any order, and counts an address that is given     *)
(* twice as updated once.                                                  *)
UpdateCountsExact ==
    \A n \in 0 .. MaxArguments : \A addresses \in [1 .. n -> Addresses] :
        LET r == update_loop(addresses)
            given == { addresses[i] : i \in 1 .. n }
        IN  /\ r.user_address = with_updated_addresses(given)
            /\ r.num_updated = Cardinality(
                  { id \in Ids : r.user_address[id] # user_address[id] })
            /\ r.num_updated + r.num_not_updated + r.num_not_found = n

(* All users left over from genesis get their entry, so getFullWaitingList *)
(* and getAllUserStakeByType can eventually list everybody.                *)
EverybodyGetsAddress == <>[](user_ids_without_address = {})
=============================================================================
