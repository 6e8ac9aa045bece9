# Delegation contract: TLA+ models and proofs

This directory holds TLA+ models of the legacy delegation smart contract
(`src/latest`, `src/latest_full`, `src/latest_update`, `src/user-fund-storage`,
`src/node-storage`), the TLC configurations that check them and TLAPS proofs of
their central properties. `PROJECT.json` maps every definition to the lines it
models and lists runs, hazards, findings and theorems.

    tlc -workers 2 -config MCLedger.cfg MCLedger     # one run
    tlapm LedgerProofs.tla                           # one set of proofs

## 1. The system

Delegators send EGLD to the contract, the contract lends it to the protocol's
auction contract to run validator nodes, and the protocol pays validator rewards
into the contract, which shares them out. Endpoints are atomic: a failed
`require!`, a `sc_panic!` or a BigUint underflow reverts the whole transaction.
What makes the contract hard is that its larger computations stop when gas runs
low and go on in a later transaction, that rewards arrive between any two
transactions, and that calls to the auction contract are asynchronous.

| Component | State | Operations | Correct if |
|---|---|---|---|
| Fund storage (`user-fund-storage`) | fund items with an owner, a type and a balance, each in two doubly linked lists (`ftype`, `fuser`) with cached totals | create, coalesce, split, convert, delete, walk with a checkpoint; the views that walk a list | lists and totals agree with the items; queues are served in the documented order; nothing is lost when a walk is interrupted; views foretell what endpoints do |
| User registry (`user_data.rs`) | address <-> id, `num_users` | registration at first stake, `updateUserAddress`; genesis users may lack the entry id -> address | ids are dense, have one owner and are never reassigned |
| User stake (`user_stake_*.rs`) | the five fund types | `stake`, `unStake`, `unBond` | stake only moves with EGLD; waiting and unstaked cancel out; what is due is paid, and nothing before it is due |
| Rewards (`rewards_*.rs`) | per user: checkpoint and unclaimed rewards; `sent_rewards` | `claimRewards`, lazy computation by all endpoints that change stakes | every reward is promised once, and never taken back |
| Global operations (`reset_checkpoint_*.rs`) | `global_op_checkpoint`, cap, fee, bootstrap mode | `modifyTotalDelegationCap`, `setServiceFee`, `continueGlobalOperation` | they end, and active + unstaked = cap afterwards |
| Dust cleanup (`user_stake_dust_cleanup.rs`) | `dust_cleanup_checkpoint` | `dustCleanupWaitingList`, `dustCleanupActive` | as stake and rewards, from any checkpoint |
| Settings (`settings.rs`, pause and feature flags) | minimum stake, unbond period, switches | setters | changes at any time break nothing else |
| Nodes (`node_config.rs`, `node_activation.rs`) | state of each node; EGLD that travels with calls | `addNodes`, `removeNodes`, `stakeNodes`, `unStakeNodes`, `unBondNodes`, `unBondAllPossibleNodes`, `forceNodeUnBondPeriod`, `unJailNodes`, `claimUnusedFunds`, `unBondTokens`, three callbacks | node states agree with the auction contract whatever fails or is late; no EGLD is lost, counted twice or lent twice |
| Deployment and upgrade (`latest_full`, `latest_update`) | - | `init`: a new contract; the first upgrade of the genesis contract, which has no cap; any later upgrade | cap = active + unstaked |
| Serialization (`types/*.rs`, `fuzz/old_serialization`) | storage keys and values | the hand-written encoding, then the derived one | what the old code stored, the new code finds and understands |

Interaction: all endpoints share the fund lists, the cap and the balance of the
contract. Stake, claim and node endpoints are blocked while a global operation is
interrupted; `unBond`, arriving rewards, settings and payments from the auction
contract are not. Endpoints call the auction contract and learn the outcome in a
callback, in a later transaction.

Hard behaviours: interruption at every loop iteration; rewards arriving between
two parts of a computation; values kept across transactions (the dust checkpoint,
the amounts a cap change has still to swap, reward checkpoints of users who were
not active yet); rounding; lent stake that is missing when payments fall due;
callbacks that are late, partly failed or lost; EGLD that comes back without a
callback; an upgrade between any two transactions. `PROJECT.json` lists them as
hazards, each at its line, with the properties that watch them.

## 2. The modules

    Lending   <- refined by -  Ledger      <- refined by -  Delegation (over FundBook)
    Lending   <- refined by -  NodeFunds   (extends and implements Nodes)
    FundQueues (over FundBook)  <- refined by -  FundModule
    UserData
    StorageCodec
    LedgerProofs, NodesProofs, NodeFundsProofs, UserDataProofs, FundModuleProofs
                                                                    theorems
    FundBookProofs  <-  DelegationProofs  <-  RewardProofs          theorems
    MCLedger, MCDelegation, MCFundModule, MCNodes, MCUsers, MCCodec    instances

**Lending** is the contract between bookkeeping and node calls in two numbers: the
stake that nodes may run with, and the part of it that is not in the contract. It
composes Ledger and NodeFunds, which share nothing else: Ledger abstracts the calls
to "some EGLD leaves, some comes back", NodeFunds abstracts the bookkeeping to "the
free EGLD changes" (`LedgerMoves`), and both are shown to do no more than Lending
allows.

**Ledger** is the abstract specification of the money: the five fund totals, the
cap, bootstrap mode, the running global operation with what it has still to swap,
the contract's balance, the stake lent to the auction contract and the fines that
came back from failed `unJailNodes` calls. An endpoint moves *some* amount its
guards allow; which user and which item it comes from is open, and so is where a
global operation is interrupted. It starts newly deployed or as the upgraded
genesis contract, and an upgrade may happen between any two steps.

**FundBook** has the fund storage as a sequence of items in the order of their
ids, with one operator per function of `fund_transf_module.rs`. Loops that watch
the gas take the number of iterations that the gas allows. An item without balance
is deleted when the transaction commits (`save`), and `follow` says what then
happens to an id kept elsewhere. The `created` nonce of a waiting item is read by
no operation and left out. `created + n_blocks_before_claim` wraps at `U64`. A
list is the set of its ids (`of_type`, `of_user`) put in order by `list_of`; what a
transaction turns an item into is a function on `Item`. The loops are recursive
functions of the number of items, so that proofs can follow them.

**Delegation** is the contract: users, fund items, rewards with the source's
divisions, global operations with all their steps, dust cleanup, settings, the
money side of `stakeNodes`, upgrades. One action per endpoint, with parameters for
the caller, the amount and the gas. The user's id stands for the address.
`AuctionPaysBack`, `RewardsArrive` and `NextBlock` are the environment.

**FundModule** is the storage itself: items with `next` and `prev` links in two
lists, list heads with cached totals, every insertion, deletion and traversal of
`fund_module.rs` in its order of reads and writes (an item is written back after
the items that replace it were added), and the views of `fund_view_module.rs`. The
functions that the source has twice, for type lists and user lists, are written
once with the kind as a parameter. The closures that the source gives to its loops
are functions on `FundItem`, and the loops recursive functions of the number of steps,
so that proofs can follow them.

**FundQueues** is the promise behind it: the same operations on a `FundBook`.

**Nodes** has the node registry and the asynchronous calls. An endpoint marks its
nodes and sends a call; `AuctionExecutes` answers it for any subset of failed
keys; the callback comes later, or is lost (`CallbackFails`). Node ids and
signatures are left out: a key stands for its node. `stakeNodes` also requires the
end of bootstrap mode, which is Ledger's and Delegation's part of that endpoint.

**NodeFunds** adds the EGLD: the stake that travels with `stakeNodes` and, if the
call fails as a whole, back with the answer; what `unBondNodes`, `unBondTokens` and
`claimUnusedFunds` bring back; the fine of `unJailNodes`. An endpoint without a
callback that changes nothing in the contract is one step together with the
auction contract's answer.

**UserData** has the two directions of the registry apart, since genesis users may
have only one. `waiting` holds the ids that own waiting funds, which is all that
matters of the fund lists here. `update_loop` is the loop of `updateUserAddress`
with its counters, `with_updated_addresses` what it amounts to.

**StorageCodec** stores one object with the old or the new code, upgrades, and
reads it back. Data is a sequence of cells, one per integer of fixed width or
length-prefixed BigUint.

### Deliberate restrictions

* `CheckedDust = TRUE`: the owner looks at `dustCleanupCheckpoint` and resumes a
  cleanup only if the item is there and belongs to the list of that cleanup. With
  FALSE the checkpoint is used as the code uses it; see findings 1 and 2.
  Delegation always requires a live item: what a dead one does is in FundModule.
* `ExactBootstrapCap = FALSE`, in the passing runs of Delegation: the owner does
  not end bootstrap mode with a cap equal to the stake present; see finding 3. The
  run of Ledger has no such restriction.
* `owner_may_force`: `forceNodeUnBondPeriod`, documented as unsafe when misused,
  is called for nodes which the auction contract unstaked and whose callback was
  lost. The endpoint itself (`force_node_unbond_period`) checks only that the node
  is registered.
* The auction contract acts on a key only if the key is in the state that the call
  starts from, and may refuse any key.
* Rewards arrive only after bootstrap mode, since nodes are staked only then.
* The genesis contract has active and perhaps unstaked stake, all of it lent to the
  auction contract, no waiting funds and no global operation; its address entries
  may be missing for any of its users.
* Delegation has no returned fines; they are in NodeFunds and Ledger.
* The derive macros belong to the framework, outside the repository. StorageCodec
  takes from them that variants are numbered in the order of their declaration and
  fields written in that order; the scenarios of the repository show this for node
  states ("3" and "7").

## 3. The runs

| Run | Question | States |
|---|---|---|
| `ledger` | Solvency, stake within the cap, no waiting next to unstaked, interrupted cap changes can finish; the inductive invariant; refinement of Lending | 155,308 |
| `staking` | cap invariant; nobody is paid early, stake moves only with EGLD, due funds stay due; refinement of Ledger | 149,436 |
| `rewards` | Rewards are covered, settled before swaps, and what is secured to a delegator stays until paid, interruptions of a global operation and dust cleanups included | 204,168 |
| `progress` | Global operations end, deferred payments are paid (liveness) | 85,412 |
| `fund_lists` | Link consistency, removal of spent items, dry run = swap, views = endpoints, refinement of FundQueues | 11,964 |
| `nodes` | Calls own their nodes and their EGLD, node state = auction state, unbond clock kept, each lost callback strands one call at most, pending nodes resolve (liveness); inductive invariant; refinement of Lending | 237,372 |
| `users` | Ids match addresses and stay, lists are readable, `updateUserAddress` counts right and everybody gets an entry (liveness) | 2,712 |
| `codec` | Old data is found and understood after an upgrade; reported node states are the stored ones | 1,228 |
| `bootstrap_cap`, `shared_dust`, `minimum_stake`, `stale_dust` | Statements of the repository that the code does not meet (section 6) | until violated |

Each property of a passing run comes with a mutant, a variant of one definition
with a plausible mistake, under which TLC finds the property violated.

### Bounds

* Two users: the owner and one more. The owner is both the special user of the
  reward code and an ordinary delegator, so reward interactions, queue order
  between users and "all users but one computed" all occur.
* Deposits up to 3 (Delegation, FundModule) or 6 (Ledger), payments of 1 and 2:
  enough for several items per user and list, partial conversion of an item,
  coalescing, first, middle and last deletions, and both raising and lowering the
  cap. A genesis stake of 2. In FundModule up to `MaxId` ids are handed out.
* Rewards of 2 with a fee of 25% and caps of 2 and 3: the divisions of the reward
  code leave remainders. `RewardBound` 4 lets rewards arrive twice, before and
  inside a computation; a dust limit of 2 makes items of 1 dust.
* `GasLimits` {1, 9}, in FundModule {1, 3}: an interruption after one iteration, or none. Repeated
  continuation reaches every interruption point.
* `NonceBound` 1 with unbond periods of 1 and 3 and `U64` 4: funds that are due,
  funds that are not, and a sum of nonce and period that wraps. Where unbonding is
  not the question, period and bound are 0.
* `MAX_NODES_PER_OPERATION` 2 with three keys, `MAX_AFFECTED_USERS` 2 with amounts up
  to 3, so that a swap may visit three items: the arrays can be full and too small. `LossBound` 1: one lost callback.
* `FundsBound` 1 with amounts and fines of 1: an amount is in the contract, on its
  way or at the auction contract. Counting it twice or losing it shows already then.
* Four addresses and up to four users, up to three arguments of
  `updateUserAddress`: given twice, unknown, with an entry and without.
* StorageCodec: all combinations of zero and non-zero in every field, arrays of 3
  and 2 bytes for BLS keys and signatures. The lengths must differ, no more.

### Fairness

`progress` assumes that blocks are produced, that somebody continues an
interrupted operation with gas for at least one iteration
(`continueGlobalOperation` is open to everybody) and that every delegator with
something to withdraw calls `unBond` with enough gas. The last two are weak
fairness, written with the condition under which the call succeeds and changes the
state (`can_continue`, `can_unbond`). Rewards arrive finitely often within
the bound: an operation which new rewards interrupt before every step would restart
for ever, which an epoch's length rules out in practice. Switches are not operated
in that run, since an owner who pauses the contract for ever stops everything.

`nodes` assumes for every key that the protocol executes the call it is in and
delivers the answer, unless the callback fails; `PendingResolves` excepts
behaviours with such a failure, since only `forceNodeUnBondPeriod` repairs one of
its outcomes. `users` assumes that somebody calls `updateUserAddress` for an
address as long as its entry is missing: the endpoint is open to everybody.

## 4. The proofs

**LedgerProofs** proves `Spec => []IInv` for all payments, caps, rewards, fines,
genesis stakes and bounds. The properties are not inductive by themselves: Solvency
is kept only because EGLD is conserved (`Conservation`) and because what is lent
out is covered by stake that a running cap change will not release
(`AuctionCovered`); the cap invariant survives an interruption only because what is
left to swap adds up to the difference of the caps (`StakeReachesCap`), can be found
in the lists (`GlobalOpCanFinish`) and nobody else touches it; leaving bootstrap
mode needs the shape of that mode (`BootstrapShape`). `IInv` is their conjunction;
`ledger` checks it too. The lemmas follow the code:
`use_waiting_to_replace_unstaked` and one transaction of a cap change are treated
once, each endpoint cites them. From IInv follow `TypeCorrect` (no BigUint
underflow), `SolvencyHolds`, `DelegationCapHolds` (assuming
`~ ExactBootstrapCap`), `ActiveWithinCapHolds`, `NeverOverAndUnderstakedHolds` and
`GlobalOpCanFinishHolds`; and, one step per action, `LedgerRefinesLending`: a step
of Ledger is a step of Lending or leaves its two numbers alone.

**NodesProofs** proves `Spec => []NodesInv` for any set of keys, any number of
calls in flight and of lost callbacks. `CallsOwnTheirNodes` and
`NodeStateMatchesAuction` need each other and `CallsMatchAuction`: what a callback
writes is right because the keys of its call are still in the state that the call
left them in, at the auction contract too. `UnBondClockKeptHolds` is an action
property proved from it. `OrphansOnlyByLossHolds` bounds the nodes that no answer
will reach by the number of lost callbacks times the size of a call: a step makes
new orphans only if it loses a callback, and then those of one call.

**NodeFundsProofs** proves `FundsImplementNodes`: with their EGLD the calls take
only steps of Nodes, so that everything above holds for them;
`EgldTravelsWithItsCallHolds` follows from that and from an invariant of its own.
`NodeFundsRefinesLending` maps them to the two numbers of Lending. What is lent is what
the auction contract holds and what travels, a sum over all calls in flight; the
lemmas say how that sum changes when one call is sent, answered or dropped, and each
action is then a loan, a payment or no change of what is lent.

**UserDataProofs** proves `RegistryInvHolds` from both initial states and for any
number of users. The parts of the invariant are `IdsMatchAddressesHolds` and
`WaitingListReadableHolds`; `RegistrationIsFinalHolds` is an action property.
`UpdateCountsExactHolds` follows the loop of `updateUserAddress` argument by argument
(`OneMoreDone`): an entry is as it was, or was empty and now names the owner of one of
the ids seen so far, and the number of changed entries is the first counter; that an
id has one owner (`IdsMatchAddresses`) makes the order of the arguments irrelevant.

**FundBookProofs** says what every function of `FundBook` does to the items, for
any number of items. Its measure is `Total(fs, K)`, the balance of the items whose
owner and description are in a set K of *kinds*: the total of a type, of a user, of
what is due, are all such sums. A loop of the storage is followed once
(`SplitConvert`): whatever the gas, it takes from the kinds of its list exactly what
it adds to the kinds that its conversion leads to, at most the requested amount, and
no item disappears. Each swap, `increase_fund_balance`, the dust cleanup, `save` and
`liquidate_all_withdraw_only` are then instances. The inductions over items are
inductions over sets of numbers: the set of those n up to which a recursive function
has a property contains 0 and with n also n + 1 (`RangeInduction`), which needs no
operator as a parameter.

**DelegationProofs** proves `Spec => []BookInv` (`BookIsSound`): every item belongs
to a registered user, has a balance and no date in the future, the sum of all items
is within the deposits, and the stored global operation is one that its steps can
leave behind (`OpInv`: only one direction of swaps is left to do, nothing is left of
the steps already done). Beside the invariant each step is shown to be the step of
Ledger on the totals, and to move funds in one of six ways (`StepMovesFunds`): it
deposits, relabels without making anything older or due, pays what is due, sweeps
one of the two dust lists, or leaves the items alone. `PaidOnlyWhenDueHolds` is an
action property that follows by looking at these six ways in place of all endpoints.

**RewardProofs** proves `Spec => []ContractInv` (`ContractIsSound`): the book, the
invariant of Ledger on its totals, and `RewardInv`. That no reward is promised twice
is not inductive as it stands: the next computation could promise too much. The
strengthening is about what would be handed out if every user's rewards were
computed now (`Owing`): for each user the unclaimed rewards plus the share of all
that arrived since the user's checkpoint, at the present stakes, cap and fee, summed
over all users, with what was sent, is at most what arrived. The shares of all users
and the owner's fee never exceed one in total, because active stake stays within the
cap, and every division rounds down (`Within`). A swap may move stake because both
sides were computed first; a cap or fee change because all users are settled at one
checkpoint when the stakes or the fee change (`Settled`), the remainder included,
which goes to the owner; `Counting` says how far an interrupted computation has
come. Users who were not registered when rewards arrived have checkpoint 0 and no
stake (`Fresh`). From it follow `RewardsCoveredHolds`, `RewardsSettledHolds`,
`ContractSolvent`, `ContractKeepsCap`, `ContractRefinesLedger` (every transaction is
a step of Ledger on the totals, which brings all theorems about Ledger to the
contract) and, with the six ways in which funds move, the action properties
`StakeMovesHolds` and `WithdrawableHolds`. `ClaimableNeverLostHolds` follows each step
once more for a single user, the interruptions of a global operation included
(`NeverLost`). What is secured to a user is the claim or, from the first swap of an
operation on, what `compute_all_rewards` stored. A claim depends on the user's record,
the stakes, the cap and the fee, and those whose stake a transaction moves, and the
owner, are computed before (`Claimable`). A transaction of a cap or fee change either
has stored every claim as unclaimed rewards (`Promised`), which no later transaction of
the operation touches (`Pays`), or still computes and lowers none; shares grow with the
rewards that arrive. `ContractTypeOK` adds `CheckpointInv`:
between two commits no transaction shortens the book, and `save` keeps the order, so
that `follow` finds the item of the dust checkpoint again or says that it is gone.

**FundModuleProofs** proves `Spec => []FundInv` (`FundStorageInvariant`), for any number
of users, items and interruptions. `Good` says that every list links exactly its live
items in the order of their ids, that its head has its ends and its total, and
that the storage of an absent item is the default one; `Bounded`, that no date is in
the future and that all balances are within the deposits; `Fits`, that ids are within
the bound. In the middle of an endpoint none of the functions of `fund_module.rs` keeps
the lists consistent by itself: a loop unlinks an item that it goes on reading, adds
items behind the place where it stands, and writes the item back only afterwards.
Therefore each function is shown to be one of three relations between stores (an item
is erased, has another balance, or is added at the end of its lists) which say what
becomes of every link, and a loop is followed step by step as a walk (`Traversing`):
after every step the lists are consistent and the current id is 0 or in the list
walked, whatever was added or removed; a walk that would need an id beyond the bound
(`Overflown`) is followed to the end only to see that it is not committed.
`FundStorageTypes`, `FundListsConsistent` and `FundSpentItemsRemoved` follow.
`FundDryRunPredictsSwap` runs the dry run and the swap side by side (`InStep`): a
conversion leaves every item above the one where it stands as it was stored and adds
none to the waiting list, so both go on to the same item with the same amount left;
and the active total of a user has grown if and only if one of the items visited is
his, whether it was merged into his last item, split, or converted whole.
`FundUnBondPaysUnBondable` does the same for `unBond`. The view and the release walk
the deferred list together (`Releasing`): the view adds what the release converts, so
the totals of the two stores differ by what was added. After the first item released the
withdraw-only list ends with one of the user, the next ones are merged into it,
and at most one id is taken; the payment then always stands at the front of
what is left of the list (`Paying`), every step erases the item there, and ids grow, so
that the bound on the ids bounds its steps too.

The theorems of RewardProofs and FundModuleProofs assume `CheckedDust`, and `ContractKeepsCap` also
`~ ExactBootstrapCap`: without them the statements are false (findings 1, 2 and 3), and
the passing runs have the same restrictions. DelegationProofs needs neither.

Assumptions: `AmountAssumption`, `DelegationAssumption`, `U64Assumption`,
`NodesAssumption`, `FundsAssumption`, `FundModuleAssumption` and `UserDataAssumption`
(amounts and bounds
are natural numbers, fees are at most 100%, `NoAddress` is no address).

Only model-checked: of FundModule, `ListViewsForetell` and the refinement of
FundQueues, which compare the sequences that two walks build; the serialization, whose encodings are
built by recursion over data; and liveness, which like ENABLED is outside what the
installed provers handle.

## 5. What is not modelled

* Events, generated wasm and meta wrappers, and the frozen releases `v0_*`, which
  are kept for upgrade tests.
* Views that return one stored value. The list, stake, dust, unbond and rewards
  views are modelled.
* `unStakeTokens` forwards a call and has no state, payment or callback here.
* The auction mock is a test double with deliberate errors; the auction contract is
  modelled by all that its calls may answer and pay. The proxy has no logic.
* The fuzz targets only call the two serializations, which StorageCodec models.
* Pause and feature flags come from a library: only the switches that guard
  endpoints are there, marked external.
* The gas price of an iteration and the exact gas limits are abstracted to a number
  of iterations.
* The capacity of `AffectedUserIdVec` is a guard of FundModule; no property says
  that a swap of any size succeeds, because the code does not promise it.

## 6. Findings

1. `stale_dust`: a dust cleanup resumed after its item was removed from storage
   "deletes" the default item and zeroes the ends of the withdraw-only list,
   although the documentation says that it "will auto-reset if [...] the current
   item is no longer valid".
2. `shared_dust`: the two cleanups share one checkpoint. Resuming the other one
   walks the other list: active stake becomes withdraw-only without being replaced
   and the cap invariant breaks.
3. `bootstrap_cap`: ending bootstrap mode with a cap equal to the stake present
   leaves the old cap in storage; afterwards every `stake` fails. The rest of
   Ledger's properties survives (`ledger`, `ActiveWithinCapHolds`), but one: if, on top
   of that, a returned fine lies in the contract, the owner may ask for a cap that is
   lowered by more than there is active stake, and that operation cannot end.
   `GlobalOpCanFinish` excepts just that: a cap above the stake together with a
   returned fine. Neither of them alone does that.
4. `minimum_stake`: the check after `unStake` uses the contract's active stake in
   place of the user's, and is skipped when waiting funds cover the amount.

Read off the source, without a run of their own:

* `dustCleanupActive` turns dust into unstaked and then deferred funds, although
  `user_stake_dust_cleanup.rs:70` says that it goes "directly in `WithdrawOnly`
  state".
* `validateOwnerStakeShare` is documented as an invariant that "should never return
  error" (`user_stake_state.rs:129`) and is enforced by `stakeNodes` only.
* `unBondAllPossibleNodes` fails when more nodes are in the unbond period than its
  array holds, and does not look whether they are due (`node_activation.rs:328`).
  It marks the node and then fails, and the transaction is reverted with the mark:
  `unBondNodes` with fewer nodes remains as a way out.
* Rewards that arrive between two swaps of an interrupted change of cap are not
  computed before the new cap is set (`reset_checkpoint_endpoints.rs:103-156`). Until
  then `getClaimableRewards` divides them by the old cap and may show more than is paid
  in the end: with a fee of 0, all of a cap of 2 staked by one user and 2 arriving while
  the cap is raised to 3, it shows 2 and later 1. `ClaimableNeverLost` therefore counts,
  from the first swap on, only what was stored before it.
* A `u64` sum of nonce and unbond period that wraps makes a payment due at once
  (`fund_transf_module.rs:169`). The owner sets the period; the models wrap as the code
  does, and `PaidOnlyWhenDue` excuses such a payment.
* `setServiceFee`, documented as an operation of the owner, has no `#[only_owner]`;
  the models do not distinguish the caller of that endpoint.
* The fine of an `unJailNodes` call that fails stays in the contract and counts as
  EGLD that stake may be lent from (`node_activation.rs:484`).

## 7. Plan

Done: Lending, Ledger with its proofs; FundBook and Delegation with proofs of the
items, the rewards and the refinement of Ledger; FundQueues and FundModule with their
refinement, views and the proofs of the linked lists, of the dry run and of `unBond`; Nodes and NodeFunds with their
proofs and their refinement of Lending; UserData with its proofs; StorageCodec;
upgrades.

Next, in this order:

1. FundModule's refinement of FundQueues: the items in the order of their ids are the
   book, and each relation between stores an operation on it.
2. `ListViewsForetell`, from the same order.
3. StorageCodec: both encodings of a value give the same cells.
