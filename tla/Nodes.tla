------------------------------- MODULE Nodes --------------------------------
(***************************************************************************)
(* The validator nodes of the contract: registration (node_config.rs) and  *)
(* the asynchronous calls to the auction contract that stake, unstake and  *)
(* unbond them (node_activation.rs).  An endpoint marks its nodes pending  *)
(* and sends a call; the auction contract executes it later, in any order, *)
(* and its answer reaches the callback later still.  The EGLD that travels *)
(* with the calls is the subject of NodeFunds.                             *)
(***************************************************************************)
EXTENDS Integers, FiniteSets

CONSTANTS
    Keys,                       \* BLS keys
    MAX_NODES_PER_OPERATION,    \* capacity of NodeIndexArrayVec
    NonceBound,                 \* bound on the block nonce
    LossBound                   \* callbacks that may fail, out of gas

ASSUME NodesAssumption ==
    /\ IsFiniteSet(Keys)
    /\ MAX_NODES_PER_OPERATION \in Nat
    /\ NonceBound \in Nat
    /\ LossBound \in Nat

VARIABLES
    node_state,     \* state of each key, "Unknown" if it has no node_id
    calls,          \* the calls on their way, and their answers
    auction,        \* external: what the auction contract knows of a key
    global_op,      \* is_global_op_in_progress, see Delegation
    block_nonce,
    lost            \* failed callbacks so far

vars == <<node_state, calls, auction, global_op, block_nonce, lost>>

-----------------------------------------------------------------------------
(* NodeState; started is also the unbond_started of PendingUnBond.         *)
State(type) == [type |-> type, started |-> 0]
UnBondPeriod(n)  == [type |-> "UnBondPeriod", started |-> n]
PendingUnBond(n) == [type |-> "PendingUnBond", started |-> n]

PendingStateOf(call_kind) ==
    CASE call_kind = "stake"   -> "PendingActivation"
      [] call_kind = "unStake" -> "PendingDeactivation"
      [] call_kind = "unBond"  -> "PendingUnBond"

in_state(type) == { k \in Keys : node_state[k].type = type }

(* for &node_id in node_ids { set_node_state(node_id, ...) }               *)
set_node_states(keys, new(_)) ==
    node_state' = [k \in Keys |-> IF k \in keys THEN new(k) ELSE node_state[k]]

add_nodes(keys) ==
    /\ keys \subseteq in_state("Unknown") \cup in_state("Removed")
    /\ set_node_states(keys, LAMBDA k : State("Inactive"))
    /\ UNCHANGED <<calls, auction, global_op, block_nonce, lost>>

remove_nodes(keys) ==
    /\ keys \subseteq in_state("Inactive")
    /\ set_node_states(keys, LAMBDA k : State("Removed"))
    /\ UNCHANGED <<calls, auction, global_op, block_nonce, lost>>

(* Mutant of send_call: the array drops what it has no room for.           *)
send_call_truncated(kind, keys) ==
    /\ calls' = calls \cup
          {[kind |-> kind, answered |-> FALSE, failed |-> {},
            keys |-> IF Cardinality(keys) <= MAX_NODES_PER_OPERATION THEN keys
                     ELSE CHOOSE kept \in SUBSET keys :
                            Cardinality(kept) = MAX_NODES_PER_OPERATION]}
    /\ UNCHANGED <<auction, global_op, block_nonce, lost>>

(* NodeIndexArrayVec::push panics when full.                               *)
send_call(kind, keys) ==
    /\ Cardinality(keys) <= MAX_NODES_PER_OPERATION
    /\ calls' = calls \cup {[kind |-> kind, keys |-> keys, answered |-> FALSE,
                             failed |-> {}]}
    /\ UNCHANGED <<auction, global_op, block_nonce, lost>>

stake_nodes(keys) ==
    /\ ~ global_op
    /\ keys \subseteq in_state("Inactive")
    /\ set_node_states(keys, LAMBDA k : State("PendingActivation"))
    /\ send_call("stake", keys)

(* Mutant of unstake_nodes: the nodes are not marked pending.              *)
unstake_unmarked(keys) ==
    /\ ~ global_op
    /\ keys \subseteq in_state("Active")
    /\ UNCHANGED node_state
    /\ send_call("unStake", keys)

unstake_nodes(keys) ==
    /\ ~ global_op
    /\ keys \subseteq in_state("Active")
    /\ set_node_states(keys, LAMBDA k : State("PendingDeactivation"))
    /\ send_call("unStake", keys)

prepare_for_unbond(keys) ==
    set_node_states(keys, LAMBDA k : PendingUnBond(node_state[k].started))

unbond_specific_nodes(keys) ==
    /\ ~ global_op
    /\ keys \subseteq in_state("UnBondPeriod")
    /\ prepare_for_unbond(keys)
    /\ send_call("unBond", keys)

unbond_all_possible_nodes ==
    LET keys == in_state("UnBondPeriod")
    IN  /\ ~ global_op
        /\ keys # {}
        /\ prepare_for_unbond(keys)
        /\ send_call("unBond", keys)

-----------------------------------------------------------------------------
(* The callbacks.  A call that failed as a whole failed for all its keys.  *)
finish(call) == /\ calls' = calls \ {call}
                /\ UNCHANGED <<auction, global_op, block_nonce, lost>>

(* Mutants of the callbacks: node_status_args are ignored; nodes that were *)
(* not unstaked stay pending; the unbond period restarts.                  *)
stake_callback_all_ok(call) ==
    /\ call.kind = "stake"
    /\ set_node_states(call.keys, LAMBDA k : State("Active"))
    /\ finish(call)

unstake_callback_only_ok(call) ==
    /\ call.kind = "unStake"
    /\ set_node_states(call.keys \ call.failed,
                       LAMBDA k : UnBondPeriod(block_nonce))
    /\ finish(call)

unbond_callback_restarts(call) ==
    /\ call.kind = "unBond"
    /\ call.failed \subseteq in_state("PendingUnBond")
    /\ set_node_states(call.keys,
           LAMBDA k : IF k \in call.failed THEN UnBondPeriod(block_nonce)
                      ELSE State("Inactive"))
    /\ finish(call)

auction_stake_callback(call) ==
    /\ call.kind = "stake"
    /\ set_node_states(call.keys,
           LAMBDA k : IF k \in call.failed THEN State("Inactive")
                                           ELSE State("Active"))
    /\ finish(call)

auction_unstake_callback(call) ==
    /\ call.kind = "unStake"
    /\ set_node_states(call.keys,
           LAMBDA k : IF k \in call.failed THEN State("Active")
                                           ELSE UnBondPeriod(block_nonce))
    /\ finish(call)

auction_unbond_callback(call) ==
    /\ call.kind = "unBond"
    /\ call.failed \subseteq in_state("PendingUnBond")
    /\ set_node_states(call.keys,
           LAMBDA k : IF k \in call.failed
                      THEN UnBondPeriod(node_state[k].started)
                      ELSE State("Inactive"))
    /\ finish(call)

Callback(call) == /\ call.answered
                  /\ \/ auction_stake_callback(call)
                     \/ auction_unstake_callback(call)
                     \/ auction_unbond_callback(call)

(* A callback that runs out of gas changes nothing and is not repeated.    *)
CallbackFails(call) ==
    /\ call.answered
    /\ lost < LossBound
    /\ lost' = lost + 1
    /\ calls' = calls \ {call}
    /\ UNCHANGED <<node_state, auction, global_op, block_nonce>>

(* "Owner can retry a callback in case of callback failure.  Warning:      *)
(* misuse can lead to state inconsistency": the endpoint only requires     *)
(* registered nodes; the owner calls it for nodes that the auction         *)
(* contract did unstake and whose callback failed.                         *)
force_node_unbond_period(keys) ==
    /\ keys \cap in_state("Unknown") = {}
    /\ set_node_states(keys, LAMBDA k : UnBondPeriod(0))
    /\ UNCHANGED <<calls, auction, global_op, block_nonce, lost>>

owner_may_force(keys) ==
    /\ keys \subseteq in_state("PendingDeactivation")
    /\ \A k \in keys : auction[k] = "unstaked"
    /\ \A call \in calls : call.keys \cap keys = {}

-----------------------------------------------------------------------------
(* The auction contract, external: it accepts a call for those keys whose  *)
(* state there allows it, and may refuse any of them.                      *)
Before(call_kind) ==
    CASE call_kind = "stake"   -> "none"
      [] call_kind = "unStake" -> "staked"
      [] call_kind = "unBond"  -> "unstaked"

After(call_kind) ==
    CASE call_kind = "stake"   -> "staked"
      [] call_kind = "unStake" -> "unstaked"
      [] call_kind = "unBond"  -> "none"

AuctionExecutes(call, failed) ==
    /\ ~ call.answered
    /\ \A k \in call.keys \ failed : auction[k] = Before(call.kind)
    /\ auction' = [k \in Keys |-> IF k \in call.keys \ failed
                                  THEN After(call.kind) ELSE auction[k]]
    /\ calls' = (calls \ {call})
                \cup {[call EXCEPT !.answered = TRUE, !.failed = failed]}
    /\ UNCHANGED <<node_state, global_op, block_nonce, lost>>

GlobalOpBeginsOrEnds ==
    /\ global_op' = ~ global_op
    /\ UNCHANGED <<node_state, calls, auction, block_nonce, lost>>

NextBlock ==
    /\ block_nonce < NonceBound
    /\ block_nonce' = block_nonce + 1
    /\ UNCHANGED <<node_state, calls, auction, global_op, lost>>

Init ==
    /\ node_state = [k \in Keys |-> State("Unknown")]
    /\ calls = {}
    /\ auction = [k \in Keys |-> "none"]
    /\ global_op = FALSE
    /\ block_nonce = 0
    /\ lost = 0

OwnerNext ==
    \/ \E keys \in (SUBSET Keys) \ {{}} :
          \/ add_nodes(keys)
          \/ remove_nodes(keys)
          \/ stake_nodes(keys)
          \/ unstake_nodes(keys)
          \/ unbond_specific_nodes(keys)
          \/ owner_may_force(keys) /\ force_node_unbond_period(keys)
    \/ unbond_all_possible_nodes

CallNext == \E call \in calls :
                \/ \E failed \in SUBSET call.keys :
                      AuctionExecutes(call, failed)
                \/ Callback(call)
                \/ CallbackFails(call)

Next == OwnerNext \/ CallNext \/ GlobalOpBeginsOrEnds \/ NextBlock

Spec == Init /\ [][Next]_vars

-----------------------------------------------------------------------------
NodeStates ==
    [type : {"Unknown", "Inactive", "PendingActivation", "Active",
             "PendingDeactivation", "UnBondPeriod", "PendingUnBond",
             "Removed"},
     started : 0 .. NonceBound]

TypeOK ==
    /\ node_state \in [Keys -> NodeStates]
    /\ calls \subseteq [kind : {"stake", "unStake", "unBond"},
                        keys : SUBSET Keys, answered : BOOLEAN,
                        failed : SUBSET Keys]
    /\ auction \in [Keys -> {"none", "staked", "unstaked"}]
    /\ global_op \in BOOLEAN
    /\ block_nonce \in 0 .. NonceBound
    /\ lost \in 0 .. LossBound

pending(k) == node_state[k].type \in {"PendingActivation",
                                      "PendingDeactivation", "PendingUnBond"}

(* A key travels in at most one call, and is pending for that call until   *)
(* its callback: no endpoint acts on a node whose fate is undecided, and   *)
(* auction_unbond_callback_fail never meets "node not pending unbond".     *)
CallsOwnTheirNodes ==
    \A call \in calls :
        /\ \A k \in call.keys :
              node_state[k].type = PendingStateOf(call.kind)
        /\ \A other \in calls \ {call} : call.keys \cap other.keys = {}

(* A node that is not pending has the state that the auction contract      *)
(* gives it ("Only finalize activation if we got confirmation from the     *)
(* auction contract"), whatever failed, was lost or was forced.            *)
NodeStateMatchesAuction ==
    \A k \in Keys :
        /\ node_state[k].type = "Active" => auction[k] = "staked"
        /\ node_state[k].type = "UnBondPeriod" => auction[k] = "unstaked"
        /\ node_state[k].type \in {"Unknown", "Inactive", "Removed"} =>
                auction[k] = "none"

(* What the auction contract knows of a key that travels in a call: still  *)
(* the state the call starts from, or, once the call was executed, the one *)
(* it leads to for the keys that did not fail.                             *)
CallsMatchAuction ==
    \A call \in calls :
        /\ call.failed \subseteq call.keys
        /\ \A k \in call.keys :
              auction[k] = IF call.answered /\ k \notin call.failed
                           THEN After(call.kind) ELSE Before(call.kind)

(* The inductive invariant: what an answer will find when it arrives is    *)
(* what makes the state that it sets the right one.                        *)
NodesInv == /\ TypeOK
            /\ CallsOwnTheirNodes
            /\ NodeStateMatchesAuction
            /\ CallsMatchAuction

(* Pending nodes that no answer will ever reach.                           *)
orphans == { k \in Keys : pending(k) /\ \A call \in calls : k \notin call.keys }

(* Only the loss of a callback leaves nodes pending for ever, and a lost   *)
(* callback never strands more nodes than one call may name: too many      *)
(* nodes in one operation, also when unBondAllPossibleNodes gathers them,  *)
(* abort it and leave every node as it was.                                *)
OrphansOnlyByLoss == Cardinality(orphans) <= lost * MAX_NODES_PER_OPERATION

(* A failed unBond returns a node to the unbond period it was in: the      *)
(* period only restarts by a new unStake.                                  *)
UnBondClockKept ==
    [][\A k \in Keys :
          /\ node_state[k].type \in {"UnBondPeriod", "PendingUnBond"}
          /\ node_state'[k].type \in {"UnBondPeriod", "PendingUnBond"}
          => node_state'[k].started = node_state[k].started]_vars

(* Every node leaves its pending state, in whatever order calls and their  *)
(* answers arrive, unless a callback was lost: no node can be left pending *)
(* in another way.                                                         *)
PendingResolves == \A k \in Keys : pending(k) ~> (~ pending(k) \/ lost > 0)
=============================================================================
