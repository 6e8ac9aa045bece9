----------------------------- MODULE NodesProofs ----------------------------
(***************************************************************************)
(* Proofs about Nodes.tla, for any set of keys and any bounds.             *)
(***************************************************************************)
EXTENDS Nodes, FiniteSetTheorems, TLAPS

(* The contract starts without nodes and calls.                            *)
LEMMA NodesInit == Init => NodesInv
<1> SUFFICES ASSUME Init PROVE NodesInv
  OBVIOUS
<1>1. State("Unknown") \in NodeStates
  BY NodesAssumption DEF State, NodeStates
<1>2. TypeOK
  <2>1. block_nonce \in 0 .. NonceBound /\ lost \in 0 .. LossBound
    BY NodesAssumption DEF Init
  <2>2. node_state \in [Keys -> NodeStates]
    BY <1>1 DEF Init
  <2>3. auction \in [Keys -> {"none", "staked", "unstaked"}]
    BY DEF Init
  <2>4. QED
    BY <2>1, <2>2, <2>3, Zenon DEF Init, TypeOK
<1>3. NodeStateMatchesAuction
  BY DEF Init, NodeStateMatchesAuction, State
<1>4. CallsOwnTheirNodes /\ CallsMatchAuction
  BY DEF Init, CallsOwnTheirNodes, CallsMatchAuction
<1>5. QED
  BY <1>2, <1>3, <1>4 DEF NodesInv

(* The records that set_node_states writes are node states.                *)
LEMMA WrittenStates ==
    ASSUME block_nonce \in 0 .. NonceBound
    PROVE  /\ \A type \in {"Inactive", "PendingActivation", "Active",
                           "PendingDeactivation", "Removed"} :
                 State(type) \in NodeStates
           /\ \A n \in 0 .. NonceBound : UnBondPeriod(n) \in NodeStates
           /\ \A n \in 0 .. NonceBound : PendingUnBond(n) \in NodeStates
  BY NodesAssumption DEF State, UnBondPeriod, PendingUnBond, NodeStates

(* Registration only touches keys that no call carries.                    *)
LEMMA RegistrationKeepsInv ==
    ASSUME NodesInv, NEW keys \in SUBSET Keys,
           add_nodes(keys) \/ remove_nodes(keys)
    PROVE  NodesInv'
<1> USE DEF NodesInv
<1>1. PICK s \in {"Inactive", "Removed"} :
          /\ node_state' = [k \in Keys |-> IF k \in keys THEN State(s)
                                           ELSE node_state[k]]
          /\ \A k \in keys : node_state[k].type
                               \in {"Unknown", "Inactive", "Removed"}
          /\ UNCHANGED <<calls, auction, global_op, block_nonce, lost>>
  BY DEF add_nodes, remove_nodes, set_node_states, in_state
<1>2. TypeOK'
  BY <1>1, WrittenStates DEF TypeOK
<1>3. NodeStateMatchesAuction'
  BY <1>1 DEF NodeStateMatchesAuction, State
<1>4. \A call \in calls : call.keys \cap keys = {}
  BY <1>1 DEF CallsOwnTheirNodes, PendingStateOf, TypeOK
<1>5. CallsOwnTheirNodes'
  BY <1>1, <1>4 DEF CallsOwnTheirNodes, TypeOK
<1>6. CallsMatchAuction'
  BY <1>1 DEF CallsMatchAuction
<1>7. QED
  BY <1>2, <1>3, <1>5, <1>6

(* What sending a call does to the invariant, for the three endpoints that *)
(* do it: the keys come from a state that no call carries and that the     *)
(* call may start from.                                                    *)
LEMMA SendKeepsInv ==
    ASSUME NodesInv, NEW keys \in SUBSET Keys,
           NEW kind \in {"stake", "unStake", "unBond"},
           NEW source \in {"Inactive", "Active", "UnBondPeriod"},
           \A k \in keys : node_state[k].type = source
                           /\ auction[k] = Before(kind),
           node_state' \in [Keys -> NodeStates],
           \A k \in keys : node_state'[k].type = PendingStateOf(kind),
           \A k \in Keys \ keys : node_state'[k] = node_state[k],
           send_call(kind, keys)
    PROVE  NodesInv'
<1> USE DEF NodesInv
<1> DEFINE new == [kind |-> kind, keys |-> keys, answered |-> FALSE,
                   failed |-> {}]
<1>1. /\ calls' = calls \cup {new}
      /\ UNCHANGED <<auction, global_op, block_nonce, lost>>
  BY DEF send_call
<1>2. TypeOK'
  <2>1. new \in [kind : {"stake", "unStake", "unBond"}, keys : SUBSET Keys,
                 answered : BOOLEAN, failed : SUBSET Keys]
    OBVIOUS
  <2> HIDE DEF new
  <2>2. QED
    BY <1>1, <2>1, Zenon DEF TypeOK
<1>3. \A call \in calls : call.keys \cap keys = {} /\ call.keys \subseteq Keys
  BY DEF CallsOwnTheirNodes, PendingStateOf, TypeOK
<1>4. CallsOwnTheirNodes'
  <2>1. \A call \in calls : \A k \in call.keys :
            node_state'[k].type = PendingStateOf(call.kind)
    BY <1>3 DEF CallsOwnTheirNodes
  <2>2. \A call, other \in calls :
            call # other => call.keys \cap other.keys = {}
    BY DEF CallsOwnTheirNodes
  <2>3. new.kind = kind /\ new.keys = keys
    OBVIOUS
  <2> HIDE DEF new
  <2>4. QED
    BY <1>1, <1>3, <2>1, <2>2, <2>3 DEF CallsOwnTheirNodes
<1>5. NodeStateMatchesAuction'
  BY <1>1 DEF NodeStateMatchesAuction, PendingStateOf
<1>6. CallsMatchAuction'
  BY <1>1 DEF CallsMatchAuction
<1>7. QED
  BY <1>2, <1>4, <1>5, <1>6

(* The three endpoints meet what SendKeepsInv asks for.                    *)
LEMMA EndpointKeepsInv ==
    ASSUME NodesInv, NEW keys \in SUBSET Keys,
           \/ stake_nodes(keys)
           \/ unstake_nodes(keys)
           \/ unbond_specific_nodes(keys)
    PROVE  NodesInv'
<1> USE DEF NodesInv
<1>1. CASE stake_nodes(keys)
  <2>1. /\ node_state' = [k \in Keys |-> IF k \in keys
                              THEN State("PendingActivation")
                              ELSE node_state[k]]
        /\ \A k \in keys : node_state[k].type = "Inactive"
    BY <1>1 DEF stake_nodes, set_node_states, in_state
  <2>2. node_state' \in [Keys -> NodeStates]
    BY <2>1, WrittenStates DEF TypeOK
  <2>3. \A k \in keys : auction[k] = Before("stake")
    BY <2>1 DEF NodeStateMatchesAuction, Before
  <2>4. \A k \in keys : node_state'[k].type = PendingStateOf("stake")
    BY <2>1 DEF State, PendingStateOf
  <2>5. QED
    BY <1>1, <2>1, <2>2, <2>3, <2>4, SendKeepsInv DEF stake_nodes
<1>2. CASE unstake_nodes(keys)
  <2>1. /\ node_state' = [k \in Keys |-> IF k \in keys
                              THEN State("PendingDeactivation")
                              ELSE node_state[k]]
        /\ \A k \in keys : node_state[k].type = "Active"
    BY <1>2 DEF unstake_nodes, set_node_states, in_state
  <2>2. node_state' \in [Keys -> NodeStates]
    BY <2>1, WrittenStates DEF TypeOK
  <2>3. \A k \in keys : auction[k] = Before("unStake")
    BY <2>1 DEF NodeStateMatchesAuction, Before
  <2>4. \A k \in keys : node_state'[k].type = PendingStateOf("unStake")
    BY <2>1 DEF State, PendingStateOf
  <2>5. QED
    BY <1>2, <2>1, <2>2, <2>3, <2>4, SendKeepsInv DEF unstake_nodes
<1>3. CASE unbond_specific_nodes(keys)
  <2>1. /\ node_state' = [k \in Keys |-> IF k \in keys
                              THEN PendingUnBond(node_state[k].started)
                              ELSE node_state[k]]
        /\ \A k \in keys : node_state[k].type = "UnBondPeriod"
    BY <1>3 DEF unbond_specific_nodes, prepare_for_unbond, set_node_states,
                in_state
  <2>2. \A k \in Keys : node_state[k].started \in 0 .. NonceBound
    BY DEF TypeOK, NodeStates
  <2>3. node_state' \in [Keys -> NodeStates]
    BY <2>1, <2>2, WrittenStates DEF TypeOK
  <2>4. \A k \in keys : auction[k] = Before("unBond")
    BY <2>1 DEF NodeStateMatchesAuction, Before
  <2>5. \A k \in keys : node_state'[k].type = PendingStateOf("unBond")
    BY <2>1 DEF PendingUnBond, PendingStateOf
  <2>6. QED
    BY <1>3, <2>1, <2>3, <2>4, <2>5, SendKeepsInv DEF unbond_specific_nodes
<1>4. QED
  BY <1>1, <1>2, <1>3

(* A callback gives its nodes the state in which the auction contract has  *)
(* them, and retires its call.                                             *)
LEMMA FinishKeepsInv ==
    ASSUME NodesInv, NEW call \in calls,
           node_state' \in [Keys -> NodeStates],
           \A k \in Keys \ call.keys : node_state'[k] = node_state[k],
           NEW good \in {"Active", "UnBondPeriod", "Inactive"},
           NEW bad \in {"Active", "UnBondPeriod", "Inactive"},
           \A k \in call.keys : node_state'[k].type =
                                    IF k \in call.failed THEN bad ELSE good,
           \/ call.kind = "stake" /\ good = "Active" /\ bad = "Inactive"
           \/ call.kind = "unStake" /\ good = "UnBondPeriod" /\ bad = "Active"
           \/ call.kind = "unBond" /\ good = "Inactive" /\ bad = "UnBondPeriod",
           call.answered,
           finish(call)
    PROVE  NodesInv'
<1> USE DEF NodesInv
<1>1. /\ calls' = calls \ {call}
      /\ UNCHANGED <<auction, global_op, block_nonce, lost>>
  BY DEF finish
<1>2. TypeOK'
  BY <1>1, Zenon DEF TypeOK
<1>3. \A other \in calls' : other.keys \subseteq Keys
                            /\ other.keys \cap call.keys = {}
  BY <1>1 DEF CallsOwnTheirNodes, TypeOK
<1>4. CallsOwnTheirNodes'
  BY <1>1, <1>3 DEF CallsOwnTheirNodes
<1>5. NodeStateMatchesAuction'
  <2>1. \A k \in call.keys :
            auction[k] = IF k \in call.failed THEN Before(call.kind)
                                              ELSE After(call.kind)
    BY DEF CallsMatchAuction
  <2>2. \A k \in call.keys :
            /\ node_state'[k].type = "Active" => auction[k] = "staked"
            /\ node_state'[k].type = "UnBondPeriod" => auction[k] = "unstaked"
            /\ node_state'[k].type = "Inactive" => auction[k] = "none"
            /\ node_state'[k].type \in {"Active", "UnBondPeriod", "Inactive"}
    BY <2>1 DEF Before, After
  <2>3. QED
    BY <1>1, <2>2 DEF NodeStateMatchesAuction
<1>6. CallsMatchAuction'
  BY <1>1 DEF CallsMatchAuction
<1>7. QED
  BY <1>2, <1>4, <1>5, <1>6

(* The three callbacks meet what FinishKeepsInv asks for.                  *)
LEMMA CallbackKeepsInv ==
    ASSUME NodesInv, NEW call \in calls, Callback(call)
    PROVE  NodesInv'
<1> USE DEF NodesInv
<1>1. block_nonce \in 0 .. NonceBound
  BY DEF TypeOK
<1>2. \A k \in Keys : node_state[k].started \in 0 .. NonceBound
  BY DEF TypeOK, NodeStates
<1>3. call.answered /\ call.keys \subseteq Keys
  BY DEF Callback, TypeOK
<1>4. CASE auction_stake_callback(call)
  <2>1. node_state' = [k \in Keys |-> IF k \in call.keys
                          THEN IF k \in call.failed THEN State("Inactive")
                               ELSE State("Active")
                          ELSE node_state[k]]
    BY <1>4 DEF auction_stake_callback, set_node_states
  <2>2. node_state' \in [Keys -> NodeStates]
    BY <2>1, <1>1, WrittenStates DEF TypeOK
  <2>3. \A k \in call.keys : node_state'[k].type =
            IF k \in call.failed THEN "Inactive" ELSE "Active"
    BY <1>3, <2>1 DEF State
  <2>4. QED
    BY <1>3, <1>4, <2>1, <2>2, <2>3, FinishKeepsInv DEF auction_stake_callback
<1>5. CASE auction_unstake_callback(call)
  <2>1. node_state' = [k \in Keys |-> IF k \in call.keys
                          THEN IF k \in call.failed THEN State("Active")
                               ELSE UnBondPeriod(block_nonce)
                          ELSE node_state[k]]
    BY <1>5 DEF auction_unstake_callback, set_node_states
  <2>2. node_state' \in [Keys -> NodeStates]
    BY <2>1, <1>1, WrittenStates DEF TypeOK
  <2>3. \A k \in call.keys : node_state'[k].type =
            IF k \in call.failed THEN "Active" ELSE "UnBondPeriod"
    BY <1>3, <2>1 DEF State, UnBondPeriod
  <2>4. QED
    BY <1>3, <1>5, <2>1, <2>2, <2>3, FinishKeepsInv
    DEF auction_unstake_callback
<1>6. CASE auction_unbond_callback(call)
  <2>1. node_state' = [k \in Keys |-> IF k \in call.keys
                          THEN IF k \in call.failed
                               THEN UnBondPeriod(node_state[k].started)
                               ELSE State("Inactive")
                          ELSE node_state[k]]
    BY <1>6 DEF auction_unbond_callback, set_node_states
  <2>2. node_state' \in [Keys -> NodeStates]
    BY <2>1, <1>1, <1>2, WrittenStates DEF TypeOK
  <2>3. \A k \in call.keys : node_state'[k].type =
            IF k \in call.failed THEN "UnBondPeriod" ELSE "Inactive"
    BY <1>3, <2>1 DEF State, UnBondPeriod
  <2>4. QED
    BY <1>3, <1>6, <2>1, <2>2, <2>3, FinishKeepsInv
    DEF auction_unbond_callback
<1>7. QED
  BY <1>4, <1>5, <1>6 DEF Callback

(* The auction contract moves the keys of one call, which no other call    *)
(* carries and which are all pending.                                      *)
LEMMA AuctionKeepsInv ==
    ASSUME NodesInv, NEW call \in calls, NEW failed \in SUBSET call.keys,
           AuctionExecutes(call, failed)
    PROVE  NodesInv'
<1> USE DEF NodesInv
<1> DEFINE answer == [call EXCEPT !.answered = TRUE, !.failed = failed]
<1>1. /\ calls' = (calls \ {call}) \cup {answer}
      /\ auction' = [k \in Keys |-> IF k \in call.keys \ failed
                                    THEN After(call.kind) ELSE auction[k]]
      /\ UNCHANGED <<node_state, global_op, block_nonce, lost>>
  BY DEF AuctionExecutes
<1>2. /\ call.kind \in {"stake", "unStake", "unBond"}
      /\ call.keys \subseteq Keys
      /\ ~ call.answered
  BY DEF TypeOK, AuctionExecutes
<1>3. /\ answer.kind = call.kind
      /\ answer.keys = call.keys
      /\ answer.failed = failed
      /\ answer.answered
      /\ answer \in [kind : {"stake", "unStake", "unBond"},
                     keys : SUBSET Keys, answered : BOOLEAN,
                     failed : SUBSET Keys]
  BY <1>2 DEF TypeOK
<1> HIDE DEF answer
<1>4. After(call.kind) \in {"none", "staked", "unstaked"}
  BY <1>2 DEF After
<1>5. TypeOK'
  <2>1. auction' \in [Keys -> {"none", "staked", "unstaked"}]
    BY <1>1, <1>4 DEF TypeOK
  <2>2. QED
    BY <1>1, <1>3, <2>1, Zenon DEF TypeOK
<1>6. \A other \in calls \ {call} : other.keys \cap call.keys = {}
                                    /\ other.keys \subseteq Keys
  BY DEF CallsOwnTheirNodes, TypeOK
<1>7. CallsOwnTheirNodes'
  BY <1>1, <1>3, <1>6 DEF CallsOwnTheirNodes
<1>8. \A k \in call.keys : node_state[k].type = PendingStateOf(call.kind)
  BY DEF CallsOwnTheirNodes
<1>9. NodeStateMatchesAuction'
  BY <1>1, <1>2, <1>8 DEF NodeStateMatchesAuction, PendingStateOf
<1>10. \A k \in call.keys : auction[k] = Before(call.kind)
  BY <1>2 DEF CallsMatchAuction
<1>11. CallsMatchAuction'
  <2>1. /\ answer.failed \subseteq answer.keys
        /\ \A k \in answer.keys :
              auction'[k] = IF answer.answered /\ k \notin answer.failed
                            THEN After(answer.kind) ELSE Before(answer.kind)
    BY <1>1, <1>2, <1>3, <1>10
  <2>2. \A other \in calls \ {call} :
            /\ other.failed \subseteq other.keys
            /\ \A k \in other.keys :
                  auction'[k] = IF other.answered /\ k \notin other.failed
                                THEN After(other.kind) ELSE Before(other.kind)
    BY <1>1, <1>6 DEF CallsMatchAuction
  <2>3. QED
    BY <1>1, <2>1, <2>2 DEF CallsMatchAuction
<1>12. QED
  BY <1>5, <1>7, <1>9, <1>11

(* Forcing the unbond period is safe for nodes that the auction contract   *)
(* unstaked and that no call carries.                                      *)
LEMMA ForceKeepsInv ==
    ASSUME NodesInv, NEW keys \in SUBSET Keys,
           owner_may_force(keys), force_node_unbond_period(keys)
    PROVE  NodesInv'
<1> USE DEF NodesInv
<1>1. /\ node_state' = [k \in Keys |-> IF k \in keys THEN UnBondPeriod(0)
                                       ELSE node_state[k]]
      /\ \A k \in keys : auction[k] = "unstaked"
      /\ \A call \in calls : call.keys \cap keys = {}
      /\ UNCHANGED <<calls, auction, global_op, block_nonce, lost>>
  BY DEF owner_may_force, force_node_unbond_period, set_node_states
<1>2. node_state' \in [Keys -> NodeStates]
  BY <1>1, NodesAssumption, WrittenStates DEF TypeOK
<1>3. TypeOK'
  BY <1>1, <1>2, Zenon DEF TypeOK
<1>4. NodeStateMatchesAuction'
  BY <1>1 DEF NodeStateMatchesAuction, UnBondPeriod
<1>5. CallsOwnTheirNodes'
  BY <1>1 DEF CallsOwnTheirNodes, TypeOK
<1>6. CallsMatchAuction'
  BY <1>1 DEF CallsMatchAuction
<1>7. QED
  BY <1>3, <1>4, <1>5, <1>6

(* A lost callback, a block and the start or end of a global operation.    *)
LEMMA EnvironmentKeepsInv ==
    ASSUME NodesInv,
           \/ \E call \in calls : CallbackFails(call)
           \/ GlobalOpBeginsOrEnds
           \/ NextBlock
           \/ UNCHANGED vars
    PROVE  NodesInv'
<1> USE DEF NodesInv
<1>1. calls' \subseteq calls /\ UNCHANGED <<node_state, auction>>
  BY DEF CallbackFails, GlobalOpBeginsOrEnds, NextBlock, vars
<1>2. block_nonce' \in 0 .. NonceBound /\ lost' \in 0 .. LossBound
  BY NodesAssumption
  DEF TypeOK, CallbackFails, GlobalOpBeginsOrEnds, NextBlock, vars
<1>3. global_op' \in BOOLEAN
  BY Zenon DEF TypeOK, CallbackFails, GlobalOpBeginsOrEnds, NextBlock, vars
<1>4. TypeOK'
  BY <1>1, <1>2, <1>3, Zenon DEF TypeOK
<1>5. NodeStateMatchesAuction'
  BY <1>1 DEF NodeStateMatchesAuction
<1>6. CallsOwnTheirNodes'
  BY <1>1 DEF CallsOwnTheirNodes
<1>7. CallsMatchAuction'
  BY <1>1 DEF CallsMatchAuction
<1>8. QED
  BY <1>4, <1>5, <1>6, <1>7

-----------------------------------------------------------------------------
(* The invariant of the node registry holds for any number of nodes, of    *)
(* calls in flight and of lost callbacks.                                  *)
THEOREM NodesInvHolds == Spec => []NodesInv
<1>1. Init => NodesInv
  BY NodesInit
<1>2. NodesInv /\ [Next]_vars => NodesInv'
  <2> SUFFICES ASSUME NodesInv, [Next]_vars PROVE NodesInv'
    OBVIOUS
  <2>1. CASE OwnerNext
    <3>1. CASE unbond_all_possible_nodes
      BY <3>1, EndpointKeepsInv
      DEF unbond_all_possible_nodes, unbond_specific_nodes, in_state
    <3>2. CASE \E keys \in (SUBSET Keys) \ {{}} :
                  \/ add_nodes(keys)
                  \/ remove_nodes(keys)
                  \/ stake_nodes(keys)
                  \/ unstake_nodes(keys)
                  \/ unbond_specific_nodes(keys)
                  \/ owner_may_force(keys) /\ force_node_unbond_period(keys)
      BY <3>2, RegistrationKeepsInv, EndpointKeepsInv, ForceKeepsInv
    <3>3. QED
      BY <2>1, <3>1, <3>2 DEF OwnerNext
  <2>2. CASE CallNext
    BY <2>2, AuctionKeepsInv, CallbackKeepsInv, EnvironmentKeepsInv
    DEF CallNext
  <2>3. CASE GlobalOpBeginsOrEnds \/ NextBlock \/ UNCHANGED vars
    BY <2>3, EnvironmentKeepsInv
  <2>4. QED
    BY <2>1, <2>2, <2>3 DEF Next
<1>3. QED
  BY <1>1, <1>2, PTL DEF Spec

(* No endpoint acts on a node whose fate is undecided: every key in a call *)
(* is pending for that call alone, so auction_unbond_callback_fail never   *)
(* panics.                                                                 *)
THEOREM CallsOwnTheirNodesHolds == Spec => []CallsOwnTheirNodes
<1>1. NodesInv => CallsOwnTheirNodes
  BY DEF NodesInv
<1>2. QED
  BY NodesInvHolds, <1>1, PTL

(* Outside its pending states a node has the state that the auction        *)
(* contract gives it, whatever fails, is lost or is properly forced.       *)
THEOREM NodeStateMatchesAuctionHolds == Spec => []NodeStateMatchesAuction
<1>1. NodesInv => NodeStateMatchesAuction
  BY DEF NodesInv
<1>2. QED
  BY NodesInvHolds, <1>1, PTL

(* A node in its unbond period keeps the nonce at which it started through *)
(* any number of failed attempts to unbond it: only the callbacks of calls *)
(* that own it write its state.                                            *)
THEOREM UnBondClockKeptHolds == Spec => UnBondClockKept
<1> DEFINE Unbonding == {"UnBondPeriod", "PendingUnBond"}
           Kept == \A k \in Keys :
                       /\ node_state[k].type \in Unbonding
                       /\ node_state'[k].type \in Unbonding
                       => node_state'[k].started = node_state[k].started
<1>1. NodesInv /\ [Next]_vars => Kept
  <2> SUFFICES ASSUME NodesInv, [Next]_vars PROVE Kept
    OBVIOUS
  <2>1. CASE UNCHANGED node_state
    BY <2>1
  <2>2. CASE \E keys \in SUBSET Keys : add_nodes(keys) \/ remove_nodes(keys)
                                       \/ stake_nodes(keys)
                                       \/ unstake_nodes(keys)
    BY <2>2 DEF add_nodes, remove_nodes, stake_nodes, unstake_nodes,
                set_node_states, State
  <2>3. CASE \E keys \in SUBSET Keys : prepare_for_unbond(keys)
    BY <2>3 DEF prepare_for_unbond, set_node_states, PendingUnBond
  <2>4. CASE \E keys \in SUBSET Keys : /\ owner_may_force(keys)
                                       /\ force_node_unbond_period(keys)
    BY <2>4 DEF owner_may_force, force_node_unbond_period, set_node_states, in_state
  <2>5. CASE \E call \in calls : Callback(call)
    <3>1. PICK call \in calls : Callback(call)
      BY <2>5
    <3>2. CASE auction_stake_callback(call)
      BY <3>2 DEF auction_stake_callback, set_node_states, State
    <3>3. CASE auction_unstake_callback(call)
      <4>1. \A k \in call.keys : node_state[k].type = "PendingDeactivation"
        BY <3>3 DEF auction_unstake_callback, NodesInv, CallsOwnTheirNodes,
                    PendingStateOf
      <4>2. \A k \in Keys \ call.keys : node_state'[k] = node_state[k]
        BY <3>3 DEF auction_unstake_callback, set_node_states
      <4>3. QED
        BY <4>1, <4>2
    <3>4. CASE auction_unbond_callback(call)
      BY <3>4 DEF auction_unbond_callback, set_node_states, State,
                  UnBondPeriod
    <3>5. QED
      BY <3>1, <3>2, <3>3, <3>4 DEF Callback
  <2>6. \/ UNCHANGED node_state
        \/ \E keys \in SUBSET Keys : add_nodes(keys) \/ remove_nodes(keys)
                                     \/ stake_nodes(keys)
                                     \/ unstake_nodes(keys)
        \/ \E keys \in SUBSET Keys : prepare_for_unbond(keys)
        \/ \E keys \in SUBSET Keys : /\ owner_may_force(keys)
                                     /\ force_node_unbond_period(keys)
        \/ \E call \in calls : Callback(call)
    BY DEF Next, OwnerNext, CallNext, unbond_specific_nodes,
           unbond_all_possible_nodes, in_state, AuctionExecutes,
           CallbackFails, GlobalOpBeginsOrEnds, NextBlock, vars
  <2>7. QED
    BY <2>1, <2>2, <2>3, <2>4, <2>5, <2>6
<1>2. QED
  BY NodesInvHolds, <1>1, PTL DEF Spec, UnBondClockKept
-----------------------------------------------------------------------------
(* A call names at most MAX_NODES_PER_OPERATION nodes.                     *)
CallsWithinLimit ==
    \A call \in calls : Cardinality(call.keys) <= MAX_NODES_PER_OPERATION

(* Calls are sent within the limit and keep their keys.                    *)
LEMMA LimitKept ==
    ASSUME CallsWithinLimit, [Next]_vars PROVE CallsWithinLimit'
<1>1. CASE \E kind \in {"stake", "unStake", "unBond"}, keys \in SUBSET Keys :
              send_call(kind, keys)
  BY <1>1 DEF CallsWithinLimit, send_call
<1>2. CASE calls' \subseteq calls
  BY <1>2 DEF CallsWithinLimit
<1>3. CASE \E call \in calls : \E failed \in SUBSET call.keys :
              AuctionExecutes(call, failed)
  <2>0. PICK call \in calls :
            \E failed \in SUBSET call.keys : AuctionExecutes(call, failed)
    BY <1>3
  <2>1. PICK failed \in SUBSET call.keys : AuctionExecutes(call, failed)
    BY <2>0
  <2> DEFINE answer == [call EXCEPT !.answered = TRUE, !.failed = failed]
  <2>2. calls' = (calls \ {call}) \cup {answer}
    BY <2>1 DEF AuctionExecutes
  <2>3. Cardinality(answer.keys) <= MAX_NODES_PER_OPERATION
    BY DEF CallsWithinLimit
  <2> HIDE DEF answer
  <2>4. QED
    BY <2>2, <2>3 DEF CallsWithinLimit
<1>4. QED
  BY <1>1, <1>2, <1>3
  DEF Next, OwnerNext, CallNext, add_nodes, remove_nodes, stake_nodes,
      unstake_nodes, unbond_specific_nodes, unbond_all_possible_nodes,
      in_state, force_node_unbond_period, Callback, auction_stake_callback,
      auction_unstake_callback, auction_unbond_callback, finish,
      CallbackFails, GlobalOpBeginsOrEnds, NextBlock, vars

(* A node becomes an orphan only when a callback is lost, and then it is   *)
(* one of the nodes of that call.                                          *)
LEMMA OrphansGrowByLoss ==
    ASSUME NodesInv, [Next]_vars
    PROVE  \/ orphans' \subseteq orphans /\ lost' = lost
           \/ \E call \in calls : /\ orphans' \subseteq orphans \cup call.keys
                                  /\ lost' = lost + 1
<1> USE DEF NodesInv
<1>1. CASE \E call \in calls : CallbackFails(call)
  BY <1>1 DEF CallbackFails, orphans, pending
<1>2. CASE \E keys \in SUBSET Keys :
              \/ add_nodes(keys)
              \/ remove_nodes(keys)
              \/ owner_may_force(keys) /\ force_node_unbond_period(keys)
  <2>1. PICK keys \in SUBSET Keys :
            /\ \A k \in keys : node_state'[k].type
                                  \in {"Inactive", "Removed", "UnBondPeriod"}
            /\ \A k \in Keys \ keys : node_state'[k] = node_state[k]
            /\ UNCHANGED <<calls, lost>>
    BY <1>2 DEF add_nodes, remove_nodes, force_node_unbond_period,
                set_node_states, State, UnBondPeriod
  <2>2. QED
    BY <2>1 DEF orphans, pending
<1>3. CASE \E keys \in SUBSET Keys :
              \/ stake_nodes(keys)
              \/ unstake_nodes(keys)
              \/ unbond_specific_nodes(keys)
              \/ unbond_all_possible_nodes
  <2>1. PICK keys \in SUBSET Keys, kind \in {"stake", "unStake", "unBond"} :
            /\ \A k \in Keys \ keys : node_state'[k] = node_state[k]
            /\ send_call(kind, keys)
    BY <1>3 DEF stake_nodes, unstake_nodes, unbond_specific_nodes,
                unbond_all_possible_nodes, prepare_for_unbond, in_state,
                set_node_states
  <2> DEFINE new == [kind |-> kind, keys |-> keys, answered |-> FALSE,
                     failed |-> {}]
  <2>0. calls' = calls \cup {new} /\ lost' = lost /\ new.keys = keys
    BY <2>1 DEF send_call
  <2> HIDE DEF new
  <2>2. /\ \A call \in calls : call \in calls'
        /\ \E call \in calls' : call.keys = keys
        /\ lost' = lost
    BY <2>0
  <2>3. \A k \in orphans' : k \in Keys \ keys
    BY <2>2 DEF orphans
  <2>4. \A k \in orphans' : pending(k)
    BY <2>1, <2>3 DEF orphans, pending
  <2>5. QED
    BY <2>2, <2>3, <2>4 DEF orphans
<1>4. CASE \E call \in calls : \E failed \in SUBSET call.keys :
              AuctionExecutes(call, failed)
  <2>0. PICK call \in calls :
            \E failed \in SUBSET call.keys : AuctionExecutes(call, failed)
    BY <1>4
  <2>1. PICK failed \in SUBSET call.keys : AuctionExecutes(call, failed)
    BY <2>0
  <2> DEFINE answer == [call EXCEPT !.answered = TRUE, !.failed = failed]
  <2>2. /\ calls' = (calls \ {call}) \cup {answer}
        /\ UNCHANGED <<node_state, lost>>
    BY <2>1 DEF AuctionExecutes
  <2>3. answer.keys = call.keys
    BY DEF TypeOK
  <2> HIDE DEF answer
  <2>4. QED
    BY <2>2, <2>3 DEF orphans, pending
<1>5. CASE \E call \in calls : Callback(call)
  <2>1. PICK call \in calls : Callback(call)
    BY <1>5
  <2>2. /\ calls' = calls \ {call} /\ lost' = lost
        /\ \A k \in Keys \ call.keys : node_state'[k] = node_state[k]
    BY <2>1 DEF Callback, auction_stake_callback, auction_unstake_callback,
                auction_unbond_callback, finish, set_node_states
  <2>3. \A k \in call.keys : node_state'[k].type
                                 \in {"Active", "Inactive", "UnBondPeriod"}
    BY <2>1 DEF Callback, auction_stake_callback, auction_unstake_callback,
                auction_unbond_callback, set_node_states, State,
                UnBondPeriod, TypeOK
  <2>4. QED
    BY <2>2, <2>3 DEF orphans, pending
<1>6. CASE GlobalOpBeginsOrEnds \/ NextBlock \/ UNCHANGED vars
  BY <1>6 DEF GlobalOpBeginsOrEnds, NextBlock, vars, orphans, pending
<1>7. QED
  BY <1>1, <1>2, <1>3, <1>4, <1>5, <1>6 DEF Next, OwnerNext, CallNext

(* Only lost callbacks leave nodes pending for ever, each of them at most  *)
(* as many as an operation may name.                                       *)
THEOREM OrphansOnlyByLossHolds == Spec => []OrphansOnlyByLoss
<1> DEFINE Inv == CallsWithinLimit /\ OrphansOnlyByLoss
<1>1. Init => Inv
  <2> SUFFICES ASSUME Init PROVE Inv
    OBVIOUS
  <2>1. orphans = {}
    BY DEF Init, orphans, pending, State
  <2>2. Cardinality(orphans) = 0
    BY <2>1, FS_EmptySet
  <2>3. QED
    BY <2>2, NodesAssumption DEF Init, CallsWithinLimit, OrphansOnlyByLoss
<1>2. NodesInv /\ Inv /\ [Next]_vars => Inv'
  <2> SUFFICES ASSUME NodesInv, Inv, [Next]_vars PROVE Inv'
    OBVIOUS
  <2>1. CallsWithinLimit'
    BY LimitKept
  <2>2. /\ IsFiniteSet(orphans) /\ IsFiniteSet(orphans')
        /\ Cardinality(orphans) \in Nat /\ Cardinality(orphans') \in Nat
        /\ lost \in Nat /\ MAX_NODES_PER_OPERATION \in Nat
        /\ \A call \in calls : /\ IsFiniteSet(call.keys)
                               /\ Cardinality(call.keys) \in Nat
    <3>1. /\ orphans \in SUBSET Keys /\ orphans' \in SUBSET Keys
          /\ \A call \in calls : call.keys \in SUBSET Keys
      BY DEF orphans, NodesInv, TypeOK
    <3>2. /\ IsFiniteSet(orphans) /\ IsFiniteSet(orphans')
          /\ \A call \in calls : IsFiniteSet(call.keys)
      BY <3>1, FS_Subset, NodesAssumption
    <3>3. lost \in Nat /\ MAX_NODES_PER_OPERATION \in Nat
      BY NodesAssumption DEF NodesInv, TypeOK
    <3>4. QED
      BY <3>2, <3>3, FS_CardinalityType
  <2>3. CASE orphans' \subseteq orphans /\ lost' = lost
    <3>1. Cardinality(orphans') <= Cardinality(orphans)
      BY <2>2, <2>3, FS_Subset
    <3>2. QED
      BY <2>1, <2>2, <2>3, <3>1 DEF OrphansOnlyByLoss
  <2>4. CASE \E call \in calls : /\ orphans' \subseteq orphans \cup call.keys
                                /\ lost' = lost + 1
    <3>1. PICK call \in calls : /\ orphans' \subseteq orphans \cup call.keys
                               /\ lost' = lost + 1
      BY <2>4
    <3>2. /\ IsFiniteSet(orphans \cup call.keys)
          /\ Cardinality(orphans \cup call.keys)
                 = Cardinality(orphans) + Cardinality(call.keys)
                   - Cardinality(orphans \cap call.keys)
      BY <2>2, FS_Union
    <3>3. Cardinality(orphans \cap call.keys) \in Nat
      BY <2>2, FS_Subset, FS_CardinalityType
    <3>4. Cardinality(orphans') <= Cardinality(orphans \cup call.keys)
      BY <3>1, <3>2, FS_Subset
    <3>5. Cardinality(call.keys) <= MAX_NODES_PER_OPERATION
      BY DEF CallsWithinLimit
    <3>6. Cardinality(orphans) <= lost * MAX_NODES_PER_OPERATION
      BY DEF OrphansOnlyByLoss
    <3>7. Cardinality(orphans') <= lost * MAX_NODES_PER_OPERATION
                                   + MAX_NODES_PER_OPERATION
      <4> DEFINE product == lost * MAX_NODES_PER_OPERATION
      <4>1. product \in Nat
        BY <2>2
      <4> HIDE DEF product
      <4>2. QED
        BY <2>2, <3>2, <3>3, <3>4, <3>5, <3>6, <4>1 DEF product
    <3>8. (lost + 1) * MAX_NODES_PER_OPERATION
              = lost * MAX_NODES_PER_OPERATION + MAX_NODES_PER_OPERATION
      BY <2>2
    <3>9. QED
      BY <2>1, <3>1, <3>7, <3>8 DEF OrphansOnlyByLoss
  <2>5. QED
    BY <2>3, <2>4, OrphansGrowByLoss
<1>3. QED
  BY <1>1, <1>2, NodesInvHolds, PTL DEF Spec
=============================================================================
