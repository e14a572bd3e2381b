---------------------------- MODULE PriorityPool ----------------------------
(***************************************************************************)
(* What bot/src/rl/replayBuffer.hpp promises its user, without sum tree or *)
(* list of free leaves: transitions with a priority each, under ids that   *)
(* are reused once a transition is deleted.                                *)
(***************************************************************************)
EXTENDS Integers

CONSTANTS
  TransitionId,  \* the ids there are, as many as transitions fit
  Priorities     \* p^alpha of the priorities that training may report

VARIABLES
  priority,          \* the priority of each transition held, a function on their ids
  maxPriority,       \* what a new transition starts with
  currentBufferSize  \* what size() answers

vars == <<priority, maxPriority, currentBufferSize>>

Held == DOMAIN priority

Init ==
  /\ priority = [id \in {} |-> 0]
  /\ maxPriority = 1
  /\ currentBufferSize = 0

AddTransition(id) ==
  /\ id \notin Held
  /\ priority' = [i \in Held \cup {id} |-> IF i = id THEN maxPriority ELSE priority[i]]
  /\ currentBufferSize' = currentBufferSize + 1
  /\ UNCHANGED maxPriority

DeleteTransition(id) ==
  /\ id \in Held
  /\ priority' = [i \in Held \ {id} |-> priority[i]]
  /\ currentBufferSize' = currentBufferSize - 1
  /\ UNCHANGED maxPriority

(* Only transitions that are held get a new priority, and the priority of  *)
(* newcomers never falls.                                                  *)
UpdatePriorities(ids) ==
  /\ ids \subseteq Held
  /\ \E p \in [ids -> Priorities] :
       priority' = [i \in Held |-> IF i \in ids THEN p[i] ELSE priority[i]]
  /\ maxPriority' \in {maxPriority} \cup Priorities
  /\ maxPriority' >= maxPriority
  /\ UNCHANGED currentBufferSize

Next ==
  \/ \E id \in TransitionId : AddTransition(id) \/ DeleteTransition(id)
  \/ \E ids \in SUBSET Held : UpdatePriorities(ids)

Spec == Init /\ [][Next]_vars
=============================================================================
