---------------------------- MODULE ReplayBuffer ----------------------------
(***************************************************************************)
(* The prioritized replay buffer of bot/src/rl/replayBuffer.{hpp,inl}: a   *)
(* sum tree in a vector, whose leaves hold the priorities p^alpha, and the *)
(* leaves that are free, first a running index, then a queue.  Every       *)
(* method holds replayBufferMutex_ throughout, so each is a single step.   *)
(*                                                                         *)
(* Priorities are natural numbers.  A value drawn from the interval        *)
(* (v-1, v] takes the way of v through the tree; 0 has a way of its own.   *)
(* An operator Op_Name is Op with one plausible bug and is never used.     *)
(***************************************************************************)
EXTENDS Integers, Sequences, FiniteSets, SequencesExt

CONSTANTS
  capacity,       \* capacity_
  Priorities,     \* p^alpha of the priorities that training may report
  BatchSize,      \* how many transitions are sampled and updated at a time
  NoIndex         \* an optional without a value

ASSUME ReplayBufferAssumption ==
  /\ capacity \in Nat \ {0}
  /\ Priorities \subseteq Nat
  /\ BatchSize \in Nat
  /\ NoIndex \notin Nat

LeafIndex == 0..(capacity - 1)
Node == 0..(2 * capacity - 2)

VARIABLES
  sumTree,            \* sumTree_
  nextLeafIndex,      \* nextLeafIndex_
  nextLeafIndices,    \* nextLeafIndices_
  currentBufferSize,  \* currentBufferSize_
  maxPriority,        \* maxPriority_
  held                \* the ids the user was given and has not deleted

vars == <<sumTree, nextLeafIndex, nextLeafIndices, currentBufferSize, maxPriority, held>>

freeLeaves == <<nextLeafIndex, nextLeafIndices>>

-----------------------------------------------------------------------------
(* The sum tree.                                                           *)

Leaf(leafIndex) == leafIndex + capacity - 1
Left(node) == 2 * node + 1
Right(node) == 2 * node + 2
IsInner(node) == Left(node) \in Node

(* The nodes above a node, from its parent to the root.                    *)
Above[node \in Node] ==
  IF node = 0 THEN {} ELSE LET parent == (node - 1) \div 2 IN {parent} \cup Above[parent]

(* From the parent of the node to the root, each becomes the sum of its    *)
(* children.                                                               *)
propagateUpward(tree, node) ==
  LET sums[n \in Node] ==
        IF n \in Above[node] THEN sums[Left(n)] + sums[Right(n)] ELSE tree[n]
  IN sums

updateTreeForChangedLeaf(tree, leafIndex, priorityAlpha) ==
  propagateUpward([tree EXCEPT ![Leaf(leafIndex)] = priorityAlpha], Leaf(leafIndex))

(* Goes left only for values below the sum on the left.                    *)
retrieveLeaf_StrictlyBelow(tree, valueToFind) ==
  LET descend[node \in Node] == [value \in Nat |->
        IF ~IsInner(node) THEN node - (capacity - 1)
        ELSE IF value < tree[Left(node)] THEN descend[Left(node)][value]
        ELSE descend[Right(node)][value - tree[Left(node)]]]
  IN descend[0][valueToFind]

(* The leaf where the descent for a value ends.                            *)
retrieveLeaf(tree, valueToFind) ==
  LET descend[node \in Node] == [value \in Nat |->
        IF ~IsInner(node) THEN node - (capacity - 1)
        ELSE IF value <= tree[Left(node)] THEN descend[Left(node)][value]
        ELSE LET rest == value - tree[Left(node)]
             IN descend[Right(node)]
                  [IF rest <= tree[Right(node)] THEN rest ELSE tree[Right(node)]]]
  IN descend[0][valueToFind]

getTotalPriority == sumTree[0]

-----------------------------------------------------------------------------
(* The free leaves.                                                        *)

Init ==
  /\ sumTree = [node \in Node |-> 0]
  /\ nextLeafIndex = 0
  /\ nextLeafIndices = << >>
  /\ currentBufferSize = 0
  /\ maxPriority = 1
  /\ held = {}

getNextLeafIndex ==
  IF nextLeafIndex # NoIndex THEN nextLeafIndex ELSE Head(nextLeafIndices)

(* The running index serves until the buffer is full for the first time.   *)
advanceNextLeafIndex ==
  IF nextLeafIndex # NoIndex
  THEN /\ nextLeafIndex' = IF currentBufferSize' = capacity THEN NoIndex ELSE nextLeafIndex + 1
       /\ UNCHANGED nextLeafIndices
  ELSE /\ nextLeafIndices' = Tail(nextLeafIndices)
       /\ UNCHANGED nextLeafIndex

addTransition ==
  /\ currentBufferSize # capacity
  /\ LET leafIndex == getNextLeafIndex
     IN /\ sumTree' = updateTreeForChangedLeaf(sumTree, leafIndex, maxPriority)
        /\ currentBufferSize' = currentBufferSize + 1
        /\ advanceNextLeafIndex
        /\ held' = held \cup {leafIndex}
  /\ UNCHANGED maxPriority

(* Begins one leaf too early.                                              *)
QueuedLeaves_OffByOne ==
  IF nextLeafIndex = NoIndex THEN nextLeafIndices
  ELSE LET first == IF nextLeafIndex = 0 THEN 0 ELSE nextLeafIndex - 1
       IN [k \in 1..(capacity - first) |-> first + k - 1]

(* The queue of free leaves once the running index is given up.            *)
QueuedLeaves ==
  IF nextLeafIndex = NoIndex THEN nextLeafIndices
  ELSE nextLeafIndices \o [k \in 1..(capacity - nextLeafIndex) |-> nextLeafIndex + k - 1]

(* Leaves the priority of a deleted transition in the tree.                *)
deleteTransition_KeepsPriority(id) ==
  /\ nextLeafIndex' = NoIndex
  /\ IF currentBufferSize = 0
     THEN /\ nextLeafIndices' = QueuedLeaves
          /\ UNCHANGED <<sumTree, currentBufferSize, held>>
     ELSE /\ currentBufferSize' = currentBufferSize - 1
          /\ nextLeafIndices' = Append(QueuedLeaves, id)
          /\ held' = held \ {id}
          /\ UNCHANGED sumTree
  /\ UNCHANGED maxPriority

(* Deleting from an empty buffer throws once the queue has been filled.    *)
deleteTransition(id) ==
  /\ nextLeafIndex' = NoIndex
  /\ IF currentBufferSize = 0
     THEN /\ nextLeafIndices' = QueuedLeaves
          /\ UNCHANGED <<sumTree, currentBufferSize, held>>
     ELSE /\ sumTree' = updateTreeForChangedLeaf(sumTree, id, 0)
          /\ currentBufferSize' = currentBufferSize - 1
          /\ nextLeafIndices' = Append(QueuedLeaves, id)
          /\ held' = held \ {id}
  /\ UNCHANGED maxPriority

(* An update is a pair of an id and its new p^alpha.                       *)
Update == held \X Priorities

(* The tree and the maximum after the first so many updates.               *)
updatedTree(updates) ==
  LET after[k \in 0..Len(updates)] ==
        IF k = 0 THEN sumTree
        ELSE updateTreeForChangedLeaf(after[k - 1], updates[k][1], updates[k][2])
  IN after[Len(updates)]

updatedMaximum(updates) ==
  LET after[k \in 0..Len(updates)] ==
        IF k = 0 THEN maxPriority
        ELSE IF updates[k][2] > after[k - 1] THEN updates[k][2] ELSE after[k - 1]
  IN after[Len(updates)]

updatePriorities(updates) ==
  /\ Len(updates) <= currentBufferSize
  /\ sumTree' = updatedTree(updates)
  /\ maxPriority' = updatedMaximum(updates)
  /\ UNCHANGED <<freeLeaves, currentBufferSize, held>>

(* Only ids that are held are deleted, or any id while none is held, which *)
(* throws; so do ids that are no leaf and updates for more ids than there  *)
(* are transitions, which change nothing.                                  *)
Next ==
  \/ addTransition
  \/ \E id \in LeafIndex : (id \in held \/ held = {}) /\ deleteTransition(id)
  \/ \E updates \in UNION {[1..n -> Update] : n \in 1..BatchSize} : updatePriorities(updates)

Spec == Init /\ [][Next]_vars

-----------------------------------------------------------------------------
(* Properties.                                                             *)

TypeOK ==
  /\ sumTree \in [Node -> Nat]
  /\ nextLeafIndex \in LeafIndex \cup {NoIndex}
  /\ nextLeafIndices \in Seq(LeafIndex)
  /\ currentBufferSize \in 0..capacity
  /\ maxPriority \in Nat
  /\ held \subseteq LeafIndex

FreeLeaves ==
  ToSet(nextLeafIndices) \cup
    (IF nextLeafIndex = NoIndex THEN {} ELSE nextLeafIndex..(capacity - 1))

(* The leaves that will be given out are those the user does not hold, and *)
(* none is queued twice, whenever the running index is given up and however *)
(* deletions and additions alternate (advanceNextLeafIndex,                *)
(* deleteTransition): no id serves two transitions and no leaf is lost.    *)
EveryLeafHeldOrFree ==
  /\ FreeLeaves = LeafIndex \ held
  /\ IsInjective(nextLeafIndices)
  /\ nextLeafIndex # NoIndex => nextLeafIndices = << >>
  /\ currentBufferSize = Cardinality(held)

(* The priorities of the transitions under the first so many ids, added.   *)
PrioritySum[n \in 0..capacity] ==
  IF n = 0 THEN 0
  ELSE PrioritySum[n - 1] + (IF n - 1 \in held THEN sumTree[Leaf(n - 1)] ELSE 0)

(* Every inner node is the sum of its children after every update, and a   *)
(* free leaf has no priority, so the root is the total priority of the     *)
(* transitions (propagateUpward).                                          *)
TreeSumsPriorities ==
  /\ \A node \in Node : IsInner(node) => sumTree[node] = sumTree[Left(node)] + sumTree[Right(node)]
  /\ \A leafIndex \in LeafIndex \ held : sumTree[Leaf(leafIndex)] = 0
  /\ getTotalPriority = PrioritySum[capacity]

(* What holds after every call: types, leaves, and the sums of the tree.   *)
Consistent == TypeOK /\ EveryLeafHeldOrFree /\ TreeSumsPriorities

(* retrieveLeaf samples proportionally: over the values up to the total,   *)
(* each leaf is found as often as its priority says.                       *)
SampledInProportion ==
  \A leafIndex \in LeafIndex :
    Cardinality({v \in 1..getTotalPriority : retrieveLeaf(sumTree, v) = leafIndex})
      = sumTree[Leaf(leafIndex)]

(* "If epsilon=0 and you set a priority to exactly zero, that transition   *)
(* should never be sampled" (replayBufferTest.cpp).  sample draws from      *)
(* [0, totalPriority), in which 0 is a value as any other.                 *)
ZeroPriorityNeverSampled ==
  \A id \in held : sumTree[Leaf(id)] = 0 =>
    \A v \in 0..(getTotalPriority - 1) : retrieveLeaf(sumTree, v) # id

Pool == INSTANCE PriorityPool WITH
          TransitionId <- LeafIndex,
          priority <- [id \in held |-> sumTree[Leaf(id)]]

(* The buffer implements a pool of transitions with priorities: adding,    *)
(* deleting and updating change the transitions named and no other, and an *)
(* id is given out only while it is free.                                  *)
ImplementsPool == Pool!Spec
=============================================================================
