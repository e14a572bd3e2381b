---------------------- MODULE ReplayAndCheckpointsProofs ----------------------
(* Theorems about two things that the training manager relies on.          *)
(*                                                                         *)
(* ReplayBuffer, for every capacity, all priorities and any sequence of    *)
(* calls: no leaf is lost or given out twice, the tree sums the            *)
(* priorities, and the buffer implements PriorityPool.                     *)
(*                                                                         *)
(* Checkpoints, for every set of names, the name of the backup among them, *)
(* every interval of backups and any number of requests, training steps    *)
(* and crashes: only the backup is ever registered twice, what is          *)
(* registered and neither being written nor deleted is whole, and what was *)
(* saved is lost only in the moment in which the registry is rewritten.    *)
EXTENDS ReplayBuffer, Checkpoints, TLAPS, WellFoundedInduction, FiniteSetTheorems,
        SequenceTheorems

USE ReplayBufferAssumption DEF LeafIndex, Node

-----------------------------------------------------------------------------
(* Induction over the natural numbers, by sets.                            *)

(* A set of naturals with an element has a least one.                      *)
LEMMA Least ==
  ASSUME NEW T \in SUBSET Nat, T # {}
  PROVE  \E x \in T : \A y \in T : x <= y
<1> DEFINE R == {ss \in Nat \X Nat : ss[1] < ss[2]}
<1>1. IsWellFoundedOn(R, Nat)
  BY NatLessThanWellFounded DEF OpToRel
<1>2. \A x, y \in Nat : y < x => <<y, x>> \in R
  OBVIOUS
<1>3. PICK x \in T : \A y \in T : <<y, x>> \notin R
  <2> HIDE DEF R
  <2> QED BY <1>1, WFMin
<1>4. ASSUME NEW y \in T PROVE x <= y
  <2>1. ~(y < x)
    <3> HIDE DEF R
    <3> QED BY <1>2, <1>3
  <2> QED BY <2>1
<1> QED BY <1>4

(* A set with 0 and the successor of each of its naturals has them all.    *)
LEMMA Induction ==
  ASSUME NEW S, 0 \in S, \A n \in Nat : n \in S => n + 1 \in S
  PROVE  Nat \subseteq S
<1> SUFFICES ASSUME Nat \ S # {} PROVE FALSE
  OBVIOUS
<1>1. PICK x \in Nat \ S : \A y \in Nat \ S : x <= y
  BY Least
<1>2. x # 0 /\ x - 1 \in Nat
  BY <1>1
<1>3. x - 1 \in S
  BY <1>1, <1>2
<1> QED BY <1>1, <1>2, <1>3

Repeats(f, n, V, base, step) ==
  f \in [0..n -> V] /\ f[0] = base /\ \A k \in 1..n : f[k] = step[k][f[k - 1]]

(* What is defined from a first value by repeating a step exists.          *)
LEMMA Recursion ==
  ASSUME NEW n \in Nat, NEW V, NEW base \in V, NEW step \in [1..n -> [V -> V]]
  PROVE  \E f : Repeats(f, n, V, base, step)
<1> DEFINE Solves(f, m) == f[0] = base /\ \A k \in 1..m : f[k] = step[k][f[k - 1]]
           S == {m \in Nat : m <= n => \E f \in [0..m -> V] : Solves(f, m)}
<1>1. 0 \in S
  <2>1. [k \in 0..0 |-> base] \in [0..0 -> V] /\ Solves([k \in 0..0 |-> base], 0)
    OBVIOUS
  <2> HIDE DEF Solves
  <2> QED BY <2>1
<1>2. ASSUME NEW m \in Nat, m \in S PROVE m + 1 \in S
  <2> SUFFICES ASSUME m + 1 <= n PROVE \E f \in [0..(m + 1) -> V] : Solves(f, m + 1)
    OBVIOUS
  <2>1. PICK f \in [0..m -> V] : Solves(f, m)
    <3> HIDE DEF Solves
    <3> QED BY <1>2
  <2> DEFINE v == step[m + 1][f[m]]
             g == [k \in 0..(m + 1) |-> IF k = m + 1 THEN v ELSE f[k]]
  <2>2. v \in V
    <3>1. f[m] \in V /\ m + 1 \in 1..n
      BY <2>1
    <3>2. step[m + 1] \in [V -> V]
      BY <3>1
    <3> QED BY <3>1, <3>2
  <2> HIDE DEF v
  <2>3. g \in [0..(m + 1) -> V] /\ \A k \in 0..m : g[k] = f[k]
    BY <2>1, <2>2
  <2>4. g[m + 1] = v
    OBVIOUS
  <2> HIDE DEF g
  <2>5. ASSUME NEW k \in 1..(m + 1) PROVE g[k] = step[k][g[k - 1]]
    <3>1. CASE k = m + 1
      <4>1. g[k - 1] = f[m]
        BY <2>3, <3>1
      <4> QED BY <2>4, <3>1, <4>1 DEF v
    <3>2. CASE k # m + 1
      <4>1. k \in 1..m /\ k - 1 \in 0..m /\ k \in 0..m
        BY <3>2
      <4> QED BY <2>1, <2>3, <4>1
    <3> QED BY <3>1, <3>2
  <2> QED BY <2>1, <2>3, <2>5
<1> HIDE DEF S
<1>3. n \in S
  BY <1>1, <1>2, Induction
<1> QED BY <1>3 DEF S, Repeats

-----------------------------------------------------------------------------
(* The nodes above a node.                                                 *)

Parent(node) == (node - 1) \div 2

LEMMA ParentFacts ==
  ASSUME NEW node \in Node, node # 0
  PROVE  /\ Parent(node) \in Node /\ Parent(node) < node
         /\ IsInner(Parent(node))
         /\ node \in {Left(Parent(node)), Right(Parent(node))}
BY DEF Parent, IsInner, Left, Right

LEMMA ChildFacts ==
  ASSUME NEW node \in Node, IsInner(node)
  PROVE  /\ Left(node) \in Node \ {0} /\ Right(node) \in Node \ {0}
         /\ Left(node) > node /\ Right(node) > node /\ Left(node) # Right(node)
         /\ Parent(Left(node)) = node /\ Parent(Right(node)) = node
BY DEF Parent, IsInner, Left, Right

(* Above satisfies its recursive definition: of the sets with the parent   *)
(* of a node that have the parent of each of theirs, it is the least.      *)
LEMMA AboveEquation ==
  \A node \in Node :
    Above[node] = IF node = 0 THEN {} ELSE {Parent(node)} \cup Above[Parent(node)]
<1> DEFINE Eq(f) == f = [node \in Node |->
                           IF node = 0 THEN {}
                           ELSE LET parent == (node - 1) \div 2 IN {parent} \cup f[parent]]
           Up(C) == \A c \in C \ {0} : Parent(c) \in C
           From(node) == {C \in SUBSET Node : Up(C) /\ (node # 0 => Parent(node) \in C)}
           least == [node \in Node |-> {a \in Node : \A C \in From(node) : a \in C}]
<1>1. Eq(least)
  <2>1. ASSUME NEW node \in Node
        PROVE  least[node] = IF node = 0 THEN {}
                             ELSE {Parent(node)} \cup least[Parent(node)]
    <3>1. CASE node = 0
      <4>1. {} \in From(node)
        BY <3>1
      <4> HIDE DEF From
      <4> QED BY <3>1, <4>1
    <3>2. CASE node # 0
      <4> DEFINE p == Parent(node)
      <4>1. p \in Node
        BY <3>2, ParentFacts
      <4> HIDE DEF p
      <4>2. From(node) = {C \in SUBSET Node : Up(C) /\ p \in C}
        BY <3>2 DEF p
      <4>3. ASSUME NEW C \in From(node) PROVE p \in C /\ C \in From(p)
        BY <4>2, <4>1
      <4>4. {p} \cup least[p] \subseteq least[node]
        <5> HIDE DEF From
        <5> QED BY <4>1, <4>3
      <4>5. {p} \cup least[p] \in From(node)
        <5> DEFINE C == {p} \cup least[p]
        <5>1. C \in SUBSET Node /\ p \in C
          <6> HIDE DEF From
          <6> QED BY <4>1
        <5>2. ASSUME NEW c \in C \ {0} PROVE Parent(c) \in C
          <6>1. Parent(c) \in Node
            BY <5>1, ParentFacts
          <6>2. ASSUME NEW D \in From(p) PROVE Parent(c) \in D
            <7>1. CASE c = p
              BY <5>2, <7>1
            <7>2. CASE c # p
              <8>1. c \in D
                <9> HIDE DEF From
                <9> QED BY <4>1, <7>2
              <8> QED BY <8>1, <5>2
            <7> QED BY <7>1, <7>2
          <6>3. Parent(c) \in least[p]
            <7> HIDE DEF From
            <7> QED BY <4>1, <6>1, <6>2
          <6> QED BY <6>3
        <5> HIDE DEF C
        <5>3. C \in From(node)
          BY <4>2, <5>1, <5>2
        <5> QED BY <5>3 DEF C
      <4>6. least[node] \subseteq {p} \cup least[p]
        <5> DEFINE C == {p} \cup least[p]
        <5>1. C \in From(node)
          BY <4>5
        <5> HIDE DEF From, C
        <5>2. least[node] \subseteq C
          BY <5>1
        <5> QED BY <5>2 DEF C
      <4> HIDE DEF least
      <4> QED BY <3>2, <4>4, <4>6 DEF p
    <3> QED BY <3>1, <3>2
  <2>2. least = [node \in Node |-> least[node]]
    OBVIOUS
  <2> HIDE DEF least
  <2> QED BY <2>1, <2>2 DEF Parent
<1>2. Eq(CHOOSE f : Eq(f))
  <2> HIDE DEF Eq, least
  <2> QED BY <1>1
<1>3. Above = CHOOSE f : Eq(f)
  BY DEF Above
<1>4. Eq(Above)
  <2> HIDE DEF Eq
  <2> QED BY <1>2, <1>3
<1> QED BY <1>4 DEF Parent

(* A node itself and those above it.                                       *)
Path(node) == Above[node] \cup {node}

LEMMA PathOfParent ==
  ASSUME NEW node \in Node, node # 0
  PROVE  Above[node] = Path(Parent(node))
BY AboveEquation, ParentFacts DEF Path

PathsClimb(node) ==
  /\ Above[node] \subseteq Node
  /\ \A a \in Above[node] : a < node /\ IsInner(a)
  /\ \A a \in Path(node) \ {0} : Parent(a) \in Above[node]
  /\ 0 \in Path(node)

(* The nodes above lead to the root, each by its parent.                   *)
LEMMA PathFacts == \A node \in Node : PathsClimb(node)
<1> DEFINE Wrong == {node \in Node : ~PathsClimb(node)}
<1> SUFFICES ASSUME Wrong # {} PROVE FALSE
  OBVIOUS
<1>1. PICK node \in Wrong : node \in Node /\ \A other \in Wrong : node <= other
  <2>1. Wrong \in SUBSET Nat /\ Wrong \subseteq Node
    OBVIOUS
  <2> HIDE DEF Wrong
  <2> QED BY <2>1, Least
<1>2. CASE node = 0
  <2>1. Above[0] = {}
    <3>1. 0 \in Node
      OBVIOUS
    <3> QED BY <3>1, AboveEquation, Zenon
  <2> QED BY <1>1, <1>2, <2>1 DEF PathsClimb, Path
<1>3. CASE node # 0
  <2> DEFINE p == Parent(node)
  <2>1. p \in Node /\ p < node /\ IsInner(p)
    BY <1>3, ParentFacts
  <2>2. Above[node] = Above[p] \cup {p}
    BY <1>3, PathOfParent DEF Path
  <2> HIDE DEF p
  <2>3. PathsClimb(p)
    <3>1. p \notin Wrong
      <4> HIDE DEF Wrong
      <4> QED BY <1>1, <2>1
    <3> QED BY <2>1, <3>1
  <2>4. node \in Node
    OBVIOUS
  <2>5. Above[node] \subseteq Node /\ \A a \in Above[node] : a < node /\ IsInner(a)
    BY <2>1, <2>2, <2>3, <2>4 DEF PathsClimb
  <2>6. ASSUME NEW a \in Path(node) \ {0} PROVE Parent(a) \in Above[node]
    BY <2>2, <2>3, <2>6 DEF PathsClimb, Path, p
  <2>7. 0 \in Path(node)
    BY <2>2, <2>3 DEF PathsClimb, Path
  <2>8. PathsClimb(node)
    BY <2>5, <2>6, <2>7 DEF PathsClimb
  <2> QED BY <2>8, <1>1
<1> QED BY <1>2, <1>3

OneWayDown(node) ==
  \A a \in Above[node] : Left(a) \in Path(node) <=> Right(a) \notin Path(node)

(* From each node above, exactly one child is on the way.                  *)
LEMMA PathForks == \A node \in Node : OneWayDown(node)
<1> DEFINE Wrong == {node \in Node : ~OneWayDown(node)}
<1> SUFFICES ASSUME Wrong # {} PROVE FALSE
  OBVIOUS
<1>1. PICK node \in Wrong : node \in Node /\ \A other \in Wrong : node <= other
  <2>1. Wrong \in SUBSET Nat /\ Wrong \subseteq Node
    OBVIOUS
  <2> HIDE DEF Wrong
  <2> QED BY <2>1, Least
<1>2. CASE node = 0
  <2>1. Above[0] = {}
    <3>1. 0 \in Node
      OBVIOUS
    <3> QED BY <3>1, AboveEquation, Zenon
  <2> QED BY <1>1, <1>2, <2>1 DEF OneWayDown
<1>3. CASE node # 0
  <2> DEFINE p == Parent(node)
  <2>1. p \in Node /\ p < node /\ IsInner(p) /\ node \in {Left(p), Right(p)}
    BY <1>3, ParentFacts
  <2>2. Above[node] = Path(p) /\ Path(node) = Path(p) \cup {node}
    BY <1>3, PathOfParent DEF Path
  <2> HIDE DEF p
  <2>3. OneWayDown(p)
    <3>1. p \notin Wrong
      <4> HIDE DEF Wrong
      <4> QED BY <1>1, <2>1
    <3> QED BY <2>1, <3>1
  <2>4. \A a \in Path(p) : a <= p /\ a \in Node /\ IsInner(a)
    BY <2>1, PathFacts DEF PathsClimb, Path
  <2>5. ASSUME NEW a \in Path(p) PROVE Left(a) \in Path(node) <=> Right(a) \notin Path(node)
    <3>1. /\ Left(a) > a /\ Right(a) > a /\ Left(a) # Right(a)
          /\ Left(a) \in Int /\ Right(a) \in Int
          /\ Parent(Left(a)) = a /\ Parent(Right(a)) = a
      BY <2>4, <2>5, ChildFacts
    <3>2. CASE a = p
      <4>1. Left(a) \notin Path(p) /\ Right(a) \notin Path(p)
        BY <2>4, <3>1, <3>2
      <4> QED BY <2>1, <2>2, <3>1, <3>2, <4>1
    <3>3. CASE a # p
      <4>1. a \in Above[p]
        BY <2>5, <3>3 DEF Path
      <4>2. node \notin {Left(a), Right(a)}
        BY <3>1, <3>3 DEF p
      <4> QED BY <2>2, <2>3, <4>1, <4>2 DEF OneWayDown
    <3> QED BY <3>2, <3>3
  <2>6. OneWayDown(node)
    BY <2>2, <2>5 DEF OneWayDown
  <2> QED BY <1>1, <2>6
<1> QED BY <1>2, <1>3

-----------------------------------------------------------------------------
(* What propagateUpward returns.                                           *)

Tree == [Node -> Nat]

Sums(sums, tree, node, n) ==
  sums[n] = IF n \in Above[node] THEN sums[Left(n)] + sums[Right(n)] ELSE tree[n]

(* The sums there are: they are found from the last node to the first.     *)
LEMMA PropagateEquation ==
  ASSUME NEW tree \in Tree, NEW node \in Node
  PROVE  /\ propagateUpward(tree, node) \in Tree
         /\ \A n \in Node : Sums(propagateUpward(tree, node), tree, node, n)
<1> DEFINE last == 2 * capacity - 2
           S == {m \in Nat : m <= last + 1 =>
                   \E sums \in [(last + 1 - m)..last -> Nat] :
                     \A n \in (last + 1 - m)..last : Sums(sums, tree, node, n)}
           Eq(sums) == sums = [n \in Node |->
                                 IF n \in Above[node] THEN sums[Left(n)] + sums[Right(n)]
                                 ELSE tree[n]]
<1>1. last \in Nat
  OBVIOUS
<1>2. 0 \in S
  <2>1. PICK sums : sums \in [(last + 1)..last -> Nat]
    <3>1. [n \in (last + 1)..last |-> 0] \in [(last + 1)..last -> Nat]
      OBVIOUS
    <3> QED BY <3>1, Zenon
  <2>2. last + 1 - 0 = last + 1 /\ (last + 1)..last = {}
    OBVIOUS
  <2> HIDE DEF last
  <2> QED BY <2>1, <2>2
<1>3. ASSUME NEW m \in Nat, m \in S PROVE m + 1 \in S
  <2> DEFINE x == last - m
  <2> SUFFICES ASSUME m + 1 <= last + 1
               PROVE  \E sums \in [x..last -> Nat] :
                        \A n \in x..last : Sums(sums, tree, node, n)
    OBVIOUS
  <2>1. PICK sums \in [(x + 1)..last -> Nat] :
               \A n \in (x + 1)..last : Sums(sums, tree, node, n)
    BY <1>3
  <2>2. x \in Node
    OBVIOUS
  <2>3. ASSUME NEW n \in x..last, n \in Above[node]
        PROVE  Left(n) \in (x + 1)..last /\ Right(n) \in (x + 1)..last
    <3>1. n \in Node /\ IsInner(n)
      BY <2>3, PathFacts DEF PathsClimb
    <3> QED BY <2>2, <3>1, ChildFacts
  <2> DEFINE v == IF x \in Above[node] THEN sums[Left(x)] + sums[Right(x)] ELSE tree[x]
             more == [n \in x..last |-> IF n = x THEN v ELSE sums[n]]
  <2>4. v \in Nat
    <3>1. CASE x \in Above[node]
      <4>1. sums[Left(x)] \in Nat /\ sums[Right(x)] \in Nat
        BY <2>1, <2>2, <2>3, <3>1
      <4>2. v = sums[Left(x)] + sums[Right(x)]
        BY <3>1
      <4> HIDE DEF v
      <4> QED BY ONLY <4>1, <4>2
    <3>2. CASE x \notin Above[node]
      BY <2>2, <3>2 DEF Tree
    <3> QED BY <3>1, <3>2
  <2> HIDE DEF v
  <2>5. more \in [x..last -> Nat] /\ more[x] = v /\ \A n \in (x + 1)..last : more[n] = sums[n]
    BY <2>1, <2>2, <2>4
  <2> HIDE DEF more
  <2>6. ASSUME NEW n \in x..last PROVE Sums(more, tree, node, n)
    <3>1. n \in Above[node] => more[Left(n)] = sums[Left(n)] /\ more[Right(n)] = sums[Right(n)]
      BY <2>3, <2>5
    <3>2. CASE n = x
      BY <2>5, <3>1, <3>2 DEF Sums, v
    <3>3. CASE n # x
      <4>1. n \in (x + 1)..last
        BY <2>2, <3>3
      <4> HIDE DEF x
      <4> QED BY <2>1, <2>5, <3>1, <4>1 DEF Sums
    <3> QED BY <3>2, <3>3
  <2> QED BY <2>5, <2>6
<1>4. PICK sums \in Tree : \A n \in Node : Sums(sums, tree, node, n)
  <2> HIDE DEF S
  <2>1. last + 1 \in S
    BY <1>1, <1>2, <1>3, Induction
  <2> QED BY <1>1, <2>1 DEF S, Tree
<1>5. Eq(sums)
  <2>1. sums = [n \in Node |-> sums[n]]
    BY DEF Tree
  <2> QED BY <1>4, <2>1 DEF Sums
<1> DEFINE it == CHOOSE f : Eq(f)
<1>6. Eq(it)
  <2> HIDE DEF Eq
  <2> QED BY <1>5
<1>7. propagateUpward(tree, node) = it
  BY DEF propagateUpward
<1> HIDE DEF it
<1>8. DOMAIN it = Node /\ \A n \in Node : Sums(it, tree, node, n)
  BY <1>6 DEF Sums
<1> DEFINE Wrong == {m \in 0..last : it[last - m] \notin Nat}
<1>9. Wrong = {}
  <2> SUFFICES ASSUME Wrong # {} PROVE FALSE
    OBVIOUS
  <2>1. PICK m \in Wrong : m \in 0..last /\ \A other \in Wrong : m <= other
    <3>1. Wrong \in SUBSET Nat /\ Wrong \subseteq 0..last
      OBVIOUS
    <3> HIDE DEF Wrong, last
    <3> QED BY <3>1, Least
  <2> DEFINE n == last - m
  <2>2. n \in Node
    OBVIOUS
  <2>3. CASE n \in Above[node]
    <3>1. Left(n) \in Node /\ Right(n) \in Node /\ Left(n) > n /\ Right(n) > n
      BY <2>2, <2>3, PathFacts, ChildFacts DEF PathsClimb
    <3>2. last - Left(n) \notin Wrong /\ last - Right(n) \notin Wrong
      <4>1. last - Left(n) < m /\ last - Right(n) < m
        BY <3>1
      <4> HIDE DEF Wrong
      <4> QED BY <2>1, <3>1, <4>1
    <3>3. it[Left(n)] \in Nat /\ it[Right(n)] \in Nat
      BY <3>1, <3>2
    <3>4. it[n] \in Nat
      BY <1>8, <2>2, <2>3, <3>3 DEF Sums
    <3> QED BY <3>4
  <2>4. CASE n \notin Above[node]
    <3>1. it[n] \in Nat
      BY <1>8, <2>2, <2>4 DEF Sums, Tree
    <3> QED BY <3>1
  <2> QED BY <2>3, <2>4
<1>10. it \in Tree
  <2>1. ASSUME NEW n \in Node PROVE it[n] \in Nat
    <3>1. last - n \in 0..last /\ last - (last - n) = n
      OBVIOUS
    <3> QED BY <1>9, <3>1
  <2>2. it = [n \in Node |-> it[n]]
    BY <1>6
  <2> QED BY <2>1, <2>2 DEF Tree
<1> QED BY <1>7, <1>8, <1>10

-----------------------------------------------------------------------------
(* What a changed leaf does to the tree.                                   *)

SumsUp(tree) ==
  \A node \in Node : IsInner(node) => tree[node] = tree[Left(node)] + tree[Right(node)]

LEMMA LeafFacts ==
  /\ \A i \in LeafIndex : Leaf(i) \in Node /\ ~IsInner(Leaf(i))
  /\ \A i, j \in LeafIndex : Leaf(i) = Leaf(j) => i = j
  /\ \A node \in Node : IsInner(node) <=> node < capacity - 1
BY DEF Leaf, IsInner, Left

Changes(new, tree, leafIndex, p) ==
  /\ new \in Tree /\ SumsUp(new)
  /\ \A i \in LeafIndex : new[Leaf(i)] = IF i = leafIndex THEN p ELSE tree[Leaf(i)]

(* The nodes above the leaf are the sums again, and every other inner node *)
(* has neither the leaf nor a node above it for a child.                   *)
LEMMA ChangedLeaf ==
  ASSUME NEW tree \in Tree, SumsUp(tree), NEW leafIndex \in LeafIndex, NEW p \in Nat
  PROVE  Changes(updateTreeForChangedLeaf(tree, leafIndex, p), tree, leafIndex, p)
<1> DEFINE new == updateTreeForChangedLeaf(tree, leafIndex, p)
           leaf == Leaf(leafIndex)
           set == [tree EXCEPT ![leaf] = p]
<1>1. leaf \in Node /\ ~IsInner(leaf)
  BY LeafFacts
<1> HIDE DEF leaf
<1>2. set \in Tree /\ \A n \in Node : set[n] = IF n = leaf THEN p ELSE tree[n]
  BY <1>1 DEF Tree
<1>3. new = propagateUpward(set, leaf)
  BY DEF updateTreeForChangedLeaf, leaf
<1> HIDE DEF set, new
<1>4. new \in Tree /\ \A n \in Node : Sums(new, set, leaf, n)
  BY <1>1, <1>2, <1>3, PropagateEquation
<1>5. PathsClimb(leaf)
  BY <1>1, PathFacts
<1>6. ASSUME NEW i \in LeafIndex
      PROVE  new[Leaf(i)] = IF i = leafIndex THEN p ELSE tree[Leaf(i)]
  <2>1. Leaf(i) \in Node /\ ~IsInner(Leaf(i)) /\ (i = leafIndex <=> Leaf(i) = leaf)
    BY LeafFacts DEF leaf
  <2>2. Leaf(i) \notin Above[leaf]
    BY <1>5, <2>1 DEF PathsClimb
  <2> QED BY <1>2, <1>4, <2>1, <2>2 DEF Sums
<1>7. ASSUME NEW x \in Node, IsInner(x) PROVE new[x] = new[Left(x)] + new[Right(x)]
  <2>1. CASE x \in Above[leaf]
    BY <1>4, <2>1 DEF Sums
  <2>2. CASE x \notin Above[leaf]
    <3>1. /\ Left(x) \in Node \ {0} /\ Right(x) \in Node \ {0}
          /\ Parent(Left(x)) = x /\ Parent(Right(x)) = x
      BY <1>7, ChildFacts
    <3>2. Left(x) \notin Path(leaf) /\ Right(x) \notin Path(leaf)
      BY <1>5, <2>2, <3>1 DEF PathsClimb
    <3>3. \A n \in {x, Left(x), Right(x)} : new[n] = tree[n]
      BY <1>1, <1>2, <1>4, <1>7, <2>2, <3>1, <3>2 DEF Sums, Path
    <3> QED BY <1>7, <3>3 DEF SumsUp
  <2> QED BY <2>1, <2>2
<1> QED BY <1>4, <1>6, <1>7 DEF SumsUp, Changes, new

(* Trees that updates of the present one lead to.                          *)
Updated ==
  {tree \in Tree :
     /\ SumsUp(tree)
     /\ \A i \in LeafIndex : tree[Leaf(i)] # sumTree[Leaf(i)] =>
          i \in held /\ tree[Leaf(i)] \in Priorities}

LEMMA UpdateStaysUpdated ==
  ASSUME held \subseteq LeafIndex, NEW tree \in Updated, NEW update \in Update
  PROVE  updateTreeForChangedLeaf(tree, update[1], update[2]) \in Updated
<1> DEFINE new == updateTreeForChangedLeaf(tree, update[1], update[2])
<1>1. /\ update[1] \in held /\ update[1] \in LeafIndex
      /\ update[2] \in Priorities /\ update[2] \in Nat
      /\ tree \in Tree /\ SumsUp(tree)
  BY DEF Update, Updated
<1>2. Changes(new, tree, update[1], update[2])
  BY <1>1, ChangedLeaf, Zenon
<1> HIDE DEF new
<1>3. new \in Updated
  BY <1>1, <1>2 DEF Updated, Changes
<1> QED BY <1>3 DEF new

(* All updates together lead to such a tree.                               *)
LEMMA UpdatedTree ==
  ASSUME sumTree \in Tree, SumsUp(sumTree), held \subseteq LeafIndex,
         NEW updates \in Seq(Update)
  PROVE  updatedTree(updates) \in Updated
<1> DEFINE n == Len(updates)
           Eq(f) == f = [k \in 0..n |->
                           IF k = 0 THEN sumTree
                           ELSE updateTreeForChangedLeaf(f[k - 1], updates[k][1], updates[k][2])]
           step == [k \in 1..n |-> [tree \in Updated |->
                      updateTreeForChangedLeaf(tree, updates[k][1], updates[k][2])]]
<1>1. n \in Nat /\ \A k \in 1..n : updates[k] \in Update
  OBVIOUS
<1>2. sumTree \in Updated
  BY DEF Updated
<1>3. step \in [1..n -> [Updated -> Updated]]
  BY <1>1, UpdateStaysUpdated
<1>4. PICK f : Repeats(f, n, Updated, sumTree, step)
  <2> HIDE DEF step, n
  <2> QED BY <1>1, <1>2, <1>3, Recursion, Zenon
<1>5. Eq(f)
  <2> USE <1>4 DEF Repeats
  <2> HIDE DEF n
  <2>1. f = [k \in 0..n |-> f[k]]
    OBVIOUS
  <2>2. ASSUME NEW k \in 0..n, k # 0
        PROVE  f[k] = updateTreeForChangedLeaf(f[k - 1], updates[k][1], updates[k][2])
    <3>1. k \in 1..n /\ f[k - 1] \in Updated
      BY <1>1, <2>2
    <3> QED BY <1>4, <3>1
  <2> QED BY <1>4, <2>1, <2>2
<1> DEFINE it == CHOOSE f1 : Eq(f1)
           S == {k \in Nat : k <= n => it[k] \in Updated}
<1>6. Eq(it)
  <2> HIDE DEF Eq
  <2> QED BY <1>5
<1>7. updatedTree(updates) = it[n]
  BY DEF updatedTree
<1> HIDE DEF it, n
<1>8. 0 \in S
  BY <1>1, <1>2, <1>6
<1>9. ASSUME NEW k \in Nat, k \in S PROVE k + 1 \in S
  <2> SUFFICES ASSUME k + 1 <= n PROVE it[k + 1] \in Updated
    OBVIOUS
  <2> DEFINE j == k + 1
  <2>1. j \in 0..n /\ j # 0 /\ j - 1 = k /\ updates[j] \in Update
    BY <1>1
  <2> HIDE DEF j
  <2>2. it[j] = updateTreeForChangedLeaf(it[j - 1], updates[j][1], updates[j][2])
    BY <1>6, <2>1
  <2>3. it[k] \in Updated
    BY <1>9, <1>1
  <2>4. it[j] \in Updated
    BY <2>1, <2>2, <2>3, UpdateStaysUpdated
  <2> QED BY <2>4 DEF j
<1>10. it[n] \in Updated
  <2> HIDE DEF S
  <2>1. n \in S
    BY <1>1, <1>8, <1>9, Induction
  <2> QED BY <2>1 DEF S
<1> QED BY <1>7, <1>10

(* The maximum never falls and is one of the priorities reported.          *)
LEMMA UpdatedMaximum ==
  ASSUME maxPriority \in Nat, NEW updates \in Seq(Update)
  PROVE  /\ updatedMaximum(updates) \in {maxPriority} \cup Priorities
         /\ updatedMaximum(updates) >= maxPriority
<1> DEFINE n == Len(updates)
           V == {m \in {maxPriority} \cup Priorities : m >= maxPriority}
           Larger(m, p) == IF p > m THEN p ELSE m
           Eq(f) == f = [k \in 0..n |->
                           IF k = 0 THEN maxPriority
                           ELSE IF updates[k][2] > f[k - 1] THEN updates[k][2] ELSE f[k - 1]]
           step == [k \in 1..n |-> [m \in V |-> Larger(m, updates[k][2])]]
<1>1. n \in Nat /\ \A k \in 1..n : updates[k][2] \in Priorities
  <2>1. \A k \in 1..n : updates[k] \in Update
    OBVIOUS
  <2> QED BY <2>1 DEF Update
<1>2. maxPriority \in V
  OBVIOUS
<1>3. \A m \in V, p \in Priorities : Larger(m, p) \in V
  OBVIOUS
<1> HIDE DEF Larger, V, n
<1>4. step \in [1..n -> [V -> V]]
  BY <1>1, <1>3
<1>5. PICK f : Repeats(f, n, V, maxPriority, step)
  <2> HIDE DEF step
  <2> QED BY <1>1, <1>2, <1>4, Recursion, Zenon
<1>6. Eq(f)
  <2> USE <1>5 DEF Repeats
  <2>1. f = [k \in 0..n |-> f[k]]
    OBVIOUS
  <2>2. ASSUME NEW k \in 0..n, k # 0
        PROVE  f[k] = Larger(f[k - 1], updates[k][2])
    <3>1. k \in 1..n /\ f[k - 1] \in V
      BY <1>1, <2>2
    <3> QED BY <1>5, <3>1
  <2> QED BY <1>5, <2>1, <2>2 DEF Larger
<1> DEFINE it == CHOOSE f1 : Eq(f1)
           S == {k \in Nat : k <= n => it[k] \in V}
<1>7. Eq(it)
  <2> HIDE DEF Eq
  <2> QED BY <1>6
<1>8. updatedMaximum(updates) = it[n]
  BY DEF updatedMaximum, n
<1> HIDE DEF it
<1>9. 0 \in S
  BY <1>1, <1>2, <1>7
<1>10. ASSUME NEW k \in Nat, k \in S PROVE k + 1 \in S
  <2> SUFFICES ASSUME k + 1 <= n PROVE it[k + 1] \in V
    OBVIOUS
  <2> DEFINE j == k + 1
  <2>1. j \in 0..n /\ j # 0 /\ j - 1 = k /\ updates[j][2] \in Priorities
    BY <1>1
  <2> HIDE DEF j
  <2>2. it[j] = Larger(it[j - 1], updates[j][2])
    BY <1>7, <2>1 DEF Larger
  <2>3. it[k] \in V
    BY <1>10, <1>1
  <2>4. it[j] \in V
    BY <1>3, <2>1, <2>2, <2>3
  <2> QED BY <2>4 DEF j
<1>11. it[n] \in V
  <2> HIDE DEF S
  <2>1. n \in S
    BY <1>1, <1>9, <1>10, Induction
  <2> QED BY <2>1 DEF S
<1> QED BY <1>8, <1>11 DEF V

-----------------------------------------------------------------------------
(* The root of a summing tree.                                             *)

FreeLeavesAreZero == \A i \in LeafIndex \ held : sumTree[Leaf(i)] = 0

(* With before[k] the sum of the nodes before k, the nodes from k to 2k    *)
(* add up to the same for every k: passing from an inner k to its          *)
(* successor takes k away and adds its two children.  The first such sum   *)
(* is the root and the last is over the leaves.                            *)
LEMMA RootIsTotal ==
  ASSUME sumTree \in Tree, SumsUp(sumTree), held \subseteq LeafIndex, FreeLeavesAreZero
  PROVE  getTotalPriority = PrioritySum[capacity]
<1> DEFINE nodes == 2 * capacity - 1
           first == capacity - 1
           step == [k \in 1..nodes |-> [sum \in Nat |-> sum + sumTree[k - 1]]]
<1>1. nodes \in Nat /\ first \in Nat /\ nodes = first + capacity
  OBVIOUS
<1>2. step \in [1..nodes -> [Nat -> Nat]]
  BY DEF Tree
<1>3. PICK before : Repeats(before, nodes, Nat, 0, step)
  <2> HIDE DEF step, nodes
  <2> QED BY <1>1, <1>2, Recursion, Zenon
<1>4. /\ before[0] = 0
      /\ \A k \in 0..nodes : before[k] \in Nat
      /\ \A k \in Node : before[k + 1] = before[k] + sumTree[k] /\ sumTree[k] \in Nat
  <2>1. ASSUME NEW k \in Node PROVE before[k + 1] = before[k] + sumTree[k]
    <3> DEFINE j == k + 1
    <3>1. j \in 1..nodes /\ j - 1 = k
      OBVIOUS
    <3> HIDE DEF j
    <3>2. before[j] = step[j][before[j - 1]] /\ before[j - 1] \in Nat
      BY <1>3, <3>1 DEF Repeats
    <3>3. before[j] = before[j - 1] + sumTree[j - 1]
      BY <3>1, <3>2
    <3> QED BY <3>1, <3>3 DEF j
  <2> QED BY <1>3, <2>1 DEF Repeats, Tree
<1> HIDE DEF step
<1> DEFINE Cut == {k \in Nat : k <= first => before[2 * k + 1] - before[k] = sumTree[0]}
<1>5. 0 \in Cut
  <2>1. 0 \in Node
    OBVIOUS
  <2>2. before[1] = sumTree[0]
    BY <1>4, <2>1
  <2> QED BY <1>4, <2>1, <2>2
<1>6. ASSUME NEW k \in Nat, k \in Cut PROVE k + 1 \in Cut
  <2> SUFFICES ASSUME k + 1 <= first
               PROVE  before[2 * (k + 1) + 1] - before[k + 1] = sumTree[0]
    OBVIOUS
  <2>1. k \in Node /\ 2 * k + 1 \in Node /\ 2 * k + 2 \in Node
    OBVIOUS
  <2>2. sumTree[k] = sumTree[2 * k + 1] + sumTree[2 * k + 2]
    BY <2>1 DEF SumsUp, IsInner, Left, Right
  <2>3. /\ before[k + 1] = before[k] + sumTree[k]
        /\ before[2 * k + 2] = before[2 * k + 1] + sumTree[2 * k + 1]
        /\ before[2 * k + 3] = before[2 * k + 2] + sumTree[2 * k + 2]
    BY <1>4, <2>1
  <2>4. before[2 * k + 1] - before[k] = sumTree[0]
    BY <1>6
  <2>5. 2 * (k + 1) + 1 = 2 * k + 3
    OBVIOUS
  <2>6. /\ before[k] \in Nat /\ before[2 * k + 1] \in Nat
        /\ sumTree[2 * k + 1] \in Nat /\ sumTree[2 * k + 2] \in Nat
    BY <1>4, <2>1
  <2> QED BY <2>2, <2>3, <2>4, <2>5, <2>6
<1>7. before[nodes] - before[first] = sumTree[0]
  <2>1. first \in Cut
    <3> HIDE DEF Cut
    <3> QED BY <1>1, <1>5, <1>6, Induction
  <2>2. 2 * first + 1 = nodes
    OBVIOUS
  <2> HIDE DEF nodes, first
  <2> QED BY <2>1, <2>2
<1> DEFINE Eq(f) == f = [n \in 0..capacity |->
                           IF n = 0 THEN 0
                           ELSE f[n - 1] + (IF n - 1 \in held THEN sumTree[Leaf(n - 1)] ELSE 0)]
           sum == [n \in 0..capacity |-> before[first + n] - before[first]]
<1>8. ASSUME NEW n \in 0..capacity, n # 0
      PROVE  before[first + n]
               = before[first + (n - 1)] + (IF n - 1 \in held THEN sumTree[Leaf(n - 1)] ELSE 0)
  <2>1. n - 1 \in LeafIndex /\ Leaf(n - 1) = first + (n - 1) /\ first + (n - 1) \in Node
    BY <1>8 DEF Leaf
  <2>2. before[first + (n - 1) + 1] = before[first + (n - 1)] + sumTree[first + (n - 1)]
    BY <1>4, <2>1
  <2>3. first + (n - 1) + 1 = first + n
    BY <1>8
  <2>4. n - 1 \notin held => sumTree[first + (n - 1)] = 0
    BY <2>1 DEF FreeLeavesAreZero
  <2> HIDE DEF first
  <2> QED BY <2>1, <2>2, <2>3, <2>4
<1>9. \A n \in 0..capacity : before[first + n] \in Nat
  BY <1>4
<1>10. Eq(sum)
  <2>1. ASSUME NEW n \in 0..capacity, n # 0
        PROVE  sum[n] = sum[n - 1] + (IF n - 1 \in held THEN sumTree[Leaf(n - 1)] ELSE 0)
    <3>1. n - 1 \in 0..capacity
      BY <2>1
    <3>2. sum[n] = before[first + n] - before[first]
          /\ sum[n - 1] = before[first + (n - 1)] - before[first]
      BY <3>1
    <3>3. /\ before[first + n] \in Nat /\ before[first + (n - 1)] \in Nat /\ before[first] \in Nat
          /\ n - 1 \in held => sumTree[Leaf(n - 1)] \in Nat
      BY <1>4, <1>9, <3>1, LeafFacts
    <3> HIDE DEF sum
    <3> QED BY <1>8, <2>1, <3>2, <3>3
  <2>2. sum[0] = 0 /\ 0 \in 0..capacity
    BY <1>9
  <2>3. sum = [n \in 0..capacity |-> sum[n]]
    OBVIOUS
  <2> HIDE DEF sum
  <2> QED BY <2>1, <2>2, <2>3
<1>11. Eq(PrioritySum)
  <2>1. PrioritySum = CHOOSE f : Eq(f)
    BY DEF PrioritySum
  <2> HIDE DEF Eq, sum
  <2> QED BY <1>10, <2>1
<1> DEFINE Same == {n \in Nat : n <= capacity =>
                      PrioritySum[n] = before[first + n] - before[first]}
<1>12. 0 \in Same
  <2>1. 0 \in 0..capacity
    OBVIOUS
  <2>2. PrioritySum[0] = 0
    BY <1>11, <2>1
  <2>3. before[first + 0] - before[first] = 0
    BY <1>4
  <2> QED BY <2>2, <2>3
<1>13. ASSUME NEW n \in Nat, n \in Same PROVE n + 1 \in Same
  <2> SUFFICES ASSUME n + 1 <= capacity
               PROVE  PrioritySum[n + 1] = before[first + (n + 1)] - before[first]
    OBVIOUS
  <2> DEFINE m == n + 1
  <2>1. m \in 0..capacity /\ m # 0 /\ m - 1 = n
    OBVIOUS
  <2>2. PrioritySum[m] = PrioritySum[m - 1]
                           + (IF m - 1 \in held THEN sumTree[Leaf(m - 1)] ELSE 0)
    <3> HIDE DEF m, Same
    <3> QED BY <1>11, <2>1
  <2>3. PrioritySum[n] = before[first + n] - before[first]
    BY <1>13
  <2>4. /\ before[first + m] \in Nat /\ before[first + (m - 1)] \in Nat /\ before[first] \in Nat
        /\ m - 1 \in held => sumTree[Leaf(m - 1)] \in Nat
    BY <1>4, <1>9, <2>1, LeafFacts
  <2>5. PrioritySum[m] = before[first + m] - before[first]
    <3> HIDE DEF m, first, Same
    <3> QED BY <1>8, <2>1, <2>2, <2>3, <2>4
  <2> QED BY <2>5
<1>14. PrioritySum[capacity] = before[first + capacity] - before[first]
  <2>1. capacity \in Same
    <3> HIDE DEF Same
    <3> QED BY <1>12, <1>13, Induction
  <2> QED BY <2>1
<1> HIDE DEF nodes, first
<1> QED BY <1>1, <1>7, <1>14 DEF getTotalPriority

-----------------------------------------------------------------------------
(* The inductive invariant, of which the root is left out: that it is the  *)
(* total follows from the sums of the other nodes and the free leaves.     *)

IndInv ==
  TypeOK /\ EveryLeafHeldOrFree /\ SumsUp(sumTree) /\ FreeLeavesAreZero

LEMMA HeldFacts ==
  ASSUME held \subseteq LeafIndex
  PROVE  /\ IsFiniteSet(held) /\ Cardinality(held) \in 0..capacity
         /\ Cardinality(held) = capacity <=> held = LeafIndex
<1>1. IsFiniteSet(LeafIndex) /\ Cardinality(LeafIndex) = capacity
  BY FS_Interval
<1>2. IsFiniteSet(held) /\ Cardinality(held) <= capacity
  BY <1>1, FS_Subset
<1>3. Cardinality(held) = capacity => held = LeafIndex
  BY <1>1, FS_Subset
<1>4. Cardinality(held) \in Nat
  BY <1>2, FS_CardinalityType
<1> QED BY <1>1, <1>2, <1>3, <1>4

LEMMA InitInv == Init => IndInv
<1> SUFFICES ASSUME Init PROVE IndInv
  OBVIOUS
<1> USE DEF Init
<1>1. TypeOK
  BY DEF TypeOK
<1>2. EveryLeafHeldOrFree
  <2>1. ToSet(nextLeafIndices) = {} /\ IsInjective(nextLeafIndices)
    BY DEF ToSet, IsInjective
  <2>2. Cardinality({}) = 0
    BY FS_EmptySet
  <2> QED BY <2>1, <2>2 DEF EveryLeafHeldOrFree, FreeLeaves
<1>3. SumsUp(sumTree)
  BY ChildFacts DEF SumsUp
<1>4. FreeLeavesAreZero
  BY LeafFacts DEF FreeLeavesAreZero
<1> QED BY <1>1, <1>2, <1>3, <1>4 DEF IndInv

(* The leaf given out is free, and the other free leaves stay so.  As long *)
(* as the running index is in use, the leaves before it are those held, so *)
(* that it reaches the end exactly when the buffer becomes full.           *)
LEMMA AddLeaves ==
  ASSUME IndInv, addTransition
  PROVE  /\ getNextLeafIndex \in LeafIndex \ held
         /\ nextLeafIndex' \in LeafIndex \cup {NoIndex}
         /\ nextLeafIndices' \in Seq(LeafIndex)
         /\ currentBufferSize' \in 0..capacity
         /\ EveryLeafHeldOrFree'
<1> DEFINE leafIndex == getNextLeafIndex
<1>1. /\ currentBufferSize # capacity /\ currentBufferSize' = currentBufferSize + 1
      /\ held' = held \cup {leafIndex} /\ advanceNextLeafIndex
  BY DEF addTransition
<1>2. /\ held \subseteq LeafIndex /\ currentBufferSize = Cardinality(held)
      /\ nextLeafIndex \in LeafIndex \cup {NoIndex} /\ nextLeafIndices \in Seq(LeafIndex)
      /\ FreeLeaves = LeafIndex \ held /\ IsInjective(nextLeafIndices)
      /\ nextLeafIndex # NoIndex => nextLeafIndices = << >>
  BY DEF IndInv, TypeOK, EveryLeafHeldOrFree
<1>3. /\ IsFiniteSet(held) /\ currentBufferSize \in 0..capacity
      /\ currentBufferSize + 1 \in 0..capacity /\ held # LeafIndex
  BY <1>1, <1>2, HeldFacts
<1>4. ASSUME leafIndex \in LeafIndex \ held PROVE currentBufferSize' = Cardinality(held')
  BY <1>1, <1>2, <1>3, <1>4, FS_AddElement
<1>5. CASE nextLeafIndex # NoIndex
  <2>1. /\ leafIndex = nextLeafIndex /\ nextLeafIndices' = << >>
        /\ nextLeafIndex' = IF currentBufferSize' = capacity THEN NoIndex ELSE nextLeafIndex + 1
    BY <1>1, <1>2, <1>5 DEF getNextLeafIndex, advanceNextLeafIndex
  <2>2. ToSet(<< >>) = {} /\ IsInjective(<< >>) /\ << >> \in Seq(LeafIndex)
    BY DEF ToSet, IsInjective
  <2>3. nextLeafIndex..(capacity - 1) = LeafIndex \ held
    BY <1>2, <1>5, <2>2 DEF FreeLeaves
  <2>4. held = 0..(nextLeafIndex - 1) /\ nextLeafIndex \in LeafIndex
    <3>1. nextLeafIndex \in LeafIndex
      BY <1>2, <1>5
    <3>2. ASSUME NEW i \in LeafIndex PROVE i \in held <=> i \in 0..(nextLeafIndex - 1)
      <4>1. i \in nextLeafIndex..(capacity - 1) <=> i \notin held
        BY <2>3
      <4> QED BY <3>1, <4>1
    <3>3. 0..(nextLeafIndex - 1) \subseteq LeafIndex
      BY <3>1
    <3> QED BY <1>2, <3>1, <3>2, <3>3
  <2>5. currentBufferSize = nextLeafIndex
    BY <1>2, <2>4, FS_Interval
  <2>6. leafIndex \in LeafIndex \ held
    BY <2>1, <2>4
  <2>7. /\ nextLeafIndex' \in LeafIndex \cup {NoIndex}
        /\ (IF nextLeafIndex' = NoIndex THEN {} ELSE nextLeafIndex'..(capacity - 1))
             = LeafIndex \ held'
    BY <1>1, <2>1, <2>4, <2>5
  <2> QED BY <1>1, <1>3, <1>4, <2>1, <2>2, <2>6, <2>7 DEF EveryLeafHeldOrFree, FreeLeaves
<1>6. CASE nextLeafIndex = NoIndex
  <2> DEFINE queue == nextLeafIndices
  <2>1. /\ leafIndex = Head(queue) /\ nextLeafIndices' = Tail(queue) /\ nextLeafIndex' = NoIndex
    BY <1>1, <1>6 DEF getNextLeafIndex, advanceNextLeafIndex
  <2>2. ToSet(queue) = LeafIndex \ held
    BY <1>2, <1>6 DEF FreeLeaves
  <2>3. queue # << >>
    <3>1. ToSet(queue) # {}
      BY <1>2, <1>3, <2>2
    <3> QED BY <3>1 DEF ToSet
  <2>4. /\ leafIndex \in ToSet(queue) /\ Tail(queue) \in Seq(LeafIndex)
        /\ ToSet(Tail(queue)) = ToSet(queue) \ {leafIndex} /\ IsInjective(Tail(queue))
    <3> HIDE DEF queue
    <3> DEFINE len == Len(queue)
               rest == Tail(queue)
    <3>1. queue \in Seq(LeafIndex) /\ IsInjective(queue)
      BY <1>2 DEF queue
    <3>2. /\ len \in Nat \ {0} /\ DOMAIN queue = 1..len /\ queue[1] = leafIndex
          /\ rest \in Seq(LeafIndex) /\ DOMAIN rest = 1..(len - 1)
          /\ \A k \in 1..(len - 1) : rest[k] = queue[k + 1]
      BY <2>1, <2>3, <3>1
    <3> HIDE DEF len, rest
    <3>3. \A j, k \in 1..len : queue[j] = queue[k] => j = k
      BY <3>1, <3>2 DEF IsInjective
    <3>4. IsInjective(rest)
      <4> SUFFICES ASSUME NEW j \in 1..(len - 1), NEW k \in 1..(len - 1), rest[j] = rest[k]
                   PROVE  j = k
        BY <3>2 DEF IsInjective
      <4>1. j + 1 \in 1..len /\ k + 1 \in 1..len
        BY <3>2
      <4>2. j + 1 = k + 1
        BY <3>2, <3>3, <4>1
      <4> QED BY <4>2
    <3>5. ToSet(rest) \subseteq ToSet(queue) \ {leafIndex}
      <4> SUFFICES ASSUME NEW k \in 1..(len - 1)
                   PROVE  rest[k] \in ToSet(queue) \ {leafIndex}
        BY <3>2 DEF ToSet
      <4>1. k + 1 \in 1..len /\ k + 1 # 1 /\ 1 \in 1..len
        BY <3>2
      <4>2. rest[k] = queue[k + 1]
        BY <3>2
      <4>3. queue[k + 1] # leafIndex
        BY <3>2, <3>3, <4>1
      <4> QED BY <3>2, <4>1, <4>2, <4>3 DEF ToSet
    <3>6. ToSet(queue) \ {leafIndex} \subseteq ToSet(rest)
      <4> SUFFICES ASSUME NEW k \in 1..len, queue[k] # leafIndex PROVE queue[k] \in ToSet(rest)
        BY <3>2 DEF ToSet
      <4>1. k - 1 \in 1..(len - 1) /\ (k - 1) + 1 = k
        BY <3>2
      <4>2. rest[k - 1] = queue[k]
        BY <3>2, <4>1
      <4> QED BY <3>2, <4>1, <4>2 DEF ToSet
    <3>7. leafIndex \in ToSet(queue)
      <4>1. 1 \in DOMAIN queue
        BY <3>2
      <4> QED BY <3>2, <4>1 DEF ToSet
    <3> QED BY <3>2, <3>4, <3>5, <3>6, <3>7 DEF rest
  <2>5. leafIndex \in LeafIndex \ held /\ ToSet(Tail(queue)) = LeafIndex \ held'
    BY <1>1, <2>2, <2>4
  <2> HIDE DEF queue
  <2> QED BY <1>1, <1>3, <1>4, <2>1, <2>4, <2>5 DEF EveryLeafHeldOrFree, FreeLeaves
<1> QED BY <1>2, <1>5, <1>6

(* The queue takes over exactly the free leaves.                           *)
LEMMA QueuedAreFree ==
  ASSUME IndInv
  PROVE  /\ QueuedLeaves \in Seq(LeafIndex)
         /\ ToSet(QueuedLeaves) = LeafIndex \ held
         /\ IsInjective(QueuedLeaves)
<1>1. /\ nextLeafIndex \in LeafIndex \cup {NoIndex} /\ nextLeafIndices \in Seq(LeafIndex)
      /\ FreeLeaves = LeafIndex \ held /\ IsInjective(nextLeafIndices)
      /\ nextLeafIndex # NoIndex => nextLeafIndices = << >>
  BY DEF IndInv, TypeOK, EveryLeafHeldOrFree
<1>2. CASE nextLeafIndex = NoIndex
  BY <1>1, <1>2 DEF QueuedLeaves, FreeLeaves
<1>3. CASE nextLeafIndex # NoIndex
  <2> DEFINE len == capacity - nextLeafIndex
             queue == [k \in 1..len |-> nextLeafIndex + k - 1]
  <2>1. nextLeafIndex \in LeafIndex /\ len \in Nat
    BY <1>1, <1>3
  <2>2. queue \in Seq(LeafIndex)
    BY <2>1
  <2>3. QueuedLeaves = queue
    <3>1. QueuedLeaves = << >> \o queue
      BY <1>1, <1>3 DEF QueuedLeaves
    <3> HIDE DEF queue
    <3> QED BY <2>2, <3>1, ConcatEmptySeq
  <2>4. DOMAIN queue = 1..len /\ \A k \in 1..len : queue[k] = nextLeafIndex + k - 1
    OBVIOUS
  <2> HIDE DEF queue
  <2>5. IsInjective(queue)
    BY <2>1, <2>4 DEF IsInjective
  <2>6. ToSet(queue) = nextLeafIndex..(capacity - 1)
    <3>1. ASSUME NEW i \in nextLeafIndex..(capacity - 1) PROVE i \in ToSet(queue)
      <4>1. i - nextLeafIndex + 1 \in 1..len
        BY <2>1, <3>1
      <4>2. queue[i - nextLeafIndex + 1] = i
        BY <2>1, <2>4, <3>1, <4>1
      <4> QED BY <2>4, <4>1, <4>2 DEF ToSet
    <3>2. ASSUME NEW k \in 1..len PROVE queue[k] \in nextLeafIndex..(capacity - 1)
      BY <2>1, <2>4, <3>2
    <3> QED BY <2>4, <3>1, <3>2 DEF ToSet
  <2>7. FreeLeaves = nextLeafIndex..(capacity - 1)
    <3>1. ToSet(<< >>) = {}
      BY DEF ToSet
    <3> QED BY <1>1, <1>3, <3>1 DEF FreeLeaves
  <2> QED BY <1>1, <2>2, <2>3, <2>5, <2>6, <2>7
<1> QED BY <1>2, <1>3

(* A deleted leaf is queued once more; deleting from an empty buffer only  *)
(* fills the queue.                                                        *)
LEMMA DeleteLeaves ==
  ASSUME IndInv, NEW id \in LeafIndex, id \in held \/ held = {}, deleteTransition(id)
  PROVE  /\ nextLeafIndex' = NoIndex
         /\ nextLeafIndices' \in Seq(LeafIndex)
         /\ currentBufferSize' \in 0..capacity
         /\ EveryLeafHeldOrFree'
         /\ IF held = {} THEN UNCHANGED <<sumTree, held>>
            ELSE /\ id \in held /\ held' = held \ {id}
                 /\ sumTree' = updateTreeForChangedLeaf(sumTree, id, 0)
<1> DEFINE queue == QueuedLeaves
<1>1. /\ queue \in Seq(LeafIndex) /\ ToSet(queue) = LeafIndex \ held /\ IsInjective(queue)
  BY QueuedAreFree
<1>2. /\ held \subseteq LeafIndex /\ currentBufferSize = Cardinality(held)
      /\ currentBufferSize \in 0..capacity /\ IsFiniteSet(held)
  BY HeldFacts DEF IndInv, TypeOK, EveryLeafHeldOrFree
<1>3. currentBufferSize = 0 <=> held = {}
  BY <1>2, FS_EmptySet
<1> HIDE DEF queue
<1>4. CASE held = {}
  <2>1. /\ nextLeafIndex' = NoIndex /\ nextLeafIndices' = queue
        /\ UNCHANGED <<sumTree, currentBufferSize, held>>
    BY <1>3, <1>4 DEF deleteTransition, queue
  <2> QED BY <1>1, <1>2, <1>4, <2>1 DEF EveryLeafHeldOrFree, FreeLeaves
<1>5. CASE held # {}
  <2> DEFINE longer == Append(queue, id)
             len == Len(queue)
  <2>1. /\ nextLeafIndex' = NoIndex /\ nextLeafIndices' = longer
        /\ currentBufferSize' = currentBufferSize - 1 /\ held' = held \ {id}
        /\ sumTree' = updateTreeForChangedLeaf(sumTree, id, 0)
    BY <1>3, <1>5 DEF deleteTransition, queue
  <2>2. id \in held /\ id \notin ToSet(queue)
    BY <1>1, <1>5
  <2>3. /\ len \in Nat /\ DOMAIN queue = 1..len
        /\ longer \in Seq(LeafIndex) /\ DOMAIN longer = 1..(len + 1)
        /\ longer[len + 1] = id /\ \A k \in 1..len : longer[k] = queue[k]
    BY <1>1
  <2> HIDE DEF longer, len
  <2>4. IsInjective(longer)
    <3>1. \A k \in 1..len : longer[k] # id
      BY <2>2, <2>3 DEF ToSet
    <3> QED BY <1>1, <2>3, <3>1 DEF IsInjective
  <2>5. ToSet(longer) = LeafIndex \ held'
    <3>1. ToSet(longer) = ToSet(queue) \cup {id}
      <4>1. len + 1 \in DOMAIN longer
        BY <2>3
      <4>2. \A k \in DOMAIN longer : k = len + 1 \/ k \in 1..len
        BY <2>3
      <4> QED BY <2>3, <4>1, <4>2 DEF ToSet
    <3> QED BY <1>1, <1>2, <2>1, <2>2, <3>1
  <2>6. currentBufferSize' = Cardinality(held') /\ currentBufferSize' \in 0..capacity
    <3>1. Cardinality(held \ {id}) = Cardinality(held) - 1
      BY <1>2, <2>2, FS_RemoveElement
    <3>2. Cardinality(held') = Cardinality(held \ {id})
      BY <2>1, Zenon
    <3>3. currentBufferSize # 0
      BY <1>3, <1>5, Zenon
    <3> DEFINE c == Cardinality(held)
               d == Cardinality(held \ {id})
               e == Cardinality(held')
    <3> HIDE DEF c, d, e
    <3>4. /\ d = c - 1 /\ e = d /\ currentBufferSize = c
          /\ currentBufferSize' = currentBufferSize - 1
      BY <1>2, <2>1, <3>1, <3>2, Zenon DEF c, d, e
    <3>5. currentBufferSize' = e /\ currentBufferSize' \in 0..capacity
      BY <1>2, <3>3, <3>4
    <3> QED BY <3>5 DEF e
  <2> QED BY <1>5, <2>1, <2>2, <2>3, <2>4, <2>5, <2>6 DEF EveryLeafHeldOrFree, FreeLeaves
<1> QED BY <1>4, <1>5

(* What Next lets updatePriorities take are sequences of updates.          *)
LEMMA UpdatesAreSequences ==
  ASSUME NEW updates \in UNION {[1..n -> Update] : n \in 1..BatchSize}
  PROVE  updates \in Seq(Update)
<1>1. PICK n \in 1..BatchSize : updates \in [1..n -> Update]
  OBVIOUS
<1> QED BY <1>1

(* Each operation keeps the leaves as they are above, and the tree by what *)
(* its update of leaves does to it.                                        *)
LEMMA Invariance ==
  ASSUME IndInv, [Next]_vars
  PROVE  IndInv'
<1>1. /\ sumTree \in Tree /\ SumsUp(sumTree) /\ FreeLeavesAreZero
      /\ held \subseteq LeafIndex /\ maxPriority \in Nat
  BY DEF IndInv, TypeOK, Tree
<1>2. CASE UNCHANGED vars
  BY <1>2 DEF vars, IndInv, TypeOK, EveryLeafHeldOrFree, FreeLeaves, SumsUp, FreeLeavesAreZero
<1>3. CASE addTransition
  <2> DEFINE leafIndex == getNextLeafIndex
  <2>1. /\ leafIndex \in LeafIndex \ held /\ nextLeafIndex' \in LeafIndex \cup {NoIndex}
        /\ nextLeafIndices' \in Seq(LeafIndex) /\ currentBufferSize' \in 0..capacity
        /\ EveryLeafHeldOrFree'
    BY <1>3, AddLeaves
  <2>2. /\ sumTree' = updateTreeForChangedLeaf(sumTree, leafIndex, maxPriority)
        /\ held' = held \cup {leafIndex} /\ maxPriority' = maxPriority
    BY <1>3 DEF addTransition
  <2> HIDE DEF leafIndex
  <2>3. Changes(sumTree', sumTree, leafIndex, maxPriority)
    BY <1>1, <2>1, <2>2, ChangedLeaf
  <2>4. TypeOK'
    BY <1>1, <2>1, <2>2, <2>3 DEF TypeOK, Changes, Tree
  <2>5. SumsUp(sumTree') /\ FreeLeavesAreZero'
    BY <1>1, <2>2, <2>3 DEF Changes, FreeLeavesAreZero
  <2> QED BY <2>1, <2>4, <2>5 DEF IndInv, SumsUp
<1>4. ASSUME NEW id \in LeafIndex, id \in held \/ held = {}, deleteTransition(id)
      PROVE  IndInv'
  <2>1. /\ nextLeafIndex' = NoIndex /\ nextLeafIndices' \in Seq(LeafIndex)
        /\ currentBufferSize' \in 0..capacity /\ EveryLeafHeldOrFree'
        /\ IF held = {} THEN UNCHANGED <<sumTree, held>>
           ELSE /\ id \in held /\ held' = held \ {id}
                /\ sumTree' = updateTreeForChangedLeaf(sumTree, id, 0)
    BY <1>4, DeleteLeaves
  <2>2. maxPriority' = maxPriority
    BY <1>4 DEF deleteTransition
  <2>3. CASE held = {}
    BY <1>1, <2>1, <2>2, <2>3 DEF IndInv, TypeOK, Tree, SumsUp, FreeLeavesAreZero
  <2>4. CASE held # {}
    <3>1. Changes(sumTree', sumTree, id, 0)
      BY <1>1, <1>4, <2>1, <2>4, ChangedLeaf
    <3>2. TypeOK'
      BY <1>1, <2>1, <2>2, <2>4, <3>1 DEF TypeOK, Changes, Tree
    <3>3. SumsUp(sumTree') /\ FreeLeavesAreZero'
      BY <1>1, <2>1, <2>4, <3>1 DEF Changes, FreeLeavesAreZero
    <3> QED BY <2>1, <3>2, <3>3 DEF IndInv, SumsUp
  <2> QED BY <2>3, <2>4
<1>5. ASSUME NEW updates \in UNION {[1..n -> Update] : n \in 1..BatchSize},
             updatePriorities(updates)
      PROVE  IndInv'
  <2>1. updates \in Seq(Update)
    BY UpdatesAreSequences
  <2>2. /\ sumTree' = updatedTree(updates) /\ maxPriority' = updatedMaximum(updates)
        /\ UNCHANGED <<nextLeafIndex, nextLeafIndices, currentBufferSize, held>>
    BY <1>5 DEF updatePriorities, freeLeaves
  <2>3. sumTree' \in Updated
    BY <1>1, <2>1, <2>2, UpdatedTree
  <2>4. maxPriority' \in Nat
    BY <1>1, <2>1, <2>2, UpdatedMaximum
  <2>5. TypeOK'
    BY <2>2, <2>3, <2>4 DEF IndInv, TypeOK, Updated, Tree
  <2>6. EveryLeafHeldOrFree'
    BY <2>2 DEF IndInv, EveryLeafHeldOrFree, FreeLeaves
  <2>7. SumsUp(sumTree') /\ FreeLeavesAreZero'
    BY <1>1, <2>2, <2>3 DEF Updated, FreeLeavesAreZero
  <2> QED BY <2>5, <2>6, <2>7 DEF IndInv, SumsUp
<1> QED BY <1>2, <1>3, <1>4, <1>5 DEF Next

-----------------------------------------------------------------------------
(* What holds of every buffer.                                             *)

(* No leaf is lost or serves two transitions, and the sum tree sums the    *)
(* priorities of the transitions, for every capacity, all priorities and   *)
(* any sequence of additions, deletions and updates (ReplayBuffer).        *)
THEOREM ConsistentAlways == Spec => []Consistent
<1>1. IndInv => Consistent
  <2> SUFFICES ASSUME IndInv PROVE Consistent
    OBVIOUS
  <2>1. getTotalPriority = PrioritySum[capacity]
    BY RootIsTotal DEF IndInv, TypeOK, Tree
  <2> QED BY <2>1 DEF IndInv, Consistent, TreeSumsPriorities, SumsUp, FreeLeavesAreZero
<1> QED BY InitInv, Invariance, <1>1, PTL DEF Spec

(* The priorities of the transitions, as the pool has them.                *)
Priority == [id \in held |-> sumTree[Leaf(id)]]

LEMMA PoolInit == Init => Pool!Init
BY DEF Init, Pool!Init

LEMMA PoolAdd ==
  ASSUME IndInv, addTransition
  PROVE  Pool!Next
<1> DEFINE id == getNextLeafIndex
<1>1. id \in LeafIndex \ held
  BY AddLeaves
<1>2. /\ sumTree' = updateTreeForChangedLeaf(sumTree, id, maxPriority)
      /\ held' = held \cup {id} /\ currentBufferSize' = currentBufferSize + 1
      /\ maxPriority' = maxPriority
  BY DEF addTransition
<1> HIDE DEF id
<1>3. Changes(sumTree', sumTree, id, maxPriority) /\ held \subseteq LeafIndex
  BY <1>1, <1>2, ChangedLeaf DEF IndInv, TypeOK, Tree
<1>4. Priority' = [i \in held \cup {id} |-> IF i = id THEN maxPriority ELSE Priority[i]]
  BY <1>1, <1>2, <1>3 DEF Priority, Changes
<1>5. Pool!Held = held
  BY DEF Pool!Held
<1>6. Pool!AddTransition(id)
  BY <1>1, <1>2, <1>4, <1>5 DEF Pool!AddTransition, Priority
<1> QED BY <1>1, <1>6 DEF Pool!Next

LEMMA PoolDelete ==
  ASSUME IndInv, NEW id \in LeafIndex, id \in held \/ held = {}, deleteTransition(id)
  PROVE  Pool!Next \/ UNCHANGED Pool!vars
<1>1. currentBufferSize = 0 <=> held = {}
  BY HeldFacts, FS_EmptySet DEF IndInv, TypeOK, EveryLeafHeldOrFree
<1>2. maxPriority' = maxPriority
  BY DEF deleteTransition
<1>3. CASE held = {}
  <2>1. UNCHANGED <<sumTree, currentBufferSize, held>>
    BY <1>1, <1>3 DEF deleteTransition
  <2> QED BY <1>2, <2>1 DEF Pool!vars
<1>4. CASE held # {}
  <2>1. /\ sumTree' = updateTreeForChangedLeaf(sumTree, id, 0) /\ held' = held \ {id}
        /\ currentBufferSize' = currentBufferSize - 1 /\ id \in held
    BY <1>1, <1>4 DEF deleteTransition
  <2>2. Changes(sumTree', sumTree, id, 0) /\ held \subseteq LeafIndex
    BY <2>1, ChangedLeaf DEF IndInv, TypeOK, Tree
  <2>3. Priority' = [i \in held \ {id} |-> Priority[i]]
    BY <2>1, <2>2 DEF Priority, Changes
  <2>4. Pool!Held = held
    BY DEF Pool!Held
  <2>5. Pool!DeleteTransition(id)
    BY <1>2, <2>1, <2>3, <2>4 DEF Pool!DeleteTransition, Priority
  <2> QED BY <2>5 DEF Pool!Next
<1> QED BY <1>3, <1>4

(* Of the ids updated, the pool takes those whose priority is another.     *)
LEMMA PoolUpdate ==
  ASSUME IndInv, NEW updates \in Seq(Update), updatePriorities(updates)
  PROVE  Pool!Next
<1>1. /\ sumTree' = updatedTree(updates) /\ maxPriority' = updatedMaximum(updates)
      /\ held' = held /\ currentBufferSize' = currentBufferSize
  BY DEF updatePriorities
<1>2. sumTree' \in Updated /\ held \subseteq LeafIndex
  BY <1>1, UpdatedTree DEF IndInv, TypeOK, Tree
<1>3. maxPriority' \in {maxPriority} \cup Priorities /\ maxPriority' >= maxPriority
  BY <1>1, UpdatedMaximum DEF IndInv, TypeOK
<1> DEFINE ids == {i \in held : sumTree'[Leaf(i)] # sumTree[Leaf(i)]}
           p == [i \in ids |-> sumTree'[Leaf(i)]]
<1>4. p \in [ids -> Priorities]
  BY <1>2 DEF Updated
<1>5. Priority' = [i \in held |-> IF i \in ids THEN p[i] ELSE Priority[i]]
  BY <1>1 DEF Priority
<1>6. Pool!Held = held
  BY DEF Pool!Held
<1>7. ids \subseteq held
  OBVIOUS
<1> HIDE DEF ids, p
<1>8. Pool!UpdatePriorities(ids)
  BY <1>1, <1>3, <1>4, <1>5, <1>6, <1>7 DEF Pool!UpdatePriorities, Priority
<1> QED BY <1>6, <1>7, <1>8 DEF Pool!Next

(* The buffer implements a pool of transitions with priorities, whatever   *)
(* its capacity: an id is given out only while it is free, and adding,     *)
(* deleting and updating change the transitions named and no other.        *)
THEOREM ImplementsPoolAlways == Spec => ImplementsPool
<1>1. IndInv /\ [Next]_vars => [Pool!Next]_(Pool!vars)
  <2> SUFFICES ASSUME IndInv, [Next]_vars PROVE Pool!Next \/ UNCHANGED Pool!vars
    OBVIOUS
  <2>1. CASE UNCHANGED vars
    BY <2>1 DEF vars, Pool!vars
  <2>2. CASE addTransition
    BY <2>2, PoolAdd
  <2>3. ASSUME NEW id \in LeafIndex, id \in held \/ held = {}, deleteTransition(id)
        PROVE  Pool!Next \/ UNCHANGED Pool!vars
    BY <2>3, PoolDelete
  <2>4. ASSUME NEW updates \in UNION {[1..n -> Update] : n \in 1..BatchSize},
               updatePriorities(updates)
        PROVE  Pool!Next
    BY <2>4, PoolUpdate, UpdatesAreSequences
  <2> QED BY <2>1, <2>2, <2>3, <2>4 DEF Next
<1> QED BY InitInv, Invariance, PoolInit, <1>1, PTL DEF Spec, Pool!Spec, ImplementsPool

-----------------------------------------------------------------------------
(* The descent of retrieveLeaf.                                            *)

Descends(descend, tree, node, value) ==
  descend[node][value]
    = IF ~IsInner(node) THEN node - (capacity - 1)
      ELSE IF value <= tree[Left(node)] THEN descend[Left(node)][value]
      ELSE descend[Right(node)]
             [IF value - tree[Left(node)] <= tree[Right(node)] THEN value - tree[Left(node)]
              ELSE tree[Right(node)]]

(* The descent there is: it is found from the last node to the first.      *)
LEMMA DescentEquation ==
  ASSUME NEW tree \in Tree
  PROVE  \E descend :
           /\ \A value : retrieveLeaf(tree, value) = descend[0][value]
           /\ \A node \in Node, value \in Nat : Descends(descend, tree, node, value)
<1> DEFINE last == 2 * capacity - 2
           Way(descend, node, value) ==
             IF ~IsInner(node) THEN node - (capacity - 1)
             ELSE IF value <= tree[Left(node)] THEN descend[Left(node)][value]
             ELSE LET rest == value - tree[Left(node)]
                  IN descend[Right(node)]
                       [IF rest <= tree[Right(node)] THEN rest ELSE tree[Right(node)]]
           From(descend, first) ==
             /\ descend \in [first..last -> [Nat -> Int]]
             /\ \A node \in first..last, value \in Nat :
                  descend[node][value] = Way(descend, node, value)
           S == {m \in Nat : m <= last + 1 => \E descend : From(descend, last + 1 - m)}
           Eq(descend) == descend = [node \in Node |-> [value \in Nat |->
                                       Way(descend, node, value)]]
<1>1. last \in Nat
  OBVIOUS
<1>2. 0 \in S
  <2>1. PICK d : d \in [(last + 1)..last -> [Nat -> Int]]
    <3>1. [n \in (last + 1)..last |-> [value \in Nat |-> 0]]
            \in [(last + 1)..last -> [Nat -> Int]]
      OBVIOUS
    <3> QED BY <3>1, Zenon
  <2>2. last + 1 - 0 = last + 1 /\ (last + 1)..last = {}
    OBVIOUS
  <2> HIDE DEF last
  <2>3. From(d, last + 1)
    BY <2>1, <2>2
  <2> HIDE DEF From
  <2> QED BY <2>2, <2>3
<1>3. ASSUME NEW m \in Nat, m \in S PROVE m + 1 \in S
  <2> DEFINE x == last - m
  <2> SUFFICES ASSUME m + 1 <= last + 1 PROVE \E descend : From(descend, x)
    <3> HIDE DEF From
    <3> QED OBVIOUS
  <2>1. PICK d : From(d, x + 1)
    <3> HIDE DEF From
    <3> QED BY <1>3
  <2>2. x \in Node
    OBVIOUS
  <2>3. ASSUME NEW n \in x..last, IsInner(n)
        PROVE  Left(n) \in (x + 1)..last /\ Right(n) \in (x + 1)..last
    <3>1. n \in Node
      BY <2>2
    <3> QED BY <2>2, <2>3, <3>1, ChildFacts
  <2> DEFINE v == [value \in Nat |-> Way(d, x, value)]
             more == [n \in x..last |-> IF n = x THEN v ELSE d[n]]
  <2>4. ASSUME NEW value \in Nat PROVE Way(d, x, value) \in Int
    <3>1. CASE ~IsInner(x)
      BY <2>2, <3>1
    <3>2. CASE IsInner(x)
      <4> DEFINE l == tree[Left(x)]
                 r == tree[Right(x)]
      <4>1. /\ Left(x) \in (x + 1)..last /\ Right(x) \in (x + 1)..last
            /\ Left(x) \in Node /\ Right(x) \in Node
        BY <2>2, <2>3, <3>2
      <4>2. d[Left(x)] \in [Nat -> Int] /\ d[Right(x)] \in [Nat -> Int]
        BY <2>1, <4>1
      <4>3. l \in Nat /\ r \in Nat
        BY <4>1 DEF Tree
      <4> HIDE DEF l, r
      <4>4. value > l => (IF value - l <= r THEN value - l ELSE r) \in Nat
        BY <4>3
      <4>5. Way(d, x, value) = IF value <= l THEN d[Left(x)][value]
                               ELSE d[Right(x)][IF value - l <= r THEN value - l ELSE r]
        BY <3>2 DEF l, r
      <4> HIDE DEF Way
      <4> QED BY <4>2, <4>3, <4>4, <4>5
    <3> QED BY <3>1, <3>2
  <2>5. v \in [Nat -> Int] /\ \A value \in Nat : v[value] = Way(d, x, value)
    <3> HIDE DEF Way
    <3> QED BY <2>4
  <2> HIDE DEF v
  <2>6. more \in [x..last -> [Nat -> Int]] /\ more[x] = v
        /\ \A n \in (x + 1)..last : more[n] = d[n]
    BY <2>1, <2>2, <2>5
  <2> HIDE DEF more
  <2>7. ASSUME NEW n \in x..last, NEW value \in Nat
        PROVE  more[n][value] = Way(more, n, value)
    <3>1. Way(more, n, value) = Way(d, n, value)
      <4>1. CASE ~IsInner(n)
        BY <4>1
      <4>2. CASE IsInner(n)
        <5>1. more[Left(n)] = d[Left(n)] /\ more[Right(n)] = d[Right(n)]
          BY <2>3, <2>6, <4>2
        <5> QED BY <5>1
      <4> QED BY <4>1, <4>2
    <3>2. CASE n = x
      <4> HIDE DEF Way
      <4> QED BY <2>5, <2>6, <3>1, <3>2
    <3>3. CASE n # x
      <4>1. n \in (x + 1)..last
        BY <2>2, <3>3
      <4>2. d[n][value] = Way(d, n, value)
        <5> HIDE DEF Way, x
        <5> QED BY <2>1, <4>1
      <4> HIDE DEF Way, x
      <4> QED BY <2>6, <3>1, <4>1, <4>2
    <3> QED BY <3>2, <3>3
  <2>8. From(more, x)
    <3> HIDE DEF Way
    <3> QED BY <2>6, <2>7
  <2> HIDE DEF From
  <2> QED BY <2>8
<1>4. PICK d : From(d, 0)
  <2> HIDE DEF S, From
  <2>1. last + 1 \in S
    BY <1>1, <1>2, <1>3, Induction
  <2>2. last + 1 - (last + 1) = 0
    OBVIOUS
  <2> HIDE DEF last
  <2> QED BY <1>1, <2>1, <2>2 DEF S
<1>5. Eq(d)
  <2> HIDE DEF Way
  <2>1. d = [node \in Node |-> d[node]]
    BY <1>4
  <2>2. ASSUME NEW node \in Node PROVE d[node] = [value \in Nat |-> Way(d, node, value)]
    <3>1. d[node] = [value \in Nat |-> d[node][value]]
      BY <1>4
    <3> QED BY <1>4, <3>1
  <2> QED BY <2>1, <2>2
<1> DEFINE it == CHOOSE f : Eq(f)
<1>6. Eq(it)
  <2> HIDE DEF Eq
  <2> QED BY <1>5
<1>7. \A value : retrieveLeaf(tree, value) = it[0][value]
  BY DEF retrieveLeaf
<1> HIDE DEF it
<1>8. ASSUME NEW node \in Node, NEW value \in Nat PROVE Descends(it, tree, node, value)
  <2>1. it[node][value] = Way(it, node, value)
    <3> DEFINE row == [node1 \in Node |-> [value1 \in Nat |-> Way(it, node1, value1)]]
    <3>1. it = row
      BY <1>6
    <3> HIDE DEF Way
    <3>2. row[node] = [value1 \in Nat |-> Way(it, node, value1)]
      OBVIOUS
    <3>3. row[node][value] = Way(it, node, value)
      BY <3>2
    <3> HIDE DEF row
    <3> QED BY <3>1, <3>3
  <2> QED BY <2>1 DEF Descends
<1> QED BY <1>7, <1>8

Found(descend, tree, node, leafIndex) ==
  {value \in 1..tree[node] : descend[node][value] = leafIndex}

(* The values that lead from a node to a leaf: as many as its priority     *)
(* says, one after the other, when the node is on the way to it.           *)
Proportional(descend, tree, node, leafIndex) ==
  IF node \in Path(Leaf(leafIndex))
  THEN \E a \in Nat : Found(descend, tree, node, leafIndex) = (a + 1)..(a + tree[Leaf(leafIndex)])
  ELSE Found(descend, tree, node, leafIndex) = {}

LEMMA EveryNodeProportional ==
  ASSUME NEW tree \in Tree, SumsUp(tree), NEW leafIndex \in LeafIndex, NEW descend,
         \A node \in Node, value \in Nat : Descends(descend, tree, node, value)
  PROVE  \A node \in Node : Proportional(descend, tree, node, leafIndex)
<1> DEFINE last == 2 * capacity - 2
           leaf == Leaf(leafIndex)
           Good(node) == Proportional(descend, tree, node, leafIndex)
           found(node) == Found(descend, tree, node, leafIndex)
           Wrong == {m \in 0..last : ~Good(last - m)}
<1>1. leaf \in Node /\ ~IsInner(leaf) /\ leaf - (capacity - 1) = leafIndex
  BY DEF Leaf, IsInner, Left
<1> HIDE DEF leaf
<1>2. PathsClimb(leaf) /\ OneWayDown(leaf)
  BY <1>1, PathFacts, PathForks
<1>3. ASSUME NEW node \in Node, ~IsInner(node) PROVE Good(node)
  <2>1. \A value \in Nat : descend[node][value] = node - (capacity - 1)
    BY <1>3 DEF Descends
  <2>2. node \in Path(leaf) <=> node = leaf
    BY <1>2, <1>3 DEF Path, PathsClimb
  <2>3. CASE node = leaf
    <3>1. found(node) = (0 + 1)..(0 + tree[leaf])
      <4>1. tree[leaf] \in Nat
        BY <1>1 DEF Tree
      <4>2. \A value \in 1..tree[leaf] : descend[leaf][value] = leafIndex
        BY <1>1, <2>1, <2>3, <4>1
      <4>3. found(leaf) = 1..tree[leaf]
        BY ONLY <4>2 DEF Found
      <4> QED BY <2>3, <4>1, <4>3
    <3> QED BY <2>2, <2>3, <3>1 DEF Proportional, leaf
  <2>4. CASE node # leaf
    <3>1. node - (capacity - 1) # leafIndex
      BY <1>1, <2>4
    <3>2. found(node) = {}
      BY <2>1, <3>1 DEF Found
    <3> QED BY <2>2, <2>4, <3>2 DEF Proportional, leaf
  <2> QED BY <2>3, <2>4
<1>4. ASSUME NEW node \in Node, IsInner(node), Good(Left(node)), Good(Right(node))
      PROVE  Good(node)
  <2> DEFINE l == tree[Left(node)]
             r == tree[Right(node)]
  <2>1. /\ Left(node) \in Node \ {0} /\ Right(node) \in Node \ {0}
        /\ Parent(Left(node)) = node /\ Parent(Right(node)) = node
    BY <1>4, ChildFacts
  <2>2. l \in Nat /\ r \in Nat /\ tree[node] = l + r
    BY <1>4, <2>1 DEF Tree, SumsUp
  <2>3. tree[leaf] \in Nat
    BY <1>1 DEF Tree
  <2> HIDE DEF l, r
  <2>4. ASSUME NEW value \in 1..(l + r)
        PROVE  descend[node][value] = IF value <= l THEN descend[Left(node)][value]
                                      ELSE descend[Right(node)][value - l]
    <3>1. value > l => value - l <= r
      BY <2>2
    <3>2. value \in Nat
      BY <2>2
    <3>3. Descends(descend, tree, node, value)
      BY <3>2
    <3>4. descend[node][value]
            = IF value <= l THEN descend[Left(node)][value]
              ELSE descend[Right(node)][IF value - l <= r THEN value - l ELSE r]
      BY <1>4, <3>3, Zenon DEF Descends, l, r
    <3> DEFINE rest == IF value - l <= r THEN value - l ELSE r
    <3>5. value > l => rest = value - l
      BY <2>2, <3>1
    <3>6. value <= l \/ value > l
      BY <2>2
    <3> HIDE DEF rest
    <3> QED BY <3>4, <3>5, <3>6 DEF rest
  <2>5. ASSUME NEW value
        PROVE  value \in found(node) <=> \/ value \in 1..l /\ value \in found(Left(node))
                                         \/ /\ value \in (l + 1)..(l + r)
                                            /\ value - l \in found(Right(node))
    <3>1. CASE value \in 1..l
      BY <2>2, <2>4, <3>1 DEF Found, l
    <3>2. CASE value \in (l + 1)..(l + r)
      BY <2>2, <2>4, <3>2 DEF Found, r
    <3>3. CASE value \notin 1..l /\ value \notin (l + 1)..(l + r)
      BY <2>2, <3>3 DEF Found
    <3> QED BY <3>1, <3>2, <3>3
  <2>6. found(Left(node)) \subseteq 1..l /\ found(Right(node)) \subseteq 1..r
    BY DEF Found, l, r
  <2>7. CASE node \notin Path(leaf)
    <3>1. Left(node) \notin Path(leaf) /\ Right(node) \notin Path(leaf)
      BY <1>2, <2>1, <2>7 DEF PathsClimb, Path
    <3>2. found(Left(node)) = {} /\ found(Right(node)) = {}
      BY <1>4, <3>1 DEF Proportional, leaf
    <3>3. found(node) = {}
      BY <2>5, <3>2
    <3> QED BY <2>7, <3>3 DEF Proportional, leaf
  <2>8. CASE node \in Path(leaf)
    <3>1. Left(node) \in Path(leaf) <=> Right(node) \notin Path(leaf)
      <4>1. node \in Above[leaf]
        BY <1>1, <1>4, <2>8 DEF Path
      <4> QED BY <1>2, <4>1 DEF OneWayDown
    <3>2. CASE Left(node) \in Path(leaf)
      <4>1. PICK a \in Nat : found(Left(node)) = (a + 1)..(a + tree[leaf])
        BY <1>4, <3>2 DEF Proportional, leaf
      <4>2. found(Right(node)) = {}
        BY <1>4, <3>1, <3>2 DEF Proportional, leaf
      <4>3. found(node) = found(Left(node))
        BY <2>5, <2>6, <4>2
      <4> HIDE DEF found
      <4>4. \E b \in Nat : found(node) = (b + 1)..(b + tree[leaf])
        BY <4>1, <4>3, Zenon
      <4> QED BY <2>8, <4>4 DEF Proportional, leaf, found
    <3>3. CASE Right(node) \in Path(leaf)
      <4>1. PICK a \in Nat : found(Right(node)) = (a + 1)..(a + tree[leaf])
        BY <1>4, <3>3 DEF Proportional, leaf
      <4>2. found(Left(node)) = {}
        BY <1>4, <3>1, <3>3 DEF Proportional, leaf
      <4> DEFINE t == tree[leaf]
                 b == a + l
      <4>3. ASSUME NEW value PROVE value \in found(node) <=> value \in (b + 1)..(b + t)
        <5>1. value \in found(node) <=>
                value \in (l + 1)..(l + r) /\ value - l \in found(Right(node))
          BY <2>5, <4>2
        <5> HIDE DEF found
        <5>2. CASE value \in (l + 1)..(l + r)
          BY <2>2, <2>3, <4>1, <5>1, <5>2
        <5>3. CASE value \notin (l + 1)..(l + r)
          <6>1. ASSUME value \in (b + 1)..(b + t) PROVE FALSE
            <7>1. value - l \in (a + 1)..(a + t) /\ value \in Int
              BY <2>2, <2>3, <6>1
            <7>2. value - l \in 1..r
              BY <2>6, <4>1, <7>1
            <7> QED BY <2>2, <5>3, <7>1, <7>2
          <6> QED BY <5>1, <5>3, <6>1
        <5> QED BY <5>2, <5>3
      <4>4. found(node) = (b + 1)..(b + t)
        <5> HIDE DEF found, b, t
        <5> QED BY <4>3
      <4>5. b \in Nat
        BY <2>2
      <4> HIDE DEF b, found
      <4>6. \E c \in Nat : found(node) = (c + 1)..(c + tree[leaf])
        BY <4>4, <4>5
      <4> QED BY <2>8, <4>6 DEF Proportional, leaf, found
    <3> QED BY <3>1, <3>2, <3>3
  <2> QED BY <2>7, <2>8
<1>5. Wrong = {}
  <2> SUFFICES ASSUME Wrong # {} PROVE FALSE
    OBVIOUS
  <2>1. PICK m \in Wrong : m \in 0..last /\ \A other \in Wrong : m <= other
    <3>1. Wrong \in SUBSET Nat /\ Wrong \subseteq 0..last
      <4> HIDE DEF Good
      <4> QED OBVIOUS
    <3> HIDE DEF Wrong, last
    <3> QED BY <3>1, Least
  <2> DEFINE node == last - m
  <2> HIDE DEF Good
  <2>2. node \in Node /\ ~Good(node)
    OBVIOUS
  <2>3. IsInner(node)
    BY <1>3, <2>2
  <2>4. /\ Left(node) \in Node /\ Right(node) \in Node
        /\ Left(node) > node /\ Right(node) > node
    BY <2>2, <2>3, ChildFacts
  <2>5. ASSUME NEW child \in Node, child > node PROVE Good(child)
    <3>1. last - child \in 0..last /\ last - child < m /\ last - (last - child) = child
      BY <2>2, <2>5
    <3>2. last - child \notin Wrong
      <4> HIDE DEF Wrong, last
      <4> QED BY <2>1, <3>1
    <3> QED BY <3>1, <3>2
  <2> QED BY <1>4, <2>2, <2>3, <2>4, <2>5
<1>6. ASSUME NEW node \in Node PROVE Good(node)
  <2> HIDE DEF Good
  <2>1. last - node \in 0..last /\ last - (last - node) = node
    OBVIOUS
  <2> QED BY <1>5, <2>1
<1> QED BY <1>6

(* Over the values up to the total, each leaf is found as often as its     *)
(* priority says, for every capacity and all priorities (retrieveLeaf).    *)
THEOREM SampledInProportionAlways == Spec => []SampledInProportion
<1>1. IndInv => SampledInProportion
  <2> SUFFICES ASSUME IndInv, NEW leafIndex \in LeafIndex
               PROVE  Cardinality({v \in 1..getTotalPriority :
                                     retrieveLeaf(sumTree, v) = leafIndex})
                        = sumTree[Leaf(leafIndex)]
    BY DEF SampledInProportion
  <2> DEFINE t == sumTree[Leaf(leafIndex)]
  <2>1. sumTree \in Tree /\ SumsUp(sumTree)
    BY DEF IndInv, TypeOK, Tree
  <2>2. PICK descend :
               /\ \A value : retrieveLeaf(sumTree, value) = descend[0][value]
               /\ \A node \in Node, value \in Nat : Descends(descend, sumTree, node, value)
    BY <2>1, DescentEquation
  <2>3. Leaf(leafIndex) \in Node /\ 0 \in Node
    BY LeafFacts
  <2>4. t \in Nat
    BY <2>1, <2>3 DEF Tree
  <2>5. Proportional(descend, sumTree, 0, leafIndex)
    BY <2>1, <2>2, <2>3, EveryNodeProportional
  <2>6. 0 \in Path(Leaf(leafIndex))
    BY <2>3, PathFacts DEF PathsClimb
  <2>7. PICK a \in Nat : Found(descend, sumTree, 0, leafIndex) = (a + 1)..(a + t)
    BY <2>5, <2>6 DEF Proportional
  <2> HIDE DEF t
  <2>8. Cardinality((a + 1)..(a + t)) = t
    BY <2>4, FS_Interval
  <2>9. {v \in 1..getTotalPriority : retrieveLeaf(sumTree, v) = leafIndex}
          = Found(descend, sumTree, 0, leafIndex)
    BY <2>2 DEF Found, getTotalPriority
  <2> QED BY <2>7, <2>8, <2>9, Zenon DEF t
<1> QED BY InitInv, Invariance, <1>1, PTL DEF Spec

-----------------------------------------------------------------------------
(* Checkpoints.                                                            *)

HIDE ReplayBufferAssumption DEF LeafIndex, Node
USE CheckpointsAssumption

-----------------------------------------------------------------------------
(* The inductive invariants, each relative to those before it.             *)

(* How often names are in a registry: none three times, twice only those   *)
(* of d.                                                                   *)
AtMostTwice(r) ==
  \A i, j, k \in DOMAIN r :
    r[i].name = r[j].name /\ r[j].name = r[k].name => i = j \/ j = k \/ i = k
Seldom(r, d) ==
  AtMostTwice(r) /\ \A j, k \in DOMAIN r : r[j].name = r[k].name => j = k \/ r[j].name \in d
Single(n, r) == \A j, k \in DOMAIN r : r[j].name = n /\ r[k].name = n => j = k

(* Before a start, and while the constructor runs, no thread is anywhere.  *)
(* Then who holds registryMutex_ shows in where it is, and what is being   *)
(* loaded or deleted stays registered.                                     *)
Removing == {"removeTarget", "removeOptimizer", "erase"}
Holding == {"saveRegistry", "saveAfterDelete", "loading"} \cup Removing
MutexMatches ==
  /\ program \in {"down", "starting", "hung"} =>
       /\ modelMutex = NoOne /\ thread = "none" /\ saverPc = "none" /\ pc = AtRest
  /\ program = "down" => registryMutex = NoOne
  /\ program = "up" =>
       /\ \A t \in Caller : registryMutex = t <=> pc[t] \in Holding
       /\ pc[Timer] \in Removing \cup {"loading"} => IsRegistered(name[Timer], registry)

(* The trainer saves the backup.                                           *)
Saving == {"check", "register", "saveRegistry", "join", "joining", "spawn"}
NamesMatch == pc[Trainer] \in Saving => name[Trainer] = Backup

(* A caller is about to add an entry of n.                                 *)
Adds(t, n) == program = "up" /\ pc[t] = "register" /\ ~exists[t] /\ name[t] = n

(* A name found free is still free when its entry is added, unless it is   *)
(* the backup's, which both callers may have found free.                   *)
AddsSeldom(t, n) ==
  /\ Single(n, registry)
  /\ IsRegistered(n, registry) => n = Backup /\ \A u \in Caller \ {t} : ~Adds(u, n)

RegistersSeldom ==
  /\ doubled \subseteq {Backup}
  /\ Seldom(registry, doubled)
  /\ Seldom(registryFile, doubled)
  /\ \A t \in Caller, n \in Name : Adds(t, n) => AddsSeldom(t, n)

(* The checkpointing thread is somewhere exactly while it runs, and has    *)
(* the model while it writes files.                                        *)
SaverMatches ==
  program = "up" =>
    /\ thread = "running" <=> saverPc # "none"
    /\ modelMutex = Saver <=> saverPc \in File

OneVersion(n) == \A f \in File : files[n][f] # NoVersion /\ files[n][f] = files[n].model

(* Files that the checkpointing thread has written of the present model.   *)
Written == CASE saverPc = "target" -> {"model"}
             [] saverPc = "optimizer" -> {"model", "target"}
             [] OTHER -> {}

AtCaller(n) ==
  \E t \in Caller : name[t] = n /\ pc[t] \in {"saveRegistry", "join", "joining", "spawn"}

Stands(n) ==
  IF thread = "running" /\ saverName = n /\ saverPc # "list"
  THEN \A f \in Written : files[n][f] = model
  ELSE OneVersion(n)

(* Until the first crash nothing is on the disk before a start, and a      *)
(* checkpoint that no caller is about to write or deletes is whole or is   *)
(* being written, its first files from the model that is still there.      *)
Settled(n) == IsRegistered(n, registry) /\ ~AtCaller(n) /\ ~Deleting(n) /\ n \notin doubled
WholeOrWritten ==
  crashes = 0 =>
    /\ program = "down" => registryFile = << >>
    /\ program = "up" => \A n \in Name : Settled(n) => Stands(n)

(* The registry file is the registry unless it is being rewritten, and     *)
(* what a crash must not lose is in it, with its files.                    *)
SavedStays ==
  /\ program # "down" /\ ~Rewriting => registryFile = registry
  /\ program # "down" =>
       \A n \in saved : IsRegistered(n, registry) /\ IsWhole(n) /\ ~Deleting(n)
  /\ program = "down" => \A n \in saved : IsRegistered(n, registryFile) /\ IsWhole(n)

TypesMatch == CheckpointsTyped /\ crashes \in Nat
CheckpointsInv ==
  /\ TypesMatch /\ MutexMatches /\ NamesMatch /\ RegistersSeldom /\ SaverMatches
  /\ WholeOrWritten /\ SavedStays

-----------------------------------------------------------------------------
(* The walk through the registry (Pruned).                                 *)

Prune(kept, e) == IF IsWhole(e.name) THEN Append(kept, e) ELSE kept

Walks(kept, entries, n) ==
  /\ kept \in [0..n -> Seq(Entry)]
  /\ kept[0] = << >>
  /\ \A k \in 1..n : kept[k] = Prune(kept[k - 1], entries[k])

(* The walk there is: its recursive definition has a solution.             *)
LEMMA WalkExists ==
  ASSUME NEW entries \in Seq(Entry)
  PROVE  \E kept : Walks(kept, entries, Len(entries)) /\ Pruned(entries) = kept[Len(entries)]
<1> DEFINE n == Len(entries)
           S == {m \in Nat : m <= n => \E kept : Walks(kept, entries, m)}
           Eq(kept) == kept = [k \in 0..n |->
                         IF k = 0 THEN << >>
                         ELSE IF IsWhole(entries[k].name) THEN Append(kept[k - 1], entries[k])
                         ELSE kept[k - 1]]
<1>1. 0 \in S
  <2>1. Walks([k \in 0..0 |-> << >>], entries, 0)
    BY DEF Walks
  <2> QED BY <2>1
<1>2. ASSUME NEW m \in Nat, m \in S PROVE m + 1 \in S
  <2> SUFFICES ASSUME m + 1 <= n PROVE \E kept : Walks(kept, entries, m + 1)
    OBVIOUS
  <2>1. PICK kept : Walks(kept, entries, m)
    BY <1>2
  <2>2. entries[m + 1] \in Entry
    OBVIOUS
  <2> DEFINE next == [k \in 0..(m + 1) |->
                        IF k = m + 1 THEN Prune(kept[m], entries[m + 1]) ELSE kept[k]]
  <2>3. Walks(next, entries, m + 1)
    <3>1. \A k \in 0..m : next[k] = kept[k]
      OBVIOUS
    <3>2. next[m + 1] = Prune(kept[m], entries[m + 1])
      OBVIOUS
    <3>3. next[m + 1] \in Seq(Entry)
      BY <2>1, <2>2, <3>2 DEF Walks, Prune
    <3>4. next \in [0..(m + 1) -> Seq(Entry)]
      BY <2>1, <3>1, <3>3 DEF Walks
    <3>5. ASSUME NEW k \in 1..(m + 1) PROVE next[k] = Prune(next[k - 1], entries[k])
      <4>1. CASE k = m + 1
        BY <3>1, <3>2, <4>1
      <4>2. CASE k # m + 1
        <5>1. k \in 1..m /\ k - 1 \in 0..m
          BY <4>2
        <5> QED BY <2>1, <3>1, <5>1 DEF Walks
      <4> QED BY <4>1, <4>2
    <3>6. next[0] = << >>
      BY <2>1, <3>1 DEF Walks
    <3> HIDE DEF next
    <3> QED BY <3>4, <3>5, <3>6 DEF Walks
  <2> QED BY <2>3
<1>3. PICK kept : Walks(kept, entries, n)
  <2> HIDE DEF S
  <2>1. n \in S
    BY <1>1, <1>2, Induction
  <2> QED BY <2>1 DEF S
<1>4. Eq(kept)
  <2>1. kept = [k \in 0..n |-> kept[k]]
    BY <1>3 DEF Walks
  <2>2. ASSUME NEW k \in 0..n
        PROVE  kept[k] = IF k = 0 THEN << >>
                         ELSE IF IsWhole(entries[k].name) THEN Append(kept[k - 1], entries[k])
                         ELSE kept[k - 1]
    <3>1. CASE k = 0
      BY <1>3, <3>1 DEF Walks
    <3>2. CASE k \in 1..n
      BY <1>3, <3>2 DEF Walks, Prune
    <3> QED BY <3>1, <3>2
  <2> QED BY <2>1, <2>2
<1> DEFINE it == CHOOSE f : Eq(f)
           T == {m \in Nat : m <= n => it[m] = kept[m]}
<1>5. Eq(it)
  <2> HIDE DEF Eq
  <2> QED BY <1>4
<1>6. Pruned(entries) = it[n]
  BY DEF Pruned
<1>7. 0 \in T
  <2> HIDE DEF it
  <2> QED BY <1>3, <1>5 DEF Walks
<1>8. ASSUME NEW m \in Nat, m \in T PROVE m + 1 \in T
  <2> HIDE DEF it
  <2> SUFFICES ASSUME m + 1 <= n PROVE it[m + 1] = kept[m + 1]
    OBVIOUS
  <2>1. it[m + 1] = Prune(it[m], entries[m + 1])
    <3> DEFINE k == m + 1
    <3>1. k \in 0..n /\ k # 0 /\ k - 1 = m
      OBVIOUS
    <3>2. it[k] = IF k = 0 THEN << >>
                  ELSE IF IsWhole(entries[k].name) THEN Append(it[k - 1], entries[k])
                  ELSE it[k - 1]
      <4> HIDE DEF k
      <4> QED BY <1>5, <3>1
    <3> QED BY <3>1, <3>2 DEF Prune
  <2>2. kept[m + 1] = Prune(kept[m], entries[m + 1])
    BY <1>3 DEF Walks
  <2> QED BY <1>8, <2>1, <2>2
<1>9. it[n] = kept[n]
  <2> HIDE DEF it, T
  <2>1. n \in T
    BY <1>7, <1>8, Induction
  <2> QED BY <2>1 DEF T
<1> QED BY <1>3, <1>6, <1>9

(* Nothing is in s but what is in r, entry for entry.                      *)
Picks(at, s, r) ==
  /\ at \in [DOMAIN s -> DOMAIN r]
  /\ \A i, j \in DOMAIN s : at[i] = at[j] => i = j
  /\ \A i \in DOMAIN s : s[i].name = r[at[i]].name
Selects(s, r) == \E at : Picks(at, s, r)

(* What is picked from a registry has names no more often than it.         *)
LEMMA SelectedFacts ==
  ASSUME NEW r, NEW s, Selects(s, r), NEW d
  PROVE  /\ Seldom(r, d) => Seldom(s, d)
         /\ \A n : Single(n, r) => Single(n, s)
         /\ \A n : IsRegistered(n, s) => IsRegistered(n, r)
<1>1. PICK at : Picks(at, s, r)
  BY DEF Selects
<1>2. \A i \in DOMAIN s : at[i] \in DOMAIN r /\ s[i].name = r[at[i]].name
  BY <1>1 DEF Picks
<1>3. \A i, j \in DOMAIN s : at[i] = at[j] => i = j
  BY <1>1 DEF Picks
<1>4. ASSUME Seldom(r, d) PROVE Seldom(s, d)
  <2>1. ASSUME NEW i \in DOMAIN s, NEW j \in DOMAIN s, NEW k \in DOMAIN s,
               s[i].name = s[j].name, s[j].name = s[k].name
        PROVE  i = j \/ j = k \/ i = k
    <3>1. at[i] = at[j] \/ at[j] = at[k] \/ at[i] = at[k]
      <4>1. /\ at[i] \in DOMAIN r /\ at[j] \in DOMAIN r /\ at[k] \in DOMAIN r
            /\ r[at[i]].name = r[at[j]].name /\ r[at[j]].name = r[at[k]].name
        BY <1>2, <2>1
      <4> QED BY <1>4, <4>1 DEF Seldom, AtMostTwice
    <3> QED BY <1>3, <3>1
  <2>2. ASSUME NEW j \in DOMAIN s, NEW k \in DOMAIN s, s[j].name = s[k].name
        PROVE  j = k \/ s[j].name \in d
    BY ONLY <1>2, <1>3, <1>4, <2>2, Zenon DEF Seldom
  <2> QED BY ONLY <2>1, <2>2, Zenon DEF Seldom, AtMostTwice
<1>5. ASSUME NEW n, Single(n, r) PROVE Single(n, s)
  BY ONLY <1>2, <1>3, <1>5, Zenon DEF Single
<1>6. ASSUME NEW n, IsRegistered(n, s) PROVE IsRegistered(n, r)
  BY ONLY <1>2, <1>6, Zenon DEF IsRegistered
<1> QED BY <1>4, <1>5, <1>6

(* The constructor keeps what is whole and nothing else.                   *)
LEMMA PrunedFacts ==
  ASSUME NEW entries \in Seq(Entry)
  PROVE  /\ Pruned(entries) \in Seq(Entry)
         /\ Selects(Pruned(entries), entries)
         /\ \A n : IsRegistered(n, entries) /\ IsWhole(n) => IsRegistered(n, Pruned(entries))
         /\ entries = << >> => Pruned(entries) = << >>
<1> DEFINE n == Len(entries)
<1>1. PICK kept : Walks(kept, entries, n) /\ Pruned(entries) = kept[n]
  BY WalkExists
<1> DEFINE Picked(at, m) ==
             /\ \A i \in 1..Len(kept[m]) : at[i] \in 1..m
             /\ \A i, j \in 1..Len(kept[m]) : at[i] = at[j] => i = j
             /\ \A i \in 1..Len(kept[m]) : kept[m][i] = entries[at[i]]
           All(m) ==
             \A i \in 1..m :
               IsWhole(entries[i].name) => \E k \in 1..Len(kept[m]) : kept[m][k] = entries[i]
           Good(m) == (\E at : Picked(at, m)) /\ All(m)
           S == {m \in Nat : m <= n => Good(m)}
<1>2. 0 \in S
  <2>1. kept[0] = << >> /\ Len(kept[0]) = 0
    BY <1>1 DEF Walks
  <2>2. Picked([i \in 1..Len(kept[0]) |-> 1], 0)
    BY <2>1
  <2>3. All(0)
    OBVIOUS
  <2> HIDE DEF Picked, All
  <2> QED BY <2>2, <2>3
<1>3. ASSUME NEW m \in Nat, m \in S PROVE m + 1 \in S
  <2> SUFFICES ASSUME m + 1 <= n PROVE Good(m + 1)
    OBVIOUS
  <2>1. m \in 0..n /\ m + 1 \in 1..n /\ m <= n
    OBVIOUS
  <2>2. Good(m) /\ kept[m] \in Seq(Entry) /\ entries[m + 1] \in Entry
    <3>1. Good(m)
      <4> HIDE DEF Good
      <4> QED BY <1>3, <2>1
    <3>2. kept[m] \in Seq(Entry)
      BY <1>1, <2>1 DEF Walks
    <3> HIDE DEF Good
    <3> QED BY <2>1, <3>1, <3>2
  <2>3. kept[m + 1] = Prune(kept[m], entries[m + 1])
    BY <1>1 DEF Walks
  <2>4. PICK at : Picked(at, m)
    BY <2>2
  <2>5. All(m)
    BY <2>2
  <2>6. CASE ~IsWhole(entries[m + 1].name)
    <3>1. kept[m + 1] = kept[m]
      BY <2>3, <2>6 DEF Prune
    <3>2. Picked(at, m + 1)
      <4>1. \A i \in 1..Len(kept[m]) : at[i] \in 1..(m + 1)
        <5>1. \A x \in 1..m : x \in 1..(m + 1)
          OBVIOUS
        <5> QED BY <2>4, <5>1
      <4> QED BY <2>4, <3>1, <4>1
    <3>3. All(m + 1)
      <4>1. \A i \in 1..(m + 1) : i = m + 1 \/ i \in 1..m
        OBVIOUS
      <4> QED BY <2>5, <2>6, <3>1, <4>1
    <3> HIDE DEF Picked, All
    <3> QED BY <3>2, <3>3
  <2>7. CASE IsWhole(entries[m + 1].name)
    <3> DEFINE e == entries[m + 1]
               len == Len(kept[m])
               nat == [i \in 1..(len + 1) |-> IF i = len + 1 THEN m + 1 ELSE at[i]]
    <3>1. kept[m + 1] = Append(kept[m], e)
      BY <2>3, <2>7 DEF Prune
    <3>2. /\ Len(kept[m + 1]) = len + 1 /\ len \in Nat
          /\ kept[m + 1][len + 1] = e
          /\ \A k \in 1..len : kept[m + 1][k] = kept[m][k]
      BY <2>2, <3>1
    <3>3. /\ \A i \in 1..len : at[i] \in 1..m /\ kept[m][i] = entries[at[i]]
          /\ \A i, j \in 1..len : at[i] = at[j] => i = j
      BY <2>4
    <3>4. \A i \in 1..(len + 1) : i = len + 1 \/ i \in 1..len
      BY <3>2
    <3>5. nat[len + 1] = m + 1 /\ \A i \in 1..len : nat[i] = at[i]
      BY <3>2
    <3> HIDE DEF len
    <3> HIDE DEF nat
    <3>6. \A i \in 1..(len + 1) : nat[i] \in 1..(m + 1)
      BY <3>3, <3>4, <3>5
    <3>7. \A i \in 1..(len + 1) : kept[m + 1][i] = entries[nat[i]]
      BY <3>2, <3>3, <3>4, <3>5
    <3>8. \A i, j \in 1..(len + 1) : nat[i] = nat[j] => i = j
      <4> SUFFICES ASSUME NEW i \in 1..(len + 1), NEW j \in 1..(len + 1), nat[i] = nat[j]
                   PROVE  i = j
        OBVIOUS
      <4>1. CASE i \in 1..len /\ j \in 1..len
        BY <3>3, <3>5, <4>1
      <4>2. CASE i \in 1..len /\ j = len + 1
        BY <3>3, <3>5, <4>2
      <4>3. CASE i = len + 1 /\ j \in 1..len
        BY <3>3, <3>5, <4>3
      <4> QED BY <3>4, <4>1, <4>2, <4>3
    <3>9. Picked(nat, m + 1)
      BY <3>2, <3>6, <3>7, <3>8
    <3>10. All(m + 1)
      <4> SUFFICES ASSUME NEW i \in 1..(m + 1), IsWhole(entries[i].name)
                   PROVE  \E k \in 1..Len(kept[m + 1]) : kept[m + 1][k] = entries[i]
        OBVIOUS
      <4>1. CASE i = m + 1
        <5>1. len + 1 \in 1..Len(kept[m + 1])
          BY <3>2
        <5> QED BY <3>2, <4>1, <5>1
      <4>2. CASE i \in 1..m
        <5>1. PICK k \in 1..Len(kept[m]) : kept[m][k] = entries[i]
          BY <2>5, <4>2
        <5>2. k \in 1..Len(kept[m + 1]) /\ kept[m + 1][k] = kept[m][k]
          BY <3>2, <5>1 DEF len
        <5> QED BY <5>1, <5>2
      <4> QED BY <4>1, <4>2
    <3> HIDE DEF Picked, All
    <3> QED BY <3>9, <3>10
  <2> HIDE DEF Good
  <2> QED BY <2>6, <2>7
<1>4. Good(n)
  <2> HIDE DEF Good
  <2>1. Nat \subseteq S
    <3> HIDE DEF S
    <3> QED BY <1>2, <1>3, Induction
  <2> QED BY <2>1
<1>5. kept[n] \in Seq(Entry) /\ (entries = << >> => kept[n] = << >>)
  BY <1>1 DEF Walks
<1>6. DOMAIN kept[n] = 1..Len(kept[n]) /\ DOMAIN entries = 1..n
  BY <1>5
<1>7. Selects(kept[n], entries)
  <2>1. PICK at : Picked(at, n)
    BY <1>4
  <2>2. PICK all : all = [i \in 1..Len(kept[n]) |-> at[i]]
    OBVIOUS
  <2>3. all \in [1..Len(kept[n]) -> 1..n] /\ \A i \in 1..Len(kept[n]) : all[i] = at[i]
    BY <2>1, <2>2
  <2>4. Picks(all, kept[n], entries)
    <3>1. /\ \A i, j \in 1..Len(kept[n]) : all[i] = all[j] => i = j
          /\ \A i \in 1..Len(kept[n]) : kept[n][i].name = entries[all[i]].name
      BY <2>1, <2>3
    <3> QED BY <1>6, <2>3, <3>1 DEF Picks
  <2> QED BY <2>4 DEF Selects
<1>8. ASSUME NEW a, IsRegistered(a, entries), IsWhole(a) PROVE IsRegistered(a, kept[n])
  <2>1. PICK i \in 1..n : entries[i].name = a
    BY <1>6, <1>8 DEF IsRegistered
  <2>2. PICK k \in 1..Len(kept[n]) : kept[n][k] = entries[i]
    BY <1>4, <1>8, <2>1
  <2> QED BY <1>6, <2>1, <2>2 DEF IsRegistered
<1> HIDE DEF n
<1> QED BY <1>1, <1>5, <1>7, <1>8

-----------------------------------------------------------------------------
(* The registry.                                                           *)

(* A name that is registered has a first entry.                            *)
LEMMA FirstThere ==
  ASSUME registry \in Seq(Entry), NEW n, IsRegistered(n, registry)
  PROVE  FirstOf(n) \in 1..Len(registry) /\ registry[FirstOf(n)].name = n
<1> DEFINE T == {k \in 1..Len(registry) : registry[k].name = n}
<1>1. T \in SUBSET Nat /\ T # {}
  BY DEF IsRegistered
<1>2. PICK k \in T : \A y \in T : k <= y
  <2> HIDE DEF T
  <2> QED BY <1>1, Least
<1>3. \A j \in 1..(k - 1) : registry[j].name # n
  <2> SUFFICES ASSUME NEW j \in 1..(k - 1), registry[j].name = n PROVE FALSE
    OBVIOUS
  <2>1. j \in T
    BY <1>2
  <2> QED BY <1>2, <2>1
<1>4. k \in DOMAIN registry /\ registry[k].name = n
  BY <1>2
<1>5. FirstOf(n) \in DOMAIN registry /\ registry[FirstOf(n)].name = n
  BY <1>3, <1>4, Zenon DEF FirstOf
<1> QED BY <1>5

(* An entry is taken out alone.                                            *)
LEMMA Taken ==
  ASSUME NEW r \in Seq(Entry), NEW j \in 1..Len(r), NEW s, s = RemoveAt(r, j)
  PROVE  /\ s \in Seq(Entry) /\ Len(s) = Len(r) - 1
         /\ \A k \in 1..(Len(r) - 1) : s[k] = IF k < j THEN r[k] ELSE r[k + 1]
<1> DEFINE a == SubSeq(r, 1, j - 1)
           b == SubSeq(r, j + 1, Len(r))
<1>1. s = a \o b
  BY DEF RemoveAt
<1>2. /\ a \in Seq(Entry) /\ Len(a) = j - 1
      /\ \A k \in 1..(j - 1) : a[k] = r[k]
  BY SubSeqProperties
<1>3. /\ b \in Seq(Entry) /\ Len(b) = Len(r) - j
      /\ \A k \in 1..(Len(r) - j) : b[k] = r[k + j]
  BY SubSeqProperties
<1> HIDE DEF a, b
<1>4. /\ s \in Seq(Entry) /\ Len(s) = Len(a) + Len(b)
      /\ \A k \in 1..(Len(a) + Len(b)) : s[k] = IF k <= Len(a) THEN a[k] ELSE b[k - Len(a)]
  <2>1. a \in Seq(Entry) /\ b \in Seq(Entry)
    BY <1>2, <1>3
  <2>2. /\ a \o b \in Seq(Entry) /\ Len(a \o b) = Len(a) + Len(b)
        /\ \A k \in 1..(Len(a) + Len(b)) :
             (a \o b)[k] = IF k <= Len(a) THEN a[k] ELSE b[k - Len(a)]
    BY <2>1, ConcatProperties, Zenon
  <2> QED BY <1>1, <2>2, Zenon
<1>5. Len(s) = Len(r) - 1
  BY <1>2, <1>3, <1>4
<1>6. ASSUME NEW k \in 1..(Len(r) - 1)
      PROVE  s[k] = IF k < j THEN r[k] ELSE r[k + 1]
  <2>1. s[k] = IF k <= j - 1 THEN a[k] ELSE b[k - (j - 1)]
    <3>1. Len(a) = j - 1 /\ Len(b) = Len(r) - j
      BY <1>2, <1>3
    <3>2. k \in 1..(Len(a) + Len(b))
      BY <3>1
    <3>3. s[k] = IF k <= Len(a) THEN a[k] ELSE b[k - Len(a)]
      BY <1>4, <3>2
    <3> QED BY <3>1, <3>3
  <2>2. CASE k < j
    BY <1>2, <2>1, <2>2
  <2>3. CASE ~(k < j)
    <3>1. k - (j - 1) \in 1..(Len(r) - j) /\ (k - (j - 1)) + j = k + 1
      BY <2>3
    <3>2. b[k - (j - 1)] = r[(k - (j - 1)) + j]
      BY <1>3, <3>1
    <3> QED BY <2>1, <2>3, <3>1, <3>2
  <2> QED BY <2>2, <2>3
<1> QED BY <1>4, <1>5, <1>6

(* What a deletion leaves in a registry: nothing new, all other names, and *)
(* of this name nothing if it was there once.                              *)
LEMMA ErasedFacts ==
  ASSUME NEW r \in Seq(Entry), NEW j \in 1..Len(r), NEW s, s = RemoveAt(r, j)
  PROVE  /\ s \in Seq(Entry)
         /\ Selects(s, r)
         /\ \A n : IsRegistered(n, r) /\ n # r[j].name => IsRegistered(n, s)
         /\ Single(r[j].name, r) => ~IsRegistered(r[j].name, s)
<1>1. /\ s \in Seq(Entry) /\ Len(s) = Len(r) - 1
      /\ \A k \in 1..(Len(r) - 1) : s[k] = IF k < j THEN r[k] ELSE r[k + 1]
  BY Taken
<1>2. DOMAIN s = 1..(Len(r) - 1) /\ DOMAIN r = 1..Len(r) /\ Len(r) \in Nat
  BY <1>1
<1> DEFINE at == [k \in 1..(Len(r) - 1) |-> IF k < j THEN k ELSE k + 1]
<1>3. ASSUME NEW k \in 1..(Len(r) - 1)
      PROVE  at[k] \in 1..Len(r) /\ at[k] # j /\ s[k] = r[at[k]]
  <2>1. at[k] = IF k < j THEN k ELSE k + 1
    OBVIOUS
  <2>2. s[k] = IF k < j THEN r[k] ELSE r[k + 1]
    BY <1>1
  <2> HIDE DEF at
  <2> QED BY <2>1, <2>2
<1>4. \A k, l \in 1..(Len(r) - 1) : at[k] = at[l] => k = l
  OBVIOUS
<1>5. at \in [1..(Len(r) - 1) -> 1..Len(r)]
  OBVIOUS
<1> HIDE DEF at
<1>6. Selects(s, r)
  <2>1. Picks(at, s, r)
    BY <1>2, <1>3, <1>4, <1>5 DEF Picks
  <2> QED BY <2>1 DEF Selects
<1>7. ASSUME NEW n, IsRegistered(n, r), n # r[j].name PROVE IsRegistered(n, s)
  <2>1. PICK k \in 1..Len(r) : r[k].name = n
    BY <1>2, <1>7 DEF IsRegistered
  <2>2. k < j \/ k > j
    BY <1>7, <2>1
  <2>3. CASE k < j
    <3>1. k \in 1..(Len(r) - 1) /\ s[k] = r[k]
      BY <1>1, <2>3
    <3> QED BY <1>2, <2>1, <3>1 DEF IsRegistered
  <2>4. CASE k > j
    <3>1. k - 1 \in 1..(Len(r) - 1) /\ ~(k - 1 < j) /\ (k - 1) + 1 = k
      BY <2>4
    <3>2. s[k - 1] = r[k]
      BY <1>1, <3>1
    <3> QED BY <1>2, <2>1, <3>1, <3>2 DEF IsRegistered
  <2> QED BY <2>2, <2>3, <2>4
<1>8. ASSUME Single(r[j].name, r), IsRegistered(r[j].name, s) PROVE FALSE
  <2>1. PICK k \in 1..(Len(r) - 1) : s[k].name = r[j].name
    BY <1>2, <1>8 DEF IsRegistered
  <2> QED BY <1>2, <1>3, <1>8, <2>1 DEF Single
<1> QED BY <1>1, <1>6, <1>7, <1>8

(* A longer registry has a name once more.                                 *)
LEMMA AppendedFacts ==
  ASSUME NEW r \in Seq(Entry), NEW e \in Entry, NEW s, s = Append(r, e), NEW d, Seldom(r, d),
         Single(e.name, r)
  PROVE  /\ s \in Seq(Entry)
         /\ Seldom(s, d \cup {e.name})
         /\ ~IsRegistered(e.name, r) => Seldom(s, d) /\ Single(e.name, s)
         /\ \A n : IsRegistered(n, s) <=> IsRegistered(n, r) \/ n = e.name
         /\ \A n : n # e.name /\ Single(n, r) => Single(n, s)
<1> DEFINE len == Len(r)
<1>1. /\ s \in Seq(Entry) /\ DOMAIN s = 1..(len + 1) /\ DOMAIN r = 1..len /\ len \in Nat
      /\ s[len + 1] = e /\ \A k \in 1..len : s[k] = r[k]
  OBVIOUS
<1>2. \A k \in 1..(len + 1) : k = len + 1 \/ k \in 1..len
  OBVIOUS
<1>3. \A k \in 1..len : k # len + 1 /\ k \in 1..(len + 1)
  OBVIOUS
<1>4. len + 1 \in 1..(len + 1)
  OBVIOUS
<1> HIDE DEF len
<1>5. AtMostTwice(s)
  <2> SUFFICES ASSUME NEW i \in 1..(len + 1), NEW j \in 1..(len + 1), NEW k \in 1..(len + 1),
                      s[i].name = s[j].name, s[j].name = s[k].name
               PROVE  i = j \/ j = k \/ i = k
    BY <1>1 DEF AtMostTwice
  <2>1. CASE i \in 1..len /\ j \in 1..len /\ k \in 1..len
    BY <1>1, <2>1 DEF Seldom, AtMostTwice
  <2>2. CASE i = len + 1 /\ j \in 1..len /\ k \in 1..len
    BY <1>1, <2>2 DEF Single
  <2>3. CASE i \in 1..len /\ j = len + 1 /\ k \in 1..len
    BY <1>1, <2>3 DEF Single
  <2>4. CASE i \in 1..len /\ j \in 1..len /\ k = len + 1
    BY <1>1, <2>4 DEF Single
  <2> QED BY <1>2, <2>1, <2>2, <2>3, <2>4
<1>6. ASSUME NEW j \in 1..(len + 1), NEW k \in 1..(len + 1), s[j].name = s[k].name
      PROVE  j = k \/ s[j].name \in d \/ (s[j].name = e.name /\ IsRegistered(e.name, r))
  <2>1. CASE j \in 1..len /\ k \in 1..len
    BY <1>1, <1>6, <2>1 DEF Seldom
  <2>2. CASE j = len + 1 /\ k \in 1..len
    BY <1>1, <1>6, <2>2 DEF IsRegistered
  <2>3. CASE j \in 1..len /\ k = len + 1
    BY <1>1, <1>6, <2>3 DEF IsRegistered
  <2> QED BY <1>2, <2>1, <2>2, <2>3
<1>7. Seldom(s, d \cup {e.name})
  BY <1>1, <1>5, <1>6 DEF Seldom
<1>8. ASSUME ~IsRegistered(e.name, r) PROVE Seldom(s, d) /\ Single(e.name, s)
  <2>1. Seldom(s, d)
    BY <1>1, <1>5, <1>6, <1>8 DEF Seldom
  <2>2. \A k \in 1..len : s[k].name # e.name
    BY <1>1, <1>8 DEF IsRegistered
  <2>3. Single(e.name, s)
    BY <1>1, <1>2, <2>2 DEF Single
  <2> QED BY <2>1, <2>3
<1>9. ASSUME NEW n PROVE IsRegistered(n, s) <=> IsRegistered(n, r) \/ n = e.name
  BY <1>1, <1>2, <1>3, <1>4 DEF IsRegistered
<1>10. ASSUME NEW n, n # e.name, Single(n, r) PROVE Single(n, s)
  BY <1>1, <1>2, <1>10 DEF Single
<1> QED BY <1>1, <1>7, <1>8, <1>9, <1>10

(* A save of a name that is registered, or was, changes no name.           *)
LEMMA RenewedFacts ==
  ASSUME CheckpointsTyped, NEW t \in Caller, exists[t]
  PROVE  /\ Registered(t) \in Seq(Entry)
         /\ Len(Registered(t)) = Len(registry)
         /\ \A k \in 1..Len(registry) : Registered(t)[k].name = registry[k].name
<1>1. CASE ~IsRegistered(name[t], registry)
  BY <1>1 DEF Registered, CheckpointsTyped
<1>2. CASE IsRegistered(name[t], registry)
  <2>1. PICK k : k = FirstOf(name[t])
    OBVIOUS
  <2> DEFINE s == [registry EXCEPT ![k].stepCount = stepCount[t]]
  <2>3. Registered(t) = s
    BY <1>2, <2>1 DEF Registered
  <2>4. registry \in Seq(Entry) /\ stepCount[t] \in Nat
    BY DEF CheckpointsTyped
  <2>5. ASSUME NEW i \in 1..Len(registry)
        PROVE  s[i] \in Entry /\ s[i].name = registry[i].name
    <3>1. registry[i] \in Entry
      BY <2>4
    <3>2. CASE i = k
      BY <2>4, <3>1, <3>2 DEF Entry
    <3>3. CASE i # k
      BY <2>4, <3>1, <3>3
    <3> QED BY <3>2, <3>3
  <2>6. s = [i \in 1..Len(registry) |-> s[i]]
    BY <2>4
  <2> HIDE DEF s
  <2>7. s \in Seq(Entry) /\ Len(s) = Len(registry)
    BY <2>4, <2>5, <2>6, SeqDef
  <2> QED BY <2>3, <2>5, <2>7
<1> QED BY <1>1, <1>2

-----------------------------------------------------------------------------
(* The steps.                                                              *)

(* A deletion erases an entry of the name that is there.                   *)
LEMMA ErasedEntry ==
  ASSUME CheckpointsTyped, MutexMatches, program = "up", Erase
  PROVE  /\ registry' \in Seq(Entry)
         /\ Selects(registry', registry)
         /\ \A n : IsRegistered(n, registry) /\ n # name[Timer] => IsRegistered(n, registry')
         /\ Single(name[Timer], registry) => ~IsRegistered(name[Timer], registry')
<1>1. PICK j : j = FirstOf(name[Timer])
  OBVIOUS
<1>2. registry \in Seq(Entry) /\ registry' = RemoveAt(registry, j)
  BY <1>1 DEF Erase, CheckpointsTyped
<1>3. IsRegistered(name[Timer], registry)
  BY DEF MutexMatches, Erase, Removing
<1>4. j \in 1..Len(registry) /\ registry[j].name = name[Timer]
  BY <1>1, <1>2, <1>3, FirstThere
<1>5. PICK s : s = registry'
  OBVIOUS
<1>6. s = RemoveAt(registry, j)
  BY <1>2, <1>5
<1>7. /\ s \in Seq(Entry)
      /\ Selects(s, registry)
      /\ \A n : IsRegistered(n, registry) /\ n # registry[j].name => IsRegistered(n, s)
      /\ Single(registry[j].name, registry) => ~IsRegistered(registry[j].name, s)
  BY <1>2, <1>4, <1>6, ErasedFacts
<1> QED BY <1>4, <1>5, <1>7

(* Types.                                                                  *)
LEMMA TypeStep ==
  ASSUME TypesMatch, MutexMatches, [CheckpointsNext]_checkpointsVars
  PROVE  TypesMatch'
<1>1. CASE Start
  <2>1. registry' \in Seq(Entry)
    BY <1>1, PrunedFacts DEF Start, TypesMatch, CheckpointsTyped
  <2>2. registryFile' \in Seq(Entry) /\ registryMutex' \in Caller \cup {NoOne}
    <3>1. CASE registry' = registryFile
      BY <1>1, <3>1 DEF Start, TypesMatch, CheckpointsTyped
    <3>2. CASE registry' # registryFile
      <4>1. registryFile' = << >> /\ registryMutex' = Timer
        BY <1>1, <3>2 DEF Start
      <4> QED BY <4>1 DEF Caller
    <3> QED BY <3>1, <3>2
  <2>3. program' \in {"up", "starting"}
    BY <1>1 DEF Start
  <2> QED BY <1>1, <2>1, <2>2, <2>3
             DEF Start, TypesMatch, CheckpointsTyped, saverVars, modelVars, callVars, bounds,
                 histories
<1>2. CASE StartSaves
  BY <1>2 DEF StartSaves, TypesMatch, CheckpointsTyped, Place, Goto, Name, File, Caller,
              disk, saverVars, modelVars, callVars, bounds, histories
<1>3. CASE Crash
  <2>1. pc' \in [Caller -> Place]
    BY <1>3 DEF Crash, AtRest, Place
  <2>2. crashes' \in Nat
    BY <1>3 DEF Crash, TypesMatch
  <2>3. registry' \in Seq(Entry)
    BY <1>3 DEF Crash
  <2>4. {model', trainStepCount'} \subseteq Nat
    BY <1>3 DEF Crash
  <2>5. {runTraining', stale'} \subseteq BOOLEAN
    BY <1>3 DEF Crash
  <2>6. saved' \in SUBSET Name
    BY <1>3 DEF Crash, TypesMatch, CheckpointsTyped
  <2> QED BY <1>3, <2>1, <2>2, <2>3, <2>4, <2>5, <2>6 DEF Crash, TypesMatch, CheckpointsTyped,
                                                          disk
<1>4. CASE program = "up" /\ RefuseKnownName
  BY <1>4 DEF RefuseKnownName, TypesMatch, CheckpointsTyped, Place, Goto, Name, File,
              Caller, disk, saverVars, modelVars, callVars, bounds, histories
<1>5. CASE program = "up" /\ BeginLoad
  BY <1>5 DEF BeginLoad, TypesMatch, CheckpointsTyped, Place, Goto, Name, File, Caller,
              disk, saverVars, modelVars, callVars, bounds, histories
<1>6. CASE program = "up" /\ Load
  <2>1. IsWhole(name[Timer]) => files[name[Timer]].model \in Nat
    BY DEF IsWhole, TypesMatch, CheckpointsTyped, File, Caller
  <2>2. registry[FirstOf(name[Timer])].stepCount \in Nat
    <3>1. IsRegistered(name[Timer], registry) /\ registry \in Seq(Entry)
      BY <1>6 DEF MutexMatches, Load, TypesMatch, CheckpointsTyped
    <3>2. FirstOf(name[Timer]) \in 1..Len(registry)
      BY <3>1, FirstThere
    <3>3. registry[FirstOf(name[Timer])] \in Entry
      BY <3>1, <3>2
    <3> QED BY <3>3 DEF Entry
  <2>3. pc' \in [Caller -> Place]
    BY <1>6 DEF Load, TypesMatch, CheckpointsTyped, Goto, Place
  <2>4. stale' \in BOOLEAN
    BY <1>6 DEF Load, TypesMatch, CheckpointsTyped
  <2>5. model' \in Nat /\ trainStepCount' \in Nat
    BY <1>6, <2>1, <2>2 DEF Load, TypesMatch, CheckpointsTyped
  <2>6. registryMutex' \in Caller \cup {NoOne}
    BY <1>6 DEF Load, TypesMatch, CheckpointsTyped
  <2>7. program' \in {"up", "terminated"}
    BY <1>6 DEF Load
  <2> QED BY <1>6, <2>3, <2>4, <2>5, <2>6, <2>7
             DEF Load, TypesMatch, CheckpointsTyped, disk, saverVars, bounds, histories
<1>7. CASE program = "up" /\ Delete
  <2>1. /\ files' = files \/ files' = [files EXCEPT ![name[Timer]].model = NoVersion]
        /\ \/ pc' = [pc EXCEPT ![Timer] = "removeTarget"]
           \/ pc' = [pc EXCEPT ![Timer] = "saveAfterDelete"]
    BY <1>7 DEF Delete, Goto
  <2>2. UNCHANGED <<program, registry, thread, saverPc, saverName, modelMutex, model,
                    trainStepCount, runTraining, stale, name, exists, stepCount, crashes, saved,
                    doubled>>
    BY <1>7 DEF Delete, saverVars, modelVars, bounds, histories
  <2>3. files' \in [Name -> [File -> Nat \cup {NoVersion}]]
    <3>1. name[Timer] \in Name /\ files \in [Name -> [File -> Nat \cup {NoVersion}]]
      BY DEF TypesMatch, CheckpointsTyped, Caller
    <3>2. [files EXCEPT ![name[Timer]].model = NoVersion]
            \in [Name -> [File -> Nat \cup {NoVersion}]]
      BY <3>1
    <3> QED BY <2>1, <3>1, <3>2
  <2>4. registryFile' \in Seq(Entry) /\ registryMutex' \in Caller
    <3>1. (registryFile' = registryFile \/ registryFile' = << >>) /\ registryMutex' = Timer
      BY <1>7 DEF Delete
    <3>2. registryFile \in Seq(Entry) /\ << >> \in Seq(Entry)
      BY DEF TypesMatch, CheckpointsTyped
    <3> QED BY <3>1, <3>2 DEF Caller
  <2>5. pc' \in [Caller -> Place]
    BY <2>1 DEF TypesMatch, CheckpointsTyped, Place
  <2> QED BY <2>2, <2>3, <2>4, <2>5 DEF TypesMatch, CheckpointsTyped
<1>8. CASE program = "up" /\ RemoveTarget
  <2>1. files' \in [Name -> [File -> Nat \cup {NoVersion}]]
    BY <1>8 DEF RemoveTarget, TypesMatch, CheckpointsTyped
  <2> QED BY <1>8, <2>1
             DEF RemoveTarget, TypesMatch, CheckpointsTyped, Place, Goto, disk, saverVars,
                 modelVars, bounds,
                 histories, Name, Caller
<1>9. CASE program = "up" /\ RemoveOptimizer
  <2>1. files' \in [Name -> [File -> Nat \cup {NoVersion}]]
    BY <1>9 DEF RemoveOptimizer, TypesMatch, CheckpointsTyped
  <2> QED BY <1>9, <2>1
             DEF RemoveOptimizer, TypesMatch, CheckpointsTyped, Place, Goto, disk, saverVars,
                 modelVars, bounds,
                 histories, Name, Caller
<1>10. CASE program = "up" /\ Erase
  <2>1. registry' \in Seq(Entry)
    BY <1>10, ErasedEntry DEF TypesMatch
  <2>2. pc' \in [Caller -> Place]
    BY <1>10 DEF Erase, TypesMatch, CheckpointsTyped, Goto, Place
  <2>3. registryFile' \in Seq(Entry)
    BY <1>10 DEF Erase
  <2> QED BY <1>10, <2>1, <2>2, <2>3
             DEF Erase, TypesMatch, CheckpointsTyped, saverVars, modelVars, bounds, histories
<1>11. CASE program = "up" /\ BeginIteration
  BY <1>11 DEF BeginIteration, TypesMatch, CheckpointsTyped, Place, Goto, Name, File,
               Caller, disk, saverVars, modelVars, callVars, bounds, histories
<1>12. CASE program = "up" /\ TrainModel
  BY <1>12 DEF TrainModel, TypesMatch, CheckpointsTyped, Place, Goto, Name, File, Caller,
               disk, saverVars, modelVars, callVars, bounds, histories
<1>13. CASE program = "up" /\ CountStep
  BY <1>13 DEF CountStep, TypesMatch, CheckpointsTyped, Place, Goto, Name, File, Caller,
               disk, saverVars, modelVars, callVars, bounds, histories
<1>14. CASE program = "up" /\ SaveBackup
  BY <1>14 DEF SaveBackup, BeginSave, TypesMatch, CheckpointsTyped, Place, Goto, Name, File,
               Caller, disk, saverVars, modelVars, callVars, bounds, histories
<1>15. CASE program = "up" /\ SaverLocksModel
  BY <1>15 DEF SaverLocksModel, TypesMatch, CheckpointsTyped, Place, Goto, Name, File,
               Caller, disk, saverVars, modelVars, callVars, bounds, histories
<1>16. CASE program = "up" /\ SaverWrites
  <2>1. files' \in [Name -> [File -> Nat \cup {NoVersion}]]
    BY <1>16 DEF SaverWrites, TypesMatch, CheckpointsTyped
  <2>2. saverPc' \in {"list"} \cup File
    BY <1>16 DEF SaverWrites, AfterFile, File
  <2>3. saved' \in SUBSET Name
    BY <1>16 DEF SaverWrites, TypesMatch, CheckpointsTyped
  <2>4. modelMutex' \in {Saver, NoOne}
    BY <1>16 DEF SaverWrites
  <2> QED BY <1>16, <2>1, <2>2, <2>3, <2>4
             DEF SaverWrites, TypesMatch, CheckpointsTyped, modelVars, callVars, bounds
<1>17. CASE program = "up" /\ SaverEnds
  BY <1>17 DEF SaverEnds, TypesMatch, CheckpointsTyped, Place, Goto, Name, File, Caller,
               disk, saverVars, modelVars, callVars, bounds, histories
<1>18. CASE program = "up" /\ RequestStop
  BY <1>18 DEF RequestStop, Request, TypesMatch, CheckpointsTyped, Place, Goto, Name, File,
               Caller, disk, saverVars, modelVars, callVars, bounds, histories
<1>19. CASE program = "up" /\ StartTraining
  BY <1>19 DEF StartTraining, TypesMatch, CheckpointsTyped, Place, Goto, Name, File, Caller,
               disk, saverVars, modelVars, callVars, bounds, histories
<1>20. ASSUME program = "up", NEW t \in Caller, CheckExists(t) PROVE TypesMatch'
  <2>1. exists' \in [Caller -> BOOLEAN]
    BY <1>20 DEF CheckExists, IsRegistered, TypesMatch, CheckpointsTyped
  <2> QED BY <1>20, <2>1
             DEF CheckExists, TypesMatch, CheckpointsTyped, Place, Goto, disk, saverVars,
                 modelVars, bounds, histories, Name, File
<1>21. ASSUME program = "up", NEW t \in Caller, Register(t) PROVE TypesMatch'
  <2>1. registry' \in Seq(Entry)
    <3>1. CASE exists[t]
      BY <1>21, <3>1, RenewedFacts DEF Register, TypesMatch
    <3>2. CASE ~exists[t]
      <4>1. registry' = Append(registry, [name |-> name[t], stepCount |-> stepCount[t]])
        BY <1>21, <3>2 DEF Register, Registered
      <4> QED BY <4>1 DEF TypesMatch, CheckpointsTyped, Entry
    <3> QED BY <3>1, <3>2
  <2>2. doubled' \in SUBSET Name
    BY <1>21 DEF Register, TypesMatch, CheckpointsTyped
  <2> QED BY <1>21, <2>1, <2>2
             DEF Register, TypesMatch, CheckpointsTyped, Place, Goto, saverVars, modelVars,
                 bounds, Name, File
<1>22. ASSUME program = "up", NEW t \in Caller, saveCurrentRegistryNoLock(t) PROVE TypesMatch'
  BY <1>22 DEF saveCurrentRegistryNoLock, TypesMatch, CheckpointsTyped, Place, Goto, Name,
               File, Caller, disk, saverVars, modelVars, callVars, bounds, histories
<1>23. ASSUME program = "up", NEW t \in Caller, Joinable(t) PROVE TypesMatch'
  BY <1>23 DEF Joinable, TypesMatch, CheckpointsTyped, Place, Goto, Name, File, Caller,
               disk, saverVars, modelVars, callVars, bounds, histories
<1>24. ASSUME program = "up", NEW t \in Caller, Join(t) PROVE TypesMatch'
  BY <1>24 DEF Join, TypesMatch, CheckpointsTyped, Place, Goto, Name, File, Caller, disk,
               saverVars, modelVars, callVars, bounds, histories
<1>25. ASSUME program = "up", NEW t \in Caller, Spawn(t) PROVE TypesMatch'
  BY <1>25 DEF Spawn, TypesMatch, CheckpointsTyped, Place, Goto, Name, File, Caller, disk,
               saverVars, modelVars, callVars, bounds, histories
<1>26. ASSUME program = "up", NEW n \in UiNames, RequestSave(n) PROVE TypesMatch'
  BY <1>26 DEF RequestSave, Request, BeginSave, TypesMatch, CheckpointsTyped, Place, Goto,
               Name, File, Caller, disk, saverVars, modelVars, callVars, bounds, histories
<1>27. ASSUME program = "up", NEW n \in Name, RequestLoad(n) PROVE TypesMatch'
  BY <1>27 DEF RequestLoad, Request, TypesMatch, CheckpointsTyped, Place, Goto, Name, File,
               Caller, disk, saverVars, modelVars, callVars, bounds, histories
<1>28. ASSUME program = "up", NEW n \in Name, RequestDelete(n) PROVE TypesMatch'
  BY <1>28 DEF RequestDelete, Request, TypesMatch, CheckpointsTyped, Place, Goto, Name,
               File, Caller, disk, saverVars, modelVars, callVars, bounds, histories
<1>29. CASE UNCHANGED checkpointsVars
  BY <1>29 DEF checkpointsVars, TypesMatch, CheckpointsTyped, Place, Goto, Name, File,
               Caller, disk, saverVars, modelVars, callVars, bounds, histories
<1> QED BY <1>1, <1>2, <1>3, <1>4, <1>5, <1>6, <1>7, <1>8, <1>9, <1>10, <1>11, <1>12, <1>13,
           <1>14, <1>15, <1>16, <1>17, <1>18, <1>19, <1>20, <1>21, <1>22, <1>23, <1>24,
           <1>25, <1>26, <1>27, <1>28, <1>29
  DEF CheckpointsNext, Running, TimerStep, DeleteStep, TrainerStep, SaverStep, CallerStep,
      Caller

(* Who holds which mutex, and what is loaded or deleted.                   *)
LEMMA MutexStep ==
  ASSUME TypesMatch, MutexMatches, [CheckpointsNext]_checkpointsVars
  PROVE  MutexMatches'
<1>1. CASE Start
  BY <1>1 DEF Start, TypesMatch, CheckpointsTyped, MutexMatches, Goto, Caller, IsRegistered,
              AtRest, Holding, Removing, disk, saverVars, modelVars, callVars, bounds,
              histories
<1>2. CASE StartSaves
  BY <1>2 DEF StartSaves, TypesMatch, CheckpointsTyped, MutexMatches, Goto, Caller,
              IsRegistered, AtRest, Holding, Removing, disk, saverVars, modelVars, callVars,
              bounds, histories
<1>3. CASE Crash
  BY <1>3 DEF Crash, AtRest, TypesMatch, CheckpointsTyped, MutexMatches, Goto, Caller,
              IsRegistered, Holding, Removing, disk, saverVars, modelVars, callVars, bounds,
              histories
<1>4. CASE program = "up" /\ RefuseKnownName
  BY <1>4 DEF RefuseKnownName, TypesMatch, CheckpointsTyped, MutexMatches, Goto, Caller,
              IsRegistered, AtRest, Holding, Removing, disk, saverVars, modelVars, callVars,
              bounds, histories
<1>5. CASE program = "up" /\ BeginLoad
  <2>1. CASE IsRegistered(name[Timer], registry)
    <3>1. /\ registryMutex' = Timer /\ pc' = [pc EXCEPT ![Timer] = "loading"]
          /\ program' = "up"
          /\ UNCHANGED <<name, registry>>
      BY <1>5, <2>1 DEF BeginLoad, Goto
    <3>2. IsRegistered(name[Timer], registry)'
      BY <2>1, <3>1 DEF IsRegistered
    <3>3. pc[Trainer] \notin Holding
      BY <1>5 DEF BeginLoad, MutexMatches, Caller
    <3> QED BY <3>1, <3>2, <3>3
               DEF MutexMatches, TypesMatch, CheckpointsTyped, Caller, Holding, Removing
  <2>2. CASE ~IsRegistered(name[Timer], registry)
    BY <1>5, <2>2 DEF BeginLoad, MutexMatches
  <2> QED BY <2>1, <2>2
<1>6. CASE program = "up" /\ Load
  BY <1>6 DEF Load, TypesMatch, CheckpointsTyped, MutexMatches, Goto, Caller, IsRegistered,
              AtRest, Holding, Removing, disk, saverVars, modelVars, callVars, bounds,
              histories
<1>7. CASE program = "up" /\ Delete
  BY <1>7 DEF Delete, TypesMatch, CheckpointsTyped, MutexMatches, Goto, Caller,
              IsRegistered, AtRest, Holding, Removing, disk, saverVars, modelVars, callVars,
              bounds, histories
<1>8. CASE program = "up" /\ RemoveTarget
  BY <1>8 DEF RemoveTarget, TypesMatch, CheckpointsTyped, MutexMatches, Goto, Caller,
              IsRegistered, AtRest, Holding, Removing, disk, saverVars, modelVars, callVars,
              bounds, histories
<1>9. CASE program = "up" /\ RemoveOptimizer
  BY <1>9 DEF RemoveOptimizer, TypesMatch, CheckpointsTyped, MutexMatches, Goto, Caller,
              IsRegistered, AtRest, Holding, Removing, disk, saverVars, modelVars, callVars,
              bounds, histories
<1>10. CASE program = "up" /\ Erase
  BY <1>10 DEF Erase, TypesMatch, CheckpointsTyped, MutexMatches, Goto, Caller,
               IsRegistered, AtRest, Holding, Removing, disk, saverVars, modelVars,
               callVars, bounds, histories
<1>11. CASE program = "up" /\ BeginIteration
  BY <1>11 DEF BeginIteration, TypesMatch, CheckpointsTyped, MutexMatches, Goto, Caller,
               IsRegistered, AtRest, Holding, Removing, disk, saverVars, modelVars,
               callVars, bounds, histories
<1>12. CASE program = "up" /\ TrainModel
  BY <1>12 DEF TrainModel, TypesMatch, CheckpointsTyped, MutexMatches, Goto, Caller,
               IsRegistered, AtRest, Holding, Removing, disk, saverVars, modelVars,
               callVars, bounds, histories
<1>13. CASE program = "up" /\ CountStep
  BY <1>13 DEF CountStep, TypesMatch, CheckpointsTyped, MutexMatches, Goto, Caller,
               IsRegistered, AtRest, Holding, Removing, disk, saverVars, modelVars,
               callVars, bounds, histories
<1>14. CASE program = "up" /\ SaveBackup
  BY <1>14 DEF SaveBackup, BeginSave, TypesMatch, CheckpointsTyped, MutexMatches, Goto,
               Caller, IsRegistered, AtRest, Holding, Removing, disk, saverVars, modelVars,
               callVars, bounds, histories
<1>15. CASE program = "up" /\ SaverLocksModel
  BY <1>15 DEF SaverLocksModel, TypesMatch, CheckpointsTyped, MutexMatches, Goto, Caller,
               IsRegistered, AtRest, Holding, Removing, disk, saverVars, modelVars,
               callVars, bounds, histories
<1>16. CASE program = "up" /\ SaverWrites
  BY <1>16 DEF SaverWrites, AfterFile, TypesMatch, CheckpointsTyped, MutexMatches, Goto,
               Caller, IsRegistered, AtRest, Holding, Removing, disk, saverVars, modelVars,
               callVars, bounds, histories
<1>17. CASE program = "up" /\ SaverEnds
  BY <1>17 DEF SaverEnds, TypesMatch, CheckpointsTyped, MutexMatches, Goto, Caller,
               IsRegistered, AtRest, Holding, Removing, disk, saverVars, modelVars,
               callVars, bounds, histories
<1>18. CASE program = "up" /\ RequestStop
  BY <1>18 DEF RequestStop, Request, TypesMatch, CheckpointsTyped, MutexMatches, Goto,
               Caller, IsRegistered, AtRest, Holding, Removing, disk, saverVars, modelVars,
               callVars, bounds, histories
<1>19. CASE program = "up" /\ StartTraining
  BY <1>19 DEF StartTraining, TypesMatch, CheckpointsTyped, MutexMatches, Goto, Caller,
               IsRegistered, AtRest, Holding, Removing, disk, saverVars, modelVars,
               callVars, bounds, histories
<1>20. ASSUME program = "up", NEW t \in Caller, CheckExists(t) PROVE MutexMatches'
  BY <1>20 DEF CheckExists, TypesMatch, CheckpointsTyped, MutexMatches, Goto, Caller,
               IsRegistered, AtRest, Holding, Removing, disk, saverVars, modelVars,
               callVars, bounds, histories
<1>21. ASSUME program = "up", NEW t \in Caller, Register(t) PROVE MutexMatches'
  BY <1>21 DEF Register, TypesMatch, CheckpointsTyped, MutexMatches, Goto, Caller,
               IsRegistered, AtRest, Holding, Removing, disk, saverVars, modelVars,
               callVars, bounds, histories
<1>22. ASSUME program = "up", NEW t \in Caller, saveCurrentRegistryNoLock(t) PROVE MutexMatches'
  BY <1>22 DEF saveCurrentRegistryNoLock, TypesMatch, CheckpointsTyped, MutexMatches, Goto,
               Caller, IsRegistered, AtRest, Holding, Removing, disk, saverVars, modelVars,
               callVars, bounds, histories
<1>23. ASSUME program = "up", NEW t \in Caller, Joinable(t) PROVE MutexMatches'
  BY <1>23 DEF Joinable, TypesMatch, CheckpointsTyped, MutexMatches, Goto, Caller,
               IsRegistered, AtRest, Holding, Removing, disk, saverVars, modelVars,
               callVars, bounds, histories
<1>24. ASSUME program = "up", NEW t \in Caller, Join(t) PROVE MutexMatches'
  BY <1>24 DEF Join, TypesMatch, CheckpointsTyped, MutexMatches, Goto, Caller, IsRegistered,
               AtRest, Holding, Removing, disk, saverVars, modelVars, callVars, bounds,
               histories
<1>25. ASSUME program = "up", NEW t \in Caller, Spawn(t) PROVE MutexMatches'
  BY <1>25 DEF Spawn, TypesMatch, CheckpointsTyped, MutexMatches, Goto, Caller,
               IsRegistered, AtRest, Holding, Removing, disk, saverVars, modelVars,
               callVars, bounds, histories
<1>26. ASSUME program = "up", NEW n \in UiNames, RequestSave(n) PROVE MutexMatches'
  BY <1>26 DEF RequestSave, Request, BeginSave, TypesMatch, CheckpointsTyped, MutexMatches,
               Goto, Caller, IsRegistered, AtRest, Holding, Removing, disk, saverVars,
               modelVars, callVars, bounds, histories
<1>27. ASSUME program = "up", NEW n \in Name, RequestLoad(n) PROVE MutexMatches'
  BY <1>27 DEF RequestLoad, Request, TypesMatch, CheckpointsTyped, MutexMatches, Goto,
               Caller, IsRegistered, AtRest, Holding, Removing, disk, saverVars, modelVars,
               callVars, bounds, histories
<1>28. ASSUME program = "up", NEW n \in Name, RequestDelete(n) PROVE MutexMatches'
  BY <1>28 DEF RequestDelete, Request, TypesMatch, CheckpointsTyped, MutexMatches, Goto,
               Caller, IsRegistered, AtRest, Holding, Removing, disk, saverVars, modelVars,
               callVars, bounds, histories
<1>29. CASE UNCHANGED checkpointsVars
  BY <1>29 DEF checkpointsVars, TypesMatch, CheckpointsTyped, MutexMatches, Goto, Caller,
               IsRegistered, AtRest, Holding, Removing, disk, saverVars, modelVars,
               callVars, bounds, histories
<1> QED BY <1>1, <1>2, <1>3, <1>4, <1>5, <1>6, <1>7, <1>8, <1>9, <1>10, <1>11, <1>12, <1>13,
           <1>14, <1>15, <1>16, <1>17, <1>18, <1>19, <1>20, <1>21, <1>22, <1>23, <1>24,
           <1>25, <1>26, <1>27, <1>28, <1>29
  DEF CheckpointsNext, Running, TimerStep, DeleteStep, TrainerStep, SaverStep, CallerStep,
      Caller

(* Who saves what.                                                         *)
LEMMA NamesStep ==
  ASSUME TypesMatch, NamesMatch, [CheckpointsNext]_checkpointsVars
  PROVE  NamesMatch'
<1>1. CASE Start
  BY <1>1 DEF Start, TypesMatch, CheckpointsTyped, NamesMatch, Saving, Goto, Caller, AtRest,
              disk, saverVars, modelVars, callVars, bounds, histories
<1>2. CASE StartSaves
  BY <1>2 DEF StartSaves, TypesMatch, CheckpointsTyped, NamesMatch, Saving, Goto, Caller,
              AtRest, disk, saverVars, modelVars, callVars, bounds, histories
<1>3. CASE Crash
  BY <1>3 DEF Crash, AtRest, TypesMatch, CheckpointsTyped, NamesMatch, Saving, Goto, Caller,
              disk, saverVars, modelVars, callVars, bounds, histories
<1>4. CASE program = "up" /\ RefuseKnownName
  BY <1>4 DEF RefuseKnownName, TypesMatch, CheckpointsTyped, NamesMatch, Saving, Goto,
              Caller, AtRest, disk, saverVars, modelVars, callVars, bounds, histories
<1>5. CASE program = "up" /\ BeginLoad
  BY <1>5 DEF BeginLoad, TypesMatch, CheckpointsTyped, NamesMatch, Saving, Goto, Caller,
              AtRest, disk, saverVars, modelVars, callVars, bounds, histories
<1>6. CASE program = "up" /\ Load
  BY <1>6 DEF Load, TypesMatch, CheckpointsTyped, NamesMatch, Saving, Goto, Caller, AtRest,
              disk, saverVars, modelVars, callVars, bounds, histories
<1>7. CASE program = "up" /\ Delete
  BY <1>7 DEF Delete, TypesMatch, CheckpointsTyped, NamesMatch, Saving, Goto, Caller,
              AtRest, disk, saverVars, modelVars, callVars, bounds, histories
<1>8. CASE program = "up" /\ RemoveTarget
  BY <1>8 DEF RemoveTarget, TypesMatch, CheckpointsTyped, NamesMatch, Saving, Goto, Caller,
              AtRest, disk, saverVars, modelVars, callVars, bounds, histories
<1>9. CASE program = "up" /\ RemoveOptimizer
  BY <1>9 DEF RemoveOptimizer, TypesMatch, CheckpointsTyped, NamesMatch, Saving, Goto,
              Caller, AtRest, disk, saverVars, modelVars, callVars, bounds, histories
<1>10. CASE program = "up" /\ Erase
  BY <1>10 DEF Erase, TypesMatch, CheckpointsTyped, NamesMatch, Saving, Goto, Caller,
               AtRest, disk, saverVars, modelVars, callVars, bounds, histories
<1>11. CASE program = "up" /\ BeginIteration
  BY <1>11 DEF BeginIteration, TypesMatch, CheckpointsTyped, NamesMatch, Saving, Goto,
               Caller, AtRest, disk, saverVars, modelVars, callVars, bounds, histories
<1>12. CASE program = "up" /\ TrainModel
  BY <1>12 DEF TrainModel, TypesMatch, CheckpointsTyped, NamesMatch, Saving, Goto, Caller,
               AtRest, disk, saverVars, modelVars, callVars, bounds, histories
<1>13. CASE program = "up" /\ CountStep
  BY <1>13 DEF CountStep, TypesMatch, CheckpointsTyped, NamesMatch, Saving, Goto, Caller,
               AtRest, disk, saverVars, modelVars, callVars, bounds, histories
<1>14. CASE program = "up" /\ SaveBackup
  BY <1>14 DEF SaveBackup, BeginSave, TypesMatch, CheckpointsTyped, NamesMatch, Saving,
               Goto, Caller, AtRest, disk, saverVars, modelVars, callVars, bounds, histories
<1>15. CASE program = "up" /\ SaverLocksModel
  BY <1>15 DEF SaverLocksModel, TypesMatch, CheckpointsTyped, NamesMatch, Saving, Goto,
               Caller, AtRest, disk, saverVars, modelVars, callVars, bounds, histories
<1>16. CASE program = "up" /\ SaverWrites
  BY <1>16 DEF SaverWrites, AfterFile, TypesMatch, CheckpointsTyped, NamesMatch, Saving,
               Goto, Caller, AtRest, disk, saverVars, modelVars, callVars, bounds, histories
<1>17. CASE program = "up" /\ SaverEnds
  BY <1>17 DEF SaverEnds, TypesMatch, CheckpointsTyped, NamesMatch, Saving, Goto, Caller,
               AtRest, disk, saverVars, modelVars, callVars, bounds, histories
<1>18. CASE program = "up" /\ RequestStop
  BY <1>18 DEF RequestStop, Request, TypesMatch, CheckpointsTyped, NamesMatch, Saving, Goto,
               Caller, AtRest, disk, saverVars, modelVars, callVars, bounds, histories
<1>19. CASE program = "up" /\ StartTraining
  BY <1>19 DEF StartTraining, TypesMatch, CheckpointsTyped, NamesMatch, Saving, Goto,
               Caller, AtRest, disk, saverVars, modelVars, callVars, bounds, histories
<1>20. ASSUME program = "up", NEW t \in Caller, CheckExists(t) PROVE NamesMatch'
  BY <1>20 DEF CheckExists, TypesMatch, CheckpointsTyped, NamesMatch, Saving, Goto, Caller,
               AtRest, disk, saverVars, modelVars, callVars, bounds, histories
<1>21. ASSUME program = "up", NEW t \in Caller, Register(t) PROVE NamesMatch'
  BY <1>21 DEF Register, TypesMatch, CheckpointsTyped, NamesMatch, Saving, Goto, Caller,
               AtRest, disk, saverVars, modelVars, callVars, bounds, histories
<1>22. ASSUME program = "up", NEW t \in Caller, saveCurrentRegistryNoLock(t) PROVE NamesMatch'
  BY <1>22 DEF saveCurrentRegistryNoLock, TypesMatch, CheckpointsTyped, NamesMatch, Saving,
               Goto, Caller, AtRest, disk, saverVars, modelVars, callVars, bounds, histories
<1>23. ASSUME program = "up", NEW t \in Caller, Joinable(t) PROVE NamesMatch'
  BY <1>23 DEF Joinable, TypesMatch, CheckpointsTyped, NamesMatch, Saving, Goto, Caller,
               AtRest, disk, saverVars, modelVars, callVars, bounds, histories
<1>24. ASSUME program = "up", NEW t \in Caller, Join(t) PROVE NamesMatch'
  BY <1>24 DEF Join, TypesMatch, CheckpointsTyped, NamesMatch, Saving, Goto, Caller, AtRest,
               disk, saverVars, modelVars, callVars, bounds, histories
<1>25. ASSUME program = "up", NEW t \in Caller, Spawn(t) PROVE NamesMatch'
  BY <1>25 DEF Spawn, TypesMatch, CheckpointsTyped, NamesMatch, Saving, Goto, Caller,
               AtRest, disk, saverVars, modelVars, callVars, bounds, histories
<1>26. ASSUME program = "up", NEW n \in UiNames, RequestSave(n) PROVE NamesMatch'
  BY <1>26 DEF RequestSave, Request, BeginSave, TypesMatch, CheckpointsTyped, NamesMatch,
               Saving, Goto, Caller, AtRest, disk, saverVars, modelVars, callVars, bounds,
               histories
<1>27. ASSUME program = "up", NEW n \in Name, RequestLoad(n) PROVE NamesMatch'
  BY <1>27 DEF RequestLoad, Request, TypesMatch, CheckpointsTyped, NamesMatch, Saving, Goto,
               Caller, AtRest, disk, saverVars, modelVars, callVars, bounds, histories
<1>28. ASSUME program = "up", NEW n \in Name, RequestDelete(n) PROVE NamesMatch'
  BY <1>28 DEF RequestDelete, Request, TypesMatch, CheckpointsTyped, NamesMatch, Saving,
               Goto, Caller, AtRest, disk, saverVars, modelVars, callVars, bounds, histories
<1>29. CASE UNCHANGED checkpointsVars
  BY <1>29 DEF checkpointsVars, TypesMatch, CheckpointsTyped, NamesMatch, Saving, Goto,
               Caller, AtRest, disk, saverVars, modelVars, callVars, bounds, histories
<1> QED BY <1>1, <1>2, <1>3, <1>4, <1>5, <1>6, <1>7, <1>8, <1>9, <1>10, <1>11, <1>12, <1>13,
           <1>14, <1>15, <1>16, <1>17, <1>18, <1>19, <1>20, <1>21, <1>22, <1>23, <1>24,
           <1>25, <1>26, <1>27, <1>28, <1>29
  DEF CheckpointsNext, Running, TimerStep, DeleteStep, TrainerStep, SaverStep, CallerStep,
      Caller

(* Where the checkpointing thread is.                                      *)
LEMMA SaverStepMatches ==
  ASSUME TypesMatch, MutexMatches, SaverMatches, [CheckpointsNext]_checkpointsVars
  PROVE  SaverMatches'
<1>1. CASE Start
  BY <1>1 DEF Start, MutexMatches, SaverMatches, File, AfterFile, disk, saverVars,
              modelVars, callVars, bounds, histories
<1>2. CASE StartSaves
  BY <1>2 DEF StartSaves, MutexMatches, SaverMatches, File, AfterFile, disk, saverVars,
              modelVars, callVars, bounds, histories
<1>3. CASE Crash
  BY <1>3 DEF Crash, AtRest, MutexMatches, SaverMatches, File, AfterFile, disk, saverVars,
              modelVars, callVars, bounds, histories
<1>4. CASE program = "up" /\ RefuseKnownName
  BY <1>4 DEF RefuseKnownName, MutexMatches, SaverMatches, File, AfterFile, disk, saverVars,
              modelVars, callVars, bounds, histories
<1>5. CASE program = "up" /\ BeginLoad
  BY <1>5 DEF BeginLoad, MutexMatches, SaverMatches, File, AfterFile, disk, saverVars,
              modelVars, callVars, bounds, histories
<1>6. CASE program = "up" /\ Load
  BY <1>6 DEF Load, MutexMatches, SaverMatches, File, AfterFile, disk, saverVars, modelVars,
              callVars, bounds, histories
<1>7. CASE program = "up" /\ Delete
  BY <1>7 DEF Delete, MutexMatches, SaverMatches, File, AfterFile, disk, saverVars,
              modelVars, callVars, bounds, histories
<1>8. CASE program = "up" /\ RemoveTarget
  BY <1>8 DEF RemoveTarget, MutexMatches, SaverMatches, File, AfterFile, disk, saverVars,
              modelVars, callVars, bounds, histories
<1>9. CASE program = "up" /\ RemoveOptimizer
  BY <1>9 DEF RemoveOptimizer, MutexMatches, SaverMatches, File, AfterFile, disk, saverVars,
              modelVars, callVars, bounds, histories
<1>10. CASE program = "up" /\ Erase
  BY <1>10 DEF Erase, MutexMatches, SaverMatches, File, AfterFile, disk, saverVars,
               modelVars, callVars, bounds, histories
<1>11. CASE program = "up" /\ BeginIteration
  BY <1>11 DEF BeginIteration, MutexMatches, SaverMatches, File, AfterFile, disk, saverVars,
               modelVars, callVars, bounds, histories
<1>12. CASE program = "up" /\ TrainModel
  BY <1>12 DEF TrainModel, MutexMatches, SaverMatches, File, AfterFile, disk, saverVars,
               modelVars, callVars, bounds, histories
<1>13. CASE program = "up" /\ CountStep
  BY <1>13 DEF CountStep, MutexMatches, SaverMatches, File, AfterFile, disk, saverVars,
               modelVars, callVars, bounds, histories
<1>14. CASE program = "up" /\ SaveBackup
  BY <1>14 DEF SaveBackup, BeginSave, MutexMatches, SaverMatches, File, AfterFile, disk,
               saverVars, modelVars, callVars, bounds, histories
<1>15. CASE program = "up" /\ SaverLocksModel
  BY <1>15 DEF SaverLocksModel, MutexMatches, SaverMatches, File, AfterFile, disk,
               saverVars, modelVars, callVars, bounds, histories
<1>16. CASE program = "up" /\ SaverWrites
  BY <1>16 DEF SaverWrites, AfterFile, MutexMatches, SaverMatches, File, disk, saverVars,
               modelVars, callVars, bounds, histories
<1>17. CASE program = "up" /\ SaverEnds
  BY <1>17 DEF SaverEnds, MutexMatches, SaverMatches, File, AfterFile, disk, saverVars,
               modelVars, callVars, bounds, histories
<1>18. CASE program = "up" /\ RequestStop
  BY <1>18 DEF RequestStop, Request, MutexMatches, SaverMatches, File, AfterFile, disk,
               saverVars, modelVars, callVars, bounds, histories
<1>19. CASE program = "up" /\ StartTraining
  BY <1>19 DEF StartTraining, MutexMatches, SaverMatches, File, AfterFile, disk, saverVars,
               modelVars, callVars, bounds, histories
<1>20. ASSUME program = "up", NEW t \in Caller, CheckExists(t) PROVE SaverMatches'
  BY <1>20 DEF CheckExists, MutexMatches, SaverMatches, File, AfterFile, disk, saverVars,
               modelVars, callVars, bounds, histories
<1>21. ASSUME program = "up", NEW t \in Caller, Register(t) PROVE SaverMatches'
  BY <1>21 DEF Register, MutexMatches, SaverMatches, File, AfterFile, disk, saverVars,
               modelVars, callVars, bounds, histories
<1>22. ASSUME program = "up", NEW t \in Caller, saveCurrentRegistryNoLock(t) PROVE SaverMatches'
  BY <1>22 DEF saveCurrentRegistryNoLock, MutexMatches, SaverMatches, File, AfterFile, disk,
               saverVars, modelVars, callVars, bounds, histories
<1>23. ASSUME program = "up", NEW t \in Caller, Joinable(t) PROVE SaverMatches'
  BY <1>23 DEF Joinable, MutexMatches, SaverMatches, File, AfterFile, disk, saverVars,
               modelVars, callVars, bounds, histories
<1>24. ASSUME program = "up", NEW t \in Caller, Join(t) PROVE SaverMatches'
  BY <1>24 DEF Join, MutexMatches, SaverMatches, File, AfterFile, disk, saverVars,
               modelVars, callVars, bounds, histories
<1>25. ASSUME program = "up", NEW t \in Caller, Spawn(t) PROVE SaverMatches'
  BY <1>25 DEF Spawn, MutexMatches, SaverMatches, File, AfterFile, disk, saverVars,
               modelVars, callVars, bounds, histories
<1>26. ASSUME program = "up", NEW n \in UiNames, RequestSave(n) PROVE SaverMatches'
  BY <1>26 DEF RequestSave, Request, BeginSave, MutexMatches, SaverMatches, File, AfterFile,
               disk, saverVars, modelVars, callVars, bounds, histories
<1>27. ASSUME program = "up", NEW n \in Name, RequestLoad(n) PROVE SaverMatches'
  BY <1>27 DEF RequestLoad, Request, MutexMatches, SaverMatches, File, AfterFile, disk,
               saverVars, modelVars, callVars, bounds, histories
<1>28. ASSUME program = "up", NEW n \in Name, RequestDelete(n) PROVE SaverMatches'
  BY <1>28 DEF RequestDelete, Request, MutexMatches, SaverMatches, File, AfterFile, disk,
               saverVars, modelVars, callVars, bounds, histories
<1>29. CASE UNCHANGED checkpointsVars
  BY <1>29 DEF checkpointsVars, MutexMatches, SaverMatches, File, AfterFile, disk,
               saverVars, modelVars, callVars, bounds, histories
<1> QED BY <1>1, <1>2, <1>3, <1>4, <1>5, <1>6, <1>7, <1>8, <1>9, <1>10, <1>11, <1>12, <1>13,
           <1>14, <1>15, <1>16, <1>17, <1>18, <1>19, <1>20, <1>21, <1>22, <1>23, <1>24,
           <1>25, <1>26, <1>27, <1>28, <1>29
  DEF CheckpointsNext, Running, TimerStep, DeleteStep, TrainerStep, SaverStep, CallerStep,
      Caller

(* Names stay as rare as they are when nothing new is registered.          *)
LEMMA SeldomKept ==
  ASSUME TypesMatch, RegistersSeldom, doubled' = doubled, Selects(registry', registry),
         registryFile' = registryFile \/ registryFile' = registry' \/ registryFile' = << >>,
         \A t \in Caller, n \in Name : Adds(t, n)' => Adds(t, n)
  PROVE  RegistersSeldom'
<1>1. PICK s : s = registry'
  OBVIOUS
<1>2. PICK f : f = registryFile'
  OBVIOUS
<1>3. Selects(s, registry)
  BY <1>1
<1>4. /\ Seldom(registry, doubled) => Seldom(s, doubled)
      /\ \A n : Single(n, registry) => Single(n, s)
      /\ \A n : IsRegistered(n, s) => IsRegistered(n, registry)
  BY <1>3, SelectedFacts
<1>5. Seldom(s, doubled) /\ Seldom(registryFile, doubled) /\ doubled \subseteq {Backup}
  BY <1>4 DEF RegistersSeldom
<1>6. Seldom(<< >>, doubled)
  BY DEF Seldom, AtMostTwice
<1>7. Seldom(f, doubled)
  BY <1>1, <1>2, <1>5, <1>6
<1>8. Seldom(registry', doubled') /\ Seldom(registryFile', doubled')
  BY <1>1, <1>2, <1>5, <1>7
<1>9. ASSUME NEW t \in Caller, NEW n \in Name, Adds(t, n)' PROVE AddsSeldom(t, n)'
  <2>1. /\ Single(n, registry)
        /\ IsRegistered(n, registry) => n = Backup /\ \A u \in Caller \ {t} : ~Adds(u, n)
    BY <1>9 DEF RegistersSeldom, AddsSeldom
  <2>2. Single(n, registry') /\ (IsRegistered(n, registry') => IsRegistered(n, registry))
    BY <1>1, <1>4, <2>1
  <2> QED BY <2>1, <2>2 DEF AddsSeldom, Single, IsRegistered
<1> QED BY <1>5, <1>8, <1>9 DEF RegistersSeldom, Seldom, AtMostTwice

LEMMA SelectsItself ==
  ASSUME NEW r
  PROVE  Selects(r, r)
<1>1. PICK at : at = [k \in DOMAIN r |-> k]
  OBVIOUS
<1>2. Picks(at, r, r)
  BY <1>1 DEF Picks
<1> QED BY <1>2 DEF Selects

(* How often a name is registered.                                         *)
LEMMA RegistersSeldomStep ==
  ASSUME TypesMatch, MutexMatches, NamesMatch, RegistersSeldom,
         [CheckpointsNext]_checkpointsVars
  PROVE  RegistersSeldom'
<1>1. CASE Start
  <2>1. \A t \in Caller : pc'[t] # "register"
    BY <1>1 DEF Start, MutexMatches, AtRest, callVars
  <2>2. PICK s : s = registry'
    OBVIOUS
  <2>3. PICK r : r = registryFile
    OBVIOUS
  <2>4. r \in Seq(Entry) /\ s = Pruned(r) /\ Seldom(r, doubled)
    BY <1>1, <2>2, <2>3 DEF Start, TypesMatch, CheckpointsTyped, RegistersSeldom
  <2>5. Selects(s, r)
    BY <2>4, PrunedFacts
  <2>6. Seldom(s, doubled)
    BY <2>4, <2>5, SelectedFacts
  <2>7. Seldom(<< >>, doubled)
    BY DEF Seldom, AtMostTwice
  <2>8. registryFile' = r \/ registryFile' = << >>
    BY <1>1, <2>3 DEF Start
  <2>9. doubled' = doubled
    BY <1>1 DEF Start, histories
  <2>10. Seldom(registry', doubled') /\ Seldom(registryFile', doubled')
    BY <2>2, <2>4, <2>6, <2>7, <2>8, <2>9
  <2> QED BY <2>1, <2>9, <2>10 DEF RegistersSeldom, Adds, Seldom, AtMostTwice
<1>2. CASE StartSaves
  <2>1. Selects(registry', registry)
    <3>1. registry' = registry
      BY <1>2 DEF StartSaves
    <3> QED BY <3>1, SelectsItself
  <2>2. /\ doubled' = doubled
        /\ registryFile' = registryFile \/ registryFile' = registry' \/ registryFile' = << >>
    BY <1>2 DEF StartSaves, disk, histories
  <2>3. \A u \in Caller, a \in Name : Adds(u, a)' => Adds(u, a)
    BY <1>2 DEF StartSaves, Goto, Adds, TypesMatch, CheckpointsTyped, Caller, callVars
  <2> QED BY <2>1, <2>2, <2>3, SeldomKept
<1>3. CASE Crash
  <2>1. \A t \in Caller, n \in Name : ~Adds(t, n)'
    BY <1>3 DEF Crash, Adds
  <2>2. registry' = << >> /\ registryFile' = registryFile /\ doubled' = doubled
    BY <1>3 DEF Crash, disk
  <2> QED BY <2>1, <2>2 DEF RegistersSeldom, Seldom, AtMostTwice
<1>4. CASE program = "up" /\ RefuseKnownName
  <2>1. Selects(registry', registry)
    <3>1. registry' = registry
      BY <1>4 DEF RefuseKnownName
    <3> QED BY <3>1, SelectsItself
  <2>2. /\ doubled' = doubled
        /\ registryFile' = registryFile \/ registryFile' = registry' \/ registryFile' = << >>
    BY <1>4 DEF RefuseKnownName, disk, histories
  <2>3. \A u \in Caller, a \in Name : Adds(u, a)' => Adds(u, a)
    BY <1>4 DEF RefuseKnownName, Goto, Adds, TypesMatch, CheckpointsTyped, Caller, callVars
  <2> QED BY <2>1, <2>2, <2>3, SeldomKept
<1>5. CASE program = "up" /\ BeginLoad
  <2>1. Selects(registry', registry)
    <3>1. registry' = registry
      BY <1>5 DEF BeginLoad
    <3> QED BY <3>1, SelectsItself
  <2>2. /\ doubled' = doubled
        /\ registryFile' = registryFile \/ registryFile' = registry' \/ registryFile' = << >>
    BY <1>5 DEF BeginLoad, disk, histories
  <2>3. \A u \in Caller, a \in Name : Adds(u, a)' => Adds(u, a)
    BY <1>5 DEF BeginLoad, Goto, Adds, TypesMatch, CheckpointsTyped, Caller, callVars
  <2> QED BY <2>1, <2>2, <2>3, SeldomKept
<1>6. CASE program = "up" /\ Load
  <2>1. Selects(registry', registry)
    <3>1. registry' = registry
      BY <1>6 DEF Load
    <3> QED BY <3>1, SelectsItself
  <2>2. /\ doubled' = doubled
        /\ registryFile' = registryFile \/ registryFile' = registry' \/ registryFile' = << >>
    BY <1>6 DEF Load, disk, histories
  <2>3. \A u \in Caller, a \in Name : Adds(u, a)' => Adds(u, a)
    BY <1>6 DEF Load, Goto, Adds, TypesMatch, CheckpointsTyped, Caller, callVars
  <2> QED BY <2>1, <2>2, <2>3, SeldomKept
<1>7. CASE program = "up" /\ Delete
  <2>1. Selects(registry', registry)
    <3>1. registry' = registry
      BY <1>7 DEF Delete
    <3> QED BY <3>1, SelectsItself
  <2>2. /\ doubled' = doubled
        /\ registryFile' = registryFile \/ registryFile' = registry' \/ registryFile' = << >>
    BY <1>7 DEF Delete, disk, histories
  <2>3. \A u \in Caller, a \in Name : Adds(u, a)' => Adds(u, a)
    BY <1>7 DEF Delete, Goto, Adds, TypesMatch, CheckpointsTyped, Caller, callVars
  <2> QED BY <2>1, <2>2, <2>3, SeldomKept
<1>8. CASE program = "up" /\ RemoveTarget
  <2>1. Selects(registry', registry)
    <3>1. registry' = registry
      BY <1>8 DEF RemoveTarget
    <3> QED BY <3>1, SelectsItself
  <2>2. /\ doubled' = doubled
        /\ registryFile' = registryFile \/ registryFile' = registry' \/ registryFile' = << >>
    BY <1>8 DEF RemoveTarget, disk, histories
  <2>3. \A u \in Caller, a \in Name : Adds(u, a)' => Adds(u, a)
    BY <1>8 DEF RemoveTarget, Goto, Adds, TypesMatch, CheckpointsTyped, Caller, callVars
  <2> QED BY <2>1, <2>2, <2>3, SeldomKept
<1>9. CASE program = "up" /\ RemoveOptimizer
  <2>1. Selects(registry', registry)
    <3>1. registry' = registry
      BY <1>9 DEF RemoveOptimizer
    <3> QED BY <3>1, SelectsItself
  <2>2. /\ doubled' = doubled
        /\ registryFile' = registryFile \/ registryFile' = registry' \/ registryFile' = << >>
    BY <1>9 DEF RemoveOptimizer, disk, histories
  <2>3. \A u \in Caller, a \in Name : Adds(u, a)' => Adds(u, a)
    BY <1>9 DEF RemoveOptimizer, Goto, Adds, TypesMatch, CheckpointsTyped, Caller, callVars
  <2> QED BY <2>1, <2>2, <2>3, SeldomKept
<1>10. CASE program = "up" /\ Erase
  <2>1. Selects(registry', registry)
    BY <1>10, ErasedEntry DEF TypesMatch
  <2>2. doubled' = doubled /\ registryFile' = << >>
    BY <1>10 DEF Erase, histories
  <2>3. \A u \in Caller, n \in Name : Adds(u, n)' => Adds(u, n)
    BY <1>10 DEF Erase, Goto, Adds, TypesMatch, CheckpointsTyped, Caller
  <2> QED BY <2>1, <2>2, <2>3, SeldomKept
<1>11. CASE program = "up" /\ BeginIteration
  <2>1. Selects(registry', registry)
    <3>1. registry' = registry
      BY <1>11 DEF BeginIteration
    <3> QED BY <3>1, SelectsItself
  <2>2. /\ doubled' = doubled
        /\ registryFile' = registryFile \/ registryFile' = registry' \/ registryFile' = << >>
    BY <1>11 DEF BeginIteration, disk, histories
  <2>3. \A u \in Caller, a \in Name : Adds(u, a)' => Adds(u, a)
    BY <1>11 DEF BeginIteration, Goto, Adds, TypesMatch, CheckpointsTyped, Caller, callVars
  <2> QED BY <2>1, <2>2, <2>3, SeldomKept
<1>12. CASE program = "up" /\ TrainModel
  <2>1. Selects(registry', registry)
    <3>1. registry' = registry
      BY <1>12 DEF TrainModel
    <3> QED BY <3>1, SelectsItself
  <2>2. /\ doubled' = doubled
        /\ registryFile' = registryFile \/ registryFile' = registry' \/ registryFile' = << >>
    BY <1>12 DEF TrainModel, disk, histories
  <2>3. \A u \in Caller, a \in Name : Adds(u, a)' => Adds(u, a)
    BY <1>12 DEF TrainModel, Goto, Adds, TypesMatch, CheckpointsTyped, Caller, callVars
  <2> QED BY <2>1, <2>2, <2>3, SeldomKept
<1>13. CASE program = "up" /\ CountStep
  <2>1. Selects(registry', registry)
    <3>1. registry' = registry
      BY <1>13 DEF CountStep
    <3> QED BY <3>1, SelectsItself
  <2>2. /\ doubled' = doubled
        /\ registryFile' = registryFile \/ registryFile' = registry' \/ registryFile' = << >>
    BY <1>13 DEF CountStep, disk, histories
  <2>3. \A u \in Caller, a \in Name : Adds(u, a)' => Adds(u, a)
    BY <1>13 DEF CountStep, Goto, Adds, TypesMatch, CheckpointsTyped, Caller, callVars
  <2> QED BY <2>1, <2>2, <2>3, SeldomKept
<1>14. CASE program = "up" /\ SaveBackup
  <2>1. Selects(registry', registry)
    <3>1. registry' = registry
      BY <1>14 DEF SaveBackup, BeginSave
    <3> QED BY <3>1, SelectsItself
  <2>2. /\ doubled' = doubled
        /\ registryFile' = registryFile \/ registryFile' = registry' \/ registryFile' = << >>
    BY <1>14 DEF SaveBackup, BeginSave, disk, histories
  <2>3. \A u \in Caller, a \in Name : Adds(u, a)' => Adds(u, a)
    BY <1>14 DEF SaveBackup, BeginSave, Goto, Adds, TypesMatch, CheckpointsTyped, Caller,
                 callVars
  <2> QED BY <2>1, <2>2, <2>3, SeldomKept
<1>15. CASE program = "up" /\ SaverLocksModel
  <2>1. Selects(registry', registry)
    <3>1. registry' = registry
      BY <1>15 DEF SaverLocksModel
    <3> QED BY <3>1, SelectsItself
  <2>2. /\ doubled' = doubled
        /\ registryFile' = registryFile \/ registryFile' = registry' \/ registryFile' = << >>
    BY <1>15 DEF SaverLocksModel, disk, histories
  <2>3. \A u \in Caller, a \in Name : Adds(u, a)' => Adds(u, a)
    BY <1>15 DEF SaverLocksModel, Goto, Adds, TypesMatch, CheckpointsTyped, Caller, callVars
  <2> QED BY <2>1, <2>2, <2>3, SeldomKept
<1>16. CASE program = "up" /\ SaverWrites
  <2>1. Selects(registry', registry)
    <3>1. registry' = registry
      BY <1>16 DEF SaverWrites, AfterFile
    <3> QED BY <3>1, SelectsItself
  <2>2. /\ doubled' = doubled
        /\ registryFile' = registryFile \/ registryFile' = registry' \/ registryFile' = << >>
    BY <1>16 DEF SaverWrites, AfterFile, disk, histories
  <2>3. \A u \in Caller, a \in Name : Adds(u, a)' => Adds(u, a)
    BY <1>16 DEF SaverWrites, AfterFile, Goto, Adds, TypesMatch, CheckpointsTyped, Caller,
                 callVars
  <2> QED BY <2>1, <2>2, <2>3, SeldomKept
<1>17. CASE program = "up" /\ SaverEnds
  <2>1. Selects(registry', registry)
    <3>1. registry' = registry
      BY <1>17 DEF SaverEnds
    <3> QED BY <3>1, SelectsItself
  <2>2. /\ doubled' = doubled
        /\ registryFile' = registryFile \/ registryFile' = registry' \/ registryFile' = << >>
    BY <1>17 DEF SaverEnds, disk, histories
  <2>3. \A u \in Caller, a \in Name : Adds(u, a)' => Adds(u, a)
    BY <1>17 DEF SaverEnds, Goto, Adds, TypesMatch, CheckpointsTyped, Caller, callVars
  <2> QED BY <2>1, <2>2, <2>3, SeldomKept
<1>18. CASE program = "up" /\ RequestStop
  <2>1. Selects(registry', registry)
    <3>1. registry' = registry
      BY <1>18 DEF RequestStop, Request
    <3> QED BY <3>1, SelectsItself
  <2>2. /\ doubled' = doubled
        /\ registryFile' = registryFile \/ registryFile' = registry' \/ registryFile' = << >>
    BY <1>18 DEF RequestStop, Request, disk, histories
  <2>3. \A u \in Caller, a \in Name : Adds(u, a)' => Adds(u, a)
    BY <1>18 DEF RequestStop, Request, Goto, Adds, TypesMatch, CheckpointsTyped, Caller,
                 callVars
  <2> QED BY <2>1, <2>2, <2>3, SeldomKept
<1>19. CASE program = "up" /\ StartTraining
  <2>1. Selects(registry', registry)
    <3>1. registry' = registry
      BY <1>19 DEF StartTraining
    <3> QED BY <3>1, SelectsItself
  <2>2. /\ doubled' = doubled
        /\ registryFile' = registryFile \/ registryFile' = registry' \/ registryFile' = << >>
    BY <1>19 DEF StartTraining, disk, histories
  <2>3. \A u \in Caller, a \in Name : Adds(u, a)' => Adds(u, a)
    BY <1>19 DEF StartTraining, Goto, Adds, TypesMatch, CheckpointsTyped, Caller, callVars
  <2> QED BY <2>1, <2>2, <2>3, SeldomKept
<1>20. ASSUME program = "up", NEW t \in Caller, CheckExists(t) PROVE RegistersSeldom'
  <2>1. registry' = registry /\ registryFile' = registryFile /\ doubled' = doubled
    BY <1>20 DEF CheckExists, disk, histories
  <2>2. \A u \in Caller \ {t}, n \in Name : Adds(u, n)' => Adds(u, n)
    BY <1>20 DEF CheckExists, Goto, Adds, TypesMatch, CheckpointsTyped
  <2>3. \A n \in Name : Adds(t, n)' => ~IsRegistered(n, registry)
    BY <1>20 DEF CheckExists, Goto, Adds, TypesMatch, CheckpointsTyped
  <2>4. ASSUME NEW u \in Caller, NEW n \in Name, Adds(u, n)' PROVE AddsSeldom(u, n)'
    <3>1. CASE ~IsRegistered(n, registry)
      BY <2>1, <3>1 DEF AddsSeldom, Single, IsRegistered
    <3>2. CASE IsRegistered(n, registry)
      <4>1. u # t /\ Adds(u, n) /\ ~Adds(t, n)'
        BY <2>2, <2>3, <2>4, <3>2
      <4>2. AddsSeldom(u, n)
        BY <4>1 DEF RegistersSeldom
      <4>3. Single(n, registry') /\ n = Backup
        BY <2>1, <3>2, <4>2 DEF AddsSeldom
      <4>4. \A w \in Caller \ {u} : ~Adds(w, n)'
        BY <2>2, <3>2, <4>1, <4>2 DEF AddsSeldom
      <4> QED BY <4>3, <4>4 DEF AddsSeldom, Single
    <3> QED BY <3>1, <3>2
  <2> QED BY <2>1, <2>4 DEF RegistersSeldom, Seldom, AtMostTwice
<1>21. ASSUME program = "up", NEW t \in Caller, Register(t) PROVE RegistersSeldom'
  <2>1. /\ registry' = Registered(t) /\ registryFile' = << >>
        /\ pc' = [pc EXCEPT ![t] = "saveRegistry"]
        /\ UNCHANGED <<program, name, exists>>
    BY <1>21 DEF Register, Goto
  <2>2. /\ \A u \in Caller, n \in Name : Adds(u, n)' => Adds(u, n) /\ u # t
    BY <2>1 DEF Adds, TypesMatch, CheckpointsTyped
  <2>3. CASE exists[t]
    <3>1. Selects(registry', registry)
      <4>1. /\ DOMAIN registry' = DOMAIN registry
            /\ \A k \in DOMAIN registry : registry'[k].name = registry[k].name
        <5>1. /\ Registered(t) \in Seq(Entry) /\ Len(Registered(t)) = Len(registry)
              /\ \A k \in 1..Len(registry) : Registered(t)[k].name = registry[k].name
          BY <2>3, RenewedFacts DEF TypesMatch
        <5>2. registry \in Seq(Entry)
          BY DEF TypesMatch, CheckpointsTyped
        <5>3. DOMAIN Registered(t) = 1..Len(registry) /\ DOMAIN registry = 1..Len(registry)
          BY <5>1, <5>2
        <5> QED BY <2>1, <5>1, <5>3
      <4>2. PICK at : at = [k \in DOMAIN registry |-> k]
        OBVIOUS
      <4>3. Picks(at, registry', registry)
        BY <4>1, <4>2 DEF Picks
      <4> QED BY <4>3 DEF Selects
    <3>2. doubled' = doubled
      BY <1>21, <2>3 DEF Register
    <3> QED BY <2>1, <2>2, <3>1, <3>2, SeldomKept
  <2>4. CASE ~exists[t]
    <3>1. PICK e : e = [name |-> name[t], stepCount |-> stepCount[t]]
      OBVIOUS
    <3>2. e \in Entry /\ e.name = name[t] /\ e.name \in Name /\ registry \in Seq(Entry)
      BY <3>1 DEF TypesMatch, CheckpointsTyped, Entry
    <3>3. Adds(t, e.name)
      BY <1>21, <2>4, <3>2 DEF Adds, Register
    <3>4. Single(e.name, registry)
          /\ (IsRegistered(e.name, registry)
              => e.name = Backup /\ \A u \in Caller \ {t} : ~Adds(u, e.name))
      BY <3>2, <3>3 DEF RegistersSeldom, AddsSeldom
    <3>5. PICK s : s = registry'
      OBVIOUS
    <3>6. s = Append(registry, e)
      BY <2>1, <2>4, <3>1, <3>5 DEF Registered
    <3>7. Seldom(registry, doubled) /\ doubled \subseteq {Backup}
      BY DEF RegistersSeldom
    <3>8. /\ Seldom(s, doubled \cup {e.name})
          /\ ~IsRegistered(e.name, registry) => Seldom(s, doubled) /\ Single(e.name, s)
          /\ \A n : IsRegistered(n, s) <=> IsRegistered(n, registry) \/ n = e.name
          /\ \A n : n # e.name /\ Single(n, registry) => Single(n, s)
      BY <3>2, <3>4, <3>6, <3>7, AppendedFacts
    <3>9. doubled' = IF IsRegistered(e.name, registry) THEN doubled \cup {e.name} ELSE doubled
      BY <1>21, <2>4, <3>2 DEF Register
    <3>10. Seldom(registry', doubled') /\ doubled' \subseteq {Backup}
      BY <3>4, <3>5, <3>7, <3>8, <3>9
    <3>11. Seldom(registryFile', doubled')
      BY <2>1 DEF Seldom, AtMostTwice
    <3>12. ASSUME NEW u \in Caller, NEW n \in Name, Adds(u, n)' PROVE AddsSeldom(u, n)'
      <4>1. Adds(u, n) /\ u # t
        BY <2>2, <3>12
      <4>2. /\ Single(n, registry)
            /\ IsRegistered(n, registry) => n = Backup /\ \A w \in Caller \ {u} : ~Adds(w, n)
        BY <4>1 DEF RegistersSeldom, AddsSeldom
      <4>3. CASE n # e.name
        <5>1. Single(n, s) /\ (IsRegistered(n, s) <=> IsRegistered(n, registry))
          BY <3>8, <4>2, <4>3
        <5>2. \A w \in Caller \ {u} : Adds(w, n)' => Adds(w, n)
          BY <2>2
        <5> QED BY <3>5, <4>2, <5>1, <5>2 DEF AddsSeldom, Single, IsRegistered
      <4>4. CASE n = e.name
        <5>1. ~IsRegistered(n, registry)
          BY <3>4, <4>1, <4>4
        <5>2. Single(n, s)
          BY <3>8, <4>4, <5>1
        <5>3. n = Backup
          <6>1. Trainer \in {t, u}
            BY <4>1 DEF Caller
          <6>2. name[t] = n /\ name[u] = n /\ pc[t] = "register" /\ pc[u] = "register"
            BY <1>21, <3>2, <4>1, <4>4 DEF Adds, Register
          <6> QED BY <6>1, <6>2 DEF NamesMatch, Saving
        <5>4. \A w \in Caller \ {u} : ~Adds(w, n)'
          BY <2>2, <4>1 DEF Caller
        <5> QED BY <3>5, <5>2, <5>3, <5>4 DEF AddsSeldom, Single
      <4> QED BY <4>3, <4>4
    <3> QED BY <3>10, <3>11, <3>12 DEF RegistersSeldom, Seldom, AtMostTwice
  <2> QED BY <2>3, <2>4
<1>22. ASSUME program = "up", NEW t \in Caller, saveCurrentRegistryNoLock(t) PROVE RegistersSeldom'
  <2>1. Selects(registry', registry)
    <3>1. registry' = registry
      BY <1>22 DEF saveCurrentRegistryNoLock
    <3> QED BY <3>1, SelectsItself
  <2>2. /\ doubled' = doubled
        /\ registryFile' = registryFile \/ registryFile' = registry' \/ registryFile' = << >>
    BY <1>22 DEF saveCurrentRegistryNoLock, disk, histories
  <2>3. \A u \in Caller, a \in Name : Adds(u, a)' => Adds(u, a)
    BY <1>22 DEF saveCurrentRegistryNoLock, Goto, Adds, TypesMatch, CheckpointsTyped, Caller,
                 callVars
  <2> QED BY <2>1, <2>2, <2>3, SeldomKept
<1>23. ASSUME program = "up", NEW t \in Caller, Joinable(t) PROVE RegistersSeldom'
  <2>1. Selects(registry', registry)
    <3>1. registry' = registry
      BY <1>23 DEF Joinable
    <3> QED BY <3>1, SelectsItself
  <2>2. /\ doubled' = doubled
        /\ registryFile' = registryFile \/ registryFile' = registry' \/ registryFile' = << >>
    BY <1>23 DEF Joinable, disk, histories
  <2>3. \A u \in Caller, a \in Name : Adds(u, a)' => Adds(u, a)
    BY <1>23 DEF Joinable, Goto, Adds, TypesMatch, CheckpointsTyped, Caller, callVars
  <2> QED BY <2>1, <2>2, <2>3, SeldomKept
<1>24. ASSUME program = "up", NEW t \in Caller, Join(t) PROVE RegistersSeldom'
  <2>1. Selects(registry', registry)
    <3>1. registry' = registry
      BY <1>24 DEF Join
    <3> QED BY <3>1, SelectsItself
  <2>2. /\ doubled' = doubled
        /\ registryFile' = registryFile \/ registryFile' = registry' \/ registryFile' = << >>
    BY <1>24 DEF Join, disk, histories
  <2>3. \A u \in Caller, a \in Name : Adds(u, a)' => Adds(u, a)
    BY <1>24 DEF Join, Goto, Adds, TypesMatch, CheckpointsTyped, Caller, callVars
  <2> QED BY <2>1, <2>2, <2>3, SeldomKept
<1>25. ASSUME program = "up", NEW t \in Caller, Spawn(t) PROVE RegistersSeldom'
  <2>1. Selects(registry', registry)
    <3>1. registry' = registry
      BY <1>25 DEF Spawn
    <3> QED BY <3>1, SelectsItself
  <2>2. /\ doubled' = doubled
        /\ registryFile' = registryFile \/ registryFile' = registry' \/ registryFile' = << >>
    BY <1>25 DEF Spawn, disk, histories
  <2>3. \A u \in Caller, a \in Name : Adds(u, a)' => Adds(u, a)
    BY <1>25 DEF Spawn, Goto, Adds, TypesMatch, CheckpointsTyped, Caller, callVars
  <2> QED BY <2>1, <2>2, <2>3, SeldomKept
<1>26. ASSUME program = "up", NEW n \in UiNames, RequestSave(n) PROVE RegistersSeldom'
  <2>1. Selects(registry', registry)
    <3>1. registry' = registry
      BY <1>26 DEF RequestSave, Request, BeginSave
    <3> QED BY <3>1, SelectsItself
  <2>2. /\ doubled' = doubled
        /\ registryFile' = registryFile \/ registryFile' = registry' \/ registryFile' = << >>
    BY <1>26 DEF RequestSave, Request, BeginSave, disk, histories
  <2>3. \A u \in Caller, a \in Name : Adds(u, a)' => Adds(u, a)
    BY <1>26 DEF RequestSave, Request, BeginSave, Goto, Adds, TypesMatch, CheckpointsTyped,
                 Caller, callVars
  <2> QED BY <2>1, <2>2, <2>3, SeldomKept
<1>27. ASSUME program = "up", NEW n \in Name, RequestLoad(n) PROVE RegistersSeldom'
  <2>1. Selects(registry', registry)
    <3>1. registry' = registry
      BY <1>27 DEF RequestLoad, Request
    <3> QED BY <3>1, SelectsItself
  <2>2. /\ doubled' = doubled
        /\ registryFile' = registryFile \/ registryFile' = registry' \/ registryFile' = << >>
    BY <1>27 DEF RequestLoad, Request, disk, histories
  <2>3. \A u \in Caller, a \in Name : Adds(u, a)' => Adds(u, a)
    BY <1>27 DEF RequestLoad, Request, Goto, Adds, TypesMatch, CheckpointsTyped, Caller,
                 callVars
  <2> QED BY <2>1, <2>2, <2>3, SeldomKept
<1>28. ASSUME program = "up", NEW n \in Name, RequestDelete(n) PROVE RegistersSeldom'
  <2>1. Selects(registry', registry)
    <3>1. registry' = registry
      BY <1>28 DEF RequestDelete, Request
    <3> QED BY <3>1, SelectsItself
  <2>2. /\ doubled' = doubled
        /\ registryFile' = registryFile \/ registryFile' = registry' \/ registryFile' = << >>
    BY <1>28 DEF RequestDelete, Request, disk, histories
  <2>3. \A u \in Caller, a \in Name : Adds(u, a)' => Adds(u, a)
    BY <1>28 DEF RequestDelete, Request, Goto, Adds, TypesMatch, CheckpointsTyped, Caller,
                 callVars
  <2> QED BY <2>1, <2>2, <2>3, SeldomKept
<1>29. CASE UNCHANGED checkpointsVars
  <2>1. Selects(registry', registry)
    <3>1. registry' = registry
      BY <1>29 DEF checkpointsVars
    <3> QED BY <3>1, SelectsItself
  <2>2. /\ doubled' = doubled
        /\ registryFile' = registryFile \/ registryFile' = registry' \/ registryFile' = << >>
    BY <1>29 DEF checkpointsVars, disk, histories
  <2>3. \A u \in Caller, a \in Name : Adds(u, a)' => Adds(u, a)
    BY <1>29 DEF checkpointsVars, callVars, Adds
  <2> QED BY <2>1, <2>2, <2>3, SeldomKept
<1> QED BY <1>1, <1>2, <1>3, <1>4, <1>5, <1>6, <1>7, <1>8, <1>9, <1>10, <1>11, <1>12, <1>13,
           <1>14, <1>15, <1>16, <1>17, <1>18, <1>19, <1>20, <1>21, <1>22, <1>23, <1>24,
           <1>25, <1>26, <1>27, <1>28, <1>29
  DEF CheckpointsNext, Running, TimerStep, DeleteStep, TrainerStep, SaverStep, CallerStep,
      Caller

(* What stands goes on to stand if no file changes, nor the model while    *)
(* the checkpointing thread writes.                                        *)
LEMMA StandsOn ==
  ASSUME NEW n, Stands(n), files'[n] = files[n], UNCHANGED saverVars,
         saverPc \in File => model' = model
  PROVE  Stands(n)'
<1>1. /\ \A f \in File : files'[n][f] = files[n][f]
      /\ saverPc' = saverPc /\ saverName' = saverName /\ thread' = thread
  BY DEF saverVars
<1>2. files'[n].model = files[n].model
  BY <1>1
<1>3. OneVersion(n) => OneVersion(n)'
  BY <1>1, <1>2 DEF OneVersion
<1>4. CASE saverPc \in File
  <2>1. model' = model /\ Written' = Written /\ Written \subseteq File
    BY <1>1, <1>4 DEF Written, File
  <2> QED BY <1>1, <1>3, <2>1 DEF Stands
<1>5. CASE saverPc \notin File
  <2>1. Written' = {} /\ Written = {}
    BY <1>1, <1>5 DEF Written, File
  <2> QED BY <1>1, <1>3, <2>1 DEF Stands
<1> QED BY <1>4, <1>5

(* Until a crash what is registered is whole, being written or deleted.    *)
LEMMA WholeOrWrittenStep ==
  ASSUME TypesMatch, MutexMatches, RegistersSeldom, SaverMatches, WholeOrWritten,
         [CheckpointsNext]_checkpointsVars
  PROVE  WholeOrWritten'
<1>1. CASE Start
  <2>1. crashes = 0 => registryFile = << >>
    BY <1>1 DEF Start, WholeOrWritten
  <2>2. crashes = 0 => registry' = << >>
    <3>1. << >> \in Seq(Entry)
      OBVIOUS
    <3>2. Pruned(<< >>) = << >>
      BY <3>1, PrunedFacts
    <3> QED BY <1>1, <2>1, <3>2 DEF Start
  <2> QED BY <1>1, <2>2 DEF Start, WholeOrWritten, bounds, Settled, IsRegistered
<1>2. CASE StartSaves
  BY <1>2 DEF StartSaves, WholeOrWritten, bounds
<1>3. CASE Crash
  BY <1>3 DEF Crash, TypesMatch, WholeOrWritten
<1>4. CASE program = "up" /\ RefuseKnownName
  <2>1. SUFFICES ASSUME crashes = 0, NEW a \in Name, Settled(a)', program' = "up" PROVE Stands(a)'
    BY <1>4 DEF RefuseKnownName, WholeOrWritten, bounds
  <2>2. UNCHANGED saverVars /\ (saverPc \in File => model' = model)
    BY <1>4, CheckpointsAssumption DEF RefuseKnownName, saverVars, modelVars, SaverMatches
  <2>3. files'[a] = files[a]
    BY <1>4 DEF RefuseKnownName, disk
  <2>4. Settled(a)
    BY <1>4, <2>1 DEF RefuseKnownName, Settled, IsRegistered, AtCaller, Deleting, Goto,
                      TypesMatch,
       CheckpointsTyped, Caller, histories, callVars
  <2>5. Stands(a)
    BY <1>4, <2>1, <2>4 DEF WholeOrWritten
  <2> QED BY <2>2, <2>3, <2>5, StandsOn
<1>5. CASE program = "up" /\ BeginLoad
  <2>1. SUFFICES ASSUME crashes = 0, NEW a \in Name, Settled(a)', program' = "up" PROVE Stands(a)'
    BY <1>5 DEF BeginLoad, WholeOrWritten, bounds
  <2>2. UNCHANGED saverVars /\ (saverPc \in File => model' = model)
    BY <1>5, CheckpointsAssumption DEF BeginLoad, saverVars, modelVars, SaverMatches
  <2>3. files'[a] = files[a]
    BY <1>5 DEF BeginLoad, disk
  <2>4. Settled(a)
    BY <1>5, <2>1 DEF BeginLoad, Settled, IsRegistered, AtCaller, Deleting, Goto, TypesMatch,
       CheckpointsTyped, Caller, histories, callVars
  <2>5. Stands(a)
    BY <1>5, <2>1, <2>4 DEF WholeOrWritten
  <2> QED BY <2>2, <2>3, <2>5, StandsOn
<1>6. CASE program = "up" /\ Load
  <2>1. SUFFICES ASSUME crashes = 0, NEW a \in Name, Settled(a)', program' = "up" PROVE Stands(a)'
    BY <1>6 DEF Load, WholeOrWritten, bounds
  <2>2. UNCHANGED saverVars /\ (saverPc \in File => model' = model)
    BY <1>6, CheckpointsAssumption DEF Load, saverVars, modelVars, SaverMatches
  <2>3. files'[a] = files[a]
    BY <1>6 DEF Load, disk
  <2>4. Settled(a)
    BY <1>6, <2>1 DEF Load, Settled, IsRegistered, AtCaller, Deleting, Goto, TypesMatch,
       CheckpointsTyped, Caller, histories, callVars
  <2>5. Stands(a)
    BY <1>6, <2>1, <2>4 DEF WholeOrWritten
  <2> QED BY <2>2, <2>3, <2>5, StandsOn
<1>7. CASE program = "up" /\ Delete
  <2>1. SUFFICES ASSUME crashes = 0, NEW a \in Name, Settled(a)' PROVE Stands(a)'
    BY <1>7 DEF Delete, WholeOrWritten, bounds
  <2>3. Settled(a) /\ (files' = files \/ a # name[Timer])
    BY <1>7, <2>1 DEF Delete, Settled, IsRegistered, AtCaller, Deleting, Goto, TypesMatch,
       CheckpointsTyped, Caller, histories
  <2>4. files'[a] = files[a]
    BY <1>7, <2>3 DEF Delete, disk, TypesMatch, CheckpointsTyped
  <2>5. Stands(a)
    BY <1>7, <2>1, <2>3 DEF WholeOrWritten
  <2>6. UNCHANGED saverVars /\ model' = model
    BY <1>7 DEF Delete, saverVars, modelVars
  <2> QED BY <2>4, <2>5, <2>6, StandsOn
<1>8. CASE program = "up" /\ RemoveTarget
  <2>1. SUFFICES ASSUME crashes = 0, NEW a \in Name, Settled(a)' PROVE Stands(a)'
    BY <1>8 DEF RemoveTarget, WholeOrWritten, bounds
  <2>3. Settled(a) /\ (files' = files \/ a # name[Timer])
    BY <1>8, <2>1 DEF RemoveTarget, Settled, IsRegistered, AtCaller, Deleting, Goto, TypesMatch,
       CheckpointsTyped, Caller, histories
  <2>4. files'[a] = files[a]
    BY <1>8, <2>3 DEF RemoveTarget, disk, TypesMatch, CheckpointsTyped
  <2>5. Stands(a)
    BY <1>8, <2>1, <2>3 DEF WholeOrWritten
  <2>6. UNCHANGED saverVars /\ model' = model
    BY <1>8 DEF RemoveTarget, saverVars, modelVars
  <2> QED BY <2>4, <2>5, <2>6, StandsOn
<1>9. CASE program = "up" /\ RemoveOptimizer
  <2>1. SUFFICES ASSUME crashes = 0, NEW a \in Name, Settled(a)' PROVE Stands(a)'
    BY <1>9 DEF RemoveOptimizer, WholeOrWritten, bounds
  <2>3. Settled(a) /\ (files' = files \/ a # name[Timer])
    BY <1>9, <2>1 DEF RemoveOptimizer, Settled, IsRegistered, AtCaller, Deleting, Goto,
                      TypesMatch,
       CheckpointsTyped, Caller, histories
  <2>4. files'[a] = files[a]
    BY <1>9, <2>3 DEF RemoveOptimizer, disk, TypesMatch, CheckpointsTyped
  <2>5. Stands(a)
    BY <1>9, <2>1, <2>3 DEF WholeOrWritten
  <2>6. UNCHANGED saverVars /\ model' = model
    BY <1>9 DEF RemoveOptimizer, saverVars, modelVars
  <2> QED BY <2>4, <2>5, <2>6, StandsOn
<1>10. CASE program = "up" /\ Erase
  <2>1. SUFFICES ASSUME crashes = 0, NEW a \in Name, Settled(a)' PROVE Stands(a)'
    BY <1>10 DEF Erase, WholeOrWritten, bounds
  <2>2. /\ Selects(registry', registry)
        /\ Single(name[Timer], registry) => ~IsRegistered(name[Timer], registry')
    BY <1>10, ErasedEntry DEF TypesMatch
  <2>3. Settled(a)
    <3>1. PICK s : s = registry'
      OBVIOUS
    <3>2. IsRegistered(a, s) /\ a \notin doubled /\ ~AtCaller(a)
      BY <1>10, <2>1, <3>1
         DEF Erase, Settled, IsRegistered, AtCaller, Goto, TypesMatch, CheckpointsTyped, Caller,
             histories
    <3>3. IsRegistered(a, registry)
      BY <2>2, <3>1, <3>2, SelectedFacts
    <3>4. Single(a, registry)
      BY <3>2 DEF RegistersSeldom, Seldom, Single
    <3>5. a # name[Timer]
      BY <2>2, <3>1, <3>2, <3>4 DEF IsRegistered
    <3> QED BY <3>2, <3>3, <3>5 DEF Settled, Deleting
  <2>4. files'[a] = files[a]
    BY <1>10 DEF Erase
  <2>5. Stands(a)
    BY <1>10, <2>1, <2>3 DEF WholeOrWritten
  <2>6. UNCHANGED saverVars /\ model' = model
    BY <1>10 DEF Erase, saverVars, modelVars
  <2> QED BY <2>4, <2>5, <2>6, StandsOn
<1>11. CASE program = "up" /\ BeginIteration
  <2>1. SUFFICES ASSUME crashes = 0, NEW a \in Name, Settled(a)', program' = "up" PROVE Stands(a)'
    BY <1>11 DEF BeginIteration, WholeOrWritten, bounds
  <2>2. UNCHANGED saverVars /\ (saverPc \in File => model' = model)
    BY <1>11, CheckpointsAssumption DEF BeginIteration, saverVars, modelVars, SaverMatches
  <2>3. files'[a] = files[a]
    BY <1>11 DEF BeginIteration, disk
  <2>4. Settled(a)
    BY <1>11, <2>1 DEF BeginIteration, Settled, IsRegistered, AtCaller, Deleting, Goto,
                       TypesMatch,
       CheckpointsTyped, Caller, histories, callVars
  <2>5. Stands(a)
    BY <1>11, <2>1, <2>4 DEF WholeOrWritten
  <2> QED BY <2>2, <2>3, <2>5, StandsOn
<1>12. CASE program = "up" /\ TrainModel
  <2>1. SUFFICES ASSUME crashes = 0, NEW a \in Name, Settled(a)', program' = "up" PROVE Stands(a)'
    BY <1>12 DEF TrainModel, WholeOrWritten, bounds
  <2>2. UNCHANGED saverVars /\ (saverPc \in File => model' = model)
    BY <1>12, CheckpointsAssumption DEF TrainModel, saverVars, modelVars, SaverMatches
  <2>3. files'[a] = files[a]
    BY <1>12 DEF TrainModel, disk
  <2>4. Settled(a)
    BY <1>12, <2>1 DEF TrainModel, Settled, IsRegistered, AtCaller, Deleting, Goto, TypesMatch,
       CheckpointsTyped, Caller, histories, callVars
  <2>5. Stands(a)
    BY <1>12, <2>1, <2>4 DEF WholeOrWritten
  <2> QED BY <2>2, <2>3, <2>5, StandsOn
<1>13. CASE program = "up" /\ CountStep
  <2>1. SUFFICES ASSUME crashes = 0, NEW a \in Name, Settled(a)', program' = "up" PROVE Stands(a)'
    BY <1>13 DEF CountStep, WholeOrWritten, bounds
  <2>2. UNCHANGED saverVars /\ (saverPc \in File => model' = model)
    BY <1>13, CheckpointsAssumption DEF CountStep, saverVars, modelVars, SaverMatches
  <2>3. files'[a] = files[a]
    BY <1>13 DEF CountStep, disk
  <2>4. Settled(a)
    BY <1>13, <2>1 DEF CountStep, Settled, IsRegistered, AtCaller, Deleting, Goto, TypesMatch,
       CheckpointsTyped, Caller, histories, callVars
  <2>5. Stands(a)
    BY <1>13, <2>1, <2>4 DEF WholeOrWritten
  <2> QED BY <2>2, <2>3, <2>5, StandsOn
<1>14. CASE program = "up" /\ SaveBackup
  <2>1. SUFFICES ASSUME crashes = 0, NEW a \in Name, Settled(a)', program' = "up" PROVE Stands(a)'
    BY <1>14 DEF SaveBackup, BeginSave, WholeOrWritten, bounds
  <2>2. UNCHANGED saverVars /\ (saverPc \in File => model' = model)
    BY <1>14, CheckpointsAssumption DEF SaveBackup, BeginSave, saverVars, modelVars,
                                        SaverMatches
  <2>3. files'[a] = files[a]
    BY <1>14 DEF SaveBackup, BeginSave, disk
  <2>4. Settled(a)
    BY <1>14, <2>1 DEF SaveBackup, BeginSave, Settled, IsRegistered, AtCaller, Deleting, Goto,
                       TypesMatch,
       CheckpointsTyped, Caller, histories, callVars
  <2>5. Stands(a)
    BY <1>14, <2>1, <2>4 DEF WholeOrWritten
  <2> QED BY <2>2, <2>3, <2>5, StandsOn
<1>15. CASE program = "up" /\ SaverLocksModel
  BY <1>15 DEF SaverLocksModel, WholeOrWritten, Settled, Deleting, AtCaller, Stands,
               Written, OneVersion, Goto, TypesMatch, CheckpointsTyped, Caller,
               IsRegistered, callVars, checkpointsVars, disk, saverVars, modelVars, bounds,
               histories
<1>16. CASE program = "up" /\ SaverWrites
  <2>1. SUFFICES ASSUME crashes = 0, NEW n \in Name, Settled(n) PROVE Stands(n)'
    BY <1>16 DEF SaverWrites, WholeOrWritten, bounds, Settled, IsRegistered, AtCaller, Deleting,
               callVars
  <2>2. Stands(n)
    BY <1>16, <2>1 DEF WholeOrWritten
  <2>3. thread = "running" /\ thread' = "running" /\ saverName' = saverName /\ model' = model
    BY <1>16 DEF SaverWrites, SaverMatches, File, modelVars
  <2>4. CASE n # saverName
    <3>1. files'[n] = files[n]
      BY <1>16, <2>4 DEF SaverWrites
    <3> QED BY <2>2, <2>3, <2>4, <3>1 DEF Stands, OneVersion
  <2>5. CASE n = saverName
    <3>1. \A f \in File : files'[n][f] = IF f = saverPc THEN model ELSE files[n][f]
      BY <1>16, <2>5 DEF SaverWrites, TypesMatch, CheckpointsTyped
    <3>2. model # NoVersion
      BY DEF TypesMatch, CheckpointsTyped
    <3>3. CASE saverPc = "model"
      BY <1>16, <2>3, <2>5, <3>1, <3>3 DEF SaverWrites, AfterFile, Stands, Written, File
    <3>4. CASE saverPc = "target"
      BY <1>16, <2>2, <2>3, <2>5, <3>1, <3>4 DEF SaverWrites, AfterFile, Stands, Written, File
    <3>5. CASE saverPc = "optimizer"
      <4>1. files[n]["model"] = model /\ files[n]["target"] = model
        BY <2>2, <2>3, <2>5, <3>5 DEF Stands, Written
      <4>2. \A f \in File : files'[n][f] = model
        BY <3>1, <3>5, <4>1 DEF File
      <4>3. files'[n].model = model
        BY <4>2 DEF File
      <4>4. OneVersion(n)'
        BY <2>3, <3>2, <4>2, <4>3 DEF OneVersion
      <4>5. saverPc' = "list"
        BY <1>16, <3>5 DEF SaverWrites, AfterFile
      <4> QED BY <4>4, <4>5 DEF Stands
    <3> QED BY <1>16, <3>3, <3>4, <3>5 DEF SaverWrites, File
  <2> QED BY <2>4, <2>5
<1>17. CASE program = "up" /\ SaverEnds
  BY <1>17 DEF SaverEnds, WholeOrWritten, Settled, Deleting, AtCaller, Stands, Written,
               OneVersion, Goto, TypesMatch, CheckpointsTyped, Caller, IsRegistered,
               callVars, checkpointsVars, disk, saverVars, modelVars, bounds, histories
<1>18. CASE program = "up" /\ RequestStop
  <2>1. SUFFICES ASSUME crashes = 0, NEW a \in Name, Settled(a)', program' = "up" PROVE Stands(a)'
    BY <1>18 DEF RequestStop, Request, WholeOrWritten, bounds
  <2>2. UNCHANGED saverVars /\ (saverPc \in File => model' = model)
    BY <1>18, CheckpointsAssumption DEF RequestStop, Request, saverVars, modelVars, SaverMatches
  <2>3. files'[a] = files[a]
    BY <1>18 DEF RequestStop, Request, disk
  <2>4. Settled(a)
    BY <1>18, <2>1 DEF RequestStop, Request, Settled, IsRegistered, AtCaller, Deleting, Goto,
                       TypesMatch,
       CheckpointsTyped, Caller, histories, callVars
  <2>5. Stands(a)
    BY <1>18, <2>1, <2>4 DEF WholeOrWritten
  <2> QED BY <2>2, <2>3, <2>5, StandsOn
<1>19. CASE program = "up" /\ StartTraining
  <2>1. SUFFICES ASSUME crashes = 0, NEW a \in Name, Settled(a)', program' = "up" PROVE Stands(a)'
    BY <1>19 DEF StartTraining, WholeOrWritten, bounds
  <2>2. UNCHANGED saverVars /\ (saverPc \in File => model' = model)
    BY <1>19, CheckpointsAssumption DEF StartTraining, saverVars, modelVars, SaverMatches
  <2>3. files'[a] = files[a]
    BY <1>19 DEF StartTraining, disk
  <2>4. Settled(a)
    BY <1>19, <2>1 DEF StartTraining, Settled, IsRegistered, AtCaller, Deleting, Goto,
                       TypesMatch,
       CheckpointsTyped, Caller, histories, callVars
  <2>5. Stands(a)
    BY <1>19, <2>1, <2>4 DEF WholeOrWritten
  <2> QED BY <2>2, <2>3, <2>5, StandsOn
<1>20. ASSUME program = "up", NEW t \in Caller, CheckExists(t) PROVE WholeOrWritten'
  <2>1. SUFFICES ASSUME crashes = 0, NEW a \in Name, Settled(a)', program' = "up" PROVE Stands(a)'
    BY <1>20 DEF CheckExists, WholeOrWritten, bounds
  <2>2. UNCHANGED saverVars /\ (saverPc \in File => model' = model)
    BY <1>20, CheckpointsAssumption DEF CheckExists, saverVars, modelVars, SaverMatches
  <2>3. files'[a] = files[a]
    BY <1>20 DEF CheckExists, disk
  <2>4. Settled(a)
    BY <1>20, <2>1 DEF CheckExists, Settled, IsRegistered, AtCaller, Deleting, Goto, TypesMatch,
       CheckpointsTyped, Caller, histories, callVars
  <2>5. Stands(a)
    BY <1>20, <2>1, <2>4 DEF WholeOrWritten
  <2> QED BY <2>2, <2>3, <2>5, StandsOn
<1>21. ASSUME program = "up", NEW t \in Caller, Register(t) PROVE WholeOrWritten'
  <2>1. SUFFICES ASSUME crashes = 0, NEW a \in Name, Settled(a)' PROVE Stands(a)'
    BY <1>21 DEF Register, WholeOrWritten, bounds
  <2>2. a # name[t] /\ a \notin doubled /\ ~AtCaller(a) /\ ~Deleting(a)
    BY <1>21, <2>1
       DEF Register, Settled, AtCaller, Deleting, Goto, TypesMatch, CheckpointsTyped, Caller
  <2>3. IsRegistered(a, registry')
    BY <2>1 DEF Settled, IsRegistered
  <2>4. registry' = Registered(t) /\ registry \in Seq(Entry)
    BY <1>21 DEF Register, TypesMatch, CheckpointsTyped
  <2>5. IsRegistered(a, registry)
    <3>1. CASE exists[t]
      <4>1. /\ Registered(t) \in Seq(Entry) /\ Len(Registered(t)) = Len(registry)
            /\ \A k \in 1..Len(registry) : Registered(t)[k].name = registry[k].name
        BY <3>1, RenewedFacts DEF TypesMatch
      <4>2. DOMAIN Registered(t) = 1..Len(registry) /\ DOMAIN registry = 1..Len(registry)
        BY <2>4, <4>1
      <4> QED BY <2>3, <2>4, <4>1, <4>2 DEF IsRegistered
    <3>2. CASE ~exists[t]
      <4>1. registry' = Append(registry, [name |-> name[t], stepCount |-> stepCount[t]])
        BY <2>4, <3>2 DEF Registered
      <4>2. PICK k \in 1..(Len(registry) + 1) : registry'[k].name = a
        BY <2>3, <2>4, <4>1 DEF IsRegistered
      <4>3. k \in 1..Len(registry) /\ registry[k].name = a
        BY <2>2, <2>4, <4>1, <4>2
      <4> QED BY <2>4, <4>3 DEF IsRegistered
    <3> QED BY <3>1, <3>2
  <2>6. Stands(a)
    BY <1>21, <2>1, <2>2, <2>5 DEF WholeOrWritten, Settled
  <2>7. files' = files /\ UNCHANGED saverVars /\ model' = model
    BY <1>21 DEF Register, saverVars, modelVars
  <2> QED BY <2>6, <2>7, StandsOn
<1>22. ASSUME program = "up", NEW t \in Caller, saveCurrentRegistryNoLock(t) PROVE WholeOrWritten'
  <2>1. SUFFICES ASSUME crashes = 0, NEW a \in Name, Settled(a)', program' = "up" PROVE Stands(a)'
    BY <1>22 DEF saveCurrentRegistryNoLock, WholeOrWritten, bounds
  <2>2. UNCHANGED saverVars /\ (saverPc \in File => model' = model)
    BY <1>22, CheckpointsAssumption DEF saveCurrentRegistryNoLock, saverVars, modelVars,
                                        SaverMatches
  <2>3. files'[a] = files[a]
    BY <1>22 DEF saveCurrentRegistryNoLock, disk
  <2>4. Settled(a)
    BY <1>22, <2>1 DEF saveCurrentRegistryNoLock, Settled, IsRegistered, AtCaller, Deleting,
                       Goto, TypesMatch,
       CheckpointsTyped, Caller, histories, callVars
  <2>5. Stands(a)
    BY <1>22, <2>1, <2>4 DEF WholeOrWritten
  <2> QED BY <2>2, <2>3, <2>5, StandsOn
<1>23. ASSUME program = "up", NEW t \in Caller, Joinable(t) PROVE WholeOrWritten'
  <2>1. SUFFICES ASSUME crashes = 0, NEW a \in Name, Settled(a)', program' = "up" PROVE Stands(a)'
    BY <1>23 DEF Joinable, WholeOrWritten, bounds
  <2>2. UNCHANGED saverVars /\ (saverPc \in File => model' = model)
    BY <1>23, CheckpointsAssumption DEF Joinable, saverVars, modelVars, SaverMatches
  <2>3. files'[a] = files[a]
    BY <1>23 DEF Joinable, disk
  <2>4. Settled(a)
    BY <1>23, <2>1 DEF Joinable, Settled, IsRegistered, AtCaller, Deleting, Goto, TypesMatch,
       CheckpointsTyped, Caller, histories, callVars
  <2>5. Stands(a)
    BY <1>23, <2>1, <2>4 DEF WholeOrWritten
  <2> QED BY <2>2, <2>3, <2>5, StandsOn
<1>24. ASSUME program = "up", NEW t \in Caller, Join(t) PROVE WholeOrWritten'
  BY <1>24 DEF Join, WholeOrWritten, Settled, Deleting, AtCaller, Stands, Written,
               OneVersion, Goto, TypesMatch, CheckpointsTyped, Caller, IsRegistered,
               callVars, checkpointsVars, disk, saverVars, modelVars, bounds, histories
<1>25. ASSUME program = "up", NEW t \in Caller, Spawn(t) PROVE WholeOrWritten'
  BY <1>25 DEF Spawn, WholeOrWritten, Settled, Deleting, AtCaller, Stands, Written,
               OneVersion, Goto, TypesMatch, CheckpointsTyped, Caller, IsRegistered,
               callVars, checkpointsVars, disk, saverVars, modelVars, bounds, histories
<1>26. ASSUME program = "up", NEW n \in UiNames, RequestSave(n) PROVE WholeOrWritten'
  <2>1. SUFFICES ASSUME crashes = 0, NEW a \in Name, Settled(a)', program' = "up" PROVE Stands(a)'
    BY <1>26 DEF RequestSave, Request, BeginSave, WholeOrWritten, bounds
  <2>2. UNCHANGED saverVars /\ (saverPc \in File => model' = model)
    BY <1>26, CheckpointsAssumption DEF RequestSave, Request, BeginSave, saverVars, modelVars,
                                        SaverMatches
  <2>3. files'[a] = files[a]
    BY <1>26 DEF RequestSave, Request, BeginSave, disk
  <2>4. Settled(a)
    BY <1>26, <2>1 DEF RequestSave, Request, BeginSave, Settled, IsRegistered, AtCaller,
                       Deleting, Goto, TypesMatch,
       CheckpointsTyped, Caller, histories, callVars
  <2>5. Stands(a)
    BY <1>26, <2>1, <2>4 DEF WholeOrWritten
  <2> QED BY <2>2, <2>3, <2>5, StandsOn
<1>27. ASSUME program = "up", NEW n \in Name, RequestLoad(n) PROVE WholeOrWritten'
  <2>1. SUFFICES ASSUME crashes = 0, NEW a \in Name, Settled(a)', program' = "up" PROVE Stands(a)'
    BY <1>27 DEF RequestLoad, Request, WholeOrWritten, bounds
  <2>2. UNCHANGED saverVars /\ (saverPc \in File => model' = model)
    BY <1>27, CheckpointsAssumption DEF RequestLoad, Request, saverVars, modelVars, SaverMatches
  <2>3. files'[a] = files[a]
    BY <1>27 DEF RequestLoad, Request, disk
  <2>4. Settled(a)
    BY <1>27, <2>1 DEF RequestLoad, Request, Settled, IsRegistered, AtCaller, Deleting, Goto,
                       TypesMatch,
       CheckpointsTyped, Caller, histories, callVars
  <2>5. Stands(a)
    BY <1>27, <2>1, <2>4 DEF WholeOrWritten
  <2> QED BY <2>2, <2>3, <2>5, StandsOn
<1>28. ASSUME program = "up", NEW n \in Name, RequestDelete(n) PROVE WholeOrWritten'
  <2>1. SUFFICES ASSUME crashes = 0, NEW a \in Name, Settled(a)', program' = "up" PROVE Stands(a)'
    BY <1>28 DEF RequestDelete, Request, WholeOrWritten, bounds
  <2>2. UNCHANGED saverVars /\ (saverPc \in File => model' = model)
    BY <1>28, CheckpointsAssumption DEF RequestDelete, Request, saverVars, modelVars,
                                        SaverMatches
  <2>3. files'[a] = files[a]
    BY <1>28 DEF RequestDelete, Request, disk
  <2>4. Settled(a)
    BY <1>28, <2>1 DEF RequestDelete, Request, Settled, IsRegistered, AtCaller, Deleting,
                       Goto, TypesMatch,
       CheckpointsTyped, Caller, histories, callVars
  <2>5. Stands(a)
    BY <1>28, <2>1, <2>4 DEF WholeOrWritten
  <2> QED BY <2>2, <2>3, <2>5, StandsOn
<1>29. CASE UNCHANGED checkpointsVars
  <2>1. SUFFICES ASSUME crashes = 0, NEW a \in Name, Settled(a), program = "up" PROVE Stands(a)'
    BY <1>29 DEF checkpointsVars, WholeOrWritten, bounds, disk, Settled, IsRegistered, AtCaller,
               Deleting, callVars, histories
  <2>2. Stands(a) /\ UNCHANGED saverVars /\ files' = files /\ model' = model
    BY <1>29, <2>1 DEF checkpointsVars, WholeOrWritten, disk, modelVars
  <2> QED BY <2>2, StandsOn
<1> QED BY <1>1, <1>2, <1>3, <1>4, <1>5, <1>6, <1>7, <1>8, <1>9, <1>10, <1>11, <1>12, <1>13,
           <1>14, <1>15, <1>16, <1>17, <1>18, <1>19, <1>20, <1>21, <1>22, <1>23, <1>24,
           <1>25, <1>26, <1>27, <1>28, <1>29
  DEF CheckpointsNext, Running, TimerStep, DeleteStep, TrainerStep, SaverStep, CallerStep,
      Caller

(* What is saved stays on the disk while the registry and its file stay as *)
(* they are.                                                               *)
LEMMA SavedKept ==
  ASSUME SavedStays, program # "down", program' # "down", registry' = registry, files' = files,
         saved' = saved, registryFile' = registryFile \/ registryFile' = registry' \/ Rewriting',
         ~Rewriting' => ~Rewriting \/ registryFile' = registry',
         \A n \in saved : Deleting(n)' => Deleting(n)
  PROVE  SavedStays'
<1>1. ~Rewriting' => registryFile' = registry'
  BY DEF SavedStays
<1>2. ASSUME NEW n \in saved
      PROVE  IsRegistered(n, registry)' /\ IsWhole(n)' /\ ~Deleting(n)'
  BY DEF SavedStays, IsRegistered, IsWhole
<1> QED BY <1>1, <1>2 DEF SavedStays

(* What is saved stays saved.                                              *)
LEMMA SavedStaysStep ==
  ASSUME TypesMatch, MutexMatches, SavedStays, [CheckpointsNext]_checkpointsVars
  PROVE  SavedStays'
<1>1. CASE Start
  <2>1. pc' = AtRest
    BY <1>1 DEF Start, MutexMatches, callVars
  <2>3. program' # "down" /\ (~Rewriting' => registryFile' = registry')
    BY <1>1 DEF Start, Rewriting
  <2>4. PICK r : r = registryFile
    OBVIOUS
  <2>5. PICK s : s = registry'
    OBVIOUS
  <2>6. r \in Seq(Entry) /\ s = Pruned(r)
    BY <1>1, <2>4, <2>5 DEF Start, TypesMatch, CheckpointsTyped
  <2>7. ASSUME NEW a \in saved PROVE IsRegistered(a, s) /\ IsWhole(a)
    <3>1. IsRegistered(a, r) /\ IsWhole(a)
      BY <1>1, <2>4 DEF Start, SavedStays
    <3> QED BY <2>6, <3>1, PrunedFacts
  <2>8. saved' = saved /\ files' = files
    BY <1>1 DEF Start, histories
  <2>9. ASSUME NEW a \in saved PROVE ~Deleting(a)'
    BY <2>1 DEF Deleting, AtRest, Caller
  <2> QED BY <2>3, <2>5, <2>7, <2>8, <2>9 DEF SavedStays, IsRegistered, IsWhole
<1>2. CASE StartSaves
  <2>1. /\ program' # "down" /\ registry' = registry /\ files' = files /\ saved' = saved
        /\ registryFile' = registry' /\ UNCHANGED <<pc, name>>
    BY <1>2 DEF StartSaves, histories, callVars
  <2> QED BY <1>2, <2>1, SavedKept DEF StartSaves, Deleting
<1>3. CASE Crash
  <2>1. program' = "down" /\ registryFile' = registryFile /\ files' = files
    BY <1>3 DEF Crash, disk
  <2>2. CASE Rewriting
    <3>1. saved' = {}
      BY <1>3, <2>2 DEF Crash
    <3> QED BY <2>1, <3>1 DEF SavedStays
  <2>3. CASE ~Rewriting
    <3>1. saved' = saved /\ registryFile = registry
      BY <1>3, <2>3 DEF Crash, SavedStays
    <3>2. \A a \in saved : IsRegistered(a, registry) /\ IsWhole(a)
      BY <1>3 DEF Crash, SavedStays
    <3> QED BY <2>1, <3>1, <3>2 DEF SavedStays, IsRegistered, IsWhole
  <2> QED BY <2>2, <2>3
<1>4. CASE program = "up" /\ RefuseKnownName
  <2>1. /\ program' # "down" /\ registry' = registry /\ files' = files /\ saved' = saved
        /\ registryFile' = registryFile
    BY <1>4 DEF RefuseKnownName, disk, histories
  <2>2. ~Rewriting' => ~Rewriting
    BY <1>4 DEF RefuseKnownName, Rewriting, Goto, TypesMatch, CheckpointsTyped, Caller, callVars
  <2>3. \A a \in saved : Deleting(a)' => Deleting(a)
    BY <1>4 DEF RefuseKnownName, Deleting, Goto, TypesMatch, CheckpointsTyped, Caller, callVars
  <2> QED BY <1>4, <2>1, <2>2, <2>3, SavedKept
<1>5. CASE program = "up" /\ BeginLoad
  <2>1. /\ program' # "down" /\ registry' = registry /\ files' = files /\ saved' = saved
        /\ registryFile' = registryFile
    BY <1>5 DEF BeginLoad, disk, histories
  <2>2. ~Rewriting' => ~Rewriting
    BY <1>5 DEF BeginLoad, Rewriting, Goto, TypesMatch, CheckpointsTyped, Caller, callVars
  <2>3. \A a \in saved : Deleting(a)' => Deleting(a)
    BY <1>5 DEF BeginLoad, Deleting, Goto, TypesMatch, CheckpointsTyped, Caller, callVars
  <2> QED BY <1>5, <2>1, <2>2, <2>3, SavedKept
<1>6. CASE program = "up" /\ Load
  <2>1. /\ program' # "down" /\ registry' = registry /\ files' = files /\ saved' = saved
        /\ registryFile' = registryFile
    BY <1>6 DEF Load, disk, histories
  <2>2. ~Rewriting' => ~Rewriting
    BY <1>6 DEF Load, Rewriting, Goto, TypesMatch, CheckpointsTyped, Caller, callVars
  <2>3. \A a \in saved : Deleting(a)' => Deleting(a)
    BY <1>6 DEF Load, Deleting, Goto, TypesMatch, CheckpointsTyped, Caller, callVars
  <2> QED BY <1>6, <2>1, <2>2, <2>3, SavedKept
<1>7. CASE program = "up" /\ Delete
  <2>1. /\ program' = "up" /\ registry' = registry /\ saved' = saved
        /\ Rewriting' \/ registryFile' = registryFile
    BY <1>7 DEF Delete, histories, Rewriting, Caller, Goto, TypesMatch, CheckpointsTyped, disk
  <2>2. ~Rewriting' => ~Rewriting
    BY <1>7 DEF Delete, Rewriting, Goto, TypesMatch, CheckpointsTyped, Caller
  <2>3. ASSUME NEW a \in saved PROVE IsRegistered(a, registry) /\ IsWhole(a)' /\ ~Deleting(a)'
    <3>1. IsRegistered(a, registry) /\ IsWhole(a) /\ ~Deleting(a) /\ a \in Name
      BY <1>7 DEF SavedStays, TypesMatch, CheckpointsTyped
    <3>2. a # name[Timer]
      BY <1>7, <3>1 DEF Delete, Deleting
    <3>3. files'[a] = files[a] /\ name' = name
      BY <1>7, <3>1, <3>2 DEF Delete, TypesMatch, CheckpointsTyped
    <3> QED BY <3>1, <3>2, <3>3 DEF IsWhole, Deleting
  <2>4. ~Rewriting' => registryFile' = registry'
    BY <1>7, <2>1, <2>2 DEF SavedStays
  <2> QED BY <2>1, <2>3, <2>4 DEF SavedStays, IsRegistered
<1>8. CASE program = "up" /\ RemoveTarget
  <2>1. /\ program' = "up" /\ registry' = registry /\ saved' = saved
        /\ Rewriting' \/ registryFile' = registryFile
    BY <1>8 DEF RemoveTarget, histories, Rewriting, Caller, Goto, TypesMatch,
                CheckpointsTyped, disk
  <2>2. ~Rewriting' => ~Rewriting
    BY <1>8 DEF RemoveTarget, Rewriting, Goto, TypesMatch, CheckpointsTyped, Caller
  <2>3. ASSUME NEW a \in saved PROVE IsRegistered(a, registry) /\ IsWhole(a)' /\ ~Deleting(a)'
    <3>1. IsRegistered(a, registry) /\ IsWhole(a) /\ ~Deleting(a) /\ a \in Name
      BY <1>8 DEF SavedStays, TypesMatch, CheckpointsTyped
    <3>2. a # name[Timer]
      BY <1>8, <3>1 DEF RemoveTarget, Deleting
    <3>3. files'[a] = files[a] /\ name' = name
      BY <1>8, <3>1, <3>2 DEF RemoveTarget, TypesMatch, CheckpointsTyped
    <3> QED BY <3>1, <3>2, <3>3 DEF IsWhole, Deleting
  <2>4. ~Rewriting' => registryFile' = registry'
    BY <1>8, <2>1, <2>2 DEF SavedStays
  <2> QED BY <2>1, <2>3, <2>4 DEF SavedStays, IsRegistered
<1>9. CASE program = "up" /\ RemoveOptimizer
  <2>1. /\ program' = "up" /\ registry' = registry /\ saved' = saved
        /\ Rewriting' \/ registryFile' = registryFile
    BY <1>9 DEF RemoveOptimizer, histories, Rewriting, Caller, Goto, TypesMatch,
                CheckpointsTyped, disk
  <2>2. ~Rewriting' => ~Rewriting
    BY <1>9 DEF RemoveOptimizer, Rewriting, Goto, TypesMatch, CheckpointsTyped, Caller
  <2>3. ASSUME NEW a \in saved PROVE IsRegistered(a, registry) /\ IsWhole(a)' /\ ~Deleting(a)'
    <3>1. IsRegistered(a, registry) /\ IsWhole(a) /\ ~Deleting(a) /\ a \in Name
      BY <1>9 DEF SavedStays, TypesMatch, CheckpointsTyped
    <3>2. a # name[Timer]
      BY <1>9, <3>1 DEF RemoveOptimizer, Deleting
    <3>3. files'[a] = files[a] /\ name' = name
      BY <1>9, <3>1, <3>2 DEF RemoveOptimizer, TypesMatch, CheckpointsTyped
    <3> QED BY <3>1, <3>2, <3>3 DEF IsWhole, Deleting
  <2>4. ~Rewriting' => registryFile' = registry'
    BY <1>9, <2>1, <2>2 DEF SavedStays
  <2> QED BY <2>1, <2>3, <2>4 DEF SavedStays, IsRegistered
<1>10. CASE program = "up" /\ Erase
  <2>1. program' = "up" /\ saved' = saved /\ files' = files /\ name' = name
    BY <1>10 DEF Erase, histories
  <2>2. Rewriting'
    BY <1>10 DEF Erase, Rewriting, Goto, TypesMatch, CheckpointsTyped, Caller
  <2>3. \A n : IsRegistered(n, registry) /\ n # name[Timer] => IsRegistered(n, registry')
    BY <1>10, ErasedEntry DEF TypesMatch
  <2>4. ASSUME NEW a \in saved PROVE IsRegistered(a, registry') /\ IsWhole(a) /\ ~Deleting(a)'
    <3>1. IsRegistered(a, registry) /\ IsWhole(a) /\ ~Deleting(a)
      BY <1>10 DEF SavedStays
    <3>2. a # name[Timer]
      BY <1>10, <3>1 DEF Erase, Deleting
    <3> QED BY <2>1, <2>3, <3>1, <3>2 DEF Deleting
  <2> QED BY <2>1, <2>2, <2>4 DEF SavedStays, IsRegistered, IsWhole
<1>11. CASE program = "up" /\ BeginIteration
  <2>1. /\ program' # "down" /\ registry' = registry /\ files' = files /\ saved' = saved
        /\ registryFile' = registryFile
    BY <1>11 DEF BeginIteration, disk, histories
  <2>2. ~Rewriting' => ~Rewriting
    BY <1>11 DEF BeginIteration, Rewriting, Goto, TypesMatch, CheckpointsTyped, Caller, callVars
  <2>3. \A a \in saved : Deleting(a)' => Deleting(a)
    BY <1>11 DEF BeginIteration, Deleting, Goto, TypesMatch, CheckpointsTyped, Caller, callVars
  <2> QED BY <1>11, <2>1, <2>2, <2>3, SavedKept
<1>12. CASE program = "up" /\ TrainModel
  <2>1. /\ program' # "down" /\ registry' = registry /\ files' = files /\ saved' = saved
        /\ registryFile' = registryFile
    BY <1>12 DEF TrainModel, disk, histories
  <2>2. ~Rewriting' => ~Rewriting
    BY <1>12 DEF TrainModel, Rewriting, Goto, TypesMatch, CheckpointsTyped, Caller, callVars
  <2>3. \A a \in saved : Deleting(a)' => Deleting(a)
    BY <1>12 DEF TrainModel, Deleting, Goto, TypesMatch, CheckpointsTyped, Caller, callVars
  <2> QED BY <1>12, <2>1, <2>2, <2>3, SavedKept
<1>13. CASE program = "up" /\ CountStep
  <2>1. /\ program' # "down" /\ registry' = registry /\ files' = files /\ saved' = saved
        /\ registryFile' = registryFile
    BY <1>13 DEF CountStep, disk, histories
  <2>2. ~Rewriting' => ~Rewriting
    BY <1>13 DEF CountStep, Rewriting, Goto, TypesMatch, CheckpointsTyped, Caller, callVars
  <2>3. \A a \in saved : Deleting(a)' => Deleting(a)
    BY <1>13 DEF CountStep, Deleting, Goto, TypesMatch, CheckpointsTyped, Caller, callVars
  <2> QED BY <1>13, <2>1, <2>2, <2>3, SavedKept
<1>14. CASE program = "up" /\ SaveBackup
  <2>1. /\ program' # "down" /\ registry' = registry /\ files' = files /\ saved' = saved
        /\ registryFile' = registryFile
    BY <1>14 DEF SaveBackup, BeginSave, disk, histories
  <2>2. ~Rewriting' => ~Rewriting
    BY <1>14 DEF SaveBackup, BeginSave, Rewriting, Goto, TypesMatch, CheckpointsTyped, Caller,
                 callVars
  <2>3. \A a \in saved : Deleting(a)' => Deleting(a)
    BY <1>14 DEF SaveBackup, BeginSave, Deleting, Goto, TypesMatch, CheckpointsTyped, Caller,
                 callVars
  <2> QED BY <1>14, <2>1, <2>2, <2>3, SavedKept
<1>15. CASE program = "up" /\ SaverLocksModel
  <2>1. /\ program' # "down" /\ registry' = registry /\ files' = files /\ saved' = saved
        /\ registryFile' = registryFile
    BY <1>15 DEF SaverLocksModel, disk, histories
  <2>2. ~Rewriting' => ~Rewriting
    BY <1>15 DEF SaverLocksModel, Rewriting, Goto, TypesMatch, CheckpointsTyped, Caller,
                 callVars
  <2>3. \A a \in saved : Deleting(a)' => Deleting(a)
    BY <1>15 DEF SaverLocksModel, Deleting, Goto, TypesMatch, CheckpointsTyped, Caller, callVars
  <2> QED BY <1>15, <2>1, <2>2, <2>3, SavedKept
<1>16. CASE program = "up" /\ SaverWrites
  <2>1. /\ program' = "up" /\ registry' = registry /\ registryFile' = registryFile
        /\ UNCHANGED <<pc, name>>
    BY <1>16 DEF SaverWrites, callVars
  <2>2. (Rewriting' <=> Rewriting) /\ \A a : Deleting(a)' <=> Deleting(a)
    BY <1>16, <2>1 DEF Rewriting, Deleting
  <2>3. ASSUME NEW a, IsWhole(a), a \in Name PROVE IsWhole(a)'
    <3>1. model # NoVersion
      BY DEF TypesMatch, CheckpointsTyped
    <3>2. files' = [files EXCEPT ![saverName][saverPc] = model] /\ saverPc \in File
      BY <1>16 DEF SaverWrites
    <3> QED BY <2>3, <3>1, <3>2 DEF IsWhole, TypesMatch, CheckpointsTyped
  <2>4. ASSUME NEW a \in saved' PROVE IsRegistered(a, registry) /\ IsWhole(a)' /\ ~Deleting(a)
    <3>1. CASE a \in saved
      <4>1. IsRegistered(a, registry) /\ IsWhole(a) /\ ~Deleting(a) /\ a \in Name
        BY <1>16, <3>1 DEF SavedStays, TypesMatch, CheckpointsTyped
      <4> QED BY <2>3, <4>1
    <3>2. CASE a \notin saved
      <4>1. /\ a = saverName /\ IsRegistered(saverName, registry) /\ ~Deleting(saverName)
            /\ \A f \in File : files'[saverName][f] # NoVersion
        BY <1>16, <2>4, <3>2 DEF SaverWrites
      <4> QED BY <4>1 DEF IsWhole
    <3> QED BY <3>1, <3>2
  <2>5. ~Rewriting' => registryFile' = registry'
    BY <1>16, <2>1, <2>2 DEF SavedStays
  <2> QED BY <2>1, <2>2, <2>4, <2>5 DEF SavedStays, IsRegistered
<1>17. CASE program = "up" /\ SaverEnds
  <2>1. /\ program' # "down" /\ registry' = registry /\ files' = files /\ saved' = saved
        /\ registryFile' = registryFile
    BY <1>17 DEF SaverEnds, disk, histories
  <2>2. ~Rewriting' => ~Rewriting
    BY <1>17 DEF SaverEnds, Rewriting, Goto, TypesMatch, CheckpointsTyped, Caller, callVars
  <2>3. \A a \in saved : Deleting(a)' => Deleting(a)
    BY <1>17 DEF SaverEnds, Deleting, Goto, TypesMatch, CheckpointsTyped, Caller, callVars
  <2> QED BY <1>17, <2>1, <2>2, <2>3, SavedKept
<1>18. CASE program = "up" /\ RequestStop
  <2>1. /\ program' # "down" /\ registry' = registry /\ files' = files /\ saved' = saved
        /\ registryFile' = registryFile
    BY <1>18 DEF RequestStop, Request, disk, histories
  <2>2. ~Rewriting' => ~Rewriting
    BY <1>18 DEF RequestStop, Request, Rewriting, Goto, TypesMatch, CheckpointsTyped, Caller,
                 callVars
  <2>3. \A a \in saved : Deleting(a)' => Deleting(a)
    BY <1>18 DEF RequestStop, Request, Deleting, Goto, TypesMatch, CheckpointsTyped, Caller,
                 callVars
  <2> QED BY <1>18, <2>1, <2>2, <2>3, SavedKept
<1>19. CASE program = "up" /\ StartTraining
  <2>1. /\ program' # "down" /\ registry' = registry /\ files' = files /\ saved' = saved
        /\ registryFile' = registryFile
    BY <1>19 DEF StartTraining, disk, histories
  <2>2. ~Rewriting' => ~Rewriting
    BY <1>19 DEF StartTraining, Rewriting, Goto, TypesMatch, CheckpointsTyped, Caller, callVars
  <2>3. \A a \in saved : Deleting(a)' => Deleting(a)
    BY <1>19 DEF StartTraining, Deleting, Goto, TypesMatch, CheckpointsTyped, Caller, callVars
  <2> QED BY <1>19, <2>1, <2>2, <2>3, SavedKept
<1>20. ASSUME program = "up", NEW t \in Caller, CheckExists(t) PROVE SavedStays'
  <2>1. /\ program' # "down" /\ registry' = registry /\ files' = files /\ saved' = saved
        /\ registryFile' = registryFile
    BY <1>20 DEF CheckExists, disk, histories
  <2>2. ~Rewriting' => ~Rewriting
    BY <1>20 DEF CheckExists, Rewriting, Goto, TypesMatch, CheckpointsTyped, Caller, callVars
  <2>3. \A a \in saved : Deleting(a)' => Deleting(a)
    BY <1>20 DEF CheckExists, Deleting, Goto, TypesMatch, CheckpointsTyped, Caller, callVars
  <2> QED BY <1>20, <2>1, <2>2, <2>3, SavedKept
<1>21. ASSUME program = "up", NEW t \in Caller, Register(t) PROVE SavedStays'
  <2>1. program' = "up" /\ saved' = saved /\ files' = files /\ name' = name
    BY <1>21 DEF Register
  <2>2. Rewriting'
    BY <1>21 DEF Register, Rewriting, Goto, TypesMatch, CheckpointsTyped, Caller
  <2>3. \A n : Deleting(n)' => Deleting(n)
    BY <1>21 DEF Register, Deleting, Goto, TypesMatch, CheckpointsTyped, Caller
  <2>4. registry' = Registered(t) /\ registry \in Seq(Entry)
    BY <1>21 DEF Register, TypesMatch, CheckpointsTyped
  <2>5. ASSUME NEW a, IsRegistered(a, registry) PROVE IsRegistered(a, registry')
    <3>1. PICK k \in 1..Len(registry) : registry[k].name = a
      BY <2>4, <2>5 DEF IsRegistered
    <3>2. CASE exists[t]
      <4>1. /\ Registered(t) \in Seq(Entry) /\ Len(Registered(t)) = Len(registry)
            /\ \A i \in 1..Len(registry) : Registered(t)[i].name = registry[i].name
        BY <3>2, RenewedFacts DEF TypesMatch
      <4>2. k \in DOMAIN Registered(t)
        BY <4>1
      <4> QED BY <2>4, <3>1, <4>1, <4>2 DEF IsRegistered
    <3>3. CASE ~exists[t]
      <4>1. registry' = Append(registry, [name |-> name[t], stepCount |-> stepCount[t]])
        BY <2>4, <3>3 DEF Registered
      <4>2. k \in DOMAIN registry' /\ registry'[k] = registry[k]
        BY <2>4, <4>1
      <4> QED BY <3>1, <4>2 DEF IsRegistered
    <3> QED BY <3>2, <3>3
  <2>6. ASSUME NEW a \in saved PROVE IsRegistered(a, registry') /\ IsWhole(a) /\ ~Deleting(a)'
    BY <1>21, <2>3, <2>5 DEF SavedStays
  <2> QED BY <2>1, <2>2, <2>6 DEF SavedStays, IsRegistered, IsWhole
<1>22. ASSUME program = "up", NEW t \in Caller, saveCurrentRegistryNoLock(t) PROVE SavedStays'
  <2>1. /\ program' # "down" /\ registry' = registry /\ files' = files /\ saved' = saved
        /\ registryFile' = registry'
    BY <1>22 DEF saveCurrentRegistryNoLock, histories
  <2>2. \A n \in saved : Deleting(n)' => Deleting(n)
    BY <1>22 DEF saveCurrentRegistryNoLock, Deleting, Goto, TypesMatch, CheckpointsTyped, Caller
  <2> QED BY <1>22, <2>1, <2>2, SavedKept
<1>23. ASSUME program = "up", NEW t \in Caller, Joinable(t) PROVE SavedStays'
  <2>1. /\ program' # "down" /\ registry' = registry /\ files' = files /\ saved' = saved
        /\ registryFile' = registryFile
    BY <1>23 DEF Joinable, disk, histories
  <2>2. ~Rewriting' => ~Rewriting
    BY <1>23 DEF Joinable, Rewriting, Goto, TypesMatch, CheckpointsTyped, Caller, callVars
  <2>3. \A a \in saved : Deleting(a)' => Deleting(a)
    BY <1>23 DEF Joinable, Deleting, Goto, TypesMatch, CheckpointsTyped, Caller, callVars
  <2> QED BY <1>23, <2>1, <2>2, <2>3, SavedKept
<1>24. ASSUME program = "up", NEW t \in Caller, Join(t) PROVE SavedStays'
  <2>1. /\ program' # "down" /\ registry' = registry /\ files' = files /\ saved' = saved
        /\ registryFile' = registryFile
    BY <1>24 DEF Join, disk, histories
  <2>2. ~Rewriting' => ~Rewriting
    BY <1>24 DEF Join, Rewriting, Goto, TypesMatch, CheckpointsTyped, Caller, callVars
  <2>3. \A a \in saved : Deleting(a)' => Deleting(a)
    BY <1>24 DEF Join, Deleting, Goto, TypesMatch, CheckpointsTyped, Caller, callVars
  <2> QED BY <1>24, <2>1, <2>2, <2>3, SavedKept
<1>25. ASSUME program = "up", NEW t \in Caller, Spawn(t) PROVE SavedStays'
  <2>1. /\ program' # "down" /\ registry' = registry /\ files' = files /\ saved' = saved
        /\ registryFile' = registryFile
    BY <1>25 DEF Spawn, disk, histories
  <2>2. ~Rewriting' => ~Rewriting
    BY <1>25 DEF Spawn, Rewriting, Goto, TypesMatch, CheckpointsTyped, Caller, callVars
  <2>3. \A a \in saved : Deleting(a)' => Deleting(a)
    BY <1>25 DEF Spawn, Deleting, Goto, TypesMatch, CheckpointsTyped, Caller, callVars
  <2> QED BY <1>25, <2>1, <2>2, <2>3, SavedKept
<1>26. ASSUME program = "up", NEW n \in UiNames, RequestSave(n) PROVE SavedStays'
  <2>1. /\ program' # "down" /\ registry' = registry /\ files' = files /\ saved' = saved
        /\ registryFile' = registryFile
    BY <1>26 DEF RequestSave, Request, BeginSave, disk, histories
  <2>2. ~Rewriting' => ~Rewriting
    BY <1>26 DEF RequestSave, Request, BeginSave, Rewriting, Goto, TypesMatch,
                 CheckpointsTyped, Caller, callVars
  <2>3. \A a \in saved : Deleting(a)' => Deleting(a)
    BY <1>26 DEF RequestSave, Request, BeginSave, Deleting, Goto, TypesMatch,
                 CheckpointsTyped, Caller, callVars
  <2> QED BY <1>26, <2>1, <2>2, <2>3, SavedKept
<1>27. ASSUME program = "up", NEW n \in Name, RequestLoad(n) PROVE SavedStays'
  <2>1. /\ program' # "down" /\ registry' = registry /\ files' = files /\ saved' = saved
        /\ registryFile' = registryFile
    BY <1>27 DEF RequestLoad, Request, disk, histories
  <2>2. ~Rewriting' => ~Rewriting
    BY <1>27 DEF RequestLoad, Request, Rewriting, Goto, TypesMatch, CheckpointsTyped, Caller,
                 callVars
  <2>3. \A a \in saved : Deleting(a)' => Deleting(a)
    BY <1>27 DEF RequestLoad, Request, Deleting, Goto, TypesMatch, CheckpointsTyped, Caller,
                 callVars
  <2> QED BY <1>27, <2>1, <2>2, <2>3, SavedKept
<1>28. ASSUME program = "up", NEW n \in Name, RequestDelete(n) PROVE SavedStays'
  <2>1. /\ program' = "up" /\ registry' = registry /\ files' = files /\ saved' = saved \ {n}
        /\ registryFile' = registryFile /\ pc' = [pc EXCEPT ![Timer] = "delete"]
        /\ name' = [name EXCEPT ![Timer] = n]
    BY <1>28 DEF RequestDelete, Request, disk, Goto
  <2>2. ~Rewriting' => ~Rewriting
    BY <1>28, <2>1 DEF RequestDelete, Request, Rewriting, TypesMatch, CheckpointsTyped, Caller
  <2>3. ASSUME NEW a \in saved \ {n} PROVE IsRegistered(a, registry) /\ IsWhole(a) /\ ~Deleting(a)'
    BY <1>28, <2>1 DEF SavedStays, Deleting, TypesMatch, CheckpointsTyped, Caller
  <2>4. ~Rewriting' => registryFile' = registry'
    BY <1>28, <2>1, <2>2 DEF SavedStays
  <2> QED BY <2>1, <2>3, <2>4 DEF SavedStays, IsRegistered, IsWhole
<1>29. CASE UNCHANGED checkpointsVars
  <2>1. /\ UNCHANGED <<program, registry, registryFile, files, saved, pc, name>>
    BY <1>29 DEF checkpointsVars, disk, histories, callVars
  <2> QED BY <2>1 DEF SavedStays, Rewriting, Deleting, IsRegistered, IsWhole
<1> QED BY <1>1, <1>2, <1>3, <1>4, <1>5, <1>6, <1>7, <1>8, <1>9, <1>10, <1>11, <1>12, <1>13,
           <1>14, <1>15, <1>16, <1>17, <1>18, <1>19, <1>20, <1>21, <1>22, <1>23, <1>24,
           <1>25, <1>26, <1>27, <1>28, <1>29
  DEF CheckpointsNext, Running, TimerStep, DeleteStep, TrainerStep, SaverStep, CallerStep,
      Caller

-----------------------------------------------------------------------------
(* The theorems.                                                           *)

(* Every state that the program can be in is as described above.           *)
LEMMA CheckpointsInvariance == CheckpointsSpec => []CheckpointsInv
<1>1. CheckpointsInit => CheckpointsInv
  <2> SUFFICES ASSUME CheckpointsInit PROVE CheckpointsInv
    OBVIOUS
  <2>1. << >> \in Seq(Entry) /\ Seldom(<< >>, {})
    BY DEF Seldom, AtMostTwice
  <2>2. pc \in [Caller -> Place]
    BY DEF CheckpointsInit, AtRest, Place
  <2>3. files \in [Name -> [File -> Nat \cup {NoVersion}]]
    BY DEF CheckpointsInit
  <2>4. saverName \in Name /\ name \in [Caller -> Name]
    BY DEF CheckpointsInit, Name
  <2>5. TypesMatch
    <3>1. exists \in [Caller -> BOOLEAN] /\ stepCount \in [Caller -> Nat]
      BY DEF CheckpointsInit
    <3>2. {model, trainStepCount} \subseteq Nat
      BY DEF CheckpointsInit
    <3>3. {runTraining, stale} \subseteq BOOLEAN
      BY Zenon DEF CheckpointsInit
    <3> QED BY <2>1, <2>2, <2>3, <2>4, <3>1, <3>2, <3>3
               DEF CheckpointsInit, TypesMatch, CheckpointsTyped
  <2>6. RegistersSeldom
    <3>1. registry = << >> /\ registryFile = << >> /\ doubled = {} /\ program = "down"
      BY DEF CheckpointsInit
    <3> QED BY <2>1, <3>1 DEF RegistersSeldom, Adds
  <2>7. NamesMatch
    BY DEF CheckpointsInit, NamesMatch, AtRest, Saving, Caller
  <2>8. MutexMatches /\ SaverMatches /\ WholeOrWritten
    BY DEF CheckpointsInit, MutexMatches, SaverMatches, WholeOrWritten
  <2>9. SavedStays
    BY DEF CheckpointsInit, SavedStays
  <2> QED BY <2>5, <2>6, <2>7, <2>8, <2>9 DEF CheckpointsInv
<1>2. CheckpointsInv /\ [CheckpointsNext]_checkpointsVars => CheckpointsInv'
  BY TypeStep, MutexStep, NamesStep, RegistersSeldomStep, SaverStepMatches, WholeOrWrittenStep,
     SavedStaysStep DEF CheckpointsInv
<1> QED BY <1>1, <1>2, PTL DEF CheckpointsSpec

(* Whatever the user names, and though existence is checked in one         *)
(* critical section and the entry added in another (saveCheckpoint): only  *)
(* the backup is ever registered twice, nothing three times.  And every    *)
(* variable has its type.                                                  *)
THEOREM CheckpointsConsistentAlways == CheckpointsSpec => []CheckpointsConsistent
<1>1. CheckpointsInv => CheckpointsConsistent
  <2> SUFFICES ASSUME CheckpointsInv PROVE CheckpointsConsistent
    OBVIOUS
  <2>1. CheckpointsTyped
    BY DEF CheckpointsInv, TypesMatch
  <2>2. ASSUME NEW j \in DOMAIN registry, NEW k \in DOMAIN registry,
               registry[j].name = registry[k].name
        PROVE  j = k \/ registry[j].name = Backup
    BY <2>2 DEF CheckpointsInv, RegistersSeldom, Seldom
  <2>3. ASSUME NEW i \in DOMAIN registry, NEW j \in DOMAIN registry, NEW k \in DOMAIN registry,
               i < j, j < k,
               registry[i].name = registry[j].name, registry[j].name = registry[k].name
        PROVE  FALSE
    <3>1. i = j \/ j = k \/ i = k
      BY <2>3 DEF CheckpointsInv, RegistersSeldom, Seldom, AtMostTwice
    <3>2. i \in Nat /\ j \in Nat /\ k \in Nat
      BY <2>1 DEF CheckpointsTyped
    <3> QED BY <2>3, <3>1, <3>2
  <2> QED BY <2>1, <2>2, <2>3 DEF CheckpointsConsistent, NamesTaken
<1> QED BY <1>1, CheckpointsInvariance, PTL

(* A registered checkpoint that is neither being written nor deleted has   *)
(* its files, all of one version of the network                            *)
(* (JaxInterface::saveCheckpoint).                                         *)
THEOREM WholeAlways == CheckpointsSpec => []CheckpointsAreWhole
<1>1. CheckpointsInv => CheckpointsAreWhole
  <2> SUFFICES ASSUME CheckpointsInv, program = "up", crashes = 0, NEW e \in ToSet(registry),
                      ~Pending(e.name), ~Deleting(e.name), e.name \notin doubled
               PROVE  OneVersion(e.name)
    BY DEF CheckpointsAreWhole, OneVersion, IsWhole
  <2>1. e \in Entry /\ IsRegistered(e.name, registry)
    BY DEF ToSet, IsRegistered, CheckpointsInv, TypesMatch, CheckpointsTyped
  <2>2. e.name \in Name
    BY <2>1 DEF Entry
  <2>3. Settled(e.name)
    BY <2>1 DEF Settled, Pending, AtCaller
  <2> QED BY <2>2, <2>3 DEF CheckpointsInv, WholeOrWritten, Stands, Pending
<1> QED BY <1>1, CheckpointsInvariance, PTL

(* A checkpoint once completely saved is registered with its files until   *)
(* the user deletes it, over every crash but one while the registry file   *)
(* is rewritten (CheckpointManager::saveCurrentRegistryNoLock).            *)
THEOREM SavedSurvivesAlways == CheckpointsSpec => []SavedSurvives
<1>1. CheckpointsInv => SavedSurvives
  BY DEF CheckpointsInv, SavedStays, SavedSurvives
<1> QED BY <1>1, CheckpointsInvariance, PTL
=============================================================================
