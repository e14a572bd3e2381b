-------------------------- MODULE SharedWorldProofs --------------------------
(* Theorems about SharedWorld, for any sessions, entities, buffs and       *)
(* bounds: reference counts, objects and tokens agree with what each       *)
(* session has read, nothing that a handler looks for is missing, a bot in *)
(* its place holds its own character, and once all is read the world is as *)
(* the server has it.  The process ends by a null Self only after a        *)
(* character was reset too early.                                          *)
EXTENDS SharedWorld, TLAPS, FiniteSetTheorems, SequenceTheorems

-----------------------------------------------------------------------------
(* Queues of things of some kind about an entity: packets and events.      *)

Is(x, e, kinds) == x.of = e /\ x.kind \in kinds
Has(x, e, kinds, t) == Is(x, e, kinds) /\ t \in x.buffs
(* One such comes after the first n.                                       *)
Comes(q, e, kinds, n) == \E j \in DOMAIN q : j > n /\ Is(q[j], e, kinds)
Brings(q, e, kinds, t, n) == \E j \in DOMAIN q : j > n /\ Has(q[j], e, kinds, t)
Single(q, e, kinds) ==
  \A i, j \in DOMAIN q : Is(q[i], e, kinds) /\ Is(q[j], e, kinds) => i = j

Enter == {"Spawn", "CharacterData"}
Leave == {"Despawn", "GameReset"}

(* Whether a session sees e when it has read n packets of a link at whose  *)
(* end it does if final: the next packet about that takes e out of sight.  *)
Seeing(q, final, e, n) ==
  \/ final /\ ~Comes(q, e, Enter \cup Leave, n)
  \/ \E i \in DOMAIN q :
       /\ i > n /\ Is(q[i], e, Leave)
       /\ \A j \in DOMAIN q : j > n /\ j < i => ~Is(q[j], e, Enter \cup Leave)

(* What the server has told session s last, and what it has read.          *)
Sees(s, e) == IF e = s THEN place[s] # "away" ELSE e \in sight[s]
Seen(s, e) == Seeing(link[s], Sees(s, e), e, 0)

-----------------------------------------------------------------------------
(* The inductive invariant.                                                *)

(* A session is told of what is in its sight only, of its own character by *)
(* character data and resets, of others by spawns and despawns.            *)
Proper(s, p) ==
  /\ p.kind \in {"CharacterData", "GameReset"} => p.of = s
  /\ p.kind \in {"Spawn", "Despawn"} => p.of # s
  /\ p.kind \in {"BuffAdd", "BuffRemove"} => \E t \in Tokens : p.buffs = {t}
Fitting(q, final, e) ==
  \A i \in DOMAIN q : q[i].of = e => (Seeing(q, final, e, i) <=> q[i].kind \notin Leave)
InSight ==
  \A s \in Bots :
    /\ s \notin sight[s]
    /\ \A i \in DOMAIN link[s] : Proper(s, link[s][i])
    /\ \A e \in Entities : Fitting(link[s], Sees(s, e), e)

(* Every session that sees an entity is counted.                           *)
Watchers(e) == {s \in Bots : Seen(s, e)}
Counted == \A e \in Entities : entityReferenceCountMap[e] = Cardinality(Watchers(e))

(* A buff has one holder for ever.                                         *)
Mentions(t, e) ==
  \/ holder[t] = e \/ buffTokenMap[t] = e
  \/ \E s \in Bots : \E i \in DOMAIN link[s] : link[s][i].of = e /\ t \in link[s][i].buffs
OneHolder ==
  \A t \in Tokens : \A e \in Entities :
    Mentions(t, e) => t \in spent /\ \A f \in Entities : Mentions(t, f) => e = f

(* Where a character is on its way into the world.                         *)
DataComing(b) == Comes(link[b], b, {"CharacterData"}, 0)
ResetComing(b) == Comes(link[b], b, {"GameReset"}, 0)
Queued(b, kind) == Comes(queue, b, {kind}, 0)
Away(b) ==
  /\ reply[b] # "gameReady" /\ ~DataComing(b) /\ ~Queued(b, "SelfSpawned")
  /\ reply[b] = "none" <=> ResetComing(b) \/ Queued(b, "GameReset")
  /\ ResetComing(b) => ~Queued(b, "GameReset")
Loading(b) ==
  /\ reply[b] \in {"none", "gameReady"}
  /\ ~ResetComing(b) /\ ~Queued(b, "GameReset")
  /\ reply[b] = "none" <=> DataComing(b) \/ Queued(b, "SelfSpawned")
  /\ DataComing(b) => ~Queued(b, "SelfSpawned")
Inside(b) ==
  /\ reply[b] = "none" /\ ~DataComing(b) /\ ~ResetComing(b)
  /\ ~Queued(b, "SelfSpawned") /\ ~Queued(b, "GameReset")
InStep(b) ==
  \/ place[b] = "away" /\ Away(b)
  \/ place[b] = "loading" /\ Loading(b)
  \/ place[b] = "in" /\ Inside(b)
Later(q, b) ==
  \A i, j \in DOMAIN q :
    Is(q[i], b, {"SelfSpawned"}) /\ Is(q[j], b, {"EntityDespawned"}) => j < i
Joining(b) ==
  /\ Single(link[b], b, {"CharacterData", "GameReset"})
  /\ Single(queue, b, {"SelfSpawned", "GameReset"})
  /\ Later(queue, b)
  /\ InStep(b)
  /\ place[b] = "in" \/ reply[b] = "gameReady" =>
       ~Queued(b, "EntityDespawned") /\ botSelf[b] = selfEntity[b]

(* The objects that a session makes for its own character, and who holds   *)
(* them.                                                                   *)
Owned(b) ==
  /\ entityMap[b].kind = "Self" => entityMap[b].number \in 1..made[b]
  /\ Seen(b, b) => entityMap[b].kind = "Self"
  /\ selfEntity[b] = IF Seen(b, b) THEN entityMap[b].number ELSE 0
  /\ botSelf[b] <= made[b]
  /\ made[b] + (IF DataComing(b) THEN 1 ELSE 0) + (IF place[b] = "away" THEN 1 ELSE 0)
       <= 1 + MaxWarps - left["warps"]

Events ==
  \A j \in DOMAIN queue : queue[j].kind \in {"SelfSpawned", "GameReset"} => queue[j].of \in Bots

Objects == \A e \in Entities : Tracking(e) => entityMap[e].kind # "none"

(* What the sessions have yet to read brings what is known of an entity to *)
(* what the server has, unless it changed behind a session's back.         *)
LifeTold(q, e, isDead) ==
  \A i \in DOMAIN q :
    Is(q[i], e, {"Spawn", "CharacterData", "LifeState"}) =>
      Comes(q, e, {"LifeState"}, i) \/ q[i].dead = isDead
LossTold(q, e, t) ==
  \A i \in DOMAIN q :
    Has(q[i], e, {"Spawn", "BuffAdd"}, t) => Brings(q, e, {"BuffRemove"}, t, i)
GainTold(q, e, t) ==
  /\ ~Brings(q, e, {"BuffRemove"}, t, 0)
  /\ e \in Others =>
       \A i \in DOMAIN q :
         Is(q[i], e, {"Spawn"}) => t \in q[i].buffs \/ Brings(q, e, {"BuffAdd"}, t, i)
LifeKnown(e) ==
  /\ \A s \in Bots : LifeTold(link[s], e, e \in dead)
  /\ Tracking(e) => \/ \E s \in Bots : Comes(link[s], e, {"LifeState"}, 0)
                    \/ entityMap[e].dead = (e \in dead)
LossKnown(e, t) ==
  /\ \A s \in Bots : LossTold(link[s], e, t)
  /\ t \in entityMap[e].buffs => \E s \in Bots : Brings(link[s], e, {"BuffRemove"}, t, 0)
GainKnown(e, t) ==
  /\ \A s \in Bots : GainTold(link[s], e, t)
  /\ e \in Others /\ Tracking(e) =>
       t \in entityMap[e].buffs \/ \E s \in Bots : Brings(link[s], e, {"BuffAdd"}, t, 0)
BuffKnown(e, t) == IF holder[t] = e THEN GainKnown(e, t) ELSE LossKnown(e, t)
Known(e) == LifeKnown(e) /\ \A t \in Tokens : BuffKnown(e, t)

IndInv ==
  /\ TypeOK /\ CountsAgree /\ TokensAgree /\ NoErrors
  /\ InSight /\ Counted /\ OneHolder /\ Events /\ Objects
  /\ \A b \in Bots : Joining(b) /\ Owned(b)
  /\ \A e \in Entities : e \notin missed => Known(e)

(* Of a character that was never reset too early, others are told only     *)
(* while it is in its place, so that what is tracked for it is a Self.     *)
OwnTracked(b) ==
  /\ Tracking(b) => entityMap[b].kind = "Self"
  /\ place[b] = "in" \/ \A s \in Bots : ~Comes(link[s], b, {"Spawn"}, 0)
Unlagged == \A b \in Bots : b \notin lagged => OwnTracked(b)

(* While the process runs; and it ends only with a lagging character.      *)
Ended == TypeOK /\ errors = {"nullSelf"} /\ lagged # {}
FullInv == (IndInv /\ Unlagged) \/ Ended

-----------------------------------------------------------------------------
(* Queues that are read from the front and written at the end.             *)

LEMMA TailFacts ==
  ASSUME NEW T, NEW q \in Seq(T), q # <<>>
  PROVE  /\ Tail(q) \in Seq(T) /\ Head(q) = q[1] /\ q[1] \in T
         /\ Len(q) \in Nat /\ Len(q) >= 1 /\ Len(Tail(q)) = Len(q) - 1
         /\ DOMAIN q = 1..Len(q) /\ DOMAIN Tail(q) = 1..(Len(q) - 1)
         /\ \A i \in DOMAIN Tail(q) : i + 1 \in DOMAIN q /\ Tail(q)[i] = q[i + 1]
         /\ \A j \in DOMAIN q : j > 1 => j - 1 \in DOMAIN Tail(q) /\ Tail(q)[j - 1] = q[j]
  BY HeadTailProperties

LEMMA AppendFacts ==
  ASSUME NEW T, NEW q \in Seq(T), NEW p \in T
  PROVE  /\ Append(q, p) \in Seq(T) /\ Len(q) \in Nat
         /\ DOMAIN q = 1..Len(q) /\ DOMAIN Append(q, p) = 1..(Len(q) + 1)
         /\ \A i \in DOMAIN q : i \in DOMAIN Append(q, p) /\ Append(q, p)[i] = q[i]
         /\ Append(q, p)[Len(q) + 1] = p
  BY AppendProperties

LEMMA TailComes ==
  ASSUME NEW T, NEW q \in Seq(T), q # <<>>, NEW e, NEW K, NEW n \in Nat
  PROVE  /\ Comes(Tail(q), e, K, n) <=> Comes(q, e, K, n + 1)
         /\ Comes(q, e, K, 0) <=> Is(q[1], e, K) \/ Comes(q, e, K, 1)
         /\ Comes(Tail(q), e, K, 0) => Comes(q, e, K, 0)
  <1>1. Comes(Tail(q), e, K, n) => Comes(q, e, K, n + 1)
    BY TailFacts DEF Comes
  <1>2. Comes(q, e, K, n + 1) => Comes(Tail(q), e, K, n)
    <2>. SUFFICES ASSUME NEW j \in DOMAIN q, j > n + 1, Is(q[j], e, K)
                  PROVE  j - 1 \in DOMAIN Tail(q) /\ j - 1 > n /\ Is(Tail(q)[j - 1], e, K)
      BY DEF Comes
    <2>. QED BY TailFacts
  <1>3. Comes(q, e, K, 0) <=> Is(q[1], e, K) \/ Comes(q, e, K, 1)
    BY TailFacts DEF Comes
  <1>4. Comes(Tail(q), e, K, 0) => Comes(q, e, K, 0)
    BY TailFacts DEF Comes
  <1>. QED BY <1>1, <1>2, <1>3, <1>4

LEMMA TailBrings ==
  ASSUME NEW T, NEW q \in Seq(T), q # <<>>, NEW e, NEW K, NEW t, NEW n \in Nat
  PROVE  /\ Brings(Tail(q), e, K, t, n) <=> Brings(q, e, K, t, n + 1)
         /\ Brings(q, e, K, t, 0) <=> Has(q[1], e, K, t) \/ Brings(q, e, K, t, 1)
         /\ Brings(Tail(q), e, K, t, 0) => Brings(q, e, K, t, 0)
  <1>1. Brings(Tail(q), e, K, t, n) => Brings(q, e, K, t, n + 1)
    BY TailFacts DEF Brings
  <1>2. Brings(q, e, K, t, n + 1) => Brings(Tail(q), e, K, t, n)
    <2>. SUFFICES ASSUME NEW j \in DOMAIN q, j > n + 1, Has(q[j], e, K, t)
                  PROVE  j - 1 \in DOMAIN Tail(q) /\ j - 1 > n /\ Has(Tail(q)[j - 1], e, K, t)
      BY DEF Brings
    <2>. QED BY TailFacts
  <1>3. Brings(q, e, K, t, 0) <=> Has(q[1], e, K, t) \/ Brings(q, e, K, t, 1)
    BY TailFacts DEF Brings
  <1>4. Brings(Tail(q), e, K, t, 0) => Brings(q, e, K, t, 0)
    BY TailFacts DEF Brings
  <1>. QED BY <1>1, <1>2, <1>3, <1>4

LEMMA AppendComes ==
  ASSUME NEW T, NEW q \in Seq(T), NEW p \in T, NEW e, NEW K, NEW n \in 0..Len(q)
  PROVE  Comes(Append(q, p), e, K, n) <=> Comes(q, e, K, n) \/ Is(p, e, K)
  <1>1. Comes(Append(q, p), e, K, n) => Comes(q, e, K, n) \/ Is(p, e, K)
    <2>. SUFFICES ASSUME NEW j \in DOMAIN Append(q, p), j > n, Is(Append(q, p)[j], e, K)
                  PROVE  Comes(q, e, K, n) \/ Is(p, e, K)
      BY DEF Comes
    <2>1. CASE j = Len(q) + 1  BY <2>1, AppendFacts
    <2>2. CASE j # Len(q) + 1
      <3>1. j \in DOMAIN q  BY <2>2, AppendFacts
      <3>. QED BY <3>1, AppendFacts DEF Comes
    <2>. QED BY <2>1, <2>2
  <1>2. Comes(q, e, K, n) => Comes(Append(q, p), e, K, n)
    BY AppendFacts DEF Comes
  <1>3. Is(p, e, K) => Comes(Append(q, p), e, K, n)
    <2>. SUFFICES ASSUME Is(p, e, K)
                  PROVE  /\ Len(q) + 1 \in DOMAIN Append(q, p) /\ Len(q) + 1 > n
                         /\ Is(Append(q, p)[Len(q) + 1], e, K)
      BY DEF Comes
    <2>. QED BY AppendFacts
  <1>. QED BY <1>1, <1>2, <1>3

LEMMA AppendBrings ==
  ASSUME NEW T, NEW q \in Seq(T), NEW p \in T, NEW e, NEW K, NEW t, NEW n \in 0..Len(q)
  PROVE  Brings(Append(q, p), e, K, t, n) <=> Brings(q, e, K, t, n) \/ Has(p, e, K, t)
  <1>1. Brings(Append(q, p), e, K, t, n) => Brings(q, e, K, t, n) \/ Has(p, e, K, t)
    <2>. SUFFICES ASSUME NEW j \in DOMAIN Append(q, p), j > n, Has(Append(q, p)[j], e, K, t)
                  PROVE  Brings(q, e, K, t, n) \/ Has(p, e, K, t)
      BY DEF Brings
    <2>1. CASE j = Len(q) + 1  BY <2>1, AppendFacts
    <2>2. CASE j # Len(q) + 1
      <3>1. j \in DOMAIN q  BY <2>2, AppendFacts
      <3>. QED BY <3>1, AppendFacts DEF Brings
    <2>. QED BY <2>1, <2>2
  <1>2. Brings(q, e, K, t, n) => Brings(Append(q, p), e, K, t, n)
    BY AppendFacts DEF Brings
  <1>3. Has(p, e, K, t) => Brings(Append(q, p), e, K, t, n)
    <2>. SUFFICES ASSUME Has(p, e, K, t)
                  PROVE  /\ Len(q) + 1 \in DOMAIN Append(q, p) /\ Len(q) + 1 > n
                         /\ Has(Append(q, p)[Len(q) + 1], e, K, t)
      BY DEF Brings
    <2>. QED BY AppendFacts
  <1>. QED BY <1>1, <1>2, <1>3

LEMMA SingleFacts ==
  ASSUME NEW T, NEW q \in Seq(T), NEW p \in T, NEW e, NEW K, Single(q, e, K)
  PROVE  /\ q # <<>> => Single(Tail(q), e, K)
         /\ q # <<>> /\ Is(q[1], e, K) => ~Comes(q, e, K, 1)
         /\ ~Is(p, e, K) \/ ~Comes(q, e, K, 0) => Single(Append(q, p), e, K)
  <1>1. q # <<>> => Single(Tail(q), e, K)
    <2>. SUFFICES ASSUME q # <<>>, NEW i \in DOMAIN Tail(q), NEW j \in DOMAIN Tail(q),
                         Is(Tail(q)[i], e, K), Is(Tail(q)[j], e, K)
                  PROVE  i = j
      BY DEF Single
    <2>1. i + 1 = j + 1  BY TailFacts DEF Single
    <2>. QED BY <2>1, TailFacts
  <1>2. q # <<>> /\ Is(q[1], e, K) => ~Comes(q, e, K, 1)
    BY TailFacts DEF Single, Comes
  <1>3. ASSUME ~Is(p, e, K) \/ ~Comes(q, e, K, 0)
        PROVE  Single(Append(q, p), e, K)
    <2>. SUFFICES ASSUME NEW i \in DOMAIN Append(q, p), NEW j \in DOMAIN Append(q, p),
                         Is(Append(q, p)[i], e, K), Is(Append(q, p)[j], e, K)
                  PROVE  i = j
      BY DEF Single
    <2>1. CASE i \in DOMAIN q /\ j \in DOMAIN q  BY <2>1, AppendFacts DEF Single
    <2>2. CASE i \in DOMAIN q /\ j \notin DOMAIN q
      <3>1. j = Len(q) + 1  BY <2>2, AppendFacts
      <3>. QED BY <3>1, <2>2, <1>3, AppendFacts DEF Comes
    <2>3. CASE i \notin DOMAIN q /\ j \in DOMAIN q
      <3>1. i = Len(q) + 1  BY <2>3, AppendFacts
      <3>. QED BY <3>1, <2>3, <1>3, AppendFacts DEF Comes
    <2>4. CASE i \notin DOMAIN q /\ j \notin DOMAIN q  BY <2>4, AppendFacts
    <2>. QED BY <2>1, <2>2, <2>3, <2>4
  <1>. QED BY <1>1, <1>2, <1>3

(* A turn tells whether a session saw an entity before it.                 *)
LEMMA SeeingNext ==
  ASSUME NEW T, NEW q \in Seq(T), NEW f, NEW e, NEW n \in Nat
  PROVE  /\ ~Comes(q, e, Enter \cup Leave, n) => (Seeing(q, f, e, n) <=> f)
         /\ \A i \in DOMAIN q :
              /\ i > n /\ Is(q[i], e, Enter \cup Leave)
              /\ \A j \in DOMAIN q : j > n /\ j < i => ~Is(q[j], e, Enter \cup Leave)
              => (Seeing(q, f, e, n) <=> q[i].kind \in Leave)
  <1>. DOMAIN q = 1..Len(q) /\ Len(q) \in Nat  OBVIOUS
  <1>1. ASSUME ~Comes(q, e, Enter \cup Leave, n)
        PROVE  Seeing(q, f, e, n) <=> f
    BY <1>1 DEF Seeing, Comes, Is
  <1>2. ASSUME NEW i \in DOMAIN q, i > n, Is(q[i], e, Enter \cup Leave),
               \A j \in DOMAIN q : j > n /\ j < i => ~Is(q[j], e, Enter \cup Leave)
        PROVE  Seeing(q, f, e, n) <=> q[i].kind \in Leave
    <2>1. Comes(q, e, Enter \cup Leave, n)  BY <1>2 DEF Comes
    <2>2. ASSUME q[i].kind \in Leave  PROVE  Seeing(q, f, e, n)
      BY <2>2, <1>2 DEF Seeing, Is
    <2>3. ASSUME Seeing(q, f, e, n)  PROVE  q[i].kind \in Leave
      <3>1. PICK k \in DOMAIN q :
              /\ k > n /\ Is(q[k], e, Leave)
              /\ \A j \in DOMAIN q : j > n /\ j < k => ~Is(q[j], e, Enter \cup Leave)
        BY <2>1, <2>3 DEF Seeing
      <3>2. Is(q[k], e, Enter \cup Leave)  BY <3>1 DEF Is
      <3>3. ~(k < i) /\ ~(i < k)  BY <3>1, <3>2, <1>2
      <3>4. k = i  BY <3>3
      <3>. QED BY <3>1, <3>4 DEF Is
    <2>. QED BY <2>2, <2>3
  <1>. QED BY <1>1, <1>2

LEMMA TailSeeing ==
  ASSUME NEW T, NEW q \in Seq(T), q # <<>>, NEW f, NEW e, NEW n \in Nat
  PROVE  Seeing(Tail(q), f, e, n) <=> Seeing(q, f, e, n + 1)
  <1>. DEFINE turns == Enter \cup Leave
  <1>1. ASSUME NEW i \in DOMAIN Tail(q), i > n, Is(Tail(q)[i], e, Leave),
               \A j \in DOMAIN Tail(q) : j > n /\ j < i => ~Is(Tail(q)[j], e, turns)
        PROVE  Seeing(q, f, e, n + 1)
    <2>1. i + 1 \in DOMAIN q /\ i + 1 > n + 1 /\ Is(q[i + 1], e, Leave)  BY <1>1, TailFacts
    <2>2. ASSUME NEW j \in DOMAIN q, j > n + 1, j < i + 1
          PROVE  ~Is(q[j], e, turns)
      <3>1. j - 1 \in DOMAIN Tail(q) /\ Tail(q)[j - 1] = q[j] /\ j \in Nat  BY <2>2, TailFacts
      <3>2. j - 1 > n /\ j - 1 < i  BY <2>2, <3>1, TailFacts
      <3>. QED BY <3>1, <3>2, <1>1
    <2>. QED BY <2>1, <2>2 DEF Seeing
  <1>2. ASSUME NEW i \in DOMAIN q, i > n + 1, Is(q[i], e, Leave),
               \A j \in DOMAIN q : j > n + 1 /\ j < i => ~Is(q[j], e, turns)
        PROVE  Seeing(Tail(q), f, e, n)
    <2>1. /\ i - 1 \in DOMAIN Tail(q) /\ i - 1 > n /\ Is(Tail(q)[i - 1], e, Leave)
          /\ i \in Nat
      BY <1>2, TailFacts
    <2>2. ASSUME NEW j \in DOMAIN Tail(q), j > n, j < i - 1
          PROVE  ~Is(Tail(q)[j], e, turns)
      <3>1. j + 1 \in DOMAIN q /\ Tail(q)[j] = q[j + 1] /\ j \in Nat  BY TailFacts
      <3>2. j + 1 > n + 1 /\ j + 1 < i  BY <2>1, <2>2, <3>1
      <3>. QED BY <3>1, <3>2, <1>2
    <2>. QED BY <2>1, <2>2 DEF Seeing
  <1>3. Comes(Tail(q), e, turns, n) <=> Comes(q, e, turns, n + 1)  BY TailComes
  <1>4. Seeing(Tail(q), f, e, n) => Seeing(q, f, e, n + 1)
    BY <1>1, <1>3, Zenon DEF Seeing
  <1>5. Seeing(q, f, e, n + 1) => Seeing(Tail(q), f, e, n)
    BY <1>2, <1>3, Zenon DEF Seeing
  <1>. QED BY <1>4, <1>5

LEMMA HeadSeeing ==
  ASSUME NEW T, NEW q \in Seq(T), q # <<>>, NEW f, NEW e
  PROVE  /\ Is(q[1], e, Enter \cup Leave) => (Seeing(q, f, e, 0) <=> q[1].kind \in Leave)
         /\ ~Is(q[1], e, Enter \cup Leave) => (Seeing(q, f, e, 0) <=> Seeing(q, f, e, 1))
  <1>. DEFINE turns == Enter \cup Leave
  <1>1. ASSUME Is(q[1], e, turns)
        PROVE  Seeing(q, f, e, 0) <=> q[1].kind \in Leave
    <2>1. 1 \in DOMAIN q /\ 1 > 0 /\ \A j \in DOMAIN q : ~(j > 0 /\ j < 1)  BY TailFacts
    <2>. QED BY <1>1, <2>1, SeeingNext
  <1>2. ASSUME ~Is(q[1], e, turns)
        PROVE  Seeing(q, f, e, 0) <=> Seeing(q, f, e, 1)
    <2>1. Comes(q, e, turns, 0) <=> Comes(q, e, turns, 1)  BY <1>2, TailComes
    <2>2. ~Is(q[1], e, Leave)  BY <1>2 DEF Is
    <2>3. \A i \in DOMAIN q : i \in Nat /\ (i > 0 <=> i = 1 \/ i > 1)  BY TailFacts
    <2>4. ASSUME NEW i \in DOMAIN q, i > 0, Is(q[i], e, Leave),
                 \A j \in DOMAIN q : j > 0 /\ j < i => ~Is(q[j], e, turns)
          PROVE  Seeing(q, f, e, 1)
      BY <2>2, <2>3, <2>4 DEF Seeing
    <2>5. ASSUME NEW i \in DOMAIN q, i > 1, Is(q[i], e, Leave),
                 \A j \in DOMAIN q : j > 1 /\ j < i => ~Is(q[j], e, turns)
          PROVE  Seeing(q, f, e, 0)
      BY <1>2, <2>3, <2>5 DEF Seeing
    <2>6. Seeing(q, f, e, 0) => Seeing(q, f, e, 1)  BY <2>1, <2>4, Zenon DEF Seeing
    <2>7. Seeing(q, f, e, 1) => Seeing(q, f, e, 0)  BY <2>1, <2>5, Zenon DEF Seeing
    <2>. QED BY <2>6, <2>7
  <1>. QED BY <1>1, <1>2

LEMMA EndOfQueue ==
  ASSUME NEW T, NEW q \in Seq(T), NEW e
  PROVE  /\ \A i \in DOMAIN q : ~(i > Len(q))
         /\ ~Comes(q, e, Enter \cup Leave, Len(q))
  <1>1. \A i \in DOMAIN q : ~(i > Len(q))  OBVIOUS
  <1>2. ~Comes(q, e, Enter \cup Leave, Len(q))  BY <1>1 DEF Comes
  <1>. QED BY <1>1, <1>2

LEMMA AppendSeeing ==
  ASSUME NEW T, NEW q \in Seq(T), NEW p \in T, NEW f, NEW g, NEW e,
         Is(p, e, Enter \cup Leave) => (f <=> p.kind \in Leave),
         ~Is(p, e, Enter \cup Leave) => (f <=> g)
  PROVE  \A n \in 0..Len(q) : Seeing(Append(q, p), g, e, n) <=> Seeing(q, f, e, n)
  <1>. DEFINE turns == Enter \cup Leave
              r == Append(q, p)
  <1>a. /\ r \in Seq(T) /\ Len(q) \in Nat /\ DOMAIN q = 1..Len(q) /\ DOMAIN r = 1..(Len(q) + 1)
        /\ \A i \in DOMAIN q : i \in DOMAIN r /\ r[i] = q[i]
        /\ r[Len(q) + 1] = p
    BY AppendFacts
  <1>b. /\ \A j \in DOMAIN r : j = Len(q) + 1 \/ j \in DOMAIN q
        /\ \A j \in DOMAIN q : j \in Nat /\ j < Len(q) + 1 /\ j \in DOMAIN r /\ r[j] = q[j]
        /\ Len(q) \in Nat /\ Len(q) + 1 \in Nat /\ Len(q) + 1 \in DOMAIN r /\ r[Len(q) + 1] = p
    BY <1>a
  <1>c. \A n \in 0..Len(q) : Comes(r, e, turns, n) <=> Comes(q, e, turns, n) \/ Is(p, e, turns)
    BY AppendComes
  <1>. HIDE DEF r
  <1>1. ASSUME NEW n \in 0..Len(q)
        PROVE  Seeing(r, g, e, n) <=> Seeing(q, f, e, n)
    <2>1. Comes(r, e, turns, n) <=> Comes(q, e, turns, n) \/ Is(p, e, turns)  BY <1>c
    <2>2. ASSUME Seeing(q, f, e, n)  PROVE  Seeing(r, g, e, n)
      <3>1. CASE f /\ ~Comes(q, e, turns, n)
        <4>1. CASE Is(p, e, turns)
          <5>1. Is(p, e, Leave)  BY <3>1, <4>1 DEF Is
          <5>2. ASSUME NEW j \in DOMAIN r, j > n, j < Len(q) + 1
                PROVE  ~Is(r[j], e, turns)
            <6>1. j # Len(q) + 1  BY <5>2, <1>b
            <6>2. j \in DOMAIN q /\ r[j] = q[j]  BY <6>1, <1>b
            <6>. QED BY <6>2, <5>2, <3>1 DEF Comes
          <5>3. Len(q) + 1 \in DOMAIN r /\ Len(q) + 1 > n /\ Is(r[Len(q) + 1], e, Leave)
            BY <5>1, <1>a
          <5>. QED BY <5>2, <5>3 DEF Seeing
        <4>2. CASE ~Is(p, e, turns)  BY <3>1, <4>2, <2>1 DEF Seeing
        <4>. QED BY <4>1, <4>2
      <3>2. ASSUME NEW i \in DOMAIN q, i > n, Is(q[i], e, Leave),
                   \A j \in DOMAIN q : j > n /\ j < i => ~Is(q[j], e, turns)
            PROVE  Seeing(r, g, e, n)
        <4>1. ASSUME NEW j \in DOMAIN r, j > n, j < i
              PROVE  ~Is(r[j], e, turns)
          <5>1. j # Len(q) + 1  BY <4>1, <3>2, <1>b
          <5>2. j \in DOMAIN q /\ r[j] = q[j]  BY <5>1, <1>b
          <5>. QED BY <5>2, <4>1, <3>2
        <4>. QED BY <4>1, <3>2, <1>a DEF Seeing
      <3>. QED BY <2>2, <3>1, <3>2, Zenon DEF Seeing
    <2>3. ASSUME Seeing(r, g, e, n)  PROVE  Seeing(q, f, e, n)
      <3>1. CASE g /\ ~Comes(r, e, turns, n)  BY <3>1, <2>1 DEF Seeing
      <3>2. ASSUME NEW i \in DOMAIN r, i > n, Is(r[i], e, Leave),
                   \A j \in DOMAIN r : j > n /\ j < i => ~Is(r[j], e, turns)
            PROVE  Seeing(q, f, e, n)
        <4>1. CASE i \in DOMAIN q
          <5>1. \A j \in DOMAIN q : j > n /\ j < i => ~Is(q[j], e, turns)  BY <3>2, <1>a
          <5>2. Is(q[i], e, Leave)  BY <3>2, <4>1, <1>a
          <5>. QED BY <5>1, <5>2, <4>1, <3>2 DEF Seeing
        <4>2. CASE i \notin DOMAIN q
          <5>1. i = Len(q) + 1 /\ Is(p, e, Leave)  BY <3>2, <4>2, <1>a
          <5>2. f  BY <5>1 DEF Is
          <5>3. ~Comes(q, e, turns, n)  BY <5>1, <3>2, <1>b DEF Comes
          <5>. QED BY <5>2, <5>3 DEF Seeing
        <4>. QED BY <4>1, <4>2
      <3>. QED BY <2>3, <3>1, <3>2, Zenon DEF Seeing
    <2>. QED BY <2>2, <2>3
  <1>. QED BY <1>1 DEF r

LEMMA TailFitting ==
  ASSUME NEW T, NEW q \in Seq(T), q # <<>>, NEW f, NEW e, Fitting(q, f, e)
  PROVE  Fitting(Tail(q), f, e)
  <1>. SUFFICES ASSUME NEW i \in DOMAIN Tail(q), Tail(q)[i].of = e
                PROVE  Seeing(Tail(q), f, e, i) <=> Tail(q)[i].kind \notin Leave
    BY DEF Fitting
  <1>1. i \in Nat /\ i + 1 \in DOMAIN q /\ Tail(q)[i] = q[i + 1]  BY TailFacts
  <1>2. Seeing(q, f, e, i + 1) <=> q[i + 1].kind \notin Leave  BY <1>1 DEF Fitting
  <1>3. Seeing(Tail(q), f, e, i) <=> Seeing(q, f, e, i + 1)  BY <1>1, TailSeeing
  <1>. QED BY <1>1, <1>2, <1>3

LEMMA AppendFitting ==
  ASSUME NEW T, NEW q \in Seq(T), NEW p \in T, NEW f, NEW g, NEW e,
         Fitting(q, f, e),
         p.of = e => (f <=> p.kind \notin Enter) /\ (g <=> p.kind \notin Leave),
         p.of # e => (f <=> g)
  PROVE  /\ Fitting(Append(q, p), g, e)
         /\ Seeing(Append(q, p), g, e, 0) <=> Seeing(q, f, e, 0)
  <1>1. /\ Is(p, e, Enter \cup Leave) => (f <=> p.kind \in Leave)
        /\ ~Is(p, e, Enter \cup Leave) => (f <=> g)
    BY DEF Is, Enter, Leave
  <1>2. \A n \in 0..Len(q) : Seeing(Append(q, p), g, e, n) <=> Seeing(q, f, e, n)
    BY <1>1, AppendSeeing, Zenon
  <1>5. Seeing(Append(q, p), g, e, Len(q) + 1) <=> g
    <2>1. Append(q, p) \in Seq(T) /\ Len(Append(q, p)) = Len(q) + 1  BY AppendProperties
    <2>2. Seeing(Append(q, p), g, e, Len(Append(q, p))) <=> g
      BY <2>1, EndOfQueue, Zenon DEF Seeing
    <2>. QED BY <2>1, <2>2, Zenon
  <1>3. ASSUME NEW i \in DOMAIN Append(q, p), Append(q, p)[i].of = e
        PROVE  Seeing(Append(q, p), g, e, i) <=> Append(q, p)[i].kind \notin Leave
    <2>1. CASE i = Len(q) + 1  BY <2>1, <1>5, <1>3, AppendFacts
    <2>2. CASE i # Len(q) + 1
      <3>1. i \in DOMAIN q /\ i \in 0..Len(q) /\ Append(q, p)[i] = q[i]  BY <2>2, AppendFacts
      <3>2. Seeing(Append(q, p), g, e, i) <=> Seeing(q, f, e, i)  BY <3>1, <1>2
      <3>3. Seeing(q, f, e, i) <=> q[i].kind \notin Leave  BY <3>1, <1>3 DEF Fitting
      <3>. QED BY <3>1, <3>2, <3>3
    <2>. QED BY <2>1, <2>2
  <1>4. 0 \in 0..Len(q)  BY LenProperties
  <1>. QED BY <1>2, <1>3, <1>4 DEF Fitting

LEMMA SameSeeing ==
  ASSUME NEW q, NEW f, NEW g, NEW e, f <=> g
  PROVE  /\ \A n : Seeing(q, f, e, n) <=> Seeing(q, g, e, n)
         /\ Fitting(q, f, e) <=> Fitting(q, g, e)
  BY Zenon DEF Seeing, Fitting

-----------------------------------------------------------------------------
(* What a step does to the links.                                          *)

(* The server tells some sessions p.                                       *)
Allowed(S, p) ==
  \A s \in Bots : \A e \in Entities :
    IF s \in S /\ e = p.of
      THEN (Sees(s, e) <=> p.kind \notin Enter) /\ (Sees(s, e)' <=> p.kind \notin Leave)
      ELSE Sees(s, e)' <=> Sees(s, e)
SeenStays == \A s \in Bots : \A e \in Entities : Seen(s, e)' <=> Seen(s, e)

LEMMA ToldLinks ==
  ASSUME TypeOK, NEW S \in SUBSET Bots, NEW p \in PacketType, link' = Told(S, p)
  PROVE  /\ link' \in [Bots -> Seq(PacketType)]
         /\ \A s \in Bots : /\ link[s] \in Seq(PacketType)
                            /\ link'[s] = IF s \in S THEN Append(link[s], p) ELSE link[s]
  BY AppendProperties DEF TypeOK, Told

LEMMA ToldSight ==
  ASSUME TypeOK, InSight, NEW S \in SUBSET Bots, NEW p \in PacketType, link' = Told(S, p),
         \A s \in S : Proper(s, p), Allowed(S, p), \A s \in Bots : s \notin sight'[s]
  PROVE  InSight' /\ SeenStays
  <1>1. ASSUME NEW s \in Bots, NEW e \in Entities
        PROVE  Fitting(link'[s], Sees(s, e)', e) /\ (Seen(s, e)' <=> Seen(s, e))
    <2>1. Fitting(link[s], Sees(s, e), e)  BY DEF InSight
    <2>2. CASE s \in S
      <3>1. link[s] \in Seq(PacketType) /\ link'[s] = Append(link[s], p)  BY <2>2, ToldLinks
      <3>2. /\ p.of = e => (Sees(s, e) <=> p.kind \notin Enter) /\ (Sees(s, e)' <=> p.kind \notin Leave)
            /\ p.of # e => (Sees(s, e) <=> Sees(s, e)')
        BY <2>2, Zenon DEF Allowed
      <3>3. /\ Fitting(Append(link[s], p), Sees(s, e)', e)
            /\ Seeing(Append(link[s], p), Sees(s, e)', e, 0) <=> Seeing(link[s], Sees(s, e), e, 0)
        BY <2>1, <3>1, <3>2, AppendFitting, Zenon
      <3>. QED BY <3>1, <3>3, Zenon DEF Seen
    <2>3. CASE s \notin S
      <3>1. link'[s] = link[s]  BY <2>3, ToldLinks
      <3>2. Sees(s, e)' <=> Sees(s, e)  BY <2>3, Zenon DEF Allowed
      <3>. QED BY <3>1, <3>2, <2>1, SameSeeing, Zenon DEF Seen
    <2>. QED BY <2>2, <2>3
  <1>2. ASSUME NEW s \in Bots, NEW i \in DOMAIN link'[s]
        PROVE  Proper(s, link'[s][i])
    <2>1. CASE s \in S
      <3>1. link[s] \in Seq(PacketType) /\ link'[s] = Append(link[s], p)  BY <2>1, ToldLinks
      <3>2. CASE i = Len(link[s]) + 1  BY <2>1, <3>1, <3>2, AppendFacts
      <3>3. CASE i # Len(link[s]) + 1
        <4>1. i \in DOMAIN link[s] /\ link'[s][i] = link[s][i]  BY <3>1, <3>3, AppendFacts
        <4>. QED BY <4>1 DEF InSight
      <3>. QED BY <3>2, <3>3
    <2>2. CASE s \notin S
      <3>1. link'[s] = link[s]  BY <2>2, ToldLinks
      <3>. QED BY <3>1 DEF InSight
    <2>. QED BY <2>1, <2>2
  <1>. QED BY <1>1, <1>2, Zenon DEF InSight, SeenStays

(* Session s reads p.                                                      *)
Reads(s, p) ==
  /\ link[s] # <<>> /\ p = link[s][1]
  /\ link' = [link EXCEPT ![s] = Tail(@)]
  /\ UNCHANGED <<reply, server, missed, lagged>>

LEMMA ReadLinks ==
  ASSUME TypeOK, NEW s \in Bots, NEW p, Reads(s, p)
  PROVE  /\ link' \in [Bots -> Seq(PacketType)] /\ p \in PacketType
         /\ link[s] \in Seq(PacketType) /\ link[s] # <<>> /\ p = link[s][1] /\ 1 \in DOMAIN link[s]
         /\ \A x \in Bots : link'[x] = IF x = s THEN Tail(link[s]) ELSE link[x]
  <1>1. link \in [Bots -> Seq(PacketType)] /\ link[s] \in Seq(PacketType)  BY DEF TypeOK
  <1>2. /\ link[s] # <<>> /\ p = link[s][1] /\ link' = [link EXCEPT ![s] = Tail(link[s])]
    BY DEF Reads
  <1>3. Tail(link[s]) \in Seq(PacketType) /\ link[s][1] \in PacketType /\ 1 \in DOMAIN link[s]
    BY <1>1, <1>2, TailFacts
  <1>. QED BY <1>1, <1>2, <1>3

SeenMoves(s, p) ==
  \A x \in Bots : \A e \in Entities :
    Seen(x, e)' <=> IF x = s /\ Is(p, e, Enter \cup Leave) THEN p.kind \in Enter ELSE Seen(x, e)

LEMMA ReadSight ==
  ASSUME TypeOK, InSight, NEW s \in Bots, NEW p, Reads(s, p)
  PROVE  /\ InSight' /\ SeenMoves(s, p) /\ Proper(s, p)
         /\ Seen(s, p.of) <=> p.kind \notin Enter
  <1>. DEFINE turns == Enter \cup Leave
  <1>1. /\ p \in PacketType /\ link[s] \in Seq(PacketType) /\ link[s] # <<>> /\ p = link[s][1]
        /\ 1 \in DOMAIN link[s] /\ link'[s] = Tail(link[s])
        /\ \A x \in Bots : x # s => link'[x] = link[x]
    BY ReadLinks
  <1>2. p.of \in Entities  BY <1>1 DEF PacketType
  <1>3. ASSUME NEW x \in Bots, NEW e \in Entities
        PROVE  Sees(x, e)' <=> Sees(x, e)
    BY DEF Sees, Reads, server
  <1>4. ASSUME NEW e \in Entities
        PROVE  /\ Fitting(link[s], Sees(s, e), e)
               /\ Seen(s, e)' <=> Seeing(link[s], Sees(s, e), e, 1)
               /\ Fitting(link'[s], Sees(s, e)', e)
    <2>1. Fitting(link[s], Sees(s, e), e)  BY DEF InSight
    <2>2. Fitting(Tail(link[s]), Sees(s, e), e)  BY <1>1, <2>1, TailFitting, Zenon
    <2>3. 0 \in Nat /\ 0 + 1 = 1  OBVIOUS
    <2>4. Seeing(Tail(link[s]), Sees(s, e), e, 0) <=> Seeing(link[s], Sees(s, e), e, 0 + 1)
      BY <1>1, <2>3, TailSeeing, Zenon
    <2>5. /\ Fitting(Tail(link[s]), Sees(s, e), e) <=> Fitting(Tail(link[s]), Sees(s, e)', e)
          /\ \A n : Seeing(Tail(link[s]), Sees(s, e), e, n) <=> Seeing(Tail(link[s]), Sees(s, e)', e, n)
      BY <1>3, SameSeeing, Zenon
    <2>6. Seen(s, e)' <=> Seeing(Tail(link[s]), Sees(s, e)', e, 0)  BY <1>1, Zenon DEF Seen
    <2>. QED BY <1>1, <2>1, <2>2, <2>3, <2>4, <2>5, <2>6, Zenon
  <1>5. ASSUME NEW x \in Bots, NEW e \in Entities, x # s
        PROVE  (Seen(x, e)' <=> Seen(x, e)) /\ Fitting(link'[x], Sees(x, e)', e)
    <2>1. link'[x] = link[x]  BY <1>1, <1>5
    <2>2. Fitting(link[x], Sees(x, e), e)  BY DEF InSight
    <2>. QED BY <2>1, <2>2, <1>3, SameSeeing, Zenon DEF Seen
  <1>6. ASSUME NEW e \in Entities
        PROVE  Seen(s, e)' <=> IF Is(p, e, turns) THEN p.kind \in Enter ELSE Seen(s, e)
    <2>1. CASE Is(p, e, turns)
      <3>1. Seeing(link[s], Sees(s, e), e, 1) <=> p.kind \notin Leave
        BY <1>1, <1>4, <2>1 DEF Fitting, Is
      <3>2. p.kind \notin Leave <=> p.kind \in Enter  BY <2>1 DEF Is, Enter, Leave
      <3>. QED BY <1>4, <2>1, <3>1, <3>2, Zenon
    <2>2. CASE ~Is(p, e, turns)
      <3>1. Seeing(link[s], Sees(s, e), e, 0) <=> Seeing(link[s], Sees(s, e), e, 1)
        BY <1>1, <2>2, HeadSeeing, Zenon
      <3>. QED BY <1>4, <2>2, <3>1, Zenon DEF Seen
    <2>. QED BY <2>1, <2>2
  <1>7. Seen(s, p.of) <=> p.kind \notin Enter
    <2>1. CASE p.kind \in turns
      <3>1. Is(p, p.of, turns)  BY <2>1 DEF Is
      <3>2. Seeing(link[s], Sees(s, p.of), p.of, 0) <=> p.kind \in Leave
        BY <1>1, <3>1, HeadSeeing, Zenon
      <3>3. p.kind \in Leave <=> p.kind \notin Enter  BY <2>1 DEF Enter, Leave
      <3>. QED BY <3>2, <3>3, Zenon DEF Seen
    <2>2. CASE p.kind \notin turns
      <3>1. ~Is(p, p.of, turns)  BY <2>2 DEF Is
      <3>2. Seeing(link[s], Sees(s, p.of), p.of, 0) <=> Seeing(link[s], Sees(s, p.of), p.of, 1)
        BY <1>1, <3>1, HeadSeeing, Zenon
      <3>3. Seeing(link[s], Sees(s, p.of), p.of, 1) <=> p.kind \notin Leave
        BY <1>1, <1>2, <1>4 DEF Fitting
      <3>4. p.kind \notin Leave /\ p.kind \notin Enter  BY <2>2
      <3>. QED BY <3>2, <3>3, <3>4, Zenon DEF Seen
    <2>. QED BY <2>1, <2>2
  <1>8. SeenMoves(s, p)  BY <1>5, <1>6, Zenon DEF SeenMoves
  <1>9. Proper(s, p)  BY <1>1 DEF InSight
  <1>10. ASSUME NEW x \in Bots, NEW i \in DOMAIN link'[x]
         PROVE  Proper(x, link'[x][i])
    <2>1. CASE x = s
      <3>1. link'[x] = Tail(link[s]) /\ i \in DOMAIN Tail(link[s])  BY <1>1, <1>10, <2>1
      <3>2. i + 1 \in DOMAIN link[s] /\ link'[x][i] = link[s][i + 1]  BY <1>1, <3>1, TailFacts
      <3>. QED BY <2>1, <3>2 DEF InSight
    <2>2. CASE x # s
      <3>1. link'[x] = link[x]  BY <1>1, <2>2
      <3>. QED BY <3>1 DEF InSight
    <2>. QED BY <2>1, <2>2
  <1>11. \A x \in Bots : x \notin sight'[x]  BY DEF InSight, Reads, server
  <1>12. InSight'  BY <1>4, <1>5, <1>10, <1>11, Zenon DEF InSight
  <1>. QED BY <1>7, <1>8, <1>9, <1>12

-----------------------------------------------------------------------------
(* Reference counts.                                                       *)

LEMMA WatchersAreFinite ==
  ASSUME NEW e
  PROVE  /\ IsFiniteSet(Watchers(e)) /\ Cardinality(Watchers(e)) \in Nat
         /\ Cardinality(Watchers(e)) = 0 <=> \A s \in Bots : ~Seen(s, e)
  <1>1. IsFiniteSet(Watchers(e))  BY SharedWorldAssumption, FS_Subset DEF Watchers
  <1>2. Cardinality(Watchers(e)) = 0 <=> Watchers(e) = {}  BY <1>1, FS_EmptySet
  <1>. QED BY <1>1, <1>2, FS_CardinalityType DEF Watchers

(* What is tracked is in somebody's sight.                                 *)
LEMMA TrackedIsSeen ==
  ASSUME CountsAgree, Counted, NEW e \in Entities
  PROVE  /\ entityReferenceCountMap[e] \in Nat
         /\ Tracking(e) <=> entityReferenceCountMap[e] # 0
         /\ Tracking(e) <=> \E s \in Bots : Seen(s, e)
  <1>1. entityReferenceCountMap[e] = Cardinality(Watchers(e))  BY DEF Counted
  <1>2. Tracking(e) <=> entityReferenceCountMap[e] > 0  BY DEF CountsAgree
  <1>. QED BY <1>1, <1>2, WatchersAreFinite

(* What two sessions see counts twice.                                     *)
LEMMA TwoWatchers ==
  ASSUME Counted, NEW e \in Entities, NEW s \in Bots, NEW x \in Bots, s # x,
         Seen(s, e), Seen(x, e)
  PROVE  entityReferenceCountMap[e] >= 2
  <1>1. Cardinality(Watchers(e) \ {s}) = Cardinality(Watchers(e)) - 1
    BY WatchersAreFinite, FS_RemoveElement DEF Watchers
  <1>2. IsFiniteSet(Watchers(e) \ {s}) /\ Watchers(e) \ {s} # {}
    BY WatchersAreFinite, FS_RemoveElement DEF Watchers
  <1>3. Cardinality(Watchers(e) \ {s}) # 0 /\ Cardinality(Watchers(e) \ {s}) \in Nat
    BY <1>2, FS_EmptySet, FS_CardinalityType
  <1>. QED BY <1>1, <1>3, WatchersAreFinite DEF Counted

LEMMA ReadCounts ==
  ASSUME Counted, NEW s \in Bots, NEW p, SeenMoves(s, p), NEW e \in Entities,
         Seen(s, p.of) <=> p.kind \notin Enter
  PROVE  Cardinality(Watchers(e))' = entityReferenceCountMap[e]
            + (IF Is(p, e, Enter) THEN 1 ELSE IF Is(p, e, Leave) THEN -1 ELSE 0)
  <1>0. /\ entityReferenceCountMap[e] = Cardinality(Watchers(e)) /\ IsFiniteSet(Watchers(e))
        /\ Cardinality(Watchers(e)) \in Nat
    BY WatchersAreFinite DEF Counted
  <1>1. CASE Is(p, e, Enter)
    <2>1. Watchers(e)' = Watchers(e) \cup {s}
      BY <1>1 DEF Watchers, SeenMoves, Is, Enter
    <2>2. s \notin Watchers(e)  BY <1>1 DEF Watchers, Is
    <2>. QED BY <1>0, <1>1, <2>1, <2>2, FS_AddElement
  <1>2. CASE Is(p, e, Leave)
    <2>1. Watchers(e)' = Watchers(e) \ {s}
      BY <1>2 DEF Watchers, SeenMoves, Is, Enter, Leave
    <2>2. s \in Watchers(e) /\ ~Is(p, e, Enter)  BY <1>2 DEF Watchers, Is, Enter, Leave
    <2>. QED BY <1>0, <1>2, <2>1, <2>2, FS_RemoveElement
  <1>3. CASE ~Is(p, e, Enter \cup Leave)
    <2>1. Watchers(e)' = Watchers(e)  BY <1>3 DEF Watchers, SeenMoves
    <2>2. ~Is(p, e, Enter) /\ ~Is(p, e, Leave)  BY <1>3 DEF Is
    <2>. QED BY <1>0, <2>1, <2>2
  <1>. QED BY <1>1, <1>2, <1>3 DEF Is

LEMMA SeenStaysCounted ==
  ASSUME Counted, SeenStays, UNCHANGED entityReferenceCountMap
  PROVE  Counted'
  <1>1. ASSUME NEW e \in Entities  PROVE  Watchers(e)' = Watchers(e)
    BY DEF Watchers, SeenStays
  <1>. QED BY <1>1 DEF Counted

-----------------------------------------------------------------------------
(* What is on its way about an entity.                                     *)

LifeKinds == {"Spawn", "CharacterData", "LifeState"}
GainKinds == {"Spawn", "BuffAdd"}
About(q, e) == \E i \in DOMAIN q : q[i].of = e

LEMMA NothingTold ==
  ASSUME NEW q, NEW e, ~About(q, e), NEW d, NEW t
  PROVE  LifeTold(q, e, d) /\ LossTold(q, e, t) /\ GainTold(q, e, t)
  BY DEF About, LifeTold, LossTold, GainTold, Is, Has, Brings

LEMMA TailLifeTold ==
  ASSUME NEW T, NEW q \in Seq(T), q # <<>>, NEW e, NEW d, LifeTold(q, e, d)
  PROVE  /\ LifeTold(Tail(q), e, d)
         /\ Is(q[1], e, LifeKinds) => Comes(Tail(q), e, {"LifeState"}, 0) \/ q[1].dead = d
  <1>1. ASSUME NEW i \in DOMAIN Tail(q), Is(Tail(q)[i], e, LifeKinds)
        PROVE  Comes(Tail(q), e, {"LifeState"}, i) \/ Tail(q)[i].dead = d
    <2>1. i \in Nat /\ i + 1 \in DOMAIN q /\ Tail(q)[i] = q[i + 1]  BY TailFacts
    <2>2. Comes(q, e, {"LifeState"}, i + 1) \/ q[i + 1].dead = d
      BY <1>1, <2>1 DEF LifeTold, LifeKinds
    <2>. QED BY <2>1, <2>2, TailComes
  <1>2. ASSUME Is(q[1], e, LifeKinds)
        PROVE  Comes(Tail(q), e, {"LifeState"}, 0) \/ q[1].dead = d
    <2>1. Comes(q, e, {"LifeState"}, 1) \/ q[1].dead = d
      BY <1>2, TailFacts DEF LifeTold, LifeKinds
    <2>2. 0 \in Nat /\ 0 + 1 = 1  OBVIOUS
    <2>3. Comes(Tail(q), e, {"LifeState"}, 0) <=> Comes(q, e, {"LifeState"}, 0 + 1)
      BY <2>2, TailComes, Zenon
    <2>. QED BY <2>1, <2>2, <2>3
  <1>. QED BY <1>1, <1>2 DEF LifeTold, LifeKinds

LEMMA TailLossTold ==
  ASSUME NEW T, NEW q \in Seq(T), q # <<>>, NEW e, NEW t, LossTold(q, e, t)
  PROVE  /\ LossTold(Tail(q), e, t)
         /\ Has(q[1], e, GainKinds, t) => Brings(Tail(q), e, {"BuffRemove"}, t, 0)
  <1>1. ASSUME NEW i \in DOMAIN Tail(q), Has(Tail(q)[i], e, GainKinds, t)
        PROVE  Brings(Tail(q), e, {"BuffRemove"}, t, i)
    <2>1. i \in Nat /\ i + 1 \in DOMAIN q /\ Tail(q)[i] = q[i + 1]  BY TailFacts
    <2>2. Brings(q, e, {"BuffRemove"}, t, i + 1)  BY <1>1, <2>1 DEF LossTold, GainKinds
    <2>. QED BY <2>1, <2>2, TailBrings
  <1>2. ASSUME Has(q[1], e, GainKinds, t)
        PROVE  Brings(Tail(q), e, {"BuffRemove"}, t, 0)
    <2>1. Brings(q, e, {"BuffRemove"}, t, 1)  BY <1>2, TailFacts DEF LossTold, GainKinds
    <2>2. 0 \in Nat /\ 0 + 1 = 1  OBVIOUS
    <2>3. Brings(Tail(q), e, {"BuffRemove"}, t, 0) <=> Brings(q, e, {"BuffRemove"}, t, 0 + 1)
      BY <2>2, TailBrings, Zenon
    <2>. QED BY <2>1, <2>2, <2>3
  <1>. QED BY <1>1, <1>2 DEF LossTold, GainKinds

LEMMA TailGainTold ==
  ASSUME NEW T, NEW q \in Seq(T), q # <<>>, NEW e, NEW t, GainTold(q, e, t)
  PROVE  /\ GainTold(Tail(q), e, t)
         /\ ~Has(q[1], e, {"BuffRemove"}, t)
         /\ e \in Others /\ Is(q[1], e, {"Spawn"}) =>
              t \in q[1].buffs \/ Brings(Tail(q), e, {"BuffAdd"}, t, 0)
  <1>1. ASSUME e \in Others, NEW i \in DOMAIN Tail(q), Is(Tail(q)[i], e, {"Spawn"})
        PROVE  t \in Tail(q)[i].buffs \/ Brings(Tail(q), e, {"BuffAdd"}, t, i)
    <2>1. i \in Nat /\ i + 1 \in DOMAIN q /\ Tail(q)[i] = q[i + 1]  BY TailFacts
    <2>2. t \in q[i + 1].buffs \/ Brings(q, e, {"BuffAdd"}, t, i + 1)
      BY <1>1, <2>1 DEF GainTold
    <2>. QED BY <2>1, <2>2, TailBrings
  <1>2. ASSUME e \in Others, Is(q[1], e, {"Spawn"})
        PROVE  t \in q[1].buffs \/ Brings(Tail(q), e, {"BuffAdd"}, t, 0)
    <2>1. t \in q[1].buffs \/ Brings(q, e, {"BuffAdd"}, t, 1)
      BY <1>2, TailFacts DEF GainTold
    <2>2. 0 \in Nat /\ 0 + 1 = 1  OBVIOUS
    <2>3. Brings(Tail(q), e, {"BuffAdd"}, t, 0) <=> Brings(q, e, {"BuffAdd"}, t, 0 + 1)
      BY <2>2, TailBrings, Zenon
    <2>. QED BY <2>1, <2>2, <2>3
  <1>3. ~Brings(q, e, {"BuffRemove"}, t, 0)  BY DEF GainTold
  <1>4. ~Brings(Tail(q), e, {"BuffRemove"}, t, 0) /\ ~Has(q[1], e, {"BuffRemove"}, t)
    BY <1>3, TailBrings, Zenon
  <1>5. ~Has(q[1], e, {"BuffRemove"}, t)  BY <1>4
  <1>6. GainTold(Tail(q), e, t)  BY <1>1, <1>4 DEF GainTold
  <1>. QED BY <1>2, <1>5, <1>6

LEMMA AppendLifeTold ==
  ASSUME NEW T, NEW q \in Seq(T), NEW p \in T, NEW e, NEW d,
         LifeTold(q, e, d) \/ Is(p, e, {"LifeState"}),
         Is(p, e, LifeKinds) => p.dead = d
  PROVE  LifeTold(Append(q, p), e, d)
  <1>. SUFFICES ASSUME NEW i \in DOMAIN Append(q, p), Is(Append(q, p)[i], e, LifeKinds)
                PROVE  Comes(Append(q, p), e, {"LifeState"}, i) \/ Append(q, p)[i].dead = d
    BY DEF LifeTold, LifeKinds
  <1>1. CASE i \in DOMAIN q
    <2>1. i \in 0..Len(q) /\ Append(q, p)[i] = q[i]  BY <1>1, AppendFacts
    <2>2. Comes(q, e, {"LifeState"}, i) \/ Is(p, e, {"LifeState"}) \/ q[i].dead = d
      BY <1>1, <2>1 DEF LifeTold, LifeKinds
    <2>. QED BY <2>1, <2>2, AppendComes
  <1>2. CASE i \notin DOMAIN q
    <2>1. Append(q, p)[i] = p  BY <1>2, AppendFacts
    <2>. QED BY <2>1
  <1>. QED BY <1>1, <1>2

LEMMA AppendLossTold ==
  ASSUME NEW T, NEW q \in Seq(T), NEW p \in T, NEW e, NEW t,
         LossTold(q, e, t) \/ Has(p, e, {"BuffRemove"}, t),
         ~Has(p, e, GainKinds, t)
  PROVE  LossTold(Append(q, p), e, t)
  <1>. SUFFICES ASSUME NEW i \in DOMAIN Append(q, p), Has(Append(q, p)[i], e, GainKinds, t)
                PROVE  Brings(Append(q, p), e, {"BuffRemove"}, t, i)
    BY DEF LossTold, GainKinds
  <1>1. CASE i \in DOMAIN q
    <2>1. i \in 0..Len(q) /\ Append(q, p)[i] = q[i]  BY <1>1, AppendFacts
    <2>2. Brings(q, e, {"BuffRemove"}, t, i) \/ Has(p, e, {"BuffRemove"}, t)
      BY <1>1, <2>1 DEF LossTold, GainKinds
    <2>. QED BY <2>1, <2>2, AppendBrings
  <1>2. CASE i \notin DOMAIN q
    <2>1. Append(q, p)[i] = p  BY <1>2, AppendFacts
    <2>. QED BY <2>1
  <1>. QED BY <1>1, <1>2

LEMMA AppendGainTold ==
  ASSUME NEW T, NEW q \in Seq(T), NEW p \in T, NEW e, NEW t,
         GainTold(q, e, t) \/ (Has(p, e, {"BuffAdd"}, t) /\ ~Brings(q, e, {"BuffRemove"}, t, 0)),
         ~Has(p, e, {"BuffRemove"}, t),
         Is(p, e, {"Spawn"}) => t \in p.buffs
  PROVE  GainTold(Append(q, p), e, t)
  <1>0. 0 \in 0..Len(q)  BY LenProperties
  <1>1. ~Brings(Append(q, p), e, {"BuffRemove"}, t, 0)
    BY <1>0, AppendBrings DEF GainTold
  <1>2. ASSUME e \in Others, NEW i \in DOMAIN Append(q, p), Is(Append(q, p)[i], e, {"Spawn"})
        PROVE  t \in Append(q, p)[i].buffs \/ Brings(Append(q, p), e, {"BuffAdd"}, t, i)
    <2>1. CASE i \in DOMAIN q
      <3>1. i \in 0..Len(q) /\ Append(q, p)[i] = q[i]  BY <2>1, AppendFacts
      <3>2. t \in q[i].buffs \/ Brings(q, e, {"BuffAdd"}, t, i) \/ Has(p, e, {"BuffAdd"}, t)
        BY <1>2, <2>1, <3>1 DEF GainTold
      <3>. QED BY <3>1, <3>2, AppendBrings
    <2>2. CASE i \notin DOMAIN q
      <3>1. Append(q, p)[i] = p  BY <2>2, AppendFacts
      <3>. QED BY <1>2, <3>1
    <2>. QED BY <2>1, <2>2
  <1>. QED BY <1>1, <1>2 DEF GainTold

(* A session that is told nothing of an entity in its place, and has       *)
(* neither to read that it comes into sight nor that it goes, knows nothing*)
(* of it.                                                                  *)
LEMMA Uninvolved ==
  ASSUME InSight, NEW e \in Entities, Present(e), NEW s \in Bots \ Audience(e),
         ~Unread(s, e, {"Spawn", "Despawn"})
  PROVE  ~About(link[s], e) /\ ~Seen(s, e)
  <1>1. e # s /\ ~Sees(s, e)  BY DEF Audience, Present, Sees
  <1>2. \A i \in DOMAIN link[s] : ~Is(link[s][i], e, Enter \cup Leave)
    BY <1>1 DEF InSight, Proper, Unread, Is, Enter, Leave
  <1>3. \A n : ~Seeing(link[s], Sees(s, e), e, n)  BY <1>1, <1>2 DEF Seeing, Is
  <1>4. ASSUME NEW i \in DOMAIN link[s], link[s][i].of = e  PROVE  FALSE
    <2>1. link[s][i].kind \in Leave  BY <1>3, <1>4 DEF InSight, Fitting
    <2>. QED BY <1>2, <1>4, <2>1 DEF Is
  <1>. QED BY <1>3, <1>4, Zenon DEF About, Seen

-----------------------------------------------------------------------------
(* The server tells some sessions of something.                            *)

LEMMA ToldComes ==
  ASSUME TypeOK, NEW S \in SUBSET Bots, NEW p \in PacketType, link' = Told(S, p),
         NEW x \in Bots, NEW e, NEW K
  PROVE  Comes(link'[x], e, K, 0) <=> Comes(link[x], e, K, 0) \/ (x \in S /\ Is(p, e, K))
  <1>0. 0 \in 0..Len(link[x]) /\ link[x] \in Seq(PacketType)
    BY LenProperties DEF TypeOK
  <1>1. CASE x \in S
    <2>1. link'[x] = Append(link[x], p)  BY <1>1, ToldLinks
    <2>. QED BY <1>0, <1>1, <2>1, AppendComes
  <1>2. CASE x \notin S
    <2>1. link'[x] = link[x]  BY <1>2, ToldLinks
    <2>. QED BY <1>2, <2>1
  <1>. QED BY <1>1, <1>2

LEMMA ToldBrings ==
  ASSUME TypeOK, NEW S \in SUBSET Bots, NEW p \in PacketType, link' = Told(S, p),
         NEW x \in Bots, NEW e, NEW K, NEW t
  PROVE  Brings(link'[x], e, K, t, 0) <=> Brings(link[x], e, K, t, 0) \/ (x \in S /\ Has(p, e, K, t))
  <1>0. 0 \in 0..Len(link[x]) /\ link[x] \in Seq(PacketType)
    BY LenProperties DEF TypeOK
  <1>1. CASE x \in S
    <2>1. link'[x] = Append(link[x], p)  BY <1>1, ToldLinks
    <2>. QED BY <1>0, <1>1, <2>1, AppendBrings
  <1>2. CASE x \notin S
    <2>1. link'[x] = link[x]  BY <1>2, ToldLinks
    <2>. QED BY <1>2, <2>1
  <1>. QED BY <1>1, <1>2

LEMMA ToldMentions ==
  ASSUME TypeOK, NEW S \in SUBSET Bots, NEW p \in PacketType, link' = Told(S, p),
         UNCHANGED buffTokenMap, NEW t, NEW e, Mentions(t, e)'
  PROVE  holder'[t] = e \/ Mentions(t, e) \/ (p.of = e /\ t \in p.buffs)
  <1>1. CASE holder'[t] = e \/ buffTokenMap[t] = e  BY <1>1 DEF Mentions
  <1>2. ASSUME NEW x \in Bots, NEW i \in DOMAIN link'[x], link'[x][i].of = e, t \in link'[x][i].buffs
        PROVE  Mentions(t, e) \/ (p.of = e /\ t \in p.buffs)
    <2>1. link[x] \in Seq(PacketType)  BY DEF TypeOK
    <2>2. CASE i \in DOMAIN link[x]
      <3>1. link'[x] = link[x] \/ link'[x] = Append(link[x], p)  BY ToldLinks
      <3>2. link'[x][i] = link[x][i]  BY <2>1, <2>2, <3>1, AppendFacts
      <3>. QED BY <1>2, <2>2, <3>2 DEF Mentions
    <2>3. CASE i \notin DOMAIN link[x]
      <3>1. link'[x] = link[x] \/ link'[x] = Append(link[x], p)  BY ToldLinks
      <3>2. link'[x] = Append(link[x], p)  BY <1>2, <2>3, <3>1
      <3>3. link'[x][i] = p  BY <1>2, <2>1, <2>3, <3>2, AppendFacts
      <3>. QED BY <1>2, <3>3
    <2>. QED BY <2>2, <2>3
  <1>. QED BY <1>1, <1>2 DEF Mentions

LEMMA HolderStays ==
  ASSUME OneHolder, spent \subseteq spent',
         \A t \in Tokens : \A e \in Entities : Mentions(t, e)' => Mentions(t, e)
  PROVE  OneHolder'
  BY DEF OneHolder

LEMMA LifeKnownTold ==
  ASSUME TypeOK, NEW S \in SUBSET Bots, NEW p \in PacketType, link' = Told(S, p),
         UNCHANGED entityMap, NEW e,
         \A s \in Bots : LifeTold(link[s], e, e \in dead') \/ (s \in S /\ Is(p, e, {"LifeState"})),
         Is(p, e, LifeKinds) => p.dead = (e \in dead'),
         Tracking(e) => \/ \E s \in Bots : Comes(link[s], e, {"LifeState"}, 0)
                        \/ \E s \in S : Is(p, e, {"LifeState"})
                        \/ entityMap[e].dead = (e \in dead')
  PROVE  LifeKnown(e)'
  <1>1. ASSUME NEW s \in Bots  PROVE  LifeTold(link'[s], e, e \in dead')
    <2>0. link[s] \in Seq(PacketType)  BY DEF TypeOK
    <2>1. CASE s \in S
      <3>1. link'[s] = Append(link[s], p)  BY <2>1, ToldLinks
      <3>2. LifeTold(link[s], e, e \in dead') \/ Is(p, e, {"LifeState"})  OBVIOUS
      <3>. QED BY <2>0, <3>1, <3>2, AppendLifeTold, Zenon
    <2>2. CASE s \notin S
      <3>1. link'[s] = link[s]  BY <2>2, ToldLinks
      <3>. QED BY <2>2, <3>1, Zenon
    <2>. QED BY <2>1, <2>2
  <1>2. ASSUME Tracking(e)'
        PROVE  (\E s \in Bots : Comes(link'[s], e, {"LifeState"}, 0)) \/ entityMap'[e].dead = (e \in dead')
    <2>1. Tracking(e) /\ entityMap' = entityMap  BY <1>2 DEF Tracking
    <2>2. \A s \in Bots : Comes(link'[s], e, {"LifeState"}, 0)
                          <=> Comes(link[s], e, {"LifeState"}, 0) \/ (s \in S /\ Is(p, e, {"LifeState"}))
      BY ToldComes
    <2>. QED BY <2>1, <2>2, Zenon
  <1>. QED BY <1>1, <1>2, Zenon DEF LifeKnown

LEMMA LossKnownTold ==
  ASSUME TypeOK, NEW S \in SUBSET Bots, NEW p \in PacketType, link' = Told(S, p),
         UNCHANGED entityMap, NEW e, NEW t,
         \A s \in Bots : LossTold(link[s], e, t) \/ (s \in S /\ Has(p, e, {"BuffRemove"}, t)),
         ~Has(p, e, GainKinds, t),
         t \in entityMap[e].buffs => \/ \E s \in Bots : Brings(link[s], e, {"BuffRemove"}, t, 0)
                                    \/ \E s \in S : Has(p, e, {"BuffRemove"}, t)
  PROVE  LossKnown(e, t)'
  <1>1. ASSUME NEW s \in Bots  PROVE  LossTold(link'[s], e, t)
    <2>0. link[s] \in Seq(PacketType)  BY DEF TypeOK
    <2>1. CASE s \in S
      <3>1. link'[s] = Append(link[s], p)  BY <2>1, ToldLinks
      <3>2. LossTold(link[s], e, t) \/ Has(p, e, {"BuffRemove"}, t)  OBVIOUS
      <3>. QED BY <2>0, <3>1, <3>2, AppendLossTold, Zenon
    <2>2. CASE s \notin S
      <3>1. link'[s] = link[s]  BY <2>2, ToldLinks
      <3>. QED BY <2>2, <3>1, Zenon
    <2>. QED BY <2>1, <2>2
  <1>2. ASSUME t \in entityMap'[e].buffs
        PROVE  \E s \in Bots : Brings(link'[s], e, {"BuffRemove"}, t, 0)
    <2>1. t \in entityMap[e].buffs  BY <1>2
    <2>2. \A s \in Bots : Brings(link'[s], e, {"BuffRemove"}, t, 0)
                          <=> Brings(link[s], e, {"BuffRemove"}, t, 0) \/ (s \in S /\ Has(p, e, {"BuffRemove"}, t))
      BY ToldBrings
    <2>. QED BY <2>1, <2>2, Zenon
  <1>. QED BY <1>1, <1>2, Zenon DEF LossKnown

LEMMA GainKnownTold ==
  ASSUME TypeOK, NEW S \in SUBSET Bots, NEW p \in PacketType, link' = Told(S, p),
         UNCHANGED entityMap, NEW e, NEW t,
         \A s \in Bots : \/ GainTold(link[s], e, t)
                         \/ /\ s \in S /\ Has(p, e, {"BuffAdd"}, t)
                            /\ ~Brings(link[s], e, {"BuffRemove"}, t, 0),
         ~Has(p, e, {"BuffRemove"}, t),
         Is(p, e, {"Spawn"}) => t \in p.buffs,
         e \in Others /\ Tracking(e) =>
           \/ t \in entityMap[e].buffs
           \/ \E s \in Bots : Brings(link[s], e, {"BuffAdd"}, t, 0)
           \/ \E s \in S : Has(p, e, {"BuffAdd"}, t)
  PROVE  GainKnown(e, t)'
  <1>1. ASSUME NEW s \in Bots  PROVE  GainTold(link'[s], e, t)
    <2>0. link[s] \in Seq(PacketType)  BY DEF TypeOK
    <2>1. CASE s \in S
      <3>1. link'[s] = Append(link[s], p)  BY <2>1, ToldLinks
      <3>2. GainTold(link[s], e, t) \/ (Has(p, e, {"BuffAdd"}, t) /\ ~Brings(link[s], e, {"BuffRemove"}, t, 0))
        OBVIOUS
      <3>. QED BY <2>0, <3>1, <3>2, AppendGainTold, Zenon
    <2>2. CASE s \notin S
      <3>1. link'[s] = link[s]  BY <2>2, ToldLinks
      <3>. QED BY <2>2, <3>1, Zenon
    <2>. QED BY <2>1, <2>2
  <1>2. ASSUME e \in Others, Tracking(e)'
        PROVE  t \in entityMap'[e].buffs \/ \E s \in Bots : Brings(link'[s], e, {"BuffAdd"}, t, 0)
    <2>1. Tracking(e) /\ entityMap' = entityMap  BY <1>2 DEF Tracking
    <2>2. \A s \in Bots : Brings(link'[s], e, {"BuffAdd"}, t, 0)
                          <=> Brings(link[s], e, {"BuffAdd"}, t, 0) \/ (s \in S /\ Has(p, e, {"BuffAdd"}, t))
      BY ToldBrings
    <2>. QED BY <1>2, <2>1, <2>2, Zenon
  <1>. QED BY <1>1, <1>2, Zenon DEF GainKnown

(* Most that is told changes nothing but what is told, on the server and   *)
(* on the links.                                                           *)
News(S, p) ==
  /\ S \subseteq Bots /\ p \in PacketType /\ link' = Told(S, p)
  /\ UNCHANGED <<client, reply, place>> /\ left'["warps"] = left["warps"]
  /\ p.kind \notin {"CharacterData", "GameReset"}

LEMMA ServerKeepsWorld ==
  ASSUME IndInv, UNCHANGED client, SeenStays
  PROVE  CountsAgree' /\ TokensAgree' /\ NoErrors' /\ Counted' /\ Events' /\ Objects'
  <1>1. UNCHANGED <<entityMap, entityReferenceCountMap, buffTokenMap, errors, queue>>
    BY DEF client, world
  <1>2. Counted'  BY <1>1, SeenStaysCounted DEF IndInv
  <1>3. CountsAgree' /\ TokensAgree'  BY <1>1 DEF IndInv, CountsAgree, TokensAgree, Tracking
  <1>4. NoErrors' /\ Events' /\ Objects'  BY <1>1 DEF IndInv, NoErrors, Events, Objects, Tracking
  <1>. QED BY <1>2, <1>3, <1>4

LEMMA ToldSingle ==
  ASSUME TypeOK, NEW S \in SUBSET Bots, NEW p \in PacketType, link' = Told(S, p),
         NEW x \in Bots, NEW e, NEW K, Single(link[x], e, K),
         ~Is(p, e, K) \/ ~Comes(link[x], e, K, 0)
  PROVE  Single(link'[x], e, K)
  <1>0. link[x] \in Seq(PacketType)  BY DEF TypeOK
  <1>1. link'[x] = link[x] \/ link'[x] = Append(link[x], p)  BY ToldLinks
  <1>. QED BY <1>0, <1>1, SingleFacts

(* A character that is told neither its data nor of a reset.               *)
LEMMA JoiningElsewhere ==
  ASSUME IndInv, NEW S \in SUBSET Bots, NEW p \in PacketType, link' = Told(S, p), NEW b \in Bots,
         UNCHANGED <<queue, botSelf, selfEntity>>, place'[b] = place[b], reply'[b] = reply[b],
         ~Is(p, b, {"CharacterData", "GameReset"})
  PROVE  Joining(b)'
  <1>0. TypeOK /\ Joining(b)  BY DEF IndInv
  <1>1. \A K \in SUBSET {"CharacterData", "GameReset"} : ~Is(p, b, K)
    BY DEF Is
  <1>3. (DataComing(b)' <=> DataComing(b)) /\ (ResetComing(b)' <=> ResetComing(b))
    BY <1>0, <1>1, ToldComes DEF DataComing, ResetComing
  <1>4. Single(link'[b], b, {"CharacterData", "GameReset"})
    BY <1>0, <1>1, ToldSingle DEF Joining
  <1>5. InStep(b)'
    <2>1. (Queued(b, "SelfSpawned")' <=> Queued(b, "SelfSpawned"))
          /\ (Queued(b, "GameReset")' <=> Queued(b, "GameReset"))
      BY DEF Queued
    <2>. QED BY <1>0, <1>3, <2>1 DEF Joining, InStep, Away, Loading, Inside
  <1>. QED BY <1>0, <1>4, <1>5 DEF Joining, Queued

LEMMA OwnedElsewhere ==
  ASSUME IndInv, NEW S \in SUBSET Bots, NEW p \in PacketType, link' = Told(S, p), SeenStays,
         NEW b \in Bots, UNCHANGED <<entityMap, botSelf, selfEntity, made>>, place'[b] = place[b],
         left'["warps"] \in Nat, left'["warps"] <= left["warps"],
         ~Is(p, b, {"CharacterData"})
  PROVE  Owned(b)'
  <1>0. TypeOK /\ Owned(b)  BY DEF IndInv
  <1>3. DataComing(b)' <=> DataComing(b)
    BY <1>0, ToldComes DEF DataComing
  <1>5. Seen(b, b)' <=> Seen(b, b)  BY DEF SeenStays, Entities
  <1>6. selfEntity'[b] = IF Seen(b, b)' THEN entityMap'[b].number ELSE 0
    BY <1>0, <1>5 DEF Owned
  <1>7. /\ entityMap'[b].kind = "Self" => entityMap'[b].number \in 1..made'[b]
        /\ Seen(b, b)' => entityMap'[b].kind = "Self"
    BY <1>0, <1>5 DEF Owned
  <1>8. made'[b] + (IF DataComing(b)' THEN 1 ELSE 0) + (IF place'[b] = "away" THEN 1 ELSE 0)
          <= 1 + MaxWarps - left'["warps"]
    <2>1. made[b] \in Nat /\ left["warps"] \in Nat /\ MaxWarps \in Nat
      BY <1>0, SharedWorldAssumption DEF TypeOK
    <2>. QED BY <1>0, <1>3, <2>1 DEF Owned
  <1>. QED BY <1>0, <1>6, <1>7, <1>8 DEF Owned

LEMMA NewsKeepsOwn ==
  ASSUME IndInv, NEW S, NEW p, News(S, p), SeenStays, NEW b \in Bots
  PROVE  Joining(b)' /\ Owned(b)'
  <1>1. /\ S \in SUBSET Bots /\ p \in PacketType /\ link' = Told(S, p)
        /\ ~Is(p, b, {"CharacterData", "GameReset"}) /\ ~Is(p, b, {"CharacterData"})
    BY DEF News, Is
  <1>2. UNCHANGED <<queue, reply, entityMap, place, botSelf, selfEntity, made>>
        /\ left'["warps"] = left["warps"] /\ left["warps"] \in Nat
    BY DEF News, client, owns, world, IndInv, TypeOK
  <1>3. Joining(b)'  BY <1>1, <1>2, JoiningElsewhere
  <1>4. Owned(b)'  BY <1>1, <1>2, OwnedElsewhere
  <1>. QED BY <1>3, <1>4

(* What is told of one entity says nothing of another.                     *)
LEMMA KnownElsewhere ==
  ASSUME TypeOK, NEW S \in SUBSET Bots, NEW p \in PacketType, link' = Told(S, p),
         UNCHANGED entityMap, NEW e \in Entities, p.of # e, Known(e),
         e \in dead' <=> e \in dead, \A t \in Tokens : holder'[t] = e <=> holder[t] = e
  PROVE  Known(e)'
  <1>1. \A K, t : ~Is(p, e, K) /\ ~Has(p, e, K, t)  BY DEF Is, Has
  <1>2. LifeKnown(e)'
    <2>1. (e \in dead') = (e \in dead)  OBVIOUS
    <2>2. LifeKnown(e)  BY DEF Known
    <2>3. \A s \in Bots : LifeTold(link[s], e, e \in dead')  BY <2>1, <2>2, Zenon DEF LifeKnown
    <2>4. Tracking(e) => \/ \E s \in Bots : Comes(link[s], e, {"LifeState"}, 0)
                         \/ entityMap[e].dead = (e \in dead')
      BY <2>1, <2>2, Zenon DEF LifeKnown
    <2>. QED BY <1>1, <2>3, <2>4, LifeKnownTold, Zenon
  <1>3. ASSUME NEW t \in Tokens  PROVE  BuffKnown(e, t)'
    <2>1. CASE holder[t] = e
      <3>1. GainKnown(e, t) /\ holder'[t] = e  BY <2>1 DEF Known, BuffKnown
      <3>2. GainKnown(e, t)'  BY <1>1, <3>1, GainKnownTold, Zenon DEF GainKnown
      <3>. QED BY <3>1, <3>2 DEF BuffKnown
    <2>2. CASE holder[t] # e
      <3>1. LossKnown(e, t) /\ holder'[t] # e  BY <2>2 DEF Known, BuffKnown
      <3>2. LossKnown(e, t)'  BY <1>1, <3>1, LossKnownTold, Zenon DEF LossKnown
      <3>. QED BY <3>1, <3>2 DEF BuffKnown
    <2>. QED BY <2>1, <2>2
  <1>. QED BY <1>2, <1>3 DEF Known

(* A packet that brings no buffs, and of life only what is so.             *)
LEMMA PlainPacket ==
  ASSUME TypeOK, NEW S \in SUBSET Bots, NEW p \in PacketType, link' = Told(S, p),
         UNCHANGED <<entityMap, dead, holder>>, NEW e \in Entities, Known(e),
         p.buffs = {}, p.kind # "Spawn", Is(p, e, LifeKinds) => p.dead = (e \in dead)
  PROVE  Known(e)'
  <1>1. ~Is(p, e, {"Spawn"}) /\ \A t, K : ~Has(p, e, K, t)
    BY DEF Has, Is
  <1>2. LifeKnown(e)'
    <2>1. LifeKnown(e) /\ dead' = dead  BY DEF Known
    <2>2. \A x \in Bots : LifeTold(link[x], e, e \in dead')  BY <2>1, Zenon DEF LifeKnown
    <2>3. Tracking(e) => \/ \E x \in Bots : Comes(link[x], e, {"LifeState"}, 0)
                         \/ entityMap[e].dead = (e \in dead')
      BY <2>1, Zenon DEF LifeKnown
    <2>4. Is(p, e, LifeKinds) => p.dead = (e \in dead')  BY <2>1, Zenon
    <2>. QED BY <2>2, <2>3, <2>4, LifeKnownTold, Zenon
  <1>3. ASSUME NEW t \in Tokens  PROVE  BuffKnown(e, t)'
    <2>1. CASE holder[t] = e
      <3>1. GainKnown(e, t) /\ holder'[t] = e  BY <2>1 DEF Known, BuffKnown
      <3>2. GainKnown(e, t)'  BY <1>1, <3>1, GainKnownTold, Zenon DEF GainKnown
      <3>. QED BY <3>1, <3>2 DEF BuffKnown
    <2>2. CASE holder[t] # e
      <3>1. LossKnown(e, t) /\ holder'[t] # e  BY <2>2 DEF Known, BuffKnown
      <3>2. LossKnown(e, t)'  BY <1>1, <3>1, LossKnownTold, Zenon DEF LossKnown
      <3>. QED BY <3>1, <3>2 DEF BuffKnown
    <2>. QED BY <2>1, <2>2
  <1>. QED BY <1>2, <1>3 DEF Known

LEMMA NewsStep ==
  ASSUME IndInv, NEW S \in SUBSET Bots, NEW p \in PacketType, News(S, p), TypeOK', OneHolder',
         \A s \in S : Proper(s, p), Allowed(S, p), \A s \in Bots : s \notin sight'[s],
         missed \subseteq missed',
         \A f \in Entities : f # p.of =>
           (f \in dead' <=> f \in dead) /\ \A t \in Tokens : holder'[t] = f <=> holder[t] = f,
         p.of \notin missed' => Known(p.of)'
  PROVE  IndInv'
  <1>1. link' = Told(S, p) /\ UNCHANGED entityMap  BY DEF News, client, world
  <1>2. InSight' /\ SeenStays  BY <1>1, ToldSight DEF IndInv
  <1>3. CountsAgree' /\ TokensAgree' /\ NoErrors' /\ Counted' /\ Events' /\ Objects'
    BY <1>2, ServerKeepsWorld DEF News
  <1>4. \A b \in Bots : Joining(b)' /\ Owned(b)'
    BY <1>2, NewsKeepsOwn
  <1>5. ASSUME NEW f \in Entities, f \notin missed'  PROVE  Known(f)'
    <2>1. CASE f = p.of  BY <1>5, <2>1
    <2>2. CASE f # p.of
      <3>1. Known(f)  BY <1>5 DEF IndInv
      <3>. QED BY <1>1, <2>2, <3>1, KnownElsewhere DEF IndInv
    <2>. QED BY <2>1, <2>2
  <1>. QED BY <1>2, <1>3, <1>4, <1>5 DEF IndInv

(* Something comes into sight.                                             *)
LEMMA ShowStep ==
  ASSUME IndInv, NEW s \in Bots, NEW e \in Entities, Show(s, e)
  PROVE  IndInv'
  <1>. DEFINE p == Packet("Spawn", e, BuffsOf(e), e \in dead)
  <1>0. TypeOK /\ InSight /\ OneHolder  BY DEF IndInv
  <1>1. /\ {s} \in SUBSET Bots /\ p \in PacketType /\ p.of = e /\ p.kind = "Spawn"
        /\ p.buffs = BuffsOf(e) /\ p.dead = (e \in dead)
    BY DEF Packet, PacketType, BuffsOf
  <1>2. /\ link' = Told({s}, p) /\ s # e /\ Present(e) /\ e \notin sight[s]
        /\ sight' = [sight EXCEPT ![s] = sight[s] \cup {e}]
        /\ left["shows"] > 0 /\ left' = [left EXCEPT !["shows"] = left["shows"] - 1]
        /\ UNCHANGED <<client, reply, place, holder, spent, dead, missed, lagged>>
    BY DEF Show, Spend
  <1>. HIDE DEF p
  <1>3. News({s}, p)
    BY <1>1, <1>2 DEF News, IndInv, TypeOK
  <1>4. TypeOK'
    <2>1. link' \in [Bots -> Seq(PacketType)]  BY <1>0, <1>1, <1>2, ToldLinks
    <2>2. sight' \in [Bots -> SUBSET Entities]  BY <1>0, <1>2 DEF TypeOK
    <2>3. left' \in [{"shows", "news", "warps"} -> Nat]  BY <1>0, <1>2 DEF TypeOK
    <2>. QED BY <1>0, <1>2, <2>1, <2>2, <2>3 DEF TypeOK, client, world, owns
  <1>5. OneHolder'
    <2>1. UNCHANGED <<buffTokenMap, holder, spent>>  BY <1>2 DEF client, world
    <2>2. ASSUME NEW t \in Tokens, NEW f \in Entities, Mentions(t, f)'
          PROVE  Mentions(t, f)
      <3>1. holder[t] = f \/ Mentions(t, f) \/ (p.of = f /\ t \in p.buffs)
        BY <1>0, <1>1, <1>2, <2>1, <2>2, ToldMentions
      <3>. QED BY <1>1, <3>1 DEF BuffsOf, Mentions
    <2>. QED BY <1>0, <2>1, <2>2, HolderStays
  <1>6. Proper(s, p)  BY <1>1, <1>2 DEF Proper
  <1>7. Allowed({s}, p)
    BY <1>0, <1>1, <1>2 DEF Allowed, Sees, Enter, Leave, TypeOK
  <1>8. \A x \in Bots : x \notin sight'[x]  BY <1>0, <1>2 DEF InSight, TypeOK
  <1>9. ASSUME e \notin missed'  PROVE  Known(e)'
    <2>0. Known(e) /\ UNCHANGED <<entityMap, dead, holder>>
      BY <1>2, <1>9 DEF IndInv, client, world
    <2>1. LifeKnown(e)'
      <3>1. LifeKnown(e) /\ dead' = dead  BY <2>0 DEF Known
      <3>2. \A x \in Bots : LifeTold(link[x], e, e \in dead')  BY <3>1, Zenon DEF LifeKnown
      <3>3. Tracking(e) => \/ \E x \in Bots : Comes(link[x], e, {"LifeState"}, 0)
                           \/ entityMap[e].dead = (e \in dead')
        BY <3>1, Zenon DEF LifeKnown
      <3>4. p.dead = (e \in dead')  BY <1>1, <3>1, Zenon
      <3>. QED BY <1>0, <1>1, <1>2, <2>0, <3>2, <3>3, <3>4, LifeKnownTold, Zenon
    <2>2. ASSUME NEW t \in Tokens  PROVE  BuffKnown(e, t)'
      <3>0. ~Has(p, e, {"BuffRemove"}, t)  BY <1>1 DEF Has, Is
      <3>1. CASE holder[t] = e
        <4>1. GainKnown(e, t) /\ holder'[t] = e  BY <2>0, <3>1 DEF Known, BuffKnown
        <4>2. t \in p.buffs  BY <1>1, <3>1 DEF BuffsOf
        <4>3. GainKnown(e, t)'
          BY <1>0, <1>1, <1>2, <2>0, <3>0, <4>1, <4>2, GainKnownTold, Zenon DEF GainKnown
        <4>. QED BY <4>1, <4>3 DEF BuffKnown
      <3>2. CASE holder[t] # e
        <4>1. LossKnown(e, t) /\ holder'[t] # e  BY <2>0, <3>2 DEF Known, BuffKnown
        <4>2. ~Has(p, e, GainKinds, t)  BY <1>1, <3>2 DEF BuffsOf, Has
        <4>3. LossKnown(e, t)'
          BY <1>0, <1>1, <1>2, <2>0, <4>1, <4>2, LossKnownTold, Zenon DEF LossKnown
        <4>. QED BY <4>1, <4>3 DEF BuffKnown
      <3>. QED BY <3>1, <3>2
    <2>. QED BY <2>1, <2>2 DEF Known
  <1>10. \A f \in Entities : (f \in dead' <=> f \in dead) /\ \A t \in Tokens : holder'[t] = f <=> holder[t] = f
    BY <1>2
  <1>11. missed \subseteq missed'  BY <1>2
  <1>. QED BY <1>1, <1>3, <1>4, <1>5, <1>6, <1>7, <1>8, <1>9, <1>10, <1>11, NewsStep

(* Something goes out of sight.                                            *)
LEMMA HideStep ==
  ASSUME IndInv, NEW s \in Bots, NEW e \in Entities, Hide(s, e)
  PROVE  IndInv'
  <1>. DEFINE p == Packet("Despawn", e, {}, FALSE)
  <1>0. TypeOK /\ InSight /\ OneHolder  BY DEF IndInv
  <1>1. /\ {s} \in SUBSET Bots /\ p \in PacketType /\ p.of = e /\ p.kind = "Despawn"
        /\ p.buffs = {}
    BY DEF Packet, PacketType
  <1>2. /\ link' = Told({s}, p) /\ e \in sight[s]
        /\ sight' = [sight EXCEPT ![s] = sight[s] \ {e}]
        /\ UNCHANGED <<client, reply, place, holder, spent, dead, left, missed, lagged>>
    BY DEF Hide
  <1>. HIDE DEF p
  <1>3. s # e  BY <1>0, <1>2 DEF InSight
  <1>4. News({s}, p)  BY <1>1, <1>2 DEF News
  <1>5. TypeOK'
    <2>1. link' \in [Bots -> Seq(PacketType)]  BY <1>0, <1>1, <1>2, ToldLinks
    <2>2. sight' \in [Bots -> SUBSET Entities]  BY <1>0, <1>2 DEF TypeOK
    <2>. QED BY <1>0, <1>2, <2>1, <2>2 DEF TypeOK, client, world, owns
  <1>6. OneHolder'
    <2>1. UNCHANGED <<buffTokenMap, holder, spent>>  BY <1>2 DEF client, world
    <2>2. ASSUME NEW t \in Tokens, NEW f \in Entities, Mentions(t, f)'
          PROVE  Mentions(t, f)
      <3>1. holder[t] = f \/ Mentions(t, f) \/ (p.of = f /\ t \in p.buffs)
        BY <1>0, <1>1, <1>2, <2>1, <2>2, ToldMentions
      <3>. QED BY <1>1, <3>1 DEF Mentions
    <2>. QED BY <1>0, <2>1, <2>2, HolderStays
  <1>7. Proper(s, p)  BY <1>1, <1>3 DEF Proper
  <1>8. Allowed({s}, p)
    BY <1>0, <1>1, <1>2, <1>3 DEF Allowed, Sees, Enter, Leave, TypeOK
  <1>9. \A x \in Bots : x \notin sight'[x]  BY <1>0, <1>2 DEF InSight, TypeOK
  <1>10. ASSUME e \notin missed'  PROVE  Known(e)'
    <2>1. Known(e) /\ UNCHANGED <<entityMap, dead, holder>>
      BY <1>2, <1>10 DEF IndInv, client, world
    <2>2. ~Is(p, e, LifeKinds) /\ p.kind # "Spawn"  BY <1>1 DEF Is, LifeKinds
    <2>. QED BY <1>0, <1>1, <1>2, <2>1, <2>2, PlainPacket
  <1>11. \A f \in Entities : (f \in dead' <=> f \in dead) /\ \A t \in Tokens : holder'[t] = f <=> holder[t] = f
    BY <1>2
  <1>12. missed \subseteq missed'  BY <1>2
  <1>. QED BY <1>1, <1>4, <1>5, <1>6, <1>7, <1>8, <1>9, <1>10, <1>11, <1>12, NewsStep

-----------------------------------------------------------------------------
(* What happens to an entity is told to those who see it.                  *)

LEMMA AudienceIsAllowed ==
  ASSUME InSight, NEW e \in Entities, NEW p, p.of = e, p.kind \notin Enter \cup Leave,
         UNCHANGED <<place, sight>>
  PROVE  Audience(e) \in SUBSET Bots /\ Allowed(Audience(e), p) /\ \A s \in Bots : s \notin sight'[s]
  <1>1. \A s \in Audience(e) : s \in Bots /\ Sees(s, e)
    BY DEF Audience, Sees, InSight
  <1>2. \A s, f : Sees(s, f)' <=> Sees(s, f)  BY DEF Sees
  <1>. QED BY <1>1, <1>2 DEF Allowed, InSight

(* Unless the change is missed, all who know the entity are told.          *)
LEMMA ChangeIsTold ==
  ASSUME IndInv, NEW e \in Entities, missed' = Missed(e), e \notin missed'
  PROVE  /\ e \notin missed
         /\ \A s \in Bots \ Audience(e) : ~About(link[s], e)
         /\ Tracking(e) => Audience(e) # {}
  <1>1. Present(e) /\ \A s \in Bots \ Audience(e) : ~Unread(s, e, {"Spawn", "Despawn"})
    BY DEF Missed
  <1>2. missed' = missed  BY <1>1 DEF Missed
  <1>3. ASSUME NEW s \in Bots \ Audience(e)  PROVE  ~About(link[s], e) /\ ~Seen(s, e)
    BY <1>1, Uninvolved DEF IndInv
  <1>4. Tracking(e) => \E s \in Bots : Seen(s, e)  BY TrackedIsSeen DEF IndInv
  <1>5. \A s \in Bots : Seen(s, e) => s \in Audience(e)  BY <1>3
  <1>. QED BY <1>2, <1>3, <1>4, <1>5

LEMMA MissedGrows ==
  ASSUME TypeOK, NEW e \in Entities, missed' = Missed(e)
  PROVE  missed \subseteq missed' /\ missed' \subseteq Entities
  BY DEF Missed, TypeOK

(* Somebody dies or is revived.                                            *)
LEMMA TurnStep ==
  ASSUME IndInv, NEW e \in Entities, Turn(e)
  PROVE  IndInv'
  <1>. DEFINE p == Packet("LifeState", e, {}, e \notin dead)
              S == Audience(e)
  <1>0. TypeOK /\ InSight /\ OneHolder  BY DEF IndInv
  <1>1. /\ p \in PacketType /\ p.of = e /\ p.kind = "LifeState"
        /\ p.buffs = {} /\ p.dead = (e \notin dead) /\ p.kind \notin Enter \cup Leave
    BY DEF Packet, PacketType, Enter, Leave
  <1>2. /\ link' = Told(S, p)
        /\ dead' = IF e \in dead THEN dead \ {e} ELSE dead \cup {e}
        /\ left' = [left EXCEPT !["news"] = left["news"] - 1] /\ left["news"] > 0
        /\ missed' = Missed(e)
        /\ UNCHANGED <<client, reply, place, sight, holder, spent, lagged>>
    BY DEF Turn, Spend
  <1>. HIDE DEF p, S
  <1>3. S \in SUBSET Bots /\ Allowed(S, p) /\ \A s \in Bots : s \notin sight'[s]
    BY <1>0, <1>1, <1>2, AudienceIsAllowed DEF S
  <1>4. News(S, p)  BY <1>1, <1>2, <1>3 DEF News, IndInv, TypeOK
  <1>5. missed \subseteq missed' /\ missed' \subseteq Entities  BY <1>0, <1>2, MissedGrows
  <1>6. TypeOK'
    <2>1. link' \in [Bots -> Seq(PacketType)]  BY <1>0, <1>1, <1>2, <1>3, ToldLinks
    <2>2. dead' \subseteq Entities  BY <1>0, <1>2 DEF TypeOK
    <2>3. left' \in [{"shows", "news", "warps"} -> Nat]  BY <1>0, <1>2 DEF TypeOK
    <2>. QED BY <1>0, <1>2, <1>5, <2>1, <2>2, <2>3 DEF TypeOK, client, world, owns
  <1>7. OneHolder'
    <2>1. UNCHANGED <<buffTokenMap, holder, spent>>  BY <1>2 DEF client, world
    <2>2. ASSUME NEW t \in Tokens, NEW f \in Entities, Mentions(t, f)'
          PROVE  Mentions(t, f)
      <3>1. holder[t] = f \/ Mentions(t, f) \/ (p.of = f /\ t \in p.buffs)
        BY <1>0, <1>1, <1>2, <1>3, <2>1, <2>2, ToldMentions
      <3>. QED BY <1>1, <3>1 DEF Mentions
    <2>. QED BY <1>0, <2>1, <2>2, HolderStays
  <1>8. \A s \in S : Proper(s, p)  BY <1>1 DEF Proper
  <1>9. ASSUME e \notin missed'  PROVE  Known(e)'
    <2>0. /\ e \notin missed /\ (Tracking(e) => S # {})
          /\ \A s \in Bots \ S : ~About(link[s], e)
      BY <1>2, <1>9, ChangeIsTold DEF S
    <2>1. Known(e) /\ UNCHANGED <<entityMap, holder>>
      BY <1>2, <2>0 DEF IndInv, client, world
    <2>2. Is(p, e, {"LifeState"}) /\ ~Is(p, e, {"Spawn"}) /\ \A t, K : ~Has(p, e, K, t)
      BY <1>1 DEF Has, Is
    <2>3. LifeKnown(e)'
      <3>1. (e \in dead') = (e \notin dead)  BY <1>2
      <3>2. \A s \in Bots \ S : LifeTold(link[s], e, e \in dead')  BY <2>0, NothingTold, Zenon
      <3>3. \A s \in Bots : LifeTold(link[s], e, e \in dead') \/ (s \in S /\ Is(p, e, {"LifeState"}))
        BY <2>2, <3>2, Zenon
      <3>4. p.dead = (e \in dead')  BY <1>1, <3>1, Zenon
      <3>5. Tracking(e) => \E s \in S : Is(p, e, {"LifeState"})  BY <2>0, <2>2
      <3>. QED BY <1>0, <1>1, <1>2, <1>3, <2>1, <3>3, <3>4, <3>5, LifeKnownTold, Zenon
    <2>4. ASSUME NEW t \in Tokens  PROVE  BuffKnown(e, t)'
      <3>1. CASE holder[t] = e
        <4>1. GainKnown(e, t) /\ holder'[t] = e  BY <2>1, <3>1 DEF Known, BuffKnown
        <4>2. GainKnown(e, t)'
          BY <1>0, <1>1, <1>2, <1>3, <2>1, <2>2, <4>1, GainKnownTold, Zenon DEF GainKnown
        <4>. QED BY <4>1, <4>2 DEF BuffKnown
      <3>2. CASE holder[t] # e
        <4>1. LossKnown(e, t) /\ holder'[t] # e  BY <2>1, <3>2 DEF Known, BuffKnown
        <4>2. LossKnown(e, t)'
          BY <1>0, <1>1, <1>2, <1>3, <2>1, <2>2, <4>1, LossKnownTold, Zenon DEF LossKnown
        <4>. QED BY <4>1, <4>2 DEF BuffKnown
      <3>. QED BY <3>1, <3>2
    <2>. QED BY <2>3, <2>4 DEF Known
  <1>10. \A f \in Entities : f # p.of =>
           (f \in dead' <=> f \in dead) /\ \A t \in Tokens : holder'[t] = f <=> holder[t] = f
    BY <1>1, <1>2
  <1>. QED BY <1>1, <1>3, <1>4, <1>5, <1>6, <1>7, <1>8, <1>9, <1>10, NewsStep

(* A buff begins.                                                          *)
LEMMA GiveBuffStep ==
  ASSUME IndInv, NEW e \in Entities, NEW t \in Tokens, GiveBuff(e, t)
  PROVE  IndInv'
  <1>. DEFINE p == Packet("BuffAdd", e, {t}, FALSE)
              S == Audience(e)
  <1>0. TypeOK /\ InSight /\ OneHolder  BY DEF IndInv
  <1>1. /\ p \in PacketType /\ p.of = e /\ p.kind = "BuffAdd"
        /\ p.buffs = {t} /\ p.kind \notin Enter \cup Leave
    BY DEF Packet, PacketType, Enter, Leave
  <1>2. /\ link' = Told(S, p) /\ t \notin spent
        /\ spent' = spent \cup {t} /\ holder' = [holder EXCEPT ![t] = e]
        /\ left' = [left EXCEPT !["news"] = left["news"] - 1] /\ left["news"] > 0
        /\ missed' = Missed(e)
        /\ UNCHANGED <<client, reply, place, sight, dead, lagged>>
    BY DEF GiveBuff, Spend
  <1>. HIDE DEF p, S
  <1>3. S \in SUBSET Bots /\ Allowed(S, p) /\ \A s \in Bots : s \notin sight'[s]
    BY <1>0, <1>1, <1>2, AudienceIsAllowed DEF S
  <1>4. News(S, p)  BY <1>1, <1>2, <1>3 DEF News, IndInv, TypeOK
  <1>5. missed \subseteq missed' /\ missed' \subseteq Entities  BY <1>0, <1>2, MissedGrows
  <1>6. TypeOK'
    <2>1. link' \in [Bots -> Seq(PacketType)]  BY <1>0, <1>1, <1>2, <1>3, ToldLinks
    <2>2. spent' \subseteq Tokens /\ holder' \in [Tokens -> Entities \cup {Nobody}]
      BY <1>0, <1>2 DEF TypeOK
    <2>3. left' \in [{"shows", "news", "warps"} -> Nat]  BY <1>0, <1>2 DEF TypeOK
    <2>. QED BY <1>0, <1>2, <1>5, <2>1, <2>2, <2>3 DEF TypeOK, client, world, owns
  <1>7. \A f \in Entities : ~Mentions(t, f)  BY <1>0, <1>2 DEF OneHolder
  <1>8. /\ holder'[t] = e /\ holder[t] \notin Entities
        /\ \A u \in Tokens : u # t => holder'[u] = holder[u]
    BY <1>0, <1>2, <1>7 DEF TypeOK, Mentions
  <1>9. OneHolder'
    <2>1. UNCHANGED buffTokenMap  BY <1>2 DEF client, world
    <2>2. ASSUME NEW u \in Tokens, NEW f \in Entities, Mentions(u, f)'
          PROVE  Mentions(u, f) \/ (u = t /\ f = e)
      <3>1. holder'[u] = f \/ Mentions(u, f) \/ (p.of = f /\ u \in p.buffs)
        BY <1>0, <1>1, <1>2, <1>3, <2>1, <2>2, ToldMentions
      <3>. QED BY <1>1, <1>8, <3>1 DEF Mentions
    <2>. QED BY <1>0, <1>2, <1>7, <2>2 DEF OneHolder
  <1>10. \A s \in S : Proper(s, p)  BY <1>1 DEF Proper
  <1>11. ASSUME e \notin missed'  PROVE  Known(e)'
    <2>0. /\ e \notin missed /\ (Tracking(e) => S # {})
          /\ \A s \in Bots \ S : ~About(link[s], e)
      BY <1>2, <1>11, ChangeIsTold DEF S
    <2>1. Known(e) /\ UNCHANGED <<entityMap, dead>>
      BY <1>2, <2>0 DEF IndInv, client, world
    <2>2. /\ ~Is(p, e, LifeKinds) /\ ~Is(p, e, {"Spawn"}) /\ Has(p, e, {"BuffAdd"}, t)
          /\ \A u : ~Has(p, e, {"BuffRemove"}, u)
          /\ \A u : u # t => \A K : ~Has(p, e, K, u)
      BY <1>1 DEF Has, Is, LifeKinds
    <2>3. LifeKnown(e)'
      <3>1. LifeKnown(e) /\ dead' = dead  BY <2>1 DEF Known
      <3>2. \A x \in Bots : LifeTold(link[x], e, e \in dead')  BY <3>1, Zenon DEF LifeKnown
      <3>3. Tracking(e) => \/ \E x \in Bots : Comes(link[x], e, {"LifeState"}, 0)
                           \/ entityMap[e].dead = (e \in dead')
        BY <3>1, Zenon DEF LifeKnown
      <3>. QED BY <1>0, <1>1, <1>2, <1>3, <2>1, <2>2, <3>2, <3>3, LifeKnownTold, Zenon
    <2>4. BuffKnown(e, t)'
      <3>1. \A s \in Bots : ~Brings(link[s], e, {"BuffRemove"}, t, 0)
        BY <1>7 DEF Mentions, Brings, Has, Is
      <3>2. \A s \in Bots \ S : GainTold(link[s], e, t)  BY <2>0, NothingTold, Zenon
      <3>3. \A s \in Bots : \/ GainTold(link[s], e, t)
                            \/ /\ s \in S /\ Has(p, e, {"BuffAdd"}, t)
                               /\ ~Brings(link[s], e, {"BuffRemove"}, t, 0)
        BY <2>2, <3>1, <3>2, Zenon
      <3>4. Tracking(e) => \E s \in S : Has(p, e, {"BuffAdd"}, t)  BY <2>0, <2>2
      <3>5. GainKnown(e, t)'
        BY <1>0, <1>1, <1>2, <1>3, <2>1, <2>2, <3>3, <3>4, GainKnownTold, Zenon
      <3>. QED BY <1>8, <3>5 DEF BuffKnown
    <2>5. ASSUME NEW u \in Tokens, u # t  PROVE  BuffKnown(e, u)'
      <3>1. CASE holder[u] = e
        <4>1. GainKnown(e, u) /\ holder'[u] = e  BY <1>8, <2>1, <2>5, <3>1 DEF Known, BuffKnown
        <4>2. GainKnown(e, u)'
          BY <1>0, <1>1, <1>2, <1>3, <2>1, <2>2, <2>5, <4>1, GainKnownTold, Zenon DEF GainKnown
        <4>. QED BY <4>1, <4>2 DEF BuffKnown
      <3>2. CASE holder[u] # e
        <4>1. LossKnown(e, u) /\ holder'[u] # e  BY <1>8, <2>1, <2>5, <3>2 DEF Known, BuffKnown
        <4>2. LossKnown(e, u)'
          BY <1>0, <1>1, <1>2, <1>3, <2>1, <2>2, <2>5, <4>1, LossKnownTold, Zenon DEF LossKnown
        <4>. QED BY <4>1, <4>2 DEF BuffKnown
      <3>. QED BY <3>1, <3>2
    <2>. QED BY <2>3, <2>4, <2>5 DEF Known
  <1>12. \A f \in Entities : f # p.of =>
           (f \in dead' <=> f \in dead) /\ \A u \in Tokens : holder'[u] = f <=> holder[u] = f
    BY <1>1, <1>2, <1>8
  <1>. QED BY <1>1, <1>3, <1>4, <1>5, <1>6, <1>9, <1>10, <1>11, <1>12, NewsStep

(* A buff ends.                                                            *)
LEMMA EndBuffOf ==
  ASSUME IndInv, NEW t \in Tokens, EndBuff(t), NEW e \in Entities, e = holder[t]
  PROVE  IndInv'
  <1>. DEFINE p == Packet("BuffRemove", e, {t}, FALSE)
              S == Audience(e)
  <1>0. TypeOK /\ InSight /\ OneHolder  BY DEF IndInv
  <1>1. e \in Entities  OBVIOUS
  <1>2. /\ p \in PacketType /\ p.of = e /\ p.kind = "BuffRemove"
        /\ p.buffs = {t} /\ p.kind \notin Enter \cup Leave
    BY <1>1 DEF Packet, PacketType, Enter, Leave
  <1>3. /\ link' = Told(S, p) /\ holder' = [holder EXCEPT ![t] = Nobody]
        /\ left' = [left EXCEPT !["news"] = left["news"] - 1] /\ left["news"] > 0
        /\ missed' = Missed(e)
        /\ UNCHANGED <<client, reply, place, sight, spent, dead, lagged>>
    BY DEF EndBuff, Spend
  <1>4. /\ holder'[t] = Nobody /\ holder[t] = e /\ Nobody \notin Entities
        /\ \A u \in Tokens : u # t => holder'[u] = holder[u]
    BY <1>0, <1>3, SharedWorldAssumption DEF TypeOK, Entities
  <1>5. S = Audience(e)  OBVIOUS
  <1>. HIDE DEF p, S
  <1>6. S \in SUBSET Bots /\ Allowed(S, p) /\ \A s \in Bots : s \notin sight'[s]
    BY <1>0, <1>1, <1>2, <1>3, <1>5, AudienceIsAllowed
  <1>7. News(S, p)  BY <1>2, <1>3, <1>6 DEF News, IndInv, TypeOK
  <1>8. missed \subseteq missed' /\ missed' \subseteq Entities  BY <1>0, <1>1, <1>3, MissedGrows
  <1>9. TypeOK'
    <2>1. link' \in [Bots -> Seq(PacketType)]  BY <1>0, <1>2, <1>3, <1>6, ToldLinks
    <2>2. holder' \in [Tokens -> Entities \cup {Nobody}]  BY <1>0, <1>3 DEF TypeOK
    <2>3. left' \in [{"shows", "news", "warps"} -> Nat]  BY <1>0, <1>3 DEF TypeOK
    <2>. QED BY <1>0, <1>3, <1>8, <2>1, <2>2, <2>3 DEF TypeOK, client, world, owns
  <1>10. OneHolder'
    <2>1. UNCHANGED buffTokenMap  BY <1>3 DEF client, world
    <2>2. ASSUME NEW u \in Tokens, NEW f \in Entities, Mentions(u, f)'
          PROVE  Mentions(u, f)
      <3>1. holder'[u] = f \/ Mentions(u, f) \/ (p.of = f /\ u \in p.buffs)
        BY <1>0, <1>2, <1>3, <1>6, <2>1, <2>2, ToldMentions
      <3>. QED BY <1>2, <1>4, <3>1 DEF Mentions
    <2>. QED BY <1>0, <1>3, <2>2, HolderStays
  <1>11. \A s \in S : Proper(s, p)  BY <1>2 DEF Proper
  <1>12. ASSUME e \notin missed'  PROVE  Known(e)'
    <2>0. /\ e \notin missed /\ (Tracking(e) => S # {})
          /\ \A s \in Bots \ S : ~About(link[s], e)
      BY <1>1, <1>3, <1>5, <1>12, ChangeIsTold
    <2>1. Known(e) /\ UNCHANGED <<entityMap, dead>>
      BY <1>1, <1>3, <2>0 DEF IndInv, client, world
    <2>2. /\ ~Is(p, e, LifeKinds) /\ ~Is(p, e, {"Spawn"}) /\ Has(p, e, {"BuffRemove"}, t)
          /\ \A u : ~Has(p, e, GainKinds, u)
          /\ \A u : u # t => \A K : ~Has(p, e, K, u)
      BY <1>2 DEF Has, Is, LifeKinds, GainKinds
    <2>3. LifeKnown(e)'
      <3>1. LifeKnown(e) /\ dead' = dead  BY <2>1 DEF Known
      <3>2. \A x \in Bots : LifeTold(link[x], e, e \in dead')  BY <3>1, Zenon DEF LifeKnown
      <3>3. Tracking(e) => \/ \E x \in Bots : Comes(link[x], e, {"LifeState"}, 0)
                           \/ entityMap[e].dead = (e \in dead')
        BY <3>1, Zenon DEF LifeKnown
      <3>. QED BY <1>0, <1>2, <1>3, <1>6, <2>1, <2>2, <3>2, <3>3, LifeKnownTold, Zenon
    <2>4. BuffKnown(e, t)'
      <3>1. \A s \in Bots \ S : LossTold(link[s], e, t)  BY <2>0, NothingTold, Zenon
      <3>2. \A s \in Bots : LossTold(link[s], e, t) \/ (s \in S /\ Has(p, e, {"BuffRemove"}, t))
        BY <2>2, <3>1, Zenon
      <3>3. t \in entityMap[e].buffs => Tracking(e)  BY DEF Tracking, NoEntity
      <3>4. t \in entityMap[e].buffs => \E s \in S : Has(p, e, {"BuffRemove"}, t)
        BY <2>0, <2>2, <3>3
      <3>5. LossKnown(e, t)'
        BY <1>0, <1>2, <1>3, <1>6, <2>1, <2>2, <3>2, <3>4, LossKnownTold, Zenon
      <3>. QED BY <1>1, <1>4, <3>5 DEF BuffKnown
    <2>5. ASSUME NEW u \in Tokens, u # t  PROVE  BuffKnown(e, u)'
      <3>1. CASE holder[u] = e
        <4>1. GainKnown(e, u) /\ holder'[u] = e  BY <1>4, <2>1, <2>5, <3>1 DEF Known, BuffKnown
        <4>2. GainKnown(e, u)'
          BY <1>0, <1>2, <1>3, <1>6, <2>1, <2>2, <2>5, <4>1, GainKnownTold, Zenon DEF GainKnown
        <4>. QED BY <4>1, <4>2 DEF BuffKnown
      <3>2. CASE holder[u] # e
        <4>1. LossKnown(e, u) /\ holder'[u] # e  BY <1>4, <2>1, <2>5, <3>2 DEF Known, BuffKnown
        <4>2. LossKnown(e, u)'
          BY <1>0, <1>2, <1>3, <1>6, <2>1, <2>2, <2>5, <4>1, LossKnownTold, Zenon DEF LossKnown
        <4>. QED BY <4>1, <4>2 DEF BuffKnown
      <3>. QED BY <3>1, <3>2
    <2>. QED BY <2>3, <2>4, <2>5 DEF Known
  <1>13. \A f \in Entities : f # p.of =>
           (f \in dead' <=> f \in dead) /\ \A u \in Tokens : holder'[u] = f <=> holder[u] = f
    BY <1>2, <1>3, <1>4
  <1>. QED BY <1>1, <1>2, <1>6, <1>7, <1>8, <1>9, <1>10, <1>11, <1>12, <1>13, NewsStep

LEMMA EndBuffStep ==
  ASSUME IndInv, NEW t \in Tokens, EndBuff(t)
  PROVE  IndInv'
  <1>1. holder[t] \in Entities  BY DEF IndInv, TypeOK, EndBuff
  <1>2. PICK e \in Entities : e = holder[t]  BY <1>1
  <1>. QED BY <1>2, EndBuffOf

-----------------------------------------------------------------------------
(* The way of a character into the world and out of it.                    *)

LEMMA PlaceStep ==
  ASSUME IndInv, NEW S \in SUBSET Bots, NEW p \in PacketType, link' = Told(S, p),
         UNCHANGED <<client, sight, holder, spent, dead, missed>>, TypeOK',
         p.buffs = {}, p.kind # "Spawn", \A e \in Entities : Is(p, e, LifeKinds) => p.dead = (e \in dead),
         \A s \in S : Proper(s, p), Allowed(S, p),
         \A b \in Bots : Joining(b)' /\ (SeenStays => Owned(b)')
  PROVE  IndInv'
  <1>0. TypeOK /\ InSight /\ OneHolder  BY DEF IndInv
  <1>1. \A s \in Bots : s \notin sight'[s]  BY <1>0 DEF InSight
  <1>2. InSight' /\ SeenStays  BY <1>0, <1>1, ToldSight
  <1>3. CountsAgree' /\ TokensAgree' /\ NoErrors' /\ Counted' /\ Events' /\ Objects'
    BY <1>2, ServerKeepsWorld
  <1>4. OneHolder'
    <2>1. UNCHANGED <<buffTokenMap, holder, spent>>  BY DEF client, world
    <2>2. ASSUME NEW t \in Tokens, NEW f \in Entities, Mentions(t, f)'
          PROVE  Mentions(t, f)
      <3>1. holder[t] = f \/ Mentions(t, f) \/ (p.of = f /\ t \in p.buffs)
        BY <1>0, <2>1, <2>2, ToldMentions
      <3>. QED BY <3>1 DEF Mentions
    <2>. QED BY <1>0, <2>1, <2>2, HolderStays
  <1>5. ASSUME NEW e \in Entities, e \notin missed'  PROVE  Known(e)'
    <2>1. Known(e) /\ UNCHANGED entityMap  BY <1>5 DEF IndInv, client, world
    <2>. QED BY <1>0, <2>1, PlainPacket
  <1>. QED BY <1>2, <1>3, <1>4, <1>5 DEF IndInv

LEMMA NoneComes ==
  ASSUME NEW b, ~DataComing(b), ~ResetComing(b)
  PROVE  ~Comes(link[b], b, {"CharacterData", "GameReset"}, 0)
  BY DEF DataComing, ResetComing, Comes, Is

(* A character is reset.                                                   *)
LEMMA WarpStep ==
  ASSUME IndInv, NEW b \in Bots, Warp(b)
  PROVE  IndInv'
  <1>. DEFINE p == Packet("GameReset", b, {}, FALSE)
  <1>0. TypeOK /\ InSight /\ Joining(b) /\ Owned(b)  BY DEF IndInv
  <1>1. /\ {b} \in SUBSET Bots /\ p \in PacketType /\ p.of = b /\ p.kind = "GameReset"
        /\ p.buffs = {}
    BY DEF Packet, PacketType, Entities
  <1>2. /\ link' = Told({b}, p) /\ place[b] = "in"
        /\ left["warps"] > 0 /\ left' = [left EXCEPT !["warps"] = left["warps"] - 1]
        /\ place' = [place EXCEPT ![b] = "away"]
        /\ lagged' \subseteq lagged \cup {b}
        /\ UNCHANGED <<client, reply, sight, holder, spent, dead, missed>>
    BY DEF Warp, Spend
  <1>. HIDE DEF p
  <1>3. /\ place'[b] = "away" /\ \A x \in Bots : x # b => place'[x] = place[x]
        /\ left["warps"] \in Nat /\ left'["warps"] = left["warps"] - 1
    BY <1>0, <1>2 DEF TypeOK
  <1>4. UNCHANGED <<queue, entityMap, selfEntity, botSelf, made>>
    BY <1>2 DEF client, owns, world
  <1>5. /\ reply[b] = "none" /\ ~DataComing(b) /\ ~ResetComing(b)
        /\ ~Queued(b, "SelfSpawned") /\ ~Queued(b, "GameReset")
    BY <1>0, <1>2 DEF Joining, InStep, Inside
  <1>6. ~DataComing(b)' /\ ResetComing(b)'
    <2>1. ~Is(p, b, {"CharacterData"}) /\ Is(p, b, {"GameReset"}) /\ b \in {b}  BY <1>1 DEF Is
    <2>. QED BY <1>0, <1>1, <1>2, <1>5, <2>1, ToldComes DEF DataComing, ResetComing
  <1>7. TypeOK'
    <2>1. link' \in [Bots -> Seq(PacketType)]  BY <1>0, <1>1, <1>2, ToldLinks
    <2>2. place' \in [Bots -> {"away", "loading", "in"}]  BY <1>0, <1>2 DEF TypeOK
    <2>3. left' \in [{"shows", "news", "warps"} -> Nat]  BY <1>0, <1>2 DEF TypeOK
    <2>. QED BY <1>0, <1>2, <2>1, <2>2, <2>3 DEF TypeOK, client, world, owns
  <1>8. Proper(b, p)  BY <1>1 DEF Proper
  <1>9. Allowed({b}, p)
    BY <1>1, <1>2, <1>3 DEF Allowed, Sees, Enter, Leave
  <1>10. Joining(b)'
    <2>1. Single(link'[b], b, {"CharacterData", "GameReset"})
      BY <1>0, <1>1, <1>2, <1>5, NoneComes, ToldSingle DEF Joining
    <2>2. InStep(b)'  BY <1>2, <1>3, <1>4, <1>5, <1>6 DEF InStep, Away, Queued
    <2>. QED BY <1>0, <1>2, <1>3, <1>4, <1>5, <2>1, <2>2 DEF Joining
  <1>11. ASSUME SeenStays  PROVE  Owned(b)'
    <2>1. Seen(b, b)' <=> Seen(b, b)  BY <1>11 DEF SeenStays, Entities
    <2>2. selfEntity'[b] = IF Seen(b, b)' THEN entityMap'[b].number ELSE 0
      BY <1>0, <1>4, <2>1 DEF Owned
    <2>4. made'[b] + 0 + 1 <= 1 + MaxWarps - left'["warps"]
      <3>1. made[b] \in Nat /\ MaxWarps \in Nat
        BY <1>0, SharedWorldAssumption DEF TypeOK
      <3>2. made[b] + 0 + 0 <= 1 + MaxWarps - left["warps"]
        BY <1>0, <1>2, <1>5 DEF Owned
      <3>. QED BY <1>3, <1>4, <3>1, <3>2
    <2>5. /\ entityMap'[b].kind = "Self" => entityMap'[b].number \in 1..made'[b]
          /\ Seen(b, b)' => entityMap'[b].kind = "Self"
      BY <1>0, <1>4, <2>1 DEF Owned
    <2>. QED BY <1>0, <1>3, <1>4, <1>6, <2>2, <2>4, <2>5 DEF Owned
  <1>12. ASSUME NEW x \in Bots, x # b  PROVE  Joining(x)' /\ (SeenStays => Owned(x)')
    <2>1. \A K : ~Is(p, x, K)  BY <1>1, <1>12 DEF Is
    <2>2. place'[x] = place[x] /\ reply'[x] = reply[x] /\ left'["warps"] \in Nat
          /\ left'["warps"] <= left["warps"]
      BY <1>2, <1>3, <1>12
    <2>3. Joining(x)'  BY <1>1, <1>2, <1>4, <2>1, <2>2, JoiningElsewhere
    <2>. QED BY <1>1, <1>2, <1>4, <2>1, <2>2, <2>3, OwnedElsewhere
  <1>13. \A e \in Entities : ~Is(p, e, LifeKinds)  BY <1>1 DEF Is, LifeKinds
  <1>. QED BY <1>1, <1>2, <1>7, <1>8, <1>9, <1>10, <1>11, <1>12, <1>13, PlaceStep

(* Its data is sent.                                                       *)
LEMMA SendDataStep ==
  ASSUME IndInv, NEW b \in Bots, SendData(b)
  PROVE  IndInv'
  <1>. DEFINE p == Packet("CharacterData", b, {}, b \in dead)
  <1>0. TypeOK /\ InSight /\ Joining(b) /\ Owned(b)  BY DEF IndInv
  <1>1. /\ {b} \in SUBSET Bots /\ p \in PacketType /\ p.of = b /\ p.kind = "CharacterData"
        /\ p.buffs = {} /\ p.dead = (b \in dead)
    BY DEF Packet, PacketType, Entities
  <1>2. /\ link' = Told({b}, p) /\ place[b] = "away" /\ reply[b] # "none"
        /\ place' = [place EXCEPT ![b] = "loading"] /\ reply' = [reply EXCEPT ![b] = "none"]
        /\ UNCHANGED <<client, sight, holder, spent, dead, left, missed, lagged>>
    BY DEF SendData
  <1>. HIDE DEF p
  <1>3. /\ place'[b] = "loading" /\ \A x \in Bots : x # b => place'[x] = place[x]
        /\ reply'[b] = "none" /\ \A x \in Bots : x # b => reply'[x] = reply[x]
        /\ left["warps"] \in Nat /\ left'["warps"] = left["warps"]
    BY <1>0, <1>2 DEF TypeOK
  <1>4. UNCHANGED <<queue, entityMap, selfEntity, botSelf, made>>
    BY <1>2 DEF client, owns, world
  <1>5. /\ ~DataComing(b) /\ ~ResetComing(b)
        /\ ~Queued(b, "SelfSpawned") /\ ~Queued(b, "GameReset")
    BY <1>0, <1>2 DEF Joining, InStep, Away
  <1>6. DataComing(b)' /\ ~ResetComing(b)'
    <2>1. Is(p, b, {"CharacterData"}) /\ ~Is(p, b, {"GameReset"}) /\ b \in {b}  BY <1>1 DEF Is
    <2>. QED BY <1>0, <1>1, <1>2, <1>5, <2>1, ToldComes DEF DataComing, ResetComing
  <1>7. TypeOK'
    <2>1. link' \in [Bots -> Seq(PacketType)]  BY <1>0, <1>1, <1>2, ToldLinks
    <2>2. place' \in [Bots -> {"away", "loading", "in"}]  BY <1>0, <1>2 DEF TypeOK
    <2>3. reply' \in [Bots -> {"none", "joined", "gameResetComplete", "gameReady"}]
      BY <1>0, <1>2 DEF TypeOK
    <2>. QED BY <1>0, <1>2, <2>1, <2>2, <2>3 DEF TypeOK, client, world, owns
  <1>8. Proper(b, p)  BY <1>1 DEF Proper
  <1>9. Allowed({b}, p)
    BY <1>1, <1>2, <1>3 DEF Allowed, Sees, Enter, Leave
  <1>10. Joining(b)'
    <2>1. Single(link'[b], b, {"CharacterData", "GameReset"})
      BY <1>0, <1>1, <1>2, <1>5, NoneComes, ToldSingle DEF Joining
    <2>2. InStep(b)'  BY <1>3, <1>4, <1>5, <1>6 DEF InStep, Loading, Queued
    <2>. QED BY <1>0, <1>3, <1>4, <2>1, <2>2 DEF Joining
  <1>11. ASSUME SeenStays  PROVE  Owned(b)'
    <2>1. Seen(b, b)' <=> Seen(b, b)  BY <1>11 DEF SeenStays, Entities
    <2>2. selfEntity'[b] = IF Seen(b, b)' THEN entityMap'[b].number ELSE 0
      BY <1>0, <1>4, <2>1 DEF Owned
    <2>4. made'[b] + 1 + 0 <= 1 + MaxWarps - left'["warps"]
      <3>1. made[b] \in Nat /\ MaxWarps \in Nat
        BY <1>0, SharedWorldAssumption DEF TypeOK
      <3>2. made[b] + 0 + 1 <= 1 + MaxWarps - left["warps"]
        BY <1>0, <1>2, <1>5 DEF Owned
      <3>. QED BY <1>3, <1>4, <3>1, <3>2
    <2>5. /\ entityMap'[b].kind = "Self" => entityMap'[b].number \in 1..made'[b]
          /\ Seen(b, b)' => entityMap'[b].kind = "Self"
      BY <1>0, <1>4, <2>1 DEF Owned
    <2>. QED BY <1>0, <1>3, <1>4, <1>6, <2>2, <2>4, <2>5 DEF Owned
  <1>12. ASSUME NEW x \in Bots, x # b  PROVE  Joining(x)' /\ (SeenStays => Owned(x)')
    <2>1. \A K : ~Is(p, x, K)  BY <1>1, <1>12 DEF Is
    <2>2. place'[x] = place[x] /\ reply'[x] = reply[x] /\ left'["warps"] \in Nat
          /\ left'["warps"] <= left["warps"]
      BY <1>3, <1>12
    <2>3. Joining(x)'  BY <1>1, <1>2, <1>4, <2>1, <2>2, JoiningElsewhere
    <2>. QED BY <1>1, <1>2, <1>4, <2>1, <2>2, <2>3, OwnedElsewhere
  <1>13. \A e \in Entities : Is(p, e, LifeKinds) => p.dead = (e \in dead)  BY <1>1 DEF Is
  <1>14. p.kind # "Spawn"  BY <1>1
  <1>. QED BY <1>1, <1>2, <1>7, <1>8, <1>9, <1>10, <1>11, <1>12, <1>13, <1>14, PlaceStep

(* It arrives; nobody is told.                                             *)
LEMMA ArriveStep ==
  ASSUME IndInv, NEW b \in Bots, Arrive(b)
  PROVE  IndInv'
  <1>. DEFINE p == Packet("GameReset", b, {}, FALSE)
  <1>0. TypeOK /\ InSight /\ Joining(b) /\ Owned(b)  BY DEF IndInv
  <1>1. {} \in SUBSET Bots /\ p \in PacketType /\ p.of = b /\ p.kind = "GameReset" /\ p.buffs = {}
    BY DEF Packet, PacketType, Entities
  <1>2. /\ place[b] = "loading" /\ reply[b] = "gameReady"
        /\ place' = [place EXCEPT ![b] = "in"] /\ reply' = [reply EXCEPT ![b] = "none"]
        /\ UNCHANGED <<client, link, sight, holder, spent, dead, left, missed, lagged>>
    BY DEF Arrive
  <1>. HIDE DEF p
  <1>3. link' = Told({}, p)  BY <1>0, <1>2 DEF Told, TypeOK
  <1>4. /\ place'[b] = "in" /\ \A x \in Bots : x # b => place'[x] = place[x]
        /\ reply'[b] = "none" /\ \A x \in Bots : x # b => reply'[x] = reply[x]
        /\ left["warps"] \in Nat
    BY <1>0, <1>2 DEF TypeOK
  <1>5. UNCHANGED <<queue, link, entityMap, selfEntity, botSelf, made, left>>
    BY <1>2 DEF client, owns, world
  <1>6. TypeOK'
    <2>1. place' \in [Bots -> {"away", "loading", "in"}]  BY <1>0, <1>2 DEF TypeOK
    <2>2. reply' \in [Bots -> {"none", "joined", "gameResetComplete", "gameReady"}]
      BY <1>0, <1>2 DEF TypeOK
    <2>. QED BY <1>0, <1>2, <2>1, <2>2 DEF TypeOK, client, world, owns
  <1>7. Allowed({}, p)
    BY <1>2, <1>4 DEF Allowed, Sees
  <1>8. Joining(b)'
    <2>1. /\ ~DataComing(b) /\ ~ResetComing(b)
          /\ ~Queued(b, "SelfSpawned") /\ ~Queued(b, "GameReset")
      BY <1>0, <1>2 DEF Joining, InStep, Loading
    <2>2. InStep(b)'
      BY <1>4, <1>5, <2>1 DEF InStep, Inside, Queued, DataComing, ResetComing
    <2>. QED BY <1>0, <1>2, <1>5, <2>2 DEF Joining, Queued
  <1>9. ASSUME SeenStays  PROVE  Owned(b)'
    <2>1. Seen(b, b)' <=> Seen(b, b)  BY <1>9 DEF SeenStays, Entities
    <2>2. selfEntity'[b] = IF Seen(b, b)' THEN entityMap'[b].number ELSE 0
      BY <1>0, <1>5, <2>1 DEF Owned
    <2>3. made'[b] + (IF DataComing(b)' THEN 1 ELSE 0) + 0 <= 1 + MaxWarps - left'["warps"]
      BY <1>0, <1>2, <1>5 DEF Owned, DataComing
    <2>4. /\ entityMap'[b].kind = "Self" => entityMap'[b].number \in 1..made'[b]
          /\ Seen(b, b)' => entityMap'[b].kind = "Self"
      BY <1>0, <1>5, <2>1 DEF Owned
    <2>. QED BY <1>0, <1>4, <1>5, <2>2, <2>3, <2>4 DEF Owned
  <1>10. ASSUME NEW x \in Bots, x # b  PROVE  Joining(x)' /\ (SeenStays => Owned(x)')
    <2>1. \A K : ~Is(p, x, K)  BY <1>1, <1>10 DEF Is
    <2>2. place'[x] = place[x] /\ reply'[x] = reply[x] /\ left'["warps"] \in Nat
          /\ left'["warps"] <= left["warps"]
      BY <1>4, <1>5, <1>10
    <2>3. Joining(x)'  BY <1>1, <1>3, <1>5, <2>1, <2>2, JoiningElsewhere
    <2>. QED BY <1>1, <1>3, <1>5, <2>1, <2>2, <2>3, OwnedElsewhere
  <1>11. \A e \in Entities : ~Is(p, e, LifeKinds)  BY <1>1 DEF Is, LifeKinds
  <1>. QED BY <1>1, <1>2, <1>3, <1>6, <1>7, <1>8, <1>9, <1>10, <1>11, PlaceStep

(* The session of a character that is to join, and is not being told so,   *)
(* sees it.                                                                *)
LEMMA SelfIsSeen ==
  ASSUME InSight, NEW b \in Bots, place[b] # "away", ~DataComing(b), ~ResetComing(b)
  PROVE  Seen(b, b)
  <1>1. ~Comes(link[b], b, Enter \cup Leave, 0)
    BY DEF InSight, Proper, DataComing, ResetComing, Comes, Is, Enter, Leave
  <1>. QED BY <1>1, Zenon DEF Seen, Seeing, Sees

-----------------------------------------------------------------------------
(* A bot handles an event.                                                 *)

EventType == [kind : {"SelfSpawned", "GameReset", "EntityDespawned"}, of : Entities]
Handles(e) ==
  /\ queue # <<>> /\ e = queue[1] /\ queue' = Tail(queue)
  /\ UNCHANGED <<world, selfEntity, made, link, server, missed, lagged>>

LEMMA HandleFrame ==
  ASSUME IndInv, NEW e, Handles(e), UNCHANGED errors
  PROVE  /\ CountsAgree' /\ TokensAgree' /\ NoErrors'
         /\ InSight' /\ Counted' /\ OneHolder' /\ Events' /\ Objects' /\ SeenStays
         /\ \A f \in Entities : f \notin missed' => Known(f)'
  <1>0. /\ UNCHANGED <<entityMap, entityReferenceCountMap, buffTokenMap, link, place, sight,
                      holder, spent, dead, missed>>
        /\ queue \in Seq(EventType) /\ queue # <<>> /\ queue' = Tail(queue)
    BY DEF Handles, world, server, IndInv, TypeOK, EventType
  <1>1. \A s, f : Sees(s, f)' <=> Sees(s, f)  BY <1>0 DEF Sees
  <1>2. SeenStays  BY <1>0, <1>1, SameSeeing, Zenon DEF SeenStays, Seen
  <1>3. InSight'
    <2>1. \A s \in Bots : \A f \in Entities : Fitting(link'[s], Sees(s, f)', f)
      BY <1>0, <1>1, SameSeeing, Zenon DEF IndInv, InSight
    <2>. QED BY <1>0, <2>1 DEF IndInv, InSight
  <1>4. Counted'  BY <1>0, <1>2, SeenStaysCounted DEF IndInv
  <1>5. CountsAgree' /\ TokensAgree' /\ NoErrors'
    BY <1>0 DEF IndInv, CountsAgree, TokensAgree, Tracking, NoErrors
  <1>6. OneHolder'  BY <1>0 DEF IndInv, OneHolder, Mentions
  <1>7. Events'
    <2>. SUFFICES ASSUME NEW j \in DOMAIN queue', queue'[j].kind \in {"SelfSpawned", "GameReset"}
                  PROVE  queue'[j].of \in Bots
      BY DEF Events
    <2>1. j + 1 \in DOMAIN queue /\ queue'[j] = queue[j + 1]  BY <1>0, TailFacts
    <2>. QED BY <2>1 DEF IndInv, Events
  <1>9. Objects'  BY <1>0 DEF IndInv, Objects, Tracking
  <1>8. ASSUME NEW f \in Entities, f \notin missed'  PROVE  Known(f)'
    <2>1. Known(f)  BY <1>0, <1>8 DEF IndInv
    <2>2. LifeKnown(f)'  BY <1>0, <2>1, Zenon DEF Known, LifeKnown, Tracking
    <2>3. \A t \in Tokens : BuffKnown(f, t)'
      BY <1>0, <2>1 DEF Known, BuffKnown, GainKnown, LossKnown, Tracking
    <2>. QED BY <2>2, <2>3 DEF Known
  <1>. QED BY <1>2, <1>3, <1>4, <1>5, <1>6, <1>7, <1>8, <1>9

(* What is left of the queue.                                              *)
LEMMA QueueTail ==
  ASSUME TypeOK, queue # <<>>, queue' = Tail(queue), NEW b
  PROVE  /\ Single(queue, b, {"SelfSpawned", "GameReset"}) => Single(queue', b, {"SelfSpawned", "GameReset"})
         /\ Later(queue, b) => Later(queue', b)
         /\ \A k : Queued(b, k)' => Queued(b, k)
         /\ \A k : Queued(b, k) => Queued(b, k)' \/ Is(queue[1], b, {k})
  <1>0. queue \in Seq(EventType) /\ queue[1] \in EventType
    BY TailFacts DEF TypeOK, EventType
  <1>1. Single(queue, b, {"SelfSpawned", "GameReset"}) => Single(queue', b, {"SelfSpawned", "GameReset"})
    BY <1>0, SingleFacts
  <1>2. ASSUME Later(queue, b)  PROVE  Later(queue', b)
    <2>. SUFFICES ASSUME NEW i \in DOMAIN queue', NEW j \in DOMAIN queue',
                         Is(queue'[i], b, {"SelfSpawned"}), Is(queue'[j], b, {"EntityDespawned"})
                  PROVE  j < i
      BY DEF Later
    <2>1. /\ i + 1 \in DOMAIN queue /\ queue'[i] = queue[i + 1] /\ i \in Nat
          /\ j + 1 \in DOMAIN queue /\ queue'[j] = queue[j + 1] /\ j \in Nat
      BY <1>0, TailFacts
    <2>2. j + 1 < i + 1  BY <1>2, <2>1 DEF Later
    <2>. QED BY <2>1, <2>2
  <1>3. ASSUME NEW k
        PROVE  /\ Queued(b, k)' => Queued(b, k)
               /\ Queued(b, k) => Queued(b, k)' \/ Is(queue[1], b, {k})
    <2>1. 0 \in Nat /\ 0 + 1 = 1  OBVIOUS
    <2>2. /\ Comes(Tail(queue), b, {k}, 0) <=> Comes(queue, b, {k}, 0 + 1)
          /\ Comes(queue, b, {k}, 0) <=> Is(queue[1], b, {k}) \/ Comes(queue, b, {k}, 1)
      BY <1>0, <2>1, TailComes, Zenon
    <2>. QED BY <2>1, <2>2 DEF Queued
  <1>. QED BY <1>1, <1>2, <1>3

(* A character that the event is not about.                                *)
LEMMA HandleElsewhere ==
  ASSUME IndInv, NEW e, Handles(e), NEW b \in Bots, SeenStays,
         botSelf'[b] = botSelf[b] \/ (e.of = b /\ e.kind = "EntityDespawned" /\ botSelf'[b] = 0),
         reply'[b] = reply[b], ~Is(e, b, {"SelfSpawned", "GameReset"})
  PROVE  Joining(b)' /\ Owned(b)'
  <1>0. /\ TypeOK /\ Joining(b) /\ Owned(b) /\ queue # <<>> /\ e = queue[1] /\ queue' = Tail(queue)
        /\ UNCHANGED <<entityMap, link, place, selfEntity, made, left>>
    BY DEF Handles, world, server, IndInv
  <1>1. /\ Queued(b, "SelfSpawned")' <=> Queued(b, "SelfSpawned")
        /\ Queued(b, "GameReset")' <=> Queued(b, "GameReset")
        /\ Queued(b, "EntityDespawned")' => Queued(b, "EntityDespawned")
        /\ Later(queue, b) => Later(queue', b)
        /\ Single(queue', b, {"SelfSpawned", "GameReset"})
    BY <1>0, QueueTail DEF Joining, Is
  <1>2. UNCHANGED <<DataComing(b), ResetComing(b)>>  BY <1>0 DEF DataComing, ResetComing
  <1>3. InStep(b)'  BY <1>0, <1>1, <1>2 DEF Joining, InStep, Away, Loading, Inside
  <1>4. Later(queue', b)  BY <1>0, <1>1 DEF Joining, Later
  <1>5. ASSUME place'[b] = "in" \/ reply'[b] = "gameReady"
        PROVE  ~Queued(b, "EntityDespawned")' /\ botSelf'[b] = selfEntity'[b]
    <2>1. ~Queued(b, "EntityDespawned") /\ botSelf[b] = selfEntity[b]
      BY <1>0, <1>5 DEF Joining
    <2>2. ~(e.of = b /\ e.kind = "EntityDespawned")
      <3>1. queue \in Seq(EventType)  BY <1>0 DEF TypeOK, EventType
      <3>2. ~Is(queue[1], b, {"EntityDespawned"})
        BY <1>0, <2>1, <3>1, TailComes DEF Queued
      <3>. QED BY <1>0, <3>2 DEF Is
    <2>. QED BY <1>0, <1>1, <2>1, <2>2
  <1>6. Single(link'[b], b, {"CharacterData", "GameReset"})  BY <1>0 DEF Joining
  <1>7. Joining(b)'  BY <1>1, <1>3, <1>4, <1>5, <1>6 DEF Joining, Later
  <1>8. Owned(b)'
    <2>1. Seen(b, b)' <=> Seen(b, b)  BY DEF SeenStays, Entities
    <2>2. selfEntity'[b] = IF Seen(b, b)' THEN entityMap'[b].number ELSE 0
      BY <1>0, <2>1 DEF Owned
    <2>3. botSelf'[b] <= made'[b]  BY <1>0 DEF Owned, TypeOK
    <2>4. /\ entityMap'[b].kind = "Self" => entityMap'[b].number \in 1..made'[b]
          /\ Seen(b, b)' => entityMap'[b].kind = "Self"
      BY <1>0, <2>1 DEF Owned
    <2>. QED BY <1>0, <1>2, <2>2, <2>3, <2>4 DEF Owned
  <1>. QED BY <1>7, <1>8

LEMMA HandleStep ==
  ASSUME IndInv, Handle
  PROVE  IndInv'
  <1>. DEFINE e == queue[1]
  <1>0. /\ TypeOK /\ queue \in Seq(EventType) /\ e \in EventType /\ queue # <<>> /\ Handles(e)
        /\ Head(queue) = e /\ queue' = Tail(queue) /\ 1 \in DOMAIN queue
    <2>1. TypeOK /\ queue \in Seq(EventType) /\ queue # <<>>
      BY DEF IndInv, TypeOK, EventType, Handle
    <2>. QED BY <2>1, TailFacts DEF Handle, Handles
  <1>1. \/ e.kind = "SelfSpawned" /\ SelfSpawned(e.of)
        \/ e.kind = "GameReset" /\ GameReset(e.of)
        \/ e.kind = "EntityDespawned" /\ e.of \in Bots /\ SelfDespawned(e.of)
        \/ e.kind = "EntityDespawned" /\ e.of \notin Bots /\ UNCHANGED <<botSelf, reply, errors>>
    <2>1. e.kind \in {"SelfSpawned", "GameReset", "EntityDespawned"}  BY <1>0 DEF EventType
    <2>. QED BY <1>0, <2>1 DEF Handle
  <1>2. e.kind \in {"SelfSpawned", "GameReset"} => e.of \in Bots
    BY <1>0 DEF IndInv, Events
  <1>3. PICK x : x = e  OBVIOUS
  <1>. HIDE DEF e
  <1>4. /\ Handles(x) /\ x = queue[1]
        /\ UNCHANGED <<entityMap, link, place, selfEntity, made, left>>
    BY <1>0, <1>3 DEF Handles, world, server
  <1>5. \A k : Is(x, x.of, {k}) <=> k = x.kind  BY DEF Is
  <1>6. CASE x.kind = "SelfSpawned"
    <2>. DEFINE b == x.of
    <2>1. b \in Bots /\ SelfSpawned(b)  BY <1>1, <1>2, <1>3, <1>6
    <2>2. Joining(b) /\ Owned(b) /\ InSight  BY <2>1 DEF IndInv
    <2>3. Queued(b, "SelfSpawned")
      BY <1>0, <1>4, <1>6, TailComes DEF Queued, Is
    <2>4. place[b] = "loading" /\ ~DataComing(b) /\ ~ResetComing(b) /\ ~Queued(b, "GameReset")
      BY <2>2, <2>3 DEF Joining, InStep, Away, Loading, Inside
    <2>5. Seen(b, b)  BY <2>1, <2>2, <2>4, SelfIsSeen
    <2>6. b \in Entities /\ Tracking(b)  BY <2>1, <2>5, TrackedIsSeen DEF IndInv, Entities
    <2>7. /\ botSelf' = [botSelf EXCEPT ![b] = entityMap[b].number]
          /\ reply' = [reply EXCEPT ![b] = "gameReady"] /\ UNCHANGED errors
      BY <2>1, <2>6 DEF SelfSpawned
    <2>8. /\ botSelf'[b] = entityMap[b].number /\ reply'[b] = "gameReady"
          /\ \A c \in Bots : c # b => botSelf'[c] = botSelf[c] /\ reply'[c] = reply[c]
      BY <1>0, <2>1, <2>7 DEF TypeOK
    <2>9. TypeOK'
      <3>1. entityMap[b].number \in 0..(MaxWarps + 1)
        BY <1>0, <2>6 DEF TypeOK, Object
      <3>2. botSelf' \in [Bots -> 0..(MaxWarps + 1)] /\ reply' \in [Bots -> {"none", "joined", "gameResetComplete", "gameReady"}]
        BY <1>0, <2>7, <3>1 DEF TypeOK
      <3>3. queue' \in Seq(EventType)  BY <1>0, TailFacts
      <3>. QED BY <1>0, <1>4, <3>2, <3>3 DEF TypeOK, Handles, world, server, EventType
    <2>10. SeenStays /\ \A c \in Bots \ {b} : Joining(c)' /\ Owned(c)'
      <3>1. SeenStays  BY <1>4, <2>7, HandleFrame
      <3>2. \A c \in Bots \ {b} : ~Is(x, c, {"SelfSpawned", "GameReset"})  BY DEF Is
      <3>. QED BY <1>4, <2>8, <3>1, <3>2, HandleElsewhere
    <2>11. /\ ~Queued(b, "SelfSpawned")' /\ ~Queued(b, "GameReset")' /\ ~Queued(b, "EntityDespawned")'
           /\ Later(queue', b) /\ Single(queue', b, {"SelfSpawned", "GameReset"})
      <3>1. Is(queue[1], b, {"SelfSpawned"}) /\ Is(queue[1], b, {"SelfSpawned", "GameReset"})
        BY <1>4, <1>6 DEF Is
      <3>2. ~Comes(queue, b, {"SelfSpawned", "GameReset"}, 1)
        BY <1>0, <2>2, <3>1, SingleFacts DEF Joining
      <3>3. ~Comes(queue, b, {"EntityDespawned"}, 1)
        <4>1. \A j \in DOMAIN queue : Is(queue[j], b, {"EntityDespawned"}) => j < 1
          BY <1>0, <2>2, <3>1 DEF Joining, Later
        <4>2. \A j \in DOMAIN queue : j \in Nat  BY <1>0
        <4>. QED BY <4>1, <4>2 DEF Comes
      <3>4. ~Comes(queue, b, {"SelfSpawned"}, 1) /\ ~Comes(queue, b, {"GameReset"}, 1)
        BY <3>2 DEF Comes, Is
      <3>5. \A k : Comes(Tail(queue), b, {k}, 0) <=> Comes(queue, b, {k}, 1)
        <4>1. 0 \in Nat /\ 0 + 1 = 1  OBVIOUS
        <4>2. \A k : Comes(Tail(queue), b, {k}, 0) <=> Comes(queue, b, {k}, 0 + 1)
          BY <1>0, <4>1, TailComes, Zenon
        <4>. QED BY <4>1, <4>2
      <3>. QED BY <1>0, <2>2, <3>3, <3>4, <3>5, QueueTail DEF Queued, Joining, Later
    <2>12. Joining(b)'
      <3>1. InStep(b)'
        BY <1>4, <2>4, <2>8, <2>11 DEF InStep, Loading, DataComing, ResetComing
      <3>2. botSelf'[b] = selfEntity'[b]  BY <1>4, <2>2, <2>5, <2>8 DEF Owned
      <3>. QED BY <1>4, <2>2, <2>11, <3>1, <3>2 DEF Joining, Later
    <2>13. Owned(b)'
      <3>1. Seen(b, b)' <=> Seen(b, b)  BY <2>6, <2>1, <2>10 DEF SeenStays
      <3>2. selfEntity'[b] = IF Seen(b, b)' THEN entityMap'[b].number ELSE 0
        BY <1>4, <2>2, <3>1 DEF Owned
      <3>3. entityMap[b].kind = "Self" /\ entityMap[b].number \in 1..made[b]
        BY <2>2, <2>5 DEF Owned
      <3>4. botSelf'[b] <= made'[b] /\ entityMap'[b].kind = "Self" /\ entityMap'[b].number \in 1..made'[b]
        BY <1>0, <1>4, <2>1, <2>8, <3>3 DEF TypeOK
      <3>. QED BY <1>4, <2>2, <3>2, <3>4 DEF Owned, DataComing
    <2>. QED BY <1>4, <2>7, <2>9, <2>10, <2>12, <2>13, HandleFrame DEF IndInv
  <1>7. CASE x.kind = "GameReset"
    <2>. DEFINE b == x.of
    <2>1. b \in Bots /\ GameReset(b)  BY <1>1, <1>2, <1>3, <1>7
    <2>2. Joining(b) /\ Owned(b)  BY <2>1 DEF IndInv
    <2>3. Queued(b, "GameReset")
      BY <1>0, <1>4, <1>7, TailComes DEF Queued, Is
    <2>4. place[b] = "away" /\ ~DataComing(b) /\ ~ResetComing(b) /\ ~Queued(b, "SelfSpawned")
      BY <2>2, <2>3 DEF Joining, InStep, Away, Loading, Inside
    <2>5. reply' = [reply EXCEPT ![b] = "gameResetComplete"] /\ UNCHANGED <<botSelf, errors>>
      BY <2>1 DEF GameReset
    <2>6. reply'[b] = "gameResetComplete" /\ \A c \in Bots : c # b => reply'[c] = reply[c]
      BY <1>0, <2>1, <2>5 DEF TypeOK
    <2>7. TypeOK'
      <3>1. reply' \in [Bots -> {"none", "joined", "gameResetComplete", "gameReady"}]
        BY <1>0, <2>5 DEF TypeOK
      <3>2. queue' \in Seq(EventType)  BY <1>0, TailFacts
      <3>. QED BY <1>0, <1>4, <2>5, <3>1, <3>2 DEF TypeOK, Handles, world, server, EventType
    <2>8. SeenStays /\ \A c \in Bots \ {b} : Joining(c)' /\ Owned(c)'
      <3>1. SeenStays  BY <1>4, <2>5, HandleFrame
      <3>2. \A c \in Bots \ {b} : ~Is(x, c, {"SelfSpawned", "GameReset"})  BY DEF Is
      <3>. QED BY <1>4, <2>5, <2>6, <3>1, <3>2, HandleElsewhere
    <2>9. /\ ~Queued(b, "SelfSpawned")' /\ ~Queued(b, "GameReset")'
          /\ Later(queue', b) /\ Single(queue', b, {"SelfSpawned", "GameReset"})
      <3>1. Is(queue[1], b, {"SelfSpawned", "GameReset"})  BY <1>4, <1>7 DEF Is
      <3>2. ~Comes(queue, b, {"SelfSpawned", "GameReset"}, 1)
        BY <1>0, <2>2, <3>1, SingleFacts DEF Joining
      <3>3. ~Comes(queue, b, {"GameReset"}, 1)  BY <3>2 DEF Comes, Is
      <3>4. Comes(Tail(queue), b, {"GameReset"}, 0) <=> Comes(queue, b, {"GameReset"}, 1)
        <4>1. 0 \in Nat /\ 0 + 1 = 1  OBVIOUS
        <4>2. Comes(Tail(queue), b, {"GameReset"}, 0) <=> Comes(queue, b, {"GameReset"}, 0 + 1)
          BY <1>0, <4>1, TailComes, Zenon
        <4>. QED BY <4>1, <4>2
      <3>5. ~Queued(b, "GameReset")'  BY <1>0, <3>3, <3>4 DEF Queued
      <3>. QED BY <1>0, <2>2, <2>4, <3>5, QueueTail DEF Joining, Later
    <2>10. Joining(b)'
      <3>1. InStep(b)'
        BY <1>4, <2>4, <2>6, <2>9 DEF InStep, Away, DataComing, ResetComing
      <3>. QED BY <1>4, <2>2, <2>4, <2>6, <2>9, <3>1 DEF Joining, Later
    <2>11. Owned(b)'
      <3>1. Seen(b, b)' <=> Seen(b, b)  BY <2>1, <2>8 DEF SeenStays, Entities
      <3>2. selfEntity'[b] = IF Seen(b, b)' THEN entityMap'[b].number ELSE 0
        BY <1>4, <2>2, <3>1 DEF Owned
      <3>3. /\ entityMap'[b].kind = "Self" => entityMap'[b].number \in 1..made'[b]
            /\ Seen(b, b)' => entityMap'[b].kind = "Self"
        BY <1>4, <2>2, <3>1 DEF Owned
      <3>. QED BY <1>4, <2>2, <2>5, <3>2, <3>3 DEF Owned, DataComing
    <2>. QED BY <1>4, <2>5, <2>7, <2>8, <2>10, <2>11, HandleFrame DEF IndInv
  <1>8. CASE x.kind = "EntityDespawned"
    <2>1. UNCHANGED <<reply, errors>>  BY <1>1, <1>3, <1>8 DEF SelfDespawned
    <2>2. \A c \in Bots : botSelf'[c] = botSelf[c] \/ (x.of = c /\ x.kind = "EntityDespawned" /\ botSelf'[c] = 0)
      BY <1>0, <1>1, <1>3, <1>8 DEF SelfDespawned, TypeOK
    <2>3. TypeOK'
      <3>1. botSelf' \in [Bots -> 0..(MaxWarps + 1)]
        <4>1. 0 \in 0..(MaxWarps + 1)  BY SharedWorldAssumption
        <4>. QED BY <1>0, <1>1, <1>3, <1>8, <4>1 DEF SelfDespawned, TypeOK
      <3>2. queue' \in Seq(EventType)  BY <1>0, TailFacts
      <3>. QED BY <1>0, <1>4, <2>1, <3>1, <3>2 DEF TypeOK, Handles, world, server, EventType
    <2>4. SeenStays  BY <1>4, <2>1, HandleFrame
    <2>5. \A c \in Bots : Joining(c)' /\ Owned(c)'
      <3>1. \A c \in Bots : ~Is(x, c, {"SelfSpawned", "GameReset"})  BY <1>8 DEF Is
      <3>. QED BY <1>4, <2>1, <2>2, <2>4, <3>1, HandleElsewhere
    <2>. QED BY <1>4, <2>1, <2>3, <2>5, HandleFrame DEF IndInv
  <1>. QED BY <1>1, <1>3, <1>6, <1>7, <1>8

-----------------------------------------------------------------------------
(* A session reads a packet.                                               *)

LEMMA ReadComes ==
  ASSUME TypeOK, NEW s \in Bots, NEW p, Reads(s, p), NEW x \in Bots, NEW e, NEW K, NEW t
  PROVE  /\ Comes(link'[x], e, K, 0) => Comes(link[x], e, K, 0)
         /\ Comes(link[x], e, K, 0) => Comes(link'[x], e, K, 0) \/ (x = s /\ Is(p, e, K))
         /\ Brings(link'[x], e, K, t, 0) => Brings(link[x], e, K, t, 0)
         /\ Brings(link[x], e, K, t, 0) => Brings(link'[x], e, K, t, 0) \/ (x = s /\ Has(p, e, K, t))
  <1>0. /\ link[s] \in Seq(PacketType) /\ link[s] # <<>> /\ p = link[s][1]
        /\ link'[x] = IF x = s THEN Tail(link[s]) ELSE link[x]
    BY ReadLinks
  <1>1. CASE x # s  BY <1>0, <1>1
  <1>2. CASE x = s
    <2>1. 0 \in Nat /\ 0 + 1 = 1  OBVIOUS
    <2>2. /\ Comes(Tail(link[s]), e, K, 0) <=> Comes(link[s], e, K, 0 + 1)
          /\ Comes(link[s], e, K, 0) <=> Is(link[s][1], e, K) \/ Comes(link[s], e, K, 1)
      BY <1>0, <2>1, TailComes, Zenon
    <2>3. /\ Brings(Tail(link[s]), e, K, t, 0) <=> Brings(link[s], e, K, t, 0 + 1)
          /\ Brings(link[s], e, K, t, 0) <=> Has(link[s][1], e, K, t) \/ Brings(link[s], e, K, t, 1)
      BY <1>0, <2>1, TailBrings, Zenon
    <2>. QED BY <1>0, <1>2, <2>1, <2>2, <2>3
  <1>. QED BY <1>1, <1>2

(* What reading p may do to what is known of an entity.                    *)
LifeEffect(p, e) ==
  Tracking(e)' => \/ Is(p, e, LifeKinds) /\ entityMap'[e].dead = p.dead
                  \/ ~Is(p, e, {"LifeState"}) /\ Tracking(e) /\ entityMap'[e].dead = entityMap[e].dead
LossEffect(p, e, t) ==
  t \in entityMap'[e].buffs => \/ Has(p, e, GainKinds, t)
                               \/ t \in entityMap[e].buffs /\ ~Has(p, e, {"BuffRemove"}, t)
GainEffect(p, e, t) ==
  e \in Others /\ Tracking(e)' /\ t \notin entityMap'[e].buffs =>
    \/ Is(p, e, {"Spawn"}) /\ t \notin p.buffs
    \/ Tracking(e) /\ t \notin entityMap[e].buffs /\ ~Has(p, e, {"BuffAdd"}, t)
    \/ Has(p, e, {"BuffRemove"}, t)

LEMMA ReadLife ==
  ASSUME TypeOK, NEW s \in Bots, NEW p, Reads(s, p), NEW e, LifeKnown(e), LifeEffect(p, e)
  PROVE  LifeKnown(e)'
  <1>0. /\ link[s] \in Seq(PacketType) /\ link[s] # <<>> /\ p = link[s][1] /\ dead' = dead
        /\ \A x \in Bots : link'[x] = IF x = s THEN Tail(link[s]) ELSE link[x]
    BY ReadLinks DEF Reads, server
  <1>1. \A x \in Bots : LifeTold(link[x], e, e \in dead)  BY DEF LifeKnown
  <1>2. /\ LifeTold(Tail(link[s]), e, e \in dead)
        /\ Is(p, e, LifeKinds) => Comes(link'[s], e, {"LifeState"}, 0) \/ p.dead = (e \in dead)
    BY <1>0, <1>1, TailLifeTold, Zenon
  <1>3. \A x \in Bots : LifeTold(link'[x], e, e \in dead')  BY <1>0, <1>1, <1>2, Zenon
  <1>4. ASSUME Tracking(e)'
        PROVE  (\E x \in Bots : Comes(link'[x], e, {"LifeState"}, 0)) \/ entityMap'[e].dead = (e \in dead')
    <2>1. CASE Is(p, e, LifeKinds) /\ entityMap'[e].dead = p.dead
      BY <1>0, <1>2, <2>1, Zenon
    <2>2. CASE ~Is(p, e, {"LifeState"}) /\ Tracking(e) /\ entityMap'[e].dead = entityMap[e].dead
      <3>1. (\E x \in Bots : Comes(link[x], e, {"LifeState"}, 0)) \/ entityMap[e].dead = (e \in dead)
        BY <2>2, Zenon DEF LifeKnown
      <3>2. \A x \in Bots : Comes(link[x], e, {"LifeState"}, 0) => Comes(link'[x], e, {"LifeState"}, 0)
        BY <2>2, ReadComes, Zenon
      <3>. QED BY <1>0, <2>2, <3>1, <3>2, Zenon
    <2>. QED BY <1>4, <2>1, <2>2, Zenon DEF LifeEffect
  <1>. QED BY <1>3, <1>4, Zenon DEF LifeKnown

LEMMA ReadLoss ==
  ASSUME TypeOK, NEW s \in Bots, NEW p, Reads(s, p), NEW e, NEW t, LossKnown(e, t), LossEffect(p, e, t)
  PROVE  LossKnown(e, t)'
  <1>0. /\ link[s] \in Seq(PacketType) /\ link[s] # <<>> /\ p = link[s][1]
        /\ \A x \in Bots : link'[x] = IF x = s THEN Tail(link[s]) ELSE link[x]
    BY ReadLinks
  <1>1. \A x \in Bots : LossTold(link[x], e, t)  BY DEF LossKnown
  <1>2. /\ LossTold(Tail(link[s]), e, t)
        /\ Has(p, e, GainKinds, t) => Brings(link'[s], e, {"BuffRemove"}, t, 0)
    BY <1>0, <1>1, TailLossTold, Zenon
  <1>3. \A x \in Bots : LossTold(link'[x], e, t)  BY <1>0, <1>1, <1>2, Zenon
  <1>4. ASSUME t \in entityMap'[e].buffs
        PROVE  \E x \in Bots : Brings(link'[x], e, {"BuffRemove"}, t, 0)
    <2>1. CASE Has(p, e, GainKinds, t)  BY <1>2, <2>1
    <2>2. CASE t \in entityMap[e].buffs /\ ~Has(p, e, {"BuffRemove"}, t)
      <3>1. \E x \in Bots : Brings(link[x], e, {"BuffRemove"}, t, 0)
        BY <2>2 DEF LossKnown
      <3>. QED BY <2>2, <3>1, ReadComes, Zenon
    <2>. QED BY <1>4, <2>1, <2>2 DEF LossEffect
  <1>. QED BY <1>3, <1>4 DEF LossKnown

LEMMA ReadGain ==
  ASSUME TypeOK, NEW s \in Bots, NEW p, Reads(s, p), NEW e, NEW t, GainKnown(e, t), GainEffect(p, e, t)
  PROVE  GainKnown(e, t)'
  <1>0. /\ link[s] \in Seq(PacketType) /\ link[s] # <<>> /\ p = link[s][1]
        /\ \A x \in Bots : link'[x] = IF x = s THEN Tail(link[s]) ELSE link[x]
    BY ReadLinks
  <1>1. \A x \in Bots : GainTold(link[x], e, t)  BY DEF GainKnown
  <1>2. /\ GainTold(Tail(link[s]), e, t) /\ ~Has(p, e, {"BuffRemove"}, t)
        /\ e \in Others /\ Is(p, e, {"Spawn"}) =>
             t \in p.buffs \/ Brings(link'[s], e, {"BuffAdd"}, t, 0)
    BY <1>0, <1>1, TailGainTold, Zenon
  <1>3. \A x \in Bots : GainTold(link'[x], e, t)  BY <1>0, <1>1, <1>2, Zenon
  <1>4. ASSUME e \in Others, Tracking(e)', t \notin entityMap'[e].buffs
        PROVE  \E x \in Bots : Brings(link'[x], e, {"BuffAdd"}, t, 0)
    <2>1. CASE Is(p, e, {"Spawn"}) /\ t \notin p.buffs  BY <1>2, <1>4, <2>1
    <2>2. CASE Tracking(e) /\ t \notin entityMap[e].buffs /\ ~Has(p, e, {"BuffAdd"}, t)
      <3>1. \E x \in Bots : Brings(link[x], e, {"BuffAdd"}, t, 0)
        BY <1>4, <2>2 DEF GainKnown
      <3>. QED BY <2>2, <3>1, ReadComes, Zenon
    <2>. QED BY <1>2, <1>4, <2>1, <2>2 DEF GainEffect
  <1>. QED BY <1>3, <1>4, Zenon DEF GainKnown

(* What reading p does to the world.                                       *)
WorldEffect(s, p) ==
  /\ entityMap' \in [Entities -> Object] /\ entityReferenceCountMap' \in [Entities -> Int]
  /\ buffTokenMap' \in [Tokens -> Entities \cup {Nobody}]
  /\ \A e \in Entities : entityReferenceCountMap'[e] = entityReferenceCountMap[e]
        + (IF Is(p, e, Enter) THEN 1 ELSE IF Is(p, e, Leave) THEN -1 ELSE 0)
  /\ CountsAgree' /\ TokensAgree' /\ Objects' /\ UNCHANGED errors
  /\ \A t \in Tokens : \A e \in Entities : buffTokenMap'[t] = e => Mentions(t, e)
  /\ \A e \in Entities : LifeEffect(p, e)
  /\ \A t \in Tokens : \A e \in Entities : LossEffect(p, e, t) /\ GainEffect(p, e, t)

LEMMA ReadWorld ==
  ASSUME IndInv, NEW s \in Bots, NEW p, Reads(s, p), WorldEffect(s, p)
  PROVE  /\ CountsAgree' /\ TokensAgree' /\ NoErrors' /\ InSight' /\ Counted' /\ OneHolder'
         /\ Objects' /\ \A e \in Entities : e \notin missed' => Known(e)'
  <1>0. TypeOK /\ InSight /\ Counted /\ OneHolder  BY DEF IndInv
  <1>1. CountsAgree' /\ TokensAgree' /\ NoErrors' /\ Objects'
    BY DEF WorldEffect, IndInv, NoErrors
  <1>2. InSight' /\ SeenMoves(s, p) /\ (Seen(s, p.of) <=> p.kind \notin Enter)
    BY <1>0, ReadSight
  <1>3. Counted'
    <2>1. \A e \in Entities : Cardinality(Watchers(e))' = entityReferenceCountMap'[e]
      BY <1>0, <1>2, ReadCounts DEF WorldEffect
    <2>. QED BY <2>1 DEF Counted
  <1>4. UNCHANGED <<holder, spent, dead, missed>>  BY DEF Reads, server
  <1>5. OneHolder'
    <2>1. ASSUME NEW t \in Tokens, NEW e \in Entities, Mentions(t, e)'
          PROVE  Mentions(t, e)
      <3>1. CASE holder'[t] = e \/ buffTokenMap'[t] = e
        BY <1>4, <3>1 DEF WorldEffect, Mentions
      <3>2. ASSUME NEW x \in Bots, NEW i \in DOMAIN link'[x], link'[x][i].of = e, t \in link'[x][i].buffs
            PROVE  Mentions(t, e)
        <4>1. /\ link[s] \in Seq(PacketType) /\ link[s] # <<>>
              /\ link'[x] = IF x = s THEN Tail(link[s]) ELSE link[x]
          BY <1>0, ReadLinks
        <4>2. CASE x = s
          <5>1. link'[x] = Tail(link[s])  BY <4>1, <4>2
          <5>2. i \in DOMAIN Tail(link[s])  BY <3>2, <5>1
          <5>3. i + 1 \in DOMAIN link[s] /\ Tail(link[s])[i] = link[s][i + 1]
            BY ONLY <4>1, <5>2, TailFacts
          <5>. QED BY <3>2, <5>1, <5>3 DEF Mentions
        <4>3. CASE x # s  BY <3>2, <4>1, <4>3 DEF Mentions
        <4>. QED BY <4>2, <4>3
      <3>. QED BY <2>1, <3>1, <3>2 DEF Mentions
    <2>. QED BY <1>0, <1>4, <2>1, HolderStays
  <1>6. ASSUME NEW e \in Entities, e \notin missed'  PROVE  Known(e)'
    <2>1. Known(e)  BY <1>4, <1>6 DEF IndInv
    <2>2. LifeKnown(e)'  BY <1>0, <2>1, ReadLife DEF Known, WorldEffect
    <2>3. ASSUME NEW t \in Tokens  PROVE  BuffKnown(e, t)'
      <3>1. LossEffect(p, e, t) /\ GainEffect(p, e, t)  BY DEF WorldEffect
      <3>2. CASE holder[t] = e
        <4>1. GainKnown(e, t) /\ holder'[t] = e  BY <1>4, <2>1, <3>2 DEF Known, BuffKnown
        <4>2. GainKnown(e, t)'  BY <1>0, <3>1, <4>1, ReadGain
        <4>. QED BY <4>1, <4>2 DEF BuffKnown
      <3>3. CASE holder[t] # e
        <4>1. LossKnown(e, t) /\ holder'[t] # e  BY <1>4, <2>1, <3>3 DEF Known, BuffKnown
        <4>2. LossKnown(e, t)'  BY <1>0, <3>1, <4>1, ReadLoss
        <4>. QED BY <4>1, <4>2 DEF BuffKnown
      <3>. QED BY <3>2, <3>3
    <2>. QED BY <2>2, <2>3 DEF Known
  <1>. QED BY <1>1, <1>2, <1>3, <1>5, <1>6

(* What is so when session s is to read p.                                 *)
LEMMA ReadFacts ==
  ASSUME IndInv, NEW s \in Bots, NEW p, Reads(s, p)
  PROVE  /\ p \in PacketType /\ p.of \in Entities /\ p.buffs \subseteq Tokens /\ Proper(s, p)
         /\ \A e \in Entities : /\ entityReferenceCountMap[e] \in Nat
                                /\ Tracking(e) <=> entityReferenceCountMap[e] # 0
                                /\ ~Tracking(e) => entityMap[e].buffs = {}
         /\ p.kind \notin Enter => Tracking(p.of)
         /\ \A t \in p.buffs : Mentions(t, p.of) /\ buffTokenMap[t] \in {Nobody, p.of}
  <1>0. TypeOK /\ InSight /\ Counted /\ CountsAgree /\ OneHolder  BY DEF IndInv
  <1>1. p \in PacketType /\ p = link[s][1] /\ 1 \in DOMAIN link[s]  BY <1>0, ReadLinks
  <1>2. p.of \in Entities /\ p.buffs \subseteq Tokens  BY <1>1 DEF PacketType
  <1>3. Proper(s, p) /\ (Seen(s, p.of) <=> p.kind \notin Enter)  BY <1>0, ReadSight
  <1>4. \A e \in Entities : /\ entityReferenceCountMap[e] \in Nat
                            /\ Tracking(e) <=> entityReferenceCountMap[e] # 0
                            /\ ~Tracking(e) => entityMap[e].buffs = {}
    BY <1>0, TrackedIsSeen DEF Tracking, NoEntity
  <1>5. p.kind \notin Enter => Tracking(p.of)
    BY <1>0, <1>2, <1>3, TrackedIsSeen
  <1>6. ASSUME NEW t \in p.buffs
        PROVE  Mentions(t, p.of) /\ buffTokenMap[t] \in {Nobody, p.of}
    <2>1. Mentions(t, p.of)  BY <1>1 DEF Mentions
    <2>2. t \in Tokens /\ buffTokenMap[t] \in Entities \cup {Nobody}
      BY <1>0, <1>2 DEF TypeOK
    <2>3. ASSUME NEW f \in Entities, buffTokenMap[t] = f  PROVE  f = p.of
      <3>1. Mentions(t, f)  BY <2>3 DEF Mentions
      <3>. QED BY <1>0, <1>2, <2>1, <2>2, <3>1 DEF OneHolder
    <2>. QED BY <2>1, <2>2, <2>3
  <1>. QED BY <1>1, <1>2, <1>3, <1>4, <1>5, <1>6

(* A token that is known is one that is mentioned.                         *)
LEMMA KnownIsMentioned ==
  ASSUME NEW p, \A t \in p.buffs : Mentions(t, p.of),
         \A t \in Tokens : \/ buffTokenMap'[t] = buffTokenMap[t]
                           \/ buffTokenMap'[t] = Nobody
                           \/ t \in p.buffs /\ buffTokenMap'[t] = p.of
  PROVE  \A t \in Tokens : \A e \in Entities : buffTokenMap'[t] = e => Mentions(t, e)
  BY SharedWorldAssumption DEF Mentions, Entities

(* Something comes into the session's sight.                               *)
LEMMA SpawnEffect ==
  ASSUME IndInv, NEW s \in Bots, NEW p, Reads(s, p), p.kind \in Enter,
         NEW object \in Object, object.kind # "none", object.dead = p.dead,
         object.buffs = IF p.kind = "Spawn" THEN p.buffs ELSE {},
         NEW news, EntitySpawned(p.of, object, news), UNCHANGED errors
  PROVE  /\ WorldEffect(s, p) /\ queue' = queue \o news
         /\ \A e \in Entities : e # p.of => entityMap'[e] = entityMap[e]
         /\ entityMap'[p.of] = IF Tracking(p.of) THEN entityMap[p.of] ELSE object
  <1>. DEFINE o == p.of
  <1>0. /\ entityMap \in [Entities -> Object] /\ entityReferenceCountMap \in [Entities -> Int]
        /\ buffTokenMap \in [Tokens -> Entities \cup {Nobody}]
        /\ CountsAgree /\ TokensAgree /\ Objects /\ OneHolder
    BY DEF IndInv, TypeOK
  <1>1. /\ p \in PacketType /\ o \in Entities /\ p.buffs \subseteq Tokens /\ Proper(s, p)
        /\ \A e \in Entities : /\ entityReferenceCountMap[e] \in Nat
                               /\ Tracking(e) <=> entityReferenceCountMap[e] # 0
                               /\ ~Tracking(e) => entityMap[e].buffs = {}
        /\ \A t \in p.buffs : Mentions(t, o) /\ buffTokenMap[t] \in {Nobody, o}
    BY ReadFacts
  <1>2. /\ entityReferenceCountMap' = [entityReferenceCountMap EXCEPT ![o] = @ + 1]
        /\ queue' = queue \o news
        /\ IF Tracking(o)
             THEN UNCHANGED <<entityMap, buffTokenMap>>
             ELSE /\ entityMap' = [entityMap EXCEPT ![o] = object]
                  /\ buffTokenMap' =
                       [t \in Tokens |-> IF t \in object.buffs /\ buffTokenMap[t] = Nobody
                                         THEN o ELSE buffTokenMap[t]]
    <2>1. /\ entityReferenceCountMap' = [entityReferenceCountMap EXCEPT ![o] = @ + 1]
          /\ entityReferenceCountMap'[o] = entityReferenceCountMap[o] + 1
      BY <1>0, <1>1 DEF EntitySpawned
    <2>2. (entityReferenceCountMap'[o] <= 1 /\ ~Tracking(o)) <=> ~Tracking(o)
      BY <1>1, <2>1
    <2>. QED BY <2>1, <2>2 DEF EntitySpawned
  <1>3. \A e \in Entities : /\ Is(p, e, Enter) <=> e = o
                            /\ ~Is(p, e, Leave) /\ ~Is(p, e, {"LifeState"})
                            /\ \A t : ~Has(p, e, {"BuffAdd"}, t) /\ ~Has(p, e, {"BuffRemove"}, t)
    BY DEF Is, Has, Enter, Leave
  <1>4. Is(p, o, LifeKinds)  BY DEF Is, Enter, LifeKinds
  <1>5. \A t \in object.buffs : t \in p.buffs /\ Has(p, o, GainKinds, t)
    BY DEF Has, Is, GainKinds
  <1>6. o \in Others => Is(p, o, {"Spawn"}) /\ object.buffs = p.buffs
    BY <1>1, SharedWorldAssumption DEF Proper, Is, Enter
  <1>7. \A e \in Entities : entityReferenceCountMap'[e] = entityReferenceCountMap[e]
          + (IF Is(p, e, Enter) THEN 1 ELSE IF Is(p, e, Leave) THEN -1 ELSE 0)
    BY <1>0, <1>1, <1>2, <1>3
  <1>8. entityReferenceCountMap' \in [Entities -> Int]  BY <1>0, <1>1, <1>2
  <1>9. CASE Tracking(o)
    <2>1. UNCHANGED <<entityMap, buffTokenMap>>  BY <1>2, <1>9
    <2>2. CountsAgree' /\ TokensAgree' /\ Objects'
      BY <1>0, <1>1, <1>2, <1>9, <2>1 DEF CountsAgree, TokensAgree, Objects, Tracking
    <2>3. \A t \in Tokens : \A e \in Entities : buffTokenMap'[t] = e => Mentions(t, e)
      BY <2>1 DEF Mentions
    <2>4. \A e \in Entities : LifeEffect(p, e)
      BY <1>3, <2>1 DEF LifeEffect, Tracking
    <2>5. \A t \in Tokens : \A e \in Entities : LossEffect(p, e, t) /\ GainEffect(p, e, t)
      BY <1>3, <2>1 DEF LossEffect, GainEffect, Tracking
    <2>. QED BY <1>0, <1>2, <1>7, <1>8, <1>9, <2>1, <2>2, <2>3, <2>4, <2>5 DEF WorldEffect
  <1>10. CASE ~Tracking(o)
    <2>1. /\ entityMap' = [entityMap EXCEPT ![o] = object]
          /\ buffTokenMap' = [t \in Tokens |-> IF t \in object.buffs /\ buffTokenMap[t] = Nobody
                                               THEN o ELSE buffTokenMap[t]]
      BY <1>2, <1>10
    <2>2. entityMap'[o] = object /\ \A e \in Entities : e # o => entityMap'[e] = entityMap[e]
      BY <1>0, <1>1, <2>1
    <2>3. entityMap[o].buffs = {}  BY <1>1, <1>10
    <2>4. \A t \in object.buffs : buffTokenMap[t] = Nobody
      <3>. SUFFICES ASSUME NEW t \in object.buffs, buffTokenMap[t] = o  PROVE FALSE
        BY <1>1, <1>5
      <3>1. t \in entityMap[o].buffs  BY <1>0, <1>1, <1>5 DEF TokensAgree
      <3>. QED BY <2>3, <3>1
    <2>5. /\ \A t \in object.buffs : buffTokenMap'[t] = o
          /\ \A t \in Tokens \ object.buffs : buffTokenMap'[t] = buffTokenMap[t]
      BY <1>1, <1>5, <2>1, <2>4
    <2>6. Tracking(o)'  BY <2>2 DEF Tracking, NoEntity
    <2>7. CountsAgree'
      <3>1. entityReferenceCountMap'[o] > 0  BY <1>0, <1>1, <1>2
      <3>2. \A e \in Entities : e # o => entityReferenceCountMap'[e] = entityReferenceCountMap[e]
        BY <1>0, <1>1, <1>2
      <3>. QED BY <1>0, <2>2, <2>6, <3>1, <3>2 DEF CountsAgree, Tracking
    <2>8. TokensAgree'
      <3>1. ASSUME NEW t \in Tokens  PROVE  t \in entityMap'[o].buffs <=> buffTokenMap'[t] = o
        BY <1>0, <1>1, <2>2, <2>3, <2>5 DEF TokensAgree
      <3>2. ASSUME NEW t \in Tokens, NEW e \in Entities, e # o
            PROVE  t \in entityMap'[e].buffs <=> buffTokenMap'[t] = e
        <4>1. e # Nobody  BY SharedWorldAssumption DEF Entities
        <4>. QED BY <1>0, <2>2, <2>4, <2>5, <3>2, <4>1 DEF TokensAgree
      <3>. QED BY <3>1, <3>2 DEF TokensAgree
    <2>9. Objects'  BY <1>0, <2>2 DEF Objects, Tracking
    <2>10. \A t \in Tokens : \A e \in Entities : buffTokenMap'[t] = e => Mentions(t, e)
      BY <1>1, <1>5, <2>5, KnownIsMentioned
    <2>11. \A e \in Entities : LifeEffect(p, e)
      BY <1>3, <1>4, <2>2 DEF LifeEffect, Tracking
    <2>12. \A t \in Tokens : \A e \in Entities : LossEffect(p, e, t)
      BY <1>3, <1>5, <2>2 DEF LossEffect
    <2>13. \A t \in Tokens : \A e \in Entities : GainEffect(p, e, t)
      BY <1>3, <1>6, <2>2 DEF GainEffect, Tracking
    <2>14. entityMap' \in [Entities -> Object]  BY <1>0, <2>1
    <2>15. buffTokenMap' \in [Tokens -> Entities \cup {Nobody}]  BY <1>0, <1>1, <2>1
    <2>. QED BY <1>2, <1>7, <1>8, <1>10, <2>2, <2>7, <2>8, <2>9, <2>10, <2>11, <2>12, <2>13, <2>14, <2>15
             DEF WorldEffect
  <1>. QED BY <1>9, <1>10

(* Something goes out of the session's sight.                              *)
LEMMA DespawnEffect ==
  ASSUME IndInv, NEW s \in Bots, NEW p, Reads(s, p), p.kind \in Leave,
         NEW news, EntityDespawned(p.of, news)
  PROVE  /\ WorldEffect(s, p)
         /\ queue' = IF entityReferenceCountMap[p.of] = 1
                       THEN Append(queue, Event("EntityDespawned", p.of)) \o news
                       ELSE queue \o news
         /\ \A e \in Entities : e # p.of \/ entityReferenceCountMap[p.of] # 1 => entityMap'[e] = entityMap[e]
         /\ entityReferenceCountMap[p.of] = 1 => ~Tracking(p.of)'
  <1>. DEFINE o == p.of
  <1>0. /\ entityMap \in [Entities -> Object] /\ entityReferenceCountMap \in [Entities -> Int]
        /\ buffTokenMap \in [Tokens -> Entities \cup {Nobody}]
        /\ CountsAgree /\ TokensAgree /\ Objects /\ OneHolder
    BY DEF IndInv, TypeOK
  <1>1. /\ p \in PacketType /\ o \in Entities /\ Proper(s, p) /\ Tracking(o)
        /\ \A e \in Entities : /\ entityReferenceCountMap[e] \in Nat
                               /\ Tracking(e) <=> entityReferenceCountMap[e] # 0
        /\ \A t \in p.buffs : Mentions(t, o)
    BY ReadFacts DEF Enter, Leave
  <1>2. /\ entityReferenceCountMap' = [entityReferenceCountMap EXCEPT ![o] = @ - 1]
        /\ entityReferenceCountMap[o] >= 1
        /\ entityReferenceCountMap'[o] = entityReferenceCountMap[o] - 1
        /\ entityReferenceCountMap'[o] = 0 <=> entityReferenceCountMap[o] = 1
    BY <1>0, <1>1 DEF EntityDespawned
  <1>3. \A e \in Entities : /\ Is(p, e, Leave) <=> e = o
                            /\ ~Is(p, e, Enter) /\ ~Is(p, e, {"LifeState"})
                            /\ \A t : ~Has(p, e, {"BuffAdd"}, t) /\ ~Has(p, e, {"BuffRemove"}, t)
    BY DEF Is, Has, Enter, Leave
  <1>7. \A e \in Entities : entityReferenceCountMap'[e] = entityReferenceCountMap[e]
          + (IF Is(p, e, Enter) THEN 1 ELSE IF Is(p, e, Leave) THEN -1 ELSE 0)
    BY <1>0, <1>1, <1>2, <1>3
  <1>8. entityReferenceCountMap' \in [Entities -> Int]  BY <1>0, <1>1, <1>2
  <1>9. CASE entityReferenceCountMap[o] # 1
    <2>1. UNCHANGED <<entityMap, buffTokenMap, errors>> /\ queue' = queue \o news
      BY <1>2, <1>9 DEF EntityDespawned
    <2>2. CountsAgree' /\ TokensAgree' /\ Objects'
      <3>1. entityReferenceCountMap'[o] > 0  BY <1>1, <1>2, <1>9
      <3>2. \A e \in Entities : e # o => entityReferenceCountMap'[e] = entityReferenceCountMap[e]
        BY <1>0, <1>1, <1>2
      <3>. QED BY <1>0, <1>1, <2>1, <3>1, <3>2 DEF CountsAgree, TokensAgree, Objects, Tracking
    <2>3. \A t \in Tokens : \A e \in Entities : buffTokenMap'[t] = e => Mentions(t, e)
      BY <2>1 DEF Mentions
    <2>4. \A e \in Entities : LifeEffect(p, e)
      BY <1>3, <2>1 DEF LifeEffect, Tracking
    <2>5. \A t \in Tokens : \A e \in Entities : LossEffect(p, e, t) /\ GainEffect(p, e, t)
      BY <1>3, <2>1 DEF LossEffect, GainEffect, Tracking
    <2>. QED BY <1>0, <1>7, <1>8, <1>9, <2>1, <2>2, <2>3, <2>4, <2>5 DEF WorldEffect
  <1>10. CASE entityReferenceCountMap[o] = 1
    <2>1. /\ entityMap' = [entityMap EXCEPT ![o] = NoEntity]
          /\ buffTokenMap' = [t \in Tokens |-> IF buffTokenMap[t] = o THEN Nobody ELSE buffTokenMap[t]]
          /\ queue' = Append(queue, Event("EntityDespawned", o)) \o news
          /\ UNCHANGED errors
      BY <1>1, <1>2, <1>10 DEF EntityDespawned
    <2>2. entityMap'[o] = NoEntity /\ \A e \in Entities : e # o => entityMap'[e] = entityMap[e]
      BY <1>0, <1>1, <2>1
    <2>3. NoEntity \in Object /\ NoEntity.buffs = {}
      BY SharedWorldAssumption DEF NoEntity, Object
    <2>7. CountsAgree'
      <3>1. ~(entityReferenceCountMap'[o] > 0)  BY <1>2, <1>10
      <3>2. \A e \in Entities : e # o => entityReferenceCountMap'[e] = entityReferenceCountMap[e]
        BY <1>0, <1>1, <1>2
      <3>. QED BY <1>0, <2>2, <3>1, <3>2 DEF CountsAgree, Tracking
    <2>8. TokensAgree'
      <3>1. o # Nobody  BY <1>1, SharedWorldAssumption DEF Entities
      <3>2. ASSUME NEW t \in Tokens  PROVE  t \in entityMap'[o].buffs <=> buffTokenMap'[t] = o
        BY <1>0, <1>1, <2>1, <2>2, <2>3, <3>1
      <3>3. ASSUME NEW t \in Tokens, NEW e \in Entities, e # o
            PROVE  t \in entityMap'[e].buffs <=> buffTokenMap'[t] = e
        <4>1. e # Nobody  BY SharedWorldAssumption DEF Entities
        <4>. QED BY <1>0, <2>1, <2>2, <3>3, <4>1 DEF TokensAgree
      <3>. QED BY <3>2, <3>3 DEF TokensAgree
    <2>9. Objects'  BY <1>0, <2>2 DEF Objects, Tracking
    <2>10. \A t \in Tokens : \A e \in Entities : buffTokenMap'[t] = e => Mentions(t, e)
      BY <1>1, <2>1, KnownIsMentioned
    <2>11. \A e \in Entities : LifeEffect(p, e)
      BY <1>3, <2>2 DEF LifeEffect, Tracking
    <2>12. \A t \in Tokens : \A e \in Entities : LossEffect(p, e, t) /\ GainEffect(p, e, t)
      BY <1>3, <2>2, <2>3 DEF LossEffect, GainEffect, Tracking
    <2>14. entityMap' \in [Entities -> Object]  BY <1>0, <2>1, <2>3
    <2>15. buffTokenMap' \in [Tokens -> Entities \cup {Nobody}]  BY <1>0, <1>1, <2>1
    <2>. QED BY <1>7, <1>8, <1>10, <2>1, <2>2, <2>7, <2>8, <2>9, <2>10, <2>11, <2>12, <2>14, <2>15
             DEF WorldEffect, Tracking
  <1>. QED BY <1>9, <1>10

(* Something happens to what the session sees.                             *)
SelvesStay ==
  \A e \in Entities : /\ Tracking(e)' <=> Tracking(e)
                      /\ entityMap'[e].kind = entityMap[e].kind
                      /\ entityMap'[e].number = entityMap[e].number

LEMMA BuffAddEffect ==
  ASSUME IndInv, NEW s \in Bots, NEW p, Reads(s, p), p.kind = "BuffAdd",
         \E t \in p.buffs : AddBuff(p.of, t), UNCHANGED entityReferenceCountMap
  PROVE  WorldEffect(s, p) /\ SelvesStay
  <1>. DEFINE o == p.of
  <1>0. /\ entityMap \in [Entities -> Object] /\ entityReferenceCountMap \in [Entities -> Int]
        /\ buffTokenMap \in [Tokens -> Entities \cup {Nobody}]
        /\ CountsAgree /\ TokensAgree /\ Objects
    BY DEF IndInv, TypeOK
  <1>1. /\ p \in PacketType /\ o \in Entities /\ Proper(s, p) /\ Tracking(o) /\ p.buffs \subseteq Tokens
        /\ \A e \in Entities : entityReferenceCountMap[e] \in Nat
        /\ \A t \in p.buffs : Mentions(t, o) /\ buffTokenMap[t] \in {Nobody, o}
    BY ReadFacts DEF Enter
  <1>2. PICK u \in p.buffs : AddBuff(o, u)  OBVIOUS
  <1>3. u \in Tokens /\ p.buffs = {u}  BY <1>1 DEF Proper
  <1>4. /\ buffTokenMap' = [buffTokenMap EXCEPT ![u] = o]
        /\ entityMap' = [entityMap EXCEPT ![o] = [entityMap[o] EXCEPT !.buffs = entityMap[o].buffs \cup {u}]]
        /\ UNCHANGED errors
    <2>1. (IF buffTokenMap[u] = Nobody THEN o ELSE buffTokenMap[u]) = o  BY <1>1
    <2>. QED BY <1>0, <1>1, <1>2, <2>1 DEF AddBuff
  <1>5. /\ \A e \in Entities : e # o => entityMap'[e] = entityMap[e]
        /\ entityMap'[o] = [entityMap[o] EXCEPT !.buffs = entityMap[o].buffs \cup {u}]
    BY <1>0, <1>1, <1>4
  <1>6. entityMap[o] \in Object  BY <1>0, <1>1
  <1>7. /\ entityMap'[o].kind = entityMap[o].kind /\ entityMap'[o].dead = entityMap[o].dead
        /\ entityMap'[o].buffs = entityMap[o].buffs \cup {u} /\ entityMap'[o] \in Object
    BY <1>3, <1>5, <1>6 DEF Object
  <1>8. entityMap[o].kind # "none" /\ Tracking(o)'
    <2>1. entityMap[o].kind # "none"  BY <1>0, <1>1 DEF Objects
    <2>. QED BY <2>1, <1>7 DEF Tracking, NoEntity
  <1>9. CountsAgree' /\ Objects'
    BY <1>0, <1>1, <1>5, <1>7, <1>8 DEF CountsAgree, Objects, Tracking
  <1>10. TokensAgree'
    <2>1. ASSUME NEW t \in Tokens, NEW e \in Entities, t # u
          PROVE  t \in entityMap'[e].buffs <=> buffTokenMap'[t] = e
      BY <1>0, <1>4, <1>5, <1>7, <2>1 DEF TokensAgree
    <2>2. ASSUME NEW e \in Entities
          PROVE  u \in entityMap'[e].buffs <=> buffTokenMap'[u] = e
      <3>1. buffTokenMap'[u] = o  BY <1>0, <1>3, <1>4
      <3>2. CASE e = o  BY <1>7, <3>1, <3>2
      <3>3. CASE e # o
        <4>1. buffTokenMap[u] # e  BY <1>1, <3>3, SharedWorldAssumption DEF Entities
        <4>. QED BY <1>0, <1>3, <1>5, <3>1, <3>3, <4>1 DEF TokensAgree
      <3>. QED BY <3>2, <3>3
    <2>. QED BY <2>1, <2>2 DEF TokensAgree
  <1>11. \A e \in Entities : ~Is(p, e, Enter) /\ ~Is(p, e, Leave) /\ ~Is(p, e, {"LifeState"})
    BY DEF Is, Enter, Leave
  <1>12. /\ Has(p, o, GainKinds, u)
         /\ \A t, e : ~Has(p, e, {"BuffRemove"}, t) /\ (Has(p, e, {"BuffAdd"}, t) => e = o /\ t = u)
    BY <1>3 DEF Has, Is, GainKinds
  <1>13. \A t \in Tokens : \A e \in Entities : buffTokenMap'[t] = e => Mentions(t, e)
    <2>1. \A t \in Tokens : buffTokenMap'[t] = buffTokenMap[t] \/ (t \in p.buffs /\ buffTokenMap'[t] = o)
      BY <1>0, <1>4
    <2>. QED BY <1>1, <2>1, KnownIsMentioned
  <1>14. \A e \in Entities : LifeEffect(p, e)
    BY <1>5, <1>7, <1>8, <1>1, <1>11 DEF LifeEffect, Tracking
  <1>15. \A t \in Tokens : \A e \in Entities : LossEffect(p, e, t)
    BY <1>5, <1>7, <1>12 DEF LossEffect
  <1>16. \A t \in Tokens : \A e \in Entities : GainEffect(p, e, t)
    BY <1>1, <1>5, <1>7, <1>12 DEF GainEffect, Tracking
  <1>17. entityMap' \in [Entities -> Object] /\ buffTokenMap' \in [Tokens -> Entities \cup {Nobody}]
    BY <1>0, <1>1, <1>4, <1>5, <1>7
  <1>18. \A e \in Entities : entityReferenceCountMap'[e] = entityReferenceCountMap[e]
          + (IF Is(p, e, Enter) THEN 1 ELSE IF Is(p, e, Leave) THEN -1 ELSE 0)
    BY <1>1, <1>11
  <1>19. WorldEffect(s, p)
    BY <1>0, <1>4, <1>9, <1>10, <1>13, <1>14, <1>15, <1>16, <1>17, <1>18 DEF WorldEffect
  <1>20. SelvesStay
    <2>1. entityMap'[o].number = entityMap[o].number  BY <1>5, <1>6 DEF Object
    <2>. QED BY <1>1, <1>5, <1>7, <1>8, <2>1 DEF SelvesStay, Tracking
  <1>. QED BY <1>19, <1>20

LEMMA BuffRemoveEffect ==
  ASSUME IndInv, NEW s \in Bots, NEW p, Reads(s, p), p.kind = "BuffRemove",
         \E t \in p.buffs : RemoveBuff(t), UNCHANGED entityReferenceCountMap
  PROVE  WorldEffect(s, p) /\ SelvesStay
  <1>. DEFINE o == p.of
  <1>0. /\ entityMap \in [Entities -> Object] /\ entityReferenceCountMap \in [Entities -> Int]
        /\ buffTokenMap \in [Tokens -> Entities \cup {Nobody}]
        /\ CountsAgree /\ TokensAgree /\ Objects
    BY DEF IndInv, TypeOK
  <1>1. /\ p \in PacketType /\ o \in Entities /\ Proper(s, p) /\ Tracking(o) /\ p.buffs \subseteq Tokens
        /\ \A e \in Entities : entityReferenceCountMap[e] \in Nat
        /\ \A t \in p.buffs : Mentions(t, o) /\ buffTokenMap[t] \in {Nobody, o}
    BY ReadFacts DEF Enter
  <1>2. PICK u \in p.buffs : RemoveBuff(u)  OBVIOUS
  <1>3. u \in Tokens /\ p.buffs = {u}  BY <1>1 DEF Proper
  <1>4. o # Nobody  BY <1>1, SharedWorldAssumption DEF Entities
  <1>5. \A e \in Entities : u \in entityMap[e].buffs => e = o /\ buffTokenMap[u] = o
    <2>1. \A e \in Entities : e # Nobody  BY SharedWorldAssumption DEF Entities
    <2>. QED BY <1>0, <1>1, <1>3, <2>1 DEF TokensAgree
  <1>6. UNCHANGED errors /\ buffTokenMap' = [buffTokenMap EXCEPT ![u] = Nobody]
        /\ entityMap' = [entityMap EXCEPT ![o] = [entityMap[o] EXCEPT !.buffs = entityMap[o].buffs \ {u}]]
    <2>1. CASE buffTokenMap[u] = Nobody
      <3>1. UNCHANGED <<entityMap, buffTokenMap, errors>>  BY <1>2, <2>1 DEF RemoveBuff
      <3>2. u \notin entityMap[o].buffs  BY <1>1, <1>4, <1>5, <2>1
      <3>3. entityMap[o] \in Object  BY <1>0, <1>1
      <3>4. [entityMap[o] EXCEPT !.buffs = entityMap[o].buffs \ {u}] = entityMap[o]
        <4>1. entityMap[o].buffs \ {u} = entityMap[o].buffs  BY <3>2
        <4>. QED BY <3>3, <4>1 DEF Object
      <3>. QED BY <1>0, <1>1, <1>3, <2>1, <3>1, <3>4
    <2>2. CASE buffTokenMap[u] = o
      <3>1. u \in entityMap[o].buffs  BY <1>0, <1>1, <1>3, <2>2 DEF TokensAgree
      <3>. QED BY <1>0, <1>1, <1>2, <1>4, <2>2, <3>1 DEF RemoveBuff
    <2>. QED BY <1>1, <2>1, <2>2
  <1>7. /\ \A e \in Entities : e # o => entityMap'[e] = entityMap[e]
        /\ entityMap'[o] = [entityMap[o] EXCEPT !.buffs = entityMap[o].buffs \ {u}]
        /\ entityMap[o] \in Object
    BY <1>0, <1>1, <1>6
  <1>8. /\ entityMap'[o].kind = entityMap[o].kind /\ entityMap'[o].dead = entityMap[o].dead
        /\ entityMap'[o].buffs = entityMap[o].buffs \ {u} /\ entityMap'[o] \in Object
        /\ entityMap'[o].number = entityMap[o].number
    BY <1>3, <1>7 DEF Object
  <1>9. entityMap[o].kind # "none" /\ Tracking(o)'
    <2>1. entityMap[o].kind # "none"  BY <1>0, <1>1 DEF Objects
    <2>. QED BY <2>1, <1>8 DEF Tracking, NoEntity
  <1>10. CountsAgree' /\ Objects'
    BY <1>0, <1>1, <1>7, <1>8, <1>9 DEF CountsAgree, Objects, Tracking
  <1>11. TokensAgree'
    <2>1. ASSUME NEW t \in Tokens, NEW e \in Entities, t # u
          PROVE  t \in entityMap'[e].buffs <=> buffTokenMap'[t] = e
      BY <1>0, <1>6, <1>7, <1>8, <2>1 DEF TokensAgree
    <2>2. ASSUME NEW e \in Entities
          PROVE  u \in entityMap'[e].buffs <=> buffTokenMap'[u] = e
      <3>1. buffTokenMap'[u] = Nobody /\ e # Nobody
        BY <1>0, <1>3, <1>6, SharedWorldAssumption DEF Entities
      <3>. QED BY <1>5, <1>7, <1>8, <3>1
    <2>. QED BY <2>1, <2>2 DEF TokensAgree
  <1>12. \A e \in Entities : ~Is(p, e, Enter) /\ ~Is(p, e, Leave) /\ ~Is(p, e, {"LifeState"})
    BY DEF Is, Enter, Leave
  <1>13. /\ Has(p, o, {"BuffRemove"}, u)
         /\ \A t, e : ~Has(p, e, {"BuffAdd"}, t) /\ (Has(p, e, {"BuffRemove"}, t) => e = o /\ t = u)
    BY <1>3 DEF Has, Is
  <1>14. \A t \in Tokens : \A e \in Entities : buffTokenMap'[t] = e => Mentions(t, e)
    <2>1. \A t \in Tokens : buffTokenMap'[t] = buffTokenMap[t] \/ buffTokenMap'[t] = Nobody
      BY <1>0, <1>6
    <2>. QED BY <1>1, <2>1, KnownIsMentioned
  <1>15. \A e \in Entities : LifeEffect(p, e)
    BY <1>1, <1>7, <1>8, <1>9, <1>12 DEF LifeEffect, Tracking
  <1>16. \A t \in Tokens : \A e \in Entities : LossEffect(p, e, t)
    BY <1>5, <1>7, <1>8, <1>13 DEF LossEffect
  <1>17. \A t \in Tokens : \A e \in Entities : GainEffect(p, e, t)
    BY <1>1, <1>7, <1>8, <1>13 DEF GainEffect, Tracking
  <1>18. entityMap' \in [Entities -> Object] /\ buffTokenMap' \in [Tokens -> Entities \cup {Nobody}]
    BY <1>0, <1>1, <1>6, <1>7, <1>8
  <1>19. \A e \in Entities : entityReferenceCountMap'[e] = entityReferenceCountMap[e]
          + (IF Is(p, e, Enter) THEN 1 ELSE IF Is(p, e, Leave) THEN -1 ELSE 0)
    BY <1>1, <1>12
  <1>20. WorldEffect(s, p)
    BY <1>0, <1>6, <1>10, <1>11, <1>14, <1>15, <1>16, <1>17, <1>18, <1>19 DEF WorldEffect
  <1>21. SelvesStay
    BY <1>1, <1>7, <1>8, <1>9 DEF SelvesStay, Tracking
  <1>. QED BY <1>20, <1>21

LEMMA LifeStateEffect ==
  ASSUME IndInv, NEW s \in Bots, NEW p, Reads(s, p), p.kind = "LifeState", LifeStateReceived(s, p)
  PROVE  WorldEffect(s, p) /\ SelvesStay
  <1>. DEFINE o == p.of
  <1>0. /\ entityMap \in [Entities -> Object] /\ entityReferenceCountMap \in [Entities -> Int]
        /\ buffTokenMap \in [Tokens -> Entities \cup {Nobody}]
        /\ CountsAgree /\ TokensAgree /\ Objects
    BY DEF IndInv, TypeOK
  <1>1. /\ p \in PacketType /\ o \in Entities /\ Tracking(o)
        /\ \A e \in Entities : entityReferenceCountMap[e] \in Nat
    BY ReadFacts DEF Enter
  <1>2. /\ entityMap' = [entityMap EXCEPT ![o] = [entityMap[o] EXCEPT !.dead = p.dead]]
        /\ UNCHANGED <<entityReferenceCountMap, buffTokenMap, errors>>
    BY <1>1 DEF LifeStateReceived
  <1>3. /\ \A e \in Entities : e # o => entityMap'[e] = entityMap[e]
        /\ entityMap'[o] = [entityMap[o] EXCEPT !.dead = p.dead]
        /\ entityMap[o] \in Object /\ p.dead \in BOOLEAN
    BY <1>0, <1>1, <1>2 DEF PacketType
  <1>4. /\ entityMap'[o].kind = entityMap[o].kind /\ entityMap'[o].dead = p.dead
        /\ entityMap'[o].buffs = entityMap[o].buffs /\ entityMap'[o] \in Object
        /\ entityMap'[o].number = entityMap[o].number
    BY <1>3 DEF Object
  <1>5. entityMap[o].kind # "none" /\ Tracking(o)'
    <2>1. entityMap[o].kind # "none"  BY <1>0, <1>1 DEF Objects
    <2>. QED BY <2>1, <1>4 DEF Tracking, NoEntity
  <1>6. CountsAgree' /\ Objects' /\ TokensAgree'
    BY <1>0, <1>1, <1>2, <1>3, <1>4, <1>5 DEF CountsAgree, Objects, Tracking, TokensAgree
  <1>7. \A e \in Entities : /\ ~Is(p, e, Enter) /\ ~Is(p, e, Leave)
                            /\ Is(p, e, {"LifeState"}) => e = o
                            /\ \A t : ~Has(p, e, {"BuffAdd"}, t) /\ ~Has(p, e, {"BuffRemove"}, t)
    BY DEF Is, Has, Enter, Leave
  <1>8. Is(p, o, LifeKinds)  BY DEF Is, LifeKinds
  <1>9. \A t \in Tokens : \A e \in Entities : buffTokenMap'[t] = e => Mentions(t, e)
    BY <1>2 DEF Mentions
  <1>10. \A e \in Entities : LifeEffect(p, e)
    BY <1>3, <1>4, <1>7, <1>8 DEF LifeEffect, Tracking
  <1>11. \A t \in Tokens : \A e \in Entities : LossEffect(p, e, t) /\ GainEffect(p, e, t)
    BY <1>1, <1>3, <1>4, <1>7 DEF LossEffect, GainEffect, Tracking
  <1>12. entityMap' \in [Entities -> Object]
    BY <1>0, <1>1, <1>2, <1>3, <1>4
  <1>13. \A e \in Entities : entityReferenceCountMap'[e] = entityReferenceCountMap[e]
          + (IF Is(p, e, Enter) THEN 1 ELSE IF Is(p, e, Leave) THEN -1 ELSE 0)
    BY <1>1, <1>2, <1>7
  <1>14. WorldEffect(s, p)
    BY <1>0, <1>2, <1>6, <1>9, <1>10, <1>11, <1>12, <1>13 DEF WorldEffect
  <1>15. SelvesStay
    BY <1>1, <1>3, <1>4, <1>5 DEF SelvesStay, Tracking
  <1>. QED BY <1>14, <1>15

(* What is appended to the queue.                                          *)
LEMMA QueueAppend ==
  ASSUME NEW q \in Seq(EventType), NEW v \in EventType, NEW b
  PROVE  /\ Append(q, v) \in Seq(EventType)
         /\ \A k : Comes(Append(q, v), b, {k}, 0) <=> Comes(q, b, {k}, 0) \/ Is(v, b, {k})
         /\ /\ Single(q, b, {"SelfSpawned", "GameReset"})
            /\ \/ ~Is(v, b, {"SelfSpawned", "GameReset"})
               \/ ~Comes(q, b, {"SelfSpawned"}, 0) /\ ~Comes(q, b, {"GameReset"}, 0)
            => Single(Append(q, v), b, {"SelfSpawned", "GameReset"})
         /\ /\ Later(q, b)
            /\ ~Is(v, b, {"EntityDespawned"}) \/ ~Comes(q, b, {"SelfSpawned"}, 0)
            => Later(Append(q, v), b)
  <1>1. 0 \in 0..Len(q) /\ Append(q, v) \in Seq(EventType)  BY LenProperties, AppendProperties
  <1>2. \A k : Comes(Append(q, v), b, {k}, 0) <=> Comes(q, b, {k}, 0) \/ Is(v, b, {k})
    BY <1>1, AppendComes, Zenon
  <1>3. ASSUME Single(q, b, {"SelfSpawned", "GameReset"}),
               \/ ~Is(v, b, {"SelfSpawned", "GameReset"})
               \/ ~Comes(q, b, {"SelfSpawned"}, 0) /\ ~Comes(q, b, {"GameReset"}, 0)
        PROVE  Single(Append(q, v), b, {"SelfSpawned", "GameReset"})
    <2>1. ~Is(v, b, {"SelfSpawned", "GameReset"}) \/ ~Comes(q, b, {"SelfSpawned", "GameReset"}, 0)
      BY <1>3 DEF Comes, Is
    <2>. QED BY <1>3, <2>1, SingleFacts, Zenon
  <1>4. ASSUME Later(q, b), ~Is(v, b, {"EntityDespawned"}) \/ ~Comes(q, b, {"SelfSpawned"}, 0)
        PROVE  Later(Append(q, v), b)
    <2>. SUFFICES ASSUME NEW i \in DOMAIN Append(q, v), NEW j \in DOMAIN Append(q, v),
                         Is(Append(q, v)[i], b, {"SelfSpawned"}),
                         Is(Append(q, v)[j], b, {"EntityDespawned"})
                  PROVE  j < i
      BY DEF Later
    <2>1. /\ i \in Nat /\ j \in Nat /\ Len(q) \in Nat
          /\ i \in DOMAIN q => Append(q, v)[i] = q[i] /\ i <= Len(q) /\ i > 0
          /\ j \in DOMAIN q => Append(q, v)[j] = q[j] /\ j <= Len(q)
          /\ i \notin DOMAIN q => Append(q, v)[i] = v /\ i = Len(q) + 1
          /\ j \notin DOMAIN q => Append(q, v)[j] = v
      BY AppendFacts
    <2>2. CASE i \in DOMAIN q /\ j \in DOMAIN q  BY <1>4, <2>1, <2>2 DEF Later
    <2>3. CASE i \in DOMAIN q /\ j \notin DOMAIN q
      <3>1. Is(v, b, {"EntityDespawned"}) /\ Comes(q, b, {"SelfSpawned"}, 0)
        BY <2>1, <2>3 DEF Comes
      <3>. QED BY <1>4, <3>1
    <2>4. CASE i \notin DOMAIN q /\ j \in DOMAIN q  BY <2>1, <2>4
    <2>5. CASE i \notin DOMAIN q /\ j \notin DOMAIN q  BY <2>1, <2>5 DEF Is
    <2>. QED BY <2>2, <2>3, <2>4, <2>5
  <1>. QED BY <1>1, <1>2, <1>3, <1>4, Zenon

(* A character that its session has told, or that is there, is in sight.   *)
LEMMA InPlaceIsSeen ==
  ASSUME InSight, NEW b \in Bots, Joining(b),
         place[b] = "in" \/ reply[b] = "gameReady" \/ Queued(b, "SelfSpawned")
  PROVE  Seen(b, b)
  <1>1. place[b] # "away" /\ ~DataComing(b) /\ ~ResetComing(b)
    BY DEF Joining, InStep, Away, Loading, Inside
  <1>. QED BY <1>1, SelfIsSeen

(* A session reads something that leaves b, as far as it is in the world,  *)
(* as it is.                                                               *)
LEMMA ReadElsewhere ==
  ASSUME IndInv, NEW s \in Bots, NEW p, Reads(s, p), NEW b \in Bots,
         ~Is(p, b, {"CharacterData", "GameReset"}),
         UNCHANGED botSelf, selfEntity'[b] = selfEntity[b], made'[b] = made[b],
         entityMap'[b].kind = "Self" \/ Seen(b, b) =>
           entityMap'[b].kind = entityMap[b].kind /\ entityMap'[b].number = entityMap[b].number,
         Queued(b, "SelfSpawned")' <=> Queued(b, "SelfSpawned"),
         Queued(b, "GameReset")' <=> Queued(b, "GameReset"),
         Queued(b, "EntityDespawned")' => Queued(b, "EntityDespawned") \/ ~Seen(b, b),
         Single(queue', b, {"SelfSpawned", "GameReset"}), Later(queue', b)
  PROVE  Joining(b)' /\ Owned(b)'
  <1>0. TypeOK /\ InSight /\ Joining(b) /\ Owned(b)  BY DEF IndInv
  <1>1. UNCHANGED <<reply, place, left>>  BY DEF Reads, server
  <1>2. SeenMoves(s, p) /\ Proper(s, p)  BY <1>0, ReadSight
  <1>3. /\ link[b] \in Seq(PacketType)
        /\ link'[b] = link[b] \/ (link[b] # <<>> /\ link'[b] = Tail(link[b]))
    BY <1>0, ReadLinks
  <1>4. Single(link'[b], b, {"CharacterData", "GameReset"})
    <2>1. Single(link[b], b, {"CharacterData", "GameReset"})  BY <1>0 DEF Joining
    <2>2. link[b] # <<>> => link[b][1] \in PacketType  BY <1>3, TailFacts
    <2>3. link[b] # <<>> => Single(Tail(link[b]), b, {"CharacterData", "GameReset"})
      BY <1>3, <2>1, <2>2, SingleFacts
    <2>. QED BY <1>3, <2>1, <2>3
  <1>5. (DataComing(b)' <=> DataComing(b)) /\ (ResetComing(b)' <=> ResetComing(b))
    <2>1. ~Is(p, b, {"CharacterData"}) /\ ~Is(p, b, {"GameReset"})  BY DEF Is
    <2>. QED BY <1>0, <2>1, ReadComes DEF DataComing, ResetComing
  <1>6. InStep(b)'
    BY <1>0, <1>1, <1>5 DEF Joining, InStep, Away, Loading, Inside
  <1>7. Joining(b)'
    <2>1. place[b] = "in" \/ reply[b] = "gameReady" =>
            ~Queued(b, "EntityDespawned")' /\ botSelf[b] = selfEntity[b]
      BY <1>0, InPlaceIsSeen DEF Joining
    <2>. QED BY <1>1, <1>4, <1>6, <2>1 DEF Joining
  <1>8. Seen(b, b)' <=> Seen(b, b)
    <2>1. b \in Entities  BY DEF Entities
    <2>2. ~(b = s /\ Is(p, b, Enter \cup Leave))
      BY <1>2 DEF Proper, Is, Enter, Leave
    <2>. QED BY <1>2, <2>1, <2>2 DEF SeenMoves
  <1>9. /\ entityMap'[b].kind = "Self" => entityMap'[b].number \in 1..made'[b]
        /\ Seen(b, b)' => entityMap'[b].kind = "Self"
    BY <1>0, <1>8 DEF Owned
  <1>10. selfEntity'[b] = IF Seen(b, b)' THEN entityMap'[b].number ELSE 0
    BY <1>0, <1>8 DEF Owned
  <1>11. Owned(b)'
    BY <1>0, <1>1, <1>5, <1>9, <1>10 DEF Owned
  <1>. QED BY <1>7, <1>11

LEMMA ReadEnds ==
  ASSUME IndInv, NEW s \in Bots, NEW p, Reads(s, p), WorldEffect(s, p),
         queue' \in Seq(EventType), Events', {selfEntity', made'} \subseteq [Bots -> 0..(MaxWarps + 1)],
         UNCHANGED botSelf, \A b \in Bots : Joining(b)' /\ Owned(b)'
  PROVE  IndInv'
  <1>1. link' \in [Bots -> Seq(PacketType)] /\ UNCHANGED <<reply, place, sight, holder, spent, dead, left, missed, lagged>>
    BY ReadLinks DEF IndInv, Reads, server
  <1>2. TypeOK'
    BY <1>1 DEF IndInv, TypeOK, WorldEffect, EventType
  <1>3. /\ CountsAgree' /\ TokensAgree' /\ NoErrors' /\ InSight' /\ Counted' /\ OneHolder'
        /\ Objects' /\ \A e \in Entities : e \notin missed' => Known(e)'
    BY ReadWorld
  <1>. QED BY <1>2, <1>3 DEF IndInv

(* A session reads that something is in its sight, out of it, or changed.  *)
LEMMA QueueStays ==
  ASSUME IndInv, UNCHANGED queue, NEW b \in Bots
  PROVE  /\ queue' \in Seq(EventType) /\ Events'
         /\ \A k : Queued(b, k)' <=> Queued(b, k)
         /\ Single(queue', b, {"SelfSpawned", "GameReset"}) /\ Later(queue', b)
  BY DEF IndInv, TypeOK, EventType, Events, Queued, Joining

LEMMA SpawnRead ==
  ASSUME IndInv, NEW s \in Bots, NEW p, Reads(s, p), p.kind = "Spawn", SpawnReceived(s, p)
  PROVE  IndInv'
  <1>. DEFINE object == [kind |-> IF p.of \in Bots THEN "Player" ELSE "other", number |-> 0,
                         buffs |-> p.buffs, dead |-> p.dead]
  <1>0. TypeOK /\ InSight /\ Counted /\ CountsAgree /\ queue \in Seq(EventType)
    BY DEF IndInv, TypeOK, EventType
  <1>1. p \in PacketType /\ p.of \in Entities /\ link[s] # <<>> /\ p = link[s][1]
    BY ReadFacts DEF Reads
  <1>2. /\ object \in Object /\ object.kind \notin {"none", "Self"} /\ object.dead = p.dead
        /\ object.buffs = IF p.kind = "Spawn" THEN p.buffs ELSE {}
    BY <1>1, SharedWorldAssumption DEF PacketType, Object
  <1>3. EntitySpawned(p.of, object, <<>>) /\ UNCHANGED <<selfEntity, botSelf, made, errors>>
    BY DEF SpawnReceived, owns
  <1>. HIDE DEF object
  <1>4. /\ WorldEffect(s, p) /\ queue' = queue \o <<>>
        /\ \A e \in Entities : e # p.of => entityMap'[e] = entityMap[e]
        /\ entityMap'[p.of] = IF Tracking(p.of) THEN entityMap[p.of] ELSE object
    BY <1>2, <1>3, SpawnEffect DEF Enter
  <1>5. UNCHANGED queue  BY <1>0, <1>4, ConcatEmptySeq
  <1>6. ASSUME NEW b \in Bots, entityMap'[b].kind = "Self" \/ Seen(b, b)
        PROVE  entityMap'[b] = entityMap[b]
    <2>1. b \in Entities  BY DEF Entities
    <2>2. Seen(b, b) => Tracking(b)  BY <1>0, <2>1, TrackedIsSeen
    <2>. QED BY <1>2, <1>4, <1>6, <2>1, <2>2
  <1>7. ASSUME NEW b \in Bots  PROVE  Joining(b)' /\ Owned(b)'
    <2>1. ~Is(p, b, {"CharacterData", "GameReset"})  BY DEF Is
    <2>2. entityMap'[b].kind = "Self" \/ Seen(b, b) =>
            entityMap'[b].kind = entityMap[b].kind /\ entityMap'[b].number = entityMap[b].number
      BY <1>6
    <2>. QED BY <1>3, <1>5, <2>1, <2>2, QueueStays, ReadElsewhere
  <1>8. s \in Bots /\ queue' \in Seq(EventType) /\ Events'  BY <1>5, QueueStays
  <1>9. {selfEntity', made'} \subseteq [Bots -> 0..(MaxWarps + 1)]  BY <1>0, <1>3 DEF TypeOK
  <1>. QED BY <1>3, <1>4, <1>7, <1>8, <1>9, ReadEnds

LEMMA DespawnRead ==
  ASSUME IndInv, NEW s \in Bots, NEW p, Reads(s, p), p.kind = "Despawn", DespawnReceived(s, p)
  PROVE  IndInv'
  <1>. DEFINE v == Event("EntityDespawned", p.of)
  <1>0. TypeOK /\ InSight /\ Counted /\ CountsAgree /\ queue \in Seq(EventType)
    BY DEF IndInv, TypeOK, EventType
  <1>1. p.of \in Entities /\ Proper(s, p) /\ Tracking(p.of)  BY ReadFacts DEF Enter
  <1>2. EntityDespawned(p.of, <<>>) /\ UNCHANGED <<selfEntity, botSelf, made>>
    BY <1>1 DEF DespawnReceived, owns
  <1>3. v \in EventType /\ v.of = p.of /\ v.kind = "EntityDespawned"
    BY <1>1 DEF Event, EventType
  <1>. HIDE DEF v
  <1>4. /\ WorldEffect(s, p)
        /\ queue' = IF entityReferenceCountMap[p.of] = 1 THEN Append(queue, v) \o <<>> ELSE queue \o <<>>
        /\ \A e \in Entities : e # p.of \/ entityReferenceCountMap[p.of] # 1 => entityMap'[e] = entityMap[e]
        /\ entityReferenceCountMap[p.of] = 1 => ~Tracking(p.of)'
    BY <1>2, DespawnEffect DEF Leave, v
  <1>5. queue' = IF entityReferenceCountMap[p.of] = 1 THEN Append(queue, v) ELSE queue
    BY <1>0, <1>3, <1>4, ConcatEmptySeq, AppendProperties
  <1>6. {selfEntity', made'} \subseteq [Bots -> 0..(MaxWarps + 1)]  BY <1>0, <1>2 DEF TypeOK
  <1>7. CASE entityReferenceCountMap[p.of] # 1
    <2>1. UNCHANGED queue  BY <1>5, <1>7
    <2>2. \A b \in Bots : entityMap'[b] = entityMap[b]  BY <1>4, <1>7 DEF Entities
    <2>3. ASSUME NEW b \in Bots  PROVE  Joining(b)' /\ Owned(b)'
      <3>1. ~Is(p, b, {"CharacterData", "GameReset"})  BY DEF Is
      <3>. QED BY <1>2, <2>1, <2>2, <3>1, QueueStays, ReadElsewhere
    <2>4. queue' \in Seq(EventType) /\ Events'  BY <2>1, QueueStays
    <2>. QED BY <1>2, <1>4, <1>6, <2>3, <2>4, ReadEnds
  <1>8. CASE entityReferenceCountMap[p.of] = 1
    <2>1. queue' = Append(queue, v)  BY <1>5, <1>8
    <2>2. queue' \in Seq(EventType)  BY <1>0, <1>3, <2>1, AppendProperties
    <2>3. Events'
      <3>. SUFFICES ASSUME NEW j \in DOMAIN queue', queue'[j].kind \in {"SelfSpawned", "GameReset"}
                    PROVE  queue'[j].of \in Bots
        BY DEF Events
      <3>1. j \in DOMAIN queue /\ queue'[j] = queue[j]
        <4>1. queue'[j] # v  BY <1>3
        <4>. QED BY <1>0, <1>3, <2>1, <4>1, AppendFacts
      <3>. QED BY <3>1 DEF IndInv, Events
    <2>4. ASSUME NEW b \in Bots  PROVE  Joining(b)' /\ Owned(b)'
      <3>1. ~Is(p, b, {"CharacterData", "GameReset"}) /\ ~Is(v, b, {"SelfSpawned", "GameReset"})
            /\ ~Is(v, b, {"SelfSpawned"}) /\ ~Is(v, b, {"GameReset"})
        BY <1>3 DEF Is
      <3>2. Joining(b)  BY DEF IndInv
      <3>3. b = p.of => ~Seen(b, b)
        <4>. SUFFICES ASSUME b = p.of, Seen(b, b)  PROVE FALSE  OBVIOUS
        <4>1. s # b  BY <1>1 DEF Proper
        <4>2. Seen(s, b)  BY <1>0, ReadSight DEF Enter
        <4>3. entityReferenceCountMap[b] >= 2  BY <1>0, <1>1, <4>1, <4>2, TwoWatchers
        <4>. QED BY <1>8, <4>3
      <3>4. b = p.of => ~Queued(b, "SelfSpawned")  BY <1>0, <3>2, <3>3, InPlaceIsSeen
      <3>5. b # p.of => ~Is(v, b, {"EntityDespawned"})  BY <1>3 DEF Is
      <3>6. /\ Queued(b, "SelfSpawned")' <=> Queued(b, "SelfSpawned")
            /\ Queued(b, "GameReset")' <=> Queued(b, "GameReset")
            /\ Queued(b, "EntityDespawned")' => Queued(b, "EntityDespawned") \/ ~Seen(b, b)
        BY <1>0, <1>3, <2>1, <3>1, <3>3, <3>5, QueueAppend DEF Queued
      <3>7. Single(queue', b, {"SelfSpawned", "GameReset"}) /\ Later(queue', b)
        BY <1>0, <1>3, <2>1, <3>1, <3>2, <3>4, <3>5, QueueAppend DEF Queued, Joining
      <3>8. b # p.of => entityMap'[b] = entityMap[b]  BY <1>4 DEF Entities
      <3>9. entityMap'[b].kind = "Self" \/ Seen(b, b) => entityMap'[b] = entityMap[b]
        BY <1>4, <1>8, <3>3, <3>8 DEF Tracking, NoEntity
      <3>. QED BY <1>2, <3>1, <3>6, <3>7, <3>9, ReadElsewhere
    <2>. QED BY <1>2, <1>4, <1>6, <2>2, <2>3, <2>4, ReadEnds
  <1>. QED BY <1>7, <1>8

LEMMA NewsRead ==
  ASSUME IndInv, NEW s \in Bots, NEW p, Reads(s, p), p.kind \in {"BuffAdd", "BuffRemove", "LifeState"},
         WorldEffect(s, p), SelvesStay, UNCHANGED <<owns, queue>>
  PROVE  IndInv'
  <1>1. UNCHANGED <<selfEntity, botSelf, made, queue>>  BY DEF owns
  <1>2. ASSUME NEW b \in Bots  PROVE  Joining(b)' /\ Owned(b)'
    <2>1. ~Is(p, b, {"CharacterData", "GameReset"})  BY DEF Is
    <2>2. entityMap'[b].kind = entityMap[b].kind /\ entityMap'[b].number = entityMap[b].number
      BY DEF SelvesStay, Entities
    <2>. QED BY <1>1, <2>1, <2>2, QueueStays, ReadElsewhere
  <1>3. s \in Bots /\ queue' \in Seq(EventType) /\ Events'  BY <1>1, QueueStays
  <1>4. {selfEntity', made'} \subseteq [Bots -> 0..(MaxWarps + 1)]  BY <1>1 DEF IndInv, TypeOK
  <1>. QED BY <1>1, <1>2, <1>3, <1>4, ReadEnds

(* An event appended to the queue that concerns session s.                 *)
LEMMA EventsAppend ==
  ASSUME NEW q \in Seq(EventType), NEW s \in Bots, NEW v \in EventType, v.of = s,
         \A j \in DOMAIN q : q[j].kind \in {"SelfSpawned", "GameReset"} => q[j].of \in Bots
  PROVE  \A j \in DOMAIN Append(q, v) :
           Append(q, v)[j].kind \in {"SelfSpawned", "GameReset"} => Append(q, v)[j].of \in Bots
  <1>. SUFFICES ASSUME NEW j \in DOMAIN Append(q, v), Append(q, v)[j].kind \in {"SelfSpawned", "GameReset"}
                PROVE  Append(q, v)[j].of \in Bots
    OBVIOUS
  <1>1. CASE j \in DOMAIN q  BY <1>1, AppendFacts
  <1>2. CASE j \notin DOMAIN q  BY <1>2, AppendFacts
  <1>. QED BY <1>1, <1>2

(* What session s has yet to read of its own coming and going.             *)
LEMMA OwnTurn ==
  ASSUME IndInv, NEW s \in Bots, NEW p, Reads(s, p), Is(p, s, {"CharacterData", "GameReset"})
  PROVE  /\ ~DataComing(s)' /\ ~ResetComing(s)'
         /\ Single(link'[s], s, {"CharacterData", "GameReset"})
         /\ p.kind = "CharacterData" => DataComing(s)
         /\ p.kind = "GameReset" => ResetComing(s)
         /\ Seen(s, s)' <=> p.kind = "CharacterData"
  <1>. DEFINE K == {"CharacterData", "GameReset"}
  <1>0. TypeOK /\ InSight /\ Joining(s)  BY DEF IndInv
  <1>1. /\ link[s] \in Seq(PacketType) /\ link[s] # <<>> /\ p = link[s][1] /\ p \in PacketType
        /\ link'[s] = Tail(link[s]) /\ 1 \in DOMAIN link[s]
    BY <1>0, ReadLinks
  <1>2. Single(link[s], s, K)  BY <1>0 DEF Joining
  <1>3. Single(Tail(link[s]), s, K) /\ ~Comes(link[s], s, K, 1)  BY <1>1, <1>2, SingleFacts
  <1>4. ~Comes(Tail(link[s]), s, K, 0)
    <2>1. 0 \in Nat /\ 0 + 1 = 1  OBVIOUS
    <2>2. Comes(Tail(link[s]), s, K, 0) <=> Comes(link[s], s, K, 0 + 1)
      BY <1>1, <2>1, TailComes, Zenon
    <2>. QED BY <1>3, <2>1, <2>2
  <1>5. ~DataComing(s)' /\ ~ResetComing(s)'
    BY <1>1, <1>4 DEF DataComing, ResetComing, Comes, Is
  <1>6. /\ p.kind = "CharacterData" => DataComing(s)
        /\ p.kind = "GameReset" => ResetComing(s)
    <2>1. p.of = s /\ 1 > 0  BY DEF Is
    <2>. QED BY <1>1, <2>1 DEF DataComing, ResetComing, Comes, Is
  <1>7. Seen(s, s)' <=> p.kind = "CharacterData"
    <2>1. SeenMoves(s, p) /\ s \in Entities  BY <1>0, ReadSight DEF Entities
    <2>2. Is(p, s, Enter \cup Leave) /\ (p.kind \in Enter <=> p.kind = "CharacterData")
      BY DEF Is, Enter, Leave
    <2>. QED BY <2>1, <2>2 DEF SeenMoves
  <1>. QED BY <1>1, <1>3, <1>5, <1>6, <1>7

(* Somebody else's character data or reset.                                *)
LEMMA TurnElsewhere ==
  ASSUME IndInv, NEW s \in Bots, NEW p, Reads(s, p), p.of = s, NEW b \in Bots, b # s,
         UNCHANGED botSelf, selfEntity'[b] = selfEntity[b], made'[b] = made[b],
         entityMap'[b] = entityMap[b],
         \A k : Queued(b, k)' <=> Queued(b, k),
         Single(queue', b, {"SelfSpawned", "GameReset"}), Later(queue', b)
  PROVE  Joining(b)' /\ Owned(b)'
  <1>1. ~Is(p, b, {"CharacterData", "GameReset"})  BY DEF Is
  <1>. QED BY <1>1, ReadElsewhere

LEMMA CharacterDataRead ==
  ASSUME IndInv, NEW s \in Bots, NEW p, Reads(s, p), p.kind = "CharacterData",
         CharacterDataReceived(s, p), HasSelf(s)
  PROVE  IndInv'
  <1>. DEFINE object == [kind |-> "Self", number |-> made[s] + 1, buffs |-> {}, dead |-> p.dead]
              v == Event("SelfSpawned", s)
  <1>0. /\ TypeOK /\ InSight /\ Joining(s) /\ Owned(s) /\ queue \in Seq(EventType)
        /\ UNCHANGED <<reply, place, left>>
    BY DEF IndInv, TypeOK, EventType, Reads, server
  <1>1. p \in PacketType /\ p.of = s /\ Is(p, s, {"CharacterData", "GameReset"})
    BY ReadFacts DEF Proper, Is
  <1>2. /\ ~DataComing(s)' /\ ~ResetComing(s)' /\ DataComing(s) /\ Seen(s, s)'
        /\ Single(link'[s], s, {"CharacterData", "GameReset"})
    BY <1>1, OwnTurn
  <1>3. /\ place[s] = "loading" /\ reply[s] = "none" /\ ~ResetComing(s)
        /\ ~Queued(s, "GameReset") /\ ~Queued(s, "SelfSpawned")
    BY <1>0, <1>2 DEF Joining, InStep, Away, Loading, Inside
  <1>4. made[s] \in Nat /\ made[s] + 1 <= 1 + MaxWarps - left["warps"]
        /\ left["warps"] \in Nat /\ MaxWarps \in Nat
    BY <1>0, <1>2, <1>3, SharedWorldAssumption DEF Owned, TypeOK
  <1>5. object \in Object /\ object.kind = "Self" /\ object.dead = p.dead /\ object.buffs = {}
        /\ object.number = made[s] + 1
    BY <1>1, <1>4 DEF PacketType, Object
  <1>6. v \in EventType /\ v.of = s /\ v.kind = "SelfSpawned"
    BY DEF Event, EventType, Entities
  <1>7. /\ EntitySpawned(p.of, object, <<v>>) /\ UNCHANGED botSelf
        /\ made' = [made EXCEPT ![s] = @ + 1]
        /\ selfEntity' = [selfEntity EXCEPT ![s] = entityMap'[s].number]
    BY <1>1 DEF CharacterDataReceived
  <1>8. entityMap'[s].kind = "Self" /\ UNCHANGED errors
    BY DEF HasSelf, CharacterDataReceived
  <1>. HIDE DEF object, v
  <1>9. /\ WorldEffect(s, p) /\ queue' = queue \o <<v>>
        /\ \A e \in Entities : e # s => entityMap'[e] = entityMap[e]
        /\ entityMap'[s] = IF Tracking(s) THEN entityMap[s] ELSE object
    <2>1. p.kind \in Enter /\ object.kind # "none" /\ object.buffs = IF p.kind = "Spawn" THEN p.buffs ELSE {}
      BY <1>5 DEF Enter
    <2>2. /\ WorldEffect(s, p) /\ queue' = queue \o <<v>>
          /\ \A e \in Entities : e # p.of => entityMap'[e] = entityMap[e]
          /\ entityMap'[p.of] = IF Tracking(p.of) THEN entityMap[p.of] ELSE object
      BY <1>5, <1>7, <1>8, <2>1, SpawnEffect
    <2>. QED BY <1>1, <2>2
  <1>10. queue' = Append(queue, v) /\ queue' \in Seq(EventType)
    BY <1>0, <1>6, <1>9, AppendIsConcat, AppendProperties
  <1>11. Events'
    BY <1>0, <1>6, <1>10, EventsAppend DEF Events, IndInv
  <1>12. entityMap'[s].number \in 1..(made[s] + 1)
    BY <1>0, <1>4, <1>5, <1>8, <1>9 DEF Owned
  <1>13. /\ made'[s] = made[s] + 1 /\ selfEntity'[s] = entityMap'[s].number
         /\ \A b \in Bots : b # s => made'[b] = made[b] /\ selfEntity'[b] = selfEntity[b]
    BY <1>0, <1>7 DEF TypeOK
  <1>14. {selfEntity', made'} \subseteq [Bots -> 0..(MaxWarps + 1)]
    <2>1. made[s] + 1 \in 0..(MaxWarps + 1) /\ entityMap'[s].number \in 0..(MaxWarps + 1)
      BY <1>4, <1>12
    <2>. QED BY <1>0, <1>7, <2>1 DEF TypeOK
  <1>15. /\ Queued(s, "SelfSpawned")' /\ ~Queued(s, "GameReset")'
         /\ Single(queue', s, {"SelfSpawned", "GameReset"}) /\ Later(queue', s)
    <2>1. /\ Is(v, s, {"SelfSpawned"}) /\ ~Is(v, s, {"GameReset"}) /\ ~Is(v, s, {"EntityDespawned"})
      BY <1>6 DEF Is
    <2>. QED BY <1>0, <1>3, <1>6, <1>10, <2>1, QueueAppend DEF Queued, Joining
  <1>16. Joining(s)'
    <2>1. InStep(s)'  BY <1>0, <1>2, <1>3, <1>15 DEF InStep, Loading
    <2>. QED BY <1>0, <1>2, <1>3, <1>15, <2>1 DEF Joining
  <1>17. Owned(s)'
    <2>2. botSelf[s] \in Nat /\ botSelf[s] <= made[s] + 1
      BY <1>0, <1>4 DEF Owned, TypeOK
    <2>3. made'[s] + (IF DataComing(s)' THEN 1 ELSE 0) + (IF place'[s] = "away" THEN 1 ELSE 0)
            <= 1 + MaxWarps - left'["warps"]
      BY <1>0, <1>2, <1>3, <1>4, <1>13
    <2>. QED BY <1>2, <1>7, <1>8, <1>12, <1>13, <2>2, <2>3 DEF Owned
  <1>18. ASSUME NEW b \in Bots, b # s  PROVE  Joining(b)' /\ Owned(b)'
    <2>1. \A k : ~Is(v, b, {k})  BY <1>6, <1>18 DEF Is
    <2>2. ~Is(v, b, {"SelfSpawned", "GameReset"}) /\ ~Is(v, b, {"EntityDespawned"})
      BY <1>6, <1>18 DEF Is
    <2>3. \A k : Queued(b, k)' <=> Queued(b, k)
      BY <1>0, <1>6, <1>10, <2>1, QueueAppend DEF Queued
    <2>4. Single(queue', b, {"SelfSpawned", "GameReset"}) /\ Later(queue', b)
      <3>1. Single(queue, b, {"SelfSpawned", "GameReset"}) /\ Later(queue, b)  BY DEF IndInv, Joining
      <3>. QED BY <1>0, <1>6, <1>10, <2>2, <3>1, QueueAppend
    <2>5. entityMap'[b] = entityMap[b]  BY <1>9, <1>18 DEF Entities
    <2>. QED BY <1>1, <1>7, <1>13, <1>18, <2>3, <2>4, <2>5, TurnElsewhere
  <1>. QED BY <1>7, <1>9, <1>10, <1>11, <1>14, <1>16, <1>17, <1>18, ReadEnds

LEMMA GameResetRead ==
  ASSUME IndInv, NEW s \in Bots, NEW p, Reads(s, p), p.kind = "GameReset", GameResetReceived(s, p)
  PROVE  IndInv'
  <1>. DEFINE d == Event("EntityDespawned", s)
              v == Event("GameReset", s)
              last == entityReferenceCountMap[s] = 1
              before == IF last THEN Append(queue, d) ELSE queue
  <1>0. /\ TypeOK /\ InSight /\ Joining(s) /\ Owned(s) /\ queue \in Seq(EventType)
        /\ UNCHANGED <<reply, place, left>>
    BY DEF IndInv, TypeOK, EventType, Reads, server
  <1>1. p.of = s /\ Is(p, s, {"CharacterData", "GameReset"})
    BY ReadFacts DEF Proper, Is
  <1>2. /\ ~DataComing(s)' /\ ~ResetComing(s)' /\ ResetComing(s) /\ ~Seen(s, s)'
        /\ Single(link'[s], s, {"CharacterData", "GameReset"})
    BY <1>1, OwnTurn
  <1>3. /\ place[s] = "away" /\ reply[s] = "none" /\ ~DataComing(s)
        /\ ~Queued(s, "GameReset") /\ ~Queued(s, "SelfSpawned")
    BY <1>0, <1>2 DEF Joining, InStep, Away, Loading, Inside
  <1>4. /\ d \in EventType /\ d.of = s /\ d.kind = "EntityDespawned"
        /\ v \in EventType /\ v.of = s /\ v.kind = "GameReset"
    BY DEF Event, EventType, Entities
  <1>5. /\ EntityDespawned(p.of, <<v>>) /\ UNCHANGED <<botSelf, made>>
        /\ selfEntity' = [selfEntity EXCEPT ![s] = 0]
    BY <1>1 DEF GameResetReceived
  <1>. HIDE DEF d, v
  <1>6. /\ WorldEffect(s, p)
        /\ queue' = IF last THEN Append(queue, d) \o <<v>> ELSE queue \o <<v>>
        /\ \A e \in Entities : e # s \/ ~last => entityMap'[e] = entityMap[e]
        /\ last => ~Tracking(s)'
    <2>1. /\ WorldEffect(s, p)
          /\ queue' = IF entityReferenceCountMap[p.of] = 1
                        THEN Append(queue, Event("EntityDespawned", p.of)) \o <<v>>
                        ELSE queue \o <<v>>
          /\ \A e \in Entities : e # p.of \/ entityReferenceCountMap[p.of] # 1 => entityMap'[e] = entityMap[e]
          /\ entityReferenceCountMap[p.of] = 1 => ~Tracking(p.of)'
      BY <1>5, DespawnEffect DEF Leave
    <2>. QED BY <1>1, <2>1 DEF d
  <1>7. before \in Seq(EventType)  BY <1>0, <1>4, AppendProperties
  <1>8. queue' = Append(before, v) /\ queue' \in Seq(EventType)
    BY <1>4, <1>6, <1>7, AppendIsConcat, AppendProperties
  <1>9. /\ \A j \in DOMAIN before : before[j].kind \in {"SelfSpawned", "GameReset"} => before[j].of \in Bots
        /\ \A b \in Bots : /\ Comes(before, b, {"SelfSpawned"}, 0) <=> Queued(b, "SelfSpawned")
                           /\ Comes(before, b, {"GameReset"}, 0) <=> Queued(b, "GameReset")
                           /\ b # s => \A k : Comes(before, b, {k}, 0) <=> Queued(b, k)
                           /\ Single(before, b, {"SelfSpawned", "GameReset"}) /\ Later(before, b)
    <2>1. \A j \in DOMAIN queue : queue[j].kind \in {"SelfSpawned", "GameReset"} => queue[j].of \in Bots
      BY DEF IndInv, Events
    <2>2. \A b \in Bots : Single(queue, b, {"SelfSpawned", "GameReset"}) /\ Later(queue, b)
      BY DEF IndInv, Joining
    <2>3. CASE ~last  BY <2>1, <2>2, <2>3 DEF Queued
    <2>4. CASE last
      <3>1. before = Append(queue, d)  BY <2>4
      <3>2. \A j \in DOMAIN before : before[j].kind \in {"SelfSpawned", "GameReset"} => before[j].of \in Bots
        BY <1>0, <1>4, <2>1, <3>1, EventsAppend
      <3>3. ASSUME NEW b \in Bots
            PROVE  /\ Comes(before, b, {"SelfSpawned"}, 0) <=> Queued(b, "SelfSpawned")
                   /\ Comes(before, b, {"GameReset"}, 0) <=> Queued(b, "GameReset")
                   /\ b # s => \A k : Comes(before, b, {k}, 0) <=> Queued(b, k)
                   /\ Single(before, b, {"SelfSpawned", "GameReset"}) /\ Later(before, b)
        <4>1. /\ ~Is(d, b, {"SelfSpawned", "GameReset"}) /\ ~Is(d, b, {"SelfSpawned"})
              /\ ~Is(d, b, {"GameReset"}) /\ (b # s => \A k : ~Is(d, b, {k}))
              /\ ~Is(d, b, {"EntityDespawned"}) \/ ~Comes(queue, b, {"SelfSpawned"}, 0)
          BY <1>3, <1>4 DEF Is, Queued
        <4>2. \A k : Comes(before, b, {k}, 0) <=> Comes(queue, b, {k}, 0) \/ Is(d, b, {k})
          BY <1>0, <1>4, <3>1, QueueAppend
        <4>3. Single(before, b, {"SelfSpawned", "GameReset"}) /\ Later(before, b)
          BY <1>0, <1>4, <2>2, <3>1, <4>1, QueueAppend
        <4>. QED BY <4>1, <4>2, <4>3 DEF Queued
      <3>. QED BY <3>2, <3>3
    <2>. QED BY <2>3, <2>4
  <1>. HIDE DEF before
  <1>10. Events'  BY <1>4, <1>7, <1>8, <1>9, EventsAppend DEF Events
  <1>11. {selfEntity', made'} \subseteq [Bots -> 0..(MaxWarps + 1)]
    <2>1. 0 \in 0..(MaxWarps + 1)  BY SharedWorldAssumption
    <2>. QED BY <1>0, <1>5, <2>1 DEF TypeOK
  <1>12. selfEntity'[s] = 0 /\ \A b \in Bots : b # s => selfEntity'[b] = selfEntity[b]
    BY <1>0, <1>5 DEF TypeOK
  <1>13. /\ ~Queued(s, "SelfSpawned")' /\ Queued(s, "GameReset")'
         /\ Single(queue', s, {"SelfSpawned", "GameReset"}) /\ Later(queue', s)
    <2>1. ~Is(v, s, {"SelfSpawned"}) /\ Is(v, s, {"GameReset"}) /\ ~Is(v, s, {"EntityDespawned"})
      BY <1>4 DEF Is
    <2>2. ~Comes(before, s, {"SelfSpawned"}, 0) /\ ~Comes(before, s, {"GameReset"}, 0)
      BY <1>3, <1>9
    <2>. QED BY <1>4, <1>7, <1>8, <1>9, <2>1, <2>2, QueueAppend DEF Queued
  <1>14. Joining(s)'
    <2>1. InStep(s)'  BY <1>0, <1>2, <1>3, <1>13 DEF InStep, Away
    <2>. QED BY <1>0, <1>2, <1>3, <1>13, <2>1 DEF Joining
  <1>15. Owned(s)'
    <2>2. entityMap'[s].kind = "Self" => entityMap'[s] = entityMap[s]
      BY <1>6 DEF Tracking, NoEntity, Entities
    <2>3. made'[s] + (IF DataComing(s)' THEN 1 ELSE 0) + (IF place'[s] = "away" THEN 1 ELSE 0)
            <= 1 + MaxWarps - left'["warps"]
      BY <1>0, <1>2, <1>3, <1>5 DEF Owned
    <2>. QED BY <1>0, <1>2, <1>5, <1>12, <2>2, <2>3 DEF Owned
  <1>16. ASSUME NEW b \in Bots, b # s  PROVE  Joining(b)' /\ Owned(b)'
    <2>1. \A k : ~Is(v, b, {k})  BY <1>4, <1>16 DEF Is
    <2>2. ~Is(v, b, {"SelfSpawned", "GameReset"}) /\ ~Is(v, b, {"EntityDespawned"})
      BY <1>4, <1>16 DEF Is
    <2>3. \A k : Queued(b, k)' <=> Queued(b, k)
      <3>1. \A k : Comes(queue', b, {k}, 0) <=> Comes(before, b, {k}, 0) \/ Is(v, b, {k})
        BY <1>4, <1>7, <1>8, QueueAppend
      <3>. QED BY <1>9, <1>16, <2>1, <3>1 DEF Queued
    <2>4. Single(queue', b, {"SelfSpawned", "GameReset"}) /\ Later(queue', b)
      BY <1>4, <1>7, <1>8, <1>9, <2>2, QueueAppend
    <2>5. entityMap'[b] = entityMap[b]  BY <1>6, <1>16 DEF Entities
    <2>. QED BY <1>1, <1>5, <1>12, <1>16, <2>3, <2>4, <2>5, TurnElsewhere
  <1>. QED BY <1>5, <1>6, <1>8, <1>10, <1>11, <1>14, <1>15, <1>16, ReadEnds

(* What is tracked for the character is no Self: the process ends.         *)
LEMMA NullSelfRead ==
  ASSUME IndInv, Unlagged, NEW s \in Bots, NEW p, Reads(s, p), p.kind = "CharacterData",
         CharacterDataReceived(s, p), ~HasSelf(s)
  PROVE  Ended'
  <1>. DEFINE object == [kind |-> "Self", number |-> made[s] + 1, buffs |-> {}, dead |-> p.dead]
  <1>0. /\ TypeOK /\ InSight /\ Joining(s) /\ Owned(s) /\ queue \in Seq(EventType) /\ s \in Entities
        /\ UNCHANGED <<reply, place, sight, holder, spent, dead, left, missed, lagged>>
    BY DEF IndInv, TypeOK, EventType, Reads, server, Entities
  <1>1. p \in PacketType /\ p.of = s /\ Is(p, s, {"CharacterData", "GameReset"})
    BY ReadFacts DEF Proper, Is
  <1>2. DataComing(s)  BY <1>1, OwnTurn
  <1>3. place[s] = "loading"  BY <1>0, <1>2 DEF Joining, InStep, Away, Inside
  <1>4. /\ made[s] \in Nat /\ made[s] + 1 <= 1 + MaxWarps - left["warps"]
        /\ left["warps"] \in Nat /\ MaxWarps \in Nat
    BY <1>0, <1>2, <1>3, SharedWorldAssumption DEF Owned, TypeOK
  <1>5. object.kind = "Self"  OBVIOUS
  <1>6. /\ EntitySpawned(s, object, <<>>) /\ UNCHANGED botSelf
        /\ made' = [made EXCEPT ![s] = @ + 1]
        /\ selfEntity' = [selfEntity EXCEPT ![s] = entityMap'[s].number]
        /\ errors' = errors \cup {"nullSelf"} /\ entityMap'[s].kind # "Self"
    BY DEF CharacterDataReceived, HasSelf
  <1>. HIDE DEF object
  <1>7. /\ UNCHANGED <<entityMap, buffTokenMap>> /\ queue' = queue \o <<>>
        /\ entityReferenceCountMap' = [entityReferenceCountMap EXCEPT ![s] = @ + 1]
    <2>1. entityMap \in [Entities -> Object]  BY <1>0 DEF TypeOK
    <2>. QED BY <1>0, <1>5, <1>6, <2>1 DEF EntitySpawned
  <1>8. entityMap[s] \in Object /\ Tracking(s) /\ entityMap[s].kind # "Self"
    <2>1. entityMap[s] \in Object /\ entityMap[s].kind # "Self"  BY <1>0, <1>6, <1>7 DEF TypeOK
    <2>2. ~Tracking(s) => entityReferenceCountMap[s] = 0  BY <1>0, ReadFacts
    <2>3. ~Tracking(s) => entityReferenceCountMap'[s] <= 1
      BY <1>0, <1>7, <2>2 DEF TypeOK
    <2>4. ~Tracking(s) => entityMap' = [entityMap EXCEPT ![s] = object]
      BY <1>6, <2>3 DEF EntitySpawned
    <2>5. ~Tracking(s) => entityMap'[s] = object  BY <1>0, <2>4 DEF TypeOK
    <2>. QED BY <1>5, <1>6, <2>1, <2>5
  <1>9. s \in lagged'  BY <1>0, <1>8 DEF Unlagged, OwnTracked
  <1>10. {selfEntity', made'} \subseteq [Bots -> 0..(MaxWarps + 1)]
    <2>1. made[s] + 1 \in 0..(MaxWarps + 1) /\ entityMap'[s].number \in 0..(MaxWarps + 1)
      BY <1>4, <1>7, <1>8 DEF Object
    <2>. QED BY <1>0, <1>6, <2>1 DEF TypeOK
  <1>11. TypeOK'
    <2>1. link' \in [Bots -> Seq(PacketType)]  BY <1>0, ReadLinks
    <2>2. queue' = queue  BY <1>0, <1>7, ConcatEmptySeq
    <2>3. entityReferenceCountMap' \in [Entities -> Int]  BY <1>0, <1>7 DEF TypeOK
    <2>. QED BY <1>0, <1>6, <1>7, <1>10, <2>1, <2>2, <2>3 DEF TypeOK
  <1>12. errors' = {"nullSelf"}  BY <1>6 DEF IndInv, NoErrors
  <1>. QED BY <1>9, <1>11, <1>12 DEF Ended

LEMMA ReadStep ==
  ASSUME IndInv, Unlagged, NEW s \in Bots, Read(s)
  PROVE  IndInv' \/ Ended'
  <1>. DEFINE p == Head(link[s])
  <1>1. link[s] \in Seq(PacketType) /\ link[s] # <<>>  BY DEF IndInv, TypeOK, Read
  <1>2. p = link[s][1] /\ p \in PacketType  BY <1>1, TailFacts
  <1>3. Reads(s, p)  BY <1>2 DEF Read, Reads
  <1>4. CASE p.kind = "Spawn"
    <2>1. SpawnReceived(s, p)  BY <1>4 DEF Read
    <2>. QED BY <1>3, <1>4, <2>1, SpawnRead
  <1>5. CASE p.kind = "Despawn"
    <2>1. DespawnReceived(s, p)  BY <1>5 DEF Read
    <2>. QED BY <1>3, <1>5, <2>1, DespawnRead
  <1>6. CASE p.kind = "CharacterData"
    <2>1. CharacterDataReceived(s, p)  BY <1>6 DEF Read
    <2>. QED BY <1>3, <1>6, <2>1, CharacterDataRead, NullSelfRead
  <1>7. CASE p.kind = "GameReset"
    <2>1. GameResetReceived(s, p)  BY <1>7 DEF Read
    <2>. QED BY <1>3, <1>7, <2>1, GameResetRead
  <1>8. CASE p.kind = "BuffAdd"
    <2>1. BuffAddReceived(s, p)  BY <1>8 DEF Read
    <2>2. WorldEffect(s, p) /\ SelvesStay  BY <1>3, <1>8, <2>1, BuffAddEffect DEF BuffAddReceived
    <2>. QED BY <1>3, <1>8, <2>1, <2>2, NewsRead DEF BuffAddReceived
  <1>9. CASE p.kind = "BuffRemove"
    <2>1. BuffRemoveReceived(s, p)  BY <1>9 DEF Read
    <2>2. WorldEffect(s, p) /\ SelvesStay  BY <1>3, <1>9, <2>1, BuffRemoveEffect DEF BuffRemoveReceived
    <2>. QED BY <1>3, <1>9, <2>1, <2>2, NewsRead DEF BuffRemoveReceived
  <1>10. CASE p.kind = "LifeState"
    <2>1. LifeStateReceived(s, p)  BY <1>10 DEF Read
    <2>2. WorldEffect(s, p) /\ SelvesStay  BY <1>3, <1>10, <2>1, LifeStateEffect
    <2>. QED BY <1>3, <1>10, <2>1, <2>2, NewsRead DEF LifeStateReceived
  <1>. QED BY <1>2, <1>4, <1>5, <1>6, <1>7, <1>8, <1>9, <1>10 DEF PacketType

-----------------------------------------------------------------------------
(* What is tracked for a character that does not lag.                      *)

LEMMA TrackedTold ==
  ASSUME IndInv, NEW b \in Bots, OwnTracked(b),
         NEW S \in SUBSET Bots, NEW p \in PacketType, link' = Told(S, p), UNCHANGED entityMap,
         Is(p, b, {"Spawn"}) => place'[b] = "in",
         place[b] = "in" => place'[b] = "in" \/ \A s \in Bots : ~Comes(link[s], b, {"Spawn"}, 0)
  PROVE  OwnTracked(b)'
  <1>1. \A x \in Bots : Comes(link'[x], b, {"Spawn"}, 0)
                        <=> Comes(link[x], b, {"Spawn"}, 0) \/ (x \in S /\ Is(p, b, {"Spawn"}))
    BY ToldComes DEF IndInv
  <1>2. place'[b] = "in" \/ \A x \in Bots : ~Comes(link'[x], b, {"Spawn"}, 0)
    BY <1>1 DEF OwnTracked
  <1>. QED BY <1>2 DEF OwnTracked, Tracking

LEMMA TrackedServed ==
  ASSUME IndInv, NEW b \in Bots, OwnTracked(b), b \notin lagged',
         \/ \E s \in Bots : Warp(s) \/ Serve(s)
         \/ \E s \in Bots, e \in Entities : Show(s, e) \/ Hide(s, e)
         \/ \E e \in Entities : Turn(e)
         \/ \E e \in Entities, t \in Tokens : GiveBuff(e, t)
         \/ \E t \in Tokens : EndBuff(t)
  PROVE  OwnTracked(b)'
  <1>0. TypeOK /\ b \in Entities  BY DEF IndInv, Entities
  <1>1. ASSUME NEW s \in Bots, Warp(s)  PROVE  OwnTracked(b)'
    <2>1. PICK p : p = Packet("GameReset", s, {}, FALSE)  OBVIOUS
    <2>2. p \in PacketType /\ p.kind = "GameReset"  BY <2>1 DEF Packet, PacketType, Entities
    <2>3. /\ link' = Told({s}, p) /\ place' = [place EXCEPT ![s] = "away"] /\ UNCHANGED entityMap
          /\ s \notin lagged' => \A x \in Bots : ~Unread(x, s, {"Spawn"})
      BY <1>1, <2>1 DEF Warp, client, world
    <2>4. place[b] = "in" => place'[b] = "in" \/ \A x \in Bots : ~Comes(link[x], b, {"Spawn"}, 0)
      BY <1>0, <2>3 DEF TypeOK, Unread, Comes, Is
    <2>5. ~Is(p, b, {"Spawn"})  BY <2>2 DEF Is
    <2>. QED BY <2>2, <2>3, <2>4, <2>5, TrackedTold
  <1>2. ASSUME NEW s \in Bots, SendData(s)  PROVE  OwnTracked(b)'
    <2>1. PICK p : p = Packet("CharacterData", s, {}, s \in dead)  OBVIOUS
    <2>2. p \in PacketType /\ p.kind = "CharacterData"  BY <2>1 DEF Packet, PacketType, Entities
    <2>3. /\ link' = Told({s}, p) /\ place[s] = "away" /\ place' = [place EXCEPT ![s] = "loading"]
          /\ UNCHANGED entityMap
      BY <1>2, <2>1 DEF SendData, client, world
    <2>4. place[b] = "in" => place'[b] = "in"  BY <1>0, <2>3 DEF TypeOK
    <2>5. ~Is(p, b, {"Spawn"})  BY <2>2 DEF Is
    <2>. QED BY <2>2, <2>3, <2>4, <2>5, TrackedTold
  <1>3. ASSUME NEW s \in Bots, Arrive(s)  PROVE  OwnTracked(b)'
    <2>1. UNCHANGED <<link, entityMap>> /\ (place[b] = "in" => place'[b] = "in")
      BY <1>0, <1>3 DEF Arrive, client, world, TypeOK
    <2>. QED BY <2>1 DEF OwnTracked, Tracking
  <1>4. ASSUME NEW s \in Bots, NEW e \in Entities, Show(s, e)  PROVE  OwnTracked(b)'
    <2>1. PICK p : p = Packet("Spawn", e, BuffsOf(e), e \in dead)  OBVIOUS
    <2>2. p \in PacketType /\ p.of = e  BY <2>1 DEF Packet, PacketType, BuffsOf
    <2>3. link' = Told({s}, p) /\ Present(e) /\ UNCHANGED <<place, entityMap>>
      BY <1>4, <2>1 DEF Show, client, world
    <2>4. Is(p, b, {"Spawn"}) => place'[b] = "in"  BY <2>2, <2>3 DEF Is, Present
    <2>. QED BY <2>2, <2>3, <2>4, TrackedTold
  <1>5. ASSUME NEW s \in Bots, NEW e \in Entities, Hide(s, e)  PROVE  OwnTracked(b)'
    <2>1. PICK p : p = Packet("Despawn", e, {}, FALSE)  OBVIOUS
    <2>2. p \in PacketType /\ ~Is(p, b, {"Spawn"})  BY <2>1 DEF Packet, PacketType, Is
    <2>3. link' = Told({s}, p) /\ UNCHANGED <<place, entityMap>>
      BY <1>5, <2>1 DEF Hide, client, world
    <2>. QED BY <2>2, <2>3, TrackedTold
  <1>6. ASSUME NEW e \in Entities, Turn(e)  PROVE  OwnTracked(b)'
    <2>1. PICK p : p = Packet("LifeState", e, {}, e \notin dead)  OBVIOUS
    <2>2. p \in PacketType /\ ~Is(p, b, {"Spawn"})  BY <2>1 DEF Packet, PacketType, Is
    <2>3. link' = Told(Audience(e), p) /\ UNCHANGED <<place, entityMap>>
      BY <1>6, <2>1 DEF Turn, client, world
    <2>4. Audience(e) \in SUBSET Bots  BY DEF Audience
    <2>. QED BY <2>2, <2>3, <2>4, TrackedTold
  <1>7. ASSUME NEW e \in Entities, NEW t \in Tokens, GiveBuff(e, t)  PROVE  OwnTracked(b)'
    <2>1. PICK p : p = Packet("BuffAdd", e, {t}, FALSE)  OBVIOUS
    <2>2. p \in PacketType /\ ~Is(p, b, {"Spawn"})  BY <2>1 DEF Packet, PacketType, Is
    <2>3. link' = Told(Audience(e), p) /\ UNCHANGED <<place, entityMap>>
      BY <1>7, <2>1 DEF GiveBuff, client, world
    <2>4. Audience(e) \in SUBSET Bots  BY DEF Audience
    <2>. QED BY <2>2, <2>3, <2>4, TrackedTold
  <1>8. ASSUME NEW t \in Tokens, EndBuff(t)  PROVE  OwnTracked(b)'
    <2>0. PICK e \in Entities : e = holder[t]  BY <1>0, <1>8 DEF TypeOK, EndBuff
    <2>1. PICK p : p = Packet("BuffRemove", e, {t}, FALSE)  OBVIOUS
    <2>2. p \in PacketType /\ ~Is(p, b, {"Spawn"})  BY <2>1 DEF Packet, PacketType, Is
    <2>3. link' = Told(Audience(e), p) /\ UNCHANGED <<place, entityMap>>
      BY <1>8, <2>0, <2>1 DEF EndBuff, client, world
    <2>4. Audience(e) \in SUBSET Bots  BY DEF Audience
    <2>. QED BY <2>2, <2>3, <2>4, TrackedTold
  <1>. QED BY <1>1, <1>2, <1>3, <1>4, <1>5, <1>6, <1>7, <1>8 DEF Serve

(* What is read of a character in its place is of one that is tracked.     *)
LEMMA TrackedRead ==
  ASSUME IndInv, NEW b \in Bots, OwnTracked(b), NEW s \in Bots, Read(s)
  PROVE  OwnTracked(b)'
  <1>0. PICK p : p = Head(link[s])  OBVIOUS
  <1>1. /\ TypeOK /\ InSight /\ Counted /\ CountsAgree /\ b \in Entities
        /\ link[s] \in Seq(PacketType) /\ link[s] # <<>>
    BY DEF IndInv, TypeOK, Read, Entities
  <1>2. p = link[s][1] /\ p \in PacketType /\ 1 \in DOMAIN link[s]  BY <1>0, <1>1, TailFacts
  <1>3. Reads(s, p)  BY <1>0, <1>2 DEF Read, Reads
  <1>4. /\ \A x \in Bots : Comes(link'[x], b, {"Spawn"}, 0) => Comes(link[x], b, {"Spawn"}, 0)
        /\ place' = place
    BY <1>1, <1>3, ReadComes DEF Reads, server
  <1>5. /\ entityMap \in [Entities -> Object] /\ entityMap[b] \in Object /\ p.of \in Entities
        /\ Proper(s, p) /\ (p.kind \notin Enter => Tracking(p.of))
    BY <1>1, <1>3, ReadFacts DEF TypeOK
  <1>6. SUFFICES ASSUME Tracking(b)'  PROVE  entityMap'[b].kind = "Self"
    BY <1>4 DEF OwnTracked
  <1>7. SUFFICES (Tracking(b) /\ entityMap'[b].kind = entityMap[b].kind) \/ entityMap'[b].kind = "Self"
    BY DEF OwnTracked
  <1>8. CASE p.kind = "Spawn"
    <2>1. SpawnReceived(s, p)  BY <1>0, <1>8 DEF Read
    <2>2. \/ entityMap' = entityMap
          \/ ~Tracking(p.of) /\ \E o : entityMap' = [entityMap EXCEPT ![p.of] = o]
      BY <2>1 DEF SpawnReceived, EntitySpawned
    <2>3. entityMap'[b] = entityMap[b]
      <3>1. CASE b # p.of  BY <1>1, <1>5, <2>2, <3>1
      <3>2. CASE b = p.of
        <4>1. Comes(link[s], b, {"Spawn"}, 0)
          <5>1. 1 > 0  OBVIOUS
          <5>. QED BY <1>2, <1>8, <3>2, <5>1 DEF Comes, Is
        <4>2. place[b] = "in" /\ Joining(b)  BY <4>1 DEF IndInv, OwnTracked
        <4>3. Seen(b, b)  BY <1>1, <4>2, InPlaceIsSeen
        <4>4. Tracking(b)  BY <1>1, <4>3, TrackedIsSeen
        <4>. QED BY <2>2, <3>2, <4>4
      <3>. QED BY <3>1, <3>2
    <2>. QED BY <1>6, <2>3 DEF Tracking
  <1>9. CASE p.kind = "CharacterData"
    <2>1. CharacterDataReceived(s, p)  BY <1>0, <1>9 DEF Read
    <2>2. \/ entityMap' = entityMap
          \/ \E o : o.kind = "Self" /\ entityMap' = [entityMap EXCEPT ![s] = o]
      <3>1. PICK o : o = [kind |-> "Self", number |-> made[s] + 1, buffs |-> {}, dead |-> p.dead]
        OBVIOUS
      <3>2. o.kind = "Self"  BY <3>1
      <3>3. entityMap' = entityMap \/ entityMap' = [entityMap EXCEPT ![s] = o]
        BY <2>1, <3>1 DEF CharacterDataReceived, EntitySpawned
      <3>. QED BY <3>2, <3>3
    <2>3. entityMap'[b] = entityMap[b] \/ entityMap'[b].kind = "Self"
      BY <1>1, <1>5, <2>2
    <2>. QED BY <1>6, <2>3 DEF Tracking
  <1>10. CASE p.kind \in Leave
    <2>1. \E news : EntityDespawned(p.of, news)
      <3>1. CASE p.kind = "Despawn"
        <4>1. DespawnReceived(s, p)  BY <1>0, <3>1 DEF Read
        <4>. QED BY <1>5, <3>1, <4>1 DEF DespawnReceived, Enter
      <3>2. CASE p.kind = "GameReset"
        <4>1. GameResetReceived(s, p) /\ p.of = s  BY <1>0, <1>5, <3>2 DEF Read, Proper
        <4>. QED BY <4>1 DEF GameResetReceived
      <3>. QED BY <1>10, <3>1, <3>2 DEF Leave
    <2>2. entityMap' = entityMap \/ entityMap' = [entityMap EXCEPT ![p.of] = NoEntity]
      BY <2>1 DEF EntityDespawned
    <2>3. entityMap'[b] = entityMap[b] \/ entityMap'[b] = NoEntity  BY <1>1, <1>5, <2>2
    <2>. QED BY <1>6, <2>3 DEF Tracking
  <1>11. CASE p.kind \in {"BuffAdd", "BuffRemove", "LifeState"}
    <2>1. SelvesStay
      <3>1. CASE p.kind = "BuffAdd"
        <4>1. BuffAddReceived(s, p)  BY <1>0, <3>1 DEF Read
        <4>. QED BY <1>3, <3>1, <4>1, BuffAddEffect DEF BuffAddReceived
      <3>2. CASE p.kind = "BuffRemove"
        <4>1. BuffRemoveReceived(s, p)  BY <1>0, <3>2 DEF Read
        <4>. QED BY <1>3, <3>2, <4>1, BuffRemoveEffect DEF BuffRemoveReceived
      <3>3. CASE p.kind = "LifeState"
        <4>1. LifeStateReceived(s, p)  BY <1>0, <3>3 DEF Read
        <4>. QED BY <1>3, <3>3, <4>1, LifeStateEffect
      <3>. QED BY <1>11, <3>1, <3>2, <3>3
    <2>. QED BY <1>1, <1>6, <2>1 DEF SelvesStay
  <1>. QED BY <1>2, <1>8, <1>9, <1>10, <1>11 DEF PacketType, Leave

LEMMA UnlaggedStep ==
  ASSUME IndInv, Unlagged, Step
  PROVE  Unlagged'
  <1>. SUFFICES ASSUME NEW b \in Bots, b \notin lagged'  PROVE  OwnTracked(b)'
    BY DEF Unlagged
  <1>1. lagged \subseteq lagged'
    <2>1. \A s \in Bots : Read(s) \/ Warp(s) \/ Serve(s) => lagged \subseteq lagged'
      BY DEF Read, Warp, Serve, SendData, Arrive
    <2>2. \A s \in Bots : \A e \in Entities : Show(s, e) \/ Hide(s, e) => lagged' = lagged
      BY DEF Show, Hide
    <2>3. \A e \in Entities : Turn(e) => lagged' = lagged  BY DEF Turn
    <2>4. \A e \in Entities : \A t \in Tokens : GiveBuff(e, t) => lagged' = lagged  BY DEF GiveBuff
    <2>5. \A t \in Tokens : EndBuff(t) => lagged' = lagged  BY DEF EndBuff
    <2>6. Handle => lagged' = lagged  BY DEF Handle
    <2>. QED BY <2>1, <2>2, <2>3, <2>4, <2>5, <2>6 DEF Step
  <1>2. OwnTracked(b)  BY <1>1 DEF Unlagged
  <1>3. ASSUME Handle  PROVE  OwnTracked(b)'
    <2>1. UNCHANGED <<entityMap, link, place>>  BY <1>3 DEF Handle, world, server
    <2>. QED BY <1>2, <2>1 DEF OwnTracked, Tracking
  <1>. QED BY <1>2, <1>3, TrackedServed, TrackedRead DEF Step

-----------------------------------------------------------------------------
(* The invariant holds throughout.                                         *)

LEMMA InitOK ==
  ASSUME Init
  PROVE  IndInv /\ Unlagged
  <1>1. /\ \A e \in Entities : entityMap[e] = NoEntity /\ entityReferenceCountMap[e] = 0
        /\ \A t \in Tokens : buffTokenMap[t] = Nobody /\ holder[t] = Nobody
        /\ \A s \in Bots : /\ selfEntity[s] = 0 /\ botSelf[s] = 0 /\ made[s] = 0
                           /\ reply[s] = "joined" /\ place[s] = "away" /\ sight[s] = {} /\ link[s] = <<>>
        /\ queue = <<>> /\ dead = {} /\ missed = {} /\ lagged = {} /\ errors = {}
        /\ left["warps"] = MaxWarps
    BY DEF Init
  <1>2. /\ \A e \in Entities : e # Nobody
        /\ MaxWarps \in Nat /\ MaxShows \in Nat /\ MaxNews \in Nat
    BY SharedWorldAssumption DEF Entities
  <1>3. TypeOK
    <2>1. NoEntity \in Object  BY <1>2 DEF NoEntity, Object
    <2>2. 0 \in 0..(MaxWarps + 1)  BY <1>2
    <2>3. [shows |-> MaxShows, news |-> MaxNews, warps |-> MaxWarps] \in [{"shows", "news", "warps"} -> Nat]
      BY <1>2
    <2>4. entityMap \in [Entities -> Object] /\ entityReferenceCountMap \in [Entities -> Int]
      BY <2>1 DEF Init
    <2>5. {selfEntity, botSelf, made} \subseteq [Bots -> 0..(MaxWarps + 1)]  BY <2>2 DEF Init
    <2>6. link \in [Bots -> Seq(PacketType)]  BY DEF Init
    <2>. QED BY <2>3, <2>4, <2>5, <2>6 DEF Init, TypeOK
  <1>4. \A s \in Bots : \A e \in Entities : ~Sees(s, e) /\ ~Seen(s, e)
    <2>1. \A s \in Bots : \A e \in Entities : ~Sees(s, e)  BY <1>1 DEF Sees
    <2>. QED BY <1>1, <2>1 DEF Seen, Seeing
  <1>5. Counted  BY <1>1, <1>4, WatchersAreFinite DEF Counted
  <1>6. CountsAgree /\ TokensAgree /\ NoErrors /\ Events /\ Objects
    BY <1>1, <1>2 DEF CountsAgree, TokensAgree, NoErrors, Events, Objects, Tracking, NoEntity
  <1>7. InSight  BY <1>1 DEF InSight, Fitting
  <1>8. OneHolder  BY <1>1, <1>2 DEF OneHolder, Mentions
  <1>9. ASSUME NEW b \in Bots  PROVE  Joining(b) /\ Owned(b) /\ OwnTracked(b)
    <2>1. /\ ~DataComing(b) /\ ~ResetComing(b) /\ \A k : ~Queued(b, k)
          /\ \A s \in Bots : ~Comes(link[s], b, {"Spawn"}, 0)
      BY <1>1 DEF DataComing, ResetComing, Queued, Comes
    <2>2. b \in Entities  BY DEF Entities
    <2>3. Joining(b)
      BY <1>1, <2>1 DEF Joining, InStep, Away, Single, Later
    <2>4. Owned(b)
      BY <1>1, <1>2, <1>4, <2>1, <2>2 DEF Owned, NoEntity
    <2>5. OwnTracked(b)  BY <1>1, <2>1, <2>2 DEF OwnTracked, Tracking
    <2>. QED BY <2>3, <2>4, <2>5
  <1>10. ASSUME NEW e \in Entities  PROVE  Known(e)
    <2>1. LifeKnown(e)  BY <1>1 DEF LifeKnown, LifeTold, Tracking
    <2>2. \A t \in Tokens : BuffKnown(e, t)
      BY <1>1, <1>2 DEF BuffKnown, LossKnown, LossTold, NoEntity
    <2>. QED BY <2>1, <2>2 DEF Known
  <1>. QED BY <1>3, <1>5, <1>6, <1>7, <1>8, <1>9, <1>10 DEF IndInv, Unlagged

LEMMA NextStep ==
  ASSUME IndInv, Unlagged, Step
  PROVE  (IndInv /\ Unlagged)' \/ Ended'
  <1>1. ASSUME NEW s \in Bots, Read(s) \/ Warp(s) \/ Serve(s)  PROVE  IndInv' \/ Ended'
    BY <1>1, ReadStep, WarpStep, SendDataStep, ArriveStep DEF Serve
  <1>2. ASSUME NEW s \in Bots, NEW e \in Entities, Show(s, e) \/ Hide(s, e)  PROVE  IndInv'
    BY <1>2, ShowStep, HideStep
  <1>3. ASSUME NEW e \in Entities, Turn(e)  PROVE  IndInv'  BY <1>3, TurnStep
  <1>4. ASSUME NEW e \in Entities, NEW t \in Tokens, GiveBuff(e, t)  PROVE  IndInv'
    BY <1>4, GiveBuffStep
  <1>5. ASSUME NEW t \in Tokens, EndBuff(t)  PROVE  IndInv'  BY <1>5, EndBuffStep
  <1>6. ASSUME Handle  PROVE  IndInv'  BY <1>6, HandleStep
  <1>7. IndInv' \/ Ended'  BY <1>1, <1>2, <1>3, <1>4, <1>5, <1>6 DEF Step
  <1>8. Unlagged'  BY UnlaggedStep
  <1>. QED BY <1>7, <1>8

LEMMA StutterStep ==
  ASSUME IndInv, Unlagged, UNCHANGED vars
  PROVE  IndInv' /\ Unlagged'
  <1>1. /\ UNCHANGED <<entityMap, entityReferenceCountMap, buffTokenMap, selfEntity, botSelf, made>>
        /\ UNCHANGED <<queue, reply, place, sight, holder, spent, dead, left, link, missed, lagged, errors>>
    BY DEF vars, world, owns, server
  <1>2. /\ \A s, e : Sees(s, e)' <=> Sees(s, e)
        /\ \A s, e : Seen(s, e)' <=> Seen(s, e)
    <2>1. \A s, e : Sees(s, e)' <=> Sees(s, e)  BY <1>1 DEF Sees
    <2>. QED BY <1>1, <2>1, SameSeeing, Zenon DEF Seen
  <1>3. InSight'
    <2>1. \A s \in Bots : \A e \in Entities : Fitting(link'[s], Sees(s, e)', e)
      BY <1>1, <1>2, SameSeeing, Zenon DEF IndInv, InSight
    <2>. QED BY <1>1, <2>1 DEF IndInv, InSight
  <1>4. Counted'
    <2>1. SeenStays  BY <1>2 DEF SeenStays
    <2>. QED BY <1>1, <2>1, SeenStaysCounted DEF IndInv
  <1>5. TypeOK'  BY <1>1 DEF IndInv, TypeOK
  <1>6. CountsAgree' /\ TokensAgree' /\ NoErrors' /\ Events' /\ Objects' /\ OneHolder'
    BY <1>1 DEF IndInv, CountsAgree, TokensAgree, NoErrors, Events, Objects, Tracking, OneHolder, Mentions
  <1>7. ASSUME NEW b \in Bots  PROVE  Joining(b)' /\ Owned(b)'
    <2>1. Joining(b)'
      BY <1>1 DEF IndInv, Joining, InStep, Away, Loading, Inside, DataComing, ResetComing, Queued
    <2>2. Owned(b)'
      BY <1>1, <1>2 DEF IndInv, Owned, Tracking, DataComing
    <2>. QED BY <2>1, <2>2
  <1>8. ASSUME NEW e \in Entities, e \notin missed'  PROVE  Known(e)'
    <2>1. Known(e)  BY <1>1, <1>8 DEF IndInv
    <2>2. LifeKnown(e)'  BY <1>1, <2>1, Zenon DEF Known, LifeKnown, Tracking
    <2>3. \A t \in Tokens : BuffKnown(e, t)'
      BY <1>1, <2>1 DEF Known, BuffKnown, GainKnown, LossKnown, Tracking
    <2>. QED BY <2>2, <2>3 DEF Known
  <1>9. Unlagged'  BY <1>1 DEF Unlagged, OwnTracked, Tracking
  <1>. QED BY <1>3, <1>4, <1>5, <1>6, <1>7, <1>8, <1>9 DEF IndInv

(* The inductive invariant; nothing follows the end of the process.        *)
LEMMA EndStays ==
  ASSUME Ended, [Next]_vars
  PROVE  Ended'
  <1>1. ~Next  BY DEF Ended, Next, Running
  <1>2. UNCHANGED vars  BY <1>1
  <1>. QED BY <1>2 DEF Ended, TypeOK, vars, world, owns, server

(* Whatever the sessions and the bounds: the invariant holds until the     *)
(* process ends, and it ends only after a character was reset too early.   *)
THEOREM Invariance == Spec => []FullInv
  <1>1. Init => FullInv  BY InitOK DEF FullInv
  <1>2. FullInv /\ [Next]_vars => FullInv'
    <2>1. ASSUME IndInv, Unlagged, [Next]_vars  PROVE  (IndInv /\ Unlagged)' \/ Ended'
      BY <2>1, NextStep, StutterStep DEF Next
    <2>. QED BY <2>1, EndStays DEF FullInv
  <1>. QED BY <1>1, <1>2, PTL DEF Spec

LEMMA InvIsConsistent ==
  ASSUME IndInv
  PROVE  Consistent
  <1>1. ASSUME NEW b \in Bots, place[b] = "in"
        PROVE  /\ entityMap[b].kind = "Self"
               /\ selfEntity[b] = entityMap[b].number /\ botSelf[b] = selfEntity[b]
    <2>1. InSight /\ Counted /\ CountsAgree /\ Joining(b) /\ Owned(b) /\ b \in Entities
      BY DEF IndInv, Entities
    <2>2. Seen(b, b)  BY <1>1, <2>1, InPlaceIsSeen
    <2>. QED BY <1>1, <2>1, <2>2 DEF Joining, Owned
  <1>2. KnowsItself  BY <1>1 DEF KnowsItself
  <1>. QED BY <1>2 DEF IndInv, Consistent, ErrorsExplained, NoErrors

LEMMA InvIsSettled ==
  ASSUME IndInv
  PROVE  Settled
  <1>. SUFFICES ASSUME \A s \in Bots : link[s] = <<>>, NEW e \in Entities
                PROVE  /\ Tracking(e) <=> \/ \E s \in Bots : e \in sight[s]
                                          \/ e \in Bots /\ selfEntity[e] # 0
                       /\ Tracking(e) /\ e \notin missed =>
                            /\ entityMap[e].dead = (e \in dead)
                            /\ entityMap[e].buffs \subseteq BuffsOf(e)
                            /\ e \in Others => entityMap[e].buffs = BuffsOf(e)
    BY DEF Settled
  <1>0. TypeOK /\ InSight /\ Counted /\ CountsAgree  BY DEF IndInv
  <1>1. \A s \in Bots : \A f, K, t : ~Comes(link[s], f, K, 0) /\ ~Brings(link[s], f, K, t, 0)
    BY DEF Comes, Brings
  <1>2. \A s \in Bots : Seen(s, e) <=> Sees(s, e)
    BY <1>1 DEF Seen, Seeing
  <1>3. Tracking(e) <=> \E s \in Bots : Sees(s, e)
    BY <1>0, <1>2, TrackedIsSeen
  <1>4. e \in Bots => (selfEntity[e] # 0 <=> Sees(e, e))
    <2>. SUFFICES ASSUME e \in Bots  PROVE  selfEntity[e] # 0 <=> Sees(e, e)  OBVIOUS
    <2>1. Owned(e) /\ made[e] \in Nat  BY <1>0 DEF IndInv, TypeOK
    <2>2. Seen(e, e) => entityMap[e].number # 0  BY <2>1 DEF Owned
    <2>. QED BY <1>2, <2>1, <2>2 DEF Owned
  <1>5. Tracking(e) <=> \/ \E s \in Bots : e \in sight[s]
                        \/ e \in Bots /\ selfEntity[e] # 0
    <2>1. \A s \in Bots : s # e => (Sees(s, e) <=> e \in sight[s])  BY DEF Sees
    <2>2. \A s \in Bots : s = e => e \notin sight[s]  BY <1>0 DEF InSight
    <2>. QED BY <1>3, <1>4, <2>1, <2>2
  <1>6. ASSUME Tracking(e), e \notin missed
        PROVE  /\ entityMap[e].dead = (e \in dead)
               /\ entityMap[e].buffs \subseteq BuffsOf(e)
               /\ e \in Others => entityMap[e].buffs = BuffsOf(e)
    <2>1. Known(e) /\ entityMap[e].buffs \subseteq Tokens  BY <1>0, <1>6 DEF IndInv, TypeOK, Object
    <2>2. entityMap[e].dead = (e \in dead)
      BY <1>1, <1>6, <2>1, Zenon DEF Known, LifeKnown
    <2>3. ASSUME NEW t \in Tokens  PROVE  t \in entityMap[e].buffs => holder[t] = e
      BY <1>1, <2>1 DEF Known, BuffKnown, LossKnown
    <2>4. ASSUME NEW t \in Tokens, e \in Others, holder[t] = e  PROVE  t \in entityMap[e].buffs
      BY <1>1, <1>6, <2>1, <2>4 DEF Known, BuffKnown, GainKnown
    <2>. QED BY <2>1, <2>2, <2>3, <2>4 DEF BuffsOf
  <1>. QED BY <1>5, <1>6

LEMMA EndIsConsistent ==
  ASSUME Ended
  PROVE  Consistent /\ Settled
  BY DEF Ended, Consistent, ErrorsExplained, Settled, Running

(* Whatever the sessions, what they see, and how far each has read: while  *)
(* the process runs an entity is tracked exactly while its count says so,  *)
(* the tokens are those of tracked entities, no handler misses what it     *)
(* looks for, and a bot in its place holds the very object the others'     *)
(* packets change; and the process is ended by a null Self only after a    *)
(* character was reset while another session had yet to read of its coming *)
(* (worldState.cpp, entityTracker.cpp, packetProcessor.cpp:525).           *)
THEOREM ConsistentAlways == Spec => []Consistent
  <1>1. FullInv => Consistent  BY InvIsConsistent, EndIsConsistent DEF FullInv
  <1>. QED BY <1>1, Invariance, PTL

(* Once the sessions have read what they were sent, the world tracks what  *)
(* somebody sees and nothing else, with the life and the buffs it has,     *)
(* save for what changed behind a session's back (entityTracker.cpp:15).   *)
THEOREM SettledAlways == Spec => []Settled
  <1>1. FullInv => Settled  BY InvIsSettled, EndIsConsistent DEF FullInv
  <1>. QED BY <1>1, Invariance, PTL

===============================================================================
