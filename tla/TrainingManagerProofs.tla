------------------------ MODULE TrainingManagerProofs ------------------------
(* Theorems about the two parts of TrainingManager.                        *)
(* 1. ExperienceReplay, for any replay buffer, storage, fights and         *)
(* lookahead: storage, maps and buffer agree, training finds what it looks *)
(* up and gives each transition its own priority, the buffer always has    *)
(* room, finished fights are learned, and the manager keeps to what        *)
(* PriorityPool asks of its user.                                          *)
(* 2. Sessions, for any number of them: each has one conversation with its *)
(* server, no packet of a login is lost and no bot throws on the way.      *)
EXTENDS ExperienceReplay, Sessions, TLAPS, WellFoundedInduction, FiniteSetTheorems, SequenceTheorems

-----------------------------------------------------------------------------
(* 1. ExperienceReplay.                                                    *)

USE ExperienceReplayAssumption

-----------------------------------------------------------------------------
(* The inductive invariants, each relative to those before it.             *)

Mapped == DOMAIN observationIdToTransitionIdMap
Newest == nextId - 1
FightOf(id) == storage[id].pvpId
IndexOf(id) == storage[id].actionIndex
CountOf(pvp) == Cardinality(ObservationsOf(pvp, storage))

(* The observations of a fight have the indices up to their number, in the *)
(* order of their ids.                                                     *)
Numbered ==
  /\ \A id \in Stored : id < nextId /\ IndexOf(id) < CountOf(FightOf(id))
  /\ \A pvp \in PvpId : \A i \in 0..(CountOf(pvp) - 1) :
       \E id \in ObservationsOf(pvp, storage) : IndexOf(id) = i
  /\ \A id, other \in Stored :
       FightOf(id) = FightOf(other) /\ IndexOf(id) <= IndexOf(other) => id <= other

EpisodesMatch ==
  /\ {episodes[k] : k \in DOMAIN episodes} = {FightOf(id) : id \in Stored}
  /\ \A j, k \in DOMAIN episodes : episodes[j] = episodes[k] => j = k

(* A report is of a fight that goes on, and the newest observation is its. *)
ReportMatches ==
  /\ reportPc # "idle" =>
       /\ pvpId \in running
       /\ Newest \in Stored
       /\ FightOf(Newest) = pvpId
       /\ IndexOf(Newest) = CountOf(pvpId) - 1
       /\ storage[Newest].isTerminal = isTerminal
  /\ reportPc # "deleting" => deletedObservationIds = {}
  /\ deletedObservationIds \cap Stored = {}

(* How many observations of a fight have been queued.                      *)
QueuedOf(pvp) ==
  IF reportPc = "deleting" /\ pvpId = pvp THEN CountOf(pvp) - 1 ELSE CountOf(pvp)

Queued(id) == \E pvp \in PvpId : \E k \in DOMAIN pendingObservations[pvp] :
                pendingObservations[pvp][k] = id

(* What is queued is unmapped and queued once.  As far as it is stored, it *)
(* is the end of its fight, which is seen in its indices.                  *)
PendingMatches ==
  /\ \A pvp \in PvpId : pvp \notin running => pendingObservations[pvp] = << >>
  /\ \A pvp \in PvpId : \A k \in DOMAIN pendingObservations[pvp] :
       LET id == pendingObservations[pvp][k]
       IN /\ id < nextId
          /\ id \notin Mapped
          /\ id \in Stored =>
               /\ FightOf(id) = pvp
               /\ IndexOf(id) + Len(pendingObservations[pvp]) - k + 1 = QueuedOf(pvp)
  /\ \A pvp, other \in PvpId :
       \A k \in DOMAIN pendingObservations[pvp], j \in DOMAIN pendingObservations[other] :
         pendingObservations[pvp][k] = pendingObservations[other][j] => pvp = other /\ k = j

(* The newest observation is queued last.                                  *)
NewestLast ==
  /\ reportPc = "deleting" => Newest \notin Mapped /\ ~Queued(Newest)
  /\ reportPc = "lookahead" => Len(pendingObservations[pvpId]) >= kTdLookahead
  /\ reportPc \in {"lookahead", "flush"} /\ pendingObservations[pvpId] # << >> =>
       pendingObservations[pvpId][Len(pendingObservations[pvpId])] = Newest

(* What is mapped is stored or about to be deleted, and while it is stored *)
(* training finds what it needs.                                           *)
MappedMatches ==
  /\ MapsAgree
  /\ currentBufferSize = Cardinality(Mapped)
  /\ \A id \in Mapped :
       transitionIdToObservationIdMap[observationIdToTransitionIdMap[id]] = id
  /\ Mapped \subseteq Stored \cup deletedObservationIds
  /\ \A id \in Mapped \cap Stored : hasPrevious(id) /\ LookaheadFinds(id)

(* A sampled id is still that of the same transition or known as deleted.  *)
SampleMatches ==
  trainPc = "training" =>
    /\ holdingSample
    /\ Len(sampleResult) = kBatchSize
    /\ \A k \in 1..kBatchSize :
         LET t == sampleResult[k][1]
         IN t \notin deletedTransitionIds =>
              /\ t \in DOMAIN priority
              /\ transitionIdToObservationIdMap[t] = sampleResult[k][2]

(* An observation with a predecessor becomes a transition or waits for it. *)
Learned ==
  \A id \in Stored : hasPrevious(id) =>
    \/ id \in Mapped
    \/ Queued(id)
    \/ reportPc = "deleting" /\ id = Newest

IndInv ==
  /\ TypeOK /\ Numbered /\ EpisodesMatch /\ ReportMatches /\ PendingMatches /\ NewestLast
  /\ MappedMatches /\ SampleMatches /\ Learned /\ PriorityIsItsOwn

-----------------------------------------------------------------------------
(* Sequences without repetition, sets of ids.                              *)

Names(s) == {s[k] : k \in DOMAIN s}
Once(s) == \A j, k \in DOMAIN s : s[j] = s[k] => j = k

LEMMA AppendFacts ==
  ASSUME NEW S, NEW s \in Seq(S), NEW e \in S
  PROVE  /\ Names(Append(s, e)) = Names(s) \cup {e}
         /\ Once(s) /\ e \notin Names(s) => Once(Append(s, e))
<1> DEFINE longer == Append(s, e)
           len == Len(s)
<1>1. /\ len \in Nat /\ DOMAIN s = 1..len /\ DOMAIN longer = 1..(len + 1)
      /\ longer[len + 1] = e /\ \A k \in 1..len : longer[k] = s[k]
  OBVIOUS
<1> HIDE DEF longer, len
<1>2. Names(longer) = Names(s) \cup {e}
  <2>1. len + 1 \in DOMAIN longer /\ \A k \in DOMAIN longer : k = len + 1 \/ k \in 1..len
    BY <1>1
  <2> QED BY <1>1, <2>1 DEF Names
<1>3. ASSUME Once(s), e \notin Names(s) PROVE Once(longer)
  <2>1. \A k \in 1..len : longer[k] # e
    BY <1>1, <1>3 DEF Names
  <2> QED BY <1>1, <1>3, <2>1 DEF Once
<1> QED BY <1>2, <1>3 DEF longer

LEMMA TailFacts ==
  ASSUME NEW S, NEW s \in Seq(S), s # << >>, Once(s)
  PROVE  /\ Head(s) \in Names(s) /\ Head(s) \in S
         /\ Names(Tail(s)) = Names(s) \ {Head(s)}
         /\ Once(Tail(s)) /\ Tail(s) \in Seq(S)
<1> DEFINE rest == Tail(s)
           len == Len(s)
           first == Head(s)
<1>1. /\ len \in Nat \ {0} /\ DOMAIN s = 1..len /\ s[1] = first /\ first \in S
      /\ rest \in Seq(S) /\ DOMAIN rest = 1..(len - 1)
      /\ \A k \in 1..(len - 1) : rest[k] = s[k + 1]
  OBVIOUS
<1> HIDE DEF rest, len, first
<1>2. \A j, k \in 1..len : s[j] = s[k] => j = k
  BY <1>1 DEF Once
<1>3. first \in Names(s)
  <2>1. 1 \in DOMAIN s
    BY <1>1
  <2> QED BY <1>1, <2>1 DEF Names
<1>4. Once(rest)
  <2> SUFFICES ASSUME NEW j \in 1..(len - 1), NEW k \in 1..(len - 1), rest[j] = rest[k]
               PROVE  j = k
    BY <1>1 DEF Once
  <2>1. j + 1 \in 1..len /\ k + 1 \in 1..len
    BY <1>1
  <2>2. j + 1 = k + 1
    BY <1>1, <1>2, <2>1
  <2> QED BY <2>2
<1>5. ASSUME NEW k \in 1..(len - 1) PROVE rest[k] \in Names(s) \ {first}
  <2>1. k + 1 \in 1..len /\ k + 1 # 1 /\ 1 \in 1..len
    BY <1>1
  <2>2. rest[k] = s[k + 1] /\ s[k + 1] # first
    BY <1>1, <1>2, <2>1
  <2> QED BY <1>1, <2>1, <2>2 DEF Names
<1>6. ASSUME NEW k \in 1..len, s[k] # first PROVE s[k] \in Names(rest)
  <2>1. k - 1 \in 1..(len - 1) /\ (k - 1) + 1 = k
    BY <1>1, <1>6
  <2>2. rest[k - 1] = s[k]
    BY <1>1, <2>1
  <2> QED BY <1>1, <2>1, <2>2 DEF Names
<1>7. Names(rest) \subseteq Names(s) \ {first}
  BY <1>1, <1>5 DEF Names
<1>8. Names(s) \ {first} \subseteq Names(rest)
  BY <1>1, <1>6 DEF Names
<1>9. Names(rest) = Names(s) \ {first}
  BY <1>7, <1>8
<1> QED BY <1>1, <1>3, <1>4, <1>9 DEF rest, first

LEMMA ObservationsFinite ==
  ASSUME NEW T \in SUBSET ObservationId
  PROVE  IsFiniteSet(T) /\ Cardinality(T) \in Nat
<1>1. IsFiniteSet(ObservationId)
  BY FS_Interval DEF ObservationId
<1>2. IsFiniteSet(T)
  BY <1>1, FS_Subset
<1> QED BY <1>2, FS_CardinalityType

LEMMA CountFacts ==
  ASSUME TypeOK, NEW pvp
  PROVE  /\ ObservationsOf(pvp, storage) \subseteq Stored
         /\ IsFiniteSet(ObservationsOf(pvp, storage)) /\ CountOf(pvp) \in Nat
<1>1. ObservationsOf(pvp, storage) \in SUBSET ObservationId
  BY DEF ObservationsOf, Stored, TypeOK
<1>2. ObservationsOf(pvp, storage) \subseteq Stored
  BY DEF ObservationsOf, Stored
<1> QED BY <1>1, <1>2, ObservationsFinite DEF CountOf

-----------------------------------------------------------------------------
(* The storage and its eviction.                                           *)

Kept == Stored \ OldestIfFull
Known == IF OldestIfFull = {} THEN episodes ELSE Tail(episodes)
KeptOf(pvp) == {id \in Kept : FightOf(id) = pvp}

(* A full storage makes room by forgetting the whole of one fight.         *)
LEMMA Eviction ==
  ASSUME TypeOK, EpisodesMatch
  PROVE  /\ OldestIfFull \subseteq Stored
         /\ Cardinality(Kept) < StorageCapacity /\ Cardinality(Kept) \in Nat
         /\ Known \in Seq(PvpId) /\ Once(Known) /\ Names(Known) = {FightOf(id) : id \in Kept}
         /\ \A pvp \in PvpId : KeptOf(pvp) \in {{}, ObservationsOf(pvp, storage)}
<1>1. /\ Stored \in SUBSET ObservationId /\ Cardinality(Stored) <= StorageCapacity
      /\ StorageCapacity \in Nat /\ StorageCapacity >= 1
      /\ episodes \in Seq(PvpId) /\ Once(episodes)
      /\ Names(episodes) = {FightOf(id) : id \in Stored}
  <2>1. Cardinality(TransitionId) \in Nat
    BY FS_CardinalityType DEF ExperienceReplayAssumption
  <2>2. StorageCapacity \in Nat /\ StorageCapacity >= 1
    BY <2>1 DEF ExperienceReplayAssumption
  <2>3. Once(episodes) /\ Names(episodes) = {FightOf(id) : id \in Stored}
    BY DEF EpisodesMatch, Names, Once
  <2> QED BY <2>2, <2>3 DEF TypeOK
<1>2. IsFiniteSet(Stored) /\ Cardinality(Stored) \in Nat
  BY <1>1, ObservationsFinite
<1>3. CASE Cardinality(Stored) # StorageCapacity
  <2>1. OldestIfFull = {} /\ Kept = Stored /\ Known = episodes
    BY <1>3 DEF OldestIfFull, Kept, Known
  <2>2. \A pvp \in PvpId : KeptOf(pvp) = ObservationsOf(pvp, storage)
    BY <2>1 DEF KeptOf, ObservationsOf, Stored, FightOf
  <2>3. Cardinality(Kept) = Cardinality(Stored)
    BY <2>1, Zenon
  <2> QED BY <1>1, <1>2, <1>3, <2>1, <2>2, <2>3
<1>4. CASE Cardinality(Stored) = StorageCapacity
  <2> DEFINE oldest == Head(episodes)
  <2>1. Stored # {}
    <3>1. Cardinality(Stored) # 0
      BY <1>1, <1>4
    <3> QED BY <1>2, <3>1, FS_EmptySet
  <2>2. episodes # << >>
    <3>1. Names(episodes) # {}
      BY <1>1, <2>1
    <3> QED BY <3>1 DEF Names
  <2>3. /\ oldest \in Names(episodes)
        /\ Names(Tail(episodes)) = Names(episodes) \ {oldest}
        /\ Once(Tail(episodes)) /\ Tail(episodes) \in Seq(PvpId)
    BY <1>1, <2>2, TailFacts
  <2> HIDE DEF oldest
  <2>4. OldestIfFull = {id \in Stored : FightOf(id) = oldest}
    BY <1>4 DEF OldestIfFull, ObservationsOf, Stored, FightOf, oldest
  <2>5. PICK witness \in Stored : FightOf(witness) = oldest
    BY <1>1, <2>3
  <2>6. OldestIfFull # {} /\ OldestIfFull \subseteq Stored
    BY <2>4, <2>5
  <2>7. Known = Tail(episodes)
    BY <2>6 DEF Known
  <2>8. Names(Known) = {FightOf(id) : id \in Kept}
    BY <1>1, <2>3, <2>4, <2>7 DEF Kept
  <2>9. \A pvp \in PvpId : KeptOf(pvp) \in {{}, ObservationsOf(pvp, storage)}
    <3>1. KeptOf(oldest) = {}
      BY <2>4 DEF KeptOf, Kept
    <3>2. ASSUME NEW pvp \in PvpId, pvp # oldest PROVE KeptOf(pvp) = ObservationsOf(pvp, storage)
      BY <2>4, <3>2 DEF KeptOf, Kept, ObservationsOf, Stored, FightOf
    <3> QED BY <3>1, <3>2
  <2>10. Cardinality(Kept) < Cardinality(Stored) /\ Cardinality(Kept) \in Nat
    <3>1. Kept \subseteq Stored /\ Kept # Stored
      BY <2>6 DEF Kept
    <3>2. IsFiniteSet(Kept) /\ Cardinality(Kept) <= Cardinality(Stored)
          /\ Cardinality(Kept) # Cardinality(Stored)
      BY <1>2, <3>1, FS_Subset
    <3>3. Cardinality(Kept) \in Nat
      BY <3>2, FS_CardinalityType
    <3> QED BY <1>2, <3>2, <3>3
  <2> QED BY <1>4, <2>3, <2>6, <2>7, <2>8, <2>9, <2>10
<1> QED BY <1>3, <1>4

KeptCount(pvp) == Cardinality(KeptOf(pvp))

(* What the storage holds after an observation was added.                  *)
Stores(pvp, terminal) ==
  /\ Stored' = Kept \cup {nextId} /\ nextId \notin Stored
  /\ nextId' = nextId + 1
  /\ deletedObservationIds' = OldestIfFull
  /\ \A id \in Kept : storage'[id] = storage[id]
  /\ storage'[nextId] = [pvpId |-> pvp, actionIndex |-> KeptCount(pvp), isTerminal |-> terminal]
  /\ \A p \in PvpId :
       /\ KeptCount(p) \in Nat
       /\ p # pvp => CountOf(p)' = KeptCount(p)
       /\ p = pvp => CountOf(p)' = KeptCount(p) + 1
       /\ \A id : id \in ObservationsOf(p, storage') <=>
                    id \in KeptOf(p) \/ (p = pvp /\ id = nextId)
  /\ episodes' = IF KeptOf(pvp) = {} THEN Append(Known, pvp) ELSE Known

LEMMA AddStores ==
  ASSUME TypeOK, EpisodesMatch, Numbered, NEW pvp \in PvpId, NEW terminal \in BOOLEAN,
         addObservationAndAction(pvp, terminal)
  PROVE  Stores(pvp, terminal)
<1> DEFINE kept == [id \in Kept |-> storage[id]]
           new == [pvpId |-> pvp, actionIndex |-> KeptCount(pvp), isTerminal |-> terminal]
<1>1. OldestIfFull \subseteq Stored /\ Kept \subseteq Stored
  BY Eviction DEF Kept
<1>2. ASSUME NEW p PROVE ObservationsOf(p, kept) = KeptOf(p)
  BY DEF ObservationsOf, KeptOf, FightOf
<1>3. ASSUME NEW p
      PROVE  /\ KeptOf(p) \subseteq Kept /\ IsFiniteSet(KeptOf(p)) /\ KeptCount(p) \in Nat
             /\ KeptCount(p) = 0 <=> KeptOf(p) = {}
  <2>1. KeptOf(p) \in SUBSET ObservationId
    BY <1>1 DEF KeptOf, TypeOK
  <2>2. IsFiniteSet(KeptOf(p)) /\ KeptCount(p) \in Nat
    BY <2>1, ObservationsFinite DEF KeptCount
  <2> QED BY <2>2, FS_EmptySet DEF KeptCount, KeptOf
<1>4. Cardinality(ObservationsOf(pvp, kept)) = KeptCount(pvp)
  BY <1>2, Zenon DEF KeptCount
<1>5. /\ storage' = Put(kept, nextId, new)
      /\ episodes' = IF KeptCount(pvp) = 0 THEN Append(Known, pvp) ELSE Known
      /\ nextId' = nextId + 1
      /\ deletedObservationIds' = OldestIfFull
  <2> DEFINE index == Cardinality(ObservationsOf(pvp, kept))
  <2>1. /\ storage' = Put(kept, nextId,
                          [pvpId |-> pvp, actionIndex |-> index, isTerminal |-> terminal])
        /\ episodes' = IF index = 0 THEN Append(Known, pvp) ELSE Known
        /\ nextId' = nextId + 1
        /\ deletedObservationIds' = OldestIfFull
    BY DEF addObservationAndAction, Kept, Known
  <2> HIDE DEF index
  <2>2. index = KeptCount(pvp)
    BY <1>4 DEF index
  <2> QED BY <2>1, <2>2
<1>6. nextId \notin Stored /\ nextId \in Nat
  BY DEF Numbered, TypeOK
<1> HIDE DEF new
<1>7. /\ Stored' = Kept \cup {nextId} /\ storage'[nextId] = new
      /\ \A id \in Kept : storage'[id] = storage[id]
  BY <1>1, <1>5, <1>6 DEF Put, Stored
<1>8. ASSUME NEW p \in PvpId
      PROVE  /\ KeptCount(p) \in Nat
             /\ p # pvp => CountOf(p)' = KeptCount(p)
             /\ p = pvp => CountOf(p)' = KeptCount(p) + 1
             /\ \A id : id \in ObservationsOf(p, storage') <=>
                          id \in KeptOf(p) \/ (p = pvp /\ id = nextId)
  <2>1. \A id : id \in ObservationsOf(p, storage') <=>
                  id \in KeptOf(p) \/ (p = pvp /\ id = nextId)
    <3>1. ASSUME NEW id
          PROVE  id \in ObservationsOf(p, storage') <=> id \in Stored' /\ storage'[id].pvpId = p
      BY DEF ObservationsOf, Stored
    <3>2. new.pvpId = pvp
      BY DEF new
    <3>3. ASSUME NEW id \in Kept PROVE storage'[id].pvpId = p <=> id \in KeptOf(p)
      BY <1>7 DEF KeptOf, FightOf
    <3>4. nextId \notin KeptOf(p) /\ KeptOf(p) \subseteq Kept
      BY <1>3, <1>1, <1>6
    <3> QED BY <1>7, <3>1, <3>2, <3>3, <3>4
  <2>2. CASE p # pvp
    <3>1. ObservationsOf(p, storage') = KeptOf(p)
      BY <2>1, <2>2, Zenon
    <3>2. CountOf(p)' = KeptCount(p)
      BY <3>1, Zenon DEF CountOf, KeptCount
    <3> QED BY <1>3, <2>1, <2>2, <3>2
  <2>3. CASE p = pvp
    <3>1. ObservationsOf(p, storage') = KeptOf(p) \cup {nextId}
      BY <2>1, <2>3, Zenon
    <3>2. nextId \notin KeptOf(p)
      BY <1>3, <1>1, <1>6
    <3>3. Cardinality(KeptOf(p) \cup {nextId}) = KeptCount(p) + 1
      BY <1>3, <3>2, FS_AddElement DEF KeptCount
    <3>4. CountOf(p)' = KeptCount(p) + 1
      BY <3>1, <3>3, Zenon DEF CountOf
    <3> QED BY <1>3, <2>1, <2>3, <3>4
  <2> QED BY <2>2, <2>3
<1> QED BY <1>3, <1>5, <1>6, <1>7, <1>8 DEF Stores, new

LEMMA AddTypes ==
  ASSUME TypeOK, EpisodesMatch, Numbered, NEW pvp \in PvpId, NEW terminal \in BOOLEAN,
         nextId < MaxObservations, Stores(pvp, terminal)
  PROVE  /\ Stored' \subseteq ObservationId
         /\ \A id \in Stored' :
              storage'[id] \in [pvpId : PvpId, actionIndex : Nat, isTerminal : BOOLEAN]
         /\ Cardinality(Stored') <= StorageCapacity
         /\ episodes' \in Seq(PvpId)
         /\ nextId' \in 0..MaxObservations
         /\ deletedObservationIds' \subseteq ObservationId
<1>1. /\ Stored \subseteq ObservationId /\ nextId \in ObservationId
      /\ Kept \subseteq Stored /\ OldestIfFull \subseteq Stored
  BY Eviction DEF TypeOK, Kept, ObservationId
<1>2. ASSUME NEW id \in Stored'
      PROVE  storage'[id] \in [pvpId : PvpId, actionIndex : Nat, isTerminal : BOOLEAN]
  <2>1. CASE id = nextId
    BY <2>1 DEF Stores
  <2>2. CASE id \in Kept
    BY <1>1, <2>2 DEF Stores, TypeOK
  <2> QED BY <2>1, <2>2 DEF Stores
<1>3. Cardinality(Stored') <= StorageCapacity
  <2>1. Kept \in SUBSET ObservationId /\ nextId \notin Kept
    BY <1>1 DEF Stores
  <2>2. IsFiniteSet(Kept)
    BY <2>1, ObservationsFinite
  <2>3. Cardinality(Kept \cup {nextId}) = Cardinality(Kept) + 1
    BY <2>1, <2>2, FS_AddElement
  <2>4. Cardinality(Stored') = Cardinality(Kept \cup {nextId})
    BY Zenon DEF Stores
  <2>5. StorageCapacity \in Int
    BY DEF ExperienceReplayAssumption
  <2> QED BY <2>3, <2>4, <2>5, Eviction
<1>4. episodes' \in Seq(PvpId)
  BY Eviction DEF Stores
<1> QED BY <1>1, <1>2, <1>3, <1>4 DEF Stores, ObservationId, TypeOK

LEMMA AddNumbers ==
  ASSUME TypeOK, EpisodesMatch, Numbered, NEW pvp \in PvpId, NEW terminal \in BOOLEAN,
         Stores(pvp, terminal)
  PROVE  Numbered'
<1>0. PICK n : n = nextId
  OBVIOUS
<1>1. /\ n \in Nat /\ nextId' = n + 1
      /\ Kept \subseteq Stored /\ \A id \in Kept : id \in Nat /\ id < n
      /\ Stored' = Kept \cup {n} /\ n \notin Kept
  <2>1. \A id \in Stored : id \in Nat /\ id < nextId
    BY DEF TypeOK, ObservationId, Numbered
  <2> QED BY <1>0, <2>1 DEF Stores, Kept, TypeOK
<1>2. ASSUME NEW id \in Kept
      PROVE  /\ FightOf(id)' = FightOf(id) /\ IndexOf(id)' = IndexOf(id)
             /\ FightOf(id) \in PvpId /\ IndexOf(id) \in Nat
             /\ KeptOf(FightOf(id)) = ObservationsOf(FightOf(id), storage)
             /\ IndexOf(id) < KeptCount(FightOf(id))
  <2>1. FightOf(id)' = FightOf(id) /\ IndexOf(id)' = IndexOf(id)
    BY DEF Stores, FightOf, IndexOf
  <2>2. FightOf(id) \in PvpId /\ IndexOf(id) \in Nat
    BY <1>1 DEF TypeOK, FightOf, IndexOf
  <2>3. KeptOf(FightOf(id)) # {}
    BY DEF KeptOf
  <2>4. KeptOf(FightOf(id)) = ObservationsOf(FightOf(id), storage)
    BY <2>2, <2>3, Eviction
  <2>5. KeptCount(FightOf(id)) = CountOf(FightOf(id))
    BY <2>4, Zenon DEF KeptCount, CountOf
  <2>6. IndexOf(id) < CountOf(FightOf(id))
    BY <1>1 DEF Numbered
  <2> QED BY <2>1, <2>2, <2>4, <2>5, <2>6
<1>3. FightOf(n)' = pvp /\ IndexOf(n)' = KeptCount(pvp)
  BY <1>0 DEF Stores, FightOf, IndexOf
<1>4. ASSUME NEW p \in PvpId
      PROVE  /\ KeptCount(p) \in Nat
             /\ p # pvp => CountOf(p)' = KeptCount(p)
             /\ p = pvp => CountOf(p)' = KeptCount(p) + 1
             /\ \A id : id \in ObservationsOf(p, storage') <=>
                          id \in KeptOf(p) \/ (p = pvp /\ id = n)
  BY <1>0 DEF Stores
<1>5. ASSUME NEW id \in Stored' PROVE id < nextId' /\ (IndexOf(id) < CountOf(FightOf(id)))'
  <2>1. CASE id = n
    <3>1. CountOf(pvp)' = KeptCount(pvp) + 1 /\ KeptCount(pvp) \in Nat
      BY <1>4
    <3>2. (CountOf(FightOf(id)))' = CountOf(pvp)'
      BY <1>3, <2>1, Zenon DEF CountOf
    <3>3. IndexOf(id)' = KeptCount(pvp)
      BY <1>3, <2>1
    <3> QED BY <1>1, <2>1, <3>1, <3>2, <3>3
  <2>2. CASE id \in Kept
    <3> DEFINE p == FightOf(id)
    <3>1. /\ p \in PvpId /\ FightOf(id)' = p /\ IndexOf(id)' = IndexOf(id)
          /\ IndexOf(id) < KeptCount(p) /\ IndexOf(id) \in Nat
      BY <1>2, <2>2
    <3> HIDE DEF p
    <3>2. (CountOf(FightOf(id)))' = Cardinality(ObservationsOf(p, storage'))
      BY <3>1, Zenon DEF CountOf
    <3>3. /\ KeptCount(p) \in Nat
          /\ Cardinality(ObservationsOf(p, storage')) \in {KeptCount(p), KeptCount(p) + 1}
      BY <3>1 DEF Stores, CountOf
    <3> QED BY <1>1, <2>2, <3>1, <3>2, <3>3
  <2> QED BY <1>1, <2>1, <2>2
<1>6. ASSUME NEW p \in PvpId, NEW i \in 0..(CountOf(p)' - 1)
      PROVE  \E id \in ObservationsOf(p, storage') : IndexOf(id)' = i
  <2>1. i \in 0..(KeptCount(p) - 1) \/ (p = pvp /\ i = KeptCount(p))
    BY <1>4
  <2>2. CASE i \in 0..(KeptCount(p) - 1)
    <3>1. KeptOf(p) = ObservationsOf(p, storage)
      <4>1. KeptCount(p) # 0
        BY <1>4, <2>2
      <4>2. KeptOf(p) # {}
        BY <4>1, FS_EmptySet DEF KeptCount
      <4> QED BY <4>2, Eviction
    <3>2. KeptCount(p) = CountOf(p)
      BY <3>1, Zenon DEF KeptCount, CountOf
    <3>3. PICK id \in ObservationsOf(p, storage) : IndexOf(id) = i
      BY <2>2, <3>2 DEF Numbered
    <3>4. id \in KeptOf(p) /\ id \in Kept
      BY <3>1, <3>3 DEF KeptOf
    <3>5. id \in ObservationsOf(p, storage') /\ IndexOf(id)' = i
      BY <1>2, <1>4, <3>3, <3>4
    <3> QED BY <3>5
  <2>3. CASE p = pvp /\ i = KeptCount(p)
    BY <1>3, <1>4, <2>3
  <2> QED BY <2>1, <2>2, <2>3
<1>7. ASSUME NEW id \in Stored', NEW other \in Stored',
             FightOf(id)' = FightOf(other)', IndexOf(id)' <= IndexOf(other)'
      PROVE  id <= other
  <2>1. CASE id \in Kept /\ other \in Kept
    <3>1. FightOf(id) = FightOf(other) /\ IndexOf(id) <= IndexOf(other)
      BY <1>2, <1>7, <2>1
    <3> QED BY <1>1, <2>1, <3>1 DEF Numbered
  <2>2. CASE id = n /\ other \in Kept
    <3>1. FightOf(other) = pvp /\ IndexOf(other) < KeptCount(FightOf(other))
      BY <1>2, <1>3, <1>7, <2>2
    <3>2. IndexOf(other) < KeptCount(pvp) /\ KeptCount(pvp) <= IndexOf(other)
      BY <1>2, <1>3, <1>7, <2>2, <3>1
    <3>3. IndexOf(other) \in Nat /\ KeptCount(pvp) \in Nat
      BY <1>2, <1>4, <2>2
    <3> QED BY <3>2, <3>3
  <2>3. CASE other = n
    BY <1>1, <2>3
  <2> QED BY <1>1, <2>1, <2>2, <2>3
<1> QED BY <1>5, <1>6, <1>7 DEF Numbered

LEMMA AddEpisodes ==
  ASSUME TypeOK, EpisodesMatch, Numbered, NEW pvp \in PvpId, NEW terminal \in BOOLEAN,
         Stores(pvp, terminal)
  PROVE  EpisodesMatch'
<1>1. /\ Known \in Seq(PvpId) /\ Once(Known) /\ Names(Known) = {FightOf(id) : id \in Kept}
  BY Eviction
<1>2. {FightOf(id)' : id \in Stored'} = {FightOf(id) : id \in Kept} \cup {pvp}
  <2>1. PICK n : n = nextId
    OBVIOUS
  <2>2. \A id \in Kept : FightOf(id)' = FightOf(id)
    BY DEF Stores, FightOf
  <2>3. FightOf(n)' = pvp
    BY <2>1 DEF Stores, FightOf
  <2>4. Stored' = Kept \cup {n}
    BY <2>1 DEF Stores
  <2> QED BY <2>2, <2>3, <2>4
<1>3. KeptOf(pvp) = {} <=> pvp \notin Names(Known)
  BY <1>1 DEF KeptOf
<1>4. Once(episodes') /\ Names(episodes') = Names(Known) \cup {pvp}
  <2>1. CASE KeptOf(pvp) = {}
    BY <1>1, <1>3, <2>1, AppendFacts DEF Stores
  <2>2. CASE KeptOf(pvp) # {}
    <3>1. episodes' = Known
      BY <2>2 DEF Stores
    <3> QED BY <1>1, <1>3, <2>2, <3>1
  <2> QED BY <2>1, <2>2
<1> QED BY <1>1, <1>2, <1>4 DEF EpisodesMatch, Names, Once

-----------------------------------------------------------------------------
(* A report.                                                               *)

(* What adding an observation leaves of the observations that stay.        *)
LEMMA KeptFacts ==
  ASSUME TypeOK, EpisodesMatch, Numbered, NEW pvp \in PvpId, NEW terminal \in BOOLEAN,
         Stores(pvp, terminal), NEW id \in Kept
  PROVE  /\ id \in Stored /\ id \in Stored'
         /\ FightOf(id)' = FightOf(id) /\ IndexOf(id)' = IndexOf(id)
         /\ FightOf(id) \in PvpId
         /\ KeptOf(FightOf(id)) = ObservationsOf(FightOf(id), storage)
         /\ KeptCount(FightOf(id)) = CountOf(FightOf(id))
         /\ hasPrevious(id) <=> hasPrevious(id)'
         /\ LookaheadFinds(id) => LookaheadFinds(id)'
<1> DEFINE p == FightOf(id)
<1>1. id \in Stored /\ id \in Stored' /\ storage'[id] = storage[id]
  BY DEF Kept, Stores
<1>2. FightOf(id)' = p /\ IndexOf(id)' = IndexOf(id) /\ (hasPrevious(id) <=> hasPrevious(id)')
  BY <1>1 DEF FightOf, IndexOf, hasPrevious
<1>3. p \in PvpId
  BY <1>1 DEF TypeOK, FightOf
<1>4. KeptOf(p) = ObservationsOf(p, storage)
  <2>1. KeptOf(p) # {}
    BY DEF KeptOf
  <2> QED BY <1>3, <2>1, Eviction
<1>5. KeptCount(p) = CountOf(p)
  BY <1>4, Zenon DEF KeptCount, CountOf
<1>6. ASSUME NEW offset \in Int, NEW n \in Neighbours(id, offset)
      PROVE  n \in Neighbours(id, offset)' /\ storage'[n] = storage[n]
  <2>1. n \in Stored /\ FightOf(n) = p /\ IndexOf(n) = IndexOf(id) + offset
    BY <1>6 DEF Neighbours, FightOf, IndexOf
  <2>2. n \in Kept
    BY <1>4, <2>1 DEF KeptOf, ObservationsOf, FightOf, Stored
  <2>3. n \in Stored' /\ storage'[n] = storage[n]
    BY <2>2 DEF Stores
  <2> QED BY <1>1, <2>1, <2>3 DEF Neighbours, FightOf, IndexOf
<1>7. LookaheadFinds(id) => LookaheadFinds(id)'
  <2> SUFFICES ASSUME LookaheadFinds(id), NEW offset \in 1..(kTdLookahead - 1)
               PROVE  \/ Neighbours(id, offset)' # {}
                      \/ \E earlier \in 0..(offset - 1) :
                           \E n \in Neighbours(id, earlier)' : storage'[n].isTerminal
    BY DEF LookaheadFinds
  <2>1. CASE Neighbours(id, offset) # {}
    BY <1>6, <2>1
  <2>2. CASE \E earlier \in 0..(offset - 1) :
               \E n \in Neighbours(id, earlier) : storage[n].isTerminal
    <3>1. PICK earlier \in 0..(offset - 1) :
                 \E n \in Neighbours(id, earlier) : storage[n].isTerminal
      BY <2>2
    <3>2. PICK n \in Neighbours(id, earlier) : storage[n].isTerminal
      BY <3>1
    <3>3. n \in Neighbours(id, earlier)' /\ storage'[n] = storage[n]
      BY <1>6, <3>2
    <3> QED BY <3>2, <3>3
  <2> QED BY <2>1, <2>2 DEF LookaheadFinds
<1> QED BY <1>1, <1>2, <1>3, <1>4, <1>5, <1>7

LEMMA ReportStep ==
  ASSUME IndInv, NEW pvp \in running, NEW terminal \in BOOLEAN, Report(pvp, terminal)
  PROVE  IndInv'
<1> USE DEF IndInv
<1>1. pvp \in PvpId
  BY DEF TypeOK, PvpId, ExperienceReplayAssumption
<1>2. Stores(pvp, terminal)
  BY <1>1, AddStores DEF Report
<1>3. PICK n : n = nextId
  OBVIOUS
<1>4. /\ n \in Nat /\ n < MaxObservations /\ nextId' = n + 1 /\ Newest' = n
      /\ Stored' = Kept \cup {n} /\ n \notin Stored /\ Kept \subseteq Stored
      /\ \A id \in Stored : id < n
      /\ deletedObservationIds' = OldestIfFull /\ deletedObservationIds = {}
  BY <1>2, <1>3 DEF Report, Stores, Kept, Newest, TypeOK, ReportMatches, Numbered
<1>5. /\ reportPc = "idle" /\ reportPc' = "deleting" /\ pvpId' = pvp /\ isTerminal' = terminal
      /\ UNCHANGED <<bufferVars, mapVars, pendingObservations, sampleVars, fightVars, trainVars>>
  BY DEF Report
<1>6. TypeOK'
  <2>1. nextId < MaxObservations
    BY <1>5 DEF Report
  <2> QED BY <1>1, <1>2, <1>5, <2>1, AddTypes
          DEF TypeOK, bufferVars, mapVars, sampleVars, fightVars, trainVars
<1>7. Numbered' /\ EpisodesMatch'
  BY <1>1, <1>2, AddNumbers, AddEpisodes
<1>8. ASSUME NEW id \in Kept
      PROVE  /\ id \in Stored /\ id \in Stored'
             /\ FightOf(id)' = FightOf(id) /\ IndexOf(id)' = IndexOf(id)
             /\ FightOf(id) \in PvpId
             /\ KeptCount(FightOf(id)) = CountOf(FightOf(id))
             /\ hasPrevious(id) <=> hasPrevious(id)'
             /\ LookaheadFinds(id) => LookaheadFinds(id)'
  BY <1>1, <1>2, KeptFacts
<1>9. ReportMatches'
  <2>1. storage'[n] = [pvpId |-> pvp, actionIndex |-> KeptCount(pvp), isTerminal |-> terminal]
    BY <1>2, <1>3 DEF Stores
  <2>2. FightOf(n)' = pvp /\ IndexOf(n)' = KeptCount(pvp) /\ storage'[n].isTerminal = terminal
    BY <2>1 DEF FightOf, IndexOf
  <2>3. KeptCount(pvp) = CountOf(pvp)' - 1
    BY <1>1, <1>2 DEF Stores
  <2>4. OldestIfFull \cap Stored' = {}
    BY <1>4, Eviction DEF Kept
  <2>5. pvp \in running'
    BY <1>5 DEF fightVars
  <2>6. (FightOf(Newest))' = pvp /\ (IndexOf(Newest))' = CountOf(pvp)' - 1
        /\ (storage[Newest].isTerminal)' = terminal
    BY <1>4, <2>2, <2>3 DEF FightOf, IndexOf
  <2>7. (CountOf(pvpId))' = CountOf(pvp)'
    BY <1>5 DEF CountOf
  <2> QED BY <1>4, <1>5, <2>4, <2>5, <2>6, <2>7 DEF ReportMatches
<1>10. PendingMatches'
  <2>1. ASSUME NEW p \in PvpId, NEW k \in DOMAIN pendingObservations[p],
               pendingObservations[p][k] \in Stored'
        PROVE  /\ pendingObservations[p][k] \in Kept
               /\ QueuedOf(p)' = QueuedOf(p)
    <3> DEFINE id == pendingObservations[p][k]
    <3>1. id < n /\ (id \in Stored => FightOf(id) = p)
      BY <1>3 DEF PendingMatches
    <3>2. id \in Kept
      BY <1>4, <2>1, <3>1
    <3>3. FightOf(id) = p /\ KeptCount(p) = CountOf(p)
      BY <1>8, <3>1, <3>2
    <3>4. /\ KeptCount(p) \in Nat
          /\ p # pvp => CountOf(p)' = KeptCount(p)
          /\ p = pvp => CountOf(p)' = KeptCount(p) + 1
      BY <1>2 DEF Stores
    <3>5. QueuedOf(p) = CountOf(p)
      BY <1>5 DEF QueuedOf
    <3>6. QueuedOf(p)' = KeptCount(p)
      BY <1>5, <3>4 DEF QueuedOf
    <3> QED BY <3>2, <3>3, <3>5, <3>6
  <2>2. ASSUME NEW p \in PvpId, NEW k \in DOMAIN pendingObservations[p],
               NEW id, id = pendingObservations[p][k]
        PROVE  /\ id < nextId' /\ id \notin Mapped'
               /\ id \in Stored' =>
                    /\ FightOf(id)' = p
                    /\ IndexOf(id)' + Len(pendingObservations[p]) - k + 1 = QueuedOf(p)'
    <3>1. /\ id < n /\ id \notin Mapped
          /\ id \in Stored =>
               /\ FightOf(id) = p
               /\ IndexOf(id) + Len(pendingObservations[p]) - k + 1 = QueuedOf(p)
      BY <1>3, <2>2 DEF PendingMatches
    <3>2. id < n + 1
      <4>1. id \in Int
        BY <2>2 DEF TypeOK, ObservationId
      <4> QED BY <1>4, <3>1, <4>1
    <3>3. Mapped' = Mapped
      BY <1>5 DEF Mapped, mapVars
    <3>4. ASSUME id \in Stored'
          PROVE  FightOf(id)' = p
                 /\ IndexOf(id)' + Len(pendingObservations[p]) - k + 1 = QueuedOf(p)'
      <4>1. id \in Kept /\ QueuedOf(p)' = QueuedOf(p)
        BY <2>1, <2>2, <3>4
      <4>2. id \in Stored /\ FightOf(id)' = FightOf(id) /\ IndexOf(id)' = IndexOf(id)
        BY <1>8, <4>1
      <4> QED BY <3>1, <4>1, <4>2
    <3> QED BY <1>4, <3>1, <3>2, <3>3, <3>4
  <2>3. pendingObservations' = pendingObservations /\ running' = running
    BY <1>5 DEF fightVars
  <2> QED BY <2>2, <2>3 DEF PendingMatches
<1>11. NewestLast'
  <2>1. n \notin Mapped
    BY <1>4 DEF MappedMatches
  <2>2. ~Queued(n)
    BY <1>3, <1>4 DEF Queued, PendingMatches
  <2>3. ~(Queued(Newest))' /\ Newest' \notin Mapped'
    BY <1>4, <1>5, <2>1, <2>2 DEF Queued, Mapped, mapVars
  <2> QED BY <1>5, <2>3 DEF NewestLast
<1>12. MappedMatches'
  <2>1. Mapped \subseteq Stored /\ n \notin Mapped /\ Mapped' = Mapped
    BY <1>4, <1>5 DEF MappedMatches, Mapped, mapVars
  <2>2. Mapped \subseteq Kept \cup OldestIfFull
    BY <2>1 DEF Kept
  <2>3. ASSUME NEW id \in Mapped \cap Stored' PROVE hasPrevious(id)' /\ LookaheadFinds(id)'
    <3>1. id \in Kept /\ id \in Stored
      BY <1>4, <2>1
    <3>2. hasPrevious(id) /\ LookaheadFinds(id)
      BY <2>1, <3>1 DEF MappedMatches
    <3> QED BY <1>8, <3>1, <3>2
  <2>4. Mapped' \subseteq Stored' \cup deletedObservationIds'
    BY <1>4, <2>1, <2>2
  <2>5. /\ MapsAgree' /\ (currentBufferSize = Cardinality(Mapped))'
        /\ (\A id \in Mapped :
              transitionIdToObservationIdMap[observationIdToTransitionIdMap[id]] = id)'
    BY <1>5 DEF MappedMatches, MapsAgree, Mapped, mapVars, bufferVars
  <2> QED BY <2>1, <2>3, <2>4, <2>5 DEF MappedMatches
<1>13. SampleMatches' /\ PriorityIsItsOwn'
  BY <1>5 DEF SampleMatches, PriorityIsItsOwn, mapVars, bufferVars, sampleVars, trainVars
<1>14. Learned'
  <2> SUFFICES ASSUME NEW id \in Stored', hasPrevious(id)', id # n
               PROVE  (id \in Mapped)' \/ Queued(id)'
    BY <1>4, <1>5 DEF Learned
  <2>1. id \in Kept
    BY <1>4
  <2>2. id \in Stored /\ hasPrevious(id)
    BY <1>8, <2>1
  <2>3. id \in Mapped \/ Queued(id)
    BY <1>5, <2>2 DEF Learned
  <2> QED BY <1>5, <2>3 DEF Queued, Mapped, mapVars
<1> QED BY <1>6, <1>7, <1>9, <1>10, <1>11, <1>12, <1>13, <1>14

-----------------------------------------------------------------------------
(* The other steps of the timer thread.                                    *)

StorageSame ==
  /\ Stored' = Stored /\ nextId' = nextId /\ Newest' = Newest
  /\ \A id : /\ FightOf(id)' = FightOf(id) /\ IndexOf(id)' = IndexOf(id)
             /\ storage'[id] = storage[id]
             /\ hasPrevious(id) <=> hasPrevious(id)'
             /\ LookaheadFinds(id) <=> LookaheadFinds(id)'
  /\ \A pvp : CountOf(pvp)' = CountOf(pvp)

(* Only a report changes what is stored.                                   *)
LEMMA StorageFrame ==
  ASSUME Numbered, EpisodesMatch, UNCHANGED storageVars
  PROVE  StorageSame /\ Numbered' /\ EpisodesMatch'
<1>1. storage' = storage /\ episodes' = episodes /\ nextId' = nextId
  BY DEF storageVars
<1>2. Stored' = Stored /\ Newest' = Newest
  BY <1>1 DEF Stored, Newest
<1>3. ASSUME NEW id
      PROVE  /\ FightOf(id)' = FightOf(id) /\ IndexOf(id)' = IndexOf(id)
             /\ hasPrevious(id) <=> hasPrevious(id)'
             /\ LookaheadFinds(id) <=> LookaheadFinds(id)'
  <2>1. FightOf(id)' = FightOf(id) /\ IndexOf(id)' = IndexOf(id)
        /\ (hasPrevious(id) <=> hasPrevious(id)')
    BY <1>1 DEF FightOf, IndexOf, hasPrevious
  <2>2. \A offset : Neighbours(id, offset)' = Neighbours(id, offset)
    BY <1>1 DEF Neighbours, Stored
  <2>3. LookaheadFinds(id) <=> LookaheadFinds(id)'
    BY <1>1, <2>2 DEF LookaheadFinds
  <2> QED BY <2>1, <2>3
<1>4. \A pvp : CountOf(pvp)' = CountOf(pvp)
  BY <1>1 DEF CountOf, ObservationsOf
<1>5. StorageSame
  BY <1>1, <1>2, <1>3, <1>4 DEF StorageSame
<1>6. Numbered'
  BY <1>1 DEF Numbered, Stored, FightOf, IndexOf, CountOf, ObservationsOf
<1>7. EpisodesMatch'
  BY <1>1 DEF EpisodesMatch, Stored, FightOf
<1> QED BY <1>5, <1>6, <1>7

LEMMA StartPvpStep ==
  ASSUME IndInv, StartPvp
  PROVE  IndInv'
<1> USE DEF IndInv
<1>1. /\ reportPc = "idle" /\ pvpCount < MaxPvps
      /\ running' = running \cup {pvpCount} /\ pvpCount' = pvpCount + 1
      /\ UNCHANGED <<storageVars, bufferVars, mapVars, pendingObservations, sampleVars,
                     reportVars, trainVars>>
  BY DEF StartPvp
<1>2. StorageSame /\ Numbered' /\ EpisodesMatch'
  BY <1>1, StorageFrame
<1>3. TypeOK'
  <2>1. running' \subseteq 0..(pvpCount' - 1) /\ pvpCount' \in 0..MaxPvps
    <3>1. MaxPvps \in Nat /\ pvpCount \in 0..MaxPvps /\ running \subseteq 0..(pvpCount - 1)
      BY DEF TypeOK, ExperienceReplayAssumption
    <3>2. pvpCount' \in 0..MaxPvps /\ 0..(pvpCount' - 1) = (0..(pvpCount - 1)) \cup {pvpCount}
      BY <1>1, <3>1
    <3> QED BY <1>1, <3>1, <3>2
  <2> QED BY <1>1, <2>1 DEF TypeOK, storageVars, bufferVars, sampleVars, reportVars, trainVars,
                            Stored
<1>4. ReportMatches'
  BY <1>1, <1>2 DEF ReportMatches, StorageSame, reportVars
<1>5. PendingMatches'
  <2>1. \A pvp : QueuedOf(pvp)' = QueuedOf(pvp)
    BY <1>1, <1>2 DEF QueuedOf, StorageSame, reportVars
  <2>2. pendingObservations' = pendingObservations /\ Mapped' = Mapped
    BY <1>1 DEF Mapped, mapVars
  <2> QED BY <1>1, <1>2, <2>1, <2>2 DEF PendingMatches, StorageSame
<1>6. NewestLast' /\ SampleMatches' /\ PriorityIsItsOwn'
  BY <1>1, <1>2 DEF NewestLast, SampleMatches, PriorityIsItsOwn, StorageSame, reportVars, mapVars,
                    bufferVars, sampleVars, trainVars
<1>7. MappedMatches'
  BY <1>1, <1>2 DEF MappedMatches, MapsAgree, Mapped, StorageSame, reportVars, mapVars, bufferVars
<1>8. Learned'
  BY <1>1, <1>2 DEF Learned, Queued, Mapped, StorageSame, reportVars, mapVars
<1> QED BY <1>2, <1>3, <1>4, <1>5, <1>6, <1>7, <1>8

LEMMA ReportReturnsStep ==
  ASSUME IndInv, ReportReturns
  PROVE  IndInv'
<1> USE DEF IndInv
<1>1. /\ reportPc = "flush" /\ reportPc' = "idle"
      /\ isTerminal => pendingObservations[pvpId] = << >>
      /\ running' = IF isTerminal THEN running \ {pvpId} ELSE running
      /\ UNCHANGED <<storageVars, bufferVars, mapVars, pendingObservations, sampleVars, pvpCount,
                     pvpId, isTerminal, deletedObservationIds, trainVars>>
  BY DEF ReportReturns
<1>2. StorageSame /\ Numbered' /\ EpisodesMatch'
  BY <1>1, StorageFrame
<1>3. TypeOK'
  <2>1. running' \subseteq running
    BY <1>1
  <2> QED BY <1>1, <2>1 DEF TypeOK, storageVars, bufferVars, sampleVars, trainVars, Stored
<1>4. ReportMatches'
  BY <1>1, <1>2 DEF ReportMatches, StorageSame
<1>5. PendingMatches'
  <2>1. \A pvp : QueuedOf(pvp)' = QueuedOf(pvp)
    BY <1>1, <1>2 DEF QueuedOf, StorageSame
  <2>2. pendingObservations' = pendingObservations /\ Mapped' = Mapped
    BY <1>1 DEF Mapped, mapVars
  <2>3. \A pvp \in PvpId : pvp \notin running' => pendingObservations[pvp] = << >>
    BY <1>1 DEF PendingMatches
  <2> QED BY <1>2, <2>1, <2>2, <2>3 DEF PendingMatches, StorageSame
<1>6. NewestLast' /\ SampleMatches' /\ PriorityIsItsOwn'
  BY <1>1, <1>2 DEF NewestLast, SampleMatches, PriorityIsItsOwn, mapVars, bufferVars, sampleVars,
                    trainVars
<1>7. MappedMatches'
  BY <1>1, <1>2 DEF MappedMatches, MapsAgree, Mapped, StorageSame, mapVars, bufferVars
<1>8. Learned'
  BY <1>1, <1>2 DEF Learned, Queued, Mapped, StorageSame, mapVars
<1> QED BY <1>2, <1>3, <1>4, <1>5, <1>6, <1>7, <1>8

LEMMA QueueObservationStep ==
  ASSUME IndInv, QueueObservation
  PROVE  IndInv'
<1> USE DEF IndInv
<1> DEFINE q == pendingObservations[pvpId]
           longer == Append(q, Newest)
           len == Len(q)
<1>1. /\ reportPc = "deleting" /\ deletedObservationIds = {}
      /\ pendingObservations' = [pendingObservations EXCEPT ![pvpId] = longer]
      /\ reportPc' = IF Len(pendingObservations'[pvpId]) >= kTdLookahead THEN "lookahead"
                     ELSE "flush"
      /\ UNCHANGED <<storageVars, bufferVars, mapVars, sampleVars, fightVars, pvpId, isTerminal,
                     deletedObservationIds, trainVars>>
  BY DEF QueueObservation, Newest
<1>2. StorageSame /\ Numbered' /\ EpisodesMatch'
  BY <1>1, StorageFrame
<1>3. /\ pvpId \in PvpId /\ pvpId \in running /\ q \in Seq(ObservationId)
      /\ Newest \in Stored /\ Newest \in ObservationId /\ Newest < nextId
      /\ FightOf(Newest) = pvpId /\ IndexOf(Newest) = CountOf(pvpId) - 1
      /\ Newest \notin Mapped /\ ~Queued(Newest)
  BY <1>1 DEF TypeOK, ReportMatches, NewestLast, Numbered
<1>4. /\ longer \in Seq(ObservationId) /\ len \in Nat
      /\ Len(longer) = len + 1 /\ DOMAIN longer = 1..(len + 1) /\ DOMAIN q = 1..len
      /\ longer[len + 1] = Newest /\ \A k \in 1..len : longer[k] = q[k]
  BY <1>3
<1> HIDE DEF longer, len
<1>5. /\ pendingObservations' \in [PvpId -> Seq(ObservationId)]
      /\ pendingObservations'[pvpId] = longer
      /\ \A p \in PvpId \ {pvpId} : pendingObservations'[p] = pendingObservations[p]
  BY <1>1, <1>3, <1>4 DEF TypeOK
<1>6. reportPc' \in {"lookahead", "flush"} /\ (reportPc' = "lookahead" => len + 1 >= kTdLookahead)
  BY <1>1, <1>4, <1>5
<1>7. TypeOK'
  BY <1>1, <1>5, <1>6 DEF TypeOK, storageVars, bufferVars, sampleVars, fightVars, trainVars, Stored
<1>8. ReportMatches'
  BY <1>1, <1>2, <1>6 DEF ReportMatches, StorageSame, fightVars
<1>9. PendingMatches'
  <2>1. ASSUME NEW p \in PvpId, p \notin running' PROVE pendingObservations'[p] = << >>
    BY <1>1, <1>3, <1>5, <2>1 DEF PendingMatches, fightVars
  <2>2. ASSUME NEW p \in PvpId, NEW k \in DOMAIN pendingObservations'[p],
               NEW id, id = pendingObservations'[p][k]
        PROVE  /\ id < nextId' /\ id \notin Mapped'
               /\ id \in Stored' =>
                    /\ FightOf(id)' = p
                    /\ IndexOf(id)' + Len(pendingObservations'[p]) - k + 1 = QueuedOf(p)'
    <3>1. Mapped' = Mapped
      BY <1>1 DEF Mapped, mapVars
    <3>2. QueuedOf(p)' = CountOf(p) /\ CountOf(p) \in Nat
      BY <1>1, <1>2, <1>6, CountFacts DEF QueuedOf, StorageSame
    <3>3. CASE p # pvpId
      <4>1. QueuedOf(p) = CountOf(p)
        BY <1>1, <3>3 DEF QueuedOf
      <4> QED BY <1>2, <1>5, <2>2, <3>1, <3>2, <3>3, <4>1 DEF PendingMatches, StorageSame
    <3>4. CASE p = pvpId /\ k = len + 1
      <4>1. id = Newest /\ Len(pendingObservations'[p]) = len + 1
        BY <1>4, <1>5, <2>2, <3>4
      <4>2. IndexOf(id)' = CountOf(p) - 1 /\ FightOf(id)' = p
        BY <1>2, <1>3, <3>4, <4>1 DEF StorageSame
      <4>3. IndexOf(id)' + (len + 1) - k + 1 = CountOf(p)
        BY <1>4, <3>2, <3>4, <4>2
      <4> QED BY <1>2, <1>3, <3>1, <3>2, <4>1, <4>2, <4>3 DEF StorageSame
    <3>5. CASE p = pvpId /\ k \in 1..len
      <4>1. id = q[k] /\ Len(pendingObservations'[p]) = len + 1 /\ k \in DOMAIN q
        BY <1>4, <1>5, <2>2, <3>5
      <4>2. QueuedOf(p) = CountOf(p) - 1
        BY <1>1, <3>5 DEF QueuedOf
      <4>3. /\ id < nextId /\ id \notin Mapped
            /\ id \in Stored => FightOf(id) = p /\ IndexOf(id) + len - k + 1 = QueuedOf(p)
        BY <1>3, <3>5, <4>1 DEF PendingMatches, len
      <4>4. ASSUME id \in Stored PROVE IndexOf(id) + (len + 1) - k + 1 = CountOf(p)
        <5>1. IndexOf(id) \in Nat
          BY <4>4 DEF TypeOK, IndexOf
        <5> QED BY <1>4, <3>2, <3>5, <4>2, <4>3, <4>4, <5>1
      <4> QED BY <1>2, <3>1, <3>2, <4>1, <4>3, <4>4 DEF StorageSame
    <3>6. k \in DOMAIN longer \/ p # pvpId
      BY <1>5
    <3>7. (p = pvpId /\ k = len + 1) \/ (p = pvpId /\ k \in 1..len) \/ p # pvpId
      BY <1>4, <3>6
    <3> QED BY <3>3, <3>4, <3>5, <3>7
  <2>3. ASSUME NEW p \in PvpId, NEW other \in PvpId,
               NEW k \in DOMAIN pendingObservations'[p],
               NEW j \in DOMAIN pendingObservations'[other],
               pendingObservations'[p][k] = pendingObservations'[other][j]
        PROVE  p = other /\ k = j
    <3>1. ASSUME NEW r \in PvpId, NEW i \in DOMAIN pendingObservations'[r]
          PROVE  \/ /\ i \in DOMAIN pendingObservations[r]
                    /\ pendingObservations'[r][i] = pendingObservations[r][i]
                    /\ pendingObservations[r][i] # Newest
                 \/ r = pvpId /\ i = len + 1 /\ pendingObservations'[r][i] = Newest
      <4>1. CASE r # pvpId
        BY <1>3, <1>5, <4>1 DEF Queued
      <4>2. CASE r = pvpId
        <5>1. i \in 1..(len + 1) /\ pendingObservations'[r][i] = longer[i]
          BY <1>4, <1>5, <4>2
        <5>2. CASE i = len + 1
          BY <1>4, <4>2, <5>1, <5>2
        <5>3. CASE i \in 1..len
          <6>1. i \in DOMAIN pendingObservations[r]
                /\ pendingObservations'[r][i] = pendingObservations[r][i]
            BY <1>4, <4>2, <5>1, <5>3
          <6> QED BY <1>3, <6>1 DEF Queued
        <5> QED BY <1>4, <5>1, <5>2, <5>3
      <4> QED BY <4>1, <4>2
    <3>2. CASE pendingObservations'[p][k] = Newest
      BY <2>3, <3>1, <3>2
    <3>3. CASE pendingObservations'[p][k] # Newest
      BY <2>3, <3>1, <3>3 DEF PendingMatches
    <3> QED BY <3>2, <3>3
  <2> QED BY <2>1, <2>2, <2>3 DEF PendingMatches
<1>10. NewestLast'
  <2>1. (pendingObservations[pvpId])' = longer
    BY <1>1, <1>5
  <2>2. Len(longer) = len + 1 /\ longer[Len(longer)] = Newest
    BY <1>4
  <2> QED BY <1>2, <1>6, <2>1, <2>2 DEF NewestLast, StorageSame
<1>11. SampleMatches' /\ PriorityIsItsOwn'
  BY <1>1 DEF SampleMatches, PriorityIsItsOwn, mapVars, bufferVars, sampleVars, trainVars
<1>12. MappedMatches'
  BY <1>1, <1>2 DEF MappedMatches, MapsAgree, Mapped, StorageSame, mapVars, bufferVars
<1>13. Learned'
  <2>1. (Queued(Newest))'
    <3>1. len + 1 \in DOMAIN pendingObservations'[pvpId]
          /\ pendingObservations'[pvpId][len + 1] = Newest
      BY <1>4, <1>5
    <3> QED BY <1>1, <1>2, <1>3, <3>1 DEF Queued, StorageSame
  <2>2. ASSUME NEW id, Queued(id) PROVE Queued(id)'
    <3>1. PICK p \in PvpId : \E k \in DOMAIN pendingObservations[p] :
                               pendingObservations[p][k] = id
      BY <2>2 DEF Queued
    <3>2. PICK k \in DOMAIN pendingObservations[p] : pendingObservations[p][k] = id
      BY <3>1
    <3>3. k \in DOMAIN pendingObservations'[p] /\ pendingObservations'[p][k] = id
      <4>1. CASE p # pvpId
        BY <1>5, <3>2, <4>1
      <4>2. CASE p = pvpId
        <5>1. k \in 1..len /\ q[k] = id
          BY <1>4, <3>2, <4>2
        <5>2. k \in DOMAIN longer /\ longer[k] = id
          BY <1>4, <5>1
        <5> QED BY <1>5, <4>2, <5>2
      <4> QED BY <4>1, <4>2
    <3> QED BY <3>3 DEF Queued
  <2>3. ASSUME NEW id \in Stored', hasPrevious(id)' PROVE (id \in Mapped)' \/ Queued(id)'
    <3>1. id \in Stored /\ hasPrevious(id)
      BY <1>2, <2>3 DEF StorageSame
    <3>2. id \in Mapped \/ Queued(id) \/ id = Newest
      BY <3>1 DEF Learned
    <3>3. Mapped' = Mapped /\ Newest' = Newest
      BY <1>1, <1>2 DEF Mapped, mapVars, StorageSame
    <3>4. id = Newest => Queued(id)'
      BY <2>1, <3>3 DEF Queued
    <3> QED BY <2>2, <3>2, <3>3, <3>4
  <2> QED BY <2>3 DEF Learned
<1> QED BY <1>2, <1>7, <1>8, <1>9, <1>10, <1>11, <1>12, <1>13

(* A set of naturals with an element has a least one.                      *)
LEMMA Least ==
  ASSUME NEW T \in SUBSET Nat, T # {}
  PROVE  \E x \in T : \A y \in T : x <= y
<1> DEFINE R == {ss \in Nat \X Nat : ss[1] < ss[2]}
<1>1. IsWellFoundedOn(R, Nat)
  BY NatLessThanWellFounded DEF OpToRel
<1>2. \A x, y \in Nat : y < x => <<y, x>> \in R
  OBVIOUS
<1>3. PICK x \in T : \A y \in T : <<y, x>> \notin R
  <2> HIDE DEF R
  <2> QED BY <1>1, WFMin
<1>4. ASSUME NEW y \in T PROVE x <= y
  <2>1. ~(y < x)
    <3> HIDE DEF R
    <3> QED BY <1>2, <1>3
  <2> QED BY <2>1
<1> QED BY <1>4

LEMMA MinMember ==
  ASSUME NEW T \in SUBSET Nat, T # {}
  PROVE  Min(T) \in T
BY Least DEF Min

LEMMA MaxMember ==
  ASSUME NEW bound \in Nat, NEW T \in SUBSET (0..bound), T # {}
  PROVE  Max(T) \in T
<1> DEFINE R == {bound - k : k \in T}
<1>1. R \in SUBSET Nat /\ R # {}
  <2>1. \A k \in T : bound - k \in Nat
    OBVIOUS
  <2> QED BY <2>1
<1> HIDE DEF R
<1>2. PICK x \in R : \A y \in R : x <= y
  BY <1>1, Least
<1>3. PICK k \in T : x = bound - k
  BY DEF R
<1>4. ASSUME NEW j \in T PROVE k >= j
  <2>1. bound - j \in R
    BY DEF R
  <2> QED BY <1>2, <1>3, <2>1
<1> QED BY <1>4 DEF Max

LEMMA DeleteEvictedStep ==
  ASSUME IndInv, DeleteEvicted
  PROVE  IndInv'
<1> USE DEF IndInv
<1> DEFINE id == Min(deletedObservationIds)
           t == observationIdToTransitionIdMap[id]
<1>1. /\ reportPc = "deleting" /\ deletedObservationIds # {}
      /\ deletedObservationIds' = deletedObservationIds \ {id}
      /\ id \in DOMAIN observationIdToTransitionIdMap => DeleteTransitionOf(id)
      /\ id \notin DOMAIN observationIdToTransitionIdMap =>
           UNCHANGED <<bufferVars, mapVars, deletedTransitionIds>>
      /\ UNCHANGED <<storageVars, pendingObservations, holdingSample, fightVars, reportPc, pvpId,
                     isTerminal, trainVars>>
  BY DEF DeleteEvicted
<1>2. StorageSame /\ Numbered' /\ EpisodesMatch'
  BY <1>1, StorageFrame
<1>3. id \in deletedObservationIds /\ id \notin Stored
  <2>1. deletedObservationIds \in SUBSET Nat
    BY DEF TypeOK, ObservationId
  <2>2. id \in deletedObservationIds
    BY <1>1, <2>1, MinMember
  <2> QED BY <2>2 DEF ReportMatches
<1> HIDE DEF id
<1>4. ASSUME id \in Mapped
      PROVE  /\ t \in DOMAIN priority /\ transitionIdToObservationIdMap[t] = id
             /\ Mapped' = Mapped \ {id} /\ (DOMAIN priority)' = DOMAIN priority \ {t}
             /\ (DOMAIN transitionIdToObservationIdMap)' =
                  DOMAIN transitionIdToObservationIdMap \ {t}
             /\ \A other \in DOMAIN priority \ {t} :
                  /\ priority'[other] = priority[other]
                  /\ transitionIdToObservationIdMap'[other] = transitionIdToObservationIdMap[other]
             /\ \A other \in Mapped \ {id} :
                  observationIdToTransitionIdMap'[other] = observationIdToTransitionIdMap[other]
             /\ currentBufferSize' = currentBufferSize - 1
             /\ deletedTransitionIds' = IF holdingSample THEN deletedTransitionIds \cup {t}
                                        ELSE deletedTransitionIds
  <2>1. t \in DOMAIN priority /\ transitionIdToObservationIdMap[t] = id
        /\ DOMAIN priority = DOMAIN transitionIdToObservationIdMap
    BY <1>4 DEF MappedMatches, MapsAgree, Mapped
  <2>2. /\ priority' = Erase(priority, t)
        /\ currentBufferSize' = currentBufferSize - 1
        /\ observationIdToTransitionIdMap' = Erase(observationIdToTransitionIdMap, id)
        /\ transitionIdToObservationIdMap' = Erase(transitionIdToObservationIdMap, t)
        /\ deletedTransitionIds' = IF holdingSample THEN deletedTransitionIds \cup {t}
                                   ELSE deletedTransitionIds
    BY <1>1, <1>4, <2>1 DEF DeleteTransitionOf, Mapped
  <2> HIDE DEF t
  <2> QED BY <2>1, <2>2 DEF Erase, Mapped
<1>5. ASSUME id \notin Mapped
      PROVE  UNCHANGED <<priority, currentBufferSize, observationIdToTransitionIdMap,
                         transitionIdToObservationIdMap, deletedTransitionIds>>
  BY <1>1, <1>5 DEF Mapped, mapVars, bufferVars
<1> HIDE DEF t
<1>6. /\ Mapped \subseteq Stored \cup deletedObservationIds /\ MapsAgree
      /\ currentBufferSize = Cardinality(Mapped)
      /\ \A other \in Mapped :
           transitionIdToObservationIdMap[observationIdToTransitionIdMap[other]] = other
      /\ \A other \in Mapped \cap Stored : hasPrevious(other) /\ LookaheadFinds(other)
  BY DEF MappedMatches
<1>7. Mapped' = Mapped \ {id}
  <2>1. CASE id \in Mapped
    BY <1>4, <2>1
  <2>2. CASE id \notin Mapped
    BY <1>5, <2>2 DEF Mapped
  <2> QED BY <2>1, <2>2
<1>8. IsFiniteSet(Mapped) /\ IsFiniteSet(DOMAIN priority)
  <2>1. Mapped \in SUBSET ObservationId
    BY <1>6 DEF TypeOK
  <2>2. DOMAIN priority \subseteq TransitionId /\ IsFiniteSet(TransitionId)
    BY DEF TypeOK, ExperienceReplayAssumption
  <2> QED BY <2>1, <2>2, ObservationsFinite, FS_Subset
<1>9. /\ DOMAIN priority' \subseteq DOMAIN priority
      /\ currentBufferSize' = Cardinality(DOMAIN priority') /\ currentBufferSize' \in Nat
      /\ currentBufferSize' <= currentBufferSize /\ currentBufferSize' = Cardinality(Mapped')
  <2>1. currentBufferSize = Cardinality(DOMAIN priority) /\ currentBufferSize \in Nat
    BY <1>6, <1>8, FS_CardinalityType DEF MapsAgree
  <2>2. CASE id \in Mapped
    <3>1. Cardinality(DOMAIN priority \ {t}) = currentBufferSize - 1
          /\ Cardinality(Mapped \ {id}) = currentBufferSize - 1
      <4>1. t \in DOMAIN priority
        BY <1>4, <2>2
      <4>2. Cardinality(DOMAIN priority \ {t}) = Cardinality(DOMAIN priority) - 1
        BY <1>8, <4>1, FS_RemoveElement
      <4>3. Cardinality(Mapped \ {id}) = Cardinality(Mapped) - 1
        BY <1>8, <2>2, FS_RemoveElement
      <4> QED BY <1>6, <2>1, <4>2, <4>3
    <3>2. Cardinality(DOMAIN priority \ {t}) \in Nat
      <4>1. IsFiniteSet(DOMAIN priority \ {t})
        BY <1>8, FS_Subset
      <4> QED BY <4>1, FS_CardinalityType
    <3>3. Cardinality(DOMAIN priority') = Cardinality(DOMAIN priority \ {t})
          /\ Cardinality(Mapped') = Cardinality(Mapped \ {id})
      BY <1>4, <1>7, <2>2, Zenon
    <3> QED BY <1>4, <2>1, <2>2, <3>1, <3>2, <3>3
  <2>3. CASE id \notin Mapped
    BY <1>5, <1>6, <2>1, <2>3 DEF Mapped
  <2> QED BY <2>2, <2>3
<1>10. TypeOK'
  <2>1. deletedTransitionIds' \subseteq TransitionId
    <3>1. CASE id \in Mapped
      BY <1>4, <3>1 DEF TypeOK
    <3>2. CASE id \notin Mapped
      BY <1>5, <3>2 DEF TypeOK
    <3> QED BY <3>1, <3>2
  <2>2. currentBufferSize' \in 0..Cardinality(TransitionId)
    <3>1. Cardinality(TransitionId) \in Nat
      BY FS_CardinalityType DEF ExperienceReplayAssumption
    <3> QED BY <1>9, <3>1 DEF TypeOK
  <2>3. DOMAIN priority' \subseteq TransitionId
    BY <1>9 DEF TypeOK
  <2>4. deletedObservationIds' \subseteq ObservationId
    BY <1>1 DEF TypeOK
  <2> QED BY <1>1, <2>1, <2>2, <2>3, <2>4 DEF TypeOK, storageVars, fightVars, trainVars, Stored
<1>11. ReportMatches'
  BY <1>1, <1>2 DEF ReportMatches, StorageSame, fightVars
<1>12. PendingMatches'
  <2>1. \A pvp : QueuedOf(pvp)' = QueuedOf(pvp)
    BY <1>1, <1>2 DEF QueuedOf, StorageSame
  <2>2. pendingObservations' = pendingObservations /\ Mapped' \subseteq Mapped
    BY <1>1, <1>7
  <2> QED BY <1>1, <1>2, <2>1, <2>2 DEF PendingMatches, StorageSame, fightVars
<1>13. NewestLast'
  BY <1>1, <1>2, <1>7 DEF NewestLast, StorageSame, Queued
<1>14. MapsAgree'
  <2>1. CASE id \in Mapped
    <3>1. \A other \in DOMAIN priority' :
            /\ transitionIdToObservationIdMap[other] \in Mapped
            /\ observationIdToTransitionIdMap[transitionIdToObservationIdMap[other]] = other
            /\ transitionIdToObservationIdMap[other] # id
      BY <1>4, <1>6, <2>1 DEF MapsAgree, Mapped, t
    <3>2. \A other \in Mapped' :
            /\ observationIdToTransitionIdMap[other] \in DOMAIN priority
            /\ observationIdToTransitionIdMap[other] # t
      BY <1>4, <1>6, <1>7, <2>1 DEF MapsAgree, Mapped
    <3>3. (DOMAIN priority)' = (DOMAIN transitionIdToObservationIdMap)'
      BY <1>4, <1>6, <2>1 DEF MapsAgree
    <3> QED BY <1>4, <1>7, <1>9, <2>1, <3>1, <3>2, <3>3 DEF MapsAgree, Mapped
  <2>2. CASE id \notin Mapped
    BY <1>5, <1>6, <2>2 DEF MapsAgree
  <2> QED BY <2>1, <2>2
<1>15. MappedMatches'
  <2>1. \A other \in Mapped' :
          transitionIdToObservationIdMap'[observationIdToTransitionIdMap'[other]] = other
    <3>1. CASE id \in Mapped
      <4>1. \A other \in Mapped' :
              /\ observationIdToTransitionIdMap'[other] = observationIdToTransitionIdMap[other]
              /\ observationIdToTransitionIdMap[other] \in DOMAIN priority \ {t}
        BY <1>4, <1>6, <1>7, <3>1 DEF MapsAgree, Mapped
      <4> QED BY <1>4, <1>6, <1>7, <3>1, <4>1
    <3>2. CASE id \notin Mapped
      BY <1>5, <1>6, <1>7, <3>2
    <3> QED BY <3>1, <3>2
  <2>2. Mapped' \subseteq Stored' \cup deletedObservationIds'
    BY <1>1, <1>2, <1>6, <1>7 DEF StorageSame
  <2>3. \A other \in Mapped' \cap Stored' : hasPrevious(other)' /\ LookaheadFinds(other)'
    BY <1>2, <1>6, <1>7 DEF StorageSame
  <2> QED BY <1>9, <1>14, <2>1, <2>2, <2>3 DEF MappedMatches
<1>16. SampleMatches'
  <2>1. CASE id \in Mapped
    BY <1>1, <1>4, <2>1 DEF SampleMatches, trainVars
  <2>2. CASE id \notin Mapped
    BY <1>1, <1>5, <2>2 DEF SampleMatches, trainVars
  <2> QED BY <2>1, <2>2
<1>17. PriorityIsItsOwn'
  <2>1. CASE id \in Mapped
    BY <1>4, <2>1 DEF PriorityIsItsOwn
  <2>2. CASE id \notin Mapped
    BY <1>5, <2>2 DEF PriorityIsItsOwn
  <2> QED BY <2>1, <2>2
<1>18. Learned'
  BY <1>1, <1>2, <1>3, <1>7 DEF Learned, StorageSame, Queued
<1> QED BY <1>2, <1>10, <1>11, <1>12, <1>13, <1>15, <1>16, <1>17, <1>18

(* The lookahead of the oldest observation queued, when it is time for it. *)
LEMMA OldestFinds ==
  ASSUME IndInv, InsertOldest, Head(pendingObservations[pvpId]) \in Stored
  PROVE  LookaheadFinds(Head(pendingObservations[pvpId]))
<1> USE DEF IndInv
<1> DEFINE q == pendingObservations[pvpId]
           len == Len(q)
           id == Head(q)
<1>1. /\ reportPc \in {"lookahead", "flush"} /\ pvpId \in PvpId
      /\ kTdLookahead \in Nat \ {0}
      /\ reportPc = "lookahead" => len >= kTdLookahead
      /\ reportPc = "flush" => isTerminal /\ q # << >>
      /\ q \in Seq(ObservationId)
  BY DEF InsertOldest, NewestLast, TypeOK, ExperienceReplayAssumption
<1>2. q # << >> /\ len \in Nat \ {0} /\ DOMAIN q = 1..len /\ id = q[1]
  BY <1>1
<1>3. /\ FightOf(id) = pvpId /\ id \in Stored
      /\ IndexOf(id) + len - 1 + 1 = QueuedOf(pvpId)
  <2>1. 1 \in DOMAIN q
    BY <1>2
  <2> QED BY <1>1, <1>2, <2>1 DEF PendingMatches
<1>4. QueuedOf(pvpId) = CountOf(pvpId) /\ CountOf(pvpId) \in Nat /\ IndexOf(id) \in Nat
  <2>1. IndexOf(id) \in Nat
    BY <1>3 DEF TypeOK, IndexOf
  <2> QED BY <1>1, <2>1, CountFacts DEF QueuedOf
<1> HIDE DEF len, id
<1>5. IndexOf(id) + len = CountOf(pvpId)
  BY <1>2, <1>3, <1>4
<1>6. /\ Newest \in Stored /\ FightOf(Newest) = pvpId /\ IndexOf(Newest) = CountOf(pvpId) - 1
      /\ storage[Newest].isTerminal = isTerminal
  BY <1>1 DEF ReportMatches
<1>7. ASSUME NEW offset \in 1..(kTdLookahead - 1)
      PROVE  \/ Neighbours(id, offset) # {}
             \/ \E earlier \in 0..(offset - 1) :
                  \E n \in Neighbours(id, earlier) : storage[n].isTerminal
  <2>1. CASE offset < len
    <3>1. IndexOf(id) + offset \in 0..(CountOf(pvpId) - 1)
      BY <1>2, <1>4, <1>5, <2>1
    <3>2. PICK n \in ObservationsOf(pvpId, storage) : IndexOf(n) = IndexOf(id) + offset
      BY <1>1, <3>1 DEF Numbered
    <3>3. n \in Neighbours(id, offset)
      BY <1>3, <3>2 DEF Neighbours, ObservationsOf, Stored, FightOf, IndexOf
    <3> QED BY <3>3
  <2>2. CASE offset >= len
    <3>1. isTerminal
      BY <1>1, <1>2, <2>2
    <3>2. len - 1 \in 0..(offset - 1) /\ IndexOf(Newest) = IndexOf(id) + (len - 1)
      BY <1>2, <1>4, <1>5, <1>6, <2>2
    <3>3. Newest \in Neighbours(id, len - 1)
      BY <1>3, <1>6, <3>2 DEF Neighbours, FightOf, IndexOf
    <3> QED BY <1>6, <3>1, <3>2, <3>3
  <2> QED BY <1>2, <2>1, <2>2
<1> QED BY <1>7 DEF LookaheadFinds, id

LEMMA InsertOldestStep ==
  ASSUME IndInv, InsertOldest
  PROVE  IndInv'
<1> USE DEF IndInv
<1> DEFINE q == pendingObservations[pvpId]
           len == Len(q)
           id == Head(q)
           rest == Tail(q)
<1>1. /\ reportPc \in {"lookahead", "flush"} /\ reportPc' \in {"flush", "idle"}
      /\ reportPc' = "flush" <=> id \in Stored
      /\ pendingObservations' = [pendingObservations EXCEPT ![pvpId] = rest]
      /\ (id \in Stored /\ hasPrevious(id)) => addTransition(id)
      /\ ~(id \in Stored /\ hasPrevious(id)) => UNCHANGED <<bufferVars, mapVars>>
      /\ UNCHANGED <<storageVars, sampleVars, fightVars, pvpId, isTerminal,
                     deletedObservationIds, trainVars>>
  BY DEF InsertOldest
<1>2. StorageSame /\ Numbered' /\ EpisodesMatch'
  BY <1>1, StorageFrame
<1>3. /\ pvpId \in PvpId /\ pvpId \in running /\ q \in Seq(ObservationId) /\ q # << >>
      /\ deletedObservationIds = {} /\ deletedObservationIds' = {}
  <2>1. q # << >>
    <3>1. reportPc = "lookahead" => len >= kTdLookahead /\ kTdLookahead \in Nat \ {0}
      BY DEF NewestLast, ExperienceReplayAssumption
    <3> QED BY <3>1 DEF InsertOldest
  <2> QED BY <1>1, <2>1 DEF TypeOK, ReportMatches
<1>4. /\ len \in Nat \ {0} /\ DOMAIN q = 1..len /\ id = q[1] /\ id \in ObservationId
      /\ rest \in Seq(ObservationId) /\ Len(rest) = len - 1 /\ DOMAIN rest = 1..(len - 1)
      /\ \A k \in 1..(len - 1) : rest[k] = q[k + 1]
  BY <1>3
<1> HIDE DEF rest, len, id
<1>5. /\ pendingObservations' \in [PvpId -> Seq(ObservationId)]
      /\ pendingObservations'[pvpId] = rest
      /\ \A p \in PvpId \ {pvpId} : pendingObservations'[p] = pendingObservations[p]
  BY <1>1, <1>3, <1>4 DEF TypeOK
<1>6. id \notin Mapped /\ 1 \in DOMAIN q
  <2>1. 1 \in DOMAIN q
    BY <1>4
  <2> QED BY <1>3, <1>4, <2>1 DEF PendingMatches
<1>7. ASSUME NEW p \in PvpId, NEW k \in DOMAIN pendingObservations'[p]
      PROVE  \E j \in DOMAIN pendingObservations[p] :
               /\ pendingObservations'[p][k] = pendingObservations[p][j]
               /\ p # pvpId \/ j # 1
               /\ p = pvpId => j = k + 1
               /\ p # pvpId => j = k
               /\ Len(pendingObservations'[p]) - k = Len(pendingObservations[p]) - j
  <2>1. CASE p # pvpId
    BY <1>5, <2>1
  <2>2. CASE p = pvpId
    <3>1. k \in 1..(len - 1) /\ pendingObservations'[p][k] = rest[k]
          /\ Len(pendingObservations'[p]) = len - 1
      BY <1>4, <1>5, <2>2
    <3>2. k + 1 \in 1..len /\ k + 1 # 1 /\ (len - 1) - k = len - (k + 1)
      BY <1>4, <3>1
    <3> QED BY <1>4, <2>2, <3>1, <3>2 DEF len
  <2> QED BY <2>1, <2>2
<1>8. /\ MapsAgree /\ currentBufferSize = Cardinality(Mapped)
      /\ currentBufferSize = Cardinality(DOMAIN priority)
      /\ \A other \in Mapped :
           transitionIdToObservationIdMap[observationIdToTransitionIdMap[other]] = other
      /\ Mapped \subseteq Stored
      /\ \A other \in Mapped : hasPrevious(other) /\ LookaheadFinds(other)
  BY <1>3 DEF MappedMatches, MapsAgree
<1>9. ASSUME id \in Stored, hasPrevious(id)
      PROVE  \E t \in TransitionId \ DOMAIN priority :
               /\ Mapped' = Mapped \cup {id} /\ (DOMAIN priority)' = DOMAIN priority \cup {t}
               /\ (DOMAIN transitionIdToObservationIdMap)' =
                    DOMAIN transitionIdToObservationIdMap \cup {t}
               /\ \A other \in DOMAIN priority :
                    /\ priority'[other] = priority[other]
                    /\ transitionIdToObservationIdMap'[other] =
                         transitionIdToObservationIdMap[other]
               /\ \A other \in Mapped :
                    observationIdToTransitionIdMap'[other] = observationIdToTransitionIdMap[other]
               /\ priority'[t] = id /\ transitionIdToObservationIdMap'[t] = id
               /\ observationIdToTransitionIdMap'[id] = t
               /\ currentBufferSize' = currentBufferSize + 1
  <2>1. PICK t \in TransitionId \ DOMAIN priority :
               /\ priority' = Put(priority, t, id)
               /\ currentBufferSize' = currentBufferSize + 1
               /\ observationIdToTransitionIdMap' = Put(observationIdToTransitionIdMap, id, t)
               /\ transitionIdToObservationIdMap' = Put(transitionIdToObservationIdMap, t, id)
    BY <1>1, <1>9 DEF addTransition
  <2>2. DOMAIN priority = DOMAIN transitionIdToObservationIdMap
    BY <1>8 DEF MapsAgree
  <2>3. \A other \in DOMAIN priority : other # t
    OBVIOUS
  <2>4. \A other \in Mapped : other # id
    BY <1>6
  <2>5. /\ (DOMAIN priority)' = DOMAIN priority \cup {t} /\ priority'[t] = id
        /\ \A other \in DOMAIN priority : priority'[other] = priority[other]
    BY <2>1, <2>3 DEF Put
  <2>6. /\ Mapped' = Mapped \cup {id} /\ observationIdToTransitionIdMap'[id] = t
        /\ \A other \in Mapped :
             observationIdToTransitionIdMap'[other] = observationIdToTransitionIdMap[other]
    BY <2>1, <2>4 DEF Put, Mapped
  <2>7. /\ (DOMAIN transitionIdToObservationIdMap)' =
             DOMAIN transitionIdToObservationIdMap \cup {t}
        /\ transitionIdToObservationIdMap'[t] = id
        /\ \A other \in DOMAIN priority :
             transitionIdToObservationIdMap'[other] = transitionIdToObservationIdMap[other]
    BY <2>1, <2>2, <2>3 DEF Put
  <2> QED BY <2>1, <2>5, <2>6, <2>7
<1>10. ASSUME ~(id \in Stored /\ hasPrevious(id))
       PROVE  UNCHANGED <<priority, currentBufferSize, observationIdToTransitionIdMap,
                          transitionIdToObservationIdMap>>
  BY <1>1, <1>10 DEF mapVars, bufferVars
<1>11. IsFiniteSet(Mapped) /\ IsFiniteSet(DOMAIN priority) /\ currentBufferSize \in Nat
  <2>1. Mapped \in SUBSET ObservationId
    BY <1>8 DEF TypeOK
  <2>2. DOMAIN priority \subseteq TransitionId /\ IsFiniteSet(TransitionId)
    BY DEF TypeOK, ExperienceReplayAssumption
  <2> QED BY <1>8, <2>1, <2>2, ObservationsFinite, FS_Subset
<1>12. /\ DOMAIN priority' \subseteq TransitionId
       /\ Mapped' \subseteq Mapped \cup {id}
       /\ currentBufferSize' = Cardinality(Mapped')
       /\ currentBufferSize' = Cardinality(DOMAIN priority')
  <2>1. CASE id \in Stored /\ hasPrevious(id)
    <3>1. PICK t \in TransitionId \ DOMAIN priority :
                 /\ Mapped' = Mapped \cup {id} /\ (DOMAIN priority)' = DOMAIN priority \cup {t}
                 /\ currentBufferSize' = currentBufferSize + 1
      BY <1>9, <2>1
    <3>2. /\ Cardinality(Mapped \cup {id}) = Cardinality(Mapped) + 1
          /\ Cardinality(DOMAIN priority \cup {t}) = Cardinality(DOMAIN priority) + 1
      <4>1. t \notin DOMAIN priority
        OBVIOUS
      <4>2. Cardinality(DOMAIN priority \cup {t}) = Cardinality(DOMAIN priority) + 1
        BY <1>11, <4>1, FS_AddElement
      <4>3. Cardinality(Mapped \cup {id}) = Cardinality(Mapped) + 1
        BY <1>6, <1>11, FS_AddElement
      <4> QED BY <4>2, <4>3
    <3>3. Cardinality(Mapped') = Cardinality(Mapped \cup {id})
          /\ Cardinality(DOMAIN priority') = Cardinality(DOMAIN priority \cup {t})
      BY <3>1, Zenon
    <3>4. DOMAIN priority' \subseteq TransitionId
      BY <3>1 DEF TypeOK
    <3> QED BY <1>8, <3>1, <3>2, <3>3, <3>4
  <2>2. CASE ~(id \in Stored /\ hasPrevious(id))
    BY <1>8, <1>10, <2>2 DEF Mapped, TypeOK
  <2> QED BY <2>1, <2>2
<1>13. TypeOK'
  <2>1. currentBufferSize' \in 0..Cardinality(TransitionId)
    <3>1. IsFiniteSet(TransitionId)
      BY DEF ExperienceReplayAssumption
    <3>2. IsFiniteSet(DOMAIN priority')
          /\ Cardinality(DOMAIN priority') <= Cardinality(TransitionId)
      BY <1>12, <3>1, FS_Subset
    <3>3. Cardinality(DOMAIN priority') \in Nat /\ Cardinality(TransitionId) \in Nat
      BY <3>1, <3>2, FS_CardinalityType
    <3> QED BY <1>12, <3>2, <3>3
  <2>2. reportPc' \in {"idle", "deleting", "lookahead", "flush"}
    BY <1>1
  <2> QED BY <1>1, <1>5, <1>12, <2>1, <2>2
          DEF TypeOK, storageVars, sampleVars, fightVars, trainVars, Stored
<1>14. ReportMatches'
  BY <1>1, <1>2, <1>3 DEF ReportMatches, StorageSame, fightVars
<1>15. PendingMatches'
  <2>1. ASSUME NEW p \in PvpId, p \notin running' PROVE pendingObservations'[p] = << >>
    BY <1>1, <1>3, <1>5, <2>1 DEF PendingMatches, fightVars
  <2>2. ASSUME NEW p \in PvpId PROVE QueuedOf(p)' = QueuedOf(p)
    BY <1>1, <1>2 DEF QueuedOf, StorageSame
  <2>3. ASSUME NEW p \in PvpId, NEW k \in DOMAIN pendingObservations'[p],
               NEW other, other = pendingObservations'[p][k]
        PROVE  /\ other < nextId' /\ other \notin Mapped'
               /\ other \in Stored' =>
                    /\ FightOf(other)' = p
                    /\ IndexOf(other)' + Len(pendingObservations'[p]) - k + 1 = QueuedOf(p)'
    <3>1. PICK j \in DOMAIN pendingObservations[p] :
                 /\ pendingObservations'[p][k] = pendingObservations[p][j]
                 /\ p # pvpId \/ j # 1
                 /\ Len(pendingObservations'[p]) - k = Len(pendingObservations[p]) - j
      BY <1>7
    <3>2. /\ other < nextId /\ other \notin Mapped
          /\ other \in Stored =>
               /\ FightOf(other) = p
               /\ IndexOf(other) + Len(pendingObservations[p]) - j + 1 = QueuedOf(p)
      BY <2>3, <3>1 DEF PendingMatches
    <3>3. other # id
      BY <1>3, <1>4, <1>6, <2>3, <3>1 DEF PendingMatches
    <3>4. ASSUME other \in Stored
          PROVE  IndexOf(other) + Len(pendingObservations'[p]) - k + 1 = QueuedOf(p)
      <4>1. /\ IndexOf(other) \in Nat /\ j \in Nat /\ k \in Nat
            /\ Len(pendingObservations[p]) \in Nat /\ Len(pendingObservations'[p]) \in Nat
        <5>1. pendingObservations[p] \in Seq(ObservationId)
              /\ pendingObservations'[p] \in Seq(ObservationId)
          BY <1>5 DEF TypeOK
        <5>2. IndexOf(other) \in Nat
          BY <3>4 DEF TypeOK, IndexOf
        <5> QED BY <5>1, <5>2
      <4> QED BY <3>1, <3>2, <3>4, <4>1
    <3> QED BY <1>2, <1>12, <2>2, <3>2, <3>3, <3>4 DEF StorageSame
  <2>4. ASSUME NEW p \in PvpId, NEW other \in PvpId,
               NEW k \in DOMAIN pendingObservations'[p],
               NEW j \in DOMAIN pendingObservations'[other],
               pendingObservations'[p][k] = pendingObservations'[other][j]
        PROVE  p = other /\ k = j
    <3>1. PICK k0 \in DOMAIN pendingObservations[p] :
                 /\ pendingObservations'[p][k] = pendingObservations[p][k0]
                 /\ p = pvpId => k0 = k + 1
                 /\ p # pvpId => k0 = k
      BY <1>7
    <3>2. PICK j0 \in DOMAIN pendingObservations[other] :
                 /\ pendingObservations'[other][j] = pendingObservations[other][j0]
                 /\ other = pvpId => j0 = j + 1
                 /\ other # pvpId => j0 = j
      BY <1>7
    <3>3. p = other /\ k0 = j0
      <4>1. pendingObservations[p][k0] = pendingObservations[other][j0]
        BY <2>4, <3>1, <3>2
      <4>2. \A r, s \in PvpId :
              \A m \in DOMAIN pendingObservations[r], l \in DOMAIN pendingObservations[s] :
                pendingObservations[r][m] = pendingObservations[s][l] => r = s /\ m = l
        BY DEF PendingMatches
      <4> QED BY <4>1, <4>2
    <3>4. k \in Nat /\ j \in Nat
      <4>1. pendingObservations'[p] \in Seq(ObservationId)
            /\ pendingObservations'[other] \in Seq(ObservationId)
        BY <1>5
      <4> QED BY <4>1
    <3> QED BY <3>1, <3>2, <3>3, <3>4
  <2> QED BY <2>1, <2>3, <2>4 DEF PendingMatches
<1>16. NewestLast'
  <2>1. ASSUME rest # << >> PROVE Len(rest) = len - 1 /\ rest[Len(rest)] = Newest
    <3>1. Len(rest) # 0
      BY <1>4, <2>1
    <3>2. len - 1 \in 1..(len - 1) /\ (len - 1) + 1 = len
      BY <1>4, <3>1
    <3>3. rest[len - 1] = q[len]
      BY <1>4, <3>2
    <3>4. q[len] = Newest
      BY <1>1, <1>3 DEF NewestLast, len
    <3> QED BY <1>4, <3>3, <3>4
  <2>2. (pendingObservations[pvpId])' = rest
    BY <1>1, <1>5
  <2> QED BY <1>1, <1>2, <2>1, <2>2 DEF NewestLast, StorageSame
<1>17. MappedMatches'
  <2>1. CASE id \in Stored /\ hasPrevious(id)
    <3>1. PICK t \in TransitionId \ DOMAIN priority :
               /\ Mapped' = Mapped \cup {id} /\ (DOMAIN priority)' = DOMAIN priority \cup {t}
               /\ (DOMAIN transitionIdToObservationIdMap)' =
                    DOMAIN transitionIdToObservationIdMap \cup {t}
               /\ \A other \in DOMAIN priority :
                    transitionIdToObservationIdMap'[other] = transitionIdToObservationIdMap[other]
               /\ \A other \in Mapped :
                    observationIdToTransitionIdMap'[other] = observationIdToTransitionIdMap[other]
               /\ transitionIdToObservationIdMap'[t] = id
               /\ observationIdToTransitionIdMap'[id] = t
      BY <1>9, <2>1
    <3>2. /\ \A other \in DOMAIN priority :
               /\ transitionIdToObservationIdMap[other] \in Mapped
               /\ observationIdToTransitionIdMap[transitionIdToObservationIdMap[other]] = other
          /\ \A other \in Mapped : observationIdToTransitionIdMap[other] \in DOMAIN priority
          /\ DOMAIN priority = DOMAIN transitionIdToObservationIdMap
      BY <1>8 DEF MapsAgree, Mapped
    <3>3. /\ \A other \in DOMAIN priority \cup {t} :
               /\ transitionIdToObservationIdMap'[other] \in Mapped \cup {id}
               /\ observationIdToTransitionIdMap'[transitionIdToObservationIdMap'[other]] = other
          /\ \A other \in Mapped \cup {id} :
               observationIdToTransitionIdMap'[other] \in DOMAIN priority \cup {t}
      BY <3>1, <3>2
    <3>4. MapsAgree'
      BY <1>12, <3>1, <3>2, <3>3 DEF MapsAgree, Mapped
    <3>5. \A other \in Mapped \cup {id} :
            transitionIdToObservationIdMap'[observationIdToTransitionIdMap'[other]] = other
      BY <1>8, <3>1, <3>2
    <3>6. LookaheadFinds(id)
      BY <2>1, OldestFinds DEF id
    <3>7. \A other \in Mapped' : other \in Stored' /\ hasPrevious(other)' /\ LookaheadFinds(other)'
      BY <1>2, <1>8, <2>1, <3>1, <3>6 DEF StorageSame
    <3> QED BY <1>12, <3>1, <3>4, <3>5, <3>7 DEF MappedMatches
  <2>2. CASE ~(id \in Stored /\ hasPrevious(id))
    <3>1. MapsAgree' /\ Mapped' = Mapped
      BY <1>8, <1>10, <2>2 DEF MapsAgree, Mapped
    <3> QED BY <1>2, <1>8, <1>10, <1>12, <2>2, <3>1 DEF MappedMatches, StorageSame
  <2> QED BY <2>1, <2>2
<1>18. SampleMatches' /\ PriorityIsItsOwn'
  <2>1. CASE id \in Stored /\ hasPrevious(id)
    <3>1. PICK t \in TransitionId \ DOMAIN priority :
               /\ (DOMAIN priority)' = DOMAIN priority \cup {t}
               /\ \A other \in DOMAIN priority :
                    /\ priority'[other] = priority[other]
                    /\ transitionIdToObservationIdMap'[other] =
                         transitionIdToObservationIdMap[other]
               /\ priority'[t] = id /\ transitionIdToObservationIdMap'[t] = id
      BY <1>9, <2>1
    <3> QED BY <1>1, <3>1 DEF SampleMatches, PriorityIsItsOwn, sampleVars, trainVars
  <2>2. CASE ~(id \in Stored /\ hasPrevious(id))
    BY <1>1, <1>10, <2>2 DEF SampleMatches, PriorityIsItsOwn, sampleVars, trainVars
  <2> QED BY <2>1, <2>2
<1>19. Learned'
  <2>1. ASSUME NEW other \in Stored', hasPrevious(other)'
        PROVE  (other \in Mapped)' \/ Queued(other)'
    <3>1. other \in Stored /\ hasPrevious(other)
      BY <1>2, <2>1 DEF StorageSame
    <3>2. other \in Mapped \/ Queued(other)
      BY <1>1, <3>1 DEF Learned
    <3>3. CASE other = id
      BY <1>9, <3>1, <3>3
    <3>4. CASE other \in Mapped
      <4>1. Mapped \subseteq Mapped'
        <5>1. CASE id \in Stored /\ hasPrevious(id)
          BY <1>9, <5>1
        <5>2. CASE ~(id \in Stored /\ hasPrevious(id))
          BY <1>10, <5>2 DEF Mapped
        <5> QED BY <5>1, <5>2
      <4> QED BY <3>4, <4>1
    <3>5. CASE Queued(other) /\ other # id
      <4>1. PICK p \in PvpId : \E k \in DOMAIN pendingObservations[p] :
                                 pendingObservations[p][k] = other
        BY <3>5 DEF Queued
      <4>2. PICK k \in DOMAIN pendingObservations[p] : pendingObservations[p][k] = other
        BY <4>1
      <4>3. CASE p # pvpId
        BY <1>5, <4>2, <4>3 DEF Queued
      <4>4. CASE p = pvpId
        <5>1. k \in 1..len /\ q[k] = other /\ k # 1
          BY <1>4, <3>5, <4>2, <4>4
        <5>2. k - 1 \in 1..(len - 1) /\ (k - 1) + 1 = k
          BY <1>4, <5>1
        <5>3. k - 1 \in DOMAIN rest /\ rest[k - 1] = other
          BY <1>4, <5>1, <5>2
        <5>4. k - 1 \in DOMAIN pendingObservations'[p]
              /\ pendingObservations'[p][k - 1] = other
          BY <1>5, <4>4, <5>3
        <5> QED BY <5>4 DEF Queued
      <4> QED BY <4>3, <4>4
    <3> QED BY <3>2, <3>3, <3>4, <3>5
  <2> QED BY <2>1 DEF Learned
<1> QED BY <1>2, <1>13, <1>14, <1>15, <1>16, <1>17, <1>18, <1>19

-----------------------------------------------------------------------------
(* The training thread.                                                    *)

(* What is left alone by all steps of the training thread.                 *)
LEMMA TrainFrame ==
  ASSUME IndInv,
         UNCHANGED <<storageVars, currentBufferSize, mapVars, pendingObservations, fightVars,
                     reportVars>>,
         DOMAIN priority' = DOMAIN priority
  PROVE  /\ Numbered' /\ EpisodesMatch' /\ ReportMatches' /\ PendingMatches' /\ NewestLast'
         /\ MappedMatches' /\ Learned'
         /\ (/\ deletedTransitionIds' \subseteq deletedTransitionIds
             /\ holdingSample' \in BOOLEAN
             /\ trainPc' \in {"idle", "training"}
             /\ sampleResult' \in Seq(TransitionId \X ObservationId)) => TypeOK'
<1> USE DEF IndInv
<1>1. StorageSame /\ Numbered' /\ EpisodesMatch'
  BY StorageFrame
<1>2. ReportMatches'
  BY <1>1 DEF ReportMatches, StorageSame, fightVars, reportVars
<1>3. PendingMatches'
  <2>1. \A pvp : QueuedOf(pvp)' = QueuedOf(pvp)
    BY <1>1 DEF QueuedOf, StorageSame, reportVars
  <2>2. Mapped' = Mapped
    BY DEF Mapped, mapVars
  <2> QED BY <1>1, <2>1, <2>2 DEF PendingMatches, StorageSame, fightVars
<1>4. NewestLast'
  BY <1>1 DEF NewestLast, Queued, Mapped, StorageSame, reportVars, mapVars
<1>5. MappedMatches'
  BY <1>1 DEF MappedMatches, MapsAgree, Mapped, StorageSame, reportVars, mapVars
<1>6. Learned'
  BY <1>1 DEF Learned, Queued, Mapped, StorageSame, reportVars, mapVars
<1>7. ASSUME deletedTransitionIds' \subseteq deletedTransitionIds, holdingSample' \in BOOLEAN,
             trainPc' \in {"idle", "training"},
             sampleResult' \in Seq(TransitionId \X ObservationId)
      PROVE  TypeOK'
  BY <1>7 DEF TypeOK, storageVars, fightVars, reportVars, Stored
<1> QED BY <1>1, <1>2, <1>3, <1>4, <1>5, <1>6, <1>7

LEMMA SampleStep ==
  ASSUME IndInv, Sample
  PROVE  IndInv'
<1> USE DEF IndInv
<1>1. /\ trainPc = "idle" /\ holdingSample' = TRUE
      /\ UNCHANGED <<storageVars, bufferVars, mapVars, pendingObservations, deletedTransitionIds,
                     fightVars, reportVars>>
  BY DEF Sample
<1>2. kBatchSize \in Nat /\ LeftmostLeaf \in TransitionId
  BY DEF ExperienceReplayAssumption
<1>3. PICK ids \in [1..kBatchSize -> DOMAIN priority \cup {LeftmostLeaf}] :
             IF CanBuildInputs({ids[k] : k \in 1..kBatchSize})
             THEN /\ trainPc' = "training"
                  /\ sampleResult' = [k \in 1..kBatchSize |->
                                        <<ids[k], transitionIdToObservationIdMap[ids[k]]>>]
             ELSE UNCHANGED trainVars
  BY DEF Sample
<1>4. CASE CanBuildInputs({ids[k] : k \in 1..kBatchSize})
  <2>1. ASSUME NEW k \in 1..kBatchSize
        PROVE  /\ ids[k] \in DOMAIN priority /\ ids[k] \in TransitionId
               /\ transitionIdToObservationIdMap[ids[k]] \in ObservationId
    <3>1. ids[k] \in DOMAIN transitionIdToObservationIdMap
      BY <1>4 DEF CanBuildInputs
    <3>2. ids[k] \in DOMAIN priority /\ transitionIdToObservationIdMap[ids[k]] \in Mapped
      BY <3>1 DEF MappedMatches, MapsAgree, Mapped
    <3>3. Mapped \subseteq ObservationId
      BY DEF MappedMatches, TypeOK
    <3> QED BY <3>2, <3>3 DEF TypeOK
  <2>2. /\ trainPc' = "training"
        /\ sampleResult' = [k \in 1..kBatchSize |->
                              <<ids[k], transitionIdToObservationIdMap[ids[k]]>>]
    BY <1>3, <1>4
  <2>3. /\ sampleResult' \in Seq(TransitionId \X ObservationId)
        /\ Len(sampleResult') = kBatchSize
    BY <1>2, <2>1, <2>2
  <2>4. SampleMatches'
    BY <1>1, <2>1, <2>2, <2>3 DEF SampleMatches, bufferVars, mapVars
  <2>5. PriorityIsItsOwn'
    BY <1>1 DEF PriorityIsItsOwn, bufferVars, mapVars
  <2>6. UNCHANGED currentBufferSize /\ DOMAIN priority' = DOMAIN priority
        /\ deletedTransitionIds' = deletedTransitionIds
    BY <1>1 DEF bufferVars
  <2> QED BY <1>1, <2>2, <2>3, <2>4, <2>5, <2>6, TrainFrame
<1>5. CASE ~CanBuildInputs({ids[k] : k \in 1..kBatchSize})
  <2>1. trainPc' = trainPc /\ sampleResult' = sampleResult
    BY <1>3, <1>5 DEF trainVars
  <2>2. SampleMatches'
    BY <1>1, <2>1 DEF SampleMatches
  <2>3. PriorityIsItsOwn'
    BY <1>1 DEF PriorityIsItsOwn, bufferVars, mapVars
  <2>4. UNCHANGED currentBufferSize /\ DOMAIN priority' = DOMAIN priority
        /\ deletedTransitionIds' = deletedTransitionIds
        /\ sampleResult \in Seq(TransitionId \X ObservationId)
    BY <1>1 DEF bufferVars, TypeOK
  <2> QED BY <1>1, <2>1, <2>2, <2>3, <2>4, TrainFrame
<1> QED BY <1>4, <1>5

(* Training writes back to transitions that are still there.               *)
LEMMA WriteBackFacts ==
  ASSUME IndInv, Train
  PROVE  /\ \A k \in WriteBack :
              /\ sampleResult[k][1] \in DOMAIN priority
              /\ transitionIdToObservationIdMap[sampleResult[k][1]] = sampleResult[k][2]
         /\ DOMAIN priority' = DOMAIN priority
         /\ PriorityIsItsOwn'
<1> USE DEF IndInv
<1> DEFINE ids == {sampleResult[k][1] : k \in WriteBack}
           last(t) == Max({k \in WriteBack : sampleResult[k][1] = t})
<1>1. /\ trainPc = "training"
      /\ priority' = [t \in DOMAIN priority \cup ids |->
                        IF t \in ids THEN sampleResult[last(t)][2] ELSE priority[t]]
      /\ UNCHANGED mapVars
  BY DEF Train
<1>2. ASSUME NEW k \in WriteBack
      PROVE  /\ sampleResult[k][1] \in DOMAIN priority
             /\ transitionIdToObservationIdMap[sampleResult[k][1]] = sampleResult[k][2]
  BY <1>1 DEF WriteBack, SampleMatches
<1>3. ids \subseteq DOMAIN priority
  BY <1>2
<1>4. ASSUME NEW t \in ids PROVE sampleResult[last(t)][2] = transitionIdToObservationIdMap[t]
  <2> DEFINE K == {k \in WriteBack : sampleResult[k][1] = t}
  <2>1. K # {} /\ K \subseteq WriteBack
    OBVIOUS
  <2>2. WriteBack \subseteq 0..kBatchSize /\ kBatchSize \in Nat
    BY DEF WriteBack, ExperienceReplayAssumption
  <2>3. \A k \in K : sampleResult[k][1] = t
    OBVIOUS
  <2> HIDE DEF K
  <2>4. Max(K) \in K
    BY <2>1, <2>2, MaxMember
  <2>5. sampleResult[Max(K)][1] = t /\ Max(K) \in WriteBack
    BY <2>1, <2>3, <2>4
  <2>6. sampleResult[Max(K)][2] = transitionIdToObservationIdMap[t]
    BY <1>2, <2>5
  <2> QED BY <2>6 DEF K
<1> HIDE DEF ids, last
<1>5. DOMAIN priority' = DOMAIN priority
  BY <1>1, <1>3
<1>6. PriorityIsItsOwn'
  <2>1. ASSUME NEW t \in DOMAIN priority PROVE priority'[t] = transitionIdToObservationIdMap[t]
    <3>1. priority[t] = transitionIdToObservationIdMap[t]
      BY DEF PriorityIsItsOwn
    <3>2. CASE t \in ids
      BY <1>1, <1>4, <3>2
    <3>3. CASE t \notin ids
      BY <1>1, <3>1, <3>3
    <3> QED BY <3>2, <3>3
  <2> QED BY <1>1, <1>5, <2>1 DEF PriorityIsItsOwn, mapVars
<1> QED BY <1>2, <1>5, <1>6

LEMMA TrainStep ==
  ASSUME IndInv, Train
  PROVE  IndInv'
<1>1. /\ deletedTransitionIds' = {} /\ holdingSample' = FALSE
      /\ trainPc' = "idle" /\ sampleResult' = << >>
      /\ UNCHANGED <<storageVars, currentBufferSize, mapVars, pendingObservations, fightVars,
                     reportVars>>
  BY DEF Train
<1>2. DOMAIN priority' = DOMAIN priority /\ PriorityIsItsOwn'
  BY WriteBackFacts
<1>3. SampleMatches'
  BY <1>1 DEF SampleMatches
<1>4. sampleResult' \in Seq(TransitionId \X ObservationId)
  BY <1>1
<1> QED BY <1>1, <1>2, <1>3, <1>4, TrainFrame DEF IndInv

LEMMA TrainThrowsStep ==
  ASSUME IndInv, TrainThrows
  PROVE  IndInv'
<1>1. /\ trainPc' = "idle" /\ sampleResult' = << >>
      /\ UNCHANGED <<storageVars, currentBufferSize, mapVars, pendingObservations, fightVars,
                     reportVars>>
      /\ priority' = priority /\ holdingSample' = holdingSample
      /\ deletedTransitionIds' = deletedTransitionIds
  BY DEF TrainThrows, bufferVars, sampleVars
<1>2. SampleMatches' /\ PriorityIsItsOwn'
  BY <1>1 DEF SampleMatches, PriorityIsItsOwn, mapVars, IndInv
<1>3. sampleResult' \in Seq(TransitionId \X ObservationId) /\ holdingSample \in BOOLEAN
  BY <1>1 DEF IndInv, TypeOK
<1> QED BY <1>1, <1>2, <1>3, TrainFrame DEF IndInv

LEMMA StutterStep ==
  ASSUME IndInv, UNCHANGED vars
  PROVE  IndInv'
<1>1. /\ UNCHANGED <<storageVars, currentBufferSize, mapVars, pendingObservations, fightVars,
                     reportVars>>
      /\ priority' = priority /\ holdingSample' = holdingSample /\ trainPc' = trainPc
      /\ deletedTransitionIds' = deletedTransitionIds /\ sampleResult' = sampleResult
  BY DEF vars, bufferVars, sampleVars, trainVars
<1>2. SampleMatches' /\ PriorityIsItsOwn'
  BY <1>1 DEF SampleMatches, PriorityIsItsOwn, mapVars, IndInv
<1>3. sampleResult' \in Seq(TransitionId \X ObservationId) /\ holdingSample \in BOOLEAN
      /\ trainPc \in {"idle", "training"}
  BY <1>1 DEF IndInv, TypeOK
<1> QED BY <1>1, <1>2, <1>3, TrainFrame DEF IndInv

-----------------------------------------------------------------------------
(* The invariant, and what follows from it.                                *)

LEMMA InitInv ==
  Init => IndInv
<1> SUFFICES ASSUME Init PROVE IndInv
  OBVIOUS
<1> USE DEF Init, Empty
<1>1. Stored = {} /\ Mapped = {} /\ DOMAIN priority = {} /\ DOMAIN episodes = {}
      /\ DOMAIN transitionIdToObservationIdMap = {}
  BY DEF Stored, Mapped
<1>2. \A pvp : ObservationsOf(pvp, storage) = {} /\ CountOf(pvp) = 0
  BY FS_EmptySet DEF ObservationsOf, CountOf
<1>3. Cardinality(Mapped) = 0 /\ Cardinality(DOMAIN priority) = 0 /\ Cardinality(Stored) = 0
  BY <1>1, FS_EmptySet
<1>4. TypeOK
  <2>1. /\ Cardinality(TransitionId) \in Nat /\ StorageCapacity \in Nat
        /\ MaxPvps \in Nat \ {0} /\ MaxObservations \in Nat
    BY FS_CardinalityType DEF ExperienceReplayAssumption
  <2>2. 0 \in PvpId
    BY <2>1 DEF PvpId
  <2> QED BY <1>1, <1>3, <2>1, <2>2 DEF TypeOK
<1>5. Numbered
  BY <1>1, <1>2 DEF Numbered
<1>6. EpisodesMatch /\ ReportMatches /\ NewestLast
  BY <1>1 DEF EpisodesMatch, ReportMatches, NewestLast
<1>7. PendingMatches
  BY DEF PendingMatches
<1>8. MappedMatches
  BY <1>1, <1>3 DEF MappedMatches, MapsAgree, Mapped
<1>9. SampleMatches /\ Learned /\ PriorityIsItsOwn
  BY <1>1 DEF SampleMatches, Learned, PriorityIsItsOwn
<1> QED BY <1>4, <1>5, <1>6, <1>7, <1>8, <1>9 DEF IndInv

LEMMA Invariance == Spec => []IndInv
<1>1. IndInv /\ [Next]_vars => IndInv'
  <2> SUFFICES ASSUME IndInv, [Next]_vars PROVE IndInv'
    OBVIOUS
  <2>1. CASE StartPvp
    BY <2>1, StartPvpStep
  <2>2. CASE \E pvp \in running, terminal \in BOOLEAN : Report(pvp, terminal)
    BY <2>2, ReportStep
  <2>3. CASE DeleteEvicted
    BY <2>3, DeleteEvictedStep
  <2>4. CASE QueueObservation
    BY <2>4, QueueObservationStep
  <2>5. CASE InsertOldest
    BY <2>5, InsertOldestStep
  <2>6. CASE ReportReturns
    BY <2>6, ReportReturnsStep
  <2>7. CASE Sample
    BY <2>7, SampleStep
  <2>8. CASE Train
    BY <2>8, TrainStep
  <2>9. CASE TrainThrows
    BY <2>9, TrainThrowsStep
  <2>10. CASE UNCHANGED vars
    BY <2>10, StutterStep
  <2> QED BY <2>1, <2>2, <2>3, <2>4, <2>5, <2>6, <2>7, <2>8, <2>9, <2>10 DEF Next
<1> QED BY <1>1, InitInv, PTL DEF Spec

LEMMA Indexed ==
  ASSUME IndInv
  PROVE  StorageIndexed
<1> USE DEF IndInv
<1>1. ASSUME NEW id \in Stored
      PROVE  /\ id \in Int /\ IndexOf(id) \in Nat /\ FightOf(id) \in PvpId
             /\ IndexOf(id) < CountOf(FightOf(id)) /\ CountOf(FightOf(id)) \in Nat
  BY CountFacts DEF TypeOK, ObservationId, IndexOf, FightOf, Numbered
<1>2. ASSUME NEW id \in Stored, NEW other \in Stored,
             FightOf(id) = FightOf(other), IndexOf(id) <= IndexOf(other)
      PROVE  id <= other
  BY <1>2 DEF Numbered
<1>3. ASSUME NEW id \in Stored PROVE Neighbours(id, 0) = {id}
  <2>1. ASSUME NEW n \in Neighbours(id, 0) PROVE n = id
    <3>1. n \in Stored /\ FightOf(n) = FightOf(id) /\ IndexOf(n) = IndexOf(id) + 0
      BY DEF Neighbours, FightOf, IndexOf
    <3>2. n <= id /\ id <= n
      BY <1>1, <1>2, <3>1
    <3> QED BY <1>1, <3>1, <3>2
  <2>2. id \in Neighbours(id, 0)
    <3>1. IndexOf(id) = IndexOf(id) + 0
      BY <1>1
    <3> QED BY <3>1 DEF Neighbours, IndexOf
  <2> QED BY <2>1, <2>2
<1>4. ASSUME NEW id \in Stored, hasPrevious(id)
      PROVE  \E previous \in Neighbours(id, -1) : previous < id
  <2>1. IndexOf(id) - 1 \in 0..(CountOf(FightOf(id)) - 1)
    BY <1>1, <1>4 DEF hasPrevious, IndexOf
  <2>2. PICK n \in ObservationsOf(FightOf(id), storage) : IndexOf(n) = IndexOf(id) - 1
    BY <1>1, <2>1 DEF Numbered
  <2>3. n \in Stored /\ FightOf(n) = FightOf(id)
    BY DEF ObservationsOf, FightOf, Stored
  <2>4. n \in Neighbours(id, -1)
    <3>1. IndexOf(n) = IndexOf(id) + (-1)
      BY <1>1, <2>2
    <3> QED BY <2>3, <3>1 DEF Neighbours, FightOf, IndexOf
  <2>5. n <= id /\ n # id
    BY <1>1, <1>2, <2>2, <2>3
  <2> QED BY <1>1, <2>3, <2>4, <2>5
<1> QED BY <1>3, <1>4 DEF StorageIndexed, EpisodesMatch, FightOf

(* The newest observation is stored and waits, so it takes no room in the  *)
(* buffer, which has at least as much as the storage.                      *)
LEMMA Room ==
  ASSUME IndInv
  PROVE  BufferHasRoom
<1> USE DEF IndInv
<1> DEFINE q == pendingObservations[pvpId]
<1> SUFFICES ASSUME reportPc \in {"lookahead", "flush"}, q # << >>
             PROVE  currentBufferSize < Cardinality(TransitionId)
  BY DEF BufferHasRoom
<1>1. Newest \in Stored /\ Newest \notin Mapped /\ Mapped \subseteq Stored
  <2>1. q[Len(q)] = Newest /\ Newest \in Stored /\ deletedObservationIds = {} /\ pvpId \in PvpId
    BY DEF NewestLast, ReportMatches, TypeOK
  <2>2. Len(q) \in DOMAIN q
    <3>1. q \in Seq(ObservationId)
      BY <2>1 DEF TypeOK
    <3> QED BY <3>1
  <2>3. Newest \notin Mapped
    BY <2>1, <2>2 DEF PendingMatches
  <2> QED BY <2>1, <2>3 DEF MappedMatches
<1>2. IsFiniteSet(Stored) /\ IsFiniteSet(Mapped)
  <2>1. Stored \in SUBSET ObservationId /\ Mapped \in SUBSET ObservationId
    BY <1>1 DEF TypeOK
  <2> QED BY <2>1, ObservationsFinite
<1>3. Cardinality(Mapped) <= Cardinality(Stored) /\ Cardinality(Mapped) # Cardinality(Stored)
  BY <1>1, <1>2, FS_Subset
<1>4. /\ Cardinality(Mapped) \in Nat /\ Cardinality(Stored) \in Nat
      /\ Cardinality(TransitionId) \in Nat /\ StorageCapacity \in 1..Cardinality(TransitionId)
  BY <1>2, FS_CardinalityType DEF ExperienceReplayAssumption
<1> QED BY <1>3, <1>4 DEF MappedMatches, TypeOK

(* Storage, maps and buffer always agree, training finds what it looks up  *)
(* and addTransition never meets a full buffer.                            *)
THEOREM ConsistentAlways == Spec => []Consistent
<1>1. IndInv => Consistent
  <2> SUFFICES ASSUME IndInv PROVE Consistent
    OBVIOUS
  <2>1. StorageIndexed /\ BufferHasRoom
    BY Indexed, Room
  <2>2. TransitionsAreTrainable
    <3>1. reportPc = "idle" => Mapped \subseteq Stored
      BY DEF IndInv, MappedMatches, ReportMatches
    <3> QED BY <3>1 DEF TransitionsAreTrainable, IndInv, MappedMatches, Mapped
  <2> QED BY <2>1, <2>2 DEF Consistent, IndInv, MappedMatches
<1> QED BY <1>1, Invariance, PTL

(* Training gives each transition its own TD error, never that of one that *)
(* had its id before (deletedTransitionIds_).                              *)
THEOREM PriorityIsItsOwnAlways == Spec => []PriorityIsItsOwn
<1>1. IndInv => PriorityIsItsOwn
  BY DEF IndInv
<1> QED BY <1>1, Invariance, PTL

(* When its actor is done, no observation of a fight is left behind in the *)
(* lookahead queue (pendingObservations_).                                 *)
THEOREM FinishedFightIsLearnedAlways == Spec => []FinishedFightIsLearned
<1>1. IndInv => FinishedFightIsLearned
  <2> SUFFICES ASSUME IndInv, reportPc = "idle", NEW id \in Stored,
                      storage[id].pvpId \notin running, hasPrevious(id)
               PROVE  id \in Mapped
    BY DEF FinishedFightIsLearned, Mapped
  <2>1. id \in Mapped \/ Queued(id)
    BY DEF IndInv, Learned
  <2>2. ASSUME Queued(id) PROVE FALSE
    <3>1. PICK p \in PvpId : \E k \in DOMAIN pendingObservations[p] :
                               pendingObservations[p][k] = id
      BY <2>2 DEF Queued
    <3>2. FightOf(id) = p
      BY <3>1 DEF IndInv, PendingMatches
    <3>3. pendingObservations[p] = << >>
      BY <3>2 DEF IndInv, PendingMatches, FightOf
    <3> QED BY <3>1, <3>3
  <2> QED BY <2>1, <2>2
<1> QED BY <1>1, Invariance, PTL

-----------------------------------------------------------------------------
(* The manager as the user of a PriorityPool.                              *)

LEMMA PoolStep ==
  ASSUME IndInv, [Next]_vars
  PROVE  [Pool!Next]_Pool!vars
<1>1. ASSUME UNCHANGED bufferVars PROVE UNCHANGED Pool!vars
  BY <1>1 DEF Pool!vars, bufferVars
<1>2. CASE StartPvp
  BY <1>1, <1>2 DEF StartPvp
<1>3. CASE \E pvp \in running, terminal \in BOOLEAN : Report(pvp, terminal)
  BY <1>1, <1>3 DEF Report
<1>4. CASE QueueObservation
  BY <1>1, <1>4 DEF QueueObservation
<1>5. CASE ReportReturns
  BY <1>1, <1>5 DEF ReportReturns
<1>6. CASE Sample
  BY <1>1, <1>6 DEF Sample
<1>7. CASE TrainThrows
  BY <1>1, <1>7 DEF TrainThrows
<1>8. CASE UNCHANGED vars
  BY <1>1, <1>8 DEF vars
<1>9. CASE DeleteEvicted
  <2> DEFINE id == Min(deletedObservationIds)
             t == observationIdToTransitionIdMap[id]
  <2>1. CASE id \notin DOMAIN observationIdToTransitionIdMap
    BY <1>1, <1>9, <2>1 DEF DeleteEvicted
  <2>2. CASE id \in DOMAIN observationIdToTransitionIdMap
    <3>1. priority' = Erase(priority, t) /\ currentBufferSize' = currentBufferSize - 1
      BY <1>9, <2>2 DEF DeleteEvicted, DeleteTransitionOf
    <3>2. t \in DOMAIN priority /\ t \in TransitionId
      BY <2>2 DEF IndInv, MappedMatches, MapsAgree, TypeOK
    <3> HIDE DEF t
    <3>3. DOMAIN priority' = DOMAIN priority \ {t}
      BY <3>1 DEF Erase
    <3>4. Pool!DeleteTransition(t)
      BY <3>1, <3>2, <3>3 DEF Pool!DeleteTransition, Pool!Held
    <3> QED BY <3>2, <3>4 DEF Pool!Next
  <2> QED BY <2>1, <2>2
<1>10. CASE InsertOldest
  <2> DEFINE id == Head(pendingObservations[pvpId])
  <2>1. CASE ~(id \in Stored /\ hasPrevious(id))
    BY <1>1, <1>10, <2>1 DEF InsertOldest
  <2>2. CASE id \in Stored /\ hasPrevious(id)
    <3>1. PICK t \in TransitionId \ DOMAIN priority :
                 priority' = Put(priority, t, id) /\ currentBufferSize' = currentBufferSize + 1
      BY <1>10, <2>2 DEF InsertOldest, addTransition
    <3>2. DOMAIN priority' = DOMAIN priority \cup {t}
      BY <3>1 DEF Put
    <3>3. Pool!AddTransition(t)
      BY <3>1, <3>2 DEF Pool!AddTransition, Pool!Held
    <3> QED BY <3>1, <3>3 DEF Pool!Next
  <2> QED BY <2>1, <2>2
<1>11. CASE Train
  <2> DEFINE ids == {sampleResult[k][1] : k \in WriteBack}
  <2>1. DOMAIN priority' = DOMAIN priority /\ ids \subseteq DOMAIN priority
    BY <1>11, WriteBackFacts
  <2>2. currentBufferSize' = currentBufferSize
    BY <1>11 DEF Train
  <2> HIDE DEF ids
  <2>3. Pool!UpdatePriorities(ids)
    <3> DEFINE ones == [t \in DOMAIN priority |-> 1]
               same == [i \in ids |-> 1]
    <3>1. same \in [ids -> {1}] /\ Pool!Held = DOMAIN priority /\ ids \subseteq Pool!Held
      BY <2>1 DEF Pool!Held
    <3>2. ones' = [i \in Pool!Held |-> IF i \in ids THEN same[i] ELSE ones[i]]
      BY <2>1, <3>1
    <3>3. \E p \in [ids -> {1}] :
            ones' = [i \in Pool!Held |-> IF i \in ids THEN p[i] ELSE ones[i]]
      BY <3>1, <3>2, Zenon
    <3> QED BY <2>2, <3>1, <3>3 DEF Pool!UpdatePriorities
  <2> QED BY <2>1, <2>3 DEF Pool!Next, Pool!Held
<1> QED BY <1>2, <1>3, <1>4, <1>5, <1>6, <1>7, <1>8, <1>9, <1>10, <1>11 DEF Next

(* The manager deletes and updates only transitions that the buffer holds. *)
THEOREM UsesPoolAlways == Spec => UsesPool
<1>1. Init => Pool!Init
  BY DEF Init, Empty, Pool!Init
<1>2. IndInv /\ [Next]_vars => [Pool!Next]_Pool!vars
  BY PoolStep
<1> QED BY <1>1, <1>2, Invariance, PTL DEF Spec, UsesPool, Pool!Spec

HIDE ExperienceReplayAssumption

-----------------------------------------------------------------------------
(* 2. Sessions: one conversation with every server, and nothing lost.      *)

USE SessionsAssumption

-----------------------------------------------------------------------------
(* The inductive invariant: each session has one conversation, and is at   *)
(* one place of it.                                                        *)

Made == [made : {TRUE}, waitingOnShardList : BOOLEAN, loginRequestSent : BOOLEAN,
         token : BOOLEAN, spawned : BOOLEAN]
Machine == {NoMachine} \cup Made
Replies == {"state request", "patched", "shards", "challenge", "logged in", "login failed",
            "identify", "authorized", "characters", "spawned", "body state"}
Stages == {"connect", "await clients", "log in", "first dummy", "await logins", "stand by",
           "second dummy", "done"}

EventSet == [kind : Kinds, of : 0..Bots]
QueueShape ==
  /\ queue \in Seq(EventSet) /\ turn \in Bot /\ half \in {"handle", "login", "pvp"}
  /\ queue = <<>> => turn = 1 /\ half = "handle"
Shapes ==
  /\ pc \in Stages /\ next \in Bot /\ idsSaved \in BOOLEAN /\ shardList \in BOOLEAN
  /\ opened \subseteq Bot /\ readyToLogin \subseteq Bot /\ loggedIn \subseteq Bot
  /\ self \subseteq Bot /\ task \subseteq Bot /\ refused \subseteq Bot
  /\ login \in [Bot -> Machine] /\ pvpManager \in [Bot -> {"none", "made", "published"}]
  /\ toAgent \in [Bot -> BOOLEAN] /\ conn \in [Bot -> {"none", "gateway", "agent"}]
  /\ injected \in [Bot -> Seq(Packets)] /\ wire \in [Bot -> Seq(Replies)]
  /\ asked \in [Bot -> Packets \cup {"nothing"}]
  /\ QueueShape

(* The event at i tells b something it has yet to act on.  A bot acts on   *)
(* the coming of its entity before its machine is updated.                 *)
Due(b, i) ==
  /\ queue[i].of = b /\ queue[i].kind # "ReadyForAssignment"
  /\ \/ i > 1 \/ turn < b
     \/ turn = b /\ half = "handle"
     \/ turn = b /\ half = "login" /\ queue[i].kind # "SelfSpawned"
Pending(b, i) == Due(b, i) /\ queue[i].kind # "GatewayLoginResponseReceived"
NoEvent(b) == \A i \in DOMAIN queue : ~Pending(b, i)
EventIs(b, k) ==
  \E i \in DOMAIN queue :
    /\ queue[i].kind = k /\ Pending(b, i)
    /\ \A j \in DOMAIN queue : Pending(b, j) => j = i

(* Where the one thing that is under way is, and what it is.               *)
At(b, place, what) ==
  /\ b \in task <=> place = "task"
  /\ injected[b] = IF place = "injected" THEN <<what>> ELSE <<>>
  /\ asked[b] = IF place = "asked" THEN what ELSE "nothing"
  /\ \/ place = "wire" /\ wire[b] = <<what>>
     \/ place = "wire" /\ what = "identify" /\ wire[b] = <<"state request", "identify">>
     \/ place # "wire" /\ wire[b] = <<>>
  /\ IF place = "event" THEN EventIs(b, what) ELSE NoEvent(b)

(* The conversation: what comes at which place, in its order.              *)
Connecting == {<<"wire", "state request">>, <<"asked", "patch">>, <<"wire", "patched">>,
               <<"event", "GatewayPatchResponseReceived">>}
Seeking == {<<"injected", "shard list">>, <<"asked", "shard list">>, <<"wire", "shards">>,
            <<"event", "ShardListReceived">>}
LoggingIn == {<<"injected", "login">>, <<"asked", "login">>, <<"wire", "challenge">>,
              <<"event", "IbuvChallengeReceived">>, <<"injected", "captcha answer">>,
              <<"asked", "captcha answer">>, <<"wire", "logged in">>, <<"wire", "login failed">>}
Changing == {<<"task", "agent">>, <<"wire", "identify">>, <<"event", "ConnectedToAgentServer">>}
Entering == {<<"injected", "auth">>, <<"asked", "auth">>, <<"wire", "authorized">>,
             <<"event", "ServerAuthSuccess">>, <<"injected", "list">>, <<"asked", "list">>,
             <<"wire", "characters">>, <<"event", "CharacterListReceived">>,
             <<"injected", "join">>, <<"asked", "join">>, <<"wire", "spawned">>,
             <<"event", "SelfSpawned">>, <<"injected", "game ready">>,
             <<"asked", "game ready">>, <<"wire", "body state">>,
             <<"event", "EntityBodyStateChanged">>}

(* The machine of b has been made.                                         *)
Created(b) == pc \notin {"connect", "await clients"} /\ (pc = "log in" => b < next)
Hearing(b, k) ==
  /\ half = "login" /\ turn = b
  /\ queue # <<>> /\ queue[1].kind = k /\ queue[1].of = b
(* The token is there, or comes before anything else that b hears.         *)
TokenNext(b) ==
  \E i \in DOMAIN queue :
    /\ Due(b, i) /\ queue[i].kind = "GatewayLoginResponseReceived"
    /\ \A j \in DOMAIN queue : Pending(b, j) => i < j
TokenComing(b) == login[b].token \/ TokenNext(b)
OnGateway(b) == conn[b] = "gateway" /\ ~toAgent[b]
Fresh(b) == login[b].made => ~login[b].waitingOnShardList /\ ~login[b].loginRequestSent
Knows(b) == login[b].made /\ ~login[b].waitingOnShardList /\ shardList

Doing(b, place, what) ==
  \/ /\ <<place, what>> = <<"none", "unopened">>
     /\ b \notin opened /\ b \notin readyToLogin /\ conn[b] = "none" /\ ~toAgent[b]
  \/ /\ <<place, what>> = <<"task", "gateway">>
     /\ b \notin readyToLogin /\ conn[b] = "none" /\ ~toAgent[b]
  \/ /\ <<place, what>> \in Connecting /\ OnGateway(b)
     /\ b \in readyToLogin => place = "event" /\ Hearing(b, what) /\ Fresh(b)
  \/ /\ <<place, what>> = <<"none", "ready">> /\ OnGateway(b)
     /\ b \in readyToLogin /\ Fresh(b)
  \/ /\ <<place, what>> \in Seeking /\ OnGateway(b)
     /\ login[b].made /\ login[b].waitingOnShardList /\ ~login[b].loginRequestSent
     /\ place = "event" => shardList
  \/ <<place, what>> \in LoggingIn /\ OnGateway(b) /\ Knows(b)
  \/ /\ <<place, what>> \in Changing /\ toAgent[b] /\ Knows(b) /\ TokenComing(b)
     /\ conn[b] = IF place = "task" THEN "none" ELSE "agent"
  \/ <<place, what>> \in Entering /\ toAgent[b] /\ conn[b] = "agent" /\ Knows(b)
  \/ /\ <<place, what>> = <<"none", "over">>
     /\ b \notin readyToLogin \/ Created(b)
     /\ login[b].made => login[b].waitingOnShardList \/ shardList

Places == {"none", "task", "wire", "asked", "injected", "event"}
Whats == {"unopened", "gateway", "ready", "agent", "over"} \cup Packets \cup Replies \cup Kinds
Conversing(b) ==
  \E place \in Places, what \in Whats :
    /\ At(b, place, what) /\ Doing(b, place, what)
    /\ b \notin opened <=> what = "unopened"

(* What a bot has come to, and the training thread with it.                *)
InOrder(b) ==
  /\ login[b].made \/ b \in loggedIn \/ b \in self => Created(b)
  /\ login[b].made => (login[b].spawned => b \in self)
  /\ Hearing(b, "SelfSpawned") => b \in self
  /\ Hearing(b, "GatewayPatchResponseReceived") => b \in readyToLogin
  /\ b \in loggedIn => ~login[b].made /\ b \in self
  /\ pvpManager[b] # "none" => pc \in {"stand by", "second dummy", "done"}
  /\ b \in opened <=> (pc = "connect" => b < next)
ThreadInv ==
  /\ pc \notin {"connect", "await clients"} => readyToLogin = Bot
  /\ pc \in {"stand by", "second dummy", "done"} => loggedIn = Bot /\ idsSaved

SessionsInv ==
  /\ Shapes /\ ThreadInv /\ NothingLost
  /\ \A b \in Bot : Conversing(b) /\ InOrder(b)

-----------------------------------------------------------------------------
(* The queue of events.                                                    *)

Conversation == {"GatewayPatchResponseReceived", "ShardListReceived", "IbuvChallengeReceived",
                 "GatewayLoginResponseReceived", "ConnectedToAgentServer", "ServerAuthSuccess",
                 "CharacterListReceived", "SelfSpawned", "EntityBodyStateChanged"}

(* The kinds of events, spelled out.                                       *)
LEMMA KindsAre == Kinds = {"Dummy", "ReadyForAssignment"} \cup Conversation
BY DEF Kinds, PublishedFor, Conversation

LEMMA TailEvents ==
  ASSUME NEW T, NEW q \in Seq(T), q # <<>>
  PROVE  /\ Tail(q) \in Seq(T) /\ Head(q) = q[1] /\ q[1] \in T
         /\ Len(q) \in Nat /\ Len(q) >= 1 /\ DOMAIN q = 1..Len(q)
         /\ DOMAIN Tail(q) = 1..(Len(q) - 1)
         /\ \A i \in DOMAIN Tail(q) : i + 1 \in DOMAIN q /\ Tail(q)[i] = q[i + 1]
BY HeadTailProperties

LEMMA AppendEvents ==
  ASSUME NEW T, NEW q \in Seq(T), NEW p \in T
  PROVE  /\ Append(q, p) \in Seq(T) /\ Append(q, p) # <<>> /\ Len(q) \in Nat
         /\ DOMAIN q = 1..Len(q) /\ DOMAIN Append(q, p) = 1..(Len(q) + 1)
         /\ \A i \in DOMAIN q : Append(q, p)[i] = q[i]
         /\ Append(q, p)[Len(q) + 1] = p
BY AppendProperties

(* What is due to b stays due, d places further to the front, but for x.   *)
Keeps(b, d, x) ==
  /\ \A j \in DOMAIN queue' :
       Due(b, j)' => /\ j + d \in DOMAIN queue /\ j + d # x
                     /\ Due(b, j + d) /\ queue'[j] = queue[j + d]
  /\ \A i \in DOMAIN queue :
       Due(b, i) /\ i # x => i - d \in DOMAIN queue' /\ Due(b, i - d)'

(* What a bot is to hear outlives a step that keeps what is due to it.     *)
LEMMA KeepsFacts ==
  ASSUME NEW b, NEW d \in {0, 1}, NEW x \in Nat, Keeps(b, d, x),
         queue \in Seq(EventSet), queue' \in Seq(EventSet)
  PROVE  /\ NoEvent(b) => NoEvent(b)'
         /\ \A k : EventIs(b, k) /\ (x \notin DOMAIN queue \/ ~Pending(b, x)) => EventIs(b, k)'
         /\ \A k : EventIs(b, k) /\ x \in DOMAIN queue /\ Pending(b, x) => NoEvent(b)'
         /\ TokenNext(b) /\ (\/ x \notin DOMAIN queue \/ ~Due(b, x)
                             \/ queue[x].kind # "GatewayLoginResponseReceived")
              => TokenNext(b)'
<1>1. DOMAIN queue = 1..Len(queue) /\ Len(queue) \in Nat
      /\ DOMAIN queue' = 1..Len(queue') /\ Len(queue') \in Nat
  OBVIOUS
<1>2. ASSUME NEW j \in DOMAIN queue', Pending(b, j)'
      PROVE  j + d \in DOMAIN queue /\ j + d # x /\ Pending(b, j + d) /\ queue'[j] = queue[j + d]
  BY <1>2 DEF Keeps, Pending
<1>3. ASSUME NEW i \in DOMAIN queue, Due(b, i), i # x
      PROVE  i - d \in DOMAIN queue' /\ Due(b, i - d)' /\ queue'[i - d] = queue[i]
  <2>1. i - d \in DOMAIN queue' /\ Due(b, i - d)'
    BY <1>3 DEF Keeps
  <2>2. queue'[i - d] = queue[(i - d) + d]
    BY <2>1 DEF Keeps
  <2> QED BY <2>1, <2>2, <1>1
<1>4. NoEvent(b) => NoEvent(b)'
  BY <1>2 DEF NoEvent
<1>5. ASSUME NEW k, EventIs(b, k), x \notin DOMAIN queue \/ ~Pending(b, x)
      PROVE  EventIs(b, k)'
  <2>1. PICK i \in DOMAIN queue : /\ queue[i].kind = k /\ Pending(b, i)
                                  /\ \A j \in DOMAIN queue : Pending(b, j) => j = i
    BY <1>5 DEF EventIs
  <2>2. i # x /\ Due(b, i)
    BY <2>1, <1>5 DEF Pending
  <2>3. i - d \in DOMAIN queue' /\ Due(b, i - d)' /\ queue'[i - d] = queue[i]
    BY <2>2, <1>3
  <2>4. Pending(b, i - d)'
    BY <2>1, <2>3 DEF Pending
  <2>5. ASSUME NEW j \in DOMAIN queue', Pending(b, j)' PROVE j = i - d
    <3>1. j + d = i
      BY <2>5, <1>2, <2>1
    <3> QED BY <3>1, <1>1
  <2> QED BY <2>1, <2>3, <2>4, <2>5 DEF EventIs
<1>6. ASSUME NEW k, EventIs(b, k), x \in DOMAIN queue, Pending(b, x)
      PROVE  NoEvent(b)'
  <2>1. \A j \in DOMAIN queue : Pending(b, j) => j = x
    BY <1>6 DEF EventIs
  <2> QED BY <2>1, <1>2 DEF NoEvent
<1>7. ASSUME TokenNext(b),
             \/ x \notin DOMAIN queue \/ ~Due(b, x)
             \/ queue[x].kind # "GatewayLoginResponseReceived"
      PROVE  TokenNext(b)'
  <2>1. PICK i \in DOMAIN queue :
          /\ Due(b, i) /\ queue[i].kind = "GatewayLoginResponseReceived"
          /\ \A j \in DOMAIN queue : Pending(b, j) => i < j
    BY <1>7 DEF TokenNext
  <2>2. i # x
    BY <2>1, <1>7
  <2>3. i - d \in DOMAIN queue' /\ Due(b, i - d)' /\ queue'[i - d] = queue[i]
    BY <2>1, <2>2, <1>3
  <2>4. ASSUME NEW j \in DOMAIN queue', Pending(b, j)' PROVE i - d < j
    <3>1. i < j + d
      BY <2>4, <1>2, <2>1
    <3> QED BY <3>1, <1>1
  <2> QED BY <2>1, <2>3, <2>4 DEF TokenNext
<1> QED BY <1>4, <1>5, <1>6, <1>7

(* A queue that stays as it is.                                            *)
LEMMA QueueStays ==
  ASSUME NEW b, queue \in Seq(EventSet), UNCHANGED broker
  PROVE  Keeps(b, 0, 0)
<1>1. DOMAIN queue = 1..Len(queue) /\ Len(queue) \in Nat
  OBVIOUS
<1>2. queue' = queue /\ turn' = turn /\ half' = half
  BY DEF broker
<1>3. \A i \in DOMAIN queue : i + 0 = i /\ i - 0 = i /\ i # 0
  BY <1>1
<1>4. \A i \in DOMAIN queue : Due(b, i)' <=> Due(b, i)
  BY <1>2 DEF Due
<1> QED BY <1>2, <1>3, <1>4 DEF Keeps

(* An event of another, or one that no login hears.                        *)
LEMMA QueueGrows ==
  ASSUME NEW b, NEW e \in EventSet, queue \in Seq(EventSet),
         e.of # b \/ e.kind = "ReadyForAssignment",
         queue' = Append(queue, e), turn' = turn, half' = half
  PROVE  Keeps(b, 0, 0)
<1> DEFINE longer == Append(queue, e)
<1>a. /\ Len(queue) \in Nat /\ DOMAIN queue = 1..Len(queue)
      /\ DOMAIN longer = 1..(Len(queue) + 1) /\ longer[Len(queue) + 1] = e
      /\ \A i \in DOMAIN queue : longer[i] = queue[i]
  BY AppendEvents
<1>b. queue' = longer
  OBVIOUS
<1> HIDE DEF longer
<1>c. PICK n \in Nat : n = Len(queue) + 1
  BY <1>a
<1>1. /\ Len(queue) \in Nat /\ DOMAIN queue = 1..Len(queue)
      /\ DOMAIN queue' = 1..n /\ queue'[n] = e
      /\ \A i \in DOMAIN queue : queue'[i] = queue[i]
  BY <1>a, <1>b, <1>c
<1>2. ~Due(b, n)'
  BY <1>1 DEF Due
<1>3. \A i \in DOMAIN queue : i + 0 = i /\ i - 0 = i /\ i # 0 /\ i \in DOMAIN queue'
  BY <1>1
<1>4. \A i \in DOMAIN queue : Due(b, i)' <=> Due(b, i)
  BY <1>1 DEF Due
<1>5. \A j \in DOMAIN queue' : j = n \/ j \in DOMAIN queue
  BY <1>1, <1>c
<1> QED BY <1>1, <1>2, <1>3, <1>4, <1>5 DEF Keeps

(* What the server's answer tells the bot: nothing else is due to it.      *)
LEMMA OwnEvent ==
  ASSUME NEW s \in Bot, NEW k \in Kinds \ {"ReadyForAssignment"}, QueueShape, NoEvent(s),
         half = "handle", queue' = Append(queue, Event(k, s)), turn' = turn, half' = half
  PROVE  /\ k # "GatewayLoginResponseReceived" =>
              EventIs(s, k)' /\ (TokenNext(s) => TokenNext(s)')
         /\ k = "GatewayLoginResponseReceived" => NoEvent(s)' /\ TokenNext(s)'
<1> DEFINE longer == Append(queue, Event(k, s))
<1>1. Event(k, s) \in EventSet /\ Event(k, s).kind = k /\ Event(k, s).of = s
  BY DEF Event, EventSet, Bot
<1>a. /\ Len(queue) \in Nat /\ DOMAIN queue = 1..Len(queue)
      /\ DOMAIN longer = 1..(Len(queue) + 1) /\ longer[Len(queue) + 1] = Event(k, s)
      /\ \A i \in DOMAIN queue : longer[i] = queue[i]
  BY <1>1, AppendEvents DEF QueueShape
<1>b. queue' = longer
  OBVIOUS
<1> HIDE DEF longer
<1>c. PICK n \in Nat : n = Len(queue) + 1
  BY <1>a
<1>2. /\ Len(queue) \in Nat /\ DOMAIN queue = 1..Len(queue)
      /\ DOMAIN queue' = 1..n /\ queue'[n] = Event(k, s)
      /\ \A i \in DOMAIN queue : queue'[i] = queue[i]
  BY <1>a, <1>b, <1>c
<1>3. n > 1 \/ turn = 1
  <2>1. CASE queue = <<>>
    BY <2>1 DEF QueueShape
  <2>2. CASE queue # <<>>
    BY <2>2, <1>2, <1>c, TailEvents DEF QueueShape
  <2> QED BY <2>1, <2>2
<1>4. n \in DOMAIN queue' /\ \A j \in DOMAIN queue' : j = n \/ (j \in DOMAIN queue /\ j < n)
  BY <1>2, <1>c
<1>5. Due(s, n)'
  <2>1. s >= 1 /\ turn' = 1 => (turn' < s \/ turn' = s)
    BY DEF Bot
  <2> QED BY <2>1, <1>1, <1>2, <1>3 DEF Due, Bot
<1>6. \A j \in DOMAIN queue : (Due(s, j)' <=> Due(s, j)) /\ (Pending(s, j)' <=> Pending(s, j))
  BY <1>2 DEF Due, Pending
<1>7. \A j \in DOMAIN queue : ~Pending(s, j)'
  BY <1>6 DEF NoEvent
<1>8. ASSUME k # "GatewayLoginResponseReceived" PROVE EventIs(s, k)'
  <2>1. Pending(s, n)' /\ queue'[n].kind = k
    BY <1>8, <1>1, <1>2, <1>5 DEF Pending
  <2> QED BY <2>1, <1>4, <1>7 DEF EventIs
<1>9. ASSUME TokenNext(s) PROVE TokenNext(s)'
  <2>1. PICK i \in DOMAIN queue :
          Due(s, i) /\ queue[i].kind = "GatewayLoginResponseReceived"
    BY <1>9 DEF TokenNext
  <2>2. i \in DOMAIN queue' /\ i < n
    BY <1>2, <1>c
  <2>3. \A j \in DOMAIN queue' : Pending(s, j)' => i < j
    BY <1>4, <1>7, <2>2
  <2> QED BY <2>1, <2>2, <2>3, <1>2, <1>6 DEF TokenNext
<1>10. ASSUME k = "GatewayLoginResponseReceived" PROVE NoEvent(s)' /\ TokenNext(s)'
  <2>1. ~Pending(s, n)' /\ queue'[n].kind = k
    BY <1>10, <1>1, <1>2 DEF Pending
  <2>2. \A j \in DOMAIN queue' : ~Pending(s, j)'
    BY <2>1, <1>4, <1>7
  <2> QED BY <2>1, <2>2, <1>4, <1>5, <1>10 DEF NoEvent, TokenNext
<1> QED BY <1>8, <1>9, <1>10

(* The bot whose turn it is has done with the first event.                 *)
LEMMA TurnPasses ==
  ASSUME QueueShape, queue # <<>>, NextTurn
  PROVE  /\ \A b \in Bot \ {turn} : \E d \in {0, 1} : Keeps(b, d, 0)
         /\ \A b \in Bot : b = turn => \E d \in {0, 1} : Keeps(b, d, 1)
         /\ queue' \in Seq(EventSet) /\ turn' \in Bot /\ half' = "handle"
         /\ queue' = <<>> => turn' = 1
<1>1. /\ Tail(queue) \in Seq(EventSet) /\ Len(queue) \in Nat /\ Len(queue) >= 1
      /\ DOMAIN queue = 1..Len(queue) /\ DOMAIN Tail(queue) = 1..(Len(queue) - 1)
      /\ \A i \in DOMAIN Tail(queue) : i + 1 \in DOMAIN queue /\ Tail(queue)[i] = queue[i + 1]
  BY TailEvents DEF QueueShape
<1>2. half' = "handle" /\ turn \in Nat /\ turn >= 1 /\ turn <= Bots
  BY DEF NextTurn, QueueShape, Bot
<1>3. CASE turn < Bots
  <2>1. turn' = turn + 1 /\ queue' = queue
    BY <1>3 DEF NextTurn
  <2>2. \A i \in DOMAIN queue : i + 0 = i /\ i - 0 = i /\ i # 0
    BY <1>1
  <2>3. ASSUME NEW b \in Bot, NEW i \in DOMAIN queue
        PROVE  Due(b, i)' <=> Due(b, i) /\ (b # turn \/ i # 1)
    BY <2>1, <1>1, <1>2 DEF Due, Bot
  <2>4. ASSUME NEW b \in Bot \ {turn} PROVE Keeps(b, 0, 0)
    BY <2>1, <2>2, <2>3 DEF Keeps
  <2>5. ASSUME NEW b \in Bot, b = turn PROVE Keeps(b, 0, 1)
    BY <2>1, <2>2, <2>3, <2>5 DEF Keeps
  <2> QED BY <2>1, <2>4, <2>5, <1>2, <1>3 DEF QueueShape, Bot
<1>4. CASE ~(turn < Bots)
  <2>1. turn' = 1 /\ queue' = Tail(queue) /\ turn = Bots
    BY <1>4, <1>2 DEF NextTurn
  <2>2. /\ \A j \in DOMAIN queue' : j + 1 \in DOMAIN queue /\ queue'[j] = queue[j + 1] /\ j + 1 > 1
        /\ \A i \in DOMAIN queue : i > 1 => i - 1 \in DOMAIN queue'
        /\ \A i \in DOMAIN queue : i = 1 \/ i > 1
    BY <2>1, <1>1
  <2>3. ASSUME NEW b \in Bot, NEW j \in DOMAIN queue'
        PROVE  Due(b, j)' <=> Due(b, j + 1)
    BY <2>1, <2>2, <1>2, <1>1 DEF Due, Bot
  <2>4. ASSUME NEW b \in Bot, NEW i \in DOMAIN queue, Due(b, i), i > 1
        PROVE  i - 1 \in DOMAIN queue' /\ Due(b, i - 1)'
    <3>1. i - 1 \in DOMAIN queue' /\ (i - 1) + 1 = i
      BY <2>2, <2>4, <1>1
    <3> QED BY <3>1, <2>3, <2>4
  <2>5. ASSUME NEW b \in Bot \ {turn} PROVE Keeps(b, 1, 0)
    <3>1. \A i \in DOMAIN queue : Due(b, i) => i > 1
      BY <2>1, <2>2, <1>2 DEF Due, Bot
    <3> QED BY <3>1, <2>2, <2>3, <2>4, <1>1 DEF Keeps
  <2>6. ASSUME NEW b \in Bot, b = turn PROVE Keeps(b, 1, 1)
    BY <2>2, <2>3, <2>4, <1>1 DEF Keeps
  <2>7. 1 \in Bot
    BY DEF Bot
  <2> QED BY <2>1, <2>5, <2>6, <2>7, <1>1, <1>2
<1> QED BY <1>3, <1>4

(* The bot whose turn it is goes on with the first event.                  *)
LEMMA HalfPasses ==
  ASSUME QueueShape, queue # <<>>, UNCHANGED <<queue, turn>>,
         \/ half = "handle" /\ half' = "login"
         \/ half = "login" /\ half' = "pvp",
         NEW b \in Bot
  PROVE  /\ b # turn => Keeps(b, 0, 0)
         /\ b = turn /\ half' = "pvp" => Keeps(b, 0, 1)
         /\ b = turn /\ half' = "login" =>
              IF queue[1].kind = "SelfSpawned" THEN Keeps(b, 0, 1) ELSE Keeps(b, 0, 0)
<1>1. Len(queue) \in Nat /\ DOMAIN queue = 1..Len(queue)
  BY TailEvents DEF QueueShape
<1>2. \A i \in DOMAIN queue : i + 0 = i /\ i - 0 = i /\ i # 0 /\ (i = 1 \/ i > 1)
  BY <1>1
<1>3. turn \in Nat /\ turn \in Bot
  BY DEF QueueShape, Bot
<1>4. ASSUME NEW i \in DOMAIN queue, b # turn PROVE Due(b, i)' <=> Due(b, i)
  BY <1>4 DEF Due
<1>5. ASSUME NEW i \in DOMAIN queue, b = turn, half' = "pvp"
      PROVE  Due(b, i)' <=> Due(b, i) /\ i # 1
  BY <1>5, <1>2, <1>3 DEF Due
<1>6. ASSUME NEW i \in DOMAIN queue, b = turn, half' = "login"
      PROVE  Due(b, i)' <=> Due(b, i) /\ (i # 1 \/ queue[1].kind # "SelfSpawned")
  BY <1>6, <1>2, <1>3 DEF Due
<1>7. b # turn => Keeps(b, 0, 0)
  BY <1>2, <1>4 DEF Keeps
<1>8. ASSUME b = turn, half' = "pvp" PROVE Keeps(b, 0, 1)
  BY <1>2, <1>5, <1>8 DEF Keeps
<1>9. ASSUME b = turn, half' = "login", queue[1].kind = "SelfSpawned" PROVE Keeps(b, 0, 1)
  BY <1>2, <1>6, <1>9 DEF Keeps
<1>10. ASSUME b = turn, half' = "login", queue[1].kind # "SelfSpawned" PROVE Keeps(b, 0, 0)
  BY <1>2, <1>6, <1>10 DEF Keeps
<1> QED BY <1>7, <1>8, <1>9, <1>10

(* The update of the PvpManager is the last thing a bot does for an event. *)
LEMMA PvpPasses ==
  ASSUME QueueShape, pvpManager \in [Bot -> {"none", "made", "published"}], queue # <<>>, UpdatePvp
  PROVE  /\ \A b \in Bot : \E d \in {0, 1} : Keeps(b, d, 0)
         /\ queue' \in Seq(EventSet) /\ turn' \in Bot /\ half' = "handle"
         /\ queue' = <<>> => turn' = 1
<1> DEFINE after == IF turn < Bots THEN queue ELSE Tail(queue)
           told == Event("ReadyForAssignment", turn)
<1>1. /\ Tail(queue) \in Seq(EventSet) /\ Len(queue) \in Nat /\ Len(queue) >= 1
      /\ DOMAIN queue = 1..Len(queue) /\ DOMAIN Tail(queue) = 1..(Len(queue) - 1)
      /\ \A i \in DOMAIN Tail(queue) : i + 1 \in DOMAIN queue /\ Tail(queue)[i] = queue[i + 1]
  BY TailEvents DEF QueueShape
<1>2. half = "pvp" /\ half' = "handle" /\ turn \in Nat /\ turn >= 1 /\ turn <= Bots
  BY DEF UpdatePvp, QueueShape, Bot
<1>3. after \in Seq(EventSet) /\ told \in EventSet /\ told.kind = "ReadyForAssignment"
  BY <1>1, KindsAre DEF QueueShape, EventSet, Event, Bot
<1>4. queue' = Append(after, told) \/ queue' = after
  BY DEF UpdatePvp
<1>5. turn' = IF turn < Bots THEN turn + 1 ELSE 1
  BY DEF UpdatePvp
<1>6. \E d \in {0, 1} : /\ d = IF turn < Bots THEN 0 ELSE 1
                        /\ Len(after) \in Nat /\ DOMAIN after = 1..Len(after)
                        /\ Len(after) = Len(queue) - d
                        /\ \A i \in DOMAIN after : i + d \in DOMAIN queue /\ after[i] = queue[i + d]
  <2>1. CASE turn < Bots
    <3>1. after = queue /\ \A i \in DOMAIN queue : i + 0 = i
      BY <2>1, <1>1
    <3> QED BY <3>1, <2>1, <1>1
  <2>2. CASE ~(turn < Bots)
    <3>1. after = Tail(queue) /\ Len(after) = Len(queue) - 1
      BY <2>2, <1>1
    <3> QED BY <3>1, <2>2, <1>1
  <2> QED BY <2>1, <2>2
<1>7. PICK d \in {0, 1} : /\ d = IF turn < Bots THEN 0 ELSE 1
                         /\ Len(after) \in Nat /\ DOMAIN after = 1..Len(after)
                         /\ Len(after) = Len(queue) - d
                         /\ \A i \in DOMAIN after : i + d \in DOMAIN queue /\ after[i] = queue[i + d]
  BY <1>6
<1> DEFINE longer == Append(after, told)
<1>8. /\ longer \in Seq(EventSet) /\ longer # <<>>
      /\ DOMAIN longer = 1..(Len(after) + 1) /\ longer[Len(after) + 1] = told
      /\ \A i \in DOMAIN after : longer[i] = after[i]
  BY <1>3, AppendEvents
<1>9. queue' \in Seq(EventSet)
  BY <1>3, <1>4, <1>8
<1>10. queue' = <<>> => turn' = 1
  <2>1. ASSUME queue' = <<>> PROVE after = <<>>
    BY <2>1, <1>4, <1>8
  <2>2. ASSUME after = <<>> PROVE ~(turn < Bots)
    BY <2>2
  <2> QED BY <2>1, <2>2, <1>5
<1> HIDE DEF after, told, longer
<1>11. /\ \A j \in DOMAIN queue' : \/ j \in DOMAIN after /\ queue'[j] = after[j]
                                  \/ queue'[j].kind = "ReadyForAssignment"
       /\ \A j \in DOMAIN after : j \in DOMAIN queue' /\ queue'[j] = after[j]
  <2>1. CASE queue' = after
    BY <2>1
  <2>2. CASE queue' = longer
    BY <2>2, <1>3, <1>7, <1>8
  <2> QED BY <2>1, <2>2, <1>4 DEF longer
<1>12. ASSUME NEW b \in Bot, NEW j \in DOMAIN after PROVE Due(b, j)' <=> Due(b, j + d)
  <2>1. queue'[j] = queue[j + d] /\ j \in Nat /\ j >= 1
    BY <1>7, <1>11
  <2>2. CASE turn < Bots
    <3>1. d = 0 /\ j + d = j /\ turn' = turn + 1
      BY <2>2, <2>1, <1>5, <1>7
    <3> QED BY <2>1, <3>1, <1>2 DEF Due, Bot
  <2>3. CASE ~(turn < Bots)
    <3>1. d = 1 /\ j + d > 1 /\ turn' = 1
      BY <2>3, <2>1, <1>5, <1>7
    <3> QED BY <2>1, <3>1, <1>2 DEF Due, Bot
  <2> QED BY <2>2, <2>3
<1>13. ASSUME NEW b \in Bot, NEW i \in DOMAIN queue, Due(b, i)
       PROVE  i - d \in DOMAIN after /\ (i - d) + d = i
  <2>1. i \in Nat /\ i >= 1 /\ i <= Len(queue) /\ Len(queue) \in Nat
    BY <1>1
  <2>2. d = 1 => i > 1
    <3>1. d = 1 => turn = Bots
      BY <1>2, <1>7
    <3> QED BY <3>1, <1>13, <1>2, <2>1 DEF Due, Bot
  <2>3. CASE d = 0
    BY <2>3, <2>1, <1>7
  <2>4. CASE d = 1
    BY <2>4, <2>1, <2>2, <1>7
  <2> QED BY <2>3, <2>4
<1>14. ASSUME NEW b \in Bot PROVE Keeps(b, d, 0)
  <2>1. ASSUME NEW j \in DOMAIN queue', Due(b, j)'
        PROVE  j + d \in DOMAIN queue /\ j + d # 0 /\ Due(b, j + d) /\ queue'[j] = queue[j + d]
    <3>1. j \in DOMAIN after
      BY <2>1, <1>11 DEF Due
    <3>2. j + d \in DOMAIN queue /\ queue'[j] = queue[j + d]
      BY <3>1, <1>7, <1>11
    <3>3. j + d # 0
      BY <3>2, <1>1
    <3> QED BY <3>1, <3>2, <3>3, <2>1, <1>12
  <2>2. ASSUME NEW i \in DOMAIN queue, Due(b, i)
        PROVE  i - d \in DOMAIN queue' /\ Due(b, i - d)'
    <3>1. i - d \in DOMAIN after /\ (i - d) + d = i
      BY <2>2, <1>13
    <3>2. Due(b, i - d)'
      BY <3>1, <2>2, <1>12
    <3> QED BY <3>1, <3>2, <1>11
  <2> QED BY <2>1, <2>2 DEF Keeps
<1>15. turn' \in Bot
  BY <1>2, <1>5 DEF Bot
<1> QED BY <1>2, <1>9, <1>10, <1>14, <1>15

-----------------------------------------------------------------------------
(* What a step leaves alone.                                               *)

(* What b is to hear is the same, and its machine is no further.           *)
EventsStand(b) ==
  /\ NoEvent(b) => NoEvent(b)'
  /\ \A k : EventIs(b, k) => EventIs(b, k)'
  /\ TokenNext(b) => TokenNext(b)'
MachineStands(b) ==
  /\ login'[b].made <=> login[b].made
  /\ login[b].made => /\ login'[b].waitingOnShardList = login[b].waitingOnShardList
                      /\ login'[b].loginRequestSent = login[b].loginRequestSent
                      /\ ~login[b].waitingOnShardList /\ TokenComing(b) => TokenComing(b)'
ProxyStands(b) ==
  /\ b \in task' <=> b \in task
  /\ injected'[b] = injected[b] /\ asked'[b] = asked[b] /\ wire'[b] = wire[b]
  /\ conn'[b] = conn[b] /\ toAgent'[b] = toAgent[b]
BotStands(b) ==
  /\ b \in opened' <=> b \in opened
  /\ b \in readyToLogin' <=> b \in readyToLogin
  /\ shardList => shardList'
  /\ Created(b) => Created(b)'
StillHears(b) == Hearing(b, "GatewayPatchResponseReceived")
                   => Hearing(b, "GatewayPatchResponseReceived")'

LEMMA WhatsAre ==
  /\ {"unopened", "gateway", "ready", "agent", "over"} \subseteq Whats
  /\ Conversation \subseteq Whats /\ Packets \subseteq Whats /\ Replies \subseteq Whats
  /\ "none" \in Places /\ "task" \in Places /\ "wire" \in Places
  /\ "asked" \in Places /\ "injected" \in Places /\ "event" \in Places
BY KindsAre DEF Whats, Places

(* A step that leaves a session alone leaves its conversation where it is. *)
LEMMA HeardStands ==
  ASSUME NEW b \in Bot, Conversing(b), ProxyStands(b), BotStands(b), MachineStands(b),
         NoEvent(b) => NoEvent(b)', \A k : EventIs(b, k) => EventIs(b, k)', StillHears(b)
  PROVE  Conversing(b)'
<1>1. PICK place \in Places, what \in Whats :
        At(b, place, what) /\ Doing(b, place, what) /\ (b \notin opened <=> what = "unopened")
  BY DEF Conversing
<1>2. At(b, place, what)'
  BY <1>1 DEF At, ProxyStands
<1>3. b \notin opened' <=> what = "unopened"
  BY <1>1 DEF BotStands
<1>4. Doing(b, place, what)'
  <2>1. /\ OnGateway(b) => OnGateway(b)'
        /\ Knows(b) => Knows(b)'
        /\ Fresh(b) => Fresh(b)'
        /\ Knows(b) /\ TokenComing(b) => TokenComing(b)'
    BY DEF OnGateway, Knows, Fresh, ProxyStands, BotStands, MachineStands
  <2>2. ASSUME <<place, what>> = <<"none", "unopened">>, b \notin opened, b \notin readyToLogin,
               conn[b] = "none", ~toAgent[b]
        PROVE  Doing(b, place, what)'
    BY <2>2 DEF Doing, ProxyStands, BotStands
  <2>3. ASSUME <<place, what>> = <<"task", "gateway">>, b \notin readyToLogin,
               conn[b] = "none", ~toAgent[b]
        PROVE  Doing(b, place, what)'
    BY <2>3 DEF Doing, ProxyStands, BotStands
  <2>4. ASSUME <<place, what>> \in Connecting, OnGateway(b),
               b \in readyToLogin => place = "event" /\ Hearing(b, what) /\ Fresh(b)
        PROVE  Doing(b, place, what)'
    <3>1. place = "event" => what = "GatewayPatchResponseReceived"
      BY <2>4 DEF Connecting
    <3>2. b \in readyToLogin' => place = "event" /\ Hearing(b, what)' /\ Fresh(b)'
      BY <3>1, <2>1, <2>4 DEF BotStands, StillHears
    <3> QED BY <3>2, <2>1, <2>4 DEF Doing
  <2>5. ASSUME <<place, what>> = <<"none", "ready">>, OnGateway(b), b \in readyToLogin, Fresh(b)
        PROVE  Doing(b, place, what)'
    BY <2>5, <2>1 DEF Doing, BotStands
  <2>6. ASSUME <<place, what>> \in Seeking, OnGateway(b), login[b].made,
               login[b].waitingOnShardList, ~login[b].loginRequestSent,
               place = "event" => shardList
        PROVE  Doing(b, place, what)'
    BY <2>6, <2>1 DEF Doing, BotStands, MachineStands
  <2>7. ASSUME <<place, what>> \in LoggingIn, OnGateway(b), Knows(b)
        PROVE  Doing(b, place, what)'
    BY <2>7, <2>1 DEF Doing
  <2>8. ASSUME <<place, what>> \in Changing, toAgent[b], Knows(b), TokenComing(b),
               conn[b] = IF place = "task" THEN "none" ELSE "agent"
        PROVE  Doing(b, place, what)'
    BY <2>8, <2>1 DEF Doing, ProxyStands
  <2>9. ASSUME <<place, what>> \in Entering, toAgent[b], conn[b] = "agent", Knows(b)
        PROVE  Doing(b, place, what)'
    BY <2>9, <2>1 DEF Doing, ProxyStands
  <2>10. ASSUME <<place, what>> = <<"none", "over">>, b \notin readyToLogin \/ Created(b),
                login[b].made => login[b].waitingOnShardList \/ shardList
         PROVE  Doing(b, place, what)'
    BY <2>10 DEF Doing, BotStands, MachineStands
  <2> QED BY <1>1, <2>2, <2>3, <2>4, <2>5, <2>6, <2>7, <2>8, <2>9, <2>10 DEF Doing
<1> QED BY <1>2, <1>3, <1>4 DEF Conversing

LEMMA ConversationStands ==
  ASSUME NEW b \in Bot, Conversing(b), ProxyStands(b), BotStands(b), MachineStands(b),
         EventsStand(b), StillHears(b)
  PROVE  Conversing(b)'
BY HeardStands DEF EventsStand

(* The events stand when what is due is kept, and nothing b hears drops.   *)
LEMMA EventsKept ==
  ASSUME NEW b, NEW d \in {0, 1}, Keeps(b, d, 0), queue \in Seq(EventSet),
         queue' \in Seq(EventSet)
  PROVE  EventsStand(b)
<1>1. 0 \notin DOMAIN queue /\ 0 \in Nat
  OBVIOUS
<1> QED BY <1>1, KeepsFacts DEF EventsStand

(* The machine a session is made with is the same: so is what it awaits.   *)
LEMMA MachineKept ==
  ASSUME NEW b, login'[b] = login[b], EventsStand(b)
  PROVE  MachineStands(b)
BY DEF MachineStands, EventsStand, TokenComing

-----------------------------------------------------------------------------
(* The update of a Login machine.                                          *)

(* What comes of an update.                                                *)
Outcome(b, m, e, r) ==
  /\ r.m \in Made /\ r.send \in {<<>>} \cup {<<p>> : p \in Packets}
  /\ r.m.spawned => m.spawned \/ (e.of = b /\ e.kind = "SelfSpawned")
  /\ r.done => m.spawned
  /\ ~m.waitingOnShardList /\ ~shardList
       => /\ r.send = <<"shard list">> /\ ~r.done /\ r.threw = {}
          /\ r.m = [m EXCEPT !.waitingOnShardList = TRUE]
  /\ m.waitingOnShardList \/ shardList =>
       /\ e.of # b \/ e.kind \in {"ReadyForAssignment", "GatewayPatchResponseReceived"}
            => r.m = m /\ r.send = <<>> /\ ~r.done /\ r.threw = {}
       /\ e.of = b /\ e.kind = "SelfSpawned"
            => /\ r.m \in {m, [m EXCEPT !.spawned = TRUE]}
               /\ r.send = <<>> /\ ~r.done /\ r.threw = {}
       /\ e.of = b /\ e.kind = "GatewayLoginResponseReceived"
            => /\ r.m = IF m.waitingOnShardList THEN m ELSE [m EXCEPT !.token = TRUE]
               /\ r.send = <<>> /\ ~r.done /\ r.threw = {}
       /\ e.of = b /\ e.kind = "ShardListReceived" /\ ~m.loginRequestSent
            => /\ r.m = [m EXCEPT !.waitingOnShardList = FALSE, !.loginRequestSent = TRUE]
               /\ r.send = <<"login">> /\ ~r.done /\ r.threw = {}
       /\ e.of = b /\ ~m.waitingOnShardList =>
            /\ e.kind = "IbuvChallengeReceived"
                 => r.m = m /\ r.send = <<"captcha answer">> /\ ~r.done /\ r.threw = {}
            /\ e.kind = "ConnectedToAgentServer" /\ m.token
                 => r.m = m /\ r.send = <<"auth">> /\ ~r.done /\ r.threw = {}
            /\ e.kind = "ServerAuthSuccess"
                 => r.m = m /\ r.send = <<"list">> /\ ~r.done /\ r.threw = {}
            /\ e.kind = "CharacterListReceived"
                 => r.m = m /\ r.send = <<"join">> /\ ~r.done /\ r.threw = {}
       /\ e.of = b /\ e.kind = "EntityBodyStateChanged"
            => /\ r.m = m /\ r.send = <<>> /\ r.done = m.spawned
               /\ (m.spawned => b \in self) => r.threw = {}

LEMMA UpdateCases ==
  ASSUME NEW b, NEW m \in Made, NEW e \in EventSet
  PROVE  Outcome(b, m, e, UpdateLogin(b, m, e))
<1> DEFINE r == UpdateLogin(b, m, e)
<1> SUFFICES Outcome(b, m, e, r)
  OBVIOUS
<1>0. r = UpdateLogin(b, m, e)
  OBVIOUS
<1> HIDE DEF r
<1>1. e.kind \in {"Dummy", "ReadyForAssignment"} \cup Conversation
  BY KindsAre DEF EventSet
<1>2. m.waitingOnShardList \in BOOLEAN /\ m.loginRequestSent \in BOOLEAN
      /\ m.token \in BOOLEAN /\ m.spawned \in BOOLEAN
  BY DEF Made
<1>3. CASE ~m.waitingOnShardList /\ ~shardList
  <2>1. r = Sends([m EXCEPT !.waitingOnShardList = TRUE], "shard list")
    BY <1>0, <1>3 DEF UpdateLogin
  <2> QED BY <2>1, <1>3 DEF Sends, Quiet, Made, Packets, Outcome
<1>4. CASE (m.waitingOnShardList \/ shardList) /\ e.of # b
  <2>1. r = Quiet(m)
    BY <1>0, <1>4 DEF UpdateLogin
  <2>2. r.m = m /\ r.send = <<>> /\ r.done = FALSE /\ r.threw = {}
    BY <2>1 DEF Quiet
  <2> QED BY <2>2, <1>4 DEF Outcome
<1>5. CASE (m.waitingOnShardList \/ shardList) /\ e.of = b /\ e.kind = "EntityBodyStateChanged"
  <2>1. r = [Quiet(m) EXCEPT !.done = m.spawned,
                             !.threw = IF m.spawned /\ b \notin self THEN {"no self"} ELSE {}]
    BY <1>0, <1>5 DEF UpdateLogin
  <2> QED BY <2>1, <1>5 DEF Quiet, Outcome
<1>6. CASE (m.waitingOnShardList \/ shardList) /\ e.of = b /\ e.kind # "EntityBodyStateChanged"
  <2>1. r = UpdateOwn(m, e)
    BY <1>0, <1>6 DEF UpdateLogin
  <2>2. CASE e.kind = "ShardListReceived" /\ ~m.loginRequestSent
    <3>1. r = Sends([m EXCEPT !.waitingOnShardList = FALSE, !.loginRequestSent = TRUE], "login")
      BY <2>1, <2>2 DEF UpdateOwn
    <3>2. /\ r.m = [m EXCEPT !.waitingOnShardList = FALSE, !.loginRequestSent = TRUE]
          /\ r.send = <<"login">> /\ r.done = FALSE /\ r.threw = {}
      BY <3>1 DEF Sends, Quiet
    <3>3. r.m \in Made /\ "login" \in Packets
      BY <3>2 DEF Made, Packets
    <3> QED BY <3>2, <3>3, <2>2, <1>6 DEF Outcome
  <2>3. CASE m.waitingOnShardList /\ ~(e.kind = "ShardListReceived" /\ ~m.loginRequestSent)
    <3>1. r = Quiet(m)
      BY <2>1, <2>3 DEF UpdateOwn
    <3>2. r.m = m /\ r.send = <<>> /\ r.done = FALSE /\ r.threw = {}
      BY <3>1 DEF Quiet
    <3> QED BY <3>2, <2>3, <1>6 DEF Outcome
  <2>4. CASE ~m.waitingOnShardList /\ ~(e.kind = "ShardListReceived" /\ ~m.loginRequestSent)
    <3>1. CASE e.kind = "GatewayLoginResponseReceived"
      <4>1. r = Quiet([m EXCEPT !.token = TRUE])
        BY <2>1, <2>4, <3>1 DEF UpdateOwn
      <4>2. /\ r.m = [m EXCEPT !.token = TRUE]
            /\ r.send = <<>> /\ r.done = FALSE /\ r.threw = {}
        BY <4>1 DEF Quiet
      <4>3. r.m \in Made
        BY <4>2 DEF Made
      <4> QED BY <4>2, <4>3, <3>1, <2>4, <1>6 DEF Outcome
    <3>2. CASE e.kind = "IbuvChallengeReceived"
      <4>1. r = Sends(m, "captcha answer")
        BY <2>1, <2>4, <3>2 DEF UpdateOwn
      <4> QED BY <4>1, <3>2, <2>4, <1>6 DEF Sends, Quiet, Packets, Outcome
    <3>3. CASE e.kind = "ConnectedToAgentServer"
      <4>1. r = IF m.token THEN Sends(m, "auth") ELSE [Quiet(m) EXCEPT !.threw = {"no token"}]
        BY <2>1, <2>4, <3>3 DEF UpdateOwn
      <4> QED BY <4>1, <3>3, <2>4, <1>6 DEF Sends, Quiet, Packets, Outcome
    <3>4. CASE e.kind = "ServerAuthSuccess"
      <4>1. r = Sends(m, "list")
        BY <2>1, <2>4, <3>4 DEF UpdateOwn
      <4> QED BY <4>1, <3>4, <2>4, <1>6 DEF Sends, Quiet, Packets, Outcome
    <3>5. CASE e.kind = "CharacterListReceived"
      <4>1. r = Sends(m, "join")
        BY <2>1, <2>4, <3>5 DEF UpdateOwn
      <4> QED BY <4>1, <3>5, <2>4, <1>6 DEF Sends, Quiet, Packets, Outcome
    <3>6. CASE e.kind = "SelfSpawned"
      <4>1. r = Quiet([m EXCEPT !.spawned = TRUE])
        BY <2>1, <2>4, <3>6 DEF UpdateOwn
      <4>2. /\ r.m = [m EXCEPT !.spawned = TRUE]
            /\ r.send = <<>> /\ r.done = FALSE /\ r.threw = {}
        BY <4>1 DEF Quiet
      <4>3. r.m \in Made
        BY <4>2 DEF Made
      <4> QED BY <4>2, <4>3, <3>6, <2>4, <1>6 DEF Outcome
    <3>7. CASE e.kind \in {"Dummy", "ReadyForAssignment", "GatewayPatchResponseReceived",
                           "ShardListReceived"}
      <4>1. r = Quiet(m)
        BY <2>1, <2>4, <3>7 DEF UpdateOwn
      <4>2. r.m = m /\ r.send = <<>> /\ r.done = FALSE /\ r.threw = {}
        BY <4>1 DEF Quiet
      <4> QED BY <4>2, <3>7, <2>4, <1>6 DEF Outcome
    <3> QED BY <3>1, <3>2, <3>3, <3>4, <3>5, <3>6, <3>7, <1>1, <1>6 DEF Conversation
  <2> QED BY <2>2, <2>3, <2>4, <1>2
<1> QED BY <1>3, <1>4, <1>5, <1>6, <1>2

-----------------------------------------------------------------------------
(* The shape of the state.                                                 *)

Told(packet) == CHOOSE k \in PublishedFor(packet) : TRUE

(* Which event tells a bot of a packet.                                    *)
LEMMA PublishedIs ==
  /\ PublishedFor("patched") # {} /\ Told("patched") = "GatewayPatchResponseReceived"
  /\ PublishedFor("shards") # {} /\ Told("shards") = "ShardListReceived"
  /\ PublishedFor("challenge") # {} /\ Told("challenge") = "IbuvChallengeReceived"
  /\ PublishedFor("logged in") # {} /\ Told("logged in") = "GatewayLoginResponseReceived"
  /\ PublishedFor("identify") # {} /\ Told("identify") = "ConnectedToAgentServer"
  /\ PublishedFor("authorized") # {} /\ Told("authorized") = "ServerAuthSuccess"
  /\ PublishedFor("characters") # {} /\ Told("characters") = "CharacterListReceived"
  /\ PublishedFor("spawned") # {} /\ Told("spawned") = "SelfSpawned"
  /\ PublishedFor("body state") # {} /\ Told("body state") = "EntityBodyStateChanged"
  /\ PublishedFor("state request") = {} /\ PublishedFor("login failed") = {}
<1>1. /\ PublishedFor("patched") = {"GatewayPatchResponseReceived"}
      /\ PublishedFor("shards") = {"ShardListReceived"}
      /\ PublishedFor("challenge") = {"IbuvChallengeReceived"}
      /\ PublishedFor("logged in") = {"GatewayLoginResponseReceived"}
      /\ PublishedFor("identify") = {"ConnectedToAgentServer"}
  BY DEF PublishedFor
<1>2. /\ PublishedFor("authorized") = {"ServerAuthSuccess"}
      /\ PublishedFor("characters") = {"CharacterListReceived"}
      /\ PublishedFor("spawned") = {"SelfSpawned"}
      /\ PublishedFor("body state") = {"EntityBodyStateChanged"}
      /\ PublishedFor("state request") = {} /\ PublishedFor("login failed") = {}
  BY DEF PublishedFor
<1>3. \A x : (CHOOSE k \in {x} : TRUE) = x
  OBVIOUS
<1> QED BY <1>1, <1>2, <1>3 DEF Told

LEMMA ToldKind ==
  ASSUME NEW packet \in Replies, PublishedFor(packet) # {}
  PROVE  Told(packet) \in Conversation /\ Told(packet) \in Kinds \ {"ReadyForAssignment"}
<1>1. Told(packet) \in Conversation
  BY PublishedIs DEF Replies, Conversation
<1> QED BY <1>1, KindsAre DEF Conversation

(* What Advance does to the stage and to the loop.                         *)
LEMMA Advances ==
  ASSUME next \in Bot, NEW after \in Stages, Advance(after)
  PROVE  /\ next' \in Bot
         /\ \/ next < Bots /\ next' = next + 1 /\ pc' = pc
            \/ next = Bots /\ next' = 1 /\ pc' = after
BY DEF Advance, Bot

LEMMA ServerAnswers ==
  ASSUME NEW request, NEW packet \in Answers(request)
  PROVE  packet \in Replies \ {"state request", "login failed", "identify"}
BY DEF Answers, Replies

LEMMA Pair == ASSUME NEW T, NEW x \in T, NEW y \in T PROVE <<x, y>> \in Seq(T) /\ <<x>> \in Seq(T)
OBVIOUS

LEMMA InjectTyped ==
  ASSUME injected \in [Bot -> Seq(Packets)], NEW b \in Bot, NEW packets \in Seq(Packets),
         Inject(b, packets)
  PROVE  injected' \in [Bot -> Seq(Packets)]
<1>1. injected[b] \o packets \in Seq(Packets)
  BY ConcatProperties
<1> QED BY <1>1 DEF Inject

LEMMA UpdateTyped ==
  ASSUME Shapes, Update
  PROVE  Shapes'
<1>1. queue # <<>> /\ half = "login" /\ turn \in Bot
  BY DEF Update, Shapes, QueueShape
<1>2. CASE ~login[turn].made
  <2>1. /\ half' = "pvp" /\ UNCHANGED <<queue, turn, login, loggedIn, injected, errors>>
        /\ UNCHANGED <<thread, opened, readyToLogin, self, pvpManager, shardList, task, toAgent, conn, server>>
    BY <1>2 DEF Update
  <2> QED BY <2>1, <1>1 DEF Shapes, QueueShape, thread, server
<1>3. CASE login[turn].made
  <2> DEFINE r == UpdateLogin(turn, login[turn], Head(queue))
  <2>1. /\ login' = [login EXCEPT ![turn] = IF r.done /\ turn \in self THEN NoMachine ELSE r.m]
        /\ Inject(turn, r.send)
        /\ IF r.done /\ turn \in self
           THEN half' = "pvp" /\ loggedIn' = loggedIn \cup {turn} /\ UNCHANGED <<queue, turn>>
           ELSE NextTurn /\ loggedIn' = loggedIn
        /\ UNCHANGED <<thread, opened, readyToLogin, self, pvpManager, shardList, task, toAgent, conn, server>>
    BY <1>3 DEF Update
  <2>2. login[turn] \in Made /\ Head(queue) \in EventSet
    <3>1. login[turn] \in Machine
      BY <1>1 DEF Shapes
    <3>2. login[turn] \in Made
      BY <3>1, <1>3 DEF Machine, NoMachine
    <3>3. queue \in Seq(EventSet)
      BY DEF Shapes, QueueShape
    <3> QED BY <3>2, <3>3, <1>1, TailEvents
  <2>3. r.m \in Made /\ r.send \in {<<>>} \cup {<<p>> : p \in Packets}
    <3>1. Outcome(turn, login[turn], Head(queue), r)
      BY <2>2, UpdateCases
    <3> HIDE DEF r
    <3> QED BY <3>1 DEF Outcome
  <2> HIDE DEF r
  <2>4. login' \in [Bot -> Machine]
    BY <2>1, <2>3, <1>1 DEF Shapes, Machine
  <2>5. r.send \in Seq(Packets)
    <3>1. \A p \in Packets : <<p>> \in Seq(Packets)
      OBVIOUS
    <3>2. <<>> \in Seq(Packets)
      OBVIOUS
    <3> QED BY ONLY <2>3, <3>1, <3>2
  <2>6. injected' \in [Bot -> Seq(Packets)]
    BY <2>1, <2>5, <1>1, InjectTyped DEF Shapes
  <2>7. QueueShape' /\ loggedIn' \subseteq Bot
    <3>1. CASE r.done /\ turn \in self
      BY <3>1, <2>1, <1>1 DEF Shapes, QueueShape
    <3>2. CASE ~(r.done /\ turn \in self)
      <4>1. NextTurn /\ loggedIn' = loggedIn
        BY <3>2, <2>1
      <4>2. QueueShape
        BY DEF Shapes
      <4>3. /\ queue' \in Seq(EventSet) /\ turn' \in Bot /\ half' = "handle"
            /\ queue' = <<>> => turn' = 1
        BY <4>1, <4>2, <1>1, TurnPasses
      <4> QED BY <4>1, <4>3 DEF Shapes, QueueShape
    <3> QED BY <3>1, <3>2
  <2> QED BY <2>1, <2>4, <2>6, <2>7 DEF Shapes, thread, server
<1> QED BY <1>2, <1>3

LEMMA HandleTyped ==
  ASSUME Shapes, Handle
  PROVE  Shapes'
<1>1. queue # <<>> /\ turn \in Bot /\ QueueShape
  BY DEF Handle, Shapes, QueueShape
<1>2. QueueShape'
  <2>1. NextTurn \/ (half' = "login" /\ UNCHANGED <<queue, turn>>)
    BY DEF Handle
  <2>2. CASE NextTurn
    BY <2>2, <1>1, TurnPasses DEF QueueShape
  <2>3. CASE half' = "login" /\ UNCHANGED <<queue, turn>>
    BY <2>3, <1>1 DEF QueueShape
  <2> QED BY <2>1, <2>2, <2>3
<1>3. readyToLogin' \subseteq Bot /\ self' \subseteq Bot
  BY <1>1 DEF Handle, Shapes
<1>4. injected' \in [Bot -> Seq(Packets)]
  <2>1. Inject(turn, <<"game ready">>) \/ injected' = injected
    BY DEF Handle
  <2>2. <<"game ready">> \in Seq(Packets)
    BY DEF Packets
  <2> QED BY <2>1, <2>2, <1>1, InjectTyped DEF Shapes
<1>5. UNCHANGED <<thread, opened, loggedIn, login, pvpManager, shardList, task, toAgent, conn, server, lost>>
  BY DEF Handle
<1> QED BY <1>2, <1>3, <1>4, <1>5 DEF Shapes, thread, server

LEMMA ReceiveTyped ==
  ASSUME Shapes, NEW s \in Bot, ReceiveFromServer(s)
  PROVE  Shapes'
<1> DEFINE packet == Head(wire[s])
<1>1. wire[s] \in Seq(Replies) /\ wire[s] # <<>> /\ half = "handle"
  BY DEF ReceiveFromServer, Shapes, WorldIsFree
<1>2. packet \in Replies /\ Tail(wire[s]) \in Seq(Replies)
  BY <1>1, TailEvents
<1>3. /\ wire' = [wire EXCEPT ![s] = IF packet = "logged in" THEN <<>> ELSE Tail(@)]
      /\ conn' = [conn EXCEPT ![s] = IF packet = "logged in" THEN "none" ELSE @]
      /\ toAgent' = [toAgent EXCEPT ![s] = @ \/ packet = "logged in"]
      /\ task' = IF packet = "logged in" THEN task \cup {s} ELSE task
      /\ asked' = [asked EXCEPT ![s] = IF packet = "state request" /\ ~toAgent[s]
                                       THEN "patch" ELSE @]
      /\ shardList' = (shardList \/ packet = "shards")
      /\ queue' = IF PublishedFor(packet) = {} THEN queue
                  ELSE Append(queue, Event(Told(packet), s))
      /\ UNCHANGED <<thread, opened, bots, injected, refused, turn, half, lost, errors>>
  BY DEF ReceiveFromServer, Told
<1> HIDE DEF packet
<1>4. wire' \in [Bot -> Seq(Replies)]
  <2>1. <<>> \in Seq(Replies)
    OBVIOUS
  <2> QED BY <2>1, <1>2, <1>3 DEF Shapes
<1>5. conn' \in [Bot -> {"none", "gateway", "agent"}] /\ toAgent' \in [Bot -> BOOLEAN]
  BY <1>3 DEF Shapes
<1>6. asked' \in [Bot -> Packets \cup {"nothing"}] /\ task' \subseteq Bot /\ shardList' \in BOOLEAN
  <2>1. "patch" \in Packets
    BY DEF Packets
  <2> QED BY <2>1, <1>3 DEF Shapes
<1>7. QueueShape'
  <2>1. CASE PublishedFor(packet) = {}
    BY <2>1, <1>3 DEF Shapes, QueueShape
  <2>2. CASE PublishedFor(packet) # {}
    <3>1. Event(Told(packet), s) \in EventSet
      BY <2>2, <1>2, ToldKind DEF Event, EventSet, Bot
    <3>2. queue' = Append(queue, Event(Told(packet), s)) /\ queue \in Seq(EventSet)
      BY <2>2, <1>3 DEF Shapes, QueueShape
    <3>3. queue' \in Seq(EventSet) /\ queue' # <<>>
      BY <3>1, <3>2, AppendEvents
    <3> QED BY <3>3, <1>3 DEF Shapes, QueueShape
  <2> QED BY <2>1, <2>2
<1> QED BY <1>3, <1>4, <1>5, <1>6, <1>7 DEF Shapes, thread, bots

LEMMA ShapesKept ==
  ASSUME Shapes, [SessionsNext]_sessionsVars
  PROVE  Shapes'
<1>1. CASE UNCHANGED sessionsVars
  BY <1>1 DEF Shapes, QueueShape, sessionsVars, thread, bots, proxy, server, broker
<1>2. CASE Connect
  <2>1. pc' \in Stages /\ next' \in Bot
    BY <1>2, Advances DEF Connect, Shapes, Stages
  <2> QED BY <2>1, <1>2 DEF Connect, Shapes, QueueShape, bots, server, broker
<1>3. CASE AwaitClients
  BY <1>3 DEF AwaitClients, Shapes, QueueShape, Stages, bots, proxy, server, broker
<1>4. CASE AsyncLogIn
  <2>1. pc' \in Stages /\ next' \in Bot
    BY <1>4, Advances DEF AsyncLogIn, Shapes, Stages
  <2>2. login' = login \/ login' = [login EXCEPT ![next] = NewLogin]
    BY <1>4 DEF AsyncLogIn
  <2>3. login' \in [Bot -> Machine]
    <3>1. NewLogin \in Machine
      BY DEF Machine, Made, NewLogin
    <3> QED BY <2>2, <3>1 DEF Shapes
  <2> QED BY <2>1, <2>3, <1>4 DEF AsyncLogIn, Shapes, QueueShape, proxy, server, broker
<1>5. CASE PublishDummy
  <2>1. Event("Dummy", 0) \in EventSet
    BY KindsAre DEF Event, EventSet
  <2>2. queue' = Append(queue, Event("Dummy", 0)) /\ queue \in Seq(EventSet)
    BY <1>5 DEF PublishDummy, Shapes, QueueShape
  <2>3. queue' \in Seq(EventSet) /\ queue' # <<>>
    BY <2>1, <2>2, AppendEvents
  <2>4. pc' \in Stages
    BY <1>5 DEF PublishDummy, Stages
  <2>5. UNCHANGED <<next, idsSaved, opened, bots, shardList, proxy, server, turn, half>>
    BY <1>5 DEF PublishDummy
  <2> QED BY <2>3, <2>4, <2>5 DEF Shapes, QueueShape, bots, proxy, server
<1>6. CASE AwaitLogins
  BY <1>6 DEF AwaitLogins, Shapes, QueueShape, Stages, bots, proxy, server, broker
<1>7. CASE AsyncStandbyForPvp
  <2>1. pc' \in Stages /\ next' \in Bot
    BY <1>7, Advances DEF AsyncStandbyForPvp, Shapes, Stages
  <2>2. pvpManager' \in [Bot -> {"none", "made", "published"}]
    BY <1>7 DEF AsyncStandbyForPvp, Shapes
  <2> QED BY <2>1, <2>2, <1>7 DEF AsyncStandbyForPvp, Shapes, QueueShape, proxy, server, broker
<1>8. CASE Handle
  BY <1>8, HandleTyped
<1>9. CASE Update
  BY <1>9, UpdateTyped
<1>10. CASE UpdatePvp
  <2>1. QueueShape /\ pvpManager \in [Bot -> {"none", "made", "published"}] /\ queue # <<>>
    BY <1>10 DEF UpdatePvp, Shapes, QueueShape
  <2>2. QueueShape'
    BY <2>1, <1>10, PvpPasses DEF QueueShape
  <2>3. pvpManager' \in [Bot -> {"none", "made", "published"}]
    BY <2>1, <1>10 DEF UpdatePvp, QueueShape
  <2>4. UNCHANGED <<thread, opened, readyToLogin, loggedIn, self, login, shardList, proxy, server>>
    BY <1>10 DEF UpdatePvp
  <2> QED BY <2>2, <2>3, <2>4 DEF Shapes, thread, proxy, server
<1>11. ASSUME NEW s \in Bot, ConnectClientless(s) PROVE Shapes'
  <2>1. UNCHANGED <<thread, opened, bots, shardList, toAgent, injected, broker>> /\ task' = task \ {s}
    BY <1>11 DEF ConnectClientless
  <2>2. /\ conn' \in [Bot -> {"none", "gateway", "agent"}] /\ wire' \in [Bot -> Seq(Replies)]
        /\ asked' \in [Bot -> Packets \cup {"nothing"}] /\ refused' \subseteq Bot
    <3>1. "state request" \in Replies /\ "identify" \in Replies
      BY DEF Replies
    <3>2. <<"state request", "identify">> \in Seq(Replies) /\ <<"state request">> \in Seq(Replies)
      BY ONLY <3>1, Pair
    <3>3. \/ /\ conn' = [conn EXCEPT ![s] = IF toAgent[s] THEN "agent" ELSE "gateway"]
             /\ wire' = [wire EXCEPT ![s] =
                  IF toAgent[s] THEN <<"state request", "identify">> ELSE <<"state request">>]
             /\ asked' = [asked EXCEPT ![s] = "nothing"] /\ refused' = refused
          \/ refused' = refused \cup {s} /\ UNCHANGED <<conn, wire, asked>>
      BY <1>11 DEF ConnectClientless
    <3>4. conn' \in [Bot -> {"none", "gateway", "agent"}] /\ refused' \subseteq Bot
      BY <3>3 DEF Shapes
    <3>5. wire' \in [Bot -> Seq(Replies)]
      BY <3>2, <3>3 DEF Shapes
    <3>6. asked' \in [Bot -> Packets \cup {"nothing"}]
      BY <3>3 DEF Shapes
    <3> QED BY <3>4, <3>5, <3>6
  <2> QED BY <2>1, <2>2 DEF Shapes, QueueShape, thread, bots, broker
<1>12. ASSUME NEW s \in Bot, ReceiveFromClient(s) PROVE Shapes'
  <2>1. UNCHANGED <<thread, opened, bots, shardList, task, toAgent, conn, wire, refused, broker>>
    BY <1>12 DEF ReceiveFromClient
  <2>2. injected[s] \in Seq(Packets) /\ injected[s] # <<>>
    BY <1>12 DEF ReceiveFromClient, Shapes
  <2>3. Head(injected[s]) \in Packets /\ Tail(injected[s]) \in Seq(Packets)
    BY <2>2, TailEvents
  <2>4. injected' \in [Bot -> Seq(Packets)] /\ asked' \in [Bot -> Packets \cup {"nothing"}]
    BY <2>3, <1>12 DEF ReceiveFromClient, Shapes
  <2> QED BY <2>1, <2>4 DEF Shapes, QueueShape, thread, bots, broker
<1>13. ASSUME NEW s \in Bot, ReceiveFromServer(s) PROVE Shapes'
  BY <1>13, ReceiveTyped
<1>14. ASSUME NEW s \in Bot, Answer(s) PROVE Shapes'
  <2>1. UNCHANGED <<thread, opened, bots, shardList, proxy, broker>> /\ refused' \subseteq Bot
    BY <1>14 DEF Answer, Shapes
  <2>2. PICK packet \in Replies : wire' = [wire EXCEPT ![s] = Append(@, packet)]
    BY <1>14, ServerAnswers DEF Answer, Replies
  <2>3. wire' \in [Bot -> Seq(Replies)]
    <3>1. wire[s] \in Seq(Replies)
      BY DEF Shapes
    <3>2. Append(wire[s], packet) \in Seq(Replies)
      BY <3>1, AppendEvents
    <3> QED BY <3>2, <2>2 DEF Shapes
  <2>4. asked' \in [Bot -> Packets \cup {"nothing"}]
    BY <1>14 DEF Answer, Shapes
  <2> QED BY <2>1, <2>3, <2>4 DEF Shapes, QueueShape, thread, bots, proxy, broker
<1> QED BY <1>1, <1>2, <1>3, <1>4, <1>5, <1>6, <1>7, <1>8, <1>9, <1>10, <1>11, <1>12, <1>13,
           <1>14 DEF SessionsNext, Thread, Deliver, Proxy

-----------------------------------------------------------------------------
(* The conversations: each action takes one session's a step further.      *)

LEMMA Arrives ==
  ASSUME NEW b \in Bot, NEW place \in Places, NEW what \in Whats,
         At(b, place, what)', Doing(b, place, what)', b \notin opened' <=> what = "unopened"
  PROVE  Conversing(b)'
BY DEF Conversing

(* What is under way says at which place the conversation is.              *)
LEMMA PlaceOf ==
  ASSUME NEW b, NEW place, NEW what, At(b, place, what)
  PROVE  /\ b \in task => place = "task"
         /\ injected[b] # <<>> => place = "injected" /\ injected[b] = <<what>>
         /\ asked[b] # "nothing" => place = "asked" /\ asked[b] = what
         /\ wire[b] # <<>> => place = "wire"
         /\ \A i \in DOMAIN queue : Pending(b, i) =>
              place = "event" /\ queue[i].kind = what /\ EventIs(b, what)
         /\ place # "event" => NoEvent(b)
<1>1. place # "event" => NoEvent(b)
  BY DEF At
<1>2. place = "event" => EventIs(b, what)
  BY DEF At
<1>3. \A i \in DOMAIN queue : Pending(b, i) =>
        place = "event" /\ queue[i].kind = what /\ EventIs(b, what)
  BY <1>1, <1>2 DEF NoEvent, EventIs
<1>4. /\ b \in task => place = "task"
      /\ injected[b] # <<>> => place = "injected" /\ injected[b] = <<what>>
      /\ asked[b] # "nothing" => place = "asked" /\ asked[b] = what
      /\ wire[b] # <<>> => place = "wire"
  BY DEF At
<1> QED BY <1>1, <1>3, <1>4

LEMMA EventsStay ==
  ASSUME Shapes, UNCHANGED broker, NEW b
  PROVE  EventsStand(b) /\ StillHears(b)
<1>1. queue \in Seq(EventSet) /\ queue' \in Seq(EventSet)
  BY DEF Shapes, QueueShape, broker
<1>2. Keeps(b, 0, 0)
  BY <1>1, QueueStays
<1>3. EventsStand(b)
  BY <1>1, <1>2, EventsKept
<1>4. StillHears(b)
  BY DEF StillHears, Hearing, broker
<1> QED BY <1>3, <1>4

LEMMA EventsGrow ==
  ASSUME Shapes, NEW b, NEW e \in EventSet, e.of # b \/ e.kind = "ReadyForAssignment",
         queue' = Append(queue, e), turn' = turn, half' = half
  PROVE  EventsStand(b) /\ StillHears(b)
<1>1. queue \in Seq(EventSet)
  BY DEF Shapes, QueueShape
<1>2. queue' \in Seq(EventSet) /\ queue' # <<>>
  BY <1>1, AppendEvents
<1>3. Keeps(b, 0, 0)
  BY <1>1, QueueGrows
<1>4. EventsStand(b)
  BY <1>1, <1>2, <1>3, EventsKept
<1>5. queue # <<>> => queue'[1] = queue[1]
  <2>1. ASSUME queue # <<>> PROVE 1 \in DOMAIN queue
    BY <2>1, <1>1, TailEvents
  <2>2. \A i \in DOMAIN queue : Append(queue, e)[i] = queue[i]
    BY <1>1, AppendEvents
  <2> QED BY <2>1, <2>2
<1>6. StillHears(b)
  BY <1>2, <1>5 DEF StillHears, Hearing
<1> QED BY <1>4, <1>6

(* The conversation of b goes on undisturbed.                              *)
Aside(b) == ProxyStands(b) /\ BotStands(b) /\ MachineStands(b) /\ EventsStand(b) /\ StillHears(b)
LEMMA AsideStands ==
  ASSUME NEW b \in Bot, Conversing(b), Aside(b)
  PROVE  Conversing(b)'
BY ConversationStands DEF Aside

LEMMA ConnectConverses ==
  ASSUME SessionsInv, Connect, NEW b \in Bot
  PROVE  Conversing(b)'
<1>1. Shapes /\ Conversing(b) /\ InOrder(b)
  BY DEF SessionsInv
<1>2. /\ pc = "connect" /\ opened' = opened \cup {next} /\ task' = task \cup {next}
      /\ UNCHANGED <<idsSaved, bots, shardList, toAgent, conn, injected, server, broker, lost, errors>>
  BY DEF Connect
<1>3. EventsStand(b) /\ StillHears(b)
  BY <1>1, <1>2, EventsStay
<1>4. ~Created(b)
  BY <1>2 DEF Created
<1>5. CASE b # next
  <2>1. ProxyStands(b)
    BY <1>2, <1>5 DEF ProxyStands, server
  <2>2. BotStands(b)
    BY <1>2, <1>4, <1>5 DEF BotStands, bots
  <2>3. MachineStands(b)
    BY <1>2, <1>3, MachineKept DEF bots
  <2> QED BY <1>1, <1>3, <2>1, <2>2, <2>3, ConversationStands
<1>6. CASE b = next
  <2>1. b \notin opened
    BY <1>1, <1>2, <1>6 DEF InOrder, Bot
  <2>2. PICK place \in Places, what \in Whats :
          At(b, place, what) /\ Doing(b, place, what) /\ what = "unopened"
    BY <1>1, <2>1 DEF Conversing
  <2>3. place = "none" /\ b \notin readyToLogin /\ conn[b] = "none" /\ ~toAgent[b]
    BY <2>2 DEF Doing, Connecting, Seeking, LoggingIn, Changing, Entering
  <2>4. At(b, "task", "gateway")'
    BY <2>2, <2>3, <1>2, <1>3, <1>6 DEF At, server, EventsStand
  <2>5. Doing(b, "task", "gateway")'
    BY <2>3, <1>2 DEF Doing, bots
  <2>6. b \in opened'
    BY <1>2, <1>6
  <2> QED BY <2>4, <2>5, <2>6, WhatsAre, Arrives
<1> QED BY <1>5, <1>6

(* Where a thread's step leaves a session alone.                           *)
LEMMA ThreadAside ==
  ASSUME SessionsInv, NEW b \in Bot,
         UNCHANGED <<opened, readyToLogin, shardList, proxy, server>>,
         login'[b] = login[b], Created(b) => Created(b)', EventsStand(b), StillHears(b)
  PROVE  Conversing(b)'
<1>1. Conversing(b)
  BY DEF SessionsInv
<1>2. ProxyStands(b)
  BY DEF ProxyStands, proxy, server
<1>3. BotStands(b)
  BY DEF BotStands
<1>4. MachineStands(b)
  BY MachineKept
<1> QED BY <1>1, <1>2, <1>3, <1>4, ConversationStands

LEMMA AsyncLogInConverses ==
  ASSUME SessionsInv, AsyncLogIn, NEW b \in Bot
  PROVE  Conversing(b)'
<1>1. Shapes /\ Conversing(b) /\ InOrder(b) /\ ThreadInv /\ next \in Bot
  BY DEF SessionsInv, Shapes
<1>2. /\ pc = "log in" /\ Advance("first dummy")
      /\ UNCHANGED <<idsSaved, opened, readyToLogin, loggedIn, self, pvpManager, shardList, proxy, server,
                     broker, lost>>
  BY DEF AsyncLogIn
<1>3. EventsStand(b) /\ StillHears(b)
  BY <1>1, <1>2, EventsStay
<1>4. Created(b) \/ b = next => Created(b)'
  <2>1. \/ next < Bots /\ next' = next + 1 /\ pc' = pc
        \/ next = Bots /\ next' = 1 /\ pc' = "first dummy"
    BY <1>1, <1>2, Advances DEF Stages
  <2>2. CASE next < Bots /\ next' = next + 1 /\ pc' = pc
    <3>1. b \in Nat /\ next \in Nat /\ next' = next + 1
      BY <2>2, <1>1 DEF Bot
    <3>2. b < next => b < next'
      BY ONLY <3>1
    <3>3. b = next => b < next'
      BY ONLY <3>1
    <3>4. pc' = "log in"
      BY <2>2, <1>2
    <3> QED BY <3>2, <3>3, <3>4, <1>2 DEF Created
  <2>3. CASE pc' = "first dummy"
    BY <2>3 DEF Created
  <2> QED BY <2>1, <2>2, <2>3
<1>5. CASE b # next
  <2>1. login'[b] = login[b]
    BY <1>1, <1>5 DEF AsyncLogIn, Shapes
  <2> QED BY <2>1, <1>2, <1>3, <1>4, ThreadAside
<1>6. CASE b = next
  <2>1. ~Created(b)
    <3>1. ~(b < next)
      BY <1>6, <1>1 DEF Bot
    <3> QED BY <3>1, <1>2 DEF Created
  <2>2. ~login[b].made /\ b \notin self /\ b \in readyToLogin
    BY <2>1, <1>1, <1>2 DEF InOrder, ThreadInv
  <2>3. login'[b] = NewLogin
    BY <2>2, <1>6, <1>1 DEF AsyncLogIn, Shapes
  <2>4. Fresh(b)'
    BY <2>3 DEF Fresh, NewLogin
  <2>5. PICK place \in Places, what \in Whats :
          At(b, place, what) /\ Doing(b, place, what) /\ (b \notin opened <=> what = "unopened")
    BY <1>1 DEF Conversing
  <2>6. \/ <<place, what>> \in Connecting /\ OnGateway(b) /\ place = "event" /\ Hearing(b, what)
        \/ <<place, what>> = <<"none", "ready">> /\ OnGateway(b)
    BY <2>1, <2>2, <2>5 DEF Doing, Knows
  <2>7. At(b, place, what)'
    BY <2>5, <1>2, <1>3 DEF At, proxy, server, EventsStand
  <2>8. OnGateway(b) => OnGateway(b)'
    BY <1>2 DEF OnGateway, proxy
  <2>9. Hearing(b, what) => Hearing(b, what)'
    BY <1>2 DEF Hearing, broker
  <2>10. Doing(b, place, what)'
    <3>1. CASE <<place, what>> \in Connecting /\ OnGateway(b) /\ place = "event" /\ Hearing(b, what)
      BY <3>1, <2>4, <2>8, <2>9 DEF Doing
    <3>2. CASE <<place, what>> = <<"none", "ready">> /\ OnGateway(b)
      BY <3>2, <2>2, <2>4, <2>8, <1>2 DEF Doing
    <3> QED BY <2>6, <3>1, <3>2
  <2> QED BY <2>5, <2>7, <2>10, <1>2, Arrives
<1> QED BY <1>5, <1>6

LEMMA ThreadConverses ==
  ASSUME SessionsInv, Thread, NEW b \in Bot
  PROVE  Conversing(b)'
<1>0. Shapes /\ InOrder(b) /\ next \in Bot
  BY DEF SessionsInv, Shapes
<1>1. CASE Connect
  BY <1>1, ConnectConverses
<1>2. CASE AwaitClients
  <2>1. ~Created(b)
    BY <1>2 DEF AwaitClients, Created
  <2>2. /\ UNCHANGED <<opened, bots, shardList, proxy, server, broker>>
    BY <1>2 DEF AwaitClients
  <2>3. EventsStand(b) /\ StillHears(b)
    BY <1>0, <2>2, EventsStay
  <2> QED BY <2>1, <2>2, <2>3, ThreadAside DEF bots
<1>3. CASE AsyncLogIn
  BY <1>3, AsyncLogInConverses
<1>4. CASE PublishDummy
  <2>1. UNCHANGED <<next, opened, bots, shardList, proxy, server, turn, half>>
        /\ queue' = Append(queue, Event("Dummy", 0))
    BY <1>4 DEF PublishDummy
  <2>2. Event("Dummy", 0) \in EventSet /\ Event("Dummy", 0).of # b
    BY KindsAre DEF Event, EventSet, Bot
  <2>3. EventsStand(b) /\ StillHears(b)
    BY <1>0, <2>1, <2>2, EventsGrow
  <2>4. Created(b) => Created(b)'
    BY <1>4 DEF PublishDummy, Created
  <2> QED BY <2>1, <2>3, <2>4, ThreadAside DEF bots
<1>5. CASE AwaitLogins
  <2>1. UNCHANGED <<opened, bots, shardList, proxy, server, broker>>
    BY <1>5 DEF AwaitLogins
  <2>2. EventsStand(b) /\ StillHears(b)
    BY <1>0, <2>1, EventsStay
  <2>3. Created(b) => Created(b)'
    BY <1>5 DEF AwaitLogins, Created
  <2> QED BY <2>1, <2>2, <2>3, ThreadAside DEF bots
<1>6. CASE AsyncStandbyForPvp
  <2>1. UNCHANGED <<opened, readyToLogin, login, shardList, proxy, server, broker>>
    BY <1>6 DEF AsyncStandbyForPvp
  <2>2. EventsStand(b) /\ StillHears(b)
    BY <1>0, <2>1, EventsStay
  <2>3. Created(b)'
    <3>1. pc = "stand by" /\ (pc' = pc \/ pc' = "second dummy")
      BY <1>6 DEF AsyncStandbyForPvp, Advance
    <3> QED BY <3>1 DEF Created
  <2> QED BY <2>1, <2>2, <2>3, ThreadAside
<1> QED BY <1>1, <1>2, <1>3, <1>4, <1>5, <1>6 DEF Thread

(* Where a step on one session's connection leaves another alone.          *)
LEMMA OthersStand ==
  ASSUME NEW b \in Bot, Conversing(b), ProxyStands(b), EventsStand(b), StillHears(b),
         UNCHANGED <<thread, opened, bots>>, shardList => shardList'
  PROVE  Conversing(b)'
<1>1. BotStands(b)
  BY DEF BotStands, bots, Created, thread
<1>2. MachineStands(b)
  BY MachineKept DEF bots
<1> QED BY <1>1, <1>2, ConversationStands

LEMMA ConnectClientlessConverses ==
  ASSUME SessionsInv, NEW s \in Bot, ConnectClientless(s), NEW b \in Bot
  PROVE  Conversing(b)'
<1>1. Shapes /\ Conversing(b) /\ InOrder(b)
  BY DEF SessionsInv
<1>2. /\ s \in task /\ task' = task \ {s}
      /\ UNCHANGED <<thread, opened, bots, shardList, toAgent, injected, broker, lost, errors>>
  BY DEF ConnectClientless
<1>3. EventsStand(b) /\ StillHears(b)
  BY <1>1, <1>2, EventsStay
<1>4. \/ /\ conn' = [conn EXCEPT ![s] = IF toAgent[s] THEN "agent" ELSE "gateway"]
         /\ wire' = [wire EXCEPT ![s] =
              IF toAgent[s] THEN <<"state request", "identify">> ELSE <<"state request">>]
         /\ asked' = [asked EXCEPT ![s] = "nothing"]
      \/ UNCHANGED <<conn, wire, asked>>
  BY DEF ConnectClientless
<1>5. CASE b # s
  <2>1. conn'[b] = conn[b] /\ wire'[b] = wire[b] /\ asked'[b] = asked[b]
    BY <1>1, <1>4, <1>5 DEF Shapes
  <2>2. ProxyStands(b)
    BY <2>1, <1>2, <1>5 DEF ProxyStands
  <2> QED BY <2>2, <1>1, <1>2, <1>3, OthersStand
<1>6. CASE b = s
  <2>1. PICK place \in Places, what \in Whats :
          At(b, place, what) /\ Doing(b, place, what) /\ (b \notin opened <=> what = "unopened")
    BY <1>1 DEF Conversing
  <2>2. place = "task"
    BY <2>1, <1>2, <1>6, PlaceOf
  <2>3. /\ injected[b] = <<>> /\ asked[b] = "nothing" /\ wire[b] = <<>> /\ NoEvent(b)
    BY <2>1, <2>2 DEF At
  <2>4. b \notin task' /\ injected'[b] = <<>> /\ asked'[b] = "nothing" /\ NoEvent(b)'
    <3>1. asked'[b] = "nothing"
      BY <2>3, <1>1, <1>4, <1>6 DEF Shapes
    <3> QED BY <3>1, <2>3, <1>2, <1>3, <1>6 DEF EventsStand
  <2>5. \/ /\ what = "gateway" /\ b \notin readyToLogin /\ conn[b] = "none" /\ ~toAgent[b]
        \/ /\ what = "agent" /\ toAgent[b] /\ Knows(b) /\ TokenComing(b) /\ conn[b] = "none"
    BY <2>1, <2>2 DEF Doing, Connecting, Seeking, LoggingIn, Changing, Entering
  <2>6. b \in opened'
    BY <2>1, <2>5, <1>2
  <2>7. CASE UNCHANGED <<conn, wire, asked>>
    <3>1. At(b, "none", "over")'
      BY <2>3, <2>4, <2>7 DEF At
    <3>2. b \notin readyToLogin' \/ Created(b)'
      BY <2>5, <1>1, <1>2 DEF Knows, InOrder, Created, bots, thread
    <3>3. login'[b].made => shardList'
      <4>1. what = "gateway" => ~login[b].made
        BY <2>5, <1>1 DEF SessionsInv, ThreadInv, InOrder, Created
      <4> QED BY <4>1, <2>5, <1>2 DEF Knows, bots
    <3>4. Doing(b, "none", "over")'
      BY <3>2, <3>3 DEF Doing
    <3> QED BY <3>1, <3>4, <2>6, WhatsAre, Arrives
  <2>8. CASE /\ conn' = [conn EXCEPT ![s] = IF toAgent[s] THEN "agent" ELSE "gateway"]
             /\ wire' = [wire EXCEPT ![s] =
                  IF toAgent[s] THEN <<"state request", "identify">> ELSE <<"state request">>]
    <3>1. /\ conn'[b] = IF toAgent[b] THEN "agent" ELSE "gateway"
          /\ wire'[b] = IF toAgent[b] THEN <<"state request", "identify">> ELSE <<"state request">>
          /\ toAgent'[b] = toAgent[b]
      BY <2>8, <1>2, <1>6, <1>1 DEF Shapes
    <3>2. CASE what = "gateway"
      <4>1. At(b, "wire", "state request")'
        BY <2>4, <2>5, <3>1, <3>2 DEF At
      <4>2. Doing(b, "wire", "state request")'
        BY <2>5, <3>1, <3>2, <1>2 DEF Doing, Connecting, OnGateway, bots
      <4>3. "state request" \in Whats
        BY DEF Whats, Replies
      <4> QED BY <4>1, <4>2, <4>3, <2>6, WhatsAre, Arrives
    <3>3. CASE what = "agent"
      <4>1. At(b, "wire", "identify")'
        BY <2>4, <2>5, <3>1, <3>3 DEF At
      <4>2. Knows(b)' /\ TokenComing(b)'
        BY <2>5, <3>3, <1>2, <1>3 DEF Knows, TokenComing, EventsStand, bots
      <4>3. Doing(b, "wire", "identify")'
        BY <2>5, <3>1, <3>3, <4>2 DEF Doing, Changing
      <4>4. "identify" \in Whats
        BY DEF Whats, Replies
      <4> QED BY <4>1, <4>3, <4>4, <2>6, WhatsAre, Arrives
    <3> QED BY <2>5, <3>2, <3>3
  <2> QED BY <2>7, <2>8, <1>4
<1> QED BY <1>5, <1>6

(* A request of the bot becomes what the server is asked.                  *)
LEMMA ReceiveFromClientConverses ==
  ASSUME SessionsInv, NEW s \in Bot, ReceiveFromClient(s), NEW b \in Bot
  PROVE  Conversing(b)' /\ conn[s] # "none"
<1>1. Shapes /\ Conversing(b) /\ Conversing(s)
  BY DEF SessionsInv
<1>2. /\ injected[s] # <<>> /\ injected' = [injected EXCEPT ![s] = Tail(@)]
      /\ IF conn[s] = "none" THEN asked' = asked
                             ELSE asked' = [asked EXCEPT ![s] = Head(injected[s])]
      /\ UNCHANGED <<thread, opened, bots, shardList, task, toAgent, conn, wire, refused, broker, errors>>
  BY DEF ReceiveFromClient
<1>3. EventsStand(b) /\ StillHears(b)
  BY <1>1, <1>2, EventsStay
<1>4. PICK place \in Places, what \in Whats :
        At(s, place, what) /\ Doing(s, place, what) /\ (s \notin opened <=> what = "unopened")
  BY <1>1 DEF Conversing
<1>5. place = "injected" /\ injected[s] = <<what>>
  BY <1>2, <1>4, PlaceOf
<1>6. \/ what = "shard list" /\ OnGateway(s) /\ login[s].made /\ login[s].waitingOnShardList
         /\ ~login[s].loginRequestSent
      \/ what \in {"login", "captcha answer"} /\ OnGateway(s) /\ Knows(s)
      \/ /\ what \in {"auth", "list", "join", "game ready"}
         /\ toAgent[s] /\ conn[s] = "agent" /\ Knows(s)
  BY <1>4, <1>5 DEF Doing, Connecting, Seeking, LoggingIn, Changing, Entering
<1>7. conn[s] # "none"
  BY <1>6 DEF OnGateway
<1>8. Head(injected[s]) = what /\ Tail(injected[s]) = <<>>
  BY <1>5
<1>9. CASE b # s
  <2>1. ProxyStands(b)
    BY <1>1, <1>2, <1>7, <1>9 DEF ProxyStands, Shapes
  <2> QED BY <2>1, <1>1, <1>2, <1>3, <1>7, OthersStand
<1>10. CASE b = s
  <2>1. /\ b \notin task' /\ injected'[b] = <<>> /\ asked'[b] = what /\ wire'[b] = <<>> /\ NoEvent(b)'
    BY <1>2, <1>3, <1>4, <1>5, <1>7, <1>8, <1>10, <1>1 DEF At, EventsStand, Shapes
  <2>2. At(b, "asked", what)'
    BY <2>1 DEF At
  <2>3. (OnGateway(s) => OnGateway(b)') /\ (Knows(s) => Knows(b)')
    BY <1>2, <1>10 DEF OnGateway, Knows, bots
  <2>4. Doing(b, "asked", what)'
    <3>1. CASE /\ what = "shard list" /\ OnGateway(s) /\ login[s].made
               /\ login[s].waitingOnShardList /\ ~login[s].loginRequestSent
      BY <3>1, <2>3, <1>2, <1>10 DEF Doing, Seeking, bots
    <3>2. CASE what \in {"login", "captcha answer"} /\ OnGateway(s) /\ Knows(s)
      BY <3>2, <2>3 DEF Doing, LoggingIn
    <3>3. CASE /\ what \in {"auth", "list", "join", "game ready"}
               /\ toAgent[s] /\ conn[s] = "agent" /\ Knows(s)
      BY <3>3, <2>3, <1>2, <1>10 DEF Doing, Entering
    <3> QED BY <1>6, <3>1, <3>2, <3>3
  <2>5. b \notin opened' <=> what = "unopened"
    BY <1>2, <1>4, <1>10
  <2> QED BY <2>2, <2>4, <2>5, <1>7, WhatsAre, Arrives
<1> QED BY <1>9, <1>10, <1>7

(* The server answers what it is asked.                                    *)
LEMMA AnswerConverses ==
  ASSUME SessionsInv, NEW s \in Bot, Answer(s), NEW b \in Bot
  PROVE  Conversing(b)'
<1>1. Shapes /\ Conversing(b) /\ Conversing(s)
  BY DEF SessionsInv
<1>2. /\ asked' = [asked EXCEPT ![s] = "nothing"]
      /\ UNCHANGED <<thread, opened, bots, shardList, proxy, broker, lost, errors>>
  BY DEF Answer
<1>3. PICK packet : /\ \/ packet \in Answers(asked[s])
                       \/ packet = "login failed" /\ asked[s] \in {"login", "captcha answer"}
                    /\ wire' = [wire EXCEPT ![s] = Append(@, packet)]
  BY DEF Answer
<1>4. EventsStand(b) /\ StillHears(b)
  BY <1>1, <1>2, EventsStay
<1>5. PICK place \in Places, what \in Whats :
        At(s, place, what) /\ Doing(s, place, what) /\ (s \notin opened <=> what = "unopened")
  BY <1>1 DEF Conversing
<1>6. place = "asked" /\ asked[s] = what
  <2>1. asked[s] # "nothing"
    BY <1>3 DEF Answers
  <2> QED BY <2>1, <1>5, PlaceOf
<1>7. CASE b # s
  <2>1. ProxyStands(b)
    BY <1>1, <1>2, <1>3, <1>7 DEF ProxyStands, proxy, Shapes
  <2> QED BY <2>1, <1>1, <1>2, <1>4, OthersStand
<1>8. CASE b = s
  <2>1. wire[s] = <<>> /\ s \notin task /\ injected[s] = <<>> /\ NoEvent(s)
    BY <1>5, <1>6 DEF At
  <2>2. wire'[b] = <<packet>> /\ asked'[b] = "nothing"
    <3>1. Append(<<>>, packet) = <<packet>>
      OBVIOUS
    <3>2. wire'[b] = Append(wire[b], packet) /\ asked'[b] = "nothing"
      BY <1>2, <1>3, <1>8, <1>1 DEF Shapes
    <3> QED BY <3>1, <3>2, <2>1, <1>8
  <2>3. At(b, "wire", packet)'
    BY <2>1, <2>2, <1>2, <1>4, <1>8 DEF At, EventsStand, proxy
  <2>4. /\ OnGateway(s) => OnGateway(b)'
        /\ Knows(s) => Knows(b)'
        /\ b \in readyToLogin' <=> s \in readyToLogin
        /\ login' = login /\ toAgent' = toAgent /\ conn' = conn
    BY <1>2, <1>8 DEF OnGateway, Knows, bots, proxy
  <2>5. \/ <<"asked", what>> \in Connecting /\ OnGateway(s) /\ s \notin readyToLogin
        \/ <<"asked", what>> \in Seeking /\ OnGateway(s) /\ login[s].made
           /\ login[s].waitingOnShardList /\ ~login[s].loginRequestSent
        \/ <<"asked", what>> \in LoggingIn /\ OnGateway(s) /\ Knows(s)
        \/ <<"asked", what>> \in Entering /\ toAgent[s] /\ conn[s] = "agent" /\ Knows(s)
    BY <1>5, <1>6 DEF Doing, Changing
  <2>6. Doing(b, "wire", packet)'
    <3>1. CASE <<"asked", what>> \in Connecting /\ OnGateway(s) /\ s \notin readyToLogin
      <4>1. what = "patch"
        BY <3>1 DEF Connecting
      <4>2. packet = "patched"
        BY <4>1, <1>3, <1>6 DEF Answers
      <4> QED BY <3>1, <4>2, <2>4 DEF Doing, Connecting
    <3>2. CASE <<"asked", what>> \in Seeking /\ OnGateway(s) /\ login[s].made
               /\ login[s].waitingOnShardList /\ ~login[s].loginRequestSent
      <4>1. what = "shard list"
        BY <3>2 DEF Seeking
      <4>2. packet = "shards"
        BY <4>1, <1>3, <1>6 DEF Answers
      <4> QED BY <3>2, <4>2, <2>4, <1>8 DEF Doing, Seeking
    <3>3. CASE <<"asked", what>> \in LoggingIn /\ OnGateway(s) /\ Knows(s)
      <4>1. what \in {"login", "captcha answer"}
        BY <3>3 DEF LoggingIn
      <4>2. packet \in {"challenge", "logged in", "login failed"}
        BY <4>1, <1>3, <1>6 DEF Answers
      <4> QED BY <3>3, <4>2, <2>4 DEF Doing, LoggingIn
    <3>4. CASE <<"asked", what>> \in Entering /\ toAgent[s] /\ conn[s] = "agent" /\ Knows(s)
      <4>1. what \in {"auth", "list", "join", "game ready"}
        BY <3>4 DEF Entering
      <4>2. packet \in {"authorized", "characters", "spawned", "body state"}
        BY <4>1, <1>3, <1>6 DEF Answers
      <4> QED BY <3>4, <4>2, <2>4, <1>8 DEF Doing, Entering
    <3> QED BY <2>5, <3>1, <3>2, <3>3, <3>4
  <2>7. b \in opened' /\ packet # "unopened" /\ packet \in Whats
    <3>1. what # "unopened"
      BY <2>5 DEF Connecting, Seeking, LoggingIn, Entering
    <3>2. packet \in Replies /\ packet # "unopened"
      BY <1>3, ServerAnswers DEF Replies
    <3> QED BY <3>1, <3>2, <1>2, <1>5, <1>8, WhatsAre
  <2> QED BY <2>3, <2>6, <2>7, WhatsAre, Arrives
<1> QED BY <1>7, <1>8

LEMMA PairFacts == ASSUME NEW x, NEW y PROVE Head(<<x, y>>) = x /\ Tail(<<x, y>>) = <<y>>
<1>1. Len(<<x, y>>) = 2 /\ <<x, y>> \in Seq({x, y})
  OBVIOUS
<1>2. Tail(<<x, y>>) \in Seq({x, y}) /\ Len(Tail(<<x, y>>)) = 1 /\ Tail(<<x, y>>)[1] = y
  BY <1>1, HeadTailProperties
<1> QED BY <1>1, <1>2

(* A packet of the server: the proxy acts on it, and the bot is told.      *)
LEMMA ReceiveOwn ==
  ASSUME SessionsInv, NEW s \in Bot, ReceiveFromServer(s)
  PROVE  Conversing(s)'
<1> DEFINE packet == Head(wire[s])
<1>1. Shapes /\ QueueShape /\ Conversing(s) /\ InOrder(s) /\ half = "handle"
      /\ wire[s] # <<>> /\ wire[s] \in Seq(Replies)
  BY DEF SessionsInv, Shapes, ReceiveFromServer, WorldIsFree
<1>2. packet \in Replies
  BY <1>1, TailEvents
<1>3. /\ wire' = [wire EXCEPT ![s] = IF packet = "logged in" THEN <<>> ELSE Tail(@)]
      /\ conn' = [conn EXCEPT ![s] = IF packet = "logged in" THEN "none" ELSE @]
      /\ toAgent' = [toAgent EXCEPT ![s] = @ \/ packet = "logged in"]
      /\ task' = IF packet = "logged in" THEN task \cup {s} ELSE task
      /\ asked' = [asked EXCEPT ![s] = IF packet = "state request" /\ ~toAgent[s]
                                       THEN "patch" ELSE @]
      /\ shardList' = (shardList \/ packet = "shards")
      /\ queue' = IF PublishedFor(packet) = {} THEN queue
                  ELSE Append(queue, Event(Told(packet), s))
      /\ UNCHANGED <<thread, opened, bots, injected, refused, turn, half, lost, errors>>
  BY DEF ReceiveFromServer, Told
<1>4. PICK place \in Places, what \in Whats :
        At(s, place, what) /\ Doing(s, place, what) /\ (s \notin opened <=> what = "unopened")
  BY <1>1 DEF Conversing
<1>5. place = "wire" /\ s \notin task /\ injected[s] = <<>> /\ asked[s] = "nothing" /\ NoEvent(s)
      /\ (wire[s] = <<what>> \/ (what = "identify" /\ wire[s] = <<"state request", "identify">>))
  <2>1. place = "wire"
    BY <1>1, <1>4, PlaceOf
  <2> QED BY <2>1, <1>4 DEF At
<1>6. \/ /\ what = "state request" /\ OnGateway(s) /\ s \notin readyToLogin
      \/ /\ what = "patched" /\ OnGateway(s) /\ s \notin readyToLogin
      \/ /\ what = "shards" /\ OnGateway(s) /\ login[s].made /\ login[s].waitingOnShardList
         /\ ~login[s].loginRequestSent
      \/ /\ what \in {"challenge", "logged in", "login failed"} /\ OnGateway(s) /\ Knows(s)
      \/ /\ what = "identify" /\ toAgent[s] /\ Knows(s) /\ TokenComing(s) /\ conn[s] = "agent"
      \/ /\ what \in {"authorized", "characters", "spawned", "body state"}
         /\ toAgent[s] /\ conn[s] = "agent" /\ Knows(s)
  BY <1>4, <1>5 DEF Doing, Connecting, Seeking, LoggingIn, Changing, Entering
<1>7. s \in opened'
  BY <1>3, <1>4, <1>6
<1>8. Knows(s) => Knows(s)'
  BY <1>3 DEF Knows, bots
<1>9. injected'[s] = <<>>
  BY <1>3, <1>5
<1>10. CASE wire[s] = <<"state request", "identify">> /\ what = "identify"
  <2>a. toAgent[s]
    BY <1>6, <1>10
  <2>b. packet = "state request" /\ Tail(wire[s]) = <<"identify">>
    BY <1>10, PairFacts
  <2>1. packet = "state request" /\ Tail(wire[s]) = <<"identify">> /\ toAgent[s]
    BY <2>a, <2>b
  <2>2. queue' = queue
    BY <2>1, <1>3, PublishedIs
  <2>3. EventsStand(s)
    BY <2>2, <1>1, <1>3, EventsStay DEF broker
  <2> HIDE DEF packet
  <2>4. /\ wire'[s] = <<"identify">> /\ asked'[s] = "nothing" /\ s \notin task'
        /\ toAgent'[s] /\ conn'[s] = conn[s]
    BY <2>1, <1>1, <1>3, <1>5 DEF Shapes
  <2>5. At(s, "wire", "identify")'
    BY <2>3, <2>4, <1>5, <1>9 DEF At, EventsStand
  <2>6. TokenComing(s)'
    BY <2>3, <1>3, <1>6, <1>10 DEF TokenComing, EventsStand, bots
  <2>7. Doing(s, "wire", "identify")'
    BY <2>4, <2>6, <1>6, <1>8, <1>10 DEF Doing, Changing
  <2>8. "identify" \in Whats
    BY DEF Whats, Replies
  <2> QED BY <2>5, <2>7, <2>8, <1>7, WhatsAre, Arrives
<1>11. CASE wire[s] = <<what>>
  <2>1. packet = what /\ Tail(wire[s]) = <<>>
    BY <1>11
  <2> HIDE DEF packet
  <2>2. /\ wire'[s] = <<>>
        /\ what # "state request" => asked'[s] = "nothing"
        /\ what # "logged in" => s \notin task' /\ conn'[s] = conn[s] /\ toAgent'[s] = toAgent[s]
    BY <2>1, <1>1, <1>3, <1>5 DEF Shapes
  <2>3. (OnGateway(s) /\ what # "logged in") => OnGateway(s)'
    BY <2>2 DEF OnGateway
  <2>4. CASE what = "state request"
    <3>1. asked'[s] = "patch"
      BY <2>1, <2>4, <1>1, <1>3, <1>6 DEF Shapes, OnGateway
    <3>2. queue' = queue
      BY <2>1, <2>4, <1>3, PublishedIs
    <3>3. EventsStand(s)
      BY <3>2, <1>1, <1>3, EventsStay DEF broker
    <3>4. At(s, "asked", "patch")'
      BY <3>1, <3>3, <2>2, <2>4, <1>5, <1>9 DEF At, EventsStand
    <3>5. Doing(s, "asked", "patch")'
      BY <2>3, <2>4, <1>3, <1>6 DEF Doing, Connecting, bots
    <3>6. "patch" \in Whats
      BY DEF Whats, Packets
    <3> QED BY <3>4, <3>5, <3>6, <1>7, WhatsAre, Arrives
  <2>5. CASE what = "login failed"
    <3>1. queue' = queue
      BY <2>1, <2>5, <1>3, PublishedIs
    <3>2. EventsStand(s)
      BY <3>1, <1>1, <1>3, EventsStay DEF broker
    <3>3. At(s, "none", "over")'
      BY <3>2, <2>2, <2>5, <1>5, <1>9 DEF At, EventsStand
    <3>4. Knows(s)
      BY <2>5, <1>6
    <3>5. Created(s)'
      BY <3>4, <1>1, <1>3 DEF Knows, InOrder, Created, thread
    <3>6. Doing(s, "none", "over")'
      BY <3>4, <3>5, <1>8 DEF Doing, Knows
    <3> QED BY <3>3, <3>6, <1>7, WhatsAre, Arrives
  <2>6. CASE what \notin {"state request", "login failed"}
    <3>1. PublishedFor(what) # {} /\ Told(what) \in Kinds \ {"ReadyForAssignment"}
      <4>1. PublishedFor(what) # {}
        BY <2>6, <1>6, PublishedIs
      <4> QED BY <4>1, <2>1, <1>2, ToldKind
    <3>2. queue' = Append(queue, Event(Told(what), s)) /\ turn' = turn /\ half' = half
      BY <3>1, <2>1, <1>3
    <3>3. /\ Told(what) # "GatewayLoginResponseReceived" =>
               EventIs(s, Told(what))' /\ (TokenNext(s) => TokenNext(s)')
          /\ Told(what) = "GatewayLoginResponseReceived" => NoEvent(s)' /\ TokenNext(s)'
      BY <3>1, <3>2, <1>1, <1>5, OwnEvent
    <3>4. CASE what = "logged in"
      <4>1. s \in task' /\ conn'[s] = "none" /\ toAgent'[s] /\ asked'[s] = "nothing"
        BY <3>4, <2>1, <2>2, <1>1, <1>3 DEF Shapes
      <4>2. NoEvent(s)' /\ TokenComing(s)'
        BY <3>3, <3>4, PublishedIs DEF TokenComing
      <4>3. At(s, "task", "agent")'
        BY <4>1, <4>2, <2>2, <1>9 DEF At
      <4>4. Doing(s, "task", "agent")'
        BY <4>1, <4>2, <3>4, <1>6, <1>8 DEF Doing, Changing
      <4> QED BY <4>3, <4>4, <1>7, WhatsAre, Arrives
    <3>5. CASE what # "logged in"
      <4>1. EventIs(s, Told(what))' /\ Told(what) # "unopened" /\ Told(what) \in Conversation
        <5>1. Told(what) # "GatewayLoginResponseReceived" /\ Told(what) # "unopened"
          BY <3>5, <2>6, <1>6, PublishedIs
        <5>2. Told(what) \in Conversation
          BY <3>1, <2>1, <1>2, ToldKind
        <5> QED BY <5>1, <5>2, <3>3
      <4>2. At(s, "event", Told(what))'
        BY <4>1, <3>5, <2>2, <2>6, <1>9 DEF At
      <4>3. Doing(s, "event", Told(what))'
        <5>1. CASE what = "patched"
          BY <5>1, <2>3, <1>3, <1>6, PublishedIs DEF Doing, Connecting, bots
        <5>2. CASE what = "shards"
          <6>1. shardList'
            BY <5>2, <2>1, <1>3
          <6> QED BY <6>1, <5>2, <2>3, <1>3, <1>6, PublishedIs DEF Doing, Seeking, bots
        <5>3. CASE what = "challenge"
          BY <5>3, <2>3, <1>6, <1>8, PublishedIs DEF Doing, LoggingIn
        <5>4. CASE what = "identify"
          <6>1. TokenComing(s)'
            BY <5>4, <3>3, <3>5, <4>1, <1>3, <1>6, PublishedIs DEF TokenComing, bots
          <6> QED BY <6>1, <5>4, <2>2, <1>6, <1>8, PublishedIs DEF Doing, Changing
        <5>5. CASE what \in {"authorized", "characters", "spawned", "body state"}
          BY <5>5, <2>2, <1>6, <1>8, PublishedIs DEF Doing, Entering
        <5> QED BY <5>1, <5>2, <5>3, <5>4, <5>5, <3>5, <2>6, <1>6
      <4> QED BY <4>1, <4>2, <4>3, <1>7, WhatsAre, Arrives
    <3> QED BY <3>4, <3>5
  <2> QED BY <2>4, <2>5, <2>6
<1> QED BY <1>5, <1>10, <1>11

LEMMA ReceiveFromServerConverses ==
  ASSUME SessionsInv, NEW s \in Bot, ReceiveFromServer(s), NEW b \in Bot
  PROVE  Conversing(b)'
<1>1. CASE b = s
  BY <1>1, ReceiveOwn
<1>2. CASE b # s
  <2>1. Shapes /\ Conversing(b) /\ wire[s] # <<>> /\ wire[s] \in Seq(Replies)
    BY DEF SessionsInv, Shapes, ReceiveFromServer
  <2>2. PICK packet \in Replies :
          /\ wire' = [wire EXCEPT ![s] = IF packet = "logged in" THEN <<>> ELSE Tail(@)]
          /\ conn' = [conn EXCEPT ![s] = IF packet = "logged in" THEN "none" ELSE @]
          /\ toAgent' = [toAgent EXCEPT ![s] = @ \/ packet = "logged in"]
          /\ task' = IF packet = "logged in" THEN task \cup {s} ELSE task
          /\ asked' = [asked EXCEPT ![s] = IF packet = "state request" /\ ~toAgent[s]
                                           THEN "patch" ELSE @]
          /\ shardList' = (shardList \/ packet = "shards")
          /\ queue' = IF PublishedFor(packet) = {} THEN queue
                      ELSE Append(queue, Event(Told(packet), s))
    <3>1. Head(wire[s]) \in Replies
      BY <2>1, TailEvents
    <3> QED BY <3>1 DEF ReceiveFromServer, Told
  <2>3. UNCHANGED <<thread, opened, bots, injected, refused, turn, half, lost, errors>>
    BY DEF ReceiveFromServer
  <2>4. ProxyStands(b)
    BY <2>1, <2>2, <2>3, <1>2 DEF ProxyStands, Shapes
  <2>5. EventsStand(b) /\ StillHears(b)
    <3>1. CASE PublishedFor(packet) = {}
      BY <3>1, <2>1, <2>2, <2>3, EventsStay DEF broker
    <3>2. CASE PublishedFor(packet) # {}
      <4>1. Event(Told(packet), s) \in EventSet /\ Event(Told(packet), s).of = s
        BY <3>2, ToldKind DEF Event, EventSet, Bot
      <4> QED BY <4>1, <3>2, <2>1, <2>2, <2>3, <1>2, EventsGrow
    <3> QED BY <3>1, <3>2
  <2>6. shardList => shardList'
    BY <2>2
  <2> QED BY <2>1, <2>3, <2>4, <2>5, <2>6, OthersStand
<1> QED BY <1>1, <1>2

(* A packet is injected at one session at a time.                          *)
LEMMA InjectAt ==
  ASSUME Shapes, NEW s \in Bot, NEW packets \in Seq(Packets), Inject(s, packets)
  PROVE  /\ \A b \in Bot \ {s} : injected'[b] = injected[b]
         /\ packets = <<>> => injected'[s] = injected[s]
         /\ injected[s] = <<>> => injected'[s] = packets
<1>1. injected \in [Bot -> Seq(Packets)]
  BY DEF Shapes
<1>2. injected'[s] = injected[s] \o packets
  BY <1>1 DEF Inject
<1>3. injected[s] \in Seq(Packets)
  BY <1>1
<1>4. injected[s] \o <<>> = injected[s] /\ <<>> \o packets = packets
  BY <1>3, ConcatEmptySeq
<1>5. \A b \in Bot \ {s} : injected'[b] = injected[b]
  BY <1>1 DEF Inject
<1> QED BY <1>2, <1>4, <1>5

(* The event at the front, told to the bot whose turn it is.               *)
LEMMA FirstEvent ==
  ASSUME Shapes, queue # <<>>, turn \in Bot
  PROVE  /\ 1 \in DOMAIN queue /\ Head(queue) = queue[1] /\ queue[1] \in EventSet
         /\ queue[1].of = turn /\ half = "handle" /\ queue[1].kind # "ReadyForAssignment"
              => Due(turn, 1)
         /\ queue[1].of = turn /\ half = "login"
              /\ queue[1].kind \notin {"ReadyForAssignment", "SelfSpawned"}
              => Due(turn, 1)
<1>1. 1 \in DOMAIN queue /\ Head(queue) = queue[1] /\ queue[1] \in EventSet
  BY TailEvents DEF Shapes, QueueShape
<1> QED BY <1>1 DEF Due

LEMMA HandleConverses ==
  ASSUME SessionsInv, Handle, NEW b \in Bot
  PROVE  Conversing(b)' /\ errors' = errors
<1> DEFINE own(k) == queue[1].kind = k /\ queue[1].of = turn
           again == own("GatewayPatchResponseReceived") /\ turn \in readyToLogin
<1>1. Shapes /\ QueueShape /\ Conversing(b) /\ queue # <<>> /\ half = "handle" /\ turn \in Bot
      /\ queue \in Seq(EventSet)
  BY DEF SessionsInv, Shapes, QueueShape, Handle
<1>2. 1 \in DOMAIN queue /\ Head(queue) = queue[1] /\ queue[1] \in EventSet
      /\ (queue[1].of = turn /\ queue[1].kind # "ReadyForAssignment" => Due(turn, 1))
  BY <1>1, FirstEvent
<1>3. /\ readyToLogin' = IF own("GatewayPatchResponseReceived") THEN readyToLogin \cup {turn}
                         ELSE readyToLogin
      /\ errors' = IF again THEN errors \cup {"promise set twice"} ELSE errors
      /\ IF own("SelfSpawned") THEN Inject(turn, <<"game ready">>) ELSE injected' = injected
      /\ IF again \/ turn \notin opened THEN NextTurn
         ELSE half' = "login" /\ UNCHANGED <<queue, turn>>
      /\ UNCHANGED <<thread, opened, loggedIn, login, pvpManager, shardList, task, toAgent, conn, server, lost>>
  BY <1>2 DEF Handle
<1>4. /\ Pending(turn, 1) \/ ~own("GatewayPatchResponseReceived")
      /\ Pending(turn, 1) \/ ~own("SelfSpawned")
  BY <1>2 DEF Pending
<1>5. PICK place \in Places, what \in Whats :
        /\ At(turn, place, what) /\ Doing(turn, place, what)
        /\ turn \notin opened <=> what = "unopened"
  BY <1>1 DEF SessionsInv, Conversing
<1>6. Pending(turn, 1) => place = "event" /\ queue[1].kind = what /\ EventIs(turn, what)
  BY <1>2, <1>5, PlaceOf
<1>7. own("GatewayPatchResponseReceived")
        => <<place, what>> \in Connecting /\ OnGateway(turn) /\ turn \notin readyToLogin
  BY <1>1, <1>4, <1>5, <1>6
     DEF Doing, Hearing, Connecting, Seeking, LoggingIn, Changing, Entering
<1>8. ~again
  BY <1>7
<1>9. errors' = errors
  BY <1>3, <1>8
<1>10. turn \notin opened => ~own("GatewayPatchResponseReceived") /\ ~own("SelfSpawned")
                             /\ place = "none" /\ NoEvent(turn)
  <2>1. turn \notin opened => place = "none"
    BY <1>5 DEF Doing, Connecting, Seeking, LoggingIn, Changing, Entering
  <2> QED BY <2>1, <1>4, <1>5, <1>6 DEF At
<1>11. ASSUME b # turn PROVE Conversing(b)'
  <2>1. \E d \in {0, 1} : Keeps(b, d, 0)
    <3>1. CASE NextTurn
      BY <3>1, <1>1, <1>11, TurnPasses
    <3>2. CASE half' = "login" /\ UNCHANGED <<queue, turn>>
      BY <3>2, <1>1, <1>11, HalfPasses
    <3> QED BY <3>1, <3>2, <1>3
  <2>2. EventsStand(b)
    <3>1. queue' \in Seq(EventSet)
      BY <1>1, HandleTyped DEF Shapes, QueueShape
    <3> QED BY <3>1, <2>1, <1>1, EventsKept
  <2>3. StillHears(b)
    BY <1>1 DEF StillHears, Hearing
  <2>4. injected'[b] = injected[b]
    <3>1. <<"game ready">> \in Seq(Packets)
      BY DEF Packets
    <3> QED BY <3>1, <1>1, <1>3, <1>11, InjectAt
  <2>5. ProxyStands(b)
    BY <2>4, <1>3 DEF ProxyStands, server
  <2>6. BotStands(b)
    BY <1>3, <1>11 DEF BotStands, Created, thread
  <2>7. MachineStands(b)
    BY <2>2, <1>3, MachineKept
  <2> QED BY <2>2, <2>3, <2>5, <2>6, <2>7, <1>1, ConversationStands
<1>12. ASSUME b = turn PROVE Conversing(b)'
  <2>1. queue' \in Seq(EventSet)
    BY <1>1, HandleTyped DEF Shapes, QueueShape
  <2>2. CASE b \notin opened
    <3>1. PICK d \in {0, 1} : Keeps(b, d, 1)
      BY <2>2, <1>1, <1>3, <1>12, TurnPasses
    <3>2. NoEvent(b)'
      BY <3>1, <2>1, <2>2, <1>1, <1>10, <1>12, KeepsFacts
    <3>3. injected' = injected /\ readyToLogin' = readyToLogin
      BY <2>2, <1>3, <1>10, <1>12
    <3>4. At(b, place, what)'
      BY <3>2, <3>3, <2>2, <1>3, <1>5, <1>10, <1>12 DEF At, server
    <3>5. <<place, what>> = <<"none", "unopened">> /\ b \notin readyToLogin
          /\ conn[b] = "none" /\ ~toAgent[b]
      BY <2>2, <1>5, <1>10, <1>12 DEF Doing, Connecting, Seeking, LoggingIn, Changing, Entering
    <3>6. Doing(b, place, what)' /\ (b \notin opened' <=> what = "unopened")
      BY <3>3, <3>5, <2>2, <1>3 DEF Doing
    <3> QED BY <3>4, <3>6, <1>5, Arrives
  <2>3. CASE b \in opened
    <3>1. half' = "login" /\ UNCHANGED <<queue, turn>>
      BY <2>3, <1>3, <1>8, <1>12
    <3>2. IF queue[1].kind = "SelfSpawned" THEN Keeps(b, 0, 1) ELSE Keeps(b, 0, 0)
      BY <3>1, <1>1, <1>12, HalfPasses
    <3>3. BotStands(b) \/ own("GatewayPatchResponseReceived")
      BY <1>3 DEF BotStands, Created, thread
    <3>4. task' = task /\ asked' = asked /\ wire' = wire /\ conn' = conn /\ toAgent' = toAgent
          /\ b \in opened' /\ login' = login /\ shardList' = shardList
      BY <2>3, <1>3 DEF server
    <3>5. CASE own("SelfSpawned")
      <4>1. Pending(b, 1) /\ Keeps(b, 0, 1)
        BY <3>2, <3>5, <1>4, <1>12
      <4>2. place = "event" /\ what = "SelfSpawned" /\ EventIs(b, what)
        BY <4>1, <3>5, <1>6, <1>12
      <4>3. NoEvent(b)'
        BY <4>1, <4>2, <2>1, <1>1, <1>2, KeepsFacts
      <4>4. injected[b] = <<>>
        BY <4>2, <1>5, <1>12 DEF At
      <4>5. injected'[b] = <<"game ready">>
        <5>1. <<"game ready">> \in Seq(Packets)
          BY DEF Packets
        <5> QED BY <5>1, <4>4, <3>5, <1>1, <1>3, <1>12, InjectAt
      <4>6. At(b, "injected", "game ready")'
        BY <4>2, <4>3, <4>5, <3>4, <1>5, <1>12 DEF At
      <4>7. toAgent[b] /\ conn[b] = "agent" /\ Knows(b)
        BY <4>2, <1>5, <1>12 DEF Doing, Connecting, Seeking, LoggingIn, Changing
      <4>8. Doing(b, "injected", "game ready")'
        BY <4>7, <3>4 DEF Doing, Entering, Knows
      <4>9. "game ready" \in Whats
        BY DEF Whats, Packets
      <4> QED BY <4>6, <4>8, <4>9, <3>4, WhatsAre, Arrives
    <3>6. CASE own("GatewayPatchResponseReceived")
      <4>1. injected' = injected /\ queue[1].kind # "SelfSpawned"
        BY <3>6, <1>3
      <4>2. EventsStand(b)
        BY <4>1, <3>2, <2>1, <1>1, EventsKept
      <4>3. place = "event" /\ what = "GatewayPatchResponseReceived"
        BY <3>6, <1>4, <1>6
      <4>4. At(b, place, what)'
        BY <4>1, <4>2, <4>3, <3>4, <1>5, <1>12 DEF At, EventsStand
      <4>5. Hearing(b, what)'
        BY <4>3, <3>1, <3>6, <1>1, <1>12 DEF Hearing
      <4>6. ~login[b].made
        <5>1. b \notin readyToLogin /\ InOrder(b) /\ ThreadInv
          BY <3>6, <1>7, <1>12 DEF SessionsInv
        <5> QED BY <5>1 DEF InOrder, ThreadInv, Created
      <4>7. Fresh(b)' /\ OnGateway(b)'
        BY <4>6, <3>4, <3>6, <1>7, <1>12 DEF Fresh, OnGateway
      <4>8. Doing(b, place, what)'
        BY <4>3, <4>5, <4>7, <3>6, <1>7 DEF Doing
      <4>9. b \notin opened' <=> what = "unopened"
        BY <4>3, <3>4
      <4> QED BY <4>4, <4>8, <4>9, <1>5, Arrives
    <3>7. CASE ~own("SelfSpawned") /\ ~own("GatewayPatchResponseReceived")
      <4>1. EventsStand(b)
        <5>1. CASE queue[1].kind = "SelfSpawned"
          <6>1. ~Pending(b, 1)
            BY <5>1, <3>7, <1>12 DEF Pending, Due
          <6>2. Keeps(b, 0, 1)
            BY <5>1, <3>2
          <6> QED BY <6>1, <6>2, <5>1, <2>1, <1>1, KeepsFacts DEF EventsStand
        <5>2. CASE queue[1].kind # "SelfSpawned"
          BY <5>2, <3>2, <2>1, <1>1, EventsKept
        <5> QED BY <5>1, <5>2
      <4>2. ProxyStands(b)
        BY <3>4, <3>7, <1>3 DEF ProxyStands
      <4>3. MachineStands(b)
        BY <4>1, <3>4, MachineKept
      <4>4. StillHears(b)
        BY <1>1 DEF StillHears, Hearing
      <4> QED BY <4>1, <4>2, <4>3, <4>4, <3>3, <3>7, <1>1, ConversationStands
    <3> QED BY <3>5, <3>6, <3>7
  <2> QED BY <2>2, <2>3
<1> QED BY <1>9, <1>11, <1>12

LEMMA UpdatePvpConverses ==
  ASSUME SessionsInv, UpdatePvp, NEW b \in Bot
  PROVE  Conversing(b)'
<1>1. Shapes /\ QueueShape /\ Conversing(b) /\ half = "pvp" /\ queue # <<>>
      /\ queue \in Seq(EventSet) /\ pvpManager \in [Bot -> {"none", "made", "published"}]
  BY DEF SessionsInv, Shapes, QueueShape, UpdatePvp
<1>2. UNCHANGED <<thread, opened, readyToLogin, loggedIn, self, login, shardList, proxy, server>>
  BY DEF UpdatePvp
<1>3. EventsStand(b)
  <2>1. (\E d \in {0, 1} : Keeps(b, d, 0)) /\ queue' \in Seq(EventSet)
    BY <1>1, PvpPasses
  <2> QED BY <2>1, <1>1, EventsKept
<1>4. StillHears(b)
  BY <1>1 DEF StillHears, Hearing
<1>5. ProxyStands(b)
  BY <1>2 DEF ProxyStands, proxy, server
<1>6. BotStands(b)
  BY <1>2 DEF BotStands, Created, thread
<1>7. MachineStands(b)
  BY <1>2, <1>3, MachineKept
<1> QED BY <1>1, <1>3, <1>4, <1>5, <1>6, <1>7, ConversationStands

(* The bot whose turn it is updates its Login machine.                     *)
LEMMA UpdateOthers ==
  ASSUME SessionsInv, Update, NEW b \in Bot, b # turn
  PROVE  Conversing(b)' /\ login'[b] = login[b]
<1>1. Shapes /\ QueueShape /\ Conversing(b) /\ half = "login" /\ queue # <<>>
      /\ queue \in Seq(EventSet) /\ turn \in Bot
  BY DEF SessionsInv, Shapes, QueueShape, Update
<1>2. UNCHANGED <<thread, opened, readyToLogin, self, pvpManager, shardList, task, toAgent, conn, server>>
  BY DEF Update
<1>3. NextTurn \/ (half' = "pvp" /\ UNCHANGED <<queue, turn>>)
  BY DEF Update
<1>4. (\E d \in {0, 1} : Keeps(b, d, 0)) /\ half' # "login"
  <2>1. CASE NextTurn
    BY <2>1, <1>1, TurnPasses
  <2>2. CASE half' = "pvp" /\ UNCHANGED <<queue, turn>>
    BY <2>2, <1>1, HalfPasses
  <2> QED BY <2>1, <2>2, <1>3
<1>5. EventsStand(b)
  <2>1. queue' \in Seq(EventSet)
    BY <1>1, UpdateTyped DEF Shapes, QueueShape
  <2> QED BY <2>1, <1>1, <1>4, EventsKept
<1>6. Hearing(b, "GatewayPatchResponseReceived") => b = turn
  BY DEF Hearing
<1>7. injected'[b] = injected[b] /\ login'[b] = login[b]
  BY <1>1 DEF Update, Inject, Shapes
<1>8. ProxyStands(b)
  BY <1>2, <1>7 DEF ProxyStands, server
<1>9. BotStands(b)
  BY <1>2 DEF BotStands, Created, thread
<1>10. MachineStands(b)
  BY <1>5, <1>7, MachineKept
<1> QED BY <1>1, <1>5, <1>6, <1>7, <1>8, <1>9, <1>10, ConversationStands DEF StillHears

LEMMA UpdateNothing ==
  ASSUME SessionsInv, Update, NEW b \in Bot, b = turn, ~login[b].made
  PROVE  Conversing(b)' /\ errors' = errors /\ login' = login /\ loggedIn' = loggedIn
<1>1. Shapes /\ QueueShape /\ Conversing(b) /\ InOrder(b) /\ half = "login" /\ queue # <<>>
      /\ queue \in Seq(EventSet) /\ turn \in Bot
  BY DEF SessionsInv, Shapes, QueueShape, Update
<1>2. /\ half' = "pvp"
      /\ UNCHANGED <<queue, turn, login, loggedIn, injected, errors>>
      /\ UNCHANGED <<thread, opened, readyToLogin, self, pvpManager, shardList, task, toAgent, conn, server>>
  BY DEF Update
<1>3. Keeps(b, 0, 1) /\ queue' \in Seq(EventSet)
  BY <1>1, <1>2, HalfPasses
<1>4. 1 \in DOMAIN queue
  BY <1>1, FirstEvent
<1>5. PICK place \in Places, what \in Whats :
        At(b, place, what) /\ Doing(b, place, what) /\ (b \notin opened <=> what = "unopened")
  BY <1>1 DEF Conversing
<1>6. CASE Pending(b, 1)
  <2>1. place = "event" /\ queue[1].kind = what /\ EventIs(b, what)
    BY <1>4, <1>5, <1>6, PlaceOf
  <2>2. what = "GatewayPatchResponseReceived" /\ OnGateway(b)
    BY <2>1, <1>5 DEF Doing, Connecting, Seeking, LoggingIn, Changing, Entering, Knows
  <2>3. b \in readyToLogin
    BY <2>1, <2>2, <1>1, <1>6 DEF InOrder, Hearing, Pending, Due
  <2>4. NoEvent(b)'
    BY <2>1, <1>1, <1>3, <1>4, <1>6, KeepsFacts
  <2>5. At(b, "none", "ready")'
    BY <2>1, <2>4, <1>2, <1>5 DEF At, server
  <2>6. Doing(b, "none", "ready")'
    BY <2>2, <2>3, <1>2 DEF Doing, OnGateway, Fresh
  <2>7. b \in opened'
    BY <2>2, <1>2, <1>5
  <2> QED BY <2>5, <2>6, <2>7, <1>2, WhatsAre, Arrives
<1>7. CASE ~Pending(b, 1)
  <2>1. (NoEvent(b) => NoEvent(b)') /\ (\A k : EventIs(b, k) => EventIs(b, k)')
    BY <1>1, <1>3, <1>7, KeepsFacts
  <2>2. StillHears(b)
    BY <1>1, <1>7 DEF StillHears, Hearing, Pending, Due
  <2>3. ProxyStands(b) /\ BotStands(b) /\ MachineStands(b)
    BY <1>2 DEF ProxyStands, BotStands, MachineStands, Created, thread, server
  <2> QED BY <2>1, <2>2, <2>3, <1>1, <1>2, HeardStands
<1> QED BY <1>6, <1>7

LEMMA UpdateMade ==
  ASSUME SessionsInv, Update, NEW b \in Bot, b = turn, login[b].made, NEW r,
         r = UpdateLogin(b, login[b], queue[1])
  PROVE  /\ Conversing(b)' /\ errors' = errors /\ (r.done => b \in self)
         /\ login'[b] = IF r.done THEN NoMachine ELSE r.m
         /\ loggedIn' = IF r.done THEN loggedIn \cup {b} ELSE loggedIn
<1> DEFINE e == queue[1]
           m == login[b]
<1>1. Shapes /\ QueueShape /\ Conversing(b) /\ InOrder(b) /\ half = "login" /\ queue # <<>>
      /\ queue \in Seq(EventSet) /\ turn \in Bot
  BY DEF SessionsInv, Shapes, QueueShape, Update
<1>2. 1 \in DOMAIN queue /\ Head(queue) = e /\ e \in EventSet
      /\ (e.of = b /\ e.kind \notin {"ReadyForAssignment", "SelfSpawned"} => Due(b, 1))
  BY <1>1, FirstEvent
<1>3. m \in Made
  <2>1. m \in Machine
    BY <1>1 DEF Shapes
  <2> QED BY <2>1 DEF Machine, NoMachine
<1>4. r.m \in Made /\ r.send \in {<<>>} \cup {<<p>> : p \in Packets}
      /\ (r.done => m.spawned) /\ Outcome(b, m, e, r)
  <2>1. Outcome(b, m, e, r)
    BY <1>2, <1>3, UpdateCases
  <2> QED BY <2>1 DEF Outcome
<1>5. r.done => b \in self
  BY <1>1, <1>4 DEF InOrder
<1>6. /\ login' = [login EXCEPT ![b] = IF r.done THEN NoMachine ELSE r.m]
      /\ Inject(b, r.send)
      /\ errors' = errors \cup r.threw
      /\ IF r.done THEN half' = "pvp" /\ loggedIn' = loggedIn \cup {b} /\ UNCHANGED <<queue, turn>>
                   ELSE NextTurn /\ loggedIn' = loggedIn
      /\ UNCHANGED <<thread, opened, readyToLogin, self, pvpManager, shardList, task, toAgent, conn, server, lost>>
  BY <1>2, <1>5 DEF Update
<1>7. login'[b] = IF r.done THEN NoMachine ELSE r.m
  BY <1>1, <1>6 DEF Shapes
<1>8. PICK d \in {0, 1} : Keeps(b, d, 1)
  <2>1. CASE r.done
    BY <2>1, <1>1, <1>6, HalfPasses
  <2>2. CASE ~r.done
    BY <2>2, <1>1, <1>6, TurnPasses
  <2> QED BY <2>1, <2>2
<1>9. queue' \in Seq(EventSet)
  BY <1>1, UpdateTyped DEF Shapes, QueueShape
<1>10. r.send \in Seq(Packets)
  <2>1. <<>> \in Seq(Packets) /\ \A p \in Packets : <<p>> \in Seq(Packets)
    OBVIOUS
  <2> QED BY ONLY <2>1, <1>4
<1>11. /\ r.send = <<>> => injected'[b] = injected[b]
       /\ injected[b] = <<>> => injected'[b] = r.send
  BY <1>1, <1>6, <1>10, InjectAt
<1>12. /\ OnGateway(b) => OnGateway(b)'
       /\ task' = task /\ asked' = asked /\ wire' = wire /\ conn' = conn /\ toAgent' = toAgent
       /\ shardList' = shardList /\ opened' = opened /\ readyToLogin' = readyToLogin
       /\ Created(b) /\ Created(b)' /\ b \in readyToLogin
  <2>1. Created(b)
    BY <1>1 DEF InOrder
  <2>2. b \in readyToLogin
    BY <2>1 DEF SessionsInv, ThreadInv, Created
  <2> QED BY <2>1, <2>2, <1>6 DEF OnGateway, Created, thread, server
<1>13. PICK place \in Places, what \in Whats :
         At(b, place, what) /\ Doing(b, place, what) /\ (b \notin opened <=> what = "unopened")
  BY <1>1 DEF Conversing
<1>14. Pending(b, 1) => /\ place = "event" /\ e.kind = what /\ e.of = b /\ EventIs(b, what)
                        /\ NoEvent(b)' /\ injected[b] = <<>>
  <2>1. ASSUME Pending(b, 1) PROVE place = "event" /\ e.kind = what /\ EventIs(b, what)
    BY <2>1, <1>2, <1>13, PlaceOf
  <2>2. ASSUME Pending(b, 1) PROVE NoEvent(b)' /\ injected[b] = <<>> /\ e.of = b
    BY <2>1, <2>2, <1>1, <1>2, <1>8, <1>9, <1>13, KeepsFacts DEF At, Pending, Due
  <2> QED BY <2>1, <2>2
<1> HIDE DEF e, m
(* A request of the bot that answers nothing, or the event it has heard.   *)
<1>15. ASSUME NEW p \in Packets, r.send = <<p>>, NoEvent(b)', place \in {"event", "none"},
              what # "unopened", Doing(b, "injected", p)'
       PROVE  Conversing(b)'
  <2>1. injected[b] = <<>> /\ b \notin task /\ asked[b] = "nothing" /\ wire[b] = <<>>
    BY <1>13, <1>15 DEF At
  <2>2. At(b, "injected", p)'
    BY <2>1, <1>11, <1>12, <1>15 DEF At
  <2>3. b \in opened' /\ p # "unopened" /\ p \in Whats
    BY <1>12, <1>13, <1>15, WhatsAre DEF Packets
  <2> QED BY <2>2, <2>3, <1>15, WhatsAre, Arrives
<1>16. ASSUME NEW end \in {"ready", "over"}, r.send = <<>>, NoEvent(b)', place = "event",
              what # "unopened", Doing(b, "none", end)'
       PROVE  Conversing(b)'
  <2>1. injected[b] = <<>> /\ b \notin task /\ asked[b] = "nothing" /\ wire[b] = <<>>
    BY <1>13, <1>16 DEF At
  <2>2. At(b, "none", end)'
    BY <2>1, <1>11, <1>12, <1>16 DEF At
  <2>3. b \in opened' /\ end # "unopened" /\ end \in Whats
    BY <1>12, <1>13, <1>16, WhatsAre
  <2> QED BY <2>2, <2>3, <1>16, WhatsAre, Arrives
<1>17. CASE ~m.waitingOnShardList /\ ~shardList
  <2>1. r.send = <<"shard list">> /\ ~r.done /\ r.threw = {}
        /\ r.m = [m EXCEPT !.waitingOnShardList = TRUE]
    BY <1>2, <1>3, <1>17, <1>4 DEF Outcome
  <2>2. \/ /\ <<place, what>> \in Connecting /\ OnGateway(b) /\ place = "event"
           /\ Hearing(b, what) /\ Fresh(b)
        \/ <<place, what>> = <<"none", "ready">> /\ OnGateway(b) /\ Fresh(b)
    BY <1>12, <1>13, <1>17 DEF Doing, Knows, m
  <2>3. NoEvent(b)' /\ what # "unopened"
    <3>1. CASE <<place, what>> \in Connecting /\ place = "event" /\ Hearing(b, what)
      <4>1. what = "GatewayPatchResponseReceived"
        BY <3>1 DEF Connecting
      <4>2. Pending(b, 1)
        BY <4>1, <3>1 DEF Hearing, Pending, Due
      <4> QED BY <4>1, <4>2, <1>14
    <3>2. CASE <<place, what>> = <<"none", "ready">>
      <4>1. NoEvent(b)
        BY <3>2, <1>13 DEF At
      <4> QED BY <4>1, <3>2, <1>1, <1>8, <1>9, KeepsFacts
    <3> QED BY <3>1, <3>2, <2>2
  <2>4. /\ login'[b].made /\ login'[b].waitingOnShardList /\ ~login'[b].loginRequestSent
        /\ OnGateway(b)'
    <3>1. ~m.loginRequestSent /\ OnGateway(b)
      BY <2>2 DEF Fresh, m
    <3> QED BY <3>1, <2>1, <1>3, <1>7, <1>12 DEF Made
  <2>5. Doing(b, "injected", "shard list")'
    BY <2>4 DEF Doing, Seeking
  <2>6. "shard list" \in Packets
    BY DEF Packets
  <2>7. Conversing(b)'
    BY <2>1, <2>2, <2>3, <2>5, <2>6, <1>15
  <2> QED BY <2>1, <2>7, <1>5, <1>6, <1>7
<1>18. CASE (m.waitingOnShardList \/ shardList) /\ ~Pending(b, 1)
  <2>1. e.of # b \/ e.kind \in {"ReadyForAssignment", "SelfSpawned", "GatewayLoginResponseReceived"}
    BY <1>2, <1>18 DEF Pending, e
  <2>2. /\ r.send = <<>> /\ ~r.done /\ r.threw = {}
        /\ \/ r.m = m
           \/ r.m = [m EXCEPT !.spawned = TRUE]
           \/ r.m = [m EXCEPT !.token = TRUE]
        /\ e.of = b /\ e.kind = "GatewayLoginResponseReceived" /\ ~m.waitingOnShardList
             => r.m.token
    <3>1. CASE e.of # b \/ e.kind = "ReadyForAssignment"
      <4>1. r.m = m /\ r.send = <<>> /\ ~r.done /\ r.threw = {}
        BY <3>1, <1>4, <1>18 DEF Outcome
      <4> QED BY <4>1, <3>1
    <3>2. CASE e.of = b /\ e.kind = "SelfSpawned"
      <4>1. r.m \in {m, [m EXCEPT !.spawned = TRUE]} /\ r.send = <<>> /\ ~r.done /\ r.threw = {}
        BY <3>2, <1>4, <1>18 DEF Outcome
      <4> QED BY <4>1, <3>2
    <3>3. CASE e.of = b /\ e.kind = "GatewayLoginResponseReceived"
      <4>1. /\ r.m = IF m.waitingOnShardList THEN m ELSE [m EXCEPT !.token = TRUE]
            /\ r.send = <<>> /\ ~r.done /\ r.threw = {}
        BY <3>3, <1>4, <1>18 DEF Outcome
      <4>2. [m EXCEPT !.token = TRUE].token
        BY <1>3 DEF Made
      <4> QED BY <4>1, <4>2
    <3> QED BY <3>1, <3>2, <3>3, <2>1
  <2>3. (NoEvent(b) => NoEvent(b)') /\ (\A k : EventIs(b, k) => EventIs(b, k)')
    BY <1>1, <1>8, <1>9, <1>18, KeepsFacts
  <2>4. /\ login'[b].made /\ login'[b].waitingOnShardList = m.waitingOnShardList
        /\ login'[b].loginRequestSent = m.loginRequestSent
        /\ m.token => login'[b].token
    <3>1. login'[b] = r.m
      BY <2>2, <1>7
    <3>2. CASE r.m = m
      BY <3>1, <3>2, <1>3 DEF Made
    <3>3. CASE r.m = [m EXCEPT !.spawned = TRUE]
      BY <3>1, <3>3, <1>3 DEF Made
    <3>4. CASE r.m = [m EXCEPT !.token = TRUE]
      BY <3>1, <3>4, <1>3 DEF Made
    <3> QED BY <3>2, <3>3, <3>4, <2>2
  <2>5. ~m.waitingOnShardList /\ TokenComing(b) => TokenComing(b)'
    <3>1. CASE e.of = b /\ e.kind = "GatewayLoginResponseReceived"
      BY <3>1, <2>2, <1>7 DEF TokenComing
    <3>2. CASE ~(e.of = b /\ e.kind = "GatewayLoginResponseReceived")
      <4>1. ~Due(b, 1) \/ queue[1].kind # "GatewayLoginResponseReceived"
        BY <3>2 DEF Due, e
      <4>2. TokenNext(b) => TokenNext(b)'
        BY <4>1, <1>1, <1>8, <1>9, KeepsFacts
      <4> QED BY <4>2, <2>4 DEF TokenComing, m
    <3> QED BY <3>1, <3>2
  <2>6. MachineStands(b)
    BY <2>4, <2>5 DEF MachineStands, m
  <2>7. ProxyStands(b) /\ BotStands(b)
    BY <2>2, <1>11, <1>12 DEF ProxyStands, BotStands
  <2>8. StillHears(b)
    BY <2>1 DEF StillHears, Hearing, e
  <2>9. Conversing(b)'
    BY <2>3, <2>6, <2>7, <2>8, <1>1, HeardStands
  <2> QED BY <2>2, <2>9, <1>5, <1>6, <1>7
<1>19. CASE (m.waitingOnShardList \/ shardList) /\ Pending(b, 1)
  <2>1. /\ place = "event" /\ e.kind = what /\ e.of = b /\ NoEvent(b)'
    BY <1>14, <1>19 DEF e
  <2>2. what # "SelfSpawned"
    BY <2>1, <1>1, <1>19 DEF Pending, Due, e, Bot
  <2>3. \/ what = "GatewayPatchResponseReceived" /\ OnGateway(b) /\ Fresh(b)
        \/ what = "ShardListReceived" /\ OnGateway(b) /\ m.waitingOnShardList
           /\ ~m.loginRequestSent /\ shardList
        \/ what = "IbuvChallengeReceived" /\ OnGateway(b) /\ Knows(b)
        \/ what = "ConnectedToAgentServer" /\ toAgent[b] /\ Knows(b) /\ TokenComing(b)
           /\ conn[b] = "agent"
        \/ what \in {"ServerAuthSuccess", "CharacterListReceived", "EntityBodyStateChanged"}
           /\ toAgent[b] /\ conn[b] = "agent" /\ Knows(b)
    BY <2>1, <2>2, <1>12, <1>13
       DEF Doing, Connecting, Seeking, LoggingIn, Changing, Entering, m
  <2>4. CASE what = "GatewayPatchResponseReceived"
    <3>1. r.m = m /\ r.send = <<>> /\ ~r.done /\ r.threw = {}
      BY <2>1, <2>4, <1>2, <1>3, <1>19, <1>4 DEF Outcome
    <3>2. Doing(b, "none", "ready")'
      BY <3>1, <2>3, <2>4, <1>7, <1>12 DEF Doing, Fresh, m
    <3>3. Conversing(b)'
      BY <3>1, <3>2, <2>1, <2>4, <1>16
    <3> QED BY <3>1, <3>3, <1>5, <1>6, <1>7
  <2>5. CASE what = "ShardListReceived"
    <3>1. /\ r.m = [m EXCEPT !.waitingOnShardList = FALSE, !.loginRequestSent = TRUE]
          /\ r.send = <<"login">> /\ ~r.done /\ r.threw = {}
      BY <2>1, <2>3, <2>5, <1>2, <1>3, <1>19, <1>4 DEF Outcome
    <3>2. login'[b].made /\ ~login'[b].waitingOnShardList
      BY <3>1, <1>3, <1>7 DEF Made
    <3>3. Doing(b, "injected", "login")'
      BY <3>2, <2>3, <2>5, <1>12 DEF Doing, LoggingIn, Knows
    <3>4. "login" \in Packets
      BY DEF Packets
    <3>5. Conversing(b)'
      BY <3>1, <3>3, <3>4, <2>1, <2>5, <1>15
    <3> QED BY <3>1, <3>5, <1>5, <1>6, <1>7
  <2>6. CASE what \in {"IbuvChallengeReceived", "ConnectedToAgentServer", "ServerAuthSuccess",
                       "CharacterListReceived"}
    <3>1. Knows(b) /\ ~m.waitingOnShardList
      BY <2>3, <2>6 DEF Knows, m
    <3>2. what = "ConnectedToAgentServer" => m.token
      <4>1. TokenNext(b) => ~Pending(b, 1)
        BY <1>1, TailEvents DEF TokenNext
      <4> QED BY <4>1, <2>3, <1>19 DEF TokenComing, m
    <3>3. /\ r.m = m /\ ~r.done /\ r.threw = {}
          /\ what = "IbuvChallengeReceived" => r.send = <<"captcha answer">>
          /\ what = "ConnectedToAgentServer" => r.send = <<"auth">>
          /\ what = "ServerAuthSuccess" => r.send = <<"list">>
          /\ what = "CharacterListReceived" => r.send = <<"join">>
      BY <3>1, <3>2, <2>1, <2>6, <1>2, <1>3, <1>19, <1>4 DEF Outcome
    <3>4. Knows(b)'
      BY <3>1, <3>3, <1>7, <1>12 DEF Knows, m
    <3>5. PICK p \in Packets : r.send = <<p>> /\ Doing(b, "injected", p)'
      <4>1. /\ what = "IbuvChallengeReceived" => Doing(b, "injected", "captcha answer")'
            /\ what = "ConnectedToAgentServer" => Doing(b, "injected", "auth")'
            /\ what = "ServerAuthSuccess" => Doing(b, "injected", "list")'
            /\ what = "CharacterListReceived" => Doing(b, "injected", "join")'
        BY <3>4, <2>3, <1>12 DEF Doing, LoggingIn, Entering
      <4>2. {"captcha answer", "auth", "list", "join"} \subseteq Packets
        BY DEF Packets
      <4> QED BY <4>1, <4>2, <3>3, <2>6
    <3>6. Conversing(b)'
      BY <3>5, <2>1, <2>6, <1>15
    <3> QED BY <3>3, <3>6, <1>5, <1>6, <1>7
  <2>7. CASE what = "EntityBodyStateChanged"
    <3>1. /\ r.m = m /\ r.send = <<>> /\ (m.spawned => b \in self) => r.threw = {}
      BY <2>1, <2>7, <1>2, <1>3, <1>19, <1>4 DEF Outcome
    <3>2. r.m = m /\ r.send = <<>>
      BY <2>1, <2>7, <1>2, <1>3, <1>19, <1>4 DEF Outcome
    <3>3. r.threw = {}
      BY <3>1, <3>2, <1>1 DEF InOrder, m
    <3>4. login'[b].made => shardList'
      BY <2>3, <2>7, <1>12 DEF Knows
    <3>5. Doing(b, "none", "over")'
      BY <3>4, <1>12 DEF Doing
    <3>6. Conversing(b)'
      BY <3>2, <3>5, <2>1, <2>7, <1>16
    <3> QED BY <3>3, <3>6, <1>5, <1>6, <1>7
  <2> QED BY <2>3, <2>4, <2>5, <2>6, <2>7
<1> QED BY <1>17, <1>18, <1>19

-----------------------------------------------------------------------------
(* The order of the stages.                                                *)

Late == {"stand by", "second dummy", "done"}

LEMMA OrderStands ==
  ASSUME NEW b \in Bot, InOrder(b),
         login'[b] = login[b], b \in loggedIn' <=> b \in loggedIn, b \in self' <=> b \in self,
         pvpManager'[b] = "none" <=> pvpManager[b] = "none", b \in readyToLogin => b \in readyToLogin',
         Created(b) => Created(b)', pc \in Late => pc' \in Late,
         b \in opened' <=> (pc' = "connect" => b < next'),
         \A k : Hearing(b, k)' => Hearing(b, k)
  PROVE  InOrder(b)'
BY DEF InOrder, Late

LEMMA ThreadOrder ==
  ASSUME SessionsInv, Thread, Shapes'
  PROVE  ThreadInv' /\ NothingLost' /\ \A b \in Bot : InOrder(b)'
<1>1. Shapes /\ ThreadInv /\ NothingLost /\ next \in Bot /\ queue \in Seq(EventSet)
      /\ \A b \in Bot : Conversing(b) /\ InOrder(b)
  BY DEF SessionsInv, Shapes, QueueShape
<1>2. ASSUME UNCHANGED broker, NEW b, NEW k PROVE Hearing(b, k)' => Hearing(b, k)
  BY <1>2 DEF Hearing, broker
<1>3. CASE Connect
  <2>1. /\ pc = "connect" /\ opened' = opened \cup {next}
        /\ UNCHANGED <<idsSaved, bots, broker, lost, errors>>
        /\ \/ next < Bots /\ next' = next + 1 /\ pc' = pc
           \/ next = Bots /\ next' = 1 /\ pc' = "await clients"
    BY <1>1, <1>3, Advances DEF Connect, Stages
  <2>2. ASSUME NEW b \in Bot PROVE b \in opened' <=> (pc' = "connect" => b < next')
    <3>1. b \in opened <=> b < next
      BY <2>1, <1>1 DEF InOrder
    <3>2. CASE next < Bots /\ next' = next + 1 /\ pc' = pc
      <4>1. b \in Nat /\ next \in Nat /\ next' = next + 1
        BY <3>2, <1>1 DEF Bot
      <4>2. (b < next \/ b = next) <=> b < next'
        BY ONLY <4>1
      <4> QED BY <4>2, <3>1, <3>2, <2>1
    <3>3. CASE next = Bots /\ next' = 1 /\ pc' = "await clients"
      <4>a. next = Bots
        BY <3>3
      <4>b. b \in Nat /\ b <= Bots /\ Bots \in Nat
        BY DEF Bot
      <4>1. b < next \/ b = next
        BY ONLY <4>a, <4>b
      <4> QED BY <4>1, <3>1, <3>3, <2>1
    <3> QED BY <3>2, <3>3, <2>1
  <2>3. ASSUME NEW b \in Bot PROVE InOrder(b)'
    <3>1. ~Created(b) /\ pc \notin Late
      BY <2>1 DEF Created, Late
    <3>2. login' = login /\ loggedIn' = loggedIn /\ self' = self /\ pvpManager' = pvpManager
          /\ readyToLogin' = readyToLogin
      BY <2>1 DEF bots
    <3> QED BY <3>1, <3>2, <2>1, <2>2, <1>1, <1>2, OrderStands
  <2>4. ThreadInv' /\ NothingLost'
    BY <2>1, <1>1 DEF ThreadInv, NothingLost
  <2> QED BY <2>3, <2>4
<1>4. CASE AwaitClients
  <2>1. /\ pc = "await clients" /\ readyToLogin = Bot /\ pc' = "log in"
        /\ UNCHANGED <<next, opened, bots, broker, lost, errors>>
    BY <1>4 DEF AwaitClients
  <2>2. ASSUME NEW b \in Bot PROVE InOrder(b)'
    <3>1. ~Created(b) /\ pc \notin Late /\ b \in opened
      BY <2>1, <1>1 DEF Created, Late, InOrder
    <3>2. login' = login /\ loggedIn' = loggedIn /\ self' = self /\ pvpManager' = pvpManager
          /\ readyToLogin' = readyToLogin
      BY <2>1 DEF bots
    <3> QED BY <3>1, <3>2, <2>1, <1>1, <1>2, OrderStands
  <2>3. ThreadInv' /\ NothingLost'
    BY <2>1, <1>1 DEF ThreadInv, NothingLost, bots
  <2> QED BY <2>2, <2>3
<1>5. CASE AsyncLogIn
  <2>1. /\ pc = "log in"
        /\ UNCHANGED <<idsSaved, opened, readyToLogin, loggedIn, self, pvpManager, broker, lost>>
        /\ \/ next < Bots /\ next' = next + 1 /\ pc' = pc
           \/ next = Bots /\ next' = 1 /\ pc' = "first dummy"
    BY <1>1, <1>5, Advances DEF AsyncLogIn, Stages
  <2>2. ASSUME NEW b \in Bot, Created(b) \/ b = next PROVE Created(b)'
    <3>1. b < next \/ b = next
      BY <2>1, <2>2 DEF Created
    <3>2. CASE next < Bots /\ next' = next + 1 /\ pc' = pc
      <4>1. b \in Nat /\ next \in Nat /\ next' = next + 1
        BY <3>2, <1>1 DEF Bot
      <4>2. b < next'
        BY ONLY <4>1, <3>1
      <4> QED BY <4>2, <3>2, <2>1 DEF Created
    <3>3. CASE pc' = "first dummy"
      BY <3>3 DEF Created
    <3> QED BY <3>2, <3>3, <2>1
  <2>3. next \notin self /\ next \notin loggedIn
    <3>1. ~(next < next)
      BY <1>1 DEF Bot
    <3>2. ~Created(next)
      BY <3>1, <2>1 DEF Created
    <3> QED BY <3>2, <1>1 DEF InOrder
  <2>4. login' = [login EXCEPT ![next] = NewLogin] /\ errors' = errors
    BY <2>3, <1>5 DEF AsyncLogIn
  <2>5. ASSUME NEW b \in Bot PROVE InOrder(b)'
    <3>1. b \in opened' <=> (pc' = "connect" => b < next')
      BY <2>1, <1>1 DEF InOrder
    <3>2. pc \notin Late
      BY <2>1 DEF Late
    <3>3. CASE b # next
      <4>1. login'[b] = login[b]
        BY <3>3, <2>4, <1>1 DEF Shapes
      <4> QED BY <4>1, <3>1, <3>2, <2>1, <2>2, <1>1, <1>2, OrderStands
    <3>4. CASE b = next
      <4>1. login'[b] = NewLogin
        BY <3>4, <2>4, <1>1 DEF Shapes
      <4>2. Created(b)'
        BY <3>4, <2>2
      <4>3. \A k : Hearing(b, k)' => Hearing(b, k)
        BY <2>1, <1>2
      <4>4. pvpManager'[b] = "none"
        BY <3>2, <2>1, <1>1 DEF InOrder, Late
      <4>5. /\ login'[b].made /\ ~login'[b].spawned
            /\ b \notin loggedIn'
            /\ b \in readyToLogin' <=> b \in readyToLogin
            /\ b \in self' <=> b \in self
        <5>1. login'[b].made /\ ~login'[b].spawned
          BY <4>1 DEF NewLogin
        <5>2. b \notin loggedIn
          BY <3>4, <2>3
        <5>3. loggedIn' = loggedIn /\ readyToLogin' = readyToLogin /\ self' = self
          BY <2>1
        <5> QED BY <5>1, <5>2, <5>3
      <4>6. /\ Hearing(b, "SelfSpawned")' => b \in self'
            /\ Hearing(b, "GatewayPatchResponseReceived")' => b \in readyToLogin'
        BY <4>3, <4>5, <1>1 DEF InOrder
      <4> QED BY <4>2, <4>4, <4>5, <4>6, <3>1 DEF InOrder
    <3> QED BY <3>3, <3>4
  <2>6. ThreadInv' /\ NothingLost'
    BY <2>1, <2>4, <1>1 DEF ThreadInv, NothingLost
  <2> QED BY <2>5, <2>6
<1>6. CASE PublishDummy
  <2>1. /\ \/ pc = "first dummy" /\ pc' = "await logins"
           \/ pc = "second dummy" /\ pc' = "done"
        /\ UNCHANGED <<next, idsSaved, opened, bots, turn, half, lost, errors>>
        /\ queue' = Append(queue, Event("Dummy", 0))
    BY <1>6 DEF PublishDummy
  <2>2. \A b, k : Hearing(b, k)' => Hearing(b, k)
    <3>1. half = "login" => 1 \in DOMAIN queue /\ queue # <<>>
      <4>1. half = "login" => queue # <<>>
        BY <1>1 DEF Shapes, QueueShape
      <4>2. queue # <<>> => 1 \in DOMAIN queue
        BY <1>1, TailEvents
      <4> QED BY <4>1, <4>2
    <3>2. Event("Dummy", 0) \in EventSet
      BY KindsAre DEF Event, EventSet
    <3>3. \A i \in DOMAIN queue : queue'[i] = queue[i]
      <4>1. \A i \in DOMAIN queue : Append(queue, Event("Dummy", 0))[i] = queue[i]
        BY <3>2, <1>1, AppendEvents
      <4> QED BY <4>1, <2>1
    <3> QED BY <3>1, <3>3, <2>1 DEF Hearing
  <2>3. ASSUME NEW b \in Bot PROVE InOrder(b)'
    <3>1. login' = login /\ loggedIn' = loggedIn /\ self' = self /\ pvpManager' = pvpManager
          /\ readyToLogin' = readyToLogin
      BY <2>1 DEF bots
    <3>2. /\ Created(b) => Created(b)'
          /\ pc \in Late => pc' \in Late
          /\ b \in opened' <=> (pc' = "connect" => b < next')
      BY <2>1, <1>1 DEF Created, Late, InOrder
    <3> QED BY <3>1, <3>2, <2>2, <1>1, OrderStands
  <2>4. ThreadInv' /\ NothingLost'
    BY <2>1, <1>1 DEF ThreadInv, NothingLost, bots
  <2> QED BY <2>3, <2>4
<1>7. CASE AwaitLogins
  <2>1. /\ pc = "await logins" /\ loggedIn = Bot /\ idsSaved' = TRUE /\ pc' = "stand by"
        /\ UNCHANGED <<next, opened, bots, broker, lost, errors>>
    BY <1>7 DEF AwaitLogins
  <2>2. ASSUME NEW b \in Bot PROVE InOrder(b)'
    <3>1. login' = login /\ loggedIn' = loggedIn /\ self' = self /\ pvpManager' = pvpManager
          /\ readyToLogin' = readyToLogin
      BY <2>1 DEF bots
    <3>2. /\ Created(b) => Created(b)'
          /\ pc \in Late => pc' \in Late
          /\ b \in opened' <=> (pc' = "connect" => b < next')
      BY <2>1, <1>1 DEF Created, Late, InOrder
    <3> QED BY <3>1, <3>2, <2>1, <1>1, <1>2, OrderStands
  <2>3. ThreadInv' /\ NothingLost'
    BY <2>1, <1>1 DEF ThreadInv, NothingLost, bots
  <2> QED BY <2>2, <2>3
<1>8. CASE AsyncStandbyForPvp
  <2>1. /\ pc = "stand by" /\ pvpManager' = [pvpManager EXCEPT ![next] = "made"]
        /\ UNCHANGED <<idsSaved, opened, readyToLogin, loggedIn, self, login, broker, lost, errors>>
        /\ pc' = pc \/ pc' = "second dummy"
    BY <1>8 DEF AsyncStandbyForPvp, Advance
  <2>2. ASSUME NEW b \in Bot PROVE InOrder(b)'
    <3>1. Created(b)' /\ pc' \in Late /\ b \in opened'
      BY <2>1, <1>1 DEF Created, Late, InOrder
    <3>2. \A k : Hearing(b, k)' => Hearing(b, k)
      BY <2>1, <1>2
    <3> QED BY <3>1, <3>2, <2>1, <1>1 DEF InOrder, Late
  <2>3. ThreadInv' /\ NothingLost'
    BY <2>1, <1>1 DEF ThreadInv, NothingLost
  <2> QED BY <2>2, <2>3
<1> QED BY <1>3, <1>4, <1>5, <1>6, <1>7, <1>8, <1>1 DEF Thread

LEMMA HandleOrder ==
  ASSUME SessionsInv, Handle, Shapes'
  PROVE  ThreadInv' /\ NothingLost' /\ \A b \in Bot : InOrder(b)'
<1>1. Shapes /\ ThreadInv /\ NothingLost /\ queue # <<>> /\ half = "handle" /\ turn \in Bot
      /\ \A b \in Bot : Conversing(b) /\ InOrder(b)
  BY DEF SessionsInv, Shapes, QueueShape, Handle
<1>2. 1 \in DOMAIN queue /\ Head(queue) = queue[1]
      /\ (queue[1].of = turn /\ queue[1].kind # "ReadyForAssignment" => Due(turn, 1))
  BY <1>1, FirstEvent
<1>3. /\ readyToLogin' = IF queue[1].kind = "GatewayPatchResponseReceived" /\ queue[1].of = turn
                         THEN readyToLogin \cup {turn} ELSE readyToLogin
      /\ self' = IF queue[1].kind = "SelfSpawned" /\ queue[1].of = turn
                 THEN self \cup {turn} ELSE self
      /\ half' = "handle" \/ (half' = "login" /\ UNCHANGED <<queue, turn>>)
      /\ UNCHANGED <<thread, opened, loggedIn, login, pvpManager, lost>>
  BY <1>2 DEF Handle, NextTurn
<1>4. errors' = errors
  <2>1. 1 \in Bot
    BY DEF Bot
  <2> QED BY <2>1, HandleConverses
<1>5. ASSUME queue[1].kind = "SelfSpawned", queue[1].of = turn PROVE Created(turn)
  <2>1. Pending(turn, 1)
    BY <1>2, <1>5 DEF Pending
  <2>2. PICK place \in Places, what \in Whats : At(turn, place, what) /\ Doing(turn, place, what)
    BY <1>1 DEF Conversing
  <2>3. place = "event" /\ what = "SelfSpawned"
    BY <2>1, <2>2, <1>2, <1>5, PlaceOf
  <2>4. login[turn].made
    BY <2>2, <2>3 DEF Doing, Connecting, Seeking, LoggingIn, Changing, Entering, Knows
  <2> QED BY <2>4, <1>1 DEF InOrder
<1>6. ASSUME NEW b \in Bot PROVE InOrder(b)'
  <2>1. Created(b)' <=> Created(b)
    BY <1>3 DEF Created, thread
  <2>2. /\ b \in self => b \in self'
        /\ b \in self' => b \in self \/ Created(b)
        /\ b \in readyToLogin => b \in readyToLogin'
    BY <1>3, <1>5
  <2>3. /\ Hearing(b, "SelfSpawned")' => b \in self'
        /\ Hearing(b, "GatewayPatchResponseReceived")' => b \in readyToLogin'
    BY <1>3 DEF Hearing
  <2>4. login' = login /\ loggedIn' = loggedIn /\ pvpManager' = pvpManager /\ opened' = opened /\ pc' = pc
        /\ next' = next
    BY <1>3 DEF thread
  <2> QED BY <2>1, <2>2, <2>3, <2>4, <1>1 DEF InOrder
<1>7. ThreadInv'
  <2>1. readyToLogin \subseteq readyToLogin' /\ readyToLogin' \subseteq Bot
    BY <1>3 DEF Shapes
  <2> QED BY <2>1, <1>1, <1>3 DEF ThreadInv, thread
<1> QED BY <1>1, <1>3, <1>4, <1>6, <1>7 DEF NothingLost

LEMMA UpdateOrder ==
  ASSUME SessionsInv, Update, Shapes'
  PROVE  ThreadInv' /\ NothingLost' /\ \A b \in Bot : InOrder(b)'
<1>1. Shapes /\ ThreadInv /\ NothingLost /\ queue # <<>> /\ half = "login" /\ turn \in Bot
      /\ \A b \in Bot : InOrder(b)
  BY DEF SessionsInv, Shapes, QueueShape, Update
<1>2. /\ UNCHANGED <<thread, opened, readyToLogin, self, pvpManager, lost>> /\ half' # "login"
      /\ loggedIn' = loggedIn \/ loggedIn' = loggedIn \cup {turn}
  BY DEF Update, NextTurn
<1>3. /\ pc' = pc /\ next' = next /\ \A b : (Created(b)' <=> Created(b)) /\ \A k : ~Hearing(b, k)'
  BY <1>2 DEF thread, Created, Hearing
<1>4. ASSUME NEW b \in Bot PROVE InOrder(b)'
  <2>1. CASE b # turn
    <3>1. login'[b] = login[b]
      BY <2>1, UpdateOthers
    <3>2. b \in opened' <=> (pc' = "connect" => b < next')
      BY <1>1, <1>2, <1>3 DEF InOrder
    <3> QED BY <3>1, <3>2, <2>1, <1>1, <1>2, <1>3, OrderStands
  <2>2. CASE b = turn /\ ~login[b].made
    <3>1. login' = login /\ loggedIn' = loggedIn
      BY <2>2, UpdateNothing
    <3>2. b \in opened' <=> (pc' = "connect" => b < next')
      BY <1>1, <1>2, <1>3 DEF InOrder
    <3> QED BY <3>1, <3>2, <1>1, <1>2, <1>3, OrderStands
  <2>3. CASE b = turn /\ login[b].made
    <3> DEFINE r == UpdateLogin(b, login[b], queue[1])
    <3>1. /\ r.done => b \in self
          /\ login'[b] = IF r.done THEN NoMachine ELSE r.m
          /\ loggedIn' = IF r.done THEN loggedIn \cup {b} ELSE loggedIn
      BY <2>3, UpdateMade
    <3>2. r.m.spawned => login[b].spawned \/ (queue[1].of = b /\ queue[1].kind = "SelfSpawned")
      <4>1. login[b] \in Made
        <5>1. login[b] \in Machine
          BY <1>1 DEF Shapes
        <5> QED BY <5>1, <2>3 DEF Machine, NoMachine
      <4>2. queue[1] \in EventSet
        BY <1>1, FirstEvent
      <4>3. Outcome(b, login[b], queue[1], r)
        BY <4>1, <4>2, UpdateCases
      <4> HIDE DEF r
      <4> QED BY <4>3 DEF Outcome
    <3> HIDE DEF r
    <3>3. r.m.spawned => b \in self
      BY <3>2, <2>3, <1>1 DEF InOrder, Hearing
    <3>4. b \notin loggedIn /\ Created(b)
      BY <2>3, <1>1 DEF InOrder
    <3>5. ~NoMachine.made
      BY DEF NoMachine
    <3>6. /\ self' = self /\ pvpManager' = pvpManager /\ opened' = opened /\ Created(b)'
      BY <3>4, <1>2, <1>3
    <3> QED BY <3>1, <3>3, <3>4, <3>5, <3>6, <1>1, <1>3 DEF InOrder
  <2> QED BY <2>1, <2>2, <2>3
<1>5. errors' = errors
  <2>1. CASE ~login[turn].made
    BY <2>1, <1>1, UpdateNothing
  <2>2. CASE login[turn].made
    BY <2>2, <1>1, UpdateMade
  <2> QED BY <2>1, <2>2
<1>6. ThreadInv'
  <2>1. loggedIn \subseteq loggedIn' /\ loggedIn' \subseteq Bot
    BY <1>2 DEF Shapes
  <2> QED BY <2>1, <1>1, <1>2 DEF ThreadInv, thread
<1> QED BY <1>1, <1>2, <1>4, <1>5, <1>6 DEF NothingLost

(* A step that leaves the training thread and the bots alone.              *)
LEMMA ProxyOrder ==
  ASSUME SessionsInv, UNCHANGED <<thread, opened, readyToLogin, loggedIn, self, login, lost, errors>>,
         \A b \in Bot : pvpManager'[b] = "none" <=> pvpManager[b] = "none",
         UNCHANGED broker \/ half' = "handle"
  PROVE  ThreadInv' /\ NothingLost' /\ \A b \in Bot : InOrder(b)'
<1>1. ThreadInv /\ NothingLost /\ \A b \in Bot : InOrder(b)
  BY DEF SessionsInv
<1>2. ASSUME NEW b \in Bot PROVE InOrder(b)'
  <2>1. \A k : Hearing(b, k)' => Hearing(b, k)
    BY DEF Hearing, broker
  <2>2. /\ Created(b) => Created(b)'
        /\ pc' = pc /\ (b \in opened' <=> (pc' = "connect" => b < next'))
    BY <1>1 DEF Created, InOrder, thread
  <2> QED BY <2>1, <2>2, <1>1, OrderStands
<1>3. ThreadInv' /\ NothingLost'
  BY <1>1 DEF ThreadInv, NothingLost, thread
<1> QED BY <1>2, <1>3

-----------------------------------------------------------------------------
(* The invariant, and what follows from it.                                *)

LEMMA SessInit ==
  ASSUME SessionsInit
  PROVE  SessionsInv
<1>1. Shapes
  <2>1. 1 \in Bot
    BY DEF Bot
  <2>2. <<>> \in Seq(Packets) /\ <<>> \in Seq(Replies) /\ <<>> \in Seq(EventSet)
    OBVIOUS
  <2>3. QueueShape
    BY <2>1, <2>2 DEF SessionsInit, QueueShape
  <2>4. /\ login \in [Bot -> Machine] /\ pvpManager \in [Bot -> {"none", "made", "published"}]
        /\ toAgent \in [Bot -> BOOLEAN] /\ conn \in [Bot -> {"none", "gateway", "agent"}]
        /\ injected \in [Bot -> Seq(Packets)] /\ wire \in [Bot -> Seq(Replies)]
        /\ asked \in [Bot -> Packets \cup {"nothing"}]
    BY <2>2 DEF SessionsInit, Machine
  <2> QED BY <2>1, <2>3, <2>4 DEF SessionsInit, Shapes, Stages
<1>2. ASSUME NEW b \in Bot PROVE Conversing(b)
  <2>1. At(b, "none", "unopened")
    BY DEF SessionsInit, At, NoEvent
  <2>2. Doing(b, "none", "unopened") /\ b \notin opened
    BY DEF SessionsInit, Doing
  <2> QED BY <2>1, <2>2, WhatsAre DEF Conversing
<1>3. ASSUME NEW b \in Bot PROVE InOrder(b)
  BY DEF SessionsInit, InOrder, Hearing, NoMachine, Bot
<1>4. ThreadInv /\ NothingLost
  BY DEF SessionsInit, ThreadInv, NothingLost
<1> QED BY <1>1, <1>2, <1>3, <1>4 DEF SessionsInv

LEMMA SessStep ==
  ASSUME SessionsInv, SessionsNext
  PROVE  SessionsInv'
<1>1. Shapes'
  BY ShapesKept DEF SessionsInv
<1>2. CASE Thread
  BY <1>1, <1>2, ThreadConverses, ThreadOrder DEF SessionsInv
<1>3. CASE Handle
  BY <1>1, <1>3, HandleConverses, HandleOrder DEF SessionsInv
<1>4. CASE Update
  <2>1. ASSUME NEW b \in Bot PROVE Conversing(b)'
    <3>1. CASE b # turn
      BY <3>1, <1>4, UpdateOthers
    <3>2. CASE b = turn /\ ~login[b].made
      BY <3>2, <1>4, UpdateNothing
    <3>3. CASE b = turn /\ login[b].made
      BY <3>3, <1>4, UpdateMade
    <3> QED BY <3>1, <3>2, <3>3
  <2> QED BY <2>1, <1>1, <1>4, UpdateOrder DEF SessionsInv
<1>5. CASE UpdatePvp
  <2>1. \A b \in Bot : pvpManager'[b] = "none" <=> pvpManager[b] = "none"
    BY <1>5 DEF UpdatePvp, SessionsInv, Shapes
  <2>2. UNCHANGED <<thread, opened, readyToLogin, loggedIn, self, login, lost, errors>>
        /\ half' = "handle"
    BY <1>5 DEF UpdatePvp
  <2>3. ThreadInv' /\ NothingLost' /\ \A b \in Bot : InOrder(b)'
    BY <2>1, <2>2, ProxyOrder
  <2> QED BY <2>3, <1>1, <1>5, UpdatePvpConverses DEF SessionsInv
<1>6. ASSUME NEW s \in Bot, Proxy(s) \/ Answer(s) PROVE SessionsInv'
  <2>1. \A b \in Bot : Conversing(b)'
    BY <1>6, ConnectClientlessConverses, ReceiveFromClientConverses, ReceiveFromServerConverses,
       AnswerConverses DEF Proxy
  <2>2. lost' = lost
    <3>1. CASE ReceiveFromClient(s)
      <4>1. conn[s] # "none"
        BY <3>1, <1>6, ReceiveFromClientConverses
      <4> QED BY <4>1, <3>1 DEF ReceiveFromClient
    <3>2. CASE ConnectClientless(s) \/ ReceiveFromServer(s) \/ Answer(s)
      BY <3>2 DEF ConnectClientless, ReceiveFromServer, Answer
    <3> QED BY <3>1, <3>2, <1>6 DEF Proxy
  <2>3. UNCHANGED <<thread, opened, bots, errors>> /\ (UNCHANGED broker \/ half' = "handle")
    BY <1>6 DEF Proxy, ConnectClientless, ReceiveFromClient, ReceiveFromServer, Answer,
                WorldIsFree
  <2>4. ThreadInv' /\ NothingLost' /\ \A b \in Bot : InOrder(b)'
    BY <2>2, <2>3, ProxyOrder DEF bots
  <2> QED BY <2>1, <2>4, <1>1 DEF SessionsInv
<1> QED BY <1>2, <1>3, <1>4, <1>5, <1>6 DEF SessionsNext, Deliver

LEMMA SessStutter ==
  ASSUME SessionsInv, UNCHANGED sessionsVars
  PROVE  SessionsInv'
<1>1. Shapes /\ \A b \in Bot : Conversing(b)
  BY DEF SessionsInv
<1>2. UNCHANGED <<thread, opened, bots, shardList, proxy, server, broker, lost, errors>>
  BY DEF sessionsVars
<1>3. Shapes'
  BY <1>1, ShapesKept
<1>4. ASSUME NEW b \in Bot PROVE Conversing(b)'
  <2>1. EventsStand(b) /\ StillHears(b)
    BY <1>1, <1>2, EventsStay
  <2>2. ProxyStands(b)
    BY <1>2 DEF ProxyStands, proxy, server
  <2> QED BY <2>1, <2>2, <1>1, <1>2, OthersStand
<1>5. ThreadInv' /\ NothingLost' /\ \A b \in Bot : InOrder(b)'
  BY <1>2, ProxyOrder DEF bots
<1> QED BY <1>3, <1>4, <1>5 DEF SessionsInv

LEMMA SessInvariance == SessionsSpec => []SessionsInv
<1>1. SessionsInv /\ [SessionsNext]_sessionsVars => SessionsInv'
  BY SessStep, SessStutter
<1> QED BY SessInit, <1>1, PTL DEF SessionsSpec

LEMMA AtMostOne ==
  ASSUME NEW S, NEW x, S \subseteq {x}
  PROVE  Cardinality(S) \in 0..1
<1>1. CASE S = {}
  BY <1>1, FS_EmptySet
<1>2. CASE S = {x}
  <2>1. Cardinality({x}) = 1
    BY FS_Singleton
  <2> QED BY <2>1, <1>2
<1> QED BY <1>1, <1>2

(* A session at one place of its conversation has one thing under way.     *)
LEMMA OneThing ==
  ASSUME SessionsInv
  PROVE  OneThingAtATime
<1> SUFFICES ASSUME NEW s \in Bot PROVE InFlight(s) <= 1
  BY DEF OneThingAtATime
<1> DEFINE sent == {i \in DOMAIN wire[s] : wire[s][i] # "state request" \/ ~toAgent[s]}
<1>1. PICK place \in Places, what \in Whats : At(s, place, what) /\ Doing(s, place, what)
  BY DEF SessionsInv, Conversing
<1>2. Len(injected[s]) = IF place = "injected" THEN 1 ELSE 0
  BY <1>1 DEF At
<1>3. (IF asked[s] = "nothing" THEN 0 ELSE 1) \in 0..(IF place = "asked" THEN 1 ELSE 0)
  <2>1. place # "asked" => asked[s] = "nothing"
    BY <1>1 DEF At
  <2> QED BY <2>1
<1>4. (IF s \in task THEN 1 ELSE 0) = IF place = "task" THEN 1 ELSE 0
  BY <1>1 DEF At
<1>5. Cardinality(sent) \in 0..(IF place = "wire" THEN 1 ELSE 0)
  <2>1. CASE wire[s] = <<>>
    <3>1. sent = {}
      BY <2>1
    <3>2. Cardinality(sent) = 0
      BY <3>1, FS_EmptySet
    <3> HIDE DEF sent
    <3> QED BY <3>2
  <2>2. CASE place = "wire" /\ wire[s] = <<what>>
    <3>0. DOMAIN wire[s] = {1}
      <4>1. DOMAIN <<what>> = {1}
        OBVIOUS
      <4> QED BY <4>1, <2>2
    <3>1. sent \subseteq {1}
      BY <3>0
    <3> HIDE DEF sent
    <3> QED BY <3>1, <2>2, AtMostOne
  <2>3. CASE place = "wire" /\ what = "identify" /\ wire[s] = <<"state request", "identify">>
    <3>1. toAgent[s]
      BY <2>3, <1>1 DEF Doing, Connecting, Seeking, LoggingIn, Changing, Entering
    <3>2. DOMAIN wire[s] = {1, 2} /\ wire[s][1] = "state request"
      <4>1. /\ DOMAIN <<"state request", "identify">> = {1, 2}
            /\ <<"state request", "identify">>[1] = "state request"
        OBVIOUS
      <4> QED BY <4>1, <2>3
    <3>3. sent \subseteq {2}
      BY <3>1, <3>2
    <3> HIDE DEF sent
    <3> QED BY <3>3, <2>3, AtMostOne
  <2> QED BY <2>1, <2>2, <2>3, <1>1 DEF At
<1>6. Cardinality(Untold(s)) \in 0..(IF place = "event" THEN 1 ELSE 0)
  <2>1. \A i \in Untold(s) : i \in DOMAIN queue /\ Pending(s, i)
    BY DEF Untold, Pending, Due
  <2>2. CASE place = "event"
    <3>1. PICK i \in DOMAIN queue : \A j \in DOMAIN queue : Pending(s, j) => j = i
      BY <2>2, <1>1 DEF At, EventIs
    <3>2. Untold(s) \subseteq {i}
      BY <3>1, <2>1
    <3> QED BY <3>2, <2>2, AtMostOne
  <2>3. CASE place # "event"
    <3>1. Untold(s) = {}
      BY <2>1, <2>3, <1>1 DEF At, NoEvent
    <3> QED BY <3>1, <2>3, FS_EmptySet
  <2> QED BY <2>2, <2>3
<1>7. InFlight(s) = Len(injected[s]) + (IF asked[s] = "nothing" THEN 0 ELSE 1)
                    + (IF s \in task THEN 1 ELSE 0) + Cardinality(sent) + Cardinality(Untold(s))
  BY DEF InFlight
<1> HIDE DEF sent
<1> QED BY <1>2, <1>3, <1>4, <1>5, <1>6, <1>7

LEMMA SessTyped ==
  ASSUME Shapes
  PROVE  SessionsTypeOK
<1>1. queue \in Seq(EventSet) /\ turn \in Bot /\ half \in {"handle", "login", "pvp"}
  BY DEF Shapes, QueueShape
<1>2. \A i \in DOMAIN queue : queue[i].kind \in Kinds /\ queue[i].of \in 0..Bots
  <2>1. \A i \in DOMAIN queue : queue[i] \in EventSet
    BY <1>1
  <2> QED BY <2>1 DEF EventSet
<1>3. ASSUME NEW b \in Bot PROVE \A i \in DOMAIN injected[b] : injected[b][i] \in Packets
  <2>1. injected[b] \in Seq(Packets)
    BY DEF Shapes
  <2> QED BY <2>1
<1>4. \A b \in Bot : /\ conn[b] \in {"none", "gateway", "agent"}
                     /\ pvpManager[b] \in {"none", "made", "published"}
                     /\ asked[b] \in Packets \cup {"nothing"}
  BY DEF Shapes
<1> QED BY <1>1, <1>2, <1>3, <1>4 DEF Shapes, SessionsTypeOK

(* All that run sessions_login checks of a state: the types, one thing at  *)
(* a time with every server, and the stages of createSessions in order,    *)
(* for any number of sessions and whatever the servers refuse.             *)
THEOREM SessionsConsistentAlways == SessionsSpec => []SessionsConsistent
<1>1. SessionsInv => SessionsConsistent
  <2> SUFFICES ASSUME SessionsInv PROVE SessionsConsistent
    OBVIOUS
  <2>1. SessionsTypeOK /\ OneThingAtATime
    BY SessTyped, OneThing DEF SessionsInv
  <2>2. ASSUME NEW b \in Bot, login[b].made PROVE readyToLogin = Bot
    BY <2>2 DEF SessionsInv, InOrder, Created, ThreadInv
  <2>3. ASSUME NEW b \in Bot
        PROVE  /\ b \in loggedIn => ~login[b].made /\ b \in self
               /\ pvpManager[b] # "none" => loggedIn = Bot /\ idsSaved
    BY DEF SessionsInv, InOrder, ThreadInv
  <2>4. StagesInOrder
    BY <2>2, <2>3 DEF StagesInOrder
  <2> QED BY <2>1, <2>4 DEF SessionsConsistent
<1> QED BY SessInvariance, <1>1, PTL

(* No packet of a login is injected while its proxy has no connection, and *)
(* no bot throws, however the threads of the sessions interleave.          *)
THEOREM NothingLostAlways == SessionsSpec => []NothingLost
<1>1. SessionsInv => NothingLost
  BY DEF SessionsInv
<1> QED BY SessInvariance, <1>1, PTL
=============================================================================
