-------------------------- MODULE ExperienceReplay --------------------------
(***************************************************************************)
(* How experience reaches training in bot/src/rl: the timer thread reports *)
(* observations (TrainingManager::reportObservationAndAction) while the    *)
(* training thread samples transitions, trains on them and writes back     *)
(* their TD errors as priorities (TrainingManager::train).  They share the *)
(* ObservationAndActionStorage and the ReplayBuffer, here a PriorityPool,  *)
(* under replayBufferAndStorageMutex_, which training gives up between     *)
(* sampling and writing back.  A report is a step per call it makes.       *)
(*                                                                         *)
(* A transition is named by its successor observation, and a priority by   *)
(* the observation whose TD error it is.                                   *)
(* An operator Op_Name is Op with one plausible bug and is never used.     *)
(***************************************************************************)
EXTENDS Integers, Sequences, FiniteSets, FiniteSetsExt

CONSTANTS
  TransitionId,        \* the ids of the replay buffer
  LeftmostLeaf,        \* the id at the end of the sum tree's way for the value 0
  StorageCapacity,     \* capacity_ of the storage
  kTdLookahead,
  kBatchSize,
  kReplayBufferMinimumBeforeTraining,
  kPvpCount,           \* how many fights go on at a time
  MaxPvps, MaxObservations

ASSUME ExperienceReplayAssumption ==
  /\ LeftmostLeaf \in TransitionId
  /\ IsFiniteSet(TransitionId)
  /\ StorageCapacity \in 1..Cardinality(TransitionId)
  /\ kTdLookahead \in Nat \ {0}
  /\ kBatchSize \in Nat \ {0}
  /\ kReplayBufferMinimumBeforeTraining \in Nat
  /\ kPvpCount \in Nat
  /\ MaxPvps \in Nat \ {0}
  /\ MaxObservations \in Nat

PvpId == 0..(MaxPvps - 1)
ObservationId == 0..(MaxObservations - 1)

VARIABLES
  \* ObservationAndActionStorage
  storage,        \* idToIndexMap_ and buffer_: the observations stored
  episodes,       \* pvpIdAndIntelligenceNameDeque_, the oldest first
  nextId,         \* nextId_
  \* ReplayBuffer
  priority,           \* the transitions held, each with a priority
  currentBufferSize,  \* currentBufferSize_
  \* TrainingManager
  observationIdToTransitionIdMap,
  transitionIdToObservationIdMap,
  pendingObservations,   \* pendingObservations_
  holdingSample,         \* holdingSample_
  deletedTransitionIds,  \* deletedTransitionIds_
  \* the fights
  pvpCount,     \* how many were begun
  running,      \* those whose actor goes on to report
  \* the report being made
  reportPc,     \* the step it is at
  pvpId,        \* its fight
  isTerminal,   \* whether it has no action
  deletedObservationIds,  \* what the storage evicted and is yet to be handled
  \* the training thread
  trainPc,      \* whether it is training
  sampleResult  \* the ids it sampled, each with the observation it then had

storageVars == <<storage, episodes, nextId>>
bufferVars == <<priority, currentBufferSize>>
mapVars == <<observationIdToTransitionIdMap, transitionIdToObservationIdMap>>
sampleVars == <<holdingSample, deletedTransitionIds>>
fightVars == <<pvpCount, running>>
reportVars == <<reportPc, pvpId, isTerminal, deletedObservationIds>>
trainVars == <<trainPc, sampleResult>>

vars == <<storageVars, bufferVars, mapVars, pendingObservations, sampleVars, fightVars,
          reportVars, trainVars>>

Put(f, x, y) == [z \in DOMAIN f \cup {x} |-> IF z = x THEN y ELSE f[z]]
Erase(f, x) == [z \in DOMAIN f \ {x} |-> f[z]]
Empty == [x \in {} |-> x]

Init ==
  /\ storage = Empty
  /\ episodes = << >>
  /\ nextId = 0
  /\ priority = Empty
  /\ currentBufferSize = 0
  /\ observationIdToTransitionIdMap = Empty
  /\ transitionIdToObservationIdMap = Empty
  /\ pendingObservations = [pvp \in PvpId |-> << >>]
  /\ holdingSample = FALSE
  /\ deletedTransitionIds = {}
  /\ pvpCount = 0
  /\ running = {}
  /\ reportPc = "idle"
  /\ pvpId = 0
  /\ isTerminal = FALSE
  /\ deletedObservationIds = {}
  /\ trainPc = "idle"
  /\ sampleResult = << >>

-----------------------------------------------------------------------------
(* The storage.                                                            *)

Stored == DOMAIN storage
ObservationsOf(pvp, s) == {id \in DOMAIN s : s[id].pvpId = pvp}

hasPrevious(id) == storage[id].actionIndex > 0

(* The observation of the same fight at an offset from this one.           *)
Neighbours(id, offset) ==
  {n \in Stored : /\ storage[n].pvpId = storage[id].pvpId
                  /\ storage[n].actionIndex = storage[id].actionIndex + offset}

(* At capacity the whole of the oldest fight goes, finished or not.        *)
OldestIfFull ==
  IF Cardinality(Stored) = StorageCapacity THEN ObservationsOf(Head(episodes), storage) ELSE {}

addObservationAndAction(pvp, terminal) ==
  LET deleted == OldestIfFull
      kept == [id \in Stored \ deleted |-> storage[id]]
      index == Cardinality(ObservationsOf(pvp, kept))
      known == IF deleted = {} THEN episodes ELSE Tail(episodes)
  IN /\ storage' = Put(kept, nextId,
                       [pvpId |-> pvp, actionIndex |-> index, isTerminal |-> terminal])
     /\ episodes' = IF index = 0 THEN Append(known, pvp) ELSE known
     /\ nextId' = nextId + 1
     /\ deletedObservationIds' = deleted

-----------------------------------------------------------------------------
(* The timer thread.                                                       *)

StartPvp ==
  /\ reportPc = "idle"
  /\ pvpCount < MaxPvps
  /\ Cardinality(running) < kPvpCount
  /\ running' = running \cup {pvpCount}
  /\ pvpCount' = pvpCount + 1
  /\ UNCHANGED <<storageVars, bufferVars, mapVars, pendingObservations, sampleVars, reportVars,
                 trainVars>>

Report(pvp, terminal) ==
  /\ reportPc = "idle"
  /\ nextId < MaxObservations
  /\ addObservationAndAction(pvp, terminal)
  /\ reportPc' = "deleting"
  /\ pvpId' = pvp
  /\ isTerminal' = terminal
  /\ UNCHANGED <<bufferVars, mapVars, pendingObservations, sampleVars, fightVars, trainVars>>

(* Does not tell the training thread.                                      *)
DeleteTransitionOf_Untold(id) ==
  LET transitionId == observationIdToTransitionIdMap[id]
  IN /\ priority' = Erase(priority, transitionId)
     /\ currentBufferSize' = currentBufferSize - 1
     /\ observationIdToTransitionIdMap' =
          Erase(observationIdToTransitionIdMap, transitionIdToObservationIdMap[transitionId])
     /\ transitionIdToObservationIdMap' = Erase(transitionIdToObservationIdMap, transitionId)
     /\ UNCHANGED deletedTransitionIds

DeleteTransitionOf(id) ==
  LET transitionId == observationIdToTransitionIdMap[id]
  IN /\ deletedTransitionIds' = IF holdingSample THEN deletedTransitionIds \cup {transitionId}
                                ELSE deletedTransitionIds
     /\ priority' = Erase(priority, transitionId)
     /\ currentBufferSize' = currentBufferSize - 1
     /\ observationIdToTransitionIdMap' =
          Erase(observationIdToTransitionIdMap, transitionIdToObservationIdMap[transitionId])
     /\ transitionIdToObservationIdMap' = Erase(transitionIdToObservationIdMap, transitionId)

DeleteEvicted ==
  /\ reportPc = "deleting"
  /\ deletedObservationIds # {}
  /\ LET id == Min(deletedObservationIds)
     IN /\ deletedObservationIds' = deletedObservationIds \ {id}
        /\ IF id \in DOMAIN observationIdToTransitionIdMap THEN DeleteTransitionOf(id)
           ELSE UNCHANGED <<bufferVars, mapVars, deletedTransitionIds>>
  /\ UNCHANGED <<storageVars, pendingObservations, holdingSample, fightVars, reportPc, pvpId,
                 isTerminal, trainVars>>

(* Inserts an observation one report too early.                            *)
QueueObservation_Early ==
  /\ reportPc = "deleting"
  /\ deletedObservationIds = {}
  /\ pendingObservations' = [pendingObservations EXCEPT ![pvpId] = Append(@, nextId - 1)]
  /\ reportPc' = IF Len(pendingObservations'[pvpId]) >= kTdLookahead - 1 THEN "lookahead"
                 ELSE "flush"
  /\ UNCHANGED <<storageVars, bufferVars, mapVars, sampleVars, fightVars, pvpId, isTerminal,
                 deletedObservationIds, trainVars>>

QueueObservation ==
  /\ reportPc = "deleting"
  /\ deletedObservationIds = {}
  /\ pendingObservations' = [pendingObservations EXCEPT ![pvpId] = Append(@, nextId - 1)]
  /\ reportPc' = IF Len(pendingObservations'[pvpId]) >= kTdLookahead THEN "lookahead"
                 ELSE "flush"
  /\ UNCHANGED <<storageVars, bufferVars, mapVars, sampleVars, fightVars, pvpId, isTerminal,
                 deletedObservationIds, trainVars>>

addTransition(id) ==
  \E transitionId \in TransitionId \ DOMAIN priority :
    /\ priority' = Put(priority, transitionId, id)
    /\ currentBufferSize' = currentBufferSize + 1
    /\ observationIdToTransitionIdMap' = Put(observationIdToTransitionIdMap, id, transitionId)
    /\ transitionIdToObservationIdMap' = Put(transitionIdToObservationIdMap, transitionId, id)

(* maybeAddObservation.  The observation has left the queue when           *)
(* hasPrevious throws because the storage no longer has it, which ends the *)
(* report.                                                                 *)
InsertOldest ==
  /\ \/ reportPc = "lookahead"
     \/ reportPc = "flush" /\ isTerminal /\ pendingObservations[pvpId] # << >>
  /\ pendingObservations' = [pendingObservations EXCEPT ![pvpId] = Tail(@)]
  /\ LET id == Head(pendingObservations[pvpId])
     IN /\ reportPc' = IF id \in Stored THEN "flush" ELSE "idle"
        /\ IF id \in Stored /\ hasPrevious(id) THEN addTransition(id)
           ELSE UNCHANGED <<bufferVars, mapVars>>
  /\ UNCHANGED <<storageVars, sampleVars, fightVars, pvpId, isTerminal, deletedObservationIds,
                 trainVars>>

(* Ends a fight without flushing its queue.                                *)
ReportReturns_NoFlush ==
  /\ reportPc = "flush"
  /\ reportPc' = "idle"
  /\ running' = IF isTerminal THEN running \ {pvpId} ELSE running
  /\ UNCHANGED <<storageVars, bufferVars, mapVars, pendingObservations, sampleVars, pvpCount,
                 pvpId, isTerminal, deletedObservationIds, trainVars>>

(* The actor of a fight whose last observation got through is done.        *)
ReportReturns ==
  /\ reportPc = "flush"
  /\ isTerminal => pendingObservations[pvpId] = << >>
  /\ reportPc' = "idle"
  /\ running' = IF isTerminal THEN running \ {pvpId} ELSE running
  /\ UNCHANGED <<storageVars, bufferVars, mapVars, pendingObservations, sampleVars, pvpCount,
                 pvpId, isTerminal, deletedObservationIds, trainVars>>

-----------------------------------------------------------------------------
(* The training thread, which needs the mutex that a report holds.         *)

(* The walk from a transition's observation to the last one its reward     *)
(* counts ends at the end of the fight or finds an observation each time.  *)
LookaheadFinds(id) ==
  \A offset \in 1..(kTdLookahead - 1) :
    \/ Neighbours(id, offset) # {}
    \/ \E earlier \in 0..(offset - 1) :
         \E n \in Neighbours(id, earlier) : storage[n].isTerminal

(* buildModelInputsFromReplayBufferSamples finds what it looks up.         *)
CanBuildInputs(ids) ==
  \A transitionId \in ids :
    /\ transitionId \in DOMAIN transitionIdToObservationIdMap
    /\ LET id == transitionIdToObservationIdMap[transitionId]
       IN /\ LookaheadFinds(id)
          /\ \E previous \in Neighbours(id, -1) : ~storage[previous].isTerminal

Sample ==
  /\ reportPc = "idle"
  /\ trainPc = "idle"
  /\ currentBufferSize >= kBatchSize
  /\ currentBufferSize >= kReplayBufferMinimumBeforeTraining
  /\ \E ids \in [1..kBatchSize -> DOMAIN priority \cup {LeftmostLeaf}] :
       IF CanBuildInputs({ids[k] : k \in 1..kBatchSize})
       THEN /\ trainPc' = "training"
            /\ sampleResult' = [k \in 1..kBatchSize |->
                                  <<ids[k], transitionIdToObservationIdMap[ids[k]]>>]
       ELSE UNCHANGED trainVars
  /\ holdingSample' = TRUE
  /\ UNCHANGED <<storageVars, bufferVars, mapVars, pendingObservations, deletedTransitionIds,
                 fightVars, reportVars>>

(* Writes back to whatever the sampled ids now are.                        *)
WriteBack_Unchecked == 1..kBatchSize

(* The sampled ids still in place, by their position in the sample.        *)
WriteBack == {k \in 1..kBatchSize : sampleResult[k][1] \notin deletedTransitionIds}

Train ==
  /\ reportPc = "idle"
  /\ trainPc = "training"
  /\ Cardinality(WriteBack) <= currentBufferSize
  /\ LET ids == {sampleResult[k][1] : k \in WriteBack}
     IN priority' = [t \in DOMAIN priority \cup ids |->
                       IF t \in ids
                       THEN sampleResult[Max({k \in WriteBack : sampleResult[k][1] = t})][2]
                       ELSE priority[t]]
  /\ deletedTransitionIds' = {}
  /\ holdingSample' = FALSE
  /\ trainPc' = "idle"
  /\ sampleResult' = << >>
  /\ UNCHANGED <<storageVars, currentBufferSize, mapVars, pendingObservations, fightVars,
                 reportVars>>

(* JaxInterface::train throws, or updatePriorities, and the loop goes on.  *)
TrainThrows ==
  /\ trainPc = "training"
  /\ trainPc' = "idle"
  /\ sampleResult' = << >>
  /\ UNCHANGED <<storageVars, bufferVars, mapVars, pendingObservations, sampleVars, fightVars,
                 reportVars>>

Next ==
  \/ StartPvp
  \/ \E pvp \in running, terminal \in BOOLEAN : Report(pvp, terminal)
  \/ DeleteEvicted
  \/ QueueObservation
  \/ InsertOldest
  \/ ReportReturns
  \/ Sample
  \/ Train
  \/ TrainThrows

Spec == Init /\ [][Next]_vars

-----------------------------------------------------------------------------
(* Properties.                                                             *)

TypeOK ==
  /\ Stored \subseteq ObservationId
  /\ \A id \in Stored : storage[id] \in [pvpId : PvpId, actionIndex : Nat, isTerminal : BOOLEAN]
  /\ Cardinality(Stored) <= StorageCapacity
  /\ episodes \in Seq(PvpId)
  /\ nextId \in 0..MaxObservations
  /\ DOMAIN priority \subseteq TransitionId
  /\ currentBufferSize \in 0..Cardinality(TransitionId)
  /\ pendingObservations \in [PvpId -> Seq(ObservationId)]
  /\ holdingSample \in BOOLEAN
  /\ deletedTransitionIds \subseteq TransitionId
  /\ pvpCount \in 0..MaxPvps
  /\ running \subseteq 0..(pvpCount - 1)
  /\ reportPc \in {"idle", "deleting", "lookahead", "flush"}
  /\ pvpId \in PvpId
  /\ isTerminal \in BOOLEAN
  /\ deletedObservationIds \subseteq ObservationId
  /\ trainPc \in {"idle", "training"}
  /\ sampleResult \in Seq(TransitionId \X ObservationId)

(* The queue of fights names those with stored observations, each once,    *)
(* and the observations of a fight are numbered without a gap, also when a *)
(* fight goes on after it was evicted (addObservationAndAction).  Without  *)
(* it, getPreviousId, getNextId or the next eviction throws.               *)
StorageIndexed ==
  /\ {episodes[k] : k \in DOMAIN episodes} = {storage[id].pvpId : id \in Stored}
  /\ \A j, k \in DOMAIN episodes : episodes[j] = episodes[k] => j = k
  /\ \A id \in Stored :
       /\ Neighbours(id, 0) = {id}
       /\ hasPrevious(id) => \E previous \in Neighbours(id, -1) : previous < id

(* The two maps between observations and transitions are inverse, and the  *)
(* transitions are those in the replay buffer.                             *)
MapsAgree ==
  /\ DOMAIN priority = DOMAIN transitionIdToObservationIdMap
  /\ \A t \in DOMAIN priority :
       LET id == transitionIdToObservationIdMap[t]
       IN id \in DOMAIN observationIdToTransitionIdMap /\ observationIdToTransitionIdMap[id] = t
  /\ \A id \in DOMAIN observationIdToTransitionIdMap :
       observationIdToTransitionIdMap[id] \in DOMAIN priority
  /\ currentBufferSize = Cardinality(DOMAIN priority)

(* Whenever training may look, the observation of every transition is in   *)
(* the storage with a predecessor, and the lookahead of its reward finds   *)
(* all it needs (buildModelInputsFromReplayBufferSamples never meets       *)
(* out_of_range), although fights are evicted and end in between.          *)
TransitionsAreTrainable ==
  reportPc = "idle" =>
    \A id \in DOMAIN observationIdToTransitionIdMap :
      id \in Stored /\ hasPrevious(id) /\ LookaheadFinds(id)

(* A priority is the TD error of the transition it belongs to or that of a *)
(* newcomer, never that of a transition that had its id when it was        *)
(* sampled and was deleted during training (deletedTransitionIds_).        *)
PriorityIsItsOwn ==
  \A t \in DOMAIN priority : priority[t] = transitionIdToObservationIdMap[t]

(* "It is the user's responsibility to delete transitions if the buffer   *)
(* is full before adding new ones" (replayBuffer.hpp): eviction from the   *)
(* storage always leaves room in the replay buffer, so addTransition never *)
(* throws.                                                                 *)
BufferHasRoom ==
  reportPc \in {"lookahead", "flush"} /\ pendingObservations[pvpId] # << >> =>
    currentBufferSize < Cardinality(TransitionId)

(* What holds between any two steps: storage, maps and buffer agree, and   *)
(* neither training nor a report meets what makes it throw.                *)
Consistent ==
  TypeOK /\ StorageIndexed /\ MapsAgree /\ TransitionsAreTrainable /\ BufferHasRoom

(* When the actor of a fight is done, every stored observation of it but   *)
(* the first is a transition (pendingObservations_): none stays behind in  *)
(* the lookahead queue.                                                    *)
FinishedFightIsLearned ==
  reportPc = "idle" =>
    \A id \in Stored :
      storage[id].pvpId \notin running /\ hasPrevious(id) =>
        id \in DOMAIN observationIdToTransitionIdMap

Pool == INSTANCE PriorityPool WITH
          Priorities <- {1},
          priority <- [t \in DOMAIN priority |-> 1],
          maxPriority <- 1

(* The manager keeps to what the replay buffer asks of its user: it        *)
(* deletes and updates only transitions that the buffer holds.             *)
UsesPool == Pool!Spec

(* "It will always be the case that one deleted observation will not have  *)
(* a corresponding transition ID." (reportObservationAndAction)            *)
OneWithoutTransition ==
  [][deletedObservationIds = {} /\ deletedObservationIds' # {} =>
       Cardinality(deletedObservationIds' \ DOMAIN observationIdToTransitionIdMap) = 1]_vars

(* "This transition was deleted, skip it." (train): a sampled id that is   *)
(* skipped no longer belongs to the transition sampled.                    *)
SkippedWereDeleted ==
  trainPc = "training" =>
    \A k \in 1..kBatchSize :
      sampleResult[k][1] \in deletedTransitionIds =>
        LET t == sampleResult[k][1]
        IN t \in DOMAIN transitionIdToObservationIdMap =>
             transitionIdToObservationIdMap[t] # sampleResult[k][2]
=============================================================================
