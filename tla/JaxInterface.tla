---------------------------- MODULE JaxInterface ----------------------------
(***************************************************************************)
(* Who uses the networks, and when: bot/src/rl/jaxInterface.cpp, called    *)
(* from the training thread (TrainingManager::run and train), the timer    *)
(* thread (a bot that selects an action, TrainingManager::onUpdate) and    *)
(* the checkpointing thread.  modelMutex_ guards model_, targetModel_ and  *)
(* optimizerState_; who wants to select an action raises                   *)
(* waitingToSelectAction_ first, and the long operations wait until it is  *)
(* lowered.  Python is used with the GIL held.                             *)
(*                                                                         *)
(* An object is the number of its construction.  The registry with its     *)
(* mutex and the files are the subject of Checkpoints; that two threads    *)
(* may test and replace checkpointingThread_ at once, and that a load of   *)
(* what is not there ends the process, is shown there.  The requests that  *)
(* do not use the networks are left out, and so is printModels, which      *)
(* nothing calls.                                                          *)
(* An operator Op_Name is Op with one plausible bug and is never used.     *)
(***************************************************************************)
EXTENDS Integers

CONSTANTS
  Timer, Trainer, Saver,  \* the threads that use the networks
  Nobody,                 \* the owner of a free mutex
  Failing,                \* the operations whose Python code may throw
  Patient,                \* whether the user starts only what waits to be started
  kTargetNetworkPolyakUpdateInterval,
  kTrainStepCheckpointInterval,
  MaxSelections, MaxRequests, MaxSteps

Thread == {Timer, Trainer, Saver}

(* The operations, by what they do with modelMutex_ and the flag.  The     *)
(* calls of addScalar around train are one, and so are the destructors of  *)
(* the handles of one function.                                            *)
Selecting == {"precompileSelect", "selectAction"}
Getting == {"getDummyModel", "getDummyOptimizer", "getDummyTargetModel",
            "getModel", "getOptimizer", "getTargetModel"}
Waiting == {"initialize", "precompileTrain", "train", "updateTargetModel",
            "saveCheckpoint", "loadCheckpoint"}
ModelOperation == Selecting \cup Getting \cup Waiting
OnlyPython == {"addScalar", "report", "dropHandles", "dropDummies"}
Request == {"start", "stop", "save", "load"}
Elsewhere == {"idle", "await", "loop", "backup"} \cup Request

Operation == ModelOperation \cup OnlyPython \cup Elsewhere

ASSUME JaxInterfaceAssumption ==
  /\ Timer # Trainer /\ Timer # Saver /\ Trainer # Saver
  /\ Nobody \notin Thread
  /\ "packets" \notin Thread \cup {Nobody}
  /\ Failing \subseteq {"train", "updateTargetModel", "selectAction"}
  /\ Patient \in BOOLEAN
  /\ kTargetNetworkPolyakUpdateInterval \in Nat \ {0}
  /\ kTrainStepCheckpointInterval \in Nat \ {0}
  /\ {MaxSelections, MaxRequests, MaxSteps} \subseteq Nat

VARIABLES
  \* in the JaxInterface
  modelMutex,    \* the owner of modelMutex_
  gil,           \* the owner of the interpreter lock
  waitingToSelectAction,
  model, targetModel, optimizerState,   \* the objects; 0 before initialize
  objects,       \* how many were constructed
  \* in the TrainingManager
  handles,       \* what train fetched when it began
  runTraining,
  runTrainingMutex,
  trainStepCount,
  once,          \* whether training has ended once
  sessions,      \* whether there are bots
  ended,         \* whether run has thrown, which ends the process
  \* the threads
  op,            \* the operation each is in
  at,            \* where in it
  threw,         \* whether its Python code has thrown
  worldMutex,    \* the owner of worldState_.mutex: Timer, "packets" or Nobody
  reading,       \* whether a packet is being handled
  \* bounds and history
  selections, requests,
  overtaken,     \* the long operations done since the flag was raised
  stolen         \* whether a packet is handled, or what the timer thread does,
                 \* without worldMutex, as a selection that threw unlocked it

models == <<model, targetModel, optimizerState, objects>>
training == <<handles, runTraining, runTrainingMutex, trainStepCount, once, sessions, ended>>
world == <<worldMutex, reading, stolen>>
bounds == <<selections, requests>>
locks == <<modelMutex, gil, waitingToSelectAction>>
places == <<op, at, threw>>

vars == <<locks, models, training, places, world, bounds, overtaken>>

NoHandles == [model |-> 0, optimizer |-> 0, target |-> 0]

(* The place at which an operation begins.                                 *)
Entry(o) ==
  IF o \in Selecting THEN "raise"
  ELSE IF o \in ModelOperation THEN "mutex"
  ELSE IF o \in OnlyPython THEN "gil"
  ELSE "here"

Begin(t, o) ==
  /\ op' = [op EXCEPT ![t] = o]
  /\ at' = [at EXCEPT ![t] = Entry(o)]
  /\ threw' = [threw EXCEPT ![t] = FALSE]

Init ==
  /\ modelMutex = Nobody
  /\ gil = Nobody
  /\ waitingToSelectAction = FALSE
  /\ model = 0
  /\ targetModel = 0
  /\ optimizerState = 0
  /\ objects = 0
  /\ handles = NoHandles
  /\ runTraining = FALSE
  /\ runTrainingMutex = Nobody
  /\ trainStepCount = 0
  /\ once = FALSE
  /\ sessions = FALSE
  /\ ended = FALSE
  /\ op = [t \in Thread |-> IF t = Trainer THEN "initialize" ELSE "idle"]
  /\ at = [t \in Thread |-> IF t = Trainer THEN "mutex" ELSE "here"]
  /\ threw = [t \in Thread |-> FALSE]
  /\ worldMutex = Nobody
  /\ reading = FALSE
  /\ stolen = FALSE
  /\ selections = 0
  /\ requests = 0
  /\ overtaken = 0

-----------------------------------------------------------------------------
(* An operation on the networks, step by step.                             *)

Move(t, from, to) ==
  /\ at[t] = from
  /\ at' = [at EXCEPT ![t] = to]
  /\ UNCHANGED <<op, threw>>

RaiseFlag(t) ==
  /\ Move(t, "raise", "mutex")
  /\ waitingToSelectAction' = TRUE
  /\ overtaken' = 0
  /\ UNCHANGED <<modelMutex, gil, models, training, world, bounds>>

(* Whether o waits for the flag once it has modelMutex_.                   *)
Waits_ExceptSave(o) == o \in Waiting \ {"saveCheckpoint"}
Waits(o) == o \in Waiting

LockModel(t) ==
  /\ modelMutex = Nobody
  /\ Waits(op[t]) => ~waitingToSelectAction
  /\ modelMutex' = t
  /\ Move(t, "mutex", "gil")
  /\ waitingToSelectAction' = (waitingToSelectAction /\ op[t] \notin Selecting)
  /\ UNCHANGED <<gil, models, training, world, bounds, overtaken>>

(* The mutex is taken, the flag seen, and the mutex given back.            *)
FallAsleep(t) ==
  /\ modelMutex = Nobody
  /\ Waits(op[t])
  /\ waitingToSelectAction
  /\ Move(t, "mutex", "asleep")
  /\ UNCHANGED <<locks, models, training, world, bounds, overtaken>>

SpuriousWakeup(t) ==
  /\ Move(t, "asleep", "mutex")
  /\ UNCHANGED <<locks, models, training, world, bounds, overtaken>>

TakeGil(t) ==
  /\ gil = Nobody
  /\ gil' = t
  /\ Move(t, "gil", "work")
  /\ UNCHANGED <<modelMutex, waitingToSelectAction, models, training, world, bounds, overtaken>>

-----------------------------------------------------------------------------
(* What each operation does while it has both locks.  The interpreter lock *)
(* is kept from beginning to end, though Python may lend it out meanwhile. *)

Construct(m, t, o, n) ==
  /\ model' = m
  /\ targetModel' = t
  /\ optimizerState' = o
  /\ objects' = objects + n
  /\ UNCHANGED handles

Fetch(field, object) ==
  /\ handles' = [handles EXCEPT ![field] = object]
  /\ UNCHANGED models

Effect(o) ==
  CASE o \in {"initialize", "loadCheckpoint"} ->
         Construct(objects + 1, objects + 2, objects + 3, 3)
    [] o = "updateTargetModel" ->
         Construct(model, objects + 1, optimizerState, 1)
    [] o = "getModel" -> Fetch("model", model)
    [] o = "getOptimizer" -> Fetch("optimizer", optimizerState)
    [] o = "getTargetModel" -> Fetch("target", targetModel)
    [] o = "dropHandles" ->
         handles' = NoHandles /\ UNCHANGED models
    [] OTHER -> UNCHANGED <<models, handles>>

Overtakes(o) == waitingToSelectAction /\ o \in Waiting

(* train and updateTargetModel do not notify after an exception, the       *)
(* getters never do.                                                       *)
Notifies_NotAfterSelection(t) == op[t] \in Waiting
Notifies(t) == op[t] \in Selecting \cup Waiting

Release(t) ==
  /\ gil' = Nobody
  /\ modelMutex' = IF op[t] \in ModelOperation THEN Nobody ELSE modelMutex
  /\ UNCHANGED waitingToSelectAction

Work(t) ==
  /\ Move(t, "work", IF Notifies(t) THEN "notify" ELSE "done")
  /\ Effect(op[t])
  /\ Release(t)
  /\ overtaken' = IF Overtakes(op[t]) THEN overtaken + 1 ELSE overtaken
  /\ UNCHANGED <<runTraining, runTrainingMutex, trainStepCount, once, sessions, ended, world,
                 bounds>>

(* The Python code throws before it has changed anything.                  *)
Throw(t) ==
  /\ at[t] = "work"
  /\ op[t] \in Failing
  /\ threw' = [threw EXCEPT ![t] = TRUE]
  /\ at' = [at EXCEPT ![t] = IF op[t] \in Selecting THEN "notify" ELSE "done"]
  /\ Release(t)
  /\ UNCHANGED <<op, models, training, world, bounds, overtaken>>

NotifyAll_One(t) ==
  /\ at[t] = "notify"
  /\ \/ \E u \in Thread : at[u] = "asleep" /\ at' = [at EXCEPT ![t] = "done", ![u] = "mutex"]
     \/ \A u \in Thread : at[u] # "asleep" /\ at' = [at EXCEPT ![t] = "done"]
  /\ UNCHANGED <<op, threw, locks, models, training, world, bounds, overtaken>>

NotifyAll(t) ==
  /\ at[t] = "notify"
  /\ at' = [u \in Thread |-> IF u = t THEN "done"
                             ELSE IF at[u] = "asleep" THEN "mutex" ELSE at[u]]
  /\ UNCHANGED <<op, threw, locks, models, training, world, bounds, overtaken>>

Run(t) ==
  \/ RaiseFlag(t) \/ LockModel(t) \/ FallAsleep(t) \/ TakeGil(t) \/ Work(t) \/ NotifyAll(t)

Use(t) == Run(t) \/ SpuriousWakeup(t) \/ Throw(t)

-----------------------------------------------------------------------------
(* The training thread: run and train.                                     *)

Preparing == {"initialize", "getDummyModel", "getDummyOptimizer", "getDummyTargetModel",
              "precompileSelect", "precompileTrain"}

Then == [initialize |-> "getDummyModel",
         getDummyModel |-> "getDummyOptimizer",
         getDummyOptimizer |-> "getDummyTargetModel",
         getDummyTargetModel |-> "precompileSelect",
         precompileSelect |-> "precompileTrain",
         precompileTrain |-> "dropDummies",
         dropDummies |-> "await",
         getModel |-> "getOptimizer",
         getOptimizer |-> "getTargetModel",
         getTargetModel |-> "loop",
         addScalar |-> "train"]

Done(t, o) == op[t] = o /\ at[t] = "done"
Is(t, o) == op[t] = o /\ at[t] = "here"

GoOn ==
  /\ op[Trainer] \in DOMAIN Then
  /\ at[Trainer] = "done"
  /\ Begin(Trainer, Then[op[Trainer]])
  /\ UNCHANGED <<locks, models, training, world, bounds, overtaken>>

(* Training cannot be started twice: run throws, and main returns.         *)
StartTraining ==
  /\ Is(Trainer, "await")
  /\ runTraining
  /\ runTrainingMutex = Nobody
  /\ IF once
     THEN /\ ended' = TRUE
          /\ UNCHANGED <<runTrainingMutex, sessions, places>>
     ELSE /\ runTrainingMutex' = Trainer
          /\ sessions' = TRUE
          /\ Begin(Trainer, "getModel")
          /\ UNCHANGED ended
  /\ UNCHANGED <<locks, models, handles, runTraining, trainStepCount, once, world, bounds,
                 overtaken>>

(* An iteration without enough transitions only sleeps.                    *)
Iterate ==
  /\ Is(Trainer, "loop")
  /\ runTraining
  /\ trainStepCount < MaxSteps
  /\ Begin(Trainer, "addScalar")
  /\ UNCHANGED <<locks, models, training, world, bounds, overtaken>>

IsDue(interval, count) == count % interval = 0

AfterUpdate(count) == IF IsDue(kTrainStepCheckpointInterval, count) THEN "backup" ELSE "loop"
AfterStep(count) ==
  IF IsDue(kTargetNetworkPolyakUpdateInterval, count) THEN "updateTargetModel"
  ELSE AfterUpdate(count)

CountStep ==
  /\ Done(Trainer, "train")
  /\ ~threw[Trainer]
  /\ trainStepCount' = trainStepCount + 1
  /\ Begin(Trainer, AfterStep(trainStepCount'))
  /\ UNCHANGED <<locks, models, handles, runTraining, runTrainingMutex, once, sessions, ended,
                 world, bounds, overtaken>>

TargetUpdated ==
  /\ Done(Trainer, "updateTargetModel")
  /\ ~threw[Trainer]
  /\ Begin(Trainer, AfterUpdate(trainStepCount))
  /\ UNCHANGED <<locks, models, training, world, bounds, overtaken>>

(* What an iteration throws ends the iteration.                            *)
CatchWhileTraining ==
  /\ op[Trainer] \in {"train", "updateTargetModel"}
  /\ at[Trainer] = "done"
  /\ threw[Trainer]
  /\ Begin(Trainer, "loop")
  /\ UNCHANGED <<locks, models, training, world, bounds, overtaken>>

(* saveCheckpoint joins the checkpointing thread and starts it anew.       *)
Spawn(t, next) ==
  /\ op[Saver] = "idle"
  /\ op' = [op EXCEPT ![Saver] = "saveCheckpoint", ![t] = next]
  /\ at' = [at EXCEPT ![Saver] = "mutex"]
  /\ UNCHANGED threw

SaveBackup ==
  /\ Is(Trainer, "backup")
  /\ Spawn(Trainer, "loop")
  /\ UNCHANGED <<locks, models, training, world, bounds, overtaken>>

StopIterating ==
  /\ Is(Trainer, "loop")
  /\ ~runTraining
  /\ Begin(Trainer, "dropHandles")
  /\ UNCHANGED <<locks, models, training, world, bounds, overtaken>>

TrainReturns ==
  /\ Done(Trainer, "dropHandles")
  /\ once' = TRUE
  /\ runTrainingMutex' = Nobody
  /\ Begin(Trainer, "await")
  /\ UNCHANGED <<locks, models, handles, runTraining, trainStepCount, sessions, ended, world,
                 bounds, overtaken>>

TrainerStep ==
  \/ GoOn \/ StartTraining \/ Iterate \/ CountStep \/ TargetUpdated
  \/ CatchWhileTraining \/ SaveBackup \/ StopIterating \/ TrainReturns

(* The checkpointing thread.                                               *)
SaverEnds ==
  /\ Done(Saver, "saveCheckpoint")
  /\ Begin(Saver, "idle")
  /\ UNCHANGED <<locks, models, training, world, bounds, overtaken>>

-----------------------------------------------------------------------------
(* The timer thread: the requests of the user, with worldState_.mutex held *)
(* throughout.                                                             *)

(* Requests come once the networks are there.                              *)
HandleRequest(r) ==
  /\ Is(Timer, "idle")
  /\ requests < MaxRequests
  /\ model # 0
  /\ Patient /\ r = "start" => ~runTraining
  /\ worldMutex = Nobody
  /\ worldMutex' = Timer
  /\ requests' = requests + 1
  /\ Begin(Timer, r)
  /\ UNCHANGED <<locks, models, training, reading, stolen, selections, overtaken>>

(* Whoever is the last to leave the world leaves it in order again.        *)
GiveBack ==
  /\ worldMutex' = Nobody
  /\ stolen' = (stolen /\ reading)
  /\ UNCHANGED reading

Handled == GiveBack /\ Begin(Timer, "idle")

(* The training thread has this mutex for as long as it trains.            *)
Start ==
  /\ Is(Timer, "start")
  /\ runTrainingMutex = Nobody
  /\ runTraining' = TRUE
  /\ Handled
  /\ UNCHANGED <<locks, models, handles, runTrainingMutex, trainStepCount, once, sessions,
                 ended, bounds, overtaken>>

Stop ==
  /\ Is(Timer, "stop")
  /\ runTraining' = FALSE
  /\ Handled
  /\ UNCHANGED <<locks, models, handles, runTrainingMutex, trainStepCount, once, sessions,
                 ended, bounds, overtaken>>

Save ==
  /\ Is(Timer, "save")
  /\ Spawn(Timer, "idle")
  /\ GiveBack
  /\ UNCHANGED <<locks, models, training, bounds, overtaken>>

(* Whether the name is taken is the subject of Checkpoints.                *)
RefuseSave ==
  /\ Is(Timer, "save")
  /\ Handled
  /\ UNCHANGED <<locks, models, training, bounds, overtaken>>

RefuseLoad ==
  /\ Is(Timer, "load")
  /\ runTraining
  /\ Handled
  /\ UNCHANGED <<locks, models, training, bounds, overtaken>>

Load_WhileTraining ==
  /\ Is(Timer, "load")
  /\ Begin(Timer, "loadCheckpoint")
  /\ UNCHANGED <<locks, models, training, world, bounds, overtaken>>

Load ==
  /\ Is(Timer, "load")
  /\ ~runTraining
  /\ Begin(Timer, "loadCheckpoint")
  /\ UNCHANGED <<locks, models, training, world, bounds, overtaken>>

(* The step count that comes with the checkpoint may be any.               *)
Loaded ==
  /\ Done(Timer, "loadCheckpoint")
  /\ trainStepCount' \in 0..MaxSteps
  /\ Handled
  /\ UNCHANGED <<locks, models, handles, runTraining, runTrainingMutex, once, sessions, ended,
                 bounds, overtaken>>

(* The timer thread: a bot selects an action.  The handler has taken       *)
(* worldState_.mutex and DeepLearningIntelligence gives it back for the    *)
(* while.                                                                  *)
SelectAction ==
  /\ Is(Timer, "idle")
  /\ sessions
  /\ selections < MaxSelections
  /\ worldMutex = Nobody
  /\ selections' = selections + 1
  /\ Begin(Timer, "selectAction")
  /\ UNCHANGED <<locks, models, training, world, requests, overtaken>>

(* reportObservationAndAction ends with addScalar.                         *)
Report ==
  /\ Done(Timer, "selectAction")
  /\ ~threw[Timer]
  /\ worldMutex = Nobody
  /\ worldMutex' = Timer
  /\ Begin(Timer, "report")
  /\ UNCHANGED <<locks, models, training, reading, stolen, bounds, overtaken>>

Reported ==
  /\ Done(Timer, "report")
  /\ Handled
  /\ UNCHANGED <<locks, models, training, bounds, overtaken>>

(* An exception passes by the lock(); the handler then unlocks a mutex     *)
(* that it does not have, which is free afterwards whoever had it.         *)
SelectionThrew ==
  /\ Done(Timer, "selectAction")
  /\ threw[Timer]
  /\ worldMutex' = Nobody
  /\ stolen' = reading
  /\ Begin(Timer, "idle")
  /\ UNCHANGED <<locks, models, training, reading, bounds, overtaken>>

TimerStep ==
  \/ Start \/ Stop \/ Save \/ RefuseSave \/ RefuseLoad \/ Load \/ Loaded
  \/ Report \/ Reported \/ SelectionThrew

(* A packet thread.                                                        *)
ReadPacket ==
  /\ ~reading
  /\ worldMutex = Nobody
  /\ worldMutex' = "packets"
  /\ reading' = TRUE
  /\ UNCHANGED <<locks, models, training, places, stolen, bounds, overtaken>>

UsesWorld == op[Timer] \in Request \cup {"loadCheckpoint", "report"}

PacketRead ==
  /\ reading
  /\ worldMutex' = Nobody
  /\ reading' = FALSE
  /\ stolen' = (stolen /\ UsesWorld)
  /\ UNCHANGED <<locks, models, training, places, bounds, overtaken>>

Step ==
  \/ \E t \in Thread : Use(t)
  \/ TrainerStep \/ TimerStep \/ SaverEnds
  \/ SelectAction \/ \E r \in Request : HandleRequest(r)
  \/ ReadPacket \/ PacketRead

Next == ~ended /\ Step

Spec == Init /\ [][Next]_vars

(* The threads run; a mutex that is free again and again is not kept from  *)
(* one of them for ever.  No one has to ask for anything.                  *)
FairSpec ==
  /\ Spec
  /\ \A t \in Thread : SF_vars(~ended /\ Run(t))
  /\ WF_vars(~ended /\ TrainerStep)
  /\ SF_vars(~ended /\ TimerStep)
  /\ WF_vars(~ended /\ SaverEnds)
  /\ WF_vars(~ended /\ PacketRead)

-----------------------------------------------------------------------------
Places == {"raise", "mutex", "asleep", "gil", "work", "notify", "done", "here"}

TypeOK ==
  /\ modelMutex \in Thread \cup {Nobody}
  /\ gil \in Thread \cup {Nobody}
  /\ waitingToSelectAction \in BOOLEAN
  /\ {model, targetModel, optimizerState, objects} \subseteq Nat
  /\ handles \in [{"model", "optimizer", "target"} -> Nat]
  /\ {runTraining, once, sessions, ended, reading, stolen} \subseteq BOOLEAN
  /\ runTrainingMutex \in {Trainer, Nobody}
  /\ op \in [Thread -> Operation]
  /\ at \in [Thread -> Places]
  /\ threw \in [Thread -> BOOLEAN]
  /\ worldMutex \in {Timer, "packets", Nobody}
  /\ {trainStepCount, selections, requests, overtaken} \subseteq Nat

(* No lost wakeup: who sleeps until an action is selected is woken by a    *)
(* selection that is still going on, though some operations end without a  *)
(* notification (jaxInterface.cpp:295-420).                                *)
SleepersWillBeWoken ==
  (\E t \in Thread : at[t] = "asleep")
  => \E u \in Thread : /\ op[u] \in Selecting
                       /\ at[u] \in {"mutex", "gil", "work", "notify"}

(* worldState_.mutex keeps the packets out of what the timer thread does   *)
(* with the world, and is given back while an action is selected; but for  *)
(* who is in the world when a selection throws, and who comes before that  *)
(* one has left (deepLearningIntelligence.cpp:40-43).                      *)
WorldIsHeld ==
  IF stolen THEN "selectAction" \in Failing
  ELSE /\ reading => worldMutex = "packets"
       /\ UsesWorld <=> worldMutex = Timer

(* Between any two steps.                                                  *)
Consistent == TypeOK /\ SleepersWillBeWoken /\ WorldIsHeld

(* The selection of an action has to wait for one long operation at most:  *)
(* the one that was going on ("give action selection a higher priority     *)
(* than everything else", jaxInterface.hpp:124).                           *)
SelectionOvertakenOnce == overtaken <= 1

(* As long as training is wanted, what is trained is the network that      *)
(* selects actions and is saved, with its optimizer, though a load         *)
(* replaces both and train fetches its handles once.                       *)
ActsOnWhatIsTrained ==
  op[Trainer] \in {"loop", "addScalar", "train"} /\ runTraining
  => handles.model = model /\ handles.optimizer = optimizerState

(* Whatever a thread is about comes to an end, if training is not started  *)
(* while it runs.                                                          *)
Busy(t) == op[t] \notin {"idle", "await", "loop"}
EveryOperationEnds == \A t \in Thread : Busy(t) ~> (~Busy(t) \/ ended)

(* Refuted (as an invariant of JaxInterface_training.cfg): no packet is    *)
(* handled while the timer thread uses the world.                          *)
PacketsAreKeptOut == ~(reading /\ UsesWorld)

(* Refuted (as an invariant of JaxInterface_training.cfg): the loss is     *)
(* computed with the target network that updateTargetModel makes.  Yet     *)
(* train keeps the one it fetched (trainingManager.cpp:74, against the     *)
(* comment in line 151).                                                   *)
TrainsAgainstTarget ==
  op[Trainer] = "train" /\ at[Trainer] = "work" => handles.target = targetModel
=============================================================================
