----------------------------- MODULE Checkpoints -----------------------------
(***************************************************************************)
(* Checkpoints of the network: bot/src/rl/checkpointManager.cpp, called by *)
(* TrainingManager::onUpdate on the timer thread and by                    *)
(* TrainingManager::train on the training thread.  The registry is written *)
(* at once, the files by checkpointingThread_ through                      *)
(* JaxInterface::saveCheckpoint while training may go on.  The program may *)
(* crash at any time and start again with what is on the disk.             *)
(*                                                                         *)
(* A version of the network is the number of training steps in it.         *)
(* An operator Op_Name is Op with one plausible bug and is never used.     *)
(***************************************************************************)
EXTENDS Integers, Sequences, SequencesExt

CONSTANTS
  UiNames,       \* the names that the user gives checkpoints
  Backup,        \* "backup_checkpoint"
  Timer, Trainer, Saver,   \* the threads
  NoOne,         \* the owner of a free mutex
  NoVersion,     \* the version in a file that does not exist
  Requests,      \* what the user asks for: a subset of "save", "load", "delete", "stop"
  kTrainStepCheckpointInterval, MaxRequests, MaxSteps, MaxCrashes

ASSUME CheckpointsAssumption ==
  /\ Timer # Trainer /\ NoOne # Saver
  /\ {Timer, Trainer} \cap {Saver, NoOne} = {}
  /\ NoVersion \notin Nat
  /\ Requests \subseteq {"save", "load", "delete", "stop"}
  /\ kTrainStepCheckpointInterval \in Nat \ {0}
  /\ {MaxRequests, MaxSteps, MaxCrashes} \subseteq Nat

Name == UiNames \cup {Backup}
Caller == {Timer, Trainer}
File == {"model", "target", "optimizer"}
Entry == [name : Name, stepCount : Nat]
Place == {"idle", "asked", "check", "register", "saveRegistry", "join", "joining", "spawn", "load",
          "loading", "delete", "removeTarget", "removeOptimizer", "erase", "saveAfterDelete",
          "waiting", "train", "count", "backup", "ended"}

VARIABLES
  \* on the disk
  registryFile,  \* the entries in the registry file
  files,         \* the version in each file of each checkpoint
  \* in the CheckpointManager
  program,       \* "down", "starting", "up", "hung" or "terminated"
  registry,      \* checkpointRegistry_
  registryMutex, \* the owner of registryMutex_
  thread,        \* checkpointingThread_: "none", "running" or "finished"
  saverPc,       \* where that thread is
  saverName,     \* the checkpoint it writes
  \* in the JaxInterface and the TrainingManager
  modelMutex,    \* the owner of modelMutex_
  model,         \* the version of model_
  trainStepCount, runTraining,
  stale,         \* whether the trainer still has the model that a load replaced
  pc,            \* where each caller is
  name,          \* the checkpoint it is about
  exists,        \* checkpointAlreadyExists
  stepCount,     \* the step count it passes on
  requests, crashes,  \* how many there were
  saved,         \* history: the checkpoints whose save is complete, and that a start is to find
  doubled        \* history: the names that were registered when they already were

disk == <<registryFile, files>>
saverVars == <<thread, saverPc, saverName>>
modelVars == <<model, trainStepCount, runTraining, stale>>
callVars == <<pc, name, exists, stepCount>>
bounds == <<requests, crashes>>
histories == <<saved, doubled>>

checkpointsVars == <<disk, program, registry, registryMutex, saverVars, modelMutex, modelVars,
                     callVars, bounds, histories>>

IsRegistered(n, r) == \E k \in DOMAIN r : r[k].name = n

(* The first entry of the name, which is what every search of the registry *)
(* finds.                                                                  *)
FirstOf(n) ==
  CHOOSE k \in DOMAIN registry :
    registry[k].name = n /\ \A j \in 1..(k - 1) : registry[j].name # n

AtRest == [t \in Caller |-> IF t = Timer THEN "idle" ELSE "waiting"]

CheckpointsInit ==
  /\ registryFile = << >>
  /\ files = [n \in Name |-> [f \in File |-> NoVersion]]
  /\ program = "down"
  /\ registry = << >>
  /\ registryMutex = NoOne
  /\ thread = "none"
  /\ saverPc = "none"
  /\ saverName = Backup
  /\ modelMutex = NoOne
  /\ model = 0
  /\ trainStepCount = 0
  /\ runTraining = FALSE
  /\ stale = FALSE
  /\ pc = AtRest
  /\ name = [t \in Caller |-> Backup]
  /\ exists = [t \in Caller |-> FALSE]
  /\ stepCount = [t \in Caller |-> 0]
  /\ requests = 0
  /\ crashes = 0
  /\ saved = {}
  /\ doubled = {}

Goto(t, label) == pc' = [pc EXCEPT ![t] = label]

-----------------------------------------------------------------------------
(* Start and crash.                                                        *)

IsWhole(n) == \A f \in File : files[n][f] # NoVersion

(* The constructor walks through the registry and drops what has lost a    *)
(* file.                                                                   *)
Pruned(entries) ==
  LET kept[k \in 0..Len(entries)] ==
        IF k = 0 THEN << >>
        ELSE IF IsWhole(entries[k].name) THEN Append(kept[k - 1], entries[k])
        ELSE kept[k - 1]
  IN kept[Len(entries)]

(* Opens the registry for writing before it is read.                       *)
Start_Truncating ==
  /\ program = "down"
  /\ registry' = << >>
  /\ registryFile' = << >>
  /\ program' = "up"
  /\ UNCHANGED <<files, registryMutex, saverVars, modelMutex, modelVars, callVars, bounds,
                 histories>>

(* If it has dropped some it writes the registry anew, which empties the   *)
(* file first ...                                                          *)
Start ==
  /\ program = "down"
  /\ registry' = Pruned(registryFile)
  /\ IF registry' = registryFile
     THEN program' = "up" /\ UNCHANGED <<registryFile, registryMutex>>
     ELSE /\ program' = "starting"
          /\ registryFile' = << >>
          /\ registryMutex' = Timer
  /\ UNCHANGED <<files, saverVars, modelMutex, modelVars, callVars, bounds, histories>>

(* ... and to tell the user of it the constructor calls getCheckpoints     *)
(* while it holds the mutex that getCheckpoints takes.                     *)
StartSaves ==
  /\ program = "starting"
  /\ registryFile' = registry
  /\ program' = "hung"
  /\ UNCHANGED <<files, registry, registryMutex, saverVars, modelMutex, modelVars, callVars,
                 bounds, histories>>

(* The registry file has been emptied and not yet written.                 *)
Rewriting == program = "starting" \/ \E t \in Caller : pc[t] \in {"saveRegistry", "saveAfterDelete"}

(* The process ends, or is ended, wherever its threads are.  If that is    *)
(* while the registry is being rewritten, every checkpoint is forgotten.   *)
Crash ==
  /\ program # "down"
  /\ crashes < MaxCrashes
  /\ program' = "down"
  /\ registry' = << >>
  /\ registryMutex' = NoOne
  /\ thread' = "none"
  /\ saverPc' = "none"
  /\ modelMutex' = NoOne
  /\ model' = 0
  /\ trainStepCount' = 0
  /\ runTraining' = FALSE
  /\ stale' = FALSE
  /\ pc' = AtRest
  /\ crashes' = crashes + 1
  /\ saved' = IF Rewriting THEN {} ELSE saved
  /\ UNCHANGED <<disk, saverName, name, exists, stepCount, requests, doubled>>

-----------------------------------------------------------------------------
(* saveCheckpoint, for a new checkpoint of the user or the backup.         *)

BeginSave(t, n, label) ==
  /\ name' = [name EXCEPT ![t] = n]
  /\ stepCount' = [stepCount EXCEPT ![t] = trainStepCount]
  /\ Goto(t, label)
  /\ UNCHANGED exists

(* TrainingManager::saveCheckpoint refuses a name that is taken.           *)
RefuseKnownName ==
  /\ pc[Timer] = "asked"
  /\ registryMutex = NoOne
  /\ Goto(Timer, IF IsRegistered(name[Timer], registry) THEN "idle" ELSE "check")
  /\ UNCHANGED <<disk, program, registry, registryMutex, saverVars, modelMutex, modelVars, name,
                 exists, stepCount, bounds, histories>>

(* Throws for a name of the user that was taken since; nothing on the      *)
(* timer thread catches what onUpdate throws.                              *)
CheckExists(t) ==
  /\ pc[t] = "check"
  /\ registryMutex = NoOne
  /\ exists' = [exists EXCEPT ![t] = IsRegistered(name[t], registry)]
  /\ program' = IF t = Timer /\ exists'[t] THEN "terminated" ELSE program
  /\ Goto(t, "register")
  /\ UNCHANGED <<disk, registry, registryMutex, saverVars, modelMutex, modelVars, name,
                 stepCount, bounds, histories>>

(* Adds an entry each time.                                                *)
Registered_Always(t) == Append(registry, [name |-> name[t], stepCount |-> stepCount[t]])

(* The first entry of the name gets the new step count, if it is still     *)
(* there.                                                                  *)
Registered(t) ==
  IF ~exists[t] THEN Append(registry, [name |-> name[t], stepCount |-> stepCount[t]])
  ELSE IF ~IsRegistered(name[t], registry) THEN registry
  ELSE [registry EXCEPT ![FirstOf(name[t])].stepCount = stepCount[t]]

(* Opening the registry file for writing empties it.                       *)
Register(t) ==
  /\ pc[t] = "register"
  /\ registryMutex = NoOne
  /\ registryMutex' = t
  /\ registry' = Registered(t)
  /\ registryFile' = << >>
  /\ doubled' = IF ~exists[t] /\ IsRegistered(name[t], registry) THEN doubled \cup {name[t]}
                                                                ELSE doubled
  /\ Goto(t, "saveRegistry")
  /\ UNCHANGED <<files, program, saverVars, modelMutex, modelVars, name, exists, stepCount,
                 bounds, saved>>

saveCurrentRegistryNoLock(t) ==
  /\ pc[t] \in {"saveRegistry", "saveAfterDelete"}
  /\ registryFile' = registry
  /\ registryMutex' = NoOne
  /\ Goto(t, IF pc[t] = "saveRegistry" THEN "join" ELSE "idle")
  /\ UNCHANGED <<files, program, registry, saverVars, modelMutex, modelVars, name, exists,
                 stepCount, bounds, histories>>

(* Waits for the checkpointing thread if there is one.                     *)
Joinable(t) ==
  /\ pc[t] = "join"
  /\ Goto(t, IF thread = "none" THEN "spawn" ELSE "joining")
  /\ UNCHANGED <<disk, program, registry, registryMutex, saverVars, modelMutex, modelVars, name,
                 exists, stepCount, bounds, histories>>

(* When both callers join the same thread the second join is undefined.    *)
Join(t) ==
  /\ pc[t] = "joining"
  /\ thread # "running"
  /\ thread' = "none"
  /\ program' \in IF thread = "none" THEN {"up", "terminated"} ELSE {program}
  /\ Goto(t, "spawn")
  /\ UNCHANGED <<disk, registry, registryMutex, saverPc, saverName, modelMutex, modelVars, name,
                 exists, stepCount, bounds, histories>>

(* Assigning to a joinable std::thread calls std::terminate.               *)
Spawn(t) ==
  /\ pc[t] = "spawn"
  /\ IF thread = "none"
     THEN /\ thread' = "running"
          /\ saverPc' = "start"
          /\ saverName' = name[t]
          /\ UNCHANGED program
     ELSE program' = "terminated" /\ UNCHANGED saverVars
  /\ Goto(t, "idle")
  /\ UNCHANGED <<disk, registry, registryMutex, modelMutex, modelVars, name, exists, stepCount,
                 bounds, histories>>

-----------------------------------------------------------------------------
(* The checkpointing thread: JaxInterface::saveCheckpoint, then the list   *)
(* for the user, which needs registryMutex_.                               *)

SaverLocksModel ==
  /\ saverPc = "start"
  /\ modelMutex = NoOne
  /\ modelMutex' = Saver
  /\ saverPc' = "model"
  /\ UNCHANGED <<disk, program, registry, registryMutex, thread, saverName, modelVars, callVars,
                 bounds, histories>>

AfterFile == [model |-> "target", target |-> "optimizer", optimizer |-> "list"]

(* The user has asked for the deletion of the checkpoint, which is under   *)
(* way.                                                                    *)
Deleting(n) ==
  pc[Timer] \in {"delete", "removeTarget", "removeOptimizer", "erase"} /\ name[Timer] = n

(* Holds on to the model until the list is sent.                           *)
SaverWrites_Holding ==
  /\ saverPc \in File
  /\ files' = [files EXCEPT ![saverName][saverPc] = model]
  /\ saverPc' = AfterFile[saverPc]
  /\ UNCHANGED <<registryFile, program, registry, registryMutex, thread, saverName, modelMutex,
                 modelVars, callVars, bounds, histories>>

(* With the last file the save of a checkpoint that is registered is       *)
(* complete, unless its deletion is asked for or has begun meanwhile.      *)
SaverWrites ==
  /\ saverPc \in File
  /\ files' = [files EXCEPT ![saverName][saverPc] = model]
  /\ saverPc' = AfterFile[saverPc]
  /\ modelMutex' = IF saverPc' = "list" THEN NoOne ELSE Saver
  /\ saved' = IF /\ saverPc' = "list"
                 /\ IsRegistered(saverName, registry) /\ ~Deleting(saverName)
                 /\ \A f \in File : files'[saverName][f] # NoVersion
              THEN saved \cup {saverName} ELSE saved
  /\ UNCHANGED <<registryFile, program, registry, registryMutex, thread, saverName, modelVars,
                 callVars, bounds, doubled>>

SaverEnds ==
  /\ saverPc = "list"
  /\ registryMutex = NoOne
  /\ saverPc' = "none"
  /\ thread' = "finished"
  /\ modelMutex' = IF modelMutex = Saver THEN NoOne ELSE modelMutex
  /\ UNCHANGED <<disk, program, registry, registryMutex, saverName, modelVars, callVars,
                 bounds, histories>>

-----------------------------------------------------------------------------
(* Requests of the user, on the timer thread.                              *)

Request(kind) ==
  /\ pc[Timer] = "idle"
  /\ kind \in Requests
  /\ requests < MaxRequests
  /\ requests' = requests + 1
  /\ UNCHANGED <<disk, program, registry, registryMutex, saverVars, modelMutex, crashes,
                 doubled>>

RequestSave(n) ==
  /\ Request("save")
  /\ BeginSave(Timer, n, "asked")
  /\ UNCHANGED <<modelVars, saved>>

(* Refused while training is to run.                                       *)
RequestLoad(n) ==
  /\ Request("load")
  /\ ~runTraining
  /\ name' = [name EXCEPT ![Timer] = n]
  /\ Goto(Timer, "load")
  /\ UNCHANGED <<modelVars, exists, stepCount, saved>>

RequestDelete(n) ==
  /\ Request("delete")
  /\ name' = [name EXCEPT ![Timer] = n]
  /\ Goto(Timer, "delete")
  /\ saved' = saved \ {n}
  /\ UNCHANGED <<modelVars, exists, stepCount>>

RequestStop ==
  /\ Request("stop")
  /\ runTraining' = FALSE
  /\ UNCHANGED <<model, trainStepCount, stale, callVars, saved>>

(* loadCheckpoint holds registryMutex_ until the model is loaded, and      *)
(* throws for a name that it does not find.                                *)
BeginLoad ==
  /\ pc[Timer] = "load"
  /\ registryMutex = NoOne
  /\ IF IsRegistered(name[Timer], registry)
     THEN registryMutex' = Timer /\ Goto(Timer, "loading") /\ UNCHANGED program
     ELSE program' = "terminated" /\ UNCHANGED <<registryMutex, pc>>
  /\ UNCHANGED <<disk, registry, saverVars, modelMutex, modelVars, name, exists, stepCount,
                 bounds, histories>>

(* JaxInterface::loadCheckpoint throws at a file that is missing.          *)
Load ==
  /\ pc[Timer] = "loading"
  /\ modelMutex = NoOne
  /\ IF IsWhole(name[Timer])
     THEN /\ model' = files[name[Timer]].model
          /\ trainStepCount' = registry[FirstOf(name[Timer])].stepCount
          /\ stale' = (stale \/ pc[Trainer] # "waiting")
          /\ registryMutex' = NoOne
          /\ Goto(Timer, "idle")
          /\ UNCHANGED program
     ELSE program' = "terminated" /\ UNCHANGED <<registryMutex, model, trainStepCount, stale, pc>>
  /\ UNCHANGED <<disk, registry, saverVars, modelMutex, runTraining, name, exists, stepCount,
                 bounds, histories>>

(* deleteCheckpoints removes one file after the other of a checkpoint that *)
(* it finds ...                                                            *)
Delete ==
  /\ pc[Timer] = "delete"
  /\ registryMutex = NoOne
  /\ registryMutex' = Timer
  /\ IF IsRegistered(name[Timer], registry)
     THEN /\ files' = [files EXCEPT ![name[Timer]].model = NoVersion]
          /\ Goto(Timer, "removeTarget")
          /\ UNCHANGED registryFile
     ELSE /\ registryFile' = << >>
          /\ Goto(Timer, "saveAfterDelete")
          /\ UNCHANGED files
  /\ UNCHANGED <<program, registry, saverVars, modelMutex, modelVars, name, exists, stepCount,
                 bounds, histories>>

RemoveTarget ==
  /\ pc[Timer] = "removeTarget"
  /\ files' = [files EXCEPT ![name[Timer]].target = NoVersion]
  /\ Goto(Timer, "removeOptimizer")
  /\ UNCHANGED <<registryFile, program, registry, registryMutex, saverVars, modelMutex,
                 modelVars, name, exists, stepCount, bounds, histories>>

RemoveOptimizer ==
  /\ pc[Timer] = "removeOptimizer"
  /\ files' = [files EXCEPT ![name[Timer]].optimizer = NoVersion]
  /\ Goto(Timer, "erase")
  /\ UNCHANGED <<registryFile, program, registry, registryMutex, saverVars, modelMutex,
                 modelVars, name, exists, stepCount, bounds, histories>>

(* ... then its entry, and writes the registry.                            *)
Erase ==
  /\ pc[Timer] = "erase"
  /\ registry' = RemoveAt(registry, FirstOf(name[Timer]))
  /\ registryFile' = << >>
  /\ Goto(Timer, "saveAfterDelete")
  /\ UNCHANGED <<files, program, registryMutex, saverVars, modelMutex, modelVars, name, exists,
                 stepCount, bounds, histories>>

-----------------------------------------------------------------------------
(* The training thread.                                                    *)

(* run fetches the model and enters the loop; it throws at a second start. *)
StartTraining ==
  /\ pc[Timer] = "idle"
  /\ pc[Trainer] = "waiting"
  /\ runTraining' = TRUE
  /\ Goto(Trainer, "idle")
  /\ UNCHANGED <<disk, program, registry, registryMutex, saverVars, modelMutex, model,
                 trainStepCount, stale, name, exists, stepCount, bounds, histories>>

(* An iteration of the loop goes on to its end whatever happens.           *)
BeginIteration ==
  /\ pc[Trainer] = "idle"
  /\ IF runTraining THEN model < MaxSteps /\ Goto(Trainer, "train") ELSE Goto(Trainer, "ended")
  /\ UNCHANGED <<disk, program, registry, registryMutex, saverVars, modelMutex, modelVars, name,
                 exists, stepCount, bounds, histories>>

(* Trains while the model is being saved.                                  *)
TrainModel_Unlocked ==
  /\ pc[Trainer] = "train"
  /\ model' = IF stale THEN model ELSE model + 1
  /\ Goto(Trainer, "count")
  /\ UNCHANGED <<disk, program, registry, registryMutex, saverVars, modelMutex, trainStepCount,
                 runTraining, stale, name, exists, stepCount, bounds, histories>>

TrainModel ==
  /\ pc[Trainer] = "train"
  /\ modelMutex = NoOne
  /\ model' = IF stale THEN model ELSE model + 1
  /\ Goto(Trainer, "count")
  /\ UNCHANGED <<disk, program, registry, registryMutex, saverVars, modelMutex, trainStepCount,
                 runTraining, stale, name, exists, stepCount, bounds, histories>>

CountStep ==
  /\ pc[Trainer] = "count"
  /\ trainStepCount' = trainStepCount + 1
  /\ Goto(Trainer, IF trainStepCount' % kTrainStepCheckpointInterval = 0 THEN "backup" ELSE "idle")
  /\ UNCHANGED <<disk, program, registry, registryMutex, saverVars, modelMutex, model,
                 runTraining, stale, name, exists, stepCount, bounds, histories>>

SaveBackup ==
  /\ pc[Trainer] = "backup"
  /\ BeginSave(Trainer, Backup, "check")
  /\ UNCHANGED <<disk, program, registry, registryMutex, saverVars, modelMutex, modelVars,
                 bounds, histories>>

-----------------------------------------------------------------------------
CallerStep(t) ==
  \/ CheckExists(t)
  \/ Register(t)
  \/ saveCurrentRegistryNoLock(t)
  \/ Joinable(t)
  \/ Join(t)
  \/ Spawn(t)

DeleteStep == Delete \/ RemoveTarget \/ RemoveOptimizer \/ Erase
TimerStep == RefuseKnownName \/ BeginLoad \/ Load \/ DeleteStep \/ CallerStep(Timer)
TrainerStep == BeginIteration \/ TrainModel \/ CountStep \/ SaveBackup \/ CallerStep(Trainer)
SaverStep == SaverLocksModel \/ SaverWrites \/ SaverEnds

Running ==
  \/ TimerStep
  \/ TrainerStep
  \/ SaverStep
  \/ \E n \in UiNames : RequestSave(n)
  \/ \E n \in Name : RequestLoad(n) \/ RequestDelete(n)
  \/ RequestStop
  \/ StartTraining

CheckpointsNext ==
  \/ Start
  \/ StartSaves
  \/ Crash
  \/ program = "up" /\ Running

CheckpointsSpec == CheckpointsInit /\ [][CheckpointsNext]_checkpointsVars

(* The program is started, and no thread of it stops being scheduled.      *)
CheckpointsFairSpec ==
  /\ CheckpointsSpec
  /\ WF_checkpointsVars(Start \/ StartSaves)
  /\ WF_checkpointsVars(program = "up" /\ TimerStep)
  /\ WF_checkpointsVars(program = "up" /\ TrainerStep)
  /\ WF_checkpointsVars(program = "up" /\ SaverStep)

-----------------------------------------------------------------------------
(* Properties.                                                             *)

CheckpointsTyped ==
  /\ registryFile \in Seq(Entry)
  /\ files \in [Name -> [File -> Nat \cup {NoVersion}]]
  /\ program \in {"down", "starting", "up", "hung", "terminated"}
  /\ registry \in Seq(Entry)
  /\ registryMutex \in Caller \cup {NoOne}
  /\ thread \in {"none", "running", "finished"}
  /\ saverPc \in {"none", "start", "list"} \cup File
  /\ saverName \in Name
  /\ modelMutex \in {Saver, NoOne}
  /\ {model, trainStepCount} \subseteq Nat
  /\ {runTraining, stale} \subseteq BOOLEAN
  /\ pc \in [Caller -> Place]
  /\ name \in [Caller -> Name]
  /\ exists \in [Caller -> BOOLEAN]
  /\ stepCount \in [Caller -> Nat]
  /\ saved \in SUBSET Name
  /\ doubled \in SUBSET Name

(* "Trying to create a checkpoint which already exists" (saveCheckpoint):  *)
(* no name is registered twice.  The existence is checked in one critical  *)
(* section and the entry added in another, and the user may take the name  *)
(* of the backup, so that the code does not promise it.                    *)
NamesUnique ==
  \A j, k \in DOMAIN registry : registry[j].name = registry[k].name => j = k

(* What that race can do (checkpointManager.cpp:90): only the backup, which*)
(* two threads save, is ever registered again, and no name is registered   *)
(* three times, whatever is saved, deleted and restarted in between.       *)
NamesTaken ==
  /\ \A j, k \in DOMAIN registry :
       registry[j].name = registry[k].name => j = k \/ registry[j].name = Backup
  /\ \A i, j, k \in DOMAIN registry :
       i < j /\ j < k => registry[i].name # registry[j].name \/ registry[j].name # registry[k].name

(* What holds of every state: types, and how often a name is registered.   *)
CheckpointsConsistent == CheckpointsTyped /\ NamesTaken

(* A checkpoint that a caller or the checkpointing thread is yet to write. *)
Pending(n) ==
  \/ \E t \in Caller : name[t] = n /\ pc[t] \in {"saveRegistry", "join", "joining", "spawn"}
  \/ thread = "running" /\ saverName = n /\ saverPc # "list"

(* A registered checkpoint that is not being written or deleted has all    *)
(* its files, from one and the same version of the network, although       *)
(* training goes on while they are written and other checkpoints are       *)
(* saved, loaded and deleted (JaxInterface::saveCheckpoint).  A crash may  *)
(* leave files of two versions, as what is there is overwritten in place;  *)
(* and of a name registered twice one entry is deleted with the files of   *)
(* both.                                                                   *)
CheckpointsAreWhole ==
  program = "up" /\ crashes = 0 =>
    \A e \in ToSet(registry) :
      ~Pending(e.name) /\ ~Deleting(e.name) /\ e.name \notin doubled =>
        IsWhole(e.name) /\ \A f \in File : files[e.name][f] = files[e.name].model

(* A checkpoint whose save was completed is registered with all its files  *)
(* until the user asks for its deletion, over any crash and start, except  *)
(* a crash in the moment in which the registry file is rewritten           *)
(* (CheckpointManager::saveCurrentRegistryNoLock).                         *)
SavedSurvives ==
  program = "up" => \A n \in saved : IsRegistered(n, registry) /\ IsWhole(n)

(* A crash never loses a checkpoint.  It does in that moment.              *)
NoCrashLosesCheckpoints ==
  [][program # "down" /\ program' = "down" => saved' = saved]_checkpointsVars

(* While the program lives a request of the user is dealt with:            *)
(* registryMutex_, modelMutex_ and the join of the checkpointing thread    *)
(* never wait for each other in turn.                                      *)
RequestsComplete == pc[Timer] # "idle" ~> pc[Timer] = "idle" \/ program # "up"

(* "Checkpointing thread is already running. Waiting for it to finish."    *)
(* (saveCheckpoint): a save never replaces a thread that is not joined.    *)
NeverTerminates == program # "terminated"

(* "Run the user interface after everything is constructed so that         *)
(* everyone is ready to receive requests from it." (hyperbot.cpp): a start *)
(* constructs everything.                                                  *)
StartCompletes == program = "down" ~> program = "up"

(* "Can not load checkpoint while training is running!"                    *)
(* (TrainingManager::onUpdate)                                             *)
NoLoadWhileTraining ==
  pc[Timer] = "loading" => pc[Trainer] \notin {"train", "count"}
=============================================================================
