------------------------- MODULE JaxInterfaceProofs -------------------------
(* Theorems about JaxInterface, for every bound and every interval: the    *)
(* selection of an action is overtaken at most once, no one sleeps for     *)
(* ever, and training acts on the network that selects actions.            *)
EXTENDS JaxInterface, TLAPS

USE JaxInterfaceAssumption

-----------------------------------------------------------------------------
(* The inductive invariants, each relative to those before it.             *)

InTraining == {"getModel", "getOptimizer", "getTargetModel", "loop", "addScalar", "train",
               "updateTargetModel", "backup", "dropHandles"}

(* Which thread is about what, and where it can be in that.                *)
OpsMatch ==
  /\ op[Trainer] \in Preparing \cup {"dropDummies", "await"} \cup InTraining
  /\ op[Timer] \in Request \cup {"idle", "selectAction", "report", "loadCheckpoint"}
  /\ op[Saver] \in {"idle", "saveCheckpoint"}

PlacesMatch ==
  \A t \in Thread :
       /\ at[t] = "here" <=> op[t] \in Elsewhere
       /\ at[t] = "raise" => op[t] \in Selecting
       /\ at[t] = "mutex" => op[t] \in ModelOperation
       /\ at[t] = "asleep" => op[t] \in Waiting
       /\ at[t] = "notify" => op[t] \in Selecting \cup Waiting
       /\ threw[t] => op[t] \in Failing

(* There are bots once the precompilation is over.                         *)
BotsComeLater ==
  /\ op[Trainer] \in Preparing => ~sessions
  /\ op[Timer] \in {"selectAction", "report"} => sessions

(* The mutex and the interpreter lock are with whom they should be.        *)
Inside(t) == at[t] \in {"gil", "work"} /\ op[t] \in ModelOperation
LocksMatch ==
  \A t \in Thread : /\ modelMutex = t <=> Inside(t)
                    /\ gil = t <=> at[t] = "work"

(* The flag is up while a selection waits, which is one at a time.         *)
FlagMatches ==
  waitingToSelectAction <=> \E t \in Thread : op[t] \in Selecting /\ at[t] = "mutex"

(* A long operation that is inside when the flag is raised may still       *)
(* finish.                                                                 *)
NoneIsLeft ==
  waitingToSelectAction /\ overtaken # 0
  => \A t \in Thread : Inside(t) => op[t] \notin Waiting

(* While the user wants training no load goes on, and what train has       *)
(* fetched is what there is.                                               *)
FetchedModel ==
  \/ op[Trainer] \in InTraining \ {"getModel", "dropHandles"}
  \/ op[Trainer] = "getModel" /\ at[Trainer] = "done"
FetchedOptimizer ==
  \/ op[Trainer] \in InTraining \ {"getModel", "getOptimizer", "dropHandles"}
  \/ op[Trainer] = "getOptimizer" /\ at[Trainer] = "done"
HandlesMatch ==
  /\ runTrainingMutex = Trainer <=> op[Trainer] \in InTraining
  /\ runTraining => /\ op[Timer] # "loadCheckpoint"
                    /\ op[Trainer] # "dropHandles"
                    /\ FetchedModel => handles.model = model
                    /\ FetchedOptimizer => handles.optimizer = optimizerState

SelectionInv ==
  /\ TypeOK /\ OpsMatch /\ PlacesMatch /\ BotsComeLater /\ LocksMatch /\ FlagMatches
  /\ NoneIsLeft /\ SelectionOvertakenOnce /\ SleepersWillBeWoken

IInv == SelectionInv /\ HandlesMatch

-----------------------------------------------------------------------------
(* Where operations begin.                                                 *)

LEMMA EntryPlace ==
  ASSUME NEW o \in Operation
  PROVE  /\ Entry(o) \in {"raise", "mutex", "gil", "here"}
         /\ Entry(o) = "raise" <=> o \in Selecting
         /\ Entry(o) = "mutex" <=> o \in ModelOperation \ Selecting
         /\ Entry(o) = "gil" <=> o \in OnlyPython
         /\ Entry(o) = "here" <=> o \in Elsewhere
BY DEF Entry, Operation, ModelOperation, Selecting, Getting, Waiting, OnlyPython, Elsewhere,
       Request

(* A step of a program: no lock is touched, and each thread either stays   *)
(* where it is or begins its next operation.                               *)
Program ==
  \/ TrainerStep \/ TimerStep \/ SaverEnds
  \/ SelectAction \/ \E r \in Request : HandleRequest(r)
  \/ ReadPacket \/ PacketRead

Stays(t) == op'[t] = op[t] /\ at'[t] = at[t] /\ threw'[t] = threw[t]
Begins(t) ==
  /\ at[t] \in {"here", "done"}
  /\ op'[t] \in Operation
  /\ at'[t] = Entry(op'[t])
  /\ ~threw'[t]

ProgramShape ==
  /\ UNCHANGED <<locks, overtaken>>
  /\ \A t \in Thread : Stays(t) \/ Begins(t)
  /\ op' \in [Thread -> Operation]
  /\ at' \in [Thread -> Places]
  /\ threw' \in [Thread -> BOOLEAN]

LEMMA BeginShape ==
  ASSUME TypeOK, NEW t \in Thread, NEW o \in Operation, at[t] \in {"here", "done"},
         Begin(t, o), UNCHANGED <<locks, overtaken>>
  PROVE  ProgramShape /\ op' = [op EXCEPT ![t] = o]
<1>1. Entry(o) \in Places
  BY EntryPlace DEF Places
<1> QED BY <1>1 DEF Begin, ProgramShape, Stays, Begins, TypeOK

LEMMA SpawnShape ==
  ASSUME TypeOK, PlacesMatch, NEW t \in {Timer, Trainer}, NEW o \in {"idle", "loop"},
         at[t] = "here", Spawn(t, o), UNCHANGED <<locks, overtaken>>
  PROVE  ProgramShape /\ op' = [op EXCEPT ![Saver] = "saveCheckpoint", ![t] = o]
<1>1. /\ {"idle", "loop"} \subseteq Elsewhere \cap Operation
      /\ "saveCheckpoint" \in Operation \cap (ModelOperation \ Selecting)
      /\ op[Saver] \in Elsewhere \ Failing
  BY DEF Spawn, Operation, Elsewhere, ModelOperation, Waiting, Selecting, Request
<1>2. Entry("saveCheckpoint") = "mutex" /\ Entry(o) = "here"
  BY <1>1, EntryPlace
<1>3. at[Saver] = "here" /\ ~threw[Saver]
  BY <1>1 DEF PlacesMatch, Thread, TypeOK
<1>4. op[t] \notin Failing => ~threw[t]
  BY DEF PlacesMatch, Thread
<1>5. ~threw[t]
  <2>1. op[t] \in Elsewhere
    BY DEF PlacesMatch, Thread
  <2>2. Elsewhere \cap Failing = {}
    BY DEF Elsewhere, Request
  <2> QED BY <1>4, <2>1, <2>2
<1> QED BY <1>1, <1>2, <1>3, <1>5 DEF Spawn, ProgramShape, Stays, Begins, TypeOK, Thread, Places

(* How the training thread goes on.                                        *)
LEMMA ThenProgram ==
  ASSUME op[Trainer] \in DOMAIN Then
  PROVE  LET o == op[Trainer]
             n == Then[o]
         IN  /\ o \in Preparing \cup {"dropDummies"}
                => n \in Preparing \cup {"dropDummies", "await"}
             /\ o \in {"getModel", "getOptimizer", "getTargetModel", "addScalar"}
                => n \in InTraining \ {"dropHandles", "getModel"}
             /\ o \in Preparing \cup {"dropDummies", "getModel", "getOptimizer",
                                       "getTargetModel", "addScalar"}
             /\ o = "dropDummies" => n = "await"
             /\ o = "getModel" <=> n = "getOptimizer"
             /\ o = "getOptimizer" <=> n = "getTargetModel"
<1> DEFINE o == op[Trainer]
<1>1. \/ o = "initialize" /\ Then[o] = "getDummyModel"
      \/ o = "getDummyModel" /\ Then[o] = "getDummyOptimizer"
      \/ o = "getDummyOptimizer" /\ Then[o] = "getDummyTargetModel"
      \/ o = "getDummyTargetModel" /\ Then[o] = "precompileSelect"
      \/ o = "precompileSelect" /\ Then[o] = "precompileTrain"
      \/ o = "precompileTrain" /\ Then[o] = "dropDummies"
      \/ o = "dropDummies" /\ Then[o] = "await"
      \/ o = "getModel" /\ Then[o] = "getOptimizer"
      \/ o = "getOptimizer" /\ Then[o] = "getTargetModel"
      \/ o = "getTargetModel" /\ Then[o] = "loop"
      \/ o = "addScalar" /\ Then[o] = "train"
  BY DEF Then
<1> HIDE DEF o
<1> QED BY <1>1 DEF o, Preparing, InTraining

LEMMA Names ==
  /\ Preparing \cup {"dropDummies", "await"} \cup InTraining \subseteq Operation
  /\ Request \cup {"idle", "selectAction", "report", "loadCheckpoint", "saveCheckpoint"}
       \subseteq Operation
  /\ Preparing \cap InTraining = {}
  /\ {"dropDummies", "await"} \cap (Preparing \cup InTraining) = {}
BY DEF Operation, ModelOperation, OnlyPython, Elsewhere, Request, Selecting, Getting, Waiting,
       Preparing, InTraining

(* The training thread begins o.                                           *)
LEMMA TrainerBegins ==
  ASSUME TypeOK, OpsMatch, BotsComeLater,
         NEW o \in Preparing \cup {"dropDummies", "await"} \cup InTraining,
         at[Trainer] \in {"here", "done"}, Begin(Trainer, o), UNCHANGED <<locks, overtaken>>,
         o \in Preparing => op[Trainer] \in Preparing /\ UNCHANGED sessions,
         sessions => sessions'
  PROVE  ProgramShape /\ OpsMatch' /\ BotsComeLater'
<1>1. o \in Operation
  BY Names
<1>2. ProgramShape /\ op' = [op EXCEPT ![Trainer] = o]
  BY <1>1, BeginShape DEF Thread
<1>3. op'[Trainer] = o /\ op'[Timer] = op[Timer] /\ op'[Saver] = op[Saver]
  BY <1>2 DEF TypeOK, Thread
<1> QED BY <1>2, <1>3 DEF OpsMatch, BotsComeLater

(* The timer thread begins o.                                              *)
LEMMA TimerBegins ==
  ASSUME TypeOK, OpsMatch, BotsComeLater,
         NEW o \in Request \cup {"idle", "selectAction", "report", "loadCheckpoint"},
         at[Timer] \in {"here", "done"}, Begin(Timer, o), UNCHANGED <<locks, overtaken>>,
         o \in {"selectAction", "report"} => sessions,
         UNCHANGED sessions
  PROVE  ProgramShape /\ OpsMatch' /\ BotsComeLater'
<1>1. o \in Operation
  BY Names
<1>2. ProgramShape /\ op' = [op EXCEPT ![Timer] = o]
  BY <1>1, BeginShape DEF Thread
<1>3. op'[Timer] = o /\ op'[Trainer] = op[Trainer] /\ op'[Saver] = op[Saver]
  BY <1>2 DEF TypeOK, Thread
<1> QED BY <1>2, <1>3 DEF OpsMatch, BotsComeLater

LEMMA TrainerProgram ==
  ASSUME TypeOK, OpsMatch, PlacesMatch, BotsComeLater, TrainerStep
  PROVE  ProgramShape /\ OpsMatch' /\ BotsComeLater'
<1>1. CASE GoOn
  <2>1. /\ Then[op[Trainer]] \in Preparing \cup {"dropDummies", "await"} \cup InTraining
        /\ Then[op[Trainer]] \in Preparing => op[Trainer] \in Preparing
    <3>1. {"getModel", "getOptimizer", "getTargetModel", "addScalar"} \cap Preparing = {}
      BY DEF Preparing
    <3> QED BY <1>1, <3>1, ThenProgram, Names DEF GoOn
  <2> QED BY <1>1, <2>1, TrainerBegins DEF GoOn, training
<1>2. CASE StartTraining
  <2>1. CASE once
    BY <1>2, <2>1 DEF StartTraining, ProgramShape, Stays, places, OpsMatch, BotsComeLater, TypeOK
  <2>2. CASE ~once
    <3>1. "getModel" \in InTraining \ Preparing
      BY DEF InTraining, Preparing
    <3> QED BY <1>2, <2>2, <3>1, TrainerBegins DEF StartTraining, Is
  <2> QED BY <2>1, <2>2
<1>3. CASE Iterate
  <2>1. "addScalar" \in InTraining \ Preparing
    BY DEF InTraining, Preparing
  <2> QED BY <1>3, <2>1, TrainerBegins DEF Iterate, Is, training
<1>4. CASE CountStep
  <2>1. AfterStep(trainStepCount') \in InTraining \ Preparing
    BY DEF AfterStep, AfterUpdate, InTraining, Preparing
  <2> QED BY <1>4, <2>1, TrainerBegins DEF CountStep, Done
<1>5. CASE TargetUpdated
  <2>1. AfterUpdate(trainStepCount) \in InTraining \ Preparing
    BY DEF AfterUpdate, InTraining, Preparing
  <2> QED BY <1>5, <2>1, TrainerBegins DEF TargetUpdated, Done, training
<1>6. CASE CatchWhileTraining
  <2>1. "loop" \in InTraining \ Preparing
    BY DEF InTraining, Preparing
  <2> QED BY <1>6, <2>1, TrainerBegins DEF CatchWhileTraining, training
<1>7. CASE SaveBackup
  <2>1. ProgramShape /\ op' = [op EXCEPT ![Saver] = "saveCheckpoint", ![Trainer] = "loop"]
    BY <1>7, SpawnShape DEF SaveBackup, Is
  <2>2. op'[Trainer] = "loop" /\ op'[Timer] = op[Timer] /\ op'[Saver] = "saveCheckpoint"
    BY <2>1 DEF TypeOK, Thread
  <2>3. "loop" \in InTraining \ Preparing
    BY DEF InTraining, Preparing
  <2> QED BY <1>7, <2>1, <2>2, <2>3 DEF SaveBackup, OpsMatch, BotsComeLater, training
<1>8. CASE StopIterating
  <2>1. "dropHandles" \in InTraining \ Preparing
    BY DEF InTraining, Preparing
  <2> QED BY <1>8, <2>1, TrainerBegins DEF StopIterating, Is, training
<1>9. CASE TrainReturns
  <2>1. "await" \notin Preparing
    BY DEF Preparing
  <2> QED BY <1>9, <2>1, TrainerBegins DEF TrainReturns, Done
<1> QED BY <1>1, <1>2, <1>3, <1>4, <1>5, <1>6, <1>7, <1>8, <1>9 DEF TrainerStep

LEMMA TimerProgram ==
  ASSUME TypeOK, OpsMatch, PlacesMatch, BotsComeLater,
         TimerStep \/ SelectAction \/ \E r \in Request : HandleRequest(r)
  PROVE  ProgramShape /\ OpsMatch' /\ BotsComeLater'
<1>1. CASE Start
  BY <1>1, TimerBegins DEF Start, Handled, Is
<1>2. CASE Stop
  BY <1>2, TimerBegins DEF Stop, Handled, Is
<1>3. CASE Save
  <2>1. ProgramShape /\ op' = [op EXCEPT ![Saver] = "saveCheckpoint", ![Timer] = "idle"]
    BY <1>3, SpawnShape DEF Save, GiveBack, Is
  <2>2. op'[Timer] = "idle" /\ op'[Trainer] = op[Trainer] /\ op'[Saver] = "saveCheckpoint"
    BY <2>1 DEF TypeOK, Thread
  <2> QED BY <1>3, <2>1, <2>2 DEF Save, OpsMatch, BotsComeLater, training
<1>4. CASE RefuseSave \/ RefuseLoad
  BY <1>4, TimerBegins DEF RefuseSave, RefuseLoad, Handled, Is, training
<1>5. CASE Load
  BY <1>5, TimerBegins DEF Load, Is, training
<1>6. CASE Loaded
  BY <1>6, TimerBegins DEF Loaded, Handled, Done
<1>7. CASE Report
  BY <1>7, TimerBegins DEF Report, Done, training, BotsComeLater
<1>8. CASE Reported
  BY <1>8, TimerBegins DEF Reported, Handled, Done, training
<1>9. CASE SelectionThrew
  BY <1>9, TimerBegins DEF SelectionThrew, Done, training
<1>10. CASE SelectAction
  BY <1>10, TimerBegins DEF SelectAction, Is, training
<1>11. ASSUME NEW r \in Request, HandleRequest(r)
       PROVE  ProgramShape /\ OpsMatch' /\ BotsComeLater'
  BY <1>11, TimerBegins DEF HandleRequest, Is, training, Request
<1> QED BY <1>1, <1>2, <1>3, <1>4, <1>5, <1>6, <1>7, <1>8, <1>9, <1>10, <1>11 DEF TimerStep

LEMMA ProgramStep ==
  ASSUME TypeOK, OpsMatch, PlacesMatch, BotsComeLater, Program
  PROVE  ProgramShape /\ OpsMatch' /\ BotsComeLater'
<1>1. CASE SaverEnds
  <2>1. ProgramShape /\ op' = [op EXCEPT ![Saver] = "idle"]
    BY <1>1, BeginShape, Names DEF SaverEnds, Done, Thread
  <2>2. op'[Saver] = "idle" /\ op'[Trainer] = op[Trainer] /\ op'[Timer] = op[Timer]
    BY <2>1 DEF TypeOK, Thread
  <2> QED BY <1>1, <2>1, <2>2 DEF SaverEnds, OpsMatch, BotsComeLater, training
<1>2. CASE ReadPacket \/ PacketRead
  BY <1>2 DEF ReadPacket, PacketRead, ProgramShape, Stays, places, training, OpsMatch,
              BotsComeLater, TypeOK
<1> QED BY <1>1, <1>2, TrainerProgram, TimerProgram DEF Program

(* Programs leave the locks, the flag and the sleepers as they are.        *)
LEMMA ProgramKeepsLocks ==
  ASSUME PlacesMatch, LocksMatch, FlagMatches, NoneIsLeft, SelectionOvertakenOnce,
         SleepersWillBeWoken, ProgramShape
  PROVE  /\ PlacesMatch' /\ LocksMatch' /\ FlagMatches' /\ NoneIsLeft'
         /\ SelectionOvertakenOnce' /\ SleepersWillBeWoken'
<1>1. ASSUME NEW t \in Thread, Begins(t)
      PROVE  /\ at'[t] \in {"raise", "mutex", "gil", "here"}
             /\ at'[t] = "here" <=> op'[t] \in Elsewhere
             /\ at'[t] = "raise" <=> op'[t] \in Selecting
             /\ at'[t] = "mutex" <=> op'[t] \in ModelOperation \ Selecting
             /\ at'[t] = "gil" <=> op'[t] \in OnlyPython
             /\ ~threw'[t]
  BY <1>1, EntryPlace DEF Begins
<1>2. \A t \in Thread : Stays(t) \/ Begins(t)
  BY DEF ProgramShape
<1>3. OnlyPython \cap ModelOperation = {}
  BY DEF OnlyPython, ModelOperation, Selecting, Getting, Waiting
<1>4. PlacesMatch'
  <2> SUFFICES ASSUME NEW t \in Thread
               PROVE  /\ at'[t] = "here" <=> op'[t] \in Elsewhere
                      /\ at'[t] = "raise" => op'[t] \in Selecting
                      /\ at'[t] = "mutex" => op'[t] \in ModelOperation
                      /\ at'[t] = "asleep" => op'[t] \in Waiting
                      /\ at'[t] = "notify" => op'[t] \in Selecting \cup Waiting
                      /\ threw'[t] => op'[t] \in Failing
    BY DEF PlacesMatch
  <2>1. CASE Stays(t)
    BY <2>1 DEF Stays, PlacesMatch
  <2>2. CASE Begins(t)
    BY <2>2, <1>1
  <2> QED BY <1>2, <2>1, <2>2
<1>5. \A t \in Thread : /\ Inside(t)' <=> Inside(t)
                        /\ at'[t] = "work" <=> at[t] = "work"
                        /\ at'[t] = "asleep" <=> at[t] = "asleep"
                        /\ op'[t] \in Selecting /\ at'[t] = "mutex"
                           <=> op[t] \in Selecting /\ at[t] = "mutex"
                        /\ Inside(t) => op'[t] = op[t]
  <2> SUFFICES ASSUME NEW t \in Thread
               PROVE  /\ Inside(t)' <=> Inside(t)
                      /\ at'[t] = "work" <=> at[t] = "work"
                      /\ at'[t] = "asleep" <=> at[t] = "asleep"
                      /\ op'[t] \in Selecting /\ at'[t] = "mutex"
                         <=> op[t] \in Selecting /\ at[t] = "mutex"
                      /\ Inside(t) => op'[t] = op[t]
    OBVIOUS
  <2>1. CASE Stays(t)
    BY <2>1 DEF Stays, Inside
  <2>2. CASE Begins(t)
    BY <2>2, <1>1, <1>3 DEF Begins, Inside
  <2> QED BY <1>2, <2>1, <2>2
<1>6. UNCHANGED <<modelMutex, gil, waitingToSelectAction, overtaken>>
  BY DEF ProgramShape, locks
<1>7. LocksMatch'
  BY <1>5, <1>6 DEF LocksMatch
<1>8. FlagMatches'
  BY <1>5, <1>6 DEF FlagMatches
<1>9. NoneIsLeft'
  BY <1>5, <1>6 DEF NoneIsLeft
<1>10. SelectionOvertakenOnce'
  BY <1>6 DEF SelectionOvertakenOnce
<1>11. SleepersWillBeWoken'
  <2> SUFFICES ASSUME NEW t \in Thread, at'[t] = "asleep"
               PROVE  SleepersWillBeWoken'
    BY DEF SleepersWillBeWoken
  <2>1. PICK u \in Thread : op[u] \in Selecting /\ at[u] \in {"mutex", "gil", "work", "notify"}
    BY <1>5 DEF SleepersWillBeWoken
  <2>2. Stays(u)
    BY <1>2, <2>1 DEF Begins
  <2> QED BY <2>1, <2>2 DEF SleepersWillBeWoken, Stays
<1> QED BY <1>4, <1>7, <1>8, <1>9, <1>10, <1>11

-----------------------------------------------------------------------------
(* The steps of an operation.                                              *)

(* One action is selected at a time.                                       *)
LEMMA OneSelects ==
  ASSUME OpsMatch, BotsComeLater, NEW t \in Thread, NEW u \in Thread,
         op[t] \in Selecting, op[u] \in Selecting
  PROVE  t = u
<1>1. op[Trainer] = "precompileSelect" => ~sessions
  BY DEF BotsComeLater, Preparing
<1>2. op[Timer] = "selectAction" => sessions
  BY DEF BotsComeLater
<1>3. op[Saver] \notin Selecting
  BY DEF OpsMatch, Selecting
<1>4. op[Timer] \in Selecting => op[Timer] = "selectAction"
  BY DEF OpsMatch, Selecting, Request
<1>5. op[Trainer] \in Selecting => op[Trainer] = "precompileSelect"
  BY DEF OpsMatch, Selecting, Preparing, InTraining
<1> QED BY <1>1, <1>2, <1>3, <1>4, <1>5 DEF Thread

LEMMA Kinds ==
  /\ ModelOperation = Selecting \cup Getting \cup Waiting
  /\ Selecting \cap (Getting \cup Waiting) = {}
  /\ ModelOperation \cap (OnlyPython \cup Elsewhere) = {}
BY DEF ModelOperation, Selecting, Getting, Waiting, OnlyPython, Elsewhere, Request

(* The operations stay.                                                    *)
LEMMA SameOperations ==
  ASSUME OpsMatch, BotsComeLater, UNCHANGED <<op, sessions>>
  PROVE  OpsMatch' /\ BotsComeLater'
BY DEF OpsMatch, BotsComeLater

LEMMA KeepsRaiseFlag ==
  ASSUME SelectionInv, NEW t \in Thread, RaiseFlag(t)
  PROVE  SelectionInv'
<1> USE DEF SelectionInv
<1>1. /\ at[t] = "raise"
      /\ at' = [at EXCEPT ![t] = "mutex"]
      /\ UNCHANGED op
  BY DEF RaiseFlag, Move
<1>2. /\ at'[t] = "mutex"
      /\ \A u \in Thread : u # t => at'[u] = at[u]
      /\ \A u \in Thread : op'[u] = op[u]
  BY <1>1 DEF TypeOK
<1>3. OpsMatch' /\ BotsComeLater'
  BY SameOperations DEF RaiseFlag, Move, training
<1>4. TypeOK'
  BY <1>1 DEF RaiseFlag, Move, TypeOK, Places, locks, models, training, world, bounds
<1>5. PlacesMatch'
  BY <1>2, Kinds DEF RaiseFlag, Move, PlacesMatch
<1>6. LocksMatch'
  <2>1. /\ modelMutex' = modelMutex
        /\ gil' = gil
    BY DEF RaiseFlag, locks
  <2>2. Inside(t)' <=> Inside(t)
    BY <1>1, <1>2, Kinds DEF Inside, PlacesMatch
  <2>3. \A u \in Thread : u # t => (Inside(u)' <=> Inside(u))
    BY <1>2 DEF Inside
  <2>4. Nobody \notin Thread
    BY DEF Thread
  <2>5. modelMutex \in Thread \cup {Nobody} /\ gil \in Thread \cup {Nobody}
    BY <1>1 DEF LocksMatch, Inside, RaiseFlag, TypeOK
  <2> QED BY <1>1, <1>2, <2>1, <2>2, <2>3, <2>4, <2>5 DEF LocksMatch
<1>7. FlagMatches'
  BY <1>1, <1>2, Kinds DEF RaiseFlag, FlagMatches, PlacesMatch, locks
<1>8. NoneIsLeft' /\ SelectionOvertakenOnce'
  <2>1. \A u \in Thread : Inside(u)' <=> Inside(u)
    BY <1>1, <1>2, Kinds DEF Inside, PlacesMatch
  <2> QED BY <1>2, <2>1 DEF RaiseFlag, NoneIsLeft, SelectionOvertakenOnce, locks, TypeOK
<1>9. SleepersWillBeWoken'
  BY <1>2, Kinds DEF RaiseFlag, SleepersWillBeWoken
<1> QED BY <1>3, <1>4, <1>5, <1>6, <1>7, <1>8, <1>9

LEMMA KeepsLockModel ==
  ASSUME SelectionInv, NEW t \in Thread, LockModel(t)
  PROVE  SelectionInv'
<1> USE DEF SelectionInv
<1>1. /\ at[t] = "mutex"
      /\ at' = [at EXCEPT ![t] = "gil"]
      /\ UNCHANGED op
  BY DEF LockModel, Move
<1>2. /\ at'[t] = "gil"
      /\ \A u \in Thread : u # t => at'[u] = at[u]
      /\ \A u \in Thread : op'[u] = op[u]
  BY <1>1 DEF TypeOK
<1>3. OpsMatch' /\ BotsComeLater'
  BY SameOperations DEF LockModel, Move, training
<1>4. TypeOK'
  BY <1>1 DEF LockModel, Move, TypeOK, Places, locks, models, training, world, bounds
<1>5. PlacesMatch'
  BY <1>2, Kinds DEF LockModel, Move, PlacesMatch
<1>6. LocksMatch'
  <2>1. /\ modelMutex' = t
        /\ gil' = gil
    BY DEF LockModel, locks
  <2>2. Inside(t)' /\ ~Inside(t)
    BY <1>1, <1>2, Kinds DEF Inside, PlacesMatch
  <2>3. \A u \in Thread : u # t => (Inside(u)' <=> Inside(u))
    BY <1>2 DEF Inside
  <2>4. Nobody \notin Thread
    BY DEF Thread
  <2>5. modelMutex = Nobody /\ gil \in Thread \cup {Nobody}
    BY <1>1 DEF LocksMatch, Inside, LockModel, TypeOK
  <2> QED BY <1>1, <1>2, <2>1, <2>2, <2>3, <2>4, <2>5 DEF LocksMatch
<1>7. FlagMatches'
  BY <1>1, <1>2, Kinds, OneSelects DEF LockModel, FlagMatches, PlacesMatch, locks
<1>8. NoneIsLeft' /\ SelectionOvertakenOnce'
  BY <1>2, Kinds DEF LockModel, NoneIsLeft, SelectionOvertakenOnce, Inside, TypeOK, locks, Waits
<1>9. SleepersWillBeWoken'
  BY <1>2, Kinds DEF LockModel, SleepersWillBeWoken
<1> QED BY <1>3, <1>4, <1>5, <1>6, <1>7, <1>8, <1>9

LEMMA KeepsFallAsleep ==
  ASSUME SelectionInv, NEW t \in Thread, FallAsleep(t)
  PROVE  SelectionInv'
<1> USE DEF SelectionInv
<1>1. /\ at[t] = "mutex"
      /\ at' = [at EXCEPT ![t] = "asleep"]
      /\ UNCHANGED op
  BY DEF FallAsleep, Move
<1>2. /\ at'[t] = "asleep"
      /\ \A u \in Thread : u # t => at'[u] = at[u]
      /\ \A u \in Thread : op'[u] = op[u]
  BY <1>1 DEF TypeOK
<1>3. OpsMatch' /\ BotsComeLater'
  BY SameOperations DEF FallAsleep, Move, training
<1>4. TypeOK'
  BY <1>1 DEF FallAsleep, Move, TypeOK, Places, locks, models, training, world, bounds
<1>5. PlacesMatch'
  BY <1>2, Kinds DEF FallAsleep, Move, PlacesMatch, Waits
<1>6. LocksMatch'
  <2>1. /\ modelMutex' = modelMutex
        /\ gil' = gil
    BY DEF FallAsleep, locks
  <2>2. Inside(t)' <=> Inside(t)
    BY <1>1, <1>2, Kinds DEF Inside, PlacesMatch
  <2>3. \A u \in Thread : u # t => (Inside(u)' <=> Inside(u))
    BY <1>2 DEF Inside
  <2>4. Nobody \notin Thread
    BY DEF Thread
  <2>5. modelMutex \in Thread \cup {Nobody} /\ gil \in Thread \cup {Nobody}
    BY <1>1 DEF LocksMatch, Inside, FallAsleep, TypeOK
  <2> QED BY <1>1, <1>2, <2>1, <2>2, <2>3, <2>4, <2>5 DEF LocksMatch
<1>7. FlagMatches'
  BY <1>1, <1>2, Kinds DEF FallAsleep, FlagMatches, PlacesMatch, locks, Waits
<1>8. NoneIsLeft' /\ SelectionOvertakenOnce'
  <2>1. \A u \in Thread : Inside(u)' <=> Inside(u)
    BY <1>1, <1>2, Kinds DEF Inside, PlacesMatch
  <2> QED BY <1>2, <2>1 DEF FallAsleep, NoneIsLeft, SelectionOvertakenOnce, locks, TypeOK
<1>9. SleepersWillBeWoken'
  BY <1>2, Kinds DEF FallAsleep, SleepersWillBeWoken, Waits, FlagMatches
<1> QED BY <1>3, <1>4, <1>5, <1>6, <1>7, <1>8, <1>9

LEMMA KeepsSpuriousWakeup ==
  ASSUME SelectionInv, NEW t \in Thread, SpuriousWakeup(t)
  PROVE  SelectionInv'
<1> USE DEF SelectionInv
<1>1. /\ at[t] = "asleep"
      /\ at' = [at EXCEPT ![t] = "mutex"]
      /\ UNCHANGED op
  BY DEF SpuriousWakeup, Move
<1>2. /\ at'[t] = "mutex"
      /\ \A u \in Thread : u # t => at'[u] = at[u]
      /\ \A u \in Thread : op'[u] = op[u]
  BY <1>1 DEF TypeOK
<1>3. OpsMatch' /\ BotsComeLater'
  BY SameOperations DEF SpuriousWakeup, Move, training
<1>4. TypeOK'
  BY <1>1 DEF SpuriousWakeup, Move, TypeOK, Places, locks, models, training, world, bounds
<1>5. PlacesMatch'
  BY <1>2, Kinds DEF SpuriousWakeup, Move, PlacesMatch
<1>6. LocksMatch'
  <2>1. /\ modelMutex' = modelMutex
        /\ gil' = gil
    BY DEF SpuriousWakeup, locks
  <2>2. Inside(t)' <=> Inside(t)
    BY <1>1, <1>2, Kinds DEF Inside, PlacesMatch
  <2>3. \A u \in Thread : u # t => (Inside(u)' <=> Inside(u))
    BY <1>2 DEF Inside
  <2>4. Nobody \notin Thread
    BY DEF Thread
  <2>5. modelMutex \in Thread \cup {Nobody} /\ gil \in Thread \cup {Nobody}
    BY <1>1 DEF LocksMatch, Inside, SpuriousWakeup, TypeOK
  <2> QED BY <1>1, <1>2, <2>1, <2>2, <2>3, <2>4, <2>5 DEF LocksMatch
<1>7. FlagMatches'
  BY <1>1, <1>2, Kinds DEF SpuriousWakeup, FlagMatches, PlacesMatch, locks
<1>8. NoneIsLeft' /\ SelectionOvertakenOnce'
  <2>1. \A u \in Thread : Inside(u)' <=> Inside(u)
    BY <1>1, <1>2, Kinds DEF Inside, PlacesMatch
  <2> QED BY <1>2, <2>1 DEF SpuriousWakeup, NoneIsLeft, SelectionOvertakenOnce, locks, TypeOK
<1>9. SleepersWillBeWoken'
  BY <1>2, Kinds DEF SpuriousWakeup, SleepersWillBeWoken
<1> QED BY <1>3, <1>4, <1>5, <1>6, <1>7, <1>8, <1>9

LEMMA KeepsTakeGil ==
  ASSUME SelectionInv, NEW t \in Thread, TakeGil(t)
  PROVE  SelectionInv'
<1> USE DEF SelectionInv
<1>1. /\ at[t] = "gil"
      /\ at' = [at EXCEPT ![t] = "work"]
      /\ UNCHANGED op
  BY DEF TakeGil, Move
<1>2. /\ at'[t] = "work"
      /\ \A u \in Thread : u # t => at'[u] = at[u]
      /\ \A u \in Thread : op'[u] = op[u]
  BY <1>1 DEF TypeOK
<1>3. OpsMatch' /\ BotsComeLater'
  BY SameOperations DEF TakeGil, Move, training
<1>4. TypeOK'
  BY <1>1 DEF TakeGil, Move, TypeOK, Places, locks, models, training, world, bounds
<1>5. PlacesMatch'
  BY <1>2, Kinds DEF TakeGil, Move, PlacesMatch
<1>6. LocksMatch'
  <2>1. /\ modelMutex' = modelMutex
        /\ gil' = t
    BY DEF TakeGil, locks
  <2>2. Inside(t)' <=> Inside(t)
    BY <1>1, <1>2, Kinds DEF Inside, PlacesMatch
  <2>3. \A u \in Thread : u # t => (Inside(u)' <=> Inside(u))
    BY <1>2 DEF Inside
  <2>4. Nobody \notin Thread
    BY DEF Thread
  <2>5. modelMutex \in Thread \cup {Nobody} /\ gil = Nobody
    BY <1>1 DEF LocksMatch, Inside, TakeGil, TypeOK
  <2> QED BY <1>1, <1>2, <2>1, <2>2, <2>3, <2>4, <2>5 DEF LocksMatch
<1>7. FlagMatches'
  BY <1>1, <1>2, Kinds DEF TakeGil, FlagMatches, PlacesMatch, locks
<1>8. NoneIsLeft' /\ SelectionOvertakenOnce'
  <2>1. \A u \in Thread : Inside(u)' <=> Inside(u)
    BY <1>1, <1>2, Kinds DEF Inside, PlacesMatch
  <2> QED BY <1>2, <2>1 DEF TakeGil, NoneIsLeft, SelectionOvertakenOnce, locks, TypeOK
<1>9. SleepersWillBeWoken'
  BY <1>2, Kinds DEF TakeGil, SleepersWillBeWoken
<1> QED BY <1>3, <1>4, <1>5, <1>6, <1>7, <1>8, <1>9

LEMMA KeepsWork ==
  ASSUME SelectionInv, NEW t \in Thread, Work(t)
  PROVE  SelectionInv'
<1> USE DEF SelectionInv
<1>1. /\ at[t] = "work"
      /\ at' = [at EXCEPT ![t] = IF Notifies(t) THEN "notify" ELSE "done"]
      /\ UNCHANGED op
  BY DEF Work, Move
<1>2. /\ at'[t] = IF Notifies(t) THEN "notify" ELSE "done"
      /\ \A u \in Thread : u # t => at'[u] = at[u]
      /\ \A u \in Thread : op'[u] = op[u]
  BY <1>1 DEF TypeOK
<1>3. OpsMatch' /\ BotsComeLater'
  BY SameOperations DEF Work, Move, training
<1>4. TypeOK'
  <2>1. {model, targetModel, optimizerState, objects}' \subseteq Nat
        /\ handles' \in [{"model", "optimizer", "target"} -> Nat]
    BY DEF Work, Effect, Construct, Fetch, TypeOK, NoHandles, models
  <2>2. modelMutex' \in Thread \cup {Nobody} /\ gil' \in Thread \cup {Nobody}
    BY DEF Work, Release, TypeOK
  <2>3. overtaken' \in Nat
    BY DEF Work, TypeOK
  <2> QED BY <1>1, <2>1, <2>2, <2>3 DEF Work, Move, Release, TypeOK, Places, world, bounds
<1>5. PlacesMatch'
  BY <1>2, Kinds DEF Work, Move, PlacesMatch, Notifies
<1>6. LocksMatch'
  <2>1. /\ modelMutex' = IF op[t] \in ModelOperation THEN Nobody ELSE modelMutex
        /\ gil' = Nobody
    BY DEF Work, Release, locks
  <2>2. Inside(t)' = FALSE
    BY <1>1, <1>2, Kinds DEF Inside, PlacesMatch
  <2>3. \A u \in Thread : u # t => (Inside(u)' <=> Inside(u))
    BY <1>2 DEF Inside
  <2>4. Nobody \notin Thread
    BY DEF Thread
  <2>5. modelMutex \in Thread \cup {Nobody} /\ gil = t /\ (modelMutex = t <=> op[t] \in ModelOperation)
    BY <1>1, Kinds DEF LocksMatch, Inside, Work, TypeOK
  <2> QED BY <1>1, <1>2, <2>1, <2>2, <2>3, <2>4, <2>5 DEF LocksMatch
<1>7. FlagMatches'
  BY <1>1, <1>2, Kinds DEF Work, FlagMatches, PlacesMatch, locks, Release, Notifies
<1>8. NoneIsLeft' /\ SelectionOvertakenOnce'
  <2>1. op[t] \in Waiting => modelMutex = t
    BY <1>1, Kinds DEF LocksMatch, Inside
  <2>2. \A u \in Thread : u # t => (Inside(u)' => Inside(u) /\ modelMutex = u)
    BY <1>2 DEF Inside, LocksMatch
  <2>3. ~Inside(t)' /\ (op[t] \in Waiting => Inside(t))
    BY <1>1, <1>2, Kinds DEF Inside
  <2>4. CASE Overtakes(op[t])
    <3>1. overtaken = 0 /\ overtaken' = 1
      BY <2>3, <2>4 DEF Work, Overtakes, NoneIsLeft, TypeOK
    <3>2. \A u \in Thread : ~Inside(u)'
      BY <2>1, <2>2, <2>3, <2>4 DEF Overtakes
    <3> QED BY <3>1, <3>2 DEF NoneIsLeft, SelectionOvertakenOnce
  <2>5. CASE ~Overtakes(op[t])
    <3>1. UNCHANGED <<overtaken, waitingToSelectAction>>
      BY <2>5 DEF Work, Release
    <3> QED BY <1>2, <2>2, <2>3, <3>1 DEF NoneIsLeft, SelectionOvertakenOnce
  <2> QED BY <2>4, <2>5
<1>9. SleepersWillBeWoken'
  BY <1>2, Kinds DEF Work, SleepersWillBeWoken, Notifies
<1> QED BY <1>3, <1>4, <1>5, <1>6, <1>7, <1>8, <1>9

(* The Python code throws: the locks are given back, and the flag is down  *)
(* already if an action is selected.                                       *)
LEMMA KeepsThrow ==
  ASSUME SelectionInv, NEW t \in Thread, Throw(t)
  PROVE  SelectionInv'
<1> USE DEF SelectionInv
<1> DEFINE next == IF op[t] \in Selecting THEN "notify" ELSE "done"
<1>1. /\ at[t] = "work" /\ op[t] \in Failing
      /\ at' = [at EXCEPT ![t] = next]
      /\ threw' = [threw EXCEPT ![t] = TRUE]
      /\ UNCHANGED op
  BY DEF Throw
<1>2. /\ at'[t] = next
      /\ \A u \in Thread : u # t => at'[u] = at[u] /\ threw'[u] = threw[u]
      /\ \A u \in Thread : op'[u] = op[u]
  BY <1>1 DEF TypeOK
<1>3. OpsMatch' /\ BotsComeLater'
  BY SameOperations DEF Throw, training
<1>4. TypeOK'
  BY <1>1 DEF Throw, Release, TypeOK, Places, models, training, world, bounds
<1>5. PlacesMatch'
  <2>1. op[t] \notin Elsewhere
    BY <1>1 DEF PlacesMatch
  <2> QED BY <1>1, <1>2, <2>1, Kinds DEF PlacesMatch
<1>6. LocksMatch'
  <2>1. /\ modelMutex' = IF op[t] \in ModelOperation THEN Nobody ELSE modelMutex
        /\ gil' = Nobody
    BY DEF Throw, Release
  <2>2. ~Inside(t)'
    BY <1>1, <1>2 DEF Inside
  <2>3. \A u \in Thread : u # t => (Inside(u)' <=> Inside(u))
    BY <1>2 DEF Inside
  <2>4. Nobody \notin Thread
    BY DEF Thread
  <2>5. gil = t /\ (modelMutex = t <=> op[t] \in ModelOperation)
    BY <1>1 DEF LocksMatch, Inside
  <2> QED BY <1>1, <1>2, <2>1, <2>2, <2>3, <2>4, <2>5 DEF LocksMatch
<1>7. FlagMatches'
  BY <1>1, <1>2 DEF Throw, Release, FlagMatches
<1>8. NoneIsLeft' /\ SelectionOvertakenOnce'
  <2>1. \A u \in Thread : Inside(u)' => Inside(u)
    BY <1>1, <1>2 DEF Inside
  <2> QED BY <1>2, <2>1 DEF Throw, Release, NoneIsLeft, SelectionOvertakenOnce
<1>9. SleepersWillBeWoken'
  BY <1>1, <1>2, Kinds DEF SleepersWillBeWoken
<1> QED BY <1>3, <1>4, <1>5, <1>6, <1>7, <1>8, <1>9

(* Everyone is woken.                                                      *)
LEMMA KeepsNotifyAll ==
  ASSUME SelectionInv, NEW t \in Thread, NotifyAll(t)
  PROVE  SelectionInv'
<1> USE DEF SelectionInv
<1>1. /\ at[t] = "notify"
      /\ at' \in [Thread -> Places]
      /\ at'[t] = "done"
      /\ \A u \in Thread \ {t} : at'[u] = IF at[u] = "asleep" THEN "mutex" ELSE at[u]
      /\ UNCHANGED <<op, threw>>
  BY DEF NotifyAll, TypeOK, Places
<1>2. OpsMatch' /\ BotsComeLater'
  BY SameOperations DEF NotifyAll, training
<1>3. TypeOK'
  BY <1>1 DEF NotifyAll, TypeOK, locks, models, training, world, bounds
<1>4. PlacesMatch'
  BY <1>1, Kinds DEF PlacesMatch
<1>5. \A u \in Thread : (Inside(u)' <=> Inside(u)) /\ (at'[u] = "work" <=> at[u] = "work")
  BY <1>1 DEF Inside
<1>6. LocksMatch'
  BY <1>5 DEF NotifyAll, LocksMatch, locks
<1>7. FlagMatches'
  <2>1. \A u \in Thread : op[u] \in Selecting => (at'[u] = "mutex" <=> at[u] = "mutex")
    BY <1>1, Kinds DEF PlacesMatch
  <2> QED BY <1>1, <2>1 DEF NotifyAll, FlagMatches, locks
<1>8. NoneIsLeft' /\ SelectionOvertakenOnce'
  BY <1>1, <1>5 DEF NotifyAll, NoneIsLeft, SelectionOvertakenOnce, locks
<1>9. SleepersWillBeWoken'
  BY <1>1 DEF SleepersWillBeWoken
<1> QED BY <1>2, <1>3, <1>4, <1>6, <1>7, <1>8, <1>9

-----------------------------------------------------------------------------
(* The types of what only the programs change.                             *)
ProgramTypesOK ==
  /\ runTraining \in BOOLEAN /\ once \in BOOLEAN /\ sessions \in BOOLEAN
  /\ ended \in BOOLEAN /\ reading \in BOOLEAN /\ stolen \in BOOLEAN
  /\ runTrainingMutex \in {Trainer, Nobody}
  /\ worldMutex \in {Timer, "packets", Nobody}
  /\ trainStepCount \in Nat /\ selections \in Nat /\ requests \in Nat

LEMMA ProgramTypes ==
  ASSUME TypeOK, ProgramShape, Program
  PROVE  TypeOK'
<1>1. UNCHANGED <<models, handles>>
  <2>1. CASE TrainerStep
    BY <2>1 DEF TrainerStep, GoOn, StartTraining, Iterate, CountStep, TargetUpdated,
                CatchWhileTraining, SaveBackup, StopIterating, TrainReturns, models, training
  <2>2. CASE TimerStep
    BY <2>2 DEF TimerStep, Start, Stop, Save, RefuseSave, RefuseLoad, Load, Loaded, Report,
                Reported, SelectionThrew, models, training
  <2> QED BY <2>1, <2>2 DEF Program, SaverEnds, SelectAction, HandleRequest, ReadPacket,
                            PacketRead, models, training
<1>2. ProgramTypesOK'
  <2> ProgramTypesOK
    BY DEF TypeOK, ProgramTypesOK
  <2>1. CASE TrainerStep
    <3>1. CASE StartTraining
      <4>1. /\ UNCHANGED <<runTraining, once, trainStepCount, world, bounds>>
            /\ sessions' \in BOOLEAN /\ ended' \in BOOLEAN
            /\ runTrainingMutex' \in {Trainer, Nobody}
        BY <3>1 DEF StartTraining, ProgramTypesOK
      <4> QED BY <4>1 DEF world, bounds, ProgramTypesOK
    <3>2. CASE CountStep
      <4>1. /\ trainStepCount' = trainStepCount + 1
            /\ UNCHANGED <<runTraining, runTrainingMutex, once, sessions, ended, world, bounds>>
        BY <3>2 DEF CountStep
      <4> QED BY <4>1 DEF world, bounds, ProgramTypesOK
    <3>3. CASE TrainReturns
      BY <3>3 DEF TrainReturns, world, bounds, ProgramTypesOK
    <3>4. CASE GoOn \/ Iterate \/ TargetUpdated \/ CatchWhileTraining \/ SaveBackup \/ StopIterating
      BY <3>4 DEF GoOn, Iterate, TargetUpdated, CatchWhileTraining, SaveBackup, StopIterating,
                  training, world, bounds, ProgramTypesOK
    <3> QED BY <2>1, <3>1, <3>2, <3>3, <3>4 DEF TrainerStep
  <2>2. CASE TimerStep
    <3>1. ASSUME Loaded
          PROVE  trainStepCount' \in Nat
      BY <3>1 DEF Loaded
    <3>2. GiveBack => worldMutex' = Nobody /\ stolen' \in BOOLEAN /\ reading' = reading
      BY DEF GiveBack, ProgramTypesOK
    <3>3. CASE SelectionThrew
      BY <3>3 DEF SelectionThrew, training, bounds, ProgramTypesOK
    <3> QED BY <2>2, <3>1, <3>2, <3>3
            DEF TimerStep, Start, Stop, Save, RefuseSave, RefuseLoad, Load, Loaded, Report, Reported,
                Handled, training, world, bounds, ProgramTypesOK
  <2>3. CASE SaverEnds \/ ReadPacket \/ PacketRead
    BY <2>3 DEF SaverEnds, ReadPacket, PacketRead, training, world, bounds, ProgramTypesOK
  <2>4. CASE SelectAction
    BY <2>4 DEF SelectAction, training, world, ProgramTypesOK
  <2>5. ASSUME NEW r \in Request, HandleRequest(r)
        PROVE  ProgramTypesOK'
    BY <2>5 DEF HandleRequest, training, ProgramTypesOK
  <2> QED BY <2>1, <2>2, <2>3, <2>4, <2>5 DEF Program
<1> QED BY <1>1, <1>2 DEF ProgramShape, ProgramTypesOK, TypeOK, locks, models

-----------------------------------------------------------------------------
(* What train has fetched.                                                 *)

LEMMA UseHandles ==
  ASSUME TypeOK, OpsMatch, PlacesMatch, HandlesMatch, NEW t \in Thread, Use(t)
  PROVE  HandlesMatch'
<1>1. UNCHANGED <<op, runTraining, runTrainingMutex>>
  BY DEF Use, Run, RaiseFlag, LockModel, FallAsleep, SpuriousWakeup, TakeGil, Work, Throw,
         NotifyAll, Move, training
<1>2. CASE Work(t)
  <2>1. /\ at'[Trainer] = IF t = Trainer THEN at'[t] ELSE at[Trainer]
        /\ Effect(op[t])
    BY <1>2 DEF Work, Move, TypeOK, Thread
  <2>2. CASE op[t] \in {"initialize", "loadCheckpoint"}
    <3>1. \/ op[Trainer] = "initialize" \/ op[Timer] = "loadCheckpoint"
      BY <2>2 DEF OpsMatch, Preparing, InTraining, Request, Thread
    <3>2. op[Trainer] = "initialize" => ~FetchedModel' /\ ~FetchedOptimizer'
      BY <1>1 DEF FetchedModel, FetchedOptimizer, InTraining
    <3> QED BY <1>1, <3>1, <3>2 DEF HandlesMatch
  <2>3. CASE op[t] = "getModel"
    <3>1. t = Trainer
      BY <2>3 DEF OpsMatch, Request, Thread
    <3>2. handles'.model = model' /\ handles'.optimizer = handles.optimizer
          /\ UNCHANGED optimizerState
      BY <2>1, <2>3 DEF Effect, Fetch, models, TypeOK
    <3>3. ~FetchedOptimizer'
      BY <1>1, <2>3, <3>1 DEF FetchedOptimizer, InTraining
    <3> QED BY <1>1, <3>2, <3>3 DEF HandlesMatch
  <2>4. CASE op[t] = "getOptimizer"
    <3>1. t = Trainer
      BY <2>4 DEF OpsMatch, Request, Thread
    <3>2. handles'.optimizer = optimizerState' /\ handles'.model = handles.model /\ UNCHANGED model
      BY <2>1, <2>4 DEF Effect, Fetch, models, TypeOK
    <3>3. FetchedModel
      BY <2>4, <3>1 DEF FetchedModel, InTraining
    <3> QED BY <1>1, <3>2, <3>3 DEF HandlesMatch
  <2>5. CASE op[t] = "dropHandles"
    <3>1. op[Trainer] = "dropHandles"
      BY <2>5 DEF OpsMatch, Request, Thread
    <3> QED BY <1>1, <3>1 DEF HandlesMatch
  <2>6. CASE op[t] \notin {"initialize", "loadCheckpoint", "getModel", "getOptimizer", "dropHandles"}
    <3>1. handles'.model = handles.model /\ handles'.optimizer = handles.optimizer
          /\ UNCHANGED <<model, optimizerState>>
      BY <2>1, <2>6 DEF Effect, Construct, Fetch, models, TypeOK
    <3>2. FetchedModel' <=> FetchedModel
      BY <1>1, <2>1, <2>6 DEF FetchedModel
    <3>3. FetchedOptimizer' <=> FetchedOptimizer
      BY <1>1, <2>1, <2>6 DEF FetchedOptimizer
    <3> QED BY <1>1, <3>1, <3>2, <3>3 DEF HandlesMatch
  <2> QED BY <2>2, <2>3, <2>4, <2>5, <2>6
<1>3. CASE ~Work(t)
  <2>1. UNCHANGED <<handles, model, optimizerState>>
    BY <1>3 DEF Use, Run, RaiseFlag, LockModel, FallAsleep, SpuriousWakeup, TakeGil, Throw,
                NotifyAll, training, models
  <2>2. op[Trainer] \in {"getModel", "getOptimizer"} /\ at'[Trainer] = "done" => at[Trainer] = "done"
    <3> SUFFICES ASSUME op[Trainer] \in {"getModel", "getOptimizer"}
                 PROVE  at'[Trainer] = "done" => at[Trainer] = "done"
      OBVIOUS
    <3>1. op[Trainer] \notin Failing /\ at[Trainer] # "notify"
      BY DEF PlacesMatch, Selecting, Waiting, Thread
    <3>2. CASE t = Trainer
      <4>1. ~Throw(t) /\ ~NotifyAll(t)
        BY <3>1, <3>2 DEF Throw, NotifyAll
      <4> QED BY <1>3, <3>2, <4>1 DEF Use, Run, RaiseFlag, LockModel, FallAsleep,
                 SpuriousWakeup, TakeGil, Move, TypeOK
    <3>3. CASE t # Trainer
      BY <1>3, <3>3 DEF Use, Run, RaiseFlag, LockModel, FallAsleep, SpuriousWakeup, TakeGil,
                        Throw, NotifyAll, Move, TypeOK, Thread
    <3> QED BY <3>2, <3>3
  <2>3. FetchedModel' => FetchedModel
    BY <1>1, <2>2 DEF FetchedModel
  <2>4. FetchedOptimizer' => FetchedOptimizer
    BY <1>1, <2>2 DEF FetchedOptimizer
  <2> QED BY <1>1, <2>1, <2>3, <2>4 DEF HandlesMatch
<1> QED BY <1>2, <1>3

(* The training thread is left where it is.                                *)
LEMMA OthersHandles ==
  ASSUME TypeOK, OpsMatch, HandlesMatch,
         UNCHANGED <<models, handles, runTrainingMutex>>,
         op'[Trainer] = op[Trainer], at'[Trainer] = at[Trainer],
         runTraining' => \/ runTraining /\ (op'[Timer] = "loadCheckpoint" => op[Timer] = "loadCheckpoint")
                         \/ runTrainingMutex = Nobody /\ op'[Timer] = "idle"
  PROVE  HandlesMatch'
<1>1. (FetchedModel' <=> FetchedModel) /\ (FetchedOptimizer' <=> FetchedOptimizer)
  BY DEF FetchedModel, FetchedOptimizer
<1>2. runTrainingMutex = Nobody => ~FetchedModel /\ ~FetchedOptimizer /\ op[Trainer] # "dropHandles"
  BY DEF HandlesMatch, FetchedModel, FetchedOptimizer, InTraining, Thread
<1> QED BY <1>1, <1>2 DEF HandlesMatch, models

(* The training thread goes on to o, which is in training or not.          *)
LEMMA TrainerHandles ==
  ASSUME TypeOK, OpsMatch, HandlesMatch, UNCHANGED <<models, handles, runTraining>>,
         op'[Timer] = op[Timer],
         runTrainingMutex' = Trainer <=> op'[Trainer] \in InTraining,
         op'[Trainer] = "dropHandles" => ~runTraining,
         runTraining => /\ FetchedModel' => FetchedModel
                        /\ FetchedOptimizer' => FetchedOptimizer
  PROVE  HandlesMatch'
BY DEF HandlesMatch, models

LEMMA TrainerKeepsHandles ==
  ASSUME TypeOK, OpsMatch, PlacesMatch, HandlesMatch, TrainerStep
  PROVE  HandlesMatch'
<1>1. UNCHANGED <<models, handles, runTraining>> /\ op'[Timer] = op[Timer]
  BY DEF TrainerStep, GoOn, StartTraining, Iterate, CountStep, TargetUpdated,
         CatchWhileTraining, SaveBackup, StopIterating, TrainReturns, training, Begin, Spawn,
         places, TypeOK, Thread
<1>2. ASSUME NEW o \in Operation, Begin(Trainer, o)
      PROVE  op'[Trainer] = o /\ at'[Trainer] # "done"
  BY <1>2, EntryPlace DEF Begin, TypeOK, Thread
<1>3. CASE GoOn
  <2> DEFINE o == op[Trainer]
             n == Then[o]
  <2>1. /\ at[Trainer] = "done" /\ UNCHANGED runTrainingMutex
        /\ Begin(Trainer, n)
    BY <1>3 DEF GoOn, training
  <2>2. \/ o \notin InTraining /\ n \notin InTraining
        \/ o \in InTraining \ {"dropHandles"} /\ n \in InTraining \ {"dropHandles", "getModel"}
    BY <1>3, ThenProgram, Names DEF GoOn, InTraining, Preparing
  <2>3. n \in Operation
    BY <1>3, ThenProgram, Names DEF GoOn
  <2>4. /\ o = "getModel" <=> n = "getOptimizer"
        /\ o = "getOptimizer" <=> n = "getTargetModel"
    BY <1>3, ThenProgram DEF GoOn
  <2>5. op'[Trainer] = n /\ at'[Trainer] # "done"
    BY <1>2, <2>1, <2>3
  <2>6. n = "dropHandles" => ~runTraining
    BY <2>2 DEF InTraining
  <2>7. FetchedModel' => FetchedModel
    BY <2>1, <2>2, <2>5 DEF FetchedModel, InTraining
  <2>8. FetchedOptimizer' => FetchedOptimizer
    BY <2>1, <2>2, <2>4, <2>5 DEF FetchedOptimizer, InTraining
  <2>9. runTrainingMutex' = Trainer <=> op'[Trainer] \in InTraining
    BY <2>1, <2>2, <2>5 DEF HandlesMatch
  <2> HIDE DEF o, n
  <2> QED BY <1>1, <2>5, <2>6, <2>7, <2>8, <2>9, TrainerHandles
<1>4. CASE StartTraining
  <2>1. CASE once
    BY <1>1, <1>4, <2>1, TrainerHandles DEF StartTraining, places, HandlesMatch, FetchedModel,
                                            FetchedOptimizer
  <2>2. CASE ~once
    <3>1. op'[Trainer] = "getModel" /\ at'[Trainer] # "done" /\ runTrainingMutex' = Trainer
      BY <1>2, <1>4, <2>2, Names DEF StartTraining, InTraining
    <3>2. "getModel" \in InTraining /\ ~FetchedModel' /\ ~FetchedOptimizer'
      BY <3>1 DEF FetchedModel, FetchedOptimizer, InTraining
    <3> QED BY <1>1, <3>1, <3>2, TrainerHandles
  <2> QED BY <2>1, <2>2
<1>5. ASSUME NEW o \in {"addScalar", "updateTargetModel", "backup", "loop"},
             op[Trainer] \in {"loop", "train", "updateTargetModel", "backup"},
             op'[Trainer] = o, UNCHANGED runTrainingMutex
      PROVE  HandlesMatch'
  <2>1. op[Trainer] \in InTraining /\ op'[Trainer] \in InTraining /\ FetchedModel /\ FetchedOptimizer
    BY <1>5 DEF InTraining, FetchedModel, FetchedOptimizer
  <2> QED BY <1>1, <1>5, <2>1, TrainerHandles DEF HandlesMatch
<1>6. {"addScalar", "updateTargetModel", "backup", "loop", "dropHandles", "await"} \subseteq Operation
  BY Names DEF InTraining
<1>7. CASE Iterate
  BY <1>2, <1>5, <1>6, <1>7 DEF Iterate, Is, training
<1>8. CASE CountStep
  <2>1. AfterStep(trainStepCount') \in {"updateTargetModel", "backup", "loop"}
    BY DEF AfterStep, AfterUpdate
  <2>2. op[Trainer] = "train" /\ Begin(Trainer, AfterStep(trainStepCount')) /\ UNCHANGED runTrainingMutex
    BY <1>8 DEF CountStep, Done
  <2> QED BY <1>2, <1>5, <1>6, <2>1, <2>2
<1>9. CASE TargetUpdated
  <2>1. AfterUpdate(trainStepCount) \in {"backup", "loop"}
    BY DEF AfterUpdate
  <2>2. op[Trainer] = "updateTargetModel" /\ Begin(Trainer, AfterUpdate(trainStepCount))
        /\ UNCHANGED runTrainingMutex
    BY <1>9 DEF TargetUpdated, Done, training
  <2> QED BY <1>2, <1>5, <1>6, <2>1, <2>2
<1>10. CASE CatchWhileTraining
  BY <1>2, <1>5, <1>6, <1>10 DEF CatchWhileTraining, training
<1>11. CASE SaveBackup
  <2>1. op'[Trainer] = "loop"
    BY <1>11 DEF SaveBackup, Spawn, TypeOK, Thread
  <2> QED BY <1>5, <1>11, <2>1 DEF SaveBackup, Is, training
<1>12. CASE StopIterating
  <2>1. op'[Trainer] = "dropHandles"
    BY <1>2, <1>6, <1>12 DEF StopIterating
  <2>2. op[Trainer] \in InTraining /\ op'[Trainer] \in InTraining /\ ~runTraining
        /\ UNCHANGED runTrainingMutex
    BY <1>12, <2>1 DEF StopIterating, Is, InTraining, training
  <2> QED BY <1>1, <2>1, <2>2, TrainerHandles DEF HandlesMatch
<1>13. CASE TrainReturns
  <2>1. op'[Trainer] = "await" /\ runTrainingMutex' = Nobody
    BY <1>2, <1>6, <1>13 DEF TrainReturns
  <2>2. "await" \notin InTraining /\ Nobody # Trainer /\ ~FetchedModel' /\ ~FetchedOptimizer'
    BY <2>1 DEF InTraining, FetchedModel, FetchedOptimizer, Thread
  <2> QED BY <1>1, <2>1, <2>2, TrainerHandles
<1> QED BY <1>3, <1>4, <1>7, <1>8, <1>9, <1>10, <1>11, <1>12, <1>13 DEF TrainerStep

LEMMA ProgramHandles ==
  ASSUME TypeOK, OpsMatch, PlacesMatch, HandlesMatch, Program
  PROVE  HandlesMatch'
<1>1. ASSUME NEW t \in Thread \ {Trainer}, NEW o \in Operation, Begin(t, o)
      PROVE  op'[Trainer] = op[Trainer] /\ at'[Trainer] = at[Trainer] /\ op'[t] = o
  BY <1>1 DEF Begin, TypeOK, Thread
<1>2. {"idle", "report", "loadCheckpoint", "selectAction"} \cup Request \subseteq Operation
      /\ Timer \in Thread \ {Trainer} /\ Saver \in Thread \ {Trainer} /\ Timer # Saver
      /\ "loadCheckpoint" \notin Request
  BY Names DEF Thread, Request
<1>3. CASE Start
  BY <1>1, <1>2, <1>3, OthersHandles DEF Start, Handled
<1>4. CASE Stop \/ RefuseSave \/ RefuseLoad \/ Loaded \/ Reported \/ SelectionThrew
  <2>1. UNCHANGED <<models, handles, runTrainingMutex>> /\ (runTraining' => runTraining)
        /\ Begin(Timer, "idle")
    BY <1>4 DEF Stop, RefuseSave, RefuseLoad, Loaded, Reported, SelectionThrew,
                Handled, training
  <2> QED BY <1>1, <1>2, <2>1, OthersHandles
<1>5. CASE Save
  <2>1. op'[Trainer] = op[Trainer] /\ at'[Trainer] = at[Trainer] /\ op'[Timer] = "idle"
    BY <1>5, <1>2 DEF Save, Spawn, TypeOK, Thread
  <2> QED BY <1>5, <2>1, OthersHandles DEF Save, training
<1>6. CASE Load
  <2>1. ~runTraining' /\ UNCHANGED <<models, handles, runTrainingMutex>>
    BY <1>6 DEF Load, training
  <2> QED BY <1>1, <1>2, <1>6, <2>1, OthersHandles DEF Load
<1>7. CASE Report
  BY <1>1, <1>2, <1>7, OthersHandles DEF Report, training
<1>8. CASE SelectAction
  BY <1>1, <1>2, <1>8, OthersHandles DEF SelectAction, training
<1>9. ASSUME NEW r \in Request, HandleRequest(r)
      PROVE  HandlesMatch'
  BY <1>1, <1>2, <1>9, OthersHandles DEF HandleRequest, training
<1>10. CASE SaverEnds
  <2>1. op'[Timer] = op[Timer]
    BY <1>2, <1>10 DEF SaverEnds, Begin, TypeOK, Thread
  <2> QED BY <1>1, <1>2, <1>10, <2>1, OthersHandles DEF SaverEnds, training
<1>11. CASE ReadPacket \/ PacketRead
  BY <1>11, OthersHandles DEF ReadPacket, PacketRead, places, training
<1> QED BY <1>3, <1>4, <1>5, <1>6, <1>7, <1>8, <1>9, <1>10, <1>11, TrainerKeepsHandles
        DEF Program, TimerStep

-----------------------------------------------------------------------------
(* The invariants of every behaviour.                                      *)

LEMMA InitInv == Init => IInv
<1> SUFFICES ASSUME Init PROVE IInv
  OBVIOUS
<1>1. /\ op = [t \in Thread |-> IF t = Trainer THEN "initialize" ELSE "idle"]
      /\ at = [t \in Thread |-> IF t = Trainer THEN "mutex" ELSE "here"]
      /\ threw = [t \in Thread |-> FALSE]
  BY DEF Init
<1>2. /\ "initialize" \in Waiting /\ "initialize" \in Preparing /\ "initialize" \notin InTraining
      /\ "initialize" \notin Selecting \cup Elsewhere /\ "idle" \in Elsewhere
      /\ "idle" \notin Selecting
  BY DEF Waiting, Preparing, InTraining, Selecting, Elsewhere, Request
<1>3. /\ op[Trainer] = "initialize" /\ op[Timer] = "idle" /\ op[Saver] = "idle"
      /\ \A t \in Thread : at[t] = IF t = Trainer THEN "mutex" ELSE "here"
      /\ \A t \in Thread : op[t] = IF t = Trainer THEN "initialize" ELSE "idle"
  BY <1>1 DEF Thread
<1>4. OpsMatch
  BY <1>2, <1>3 DEF OpsMatch
<1>5. TypeOK
  <2>1. op \in [Thread -> Operation]
    BY <1>1, <1>2, Names DEF Operation, Elsewhere
  <2>2. at \in [Thread -> Places]
    BY <1>1 DEF Places
  <2>3. threw \in [Thread -> BOOLEAN]
    BY <1>1
  <2>4. handles \in [{"model", "optimizer", "target"} -> Nat]
    BY DEF Init, NoHandles
  <2>5. waitingToSelectAction \in BOOLEAN
        /\ {runTraining, once, sessions, ended, reading, stolen} \subseteq BOOLEAN
    BY DEF Init
  <2>6. /\ {model, targetModel, optimizerState, objects} \subseteq Nat
        /\ {trainStepCount, selections, requests, overtaken} \subseteq Nat
    BY DEF Init
  <2>7. /\ modelMutex = Nobody /\ gil = Nobody /\ runTrainingMutex = Nobody
        /\ worldMutex = Nobody
    BY DEF Init
  <2> QED BY <2>1, <2>2, <2>3, <2>4, <2>5, <2>6, <2>7 DEF TypeOK
<1>6. PlacesMatch
  BY <1>1, <1>2, <1>3, Kinds DEF PlacesMatch
<1>7. BotsComeLater /\ SelectionOvertakenOnce
  BY <1>3 DEF Init, BotsComeLater, SelectionOvertakenOnce
<1>8. \A t \in Thread : ~Inside(t) /\ at[t] # "work"
  BY <1>3 DEF Inside
<1>9. LocksMatch
  BY <1>8 DEF Init, LocksMatch, Thread
<1>10. FlagMatches /\ NoneIsLeft /\ SleepersWillBeWoken
  BY <1>2, <1>3, <1>8 DEF Init, FlagMatches, NoneIsLeft, SleepersWillBeWoken
<1>11. HandlesMatch
  <2>1. runTrainingMutex # Trainer /\ ~runTraining
    BY DEF Init, Thread
  <2> QED BY <1>2, <1>3, <2>1 DEF HandlesMatch
<1> QED BY <1>4, <1>5, <1>6, <1>7, <1>9, <1>10, <1>11 DEF IInv, SelectionInv

LEMMA NextInv == IInv /\ [Next]_vars => IInv'
<1> SUFFICES ASSUME IInv, [Next]_vars PROVE IInv'
  OBVIOUS
<1> USE DEF IInv, SelectionInv
<1>1. ASSUME NEW t \in Thread, Use(t)
      PROVE  IInv'
  <2>1. SelectionInv'
    BY <1>1, KeepsRaiseFlag, KeepsLockModel, KeepsFallAsleep, KeepsSpuriousWakeup, KeepsTakeGil,
       KeepsWork, KeepsThrow, KeepsNotifyAll DEF Use, Run
  <2>2. HandlesMatch'
    BY <1>1, UseHandles
  <2> QED BY <2>1, <2>2
<1>2. CASE Program
  <2>1. ProgramShape /\ OpsMatch' /\ BotsComeLater'
    BY <1>2, ProgramStep
  <2>2. TypeOK'
    BY <1>2, <2>1, ProgramTypes
  <2>3. HandlesMatch'
    BY <1>2, ProgramHandles
  <2> QED BY <2>1, <2>2, <2>3, ProgramKeepsLocks
<1>3. CASE UNCHANGED vars
  <2>1. UNCHANGED <<modelMutex, gil, waitingToSelectAction, model, targetModel, optimizerState,
                    objects, handles, runTraining, runTrainingMutex, trainStepCount, once,
                    sessions, ended, op, at, threw, worldMutex, reading, stolen, selections,
                    requests, overtaken>>
    BY <1>3 DEF vars, locks, models, training, places, world, bounds
  <2>2. TypeOK' /\ OpsMatch' /\ PlacesMatch' /\ BotsComeLater'
    BY <2>1 DEF TypeOK, OpsMatch, PlacesMatch, BotsComeLater
  <2>3. LocksMatch' /\ FlagMatches' /\ NoneIsLeft' /\ SelectionOvertakenOnce'
        /\ SleepersWillBeWoken'
    BY <2>1 DEF LocksMatch, FlagMatches, NoneIsLeft, SelectionOvertakenOnce, SleepersWillBeWoken,
                Inside
  <2>4. HandlesMatch'
    BY <2>1 DEF HandlesMatch, FetchedModel, FetchedOptimizer
  <2> QED BY <2>2, <2>3, <2>4
<1> QED BY <1>1, <1>2, <1>3 DEF Next, Step, Program

LEMMA AlwaysInv == Spec => []IInv
BY InitInv, NextInv, PTL DEF Spec

(* The selection of an action waits for one long operation at most,        *)
(* whatever the intervals, the failures and the number of requests         *)
(* (jaxInterface.cpp:295-420).                                             *)
THEOREM OvertakenOnce == Spec => []SelectionOvertakenOnce
<1>1. IInv => SelectionOvertakenOnce
  BY DEF IInv, SelectionInv
<1> QED BY <1>1, AlwaysInv, PTL

(* What is trained is the network that acts, with its optimizer, as long   *)
(* as training is wanted: a load is refused meanwhile, and begins only     *)
(* when the handles of train no longer count (trainingManager.cpp:70-211). *)
THEOREM ActsAlways == Spec => []ActsOnWhatIsTrained
<1>1. IInv => ActsOnWhatIsTrained
  BY DEF IInv, HandlesMatch, FetchedModel, FetchedOptimizer, ActsOnWhatIsTrained, InTraining
<1> QED BY <1>1, AlwaysInv, PTL

-----------------------------------------------------------------------------
(* The mutex of the world.                                                 *)

Held == {"start", "stop", "save", "load", "loadCheckpoint", "report"}
Orderly(mutex, isRead, o) ==
  /\ isRead => mutex = "packets"
  /\ o \in Held <=> mutex = Timer

LEMMA WorldSteps ==
  ASSUME TypeOK, PlacesMatch, WorldIsHeld, Step
  PROVE  WorldIsHeld'
<1> /\ Timer # "packets" /\ Timer # Nobody /\ "packets" # Nobody
    /\ Timer # Trainer /\ Timer # Saver
  BY DEF Thread
<1>1. UsesWorld <=> op[Timer] \in Held
  BY DEF UsesWorld, Held, Request
<1>2. UsesWorld' <=> op'[Timer] \in Held
  BY DEF UsesWorld, Held, Request
<1>3. /\ stolen \in BOOLEAN
      /\ stolen => "selectAction" \in Failing
      /\ ~stolen => Orderly(worldMutex, reading, op[Timer])
  BY <1>1 DEF WorldIsHeld, Orderly, TypeOK
<1>4. ASSUME stolen' \in BOOLEAN, stolen' => stolen,
             ~stolen' => Orderly(worldMutex', reading', op'[Timer])
      PROVE  WorldIsHeld'
  BY <1>2, <1>3, <1>4 DEF WorldIsHeld, Orderly
<1>5. ASSUME NEW o, Begin(Timer, o)
      PROVE  op'[Timer] = o
  BY <1>5 DEF Begin, TypeOK, Thread
<1>6. ASSUME op'[Timer] = op[Timer], UNCHANGED world
      PROVE  WorldIsHeld'
  BY <1>3, <1>4, <1>6 DEF world
<1>7. ASSUME NEW t \in Thread, Use(t)
      PROVE  WorldIsHeld'
  BY <1>6, <1>7 DEF Use, Run, RaiseFlag, LockModel, FallAsleep, SpuriousWakeup, TakeGil, Work,
                    Throw, NotifyAll, Move
<1>8. CASE TrainerStep \/ SaverEnds
  BY <1>6, <1>8 DEF TrainerStep, GoOn, StartTraining, Iterate, CountStep, TargetUpdated,
     CatchWhileTraining, SaveBackup, StopIterating, TrainReturns, SaverEnds, Begin, Spawn, places,
     TypeOK, Thread
<1>9. ASSUME op[Timer] \in Held, GiveBack, op'[Timer] = "idle"
      PROVE  WorldIsHeld'
  <2>1. "idle" \notin Held /\ worldMutex' = Nobody /\ reading' = reading
        /\ stolen' = (stolen /\ reading)
    BY <1>9 DEF Held, GiveBack
  <2>2. ~stolen => ~reading
    BY <1>3, <1>9 DEF Orderly
  <2> QED BY <1>3, <1>4, <1>9, <2>1, <2>2 DEF Orderly
<1>10. CASE Start \/ Stop \/ RefuseSave \/ RefuseLoad \/ Loaded \/ Reported
  <2>1. op[Timer] \in Held /\ Handled
    BY <1>10 DEF Start, Stop, RefuseSave, RefuseLoad, Loaded, Reported, Held, Is, Done
  <2> QED BY <1>5, <1>9, <2>1 DEF Handled
<1>11. CASE Save
  <2>1. op[Timer] \in Held /\ op'[Timer] = "idle"
    BY <1>11 DEF Save, Is, Spawn, Held, TypeOK, Thread
  <2> QED BY <1>9, <1>11, <2>1 DEF Save
<1>12. CASE Load
  <2>1. op[Timer] \in Held /\ op'[Timer] \in Held /\ UNCHANGED world
    BY <1>5, <1>12 DEF Load, Is, Held
  <2> QED BY <1>3, <1>4, <2>1 DEF Orderly, world
<1>13. CASE Report
  <2>1. op'[Timer] \in Held /\ op[Timer] \notin Held /\ worldMutex = Nobody
        /\ worldMutex' = Timer /\ UNCHANGED <<reading, stolen>>
    BY <1>5, <1>13 DEF Report, Done, Held
  <2> QED BY <1>3, <1>4, <2>1 DEF Orderly
<1>14. CASE SelectionThrew
  <2>1. op'[Timer] = "idle" /\ worldMutex' = Nobody /\ stolen' = reading /\ reading' = reading
    BY <1>5, <1>14 DEF SelectionThrew
  <2>2. "selectAction" \in Failing
    BY <1>14 DEF SelectionThrew, Done, PlacesMatch, Thread
  <2>3. "idle" \notin Held /\ reading \in BOOLEAN
    BY DEF Held, TypeOK
  <2> QED BY <1>2, <2>1, <2>2, <2>3 DEF WorldIsHeld
<1>15. CASE SelectAction
  <2>1. op'[Timer] \notin Held /\ op[Timer] \notin Held /\ UNCHANGED world
    BY <1>5, <1>15 DEF SelectAction, Is, Held
  <2> QED BY <1>3, <1>4, <2>1 DEF Orderly, world
<1>16. ASSUME NEW r \in Request, HandleRequest(r)
       PROVE  WorldIsHeld'
  <2>1. op'[Timer] \in Held /\ worldMutex = Nobody /\ worldMutex' = Timer
        /\ UNCHANGED <<reading, stolen>>
    BY <1>5, <1>16 DEF HandleRequest, Request, Held
  <2> QED BY <1>3, <1>4, <2>1 DEF Orderly
<1>17. CASE ReadPacket
  <2>1. op'[Timer] = op[Timer] /\ worldMutex = Nobody /\ worldMutex' = "packets"
        /\ UNCHANGED stolen
    BY <1>17 DEF ReadPacket, places
  <2> QED BY <1>3, <1>4, <2>1 DEF Orderly
<1>18. CASE PacketRead
  <2>1. op'[Timer] = op[Timer] /\ reading /\ worldMutex' = Nobody /\ ~reading'
        /\ stolen' = (stolen /\ UsesWorld)
    BY <1>18 DEF PacketRead, places
  <2>2. ~stolen => op[Timer] \notin Held
    BY <1>3, <2>1 DEF Orderly
  <2>3. ~stolen' => op[Timer] \notin Held
    BY <1>1, <1>3, <2>1, <2>2
  <2> QED BY <1>3, <1>4, <2>1, <2>3 DEF Orderly
<1> QED BY <1>7, <1>8, <1>10, <1>11, <1>12, <1>13, <1>14, <1>15, <1>16, <1>17, <1>18
        DEF Step, TimerStep

(* Between any two steps the types are right, who waits for a selection is *)
(* woken by one that goes on, and the mutex of the world keeps packets and *)
(* timer thread apart; but for who is in the world when a selection throws *)
(* past the line that takes the mutex back, and who comes before that one  *)
(* has left (deepLearningIntelligence.cpp:40-43).                          *)
THEOREM ConsistentAlways == Spec => []Consistent
<1>1. Init => WorldIsHeld
  <2>1. ASSUME Init
        PROVE  op[Timer] = "idle"
    BY <2>1 DEF Init, Thread
  <2> QED BY <2>1 DEF Init, WorldIsHeld, UsesWorld, Request, Thread
<1>2. IInv /\ WorldIsHeld /\ [Next]_vars => WorldIsHeld'
  <2> SUFFICES ASSUME IInv, WorldIsHeld, [Next]_vars
               PROVE  WorldIsHeld'
    OBVIOUS
  <2>1. CASE Step
    BY <2>1, WorldSteps DEF IInv, SelectionInv
  <2>2. CASE UNCHANGED vars
    BY <2>2 DEF vars, places, world, WorldIsHeld, UsesWorld
  <2> QED BY <2>1, <2>2 DEF Next
<1>3. IInv /\ WorldIsHeld => Consistent
  BY DEF IInv, SelectionInv, Consistent
<1> QED BY <1>1, <1>2, <1>3, AlwaysInv, PTL DEF Spec
=============================================================================
