---------------------------- MODULE TimerManager ----------------------------
(***************************************************************************)
(* bot/src/broker/timerManager.{hpp,cpp}: the heap of timers shared by     *)
(* every thread that publishes events and by the one thread that fires     *)
(* them.                                                                   *)
(*                                                                         *)
(* One step is one critical section of timerDataMutex_, or one access the  *)
(* code makes outside of it.  Only the wait of waitForData holds the mutex *)
(* over two steps: its predicate also reads keepRunning_, which the        *)
(* destructor writes without the mutex.  The heap is the set of its        *)
(* timers: operator< is a total order, so the front of the heap is a       *)
(* function of that set.  A payload is identified by the id of its timer.  *)
(* An operator Op_Name is Op with one plausible bug; the module never uses *)
(* it.  PROJECT.json says which property tells it from Op.                 *)
(***************************************************************************)
EXTENDS Integers, Sequences, FiniteSets

CONSTANTS
  Clients,      \* the threads that register, trigger and cancel timers
  Cancellers,   \* those of them that cancel timers
  TimerThread,  \* the thread of TimerManager::run
  Durations,    \* the durations a timer is registered with
  MaxTimers,    \* bound on timerIdCounter_
  MaxTime       \* bound on the clock

ASSUME TimerManagerAssumption ==
  /\ Cancellers \subseteq Clients
  /\ TimerThread \notin Clients
  /\ Durations \subseteq Nat
  /\ MaxTimers \in Nat
  /\ MaxTime \in Nat

Threads == Clients \cup {TimerThread}

VARIABLES
  now,            \* ClockType::now()
  timerDataHeap,  \* timerDataHeap_
  timerIdCounter, \* timerIdCounter_
  keepRunning,    \* keepRunning_
  callPc,         \* where each thread is inside registerTimer or triggerInstantTimer
  callEnd,        \* the endTime a thread computed before it took the mutex
  runPc,          \* where the timer thread is inside run()
  soonestTime,    \* soonestTime of run(), the deadline of its wait_until
  finished,       \* the timer pruneTimers took off the heap last
  destroyPc,      \* where ~TimerManager is
  handles,        \* history: the ids registerTimer returned
  delivered,      \* history: the timers passed to the callback target, in order
  cancelled       \* history: the ids for which cancelTimer returned true

vars == <<now, timerDataHeap, timerIdCounter, keepRunning, callPc, callEnd, runPc,
          soonestTime, finished, destroyPc, handles, delivered, cancelled>>

Time == 0..MaxTime
TimerId == 0..(MaxTimers - 1)
Timer == [id : TimerId, isInstant : BOOLEAN, endTime : Time]

(* operator< on timers.                                                    *)
Before(lhs, rhs) ==
  \/ lhs.endTime < rhs.endTime
  \/ /\ lhs.endTime = rhs.endTime
     /\ \/ lhs.isInstant /\ ~rhs.isInstant
        \/ lhs.isInstant = rhs.isInstant /\ lhs.id < rhs.id

IsFront_Any(t, heap) == t \in heap
IsFront(t, heap) == t \in heap /\ \A u \in heap \ {t} : Before(t, u)

(* mostRecentTimerIsFinished: the front has the least endTime, so it has   *)
(* passed when any has.                                                    *)
MostRecentTimerIsFinished == \E t \in timerDataHeap : t.endTime <= now

(* The predicate of the wait_until of run().                               *)
WaitIsOver(soonest) ==
  \/ timerDataHeap = {}
  \/ \E t \in timerDataHeap : t.endTime < soonest \/ t.endTime <= now

MutexFree == runPc # "dozing"

(* There is an id left for every thread that has begun to register.        *)
Room ==
  /\ timerIdCounter < MaxTimers
  /\ timerIdCounter + Cardinality({th \in Threads : callPc[th] = "register"}) < MaxTimers

(* A thread may call in: any client while the object is not being          *)
(* destroyed, the timer thread from inside a callback.                     *)
MayCall(th) ==
  /\ callPc[th] = "idle"
  /\ IF th = TimerThread THEN runPc = "callback" ELSE destroyPc = "alive"

-----------------------------------------------------------------------------

Init ==
  /\ now = 0
  /\ timerDataHeap = {}
  /\ timerIdCounter = 0
  /\ keepRunning = TRUE
  /\ callPc = [th \in Threads |-> "idle"]
  /\ callEnd = [th \in Threads |-> 0]
  /\ runPc = "unstarted"
  /\ soonestTime = 0
  /\ finished = {}
  /\ destroyPc = "alive"
  /\ handles = {}
  /\ delivered = << >>
  /\ cancelled = {}

(* The clock advances; beyond MaxTime no timer is waited for.              *)
Tick ==
  /\ now < MaxTime
  /\ now' = now + 1
  /\ UNCHANGED <<timerDataHeap, timerIdCounter, keepRunning, callPc, callEnd, runPc,
                 soonestTime, finished, destroyPc, handles, delivered, cancelled>>

-----------------------------------------------------------------------------
(* What the threads call.                                                  *)

(* registerTimer(duration): reads the clock before it takes the mutex.     *)
RegisterTimer(th, duration) ==
  /\ MayCall(th)
  /\ Room
  /\ now + duration <= MaxTime
  /\ callPc' = [callPc EXCEPT ![th] = "register"]
  /\ callEnd' = [callEnd EXCEPT ![th] = now + duration]
  /\ UNCHANGED <<now, timerDataHeap, timerIdCounter, keepRunning, runPc, soonestTime,
                 finished, destroyPc, handles, delivered, cancelled>>

(* The notification is sent when the new timer ends before the previous    *)
(* front, or the heap was empty.                                           *)
SoonerThanAll_UnlessEmpty(endTime) ==
  timerDataHeap # {} /\ \A t \in timerDataHeap : endTime < t.endTime
SoonerThanAll(endTime) == \A t \in timerDataHeap : endTime < t.endTime

(* registerTimer(timeEnd): the critical section.                           *)
PushTimer(th) ==
  LET t == [id |-> timerIdCounter, isInstant |-> FALSE, endTime |-> callEnd[th]] IN
  /\ callPc[th] = "register"
  /\ MutexFree
  /\ timerIdCounter < MaxTimers
  /\ timerDataHeap' = timerDataHeap \cup {t}
  /\ timerIdCounter' = timerIdCounter + 1
  /\ handles' = handles \cup {t.id}
  /\ callPc' = [callPc EXCEPT ![th] = IF SoonerThanAll(t.endTime) THEN "notify" ELSE "idle"]
  /\ UNCHANGED <<now, keepRunning, callEnd, runPc, soonestTime, finished, destroyPc,
                 delivered, cancelled>>

(* triggerInstantTimer: reads the clock under the mutex, always notifies.  *)
InstantEndTime == now

TriggerInstantTimer(th) ==
  LET t == [id |-> timerIdCounter, isInstant |-> TRUE, endTime |-> InstantEndTime] IN
  /\ MayCall(th)
  /\ MutexFree
  /\ Room
  /\ timerDataHeap' = timerDataHeap \cup {t}
  /\ timerIdCounter' = timerIdCounter + 1
  /\ callPc' = [callPc EXCEPT ![th] = "notify"]
  /\ UNCHANGED <<now, keepRunning, callEnd, runPc, soonestTime, finished, destroyPc,
                 handles, delivered, cancelled>>

(* cv_.notify_one(), after the mutex was released.  Only the timer thread  *)
(* ever waits on cv_.                                                      *)
Woken(pc) == CASE pc = "asleepForData" -> "waitForData"
               [] pc = "asleepUntil"   -> "rewait"
               [] OTHER                -> pc

NotifyOne(th) ==
  /\ callPc[th] = "notify"
  /\ callPc' = [callPc EXCEPT ![th] = "idle"]
  /\ runPc' = Woken(runPc)
  /\ UNCHANGED <<now, timerDataHeap, timerIdCounter, keepRunning, callEnd, soonestTime,
                 finished, destroyPc, handles, delivered, cancelled>>

(* cancelTimer.  Removing a timer leaves no sooner front, so its own       *)
(* notification is never sent; a timer that is not found changes nothing.  *)
MayCancel(th) == th \in Cancellers \cup {TimerThread} /\ MayCall(th)

Without(id) == {t \in timerDataHeap : t.id # id}

CancelTimer(th, id) ==
  /\ MayCancel(th)
  /\ MutexFree
  /\ \E t \in timerDataHeap : t.id = id
  /\ timerDataHeap' = Without(id)
  /\ cancelled' = cancelled \cup {id}
  /\ UNCHANGED <<now, timerIdCounter, keepRunning, callPc, callEnd, runPc, soonestTime,
                 finished, destroyPc, handles, delivered>>

-----------------------------------------------------------------------------
(* The timer thread.                                                       *)

Goto(from, to) ==
  /\ runPc = from
  /\ runPc' = to
  /\ UNCHANGED <<now, timerDataHeap, timerIdCounter, keepRunning, callPc, callEnd,
                 finished, destroyPc, handles, delivered, cancelled>>

RunAsync ==
  /\ destroyPc = "alive"
  /\ Goto("unstarted", "outer")
  /\ UNCHANGED soonestTime

(* while (keepRunning_)                                                    *)
TestKeepRunning ==
  /\ Goto("outer", IF keepRunning THEN "ifEmpty" ELSE "done")
  /\ UNCHANGED soonestTime

(* if (timerDataHeap_.empty()) waitForData(): read without the mutex       *)
TestIfEmpty ==
  /\ Goto("ifEmpty", IF timerDataHeap = {} THEN "waitForData" ELSE "inner")
  /\ UNCHANGED soonestTime

(* waitForData: the predicate, under the mutex ...                         *)
WaitForData ==
  /\ Goto("waitForData",
          IF ~keepRunning \/ timerDataHeap # {} THEN "inner" ELSE "dozing")
  /\ UNCHANGED soonestTime

(* ... and the release of the mutex as the thread joins the waiters.       *)
FallAsleep ==
  /\ Goto("dozing", "asleepForData")
  /\ UNCHANGED soonestTime

(* while (!timerDataHeap_.empty()): read without the mutex                 *)
TestWhileNotEmpty ==
  /\ Goto("inner", IF timerDataHeap = {} THEN "outer" ELSE "waitUntil")
  /\ UNCHANGED soonestTime

(* The deadline of wait_until is the front's endTime.  The wait is over at *)
(* once if that has passed.                                                *)
WaitUntil ==
  \/ /\ timerDataHeap = {}
     /\ Goto("waitUntil", "ifFinished")
     /\ UNCHANGED soonestTime
  \/ \E t \in timerDataHeap :
       /\ IsFront(t, timerDataHeap)
       /\ soonestTime' = t.endTime
       /\ Goto("waitUntil", IF WaitIsOver(t.endTime) THEN "ifFinished" ELSE "asleepUntil")

(* The deadline passes, or the thread was woken and tests the predicate.   *)
DeadlinePasses ==
  /\ soonestTime <= now
  /\ Goto("asleepUntil", "ifFinished")
  /\ UNCHANGED soonestTime

Rewait ==
  /\ Goto("rewait", IF WaitIsOver(soonestTime) \/ soonestTime <= now
                      THEN "ifFinished" ELSE "asleepUntil")
  /\ UNCHANGED soonestTime

(* A condition variable may also wake its waiter for no reason.            *)
SpuriousWakeup ==
  /\ runPc \in {"asleepForData", "asleepUntil"}
  /\ Goto(runPc, Woken(runPc))
  /\ UNCHANGED soonestTime

IfFinished ==
  /\ Goto("ifFinished", IF MostRecentTimerIsFinished THEN "prune" ELSE "inner")
  /\ UNCHANGED soonestTime

(* pruneTimers: while (mostRecentTimerIsFinished()), one critical section  *)
PruneTest ==
  /\ Goto("prune", IF MostRecentTimerIsFinished THEN "pop" ELSE "inner")
  /\ UNCHANGED soonestTime

(* ... and another one that takes the front of the heap, whatever it is    *)
(* by then, and hands it to the callback target.                           *)
PopTimer ==
  /\ runPc = "pop"
  /\ \E t \in timerDataHeap :
       /\ IsFront(t, timerDataHeap)
       /\ timerDataHeap' = timerDataHeap \ {t}
       /\ finished' = {t}
       /\ delivered' = Append(delivered, t)
  /\ runPc' = "callback"
  /\ UNCHANGED <<now, timerIdCounter, keepRunning, callPc, callEnd, soonestTime,
                 destroyPc, handles, cancelled>>

(* The heap is empty: timerFinished gets the default Timer, whose payload  *)
(* is null.  Both callbacks throw on it (eventBroker.cpp:132-147) and the  *)
(* exception leaves the thread, which ends the process.                    *)
PopNothing ==
  /\ runPc = "pop"
  /\ timerDataHeap = {}
  /\ finished' = {}
  /\ runPc' = "terminated"
  /\ UNCHANGED <<now, timerDataHeap, timerIdCounter, keepRunning, callPc, callEnd,
                 soonestTime, destroyPc, handles, delivered, cancelled>>

CallbackReturns ==
  /\ callPc[TimerThread] = "idle"
  /\ Goto("callback", "prune")
  /\ UNCHANGED soonestTime

-----------------------------------------------------------------------------
(* ~TimerManager, called once every client is done with the object.  When  *)
(* the thread was never started it does nothing.                           *)

ClearKeepRunning ==
  /\ destroyPc = "alive"
  /\ \A c \in Clients : callPc[c] = "idle"
  /\ runPc # "unstarted"
  /\ destroyPc' = "notify"
  /\ keepRunning' = FALSE
  /\ UNCHANGED <<now, timerDataHeap, timerIdCounter, callPc, callEnd, runPc,
                 soonestTime, finished, handles, delivered, cancelled>>

DestructorNotifies ==
  /\ destroyPc = "notify"
  /\ destroyPc' = "join"
  /\ runPc' = Woken(runPc)
  /\ UNCHANGED <<now, timerDataHeap, timerIdCounter, keepRunning, callPc, callEnd,
                 soonestTime, finished, handles, delivered, cancelled>>

Join ==
  /\ destroyPc = "join"
  /\ runPc = "done"
  /\ destroyPc' = "joined"
  /\ UNCHANGED <<now, timerDataHeap, timerIdCounter, keepRunning, callPc, callEnd,
                 runPc, soonestTime, finished, handles, delivered, cancelled>>

-----------------------------------------------------------------------------

(* What a running timer thread does next.                                  *)
Run ==
  \/ TestKeepRunning \/ TestIfEmpty \/ WaitForData \/ FallAsleep \/ TestWhileNotEmpty
  \/ WaitUntil \/ DeadlinePasses \/ Rewait \/ IfFinished \/ PruneTest
  \/ PopTimer \/ PopNothing \/ CallbackReturns

Destroy == ClearKeepRunning \/ DestructorNotifies \/ Join

Call(th) ==
  \/ \E d \in Durations : RegisterTimer(th, d)
  \/ PushTimer(th)
  \/ TriggerInstantTimer(th)
  \/ NotifyOne(th)
  \/ \E id \in handles : CancelTimer(th, id)

Next ==
  \/ Tick
  \/ RunAsync
  \/ Run
  \/ SpuriousWakeup
  \/ Destroy
  \/ \E th \in Threads : Call(th)

Spec == Init /\ [][Next]_vars

(* The clock and every running thread advance: the timer thread through    *)
(* run() (a callback returns), a caller through a call it has begun, the   *)
(* destructor once it has begun.  Nobody has to call, destroy, or wake     *)
(* without a reason.                                                       *)
Fairness ==
  /\ WF_vars(Tick)
  /\ WF_vars(RunAsync)
  /\ WF_vars(Run)
  /\ WF_vars(DestructorNotifies \/ Join)
  /\ \A th \in Threads : WF_vars(PushTimer(th) \/ NotifyOne(th))

FairSpec == Spec /\ Fairness

-----------------------------------------------------------------------------

RunPc == {"unstarted", "outer", "ifEmpty", "waitForData", "dozing", "asleepForData",
          "inner", "waitUntil", "asleepUntil", "rewait", "ifFinished", "prune", "pop",
          "callback", "terminated", "done"}

(* The variables have their types, and a soonestTime, a callEnd and every  *)
(* timer of the heap lie within the clock's range.                         *)
TypeOK ==
  /\ now \in Time
  /\ timerDataHeap \in SUBSET Timer
  /\ timerIdCounter \in 0..MaxTimers
  /\ keepRunning \in BOOLEAN
  /\ callPc \in [Threads -> {"idle", "register", "notify"}]
  /\ callEnd \in [Threads -> Time]
  /\ runPc \in RunPc
  /\ soonestTime \in Time
  /\ finished \in SUBSET Timer
  /\ destroyPc \in {"alive", "notify", "join", "joined"}
  /\ handles \in SUBSET TimerId
  /\ delivered \in Seq(Timer)
  /\ cancelled \in SUBSET TimerId

DeliveredIds == {delivered[i].id : i \in DOMAIN delivered}
PendingIds == {t.id : t \in timerDataHeap}

(* Every timer ever accepted is exactly one of pending, delivered and      *)
(* cancelled: none is lost or duplicated by the heap operations of         *)
(* registerTimer, triggerInstantTimer, cancelTimer and pruneTimers, and    *)
(* a timer that cancelTimer reported as cancelled never fires.             *)
EachTimerAccountedOnce ==
  /\ PendingIds \cup DeliveredIds \cup cancelled = 0..(timerIdCounter - 1)
  /\ PendingIds \cap DeliveredIds = {}
  /\ cancelled \cap (PendingIds \cup DeliveredIds) = {}
  /\ \A i, j \in DOMAIN delivered : delivered[i].id = delivered[j].id => i = j

(* Instant events reach the callback target in the order they were         *)
(* triggered, across all publishing threads (docs/state-machines.md:39).   *)
InstantsInOrder ==
  \A i, j \in DOMAIN delivered :
    /\ i < j
    /\ delivered[i].isInstant
    /\ delivered[j].isInstant
    => delivered[i].id < delivered[j].id

(* No lost wakeup: while the timer thread sleeps on a deadline later than  *)
(* some pending timer, or sleeps for data that is there, a notification    *)
(* is on its way.  The mutex is not held while cv_ is notified.            *)
NoOversleep ==
  \/ /\ runPc = "asleepUntil"
     /\ \E t \in timerDataHeap : t.endTime < soonestTime
  \/ /\ runPc = "asleepForData"
     /\ timerDataHeap # {}
  => \E th \in Threads : callPc[th] = "notify"

(* What holds between any two steps: types, no timer lost, doubled or      *)
(* delivered after its cancellation, the order of instant events, and no   *)
(* lost wakeup.                                                            *)
Consistent == TypeOK /\ EachTimerAccountedOnce /\ InstantsInOrder /\ NoOversleep

(* A timer is passed to the callback target only once its time has come.   *)
(* Holds as long as only callbacks cancel.                                 *)
NeverEarly ==
  runPc = "callback" => \A t \in finished : t.endTime <= now

(* pruneTimers always has a timer to pass on: the thread never passes a    *)
(* null payload.                                                           *)
AlwaysAPayload == runPc # "terminated"

(* The destructor returns (timerManager.cpp:22, "Wake up the thread if     *)
(* it's waiting for something").                                           *)
DestructorReturns == destroyPc = "notify" ~> destroyPc = "joined"

(* What the queue promises without threads and locks: the timers, taken as *)
(* a queue, implement TimerQueue, fairness included, so that every timer   *)
(* is delivered or cancelled unless the object is destroyed or the last    *)
(* due timer is cancelled while it is on its way out, and a timer is early *)
(* only in place of one cancelled just then.                               *)
Queue == INSTANCE TimerQueue WITH
           pending <- timerDataHeap,
           accepted <- timerIdCounter,
           handing <- runPc = "pop",
           broken <- runPc = "terminated",
           closed <- destroyPc # "alive"
ImplementsTimerQueue == Queue!FairSpec
=============================================================================
