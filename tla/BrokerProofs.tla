---------------------------- MODULE BrokerProofs ----------------------------
(* Theorems about the two halves of the broker: first the TimerManager,    *)
(* for every set of threads and every bound, then Subscriptions, for every *)
(* set of threads, codes and every bound.  The two modules share nothing   *)
(* but this file.                                                          *)
EXTENDS TimerManager, Subscriptions, SequenceTheorems, TLAPS

-----------------------------------------------------------------------------
(* 1. TimerManager.                                                        *)

USE TimerManagerAssumption


-----------------------------------------------------------------------------
(* Type correctness.                                                       *)

LEMMA InitType == Init => TypeOK
  BY DEF Init, TypeOK, Time, RunPc, Threads

LEMMA CallType ==
  ASSUME TypeOK, NEW th \in Threads, Call(th) PROVE TypeOK'
<1> USE DEF TypeOK, Time, TimerId, Timer, RunPc
<1>1. CASE \E d \in Durations : RegisterTimer(th, d)
  BY <1>1 DEF RegisterTimer
<1>2. CASE PushTimer(th)
  <2> DEFINE t == [id |-> timerIdCounter, isInstant |-> FALSE, endTime |-> callEnd[th]]
             step == IF SoonerThanAll(t.endTime) THEN "notify" ELSE "idle"
  <2>1. t \in Timer /\ timerIdCounter + 1 \in 0..MaxTimers
    BY <1>2 DEF PushTimer
  <2>2. step \in {"notify", "idle"}
    OBVIOUS
  <2>3. callPc' = [callPc EXCEPT ![th] = step]
    BY <1>2 DEF PushTimer
  <2> HIDE DEF step
  <2>4. callPc' \in [Threads -> {"idle", "register", "notify"}]
    BY <2>2, <2>3
  <2> QED BY <1>2, <2>1, <2>4 DEF PushTimer
<1>3. CASE TriggerInstantTimer(th)
  <2> DEFINE t == [id |-> timerIdCounter, isInstant |-> TRUE, endTime |-> InstantEndTime]
  <2>1. timerIdCounter < MaxTimers
    BY <1>3 DEF TriggerInstantTimer, Room
  <2>2. t \in Timer /\ timerIdCounter + 1 \in 0..MaxTimers
    BY <2>1 DEF InstantEndTime
  <2>3. /\ timerDataHeap' = timerDataHeap \cup {t}
        /\ timerIdCounter' = timerIdCounter + 1
        /\ callPc' = [callPc EXCEPT ![th] = "notify"]
        /\ UNCHANGED <<now, keepRunning, callEnd, runPc, soonestTime, finished, destroyPc,
                       handles, delivered, cancelled>>
    BY <1>3 DEF TriggerInstantTimer
  <2> HIDE DEF t
  <2> QED BY <2>2, <2>3
<1>4. CASE NotifyOne(th)
  BY <1>4 DEF NotifyOne, Woken
<1>5. CASE \E id \in handles : CancelTimer(th, id)
  BY <1>5 DEF CancelTimer, Without
<1> QED BY <1>1, <1>2, <1>3, <1>4, <1>5 DEF Call

LEMMA RunType == ASSUME TypeOK, Run PROVE TypeOK'
<1> USE DEF TypeOK, Time, TimerId, Timer, RunPc
<1>1. CASE PopTimer
  <2>1. PICK t \in timerDataHeap :
          /\ timerDataHeap' = timerDataHeap \ {t}
          /\ finished' = {t}
          /\ delivered' = Append(delivered, t)
    BY <1>1 DEF PopTimer
  <2>2. delivered' \in Seq(Timer)
    BY <2>1
  <2> QED BY <1>1, <2>1, <2>2 DEF PopTimer
<1>2. CASE PopNothing
  BY <1>2 DEF PopNothing
<1>3. CASE WaitUntil
  BY <1>3 DEF WaitUntil, Goto
<1>4. CASE TestKeepRunning \/ TestIfEmpty \/ WaitForData \/ FallAsleep \/ TestWhileNotEmpty
  BY <1>4 DEF TestKeepRunning, TestIfEmpty, WaitForData, FallAsleep, TestWhileNotEmpty, Goto
<1>5. CASE DeadlinePasses \/ Rewait \/ IfFinished \/ PruneTest \/ CallbackReturns
  BY <1>5 DEF DeadlinePasses, Rewait, IfFinished, PruneTest, CallbackReturns, Goto
<1> QED BY <1>1, <1>2, <1>3, <1>4, <1>5 DEF Run

LEMMA NextType == ASSUME TypeOK, [Next]_vars PROVE TypeOK'
<1>1. CASE Tick
  BY <1>1 DEF Tick, TypeOK, Time
<1>2. CASE RunAsync \/ SpuriousWakeup
  BY <1>2 DEF RunAsync, SpuriousWakeup, Goto, Woken, TypeOK, RunPc
<1>3. CASE Run
  BY <1>3, RunType
<1>4. CASE Destroy
  BY <1>4 DEF Destroy, ClearKeepRunning, DestructorNotifies, Join, Woken, TypeOK, RunPc
<1>5. CASE \E th \in Threads : Call(th)
  BY <1>5, CallType
<1>6. CASE UNCHANGED vars
  BY <1>6 DEF vars, TypeOK
<1> QED BY <1>1, <1>2, <1>3, <1>4, <1>5, <1>6 DEF Next

(* The variables of TimerManager have their types in every reachable state.*)
THEOREM TypeCorrect == Spec => []TypeOK
  BY InitType, NextType, PTL DEF Spec

-----------------------------------------------------------------------------
(* What a step can do to the queue: nothing, accept a timer, take one back *)
(* or hand the front over.                                                 *)

Leaves ==
  /\ UNCHANGED <<timerDataHeap, timerIdCounter, delivered, cancelled>>
  /\ now' \in {now, now + 1}

Accepts ==
  \E t \in Timer :
    /\ t.id = timerIdCounter
    /\ t.isInstant => t.endTime = now
    /\ timerDataHeap' = timerDataHeap \cup {t}
    /\ timerIdCounter' = timerIdCounter + 1
    /\ UNCHANGED <<now, delivered, cancelled>>

TakesBack ==
  \E t \in timerDataHeap :
    /\ timerDataHeap' = {u \in timerDataHeap : u.id # t.id}
    /\ cancelled' = cancelled \cup {t.id}
    /\ UNCHANGED <<now, timerIdCounter, delivered>>

HandsOver ==
  \E t \in timerDataHeap :
    /\ IsFront(t, timerDataHeap)
    /\ timerDataHeap' = timerDataHeap \ {t}
    /\ delivered' = Append(delivered, t)
    /\ UNCHANGED <<now, timerIdCounter, cancelled>>

LEMMA CallShape ==
  ASSUME TypeOK, NEW th \in Threads, Call(th)
  PROVE  Leaves \/ Accepts \/ TakesBack
<1>1. CASE (\E d \in Durations : RegisterTimer(th, d)) \/ NotifyOne(th)
  BY <1>1 DEF RegisterTimer, NotifyOne, Leaves
<1>2. CASE PushTimer(th)
  <2> DEFINE t == [id |-> timerIdCounter, isInstant |-> FALSE, endTime |-> callEnd[th]]
  <2>1. t \in Timer
    BY <1>2 DEF PushTimer, TypeOK, Timer, TimerId, Time
  <2>2. /\ timerDataHeap' = timerDataHeap \cup {t}
        /\ timerIdCounter' = timerIdCounter + 1
        /\ UNCHANGED <<now, delivered, cancelled>>
    BY <1>2 DEF PushTimer
  <2> QED BY <2>1, <2>2 DEF Accepts
<1>3. CASE TriggerInstantTimer(th)
  <2> DEFINE t == [id |-> timerIdCounter, isInstant |-> TRUE, endTime |-> now]
  <2>1. timerIdCounter < MaxTimers
    BY <1>3 DEF TriggerInstantTimer, Room
  <2>2. t \in Timer
    BY <2>1 DEF TypeOK, Timer, TimerId, Time
  <2>3. /\ timerDataHeap' = timerDataHeap \cup {t}
        /\ timerIdCounter' = timerIdCounter + 1
        /\ UNCHANGED <<now, delivered, cancelled>>
    BY <1>3 DEF TriggerInstantTimer, InstantEndTime
  <2> QED BY <2>2, <2>3 DEF Accepts
<1>4. CASE \E id \in handles : CancelTimer(th, id)
  BY <1>4 DEF CancelTimer, Without, TakesBack
<1> QED BY <1>1, <1>2, <1>3, <1>4 DEF Call

LEMMA RunShape == Run => Leaves \/ HandsOver
<1>1. CASE PopTimer
  BY <1>1 DEF PopTimer, HandsOver
<1>2. CASE PopNothing
  BY <1>2 DEF PopNothing, Leaves
<1>3. CASE \/ TestKeepRunning \/ TestIfEmpty \/ WaitForData \/ FallAsleep \/ WaitUntil
           \/ TestWhileNotEmpty \/ DeadlinePasses \/ Rewait \/ IfFinished \/ PruneTest
           \/ CallbackReturns
  BY <1>3 DEF TestKeepRunning, TestIfEmpty, WaitForData, FallAsleep, WaitUntil,
              TestWhileNotEmpty, DeadlinePasses, Rewait, IfFinished, PruneTest,
              CallbackReturns, Goto, Leaves
<1> QED BY <1>1, <1>2, <1>3 DEF Run

LEMMA NextShape ==
  ASSUME TypeOK, [Next]_vars
  PROVE  Leaves \/ Accepts \/ TakesBack \/ HandsOver
<1>1. CASE Tick
  BY <1>1 DEF Tick, Leaves
<1>2. CASE RunAsync \/ SpuriousWakeup
  BY <1>2 DEF RunAsync, SpuriousWakeup, Goto, Leaves
<1>3. CASE Destroy
  BY <1>3 DEF Destroy, ClearKeepRunning, DestructorNotifies, Join, Leaves
<1>4. CASE UNCHANGED vars
  BY <1>4 DEF vars, Leaves
<1> QED BY <1>1, <1>2, <1>3, <1>4, RunShape, CallShape DEF Next

-----------------------------------------------------------------------------
(* No timer is lost, duplicated, or delivered after its cancellation.      *)

IdsUnique == \A t, u \in timerDataHeap : t.id = u.id => t = u

LEMMA AccountedStep ==
  ASSUME TypeOK, IdsUnique, EachTimerAccountedOnce, [Next]_vars
  PROVE  IdsUnique' /\ EachTimerAccountedOnce'
<1> USE DEF TypeOK, Timer, TimerId
<1>0. \A t \in timerDataHeap : t.id \in 0..(timerIdCounter - 1)
  BY DEF EachTimerAccountedOnce, PendingIds
<1>1. CASE Leaves
  <2>1. UNCHANGED <<timerDataHeap, timerIdCounter, delivered, cancelled>>
    BY <1>1 DEF Leaves
  <2>2. IdsUnique'
    BY <2>1 DEF IdsUnique
  <2>3. PendingIds' = PendingIds /\ DeliveredIds' = DeliveredIds
    BY <2>1 DEF PendingIds, DeliveredIds
  <2> QED BY <2>1, <2>2, <2>3 DEF EachTimerAccountedOnce
<1>2. CASE Accepts
  <2>1. PICK t \in Timer :
          /\ t.id = timerIdCounter
          /\ timerDataHeap' = timerDataHeap \cup {t}
          /\ timerIdCounter' = timerIdCounter + 1
          /\ UNCHANGED <<delivered, cancelled>>
    BY <1>2 DEF Accepts
  <2>2. IdsUnique'
    BY <2>1, <1>0 DEF IdsUnique
  <2>3. PendingIds' = PendingIds \cup {timerIdCounter} /\ DeliveredIds' = DeliveredIds
    BY <2>1 DEF PendingIds, DeliveredIds
  <2>4. 0..(timerIdCounter' - 1) = 0..(timerIdCounter - 1) \cup {timerIdCounter}
    BY <2>1
  <2>5. timerIdCounter \notin DeliveredIds \cup cancelled
    BY DEF EachTimerAccountedOnce
  <2> QED BY <2>1, <2>2, <2>3, <2>4, <2>5 DEF EachTimerAccountedOnce
<1>3. CASE TakesBack
  <2>1. PICK t \in timerDataHeap :
          /\ timerDataHeap' = {u \in timerDataHeap : u.id # t.id}
          /\ cancelled' = cancelled \cup {t.id}
          /\ UNCHANGED <<timerIdCounter, delivered>>
    BY <1>3 DEF TakesBack
  <2>2. IdsUnique'
    BY <2>1 DEF IdsUnique
  <2>3. PendingIds' = PendingIds \ {t.id} /\ DeliveredIds' = DeliveredIds
    BY <2>1 DEF PendingIds, DeliveredIds
  <2>4. t.id \in PendingIds
    BY DEF PendingIds
  <2> QED BY <2>1, <2>2, <2>3, <2>4 DEF EachTimerAccountedOnce
<1>4. CASE HandsOver
  <2>1. PICK t \in timerDataHeap :
          /\ timerDataHeap' = timerDataHeap \ {t}
          /\ delivered' = Append(delivered, t)
          /\ UNCHANGED <<timerIdCounter, cancelled>>
    BY <1>4 DEF HandsOver
  <2>2. IdsUnique'
    BY <2>1 DEF IdsUnique
  <2>3. PendingIds' = PendingIds \ {t.id}
    BY <2>1 DEF PendingIds, IdsUnique
  <2>4. t.id \in PendingIds
    BY DEF PendingIds
  <2>5. /\ Len(delivered') = Len(delivered) + 1
        /\ \A i \in 1..Len(delivered) : delivered'[i] = delivered[i]
        /\ delivered'[Len(delivered) + 1] = t
        /\ DOMAIN delivered = 1..Len(delivered)
        /\ DOMAIN delivered' = 1..(Len(delivered) + 1)
        /\ Len(delivered) \in Nat
    BY <2>1
  <2>6. DeliveredIds' = DeliveredIds \cup {t.id}
    BY <2>5 DEF DeliveredIds
  <2>7. \A i \in DOMAIN delivered : delivered[i].id # t.id
    BY <2>4 DEF EachTimerAccountedOnce, DeliveredIds
  <2>8. \A i, j \in DOMAIN delivered' : delivered'[i].id = delivered'[j].id => i = j
    <3> SUFFICES ASSUME NEW i \in DOMAIN delivered', NEW j \in DOMAIN delivered',
                        delivered'[i].id = delivered'[j].id
                 PROVE  i = j
      OBVIOUS
    <3>1. CASE i \in DOMAIN delivered /\ j \in DOMAIN delivered
      BY <3>1, <2>5 DEF EachTimerAccountedOnce
    <3>2. CASE i = Len(delivered) + 1 \/ j = Len(delivered) + 1
      BY <3>2, <2>5, <2>7
    <3> QED BY <3>1, <3>2, <2>5
  <2> QED BY <2>1, <2>2, <2>3, <2>4, <2>6, <2>8 DEF EachTimerAccountedOnce
<1> QED BY <1>1, <1>2, <1>3, <1>4, NextShape

(* Whatever the threads do, every timer accepted is exactly one of pending,*)
(* delivered and cancelled; in particular a cancelled timer never fires.   *)
THEOREM TimersAccounted == Spec => []EachTimerAccountedOnce
<1>1. Init => IdsUnique /\ EachTimerAccountedOnce
  BY DEF Init, IdsUnique, EachTimerAccountedOnce, PendingIds, DeliveredIds
<1>2. TypeOK /\ IdsUnique /\ EachTimerAccountedOnce /\ [Next]_vars
        => IdsUnique' /\ EachTimerAccountedOnce'
  BY AccountedStep
<1> QED BY <1>1, <1>2, TypeCorrect, PTL DEF Spec

-----------------------------------------------------------------------------
(* Instants are delivered in the order they were triggered.  The clock is  *)
(* read under the mutex, so the endTimes of instants grow with their ids;  *)
(* what is still pending when an instant is handed over was triggered      *)
(* after it.                                                               *)

InstantTimesFollowIds ==
  /\ \A t \in timerDataHeap : t.isInstant => t.endTime <= now
  /\ \A t, u \in timerDataHeap :
       t.isInstant /\ u.isInstant /\ t.id < u.id => t.endTime <= u.endTime

PendingInstantsFollowDelivered ==
  \A i \in DOMAIN delivered : \A t \in timerDataHeap :
    delivered[i].isInstant /\ t.isInstant => delivered[i].id < t.id

OrderInv ==
  InstantTimesFollowIds /\ PendingInstantsFollowDelivered /\ InstantsInOrder

LEMMA OrderStep ==
  ASSUME TypeOK, IdsUnique, EachTimerAccountedOnce, OrderInv, [Next]_vars
  PROVE  OrderInv'
<1> USE DEF TypeOK, Timer, TimerId, Time
<1>0. /\ \A t \in timerDataHeap : t.id \in 0..(timerIdCounter - 1)
      /\ \A i \in DOMAIN delivered : delivered[i].id \in 0..(timerIdCounter - 1)
  BY DEF EachTimerAccountedOnce, PendingIds, DeliveredIds
<1>1. CASE Leaves
  <2>1. UNCHANGED <<timerDataHeap, delivered>> /\ now <= now'
    BY <1>1 DEF Leaves
  <2>2. InstantTimesFollowIds'
    BY <2>1, <1>1 DEF OrderInv, InstantTimesFollowIds, Leaves
  <2> QED BY <2>1, <2>2 DEF OrderInv, PendingInstantsFollowDelivered, InstantsInOrder
<1>2. CASE Accepts
  <2>1. PICK t \in Timer :
          /\ t.id = timerIdCounter
          /\ t.isInstant => t.endTime = now
          /\ timerDataHeap' = timerDataHeap \cup {t}
          /\ UNCHANGED <<now, delivered>>
    BY <1>2 DEF Accepts
  <2>2. InstantTimesFollowIds'
    BY <2>1, <1>0 DEF OrderInv, InstantTimesFollowIds
  <2>3. PendingInstantsFollowDelivered'
    BY <2>1, <1>0 DEF OrderInv, PendingInstantsFollowDelivered
  <2> QED BY <2>1, <2>2, <2>3 DEF OrderInv, InstantsInOrder
<1>3. CASE TakesBack
  <2>1. timerDataHeap' \subseteq timerDataHeap /\ UNCHANGED <<now, delivered>>
    BY <1>3 DEF TakesBack
  <2> QED BY <2>1 DEF OrderInv, InstantTimesFollowIds, PendingInstantsFollowDelivered,
                      InstantsInOrder
<1>4. CASE HandsOver
  <2>1. PICK t \in timerDataHeap :
          /\ IsFront(t, timerDataHeap)
          /\ timerDataHeap' = timerDataHeap \ {t}
          /\ delivered' = Append(delivered, t)
          /\ UNCHANGED now
    BY <1>4 DEF HandsOver
  <2>2. /\ \A i \in DOMAIN delivered : delivered'[i] = delivered[i]
        /\ delivered'[Len(delivered) + 1] = t
        /\ DOMAIN delivered = 1..Len(delivered)
        /\ DOMAIN delivered' = 1..(Len(delivered) + 1)
        /\ Len(delivered) \in Nat
    BY <2>1
  <2>3. InstantTimesFollowIds'
    BY <2>1 DEF OrderInv, InstantTimesFollowIds
  <2>4. \A u \in timerDataHeap \ {t} : t.isInstant /\ u.isInstant => t.id < u.id
    <3> SUFFICES ASSUME NEW u \in timerDataHeap \ {t}, t.isInstant, u.isInstant
                 PROVE  t.id < u.id
      OBVIOUS
    <3>1. Before(t, u)
      BY <2>1 DEF IsFront
    <3>2. t.id # u.id
      BY DEF IdsUnique
    <3>3. u.id < t.id => u.endTime <= t.endTime
      BY DEF OrderInv, InstantTimesFollowIds
    <3> QED BY <3>1, <3>2, <3>3 DEF Before
  <2>5. PendingInstantsFollowDelivered'
    <3> SUFFICES ASSUME NEW i \in DOMAIN delivered', NEW u \in timerDataHeap',
                        delivered'[i].isInstant, u.isInstant
                 PROVE  delivered'[i].id < u.id
      BY DEF PendingInstantsFollowDelivered
    <3>1. CASE i \in DOMAIN delivered
      BY <3>1, <2>1, <2>2 DEF OrderInv, PendingInstantsFollowDelivered
    <3>2. CASE i = Len(delivered) + 1
      BY <3>2, <2>1, <2>2, <2>4
    <3> QED BY <3>1, <3>2, <2>2
  <2>6. InstantsInOrder'
    <3> SUFFICES ASSUME NEW i \in DOMAIN delivered', NEW j \in DOMAIN delivered', i < j,
                        delivered'[i].isInstant, delivered'[j].isInstant
                 PROVE  delivered'[i].id < delivered'[j].id
      BY DEF InstantsInOrder
    <3>1. i \in DOMAIN delivered
      BY <2>2
    <3>2. CASE j \in DOMAIN delivered
      BY <3>1, <3>2, <2>2 DEF OrderInv, InstantsInOrder
    <3>3. CASE j = Len(delivered) + 1
      BY <3>1, <3>3, <2>2 DEF OrderInv, PendingInstantsFollowDelivered
    <3> QED BY <3>2, <3>3, <2>2
  <2> QED BY <2>3, <2>5, <2>6 DEF OrderInv
<1> QED BY <1>1, <1>2, <1>3, <1>4, NextShape

(* Instant events are delivered in the order they were triggered, whoever  *)
(* triggers, cancels or registers meanwhile.                               *)
THEOREM InstantOrder == Spec => []InstantsInOrder
<1>1. Init => IdsUnique /\ EachTimerAccountedOnce /\ OrderInv
  BY DEF Init, IdsUnique, EachTimerAccountedOnce, PendingIds, DeliveredIds, OrderInv,
         InstantTimesFollowIds, PendingInstantsFollowDelivered, InstantsInOrder
<1>2. TypeOK /\ IdsUnique /\ EachTimerAccountedOnce /\ OrderInv /\ [Next]_vars
        => IdsUnique' /\ EachTimerAccountedOnce' /\ OrderInv'
  BY AccountedStep, OrderStep
<1>3. OrderInv => InstantsInOrder
  BY DEF OrderInv
<1> QED BY <1>1, <1>2, <1>3, TypeCorrect, PTL DEF Spec

-----------------------------------------------------------------------------
(* No lost wakeup.  A thread about to sleep for data holds the mutex, so   *)
(* the heap is still empty when it joins the waiters.                      *)

WakeupInv ==
  /\ NoOversleep
  /\ runPc = "dozing" => timerDataHeap = {}

LEMMA WakeupCallStep ==
  ASSUME TypeOK, WakeupInv, NEW th \in Threads, Call(th)
  PROVE  WakeupInv'
<1> USE DEF TypeOK, Timer, Time
<1>1. CASE \E d \in Durations : RegisterTimer(th, d)
  BY <1>1 DEF RegisterTimer, MayCall, WakeupInv, NoOversleep
<1>2. CASE PushTimer(th)
  <2> DEFINE t == [id |-> timerIdCounter, isInstant |-> FALSE, endTime |-> callEnd[th]]
  <2>1. /\ timerDataHeap' = timerDataHeap \cup {t}
        /\ callPc[th] = "register"
        /\ runPc' = runPc /\ soonestTime' = soonestTime
        /\ runPc # "dozing"
        /\ callPc' = [callPc EXCEPT ![th] = IF SoonerThanAll(t.endTime) THEN "notify"
                                                                      ELSE "idle"]
    BY <1>2 DEF PushTimer, MutexFree
  <2>2. CASE SoonerThanAll(t.endTime)
    <3>1. callPc'[th] = "notify"
      BY <2>1, <2>2
    <3> QED BY <2>1, <3>1 DEF WakeupInv, NoOversleep
  <2>3. CASE ~SoonerThanAll(t.endTime)
    <3>1. PICK u \in timerDataHeap : u.endTime <= t.endTime
      BY <2>3 DEF SoonerThanAll
    <3>2. \A s \in Threads : callPc[s] = "notify" => callPc'[s] = "notify"
      BY <2>1
    <3>3. t.endTime < soonestTime => u.endTime < soonestTime
      BY <3>1
    <3> QED BY <2>1, <3>1, <3>2, <3>3 DEF WakeupInv, NoOversleep
  <2> QED BY <2>2, <2>3
<1>3. CASE TriggerInstantTimer(th)
  BY <1>3 DEF TriggerInstantTimer, MutexFree, WakeupInv, NoOversleep
<1>4. CASE NotifyOne(th)
  BY <1>4 DEF NotifyOne, Woken, WakeupInv, NoOversleep
<1>5. CASE \E id \in handles : CancelTimer(th, id)
  BY <1>5 DEF CancelTimer, Without, MutexFree, WakeupInv, NoOversleep
<1> QED BY <1>1, <1>2, <1>3, <1>4, <1>5 DEF Call

LEMMA WakeupRunStep == ASSUME TypeOK, WakeupInv, Run PROVE WakeupInv'
<1> USE DEF WakeupInv, NoOversleep
<1>1. CASE TestKeepRunning \/ TestIfEmpty \/ TestWhileNotEmpty \/ DeadlinePasses
  BY <1>1 DEF TestKeepRunning, TestIfEmpty, TestWhileNotEmpty, DeadlinePasses, Goto
<1>2. CASE WaitForData \/ FallAsleep
  BY <1>2 DEF WaitForData, FallAsleep, Goto
<1>3. CASE WaitUntil
  BY <1>3 DEF WaitUntil, WaitIsOver, Goto
<1>4. CASE Rewait
  BY <1>4 DEF Rewait, WaitIsOver, Goto
<1>5. CASE IfFinished \/ PruneTest \/ CallbackReturns \/ PopTimer \/ PopNothing
  BY <1>5 DEF IfFinished, PruneTest, CallbackReturns, PopTimer, PopNothing, Goto
<1> QED BY <1>1, <1>2, <1>3, <1>4, <1>5 DEF Run

(* The timer thread never sleeps past a pending timer without a            *)
(* notification on its way.                                                *)
THEOREM NoLostWakeup == Spec => []NoOversleep
<1>1. Init => WakeupInv
  BY DEF Init, WakeupInv, NoOversleep
<1>2. TypeOK /\ WakeupInv /\ [Next]_vars => WakeupInv'
  <2> SUFFICES ASSUME TypeOK, WakeupInv, [Next]_vars PROVE WakeupInv'
    OBVIOUS
  <2>1. CASE Tick \/ UNCHANGED vars
    BY <2>1 DEF Tick, vars, WakeupInv, NoOversleep
  <2>2. CASE RunAsync \/ SpuriousWakeup
    BY <2>2 DEF RunAsync, SpuriousWakeup, Goto, Woken, WakeupInv, NoOversleep
  <2>3. CASE Destroy
    BY <2>3 DEF Destroy, ClearKeepRunning, DestructorNotifies, Join, Woken, WakeupInv,
                NoOversleep
  <2> QED BY <2>1, <2>2, <2>3, WakeupCallStep, WakeupRunStep DEF Next
<1>3. WakeupInv => NoOversleep
  BY DEF WakeupInv
<1> QED BY <1>1, <1>2, <1>3, TypeCorrect, PTL DEF Spec

-----------------------------------------------------------------------------
(* The threads and their locks implement the queue of TimerQueue, whoever  *)
(* cancels.                                                                *)

HandlesAreDelayed ==
  \A t \in timerDataHeap : t.id \in handles => ~t.isInstant

AllHandlesIssued == handles \subseteq 0..(timerIdCounter - 1)

QueueInv ==
  /\ TypeOK
  /\ IdsUnique
  /\ EachTimerAccountedOnce
  /\ HandlesAreDelayed
  /\ AllHandlesIssued

LEMMA HandlesStep ==
  ASSUME QueueInv, [Next]_vars
  PROVE  HandlesAreDelayed' /\ AllHandlesIssued'
<1> USE DEF QueueInv, HandlesAreDelayed, AllHandlesIssued, TypeOK, Timer, TimerId
<1>0. \A t \in timerDataHeap : t.id \in 0..(timerIdCounter - 1)
  BY DEF EachTimerAccountedOnce, PendingIds
<1>1. CASE Tick \/ UNCHANGED vars
  BY <1>1 DEF Tick, vars
<1>2. CASE RunAsync \/ SpuriousWakeup
  BY <1>2 DEF RunAsync, SpuriousWakeup, Goto
<1>3. CASE Destroy
  BY <1>3 DEF Destroy, ClearKeepRunning, DestructorNotifies, Join
<1>4. CASE Run
  <2>1. timerDataHeap' \subseteq timerDataHeap /\ UNCHANGED <<handles, timerIdCounter>>
    BY <1>4 DEF Run, TestKeepRunning, TestIfEmpty, WaitForData, FallAsleep,
                TestWhileNotEmpty, WaitUntil, DeadlinePasses, Rewait, IfFinished,
                PruneTest, PopTimer, PopNothing, CallbackReturns, Goto
  <2> QED BY <2>1
<1>5. ASSUME NEW th \in Threads, Call(th)
      PROVE  HandlesAreDelayed' /\ AllHandlesIssued'
  <2>1. CASE (\E d \in Durations : RegisterTimer(th, d)) \/ NotifyOne(th)
    BY <2>1 DEF RegisterTimer, NotifyOne
  <2>2. CASE PushTimer(th)
    <3> DEFINE t == [id |-> timerIdCounter, isInstant |-> FALSE, endTime |-> callEnd[th]]
    <3>1. /\ timerDataHeap' = timerDataHeap \cup {t}
          /\ timerIdCounter' = timerIdCounter + 1
          /\ handles' = handles \cup {timerIdCounter}
      BY <2>2 DEF PushTimer
    <3> QED BY <3>1, <1>0
  <2>3. CASE TriggerInstantTimer(th)
    <3> DEFINE t == [id |-> timerIdCounter, isInstant |-> TRUE, endTime |-> InstantEndTime]
    <3>1. /\ timerDataHeap' = timerDataHeap \cup {t}
          /\ timerIdCounter' = timerIdCounter + 1
          /\ handles' = handles
      BY <2>3 DEF TriggerInstantTimer
    <3> QED BY <3>1
  <2>4. CASE \E id \in handles : CancelTimer(th, id)
    BY <2>4 DEF CancelTimer, Without
  <2> QED BY <1>5, <2>1, <2>2, <2>3, <2>4 DEF Call
<1> QED BY <1>1, <1>2, <1>3, <1>4, <1>5 DEF Next

LEMMA QueueCallStep ==
  ASSUME QueueInv, NEW th \in Threads, Call(th)
  PROVE  [Queue!Next]_(Queue!vars)
<1> USE DEF Queue!Next, Queue!vars
<1>1. CASE (\E d \in Durations : RegisterTimer(th, d)) \/ NotifyOne(th)
  BY <1>1 DEF RegisterTimer, NotifyOne, Woken
<1>2. CASE PushTimer(th)
  <2>1. Queue!Accept(FALSE, callEnd[th])
    BY <1>2 DEF PushTimer, Queue!Accept
  <2>2. callEnd[th] \in 0..MaxTime
    BY DEF QueueInv, TypeOK, Time
  <2> QED BY <2>1, <2>2
<1>3. CASE TriggerInstantTimer(th)
  <2>1. timerIdCounter < MaxTimers
    BY <1>3 DEF TriggerInstantTimer, Room
  <2>2. Queue!Accept(TRUE, now)
    BY <1>3, <2>1 DEF TriggerInstantTimer, InstantEndTime, Queue!Accept
  <2>3. now \in 0..MaxTime
    BY DEF QueueInv, TypeOK, Time
  <2> QED BY <2>2, <2>3
<1>4. CASE \E id \in handles : CancelTimer(th, id)
  <2>1. PICK id \in handles : CancelTimer(th, id)
    BY <1>4
  <2>2. PICK t \in timerDataHeap : t.id = id
    BY <2>1 DEF CancelTimer
  <2>3. Without(id) = timerDataHeap \ {t}
    BY <2>2 DEF Without, QueueInv, IdsUnique
  <2>4. Queue!Cancel(t)
    BY <2>1, <2>2, <2>3 DEF CancelTimer, Queue!Cancel, QueueInv, HandlesAreDelayed
  <2> QED BY <2>4
<1> QED BY <1>1, <1>2, <1>3, <1>4 DEF Call

LEMMA QueueRunStep ==
  ASSUME QueueInv, Run
  PROVE  [Queue!Next]_(Queue!vars)
<1>1. CASE PopTimer
  <2>1. PICK t \in timerDataHeap :
          /\ IsFront(t, timerDataHeap)
          /\ timerDataHeap' = timerDataHeap \ {t}
          /\ delivered' = Append(delivered, t)
    BY <1>1 DEF PopTimer
  <2>2. \A v \in timerDataHeap \ {t} : Queue!Sooner(t, v)
    BY <2>1 DEF IsFront, Before, Queue!Sooner
  <2>3. Queue!Deliver(t)
    BY <1>1, <2>1, <2>2 DEF PopTimer, Queue!Deliver
  <2> QED BY <2>3 DEF Queue!Next, Queue!HandOver
<1>2. CASE PopNothing
  BY <1>2 DEF PopNothing, Queue!Break, Queue!HandOver, Queue!Next
<1>3. CASE TestKeepRunning \/ TestIfEmpty \/ WaitForData \/ FallAsleep \/ TestWhileNotEmpty
  BY <1>3 DEF TestKeepRunning, TestIfEmpty, WaitForData, FallAsleep, TestWhileNotEmpty,
              Goto, Queue!vars
<1>4. CASE WaitUntil \/ DeadlinePasses \/ Rewait \/ IfFinished \/ CallbackReturns
  BY <1>4 DEF WaitUntil, DeadlinePasses, Rewait, IfFinished, CallbackReturns, Goto,
              Queue!vars
<1>5. CASE PruneTest
  <2>1. CASE MostRecentTimerIsFinished
    <3>1. Queue!FindDue
      BY <1>5, <2>1 DEF PruneTest, Goto, MostRecentTimerIsFinished, Queue!FindDue
    <3> QED BY <3>1 DEF Queue!HandOver, Queue!Next
  <2>2. CASE ~MostRecentTimerIsFinished
    BY <1>5, <2>2 DEF PruneTest, Goto, Queue!vars
  <2> QED BY <2>1, <2>2
<1> QED BY <1>1, <1>2, <1>3, <1>4, <1>5 DEF Run

LEMMA QueueStep ==
  ASSUME QueueInv, [Next]_vars
  PROVE  [Queue!Next]_(Queue!vars)
<1>1. CASE Tick
  BY <1>1 DEF Tick, Queue!Next, Queue!Tick
<1>2. CASE RunAsync \/ SpuriousWakeup
  BY <1>2 DEF RunAsync, SpuriousWakeup, Goto, Woken, Queue!vars
<1>3. CASE Destroy
  <2>1. CASE ClearKeepRunning
    BY <2>1 DEF ClearKeepRunning, Queue!Next, Queue!Close
  <2>2. CASE DestructorNotifies \/ Join
    BY <2>2 DEF DestructorNotifies, Join, Woken, Queue!vars
  <2> QED BY <1>3, <2>1, <2>2 DEF Destroy
<1>4. CASE UNCHANGED vars
  BY <1>4 DEF vars, Queue!vars
<1> QED BY <1>1, <1>2, <1>3, <1>4, QueueCallStep, QueueRunStep DEF Next

(* TimerManager implements TimerQueue, whatever threads cancel: every      *)
(* initial state and every step maps to one of the queue.                  *)
THEOREM ImplementsQueue == Spec => Queue!Spec
<1>1. Init => QueueInv
  BY InitType DEF Init, QueueInv, IdsUnique, EachTimerAccountedOnce, PendingIds,
     DeliveredIds, HandlesAreDelayed, AllHandlesIssued
<1>2. QueueInv /\ [Next]_vars => QueueInv'
  BY NextType, AccountedStep, HandlesStep DEF QueueInv
<1>3. Init => Queue!Init
  BY DEF Init, Queue!Init
<1>4. QueueInv /\ [Next]_vars => [Queue!Next]_(Queue!vars)
  BY QueueStep
<1> QED BY <1>1, <1>2, <1>3, <1>4, PTL DEF Spec, Queue!Spec

(* All that run timer_queue checks between two steps, for any constants,   *)
(* cancelling threads included: the types, no timer lost or doubled,       *)
(* instant events in order, and no lost wakeup.                            *)
THEOREM ConsistentAlways == Spec => []Consistent
<1>1. TypeOK /\ EachTimerAccountedOnce /\ InstantsInOrder /\ NoOversleep => Consistent
  BY DEF Consistent
<1> QED BY <1>1, TypeCorrect, TimersAccounted, InstantOrder, NoLostWakeup, PTL

HIDE TimerManagerAssumption

-----------------------------------------------------------------------------
(* 2. Subscriptions: no handler is called after its unsubscription, and a  *)
(* sleeping unsubscriber is never forgotten.                               *)

USE SubscriptionsAssumption


-----------------------------------------------------------------------------
(* The inductive invariant.                                                *)

(* An unsubscriber has a subscription to leave.                            *)
LeavesASubscription ==
  \A c \in Users : pc[c] \in {"lock", "test", "asleep"} => leaving[c] \in SubscriptionId

(* No one is listed twice.                                                 *)
Distinct(subscribers) ==
  \A i, j \in DOMAIN subscribers : subscribers[i] = subscribers[j] => i = j

(* The map names existing subscriptions only, none of them twice under a   *)
(* code, and no id is used again.                                          *)
MapsExisting ==
  /\ \A code \in Codes :
       /\ Distinct(subscriptionMap[code])
       /\ \A i \in DOMAIN subscriptionMap[code] :
            subscriptionMap[code][i] \in subscriptionMasterList
  /\ \A s \in subscriptionMasterList : s < subscriptionCount

(* The timer thread calls each subscriber of an event once, and has one to *)
(* call while it is calling.                                               *)
CallsEachOnce ==
  /\ Distinct(subscribersToNotify)
  /\ notifyPc \in {"waiting", "snapshot"} => subscribersToNotify = << >>
  /\ notifyPc \in {"lockWorld", "handling", "decrement", "notify"} =>
       subscribersToNotify # << >>

(* The caller count of a subscription says whether the timer thread is to  *)
(* call it or is calling it.                                               *)
CountsCallers ==
  \A s \in SubscriptionId : currentCallerCount[s] = IF s \in InFlight THEN 1 ELSE 0

IInv ==
  /\ SubsTypeOK
  /\ LeavesASubscription
  /\ MapsExisting
  /\ CallsEachOnce
  /\ CountsCallers
  /\ NoCallAfterUnsubscribe
  /\ SleeperWillBeWoken

-----------------------------------------------------------------------------
(* Sequences of subscribers.                                               *)

Elements(subscribers) == {subscribers[i] : i \in DOMAIN subscribers}

LEMMA ErasedShape ==
  ASSUME NEW subscribers \in Seq(SubscriptionId), NEW s, Distinct(subscribers)
  PROVE  /\ Erased(subscribers, s) \in Seq(SubscriptionId)
         /\ Distinct(Erased(subscribers, s))
         /\ Elements(Erased(subscribers, s)) = Elements(subscribers) \ {s}
<1> DEFINE n == Len(subscribers)
<1>1. n \in Nat /\ DOMAIN subscribers = 1..n
  BY LenProperties
<1>2. CASE Place(subscribers, s) = {}
  <2>1. Erased(subscribers, s) = subscribers
    BY <1>2 DEF Erased
  <2>2. s \notin Elements(subscribers)
    BY <1>2 DEF Place, Elements
  <2> QED BY <2>1, <2>2
<1>3. CASE Place(subscribers, s) # {}
  <2> DEFINE i == CHOOSE i \in Place(subscribers, s) : TRUE
             rest == [j \in 1..(n - 1) |->
                        IF j < i THEN subscribers[j] ELSE subscribers[j + 1]]
  <2>1. Erased(subscribers, s) = rest
    BY <1>3 DEF Erased
  <2>2. i \in 1..n /\ subscribers[i] = s
    BY <1>1, <1>3 DEF Place
  <2> HIDE DEF i
  <2>3. \A j \in 1..(n - 1) : rest[j] = IF j < i THEN subscribers[j] ELSE subscribers[j + 1]
    OBVIOUS
  <2>4. n - 1 \in Nat /\ DOMAIN rest = 1..(n - 1)
    BY <1>1, <2>2
  <2>5. \A j \in 1..(n - 1) : rest[j] \in SubscriptionId
    BY <1>1, <2>2, <2>3, ElementOfSeq
  <2>6. rest \in Seq(SubscriptionId)
    <3>1. rest \in [1..(n - 1) -> SubscriptionId]
      BY <2>5, Zenon
    <3> HIDE DEF rest
    <3>2. Seq(SubscriptionId) = UNION {[1..m -> SubscriptionId] : m \in Nat}
      BY SeqDef
    <3>3. \E m \in Nat : rest \in [1..m -> SubscriptionId]
      BY <2>4, <3>1
    <3> QED BY <3>2, <3>3, Zenon
  <2>7. Distinct(rest)
    BY <1>1, <2>2, <2>3, <2>4 DEF Distinct
  <2>8. \A j \in 1..(n - 1) : rest[j] \in Elements(subscribers) /\ rest[j] # s
    BY <1>1, <2>2, <2>3 DEF Distinct, Elements
  <2>9. ASSUME NEW e \in Elements(subscribers), e # s PROVE e \in Elements(rest)
    <3>1. PICK k \in 1..n : subscribers[k] = e
      BY <1>1 DEF Elements
    <3>2. CASE k < i
      <4>1. k \in 1..(n - 1)
        BY <1>1, <2>2, <3>1, <3>2
      <4> QED BY <2>3, <2>4, <3>1, <3>2, <4>1 DEF Elements
    <3>3. CASE k > i
      <4>1. k - 1 \in 1..(n - 1) /\ ~(k - 1 < i) /\ (k - 1) + 1 = k
        BY <1>1, <2>2, <3>1, <3>3
      <4> QED BY <2>3, <2>4, <3>1, <4>1 DEF Elements
    <3> QED BY <1>1, <2>2, <2>9, <3>1, <3>2, <3>3
  <2> HIDE DEF rest
  <2>10. Elements(rest) = Elements(subscribers) \ {s}
    BY <2>4, <2>8, <2>9 DEF Elements
  <2> QED BY <2>1, <2>6, <2>7, <2>10
<1> QED BY <1>2, <1>3

LEMMA AppendShape ==
  ASSUME NEW subscribers \in Seq(SubscriptionId), NEW s \in SubscriptionId,
         Distinct(subscribers), s \notin Elements(subscribers)
  PROVE  /\ Append(subscribers, s) \in Seq(SubscriptionId)
         /\ Distinct(Append(subscribers, s))
         /\ Elements(Append(subscribers, s)) = Elements(subscribers) \cup {s}
<1> DEFINE longer == Append(subscribers, s)
           n == Len(subscribers)
<1>1. /\ longer \in Seq(SubscriptionId)
      /\ Len(longer) = n + 1
      /\ \A i \in 1..n : longer[i] = subscribers[i]
      /\ longer[n + 1] = s
  BY AppendProperties
<1> HIDE DEF longer
<1>2. n \in Nat /\ DOMAIN subscribers = 1..n /\ DOMAIN longer = 1..(n + 1)
  BY <1>1, LenProperties
<1>3. \A i \in 1..n : subscribers[i] # s
  BY <1>2 DEF Elements
<1>4. Distinct(longer)
  BY <1>1, <1>2, <1>3 DEF Distinct
<1>5. Elements(longer) = Elements(subscribers) \cup {s}
  BY <1>1, <1>2 DEF Elements
<1> QED BY <1>1, <1>4, <1>5 DEF longer

LEMMA TailShape ==
  ASSUME NEW subscribers \in Seq(SubscriptionId), subscribers # << >>, Distinct(subscribers)
  PROVE  /\ Tail(subscribers) \in Seq(SubscriptionId)
         /\ Distinct(Tail(subscribers))
         /\ Head(subscribers) \in Elements(subscribers)
         /\ Elements(Tail(subscribers)) = Elements(subscribers) \ {Head(subscribers)}
<1> DEFINE tail == Tail(subscribers)
           n == Len(subscribers)
<1>1. /\ tail \in Seq(SubscriptionId)
      /\ Len(tail) = n - 1
      /\ \A i \in 1..(n - 1) : tail[i] = subscribers[i + 1]
  BY HeadTailProperties
<1> HIDE DEF tail
<1>2. n \in Nat \ {0} /\ DOMAIN subscribers = 1..n /\ DOMAIN tail = 1..(n - 1)
  BY <1>1, LenProperties, EmptySeq
<1>3. Head(subscribers) = subscribers[1]
  OBVIOUS
<1>4. Distinct(tail)
  BY <1>1, <1>2 DEF Distinct
<1>5. \A i \in 1..(n - 1) :
        tail[i] \in Elements(subscribers) /\ tail[i] # subscribers[1]
  BY <1>1, <1>2 DEF Distinct, Elements
<1>6. ASSUME NEW e \in Elements(subscribers), e # subscribers[1] PROVE e \in Elements(tail)
  <2>1. PICK k \in 1..n : subscribers[k] = e
    BY <1>2 DEF Elements
  <2>2. k - 1 \in 1..(n - 1) /\ (k - 1) + 1 = k
    BY <1>2, <1>6, <2>1
  <2> QED BY <1>1, <1>2, <2>1, <2>2 DEF Elements
<1>7. Elements(tail) = Elements(subscribers) \ {subscribers[1]}
  BY <1>2, <1>5, <1>6 DEF Elements
<1>8. subscribers[1] \in Elements(subscribers)
  BY <1>2 DEF Elements
<1> QED BY <1>1, <1>3, <1>4, <1>7, <1>8 DEF tail

-----------------------------------------------------------------------------
(* What the steps do to the registry, and to what the timer thread is to   *)
(* call.                                                                   *)

LEMMA CalledNow == ToNotify = Elements(subscribersToNotify)
  BY DEF ToNotify, Elements

LEMMA CalledNext == ToNotify' = Elements(subscribersToNotify')
  BY DEF ToNotify, Elements

SameRegistry ==
  UNCHANGED <<subscriptionMap, subscriptionMasterList, subscriptionCount>>

SubscribesTo(code) ==
  /\ subscriptionCount \in SubscriptionId
  /\ subscriptionCount' = subscriptionCount + 1
  /\ subscriptionMasterList' = subscriptionMasterList \cup {subscriptionCount}
  /\ subscriptionMap' = [subscriptionMap EXCEPT ![code] = Append(@, subscriptionCount)]

Removes(s) ==
  /\ Unused(s)
  /\ subscriptionMap' = [code \in Codes |-> Erased(subscriptionMap[code], s)]
  /\ subscriptionMasterList' = subscriptionMasterList \ {s}
  /\ subscriptionCount' = subscriptionCount

SameCalls ==
  /\ UNCHANGED <<subscribersToNotify, currentCallerCount>>
  /\ \/ notifyPc' = notifyPc
     \/ notifyPc = "waiting" /\ notifyPc' = "snapshot"
     \/ notifyPc = "next" /\ subscribersToNotify = << >> /\ notifyPc' = "waiting"
     \/ /\ notifyPc = "next" /\ subscribersToNotify # << >>
        /\ notifyPc' \in {"lockWorld", "handling"}
     \/ notifyPc = "lockWorld" /\ notifyPc' = "handling"
     \/ notifyPc = "handling" /\ notifyPc' = "decrement"

LEMMA RegistryShape ==
  ASSUME SubsTypeOK, [SubsNext]_subsVars
  PROVE  \/ SameRegistry
         \/ SameCalls /\ \E code \in Codes : SubscribesTo(code)
         \/ SameCalls /\ \E c \in Users : Removes(leaving[c])
<1> USE DEF SameRegistry, registry
<1>1. CASE NotifySubscribers
  BY <1>1 DEF NotifySubscribers, TimerFinished, SnapshotSubscribers, CallHandler,
              HandlerReturns, DecrementCallerCount, WakeUnsubscriber, AllNotified
<1>2. CASE HandlerLocksWorld
  BY <1>2 DEF HandlerLocksWorld
<1>3. CASE \E code \in Codes : HandlerPublishes(code)
  BY <1>3 DEF HandlerPublishes, Publish
<1>4. ASSUME NEW c \in Users, Begin(c) \/ UnlockWorld(c) \/ Unsubscribing(c) \/ SpuriousReturn(c)
      PROVE  \/ SameRegistry
             \/ SameCalls /\ \E code \in Codes : SubscribesTo(code)
             \/ SameCalls /\ \E d \in Users : Removes(leaving[d])
  <2>1. CASE LockWorld(c) \/ (\E code \in Codes : PublishEvent(c, code))
                          \/ (\E s \in held : UnsubscribeFromEvent(c, s))
    BY <2>1 DEF LockWorld, PublishEvent, Publish, UnsubscribeFromEvent
  <2>2. ASSUME NEW code \in Codes, NEW locks \in HandlersLock, SubscribeToEvent(c, code, locks)
        PROVE  SameCalls /\ SubscribesTo(code)
    BY <2>2 DEF SubscribeToEvent, SameCalls, SubscribesTo, SubsTypeOK, SubscriptionId
  <2>3. CASE UnlockWorld(c) \/ SpuriousReturn(c) \/ LockSubscriptions(c) \/ WaitForCallers(c)
    BY <2>3 DEF UnlockWorld, SpuriousReturn, LockSubscriptions, WaitForCallers
  <2>4. ASSUME RemoveSubscription(c)
        PROVE  SameCalls /\ Removes(leaving[c])
    BY <2>4 DEF RemoveSubscription, SameCalls, Removes
  <2> QED BY <1>4, <2>1, <2>2, <2>3, <2>4 DEF Begin, Unsubscribing
<1>5. CASE UNCHANGED subsVars
  BY <1>5 DEF subsVars
<1> QED BY <1>1, <1>2, <1>3, <1>4, <1>5 DEF SubsNext

LEMMA CallsShape ==
  ASSUME [SubsNext]_subsVars
  PROVE  SameCalls \/ SnapshotSubscribers \/ DecrementCallerCount \/ WakeUnsubscriber
<1> USE DEF SameCalls
<1>1. CASE TimerFinished \/ CallHandler \/ HandlerReturns \/ AllNotified \/ HandlerLocksWorld
  BY <1>1 DEF TimerFinished, CallHandler, HandlerReturns, AllNotified, HandlerLocksWorld
<1>2. CASE \E code \in Codes : HandlerPublishes(code)
  BY <1>2 DEF HandlerPublishes, Publish
<1>3. ASSUME NEW c \in Users, Begin(c) \/ UnlockWorld(c) \/ Unsubscribing(c) \/ SpuriousReturn(c)
      PROVE  SameCalls
  BY <1>3 DEF Begin, LockWorld, PublishEvent, Publish, SubscribeToEvent, UnsubscribeFromEvent,
              UnlockWorld, SpuriousReturn, Unsubscribing, LockSubscriptions, RemoveSubscription,
              WaitForCallers
<1>4. CASE UNCHANGED subsVars
  BY <1>4 DEF subsVars
<1> QED BY <1>1, <1>2, <1>3, <1>4 DEF SubsNext, NotifySubscribers

-----------------------------------------------------------------------------
(* The parts of the invariant, one by one.                                 *)

LEMMA MapsStep ==
  ASSUME SubsTypeOK, MapsExisting, [SubsNext]_subsVars
  PROVE  MapsExisting'
<1>1. CASE SameRegistry
  BY <1>1 DEF SameRegistry, MapsExisting, Distinct
<1>2. ASSUME NEW code \in Codes, SubscribesTo(code) PROVE MapsExisting'
  <2> DEFINE s == subscriptionCount
  <2>1. subscriptionMap[code] \in Seq(SubscriptionId) /\ s \in SubscriptionId
    BY <1>2 DEF SubsTypeOK, SubscribesTo
  <2>2. s \in Nat /\ s \notin subscriptionMasterList
    BY <2>1 DEF MapsExisting, SubsTypeOK, SubscriptionId
  <2>3. Distinct(subscriptionMap[code]) /\ s \notin Elements(subscriptionMap[code])
    BY <2>2 DEF MapsExisting, Elements
  <2>4. subscriptionMap'[code] = Append(subscriptionMap[code], s)
    BY <1>2 DEF SubscribesTo, SubsTypeOK
  <2>5. /\ Distinct(subscriptionMap'[code])
        /\ Elements(subscriptionMap'[code]) = Elements(subscriptionMap[code]) \cup {s}
    BY <2>1, <2>3, <2>4, AppendShape
  <2>6. \A other \in Codes \ {code} : subscriptionMap'[other] = subscriptionMap[other]
    BY <1>2 DEF SubscribesTo, SubsTypeOK
  <2>7. \A other \in Codes :
          /\ Distinct(subscriptionMap'[other])
          /\ Elements(subscriptionMap'[other]) \subseteq subscriptionMasterList \cup {s}
    BY <2>5, <2>6 DEF MapsExisting, Elements
  <2>8. \A t \in subscriptionMasterList \cup {s} : t < subscriptionCount'
    BY <1>2, <2>2 DEF SubscribesTo, MapsExisting, SubsTypeOK, SubscriptionId
  <2> QED BY <1>2, <2>7, <2>8 DEF SubscribesTo, MapsExisting, Elements, Distinct
<1>3. ASSUME NEW s, Removes(s) PROVE MapsExisting'
  <2>1. ASSUME NEW code \in Codes
        PROVE  /\ Distinct(subscriptionMap'[code])
               /\ Elements(subscriptionMap'[code]) \subseteq subscriptionMasterList'
    <3>1. subscriptionMap[code] \in Seq(SubscriptionId) /\ Distinct(subscriptionMap[code])
      BY DEF SubsTypeOK, MapsExisting
    <3>2. subscriptionMap'[code] = Erased(subscriptionMap[code], s)
      BY <1>3 DEF Removes
    <3>3. Elements(subscriptionMap[code]) \subseteq subscriptionMasterList
      BY DEF MapsExisting, Elements
    <3> QED BY <1>3, <3>1, <3>2, <3>3, ErasedShape DEF Removes
  <2> QED BY <1>3, <2>1 DEF Removes, MapsExisting, Elements, Distinct
<1> QED BY <1>1, <1>2, <1>3, RegistryShape

LEMMA CallsStep ==
  ASSUME SubsTypeOK, MapsExisting, CallsEachOnce, [SubsNext]_subsVars
  PROVE  CallsEachOnce'
<1>1. CASE SameCalls
  BY <1>1 DEF SameCalls, CallsEachOnce, Distinct
<1>2. CASE SnapshotSubscribers
  BY <1>2 DEF SnapshotSubscribers, CallsEachOnce, MapsExisting, Distinct, SubsTypeOK, Event
<1>3. CASE DecrementCallerCount \/ WakeUnsubscriber
  <2>1. /\ subscribersToNotify # << >>
        /\ \/ subscribersToNotify' = subscribersToNotify /\ notifyPc' = "notify"
           \/ subscribersToNotify' = Tail(subscribersToNotify) /\ notifyPc' = "next"
    BY <1>3 DEF DecrementCallerCount, WakeUnsubscriber, CallsEachOnce
  <2>2. Distinct(Tail(subscribersToNotify))
    BY <2>1, TailShape DEF SubsTypeOK, CallsEachOnce
  <2> QED BY <2>1, <2>2 DEF CallsEachOnce, Distinct
<1> QED BY <1>1, <1>2, <1>3, CallsShape

(* What each step makes of the subscriptions the timer thread counts.      *)
LEMMA InFlightStep ==
  ASSUME SubsTypeOK, CallsEachOnce, CountsCallers
  PROVE  /\ SameCalls => InFlight' = InFlight
         /\ SnapshotSubscribers =>
              InFlight = {} /\ InFlight' = Elements(subscriptionMap[event.code])
         /\ DecrementCallerCount =>
              /\ Head(subscribersToNotify) \in InFlight
              /\ InFlight' = InFlight \ {Head(subscribersToNotify)}
              /\ notifyPc' = "notify" /\ subscribersToNotify' = subscribersToNotify
         /\ WakeUnsubscriber => InFlight' = InFlight
<1> USE CalledNow, CalledNext
<1>1. ASSUME SameCalls PROVE InFlight' = InFlight
  BY <1>1 DEF SameCalls, InFlight
<1>2. ASSUME SnapshotSubscribers
      PROVE  InFlight = {} /\ InFlight' = Elements(subscriptionMap[event.code])
  <2>1. subscribersToNotify = << >> /\ notifyPc = "snapshot" /\ notifyPc' = "next"
        /\ subscribersToNotify' = subscriptionMap[event.code]
    BY <1>2 DEF SnapshotSubscribers, CallsEachOnce
  <2> QED BY <2>1 DEF InFlight, Elements
<1>3. ASSUME DecrementCallerCount
      PROVE  /\ Head(subscribersToNotify) \in InFlight
             /\ InFlight' = InFlight \ {Head(subscribersToNotify)}
             /\ notifyPc' = "notify" /\ subscribersToNotify' = subscribersToNotify
  <2> DEFINE s == Head(subscribersToNotify)
  <2>1. notifyPc = "decrement" /\ subscribersToNotify # << >>
    BY <1>3 DEF DecrementCallerCount, CallsEachOnce
  <2>2. s \in Elements(subscribersToNotify) /\ s \in SubscriptionId
    BY <2>1, TailShape, HeadTailProperties DEF SubsTypeOK, CallsEachOnce
  <2>3. InFlight = Elements(subscribersToNotify) /\ currentCallerCount[s] = 1
    BY <2>1, <2>2 DEF InFlight, CountsCallers
  <2>4. notifyPc' = "notify" /\ subscribersToNotify' = subscribersToNotify
    BY <1>3, <2>3 DEF DecrementCallerCount, LeavesUnused
  <2> QED BY <2>2, <2>3, <2>4 DEF InFlight
<1>4. ASSUME WakeUnsubscriber PROVE InFlight' = InFlight
  <2>1. /\ notifyPc = "notify" /\ notifyPc' = "next" /\ subscribersToNotify # << >>
        /\ subscribersToNotify' = Tail(subscribersToNotify)
    BY <1>4 DEF WakeUnsubscriber, CallsEachOnce
  <2> QED BY <2>1, TailShape DEF InFlight, SubsTypeOK, CallsEachOnce
<1> QED BY <1>1, <1>2, <1>3, <1>4

LEMMA CountsStep ==
  ASSUME SubsTypeOK, MapsExisting, CallsEachOnce, CountsCallers, [SubsNext]_subsVars
  PROVE  CountsCallers'
<1> USE InFlightStep
<1>1. CASE SameCalls
  BY <1>1 DEF SameCalls, CountsCallers
<1>2. CASE SnapshotSubscribers
  <2> DEFINE list == subscriptionMap[event.code]
  <2>1. ASSUME NEW s \in SubscriptionId
        PROVE  currentCallerCount'[s] = currentCallerCount[s] + CountedIn(s, list)
    BY <1>2 DEF SnapshotSubscribers
  <2>2. ASSUME NEW s \in SubscriptionId
        PROVE  CountedIn(s, list) = IF s \in Elements(list) THEN 1 ELSE 0
    BY DEF CountedIn, Elements
  <2> HIDE DEF list
  <2>3. \A s \in SubscriptionId : currentCallerCount[s] = 0
    BY <1>2 DEF CountsCallers
  <2>4. InFlight' = Elements(list)
    BY <1>2 DEF list
  <2> QED BY <2>1, <2>2, <2>3, <2>4 DEF CountsCallers
<1>3. CASE DecrementCallerCount
  <2> DEFINE s == Head(subscribersToNotify)
  <2>1. currentCallerCount' = [currentCallerCount EXCEPT ![s] = @ - 1]
    BY <1>3 DEF DecrementCallerCount
  <2>2. s \in InFlight /\ InFlight' = InFlight \ {s}
    BY <1>3
  <2> HIDE DEF s
  <2> QED BY <2>1, <2>2 DEF CountsCallers, SubsTypeOK
<1>4. CASE WakeUnsubscriber
  BY <1>4 DEF WakeUnsubscriber, CountsCallers
<1> QED BY <1>1, <1>2, <1>3, <1>4, CallsShape

LEMMA InFlightIds == ASSUME SubsTypeOK PROVE InFlight \subseteq SubscriptionId
<1>1. subscribersToNotify \in Seq(SubscriptionId)
  BY DEF SubsTypeOK
<1>2. Elements(subscribersToNotify) \subseteq SubscriptionId
  BY <1>1, LenProperties, ElementOfSeq DEF Elements
<1> QED BY <1>2, CalledNow DEF InFlight

LEMMA NoCallStep ==
  ASSUME SubsTypeOK, MapsExisting, CallsEachOnce, CountsCallers, NoCallAfterUnsubscribe,
         [SubsNext]_subsVars
  PROVE  NoCallAfterUnsubscribe'
<1> USE InFlightStep
<1>1. CASE SameRegistry
  <2>1. Elements(subscriptionMap[event.code]) \subseteq subscriptionMasterList
    BY DEF MapsExisting, Elements, SubsTypeOK, Event
  <2>2. InFlight' \subseteq subscriptionMasterList
    BY <2>1, CallsShape DEF NoCallAfterUnsubscribe
  <2> QED BY <1>1, <2>2 DEF SameRegistry, NoCallAfterUnsubscribe
<1>2. ASSUME SameCalls, NEW code \in Codes, SubscribesTo(code) PROVE NoCallAfterUnsubscribe'
  BY <1>2 DEF SubscribesTo, NoCallAfterUnsubscribe
<1>3. ASSUME SameCalls, NEW s, Removes(s) PROVE NoCallAfterUnsubscribe'
  <2>1. s \notin InFlight
    BY <1>3, InFlightIds DEF Removes, Unused, CountsCallers
  <2> QED BY <1>3, <2>1 DEF Removes, NoCallAfterUnsubscribe
<1> QED BY <1>1, <1>2, <1>3, RegistryShape

(* Who is asleep after a step was asleep before, on the same subscription, *)
(* or has just found that it has a caller.                                 *)
LEMMA AsleepShape ==
  ASSUME SubsTypeOK, [SubsNext]_subsVars, NEW c \in Users, pc'[c] = "asleep"
  PROVE  /\ leaving'[c] = leaving[c]
         /\ \/ pc[c] = "asleep"
                /\ (WakeUnsubscriber => leaving[c] # Head(subscribersToNotify))
            \/ pc[c] = "test" /\ ~Unused(leaving[c]) /\ SameCalls
<1>1. CASE NotifySubscribers /\ ~WakeUnsubscriber
  BY <1>1 DEF NotifySubscribers, TimerFinished, SnapshotSubscribers, CallHandler,
              HandlerReturns, DecrementCallerCount, AllNotified
<1>2. CASE WakeUnsubscriber
  BY <1>2 DEF WakeUnsubscriber
<1>3. CASE HandlerLocksWorld \/ \E code \in Codes : HandlerPublishes(code)
  BY <1>3 DEF HandlerLocksWorld, HandlerPublishes, Publish, WakeUnsubscriber
<1>4. ASSUME NEW d \in Users, Begin(d) \/ UnlockWorld(d) \/ Unsubscribing(d) \/ SpuriousReturn(d)
      PROVE  /\ leaving'[c] = leaving[c]
             /\ \/ pc[c] = "asleep" /\ ~WakeUnsubscriber
                \/ pc[c] = "test" /\ ~Unused(leaving[c]) /\ SameCalls
  <2>1. notifyPc' = notifyPc
    BY <1>4 DEF Begin, LockWorld, PublishEvent, Publish, SubscribeToEvent, UnsubscribeFromEvent,
                UnlockWorld, SpuriousReturn, Unsubscribing, LockSubscriptions,
                RemoveSubscription, WaitForCallers
  <2>2. ~WakeUnsubscriber
    BY <2>1 DEF WakeUnsubscriber
  <2>3. CASE LockWorld(d) \/ UnlockWorld(d) \/ LockSubscriptions(d) \/ SpuriousReturn(d)
    BY <2>2, <2>3 DEF LockWorld, UnlockWorld, LockSubscriptions, SpuriousReturn, SubsTypeOK
  <2>4. CASE \/ \E code \in Codes : PublishEvent(d, code)
             \/ \E code \in Codes, locks \in HandlersLock : SubscribeToEvent(d, code, locks)
    BY <2>2, <2>4 DEF PublishEvent, Publish, SubscribeToEvent
  <2>5. CASE \E s \in held : UnsubscribeFromEvent(d, s)
    BY <2>2, <2>5 DEF UnsubscribeFromEvent, SubsTypeOK
  <2>6. CASE RemoveSubscription(d)
    BY <2>2, <2>6 DEF RemoveSubscription, Resting, SubsTypeOK
  <2>7. CASE WaitForCallers(d)
    BY <2>2, <2>7 DEF WaitForCallers, SameCalls, SubsTypeOK
  <2> QED BY <1>4, <2>3, <2>4, <2>5, <2>6, <2>7 DEF Begin, Unsubscribing
<1>5. CASE UNCHANGED subsVars
  BY <1>5 DEF subsVars, WakeUnsubscriber
<1> QED BY <1>1, <1>2, <1>3, <1>4, <1>5 DEF SubsNext

LEMMA SleeperStep ==
  ASSUME SubsTypeOK, LeavesASubscription, CallsEachOnce, CountsCallers, SleeperWillBeWoken,
         [SubsNext]_subsVars
  PROVE  SleeperWillBeWoken'
<1> SUFFICES ASSUME NEW c \in Users, pc'[c] = "asleep"
             PROVE  \/ leaving[c] \in InFlight'
                    \/ notifyPc' = "notify" /\ Head(subscribersToNotify') = leaving[c]
  BY AsleepShape DEF SleeperWillBeWoken
<1> USE InFlightStep, AsleepShape
<1>1. CASE pc[c] = "test" /\ ~Unused(leaving[c]) /\ SameCalls
  BY <1>1 DEF LeavesASubscription, CountsCallers, Unused
<1>2. CASE pc[c] = "asleep" /\ SameCalls
  BY <1>2 DEF SleeperWillBeWoken, SameCalls
<1>3. CASE pc[c] = "asleep" /\ SnapshotSubscribers
  BY <1>3 DEF SleeperWillBeWoken, SnapshotSubscribers
<1>4. CASE pc[c] = "asleep" /\ DecrementCallerCount
  BY <1>4 DEF SleeperWillBeWoken, DecrementCallerCount
<1>5. CASE pc[c] = "asleep" /\ WakeUnsubscriber
  BY <1>5 DEF SleeperWillBeWoken
<1> QED BY <1>1, <1>2, <1>3, <1>4, <1>5, CallsShape

LEMMA LeavesStep ==
  ASSUME SubsTypeOK, LeavesASubscription, [SubsNext]_subsVars
  PROVE  LeavesASubscription'
<1> SUFFICES ASSUME NEW c \in Users, pc'[c] \in {"lock", "test", "asleep"}
             PROVE  leaving'[c] \in SubscriptionId
  BY DEF LeavesASubscription
<1> USE DEF LeavesASubscription
<1>1. CASE NotifySubscribers
  BY <1>1 DEF NotifySubscribers, TimerFinished, SnapshotSubscribers, CallHandler,
              HandlerReturns, DecrementCallerCount, WakeUnsubscriber, AllNotified
<1>2. CASE HandlerLocksWorld \/ \E code \in Codes : HandlerPublishes(code)
  BY <1>2 DEF HandlerLocksWorld, HandlerPublishes, Publish
<1>3. ASSUME NEW d \in Users, Begin(d) \/ UnlockWorld(d) \/ Unsubscribing(d) \/ SpuriousReturn(d)
      PROVE  leaving'[c] \in SubscriptionId
  <2>1. CASE LockWorld(d) \/ UnlockWorld(d) \/ LockSubscriptions(d) \/ SpuriousReturn(d)
             \/ WaitForCallers(d)
    BY <2>1 DEF LockWorld, UnlockWorld, LockSubscriptions, SpuriousReturn, WaitForCallers, SubsTypeOK
  <2>2. CASE \/ \E code \in Codes : PublishEvent(d, code)
             \/ \E code \in Codes, locks \in HandlersLock : SubscribeToEvent(d, code, locks)
    BY <2>2 DEF PublishEvent, Publish, SubscribeToEvent
  <2>3. CASE \E s \in held : UnsubscribeFromEvent(d, s)
    BY <2>3 DEF UnsubscribeFromEvent, SubsTypeOK
  <2>4. CASE RemoveSubscription(d)
    BY <2>4 DEF RemoveSubscription, Resting, SubsTypeOK
  <2> QED BY <1>3, <2>1, <2>2, <2>3, <2>4 DEF Begin, Unsubscribing
<1>4. CASE UNCHANGED subsVars
  BY <1>4 DEF subsVars
<1> QED BY <1>1, <1>2, <1>3, <1>4 DEF SubsNext

-----------------------------------------------------------------------------
(* Type correctness, of the registry and the calls, and of the rest.       *)

RegistryType ==
  /\ subscriptionMap \in [Codes -> Seq(SubscriptionId)]
  /\ subscriptionMasterList \in SUBSET SubscriptionId
  /\ subscriptionCount \in 0..MaxSubscriptions

CallsType ==
  /\ currentCallerCount \in [SubscriptionId -> 0..1]
  /\ subscribersToNotify \in Seq(SubscriptionId)
  /\ notifyPc \in {"waiting", "snapshot", "next", "lockWorld", "handling", "decrement",
                   "notify"}

ClientsType ==
  /\ handlerLocks \in [SubscriptionId -> BOOLEAN]
  /\ subscriptionMutex \in Users \cup {NoThread}
  /\ worldMutex \in Users \cup {Notifier, NoThread}
  /\ pc \in [Users -> {"idle", "holding", "lock", "test", "asleep"}]
  /\ leaving \in [Users -> 0..MaxSubscriptions]
  /\ held \in SUBSET SubscriptionId

EventsType ==
  /\ queue \in Seq(Event)
  /\ eventCount \in 0..MaxEvents
  /\ event \in Event
  /\ heard \in SUBSET (SubscriptionId \X EventId)

LEMMA RegistryTypeStep ==
  ASSUME SubsTypeOK, MapsExisting, [SubsNext]_subsVars
  PROVE  RegistryType'
<1>1. CASE SameRegistry
  BY <1>1 DEF SameRegistry, SubsTypeOK, RegistryType
<1>2. ASSUME NEW code \in Codes, SubscribesTo(code) PROVE RegistryType'
  <2>1. subscriptionCount \in SubscriptionId /\ subscriptionMap[code] \in Seq(SubscriptionId)
    BY <1>2 DEF SubscribesTo, SubsTypeOK
  <2>2. Append(subscriptionMap[code], subscriptionCount) \in Seq(SubscriptionId)
    BY <2>1, AppendProperties
  <2>3. subscriptionCount + 1 \in 0..MaxSubscriptions
    BY <2>1 DEF SubscriptionId
  <2> QED BY <1>2, <2>1, <2>2, <2>3 DEF SubscribesTo, SubsTypeOK, RegistryType
<1>3. ASSUME NEW s, Removes(s) PROVE RegistryType'
  <2>1. \A code \in Codes : Erased(subscriptionMap[code], s) \in Seq(SubscriptionId)
    BY ErasedShape DEF SubsTypeOK, MapsExisting
  <2> QED BY <1>3, <2>1 DEF Removes, SubsTypeOK, RegistryType
<1> QED BY <1>1, <1>2, <1>3, RegistryShape

LEMMA CallsTypeStep ==
  ASSUME SubsTypeOK, MapsExisting, CallsEachOnce, CountsCallers, [SubsNext]_subsVars
  PROVE  CallsType'
<1>1. CASE SameCalls
  BY <1>1 DEF SameCalls, SubsTypeOK, CallsType
<1>2. CASE SnapshotSubscribers
  <2>1. currentCallerCount' \in [SubscriptionId -> Int]
    BY <1>2 DEF SnapshotSubscribers, CountedIn, SubsTypeOK
  <2>2. currentCallerCount' \in [SubscriptionId -> 0..1]
    BY <2>1, CountsStep DEF CountsCallers
  <2> QED BY <1>2, <2>2 DEF SnapshotSubscribers, SubsTypeOK, CallsType, Event
<1>3. CASE DecrementCallerCount \/ WakeUnsubscriber
  <2>1. subscribersToNotify # << >>
    BY <1>3 DEF DecrementCallerCount, WakeUnsubscriber, CallsEachOnce
  <2>2. Tail(subscribersToNotify) \in Seq(SubscriptionId)
    BY <2>1, HeadTailProperties DEF SubsTypeOK
  <2>3. currentCallerCount' \in [SubscriptionId -> Int]
    BY <1>3 DEF DecrementCallerCount, WakeUnsubscriber, SubsTypeOK
  <2>4. currentCallerCount' \in [SubscriptionId -> 0..1]
    BY <2>3, CountsStep DEF CountsCallers
  <2> QED BY <1>3, <2>2, <2>4 DEF DecrementCallerCount, WakeUnsubscriber, SubsTypeOK, CallsType
<1> QED BY <1>1, <1>2, <1>3, CallsShape

LEMMA UsersTypeStep ==
  ASSUME SubsTypeOK, [SubsNext]_subsVars
  PROVE  ClientsType'
<1> USE DEF SubsTypeOK, ClientsType
<1>1. CASE NotifySubscribers
  BY <1>1 DEF NotifySubscribers, TimerFinished, SnapshotSubscribers, CallHandler,
              HandlerReturns, DecrementCallerCount, WakeUnsubscriber, AllNotified, registry
<1>2. CASE HandlerLocksWorld \/ \E code \in Codes : HandlerPublishes(code)
  BY <1>2 DEF HandlerLocksWorld, HandlerPublishes, Publish, registry
<1>3. ASSUME NEW d \in Users, Begin(d) \/ UnlockWorld(d) \/ Unsubscribing(d) \/ SpuriousReturn(d)
      PROVE  ClientsType'
  <2>1. CASE LockWorld(d) \/ UnlockWorld(d) \/ LockSubscriptions(d) \/ SpuriousReturn(d)
             \/ WaitForCallers(d)
    BY <2>1 DEF LockWorld, UnlockWorld, LockSubscriptions, SpuriousReturn, WaitForCallers, registry
  <2>2. CASE \E code \in Codes : PublishEvent(d, code)
    BY <2>2 DEF PublishEvent, Publish, registry
  <2>3. ASSUME NEW code \in Codes, NEW locks \in HandlersLock, SubscribeToEvent(d, code, locks)
        PROVE  ClientsType'
    <3>1. subscriptionCount \in SubscriptionId /\ locks \in BOOLEAN
      BY <2>3 DEF SubscribeToEvent, SubscriptionId
    <3> QED BY <2>3, <3>1 DEF SubscribeToEvent
  <2>4. ASSUME NEW s \in held, UnsubscribeFromEvent(d, s) PROVE ClientsType'
    <3>1. s \in 0..MaxSubscriptions
      BY DEF SubscriptionId
    <3> QED BY <2>4, <3>1 DEF UnsubscribeFromEvent, registry
  <2>5. CASE RemoveSubscription(d)
    BY <2>5 DEF RemoveSubscription, Resting
  <2> QED BY <1>3, <2>1, <2>2, <2>3, <2>4, <2>5 DEF Begin, Unsubscribing
<1>4. CASE UNCHANGED subsVars
  BY <1>4 DEF subsVars
<1> QED BY <1>1, <1>2, <1>3, <1>4 DEF SubsNext

LEMMA PublishType ==
  ASSUME SubsTypeOK, NEW code \in Codes, Publish(code)
  PROVE  EventsType'
<1>1. [id |-> eventCount, code |-> code] \in Event /\ eventCount + 1 \in 0..MaxEvents
  BY DEF Publish, SubsTypeOK, Event, EventId
<1> QED BY <1>1, AppendProperties DEF Publish, SubsTypeOK, EventsType

LEMMA EventsTypeStep ==
  ASSUME SubsTypeOK, CallsEachOnce, [SubsNext]_subsVars
  PROVE  EventsType'
<1> USE DEF SubsTypeOK, EventsType
<1>1. CASE TimerFinished
  BY <1>1, HeadTailProperties DEF TimerFinished
<1>2. CASE HandlerReturns
  <2>1. subscribersToNotify # << >> /\ event.id \in EventId
    BY <1>2 DEF HandlerReturns, CallsEachOnce, Event
  <2>2. Head(subscribersToNotify) \in SubscriptionId
    BY <2>1, HeadTailProperties
  <2>3. <<Head(subscribersToNotify), event.id>> \in SubscriptionId \X EventId
    BY <2>1, <2>2
  <2> QED BY <1>2, <2>3 DEF HandlerReturns
<1>3. CASE SnapshotSubscribers \/ CallHandler \/ DecrementCallerCount \/ WakeUnsubscriber \/ AllNotified
           \/ HandlerLocksWorld
  BY <1>3 DEF SnapshotSubscribers, CallHandler, DecrementCallerCount, WakeUnsubscriber, AllNotified,
              HandlerLocksWorld
<1>4. CASE \E code \in Codes : HandlerPublishes(code)
  BY <1>4, PublishType DEF HandlerPublishes
<1>5. ASSUME NEW d \in Users, Begin(d) \/ UnlockWorld(d) \/ Unsubscribing(d) \/ SpuriousReturn(d)
      PROVE  EventsType'
  <2>1. CASE \E code \in Codes : PublishEvent(d, code)
    BY <2>1, PublishType DEF PublishEvent
  <2> QED BY <1>5, <2>1 DEF Begin, LockWorld, SubscribeToEvent, UnsubscribeFromEvent,
              UnlockWorld, SpuriousReturn, Unsubscribing, LockSubscriptions, RemoveSubscription,
              WaitForCallers
<1>6. CASE UNCHANGED subsVars
  BY <1>6 DEF subsVars
<1> QED BY <1>1, <1>2, <1>3, <1>4, <1>5, <1>6 DEF SubsNext, NotifySubscribers

-----------------------------------------------------------------------------
(* The theorems.                                                           *)

LEMMA InitInv == SubsInit => IInv
<1> SUFFICES ASSUME SubsInit PROVE IInv
  OBVIOUS
<1>1. SubsTypeOK
  BY EmptySeq DEF SubsInit, SubsTypeOK, SubscriptionId, EventId
<1>2. LeavesASubscription /\ MapsExisting /\ CallsEachOnce
  BY DEF SubsInit, LeavesASubscription, MapsExisting, CallsEachOnce, Distinct
<1>3. InFlight = {}
  BY DEF SubsInit, InFlight, ToNotify
<1>4. CountsCallers /\ NoCallAfterUnsubscribe /\ SleeperWillBeWoken
  BY <1>3 DEF SubsInit, CountsCallers, NoCallAfterUnsubscribe, SleeperWillBeWoken
<1> QED BY <1>1, <1>2, <1>4 DEF IInv

LEMMA NextInv == IInv /\ [SubsNext]_subsVars => IInv'
<1> SUFFICES ASSUME IInv, [SubsNext]_subsVars PROVE IInv'
  OBVIOUS
<1> USE DEF IInv
<1>1. SubsTypeOK'
  <2>1. RegistryType' /\ CallsType' /\ ClientsType' /\ EventsType'
    BY RegistryTypeStep, CallsTypeStep, UsersTypeStep, EventsTypeStep
  <2> QED BY <2>1 DEF SubsTypeOK, RegistryType, CallsType, ClientsType, EventsType
<1>2. LeavesASubscription' /\ MapsExisting' /\ CallsEachOnce'
  BY LeavesStep, MapsStep, CallsStep
<1>3. CountsCallers' /\ NoCallAfterUnsubscribe' /\ SleeperWillBeWoken'
  BY CountsStep, NoCallStep, SleeperStep
<1> QED BY <1>1, <1>2, <1>3

LEMMA Invariance == SubsSpec => []IInv
  BY InitInv, NextInv, PTL DEF SubsSpec

(* The variables have their types; in particular a caller count is never   *)
(* negative and never above one (EventSubscription::currentCallerCount).   *)
THEOREM SubscriptionsTyped == SubsSpec => []SubsTypeOK
<1>1. IInv => SubsTypeOK
  BY DEF IInv
<1> QED BY <1>1, Invariance, PTL

(* unsubscribeFromEvent returns only once no call to the handler can begin *)
(* or be under way: the snapshot of notifySubscribers never names a        *)
(* subscription that is gone.                                              *)
THEOREM NoLateCall == SubsSpec => []NoCallAfterUnsubscribe
<1>1. IInv => NoCallAfterUnsubscribe
  BY DEF IInv
<1> QED BY <1>1, Invariance, PTL

(* An unsubscriber asleep in unsubscribeFromEvent has a caller left that   *)
(* will notify it, or is being notified.                                   *)
THEOREM NoForgottenSleeper == SubsSpec => []SleeperWillBeWoken
<1>1. IInv => SleeperWillBeWoken
  BY DEF IInv
<1> QED BY <1>1, Invariance, PTL

(* All that run subs_threads checks under one name: the types, and that no *)
(* sleeping unsubscriber is forgotten.                                     *)
THEOREM SubsConsistentAlways == SubsSpec => []SubsConsistent
<1>1. SubsTypeOK /\ SleeperWillBeWoken => SubsConsistent
  BY DEF SubsConsistent
<1> QED BY <1>1, SubscriptionsTyped, NoForgottenSleeper, PTL

=============================================================================
