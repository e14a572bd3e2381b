---------------------------- MODULE DelayedEvents ----------------------------
(***************************************************************************)
(* The delayed events of bot/src/broker/eventBroker.{hpp,cpp}: event ids   *)
(* handed to callers, timer ids inside, and timerIdMap_ between the two.   *)
(*                                                                         *)
(* One step is one critical section of timerIdMapMutex_ or one call of the *)
(* TimerManager.  Of that component only what TimerQueue promises is kept: *)
(* a pending timer is cancelled or fires, once.  Any pending timer may fire*)
(* at any moment, for a delay can be 0 ms (mobileEntity.cpp:377) and a     *)
(* thread can be preempted between any two steps.                          *)
(* An operator Op_Name is Op with one plausible bug and is never used.     *)
(***************************************************************************)
EXTENDS Integers, FiniteSets

CONSTANTS
  Clients,      \* threads other than the timer thread that use delayed events
  Publishers,   \* those of them that publish delayed events
  TimerThread,  \* the thread of the TimerManager, on which handlers run
  MaxEvents     \* bound on eventIdCounter_

ASSUME DelayedEventsAssumption ==
  /\ Publishers \subseteq Clients
  /\ TimerThread \notin Clients
  /\ MaxEvents \in Nat

Threads == Clients \cup {TimerThread}
EventId == 0..(MaxEvents - 1)
TimerId == 0..(MaxEvents - 1)

VARIABLES
  eventIdCounter, \* eventIdCounter_
  timerIdCounter, \* the timers registered so far
  timers,         \* the timers pending in the TimerManager, with the event each carries
  timerIdMap,     \* timerIdMap_
  pc,             \* where each thread is inside publishDelayedEvent or cancelDelayedEvent
  eventId,        \* the event id such a call is about
  timerId,        \* the timer id it has read or been given
  firing,         \* where the timer thread is in delayedTimerFinished
  fired,          \* the event it is firing
  known,          \* history: the event ids returned by publishDelayedEvent
  notified,       \* history: the events passed to notifySubscribers
  cancelled,      \* history: the events for which cancelDelayedEvent removed the timer
  threw           \* history: the events for which a call threw, and whether their
                  \* handlers were still running or yet to run

vars == <<eventIdCounter, timerIdCounter, timers, timerIdMap, pc, eventId, timerId, firing,
          fired, known, notified, cancelled, threw>>

(* timerIdMap_ as the set of its pairs.                                    *)
Mapped(e) == \E m \in timerIdMap : m.event = e
WithoutKey_Cleared(e) == {}
WithoutKey(e) == {m \in timerIdMap : m.event # e}
WithMapping_Forgotten(e, t) == timerIdMap
WithMapping(e, t) == WithoutKey(e) \cup {[event |-> e, timer |-> t]}

(* What registerTimer returns.                                             *)
AssignedTimerId == timerIdCounter

(* Handlers run on the timer thread while it is notifying; everybody else  *)
(* calls in at any time.                                                   *)
MayCall(th) ==
  /\ pc[th] = "idle"
  /\ th = TimerThread => firing \in {"notifying", "notifyingInstant"}

-----------------------------------------------------------------------------

Init ==
  /\ eventIdCounter = 0
  /\ timerIdCounter = 0
  /\ timers = {}
  /\ timerIdMap = {}
  /\ pc = [th \in Threads |-> "idle"]
  /\ eventId = [th \in Threads |-> 0]
  /\ timerId = [th \in Threads |-> 0]
  /\ firing = "waiting"
  /\ fired = 0
  /\ known = {}
  /\ notified = {}
  /\ cancelled = {}
  /\ threw = {}

(* publishDelayedEvent: takes an event id ...                              *)
PublishDelayedEvent(th) ==
  /\ MayCall(th)
  /\ th \in Publishers \cup {TimerThread}
  /\ eventIdCounter < MaxEvents
  /\ eventIdCounter' = eventIdCounter + 1
  /\ eventId' = [eventId EXCEPT ![th] = eventIdCounter]
  /\ pc' = [pc EXCEPT ![th] = "registerTimer"]
  /\ UNCHANGED <<timerIdCounter, timers, timerIdMap, timerId, firing, fired, known,
                 notified, cancelled, threw>>

(* ... registers the timer ...                                             *)
RegisterTimer(th) ==
  /\ pc[th] = "registerTimer"
  /\ timerIdCounter < MaxEvents
  /\ timers' = timers \cup {[timer |-> timerIdCounter, event |-> eventId[th]]}
  /\ timerId' = [timerId EXCEPT ![th] = AssignedTimerId]
  /\ timerIdCounter' = timerIdCounter + 1
  /\ pc' = [pc EXCEPT ![th] = "addTimerIdMapping"]
  /\ UNCHANGED <<eventIdCounter, timerIdMap, eventId, firing, fired, known, notified,
                 cancelled, threw>>

(* ... and only then maps the one to the other, and returns.               *)
AddTimerIdMapping(th) ==
  /\ pc[th] = "addTimerIdMapping"
  /\ timerIdMap' = WithMapping(eventId[th], timerId[th])
  /\ known' = known \cup {eventId[th]}
  /\ pc' = [pc EXCEPT ![th] = "idle"]
  /\ UNCHANGED <<eventIdCounter, timerIdCounter, timers, eventId, timerId, firing, fired,
                 notified, cancelled, threw>>

(* cancelDelayedEvent, timeRemainingOnDelayedEvent, delayedEventEndTime:   *)
(* getTimerId throws when it has no mapping.  The queries change nothing   *)
(* after it.                                                               *)
GetTimerIdThrows(th, e) ==
  /\ MayCall(th)
  /\ ~Mapped(e)
  /\ threw' = threw \cup
                {[event |-> e, inFlight |-> th \in Clients /\ firing = "notifying" /\ fired = e]}
  /\ UNCHANGED <<eventIdCounter, timerIdCounter, timers, timerIdMap, pc, eventId, timerId,
                 firing, fired, known, notified, cancelled>>

CancelDelayedEvent(th, e) ==
  /\ MayCall(th)
  /\ \E m \in timerIdMap :
       /\ m.event = e
       /\ timerId' = [timerId EXCEPT ![th] = m.timer]
  /\ eventId' = [eventId EXCEPT ![th] = e]
  /\ pc' = [pc EXCEPT ![th] = "cancelTimer"]
  /\ UNCHANGED <<eventIdCounter, timerIdCounter, timers, timerIdMap, firing, fired, known,
                 notified, cancelled, threw>>

(* timerManager_.cancelTimer(timerId): false, with a warning, when the     *)
(* timer has been cancelled by another thread or is firing.                *)
Cancels_Always(th) == TRUE
Cancels_Inverted(th) == \A t \in timers : t.timer # timerId[th]
Cancels(th) == \E t \in timers : t.timer = timerId[th]

CancelTimer(th) ==
  /\ pc[th] = "cancelTimer"
  /\ timers' = {t \in timers : t.timer # timerId[th]}
  /\ IF Cancels(th)
       THEN /\ pc' = [pc EXCEPT ![th] = "removeTimerIdMapping"]
            /\ cancelled' = cancelled \cup {eventId[th]}
       ELSE /\ pc' = [pc EXCEPT ![th] = "idle"]
            /\ UNCHANGED cancelled
  /\ UNCHANGED <<eventIdCounter, timerIdCounter, timerIdMap, eventId, timerId, firing,
                 fired, known, notified, threw>>

(* removeTimerIdMapping after a successful cancelTimer; it throws too.     *)
RemoveTimerIdMapping(th) ==
  /\ pc[th] = "removeTimerIdMapping"
  /\ IF Mapped(eventId[th])
       THEN timerIdMap' = WithoutKey(eventId[th]) /\ UNCHANGED threw
       ELSE /\ threw' = threw \cup {[event |-> eventId[th], inFlight |-> FALSE]}
            /\ UNCHANGED timerIdMap
  /\ pc' = [pc EXCEPT ![th] = "idle"]
  /\ UNCHANGED <<eventIdCounter, timerIdCounter, timers, eventId, timerId, firing, fired,
                 known, notified, cancelled>>

-----------------------------------------------------------------------------
(* The timer thread.                                                       *)

(* The TimerManager takes a timer off its heap ...                         *)
TimerFires ==
  /\ firing = "waiting"
  /\ \E t \in timers :
       /\ timers' = timers \ {t}
       /\ fired' = t.event
  /\ firing' = "delayedTimerFinished"
  /\ UNCHANGED <<eventIdCounter, timerIdCounter, timerIdMap, pc, eventId, timerId, known,
                 notified, cancelled, threw>>

(* ... and delayedTimerFinished unmaps the event and notifies, or throws   *)
(* out of the thread, which ends the process.                              *)
DelayedTimerFinished ==
  /\ firing = "delayedTimerFinished"
  /\ IF Mapped(fired)
       THEN /\ timerIdMap' = WithoutKey(fired)
            /\ notified' = notified \cup {fired}
            /\ firing' = "notifying"
       ELSE /\ firing' = "terminated"
            /\ UNCHANGED <<timerIdMap, notified>>
  /\ UNCHANGED <<eventIdCounter, timerIdCounter, timers, pc, eventId, timerId, fired,
                 known, cancelled, threw>>

NotifySubscribersReturns ==
  /\ firing \in {"notifying", "notifyingInstant"}
  /\ pc[TimerThread] = "idle"
  /\ firing' = "waiting"
  /\ UNCHANGED <<eventIdCounter, timerIdCounter, timers, timerIdMap, pc, eventId, timerId,
                 fired, known, notified, cancelled, threw>>

(* An instant event: the timer thread runs handlers, nothing is mapped.    *)
InstantTimerFires ==
  /\ firing = "waiting"
  /\ firing' = "notifyingInstant"
  /\ UNCHANGED <<eventIdCounter, timerIdCounter, timers, timerIdMap, pc, eventId, timerId,
                 fired, known, notified, cancelled, threw>>

-----------------------------------------------------------------------------

Continue(th) ==
  \/ RegisterTimer(th) \/ AddTimerIdMapping(th)
  \/ CancelTimer(th) \/ RemoveTimerIdMapping(th)

Begin(th) ==
  \/ PublishDelayedEvent(th)
  \/ \E e \in known : GetTimerIdThrows(th, e) \/ CancelDelayedEvent(th, e)

(* Nothing moves once the process has ended.                               *)
Next ==
  /\ firing # "terminated"
  /\ \/ \E th \in Threads : Begin(th) \/ Continue(th)
     \/ TimerFires
     \/ DelayedTimerFinished
     \/ NotifySubscribersReturns
     \/ InstantTimerFires

Spec == Init /\ [][Next]_vars

(* Every thread finishes the call it is in, handlers return, and a pending *)
(* timer fires in the end: its delay is finite.                            *)
FairSpec ==
  /\ Spec
  /\ \A th \in Threads : WF_vars(firing # "terminated" /\ Continue(th))
  /\ WF_vars(DelayedTimerFinished)
  /\ WF_vars(NotifySubscribersReturns)
  /\ SF_vars(TimerFires)

-----------------------------------------------------------------------------

(* The variables have their types.                                         *)
TypeOK ==
  /\ eventIdCounter \in 0..MaxEvents
  /\ timerIdCounter \in 0..MaxEvents
  /\ timers \in SUBSET [timer : TimerId, event : EventId]
  /\ timerIdMap \in SUBSET [event : EventId, timer : TimerId]
  /\ pc \in [Threads -> {"idle", "registerTimer", "addTimerIdMapping", "cancelTimer",
                         "removeTimerIdMapping"}]
  /\ eventId \in [Threads -> 0..MaxEvents]
  /\ timerId \in [Threads -> 0..MaxEvents]
  /\ firing \in {"waiting", "delayedTimerFinished", "notifying", "notifyingInstant",
                 "terminated"}
  /\ fired \in 0..MaxEvents
  /\ known \in SUBSET EventId
  /\ notified \in SUBSET EventId
  /\ cancelled \in SUBSET EventId
  /\ threw \in SUBSET [event : EventId, inFlight : BOOLEAN]

(* A cancelDelayedEvent that returned true is kept: its event is never     *)
(* passed to subscribers, whatever the timer thread and other callers do.  *)
CancelIsFinal == cancelled \cap notified = {}

(* timerIdMap_ never leads to the timer of another event, and it holds no  *)
(* stale entry: a mapped event still has its timer, or the one thread that *)
(* took that timer away is about to remove the entry.                      *)
MappingExact ==
  \A m \in timerIdMap :
    \/ \E t \in timers : t.timer = m.timer /\ t.event = m.event
    \/ firing = "delayedTimerFinished" /\ fired = m.event
    \/ \E th \in Threads : pc[th] = "removeTimerIdMapping" /\ eventId[th] = m.event

(* What holds between any two steps: types, events and timers paired, and  *)
(* no event both cancelled and passed on.                                  *)
Consistent == TypeOK /\ MappingExact /\ CancelIsFinal

(* delayedTimerFinished always finds its mapping: no exception leaves the  *)
(* timer thread.  The code does not promise it; see DelayedEvents_race.cfg.*)
TimerThreadNeverThrows == firing # "terminated"

(* The one way in which an exception leaves the timer thread: the timer of *)
(* an event fires while the thread that publishes it, a packet thread      *)
(* (mobileEntity.cpp:377), has registered it and not yet mapped it         *)
(* (eventBroker.hpp:68).  Handlers that publish, cancellations and queries *)
(* never cause it, nor does any event a publisher has returned.            *)
ThrowsOnlyInTheGap ==
  firing = "terminated" =>
    \E th \in Publishers : pc[th] = "addTimerIdMapping" /\ eventId[th] = fired

(* A caller can cancel or query an event without an exception as long as   *)
(* the event was not cancelled and its handlers have not all run, so that  *)
(* the caller cannot know it has fired (docs/state-machines.md:27-29).     *)
CallsNeverThrow == \A x \in threw : ~x.inFlight

(* Every delayed event is eventually notified or cancelled, unless the     *)
(* process ends in the gap of ThrowsOnlyInTheGap.                          *)
EveryEventResolved ==
  \A e \in EventId :
    e \in known ~> e \in notified \cup cancelled \/ firing = "terminated"
=============================================================================
