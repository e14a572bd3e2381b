---------------------------- MODULE EntityMovement ----------------------------
(***************************************************************************)
(* The movement of the bot's own character: bot/src/entity/mobileEntity.cpp*)
(* and the timer that entity/self.cpp adds, driven by packets and by the   *)
(* delayed events of DelayedEvents.                                        *)
(*                                                                         *)
(* Packet handlers and event handlers hold WorldState::mutex throughout    *)
(* (packetProcessor.cpp:166, mobileEntity.cpp:60), the TimerManager and the*)
(* broker do not: a timer may come up while a handler replaces the movement*)
(* it belongs to.  A step is what a handler does up to its next call of    *)
(* the broker, conjoined with the broker's own step.                       *)
(*                                                                         *)
(* Time, speed and geometry are choices: a moving entity may be anywhere,  *)
(* and its way may lead out of its region or not.  Geometry boundaries are *)
(* left out: only Training registers them, and nothing can start it        *)
(* (bot.cpp:408).                                                          *)
(* An operator Op_Name is Op with one plausible bug and is never used.     *)
(***************************************************************************)
EXTENDS Integers, FiniteSets

CONSTANTS
  Clients,       \* packet threads
  TimerThread,
  MaxEvents,     \* bound on the delayed events
  Positions,
  NoPosition,    \* an empty optional position
  MotionStates,  \* the motion states that packets set
  Nobody         \* the owner of a free mutex

ASSUME EntityMovementAssumption ==
  /\ TimerThread \notin Clients
  /\ Nobody \notin Clients \cup {TimerThread}
  /\ MaxEvents \in Nat
  /\ NoPosition \notin Positions
  /\ MotionStates \subseteq {"stand", "walk", "run", "sit"}
  /\ MotionStates # {}

Publishers == Clients

VARIABLES  \* of DelayedEvents
  eventIdCounter, timerIdCounter, timers, timerIdMap, pc, eventId, timerId, firing, fired,
  known, notified, cancelled, threw

Broker == INSTANCE DelayedEvents

Threads == Broker!Threads
EventId == Broker!EventId
NoEvent == -1

VARIABLES
  worldMutex,      \* who holds WorldState::mutex
  step,            \* where its holder is
  op,              \* what its holder is about to do with the movement
  about,           \* the type of each delayed event
  handled,         \* whether the handlers of the event being notified have run
  missed,          \* history: movement timers that cancelDelayedEvent came too late for
  position,        \* position_
  moving,          \* moving_
  destination,     \* destinationPosition
  movingEventId,
  regionEventId,   \* Self::enteredNewRegionEventId_
  motionState,
  lastMotionState

broker == <<eventIdCounter, timerIdCounter, timers, timerIdMap, pc, eventId, timerId, firing,
            fired, known, notified, cancelled, threw>>
control == <<worldMutex, step, op>>
timed == <<about, handled, missed>>
motion == <<motionState, lastMotionState>>
place == <<position, moving, destination>>
ids == <<movingEventId, regionEventId>>
vars == <<broker, control, timed, place, ids, motion>>

-----------------------------------------------------------------------------
(* What a handler is about to do.  An order of setMovingToDestination or   *)
(* setMovingTowardAngle on a Self ends with a look at the region; one that *)
(* setSpeed, setMotionState and syncPosition repeat does not.              *)

Stop(p) == [kind |-> "stop", to |-> p, checksRegion |-> FALSE]
To(p, checks) == [kind |-> "to", to |-> p, checksRegion |-> checks]
Toward(checks) == [kind |-> "toward", to |-> NoPosition, checksRegion |-> checks]
Arrive == [kind |-> "arrive", to |-> NoPosition, checksRegion |-> FALSE]

(* No way to go is no movement.                                            *)
Travel(from, dest, checks) == IF from = dest THEN Stop(dest) ELSE To(dest, checks)

(* privateCurrentSpeed throws for an entity that sits.                     *)
HasSpeed(m) == m # "sit"

(* interpolateCurrentPosition: anywhere on the way.                        *)
CurrentPositions ==
  IF ~moving THEN {position}
  ELSE IF HasSpeed(motionState) THEN Positions ELSE {}

(* A packet handler needs room for an event id.                            *)
Room == eventIdCounter < MaxEvents

Release(th) ==
  /\ worldMutex' = Nobody
  /\ step' = "none"
  /\ handled' = (handled \/ th = TimerThread)

-----------------------------------------------------------------------------

Init ==
  /\ Broker!Init
  /\ worldMutex = Nobody
  /\ step = "none"
  /\ op = Arrive
  /\ about = [e \in EventId |-> "none"]
  /\ handled = TRUE
  /\ missed = {}
  /\ position \in Positions
  /\ moving = FALSE
  /\ destination = NoPosition
  /\ movingEventId = NoEvent
  /\ regionEventId = NoEvent
  /\ motionState \in MotionStates
  /\ lastMotionState = IF motionState \in {"walk", "run"} THEN motionState ELSE "none"

(* A packet handler takes the mutex, sets position_ and goes on to         *)
(* cancelMovement.                                                         *)
Redirect(th, from, order) ==
  /\ worldMutex = Nobody
  /\ Room
  /\ worldMutex' = th
  /\ step' = "cancelMoving"
  /\ op' = order
  /\ position' = from
  /\ UNCHANGED <<broker, timed, moving, destination, ids>>

(* An order to move to a place, from one the packet names or from where the*)
(* entity is; one that spawns while it moves gets the same.                *)
SetMovingToDestination(th) ==
  /\ \E from \in Positions, dest \in Positions :
       Redirect(th, from, Travel(from, dest, TRUE))
  /\ UNCHANGED motion

SetMovingTowardAngle(th) ==
  /\ \E from \in Positions : Redirect(th, from, Toward(TRUE))
  /\ UNCHANGED motion

SetStationaryAtPosition(th) ==
  /\ \E p \in Positions : Redirect(th, position, Stop(p))
  /\ UNCHANGED motion

(* setSpeed, setMotionState and syncPosition repeat the present order from *)
(* where the entity is.                                                    *)
Repeat(th, from) ==
  /\ moving
  /\ IF destination # NoPosition
       THEN Redirect(th, from, Travel(from, destination, FALSE))
       ELSE Redirect(th, from, Toward(FALSE))

SetSpeed(th) ==
  /\ \E from \in CurrentPositions : Repeat(th, from)
  /\ UNCHANGED motion

SyncPosition(th) ==
  \/ /\ \E p \in Positions : Repeat(th, p)
     /\ UNCHANGED motion
  \/ /\ worldMutex = Nobody
     /\ ~moving
     /\ position' \in Positions
     /\ UNCHANGED <<broker, control, timed, moving, destination, ids, motion>>

(* Changes between walking and running are changes of speed.               *)
SetMotionState(th) ==
  \E m \in MotionStates :
    /\ motionState' = m
    /\ lastMotionState' = IF m \in {"walk", "run"} THEN m ELSE lastMotionState
    /\ IF moving /\ {lastMotionState, m} = {"walk", "run"}
         THEN \E from \in CurrentPositions : Repeat(th, from)
         ELSE /\ worldMutex = Nobody
              /\ UNCHANGED <<broker, control, timed, place, ids>>

Packet(th) ==
  \/ SetMovingToDestination(th) \/ SetMovingTowardAngle(th) \/ SetStationaryAtPosition(th)
  \/ SetSpeed(th) \/ SyncPosition(th) \/ SetMotionState(th)

-----------------------------------------------------------------------------
(* Self::cancelMovement: the movement timer, moving_, the region timer.    *)

CancelsMoving_NotToRedirect == movingEventId # NoEvent /\ op.kind # "to"
CancelsMoving == movingEventId # NoEvent

DestinationAfterCancel_Kept == destination
DestinationAfterCancel == NoPosition

MovementCancelled ==
  /\ movingEventId' = NoEvent
  /\ moving' = FALSE
  /\ destination' = DestinationAfterCancel
  /\ step' = "cancelRegion"
  /\ UNCHANGED <<position, regionEventId, worldMutex, op, motion>>

(* cancelDelayedEvent throws for an event that is firing; the handler's    *)
(* caller catches and logs, with the mutex released.                       *)
Throw(th, e) ==
  /\ Broker!GetTimerIdThrows(th, e)
  /\ Release(th)
  /\ UNCHANGED <<op, about, missed, place, ids, motion>>

CancelMovingEvent(th) ==
  /\ step = "cancelMoving"
  /\ \/ ~CancelsMoving /\ MovementCancelled /\ UNCHANGED <<broker, timed>>
     \/ /\ CancelsMoving
        /\ Broker!CancelDelayedEvent(th, movingEventId)
        /\ step' = "movingCancelled"
        /\ UNCHANGED <<worldMutex, op, timed, place, ids, motion>>
     \/ CancelsMoving /\ Throw(th, movingEventId)

(* The result of cancelDelayedEvent is not looked at.                      *)
MovingEventCancelled(th) ==
  /\ step = "movingCancelled"
  /\ pc[th] = "idle"
  /\ MovementCancelled
  /\ missed' = missed \cup ({movingEventId} \ cancelled)
  /\ UNCHANGED <<broker, about, handled>>

CancelRegionEvent(th) ==
  /\ step = "cancelRegion"
  /\ \/ /\ regionEventId = NoEvent
        /\ step' = "cancelled"
        /\ UNCHANGED <<broker, worldMutex, op, timed, place, ids, motion>>
     \/ /\ regionEventId # NoEvent
        /\ Broker!CancelDelayedEvent(th, regionEventId)
        /\ step' = "regionCancelled"
        /\ UNCHANGED <<worldMutex, op, timed, place, ids, motion>>
     \/ regionEventId # NoEvent /\ Throw(th, regionEventId)

RegionEventCancelled(th) ==
  /\ step = "regionCancelled"
  /\ pc[th] = "idle"
  /\ regionEventId' = NoEvent
  /\ step' = "cancelled"
  /\ UNCHANGED <<broker, worldMutex, op, timed, place, movingEventId, motion>>

-----------------------------------------------------------------------------
(* What follows cancelMovement.                                            *)

(* privateSetStationaryAtPosition, or the end of movementTimerCompleted.   *)
Stopped(th) ==
  /\ step = "cancelled"
  /\ op.kind \in {"stop", "arrive"}
  /\ position' = IF op.kind = "stop" THEN op.to ELSE position
  /\ Release(th)
  /\ UNCHANGED <<broker, op, about, missed, moving, destination, ids, motion>>

(* privateSetMovingToDestination: the timer is started last, with a delay  *)
(* that needs a speed.                                                     *)
StartMovingToDestination(th) ==
  /\ step = "cancelled"
  /\ op.kind = "to"
  /\ moving' = TRUE
  /\ destination' = op.to
  /\ IF HasSpeed(motionState)
       THEN step' = "publishMoving" /\ UNCHANGED <<worldMutex, handled>>
       ELSE Release(th)
  /\ UNCHANGED <<broker, op, about, missed, position, ids, motion>>

StartMovingTowardAngle(th) ==
  /\ step = "cancelled"
  /\ op.kind = "toward"
  /\ moving' = TRUE
  /\ IF op.checksRegion
       THEN step' = "checkRegion" /\ UNCHANGED <<worldMutex, handled>>
       ELSE Release(th)
  /\ UNCHANGED <<broker, op, about, missed, position, destination, ids, motion>>

Publish(th, type) ==
  /\ Broker!PublishDelayedEvent(th)
  /\ about' = [about EXCEPT ![eventIdCounter] = type]

PublishMovementTimerEnded(th) ==
  /\ step = "publishMoving"
  /\ Publish(th, "movementTimerEnded")
  /\ step' = "movingPublished"
  /\ UNCHANGED <<worldMutex, op, handled, missed, place, ids, motion>>

(* What publishDelayedEvent returns.                                       *)
PublishedId_Dropped(th) == NoEvent
PublishedId(th) == eventId[th]

MovementTimerPublished(th) ==
  /\ step = "movingPublished"
  /\ pc[th] = "idle"
  /\ movingEventId' = PublishedId(th)
  /\ IF op.checksRegion
       THEN step' = "checkRegion" /\ UNCHANGED <<worldMutex, handled>>
       ELSE Release(th)
  /\ UNCHANGED <<broker, op, about, missed, place, regionEventId, motion>>

(* checkIfWillLeaveRegionAndSetTimer: who goes toward an angle leaves the  *)
(* region some time.  It stops at the bound on events.                     *)
CheckIfWillLeaveRegion(th) ==
  /\ step = "checkRegion"
  /\ \/ /\ destination # NoPosition \/ ~Room \/ ~HasSpeed(motionState)
        /\ Release(th)
        /\ UNCHANGED <<broker, about>>
     \/ /\ HasSpeed(motionState)
        /\ Publish(th, "enteredNewRegion")
        /\ step' = "regionPublished"
        /\ UNCHANGED <<worldMutex, handled>>
  /\ UNCHANGED <<op, missed, place, ids, motion>>

RegionEventPublished(th) ==
  /\ step = "regionPublished"
  /\ pc[th] = "idle"
  /\ regionEventId' = eventId[th]
  /\ Release(th)
  /\ UNCHANGED <<broker, op, about, missed, place, movingEventId, motion>>

(* The holder of the mutex goes on.                                        *)
HandlerStep(th) ==
  /\ worldMutex = th
  /\ \/ CancelMovingEvent(th) \/ MovingEventCancelled(th)
     \/ CancelRegionEvent(th) \/ RegionEventCancelled(th)
     \/ Stopped(th) \/ StartMovingToDestination(th) \/ StartMovingTowardAngle(th)
     \/ PublishMovementTimerEnded(th) \/ MovementTimerPublished(th)
     \/ CheckIfWillLeaveRegion(th) \/ RegionEventPublished(th)

BrokerStep(th) ==
  /\ Broker!Continue(th)
  /\ UNCHANGED <<control, timed, place, ids, motion>>

-----------------------------------------------------------------------------
(* The timer thread.                                                       *)

(* A delay is longer than the rest of the call that asked for it: for what *)
(* happens otherwise see TimerThreadNeverThrows of DelayedEvents.          *)
TimerFires ==
  /\ Broker!TimerFires
  /\ fired' \in known
  /\ UNCHANGED <<control, timed, place, ids, motion>>

DelayedTimerFinished ==
  /\ Broker!DelayedTimerFinished
  /\ handled' = FALSE
  /\ UNCHANGED <<control, about, missed, place, ids, motion>>

HandlersReturn ==
  /\ handled
  /\ Broker!NotifySubscribersReturns
  /\ UNCHANGED <<control, timed, place, ids, motion>>

Handling(type) == firing = "notifying" /\ ~handled /\ about[fired] = type

(* movementTimerCompleted: it throws, and handleEvent catches, if it does  *)
(* not find a movement; it does not look at which one the event is about.  *)
Completes == movingEventId # NoEvent /\ moving /\ destination # NoPosition

IdAfterCompletion == NoEvent

MovementTimerCompleted ==
  /\ Handling("movementTimerEnded")
  /\ worldMutex = Nobody
  /\ IF Completes
       THEN /\ position' = destination
            /\ movingEventId' = IdAfterCompletion
            /\ worldMutex' = TimerThread
            /\ step' = "cancelMoving"
            /\ op' = Arrive
            /\ UNCHANGED handled
       ELSE /\ handled' = TRUE
            /\ UNCHANGED <<position, movingEventId, control>>
  /\ UNCHANGED <<broker, about, missed, moving, destination, regionEventId, motion>>

(* Self::enteredRegion knows its event by its id.                          *)
EnteredRegion ==
  /\ Handling("enteredNewRegion")
  /\ worldMutex = Nobody
  /\ regionEventId' = IF regionEventId = fired THEN NoEvent ELSE regionEventId
  /\ IF moving
       THEN worldMutex' = TimerThread /\ step' = "checkRegion" /\ UNCHANGED handled
       ELSE handled' = TRUE /\ UNCHANGED <<worldMutex, step>>
  /\ UNCHANGED <<broker, op, about, missed, place, movingEventId, motion>>

-----------------------------------------------------------------------------

Next ==
  \/ \E th \in Clients : Packet(th)
  \/ \E th \in Threads : HandlerStep(th) \/ BrokerStep(th)
  \/ TimerFires
  \/ DelayedTimerFinished
  \/ MovementTimerCompleted
  \/ EnteredRegion
  \/ HandlersReturn

Spec == Init /\ [][Next]_vars

(* Every thread goes on, a timer fires in the end, and an event handler    *)
(* gets the mutex in the end although packets keep coming.                 *)
FairSpec ==
  /\ Spec
  /\ \A th \in Threads : WF_vars(HandlerStep(th)) /\ WF_vars(BrokerStep(th))
  /\ SF_vars(TimerFires)
  /\ WF_vars(DelayedTimerFinished)
  /\ SF_vars(MovementTimerCompleted)
  /\ SF_vars(EnteredRegion)
  /\ WF_vars(HandlersReturn)

-----------------------------------------------------------------------------

OpKinds == {"stop", "to", "toward", "arrive"}
Steps == {"none", "cancelMoving", "movingCancelled", "cancelRegion", "regionCancelled",
          "cancelled", "publishMoving", "movingPublished", "checkRegion", "regionPublished"}

(* The variables have their types, and the mutex is held exactly while a   *)
(* handler is under way.                                                   *)
TypeOK ==
  /\ Broker!TypeOK
  /\ worldMutex \in Threads \cup {Nobody}
  /\ step \in Steps
  /\ (worldMutex = Nobody) = (step = "none")
  /\ op \in [kind : OpKinds, to : Positions \cup {NoPosition}, checksRegion : BOOLEAN]
  /\ about \in [EventId -> {"none", "movementTimerEnded", "enteredNewRegion"}]
  /\ handled \in BOOLEAN
  /\ missed \in SUBSET EventId
  /\ position \in Positions
  /\ moving \in BOOLEAN
  /\ destination \in Positions \cup {NoPosition}
  /\ movingEventId \in EventId \cup {NoEvent}
  /\ regionEventId \in EventId \cup {NoEvent}
  /\ motionState \in MotionStates
  /\ lastMotionState \in {"none", "walk", "run"}

(* The handlers of an event have yet to run.                               *)
Coming(e) ==
  \/ \E t \in timers : t.event = e
  \/ fired = e /\ firing = "delayedTimerFinished"
  \/ fired = e /\ firing = "notifying" /\ ~handled

(* An entity never keeps the id of an event that is over: cancelMovement   *)
(* would throw on it whenever the server moves the entity again.           *)
IdsAreOfComingEvents ==
  worldMutex = Nobody =>
    \A e \in {movingEventId, regionEventId} \ {NoEvent} : Coming(e)

(* Between handlers, an entity with a destination is moving and has a      *)
(* movement timer that has yet to tell it that it arrived, whatever a      *)
(* packet or an exception did to an earlier movement.                      *)
MovementIsTimed ==
  (worldMutex = Nobody /\ destination # NoPosition) =>
    /\ moving
    /\ movingEventId # NoEvent
    /\ Coming(movingEventId)
    /\ about[movingEventId] = "movementTimerEnded"

(* What holds between any two steps: types, no dead event id is kept, and  *)
(* whoever moves to a place has the timer of that movement.                *)
Consistent == TypeOK /\ IdsAreOfComingEvents /\ MovementIsTimed

(* A timer event meets a movement that is not its own only after a         *)
(* cancelDelayedEvent came too late and its result went unnoticed          *)
(* (mobileEntity.cpp:250).                                                 *)
OwnMovementUnlessMissed ==
  (worldMutex = Nobody /\ Handling("movementTimerEnded")) =>
    movingEventId = fired \/ missed # {}

(* An entity that moves to a place stops some time.                        *)
MovementEnds == destination # NoPosition ~> ~moving

(* movementTimerCompleted finds a running timer, a moving entity and its   *)
(* destination, as its three exceptions claim (mobileEntity.cpp:228-236).  *)
CompletionIsExpected ==
  (worldMutex = Nobody /\ Handling("movementTimerEnded")) => Completes

(* A character that goes toward an angle has a timer for the border of its *)
(* region, which every such way crosses (self.cpp:229-234).                *)
RegionIsWatched ==
  (worldMutex = Nobody /\ moving /\ destination = NoPosition /\ Room) =>
    regionEventId # NoEvent

(* No packet handler is cut short by an exception of cancelDelayedEvent:   *)
(* the order of the server would be lost.                                  *)
NoOrderLost == threw = {}
===============================================================================
