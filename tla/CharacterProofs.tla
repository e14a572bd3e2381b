--------------------------- MODULE CharacterProofs ---------------------------
(* Theorems about a character of the world: EntityMovement, how it moves,   *)
(* and Preparation, how a bot makes its own ready for a match.              *)
(*                                                                         *)
(* Of the first, for any packet threads, positions and number of events:    *)
(* the movement uses the broker as DelayedEvents lets a client do, no dead  *)
(* event id is kept, who moves to a place has the timer of that movement,   *)
(* and a timer meets another's movement only after a cancellation that came *)
(* too late.  Of the second, for any items required, characters, attempts   *)
(* and mishaps: no machine waits for what does not come, and what the       *)
(* machines have seen to holds when the bot is ready.                      *)
EXTENDS EntityMovement, Preparation, TLAPS, WellFoundedInduction, SequenceTheorems


(* The theorems about the broker hold of its state here.                   *)
Delayed == INSTANCE DelayedEventsProofs

USE EntityMovementAssumption

-----------------------------------------------------------------------------
(* The inductive invariant, beside that of DelayedEvents.                  *)

CancelSteps == {"movingCancelled", "regionCancelled"}
PublishSteps == {"movingPublished", "regionPublished"}
Mapped(e) == \E m \in timerIdMap : m.event = e

(* The event that the call of the broker under way is about.               *)
Subject == eventId[worldMutex]

(* Only who holds the world's mutex calls the broker.                      *)
Calls ==
  /\ \A th \in Threads : pc[th] # "idle" =>
       /\ worldMutex = th
       /\ step \in CancelSteps => pc[th] \in {"cancelTimer", "removeTimerIdMapping"}
       /\ step \notin CancelSteps =>
            step \in PublishSteps /\ pc[th] \in {"registerTimer", "addTimerIdMapping"}
  /\ step = "movingCancelled" => movingEventId # NoEvent /\ Subject = movingEventId
  /\ step = "regionCancelled" => regionEventId # NoEvent /\ Subject = regionEventId
  /\ step \in PublishSteps =>
       /\ Subject \in EventId
       /\ step = "movingPublished" => about[Subject] = "movementTimerEnded"
       /\ step = "regionPublished" => about[Subject] = "enteredNewRegion"
       /\ pc[worldMutex] = "idle" => Subject \in known /\ Coming(Subject)
       /\ worldMutex = TimerThread => Subject # fired

(* A timer whose event was returned fires with its mapping in place.       *)
Timers ==
  /\ firing \in {"waiting", "delayedTimerFinished", "notifying"}
  /\ firing = "notifying" => fired \in notified
  /\ firing = "delayedTimerFinished" => Mapped(fired)
  /\ \A t \in timers : t.event \in known => Mapped(t.event)
  /\ worldMutex = TimerThread =>
       firing = "notifying" /\ ~handled /\ fired \notin {movingEventId, regionEventId}

(* An id that is kept is that of a coming event of its type, but while the *)
(* event is being cancelled.                                               *)
Ids ==
  /\ movingEventId # NoEvent =>
       /\ movingEventId \in known /\ about[movingEventId] = "movementTimerEnded"
       /\ moving /\ destination # NoPosition
       /\ step \in {"none", "cancelMoving", "movingCancelled", "checkRegion", "regionPublished"}
       /\ step # "movingCancelled" => Coming(movingEventId)
  /\ regionEventId # NoEvent =>
       /\ regionEventId \in known /\ about[regionEventId] = "enteredNewRegion"
       /\ step # "regionCancelled" => Coming(regionEventId)

Destinations ==
  /\ op.kind \in {"to", "stop"} => op.to # NoPosition
  /\ step \in {"publishMoving", "movingPublished"} => moving /\ destination # NoPosition
  /\ "sit" \notin MotionStates /\ destination # NoPosition =>
       /\ moving
       /\ movingEventId # NoEvent \/ step \in {"cancelMoving", "publishMoving", "movingPublished"}

(* As long as no cancellation came too late, the only movement timers to   *)
(* come are that of the movement, the one about to become it and the one   *)
(* whose handler is running.                                               *)
OwnTimers ==
  missed = {} => \A e \in EventId : Coming(e) /\ about[e] = "movementTimerEnded" =>
    \/ e = movingEventId
    \/ step = "movingPublished" /\ e = Subject
    \/ worldMutex = TimerThread /\ e = fired

IndInv ==
  /\ Delayed!DelayedInv
  /\ TypeOK /\ Calls /\ Timers /\ Ids /\ Destinations /\ OwnTimers

-----------------------------------------------------------------------------
(* What the broker keeps.                                                  *)

LEMMA Instance == Delayed!DelayedEventsAssumption
BY DEF Delayed!DelayedEventsAssumption, Publishers

LEMMA Ranges ==
  /\ Nobody \notin Threads /\ TimerThread \in Threads /\ TimerThread \notin Clients
  /\ Clients \subseteq Threads
  /\ EventId \subseteq Nat /\ NoEvent \notin EventId
  /\ \A n \in Nat : n < MaxEvents => n \in EventId
BY DEF Threads, Broker!Threads, EventId, Broker!EventId, NoEvent

BrokerFacts ==
  /\ \A t \in timers :
       /\ t.event \in EventId /\ t.event < eventIdCounter /\ t.event \notin notified \cup cancelled
       /\ ~(firing = "delayedTimerFinished" /\ fired = t.event)
  /\ firing = "delayedTimerFinished" =>
       fired \in EventId /\ fired < eventIdCounter /\ fired \notin cancelled
  /\ \A e \in known \cup notified \cup cancelled : e \in EventId /\ e < eventIdCounter
  /\ cancelled \cap notified = {}
  /\ eventIdCounter \in 0..MaxEvents
  /\ \A th \in Threads :
       /\ pc[th] = "cancelTimer" =>
            \A t \in timers : t.event = eventId[th] <=> t.timer = timerId[th]
       /\ pc[th] \in {"registerTimer", "addTimerIdMapping"} =>
            eventId[th] \in EventId /\ eventId[th] \notin known \cup notified
       /\ pc[th] = "addTimerIdMapping" =>
            \/ \E t \in timers : t.event = eventId[th]
            \/ firing = "delayedTimerFinished" /\ fired = eventId[th]
            \/ firing = "terminated"
       /\ pc[th] = "removeTimerIdMapping" => eventId[th] \in cancelled

LEMMA BrokerKeeps ==
  ASSUME Delayed!DelayedInv
  PROVE  BrokerFacts /\ Broker!TypeOK
<1> USE DEF Delayed!DelayedInv
<1>1. Broker!TypeOK
  BY DEF Delayed!TypeOK, Broker!TypeOK, Delayed!Threads, Broker!Threads, Delayed!EventId,
         Broker!EventId, Delayed!TimerId, Broker!TimerId
<1> USE DEF Delayed!TypeOK, Delayed!Threads, Broker!Threads, Threads, Delayed!EventId,
            Broker!EventId, EventId, Delayed!TimerId
<1>2. /\ eventIdCounter \in 0..MaxEvents
      /\ \A t \in timers : t.event \in EventId
      /\ \A e \in known \cup notified \cup cancelled : e \in EventId
  OBVIOUS
<1>3. /\ \A t \in timers : t.event < eventIdCounter
      /\ firing = "delayedTimerFinished" => fired < eventIdCounter
      /\ \A e \in known \cup notified \cup cancelled : e < eventIdCounter
  BY DEF Delayed!IdsIssued
<1>4. /\ \A t \in timers : t.event \notin notified \cup cancelled
                           /\ ~(firing = "delayedTimerFinished" /\ fired = t.event)
      /\ firing = "delayedTimerFinished" => fired \notin cancelled
      /\ cancelled \cap notified = {}
  BY DEF Delayed!PhasesDisjoint, Delayed!Firing, Delayed!CancelIsFinal
<1>5. firing = "delayedTimerFinished" => fired \in EventId
  BY <1>2, <1>3
<1>6. ASSUME NEW th \in Threads
      PROVE  /\ pc[th] = "cancelTimer" =>
                  \A t \in timers : t.event = eventId[th] <=> t.timer = timerId[th]
             /\ pc[th] \in {"registerTimer", "addTimerIdMapping"} =>
                  eventId[th] \in EventId /\ eventId[th] \notin known \cup notified
             /\ pc[th] = "addTimerIdMapping" =>
                  \/ \E t \in timers : t.event = eventId[th]
                  \/ firing = "delayedTimerFinished" /\ fired = eventId[th]
                  \/ firing = "terminated"
             /\ pc[th] = "removeTimerIdMapping" => eventId[th] \in cancelled
  <2>1. pc[th] = "cancelTimer" => Delayed!Match(timerId[th], eventId[th])
    BY DEF Delayed!IdsMatch
  <2>2. pc[th] \in {"registerTimer", "addTimerIdMapping"} => Delayed!Unknown(eventId[th])
    BY DEF Delayed!CallsInPhase
  <2>3. Delayed!Unknown(eventId[th]) =>
          eventId[th] \in EventId /\ eventId[th] \notin known \cup notified
    BY <1>2 DEF Delayed!Unknown
  <2>4. /\ pc[th] = "addTimerIdMapping" =>
             \/ \E t \in timers : t.event = eventId[th]
             \/ firing = "delayedTimerFinished" /\ fired = eventId[th]
             \/ firing = "terminated"
        /\ pc[th] = "removeTimerIdMapping" => eventId[th] \in cancelled
    BY DEF Delayed!CallsInPhase, Delayed!Firing
  <2> QED BY <2>1, <2>2, <2>3, <2>4 DEF Delayed!Match
<1> QED BY <1>1, <1>2, <1>3, <1>4, <1>5, <1>6 DEF BrokerFacts

(* What is to come was published, and its timer was not cancelled.         *)
LEMMA ComingFacts ==
  ASSUME BrokerFacts, Timers, NEW e, Coming(e)
  PROVE  e \in EventId /\ e < eventIdCounter /\ e \notin cancelled
BY DEF BrokerFacts, Timers, Coming

(* The broker of EntityMovement is the one its theorems are about.         *)
LEMMA SameBroker == [Broker!Next]_(Broker!vars) => [Delayed!Next]_(Delayed!vars)
<1>1. Delayed!Threads = Broker!Threads
  BY DEF Delayed!Threads, Broker!Threads
<1>2. ASSUME NEW th, Broker!Begin(th) PROVE Delayed!Begin(th)
  BY <1>2 DEF Delayed!Begin, Broker!Begin, Broker!PublishDelayedEvent,
              Delayed!PublishDelayedEvent, Broker!CancelDelayedEvent,
              Delayed!CancelDelayedEvent, Broker!GetTimerIdThrows, Delayed!GetTimerIdThrows,
              Broker!MayCall, Delayed!MayCall, Broker!Mapped, Delayed!Mapped
<1>3. ASSUME NEW th, Broker!Continue(th) PROVE Delayed!Continue(th)
  BY <1>3 DEF Broker!Continue, Delayed!Continue, Broker!RegisterTimer, Delayed!RegisterTimer,
              Broker!AssignedTimerId, Delayed!AssignedTimerId, Broker!AddTimerIdMapping,
              Delayed!AddTimerIdMapping, Broker!WithMapping, Delayed!WithMapping,
              Broker!WithoutKey, Delayed!WithoutKey, Broker!CancelTimer, Delayed!CancelTimer,
              Broker!Cancels, Delayed!Cancels, Broker!RemoveTimerIdMapping,
              Delayed!RemoveTimerIdMapping, Broker!Mapped, Delayed!Mapped
<1>4. Broker!TimerFires => Delayed!TimerFires
  BY DEF Broker!TimerFires, Delayed!TimerFires
<1>5. Broker!DelayedTimerFinished => Delayed!DelayedTimerFinished
  BY DEF Broker!DelayedTimerFinished, Delayed!DelayedTimerFinished, Broker!Mapped,
         Delayed!Mapped, Broker!WithoutKey, Delayed!WithoutKey
<1>6. /\ Broker!NotifySubscribersReturns => Delayed!NotifySubscribersReturns
      /\ Broker!InstantTimerFires => Delayed!InstantTimerFires
  BY DEF Broker!NotifySubscribersReturns, Delayed!NotifySubscribersReturns,
         Broker!InstantTimerFires, Delayed!InstantTimerFires
<1>7. Broker!Next => Delayed!Next
  BY <1>1, <1>2, <1>3, <1>4, <1>5, <1>6 DEF Delayed!Next, Broker!Next
<1>8. UNCHANGED Broker!vars => UNCHANGED Delayed!vars
  BY DEF Broker!vars, Delayed!vars
<1> QED BY <1>7, <1>8

(* Every step is one that the broker allows its clients.                   *)
LEMMA BrokerStepRefines ==
  ASSUME IndInv, [Next]_vars
  PROVE  [Broker!Next]_(Broker!vars)
<1>1. ASSUME UNCHANGED broker PROVE UNCHANGED Broker!vars
  BY <1>1 DEF broker, Broker!vars
<1>2. firing # "terminated"
  BY DEF IndInv, Timers
<1>3. ASSUME NEW th \in Threads, Broker!Begin(th) \/ Broker!Continue(th) PROVE Broker!Next
  BY <1>2, <1>3 DEF Broker!Next, Threads
<1>4. ASSUME NEW th \in Threads, Broker!PublishDelayedEvent(th) PROVE Broker!Next
  BY <1>3, <1>4 DEF Broker!Begin
<1>5. ASSUME NEW th \in Threads, NEW e \in known,
             Broker!CancelDelayedEvent(th, e) \/ Broker!GetTimerIdThrows(th, e)
      PROVE  Broker!Next
  BY <1>3, <1>5 DEF Broker!Begin
<1>6. CASE UNCHANGED vars
  BY <1>1, <1>6 DEF vars
<1>7. ASSUME NEW th \in Clients, Packet(th) PROVE UNCHANGED broker
  BY <1>7 DEF Packet, SetMovingToDestination, SetMovingTowardAngle, SetStationaryAtPosition,
              SetSpeed, SyncPosition, SetMotionState, Repeat, Redirect
<1>8. ASSUME NEW th \in Threads, HandlerStep(th) PROVE [Broker!Next]_(Broker!vars)
  <2>1. CASE CancelMovingEvent(th)
    <3>1. movingEventId # NoEvent => movingEventId \in known
      BY DEF IndInv, Ids
    <3> QED BY <1>1, <1>5, <2>1, <3>1 DEF CancelMovingEvent, CancelsMoving, Throw
  <2>2. CASE CancelRegionEvent(th)
    <3>1. regionEventId # NoEvent => regionEventId \in known
      BY DEF IndInv, Ids
    <3> QED BY <1>1, <1>5, <2>2, <3>1 DEF CancelRegionEvent, Throw
  <2>3. CASE \/ MovingEventCancelled(th) \/ RegionEventCancelled(th) \/ Stopped(th)
             \/ StartMovingToDestination(th) \/ StartMovingTowardAngle(th)
             \/ MovementTimerPublished(th) \/ RegionEventPublished(th)
    BY <1>1, <2>3 DEF MovingEventCancelled, RegionEventCancelled, Stopped,
                      StartMovingToDestination, StartMovingTowardAngle, MovementTimerPublished,
                      RegionEventPublished
  <2>4. CASE PublishMovementTimerEnded(th) \/ CheckIfWillLeaveRegion(th)
    BY <1>1, <1>4, <2>4 DEF PublishMovementTimerEnded, CheckIfWillLeaveRegion, Publish
  <2> QED BY <1>8, <2>1, <2>2, <2>3, <2>4 DEF HandlerStep
<1>9. ASSUME NEW th \in Threads, BrokerStep(th) PROVE Broker!Next
  BY <1>3, <1>9 DEF BrokerStep
<1>10. CASE TimerFires \/ DelayedTimerFinished \/ HandlersReturn
  BY <1>2, <1>10 DEF TimerFires, DelayedTimerFinished, HandlersReturn, Broker!Next
<1>11. CASE MovementTimerCompleted \/ EnteredRegion
  BY <1>1, <1>11 DEF MovementTimerCompleted, EnteredRegion
<1> QED BY <1>1, <1>6, <1>7, <1>8, <1>9, <1>10, <1>11 DEF Next

LEMMA BrokerKeepsNext ==
  Delayed!DelayedInv' => BrokerFacts' /\ Broker!TypeOK'
<1>1. Delayed!DelayedInv => BrokerFacts /\ Broker!TypeOK
  BY BrokerKeeps
<1> QED BY <1>1, PTL

-----------------------------------------------------------------------------
(* What is coming.                                                         *)

LEMMA ComingSame ==
  ASSUME UNCHANGED <<timers, firing, fired, handled>>
  PROVE  \A e : Coming(e)' <=> Coming(e)
BY DEF Coming

(* A handler that gives the mutex back ends its event, if it has one.      *)
LEMMA ReleaseFacts ==
  ASSUME BrokerFacts, TypeOK, Timers, NEW th, worldMutex = th, Release(th),
         UNCHANGED <<timers, firing, fired>>
  PROVE  /\ worldMutex' = Nobody /\ step' = "none"
         /\ \A e : Coming(e)' <=> Coming(e) /\ ~(worldMutex = TimerThread /\ e = fired)
<1>1. /\ worldMutex' = Nobody /\ step' = "none"
      /\ handled' = (handled \/ worldMutex = TimerThread)
  BY DEF Release
<1>2. CASE worldMutex = TimerThread
  <2>1. /\ firing = "notifying" /\ handled'
        /\ \A t \in timers : t.event # fired
    BY <1>1, <1>2 DEF Timers, BrokerFacts
  <2> QED BY <1>1, <1>2, <2>1 DEF Coming
<1>3. CASE worldMutex # TimerThread
  <2>1. handled' = handled
    <3>1. handled \in BOOLEAN
      BY DEF TypeOK
    <3> QED BY <1>1, <1>3, <3>1
  <2> QED BY <1>1, <1>3, <2>1, ComingSame
<1> QED BY <1>2, <1>3

-----------------------------------------------------------------------------
(* Packets.                                                                *)

(* What a packet handler leaves as it was.                                 *)
LEMMA PacketStep ==
  ASSUME IndInv, Delayed!DelayedInv', NEW th \in Clients, worldMutex = Nobody,
         UNCHANGED <<broker, timed, moving, destination, ids>>,
         position' \in Positions, motionState' \in MotionStates,
         lastMotionState' \in {"none", "walk", "run"},
         \/ UNCHANGED control
         \/ /\ worldMutex' = th /\ step' = "cancelMoving"
            /\ op' \in [kind : OpKinds, to : Positions \cup {NoPosition}, checksRegion : BOOLEAN]
            /\ op'.kind \in {"to", "stop"} => op'.to # NoPosition
  PROVE  IndInv'
<1> USE DEF IndInv
<1>1. Broker!TypeOK'
  BY BrokerKeepsNext
<1>2. /\ step = "none" /\ \A t \in Threads : pc[t] = "idle"
      /\ th \in Threads /\ th # TimerThread /\ th # Nobody
  BY Ranges DEF TypeOK, Calls
<1>3. UNCHANGED <<timers, timerIdMap, pc, eventId, firing, fired, known, notified, cancelled,
                  about, handled, missed, moving, destination, movingEventId, regionEventId>>
  BY DEF broker, timed, ids
<1>4. TypeOK'
  BY <1>1, <1>2, <1>3 DEF TypeOK, control, Steps
<1>5. Calls'
  BY <1>2, <1>3 DEF Calls, control, CancelSteps, PublishSteps
<1>6. Timers'
  BY <1>2, <1>3 DEF Timers, control, Mapped
<1>7. \A e : Coming(e)' <=> Coming(e)
  BY <1>3, ComingSame
<1>8. Ids'
  BY <1>2, <1>3, <1>7 DEF Ids, control
<1>9. Destinations'
  BY <1>2, <1>3 DEF Destinations, control
<1>10. OwnTimers'
  <2>1. missed = {} => \A e \in EventId : Coming(e) /\ about[e] = "movementTimerEnded" =>
          e = movingEventId
    BY <1>2, Ranges DEF OwnTimers
  <2> QED BY <1>3, <1>7, <2>1 DEF OwnTimers
<1> QED BY <1>4, <1>5, <1>6, <1>8, <1>9, <1>10

LEMMA PacketKeeps ==
  ASSUME IndInv, Delayed!DelayedInv', NEW th \in Clients, Packet(th)
  PROVE  IndInv'
<1> DEFINE Orders == {o \in [kind : OpKinds, to : Positions \cup {NoPosition},
                             checksRegion : BOOLEAN] :
                        o.kind \in {"to", "stop"} => o.to # NoPosition}
<1>1. /\ \A p \in Positions : Stop(p) \in Orders
      /\ \A p, q \in Positions : \A c \in BOOLEAN : Travel(p, q, c) \in Orders
      /\ \A c \in BOOLEAN : Toward(c) \in Orders
  BY DEF Stop, To, Travel, Toward, OpKinds
<1>2. /\ position \in Positions /\ destination \in Positions \cup {NoPosition}
      /\ motionState \in MotionStates /\ lastMotionState \in {"none", "walk", "run"}
      /\ CurrentPositions \subseteq Positions
  BY DEF IndInv, TypeOK, CurrentPositions
<1>3. ASSUME NEW p \in Positions, NEW o \in Orders, Redirect(th, p, o),
             motionState' \in MotionStates, lastMotionState' \in {"none", "walk", "run"}
      PROVE  IndInv'
  BY <1>3, PacketStep DEF Redirect
<1>4. ASSUME NEW p \in Positions, Repeat(th, p),
             motionState' \in MotionStates, lastMotionState' \in {"none", "walk", "run"}
      PROVE  IndInv'
  <2>1. CASE destination # NoPosition
    <3>1. Travel(p, destination, FALSE) \in Orders
      BY <1>1, <1>2, <2>1
    <3> QED BY <1>3, <1>4, <2>1, <3>1 DEF Repeat
  <2>2. CASE destination = NoPosition
    <3>1. Toward(FALSE) \in Orders
      BY <1>1
    <3> QED BY <1>3, <1>4, <2>2, <3>1 DEF Repeat
  <2> QED BY <2>1, <2>2
<1> HIDE DEF Orders
<1>5. CASE SetMovingToDestination(th) \/ SetMovingTowardAngle(th)
           \/ SetStationaryAtPosition(th)
  BY <1>1, <1>2, <1>3, <1>5 DEF SetMovingToDestination, SetMovingTowardAngle,
                                SetStationaryAtPosition, motion
<1>6. CASE SetSpeed(th)
  BY <1>2, <1>4, <1>6 DEF SetSpeed, motion
<1>7. CASE SyncPosition(th)
  BY <1>2, <1>4, <1>7, PacketStep DEF SyncPosition, motion
<1>8. CASE SetMotionState(th)
  <2>1. motionState' \in MotionStates /\ lastMotionState' \in {"none", "walk", "run"}
    BY <1>2, <1>8 DEF SetMotionState
  <2>2. ASSUME NEW p \in CurrentPositions, Repeat(th, p) PROVE IndInv'
    BY <1>2, <1>4, <2>1, <2>2
  <2>3. ASSUME worldMutex = Nobody, UNCHANGED <<broker, control, timed, place, ids>>
        PROVE  IndInv'
    BY <1>2, <2>1, <2>3, PacketStep DEF place
  <2> QED BY <1>8, <2>2, <2>3 DEF SetMotionState
<1> QED BY <1>5, <1>6, <1>7, <1>8 DEF Packet

-----------------------------------------------------------------------------
(* The steps of a handler.                                                 *)

LEMMA OthersIdle ==
  ASSUME TypeOK, Calls, NEW th \in Threads, worldMutex = th
  PROVE  /\ \A t \in Threads : t # th => pc[t] = "idle"
         /\ step \notin CancelSteps \cup PublishSteps => \A t \in Threads : pc[t] = "idle"
         /\ step # "none" /\ worldMutex # Nobody
BY Ranges DEF TypeOK, Calls

(* A handler ends with the ids m and r of the movement and region timers.  *)
LEMMA ReleaseStep ==
  ASSUME IndInv, Delayed!DelayedInv', NEW th \in Threads, worldMutex = th, Release(th),
         \A t \in Threads : pc[t] = "idle",
         UNCHANGED <<timers, timerIdMap, pc, eventId, firing, fired, known, notified, cancelled,
                     about, missed, op, motion>>,
         position' \in Positions, moving' \in BOOLEAN,
         destination' \in Positions \cup {NoPosition},
         NEW m \in EventId \cup {NoEvent}, NEW r \in EventId \cup {NoEvent},
         movingEventId' = m, regionEventId' = r,
         m # NoEvent =>
           /\ m \in known /\ about[m] = "movementTimerEnded" /\ Coming(m)
           /\ moving' /\ destination' # NoPosition,
         r # NoEvent => r \in known /\ about[r] = "enteredNewRegion" /\ Coming(r),
         worldMutex = TimerThread => fired # m /\ fired # r,
         "sit" \notin MotionStates /\ destination' # NoPosition => moving' /\ m # NoEvent,
         missed = {} => \A e \in EventId : Coming(e) /\ about[e] = "movementTimerEnded" =>
                          e = m \/ (worldMutex = TimerThread /\ e = fired)
  PROVE  IndInv'
<1> USE DEF IndInv
<1>1. BrokerFacts /\ Broker!TypeOK'
  BY BrokerKeeps, BrokerKeepsNext
<1>2. /\ worldMutex' = Nobody /\ step' = "none"
      /\ \A e : Coming(e)' <=> Coming(e) /\ ~(worldMutex = TimerThread /\ e = fired)
  BY <1>1, ReleaseFacts
<1>3. handled' \in BOOLEAN
  BY DEF Release
<1>4. TypeOK'
  BY <1>1, <1>2, <1>3 DEF TypeOK, motion, Steps
<1>5. Calls'
  BY <1>2 DEF Calls, CancelSteps, PublishSteps
<1>6. Timers'
  BY <1>2, Ranges DEF Timers, Mapped
<1>7. Ids'
  <2>1. m # NoEvent => Coming(m)'
    BY <1>2
  <2>2. r # NoEvent => Coming(r)'
    BY <1>2
  <2>3. m # NoEvent => Coming(movingEventId)'
    BY <2>1
  <2>4. r # NoEvent => Coming(regionEventId)'
    BY <2>2
  <2> QED BY <1>2, <2>3, <2>4 DEF Ids
<1>8. Destinations'
  BY <1>2 DEF Destinations
<1>9. OwnTimers'
  BY <1>2 DEF OwnTimers
<1> QED BY <1>4, <1>5, <1>6, <1>7, <1>8, <1>9

(* cancelDelayedEvent throws.                                              *)
LEMMA ThrowStep ==
  ASSUME IndInv, Delayed!DelayedInv', NEW th \in Threads, worldMutex = th, NEW e,
         step \in {"cancelMoving", "cancelRegion"},
         step = "cancelMoving" => movingEventId # NoEvent, Throw(th, e)
  PROVE  IndInv'
<1>1. \A t \in Threads : pc[t] = "idle"
  BY OthersIdle DEF IndInv, CancelSteps, PublishSteps
<1>2. /\ UNCHANGED <<timers, timerIdMap, pc, eventId, firing, fired, known, notified, cancelled,
                     about, missed, op, motion, position, moving, destination, movingEventId,
                     regionEventId>>
      /\ Release(th)
  BY DEF Throw, Broker!GetTimerIdThrows, place, ids
<1>3. /\ position \in Positions /\ moving \in BOOLEAN
      /\ destination \in Positions \cup {NoPosition}
      /\ movingEventId \in EventId \cup {NoEvent} /\ regionEventId \in EventId \cup {NoEvent}
  BY DEF IndInv, TypeOK
<1>4. /\ movingEventId # NoEvent =>
           /\ movingEventId \in known /\ about[movingEventId] = "movementTimerEnded"
           /\ Coming(movingEventId) /\ moving /\ destination # NoPosition
      /\ regionEventId # NoEvent =>
           regionEventId \in known /\ about[regionEventId] = "enteredNewRegion"
             /\ Coming(regionEventId)
      /\ "sit" \notin MotionStates /\ destination # NoPosition =>
           moving /\ movingEventId # NoEvent
  BY DEF IndInv, Ids, Destinations
<1>5. /\ worldMutex = TimerThread => fired # movingEventId /\ fired # regionEventId
      /\ missed = {} => \A x \in EventId : Coming(x) /\ about[x] = "movementTimerEnded" =>
                         x = movingEventId \/ (worldMutex = TimerThread /\ x = fired)
  BY DEF IndInv, Timers, OwnTimers
<1> QED BY <1>1, <1>2, <1>3, <1>4, <1>5, ReleaseStep

(* A handler goes on with the ids m and r of the movement and region       *)
(* timers.                                                                 *)
LEMMA ProceedStep ==
  ASSUME IndInv, Delayed!DelayedInv', NEW th \in Threads, worldMutex = th,
         step' \in {"cancelRegion", "cancelled", "publishMoving", "checkRegion"},
         \A t \in Threads : pc[t] = "idle",
         UNCHANGED <<timers, timerIdMap, pc, eventId, firing, fired, known, notified, cancelled,
                     worldMutex, op, about, handled, position, motion>>,
         missed' \in SUBSET EventId, moving' \in BOOLEAN,
         destination' \in Positions \cup {NoPosition},
         NEW m \in EventId \cup {NoEvent}, NEW r \in EventId \cup {NoEvent},
         movingEventId' = m, regionEventId' = r,
         m # NoEvent =>
           /\ m \in known /\ about[m] = "movementTimerEnded" /\ Coming(m)
           /\ moving' /\ destination' # NoPosition /\ step' = "checkRegion",
         r # NoEvent => r \in known /\ about[r] = "enteredNewRegion" /\ Coming(r),
         worldMutex = TimerThread => fired # m /\ fired # r,
         step' = "publishMoving" => moving' /\ destination' # NoPosition,
         "sit" \notin MotionStates /\ destination' # NoPosition =>
           moving' /\ (m # NoEvent \/ step' = "publishMoving"),
         missed' = {} => \A e \in EventId : Coming(e) /\ about[e] = "movementTimerEnded" =>
                           e = m \/ (worldMutex = TimerThread /\ e = fired)
  PROVE  IndInv'
<1> USE DEF IndInv
<1>1. Broker!TypeOK'
  BY BrokerKeepsNext
<1>2. \A e : Coming(e)' <=> Coming(e)
  BY ComingSame
<1>3. TypeOK'
  BY <1>1, OthersIdle DEF TypeOK, motion, Steps
<1>4. Calls'
  BY DEF Calls, CancelSteps, PublishSteps
<1>5. Timers'
  BY DEF Timers, Mapped
<1>6. Ids'
  <2>1. m # NoEvent => Coming(movingEventId)'
    BY <1>2
  <2>2. r # NoEvent => Coming(regionEventId)'
    BY <1>2
  <2> QED BY <2>1, <2>2 DEF Ids
<1>7. Destinations'
  BY DEF Destinations
<1>8. OwnTimers'
  BY <1>2 DEF OwnTimers
<1> QED BY <1>3, <1>4, <1>5, <1>6, <1>7, <1>8

(* What a handler knows that does not call the broker.                     *)
LEMMA HandlerFacts ==
  ASSUME IndInv, NEW th \in Threads, worldMutex = th
  PROVE  /\ step \notin CancelSteps \cup PublishSteps \/ pc[th] = "idle" =>
              \A t \in Threads : pc[t] = "idle"
         /\ position \in Positions /\ moving \in BOOLEAN /\ missed \in SUBSET EventId
         /\ destination \in Positions \cup {NoPosition}
         /\ movingEventId \in EventId \cup {NoEvent} /\ regionEventId \in EventId \cup {NoEvent}
         /\ regionEventId # NoEvent =>
              /\ regionEventId \in known /\ about[regionEventId] = "enteredNewRegion"
              /\ step # "regionCancelled" => Coming(regionEventId)
         /\ movingEventId # NoEvent =>
              /\ movingEventId \in known /\ about[movingEventId] = "movementTimerEnded"
              /\ step # "movingCancelled" => Coming(movingEventId)
              /\ moving /\ destination # NoPosition
              /\ step \in {"cancelMoving", "movingCancelled", "checkRegion", "regionPublished"}
         /\ worldMutex = TimerThread =>
              fired # NoEvent /\ fired # movingEventId /\ fired # regionEventId
<1>1. worldMutex = TimerThread => fired \in EventId
  BY BrokerKeeps DEF IndInv, Timers, BrokerFacts
<1>2. worldMutex = TimerThread => fired # NoEvent
  BY <1>1, Ranges
<1> QED BY <1>2, OthersIdle DEF IndInv, TypeOK, Ids, Timers

LEMMA CancelMovingEventStep ==
  ASSUME IndInv, Delayed!DelayedInv', NEW th \in Threads, worldMutex = th,
         CancelMovingEvent(th)
  PROVE  IndInv'
<1>1. step = "cancelMoving" /\ \A t \in Threads : pc[t] = "idle"
  BY HandlerFacts DEF CancelMovingEvent, CancelSteps, PublishSteps
<1>2. CASE movingEventId = NoEvent
  <2>1. /\ UNCHANGED <<timers, timerIdMap, pc, eventId, firing, fired, known, notified,
                       cancelled, worldMutex, op, about, handled, missed, position, motion,
                       regionEventId>>
        /\ movingEventId' = NoEvent /\ moving' = FALSE /\ destination' = NoPosition
        /\ step' = "cancelRegion"
    BY <1>2 DEF CancelMovingEvent, CancelsMoving, MovementCancelled, DestinationAfterCancel,
                broker, timed
  <2>2. missed = {} => \A e \in EventId : Coming(e) /\ about[e] = "movementTimerEnded" =>
                          e = movingEventId \/ (worldMutex = TimerThread /\ e = fired)
    BY <1>1 DEF IndInv, OwnTimers
  <2> QED BY <1>1, <1>2, <2>1, <2>2, HandlerFacts, ProceedStep
<1>3. CASE Throw(th, movingEventId) /\ movingEventId # NoEvent
  BY <1>1, <1>3, ThrowStep
<1>4. CASE /\ movingEventId # NoEvent /\ step' = "movingCancelled"
           /\ Broker!CancelDelayedEvent(th, movingEventId)
           /\ UNCHANGED <<worldMutex, op, timed, place, ids, motion>>
  <2> USE DEF IndInv
  <2>1. /\ pc' = [pc EXCEPT ![th] = "cancelTimer"]
        /\ eventId' = [eventId EXCEPT ![th] = movingEventId]
        /\ UNCHANGED <<timers, timerIdMap, firing, fired, known, notified, cancelled,
                       worldMutex, op, about, handled, missed, position, moving, destination,
                       movingEventId, regionEventId, motionState, lastMotionState>>
    BY <1>4 DEF Broker!CancelDelayedEvent, timed, place, ids, motion
  <2>2. Broker!TypeOK /\ Broker!TypeOK'
    BY BrokerKeepsNext, BrokerKeeps
  <2>3. /\ pc \in [Threads -> {"idle", "registerTimer", "addTimerIdMapping", "cancelTimer",
                               "removeTimerIdMapping"}]
        /\ eventId \in [Threads -> 0..MaxEvents]
    BY <2>2 DEF Broker!TypeOK, Threads
  <2>4. /\ \A t \in Threads : pc'[t] # "idle" => t = th /\ pc'[t] = "cancelTimer"
        /\ eventId'[th] = movingEventId
    BY <1>1, <2>1, <2>3
  <2>5. TypeOK'
    BY <1>1, <1>4, <2>1, <2>2 DEF TypeOK, Steps
  <2>6. Calls'
    BY <1>4, <2>1, <2>4 DEF Calls, CancelSteps, PublishSteps, Subject
  <2>7. Timers'
    BY <2>1 DEF Timers, Mapped
  <2>8. \A e : Coming(e)' <=> Coming(e)
    BY <2>1, ComingSame
  <2>9. Ids'
    <3>1. regionEventId # NoEvent => Coming(regionEventId)'
      BY <1>1, <2>1, <2>8 DEF Ids
    <3> QED BY <1>4, <2>1, <3>1 DEF Ids
  <2>10. Destinations'
    BY <1>4, <2>1 DEF Destinations
  <2>11. OwnTimers'
    BY <1>1, <2>1, <2>8 DEF OwnTimers
  <2> QED BY <2>5, <2>6, <2>7, <2>9, <2>10, <2>11
<1> QED BY <1>2, <1>3, <1>4 DEF CancelMovingEvent, CancelsMoving

(* Either the event was cancelled, and is not coming any more, or the      *)
(* cancellation is one that came too late.                                 *)
LEMMA MovingEventCancelledStep ==
  ASSUME IndInv, Delayed!DelayedInv', NEW th \in Threads, worldMutex = th,
         MovingEventCancelled(th)
  PROVE  IndInv'
<1>1. /\ step = "movingCancelled" /\ pc[th] = "idle" /\ \A t \in Threads : pc[t] = "idle"
      /\ movingEventId \in EventId
  <2>1. step = "movingCancelled" /\ pc[th] = "idle"
    BY DEF MovingEventCancelled
  <2>2. movingEventId # NoEvent
    BY <2>1 DEF IndInv, Calls
  <2> QED BY <2>1, <2>2, HandlerFacts
<1>2. /\ UNCHANGED <<timers, timerIdMap, pc, eventId, firing, fired, known, notified,
                     cancelled, worldMutex, op, about, handled, position, motion,
                     regionEventId>>
      /\ movingEventId' = NoEvent /\ moving' = FALSE /\ destination' = NoPosition
      /\ step' = "cancelRegion" /\ missed' = missed \cup ({movingEventId} \ cancelled)
  BY DEF MovingEventCancelled, MovementCancelled, DestinationAfterCancel, broker
<1>3. missed' = {} => \A e \in EventId : Coming(e) /\ about[e] = "movementTimerEnded" =>
                          worldMutex = TimerThread /\ e = fired
  <2>1. missed' = {} => missed = {} /\ movingEventId \in cancelled
    BY <1>2
  <2>2. movingEventId \in cancelled => ~Coming(movingEventId)
    BY BrokerKeeps, ComingFacts DEF IndInv
  <2>3. missed = {} => \A e \in EventId : Coming(e) /\ about[e] = "movementTimerEnded" =>
                         e = movingEventId \/ (worldMutex = TimerThread /\ e = fired)
    BY <1>1 DEF IndInv, OwnTimers
  <2> QED BY <2>1, <2>2, <2>3
<1> QED BY <1>1, <1>2, <1>3, HandlerFacts, ProceedStep

LEMMA CancelRegionEventStep ==
  ASSUME IndInv, Delayed!DelayedInv', NEW th \in Threads, worldMutex = th,
         CancelRegionEvent(th)
  PROVE  IndInv'
<1>1. /\ step = "cancelRegion" /\ movingEventId = NoEvent
      /\ \A t \in Threads : pc[t] = "idle"
  BY HandlerFacts DEF CancelRegionEvent, CancelSteps, PublishSteps
<1>2. CASE regionEventId = NoEvent
  <2>1. /\ UNCHANGED <<timers, timerIdMap, pc, eventId, firing, fired, known, notified,
                       cancelled, worldMutex, op, about, handled, missed, position, motion,
                       moving, destination, movingEventId, regionEventId>>
        /\ step' = "cancelled"
    BY <1>2 DEF CancelRegionEvent, broker, timed, place, ids
  <2>2. missed = {} => \A e \in EventId : Coming(e) /\ about[e] = "movementTimerEnded" =>
                          e = movingEventId \/ (worldMutex = TimerThread /\ e = fired)
    BY <1>1 DEF IndInv, OwnTimers
  <2>3. ~("sit" \notin MotionStates /\ destination # NoPosition)
    BY <1>1 DEF IndInv, Destinations
  <2> QED BY <1>1, <1>2, <2>1, <2>2, <2>3, HandlerFacts, ProceedStep
<1>3. CASE Throw(th, regionEventId) /\ regionEventId # NoEvent
  BY <1>1, <1>3, ThrowStep
<1>4. CASE /\ regionEventId # NoEvent /\ step' = "regionCancelled"
           /\ Broker!CancelDelayedEvent(th, regionEventId)
           /\ UNCHANGED <<worldMutex, op, timed, place, ids, motion>>
  <2> USE DEF IndInv
  <2>1. /\ pc' = [pc EXCEPT ![th] = "cancelTimer"]
        /\ eventId' = [eventId EXCEPT ![th] = regionEventId]
        /\ UNCHANGED <<timers, timerIdMap, firing, fired, known, notified, cancelled,
                       worldMutex, op, about, handled, missed, position, moving, destination,
                       movingEventId, regionEventId, motionState, lastMotionState>>
    BY <1>4 DEF Broker!CancelDelayedEvent, timed, place, ids, motion
  <2>2. Broker!TypeOK /\ Broker!TypeOK'
    BY BrokerKeepsNext, BrokerKeeps
  <2>3. /\ pc \in [Threads -> {"idle", "registerTimer", "addTimerIdMapping", "cancelTimer",
                               "removeTimerIdMapping"}]
        /\ eventId \in [Threads -> 0..MaxEvents]
    BY <2>2 DEF Broker!TypeOK, Threads
  <2>4. /\ \A t \in Threads : pc'[t] # "idle" => t = th /\ pc'[t] = "cancelTimer"
        /\ eventId'[th] = regionEventId
    BY <1>1, <2>1, <2>3
  <2>5. TypeOK'
    BY <1>1, <1>4, <2>1, <2>2 DEF TypeOK, Steps
  <2>6. Calls'
    BY <1>4, <2>1, <2>4 DEF Calls, CancelSteps, PublishSteps, Subject
  <2>7. Timers'
    BY <2>1 DEF Timers, Mapped
  <2>8. \A e : Coming(e)' <=> Coming(e)
    BY <2>1, ComingSame
  <2>9. Ids'
    BY <1>1, <1>4, <2>1 DEF Ids
  <2>10. Destinations'
    BY <1>1, <1>4, <2>1 DEF Destinations
  <2>11. OwnTimers'
    BY <1>1, <2>1, <2>8 DEF OwnTimers
  <2> QED BY <2>5, <2>6, <2>7, <2>9, <2>10, <2>11
<1> QED BY <1>2, <1>3, <1>4 DEF CancelRegionEvent

LEMMA RegionEventCancelledStep ==
  ASSUME IndInv, Delayed!DelayedInv', NEW th \in Threads, worldMutex = th,
         RegionEventCancelled(th)
  PROVE  IndInv'
<1>1. /\ step = "regionCancelled" /\ movingEventId = NoEvent
      /\ \A t \in Threads : pc[t] = "idle"
  BY HandlerFacts DEF RegionEventCancelled
<1>2. /\ UNCHANGED <<timers, timerIdMap, pc, eventId, firing, fired, known, notified,
                     cancelled, worldMutex, op, about, handled, missed, position, motion,
                     moving, destination, movingEventId>>
      /\ step' = "cancelled" /\ regionEventId' = NoEvent
  BY DEF RegionEventCancelled, broker, timed, place
<1>3. missed = {} => \A e \in EventId : Coming(e) /\ about[e] = "movementTimerEnded" =>
                        e = movingEventId \/ (worldMutex = TimerThread /\ e = fired)
  BY <1>1 DEF IndInv, OwnTimers
<1>4. ~("sit" \notin MotionStates /\ destination # NoPosition)
  BY <1>1 DEF IndInv, Destinations
<1> QED BY <1>1, <1>2, <1>3, <1>4, HandlerFacts, ProceedStep

(* What holds once the timers are cancelled.                               *)
LEMMA CancelledFacts ==
  ASSUME IndInv, NEW th \in Threads, worldMutex = th, step = "cancelled"
  PROVE  /\ movingEventId = NoEvent /\ \A t \in Threads : pc[t] = "idle"
         /\ regionEventId # NoEvent => Coming(regionEventId)
         /\ "sit" \notin MotionStates => destination = NoPosition
         /\ missed = {} => \A e \in EventId : Coming(e) /\ about[e] = "movementTimerEnded" =>
                             worldMutex = TimerThread /\ e = fired
<1>1. /\ movingEventId = NoEvent /\ \A t \in Threads : pc[t] = "idle"
      /\ regionEventId # NoEvent => Coming(regionEventId)
  BY HandlerFacts DEF CancelSteps, PublishSteps
<1>2. "sit" \notin MotionStates => destination = NoPosition
  BY <1>1 DEF IndInv, Destinations
<1>3. missed = {} => \A e \in EventId : Coming(e) /\ about[e] = "movementTimerEnded" =>
                        worldMutex = TimerThread /\ e = fired
  <2>1. \A e \in EventId : e # movingEventId
    BY <1>1, Ranges
  <2> QED BY <2>1 DEF IndInv, OwnTimers
<1> QED BY <1>1, <1>2, <1>3

LEMMA StoppedStep ==
  ASSUME IndInv, Delayed!DelayedInv', NEW th \in Threads, worldMutex = th, Stopped(th)
  PROVE  IndInv'
<1>1. step = "cancelled" /\ Release(th)
  BY DEF Stopped
<1>2. /\ UNCHANGED <<timers, timerIdMap, pc, eventId, firing, fired, known, notified, cancelled,
                     about, missed, op, motion, moving, destination, movingEventId,
                     regionEventId>>
      /\ position' = IF op.kind = "stop" THEN op.to ELSE position
  BY DEF Stopped, broker, ids
<1>3. position' \in Positions
  BY <1>2 DEF IndInv, TypeOK, Destinations
<1> QED BY <1>1, <1>2, <1>3, CancelledFacts, HandlerFacts, ReleaseStep

LEMMA StartMovingToDestinationStep ==
  ASSUME IndInv, Delayed!DelayedInv', NEW th \in Threads, worldMutex = th,
         StartMovingToDestination(th)
  PROVE  IndInv'
<1>1. step = "cancelled"
  BY DEF StartMovingToDestination
<1>2. /\ UNCHANGED <<timers, timerIdMap, pc, eventId, firing, fired, known, notified, cancelled,
                     about, missed, op, motion, position, movingEventId, regionEventId>>
      /\ moving' = TRUE /\ destination' = op.to
  BY DEF StartMovingToDestination, broker, ids
<1>3. destination' \in Positions /\ destination' # NoPosition
  <2>1. op.to \in Positions \cup {NoPosition} /\ op.to # NoPosition
    BY DEF IndInv, TypeOK, Destinations, StartMovingToDestination
  <2> QED BY <1>2, <2>1
<1>4. CASE HasSpeed(motionState)
  <2>1. step' = "publishMoving" /\ UNCHANGED <<worldMutex, handled>>
    BY <1>4 DEF StartMovingToDestination
  <2> QED BY <1>1, <1>2, <1>3, <2>1, CancelledFacts, HandlerFacts, ProceedStep
<1>5. CASE ~HasSpeed(motionState)
  <2>1. Release(th)
    BY <1>5 DEF StartMovingToDestination
  <2>2. "sit" \in MotionStates
    BY <1>5 DEF HasSpeed, IndInv, TypeOK
  <2> QED BY <1>1, <1>2, <1>3, <2>1, <2>2, CancelledFacts, HandlerFacts, ReleaseStep
<1> QED BY <1>4, <1>5

LEMMA StartMovingTowardAngleStep ==
  ASSUME IndInv, Delayed!DelayedInv', NEW th \in Threads, worldMutex = th,
         StartMovingTowardAngle(th)
  PROVE  IndInv'
<1>1. step = "cancelled"
  BY DEF StartMovingTowardAngle
<1>2. /\ UNCHANGED <<timers, timerIdMap, pc, eventId, firing, fired, known, notified, cancelled,
                     about, missed, op, motion, position, destination, movingEventId,
                     regionEventId>>
      /\ moving' = TRUE
  BY DEF StartMovingTowardAngle, broker, ids
<1>3. CASE op.checksRegion
  <2>1. step' = "checkRegion" /\ UNCHANGED <<worldMutex, handled>>
    BY <1>3 DEF StartMovingTowardAngle
  <2> QED BY <1>1, <1>2, <2>1, CancelledFacts, HandlerFacts, ProceedStep
<1>4. CASE ~op.checksRegion
  <2>1. Release(th)
    BY <1>4 DEF StartMovingTowardAngle
  <2> QED BY <1>1, <1>2, <2>1, CancelledFacts, HandlerFacts, ReleaseStep
<1> QED BY <1>3, <1>4

(* A handler asks for a timer of a type: the event id is a new one.        *)
LEMMA PublishStep ==
  ASSUME IndInv, Delayed!DelayedInv', NEW th \in Threads, worldMutex = th,
         NEW type \in {"movementTimerEnded", "enteredNewRegion"}, Publish(th, type),
         UNCHANGED <<worldMutex, op, handled, missed, place, ids, motion>>,
         \/ step = "publishMoving" /\ step' = "movingPublished" /\ type = "movementTimerEnded"
         \/ step = "checkRegion" /\ step' = "regionPublished" /\ type = "enteredNewRegion"
  PROVE  IndInv'
<1> USE DEF IndInv
<1>1. /\ pc' = [pc EXCEPT ![th] = "registerTimer"]
      /\ eventId' = [eventId EXCEPT ![th] = eventIdCounter]
      /\ about' = [about EXCEPT ![eventIdCounter] = type]
      /\ eventIdCounter < MaxEvents
      /\ UNCHANGED <<timers, timerIdMap, firing, fired, known, notified, cancelled,
                     worldMutex, op, handled, missed, position, moving, destination,
                     movingEventId, regionEventId, motionState, lastMotionState>>
  BY DEF Publish, Broker!PublishDelayedEvent, place, ids, motion
<1>2. Broker!TypeOK /\ Broker!TypeOK' /\ BrokerFacts
  BY BrokerKeepsNext, BrokerKeeps
<1>3. /\ pc \in [Threads -> {"idle", "registerTimer", "addTimerIdMapping", "cancelTimer",
                             "removeTimerIdMapping"}]
      /\ eventId \in [Threads -> 0..MaxEvents]
      /\ eventIdCounter \in Nat
  BY <1>2 DEF Broker!TypeOK, Threads
<1>4. eventIdCounter \in EventId
  BY <1>1, <1>3, Ranges
<1>5. \A t \in Threads : pc[t] = "idle"
  BY OthersIdle DEF CancelSteps, PublishSteps
<1>6. /\ \A t \in Threads : pc'[t] # "idle" => t = th
      /\ pc'[th] = "registerTimer" /\ eventId'[th] = eventIdCounter
  BY <1>1, <1>3, <1>5
<1>7. /\ \A e \in EventId : e < eventIdCounter => about'[e] = about[e]
      /\ about'[eventIdCounter] = type
      /\ about' \in [EventId -> {"none", "movementTimerEnded", "enteredNewRegion"}]
  <2>1. about \in [EventId -> {"none", "movementTimerEnded", "enteredNewRegion"}]
    BY DEF TypeOK
  <2>2. \A e \in EventId : e < eventIdCounter => e # eventIdCounter
    BY <1>3, Ranges
  <2> QED BY <1>1, <1>4, <2>1, <2>2
<1>8. TypeOK'
  BY <1>1, <1>2, <1>7 DEF TypeOK, Steps
<1>9. worldMutex = TimerThread => fired # eventIdCounter
  <2>1. worldMutex = TimerThread => fired \in EventId /\ fired < eventIdCounter
    BY <1>2 DEF Timers, BrokerFacts
  <2> QED BY <1>3, <2>1, Ranges
<1>10. Calls'
  BY <1>1, <1>4, <1>6, <1>7, <1>9 DEF Calls, CancelSteps, PublishSteps, Subject
<1>11. Timers'
  BY <1>1 DEF Timers, Mapped
<1>12. /\ \A e : Coming(e)' <=> Coming(e)
       /\ \A e : Coming(e) => e \in EventId /\ e < eventIdCounter
  BY <1>1, <1>2, ComingSame, ComingFacts
<1>13. Ids'
  <2>1. \A e \in known : e \in EventId /\ e < eventIdCounter
    BY <1>2 DEF BrokerFacts
  <2>2. /\ movingEventId # NoEvent => about'[movingEventId] = about[movingEventId]
        /\ regionEventId # NoEvent => about'[regionEventId] = about[regionEventId]
    BY <1>7, <2>1 DEF Ids
  <2>3. /\ movingEventId # NoEvent => Coming(movingEventId)' /\ step = "checkRegion"
        /\ regionEventId # NoEvent => Coming(regionEventId)'
    BY <1>1, <1>12 DEF Ids
  <2> QED BY <1>1, <2>2, <2>3 DEF Ids
<1>14. Destinations'
  BY <1>1 DEF Destinations
<1>15. OwnTimers'
  <2>1. \A e \in EventId : Coming(e)' /\ about'[e] = "movementTimerEnded" =>
          Coming(e) /\ about[e] = "movementTimerEnded"
    BY <1>7, <1>12
  <2> QED BY <1>1, <2>1 DEF OwnTimers
<1> QED BY <1>8, <1>10, <1>11, <1>13, <1>14, <1>15

LEMMA MovementTimerPublishedStep ==
  ASSUME IndInv, Delayed!DelayedInv', NEW th \in Threads, worldMutex = th,
         MovementTimerPublished(th)
  PROVE  IndInv'
<1>1. step = "movingPublished" /\ \A t \in Threads : pc[t] = "idle"
  BY HandlerFacts DEF MovementTimerPublished
<1>2. PICK m : m = Subject
  OBVIOUS
<1>3. /\ UNCHANGED <<timers, timerIdMap, pc, eventId, firing, fired, known, notified, cancelled,
                     about, missed, op, motion, position, moving, destination, regionEventId>>
      /\ movingEventId' = m
  BY <1>2 DEF MovementTimerPublished, PublishedId, Subject, broker, place
<1>4. /\ m \in EventId /\ m \in known /\ about[m] = "movementTimerEnded" /\ Coming(m)
      /\ worldMutex = TimerThread => m # fired
  BY <1>1, <1>2 DEF IndInv, Calls, PublishSteps
<1>5. /\ moving = TRUE /\ destination # NoPosition
      /\ missed = {} => \A e \in EventId : Coming(e) /\ about[e] = "movementTimerEnded" =>
                          e = m \/ (worldMutex = TimerThread /\ e = fired)
  <2>1. movingEventId = NoEvent
    BY <1>1, HandlerFacts
  <2>2. \A e \in EventId : e # movingEventId
    BY <2>1, Ranges
  <2> QED BY <1>1, <1>2, <2>2 DEF IndInv, Destinations, OwnTimers, TypeOK
<1>6. /\ moving' = TRUE /\ destination' # NoPosition /\ position' \in Positions
      /\ destination' \in Positions \cup {NoPosition} /\ missed' \in SUBSET EventId
      /\ regionEventId \in EventId \cup {NoEvent}
      /\ regionEventId # NoEvent =>
           regionEventId \in known /\ about[regionEventId] = "enteredNewRegion"
             /\ Coming(regionEventId)
      /\ worldMutex = TimerThread => fired # m /\ fired # regionEventId
      /\ m # NoEvent
  BY <1>1, <1>3, <1>4, <1>5, HandlerFacts, Ranges
<1>7. CASE op.checksRegion
  <2>1. step' = "checkRegion" /\ UNCHANGED <<worldMutex, handled>>
    BY <1>7 DEF MovementTimerPublished
  <2> QED BY <1>1, <1>3, <1>4, <1>5, <1>6, <2>1, ProceedStep
<1>8. CASE ~op.checksRegion
  <2>1. Release(th)
    BY <1>8 DEF MovementTimerPublished
  <2> QED BY <1>1, <1>3, <1>4, <1>5, <1>6, <2>1, ReleaseStep
<1> QED BY <1>7, <1>8

LEMMA CheckIfWillLeaveRegionStep ==
  ASSUME IndInv, Delayed!DelayedInv', NEW th \in Threads, worldMutex = th,
         CheckIfWillLeaveRegion(th)
  PROVE  IndInv'
<1>1. step = "checkRegion" /\ \A t \in Threads : pc[t] = "idle"
  BY HandlerFacts DEF CheckIfWillLeaveRegion, CancelSteps, PublishSteps
<1>2. CASE Release(th) /\ UNCHANGED <<broker, about>>
  <2>1. UNCHANGED <<timers, timerIdMap, pc, eventId, firing, fired, known, notified, cancelled,
                    about, missed, op, motion, position, moving, destination, movingEventId,
                    regionEventId>>
    BY <1>2 DEF CheckIfWillLeaveRegion, broker, place, ids
  <2>2. /\ missed = {} => \A e \in EventId : Coming(e) /\ about[e] = "movementTimerEnded" =>
                           e = movingEventId \/ (worldMutex = TimerThread /\ e = fired)
        /\ "sit" \notin MotionStates /\ destination # NoPosition =>
             moving /\ movingEventId # NoEvent
    BY <1>1 DEF IndInv, OwnTimers, Destinations
  <2> QED BY <1>1, <1>2, <2>1, <2>2, HandlerFacts, ReleaseStep
<1>3. CASE /\ Publish(th, "enteredNewRegion") /\ step' = "regionPublished"
           /\ UNCHANGED <<worldMutex, handled>>
  BY <1>1, <1>3, PublishStep DEF CheckIfWillLeaveRegion
<1> QED BY <1>2, <1>3 DEF CheckIfWillLeaveRegion

LEMMA RegionEventPublishedStep ==
  ASSUME IndInv, Delayed!DelayedInv', NEW th \in Threads, worldMutex = th,
         RegionEventPublished(th)
  PROVE  IndInv'
<1>1. /\ step = "regionPublished" /\ Release(th)
      /\ \A t \in Threads : pc[t] = "idle"
  BY HandlerFacts DEF RegionEventPublished
<1>2. PICK r : r = Subject
  OBVIOUS
<1>3. /\ UNCHANGED <<timers, timerIdMap, pc, eventId, firing, fired, known, notified, cancelled,
                     about, missed, op, motion, position, moving, destination, movingEventId>>
      /\ regionEventId' = r
  BY <1>2 DEF RegionEventPublished, Subject, broker, place
<1>4. /\ r \in EventId /\ r \in known /\ about[r] = "enteredNewRegion" /\ Coming(r)
      /\ worldMutex = TimerThread => r # fired
  BY <1>1, <1>2 DEF IndInv, Calls, PublishSteps
<1>5. /\ missed = {} => \A e \in EventId : Coming(e) /\ about[e] = "movementTimerEnded" =>
                          e = movingEventId \/ (worldMutex = TimerThread /\ e = fired)
      /\ "sit" \notin MotionStates /\ destination # NoPosition =>
           moving /\ movingEventId # NoEvent
  BY <1>1 DEF IndInv, OwnTimers, Destinations
<1> QED BY <1>1, <1>3, <1>4, <1>5, HandlerFacts, ReleaseStep

-----------------------------------------------------------------------------
(* The steps of the broker, inside the call of the handler that holds the  *)
(* world's mutex.                                                          *)

LEMMA CallerFacts ==
  ASSUME IndInv, NEW th \in Threads, pc[th] # "idle"
  PROVE  /\ worldMutex = th /\ Subject = eventId[th]
         /\ \A t \in Threads : t # th => pc[t] = "idle"
         /\ pc \in [Threads -> {"idle", "registerTimer", "addTimerIdMapping", "cancelTimer",
                                "removeTimerIdMapping"}]
<1>1. worldMutex = th
  BY DEF IndInv, Calls
<1>2. Broker!TypeOK
  BY BrokerKeeps DEF IndInv
<1> QED BY <1>1, <1>2, OthersIdle DEF IndInv, Subject, Broker!TypeOK, Threads

(* What a step of the broker leaves alone.                                 *)
LEMMA BrokerTypes ==
  ASSUME IndInv, Delayed!DelayedInv', UNCHANGED <<control, timed, place, ids, motion>>
  PROVE  TypeOK'
BY BrokerKeepsNext DEF IndInv, TypeOK, control, timed, place, ids, motion

LEMMA RegisterTimerStep ==
  ASSUME IndInv, Delayed!DelayedInv', NEW th \in Threads, Broker!RegisterTimer(th),
         UNCHANGED <<control, timed, place, ids, motion>>
  PROVE  IndInv'
<1> USE DEF IndInv
<1>1. PICK new : /\ timers' = timers \cup {new} /\ new.event = eventId[th]
                 /\ pc' = [pc EXCEPT ![th] = "addTimerIdMapping"]
  <2>1. [timer |-> timerIdCounter, event |-> eventId[th]].event = eventId[th]
    OBVIOUS
  <2> QED BY <2>1 DEF Broker!RegisterTimer
<1>2. /\ UNCHANGED <<timerIdMap, eventId, firing, fired, known, notified, cancelled,
                     worldMutex, step, op, about, handled, missed, position, moving,
                     destination, movingEventId, regionEventId>>
      /\ pc[th] = "registerTimer"
  BY DEF Broker!RegisterTimer, control, timed, place, ids
<1>3. /\ worldMutex = th /\ Subject = eventId[th] /\ step \in PublishSteps
      /\ step \notin CancelSteps
  BY <1>2, CallerFacts DEF Calls, CancelSteps, PublishSteps
<1>4. /\ \A t \in Threads : pc'[t] # "idle" => t = th
      /\ pc'[th] = "addTimerIdMapping"
  BY <1>1, <1>2, CallerFacts
<1>5. Subject \notin known
  BY <1>2, <1>3, BrokerKeeps DEF BrokerFacts
<1>6. \A e : Coming(e)' <=> Coming(e) \/ e = Subject
  BY <1>1, <1>2, <1>3 DEF Coming
<1>7. TypeOK'
  BY BrokerTypes
<1>8. Calls'
  BY <1>2, <1>3, <1>4, <1>6 DEF Calls, Subject, CancelSteps
<1>9. Timers'
  BY <1>1, <1>2, <1>3, <1>5 DEF Timers, Mapped
<1>10. Ids'
  <2>1. /\ movingEventId # NoEvent => Coming(movingEventId)'
        /\ regionEventId # NoEvent => Coming(regionEventId)'
    BY <1>2, <1>3, <1>6 DEF Ids, CancelSteps
  <2> QED BY <1>2, <2>1 DEF Ids
<1>11. Destinations'
  BY <1>2 DEF Destinations
<1>12. OwnTimers'
  <2>1. step = "movingPublished" \/ about[Subject] = "enteredNewRegion"
    BY <1>3 DEF Calls, PublishSteps
  <2>2. Subject' = Subject
    BY <1>2 DEF Subject
  <2> QED BY <1>2, <1>6, <2>1, <2>2 DEF OwnTimers
<1> QED BY <1>7, <1>8, <1>9, <1>10, <1>11, <1>12

LEMMA AddTimerIdMappingStep ==
  ASSUME IndInv, Delayed!DelayedInv', NEW th \in Threads, Broker!AddTimerIdMapping(th),
         UNCHANGED <<control, timed, place, ids, motion>>
  PROVE  IndInv'
<1> USE DEF IndInv
<1>1. /\ pc[th] = "addTimerIdMapping" /\ pc' = [pc EXCEPT ![th] = "idle"]
      /\ timerIdMap' = Broker!WithMapping(eventId[th], timerId[th])
      /\ known' = known \cup {eventId[th]}
      /\ UNCHANGED <<timers, eventId, firing, fired, notified, cancelled,
                     worldMutex, step, op, about, handled, missed, position, moving,
                     destination, movingEventId, regionEventId>>
  BY DEF Broker!AddTimerIdMapping, control, timed, place, ids
<1>2. /\ worldMutex = th /\ Subject = eventId[th] /\ Subject' = Subject
      /\ step \in PublishSteps /\ step \notin CancelSteps
  BY <1>1, CallerFacts DEF Calls, CancelSteps, PublishSteps, Subject
<1>3. \A t \in Threads : pc'[t] = "idle"
  BY <1>1, CallerFacts
<1>4. /\ Mapped(Subject)'
      /\ \A e : Mapped(e) => Mapped(e)'
  <2>1. [event |-> eventId[th], timer |-> timerId[th]].event = eventId[th]
    OBVIOUS
  <2>2. timerIdMap' = {x \in timerIdMap : x.event # eventId[th]} \cup
                        {[event |-> eventId[th], timer |-> timerId[th]]}
    BY <1>1 DEF Broker!WithMapping, Broker!WithoutKey
  <2>3. ASSUME NEW e, e = eventId[th] PROVE Mapped(e)'
    BY <2>1, <2>2, <2>3 DEF Mapped
  <2>4. ASSUME NEW e, Mapped(e) PROVE Mapped(e)'
    <3>1. CASE e = eventId[th]
      BY <2>3, <3>1
    <3>2. CASE e # eventId[th]
      BY <2>2, <2>4, <3>2 DEF Mapped
    <3> QED BY <3>1, <3>2
  <2>5. Mapped(Subject)'
    BY <1>1, <1>2, <2>3
  <2> QED BY <2>4, <2>5
<1>5. \A e : Coming(e)' <=> Coming(e)
  BY <1>1, ComingSame
<1>6. Coming(Subject)
  BY <1>1, <1>2, BrokerKeeps DEF BrokerFacts, Coming, Timers
<1>7. TypeOK'
  BY BrokerTypes
<1>8. Calls'
  <2>1. Coming(Subject)'
    BY <1>2, <1>5, <1>6
  <2> QED BY <1>1, <1>2, <1>3, <2>1 DEF Calls, Subject, CancelSteps
<1>9. Timers'
  <2>1. \A t \in timers : t.event \in known' => Mapped(t.event)'
    BY <1>1, <1>2, <1>4 DEF Timers
  <2>2. firing = "delayedTimerFinished" => Mapped(fired)'
    BY <1>1, <1>4 DEF Timers
  <2> QED BY <1>1, <2>1, <2>2 DEF Timers, Mapped
<1>10. Ids'
  <2>1. /\ movingEventId # NoEvent => Coming(movingEventId)'
        /\ regionEventId # NoEvent => Coming(regionEventId)'
    BY <1>1, <1>2, <1>5 DEF Ids, CancelSteps
  <2> QED BY <1>1, <2>1 DEF Ids
<1>11. Destinations'
  BY <1>1 DEF Destinations
<1>12. OwnTimers'
  BY <1>1, <1>2, <1>5 DEF OwnTimers
<1> QED BY <1>7, <1>8, <1>9, <1>10, <1>11, <1>12

LEMMA CancelTimerStep ==
  ASSUME IndInv, Delayed!DelayedInv', NEW th \in Threads, Broker!CancelTimer(th),
         UNCHANGED <<control, timed, place, ids, motion>>
  PROVE  IndInv'
<1> USE DEF IndInv
<1>1. /\ pc[th] = "cancelTimer"
      /\ \E next \in {"idle", "removeTimerIdMapping"} : pc' = [pc EXCEPT ![th] = next]
      /\ timers' = {t \in timers : t.timer # timerId[th]}
      /\ UNCHANGED <<timerIdMap, eventId, firing, fired, known, notified,
                     worldMutex, step, op, about, handled, missed, position, moving,
                     destination, movingEventId, regionEventId>>
  BY DEF Broker!CancelTimer, control, timed, place, ids
<1>2. /\ worldMutex = th /\ Subject = eventId[th] /\ Subject' = Subject
      /\ step \in CancelSteps /\ step \notin PublishSteps
  BY <1>1, CallerFacts DEF Calls, CancelSteps, PublishSteps, Subject
<1>3. /\ \A t \in Threads : pc'[t] # "idle" => t = th
      /\ pc'[th] \in {"idle", "removeTimerIdMapping"}
  BY <1>1, CallerFacts
<1>4. timers' = {t \in timers : t.event # Subject}
  BY <1>1, <1>2, BrokerKeeps DEF BrokerFacts
<1>5. /\ \A e : Coming(e)' => Coming(e)
      /\ \A e : Coming(e) /\ e # Subject => Coming(e)'
  BY <1>1, <1>4 DEF Coming
<1>6. TypeOK'
  BY BrokerTypes
<1>7. Calls'
  BY <1>1, <1>2, <1>3 DEF Calls, Subject, PublishSteps
<1>8. Timers'
  BY <1>1, <1>4 DEF Timers, Mapped
<1>9. Ids'
  <2>1. /\ step = "movingCancelled" => Subject = movingEventId
        /\ step = "regionCancelled" => Subject = regionEventId
        /\ Subject # NoEvent
    BY <1>2 DEF Calls, CancelSteps
  <2>2. movingEventId # NoEvent /\ step # "movingCancelled" => Coming(movingEventId)'
    BY <1>1, <1>2, <1>5, <2>1 DEF Ids, CancelSteps
  <2>3. regionEventId # NoEvent /\ step # "regionCancelled" => Coming(regionEventId)'
    BY <1>1, <1>2, <1>5, <2>1 DEF Ids, CancelSteps
  <2> QED BY <1>1, <2>2, <2>3 DEF Ids
<1>10. Destinations'
  BY <1>1 DEF Destinations
<1>11. OwnTimers'
  BY <1>1, <1>2, <1>5 DEF OwnTimers
<1> QED BY <1>6, <1>7, <1>8, <1>9, <1>10, <1>11

LEMMA RemoveTimerIdMappingStep ==
  ASSUME IndInv, Delayed!DelayedInv', NEW th \in Threads, Broker!RemoveTimerIdMapping(th),
         UNCHANGED <<control, timed, place, ids, motion>>
  PROVE  IndInv'
<1> USE DEF IndInv
<1>1. /\ pc[th] = "removeTimerIdMapping" /\ pc' = [pc EXCEPT ![th] = "idle"]
      /\ timerIdMap' = timerIdMap \/ timerIdMap' = {x \in timerIdMap : x.event # eventId[th]}
      /\ UNCHANGED <<timers, eventId, firing, fired, known, notified, cancelled,
                     worldMutex, step, op, about, handled, missed, position, moving,
                     destination, movingEventId, regionEventId>>
  BY DEF Broker!RemoveTimerIdMapping, Broker!WithoutKey, control, timed, place, ids
<1>2. /\ worldMutex = th /\ Subject = eventId[th] /\ Subject' = Subject
      /\ step \in CancelSteps /\ step \notin PublishSteps
  BY <1>1, CallerFacts DEF Calls, CancelSteps, PublishSteps, Subject
<1>3. \A t \in Threads : pc'[t] = "idle"
  BY <1>1, CallerFacts
<1>4. \A e : Mapped(e) /\ e \notin cancelled => Mapped(e)'
  <2>1. eventId[th] \in cancelled
    BY <1>1, BrokerKeeps DEF BrokerFacts
  <2> QED BY <1>1, <2>1 DEF Mapped
<1>5. \A e : Coming(e)' <=> Coming(e)
  BY <1>1, ComingSame
<1>6. TypeOK'
  BY BrokerTypes
<1>7. Calls'
  BY <1>1, <1>2, <1>3 DEF Calls, Subject, PublishSteps
<1>8. Timers'
  <2>1. /\ \A t \in timers : t.event \notin cancelled
        /\ firing = "delayedTimerFinished" => fired \notin cancelled
    BY BrokerKeeps DEF BrokerFacts
  <2>2. firing = "delayedTimerFinished" => Mapped(fired)'
    BY <1>1, <1>4, <2>1 DEF Timers
  <2>3. \A t \in timers : t.event \in known => Mapped(t.event)'
    BY <1>4, <2>1 DEF Timers
  <2> QED BY <1>1, <2>2, <2>3 DEF Timers, Mapped
<1>9. Ids'
  <2>1. /\ movingEventId # NoEvent /\ step # "movingCancelled" => Coming(movingEventId)'
        /\ regionEventId # NoEvent /\ step # "regionCancelled" => Coming(regionEventId)'
    BY <1>1, <1>5 DEF Ids
  <2> QED BY <1>1, <2>1 DEF Ids
<1>10. Destinations'
  BY <1>1 DEF Destinations
<1>11. OwnTimers'
  BY <1>1, <1>2, <1>5 DEF OwnTimers
<1> QED BY <1>6, <1>7, <1>8, <1>9, <1>10, <1>11

-----------------------------------------------------------------------------
(* The timer thread.                                                       *)

LEMMA TimerFiresStep ==
  ASSUME IndInv, Delayed!DelayedInv', TimerFires
  PROVE  IndInv'
<1> USE DEF IndInv
<1>1. PICK t \in timers : timers' = timers \ {t} /\ fired' = t.event
  BY DEF TimerFires, Broker!TimerFires
<1>2. /\ firing = "waiting" /\ firing' = "delayedTimerFinished" /\ fired' \in known
      /\ UNCHANGED <<timerIdMap, pc, eventId, known, notified, cancelled,
                     worldMutex, step, op, about, handled, missed, position, moving,
                     destination, movingEventId, regionEventId>>
  BY DEF TimerFires, Broker!TimerFires, control, timed, place, ids
<1>3. worldMutex # TimerThread
  BY <1>2 DEF Timers
<1>4. \A e : Coming(e)' <=> Coming(e)
  BY <1>1, <1>2 DEF Coming
<1>5. TypeOK'
  BY BrokerTypes DEF TimerFires
<1>6. Calls'
  BY <1>2, <1>3, <1>4 DEF Calls, Subject
<1>7. Timers'
  <2>1. Mapped(fired')
    BY <1>1, <1>2 DEF Timers
  <2> QED BY <1>1, <1>2, <1>3, <2>1 DEF Timers, Mapped
<1>8. Ids'
  <2>1. /\ movingEventId # NoEvent /\ step # "movingCancelled" => Coming(movingEventId)'
        /\ regionEventId # NoEvent /\ step # "regionCancelled" => Coming(regionEventId)'
    BY <1>2, <1>4 DEF Ids
  <2> QED BY <1>2, <2>1 DEF Ids
<1>9. Destinations'
  BY <1>2 DEF Destinations
<1>10. OwnTimers'
  BY <1>2, <1>3, <1>4 DEF OwnTimers, Subject
<1> QED BY <1>5, <1>6, <1>7, <1>8, <1>9, <1>10

LEMMA DelayedTimerFinishedStep ==
  ASSUME IndInv, Delayed!DelayedInv', DelayedTimerFinished
  PROVE  IndInv'
<1> USE DEF IndInv
<1>1. firing = "delayedTimerFinished" /\ Broker!Mapped(fired)
  BY DEF DelayedTimerFinished, Broker!DelayedTimerFinished, Timers, Mapped, Broker!Mapped
<1>2. /\ firing' = "notifying" /\ handled' = FALSE /\ notified' = notified \cup {fired}
      /\ timerIdMap' = {x \in timerIdMap : x.event # fired}
      /\ UNCHANGED <<timers, fired, pc, eventId, known, cancelled,
                     worldMutex, step, op, about, missed, position, moving,
                     destination, movingEventId, regionEventId, motionState,
                     lastMotionState>>
  BY <1>1 DEF DelayedTimerFinished, Broker!DelayedTimerFinished, Broker!WithoutKey, control,
              place, ids, motion
<1>3. worldMutex # TimerThread
  BY <1>1 DEF Timers
<1>4. \A e : Coming(e)' <=> Coming(e)
  BY <1>1, <1>2 DEF Coming
<1>5. TypeOK'
  BY <1>2, BrokerKeepsNext DEF TypeOK
<1>6. Calls'
  BY <1>2, <1>3, <1>4 DEF Calls, Subject
<1>7. Timers'
  <2>1. \A x \in timers : x.event # fired
    BY <1>1, BrokerKeeps DEF BrokerFacts
  <2>2. \A e : Mapped(e) /\ e # fired => Mapped(e)'
    BY <1>2 DEF Mapped
  <2>3. \A x \in timers : x.event \in known => Mapped(x.event)'
    BY <2>1, <2>2 DEF Timers
  <2> QED BY <1>2, <1>3, <2>3 DEF Timers, Mapped
<1>8. Ids'
  <2>1. /\ movingEventId # NoEvent /\ step # "movingCancelled" => Coming(movingEventId)'
        /\ regionEventId # NoEvent /\ step # "regionCancelled" => Coming(regionEventId)'
    BY <1>2, <1>4 DEF Ids
  <2> QED BY <1>2, <2>1 DEF Ids
<1>9. Destinations'
  BY <1>2 DEF Destinations
<1>10. OwnTimers'
  BY <1>2, <1>3, <1>4 DEF OwnTimers, Subject
<1> QED BY <1>5, <1>6, <1>7, <1>8, <1>9, <1>10

LEMMA HandlersReturnStep ==
  ASSUME IndInv, Delayed!DelayedInv', HandlersReturn
  PROVE  IndInv'
<1> USE DEF IndInv
<1>1. /\ firing' = "waiting" /\ handled
      /\ UNCHANGED <<timers, timerIdMap, fired, pc, eventId, known, notified, cancelled,
                     worldMutex, step, op, about, handled, missed, position, moving,
                     destination, movingEventId, regionEventId>>
  BY DEF HandlersReturn, Broker!NotifySubscribersReturns, control, timed, place, ids
<1>2. worldMutex # TimerThread /\ firing # "delayedTimerFinished"
  <2>1. firing \in {"notifying", "notifyingInstant"}
    BY DEF HandlersReturn, Broker!NotifySubscribersReturns
  <2> QED BY <1>1, <2>1 DEF Timers
<1>3. \A e : Coming(e)' <=> Coming(e)
  BY <1>1, <1>2 DEF Coming
<1>4. TypeOK'
  BY BrokerTypes DEF HandlersReturn
<1>5. Calls'
  BY <1>1, <1>2, <1>3 DEF Calls, Subject
<1>6. Timers'
  BY <1>1, <1>2 DEF Timers, Mapped
<1>7. Ids'
  <2>1. /\ movingEventId # NoEvent /\ step # "movingCancelled" => Coming(movingEventId)'
        /\ regionEventId # NoEvent /\ step # "regionCancelled" => Coming(regionEventId)'
    BY <1>1, <1>3 DEF Ids
  <2> QED BY <1>1, <2>1 DEF Ids
<1>8. Destinations'
  BY <1>1 DEF Destinations
<1>9. OwnTimers'
  BY <1>1, <1>2, <1>3 DEF OwnTimers, Subject
<1> QED BY <1>4, <1>5, <1>6, <1>7, <1>8, <1>9

(* A handler that has nothing to do ends its event.                        *)
LEMMA HandledFacts ==
  ASSUME IndInv, handled', firing = "notifying", UNCHANGED <<timers, firing, fired>>
  PROVE  \A e : Coming(e)' <=> Coming(e) /\ e # fired
<1>1. \A t \in timers : t.event # fired
  BY BrokerKeeps DEF IndInv, Timers, BrokerFacts
<1>2. \A e : Coming(e) /\ e # fired => \E t \in timers : t.event = e
  BY DEF Coming
<1> QED BY <1>1, <1>2 DEF Coming

LEMMA MovementTimerCompletedStep ==
  ASSUME IndInv, Delayed!DelayedInv', MovementTimerCompleted
  PROVE  IndInv'
<1> USE DEF IndInv
<1>1. /\ firing = "notifying" /\ ~handled /\ about[fired] = "movementTimerEnded"
      /\ worldMutex = Nobody /\ step = "none"
      /\ UNCHANGED <<timers, timerIdMap, firing, fired, pc, eventId, known, notified, cancelled,
                     about, missed, moving, destination, regionEventId, motionState,
                     lastMotionState>>
  BY DEF MovementTimerCompleted, Handling, TypeOK, broker, motion
<1>2. fired \in EventId /\ Coming(fired) /\ (regionEventId # NoEvent => regionEventId # fired)
  BY <1>1, BrokerKeeps DEF BrokerFacts, Timers, Coming, Ids
<1>3. /\ TimerThread # Nobody /\ fired # NoEvent /\ NoPosition \notin Positions
      /\ TimerThread \in Threads
  BY <1>2, Ranges
<1>4. \A t \in Threads : pc[t] = "idle"
  BY <1>1, Ranges DEF Calls
<1>5. missed = {} => \A e \in EventId : Coming(e) /\ about[e] = "movementTimerEnded" =>
                        e = movingEventId
  BY <1>1, <1>3 DEF OwnTimers
<1>6. CASE Completes
  <2>1. /\ position' = destination /\ movingEventId' = NoEvent /\ worldMutex' = TimerThread
        /\ step' = "cancelMoving" /\ op' = Arrive /\ handled' = handled
        /\ destination # NoPosition /\ moving
    BY <1>6 DEF MovementTimerCompleted, IdAfterCompletion, Completes
  <2>2. Arrive \in [kind : OpKinds, to : Positions \cup {NoPosition}, checksRegion : BOOLEAN]
        /\ Arrive.kind \notin {"to", "stop"}
    BY DEF Arrive, OpKinds
  <2>3. \A e : Coming(e)' <=> Coming(e)
    BY <1>1, <2>1, ComingSame
  <2>4. TypeOK'
    BY <1>1, <1>3, <2>1, <2>2, BrokerKeepsNext DEF TypeOK, Steps
  <2>5. Calls'
    BY <1>1, <1>4, <2>1 DEF Calls, CancelSteps, PublishSteps
  <2>6. Timers'
    BY <1>1, <1>2, <1>3, <2>1 DEF Timers, Mapped
  <2>7. Ids'
    <3>1. regionEventId # NoEvent => Coming(regionEventId)'
      BY <1>1, <2>3 DEF Ids
    <3> QED BY <1>1, <2>1, <3>1 DEF Ids
  <2>8. Destinations'
    BY <1>1, <2>1, <2>2 DEF Destinations
  <2>9. OwnTimers'
    <3>1. missed = {} => \A e \in EventId : Coming(e) /\ about[e] = "movementTimerEnded" =>
                            e = fired
      BY <1>1, <1>2, <1>5
    <3> QED BY <1>1, <2>1, <2>3, <3>1 DEF OwnTimers
  <2> QED BY <2>4, <2>5, <2>6, <2>7, <2>8, <2>9
<1>7. CASE ~Completes
  <2>1. /\ handled' = TRUE
        /\ UNCHANGED <<position, movingEventId, worldMutex, step, op>>
    BY <1>7 DEF MovementTimerCompleted, control
  <2>2. movingEventId = NoEvent
    BY <1>7 DEF Completes, Ids
  <2>3. \A e : Coming(e)' <=> Coming(e) /\ e # fired
    BY <1>1, <2>1, HandledFacts
  <2>4. TypeOK'
    BY <1>1, <2>1, BrokerKeepsNext DEF TypeOK
  <2>5. Calls'
    BY <1>1, <1>4, <2>1 DEF Calls, CancelSteps, PublishSteps
  <2>6. Timers'
    BY <1>1, <1>3, <2>1 DEF Timers, Mapped
  <2>7. Ids'
    <3>1. regionEventId # NoEvent => Coming(regionEventId)'
      BY <1>1, <1>2, <2>3 DEF Ids
    <3> QED BY <1>1, <2>1, <2>2, <3>1 DEF Ids
  <2>8. Destinations'
    BY <1>1, <2>1 DEF Destinations
  <2>9. OwnTimers'
    BY <1>1, <1>5, <2>1, <2>3 DEF OwnTimers
  <2> QED BY <2>4, <2>5, <2>6, <2>7, <2>8, <2>9
<1> QED BY <1>6, <1>7

LEMMA EnteredRegionStep ==
  ASSUME IndInv, Delayed!DelayedInv', EnteredRegion
  PROVE  IndInv'
<1> USE DEF IndInv
<1>1. /\ firing = "notifying" /\ ~handled /\ about[fired] = "enteredNewRegion"
      /\ worldMutex = Nobody /\ step = "none"
      /\ regionEventId' = IF regionEventId = fired THEN NoEvent ELSE regionEventId
      /\ UNCHANGED <<timers, timerIdMap, firing, fired, pc, eventId, known, notified, cancelled,
                     about, missed, op, position, moving, destination, movingEventId,
                     motionState, lastMotionState>>
  BY DEF EnteredRegion, Handling, TypeOK, broker, place, motion
<1>2. fired \in EventId /\ (movingEventId # NoEvent => movingEventId # fired)
  BY <1>1, BrokerKeeps DEF BrokerFacts, Timers, Ids
<1>3. TimerThread # Nobody /\ fired # NoEvent /\ TimerThread \in Threads
  BY <1>2, Ranges
<1>4. \A t \in Threads : pc[t] = "idle"
  BY <1>1, Ranges DEF Calls
<1>5. missed = {} => \A e \in EventId : Coming(e) /\ about[e] = "movementTimerEnded" =>
                        e = movingEventId
  BY <1>1, <1>3 DEF OwnTimers
<1>6. \/ regionEventId' = NoEvent
      \/ regionEventId' = regionEventId /\ regionEventId # fired
  BY <1>1
<1>7. CASE moving
  <2>1. worldMutex' = TimerThread /\ step' = "checkRegion" /\ handled' = handled
    BY <1>7 DEF EnteredRegion
  <2>2. \A e : Coming(e)' <=> Coming(e)
    BY <1>1, <2>1, ComingSame
  <2>3. TypeOK'
    BY <1>1, <1>3, <1>6, <2>1, BrokerKeepsNext DEF TypeOK, Steps
  <2>4. Calls'
    BY <1>1, <1>4, <2>1 DEF Calls, CancelSteps, PublishSteps
  <2>5. Timers'
    BY <1>1, <1>2, <1>3, <1>6, <2>1 DEF Timers, Mapped
  <2>6. Ids'
    <3>1. movingEventId # NoEvent => Coming(movingEventId)'
      BY <1>1, <2>2 DEF Ids
    <3>2. regionEventId' # NoEvent => Coming(regionEventId)'
      BY <1>1, <1>6, <2>2 DEF Ids
    <3> QED BY <1>1, <1>6, <2>1, <3>1, <3>2 DEF Ids
  <2>7. Destinations'
    BY <1>1, <2>1 DEF Destinations
  <2>8. OwnTimers'
    BY <1>1, <1>5, <2>2 DEF OwnTimers
  <2> QED BY <2>3, <2>4, <2>5, <2>6, <2>7, <2>8
<1>8. CASE ~moving
  <2>1. handled' = TRUE /\ UNCHANGED <<worldMutex, step>>
    BY <1>8 DEF EnteredRegion
  <2>2. \A e : Coming(e)' <=> Coming(e) /\ e # fired
    BY <1>1, <2>1, HandledFacts
  <2>3. TypeOK'
    BY <1>1, <1>6, <2>1, BrokerKeepsNext DEF TypeOK
  <2>4. Calls'
    BY <1>1, <1>4, <2>1 DEF Calls, CancelSteps, PublishSteps
  <2>5. Timers'
    BY <1>1, <1>3, <2>1 DEF Timers, Mapped
  <2>6. Ids'
    <3>1. movingEventId # NoEvent => Coming(movingEventId)'
      BY <1>1, <1>2, <2>2 DEF Ids
    <3>2. regionEventId' # NoEvent => Coming(regionEventId)'
      BY <1>1, <1>6, <2>2 DEF Ids
    <3> QED BY <1>1, <1>6, <2>1, <3>1, <3>2 DEF Ids
  <2>7. Destinations'
    BY <1>1, <2>1 DEF Destinations
  <2>8. OwnTimers'
    BY <1>1, <1>5, <2>2 DEF OwnTimers
  <2> QED BY <2>3, <2>4, <2>5, <2>6, <2>7, <2>8
<1> QED BY <1>7, <1>8

-----------------------------------------------------------------------------
(* The theorems.                                                           *)

LEMMA InitInv == Init => IndInv
<1> SUFFICES ASSUME Init PROVE IndInv
  OBVIOUS
<1>1. Delayed!Init
  BY DEF Init, Broker!Init, Delayed!Init, Delayed!Threads, Broker!Threads
<1>2. Delayed!DelayedInv
  BY <1>1, Instance, Delayed!InitInv
<1>3. Broker!TypeOK
  BY <1>2, BrokerKeeps
<1>4. /\ timers = {} /\ pc = [t \in Threads |-> "idle"] /\ firing = "waiting"
  BY DEF Init, Broker!Init, Threads
<1>5. TypeOK
  BY <1>3 DEF Init, TypeOK, Steps, Arrive, OpKinds
<1>6. Calls /\ Timers /\ Ids
  BY <1>4, Ranges DEF Init, Calls, Timers, Ids, CancelSteps, PublishSteps
<1>7. Destinations /\ OwnTimers
  BY <1>4 DEF Init, Destinations, OwnTimers, Coming, Arrive
<1> QED BY <1>2, <1>5, <1>6, <1>7 DEF IndInv

LEMMA NextKeepsInv == IndInv /\ [Next]_vars => IndInv'
<1> SUFFICES ASSUME IndInv, [Next]_vars PROVE IndInv'
  OBVIOUS
<1>1. Delayed!DelayedInv'
  BY Instance, BrokerStepRefines, SameBroker, Delayed!NextKeepsInv DEF IndInv
<1>2. CASE UNCHANGED vars
  BY <1>1, <1>2 DEF IndInv, vars, broker, control, timed, motion, place, ids, TypeOK,
     Broker!TypeOK, Calls, Timers, Ids, Destinations, OwnTimers, Mapped, Coming, Subject
<1>3. ASSUME NEW th \in Clients, Packet(th) PROVE IndInv'
  BY <1>1, <1>3, PacketKeeps
<1>4. ASSUME NEW th \in Threads, HandlerStep(th) PROVE IndInv'
  BY <1>1, <1>4, CancelMovingEventStep, MovingEventCancelledStep, CancelRegionEventStep,
     RegionEventCancelledStep, StoppedStep, StartMovingToDestinationStep,
     StartMovingTowardAngleStep, MovementTimerPublishedStep, CheckIfWillLeaveRegionStep,
     RegionEventPublishedStep, PublishStep DEF HandlerStep, PublishMovementTimerEnded
<1>5. ASSUME NEW th \in Threads, BrokerStep(th) PROVE IndInv'
  BY <1>1, <1>5, RegisterTimerStep, AddTimerIdMappingStep, CancelTimerStep,
     RemoveTimerIdMappingStep DEF BrokerStep, Broker!Continue
<1>6. CASE TimerFires \/ DelayedTimerFinished \/ HandlersReturn
  BY <1>1, <1>6, TimerFiresStep, DelayedTimerFinishedStep, HandlersReturnStep
<1>7. CASE MovementTimerCompleted \/ EnteredRegion
  BY <1>1, <1>7, MovementTimerCompletedStep, EnteredRegionStep
<1> QED BY <1>2, <1>3, <1>4, <1>5, <1>6, <1>7 DEF Next

LEMMA Invariance == Spec => []IndInv
BY InitInv, NextKeepsInv, PTL DEF Spec

(* An entity never keeps the id of an event that is over, so that          *)
(* cancelMovement does not throw on an event that has long been handled    *)
(* (mobileEntity.cpp:249-255, self.cpp:218-226).                           *)
THEOREM IdsAreOfComingEventsAlways == Spec => []IdsAreOfComingEvents
<1>1. IndInv => IdsAreOfComingEvents
  BY DEF IndInv, IdsAreOfComingEvents, Ids, TypeOK
<1> QED BY Invariance, <1>1, PTL

(* A movement timer whose handler is about to run finds its own movement,  *)
(* unless a cancellation came too late and was not noticed                 *)
(* (mobileEntity.cpp:249-251): no other path leaves a timer behind.        *)
THEOREM OwnMovementUnlessMissedAlways == Spec => []OwnMovementUnlessMissed
<1>1. IndInv => OwnMovementUnlessMissed
  <2> SUFFICES ASSUME IndInv, worldMutex = Nobody, Handling("movementTimerEnded")
               PROVE  movingEventId = fired \/ missed # {}
    BY DEF OwnMovementUnlessMissed
  <2>1. fired \in EventId /\ Coming(fired) /\ about[fired] = "movementTimerEnded"
    BY BrokerKeeps DEF IndInv, Timers, BrokerFacts, Handling, Coming
  <2>2. step = "none" /\ worldMutex # TimerThread
    BY Ranges DEF IndInv, TypeOK
  <2> QED BY <2>1, <2>2 DEF IndInv, OwnTimers
<1> QED BY Invariance, <1>1, PTL

(* An entity that moves to a place is moving and has a timer to come that  *)
(* ends this movement, whichever packets and timers crossed before.  An    *)
(* entity that sits has no speed, and an order to it throws between        *)
(* setting moving_ and starting the timer (mobileEntity.cpp:371-379).      *)
THEOREM ConsistentAlways ==
  ASSUME "sit" \notin MotionStates
  PROVE  Spec => []Consistent
<1>1. IndInv => Consistent
  <2> SUFFICES ASSUME IndInv PROVE Consistent
    OBVIOUS
  <2>1. IdsAreOfComingEvents
    BY DEF IndInv, IdsAreOfComingEvents, Ids, TypeOK
  <2>2. MovementIsTimed
    BY DEF IndInv, MovementIsTimed, Ids, Destinations, TypeOK
  <2> QED BY <2>1, <2>2 DEF Consistent, IndInv
<1> QED BY Invariance, <1>1, PTL

(* The movement calls the broker as DelayedEvents allows: one call at a    *)
(* time on each thread, on the timer thread only from its handlers, and    *)
(* cancellations only of ids that publishDelayedEvent returned.            *)
THEOREM UsesBroker == Spec => Broker!Spec
<1>1. Init => Broker!Init
  BY DEF Init
<1>2. IndInv /\ [Next]_vars => [Broker!Next]_(Broker!vars)
  BY BrokerStepRefines
<1> QED BY Invariance, <1>1, <1>2, PTL DEF Spec, Broker!Spec
HIDE EntityMovementAssumption



-----------------------------------------------------------------------------
(* What is said of a sequence: that one of its elements is in A, that all   *)
(* are, that at most one is, that after one in A there are only elements of *)
(* B, that after each one in A there is one in B.                          *)

Holds(s, A) == \E i \in DOMAIN s : s[i] \in A
Within(s, A) == \A i \in DOMAIN s : s[i] \in A
OnceIn(s, A) == \A i, j \in DOMAIN s : s[i] \in A /\ s[j] \in A => i = j
OnlyAfter(s, A, B) == \A i, j \in DOMAIN s : i < j /\ s[i] \in A => s[j] \in B
Followed(s, A, B) == \A i \in DOMAIN s : s[i] \in A => \E j \in DOMAIN s : i < j /\ s[j] \in B

-----------------------------------------------------------------------------
(* The inductive invariant.  Its parts speak of the character c, the        *)
(* machine m at step s, the requests q and the events v.                   *)

Names == Slots \cup Spots \cup Kinds \cup Buffs \cup MoveLeaves
         \cup {"none", "make", "invisible", "doesNotExist", "waitForReuseDelay"}
Ops == MoveLeaves \cup {"dispel", "walk", "make", "pick", "use", "enable", "invisible"}
EventKinds ==
  {"moved", "moveFailed", "buffRemoved", "began", "ended", "operatorSuccess", "operatorError",
   "spawned", "despawned", "arrived", "commandError", "used", "useFailed", "countdown",
   "pvpSuccess", "bodyState", "cooldownEnded", "timeout", "potionTimeout", "other"}
RequestSet == [op : Ops, what : Names, item : Nat]
EventSet == [kind : EventKinds, what : Names, item : Nat]
Machines ==
  [step : Range(Sequence), leaf : Leaves, what : Names, item : Nat, wants : Seq(Kinds),
   uses : Seq(Used), timer : BOOLEAN, potion : BOOLEAN, tries : Nat, gone : BOOLEAN,
   got : BOOLEAN]
Op(o) == {r \in RequestSet : r.op = o}
OpOf(o, x) == {r \in RequestSet : r.op = o /\ r.what = x}
Ev(k) == {e \in EventSet : e.kind = k}
EvOf(k, x) == {e \in EventSet : e.kind = k /\ e.what = x}
EvItem(k, i) == {e \in EventSet : e.kind = k /\ e.item = i}

PastCooldowns == {"ready"}
PastAppear == {"cooldowns"} \cup PastCooldowns
PastEquip  == {"appear"} \cup PastAppear
PastPvp    == {"equip"} \cup PastEquip
PastRepair == {"pvp"} \cup PastPvp
PastItems  == {"repair"} \cup PastRepair
PastVitals == {"items"} \cup PastItems
PastWalk   == {"vitals"} \cup PastVitals
PastDispel == {"walk"} \cup PastWalk
PastHat    == {"dispel"} \cup PastDispel

LeafOf == {<<"hat", "unequip">>, <<"hat", "shift">>, <<"dispel", "dispel">>, <<"walk", "walk">>,
           <<"vitals", "rest">>, <<"pvp", "enable">>, <<"pvp", "countdown">>,
           <<"equip", "equip">>, <<"appear", "toggle">>, <<"appear", "appear">>,
           <<"cooldowns", "cooldowns">>, <<"ready", "none">>}
          \cup ({"vitals", "repair"} \X {"use"})
          \cup ({"vitals", "items", "repair"}
                \X {"spawn", "pick", "return", "nudge", "nudgeBack"})

(* The requests and the events that there can be.                          *)
Legal(made_) ==
  {r \in RequestSet :
     /\ r.op = "make" => r.what \in Kinds
     /\ r.op = "use" => r.what \in Used
     /\ r.op = "walk" => r.what \in {"pvp", "away"}
     /\ r.op = "pick" => r.item \in DOMAIN made_}
Told(c, made_, ground_) ==
  {e \in EventSet :
     /\ e.kind \in {"ended", "pvpSuccess", "bodyState"} => e.what = "none"
     /\ e.kind = "spawned" => e.item \in DOMAIN made_
     /\ e.kind = "despawned" => e.item \in DOMAIN made_ \ ground_
     /\ e.kind = "pvpSuccess" => c.mode = "yellow"
     /\ e.kind = "used" /\ e.what = "hammer" => ~c.broken}

(* What the steps before s have seen to.                                   *)
Attained(c, s, d) ==
  /\ s \in PastDispel => c.buffs = {}
  /\ s \in PastVitals => c.ailments = {}
  /\ s \in PastItems => Potions \subseteq c.bag
  /\ s \in PastRepair => ~c.broken \/ "use" \in d
  /\ s \in PastPvp => c.mode = "yellow"
  /\ s \in PastEquip => c.hat = "avatar"
  /\ s \in PastAppear => c.visible \/ "toggle" \in d
  /\ s \in PastCooldowns => c.cooling = {}

(* Requests are served in the order in which they are sent: once the        *)
(* avatar is back, there are none left that could undo anything.           *)
Closing == Op("equip") \cup Op("invisible")
Equipped == EvOf("moved", "equip")
Dressing(c, s, q, v) ==
  /\ OnlyAfter(q, Op("equip"), Closing)
  /\ s \in PastPvp \/ (~Holds(q, Op("equip")) /\ ~Holds(v, Equipped))
  /\ Holds(v, Equipped) \/ s \in PastEquip => c.hat = "avatar" /\ Within(q, Closing)

(* Something has changed, or its change is announced.                      *)
Changed == EvOf("bodyState", "none") \cup EvOf("operatorSuccess", "invisible")
Shown(c, s, q, v, d) ==
  "toggle" \notin d =>
    /\ OnceIn(q, Op("invisible"))
    /\ Holds(v, Changed) => c.visible /\ s \in PastPvp \ {"equip"}
Announced(c, v) ==
  /\ c.mode = "counting" \/ Followed(v, Ev("countdown"), EvOf("pvpSuccess", "none"))
  /\ c.going # "nowhere" \/ Followed(v, Ev("began"), EvOf("ended", "none"))

(* The character is on the spot, and nothing on its way moves it.          *)
Homeward == {r \in RequestSet : r.op = "walk" => r.what = "pvp"}
NotTo(x) == RequestSet \ OpOf("walk", x)
Still(c, s, q) ==
  /\ c.going = "nowhere"
  /\ IF s \in PastWalk THEN c.spot = "pvp" /\ Within(q, Homeward)
     ELSE ~Holds(q, Op("walk")) /\ ~Holds(q, Op("pick"))

Common(c, s, q, v, d, made_, ground_) ==
  /\ c \in Character /\ made_ \in Seq(Kinds) /\ ground_ \subseteq DOMAIN made_
  /\ s \in Range(Sequence) /\ q \in Seq(RequestSet) /\ v \in Seq(EventSet)
  /\ Within(q, Legal(made_)) /\ Within(v, Told(c, made_, ground_))
  /\ Attained(c, s, d) /\ Dressing(c, s, q, v) /\ Shown(c, s, q, v, d) /\ Announced(c, v)

(* The part of each leaf, and what holds while another one is active.      *)
Walking(c, m, q) ==
  CASE m.leaf \in {"walk", "return", "pick"} ->
         /\ c.going \in {"nowhere", "pvp"} /\ Within(q, Homeward)
         /\ c.spot = "pvp" => c.going = "nowhere"
    [] m.leaf = "nudge" ->
         /\ c.going \in {"nowhere", "away"} /\ c.spot \in {"pvp", "away"}
         /\ OnlyAfter(q, OpOf("walk", "away"), NotTo("pvp"))
         /\ c.spot = "away" \/ c.going = "away" => ~Holds(q, OpOf("walk", "pvp"))
    [] m.leaf = "nudgeBack" ->
         /\ c.going \in {"nowhere", "pvp"} /\ c.spot \in {"pvp", "away"}
         /\ OnlyAfter(q, OpOf("walk", "pvp"), NotTo("away"))
         /\ c.spot = "pvp" \/ c.going = "pvp" => Within(q, Homeward)
         /\ c.spot = "pvp" => c.going = "nowhere"
    [] OTHER -> Still(c, m.step, q)

PicksOf(i, ground_) == {r \in RequestSet : r.op = "pick" => r.item = i \/ r.item \notin ground_}
PicksOver(ground_) == {r \in RequestSet : r.op = "pick" => r.item \notin ground_}
Picking(m, q, v, made_, ground_, robbed_) ==
  IF m.leaf = "pick"
  THEN /\ m.item \in DOMAIN made_ /\ made_[m.item] = m.what
       /\ ~(m.gone /\ m.got) /\ (m.timer \/ m.gone \/ m.got)
       /\ m.gone => m.item \notin ground_
       /\ Within(q, PicksOf(m.item, ground_))
       /\ ~robbed_ =>
            /\ OnceIn(v, Ev("arrived"))
            /\ Holds(v, Ev("arrived")) => m.item \notin ground_ /\ ~m.got
            /\ IF m.item \in ground_ THEN ~m.gone /\ ~m.got
               ELSE /\ m.gone \/ Holds(v, EvItem("despawned", m.item))
                    /\ m.got \/ Holds(v, EvOf("arrived", m.what))
  ELSE /\ Within(q, PicksOver(ground_))
       /\ ~robbed_ => ~Holds(v, Ev("arrived"))

Answered == Ev("used") \cup Ev("useFailed")
Hammering == {r \in RequestSet : r.op = "use" => r.what = "hammer"}
InUse(q, v) == Holds(q, Op("use")) \/ Holds(v, Answered)
Using(c, m, q, v, d) ==
  /\ m.leaf = "use" => m.what \in Used /\ (m.step = "repair" => m.what = "hammer")
  /\ "use" \notin d =>
       IF m.leaf = "use"
       THEN /\ OnceIn(q, Op("use")) /\ OnceIn(v, Answered)
            /\ ~(Holds(q, Op("use")) /\ Holds(v, Answered))
            /\ InUse(q, v) => m.timer
            /\ m.step = "repair" =>
                 /\ "hammer" \in c.bag \/ Holds(v, EvOf("used", "hammer"))
                 /\ Within(q, Hammering)
                 /\ ~Holds(v, EvOf("useFailed", "doesNotExist"))
       ELSE ~InUse(q, v)

(* What a machine has yet to make and to use.                              *)
Stocked(c, m, d) ==
  /\ m.step = "vitals" /\ m.leaf # "rest" => m.uses # <<>>
  /\ m.step = "items" => Potions \subseteq c.bag \cup Range(m.wants)
  /\ m.step = "repair" /\ m.leaf # "use" /\ "use" \notin d =>
       "hammer" \in c.bag \cup Range(m.wants)

Toggling(c, m, q, v, d) ==
  "toggle" \notin d =>
    /\ Holds(q, Op("invisible")) => m.leaf = "toggle" /\ ~c.visible
    /\ m.step = "appear" => IF c.visible THEN Holds(v, EvOf("bodyState", "none")) ELSE m.leaf = "toggle"

(* Without a timer a machine waits for something that comes.               *)
Waiting(c, m, v) ==
  /\ m.leaf \in {"spawn", "enable", "toggle"} => m.timer
  /\ m.leaf \in WalkLeaves => m.timer \/ c.going # "nowhere" \/ Holds(v, EvOf("ended", "none"))
  /\ m.leaf = "dispel" =>
       m.timer \/ (m.what = "none" /\ (c.buffs # {} \/ \E b \in Buffs : Holds(v, EvOf("buffRemoved", b))))
  /\ m.leaf = "countdown" => c.mode = "counting" \/ Holds(v, EvOf("pvpSuccess", "none"))
  /\ m.leaf = "cooldowns" =>
       c.cooling # {} \/ \E k \in Kinds : Holds(v, EvOf("cooldownEnded", k))

Fits(c, m, q, v, d, made_, ground_, robbed_) ==
  /\ m \in Machines /\ <<m.step, m.leaf>> \in LeafOf
  /\ Common(c, m.step, q, v, d, made_, ground_)
  /\ Walking(c, m, q) /\ Picking(m, q, v, made_, ground_, robbed_) /\ Using(c, m, q, v, d)
  /\ Stocked(c, m, d) /\ Toggling(c, m, q, v, d) /\ Waiting(c, m, v)

(* No leaf is active that waits for an answer: what a new one begins with.  *)
Idle(c, s, q, v, d, made_, ground_, robbed_) ==
  /\ Common(c, s, q, v, d, made_, ground_) /\ Still(c, s, q)
  /\ Within(q, PicksOver(ground_))
  /\ ~robbed_ => ~Holds(v, Ev("arrived"))
  /\ "use" \notin d => ~InUse(q, v)
  /\ "toggle" \notin d => ~Holds(q, Op("invisible"))

Timeouts == Ev("timeout") \cup Ev("potionTimeout")
PreparationInv ==
  /\ Fits(me, machine, requests, events, doubled, made, ground, robbed)
  /\ machine.leaf = "rest" => machine.potion
  /\ ~Holds(events, Timeouts) /\ robbed \in BOOLEAN /\ doubled \subseteq Leaves

-----------------------------------------------------------------------------
(* What is said of a sequence, of its head and its tail, and with one more. *)

LEMMA Ends ==
  ASSUME NEW S, NEW s \in Seq(S), s # <<>>
  PROVE  /\ Head(s) = s[1] /\ Head(s) \in S /\ 1 \in DOMAIN s /\ Tail(s) \in Seq(S)
         /\ \A i \in DOMAIN Tail(s) : i + 1 \in DOMAIN s /\ Tail(s)[i] = s[i + 1]
         /\ \A i \in DOMAIN s : i = 1 \/ (i - 1 \in DOMAIN Tail(s) /\ s[i] = Tail(s)[i - 1])
         /\ \A i \in DOMAIN Tail(s) : i \in Nat /\ i > 0
         /\ \A i \in DOMAIN s : i \in Nat /\ i > 0
  OBVIOUS

LEMMA Longer ==
  ASSUME NEW S, NEW s \in Seq(S), NEW x \in S
  PROVE  /\ s \o <<x>> \in Seq(S)
         /\ \A i \in DOMAIN s : i \in DOMAIN (s \o <<x>>) /\ (s \o <<x>>)[i] = s[i]
                                /\ i < Len(s) + 1 /\ i \in Nat
         /\ Len(s) + 1 \in DOMAIN (s \o <<x>>) /\ (s \o <<x>>)[Len(s) + 1] = x
         /\ \A i \in DOMAIN (s \o <<x>>) : i \in DOMAIN s \/ i = Len(s) + 1
         /\ Len(s) \in Nat
  OBVIOUS

LEMMA HeadTail ==
  ASSUME NEW S, NEW s \in Seq(S), s # <<>>, NEW A, NEW B
  PROVE  /\ Holds(s, A) <=> (Head(s) \in A \/ Holds(Tail(s), A))
         /\ Within(s, A) <=> (Head(s) \in A /\ Within(Tail(s), A))
         /\ OnceIn(s, A) <=> (OnceIn(Tail(s), A) /\ (Head(s) \in A => ~Holds(Tail(s), A)))
         /\ OnlyAfter(s, A, B) <=> (OnlyAfter(Tail(s), A, B) /\ (Head(s) \in A => Within(Tail(s), B)))
         /\ Followed(s, A, B) <=> (Followed(Tail(s), A, B) /\ (Head(s) \in A => Holds(Tail(s), B)))
<1> DEFINE t == Tail(s)
<1>1. /\ Head(s) = s[1] /\ 1 \in DOMAIN s
      /\ \A i \in DOMAIN t : i + 1 \in DOMAIN s /\ t[i] = s[i + 1] /\ i \in Nat /\ i > 0
      /\ \A i \in DOMAIN s : i \in Nat /\ i > 0 /\ (i = 1 \/ (i - 1 \in DOMAIN t /\ s[i] = t[i - 1]))
  BY Ends
<1> HIDE DEF t
<1>2. Holds(s, A) <=> (Head(s) \in A \/ Holds(t, A))
  BY <1>1 DEF Holds
<1>3. Within(s, A) <=> (Head(s) \in A /\ Within(t, A))
  BY <1>1 DEF Within
<1>4. OnceIn(s, A) <=> (OnceIn(t, A) /\ (Head(s) \in A => ~Holds(t, A)))
  <2>1. ASSUME OnceIn(s, A) PROVE OnceIn(t, A) /\ (Head(s) \in A => ~Holds(t, A))
    <3>1. ASSUME NEW i \in DOMAIN t, NEW j \in DOMAIN t, t[i] \in A, t[j] \in A PROVE i = j
      BY <1>1, <2>1, <3>1 DEF OnceIn
    <3>2. ASSUME Head(s) \in A, NEW i \in DOMAIN t, t[i] \in A PROVE FALSE
      BY <1>1, <2>1, <3>2 DEF OnceIn
    <3> QED BY <3>1, <3>2 DEF OnceIn, Holds
  <2>2. ASSUME OnceIn(t, A), Head(s) \in A => ~Holds(t, A) PROVE OnceIn(s, A)
    <3> SUFFICES ASSUME NEW i \in DOMAIN s, NEW j \in DOMAIN s, s[i] \in A, s[j] \in A PROVE i = j
      BY DEF OnceIn
    <3>1. CASE i = 1 \/ j = 1
      BY <1>1, <2>2, <3>1 DEF Holds
    <3>2. CASE i # 1 /\ j # 1
      <4>1. i - 1 = j - 1
        BY <1>1, <2>2, <3>2 DEF OnceIn
      <4> QED BY <4>1, <1>1
    <3> QED BY <3>1, <3>2
  <2> QED BY <2>1, <2>2
<1>5. OnlyAfter(s, A, B) <=> (OnlyAfter(t, A, B) /\ (Head(s) \in A => Within(t, B)))
  <2>1. ASSUME OnlyAfter(s, A, B) PROVE OnlyAfter(t, A, B) /\ (Head(s) \in A => Within(t, B))
    <3>1. ASSUME NEW i \in DOMAIN t, NEW j \in DOMAIN t, i < j, t[i] \in A PROVE t[j] \in B
      BY <1>1, <2>1, <3>1 DEF OnlyAfter
    <3>2. ASSUME Head(s) \in A, NEW i \in DOMAIN t PROVE t[i] \in B
      BY <1>1, <2>1, <3>2 DEF OnlyAfter
    <3> QED BY <3>1, <3>2 DEF OnlyAfter, Within
  <2>2. ASSUME OnlyAfter(t, A, B), Head(s) \in A => Within(t, B) PROVE OnlyAfter(s, A, B)
    <3> SUFFICES ASSUME NEW i \in DOMAIN s, NEW j \in DOMAIN s, i < j, s[i] \in A PROVE s[j] \in B
      BY DEF OnlyAfter
    <3>1. j - 1 \in DOMAIN t /\ s[j] = t[j - 1]
      BY <1>1
    <3>2. CASE i = 1
      BY <1>1, <2>2, <3>1, <3>2 DEF Within
    <3>3. CASE i # 1
      <4>1. i - 1 \in DOMAIN t /\ s[i] = t[i - 1] /\ i - 1 < j - 1
        BY <1>1, <3>3
      <4> QED BY <4>1, <2>2, <3>1 DEF OnlyAfter
    <3> QED BY <3>2, <3>3
  <2> QED BY <2>1, <2>2
<1>6. Followed(s, A, B) <=> (Followed(t, A, B) /\ (Head(s) \in A => Holds(t, B)))
  <2>1. ASSUME Followed(s, A, B) PROVE Followed(t, A, B) /\ (Head(s) \in A => Holds(t, B))
    <3>1. ASSUME NEW i \in DOMAIN t, t[i] \in A PROVE \E j \in DOMAIN t : i < j /\ t[j] \in B
      <4>1. PICK k \in DOMAIN s : i + 1 < k /\ s[k] \in B
        BY <1>1, <2>1, <3>1 DEF Followed
      <4>2. k - 1 \in DOMAIN t /\ i < k - 1 /\ t[k - 1] \in B
        BY <4>1, <1>1
      <4> QED BY <4>2
    <3>2. ASSUME Head(s) \in A PROVE Holds(t, B)
      <4>1. PICK k \in DOMAIN s : 1 < k /\ s[k] \in B
        BY <1>1, <2>1, <3>2 DEF Followed
      <4>2. k - 1 \in DOMAIN t /\ t[k - 1] \in B
        BY <4>1, <1>1
      <4> QED BY <4>2 DEF Holds
    <3> QED BY <3>1, <3>2 DEF Followed
  <2>2. ASSUME Followed(t, A, B), Head(s) \in A => Holds(t, B) PROVE Followed(s, A, B)
    <3> SUFFICES ASSUME NEW i \in DOMAIN s, s[i] \in A
                 PROVE  \E j \in DOMAIN s : i < j /\ s[j] \in B
      BY DEF Followed
    <3>1. CASE i = 1
      <4>1. PICK k \in DOMAIN t : t[k] \in B
        BY <1>1, <2>2, <3>1 DEF Holds
      <4>2. k + 1 \in DOMAIN s /\ i < k + 1 /\ s[k + 1] \in B
        BY <4>1, <3>1, <1>1
      <4> QED BY <4>2
    <3>2. CASE i # 1
      <4>1. PICK k \in DOMAIN t : i - 1 < k /\ t[k] \in B
        BY <1>1, <2>2, <3>2 DEF Followed
      <4>2. k + 1 \in DOMAIN s /\ i < k + 1 /\ s[k + 1] \in B
        BY <4>1, <1>1
      <4> QED BY <4>2
    <3> QED BY <3>1, <3>2
  <2> QED BY <2>1, <2>2
<1> QED BY <1>2, <1>3, <1>4, <1>5, <1>6 DEF t

LEMMA OneMore ==
  ASSUME NEW S, NEW s \in Seq(S), NEW x \in S, NEW A, NEW B
  PROVE  /\ Holds(s \o <<x>>, A) <=> (Holds(s, A) \/ x \in A)
         /\ Within(s \o <<x>>, A) <=> (Within(s, A) /\ x \in A)
         /\ OnceIn(s \o <<x>>, A) <=> (OnceIn(s, A) /\ ~(Holds(s, A) /\ x \in A))
         /\ OnlyAfter(s \o <<x>>, A, B) <=> (OnlyAfter(s, A, B) /\ (Holds(s, A) => x \in B))
         /\ Followed(s \o <<x>>, A, B) <=> (x \notin A /\ (x \in B \/ Followed(s, A, B)))
<1> DEFINE t == s \o <<x>>
           n == Len(s) + 1
<1>1. /\ \A i \in DOMAIN s : i \in DOMAIN t /\ t[i] = s[i] /\ i < n /\ i \in Nat
      /\ n \in DOMAIN t /\ t[n] = x /\ n \in Nat
      /\ \A i \in DOMAIN t : i \in DOMAIN s \/ i = n
  BY Longer
<1> HIDE DEF t, n
<1>2. Holds(t, A) <=> (Holds(s, A) \/ x \in A)
  BY <1>1 DEF Holds
<1>3. Within(t, A) <=> (Within(s, A) /\ x \in A)
  BY <1>1 DEF Within
<1>4. OnceIn(t, A) <=> (OnceIn(s, A) /\ ~(Holds(s, A) /\ x \in A))
  <2>1. ASSUME OnceIn(t, A) PROVE OnceIn(s, A) /\ ~(Holds(s, A) /\ x \in A)
    <3>1. OnceIn(s, A)
      BY <1>1, <2>1 DEF OnceIn
    <3>2. ASSUME NEW i \in DOMAIN s, s[i] \in A, x \in A PROVE FALSE
      <4>1. i = n
        BY <1>1, <2>1, <3>2 DEF OnceIn
      <4> QED BY <4>1, <1>1
    <3> QED BY <3>1, <3>2 DEF Holds
  <2>2. ASSUME OnceIn(s, A), ~(Holds(s, A) /\ x \in A) PROVE OnceIn(t, A)
    BY <1>1, <2>2 DEF OnceIn, Holds
  <2> QED BY <2>1, <2>2
<1>5. OnlyAfter(t, A, B) <=> (OnlyAfter(s, A, B) /\ (Holds(s, A) => x \in B))
  <2>1. ASSUME OnlyAfter(t, A, B) PROVE OnlyAfter(s, A, B) /\ (Holds(s, A) => x \in B)
    BY <1>1, <2>1 DEF OnlyAfter, Holds
  <2>2. ASSUME OnlyAfter(s, A, B), Holds(s, A) => x \in B PROVE OnlyAfter(t, A, B)
    <3> SUFFICES ASSUME NEW i \in DOMAIN t, NEW j \in DOMAIN t, i < j, t[i] \in A PROVE t[j] \in B
      BY DEF OnlyAfter
    <3>1. i \in DOMAIN s
      BY <1>1
    <3> QED BY <3>1, <1>1, <2>2 DEF OnlyAfter, Holds
  <2> QED BY <2>1, <2>2
<1>6. Followed(t, A, B) <=> (x \notin A /\ (x \in B \/ Followed(s, A, B)))
  <2>1. ASSUME Followed(t, A, B) PROVE x \notin A /\ (x \in B \/ Followed(s, A, B))
    <3>1. ASSUME x \in A PROVE FALSE
      <4>1. PICK j \in DOMAIN t : n < j
        BY <1>1, <2>1, <3>1 DEF Followed
      <4> QED BY <4>1, <1>1
    <3>2. ASSUME x \notin B, NEW i \in DOMAIN s, s[i] \in A
          PROVE  \E j \in DOMAIN s : i < j /\ s[j] \in B
      <4>1. PICK j \in DOMAIN t : i < j /\ t[j] \in B
        BY <1>1, <2>1, <3>2 DEF Followed
      <4> QED BY <4>1, <3>2, <1>1
    <3> QED BY <3>1, <3>2 DEF Followed
  <2>2. ASSUME x \notin A, x \in B \/ Followed(s, A, B) PROVE Followed(t, A, B)
    <3> SUFFICES ASSUME NEW i \in DOMAIN t, t[i] \in A
                 PROVE  \E j \in DOMAIN t : i < j /\ t[j] \in B
      BY DEF Followed
    <3>1. i \in DOMAIN s /\ s[i] \in A
      BY <1>1, <2>2
    <3> QED BY <3>1, <1>1, <2>2 DEF Followed
  <2> QED BY <2>1, <2>2
<1> QED BY <1>2, <1>3, <1>4, <1>5, <1>6 DEF t

LEMMA None ==
  ASSUME NEW A, NEW B
  PROVE  /\ ~Holds(<<>>, A) /\ Within(<<>>, A) /\ OnceIn(<<>>, A)
         /\ OnlyAfter(<<>>, A, B) /\ Followed(<<>>, A, B)
  BY DEF Holds, Within, OnceIn, OnlyAfter, Followed

(* What follows from what.                                                 *)
LEMMA Subsets ==
  ASSUME NEW s, NEW A, NEW B
  PROVE  /\ A \subseteq B /\ Holds(s, A) => Holds(s, B)
         /\ A \subseteq B /\ Within(s, A) => Within(s, B)
         /\ Holds(s, A \cup B) <=> (Holds(s, A) \/ Holds(s, B))
         /\ A \cap B = {} /\ Within(s, A) => ~Holds(s, B)
  BY DEF Holds, Within

LEMMA More ==
  ASSUME NEW s, NEW A, NEW B
  PROVE  /\ ~Holds(s, A) => OnceIn(s, A) /\ OnlyAfter(s, A, B) /\ Followed(s, A, B)
         /\ Within(s, B) => OnlyAfter(s, A, B)
  BY DEF Holds, Within, OnceIn, OnlyAfter, Followed

(* An event that is handled, and what is left.                             *)
LEMMA Front ==
  ASSUME NEW e \in EventSet, NEW v \in Seq(EventSet)
  PROVE  /\ <<e>> \o v \in Seq(EventSet)
         /\ \A A : Holds(<<e>> \o v, A) <=> (e \in A \/ Holds(v, A))
         /\ \A A : Within(<<e>> \o v, A) <=> (e \in A /\ Within(v, A))
         /\ \A A : OnceIn(<<e>> \o v, A) <=> (OnceIn(v, A) /\ (e \in A => ~Holds(v, A)))
         /\ \A A, B : Followed(<<e>> \o v, A, B) <=> (Followed(v, A, B) /\ (e \in A => Holds(v, B)))
<1> DEFINE w == <<e>> \o v
<1>1. w \in Seq(EventSet) /\ w # <<>> /\ Head(w) = e
  OBVIOUS
<1>2. Tail(w) = v
  OBVIOUS
<1> HIDE DEF w
<1>3. ASSUME NEW A, NEW B
      PROVE  /\ Holds(w, A) <=> (Head(w) \in A \/ Holds(Tail(w), A))
             /\ Within(w, A) <=> (Head(w) \in A /\ Within(Tail(w), A))
             /\ OnceIn(w, A) <=> (OnceIn(Tail(w), A) /\ (Head(w) \in A => ~Holds(Tail(w), A)))
             /\ Followed(w, A, B) <=> (Followed(Tail(w), A, B) /\ (Head(w) \in A => Holds(Tail(w), B)))
  BY <1>1, HeadTail
<1>4. ASSUME NEW A, NEW B
      PROVE  /\ Holds(w, A) <=> (e \in A \/ Holds(v, A))
             /\ Within(w, A) <=> (e \in A /\ Within(v, A))
             /\ OnceIn(w, A) <=> (OnceIn(v, A) /\ (e \in A => ~Holds(v, A)))
             /\ Followed(w, A, B) <=> (Followed(v, A, B) /\ (e \in A => Holds(v, B)))
  BY <1>1, <1>2, <1>3
<1> QED BY <1>1, <1>4 DEF w

(* A request that is sent.                                                 *)
LEMMA SentOne ==
  ASSUME NEW q \in Seq(RequestSet), NEW r \in RequestSet
  PROVE  /\ q \o <<r>> \in Seq(RequestSet)
         /\ \A A : Holds(q \o <<r>>, A) <=> (Holds(q, A) \/ r \in A)
         /\ \A A : Within(q \o <<r>>, A) <=> (Within(q, A) /\ r \in A)
         /\ \A A : OnceIn(q \o <<r>>, A) <=> (OnceIn(q, A) /\ ~(Holds(q, A) /\ r \in A))
         /\ \A A, B : OnlyAfter(q \o <<r>>, A, B) <=> (OnlyAfter(q, A, B) /\ (Holds(q, A) => r \in B))
<1>1. q \o <<r>> \in Seq(RequestSet)
  OBVIOUS
<1>2. ASSUME NEW A, NEW B
      PROVE  /\ Holds(q \o <<r>>, A) <=> (Holds(q, A) \/ r \in A)
             /\ Within(q \o <<r>>, A) <=> (Within(q, A) /\ r \in A)
             /\ OnceIn(q \o <<r>>, A) <=> (OnceIn(q, A) /\ ~(Holds(q, A) /\ r \in A))
             /\ OnlyAfter(q \o <<r>>, A, B) <=> (OnlyAfter(q, A, B) /\ (Holds(q, A) => r \in B))
             /\ Followed(q \o <<r>>, A, B) <=> (r \notin A /\ (r \in B \/ Followed(q, A, B)))
  BY OneMore
<1> QED BY <1>1, <1>2

(* What the sets of requests and events are.                               *)
LEMMA Sorts ==
  /\ \A r \in RequestSet :
       /\ \A o : r \in Op(o) <=> r.op = o
       /\ \A o, x : r \in OpOf(o, x) <=> (r.op = o /\ r.what = x)
       /\ r \in Closing <=> r.op \in {"equip", "invisible"}
       /\ r \in Homeward <=> (r.op = "walk" => r.what = "pvp")
       /\ \A x : r \in NotTo(x) <=> ~(r.op = "walk" /\ r.what = x)
       /\ \A g : r \in PicksOver(g) <=> (r.op = "pick" => r.item \notin g)
       /\ \A i, g : r \in PicksOf(i, g) <=> (r.op = "pick" => r.item = i \/ r.item \notin g)
       /\ r \in Hammering <=> (r.op = "use" => r.what = "hammer")
  /\ \A e \in EventSet :
       /\ \A k : e \in Ev(k) <=> e.kind = k
       /\ \A k, x : e \in EvOf(k, x) <=> (e.kind = k /\ e.what = x)
       /\ \A k, i : e \in EvItem(k, i) <=> (e.kind = k /\ e.item = i)
       /\ e \in Equipped <=> (e.kind = "moved" /\ e.what = "equip")
       /\ e \in Changed <=> ((e.kind = "bodyState" /\ e.what = "none")
                               \/ (e.kind = "operatorSuccess" /\ e.what = "invisible"))
       /\ e \in Answered <=> e.kind \in {"used", "useFailed"}
  BY DEF Op, OpOf, Closing, Homeward, NotTo, PicksOver, PicksOf, Hammering, Ev, EvOf, EvItem,
         Equipped, Changed, Answered

LEMMA Narrower ==
  /\ \A s, k, x : Holds(s, EvOf(k, x)) => Holds(s, Ev(k))
  /\ \A s, k, x : k \in {"used", "useFailed"} /\ Holds(s, EvOf(k, x)) => Holds(s, Answered)
  /\ \A s \in Seq(RequestSet) : ~Holds(s, Op("walk")) => Within(s, Homeward)
  /\ \A s \in Seq(RequestSet) : ~Holds(s, Op("use")) => Within(s, Hammering)
  /\ \A s \in Seq(RequestSet) : \A x : Within(s, Homeward) /\ x # "pvp" => ~Holds(s, OpOf("walk", x))
  /\ \A s \in Seq(RequestSet) : \A i, g : Within(s, PicksOver(g)) => Within(s, PicksOf(i, g))
  /\ \A s \in Seq(RequestSet) : \A i, g : Within(s, PicksOf(i, g)) /\ i \notin g => Within(s, PicksOver(g))
  /\ \A s \in Seq(RequestSet) : \A g : ~Holds(s, Op("pick")) => Within(s, PicksOver(g))
  /\ \A s \in Seq(RequestSet) : ~Holds(s, Op("equip")) /\ ~Holds(s, Op("invisible"))
                                  /\ s = <<>> => Within(s, Closing)
<1>1. \A s, k, x : Holds(s, EvOf(k, x)) => Holds(s, Ev(k))
  BY DEF Holds, EvOf, Ev
<1>2. \A s, k, x : k \in {"used", "useFailed"} /\ Holds(s, EvOf(k, x)) => Holds(s, Answered)
  BY DEF Holds, EvOf, Ev, Answered
<1>3. ASSUME NEW s \in Seq(RequestSet) PROVE \A i \in DOMAIN s : s[i] \in RequestSet
  OBVIOUS
<1>4. \A s \in Seq(RequestSet) : ~Holds(s, Op("walk")) => Within(s, Homeward)
  BY <1>3, Sorts DEF Holds, Within
<1>5. \A s \in Seq(RequestSet) : ~Holds(s, Op("use")) => Within(s, Hammering)
  BY <1>3, Sorts DEF Holds, Within
<1>6. \A s \in Seq(RequestSet) : \A x : Within(s, Homeward) /\ x # "pvp" => ~Holds(s, OpOf("walk", x))
  BY <1>3 DEF Holds, Within, Homeward, OpOf
<1>7. \A s \in Seq(RequestSet) : \A i, g : Within(s, PicksOver(g)) => Within(s, PicksOf(i, g))
  BY <1>3 DEF Within, PicksOf, PicksOver
<1>8. \A s \in Seq(RequestSet) : \A i, g :
        Within(s, PicksOf(i, g)) /\ i \notin g => Within(s, PicksOver(g))
  BY <1>3 DEF Within, PicksOf, PicksOver
<1>9. \A s \in Seq(RequestSet) : \A g : ~Holds(s, Op("pick")) => Within(s, PicksOver(g))
  BY <1>3, Sorts DEF Holds, Within
<1> QED BY <1>1, <1>2, <1>4, <1>5, <1>6, <1>7, <1>8, <1>9, None

-----------------------------------------------------------------------------
(* The machines' fields, and the packets sent.                             *)

LEMMA LeafSteps ==
  ASSUME NEW s, NEW l
  PROVE  <<s, l>> \in LeafOf <=>
           \/ s = "hat" /\ l \in {"unequip", "shift"}
           \/ s = "dispel" /\ l = "dispel"
           \/ s = "walk" /\ l = "walk"
           \/ s = "vitals" /\ l \in {"rest", "use", "spawn", "pick", "return", "nudge", "nudgeBack"}
           \/ s = "items" /\ l \in {"spawn", "pick", "return", "nudge", "nudgeBack"}
           \/ s = "repair" /\ l \in {"use", "spawn", "pick", "return", "nudge", "nudgeBack"}
           \/ s = "pvp" /\ l \in {"enable", "countdown"}
           \/ s = "equip" /\ l = "equip"
           \/ s = "appear" /\ l \in {"toggle", "appear"}
           \/ s = "cooldowns" /\ l = "cooldowns"
           \/ s = "ready" /\ l = "none"
  BY DEF LeafOf

LEMMA Texts ==
  /\ Potions \subseteq Kinds /\ Used \subseteq Kinds
  /\ Kinds \subseteq Names /\ Slots \subseteq Names /\ Spots \subseteq Names /\ Buffs \subseteq Names
  /\ MoveLeaves \subseteq Names /\ "none" \in Names /\ "make" \in Names /\ "invisible" \in Names
  /\ "doesNotExist" \in Names /\ "waitForReuseDelay" \in Names
  /\ Requirements \in Seq(Kinds) /\ Range(Requirements) = Potions
<1>1. Potions \subseteq Kinds /\ Used \subseteq Kinds
  BY DEF Kinds
<1>2. Requirements \in Seq(Kinds)
  <2>1. Requirements \in Seq(STRING) /\ \A i \in DOMAIN Requirements : Requirements[i] \in Kinds
    BY <1>1, PreparationAssumption DEF Potions, Range
  <2> QED BY <2>1
<1>3. Range(Requirements) = Potions
  BY DEF Potions
<1> QED BY <1>1, <1>2, <1>3 DEF Names

LEMMA LeafFields ==
  ASSUME NEW m \in Machines, NEW l \in Leaves, NEW x \in Names
  PROVE  /\ Leaf(m, l, x) \in Machines /\ Leaf(m, l, x).step = m.step
         /\ Leaf(m, l, x).leaf = l /\ Leaf(m, l, x).what = x /\ Leaf(m, l, x).item = 0
         /\ Leaf(m, l, x).wants = m.wants /\ Leaf(m, l, x).uses = m.uses
         /\ Leaf(m, l, x).timer = FALSE /\ Leaf(m, l, x).potion = m.potion
         /\ Leaf(m, l, x).tries = m.tries /\ Leaf(m, l, x).gone = FALSE
         /\ Leaf(m, l, x).got = FALSE
  BY DEF Leaf, Quiet, Machines

LEMMA LeafIs ==
  \A m \in Machines, l \in Leaves, x \in Names :
    /\ Leaf(m, l, x) \in Machines /\ Leaf(m, l, x).step = m.step
    /\ Leaf(m, l, x).leaf = l /\ Leaf(m, l, x).what = x /\ Leaf(m, l, x).item = 0
    /\ Leaf(m, l, x).wants = m.wants /\ Leaf(m, l, x).uses = m.uses
    /\ Leaf(m, l, x).timer = FALSE /\ Leaf(m, l, x).potion = m.potion
    /\ Leaf(m, l, x).tries = m.tries /\ Leaf(m, l, x).gone = FALSE
    /\ Leaf(m, l, x).got = FALSE
  BY LeafFields

LEMMA QuietFields ==
  ASSUME NEW m \in Machines
  PROVE  /\ Quiet(m) \in Machines /\ Quiet(m).step = m.step
         /\ Quiet(m).leaf = m.leaf /\ Quiet(m).what = m.what /\ Quiet(m).item = m.item
         /\ Quiet(m).wants = m.wants /\ Quiet(m).uses = m.uses
         /\ Quiet(m).timer = FALSE /\ Quiet(m).potion = m.potion
         /\ Quiet(m).tries = m.tries /\ Quiet(m).gone = m.gone
         /\ Quiet(m).got = m.got
  BY DEF Quiet, Machines

Sent(m, r) == [m |-> [m EXCEPT !.timer = TRUE], sent |-> <<r>>]

LEMMA SendFields ==
  ASSUME NEW m \in Machines, NEW o \in Ops, NEW x \in Names, NEW i \in Nat
  PROVE  /\ Send(m, o, x, i) = Sent(m, Request(o, x, i))
         /\ Request(o, x, i) \in RequestSet /\ Request(o, x, i).op = o
         /\ Request(o, x, i).what = x /\ Request(o, x, i).item = i
  BY DEF Send, Sent, Request, RequestSet

LEMMA TimerFields ==
  ASSUME NEW m \in Machines, NEW n, n = [m EXCEPT !.timer = TRUE]
  PROVE  /\ n \in Machines /\ n.step = m.step
         /\ n.leaf = m.leaf /\ n.what = m.what /\ n.item = m.item
         /\ n.wants = m.wants /\ n.uses = m.uses
         /\ n.timer = TRUE /\ n.potion = m.potion
         /\ n.tries = m.tries /\ n.gone = m.gone
         /\ n.got = m.got
  BY DEF Machines

-----------------------------------------------------------------------------
(* The items that lack.                                                    *)

LEMMA LeastIndex ==
  ASSUME NEW I, I \subseteq Nat, I # {}
  PROVE  FirstOf(I) \in I /\ \A i \in I : FirstOf(I) <= i
<1>1. IsWellFoundedOn(OpToRel(<, Nat), Nat)
  BY NatLessThanWellFounded
<1>2. PICK i \in I : \A j \in Nat : j < i => j \notin I
  <2>1. PICK i \in I : \A j \in I : ~(<<j, i>> \in OpToRel(<, Nat))
    BY <1>1, WFMin
  <2> QED BY <2>1 DEF OpToRel
<1>3. \A j \in I : i <= j
  BY <1>2
<1> QED BY <1>3 DEF FirstOf

LEMMA LackingIs ==
  ASSUME NEW k \in Seq(Kinds), me \in Character
  PROVE  /\ Lacking(k) \in Seq(Kinds)
         /\ Lacking(k) = <<>> => Range(k) \subseteq me.bag
         /\ Lacking(k) # <<>> => Head(Lacking(k)) \in Kinds
         /\ Range(k) \subseteq me.bag \cup Range(Lacking(k))
<1> DEFINE lacks == {i \in DOMAIN k : k[i] \notin me.bag}
           n == FirstOf(lacks)
<1>1. CASE lacks = {}
  <2>1. Lacking(k) = <<>>
    BY <1>1 DEF Lacking
  <2>2. Range(k) \subseteq me.bag
    BY <1>1 DEF Range
  <2> QED BY <2>1, <2>2
<1>2. CASE lacks # {}
  <2>1. n \in lacks /\ \A i \in lacks : n <= i
    <3>1. lacks \subseteq Nat
      OBVIOUS
    <3> HIDE DEF lacks
    <3> QED BY <1>2, <3>1, LeastIndex
  <2>2. Lacking(k) = SubSeq(k, n, Len(k))
    BY <1>2 DEF Lacking
  <2> HIDE DEF n
  <2>3. n \in 1..Len(k) /\ Len(k) \in Nat
    BY <2>1
  <2>4. /\ SubSeq(k, n, Len(k)) \in Seq(Kinds) /\ Len(SubSeq(k, n, Len(k))) = Len(k) - n + 1
        /\ \A i \in 1..(Len(k) - n + 1) : SubSeq(k, n, Len(k))[i] = k[n + i - 1]
    BY <2>3
  <2>5. ASSUME NEW x \in Range(k), x \notin me.bag PROVE x \in Range(Lacking(k))
    <3>1. PICK i \in 1..Len(k) : k[i] = x
      BY <2>5 DEF Range
    <3>2. n <= i
      BY <3>1, <2>1, <2>5
    <3>3. i - n + 1 \in 1..(Len(k) - n + 1) /\ n + (i - n + 1) - 1 = i
      BY <3>1, <3>2, <2>3
    <3>4. SubSeq(k, n, Len(k))[i - n + 1] = x
      BY <3>1, <3>3, <2>4
    <3>5. i - n + 1 \in DOMAIN SubSeq(k, n, Len(k))
      BY <3>3, <2>4
    <3> QED BY <3>4, <3>5, <2>2 DEF Range
  <2>6. SubSeq(k, n, Len(k)) # <<>> /\ Head(SubSeq(k, n, Len(k))) \in Kinds
    <3>1. \A r \in Seq(Kinds) : Len(r) >= 1 => r # <<>> /\ Head(r) \in Kinds
      OBVIOUS
    <3>2. Len(k) - n + 1 >= 1
      BY ONLY <2>3
    <3> QED BY ONLY <2>4, <3>1, <3>2
  <2> QED BY <2>2, <2>4, <2>5, <2>6
<1> QED BY <1>1, <1>2

-----------------------------------------------------------------------------
(* The step after one that is done.                                        *)

LEMMA SequenceIs ==
  /\ DOMAIN Sequence = 1..11 /\ Len(Sequence) = 11
  /\ Sequence[1] = "hat" /\ Sequence[2] = "dispel" /\ Sequence[3] = "walk"
  /\ Sequence[4] = "vitals" /\ Sequence[5] = "items" /\ Sequence[6] = "repair"
  /\ Sequence[7] = "pvp" /\ Sequence[8] = "equip" /\ Sequence[9] = "appear"
  /\ Sequence[10] = "cooldowns" /\ Sequence[11] = "ready"
  BY DEF Sequence

LEMMA StepIndex ==
  ASSUME NEW i \in 1..11, NEW j \in 1..11, Sequence[i] = Sequence[j]
  PROVE  i = j
<1>1. i \in {1, 2, 3, 4, 5, 6, 7, 8, 9, 10, 11} /\ j \in {1, 2, 3, 4, 5, 6, 7, 8, 9, 10, 11}
  OBVIOUS
<1> QED BY <1>1, SequenceIs

LEMMA StepsFrom ==
  ASSUME NEW s \in Range(Sequence)
  PROVE  \E i \in 1..11 : s = Sequence[i]
  BY SequenceIs DEF Range

LEMMA PastIs ==
  ASSUME NEW i \in 1..11
  PROVE  /\ Sequence[i] \in PastHat <=> i > 1
         /\ Sequence[i] \in PastDispel <=> i > 2
         /\ Sequence[i] \in PastWalk <=> i > 3
         /\ Sequence[i] \in PastVitals <=> i > 4
         /\ Sequence[i] \in PastItems <=> i > 5
         /\ Sequence[i] \in PastRepair <=> i > 6
         /\ Sequence[i] \in PastPvp <=> i > 7
         /\ Sequence[i] \in PastEquip <=> i > 8
         /\ Sequence[i] \in PastAppear <=> i > 9
         /\ Sequence[i] \in PastCooldowns <=> i > 10
<1>1. i \in {1, 2, 3, 4, 5, 6, 7, 8, 9, 10, 11}
  OBVIOUS
<1> QED BY <1>1, SequenceIs
        DEF PastHat, PastDispel, PastWalk, PastVitals, PastItems, PastRepair, PastPvp, PastEquip,
            PastAppear, PastCooldowns

LEMMA NextIs ==
  ASSUME NEW i \in 1..10
  PROVE  \E j \in (i + 1)..11 :
           /\ NextStep(Sequence[i]) = Sequence[j] /\ HasWork(Sequence[j])
           /\ \A k \in (i + 1)..(j - 1) : ~HasWork(Sequence[k])
<1> DEFINE works == {j \in (i + 1)..11 : HasWork(Sequence[j])}
<1>1. (CHOOSE j \in DOMAIN Sequence : Sequence[j] = Sequence[i]) = i
  <2>1. i \in DOMAIN Sequence /\ \A j \in DOMAIN Sequence : Sequence[j] = Sequence[i] => j = i
    BY SequenceIs, StepIndex
  <2> QED BY <2>1
<1>2. NextStep(Sequence[i]) = Sequence[FirstOf(works)]
  BY <1>1, SequenceIs DEF NextStep
<1>3. 11 \in works
  BY SequenceIs DEF HasWork
<1>4. works \subseteq (i + 1)..11 /\ works \subseteq Nat
  OBVIOUS
<1>5. FirstOf(works) \in works /\ \A j \in works : FirstOf(works) <= j
  <2> HIDE DEF works
  <2> QED BY <1>3, <1>4, LeastIndex
<1> DEFINE n == FirstOf(works)
<1>6. n \in (i + 1)..11 /\ HasWork(Sequence[n])
  BY <1>5
<1>7. ASSUME NEW k \in (i + 1)..(n - 1) PROVE ~HasWork(Sequence[k])
  <2>1. k \in (i + 1)..11 /\ k < n /\ n \in Nat /\ k \in Nat
    <3> HIDE DEF n
    <3> QED BY <1>6, <1>7
  <2>2. k \notin works
    <3> HIDE DEF works
    <3> QED BY <2>1, <1>5
  <2> QED BY <2>1, <2>2
<1> QED BY <1>2, <1>6, <1>7

(* What the step s leaves to the next.                                     *)
Passed(c, s, q, d) ==
  /\ s = "dispel" => c.buffs = {}
  /\ s = "walk" => c.spot = "pvp" /\ c.going = "nowhere" /\ Within(q, Homeward)
  /\ s = "vitals" => c.ailments = {}
  /\ s = "items" => Potions \subseteq c.bag
  /\ s = "repair" => ~c.broken \/ "use" \in d
  /\ s = "pvp" => c.mode = "yellow"
  /\ s = "equip" => c.hat = "avatar" /\ Within(q, Closing)
  /\ s = "appear" => c.visible \/ "toggle" \in d
  /\ s = "cooldowns" => c.cooling = {}
  /\ s # "walk" => Still(c, s, q)
  /\ s # "ready"

IdleApart(c, s, q, v, d, made_, ground_, robbed_) ==
  /\ Common(c, s, q, v, d, made_, ground_)
  /\ Within(q, PicksOver(ground_))
  /\ ~robbed_ => ~Holds(v, Ev("arrived"))
  /\ "use" \notin d => ~InUse(q, v)
  /\ "toggle" \notin d => ~Holds(q, Op("invisible"))

LEMMA Onward ==
  ASSUME NEW s \in Range(Sequence), NEW q \in Seq(RequestSet), NEW v \in Seq(EventSet), NEW d,
         IdleApart(me, s, q, v, d, made, ground, robbed), Passed(me, s, q, d)
  PROVE  /\ NextStep(s) \in Range(Sequence) /\ HasWork(NextStep(s))
         /\ Idle(me, NextStep(s), q, v, d, made, ground, robbed)
<1>1. PICK i \in 1..11 : s = Sequence[i]
  BY StepsFrom
<1>2. i \in 1..10
  BY <1>1, SequenceIs DEF Passed
<1>3. PICK j \in (i + 1)..11 :
        /\ NextStep(s) = Sequence[j] /\ HasWork(Sequence[j])
        /\ \A k \in (i + 1)..(j - 1) : ~HasWork(Sequence[k])
  BY <1>1, <1>2, NextIs
<1>4. i \in Nat /\ j \in Nat /\ j \in 1..11 /\ i < j
  BY <1>2, <1>3
<1> DEFINE n == Sequence[j]
<1>5. ASSUME NEW k \in 1..11, i < k, k < j PROVE ~HasWork(Sequence[k])
  BY <1>3, <1>4, <1>5
<1>6. /\ i < 2 /\ 2 < j => me.buffs = {}
      /\ i < 3 /\ 3 < j => me.spot = "pvp"
      /\ i < 4 /\ 4 < j => me.ailments = {}
      /\ i < 5 /\ 5 < j => Potions \subseteq me.bag
      /\ i < 6 /\ 6 < j => ~me.broken
      /\ i < 7 /\ 7 < j => me.mode = "yellow"
      /\ ~(i < 8 /\ 8 < j)
      /\ i < 9 /\ 9 < j => me.visible
      /\ i < 10 /\ 10 < j => me.cooling = {}
  <2>1. i < 2 /\ 2 < j => me.buffs = {}
    BY <1>5, SequenceIs DEF HasWork
  <2>2. i < 3 /\ 3 < j => me.spot = "pvp"
    BY <1>5, SequenceIs DEF HasWork
  <2>3. i < 4 /\ 4 < j => me.ailments = {}
    BY <1>5, SequenceIs DEF HasWork
  <2>4. i < 5 /\ 5 < j => Potions \subseteq me.bag
    BY <1>5, SequenceIs DEF HasWork
  <2>5. i < 6 /\ 6 < j => ~me.broken
    BY <1>5, SequenceIs DEF HasWork
  <2>6. i < 7 /\ 7 < j => me.mode = "yellow"
    BY <1>5, SequenceIs DEF HasWork
  <2>7. ~(i < 8 /\ 8 < j)
    BY <1>5, SequenceIs DEF HasWork
  <2>8. i < 9 /\ 9 < j => me.visible
    BY <1>5, SequenceIs DEF HasWork
  <2>9. i < 10 /\ 10 < j => me.cooling = {}
    BY <1>5, SequenceIs DEF HasWork
  <2> QED BY <2>1, <2>2, <2>3, <2>4, <2>5, <2>6, <2>7, <2>8, <2>9
<1>7. /\ i = 2 => me.buffs = {}
      /\ i = 3 => me.spot = "pvp" /\ me.going = "nowhere" /\ Within(q, Homeward)
      /\ i = 4 => me.ailments = {}
      /\ i = 5 => Potions \subseteq me.bag
      /\ i = 6 => ~me.broken \/ "use" \in d
      /\ i = 7 => me.mode = "yellow"
      /\ i = 8 => me.hat = "avatar" /\ Within(q, Closing)
      /\ i = 9 => me.visible \/ "toggle" \in d
      /\ i = 10 => me.cooling = {}
      /\ i # 3 => Still(me, s, q)
  <2>1. i \in {1, 2, 3, 4, 5, 6, 7, 8, 9, 10}
    BY <1>2
  <2> QED BY <2>1, <1>1, SequenceIs DEF Passed
<1>8. /\ s \in PastDispel <=> i > 2
      /\ s \in PastWalk <=> i > 3
      /\ s \in PastVitals <=> i > 4
      /\ s \in PastItems <=> i > 5
      /\ s \in PastRepair <=> i > 6
      /\ s \in PastPvp <=> i > 7
      /\ s \in PastEquip <=> i > 8
      /\ s \in PastAppear <=> i > 9
      /\ s \in PastCooldowns <=> i > 10
  BY <1>1, PastIs
<1>9. /\ n \in PastDispel <=> j > 2
      /\ n \in PastWalk <=> j > 3
      /\ n \in PastVitals <=> j > 4
      /\ n \in PastItems <=> j > 5
      /\ n \in PastRepair <=> j > 6
      /\ n \in PastPvp <=> j > 7
      /\ n \in PastEquip <=> j > 8
      /\ n \in PastAppear <=> j > 9
      /\ n \in PastCooldowns <=> j > 10
  BY <1>4, PastIs
<1>10. n \in Range(Sequence) /\ (n = "equip" <=> j = 8) /\ (s = "equip" <=> i = 8)
  BY <1>1, <1>4, SequenceIs, StepIndex DEF Range
<1>11. Common(me, s, q, v, d, made, ground)
  BY DEF IdleApart
<1> HIDE DEF n
<1>12. Attained(me, n, d)
  <2>1. Attained(me, s, d)
    BY <1>11 DEF Common
  <2> QED BY ONLY <2>1, <1>4, <1>6, <1>7, <1>8, <1>9 DEF Attained
<1>13. Dressing(me, n, q, v)
  <2>1. Dressing(me, s, q, v)
    BY <1>11 DEF Common
  <2>2. n \in PastPvp \/ s \notin PastPvp
    BY ONLY <1>4, <1>8, <1>9
  <2>3. n \in PastEquip => me.hat = "avatar" /\ Within(q, Closing)
    <3>1. n \in PastEquip => i = 8 \/ s \in PastEquip
      BY ONLY <1>4, <1>6, <1>8, <1>9
    <3> QED BY ONLY <3>1, <2>1, <1>7 DEF Dressing
  <2> QED BY ONLY <2>1, <2>2, <2>3 DEF Dressing
<1>14. Shown(me, n, q, v, d)
  <2>1. Shown(me, s, q, v, d)
    BY <1>11 DEF Common
  <2>2. s \in PastPvp \ {"equip"} => n \in PastPvp \ {"equip"}
    BY ONLY <1>4, <1>8, <1>9, <1>10
  <2> QED BY ONLY <2>1, <2>2 DEF Shown
<1>15. Common(me, n, q, v, d, made, ground)
  BY <1>10, <1>11, <1>12, <1>13, <1>14 DEF Common
<1>16. Still(me, n, q)
  <2>1. me.going = "nowhere"
    BY <1>7 DEF Still
  <2>2. CASE n \in PastWalk
    <3>1. me.spot = "pvp" /\ Within(q, Homeward)
      <4>1. i < 3 \/ i = 3 \/ i > 3
        BY ONLY <1>4
      <4>2. CASE i > 3
        BY <4>2, <1>7, <1>8 DEF Still
      <4>3. CASE i < 3
        <5>1. j > 3 /\ s \notin PastWalk
          BY ONLY <2>2, <4>3, <1>4, <1>8, <1>9
        <5>2. i # 3
          BY ONLY <4>3, <1>4
        <5> QED BY <5>1, <5>2, <4>3, <1>6, <1>7, Narrower DEF Still
      <4> QED BY <4>1, <4>2, <4>3, <1>7
    <3> QED BY <2>1, <2>2, <3>1 DEF Still
  <2>3. CASE n \notin PastWalk
    <3>1. i < 3 /\ s \notin PastWalk
      BY ONLY <2>3, <1>4, <1>8, <1>9
    <3>2. i # 3
      BY ONLY <3>1, <1>4
    <3> QED BY <2>1, <2>3, <3>1, <3>2, <1>7 DEF Still
  <2> QED BY <2>2, <2>3
<1>17. Idle(me, n, q, v, d, made, ground, robbed)
  BY <1>15, <1>16 DEF Idle, IdleApart
<1> QED BY <1>3, <1>10, <1>17 DEF n

-----------------------------------------------------------------------------
(* An event that is handled leaves what is common to all.                  *)

LEMMA CommonAfter ==
  ASSUME NEW c, NEW s, NEW q, NEW e \in EventSet, NEW v \in Seq(EventSet), NEW d, NEW g, NEW h,
         Common(c, s, q, <<e>> \o v, d, g, h)
  PROVE  Common(c, s, q, v, d, g, h) /\ e \in Told(c, g, h)
<1>1. Common(c, s, q, v, d, g, h)
  <2>1. /\ Dressing(c, s, q, <<e>> \o v) /\ Shown(c, s, q, <<e>> \o v, d) /\ Announced(c, <<e>> \o v)
        /\ Within(<<e>> \o v, Told(c, g, h))
    BY DEF Common
  <2>2. /\ \A A : Holds(v, A) => Holds(<<e>> \o v, A)
        /\ \A A : Within(<<e>> \o v, A) => Within(v, A)
        /\ \A A, B : Followed(<<e>> \o v, A, B) => Followed(v, A, B)
    BY Front
  <2>3. Dressing(c, s, q, v)
    BY ONLY <2>1, <2>2 DEF Dressing
  <2>4. Shown(c, s, q, v, d)
    BY ONLY <2>1, <2>2 DEF Shown
  <2>5. Announced(c, v)
    BY ONLY <2>1, <2>2 DEF Announced
  <2>6. Within(v, Told(c, g, h))
    BY ONLY <2>1, <2>2
  <2> QED BY <2>3, <2>4, <2>5, <2>6 DEF Common
<1>2. e \in Told(c, g, h)
  BY Front DEF Common
<1> QED BY <1>1, <1>2

LEMMA CommonSent ==
  ASSUME NEW c, NEW s, NEW q \in Seq(RequestSet), NEW r \in RequestSet, NEW v, NEW d, NEW g, NEW h,
         Common(c, s, q, v, d, g, h), r \in Legal(g),
         r.op \in {"equip", "invisible"} \/ s \notin PastPvp,
         r.op = "equip" => s \in PastPvp,
         r.op = "invisible" /\ "toggle" \notin d => ~Holds(q, Op("invisible"))
  PROVE  Common(c, s, q \o <<r>>, v, d, g, h)
<1>1. PastEquip \subseteq PastPvp
  BY DEF PastPvp, PastEquip
<1> DEFINE p == q \o <<r>>
<1>5. /\ \A A : Holds(p, A) <=> (Holds(q, A) \/ r \in A)
      /\ \A A : Within(p, A) <=> (Within(q, A) /\ r \in A)
      /\ \A A : OnceIn(p, A) <=> (OnceIn(q, A) /\ ~(Holds(q, A) /\ r \in A))
      /\ \A A, B : OnlyAfter(p, A, B) <=> (OnlyAfter(q, A, B) /\ (Holds(q, A) => r \in B))
  BY SentOne
<1>6. /\ r \in Op("equip") <=> r.op = "equip"
      /\ r \in Op("invisible") <=> r.op = "invisible"
      /\ r \in Closing <=> r.op = "equip" \/ r.op = "invisible"
  BY Sorts
<1>7. Dressing(c, s, q, v) /\ Shown(c, s, q, v, d)
  BY DEF Common
<1>8. r.op = "equip" \/ r.op = "invisible" \/ s \notin PastPvp
  OBVIOUS
<1> HIDE DEF p
<1>2. Dressing(c, s, p, v)
  BY ONLY <1>1, <1>5, <1>6, <1>7, <1>8, r.op = "equip" => s \in PastPvp DEF Dressing
<1>3. Shown(c, s, p, v, d)
  BY <1>5, <1>6, <1>7 DEF Shown
<1> USE DEF p
<1>4. q \o <<r>> \in Seq(RequestSet) /\ Within(q \o <<r>>, Legal(g))
  BY SentOne DEF Common
<1> QED BY <1>2, <1>3, <1>4 DEF Common

-----------------------------------------------------------------------------
(* Leaves that begin while no answer is waited for.                        *)

Neutral == MoveLeaves \cup {"spawn", "dispel", "rest", "enable", "countdown", "cooldowns", "none"}

LEMMA IdleAtNeutral ==
  ASSUME NEW c, NEW m, NEW q, NEW v, NEW d, NEW g, NEW h, NEW b,
         Fits(c, m, q, v, d, g, h, b), m.leaf \in Neutral
  PROVE  Idle(c, m.step, q, v, d, g, h, b)
<1>1. m.leaf \notin WalkLeaves \cup {"pick", "use", "toggle"}
  BY DEF Neutral, MoveLeaves, WalkLeaves
<1>2. Common(c, m.step, q, v, d, g, h)
  BY DEF Fits
<1>3. Still(c, m.step, q)
  BY <1>1 DEF Fits, Walking, WalkLeaves
<1>4. Within(q, PicksOver(h)) /\ (~b => ~Holds(v, Ev("arrived")))
  BY <1>1 DEF Fits, Picking
<1>5. "use" \notin d => ~InUse(q, v)
  BY <1>1 DEF Fits, Using
<1>6. "toggle" \notin d => ~Holds(q, Op("invisible"))
  BY <1>1 DEF Fits, Toggling
<1> QED BY <1>2, <1>3, <1>4, <1>5, <1>6 DEF Idle

LEMMA NeutralFits ==
  ASSUME NEW c, NEW m \in Machines, NEW q, NEW v, NEW d, NEW g, NEW h, NEW b,
         Idle(c, m.step, q, v, d, g, h, b), m.leaf \in Neutral, <<m.step, m.leaf>> \in LeafOf,
         Stocked(c, m, d), Waiting(c, m, v)
  PROVE  Fits(c, m, q, v, d, g, h, b)
<1>1. m.leaf \notin WalkLeaves \cup {"pick", "use", "toggle", "appear"}
  BY DEF Neutral, MoveLeaves, WalkLeaves
<1>2. Walking(c, m, q)
  BY <1>1 DEF Idle, Walking, WalkLeaves
<1>3. Picking(m, q, v, g, h, b)
  BY <1>1 DEF Idle, Picking
<1>4. Using(c, m, q, v, d)
  BY <1>1 DEF Idle, Using
<1>5. m.step # "appear"
  BY <1>1, LeafSteps
<1>6. Toggling(c, m, q, v, d)
  BY <1>5 DEF Idle, Toggling
<1> QED BY <1>2, <1>3, <1>4, <1>6 DEF Fits, Idle

LEMMA IdleSent ==
  ASSUME NEW c, NEW s, NEW q \in Seq(RequestSet), NEW r \in RequestSet, NEW v, NEW d, NEW g, NEW h,
         NEW b, Idle(c, s, q, v, d, g, h, b), r \in Legal(g),
         r.op \in MoveLeaves \cup {"dispel", "make", "enable"},
         r.op = "equip" <=> s \in PastPvp
  PROVE  Idle(c, s, q \o <<r>>, v, d, g, h, b)
<1>1. r.op \notin {"walk", "pick", "use", "invisible"}
  BY DEF MoveLeaves
<1>2. Common(c, s, q \o <<r>>, v, d, g, h)
  <2>1. Common(c, s, q, v, d, g, h)
    BY DEF Idle
  <2> QED BY <1>1, <2>1, CommonSent
<1>3. /\ \A A : Holds(q \o <<r>>, A) <=> (Holds(q, A) \/ r \in A)
      /\ \A A : Within(q \o <<r>>, A) <=> (Within(q, A) /\ r \in A)
  BY SentOne
<1>4. /\ r \notin Op("walk") /\ r \notin Op("pick") /\ r \notin Op("use") /\ r \notin Op("invisible")
      /\ r \in Homeward /\ r \in PicksOver(h)
  BY <1>1, Sorts
<1>5. Still(c, s, q \o <<r>>)
  BY <1>3, <1>4 DEF Idle, Still
<1>6. "use" \notin d => ~InUse(q \o <<r>>, v)
  BY <1>3, <1>4 DEF Idle, InUse
<1> QED BY <1>2, <1>3, <1>4, <1>5, <1>6 DEF Idle

LEMMA IdleAfter ==
  ASSUME NEW c, NEW s, NEW q, NEW e \in EventSet, NEW v \in Seq(EventSet), NEW d, NEW g, NEW h,
         NEW b, Idle(c, s, q, <<e>> \o v, d, g, h, b)
  PROVE  Idle(c, s, q, v, d, g, h, b)
<1>1. Common(c, s, q, v, d, g, h)
  BY CommonAfter DEF Idle
<1>2. \A A : Holds(v, A) => Holds(<<e>> \o v, A)
  BY Front
<1> QED BY <1>1, <1>2 DEF Idle, InUse

-----------------------------------------------------------------------------
(* What an update leaves fits.                                             *)

Good(r, q, v, d) ==
  /\ Fits(me, r.m, q \o r.sent, v, d, made, ground, robbed)
  /\ r.m.leaf = "rest" => r.m.potion

LEMMA GoodStay ==
  ASSUME NEW m, NEW q \in Seq(RequestSet), NEW v, NEW d,
         Fits(me, m, q, v, d, made, ground, robbed), m.leaf = "rest" => m.potion
  PROVE  Good(Stay(m), q, v, d)
<1>1. Stay(m).m = m /\ Stay(m).sent = <<>> /\ q \o <<>> = q
  BY DEF Stay
<1> QED BY <1>1 DEF Good

LEMMA GoodSent ==
  ASSUME NEW m \in Machines, NEW q, NEW r, NEW v, NEW d, m.leaf # "rest",
         Fits(me, [m EXCEPT !.timer = TRUE], q \o <<r>>, v, d, made, ground, robbed)
  PROVE  Good(Sent(m, r), q, v, d)
<1>1. [m EXCEPT !.timer = TRUE].leaf # "rest"
  BY TimerFields
<1>2. Sent(m, r).m = [m EXCEPT !.timer = TRUE] /\ Sent(m, r).sent = <<r>>
  BY DEF Sent
<1> QED BY <1>1, <1>2 DEF Good

(* A leaf that waits for none of the answers that others must not meet.    *)
LEMMA NeutralStay ==
  ASSUME NEW m \in Machines, NEW q, NEW v, NEW d,
         Idle(me, m.step, q, v, d, made, ground, robbed), m.leaf \in Neutral,
         <<m.step, m.leaf>> \in LeafOf, Stocked(me, m, d), Waiting(me, m, v),
         m.leaf = "rest" => m.potion
  PROVE  Good(Stay(m), q, v, d)
<1>1. q \in Seq(RequestSet)
  BY DEF Idle, Common
<1> QED BY <1>1, NeutralFits, GoodStay

LEMMA NeutralSent ==
  ASSUME NEW m \in Machines, NEW q, NEW r \in RequestSet, NEW v, NEW d,
         Idle(me, m.step, q, v, d, made, ground, robbed), r \in Legal(made),
         m.leaf \in Neutral \ {"rest", "cooldowns"}, m.leaf = "countdown" => Waiting(me, m, v),
         <<m.step, m.leaf>> \in LeafOf, Stocked(me, m, d),
         r.op \in MoveLeaves \cup {"dispel", "make", "enable"},
         r.op = "equip" <=> m.step \in PastPvp
  PROVE  Good(Sent(m, r), q, v, d)
<1>1. q \in Seq(RequestSet)
  BY DEF Idle, Common
<1> DEFINE n == [m EXCEPT !.timer = TRUE]
<1>2. n \in Machines /\ n.step = m.step /\ n.leaf = m.leaf /\ n.wants = m.wants /\ n.uses = m.uses
        /\ n.timer = TRUE
  BY TimerFields
<1> HIDE DEF n
<1>3. Idle(me, n.step, q \o <<r>>, v, d, made, ground, robbed)
  BY <1>1, <1>2, IdleSent
<1>4. Stocked(me, n, d)
  BY <1>2 DEF Stocked
<1>5. Waiting(me, n, v)
  <2>1. CASE m.leaf = "countdown"
    BY <1>2, <2>1 DEF Waiting, WalkLeaves
  <2>2. CASE m.leaf # "countdown"
    BY <1>2, <2>2 DEF Waiting, Neutral, MoveLeaves, WalkLeaves
  <2> QED BY <2>1, <2>2
<1>6. Fits(me, n, q \o <<r>>, v, d, made, ground, robbed)
  BY <1>2, <1>3, <1>4, <1>5, NeutralFits
<1> QED BY <1>6, GoodSent DEF n

-----------------------------------------------------------------------------
(* What begins while no answer is waited for.                              *)

LEMMA LegalIs ==
  ASSUME NEW r \in RequestSet, NEW g
  PROVE  r \in Legal(g) <=>
           /\ r.op = "make" => r.what \in Kinds
           /\ r.op = "use" => r.what \in Used
           /\ r.op = "walk" => r.what \in {"pvp", "away"}
           /\ r.op = "pick" => r.item \in DOMAIN g
  BY DEF Legal

LEMMA PvpSteps ==
  /\ "equip" \in PastPvp /\ "appear" \in PastPvp
  /\ \A s \in {"hat", "dispel", "walk", "vitals", "items", "repair", "pvp"} : s \notin PastPvp
  /\ \A s \in {"vitals", "items", "repair"} : s \in PastWalk
  BY DEF PastWalk, PastVitals, PastItems, PastRepair, PastPvp, PastEquip, PastAppear, PastCooldowns

LEMMA TryMoveGood ==
  ASSUME NEW m \in Machines, NEW q, NEW v, NEW d, Idle(me, m.step, q, v, d, made, ground, robbed),
         m.leaf \in MoveLeaves, <<m.step, m.leaf>> \in LeafOf
  PROVE  Good(TryMove(m), q, v, d)
<1>1. m.leaf \in Neutral \ {"rest", "cooldowns", "countdown"} /\ m.step \in {"hat", "equip"}
  BY LeafSteps DEF Neutral, MoveLeaves
<1>2. Stocked(me, m, d)
  BY <1>1 DEF Stocked
<1>3. Waiting(me, m, v)
  BY DEF Waiting, MoveLeaves, WalkLeaves
<1>4. Good(Throws(m), q, v, d)
  BY <1>1, <1>2, <1>3, NeutralStay DEF Throws
<1>5. Good(Send([m EXCEPT !.tries = @ + 1], m.leaf, m.what, 0), q, v, d)
  <2> DEFINE n == [m EXCEPT !.tries = @ + 1]
             r == Request(m.leaf, m.what, 0)
  <2>1. n \in Machines /\ n.step = m.step /\ n.leaf = m.leaf
    <3>1. m.tries + 1 \in Nat
      BY DEF Machines
    <3>2. n \in Machines
      BY <3>1 DEF Machines
    <3>3. n.step = m.step /\ n.leaf = m.leaf
      BY DEF Machines
    <3> QED BY <3>2, <3>3
  <2>2. m.leaf \in Ops /\ m.what \in Names
    BY DEF Ops, Machines
  <2>3. Send(n, m.leaf, m.what, 0) = Sent(n, r) /\ r \in RequestSet /\ r.op = m.leaf
    BY <2>1, <2>2, SendFields
  <2> HIDE DEF n, r
  <2>4. r \in Legal(made)
    BY <2>3, LegalIs DEF MoveLeaves
  <2>5. r.op = "equip" <=> m.step \in PastPvp
    BY <2>3, LeafSteps, PvpSteps DEF MoveLeaves
  <2>6. Stocked(me, n, d)
    BY <1>1, <2>1 DEF Stocked
  <2>7. Good(Sent(n, r), q, v, d)
    BY <1>1, <2>1, <2>3, <2>4, <2>5, <2>6, NeutralSent
  <2> QED BY <2>3, <2>7 DEF n
<1> QED BY <1>4, <1>5 DEF TryMove

LEMMA MoveGood ==
  ASSUME NEW m \in Machines, NEW q, NEW v, NEW d, Idle(me, m.step, q, v, d, made, ground, robbed),
         NEW l \in MoveLeaves, <<m.step, l>> \in LeafOf, NEW x \in Slots
  PROVE  Good(Move(m, l, x), q, v, d)
<1> DEFINE n == [Leaf(m, l, x) EXCEPT !.tries = 0]
<1>1. l \in Leaves /\ x \in Names
  BY Texts DEF Leaves
<1>2. Leaf(m, l, x) \in Machines /\ Leaf(m, l, x).step = m.step /\ Leaf(m, l, x).leaf = l
  BY <1>1, LeafFields
<1>3. n \in Machines /\ n.step = m.step /\ n.leaf = l
  BY <1>2 DEF Machines
<1>4. Move(m, l, x) = TryMove(n)
  BY DEF Move
<1> HIDE DEF n
<1> QED BY <1>3, <1>4, TryMoveGood

LEMMA DispelNextGood ==
  ASSUME NEW m \in Machines, NEW q, NEW v, NEW d, Idle(me, m.step, q, v, d, made, ground, robbed),
         m.step = "dispel", me.buffs # {}
  PROVE  Good(DispelNext(m), q, v, d)
<1> DEFINE buffs == me.buffs \ Debuffs
           b == CHOOSE x \in buffs : TRUE
<1>1. me.buffs \subseteq Buffs
  BY DEF Idle, Common, Character
<1>5. "dispel" \in Leaves
  BY DEF Leaves
<1>2. "dispel" \in Neutral /\ "dispel" \in Ops /\ <<"dispel", "dispel">> \in LeafOf
  BY DEF Neutral, Ops, LeafOf
<1>3. ASSUME buffs = {} PROVE Good(Stay(Leaf(m, "dispel", "none")), q, v, d)
  <2> DEFINE n == Leaf(m, "dispel", "none")
  <2>1. n \in Machines /\ n.step = m.step /\ n.leaf = "dispel" /\ n.what = "none"
    <3>1. "none" \in Names
      BY Texts
    <3> QED BY <1>5, <3>1, LeafIs
  <2> HIDE DEF n
  <2>2. Stocked(me, n, d) /\ Waiting(me, n, v)
    BY <2>1 DEF Stocked, Waiting, WalkLeaves
  <2>3. Good(Stay(n), q, v, d)
    BY <1>2, <2>1, <2>2, NeutralStay
  <2> QED BY <2>3 DEF n
<1>4. ASSUME buffs # {} PROVE Good(Send(Leaf(m, "dispel", b), "dispel", b, 0), q, v, d)
  <2>1. b \in buffs
    BY <1>4
  <2>2. b \in Names
    BY <1>1, <2>1, Texts
  <2> HIDE DEF b
  <2> DEFINE n == Leaf(m, "dispel", b)
             r == Request("dispel", b, 0)
  <2>3. n \in Machines /\ n.step = m.step /\ n.leaf = "dispel"
    BY <1>5, <2>2, LeafIs
  <2>4. Send(n, "dispel", b, 0) = Sent(n, r) /\ r \in RequestSet /\ r.op = "dispel"
    BY <1>2, <2>2, <2>3, SendFields
  <2> HIDE DEF n, r
  <2>5. r \in Legal(made) /\ m.step \notin PastPvp
    BY <2>4, LegalIs, PvpSteps
  <2>6. Stocked(me, n, d)
    BY <2>3 DEF Stocked
  <2>7. Good(Sent(n, r), q, v, d)
    BY <1>2, <2>3, <2>4, <2>5, <2>6, NeutralSent
  <2> QED BY <2>4, <2>7 DEF n
<1> QED BY <1>3, <1>4 DEF DispelNext

(* What a machine has yet to make and to use, when it is not resting.       *)
Provided(c, m, d) ==
  /\ m.step = "vitals" => m.uses # <<>>
  /\ m.step = "items" => Potions \subseteq c.bag \cup Range(m.wants)
  /\ m.step = "repair" /\ "use" \notin d => "hammer" \in c.bag \cup Range(m.wants)

LEMMA ProvidedStocked ==
  ASSUME NEW c, NEW m, NEW d
  PROVE  /\ Provided(c, m, d) => Stocked(c, m, d)
         /\ Stocked(c, m, d) /\ m.leaf \notin {"rest", "use"} => Provided(c, m, d)
  BY DEF Provided, Stocked

LEMMA MakeItemGood ==
  ASSUME NEW m \in Machines, NEW q, NEW v, NEW d, Idle(me, m.step, q, v, d, made, ground, robbed),
         m.step \in {"vitals", "items", "repair"}, NEW k \in Seq(Kinds), k # <<>>,
         Provided(me, [m EXCEPT !.wants = k], d)
  PROVE  Good(MakeItem(m, k), q, v, d)
<1>1. Head(k) \in Kinds
  OBVIOUS
<1>2. PICK x \in Kinds : x = Head(k)
  BY <1>1
<1> DEFINE l == Leaf(m, "spawn", x)
           n == [l EXCEPT !.wants = k]
           r == Request("make", x, 0)
<1>3. "spawn" \in Leaves /\ "make" \in Ops /\ "spawn" \in Neutral \ {"rest", "cooldowns", "countdown"}
  BY DEF Leaves, Ops, Neutral
<1>4. x \in Names
  BY Texts
<1>5. l \in Machines /\ l.step = m.step /\ l.leaf = "spawn" /\ l.uses = m.uses
  BY <1>3, <1>4, LeafIs
<1> HIDE DEF l
<1>6. n \in Machines /\ n.step = m.step /\ n.leaf = "spawn" /\ n.uses = m.uses /\ n.wants = k
  BY <1>5 DEF Machines
<1> HIDE DEF n
<1>7. Send(n, "make", x, 0) = Sent(n, r) /\ r \in RequestSet /\ r.op = "make" /\ r.what = x
  BY <1>3, <1>4, <1>6, SendFields
<1> HIDE DEF r
<1>8. MakeItem(m, k) = Sent(n, r)
  BY <1>2, <1>7 DEF MakeItem, n, l
<1>9. r \in Legal(made) /\ m.step \notin PastPvp
  BY <1>7, LegalIs, PvpSteps
<1>10. [m EXCEPT !.wants = k].step = m.step /\ [m EXCEPT !.wants = k].uses = m.uses
         /\ [m EXCEPT !.wants = k].wants = k
  BY DEF Machines
<1>11. Stocked(me, n, d)
  BY <1>6, <1>10 DEF Provided, Stocked
<1>12. <<n.step, n.leaf>> \in LeafOf
  BY <1>6, LeafSteps
<1> QED BY <1>3, <1>6, <1>7, <1>8, <1>9, <1>11, <1>12, NeutralSent

(* A use begins or is tried again.                                         *)
LEMMA TryUseGood ==
  ASSUME NEW m \in Machines, NEW q, NEW v, NEW d, Idle(me, m.step, q, v, d, made, ground, robbed),
         m.leaf = "use", m.step \in {"vitals", "repair"}, m.what \in Used,
         m.step = "repair" => m.what = "hammer",
         m.step = "vitals" => m.uses # <<>>,
         m.step = "repair" /\ "use" \notin d => "hammer" \in me.bag
  PROVE  Good(TryUse(m), q, v, d)
<1>1. /\ q \in Seq(RequestSet) /\ Common(me, m.step, q, v, d, made, ground)
      /\ me.going = "nowhere" /\ me.spot = "pvp" /\ Within(q, Homeward)
      /\ Within(q, PicksOver(ground)) /\ (~robbed => ~Holds(v, Ev("arrived")))
      /\ "use" \notin d => ~InUse(q, v)
      /\ "toggle" \notin d => ~Holds(q, Op("invisible"))
  BY PvpSteps DEF Idle, Common, Still
<1>2. m.step \in PastWalk /\ m.step \notin PastPvp /\ <<m.step, m.leaf>> \in LeafOf
  BY PvpSteps, LeafSteps
<1>3. "use" \notin WalkLeaves \cup MoveLeaves \cup {"pick", "toggle", "appear"}
  BY DEF MoveLeaves, WalkLeaves
<1>4. ASSUME NEW n \in Machines, n.leaf = "use", n.step = m.step, n.what = m.what, n.uses = m.uses,
             NEW p, Common(me, m.step, p, v, d, made, ground), Within(p, Homeward),
             Within(p, PicksOver(ground)), "toggle" \notin d => ~Holds(p, Op("invisible")),
             Using(me, n, p, v, d)
      PROVE  Fits(me, n, p, v, d, made, ground, robbed)
  <2>1. Walking(me, n, p)
    BY <1>1, <1>2, <1>3, <1>4 DEF Walking, Still, WalkLeaves
  <2>2. Picking(n, p, v, made, ground, robbed)
    BY <1>1, <1>4 DEF Picking
  <2>3. Stocked(me, n, d)
    BY <1>4 DEF Stocked
  <2>4. Toggling(me, n, p, v, d)
    BY <1>4 DEF Toggling
  <2>5. Waiting(me, n, v)
    BY <1>3, <1>4 DEF Waiting
  <2> QED BY <1>2, <1>4, <2>1, <2>2, <2>3, <2>4, <2>5 DEF Fits
<1>5. Good(Throws(m), q, v, d)
  <2>1. Using(me, m, q, v, d)
    <3>1. "use" \notin d => /\ ~Holds(q, Op("use")) /\ ~Holds(v, Answered)
                            /\ OnceIn(q, Op("use")) /\ OnceIn(v, Answered)
                            /\ Within(q, Hammering) /\ ~Holds(v, EvOf("useFailed", "doesNotExist"))
      BY <1>1, More, Narrower DEF InUse
    <3> QED BY <3>1 DEF Using, InUse
  <2> QED BY <1>1, <1>4, <2>1, GoodStay DEF Throws
<1>6. Good(Send(m, "use", m.what, 0), q, v, d)
  <2> DEFINE r == Request("use", m.what, 0)
             n == [m EXCEPT !.timer = TRUE]
             p == q \o <<r>>
  <2>1. "use" \in Ops /\ m.what \in Names
    BY DEF Ops, Machines
  <2>2. Send(m, "use", m.what, 0) = Sent(m, r) /\ r \in RequestSet /\ r.op = "use" /\ r.what = m.what
    BY <2>1, SendFields
  <2>3. n \in Machines /\ n.leaf = "use" /\ n.step = m.step /\ n.what = m.what /\ n.uses = m.uses
          /\ n.timer = TRUE
    BY TimerFields
  <2> HIDE DEF r, n
  <2>4. r \in Legal(made)
    BY <2>2, LegalIs
  <2>5. Common(me, m.step, p, v, d, made, ground)
    BY <1>1, <1>2, <2>2, <2>4, CommonSent
  <2>6. /\ r \in Homeward /\ r \in PicksOver(ground) /\ r \notin Op("invisible")
        /\ m.step = "repair" => r \in Hammering
    BY <2>2, Sorts
  <2>7. /\ \A A : Holds(p, A) <=> (Holds(q, A) \/ r \in A)
        /\ \A A : Within(p, A) <=> (Within(q, A) /\ r \in A)
        /\ \A A : OnceIn(p, A) <=> (OnceIn(q, A) /\ ~(Holds(q, A) /\ r \in A))
    BY <1>1, <2>2, SentOne
  <2> HIDE DEF p
  <2>8. Using(me, n, p, v, d)
    <3>1. "use" \notin d => /\ ~Holds(q, Op("use")) /\ ~Holds(v, Answered)
                            /\ OnceIn(q, Op("use")) /\ OnceIn(v, Answered)
                            /\ Within(q, Hammering) /\ ~Holds(v, EvOf("useFailed", "doesNotExist"))
      BY <1>1, More, Narrower DEF InUse
    <3> QED BY <2>3, <2>6, <2>7, <3>1 DEF Using, InUse
  <2>9. Fits(me, n, p, v, d, made, ground, robbed)
    BY <1>1, <1>4, <2>3, <2>5, <2>6, <2>7, <2>8
  <2>10. Good(Sent(m, r), q, v, d)
    BY <2>9, GoodSent DEF n, p
  <2> QED BY <2>2, <2>10
<1> QED BY <1>5, <1>6 DEF TryUse

LEMMA UseGood ==
  ASSUME NEW m \in Machines, NEW q, NEW v, NEW d, Idle(me, m.step, q, v, d, made, ground, robbed),
         m.step \in {"vitals", "repair"}, NEW x \in Used,
         m.step = "repair" => x = "hammer",
         m.step = "vitals" => m.uses # <<>>,
         m.step = "repair" /\ "use" \notin d => "hammer" \in me.bag
  PROVE  Good(Use(m, x), q, v, d)
<1> DEFINE n == Leaf(m, "use", x)
<1>1. "use" \in Leaves /\ x \in Names
  BY Texts DEF Leaves
<1>2. n \in Machines /\ n.step = m.step /\ n.leaf = "use" /\ n.what = x /\ n.uses = m.uses
  BY <1>1, LeafIs
<1> HIDE DEF n
<1>3. Good(TryUse(n), q, v, d)
  BY <1>2, TryUseGood
<1> QED BY <1>3 DEF Use, n

LEMMA RemediesAre ==
  ASSUME me \in Character
  PROVE  /\ Remedies \in Seq(Used) /\ Remedies \in Seq(Kinds)
         /\ me.ailments # {} => Remedies # <<>>
<1>1. /\ "vigor" \in Used /\ "universalPill" \in Used /\ "purificationPill" \in Used
      /\ Used \subseteq Kinds
  BY Texts DEF Used
<1>2. me.ailments \subseteq {"vitals", "legacy", "modern"}
  BY DEF Character
<1> DEFINE a == IF "vitals" \in me.ailments THEN <<"vigor">> ELSE <<>>
           b == IF "legacy" \in me.ailments THEN <<"universalPill">> ELSE <<>>
           c == IF "modern" \in me.ailments THEN <<"purificationPill">> ELSE <<>>
<1>3. a \in Seq(Used) /\ ("vitals" \in me.ailments => a # <<>>)
  BY <1>1
<1>4. b \in Seq(Used) /\ ("legacy" \in me.ailments => b # <<>>)
  BY <1>1
<1>5. c \in Seq(Used) /\ ("modern" \in me.ailments => c # <<>>)
  BY <1>1
<1>6. Remedies = a \o b \o c
  BY DEF Remedies
<1> HIDE DEF a, b, c
<1>7. a \o b \o c \in Seq(Used)
  BY <1>3, <1>4, <1>5
<1>8. ASSUME me.ailments # {} PROVE a \o b \o c # <<>>
  <2>1. a # <<>> \/ b # <<>> \/ c # <<>>
    BY <1>2, <1>3, <1>4, <1>5, <1>8
  <2>2. Len(a) \in Nat /\ Len(b) \in Nat /\ Len(c) \in Nat /\ Len(a) + Len(b) + Len(c) # 0
    BY <1>3, <1>4, <1>5, <2>1
  <2>3. Len(a \o b \o c) = Len(a) + Len(b) + Len(c)
    BY <1>3, <1>4, <1>5
  <2> QED BY <2>2, <2>3
<1>9. Remedies \in Seq(Kinds)
  <2>1. Remedies \in Seq(Used)
    BY <1>6, <1>7
  <2>2. \A i \in DOMAIN Remedies : Remedies[i] \in Kinds
    BY <1>1, <2>1
  <2> QED BY ONLY <2>1, <2>2
<1> QED BY <1>6, <1>7, <1>8, <1>9

LEMMA CureGood ==
  ASSUME NEW m \in Machines, NEW q, NEW v, NEW d, Idle(me, m.step, q, v, d, made, ground, robbed),
         m.step = "vitals", me.ailments # {}
  PROVE  Good(Cure(m), q, v, d)
<1>1. me \in Character
  BY DEF Idle, Common
<1>2. Remedies \in Seq(Used) /\ Remedies \in Seq(Kinds) /\ Remedies # <<>>
  BY <1>1, RemediesAre
<1> DEFINE p == [m EXCEPT !.uses = Remedies, !.tries = 0]
<1>3. p \in Machines /\ p.step = "vitals" /\ p.uses = Remedies
  BY <1>2 DEF Machines
<1>4. Head(Remedies) \in Used
  BY <1>2
<1> DEFINE k == Lacking(Remedies)
<1>5. k \in Seq(Kinds)
  BY <1>1, <1>2, LackingIs
<1>6. Cure(m) = IF k = <<>> THEN Use(p, Head(Remedies)) ELSE MakeItem(p, k)
  BY DEF Cure
<1> HIDE DEF p, k
<1>7. [p EXCEPT !.wants = k].step = "vitals" /\ [p EXCEPT !.wants = k].uses = Remedies
  BY <1>3 DEF Machines
<1>8. Provided(me, [p EXCEPT !.wants = k], d)
  BY <1>2, <1>7 DEF Provided
<1>9. ASSUME k # <<>> PROVE Good(MakeItem(p, k), q, v, d)
  BY <1>3, <1>5, <1>8, <1>9, MakeItemGood
<1>10. Good(Use(p, Head(Remedies)), q, v, d)
  <2>1. PICK x \in Used : x = Head(Remedies)
    BY <1>4
  <2>2. Good(Use(p, x), q, v, d)
    BY <1>2, <1>3, UseGood
  <2> QED BY <2>1, <2>2
<1> QED BY <1>6, <1>9, <1>10

(* A walk begins, or is tried again.                                       *)
LEMMA WalkToGood ==
  ASSUME NEW m \in Machines, NEW l \in WalkLeaves, <<m.step, l>> \in LeafOf,
         NEW q, NEW v, NEW d, IdleApart(me, m.step, q, v, d, made, ground, robbed),
         Provided(me, m, d), me.going \in {"nowhere", "pvp"}, me.spot = "pvp" => me.going = "nowhere",
         l \in {"walk", "return"} => Within(q, Homeward),
         l \in {"nudge", "nudgeBack"} => me.going = "nowhere",
         l = "nudge" =>
           /\ me.spot \in {"pvp", "away"} /\ OnlyAfter(q, OpOf("walk", "away"), NotTo("pvp"))
           /\ me.spot = "away" => ~Holds(q, OpOf("walk", "pvp")),
         l = "nudgeBack" =>
           /\ me.spot \in {"pvp", "away"} /\ OnlyAfter(q, OpOf("walk", "pvp"), NotTo("away"))
           /\ me.spot = "pvp" => Within(q, Homeward)
  PROVE  Good(WalkTo(m, l), q, v, d)
<1> DEFINE x == Waypoint(l)
           n == Leaf(m, l, "none")
           o == [n EXCEPT !.timer = TRUE]
           r == Request("walk", x, 0)
           p == q \o <<r>>
<1>1. /\ q \in Seq(RequestSet) /\ Common(me, m.step, q, v, d, made, ground)
      /\ Within(q, PicksOver(ground)) /\ (~robbed => ~Holds(v, Ev("arrived")))
      /\ "use" \notin d => ~InUse(q, v)
      /\ "toggle" \notin d => ~Holds(q, Op("invisible"))
  BY DEF IdleApart, Common
<1>2. x = (IF l = "nudge" THEN "away" ELSE "pvp") /\ x \in Names /\ "walk" \in Ops /\ l \in Leaves
        /\ "none" \in Names
  BY Texts DEF Waypoint, Spots, Ops, Leaves
<1>3. m.step \in {"walk", "vitals", "items", "repair"} /\ l \notin Neutral \cup {"pick", "use", "toggle", "appear"}
  BY LeafSteps DEF WalkLeaves, Neutral, MoveLeaves
<1> HIDE DEF x
<1>4. n \in Machines /\ n.step = m.step /\ n.leaf = l /\ n.uses = m.uses /\ n.wants = m.wants
  BY <1>2, LeafIs
<1> HIDE DEF n
<1>5. Send(n, "walk", x, 0) = Sent(n, r) /\ r \in RequestSet /\ r.op = "walk" /\ r.what = x
  BY <1>2, <1>4, SendFields
<1>6. WalkTo(m, l) = Sent(n, r)
  BY <1>5 DEF WalkTo, n, x
<1>7. o \in Machines /\ o.step = m.step /\ o.leaf = l /\ o.uses = m.uses /\ o.wants = m.wants
        /\ o.timer = TRUE
  BY <1>4, TimerFields
<1> HIDE DEF r, o
<1>8. r \in Legal(made)
  BY <1>2, <1>5, LegalIs
<1>9. Common(me, m.step, p, v, d, made, ground)
  BY <1>1, <1>3, <1>5, <1>8, PvpSteps, CommonSent
<1>10. /\ r \notin Op("use") /\ r \in PicksOver(ground) /\ r \notin Op("invisible")
       /\ l # "nudge" => r \in Homeward /\ r \in NotTo("away") /\ r \notin OpOf("walk", "away")
       /\ l = "nudge" => r \in NotTo("pvp") /\ r \notin OpOf("walk", "pvp")
  BY <1>2, <1>5, Sorts
<1>11. /\ \A A : Holds(p, A) <=> (Holds(q, A) \/ r \in A)
       /\ \A A : Within(p, A) <=> (Within(q, A) /\ r \in A)
       /\ \A A, B : OnlyAfter(p, A, B) <=> (OnlyAfter(q, A, B) /\ (Holds(q, A) => r \in B))
  BY <1>1, <1>5, SentOne
<1> HIDE DEF p
<1>12. Walking(me, o, p)
  <2>1. CASE l \in {"walk", "return"}
    BY <2>1, <1>7, <1>10, <1>11 DEF Walking
  <2>2. CASE l = "nudge"
    BY <2>2, <1>7, <1>10, <1>11 DEF Walking
  <2>3. CASE l = "nudgeBack"
    BY <2>3, <1>7, <1>10, <1>11 DEF Walking
  <2> QED BY <2>1, <2>2, <2>3 DEF WalkLeaves
<1>13. Picking(o, p, v, made, ground, robbed)
  BY <1>1, <1>3, <1>7, <1>10, <1>11 DEF Picking
<1>14. Using(me, o, p, v, d)
  BY <1>1, <1>3, <1>7, <1>10, <1>11 DEF Using, InUse
<1>15. Stocked(me, o, d)
  BY <1>7 DEF Provided, Stocked
<1>16. Toggling(me, o, p, v, d)
  BY <1>1, <1>3, <1>7, <1>10, <1>11 DEF Toggling
<1>17. Waiting(me, o, v)
  BY <1>3, <1>7 DEF Waiting, Neutral
<1>18. Fits(me, o, p, v, d, made, ground, robbed)
  BY <1>7, <1>9, <1>12, <1>13, <1>14, <1>15, <1>16, <1>17 DEF Fits
<1>19. n.leaf # "rest"
  BY <1>3, <1>4 DEF Neutral
<1> QED BY <1>4, <1>6, <1>18, <1>19, GoodSent DEF o, p

(* The toggle is sent, for the first time or again.                        *)
LEMMA ToggleGood ==
  ASSUME NEW m \in Machines, m.step = "appear", m.leaf = "toggle", NEW q, NEW v, NEW d,
         Common(me, m.step, q, v, d, made, ground), Still(me, m.step, q),
         Within(q, PicksOver(ground)), ~robbed => ~Holds(v, Ev("arrived")),
         "use" \notin d => ~InUse(q, v),
         "toggle" \notin d => ~Holds(q, Op("invisible")) /\ ~me.visible
  PROVE  Good(Send(m, "invisible", "none", 0), q, v, d)
<1> DEFINE o == [m EXCEPT !.timer = TRUE]
           r == Request("invisible", "none", 0)
           p == q \o <<r>>
<1>1. q \in Seq(RequestSet)
  BY DEF Common
<1>2. "invisible" \in Ops /\ "none" \in Names
  BY Texts DEF Ops
<1>3. Send(m, "invisible", "none", 0) = Sent(m, r) /\ r \in RequestSet /\ r.op = "invisible"
  BY <1>2, SendFields
<1>4. o \in Machines /\ o.step = "appear" /\ o.leaf = "toggle" /\ o.timer = TRUE
  BY TimerFields
<1> HIDE DEF r, o
<1>5. r \in Legal(made)
  BY <1>3, LegalIs
<1>6. Common(me, m.step, p, v, d, made, ground)
  BY <1>1, <1>3, <1>5, CommonSent
<1>7. /\ r \notin Op("use") /\ r \in PicksOver(ground) /\ r \in Homeward
      /\ r \notin Op("walk") /\ r \notin Op("pick")
  BY <1>3, Sorts
<1>8. /\ \A A : Holds(p, A) <=> (Holds(q, A) \/ r \in A)
      /\ \A A : Within(p, A) <=> (Within(q, A) /\ r \in A)
  BY <1>1, <1>3, SentOne
<1> HIDE DEF p
<1>9. Walking(me, o, p)
  BY <1>4, <1>7, <1>8 DEF Walking, Still
<1>10. Picking(o, p, v, made, ground, robbed)
  BY <1>4, <1>7, <1>8 DEF Picking
<1>11. Using(me, o, p, v, d)
  BY <1>4, <1>7, <1>8 DEF Using, InUse
<1>12. Stocked(me, o, d) /\ Toggling(me, o, p, v, d)
  BY <1>4, <1>7, <1>8 DEF Stocked, Toggling
<1>13. Waiting(me, o, v)
  BY <1>4 DEF Waiting, WalkLeaves
<1>14. Fits(me, o, p, v, d, made, ground, robbed)
  BY <1>4, <1>6, <1>9, <1>10, <1>11, <1>12, <1>13, LeafSteps DEF Fits
<1> QED BY <1>3, <1>14, GoodSent DEF o, p

LEMMA SpawnNextItemGood ==
  ASSUME NEW m \in Machines, NEW q, NEW v, NEW d, Idle(me, m.step, q, v, d, made, ground, robbed),
         m.step \in {"vitals", "items", "repair"}, Provided(me, m, d),
         m.step = "items" /\ Potions \subseteq me.bag => Good(Done(m), q, v, d)
  PROVE  Good(SpawnNextItem(m), q, v, d)
<1> DEFINE k == Lacking(m.wants)
           n == [m EXCEPT !.wants = k]
<1>1. me \in Character /\ m.wants \in Seq(Kinds) /\ m.uses \in Seq(Used)
  BY DEF Idle, Common, Machines
<1>2. /\ k \in Seq(Kinds) /\ (k = <<>> => Range(m.wants) \subseteq me.bag)
      /\ Range(m.wants) \subseteq me.bag \cup Range(k)
  BY <1>1, LackingIs
<1> HIDE DEF k
<1>3. n.step = m.step /\ n.uses = m.uses /\ n.wants = k
  BY <1>2 DEF Machines
<1>4. ASSUME k # <<>> PROVE Good(MakeItem(m, k), q, v, d)
  <2>1. Provided(me, n, d)
    BY <1>2, <1>3 DEF Provided
  <2> QED BY <1>2, <1>4, <2>1, MakeItemGood
<1>5. ASSUME k = <<>>, m.step = "vitals" PROVE Good(Use(m, Head(m.uses)), q, v, d)
  <2>1. m.uses # <<>>
    BY <1>5 DEF Provided
  <2>2. PICK x \in Used : x = Head(m.uses)
    BY <1>1, <2>1
  <2>3. Good(Use(m, x), q, v, d)
    BY <1>5, <2>1, UseGood
  <2> QED BY <2>2, <2>3
<1>6. ASSUME k = <<>>, m.step = "items" PROVE Good(Done(m), q, v, d)
  BY <1>2, <1>6 DEF Provided
<1>7. ASSUME k = <<>>, m.step = "repair" PROVE Good(Use(m, "hammer"), q, v, d)
  <2>1. "use" \notin d => "hammer" \in me.bag
    BY <1>2, <1>7 DEF Provided
  <2>2. PICK x \in Used : x = "hammer"
    BY DEF Used
  <2>3. Good(Use(m, x), q, v, d)
    BY <1>7, <2>1, <2>2, UseGood
  <2> QED BY <2>2, <2>3
<1>8. SpawnNextItem(m) = IF k # <<>> THEN MakeItem(m, k)
                         ELSE CASE m.step = "vitals" -> Use(m, Head(m.uses))
                                [] m.step = "items"  -> Done(m)
                                [] m.step = "repair" -> Use(m, "hammer")
  BY DEF SpawnNextItem, k
<1>9. CASE k # <<>>
  BY <1>4, <1>8, <1>9
<1>10. CASE k = <<>>
  BY <1>5, <1>6, <1>7, <1>8, <1>10
<1> QED BY <1>9, <1>10

LEMMA NoMachineFields ==
  ASSUME NEW s \in Range(Sequence), NEW b, b = [NoMachine EXCEPT !.step = s]
  PROVE  b \in Machines /\ b.step = s
<1>1. "none" \in Leaves /\ "none" \in Names /\ <<>> \in Seq(Kinds) /\ <<>> \in Seq(Used)
  BY Texts DEF Leaves
<1> QED BY <1>1 DEF NoMachine, Machines

LEMMA BeginGood ==
  ASSUME NEW s \in Range(Sequence), NEW q, NEW v, NEW d, HasWork(s),
         Idle(me, s, q, v, d, made, ground, robbed)
  PROVE  Good(Begin(s), q, v, d)
<1> DEFINE b == [NoMachine EXCEPT !.step = s]
<1>1. b \in Machines /\ b.step = s
  BY NoMachineFields
<1> HIDE DEF b
<1>2. Idle(me, b.step, q, v, d, made, ground, robbed)
  BY <1>1
<1>3. me \in Character /\ q \in Seq(RequestSet)
  BY DEF Idle, Common
<1>4. CASE s = "hat"
  <2>1. "unequip" \in MoveLeaves /\ "avatar" \in Slots /\ <<b.step, "unequip">> \in LeafOf
    BY <1>1, <1>4, LeafSteps DEF MoveLeaves, Slots
  <2>2. Good(Move(b, "unequip", "avatar"), q, v, d)
    BY <1>1, <1>2, <2>1, MoveGood
  <2> QED BY <1>4, <2>2 DEF Begin, b
<1>5. CASE s = "dispel"
  <2>1. Good(DispelNext(b), q, v, d)
    BY <1>1, <1>2, <1>5, DispelNextGood DEF HasWork
  <2> QED BY <1>5, <2>1 DEF Begin, b
<1>6. CASE s = "walk"
  <2>1. "walk" \in WalkLeaves /\ <<b.step, "walk">> \in LeafOf
    BY <1>1, <1>6, LeafSteps DEF WalkLeaves
  <2>2. me.going = "nowhere" /\ Within(q, Homeward)
    <3>1. s \notin PastWalk
      BY <1>6 DEF PastWalk, PastVitals, PastItems, PastRepair, PastPvp, PastEquip, PastAppear,
                  PastCooldowns
    <3> QED BY <1>3, <3>1, Narrower DEF Idle, Still
  <2>3. IdleApart(me, b.step, q, v, d, made, ground, robbed) /\ Provided(me, b, d)
    BY <1>1, <1>2, <1>6 DEF Idle, IdleApart, Provided
  <2>4. Good(WalkTo(b, "walk"), q, v, d)
    BY <1>1, <2>1, <2>2, <2>3, WalkToGood
  <2> QED BY <1>6, <2>4 DEF Begin, b
<1>7. CASE s = "vitals"
  <2>1. Good(Cure(b), q, v, d)
    BY <1>1, <1>2, <1>7, CureGood DEF HasWork
  <2> QED BY <1>7, <2>1 DEF Begin, b
<1>8. CASE s = "items"
  <2> DEFINE k == Lacking(Requirements)
             n == [b EXCEPT !.wants = k]
  <2>1. /\ k \in Seq(Kinds) /\ (k = <<>> => Potions \subseteq me.bag)
        /\ Potions \subseteq me.bag \cup Range(k)
    BY <1>3, Texts, LackingIs
  <2>2. k # <<>>
    BY <1>8, <2>1 DEF HasWork
  <2> HIDE DEF k
  <2>3. n.step = s /\ n.wants = k
    BY <1>1, <2>1 DEF Machines
  <2>4. Provided(me, n, d)
    BY <1>8, <2>1, <2>3 DEF Provided
  <2>5. Good(MakeItem(b, k), q, v, d)
    BY <1>1, <1>2, <1>8, <2>1, <2>2, <2>4, MakeItemGood
  <2> QED BY <1>8, <2>5 DEF Begin, b, k
<1>9. CASE s = "repair"
  <2>1. ASSUME "hammer" \in me.bag PROVE Good(Use(b, "hammer"), q, v, d)
    <3>1. "hammer" \in Used
      BY DEF Used
    <3> QED BY <1>1, <1>2, <1>9, <2>1, <3>1, UseGood
  <2>2. Good(MakeItem(b, <<"hammer">>), q, v, d)
    <3> DEFINE k == <<"hammer">>
               n == [b EXCEPT !.wants = k]
    <3>1. k \in Seq(Kinds) /\ k # <<>> /\ "hammer" \in Range(k)
      BY Texts DEF Used, Range
    <3> HIDE DEF k
    <3>2. n.step = s /\ n.wants = k
      BY <1>1, <3>1 DEF Machines
    <3>3. Provided(me, n, d)
      BY <1>9, <3>1, <3>2 DEF Provided
    <3>4. Good(MakeItem(b, k), q, v, d)
      BY <1>1, <1>2, <1>9, <3>1, <3>3, MakeItemGood
    <3> QED BY <3>4 DEF k
  <2> QED BY <1>9, <2>1, <2>2 DEF Begin, b
<1>10. CASE s = "pvp"
  <2> DEFINE n == Leaf(b, "enable", "none")
             r == Request("enable", "none", 0)
  <2>1. "enable" \in Leaves /\ "enable" \in Ops /\ "none" \in Names
          /\ "enable" \in Neutral \ {"rest", "cooldowns", "countdown"}
    BY Texts DEF Leaves, Ops, Neutral
  <2>2. n \in Machines /\ n.step = s /\ n.leaf = "enable"
    BY <1>1, <2>1, LeafIs
  <2> HIDE DEF n
  <2>3. Send(n, "enable", "none", 0) = Sent(n, r) /\ r \in RequestSet /\ r.op = "enable"
    BY <2>1, <2>2, SendFields
  <2> HIDE DEF r
  <2>4. r \in Legal(made) /\ s \notin PastPvp
    BY <1>10, <2>3, LegalIs, PvpSteps
  <2>5. Stocked(me, n, d) /\ <<n.step, n.leaf>> \in LeafOf
    BY <1>10, <2>2, LeafSteps DEF Stocked
  <2>6. Good(Sent(n, r), q, v, d)
    BY <1>10, <2>1, <2>2, <2>3, <2>4, <2>5, NeutralSent
  <2> QED BY <1>10, <2>3, <2>6 DEF Begin, b, n
<1>11. CASE s = "equip"
  <2>1. "equip" \in MoveLeaves /\ me.hat \in Slots /\ <<b.step, "equip">> \in LeafOf
    BY <1>1, <1>3, <1>11, LeafSteps DEF MoveLeaves, Character
  <2>2. Good(Move(b, "equip", me.hat), q, v, d)
    BY <1>1, <1>2, <2>1, MoveGood
  <2> QED BY <1>11, <2>2 DEF Begin, b
<1>12. CASE s = "appear"
  <2> DEFINE n == Leaf(b, "toggle", "none")
  <2>1. "toggle" \in Leaves /\ "none" \in Names
    BY Texts DEF Leaves
  <2>2. n \in Machines /\ n.step = s /\ n.leaf = "toggle"
    BY <1>1, <2>1, LeafIs
  <2> HIDE DEF n
  <2>3. ~me.visible
    BY <1>12 DEF HasWork
  <2>4. Good(Send(n, "invisible", "none", 0), q, v, d)
    BY <1>12, <2>2, <2>3, ToggleGood DEF Idle
  <2> QED BY <1>12, <2>4 DEF Begin, b, n
<1>13. CASE s = "cooldowns"
  <2> DEFINE n == Leaf(b, "cooldowns", "none")
  <2>1. "cooldowns" \in Leaves /\ "none" \in Names /\ "cooldowns" \in Neutral
    BY Texts DEF Leaves, Neutral
  <2>2. n \in Machines /\ n.step = s /\ n.leaf = "cooldowns"
    BY <1>1, <2>1, LeafIs
  <2> HIDE DEF n
  <2>3. Stocked(me, n, d) /\ Waiting(me, n, v) /\ <<n.step, n.leaf>> \in LeafOf
    BY <1>13, <2>2, LeafSteps DEF Stocked, Waiting, HasWork, WalkLeaves
  <2>4. Good(Stay(n), q, v, d)
    BY <1>13, <2>1, <2>2, <2>3, NeutralStay
  <2> QED BY <1>13, <2>4 DEF Begin, b, n
<1>14. CASE s = "ready"
  <2> DEFINE n == Leaf(b, "none", "none")
  <2>1. "none" \in Leaves /\ "none" \in Names /\ "none" \in Neutral
    BY Texts DEF Leaves, Neutral
  <2>2. n \in Machines /\ n.step = s /\ n.leaf = "none"
    BY <1>1, <2>1, LeafIs
  <2> HIDE DEF n
  <2>3. Stocked(me, n, d) /\ Waiting(me, n, v) /\ <<n.step, n.leaf>> \in LeafOf
    BY <1>14, <2>2, LeafSteps DEF Stocked, Waiting, WalkLeaves
  <2>4. Good(Stay(n), q, v, d)
    BY <1>14, <2>1, <2>2, <2>3, NeutralStay
  <2> QED BY <1>14, <2>4 DEF Begin, b, n
<1>15. s \in {"hat", "dispel", "walk", "vitals", "items", "repair", "pvp", "equip", "appear",
              "cooldowns", "ready"}
  BY DEF Range, Sequence
<1> QED BY <1>4, <1>5, <1>6, <1>7, <1>8, <1>9, <1>10, <1>11, <1>12, <1>13, <1>14, <1>15

LEMMA DoneGood ==
  ASSUME NEW m \in Machines, NEW q, NEW v, NEW d, Passed(me, m.step, q, d),
         IdleApart(me, m.step, q, v, d, made, ground, robbed)
  PROVE  Good(Done(m), q, v, d)
<1>1. m.step \in Range(Sequence) /\ q \in Seq(RequestSet) /\ v \in Seq(EventSet)
  BY DEF Machines, IdleApart, Common
<1>2. /\ NextStep(m.step) \in Range(Sequence) /\ HasWork(NextStep(m.step))
      /\ Idle(me, NextStep(m.step), q, v, d, made, ground, robbed)
  BY <1>1, Onward
<1>3. Good(Begin(NextStep(m.step)), q, v, d)
  BY <1>2, BeginGood
<1> QED BY <1>3 DEF Done

LEMMA IdleDone ==
  ASSUME NEW m \in Machines, NEW q, NEW v, NEW d, Idle(me, m.step, q, v, d, made, ground, robbed),
         m.step \notin {"walk", "ready"},
         m.step = "dispel" => me.buffs = {},
         m.step = "vitals" => me.ailments = {},
         m.step = "items" => Potions \subseteq me.bag,
         m.step = "repair" => ~me.broken \/ "use" \in d,
         m.step = "pvp" => me.mode = "yellow",
         m.step = "equip" => me.hat = "avatar" /\ Within(q, Closing),
         m.step = "appear" => me.visible \/ "toggle" \in d,
         m.step = "cooldowns" => me.cooling = {}
  PROVE  Good(Done(m), q, v, d)
<1>1. IdleApart(me, m.step, q, v, d, made, ground, robbed) /\ Still(me, m.step, q)
  BY DEF Idle, IdleApart
<1>2. Passed(me, m.step, q, d)
  BY <1>1 DEF Passed
<1> QED BY <1>1, <1>2, DoneGood

LEMMA SpawnOnward ==
  ASSUME NEW m \in Machines, NEW q, NEW v, NEW d, Idle(me, m.step, q, v, d, made, ground, robbed),
         m.step \in {"vitals", "items", "repair"}, Provided(me, m, d)
  PROVE  Good(SpawnNextItem(m), q, v, d)
<1>1. m.step = "items" /\ Potions \subseteq me.bag => Good(Done(m), q, v, d)
  BY IdleDone
<1> QED BY <1>1, SpawnNextItemGood

LEMMA VitalsAgainGood ==
  ASSUME NEW m \in Machines, NEW q, NEW v, NEW d, Idle(me, m.step, q, v, d, made, ground, robbed),
         m.step = "vitals"
  PROVE  Good(VitalsAgain(m), q, v, d)
<1> DEFINE n == Leaf(m, "rest", "none")
<1>1. ASSUME m.potion PROVE Good(Stay(n), q, v, d)
  <2>1. "rest" \in Leaves /\ "none" \in Names /\ "rest" \in Neutral
    BY Texts DEF Leaves, Neutral
  <2>2. n \in Machines /\ n.step = m.step /\ n.leaf = "rest" /\ n.potion = m.potion
    BY <2>1, LeafIs
  <2> HIDE DEF n
  <2>3. Stocked(me, n, d) /\ Waiting(me, n, v) /\ <<n.step, n.leaf>> \in LeafOf
    BY <2>2, LeafSteps DEF Stocked, Waiting, WalkLeaves
  <2> QED BY <1>1, <2>1, <2>2, <2>3, NeutralStay
<1>2. ASSUME me.ailments = {} PROVE Good(Done(m), q, v, d)
  BY <1>2, IdleDone
<1>3. ASSUME me.ailments # {} PROVE Good(Cure(m), q, v, d)
  BY <1>3, CureGood
<1> QED BY <1>1, <1>2, <1>3 DEF VitalsAgain

LEMMA UseIsDoneGood ==
  ASSUME NEW m \in Machines, NEW q, NEW v, NEW d, Idle(me, m.step, q, v, d, made, ground, robbed),
         m.step \in {"vitals", "repair"}, m.step = "vitals" => m.uses # <<>>,
         m.step = "repair" => ~me.broken \/ "use" \in d
  PROVE  Good(UseIsDone(m), q, v, d)
<1> DEFINE left == Tail(m.uses)
           u == [m EXCEPT !.uses = left]
<1>1. CASE m.step = "repair"
  <2>1. Good(Done(m), q, v, d)
    BY <1>1, IdleDone
  <2> QED BY <1>1, <2>1 DEF UseIsDone
<1>2. CASE m.step = "vitals"
  <2>1. m.uses \in Seq(Used) /\ m.uses # <<>>
    BY <1>2 DEF Machines
  <2>2. left \in Seq(Used)
    BY <2>1
  <2>3. UseIsDone(m) = IF left = <<>> THEN VitalsAgain(u) ELSE Use(u, Head(left))
    BY <1>2 DEF UseIsDone
  <2> HIDE DEF left
  <2>4. u \in Machines /\ u.step = m.step /\ u.uses = left
    BY <2>2 DEF Machines
  <2> HIDE DEF u
  <2>5. Good(VitalsAgain(u), q, v, d)
    BY <1>2, <2>4, VitalsAgainGood
  <2>6. ASSUME left # <<>> PROVE Good(Use(u, Head(left)), q, v, d)
    <3>1. PICK x \in Used : x = Head(left)
      BY <2>2, <2>6
    <3>2. Good(Use(u, x), q, v, d)
      BY <1>2, <2>4, <2>6, UseGood
    <3> QED BY <3>1, <3>2
  <2> QED BY <2>3, <2>5, <2>6
<1> QED BY <1>1, <1>2

-----------------------------------------------------------------------------
(* Every update of an active leaf leaves what fits.  A timer runs out when  *)
(* there is nothing to come, or is remembered.                             *)

Timely(m, q, v, d, e) ==
  e.kind = "timeout" => m.timer /\ ((q = <<>> /\ v = <<>>) \/ m.leaf \in d)

LEMMA UpdateMoveGood ==
  ASSUME NEW m \in Machines, NEW q, NEW e \in EventSet, NEW v \in Seq(EventSet), NEW d,
         Fits(me, m, q, <<e>> \o v, d, made, ground, robbed), m.leaf \in MoveLeaves
  PROVE  Good(UpdateMove(m, e), q, v, d)
<1> DEFINE failed == e.kind \in {"moveFailed", "timeout"}
           n == IF failed THEN Quiet(m) ELSE m
<1>1. n \in Machines /\ n.step = m.step /\ n.leaf = m.leaf /\ n.potion = m.potion
  BY QuietFields
<1>2. /\ <<m.step, m.leaf>> \in LeafOf /\ m.step \in {"hat", "equip"} /\ m.leaf \in Neutral \ {"rest"}
      /\ (m.step = "hat" <=> m.leaf \in {"unequip", "shift"})
  BY LeafSteps DEF Fits, MoveLeaves, Neutral
<1>3. Idle(me, m.step, q, v, d, made, ground, robbed)
  BY <1>2, IdleAtNeutral, IdleAfter
<1>4. UpdateMove(m, e) =
        IF Is(e, "moved", m.leaf)
        THEN IF m.leaf = "unequip" /\ me.roomy THEN Move(m, "shift", "first") ELSE Done(m)
        ELSE IF failed /\ m.tries >= MaxAttempts THEN Throws(n)
        ELSE IF n.timer THEN Stay(n) ELSE TryMove(n)
  BY DEF UpdateMove
<1> HIDE DEF n, failed
<1>5. Good(TryMove(n), q, v, d)
  BY <1>1, <1>2, <1>3, TryMoveGood
<1>6. Good(Stay(n), q, v, d) /\ Good(Throws(n), q, v, d)
  <2>1. Stocked(me, n, d) /\ Waiting(me, n, v)
    BY <1>1, <1>2 DEF Stocked, Waiting, MoveLeaves, WalkLeaves
  <2> QED BY <1>1, <1>2, <1>3, <2>1, NeutralStay DEF Throws
<1>7. ASSUME m.leaf = "unequip" PROVE Good(Move(m, "shift", "first"), q, v, d)
  <2>1. "shift" \in MoveLeaves /\ "first" \in Slots /\ <<m.step, "shift">> \in LeafOf
    BY <1>2, <1>7, LeafSteps DEF MoveLeaves, Slots
  <2> QED BY <1>3, <2>1, MoveGood
<1>8. ASSUME Is(e, "moved", m.leaf) PROVE Good(Done(m), q, v, d)
  <2>1. ASSUME m.step = "equip" PROVE me.hat = "avatar" /\ Within(q, Closing)
    <3>1. m.leaf = "equip"
      BY <1>2, <2>1 DEF MoveLeaves
    <3>2. e \in Equipped
      BY <1>8, <3>1, Sorts DEF Is
    <3>3. Holds(<<e>> \o v, Equipped)
      BY <3>2, Front
    <3> QED BY <3>3 DEF Fits, Common, Dressing
  <2> QED BY <1>2, <1>3, <2>1, IdleDone
<1> QED BY <1>4, <1>5, <1>6, <1>7, <1>8

LEMMA UpdateDispelGood ==
  ASSUME NEW m \in Machines, NEW q, NEW e \in EventSet, NEW v \in Seq(EventSet), NEW d,
         Fits(me, m, q, <<e>> \o v, d, made, ground, robbed), m.leaf = "dispel"
  PROVE  Good(UpdateDispel(m, e), q, v, d)
<1>1. <<m.step, m.leaf>> \in LeafOf /\ m.step = "dispel" /\ m.leaf \in Neutral
  BY LeafSteps DEF Fits, Neutral
<1>2. Idle(me, m.step, q, v, d, made, ground, robbed)
  BY <1>1, IdleAtNeutral, IdleAfter
<1>3. ASSUME m.what # "none" PROVE Good(Stay(m), q, v, d)
  <2>1. m.timer
    BY <1>3 DEF Fits, Waiting
  <2>2. Stocked(me, m, d) /\ Waiting(me, m, v)
    BY <1>1, <2>1 DEF Stocked, Waiting, WalkLeaves
  <2> QED BY <1>1, <1>2, <2>2, NeutralStay
<1>4. ASSUME me.buffs = {} PROVE Good(Done(m), q, v, d)
  BY <1>1, <1>2, <1>4, IdleDone
<1>5. ASSUME me.buffs # {} PROVE Good(DispelNext(m), q, v, d)
  BY <1>1, <1>2, <1>5, DispelNextGood
<1> QED BY <1>3, <1>4, <1>5 DEF UpdateDispel

LEMMA UpdateRestGood ==
  ASSUME NEW m \in Machines, NEW q, NEW e \in EventSet, NEW v \in Seq(EventSet), NEW d,
         Fits(me, m, q, <<e>> \o v, d, made, ground, robbed), m.leaf = "rest"
  PROVE  Good(UpdateRest(m, e), q, v, d)
<1>1. m.step = "vitals" /\ m.leaf \in Neutral
  BY LeafSteps DEF Fits, Neutral
<1>2. Idle(me, m.step, q, v, d, made, ground, robbed)
  BY <1>1, IdleAtNeutral, IdleAfter
<1> QED BY <1>1, <1>2, VitalsAgainGood DEF UpdateRest

LEMMA UpdateEnableGood ==
  ASSUME NEW m \in Machines, NEW q, NEW e \in EventSet, NEW v \in Seq(EventSet), NEW d,
         Fits(me, m, q, <<e>> \o v, d, made, ground, robbed), m.leaf \in {"enable", "countdown"}
  PROVE  Good(UpdateEnable(m, e), q, v, d)
<1>1. <<m.step, m.leaf>> \in LeafOf /\ m.step = "pvp" /\ m.leaf \in Neutral \ {"rest", "cooldowns"}
  BY LeafSteps DEF Fits, Neutral
<1>2. Idle(me, m.step, q, v, d, made, ground, robbed)
  BY <1>1, IdleAtNeutral, IdleAfter
<1>3. /\ e \in Told(me, made, ground)
      /\ me.mode = "counting" \/ (e \in Ev("countdown") => Holds(v, EvOf("pvpSuccess", "none")))
  <2>1. Common(me, m.step, q, <<e>> \o v, d, made, ground)
    BY DEF Fits
  <2>2. me.mode = "counting" \/ Followed(<<e>> \o v, Ev("countdown"), EvOf("pvpSuccess", "none"))
    BY <2>1 DEF Common, Announced
  <2>3. e \in Told(me, made, ground)
    BY <2>1, CommonAfter
  <2> QED BY <2>2, <2>3, Front
<1>4. ASSUME e.kind = "countdown" PROVE Good(Stay(Leaf(m, "countdown", "none")), q, v, d)
  <2> DEFINE n == Leaf(m, "countdown", "none")
  <2>1. "countdown" \in Leaves /\ "none" \in Names /\ "countdown" \in Neutral
    BY Texts DEF Leaves, Neutral
  <2>2. n \in Machines /\ n.step = m.step /\ n.leaf = "countdown"
    BY <2>1, LeafIs
  <2> HIDE DEF n
  <2>3. me.mode = "counting" \/ Holds(v, EvOf("pvpSuccess", "none"))
    BY <1>3, <1>4, Sorts
  <2>4. Stocked(me, n, d) /\ Waiting(me, n, v) /\ <<n.step, n.leaf>> \in LeafOf
    BY <1>1, <2>2, <2>3, LeafSteps DEF Stocked, Waiting, WalkLeaves
  <2>5. Good(Stay(n), q, v, d)
    BY <1>2, <2>1, <2>2, <2>4, NeutralStay
  <2> QED BY <2>5 DEF n
<1>5. ASSUME e.kind = "pvpSuccess" PROVE Good(Done(m), q, v, d)
  <2>1. me.mode = "yellow"
    BY <1>3, <1>5 DEF Told
  <2> QED BY <1>1, <1>2, <2>1, IdleDone
<1>6. ASSUME e.kind # "pvpSuccess" PROVE Waiting(me, m, v)
  <2>1. e \notin EvOf("pvpSuccess", "none")
    BY <1>6, Sorts
  <2>2. Holds(<<e>> \o v, EvOf("pvpSuccess", "none")) => Holds(v, EvOf("pvpSuccess", "none"))
    BY <2>1, Front
  <2> QED BY <2>2 DEF Fits, Waiting, WalkLeaves
<1>7. Stocked(me, m, d)
  BY <1>1 DEF Stocked
<1>8. ASSUME e.kind = "timeout" PROVE Good(Send(m, "enable", "none", 0), q, v, d)
  <2> DEFINE r == Request("enable", "none", 0)
  <2>1. "enable" \in Ops /\ "none" \in Names
    BY Texts DEF Ops
  <2>2. Send(m, "enable", "none", 0) = Sent(m, r) /\ r \in RequestSet /\ r.op = "enable"
    BY <2>1, SendFields
  <2> HIDE DEF r
  <2>3. r \in Legal(made) /\ m.step \notin PastPvp
    BY <1>1, <2>2, LegalIs, PvpSteps
  <2>4. Waiting(me, m, v)
    BY <1>6, <1>8
  <2>5. Good(Sent(m, r), q, v, d)
    BY <1>1, <1>2, <1>7, <2>2, <2>3, <2>4, NeutralSent
  <2> QED BY <2>2, <2>5
<1>9. ASSUME e.kind # "pvpSuccess" PROVE Good(Stay(m), q, v, d)
  BY <1>1, <1>2, <1>6, <1>7, <1>9, NeutralStay
<1> QED BY <1>4, <1>5, <1>8, <1>9 DEF UpdateEnable

LEMMA UpdateCooldownsGood ==
  ASSUME NEW m \in Machines, NEW q, NEW e \in EventSet, NEW v \in Seq(EventSet), NEW d,
         Fits(me, m, q, <<e>> \o v, d, made, ground, robbed), m.leaf = "cooldowns"
  PROVE  Good(UpdateCooldowns(m, e), q, v, d)
<1>1. <<m.step, m.leaf>> \in LeafOf /\ m.step = "cooldowns" /\ m.leaf \in Neutral
  BY LeafSteps DEF Fits, Neutral
<1>2. Idle(me, m.step, q, v, d, made, ground, robbed)
  BY <1>1, IdleAtNeutral, IdleAfter
<1>3. ASSUME me.cooling = {} PROVE Good(Done(m), q, v, d)
  BY <1>1, <1>2, <1>3, IdleDone
<1>4. ASSUME me.cooling # {} PROVE Good(Stay(m), q, v, d)
  <2>1. Stocked(me, m, d) /\ Waiting(me, m, v)
    BY <1>1, <1>4 DEF Stocked, Waiting, WalkLeaves
  <2> QED BY <1>1, <1>2, <2>1, NeutralStay
<1> QED BY <1>3, <1>4 DEF UpdateCooldowns

LEMMA UpdateNoneGood ==
  ASSUME NEW m \in Machines, NEW q, NEW e \in EventSet, NEW v \in Seq(EventSet), NEW d,
         Fits(me, m, q, <<e>> \o v, d, made, ground, robbed), m.leaf = "none"
  PROVE  Good(Stay(m), q, v, d)
<1>1. <<m.step, m.leaf>> \in LeafOf /\ m.step = "ready" /\ m.leaf \in Neutral
  BY LeafSteps DEF Fits, Neutral
<1>2. Idle(me, m.step, q, v, d, made, ground, robbed)
  BY <1>1, IdleAtNeutral, IdleAfter
<1>3. Stocked(me, m, d) /\ Waiting(me, m, v)
  BY <1>1 DEF Stocked, Waiting, WalkLeaves
<1> QED BY <1>1, <1>2, <1>3, NeutralStay

LEMMA UpdateSpawnGood ==
  ASSUME NEW m \in Machines, NEW q, NEW e \in EventSet, NEW v \in Seq(EventSet), NEW d,
         Fits(me, m, q, <<e>> \o v, d, made, ground, robbed), m.leaf = "spawn"
  PROVE  Good(UpdateSpawn(m, e), q, v, d)
<1>1. /\ <<m.step, m.leaf>> \in LeafOf /\ m.step \in {"vitals", "items", "repair"}
      /\ m.leaf \in Neutral
  BY LeafSteps DEF Fits, Neutral
<1>2. Idle(me, m.step, q, v, d, made, ground, robbed)
  BY <1>1, IdleAtNeutral, IdleAfter
<1>3. Provided(me, m, d) /\ m.timer
  <2>1. Stocked(me, m, d) /\ Waiting(me, m, <<e>> \o v)
    BY DEF Fits
  <2> QED BY <2>1, ProvidedStocked DEF Waiting
<1>4. /\ q \in Seq(RequestSet) /\ Common(me, m.step, q, v, d, made, ground)
      /\ me.going = "nowhere" /\ me.spot = "pvp" /\ Within(q, Homeward)
      /\ Within(q, PicksOver(ground)) /\ (~robbed => ~Holds(v, Ev("arrived")))
      /\ "use" \notin d => ~InUse(q, v)
      /\ "toggle" \notin d => ~Holds(q, Op("invisible"))
      /\ ground \subseteq DOMAIN made
  BY <1>1, <1>2, PvpSteps DEF Idle, Common, Still
<1>5. ASSUME e.kind = "spawned", e.item \in ground, made[e.item] = m.what
      PROVE  Good(Send([Leaf(m, "pick", m.what) EXCEPT !.item = e.item], "pick", "none", e.item), q, v, d)
  <2> DEFINE l == Leaf(m, "pick", m.what)
             n == [l EXCEPT !.item = e.item]
             o == [n EXCEPT !.timer = TRUE]
             r == Request("pick", "none", e.item)
             p == q \o <<r>>
  <2>1. "pick" \in Leaves /\ "pick" \in Ops /\ "none" \in Names /\ m.what \in Names /\ e.item \in Nat
    BY Texts DEF Leaves, Ops, Machines, EventSet
  <2>2. l \in Machines /\ l.step = m.step /\ l.leaf = "pick" /\ l.what = m.what /\ l.uses = m.uses
          /\ l.wants = m.wants /\ l.gone = FALSE /\ l.got = FALSE
    BY <2>1, LeafIs
  <2> HIDE DEF l
  <2>3. n \in Machines /\ n.step = m.step /\ n.leaf = "pick" /\ n.what = m.what /\ n.uses = m.uses
          /\ n.wants = m.wants /\ n.gone = FALSE /\ n.got = FALSE /\ n.item = e.item
    BY <2>1, <2>2 DEF Machines
  <2> HIDE DEF n
  <2>4. o \in Machines /\ o.step = m.step /\ o.leaf = "pick" /\ o.what = m.what /\ o.uses = m.uses
          /\ o.wants = m.wants /\ o.gone = FALSE /\ o.got = FALSE /\ o.item = e.item /\ o.timer = TRUE
    BY <2>3, TimerFields
  <2>5. Send(n, "pick", "none", e.item) = Sent(n, r) /\ r \in RequestSet /\ r.op = "pick"
          /\ r.item = e.item
    BY <2>1, <2>3, SendFields
  <2> HIDE DEF o, r
  <2>6. r \in Legal(made) /\ m.step \notin PastPvp
    BY <1>1, <1>4, <1>5, <2>5, LegalIs, PvpSteps
  <2>7. Common(me, m.step, p, v, d, made, ground)
    BY <1>4, <2>5, <2>6, CommonSent
  <2>8. r \in Homeward /\ r \in PicksOf(e.item, ground) /\ r \notin Op("use") /\ r \notin Op("invisible")
    BY <2>5, Sorts
  <2>9. /\ \A A : Holds(p, A) <=> (Holds(q, A) \/ r \in A)
        /\ \A A : Within(p, A) <=> (Within(q, A) /\ r \in A)
    BY <1>4, <2>5, SentOne
  <2> HIDE DEF p
  <2>10. Walking(me, o, p)
    BY <1>4, <2>4, <2>8, <2>9 DEF Walking
  <2>11. Picking(o, p, v, made, ground, robbed)
    <3>1. Within(q, PicksOf(e.item, ground)) /\ (~robbed => OnceIn(v, Ev("arrived")))
      BY <1>4, Narrower, More
    <3>2. o.item \in DOMAIN made /\ made[o.item] = o.what /\ o.item \in ground
      BY <1>4, <1>5, <2>4
    <3>3. Within(p, PicksOf(o.item, ground))
      BY <2>4, <2>8, <2>9, <3>1
    <3> QED BY <1>4, <2>4, <3>1, <3>2, <3>3 DEF Picking
  <2>12. Using(me, o, p, v, d)
    BY <1>4, <2>4, <2>8, <2>9 DEF Using, InUse
  <2>13. Stocked(me, o, d)
    BY <1>3, <2>4 DEF Provided, Stocked
  <2>14. Toggling(me, o, p, v, d)
    BY <1>1, <1>4, <2>4, <2>8, <2>9 DEF Toggling
  <2>15. Waiting(me, o, v)
    BY <2>4 DEF Waiting, WalkLeaves
  <2>16. Fits(me, o, p, v, d, made, ground, robbed)
    BY <1>1, <2>4, <2>7, <2>10, <2>11, <2>12, <2>13, <2>14, <2>15, LeafSteps DEF Fits
  <2>17. Good(Sent(n, r), q, v, d)
    BY <2>3, <2>16, GoodSent DEF o, p
  <2> QED BY <2>5, <2>17 DEF n, l
<1>6. Good(SpawnNextItem(m), q, v, d)
  BY <1>1, <1>2, <1>3, SpawnOnward
<1>7. Good(SpawnNextItem([m EXCEPT !.tries = @ + 1]), q, v, d)
  <2> DEFINE n == [m EXCEPT !.tries = @ + 1]
  <2>1. n \in Machines /\ n.step = m.step /\ n.uses = m.uses /\ n.wants = m.wants
    <3>1. m.tries + 1 \in Nat
      BY DEF Machines
    <3>2. n \in Machines
      BY <3>1 DEF Machines
    <3>3. n.step = m.step /\ n.uses = m.uses /\ n.wants = m.wants
      BY DEF Machines
    <3> QED BY <3>2, <3>3
  <2> HIDE DEF n
  <2>2. Provided(me, n, d)
    BY <1>3, <2>1 DEF Provided
  <2>3. Good(SpawnNextItem(n), q, v, d)
    BY <1>1, <1>2, <2>1, <2>2, SpawnOnward
  <2> QED BY <2>3 DEF n
<1>8. Good(WalkTo([m EXCEPT !.tries = 0], "nudge"), q, v, d)
  <2> DEFINE n == [m EXCEPT !.tries = 0]
  <2>1. n \in Machines /\ n.step = m.step /\ n.uses = m.uses /\ n.wants = m.wants
    <3>1. n \in Machines
      BY DEF Machines
    <3>2. n.step = m.step /\ n.uses = m.uses /\ n.wants = m.wants
      BY DEF Machines
    <3> QED BY <3>1, <3>2
  <2> HIDE DEF n
  <2>2. Provided(me, n, d)
    BY <1>3, <2>1 DEF Provided
  <2>3. IdleApart(me, n.step, q, v, d, made, ground, robbed)
    BY <1>2, <2>1 DEF Idle, IdleApart
  <2>4. OnlyAfter(q, OpOf("walk", "away"), NotTo("pvp"))
    BY <1>4, Narrower, More
  <2>5. "nudge" \in WalkLeaves /\ <<n.step, "nudge">> \in LeafOf
    BY <1>1, <2>1, LeafSteps DEF WalkLeaves
  <2>6. Good(WalkTo(n, "nudge"), q, v, d)
    BY <1>4, <2>1, <2>2, <2>3, <2>4, <2>5, WalkToGood
  <2> QED BY <2>6 DEF n
<1>9. Good(Stay(m), q, v, d)
  <2>1. Stocked(me, m, d) /\ Waiting(me, m, v)
    BY <1>1, <1>3, ProvidedStocked DEF Waiting, WalkLeaves
  <2> QED BY <1>1, <1>2, <2>1, NeutralStay
<1> QED BY <1>5, <1>6, <1>7, <1>8, <1>9 DEF UpdateSpawn

LEMMA UpdateWalkGood ==
  ASSUME NEW m \in Machines, NEW q, NEW e \in EventSet, NEW v \in Seq(EventSet), NEW d,
         Fits(me, m, q, <<e>> \o v, d, made, ground, robbed), m.leaf \in WalkLeaves
  PROVE  Good(UpdateWalk(m, e), q, v, d)
<1> DEFINE n == IF e.kind \in {"began", "ended", "timeout"} THEN Quiet(m) ELSE m
           there == me.spot = Waypoint(m.leaf)
<1>1. n \in Machines /\ n.step = m.step /\ n.leaf = m.leaf /\ n.uses = m.uses /\ n.wants = m.wants
        /\ (n = m \/ e.kind \in {"began", "ended", "timeout"})
  BY QuietFields
<1>2. /\ <<m.step, m.leaf>> \in LeafOf
      /\ m.leaf = "walk" => m.step = "walk"
      /\ m.leaf # "walk" => m.step \in {"vitals", "items", "repair"}
      /\ m.leaf \notin Neutral \cup {"pick", "use", "toggle", "appear", "rest"}
      /\ m.leaf \in {"walk", "return", "nudge", "nudgeBack"}
  BY LeafSteps DEF Fits, WalkLeaves, Neutral, MoveLeaves
<1>3. /\ Common(me, m.step, q, <<e>> \o v, d, made, ground) /\ Walking(me, m, q)
      /\ Picking(m, q, <<e>> \o v, made, ground, robbed) /\ Using(me, m, q, <<e>> \o v, d)
      /\ Stocked(me, m, d) /\ Toggling(me, m, q, <<e>> \o v, d) /\ Waiting(me, m, <<e>> \o v)
  BY DEF Fits
<1>4. Common(me, m.step, q, v, d, made, ground) /\ q \in Seq(RequestSet)
  BY <1>3, CommonAfter DEF Common
<1>5. \A A : Holds(v, A) => Holds(<<e>> \o v, A)
  BY Front
<1>6. IdleApart(me, m.step, q, v, d, made, ground, robbed)
  <2>1. Within(q, PicksOver(ground)) /\ (~robbed => ~Holds(v, Ev("arrived")))
    BY <1>2, <1>3, <1>5 DEF Picking
  <2>2. "use" \notin d => ~InUse(q, v)
    BY <1>2, <1>3, <1>5 DEF Using, InUse
  <2>3. "toggle" \notin d => ~Holds(q, Op("invisible"))
    BY <1>2, <1>3 DEF Toggling
  <2> QED BY <1>4, <2>1, <2>2, <2>3 DEF IdleApart
<1>7. Provided(me, n, d)
  <2>1. Provided(me, m, d)
    BY <1>2, <1>3, ProvidedStocked
  <2> QED BY <1>1, <2>1 DEF Provided
<1>8. UpdateWalk(m, e) =
        IF e.kind = "began" \/ me.going # "nowhere" THEN Stay(n)
        ELSE IF there /\ m.leaf = "walk" THEN Done(n)
        ELSE IF there /\ m.leaf = "nudge" THEN WalkTo(n, "nudgeBack")
        ELSE IF there THEN SpawnNextItem(n)
        ELSE IF n.timer THEN Stay(n) ELSE WalkTo(n, m.leaf)
  BY DEF UpdateWalk
<1> HIDE DEF n
<1>9. ASSUME n.timer \/ me.going # "nowhere" \/ Holds(v, EvOf("ended", "none"))
      PROVE  Good(Stay(n), q, v, d)
  <2>1. Walking(me, n, q)
    BY <1>1, <1>2, <1>3 DEF Walking
  <2>2. Picking(n, q, v, made, ground, robbed)
    BY <1>1, <1>2, <1>6 DEF Picking, IdleApart
  <2>3. Using(me, n, q, v, d)
    BY <1>1, <1>2, <1>6 DEF Using, IdleApart
  <2>4. Stocked(me, n, d)
    BY <1>7, ProvidedStocked
  <2>5. Toggling(me, n, q, v, d)
    BY <1>1, <1>2, <1>6 DEF Toggling, IdleApart
  <2>6. Waiting(me, n, v)
    BY <1>1, <1>2, <1>9 DEF Waiting, Neutral
  <2>7. Fits(me, n, q, v, d, made, ground, robbed)
    BY <1>1, <1>2, <1>4, <2>1, <2>2, <2>3, <2>4, <2>5, <2>6 DEF Fits
  <2> QED BY <1>1, <1>2, <1>4, <2>7, GoodStay
<1>10. ASSUME e.kind = "began" \/ me.going # "nowhere" PROVE Good(Stay(n), q, v, d)
  <2>1. me.going # "nowhere" \/ Followed(<<e>> \o v, Ev("began"), EvOf("ended", "none"))
    BY <1>3 DEF Common, Announced
  <2>2. e.kind = "began" => e \in Ev("began")
    BY Sorts
  <2>3. me.going # "nowhere" \/ Holds(v, EvOf("ended", "none"))
    BY <1>10, <2>1, <2>2, Front
  <2> QED BY <1>9, <2>3
<1>11. ASSUME me.going = "nowhere", there, m.leaf = "walk" PROVE Good(Done(n), q, v, d)
  <2>1. me.spot = "pvp" /\ Within(q, Homeward)
    BY <1>3, <1>11 DEF Walking, Waypoint
  <2>2. Passed(me, n.step, q, d)
    BY <1>1, <1>2, <1>11, <2>1 DEF Passed
  <2> QED BY <1>1, <1>6, <2>2, DoneGood
<1>12. ASSUME me.going = "nowhere", there, m.leaf = "nudge" PROVE Good(WalkTo(n, "nudgeBack"), q, v, d)
  <2>1. me.spot = "away" /\ ~Holds(q, OpOf("walk", "pvp"))
    BY <1>3, <1>12 DEF Walking, Waypoint
  <2>2. OnlyAfter(q, OpOf("walk", "pvp"), NotTo("away"))
    BY <2>1, More
  <2>3. "nudgeBack" \in WalkLeaves /\ <<n.step, "nudgeBack">> \in LeafOf
    BY <1>1, <1>2, <1>12, LeafSteps DEF WalkLeaves
  <2> QED BY <1>1, <1>6, <1>7, <1>12, <2>1, <2>2, <2>3, WalkToGood
<1>13. ASSUME me.going = "nowhere", there, m.leaf \in {"return", "nudgeBack"}
       PROVE  Good(SpawnNextItem(n), q, v, d)
  <2>1. me.spot = "pvp" /\ Within(q, Homeward)
    BY <1>3, <1>13 DEF Walking, Waypoint
  <2>2. Still(me, n.step, q)
    BY <1>1, <1>2, <1>13, <2>1, PvpSteps DEF Still
  <2>3. Idle(me, n.step, q, v, d, made, ground, robbed)
    BY <1>1, <1>6, <2>2 DEF Idle, IdleApart
  <2> QED BY <1>1, <1>2, <1>7, <1>13, <2>3, SpawnOnward
<1>14. ASSUME me.going = "nowhere", ~there PROVE Good(WalkTo(n, m.leaf), q, v, d)
  <2>1. m.leaf \in {"walk", "return"} => Within(q, Homeward)
    BY <1>3 DEF Walking
  <2>2. m.leaf = "nudge" =>
          /\ me.spot \in {"pvp", "away"} /\ OnlyAfter(q, OpOf("walk", "away"), NotTo("pvp"))
          /\ me.spot = "away" => ~Holds(q, OpOf("walk", "pvp"))
    BY <1>3 DEF Walking
  <2>3. m.leaf = "nudgeBack" =>
          /\ me.spot \in {"pvp", "away"} /\ OnlyAfter(q, OpOf("walk", "pvp"), NotTo("away"))
          /\ me.spot = "pvp" => Within(q, Homeward)
    BY <1>3 DEF Walking
  <2> QED BY <1>1, <1>2, <1>6, <1>7, <1>14, <2>1, <2>2, <2>3, WalkToGood
<1>15. n.timer => Good(Stay(n), q, v, d)
  BY <1>9
<1> HIDE DEF there
<1> QED BY <1>2, <1>8, <1>10, <1>11, <1>12, <1>13, <1>14, <1>15

LEMMA UpdatePickGood ==
  ASSUME NEW m \in Machines, NEW q, NEW e \in EventSet, NEW v \in Seq(EventSet), NEW d,
         Fits(me, m, q, <<e>> \o v, d, made, ground, robbed), m.leaf = "pick"
  PROVE  Good(UpdatePick(m, e), q, v, d)
<1> DEFINE gone == m.gone \/ (e.kind = "despawned" /\ e.item = m.item)
           got  == m.got \/ Is(e, "arrived", m.what)
           over == gone # m.gone \/ got # m.got \/ e.kind = "timeout"
                     \/ (e.kind = "commandError" /\ e.item = m.item)
           n == [m EXCEPT !.gone = gone, !.got = got, !.timer = @ /\ ~over]
<1>1. UpdatePick(m, e) =
        IF gone /\ got THEN IF me.spot # "pvp" THEN WalkTo(n, "return") ELSE SpawnNextItem(n)
        ELSE IF gone # got \/ n.timer THEN Stay(n)
        ELSE Send(n, "pick", "none", m.item)
  BY DEF UpdatePick
<1>2. gone \in BOOLEAN /\ got \in BOOLEAN /\ over \in BOOLEAN /\ m.timer \in BOOLEAN
        /\ m.gone \in BOOLEAN /\ m.got \in BOOLEAN
  BY DEF Machines
<1>3. (gone <=> (m.gone \/ (e.kind = "despawned" /\ e.item = m.item)))
        /\ (got <=> (m.got \/ (e.kind = "arrived" /\ e.what = m.what)))
  BY DEF Is
<1> HIDE DEF gone, got, over
<1>4. n \in Machines /\ n.step = m.step /\ n.leaf = m.leaf /\ n.what = m.what /\ n.item = m.item
        /\ n.uses = m.uses /\ n.wants = m.wants
  BY <1>2 DEF Machines
<1>5. n.gone = gone /\ n.got = got /\ n.potion = m.potion
  BY <1>2 DEF Machines
<1> HIDE DEF n
<1>6. /\ <<m.step, m.leaf>> \in LeafOf /\ m.step \in {"vitals", "items", "repair"}
      /\ "pick" \notin Neutral \cup WalkLeaves /\ m.step \in PastWalk /\ m.step \notin PastPvp
  BY LeafSteps, PvpSteps DEF Fits, WalkLeaves, Neutral, MoveLeaves
<1>7. /\ Common(me, m.step, q, <<e>> \o v, d, made, ground) /\ Walking(me, m, q)
      /\ Picking(m, q, <<e>> \o v, made, ground, robbed) /\ Using(me, m, q, <<e>> \o v, d)
      /\ Stocked(me, m, d) /\ Toggling(me, m, q, <<e>> \o v, d)
  BY DEF Fits
<1>8. Common(me, m.step, q, v, d, made, ground) /\ q \in Seq(RequestSet) /\ e \in Told(me, made, ground)
  BY <1>7, CommonAfter DEF Common
<1>9. \A A : Holds(<<e>> \o v, A) <=> (e \in A \/ Holds(v, A))
  BY Front
<1>10. "use" \notin d => ~InUse(q, v)
  BY <1>7, <1>9 DEF Using, InUse
<1>11. "toggle" \notin d => ~Holds(q, Op("invisible"))
  BY <1>7 DEF Toggling
<1>12. Provided(me, n, d)
  <2>1. Provided(me, m, d)
    BY <1>7, ProvidedStocked
  <2> QED BY <1>4, <2>1 DEF Provided
<1>13. /\ me.going \in {"nowhere", "pvp"} /\ Within(q, Homeward)
       /\ me.spot = "pvp" => me.going = "nowhere"
  BY <1>7 DEF Walking
<1>14. /\ m.item \in DOMAIN made /\ made[m.item] = m.what /\ ~(m.gone /\ m.got)
       /\ m.gone => m.item \notin ground
       /\ Within(q, PicksOf(m.item, ground))
       /\ ~robbed =>
            /\ OnceIn(<<e>> \o v, Ev("arrived"))
            /\ Holds(<<e>> \o v, Ev("arrived")) => m.item \notin ground /\ ~m.got
            /\ IF m.item \in ground THEN ~m.gone /\ ~m.got
               ELSE /\ m.gone \/ Holds(<<e>> \o v, EvItem("despawned", m.item))
                    /\ m.got \/ Holds(<<e>> \o v, EvOf("arrived", m.what))
  BY <1>7 DEF Picking
<1>15. gone => m.item \notin ground
  BY <1>3, <1>8, <1>14 DEF Told
<1>16. /\ e \in Ev("arrived") <=> e.kind = "arrived"
       /\ e \in EvItem("despawned", m.item) <=> (e.kind = "despawned" /\ e.item = m.item)
       /\ e \in EvOf("arrived", m.what) <=> (e.kind = "arrived" /\ e.what = m.what)
  BY Sorts
<1>17. ASSUME ~robbed
       PROVE  /\ OnceIn(v, Ev("arrived"))
              /\ Holds(v, Ev("arrived")) => m.item \notin ground /\ ~got
              /\ m.item \in ground => ~gone /\ ~got
              /\ m.item \notin ground => /\ gone \/ Holds(v, EvItem("despawned", m.item))
                                         /\ got \/ Holds(v, EvOf("arrived", m.what))
  <2>1. OnceIn(v, Ev("arrived")) /\ (e \in Ev("arrived") => ~Holds(v, Ev("arrived")))
    BY <1>14, <1>17, Front
  <2>2. Holds(v, Ev("arrived")) => m.item \notin ground /\ ~got
    BY <1>3, <1>9, <1>14, <1>16, <1>17, <2>1
  <2>3. m.item \in ground => ~gone /\ ~got
    BY <1>3, <1>9, <1>14, <1>15, <1>16, <1>17
  <2>4. m.item \notin ground => /\ gone \/ Holds(v, EvItem("despawned", m.item))
                                /\ got \/ Holds(v, EvOf("arrived", m.what))
    BY <1>3, <1>9, <1>14, <1>16, <1>17
  <2> QED BY <2>1, <2>2, <2>3, <2>4
<1>18. ASSUME gone, got
       PROVE  IdleApart(me, n.step, q, v, d, made, ground, robbed)
  <2>1. Within(q, PicksOver(ground))
    BY <1>8, <1>14, <1>15, <1>18, Narrower
  <2>2. ~robbed => ~Holds(v, Ev("arrived"))
    BY <1>17, <1>18
  <2> QED BY <1>4, <1>8, <1>10, <1>11, <2>1, <2>2 DEF IdleApart
<1>19. ASSUME gone, got, me.spot # "pvp" PROVE Good(WalkTo(n, "return"), q, v, d)
  <2>1. "return" \in WalkLeaves /\ <<n.step, "return">> \in LeafOf
    BY <1>4, <1>6, LeafSteps DEF WalkLeaves
  <2> QED BY <1>4, <1>12, <1>13, <1>18, <1>19, <2>1, WalkToGood
<1>20. ASSUME gone, got, me.spot = "pvp" PROVE Good(SpawnNextItem(n), q, v, d)
  <2>1. Still(me, n.step, q)
    BY <1>4, <1>6, <1>13, <1>20 DEF Still
  <2>2. Idle(me, n.step, q, v, d, made, ground, robbed)
    BY <1>18, <1>20, <2>1 DEF Idle, IdleApart
  <2> QED BY <1>4, <1>6, <1>12, <2>2, SpawnOnward
<1>21. ASSUME NEW o \in Machines, o.step = m.step, o.leaf = "pick", o.what = m.what,
              o.item = m.item, o.uses = m.uses, o.wants = m.wants, o.gone = gone, o.got = got,
              o.timer \/ gone \/ got, ~(gone /\ got),
              NEW p, Common(me, m.step, p, v, d, made, ground), Within(p, Homeward),
              Within(p, PicksOf(m.item, ground)), "use" \notin d => ~InUse(p, v),
              "toggle" \notin d => ~Holds(p, Op("invisible"))
       PROVE  Fits(me, o, p, v, d, made, ground, robbed)
  <2>1. Walking(me, o, p)
    BY <1>13, <1>21 DEF Walking
  <2>2. Picking(o, p, v, made, ground, robbed)
    <3>1. /\ o.item \in DOMAIN made /\ made[o.item] = o.what
          /\ ~(o.gone /\ o.got) /\ (o.timer \/ o.gone \/ o.got)
          /\ o.gone => o.item \notin ground
          /\ Within(p, PicksOf(o.item, ground))
      BY <1>14, <1>15, <1>21
    <3>2. ASSUME ~robbed
          PROVE  /\ OnceIn(v, Ev("arrived"))
                 /\ Holds(v, Ev("arrived")) => o.item \notin ground /\ ~o.got
                 /\ IF o.item \in ground THEN ~o.gone /\ ~o.got
                    ELSE /\ o.gone \/ Holds(v, EvItem("despawned", o.item))
                         /\ o.got \/ Holds(v, EvOf("arrived", o.what))
      BY <1>17, <1>21, <3>2
    <3> QED BY <1>21, <3>1, <3>2 DEF Picking
  <2>3. Using(me, o, p, v, d)
    BY <1>21 DEF Using
  <2>4. Stocked(me, o, d)
    <3>1. Provided(me, o, d)
      BY <1>4, <1>12, <1>21 DEF Provided
    <3> QED BY <3>1, ProvidedStocked
  <2>5. Toggling(me, o, p, v, d)
    BY <1>6, <1>21 DEF Toggling
  <2>6. Waiting(me, o, v)
    BY <1>21 DEF Waiting, WalkLeaves
  <2> QED BY <1>6, <1>21, <2>1, <2>2, <2>3, <2>4, <2>5, <2>6 DEF Fits
<1>22. ASSUME ~(gone /\ got), gone # got \/ n.timer PROVE Good(Stay(n), q, v, d)
  <2>1. n.timer \/ gone \/ got
    BY <1>2, <1>22
  <2>2. Fits(me, n, q, v, d, made, ground, robbed)
    BY <1>4, <1>5, <1>8, <1>10, <1>11, <1>13, <1>14, <1>21, <1>22, <2>1
  <2> QED BY <1>4, <1>8, <2>2, GoodStay
<1>23. ASSUME ~(gone /\ got) PROVE Good(Send(n, "pick", "none", m.item), q, v, d)
  <2> DEFINE o == [n EXCEPT !.timer = TRUE]
             r == Request("pick", "none", m.item)
             p == q \o <<r>>
  <2>1. "pick" \in Ops /\ "none" \in Names /\ m.item \in Nat
    BY Texts DEF Ops, Machines
  <2>2. o \in Machines /\ o.step = n.step /\ o.leaf = n.leaf /\ o.what = n.what /\ o.item = n.item
          /\ o.uses = n.uses /\ o.wants = n.wants /\ o.gone = n.gone /\ o.got = n.got /\ o.timer = TRUE
    BY <1>4, TimerFields
  <2>3. Send(n, "pick", "none", m.item) = Sent(n, r) /\ r \in RequestSet /\ r.op = "pick"
          /\ r.item = m.item
    BY <1>4, <2>1, SendFields
  <2> HIDE DEF o, r
  <2>4. r \in Legal(made)
    BY <1>14, <2>3, LegalIs
  <2>5. Common(me, m.step, p, v, d, made, ground)
    BY <1>6, <1>8, <2>3, <2>4, CommonSent
  <2>6. r \in Homeward /\ r \in PicksOf(m.item, ground) /\ r \notin Op("use") /\ r \notin Op("invisible")
    BY <2>3, Sorts
  <2>7. /\ \A A : Holds(p, A) <=> (Holds(q, A) \/ r \in A)
        /\ \A A : Within(p, A) <=> (Within(q, A) /\ r \in A)
    BY <1>8, <2>3, SentOne
  <2> HIDE DEF p
  <2>8. /\ Within(p, Homeward) /\ Within(p, PicksOf(m.item, ground))
        /\ "use" \notin d => ~InUse(p, v)
        /\ "toggle" \notin d => ~Holds(p, Op("invisible"))
    BY <1>10, <1>11, <1>13, <1>14, <2>6, <2>7 DEF InUse
  <2>9. Fits(me, o, p, v, d, made, ground, robbed)
    BY <1>4, <1>5, <1>21, <1>23, <2>2, <2>5, <2>8
  <2>10. Good(Sent(n, r), q, v, d)
    BY <1>4, <2>9, GoodSent DEF o, p
  <2> QED BY <2>3, <2>10
<1> QED BY <1>1, <1>2, <1>19, <1>20, <1>22, <1>23

LEMMA UpdateUseGood ==
  ASSUME NEW m \in Machines, NEW q, NEW e \in EventSet, NEW v \in Seq(EventSet), NEW d,
         Fits(me, m, q, <<e>> \o v, d, made, ground, robbed), m.leaf = "use", Timely(m, q, v, d, e)
  PROVE  Good(UpdateUse(m, e), q, v, d)
<1> DEFINE failed == e.kind = "useFailed" /\ m.timer
           n == IF failed \/ e.kind = "timeout" THEN Quiet(m) ELSE m
<1>1. n \in Machines /\ n.step = m.step /\ n.leaf = "use" /\ n.what = m.what /\ n.uses = m.uses
        /\ n.timer = (m.timer /\ ~(failed \/ e.kind = "timeout"))
  BY QuietFields DEF Machines
<1>2. UpdateUse(m, e) =
        IF failed /\ e.what = "doesNotExist" THEN UseIsDone(n)
        ELSE IF Is(e, "used", m.what) /\ m.timer THEN UseIsDone(n)
        ELSE IF n.timer THEN Stay(n) ELSE TryUse(n)
  BY DEF UpdateUse
<1> HIDE DEF n
<1>3. <<m.step, m.leaf>> \in LeafOf /\ m.step \in {"vitals", "repair"}
        /\ "use" \notin Neutral \cup WalkLeaves \cup {"pick"}
  BY LeafSteps DEF Fits, WalkLeaves, Neutral, MoveLeaves
<1>4. /\ Common(me, m.step, q, <<e>> \o v, d, made, ground) /\ Walking(me, m, q)
      /\ Picking(m, q, <<e>> \o v, made, ground, robbed) /\ Using(me, m, q, <<e>> \o v, d)
      /\ Stocked(me, m, d) /\ Toggling(me, m, q, <<e>> \o v, d)
  BY DEF Fits
<1>5. Common(me, m.step, q, v, d, made, ground) /\ q \in Seq(RequestSet) /\ e \in Told(me, made, ground)
  BY <1>4, CommonAfter DEF Common
<1>6. /\ \A A : Holds(<<e>> \o v, A) <=> (e \in A \/ Holds(v, A))
      /\ OnceIn(<<e>> \o v, Answered) <=> (OnceIn(v, Answered) /\ (e \in Answered => ~Holds(v, Answered)))
  BY Front
<1>7. Still(me, m.step, q)
  BY <1>3, <1>4 DEF Walking, WalkLeaves
<1>8. Within(q, PicksOver(ground)) /\ (~robbed => ~Holds(v, Ev("arrived")))
  BY <1>3, <1>4, <1>6 DEF Picking
<1>9. "toggle" \notin d => ~Holds(q, Op("invisible"))
  BY <1>3, <1>4 DEF Toggling
<1>10. ("use" \notin d => ~InUse(q, v)) => Idle(me, n.step, q, v, d, made, ground, robbed)
  BY <1>1, <1>5, <1>7, <1>8, <1>9 DEF Idle
<1>11. m.what \in Used /\ (m.step = "repair" => m.what = "hammer") /\ (m.step = "vitals" => m.uses # <<>>)
  BY <1>4 DEF Using, Stocked
<1>12. ASSUME "use" \notin d
       PROVE  /\ OnceIn(q, Op("use")) /\ OnceIn(v, Answered) /\ (e \in Answered => ~Holds(v, Answered))
              /\ ~(Holds(q, Op("use")) /\ (e \in Answered \/ Holds(v, Answered)))
              /\ Holds(q, Op("use")) \/ e \in Answered \/ Holds(v, Answered) => m.timer
              /\ m.step = "repair" =>
                   /\ "hammer" \in me.bag \/ e \in EvOf("used", "hammer") \/ Holds(v, EvOf("used", "hammer"))
                   /\ Within(q, Hammering)
                   /\ e \notin EvOf("useFailed", "doesNotExist")
                   /\ ~Holds(v, EvOf("useFailed", "doesNotExist"))
  BY <1>4, <1>6, <1>12 DEF Using, InUse
<1>13. /\ e \in Answered <=> e.kind \in {"used", "useFailed"}
       /\ e \in EvOf("used", "hammer") <=> (e.kind = "used" /\ e.what = "hammer")
       /\ e \in EvOf("useFailed", "doesNotExist") <=> (e.kind = "useFailed" /\ e.what = "doesNotExist")
  BY Sorts
<1>14. Holds(v, EvOf("used", "hammer")) => Holds(v, Answered)
  BY Narrower
<1>15. ASSUME e \in Answered PROVE Idle(me, n.step, q, v, d, made, ground, robbed)
  BY <1>10, <1>12, <1>15 DEF InUse
<1>16. ASSUME e.kind = "used" \/ e.kind = "useFailed", m.timer,
              (failed /\ e.what = "doesNotExist") \/ Is(e, "used", m.what)
       PROVE  Good(UseIsDone(n), q, v, d)
  <2>1. ASSUME m.step = "repair" PROVE ~me.broken \/ "use" \in d
    <3>1. ASSUME e.kind = "used", e.what = "hammer" PROVE ~me.broken
      BY <1>5, <3>1 DEF Told
    <3>2. ASSUME e.kind = "useFailed", e.what = "doesNotExist" PROVE "use" \in d
      BY <1>12, <1>13, <2>1, <3>2
    <3> QED BY <1>11, <1>16, <2>1, <3>1, <3>2 DEF Is
  <2> QED BY <1>1, <1>3, <1>11, <1>13, <1>15, <1>16, <2>1, UseIsDoneGood
<1>17. ASSUME "use" \notin d => ~InUse(q, v),
              m.step = "repair" /\ "use" \notin d => "hammer" \in me.bag
       PROVE  Good(TryUse(n), q, v, d)
  BY <1>1, <1>3, <1>10, <1>11, <1>17, TryUseGood
<1>18. ASSUME ~(failed /\ e.what = "doesNotExist"), ~(Is(e, "used", m.what) /\ m.timer), ~n.timer
       PROVE  Good(TryUse(n), q, v, d)
  <2>1. ASSUME "use" \notin d
        PROVE  ~InUse(q, v) /\ (m.step = "repair" => "hammer" \in me.bag)
    <3>1. CASE failed
      <4>1. e \in Answered /\ e \notin EvOf("used", "hammer")
        BY <1>13, <3>1
      <4> QED BY <1>12, <1>14, <2>1, <4>1 DEF InUse
    <3>2. CASE e.kind = "timeout"
      <4>1. q = <<>> /\ v = <<>>
        BY <2>1, <3>2 DEF Timely
      <4>2. ~Holds(q, Op("use")) /\ ~Holds(v, Answered) /\ ~Holds(v, EvOf("used", "hammer"))
        BY <4>1, None
      <4> QED BY <1>12, <1>13, <2>1, <3>2, <4>2 DEF InUse
    <3>3. CASE ~failed /\ e.kind # "timeout"
      <4>1. ~m.timer
        BY <1>1, <1>18, <3>3
      <4>2. ~Holds(q, Op("use")) /\ e \notin Answered /\ ~Holds(v, Answered)
        BY <1>12, <2>1, <4>1
      <4>3. e \notin EvOf("used", "hammer")
        BY <1>13, <4>2
      <4> QED BY <1>12, <1>14, <2>1, <4>2, <4>3 DEF InUse
    <3> QED BY <3>1, <3>2, <3>3
  <2> QED BY <1>17, <2>1
<1>19. ASSUME ~(failed /\ e.what = "doesNotExist"), ~(Is(e, "used", m.what) /\ m.timer), n.timer
       PROVE  Good(Stay(n), q, v, d)
  <2>1. m.timer /\ e.kind # "useFailed" /\ ~(e.kind = "used" /\ e.what = m.what)
    BY <1>1, <1>19 DEF Is
  <2>2. Using(me, n, q, v, d)
    <3>1. ASSUME "use" \notin d, m.step = "repair"
          PROVE  "hammer" \in me.bag \/ Holds(v, EvOf("used", "hammer"))
      BY <1>11, <1>12, <1>13, <2>1, <3>1
    <3> QED BY <1>1, <1>11, <1>12, <1>19, <3>1 DEF Using, InUse
  <2>3. Walking(me, n, q)
    BY <1>1, <1>3, <1>7 DEF Walking, WalkLeaves
  <2>4. Picking(n, q, v, made, ground, robbed)
    BY <1>1, <1>8 DEF Picking
  <2>5. Stocked(me, n, d) /\ Toggling(me, n, q, v, d) /\ Waiting(me, n, v)
    BY <1>1, <1>3, <1>9, <1>11 DEF Stocked, Toggling, Waiting, WalkLeaves
  <2>6. Fits(me, n, q, v, d, made, ground, robbed)
    BY <1>1, <1>3, <1>5, <2>2, <2>3, <2>4, <2>5, LeafSteps DEF Fits
  <2> QED BY <1>1, <1>5, <2>6, GoodStay
<1> QED BY <1>2, <1>16, <1>18, <1>19 DEF Is

LEMMA UpdateAppearGood ==
  ASSUME NEW m \in Machines, NEW q, NEW e \in EventSet, NEW v \in Seq(EventSet), NEW d,
         Fits(me, m, q, <<e>> \o v, d, made, ground, robbed), m.leaf \in {"toggle", "appear"},
         Timely(m, q, v, d, e)
  PROVE  Good(UpdateAppear(m, e), q, v, d)
<1>1. <<m.step, m.leaf>> \in LeafOf /\ m.step = "appear" /\ m.leaf \notin WalkLeaves
        /\ m.leaf \notin {"pick", "use", "rest"}
  BY LeafSteps DEF Fits, WalkLeaves
<1>2. /\ Common(me, m.step, q, <<e>> \o v, d, made, ground) /\ Walking(me, m, q)
      /\ Picking(m, q, <<e>> \o v, made, ground, robbed) /\ Using(me, m, q, <<e>> \o v, d)
      /\ Toggling(me, m, q, <<e>> \o v, d) /\ Waiting(me, m, <<e>> \o v)
  BY DEF Fits
<1>3. Common(me, m.step, q, v, d, made, ground) /\ q \in Seq(RequestSet) /\ e \in Told(me, made, ground)
  BY <1>2, CommonAfter DEF Common
<1>4. \A A : Holds(<<e>> \o v, A) <=> (e \in A \/ Holds(v, A))
  BY Front
<1>5. Still(me, m.step, q)
  BY <1>1, <1>2 DEF Walking
<1>6. Within(q, PicksOver(ground)) /\ (~robbed => ~Holds(v, Ev("arrived")))
  BY <1>1, <1>2, <1>4 DEF Picking
<1>7. "use" \notin d => ~InUse(q, v)
  BY <1>1, <1>2, <1>4 DEF Using, InUse
<1>8. ASSUME "toggle" \notin d
      PROVE  /\ Holds(q, Op("invisible")) => m.leaf = "toggle" /\ ~me.visible
             /\ me.visible => e \in EvOf("bodyState", "none") \/ Holds(v, EvOf("bodyState", "none"))
             /\ ~me.visible => m.leaf = "toggle"
             /\ e \in Changed => me.visible
  <2>1. Shown(me, m.step, q, <<e>> \o v, d)
    BY <1>2 DEF Common
  <2> QED BY <1>1, <1>2, <1>4, <1>8, <2>1 DEF Toggling, Shown
<1>9. /\ e \in EvOf("bodyState", "none") <=> e.kind = "bodyState"
      /\ e.kind = "bodyState" \/ Is(e, "operatorSuccess", "invisible") => e \in Changed
  <2>1. e.kind = "bodyState" => e.what = "none"
    BY <1>3 DEF Told
  <2> QED BY <2>1, Sorts DEF Is
<1>10. m.leaf = "toggle" => m.timer
  BY <1>2 DEF Waiting
<1>11. ASSUME e.kind = "bodyState", me.visible PROVE Good(Done(m), q, v, d)
  <2>1. "toggle" \notin d => ~Holds(q, Op("invisible"))
    BY <1>8, <1>11
  <2>2. Idle(me, m.step, q, v, d, made, ground, robbed)
    BY <1>3, <1>5, <1>6, <1>7, <2>1 DEF Idle
  <2> QED BY <1>1, <1>11, <2>2, IdleDone
<1>12. ASSUME e.kind = "bodyState", ~me.visible, m.leaf = "appear"
       PROVE  Good(Send(Leaf(m, "toggle", "none"), "invisible", "none", 0), q, v, d)
  <2> DEFINE n == Leaf(m, "toggle", "none")
  <2>1. "toggle" \in Leaves /\ "none" \in Names
    BY Texts DEF Leaves
  <2>2. n \in Machines /\ n.step = m.step /\ n.leaf = "toggle"
    BY <2>1, LeafIs
  <2> HIDE DEF n
  <2>3. "toggle" \in d
    BY <1>8, <1>12
  <2>4. Good(Send(n, "invisible", "none", 0), q, v, d)
    BY <1>1, <1>3, <1>5, <1>6, <1>7, <2>2, <2>3, ToggleGood
  <2> QED BY <2>4 DEF n
<1>13. ASSUME NEW n \in Machines, n.step = "appear", n.leaf \in {"toggle", "appear"},
              n.leaf = "toggle" => n.timer, Toggling(me, n, q, v, d)
       PROVE  Good(Stay(n), q, v, d)
  <2>1. n.leaf \notin WalkLeaves /\ n.leaf \notin {"pick", "use", "rest"}
    BY <1>13 DEF WalkLeaves
  <2>2. Walking(me, n, q)
    BY <1>1, <1>5, <1>13, <2>1 DEF Walking
  <2>3. Picking(n, q, v, made, ground, robbed)
    BY <1>6, <2>1 DEF Picking
  <2>4. Using(me, n, q, v, d)
    BY <1>7, <2>1 DEF Using
  <2>5. Stocked(me, n, d) /\ Waiting(me, n, v)
    BY <1>13, <2>1 DEF Stocked, Waiting
  <2>6. Fits(me, n, q, v, d, made, ground, robbed)
    BY <1>1, <1>3, <1>13, <2>2, <2>3, <2>4, <2>5, LeafSteps DEF Fits
  <2> QED BY <1>3, <2>1, <2>6, GoodStay
<1>14. ASSUME m.leaf = "toggle", Is(e, "operatorSuccess", "invisible")
       PROVE  Good(Stay(Leaf(m, "appear", "none")), q, v, d)
  <2> DEFINE n == Leaf(m, "appear", "none")
  <2>1. "appear" \in Leaves /\ "none" \in Names
    BY Texts DEF Leaves
  <2>2. n \in Machines /\ n.step = m.step /\ n.leaf = "appear"
    BY <2>1, LeafIs
  <2> HIDE DEF n
  <2>3. ASSUME "toggle" \notin d
        PROVE  me.visible /\ ~Holds(q, Op("invisible")) /\ Holds(v, EvOf("bodyState", "none"))
    BY <1>8, <1>9, <1>14, <2>3 DEF Is
  <2>4. Toggling(me, n, q, v, d)
    BY <2>2, <2>3 DEF Toggling
  <2>5. Good(Stay(n), q, v, d)
    BY <1>1, <1>13, <2>2, <2>4
  <2> QED BY <2>5 DEF n
<1>15. ASSUME ~(e.kind = "bodyState" /\ me.visible) PROVE Good(Stay(m), q, v, d)
  <2>1. Toggling(me, m, q, v, d)
    <3>1. ASSUME "toggle" \notin d
          PROVE  /\ Holds(q, Op("invisible")) => m.leaf = "toggle" /\ ~me.visible
                 /\ IF me.visible THEN Holds(v, EvOf("bodyState", "none")) ELSE m.leaf = "toggle"
      BY <1>8, <1>9, <1>15, <3>1
    <3> QED BY <1>1, <3>1 DEF Toggling
  <2> QED BY <1>1, <1>10, <1>13, <2>1
<1>16. ASSUME m.leaf = "toggle", e.kind = "timeout"
       PROVE  Good(Send(m, "invisible", "none", 0), q, v, d)
  <2>1. ASSUME "toggle" \notin d PROVE ~Holds(q, Op("invisible")) /\ ~me.visible
    <3>1. q = <<>> /\ v = <<>>
      BY <1>16, <2>1 DEF Timely
    <3>2. ~Holds(q, Op("invisible")) /\ ~Holds(v, EvOf("bodyState", "none"))
      BY <3>1, None
    <3> QED BY <1>8, <1>9, <1>16, <2>1, <3>2
  <2> QED BY <1>1, <1>3, <1>5, <1>6, <1>7, <1>16, <2>1, ToggleGood
<1> QED BY <1>11, <1>12, <1>14, <1>15, <1>16 DEF UpdateAppear, Throws, Is

-----------------------------------------------------------------------------
(* The event that is handled, whatever leaf is active.                     *)

UpdateOf(m, e) ==
  CASE m.leaf \in MoveLeaves -> UpdateMove(m, e)
    [] m.leaf \in WalkLeaves -> UpdateWalk(m, e)
    [] m.leaf = "dispel"     -> UpdateDispel(m, e)
    [] m.leaf = "spawn"      -> UpdateSpawn(m, e)
    [] m.leaf = "pick"       -> UpdatePick(m, e)
    [] m.leaf = "use"        -> UpdateUse(m, e)
    [] m.leaf = "rest"       -> UpdateRest(m, e)
    [] m.leaf \in {"enable", "countdown"} -> UpdateEnable(m, e)
    [] m.leaf \in {"toggle", "appear"}    -> UpdateAppear(m, e)
    [] m.leaf = "cooldowns"  -> UpdateCooldowns(m, e)
    [] m.leaf = "none"       -> Stay(m)

LEMMA UpdateOfGood ==
  ASSUME NEW m \in Machines, NEW q, NEW e \in EventSet, NEW v \in Seq(EventSet), NEW d,
         Fits(me, m, q, <<e>> \o v, d, made, ground, robbed), Timely(m, q, v, d, e)
  PROVE  Good(UpdateOf(m, e), q, v, d)
<1>1. CASE m.leaf \in MoveLeaves
  <2>1. UpdateOf(m, e) = UpdateMove(m, e)
    BY <1>1 DEF UpdateOf, MoveLeaves, WalkLeaves
  <2> QED BY <1>1, <2>1, UpdateMoveGood
<1>2. CASE m.leaf \in WalkLeaves
  <2>1. UpdateOf(m, e) = UpdateWalk(m, e)
    BY <1>2 DEF UpdateOf, MoveLeaves, WalkLeaves
  <2> QED BY <1>2, <2>1, UpdateWalkGood
<1>3. CASE m.leaf = "dispel"
  <2>1. UpdateOf(m, e) = UpdateDispel(m, e)
    BY <1>3 DEF UpdateOf, MoveLeaves, WalkLeaves
  <2> QED BY <1>3, <2>1, UpdateDispelGood
<1>4. CASE m.leaf = "spawn"
  <2>1. UpdateOf(m, e) = UpdateSpawn(m, e)
    BY <1>4 DEF UpdateOf, MoveLeaves, WalkLeaves
  <2> QED BY <1>4, <2>1, UpdateSpawnGood
<1>5. CASE m.leaf = "pick"
  <2>1. UpdateOf(m, e) = UpdatePick(m, e)
    BY <1>5 DEF UpdateOf, MoveLeaves, WalkLeaves
  <2> QED BY <1>5, <2>1, UpdatePickGood
<1>6. CASE m.leaf = "use"
  <2>1. UpdateOf(m, e) = UpdateUse(m, e)
    BY <1>6 DEF UpdateOf, MoveLeaves, WalkLeaves
  <2> QED BY <1>6, <2>1, UpdateUseGood
<1>7. CASE m.leaf = "rest"
  <2>1. UpdateOf(m, e) = UpdateRest(m, e)
    BY <1>7 DEF UpdateOf, MoveLeaves, WalkLeaves
  <2> QED BY <1>7, <2>1, UpdateRestGood
<1>8. CASE m.leaf \in {"enable", "countdown"}
  <2>1. UpdateOf(m, e) = UpdateEnable(m, e)
    BY <1>8 DEF UpdateOf, MoveLeaves, WalkLeaves
  <2> QED BY <1>8, <2>1, UpdateEnableGood
<1>9. CASE m.leaf \in {"toggle", "appear"}
  <2>1. UpdateOf(m, e) = UpdateAppear(m, e)
    BY <1>9 DEF UpdateOf, MoveLeaves, WalkLeaves
  <2> QED BY <1>9, <2>1, UpdateAppearGood
<1>10. CASE m.leaf = "cooldowns"
  <2>1. UpdateOf(m, e) = UpdateCooldowns(m, e)
    BY <1>10 DEF UpdateOf, MoveLeaves, WalkLeaves
  <2> QED BY <1>10, <2>1, UpdateCooldownsGood
<1>11. CASE m.leaf = "none"
  <2>1. UpdateOf(m, e) = Stay(m)
    BY <1>11 DEF UpdateOf, MoveLeaves, WalkLeaves
  <2> QED BY <1>11, <2>1, UpdateNoneGood
<1>12. m.leaf \in Leaves
  BY DEF Machines
<1> QED BY <1>1, <1>2, <1>3, <1>4, <1>5, <1>6, <1>7, <1>8, <1>9, <1>10, <1>11, <1>12 DEF Leaves

(* The own timer of EnsureFullVitalsAndNoStatuses concerns nothing else.    *)
LEMMA OtherPotion ==
  ASSUME NEW c, NEW m, NEW q, NEW v, NEW d, NEW g, NEW h, NEW b, NEW x \in BOOLEAN,
         Fits(c, m, q, v, d, g, h, b)
  PROVE  Fits(c, [m EXCEPT !.potion = x], q, v, d, g, h, b)
<1> DEFINE n == [m EXCEPT !.potion = x]
<1>1. m \in Machines
  BY DEF Fits
<1>2. n \in Machines
  BY <1>1 DEF Machines
<1>3. /\ n.step = m.step /\ n.leaf = m.leaf /\ n.what = m.what /\ n.item = m.item
      /\ n.wants = m.wants /\ n.uses = m.uses /\ n.timer = m.timer
      /\ n.gone = m.gone /\ n.got = m.got
  BY <1>1 DEF Machines
<1> HIDE DEF n
<1>4. Walking(c, n, q)
  BY <1>3 DEF Fits, Walking
<1>5. Picking(n, q, v, g, h, b)
  BY <1>3 DEF Fits, Picking
<1>6. Using(c, n, q, v, d)
  BY <1>3 DEF Fits, Using
<1>7. Stocked(c, n, d)
  BY <1>3 DEF Fits, Stocked
<1>8. Toggling(c, n, q, v, d)
  BY <1>3 DEF Fits, Toggling
<1>9. Waiting(c, n, v)
  BY <1>3 DEF Fits, Waiting
<1>10. Fits(c, n, q, v, d, g, h, b)
  BY <1>2, <1>3, <1>4, <1>5, <1>6, <1>7, <1>8, <1>9 DEF Fits
<1> QED BY <1>10 DEF n

(* What more is remembered as asked for again asks for less.               *)
LEMMA Wider ==
  ASSUME NEW c, NEW m, NEW q, NEW v, NEW d, NEW d2, NEW g, NEW h, NEW b, d \subseteq d2,
         Fits(c, m, q, v, d, g, h, b)
  PROVE  Fits(c, m, q, v, d2, g, h, b)
<1>1. /\ "use" \in d => "use" \in d2
      /\ "toggle" \in d => "toggle" \in d2
  OBVIOUS
<1>2. Common(c, m.step, q, v, d2, g, h)
  <2>1. Common(c, m.step, q, v, d, g, h)
    BY DEF Fits
  <2>2. Attained(c, m.step, d2)
    BY <1>1, <2>1 DEF Common, Attained
  <2>3. Shown(c, m.step, q, v, d2)
    BY <1>1, <2>1 DEF Common, Shown
  <2> QED BY <2>1, <2>2, <2>3 DEF Common
<1>3. Using(c, m, q, v, d2)
  BY <1>1 DEF Fits, Using
<1>4. Stocked(c, m, d2)
  BY <1>1 DEF Fits, Stocked
<1>5. Toggling(c, m, q, v, d2)
  BY <1>1 DEF Fits, Toggling
<1> QED BY <1>2, <1>3, <1>4, <1>5 DEF Fits

(* A timer's event, and one about someone else, are handled as if they had  *)
(* been the next of the events: they announce nothing.                     *)
LEMMA Prefixed ==
  ASSUME NEW c, NEW m, NEW q, NEW v \in Seq(EventSet), NEW d, NEW g, NEW h, NEW b,
         Fits(c, m, q, v, d, g, h, b), NEW e \in EventSet,
         e.kind \in {"timeout", "potionTimeout", "other"}
  PROVE  Fits(c, m, q, <<e>> \o v, d, g, h, b)
<1> DEFINE w == <<e>> \o v
<1>1. /\ w \in Seq(EventSet)
      /\ \A A : Holds(w, A) <=> (e \in A \/ Holds(v, A))
      /\ \A A : Within(w, A) <=> (e \in A /\ Within(v, A))
      /\ \A A : OnceIn(w, A) <=> (OnceIn(v, A) /\ (e \in A => ~Holds(v, A)))
      /\ \A A, B : Followed(w, A, B) <=> (Followed(v, A, B) /\ (e \in A => Holds(v, B)))
  BY Front
<1> HIDE DEF w
<1>2. /\ e \notin Equipped /\ e \notin Changed /\ e \notin Answered
      /\ e \notin Ev("countdown") /\ e \notin Ev("began") /\ e \notin Ev("arrived")
      /\ \A x : e \notin EvOf("pvpSuccess", x) /\ e \notin EvOf("ended", x)
                  /\ e \notin EvOf("arrived", x) /\ e \notin EvOf("used", x)
                  /\ e \notin EvOf("useFailed", x) /\ e \notin EvOf("bodyState", x)
                  /\ e \notin EvOf("buffRemoved", x) /\ e \notin EvOf("cooldownEnded", x)
      /\ \A i : e \notin EvItem("despawned", i)
  BY Sorts
<1>3. e \in Told(c, g, h)
  BY DEF Told
<1>4. Common(c, m.step, q, w, d, g, h)
  <2>1. Common(c, m.step, q, v, d, g, h)
    BY DEF Fits
  <2>2. Dressing(c, m.step, q, w)
    BY <1>1, <1>2, <2>1 DEF Common, Dressing
  <2>3. Shown(c, m.step, q, w, d)
    BY <1>1, <1>2, <2>1 DEF Common, Shown
  <2>4. Announced(c, w)
    BY <1>1, <1>2, <2>1 DEF Common, Announced
  <2> QED BY <1>1, <1>3, <2>1, <2>2, <2>3, <2>4 DEF Common
<1>5. Picking(m, q, w, g, h, b)
  BY <1>1, <1>2 DEF Fits, Picking
<1>6. Using(c, m, q, w, d)
  BY <1>1, <1>2 DEF Fits, Using, InUse
<1>7. Toggling(c, m, q, w, d)
  BY <1>1, <1>2 DEF Fits, Toggling
<1>8. Waiting(c, m, w)
  BY <1>1, <1>2 DEF Fits, Waiting
<1>9. Fits(c, m, q, w, d, g, h, b)
  BY <1>4, <1>5, <1>6, <1>7, <1>8 DEF Fits
<1> QED BY <1>9 DEF w

LEMMA UpdateGood ==
  ASSUME NEW q, NEW e \in EventSet, NEW v \in Seq(EventSet), NEW d,
         Fits(me, machine, q, <<e>> \o v, d, made, ground, robbed), Timely(machine, q, v, d, e)
  PROVE  Good(Update(e), q, v, d)
<1>1. machine \in Machines
  BY DEF Fits
<1>2. ASSUME NEW n, n = machine \/ \E x \in BOOLEAN : n = [machine EXCEPT !.potion = x]
      PROVE  Good(UpdateOf(n, e), q, v, d)
  <2>1. Fits(me, n, q, <<e>> \o v, d, made, ground, robbed) /\ n.timer = machine.timer
          /\ n.leaf = machine.leaf
    BY <1>1, <1>2, OtherPotion DEF Machines
  <2>2. Timely(n, q, v, d, e) /\ n \in Machines
    BY <2>1 DEF Timely, Fits
  <2> QED BY <2>1, <2>2, UpdateOfGood
<1>3. \E n : /\ n = machine \/ \E x \in BOOLEAN : n = [machine EXCEPT !.potion = x]
             /\ Update(e) = UpdateOf(n, e)
  <2> DEFINE n == IF machine.step = "vitals" /\ Is(e, "used", "vigor")
                  THEN [machine EXCEPT !.potion = TRUE]
                  ELSE IF e.kind = "potionTimeout" THEN [machine EXCEPT !.potion = FALSE]
                  ELSE machine
  <2>1. Update(e) = UpdateOf(n, e)
    BY DEF Update, UpdateOf
  <2>2. n = machine \/ \E x \in BOOLEAN : n = [machine EXCEPT !.potion = x]
    OBVIOUS
  <2> QED BY <2>1, <2>2
<1> QED BY <1>2, <1>3

-----------------------------------------------------------------------------
(* The steps that handle an event.                                         *)

LEMMA Handled ==
  ASSUME NEW e \in EventSet, NEW v \in Seq(EventSet), NEW d,
         Fits(me, machine, requests, <<e>> \o v, d, made, ground, robbed),
         Timely(machine, requests, v, d, e), ~Holds(v, Timeouts), d \subseteq Leaves,
         robbed \in BOOLEAN,
         Handle(e), events' = v, doubled' = d, UNCHANGED <<me, made, ground, robbed>>
  PROVE  PreparationInv'
<1>1. PICK q : q = requests
  OBVIOUS
<1>2. Good(Update(e), q, v, d)
  BY <1>1, UpdateGood
<1>3. PICK r : r = Update(e)
  OBVIOUS
<1>4. machine' = r.m /\ requests' = q \o r.sent
  BY <1>1, <1>3 DEF Handle
<1>5. PICK c, g, h, b : c = me /\ g = made /\ h = ground /\ b = robbed
  OBVIOUS
<1>6. Fits(c, r.m, q \o r.sent, v, d, g, h, b) /\ (r.m.leaf = "rest" => r.m.potion)
  BY <1>2, <1>3, <1>5 DEF Good
<1>7. me' = c /\ made' = g /\ ground' = h /\ robbed' = b
  BY <1>5
<1>8. Fits(me', machine', requests', events', doubled', made', ground', robbed')
  BY <1>4, <1>6, <1>7
<1>9. machine'.leaf = "rest" => machine'.potion
  BY <1>4, <1>6
<1>10. ~Holds(events', Timeouts) /\ robbed' \in BOOLEAN /\ doubled' \subseteq Leaves
  BY <1>5, <1>7
<1> QED BY <1>8, <1>9, <1>10 DEF PreparationInv

LEMMA EventsAre ==
  ASSUME PreparationInv
  PROVE  /\ events \in Seq(EventSet) /\ requests \in Seq(RequestSet) /\ doubled \subseteq Leaves
         /\ robbed \in BOOLEAN /\ machine \in Machines /\ ~Holds(events, Timeouts)
         /\ Fits(me, machine, requests, events, doubled, made, ground, robbed)
  BY DEF PreparationInv, Fits, Common

LEMMA DeliverKeeps ==
  ASSUME PreparationInv, Deliver
  PROVE  PreparationInv'
<1>1. events # <<>> /\ events \in Seq(EventSet)
  BY EventsAre DEF Deliver
<1>2. PICK e, v, d : e = Head(events) /\ v = Tail(events) /\ d = doubled
  OBVIOUS
<1>3. e \in EventSet /\ v \in Seq(EventSet) /\ events = <<e>> \o v
  BY <1>1, <1>2
<1>4. e \notin Timeouts /\ ~Holds(v, Timeouts)
  BY <1>3, Front, EventsAre
<1>5. Timely(machine, requests, v, d, e)
  BY <1>3, <1>4, Sorts DEF Timeouts, Timely
<1>6. Fits(me, machine, requests, <<e>> \o v, d, made, ground, robbed)
  BY <1>2, <1>3, EventsAre
<1>7. Handle(e) /\ events' = v /\ doubled' = d /\ UNCHANGED <<me, made, ground, robbed>>
  BY <1>2 DEF Deliver
<1> QED BY <1>3, <1>4, <1>5, <1>6, <1>7, EventsAre, <1>2, Handled

LEMMA RequestTimerFiresKeeps ==
  ASSUME PreparationInv, RequestTimerFires
  PROVE  PreparationInv'
<1>1. PICK v, d : v = events /\ d = doubled'
  OBVIOUS
<1> DEFINE e == Event("timeout", "none", 0)
<1>2. e \in EventSet /\ e.kind = "timeout"
  BY Texts DEF Event, EventSet, EventKinds
<1>3. Handle(e) /\ events' = v /\ doubled' = d /\ UNCHANGED <<me, made, ground, robbed>>
  BY <1>1 DEF RequestTimerFires
<1>4. machine.timer /\ ((requests = <<>> /\ v = <<>>) \/ machine.leaf \in d) /\ doubled \subseteq d
        /\ (d = doubled \/ d = doubled \cup {machine.leaf})
  BY <1>1 DEF RequestTimerFires
<1> HIDE DEF e
<1>5. Timely(machine, requests, v, d, e)
  BY <1>4 DEF Timely
<1>6. Fits(me, machine, requests, v, d, made, ground, robbed)
  BY <1>1, <1>4, EventsAre, Wider
<1>7. v \in Seq(EventSet) /\ ~Holds(v, Timeouts)
  BY <1>1, EventsAre
<1>8. Fits(me, machine, requests, <<e>> \o v, d, made, ground, robbed)
  BY <1>2, <1>6, <1>7, Prefixed
<1>9. d \subseteq Leaves
  BY <1>4, EventsAre DEF Machines
<1> QED BY <1>2, <1>3, <1>5, <1>7, <1>8, <1>9, EventsAre, Handled

LEMMA NeutralHandled ==
  ASSUME PreparationInv, NEW e \in EventSet, e.kind \in {"potionTimeout", "other"}, Handle(e),
         UNCHANGED <<me, events, made, ground, robbed, doubled>>
  PROVE  PreparationInv'
<1>1. PICK v, d : v = events /\ d = doubled
  OBVIOUS
<1>2. events' = v /\ doubled' = d
  BY <1>1
<1>3. Timely(machine, requests, v, d, e)
  BY DEF Timely
<1>4. Fits(me, machine, requests, v, d, made, ground, robbed) /\ v \in Seq(EventSet)
        /\ ~Holds(v, Timeouts) /\ d \subseteq Leaves
  BY <1>1, EventsAre
<1>5. Fits(me, machine, requests, <<e>> \o v, d, made, ground, robbed)
  BY <1>4, Prefixed
<1> QED BY <1>2, <1>3, <1>4, <1>5, EventsAre, Handled

LEMMA PotionTimerFiresKeeps ==
  ASSUME PreparationInv, PotionTimerFires
  PROVE  PreparationInv'
<1>1. Event("potionTimeout", "none", 0) \in EventSet
        /\ Event("potionTimeout", "none", 0).kind = "potionTimeout"
  BY Texts DEF Event, EventSet, EventKinds
<1> QED BY <1>1, NeutralHandled DEF PotionTimerFires

LEMMA HearOfAnotherKeeps ==
  ASSUME PreparationInv, HearOfAnother
  PROVE  PreparationInv'
<1>1. OtherEvent \in EventSet /\ OtherEvent.kind = "other"
  BY Texts DEF OtherEvent, Event, EventSet, EventKinds
<1> QED BY <1>1, NeutralHandled DEF HearOfAnother

-----------------------------------------------------------------------------
(* What the server's answers and what else happens leave.                  *)

LEMMA Served ==
  ASSUME NEW q \in Seq(RequestSet), q # <<>>
  PROVE  /\ Head(q) \in RequestSet /\ Tail(q) \in Seq(RequestSet)
         /\ \A A : Holds(q, A) <=> (Head(q) \in A \/ Holds(Tail(q), A))
         /\ \A A : Within(q, A) <=> (Head(q) \in A /\ Within(Tail(q), A))
         /\ \A A : OnceIn(q, A) <=> (OnceIn(Tail(q), A) /\ (Head(q) \in A => ~Holds(Tail(q), A)))
         /\ \A A, B : OnlyAfter(q, A, B)
                        <=> (OnlyAfter(Tail(q), A, B) /\ (Head(q) \in A => Within(Tail(q), B)))
<1>1. Head(q) \in RequestSet /\ Tail(q) \in Seq(RequestSet)
  OBVIOUS
<1>2. ASSUME NEW A, NEW B
      PROVE  /\ Holds(q, A) <=> (Head(q) \in A \/ Holds(Tail(q), A))
             /\ Within(q, A) <=> (Head(q) \in A /\ Within(Tail(q), A))
             /\ OnceIn(q, A) <=> (OnceIn(Tail(q), A) /\ (Head(q) \in A => ~Holds(Tail(q), A)))
             /\ OnlyAfter(q, A, B)
                  <=> (OnlyAfter(Tail(q), A, B) /\ (Head(q) \in A => Within(Tail(q), B)))
  BY HeadTail
<1> QED BY <1>1, <1>2

LEMMA Added ==
  ASSUME NEW v \in Seq(EventSet), NEW x \in EventSet
  PROVE  /\ v \o <<x>> \in Seq(EventSet)
         /\ \A A : Holds(v \o <<x>>, A) <=> (Holds(v, A) \/ x \in A)
         /\ \A A : Within(v \o <<x>>, A) <=> (Within(v, A) /\ x \in A)
         /\ \A A : OnceIn(v \o <<x>>, A) <=> (OnceIn(v, A) /\ ~(Holds(v, A) /\ x \in A))
         /\ \A A, B : Followed(v \o <<x>>, A, B) <=> (x \notin A /\ (x \in B \/ Followed(v, A, B)))
<1>1. v \o <<x>> \in Seq(EventSet)
  OBVIOUS
<1>2. ASSUME NEW A, NEW B
      PROVE  /\ Holds(v \o <<x>>, A) <=> (Holds(v, A) \/ x \in A)
             /\ Within(v \o <<x>>, A) <=> (Within(v, A) /\ x \in A)
             /\ OnceIn(v \o <<x>>, A) <=> (OnceIn(v, A) /\ ~(Holds(v, A) /\ x \in A))
             /\ Followed(v \o <<x>>, A, B) <=> (x \notin A /\ (x \in B \/ Followed(v, A, B)))
  BY OneMore
<1> QED BY <1>1, <1>2

(* A request that comes to nothing.                                        *)
LEMMA Dequeued ==
  ASSUME NEW c, NEW m, NEW q \in Seq(RequestSet), q # <<>>, NEW v, NEW d, NEW g, NEW h, NEW b,
         Fits(c, m, q, v, d, g, h, b)
  PROVE  Fits(c, m, Tail(q), v, d, g, h, b)
<1> DEFINE t == Tail(q)
<1>1. /\ t \in Seq(RequestSet)
      /\ \A A : Holds(t, A) => Holds(q, A)
      /\ \A A : Within(q, A) => Within(t, A)
      /\ \A A : OnceIn(q, A) => OnceIn(t, A)
      /\ \A A, B : OnlyAfter(q, A, B) => OnlyAfter(t, A, B)
  BY Served
<1> HIDE DEF t
<1>2. Common(c, m.step, t, v, d, g, h)
  <2>1. Common(c, m.step, q, v, d, g, h)
    BY DEF Fits
  <2>2. Dressing(c, m.step, t, v)
    BY <1>1, <2>1 DEF Common, Dressing
  <2>3. Shown(c, m.step, t, v, d)
    BY <1>1, <2>1 DEF Common, Shown
  <2> QED BY <1>1, <2>1, <2>2, <2>3 DEF Common
<1>3. Walking(c, m, t)
  <2>1. Still(c, m.step, q) => Still(c, m.step, t)
    BY <1>1 DEF Still
  <2> QED BY <1>1, <2>1 DEF Fits, Walking
<1>4. Picking(m, t, v, g, h, b)
  BY <1>1 DEF Fits, Picking
<1>5. Using(c, m, t, v, d)
  BY <1>1 DEF Fits, Using, InUse
<1>6. Toggling(c, m, t, v, d)
  BY <1>1 DEF Fits, Toggling
<1>7. Fits(c, m, t, v, d, g, h, b)
  BY <1>2, <1>3, <1>4, <1>5, <1>6 DEF Fits
<1> QED BY <1>7 DEF t

Plain == EventSet \ (Equipped \cup Changed \cup Ev("countdown") \cup Ev("began") \cup Ev("arrived")
                     \cup Answered)

(* An event that none must wait for without it being told.                 *)
LEMMA Published ==
  ASSUME NEW c, NEW m, NEW q, NEW v \in Seq(EventSet), NEW d, NEW g, NEW h, NEW b,
         Fits(c, m, q, v, d, g, h, b), NEW x \in Plain, x \in Told(c, g, h)
  PROVE  Fits(c, m, q, v \o <<x>>, d, g, h, b)
<1> DEFINE w == v \o <<x>>
<1>1. /\ x \in EventSet /\ x \notin Equipped /\ x \notin Changed /\ x \notin Answered
      /\ x \notin Ev("countdown") /\ x \notin Ev("began") /\ x \notin Ev("arrived")
  BY DEF Plain
<1>2. /\ w \in Seq(EventSet)
      /\ \A A : Holds(w, A) <=> (Holds(v, A) \/ x \in A)
      /\ \A A : Within(w, A) <=> (Within(v, A) /\ x \in A)
      /\ \A A : OnceIn(w, A) <=> (OnceIn(v, A) /\ ~(Holds(v, A) /\ x \in A))
      /\ \A A, B : Followed(w, A, B) <=> (x \notin A /\ (x \in B \/ Followed(v, A, B)))
  BY <1>1, Added
<1> HIDE DEF w
<1>3. Common(c, m.step, q, w, d, g, h)
  <2>1. Common(c, m.step, q, v, d, g, h)
    BY DEF Fits
  <2>2. Dressing(c, m.step, q, w)
    BY <1>1, <1>2, <2>1 DEF Common, Dressing
  <2>3. Shown(c, m.step, q, w, d)
    BY <1>1, <1>2, <2>1 DEF Common, Shown
  <2>4. Announced(c, w)
    BY <1>1, <1>2, <2>1 DEF Common, Announced
  <2> QED BY <1>2, <2>1, <2>2, <2>3, <2>4 DEF Common
<1>4. Picking(m, q, w, g, h, b)
  BY <1>1, <1>2 DEF Fits, Picking
<1>5. Using(c, m, q, w, d)
  <2>1. x \notin EvOf("useFailed", "doesNotExist")
    BY <1>1, Sorts
  <2> QED BY <1>1, <1>2, <2>1 DEF Fits, Using, InUse
<1>6. Toggling(c, m, q, w, d)
  BY <1>2 DEF Fits, Toggling
<1>7. Waiting(c, m, w)
  BY <1>2 DEF Fits, Waiting
<1>8. Fits(c, m, q, w, d, g, h, b)
  BY <1>3, <1>4, <1>5, <1>6, <1>7 DEF Fits
<1> QED BY <1>8 DEF w

(* A buff that ends has been announced.                                    *)
LEMMA FewerBuffs ==
  ASSUME NEW c, NEW m, NEW q, NEW v, NEW d, NEW g, NEW h, NEW b, NEW x,
         Fits(c, m, q, v, d, g, h, b),
         x \in c.buffs => Holds(v, EvOf("buffRemoved", x))
  PROVE  Fits([c EXCEPT !.buffs = @ \ {x}], m, q, v, d, g, h, b)
<1> DEFINE n == [c EXCEPT !.buffs = @ \ {x}]
<1>1. Common(c, m.step, q, v, d, g, h) /\ c \in Character
  BY DEF Fits, Common
<1>2. /\ n \in Character /\ n.buffs = c.buffs \ {x} /\ c.buffs \subseteq Buffs
      /\ n.hat = c.hat /\ n.spot = c.spot /\ n.going = c.going /\ n.bag = c.bag
      /\ n.broken = c.broken /\ n.ailments = c.ailments /\ n.visible = c.visible
      /\ n.mode = c.mode /\ n.cooling = c.cooling
  BY <1>1 DEF Character
<1> HIDE DEF n
<1>3. Common(n, m.step, q, v, d, g, h)
  <2>1. Told(n, g, h) = Told(c, g, h)
    BY <1>2 DEF Told
  <2>2. Attained(n, m.step, d)
    BY <1>1, <1>2 DEF Common, Attained
  <2>3. Dressing(n, m.step, q, v) /\ Shown(n, m.step, q, v, d) /\ Announced(n, v)
    BY <1>1, <1>2 DEF Common, Dressing, Shown, Announced
  <2> QED BY <1>1, <1>2, <2>1, <2>2, <2>3 DEF Common
<1>4. Walking(n, m, q)
  BY <1>2 DEF Fits, Walking, Still
<1>5. Using(n, m, q, v, d) /\ Stocked(n, m, d) /\ Toggling(n, m, q, v, d)
  BY <1>2 DEF Fits, Using, Stocked, Toggling
<1>6. Waiting(n, m, v)
  <2>1. ASSUME c.buffs # {} PROVE n.buffs # {} \/ \E y \in Buffs : Holds(v, EvOf("buffRemoved", y))
    BY <1>2, <2>1
  <2> QED BY <1>2, <2>1 DEF Fits, Waiting
<1>7. Fits(n, m, q, v, d, g, h, b)
  BY <1>3, <1>4, <1>5, <1>6 DEF Fits
<1> QED BY <1>7 DEF n

LEMMA FewerCooldowns ==
  ASSUME NEW c, NEW m, NEW q, NEW v, NEW d, NEW g, NEW h, NEW b, NEW x \in c.cooling,
         Fits(c, m, q, v, d, g, h, b), Holds(v, EvOf("cooldownEnded", x))
  PROVE  Fits([c EXCEPT !.cooling = @ \ {x}], m, q, v, d, g, h, b)
<1> DEFINE n == [c EXCEPT !.cooling = @ \ {x}]
<1>1. Common(c, m.step, q, v, d, g, h) /\ c \in Character
  BY DEF Fits, Common
<1>2. /\ n \in Character /\ n.cooling = c.cooling \ {x} /\ x \in Kinds
      /\ n.hat = c.hat /\ n.spot = c.spot /\ n.going = c.going /\ n.bag = c.bag
      /\ n.broken = c.broken /\ n.ailments = c.ailments /\ n.visible = c.visible
      /\ n.mode = c.mode /\ n.buffs = c.buffs
  BY <1>1 DEF Character
<1> HIDE DEF n
<1>3. Common(n, m.step, q, v, d, g, h)
  <2>1. Told(n, g, h) = Told(c, g, h)
    BY <1>2 DEF Told
  <2>2. Attained(n, m.step, d)
    BY <1>1, <1>2 DEF Common, Attained
  <2>3. Dressing(n, m.step, q, v) /\ Shown(n, m.step, q, v, d) /\ Announced(n, v)
    BY <1>1, <1>2 DEF Common, Dressing, Shown, Announced
  <2> QED BY <1>1, <1>2, <2>1, <2>2, <2>3 DEF Common
<1>4. Walking(n, m, q)
  BY <1>2 DEF Fits, Walking, Still
<1>5. Using(n, m, q, v, d) /\ Stocked(n, m, d) /\ Toggling(n, m, q, v, d)
  BY <1>2 DEF Fits, Using, Stocked, Toggling
<1>6. Waiting(n, m, v)
  BY <1>2 DEF Fits, Waiting
<1>7. Fits(n, m, q, v, d, g, h, b)
  BY <1>3, <1>4, <1>5, <1>6 DEF Fits
<1> QED BY <1>7 DEF n

(* An item that has moved: only the one put on again is waited for, and     *)
(* nothing that would move it is sent after it.                            *)
LEMMA HatMoves ==
  ASSUME NEW c, NEW m, NEW q \in Seq(RequestSet), q # <<>>, NEW v \in Seq(EventSet), NEW d, NEW g,
         NEW h, NEW b, Fits(c, m, q, v, d, g, h, b), NEW x \in Slots, NEW a \in EventSet,
         Head(q).op \in MoveLeaves, x = "avatar" <=> Head(q).op = "equip",
         a.kind = "moved", a.what = Head(q).op
  PROVE  Fits([c EXCEPT !.hat = x], m, Tail(q), v \o <<a>>, d, g, h, b)
<1> DEFINE n == [c EXCEPT !.hat = x]
           t == Tail(q)
           w == v \o <<a>>
           r == Head(q)
<1>1. /\ r \in RequestSet /\ t \in Seq(RequestSet)
      /\ \A A : Holds(q, A) <=> (r \in A \/ Holds(t, A))
      /\ \A A : Within(q, A) <=> (r \in A /\ Within(t, A))
      /\ \A A, B : OnlyAfter(q, A, B) <=> (OnlyAfter(t, A, B) /\ (r \in A => Within(t, B)))
  BY Served
<1>2. /\ w \in Seq(EventSet)
      /\ \A A : Holds(w, A) <=> (Holds(v, A) \/ a \in A)
      /\ \A A : Within(w, A) <=> (Within(v, A) /\ a \in A)
      /\ \A A : OnceIn(w, A) <=> (OnceIn(v, A) /\ ~(Holds(v, A) /\ a \in A))
      /\ \A A, B : Followed(w, A, B) <=> (a \notin A /\ (a \in B \/ Followed(v, A, B)))
  BY Added
<1>3. /\ a \notin Changed /\ a \notin Answered /\ a \notin Ev("countdown")
      /\ a \notin Ev("began") /\ a \notin Ev("arrived") /\ a \in Told(c, g, h)
      /\ a \notin EvOf("useFailed", "doesNotExist") /\ (a \in Equipped <=> r.op = "equip")
  BY Sorts DEF Told
<1>4. Common(c, m.step, q, v, d, g, h) /\ c \in Character /\ Fits(c, m, t, v, d, g, h, b)
  BY Dequeued DEF Fits, Common
<1>5. /\ n \in Character /\ n.hat = x
      /\ n.buffs = c.buffs /\ n.spot = c.spot /\ n.going = c.going /\ n.bag = c.bag
      /\ n.broken = c.broken /\ n.ailments = c.ailments /\ n.visible = c.visible
      /\ n.mode = c.mode /\ n.cooling = c.cooling
  BY <1>4 DEF Character
<1>6. r.op = "equip" \/ r \notin Closing
  BY <1>1, Sorts DEF MoveLeaves
<1>7. (r \in Op("equip") <=> r.op = "equip")
  BY <1>1, Sorts
<1> HIDE DEF n, t, w, r
<1>8. Common(n, m.step, t, w, d, g, h)
  <2>1. Common(c, m.step, t, v, d, g, h)
    BY <1>4 DEF Fits
  <2>2. Told(n, g, h) = Told(c, g, h)
    BY <1>5 DEF Told
  <2>3. Holds(w, Equipped) \/ m.step \in PastEquip => x = "avatar" /\ Within(t, Closing)
    <3>1. CASE r.op = "equip"
      BY <1>1, <1>4, <1>7, <3>1 DEF Common, Dressing, r
    <3>2. CASE r.op # "equip"
      <4>1. ~Holds(v, Equipped) /\ m.step \notin PastEquip
        BY <1>1, <1>4, <1>6, <3>2 DEF Common, Dressing
      <4> QED BY <1>2, <1>3, <3>2, <4>1
    <3> QED BY <3>1, <3>2
  <2>4. m.step \in PastPvp \/ (~Holds(t, Op("equip")) /\ ~Holds(w, Equipped))
    BY <1>1, <1>2, <1>3, <1>4, <1>7 DEF Common, Dressing
  <2>5. Dressing(n, m.step, t, w)
    BY <1>5, <2>1, <2>3, <2>4 DEF Common, Dressing
  <2>6. Attained(n, m.step, d)
    BY <1>5, <2>1, <2>3 DEF Common, Attained
  <2>7. Shown(n, m.step, t, w, d)
    BY <1>2, <1>3, <1>5, <2>1 DEF Common, Shown
  <2>8. Announced(n, w)
    BY <1>2, <1>3, <1>5, <2>1 DEF Common, Announced
  <2> QED BY <1>2, <1>3, <1>5, <2>1, <2>2, <2>5, <2>6, <2>7, <2>8 DEF Common
<1>9. Walking(n, m, t)
  BY <1>4, <1>5 DEF Fits, Walking, Still
<1>10. Picking(m, t, w, g, h, b)
  BY <1>2, <1>3, <1>4 DEF Fits, Picking
<1>11. Using(n, m, t, w, d)
  BY <1>2, <1>3, <1>4, <1>5 DEF Fits, Using, InUse
<1>12. Stocked(n, m, d) /\ Toggling(n, m, t, w, d)
  BY <1>2, <1>4, <1>5 DEF Fits, Stocked, Toggling
<1>13. Waiting(n, m, w)
  BY <1>2, <1>4, <1>5 DEF Fits, Waiting
<1>14. Fits(n, m, t, w, d, g, h, b)
  BY <1>4, <1>8, <1>9, <1>10, <1>11, <1>12, <1>13 DEF Fits
<1> QED BY <1>14 DEF n, t, w

(* A walk that begins: it is to where the active leaf has it go.            *)
LEMMA WalkBegins ==
  ASSUME NEW c, NEW m, NEW q \in Seq(RequestSet), q # <<>>, NEW v \in Seq(EventSet), NEW d, NEW g,
         NEW h, NEW b, Fits(c, m, q, v, d, g, h, b), NEW a \in EventSet,
         Head(q).op = "walk", c.spot # Head(q).what, a.kind = "began"
  PROVE  Fits([c EXCEPT !.going = Head(q).what], m, Tail(q), v \o <<a>>, d, g, h, b)
<1> DEFINE n == [c EXCEPT !.going = Head(q).what]
           t == Tail(q)
           w == v \o <<a>>
           r == Head(q)
<1>1. /\ r \in RequestSet /\ t \in Seq(RequestSet)
      /\ \A A : Holds(q, A) <=> (r \in A \/ Holds(t, A))
      /\ \A A : Within(q, A) <=> (r \in A /\ Within(t, A))
      /\ \A A : OnceIn(q, A) <=> (OnceIn(t, A) /\ (r \in A => ~Holds(t, A)))
      /\ \A A, B : OnlyAfter(q, A, B) <=> (OnlyAfter(t, A, B) /\ (r \in A => Within(t, B)))
  BY Served
<1>2. /\ w \in Seq(EventSet)
      /\ \A A : Holds(w, A) <=> (Holds(v, A) \/ a \in A)
      /\ \A A : Within(w, A) <=> (Within(v, A) /\ a \in A)
      /\ \A A : OnceIn(w, A) <=> (OnceIn(v, A) /\ ~(Holds(v, A) /\ a \in A))
      /\ \A A, B : Followed(w, A, B) <=> (a \notin A /\ (a \in B \/ Followed(v, A, B)))
  BY Added
<1>3. /\ a \notin Equipped /\ a \notin Changed /\ a \notin Answered /\ a \notin Ev("countdown")
      /\ a \notin Ev("arrived") /\ a \in Told(c, g, h)
      /\ a \notin EvOf("useFailed", "doesNotExist")
  BY Sorts DEF Told
<1>4. Common(c, m.step, q, v, d, g, h) /\ c \in Character /\ Fits(c, m, t, v, d, g, h, b)
  BY Dequeued DEF Fits, Common
<1>5. r.op = "walk" /\ c.spot # r.what /\ r.what \in {"pvp", "away"} /\ r \in Op("walk")
  BY <1>1, <1>4, Sorts DEF Common, Legal
<1>6. /\ n \in Character /\ n.going = r.what
      /\ n.hat = c.hat /\ n.buffs = c.buffs /\ n.spot = c.spot /\ n.bag = c.bag
      /\ n.broken = c.broken /\ n.ailments = c.ailments /\ n.visible = c.visible
      /\ n.mode = c.mode /\ n.cooling = c.cooling
  BY <1>4, <1>5 DEF Character, Spots
<1>7. /\ r \in Homeward <=> r.what = "pvp"
      /\ \A x : r \in OpOf("walk", x) <=> r.what = x
  BY <1>1, <1>5, Sorts
<1> HIDE DEF n, t, w, r
<1>8. Common(n, m.step, t, w, d, g, h)
  <2>1. Common(c, m.step, t, v, d, g, h)
    BY <1>4 DEF Fits
  <2>2. Told(n, g, h) = Told(c, g, h) /\ Attained(n, m.step, d)
    BY <1>6, <2>1 DEF Told, Common, Attained
  <2>3. Dressing(n, m.step, t, w)
    BY <1>2, <1>3, <1>6, <2>1 DEF Common, Dressing
  <2>4. Shown(n, m.step, t, w, d)
    BY <1>2, <1>3, <1>6, <2>1 DEF Common, Shown
  <2>5. Announced(n, w)
    BY <1>2, <1>3, <1>5, <1>6, <2>1 DEF Common, Announced
  <2> QED BY <1>2, <1>3, <1>6, <2>1, <2>2, <2>3, <2>4, <2>5 DEF Common
<1>9. Walking(n, m, t)
  <2>1. Walking(c, m, q)
    BY <1>4 DEF Fits
  <2>2. CASE m.leaf \in {"walk", "return", "pick"}
    BY <1>1, <1>5, <1>6, <1>7, <2>1, <2>2 DEF Walking
  <2>3. CASE m.leaf = "nudge"
    <3>1. r.what = "away"
      BY <1>1, <1>5, <1>7, <2>1, <2>3 DEF Walking
    <3>2. OnlyAfter(t, OpOf("walk", "away"), NotTo("pvp")) /\ Within(t, NotTo("pvp"))
      BY <1>1, <1>7, <2>1, <2>3, <3>1 DEF Walking
    <3>3. ~Holds(t, OpOf("walk", "pvp"))
      BY <3>2 DEF Holds, Within, NotTo
    <3> QED BY <1>6, <2>1, <2>3, <3>1, <3>2, <3>3 DEF Walking
  <2>4. CASE m.leaf = "nudgeBack"
    <3>1. r.what = "pvp" /\ c.spot = "away"
      BY <1>1, <1>5, <1>7, <2>1, <2>4 DEF Walking
    <3>2. OnlyAfter(t, OpOf("walk", "pvp"), NotTo("away")) /\ Within(t, NotTo("away"))
      BY <1>1, <1>7, <2>1, <2>4, <3>1 DEF Walking
    <3>3. Within(t, Homeward)
      <4>1. Within(t, Legal(g))
        BY <1>1, <1>4 DEF Common
      <4>2. ASSUME NEW i \in DOMAIN t PROVE t[i] \in Homeward
        <5>1. t[i] \in RequestSet /\ t[i] \in Legal(g) /\ t[i] \in NotTo("away")
          BY <1>1, <3>2, <4>1 DEF Within
        <5> QED BY <5>1, Sorts DEF Legal
      <4> QED BY <4>2 DEF Within
    <3> QED BY <1>6, <2>1, <2>4, <3>1, <3>2, <3>3 DEF Walking
  <2>5. CASE m.leaf \notin {"walk", "return", "pick", "nudge", "nudgeBack"}
    <3>1. Still(c, m.step, q)
      BY <2>1, <2>5 DEF Walking
    <3> QED BY <1>1, <1>5, <1>7, <3>1 DEF Still
  <2> QED BY <2>2, <2>3, <2>4, <2>5
<1>10. Picking(m, t, w, g, h, b)
  BY <1>2, <1>3, <1>4 DEF Fits, Picking
<1>11. Using(n, m, t, w, d)
  BY <1>2, <1>3, <1>4, <1>6 DEF Fits, Using, InUse
<1>12. Stocked(n, m, d) /\ Toggling(n, m, t, w, d)
  BY <1>2, <1>4, <1>6 DEF Fits, Stocked, Toggling
<1>13. Waiting(n, m, w)
  BY <1>2, <1>4, <1>5, <1>6 DEF Fits, Waiting
<1>14. Fits(n, m, t, w, d, g, h, b)
  BY <1>4, <1>8, <1>9, <1>10, <1>11, <1>12, <1>13 DEF Fits
<1> QED BY <1>14 DEF n, t, w, r

(* A walk to where the character is: it ends as it begins.                  *)
LEMMA WalkThere ==
  ASSUME NEW c, NEW m, NEW q, NEW v \in Seq(EventSet), NEW d, NEW g,
         NEW h, NEW b, Fits(c, m, q, v, d, g, h, b), NEW a \in EventSet, NEW z \in EventSet,
         a.kind = "began", z.kind = "ended", z.what = "none"
  PROVE  Fits([c EXCEPT !.going = "nowhere"], m, q, (v \o <<a>>) \o <<z>>, d, g, h, b)
<1> DEFINE n == [c EXCEPT !.going = "nowhere"]
           u == v \o <<a>>
           w == u \o <<z>>
<1>1. u \in Seq(EventSet)
  BY Added
<1>2. /\ w \in Seq(EventSet)
      /\ \A A : Holds(w, A) <=> (Holds(v, A) \/ a \in A \/ z \in A)
      /\ \A A : Within(w, A) <=> (Within(v, A) /\ a \in A /\ z \in A)
      /\ \A A : a \notin A /\ z \notin A => (OnceIn(w, A) <=> OnceIn(v, A))
      /\ \A A, B : z \notin A /\ z \in B => Followed(w, A, B)
      /\ \A A, B : z \notin A /\ a \notin A => (Followed(v, A, B) => Followed(w, A, B))
  BY <1>1, Added
<1>3. \A x \in {a, z} :
        /\ x \notin Equipped /\ x \notin Changed /\ x \notin Answered /\ x \notin Ev("countdown")
        /\ x \notin Ev("arrived") /\ x \in Told(c, g, h)
        /\ x \notin EvOf("useFailed", "doesNotExist")
  BY Sorts DEF Told
<1>4. z \notin Ev("began") /\ z \in EvOf("ended", "none")
  BY Sorts
<1>5. Common(c, m.step, q, v, d, g, h) /\ c \in Character
  BY DEF Fits, Common
<1>6. /\ n \in Character /\ n.going = "nowhere"
      /\ n.hat = c.hat /\ n.buffs = c.buffs /\ n.spot = c.spot /\ n.bag = c.bag
      /\ n.broken = c.broken /\ n.ailments = c.ailments /\ n.visible = c.visible
      /\ n.mode = c.mode /\ n.cooling = c.cooling
  BY <1>5 DEF Character
<1> HIDE DEF n, u, w
<1>7. Common(n, m.step, q, w, d, g, h)
  <2>2. Told(n, g, h) = Told(c, g, h) /\ Attained(n, m.step, d)
    BY <1>5, <1>6 DEF Told, Common, Attained
  <2>3. Dressing(n, m.step, q, w)
    BY <1>2, <1>3, <1>5, <1>6 DEF Common, Dressing
  <2>4. Shown(n, m.step, q, w, d)
    BY <1>2, <1>3, <1>5, <1>6 DEF Common, Shown
  <2>5. Announced(n, w)
    BY <1>2, <1>3, <1>4, <1>5, <1>6 DEF Common, Announced
  <2> QED BY <1>2, <1>3, <1>5, <1>6, <2>2, <2>3, <2>4, <2>5 DEF Common
<1>8. Walking(n, m, q)
  <2>1. Walking(c, m, q)
    BY DEF Fits
  <2> QED BY <1>6, <2>1 DEF Walking, Still
<1>9. Picking(m, q, w, g, h, b)
  BY <1>2, <1>3 DEF Fits, Picking
<1>10. Using(n, m, q, w, d)
  BY <1>2, <1>3, <1>6 DEF Fits, Using, InUse
<1>11. Stocked(n, m, d) /\ Toggling(n, m, q, w, d)
  BY <1>2, <1>6 DEF Fits, Stocked, Toggling
<1>12. Waiting(n, m, w)
  BY <1>2, <1>4, <1>6 DEF Fits, Waiting
<1>13. Fits(n, m, q, w, d, g, h, b)
  BY <1>7, <1>8, <1>9, <1>10, <1>11, <1>12 DEF Fits
<1> QED BY <1>13 DEF n, u, w

(* A walk that ends.                                                       *)
LEMMA WalkArrives ==
  ASSUME NEW c, NEW m, NEW q, NEW v \in Seq(EventSet), NEW d, NEW g,
         NEW h, NEW b, Fits(c, m, q, v, d, g, h, b), NEW a \in EventSet,
         c.going # "nowhere", a.kind = "ended", a.what = "none"
  PROVE  Fits([c EXCEPT !.spot = c.going, !.going = "nowhere"], m, q, v \o <<a>>, d, g, h, b)
<1> DEFINE n == [c EXCEPT !.spot = c.going, !.going = "nowhere"]
           w == v \o <<a>>
<1>2. /\ w \in Seq(EventSet)
      /\ \A A : Holds(w, A) <=> (Holds(v, A) \/ a \in A)
      /\ \A A : Within(w, A) <=> (Within(v, A) /\ a \in A)
      /\ \A A : OnceIn(w, A) <=> (OnceIn(v, A) /\ ~(Holds(v, A) /\ a \in A))
      /\ \A A, B : Followed(w, A, B) <=> (a \notin A /\ (a \in B \/ Followed(v, A, B)))
  BY Added
<1>3. /\ a \notin Equipped /\ a \notin Changed /\ a \notin Answered /\ a \notin Ev("countdown")
      /\ a \notin Ev("began") /\ a \notin Ev("arrived") /\ a \in Told(c, g, h)
      /\ a \notin EvOf("useFailed", "doesNotExist") /\ a \in EvOf("ended", "none")
  BY Sorts DEF Told
<1>4. Common(c, m.step, q, v, d, g, h) /\ c \in Character
  BY DEF Fits, Common
<1>5. /\ n \in Character /\ n.spot = c.going /\ n.going = "nowhere"
      /\ n.hat = c.hat /\ n.buffs = c.buffs /\ n.bag = c.bag /\ n.broken = c.broken
      /\ n.ailments = c.ailments /\ n.visible = c.visible /\ n.mode = c.mode
      /\ n.cooling = c.cooling
  BY <1>4 DEF Character
<1> HIDE DEF n, w
<1>6. Common(n, m.step, q, w, d, g, h)
  <2>2. Told(n, g, h) = Told(c, g, h) /\ Attained(n, m.step, d)
    BY <1>4, <1>5 DEF Told, Common, Attained
  <2>3. Dressing(n, m.step, q, w)
    BY <1>2, <1>3, <1>4, <1>5 DEF Common, Dressing
  <2>4. Shown(n, m.step, q, w, d)
    BY <1>2, <1>3, <1>4, <1>5 DEF Common, Shown
  <2>5. Announced(n, w)
    BY <1>2, <1>3, <1>4, <1>5 DEF Common, Announced
  <2> QED BY <1>2, <1>3, <1>4, <1>5, <2>2, <2>3, <2>4, <2>5 DEF Common
<1>7. Walking(n, m, q)
  <2>1. Walking(c, m, q)
    BY DEF Fits
  <2>2. ~Still(c, m.step, q)
    BY DEF Still
  <2> QED BY <1>5, <2>1, <2>2 DEF Walking
<1>8. Picking(m, q, w, g, h, b)
  BY <1>2, <1>3 DEF Fits, Picking
<1>9. Using(n, m, q, w, d)
  BY <1>2, <1>3, <1>5 DEF Fits, Using, InUse
<1>10. Stocked(n, m, d) /\ Toggling(n, m, q, w, d)
  BY <1>2, <1>5 DEF Fits, Stocked, Toggling
<1>11. Waiting(n, m, w)
  BY <1>2, <1>3, <1>5 DEF Fits, Waiting
<1>12. Fits(n, m, q, w, d, g, h, b)
  BY <1>6, <1>7, <1>8, <1>9, <1>10, <1>11 DEF Fits
<1> QED BY <1>12 DEF n, w

(* The countdown begins, and ends.                                         *)
LEMMA CountdownBegins ==
  ASSUME NEW c, NEW m, NEW q, NEW v \in Seq(EventSet), NEW d, NEW g,
         NEW h, NEW b, Fits(c, m, q, v, d, g, h, b), NEW a \in EventSet,
         c.mode = "white", a.kind = "countdown"
  PROVE  Fits([c EXCEPT !.mode = "counting"], m, q, v \o <<a>>, d, g, h, b)
<1> DEFINE n == [c EXCEPT !.mode = "counting"]
           w == v \o <<a>>
<1>2. /\ w \in Seq(EventSet)
      /\ \A A : Holds(w, A) <=> (Holds(v, A) \/ a \in A)
      /\ \A A : Within(w, A) <=> (Within(v, A) /\ a \in A)
      /\ \A A : OnceIn(w, A) <=> (OnceIn(v, A) /\ ~(Holds(v, A) /\ a \in A))
      /\ \A A, B : Followed(w, A, B) <=> (a \notin A /\ (a \in B \/ Followed(v, A, B)))
  BY Added
<1>3. /\ a \notin Equipped /\ a \notin Changed /\ a \notin Answered
      /\ a \notin Ev("began") /\ a \notin Ev("arrived") /\ a \in Told(c, g, h)
      /\ a \notin EvOf("useFailed", "doesNotExist")
  BY Sorts DEF Told
<1>4. Common(c, m.step, q, v, d, g, h) /\ c \in Character
  BY DEF Fits, Common
<1>5. /\ n \in Character /\ n.mode = "counting"
      /\ n.hat = c.hat /\ n.buffs = c.buffs /\ n.spot = c.spot /\ n.going = c.going
      /\ n.bag = c.bag /\ n.broken = c.broken /\ n.ailments = c.ailments
      /\ n.visible = c.visible /\ n.cooling = c.cooling
  BY <1>4 DEF Character
<1> HIDE DEF n, w
<1>6. Common(n, m.step, q, w, d, g, h)
  <2>1. Told(c, g, h) \subseteq Told(n, g, h)
    BY <1>5 DEF Told
  <2>2. Within(w, Told(n, g, h))
    BY <1>2, <1>3, <1>4, <2>1, Subsets DEF Common
  <2>3. Dressing(n, m.step, q, w)
    BY <1>2, <1>3, <1>4, <1>5 DEF Common, Dressing
  <2>4. Shown(n, m.step, q, w, d)
    BY <1>2, <1>3, <1>4, <1>5 DEF Common, Shown
  <2>5. Announced(n, w)
    BY <1>2, <1>3, <1>4, <1>5 DEF Common, Announced
  <2>6. Attained(n, m.step, d)
    BY <1>4, <1>5 DEF Common, Attained
  <2> QED BY <1>2, <1>4, <1>5, <2>2, <2>3, <2>4, <2>5, <2>6 DEF Common
<1>7. Walking(n, m, q)
  BY <1>5 DEF Fits, Walking, Still
<1>8. Picking(m, q, w, g, h, b)
  BY <1>2, <1>3 DEF Fits, Picking
<1>9. Using(n, m, q, w, d)
  BY <1>2, <1>3, <1>5 DEF Fits, Using, InUse
<1>10. Stocked(n, m, d) /\ Toggling(n, m, q, w, d)
  BY <1>2, <1>5 DEF Fits, Stocked, Toggling
<1>11. Waiting(n, m, w)
  BY <1>2, <1>3, <1>5 DEF Fits, Waiting
<1>12. Fits(n, m, q, w, d, g, h, b)
  BY <1>6, <1>7, <1>8, <1>9, <1>10, <1>11 DEF Fits
<1> QED BY <1>12 DEF n, w

LEMMA CountdownOver ==
  ASSUME NEW c, NEW m, NEW q, NEW v \in Seq(EventSet), NEW d, NEW g,
         NEW h, NEW b, Fits(c, m, q, v, d, g, h, b), NEW a \in EventSet,
         c.mode = "counting", a.kind = "pvpSuccess", a.what = "none"
  PROVE  Fits([c EXCEPT !.mode = "yellow"], m, q, v \o <<a>>, d, g, h, b)
<1> DEFINE n == [c EXCEPT !.mode = "yellow"]
           w == v \o <<a>>
<1>2. /\ w \in Seq(EventSet)
      /\ \A A : Holds(w, A) <=> (Holds(v, A) \/ a \in A)
      /\ \A A : Within(w, A) <=> (Within(v, A) /\ a \in A)
      /\ \A A : OnceIn(w, A) <=> (OnceIn(v, A) /\ ~(Holds(v, A) /\ a \in A))
      /\ \A A, B : Followed(w, A, B) <=> (a \notin A /\ (a \in B \/ Followed(v, A, B)))
  BY Added
<1>3. /\ a \notin Equipped /\ a \notin Changed /\ a \notin Answered /\ a \notin Ev("countdown")
      /\ a \notin Ev("began") /\ a \notin Ev("arrived")
      /\ a \notin EvOf("useFailed", "doesNotExist") /\ a \in EvOf("pvpSuccess", "none")
  BY Sorts
<1>4. Common(c, m.step, q, v, d, g, h) /\ c \in Character
  BY DEF Fits, Common
<1>5. /\ n \in Character /\ n.mode = "yellow"
      /\ n.hat = c.hat /\ n.buffs = c.buffs /\ n.spot = c.spot /\ n.going = c.going
      /\ n.bag = c.bag /\ n.broken = c.broken /\ n.ailments = c.ailments
      /\ n.visible = c.visible /\ n.cooling = c.cooling
  BY <1>4 DEF Character
<1> HIDE DEF n, w
<1>6. Common(n, m.step, q, w, d, g, h)
  <2>1. Told(c, g, h) \subseteq Told(n, g, h) /\ a \in Told(n, g, h)
    BY <1>5 DEF Told
  <2>2. Within(w, Told(n, g, h))
    BY <1>2, <1>4, <2>1, Subsets DEF Common
  <2>3. Dressing(n, m.step, q, w)
    BY <1>2, <1>3, <1>4, <1>5 DEF Common, Dressing
  <2>4. Shown(n, m.step, q, w, d)
    BY <1>2, <1>3, <1>4, <1>5 DEF Common, Shown
  <2>5. Announced(n, w)
    BY <1>2, <1>3, <1>4, <1>5 DEF Common, Announced
  <2>6. Attained(n, m.step, d)
    BY <1>4, <1>5 DEF Common, Attained
  <2> QED BY <1>2, <1>4, <1>5, <2>2, <2>3, <2>4, <2>5, <2>6 DEF Common
<1>7. Walking(n, m, q)
  BY <1>5 DEF Fits, Walking, Still
<1>8. Picking(m, q, w, g, h, b)
  BY <1>2, <1>3 DEF Fits, Picking
<1>9. Using(n, m, q, w, d)
  BY <1>2, <1>3, <1>5 DEF Fits, Using, InUse
<1>10. Stocked(n, m, d) /\ Toggling(n, m, q, w, d)
  BY <1>2, <1>5 DEF Fits, Stocked, Toggling
<1>11. Waiting(n, m, w)
  BY <1>2, <1>3, <1>5 DEF Fits, Waiting
<1>12. Fits(n, m, q, w, d, g, h, b)
  BY <1>6, <1>7, <1>8, <1>9, <1>10, <1>11 DEF Fits
<1> QED BY <1>12 DEF n, w

(* An item that appears.                                                   *)
LEMMA ItemAppears ==
  ASSUME NEW c, NEW m, NEW q \in Seq(RequestSet), NEW v \in Seq(EventSet), NEW d, NEW g,
         NEW h, NEW b, Fits(c, m, q, v, d, g, h, b), NEW a \in EventSet, NEW z \in EventSet,
         NEW k \in Kinds, a.kind = "operatorSuccess", a.what = "make", z.kind = "spawned",
         z.item = Len(g) + 1
  PROVE  Fits(c, m, q, (v \o <<a>>) \o <<z>>, d, Append(g, k), h \cup {Len(g) + 1}, b)
<1> DEFINE gg == Append(g, k)
           j == Len(g) + 1
           hh == h \cup {j}
<1>1. Common(c, m.step, q, v, d, g, h) /\ g \in Seq(Kinds) /\ h \subseteq DOMAIN g
  BY DEF Fits, Common
<1>2. /\ gg \in Seq(Kinds) /\ DOMAIN gg = DOMAIN g \cup {j} /\ j \notin DOMAIN g /\ j \in DOMAIN gg
      /\ \A i \in DOMAIN g : gg[i] = g[i]
  BY <1>1
<1>3. hh \subseteq DOMAIN gg /\ DOMAIN g \ h \subseteq DOMAIN gg \ hh
      /\ \A i \in DOMAIN g : i \in hh <=> i \in h
  BY <1>1, <1>2
<1>4. z.item = j
  OBVIOUS
<1> HIDE DEF gg, hh, j
<1>5. Legal(g) \subseteq Legal(gg)
  BY <1>2 DEF Legal
<1>6. Told(c, g, h) \subseteq Told(c, gg, hh)
  BY <1>2, <1>3 DEF Told
<1>7. a \in Told(c, gg, hh) /\ z \in Told(c, gg, hh)
  BY <1>2, <1>4 DEF Told
<1>8. Fits(c, m, q, v, d, gg, hh, b)
  <2>1. Common(c, m.step, q, v, d, gg, hh)
    <3>1. Within(q, Legal(gg)) /\ Within(v, Told(c, gg, hh))
      BY <1>1, <1>5, <1>6 DEF Common, Within
    <3> QED BY <1>1, <1>2, <1>3, <3>1 DEF Common
  <2>2. ASSUME NEW r \in RequestSet, r \in Legal(g)
        PROVE  /\ r \in PicksOver(h) => r \in PicksOver(hh)
               /\ \A i : r \in PicksOf(i, h) => r \in PicksOf(i, hh)
    BY <1>3, <2>2, Sorts DEF Legal
  <2>3. /\ Within(q, PicksOver(h)) => Within(q, PicksOver(hh))
        /\ \A i : Within(q, PicksOf(i, h)) => Within(q, PicksOf(i, hh))
    <3>1. \A i \in DOMAIN q : q[i] \in RequestSet /\ q[i] \in Legal(g)
      BY <1>1 DEF Common, Within
    <3> QED BY <2>2, <3>1 DEF Within
  <2>4. Picking(m, q, v, gg, hh, b)
    <3>1. Picking(m, q, v, g, h, b)
      BY DEF Fits
    <3>2. CASE m.leaf = "pick"
      <4>1. m.item \in DOMAIN g /\ (m.item \in hh <=> m.item \in h) /\ gg[m.item] = g[m.item]
              /\ m.item \in DOMAIN gg
        BY <1>2, <1>3, <3>1, <3>2 DEF Picking
      <4> QED BY <2>3, <3>1, <3>2, <4>1 DEF Picking
    <3>3. CASE m.leaf # "pick"
      BY <2>3, <3>1, <3>3 DEF Picking
    <3> QED BY <3>2, <3>3
  <2> QED BY <2>1, <2>4 DEF Fits
<1>9. a \in Plain /\ z \in Plain
  BY Sorts DEF Plain
<1>10. v \o <<a>> \in Seq(EventSet)
  BY Added
<1>11. Fits(c, m, q, v \o <<a>>, d, gg, hh, b)
  BY <1>7, <1>8, <1>9, Published
<1>12. Fits(c, m, q, (v \o <<a>>) \o <<z>>, d, gg, hh, b)
  BY <1>7, <1>9, <1>10, <1>11, Published
<1> QED BY <1>12 DEF gg, hh, j

(* An item that someone else takes.                                        *)
LEMMA ItemGone ==
  ASSUME NEW c, NEW m, NEW q \in Seq(RequestSet), NEW v \in Seq(EventSet), NEW d, NEW g,
         NEW h, NEW b \in BOOLEAN, Fits(c, m, q, v, d, g, h, b), NEW a \in EventSet, NEW i \in h,
         NEW bb \in BOOLEAN, bb <=> (b \/ (m.leaf = "pick" /\ m.item = i)),
         a.kind = "despawned", a.item = i
  PROVE  Fits(c, m, q, v \o <<a>>, d, g, h \ {i}, bb)
<1> DEFINE hh == h \ {i}
<1>1. Common(c, m.step, q, v, d, g, h) /\ h \subseteq DOMAIN g
  BY DEF Fits, Common
<1>2. /\ hh \subseteq DOMAIN g /\ DOMAIN g \ h \subseteq DOMAIN g \ hh /\ i \in DOMAIN g \ hh
      /\ hh \subseteq h /\ \A j : j # i => (j \in hh <=> j \in h)
  BY <1>1
<1> HIDE DEF hh
<1>3. Told(c, g, h) \subseteq Told(c, g, hh) /\ a \in Told(c, g, hh)
  BY <1>2 DEF Told
<1>4. PicksOver(h) \subseteq PicksOver(hh) /\ \A j : PicksOf(j, h) \subseteq PicksOf(j, hh)
  BY <1>2 DEF PicksOver, PicksOf
<1>5. Fits(c, m, q, v, d, g, hh, bb)
  <2>1. Common(c, m.step, q, v, d, g, hh)
    BY <1>1, <1>2, <1>3, Subsets DEF Common
  <2>2. /\ Within(q, PicksOver(h)) => Within(q, PicksOver(hh))
        /\ \A j : Within(q, PicksOf(j, h)) => Within(q, PicksOf(j, hh))
    BY <1>4 DEF Within
  <2>3. Picking(m, q, v, g, hh, bb)
    <3>1. Picking(m, q, v, g, h, b)
      BY DEF Fits
    <3>2. CASE m.leaf = "pick"
      BY <1>2, <2>2, <3>1, <3>2 DEF Picking
    <3>3. CASE m.leaf # "pick"
      BY <2>2, <3>1, <3>3 DEF Picking
    <3> QED BY <3>2, <3>3
  <2> QED BY <2>1, <2>3 DEF Fits
<1>6. a \in Plain
  BY Sorts DEF Plain
<1>7. Fits(c, m, q, v \o <<a>>, d, g, hh, bb)
  BY <1>3, <1>5, <1>6, Published
<1> QED BY <1>7 DEF hh

(* Two events that are published together, in either order.                *)
Both(w, v, a, z) ==
  /\ w \in Seq(EventSet)
  /\ \A A : Holds(w, A) <=> (Holds(v, A) \/ a \in A \/ z \in A)
  /\ \A A : Within(w, A) <=> (Within(v, A) /\ a \in A /\ z \in A)
  /\ \A A : OnceIn(w, A) <=> /\ OnceIn(v, A) /\ ~(Holds(v, A) /\ (a \in A \/ z \in A))
                             /\ ~(a \in A /\ z \in A)
  /\ \A A, B : a \notin A /\ z \notin A /\ Followed(v, A, B) => Followed(w, A, B)

LEMMA AddedBoth ==
  ASSUME NEW v \in Seq(EventSet), NEW x \in EventSet, NEW y \in EventSet
  PROVE  /\ Both((v \o <<x>>) \o <<y>>, v, x, y)
         /\ Both((v \o <<x>>) \o <<y>>, v, y, x)
<1> DEFINE t == v \o <<x>>
           w == t \o <<y>>
<1>1. /\ t \in Seq(EventSet)
      /\ \A A : Holds(t, A) <=> (Holds(v, A) \/ x \in A)
      /\ \A A : Within(t, A) <=> (Within(v, A) /\ x \in A)
      /\ \A A : OnceIn(t, A) <=> (OnceIn(v, A) /\ ~(Holds(v, A) /\ x \in A))
      /\ \A A, B : Followed(t, A, B) <=> (x \notin A /\ (x \in B \/ Followed(v, A, B)))
  BY Added
<1> HIDE DEF t
<1>2. /\ w \in Seq(EventSet)
      /\ \A A : Holds(w, A) <=> (Holds(t, A) \/ y \in A)
      /\ \A A : Within(w, A) <=> (Within(t, A) /\ y \in A)
      /\ \A A : OnceIn(w, A) <=> (OnceIn(t, A) /\ ~(Holds(t, A) /\ y \in A))
      /\ \A A, B : Followed(w, A, B) <=> (y \notin A /\ (y \in B \/ Followed(t, A, B)))
  BY <1>1, Added
<1> HIDE DEF w
<1>3. ASSUME NEW A, NEW B
      PROVE  /\ Holds(w, A) <=> (Holds(v, A) \/ x \in A \/ y \in A)
             /\ Within(w, A) <=> (Within(v, A) /\ x \in A /\ y \in A)
             /\ OnceIn(w, A) <=> /\ OnceIn(v, A) /\ ~(Holds(v, A) /\ (x \in A \/ y \in A))
                                 /\ ~(x \in A /\ y \in A)
             /\ x \notin A /\ y \notin A /\ Followed(v, A, B) => Followed(w, A, B)
  <2>1. /\ Holds(w, A) <=> (Holds(t, A) \/ y \in A)
        /\ Within(w, A) <=> (Within(t, A) /\ y \in A)
        /\ OnceIn(w, A) <=> (OnceIn(t, A) /\ ~(Holds(t, A) /\ y \in A))
        /\ Followed(w, A, B) <=> (y \notin A /\ (y \in B \/ Followed(t, A, B)))
    BY <1>2
  <2>2. /\ Holds(t, A) <=> (Holds(v, A) \/ x \in A)
        /\ Within(t, A) <=> (Within(v, A) /\ x \in A)
        /\ OnceIn(t, A) <=> (OnceIn(v, A) /\ ~(Holds(v, A) /\ x \in A))
        /\ Followed(t, A, B) <=> (x \notin A /\ (x \in B \/ Followed(v, A, B)))
    BY <1>1
  <2> QED BY ONLY <2>1, <2>2
<1>4. Both(w, v, x, y)
  BY <1>2, <1>3 DEF Both
<1>5. Both(w, v, y, x)
  BY <1>2, <1>3 DEF Both
<1> QED BY <1>4, <1>5 DEF t, w

(* The item that the active leaf is after, and no other.                   *)
Taking(c, k) == [c EXCEPT !.spot = "item", !.bag = @ \cup {k}]

LEMMA ItemPicked ==
  ASSUME NEW c, NEW m, NEW q \in Seq(RequestSet), q # <<>>, NEW v \in Seq(EventSet), NEW d, NEW g,
         NEW h, NEW b \in BOOLEAN, Fits(c, m, q, v, d, g, h, b), NEW a \in EventSet, NEW z \in EventSet,
         NEW i \in h, Head(q).op = "pick", Head(q).item = i,
         NEW k, k = g[i], NEW hh, hh = h \ {i},
         a.kind = "despawned", a.item = i, z.kind = "arrived", z.what = k,
         NEW w, Both(w, v, a, z)
  PROVE  Fits(Taking(c, k), m, Tail(q), w, d, g, hh, b)
<1> DEFINE n == Taking(c, k)
           t == Tail(q)
           r == Head(q)
<1>1. /\ r \in RequestSet /\ t \in Seq(RequestSet)
      /\ \A A : Holds(q, A) <=> (r \in A \/ Holds(t, A))
      /\ \A A : Within(q, A) <=> (r \in A /\ Within(t, A))
      /\ \A A : OnceIn(q, A) <=> (OnceIn(t, A) /\ (r \in A => ~Holds(t, A)))
      /\ \A A, B : OnlyAfter(q, A, B) <=> (OnlyAfter(t, A, B) /\ (r \in A => Within(t, B)))
  BY Served
<1>2. Both(w, v, a, z)
  OBVIOUS
<1>3. \A x \in {a, z} :
        /\ x \notin Equipped /\ x \notin Changed /\ x \notin Answered
        /\ x \notin Ev("countdown") /\ x \notin Ev("began")
        /\ x \notin EvOf("useFailed", "doesNotExist")
  <2>1. \A x \in {a, z} : x \in EventSet /\ x.kind \in {"despawned", "arrived"}
    OBVIOUS
  <2> QED BY <2>1, Sorts
<1>4. Common(c, m.step, q, v, d, g, h) /\ c \in Character /\ Fits(c, m, t, v, d, g, h, b)
        /\ g \in Seq(Kinds) /\ h \subseteq DOMAIN g
  BY Dequeued DEF Fits, Common
<1>5. g[i] \in Kinds /\ i \in DOMAIN g
  BY <1>4
<1>6. /\ n \in Character /\ n.spot = "item" /\ n.bag = c.bag \cup {g[i]}
      /\ n.hat = c.hat /\ n.buffs = c.buffs /\ n.going = c.going /\ n.broken = c.broken
      /\ n.ailments = c.ailments /\ n.visible = c.visible /\ n.mode = c.mode
      /\ n.cooling = c.cooling
  BY <1>4, <1>5 DEF Taking, Character, Spots
<1>7. /\ hh \subseteq DOMAIN g /\ DOMAIN g \ h \subseteq DOMAIN g \ hh /\ i \in DOMAIN g \ hh
      /\ hh \subseteq h
  BY <1>4, <1>5
<1>8. a \notin Ev("arrived") /\ z \in Ev("arrived") /\ z \in EvOf("arrived", g[i])
        /\ a \in EvItem("despawned", i)
  BY Sorts
<1>9. m.leaf = "pick" /\ m.item = i
  <2>1. r \notin PicksOver(h) /\ \A j : r \in PicksOf(j, h) => j = i
    BY <1>1, Sorts
  <2> QED BY <1>1, <2>1 DEF Fits, Picking
<1> HIDE DEF n, t, r
<1>10. Common(n, m.step, t, w, d, g, hh)
  <2>1. Common(c, m.step, t, v, d, g, h)
    BY <1>4 DEF Fits
  <2>2. Told(c, g, h) \subseteq Told(n, g, hh) /\ a \in Told(n, g, hh) /\ z \in Told(n, g, hh)
    BY <1>6, <1>7 DEF Told
  <2>3. Within(w, Told(n, g, hh))
    <3>1. Within(v, Told(n, g, hh))
      BY <2>1, <2>2 DEF Common, Within
    <3> QED BY <1>2, <2>2, <3>1 DEF Both
  <2>4. Attained(n, m.step, d)
    BY <1>6, <2>1 DEF Common, Attained
  <2>5. Dressing(n, m.step, t, w)
    BY <1>2, <1>3, <1>6, <2>1 DEF Common, Dressing, Both
  <2>6. Shown(n, m.step, t, w, d)
    BY <1>2, <1>3, <1>6, <2>1 DEF Common, Shown, Both
  <2>7. Announced(n, w)
    BY <1>2, <1>3, <1>6, <2>1 DEF Common, Announced, Both
  <2> QED BY <1>2, <1>6, <1>7, <2>1, <2>3, <2>4, <2>5, <2>6, <2>7 DEF Common, Both
<1>11. Walking(n, m, t)
  BY <1>4, <1>6, <1>9 DEF Fits, Walking
<1>12. Picking(m, t, w, g, hh, b)
  <2>1. Picking(m, t, v, g, h, b)
    BY <1>4 DEF Fits
  <2>2. Within(t, PicksOf(i, hh))
    <3>1. PicksOf(i, h) \subseteq PicksOf(i, hh)
      BY <1>7 DEF PicksOf
    <3> QED BY <1>9, <2>1, <3>1, Subsets DEF Picking
  <2>3. m.what = g[i]
    BY <1>9, <2>1 DEF Picking
  <2> QED BY <1>2, <1>7, <1>8, <1>9, <2>1, <2>2, <2>3 DEF Picking, Both
<1>13. Using(n, m, t, w, d)
  BY <1>2, <1>3, <1>4, <1>9 DEF Fits, Using, InUse, Both
<1>14. Stocked(n, m, d)
  BY <1>4, <1>6 DEF Fits, Stocked
<1>15. Toggling(n, m, t, w, d)
  BY <1>2, <1>4, <1>6 DEF Fits, Toggling, Both
<1>16. Waiting(n, m, w)
  BY <1>9 DEF Waiting, WalkLeaves
<1>17. Fits(n, m, t, w, d, g, hh, b)
  BY <1>4, <1>10, <1>11, <1>12, <1>13, <1>14, <1>15, <1>16 DEF Fits
<1> QED BY <1>17 DEF n, t

(* While no use is asked for twice, a use that is answered is the one that  *)
(* the active leaf waits for.                                              *)
LEMMA UseAwaited ==
  ASSUME NEW c, NEW m, NEW q \in Seq(RequestSet), q # <<>>, NEW v \in Seq(EventSet), NEW d, NEW g,
         NEW h, NEW b, Fits(c, m, q, v, d, g, h, b), Head(q).op = "use", "use" \notin d
  PROVE  /\ m.leaf = "use" /\ m.timer
         /\ ~Holds(Tail(q), Op("use")) /\ ~Holds(v, Answered)
         /\ m.step = "repair" => Head(q).what = "hammer" /\ "hammer" \in c.bag
<1>1. Head(q) \in RequestSet /\ Head(q) \in Op("use") /\ Holds(q, Op("use"))
  BY Served, Sorts
<1>2. Using(c, m, q, v, d)
  BY DEF Fits
<1>3. m.leaf = "use" /\ m.timer /\ ~Holds(v, Answered) /\ OnceIn(q, Op("use"))
  BY <1>1, <1>2 DEF Using, InUse
<1>4. ~Holds(Tail(q), Op("use"))
  BY <1>1, <1>3, Served
<1>5. ASSUME m.step = "repair" PROVE Head(q).what = "hammer" /\ "hammer" \in c.bag
  <2>1. Within(q, Hammering) /\ ("hammer" \in c.bag \/ Holds(v, EvOf("used", "hammer")))
    BY <1>2, <1>3, <1>5 DEF Using
  <2>2. Head(q) \in Hammering
    BY <2>1, Served
  <2>3. ~Holds(v, EvOf("used", "hammer"))
    BY <1>3, Narrower
  <2> QED BY <1>1, <2>1, <2>2, <2>3, Sorts
<1> QED BY <1>3, <1>4, <1>5

LEMMA UseFails ==
  ASSUME NEW c, NEW m, NEW q \in Seq(RequestSet), q # <<>>, NEW v \in Seq(EventSet), NEW d, NEW g,
         NEW h, NEW b, Fits(c, m, q, v, d, g, h, b), Head(q).op = "use",
         NEW a \in EventSet, a.kind = "useFailed",
         a.what = "doesNotExist" => Head(q).what \notin c.bag
  PROVE  Fits(c, m, Tail(q), v \o <<a>>, d, g, h, b)
<1> DEFINE t == Tail(q)
           w == v \o <<a>>
           r == Head(q)
<1>1. /\ r \in RequestSet /\ t \in Seq(RequestSet)
      /\ \A A : Holds(q, A) <=> (r \in A \/ Holds(t, A))
      /\ \A A : Within(q, A) <=> (r \in A /\ Within(t, A))
      /\ \A A : OnceIn(q, A) <=> (OnceIn(t, A) /\ (r \in A => ~Holds(t, A)))
      /\ \A A, B : OnlyAfter(q, A, B) <=> (OnlyAfter(t, A, B) /\ (r \in A => Within(t, B)))
  BY Served
<1>2. /\ w \in Seq(EventSet)
      /\ \A A : Holds(w, A) <=> (Holds(v, A) \/ a \in A)
      /\ \A A : Within(w, A) <=> (Within(v, A) /\ a \in A)
      /\ \A A : OnceIn(w, A) <=> (OnceIn(v, A) /\ ~(Holds(v, A) /\ a \in A))
      /\ \A A, B : Followed(w, A, B) <=> (a \notin A /\ (a \in B \/ Followed(v, A, B)))
  BY Added
<1>3. /\ a \notin Equipped /\ a \notin Changed /\ a \notin Ev("countdown")
      /\ a \notin Ev("began") /\ a \notin Ev("arrived") /\ a \in Told(c, g, h)
      /\ a \in Answered /\ a \notin EvOf("used", "hammer")
      /\ a \in EvOf("useFailed", "doesNotExist") <=> a.what = "doesNotExist"
  BY Sorts DEF Told
<1>4. Common(c, m.step, t, v, d, g, h) /\ Fits(c, m, t, v, d, g, h, b)
  BY Dequeued DEF Fits
<1>5. "use" \notin d =>
        /\ m.leaf = "use" /\ m.timer /\ ~Holds(t, Op("use")) /\ ~Holds(v, Answered)
        /\ m.step = "repair" => r.what = "hammer" /\ "hammer" \in c.bag
  BY UseAwaited
<1> HIDE DEF t, w, r
<1>6. Common(c, m.step, t, w, d, g, h)
  <2>1. Dressing(c, m.step, t, w)
    BY <1>2, <1>3, <1>4 DEF Common, Dressing
  <2>2. Shown(c, m.step, t, w, d)
    BY <1>2, <1>3, <1>4 DEF Common, Shown
  <2>3. Announced(c, w)
    BY <1>2, <1>3, <1>4 DEF Common, Announced
  <2> QED BY <1>2, <1>3, <1>4, <2>1, <2>2, <2>3 DEF Common
<1>7. Picking(m, t, w, g, h, b)
  BY <1>2, <1>3, <1>4 DEF Fits, Picking
<1>8. Using(c, m, t, w, d)
  <2>1. Using(c, m, t, v, d) /\ Using(c, m, q, v, d)
    BY <1>4 DEF Fits
  <2>2. CASE "use" \in d
    BY <2>1, <2>2 DEF Using
  <2>3. CASE "use" \notin d
    <3>1. /\ OnceIn(t, Op("use")) /\ OnceIn(w, Answered)
          /\ ~(Holds(t, Op("use")) /\ Holds(w, Answered))
      BY <1>2, <1>5, <2>3, More
    <3>2. ASSUME m.step = "repair"
          PROVE  /\ "hammer" \in c.bag /\ Within(t, Hammering)
                 /\ ~Holds(w, EvOf("useFailed", "doesNotExist"))
      <4>1. "hammer" \in c.bag /\ a \notin EvOf("useFailed", "doesNotExist")
        BY <1>3, <1>5, <2>3, <3>2 DEF r
      <4> QED BY <1>2, <1>5, <2>1, <2>3, <3>2, <4>1 DEF Using
    <3> QED BY <1>5, <2>1, <2>3, <3>1, <3>2 DEF Using
  <2> QED BY <2>2, <2>3
<1>9. Toggling(c, m, t, w, d)
  BY <1>2, <1>4 DEF Fits, Toggling
<1>10. Waiting(c, m, w)
  BY <1>2, <1>4 DEF Fits, Waiting
<1>11. Fits(c, m, t, w, d, g, h, b)
  BY <1>4, <1>6, <1>7, <1>8, <1>9, <1>10 DEF Fits
<1> QED BY <1>11 DEF t, w

(* An item that is used, and helps or does not.                            *)
LEMMA ItemUsed ==
  ASSUME NEW c, NEW m, NEW q \in Seq(RequestSet), q # <<>>, NEW v \in Seq(EventSet), NEW d, NEW g,
         NEW h, NEW b, Fits(c, m, q, v, d, g, h, b), Head(q).op = "use",
         NEW k, k = Head(q).what, NEW a \in EventSet, a.kind = "used", a.what = k,
         NEW n \in Character, n.bag = c.bag \ {k}, n.cooling = c.cooling \cup {k},
         n.ailments \subseteq c.ailments, n.broken => c.broken /\ k # "hammer",
         n.hat = c.hat, n.buffs = c.buffs, n.spot = c.spot, n.going = c.going,
         n.visible = c.visible, n.mode = c.mode
  PROVE  Fits(n, m, Tail(q), v \o <<a>>, d, g, h, b)
<1> DEFINE t == Tail(q)
           w == v \o <<a>>
           r == Head(q)
<1>1. /\ r \in RequestSet /\ t \in Seq(RequestSet)
      /\ \A A : Holds(q, A) <=> (r \in A \/ Holds(t, A))
      /\ \A A : Within(q, A) <=> (r \in A /\ Within(t, A))
      /\ \A A : OnceIn(q, A) <=> (OnceIn(t, A) /\ (r \in A => ~Holds(t, A)))
      /\ \A A, B : OnlyAfter(q, A, B) <=> (OnlyAfter(t, A, B) /\ (r \in A => Within(t, B)))
  BY Served
<1>2. /\ w \in Seq(EventSet)
      /\ \A A : Holds(w, A) <=> (Holds(v, A) \/ a \in A)
      /\ \A A : Within(w, A) <=> (Within(v, A) /\ a \in A)
      /\ \A A : OnceIn(w, A) <=> (OnceIn(v, A) /\ ~(Holds(v, A) /\ a \in A))
      /\ \A A, B : Followed(w, A, B) <=> (a \notin A /\ (a \in B \/ Followed(v, A, B)))
  BY Added
<1>3. /\ a \notin Equipped /\ a \notin Changed /\ a \notin Ev("countdown")
      /\ a \notin Ev("began") /\ a \notin Ev("arrived")
      /\ a \in Answered /\ a \notin EvOf("useFailed", "doesNotExist")
      /\ k = "hammer" => a \in EvOf("used", "hammer")
  BY Sorts
<1>4. Common(c, m.step, q, v, d, g, h) /\ Common(c, m.step, t, v, d, g, h)
        /\ Fits(c, m, t, v, d, g, h, b)
  BY Dequeued DEF Fits
<1>5. "use" \notin d =>
        /\ m.leaf = "use" /\ m.timer /\ ~Holds(t, Op("use")) /\ ~Holds(v, Answered)
        /\ m.step = "repair" => r.what = "hammer" /\ "hammer" \in c.bag
  BY UseAwaited
<1>6. k \in Used /\ k \notin Potions
  <2>1. r \in Legal(g)
    BY <1>1, <1>4 DEF Common
  <2>2. k \in Used
    BY <2>1 DEF Legal
  <2> QED BY <2>2, PreparationAssumption
<1>7. r \notin Closing
  BY <1>1, Sorts
<1>8. Potions \subseteq c.bag => Potions \subseteq n.bag
  BY <1>6
<1>9. k = r.what
  OBVIOUS
<1> HIDE DEF t, w, r
<1>10. Common(n, m.step, t, w, d, g, h)
  <2>1. Told(c, g, h) \subseteq Told(n, g, h) /\ a \in Told(n, g, h)
    BY DEF Told
  <2>2. Within(w, Told(n, g, h))
    <3>1. Within(v, Told(n, g, h))
      BY <1>4, <2>1 DEF Common, Within
    <3> QED BY <1>2, <2>1, <3>1
  <2>3. Dressing(n, m.step, t, w)
    BY <1>2, <1>3, <1>4 DEF Common, Dressing
  <2>4. Shown(n, m.step, t, w, d)
    BY <1>2, <1>3, <1>4 DEF Common, Shown
  <2>5. Announced(n, w)
    BY <1>2, <1>3, <1>4 DEF Common, Announced
  <2>6. m.step \notin PastCooldowns
    <3>1. m.step \notin PastEquip
      BY <1>1, <1>4, <1>7 DEF Common, Dressing
    <3> QED BY <3>1 DEF PastEquip, PastAppear
  <2>7. Attained(n, m.step, d)
    BY <1>4, <1>8, <2>6 DEF Common, Attained
  <2> QED BY <1>2, <1>4, <2>2, <2>3, <2>4, <2>5, <2>7 DEF Common
<1>11. Walking(n, m, t)
  BY <1>4 DEF Fits, Walking, Still
<1>12. Picking(m, t, w, g, h, b)
  BY <1>2, <1>3, <1>4 DEF Fits, Picking
<1>13. Using(n, m, t, w, d)
  <2>1. Using(c, m, t, v, d)
    BY <1>4 DEF Fits
  <2>2. CASE "use" \in d
    BY <2>1, <2>2 DEF Using
  <2>3. CASE "use" \notin d
    <3>1. /\ OnceIn(t, Op("use")) /\ OnceIn(w, Answered)
          /\ ~(Holds(t, Op("use")) /\ Holds(w, Answered))
      BY <1>2, <1>5, <2>3, More
    <3>2. ASSUME m.step = "repair"
          PROVE  /\ Holds(w, EvOf("used", "hammer")) /\ Within(t, Hammering)
                 /\ ~Holds(w, EvOf("useFailed", "doesNotExist"))
      <4>1. a \in EvOf("used", "hammer")
        BY <1>3, <1>5, <1>9, <2>3, <3>2
      <4> QED BY <1>2, <1>3, <1>5, <2>1, <2>3, <3>2, <4>1 DEF Using
    <3> QED BY <1>5, <2>1, <2>3, <3>1, <3>2 DEF Using
  <2> QED BY <2>2, <2>3
<1>14. Stocked(n, m, d)
  <2>1. Stocked(c, m, d)
    BY DEF Fits
  <2>2. Potions \subseteq c.bag \cup Range(m.wants) => Potions \subseteq n.bag \cup Range(m.wants)
    BY <1>6
  <2> QED BY <1>5, <2>1, <2>2 DEF Stocked
<1>15. Toggling(n, m, t, w, d)
  BY <1>2, <1>4 DEF Fits, Toggling
<1>16. Waiting(n, m, w)
  <2>1. Waiting(c, m, v)
    BY DEF Fits
  <2>2. n.cooling # {}
    OBVIOUS
  <2> QED BY <1>2, <2>1, <2>2 DEF Waiting
<1>17. Fits(n, m, t, w, d, g, h, b)
  BY <1>4, <1>10, <1>11, <1>12, <1>13, <1>14, <1>15, <1>16 DEF Fits
<1> QED BY <1>17 DEF t, w

(* The invisibility is toggled, and said to be.                            *)
LEMMA Toggled ==
  ASSUME NEW c, NEW m, NEW q \in Seq(RequestSet), q # <<>>, NEW v \in Seq(EventSet), NEW d, NEW g,
         NEW h, NEW b, Fits(c, m, q, v, d, g, h, b), Head(q).op = "invisible",
         NEW a \in EventSet, a.kind = "operatorSuccess", a.what = "invisible",
         NEW z \in EventSet, z.kind = "bodyState", z.what = "none",
         NEW w, w = (v \o <<a>>) \o <<z>> \/ w = (v \o <<z>>) \o <<a>>
  PROVE  Fits([c EXCEPT !.visible = ~@], m, Tail(q), w, d, g, h, b)
<1> DEFINE n == [c EXCEPT !.visible = ~@]
           t == Tail(q)
           r == Head(q)
<1>1. /\ r \in RequestSet /\ t \in Seq(RequestSet)
      /\ \A A : Holds(q, A) <=> (r \in A \/ Holds(t, A))
      /\ \A A : Within(q, A) <=> (r \in A /\ Within(t, A))
      /\ \A A : OnceIn(q, A) <=> (OnceIn(t, A) /\ (r \in A => ~Holds(t, A)))
      /\ \A A, B : OnlyAfter(q, A, B) <=> (OnlyAfter(t, A, B) /\ (r \in A => Within(t, B)))
  BY Served
<1>2. Both(w, v, a, z)
  BY AddedBoth
<1>3. /\ a \notin Equipped /\ a \notin Answered /\ a \notin Ev("countdown")
      /\ a \notin Ev("began") /\ a \notin Ev("arrived") /\ a \in Told(c, g, h)
      /\ a \notin EvOf("useFailed", "doesNotExist")
  BY Sorts DEF Told
<1>4. /\ z \notin Equipped /\ z \notin Answered /\ z \notin Ev("countdown")
      /\ z \notin Ev("began") /\ z \notin Ev("arrived") /\ z \in Told(c, g, h)
      /\ z \notin EvOf("useFailed", "doesNotExist") /\ z \in EvOf("bodyState", "none")
  BY Sorts DEF Told
<1>5. Common(c, m.step, q, v, d, g, h) /\ Common(c, m.step, t, v, d, g, h) /\ c \in Character
        /\ Fits(c, m, t, v, d, g, h, b) /\ <<m.step, m.leaf>> \in LeafOf
  BY Dequeued DEF Fits, Common
<1>6. /\ n \in Character /\ n.visible = ~c.visible
      /\ n.hat = c.hat /\ n.buffs = c.buffs /\ n.spot = c.spot /\ n.going = c.going
      /\ n.bag = c.bag /\ n.broken = c.broken /\ n.ailments = c.ailments /\ n.mode = c.mode
      /\ n.cooling = c.cooling
  BY <1>5 DEF Character
<1>7. "toggle" \notin d =>
        m.leaf = "toggle" /\ m.step = "appear" /\ ~c.visible /\ ~Holds(t, Op("invisible"))
  <2>1. r \in Op("invisible") /\ Holds(q, Op("invisible"))
    BY <1>1, Sorts
  <2>2. ASSUME "toggle" \notin d PROVE m.leaf = "toggle" /\ ~c.visible /\ OnceIn(q, Op("invisible"))
    BY <1>5, <2>1, <2>2 DEF Fits, Toggling, Common, Shown
  <2>3. m.leaf = "toggle" => m.step = "appear"
    BY <1>5 DEF LeafOf
  <2> QED BY <1>1, <2>1, <2>2, <2>3
<1> HIDE DEF n, t, r
<1>8. Common(n, m.step, t, w, d, g, h)
  <2>1. Told(n, g, h) = Told(c, g, h)
    BY <1>6 DEF Told
  <2>2. Dressing(n, m.step, t, w)
    BY <1>2, <1>3, <1>4, <1>5, <1>6 DEF Common, Dressing, Both
  <2>3. Shown(n, m.step, t, w, d)
    <3>1. "toggle" \notin d => OnceIn(t, Op("invisible")) /\ n.visible
      BY <1>6, <1>7, More
    <3> QED BY <1>7, <3>1 DEF Shown, PastPvp, PastEquip
  <2>4. Announced(n, w)
    BY <1>2, <1>3, <1>4, <1>5, <1>6 DEF Common, Announced, Both
  <2>5. Attained(n, m.step, d)
    BY <1>5, <1>6, <1>7 DEF Common, Attained
  <2> QED BY <1>2, <1>3, <1>4, <1>5, <1>6, <2>1, <2>2, <2>3, <2>4, <2>5 DEF Common, Both
<1>9. Walking(n, m, t)
  BY <1>5, <1>6 DEF Fits, Walking, Still
<1>10. Picking(m, t, w, g, h, b)
  BY <1>2, <1>3, <1>4, <1>5 DEF Fits, Picking, Both
<1>11. Using(n, m, t, w, d)
  BY <1>2, <1>3, <1>4, <1>5, <1>6 DEF Fits, Using, InUse, Both
<1>12. Stocked(n, m, d)
  BY <1>5, <1>6 DEF Fits, Stocked
<1>13. Toggling(n, m, t, w, d)
  BY <1>2, <1>4, <1>6, <1>7 DEF Toggling, Both
<1>14. Waiting(n, m, w)
  BY <1>2, <1>5, <1>6 DEF Fits, Waiting, Both
<1>15. Fits(n, m, t, w, d, g, h, b)
  BY <1>5, <1>8, <1>9, <1>10, <1>11, <1>12, <1>13, <1>14 DEF Fits
<1> QED BY <1>15 DEF n, t

-----------------------------------------------------------------------------
(* The steps of the server, and the others that handle no event.           *)

LEMMA EventIs ==
  \A k \in EventKinds, x \in Names, i \in Nat :
    /\ Event(k, x, i) \in EventSet
    /\ Event(k, x, i).kind = k /\ Event(k, x, i).what = x /\ Event(k, x, i).item = i
  BY DEF Event, EventSet

LEMMA Words ==
  "none" \in Names /\ "make" \in Names /\ "invisible" \in Names
  BY DEF Names

LEMMA NoTimeout ==
  ASSUME NEW v \in Seq(EventSet), ~Holds(v, Timeouts)
  PROVE  /\ \A a \in EventSet :
              a.kind \notin {"timeout", "potionTimeout"} =>
                v \o <<a>> \in Seq(EventSet) /\ ~Holds(v \o <<a>>, Timeouts)
         /\ \A a, z \in EventSet :
              a.kind \notin {"timeout", "potionTimeout"} /\ z.kind \notin {"timeout", "potionTimeout"} =>
                /\ v \o <<a, z>> = (v \o <<a>>) \o <<z>>
                /\ v \o <<a, z>> \in Seq(EventSet) /\ ~Holds(v \o <<a, z>>, Timeouts)
<1>1. \A a \in EventSet : a.kind \notin {"timeout", "potionTimeout"} => a \notin Timeouts
  BY Sorts DEF Timeouts
<1>2. ASSUME NEW a \in EventSet, a \notin Timeouts
      PROVE  v \o <<a>> \in Seq(EventSet) /\ ~Holds(v \o <<a>>, Timeouts)
  BY <1>2, Added
<1>3. ASSUME NEW a \in EventSet, NEW z \in EventSet, a \notin Timeouts, z \notin Timeouts
      PROVE  /\ v \o <<a, z>> = (v \o <<a>>) \o <<z>>
             /\ v \o <<a, z>> \in Seq(EventSet) /\ ~Holds(v \o <<a, z>>, Timeouts)
  <2>1. v \o <<a, z>> = (v \o <<a>>) \o <<z>>
    <3>1. /\ v \o <<a, z>> \in Seq(EventSet) /\ Len(v \o <<a, z>>) = Len(v) + 2
          /\ (v \o <<a>>) \o <<z>> \in Seq(EventSet) /\ Len((v \o <<a>>) \o <<z>>) = Len(v) + 2
      OBVIOUS
    <3>2. ASSUME NEW i \in 1..(Len(v) + 2)
          PROVE  (v \o <<a, z>>)[i] = ((v \o <<a>>) \o <<z>>)[i]
      OBVIOUS
    <3> QED BY <3>1, <3>2, SeqEqual
  <2>2. v \o <<a>> \in Seq(EventSet) /\ ~Holds(v \o <<a>>, Timeouts)
    BY <1>2, <1>3
  <2> DEFINE u == v \o <<a>>
  <2> HIDE DEF u
  <2>3. u \o <<z>> \in Seq(EventSet) /\ (Holds(u \o <<z>>, Timeouts) <=> Holds(u, Timeouts) \/ z \in Timeouts)
    BY <2>2, Added DEF u
  <2> QED BY <1>3, <2>1, <2>2, <2>3 DEF u
<1> QED BY <1>1, <1>2, <1>3

LEMMA Kept ==
  ASSUME PreparationInv, UNCHANGED <<machine, doubled>>, NEW c, NEW q, NEW v, NEW g, NEW h,
         NEW b \in BOOLEAN, me' = c, requests' = q, events' = v, made' = g, ground' = h, robbed' = b,
         Fits(c, machine, q, v, doubled, g, h, b), ~Holds(v, Timeouts)
  PROVE  PreparationInv'
<1>1. PICK m, d : m = machine /\ d = doubled
  OBVIOUS
<1>2. Fits(c, m, q, v, d, g, h, b) /\ (m.leaf = "rest" => m.potion) /\ d \subseteq Leaves
  BY <1>1 DEF PreparationInv
<1>3. machine' = m /\ doubled' = d
  BY <1>1
<1>4. Fits(me', machine', requests', events', doubled', made', ground', robbed')
  BY <1>2, <1>3
<1>5. machine'.leaf = "rest" => machine'.potion
  BY <1>2, <1>3
<1>6. ~Holds(events', Timeouts) /\ robbed' \in BOOLEAN /\ doubled' \subseteq Leaves
  BY <1>2, <1>3
<1> QED BY <1>4, <1>5, <1>6 DEF PreparationInv

LEMMA MoveKeeps ==
  ASSUME PreparationInv, requests # <<>>, requests' = Tail(requests), UNCHANGED machine,
         MoveAnswered(Head(requests))
  PROVE  PreparationInv'
<1>1. PICK c, m, q, v, d, g, h, b :
        c = me /\ m = machine /\ q = requests /\ v = events /\ d = doubled /\ g = made /\ h = ground
        /\ b = robbed
  OBVIOUS
<1>2. Fits(c, m, q, v, d, g, h, b) /\ v \in Seq(EventSet) /\ q \in Seq(RequestSet) /\ q # <<>>
        /\ ~Holds(v, Timeouts) /\ b \in BOOLEAN
  BY <1>1, EventsAre
<1>3. PICK r, t : r = Head(q) /\ t = Tail(q)
  OBVIOUS
<1>4. r \in RequestSet /\ r.op \in MoveLeaves /\ requests' = t /\ made' = g /\ ground' = h /\ robbed' = b
  BY <1>1, <1>2, <1>3, Served DEF MoveAnswered
<1>5. r.op \in Names /\ "none" \in Names
  BY <1>4, Texts
<1>6. CASE c.hat = r.what
  <2>1. PICK x, a :
          /\ x = CASE r.op = "unequip" -> "first" [] r.op = "shift" -> "last" [] r.op = "equip" -> "avatar"
          /\ a = Event("moved", r.op, 0)
    OBVIOUS
  <2>2. x \in Slots /\ (x = "avatar" <=> r.op = "equip")
    BY <1>4, <2>1 DEF Slots, MoveLeaves
  <2>3. a \in EventSet /\ a.kind = "moved" /\ a.what = r.op
    BY <1>5, <2>1, EventIs DEF EventKinds
  <2> PICK n : n = [c EXCEPT !.hat = x]
    OBVIOUS
  <2>4. me' = n /\ events' = v \o <<a>>
    BY <1>1, <1>3, <1>6, <2>1 DEF MoveAnswered, PublishAll
  <2>5. Fits(n, m, t, v \o <<a>>, d, g, h, b)
    BY <1>2, <1>3, <1>4, <2>2, <2>3, HatMoves
  <2>6. ~Holds(v \o <<a>>, Timeouts)
    BY <1>2, <2>3, NoTimeout
  <2>7. UNCHANGED <<machine, doubled>> /\ requests' = t /\ made' = g /\ ground' = h /\ robbed' = b
    BY <1>1, <1>4 DEF MoveAnswered
  <2>8. Fits(n, machine, t, v \o <<a>>, doubled, g, h, b)
    BY <1>1, <2>5
  <2> QED BY <1>2, <2>4, <2>6, <2>7, <2>8, Kept
<1>7. CASE c.hat # r.what
  <2>1. PICK a : a = Event("moveFailed", "none", 0)
    OBVIOUS
  <2>2. a \in EventSet /\ a.kind = "moveFailed"
    BY <1>5, <2>1, EventIs DEF EventKinds
  <2>3. me' = c /\ events' = v \o <<a>>
    BY <1>1, <1>3, <1>7, <2>1 DEF MoveAnswered, PublishAll
  <2>4. a \in Plain /\ a \in Told(c, g, h)
    BY <2>2, Sorts DEF Plain, Told
  <2>5. Fits(c, m, t, v, d, g, h, b)
    BY <1>2, <1>3, Dequeued
  <2>6. Fits(c, m, t, v \o <<a>>, d, g, h, b)
    BY <1>2, <2>4, <2>5, Published
  <2>7. ~Holds(v \o <<a>>, Timeouts)
    BY <1>2, <2>2, NoTimeout
  <2> QED BY <1>1, <1>2, <1>4, <2>3, <2>6, <2>7, Kept DEF MoveAnswered
<1> QED BY <1>6, <1>7

LEMMA DispelKeeps ==
  ASSUME PreparationInv, requests # <<>>, requests' = Tail(requests), UNCHANGED machine,
         DispelAnswered(Head(requests))
  PROVE  PreparationInv'
<1>1. PICK c, m, q, v, d, g, h, b :
        c = me /\ m = machine /\ q = requests /\ v = events /\ d = doubled /\ g = made /\ h = ground
        /\ b = robbed
  OBVIOUS
<1>2. Fits(c, m, q, v, d, g, h, b) /\ v \in Seq(EventSet) /\ q \in Seq(RequestSet)
        /\ ~Holds(v, Timeouts) /\ b \in BOOLEAN
  BY <1>1, EventsAre
<1>3. PICK r, t : r = Head(q) /\ t = Tail(q)
  OBVIOUS
<1>4. /\ r \in RequestSet /\ r.op = "dispel" /\ q # <<>>
      /\ DispelAnswered(r) /\ requests' = t /\ UNCHANGED <<machine, doubled>>
  BY <1>1, <1>2, <1>3, Served DEF DispelAnswered
<1>5. made' = g /\ ground' = h /\ robbed' = b
  BY <1>1, <1>4 DEF DispelAnswered
<1>6. PICK x, n : x = r.what /\ n = [c EXCEPT !.buffs = @ \ {x}]
  OBVIOUS
<1>7. me' = n
  BY <1>1, <1>4, <1>6 DEF DispelAnswered
<1>8. Fits(c, m, t, v, d, g, h, b)
  BY <1>2, <1>3, <1>4, Dequeued
<1>9. CASE x \in c.buffs
  <2>1. PICK a : a = Event("buffRemoved", x, 0)
    OBVIOUS
  <2>2. a \in EventSet /\ a.kind = "buffRemoved" /\ a.what = x
    BY <1>4, <1>6, <2>1, EventIs DEF EventKinds, RequestSet
  <2>3. events' = v \o <<a>>
    BY <1>1, <1>4, <1>6, <1>9, <2>1 DEF DispelAnswered, PublishAll
  <2>4. a \in Plain /\ a \in Told(c, g, h) /\ a \in EvOf("buffRemoved", x)
    BY <2>2, Sorts DEF Plain, Told
  <2>5. PICK w : w = v \o <<a>>
    OBVIOUS
  <2>6. Fits(c, m, t, w, d, g, h, b) /\ Holds(w, EvOf("buffRemoved", x)) /\ ~Holds(w, Timeouts)
    BY <1>2, <1>8, <2>2, <2>4, <2>5, Published, Added, NoTimeout
  <2>7. Fits(n, m, t, w, d, g, h, b)
    BY <1>6, <2>6, FewerBuffs
  <2>8. Fits(n, machine, t, w, doubled, g, h, b)
    BY <1>1, <2>7
  <2> QED BY <1>2, <1>4, <1>5, <1>7, <2>3, <2>5, <2>6, <2>8, Kept
<1>10. CASE x \notin c.buffs
  <2>1. events' = v
    BY <1>1, <1>2, <1>4, <1>6, <1>10 DEF DispelAnswered, PublishAll
  <2>2. Fits(n, m, t, v, d, g, h, b)
    BY <1>6, <1>8, <1>10, FewerBuffs
  <2>3. Fits(n, machine, t, v, doubled, g, h, b)
    BY <1>1, <2>2
  <2> QED BY <1>2, <1>4, <1>5, <1>7, <2>1, <2>3, Kept
<1> QED BY <1>9, <1>10

LEMMA WalkKeeps ==
  ASSUME PreparationInv, requests # <<>>, requests' = Tail(requests), UNCHANGED machine,
         WalkAnswered(Head(requests))
  PROVE  PreparationInv'
<1>1. PICK c, m, q, v, d, g, h, b :
        c = me /\ m = machine /\ q = requests /\ v = events /\ d = doubled /\ g = made /\ h = ground
        /\ b = robbed
  OBVIOUS
<1>2. Fits(c, m, q, v, d, g, h, b) /\ v \in Seq(EventSet) /\ q \in Seq(RequestSet)
        /\ ~Holds(v, Timeouts) /\ b \in BOOLEAN
  BY <1>1, EventsAre
<1>3. PICK r, t : r = Head(q) /\ t = Tail(q)
  OBVIOUS
<1>4. /\ r \in RequestSet /\ r.op = "walk" /\ q # <<>>
      /\ WalkAnswered(r) /\ requests' = t /\ UNCHANGED <<machine, doubled>>
  BY <1>1, <1>2, <1>3, Served DEF WalkAnswered
<1>5. made' = g /\ ground' = h /\ robbed' = b
  BY <1>1, <1>4 DEF WalkAnswered
<1>6. PICK a, z : a = Event("began", "none", 0) /\ z = Event("ended", "none", 0)
  OBVIOUS
<1>7. a \in EventSet /\ a.kind = "began" /\ z \in EventSet /\ z.kind = "ended" /\ z.what = "none"
  <2>1. a \in EventSet /\ a.kind = "began"
    BY <1>6, Words, EventIs DEF EventKinds
  <2>2. z \in EventSet /\ z.kind = "ended" /\ z.what = "none"
    BY <1>6, Words, EventIs DEF EventKinds
  <2> QED BY <2>1, <2>2
<1>8. CASE c.spot = r.what
  <2>1. PICK n, w : n = [c EXCEPT !.going = "nowhere"] /\ w = v \o <<a, z>>
    OBVIOUS
  <2>2. me' = n
    BY <1>1, <1>4, <1>8, <2>1 DEF WalkAnswered
  <2>3. events' = v \o (<<a>> \o <<z>>)
    BY <1>1, <1>4, <1>6, <1>8 DEF WalkAnswered, PublishAll
  <2>4. v \o (<<a>> \o <<z>>) = (v \o <<a>>) \o <<z>>
    <3>1. <<a>> \in Seq(EventSet) /\ <<z>> \in Seq(EventSet)
      BY <1>7
    <3> QED BY <1>2, <3>1, ConcatAssociative
  <2>5. w = (v \o <<a>>) \o <<z>> /\ ~Holds(w, Timeouts)
    BY <1>2, <1>7, <2>1, NoTimeout
  <2>6. Fits(c, m, t, v, d, g, h, b)
    BY <1>2, <1>3, <1>4, Dequeued
  <2>7. Fits(n, m, t, w, d, g, h, b)
    BY <1>2, <1>7, <2>1, <2>5, <2>6, WalkThere
  <2>8. Fits(n, machine, t, w, doubled, g, h, b)
    BY <1>1, <2>7
  <2> QED BY <1>2, <1>4, <1>5, <2>2, <2>3, <2>4, <2>5, <2>8, Kept
<1>9. CASE c.spot # r.what
  <2>1. PICK n, w : n = [c EXCEPT !.going = r.what] /\ w = v \o <<a>>
    OBVIOUS
  <2>2. me' = n
    BY <1>1, <1>4, <1>9, <2>1 DEF WalkAnswered
  <2>3. events' = v \o (<<a>> \o <<>>)
    BY <1>1, <1>4, <1>6, <1>9 DEF WalkAnswered, PublishAll
  <2>4. <<a>> \o <<>> = <<a>>
    BY <1>7
  <2>5. ~Holds(w, Timeouts)
    BY <1>2, <1>7, <2>1, NoTimeout
  <2>6. Fits(n, m, t, w, d, g, h, b)
    BY <1>2, <1>3, <1>4, <1>7, <1>9, <2>1, WalkBegins
  <2>7. Fits(n, machine, t, w, doubled, g, h, b)
    BY <1>1, <2>6
  <2> QED BY <1>2, <1>4, <1>5, <2>1, <2>2, <2>3, <2>4, <2>5, <2>7, Kept
<1> QED BY <1>8, <1>9

LEMMA MakeKeeps ==
  ASSUME PreparationInv, requests # <<>>, requests' = Tail(requests), UNCHANGED machine,
         MakeAnswered(Head(requests))
  PROVE  PreparationInv'
<1>1. PICK c, m, q, v, d, g, h, b :
        c = me /\ m = machine /\ q = requests /\ v = events /\ d = doubled /\ g = made /\ h = ground
        /\ b = robbed
  OBVIOUS
<1>2. Fits(c, m, q, v, d, g, h, b) /\ v \in Seq(EventSet) /\ q \in Seq(RequestSet)
        /\ ~Holds(v, Timeouts) /\ b \in BOOLEAN
  BY <1>1, EventsAre
<1>3. PICK r, t : r = Head(q) /\ t = Tail(q)
  OBVIOUS
<1>4. /\ r \in RequestSet /\ r.op = "make" /\ q # <<>>
      /\ MakeAnswered(r) /\ requests' = t /\ UNCHANGED <<machine, doubled>>
  BY <1>1, <1>2, <1>3, Served DEF MakeAnswered
<1>5. me' = c /\ robbed' = b
  BY <1>1, <1>4 DEF MakeAnswered
<1>6. PICK k, j, a, z : k = r.what /\ j = Len(g) + 1 /\ a = Event("operatorSuccess", "make", 0)
                        /\ z = Event("spawned", "none", Len(g) + 1)
  OBVIOUS
<1>7. g \in Seq(Kinds) /\ k \in Kinds /\ j \in Nat
  <2>1. Common(c, m.step, q, v, d, g, h)
    BY <1>2 DEF Fits
  <2>2. g \in Seq(Kinds) /\ Within(q, Legal(g))
    BY <2>1 DEF Common
  <2>3. r \in Legal(g)
    BY <1>2, <1>3, <1>4, <2>2, Served
  <2> QED BY <1>4, <1>6, <2>2, <2>3 DEF Legal
<1>8. /\ a \in EventSet /\ a.kind = "operatorSuccess" /\ a.what = "make"
      /\ z \in EventSet /\ z.kind = "spawned" /\ z.item = j
  <2>1. a \in EventSet /\ a.kind = "operatorSuccess" /\ a.what = "make"
    BY <1>6, Words, EventIs DEF EventKinds
  <2>2. z = Event("spawned", "none", j)
    BY <1>6
  <2>3. z \in EventSet /\ z.kind = "spawned" /\ z.item = j
    BY <1>7, <2>2, Words, EventIs DEF EventKinds
  <2> QED BY <2>1, <2>3
<1>9. PICK w, gg, hh : w = v \o <<a, z>> /\ gg = Append(g, k) /\ hh = h \cup {Len(g) + 1}
  OBVIOUS
<1>10. events' = w /\ made' = gg /\ ground' = hh
  BY <1>1, <1>4, <1>6, <1>9 DEF MakeAnswered, PublishAll
<1>11. w = (v \o <<a>>) \o <<z>> /\ ~Holds(w, Timeouts)
  BY <1>2, <1>8, <1>9, NoTimeout
<1>12. Fits(c, m, t, v, d, g, h, b) /\ t \in Seq(RequestSet)
  BY <1>2, <1>3, <1>4, Dequeued, Served
<1>13. Fits(c, m, t, w, d, gg, hh, b)
  <2>1. z.item = Len(g) + 1
    BY <1>6, <1>8
  <2>2. Fits(c, m, t, (v \o <<a>>) \o <<z>>, d, Append(g, k), h \cup {Len(g) + 1}, b)
    BY <1>2, <1>7, <1>8, <1>12, <2>1, ItemAppears
  <2> QED BY <1>9, <1>11, <2>2
<1>14. Fits(c, machine, t, w, doubled, gg, hh, b)
  BY <1>1, <1>13
<1> QED BY <1>2, <1>4, <1>5, <1>10, <1>11, <1>14, Kept

LEMMA PickKeeps ==
  ASSUME PreparationInv, requests # <<>>, requests' = Tail(requests), UNCHANGED machine,
         PickAnswered(Head(requests))
  PROVE  PreparationInv'
<1>1. PICK c, m, q, v, d, g, h, b :
        c = me /\ m = machine /\ q = requests /\ v = events /\ d = doubled /\ g = made /\ h = ground
        /\ b = robbed
  OBVIOUS
<1>2. Fits(c, m, q, v, d, g, h, b) /\ v \in Seq(EventSet) /\ q \in Seq(RequestSet)
        /\ ~Holds(v, Timeouts) /\ b \in BOOLEAN
  BY <1>1, EventsAre
<1>3. PICK r, t : r = Head(q) /\ t = Tail(q)
  OBVIOUS
<1>4. /\ r \in RequestSet /\ r.op = "pick" /\ q # <<>>
      /\ PickAnswered(r) /\ requests' = t /\ UNCHANGED <<machine, doubled>>
  BY <1>1, <1>2, <1>3, Served DEF PickAnswered
<1>5. made' = g /\ robbed' = b /\ r.item \in Nat
  BY <1>1, <1>4 DEF PickAnswered, RequestSet
<1>6. PICK i : i = r.item
  OBVIOUS
<1>7. CASE i \in h
  <2>1. g \in Seq(Kinds) /\ h \subseteq DOMAIN g
    BY <1>2 DEF Fits, Common
  <2>2. g[i] \in Kinds /\ g[i] \in Names /\ i \in Nat
    BY <1>5, <1>6, <1>7, <2>1, Texts
  <2>3. PICK a, z : a = Event("despawned", "none", i) /\ z = Event("arrived", g[i], 0)
    OBVIOUS
  <2>4. /\ a \in EventSet /\ a.kind = "despawned" /\ a.item = i
        /\ z \in EventSet /\ z.kind = "arrived" /\ z.what = g[i]
    <3>1. a \in EventSet /\ a.kind = "despawned" /\ a.item = i
      BY <2>2, <2>3, Words, EventIs DEF EventKinds
    <3>2. z \in EventSet /\ z.kind = "arrived" /\ z.what = g[i]
      BY <2>2, <2>3, EventIs DEF EventKinds
    <3> QED BY <3>1, <3>2
  <2>5. PICK n, k, hh : n = Taking(c, k) /\ k = g[i] /\ hh = h \ {i}
    OBVIOUS
  <2>6. me' = n /\ ground' = hh
    BY <1>1, <1>4, <1>6, <1>7, <2>5 DEF PickAnswered, Taking
  <2>7. PICK w : w = events'
    OBVIOUS
  <2>8. w = v \o <<a, z>> \/ w = v \o <<z, a>>
    BY <1>1, <1>4, <1>6, <1>7, <2>3, <2>7 DEF PickAnswered, PublishAll
  <2>9. (w = (v \o <<a>>) \o <<z>> \/ w = (v \o <<z>>) \o <<a>>) /\ ~Holds(w, Timeouts)
    BY <1>2, <2>4, <2>8, NoTimeout
  <2>10. Fits(n, m, t, w, d, g, hh, b)
    <3>1. Head(q).op = "pick" /\ Head(q).item = i
      BY <1>3, <1>4, <1>6
    <3>2. Fits(n, m, Tail(q), w, d, g, h \ {i}, b)
      <4>1. Fits(c, m, q, v, d, g, h, b) /\ v \in Seq(EventSet) /\ q \in Seq(RequestSet) /\ q # <<>>
              /\ b \in BOOLEAN
        BY <1>2, <1>4
      <4>2. Both(w, v, a, z)
        BY <1>2, <2>4, <2>9, AddedBoth
      <4>3. k = g[i] /\ hh = h \ {i} /\ z.what = k
        BY <2>4, <2>5
      <4>4. Fits(Taking(c, k), m, Tail(q), w, d, g, hh, b)
        BY ONLY <1>7, <2>4, <3>1, <4>1, <4>2, <4>3, ItemPicked
      <4> QED BY <2>5, <4>4
    <3> QED BY <1>3, <2>5, <3>2
  <2>11. Fits(n, machine, t, w, doubled, g, hh, b)
    BY <1>1, <2>10
  <2> QED BY <1>2, <1>4, <1>5, <2>6, <2>7, <2>9, <2>11, Kept
<1>8. CASE i \notin h
  <2>1. PICK a, w : a = Event("commandError", "none", i) /\ w = v \o <<a>>
    OBVIOUS
  <2>2. a \in EventSet /\ a.kind = "commandError"
    BY <1>5, <1>6, <2>1, Words, EventIs DEF EventKinds
  <2>3. me' = c /\ ground' = h /\ events' = w
    BY <1>1, <1>4, <1>6, <1>8, <2>1 DEF PickAnswered, PublishAll
  <2>4. a \in Plain /\ a \in Told(c, g, h)
    BY <2>2, Sorts DEF Plain, Told
  <2>5. Fits(c, m, t, v, d, g, h, b)
    BY <1>2, <1>3, <1>4, Dequeued
  <2>6. Fits(c, m, t, w, d, g, h, b) /\ ~Holds(w, Timeouts)
    BY <1>2, <2>1, <2>2, <2>4, <2>5, Published, NoTimeout
  <2>7. Fits(c, machine, t, w, doubled, g, h, b)
    BY <1>1, <2>6
  <2> QED BY <1>2, <1>4, <1>5, <2>3, <2>6, <2>7, Kept
<1> QED BY <1>7, <1>8

LEMMA UseKeeps ==
  ASSUME PreparationInv, requests # <<>>, requests' = Tail(requests), UNCHANGED machine,
         UseAnswered(Head(requests))
  PROVE  PreparationInv'
<1>1. PICK c, m, q, v, d, g, h, b :
        c = me /\ m = machine /\ q = requests /\ v = events /\ d = doubled /\ g = made /\ h = ground
        /\ b = robbed
  OBVIOUS
<1>2. Fits(c, m, q, v, d, g, h, b) /\ v \in Seq(EventSet) /\ q \in Seq(RequestSet)
        /\ ~Holds(v, Timeouts) /\ b \in BOOLEAN
  BY <1>1, EventsAre
<1>3. PICK r, t : r = Head(q) /\ t = Tail(q)
  OBVIOUS
<1>4. /\ r \in RequestSet /\ r.op = "use" /\ q # <<>>
      /\ UseAnswered(r) /\ requests' = t /\ UNCHANGED <<machine, doubled>>
  BY <1>1, <1>2, <1>3, Served DEF UseAnswered
<1>5. made' = g /\ ground' = h /\ robbed' = b
  BY <1>1, <1>4 DEF UseAnswered
<1>6. PICK k : k = r.what
  OBVIOUS
<1>7. k \in Used /\ k \in Kinds /\ k \in Names /\ c \in Character
  <2>1. Common(c, m.step, q, v, d, g, h)
    BY <1>2 DEF Fits
  <2>2. c \in Character /\ Within(q, Legal(g))
    BY <2>1 DEF Common
  <2>3. r \in Legal(g)
    BY <1>2, <1>3, <1>4, <2>2, Served
  <2>4. k \in Used
    BY <1>4, <1>6, <2>3 DEF Legal
  <2> QED BY <2>2, <2>4, Texts
<1>8. CASE k \notin c.bag \/ k \in c.cooling
  <2>1. PICK f, a : /\ f = IF k \notin c.bag THEN "doesNotExist" ELSE "waitForReuseDelay"
                    /\ a = Event("useFailed", f, 0)
    OBVIOUS
  <2>2. f \in Names /\ (f = "doesNotExist" => k \notin c.bag)
    BY <2>1, Texts
  <2>3. a \in EventSet /\ a.kind = "useFailed" /\ a.what = f
    BY <2>1, <2>2, EventIs DEF EventKinds
  <2>4. PICK w : w = v \o <<a>>
    OBVIOUS
  <2>5. me' = c /\ events' = w
    BY <1>1, <1>4, <1>6, <1>8, <2>1, <2>4 DEF UseAnswered, PublishAll
  <2>6. Fits(c, m, t, w, d, g, h, b) /\ ~Holds(w, Timeouts)
    BY <1>2, <1>3, <1>4, <1>6, <2>2, <2>3, <2>4, UseFails, NoTimeout
  <2>7. Fits(c, machine, t, w, doubled, g, h, b)
    BY <1>1, <2>6
  <2> QED BY <1>2, <1>4, <1>5, <2>5, <2>6, <2>7, Kept
<1>9. CASE k \in c.bag /\ k \notin c.cooling
  <2>1. PICK a, w, n : a = Event("used", k, 0) /\ w = v \o <<a>> /\ n = me'
    OBVIOUS
  <2>2. a \in EventSet /\ a.kind = "used" /\ a.what = k
    BY <1>7, <2>1, EventIs DEF EventKinds
  <2>3. events' = w
    BY <1>1, <1>4, <1>6, <1>9, <2>1 DEF UseAnswered, PublishAll
  <2>4. \/ n = [Effect(k) EXCEPT !.bag = @ \ {k}, !.cooling = @ \cup {k}]
        \/ k # "hammer" /\ n = [c EXCEPT !.bag = @ \ {k}, !.cooling = @ \cup {k}]
    BY <1>1, <1>4, <1>6, <1>9, <2>1 DEF UseAnswered
  <2>5. /\ n \in Character /\ n.bag = c.bag \ {k} /\ n.cooling = c.cooling \cup {k}
        /\ n.ailments \subseteq c.ailments /\ (n.broken => c.broken /\ k # "hammer")
        /\ n.hat = c.hat /\ n.buffs = c.buffs /\ n.spot = c.spot /\ n.going = c.going
        /\ n.visible = c.visible /\ n.mode = c.mode
    <3>1. CASE n = [Effect(k) EXCEPT !.bag = @ \ {k}, !.cooling = @ \cup {k}]
      <4>1. /\ Effect(k) \in Character /\ Effect(k).bag = c.bag /\ Effect(k).cooling = c.cooling
            /\ Effect(k).ailments \subseteq c.ailments
            /\ (Effect(k).broken => c.broken /\ k # "hammer")
            /\ Effect(k).hat = c.hat /\ Effect(k).buffs = c.buffs /\ Effect(k).spot = c.spot
            /\ Effect(k).going = c.going /\ Effect(k).visible = c.visible /\ Effect(k).mode = c.mode
        <5>1. CASE k = "vigor"
          BY <1>1, <1>7, <5>1 DEF Effect, Character
        <5>2. CASE k = "universalPill"
          BY <1>1, <1>7, <5>2 DEF Effect, Character
        <5>3. CASE k = "purificationPill"
          BY <1>1, <1>7, <5>3 DEF Effect, Character
        <5>4. CASE k = "hammer"
          BY <1>1, <1>7, <5>4 DEF Effect, Character
        <5> QED BY <1>7, <5>1, <5>2, <5>3, <5>4 DEF Used
      <4>2. PICK x : x = Effect(k)
        OBVIOUS
      <4> QED BY <1>7, <3>1, <4>1, <4>2 DEF Character
    <3>2. CASE k # "hammer" /\ n = [c EXCEPT !.bag = @ \ {k}, !.cooling = @ \cup {k}]
      BY <1>7, <3>2 DEF Character
    <3> QED BY <2>4, <3>1, <3>2
  <2>6. Fits(n, m, t, w, d, g, h, b) /\ ~Holds(w, Timeouts)
    <3>1. Fits(n, m, t, v \o <<a>>, d, g, h, b)
      BY <1>2, <1>3, <1>4, <1>6, <2>2, <2>5, ItemUsed
    <3> QED BY <1>2, <2>1, <2>2, <3>1, NoTimeout
  <2>7. Fits(n, machine, t, w, doubled, g, h, b)
    BY <1>1, <2>6
  <2> QED BY <1>2, <1>4, <1>5, <2>1, <2>3, <2>6, <2>7, Kept
<1> QED BY <1>8, <1>9

LEMMA EnableKeeps ==
  ASSUME PreparationInv, requests # <<>>, requests' = Tail(requests), UNCHANGED machine,
         EnableAnswered(Head(requests))
  PROVE  PreparationInv'
<1>1. PICK c, m, q, v, d, g, h, b :
        c = me /\ m = machine /\ q = requests /\ v = events /\ d = doubled /\ g = made /\ h = ground
        /\ b = robbed
  OBVIOUS
<1>2. Fits(c, m, q, v, d, g, h, b) /\ v \in Seq(EventSet) /\ q \in Seq(RequestSet)
        /\ ~Holds(v, Timeouts) /\ b \in BOOLEAN
  BY <1>1, EventsAre
<1>3. PICK r, t : r = Head(q) /\ t = Tail(q)
  OBVIOUS
<1>4. /\ r \in RequestSet /\ r.op = "enable" /\ q # <<>>
      /\ EnableAnswered(r) /\ requests' = t /\ UNCHANGED <<machine, doubled>>
  BY <1>1, <1>2, <1>3, Served DEF EnableAnswered
<1>5. made' = g /\ ground' = h /\ robbed' = b
  BY <1>1, <1>4 DEF EnableAnswered
<1>6. Fits(c, m, t, v, d, g, h, b)
  BY <1>2, <1>3, <1>4, Dequeued
<1>7. CASE c.mode = "white"
  <2>1. PICK a, n, w : /\ a = Event("countdown", "none", 0) /\ n = [c EXCEPT !.mode = "counting"]
                       /\ w = v \o <<a>>
    OBVIOUS
  <2>2. a \in EventSet /\ a.kind = "countdown"
    BY <2>1, Words, EventIs DEF EventKinds
  <2>3. me' = n /\ events' = w
    BY <1>1, <1>4, <1>7, <2>1 DEF EnableAnswered, PublishAll
  <2>4. Fits(n, m, t, w, d, g, h, b) /\ ~Holds(w, Timeouts)
    BY <1>2, <1>6, <1>7, <2>1, <2>2, CountdownBegins, NoTimeout
  <2>5. Fits(n, machine, t, w, doubled, g, h, b)
    BY <1>1, <2>4
  <2> QED BY <1>2, <1>4, <1>5, <2>3, <2>4, <2>5, Kept
<1>8. CASE c.mode # "white"
  <2>1. c \in Character
    BY <1>2 DEF Fits, Common
  <2>2. me' = c
    <3>1. me' = [c EXCEPT !.mode = c.mode]
      BY <1>1, <1>4, <1>8 DEF EnableAnswered
    <3> QED BY <2>1, <3>1 DEF Character
  <2>3. events' = v
    BY <1>1, <1>2, <1>4, <1>8 DEF EnableAnswered, PublishAll
  <2>4. Fits(c, machine, t, v, doubled, g, h, b)
    BY <1>1, <1>6
  <2> QED BY <1>2, <1>4, <1>5, <2>2, <2>3, <2>4, Kept
<1> QED BY <1>7, <1>8

LEMMA InvisibleKeeps ==
  ASSUME PreparationInv, requests # <<>>, requests' = Tail(requests), UNCHANGED machine,
         InvisibleAnswered(Head(requests))
  PROVE  PreparationInv'
<1>1. PICK c, m, q, v, d, g, h, b :
        c = me /\ m = machine /\ q = requests /\ v = events /\ d = doubled /\ g = made /\ h = ground
        /\ b = robbed
  OBVIOUS
<1>2. Fits(c, m, q, v, d, g, h, b) /\ v \in Seq(EventSet) /\ q \in Seq(RequestSet)
        /\ ~Holds(v, Timeouts) /\ b \in BOOLEAN
  BY <1>1, EventsAre
<1>3. PICK r, t : r = Head(q) /\ t = Tail(q)
  OBVIOUS
<1>4. /\ r \in RequestSet /\ r.op = "invisible" /\ q # <<>>
      /\ InvisibleAnswered(r) /\ requests' = t /\ UNCHANGED <<machine, doubled>>
  BY <1>1, <1>2, <1>3, Served DEF InvisibleAnswered
<1>5. made' = g /\ ground' = h /\ robbed' = b
  BY <1>1, <1>4 DEF InvisibleAnswered
<1>6. PICK a, z, n, w : /\ a = Event("operatorSuccess", "invisible", 0)
                        /\ z = Event("bodyState", "none", 0)
                        /\ n = [c EXCEPT !.visible = ~@] /\ w = events'
  OBVIOUS
<1>7. /\ a \in EventSet /\ a.kind = "operatorSuccess" /\ a.what = "invisible"
      /\ z \in EventSet /\ z.kind = "bodyState" /\ z.what = "none"
  BY <1>6, Words, EventIs DEF EventKinds
<1>8. me' = n /\ (w = v \o <<a, z>> \/ w = v \o <<z, a>>)
  BY <1>1, <1>4, <1>6 DEF InvisibleAnswered, PublishAll
<1>9. (w = (v \o <<a>>) \o <<z>> \/ w = (v \o <<z>>) \o <<a>>) /\ ~Holds(w, Timeouts)
  BY <1>2, <1>7, <1>8, NoTimeout
<1>10. Fits(n, m, t, w, d, g, h, b)
  BY <1>2, <1>3, <1>4, <1>6, <1>7, <1>9, Toggled
<1>11. Fits(n, machine, t, w, doubled, g, h, b)
  BY <1>1, <1>10
<1> QED BY <1>2, <1>4, <1>5, <1>6, <1>8, <1>9, <1>11, Kept

LEMMA ServeKeeps ==
  ASSUME PreparationInv, Serve
  PROVE  PreparationInv'
<1>1. requests # <<>> /\ requests' = Tail(requests) /\ UNCHANGED machine
  BY DEF Serve
<1>2. \/ MoveAnswered(Head(requests)) \/ DispelAnswered(Head(requests))
      \/ WalkAnswered(Head(requests)) \/ MakeAnswered(Head(requests))
      \/ PickAnswered(Head(requests)) \/ UseAnswered(Head(requests))
      \/ EnableAnswered(Head(requests)) \/ InvisibleAnswered(Head(requests))
  BY DEF Serve
<1> QED BY <1>1, <1>2, MoveKeeps, DispelKeeps, WalkKeeps, MakeKeeps, PickKeeps, UseKeeps, EnableKeeps,
           InvisibleKeeps

LEMMA DropKeeps ==
  ASSUME PreparationInv, Drop
  PROVE  PreparationInv'
<1>1. PICK c, m, q, v, d, g, h, b :
        c = me /\ m = machine /\ q = requests /\ v = events /\ d = doubled /\ g = made /\ h = ground
        /\ b = robbed
  OBVIOUS
<1>2. Fits(c, m, q, v, d, g, h, b) /\ v \in Seq(EventSet) /\ q \in Seq(RequestSet)
        /\ ~Holds(v, Timeouts) /\ b \in BOOLEAN
  BY <1>1, EventsAre
<1>3. PICK r, t : r = Head(q) /\ t = Tail(q)
  OBVIOUS
<1>4. q # <<>> /\ requests' = t /\ me' = c /\ made' = g /\ ground' = h /\ robbed' = b
        /\ UNCHANGED <<machine, doubled>>
  BY <1>1, <1>3 DEF Drop
<1>5. Fits(c, m, t, v, d, g, h, b)
  BY <1>2, <1>3, <1>4, Dequeued
<1>6. CASE events' = v
  <2>1. Fits(c, machine, t, v, doubled, g, h, b)
    BY <1>1, <1>5
  <2> QED BY <1>2, <1>4, <1>6, <2>1, Kept
<1>7. CASE events' # v
  <2>1. PICK a, w : a = Event("operatorError", r.op, 0) /\ w = v \o <<a>>
    OBVIOUS
  <2>2. r.op \in {"make", "invisible"} /\ events' = w
    BY <1>1, <1>3, <1>7, <2>1 DEF Drop, PublishAll
  <2>3. r.op \in Names
    BY <2>2, Texts
  <2>4. a \in EventSet /\ a.kind = "operatorError"
    BY <2>1, <2>3, EventIs DEF EventKinds
  <2>5. a \in Plain /\ a \in Told(c, g, h)
    BY <2>4, Sorts DEF Plain, Told
  <2>6. Fits(c, m, t, w, d, g, h, b) /\ ~Holds(w, Timeouts)
    BY <1>2, <1>5, <2>1, <2>4, <2>5, Published, NoTimeout
  <2>7. Fits(c, machine, t, w, doubled, g, h, b)
    BY <1>1, <2>6
  <2> QED BY <1>2, <1>4, <2>2, <2>6, <2>7, Kept
<1> QED BY <1>6, <1>7

LEMMA WalkEndsKeeps ==
  ASSUME PreparationInv, WalkEnds
  PROVE  PreparationInv'
<1>1. PICK c, m, q, v, d, g, h, b :
        c = me /\ m = machine /\ q = requests /\ v = events /\ d = doubled /\ g = made /\ h = ground
        /\ b = robbed
  OBVIOUS
<1>2. Fits(c, m, q, v, d, g, h, b) /\ v \in Seq(EventSet) /\ q \in Seq(RequestSet)
        /\ ~Holds(v, Timeouts) /\ b \in BOOLEAN
  BY <1>1, EventsAre
<1>3. PICK a, n, w : /\ a = Event("ended", "none", 0)
                     /\ n = [c EXCEPT !.spot = c.going, !.going = "nowhere"] /\ w = v \o <<a>>
  OBVIOUS
<1>4. a \in EventSet /\ a.kind = "ended" /\ a.what = "none"
  BY <1>3, Words, EventIs DEF EventKinds
<1>5. /\ me' = n /\ events' = w /\ requests' = q /\ made' = g /\ ground' = h /\ robbed' = b
      /\ c.going # "nowhere" /\ UNCHANGED <<machine, doubled>>
  BY <1>1, <1>3 DEF WalkEnds, PublishAll
<1>6. Fits(n, m, q, w, d, g, h, b) /\ ~Holds(w, Timeouts)
  BY <1>2, <1>3, <1>4, <1>5, WalkArrives, NoTimeout
<1>7. Fits(n, machine, q, w, doubled, g, h, b)
  BY <1>1, <1>6
<1> QED BY <1>2, <1>5, <1>6, <1>7, Kept

LEMMA CountdownEndsKeeps ==
  ASSUME PreparationInv, CountdownEnds
  PROVE  PreparationInv'
<1>1. PICK c, m, q, v, d, g, h, b :
        c = me /\ m = machine /\ q = requests /\ v = events /\ d = doubled /\ g = made /\ h = ground
        /\ b = robbed
  OBVIOUS
<1>2. Fits(c, m, q, v, d, g, h, b) /\ v \in Seq(EventSet) /\ q \in Seq(RequestSet)
        /\ ~Holds(v, Timeouts) /\ b \in BOOLEAN
  BY <1>1, EventsAre
<1>3. PICK a, n, w : /\ a = Event("pvpSuccess", "none", 0)
                     /\ n = [c EXCEPT !.mode = "yellow"] /\ w = v \o <<a>>
  OBVIOUS
<1>4. a \in EventSet /\ a.kind = "pvpSuccess" /\ a.what = "none"
  BY <1>3, Words, EventIs DEF EventKinds
<1>5. /\ me' = n /\ events' = w /\ requests' = q /\ made' = g /\ ground' = h /\ robbed' = b
      /\ c.mode = "counting" /\ UNCHANGED <<machine, doubled>>
  BY <1>1, <1>3 DEF CountdownEnds, PublishAll
<1>6. Fits(n, m, q, w, d, g, h, b) /\ ~Holds(w, Timeouts)
  BY <1>2, <1>3, <1>4, <1>5, CountdownOver, NoTimeout
<1>7. Fits(n, machine, q, w, doubled, g, h, b)
  BY <1>1, <1>6
<1> QED BY <1>2, <1>5, <1>6, <1>7, Kept

LEMMA BuffEndsKeeps ==
  ASSUME PreparationInv, NEW x \in me.buffs, BuffEnds(x)
  PROVE  PreparationInv'
<1>1. PICK c, m, q, v, d, g, h, o :
        c = me /\ m = machine /\ q = requests /\ v = events /\ d = doubled /\ g = made /\ h = ground
        /\ o = robbed
  OBVIOUS
<1>2. Fits(c, m, q, v, d, g, h, o) /\ v \in Seq(EventSet) /\ q \in Seq(RequestSet)
        /\ ~Holds(v, Timeouts) /\ o \in BOOLEAN
  BY <1>1, EventsAre
<1>3. c \in Character /\ x \in c.buffs
  BY <1>1, <1>2 DEF Fits, Common
<1>4. x \in Buffs /\ x \in Names
  BY <1>3, Texts DEF Character
<1>5. PICK a, n, w : /\ a = Event("buffRemoved", x, 0)
                     /\ n = [c EXCEPT !.buffs = @ \ {x}] /\ w = v \o <<a>>
  OBVIOUS
<1>6. a \in EventSet /\ a.kind = "buffRemoved" /\ a.what = x
  BY <1>4, <1>5, EventIs DEF EventKinds
<1>7. /\ me' = n /\ events' = w /\ requests' = q /\ made' = g /\ ground' = h /\ robbed' = o
      /\ UNCHANGED <<machine, doubled>>
  BY <1>1, <1>5 DEF BuffEnds, PublishAll
<1>8. a \in Plain /\ a \in Told(c, g, h) /\ a \in EvOf("buffRemoved", x)
  BY <1>6, Sorts DEF Plain, Told
<1>9. Fits(c, m, q, w, d, g, h, o) /\ ~Holds(w, Timeouts) /\ Holds(w, EvOf("buffRemoved", x))
  <2>1. Fits(c, m, q, v \o <<a>>, d, g, h, o)
    BY <1>2, <1>8, Published
  <2>2. ~Holds(v \o <<a>>, Timeouts)
    BY <1>2, <1>6, NoTimeout
  <2>3. Holds(v \o <<a>>, EvOf("buffRemoved", x))
    BY <1>2, <1>6, <1>8, Added
  <2> QED BY <1>5, <2>1, <2>2, <2>3
<1>10. Fits(n, m, q, w, d, g, h, o)
  BY <1>3, <1>5, <1>9, FewerBuffs
<1>11. Fits(n, machine, q, w, doubled, g, h, o)
  BY <1>1, <1>10
<1> QED BY <1>2, <1>7, <1>9, <1>11, Kept

LEMMA CooldownEndsKeeps ==
  ASSUME PreparationInv, NEW k \in me.cooling, CooldownEnds(k)
  PROVE  PreparationInv'
<1>1. PICK c, m, q, v, d, g, h, o :
        c = me /\ m = machine /\ q = requests /\ v = events /\ d = doubled /\ g = made /\ h = ground
        /\ o = robbed
  OBVIOUS
<1>2. Fits(c, m, q, v, d, g, h, o) /\ v \in Seq(EventSet) /\ q \in Seq(RequestSet)
        /\ ~Holds(v, Timeouts) /\ o \in BOOLEAN
  BY <1>1, EventsAre
<1>3. c \in Character /\ k \in c.cooling
  BY <1>1, <1>2 DEF Fits, Common
<1>4. k \in Kinds /\ k \in Names
  BY <1>3, Texts DEF Character
<1>5. PICK a, n, w : /\ a = Event("cooldownEnded", k, 0)
                     /\ n = [c EXCEPT !.cooling = @ \ {k}] /\ w = v \o <<a>>
  OBVIOUS
<1>6. a \in EventSet /\ a.kind = "cooldownEnded" /\ a.what = k
  BY <1>4, <1>5, EventIs DEF EventKinds
<1>7. /\ me' = n /\ events' = w /\ requests' = q /\ made' = g /\ ground' = h /\ robbed' = o
      /\ UNCHANGED <<machine, doubled>>
  BY <1>1, <1>5 DEF CooldownEnds, PublishAll
<1>8. a \in Plain /\ a \in Told(c, g, h) /\ a \in EvOf("cooldownEnded", k)
  BY <1>6, Sorts DEF Plain, Told
<1>9. Fits(c, m, q, w, d, g, h, o) /\ ~Holds(w, Timeouts) /\ Holds(w, EvOf("cooldownEnded", k))
  <2>1. Fits(c, m, q, v \o <<a>>, d, g, h, o)
    BY <1>2, <1>8, Published
  <2>2. ~Holds(v \o <<a>>, Timeouts)
    BY <1>2, <1>6, NoTimeout
  <2>3. Holds(v \o <<a>>, EvOf("cooldownEnded", k))
    BY <1>2, <1>6, <1>8, Added
  <2> QED BY <1>5, <2>1, <2>2, <2>3
<1>10. Fits(n, m, q, w, d, g, h, o)
  BY <1>3, <1>5, <1>9, FewerCooldowns
<1>11. Fits(n, machine, q, w, doubled, g, h, o)
  BY <1>1, <1>10
<1> QED BY <1>2, <1>7, <1>9, <1>11, Kept

LEMMA RobKeeps ==
  ASSUME PreparationInv, NEW i \in ground, Rob(i)
  PROVE  PreparationInv'
<1>1. PICK c, m, q, v, d, g, h, b :
        c = me /\ m = machine /\ q = requests /\ v = events /\ d = doubled /\ g = made /\ h = ground
        /\ b = robbed
  OBVIOUS
<1>2. Fits(c, m, q, v, d, g, h, b) /\ v \in Seq(EventSet) /\ q \in Seq(RequestSet)
        /\ ~Holds(v, Timeouts) /\ b \in BOOLEAN
  BY <1>1, EventsAre
<1>3. g \in Seq(Kinds) /\ h \subseteq DOMAIN g /\ i \in h /\ i \in Nat
  <2>1. g \in Seq(Kinds) /\ h \subseteq DOMAIN g
    BY <1>2 DEF Fits, Common
  <2> QED BY <1>1, <2>1
<1>4. PICK a, w, hh, bb : /\ a = Event("despawned", "none", i) /\ w = v \o <<a>>
                          /\ hh = h \ {i} /\ bb = (b \/ (m.leaf = "pick" /\ m.item = i))
  OBVIOUS
<1>5. a \in EventSet /\ a.kind = "despawned" /\ a.item = i
  BY <1>3, <1>4, Words, EventIs DEF EventKinds
<1>6. /\ me' = c /\ events' = w /\ requests' = q /\ made' = g /\ ground' = hh /\ robbed' = bb
      /\ UNCHANGED <<machine, doubled>>
  BY <1>1, <1>4 DEF Rob, PublishAll
<1>7. bb \in BOOLEAN
  BY <1>4
<1>8. Fits(c, m, q, w, d, g, hh, bb) /\ ~Holds(w, Timeouts)
  <2>1. bb <=> (b \/ (m.leaf = "pick" /\ m.item = i))
    BY <1>2, <1>4
  <2>2. Fits(c, m, q, v \o <<a>>, d, g, h \ {i}, bb)
    BY <1>2, <1>3, <1>5, <1>7, <2>1, ItemGone
  <2> QED BY <1>2, <1>4, <1>5, <2>2, NoTimeout
<1>9. Fits(c, machine, q, w, doubled, g, hh, bb)
  BY <1>1, <1>8
<1> QED BY <1>6, <1>7, <1>8, <1>9, Kept

-----------------------------------------------------------------------------
(* The invariant holds, and what it says of every reachable state.         *)

LEMMA AtFirst ==
  ASSUME NEW c \in Characters, NEW s \in Range(Sequence), s \notin PastHat
  PROVE  /\ IdleApart(c, s, <<>>, <<>>, {}, <<>>, {}, FALSE) /\ Still(c, s, <<>>)
         /\ Idle(c, s, <<>>, <<>>, {}, <<>>, {}, FALSE)
<1>1. c \in Character /\ c.going = "nowhere"
  BY PreparationAssumption
<1>2. /\ \A A : ~Holds(<<>>, A) /\ Within(<<>>, A) /\ OnceIn(<<>>, A)
      /\ \A A, B : OnlyAfter(<<>>, A, B) /\ Followed(<<>>, A, B)
  BY None
<1>3. /\ s \notin PastCooldowns /\ s \notin PastAppear /\ s \notin PastEquip /\ s \notin PastPvp
      /\ s \notin PastRepair /\ s \notin PastItems /\ s \notin PastVitals /\ s \notin PastWalk
      /\ s \notin PastDispel
  BY DEF PastCooldowns, PastAppear, PastEquip, PastPvp, PastRepair, PastItems, PastVitals, PastWalk,
         PastDispel, PastHat
<1>4. <<>> \in Seq(Kinds) /\ <<>> \in Seq(RequestSet) /\ <<>> \in Seq(EventSet)
        /\ {} \subseteq DOMAIN <<>>
  OBVIOUS
<1>5. Common(c, s, <<>>, <<>>, {}, <<>>, {})
  <2>1. Attained(c, s, {})
    BY <1>3 DEF Attained
  <2>2. Dressing(c, s, <<>>, <<>>)
    BY <1>2, <1>3 DEF Dressing
  <2>3. Shown(c, s, <<>>, <<>>, {})
    BY <1>2 DEF Shown
  <2>4. Announced(c, <<>>)
    BY <1>2 DEF Announced
  <2> QED BY <1>1, <1>2, <1>4, <2>1, <2>2, <2>3, <2>4 DEF Common
<1>6. Still(c, s, <<>>)
  BY <1>1, <1>2, <1>3 DEF Still
<1> QED BY <1>2, <1>5, <1>6 DEF IdleApart, Idle, InUse

LEMMA InitKeeps ==
  ASSUME PreparationInit
  PROVE  PreparationInv
<1>1. /\ me \in Characters /\ events = <<>> /\ made = <<>> /\ ground = {} /\ robbed = FALSE
      /\ doubled = {}
  BY DEF PreparationInit
<1>2. "hat" \in Range(Sequence) /\ "hat" \notin PastHat
  <2>1. 1 \in DOMAIN Sequence /\ Sequence[1] = "hat"
    BY SequenceIs
  <2> QED BY <2>1 DEF Range, PastHat, PastDispel, PastWalk, PastVitals, PastItems, PastRepair, PastPvp,
                      PastEquip, PastAppear, PastCooldowns
<1>3. /\ IdleApart(me, "hat", <<>>, <<>>, {}, made, ground, robbed)
      /\ Still(me, "hat", <<>>) /\ Idle(me, "hat", <<>>, <<>>, {}, made, ground, robbed)
  BY <1>1, <1>2, AtFirst
<1>4. PICK s : s = IF HasWork("hat") THEN "hat" ELSE NextStep("hat")
  OBVIOUS
<1>5. s \in Range(Sequence) /\ HasWork(s) /\ Idle(me, s, <<>>, <<>>, {}, made, ground, robbed)
  <2>1. CASE HasWork("hat")
    BY <1>2, <1>3, <1>4, <2>1
  <2>2. CASE ~HasWork("hat")
    <3>1. Passed(me, "hat", <<>>, {})
      BY <1>3 DEF Passed
    <3>2. <<>> \in Seq(RequestSet) /\ <<>> \in Seq(EventSet)
      OBVIOUS
    <3> QED BY <1>2, <1>3, <1>4, <2>2, <3>1, <3>2, Onward
  <2> QED BY <2>1, <2>2
<1>6. Good(Begin(s), <<>>, <<>>, {})
  BY <1>5, BeginGood
<1>7. PICK r : r = Begin(s)
  OBVIOUS
<1>8. machine = r.m /\ requests = r.sent
  BY <1>4, <1>7 DEF PreparationInit
<1>9. Fits(me, r.m, <<>> \o r.sent, <<>>, {}, made, ground, robbed) /\ (r.m.leaf = "rest" => r.m.potion)
        /\ <<>> \o r.sent \in Seq(RequestSet)
  BY <1>6, <1>7 DEF Good, Fits, Common
<1>10. <<>> \o r.sent = r.sent
  <2>1. Good(Begin(s), <<>>, <<>>, {})
    BY <1>6
  <2> QED BY <1>7, <1>9
<1>11. ~Holds(<<>>, Timeouts)
  BY None
<1> QED BY <1>1, <1>8, <1>9, <1>10, <1>11 DEF PreparationInv

LEMMA NothingKeeps ==
  ASSUME PreparationInv, UNCHANGED preparationVars
  PROVE  PreparationInv'
<1>1. PICK c, m, q, v, d, g, h, b :
        c = me /\ m = machine /\ q = requests /\ v = events /\ d = doubled /\ g = made /\ h = ground
        /\ b = robbed
  OBVIOUS
<1>2. Fits(c, machine, q, v, doubled, g, h, b) /\ ~Holds(v, Timeouts) /\ b \in BOOLEAN
  BY <1>1 DEF PreparationInv
<1>3. /\ me' = c /\ requests' = q /\ events' = v /\ made' = g /\ ground' = h /\ robbed' = b
      /\ UNCHANGED <<machine, doubled>>
  BY <1>1 DEF preparationVars
<1> QED BY <1>2, <1>3, Kept

LEMMA NextKeeps ==
  ASSUME PreparationInv, [PreparationNext]_preparationVars
  PROVE  PreparationInv'
<1>1. CASE Deliver \/ RequestTimerFires \/ PotionTimerFires \/ HearOfAnother
  BY <1>1, DeliverKeeps, RequestTimerFiresKeeps, PotionTimerFiresKeeps, HearOfAnotherKeeps
<1>2. CASE Serve \/ Drop \/ WalkEnds \/ CountdownEnds
  BY <1>2, ServeKeeps, DropKeeps, WalkEndsKeeps, CountdownEndsKeeps
<1>3. CASE \E x \in me.buffs : BuffEnds(x)
  BY <1>3, BuffEndsKeeps
<1>4. CASE \E k \in me.cooling : CooldownEnds(k)
  BY <1>4, CooldownEndsKeeps
<1>5. CASE \E i \in ground : Rob(i)
  BY <1>5, RobKeeps
<1>6. CASE UNCHANGED preparationVars
  BY <1>6, NothingKeeps
<1> QED BY <1>1, <1>2, <1>3, <1>4, <1>5, <1>6 DEF PreparationNext

LEMMA IsComingIs ==
  /\ \A k, x : Holds(events, EvOf(k, x)) => IsComing(k, x)
  /\ \A k, i : Holds(events, EvItem(k, i)) => ComingOf(k, i)
  BY DEF Holds, EvOf, EvItem, IsComing, ComingOf, Is

LEMMA NoneInVain ==
  ASSUME PreparationInv
  PROVE  NeverWaitsInVain
<1>1. PICK m, d : m = machine /\ d = doubled
  OBVIOUS
<1>2. /\ Fits(me, m, requests, events, d, made, ground, robbed) /\ (m.leaf = "rest" => m.potion)
  BY <1>1 DEF PreparationInv
<1>3. /\ m \in Machines /\ <<m.step, m.leaf>> \in LeafOf /\ m.leaf \in Leaves
      /\ Waiting(me, m, events) /\ Picking(m, requests, events, made, ground, robbed)
      /\ Toggling(me, m, requests, events, d)
  BY <1>2 DEF Fits, Machines
<1> SUFFICES ASSUME ~m.timer, ~robbed, "toggle" \notin d, m.leaf \notin MoveLeaves \cup {"use"}
             PROVE  NeverWaitsInVain
  BY <1>1 DEF NeverWaitsInVain
<1>4. CASE m.leaf \in {"spawn", "enable", "toggle"}
  BY <1>3, <1>4 DEF Waiting
<1>5. CASE m.leaf \in WalkLeaves
  <2>1. me.going # "nowhere" \/ IsComing("ended", "none")
    BY <1>3, <1>5, IsComingIs DEF Waiting
  <2> QED BY <1>1, <1>5, <2>1 DEF NeverWaitsInVain
<1>6. CASE m.leaf = "dispel"
  <2>1. me.buffs # {} \/ \E x \in Buffs : IsComing("buffRemoved", x)
    BY <1>3, <1>6, IsComingIs DEF Waiting
  <2> QED BY <1>1, <1>6, <2>1 DEF NeverWaitsInVain
<1>7. CASE m.leaf = "pick"
  <2>1. /\ m.timer \/ m.gone \/ m.got
        /\ ~(m.gone /\ m.got)
        /\ m.item \in ground => ~m.gone /\ ~m.got
        /\ m.item \notin ground =>
             /\ m.gone \/ Holds(events, EvItem("despawned", m.item))
             /\ m.got \/ Holds(events, EvOf("arrived", m.what))
    BY <1>3, <1>7 DEF Picking
  <2>2. \/ m.gone /\ IsComing("arrived", m.what)
        \/ m.got /\ ComingOf("despawned", m.item)
    BY <2>1, IsComingIs
  <2> QED BY <1>1, <1>7, <2>2 DEF NeverWaitsInVain
<1>8. CASE m.leaf = "rest"
  BY <1>1, <1>2, <1>8 DEF NeverWaitsInVain
<1>9. CASE m.leaf = "countdown"
  <2>1. me.mode = "counting" \/ IsComing("pvpSuccess", "none")
    BY <1>3, <1>9, IsComingIs DEF Waiting
  <2> QED BY <1>1, <1>9, <2>1 DEF NeverWaitsInVain
<1>10. CASE m.leaf = "appear"
  <2>1. m.step = "appear"
    BY <1>3, <1>10 DEF LeafOf
  <2>2. Holds(events, EvOf("bodyState", "none"))
    BY <1>3, <1>10, <2>1 DEF Toggling
  <2>3. IsComing("bodyState", "none")
    BY <2>2, IsComingIs
  <2> QED BY <1>1, <1>10, <2>3 DEF NeverWaitsInVain
<1>11. CASE m.leaf = "cooldowns"
  <2>1. me.cooling # {} \/ \E k \in Kinds : IsComing("cooldownEnded", k)
    BY <1>3, <1>11, IsComingIs DEF Waiting
  <2> QED BY <1>1, <1>11, <2>1 DEF NeverWaitsInVain
<1>12. CASE m.leaf = "none"
  <2>1. m.step = "ready"
    BY <1>3, <1>12 DEF LeafOf
  <2> QED BY <1>1, <2>1 DEF NeverWaitsInVain
<1> QED BY <1>3, <1>4, <1>5, <1>6, <1>7, <1>8, <1>9, <1>10, <1>11, <1>12 DEF Leaves

LEMMA InvImplies ==
  ASSUME PreparationInv
  PROVE  PreparationConsistent /\ ReadyToFight
<1>1. PICK m, q, v, d : m = machine /\ q = requests /\ v = events /\ d = doubled
  OBVIOUS
<1>2. Fits(me, m, q, v, d, made, ground, robbed)
  BY <1>1 DEF PreparationInv
<1>3. Common(me, m.step, q, v, d, made, ground) /\ m \in Machines /\ <<m.step, m.leaf>> \in LeafOf
        /\ Walking(me, m, q)
  BY <1>2 DEF Fits
<1>4. PreparationTypeOK
  BY <1>1, <1>3 DEF PreparationTypeOK, Common, Machines
<1>5. ASSUME m.step = "ready"
      PROVE  /\ me.hat = "avatar" /\ me.mode = "yellow" /\ me.spot = "pvp" /\ me.going = "nowhere"
             /\ me.ailments = {} /\ me.buffs = {} /\ me.cooling = {} /\ Potions \subseteq me.bag
             /\ (me.visible \/ "toggle" \in d) /\ (~me.broken \/ "use" \in d)
  <2>1. m.leaf = "none"
    BY <1>3, <1>5 DEF LeafOf
  <2>2. Still(me, "ready", q)
    BY <1>3, <1>5, <2>1 DEF Walking
  <2>3. "ready" \in PastWalk /\ "ready" \in PastDispel /\ "ready" \in PastVitals
          /\ "ready" \in PastItems /\ "ready" \in PastRepair /\ "ready" \in PastPvp
          /\ "ready" \in PastEquip /\ "ready" \in PastAppear /\ "ready" \in PastCooldowns
    BY DEF PastDispel, PastWalk, PastVitals, PastItems, PastRepair, PastPvp, PastEquip, PastAppear,
           PastCooldowns
  <2>4. Attained(me, "ready", d)
    BY <1>3, <1>5 DEF Common
  <2> QED BY <2>2, <2>3, <2>4 DEF Still, Attained
<1>6. ReadyToFight
  BY <1>1, <1>5 DEF ReadyToFight
<1> QED BY <1>4, <1>6, NoneInVain DEF PreparationConsistent

(* A bot that prepares for a match never waits for what does not come: of   *)
(* each machine of setPrepareForPvpStateMachine that waits with no timer of *)
(* its own, what it waits for is on its way, for whatever requirements,     *)
(* characters and numbers of attempts.                                     *)
THEOREM PreparationConsistentAlways == PreparationSpec => []PreparationConsistent
<1>1. PreparationInit => PreparationInv
  BY InitKeeps
<1>2. PreparationInv /\ [PreparationNext]_preparationVars => PreparationInv'
  BY NextKeeps
<1>3. PreparationInv => PreparationConsistent
  BY InvImplies
<1> QED BY <1>1, <1>2, <1>3, PTL DEF PreparationSpec

(* When the sequence has come to its end, what every machine of it has seen *)
(* to still holds.                                                         *)
THEOREM ReadyToFightAlways == PreparationSpec => []ReadyToFight
<1>1. PreparationInit => PreparationInv
  BY InitKeeps
<1>2. PreparationInv /\ [PreparationNext]_preparationVars => PreparationInv'
  BY NextKeeps
<1>3. PreparationInv => ReadyToFight
  BY InvImplies
<1> QED BY <1>1, <1>2, <1>3, PTL DEF PreparationSpec
=============================================================================
