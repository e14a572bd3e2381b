------------------------- MODULE DelayedEventsProofs -------------------------
(* Theorems about DelayedEvents, for every set of threads and any number   *)
(* of events.                                                              *)
EXTENDS DelayedEvents, TLAPS

USE DelayedEventsAssumption

-----------------------------------------------------------------------------
(* The inductive invariant.                                                *)

Pending(e) == \E t \in timers : t.event = e
Firing(e) == firing = "delayedTimerFinished" /\ fired = e

(* The timer tm, if it is pending, carries the event e and no other does.  *)
Match(tm, e) == \A t \in timers : t.event = e <=> t.timer = tm

IdsIssued ==
  /\ \A t \in timers : t.timer < timerIdCounter /\ t.event < eventIdCounter
  /\ \A m \in timerIdMap : m.timer < timerIdCounter /\ m.event \in known
  /\ \A e \in known \cup notified \cup cancelled : e < eventIdCounter
  /\ firing = "delayedTimerFinished" => fired < eventIdCounter

IdsMatch ==
  /\ \A t, u \in timers : t.event = u.event \/ t.timer = u.timer => t = u
  /\ \A m \in timerIdMap : Match(m.timer, m.event)
  /\ \A th \in Threads : pc[th] \in {"addTimerIdMapping", "cancelTimer"} =>
       Match(timerId[th], eventId[th]) /\ timerId[th] < timerIdCounter

(* An event is in one phase: created, pending, firing, notified, cancelled.*)
PhasesDisjoint ==
  /\ \A t \in timers : t.event \notin notified \cup cancelled /\ ~Firing(t.event)
  /\ firing = "delayedTimerFinished" => fired \notin notified \cup cancelled
  /\ CancelIsFinal

Unknown(e) == e < eventIdCounter /\ e \notin known \cup notified \cup cancelled

CallsInPhase ==
  /\ \A th \in Threads :
       /\ pc[th] = "registerTimer" =>
            Unknown(eventId[th]) /\ ~Pending(eventId[th]) /\ ~Firing(eventId[th])
       /\ pc[th] = "addTimerIdMapping" =>
            /\ Unknown(eventId[th])
            /\ \/ \E t \in timers : t.timer = timerId[th] /\ t.event = eventId[th]
               \/ Firing(eventId[th])
               \/ firing = "terminated"
       /\ pc[th] \in {"cancelTimer", "removeTimerIdMapping"} => eventId[th] \in known
       /\ pc[th] = "removeTimerIdMapping" => eventId[th] \in cancelled
  /\ \A th, ot \in Threads :
       /\ th # ot
       /\ pc[th] \in {"registerTimer", "addTimerIdMapping"}
       /\ pc[ot] \in {"registerTimer", "addTimerIdMapping"}
       => eventId[th] # eventId[ot]

DelayedInv ==
  /\ TypeOK
  /\ IdsIssued
  /\ IdsMatch
  /\ PhasesDisjoint
  /\ CallsInPhase
  /\ MappingExact

(* A thread has registered the timer of e and not yet mapped it.           *)
InGap(th, e) == pc[th] = "addTimerIdMapping" /\ eventId[th] = e

(* A timer without a mapping is one whose publisher is still in the gap,   *)
(* and when it fires that publisher is not the timer thread.               *)
GapInv ==
  /\ \A c \in Clients \ Publishers : pc[c] \notin {"registerTimer", "addTimerIdMapping"}
  /\ firing \in {"waiting", "delayedTimerFinished"} => pc[TimerThread] = "idle"
  /\ \A t \in timers : Mapped(t.event) \/ \E th \in Threads : InGap(th, t.event)
  /\ firing = "delayedTimerFinished" =>
       Mapped(fired) \/ \E th \in Publishers : InGap(th, fired)
  /\ ThrowsOnlyInTheGap

-----------------------------------------------------------------------------
(* What the types give.                                                    *)

Numbers ==
  /\ eventIdCounter \in Nat /\ timerIdCounter \in Nat /\ fired \in Nat
  /\ \A t \in timers : t.timer \in Nat /\ t.event \in Nat
  /\ \A m \in timerIdMap : m.timer \in Nat /\ m.event \in Nat
  /\ \A th \in Threads : eventId[th] \in Nat /\ timerId[th] \in Nat
  /\ \A e \in known \cup notified \cup cancelled : e \in Nat

LEMMA TypesGiveNumbers == ASSUME TypeOK PROVE Numbers
<1> USE DEF TypeOK, Numbers, EventId, TimerId
<1>1. /\ \A t \in timers : t.timer \in Nat /\ t.event \in Nat
      /\ \A m \in timerIdMap : m.timer \in Nat /\ m.event \in Nat
  OBVIOUS
<1>2. \A th \in Threads : eventId[th] \in Nat /\ timerId[th] \in Nat
  OBVIOUS
<1> QED BY <1>1, <1>2

-----------------------------------------------------------------------------
(* Each step keeps the invariant.                                          *)

LEMMA PublishDelayedEventStep ==
  ASSUME DelayedInv, NEW th \in Threads, PublishDelayedEvent(th)
  PROVE  DelayedInv'
<1> USE DEF DelayedInv
<1>e. /\ pc[th] = "idle" /\ pc'[th] = "registerTimer" /\ eventId'[th] = eventIdCounter
      /\ \A o \in Threads \ {th} : pc'[o] = pc[o] /\ eventId'[o] = eventId[o]
      /\ eventIdCounter' = eventIdCounter + 1
      /\ UNCHANGED <<timerIdCounter, timers, timerIdMap, timerId, firing, fired,
                     known, notified, cancelled, threw>>
  BY DEF PublishDelayedEvent, TypeOK, MayCall
<1>n. Numbers
  BY TypesGiveNumbers
<1>1. TypeOK'
  BY DEF PublishDelayedEvent, TypeOK
<1>2. IdsIssued'
  BY <1>e, <1>n DEF IdsIssued, Numbers
<1>3. IdsMatch'
  BY <1>e DEF IdsMatch, Match
<1>4. PhasesDisjoint'
  BY <1>e DEF PhasesDisjoint, CancelIsFinal, Firing
<1>5. CallsInPhase'
  BY <1>e, <1>n DEF CallsInPhase, Unknown, Pending, Firing, Numbers, IdsIssued
<1>6. MappingExact'
  BY <1>e DEF MappingExact
<1> QED BY <1>1, <1>2, <1>3, <1>4, <1>5, <1>6

LEMMA RegisterTimerStep ==
  ASSUME DelayedInv, NEW th \in Threads, RegisterTimer(th)
  PROVE  DelayedInv'
<1> USE DEF DelayedInv
<1>e. /\ pc[th] = "registerTimer" /\ pc'[th] = "addTimerIdMapping"
      /\ timerId'[th] = timerIdCounter /\ timerIdCounter' = timerIdCounter + 1
      /\ timers' = timers \cup {[timer |-> timerIdCounter, event |-> eventId[th]]}
      /\ \A o \in Threads \ {th} : pc'[o] = pc[o] /\ timerId'[o] = timerId[o]
      /\ UNCHANGED <<eventIdCounter, timerIdMap, eventId, firing, fired, known,
                     notified, cancelled, threw>>
  BY DEF RegisterTimer, TypeOK, AssignedTimerId
<1>n. Numbers
  BY TypesGiveNumbers
<1>1. TypeOK'
  <2>1. /\ eventId[th] \in EventId /\ timerIdCounter \in TimerId
        /\ timerIdCounter' \in 0..MaxEvents
    BY DEF RegisterTimer, TypeOK, CallsInPhase, Unknown, EventId, TimerId
  <2>2. [timer |-> timerIdCounter, event |-> eventId[th]] \in [timer : TimerId, event : EventId]
    BY <2>1
  <2>3. timers' \in SUBSET [timer : TimerId, event : EventId]
    BY <2>2 DEF RegisterTimer, TypeOK
  <2>4. timerId' \in [Threads -> 0..MaxEvents]
    BY DEF RegisterTimer, TypeOK, AssignedTimerId
  <2> QED BY <2>3, <2>4 DEF RegisterTimer, TypeOK
<1>2. IdsIssued'
  BY <1>e, <1>n DEF IdsIssued, CallsInPhase, Unknown, Numbers
<1>3. IdsMatch'
  <2>1. /\ Unknown(eventId[th])
        /\ \A t \in timers : t.event # eventId[th] /\ t.timer < timerIdCounter
    BY <1>e DEF CallsInPhase, Pending, IdsIssued
  <2>2. \A t \in timers' :
          \/ t \in timers
          \/ /\ t.timer = timerIdCounter /\ t.event = eventId[th]
             /\ t = [timer |-> timerIdCounter, event |-> eventId[th]]
    BY <1>e
  <2>3. \A t, u \in timers' : t.event = u.event \/ t.timer = u.timer => t = u
    BY <2>1, <2>2, <1>n DEF IdsMatch, Numbers
  <2>4. ASSUME NEW tm \in Nat, NEW e \in Nat,
               Match(tm, e), tm < timerIdCounter, e # eventId[th]
        PROVE  Match(tm, e)'
    BY <2>4, <2>2 DEF Match
  <2>5. \A m \in timerIdMap' : Match(m.timer, m.event)'
    BY <2>1, <2>4, <1>e, <1>n DEF IdsMatch, IdsIssued, Unknown, Numbers
  <2>6. ASSUME NEW o \in Threads, pc'[o] \in {"addTimerIdMapping", "cancelTimer"}
        PROVE  Match(timerId[o], eventId[o])' /\ timerId'[o] < timerIdCounter'
    <3>1. CASE o = th
      BY <3>1, <1>e, <2>1, <1>n DEF Match, Numbers
    <3>2. CASE o # th
      <4>1. eventId[o] # eventId[th]
        BY <3>2, <2>6, <1>e DEF CallsInPhase, Unknown
      <4>2. Match(timerId[o], eventId[o]) /\ timerId[o] < timerIdCounter
        BY <3>2, <2>6, <1>e DEF IdsMatch
      <4> QED BY <4>1, <4>2, <2>4, <1>e, <1>n DEF Numbers
    <3> QED BY <3>1, <3>2
  <2> QED BY <2>3, <2>5, <2>6 DEF IdsMatch
<1>4. PhasesDisjoint'
  BY <1>e DEF PhasesDisjoint, CancelIsFinal, Firing, CallsInPhase, Unknown
<1>5. CallsInPhase'
  <2>1. \A e : Unknown(e)' = Unknown(e)
    BY <1>e DEF Unknown
  <2>2. [timer |-> timerId'[th], event |-> eventId'[th]] \in timers'
    BY <1>e
  <2>3. ASSUME NEW o \in Threads \ {th}, pc'[o] \in {"registerTimer", "addTimerIdMapping"}
        PROVE  eventId'[o] # eventId'[th] /\ pc[o] = pc'[o] /\ Unknown(eventId[o])'
    BY <1>e, <2>3, <2>1 DEF CallsInPhase
  <2>4. \A o \in Threads : pc'[o] = "registerTimer" =>
          Unknown(eventId[o])' /\ ~Pending(eventId[o])' /\ ~Firing(eventId[o])'
    BY <1>e, <2>3 DEF CallsInPhase, Pending, Firing
  <2>5. \A o \in Threads : pc'[o] = "addTimerIdMapping" =>
          /\ Unknown(eventId[o])'
          /\ \/ \E t \in timers' : t.timer = timerId'[o] /\ t.event = eventId'[o]
             \/ Firing(eventId[o])'
             \/ firing' = "terminated"
    BY <1>e, <2>1, <2>2 DEF CallsInPhase, Firing
  <2>6. \A o, q \in Threads :
          /\ o # q
          /\ pc'[o] \in {"registerTimer", "addTimerIdMapping"}
          /\ pc'[q] \in {"registerTimer", "addTimerIdMapping"}
          => eventId'[o] # eventId'[q]
    BY <1>e DEF CallsInPhase
  <2>7. \A o \in Threads :
          /\ pc'[o] \in {"cancelTimer", "removeTimerIdMapping"} => eventId'[o] \in known'
          /\ pc'[o] = "removeTimerIdMapping" => eventId'[o] \in cancelled'
    BY <1>e DEF CallsInPhase
  <2> QED BY <2>4, <2>5, <2>6, <2>7 DEF CallsInPhase
<1>6. MappingExact'
  BY <1>e DEF MappingExact
<1> QED BY <1>1, <1>2, <1>3, <1>4, <1>5, <1>6

LEMMA AddTimerIdMappingStep ==
  ASSUME DelayedInv, NEW th \in Threads, AddTimerIdMapping(th), firing # "terminated"
  PROVE  DelayedInv'
<1> USE DEF DelayedInv
<1>e. /\ pc[th] = "addTimerIdMapping" /\ pc'[th] = "idle"
      /\ timerIdMap' = {m \in timerIdMap : m.event # eventId[th]}
                         \cup {[event |-> eventId[th], timer |-> timerId[th]]}
      /\ known' = known \cup {eventId[th]}
      /\ \A o \in Threads \ {th} : pc'[o] = pc[o]
      /\ UNCHANGED <<eventIdCounter, timerIdCounter, timers, eventId, timerId,
                     firing, fired, notified, cancelled, threw>>
  BY DEF AddTimerIdMapping, TypeOK, WithMapping, WithoutKey
<1>1. TypeOK'
  <2>1. eventId[th] \in EventId /\ timerId[th] \in TimerId
    BY <1>e DEF TypeOK, CallsInPhase, Unknown, IdsMatch, EventId, TimerId
  <2>2. [event |-> eventId[th], timer |-> timerId[th]] \in [event : EventId, timer : TimerId]
    BY <2>1
  <2>3. timerIdMap' \in SUBSET [event : EventId, timer : TimerId]
    BY <1>e, <2>2 DEF TypeOK
  <2>4. pc' \in [Threads -> {"idle", "registerTimer", "addTimerIdMapping", "cancelTimer",
                             "removeTimerIdMapping"}]
    BY DEF AddTimerIdMapping, TypeOK
  <2> QED BY <1>e, <2>3, <2>4 DEF TypeOK
<1>2. IdsIssued'
  <2>1. timerId[th] < timerIdCounter /\ eventId[th] < eventIdCounter
    BY <1>e DEF IdsMatch, CallsInPhase, Unknown
  <2> QED BY <1>e, <2>1 DEF IdsIssued
<1>3. IdsMatch'
  BY <1>e DEF IdsMatch, Match
<1>4. PhasesDisjoint'
  BY <1>e DEF PhasesDisjoint, CancelIsFinal, Firing
<1>5. CallsInPhase'
  BY <1>e DEF CallsInPhase, Unknown, Pending, Firing
<1>6. MappingExact'
  <2> SUFFICES ASSUME NEW m \in timerIdMap'
               PROVE  \/ \E t \in timers' : t.timer = m.timer /\ t.event = m.event
                      \/ firing' = "delayedTimerFinished" /\ fired' = m.event
                      \/ \E o \in Threads : pc'[o] = "removeTimerIdMapping" /\ eventId'[o] = m.event
    BY DEF MappingExact
  <2>1. CASE m \in timerIdMap
    BY <2>1, <1>e DEF MappingExact
  <2>2. CASE m = [event |-> eventId[th], timer |-> timerId[th]]
    BY <2>2, <1>e DEF CallsInPhase, Firing
  <2> QED BY <2>1, <2>2, <1>e
<1> QED BY <1>1, <1>2, <1>3, <1>4, <1>5, <1>6

LEMMA GetTimerIdThrowsStep ==
  ASSUME DelayedInv, NEW th \in Threads, NEW e \in known, GetTimerIdThrows(th, e)
  PROVE  DelayedInv'
<1> USE DEF DelayedInv
<1>e. UNCHANGED <<eventIdCounter, timerIdCounter, timers, timerIdMap, pc, eventId,
                     timerId, firing, fired, known, notified, cancelled>>
  BY DEF GetTimerIdThrows
<1>1. TypeOK'
  <2>1. [event |-> e, inFlight |-> th \in Clients /\ firing = "notifying" /\ fired = e]
          \in [event : EventId, inFlight : BOOLEAN]
    BY DEF TypeOK
  <2>2. threw' \in SUBSET [event : EventId, inFlight : BOOLEAN]
    BY <2>1 DEF GetTimerIdThrows, TypeOK
  <2> QED BY <2>2, <1>e DEF TypeOK
<1>2. IdsIssued'
  BY <1>e DEF IdsIssued
<1>3. IdsMatch'
  BY <1>e DEF IdsMatch, Match
<1>4. PhasesDisjoint'
  BY <1>e DEF PhasesDisjoint, CancelIsFinal, Firing
<1>5. CallsInPhase'
  BY <1>e DEF CallsInPhase, Unknown, Pending, Firing
<1>6. MappingExact'
  BY <1>e DEF MappingExact
<1> QED BY <1>1, <1>2, <1>3, <1>4, <1>5, <1>6

LEMMA CancelDelayedEventStep ==
  ASSUME DelayedInv, NEW th \in Threads, NEW e \in known, CancelDelayedEvent(th, e)
  PROVE  DelayedInv'
<1> USE DEF DelayedInv
<1>e. /\ pc[th] = "idle" /\ pc'[th] = "cancelTimer" /\ eventId'[th] = e
      /\ [event |-> e, timer |-> timerId'[th]] \in timerIdMap
      /\ \A o \in Threads \ {th} :
           pc'[o] = pc[o] /\ eventId'[o] = eventId[o] /\ timerId'[o] = timerId[o]
      /\ UNCHANGED <<eventIdCounter, timerIdCounter, timers, timerIdMap, firing,
                     fired, known, notified, cancelled, threw>>
  BY DEF CancelDelayedEvent, TypeOK, MayCall
<1>1. TypeOK'
  BY DEF CancelDelayedEvent, TypeOK, EventId, TimerId
<1>2. IdsIssued'
  BY <1>e DEF IdsIssued
<1>3. IdsMatch'
  BY <1>e DEF IdsMatch, Match, IdsIssued
<1>4. PhasesDisjoint'
  BY <1>e DEF PhasesDisjoint, CancelIsFinal, Firing
<1>5. CallsInPhase'
  BY <1>e DEF CallsInPhase, Unknown, Pending, Firing
<1>6. MappingExact'
  BY <1>e DEF MappingExact
<1> QED BY <1>1, <1>2, <1>3, <1>4, <1>5, <1>6

LEMMA CancelTimerStep ==
  ASSUME DelayedInv, NEW th \in Threads, CancelTimer(th)
  PROVE  DelayedInv'
<1> USE DEF DelayedInv
<1>e. /\ pc[th] = "cancelTimer"
      /\ timers' = {t \in timers : t.timer # timerId[th]}
      /\ \/ /\ pc'[th] = "removeTimerIdMapping"
            /\ \E t \in timers : t.timer = timerId[th]
            /\ cancelled' = cancelled \cup {eventId[th]}
         \/ /\ pc'[th] = "idle"
            /\ timers' = timers
            /\ cancelled' = cancelled
      /\ \A o \in Threads \ {th} : pc'[o] = pc[o]
      /\ UNCHANGED <<eventIdCounter, timerIdCounter, timerIdMap, eventId, timerId,
                     firing, fired, known, notified, threw>>
  BY DEF CancelTimer, TypeOK, Cancels
<1>1. TypeOK'
  <2>1. eventId[th] \in EventId
    BY <1>e DEF CallsInPhase, TypeOK
  <2>2. cancelled' \in SUBSET EventId /\ timers' \in SUBSET [timer : TimerId, event : EventId]
    BY <1>e, <2>1 DEF TypeOK
  <2>3. pc' \in [Threads -> {"idle", "registerTimer", "addTimerIdMapping", "cancelTimer",
                             "removeTimerIdMapping"}]
    BY DEF CancelTimer, TypeOK
  <2> QED BY <1>e, <2>2, <2>3 DEF TypeOK
<1>2. IdsIssued'
  BY <1>e DEF IdsIssued, CallsInPhase
<1>3. IdsMatch'
  BY <1>e DEF IdsMatch, Match
<1>4. PhasesDisjoint'
  <2>1. CASE cancelled' = cancelled
    BY <2>1, <1>e DEF PhasesDisjoint, CancelIsFinal, Firing
  <2>2. CASE /\ \E t \in timers : t.timer = timerId[th]
             /\ cancelled' = cancelled \cup {eventId[th]}
    <3>1. Match(timerId[th], eventId[th])
      BY <1>e DEF IdsMatch
    <3>2. eventId[th] \notin notified /\ ~Firing(eventId[th])
      BY <3>1, <2>2 DEF Match, PhasesDisjoint
    <3>3. \A t \in timers' : t.event # eventId[th]
      BY <3>1, <1>e DEF Match
    <3> QED BY <3>2, <3>3, <1>e DEF PhasesDisjoint, CancelIsFinal, Firing
  <2> QED BY <2>1, <2>2, <1>e
<1>5. CallsInPhase'
  <2>1. eventId[th] \in known /\ Match(timerId[th], eventId[th])
    BY <1>e DEF CallsInPhase, IdsMatch
  <2>2. \A e : Unknown(e) => Unknown(e)'
    BY <2>1, <1>e DEF Unknown
  <2>3. \A o \in Threads : pc'[o] = "registerTimer" =>
          Unknown(eventId[o])' /\ ~Pending(eventId[o])' /\ ~Firing(eventId[o])'
    BY <2>2, <1>e DEF CallsInPhase, Pending, Firing
  <2>4. ASSUME NEW o \in Threads, pc'[o] = "addTimerIdMapping"
        PROVE  /\ Unknown(eventId[o])'
               /\ \/ \E t \in timers' : t.timer = timerId'[o] /\ t.event = eventId'[o]
                  \/ Firing(eventId[o])'
                  \/ firing' = "terminated"
    <3>1. o # th /\ pc[o] = "addTimerIdMapping"
      BY <2>4, <1>e
    <3>2. Unknown(eventId[o]) /\ eventId[o] # eventId[th]
      BY <3>1, <2>1 DEF CallsInPhase, Unknown
    <3>3. \A t \in timers : t.event = eventId[o] => t \in timers'
      BY <3>2, <2>1, <1>e DEF Match
    <3> QED BY <3>1, <3>3, <2>2, <1>e DEF CallsInPhase, Firing
  <2>5. \A o \in Threads :
          /\ pc'[o] \in {"cancelTimer", "removeTimerIdMapping"} => eventId'[o] \in known'
          /\ pc'[o] = "removeTimerIdMapping" => eventId'[o] \in cancelled'
    BY <1>e DEF CallsInPhase
  <2>6. \A o, q \in Threads :
          /\ o # q
          /\ pc'[o] \in {"registerTimer", "addTimerIdMapping"}
          /\ pc'[q] \in {"registerTimer", "addTimerIdMapping"}
          => eventId'[o] # eventId'[q]
    BY <1>e DEF CallsInPhase
  <2> QED BY <2>3, <2>4, <2>5, <2>6 DEF CallsInPhase
<1>6. MappingExact'
  BY <1>e DEF MappingExact, IdsMatch, Match
<1> QED BY <1>1, <1>2, <1>3, <1>4, <1>5, <1>6

LEMMA RemoveTimerIdMappingStep ==
  ASSUME DelayedInv, NEW th \in Threads, RemoveTimerIdMapping(th)
  PROVE  DelayedInv'
<1> USE DEF DelayedInv
<1>e. /\ pc[th] = "removeTimerIdMapping" /\ pc'[th] = "idle"
      /\ timerIdMap' = {m \in timerIdMap : m.event # eventId[th]}
      /\ \A o \in Threads \ {th} : pc'[o] = pc[o]
      /\ UNCHANGED <<eventIdCounter, timerIdCounter, timers, eventId, timerId,
                     firing, fired, known, notified, cancelled>>
  BY DEF RemoveTimerIdMapping, TypeOK, WithoutKey, Mapped
<1>1. TypeOK'
  <2> DEFINE x == [event |-> eventId[th], inFlight |-> FALSE]
  <2>1. eventId[th] \in EventId
    BY <1>e DEF CallsInPhase, TypeOK
  <2>2. x \in [event : EventId, inFlight : BOOLEAN]
    BY <2>1
  <2>3. threw' = threw \/ threw' = threw \cup {x}
    BY DEF RemoveTimerIdMapping
  <2> HIDE DEF x
  <2>4. threw' \in SUBSET [event : EventId, inFlight : BOOLEAN]
    BY <2>2, <2>3 DEF TypeOK
  <2>5. pc' \in [Threads -> {"idle", "registerTimer", "addTimerIdMapping", "cancelTimer",
                             "removeTimerIdMapping"}]
    BY DEF RemoveTimerIdMapping, TypeOK
  <2> QED BY <1>e, <2>4, <2>5 DEF TypeOK
<1>2. IdsIssued'
  BY <1>e DEF IdsIssued
<1>3. IdsMatch'
  BY <1>e DEF IdsMatch, Match
<1>4. PhasesDisjoint'
  BY <1>e DEF PhasesDisjoint, CancelIsFinal, Firing
<1>5. CallsInPhase'
  BY <1>e DEF CallsInPhase, Unknown, Pending, Firing
<1>6. MappingExact'
  BY <1>e DEF MappingExact
<1> QED BY <1>1, <1>2, <1>3, <1>4, <1>5, <1>6

LEMMA TimerFiresStep ==
  ASSUME DelayedInv, TimerFires
  PROVE  DelayedInv'
<1> USE DEF DelayedInv
<1>e. /\ firing = "waiting" /\ firing' = "delayedTimerFinished"
      /\ \E t \in timers : timers' = timers \ {t} /\ fired' = t.event
      /\ UNCHANGED <<eventIdCounter, timerIdCounter, timerIdMap, pc, eventId,
                     timerId, known, notified, cancelled, threw>>
  BY DEF TimerFires
<1>1. TypeOK'
  BY DEF TimerFires, TypeOK, EventId
<1>2. IdsIssued'
  BY <1>e DEF IdsIssued
<1>3. IdsMatch'
  BY <1>e DEF IdsMatch, Match
<1>4. PhasesDisjoint'
  <2>1. PICK t \in timers : timers' = timers \ {t} /\ fired' = t.event
    BY <1>e
  <2>2. \A u \in timers' : u.event # t.event
    BY <2>1 DEF IdsMatch
  <2> QED BY <2>2, <1>e DEF PhasesDisjoint, CancelIsFinal, Firing
<1>5. CallsInPhase'
  BY <1>e DEF CallsInPhase, Unknown, Pending, Firing
<1>6. MappingExact'
  BY <1>e DEF MappingExact
<1> QED BY <1>1, <1>2, <1>3, <1>4, <1>5, <1>6

LEMMA DelayedTimerFinishedStep ==
  ASSUME DelayedInv, DelayedTimerFinished
  PROVE  DelayedInv'
<1> USE DEF DelayedInv
<1>e. /\ firing = "delayedTimerFinished" /\ firing' \in {"notifying", "terminated"}
      /\ timerIdMap' = {m \in timerIdMap : m.event # fired}
      /\ \/ notified' = notified /\ firing' = "terminated"
         \/ notified' = notified \cup {fired} /\ Mapped(fired) /\ firing' = "notifying"
      /\ UNCHANGED <<eventIdCounter, timerIdCounter, timers, pc, eventId, timerId,
                     fired, known, cancelled, threw>>
  BY DEF DelayedTimerFinished, WithoutKey, Mapped
<1>1. TypeOK'
  BY DEF DelayedTimerFinished, TypeOK, WithoutKey, Mapped
<1>2. IdsIssued'
  BY <1>e DEF IdsIssued
<1>3. IdsMatch'
  BY <1>e DEF IdsMatch, Match
<1>4. PhasesDisjoint'
  BY <1>e DEF PhasesDisjoint, CancelIsFinal, Firing
<1>5. CallsInPhase'
  <2>1. CASE notified' = notified /\ firing' = "terminated"
    BY <2>1, <1>e DEF CallsInPhase, Unknown, Pending, Firing
  <2>2. CASE notified' = notified \cup {fired} /\ Mapped(fired) /\ firing' # "terminated"
    <3>1. fired \in known
      BY <2>2 DEF Mapped, IdsIssued
    <3>2. \A e : Unknown(e) => Unknown(e)' /\ ~Firing(e)
      BY <3>1, <1>e DEF Unknown, Firing
    <3> QED BY <3>2, <1>e DEF CallsInPhase, Pending, Firing
  <2> QED BY <2>1, <2>2, <1>e
<1>6. MappingExact'
  BY <1>e DEF MappingExact
<1> QED BY <1>1, <1>2, <1>3, <1>4, <1>5, <1>6

LEMMA NotifySubscribersReturnsStep ==
  ASSUME DelayedInv, NotifySubscribersReturns
  PROVE  DelayedInv'
<1> USE DEF DelayedInv
<1>e. /\ firing \in {"notifying", "notifyingInstant"} /\ firing' = "waiting"
      /\ UNCHANGED <<eventIdCounter, timerIdCounter, timers, timerIdMap, pc, eventId,
                     timerId, fired, known, notified, cancelled, threw>>
  BY DEF NotifySubscribersReturns
<1>1. TypeOK'
  BY DEF NotifySubscribersReturns, TypeOK
<1>2. IdsIssued'
  BY <1>e DEF IdsIssued
<1>3. IdsMatch'
  BY <1>e DEF IdsMatch, Match
<1>4. PhasesDisjoint'
  BY <1>e DEF PhasesDisjoint, CancelIsFinal, Firing
<1>5. CallsInPhase'
  BY <1>e DEF CallsInPhase, Unknown, Pending, Firing
<1>6. MappingExact'
  BY <1>e DEF MappingExact
<1> QED BY <1>1, <1>2, <1>3, <1>4, <1>5, <1>6

LEMMA InstantTimerFiresStep ==
  ASSUME DelayedInv, InstantTimerFires
  PROVE  DelayedInv'
<1> USE DEF DelayedInv
<1>e. /\ firing = "waiting" /\ firing' = "notifyingInstant"
      /\ UNCHANGED <<eventIdCounter, timerIdCounter, timers, timerIdMap, pc, eventId,
                     timerId, fired, known, notified, cancelled, threw>>
  BY DEF InstantTimerFires
<1>1. TypeOK'
  BY DEF InstantTimerFires, TypeOK
<1>2. IdsIssued'
  BY <1>e DEF IdsIssued
<1>3. IdsMatch'
  BY <1>e DEF IdsMatch, Match
<1>4. PhasesDisjoint'
  BY <1>e DEF PhasesDisjoint, CancelIsFinal, Firing
<1>5. CallsInPhase'
  BY <1>e DEF CallsInPhase, Unknown, Pending, Firing
<1>6. MappingExact'
  BY <1>e DEF MappingExact
<1> QED BY <1>1, <1>2, <1>3, <1>4, <1>5, <1>6

-----------------------------------------------------------------------------
(* The theorems.                                                           *)

LEMMA InitInv == Init => DelayedInv
<1> SUFFICES ASSUME Init PROVE DelayedInv
  OBVIOUS
<1>1. TypeOK
  BY DEF Init, TypeOK
<1>2. IdsIssued /\ IdsMatch /\ PhasesDisjoint /\ CallsInPhase /\ MappingExact
  BY DEF Init, IdsIssued, IdsMatch, Match, PhasesDisjoint, CancelIsFinal, CallsInPhase,
         MappingExact
<1> QED BY <1>1, <1>2 DEF DelayedInv

LEMMA NextKeepsInv == DelayedInv /\ [Next]_vars => DelayedInv'
<1> SUFFICES ASSUME DelayedInv, [Next]_vars PROVE DelayedInv'
  OBVIOUS
<1>1. CASE UNCHANGED vars
  BY <1>1 DEF vars, DelayedInv, TypeOK, IdsIssued, IdsMatch, Match, PhasesDisjoint,
     Firing,
              CancelIsFinal, CallsInPhase, Unknown, Pending, MappingExact
<1>2. CASE Next
  <2>1. ASSUME NEW th \in Threads, Begin(th) PROVE DelayedInv'
    BY <2>1, PublishDelayedEventStep, GetTimerIdThrowsStep,
       CancelDelayedEventStep DEF Begin
  <2>2. ASSUME NEW th \in Threads, Continue(th) PROVE DelayedInv'
    BY <1>2, <2>2, RegisterTimerStep, AddTimerIdMappingStep, CancelTimerStep,
       RemoveTimerIdMappingStep DEF Continue, Next
  <2> QED BY <1>2, <2>1, <2>2, TimerFiresStep, DelayedTimerFinishedStep,
             NotifySubscribersReturnsStep, InstantTimerFiresStep DEF Next
<1> QED BY <1>1, <1>2

(* Whatever the threads do, the variables keep their types.                *)
THEOREM TypesOK == Spec => []TypeOK
<1>1. DelayedInv => TypeOK
  BY DEF DelayedInv
<1> QED BY InitInv, NextKeepsInv, <1>1, PTL DEF Spec

(* A successful cancelDelayedEvent is final for every set of callers: the  *)
(* event never reaches a subscriber.                                       *)
THEOREM CancelledNeverNotified == Spec => []CancelIsFinal
<1>1. DelayedInv => CancelIsFinal
  BY DEF DelayedInv, PhasesDisjoint
<1> QED BY InitInv, NextKeepsInv, <1>1, PTL DEF Spec

(* timerIdMap_ never leads to another event's timer and holds no entry     *)
(* that nobody will remove.                                                *)
THEOREM MappingIsExact == Spec => []MappingExact
<1>1. DelayedInv => MappingExact
  BY DEF DelayedInv
<1> QED BY InitInv, NextKeepsInv, <1>1, PTL DEF Spec

LEMMA GapInit == Init => GapInv
BY DEF Init, GapInv, ThrowsOnlyInTheGap, Threads

LEMMA GapStep ==
  ASSUME DelayedInv, GapInv, [Next]_vars
  PROVE  GapInv'
<1>0. /\ \A c \in Clients \ Publishers : pc[c] \notin {"registerTimer", "addTimerIdMapping"}
      /\ firing \in {"waiting", "delayedTimerFinished"} => pc[TimerThread] = "idle"
  BY DEF GapInv
<1>1. CASE UNCHANGED vars
  BY <1>1 DEF vars, GapInv, ThrowsOnlyInTheGap, Mapped, InGap
<1>2. ASSUME NEW th \in Threads, PublishDelayedEvent(th), firing # "terminated"
      PROVE  GapInv'
  <2>1. /\ th \in Publishers \cup {TimerThread} /\ pc[th] = "idle"
        /\ pc'[th] = "registerTimer"
        /\ \A o \in Threads \ {th} : pc'[o] = pc[o] /\ eventId'[o] = eventId[o]
        /\ th = TimerThread => firing \in {"notifying", "notifyingInstant"}
        /\ UNCHANGED <<timers, timerIdMap, firing, fired>>
    BY <1>2 DEF PublishDelayedEvent, MayCall, DelayedInv, TypeOK
  <2>2. \A o \in Threads : \A e : InGap(o, e) => InGap(o, e)'
    BY <2>1 DEF InGap
  <2>3. \A e : Mapped(e)' = Mapped(e)
    BY <2>1 DEF Mapped
  <2> QED BY <1>0, <1>2, <2>1, <2>2, <2>3 DEF GapInv, ThrowsOnlyInTheGap, Threads
<1>3. ASSUME NEW th \in Threads, RegisterTimer(th), firing # "terminated" PROVE GapInv'
  <2>1. /\ pc[th] = "registerTimer" /\ pc'[th] = "addTimerIdMapping"
        /\ \A o \in Threads \ {th} : pc'[o] = pc[o]
        /\ UNCHANGED <<timerIdMap, firing, fired, eventId>>
        /\ \A t \in timers' : t \in timers \/ t.event = eventId[th]
    BY <1>3 DEF RegisterTimer, DelayedInv, TypeOK
  <2>2. \A o \in Threads : \A e : InGap(o, e) => InGap(o, e)'
    BY <2>1 DEF InGap
  <2>3. \A e : Mapped(e)' = Mapped(e)
    BY <2>1 DEF Mapped
  <2>4. InGap(th, eventId[th])'
    BY <2>1 DEF InGap
  <2> QED BY <1>0, <1>3, <2>1, <2>2, <2>3, <2>4 DEF GapInv, ThrowsOnlyInTheGap, Threads
<1>4. ASSUME NEW th \in Threads, AddTimerIdMapping(th), firing # "terminated" PROVE GapInv'
  <2> DEFINE n == [event |-> eventId[th], timer |-> timerId[th]]
  <2>1. /\ timerIdMap' = {m \in timerIdMap : m.event # n.event} \cup {n}
        /\ n.event = eventId[th]
    BY <1>4 DEF AddTimerIdMapping, WithMapping, WithoutKey
  <2> HIDE DEF n
  <2>2. \A e : Mapped(e) \/ e = eventId[th] => Mapped(e)'
    BY <2>1 DEF Mapped
  <2>3. /\ pc'[th] = "idle" /\ \A o \in Threads \ {th} : pc'[o] = pc[o]
        /\ UNCHANGED <<timers, eventId, firing, fired>>
    BY <1>4 DEF AddTimerIdMapping, DelayedInv, TypeOK
  <2>4. \A o \in Threads : \A e : InGap(o, e) => InGap(o, e)' \/ Mapped(e)'
    BY <2>2, <2>3 DEF InGap
  <2> QED BY <1>0, <1>4, <2>2, <2>3, <2>4 DEF GapInv, ThrowsOnlyInTheGap, Threads
<1>5. ASSUME NEW th \in Threads, NEW e \in known, GetTimerIdThrows(th, e) PROVE GapInv'
  BY <1>5 DEF GetTimerIdThrows, GapInv, ThrowsOnlyInTheGap, Mapped, InGap
<1>6. ASSUME NEW th \in Threads, NEW e \in known, CancelDelayedEvent(th, e),
             firing # "terminated"
      PROVE  GapInv'
  <2>1. /\ pc[th] = "idle" /\ pc'[th] = "cancelTimer"
        /\ \A o \in Threads \ {th} : pc'[o] = pc[o] /\ eventId'[o] = eventId[o]
        /\ th = TimerThread => firing \in {"notifying", "notifyingInstant"}
        /\ UNCHANGED <<timers, timerIdMap, firing, fired>>
    BY <1>6 DEF CancelDelayedEvent, MayCall, DelayedInv, TypeOK
  <2>2. \A o \in Threads : \A x : InGap(o, x) => InGap(o, x)'
    BY <2>1 DEF InGap
  <2>3. \A x : Mapped(x)' = Mapped(x)
    BY <2>1 DEF Mapped
  <2> QED BY <1>0, <1>6, <2>1, <2>2, <2>3 DEF GapInv, ThrowsOnlyInTheGap, Threads
<1>7. ASSUME NEW th \in Threads, CancelTimer(th), firing # "terminated" PROVE GapInv'
  <2>1. /\ pc[th] = "cancelTimer" /\ pc'[th] \in {"idle", "removeTimerIdMapping"}
        /\ \A o \in Threads \ {th} : pc'[o] = pc[o]
        /\ timers' \subseteq timers
        /\ UNCHANGED <<timerIdMap, eventId, firing, fired>>
    BY <1>7 DEF CancelTimer, DelayedInv, TypeOK
  <2>2. \A o \in Threads : \A e : InGap(o, e) => InGap(o, e)'
    BY <2>1 DEF InGap
  <2>3. \A e : Mapped(e)' = Mapped(e)
    BY <2>1 DEF Mapped
  <2> QED BY <1>0, <1>7, <2>1, <2>2, <2>3 DEF GapInv, ThrowsOnlyInTheGap, Threads
<1>8. ASSUME NEW th \in Threads, RemoveTimerIdMapping(th), firing # "terminated"
      PROVE  GapInv'
  <2>1. /\ pc[th] = "removeTimerIdMapping" /\ pc'[th] = "idle"
        /\ \A o \in Threads \ {th} : pc'[o] = pc[o]
        /\ UNCHANGED <<timers, eventId, firing, fired>>
    BY <1>8 DEF RemoveTimerIdMapping, DelayedInv, TypeOK
  <2>2. eventId[th] \in cancelled
    BY <2>1 DEF DelayedInv, CallsInPhase
  <2>3. \A e : Mapped(e) /\ e \notin cancelled => Mapped(e)'
    BY <1>8, <2>2 DEF RemoveTimerIdMapping, Mapped, WithoutKey
  <2>4. \A o \in Threads : \A e : InGap(o, e) => InGap(o, e)'
    BY <2>1 DEF InGap
  <2>5. /\ \A t \in timers : t.event \notin cancelled
        /\ firing = "delayedTimerFinished" => fired \notin cancelled
    BY DEF DelayedInv, PhasesDisjoint
  <2> QED BY <1>0, <1>8, <2>1, <2>3, <2>4, <2>5 DEF GapInv, ThrowsOnlyInTheGap, Threads
<1>9. CASE TimerFires
  <2>1. PICK t \in timers : timers' = timers \ {t} /\ fired' = t.event
    BY <1>9 DEF TimerFires
  <2>2. /\ firing = "waiting" /\ firing' = "delayedTimerFinished"
        /\ UNCHANGED <<timerIdMap, pc, eventId>>
    BY <1>9 DEF TimerFires
  <2>3. /\ \A e : Mapped(e)' = Mapped(e)
        /\ \A o \in Threads : \A e : InGap(o, e)' = InGap(o, e)
    BY <2>2 DEF Mapped, InGap
  <2>4. \A o \in Threads : \A e : InGap(o, e) => o \in Publishers
    BY <1>0, <2>2 DEF InGap, Threads
  <2> QED BY <1>0, <2>1, <2>2, <2>3, <2>4 DEF GapInv, ThrowsOnlyInTheGap
<1>10. CASE DelayedTimerFinished
  <2>1. /\ firing = "delayedTimerFinished"
        /\ UNCHANGED <<timers, pc, eventId, fired>>
        /\ \A e : Mapped(e) /\ e # fired => Mapped(e)'
        /\ \A o \in Threads : \A e : InGap(o, e)' = InGap(o, e)
        /\ \/ firing' = "notifying"
           \/ firing' = "terminated" /\ ~Mapped(fired)
    BY <1>10 DEF DelayedTimerFinished, Mapped, WithoutKey, InGap
  <2>2. \A t \in timers : t.event # fired
    BY <2>1 DEF DelayedInv, PhasesDisjoint, Firing
  <2>3. firing' = "terminated" => ThrowsOnlyInTheGap'
    BY <2>1 DEF GapInv, ThrowsOnlyInTheGap, InGap
  <2> QED BY <1>0, <2>1, <2>2, <2>3 DEF GapInv, ThrowsOnlyInTheGap
<1>11. CASE NotifySubscribersReturns
  <2>1. /\ firing \in {"notifying", "notifyingInstant"} /\ firing' = "waiting"
        /\ pc[TimerThread] = "idle" /\ UNCHANGED <<timers, timerIdMap, pc, eventId, fired>>
    BY <1>11 DEF NotifySubscribersReturns
  <2> QED BY <1>0, <2>1 DEF GapInv, ThrowsOnlyInTheGap, Mapped, InGap
<1>12. CASE InstantTimerFires
  BY <1>12 DEF InstantTimerFires, GapInv, ThrowsOnlyInTheGap, Mapped, InGap
<1>13. [Next]_vars => UNCHANGED vars \/ (Next /\ firing # "terminated")
  BY DEF Next
<1> QED BY <1>1, <1>2, <1>3, <1>4, <1>5, <1>6, <1>7, <1>8, <1>9, <1>10, <1>11, <1>12, <1>13
           DEF Next, Begin, Continue

(* An exception leaves the timer thread in one way only, whoever publishes,*)
(* cancels and queries: a publisher other than the timer thread has        *)
(* registered the timer that fires and not yet mapped it.                  *)
THEOREM ThrowsOnlyInTheGapAlways == Spec => []ThrowsOnlyInTheGap
<1>1. Init => DelayedInv /\ GapInv
  BY InitInv, GapInit
<1>2. (DelayedInv /\ GapInv) /\ [Next]_vars => (DelayedInv /\ GapInv)'
  BY NextKeepsInv, GapStep
<1>3. DelayedInv /\ GapInv => ThrowsOnlyInTheGap
  BY DEF GapInv
<1> QED BY <1>1, <1>2, <1>3, PTL DEF Spec

(* All that run delayed_handlers checks under one name: the types, events  *)
(* and timers paired, and cancellations kept, for any threads and          *)
(* publishers.                                                             *)
THEOREM ConsistentAlways == Spec => []Consistent
<1>1. TypeOK /\ MappingExact /\ CancelIsFinal => Consistent
  BY DEF Consistent
<1> QED BY <1>1, TypesOK, MappingIsExact, CancelledNeverNotified, PTL

=============================================================================
