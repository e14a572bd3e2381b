---------------------------- MODULE Subscriptions ----------------------------
(***************************************************************************)
(* Subscribers of bot/src/broker/eventBroker.{hpp,cpp}: subscribeToEvent,  *)
(* unsubscribeFromEvent and notifySubscribers, with subscriptionMutex_,    *)
(* the mutex, caller count and condition variable of each subscription,    *)
(* and worldState_.mutex, which callers hold and handlers take.            *)
(*                                                                         *)
(* Published events wait in a queue: the TimerManager delivers instant     *)
(* events in the order they were published.  Nobody waits while holding    *)
(* the mutex of a subscription, so its critical sections are single steps; *)
(* subscriptionMutex_ is held over several by an unsubscriber that waits.  *)
(* An operator Op_Name is Op with one plausible bug and is never used.     *)
(* BrokerProofs reasons about this module beside TimerManager: a name      *)
(* that both would have is told apart here (Users, Notifier, SubsInit ...).*)
(***************************************************************************)
EXTENDS Integers, Sequences, FiniteSets

CONSTANTS
  Users,          \* threads that subscribe, unsubscribe and publish
  Notifier,       \* the thread that runs the handlers
  NoThread,       \* the owner of a mutex nobody holds
  Codes,          \* event codes
  CallersHold,    \* may a caller hold worldState_.mutex: a subset of BOOLEAN
  HandlersLock,   \* may a handler take worldState_.mutex: a subset of BOOLEAN
  MaxSubscriptions, MaxEvents

ASSUME SubscriptionsAssumption ==
  /\ Notifier \notin Users
  /\ NoThread \notin Users \cup {Notifier}
  /\ CallersHold \subseteq BOOLEAN
  /\ HandlersLock \subseteq BOOLEAN
  /\ MaxSubscriptions \in Nat
  /\ MaxEvents \in Nat

SubscriptionId == 0..(MaxSubscriptions - 1)
EventId == 0..(MaxEvents - 1)
Event == [id : EventId, code : Codes]

VARIABLES
  queue,                  \* events published and not yet taken by the timer thread
  eventCount,             \* events published so far
  subscriptionMap,        \* subscriptionMap_, the subscriptions of each code in order
  subscriptionMasterList, \* subscriptionMasterList_, the subscriptions that exist
  subscriptionCount,      \* subscriptionIdCounter_
  currentCallerCount,     \* currentCallerCount of each subscription
  handlerLocks,           \* whether the handler of each takes worldState_.mutex
  subscriptionMutex,      \* the owner of subscriptionMutex_
  worldMutex,             \* the owner of worldState_.mutex
  pc,                     \* where each client is
  leaving,                \* the subscription a client is unsubscribing from
  notifyPc,               \* where the timer thread is in notifySubscribers
  event,                  \* the event it notifies of
  subscribersToNotify,    \* the subscribers it has yet to call, the current one first
  held,                   \* the subscriptions whose owner has not begun to unsubscribe
  heard                   \* history: the pairs of a subscription and an event it handled

subsVars ==
  <<queue, eventCount, subscriptionMap, subscriptionMasterList, subscriptionCount,
    currentCallerCount, handlerLocks, subscriptionMutex, worldMutex, pc, leaving,
    notifyPc, event, subscribersToNotify, held, heard>>

registry == <<subscriptionMap, subscriptionMasterList, subscriptionCount, handlerLocks>>

ToNotify == {subscribersToNotify[i] : i \in DOMAIN subscribersToNotify}

(* A client between calls holds worldState_.mutex or not; a call returns   *)
(* with it as it found it.                                                 *)
Resting(c) == IF worldMutex = c THEN "holding" ELSE "idle"
AtRest(c) == pc[c] = Resting(c) /\ (worldMutex = c) \in CallersHold

-----------------------------------------------------------------------------

SubsInit ==
  /\ queue = << >>
  /\ eventCount = 0
  /\ subscriptionMap = [code \in Codes |-> << >>]
  /\ subscriptionMasterList = {}
  /\ subscriptionCount = 0
  /\ currentCallerCount = [s \in SubscriptionId |-> 0]
  /\ handlerLocks = [s \in SubscriptionId |-> FALSE]
  /\ subscriptionMutex = NoThread
  /\ worldMutex = NoThread
  /\ pc = [c \in Users |-> "idle"]
  /\ leaving = [c \in Users |-> 0]
  /\ notifyPc = "waiting"
  /\ event \in Event
  /\ event.id = 0
  /\ subscribersToNotify = << >>
  /\ held = {}
  /\ heard = {}

(* A packet thread takes worldState_.mutex (packetProcessor.cpp:166) and   *)
(* gives it back.                                                          *)
LockWorld(c) ==
  /\ pc[c] = "idle"
  /\ TRUE \in CallersHold
  /\ worldMutex = NoThread
  /\ worldMutex' = c
  /\ pc' = [pc EXCEPT ![c] = "holding"]
  /\ UNCHANGED <<queue, eventCount, registry, currentCallerCount, subscriptionMutex,
                 leaving, notifyPc, event, subscribersToNotify, held, heard>>

UnlockWorld(c) ==
  /\ pc[c] = "holding"
  /\ worldMutex' = NoThread
  /\ pc' = [pc EXCEPT ![c] = "idle"]
  /\ UNCHANGED <<queue, eventCount, registry, currentCallerCount, subscriptionMutex,
                 leaving, notifyPc, event, subscribersToNotify, held, heard>>

(* publishEvent                                                            *)
Publish(code) ==
  /\ eventCount < MaxEvents
  /\ queue' = Append(queue, [id |-> eventCount, code |-> code])
  /\ eventCount' = eventCount + 1
  /\ UNCHANGED <<registry, currentCallerCount, subscriptionMutex, worldMutex, pc, leaving,
                 notifyPc, event, subscribersToNotify, held, heard>>

PublishEvent(c, code) == AtRest(c) /\ Publish(code)

SubscribeToEvent(c, code, locks) ==
  LET s == subscriptionCount IN
  /\ AtRest(c)
  /\ subscriptionMutex = NoThread
  /\ subscriptionCount < MaxSubscriptions
  /\ subscriptionCount' = subscriptionCount + 1
  /\ subscriptionMasterList' = subscriptionMasterList \cup {s}
  /\ subscriptionMap' = [subscriptionMap EXCEPT ![code] = Append(@, s)]
  /\ handlerLocks' = [handlerLocks EXCEPT ![s] = locks]
  /\ held' = held \cup {s}
  /\ UNCHANGED <<queue, eventCount, currentCallerCount, subscriptionMutex, worldMutex, pc,
                 leaving, notifyPc, event, subscribersToNotify, heard>>

(* unsubscribeFromEvent.  The owner of a subscription calls it once.       *)
UnsubscribeFromEvent(c, s) ==
  /\ AtRest(c)
  /\ s \in held
  /\ held' = held \ {s}
  /\ leaving' = [leaving EXCEPT ![c] = s]
  /\ pc' = [pc EXCEPT ![c] = "lock"]
  /\ UNCHANGED <<queue, eventCount, registry, currentCallerCount, subscriptionMutex,
                 worldMutex, notifyPc, event, subscribersToNotify, heard>>

LockSubscriptions(c) ==
  /\ pc[c] = "lock"
  /\ subscriptionMutex = NoThread
  /\ subscriptionMutex' = c
  /\ pc' = [pc EXCEPT ![c] = "test"]
  /\ UNCHANGED <<queue, eventCount, registry, currentCallerCount, worldMutex, leaving,
                 notifyPc, event, subscribersToNotify, held, heard>>

(* removeSubscription: the subscription leaves the map and is destroyed.   *)
Unused_Always(s) == TRUE
Unused(s) == currentCallerCount[s] = 0

Place(subscribers, s) == {i \in DOMAIN subscribers : subscribers[i] = s}

(* Erases all that follow too.                                             *)
Erased_ToTheEnd(subscribers, s) ==
  [j \in {k \in DOMAIN subscribers : \A i \in Place(subscribers, s) : k < i} |-> subscribers[j]]

Erased(subscribers, s) ==
  IF Place(subscribers, s) = {} THEN subscribers
  ELSE LET i == CHOOSE i \in Place(subscribers, s) : TRUE
       IN [j \in 1..(Len(subscribers) - 1) |->
             IF j < i THEN subscribers[j] ELSE subscribers[j + 1]]

RemoveSubscription(c) ==
  LET s == leaving[c] IN
  /\ pc[c] = "test"
  /\ Unused(s)
  /\ subscriptionMap' = [code \in Codes |-> Erased(subscriptionMap[code], s)]
  /\ subscriptionMasterList' = subscriptionMasterList \ {s}
  /\ subscriptionMutex' = NoThread
  /\ pc' = [pc EXCEPT ![c] = Resting(c)]
  /\ UNCHANGED <<queue, eventCount, subscriptionCount, handlerLocks, currentCallerCount,
                 worldMutex, leaving, notifyPc, event, subscribersToNotify, held, heard>>

(* Someone is calling it: wait on its condition variable, still holding    *)
(* subscriptionMutex_.                                                     *)
WaitForCallers(c) ==
  /\ pc[c] = "test"
  /\ ~Unused(leaving[c])
  /\ pc' = [pc EXCEPT ![c] = "asleep"]
  /\ UNCHANGED <<queue, eventCount, registry, currentCallerCount, subscriptionMutex,
                 worldMutex, leaving, notifyPc, event, subscribersToNotify, held, heard>>

SpuriousReturn(c) ==
  /\ pc[c] = "asleep"
  /\ pc' = [pc EXCEPT ![c] = "test"]
  /\ UNCHANGED <<queue, eventCount, registry, currentCallerCount, subscriptionMutex,
                 worldMutex, leaving, notifyPc, event, subscribersToNotify, held, heard>>

-----------------------------------------------------------------------------
(* The timer thread.                                                       *)

TimerFinished ==
  /\ notifyPc = "waiting"
  /\ queue # << >>
  /\ event' = Head(queue)
  /\ queue' = Tail(queue)
  /\ notifyPc' = "snapshot"
  /\ UNCHANGED <<eventCount, registry, currentCallerCount, subscriptionMutex, worldMutex,
                 pc, leaving, subscribersToNotify, held, heard>>

(* notifySubscribers copies the subscribers of the code and counts itself  *)
(* as a caller of each, under subscriptionMutex_ ...                       *)
CountedIn_FirstOnly(s, subscribers) ==
  IF subscribers # << >> /\ subscribers[1] = s THEN 1 ELSE 0
CountedIn(s, subscribers) ==
  IF \E i \in DOMAIN subscribers : subscribers[i] = s THEN 1 ELSE 0

SnapshotSubscribers ==
  /\ notifyPc = "snapshot"
  /\ subscriptionMutex = NoThread
  /\ subscribersToNotify' = subscriptionMap[event.code]
  /\ currentCallerCount' =
       [s \in SubscriptionId |->
          currentCallerCount[s] + CountedIn(s, subscriptionMap[event.code])]
  /\ notifyPc' = "next"
  /\ UNCHANGED <<queue, eventCount, registry, subscriptionMutex, worldMutex, pc, leaving,
                 event, held, heard>>

(* ... and then calls them one by one, holding no lock of the broker.      *)
CallHandler ==
  /\ notifyPc = "next"
  /\ subscribersToNotify # << >>
  /\ notifyPc' = IF handlerLocks[Head(subscribersToNotify)] THEN "lockWorld" ELSE "handling"
  /\ UNCHANGED <<queue, eventCount, registry, currentCallerCount, subscriptionMutex,
                 worldMutex, pc, leaving, event, subscribersToNotify, held, heard>>

HandlerLocksWorld ==
  /\ notifyPc = "lockWorld"
  /\ worldMutex = NoThread
  /\ worldMutex' = Notifier
  /\ notifyPc' = "handling"
  /\ UNCHANGED <<queue, eventCount, registry, currentCallerCount, subscriptionMutex,
                 pc, leaving, event, subscribersToNotify, held, heard>>

HandlerPublishes(code) == notifyPc = "handling" /\ Publish(code)

HandlerReturns ==
  /\ notifyPc = "handling"
  /\ heard' = heard \cup {<<Head(subscribersToNotify), event.id>>}
  /\ worldMutex' = IF worldMutex = Notifier THEN NoThread ELSE worldMutex
  /\ notifyPc' = "decrement"
  /\ UNCHANGED <<queue, eventCount, registry, currentCallerCount, subscriptionMutex, pc,
                 leaving, event, subscribersToNotify, held>>

LeavesUnused_Never(s) == FALSE
LeavesUnused(s) == currentCallerCount[s] = 1

DecrementCallerCount ==
  LET s == Head(subscribersToNotify) IN
  /\ notifyPc = "decrement"
  /\ currentCallerCount' = [currentCallerCount EXCEPT ![s] = @ - 1]
  /\ IF LeavesUnused(s)
       THEN notifyPc' = "notify" /\ UNCHANGED subscribersToNotify
       ELSE notifyPc' = "next" /\ subscribersToNotify' = Tail(subscribersToNotify)
  /\ UNCHANGED <<queue, eventCount, registry, subscriptionMutex, worldMutex, pc, leaving,
                 event, held, heard>>

(* conditionVariable.notify_one(), after the mutex of the subscription was *)
(* released.                                                               *)
WakeUnsubscriber ==
  /\ notifyPc = "notify"
  /\ pc' = [c \in Users |->
              IF pc[c] = "asleep" /\ leaving[c] = Head(subscribersToNotify)
                THEN "test" ELSE pc[c]]
  /\ subscribersToNotify' = Tail(subscribersToNotify)
  /\ notifyPc' = "next"
  /\ UNCHANGED <<queue, eventCount, registry, currentCallerCount, subscriptionMutex,
                 worldMutex, leaving, event, held, heard>>

AllNotified ==
  /\ notifyPc = "next"
  /\ subscribersToNotify = << >>
  /\ notifyPc' = "waiting"
  /\ UNCHANGED <<queue, eventCount, registry, currentCallerCount, subscriptionMutex,
                 worldMutex, pc, leaving, event, subscribersToNotify, held, heard>>

-----------------------------------------------------------------------------

NotifySubscribers ==
  \/ TimerFinished \/ SnapshotSubscribers \/ CallHandler \/ HandlerReturns
  \/ DecrementCallerCount \/ WakeUnsubscriber \/ AllNotified

Unsubscribing(c) == LockSubscriptions(c) \/ RemoveSubscription(c) \/ WaitForCallers(c)

Begin(c) ==
  \/ LockWorld(c)
  \/ \E code \in Codes : PublishEvent(c, code)
  \/ \E code \in Codes, locks \in HandlersLock : SubscribeToEvent(c, code, locks)
  \/ \E s \in held : UnsubscribeFromEvent(c, s)

SubsNext ==
  \/ NotifySubscribers
  \/ HandlerLocksWorld
  \/ \E code \in Codes : HandlerPublishes(code)
  \/ \E c \in Users : Begin(c) \/ UnlockWorld(c) \/ Unsubscribing(c) \/ SpuriousReturn(c)

SubsSpec == SubsInit /\ [][SubsNext]_subsVars

(* Threads run; a thread waiting for a mutex that is free again and again  *)
(* gets it in the end; a handler returns; a packet handler gives           *)
(* worldState_.mutex back.                                                 *)
SubsFairSpec ==
  /\ SubsSpec
  /\ WF_subsVars(NotifySubscribers)
  /\ SF_subsVars(SnapshotSubscribers)
  /\ SF_subsVars(HandlerLocksWorld)
  /\ \A c \in Users : /\ WF_subsVars(Unsubscribing(c))
                      /\ SF_subsVars(LockSubscriptions(c))
                      /\ WF_subsVars(UnlockWorld(c))

-----------------------------------------------------------------------------

(* The variables have their types.                                         *)
SubsTypeOK ==
  /\ queue \in Seq(Event)
  /\ eventCount \in 0..MaxEvents
  /\ subscriptionMap \in [Codes -> Seq(SubscriptionId)]
  /\ subscriptionMasterList \in SUBSET SubscriptionId
  /\ subscriptionCount \in 0..MaxSubscriptions
  /\ currentCallerCount \in [SubscriptionId -> 0..1]
  /\ handlerLocks \in [SubscriptionId -> BOOLEAN]
  /\ subscriptionMutex \in Users \cup {NoThread}
  /\ worldMutex \in Users \cup {Notifier, NoThread}
  /\ pc \in [Users -> {"idle", "holding", "lock", "test", "asleep"}]
  /\ leaving \in [Users -> 0..MaxSubscriptions]
  /\ notifyPc \in {"waiting", "snapshot", "next", "lockWorld", "handling", "decrement",
                   "notify"}
  /\ event \in Event
  /\ subscribersToNotify \in Seq(SubscriptionId)
  /\ held \in SUBSET SubscriptionId
  /\ heard \in SUBSET (SubscriptionId \X EventId)

(* The subscriptions the timer thread still counts as its own calls: the   *)
(* current one is no longer counted when its waiters are being notified.   *)
InFlight ==
  IF notifyPc = "notify" THEN ToNotify \ {Head(subscribersToNotify)} ELSE ToNotify

(* Every handler about to be called, or running, belongs to a subscription *)
(* that still exists: unsubscribeFromEvent returns only once no call to    *)
(* its handler can begin or be under way (eventBroker.cpp:112).            *)
NoCallAfterUnsubscribe == InFlight \subseteq subscriptionMasterList

(* A sleeping unsubscriber is never forgotten: its subscription still has  *)
(* a caller, or that caller is about to notify it.                         *)
SleeperWillBeWoken ==
  \A c \in Users : pc[c] = "asleep" =>
    \/ leaving[c] \in InFlight
    \/ notifyPc = "notify" /\ Head(subscribersToNotify) = leaving[c]

(* What holds between any two steps: types, and nobody asleep for ever.    *)
SubsConsistent == SubsTypeOK /\ SleeperWillBeWoken

(* The condition variable the timer thread notifies still exists: "unsub-  *)
(* scribe safely waits for in-flight callbacks (prevents use-after-free)"  *)
(* (docs/state-machines.md:32-33).                                         *)
NotifiesALiveSubscription ==
  notifyPc = "notify" => Head(subscribersToNotify) \in subscriptionMasterList

(* unsubscribeFromEvent returns.                                           *)
UnsubscribeReturns ==
  \A c \in Users : pc[c] = "lock" ~> pc[c] \in {"idle", "holding"}

(* A client in unsubscribeFromEvent that holds worldState_.mutex.          *)
LeavesHoldingWorld == \E c \in Users : worldMutex = c /\ pc[c] \in {"lock", "test", "asleep"}

(* It returns as long as nobody unsubscribes with worldState_.mutex held,  *)
(* whatever handlers do with that mutex.                                   *)
ReturnsUnlessWorldHeld ==
  \A c \in Users : pc[c] = "lock" ~> pc[c] \in {"idle", "holding"} \/ LeavesHoldingWorld

(* A subscriber that stays subscribed hears of every event published after *)
(* it subscribed, as long as nobody unsubscribes with worldState_.mutex    *)
(* held.                                                                   *)
EverySubscriberHears ==
  \A s \in SubscriptionId, e \in EventId :
    (/\ s \in held
     /\ \E i \in DOMAIN queue :
          /\ queue[i].id = e
          /\ \E j \in DOMAIN subscriptionMap[queue[i].code] :
               subscriptionMap[queue[i].code][j] = s)
      ~> (<<s, e>> \in heard \/ s \notin held \/ LeavesHoldingWorld)
=============================================================================
