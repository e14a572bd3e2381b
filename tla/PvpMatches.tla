----------------------------- MODULE PvpMatches -----------------------------
(***************************************************************************)
(* A pair of bots that fight each other over and over: both PvpManagers    *)
(* with their child state machines, TrainingManager's assignment of        *)
(* matches, the events between them, the tracker of the entities that both *)
(* sessions share, and the packets that change what is tracked.            *)
(*                                                                         *)
(* Every event goes to its subscribers one after another on the timer      *)
(* thread; each delivery, and each packet, holds the world's mutex, so one *)
(* step is one of these.  An event is an arrival of the moment it is       *)
(* published, hence the queue; a delayed one joins it when due.            *)
(*                                                                         *)
(* Of the preparation for a match the warp is modelled, and the machines   *)
(* around it by whether they find anything left to wait for.  What an      *)
(* action does is modelled as a hit that may kill.                         *)
(* An operator Op_Name is Op with one plausible bug and is never used.     *)
(***************************************************************************)
EXTENDS Naturals, Sequences, FiniteSets

CONSTANTS
  P1, P2,           \* the characters of one pairing; also their sessions and entities
  Matches,          \* the ids of matches, nextPvpId_ counts modulo this bound
  MaxTimers,        \* bound on the delayed events of a bot
  AtTheSpot,        \* the players that begin where the pairing's fights take place
  OptionAfterDeath  \* whether the server sends a resurrect option after the death

ASSUME PvpMatchesAssumption ==
  /\ P1 # P2 /\ {P1, P2} \cap {"nobody", "TrainingManager"} = {}
  /\ Matches \in Nat \ {0} /\ MaxTimers \in Nat \ {0}
  /\ AtTheSpot \subseteq {P1, P2}
  /\ OptionAfterDeath \in BOOLEAN

Players == {P1, P2}
Nobody == "nobody"
Manager == "TrainingManager"
Opponent(p) == CHOOSE q \in Players : q # p
MatchId == 1..Matches
NoMatch == 0
TimerId == Players \X (1..MaxTimers)
NoTimer == <<>>

VARIABLES
  bots,     \* a record for each player: Bot::selfEntity_ and the PvpManager
  queue,    \* the events published and not yet delivered to every subscriber
  turn,     \* which subscriber the first of them is delivered to next
  timers,   \* the delayed events not yet due
  ready,    \* sessionsReadyForAssignment_
  nextPvpId, \* nextPvpId_
  procSelf, \* whether a session's PacketProcessor has its selfEntity_
  count,    \* entityReferenceCountMap_ of the shared EntityTracker
  life,     \* the life state of each tracked player
  near,     \* whether the tracked position of a player is at its spot
  stage,    \* server: where a player is between two places
  sees,     \* server: the other players it has told each session about
  srvLife,  \* server: who is alive
  news,     \* server: the players whose change of life no session has read yet
  option,   \* server: the players whose resurrect option is on its way
  warpReq,  \* server: the warp requests it has not answered; one of a player between
            \* two places is dropped, two of a player are one
  resReq,   \* server: the same of the resurrect requests of dead players
  hurt,     \* the players that may die
  rested,   \* the players that have nothing but the warp left to prepare
  errors,   \* history: exceptions thrown and null pointers used
  reports   \* history: the final states player 2 has reported of its fight

broker == <<queue, turn, timers>>
world  == <<procSelf, count, life, near>>
server == <<stage, sees, srvLife, news, option, warpReq, resReq, hurt, rested>>
matchesVars == <<bots, broker, ready, nextPvpId, world, server, errors, reports>>

Event(kind, who) == [kind |-> kind, about |-> who]
NullEvent == Event("none", Nobody)
Is(e, kind, who) == e.kind = kind /\ e.about = who

-----------------------------------------------------------------------------
(* What an update of a state machine does: the record it leaves, the       *)
(* events it publishes, the packets it sends, whether it begins a timer,   *)
(* the timers it cancels, whether its action hits the opponent, whether it *)
(* reports a final state, whether the machine is done, what it threw.      *)

Nothing(m) == [m |-> m, out |-> <<>>, sent |-> {}, arm |-> FALSE, cancel |-> {},
               hit |-> FALSE, report |-> FALSE, done |-> FALSE, threw |-> {}]
Throws(m, what) == [Nothing(m) EXCEPT !.threw = {what}]

(* s, computed from what r has left, after r; nothing follows a throw.     *)
Then(r, s) ==
  IF r.threw # {} THEN r
  ELSE [s EXCEPT !.out = r.out \o @, !.sent = @ \cup r.sent, !.arm = @ \/ r.arm,
                 !.cancel = @ \cup r.cancel, !.hit = @ \/ r.hit, !.report = @ \/ r.report]

(* IntelligenceActor::isRelevantEvent, of the events there are here.       *)
Relevant(m, e) ==
  \/ ~m.selfEntity
  \/ e.kind \notin {"ReadyForPvp", "ReadyForAssignment", "BeginPvp", "EntitySpawned",
                    "EntityDespawned", "ResurrectOption", "Timeout"}

(* IntelligenceActor::onUpdate.                                            *)
UpdateActor(b, m, e) ==
  IF ~Relevant(m, e) THEN Nothing(m)
  ELSE IF ~m.selfEntity \/ count[m.foe] = 0 THEN Throws(m, "no observation")
  ELSE IF e.kind = "LifeStateChanged" /\ life[e.about] = "dead" /\ e.about \in {b, m.foe}
       THEN [Nothing(m) EXCEPT !.report = TRUE, !.done = TRUE]
       ELSE [Nothing(m) EXCEPT !.hit = TRUE]

(* The child that is replaced is destroyed: ResurrectInPlace cancels its   *)
(* timer, GmWarpToPosition leaves it behind.                               *)
Destroyed(m) == IF m.child = "resurrect" /\ m.eventId # NoTimer THEN {m.eventId} ELSE {}

StartPvp(b, m, e) ==
  LET fighting == [m EXCEPT !.gotOption = FALSE, !.child = "actor", !.eventId = NoTimer,
                            !.optionAlready = FALSE, !.foe = m.opponent, !.fight = m.descriptor]
  IN IF m.descriptor = NoMatch THEN Throws(m, "no descriptor")
     ELSE IF m.opponent = Nobody
          THEN Throws([m EXCEPT !.gotOption = FALSE], "no opponent to fight")
          ELSE Then([Nothing(fighting) EXCEPT !.cancel = Destroyed(m)],
                    UpdateActor(b, fighting, e))

ResetAndNotifyReadyForAssignment_KeepsReady(b, m) ==
  [Nothing([m EXCEPT !.weAreReady = FALSE, !.published = TRUE])
     EXCEPT !.out = <<Event("ReadyForAssignment", b)>>]
ResetAndNotifyReadyForAssignment(b, m) ==
  [Nothing([m EXCEPT !.weAreReady = FALSE, !.opponentIsReady = FALSE, !.published = TRUE])
     EXCEPT !.out = <<Event("ReadyForAssignment", b)>>]

(* GmWarpToPosition::onUpdate.  A timeout is anybody's, and every warp     *)
(* lands near the spot, so SelfSpawned finds the bot there.                *)
UpdateWarp(m, e) ==
  IF ~m.selfEntity THEN Nothing(m)
  ELSE LET expired == e.kind \in {"Timeout", "WarpRefused"}
           refused == e.kind = "WarpRefused"
       IN IF m.eventId # NoTimer /\ ~expired THEN Nothing(m)
          ELSE [Nothing([m EXCEPT !.eventId = NoTimer]) EXCEPT
                  !.sent = {"warp"}, !.arm = TRUE,
                  !.cancel = IF refused /\ m.eventId # NoTimer THEN {m.eventId} ELSE {}]

(* The sequence of setPrepareForPvpStateMachine, and what PvpManager does  *)
(* once it is done.                                                        *)
UpdatePreparation(b, m, e) ==
  IF ~m.selfEntity \/ ~near[b] THEN UpdateWarp(m, e)
  ELSE IF ~rested[b] THEN Nothing(m)
  ELSE LET done == [m EXCEPT !.child = "none", !.eventId = NoTimer, !.weAreReady = TRUE]
           told == [Nothing(done) EXCEPT !.out = <<Event("ReadyForPvp", b)>>]
       IN IF m.opponentIsReady THEN Then(told, StartPvp(b, done, e)) ELSE told

SetPrepareForPvp(m) == [m EXCEPT !.child = "prepare", !.eventId = NoTimer]

(* ResurrectInPlace::onUpdate.                                             *)
UpdateResurrect(b, m, e) ==
  LET request == [Nothing(m) EXCEPT !.sent = {"resurrect"}, !.arm = TRUE]
      pending == m.eventId # NoTimer
  IN IF pending /\ Is(e, "LifeStateChanged", b) /\ life[b] = "alive"
     THEN [Nothing([m EXCEPT !.eventId = NoTimer]) EXCEPT !.cancel = {m.eventId}, !.done = TRUE]
     ELSE IF \/ pending /\ Is(e, "Timeout", m.eventId)
             \/ ~pending /\ (m.optionAlready \/ Is(e, "ResurrectOption", b))
          THEN request
          ELSE Nothing(m)

(* The rest of PvpManager::onUpdate: the child's turn.                     *)
Delegate(b, m, e) ==
  CASE m.child = "none" -> Nothing(m)
    [] m.child = "prepare" -> UpdatePreparation(b, m, e)
    [] m.child = "actor" ->
         LET r == UpdateActor(b, m, e)
         IN IF r.done THEN Then(r, Throws(r.m, "actor ended by itself")) ELSE r
    [] m.child = "resurrect" ->
         LET r == UpdateResurrect(b, m, e)
             free == [r.m EXCEPT !.child = "none", !.optionAlready = FALSE]
         IN IF ~r.done THEN r
            ELSE IF m.descriptor # NoMatch
                 THEN Then(r, UpdatePreparation(b, SetPrepareForPvp(free), e))
                 ELSE IF ~m.published
                      THEN Then(r, ResetAndNotifyReadyForAssignment(b, free))
                      ELSE Then(r, Nothing(free))

(* The first part of PvpManager::onUpdate, one operator per kind of event; *)
(* a player is in a fight while its child is an IntelligenceActor.         *)
Pvping(m) == m.child = "actor"

OnDespawned(b, m, e) ==
  IF Pvping(m) /\ (m.opponent \in {Nobody, e.about} \/ ~m.selfEntity)
  THEN Throws(m, "despawned in a fight")
  ELSE Delegate(b, [m EXCEPT !.opponent = IF @ = e.about THEN Nobody ELSE @], e)

(* The name compared is that of player 2.                                  *)
OnSpawned(b, m, e) ==
  IF m.descriptor = NoMatch \/ m.opponent # Nobody THEN Delegate(b, m, e)
  ELSE IF count[e.about] = 0 THEN Throws(m, "spawned and gone")
  ELSE Delegate(b, [m EXCEPT !.opponent = IF e.about = P2 THEN P2 ELSE @], e)

(* Our own death replaces whatever the child was.                          *)
Resurrecting(m) ==
  [m EXCEPT !.child = "resurrect", !.eventId = NoTimer, !.optionAlready = m.gotOption,
            !.foe = Nobody, !.fight = NoMatch]

OnOwnDeath(b, m, e) ==
  IF e.about = b THEN Delegate(b, Resurrecting(m), e) ELSE Delegate(b, m, e)

(* Somebody died while we were in a fight: the child reports a last time.  *)
Over(m) == [m EXCEPT !.child = "none", !.foe = Nobody, !.fight = NoMatch, !.descriptor = NoMatch]

LastUpdate_Skipped(b, m, e) == [Nothing(m) EXCEPT !.done = TRUE]
LastUpdate(b, m, e) == UpdateActor(b, m, e)

OnFightEnded(b, m, e) ==
  LET last == LastUpdate(b, m, e)
      over == Over(last.m)
  IN IF m.opponent = Nobody THEN Then(last, Throws(over, "died without opponent"))
     ELSE IF e.about = m.opponent THEN Then(last, ResetAndNotifyReadyForAssignment(b, over))
     ELSE IF ~last.done THEN Then(last, Throws(over, "last state not taken"))
     ELSE Then(last, OnOwnDeath(b, over, e))

OnLifeState(b, m, e) ==
  IF m.child = "resurrect" THEN Delegate(b, m, e)
  ELSE IF count[e.about] = 0 THEN Throws(m, "changed and gone")
  ELSE IF life[e.about] # "dead" THEN Delegate(b, m, e)
  ELSE IF Pvping(m) THEN OnFightEnded(b, m, e)
  ELSE OnOwnDeath(b, m, e)

OnReady_Forgotten(b, m, e) ==
  IF m.opponent # e.about THEN Delegate(b, m, e)
  ELSE IF m.weAreReady THEN StartPvp(b, [m EXCEPT !.opponentIsReady = TRUE], e)
  ELSE Nothing(m)
OnReady(b, m, e) ==
  LET both == [m EXCEPT !.opponentIsReady = TRUE]
  IN IF m.opponent # e.about THEN Delegate(b, m, e)
     ELSE IF m.weAreReady THEN StartPvp(b, both, e)
     ELSE Nothing(both)

(* The option is remembered only by a bot that is already resurrecting.    *)
OnResurrectOption(b, m, e) ==
  IF ~m.selfEntity THEN Throws(m, "option without self")
  ELSE Delegate(b, [m EXCEPT !.gotOption = @ \/ (e.about = b /\ m.child = "resurrect")], e)

OnBegin(b, m, e) ==
  LET told == [m EXCEPT !.descriptor = e.about]
      prepared == [told EXCEPT !.opponent = Opponent(b), !.published = FALSE]
  IN IF ~m.selfEntity THEN Delegate(b, m, e)
     ELSE IF m.descriptor # NoMatch THEN Throws(m, "second descriptor")
     ELSE IF count[Opponent(b)] = 0 THEN Throws(told, "no opponent")
     ELSE IF m.child = "none" THEN UpdatePreparation(b, SetPrepareForPvp(prepared), NullEvent)
     ELSE Delegate(b, prepared, e)

OnUpdate(b, m, e) ==
  IF ~m.initialized
  THEN ResetAndNotifyReadyForAssignment(b, [m EXCEPT !.initialized = TRUE])
  ELSE CASE e.kind = "EntityDespawned" -> OnDespawned(b, m, e)
         [] e.kind = "EntitySpawned" -> OnSpawned(b, m, e)
         [] e.kind = "LifeStateChanged" -> OnLifeState(b, m, e)
         [] e.kind = "ReadyForPvp" -> OnReady(b, m, e)
         [] e.kind = "ResurrectOption" -> OnResurrectOption(b, m, e)
         [] e.kind = "BeginPvp" -> OnBegin(b, m, e)
         [] OTHER -> Delegate(b, m, e)

-----------------------------------------------------------------------------

MatchesInit ==
  /\ bots = [b \in Players |->
       [selfEntity |-> TRUE, initialized |-> FALSE, opponent |-> Nobody, descriptor |-> NoMatch,
        published |-> FALSE, weAreReady |-> FALSE, opponentIsReady |-> FALSE,
        gotOption |-> FALSE, child |-> "none", eventId |-> NoTimer, optionAlready |-> FALSE,
        foe |-> Nobody, fight |-> NoMatch]]
  /\ queue = <<Event("Other", Nobody)>>
  /\ turn = 1
  /\ timers = {}
  /\ ready = <<>>
  /\ nextPvpId = 1
  /\ procSelf = [p \in Players |-> TRUE]
  /\ life = [p \in Players |-> "alive"]
  /\ near = [p \in Players |-> p \in AtTheSpot]
  /\ stage = [p \in Players |-> "in"]
  /\ \/ sees = [s \in Players |-> {}] /\ count = [p \in Players |-> 1]
     \/ sees = [s \in Players |-> {Opponent(s)}] /\ count = [p \in Players |-> 2]
  /\ srvLife = [p \in Players |-> "alive"]
  /\ news = {}
  /\ option = {}
  /\ warpReq = {}
  /\ resReq = {}
  /\ hurt = {}
  /\ rested = [p \in Players |-> TRUE]
  /\ errors = {}
  /\ reports = 0

(* What is published while the first event is delivered goes to the back.  *)
Published(events) == queue \o events

(* The subscribers of an event in the order they subscribed.  After the    *)
(* last the timer thread takes the next event.                             *)
Subscribers(e) ==
  IF e.kind = "ReadyForAssignment" THEN <<Manager, P1, P2>> ELSE <<P1, P2>>
Turn(who) == queue # <<>> /\ Subscribers(Head(queue))[turn] = who
EndTurn(q) ==
  IF turn = Len(Subscribers(Head(queue)))
  THEN queue' = Tail(q) /\ turn' = 1
  ELSE queue' = q /\ turn' = turn + 1

(* TrainingManager::onUpdate and checkAndPublishPvpDescriptors.            *)
WithoutAt(s, i) == SubSeq(s, 1, i - 1) \o SubSeq(s, i + 1, Len(s))
Without(s, x) == WithoutAt(s, CHOOSE k \in DOMAIN s : s[k] = x /\ \A j \in 1..(k - 1) : s[j] # x)
In(x, s) == \E i \in DOMAIN s : s[i] = x

Assign(listed) == Without(Without(listed, P1), P2)

DeliverToTrainingManager ==
  /\ Turn(Manager)
  /\ LET listed == Append(ready, Head(queue).about)
         paired == In(P1, listed) /\ In(P2, listed)
         standing == \A p \in Players : bots[p].selfEntity
     IN /\ nextPvpId' = IF paired THEN (nextPvpId % Matches) + 1 ELSE nextPvpId
        /\ errors' = IF paired /\ ~standing THEN errors \cup {"pairing without self"} ELSE errors
        /\ IF paired /\ standing
           THEN ready' = Assign(listed) /\ EndTurn(Published(<<Event("BeginPvp", nextPvpId)>>))
           ELSE ready' = listed /\ EndTurn(queue)
  /\ UNCHANGED <<bots, timers, world, server, reports>>

(* Bot::handleEvent: what it does itself, then the PvpManager.             *)
SelfTracked(b, e) ==
  LET m == bots[b]
  IN CASE Is(e, "SelfSpawned", b) -> [m EXCEPT !.selfEntity = TRUE]
       [] Is(e, "EntityDespawned", b) -> [m EXCEPT !.selfEntity = FALSE]
       [] OTHER -> m

(* A delayed event that is in the queue can still be cancelled, the one    *)
(* being delivered cannot: cancelDelayedEvent throws.                      *)
Due(t) == \E i \in DOMAIN queue : Is(queue[i], "Timeout", t)
FreeTimers(b) == {t \in {b} \X (1..MaxTimers) : t \notin timers /\ ~Due(t)}
Uncancelled(r) ==
  LET due == {i \in 2..Len(queue) : \E t \in r.cancel : Is(queue[i], "Timeout", t)}
  IN IF due = {} THEN queue ELSE WithoutAt(queue, CHOOSE i \in due : TRUE)
CancelThrows(r) == \E t \in r.cancel : t \notin timers /\ Is(Head(queue), "Timeout", t)

(* Replies of the bot itself to GameReset and SelfSpawned.                 *)
StageAfter(b, e) ==
  CASE Is(e, "GameReset", b) -> "loading"
    [] Is(e, "SelfSpawned", b) -> "in"
    [] OTHER -> stage[b]

DeliverToBot(b) ==
  /\ Turn(b)
  /\ LET e == Head(queue)
         r == OnUpdate(b, SelfTracked(b, e), e)
         t == CHOOSE free \in FreeTimers(b) : TRUE
         kills == r.hit /\ srvLife[b] = "alive" /\ srvLife[r.m.foe] = "alive"
     IN /\ r.arm => FreeTimers(b) # {}
        /\ bots' = [bots EXCEPT ![b] = IF r.arm THEN [r.m EXCEPT !.eventId = t] ELSE r.m]
        /\ EndTurn(Uncancelled(r) \o r.out)
        /\ timers' = (timers \ r.cancel) \cup (IF r.arm THEN {t} ELSE {})
        /\ stage' = [stage EXCEPT ![b] = StageAfter(b, e)]
        /\ warpReq' = IF "warp" \in r.sent /\ stage[b] = "in" THEN warpReq \cup {b} ELSE warpReq
        /\ resReq' = IF "resurrect" \in r.sent /\ srvLife[b] = "dead"
                     THEN resReq \cup {b} ELSE resReq
        /\ hurt' = IF kills THEN hurt \cup {r.m.foe} ELSE hurt
        /\ rested' = [p \in Players |-> rested[p] /\ ~(kills /\ p = r.m.foe)]
        /\ errors' = errors \cup r.threw \cup
                     (IF CancelThrows(r) THEN {"cancelled too late"} ELSE {})
        /\ reports' = IF b # P2 THEN reports
                      ELSE IF r.report THEN reports + 1
                      ELSE IF Pvping(r.m) /\ ~Pvping(bots[b]) THEN 0 ELSE reports
  /\ UNCHANGED <<ready, nextPvpId, world, sees, srvLife, news, option>>

TimerDue(t) ==
  /\ t \in timers
  /\ timers' = timers \ {t}
  /\ queue' = Published(<<Event("Timeout", t)>>)
  /\ UNCHANGED <<bots, turn, ready, nextPvpId, world, server, errors, reports>>

(* The rest of the world publishes events all the time; bounded to when    *)
(* nothing else is to be delivered.                                        *)
OtherEvent ==
  /\ queue = <<>>
  /\ queue' = <<Event("Other", Nobody)>>
  /\ UNCHANGED <<bots, turn, timers, ready, nextPvpId, world, server, errors, reports>>

-----------------------------------------------------------------------------
(* Packets.  A player that warps is first taken out of the others' sight,  *)
(* then told to reset; it enters again once it has said it is ready.       *)

(* WorldState::entitySpawned and entityDespawned: the sessions that see an *)
(* entity are counted, the first and the last publish an event.            *)
Spawned(p) ==
  /\ count' = [count EXCEPT ![p] = @ + 1]
  /\ queue' = IF count[p] = 0 THEN Published(<<Event("EntitySpawned", p)>>) ELSE queue
  /\ life' = IF count[p] = 0 THEN [life EXCEPT ![p] = srvLife[p]] ELSE life
Despawned_Uncounted(p) ==
  /\ count' = [count EXCEPT ![p] = 0]
  /\ queue' = Published(<<Event("EntityDespawned", p)>>)
Despawned(p) ==
  /\ count' = [count EXCEPT ![p] = @ - 1]
  /\ queue' = IF count[p] = 1 THEN Published(<<Event("EntityDespawned", p)>>) ELSE queue

Leave(p) ==
  /\ p \in warpReq
  /\ warpReq' = warpReq \ {p}
  /\ stage' = [stage EXCEPT ![p] = "leaving"]
  /\ UNCHANGED <<bots, broker, ready, nextPvpId, world, sees, srvLife, news, option, resReq,
                 hurt, rested, errors, reports>>

(* The server answers with an error, OperatorRequestError.                 *)
Refuse(p) ==
  /\ p \in warpReq /\ stage[p] = "in"
  /\ warpReq' = warpReq \ {p}
  /\ queue' = Published(<<Event("WarpRefused", p)>>)
  /\ UNCHANGED <<bots, turn, timers, ready, nextPvpId, world, stage, sees, srvLife, news,
                 option, resReq, hurt, rested, errors, reports>>

OutOfSight(s, p) ==
  /\ p \in sees[s] /\ "leaving" \in {stage[p], stage[s]}
  /\ count[p] > 0
  /\ sees' = [sees EXCEPT ![s] = @ \ {p}]
  /\ Despawned(p)
  /\ UNCHANGED <<bots, turn, timers, ready, nextPvpId, procSelf, life, near, stage, srvLife,
                 news, option, warpReq, resReq, hurt, rested, errors, reports>>

(* serverAgentGameResetReceived.                                           *)
GameReset(p) ==
  /\ stage[p] = "leaving" /\ sees[p] = {} /\ \A s \in Players : p \notin sees[s]
  /\ stage' = [stage EXCEPT ![p] = "reset"]
  /\ procSelf' = [procSelf EXCEPT ![p] = FALSE]
  /\ count' = [count EXCEPT ![p] = @ - 1]
  /\ queue' = Published((IF count[p] = 1 THEN <<Event("EntityDespawned", p)>> ELSE <<>>)
                        \o <<Event("GameReset", p)>>)
  /\ UNCHANGED <<bots, turn, timers, ready, nextPvpId, life, near, sees, srvLife, news,
                 option, warpReq, resReq, hurt, rested, errors, reports>>

(* serverAgentCharacterDataReceived, for a player in its new place.        *)
CharacterData(p) ==
  /\ stage[p] = "loading"
  /\ stage' = [stage EXCEPT ![p] = "entering"]
  /\ procSelf' = [procSelf EXCEPT ![p] = TRUE]
  /\ count' = [count EXCEPT ![p] = @ + 1]
  /\ life' = [life EXCEPT ![p] = srvLife[p]]
  /\ near' = [near EXCEPT ![p] = TRUE]
  /\ queue' = Published((IF count[p] = 0 THEN <<Event("EntitySpawned", p)>> ELSE <<>>)
                        \o <<Event("SelfSpawned", p)>>)
  /\ UNCHANGED <<bots, turn, timers, ready, nextPvpId, sees, srvLife, news, option, warpReq,
                 resReq, hurt, rested, errors, reports>>

IntoSight(s, p) ==
  /\ s # p /\ p \notin sees[s]
  /\ \A q \in Players : stage[q] = "in" /\ near[q]
  /\ sees' = [sees EXCEPT ![s] = @ \cup {p}]
  /\ Spawned(p)
  /\ UNCHANGED <<bots, turn, timers, ready, nextPvpId, procSelf, near, stage, srvLife, news,
                 option, warpReq, resReq, hurt, rested, errors, reports>>

(* Bound: a timer that a warp left behind is due before a fight can end.   *)
NoneLeftBehind == \A t \in timers : t = bots[t[1]].eventId

Kill(p) ==
  /\ NoneLeftBehind
  /\ p \in hurt /\ srvLife[p] = "alive" /\ p \notin news /\ stage[p] = "in"
  /\ srvLife' = [srvLife EXCEPT ![p] = "dead"]
  /\ news' = news \cup {p}
  /\ option' = option \cup {p}
  /\ hurt' = hurt \ {p}
  /\ UNCHANGED <<bots, broker, ready, nextPvpId, world, stage, sees, warpReq, resReq, rested,
                 errors, reports>>

(* serverAgentEntityUpdateStateReceived, in the first session to read it.  *)
(* The sessions share the entity: the next one finds the life unchanged,   *)
(* which publishes nothing.  The server changes a life again only after a  *)
(* round trip, when all have read.                                         *)
LifeState(p) ==
  /\ p \in news
  /\ srvLife[p] = "alive" => p \notin option
  /\ news' = news \ {p}
  /\ life' = [life EXCEPT ![p] = srvLife[p]]
  /\ queue' = IF life[p] # srvLife[p] THEN Published(<<Event("LifeStateChanged", p)>>) ELSE queue
  /\ UNCHANGED <<bots, turn, timers, ready, nextPvpId, procSelf, count, near, stage, sees,
                 srvLife, option, warpReq, resReq, hurt, rested, errors, reports>>

(* serverAgentResurrectOptionReceived.                                     *)
ResurrectOption(p) ==
  /\ p \in option
  /\ OptionAfterDeath => p \notin news \/ srvLife[p] = "alive"
  /\ option' = option \ {p}
  /\ queue' = Published(<<Event("ResurrectOption", p)>>)
  /\ UNCHANGED <<bots, turn, timers, ready, nextPvpId, world, stage, sees, srvLife, news,
                 warpReq, resReq, hurt, rested, errors, reports>>

Resurrect(p) ==
  /\ p \in resReq /\ p \notin news
  /\ srvLife' = [srvLife EXCEPT ![p] = "alive"]
  /\ news' = news \cup {p}
  /\ resReq' = resReq \ {p}
  /\ UNCHANGED <<bots, broker, ready, nextPvpId, world, stage, sees, option, warpReq, hurt,
                 rested, errors, reports>>

(* A request is lost.                                                      *)
Lose(p) ==
  /\ p \in warpReq \cup resReq
  /\ warpReq' = warpReq \ {p}
  /\ resReq' = resReq \ {p}
  /\ UNCHANGED <<bots, broker, ready, nextPvpId, world, stage, sees, srvLife, news, option,
                 hurt, rested, errors, reports>>

(* Everything the preparation waits for besides the warp has come; one of  *)
(* its machines, EnsureFullVitalsAndNoStatuses, heals.  The machine hears  *)
(* of it with the next event.                                              *)
Rest(p) ==
  /\ ~rested[p] /\ srvLife[p] = "alive" /\ p \notin news
  /\ bots[p].child = "prepare"
  /\ rested' = [rested EXCEPT ![p] = TRUE]
  /\ hurt' = hurt \ {p}
  /\ UNCHANGED <<bots, broker, ready, nextPvpId, world, stage, sees, srvLife, news, option,
                 warpReq, resReq, errors, reports>>

MatchesNext ==
  \/ DeliverToTrainingManager
  \/ \E b \in Players : DeliverToBot(b)
  \/ \E t \in TimerId : TimerDue(t)
  \/ OtherEvent
  \/ \E p \in Players :
       \/ Leave(p) \/ Refuse(p) \/ GameReset(p) \/ CharacterData(p)
       \/ Kill(p) \/ ResurrectOption(p) \/ LifeState(p) \/ Resurrect(p)
       \/ Lose(p) \/ Rest(p)
  \/ \E s, p \in Players : OutOfSight(s, p) \/ IntoSight(s, p)

MatchesSpec == MatchesInit /\ [][MatchesNext]_matchesVars

(* The timer thread, the packet threads and the server go on; a request    *)
(* that is repeated is not lost for ever.                                  *)
Fairness ==
  /\ WF_matchesVars(DeliverToTrainingManager \/ \E b \in Players : DeliverToBot(b))
  /\ WF_matchesVars(OtherEvent)
  /\ WF_matchesVars(\E t \in TimerId : TimerDue(t))
  /\ WF_matchesVars(\E p \in Players :
       \/ GameReset(p) \/ CharacterData(p) \/ Kill(p) \/ ResurrectOption(p) \/ LifeState(p)
       \/ Rest(p) \/ \E s \in Players : OutOfSight(s, p) \/ IntoSight(s, p))
  /\ SF_matchesVars(\E p \in Players : Leave(p))
  /\ SF_matchesVars(\E p \in Players : Resurrect(p))

MatchesFairSpec == MatchesSpec /\ Fairness

-----------------------------------------------------------------------------
MatchesTypeOK ==
  /\ bots \in [Players -> [selfEntity: BOOLEAN, initialized: BOOLEAN,
       opponent: Players \cup {Nobody}, descriptor: MatchId \cup {NoMatch},
       published: BOOLEAN, weAreReady: BOOLEAN, opponentIsReady: BOOLEAN,
       gotOption: BOOLEAN, child: {"none", "prepare", "resurrect", "actor"},
       eventId: TimerId \cup {NoTimer}, optionAlready: BOOLEAN,
       foe: Players \cup {Nobody}, fight: MatchId \cup {NoMatch}]]
  /\ turn \in 1..3 /\ timers \subseteq TimerId /\ nextPvpId \in MatchId
  /\ \A i \in DOMAIN ready : ready[i] \in Players
  /\ procSelf \in [Players -> BOOLEAN] /\ count \in [Players -> 0..2]
  /\ life \in [Players -> {"alive", "dead"}] /\ srvLife \in [Players -> {"alive", "dead"}]
  /\ near \in [Players -> BOOLEAN] /\ rested \in [Players -> BOOLEAN]
  /\ stage \in [Players -> {"in", "leaving", "reset", "loading", "entering"}]
  /\ sees \in [Players -> SUBSET Players]
  /\ UNION {news, option, warpReq, resReq, hurt} \subseteq Players

(* The entities are counted as often as sessions see them: their own that  *)
(* has its selfEntity_, and those told of them (entityTracker.cpp:10-51).  *)
CountsAgree == \A p \in Players :
  count[p] = Cardinality({s \in Players : p \in sees[s]} \cup {q \in {p} : procSelf[q]})

(* The timeout a resurrection waits for is yet to come.                    *)
TimeoutsCome == \A p \in Players :
  bots[p].child = "resurrect" /\ bots[p].eventId # NoTimer =>
    bots[p].eventId \in timers \/ Due(bots[p].eventId)

(* The opponent a bot keeps is the other player of its pairing, never      *)
(* itself (pvpManager.cpp:87, "Check if this is our opponent").            *)
OpponentIsTheOther ==
  \A p \in Players : bots[p].opponent \in {Nobody, Opponent(p)}

(* A bot fights the other one, in the match it was assigned; the other is  *)
(* ready for it until it has heard of a death, and if it fights it does so *)
(* in the same match, however the reports of being ready, the deaths and   *)
(* the next assignment interleave (pvpManager.cpp:140-192, 317-344).       *)
FightIsMutual ==
  \A p \in Players :
    LET me == bots[p]
        other == bots[Opponent(p)]
    IN /\ me.opponent \in {Nobody, Opponent(p)}
       /\ Pvping(me) =>
            /\ me.foe = Opponent(p) /\ me.fight = me.descriptor
            /\ other.descriptor = me.fight => other.weAreReady
            /\ Pvping(other) => other.fight = me.fight

(* A session asks for an assignment once until it gets one: it is never    *)
(* listed twice, nor listed or about to be while it has a match or one is  *)
(* on its way (trainingManager.cpp:176-181, pvpManager.cpp:338-344).       *)
AssignedOnce ==
  \A p \in Players :
    LET Heard(i) == i = 1 /\ turn = 2 /\ p = P1
        asked == {i \in DOMAIN queue : Is(queue[i], "ReadyForAssignment", p) /\ ~(i = 1 /\ turn > 1)}
        listed == {i \in DOMAIN ready : ready[i] = p}
        begun == {i \in DOMAIN queue : queue[i].kind = "BeginPvp" /\ ~Heard(i)}
        all == ({"asked"} \X asked) \cup ({"listed"} \X listed) \cup ({"begun"} \X begun)
    IN /\ \A a, b \in all : a = b
       /\ bots[p].descriptor # NoMatch => all = {}

(* No update throws or uses a null self, no timer is cancelled too late:   *)
(* Bot::handleEvent would drop the event half handled (bot.cpp:362), and   *)
(* TrainingManager::onUpdate would end the timer thread.                   *)
NoErrors == errors = {}

(* What holds of every state: types, counts, timeouts, one request for an  *)
(* assignment at a time, and no exception so far.                          *)
MatchesConsistent == MatchesTypeOK /\ CountsAgree /\ TimeoutsCome /\ AssignedOnce /\ NoErrors

(* The fight of player 2, whose intelligence learns, reports its final     *)
(* state exactly once before another begins (intelligenceActor.cpp:57-72,  *)
(* pvpManager.cpp:113-119).                                                *)
LastStateReported ==
  [][Pvping(bots[P2]) /\ ~Pvping(bots'[P2]) => reports' = 1]_matchesVars

(* The pair comes to fight every match, again and again: whoever dies is   *)
(* resurrected, both report, are assigned, prepare and find each other.    *)
MatchesKeepComing ==
  \A k \in MatchId : []<>(\A p \in Players : Pvping(bots[p]) /\ bots[p].fight = k)
=============================================================================
