----------------------------- MODULE SharedWorld ----------------------------
(***************************************************************************)
(* The one WorldState that every session's PacketProcessor writes: the     *)
(* EntityTracker with its reference counts, the buff tokens, and the       *)
(* entity that a session and its bot take for their own character.         *)
(*                                                                         *)
(* The game server tells each session what comes into and goes out of its  *)
(* sight and what happens to what it sees.  Every session has a connection *)
(* and a thread of its own, so that one session may be told the same news  *)
(* long after another.  A packet is handled under the world's mutex, and   *)
(* so is an event by a bot: one step each.                                 *)
(*                                                                         *)
(* The server is external, as far as the packets that are modelled go.  A  *)
(* packet that spawns or ends several things is the sequence of packets    *)
(* that do so one by one: the handlers loop, and no step of a loop throws  *)
(* (part ErrorsExplained of Consistent).                                   *)
(*                                                                         *)
(* An operator Op_Name is Op with one plausible bug and is never used.     *)
(***************************************************************************)
EXTENDS Naturals, Integers, Sequences, FiniteSets

CONSTANTS
  Bots,      \* the sessions, each named as the character it plays
  Others,    \* monsters and the characters of other people
  Tokens,    \* the buffs the server may give, each known by its token
  Nobody,    \* stands for no entity
  MaxShows,  \* bound: how often something comes into a session's sight
  MaxNews,   \* bound: how often a buff begins or ends, or someone dies or
             \* is revived
  MaxWarps   \* bound: how often a character is reset to another place

ASSUME SharedWorldAssumption ==
  /\ IsFiniteSet(Bots) /\ Bots \cap Others = {}
  /\ Nobody \notin Bots \cup Others
  /\ {MaxShows, MaxNews, MaxWarps} \subseteq Nat

Entities == Bots \cup Others

VARIABLES
  \* WorldState and EntityTracker
  entityMap,   \* the entity object tracked under each global id
  entityReferenceCountMap,
  buffTokenMap,\* buffTokenToEntityAndSkillIdMap_, to the entity
  \* per session
  selfEntity,  \* PacketProcessor::selfEntity_, the Self's number or 0
  botSelf,     \* Bot::selfEntity_, the Self's number or 0
  made,        \* how many Self objects the session has created
  queue,       \* events not yet handled
  reply,       \* what the bot has sent and the server has not read
  \* the server
  place,       \* where each bot's character is
  sight,       \* whom each session is shown
  link,        \* packets sent to each session and not read
  holder,      \* who has each buff
  spent,       \* tokens given so far
  dead,        \* who is dead
  left,        \* what is left of the three bounds
  \* history
  missed,      \* entities that changed while a session that was not told
               \* had yet to read that it sees them no more
  lagged,      \* characters that were reset while another session had yet
               \* to read that they had come into its sight
  errors       \* exceptions and null dereferences

world  == <<entityMap, entityReferenceCountMap, buffTokenMap>>
owns   == <<selfEntity, botSelf, made>>
server == <<place, sight, holder, spent, dead, left>>
vars   == <<world, owns, queue, reply, server, link, missed, lagged, errors>>

NoEntity == [kind |-> "none", number |-> 0, buffs |-> {}, dead |-> FALSE]
Tracking(e) == entityMap[e] # NoEntity
Packet(kind, e, buffs, isDead) ==
  [kind |-> kind, of |-> e, buffs |-> buffs, dead |-> isDead]
Event(kind, e) == [kind |-> kind, of |-> e]

(* A session's first character data is on its way: it has joined.          *)
Init ==
  /\ entityMap = [e \in Entities |-> NoEntity]
  /\ entityReferenceCountMap = [e \in Entities |-> 0]
  /\ buffTokenMap = [t \in Tokens |-> Nobody]
  /\ selfEntity = [s \in Bots |-> 0] /\ botSelf = [s \in Bots |-> 0]
  /\ made = [s \in Bots |-> 0]
  /\ queue = <<>> /\ reply = [s \in Bots |-> "joined"]
  /\ place = [s \in Bots |-> "away"] /\ sight = [s \in Bots |-> {}]
  /\ link = [s \in Bots |-> <<>>]
  /\ holder = [t \in Tokens |-> Nobody] /\ spent = {} /\ dead = {}
  /\ left = [shows |-> MaxShows, news |-> MaxNews, warps |-> MaxWarps]
  /\ missed = {} /\ lagged = {} /\ errors = {}

-----------------------------------------------------------------------------
(* WorldState and EntityTracker.                                           *)

(* WorldState::entitySpawned: only the first object is kept, with the      *)
(* tokens of its buffs; the objects of later spawns are dropped.           *)
EntitySpawned(e, object, news) ==
  /\ entityReferenceCountMap' = [entityReferenceCountMap EXCEPT ![e] = @ + 1]
  /\ IF entityReferenceCountMap'[e] <= 1 /\ ~Tracking(e)
       THEN /\ entityMap' = [entityMap EXCEPT ![e] = object]
            /\ buffTokenMap' =
                 [t \in Tokens |-> IF t \in object.buffs /\ buffTokenMap[t] = Nobody
                                   THEN e ELSE buffTokenMap[t]]
       ELSE UNCHANGED <<entityMap, buffTokenMap>>
  /\ queue' = queue \o news

(* WorldState::entityDespawned: the last one to see an entity removes it   *)
(* and its tokens, and EntityDespawned is published.                       *)
EntityDespawned(e, news) ==
  /\ entityReferenceCountMap' = [entityReferenceCountMap EXCEPT ![e] = @ - 1]
  /\ CASE entityReferenceCountMap'[e] # 0 ->
            UNCHANGED <<entityMap, buffTokenMap, errors>> /\ queue' = queue \o news
       [] entityReferenceCountMap'[e] = 0 /\ Tracking(e) ->
            /\ entityMap' = [entityMap EXCEPT ![e] = NoEntity]
            /\ buffTokenMap' = [t \in Tokens |-> IF buffTokenMap[t] = e THEN Nobody
                                                                      ELSE buffTokenMap[t]]
            /\ queue' = Append(queue, Event("EntityDespawned", e)) \o news
            /\ UNCHANGED errors
       [] OTHER -> errors' = errors \cup {"despawn"} /\ UNCHANGED <<entityMap, buffTokenMap, queue>>

(* WorldState::addBuff; a token or a buff that is there stays as it is.    *)
AddBuff(e, t) ==
  IF Tracking(e)
    THEN /\ buffTokenMap' = [buffTokenMap EXCEPT ![t] = IF @ = Nobody THEN e ELSE @]
         /\ entityMap' = [entityMap EXCEPT ![e].buffs = @ \cup {t}]
         /\ UNCHANGED errors
    ELSE errors' = errors \cup {"addBuff"} /\ UNCHANGED <<entityMap, buffTokenMap>>

(* WorldState::removeBuffs for one token.                                  *)
RemoveBuff(t) ==
  LET e == buffTokenMap[t]
  IN  CASE e = Nobody -> UNCHANGED <<entityMap, buffTokenMap, errors>>
        [] e # Nobody /\ Tracking(e) /\ t \in entityMap[e].buffs ->
             /\ buffTokenMap' = [buffTokenMap EXCEPT ![t] = Nobody]
             /\ entityMap' = [entityMap EXCEPT ![e].buffs = @ \ {t}]
             /\ UNCHANGED errors
        [] OTHER -> errors' = errors \cup {"removeBuff"} /\ UNCHANGED <<entityMap, buffTokenMap>>

-----------------------------------------------------------------------------
(* PacketProcessor: what session s does with a packet p.                   *)

(* serverAgentEntitySpawnReceived, serverAgentEntityGroupSpawnDataReceived.*)
SpawnReceived(s, p) ==
  /\ EntitySpawned(p.of, [kind |-> IF p.of \in Bots THEN "Player" ELSE "other", number |-> 0,
                          buffs |-> p.buffs, dead |-> p.dead], <<>>)
  /\ UNCHANGED <<owns, errors>>

(* entityDespawned: one that is not tracked is only warned of.             *)
DespawnReceived_Forces(s, p) ==
  /\ entityMap' = [entityMap EXCEPT ![p.of] = NoEntity]
  /\ entityReferenceCountMap' = [entityReferenceCountMap EXCEPT ![p.of] = 0]
  /\ buffTokenMap' = [t \in Tokens |-> IF buffTokenMap[t] = p.of THEN Nobody ELSE buffTokenMap[t]]
  /\ queue' = Append(queue, Event("EntityDespawned", p.of))
  /\ UNCHANGED <<owns, errors>>

DespawnReceived(s, p) ==
  /\ IF Tracking(p.of) THEN EntityDespawned(p.of, <<>>)
                       ELSE UNCHANGED <<world, queue, errors>>
  /\ UNCHANGED owns

(* serverAgentCharacterDataReceived: getEntity gives the object that is    *)
(* tracked, new or not, and nothing when that is no Self; then the process *)
(* ends in the next line, before the event is published.                   *)
HasSelf(s) == entityMap'[s].kind = "Self"

CharacterDataReceived_OnlyNew(s, p) ==
  LET new == entityReferenceCountMap[s] = 0
  IN  /\ EntitySpawned(s, [kind |-> "Self", number |-> made[s] + 1, buffs |-> {}, dead |-> p.dead],
                       IF new THEN <<Event("SelfSpawned", s)>> ELSE <<>>)
      /\ made' = [made EXCEPT ![s] = @ + 1]
      /\ selfEntity' = [selfEntity EXCEPT ![s] = entityMap'[s].number]
      /\ errors' = IF HasSelf(s) THEN errors ELSE errors \cup {"nullSelf"}
      /\ UNCHANGED botSelf

CharacterDataReceived(s, p) ==
  /\ EntitySpawned(s, [kind |-> "Self", number |-> made[s] + 1, buffs |-> {}, dead |-> p.dead],
                   IF HasSelf(s) THEN <<Event("SelfSpawned", s)>> ELSE <<>>)
  /\ made' = [made EXCEPT ![s] = @ + 1]
  /\ selfEntity' = [selfEntity EXCEPT ![s] = entityMap'[s].number]
  /\ errors' = IF HasSelf(s) THEN errors ELSE errors \cup {"nullSelf"}
  /\ UNCHANGED botSelf

(* serverAgentGameResetReceived.                                           *)
GameResetReceived(s, p) ==
  /\ EntityDespawned(s, <<Event("GameReset", s)>>)
  /\ selfEntity' = [selfEntity EXCEPT ![s] = 0]
  /\ UNCHANGED <<botSelf, made>>

(* serverAgentBuffAddReceived and serverAgentBuffRemoveReceived.           *)
BuffAddReceived(s, p) ==
  /\ \E t \in p.buffs : AddBuff(p.of, t)
  /\ UNCHANGED <<entityReferenceCountMap, owns, queue>>

BuffRemoveReceived(s, p) ==
  /\ \E t \in p.buffs : RemoveBuff(t)
  /\ UNCHANGED <<entityReferenceCountMap, owns, queue>>

(* serverAgentEntityUpdateStateReceived, of a life state.                  *)
LifeStateReceived_OnlySelf(s, p) ==
  /\ entityMap' = IF p.of = s THEN [entityMap EXCEPT ![s].dead = p.dead] ELSE entityMap
  /\ UNCHANGED <<entityReferenceCountMap, buffTokenMap, owns, queue, errors>>

LifeStateReceived(s, p) ==
  /\ IF Tracking(p.of)
       THEN entityMap' = [entityMap EXCEPT ![p.of].dead = p.dead] /\ UNCHANGED errors
       ELSE errors' = errors \cup {"lifeState"} /\ UNCHANGED entityMap
  /\ UNCHANGED <<entityReferenceCountMap, buffTokenMap, owns, queue>>

(* Proxy and PacketProcessor::handlePacket: the next packet of session s.  *)
Read(s) ==
  /\ link[s] # <<>>
  /\ link' = [link EXCEPT ![s] = Tail(@)]
  /\ LET p == Head(link[s])
     IN  CASE p.kind = "Spawn"         -> SpawnReceived(s, p)
           [] p.kind = "Despawn"       -> DespawnReceived(s, p)
           [] p.kind = "CharacterData" -> CharacterDataReceived(s, p)
           [] p.kind = "GameReset"     -> GameResetReceived(s, p)
           [] p.kind = "BuffAdd"       -> BuffAddReceived(s, p)
           [] p.kind = "BuffRemove"    -> BuffRemoveReceived(s, p)
           [] p.kind = "LifeState"     -> LifeStateReceived(s, p)
  /\ UNCHANGED <<reply, server, missed, lagged>>

-----------------------------------------------------------------------------
(* Bot::handleEvent: every event modelled concerns the one bot it names.   *)

(* handleSelfSpawned; the bot is clientless and answers for the client.    *)
SelfSpawned(b) ==
  IF Tracking(b)
    THEN /\ botSelf' = [botSelf EXCEPT ![b] = entityMap[b].number]
         /\ reply' = [reply EXCEPT ![b] = "gameReady"]
         /\ UNCHANGED errors
    ELSE errors' = errors \cup {"selfSpawned"} /\ UNCHANGED <<botSelf, reply>>

(* handleEntityDespawned.                                                  *)
SelfDespawned(b) ==
  botSelf' = [botSelf EXCEPT ![b] = 0] /\ UNCHANGED <<reply, errors>>

GameReset(b) ==
  reply' = [reply EXCEPT ![b] = "gameResetComplete"] /\ UNCHANGED <<botSelf, errors>>

Handle ==
  /\ queue # <<>>
  /\ queue' = Tail(queue)
  /\ LET e == Head(queue)
     IN  CASE e.kind = "SelfSpawned" -> SelfSpawned(e.of)
           [] e.kind = "GameReset"   -> GameReset(e.of)
           [] e.kind = "EntityDespawned" /\ e.of \in Bots -> SelfDespawned(e.of)
           [] OTHER -> UNCHANGED <<botSelf, reply, errors>>
  /\ UNCHANGED <<world, selfEntity, made, link, server, missed, lagged>>

-----------------------------------------------------------------------------
(* The server (external).                                                  *)

Present(e) == e \in Bots => place[e] = "in"
Audience(e) == {s \in Bots : e \in sight[s] \/ (s = e /\ place[s] = "in")}
BuffsOf(e) == {t \in Tokens : holder[t] = e}
Unread(s, e, kinds) == \E i \in DOMAIN link[s] : link[s][i].of = e /\ link[s][i].kind \in kinds
(* History: e changes while a session that will not be told of it has      *)
(* something about e yet to read, and so keeps the old object tracked; or  *)
(* while its character is between places, when nobody is told.             *)
Missed(e) ==
  IF Present(e) /\ \A s \in Bots \ Audience(e) : ~Unread(s, e, {"Spawn", "Despawn"})
    THEN missed ELSE missed \cup {e}
Told(sessions, p) ==
  [s \in Bots |-> IF s \in sessions THEN Append(link[s], p) ELSE link[s]]
Spend(bound) == left[bound] > 0 /\ left' = [left EXCEPT ![bound] = @ - 1]
client == <<world, owns, queue, errors>>

Show(s, e) ==
  /\ s # e /\ place[s] = "in" /\ Present(e) /\ e \notin sight[s]
  /\ Spend("shows")
  /\ sight' = [sight EXCEPT ![s] = @ \cup {e}]
  /\ link' = Told({s}, Packet("Spawn", e, BuffsOf(e), e \in dead))
  /\ UNCHANGED <<client, reply, place, holder, spent, dead, missed, lagged>>

Hide(s, e) ==
  /\ e \in sight[s]
  /\ sight' = [sight EXCEPT ![s] = @ \ {e}]
  /\ link' = Told({s}, Packet("Despawn", e, {}, FALSE))
  /\ UNCHANGED <<client, reply, place, holder, spent, dead, left, missed, lagged>>

GiveBuff(e, t) ==
  /\ t \notin spent /\ Present(e) /\ Spend("news")
  /\ spent' = spent \cup {t} /\ holder' = [holder EXCEPT ![t] = e]
  /\ link' = Told(Audience(e), Packet("BuffAdd", e, {t}, FALSE))
  /\ missed' = Missed(e)
  /\ UNCHANGED <<client, reply, place, sight, dead, lagged>>

EndBuff(t) ==
  /\ holder[t] # Nobody /\ Spend("news")
  /\ holder' = [holder EXCEPT ![t] = Nobody]
  /\ link' = Told(Audience(holder[t]), Packet("BuffRemove", holder[t], {t}, FALSE))
  /\ missed' = Missed(holder[t])
  /\ UNCHANGED <<client, reply, place, sight, spent, dead, lagged>>

Turn(e) ==
  /\ Present(e) /\ Spend("news")
  /\ dead' = IF e \in dead THEN dead \ {e} ELSE dead \cup {e}
  /\ link' = Told(Audience(e), Packet("LifeState", e, {}, e \notin dead))
  /\ missed' = Missed(e)
  /\ UNCHANGED <<client, reply, place, sight, holder, spent, lagged>>

(* A character is to be elsewhere: nobody is in its sight any more, nor it *)
(* in anybody's, and then it is reset.                                     *)
Warp(b) ==
  /\ place[b] = "in" /\ Spend("warps")
  /\ sight[b] = {} /\ \A s \in Bots : b \notin sight[s]
  /\ place' = [place EXCEPT ![b] = "away"]
  /\ link' = Told({b}, Packet("GameReset", b, {}, FALSE))
  /\ lagged' = IF \E s \in Bots : Unread(s, b, {"Spawn"}) THEN lagged \cup {b} ELSE lagged
  /\ UNCHANGED <<client, reply, sight, holder, spent, dead, missed>>

SendData(b) ==
  /\ place[b] = "away" /\ reply[b] \in {"joined", "gameResetComplete"}
  /\ place' = [place EXCEPT ![b] = "loading"] /\ reply' = [reply EXCEPT ![b] = "none"]
  /\ link' = Told({b}, Packet("CharacterData", b, {}, b \in dead))
  /\ UNCHANGED <<client, sight, holder, spent, dead, left, missed, lagged>>

Arrive(b) ==
  /\ place[b] = "loading" /\ reply[b] = "gameReady"
  /\ place' = [place EXCEPT ![b] = "in"] /\ reply' = [reply EXCEPT ![b] = "none"]
  /\ UNCHANGED <<client, link, sight, holder, spent, dead, left, missed, lagged>>

-----------------------------------------------------------------------------
(* The process runs.                                                       *)
Running == "nullSelf" \notin errors
Serve(b) == SendData(b) \/ Arrive(b)
Step ==
  \/ \E s \in Bots : Read(s) \/ Warp(s) \/ Serve(s)
  \/ \E s \in Bots, e \in Entities : Show(s, e) \/ Hide(s, e)
  \/ \E e \in Entities : Turn(e)
  \/ \E e \in Entities, t \in Tokens : GiveBuff(e, t)
  \/ \E t \in Tokens : EndBuff(t)
  \/ Handle
Next == Running /\ Step

Spec == Init /\ [][Next]_vars
(* Every thread keeps running and the server answers; what the server does *)
(* of its own accord it need not do.                                       *)
FairSpec ==
  /\ Spec /\ WF_vars(Running /\ Handle)
  /\ \A s \in Bots : WF_vars(Running /\ Read(s)) /\ WF_vars(Running /\ Serve(s))

-----------------------------------------------------------------------------
(* Type of the state.                                                      *)
Object == [kind : {"none", "other", "Player", "Self"}, number : 0..(MaxWarps + 1),
           buffs : SUBSET Tokens, dead : BOOLEAN]
PacketType == [kind : {"Spawn", "Despawn", "CharacterData", "GameReset", "BuffAdd",
                       "BuffRemove", "LifeState"},
               of : Entities, buffs : SUBSET Tokens, dead : BOOLEAN]
TypeOK ==
  /\ entityMap \in [Entities -> Object]
  /\ entityReferenceCountMap \in [Entities -> Int]
  /\ buffTokenMap \in [Tokens -> Entities \cup {Nobody}]
  /\ {selfEntity, botSelf, made} \subseteq [Bots -> 0..(MaxWarps + 1)]
  /\ queue \in Seq([kind : {"SelfSpawned", "GameReset", "EntityDespawned"}, of : Entities])
  /\ reply \in [Bots -> {"none", "joined", "gameResetComplete", "gameReady"}]
  /\ place \in [Bots -> {"away", "loading", "in"}]
  /\ sight \in [Bots -> SUBSET Entities]
  /\ link \in [Bots -> Seq(PacketType)]
  /\ holder \in [Tokens -> Entities \cup {Nobody}]
  /\ spent \subseteq Tokens /\ dead \subseteq Entities /\ missed \subseteq Entities
  /\ lagged \subseteq Bots
  /\ left \in [{"shows", "news", "warps"} -> Nat]

(* An entity is tracked while somebody counts on it, and the buff tokens   *)
(* the world keeps are those of the entities it tracks.                    *)
CountsAgree == \A e \in Entities : Tracking(e) <=> entityReferenceCountMap[e] > 0
TokensAgree == \A t \in Tokens, e \in Entities : t \in entityMap[e].buffs <=> buffTokenMap[t] = e

(* No handler throws: whatever a session is told of, it finds, however far *)
(* the others have read.  A null Self is dereferenced, which ends the      *)
(* process, only after a character was reset while another session had yet *)
(* to read that it sees it (packetProcessor.cpp:525-526).                  *)
ErrorsExplained == errors = {} \/ (errors = {"nullSelf"} /\ lagged # {})

(* While a character is in its place, its session's PacketProcessor and    *)
(* its bot both hold the object that is tracked for it, and that is a      *)
(* Self: packets told to the bot and to others change the character the    *)
(* bot acts on (packetProcessor.cpp:525, bot.cpp:543).                     *)
KnowsItself ==
  \A b \in Bots : place[b] = "in" =>
    /\ entityMap[b].kind = "Self"
    /\ selfEntity[b] = entityMap[b].number /\ botSelf[b] = selfEntity[b]

(* Between any two steps, while the process runs.                          *)
Consistent ==
  /\ TypeOK /\ ErrorsExplained
  /\ Running => CountsAgree /\ TokensAgree /\ KnowsItself

(* Once every session has read what it was sent, what is tracked is what   *)
(* somebody sees, alive if it is, and with no buff that it has lost.  What *)
(* changed while a session that was not told still kept it is excepted: a  *)
(* spawn of what is tracked is dropped (entityTracker.cpp:15).  A          *)
(* character may lack buffs it came with, as the code admits               *)
(* (packetProcessor.cpp:456).                                              *)
Settled ==
  Running /\ (\A s \in Bots : link[s] = <<>>) =>
    \A e \in Entities :
      /\ Tracking(e) <=> \/ \E s \in Bots : e \in sight[s]
                         \/ e \in Bots /\ selfEntity[e] # 0
      /\ Tracking(e) /\ e \notin missed =>
           /\ entityMap[e].dead = (e \in dead)
           /\ entityMap[e].buffs \subseteq BuffsOf(e)
           /\ e \in Others => entityMap[e].buffs = BuffsOf(e)

(* A character that is to be elsewhere gets there, with a Self of its own, *)
(* if the process lives.                                                   *)
LoadingEnds ==
  \A b \in Bots : place[b] # "in" ~> ~Running \/ (place[b] = "in" /\ botSelf[b] # 0)

(* Refuted (as an invariant of SharedWorld_two.cfg): no handler throws or  *)
(* dereferences a null pointer.                                            *)
NoErrors == errors = {}

(* Refuted (as an invariant of SharedWorld_two.cfg): the Self a session    *)
(* holds is that of the character data it has just read.                   *)
NewestSelf == \A b \in Bots : selfEntity[b] # 0 => selfEntity[b] = made[b]

(* Refuted (as an invariant of SharedWorld_two.cfg): once every session    *)
(* has read what it was sent, buffs are known as they are; Settled without *)
(* its exception.                                                          *)
NoGhosts ==
  (\A s \in Bots : link[s] = <<>>) =>
    \A e \in Others : Tracking(e) => entityMap[e].buffs = BuffsOf(e)
=============================================================================
