------------------------------ MODULE Sessions ------------------------------
(***************************************************************************)
(* How TrainingManager::createSessions brings up a clientless session for  *)
(* each character: its training thread, every session's Proxy on a thread  *)
(* of its own, the bots with their Login state machines, which the timer   *)
(* thread updates for every event, and the list of shards that all bots    *)
(* share.  The login server is external.                                   *)
(*                                                                         *)
(* The timer thread holds the world's mutex while a bot handles an event,  *)
(* and so does a proxy while a packet is processed; the training thread    *)
(* takes no lock.  An event is therefore delivered to a bot in the steps   *)
(* between which the training thread can be seen: Bot::handleEvent, the    *)
(* update of the Login machine, the update of the PvpManager.              *)
(*                                                                         *)
(* An operator Op_Name is Op with one plausible bug and is never used.     *)
(* TrainingManagerProofs reasons about this module beside ExperienceReplay:*)
(* a name that both would have is told apart here.                         *)
(***************************************************************************)
EXTENDS Naturals, Sequences, FiniteSets

CONSTANTS
  Bots,      \* how many sessions there are; a bot is its session's number
  MayRefuse  \* whether a server may be out of reach or refuse a login

ASSUME SessionsAssumption == Bots \in Nat \ {0} /\ MayRefuse \in BOOLEAN

Bot == 1..Bots

VARIABLES
  pc,        \* training thread: the step of createSessions it is at
  next,      \* training thread: the session its loop has come to
  idsSaved,  \* whether the pairings have the ids of their sessions
  opened,    \* the sessions that subscribe to events
  readyToLogin, \* readyToLoginPromise_: the bots that have set it
  loggedIn,  \* logInPromise_: the bots that have set it
  self,      \* the bots that have their selfEntity_
  login,     \* each bot's loginStateMachine_
  pvpManager, \* each bot's pvpManagerStateMachine_
  shardList, \* whether WorldState::shardListResponse_ has a value
  task,      \* the proxies that have connectClientless posted
  toAgent,   \* connectToAgent_ of each proxy
  conn,      \* the server that serverConnection of each proxy is open to
  injected,  \* injectedClientPacketsForClientless_ of each proxy
  wire,      \* the packets each server has sent and the proxy has not read
  asked,     \* the request each session's server has not answered
  queue,     \* the events not yet delivered to every bot
  turn,      \* the bot to which the first of them is delivered next
  half,      \* how far that delivery is
  lost,      \* history: packets injected while no connection was open
  refused,   \* history: the sessions whose connection or login failed
  errors     \* history: exceptions thrown by bots

thread == <<pc, next, idsSaved>>
bots   == <<readyToLogin, loggedIn, self, login, pvpManager>>
proxy  == <<task, toAgent, conn, injected>>
server == <<wire, asked, refused>>
broker == <<queue, turn, half>>
sessionsVars ==
  <<thread, opened, bots, shardList, proxy, server, broker, lost, errors>>

NoMachine == [made |-> FALSE]
NewLogin  == [made |-> TRUE, waitingOnShardList |-> FALSE, loginRequestSent |-> FALSE,
              token |-> FALSE, spawned |-> FALSE]
Event(kind, b) == [kind |-> kind, of |-> b]

SessionsInit ==
  /\ pc = "connect" /\ next = 1 /\ idsSaved = FALSE
  /\ opened = {} /\ readyToLogin = {} /\ loggedIn = {} /\ self = {}
  /\ login = [b \in Bot |-> NoMachine] /\ pvpManager = [b \in Bot |-> "none"]
  /\ shardList = FALSE
  /\ task = {} /\ toAgent = [b \in Bot |-> FALSE] /\ conn = [b \in Bot |-> "none"]
  /\ injected = [b \in Bot |-> <<>>] /\ wire = [b \in Bot |-> <<>>]
  /\ asked = [b \in Bot |-> "nothing"]
  /\ queue = <<>> /\ turn = 1 /\ half = "handle"
  /\ lost = {} /\ refused = {} /\ errors = {}

-----------------------------------------------------------------------------
(* The training thread.                                                    *)

(* The loop comes to its next session, or ends and the thread goes on.     *)
Advance(after) ==
  IF next < Bots THEN next' = next + 1 /\ pc' = pc ELSE next' = 1 /\ pc' = after

Connect ==
  /\ pc = "connect"
  /\ opened' = opened \cup {next} /\ task' = task \cup {next}
  /\ Advance("await clients")
  /\ UNCHANGED <<idsSaved, bots, shardList, toAgent, conn, injected, server, broker, lost, errors>>

AwaitClients ==
  /\ pc = "await clients" /\ readyToLogin = Bot
  /\ pc' = "log in"
  /\ UNCHANGED <<next, idsSaved, opened, bots, shardList, proxy, server, broker, lost, errors>>

AsyncLogIn ==
  /\ pc = "log in"
  /\ IF next \in self
     THEN errors' = errors \cup {"already logged in"} /\ login' = login
     ELSE login' = [login EXCEPT ![next] = NewLogin] /\ errors' = errors
  /\ Advance("first dummy")
  /\ UNCHANGED <<idsSaved, opened, readyToLogin, loggedIn, self, pvpManager, shardList, proxy, server,
                 broker, lost>>

(* The events that have the new machines updated.                          *)
PublishDummy ==
  /\ \/ pc = "first dummy" /\ pc' = "await logins"
     \/ pc = "second dummy" /\ pc' = "done"
  /\ queue' = Append(queue, Event("Dummy", 0))
  /\ UNCHANGED <<next, idsSaved, opened, bots, shardList, proxy, server, turn, half, lost, errors>>

AwaitLogins_Unchecked ==
  /\ pc = "await logins"
  /\ idsSaved' = TRUE /\ pc' = "stand by"
  /\ UNCHANGED <<next, opened, bots, shardList, proxy, server, broker, lost, errors>>
AwaitLogins ==
  /\ pc = "await logins" /\ loggedIn = Bot
  /\ idsSaved' = TRUE /\ pc' = "stand by"
  /\ UNCHANGED <<next, opened, bots, shardList, proxy, server, broker, lost, errors>>

AsyncStandbyForPvp ==
  /\ pc = "stand by"
  /\ pvpManager' = [pvpManager EXCEPT ![next] = "made"]
  /\ Advance("second dummy")
  /\ UNCHANGED <<idsSaved, opened, readyToLogin, loggedIn, self, login, shardList, proxy, server,
                 broker, lost, errors>>

-----------------------------------------------------------------------------
(* The timer thread.  What Login::onUpdate does with an event: the machine *)
(* it leaves, the packet it injects, whether it is done, what it throws.   *)

Quiet(m) == [m |-> m, send |-> <<>>, done |-> FALSE, threw |-> {}]
Sends(m, p) == [Quiet(m) EXCEPT !.send = <<p>>]

UpdateOwn_KeepsWaiting(m, e) ==
  IF e.kind = "ShardListReceived" /\ ~m.loginRequestSent
  THEN Sends([m EXCEPT !.loginRequestSent = TRUE], "login")
  ELSE IF m.waitingOnShardList THEN Quiet(m)
  ELSE CASE e.kind = "GatewayLoginResponseReceived" -> Quiet([m EXCEPT !.token = TRUE])
         [] e.kind = "ConnectedToAgentServer" /\ m.token -> Sends(m, "auth")
         [] OTHER -> Quiet(m)
UpdateOwn_AuthorizesEarly(m, e) ==
  CASE e.kind = "ShardListReceived" /\ ~m.loginRequestSent ->
         Sends([m EXCEPT !.waitingOnShardList = FALSE, !.loginRequestSent = TRUE], "login")
    [] e.kind = "GatewayLoginResponseReceived" -> Sends([m EXCEPT !.token = TRUE], "auth")
    [] e.kind = "IbuvChallengeReceived" -> Sends(m, "captcha answer")
    [] OTHER -> Quiet(m)
UpdateOwn(m, e) ==
  IF e.kind = "ShardListReceived" /\ ~m.loginRequestSent
  THEN Sends([m EXCEPT !.waitingOnShardList = FALSE, !.loginRequestSent = TRUE], "login")
  ELSE IF m.waitingOnShardList THEN Quiet(m)
  ELSE CASE e.kind = "GatewayLoginResponseReceived" -> Quiet([m EXCEPT !.token = TRUE])
         [] e.kind = "IbuvChallengeReceived" -> Sends(m, "captcha answer")
         [] e.kind = "ConnectedToAgentServer" ->
              IF m.token THEN Sends(m, "auth") ELSE [Quiet(m) EXCEPT !.threw = {"no token"}]
         [] e.kind = "ServerAuthSuccess" -> Sends(m, "list")
         [] e.kind = "CharacterListReceived" -> Sends(m, "join")
         [] e.kind = "SelfSpawned" -> Quiet([m EXCEPT !.spawned = TRUE])
         [] OTHER -> Quiet(m)

(* The change of the own body state is no session's event: it is known by  *)
(* the entity.                                                             *)
UpdateLogin(b, m, e) ==
  IF ~m.waitingOnShardList /\ ~shardList
  THEN Sends([m EXCEPT !.waitingOnShardList = TRUE], "shard list")
  ELSE IF e.of # b THEN Quiet(m)
  ELSE IF e.kind = "EntityBodyStateChanged"
       THEN [Quiet(m) EXCEPT !.done = m.spawned, !.threw = IF m.spawned /\ b \notin self
                                                           THEN {"no self"} ELSE {}]
       ELSE UpdateOwn(m, e)

NextTurn ==
  /\ half' = "handle"
  /\ IF turn < Bots THEN turn' = turn + 1 /\ queue' = queue
                    ELSE turn' = 1 /\ queue' = Tail(queue)

Inject(b, packets) == injected' = [injected EXCEPT ![b] = @ \o packets]

(* Bot::handleEvent, before its call of onUpdate.  A bot that does not     *)
(* subscribe yet has nothing to update.                                    *)
Handle ==
  /\ queue # <<>> /\ half = "handle"
  /\ LET e == Head(queue) b == turn again == e.kind = "GatewayPatchResponseReceived"
                                             /\ e.of = b /\ b \in readyToLogin
     IN /\ IF e.kind = "GatewayPatchResponseReceived" /\ e.of = b
           THEN readyToLogin' = readyToLogin \cup {b} ELSE readyToLogin' = readyToLogin
        /\ errors' = IF again THEN errors \cup {"promise set twice"} ELSE errors
        /\ IF e.kind = "SelfSpawned" /\ e.of = b
           THEN self' = self \cup {b} /\ Inject(b, <<"game ready">>)
           ELSE UNCHANGED <<self, injected>>
        /\ IF again \/ b \notin opened THEN NextTurn
           ELSE half' = "login" /\ UNCHANGED <<queue, turn>>
  /\ UNCHANGED <<thread, opened, loggedIn, login, pvpManager, shardList, task, toAgent, conn, server, lost>>

Update ==
  /\ half = "login"
  /\ LET b == turn m == login[b] r == UpdateLogin(b, m, Head(queue))
     IN IF ~m.made
        THEN /\ half' = "pvp"
             /\ UNCHANGED <<queue, turn, login, loggedIn, injected, errors>>
        ELSE /\ login' = [login EXCEPT ![b] = IF r.done /\ b \in self THEN NoMachine ELSE r.m]
             /\ Inject(b, r.send)
             /\ errors' = errors \cup r.threw
                          \cup (IF r.done /\ b \notin self THEN {"done, not logged in"} ELSE {})
             /\ IF r.done /\ b \in self
                THEN half' = "pvp" /\ loggedIn' = loggedIn \cup {b} /\ UNCHANGED <<queue, turn>>
                ELSE NextTurn /\ loggedIn' = loggedIn
  /\ UNCHANGED <<thread, opened, readyToLogin, self, pvpManager, shardList, task, toAgent, conn, server, lost>>

(* The first update of a PvpManager publishes that it is ready.            *)
UpdatePvp ==
  /\ half = "pvp"
  /\ half' = "handle" /\ turn' = IF turn < Bots THEN turn + 1 ELSE 1
  /\ LET after == IF turn < Bots THEN queue ELSE Tail(queue)
     IN IF pvpManager[turn] = "made"
        THEN /\ pvpManager' = [pvpManager EXCEPT ![turn] = "published"]
             /\ queue' = Append(after, Event("ReadyForAssignment", turn))
        ELSE pvpManager' = pvpManager /\ queue' = after
  /\ UNCHANGED <<thread, opened, readyToLogin, loggedIn, self, login, shardList, proxy, server, lost, errors>>

-----------------------------------------------------------------------------
(* The proxies, whose packets wait while a bot handles an event.           *)

WorldIsFree == half = "handle"

ConnectClientless(s) ==
  /\ s \in task
  /\ task' = task \ {s}
  /\ \/ /\ conn' = [conn EXCEPT ![s] = IF toAgent[s] THEN "agent" ELSE "gateway"]
        /\ wire' = [wire EXCEPT ![s] =
             IF toAgent[s] THEN <<"state request", "identify">> ELSE <<"state request">>]
        /\ asked' = [asked EXCEPT ![s] = "nothing"]
        /\ UNCHANGED refused
     \/ /\ MayRefuse
        /\ refused' = refused \cup {s}
        /\ UNCHANGED <<conn, wire, asked>>
  /\ UNCHANGED <<thread, opened, bots, shardList, toAgent, injected, broker, lost, errors>>

(* An injected packet is forwarded if a connection is open.                *)
ReceiveFromClient(s) ==
  /\ WorldIsFree /\ injected[s] # <<>>
  /\ injected' = [injected EXCEPT ![s] = Tail(@)]
  /\ IF conn[s] = "none"
     THEN lost' = lost \cup {Head(injected[s])} /\ asked' = asked
     ELSE lost' = lost /\ asked' = [asked EXCEPT ![s] = Head(injected[s])]
  /\ UNCHANGED <<thread, opened, bots, shardList, task, toAgent, conn, wire, refused, broker, errors>>

(* What PacketProcessor publishes for a packet; it keeps the shard list.   *)
PublishedFor(packet) ==
  CASE packet = "patched"    -> {"GatewayPatchResponseReceived"}
    [] packet = "shards"     -> {"ShardListReceived"}
    [] packet = "challenge"  -> {"IbuvChallengeReceived"}
    [] packet = "logged in"  -> {"GatewayLoginResponseReceived"}
    [] packet = "identify"   -> {"ConnectedToAgentServer"}
    [] packet = "authorized" -> {"ServerAuthSuccess"}
    [] packet = "characters" -> {"CharacterListReceived"}
    [] packet = "spawned"    -> {"SelfSpawned"}
    [] packet = "body state" -> {"EntityBodyStateChanged"}
    [] OTHER                 -> {}

(* A state request is answered at once, unless the agent server sends it.  *)
(* A successful login closes the connection and has the next one opened    *)
(* once the packet is processed.                                           *)
ReceiveFromServer(s) ==
  /\ WorldIsFree /\ conn[s] # "none" /\ wire[s] # <<>>
  /\ LET packet == Head(wire[s]) success == packet = "logged in"
     IN /\ wire' = [wire EXCEPT ![s] = IF success THEN <<>> ELSE Tail(@)]
        /\ conn' = [conn EXCEPT ![s] = IF success THEN "none" ELSE @]
        /\ toAgent' = [toAgent EXCEPT ![s] = @ \/ success]
        /\ task' = IF success THEN task \cup {s} ELSE task
        /\ asked' = [asked EXCEPT ![s] = IF packet = "state request" /\ ~toAgent[s]
                                         THEN "patch" ELSE @]
        /\ shardList' = (shardList \/ packet = "shards")
        /\ queue' = IF PublishedFor(packet) = {} THEN queue
                    ELSE Append(queue, Event(CHOOSE k \in PublishedFor(packet) : TRUE, s))
  /\ UNCHANGED <<thread, opened, bots, injected, refused, turn, half, lost, errors>>

-----------------------------------------------------------------------------
(* The servers answer what they are asked, and may refuse a login.         *)

Answers(request) ==
  CASE request = "patch"          -> {"patched"}
    [] request = "shard list"     -> {"shards"}
    [] request = "login"          -> {"challenge", "logged in"}
    [] request = "captcha answer" -> {"logged in"}
    [] request = "auth"           -> {"authorized"}
    [] request = "list"           -> {"characters"}
    [] request = "join"           -> {"spawned"}
    [] request = "game ready"     -> {"body state"}
    [] OTHER                      -> {}

Answer(s) ==
  /\ asked' = [asked EXCEPT ![s] = "nothing"]
  /\ \/ /\ \E packet \in Answers(asked[s]) : wire' = [wire EXCEPT ![s] = Append(@, packet)]
        /\ UNCHANGED refused
     \/ /\ MayRefuse /\ asked[s] \in {"login", "captcha answer"}
        /\ refused' = refused \cup {s} /\ wire' = [wire EXCEPT ![s] = Append(@, "login failed")]
  /\ UNCHANGED <<thread, opened, bots, shardList, proxy, broker, lost, errors>>

-----------------------------------------------------------------------------
Thread  == Connect \/ AwaitClients \/ AsyncLogIn \/ PublishDummy \/ AwaitLogins \/ AsyncStandbyForPvp
Deliver == Handle \/ Update \/ UpdatePvp
Proxy(s) == ConnectClientless(s) \/ ReceiveFromClient(s) \/ ReceiveFromServer(s)

SessionsNext == Thread \/ Deliver \/ \E s \in Bot : Proxy(s) \/ Answer(s)

SessionsSpec == SessionsInit /\ [][SessionsNext]_sessionsVars

(* Every thread that can run does, and the servers answer or refuse.       *)
SessionsFairSpec ==
  /\ SessionsSpec /\ WF_sessionsVars(Thread) /\ WF_sessionsVars(Deliver)
  /\ \A s \in Bot : WF_sessionsVars(Proxy(s)) /\ WF_sessionsVars(Answer(s))

-----------------------------------------------------------------------------
Kinds == {"Dummy", "ReadyForAssignment"} \cup
         UNION {PublishedFor(p) : p \in {"patched", "shards", "challenge", "logged in", "identify",
                                         "authorized", "characters", "spawned", "body state"}}
Packets == {"patch", "shard list", "login", "captcha answer", "auth", "list", "join", "game ready"}

(* The variables have the types their declarations give them.              *)
SessionsTypeOK ==
  /\ next \in Bot /\ opened \subseteq Bot /\ turn \in Bot
  /\ readyToLogin \cup loggedIn \cup self \cup task \cup refused \subseteq Bot
  /\ half \in {"handle", "login", "pvp"}
  /\ \A b \in Bot : /\ conn[b] \in {"none", "gateway", "agent"}
                    /\ pvpManager[b] \in {"none", "made", "published"}
                    /\ \A i \in DOMAIN injected[b] : injected[b][i] \in Packets
                    /\ asked[b] \in Packets \cup {"nothing"}
  /\ \A i \in DOMAIN queue : queue[i].kind \in Kinds /\ queue[i].of \in 0..Bots

(* A session has one conversation with its server: at any moment one thing *)
(* is under way -- a connection, a request of the bot, the server's work   *)
(* on it, its answer, the event that tells the bot.  Nothing in the code   *)
(* keeps this; it is what lets Login have no state for a second answer and *)
(* the proxy drop its connection on a successful login.                    *)
Untold(s) == {i \in DOMAIN queue :
  /\ queue[i].of = s /\ queue[i].kind \notin {"ReadyForAssignment", "GatewayLoginResponseReceived"}
  /\ i > 1 \/ turn < s \/ (turn = s /\ half = "handle")}
InFlight(s) ==
  Len(injected[s]) + (IF asked[s] = "nothing" THEN 0 ELSE 1) + (IF s \in task THEN 1 ELSE 0)
  + Cardinality({i \in DOMAIN wire[s] : wire[s][i] # "state request" \/ ~toAgent[s]})
  + Cardinality(Untold(s))
OneThingAtATime == \A s \in Bot : InFlight(s) <= 1

(* The states of createSessions follow those of the bots across threads: a *)
(* Login machine exists only once every client is ready, a PvpManager only *)
(* when every bot is logged in and its entity known, and a bot that says   *)
(* it is ready to fight finds the ids of its pairing saved.                *)
StagesInOrder ==
  /\ (\E b \in Bot : login[b].made) => readyToLogin = Bot
  /\ \A b \in Bot : /\ b \in loggedIn => ~login[b].made /\ b \in self
                    /\ pvpManager[b] # "none" => loggedIn = Bot /\ idsSaved

(* What holds of every state: its shape, one thing at a time with every    *)
(* server, and the order of the stages.                                    *)
SessionsConsistent == SessionsTypeOK /\ OneThingAtATime /\ StagesInOrder

(* No packet of a login is injected while its proxy has no connection to   *)
(* forward it on (proxy.cpp:336-338), although each login closes one       *)
(* connection and opens the next; and no bot throws on the way: the token  *)
(* is there when the agent server is, no promise is set twice.             *)
NothingLost == lost = {} /\ errors = {}

(* A bot that has asked for the list of shards itself does log in, unless  *)
(* its connection or its login is refused, whatever the others do.         *)
SeekersLogIn ==
  \A b \in Bot : (login[b].made /\ login[b].waitingOnShardList)
                   ~> (b \in loggedIn \/ b \in refused)

(* createSessions comes to its end: "We'll send one dummy event to kick    *)
(* them off" (trainingManager.cpp).                                        *)
EverySessionStands == <>(pc = "done")
=============================================================================
