---------------------------- MODULE PvpInvariant ----------------------------
(***************************************************************************)
(* The inductive invariant of PvpMatches, MatchesInv, for TLC to try on an *)
(* instance and for the proofs: it tells where in its cycle each of the two*)
(* bots is by what the queue still holds for it.                           *)
(***************************************************************************)
EXTENDS PvpMatches

-----------------------------------------------------------------------------
(* What is said of a sequence: that one of its elements is in A, that all  *)
(* are, that at most one is, that after one in A there are only elements of*)
(* B.                                                                      *)

Holds(s, A) == \E i \in DOMAIN s : s[i] \in A
Within(s, A) == \A i \in DOMAIN s : s[i] \in A
OnceIn(s, A) == \A i, j \in DOMAIN s : s[i] \in A /\ s[j] \in A => i = j
OnlyAfter(s, A, B) == \A i, j \in DOMAIN s : i < j /\ s[i] \in A => s[j] \in B

-----------------------------------------------------------------------------
(* The inductive invariant.  First, the events that there can be.          *)

TravelKinds == {"EntityDespawned", "EntitySpawned", "GameReset", "SelfSpawned"}
PlayerKinds ==
  TravelKinds \cup {"ReadyForAssignment", "ReadyForPvp", "LifeStateChanged",
                    "ResurrectOption", "WarpRefused"}
EventSet ==
  [kind : {"Other"}, about : {Nobody}] \cup [kind : {"BeginPvp"}, about : MatchId]
  \cup [kind : {"Timeout"}, about : TimerId] \cup [kind : PlayerKinds, about : Players]
Ev(k) == {e \in EventSet : e.kind = k}
EvOf(k, p) == {e \in EventSet : e.kind = k /\ e.about = p}
Begins == Ev("BeginPvp")
Asks(p) == EvOf("ReadyForAssignment", p)
Reports(p) == EvOf("ReadyForPvp", p)
Lives(p) == EvOf("LifeStateChanged", p)
Changes == Ev("LifeStateChanged")
Quiet == {e \in EventSet : e.kind \notin TravelKinds}
OnJourney == {e \in EventSet : e.kind \in TravelKinds => e.about = P2}
Harmless == {e \in EventSet : e.kind \notin {"LifeStateChanged", "ResurrectOption"}}

(* The PvpManager m of player p.                                           *)
Bot ==
  [selfEntity : BOOLEAN, initialized : BOOLEAN, opponent : Players \cup {Nobody},
   descriptor : MatchId \cup {NoMatch}, published : BOOLEAN, weAreReady : BOOLEAN,
   opponentIsReady : BOOLEAN, gotOption : BOOLEAN,
   child : {"none", "prepare", "resurrect", "actor"}, eventId : TimerId \cup {NoTimer},
   optionAlready : BOOLEAN, foe : Players \cup {Nobody}, fight : MatchId \cup {NoMatch}]
Asking(m) == m.published /\ m.descriptor = NoMatch
Standing(m) == m.weAreReady /\ m.descriptor # NoMatch
Shape(p, m) ==
  /\ m \in Bot /\ m.eventId \in {NoTimer} \cup ({p} \X (1..MaxTimers))
  /\ m.opponent \in {Nobody, Opponent(p)}
  /\ m.descriptor # NoMatch => ~m.published
  /\ m.child = "actor" =>
       /\ m.foe = Opponent(p) /\ m.fight = m.descriptor /\ ~m.gotOption
       /\ Standing(m) /\ m.opponentIsReady
  /\ m.child = "prepare" => m.descriptor # NoMatch /\ ~m.weAreReady
  /\ m.child = "none" /\ m.descriptor # NoMatch => m.weAreReady /\ ~m.opponentIsReady
  /\ m.child = "none" /\ m.descriptor = NoMatch => m.published \/ ~m.initialized
  /\ m.child = "resurrect" /\ m.descriptor # NoMatch => ~m.weAreReady
  /\ Asking(m) => ~m.weAreReady /\ ~m.opponentIsReady
  /\ ~m.initialized =>
       /\ m.child = "none" /\ m.descriptor = NoMatch /\ ~m.published
       /\ ~m.weAreReady /\ ~m.opponentIsReady

(* The life of p, which has yet to hear x: as it is tracked, l, and on the *)
(* server, s; whether there is news of it, whether it is hurt, has asked to*)
(* be resurrected, and has nothing left to prepare.                        *)
Ledger(p, m, x, l, s, untold, harmed, asked, rest) ==
  /\ untold <=> l # s
  /\ OnceIn(x, Lives(p)) /\ (untold => ~Holds(x, Lives(p)))
  /\ harmed => s = "alive" /\ m.child # "resurrect" /\ ~Holds(x, Lives(p))
  /\ asked => s = "dead" /\ m.child = "resurrect"
  /\ m.child = "resurrect" /\ s = "dead" => ~untold /\ ~Holds(x, Lives(p))
  /\ m.child = "resurrect" => ~rest
  /\ untold /\ s = "alive" => m.child = "resurrect"
  /\ Holds(x, Lives(p)) /\ l = "alive" => m.child = "resurrect"
  /\ rest => ~harmed /\ ~untold /\ s = "alive"

(* Player p, with m, and the other one, o with n: who is ready, and who has*)
(* heard of it.  p may be left: the other is no longer in the fight.       *)
Pair(p, o, m, n, x, rest, left) ==
  /\ OnceIn(x, Reports(o))
  /\ Holds(x, Reports(o)) =>
       /\ Standing(n) /\ ~(m.opponentIsReady /\ m.descriptor # NoMatch)
       /\ m.descriptor = n.descriptor \/ Holds(x, Begins)
  /\ m.opponentIsReady /\ m.descriptor # NoMatch =>
       left \/ (Standing(n) /\ n.descriptor = m.descriptor)
  /\ Standing(n) /\ (m.descriptor = n.descriptor \/ Holds(x, Begins)) =>
       m.opponentIsReady \/ Holds(x, Reports(o))
  /\ Standing(m) /\ m.child # "actor" => OnlyAfter(x, Lives(p), EventSet \ Reports(o))
  /\ Standing(m) /\ n.child # "actor" => left \/ rest

(* One request for an assignment: on its way to the trainer, which has yet *)
(* to hear y, listed, or answered by an event that p has yet to hear.      *)
Tokens(p, m, x, y, listed) ==
  /\ OnceIn(y, Asks(p)) /\ OnceIn(x, Begins)
  /\ Holds(y, Asks(p)) => Asking(m) /\ ~listed /\ ~Holds(x, Begins)
  /\ listed => Asking(m) /\ ~Holds(x, Begins)
  /\ Holds(x, Begins) => Asking(m)

(* The first event has been heard by all but player 2; what player 1 and   *)
(* the trainer have yet to hear.                                           *)
Behind == queue # <<>> /\ turn = Len(Subscribers(Head(queue)))
Box1 == IF Behind THEN Tail(queue) ELSE queue
ManagerBox == IF turn = 1 THEN queue ELSE Tail(queue)
QueueOK ==
  /\ queue \in Seq(EventSet) /\ turn \in 1..3
  /\ IF queue = <<>> THEN turn = 1 ELSE turn <= Len(Subscribers(Head(queue)))

(* Player 1 has heard of a death that ends the fight, and player 2 has not.*)
Left ==
  /\ Behind /\ bots[P2].child = "actor" /\ bots[P1].descriptor = NoMatch
  /\ \E p \in Players : /\ Head(queue) \in Lives(p) /\ p \notin resReq
                        /\ life[p] = "dead" /\ srvLife[p] = "dead"
Together ==
  LET m == bots[P1]
      n == bots[P2]
  IN /\ m.descriptor # NoMatch /\ n.descriptor # NoMatch => m.descriptor = n.descriptor
     /\ m.descriptor # NoMatch /\ n.descriptor = NoMatch =>
          Behind /\ Head(queue) \in EvOf("BeginPvp", m.descriptor)
     /\ m.descriptor = NoMatch /\ n.descriptor # NoMatch => Left
     /\ Behind /\ Head(queue) \in Begins => m.descriptor = Head(queue).about
     /\ Behind /\ Head(queue) \in Changes => ~(Standing(m) /\ Standing(n))

(* A player in its place; and player 2 on its one journey, during which    *)
(* nobody fights.                                                          *)
Placed(p) ==
  stage[p] = "in" /\ procSelf[p] /\ bots[p].selfEntity /\ p \notin warpReq /\ near[p]
Calm ==
  /\ \A p \in Players : rested[p] /\ life[p] = "alive"
  /\ hurt = {} /\ news = {} /\ option = {} /\ resReq = {} /\ Within(queue, Harmless)
  /\ bots[P1].child = "none" /\ bots[P2].child \in {"none", "prepare"} /\ ~bots[P2].weAreReady
Travelling == bots[P2].child = "prepare" /\ warpReq = {}
Far ==
  /\ stage[P2] = "in" /\ ~near[P2] /\ procSelf[P2] /\ bots[P2].selfEntity
  /\ warpReq # {} => bots[P2].child = "prepare"
  /\ P1 \notin warpReq /\ Within(queue, Quiet)
Leaving ==
  /\ stage[P2] = "leaving" /\ ~near[P2] /\ procSelf[P2] /\ bots[P2].selfEntity
  /\ Travelling /\ Within(queue, Quiet)
Resetting ==
  /\ stage[P2] = "reset" /\ ~near[P2] /\ ~procSelf[P2] /\ Travelling
  /\ Holds(queue, Ev("GameReset")) /\ OnlyAfter(queue, Ev("GameReset"), Quiet)
  /\ ~Holds(queue, Ev("SelfSpawned")) /\ ~Holds(queue, Ev("EntitySpawned"))
  /\ bots[P2].selfEntity => Holds(queue, Ev("EntityDespawned"))
Loading ==
  /\ stage[P2] = "loading" /\ ~near[P2] /\ ~procSelf[P2] /\ Travelling
  /\ ~bots[P2].selfEntity /\ Within(queue, Quiet)
Entering ==
  /\ stage[P2] = "entering" /\ near[P2] /\ procSelf[P2] /\ Travelling
  /\ Holds(queue, Ev("SelfSpawned")) /\ OnlyAfter(queue, Ev("SelfSpawned"), Quiet)
  /\ ~Holds(queue, Ev("GameReset")) /\ ~Holds(queue, Ev("EntityDespawned"))
  /\ ~bots[P2].selfEntity
Journey ==
  \/ Placed(P2) /\ Within(queue, Quiet)
  \/ Calm /\ (Far \/ Leaving \/ Resetting \/ Loading \/ Entering)
Opponents ==
  /\ bots[P1].descriptor # NoMatch /\ bots[P1].opponent = Nobody =>
       stage[P2] \in {"reset", "loading"} \/ Holds(Box1, Ev("EntitySpawned"))
  /\ bots[P2].descriptor # NoMatch => bots[P2].opponent = P1

Others(p) == IF p = P1 THEN P2 ELSE P1
Counted ==
  \A p \in Players :
    /\ p \notin sees[p] /\ (p \in sees[Others(p)] => procSelf[p])
    /\ count[p] = (IF p \in sees[Others(p)] THEN 1 ELSE 0) + (IF procSelf[p] THEN 1 ELSE 0)
Typed ==
  /\ bots \in [Players -> Bot] /\ timers \subseteq TimerId /\ nextPvpId \in MatchId
  /\ ready \in {<<>>, <<P1>>, <<P2>>}
  /\ procSelf \in [Players -> BOOLEAN] /\ count \in [Players -> 0..2]
  /\ life \in [Players -> {"alive", "dead"}] /\ srvLife \in [Players -> {"alive", "dead"}]
  /\ near \in [Players -> BOOLEAN] /\ rested \in [Players -> BOOLEAN]
  /\ stage \in [Players -> {"in", "leaving", "reset", "loading", "entering"}]
  /\ sees \in [Players -> SUBSET Players]
  /\ UNION {news, option, warpReq, resReq, hurt} \subseteq Players

(* The timeout that a resurrection of m waits for is yet to be heard.      *)
Awaits(m, x) ==
  m.child = "resurrect" /\ m.eventId # NoTimer =>
    m.eventId \in timers \/ Holds(x, EvOf("Timeout", m.eventId))
Waits == Awaits(bots[P1], Box1) /\ Awaits(bots[P2], queue)

LedgerOf(p, m, x) ==
  Ledger(p, m, x, life[p], srvLife[p], p \in news, p \in hurt, p \in resReq, rested[p])
Ledgers == LedgerOf(P1, bots[P1], Box1) /\ LedgerOf(P2, bots[P2], queue)
Pairs ==
  /\ Pair(P1, P2, bots[P1], bots[P2], Box1, rested[P1], FALSE)
  /\ Pair(P2, P1, bots[P2], bots[P1], queue, rested[P2], Left)
IsListed(p) == ready = <<p>>
RequestsOK ==
  /\ Tokens(P1, bots[P1], Box1, ManagerBox, IsListed(P1))
  /\ Tokens(P2, bots[P2], queue, ManagerBox, IsListed(P2))
Shapes == Shape(P1, bots[P1]) /\ Shape(P2, bots[P2])
MatchesInv ==
  /\ Typed /\ QueueOK /\ Counted /\ Shapes /\ Ledgers /\ Pairs /\ RequestsOK /\ Together
  /\ Placed(P1) /\ Within(queue, OnJourney) /\ Journey /\ Opponents
  /\ Waits /\ NoErrors /\ (bots[P2].child = "actor" => reports = 0)
=============================================================================
