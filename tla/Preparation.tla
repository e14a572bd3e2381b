---------------------------- MODULE Preparation ----------------------------
(***************************************************************************)
(* How a bot prepares for a match: the sequence of state machines that     *)
(* PvpManager::setPrepareForPvpStateMachine sets up, each of which sends a  *)
(* request, begins a timer, and goes by the events that follow.            *)
(*                                                                         *)
(* A packet of the server changes what the bot knows of its character when *)
(* it is read; the events it gives rise to are handled later, in order, and *)
(* a timer's event whenever it is due.  So a handler meets a character that *)
(* may be ahead of the event it handles.  Requests may be dropped, items    *)
(* may fail to help, a timer may run out before the answer comes, and the   *)
(* other bot may take an item that lies about.                             *)
(*                                                                         *)
(* The warp of the sequence is in PvpMatches.  Names that EntityMovement     *)
(* has too are told apart, as CharacterProofs reasons about both modules.   *)
(* An operator Op_Name is Op with one plausible bug and is never used.      *)
(***************************************************************************)
EXTENDS Naturals, Sequences, FiniteSets, Functions

CONSTANTS
  Requirements, \* the kinds of item a fight requires, itemRequirements in their order
  Debuffs,      \* the buffs that are skills with the parameter nbuf
  Characters,   \* the characters a preparation may begin with
  MaxAttempts,  \* MoveItem::kMaxAttempts
  MaxTimeouts,  \* GmCommandSpawnAndPickItems::kMaxTimeoutCount
  MaxMishaps,   \* bound on requests dropped or refused, remedies too weak, items taken
  MaxLate       \* bound on the timers that run out with an answer on its way

Used    == {"vigor", "universalPill", "purificationPill", "hammer"}
Potions == Range(Requirements)
Kinds   == Used \cup Potions
Slots == {"avatar", "first", "last"}
Spots == {"start", "pvp", "away", "item"}
Buffs == UNION {c.buffs : c \in Characters}
Character ==
  [hat : Slots, helm : BOOLEAN, roomy : BOOLEAN, buffs : SUBSET Buffs, spot : Spots,
   going : Spots \cup {"nowhere"}, bag : SUBSET Kinds, broken : BOOLEAN,
   ailments : SUBSET {"vitals", "legacy", "modern"}, visible : BOOLEAN,
   mode : {"white", "counting", "yellow"}, cooling : SUBSET Kinds]

(* What a fight requires is nothing that the preparation itself uses up.   *)
ASSUME PreparationAssumption ==
  /\ Requirements \in Seq(STRING) /\ Potions \cap Used = {}
  /\ MaxAttempts \in Nat \ {0} /\ MaxTimeouts \in Nat \ {0}
  /\ MaxMishaps \in Nat /\ MaxLate \in Nat
  /\ Characters \subseteq Character
  /\ \A c \in Characters : c.going = "nowhere" /\ c.cooling = {}

(* The machines of the sequence; in each, which machine is active.         *)
Sequence == <<"hat", "dispel", "walk", "vitals", "items", "repair", "pvp", "equip",
              "appear", "cooldowns", "ready">>
MoveLeaves == {"unequip", "shift", "equip"}
WalkLeaves == {"walk", "return", "nudge", "nudgeBack"}
Leaves == MoveLeaves \cup WalkLeaves
          \cup {"dispel", "spawn", "pick", "use", "rest", "enable", "countdown",
                "toggle", "appear", "cooldowns", "none"}

VARIABLES
  me,        \* what the bot knows of its character, as far as it has read packets
  machine,   \* the state machines under the sequence
  requests,  \* the packets sent and not yet answered
  events,    \* the events published and not yet handled
  made,      \* the kind of every item that has appeared on the ground
  ground,    \* the items that the tracker holds
  mishaps, late,  \* how often something has gone wrong, and an answer come late
  robbed,    \* history: the other bot took the item this one was after
  doubled    \* history: what was asked for again with an answer on its way

preparationVars ==
  <<me, machine, requests, events, made, ground, mishaps, late, robbed, doubled>>

Request(op, what, item) == [op |-> op, what |-> what, item |-> item]
Event(kind, what, item) == [kind |-> kind, what |-> what, item |-> item]
OtherEvent == Event("other", "none", 0)
Is(e, kind, what) == e.kind = kind /\ e.what = what

-----------------------------------------------------------------------------
(* What an update leaves: the machines, and the packet sent if any.  One    *)
(* that throws leaves what it has assigned: Bot::handleEvent catches.       *)

Stay(m) == [m |-> m, sent |-> <<>>]
Throws(m) == Stay(m)
Send(m, op, what, item) ==
  [m |-> [m EXCEPT !.timer = TRUE], sent |-> <<Request(op, what, item)>>]
Quiet(m) == [m EXCEPT !.timer = FALSE]
Leaf(m, leaf, what) == [Quiet(m) EXCEPT !.leaf = leaf, !.what = what, !.item = 0,
                                        !.gone = FALSE, !.got = FALSE]

(* The packet of a Walking leaf, and where its waypoint is.                *)
Waypoint(leaf) == IF leaf = "nudge" THEN "away" ELSE "pvp"
WalkTo(m, leaf) == Send(Leaf(m, leaf, "none"), "walk", Waypoint(leaf), 0)

(* MoveItem::onUpdate, from where it looks at the item to move on: of an   *)
(* avatar item too it is the inventory's slot that must hold equipment.     *)
TryMove(m) ==
  LET found == CASE m.leaf = "unequip" -> me.helm
                 [] OTHER -> me.hat = m.what
  IN IF found THEN Send([m EXCEPT !.tries = @ + 1], m.leaf, m.what, 0) ELSE Throws(m)
Move(m, leaf, source) == TryMove([Leaf(m, leaf, source) EXCEPT !.tries = 0])

(* UseItem::onUpdate, from where it asks whether the item can be used.      *)
TryUse(m) == IF m.what \in me.cooling THEN Throws(m) ELSE Send(m, "use", m.what, 0)
Use(m, kind) == TryUse(Leaf(m, "use", kind))

(* DispelActiveBuffs::onUpdate, with no buff being dispelled.               *)
DispelNext(m) ==
  LET buffs == me.buffs \ Debuffs
      b == CHOOSE x \in buffs : TRUE
  IN IF buffs = {} THEN Stay(Leaf(m, "dispel", "none"))
     ELSE Send(Leaf(m, "dispel", b), "dispel", b, 0)

(* GmCommandSpawnAndPickItems::spawnNextItem drops items until one lacks.  *)
FirstOf(indices) == CHOOSE i \in indices : \A j \in indices : i <= j
Lacking(kinds) ==
  LET lacks == {i \in DOMAIN kinds : kinds[i] \notin me.bag}
  IN IF lacks = {} THEN <<>> ELSE SubSeq(kinds, FirstOf(lacks), Len(kinds))
MakeItem(m, kinds) ==
  Send([Leaf(m, "spawn", Head(kinds)) EXCEPT !.wants = kinds], "make", Head(kinds), 0)

(* EnsureFullVitalsAndNoStatuses::onUpdate, with a status to get rid of:    *)
(* it gets the items first that are not there, then uses them in order.     *)
Remedies ==
  (IF "vitals" \in me.ailments THEN <<"vigor">> ELSE <<>>)
    \o (IF "legacy" \in me.ailments THEN <<"universalPill">> ELSE <<>>)
    \o (IF "modern" \in me.ailments THEN <<"purificationPill">> ELSE <<>>)
Cure(m) ==
  LET plan == [m EXCEPT !.uses = Remedies, !.tries = 0]
  IN IF Lacking(Remedies) = <<>> THEN Use(plan, Head(Remedies))
     ELSE MakeItem(plan, Lacking(Remedies))

-----------------------------------------------------------------------------
(* SequentialStateMachines::onUpdate: a machine that is done is popped and  *)
(* the next one updated, until one has something left to do.               *)

HasWork(step) ==
  CASE step = "hat"       -> me.hat = "avatar"
    [] step = "dispel"    -> me.buffs # {}
    [] step = "walk"      -> me.spot # "pvp"
    [] step = "vitals"    -> me.ailments # {}
    [] step = "items"     -> ~(Potions \subseteq me.bag)
    [] step = "repair"    -> me.broken
    [] step = "pvp"       -> me.mode # "yellow"
    [] step = "appear"    -> ~me.visible
    [] step = "cooldowns" -> me.cooling # {}
    [] OTHER              -> TRUE

NextStep(step) ==
  LET i == CHOOSE j \in DOMAIN Sequence : Sequence[j] = step
  IN Sequence[FirstOf({j \in (i + 1)..Len(Sequence) : HasWork(Sequence[j])})]

(* The machines as they are built: initialized_, timers and counts unset.   *)
NoMachine == [step |-> "hat", leaf |-> "none", what |-> "none", item |-> 0, wants |-> <<>>,
              uses |-> <<>>, timer |-> FALSE, potion |-> FALSE, tries |-> 0,
              gone |-> FALSE, got |-> FALSE]

(* The first update of each machine that has something to do.              *)
Begin(step) ==
  LET b == [NoMachine EXCEPT !.step = step]
  IN CASE step = "hat"    -> Move(b, "unequip", "avatar")
       [] step = "dispel" -> DispelNext(b)
       [] step = "walk"   -> WalkTo(b, "walk")
       [] step = "vitals" -> Cure(b)
       [] step = "items"  -> MakeItem(b, Lacking(Requirements))
       [] step = "repair" -> IF "hammer" \in me.bag THEN Use(b, "hammer")
                             ELSE MakeItem(b, <<"hammer">>)
       [] step = "pvp"    -> Send(Leaf(b, "enable", "none"), "enable", "none", 0)
       [] step = "equip"  -> Move(b, "equip", me.hat)
       [] step = "appear" -> Send(Leaf(b, "toggle", "none"), "invisible", "none", 0)
       [] step = "cooldowns" -> Stay(Leaf(b, "cooldowns", "none"))
       [] step = "ready"  -> Stay(Leaf(b, "none", "none"))

Done(m) == Begin(NextStep(m.step))

(* EnsureFullVitalsAndNoStatuses::onUpdate, with no child.                  *)
VitalsAgain(m) ==
  IF m.potion THEN Stay(Leaf(m, "rest", "none"))
  ELSE IF me.ailments = {} THEN Done(m) ELSE Cure(m)

UseIsDone(m) ==
  IF m.step = "repair" THEN Done(m)
  ELSE LET left == Tail(m.uses)
           u == [m EXCEPT !.uses = left]
       IN IF left = <<>> THEN VitalsAgain(u) ELSE Use(u, Head(left))

(* GmCommandSpawnAndPickItems::spawnNextItem, and what follows the machine  *)
(* when it has every item.                                                 *)
SpawnNextItem(m) ==
  LET left == Lacking(m.wants)
  IN IF left # <<>> THEN MakeItem(m, left)
     ELSE CASE m.step = "vitals" -> Use(m, Head(m.uses))
            [] m.step = "items"  -> Done(m)
            [] m.step = "repair" -> Use(m, "hammer")

-----------------------------------------------------------------------------
(* The updates of the active machine with an event.                        *)

(* MoveItem and, when it is done, MaybeRemoveAvatarEquipment or EquipItem.  *)
UpdateMove_GivesUp(m, e) ==
  LET failed == e.kind \in {"moveFailed", "timeout"}
      n == IF failed THEN Quiet(m) ELSE m
  IN IF Is(e, "moved", m.leaf)
     THEN IF m.leaf = "unequip" /\ me.roomy THEN Move(m, "shift", "first") ELSE Done(m)
     ELSE IF failed /\ m.tries >= MaxAttempts THEN Done(m)
     ELSE IF n.timer THEN Stay(n) ELSE TryMove(n)

UpdateMove(m, e) ==
  LET failed == e.kind \in {"moveFailed", "timeout"}
      n == IF failed THEN Quiet(m) ELSE m
  IN IF Is(e, "moved", m.leaf)
     THEN IF m.leaf = "unequip" /\ me.roomy THEN Move(m, "shift", "first") ELSE Done(m)
     ELSE IF failed /\ m.tries >= MaxAttempts THEN Throws(n)
     ELSE IF n.timer THEN Stay(n) ELSE TryMove(n)

UpdateDispel(m, e) ==
  LET over == m.what # "none" /\ (Is(e, "buffRemoved", m.what) \/ e.kind = "timeout")
  IN IF m.what # "none" /\ ~over THEN Stay(m)
     ELSE IF me.buffs = {} THEN Done(m) ELSE DispelNext(m)

(* Walking, along one waypoint or the two of a nudge.                      *)
UpdateWalk(m, e) ==
  LET n == IF e.kind \in {"began", "ended", "timeout"} THEN Quiet(m) ELSE m
      there == me.spot = Waypoint(m.leaf)
  IN IF e.kind = "began" \/ me.going # "nowhere" THEN Stay(n)
     ELSE IF there /\ m.leaf = "walk" THEN Done(n)
     ELSE IF there /\ m.leaf = "nudge" THEN WalkTo(n, "nudgeBack")
     ELSE IF there THEN SpawnNextItem(n)
     ELSE IF n.timer THEN Stay(n) ELSE WalkTo(n, m.leaf)

(* GmCommandSpawnAndPickItems with a request under way.  It goes after any  *)
(* item of the kind that appears; one that is gone again throws within.     *)
UpdateSpawn_StopsAtError(m, e) ==
  CASE e.kind = "spawned" /\ e.item \in ground /\ made[e.item] = m.what ->
         Send([Leaf(m, "pick", m.what) EXCEPT !.item = e.item], "pick", "none", e.item)
    [] Is(e, "operatorError", "make") -> Stay(Quiet(m))
    [] e.kind = "timeout" ->
         IF m.tries + 1 >= MaxTimeouts THEN WalkTo([m EXCEPT !.tries = 0], "nudge")
         ELSE SpawnNextItem([m EXCEPT !.tries = @ + 1])
    [] OTHER -> Stay(m)

UpdateSpawn(m, e) ==
  CASE e.kind = "spawned" /\ e.item \in ground /\ made[e.item] = m.what ->
         Send([Leaf(m, "pick", m.what) EXCEPT !.item = e.item], "pick", "none", e.item)
    [] Is(e, "operatorError", "make") -> SpawnNextItem(m)
    [] e.kind = "timeout" ->
         IF m.tries + 1 >= MaxTimeouts THEN WalkTo([m EXCEPT !.tries = 0], "nudge")
         ELSE SpawnNextItem([m EXCEPT !.tries = @ + 1])
    [] OTHER -> Stay(m)

(* PickItem: the item has to leave the ground and to arrive.               *)
UpdatePick(m, e) ==
  LET gone == m.gone \/ (e.kind = "despawned" /\ e.item = m.item)
      got  == m.got \/ Is(e, "arrived", m.what)
      over == gone # m.gone \/ got # m.got \/ e.kind = "timeout"
                \/ (e.kind = "commandError" /\ e.item = m.item)
      n == [m EXCEPT !.gone = gone, !.got = got, !.timer = @ /\ ~over]
  IN IF gone /\ got THEN IF me.spot # "pvp" THEN WalkTo(n, "return") ELSE SpawnNextItem(n)
     ELSE IF gone # got \/ n.timer THEN Stay(n)
     ELSE Send(n, "pick", "none", m.item)

UpdateUse_NoRetry(m, e) ==
  LET failed == e.kind = "useFailed" /\ m.timer
      n == IF failed \/ e.kind = "timeout" THEN Quiet(m) ELSE m
  IN IF failed /\ e.what = "doesNotExist" THEN UseIsDone(n)
     ELSE IF Is(e, "used", m.what) /\ m.timer THEN UseIsDone(n)
     ELSE Stay(n)

UpdateUse(m, e) ==
  LET failed == e.kind = "useFailed" /\ m.timer
      n == IF failed \/ e.kind = "timeout" THEN Quiet(m) ELSE m
  IN IF failed /\ e.what = "doesNotExist" THEN UseIsDone(n)
     ELSE IF Is(e, "used", m.what) /\ m.timer THEN UseIsDone(n)
     ELSE IF n.timer THEN Stay(n) ELSE TryUse(n)

(* EnsureFullVitalsAndNoStatuses waits for the potion to have its effect.   *)
UpdateRest(m, e) == VitalsAgain(m)

UpdateEnable(m, e) ==
  CASE e.kind = "countdown"  -> Stay(Leaf(m, "countdown", "none"))
    [] e.kind = "pvpSuccess" -> Done(m)
    [] e.kind = "timeout"    -> Send(m, "enable", "none", 0)
    [] OTHER -> Stay(m)

(* DisableGmInvisible, with and without an ExecuteGmCommand.               *)
UpdateAppear(m, e) ==
  CASE e.kind = "bodyState" /\ me.visible -> Done(m)
    [] e.kind = "bodyState" /\ ~me.visible /\ m.leaf = "appear" ->
         Send(Leaf(m, "toggle", "none"), "invisible", "none", 0)
    [] m.leaf = "toggle" /\ Is(e, "operatorSuccess", "invisible") -> Stay(Leaf(m, "appear", "none"))
    [] m.leaf = "toggle" /\ Is(e, "operatorError", "invisible") -> Throws(m)
    [] m.leaf = "toggle" /\ e.kind = "timeout" -> Send(m, "invisible", "none", 0)
    [] OTHER -> Stay(m)

UpdateCooldowns(m, e) == IF me.cooling = {} THEN Done(m) ELSE Stay(m)

(* PvpManager's child with an event.  EnsureFullVitalsAndNoStatuses begins  *)
(* its own timer when a vigor potion has been used.                        *)
Update(e) ==
  LET m == IF machine.step = "vitals" /\ Is(e, "used", "vigor")
           THEN [machine EXCEPT !.potion = TRUE]
           ELSE IF e.kind = "potionTimeout" THEN [machine EXCEPT !.potion = FALSE]
           ELSE machine
  IN CASE m.leaf \in MoveLeaves -> UpdateMove(m, e)
       [] m.leaf \in WalkLeaves -> UpdateWalk(m, e)
       [] m.leaf = "dispel"     -> UpdateDispel(m, e)
       [] m.leaf = "spawn"      -> UpdateSpawn(m, e)
       [] m.leaf = "pick"       -> UpdatePick(m, e)
       [] m.leaf = "use"        -> UpdateUse(m, e)
       [] m.leaf = "rest"       -> UpdateRest(m, e)
       [] m.leaf \in {"enable", "countdown"} -> UpdateEnable(m, e)
       [] m.leaf \in {"toggle", "appear"}    -> UpdateAppear(m, e)
       [] m.leaf = "cooldowns"  -> UpdateCooldowns(m, e)
       [] m.leaf = "none"       -> Stay(m)

-----------------------------------------------------------------------------
(* The events of the bot.                                                  *)

Handle(e) ==
  LET r == Update(e)
  IN machine' = r.m /\ requests' = requests \o r.sent

Deliver ==
  /\ events # <<>>
  /\ Handle(Head(events))
  /\ events' = Tail(events)
  /\ UNCHANGED <<me, made, ground, mishaps, late, robbed, doubled>>

(* The active machine's timer runs out, when the answer is not to come, or  *)
(* before it comes.                                                        *)
RequestTimerFires ==
  /\ machine.timer
  /\ IF requests = <<>> /\ events = <<>> THEN UNCHANGED <<late, doubled>>
     ELSE /\ late < MaxLate /\ late' = late + 1
          /\ doubled' = doubled \cup {machine.leaf}
  /\ Handle(Event("timeout", "none", 0))
  /\ UNCHANGED <<me, events, made, ground, mishaps, robbed>>

PotionTimerFires ==
  /\ machine.potion
  /\ Handle(Event("potionTimeout", "none", 0))
  /\ UNCHANGED <<me, events, made, ground, mishaps, late, robbed, doubled>>

(* An event that is about someone else: a bot hears of all of them.         *)
HearOfAnother ==
  /\ Handle(OtherEvent)
  /\ UNCHANGED <<me, events, made, ground, mishaps, late, robbed, doubled>>

-----------------------------------------------------------------------------
(* The server, and the packets that bring its answers.                     *)

PublishAll(evs) == events' = events \o evs

(* The answers to the head of the requests.                                *)
MoveAnswered(r) ==
  /\ r.op \in MoveLeaves
  /\ IF me.hat = r.what
     THEN /\ me' = [me EXCEPT !.hat = CASE r.op = "unequip" -> "first"
                                        [] r.op = "shift"   -> "last"
                                        [] r.op = "equip"   -> "avatar"]
          /\ PublishAll(<<Event("moved", r.op, 0)>>)
     ELSE UNCHANGED me /\ PublishAll(<<Event("moveFailed", "none", 0)>>)
  /\ UNCHANGED <<made, ground, mishaps, robbed, doubled>>

DispelAnswered(r) ==
  /\ r.op = "dispel"
  /\ me' = [me EXCEPT !.buffs = @ \ {r.what}]
  /\ PublishAll(IF r.what \in me.buffs THEN <<Event("buffRemoved", r.what, 0)>> ELSE <<>>)
  /\ UNCHANGED <<made, ground, mishaps, robbed, doubled>>

WalkAnswered(r) ==
  /\ r.op = "walk"
  /\ LET there == me.spot = r.what
     IN /\ me' = [me EXCEPT !.going = IF there THEN "nowhere" ELSE r.what]
        /\ PublishAll(<<Event("began", "none", 0)>>
                     \o IF there THEN <<Event("ended", "none", 0)>> ELSE <<>>)
  /\ UNCHANGED <<made, ground, mishaps, robbed, doubled>>

MakeAnswered(r) ==
  /\ r.op = "make"
  /\ made' = Append(made, r.what)
  /\ ground' = ground \cup {Len(made) + 1}
  /\ PublishAll(<<Event("operatorSuccess", "make", 0), Event("spawned", "none", Len(made) + 1)>>)
  /\ UNCHANGED <<me, mishaps, robbed, doubled>>

(* The character goes to the item and takes it; the two packets that say so *)
(* may come in either order.                                               *)
PickAnswered(r) ==
  /\ r.op = "pick"
  /\ IF r.item \in ground
     THEN LET left == Event("despawned", "none", r.item)
              came == Event("arrived", made[r.item], 0)
          IN /\ me' = [me EXCEPT !.spot = "item", !.bag = @ \cup {made[r.item]}]
             /\ ground' = ground \ {r.item}
             /\ PublishAll(<<left, came>>) \/ PublishAll(<<came, left>>)
     ELSE UNCHANGED <<me, ground>> /\ PublishAll(<<Event("commandError", "none", r.item)>>)
  /\ UNCHANGED <<made, mishaps, robbed, doubled>>

Effect(kind) ==
  CASE kind = "vigor"            -> [me EXCEPT !.ailments = @ \ {"vitals"}]
    [] kind = "universalPill"    -> [me EXCEPT !.ailments = @ \ {"legacy"}]
    [] kind = "purificationPill" -> [me EXCEPT !.ailments = @ \ {"modern"}]
    [] kind = "hammer"           -> [me EXCEPT !.broken = FALSE]

(* A remedy may turn out too weak; its cooldown begins in any case.         *)
UseAnswered(r) ==
  /\ r.op = "use"
  /\ IF r.what \notin me.bag \/ r.what \in me.cooling
     THEN /\ PublishAll(<<Event("useFailed", IF r.what \notin me.bag THEN "doesNotExist"
                                          ELSE "waitForReuseDelay", 0)>>)
          /\ UNCHANGED <<me, mishaps>>
     ELSE /\ \/ me' = [Effect(r.what) EXCEPT !.bag = @ \ {r.what}, !.cooling = @ \cup {r.what}]
                /\ UNCHANGED mishaps
             \/ /\ mishaps < MaxMishaps /\ mishaps' = mishaps + 1 /\ r.what # "hammer"
                /\ me' = [me EXCEPT !.bag = @ \ {r.what}, !.cooling = @ \cup {r.what}]
          /\ PublishAll(<<Event("used", r.what, 0)>>)
  /\ UNCHANGED <<made, ground, robbed, doubled>>

EnableAnswered(r) ==
  /\ r.op = "enable"
  /\ me' = [me EXCEPT !.mode = IF @ = "white" THEN "counting" ELSE @]
  /\ PublishAll(IF me.mode = "white" THEN <<Event("countdown", "none", 0)>> ELSE <<>>)
  /\ UNCHANGED <<made, ground, mishaps, robbed, doubled>>

InvisibleAnswered(r) ==
  /\ r.op = "invisible"
  /\ me' = [me EXCEPT !.visible = ~@]
  /\ LET success == Event("operatorSuccess", "invisible", 0)
         changed == Event("bodyState", "none", 0)
     IN PublishAll(<<success, changed>>) \/ PublishAll(<<changed, success>>)
  /\ UNCHANGED <<made, ground, mishaps, robbed, doubled>>

Serve ==
  /\ requests # <<>>
  /\ requests' = Tail(requests)
  /\ LET r == Head(requests)
     IN \/ MoveAnswered(r) \/ DispelAnswered(r) \/ WalkAnswered(r) \/ MakeAnswered(r)
        \/ PickAnswered(r) \/ UseAnswered(r) \/ EnableAnswered(r) \/ InvisibleAnswered(r)
  /\ UNCHANGED <<machine, late>>

(* A request comes to nothing; a command of a game master may be refused.  *)
Drop ==
  /\ requests # <<>> /\ mishaps < MaxMishaps
  /\ requests' = Tail(requests)
  /\ mishaps' = mishaps + 1
  /\ \/ UNCHANGED events
     \/ /\ Head(requests).op \in {"make", "invisible"}
        /\ PublishAll(<<Event("operatorError", Head(requests).op, 0)>>)
  /\ UNCHANGED <<me, machine, made, ground, late, robbed, doubled>>

WalkEnds ==
  /\ me.going # "nowhere"
  /\ me' = [me EXCEPT !.spot = me.going, !.going = "nowhere"]
  /\ PublishAll(<<Event("ended", "none", 0)>>)
  /\ UNCHANGED <<machine, requests, made, ground, mishaps, late, robbed, doubled>>

CountdownEnds ==
  /\ me.mode = "counting"
  /\ me' = [me EXCEPT !.mode = "yellow"]
  /\ PublishAll(<<Event("pvpSuccess", "none", 0)>>)
  /\ UNCHANGED <<machine, requests, made, ground, mishaps, late, robbed, doubled>>

BuffEnds(b) ==
  /\ b \in me.buffs
  /\ me' = [me EXCEPT !.buffs = @ \ {b}]
  /\ PublishAll(<<Event("buffRemoved", b, 0)>>)
  /\ UNCHANGED <<machine, requests, made, ground, mishaps, late, robbed, doubled>>

(* Self::handleEvent of InternalItemCooldownEnded, which a bot leaves alone. *)
CooldownEnds(k) ==
  /\ k \in me.cooling
  /\ me' = [me EXCEPT !.cooling = @ \ {k}]
  /\ PublishAll(<<Event("cooldownEnded", k, 0)>>)
  /\ UNCHANGED <<machine, requests, made, ground, mishaps, late, robbed, doubled>>

(* The other bot prepares at the other end of the spot, and takes an item   *)
(* of a kind it needs too.                                                 *)
Rob(i) ==
  /\ i \in ground /\ made[i] \in Potions
  /\ mishaps < MaxMishaps /\ mishaps' = mishaps + 1
  /\ ground' = ground \ {i}
  /\ robbed' = (robbed \/ (machine.leaf = "pick" /\ machine.item = i))
  /\ PublishAll(<<Event("despawned", "none", i)>>)
  /\ UNCHANGED <<me, machine, requests, made, late, doubled>>

-----------------------------------------------------------------------------
(* PvpManager has set the sequence up and updates it for the first time.    *)
PreparationInit ==
  /\ me \in Characters
  /\ \E r \in {Begin(IF HasWork("hat") THEN "hat" ELSE NextStep("hat"))} :
       machine = r.m /\ requests = r.sent
  /\ events = <<>>
  /\ made = <<>>
  /\ ground = {}
  /\ mishaps = 0 /\ late = 0
  /\ robbed = FALSE
  /\ doubled = {}

PreparationNext ==
  \/ Deliver \/ RequestTimerFires \/ PotionTimerFires \/ HearOfAnother
  \/ Serve \/ Drop \/ WalkEnds \/ CountdownEnds
  \/ \E b \in me.buffs : BuffEnds(b)
  \/ \E k \in me.cooling : CooldownEnds(k)
  \/ \E i \in ground : Rob(i)

PreparationSpec == PreparationInit /\ [][PreparationNext]_preparationVars

(* The server answers what it is asked, a walk arrives, a countdown, a      *)
(* cooldown and a debuff end; timers fire and events are handled; other     *)
(* events come again and again.  Nothing is assumed of Drop and Rob.        *)
PreparationFairSpec ==
  /\ PreparationSpec
  /\ WF_preparationVars(Deliver) /\ WF_preparationVars(HearOfAnother)
  /\ WF_preparationVars(RequestTimerFires) /\ WF_preparationVars(PotionTimerFires)
  /\ WF_preparationVars(Serve) /\ WF_preparationVars(WalkEnds) /\ WF_preparationVars(CountdownEnds)
  /\ WF_preparationVars(\E b \in Debuffs : BuffEnds(b))
  /\ WF_preparationVars(\E k \in Kinds : CooldownEnds(k))

-----------------------------------------------------------------------------
PreparationTypeOK ==
  /\ me \in Character
  /\ machine.step \in Range(Sequence) /\ machine.leaf \in Leaves
  /\ machine.timer \in BOOLEAN /\ machine.potion \in BOOLEAN /\ machine.tries \in Nat
  /\ made \in Seq(Kinds) /\ ground \subseteq DOMAIN made

IsComing(kind, what) == \E i \in DOMAIN events : Is(events[i], kind, what)
ComingOf(kind, item) == \E i \in DOMAIN events : events[i].kind = kind /\ events[i].item = item

(* A machine that waits with no timer of its own waits for an event that is *)
(* published, or for something of the character that has yet to end; a      *)
(* machine that has thrown tries again with any event.  Only an item taken  *)
(* by someone else, or an answer to a repeated toggle that is taken for the *)
(* answer to another, leaves it waiting for what may not come.              *)
NeverWaitsInVain ==
  \/ machine.timer \/ robbed \/ "toggle" \in doubled
  \/ machine.leaf \in MoveLeaves \cup {"use"}
  \/ machine.leaf \in WalkLeaves /\ (me.going # "nowhere" \/ IsComing("ended", "none"))
  \/ machine.leaf = "dispel" /\ (me.buffs # {} \/ \E b \in Buffs : IsComing("buffRemoved", b))
  \/ machine.leaf = "pick" /\ machine.gone /\ IsComing("arrived", machine.what)
  \/ machine.leaf = "pick" /\ machine.got /\ ComingOf("despawned", machine.item)
  \/ machine.leaf = "rest" /\ machine.potion
  \/ machine.leaf = "countdown" /\ (me.mode = "counting" \/ IsComing("pvpSuccess", "none"))
  \/ machine.leaf = "appear" /\ IsComing("bodyState", "none")
  \/ machine.leaf = "cooldowns"
       /\ (me.cooling # {} \/ \E k \in Kinds : IsComing("cooldownEnded", k))
  \/ machine.step = "ready"

(* The invariant: types, and no machine waits for nothing.                  *)
PreparationConsistent == PreparationTypeOK /\ NeverWaitsInVain

(* When the bot says it is ready, everything the machines have seen to one  *)
(* after another still holds, whatever was dropped, late, refused or taken: *)
(* no later machine and no repeated request has undone it.  But with a      *)
(* request repeated before its answer came, a bot may be invisible, and its *)
(* equipment broken, as UseItem takes the failure of any use for its own.   *)
ReadyToFight ==
  machine.step = "ready" =>
    /\ me.hat = "avatar" /\ me.mode = "yellow"
    /\ me.spot = "pvp" /\ me.going = "nowhere"
    /\ me.ailments = {} /\ me.buffs = {} /\ me.cooling = {}
    /\ Potions \subseteq me.bag
    /\ me.visible \/ "toggle" \in doubled
    /\ ~me.broken \/ "use" \in doubled

(* A bot gets ready, unless the other bot takes the item it was after or    *)
(* the invisibility is toggled twice: then it may toggle for ever.          *)
PreparationEnds == <>(machine.step = "ready" \/ robbed \/ "toggle" \in doubled)

(* As the comment of setPrepareForPvpStateMachine has it: a bot that is     *)
(* ready has repaired all items and is visible.  An answer that comes after *)
(* its timer has run out breaks it.                                        *)
EnsuredAsCommented == machine.step = "ready" => me.visible /\ ~me.broken
=============================================================================
