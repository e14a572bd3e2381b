--------------------------- MODULE PvpMatchesProofs ---------------------------
(* Theorems about PvpMatches, the fights of a pair of bots, for any number *)
(* of ids of matches and of timers, whether the option to be resurrected   *)
(* comes before the death or after it: no machine throws, requests for an  *)
(* assignment do not double, a fight is mutual, and its last state is      *)
(* reported once.                                                          *)
EXTENDS PvpInvariant, TLAPS, WellFoundedInduction, SequenceTheorems, FiniteSetTheorems

(* What is said of a sequence, of its head and its tail, and with one more.*)

LEMMA Ends ==
  ASSUME NEW S, NEW s \in Seq(S), s # <<>>
  PROVE  /\ Head(s) = s[1] /\ Head(s) \in S /\ 1 \in DOMAIN s /\ Tail(s) \in Seq(S)
         /\ \A i \in DOMAIN Tail(s) : i + 1 \in DOMAIN s /\ Tail(s)[i] = s[i + 1]
         /\ \A i \in DOMAIN s : i = 1 \/ (i - 1 \in DOMAIN Tail(s) /\ s[i] = Tail(s)[i - 1])
         /\ \A i \in DOMAIN Tail(s) : i \in Nat /\ i > 0
         /\ \A i \in DOMAIN s : i \in Nat /\ i > 0
  OBVIOUS

LEMMA Longer ==
  ASSUME NEW S, NEW s \in Seq(S), NEW x \in S
  PROVE  /\ s \o <<x>> \in Seq(S)
         /\ \A i \in DOMAIN s : i \in DOMAIN (s \o <<x>>) /\ (s \o <<x>>)[i] = s[i]
                                /\ i < Len(s) + 1 /\ i \in Nat
         /\ Len(s) + 1 \in DOMAIN (s \o <<x>>) /\ (s \o <<x>>)[Len(s) + 1] = x
         /\ \A i \in DOMAIN (s \o <<x>>) : i \in DOMAIN s \/ i = Len(s) + 1
         /\ Len(s) \in Nat
  OBVIOUS

LEMMA HeadTail ==
  ASSUME NEW S, NEW s \in Seq(S), s # <<>>, NEW A, NEW B
  PROVE  /\ Holds(s, A) <=> (Head(s) \in A \/ Holds(Tail(s), A))
         /\ Within(s, A) <=> (Head(s) \in A /\ Within(Tail(s), A))
         /\ OnceIn(s, A) <=> (OnceIn(Tail(s), A) /\ (Head(s) \in A => ~Holds(Tail(s), A)))
         /\ OnlyAfter(s, A, B) <=> (OnlyAfter(Tail(s), A, B) /\ (Head(s) \in A => Within(Tail(s), B)))
<1> DEFINE t == Tail(s)
<1>1. /\ Head(s) = s[1] /\ 1 \in DOMAIN s
      /\ \A i \in DOMAIN t : i + 1 \in DOMAIN s /\ t[i] = s[i + 1] /\ i \in Nat /\ i > 0
      /\ \A i \in DOMAIN s : i \in Nat /\ i > 0 /\ (i = 1 \/ (i - 1 \in DOMAIN t /\ s[i] = t[i - 1]))
  BY Ends
<1> HIDE DEF t
<1>2. Holds(s, A) <=> (Head(s) \in A \/ Holds(t, A))
  BY <1>1 DEF Holds
<1>3. Within(s, A) <=> (Head(s) \in A /\ Within(t, A))
  BY <1>1 DEF Within
<1>4. OnceIn(s, A) <=> (OnceIn(t, A) /\ (Head(s) \in A => ~Holds(t, A)))
  <2>1. ASSUME OnceIn(s, A) PROVE OnceIn(t, A) /\ (Head(s) \in A => ~Holds(t, A))
    <3>1. ASSUME NEW i \in DOMAIN t, NEW j \in DOMAIN t, t[i] \in A, t[j] \in A PROVE i = j
      BY <1>1, <2>1, <3>1 DEF OnceIn
    <3>2. ASSUME Head(s) \in A, NEW i \in DOMAIN t, t[i] \in A PROVE FALSE
      BY <1>1, <2>1, <3>2 DEF OnceIn
    <3> QED BY <3>1, <3>2 DEF OnceIn, Holds
  <2>2. ASSUME OnceIn(t, A), Head(s) \in A => ~Holds(t, A) PROVE OnceIn(s, A)
    <3> SUFFICES ASSUME NEW i \in DOMAIN s, NEW j \in DOMAIN s, s[i] \in A, s[j] \in A PROVE i = j
      BY DEF OnceIn
    <3>1. CASE i = 1 \/ j = 1
      BY <1>1, <2>2, <3>1 DEF Holds
    <3>2. CASE i # 1 /\ j # 1
      <4>1. i - 1 = j - 1
        BY <1>1, <2>2, <3>2 DEF OnceIn
      <4> QED BY <4>1, <1>1
    <3> QED BY <3>1, <3>2
  <2> QED BY <2>1, <2>2
<1>5. OnlyAfter(s, A, B) <=> (OnlyAfter(t, A, B) /\ (Head(s) \in A => Within(t, B)))
  <2>1. ASSUME OnlyAfter(s, A, B) PROVE OnlyAfter(t, A, B) /\ (Head(s) \in A => Within(t, B))
    <3>1. ASSUME NEW i \in DOMAIN t, NEW j \in DOMAIN t, i < j, t[i] \in A PROVE t[j] \in B
      BY <1>1, <2>1, <3>1 DEF OnlyAfter
    <3>2. ASSUME Head(s) \in A, NEW i \in DOMAIN t PROVE t[i] \in B
      BY <1>1, <2>1, <3>2 DEF OnlyAfter
    <3> QED BY <3>1, <3>2 DEF OnlyAfter, Within
  <2>2. ASSUME OnlyAfter(t, A, B), Head(s) \in A => Within(t, B) PROVE OnlyAfter(s, A, B)
    <3> SUFFICES ASSUME NEW i \in DOMAIN s, NEW j \in DOMAIN s, i < j, s[i] \in A PROVE s[j] \in B
      BY DEF OnlyAfter
    <3>1. j - 1 \in DOMAIN t /\ s[j] = t[j - 1]
      BY <1>1
    <3>2. CASE i = 1
      BY <1>1, <2>2, <3>1, <3>2 DEF Within
    <3>3. CASE i # 1
      <4>1. i - 1 \in DOMAIN t /\ s[i] = t[i - 1] /\ i - 1 < j - 1
        BY <1>1, <3>3
      <4> QED BY <4>1, <2>2, <3>1 DEF OnlyAfter
    <3> QED BY <3>2, <3>3
  <2> QED BY <2>1, <2>2
<1> QED BY <1>2, <1>3, <1>4, <1>5 DEF t

LEMMA OneMore ==
  ASSUME NEW S, NEW s \in Seq(S), NEW x \in S, NEW A, NEW B
  PROVE  /\ Holds(s \o <<x>>, A) <=> (Holds(s, A) \/ x \in A)
         /\ Within(s \o <<x>>, A) <=> (Within(s, A) /\ x \in A)
         /\ OnceIn(s \o <<x>>, A) <=> (OnceIn(s, A) /\ ~(Holds(s, A) /\ x \in A))
         /\ OnlyAfter(s \o <<x>>, A, B) <=> (OnlyAfter(s, A, B) /\ (Holds(s, A) => x \in B))
<1> DEFINE t == s \o <<x>>
           n == Len(s) + 1
<1>1. /\ \A i \in DOMAIN s : i \in DOMAIN t /\ t[i] = s[i] /\ i < n /\ i \in Nat
      /\ n \in DOMAIN t /\ t[n] = x /\ n \in Nat
      /\ \A i \in DOMAIN t : i \in DOMAIN s \/ i = n
  BY Longer
<1> HIDE DEF t, n
<1>2. Holds(t, A) <=> (Holds(s, A) \/ x \in A)
  BY <1>1 DEF Holds
<1>3. Within(t, A) <=> (Within(s, A) /\ x \in A)
  BY <1>1 DEF Within
<1>4. OnceIn(t, A) <=> (OnceIn(s, A) /\ ~(Holds(s, A) /\ x \in A))
  <2>1. ASSUME OnceIn(t, A) PROVE OnceIn(s, A) /\ ~(Holds(s, A) /\ x \in A)
    <3>1. OnceIn(s, A)
      BY <1>1, <2>1 DEF OnceIn
    <3>2. ASSUME NEW i \in DOMAIN s, s[i] \in A, x \in A PROVE FALSE
      <4>1. i = n
        BY <1>1, <2>1, <3>2 DEF OnceIn
      <4> QED BY <4>1, <1>1
    <3> QED BY <3>1, <3>2 DEF Holds
  <2>2. ASSUME OnceIn(s, A), ~(Holds(s, A) /\ x \in A) PROVE OnceIn(t, A)
    BY <1>1, <2>2 DEF OnceIn, Holds
  <2> QED BY <2>1, <2>2
<1>5. OnlyAfter(t, A, B) <=> (OnlyAfter(s, A, B) /\ (Holds(s, A) => x \in B))
  <2>1. ASSUME OnlyAfter(t, A, B) PROVE OnlyAfter(s, A, B) /\ (Holds(s, A) => x \in B)
    BY <1>1, <2>1 DEF OnlyAfter, Holds
  <2>2. ASSUME OnlyAfter(s, A, B), Holds(s, A) => x \in B PROVE OnlyAfter(t, A, B)
    <3> SUFFICES ASSUME NEW i \in DOMAIN t, NEW j \in DOMAIN t, i < j, t[i] \in A PROVE t[j] \in B
      BY DEF OnlyAfter
    <3>1. i \in DOMAIN s
      BY <1>1
    <3> QED BY <3>1, <1>1, <2>2 DEF OnlyAfter, Holds
  <2> QED BY <2>1, <2>2
<1> QED BY <1>2, <1>3, <1>4, <1>5 DEF t

LEMMA None ==
  ASSUME NEW A, NEW B
  PROVE  /\ ~Holds(<<>>, A) /\ Within(<<>>, A) /\ OnceIn(<<>>, A)
         /\ OnlyAfter(<<>>, A, B)
  BY DEF Holds, Within, OnceIn, OnlyAfter

(* What follows from what.                                                 *)
LEMMA Subsets ==
  ASSUME NEW s, NEW A, NEW B
  PROVE  /\ A \subseteq B /\ Holds(s, A) => Holds(s, B)
         /\ A \subseteq B /\ Within(s, A) => Within(s, B)
         /\ Holds(s, A \cup B) <=> (Holds(s, A) \/ Holds(s, B))
         /\ A \cap B = {} /\ Within(s, A) => ~Holds(s, B)
  BY DEF Holds, Within

LEMMA More ==
  ASSUME NEW s, NEW A, NEW B
  PROVE  /\ ~Holds(s, A) => OnceIn(s, A) /\ OnlyAfter(s, A, B)
         /\ Within(s, B) => OnlyAfter(s, A, B)
  BY DEF Holds, Within, OnceIn, OnlyAfter

-----------------------------------------------------------------------------
(* The players, the events, and who has yet to hear of them.               *)

LEMMA PlayersAre ==
  /\ P1 # P2 /\ Players = {P1, P2} /\ Nobody \notin Players /\ Manager \notin Players
  /\ Opponent(P1) = P2 /\ Opponent(P2) = P1
  /\ NoMatch \notin MatchId /\ NoTimer \notin TimerId
<1>1. P1 # P2 /\ Players = {P1, P2} /\ Nobody \notin Players /\ Manager \notin Players
  BY PvpMatchesAssumption DEF Players, Nobody, Manager
<1>2. Opponent(P1) = P2 /\ Opponent(P2) = P1
  BY <1>1 DEF Opponent
<1>3. NoMatch \notin MatchId
  BY PvpMatchesAssumption DEF NoMatch, MatchId
<1>4. NoTimer \notin TimerId
  BY DEF NoTimer, TimerId
<1> QED BY <1>1, <1>2, <1>3, <1>4

LEMMA EventIs ==
  ASSUME NEW k, NEW x
  PROVE  /\ Event(k, x).kind = k /\ Event(k, x).about = x
         /\ k \in PlayerKinds /\ x \in Players => Event(k, x) \in EventSet
         /\ k = "BeginPvp" /\ x \in MatchId => Event(k, x) \in EventSet
         /\ k = "Timeout" /\ x \in TimerId => Event(k, x) \in EventSet
         /\ k = "Other" /\ x = Nobody => Event(k, x) \in EventSet
  BY DEF Event, EventSet

LEMMA EventsAre ==
  ASSUME NEW e \in EventSet
  PROVE  /\ e.kind \in PlayerKinds \cup {"Other", "BeginPvp", "Timeout"}
         /\ e.kind \in PlayerKinds => e.about \in Players
         /\ e.kind = "BeginPvp" => e.about \in MatchId
         /\ e.kind = "Timeout" => e.about \in TimerId
         /\ e.kind = "Other" => e.about = Nobody
         /\ e = Event(e.kind, e.about)
<1>1. \/ e \in [kind : {"Other"}, about : {Nobody}]
      \/ e \in [kind : {"BeginPvp"}, about : MatchId]
      \/ e \in [kind : {"Timeout"}, about : TimerId]
      \/ e \in [kind : PlayerKinds, about : Players]
  BY DEF EventSet
<1>2. CASE e \in [kind : {"Other"}, about : {Nobody}]
  BY <1>2 DEF Event, PlayerKinds, TravelKinds
<1>3. CASE e \in [kind : {"BeginPvp"}, about : MatchId]
  BY <1>3 DEF Event, PlayerKinds, TravelKinds
<1>4. CASE e \in [kind : {"Timeout"}, about : TimerId]
  BY <1>4 DEF Event, PlayerKinds, TravelKinds
<1>5. CASE e \in [kind : PlayerKinds, about : Players]
  BY <1>5 DEF Event, PlayerKinds, TravelKinds
<1> QED BY <1>1, <1>2, <1>3, <1>4, <1>5

LEMMA SubscribersAre ==
  ASSUME NEW e
  PROVE  /\ Len(Subscribers(e)) = IF e.kind = "ReadyForAssignment" THEN 3 ELSE 2
         /\ e.kind = "ReadyForAssignment" =>
              /\ Subscribers(e)[1] = Manager /\ Subscribers(e)[2] = P1 /\ Subscribers(e)[3] = P2
         /\ e.kind # "ReadyForAssignment" => Subscribers(e)[1] = P1 /\ Subscribers(e)[2] = P2
  BY DEF Subscribers

LEMMA ManySubscribers ==
  \A e : Len(Subscribers(e)) # 1 /\ 1 <= Len(Subscribers(e))
<1> TAKE e
<1> PICK n : n = Len(Subscribers(e)) OBVIOUS
<1>1. CASE e.kind = "ReadyForAssignment"
  <2>1. n = 3 BY <1>1, SubscribersAre
  <2> QED BY <2>1
<1>2. CASE e.kind # "ReadyForAssignment"
  <2>1. n = 2 BY <1>2, SubscribersAre
  <2> QED BY <2>1
<1> QED BY <1>1, <1>2

LEMMA Turns ==
  ASSUME QueueOK
  PROVE  /\ Turn(P2) <=> Behind
         /\ Turn(P1) => queue # <<>> /\ ~Behind /\ Box1 = queue
                        /\ turn = (IF Head(queue).kind = "ReadyForAssignment" THEN 2 ELSE 1)
         /\ Turn(Manager) => queue # <<>> /\ ~Behind /\ turn = 1
                             /\ Head(queue).kind = "ReadyForAssignment"
         /\ Behind => /\ queue # <<>> /\ Box1 = Tail(queue) /\ ManagerBox = Tail(queue)
                      /\ turn = (IF Head(queue).kind = "ReadyForAssignment" THEN 3 ELSE 2)
         /\ ~Behind => Box1 = queue
         /\ turn = 1 => ManagerBox = queue
         /\ turn # 1 => queue # <<>> /\ ManagerBox = Tail(queue)
         /\ queue # <<>> => queue = <<Head(queue)>> \o Tail(queue) /\ Head(queue) \in EventSet
                            /\ Tail(queue) \in Seq(EventSet)
         /\ Box1 \in Seq(EventSet) /\ ManagerBox \in Seq(EventSet) /\ queue \in Seq(EventSet)
<1>1. queue \in Seq(EventSet) /\ turn \in 1..3
      /\ (IF queue = <<>> THEN turn = 1 ELSE turn <= Len(Subscribers(Head(queue))))
  BY DEF QueueOK
<1>2. queue # <<>> => queue = <<Head(queue)>> \o Tail(queue) /\ Head(queue) \in EventSet
                      /\ Tail(queue) \in Seq(EventSet)
  BY <1>1
<1>3. P1 # P2 /\ P1 # Manager /\ P2 # Manager
  BY PlayersAre
<1> DEFINE h == Head(queue)
<1>4. CASE h.kind = "ReadyForAssignment"
  <2>1. /\ Len(Subscribers(h)) = 3
        /\ Subscribers(h)[1] = Manager /\ Subscribers(h)[2] = P1 /\ Subscribers(h)[3] = P2
    BY <1>4, SubscribersAre
  <2>2. queue = <<>> \/ turn = 1 \/ turn = 2 \/ turn = 3
    BY <1>1
  <2> QED BY <1>1, <1>2, <1>3, <1>4, <2>1, <2>2 DEF Turn, Behind, Box1, ManagerBox
<1>5. CASE h.kind # "ReadyForAssignment"
  <2>1. Len(Subscribers(h)) = 2 /\ Subscribers(h)[1] = P1 /\ Subscribers(h)[2] = P2
    BY <1>5, SubscribersAre
  <2>2. queue = <<>> \/ turn = 1 \/ turn = 2
    <3>1. queue # <<>> => turn <= Len(Subscribers(h))
      BY <1>1
    <3>2. PICK n : n = Len(Subscribers(h)) OBVIOUS
    <3>3. n = 2 /\ (queue # <<>> => turn <= n)
      BY <3>1, <3>2, <2>1
    <3> QED BY ONLY <3>3, <1>1
  <2>3. queue # <<>> /\ turn = 1 => Subscribers(h)[turn] = P1
    BY <2>1
  <2>4. queue # <<>> /\ turn = 2 => Subscribers(h)[turn] = P2
    BY <2>1
  <2>5. turn = 1 => (Turn(P1) <=> queue # <<>>) /\ ~Turn(P2) /\ ~Turn(Manager)
    BY <1>3, <2>3 DEF Turn
  <2>6. turn = 2 => (Turn(P2) <=> queue # <<>>) /\ ~Turn(P1) /\ ~Turn(Manager)
    BY <1>3, <2>4 DEF Turn
  <2>7. queue = <<>> => ~Turn(P1) /\ ~Turn(P2) /\ ~Turn(Manager) /\ turn = 1
    BY <1>1 DEF Turn
  <2>8. Behind <=> queue # <<>> /\ turn = 2
    BY <2>1 DEF Behind
  <2>9. Turn(P2) <=> Behind
    BY <2>2, <2>5, <2>6, <2>7, <2>8
  <2>10. (Turn(P1) => queue # <<>> /\ turn = 1) /\ ~Turn(Manager)
    BY <2>2, <2>5, <2>6, <2>7
  <2>11. Box1 = (IF Behind THEN Tail(queue) ELSE queue) /\ ManagerBox = (IF turn = 1 THEN queue ELSE Tail(queue))
    BY DEF Box1, ManagerBox
  <2>12. turn # 1 => queue # <<>>
    BY <2>7
  <2>13. Box1 \in Seq(EventSet) /\ ManagerBox \in Seq(EventSet)
    BY <1>1, <1>2, <2>8, <2>11, <2>12
  <2> QED BY ONLY <1>1, <1>2, <1>5, <2>8, <2>9, <2>10, <2>11, <2>12, <2>13
<1> QED BY <1>4, <1>5

(* Events that are published, one or more: out.                            *)
LEMMA Joined ==
  ASSUME NEW S, NEW h \in S, NEW y \in Seq(S), NEW out \in Seq(S)
  PROVE  /\ <<h>> \o y \in Seq(S) /\ <<h>> \o y # <<>> /\ y \o out \in Seq(S)
         /\ Head(<<h>> \o y) = h /\ Tail(<<h>> \o y) = y
         /\ (<<h>> \o y) \o out = <<h>> \o (y \o out)
  OBVIOUS

LEMMA Headed ==
  ASSUME NEW S, NEW h \in S, NEW y \in Seq(S)
  PROVE  <<h>> \o y \in Seq(S) /\ <<h>> \o y # <<>> /\ Head(<<h>> \o y) = h /\ Tail(<<h>> \o y) = y
  OBVIOUS

LEMMA Appended ==
  ASSUME QueueOK, NEW out \in Seq(EventSet), queue' = queue \o out, turn' = turn
  PROVE  /\ QueueOK' /\ (Behind' <=> Behind) /\ (queue # <<>> => Head(queue') = Head(queue))
         /\ Box1' = Box1 \o out /\ ManagerBox' = ManagerBox \o out
<1>1. CASE queue = <<>>
  <2>1. queue' = out /\ turn' = 1 /\ turn = 1
    BY <1>1 DEF QueueOK
  <2>2. \A e : 1 # Len(Subscribers(e)) /\ 1 <= Len(Subscribers(e))
    BY ManySubscribers
  <2>3. ~Behind /\ ~Behind'
    BY <1>1, <2>1, <2>2 DEF Behind
  <2> QED BY <1>1, <2>1, <2>2, <2>3 DEF QueueOK, Box1, ManagerBox
<1>2. CASE queue # <<>>
  <2> DEFINE h == Head(queue)
             y == Tail(queue)
  <2>1. h \in EventSet /\ y \in Seq(EventSet) /\ queue = <<h>> \o y
    BY <1>2, Turns
  <2>2. queue' = <<h>> \o (y \o out) /\ y \o out \in Seq(EventSet)
    BY <2>1, Joined
  <2>3. queue' # <<>> /\ Head(queue') = h /\ Tail(queue') = y \o out /\ queue' \in Seq(EventSet)
    <3>1. PICK w : w = y \o out OBVIOUS
    <3>2. PICK a : a = h OBVIOUS
    <3>3. w \in Seq(EventSet) /\ a \in EventSet /\ queue' = <<a>> \o w
      BY <3>1, <3>2, <2>1, <2>2
    <3> QED BY <3>1, <3>2, <3>3, Headed
  <2>4. (Behind' <=> Behind) /\ QueueOK'
    BY <1>2, <2>3 DEF QueueOK, Behind
  <2>5. turn # 1 => ManagerBox' = y \o out /\ ManagerBox = y
    BY <2>3 DEF ManagerBox
  <2>6. turn = 1 => ManagerBox' = queue \o out /\ ManagerBox = queue
    BY DEF ManagerBox
  <2>7. Behind => Box1' = y \o out /\ Box1 = y
    BY <2>3, <2>4 DEF Box1
  <2>8. ~Behind => Box1' = queue \o out /\ Box1 = queue
    BY <2>4 DEF Box1
  <2> QED BY <2>3, <2>4, <2>5, <2>6, <2>7, <2>8
<1> QED BY <1>1, <1>2

(* An event that player 1 or player 2 has heard: z is what is left behind  *)
(* it, out what is published.                                              *)
LEMMA HeardByFirst ==
  ASSUME QueueOK, Turn(P1), NEW z \in Seq(EventSet), NEW out \in Seq(EventSet),
         EndTurn((<<Head(queue)>> \o z) \o out)
  PROVE  /\ QueueOK' /\ Behind' /\ queue' = <<Head(queue)>> \o (z \o out)
         /\ Head(queue') = Head(queue) /\ Box1' = z \o out /\ ManagerBox' = z \o out
<1>1. PICK h : h = Head(queue)
  OBVIOUS
<1>2. PICK k : k = turn
  OBVIOUS
<1>3. h \in EventSet /\ queue # <<>> /\ k = (IF h.kind = "ReadyForAssignment" THEN 2 ELSE 1)
  BY <1>1, <1>2, Turns, Zenon
<1>4. Len(Subscribers(h)) = (IF h.kind = "ReadyForAssignment" THEN 3 ELSE 2)
  BY SubscribersAre
<1>5. k # Len(Subscribers(h)) /\ k + 1 = Len(Subscribers(h)) /\ k + 1 \in 1..3 /\ k + 1 # 1
  BY ONLY <1>3, <1>4
<1>6. queue' = (<<h>> \o z) \o out /\ turn' = k + 1
  BY <1>1, <1>2, <1>5 DEF EndTurn
<1>7. z \o out \in Seq(EventSet) /\ (<<h>> \o z) \o out = <<h>> \o (z \o out)
  BY <1>3, Joined
<1>8. queue' # <<>> /\ Head(queue') = h /\ Tail(queue') = z \o out /\ queue' \in Seq(EventSet)
  <2>1. PICK w : w = z \o out OBVIOUS
  <2>2. w \in Seq(EventSet) /\ queue' = <<h>> \o w
    BY <2>1, <1>6, <1>7
  <2> QED BY <2>1, <2>2, <1>3, Headed
<1>9. turn' = Len(Subscribers(Head(queue'))) /\ turn' \in 1..3 /\ turn' # 1
  BY <1>5, <1>6, <1>8
<1>10. Behind' /\ QueueOK'
  BY <1>8, <1>9 DEF QueueOK, Behind
<1> QED BY <1>1, <1>6, <1>7, <1>8, <1>9, <1>10 DEF Box1, ManagerBox

LEMMA HeardBySecond ==
  ASSUME QueueOK, Turn(P2), NEW z \in Seq(EventSet), NEW out \in Seq(EventSet),
         EndTurn((<<Head(queue)>> \o z) \o out)
  PROVE  /\ QueueOK' /\ ~Behind' /\ queue' = z \o out /\ turn' = 1
         /\ Box1' = z \o out /\ ManagerBox' = z \o out
<1>1. PICK h : h = Head(queue)
  OBVIOUS
<1>2. h \in EventSet /\ queue # <<>> /\ turn = Len(Subscribers(h))
  BY <1>1, Turns DEF Behind
<1>3. queue' = Tail((<<h>> \o z) \o out) /\ turn' = 1
  BY <1>1, <1>2 DEF EndTurn
<1>4. (<<h>> \o z) \o out = <<h>> \o (z \o out) /\ z \o out \in Seq(EventSet)
  BY <1>2, Joined
<1>5. queue' = z \o out /\ queue' \in Seq(EventSet)
  <2>1. PICK w : w = z \o out OBVIOUS
  <2>2. w \in Seq(EventSet) /\ queue' = Tail(<<h>> \o w)
    BY <2>1, <1>3, <1>4
  <2> QED BY <2>1, <2>2, <1>2, Headed
<1>7. Len(Subscribers(Head(queue'))) # 1 /\ 1 <= Len(Subscribers(Head(queue')))
  <2>1. PICK a : a = Head(queue') OBVIOUS
  <2>2. Len(Subscribers(a)) # 1 /\ 1 <= Len(Subscribers(a)) BY ManySubscribers
  <2> QED BY <2>1, <2>2
<1>8. QueueOK' /\ ~Behind'
  BY <1>3, <1>5, <1>7 DEF QueueOK, Behind
<1> QED BY <1>3, <1>5, <1>8 DEF Box1, ManagerBox
-----------------------------------------------------------------------------
(* What a cancelled event leaves of the queue.                             *)

Skips(y, z, k) ==
  /\ k \in DOMAIN y /\ Len(z) = Len(y) - 1
  /\ \A j \in DOMAIN z : z[j] = IF j < k THEN y[j] ELSE y[j + 1]
Spares(y, z, t) ==
  \A A, B \in SUBSET EventSet :
    /\ Holds(z, A) => Holds(y, A)
    /\ Holds(y, A) /\ A \cap EvOf("Timeout", t) = {} => Holds(z, A)
    /\ Within(y, A) => Within(z, A)
    /\ OnceIn(y, A) => OnceIn(z, A)
    /\ OnlyAfter(y, A, B) => OnlyAfter(z, A, B)

LEMMA Skipping ==
  ASSUME NEW S, NEW s \in Seq(S), s # <<>>, NEW i \in 2..Len(s)
  PROVE  \E z \in Seq(S) : WithoutAt(s, i) = <<Head(s)>> \o z /\ Skips(Tail(s), z, i - 1)
<1> DEFINE n == Len(s)
           a == SubSeq(s, 1, i - 1)
           b == SubSeq(s, i + 1, n)
           w == a \o b
           z == Tail(w)
           y == Tail(s)
<1>1. n \in Nat /\ i \in Nat /\ 2 <= i /\ i <= n
  OBVIOUS
<1>2. /\ a \in Seq(S) /\ Len(a) = i - 1
      /\ \A j \in 1..(i - 1) : a[j] = s[j]
  BY <1>1
<1>3. /\ b \in Seq(S) /\ Len(b) = n - i
      /\ \A j \in 1..(n - i) : b[j] = s[j + i]
  BY <1>1
<1> HIDE DEF a, b
<1>4. /\ w \in Seq(S) /\ Len(w) = n - 1
      /\ \A j \in 1..(i - 1) : w[j] = s[j]
  <2>1. PICK p, q : p = a /\ q = b /\ p \in Seq(S) /\ q \in Seq(S)
    BY <1>2, <1>3
  <2>2. p \o q \in Seq(S) /\ Len(p \o q) = Len(p) + Len(q)
        /\ \A j \in 1..Len(p) : (p \o q)[j] = p[j]
    BY ONLY <2>1
  <2>3. Len(p) = i - 1 /\ Len(q) = n - i
    BY <2>1, <1>2, <1>3
  <2>4. (i - 1) + (n - i) = n - 1
    BY ONLY <1>1
  <2>5. \A j \in 1..(i - 1) : w[j] = p[j]
    BY <2>1, <2>2, <2>3
  <2> QED BY <2>1, <2>2, <2>3, <2>4, <2>5, <1>2
<1>5. \A j \in i..(n - 1) : w[j] = s[j + 1]
  <2> TAKE j \in i..(n - 1)
  <2>1. w[j] = b[j - (i - 1)] /\ j - (i - 1) \in 1..(n - i)
    BY <1>1, <1>2, <1>3
  <2>2. b[j - (i - 1)] = s[(j - (i - 1)) + i] /\ (j - (i - 1)) + i = j + 1
    BY <2>1, <1>1, <1>3
  <2> QED BY <2>1, <2>2
<1>6. WithoutAt(s, i) = w
  BY DEF WithoutAt, a, b
<1> HIDE DEF w
<1>7. w # <<>> /\ w[1] = s[1]
  BY <1>1, <1>4
<1>8. w = <<Head(s)>> \o z /\ z \in Seq(S)
  BY <1>4, <1>7
<1>9. /\ Len(z) = n - 2 /\ Len(y) = n - 1 /\ DOMAIN z = 1..(n - 2) /\ DOMAIN y = 1..(n - 1)
      /\ \A j \in 1..(n - 2) : z[j] = w[j + 1]
      /\ \A j \in 1..(n - 1) : y[j] = s[j + 1]
  BY <1>1, <1>4, <1>7
<1> HIDE DEF z, y, n
<1>10. i - 1 \in DOMAIN y /\ Len(z) = Len(y) - 1
  BY ONLY <1>1, <1>9
<1>11. ASSUME NEW j \in DOMAIN z PROVE z[j] = IF j < i - 1 THEN y[j] ELSE y[j + 1]
  <2>1. j \in 1..(n - 2) /\ z[j] = w[j + 1]
    BY <1>9
  <2>2. CASE j < i - 1
    <3>1. j + 1 \in 1..(i - 1) /\ j \in 1..(n - 1)
      BY ONLY <2>1, <2>2, <1>1
    <3> QED BY <3>1, <2>1, <2>2, <1>4, <1>9
  <2>3. CASE ~(j < i - 1)
    <3>1. j + 1 \in i..(n - 1) /\ j + 1 \in 1..(n - 1)
      BY ONLY <2>1, <2>3, <1>1
    <3>2. w[j + 1] = s[(j + 1) + 1] /\ y[j + 1] = s[(j + 1) + 1]
      BY <3>1, <1>5, <1>9
    <3> QED BY <3>2, <2>1, <2>3
  <2> QED BY <2>2, <2>3
<1> QED BY <1>6, <1>8, <1>10, <1>11 DEF Skips, y

LEMMA Skipped ==
  ASSUME NEW S, NEW y \in Seq(S), NEW z \in Seq(S), NEW k, Skips(y, z, k), NEW A, NEW B
  PROVE  /\ Holds(z, A) => Holds(y, A)
         /\ Holds(y, A) /\ y[k] \notin A => Holds(z, A)
         /\ Within(y, A) => Within(z, A)
         /\ OnceIn(y, A) => OnceIn(z, A)
         /\ OnlyAfter(y, A, B) => OnlyAfter(z, A, B)
<1> DEFINE f(j) == IF j < k THEN j ELSE j + 1
<1>1. k \in 1..Len(y) /\ Len(z) = Len(y) - 1 /\ DOMAIN y = 1..Len(y) /\ DOMAIN z = 1..(Len(y) - 1)
      /\ Len(y) \in Nat
  BY DEF Skips
<1>2. \A j \in DOMAIN z : f(j) \in DOMAIN y /\ z[j] = y[f(j)]
  <2> TAKE j \in DOMAIN z
  <2>1. z[j] = IF j < k THEN y[j] ELSE y[j + 1]
    BY DEF Skips
  <2>2. f(j) \in DOMAIN y
    BY ONLY <1>1
  <2> QED BY <2>1, <2>2
<1>3. \A i, j \in DOMAIN z : (i < j <=> f(i) < f(j)) /\ (f(i) = f(j) => i = j)
  BY ONLY <1>1
<1>4. \A j \in DOMAIN y : j # k => \E i \in DOMAIN z : f(i) = j
  <2> TAKE j \in DOMAIN y
  <2> HAVE j # k
  <2>1. CASE j < k
    <3>1. j \in DOMAIN z /\ f(j) = j BY ONLY <1>1, <2>1
    <3> QED BY <3>1
  <2>2. CASE ~(j < k)
    <3>1. j - 1 \in DOMAIN z /\ f(j - 1) = j BY ONLY <1>1, <2>2, j # k, j \in DOMAIN y
    <3> QED BY <3>1
  <2> QED BY <2>1, <2>2
<1> HIDE DEF f
<1>5. Holds(z, A) => Holds(y, A)
  BY <1>2 DEF Holds
<1>6. Holds(y, A) /\ y[k] \notin A => Holds(z, A)
  BY <1>2, <1>4 DEF Holds
<1>7. Within(y, A) => Within(z, A)
  BY <1>2 DEF Within
<1>8. OnceIn(y, A) => OnceIn(z, A)
  BY <1>2, <1>3 DEF OnceIn
<1>9. OnlyAfter(y, A, B) => OnlyAfter(z, A, B)
  BY <1>2, <1>3 DEF OnlyAfter
<1> QED BY <1>5, <1>6, <1>7, <1>8, <1>9

LEMMA SparesNone ==
  ASSUME NEW y, NEW t
  PROVE  Spares(y, y, t)
  BY DEF Spares

LEMMA UncancelledIs ==
  ASSUME QueueOK, queue # <<>>, NEW r, NEW t, r.cancel = {} \/ r.cancel = {t}
  PROVE  \E z \in Seq(EventSet) :
           /\ Uncancelled(r) = <<Head(queue)>> \o z
           /\ Spares(Tail(queue), z, t)
           /\ r.cancel = {} => z = Tail(queue)
<1> DEFINE due == {i \in 2..Len(queue) : \E c \in r.cancel : Is(queue[i], "Timeout", c)}
<1>1. queue \in Seq(EventSet) /\ Tail(queue) \in Seq(EventSet) /\ queue = <<Head(queue)>> \o Tail(queue)
  BY DEF QueueOK
<1>2. CASE due = {}
  <2>1. Uncancelled(r) = queue
    BY <1>2 DEF Uncancelled
  <2> QED BY <2>1, <1>1, SparesNone
<1>3. CASE due # {}
  <2> DEFINE k == CHOOSE i \in due : TRUE
  <2>1. k \in due
    BY <1>3
  <2>2. Uncancelled(r) = WithoutAt(queue, k)
    BY <1>3 DEF Uncancelled
  <2>3. k \in 2..Len(queue) /\ r.cancel = {t} /\ Is(queue[k], "Timeout", t)
    BY <2>1
  <2> HIDE DEF k, due
  <2>4. PICK i, s : i = k /\ s = queue
    OBVIOUS
  <2>5. PICK z \in Seq(EventSet) : WithoutAt(s, i) = <<Head(s)>> \o z /\ Skips(Tail(s), z, i - 1)
    BY <2>3, <2>4, <1>1, Skipping
  <2>6. Tail(s)[i - 1] = s[i] /\ Tail(s) \in Seq(EventSet) /\ s[i] \in EventSet
    BY <2>3, <2>4, <1>1
  <2>7. s[i] \in EvOf("Timeout", t)
    BY <2>3, <2>4, <2>6 DEF EvOf, Is
  <2>8. Spares(Tail(s), z, t)
    <3> DEFINE y == Tail(s)
    <3> SUFFICES ASSUME NEW A \in SUBSET EventSet, NEW B \in SUBSET EventSet
                 PROVE  /\ Holds(z, A) => Holds(y, A)
                        /\ Holds(y, A) /\ A \cap EvOf("Timeout", t) = {} => Holds(z, A)
                        /\ Within(y, A) => Within(z, A)
                        /\ OnceIn(y, A) => OnceIn(z, A)
                        /\ OnlyAfter(y, A, B) => OnlyAfter(z, A, B)
      BY DEF Spares
    <3>1. PICK j : j = i - 1 OBVIOUS
    <3>2. Skips(y, z, j) /\ y \in Seq(EventSet) /\ y[j] = s[i]
      BY <3>1, <2>5, <2>6
    <3> HIDE DEF y
    <3>3. /\ Holds(z, A) => Holds(y, A)
          /\ Holds(y, A) /\ y[j] \notin A => Holds(z, A)
          /\ Within(y, A) => Within(z, A)
          /\ OnceIn(y, A) => OnceIn(z, A)
          /\ OnlyAfter(y, A, B) => OnlyAfter(z, A, B)
      BY <3>2, Skipped
    <3>4. A \cap EvOf("Timeout", t) = {} => y[j] \notin A
      BY <3>2, <2>7
    <3> QED BY <3>3, <3>4
  <2> QED BY <2>2, <2>3, <2>4, <2>5, <2>8
<1> QED BY <1>2, <1>3
-----------------------------------------------------------------------------
(* What an update gives, one by one; nothing is thrown.                    *)

Gives(r, m, out, sent, arm, cancel, hit, report, done) ==
  /\ DOMAIN r = {"m", "out", "sent", "arm", "cancel", "hit", "report", "done", "threw"}
  /\ r.m = m /\ r.out = out /\ r.sent = sent /\ r.arm = arm /\ r.cancel = cancel
  /\ r.hit = hit /\ r.report = report /\ r.done = done /\ r.threw = {}
Strikes(r, m, hit) == Gives(r, m, <<>>, {}, FALSE, {}, hit, FALSE, FALSE)
Tells(r, m, out) == Gives(r, m, out, {}, FALSE, {}, FALSE, FALSE, FALSE)

LEMMA NothingIs ==
  ASSUME NEW m
  PROVE  Tells(Nothing(m), m, <<>>) /\ Strikes(Nothing(m), m, FALSE)
  BY DEF Nothing, Gives, Tells, Strikes

LEMMA ThenStrikes ==
  ASSUME NEW r, NEW s, NEW m, NEW n, NEW out \in Seq(EventSet), NEW hit \in BOOLEAN,
         Tells(r, m, out), Strikes(s, n, hit)
  PROVE  Gives(Then(r, s), n, out, {}, FALSE, {}, hit, FALSE, FALSE)
<1>1. out \o <<>> = out
  OBVIOUS
<1> QED BY <1>1 DEF Then, Gives, Tells, Strikes

LEMMA ThenOver ==
  ASSUME NEW r, NEW s, NEW m, NEW n, NEW out \in Seq(EventSet), NEW sent, NEW arm \in BOOLEAN,
         Gives(r, m, <<>>, {}, FALSE, {}, FALSE, TRUE, TRUE),
         Gives(s, n, out, sent, arm, {}, FALSE, FALSE, FALSE)
  PROVE  Gives(Then(r, s), n, out, sent, arm, {}, FALSE, TRUE, FALSE)
<1>1. <<>> \o out = out /\ sent \cup {} = sent
  OBVIOUS
<1> QED BY <1>1 DEF Then, Gives

LEMMA ThenAlive ==
  ASSUME NEW r, NEW s, NEW m, NEW n, NEW out \in Seq(EventSet), NEW cancel,
         Gives(r, m, <<>>, {}, FALSE, cancel, FALSE, FALSE, TRUE), Tells(s, n, out)
  PROVE  Gives(Then(r, s), n, out, {}, FALSE, cancel, FALSE, FALSE, FALSE)
<1>1. <<>> \o out = out /\ {} \cup cancel = cancel
  OBVIOUS
<1> QED BY <1>1 DEF Then, Gives, Tells

LEMMA ActorIs ==
  ASSUME NEW p \in Players, NEW m \in Bot, NEW e \in EventSet, m.selfEntity, count[m.foe] # 0,
         ~(e.kind = "LifeStateChanged" /\ life[e.about] = "dead")
  PROVE  \E hit \in BOOLEAN : Strikes(UpdateActor(p, m, e), m, hit)
<1>1. CASE ~Relevant(m, e)
  BY <1>1, NothingIs DEF UpdateActor
<1>2. CASE Relevant(m, e)
  <2>1. UpdateActor(p, m, e) = [Nothing(m) EXCEPT !.hit = TRUE]
    BY <1>2 DEF UpdateActor
  <2>2. Strikes([Nothing(m) EXCEPT !.hit = TRUE], m, TRUE)
    BY DEF Nothing, Strikes, Gives
  <2> QED BY <2>1, <2>2
<1> QED BY <1>1, <1>2

(* The last report of a fight.                                             *)
LEMMA LastActorIs ==
  ASSUME NEW p \in Players, NEW m \in Bot, NEW e \in EventSet, m.selfEntity, count[m.foe] # 0,
         e.kind = "LifeStateChanged", life[e.about] = "dead", e.about \in {p, m.foe}
  PROVE  Gives(UpdateActor(p, m, e), m, <<>>, {}, FALSE, {}, FALSE, TRUE, TRUE)
<1>1. Relevant(m, e)
  BY DEF Relevant
<1>2. UpdateActor(p, m, e) = [Nothing(m) EXCEPT !.report = TRUE, !.done = TRUE]
  BY <1>1 DEF UpdateActor
<1>3. Gives([Nothing(m) EXCEPT !.report = TRUE, !.done = TRUE], m, <<>>, {}, FALSE, {}, FALSE, TRUE, TRUE)
  BY DEF Nothing, Gives
<1> QED BY <1>2, <1>3

(* A fight that begins: the bot in the fight.                              *)
Fighting(m) ==
  [m EXCEPT !.gotOption = FALSE, !.child = "actor", !.eventId = NoTimer,
            !.optionAlready = FALSE, !.foe = m.opponent, !.fight = m.descriptor]

LEMMA FightingIs ==
  ASSUME NEW m \in Bot
  PROVE  LET k == Fighting(m)
         IN /\ k \in Bot /\ k.selfEntity = m.selfEntity /\ k.initialized = m.initialized
            /\ k.opponent = m.opponent /\ k.descriptor = m.descriptor /\ k.published = m.published
            /\ k.weAreReady = m.weAreReady /\ k.opponentIsReady = m.opponentIsReady
            /\ ~k.gotOption /\ k.child = "actor" /\ k.eventId = NoTimer
            /\ k.foe = m.opponent /\ k.fight = m.descriptor
  BY DEF Fighting, Bot, NoTimer

LEMMA StartIs ==
  ASSUME NEW p \in Players, NEW m \in Bot, NEW e \in EventSet, m.selfEntity,
         m.opponent = Opponent(p), m.descriptor # NoMatch, m.child # "resurrect",
         count[m.opponent] # 0, ~(e.kind = "LifeStateChanged" /\ life[e.about] = "dead")
  PROVE  \E hit \in BOOLEAN : Strikes(StartPvp(p, m, e), Fighting(m), hit)
<1> DEFINE k == Fighting(m)
<1>1. k \in Bot /\ k.selfEntity /\ k.foe = m.opponent
  BY FightingIs
<1>2. StartPvp(p, m, e) = Then([Nothing(k) EXCEPT !.cancel = Destroyed(m)], UpdateActor(p, k, e))
  BY PlayersAre DEF StartPvp, k, Fighting
<1> HIDE DEF k
<1>3. PICK hit \in BOOLEAN : Strikes(UpdateActor(p, k, e), k, hit)
  BY <1>1, ActorIs
<1>4. Destroyed(m) = {}
  BY DEF Destroyed
<1>5. Gives([Nothing(k) EXCEPT !.cancel = {}], k, <<>>, {}, FALSE, {}, FALSE, FALSE, FALSE)
  BY DEF Nothing, Gives
<1>6. <<>> \in Seq(EventSet)
  OBVIOUS
<1>7. PICK s, t : s = UpdateActor(p, k, e) /\ t = [Nothing(k) EXCEPT !.cancel = {}]
  OBVIOUS
<1>8. PICK none : none = <<>>
  OBVIOUS
<1>9. Gives(Then(t, s), k, none, {}, FALSE, {}, hit, FALSE, FALSE)
  <2>1. Tells(t, k, none) /\ none \in Seq(EventSet)
    BY <1>5, <1>6, <1>7, <1>8 DEF Tells
  <2> QED BY <1>3, <1>7, <2>1, ThenStrikes
<1> QED BY <1>2, <1>4, <1>7, <1>8, <1>9 DEF Strikes, k

LEMMA WarpIs ==
  ASSUME NEW m \in Bot, NEW e \in EventSet
  PROVE  \/ UpdateWarp(m, e) = Nothing(m)
         \/ /\ m.selfEntity
            /\ \E cancel \in {{}, {m.eventId}} :
                 /\ cancel # {} => m.eventId # NoTimer /\ e.kind = "WarpRefused"
                 /\ Gives(UpdateWarp(m, e), [m EXCEPT !.eventId = NoTimer], <<>>, {"warp"}, TRUE,
                          cancel, FALSE, FALSE, FALSE)
<1> DEFINE cancel == IF e.kind = "WarpRefused" /\ m.eventId # NoTimer THEN {m.eventId} ELSE {}
           k == [m EXCEPT !.eventId = NoTimer]
<1>1. CASE ~m.selfEntity
  BY <1>1 DEF UpdateWarp
<1>2. CASE m.selfEntity /\ m.eventId # NoTimer /\ e.kind \notin {"Timeout", "WarpRefused"}
  BY <1>2 DEF UpdateWarp
<1>3. CASE m.selfEntity /\ ~(m.eventId # NoTimer /\ e.kind \notin {"Timeout", "WarpRefused"})
  <2>1. UpdateWarp(m, e) = [Nothing(k) EXCEPT !.sent = {"warp"}, !.arm = TRUE, !.cancel = cancel]
    BY <1>3 DEF UpdateWarp
  <2> HIDE DEF cancel, k
  <2>2. Gives([Nothing(k) EXCEPT !.sent = {"warp"}, !.arm = TRUE, !.cancel = cancel], k, <<>>,
              {"warp"}, TRUE, cancel, FALSE, FALSE, FALSE)
    BY DEF Nothing, Gives
  <2>3. cancel \in {{}, {m.eventId}} /\ (cancel # {} => m.eventId # NoTimer /\ e.kind = "WarpRefused")
    BY DEF cancel
  <2> QED BY <1>3, <2>1, <2>2, <2>3 DEF k
<1> QED BY <1>1, <1>2, <1>3

(* An event of this bot that is published.                                 *)
LEMMA OwnEvents ==
  ASSUME NEW p \in Players
  PROVE  /\ Event("ReadyForPvp", p) \in Reports(p) /\ <<Event("ReadyForPvp", p)>> \in Seq(EventSet)
         /\ Event("ReadyForAssignment", p) \in Asks(p)
         /\ <<Event("ReadyForAssignment", p)>> \in Seq(EventSet)
<1>1. Event("ReadyForPvp", p) \in EventSet /\ Event("ReadyForAssignment", p) \in EventSet
  BY EventIs DEF PlayerKinds
<1> QED BY <1>1, EventIs DEF Reports, Asks, EvOf

(* A preparation that ends.                                                *)
Prepared(m) == [m EXCEPT !.child = "none", !.eventId = NoTimer, !.weAreReady = TRUE]

LEMMA PreparedIs ==
  ASSUME NEW m \in Bot
  PROVE  LET k == Prepared(m)
         IN /\ k \in Bot /\ k.selfEntity = m.selfEntity /\ k.initialized = m.initialized
            /\ k.opponent = m.opponent /\ k.descriptor = m.descriptor /\ k.published = m.published
            /\ k.weAreReady /\ k.opponentIsReady = m.opponentIsReady
            /\ k.gotOption = m.gotOption /\ k.child = "none" /\ k.eventId = NoTimer
            /\ k.foe = m.foe /\ k.fight = m.fight
  BY DEF Prepared, Bot, NoTimer

LEMMA PreparationIs ==
  ASSUME NEW p \in Players, NEW m \in Bot, NEW e \in EventSet, rested \in [Players -> BOOLEAN],
         near \in [Players -> BOOLEAN],
         rested[p] /\ m.opponentIsReady =>
           /\ m.descriptor # NoMatch /\ m.opponent = Opponent(p) /\ count[m.opponent] # 0
           /\ ~(e.kind = "LifeStateChanged" /\ life[e.about] = "dead")
  PROVE  LET r == UpdatePreparation(p, m, e)
         IN \/ Strikes(r, m, FALSE)
            \/ /\ m.selfEntity /\ ~near[p]
               /\ \E cancel \in {{}, {m.eventId}} :
                    /\ cancel # {} => m.eventId # NoTimer /\ e.kind = "WarpRefused"
                    /\ Gives(r, [m EXCEPT !.eventId = NoTimer], <<>>, {"warp"}, TRUE, cancel, FALSE,
                             FALSE, FALSE)
            \/ /\ m.selfEntity /\ near[p] /\ rested[p] /\ ~m.opponentIsReady
               /\ Tells(r, Prepared(m), <<Event("ReadyForPvp", p)>>)
            \/ /\ m.selfEntity /\ near[p] /\ rested[p] /\ m.opponentIsReady
               /\ \E hit \in BOOLEAN :
                    Gives(r, Fighting(Prepared(m)), <<Event("ReadyForPvp", p)>>, {}, FALSE, {}, hit,
                          FALSE, FALSE)
<1> DEFINE r == UpdatePreparation(p, m, e)
<1>1. CASE ~m.selfEntity \/ ~near[p]
  <2>1. r = UpdateWarp(m, e)
    BY <1>1 DEF UpdatePreparation
  <2>2. CASE UpdateWarp(m, e) = Nothing(m)
    BY <2>1, <2>2, NothingIs
  <2>3. CASE UpdateWarp(m, e) # Nothing(m)
    BY <1>1, <2>1, <2>3, WarpIs
  <2> QED BY <2>2, <2>3
<1>2. CASE m.selfEntity /\ near[p] /\ ~rested[p]
  <2>1. r = Nothing(m)
    BY <1>2 DEF UpdatePreparation
  <2> QED BY <2>1, NothingIs
<1>3. CASE m.selfEntity /\ near[p] /\ rested[p]
  <2> DEFINE k == Prepared(m)
             out == <<Event("ReadyForPvp", p)>>
             told == [Nothing(k) EXCEPT !.out = out]
  <2>1. r = IF m.opponentIsReady THEN Then(told, StartPvp(p, k, e)) ELSE told
    BY <1>3 DEF UpdatePreparation, Prepared
  <2>2. /\ k \in Bot /\ k.selfEntity /\ k.opponent = m.opponent /\ k.descriptor = m.descriptor
        /\ k.child = "none"
    BY <1>3, PreparedIs
  <2>3. out \in Seq(EventSet) 
    BY OwnEvents
  <2> HIDE DEF k, out
  <2>4. Tells(told, k, out)
    BY DEF Nothing, Gives, Tells
  <2>5. CASE ~m.opponentIsReady
    BY <1>3, <2>1, <2>4, <2>5 DEF k, out
  <2>6. CASE m.opponentIsReady
    <3>1. PICK hit \in BOOLEAN : Strikes(StartPvp(p, k, e), Fighting(k), hit)
      BY <1>3, <2>2, <2>6, StartIs
    <3>2. PICK s, t : s = StartPvp(p, k, e) /\ t = told
      OBVIOUS
    <3>3. Gives(Then(t, s), Fighting(k), out, {}, FALSE, {}, hit, FALSE, FALSE)
      BY <2>3, <2>4, <3>1, <3>2, ThenStrikes
    <3>4. Gives(r, Fighting(k), out, {}, FALSE, {}, hit, FALSE, FALSE)
      BY <2>1, <2>3, <2>6, <3>2, <3>3
    <3> QED BY <1>3, <2>6, <3>4 DEF k, out
  <2> QED BY <2>5, <2>6
<1> QED BY <1>1, <1>2, <1>3
-----------------------------------------------------------------------------
(* What an update does to a PvpManager m of player p, whose opponent is o: *)
(* how it is left, k, and what it publishes, out.                          *)

Same(m, k) ==
  /\ k.initialized = m.initialized /\ k.descriptor = m.descriptor /\ k.published = m.published
  /\ k.weAreReady = m.weAreReady /\ k.opponentIsReady = m.opponentIsReady
  /\ k.child = m.child /\ k.foe = m.foe /\ k.fight = m.fight
  /\ k.gotOption => m.gotOption \/ m.child = "resurrect"
Reset(m) == [m EXCEPT !.weAreReady = FALSE, !.opponentIsReady = FALSE, !.published = TRUE]

Stays(m, k, out) == Same(m, k) /\ out = <<>>
Starts(p, m, k, out) ==
  /\ ~m.initialized /\ Same([Reset(m) EXCEPT !.initialized = TRUE], k)
  /\ out = <<Event("ReadyForAssignment", p)>>
Hears(o, m, e, k, out) ==
  /\ e \in Reports(o) /\ ~m.weAreReady /\ m.descriptor # NoMatch
  /\ Same([m EXCEPT !.opponentIsReady = TRUE], k) /\ out = <<>>
Fights(o, m, e, k, out) ==
  /\ e \in Reports(o) /\ Standing(m) /\ m.opponent = o
  /\ Same(Fighting([m EXCEPT !.opponentIsReady = TRUE]), k) /\ out = <<>>
Takes(p, m, e, k, out) ==
  /\ e \in Begins /\ m.descriptor = NoMatch /\ m.child \in {"none", "resurrect"}
  /\ m.child = "none" => ~(rested[p] /\ near[p])
  /\ Same([m EXCEPT !.descriptor = e.about, !.published = FALSE,
                    !.child = IF @ = "none" THEN "prepare" ELSE @], k)
  /\ out = <<>>
TakesReady(p, m, e, k, out) ==
  /\ e \in Begins /\ m.descriptor = NoMatch /\ m.child = "none" /\ rested[p] /\ near[p]
  /\ Same([m EXCEPT !.descriptor = e.about, !.published = FALSE, !.weAreReady = TRUE], k)
  /\ out = <<Event("ReadyForPvp", p)>>
Prepares(p, m, k, out) ==
  /\ m.child = "prepare" /\ rested[p] /\ near[p] /\ m.selfEntity
  /\ out = <<Event("ReadyForPvp", p)>>
  /\ IF m.opponentIsReady THEN Same(Fighting(Prepared(m)), k) ELSE Same(Prepared(m), k)
Dies(p, m, e, k, out) ==
  /\ e \in Lives(p) /\ life[p] = "dead" /\ m.child # "resurrect" /\ out = <<>>
  /\ Same([m EXCEPT !.child = "resurrect", !.foe = Nobody, !.fight = NoMatch,
                    !.descriptor = IF m.child = "actor" THEN NoMatch ELSE @], k)
Wins(p, o, m, e, k, out) ==
  /\ e \in Lives(o) /\ life[o] = "dead" /\ m.child = "actor"
  /\ Same(Reset(Over(m)), k) /\ out = <<Event("ReadyForAssignment", p)>>
Revives(p, m, e, k, out) ==
  /\ m.child = "resurrect" /\ e \in Lives(p) /\ life[p] = "alive"
  /\ \/ m.descriptor # NoMatch /\ Same([m EXCEPT !.child = "prepare"], k) /\ out = <<>>
     \/ m.descriptor = NoMatch /\ m.published /\ Same([m EXCEPT !.child = "none"], k) /\ out = <<>>
     \/ /\ m.descriptor = NoMatch /\ ~m.published /\ Same([Reset(m) EXCEPT !.child = "none"], k)
        /\ out = <<Event("ReadyForAssignment", p)>>

(* The rest of what it gives: exceptions, requests, timers, hits, reports. *)
Orderly(p, m, e, r) ==
  /\ r.threw = {} /\ {r.arm, r.hit, r.report} \subseteq BOOLEAN
  /\ r.m \in Bot /\ r.m.selfEntity = m.selfEntity /\ r.m.eventId \in {NoTimer, m.eventId}
  /\ \/ r.cancel = {}
     \/ /\ r.cancel = {m.eventId} /\ m.eventId # NoTimer /\ r.m.eventId = NoTimer
        /\ e.kind # "Timeout"
  /\ "warp" \in r.sent => r.m.child = "prepare" /\ ~near[p]
  /\ "resurrect" \in r.sent => r.m.child = "resurrect" /\ m.child # "actor"
  /\ r.hit => r.m.child = "actor"
  /\ r.report <=> m.child = "actor" /\ r.m.child # "actor"
  /\ r.m.child = "resurrect" /\ r.m.eventId # NoTimer /\ ~r.arm =>
       m.child = "resurrect" /\ r.cancel = {} /\ ~Is(e, "Timeout", r.m.eventId)

LEMMA ResurrectIs ==
  ASSUME NEW p \in Players, NEW m \in Bot, NEW e \in EventSet
  PROVE  LET r == UpdateResurrect(p, m, e)
         IN \/ /\ m.eventId # NoTimer /\ Is(e, "LifeStateChanged", p) /\ life[p] = "alive"
               /\ Gives(r, [m EXCEPT !.eventId = NoTimer], <<>>, {}, FALSE, {m.eventId}, FALSE,
                        FALSE, TRUE)
            \/ /\ Gives(r, m, <<>>, {"resurrect"}, TRUE, {}, FALSE, FALSE, FALSE)
               /\ m.optionAlready \/ e.kind \in {"Timeout", "ResurrectOption"}
            \/ Strikes(r, m, FALSE) /\ ~(m.eventId # NoTimer /\ Is(e, "Timeout", m.eventId))
<1> DEFINE r == UpdateResurrect(p, m, e)
           k == [m EXCEPT !.eventId = NoTimer]
<1>1. CASE m.eventId # NoTimer /\ Is(e, "LifeStateChanged", p) /\ life[p] = "alive"
  <2>1. r = [Nothing(k) EXCEPT !.cancel = {m.eventId}, !.done = TRUE]
    BY <1>1 DEF UpdateResurrect
  <2> HIDE DEF k
  <2>2. Gives([Nothing(k) EXCEPT !.cancel = {m.eventId}, !.done = TRUE], k, <<>>, {}, FALSE,
              {m.eventId}, FALSE, FALSE, TRUE)
    BY DEF Nothing, Gives
  <2> QED BY <1>1, <2>1, <2>2 DEF k
<1>2. CASE ~(m.eventId # NoTimer /\ Is(e, "LifeStateChanged", p) /\ life[p] = "alive")
  <2>1. CASE \/ m.eventId # NoTimer /\ Is(e, "Timeout", m.eventId)
             \/ m.eventId = NoTimer /\ (m.optionAlready \/ Is(e, "ResurrectOption", p))
    <3>1. r = [Nothing(m) EXCEPT !.sent = {"resurrect"}, !.arm = TRUE]
      BY <1>2, <2>1 DEF UpdateResurrect
    <3>2. Gives([Nothing(m) EXCEPT !.sent = {"resurrect"}, !.arm = TRUE], m, <<>>, {"resurrect"},
                TRUE, {}, FALSE, FALSE, FALSE)
      BY DEF Nothing, Gives
    <3> QED BY <2>1, <3>1, <3>2 DEF Is
  <2>2. CASE ~\/ m.eventId # NoTimer /\ Is(e, "Timeout", m.eventId)
              \/ m.eventId = NoTimer /\ (m.optionAlready \/ Is(e, "ResurrectOption", p))
    <3>1. r = Nothing(m)
      BY <1>2, <2>2 DEF UpdateResurrect
    <3> QED BY <3>1, <2>2, NothingIs
  <2> QED BY <2>1, <2>2
<1> QED BY <1>1, <1>2

LEMMA ResetIs ==
  ASSUME NEW p, NEW m
  PROVE  Tells(ResetAndNotifyReadyForAssignment(p, m), Reset(m), <<Event("ReadyForAssignment", p)>>)
<1> DEFINE out == <<Event("ReadyForAssignment", p)>>
           k == Reset(m)
<1>1. ResetAndNotifyReadyForAssignment(p, m) = [Nothing(k) EXCEPT !.out = out]
  BY DEF ResetAndNotifyReadyForAssignment, Reset
<1> HIDE DEF out, k
<1>2. Tells([Nothing(k) EXCEPT !.out = out], k, out)
  BY DEF Nothing, Gives, Tells
<1> QED BY <1>1, <1>2 DEF out, k

LEMMA ResetTypes ==
  ASSUME NEW m \in Bot
  PROVE  /\ Reset(m) \in Bot /\ Reset(m).selfEntity = m.selfEntity
         /\ Reset(m).eventId = m.eventId /\ Reset(m).opponent = m.opponent
         /\ Over(m) \in Bot /\ Over(m).selfEntity = m.selfEntity /\ Over(m).child = "none"
         /\ Over(m).eventId = m.eventId /\ Over(m).opponent = m.opponent
         /\ Resurrecting(m) \in Bot /\ Resurrecting(m).selfEntity = m.selfEntity
         /\ Resurrecting(m).child = "resurrect" /\ Resurrecting(m).eventId = NoTimer
         /\ Resurrecting(m).opponent = m.opponent
  BY DEF Reset, Over, Resurrecting, Bot, NoTimer, NoMatch, Nobody
Delegable(p, o, m, e) ==
  /\ m \in Bot /\ e \in EventSet /\ rested \in [Players -> BOOLEAN] /\ near \in [Players -> BOOLEAN]
  /\ m.child = "actor" =>
       /\ m.selfEntity /\ m.foe = o /\ count[o] # 0
       /\ ~(e.kind = "LifeStateChanged" /\ life[e.about] = "dead")
  /\ m.child = "prepare" => ~m.weAreReady /\ m.descriptor # NoMatch
  /\ m.child = "prepare" /\ rested[p] /\ m.opponentIsReady =>
       /\ m.opponent = o /\ count[o] # 0
       /\ ~(e.kind = "LifeStateChanged" /\ life[e.about] = "dead")
  /\ m.child = "resurrect" => m.selfEntity /\ near[p] /\ ~rested[p]

LEMMA StrikesIs ==
  ASSUME NEW p, NEW m, NEW m2 \in Bot, NEW e, NEW r, NEW hit \in BOOLEAN, Strikes(r, m2, hit),
         m2.selfEntity = m.selfEntity, m2.eventId \in {NoTimer, m.eventId},
         hit => m2.child = "actor", m.child = "actor" => m2.child = "actor",
         m2.child = "resurrect" /\ m2.eventId # NoTimer =>
            m.child = "resurrect" /\ ~Is(e, "Timeout", m2.eventId)
  PROVE  Orderly(p, m, e, r) /\ r.m = m2 /\ r.out = <<>>
<1>1. /\ r.m = m2 /\ r.out = <<>> /\ r.sent = {} /\ r.arm = FALSE /\ r.cancel = {}
      /\ r.hit = hit /\ r.report = FALSE /\ r.threw = {}
  BY DEF Strikes, Gives
<1> QED BY <1>1 DEF Orderly

LEMMA PreparedOutcome ==
  ASSUME NEW p \in Players, NEW o, o = Opponent(p), NEW m, NEW e, Delegable(p, o, m, e),
         m.child = "prepare"
  PROVE  LET r == UpdatePreparation(p, m, e)
         IN /\ Orderly(p, m, e, r) /\ r.m.opponent = m.opponent
            /\ Stays(m, r.m, r.out) \/ Prepares(p, m, r.m, r.out)
<1> DEFINE r == UpdatePreparation(p, m, e)
           out == <<Event("ReadyForPvp", p)>>
           warping == [m EXCEPT !.eventId = NoTimer]
<1>1. m \in Bot /\ e \in EventSet
  BY DEF Delegable
<1>2. \/ Strikes(r, m, FALSE)
      \/ /\ m.selfEntity /\ ~near[p]
         /\ \E cancel \in {{}, {m.eventId}} :
              /\ cancel # {} => m.eventId # NoTimer /\ e.kind = "WarpRefused"
              /\ Gives(r, warping, <<>>, {"warp"}, TRUE, cancel, FALSE, FALSE, FALSE)
      \/ /\ m.selfEntity /\ near[p] /\ rested[p] /\ ~m.opponentIsReady
         /\ Tells(r, Prepared(m), out)
      \/ /\ m.selfEntity /\ near[p] /\ rested[p] /\ m.opponentIsReady
         /\ \E hit \in BOOLEAN :
              Gives(r, Fighting(Prepared(m)), out, {}, FALSE, {}, hit, FALSE, FALSE)
  BY PreparationIs DEF Delegable
<1> HIDE DEF r
<1>3. CASE Strikes(r, m, FALSE)
  <2>1. r.m = m /\ r.out = <<>> /\ r.sent = {} /\ r.arm = FALSE /\ r.cancel = {}
        /\ r.hit = FALSE /\ r.report = FALSE /\ r.threw = {}
    BY <1>3 DEF Strikes, Gives
  <2> QED BY <1>1, <2>1 DEF Orderly, Stays, Same, r
<1>4. CASE m.selfEntity /\ ~near[p] /\ (\E cancel \in {{}, {m.eventId}} :
              /\ cancel # {} => m.eventId # NoTimer /\ e.kind = "WarpRefused"
              /\ Gives(r, warping, <<>>, {"warp"}, TRUE, cancel, FALSE, FALSE, FALSE))
  <2>1. PICK cancel \in {{}, {m.eventId}} :
              /\ cancel # {} => m.eventId # NoTimer /\ e.kind = "WarpRefused"
              /\ Gives(r, warping, <<>>, {"warp"}, TRUE, cancel, FALSE, FALSE, FALSE)
    BY <1>4
  <2>2. r.m = warping /\ r.out = <<>> /\ r.sent = {"warp"} /\ r.arm = TRUE /\ r.cancel = cancel
        /\ r.hit = FALSE /\ r.report = FALSE /\ r.threw = {}
    BY <2>1 DEF Gives
  <2>3. /\ warping \in Bot /\ warping.selfEntity = m.selfEntity /\ warping.eventId = NoTimer
        /\ warping.child = "prepare" /\ warping.opponent = m.opponent /\ Same(m, warping)
    BY <1>1 DEF Bot, NoTimer, Same
  <2> HIDE DEF warping
  <2>4. Orderly(p, m, e, r)
    BY <1>4, <2>1, <2>2, <2>3 DEF Orderly
  <2> QED BY <2>2, <2>3, <2>4 DEF Stays, r
<1>5. CASE m.selfEntity /\ near[p] /\ rested[p] /\ ~m.opponentIsReady /\ Tells(r, Prepared(m), out)
  <2>1. r.m = Prepared(m) /\ r.out = out /\ r.sent = {} /\ r.arm = FALSE /\ r.cancel = {}
        /\ r.hit = FALSE /\ r.report = FALSE /\ r.threw = {}
    BY <1>5 DEF Tells, Gives
  <2>2. Orderly(p, m, e, r) /\ r.m.opponent = m.opponent
    <3>1. PICK k : k = Prepared(m)
      OBVIOUS
    <3>2. k \in Bot /\ k.selfEntity = m.selfEntity /\ k.child = "none" /\ k.eventId = NoTimer
          /\ k.opponent = m.opponent
      BY <3>1, <1>1, PreparedIs
    <3> QED BY <3>1, <3>2, <1>5, <2>1 DEF Orderly
  <2>3. Same(Prepared(m), r.m)
    BY <2>1 DEF Same
  <2> QED BY <1>5, <2>1, <2>2, <2>3 DEF Prepares, r
<1>6. CASE m.selfEntity /\ near[p] /\ rested[p] /\ m.opponentIsReady /\ (\E hit \in BOOLEAN :
              Gives(r, Fighting(Prepared(m)), out, {}, FALSE, {}, hit, FALSE, FALSE))
  <2> DEFINE k == Fighting(Prepared(m))
  <2>1. PICK hit \in BOOLEAN : Gives(r, k, out, {}, FALSE, {}, hit, FALSE, FALSE)
    BY <1>6
  <2>2. r.m = k /\ r.out = out /\ r.sent = {} /\ r.arm = FALSE /\ r.cancel = {}
        /\ r.hit = hit /\ r.report = FALSE /\ r.threw = {}
    BY <2>1 DEF Gives
  <2>3. PICK n : n = Prepared(m)
    OBVIOUS
  <2>4. n \in Bot /\ n.selfEntity = m.selfEntity /\ n.opponent = m.opponent
    BY <2>3, <1>1, PreparedIs
  <2>5. Fighting(n) \in Bot /\ Fighting(n).selfEntity = n.selfEntity /\ Fighting(n).child = "actor"
        /\ Fighting(n).eventId = NoTimer /\ Fighting(n).opponent = n.opponent
    BY <2>4, FightingIs
  <2>6. k \in Bot /\ k.selfEntity = m.selfEntity /\ k.child = "actor" /\ k.eventId = NoTimer
        /\ k.opponent = m.opponent
    BY <2>3, <2>4, <2>5
  <2>7. Same(k, r.m)
    BY <2>2 DEF Same
  <2> HIDE DEF k
  <2>8. Orderly(p, m, e, r)
    BY <2>2, <2>6 DEF Orderly
  <2> QED BY <1>6, <2>2, <2>6, <2>7, <2>8 DEF Prepares, r, k
<1> QED BY <1>2, <1>3, <1>4, <1>5, <1>6

LEMMA ResurrectOutcome ==
  ASSUME NEW p \in Players, NEW o, o = Opponent(p), NEW m, NEW e, Delegable(p, o, m, e),
         m.child = "resurrect"
  PROVE  LET r == Delegate(p, m, e)
         IN /\ Orderly(p, m, e, r) /\ r.m.opponent = m.opponent
            /\ Stays(m, r.m, r.out) \/ Revives(p, m, e, r.m, r.out)
<1> DEFINE s == UpdateResurrect(p, m, e)
           r == Delegate(p, m, e)
           awake == [m EXCEPT !.eventId = NoTimer]
           free == [s.m EXCEPT !.child = "none", !.optionAlready = FALSE]
<1>1. m \in Bot /\ e \in EventSet /\ m.selfEntity /\ near[p] /\ ~rested[p]
      /\ rested \in [Players -> BOOLEAN] /\ near \in [Players -> BOOLEAN]
  BY DEF Delegable
<1>2. r = IF ~s.done THEN s
          ELSE IF m.descriptor # NoMatch
               THEN Then(s, UpdatePreparation(p, SetPrepareForPvp(free), e))
               ELSE IF ~m.published
                    THEN Then(s, ResetAndNotifyReadyForAssignment(p, free))
                    ELSE Then(s, Nothing(free))
  BY DEF Delegate
<1>3. \/ /\ m.eventId # NoTimer /\ Is(e, "LifeStateChanged", p) /\ life[p] = "alive"
         /\ Gives(s, awake, <<>>, {}, FALSE, {m.eventId}, FALSE, FALSE, TRUE)
      \/ Gives(s, m, <<>>, {"resurrect"}, TRUE, {}, FALSE, FALSE, FALSE)
      \/ Strikes(s, m, FALSE) /\ ~(m.eventId # NoTimer /\ Is(e, "Timeout", m.eventId))
  BY <1>1, ResurrectIs
<1> HIDE DEF s, r
<1>4. CASE Gives(s, m, <<>>, {"resurrect"}, TRUE, {}, FALSE, FALSE, FALSE)
  <2>1. s.m = m /\ s.out = <<>> /\ s.sent = {"resurrect"} /\ s.arm = TRUE /\ s.cancel = {}
        /\ s.hit = FALSE /\ s.report = FALSE /\ s.threw = {} /\ s.done = FALSE
    BY <1>4 DEF Gives
  <2>2. r = s
    BY <1>2, <2>1
  <2>3. Orderly(p, m, e, s)
    BY <1>1, <2>1, m.child = "resurrect" DEF Orderly
  <2>4. Stays(m, s.m, s.out) /\ s.m.opponent = m.opponent
    BY <2>1 DEF Stays, Same
  <2> QED BY <2>2, <2>3, <2>4 DEF r
<1>5. CASE Strikes(s, m, FALSE) /\ ~(m.eventId # NoTimer /\ Is(e, "Timeout", m.eventId))
  <2>1. s.done = FALSE
    BY <1>5 DEF Strikes, Gives
  <2>2. r = s
    BY <1>2, <2>1
  <2>3. PICK u, hit : u = s /\ hit = FALSE
    OBVIOUS
  <2>4. Strikes(u, m, hit) /\ hit \in BOOLEAN /\ ~hit
    BY <1>5, <2>3
  <2>5. Orderly(p, m, e, u) /\ u.m = m /\ u.out = <<>>
    BY <1>1, <1>5, <2>4, StrikesIs
  <2> QED BY <2>2, <2>3, <2>5 DEF Stays, Same, r
<1>6. CASE m.eventId # NoTimer /\ Is(e, "LifeStateChanged", p) /\ life[p] = "alive"
           /\ Gives(s, awake, <<>>, {}, FALSE, {m.eventId}, FALSE, FALSE, TRUE)
  <2>1. s.m = awake /\ s.done = TRUE
    BY <1>6 DEF Gives
  <2>2. /\ free \in Bot /\ free.selfEntity /\ free.opponent = m.opponent /\ free.eventId = NoTimer
        /\ free.child = "none" /\ Same([m EXCEPT !.child = "none"], free)
    BY <1>1, <2>1 DEF Bot, NoTimer, Same
  <2>3. e \in Lives(p)
    BY <1>1, <1>6 DEF Is, Lives, EvOf
  <2> DEFINE k == SetPrepareForPvp(free)
  <2>4. /\ k \in Bot /\ k.selfEntity /\ k.opponent = m.opponent /\ k.eventId = NoTimer
        /\ k.child = "prepare" /\ Same([m EXCEPT !.child = "prepare"], k)
    <3>1. PICK f : f = free
      OBVIOUS
    <3>2. f \in Bot /\ f.selfEntity /\ f.opponent = m.opponent /\ Same([m EXCEPT !.child = "none"], f)
      BY <2>2, <3>1
    <3>3. SetPrepareForPvp(f) = [f EXCEPT !.child = "prepare", !.eventId = NoTimer]
      BY DEF SetPrepareForPvp
    <3>4. PICK g : g = SetPrepareForPvp(f)
      OBVIOUS
    <3>5. /\ g \in Bot /\ g.selfEntity /\ g.opponent = m.opponent /\ g.eventId = NoTimer
          /\ g.child = "prepare"
      BY <3>2, <3>3, <3>4 DEF Bot, NoTimer
    <3>6. Same([m EXCEPT !.child = "prepare"], g)
      BY <1>1, <3>2, <3>3, <3>4 DEF Bot, Same
    <3> QED BY <3>1, <3>4, <3>5, <3>6
  <2>5. /\ Reset(free) \in Bot /\ Reset(free).selfEntity /\ Reset(free).opponent = m.opponent
        /\ Reset(free).eventId = NoTimer /\ Reset(free).child = "none"
        /\ Same([Reset(m) EXCEPT !.child = "none"], Reset(free))
    <3>1. PICK f : f = free
      OBVIOUS
    <3>2. /\ f \in Bot /\ f.selfEntity /\ f.opponent = m.opponent /\ f.eventId = NoTimer
          /\ f.child = "none" /\ Same([m EXCEPT !.child = "none"], f)
      BY <2>2, <3>1
    <3>3. /\ Reset(f) \in Bot /\ Reset(f).selfEntity /\ Reset(f).opponent = m.opponent
          /\ Reset(f).eventId = NoTimer /\ Reset(f).child = "none"
      BY <3>2 DEF Reset, Bot
    <3>4. Same([Reset(m) EXCEPT !.child = "none"], Reset(f))
      BY <1>1, <3>2 DEF Reset, Bot, Same
    <3> QED BY <3>1, <3>3, <3>4
  <2> HIDE DEF free, k
  <2>6. \E n \in Bot, out \in Seq(EventSet) :
          /\ Gives(r, n, out, {}, FALSE, {m.eventId}, FALSE, FALSE, FALSE)
          /\ n.selfEntity /\ n.opponent = m.opponent /\ n.eventId = NoTimer
          /\ n.child # "resurrect" /\ Revives(p, m, e, n, out)
    <3>1. CASE m.descriptor # NoMatch
      <4>1. Strikes(UpdatePreparation(p, k, e), k, FALSE)
        BY <1>1, <2>4, PreparationIs
      <4>2. PICK u, out : u = UpdatePreparation(p, k, e) /\ out = <<>>
        OBVIOUS
      <4>3. Tells(u, k, out) /\ out \in Seq(EventSet)
        <5>1. out \in Seq(EventSet)
          BY <4>2
        <5> QED BY <5>1, <4>1, <4>2 DEF Strikes, Tells
      <4>4. Gives(Then(s, u), k, out, {}, FALSE, {m.eventId}, FALSE, FALSE, FALSE)
        BY <4>3, <1>6, ThenAlive
      <4>5. r = Then(s, u)
        BY <3>1, <4>2, <1>2, <2>1 DEF k
      <4>6. Revives(p, m, e, k, out)
        BY <3>1, <4>2, <1>6, <2>3, <2>4 DEF Revives
      <4> QED BY <4>3, <4>4, <4>5, <4>6, <2>4
    <3>2. CASE m.descriptor = NoMatch /\ ~m.published
      <4>1. PICK u, out : /\ u = ResetAndNotifyReadyForAssignment(p, free)
                          /\ out = <<Event("ReadyForAssignment", p)>>
        OBVIOUS
      <4>2. Tells(u, Reset(free), out) /\ out \in Seq(EventSet)
        BY <4>1, ResetIs, OwnEvents
      <4>3. PICK n : n = Reset(free)
        OBVIOUS
      <4>4. Gives(Then(s, u), n, out, {}, FALSE, {m.eventId}, FALSE, FALSE, FALSE)
        BY <4>2, <4>3, <1>6, ThenAlive
      <4>5. r = Then(s, u)
        BY <3>2, <4>1, <1>2, <2>1
      <4>6. Revives(p, m, e, n, out)
        BY <3>2, <4>1, <4>3, <1>6, <2>3, <2>5 DEF Revives
      <4> QED BY <4>2, <4>3, <4>4, <4>5, <4>6, <2>5
    <3>3. CASE m.descriptor = NoMatch /\ m.published
      <4>1. PICK u, out : u = Nothing(free) /\ out = <<>>
        OBVIOUS
      <4>2. Tells(u, free, out) /\ out \in Seq(EventSet)
        <5>1. out \in Seq(EventSet)
          BY <4>1
        <5> QED BY <5>1, <4>1, NothingIs
      <4>4. Gives(Then(s, u), free, out, {}, FALSE, {m.eventId}, FALSE, FALSE, FALSE)
        BY <4>2, <1>6, ThenAlive
      <4>5. r = Then(s, u)
        BY <3>3, <4>1, <1>2, <2>1
      <4>6. Revives(p, m, e, free, out)
        BY <3>3, <4>1, <1>6, <2>3, <2>2 DEF Revives
      <4> QED BY <4>2, <4>4, <4>5, <4>6, <2>2
    <3> QED BY <3>1, <3>2, <3>3, <1>1 DEF Bot
  <2>7. PICK n \in Bot, out \in Seq(EventSet) :
          /\ Gives(r, n, out, {}, FALSE, {m.eventId}, FALSE, FALSE, FALSE)
          /\ n.selfEntity /\ n.opponent = m.opponent /\ n.eventId = NoTimer
          /\ n.child # "resurrect" /\ Revives(p, m, e, n, out)
    BY <2>6
  <2>8. r.m = n /\ r.out = out /\ r.sent = {} /\ r.arm = FALSE /\ r.cancel = {m.eventId}
        /\ r.hit = FALSE /\ r.report = FALSE /\ r.threw = {}
    BY <2>7 DEF Gives
  <2>9. e.kind # "Timeout"
    BY <1>6 DEF Is
  <2>10. Orderly(p, m, e, r)
    BY <1>1, <1>6, <2>7, <2>8, <2>9 DEF Orderly
  <2> QED BY <2>7, <2>8, <2>10 DEF r
<1> QED BY <1>3, <1>4, <1>5, <1>6

LEMMA DelegateIs ==
  ASSUME NEW p \in Players, NEW o, o = Opponent(p), NEW m, NEW e, Delegable(p, o, m, e)
  PROVE  LET r == Delegate(p, m, e)
         IN /\ Orderly(p, m, e, r) /\ r.m.opponent = m.opponent
            /\ \/ Stays(m, r.m, r.out) \/ Prepares(p, m, r.m, r.out)
               \/ Revives(p, m, e, r.m, r.out)
<1> DEFINE r == Delegate(p, m, e)
<1>1. m \in Bot /\ e \in EventSet
  BY DEF Delegable
<1>2. m.child \in {"none", "prepare", "resurrect", "actor"}
  BY <1>1 DEF Bot
<1>3. Same(m, m) /\ m.eventId \in {NoTimer, m.eventId}
  BY DEF Same
<1>4. CASE m.child = "none"
  <2>1. r = Nothing(m)
    BY <1>4 DEF Delegate
  <2>2. PICK hit \in BOOLEAN : Strikes(Nothing(m), m, hit) /\ ~hit
    BY NothingIs
  <2>3. Orderly(p, m, e, r) /\ r.m = m /\ r.out = <<>>
    <3>1. PICK u : u = r
      OBVIOUS
    <3>2. Strikes(u, m, hit)
      BY <2>1, <2>2, <3>1
    <3>3. Orderly(p, m, e, u) /\ u.m = m /\ u.out = <<>>
      BY <1>1, <1>3, <1>4, <2>2, <3>2, StrikesIs
    <3> QED BY <3>1, <3>3
  <2> QED BY <1>3, <2>3 DEF Stays
<1>5. CASE m.child = "actor"
  <2>1. r = LET u == UpdateActor(p, m, e)
            IN IF u.done THEN Then(u, Throws(u.m, "actor ended by itself")) ELSE u
    BY <1>5 DEF Delegate
  <2>2. PICK hit \in BOOLEAN : Strikes(UpdateActor(p, m, e), m, hit)
    BY <1>1, <1>5, ActorIs DEF Delegable
  <2>3. UpdateActor(p, m, e).done = FALSE
    BY <2>2 DEF Strikes, Gives
  <2>4. Strikes(r, m, hit)
    BY <2>1, <2>2, <2>3
  <2>5. Orderly(p, m, e, r) /\ r.m = m /\ r.out = <<>>
    <3>1. PICK u : u = r
      OBVIOUS
    <3>2. Strikes(u, m, hit)
      BY <2>4, <3>1
    <3>3. Orderly(p, m, e, u) /\ u.m = m /\ u.out = <<>>
      BY <1>1, <1>3, <1>5, <2>2, <3>2, StrikesIs
    <3> QED BY <3>1, <3>3
  <2> QED BY <1>3, <2>5 DEF Stays
<1>6. CASE m.child = "prepare"
  <2>1. r = UpdatePreparation(p, m, e)
    BY <1>6 DEF Delegate
  <2> QED BY <1>6, <2>1, PreparedOutcome
<1>7. CASE m.child = "resurrect"
  BY <1>7, ResurrectOutcome
<1> QED BY <1>2, <1>4, <1>5, <1>6, <1>7
(* What has to hold of a player and the event it hears.                    *)
Fit(p, o, m, e) ==
  /\ m \in Bot /\ e \in EventSet /\ rested \in [Players -> BOOLEAN] /\ near \in [Players -> BOOLEAN]
  /\ m.opponent \in {Nobody, o} /\ (~m.initialized => m.child = "none")
  /\ m.child = "actor" => m.selfEntity /\ m.foe = o /\ m.opponent = o /\ count[o] # 0 /\ ~m.gotOption
  /\ m.child = "prepare" => ~m.weAreReady /\ m.descriptor # NoMatch
  /\ m.child = "prepare" /\ rested[p] /\ m.opponentIsReady =>
       /\ m.opponent = o /\ count[o] # 0
       /\ ~(e.kind = "LifeStateChanged" /\ life[e.about] = "dead")
  /\ m.child = "resurrect" => m.selfEntity /\ near[p] /\ ~rested[p]
  /\ Asking(m) => ~m.opponentIsReady
  /\ e.kind \in {"LifeStateChanged", "EntitySpawned"} => count[e.about] # 0
  /\ e.kind = "ResurrectOption" => m.selfEntity
  /\ e.kind = "EntityDespawned" =>
       m.child = "none" \/ (m.child = "prepare" /\ m.opponent # e.about)
  /\ e.kind = "EntitySpawned" /\ m.descriptor # NoMatch /\ m.opponent = Nobody =>
       m.child = "none" /\ o = P2 /\ e.about = P2
  /\ e \in Reports(o) =>
       /\ m.opponent = o /\ m.descriptor # NoMatch /\ m.child # "actor"
       /\ m.weAreReady => m.selfEntity /\ count[o] # 0 /\ m.child # "resurrect"
  /\ e \in Begins => m.selfEntity /\ count[o] # 0 /\ Asking(m) /\ m.child \in {"none", "resurrect"}
Moves(p, o, m, e, k, out) ==
  \/ Stays(m, k, out) \/ Starts(p, m, k, out) \/ Hears(o, m, e, k, out) \/ Fights(o, m, e, k, out)
  \/ Takes(p, m, e, k, out) \/ TakesReady(p, m, e, k, out) \/ Prepares(p, m, k, out)
  \/ Dies(p, m, e, k, out) \/ Wins(p, o, m, e, k, out) \/ Revives(p, m, e, k, out)
Knows(p, o, m, e, k) ==
  /\ k.opponent \in {Nobody, o}
  /\ m.opponent = o => k.opponent = o \/ (e.kind = "EntityDespawned" /\ e.about = o)
  /\ m.initialized /\ e \in Begins => k.opponent = o /\ k.descriptor = e.about
  /\ m.initialized /\ e \in Reports(o) => k.opponentIsReady
  /\ m.initialized /\ e \in Lives(p) /\ life[p] = "dead" => k.child = "resurrect"
  /\ m.initialized /\ e \in Lives(o) /\ life[o] = "dead" => k.child # "actor"
  /\ m.initialized /\ e.kind = "EntitySpawned" /\ e.about = o /\ m.descriptor # NoMatch =>
       k.opponent = o
Outcome(p, o, m, e, r) ==
  Orderly(p, m, e, r) /\ Moves(p, o, m, e, r.m, r.out) /\ Knows(p, o, m, e, r.m)

LEMMA OrderlyFrom ==
  ASSUME NEW p, NEW m, NEW n, NEW e, NEW r, Orderly(p, n, e, r),
         n.selfEntity = m.selfEntity, n.eventId \in {NoTimer, m.eventId},
         n.child = m.child \/ {n.child, m.child} \cap {"actor", "resurrect"} = {}
  PROVE  Orderly(p, m, e, r)
  BY DEF Orderly

LEMMA FitDelegable ==
  ASSUME NEW p \in Players, NEW o, NEW m, NEW e, Fit(p, o, m, e),
         m.child = "actor" => ~(e.kind = "LifeStateChanged" /\ life[e.about] = "dead")
  PROVE  Delegable(p, o, m, e)
  BY DEF Fit, Delegable

LEMMA DelegateOutcome ==
  ASSUME NEW p \in Players, NEW o, o = Opponent(p), NEW m, NEW e, Fit(p, o, m, e),
         m.child = "actor" => ~(e.kind = "LifeStateChanged" /\ life[e.about] = "dead"),
         e.kind # "BeginPvp",
         e.kind = "EntitySpawned" /\ m.descriptor # NoMatch => m.opponent = o \/ e.about # o,
         e \notin Reports(o), e \in Lives(p) /\ life[p] = "dead" => m.child = "resurrect"
  PROVE  Outcome(p, o, m, e, Delegate(p, m, e))
<1> DEFINE r == Delegate(p, m, e)
<1>1. Delegable(p, o, m, e)
  BY FitDelegable
<1>2. /\ Orderly(p, m, e, r) /\ r.m.opponent = m.opponent
      /\ \/ Stays(m, r.m, r.out) \/ Prepares(p, m, r.m, r.out)
         \/ Revives(p, m, e, r.m, r.out)
  BY <1>1, DelegateIs
<1>3. m.opponent \in {Nobody, o} /\ e \notin Begins
  BY DEF Fit, Begins, Ev
<1> HIDE DEF r
<1>4. e \in Lives(p) /\ life[p] = "dead" => r.m.child = "resurrect"
  BY <1>2 DEF Stays, Same, Prepares, Revives
<1>5. e \in Lives(o) /\ life[o] = "dead" => r.m.child # "actor"
  <2>1. SUFFICES ASSUME e \in Lives(o), life[o] = "dead" PROVE r.m.child # "actor"
    OBVIOUS
  <2>2. e.kind = "LifeStateChanged" /\ e.about = o /\ m \in Bot
    BY <2>1 DEF Lives, EvOf, Fit
  <2>3. m.child # "actor"
    BY <2>1, <2>2
  <2>4. m.child = "prepare" /\ rested[p] => ~m.opponentIsReady
    BY <2>1, <2>2 DEF Fit
  <2>5. Prepared(m).child = "none"
    BY <2>2, PreparedIs
  <2>6. CASE Stays(m, r.m, r.out)
    BY <2>3, <2>6 DEF Stays, Same
  <2>7. CASE Prepares(p, m, r.m, r.out)
    BY <2>4, <2>5, <2>7 DEF Prepares, Same
  <2>8. CASE Revives(p, m, e, r.m, r.out)
    BY <2>2, <2>8 DEF Revives, Same, Reset, Bot
  <2> QED BY <1>2, <2>6, <2>7, <2>8
<1> QED BY <1>2, <1>3, <1>4, <1>5 DEF Outcome, Moves, Knows, r

LEMMA DespawnedOutcome ==
  ASSUME NEW p \in Players, NEW o, o = Opponent(p), NEW m, NEW e, Fit(p, o, m, e),
         e.kind = "EntityDespawned"
  PROVE  Outcome(p, o, m, e, OnDespawned(p, m, e))
<1> DEFINE n == [m EXCEPT !.opponent = IF @ = e.about THEN Nobody ELSE @]
           r == Delegate(p, n, e)
<1>1. OnDespawned(p, m, e) = r
  BY DEF OnDespawned, Pvping, Fit
<1>2. /\ n \in Bot /\ n.selfEntity = m.selfEntity /\ n.eventId = m.eventId /\ n.child = m.child
      /\ n.opponent = (IF m.opponent = e.about THEN Nobody ELSE m.opponent)
      /\ n.descriptor = m.descriptor /\ n.weAreReady = m.weAreReady /\ Same(m, n)
      /\ n.opponentIsReady = m.opponentIsReady /\ n.foe = m.foe
  BY DEF Fit, Bot, Nobody, Same
<1>3. m.child = "none" \/ (m.child = "prepare" /\ n = m)
  <2>1. CASE m.child = "prepare"
    <3>1. m.opponent # e.about
      BY <2>1 DEF Fit
    <3>2. n = m
      BY <3>1 DEF Fit, Bot
    <3> QED BY <2>1, <3>2
  <2> QED BY <2>1 DEF Fit
<1> HIDE DEF n
<1>4. Delegable(p, o, n, e)
  BY <1>2, <1>3 DEF Fit, Delegable
<1>5. /\ Orderly(p, n, e, r) /\ r.m.opponent = n.opponent
      /\ \/ Stays(n, r.m, r.out) \/ Prepares(p, n, r.m, r.out)
         \/ Revives(p, n, e, r.m, r.out)
  BY <1>4, DelegateIs
<1> HIDE DEF r
<1>6. Orderly(p, m, e, r)
  BY <1>2, <1>5, OrderlyFrom
<1>7. Stays(m, r.m, r.out) \/ Prepares(p, m, r.m, r.out)
  <2>1. CASE m.child = "none"
    BY <1>2, <1>5, <2>1 DEF Stays, Same, Prepares, Revives
  <2>2. CASE m.child = "prepare" /\ n = m
    BY <1>5, <2>2 DEF Revives
  <2> QED BY <1>3, <2>1, <2>2
<1>8. Knows(p, o, m, e, r.m)
  BY <1>2, <1>5 DEF Knows, Fit, Begins, Ev, Reports, Lives, EvOf
<1> QED BY <1>1, <1>6, <1>7, <1>8 DEF Outcome, Moves

LEMMA SpawnedOutcome ==
  ASSUME NEW p \in Players, NEW o, o = Opponent(p), NEW m, NEW e, Fit(p, o, m, e),
         e.kind = "EntitySpawned"
  PROVE  Outcome(p, o, m, e, OnSpawned(p, m, e))
<1>1. CASE m.descriptor = NoMatch \/ m.opponent # Nobody
  <2>1. OnSpawned(p, m, e) = Delegate(p, m, e)
    BY <1>1 DEF OnSpawned
  <2>2. m.descriptor # NoMatch => m.opponent = o
    BY <1>1 DEF Fit
  <2>3. e \notin Reports(o) /\ e \notin Lives(p)
    BY DEF Reports, Lives, EvOf
  <2> QED BY <2>1, <2>2, <2>3, DelegateOutcome
<1>2. CASE m.descriptor # NoMatch /\ m.opponent = Nobody
  <2> DEFINE n == [m EXCEPT !.opponent = P2]
             r == Delegate(p, n, e)
  <2>1. /\ m.child = "none" /\ o = P2 /\ e.about = P2 /\ count[e.about] # 0 /\ m \in Bot
        /\ e \in EventSet /\ rested \in [Players -> BOOLEAN] /\ near \in [Players -> BOOLEAN]
    BY <1>2 DEF Fit
  <2>2. OnSpawned(p, m, e) = r
    BY <1>2, <2>1 DEF OnSpawned
  <2>3. /\ n \in Bot /\ n.selfEntity = m.selfEntity /\ n.eventId = m.eventId /\ n.child = "none"
        /\ n.opponent = P2 /\ Same(m, n)
    BY <2>1, PlayersAre DEF Bot, Same
  <2> HIDE DEF n
  <2>4. Delegable(p, o, n, e)
    BY <2>1, <2>3 DEF Delegable
  <2>5. /\ Orderly(p, n, e, r) /\ r.m.opponent = n.opponent
        /\ \/ Stays(n, r.m, r.out) \/ Prepares(p, n, r.m, r.out)
           \/ Revives(p, n, e, r.m, r.out)
    BY <2>4, DelegateIs
  <2> HIDE DEF r
  <2>6. Orderly(p, m, e, r)
    BY <2>1, <2>3, <2>5, OrderlyFrom
  <2>7. Stays(m, r.m, r.out)
    BY <2>1, <2>3, <2>5 DEF Stays, Same, Prepares, Revives
  <2>8. Knows(p, o, m, e, r.m)
    BY <2>1, <2>3, <2>5 DEF Knows, Begins, Ev, Reports, Lives, EvOf
  <2> QED BY <2>2, <2>6, <2>7, <2>8 DEF Outcome, Moves
<1> QED BY <1>1, <1>2

LEMMA OptionOutcome ==
  ASSUME NEW p \in Players, NEW o, o = Opponent(p), NEW m, NEW e, Fit(p, o, m, e),
         e.kind = "ResurrectOption"
  PROVE  Outcome(p, o, m, e, OnResurrectOption(p, m, e))
<1> DEFINE n == [m EXCEPT !.gotOption = @ \/ (e.about = p /\ m.child = "resurrect")]
           r == Delegate(p, n, e)
<1>1. OnResurrectOption(p, m, e) = r /\ m \in Bot
  BY DEF OnResurrectOption, Fit
<1>2. CASE ~(e.about = p /\ m.child = "resurrect")
  <2>1. n = m
    BY <1>1, <1>2 DEF Bot
  <2>2. e \notin Reports(o) /\ e \notin Lives(p)
    BY DEF Reports, Lives, EvOf
  <2> QED BY <1>1, <2>1, <2>2, DelegateOutcome
<1>3. CASE m.child = "resurrect"
  <2>1. /\ n \in Bot /\ n.selfEntity = m.selfEntity /\ n.eventId = m.eventId /\ n.child = "resurrect"
        /\ n.opponent = m.opponent /\ n.descriptor = m.descriptor /\ n.published = m.published
        /\ n.weAreReady = m.weAreReady /\ n.opponentIsReady = m.opponentIsReady
        /\ n.initialized = m.initialized /\ n.foe = m.foe /\ n.fight = m.fight
    BY <1>1, <1>3 DEF Bot
  <2> HIDE DEF n
  <2>2. Delegable(p, o, n, e)
    BY <1>3, <2>1 DEF Fit, Delegable
  <2>3. /\ Orderly(p, n, e, r) /\ r.m.opponent = n.opponent
        /\ \/ Stays(n, r.m, r.out) \/ Prepares(p, n, r.m, r.out)
           \/ Revives(p, n, e, r.m, r.out)
    BY <2>2, DelegateIs
  <2> HIDE DEF r
  <2>4. Orderly(p, m, e, r)
    BY <1>3, <2>1, <2>3, OrderlyFrom
  <2>5. Stays(m, r.m, r.out)
    <3>1. e \notin Lives(p)
      BY DEF Lives, EvOf
    <3> QED BY <1>3, <2>1, <2>3, <3>1 DEF Stays, Same, Prepares, Revives
  <2>6. Knows(p, o, m, e, r.m)
    BY <2>1, <2>3 DEF Knows, Fit, Begins, Ev, Reports, Lives, EvOf
  <2> QED BY <1>1, <2>4, <2>5, <2>6 DEF Outcome, Moves
<1> QED BY <1>2, <1>3
LEMMA DeathIs ==
  ASSUME NEW p \in Players, NEW n \in Bot, NEW e \in EventSet, n.child = "resurrect",
         e.kind = "LifeStateChanged", life[p] = "dead"
  PROVE  \E sent \in {{}, {"resurrect"}}, arm \in BOOLEAN :
           /\ Gives(Delegate(p, n, e), n, <<>>, sent, arm, {}, FALSE, FALSE, FALSE)
           /\ sent # {} => n.optionAlready
<1> DEFINE s == UpdateResurrect(p, n, e)
<1>1. \/ Gives(s, n, <<>>, {"resurrect"}, TRUE, {}, FALSE, FALSE, FALSE) /\ n.optionAlready
      \/ Strikes(s, n, FALSE)
  BY ResurrectIs
<1>2. \/ Gives(s, n, <<>>, {"resurrect"}, TRUE, {}, FALSE, FALSE, FALSE) /\ n.optionAlready
      \/ Gives(s, n, <<>>, {}, FALSE, {}, FALSE, FALSE, FALSE)
  BY <1>1 DEF Strikes
<1>3. s.done = FALSE
  BY <1>2 DEF Gives
<1>4. Delegate(p, n, e) = s
  BY <1>3 DEF Delegate
<1> QED BY <1>2, <1>4

(* A player that dies: from what it did, m, or from its fight that is over.*)
LEMMA DiesOutcome ==
  ASSUME NEW p \in Players, NEW o, o = Opponent(p), NEW m, NEW e, Fit(p, o, m, e),
         e \in Lives(p), life[p] = "dead", m.child # "resurrect", NEW base, NEW r,
         base = (IF m.child = "actor" THEN Over(m) ELSE m), NEW sent \in {{}, {"resurrect"}},
         NEW arm \in BOOLEAN, NEW report, report = (m.child = "actor"),
         sent = {} \/ m.child # "actor",
         Gives(r, Resurrecting(base), <<>>, sent, arm, {}, FALSE, report, FALSE)
  PROVE  Outcome(p, o, m, e, r)
<1> DEFINE n == Resurrecting(base)
<1>1. m \in Bot /\ m.opponent \in {Nobody, o} /\ e.kind = "LifeStateChanged" /\ p # o
  BY PlayersAre DEF Fit, Lives, EvOf
<1>2. base \in Bot /\ base.selfEntity = m.selfEntity /\ base.opponent = m.opponent
  BY <1>1, ResetTypes
<1>3. /\ n \in Bot /\ n.selfEntity = m.selfEntity /\ n.child = "resurrect" /\ n.eventId = NoTimer
      /\ n.opponent = m.opponent
  BY <1>2, ResetTypes
<1>4. Same([m EXCEPT !.child = "resurrect", !.foe = Nobody, !.fight = NoMatch,
                     !.descriptor = IF m.child = "actor" THEN NoMatch ELSE @], n)
  BY <1>1 DEF Resurrecting, Over, Same, Bot
<1> HIDE DEF n
<1>5. r.m = n /\ r.out = <<>> /\ r.sent = sent /\ r.arm = arm /\ r.cancel = {}
      /\ r.hit = FALSE /\ r.report = report /\ r.threw = {}
  BY DEF Gives, n
<1>6. "warp" \notin sent
  OBVIOUS
<1>7. Orderly(p, m, e, r)
  BY <1>3, <1>5, <1>6 DEF Orderly
<1>8. Knows(p, o, m, e, r.m)
  BY <1>1, <1>3, <1>5 DEF Knows, Begins, Ev, Reports, Lives, EvOf
<1>9. Dies(p, m, e, r.m, r.out)
  BY <1>4, <1>5 DEF Dies
<1> QED BY <1>7, <1>8, <1>9 DEF Outcome, Moves

LEMMA WinsOutcome ==
  ASSUME NEW p \in Players, NEW o, o = Opponent(p), NEW m, NEW e, Fit(p, o, m, e),
         e \in Lives(o), life[o] = "dead", m.child = "actor", NEW r,
         Gives(r, Reset(Over(m)), <<Event("ReadyForAssignment", p)>>, {}, FALSE, {}, FALSE, TRUE,
               FALSE)
  PROVE  Outcome(p, o, m, e, r)
<1> DEFINE n == Reset(Over(m))
           out == <<Event("ReadyForAssignment", p)>>
<1>1. m \in Bot /\ m.opponent \in {Nobody, o} /\ e.kind = "LifeStateChanged" /\ p # o
  BY PlayersAre DEF Fit, Lives, EvOf
<1>2. /\ Over(m) \in Bot /\ Over(m).selfEntity = m.selfEntity /\ Over(m).child = "none"
      /\ Over(m).eventId = m.eventId /\ Over(m).opponent = m.opponent
  BY <1>1, ResetTypes
<1>3. /\ n \in Bot /\ n.selfEntity = m.selfEntity /\ n.child = "none" /\ n.eventId = m.eventId
      /\ n.opponent = m.opponent
  <2>1. PICK v : v = Over(m)
    OBVIOUS
  <2>2. v \in Bot /\ v.selfEntity = m.selfEntity /\ v.child = "none" /\ v.eventId = m.eventId
        /\ v.opponent = m.opponent
    BY <2>1, <1>2
  <2>3. Reset(v).child = "none"
    BY <2>2 DEF Reset, Bot
  <2> QED BY <2>1, <2>2, <2>3, ResetTypes
<1>4. Same(Reset(Over(m)), n)
  BY DEF Same
<1> HIDE DEF n, out
<1>5. r.m = n /\ r.out = out /\ r.sent = {} /\ r.arm = FALSE /\ r.cancel = {}
      /\ r.hit = FALSE /\ r.report = TRUE /\ r.threw = {}
  BY DEF Gives, n, out
<1>7. Orderly(p, m, e, r)
  BY <1>3, <1>5 DEF Orderly
<1>8. Knows(p, o, m, e, r.m)
  BY <1>1, <1>3, <1>5 DEF Knows, Begins, Ev, Reports, Lives, EvOf
<1>9. Wins(p, o, m, e, r.m, r.out)
  BY <1>4, <1>5 DEF Wins, out
<1> QED BY <1>7, <1>8, <1>9 DEF Outcome, Moves

LEMMA EndedOutcome ==
  ASSUME NEW p \in Players, NEW o, o = Opponent(p), NEW m, NEW e, Fit(p, o, m, e),
         e.kind = "LifeStateChanged", life[e.about] = "dead", m.child = "actor"
  PROVE  Outcome(p, o, m, e, OnFightEnded(p, m, e))
<1> DEFINE last == UpdateActor(p, m, e)
           over == Over(m)
           r == OnFightEnded(p, m, e)
<1>1. /\ m \in Bot /\ e \in EventSet /\ m.selfEntity /\ m.foe = o /\ m.opponent = o
      /\ count[o] # 0 /\ e.about \in {p, o} /\ o # Nobody /\ p # o
  <2>1. e.about \in Players
    BY EventsAre DEF Fit, PlayerKinds
  <2> QED BY <2>1, PlayersAre DEF Fit
<1>2. Gives(last, m, <<>>, {}, FALSE, {}, FALSE, TRUE, TRUE)
  BY <1>1, LastActorIs
<1>3. last.m = m /\ last.done = TRUE
  BY <1>2 DEF Gives
<1>4. CASE e.about = o
  <2> DEFINE s == ResetAndNotifyReadyForAssignment(p, over)
             out == <<Event("ReadyForAssignment", p)>>
  <2>1. r = Then(last, s)
    BY <1>1, <1>3, <1>4 DEF OnFightEnded, LastUpdate
  <2>2. PICK n, w, nil, no, t, u : n = Reset(over) /\ w = out /\ nil = {} /\ no = FALSE
                                   /\ t = last /\ u = s
    OBVIOUS
  <2>3. Gives(u, n, w, nil, no, {}, FALSE, FALSE, FALSE)
    BY <2>2, ResetIs DEF Tells
  <2>4. Gives(Then(t, u), n, w, nil, no, {}, FALSE, TRUE, FALSE)
    <3>1. w \in Seq(EventSet) /\ no \in BOOLEAN
      BY <2>2, OwnEvents
    <3>2. Gives(t, m, <<>>, {}, FALSE, {}, FALSE, TRUE, TRUE)
      BY <1>2, <2>2
    <3> QED BY <2>3, <3>1, <3>2, ThenOver
  <2>5. Gives(r, Reset(Over(m)), out, {}, FALSE, {}, FALSE, TRUE, FALSE)
    BY <2>1, <2>2, <2>4
  <2>6. e \in Lives(o) /\ life[o] = "dead"
    BY <1>1, <1>4 DEF Lives, EvOf
  <2> QED BY <2>5, <2>6, WinsOutcome
<1>5. CASE e.about = p
  <2> DEFINE n == Resurrecting(over)
             s == Delegate(p, n, e)
  <2>1. r = Then(last, s)
    BY <1>1, <1>3, <1>5 DEF OnFightEnded, LastUpdate, OnOwnDeath
  <2>2. n \in Bot /\ n.child = "resurrect" /\ ~n.optionAlready
    <3>1. ~m.gotOption
      BY DEF Fit
    <3>2. ~n.optionAlready
      BY <1>1, <3>1 DEF Resurrecting, Over, Bot
    <3> QED BY <1>1, <3>2, ResetTypes
  <2>3. PICK sent \in {{}, {"resurrect"}}, arm \in BOOLEAN :
          Gives(s, n, <<>>, sent, arm, {}, FALSE, FALSE, FALSE) /\ (sent # {} => n.optionAlready)
    BY <1>1, <1>5, <2>2, DeathIs
  <2>4. PICK k, w, t, u : k = n /\ w = <<>> /\ t = last /\ u = s
    OBVIOUS
  <2>5. Gives(Then(t, u), k, w, sent, arm, {}, FALSE, TRUE, FALSE)
    <3>1. w \in Seq(EventSet)
      BY <2>4
    <3>2. Gives(t, m, <<>>, {}, FALSE, {}, FALSE, TRUE, TRUE)
      BY <1>2, <2>4
    <3>3. Gives(u, k, w, sent, arm, {}, FALSE, FALSE, FALSE)
      BY <2>3, <2>4
    <3>4. arm \in BOOLEAN
      BY <2>3
    <3>5. PICK q, b : q = sent /\ b = arm
      OBVIOUS
    <3>6. Gives(Then(t, u), k, w, q, b, {}, FALSE, TRUE, FALSE)
      <4>1. b \in BOOLEAN /\ Gives(u, k, w, q, b, {}, FALSE, FALSE, FALSE)
        BY <3>3, <3>4, <3>5
      <4> HIDE DEF n, s, last, over, r
      <4> QED BY ONLY <3>1, <3>2, <4>1, ThenOver
    <3> QED BY <3>5, <3>6
  <2>6. PICK base, q, report : base = over /\ q = r /\ report = TRUE
    OBVIOUS
  <2>7. Gives(q, Resurrecting(base), <<>>, sent, arm, {}, FALSE, report, FALSE)
    BY <2>1, <2>4, <2>5, <2>6
  <2>8. e \in Lives(p) /\ life[p] = "dead"
    BY <1>1, <1>5 DEF Lives, EvOf
  <2>9. base = (IF m.child = "actor" THEN Over(m) ELSE m) /\ report = (m.child = "actor")
    BY <2>6
  <2>10. Outcome(p, o, m, e, q)
    <3>1. sent = {}
      BY <2>2, <2>3
    <3> QED BY <2>3, <2>7, <2>8, <2>9, <3>1, DiesOutcome
  <2> QED BY <2>6, <2>10
<1> QED BY <1>1, <1>4, <1>5

LEMMA LifeOutcome ==
  ASSUME NEW p \in Players, NEW o, o = Opponent(p), NEW m, NEW e, Fit(p, o, m, e),
         e.kind = "LifeStateChanged"
  PROVE  Outcome(p, o, m, e, OnLifeState(p, m, e))
<1> DEFINE r == OnLifeState(p, m, e)
<1>1. m \in Bot /\ e \in EventSet /\ count[e.about] # 0
  BY DEF Fit
<1>2. CASE m.child = "resurrect" \/ life[e.about] # "dead"
  <2>1. r = Delegate(p, m, e)
    BY <1>1, <1>2 DEF OnLifeState
  <2>2. m.child = "actor" => ~(e.kind = "LifeStateChanged" /\ life[e.about] = "dead")
    BY <1>2
  <2>3. e \notin Reports(o) /\ (e \in Lives(p) /\ life[p] = "dead" => m.child = "resurrect")
    BY <1>2 DEF Reports, Lives, EvOf
  <2> QED BY <2>1, <2>2, <2>3, DelegateOutcome
<1>3. CASE m.child = "actor" /\ life[e.about] = "dead"
  <2>1. r = OnFightEnded(p, m, e)
    BY <1>1, <1>3 DEF OnLifeState, Pvping
  <2> QED BY <1>3, <2>1, EndedOutcome
<1>4. CASE m.child \notin {"resurrect", "actor"} /\ life[e.about] = "dead"
  <2>1. r = OnOwnDeath(p, m, e)
    BY <1>1, <1>4 DEF OnLifeState, Pvping
  <2>2. CASE e.about # p
    <3>1. r = Delegate(p, m, e)
      BY <2>1, <2>2 DEF OnOwnDeath
    <3>2. e \notin Reports(o) /\ e \notin Lives(p)
      BY <2>2 DEF Reports, Lives, EvOf
    <3> QED BY <1>4, <3>1, <3>2, DelegateOutcome
  <2>3. CASE e.about = p
    <3> DEFINE n == Resurrecting(m)
    <3>1. r = Delegate(p, n, e)
      BY <2>1, <2>3 DEF OnOwnDeath
    <3>2. n \in Bot /\ n.child = "resurrect"
      BY <1>1, ResetTypes
    <3>3. PICK sent \in {{}, {"resurrect"}}, arm \in BOOLEAN :
            Gives(r, n, <<>>, sent, arm, {}, FALSE, FALSE, FALSE)
      <4>1. PICK g : g = n
        OBVIOUS
      <4>2. g \in Bot /\ g.child = "resurrect" /\ life[p] = "dead"
        BY <1>4, <2>3, <3>2, <4>1
      <4>3. \E sent \in {{}, {"resurrect"}}, arm \in BOOLEAN :
              Gives(Delegate(p, g, e), g, <<>>, sent, arm, {}, FALSE, FALSE, FALSE)
        BY <1>1, <4>2, DeathIs
      <4> QED BY <3>1, <4>1, <4>3
    <3>4. PICK base, q, report : base = m /\ q = r /\ report = FALSE
      OBVIOUS
    <3>5. Gives(q, Resurrecting(base), <<>>, sent, arm, {}, FALSE, report, FALSE)
      BY <3>3, <3>4
    <3>6. e \in Lives(p) /\ life[p] = "dead"
      BY <1>1, <1>4, <2>3 DEF Lives, EvOf
    <3>7. base = (IF m.child = "actor" THEN Over(m) ELSE m) /\ report = (m.child = "actor")
      BY <1>4, <3>4
    <3>8. Outcome(p, o, m, e, q)
      BY <1>4, <3>3, <3>5, <3>6, <3>7, DiesOutcome
    <3> QED BY <3>4, <3>8
  <2> QED BY <2>2, <2>3
<1> QED BY <1>2, <1>3, <1>4
LEMMA ReadyOutcome ==
  ASSUME NEW p \in Players, NEW o, o = Opponent(p), NEW m, NEW e, Fit(p, o, m, e),
         e.kind = "ReadyForPvp"
  PROVE  Outcome(p, o, m, e, OnReady(p, m, e))
<1> DEFINE r == OnReady(p, m, e)
           both == [m EXCEPT !.opponentIsReady = TRUE]
<1>1. m \in Bot /\ e \in EventSet /\ e.about \in Players /\ o # Nobody
  BY EventsAre, PlayersAre DEF Fit, PlayerKinds
<1>2. CASE m.opponent # e.about
  <2>1. r = Delegate(p, m, e)
    BY <1>2 DEF OnReady
  <2>2. e \notin Lives(p) /\ e \notin Reports(o)
    BY <1>2 DEF Fit, Reports, Lives, EvOf
  <2> QED BY <2>1, <2>2, DelegateOutcome
<1>3. CASE m.opponent = e.about
  <2>1. e \in Reports(o) /\ m.opponent = o
    BY <1>1, <1>3, PlayersAre DEF Fit, Reports, EvOf
  <2>2. /\ m.descriptor # NoMatch /\ m.child # "actor"
        /\ m.weAreReady => m.selfEntity /\ count[o] # 0 /\ m.child # "resurrect"
    BY <2>1 DEF Fit
  <2>3. e \notin Begins /\ e \notin Lives(p) /\ e \notin Lives(o) /\ e.kind # "EntitySpawned"
    BY DEF Begins, Ev, Lives, EvOf
  <2>4. /\ both \in Bot /\ both.selfEntity = m.selfEntity /\ both.opponent = o
        /\ both.descriptor = m.descriptor /\ both.child = m.child /\ both.eventId = m.eventId
    BY <1>1, <2>1 DEF Bot
  <2>5. CASE m.weAreReady
    <3>1. r = StartPvp(p, both, e)
      BY <1>3, <2>5 DEF OnReady
    <3> HIDE DEF both
    <3>2. PICK g : g = both
      OBVIOUS
    <3>3. PICK hit \in BOOLEAN : Strikes(StartPvp(p, g, e), Fighting(g), hit)
      BY <1>1, <2>2, <2>4, <2>5, <3>2, StartIs
    <3>4. PICK k : k = Fighting(g)
      OBVIOUS
    <3>5. k \in Bot /\ k.selfEntity = m.selfEntity /\ k.opponent = o /\ k.child = "actor" /\ k.eventId = NoTimer
      BY <2>4, <3>2, <3>4, FightingIs
    <3>6. PICK u : u = r
      OBVIOUS
    <3>7. Orderly(p, m, e, u) /\ u.m = k /\ u.out = <<>>
      <4>1. Strikes(u, k, hit)
        BY <3>1, <3>2, <3>3, <3>4, <3>6
      <4> QED BY <4>1, <3>3, <3>5, StrikesIs
    <3>8. Fights(o, m, e, k, <<>>)
      <4>1. Same(k, k)
        BY DEF Same
      <4> QED BY <4>1, <2>1, <2>2, <2>5, <3>2, <3>4 DEF Fights, Standing, both
    <3>9. Knows(p, o, m, e, k)
      <4>1. k.opponentIsReady
        BY <3>2, <3>4, <2>4, FightingIs, <1>1 DEF both, Bot
      <4> QED BY <4>1, <2>3, <3>5 DEF Knows
    <3> QED BY <3>6, <3>7, <3>8, <3>9 DEF Outcome, Moves
  <2>6. CASE ~m.weAreReady
    <3>1. r = Nothing(both)
      BY <1>3, <2>6 DEF OnReady
    <3> HIDE DEF both
    <3>2. r.m = both /\ r.out = <<>> /\ r.sent = {} /\ r.arm = FALSE /\ r.cancel = {}
          /\ r.hit = FALSE /\ r.report = FALSE /\ r.threw = {}
      <4>1. PICK g : g = both
        OBVIOUS
      <4>2. Tells(Nothing(g), g, <<>>)
        BY NothingIs
      <4> QED BY <3>1, <4>1, <4>2 DEF Tells, Gives
    <3>3. ~Is(e, "Timeout", both.eventId)
      BY DEF Is
    <3>4. Orderly(p, m, e, r)
      BY <2>4, <3>2, <3>3 DEF Orderly
    <3>5. Hears(o, m, e, r.m, r.out)
      BY <2>1, <2>2, <2>6, <3>2 DEF Hears, Same, both
    <3>6. Knows(p, o, m, e, r.m)
      <4>1. r.m.opponentIsReady
        BY <3>2, <1>1 DEF both, Bot
      <4> QED BY <4>1, <2>3, <2>4, <3>2 DEF Knows
    <3> QED BY <3>4, <3>5, <3>6 DEF Outcome, Moves
  <2> QED BY <2>5, <2>6
<1> QED BY <1>2, <1>3

LEMMA TakenIs ==
  ASSUME NEW m \in Bot, NEW d \in MatchId, NEW k,
         k.initialized = m.initialized, k.descriptor = d, ~k.published, k.published \in BOOLEAN,
         k.opponentIsReady = m.opponentIsReady, k.foe = m.foe, k.fight = m.fight,
         k.gotOption = m.gotOption
  PROVE  /\ k.weAreReady = m.weAreReady /\ k.child = (IF m.child = "none" THEN "prepare" ELSE m.child) =>
              Same([m EXCEPT !.descriptor = d, !.published = FALSE,
                             !.child = IF @ = "none" THEN "prepare" ELSE @], k)
         /\ k.weAreReady /\ k.weAreReady \in BOOLEAN /\ k.child = m.child =>
              Same([m EXCEPT !.descriptor = d, !.published = FALSE, !.weAreReady = TRUE], k)
<1>1. PICK c : c = (IF m.child = "none" THEN "prepare" ELSE m.child)
  OBVIOUS
<1>2. [m EXCEPT !.descriptor = d, !.published = FALSE,
                !.child = IF @ = "none" THEN "prepare" ELSE @]
      = [m EXCEPT !.descriptor = d, !.published = FALSE, !.child = c]
  BY <1>1
<1>3. PICK no : no = FALSE
  OBVIOUS
<1>4. k.published = FALSE
  OBVIOUS
<1>5. k.weAreReady = m.weAreReady /\ k.child = c =>
        Same([m EXCEPT !.descriptor = d, !.published = no, !.child = c], k)
  BY <1>3, <1>4 DEF Same, Bot
<1>6. k.weAreReady /\ k.weAreReady \in BOOLEAN /\ k.child = m.child =>
        Same([m EXCEPT !.descriptor = d, !.published = no, !.weAreReady = TRUE], k)
  <2>1. k.weAreReady /\ k.weAreReady \in BOOLEAN => k.weAreReady = TRUE
    OBVIOUS
  <2> QED BY <2>1, <1>3, <1>4 DEF Same, Bot
<1> QED BY <1>1, <1>2, <1>3, <1>5, <1>6

LEMMA BeginOutcome ==
  ASSUME NEW p \in Players, NEW o, o = Opponent(p), NEW m, NEW e, Fit(p, o, m, e),
         e.kind = "BeginPvp", m.initialized
  PROVE  Outcome(p, o, m, e, OnBegin(p, m, e))
<1> DEFINE prepared == [m EXCEPT !.descriptor = e.about, !.opponent = Opponent(p), !.published = FALSE]
           r == OnBegin(p, m, e)
<1>1. /\ m \in Bot /\ e \in EventSet /\ e \in Begins /\ e.about \in MatchId /\ o # Nobody
      /\ rested \in [Players -> BOOLEAN] /\ near \in [Players -> BOOLEAN] /\ o \in Players
  BY EventsAre, PlayersAre DEF Fit, Begins, Ev
<1>2. /\ m.selfEntity /\ count[o] # 0 /\ m.descriptor = NoMatch /\ m.published
      /\ m.child \in {"none", "resurrect"} /\ ~m.opponentIsReady
  BY <1>1 DEF Fit, Asking
<1>3. e.about # NoMatch
  BY <1>1, PlayersAre
<1>4. r = IF m.child = "none" THEN UpdatePreparation(p, SetPrepareForPvp(prepared), NullEvent)
          ELSE Delegate(p, prepared, e)
  BY <1>2 DEF OnBegin
<1>5. /\ prepared \in Bot /\ prepared.selfEntity = m.selfEntity /\ prepared.opponent = o
      /\ prepared.descriptor = e.about /\ prepared.child = m.child /\ prepared.eventId = m.eventId
      /\ ~prepared.published /\ ~prepared.opponentIsReady /\ prepared.weAreReady = m.weAreReady
      /\ prepared.initialized = m.initialized /\ prepared.gotOption = m.gotOption
      /\ prepared.foe = m.foe /\ prepared.fight = m.fight
  BY <1>1, <1>2 DEF Bot
<1> HIDE DEF prepared
<1>6. PICK g : g = prepared
  OBVIOUS
<1>7. CASE m.child = "resurrect"
  <2>1. Delegable(p, o, g, e)
    BY <1>1, <1>2, <1>5, <1>6, <1>7 DEF Fit, Delegable
  <2>2. /\ Orderly(p, g, e, Delegate(p, g, e)) /\ Delegate(p, g, e).m.opponent = g.opponent
        /\ \/ Stays(g, Delegate(p, g, e).m, Delegate(p, g, e).out)
           \/ Prepares(p, g, Delegate(p, g, e).m, Delegate(p, g, e).out)
           \/ Revives(p, g, e, Delegate(p, g, e).m, Delegate(p, g, e).out)
    BY <2>1, DelegateIs
  <2>3. r = Delegate(p, g, e)
    BY <1>4, <1>6, <1>7
  <2> HIDE DEF r
  <2>4. /\ Orderly(p, g, e, r) /\ r.m.opponent = o
        /\ Stays(g, r.m, r.out) \/ Prepares(p, g, r.m, r.out) \/ Revives(p, g, e, r.m, r.out)
    BY <2>2, <2>3, <1>5, <1>6
  <2>5. Orderly(p, m, e, r)
    BY <2>4, <1>5, <1>6, OrderlyFrom
  <2>6. e \notin Lives(p)
    BY DEF Lives, EvOf
  <2>7. Stays(g, r.m, r.out)
    BY <2>4, <2>6, <1>5, <1>6, <1>7 DEF Prepares, Revives
  <2>8. Takes(p, m, e, r.m, r.out)
    <3>1. PICK v : v = r.m
      OBVIOUS
    <3>2. /\ v.initialized = m.initialized /\ v.descriptor = e.about /\ ~v.published
          /\ v.opponentIsReady = m.opponentIsReady /\ v.foe = m.foe /\ v.fight = m.fight
          /\ v.weAreReady = m.weAreReady /\ v.child = m.child /\ v \in Bot
      <4>1. /\ v.initialized = g.initialized /\ v.descriptor = g.descriptor
            /\ v.published = g.published /\ v.opponentIsReady = g.opponentIsReady
            /\ v.foe = g.foe /\ v.fight = g.fight /\ v.weAreReady = g.weAreReady
            /\ v.child = g.child
        BY <2>7, <3>1 DEF Stays, Same
      <4>2. /\ g.initialized = m.initialized /\ g.descriptor = e.about /\ ~g.published
            /\ ~g.opponentIsReady /\ g.foe = m.foe /\ g.fight = m.fight
            /\ g.weAreReady = m.weAreReady /\ g.child = m.child
        BY <1>5, <1>6
      <4>3. v \in Bot /\ m \in Bot
        BY <2>4, <3>1, <1>1 DEF Orderly
      <4>4. v.opponentIsReady = m.opponentIsReady
        BY <4>1, <4>2, <4>3, <1>2 DEF Bot
      <4> QED BY <4>1, <4>2, <4>3, <4>4
    <3>3. Same([m EXCEPT !.descriptor = e.about, !.published = FALSE,
                         !.child = IF @ = "none" THEN "prepare" ELSE @], v)
      <4>1. v.gotOption \in BOOLEAN /\ v.published \in BOOLEAN
        BY <3>2 DEF Bot
      <4>2. PICK c, no : c = (IF m.child = "none" THEN "prepare" ELSE m.child) /\ no = FALSE
        OBVIOUS
      <4>3. v.published = no /\ v.child = c
        BY <3>2, <4>1, <4>2, <1>7
      <4>4. Same([m EXCEPT !.descriptor = e.about, !.published = no, !.child = c], v)
        BY <3>2, <4>3, <4>2, <1>1, <1>7 DEF Same, Bot
      <4> QED BY <4>2, <4>4
    <3> QED BY <3>1, <3>3, <2>7, <1>1, <1>2, <1>7 DEF Takes, Stays
  <2>9. Knows(p, o, m, e, r.m)
    <3>1. r.m.descriptor = e.about
      BY <2>7, <1>5, <1>6 DEF Stays, Same
    <3>2. e \notin Lives(p) /\ e \notin Lives(o) /\ e \notin Reports(o) /\ e.kind # "EntitySpawned"
      BY DEF Lives, EvOf, Reports
    <3> QED BY <2>4, <3>1, <3>2 DEF Knows
  <2> QED BY <2>5, <2>8, <2>9 DEF Outcome, Moves, r
<1>8. CASE m.child = "none"
  <2> DEFINE n == SetPrepareForPvp(g)
  <2>1. /\ n \in Bot /\ n.selfEntity = m.selfEntity /\ n.opponent = o
        /\ n.descriptor = e.about /\ n.child = "prepare" /\ n.eventId = NoTimer
        /\ ~n.published /\ ~n.opponentIsReady /\ n.weAreReady = m.weAreReady
        /\ n.initialized = m.initialized /\ n.gotOption = m.gotOption
        /\ n.foe = m.foe /\ n.fight = m.fight
    BY <1>5, <1>6 DEF SetPrepareForPvp, Bot, NoTimer
  <2> HIDE DEF n
  <2>2. PICK k : k = n
    OBVIOUS
  <2>3. PICK u, none : u = UpdatePreparation(p, k, NullEvent) /\ none = NullEvent
    OBVIOUS
  <2>4. e \notin Lives(p) /\ e \notin Lives(o) /\ e \notin Reports(o) /\ e.kind # "EntitySpawned"
    BY DEF Lives, EvOf, Reports
  <2>5. \/ Strikes(u, k, FALSE) /\ ~rested[p]
        \/ ~near[p] /\ Gives(u, [k EXCEPT !.eventId = NoTimer], <<>>, {"warp"}, TRUE, {}, FALSE,
                             FALSE, FALSE)
        \/ /\ near[p] /\ rested[p]
           /\ Tells(u, Prepared(k), <<Event("ReadyForPvp", p)>>)
    <3>1. k \in Bot /\ ~k.opponentIsReady /\ k.selfEntity /\ k.eventId = NoTimer
      BY <1>2, <2>1, <2>2
    <3>2. CASE ~near[p]
      <4>1. u = UpdateWarp(k, NullEvent)
        BY <3>2, <2>3 DEF UpdatePreparation
      <4>2. u = [Nothing([k EXCEPT !.eventId = NoTimer]) EXCEPT !.sent = {"warp"}, !.arm = TRUE, !.cancel = {}]
        BY <3>1, <4>1 DEF UpdateWarp, NullEvent, Event
      <4>3. Gives(u, [k EXCEPT !.eventId = NoTimer], <<>>, {"warp"}, TRUE, {}, FALSE, FALSE, FALSE)
        BY <4>2 DEF Nothing, Gives
      <4> QED BY <3>2, <4>3
    <3>3. CASE near[p] /\ ~rested[p]
      <4>1. u = Nothing(k)
        BY <3>1, <3>3, <2>3 DEF UpdatePreparation
      <4> QED BY <3>3, <4>1, NothingIs
    <3>4. CASE near[p] /\ rested[p]
      <4>1. u = [Nothing(Prepared(k)) EXCEPT !.out = <<Event("ReadyForPvp", p)>>]
        BY <3>1, <3>4, <2>3 DEF UpdatePreparation, Prepared
      <4>2. Tells(u, Prepared(k), <<Event("ReadyForPvp", p)>>)
        BY <4>1 DEF Nothing, Gives, Tells
      <4> QED BY <3>4, <4>2
    <3> QED BY <3>2, <3>3, <3>4
  <2>6. r = u
    BY <1>4, <1>6, <1>8, <2>2, <2>3 DEF n
  <2> HIDE DEF r
  <2>7. CASE Strikes(u, k, FALSE) /\ ~rested[p]
    <3>1. u.m = k /\ u.out = <<>> /\ u.sent = {} /\ u.arm = FALSE /\ u.cancel = {}
          /\ u.hit = FALSE /\ u.report = FALSE /\ u.threw = {}
      BY <2>7 DEF Strikes, Gives
    <3>2. Orderly(p, m, e, u)
      BY <1>8, <2>1, <2>2, <3>1 DEF Orderly
    <3>3. Takes(p, m, e, u.m, u.out)
      <4>1. Same([m EXCEPT !.descriptor = e.about, !.published = FALSE,
                           !.child = IF @ = "none" THEN "prepare" ELSE @], k)
        <5>1. /\ k.initialized = m.initialized /\ k.descriptor = e.about /\ ~k.published
              /\ k.opponentIsReady = m.opponentIsReady /\ k.foe = m.foe /\ k.fight = m.fight
              /\ k.gotOption = m.gotOption /\ k.weAreReady = m.weAreReady /\ k.child = "prepare"
              /\ k.published \in BOOLEAN
          BY <1>1, <1>2, <2>1, <2>2 DEF Bot
        <5> QED BY <1>1, <1>8, <5>1, TakenIs
      <4> QED BY <2>7, <4>1, <3>1, <1>1, <1>2 DEF Takes
    <3>4. Knows(p, o, m, e, u.m)
      BY <2>1, <2>2, <2>4, <3>1 DEF Knows
    <3> QED BY <3>2, <3>3, <3>4, <2>6 DEF Outcome, Moves, r
  <2>8. CASE ~near[p] /\ Gives(u, [k EXCEPT !.eventId = NoTimer], <<>>, {"warp"}, TRUE, {}, FALSE,
                             FALSE, FALSE)
    <3>1. [k EXCEPT !.eventId = NoTimer] = k
      BY <2>1, <2>2 DEF Bot
    <3>2. u.m = k /\ u.out = <<>> /\ u.sent = {"warp"} /\ u.arm = TRUE /\ u.cancel = {}
          /\ u.hit = FALSE /\ u.report = FALSE /\ u.threw = {}
      BY <2>8, <3>1 DEF Gives
    <3>3. Orderly(p, m, e, u)
      BY <1>8, <2>1, <2>2, <2>8, <3>2 DEF Orderly
    <3>4. Takes(p, m, e, u.m, u.out)
      <4>1. Same([m EXCEPT !.descriptor = e.about, !.published = FALSE,
                           !.child = IF @ = "none" THEN "prepare" ELSE @], k)
        <5>1. /\ k.initialized = m.initialized /\ k.descriptor = e.about /\ ~k.published
              /\ k.opponentIsReady = m.opponentIsReady /\ k.foe = m.foe /\ k.fight = m.fight
              /\ k.gotOption = m.gotOption /\ k.weAreReady = m.weAreReady /\ k.child = "prepare"
              /\ k.published \in BOOLEAN
          BY <1>1, <1>2, <2>1, <2>2 DEF Bot
        <5> QED BY <1>1, <1>8, <5>1, TakenIs
      <4> QED BY <2>8, <4>1, <3>2, <1>1, <1>2 DEF Takes
    <3>5. Knows(p, o, m, e, u.m)
      BY <2>1, <2>2, <2>4, <3>2 DEF Knows
    <3> QED BY <3>3, <3>4, <3>5, <2>6 DEF Outcome, Moves, r
  <2>9. CASE near[p] /\ rested[p] /\ Tells(u, Prepared(k), <<Event("ReadyForPvp", p)>>)
    <3>1. u.m = Prepared(k) /\ u.out = <<Event("ReadyForPvp", p)>> /\ u.sent = {} /\ u.arm = FALSE
          /\ u.cancel = {} /\ u.hit = FALSE /\ u.report = FALSE /\ u.threw = {}
      BY <2>9 DEF Tells, Gives
    <3>2. PICK v : v = Prepared(k)
      OBVIOUS
    <3>3. /\ v \in Bot /\ v.selfEntity = k.selfEntity /\ v.initialized = k.initialized
          /\ v.opponent = k.opponent /\ v.descriptor = k.descriptor /\ v.published = k.published
          /\ v.weAreReady /\ v.opponentIsReady = k.opponentIsReady
          /\ v.gotOption = k.gotOption /\ v.child = "none" /\ v.eventId = NoTimer
          /\ v.foe = k.foe /\ v.fight = k.fight
      BY <2>1, <2>2, <3>2, PreparedIs
    <3>4. Orderly(p, m, e, u)
      BY <1>8, <2>1, <2>2, <3>1, <3>2, <3>3 DEF Orderly
    <3>5. TakesReady(p, m, e, u.m, u.out)
      <4>1. /\ v.initialized = m.initialized /\ v.descriptor = e.about /\ ~v.published
            /\ v.opponentIsReady = m.opponentIsReady /\ v.foe = m.foe /\ v.fight = m.fight
            /\ v.gotOption = m.gotOption /\ v.weAreReady /\ v.child = m.child
            /\ v.published \in BOOLEAN /\ v.weAreReady \in BOOLEAN
        <5>1. v.published \in BOOLEAN /\ v.weAreReady \in BOOLEAN
          BY <3>3 DEF Bot
        <5>2. /\ k.initialized = m.initialized /\ k.descriptor = e.about /\ ~k.published
              /\ k.opponentIsReady = m.opponentIsReady /\ k.foe = m.foe /\ k.fight = m.fight
              /\ k.gotOption = m.gotOption
          <6>1. k.opponentIsReady = m.opponentIsReady
            BY <1>1, <1>2, <2>1, <2>2 DEF Bot
          <6> QED BY <2>1, <2>2, <6>1
        <5>3. ~v.published
          BY <5>2, <3>3
        <5> QED BY <5>1, <5>2, <5>3, <3>3, <1>8
      <4>2. Same([m EXCEPT !.descriptor = e.about, !.published = FALSE, !.weAreReady = TRUE], v)
        BY <1>1, <4>1, TakenIs
      <4> QED BY <4>2, <3>1, <3>2, <1>1, <1>2, <1>8, <2>9 DEF TakesReady
    <3>6. Knows(p, o, m, e, u.m)
      BY <2>1, <2>2, <2>4, <3>1, <3>2, <3>3 DEF Knows
    <3> QED BY <3>4, <3>5, <3>6, <2>6 DEF Outcome, Moves, r
  <2> QED BY <2>5, <2>7, <2>8, <2>9
<1> QED BY <1>2, <1>7, <1>8

LEMMA UpdateOutcome ==
  ASSUME NEW p \in Players, NEW o, o = Opponent(p), NEW m, NEW e, Fit(p, o, m, e)
  PROVE  LET r == OnUpdate(p, m, e)
         IN Outcome(p, o, m, e, r) /\ (m.initialized \/ Starts(p, m, r.m, r.out))
<1> DEFINE r == OnUpdate(p, m, e)
<1>1. CASE ~m.initialized
  <2> DEFINE n == [m EXCEPT !.initialized = TRUE]
             out == <<Event("ReadyForAssignment", p)>>
  <2>1. m \in Bot /\ m.opponent \in {Nobody, o}
    BY DEF Fit
  <2>2. r = ResetAndNotifyReadyForAssignment(p, n)
    BY <1>1 DEF OnUpdate
  <2>3. n \in Bot /\ n.selfEntity = m.selfEntity /\ n.opponent = m.opponent /\ n.eventId = m.eventId
        /\ n.child = m.child
    BY <2>1 DEF Bot
  <2>4. Same([Reset(m) EXCEPT !.initialized = TRUE], Reset(n))
    BY <2>1 DEF Same, Reset, Bot
  <2> HIDE DEF n
  <2>5. PICK g, k, w : g = n /\ k = Reset(g) /\ w = out
    OBVIOUS
  <2>6. k \in Bot /\ k.selfEntity = m.selfEntity /\ k.eventId = m.eventId /\ k.opponent = m.opponent
    BY <2>3, <2>5, ResetTypes
  <2>7. k.child = m.child
    BY <2>3, <2>5 DEF Reset, Bot
  <2>8. Tells(r, k, w)
    BY <2>2, <2>5, ResetIs
  <2> HIDE DEF r
  <2>9. r.m = k /\ r.out = w /\ r.sent = {} /\ r.arm = FALSE /\ r.cancel = {}
        /\ r.hit = FALSE /\ r.report = FALSE /\ r.threw = {}
    BY <2>8 DEF Tells, Gives
  <2>10. m.child = "none"
    BY <1>1 DEF Fit
  <2>11. Orderly(p, m, e, r)
    BY <2>6, <2>7, <2>9, <2>10 DEF Orderly
  <2>12. Starts(p, m, r.m, r.out)
    BY <1>1, <2>4, <2>5, <2>9 DEF Starts
  <2>13. Knows(p, o, m, e, r.m)
    BY <1>1, <2>1, <2>6, <2>9 DEF Knows
  <2> QED BY <2>11, <2>12, <2>13 DEF Outcome, Moves, r
<1>2. CASE m.initialized
  <2>1. CASE e.kind = "EntityDespawned"
    <3>1. r = OnDespawned(p, m, e)
      BY <1>2, <2>1 DEF OnUpdate
    <3> QED BY <1>2, <2>1, <3>1, DespawnedOutcome
  <2>2. CASE e.kind = "EntitySpawned"
    <3>1. r = OnSpawned(p, m, e)
      BY <1>2, <2>2 DEF OnUpdate
    <3> QED BY <1>2, <2>2, <3>1, SpawnedOutcome
  <2>3. CASE e.kind = "LifeStateChanged"
    <3>1. r = OnLifeState(p, m, e)
      BY <1>2, <2>3 DEF OnUpdate
    <3> QED BY <1>2, <2>3, <3>1, LifeOutcome
  <2>4. CASE e.kind = "ReadyForPvp"
    <3>1. r = OnReady(p, m, e)
      BY <1>2, <2>4 DEF OnUpdate
    <3> QED BY <1>2, <2>4, <3>1, ReadyOutcome
  <2>5. CASE e.kind = "ResurrectOption"
    <3>1. r = OnResurrectOption(p, m, e)
      BY <1>2, <2>5 DEF OnUpdate
    <3> QED BY <1>2, <2>5, <3>1, OptionOutcome
  <2>6. CASE e.kind = "BeginPvp"
    <3>1. r = OnBegin(p, m, e)
      BY <1>2, <2>6 DEF OnUpdate
    <3> QED BY <1>2, <2>6, <3>1, BeginOutcome
  <2>7. CASE e.kind \notin {"EntityDespawned", "EntitySpawned", "LifeStateChanged", "ReadyForPvp",
                            "ResurrectOption", "BeginPvp"}
    <3>1. r = Delegate(p, m, e)
      BY <1>2, <2>7 DEF OnUpdate
    <3>2. /\ e.kind # "BeginPvp" /\ e.kind # "EntitySpawned" /\ e.kind # "LifeStateChanged"
          /\ e \notin Reports(o) /\ e \notin Lives(p)
      BY <2>7 DEF Reports, Lives, EvOf
    <3> QED BY <1>2, <3>1, <3>2, DelegateOutcome
  <2> QED BY <2>1, <2>2, <2>3, <2>4, <2>5, <2>6, <2>7
<1> QED BY <1>1, <1>2

-----------------------------------------------------------------------------
(* What the invariant says of a player that is about to hear an event.     *)

LEMMA BusyIs ==
  ASSUME MatchesInv,
         \/ bots[P1].child # "none" \/ bots[P2].child \in {"actor", "resurrect"}
         \/ bots[P2].weAreReady \/ ~Within(queue, Harmless) \/ ~rested[P1] \/ ~rested[P2]
  PROVE  Placed(P2) /\ Within(queue, Quiet) /\ stage[P2] = "in"
<1>1. ~Calm
  BY PlayersAre DEF Calm
<1> QED BY <1>1 DEF MatchesInv, Journey, Placed

(* Player 2 on its journey, or not, while it asks for an assignment.       *)
LEMMA AskingIs ==
  ASSUME MatchesInv, Asking(bots[P2])
  PROVE  procSelf[P2] /\ bots[P2].selfEntity /\ Within(queue, Quiet) /\ stage[P2] = "in"
<1>1. bots[P2].child # "prepare"
  BY DEF MatchesInv, Shapes, Shape, Asking
<1> QED BY <1>1 DEF MatchesInv, Journey, Placed, Travelling, Far, Leaving, Resetting, Loading, Entering

LEMMA HeadIs ==
  ASSUME QueueOK, queue # <<>>, NEW A
  PROVE  /\ Head(queue) \in EventSet
         /\ Head(queue) \in A => Holds(queue, A)
         /\ Within(queue, A) => Head(queue) \in A
  BY Turns, HeadTail DEF QueueOK

(* Player 1, or player 2, hears e.                                         *)
LEMMA FirstHears ==
  ASSUME MatchesInv, Turn(P1), NEW e, e = Head(queue)
  PROVE  /\ queue \in Seq(EventSet) /\ queue # <<>> /\ QueueOK /\ e \in EventSet
         /\ ~Behind /\ Box1 = queue /\ ~Left
         /\ \A A : (e \in A => Holds(queue, A)) /\ (Within(queue, A) => e \in A)
<1>1. queue \in Seq(EventSet) /\ QueueOK
  BY DEF MatchesInv, QueueOK
<1>2. queue # <<>> /\ ~Behind /\ Box1 = queue
  BY <1>1, Turns, Zenon
<1> QED BY <1>1, <1>2, HeadIs DEF Left

LEMMA SecondHears ==
  ASSUME MatchesInv, Turn(P2), NEW e, e = Head(queue)
  PROVE  /\ queue \in Seq(EventSet) /\ queue # <<>> /\ QueueOK /\ e \in EventSet
         /\ Behind /\ Box1 = Tail(queue)
         /\ \A A : /\ e \in A => Holds(queue, A)
                   /\ Within(queue, A) => e \in A
                   /\ Holds(Box1, A) => Holds(queue, A)
<1>1. queue \in Seq(EventSet) /\ QueueOK
  BY DEF MatchesInv, QueueOK
<1>2. queue # <<>> /\ Behind /\ Box1 = Tail(queue)
  BY <1>1, Turns, Zenon
<1>3. \A A : Holds(Tail(queue), A) => Holds(queue, A)
  BY <1>1, <1>2, HeadTail
<1> QED BY <1>1, <1>2, <1>3, HeadIs

LEMMA CountIs ==
  ASSUME Typed, Counted, NEW p \in Players, procSelf[p]
  PROVE  count[p] # 0
<1>1. count[p] = (IF p \in sees[Others(p)] THEN 1 ELSE 0) + 1
  BY DEF Counted
<1> QED BY <1>1

(* Who is settled sees its opponent.                                       *)
LEMMA OpponentKnown ==
  ASSUME MatchesInv, Placed(P2), Within(queue, Quiet), bots[P1].descriptor # NoMatch
  PROVE  bots[P1].opponent = P2
<1>1. bots[P1].opponent \in {Nobody, P2}
  BY PlayersAre DEF MatchesInv, Shapes, Shape
<1>2. stage[P2] \notin {"reset", "loading"}
  BY DEF Placed
<1>3. ~Holds(Box1, Ev("EntitySpawned"))
  <2>1. Quiet \cap Ev("EntitySpawned") = {}
    BY DEF Quiet, Ev, TravelKinds
  <2>2. ~Holds(queue, Ev("EntitySpawned"))
    BY <2>1, Subsets
  <2>3. queue = <<>> => Box1 = queue
    BY DEF Box1, Behind
  <2>4. queue \in Seq(EventSet)
    BY DEF MatchesInv, QueueOK
  <2>5. queue # <<>> => ~Holds(Tail(queue), Ev("EntitySpawned"))
    BY <2>2, <2>4, HeadTail
  <2> QED BY <2>2, <2>3, <2>5 DEF Box1
<1> QED BY <1>1, <1>2, <1>3 DEF MatchesInv, Opponents

LEMMA FirstFits ==
  ASSUME MatchesInv, Turn(P1)
  PROVE  Fit(P1, P2, SelfTracked(P1, Head(queue)), Head(queue)) /\ SelfTracked(P1, Head(queue)) = bots[P1]
<1> DEFINE e == Head(queue)
           m == bots[P1]
           n == bots[P2]
<1>1. /\ QueueOK /\ queue # <<>> /\ ~Behind /\ Box1 = queue /\ queue \in Seq(EventSet)
  BY Turns DEF MatchesInv, QueueOK
<1>2. /\ e \in EventSet /\ \A A : (e \in A => Holds(queue, A)) /\ (Within(queue, A) => e \in A)
  BY <1>1, HeadIs
<1>3. /\ m \in Bot /\ n \in Bot /\ rested \in [Players -> BOOLEAN] /\ near \in [Players -> BOOLEAN]
      /\ m.selfEntity /\ near[P1] /\ procSelf[P1] /\ m.opponent \in {Nobody, P2}
  BY PlayersAre DEF MatchesInv, Typed, Placed, Shapes, Shape
<1>4. e.kind \in TravelKinds => e.about = P2
  BY <1>2 DEF MatchesInv, OnJourney
<1>5. SelfTracked(P1, e) = m
  BY <1>4, PlayersAre DEF SelfTracked, Is, TravelKinds
<1>6. P1 \in Players /\ P2 \in Players /\ P1 # P2
  BY PlayersAre
<1>7. count[P1] # 0
  BY <1>3, <1>6, CountIs DEF MatchesInv
<1>8. Placed(P2) => count[P2] # 0
  BY <1>6, CountIs DEF MatchesInv, Placed
<1>9. Shape(P1, m) /\ Shape(P2, n) /\ ~Left
  BY <1>1 DEF MatchesInv, Shapes, Left
<1>10. e \in Ev("EntitySpawned") \cup Ev("EntityDespawned") => Calm /\ ~Within(queue, Quiet)
  <2>1. e \in Ev("EntitySpawned") \cup Ev("EntityDespawned") => e \notin Quiet
    BY DEF Ev, Quiet, TravelKinds
  <2> QED BY <1>2, <2>1 DEF MatchesInv, Journey
<1> HIDE DEF e, m, n
<1>11. ~m.initialized => m.child = "none"
  BY <1>9 DEF Shape
<1>12. m.child = "actor" => m.selfEntity /\ m.foe = P2 /\ m.opponent = P2 /\ count[P2] # 0 /\ ~m.gotOption
  <2>1. SUFFICES ASSUME m.child = "actor"
                 PROVE m.foe = P2 /\ m.opponent = P2 /\ count[P2] # 0 /\ ~m.gotOption
    BY <1>3
  <2>2. m.foe = P2 /\ m.descriptor # NoMatch /\ ~m.gotOption
    BY <1>9, <2>1, PlayersAre DEF Shape, Standing
  <2>3. Placed(P2) /\ Within(queue, Quiet)
    BY <2>1, BusyIs DEF m
  <2> QED BY <1>8, <2>2, <2>3, OpponentKnown DEF m
<1>13. m.child = "prepare" => ~m.weAreReady /\ m.descriptor # NoMatch
  BY <1>9 DEF Shape
<1>14. m.child = "prepare" /\ rested[P1] /\ m.opponentIsReady =>
         /\ m.opponent = P2 /\ count[P2] # 0
         /\ ~(e.kind = "LifeStateChanged" /\ life[e.about] = "dead")
  <2>1. SUFFICES ASSUME m.child = "prepare", rested[P1], m.opponentIsReady
                 PROVE  /\ m.opponent = P2 /\ count[P2] # 0
                        /\ ~(e.kind = "LifeStateChanged" /\ life[e.about] = "dead")
    OBVIOUS
  <2>2. Placed(P2) /\ Within(queue, Quiet) /\ m.descriptor # NoMatch
    BY <1>13, <2>1, BusyIs DEF m
  <2>3. m.opponent = P2 /\ count[P2] # 0
    BY <1>8, <2>2, OpponentKnown DEF m
  <2>4. Standing(n)
    BY <2>1, <2>2 DEF MatchesInv, Pairs, Pair, m, n
  <2>5. rested[P2]
    BY <1>9, <2>1, <2>4 DEF MatchesInv, Pairs, Pair, m, n
  <2>6. life[P1] = "alive" /\ life[P2] = "alive"
    BY <2>1, <2>5 DEF MatchesInv, Ledgers, LedgerOf, Ledger
  <2>7. e.kind = "LifeStateChanged" => e.about \in {P1, P2}
    BY <1>2, EventsAre, PlayersAre DEF PlayerKinds
  <2> QED BY <2>3, <2>6, <2>7
<1>15. m.child = "resurrect" => m.selfEntity /\ near[P1] /\ ~rested[P1]
  BY <1>3 DEF MatchesInv, Ledgers, LedgerOf, Ledger, m
<1>16. Asking(m) => ~m.opponentIsReady
  BY <1>9 DEF Shape
<1>17. e.kind \in {"LifeStateChanged", "EntitySpawned"} => count[e.about] # 0
  <2>1. e.kind \in {"LifeStateChanged", "EntitySpawned"} => e.about \in {P1, P2}
    BY <1>2, EventsAre, PlayersAre DEF PlayerKinds, TravelKinds
  <2>2. e.kind = "LifeStateChanged" => Placed(P2)
    <3>1. e.kind = "LifeStateChanged" => e \notin Harmless
      BY DEF Harmless
    <3> QED BY <1>2, <3>1, BusyIs
  <2>3. e.kind = "EntitySpawned" => procSelf[P2]
    <3>1. e.kind = "EntitySpawned" => e \in Ev("EntitySpawned") /\ e \notin Quiet
      BY <1>2 DEF Ev, Quiet, TravelKinds
    <3> QED BY <1>2, <3>1 DEF MatchesInv, Journey, Placed, Far, Leaving, Resetting, Loading, Entering
  <2>4. procSelf[P2] => count[P2] # 0
    BY <1>6, CountIs DEF MatchesInv
  <2> QED BY <1>7, <1>8, <2>1, <2>2, <2>3, <2>4
<1>18. e.kind = "EntityDespawned" =>
         m.child = "none" \/ (m.child = "prepare" /\ m.opponent # e.about)
  BY <1>2, <1>10 DEF Ev, Calm, m
<1>19. e.kind = "EntitySpawned" /\ m.descriptor # NoMatch /\ m.opponent = Nobody =>
         m.child = "none" /\ P2 = P2 /\ e.about = P2
  BY <1>2, <1>4, <1>10 DEF Ev, Calm, m, TravelKinds
<1>20. e \in Reports(P2) =>
         /\ m.opponent = P2 /\ m.descriptor # NoMatch /\ m.child # "actor"
         /\ m.weAreReady => m.selfEntity /\ count[P2] # 0 /\ m.child # "resurrect"
  <2>1. SUFFICES ASSUME e \in Reports(P2)
                 PROVE  /\ m.opponent = P2 /\ m.descriptor # NoMatch /\ m.child # "actor"
                        /\ m.weAreReady => m.selfEntity /\ count[P2] # 0 /\ m.child # "resurrect"
    OBVIOUS
  <2>2. Standing(n) /\ ~(m.opponentIsReady /\ m.descriptor # NoMatch)
    BY <1>1, <1>2, <2>1 DEF MatchesInv, Pairs, Pair, m, n
  <2>3. m.descriptor # NoMatch
    BY <1>9, <2>2 DEF MatchesInv, Together, Standing, m, n
  <2>4. Placed(P2) /\ Within(queue, Quiet)
    BY <2>2, BusyIs DEF Standing, n
  <2>5. m.opponent = P2 /\ count[P2] # 0
    BY <1>8, <2>3, <2>4, OpponentKnown DEF m
  <2>6. m.child # "actor"
    BY <1>9, <2>2, <2>3 DEF Shape
  <2>7. m.weAreReady => m.child # "resurrect"
    BY <1>9, <2>3 DEF Shape
  <2> QED BY <1>3, <2>3, <2>5, <2>6, <2>7
<1>21. e \in Begins => m.selfEntity /\ count[P2] # 0 /\ Asking(m) /\ m.child \in {"none", "resurrect"}
  <2>1. SUFFICES ASSUME e \in Begins
                 PROVE  count[P2] # 0 /\ Asking(m) /\ m.child \in {"none", "resurrect"}
    BY <1>3
  <2>2. Holds(queue, Begins)
    BY <1>2, <2>1
  <2>3. Asking(m) /\ Asking(n)
    BY <1>1, <2>2 DEF MatchesInv, RequestsOK, Tokens, m, n
  <2>4. procSelf[P2]
    BY <2>3, AskingIs DEF n
  <2>5. m.child \in {"none", "resurrect"}
    BY <1>3, <1>9, <2>3 DEF Shape, Asking, Standing, Bot
  <2> QED BY <1>6, <2>3, <2>4, <2>5, CountIs DEF MatchesInv
<1>22. e.kind = "ResurrectOption" => m.selfEntity
  BY <1>3
<1> QED BY <1>2, <1>3, <1>5, <1>11, <1>12, <1>13, <1>14, <1>15, <1>16, <1>17, <1>18, <1>19, <1>20, <1>21, <1>22
        DEF Fit, e, m

LEMMA SelfTrackedIs ==
  ASSUME NEW p \in Players, NEW e \in EventSet, bots[p] \in Bot
  PROVE  LET m == SelfTracked(p, e)
         IN /\ m \in Bot /\ Same(bots[p], m) /\ m.opponent = bots[p].opponent
            /\ m.eventId = bots[p].eventId /\ m.gotOption = bots[p].gotOption
            /\ m.optionAlready = bots[p].optionAlready
            /\ Is(e, "SelfSpawned", p) => m.selfEntity
            /\ Is(e, "EntityDespawned", p) => ~m.selfEntity
            /\ ~Is(e, "SelfSpawned", p) /\ ~Is(e, "EntityDespawned", p) => m = bots[p]
<1> DEFINE m == SelfTracked(p, e)
<1>1. ~(Is(e, "SelfSpawned", p) /\ Is(e, "EntityDespawned", p))
  BY DEF Is
<1>2. CASE Is(e, "SelfSpawned", p)
  <2>1. m = [bots[p] EXCEPT !.selfEntity = TRUE]
    BY <1>1, <1>2 DEF SelfTracked
  <2> QED BY <1>1, <1>2, <2>1 DEF Bot, Same
<1>3. CASE Is(e, "EntityDespawned", p)
  <2>1. m = [bots[p] EXCEPT !.selfEntity = FALSE]
    BY <1>1, <1>3 DEF SelfTracked
  <2> QED BY <1>1, <1>3, <2>1 DEF Bot, Same
<1>4. CASE ~Is(e, "SelfSpawned", p) /\ ~Is(e, "EntityDespawned", p)
  <2>1. m = bots[p]
    BY <1>4 DEF SelfTracked
  <2> QED BY <1>4, <2>1 DEF Same
<1> QED BY <1>2, <1>3, <1>4

LEMMA SecondFits ==
  ASSUME MatchesInv, Turn(P2)
  PROVE  Fit(P2, P1, SelfTracked(P2, Head(queue)), Head(queue))
<1> DEFINE e == Head(queue)
           n == bots[P1]
           was == bots[P2]
           m == SelfTracked(P2, e)
<1>1. /\ QueueOK /\ queue # <<>> /\ Behind /\ queue \in Seq(EventSet)
  BY Turns DEF MatchesInv, QueueOK
<1>2. /\ e \in EventSet /\ \A A : (e \in A => Holds(queue, A)) /\ (Within(queue, A) => e \in A)
  BY <1>1, HeadIs
<1>3. /\ was \in Bot /\ n \in Bot /\ rested \in [Players -> BOOLEAN] /\ near \in [Players -> BOOLEAN]
      /\ n.selfEntity /\ near[P1] /\ procSelf[P1] /\ was.opponent \in {Nobody, P1}
  BY PlayersAre DEF MatchesInv, Typed, Placed, Shapes, Shape
<1>4. P1 \in Players /\ P2 \in Players /\ P1 # P2 /\ P1 # Nobody
  BY PlayersAre
<1>5. /\ m \in Bot /\ m.opponent = was.opponent /\ m.initialized = was.initialized
      /\ m.descriptor = was.descriptor /\ m.published = was.published
      /\ m.weAreReady = was.weAreReady /\ m.opponentIsReady = was.opponentIsReady
      /\ m.child = was.child /\ m.foe = was.foe /\ m.fight = was.fight /\ m.gotOption = was.gotOption
      /\ e \in Quiet => m.selfEntity = was.selfEntity
  <2>1. e \in Quiet => ~Is(e, "SelfSpawned", P2) /\ ~Is(e, "EntityDespawned", P2)
    BY DEF Quiet, Is, TravelKinds
  <2> QED BY <1>2, <1>3, <1>4, <2>1, SelfTrackedIs DEF Same
<1>6. count[P1] # 0
  BY <1>3, <1>4, CountIs DEF MatchesInv
<1>7. Placed(P2) /\ Within(queue, Quiet) => count[P2] # 0 /\ m.selfEntity /\ near[P2]
  <2>1. Placed(P2) => count[P2] # 0 /\ near[P2] /\ was.selfEntity
    BY <1>4, CountIs DEF MatchesInv, Placed
  <2>2. Within(queue, Quiet) => m.selfEntity = was.selfEntity
    BY <1>2, <1>5
  <2> QED BY <2>1, <2>2
<1>8. Shape(P1, n) /\ Shape(P2, was)
  BY DEF MatchesInv, Shapes
<1>9. e.kind \in {"EntitySpawned", "EntityDespawned"} => Calm /\ e.about = P2
  <2>1. e.kind \in {"EntitySpawned", "EntityDespawned"} => e \notin Quiet /\ (e \in OnJourney => e.about = P2)
    BY DEF Quiet, TravelKinds, OnJourney
  <2> QED BY <1>2, <2>1 DEF MatchesInv, Journey
<1>10. was.descriptor # NoMatch => was.opponent = P1
  BY DEF MatchesInv, Opponents
<1> HIDE DEF e, m, n, was
<1>11. ~m.initialized => m.child = "none"
  BY <1>5, <1>8 DEF Shape
<1>12. m.child = "actor" => m.selfEntity /\ m.foe = P1 /\ m.opponent = P1 /\ count[P1] # 0 /\ ~m.gotOption
  <2>1. SUFFICES ASSUME m.child = "actor"
                 PROVE m.selfEntity /\ m.foe = P1 /\ m.opponent = P1 /\ ~m.gotOption
    BY <1>6
  <2>2. m.foe = P1 /\ m.descriptor # NoMatch /\ ~m.gotOption
    BY <1>5, <1>8, <2>1, PlayersAre DEF Shape, Standing
  <2>3. Placed(P2) /\ Within(queue, Quiet)
    BY <1>5, <2>1, BusyIs DEF was
  <2> QED BY <1>5, <1>7, <1>10, <2>2, <2>3
<1>13. m.child = "prepare" => ~m.weAreReady /\ m.descriptor # NoMatch
  BY <1>5, <1>8 DEF Shape
<1>14. m.child = "prepare" /\ rested[P2] /\ m.opponentIsReady =>
         /\ m.opponent = P1 /\ count[P1] # 0
         /\ ~(e.kind = "LifeStateChanged" /\ life[e.about] = "dead")
  <2>1. SUFFICES ASSUME m.child = "prepare", rested[P2], m.opponentIsReady
                 PROVE  /\ m.opponent = P1
                        /\ ~(e.kind = "LifeStateChanged" /\ life[e.about] = "dead")
    BY <1>6
  <2>2. was.descriptor # NoMatch /\ was.child = "prepare" /\ was.opponentIsReady
    BY <1>5, <1>13, <2>1
  <2>3. ~Left
    BY <2>2 DEF Left, was
  <2>4. Standing(n)
    BY <2>2, <2>3 DEF MatchesInv, Pairs, Pair, was, n
  <2>5. rested[P1]
    BY <2>2, <2>4 DEF MatchesInv, Pairs, Pair, was, n
  <2>6. life[P1] = "alive" /\ life[P2] = "alive"
    BY <2>1, <2>5 DEF MatchesInv, Ledgers, LedgerOf, Ledger
  <2>7. e.kind = "LifeStateChanged" => e.about \in {P1, P2}
    BY <1>2, EventsAre, PlayersAre DEF PlayerKinds
  <2> QED BY <1>5, <1>10, <2>2, <2>6, <2>7
<1>15. m.child = "resurrect" => m.selfEntity /\ near[P2] /\ ~rested[P2]
  <2>1. SUFFICES ASSUME m.child = "resurrect" PROVE m.selfEntity /\ near[P2] /\ ~rested[P2]
    OBVIOUS
  <2>2. Placed(P2) /\ Within(queue, Quiet)
    BY <1>5, <2>1, BusyIs DEF was
  <2>3. ~rested[P2]
    BY <1>5, <2>1 DEF MatchesInv, Ledgers, LedgerOf, Ledger, was
  <2> QED BY <1>7, <2>2, <2>3
<1>16. Asking(m) => ~m.opponentIsReady
  BY <1>5, <1>8 DEF Shape, Asking
<1>17. e.kind \in {"LifeStateChanged", "EntitySpawned"} => count[e.about] # 0
  <2>1. e.kind \in {"LifeStateChanged", "EntitySpawned"} => e.about \in {P1, P2}
    BY <1>2, EventsAre, PlayersAre DEF PlayerKinds, TravelKinds
  <2>2. e.kind = "LifeStateChanged" => Placed(P2) /\ Within(queue, Quiet)
    <3>1. e.kind = "LifeStateChanged" => e \notin Harmless
      BY DEF Harmless
    <3> QED BY <1>2, <3>1, BusyIs
  <2>3. e.kind = "EntitySpawned" => procSelf[P2]
    <3>1. e.kind = "EntitySpawned" => e \in Ev("EntitySpawned") /\ e \notin Quiet
      BY <1>2 DEF Ev, Quiet, TravelKinds
    <3> QED BY <1>2, <3>1 DEF MatchesInv, Journey, Placed, Far, Leaving, Resetting, Loading, Entering
  <2>4. procSelf[P2] => count[P2] # 0
    BY <1>4, CountIs DEF MatchesInv
  <2> QED BY <1>6, <1>7, <2>1, <2>2, <2>3, <2>4
<1>18. e.kind = "EntityDespawned" =>
         m.child = "none" \/ (m.child = "prepare" /\ m.opponent # e.about)
  <2>1. Calm => m.child \in {"none", "prepare"}
    BY <1>5 DEF Calm, was
  <2>2. m.opponent \in {Nobody, P1} /\ P2 \notin {Nobody, P1}
    BY <1>3, <1>5, PlayersAre
  <2> QED BY <1>9, <2>1, <2>2
<1>19. e.kind = "EntitySpawned" /\ m.descriptor # NoMatch /\ m.opponent = Nobody =>
         m.child = "none" /\ P1 = P2 /\ e.about = P2
  BY <1>4, <1>5, <1>10
<1>20. e \in Reports(P1) =>
         /\ m.opponent = P1 /\ m.descriptor # NoMatch /\ m.child # "actor"
         /\ m.weAreReady => m.selfEntity /\ count[P1] # 0 /\ m.child # "resurrect"
  <2>1. SUFFICES ASSUME e \in Reports(P1)
                 PROVE  /\ m.opponent = P1 /\ m.descriptor # NoMatch /\ m.child # "actor"
                        /\ m.weAreReady => m.selfEntity /\ m.child # "resurrect"
    BY <1>6
  <2>2. Standing(n) /\ ~(was.opponentIsReady /\ was.descriptor # NoMatch)
    BY <1>2, <2>1 DEF MatchesInv, Pairs, Pair, was, n
  <2>3. was.descriptor # NoMatch
    <3>1. \A d : e \notin EvOf("BeginPvp", d)
      BY <2>1 DEF EvOf, Reports
    <3> QED BY <2>2, <3>1 DEF MatchesInv, Together, Standing, was, n, e
  <2>4. m.weAreReady => Placed(P2) /\ Within(queue, Quiet)
    BY <1>5, BusyIs DEF was
  <2>5. m.child # "actor"
    BY <1>5, <1>8, <2>2, <2>3 DEF Shape
  <2>6. m.weAreReady => m.child # "resurrect"
    BY <1>5, <1>8, <2>3 DEF Shape
  <2> QED BY <1>5, <1>7, <1>10, <2>3, <2>4, <2>5, <2>6
<1>21. e \in Begins => m.selfEntity /\ count[P1] # 0 /\ Asking(m) /\ m.child \in {"none", "resurrect"}
  <2>1. SUFFICES ASSUME e \in Begins
                 PROVE  m.selfEntity /\ Asking(m) /\ m.child \in {"none", "resurrect"}
    BY <1>6
  <2>2. Holds(queue, Begins)
    BY <1>2, <2>1
  <2>3. Asking(was)
    BY <2>2 DEF MatchesInv, RequestsOK, Tokens, was
  <2>4. was.selfEntity /\ Within(queue, Quiet)
    BY <2>3, AskingIs DEF was
  <2>5. was.child \in {"none", "resurrect"}
    BY <1>3, <1>8, <2>3 DEF Shape, Asking, Standing, Bot
  <2> QED BY <1>2, <1>5, <2>3, <2>4, <2>5 DEF Asking
<1>22. e.kind = "ResurrectOption" => m.selfEntity
  <2>1. e.kind = "ResurrectOption" => e \notin Harmless
    BY DEF Harmless
  <2> QED BY <1>2, <1>7, <2>1, BusyIs
<1> QED BY <1>2, <1>3, <1>5, <1>11, <1>12, <1>13, <1>14, <1>15, <1>16, <1>17, <1>18, <1>19, <1>20, <1>21, <1>22
        DEF Fit, e, m

-----------------------------------------------------------------------------
(* How a move changes a PvpManager, field by field.                        *)

Fields(k, initialized, descriptor, published, weAreReady, opponentIsReady, child, foe, fight) ==
  /\ k.initialized = initialized /\ k.descriptor = descriptor /\ k.published = published
  /\ k.weAreReady = weAreReady /\ k.opponentIsReady = opponentIsReady
  /\ k.child = child /\ k.foe = foe /\ k.fight = fight

LEMMA MovesAre ==
  ASSUME NEW p, NEW o, NEW m \in Bot, NEW e, NEW k, NEW out, NEW yes, NEW no, yes = TRUE, no = FALSE
  PROVE  /\ Stays(m, k, out) =>
              Fields(k, m.initialized, m.descriptor, m.published, m.weAreReady,
                     m.opponentIsReady, m.child, m.foe, m.fight)
         /\ Starts(p, m, k, out) =>
              Fields(k, yes, m.descriptor, yes, no, no, m.child, m.foe, m.fight)
         /\ Hears(o, m, e, k, out) =>
              Fields(k, m.initialized, m.descriptor, m.published, m.weAreReady, yes, m.child,
                     m.foe, m.fight)
         /\ Fights(o, m, e, k, out) =>
              /\ Fields(k, m.initialized, m.descriptor, m.published, m.weAreReady, yes, "actor",
                        o, m.descriptor)
              /\ ~k.gotOption
         /\ Takes(p, m, e, k, out) =>
              Fields(k, m.initialized, e.about, no, m.weAreReady, m.opponentIsReady,
                     IF m.child = "none" THEN "prepare" ELSE m.child, m.foe, m.fight)
         /\ TakesReady(p, m, e, k, out) =>
              Fields(k, m.initialized, e.about, no, yes, m.opponentIsReady, m.child, m.foe, m.fight)
         /\ Prepares(p, m, k, out) =>
              IF m.opponentIsReady
              THEN /\ Fields(k, m.initialized, m.descriptor, m.published, yes, m.opponentIsReady,
                             "actor", m.opponent, m.descriptor)
                   /\ ~k.gotOption
              ELSE Fields(k, m.initialized, m.descriptor, m.published, yes, m.opponentIsReady,
                          "none", m.foe, m.fight)
         /\ Dies(p, m, e, k, out) =>
              Fields(k, m.initialized, IF m.child = "actor" THEN NoMatch ELSE m.descriptor,
                     m.published, m.weAreReady, m.opponentIsReady, "resurrect", Nobody, NoMatch)
         /\ Wins(p, o, m, e, k, out) =>
              Fields(k, m.initialized, NoMatch, yes, no, no, "none", Nobody, NoMatch)
         /\ Revives(p, m, e, k, out) =>
              IF m.descriptor # NoMatch
              THEN Fields(k, m.initialized, m.descriptor, m.published, m.weAreReady,
                          m.opponentIsReady, "prepare", m.foe, m.fight)
              ELSE IF m.published
              THEN Fields(k, m.initialized, m.descriptor, m.published, m.weAreReady,
                          m.opponentIsReady, "none", m.foe, m.fight)
              ELSE Fields(k, m.initialized, m.descriptor, yes, no, no, "none", m.foe, m.fight)
<1> DEFINE both == [m EXCEPT !.opponentIsReady = TRUE]
<1>1. Stays(m, k, out) =>
        Fields(k, m.initialized, m.descriptor, m.published, m.weAreReady, m.opponentIsReady,
               m.child, m.foe, m.fight)
  BY DEF Stays, Same, Fields
<1>2. Starts(p, m, k, out) => Fields(k, yes, m.descriptor, yes, no, no, m.child, m.foe, m.fight)
  BY DEF Starts, Same, Reset, Bot, Fields
<1>3. Hears(o, m, e, k, out) =>
        Fields(k, m.initialized, m.descriptor, m.published, m.weAreReady, yes, m.child, m.foe,
               m.fight)
  BY DEF Hears, Same, Bot, Fields
<1>4. Fights(o, m, e, k, out) =>
        /\ Fields(k, m.initialized, m.descriptor, m.published, m.weAreReady, yes, "actor", o,
                  m.descriptor)
        /\ ~k.gotOption
  <2>1. SUFFICES ASSUME Fights(o, m, e, k, out)
                 PROVE  /\ Fields(k, m.initialized, m.descriptor, m.published, m.weAreReady, yes,
                                  "actor", o, m.descriptor)
                        /\ ~k.gotOption
    OBVIOUS
  <2>2. /\ both \in Bot /\ both.initialized = m.initialized /\ both.descriptor = m.descriptor
        /\ both.published = m.published /\ both.weAreReady = m.weAreReady
        /\ both.opponentIsReady = yes /\ both.opponent = o
    BY <2>1 DEF Fights, Bot
  <2>3. Same(Fighting(both), k)
    BY <2>1 DEF Fights
  <2> HIDE DEF both
  <2>4. PICK g, f : g = both /\ f = Fighting(g)
    OBVIOUS
  <2>5. /\ f \in Bot /\ f.initialized = g.initialized /\ f.descriptor = g.descriptor
        /\ f.published = g.published /\ f.weAreReady = g.weAreReady
        /\ f.opponentIsReady = g.opponentIsReady /\ ~f.gotOption /\ f.child = "actor"
        /\ f.foe = g.opponent /\ f.fight = g.descriptor
    BY <2>2, <2>4, FightingIs
  <2> QED BY <2>2, <2>3, <2>4, <2>5 DEF Same, Fields
<1>5. Takes(p, m, e, k, out) =>
        Fields(k, m.initialized, e.about, no, m.weAreReady, m.opponentIsReady,
               IF m.child = "none" THEN "prepare" ELSE m.child, m.foe, m.fight)
  <2>1. PICK c : c = IF m.child = "none" THEN "prepare" ELSE m.child
    OBVIOUS
  <2>2. [m EXCEPT !.descriptor = e.about, !.published = FALSE,
                  !.child = IF @ = "none" THEN "prepare" ELSE @]
        = [m EXCEPT !.descriptor = e.about, !.published = FALSE, !.child = c]
    BY <2>1
  <2>3. Takes(p, m, e, k, out) =>
          Same([m EXCEPT !.descriptor = e.about, !.published = FALSE, !.child = c], k)
    BY <2>2 DEF Takes
  <2>4. Takes(p, m, e, k, out) =>
          Fields(k, m.initialized, e.about, no, m.weAreReady, m.opponentIsReady, c, m.foe, m.fight)
    BY <2>3 DEF Same, Bot, Fields
  <2> QED BY <2>1, <2>4
<1>6. TakesReady(p, m, e, k, out) =>
        Fields(k, m.initialized, e.about, no, yes, m.opponentIsReady, m.child, m.foe, m.fight)
  BY DEF TakesReady, Same, Bot, Fields
<1>7. Prepares(p, m, k, out) =>
        IF m.opponentIsReady
        THEN /\ Fields(k, m.initialized, m.descriptor, m.published, yes, m.opponentIsReady,
                       "actor", m.opponent, m.descriptor)
             /\ ~k.gotOption
        ELSE Fields(k, m.initialized, m.descriptor, m.published, yes, m.opponentIsReady, "none",
                    m.foe, m.fight)
  <2>1. PICK g, f : g = Prepared(m) /\ f = Fighting(g)
    OBVIOUS
  <2>2. /\ g \in Bot /\ g.initialized = m.initialized /\ g.descriptor = m.descriptor
        /\ g.published = m.published /\ g.weAreReady /\ g.opponentIsReady = m.opponentIsReady
        /\ g.opponent = m.opponent /\ g.child = "none" /\ g.foe = m.foe /\ g.fight = m.fight
    BY <2>1, PreparedIs
  <2>3. /\ f \in Bot /\ f.initialized = g.initialized /\ f.descriptor = g.descriptor
        /\ f.published = g.published /\ f.weAreReady = g.weAreReady
        /\ f.opponentIsReady = g.opponentIsReady /\ ~f.gotOption /\ f.child = "actor"
        /\ f.foe = g.opponent /\ f.fight = g.descriptor
    BY <2>1, <2>2, FightingIs
  <2>4. g.weAreReady = yes
    BY <2>2 DEF Bot
  <2>5. Prepares(p, m, k, out) => IF m.opponentIsReady THEN Same(f, k) ELSE Same(g, k)
    BY <2>1 DEF Prepares
  <2> QED BY <2>2, <2>3, <2>4, <2>5 DEF Same, Fields
<1>8. Dies(p, m, e, k, out) =>
        Fields(k, m.initialized, IF m.child = "actor" THEN NoMatch ELSE m.descriptor,
               m.published, m.weAreReady, m.opponentIsReady, "resurrect", Nobody, NoMatch)
  <2>1. PICK d : d = IF m.child = "actor" THEN NoMatch ELSE m.descriptor
    OBVIOUS
  <2>2. Dies(p, m, e, k, out) =>
          Same([m EXCEPT !.child = "resurrect", !.foe = Nobody, !.fight = NoMatch,
                         !.descriptor = d], k)
    BY <2>1 DEF Dies
  <2>3. Dies(p, m, e, k, out) =>
          Fields(k, m.initialized, d, m.published, m.weAreReady, m.opponentIsReady, "resurrect",
                 Nobody, NoMatch)
    BY <2>2 DEF Same, Bot, Fields
  <2> QED BY <2>1, <2>3
<1>9. Wins(p, o, m, e, k, out) =>
        Fields(k, m.initialized, NoMatch, yes, no, no, "none", Nobody, NoMatch)
  BY DEF Wins, Same, Reset, Over, Bot, Fields
<1>10. Revives(p, m, e, k, out) =>
         IF m.descriptor # NoMatch
         THEN Fields(k, m.initialized, m.descriptor, m.published, m.weAreReady,
                     m.opponentIsReady, "prepare", m.foe, m.fight)
         ELSE IF m.published
         THEN Fields(k, m.initialized, m.descriptor, m.published, m.weAreReady,
                     m.opponentIsReady, "none", m.foe, m.fight)
         ELSE Fields(k, m.initialized, m.descriptor, yes, no, no, "none", m.foe, m.fight)
  BY DEF Revives, Same, Reset, Bot, Fields
<1> QED BY <1>1, <1>2, <1>3, <1>4, <1>5, <1>6, <1>7, <1>8, <1>9, <1>10

(* The shape of a PvpManager is kept.  Nobody that stands and waits for the*)
(* other one dies.                                                         *)
LEMMA ShapeKept ==
  ASSUME NEW p \in Players, NEW o, o = Opponent(p), NEW m, NEW e, NEW k \in Bot, NEW out,
         Shape(p, m), Fit(p, o, m, e), Moves(p, o, m, e, k, out),
         m.initialized \/ Starts(p, m, k, out),
         k.opponent \in {Nobody, o}, k.eventId \in {NoTimer} \cup ({p} \X (1..MaxTimers)),
         Dies(p, m, e, k, out) => ~(Standing(m) /\ m.child = "none")
  PROVE  Shape(p, k)
<1> PICK yes, no : yes = TRUE /\ no = FALSE
  OBVIOUS
<1>1. m \in Bot /\ e \in EventSet /\ o # Nobody /\ NoMatch \notin MatchId
  BY PlayersAre DEF Fit
<1>2. CASE Stays(m, k, out)
  <2>1. Fields(k, m.initialized, m.descriptor, m.published, m.weAreReady,
               m.opponentIsReady, m.child, m.foe, m.fight)
    BY <1>1, <1>2, MovesAre
  <2>2. k.gotOption => m.gotOption \/ m.child = "resurrect"
    BY <1>2 DEF Stays, Same
  <2> QED BY <2>1, <2>2 DEF Fields, Shape, Asking, Standing
<1>3. CASE Starts(p, m, k, out)
  <2>1. Fields(k, yes, m.descriptor, yes, no, no, m.child, m.foe, m.fight)
    BY <1>1, <1>3, MovesAre
  <2>2. ~m.initialized
    BY <1>3 DEF Starts
  <2> QED BY <2>1, <2>2 DEF Fields, Shape, Asking, Standing
<1>4. CASE Hears(o, m, e, k, out)
  <2>1. Fields(k, m.initialized, m.descriptor, m.published, m.weAreReady, yes, m.child,
               m.foe, m.fight)
    BY <1>1, <1>4, MovesAre
  <2>2. ~m.weAreReady /\ m.descriptor # NoMatch
    BY <1>4 DEF Hears
  <2> QED BY <2>1, <2>2 DEF Fields, Shape, Asking, Standing
<1>5. CASE Fights(o, m, e, k, out)
  <2>1. /\ Fields(k, m.initialized, m.descriptor, m.published, m.weAreReady, yes, "actor",
                  o, m.descriptor)
        /\ ~k.gotOption
    BY <1>1, <1>5, MovesAre
  <2>2. Standing(m)
    BY <1>5 DEF Fights
  <2> QED BY <2>1, <2>2 DEF Fields, Shape, Asking, Standing
<1>6. CASE Takes(p, m, e, k, out) \/ TakesReady(p, m, e, k, out)
  <2>1. e.about # NoMatch /\ m.initialized
    <3>1. e \in Begins
      BY <1>6 DEF Takes, TakesReady
    <3>2. e.about \in MatchId
      BY <1>1, <3>1, EventsAre DEF Begins, Ev
    <3>3. m.initialized
      BY <3>1 DEF Fit, Starts, Shape, Asking
    <3> QED BY <1>1, <3>2, <3>3
  <2>2. Asking(m) /\ m.child \in {"none", "resurrect"}
    BY <1>6 DEF Takes, TakesReady, Fit
  <2>3. ~m.weAreReady /\ ~m.opponentIsReady
    BY <2>2 DEF Shape
  <2>4. CASE Takes(p, m, e, k, out)
    <3>1. Fields(k, m.initialized, e.about, no, m.weAreReady, m.opponentIsReady,
                 IF m.child = "none" THEN "prepare" ELSE m.child, m.foe, m.fight)
      BY <1>1, <2>4, MovesAre
    <3> QED BY <2>1, <2>2, <2>3, <3>1 DEF Fields, Shape, Asking, Standing
  <2>5. CASE TakesReady(p, m, e, k, out)
    <3>1. Fields(k, m.initialized, e.about, no, yes, m.opponentIsReady, m.child, m.foe, m.fight)
      BY <1>1, <2>5, MovesAre
    <3>2. m.child = "none"
      BY <2>5 DEF TakesReady
    <3> QED BY <2>1, <2>2, <2>3, <3>1, <3>2 DEF Fields, Shape, Asking, Standing
  <2> QED BY <1>6, <2>4, <2>5
<1>7. CASE Prepares(p, m, k, out)
  <2>1. IF m.opponentIsReady
        THEN /\ Fields(k, m.initialized, m.descriptor, m.published, yes, m.opponentIsReady,
                       "actor", m.opponent, m.descriptor)
             /\ ~k.gotOption
        ELSE Fields(k, m.initialized, m.descriptor, m.published, yes, m.opponentIsReady, "none",
                    m.foe, m.fight)
    BY <1>1, <1>7, MovesAre
  <2>2. m.child = "prepare" /\ rested[p] /\ m.descriptor # NoMatch
    BY <1>7 DEF Prepares, Fit
  <2>3. m.opponentIsReady => m.opponent = o
    BY <2>2 DEF Fit
  <2>4. ~m.published /\ m.initialized
    BY <2>2 DEF Shape
  <2> QED BY <2>1, <2>2, <2>3, <2>4 DEF Fields, Shape, Asking, Standing
<1>8. CASE Dies(p, m, e, k, out)
  <2>1. Fields(k, m.initialized, IF m.child = "actor" THEN NoMatch ELSE m.descriptor,
               m.published, m.weAreReady, m.opponentIsReady, "resurrect", Nobody, NoMatch)
    BY <1>1, <1>8, MovesAre
  <2>2. m.child # "resurrect" /\ ~(Standing(m) /\ m.child = "none")
    BY <1>8 DEF Dies
  <2>3. m.initialized
    <3>1. ASSUME ~m.initialized PROVE FALSE
      <4>1. out = <<>> /\ out = <<Event("ReadyForAssignment", p)>>
        BY <3>1, <1>8 DEF Starts, Dies
      <4> QED BY <4>1
    <3> QED BY <3>1
  <2>4. m.child \in {"none", "prepare", "actor"}
    BY <1>1, <2>2 DEF Bot
  <2>5. CASE m.child = "actor"
    <3>1. Fields(k, m.initialized, NoMatch, m.published, m.weAreReady, m.opponentIsReady,
                 "resurrect", Nobody, NoMatch)
      BY <2>1, <2>5
    <3>2. ~m.published
      BY <2>5 DEF Shape, Standing
    <3> QED BY <2>3, <3>1, <3>2 DEF Fields, Shape, Asking, Standing
  <2>6. CASE m.child # "actor"
    <3>1. Fields(k, m.initialized, m.descriptor, m.published, m.weAreReady, m.opponentIsReady,
                 "resurrect", Nobody, NoMatch)
      BY <2>1, <2>6
    <3>2. m.descriptor # NoMatch => ~m.weAreReady
      BY <2>2, <2>4, <2>6 DEF Shape, Standing
    <3> QED BY <2>3, <3>1, <3>2 DEF Fields, Shape, Asking, Standing
  <2> QED BY <2>5, <2>6
<1>9. CASE Wins(p, o, m, e, k, out)
  <2>1. Fields(k, m.initialized, NoMatch, yes, no, no, "none", Nobody, NoMatch)
    BY <1>1, <1>9, MovesAre
  <2>2. m.initialized
    BY <1>9 DEF Wins, Shape
  <2> QED BY <2>1, <2>2 DEF Fields, Shape, Asking, Standing
<1>10. CASE Revives(p, m, e, k, out)
  <2>1. IF m.descriptor # NoMatch
        THEN Fields(k, m.initialized, m.descriptor, m.published, m.weAreReady,
                    m.opponentIsReady, "prepare", m.foe, m.fight)
        ELSE IF m.published
        THEN Fields(k, m.initialized, m.descriptor, m.published, m.weAreReady,
                    m.opponentIsReady, "none", m.foe, m.fight)
        ELSE Fields(k, m.initialized, m.descriptor, yes, no, no, "none", m.foe, m.fight)
    BY <1>1, <1>10, MovesAre
  <2>2. m.child = "resurrect" /\ m.initialized
    BY <1>10 DEF Revives, Shape
  <2> QED BY <2>1, <2>2 DEF Fields, Shape, Asking, Standing
<1> QED BY <1>2, <1>3, <1>4, <1>5, <1>6, <1>7, <1>8, <1>9, <1>10 DEF Moves

(* A player that stands and waits for the other one hears of no death of   *)
(* its own.                                                                *)
LEMMA DiesApart ==
  ASSUME MatchesInv, NEW p \in Players, Turn(p), Head(queue) \in Lives(p), life[p] = "dead"
  PROVE  ~(Standing(bots[p]) /\ bots[p].child = "none")
<1> DEFINE e == Head(queue)
<1>1. queue \in Seq(EventSet) /\ queue # <<>> /\ QueueOK
  BY DEF MatchesInv, QueueOK, Turn
<1> SUFFICES ASSUME Standing(bots[p]), bots[p].child = "none" PROVE FALSE
  OBVIOUS
<1>2. ~rested[p]
  BY PlayersAre DEF MatchesInv, Ledgers, LedgerOf, Ledger
<1>3. \A o \in Players : OnlyAfter(queue, Lives(p), EventSet \ Reports(o)) => ~Holds(queue, Reports(o))
  <2>1. SUFFICES ASSUME NEW o \in Players, OnlyAfter(queue, Lives(p), EventSet \ Reports(o))
                 PROVE ~Holds(queue, Reports(o))
    OBVIOUS
  <2>2. Within(Tail(queue), EventSet \ Reports(o))
    BY <1>1, <2>1, HeadTail
  <2>3. (EventSet \ Reports(o)) \cap Reports(o) = {}
    OBVIOUS
  <2>4. ~Holds(Tail(queue), Reports(o))
    BY <2>2, <2>3, Subsets
  <2>5. e \notin Reports(o)
    BY DEF Lives, Reports, EvOf
  <2> QED BY <1>1, <2>4, <2>5, HeadTail
<1>4. CASE p = P1
  <2>1. Box1 = queue
    BY <1>1, <1>4, Turns DEF Box1
  <2>2. bots[P2].child = "actor" /\ ~bots[P1].opponentIsReady
    BY <1>2, <1>4 DEF MatchesInv, Pairs, Pair, Shapes, Shape, Standing
  <2>3. Standing(bots[P2]) /\ bots[P1].descriptor = bots[P2].descriptor
    BY <1>4, <2>2 DEF MatchesInv, Shapes, Shape, Standing, Together
  <2>4. Holds(queue, Reports(P2)) /\ OnlyAfter(queue, Lives(P1), EventSet \ Reports(P2))
    BY <1>4, <2>1, <2>2, <2>3 DEF MatchesInv, Pairs, Pair
  <2> QED BY <1>3, <1>4, <2>4, PlayersAre
<1>5. CASE p = P2
  <2>1. ~Left
    BY <1>5 DEF Left
  <2>2. bots[P1].child = "actor" /\ ~bots[P2].opponentIsReady
    BY <1>2, <1>5, <2>1 DEF MatchesInv, Pairs, Pair, Shapes, Shape, Standing
  <2>3. Standing(bots[P1]) /\ bots[P1].descriptor = bots[P2].descriptor
    BY <1>5, <2>2 DEF MatchesInv, Shapes, Shape, Standing, Together
  <2>4. Holds(queue, Reports(P1)) /\ OnlyAfter(queue, Lives(P2), EventSet \ Reports(P1))
    BY <1>5, <2>2, <2>3 DEF MatchesInv, Pairs, Pair
  <2> QED BY <1>3, <1>5, <2>4, PlayersAre
<1> QED BY <1>4, <1>5, PlayersAre

(* What a delivery does, to a player p that was m, and to the rest.        *)
Effect(p, o, m, e, k, out, z) ==
  /\ Shape(p, k) /\ k.selfEntity = m.selfEntity
  /\ Moves(p, o, m, e, k, out) /\ Knows(p, o, m, e, k)
  /\ m.initialized \/ Starts(p, m, k, out)
  /\ bots' = [bots EXCEPT ![p] = k]
  /\ EndTurn((<<e>> \o z) \o out)
  /\ timers' \subseteq TimerId /\ \A u \in timers : u \in timers' \/ u = m.eventId
  /\ k.child = "resurrect" /\ k.eventId # NoTimer =>
       \/ k.eventId \in timers'
       \/ /\ m.child = "resurrect" /\ k.eventId = m.eventId /\ timers' = timers
          /\ z = Tail(queue) /\ ~Is(e, "Timeout", k.eventId)
  /\ stage' = [stage EXCEPT ![p] = StageAfter(p, e)]
  /\ \/ warpReq' = warpReq
     \/ /\ warpReq' = warpReq \cup {p} /\ stage[p] = "in" /\ ~near[p] /\ k.child = "prepare"
  /\ \/ resReq' = resReq
     \/ /\ resReq' = resReq \cup {p} /\ srvLife[p] = "dead" /\ k.child = "resurrect"
        /\ m.child # "actor"
  /\ \/ hurt' = hurt /\ rested' = rested
     \/ /\ hurt' = hurt \cup {o} /\ rested' = [rested EXCEPT ![o] = FALSE]
        /\ k.child = "actor" /\ srvLife[o] = "alive"
  /\ errors' = {}
  /\ p # P2 => reports' = reports
  /\ p = P2 /\ m.child = "actor" => reports' = (IF k.child = "actor" THEN reports ELSE reports + 1)
  /\ p = P2 /\ m.child # "actor" /\ k.child = "actor" => reports' = 0
  /\ UNCHANGED <<ready, nextPvpId, procSelf, count, life, near, sees, srvLife, news, option>>

(* A timer that begins changes nothing else.                               *)
LEMMA Armed ==
  ASSUME NEW p \in Players, NEW o, NEW m, NEW e, NEW k \in Bot, NEW out, NEW t \in {p} \X (1..MaxTimers)
  PROVE  LET j == [k EXCEPT !.eventId = t]
         IN /\ j \in Bot /\ j.eventId = t /\ j.selfEntity = k.selfEntity /\ j.child = k.child
            /\ Moves(p, o, m, e, k, out) => Moves(p, o, m, e, j, out)
            /\ Knows(p, o, m, e, k) => Knows(p, o, m, e, j)
            /\ Starts(p, m, k, out) => Starts(p, m, j, out)
            /\ Shape(p, k) => Shape(p, j)
<1> DEFINE j == [k EXCEPT !.eventId = t]
<1>1. t \in TimerId
  BY DEF TimerId
<1>2. /\ j \in Bot /\ j.eventId = t /\ j.selfEntity = k.selfEntity /\ j.child = k.child
      /\ j.initialized = k.initialized /\ j.opponent = k.opponent /\ j.descriptor = k.descriptor
      /\ j.published = k.published /\ j.weAreReady = k.weAreReady
      /\ j.opponentIsReady = k.opponentIsReady /\ j.gotOption = k.gotOption
      /\ j.foe = k.foe /\ j.fight = k.fight
  BY <1>1 DEF Bot
<1> HIDE DEF j
<1>3. \A n : Same(n, k) => Same(n, j)
  BY <1>2 DEF Same
<1>4. Knows(p, o, m, e, k) => Knows(p, o, m, e, j)
  BY <1>2 DEF Knows
<1>5. Shape(p, k) => Shape(p, j)
  BY <1>2 DEF Shape, Asking, Standing
<1>6. Starts(p, m, k, out) => Starts(p, m, j, out)
  BY <1>3 DEF Starts
<1>7. Moves(p, o, m, e, k, out) => Moves(p, o, m, e, j, out)
  <2>1. Stays(m, k, out) => Stays(m, j, out)
    BY <1>3 DEF Stays
  <2>2. Hears(o, m, e, k, out) => Hears(o, m, e, j, out)
    BY <1>3 DEF Hears
  <2>3. Fights(o, m, e, k, out) => Fights(o, m, e, j, out)
    BY <1>3 DEF Fights
  <2>4. Takes(p, m, e, k, out) => Takes(p, m, e, j, out)
    BY <1>3 DEF Takes
  <2>5. TakesReady(p, m, e, k, out) => TakesReady(p, m, e, j, out)
    BY <1>3 DEF TakesReady
  <2>6. Prepares(p, m, k, out) => Prepares(p, m, j, out)
    BY <1>3 DEF Prepares
  <2>7. Dies(p, m, e, k, out) => Dies(p, m, e, j, out)
    BY <1>3 DEF Dies
  <2>8. Wins(p, o, m, e, k, out) => Wins(p, o, m, e, j, out)
    BY <1>3 DEF Wins
  <2>9. Revives(p, m, e, k, out) => Revives(p, m, e, j, out)
    BY <1>3 DEF Revives
  <2> QED BY <1>6, <2>1, <2>2, <2>3, <2>4, <2>5, <2>6, <2>7, <2>8, <2>9 DEF Moves
<1> QED BY <1>2, <1>4, <1>5, <1>6, <1>7 DEF j

LEMMA DeliverIs ==
  ASSUME MatchesInv, NEW p \in Players, NEW o \in Players, o = Opponent(p), DeliverToBot(p)
  PROVE  LET e == Head(queue)
             m == SelfTracked(p, e)
         IN \E k \in Bot, out \in Seq(EventSet), z \in Seq(EventSet) :
              /\ Effect(p, o, m, e, k, out, z)
              /\ Spares(Tail(queue), z, m.eventId)
<1> DEFINE e == Head(queue)
           m == SelfTracked(p, e)
<1>1. PICK r : r = OnUpdate(p, m, e)
  OBVIOUS
<1>2. Turn(p) /\ queue # <<>> /\ QueueOK /\ e \in EventSet
  BY HeadIs DEF DeliverToBot, MatchesInv, Turn
<1>3. Fit(p, o, m, e)
  <2>1. CASE p = P1
    BY <1>2, <2>1, FirstFits, PlayersAre
  <2>2. CASE p = P2
    BY <1>2, <2>2, SecondFits, PlayersAre
  <2> QED BY <2>1, <2>2, PlayersAre
<1>4. bots \in [Players -> Bot] /\ Shape(p, bots[p])
  BY PlayersAre DEF MatchesInv, Typed, Shapes
<1>5. m \in Bot /\ Same(bots[p], m) /\ m.opponent = bots[p].opponent
      /\ m.eventId = bots[p].eventId /\ m.gotOption = bots[p].gotOption
  BY <1>2, <1>4, SelfTrackedIs
<1>6. Shape(p, m)
  BY <1>4, <1>5 DEF Shape, Same, Asking, Standing
<1>7. e \in Lives(p) /\ life[p] = "dead" => ~(Standing(m) /\ m.child = "none")
  BY <1>2, <1>5, DiesApart DEF Same, Standing
<1>8. PICK t : t = CHOOSE free \in FreeTimers(p) : TRUE
  OBVIOUS
<1>9. PICK kills : kills = (r.hit /\ srvLife[p] = "alive" /\ srvLife[r.m.foe] = "alive")
  OBVIOUS
<1>10. PICK j : j = IF r.arm THEN [r.m EXCEPT !.eventId = t] ELSE r.m
  OBVIOUS
<1>11. /\ r.arm => FreeTimers(p) # {}
       /\ bots' = [bots EXCEPT ![p] = j]
       /\ EndTurn(Uncancelled(r) \o r.out)
       /\ timers' = (timers \ r.cancel) \cup (IF r.arm THEN {t} ELSE {})
       /\ stage' = [stage EXCEPT ![p] = StageAfter(p, e)]
       /\ warpReq' = IF "warp" \in r.sent /\ stage[p] = "in" THEN warpReq \cup {p} ELSE warpReq
       /\ resReq' = IF "resurrect" \in r.sent /\ srvLife[p] = "dead"
                    THEN resReq \cup {p} ELSE resReq
       /\ hurt' = IF kills THEN hurt \cup {r.m.foe} ELSE hurt
       /\ rested' = [q \in Players |-> rested[q] /\ ~(kills /\ q = r.m.foe)]
       /\ errors' = errors \cup r.threw \cup
                    (IF CancelThrows(r) THEN {"cancelled too late"} ELSE {})
       /\ reports' = IF p # P2 THEN reports
                     ELSE IF r.report THEN reports + 1
                     ELSE IF Pvping(r.m) /\ ~Pvping(bots[p]) THEN 0 ELSE reports
       /\ UNCHANGED <<ready, nextPvpId, world, sees, srvLife, news, option>>
  BY <1>1, <1>8, <1>9, <1>10 DEF DeliverToBot
<1> HIDE DEF e, m
<1>12. Outcome(p, o, m, e, r) /\ (m.initialized \/ Starts(p, m, r.m, r.out))
  BY <1>1, <1>3, UpdateOutcome
<1>13. PICK n, out : n = r.m /\ out = r.out
  OBVIOUS
<1>14. Orderly(p, m, e, r) /\ Moves(p, o, m, e, n, out) /\ Knows(p, o, m, e, n)
       /\ (m.initialized \/ Starts(p, m, n, out)) /\ n \in Bot
  BY <1>12, <1>13 DEF Outcome, Orderly
<1>15. out \in Seq(EventSet)
  <2>1. out \in {<<>>, <<Event("ReadyForAssignment", p)>>, <<Event("ReadyForPvp", p)>>}
    BY <1>14 DEF Moves, Stays, Starts, Hears, Fights, Takes, TakesReady, Prepares, Dies, Wins, Revives
  <2>2. <<>> \in Seq(EventSet)
    OBVIOUS
  <2> QED BY <2>1, <2>2, OwnEvents
<1>16. Shape(p, n)
  <2>1. n.eventId \in {NoTimer} \cup ({p} \X (1..MaxTimers))
    BY <1>13, <1>14, <1>6 DEF Orderly, Shape
  <2>2. Dies(p, m, e, n, out) => ~(Standing(m) /\ m.child = "none")
    BY <1>7 DEF Dies
  <2>3. n.opponent \in {Nobody, o}
    BY <1>14 DEF Knows
  <2> QED BY <1>3, <1>6, <1>14, <2>1, <2>2, <2>3, ShapeKept
<1>17. r.arm => t \in {p} \X (1..MaxTimers) /\ t \notin timers
  BY <1>8, <1>11 DEF FreeTimers
<1>18. /\ j \in Bot /\ j.selfEntity = n.selfEntity /\ j.child = n.child /\ Shape(p, j)
       /\ Moves(p, o, m, e, j, out) /\ Knows(p, o, m, e, j)
       /\ m.initialized \/ Starts(p, m, j, out)
       /\ j.eventId = IF r.arm THEN t ELSE n.eventId
  <2>1. CASE r.arm
    <3>1. j = [n EXCEPT !.eventId = t]
      BY <1>10, <1>13, <2>1
    <3> QED BY <1>14, <1>16, <1>17, <2>1, <3>1, Armed
  <2>2. CASE ~r.arm
    BY <1>10, <1>13, <1>14, <1>16, <2>2
  <2> QED BY <2>1, <2>2
<1>19. PICK tm : tm = m.eventId
  OBVIOUS
<1>20. r.cancel = {} \/ r.cancel = {tm}
  BY <1>14, <1>19 DEF Orderly
<1>21. PICK z \in Seq(EventSet) : /\ Uncancelled(r) = <<Head(queue)>> \o z
                                  /\ Spares(Tail(queue), z, tm)
                                  /\ r.cancel = {} => z = Tail(queue)
  BY <1>2, <1>20, UncancelledIs
<1>22. PICK w : w = (<<e>> \o z) \o out
  OBVIOUS
<1>23. EndTurn(w)
  <2>1. w = Uncancelled(r) \o r.out
    BY <1>13, <1>21, <1>22 DEF e
  <2> QED BY <1>11, <2>1
<1>24. /\ timers' \subseteq TimerId /\ \A u \in timers : u \in timers' \/ u = m.eventId
       /\ r.cancel = {} /\ ~r.arm => timers' = timers
       /\ r.arm => t \in timers'
  <2>1. timers \subseteq TimerId
    BY DEF MatchesInv, Typed
  <2>2. r.arm => {t} \subseteq TimerId
    BY <1>17 DEF TimerId
  <2> QED BY <1>11, <1>19, <1>20, <2>1, <2>2
<1>25. j.child = "resurrect" /\ j.eventId # NoTimer =>
         \/ j.eventId \in timers'
         \/ /\ m.child = "resurrect" /\ j.eventId = m.eventId /\ timers' = timers
            /\ z = Tail(queue) /\ ~Is(e, "Timeout", j.eventId)
  <2>1. CASE r.arm
    BY <1>18, <1>24, <2>1
  <2>2. CASE ~r.arm
    <3>1. j.child = "resurrect" /\ j.eventId # NoTimer =>
            /\ m.child = "resurrect" /\ r.cancel = {} /\ ~Is(e, "Timeout", j.eventId)
            /\ j.eventId \in {NoTimer, m.eventId}
      BY <1>13, <1>14, <1>18, <2>2 DEF Orderly
    <3> QED BY <1>21, <1>24, <2>2, <3>1
  <2> QED BY <2>1, <2>2
<1>26. \/ warpReq' = warpReq
       \/ warpReq' = warpReq \cup {p} /\ stage[p] = "in" /\ ~near[p] /\ j.child = "prepare"
  BY <1>11, <1>13, <1>14, <1>18 DEF Orderly
<1>27. \/ resReq' = resReq
       \/ /\ resReq' = resReq \cup {p} /\ srvLife[p] = "dead" /\ j.child = "resurrect"
          /\ m.child # "actor"
  BY <1>11, <1>13, <1>14, <1>18 DEF Orderly
<1>28. \/ hurt' = hurt /\ rested' = rested
       \/ /\ hurt' = hurt \cup {o} /\ rested' = [rested EXCEPT ![o] = FALSE]
          /\ j.child = "actor" /\ srvLife[o] = "alive"
  <2>1. rested \in [Players -> BOOLEAN]
    BY DEF MatchesInv, Typed
  <2>2. CASE ~kills
    <3>1. rested' = [q \in Players |-> rested[q]]
      BY <1>11, <2>1, <2>2
    <3> QED BY <1>11, <2>1, <2>2, <3>1
  <2>3. CASE kills
    <3>1. r.hit /\ n.child = "actor" /\ n.foe = o /\ srvLife[o] = "alive"
      BY <1>9, <1>13, <1>14, <1>16, <2>3 DEF Orderly, Shape
    <3>2. rested' = [q \in Players |-> rested[q] /\ q # o]
      BY <1>11, <1>13, <2>1, <2>3, <3>1
    <3>3. rested' = [rested EXCEPT ![o] = FALSE]
      BY <2>1, <3>2
    <3> QED BY <1>11, <1>13, <1>18, <2>3, <3>1, <3>3
  <2> QED BY <2>2, <2>3
<1>29. errors' = {}
  <2>1. errors = {} /\ r.threw = {}
    BY <1>14 DEF MatchesInv, NoErrors, Orderly
  <2>2. ~CancelThrows(r)
    BY <1>14 DEF CancelThrows, Orderly, Is, e
  <2> QED BY <1>11, <2>1, <2>2
<1>30. /\ p # P2 => reports' = reports
       /\ p = P2 /\ m.child = "actor" => reports' = (IF j.child = "actor" THEN reports ELSE reports + 1)
       /\ p = P2 /\ m.child # "actor" /\ j.child = "actor" => reports' = 0
  <2>1. r.report <=> m.child = "actor" /\ j.child # "actor"
    BY <1>13, <1>14, <1>18 DEF Orderly
  <2>2. (Pvping(r.m) <=> j.child = "actor") /\ (Pvping(bots[p]) <=> m.child = "actor")
    BY <1>5, <1>13, <1>18 DEF Pvping, Same
  <2> QED BY <1>11, <2>1, <2>2
<1>31. UNCHANGED <<ready, nextPvpId, procSelf, count, life, near, sees, srvLife, news, option>>
  BY <1>11 DEF world
<1>32. n.selfEntity = m.selfEntity
  BY <1>13, <1>14 DEF Orderly
<1>33. Effect(p, o, m, e, j, out, z)
  BY <1>11, <1>18, <1>22, <1>23, <1>24, <1>25, <1>26, <1>27, <1>28, <1>29, <1>30, <1>31, <1>32 DEF Effect
<1> QED BY <1>15, <1>18, <1>19, <1>21, <1>33 DEF e, m

-----------------------------------------------------------------------------
(* What one has yet to hear, y, and what it is, w, once out is published   *)
(* and perhaps the timeout t cancelled.                                    *)

Grown(y, w, out, t) ==
  /\ w \in Seq(EventSet)
  /\ \A A, B \in SUBSET EventSet :
       /\ Within(y, A) /\ Within(out, A) => Within(w, A)
       /\ Holds(w, A) => Holds(y, A) \/ Holds(out, A)
       /\ Holds(out, A) => Holds(w, A)
       /\ Holds(y, A) /\ A \cap EvOf("Timeout", t) = {} => Holds(w, A)
       /\ OnceIn(y, A) /\ OnceIn(out, A) /\ ~(Holds(y, A) /\ Holds(out, A)) => OnceIn(w, A)
       /\ OnlyAfter(y, A, B) /\ OnlyAfter(out, A, B) /\ (Holds(y, A) => Within(out, B)) =>
            OnlyAfter(w, A, B)

LEMMA Concatenation ==
  ASSUME NEW s \in Seq(EventSet), NEW out \in Seq(EventSet), NEW A, NEW B
  PROVE  /\ Holds(s \o out, A) <=> Holds(s, A) \/ Holds(out, A)
         /\ Within(s \o out, A) <=> Within(s, A) /\ Within(out, A)
         /\ OnceIn(s, A) /\ OnceIn(out, A) /\ ~(Holds(s, A) /\ Holds(out, A)) => OnceIn(s \o out, A)
         /\ OnlyAfter(s, A, B) /\ OnlyAfter(out, A, B) /\ (Holds(s, A) => Within(out, B)) =>
              OnlyAfter(s \o out, A, B)
<1> DEFINE w == s \o out
           n == Len(s)
           l == Len(out)
<1>1. /\ n \in Nat /\ l \in Nat /\ DOMAIN s = 1..n /\ DOMAIN out = 1..l /\ DOMAIN w = 1..(n + l)
      /\ \A i \in 1..n : w[i] = s[i]
  OBVIOUS
<1>2. \A i \in 1..l : w[n + i] = out[i]
  OBVIOUS
<1> HIDE DEF w, n, l
<1>3. /\ \A i \in DOMAIN s : i \in DOMAIN w /\ w[i] = s[i]
      /\ \A i \in DOMAIN out : n + i \in DOMAIN w /\ w[n + i] = out[i]
  <2>1. \A i \in 1..n : i \in 1..(n + l)
    BY ONLY <1>1
  <2>2. \A i \in 1..l : n + i \in 1..(n + l)
    BY ONLY <1>1
  <2> QED BY <1>1, <1>2, <2>1, <2>2
<1>4. \A i \in DOMAIN w : i \in DOMAIN s \/ (i \notin DOMAIN s /\ i - n \in DOMAIN out /\ w[i] = out[i - n])
  <2>1. SUFFICES ASSUME NEW i \in 1..(n + l), i \notin 1..n
                 PROVE i - n \in 1..l /\ w[i] = out[i - n]
    BY <1>1
  <2>2. i - n \in 1..l /\ n + (i - n) = i
    BY ONLY <1>1, <2>1
  <2> QED BY <2>2, <1>2
<1>5. Holds(w, A) <=> Holds(s, A) \/ Holds(out, A)
  BY <1>3, <1>4 DEF Holds
<1>6. Within(w, A) <=> Within(s, A) /\ Within(out, A)
  BY <1>3, <1>4 DEF Within
<1>7. OnceIn(s, A) /\ OnceIn(out, A) /\ ~(Holds(s, A) /\ Holds(out, A)) => OnceIn(w, A)
  <2>1. SUFFICES ASSUME OnceIn(s, A), OnceIn(out, A), ~(Holds(s, A) /\ Holds(out, A)),
                        NEW i \in DOMAIN w, NEW j \in DOMAIN w, w[i] \in A, w[j] \in A
                 PROVE i = j
    BY DEF OnceIn
  <2>2. (i \in DOMAIN s => Holds(s, A)) /\ (j \in DOMAIN s => Holds(s, A))
        /\ (i \notin DOMAIN s => Holds(out, A)) /\ (j \notin DOMAIN s => Holds(out, A))
    BY <1>3, <1>4, <2>1 DEF Holds
  <2>3. CASE i \in DOMAIN s /\ j \in DOMAIN s
    BY <1>3, <2>1, <2>3 DEF OnceIn
  <2>4. CASE i \notin DOMAIN s /\ j \notin DOMAIN s
    <3>1. i - n = j - n
      BY <1>4, <2>1, <2>4 DEF OnceIn
    <3> QED BY <3>1, <1>1
  <2> QED BY <2>1, <2>2, <2>3, <2>4
<1>8. OnlyAfter(s, A, B) /\ OnlyAfter(out, A, B) /\ (Holds(s, A) => Within(out, B)) =>
        OnlyAfter(w, A, B)
  <2>1. SUFFICES ASSUME OnlyAfter(s, A, B), OnlyAfter(out, A, B), Holds(s, A) => Within(out, B),
                        NEW i \in DOMAIN w, NEW j \in DOMAIN w, i < j, w[i] \in A
                 PROVE w[j] \in B
    BY DEF OnlyAfter
  <2>2. CASE i \in DOMAIN s /\ j \in DOMAIN s
    BY <1>3, <2>1, <2>2 DEF OnlyAfter
  <2>3. CASE i \notin DOMAIN s /\ j \notin DOMAIN s
    <3>1. i - n < j - n
      BY <1>1, <2>1
    <3> QED BY <3>1, <1>4, <2>1, <2>3 DEF OnlyAfter
  <2>4. CASE i \in DOMAIN s /\ j \notin DOMAIN s
    BY <1>3, <1>4, <2>1, <2>4 DEF Holds, Within
  <2>5. ~(i \notin DOMAIN s /\ j \in DOMAIN s)
    BY <1>1, <2>1
  <2> QED BY <2>2, <2>3, <2>4, <2>5
<1> QED BY <1>5, <1>6, <1>7, <1>8 DEF w

LEMMA GrownIs ==
  ASSUME NEW y \in Seq(EventSet), NEW z \in Seq(EventSet), NEW out \in Seq(EventSet), NEW t,
         Spares(y, z, t)
  PROVE  Grown(y, z \o out, out, t)
<1> PICK w : w = z \o out
  OBVIOUS
<1>2. w \in Seq(EventSet)
  OBVIOUS
<1> SUFFICES ASSUME NEW A \in SUBSET EventSet, NEW B \in SUBSET EventSet
             PROVE  /\ Within(y, A) /\ Within(out, A) => Within(w, A)
                    /\ Holds(w, A) => Holds(y, A) \/ Holds(out, A)
                    /\ Holds(out, A) => Holds(w, A)
                    /\ Holds(y, A) /\ A \cap EvOf("Timeout", t) = {} => Holds(w, A)
                    /\ OnceIn(y, A) /\ OnceIn(out, A) /\ ~(Holds(y, A) /\ Holds(out, A)) => OnceIn(w, A)
                    /\ OnlyAfter(y, A, B) /\ OnlyAfter(out, A, B) /\ (Holds(y, A) => Within(out, B)) =>
                         OnlyAfter(w, A, B)
  BY <1>2 DEF Grown
<1>1. /\ Holds(z, A) => Holds(y, A)
      /\ Holds(y, A) /\ A \cap EvOf("Timeout", t) = {} => Holds(z, A)
      /\ Within(y, A) => Within(z, A)
      /\ OnceIn(y, A) => OnceIn(z, A)
      /\ OnlyAfter(y, A, B) => OnlyAfter(z, A, B)
  BY DEF Spares
<1> QED BY <1>1, Concatenation

LEMMA Put ==
  ASSUME NEW h \in EventSet, NEW y \in Seq(EventSet), NEW A, NEW B
  PROVE  LET w == <<h>> \o y
         IN /\ Holds(w, A) <=> (h \in A \/ Holds(y, A))
            /\ Within(w, A) <=> (h \in A /\ Within(y, A))
            /\ OnceIn(w, A) <=> (OnceIn(y, A) /\ (h \in A => ~Holds(y, A)))
            /\ OnlyAfter(w, A, B) <=> (OnlyAfter(y, A, B) /\ (h \in A => Within(y, B)))
<1> PICK w : w = <<h>> \o y
  OBVIOUS
<1>1. w \in Seq(EventSet) /\ w # <<>> /\ Head(w) = h /\ Tail(w) = y
  BY Headed
<1>2. /\ Holds(w, A) <=> (Head(w) \in A \/ Holds(Tail(w), A))
      /\ Within(w, A) <=> (Head(w) \in A /\ Within(Tail(w), A))
      /\ OnceIn(w, A) <=> (OnceIn(Tail(w), A) /\ (Head(w) \in A => ~Holds(Tail(w), A)))
      /\ OnlyAfter(w, A, B) <=> (OnlyAfter(Tail(w), A, B) /\ (Head(w) \in A => Within(Tail(w), B)))
  BY <1>1, HeadTail
<1> QED BY <1>1, <1>2

LEMMA GrownBehind ==
  ASSUME NEW h \in EventSet, NEW y \in Seq(EventSet), NEW w \in Seq(EventSet), NEW out, NEW t,
         Grown(y, w, out, t)
  PROVE  Grown(<<h>> \o y, <<h>> \o w, out, t)
<1> PICK a, b : a = <<h>> \o y /\ b = <<h>> \o w
  OBVIOUS
<1>1. b \in Seq(EventSet)
  BY Joined
<1> SUFFICES ASSUME NEW A \in SUBSET EventSet, NEW B \in SUBSET EventSet
             PROVE  /\ Within(a, A) /\ Within(out, A) => Within(b, A)
                    /\ Holds(b, A) => Holds(a, A) \/ Holds(out, A)
                    /\ Holds(out, A) => Holds(b, A)
                    /\ Holds(a, A) /\ A \cap EvOf("Timeout", t) = {} => Holds(b, A)
                    /\ OnceIn(a, A) /\ OnceIn(out, A) /\ ~(Holds(a, A) /\ Holds(out, A)) => OnceIn(b, A)
                    /\ OnlyAfter(a, A, B) /\ OnlyAfter(out, A, B) /\ (Holds(a, A) => Within(out, B)) =>
                         OnlyAfter(b, A, B)
  BY <1>1 DEF Grown
<1>2. /\ Holds(a, A) <=> (h \in A \/ Holds(y, A))
      /\ Within(a, A) <=> (h \in A /\ Within(y, A))
      /\ OnceIn(a, A) <=> (OnceIn(y, A) /\ (h \in A => ~Holds(y, A)))
      /\ OnlyAfter(a, A, B) <=> (OnlyAfter(y, A, B) /\ (h \in A => Within(y, B)))
  BY Put
<1>3. /\ Holds(b, A) <=> (h \in A \/ Holds(w, A))
      /\ Within(b, A) <=> (h \in A /\ Within(w, A))
      /\ OnceIn(b, A) <=> (OnceIn(w, A) /\ (h \in A => ~Holds(w, A)))
      /\ OnlyAfter(b, A, B) <=> (OnlyAfter(w, A, B) /\ (h \in A => Within(w, B)))
  BY Put
<1>4. /\ Within(y, A) /\ Within(out, A) => Within(w, A)
      /\ Within(y, B) /\ Within(out, B) => Within(w, B)
      /\ Holds(w, A) => Holds(y, A) \/ Holds(out, A)
      /\ Holds(out, A) => Holds(w, A)
      /\ Holds(y, A) /\ A \cap EvOf("Timeout", t) = {} => Holds(w, A)
      /\ OnceIn(y, A) /\ OnceIn(out, A) /\ ~(Holds(y, A) /\ Holds(out, A)) => OnceIn(w, A)
      /\ OnlyAfter(y, A, B) /\ OnlyAfter(out, A, B) /\ (Holds(y, A) => Within(out, B)) =>
           OnlyAfter(w, A, B)
  BY DEF Grown
<1> QED BY <1>2, <1>3, <1>4

LEMMA OneIs ==
  ASSUME NEW g \in EventSet, NEW A, NEW B
  PROVE  /\ <<g>> \in Seq(EventSet)
         /\ Holds(<<g>>, A) <=> g \in A
         /\ Within(<<g>>, A) <=> g \in A
         /\ OnceIn(<<g>>, A) /\ OnlyAfter(<<g>>, A, B)
<1>1. <<>> \in Seq(EventSet) /\ <<>> \o <<g>> = <<g>>
  OBVIOUS
<1>2. PICK nil : nil = <<>>
  OBVIOUS
<1>3. /\ Holds(nil \o <<g>>, A) <=> (Holds(nil, A) \/ g \in A)
      /\ Within(nil \o <<g>>, A) <=> (Within(nil, A) /\ g \in A)
      /\ OnceIn(nil \o <<g>>, A) <=> (OnceIn(nil, A) /\ ~(Holds(nil, A) /\ g \in A))
      /\ OnlyAfter(nil \o <<g>>, A, B) <=> (OnlyAfter(nil, A, B) /\ (Holds(nil, A) => g \in B))
  BY <1>1, <1>2, OneMore
<1>4. ~Holds(nil, A) /\ Within(nil, A) /\ OnceIn(nil, A) /\ OnlyAfter(nil, A, B)
  BY <1>2, None
<1>5. nil \o <<g>> = <<g>> /\ <<g>> \in Seq(EventSet)
  BY <1>1, <1>2
<1> QED BY <1>3, <1>4, <1>5

(* What the trainer has yet to hear of requests.                           *)
AsksGrow(u, w, out) ==
  \A q \in Players :
    /\ Holds(w, Asks(q)) <=> (Holds(u, Asks(q)) \/ Holds(out, Asks(q)))
    /\ OnceIn(u, Asks(q)) /\ OnceIn(out, Asks(q)) /\ ~(Holds(u, Asks(q)) /\ Holds(out, Asks(q))) =>
         OnceIn(w, Asks(q))

LEMMA GrownAsks ==
  ASSUME NEW y, NEW w, NEW out, NEW t, Grown(y, w, out, t)
  PROVE  AsksGrow(y, w, out)
<1> SUFFICES ASSUME NEW q \in Players
             PROVE  /\ Holds(w, Asks(q)) <=> (Holds(y, Asks(q)) \/ Holds(out, Asks(q)))
                    /\ OnceIn(y, Asks(q)) /\ OnceIn(out, Asks(q)) /\ ~(Holds(y, Asks(q)) /\ Holds(out, Asks(q))) =>
                         OnceIn(w, Asks(q))
  BY DEF AsksGrow
<1>1. Asks(q) \in SUBSET EventSet /\ Asks(q) \cap EvOf("Timeout", t) = {}
  BY DEF Asks, EvOf
<1> HIDE DEF Asks
<1> QED BY <1>1 DEF Grown

LEMMA FirstBoxes ==
  ASSUME QueueOK, Turn(P1), NEW z \in Seq(EventSet), NEW out \in Seq(EventSet), NEW t,
         Spares(Tail(queue), z, t), EndTurn((<<Head(queue)>> \o z) \o out)
  PROVE  /\ QueueOK' /\ ~Behind /\ Behind' /\ Head(queue') = Head(queue) /\ Box1 = queue
         /\ Grown(Tail(queue), Box1', out, t) /\ Grown(queue, queue', out, t)
         /\ AsksGrow(ManagerBox, ManagerBox', out)
<1>1. /\ QueueOK' /\ Behind' /\ queue' = <<Head(queue)>> \o (z \o out)
      /\ Head(queue') = Head(queue) /\ Box1' = z \o out /\ ManagerBox' = z \o out
  BY HeardByFirst
<1>2. ~Behind /\ Box1 = queue /\ queue # <<>> /\ queue \in Seq(EventSet)
  BY Turns DEF QueueOK, Box1
<1>3. PICK h, y : h = Head(queue) /\ y = Tail(queue)
  OBVIOUS
<1>4. h \in EventSet /\ y \in Seq(EventSet) /\ queue = <<h>> \o y
  BY <1>2, <1>3
<1>5. PICK w : w = z \o out
  OBVIOUS
<1>6. w \in Seq(EventSet)
  BY <1>5
<1>7. Grown(y, w, out, t)
  BY <1>3, <1>4, <1>5, GrownIs
<1>8. Grown(<<h>> \o y, <<h>> \o w, out, t)
  BY <1>4, <1>6, <1>7, GrownBehind
<1>9. AsksGrow(ManagerBox, w, out)
  <2>1. AsksGrow(y, w, out)
    BY <1>7, GrownAsks
  <2>2. CASE turn # 1
    BY <1>3, <2>1, <2>2 DEF ManagerBox
  <2>3. CASE turn = 1
    <3>1. h.kind # "ReadyForAssignment" /\ ManagerBox = queue
      BY <1>3, <2>3, Turns DEF ManagerBox
    <3>2. \A q \in Players : /\ Holds(queue, Asks(q)) <=> Holds(y, Asks(q))
                             /\ OnceIn(queue, Asks(q)) <=> OnceIn(y, Asks(q))
      <4>1. TAKE q \in Players
      <4>2. h \notin Asks(q)
        BY <3>1 DEF Asks, EvOf
      <4> QED BY <1>2, <1>3, <4>2, HeadTail
    <3> QED BY <2>1, <3>1, <3>2 DEF AsksGrow
  <2> QED BY <2>2, <2>3
<1>10. queue' = <<h>> \o w /\ Box1' = w /\ ManagerBox' = w
  BY <1>1, <1>3, <1>5
<1> QED BY <1>1, <1>2, <1>3, <1>4, <1>7, <1>8, <1>9, <1>10

LEMMA SecondBoxes ==
  ASSUME QueueOK, Turn(P2), NEW z \in Seq(EventSet), NEW out \in Seq(EventSet), NEW t,
         Spares(Tail(queue), z, t), EndTurn((<<Head(queue)>> \o z) \o out)
  PROVE  /\ QueueOK' /\ Behind /\ ~Behind' /\ Box1 = Tail(queue)
         /\ Grown(Tail(queue), queue', out, t) /\ Grown(Box1, Box1', out, t)
         /\ AsksGrow(ManagerBox, ManagerBox', out)
<1>1. /\ QueueOK' /\ ~Behind' /\ queue' = z \o out /\ Box1' = z \o out /\ ManagerBox' = z \o out
  BY HeardBySecond
<1>2. Behind /\ queue # <<>> /\ queue \in Seq(EventSet)
  BY Turns DEF QueueOK, Behind
<1>3. turn # 1 /\ Box1 = Tail(queue) /\ ManagerBox = Tail(queue)
  <2>1. turn = Len(Subscribers(Head(queue)))
    BY <1>2 DEF Behind
  <2>2. turn # 1
    <3>1. PICK h : h = Head(queue)
      OBVIOUS
    <3>2. Len(Subscribers(h)) # 1
      BY ManySubscribers
    <3> QED BY <2>1, <3>1, <3>2
  <2> QED BY <1>2, <2>2 DEF Box1, ManagerBox
<1>4. PICK y, w : y = Tail(queue) /\ w = z \o out
  OBVIOUS
<1>5. y \in Seq(EventSet)
  BY <1>2, <1>4
<1>6. Grown(y, w, out, t)
  BY <1>4, <1>5, GrownIs
<1>7. AsksGrow(y, w, out)
  BY <1>6, GrownAsks
<1>8. queue' = w /\ Box1' = w /\ ManagerBox' = w /\ Box1 = y /\ ManagerBox = y
  BY <1>1, <1>3, <1>4
<1> QED BY <1>1, <1>2, <1>4, <1>6, <1>7, <1>8

(* Events that are published behind all others, out.                       *)
LEMMA PublishedBoxes ==
  ASSUME QueueOK, NEW out \in Seq(EventSet), NEW t, queue' = queue \o out, turn' = turn
  PROVE  /\ QueueOK' /\ (Behind' <=> Behind) /\ (queue # <<>> => Head(queue') = Head(queue))
         /\ Grown(Box1, Box1', out, t) /\ Grown(queue, queue', out, t)
         /\ AsksGrow(ManagerBox, ManagerBox', out)
<1>1. /\ QueueOK' /\ (Behind' <=> Behind) /\ (queue # <<>> => Head(queue') = Head(queue))
      /\ Box1' = Box1 \o out /\ ManagerBox' = ManagerBox \o out
  BY Appended
<1>2. queue \in Seq(EventSet) /\ Box1 \in Seq(EventSet) /\ ManagerBox \in Seq(EventSet)
  <2>1. queue \in Seq(EventSet)
    BY DEF QueueOK
  <2>2. queue = <<>> => Box1 = queue /\ ManagerBox = queue
    BY DEF QueueOK, Box1, ManagerBox, Behind
  <2>3. queue # <<>> => Tail(queue) \in Seq(EventSet)
    BY <2>1
  <2> QED BY <2>1, <2>2, <2>3 DEF Box1, ManagerBox
<1>3. \A y \in Seq(EventSet) : Grown(y, y \o out, out, t)
  BY SparesNone, GrownIs
<1>4. PICK a, b, c : a = queue /\ b = Box1 /\ c = ManagerBox
  OBVIOUS
<1>5. Grown(a, a \o out, out, t) /\ Grown(b, b \o out, out, t) /\ Grown(c, c \o out, out, t)
  BY <1>2, <1>3, <1>4
<1>6. AsksGrow(c, c \o out, out)
  BY <1>5, GrownAsks
<1> QED BY <1>1, <1>4, <1>5, <1>6

-----------------------------------------------------------------------------
(* What every move has in common.                                          *)

Mover(p, o, m, e, k, out) ==
  /\ Shape(p, m) /\ Shape(p, k) /\ Fit(p, o, m, e) /\ Moves(p, o, m, e, k, out)
  /\ Knows(p, o, m, e, k) /\ (m.initialized \/ Starts(p, m, k, out))

(* A fight that e ends.                                                    *)
Ends2(p, o, m, e, k) ==
  /\ m.child = "actor" /\ k.descriptor = NoMatch /\ k.child # "actor"
  /\ \/ e \in Lives(p) /\ life[p] = "dead" /\ k.child = "resurrect"
     \/ e \in Lives(o) /\ life[o] = "dead" /\ k.child = "none"

Facts(p, o, m, e, k, out) ==
  /\ e \in Begins =>
       Asking(m) /\ k.descriptor = e.about /\ k.descriptor # NoMatch /\ ~k.opponentIsReady
  /\ e \notin Begins => k.descriptor = m.descriptor \/ Ends2(p, o, m, e, k)
  /\ m.child = "actor" => k.child = "actor" \/ Ends2(p, o, m, e, k)
  /\ m.child = "resurrect" /\ k.child # "resurrect" => e \in Lives(p) /\ life[p] = "alive"
  /\ m.child # "resurrect" /\ k.child = "resurrect" => e \in Lives(p) /\ life[p] = "dead"
  /\ e \in Reports(o) => m.descriptor # NoMatch /\ k.descriptor = m.descriptor /\ k.opponentIsReady
  /\ k.opponentIsReady => m.opponentIsReady \/ e \in Reports(o)
  /\ m.opponentIsReady => k.opponentIsReady \/ (k.descriptor = NoMatch /\ ~Asking(m))
  /\ Asking(m) => Asking(k) \/ e \in Begins
  /\ Standing(m) => (Standing(k) /\ k.descriptor = m.descriptor) \/ Ends2(p, o, m, e, k)
  /\ Standing(m) /\ Standing(k) /\ k.child # "actor" => m.child # "actor"
  /\ Standing(k) /\ ~Standing(m) =>
       /\ out = <<Event("ReadyForPvp", p)>> /\ ~m.weAreReady /\ rested[p] /\ near[p] /\ m.selfEntity
       /\ e \notin Lives(p) /\ (m.child = "prepare" \/ (m.child = "none" /\ e \in Begins))
  /\ \/ out = <<>>
     \/ /\ out = <<Event("ReadyForPvp", p)>> /\ Standing(k) /\ ~m.weAreReady /\ rested[p] /\ near[p]
        /\ m.selfEntity /\ e \notin Lives(p)
        /\ m.child = "prepare" \/ (m.child = "none" /\ e \in Begins)
     \/ out = <<Event("ReadyForAssignment", p)>> /\ Asking(k) /\ ~Asking(m)

LEMMA FactsAre ==
  ASSUME NEW p \in Players, NEW o, o = Opponent(p), NEW m, NEW e, NEW k, NEW out,
         Mover(p, o, m, e, k, out),
         rested[p] => ~(e \in Lives(p) /\ m.child = "prepare")
  PROVE  Facts(p, o, m, e, k, out)
<1> PICK yes, no : yes = TRUE /\ no = FALSE
  OBVIOUS
<1>1. m \in Bot /\ e \in EventSet /\ Shape(p, m) /\ Shape(p, k) /\ o # Nobody
  BY PlayersAre DEF Mover, Fit
<1>2. /\ e \in Begins => e \notin Lives(p) /\ e \notin Lives(o) /\ e \notin Reports(o)
      /\ e \in Reports(o) => e \notin Lives(p) /\ e \notin Lives(o) /\ e \notin Begins
      /\ e \in Begins => e.about # NoMatch
  <2>1. e \in Begins => e.about \in MatchId
    BY <1>1, EventsAre DEF Begins, Ev
  <2> QED BY <2>1, PlayersAre DEF Begins, Ev, Lives, EvOf, Reports
<1>3. /\ e \in Begins => m.initialized /\ Asking(m) /\ ~m.opponentIsReady /\ k.descriptor = e.about
      /\ e \in Reports(o) => m.initialized /\ m.descriptor # NoMatch /\ k.opponentIsReady
      /\ m.child = "actor" => m.initialized /\ Standing(m)
  <2>1. e \in Begins => m.initialized /\ Asking(m) /\ ~m.opponentIsReady
    BY <1>1 DEF Mover, Fit, Shape, Asking
  <2>2. e \in Reports(o) => m.initialized /\ m.descriptor # NoMatch
    BY <1>1 DEF Mover, Fit, Shape
  <2> QED BY <1>1, <2>1, <2>2 DEF Mover, Knows, Shape
<1>4. CASE Stays(m, k, out)
  <2>1. Fields(k, m.initialized, m.descriptor, m.published, m.weAreReady,
               m.opponentIsReady, m.child, m.foe, m.fight)
    BY <1>1, <1>4, MovesAre
  <2>2. out = <<>>
    BY <1>4 DEF Stays
  <2> QED BY <1>2, <1>3, <2>1, <2>2 DEF Fields, Facts, Asking, Standing
<1>5. CASE Starts(p, m, k, out)
  <2>1. Fields(k, yes, m.descriptor, yes, no, no, m.child, m.foe, m.fight)
    BY <1>1, <1>5, MovesAre
  <2>2. out = <<Event("ReadyForAssignment", p)>> /\ ~m.initialized
    BY <1>5 DEF Starts
  <2> QED BY <1>1, <1>2, <1>3, <2>1, <2>2 DEF Fields, Facts, Asking, Standing, Shape
<1>6. CASE Hears(o, m, e, k, out)
  <2>1. Fields(k, m.initialized, m.descriptor, m.published, m.weAreReady, yes, m.child,
               m.foe, m.fight)
    BY <1>1, <1>6, MovesAre
  <2>2. out = <<>> /\ e \in Reports(o) /\ ~m.weAreReady
    BY <1>6 DEF Hears
  <2> QED BY <1>2, <1>3, <2>1, <2>2 DEF Fields, Facts, Asking, Standing
<1>7. CASE Fights(o, m, e, k, out)
  <2>1. Fields(k, m.initialized, m.descriptor, m.published, m.weAreReady, yes, "actor",
               o, m.descriptor)
    BY <1>1, <1>7, MovesAre
  <2>2. out = <<>> /\ e \in Reports(o) /\ Standing(m)
    BY <1>7 DEF Fights
  <2>3. m.child # "resurrect"
    BY <1>1, <2>2 DEF Shape, Standing
  <2> QED BY <1>2, <1>3, <2>1, <2>2, <2>3 DEF Fields, Facts, Asking, Standing
<1>8. CASE Takes(p, m, e, k, out)
  <2>1. Fields(k, m.initialized, e.about, no, m.weAreReady, m.opponentIsReady,
               IF m.child = "none" THEN "prepare" ELSE m.child, m.foe, m.fight)
    BY <1>1, <1>8, MovesAre
  <2>2. out = <<>> /\ e \in Begins /\ m.child \in {"none", "resurrect"}
    BY <1>8 DEF Takes
  <2>3. ~m.weAreReady
    BY <1>1, <1>3, <2>2 DEF Shape
  <2> QED BY <1>2, <1>3, <2>1, <2>2, <2>3 DEF Fields, Facts, Asking, Standing
<1>9. CASE TakesReady(p, m, e, k, out)
  <2>1. Fields(k, m.initialized, e.about, no, yes, m.opponentIsReady, m.child, m.foe, m.fight)
    BY <1>1, <1>9, MovesAre
  <2>2. out = <<Event("ReadyForPvp", p)>> /\ e \in Begins /\ m.child = "none" /\ rested[p] /\ near[p]
    BY <1>9 DEF TakesReady
  <2>3. ~m.weAreReady /\ m.selfEntity
    BY <1>1, <1>3, <2>2 DEF Shape, Mover, Fit
  <2> QED BY <1>2, <1>3, <2>1, <2>2, <2>3 DEF Fields, Facts, Asking, Standing
<1>10. CASE Prepares(p, m, k, out)
  <2>1. IF m.opponentIsReady
        THEN Fields(k, m.initialized, m.descriptor, m.published, yes, m.opponentIsReady,
                    "actor", m.opponent, m.descriptor)
        ELSE Fields(k, m.initialized, m.descriptor, m.published, yes, m.opponentIsReady, "none",
                    m.foe, m.fight)
    BY <1>1, <1>10, MovesAre
  <2>2. out = <<Event("ReadyForPvp", p)>> /\ m.child = "prepare" /\ rested[p] /\ near[p] /\ m.selfEntity
    BY <1>10 DEF Prepares
  <2>3. ~m.weAreReady /\ m.descriptor # NoMatch
    BY <1>1, <2>2 DEF Shape
  <2>4. e \notin Begins /\ e \notin Lives(p)
    BY <1>3, <2>2, <2>3 DEF Asking
  <2> QED BY <1>2, <1>3, <2>1, <2>2, <2>3, <2>4 DEF Fields, Facts, Asking, Standing
<1>11. CASE Dies(p, m, e, k, out)
  <2>1. Fields(k, m.initialized, IF m.child = "actor" THEN NoMatch ELSE m.descriptor,
               m.published, m.weAreReady, m.opponentIsReady, "resurrect", Nobody, NoMatch)
    BY <1>1, <1>11, MovesAre
  <2>2. out = <<>> /\ e \in Lives(p) /\ life[p] = "dead" /\ m.child # "resurrect"
    BY <1>11 DEF Dies
  <2>3. Standing(m) => m.child = "actor"
    <3>1. ASSUME Standing(m), m.child # "actor" PROVE FALSE
      <4>1. k.child = "resurrect" /\ k.descriptor # NoMatch /\ k.weAreReady
        BY <2>1, <3>1 DEF Fields, Standing
      <4> QED BY <1>1, <4>1 DEF Shape
    <3> QED BY <3>1
  <2>4. m.child = "actor" => ~m.published
    BY <1>1, <1>3 DEF Shape, Standing
  <2> QED BY <1>2, <1>3, <2>1, <2>2, <2>3, <2>4 DEF Fields, Facts, Asking, Standing, Ends2
<1>12. CASE Wins(p, o, m, e, k, out)
  <2>1. Fields(k, m.initialized, NoMatch, yes, no, no, "none", Nobody, NoMatch)
    BY <1>1, <1>12, MovesAre
  <2>2. out = <<Event("ReadyForAssignment", p)>> /\ e \in Lives(o) /\ life[o] = "dead" /\ m.child = "actor"
    BY <1>12 DEF Wins
  <2> QED BY <1>2, <1>3, <2>1, <2>2 DEF Fields, Facts, Asking, Standing, Ends2
<1>13. CASE Revives(p, m, e, k, out)
  <2>1. IF m.descriptor # NoMatch
        THEN Fields(k, m.initialized, m.descriptor, m.published, m.weAreReady,
                    m.opponentIsReady, "prepare", m.foe, m.fight)
        ELSE IF m.published
        THEN Fields(k, m.initialized, m.descriptor, m.published, m.weAreReady,
                    m.opponentIsReady, "none", m.foe, m.fight)
        ELSE Fields(k, m.initialized, m.descriptor, yes, no, no, "none", m.foe, m.fight)
    BY <1>1, <1>13, MovesAre
  <2>2. /\ e \in Lives(p) /\ life[p] = "alive" /\ m.child = "resurrect"
        /\ IF m.descriptor = NoMatch /\ ~m.published THEN out = <<Event("ReadyForAssignment", p)>>
           ELSE out = <<>>
    BY <1>13 DEF Revives
  <2>3. ~Standing(m)
    BY <1>1, <2>2 DEF Shape, Standing
  <2> QED BY <1>2, <1>3, <2>1, <2>2, <2>3 DEF Fields, Facts, Asking, Standing
<1> QED BY <1>4, <1>5, <1>6, <1>7, <1>8, <1>9, <1>10, <1>11, <1>12, <1>13 DEF Mover, Moves

-----------------------------------------------------------------------------
(* What a player publishes, and what is left of the events it has heard.   *)

LEMMA OutIs ==
  ASSUME NEW p \in Players, NEW o \in Players, o # p, NEW m, NEW e, NEW k, NEW out,
         Facts(p, o, m, e, k, out)
  PROVE  /\ out \in Seq(EventSet)
         /\ \A q \in Players : ~Holds(out, Lives(q))
         /\ ~Holds(out, Begins) /\ ~Holds(out, Reports(o)) /\ ~Holds(out, Asks(o))
         /\ OnceIn(out, Reports(p)) /\ OnceIn(out, Asks(p))
         /\ Holds(out, Reports(p)) <=> (Standing(k) /\ ~Standing(m))
         /\ Holds(out, Asks(p)) => Asking(k) /\ ~Asking(m)
         /\ Within(out, Quiet) /\ Within(out, Harmless) /\ Within(out, OnJourney)
         /\ \A A, B \in SUBSET EventSet : OnlyAfter(out, A, B)
<1> PICK g, h, nil : g = Event("ReadyForPvp", p) /\ h = Event("ReadyForAssignment", p) /\ nil = <<>>
  OBVIOUS
<1>1. /\ g \in EventSet /\ h \in EventSet
      /\ \A q \in Players : g \notin Lives(q) /\ h \notin Lives(q)
      /\ g \notin Begins /\ h \notin Begins /\ g \notin Reports(o) /\ h \notin Reports(o)
      /\ g \notin Asks(o) /\ h \notin Asks(o) /\ g \in Reports(p) /\ h \notin Reports(p)
      /\ g \notin Asks(p) /\ h \in Asks(p)
      /\ {g, h} \subseteq Quiet /\ {g, h} \subseteq Harmless /\ {g, h} \subseteq OnJourney
  <2>1. g.kind = "ReadyForPvp" /\ g.about = p /\ h.kind = "ReadyForAssignment" /\ h.about = p
    BY DEF Event
  <2>2. g \in EventSet /\ h \in EventSet
    BY DEF Event, EventSet, PlayerKinds, TravelKinds
  <2>3. {g, h} \subseteq Quiet /\ {g, h} \subseteq Harmless /\ {g, h} \subseteq OnJourney
    BY <2>1, <2>2 DEF Quiet, Harmless, OnJourney, TravelKinds
  <2> QED BY <2>1, <2>2, <2>3 DEF Lives, Begins, Ev, Reports, Asks, EvOf
<1>2. /\ \A A, B : ~Holds(nil, A) /\ Within(nil, A) /\ OnceIn(nil, A) /\ OnlyAfter(nil, A, B)
      /\ nil \in Seq(EventSet)
  BY None
<1>3. \A f \in EventSet : \A A, B :
        /\ <<f>> \in Seq(EventSet)
        /\ Holds(<<f>>, A) <=> f \in A
        /\ Within(<<f>>, A) <=> f \in A
        /\ OnceIn(<<f>>, A) /\ OnlyAfter(<<f>>, A, B)
  BY OneIs
<1>4. CASE out = nil
  <2>1. ~(Standing(k) /\ ~Standing(m))
    <3>1. nil # <<g>>
      OBVIOUS
    <3> QED BY <1>4, <3>1 DEF Facts
  <2> QED BY <1>2, <1>4, <2>1
<1>5. CASE out = <<g>> /\ Standing(k) /\ ~m.weAreReady
  <2>1. ~Standing(m)
    BY <1>5 DEF Standing
  <2>2. /\ <<g>> \in Seq(EventSet)
        /\ \A A, B : /\ Holds(<<g>>, A) <=> g \in A
                     /\ Within(<<g>>, A) <=> g \in A
                     /\ OnceIn(<<g>>, A) /\ OnlyAfter(<<g>>, A, B)
    BY <1>1, <1>3
  <2> QED BY <1>1, <1>5, <2>1, <2>2
<1>6. CASE out = <<h>> /\ Asking(k) /\ ~Asking(m)
  <2>1. ~Standing(k)
    BY <1>6 DEF Standing, Asking
  <2>2. /\ <<h>> \in Seq(EventSet)
        /\ \A A, B : /\ Holds(<<h>>, A) <=> h \in A
                     /\ Within(<<h>>, A) <=> h \in A
                     /\ OnceIn(<<h>>, A) /\ OnlyAfter(<<h>>, A, B)
    BY <1>1, <1>3
  <2> QED BY <1>1, <1>6, <2>1, <2>2
<1> QED BY <1>4, <1>5, <1>6 DEF Facts

(* Events that are no timeouts.                                            *)
Plain == {A \in SUBSET EventSet : \A t : A \cap EvOf("Timeout", t) = {}}

LEMMA PlainIs ==
  /\ Begins \in Plain
  /\ \A q \in Players : Lives(q) \in Plain /\ Reports(q) \in Plain /\ Asks(q) \in Plain
  /\ \A kind : kind # "Timeout" => Ev(kind) \in Plain
  BY DEF Plain, Begins, Ev, Lives, Reports, Asks, EvOf

LEMMA HeardIs ==
  ASSUME NEW x \in Seq(EventSet), x # <<>>, NEW x1, NEW out, NEW t,
         Grown(Tail(x), x1, out, t), NEW A \in Plain, ~Holds(out, A)
  PROVE  /\ Holds(x, A) <=> (Head(x) \in A \/ Holds(x1, A))
         /\ OnceIn(x, A) => OnceIn(x1, A) /\ (Head(x) \in A => ~Holds(x1, A))
<1>1. /\ Holds(x, A) <=> (Head(x) \in A \/ Holds(Tail(x), A))
      /\ OnceIn(x, A) <=> (OnceIn(Tail(x), A) /\ (Head(x) \in A => ~Holds(Tail(x), A)))
  BY HeadTail
<1>2. /\ Holds(x1, A) => Holds(Tail(x), A) \/ Holds(out, A)
      /\ Holds(Tail(x), A) => Holds(x1, A)
      /\ OnceIn(Tail(x), A) /\ OnceIn(out, A) /\ ~(Holds(Tail(x), A) /\ Holds(out, A)) => OnceIn(x1, A)
  BY DEF Grown, Plain
<1>3. OnceIn(out, A)
  BY More
<1> QED BY <1>1, <1>2, <1>3

LEMMA WaitingIs ==
  ASSUME NEW y, NEW y1, NEW out, NEW t, Grown(y, y1, out, t), NEW A \in Plain
  PROVE  /\ Holds(y1, A) <=> (Holds(y, A) \/ Holds(out, A))
         /\ OnceIn(y, A) /\ OnceIn(out, A) /\ ~(Holds(y, A) /\ Holds(out, A)) => OnceIn(y1, A)
  BY DEF Grown, Plain

(* The lives of both, of which no move publishes anything.                 *)
LEMMA LedgerOwn ==
  ASSUME NEW p \in Players, NEW o, NEW m, NEW e, NEW k, NEW out,
         Facts(p, o, m, e, k, out), NEW x \in Seq(EventSet), x # <<>>, e = Head(x),
         NEW x1, NEW t, Grown(Tail(x), x1, out, t), ~Holds(out, Lives(p)),
         NEW s, NEW untold, NEW harmed, NEW asked, NEW rest, NEW asks,
         Ledger(p, m, x, life[p], s, untold, harmed, asked, rest),
         s \in {"alive", "dead"}, life[p] \in {"alive", "dead"},
         asks = asked \/ (s = "dead" /\ k.child = "resurrect")
  PROVE  Ledger(p, k, x1, life[p], s, untold, harmed, asks, rest)
<1>1. /\ Holds(x, Lives(p)) <=> (e \in Lives(p) \/ Holds(x1, Lives(p)))
      /\ OnceIn(x, Lives(p)) => OnceIn(x1, Lives(p)) /\ (e \in Lives(p) => ~Holds(x1, Lives(p)))
  BY HeardIs, PlainIs
<1>2. /\ m.child = "resurrect" /\ k.child # "resurrect" => e \in Lives(p) /\ life[p] = "alive"
      /\ m.child # "resurrect" /\ k.child = "resurrect" => e \in Lives(p) /\ life[p] = "dead"
  BY DEF Facts
<1> QED BY <1>1, <1>2 DEF Ledger

LEMMA LedgerOther ==
  ASSUME NEW o \in Players, NEW n, NEW y, NEW y1, NEW out, NEW t, Grown(y, y1, out, t),
         ~Holds(out, Lives(o)),
         NEW l, NEW s, NEW untold, NEW harmed, NEW asked, NEW rest, NEW harms, NEW rests,
         Ledger(o, n, y, l, s, untold, harmed, asked, rest),
         s \in {"alive", "dead"}, l \in {"alive", "dead"},
         \/ (harms <=> harmed) /\ (rests <=> rest)
         \/ ~rests /\ s = "alive" /\ n.child # "resurrect"
  PROVE  Ledger(o, n, y1, l, s, untold, harms, asked, rests)
<1>1. Holds(y1, Lives(o)) <=> Holds(y, Lives(o))
  BY WaitingIs, PlainIs
<1>2. OnceIn(y, Lives(o)) => OnceIn(y1, Lives(o))
  BY WaitingIs, PlainIs, More
<1> QED BY <1>1, <1>2 DEF Ledger

(* Who has moved, p, and what it has yet to hear: of the reports of o.     *)
LEMMA PairOwn ==
  ASSUME NEW p \in Players, NEW o \in Players, o # p, NEW m, NEW e, NEW k, NEW n, NEW out,
         Facts(p, o, m, e, k, out), Shape(p, m), Shape(p, k),
         NEW x \in Seq(EventSet), x # <<>>, e = Head(x),
         NEW x1, NEW t, Grown(Tail(x), x1, out, t),
         Holds(x, Begins) => Asking(m),
         NEW left, NEW s, NEW untold, NEW harmed, NEW asked,
         Pair(p, o, m, n, x, rested[p], left),
         Ledger(p, m, x, life[p], s, untold, harmed, asked, rested[p]),
         left => k.descriptor = NoMatch,
         e \in Begins => n.descriptor \in {NoMatch, e.about}
  PROVE  Pair(p, o, k, n, x1, rested[p], FALSE)
<1> DEFINE R == Reports(o)
           L == Lives(p)
<1>1. /\ out \in Seq(EventSet) /\ ~Holds(out, L) /\ ~Holds(out, Begins) /\ ~Holds(out, R)
      /\ \A A, B \in SUBSET EventSet : OnlyAfter(out, A, B)
  BY OutIs
<1>2. /\ Holds(x, R) <=> (e \in R \/ Holds(x1, R))
      /\ OnceIn(x, R) => OnceIn(x1, R) /\ (e \in R => ~Holds(x1, R))
  BY <1>1, HeardIs, PlainIs
<1>3. Holds(x, Begins) <=> (e \in Begins \/ Holds(x1, Begins))
  BY <1>1, HeardIs, PlainIs
<1>4. Holds(x1, L) => Holds(x, L)
  BY <1>1, HeardIs, PlainIs
<1>5. OnlyAfter(x, L, EventSet \ R) => OnlyAfter(x1, L, EventSet \ R)
  <2>1. OnlyAfter(x, L, EventSet \ R) => OnlyAfter(Tail(x), L, EventSet \ R)
    BY HeadTail
  <2>2. Within(out, EventSet \ R)
    BY <1>1 DEF Within, Holds
  <2>3. L \in SUBSET EventSet /\ (EventSet \ R) \in SUBSET EventSet
    BY DEF Lives, EvOf
  <2> QED BY <1>1, <2>1, <2>2, <2>3 DEF Grown
<1>6. rested[p] => ~Holds(x, L)
  BY DEF Ledger
<1> HIDE DEF R, L
<1>7. e \in R => e \notin Begins
  BY DEF R, Reports, Begins, EvOf, Ev
<1>8. /\ OnceIn(x, R)
      /\ Holds(x, R) =>
           /\ Standing(n) /\ ~(m.opponentIsReady /\ m.descriptor # NoMatch)
           /\ m.descriptor = n.descriptor \/ Holds(x, Begins)
      /\ m.opponentIsReady /\ m.descriptor # NoMatch =>
           left \/ (Standing(n) /\ n.descriptor = m.descriptor)
      /\ Standing(n) /\ (m.descriptor = n.descriptor \/ Holds(x, Begins)) =>
           m.opponentIsReady \/ Holds(x, R)
      /\ Standing(m) /\ m.child # "actor" => OnlyAfter(x, L, EventSet \ R)
      /\ Standing(m) /\ n.child # "actor" => left \/ rested[p]
  BY DEF Pair, R, L
<1>9. m.child = "actor" => m.opponentIsReady /\ m.descriptor # NoMatch
  BY DEF Shape, Standing
<1>10. Ends2(p, o, m, e, k) => k.descriptor = NoMatch /\ m.child = "actor"
  BY DEF Ends2
<1>11. /\ e \in Begins => Asking(m) /\ k.descriptor = e.about /\ ~k.opponentIsReady
       /\ e \notin Begins => k.descriptor = m.descriptor \/ Ends2(p, o, m, e, k)
       /\ e \in R => m.descriptor # NoMatch /\ k.descriptor = m.descriptor /\ k.opponentIsReady
       /\ k.opponentIsReady => m.opponentIsReady \/ e \in R
       /\ m.opponentIsReady => k.opponentIsReady \/ (k.descriptor = NoMatch /\ ~Asking(m))
       /\ Standing(m) /\ Standing(k) /\ k.child # "actor" => m.child # "actor"
       /\ Standing(k) /\ ~Standing(m) => rested[p]
  BY DEF Facts, R
<1>12. Asking(m) => m.descriptor = NoMatch
  BY DEF Asking
<1>13. \A j : Standing(j) => j.descriptor # NoMatch
  BY DEF Standing
<1>14. OnceIn(x1, R)
  BY <1>2, <1>8
<1>15. Holds(x1, R) =>
         /\ Standing(n) /\ ~(k.opponentIsReady /\ k.descriptor # NoMatch)
         /\ k.descriptor = n.descriptor \/ Holds(x1, Begins)
  BY <1>2, <1>3, <1>8, <1>9, <1>10, <1>11, <1>12, <1>13
<1>16. k.opponentIsReady /\ k.descriptor # NoMatch => Standing(n) /\ n.descriptor = k.descriptor
  BY <1>2, <1>3, <1>7, <1>8, <1>10, <1>11, <1>12
<1>17. Standing(n) /\ (k.descriptor = n.descriptor \/ Holds(x1, Begins)) =>
         k.opponentIsReady \/ Holds(x1, R)
  BY <1>2, <1>3, <1>8, <1>10, <1>11, <1>12, <1>13
<1>18. Standing(k) /\ k.child # "actor" => OnlyAfter(x1, L, EventSet \ R)
  <2>1. CASE Standing(m)
    BY <1>5, <1>8, <1>11, <2>1
  <2>2. CASE ~Standing(m)
    <3>1. Standing(k) => ~Holds(x1, L)
      BY <1>4, <1>6, <1>11, <2>2
    <3> QED BY <3>1, More
  <2> QED BY <2>1, <2>2
<1>19. Standing(k) /\ n.child # "actor" => rested[p]
  BY <1>8, <1>11, <1>13
<1> QED BY <1>14, <1>15, <1>16, <1>17, <1>18, <1>19 DEF Pair, R, L

(* The other one, o, whose next events are y: of the reports of p.         *)
LEMMA PairOther ==
  ASSUME NEW p \in Players, NEW o \in Players, o # p, NEW m, NEW e, NEW k, NEW n, NEW out,
         Facts(p, o, m, e, k, out), Shape(p, m), Shape(p, k),
         NEW y, NEW y1, NEW t, Grown(y, y1, out, t),
         NEW left, NEW l, NEW s, NEW untold, NEW harmed, NEW asked, NEW rest, NEW rests,
         Pair(o, p, n, m, y, rest, FALSE),
         Ledger(o, n, y, l, s, untold, harmed, asked, rest),
         (rests <=> rest) \/ k.child = "actor",
         Standing(k) /\ ~Standing(m) => n.descriptor = k.descriptor \/ Holds(y, Begins),
         Ends2(p, o, m, e, k) => ~Holds(y, Reports(p)) /\ (n.descriptor = NoMatch \/ left)
  PROVE  Pair(o, p, n, k, y1, rests, left)
<1> DEFINE R == Reports(p)
           L == Lives(o)
<1>1. /\ out \in Seq(EventSet) /\ ~Holds(out, L) /\ ~Holds(out, Begins) /\ OnceIn(out, R)
      /\ Holds(out, R) <=> (Standing(k) /\ ~Standing(m))
      /\ \A A, B \in SUBSET EventSet : OnlyAfter(out, A, B)
  BY OutIs
<1>2. /\ Holds(y1, R) <=> (Holds(y, R) \/ Holds(out, R))
      /\ OnceIn(y, R) /\ OnceIn(out, R) /\ ~(Holds(y, R) /\ Holds(out, R)) => OnceIn(y1, R)
  BY WaitingIs, PlainIs
<1>3. Holds(y1, Begins) <=> Holds(y, Begins)
  BY <1>1, WaitingIs, PlainIs
<1>4. OnlyAfter(y, L, EventSet \ R) /\ (Holds(out, R) => ~Holds(y, L)) => OnlyAfter(y1, L, EventSet \ R)
  <2>1. ~Holds(out, R) => Within(out, EventSet \ R)
    BY <1>1 DEF Within, Holds
  <2>2. L \in SUBSET EventSet /\ (EventSet \ R) \in SUBSET EventSet
    BY DEF Lives, EvOf
  <2> QED BY <1>1, <2>1, <2>2 DEF Grown
<1>5. rest => ~Holds(y, L)
  BY DEF Ledger
<1> HIDE DEF R, L
<1>6. /\ OnceIn(y, R)
      /\ Holds(y, R) =>
           /\ Standing(m) /\ ~(n.opponentIsReady /\ n.descriptor # NoMatch)
           /\ n.descriptor = m.descriptor \/ Holds(y, Begins)
      /\ n.opponentIsReady /\ n.descriptor # NoMatch => Standing(m) /\ m.descriptor = n.descriptor
      /\ Standing(m) /\ (n.descriptor = m.descriptor \/ Holds(y, Begins)) =>
           n.opponentIsReady \/ Holds(y, R)
      /\ Standing(n) /\ n.child # "actor" => OnlyAfter(y, L, EventSet \ R)
      /\ Standing(n) /\ m.child # "actor" => rest
  BY DEF Pair, R, L
<1>7. /\ Standing(m) => (Standing(k) /\ k.descriptor = m.descriptor) \/ Ends2(p, o, m, e, k)
      /\ m.child = "actor" => k.child = "actor" \/ Ends2(p, o, m, e, k)
      /\ m.child = "actor" => Standing(m)
  BY DEF Facts, Shape
<1>8. Ends2(p, o, m, e, k) => ~Holds(y, R) /\ (n.descriptor = NoMatch \/ left) /\ ~Standing(k)
  BY DEF R, Ends2, Standing
<1>9. /\ Standing(n) => n.descriptor # NoMatch
      /\ k.child = "actor" => Standing(k)
  BY DEF Standing, Shape
<1>10. OnceIn(y1, R)
  BY <1>1, <1>2, <1>6
<1>11. Holds(y1, R) =>
         /\ Standing(k) /\ ~(n.opponentIsReady /\ n.descriptor # NoMatch)
         /\ n.descriptor = k.descriptor \/ Holds(y1, Begins)
  BY <1>1, <1>2, <1>3, <1>6, <1>7, <1>8
<1>12. n.opponentIsReady /\ n.descriptor # NoMatch =>
         left \/ (Standing(k) /\ k.descriptor = n.descriptor)
  BY <1>6, <1>7, <1>8
<1>13. Standing(k) /\ (n.descriptor = k.descriptor \/ Holds(y1, Begins)) =>
         n.opponentIsReady \/ Holds(y1, R)
  BY <1>1, <1>2, <1>3, <1>6, <1>7, <1>8
<1>14. Standing(n) /\ n.child # "actor" => OnlyAfter(y1, L, EventSet \ R)
  BY <1>1, <1>4, <1>5, <1>6, <1>7
<1>15. Standing(n) /\ k.child # "actor" => left \/ rests
  BY <1>6, <1>7, <1>8, <1>9
<1> QED BY <1>10, <1>11, <1>12, <1>13, <1>14, <1>15 DEF Pair, R, L

(* The requests for an assignment.                                         *)
LEMMA TokensOwn ==
  ASSUME NEW p \in Players, NEW o \in Players, o # p, NEW m, NEW e, NEW k, NEW out,
         Facts(p, o, m, e, k, out), NEW x \in Seq(EventSet), x # <<>>, e = Head(x),
         NEW x1, NEW t, Grown(Tail(x), x1, out, t),
         NEW w, NEW w1, AsksGrow(w, w1, out), NEW listed, Tokens(p, m, x, w, listed)
  PROVE  Tokens(p, k, x1, w1, listed)
<1>1. /\ ~Holds(out, Begins) /\ OnceIn(out, Asks(p))
      /\ Holds(out, Asks(p)) => Asking(k) /\ ~Asking(m)
  BY OutIs
<1>2. /\ Holds(x, Begins) <=> (e \in Begins \/ Holds(x1, Begins))
      /\ OnceIn(x, Begins) => OnceIn(x1, Begins) /\ (e \in Begins => ~Holds(x1, Begins))
  BY <1>1, HeardIs, PlainIs
<1>3. /\ Holds(w1, Asks(p)) <=> (Holds(w, Asks(p)) \/ Holds(out, Asks(p)))
      /\ OnceIn(w, Asks(p)) /\ OnceIn(out, Asks(p)) /\ ~(Holds(w, Asks(p)) /\ Holds(out, Asks(p))) =>
           OnceIn(w1, Asks(p))
  BY DEF AsksGrow
<1>4. Asking(m) => Asking(k) \/ e \in Begins
  BY DEF Facts
<1> QED BY <1>1, <1>2, <1>3, <1>4 DEF Tokens

LEMMA TokensOther ==
  ASSUME NEW o \in Players, NEW n, NEW out, NEW y, NEW y1, NEW t, Grown(y, y1, out, t),
         NEW w, NEW w1, AsksGrow(w, w1, out), NEW listed, Tokens(o, n, y, w, listed),
         ~Holds(out, Begins), ~Holds(out, Asks(o))
  PROVE  Tokens(o, n, y1, w1, listed)
<1>1. /\ Holds(y1, Begins) <=> Holds(y, Begins)
      /\ OnceIn(y, Begins) => OnceIn(y1, Begins)
  BY WaitingIs, PlainIs, More
<1>2. /\ Holds(w1, Asks(o)) <=> Holds(w, Asks(o))
      /\ OnceIn(w, Asks(o)) => OnceIn(w1, Asks(o))
  BY More DEF AsksGrow
<1> QED BY <1>1, <1>2 DEF Tokens

-----------------------------------------------------------------------------
(* What the first player knows of the other one when it hears an event.    *)

LEMMA ChangesAre ==
  ASSUME NEW e \in EventSet
  PROVE  e \in Changes <=> (e \in Lives(P1) \/ e \in Lives(P2))
<1>1. e.kind = "LifeStateChanged" => e.about \in Players
  BY EventsAre DEF PlayerKinds
<1> QED BY <1>1, PlayersAre DEF Changes, Ev, Lives, EvOf

LEMMA MoverIs ==
  ASSUME NEW p \in Players, NEW o, o = Opponent(p), NEW m, NEW e, NEW k, NEW out, NEW x, NEW s,
         NEW untold, NEW harmed, NEW asked,
         Mover(p, o, m, e, k, out), e \in Lives(p) => Holds(x, Lives(p)),
         life[p] \in {"alive", "dead"}, s \in {"alive", "dead"},
         Ledger(p, m, x, life[p], s, untold, harmed, asked, rested[p])
  PROVE  Facts(p, o, m, e, k, out)
<1>1. rested[p] => ~(e \in Lives(p) /\ m.child = "prepare")
  BY DEF Ledger
<1> QED BY <1>1, FactsAre

FirstKnown(m, n, e, k) ==
  /\ e \in Begins => n.descriptor = NoMatch
  /\ Standing(k) /\ ~Standing(m) => n.descriptor = k.descriptor \/ Holds(queue, Begins)
  /\ m.descriptor # NoMatch => m.descriptor = n.descriptor
  /\ n.descriptor # NoMatch => m.descriptor = n.descriptor
  /\ Ends2(P1, P2, m, e, k) => n.child = "actor" /\ ~Holds(queue, Reports(P1))
  /\ Holds(queue, Begins) => Asking(m)
  /\ e \in Changes /\ Standing(k) => ~Standing(n)
  /\ \A q \in Players : e \in Lives(q) => life[q] = srvLife[q]
  /\ m.child = "actor" => n.child # "resurrect"

LEMMA FirstKnows ==
  ASSUME MatchesInv, Turn(P1), NEW m, m = bots[P1], NEW n, n = bots[P2], NEW e, e = Head(queue),
         NEW k, NEW out, Mover(P1, P2, m, e, k, out)
  PROVE  Facts(P1, P2, m, e, k, out) /\ FirstKnown(m, n, e, k)
<1>1. /\ queue \in Seq(EventSet) /\ queue # <<>> /\ e \in EventSet /\ ~Behind /\ Box1 = queue /\ ~Left
      /\ \A A : e \in A => Holds(queue, A)
  BY FirstHears, Zenon
<1>2. /\ P1 \in Players /\ P2 \in Players /\ P1 # P2 /\ P2 = Opponent(P1)
      /\ life[P1] \in {"alive", "dead"} /\ srvLife[P1] \in {"alive", "dead"}
      /\ life[P2] \in {"alive", "dead"} /\ srvLife[P2] \in {"alive", "dead"}
  BY PlayersAre DEF MatchesInv, Typed
<1>3. /\ Ledger(P1, m, queue, life[P1], srvLife[P1], P1 \in news, P1 \in hurt, P1 \in resReq, rested[P1])
      /\ Ledger(P2, n, queue, life[P2], srvLife[P2], P2 \in news, P2 \in hurt, P2 \in resReq, rested[P2])
  BY <1>1 DEF MatchesInv, Ledgers, LedgerOf
<1>4. /\ Pair(P1, P2, m, n, queue, rested[P1], FALSE)
      /\ Pair(P2, P1, n, m, queue, rested[P2], FALSE)
  BY <1>1 DEF MatchesInv, Pairs, Pair
<1>5. Shape(P1, m) /\ Shape(P2, n)
  BY DEF MatchesInv, Shapes
<1>6. Holds(queue, Begins) => Asking(m) /\ Asking(n)
  BY <1>1 DEF MatchesInv, RequestsOK, Tokens
<1>7. /\ m.descriptor # NoMatch => m.descriptor = n.descriptor
      /\ n.descriptor # NoMatch => m.descriptor = n.descriptor
  BY <1>1 DEF MatchesInv, Together
<1>8. Facts(P1, P2, m, e, k, out)
  BY <1>1, <1>2, <1>3, MoverIs
<1>9. e \in Begins => n.descriptor = NoMatch
  BY <1>1, <1>6 DEF Asking
<1>10. Standing(k) /\ ~Standing(m) => n.descriptor = k.descriptor \/ Holds(queue, Begins)
  <2>1. SUFFICES ASSUME Standing(k), ~Standing(m), e \notin Begins
                 PROVE n.descriptor = k.descriptor
    BY <1>1
  <2>2. m.child = "prepare" /\ k.descriptor # NoMatch
    BY <1>8, <2>1 DEF Facts, Standing
  <2>3. k.descriptor = m.descriptor
    BY <1>8, <2>1, <2>2 DEF Facts, Ends2
  <2> QED BY <1>7, <2>2, <2>3
<1>11. Standing(m) /\ n.child # "actor" =>
         \/ /\ Holds(queue, Reports(P1)) /\ rested[P1]
            /\ OnlyAfter(queue, Lives(P2), EventSet \ Reports(P1))
         \/ ~m.opponentIsReady
  <2>1. SUFFICES ASSUME Standing(m), n.child # "actor", m.opponentIsReady
                 PROVE  /\ Holds(queue, Reports(P1)) /\ rested[P1]
                        /\ OnlyAfter(queue, Lives(P2), EventSet \ Reports(P1))
    OBVIOUS
  <2>2. Standing(n) /\ n.descriptor = m.descriptor
    BY <1>4, <2>1 DEF Pair, Standing
  <2>3. ~n.opponentIsReady
    BY <1>5, <2>1, <2>2 DEF Shape, Standing, Bot
  <2> QED BY <1>4, <2>1, <2>2, <2>3 DEF Pair
<1>12. m.child = "actor" => Standing(m) /\ m.opponentIsReady
  BY <1>5 DEF Shape
<1>13. Ends2(P1, P2, m, e, k) => n.child = "actor"
  <2>1. SUFFICES ASSUME Ends2(P1, P2, m, e, k), n.child # "actor" PROVE FALSE
    OBVIOUS
  <2>2. /\ Holds(queue, Reports(P1)) /\ OnlyAfter(queue, Lives(P2), EventSet \ Reports(P1))
        /\ rested[P1]
    BY <1>11, <1>12, <2>1 DEF Ends2
  <2>3. CASE e \in Lives(P1) /\ life[P1] = "dead"
    BY <1>1, <1>3, <2>2, <2>3 DEF Ledger
  <2>4. CASE e \in Lives(P2)
    <3>1. Within(Tail(queue), EventSet \ Reports(P1))
      BY <1>1, <2>2, <2>4, HeadTail
    <3>2. (EventSet \ Reports(P1)) \cap Reports(P1) = {}
      OBVIOUS
    <3>3. ~Holds(Tail(queue), Reports(P1))
      BY <3>1, <3>2, Subsets
    <3>4. e \notin Reports(P1)
      BY <2>4 DEF Lives, Reports, EvOf
    <3> QED BY <1>1, <2>2, <3>3, <3>4, HeadTail
  <2> QED BY <2>1, <2>3, <2>4 DEF Ends2
<1>14. n.child = "actor" => ~Holds(queue, Reports(P1))
  BY <1>4, <1>5 DEF Shape, Pair, Standing
<1>15. ASSUME e \in Changes, Standing(k), Standing(n) PROVE FALSE
  <2>1. e \in Lives(P1) \/ e \in Lives(P2)
    BY <1>1, <1>15, ChangesAre
  <2>2. e \notin Begins
    BY <1>15 DEF Changes, Begins, Ev
  <2>3. Mover(P1, P2, m, e, k, out)
    OBVIOUS
  <2>4. CASE e \in Lives(P1)
    <3>1. Standing(m) /\ m.initialized
      BY <1>5, <1>8, <1>15, <2>4 DEF Facts, Shape, Standing
    <3>2. m.child # "resurrect"
      BY <1>5, <3>1 DEF Shape, Standing
    <3>3. life[P1] = "dead"
      BY <1>1, <1>2, <1>3, <2>4, <3>2 DEF Ledger
    <3>4. k.child = "resurrect"
      BY <2>4, <3>1, <3>3 DEF Mover, Knows
    <3> QED BY <1>15, <3>4 DEF Mover, Shape, Standing
  <2>5. CASE e \in Lives(P2)
    <3>1. n.child # "resurrect"
      BY <1>5, <1>15 DEF Shape, Standing
    <3>2. life[P2] = "dead"
      BY <1>1, <1>2, <1>3, <2>5, <3>1 DEF Ledger
    <3>3. ~rested[P2]
      BY <1>1, <1>3, <2>5, <3>1, <3>2 DEF Ledger
    <3>4. m.child = "actor"
      BY <1>4, <1>15, <3>3 DEF Pair
    <3>5. m.initialized
      BY <1>5, <3>4 DEF Shape
    <3>6. k.child # "actor"
      BY <2>5, <3>2, <3>5 DEF Mover, Knows
    <3>7. k.descriptor = NoMatch
      BY <1>8, <3>4, <3>6 DEF Facts, Ends2
    <3> QED BY <1>15, <3>7 DEF Standing
  <2> QED BY <2>1, <2>4, <2>5
<1>16. \A q \in Players : e \in Lives(q) => life[q] = srvLife[q]
  BY <1>1, <1>2, <1>3, PlayersAre DEF Ledger
<1>17. m.child = "actor" => n.child # "resurrect"
  <2>1. SUFFICES ASSUME m.child = "actor", n.child = "resurrect" PROVE FALSE
    OBVIOUS
  <2>2. Standing(n)
    BY <1>4, <1>12, <2>1 DEF Pair, Standing
  <2> QED BY <1>5, <2>1, <2>2 DEF Shape, Standing
<1> QED BY <1>6, <1>7, <1>8, <1>9, <1>10, <1>13, <1>14, <1>15, <1>16, <1>17 DEF FirstKnown

(* What is between the two once the first player has heard an event.       *)
LEMMA FirstKeepsPairs ==
  ASSUME MatchesInv, Turn(P1), NEW m, m = bots[P1], NEW n, n = bots[P2], NEW e, e = Head(queue),
         NEW k \in Bot, NEW out \in Seq(EventSet), NEW z \in Seq(EventSet),
         Effect(P1, P2, m, e, k, out, z), Spares(Tail(queue), z, m.eventId),
         Facts(P1, P2, m, e, k, out), FirstKnown(m, n, e, k)
  PROVE  /\ QueueOK' /\ Shapes' /\ Ledgers' /\ Pairs' /\ RequestsOK' /\ Together'
         /\ Behind' /\ Head(queue') = e
         /\ bots'[P1] = k /\ bots'[P2] = n
<1>1. /\ queue \in Seq(EventSet) /\ queue # <<>> /\ ~Left /\ QueueOK /\ e \in EventSet
      /\ \A A : e \in A => Holds(queue, A)
  BY FirstHears, Zenon
<1>2. PICK t, x : t = m.eventId /\ x = queue
  OBVIOUS
<1>3. EndTurn((<<Head(queue)>> \o z) \o out)
  BY DEF Effect
<1>4. /\ QueueOK' /\ Behind' /\ Head(queue') = e /\ Box1 = x /\ ~Behind
      /\ Grown(Tail(queue), Box1', out, t) /\ Grown(queue, queue', out, t)
      /\ AsksGrow(ManagerBox, ManagerBox', out)
  BY <1>1, <1>2, <1>3, FirstBoxes
<1>5. PICK x1, y1, w, w1, ready1 : /\ x1 = Box1' /\ y1 = queue' /\ w = ManagerBox /\ w1 = ManagerBox'
                                   /\ ready1 = ready
  OBVIOUS
<1>6. Grown(Tail(x), x1, out, t) /\ Grown(x, y1, out, t) /\ AsksGrow(w, w1, out)
  BY <1>2, <1>4, <1>5
<1>7. /\ P1 \in Players /\ P2 \in Players /\ P1 # P2 /\ P2 = Opponent(P1)
      /\ life[P1] \in {"alive", "dead"} /\ srvLife[P1] \in {"alive", "dead"}
      /\ life[P2] \in {"alive", "dead"} /\ srvLife[P2] \in {"alive", "dead"}
      /\ rested \in [Players -> BOOLEAN] /\ bots \in [Players -> Bot]
  BY PlayersAre DEF MatchesInv, Typed
<1>8. bots'[P1] = k /\ bots'[P2] = n /\ n \in Bot
  BY <1>7 DEF Effect
<1>9. /\ life' = life /\ srvLife' = srvLife /\ news' = news /\ ready' = ready /\ rested'[P1] = rested[P1]
      /\ (P1 \in hurt' <=> P1 \in hurt) /\ (P2 \in resReq' <=> P2 \in resReq)
      /\ (P1 \in resReq' <=> P1 \in resReq) \/ (srvLife[P1] = "dead" /\ k.child = "resurrect")
      /\ \/ (P2 \in hurt' <=> P2 \in hurt) /\ rested'[P2] = rested[P2]
         \/ ~rested'[P2] /\ srvLife[P2] = "alive" /\ k.child = "actor"
      /\ m.child = "actor" => (P1 \in resReq' <=> P1 \in resReq)
  BY <1>7 DEF Effect
<1>10. /\ ~Holds(out, Begins) /\ ~Holds(out, Asks(P2)) /\ ~Holds(out, Lives(P1)) /\ ~Holds(out, Lives(P2))
  BY <1>7, OutIs
<1>11. Shape(P1, m) /\ Shape(P2, n) /\ Shape(P1, k)
  BY DEF MatchesInv, Shapes, Effect
<1>12. /\ Ledger(P1, m, x, life[P1], srvLife[P1], P1 \in news, P1 \in hurt, P1 \in resReq, rested[P1])
       /\ Ledger(P2, n, x, life[P2], srvLife[P2], P2 \in news, P2 \in hurt, P2 \in resReq, rested[P2])
  BY <1>2, <1>4 DEF MatchesInv, Ledgers, LedgerOf
<1>13. /\ Pair(P1, P2, m, n, x, rested[P1], FALSE)
       /\ Pair(P2, P1, n, m, x, rested[P2], FALSE)
  BY <1>1, <1>2, <1>4 DEF MatchesInv, Pairs, Pair
<1>14. Tokens(P1, m, x, w, ready1 = <<P1>>) /\ Tokens(P2, n, x, w, ready1 = <<P2>>)
  BY <1>2, <1>4, <1>5 DEF MatchesInv, RequestsOK, IsListed
<1>15. Ledger(P1, k, x1, life[P1], srvLife[P1], P1 \in news, P1 \in hurt, P1 \in resReq', rested[P1])
  <2>1. PICK s, a, b, c, d, f : /\ s = srvLife[P1] /\ a = (P1 \in news) /\ b = (P1 \in hurt)
                                /\ c = (P1 \in resReq) /\ d = (P1 \in resReq') /\ f = rested[P1]
    OBVIOUS
  <2>2. Ledger(P1, m, x, life[P1], s, a, b, c, f) /\ (d = c \/ (s = "dead" /\ k.child = "resurrect"))
    BY <1>9, <1>12, <2>1
  <2>3. s \in {"alive", "dead"} /\ x \in Seq(EventSet) /\ x # <<>> /\ e = Head(x)
    BY <1>1, <1>2, <1>7, <2>1
  <2>4. Ledger(P1, k, x1, life[P1], s, a, b, d, f)
    <3>1. /\ P1 \in Players /\ Grown(Tail(x), x1, out, t) /\ ~Holds(out, Lives(P1))
          /\ life[P1] \in {"alive", "dead"}
      BY <1>6, <1>7, <1>10
    <3>2. Facts(P1, P2, m, e, k, out)
      OBVIOUS
    <3> QED BY ONLY <2>2, <2>3, <3>1, <3>2, LedgerOwn
  <2> QED BY <2>1, <2>4
<1>16. Pair(P1, P2, k, n, x1, rested[P1], FALSE)
  <2>1. PICK s, a, b, c, no : /\ s = srvLife[P1] /\ a = (P1 \in news) /\ b = (P1 \in hurt)
                              /\ c = (P1 \in resReq) /\ no = FALSE
    OBVIOUS
  <2>2. Ledger(P1, m, x, life[P1], s, a, b, c, rested[P1]) /\ Pair(P1, P2, m, n, x, rested[P1], no)
    BY <1>12, <1>13, <2>1
  <2>3. /\ x \in Seq(EventSet) /\ x # <<>> /\ e = Head(x) /\ (Holds(x, Begins) => Asking(m))
        /\ (no => k.descriptor = NoMatch) /\ (e \in Begins => n.descriptor \in {NoMatch, e.about})
    BY <1>1, <1>2, <2>1 DEF FirstKnown
  <2> QED BY <1>6, <1>7, <1>11, <2>2, <2>3, PairOwn
<1>17. k.child = "actor" => n.child # "resurrect"
  BY <1>11, <1>16 DEF Pair, Shape, Standing
<1>18. Ledger(P2, n, y1, life[P2], srvLife[P2], P2 \in news, P2 \in hurt', P2 \in resReq, rested'[P2])
  <2>1. PICK l, s, a, b, c, d, f, g :
          /\ l = life[P2] /\ s = srvLife[P2] /\ a = (P2 \in news) /\ b = (P2 \in hurt)
          /\ c = (P2 \in resReq) /\ d = (P2 \in hurt') /\ f = rested[P2] /\ g = rested'[P2]
    OBVIOUS
  <2>2. /\ Ledger(P2, n, x, l, s, a, b, c, f) /\ s \in {"alive", "dead"} /\ l \in {"alive", "dead"}
        /\ \/ (d <=> b) /\ (g <=> f)
           \/ ~g /\ s = "alive" /\ n.child # "resurrect"
    BY <1>7, <1>9, <1>12, <1>17, <2>1
  <2>3. Ledger(P2, n, y1, l, s, a, d, c, g)
    BY <1>6, <1>7, <1>10, <2>2, LedgerOther
  <2> QED BY <2>1, <2>3
<1>19. Ends2(P1, P2, m, e, k) => Left'
  <2>1. SUFFICES ASSUME Ends2(P1, P2, m, e, k) PROVE Left'
    OBVIOUS
  <2>2. n.child = "actor" /\ k.descriptor = NoMatch /\ m.child = "actor"
    BY <2>1 DEF Ends2, FirstKnown
  <2>3. PICK q \in Players : e \in Lives(q) /\ life[q] = "dead"
    BY <1>7, <2>1 DEF Ends2
  <2>4. srvLife[q] = "dead"
    BY <2>3 DEF FirstKnown
  <2>5. P1 \notin resReq' /\ P2 \notin resReq'
    BY <1>9, <1>12, <2>2 DEF Ledger
  <2>6. q \notin resReq' /\ life'[q] = "dead" /\ srvLife'[q] = "dead"
    BY <1>9, <2>3, <2>4, <2>5, PlayersAre
  <2> QED BY <1>4, <1>8, <2>2, <2>3, <2>6 DEF Left
<1>20. Pair(P2, P1, n, k, y1, rested'[P2], Left')
  <2>1. PICK l, s, a, b, c, f, g, left :
          /\ l = life[P2] /\ s = srvLife[P2] /\ a = (P2 \in news) /\ b = (P2 \in hurt)
          /\ c = (P2 \in resReq) /\ f = rested[P2] /\ g = rested'[P2] /\ left = Left'
    OBVIOUS
  <2>2. /\ Ledger(P2, n, x, l, s, a, b, c, f) /\ Pair(P2, P1, n, m, x, f, FALSE)
        /\ (g <=> f) \/ k.child = "actor"
    BY <1>9, <1>12, <1>13, <2>1
  <2>3. /\ Standing(k) /\ ~Standing(m) => n.descriptor = k.descriptor \/ Holds(x, Begins)
        /\ Ends2(P1, P2, m, e, k) => ~Holds(x, Reports(P1)) /\ (n.descriptor = NoMatch \/ left)
    BY <1>2, <1>19, <2>1 DEF FirstKnown
  <2>4. /\ P1 \in Players /\ P2 \in Players /\ P1 # P2
        /\ Facts(P1, P2, m, e, k, out) /\ Shape(P1, m) /\ Shape(P1, k) /\ Grown(x, y1, out, t)
    BY <1>6, <1>7, <1>11
  <2>5. Pair(P2, P1, n, k, y1, g, left)
    BY ONLY <2>2, <2>3, <2>4, PairOther, ZenonT(60)
  <2> QED BY <2>1, <2>5
<1>21. Tokens(P1, k, x1, w1, ready1 = <<P1>>)
  <2>1. PICK a : a = (ready1 = <<P1>>)
    OBVIOUS
  <2>2. Tokens(P1, m, x, w, a)
    BY <1>14, <2>1
  <2>3. x \in Seq(EventSet) /\ x # <<>> /\ e = Head(x)
    BY <1>1, <1>2
  <2> QED BY <1>6, <1>7, <2>1, <2>2, <2>3, TokensOwn
<1>22. Tokens(P2, n, y1, w1, ready1 = <<P2>>)
  <2>1. PICK a : a = (ready1 = <<P2>>)
    OBVIOUS
  <2>2. Tokens(P2, n, x, w, a)
    BY <1>14, <2>1
  <2> QED BY <1>6, <1>7, <1>10, <2>1, <2>2, TokensOther
<1>23. Together'
  <2>1. k.descriptor # NoMatch /\ n.descriptor # NoMatch => k.descriptor = n.descriptor
    BY DEF Facts, Ends2, FirstKnown
  <2>2. k.descriptor # NoMatch /\ n.descriptor = NoMatch => e \in EvOf("BeginPvp", k.descriptor)
    <3>1. k.descriptor # NoMatch /\ n.descriptor = NoMatch => e \in Begins /\ k.descriptor = e.about
      BY DEF Facts, Ends2, FirstKnown
    <3> QED BY <3>1 DEF Begins, Ev, EvOf
  <2>3. k.descriptor = NoMatch /\ n.descriptor # NoMatch => Left'
    BY <1>19 DEF Facts, FirstKnown
  <2>4. e \in Begins => k.descriptor = e.about
    BY DEF Facts
  <2>5. e \in Changes => ~(Standing(k) /\ Standing(n))
    BY DEF FirstKnown
  <2> QED BY <1>4, <1>8, <2>1, <2>2, <2>3, <2>4, <2>5 DEF Together
<1>24. Shapes'
  BY <1>8, <1>11 DEF Shapes
<1>25. Ledgers'
  BY <1>5, <1>8, <1>9, <1>15, <1>18 DEF Ledgers, LedgerOf
<1>26. Pairs'
  BY <1>5, <1>8, <1>9, <1>16, <1>20 DEF Pairs
<1>27. RequestsOK'
  BY <1>5, <1>8, <1>9, <1>21, <1>22 DEF RequestsOK, IsListed
<1> QED BY <1>4, <1>8, <1>23, <1>24, <1>25, <1>26, <1>27

-----------------------------------------------------------------------------
(* What the second player knows of the first one when it hears an event.   *)

LEMMA SameAre ==
  ASSUME NEW p, NEW o, NEW b, NEW m, Same(b, m)
  PROVE  /\ \A x, l, s, untold, harmed, asked, rest :
              Ledger(p, b, x, l, s, untold, harmed, asked, rest) =>
                Ledger(p, m, x, l, s, untold, harmed, asked, rest)
         /\ \A n, x, rest, left :
              /\ Pair(p, o, b, n, x, rest, left) => Pair(p, o, m, n, x, rest, left)
              /\ Pair(o, p, n, b, x, rest, left) => Pair(o, p, n, m, x, rest, left)
         /\ \A x, w, listed : Tokens(p, b, x, w, listed) => Tokens(p, m, x, w, listed)
         /\ Asking(b) <=> Asking(m)
         /\ Standing(b) <=> Standing(m)
<1>1. /\ m.child = b.child /\ m.descriptor = b.descriptor /\ m.published = b.published
      /\ m.weAreReady = b.weAreReady /\ m.opponentIsReady = b.opponentIsReady
  BY DEF Same
<1>2. (Asking(b) <=> Asking(m)) /\ (Standing(b) <=> Standing(m))
  BY <1>1 DEF Asking, Standing
<1>3. \A x, l, s, untold, harmed, asked, rest :
        Ledger(p, b, x, l, s, untold, harmed, asked, rest) =>
          Ledger(p, m, x, l, s, untold, harmed, asked, rest)
  BY <1>1 DEF Ledger
<1>4. \A n, x, rest, left :
        /\ Pair(p, o, b, n, x, rest, left) => Pair(p, o, m, n, x, rest, left)
        /\ Pair(o, p, n, b, x, rest, left) => Pair(o, p, n, m, x, rest, left)
  BY <1>1, <1>2 DEF Pair
<1>5. \A x, w, listed : Tokens(p, b, x, w, listed) => Tokens(p, m, x, w, listed)
  BY <1>2 DEF Tokens
<1> QED BY <1>2, <1>3, <1>4, <1>5

SecondKnown(m, n, e, k) ==
  /\ e \in Begins => n.descriptor = e.about
  /\ Standing(k) /\ ~Standing(m) => n.descriptor = k.descriptor
  /\ Left => k.descriptor = NoMatch
  /\ Ends2(P2, P1, m, e, k) => n.descriptor = NoMatch /\ ~Holds(Box1, Reports(P2))
  /\ Holds(queue, Begins) => Asking(m)
  /\ k.descriptor # NoMatch => n.descriptor = k.descriptor
  /\ n.descriptor # NoMatch => n.descriptor = k.descriptor

LEMMA SecondKnows ==
  ASSUME MatchesInv, Turn(P2), NEW e, e = Head(queue), NEW m, Same(bots[P2], m),
         NEW n, n = bots[P1], NEW k, NEW out, Mover(P2, P1, m, e, k, out)
  PROVE  Facts(P2, P1, m, e, k, out) /\ SecondKnown(m, n, e, k)
<1>1. /\ queue \in Seq(EventSet) /\ queue # <<>> /\ e \in EventSet /\ Behind /\ Box1 = Tail(queue)
      /\ \A A : e \in A => Holds(queue, A)
      /\ \A A : Holds(Box1, A) => Holds(queue, A)
  BY SecondHears, Zenon
<1>2. /\ P1 \in Players /\ P2 \in Players /\ P1 # P2 /\ P1 = Opponent(P2)
      /\ life[P2] \in {"alive", "dead"} /\ srvLife[P2] \in {"alive", "dead"}
  BY PlayersAre DEF MatchesInv, Typed
<1>3. Ledger(P2, m, queue, life[P2], srvLife[P2], P2 \in news, P2 \in hurt, P2 \in resReq, rested[P2])
  <2>1. Ledger(P2, bots[P2], queue, life[P2], srvLife[P2], P2 \in news, P2 \in hurt, P2 \in resReq, rested[P2])
    BY DEF MatchesInv, Ledgers, LedgerOf
  <2> QED BY <2>1, SameAre
<1>4. /\ Pair(P1, P2, n, m, Box1, rested[P1], FALSE)
      /\ Pair(P2, P1, m, n, queue, rested[P2], Left)
  <2>1. /\ Pair(P1, P2, n, bots[P2], Box1, rested[P1], FALSE)
        /\ Pair(P2, P1, bots[P2], n, queue, rested[P2], Left)
    BY DEF MatchesInv, Pairs
  <2> QED BY <2>1, SameAre
<1>5. Shape(P1, n) /\ Shape(P2, m) /\ Shape(P2, k)
  BY DEF MatchesInv, Shapes, Mover
<1>6. Holds(queue, Begins) => Asking(m)
  <2>1. Tokens(P2, m, queue, ManagerBox, IsListed(P2))
    BY SameAre DEF MatchesInv, RequestsOK
  <2> QED BY <2>1 DEF Tokens
<1>7. Facts(P2, P1, m, e, k, out)
  BY <1>1, <1>2, <1>3, MoverIs
<1>8. /\ n.descriptor # NoMatch /\ m.descriptor # NoMatch => n.descriptor = m.descriptor
      /\ n.descriptor # NoMatch /\ m.descriptor = NoMatch => e \in Begins
      /\ n.descriptor = NoMatch /\ m.descriptor # NoMatch => Left
      /\ e \in Begins => n.descriptor = e.about
      /\ e \in Changes => ~(Standing(n) /\ Standing(m))
  <2>1. m.descriptor = bots[P2].descriptor /\ (Standing(m) <=> Standing(bots[P2]))
    BY SameAre DEF Same
  <2>2. /\ n.descriptor # NoMatch /\ m.descriptor # NoMatch => n.descriptor = m.descriptor
        /\ n.descriptor # NoMatch /\ m.descriptor = NoMatch => e \in EvOf("BeginPvp", n.descriptor)
        /\ n.descriptor = NoMatch /\ m.descriptor # NoMatch => Left
        /\ e \in Begins => n.descriptor = e.about
        /\ e \in Changes => ~(Standing(n) /\ Standing(m))
    BY <1>1, <2>1 DEF MatchesInv, Together
  <2> QED BY <2>2 DEF Begins, Ev, EvOf
<1>9. Left => m.child = "actor" /\ n.descriptor = NoMatch
  BY DEF Left, Same
<1>10. Left => k.descriptor = NoMatch
  <2>1. SUFFICES ASSUME Left PROVE k.descriptor = NoMatch
    OBVIOUS
  <2>2. PICK q \in Players : e \in Lives(q) /\ life[q] = "dead"
    BY <2>1 DEF Left
  <2>3. m.child = "actor" /\ m.initialized
    BY <1>5, <1>9, <2>1 DEF Shape
  <2>4. k.child # "actor"
    BY <2>2, <2>3, PlayersAre DEF Mover, Knows
  <2> QED BY <1>7, <2>3, <2>4 DEF Facts, Ends2
<1>11. Ends2(P2, P1, m, e, k) => n.descriptor = NoMatch /\ ~Holds(Box1, Reports(P2))
  <2>1. SUFFICES ASSUME Ends2(P2, P1, m, e, k)
                 PROVE n.descriptor = NoMatch /\ ~Holds(Box1, Reports(P2))
    OBVIOUS
  <2>2. Standing(m) /\ m.opponentIsReady /\ m.descriptor # NoMatch
    BY <1>5, <2>1 DEF Ends2, Shape, Standing
  <2>3. e \in Changes
    BY <1>1, <2>1, ChangesAre DEF Ends2
  <2>4. ~Standing(n)
    BY <1>8, <2>2, <2>3
  <2>5. Left
    BY <1>4, <2>2, <2>4 DEF Pair
  <2>6. n.descriptor = NoMatch
    BY <2>5 DEF Left
  <2>7. ~Holds(Box1, Begins)
    BY <1>1, <1>6, <2>2 DEF Asking
  <2>8. ~Holds(Box1, Reports(P2))
    BY <1>4, <2>2, <2>6, <2>7 DEF Pair
  <2> QED BY <2>6, <2>8
<1>12. Standing(k) /\ ~Standing(m) => n.descriptor = k.descriptor
  <2>1. SUFFICES ASSUME Standing(k), ~Standing(m) PROVE n.descriptor = k.descriptor
    OBVIOUS
  <2>2. CASE e \in Begins
    BY <1>7, <1>8, <2>2 DEF Facts
  <2>3. CASE e \notin Begins
    <3>1. m.child = "prepare" /\ k.descriptor # NoMatch
      BY <1>7, <2>1, <2>3 DEF Facts, Standing
    <3>2. k.descriptor = m.descriptor
      BY <1>7, <2>3, <3>1 DEF Facts, Ends2
    <3> QED BY <1>8, <1>9, <3>1, <3>2
  <2> QED BY <2>2, <2>3
<1>13. k.descriptor # NoMatch => n.descriptor = k.descriptor
  BY <1>7, <1>8, <1>10 DEF Facts, Ends2
<1>14. n.descriptor # NoMatch => n.descriptor = k.descriptor
  BY <1>7, <1>8, <1>11 DEF Facts
<1> QED BY <1>6, <1>7, <1>8, <1>10, <1>11, <1>12, <1>13, <1>14 DEF SecondKnown

(* What is between the two once the second player has heard an event.      *)
LEMMA SecondKeepsPairs ==
  ASSUME MatchesInv, Turn(P2), NEW e, e = Head(queue), NEW m, Same(bots[P2], m), Shape(P2, m),
         NEW n, n = bots[P1],
         NEW k \in Bot, NEW out \in Seq(EventSet), NEW z \in Seq(EventSet),
         Effect(P2, P1, m, e, k, out, z), Spares(Tail(queue), z, m.eventId),
         Facts(P2, P1, m, e, k, out), SecondKnown(m, n, e, k)
  PROVE  /\ QueueOK' /\ Shapes' /\ Ledgers' /\ Pairs' /\ RequestsOK' /\ Together'
         /\ ~Behind' /\ bots'[P2] = k /\ bots'[P1] = n
<1>1. queue \in Seq(EventSet) /\ queue # <<>> /\ QueueOK
  BY SecondHears, Zenon
<1>2. PICK t, x, y : t = m.eventId /\ x = queue /\ y = Box1
  OBVIOUS
<1>3. EndTurn((<<Head(queue)>> \o z) \o out)
  BY DEF Effect
<1>4. /\ QueueOK' /\ ~Behind' /\ Behind /\ Box1 = Tail(queue)
      /\ Grown(Tail(queue), queue', out, t) /\ Grown(Box1, Box1', out, t)
      /\ AsksGrow(ManagerBox, ManagerBox', out)
  BY <1>1, <1>2, <1>3, SecondBoxes
<1>5. PICK x1, y1, w, w1, ready1, left :
        /\ x1 = queue' /\ y1 = Box1' /\ w = ManagerBox /\ w1 = ManagerBox' /\ ready1 = ready
        /\ left = Left
  OBVIOUS
<1>6. Grown(Tail(x), x1, out, t) /\ Grown(y, y1, out, t) /\ AsksGrow(w, w1, out)
  BY <1>2, <1>4, <1>5
<1>7. /\ P1 \in Players /\ P2 \in Players /\ P1 # P2 /\ P1 = Opponent(P2)
      /\ life[P1] \in {"alive", "dead"} /\ srvLife[P1] \in {"alive", "dead"}
      /\ life[P2] \in {"alive", "dead"} /\ srvLife[P2] \in {"alive", "dead"}
      /\ rested \in [Players -> BOOLEAN] /\ bots \in [Players -> Bot]
  BY PlayersAre DEF MatchesInv, Typed
<1>8. bots'[P2] = k /\ bots'[P1] = n /\ n \in Bot
  BY <1>7 DEF Effect
<1>9. /\ life' = life /\ srvLife' = srvLife /\ news' = news /\ ready' = ready /\ rested'[P2] = rested[P2]
      /\ (P2 \in hurt' <=> P2 \in hurt) /\ (P1 \in resReq' <=> P1 \in resReq)
      /\ (P2 \in resReq' <=> P2 \in resReq) \/ (srvLife[P2] = "dead" /\ k.child = "resurrect")
      /\ \/ (P1 \in hurt' <=> P1 \in hurt) /\ rested'[P1] = rested[P1]
         \/ ~rested'[P1] /\ srvLife[P1] = "alive" /\ k.child = "actor"
  BY <1>7 DEF Effect
<1>10. /\ ~Holds(out, Begins) /\ ~Holds(out, Asks(P1)) /\ ~Holds(out, Lives(P1)) /\ ~Holds(out, Lives(P2))
  BY <1>7, OutIs
<1>11. Shape(P1, n) /\ Shape(P2, k)
  BY DEF MatchesInv, Shapes, Effect
<1>12. /\ Ledger(P2, m, x, life[P2], srvLife[P2], P2 \in news, P2 \in hurt, P2 \in resReq, rested[P2])
       /\ Ledger(P1, n, y, life[P1], srvLife[P1], P1 \in news, P1 \in hurt, P1 \in resReq, rested[P1])
  <2>1. /\ Ledger(P2, bots[P2], x, life[P2], srvLife[P2], P2 \in news, P2 \in hurt, P2 \in resReq, rested[P2])
        /\ Ledger(P1, n, y, life[P1], srvLife[P1], P1 \in news, P1 \in hurt, P1 \in resReq, rested[P1])
    BY <1>2 DEF MatchesInv, Ledgers, LedgerOf
  <2> QED BY <2>1, SameAre
<1>13. /\ Pair(P2, P1, m, n, x, rested[P2], left)
       /\ Pair(P1, P2, n, m, y, rested[P1], FALSE)
  <2>1. /\ Pair(P2, P1, bots[P2], n, x, rested[P2], left)
        /\ Pair(P1, P2, n, bots[P2], y, rested[P1], FALSE)
    BY <1>2, <1>5 DEF MatchesInv, Pairs
  <2> QED BY <2>1, SameAre
<1>14. Tokens(P2, m, x, w, ready1 = <<P2>>) /\ Tokens(P1, n, y, w, ready1 = <<P1>>)
  <2>1. Tokens(P2, bots[P2], x, w, ready1 = <<P2>>) /\ Tokens(P1, n, y, w, ready1 = <<P1>>)
    BY <1>2, <1>5 DEF MatchesInv, RequestsOK, IsListed
  <2> QED BY <2>1, SameAre
<1>15. Ledger(P2, k, x1, life[P2], srvLife[P2], P2 \in news, P2 \in hurt, P2 \in resReq', rested[P2])
  <2>1. PICK s, a, b, c, d, f : /\ s = srvLife[P2] /\ a = (P2 \in news) /\ b = (P2 \in hurt)
                                /\ c = (P2 \in resReq) /\ d = (P2 \in resReq') /\ f = rested[P2]
    OBVIOUS
  <2>2. Ledger(P2, m, x, life[P2], s, a, b, c, f) /\ (d = c \/ (s = "dead" /\ k.child = "resurrect"))
    BY <1>9, <1>12, <2>1
  <2>3. s \in {"alive", "dead"} /\ x \in Seq(EventSet) /\ x # <<>> /\ e = Head(x)
    BY <1>1, <1>2, <1>7, <2>1
  <2>4. Ledger(P2, k, x1, life[P2], s, a, b, d, f)
    <3>1. /\ P2 \in Players /\ Grown(Tail(x), x1, out, t) /\ ~Holds(out, Lives(P2))
          /\ life[P2] \in {"alive", "dead"}
      BY <1>6, <1>7, <1>10
    <3>2. Facts(P2, P1, m, e, k, out)
      OBVIOUS
    <3> QED BY ONLY <2>2, <2>3, <3>1, <3>2, LedgerOwn
  <2> QED BY <2>1, <2>4
<1>16. Pair(P2, P1, k, n, x1, rested[P2], FALSE)
  <2>1. PICK s, a, b, c : /\ s = srvLife[P2] /\ a = (P2 \in news) /\ b = (P2 \in hurt)
                          /\ c = (P2 \in resReq)
    OBVIOUS
  <2>2. Ledger(P2, m, x, life[P2], s, a, b, c, rested[P2]) /\ Pair(P2, P1, m, n, x, rested[P2], left)
    BY <1>12, <1>13, <2>1
  <2>3. /\ x \in Seq(EventSet) /\ x # <<>> /\ e = Head(x) /\ (Holds(x, Begins) => Asking(m))
        /\ (left => k.descriptor = NoMatch) /\ (e \in Begins => n.descriptor \in {NoMatch, e.about})
    BY <1>1, <1>2, <1>5 DEF SecondKnown
  <2> QED BY <1>6, <1>7, <1>11, <2>2, <2>3, PairOwn
<1>17. k.child = "actor" => n.child # "resurrect"
  BY <1>11, <1>16 DEF Pair, Shape, Standing
<1>18. Ledger(P1, n, y1, life[P1], srvLife[P1], P1 \in news, P1 \in hurt', P1 \in resReq, rested'[P1])
  <2>1. PICK l, s, a, b, c, d, f, g :
          /\ l = life[P1] /\ s = srvLife[P1] /\ a = (P1 \in news) /\ b = (P1 \in hurt)
          /\ c = (P1 \in resReq) /\ d = (P1 \in hurt') /\ f = rested[P1] /\ g = rested'[P1]
    OBVIOUS
  <2>2. /\ Ledger(P1, n, y, l, s, a, b, c, f) /\ s \in {"alive", "dead"} /\ l \in {"alive", "dead"}
        /\ \/ (d <=> b) /\ (g <=> f)
           \/ ~g /\ s = "alive" /\ n.child # "resurrect"
    BY <1>7, <1>9, <1>12, <1>17, <2>1
  <2>3. Ledger(P1, n, y1, l, s, a, d, c, g)
    BY <1>6, <1>7, <1>10, <2>2, LedgerOther
  <2> QED BY <2>1, <2>3
<1>19. Pair(P1, P2, n, k, y1, rested'[P1], FALSE)
  <2>1. PICK l, s, a, b, c, f, g, no :
          /\ l = life[P1] /\ s = srvLife[P1] /\ a = (P1 \in news) /\ b = (P1 \in hurt)
          /\ c = (P1 \in resReq) /\ f = rested[P1] /\ g = rested'[P1] /\ no = FALSE
    OBVIOUS
  <2>2. /\ Ledger(P1, n, y, l, s, a, b, c, f) /\ Pair(P1, P2, n, m, y, f, FALSE)
        /\ (g <=> f) \/ k.child = "actor"
    BY <1>9, <1>12, <1>13, <2>1
  <2>3. /\ Standing(k) /\ ~Standing(m) => n.descriptor = k.descriptor \/ Holds(y, Begins)
        /\ Ends2(P2, P1, m, e, k) => ~Holds(y, Reports(P2)) /\ (n.descriptor = NoMatch \/ no)
    BY <1>2 DEF SecondKnown
  <2>4. /\ P1 \in Players /\ P2 \in Players /\ P1 # P2
        /\ Facts(P2, P1, m, e, k, out) /\ Shape(P2, m) /\ Shape(P2, k) /\ Grown(y, y1, out, t)
    BY <1>6, <1>7, <1>11
  <2>5. Pair(P1, P2, n, k, y1, g, no)
    BY ONLY <2>2, <2>3, <2>4, PairOther, ZenonT(60)
  <2> QED BY <2>1, <2>5
<1>20. Tokens(P2, k, x1, w1, ready1 = <<P2>>)
  <2>1. PICK a : a = (ready1 = <<P2>>)
    OBVIOUS
  <2>2. Tokens(P2, m, x, w, a)
    BY <1>14, <2>1
  <2>3. x \in Seq(EventSet) /\ x # <<>> /\ e = Head(x)
    BY <1>1, <1>2
  <2> QED BY <1>6, <1>7, <2>1, <2>2, <2>3, TokensOwn
<1>21. Tokens(P1, n, y1, w1, ready1 = <<P1>>)
  <2>1. PICK a : a = (ready1 = <<P1>>)
    OBVIOUS
  <2>2. Tokens(P1, n, y, w, a)
    BY <1>14, <2>1
  <2> QED BY <1>6, <1>7, <1>10, <2>1, <2>2, TokensOther
<1>22. Together'
  <2>1. /\ n.descriptor # NoMatch /\ k.descriptor # NoMatch => n.descriptor = k.descriptor
        /\ ~(n.descriptor # NoMatch /\ k.descriptor = NoMatch)
        /\ ~(n.descriptor = NoMatch /\ k.descriptor # NoMatch)
    BY DEF SecondKnown
  <2> QED BY <1>4, <1>8, <2>1 DEF Together
<1>23. Shapes'
  BY <1>8, <1>11 DEF Shapes
<1>24. Ledgers'
  BY <1>5, <1>8, <1>9, <1>15, <1>18 DEF Ledgers, LedgerOf
<1>25. Pairs'
  <2>1. ~Left'
    BY <1>4 DEF Left
  <2>2. PICK gone : gone = Left'
    OBVIOUS
  <2>3. Pair(P2, P1, k, n, x1, rested[P2], gone)
    BY <1>16, <2>1, <2>2 DEF Pair
  <2> QED BY <1>5, <1>8, <1>9, <1>19, <2>2, <2>3 DEF Pairs
<1>26. RequestsOK'
  BY <1>5, <1>8, <1>9, <1>20, <1>21 DEF RequestsOK, IsListed
<1> QED BY <1>4, <1>8, <1>22, <1>23, <1>24, <1>25, <1>26

-----------------------------------------------------------------------------
(* While the second player is on its journey, neither begins anything.     *)

LEMMA HarmlessIs ==
  ASSUME NEW e \in Harmless, NEW q
  PROVE  e \notin Lives(q)
  BY DEF Harmless, Lives, EvOf

LEMMA RestsOn ==
  ASSUME NEW p \in Players, NEW o, NEW m \in Bot, NEW e \in Harmless, NEW k, NEW out,
         Moves(p, o, m, e, k, out), m.child = "none", rested[p], near[p], e \notin Reports(o)
  PROVE  k.child = "none"
<1> PICK yes, no : yes = TRUE /\ no = FALSE
  OBVIOUS
<1>1. e \notin Lives(p) /\ e \notin Lives(o)
  BY HarmlessIs
<1>2. /\ ~Hears(o, m, e, k, out) /\ ~Fights(o, m, e, k, out) /\ ~Takes(p, m, e, k, out)
      /\ ~Prepares(p, m, k, out) /\ ~Dies(p, m, e, k, out) /\ ~Wins(p, o, m, e, k, out)
      /\ ~Revives(p, m, e, k, out)
  BY <1>1 DEF Hears, Fights, Takes, Prepares, Dies, Wins, Revives
<1>3. CASE Stays(m, k, out)
  <2>1. Fields(k, m.initialized, m.descriptor, m.published, m.weAreReady,
               m.opponentIsReady, m.child, m.foe, m.fight)
    BY <1>3, MovesAre
  <2> QED BY <2>1 DEF Fields
<1>4. CASE Starts(p, m, k, out)
  <2>1. Fields(k, yes, m.descriptor, yes, no, no, m.child, m.foe, m.fight)
    BY <1>4, MovesAre
  <2> QED BY <2>1 DEF Fields
<1>5. CASE TakesReady(p, m, e, k, out)
  <2>1. Fields(k, m.initialized, e.about, no, yes, m.opponentIsReady, m.child, m.foe, m.fight)
    BY <1>5, MovesAre
  <2> QED BY <2>1 DEF Fields
<1> QED BY <1>2, <1>3, <1>4, <1>5 DEF Moves

LEMMA TravelsOn ==
  ASSUME NEW p \in Players, NEW o, NEW m \in Bot, NEW e \in Harmless, NEW k, NEW out,
         Moves(p, o, m, e, k, out), m.child \in {"none", "prepare"}, ~m.weAreReady,
         ~near[p] \/ (m.child = "prepare" /\ ~m.selfEntity)
  PROVE  /\ k.child \in {"none", "prepare"} /\ ~k.weAreReady
         /\ m.child = "prepare" => k.child = "prepare"
<1> PICK yes, no : yes = TRUE /\ no = FALSE
  OBVIOUS
<1>1. e \notin Lives(p) /\ e \notin Lives(o)
  BY HarmlessIs
<1>2. /\ ~Fights(o, m, e, k, out) /\ ~TakesReady(p, m, e, k, out)
      /\ ~Prepares(p, m, k, out) /\ ~Dies(p, m, e, k, out) /\ ~Wins(p, o, m, e, k, out)
      /\ ~Revives(p, m, e, k, out)
  BY <1>1 DEF Fights, TakesReady, Prepares, Dies, Wins, Revives, Standing
<1>3. CASE Stays(m, k, out)
  <2>1. Fields(k, m.initialized, m.descriptor, m.published, m.weAreReady,
               m.opponentIsReady, m.child, m.foe, m.fight)
    BY <1>3, MovesAre
  <2> QED BY <2>1 DEF Fields
<1>4. CASE Starts(p, m, k, out)
  <2>1. Fields(k, yes, m.descriptor, yes, no, no, m.child, m.foe, m.fight)
    BY <1>4, MovesAre
  <2> QED BY <2>1 DEF Fields
<1>5. CASE Hears(o, m, e, k, out)
  <2>1. Fields(k, m.initialized, m.descriptor, m.published, m.weAreReady, yes, m.child,
               m.foe, m.fight)
    BY <1>5, MovesAre
  <2> QED BY <2>1 DEF Fields
<1>6. CASE Takes(p, m, e, k, out)
  <2>1. Fields(k, m.initialized, e.about, no, m.weAreReady, m.opponentIsReady,
               IF m.child = "none" THEN "prepare" ELSE m.child, m.foe, m.fight)
    BY <1>6, MovesAre
  <2> QED BY <2>1 DEF Fields
<1> QED BY <1>2, <1>3, <1>4, <1>5, <1>6 DEF Moves

-----------------------------------------------------------------------------
(* The rest of the invariant after a delivery.                             *)

LEMMA StageIs ==
  ASSUME NEW p \in Players, NEW e \in EventSet, stage \in [Players -> {"in", "leaving", "reset", "loading", "entering"}]
  PROVE  /\ StageAfter(p, e) \in {"in", "leaving", "reset", "loading", "entering"}
         /\ e \in EvOf("GameReset", p) => StageAfter(p, e) = "loading"
         /\ e \in EvOf("SelfSpawned", p) => StageAfter(p, e) = "in"
         /\ e \notin EvOf("GameReset", p) /\ e \notin EvOf("SelfSpawned", p) => StageAfter(p, e) = stage[p]
<1>1. /\ e \in EvOf("GameReset", p) <=> Is(e, "GameReset", p)
      /\ e \in EvOf("SelfSpawned", p) <=> Is(e, "SelfSpawned", p)
      /\ ~(Is(e, "GameReset", p) /\ Is(e, "SelfSpawned", p))
  BY DEF EvOf, Is
<1>2. CASE Is(e, "GameReset", p)
  BY <1>1, <1>2 DEF StageAfter
<1>3. CASE Is(e, "SelfSpawned", p)
  BY <1>1, <1>3 DEF StageAfter
<1>4. CASE ~Is(e, "GameReset", p) /\ ~Is(e, "SelfSpawned", p)
  <2>1. StageAfter(p, e) = stage[p]
    BY <1>4 DEF StageAfter
  <2> QED BY <1>1, <1>4, <2>1
<1> QED BY <1>2, <1>3, <1>4

LEMMA TypedKept ==
  ASSUME Typed, NEW p \in Players, NEW o \in Players, NEW m, NEW e \in EventSet, NEW k \in Bot,
         NEW out, NEW z, Effect(p, o, m, e, k, out, z)
  PROVE  Typed' /\ NoErrors' /\ (Counted => Counted')
<1>1. /\ bots \in [Players -> Bot] /\ timers \subseteq TimerId /\ nextPvpId \in MatchId
      /\ ready \in {<<>>, <<P1>>, <<P2>>}
      /\ procSelf \in [Players -> BOOLEAN] /\ count \in [Players -> 0..2]
      /\ life \in [Players -> {"alive", "dead"}] /\ srvLife \in [Players -> {"alive", "dead"}]
      /\ near \in [Players -> BOOLEAN] /\ rested \in [Players -> BOOLEAN]
      /\ stage \in [Players -> {"in", "leaving", "reset", "loading", "entering"}]
      /\ sees \in [Players -> SUBSET Players]
      /\ news \subseteq Players /\ option \subseteq Players /\ warpReq \subseteq Players
      /\ resReq \subseteq Players /\ hurt \subseteq Players
  BY DEF Typed
<1>2. /\ bots' = [bots EXCEPT ![p] = k] /\ timers' \subseteq TimerId
      /\ stage' = [stage EXCEPT ![p] = StageAfter(p, e)]
      /\ warpReq' \subseteq warpReq \cup {p} /\ resReq' \subseteq resReq \cup {p}
      /\ hurt' \subseteq hurt \cup {o}
      /\ rested' = rested \/ rested' = [rested EXCEPT ![o] = FALSE]
      /\ errors' = {}
      /\ UNCHANGED <<ready, nextPvpId, procSelf, count, life, near, sees, srvLife, news, option>>
  BY DEF Effect
<1>3. bots' \in [Players -> Bot]
  BY <1>1, <1>2
<1>4. stage' \in [Players -> {"in", "leaving", "reset", "loading", "entering"}]
  BY <1>1, <1>2, StageIs
<1>5. rested' \in [Players -> BOOLEAN]
  BY <1>1, <1>2
<1>6. UNION {news', option', warpReq', resReq', hurt'} \subseteq Players
  BY <1>1, <1>2
<1>7. Typed'
  BY <1>1, <1>2, <1>3, <1>4, <1>5, <1>6 DEF Typed
<1>8. Counted => Counted'
  BY <1>2 DEF Counted
<1> QED BY <1>2, <1>7, <1>8 DEF NoErrors

(* Whoever waits for a timeout is still to hear it.                        *)
LEMMA AwaitsOwn ==
  ASSUME NEW p, NEW o, NEW m, NEW e, NEW k, NEW out, NEW z, NEW x \in Seq(EventSet), x # <<>>,
         e = Head(x), Effect(p, o, m, e, k, out, z), NEW x1,
         z = Tail(queue) => Grown(Tail(x), x1, out, NoTimer),
         m.child = "resurrect" /\ m.eventId # NoTimer =>
           m.eventId \in timers \/ Holds(x, EvOf("Timeout", m.eventId))
  PROVE  k.child = "resurrect" /\ k.eventId # NoTimer =>
           k.eventId \in timers' \/ Holds(x1, EvOf("Timeout", k.eventId))
<1>1. SUFFICES ASSUME k.child = "resurrect", k.eventId # NoTimer, k.eventId \notin timers'
               PROVE Holds(x1, EvOf("Timeout", k.eventId))
  OBVIOUS
<1>2. /\ m.child = "resurrect" /\ k.eventId = m.eventId /\ timers' = timers
      /\ z = Tail(queue) /\ ~Is(e, "Timeout", k.eventId)
  BY <1>1 DEF Effect
<1>3. PICK A : A = EvOf("Timeout", k.eventId)
  OBVIOUS
<1>4. Holds(x, A)
  BY <1>1, <1>2, <1>3
<1>5. e \notin A
  BY <1>2, <1>3 DEF EvOf, Is
<1>6. Holds(Tail(x), A)
  BY <1>4, <1>5, HeadTail
<1>7. A \in SUBSET EventSet /\ A \cap EvOf("Timeout", NoTimer) = {}
  BY <1>1, <1>3 DEF EvOf
<1>8. Holds(x1, A)
  BY <1>2, <1>6, <1>7 DEF Grown
<1> QED BY <1>3, <1>8

LEMMA AwaitsOther ==
  ASSUME NEW p \in Players, NEW o \in Players, o # p, NEW m, NEW e, NEW k, NEW n, NEW out, NEW z,
         Effect(p, o, m, e, k, out, z), Shape(p, m), Shape(o, n),
         NEW y, NEW y1, Grown(y, y1, out, m.eventId), Awaits(n, y)
  PROVE  n.child = "resurrect" /\ n.eventId # NoTimer =>
           n.eventId \in timers' \/ Holds(y1, EvOf("Timeout", n.eventId))
<1>1. SUFFICES ASSUME n.child = "resurrect", n.eventId # NoTimer
               PROVE n.eventId \in timers' \/ Holds(y1, EvOf("Timeout", n.eventId))
  OBVIOUS
<1>2. m.eventId # n.eventId
  <2>1. m.eventId = NoTimer \/ m.eventId[1] = p
    BY DEF Shape
  <2>2. n.eventId[1] = o
    BY <1>1 DEF Shape
  <2> QED BY <1>1, <2>1, <2>2
<1>3. CASE n.eventId \in timers
  BY <1>2, <1>3 DEF Effect
<1>4. CASE n.eventId \notin timers
  <2>1. PICK A, t : A = EvOf("Timeout", n.eventId) /\ t = m.eventId
    OBVIOUS
  <2>2. Holds(y, A)
    BY <1>1, <1>4, <2>1 DEF Awaits
  <2>3. A \in SUBSET EventSet /\ A \cap EvOf("Timeout", t) = {}
    BY <1>2, <2>1 DEF EvOf
  <2>4. Grown(y, y1, out, t)
    BY <2>1
  <2>5. Holds(y1, A)
    BY <2>2, <2>3, <2>4 DEF Grown
  <2> QED BY <2>1, <2>5
<1> QED BY <1>3, <1>4

(* How the events of the journey come along.                               *)
LEMMA GrownJourney ==
  ASSUME NEW y, NEW y1, NEW out, NEW t, Grown(y, y1, out, t), Within(out, Quiet),
         Within(out, OnJourney), Within(out, Harmless)
  PROVE  /\ Within(y, Quiet) => Within(y1, Quiet)
         /\ Within(y, OnJourney) => Within(y1, OnJourney)
         /\ Within(y, Harmless) => Within(y1, Harmless)
         /\ \A kind \in TravelKinds :
              /\ Holds(y1, Ev(kind)) <=> Holds(y, Ev(kind))
              /\ OnlyAfter(y, Ev(kind), Quiet) => OnlyAfter(y1, Ev(kind), Quiet)
<1>1. Quiet \in SUBSET EventSet /\ OnJourney \in SUBSET EventSet /\ Harmless \in SUBSET EventSet
  BY DEF Quiet, OnJourney, Harmless
<1>2. ASSUME NEW kind \in TravelKinds
      PROVE  /\ Holds(y1, Ev(kind)) <=> Holds(y, Ev(kind))
             /\ OnlyAfter(y, Ev(kind), Quiet) => OnlyAfter(y1, Ev(kind), Quiet)
  <2>1. Ev(kind) \in Plain
    BY PlainIs DEF TravelKinds
  <2>2. Quiet \cap Ev(kind) = {}
    BY DEF Quiet, Ev
  <2>3. ~Holds(out, Ev(kind))
    BY <2>2, Subsets
  <2>4. Holds(y1, Ev(kind)) <=> Holds(y, Ev(kind))
    BY <2>1, <2>3, WaitingIs
  <2>5. OnlyAfter(out, Ev(kind), Quiet)
    BY More
  <2>6. Ev(kind) \in SUBSET EventSet
    BY DEF Ev
  <2>7. OnlyAfter(y, Ev(kind), Quiet) => OnlyAfter(y1, Ev(kind), Quiet)
    BY <1>1, <2>5, <2>6 DEF Grown
  <2> QED BY <2>4, <2>7
<1>3. /\ Within(y, Quiet) => Within(y1, Quiet)
      /\ Within(y, OnJourney) => Within(y1, OnJourney)
      /\ Within(y, Harmless) => Within(y1, Harmless)
  BY <1>1 DEF Grown
<1> QED BY <1>2, <1>3

(* The first player's moves leave the journey alone.                       *)
LEMMA FirstKeepsJourney ==
  ASSUME MatchesInv, Turn(P1), NEW m, m = bots[P1], NEW e, e = Head(queue),
         NEW k \in Bot, NEW out \in Seq(EventSet), NEW z \in Seq(EventSet),
         Effect(P1, P2, m, e, k, out, z), NEW t, Grown(queue, queue', out, t),
         Within(out, Quiet), Within(out, OnJourney), Within(out, Harmless)
  PROVE  Placed(P1)' /\ Within(queue', OnJourney) /\ Journey'
<1>1. /\ queue \in Seq(EventSet) /\ queue # <<>> /\ QueueOK /\ e \in EventSet /\ Box1 = queue
      /\ \A A : (e \in A => Holds(queue, A)) /\ (Within(queue, A) => e \in A)
  BY FirstHears, Zenon
<1>2. /\ P1 \in Players /\ P2 \in Players /\ P1 # P2 /\ bots \in [Players -> Bot]
      /\ stage \in [Players -> {"in", "leaving", "reset", "loading", "entering"}]
      /\ Placed(P1) /\ Within(queue, OnJourney)
  BY PlayersAre DEF MatchesInv, Typed
<1>3. /\ bots'[P1] = k /\ bots'[P2] = bots[P2] /\ stage' = [stage EXCEPT ![P1] = StageAfter(P1, e)]
      /\ procSelf' = procSelf /\ near' = near /\ life' = life /\ news' = news /\ option' = option
      /\ warpReq' = warpReq
  BY <1>2 DEF Effect, Placed
<1>4. e \notin EvOf("GameReset", P1) /\ e \notin EvOf("SelfSpawned", P1)
  <2>1. e \in OnJourney
    BY <1>1, <1>2
  <2> QED BY <1>2, <2>1 DEF OnJourney, EvOf, TravelKinds
<1>5. stage' = stage
  <2>1. StageAfter(P1, e) = stage[P1]
    BY <1>1, <1>2, <1>4, StageIs
  <2> QED BY <1>2, <1>3, <2>1
<1>6. PICK x, y : x = queue /\ y = queue'
  OBVIOUS
<1>7. /\ Within(x, Quiet) => Within(y, Quiet)
      /\ Within(x, OnJourney) => Within(y, OnJourney)
      /\ Within(x, Harmless) => Within(y, Harmless)
      /\ \A kind \in TravelKinds :
           /\ Holds(y, Ev(kind)) <=> Holds(x, Ev(kind))
           /\ OnlyAfter(x, Ev(kind), Quiet) => OnlyAfter(y, Ev(kind), Quiet)
  <2>1. Grown(x, y, out, t)
    BY <1>6
  <2> QED BY <2>1, GrownJourney
<1>8. Placed(P1)'
  BY <1>2, <1>3, <1>5 DEF Placed, Effect
<1>9. Within(queue', OnJourney)
  BY <1>2, <1>6, <1>7
<1> SUFFICES Journey'
  BY <1>8, <1>9
<1>10. CASE Placed(P2) /\ Within(queue, Quiet)
  <2>1. Placed(P2)'
    BY <1>3, <1>5, <1>10 DEF Placed
  <2>2. Within(queue', Quiet)
    BY <1>6, <1>7, <1>10
  <2> QED BY <2>1, <2>2 DEF Journey
<1>11. CASE Calm /\ (Far \/ Leaving \/ Resetting \/ Loading \/ Entering)
  <2>1. /\ m.child = "none" /\ rested[P1] /\ near[P1] /\ e \in Harmless
        /\ bots[P2].child # "actor" /\ ~bots[P2].weAreReady
    BY <1>1, <1>2, <1>11 DEF Calm, Placed
  <2>2. e \notin Reports(P2)
    <3>1. ~Standing(bots[P2])
      BY <2>1 DEF Standing
    <3>2. ~Holds(queue, Reports(P2))
      BY <1>1, <3>1 DEF MatchesInv, Pairs, Pair
    <3> QED BY <1>1, <3>2
  <2>3. k.child = "none"
    <3>1. Moves(P1, P2, m, e, k, out) /\ m \in Bot
      BY <1>2 DEF Effect
    <3> QED BY <1>2, <2>1, <2>2, <3>1, RestsOn
  <2>4. hurt' = hurt /\ rested' = rested /\ resReq' = resReq
    BY <2>3 DEF Effect
  <2>5. Calm'
    <3>1. Within(y, Harmless)
      BY <1>6, <1>7, <1>11 DEF Calm
    <3> QED BY <1>3, <1>6, <1>11, <2>3, <2>4, <3>1 DEF Calm
  <2>6. Travelling => Travelling'
    BY <1>3 DEF Travelling
  <2>7. CASE Far
    <3>1. Far'
      BY <1>3, <1>5, <1>6, <1>7, <2>7 DEF Far
    <3> QED BY <2>5, <3>1 DEF Journey
  <2>8. CASE Leaving
    <3>1. Leaving'
      BY <1>3, <1>5, <1>6, <1>7, <2>6, <2>8 DEF Leaving
    <3> QED BY <2>5, <3>1 DEF Journey
  <2>9. CASE Resetting
    <3>1. /\ Holds(y, Ev("GameReset")) /\ OnlyAfter(y, Ev("GameReset"), Quiet)
          /\ ~Holds(y, Ev("SelfSpawned")) /\ ~Holds(y, Ev("EntitySpawned"))
          /\ bots[P2].selfEntity => Holds(y, Ev("EntityDespawned"))
      BY <1>6, <1>7, <2>9 DEF Resetting, TravelKinds
    <3>2. Resetting'
      BY <1>3, <1>5, <1>6, <2>6, <2>9, <3>1 DEF Resetting
    <3> QED BY <2>5, <3>2 DEF Journey
  <2>10. CASE Loading
    <3>1. Loading'
      BY <1>3, <1>5, <1>6, <1>7, <2>6, <2>10 DEF Loading
    <3> QED BY <2>5, <3>1 DEF Journey
  <2>11. CASE Entering
    <3>1. /\ Holds(y, Ev("SelfSpawned")) /\ OnlyAfter(y, Ev("SelfSpawned"), Quiet)
          /\ ~Holds(y, Ev("GameReset")) /\ ~Holds(y, Ev("EntityDespawned"))
      BY <1>6, <1>7, <2>11 DEF Entering, TravelKinds
    <3>2. Entering'
      BY <1>3, <1>5, <1>6, <2>6, <2>11, <3>1 DEF Entering
    <3> QED BY <2>5, <3>2 DEF Journey
  <2> QED BY <1>11, <2>7, <2>8, <2>9, <2>10, <2>11
<1> QED BY <1>10, <1>11 DEF MatchesInv, Journey

(* The opponent that the first player keeps.                               *)
LEMMA FirstKeepsOpponent ==
  ASSUME MatchesInv, Turn(P1), NEW m, m = bots[P1], NEW e, e = Head(queue),
         NEW k \in Bot, NEW out \in Seq(EventSet), NEW z \in Seq(EventSet),
         Effect(P1, P2, m, e, k, out, z), NEW t, Grown(Tail(queue), Box1', out, t),
         Facts(P1, P2, m, e, k, out)
  PROVE  Opponents'
<1>1. /\ queue \in Seq(EventSet) /\ queue # <<>> /\ QueueOK /\ e \in EventSet /\ Box1 = queue
      /\ \A A : (e \in A => Holds(queue, A)) /\ (Within(queue, A) => e \in A)
  BY FirstHears, Zenon
<1>2. /\ P1 \in Players /\ P2 \in Players /\ P1 # P2 /\ P2 # Nobody /\ bots \in [Players -> Bot]
      /\ stage \in [Players -> {"in", "leaving", "reset", "loading", "entering"}]
      /\ Shape(P1, m)
  BY PlayersAre DEF MatchesInv, Typed, Shapes
<1>3. /\ bots'[P1] = k /\ bots'[P2] = bots[P2] /\ stage'[P2] = stage[P2]
  BY <1>2 DEF Effect
<1>4. ASSUME k.descriptor # NoMatch, k.opponent = Nobody
      PROVE  stage[P2] \in {"reset", "loading"} \/ Holds(Box1', Ev("EntitySpawned"))
  <2>1. e \in Begins => m.initialized
    BY <1>2 DEF Facts, Shape, Asking
  <2>2. e \notin Begins
    BY <1>2, <1>4, <2>1 DEF Effect, Knows
  <2>3. m.descriptor # NoMatch /\ m.initialized
    BY <1>2, <1>4, <2>2 DEF Facts, Ends2, Shape
  <2>4. e \in Ev("EntitySpawned") => e.about = P2
    BY <1>1 DEF MatchesInv, OnJourney, Ev, TravelKinds
  <2>5. m.opponent \in {Nobody, P2}
    BY <1>2, PlayersAre DEF Shape
  <2>6. CASE m.opponent = P2
    <3>1. e \in Ev("EntityDespawned")
      BY <1>1, <1>2, <1>4, <2>6 DEF Effect, Knows, Ev
    <3>2. Holds(queue, Ev("EntityDespawned")) /\ e \notin Quiet
      BY <1>1, <3>1 DEF Ev, Quiet, TravelKinds
    <3>3. ~Within(queue, Quiet)
      BY <1>1, <3>2
    <3> QED BY <3>2, <3>3 DEF MatchesInv, Journey, Far, Leaving, Resetting, Loading, Entering
  <2>7. CASE m.opponent = Nobody
    <3>1. e \notin Ev("EntitySpawned")
      <4>1. e \in Ev("EntitySpawned") => e.kind = "EntitySpawned"
        BY DEF Ev
      <4> QED BY <1>2, <1>4, <2>3, <2>4, <4>1 DEF Effect, Knows
    <3>2. CASE stage[P2] \in {"reset", "loading"}
      BY <3>2
    <3>3. CASE stage[P2] \notin {"reset", "loading"}
      <4>1. Holds(queue, Ev("EntitySpawned"))
        BY <1>1, <2>3, <2>7, <3>3 DEF MatchesInv, Opponents
      <4>2. Holds(Tail(queue), Ev("EntitySpawned"))
        BY <1>1, <3>1, <4>1, HeadTail
      <4>3. Ev("EntitySpawned") \in Plain
        BY PlainIs
      <4>4. PICK y : y = Box1'
        OBVIOUS
      <4>5. Holds(y, Ev("EntitySpawned"))
        BY <4>2, <4>3, <4>4, WaitingIs
      <4> QED BY <4>4, <4>5
    <3> QED BY <3>2, <3>3
  <2> QED BY <2>5, <2>6, <2>7
<1> QED BY <1>3, <1>4 DEF MatchesInv, Opponents

LEMMA FirstKeepsWaits ==
  ASSUME MatchesInv, Turn(P1), NEW m, m = bots[P1], NEW e, e = Head(queue),
         NEW k \in Bot, NEW out \in Seq(EventSet), NEW z \in Seq(EventSet),
         Effect(P1, P2, m, e, k, out, z), Spares(Tail(queue), z, m.eventId)
  PROVE  Waits'
<1>1. queue \in Seq(EventSet) /\ queue # <<>> /\ QueueOK /\ Box1 = queue
  BY FirstHears, Zenon
<1>2. P1 \in Players /\ P2 \in Players /\ P1 # P2 /\ bots \in [Players -> Bot]
  BY PlayersAre DEF MatchesInv, Typed
<1>3. PICK n, x, t, none, x1, y1 :
        n = bots[P2] /\ x = queue /\ t = m.eventId /\ none = NoTimer /\ x1 = Box1' /\ y1 = queue'
  OBVIOUS
<1>4. bots'[P1] = k /\ bots'[P2] = n
  BY <1>2, <1>3 DEF Effect
<1>5. EndTurn((<<Head(queue)>> \o z) \o out)
  BY DEF Effect
<1>6. z = Tail(x) => Grown(Tail(x), x1, out, NoTimer)
  <2>1. SUFFICES ASSUME z = Tail(queue) PROVE Grown(Tail(queue), Box1', out, none)
    BY <1>3
  <2>2. Spares(Tail(queue), z, none)
    BY <2>1, SparesNone
  <2> QED BY <1>1, <1>5, <2>2, FirstBoxes
<1>7. Grown(x, y1, out, t)
  BY <1>1, <1>3, <1>5, FirstBoxes
<1>8. Awaits(m, x) /\ Awaits(n, x)
  BY <1>1, <1>3 DEF MatchesInv, Waits
<1>9. Shape(P1, m) /\ Shape(P2, n)
  BY <1>3 DEF MatchesInv, Shapes
<1>10. k.child = "resurrect" /\ k.eventId # NoTimer =>
         k.eventId \in timers' \/ Holds(x1, EvOf("Timeout", k.eventId))
  <2>1. /\ x \in Seq(EventSet) /\ x # <<>> /\ e = Head(x)
        /\ z = Tail(queue) => Grown(Tail(x), x1, out, NoTimer)
        /\ m.child = "resurrect" /\ m.eventId # NoTimer =>
             m.eventId \in timers \/ Holds(x, EvOf("Timeout", m.eventId))
    BY <1>1, <1>3, <1>6, <1>8 DEF Awaits
  <2>2. Effect(P1, P2, m, e, k, out, z)
    OBVIOUS
  <2> QED BY ONLY <2>1, <2>2, AwaitsOwn
<1>11. n.child = "resurrect" /\ n.eventId # NoTimer =>
         n.eventId \in timers' \/ Holds(y1, EvOf("Timeout", n.eventId))
  BY <1>2, <1>3, <1>7, <1>8, <1>9, AwaitsOther
<1> QED BY <1>3, <1>4, <1>10, <1>11 DEF Waits, Awaits

LEMMA FirstDelivers ==
  ASSUME MatchesInv, DeliverToBot(P1)
  PROVE  MatchesInv'
<1>1. P1 \in Players /\ P2 \in Players /\ P2 # P1 /\ P2 = Opponent(P1) /\ bots \in [Players -> Bot]
  BY PlayersAre DEF MatchesInv, Typed
<1>2. Turn(P1)
  BY DEF DeliverToBot
<1>3. PICK e, m, n : e = Head(queue) /\ m = bots[P1] /\ n = bots[P2]
  OBVIOUS
<1>4. SelfTracked(P1, e) = m /\ Fit(P1, P2, m, e)
  BY <1>2, <1>3, FirstFits
<1>5. PICK k \in Bot, out \in Seq(EventSet), z \in Seq(EventSet) :
        Effect(P1, P2, m, e, k, out, z) /\ Spares(Tail(queue), z, m.eventId)
  BY <1>1, <1>3, <1>4, DeliverIs
<1>6. Mover(P1, P2, m, e, k, out)
  BY <1>3, <1>4, <1>5 DEF Mover, Effect, MatchesInv, Shapes
<1>7. Facts(P1, P2, m, e, k, out) /\ FirstKnown(m, n, e, k)
  BY <1>2, <1>3, <1>6, FirstKnows
<1>8. /\ QueueOK' /\ Shapes' /\ Ledgers' /\ Pairs' /\ RequestsOK' /\ Together'
      /\ bots'[P1] = k /\ bots'[P2] = n
  BY <1>2, <1>3, <1>5, <1>7, FirstKeepsPairs
<1>9. Within(out, Quiet) /\ Within(out, OnJourney) /\ Within(out, Harmless)
  BY <1>1, <1>7, OutIs
<1>10. PICK t : t = m.eventId
  OBVIOUS
<1>11. Grown(Tail(queue), Box1', out, t) /\ Grown(queue, queue', out, t)
  <2>1. QueueOK /\ Spares(Tail(queue), z, t) /\ EndTurn((<<Head(queue)>> \o z) \o out)
    BY <1>3, <1>5, <1>10 DEF MatchesInv, Effect
  <2> QED BY <1>2, <2>1, FirstBoxes
<1>12. Placed(P1)' /\ Within(queue', OnJourney) /\ Journey'
  BY <1>2, <1>3, <1>5, <1>9, <1>11, FirstKeepsJourney
<1>13. Opponents'
  BY <1>2, <1>3, <1>5, <1>7, <1>11, FirstKeepsOpponent
<1>14. Waits'
  BY <1>2, <1>3, <1>5, FirstKeepsWaits
<1>15. Typed' /\ NoErrors' /\ Counted'
  BY <1>1, <1>4, <1>5, TypedKept DEF MatchesInv, Fit
<1>16. (bots[P2].child = "actor" => reports = 0)'
  BY <1>1, <1>3, <1>5, <1>8 DEF MatchesInv, Effect
<1> QED BY <1>8, <1>12, <1>13, <1>14, <1>15, <1>16 DEF MatchesInv

(* The second player's moves on its journey.                               *)
LEMMA HeardJourney ==
  ASSUME NEW x \in Seq(EventSet), x # <<>>, NEW x1, NEW out, NEW t, Grown(Tail(x), x1, out, t),
         Within(out, Quiet), Within(out, OnJourney), Within(out, Harmless)
  PROVE  /\ Within(x, Quiet) => Within(x1, Quiet)
         /\ Within(x, OnJourney) => Within(x1, OnJourney)
         /\ Within(x, Harmless) => Within(x1, Harmless)
         /\ \A kind \in TravelKinds :
              /\ Holds(x, Ev(kind)) <=> (Head(x) \in Ev(kind) \/ Holds(x1, Ev(kind)))
              /\ OnlyAfter(x, Ev(kind), Quiet) =>
                   OnlyAfter(x1, Ev(kind), Quiet) /\ (Head(x) \in Ev(kind) => Within(x1, Quiet))
<1> PICK y : y = Tail(x)
  OBVIOUS
<1>1. /\ Within(y, Quiet) => Within(x1, Quiet)
      /\ Within(y, OnJourney) => Within(x1, OnJourney)
      /\ Within(y, Harmless) => Within(x1, Harmless)
      /\ \A kind \in TravelKinds :
           /\ Holds(x1, Ev(kind)) <=> Holds(y, Ev(kind))
           /\ OnlyAfter(y, Ev(kind), Quiet) => OnlyAfter(x1, Ev(kind), Quiet)
  <2>1. Grown(y, x1, out, t)
    OBVIOUS
  <2> QED BY <2>1, GrownJourney
<1>2. \A A, B :
        /\ Holds(x, A) <=> (Head(x) \in A \/ Holds(y, A))
        /\ Within(x, A) <=> (Head(x) \in A /\ Within(y, A))
        /\ OnlyAfter(x, A, B) <=> (OnlyAfter(y, A, B) /\ (Head(x) \in A => Within(y, B)))
  BY HeadTail
<1> QED BY <1>1, <1>2

LEMMA TrackedIs ==
  ASSUME NEW e \in EventSet, bots[P2] \in Bot, NEW m, m = SelfTracked(P2, e)
  PROVE  /\ m \in Bot /\ Same(bots[P2], m) /\ m.opponent = bots[P2].opponent
         /\ m.eventId = bots[P2].eventId
         /\ e \in EvOf("SelfSpawned", P2) => m.selfEntity
         /\ e \in EvOf("EntityDespawned", P2) => ~m.selfEntity
         /\ e \notin EvOf("SelfSpawned", P2) /\ e \notin EvOf("EntityDespawned", P2) => m = bots[P2]
<1>1. /\ Is(e, "SelfSpawned", P2) <=> e \in EvOf("SelfSpawned", P2)
      /\ Is(e, "EntityDespawned", P2) <=> e \in EvOf("EntityDespawned", P2)
  BY DEF Is, EvOf
<1> QED BY <1>1, SelfTrackedIs, PlayersAre

LEMMA SecondKeepsJourney ==
  ASSUME MatchesInv, Turn(P2), NEW e, e = Head(queue), NEW m, m = SelfTracked(P2, e),
         NEW k \in Bot, NEW out \in Seq(EventSet), NEW z \in Seq(EventSet),
         Effect(P2, P1, m, e, k, out, z), NEW t, Grown(Tail(queue), queue', out, t),
         Within(out, Quiet), Within(out, OnJourney), Within(out, Harmless)
  PROVE  Placed(P1)' /\ Within(queue', OnJourney) /\ Journey'
<1>1. /\ queue \in Seq(EventSet) /\ queue # <<>> /\ QueueOK /\ e \in EventSet
      /\ \A A : (e \in A => Holds(queue, A)) /\ (Within(queue, A) => e \in A)
  BY SecondHears, Zenon
<1>2. /\ P1 \in Players /\ P2 \in Players /\ P1 # P2 /\ bots \in [Players -> Bot]
      /\ stage \in [Players -> {"in", "leaving", "reset", "loading", "entering"}]
      /\ Placed(P1) /\ Within(queue, OnJourney) /\ warpReq \subseteq Players
  BY PlayersAre DEF MatchesInv, Typed
<1>3. /\ bots'[P2] = k /\ bots'[P1] = bots[P1] /\ k.selfEntity = m.selfEntity
      /\ stage'[P1] = stage[P1] /\ stage'[P2] = StageAfter(P2, e)
      /\ procSelf' = procSelf /\ near' = near /\ life' = life /\ news' = news /\ option' = option
      /\ \/ warpReq' = warpReq
         \/ warpReq' = warpReq \cup {P2} /\ stage[P2] = "in" /\ ~near[P2] /\ k.child = "prepare"
  BY <1>2 DEF Effect
<1>4. /\ Same(bots[P2], m) /\ m \in Bot
      /\ e \in EvOf("SelfSpawned", P2) => m.selfEntity
      /\ e \in EvOf("EntityDespawned", P2) => ~m.selfEntity
      /\ e \notin EvOf("SelfSpawned", P2) /\ e \notin EvOf("EntityDespawned", P2) => m = bots[P2]
  BY <1>1, <1>2, TrackedIs
<1>5. /\ e \in EvOf("GameReset", P2) => StageAfter(P2, e) = "loading"
      /\ e \in EvOf("SelfSpawned", P2) => StageAfter(P2, e) = "in"
      /\ e \notin EvOf("GameReset", P2) /\ e \notin EvOf("SelfSpawned", P2) => StageAfter(P2, e) = stage[P2]
  BY <1>1, <1>2, StageIs
<1>6. \A kind \in TravelKinds : e \in Ev(kind) <=> e \in EvOf(kind, P2)
  <2>1. e \in OnJourney
    BY <1>1, <1>2
  <2> QED BY <2>1 DEF OnJourney, Ev, EvOf
<1>7. e \in Quiet => \A kind \in TravelKinds : e \notin Ev(kind)
  BY DEF Quiet, Ev
<1>8. /\ "GameReset" \in TravelKinds /\ "SelfSpawned" \in TravelKinds
      /\ "EntityDespawned" \in TravelKinds /\ "EntitySpawned" \in TravelKinds
  BY DEF TravelKinds
<1>9. \A kind, other : e \in Ev(kind) /\ e \in Ev(other) => kind = other
  BY DEF Ev
<1>10. PICK x, y : x = queue /\ y = queue'
  OBVIOUS
<1>11. /\ Within(x, Quiet) => Within(y, Quiet)
       /\ Within(x, OnJourney) => Within(y, OnJourney)
       /\ Within(x, Harmless) => Within(y, Harmless)
       /\ \A kind \in TravelKinds :
            /\ Holds(x, Ev(kind)) <=> (e \in Ev(kind) \/ Holds(y, Ev(kind)))
            /\ OnlyAfter(x, Ev(kind), Quiet) =>
                 OnlyAfter(y, Ev(kind), Quiet) /\ (e \in Ev(kind) => Within(y, Quiet))
  <2>1. x \in Seq(EventSet) /\ x # <<>> /\ Grown(Tail(x), y, out, t) /\ e = Head(x)
    BY <1>1, <1>10
  <2> QED BY <2>1, HeardJourney
<1>12. Placed(P1)'
  BY <1>2, <1>3 DEF Placed
<1>13. Within(queue', OnJourney)
  BY <1>2, <1>10, <1>11
<1> SUFFICES Journey'
  BY <1>12, <1>13
<1>14. CASE Placed(P2) /\ Within(queue, Quiet)
  <2>1. e \in Quiet
    BY <1>1, <1>14
  <2>2. m = bots[P2] /\ stage'[P2] = stage[P2]
    BY <1>3, <1>4, <1>5, <1>6, <1>7, <1>8, <2>1
  <2>3. Placed(P2)'
    BY <1>3, <1>14, <2>2 DEF Placed
  <2>4. Within(queue', Quiet)
    BY <1>10, <1>11, <1>14
  <2> QED BY <2>3, <2>4 DEF Journey
<1>15. CASE Calm /\ Entering /\ e \in EvOf("SelfSpawned", P2)
  <2>1. Within(y, Quiet)
    BY <1>6, <1>8, <1>10, <1>11, <1>15 DEF Entering
  <2>2. warpReq' = {}
    BY <1>3, <1>15 DEF Entering, Travelling
  <2>3. Placed(P2)'
    BY <1>3, <1>4, <1>5, <1>15, <2>2 DEF Placed, Entering
  <2> QED BY <1>10, <2>1, <2>3 DEF Journey
<1>16. CASE /\ Calm /\ (Far \/ Leaving \/ Resetting \/ Loading \/ Entering)
            /\ ~(Entering /\ e \in EvOf("SelfSpawned", P2))
  <2>1. /\ m.child \in {"none", "prepare"} /\ ~m.weAreReady /\ e \in Harmless
        /\ m.child = bots[P2].child
    BY <1>1, <1>4, <1>16 DEF Calm, Same
  <2>2. ~near[P2] \/ (m.child = "prepare" /\ ~m.selfEntity)
    <3>1. Entering => m = bots[P2]
      BY <1>1, <1>4, <1>6, <1>8, <1>16 DEF Entering
    <3> QED BY <1>16, <3>1 DEF Far, Leaving, Resetting, Loading, Entering, Travelling
  <2>3. /\ k.child \in {"none", "prepare"} /\ ~k.weAreReady
        /\ m.child = "prepare" => k.child = "prepare"
    <3>1. Moves(P2, P1, m, e, k, out)
      BY DEF Effect
    <3> QED BY <1>2, <1>4, <2>1, <2>2, <3>1, TravelsOn
  <2>4. hurt' = hurt /\ rested' = rested /\ resReq' = resReq
    BY <2>3 DEF Effect
  <2>5. Calm'
    <3>1. Within(y, Harmless)
      BY <1>10, <1>11, <1>16 DEF Calm
    <3> QED BY <1>3, <1>10, <1>16, <2>3, <2>4, <3>1 DEF Calm
  <2>6. Travelling /\ stage[P2] # "in" => Travelling'
    BY <1>3, <2>1, <2>3 DEF Travelling
  <2>7. CASE Far
    <3>1. e \in Quiet
      BY <1>1, <2>7 DEF Far
    <3>2. m = bots[P2] /\ stage'[P2] = stage[P2]
      BY <1>3, <1>4, <1>5, <1>6, <1>7, <1>8, <3>1
    <3>3. warpReq' # {} => k.child = "prepare"
      BY <1>3, <2>1, <2>3, <2>7 DEF Far
    <3>4. Far'
      BY <1>2, <1>3, <1>10, <1>11, <2>7, <3>2, <3>3 DEF Far
    <3> QED BY <2>5, <3>4 DEF Journey
  <2>8. CASE Leaving
    <3>1. e \in Quiet
      BY <1>1, <2>8 DEF Leaving
    <3>2. m = bots[P2] /\ stage'[P2] = stage[P2]
      BY <1>3, <1>4, <1>5, <1>6, <1>7, <1>8, <3>1
    <3>3. Leaving'
      BY <1>3, <1>10, <1>11, <2>6, <2>8, <3>2 DEF Leaving
    <3> QED BY <2>5, <3>3 DEF Journey
  <2>9. CASE Resetting /\ e \in EvOf("GameReset", P2)
    <3>1. Within(y, Quiet)
      BY <1>6, <1>8, <1>10, <1>11, <2>9 DEF Resetting
    <3>2. ~Holds(y, Ev("EntityDespawned"))
      <4>1. Quiet \cap Ev("EntityDespawned") = {}
        BY <1>8 DEF Quiet, Ev
      <4> QED BY <3>1, <4>1, Subsets
    <3>3. e \notin Ev("EntityDespawned") /\ e \notin Ev("SelfSpawned")
      BY <1>6, <1>8, <1>9, <2>9
    <3>4. ~bots[P2].selfEntity
      BY <1>8, <1>10, <1>11, <2>9, <3>2, <3>3 DEF Resetting
    <3>5. m = bots[P2] /\ stage'[P2] = "loading"
      BY <1>3, <1>4, <1>5, <1>6, <1>8, <2>9, <3>3
    <3>6. Loading'
      BY <1>3, <1>10, <2>6, <2>9, <3>1, <3>4, <3>5 DEF Loading, Resetting
    <3> QED BY <2>5, <3>6 DEF Journey
  <2>10. CASE Resetting /\ e \notin EvOf("GameReset", P2)
    <3>1. e \notin Ev("SelfSpawned") /\ e \notin Ev("EntitySpawned") /\ e \notin Ev("GameReset")
      BY <1>1, <1>6, <1>8, <2>10 DEF Resetting
    <3>2. /\ Holds(y, Ev("GameReset")) /\ OnlyAfter(y, Ev("GameReset"), Quiet)
          /\ ~Holds(y, Ev("SelfSpawned")) /\ ~Holds(y, Ev("EntitySpawned"))
      BY <1>8, <1>10, <1>11, <2>10, <3>1 DEF Resetting
    <3>3. k.selfEntity => Holds(y, Ev("EntityDespawned"))
      <4>1. CASE e \in Ev("EntityDespawned")
        BY <1>3, <1>4, <1>6, <1>8, <4>1
      <4>2. CASE e \notin Ev("EntityDespawned")
        <5>1. m = bots[P2]
          BY <1>4, <1>6, <1>8, <3>1, <4>2
        <5> QED BY <1>3, <1>8, <1>10, <1>11, <2>10, <4>2, <5>1 DEF Resetting
      <4> QED BY <4>1, <4>2
    <3>4. stage'[P2] = "reset"
      BY <1>3, <1>5, <1>6, <1>8, <2>10, <3>1 DEF Resetting
    <3>5. Resetting'
      BY <1>3, <1>10, <2>6, <2>10, <3>2, <3>3, <3>4 DEF Resetting
    <3> QED BY <2>5, <3>5 DEF Journey
  <2>11. CASE Loading
    <3>1. e \in Quiet
      BY <1>1, <2>11 DEF Loading
    <3>2. m = bots[P2] /\ stage'[P2] = stage[P2]
      BY <1>3, <1>4, <1>5, <1>6, <1>7, <1>8, <3>1
    <3>3. Loading'
      BY <1>3, <1>10, <1>11, <2>6, <2>11, <3>2 DEF Loading
    <3> QED BY <2>5, <3>3 DEF Journey
  <2>12. CASE Entering
    <3>1. e \notin Ev("SelfSpawned") /\ e \notin Ev("GameReset") /\ e \notin Ev("EntityDespawned")
      BY <1>1, <1>6, <1>8, <1>16, <2>12 DEF Entering
    <3>2. m = bots[P2] /\ stage'[P2] = stage[P2]
      BY <1>3, <1>4, <1>5, <1>6, <1>8, <3>1
    <3>3. /\ Holds(y, Ev("SelfSpawned")) /\ OnlyAfter(y, Ev("SelfSpawned"), Quiet)
          /\ ~Holds(y, Ev("GameReset")) /\ ~Holds(y, Ev("EntityDespawned"))
      BY <1>8, <1>10, <1>11, <2>12, <3>1 DEF Entering
    <3>4. Entering'
      BY <1>3, <1>10, <2>6, <2>12, <3>2, <3>3 DEF Entering
    <3> QED BY <2>5, <3>4 DEF Journey
  <2> QED BY <1>16, <2>7, <2>8, <2>9, <2>10, <2>11, <2>12
<1> QED BY <1>14, <1>15, <1>16 DEF MatchesInv, Journey

LEMMA SecondKeepsOpponent ==
  ASSUME MatchesInv, Turn(P2), NEW e, e = Head(queue), NEW m, m = SelfTracked(P2, e),
         NEW k \in Bot, NEW out \in Seq(EventSet), NEW z \in Seq(EventSet),
         Effect(P2, P1, m, e, k, out, z), NEW t, Grown(Box1, Box1', out, t),
         Facts(P2, P1, m, e, k, out)
  PROVE  Opponents'
<1>1. /\ queue \in Seq(EventSet) /\ queue # <<>> /\ QueueOK /\ e \in EventSet
      /\ \A A : (e \in A => Holds(queue, A)) /\ (Within(queue, A) => e \in A)
  BY SecondHears, Zenon
<1>2. /\ P1 \in Players /\ P2 \in Players /\ P1 # P2 /\ P1 # Nobody /\ bots \in [Players -> Bot]
      /\ stage \in [Players -> {"in", "leaving", "reset", "loading", "entering"}]
  BY PlayersAre DEF MatchesInv, Typed
<1>3. /\ bots'[P2] = k /\ bots'[P1] = bots[P1] /\ stage'[P2] = StageAfter(P2, e)
  BY <1>2 DEF Effect
<1>4. Same(bots[P2], m) /\ m \in Bot /\ m.opponent = bots[P2].opponent
  BY <1>1, <1>2, TrackedIs
<1>5. k.descriptor # NoMatch => k.opponent = P1
  <2>1. SUFFICES ASSUME k.descriptor # NoMatch PROVE k.opponent = P1
    OBVIOUS
  <2>2. Shape(P2, bots[P2])
    BY DEF MatchesInv, Shapes
  <2>3. CASE e \in Begins
    <3>1. m.initialized
      BY <1>4, <2>2, <2>3 DEF Facts, Shape, Asking, Same
    <3> QED BY <2>3, <3>1 DEF Effect, Knows
  <2>4. CASE e \notin Begins
    <3>1. m.descriptor # NoMatch
      BY <2>1, <2>4 DEF Facts, Ends2
    <3>2. m.opponent = P1
      BY <1>4, <3>1 DEF MatchesInv, Opponents, Same
    <3>3. ~(e.kind = "EntityDespawned" /\ e.about = P1)
      BY <1>1, <1>2 DEF MatchesInv, OnJourney, TravelKinds
    <3> QED BY <3>2, <3>3 DEF Effect, Knows
  <2> QED BY <2>3, <2>4
<1>6. stage[P2] \in {"reset", "loading"} => stage'[P2] \in {"reset", "loading"}
  <2>1. SUFFICES ASSUME stage[P2] \in {"reset", "loading"} PROVE StageAfter(P2, e) \in {"reset", "loading"}
    BY <1>3
  <2>2. Resetting \/ Loading
    BY <2>1 DEF MatchesInv, Journey, Placed, Far, Leaving, Entering
  <2>3. e \notin EvOf("SelfSpawned", P2)
    <3>1. e \in EvOf("SelfSpawned", P2) => e \in Ev("SelfSpawned") /\ e \notin Quiet
      BY DEF Ev, EvOf, Quiet, TravelKinds
    <3> QED BY <1>1, <2>2, <3>1 DEF Resetting, Loading
  <2> QED BY <1>1, <1>2, <2>1, <2>3, StageIs
<1>7. Holds(Box1, Ev("EntitySpawned")) => Holds(Box1', Ev("EntitySpawned"))
  <2>1. Ev("EntitySpawned") \in Plain
    BY PlainIs
  <2>2. PICK y, y1 : y = Box1 /\ y1 = Box1'
    OBVIOUS
  <2>3. Grown(y, y1, out, t)
    BY <2>2
  <2>4. Holds(y, Ev("EntitySpawned")) => Holds(y1, Ev("EntitySpawned"))
    BY <2>1, <2>3, WaitingIs
  <2> QED BY <2>2, <2>4
<1> QED BY <1>3, <1>5, <1>6, <1>7 DEF MatchesInv, Opponents

LEMMA SecondKeepsWaits ==
  ASSUME MatchesInv, Turn(P2), NEW e, e = Head(queue), NEW m, m = SelfTracked(P2, e),
         NEW k \in Bot, NEW out \in Seq(EventSet), NEW z \in Seq(EventSet),
         Effect(P2, P1, m, e, k, out, z), Shape(P2, m), Spares(Tail(queue), z, m.eventId)
  PROVE  Waits'
<1>1. queue \in Seq(EventSet) /\ queue # <<>> /\ QueueOK /\ e \in EventSet
  BY SecondHears, Zenon
<1>2. P1 \in Players /\ P2 \in Players /\ P1 # P2 /\ bots \in [Players -> Bot]
  BY PlayersAre DEF MatchesInv, Typed
<1>3. PICK n, x, y, t, none, x1, y1 :
        /\ n = bots[P1] /\ x = queue /\ y = Box1 /\ t = m.eventId /\ none = NoTimer
        /\ x1 = queue' /\ y1 = Box1'
  OBVIOUS
<1>4. bots'[P2] = k /\ bots'[P1] = n
  BY <1>2, <1>3 DEF Effect
<1>5. EndTurn((<<Head(queue)>> \o z) \o out)
  BY DEF Effect
<1>6. z = Tail(x) => Grown(Tail(x), x1, out, NoTimer)
  <2>1. SUFFICES ASSUME z = Tail(queue) PROVE Grown(Tail(queue), queue', out, none)
    BY <1>3
  <2>2. Spares(Tail(queue), z, none)
    BY <2>1, SparesNone
  <2> QED BY <1>1, <1>5, <2>2, SecondBoxes
<1>7. Grown(y, y1, out, t)
  BY <1>1, <1>3, <1>5, SecondBoxes
<1>8. Awaits(m, x) /\ Awaits(n, y)
  <2>1. Awaits(bots[P2], x) /\ Awaits(n, y)
    BY <1>3 DEF MatchesInv, Waits
  <2>2. m.child = bots[P2].child /\ m.eventId = bots[P2].eventId
    BY <1>1, <1>2, TrackedIs DEF Same
  <2> QED BY <2>1, <2>2 DEF Awaits
<1>9. Shape(P1, n)
  BY <1>3 DEF MatchesInv, Shapes
<1>10. k.child = "resurrect" /\ k.eventId # NoTimer =>
         k.eventId \in timers' \/ Holds(x1, EvOf("Timeout", k.eventId))
  <2>1. /\ x \in Seq(EventSet) /\ x # <<>> /\ e = Head(x)
        /\ z = Tail(queue) => Grown(Tail(x), x1, out, NoTimer)
        /\ m.child = "resurrect" /\ m.eventId # NoTimer =>
             m.eventId \in timers \/ Holds(x, EvOf("Timeout", m.eventId))
    BY <1>1, <1>3, <1>6, <1>8 DEF Awaits
  <2>2. Effect(P2, P1, m, e, k, out, z)
    OBVIOUS
  <2> QED BY ONLY <2>1, <2>2, AwaitsOwn
<1>11. n.child = "resurrect" /\ n.eventId # NoTimer =>
         n.eventId \in timers' \/ Holds(y1, EvOf("Timeout", n.eventId))
  BY <1>2, <1>3, <1>7, <1>8, <1>9, AwaitsOther
<1> QED BY <1>3, <1>4, <1>10, <1>11 DEF Waits, Awaits

LEMMA SecondDelivers ==
  ASSUME MatchesInv, DeliverToBot(P2)
  PROVE  MatchesInv'
<1>1. P1 \in Players /\ P2 \in Players /\ P2 # P1 /\ P1 = Opponent(P2) /\ bots \in [Players -> Bot]
  BY PlayersAre DEF MatchesInv, Typed
<1>2. Turn(P2)
  BY DEF DeliverToBot
<1>3. PICK e, n : e = Head(queue) /\ n = bots[P1]
  OBVIOUS
<1>4. PICK m : m = SelfTracked(P2, e)
  OBVIOUS
<1>5. Fit(P2, P1, m, e)
  BY <1>2, <1>3, <1>4, SecondFits
<1>6. PICK k \in Bot, out \in Seq(EventSet), z \in Seq(EventSet) :
        Effect(P2, P1, m, e, k, out, z) /\ Spares(Tail(queue), z, m.eventId)
  BY <1>1, <1>3, <1>4, DeliverIs
<1>7. /\ Same(bots[P2], m) /\ m \in Bot /\ Shape(P2, m) /\ e \in EventSet
      /\ m.child = bots[P2].child
  <2>1. e \in EventSet
    BY <1>5 DEF Fit
  <2>2. /\ Same(bots[P2], m) /\ m \in Bot /\ m.opponent = bots[P2].opponent
        /\ m.eventId = bots[P2].eventId /\ m.gotOption = bots[P2].gotOption
    BY <1>1, <1>4, <2>1, SelfTrackedIs
  <2>3. Shape(P2, bots[P2])
    BY DEF MatchesInv, Shapes
  <2>4. Shape(P2, m)
    BY <2>2, <2>3 DEF Shape, Same, Asking, Standing
  <2> QED BY <2>1, <2>2, <2>4 DEF Same
<1>8. Mover(P2, P1, m, e, k, out)
  BY <1>5, <1>6, <1>7 DEF Mover, Effect
<1>9. Facts(P2, P1, m, e, k, out) /\ SecondKnown(m, n, e, k)
  BY <1>2, <1>3, <1>7, <1>8, SecondKnows
<1>10. /\ QueueOK' /\ Shapes' /\ Ledgers' /\ Pairs' /\ RequestsOK' /\ Together'
       /\ bots'[P2] = k /\ bots'[P1] = n
  BY <1>2, <1>3, <1>6, <1>7, <1>9, SecondKeepsPairs
<1>11. Within(out, Quiet) /\ Within(out, OnJourney) /\ Within(out, Harmless)
  BY <1>1, <1>9, OutIs
<1>12. PICK t : t = m.eventId
  OBVIOUS
<1>13. Grown(Tail(queue), queue', out, t) /\ Grown(Box1, Box1', out, t)
  <2>1. QueueOK /\ Spares(Tail(queue), z, t) /\ EndTurn((<<Head(queue)>> \o z) \o out)
    BY <1>3, <1>6, <1>12 DEF MatchesInv, Effect
  <2> QED BY <1>2, <2>1, SecondBoxes
<1>14. Placed(P1)' /\ Within(queue', OnJourney) /\ Journey'
  BY <1>2, <1>3, <1>4, <1>6, <1>11, <1>13, SecondKeepsJourney
<1>15. Opponents'
  BY <1>2, <1>3, <1>4, <1>6, <1>9, <1>13, SecondKeepsOpponent
<1>16. Waits'
  BY <1>2, <1>3, <1>4, <1>6, <1>7, SecondKeepsWaits
<1>17. Typed' /\ NoErrors' /\ Counted'
  BY <1>1, <1>6, <1>7, TypedKept DEF MatchesInv
<1>18. (bots[P2].child = "actor" => reports = 0)'
  BY <1>1, <1>6, <1>7, <1>10 DEF MatchesInv, Effect
<1> QED BY <1>10, <1>14, <1>15, <1>16, <1>17, <1>18 DEF MatchesInv

-----------------------------------------------------------------------------
(* The other steps leave the PvpManagers alone; they publish out.          *)

Boxed(out) ==
  /\ Grown(Box1, Box1', out, NoTimer) /\ Grown(queue, queue', out, NoTimer)
  /\ (Behind' <=> Behind) /\ (Behind => Head(queue') = Head(queue))
  /\ bots' = bots

(* Events that change neither who is ready nor who has a match.            *)
Routine ==
  {e \in EventSet : e.kind \notin {"ReadyForAssignment", "ReadyForPvp", "BeginPvp"}}

LEMMA RoutineIs ==
  ASSUME NEW out, Within(out, Routine)
  PROVE  /\ ~Holds(out, Begins)
         /\ \A q : ~Holds(out, Asks(q)) /\ Within(out, EventSet \ Reports(q))
  BY DEF Within, Holds, Routine, Begins, Ev, Asks, Reports, EvOf

LEMMA PairGrows ==
  ASSUME NEW p \in Players, NEW o \in Players, NEW m, NEW n, NEW y, NEW y1, NEW out, NEW t,
         Grown(y, y1, out, t), Within(out, EventSet \ Reports(o)), ~Holds(out, Begins),
         NEW rest, NEW rests, NEW left, NEW lefts, Pair(p, o, m, n, y, rest, left),
         rest => rests, left => lefts
  PROVE  Pair(p, o, m, n, y1, rests, lefts)
<1> DEFINE R == Reports(o)
           L == Lives(p)
<1>1. ~Holds(out, R)
  BY DEF Holds, Within
<1>2. (Holds(y1, R) <=> Holds(y, R)) /\ (OnceIn(y, R) => OnceIn(y1, R))
  BY <1>1, WaitingIs, PlainIs, More
<1>3. Holds(y1, Begins) <=> Holds(y, Begins)
  BY WaitingIs, PlainIs
<1>4. OnlyAfter(y, L, EventSet \ R) => OnlyAfter(y1, L, EventSet \ R)
  <2>1. OnlyAfter(out, L, EventSet \ R)
    BY More
  <2>2. L \in SUBSET EventSet /\ (EventSet \ R) \in SUBSET EventSet
    BY DEF Lives, EvOf
  <2> QED BY <2>1, <2>2 DEF Grown
<1> HIDE DEF R, L
<1> QED BY <1>2, <1>3, <1>4 DEF Pair, R, L

LEMMA PairsGrow ==
  ASSUME MatchesInv, NEW out, Boxed(out), ~Holds(out, Begins),
         \A q : Within(out, EventSet \ Reports(q)),
         \A q \in Players : rested[q] => rested'[q], Left => Left'
  PROVE  Pairs'
<1>1. P1 \in Players /\ P2 \in Players
  BY PlayersAre
<1>2. PICK m, n, x, x1, y, y1, r1, r2, s1, s2, l, l1, no, none :
        /\ m = bots[P1] /\ n = bots[P2] /\ x = Box1 /\ x1 = Box1' /\ y = queue /\ y1 = queue'
        /\ r1 = rested[P1] /\ r2 = rested[P2] /\ s1 = rested'[P1] /\ s2 = rested'[P2]
        /\ l = Left /\ l1 = Left' /\ no = FALSE /\ none = NoTimer
  OBVIOUS
<1>3. Grown(x, x1, out, none) /\ Grown(y, y1, out, none) /\ bots' = bots
  BY <1>2 DEF Boxed
<1>4. Pair(P1, P2, m, n, x, r1, no) /\ Pair(P2, P1, n, m, y, r2, l)
  BY <1>2 DEF MatchesInv, Pairs
<1>5. (r1 => s1) /\ (r2 => s2) /\ (l => l1)
  BY <1>1, <1>2
<1>6. Pair(P1, P2, m, n, x1, s1, no)
  <2>1. Within(out, EventSet \ Reports(P2)) /\ ~Holds(out, Begins) /\ (no => no)
    OBVIOUS
  <2> QED BY ONLY <1>1, <1>3, <1>4, <1>5, <2>1, PairGrows, ZenonT(60)
<1>7. Pair(P2, P1, n, m, y1, s2, l1)
  BY <1>1, <1>3, <1>4, <1>5, PairGrows
<1> QED BY <1>2, <1>3, <1>6, <1>7 DEF Pairs

LEMMA TogetherStays ==
  ASSUME MatchesInv, NEW out, Boxed(out), Left => Left'
  PROVE  Together'
  BY DEF Boxed, Together, MatchesInv

(* Player 1 has left the fight until player 2 hears of the death.          *)
LEMMA LeftStays ==
  ASSUME NEW out, Boxed(out),
         \A q \in Players : q \notin resReq /\ life[q] = "dead" /\ srvLife[q] = "dead" =>
           q \notin resReq' /\ life'[q] = "dead" /\ srvLife'[q] = "dead"
  PROVE  Left => Left'
  BY DEF Boxed, Left

(* The lives: of a player that the step leaves alone, and of the others.   *)
Untouched(p) ==
  /\ life'[p] = life[p] /\ srvLife'[p] = srvLife[p] /\ (p \in news' <=> p \in news)
  /\ (p \in hurt' => p \in hurt) /\ (p \in resReq' => p \in resReq) /\ (rested'[p] <=> rested[p])
Follows(p, b, y, y1) ==
  Ledger(p, b, y, life[p], srvLife[p], p \in news, p \in hurt, p \in resReq, rested[p]) =>
  Ledger(p, b, y1, life'[p], srvLife'[p], p \in news', p \in hurt', p \in resReq', rested'[p])
Settles(p, out) ==
  \A b, y, y1, t : b = bots[p] /\ Grown(y, y1, out, t) => Follows(p, b, y, y1)

LEMMA UntouchedSettles ==
  ASSUME NEW p \in Players, NEW out, ~Holds(out, Lives(p)), Untouched(p)
  PROVE  Settles(p, out)
<1> SUFFICES ASSUME NEW b, NEW y, NEW y1, NEW t, Grown(y, y1, out, t) PROVE Follows(p, b, y, y1)
  BY DEF Settles
<1>1. Holds(y1, Lives(p)) <=> Holds(y, Lives(p))
  BY WaitingIs, PlainIs
<1>2. OnceIn(y, Lives(p)) => OnceIn(y1, Lives(p))
  BY WaitingIs, PlainIs, More
<1> QED BY <1>1, <1>2 DEF Follows, Ledger, Untouched

LEMMA LedgersGrow ==
  ASSUME MatchesInv, NEW out, Boxed(out), \A p \in Players : Settles(p, out)
  PROVE  Ledgers'
<1>1. P1 \in Players /\ P2 \in Players
  BY PlayersAre
<1>2. PICK m, n, x, x1, y, y1, none :
        /\ m = bots[P1] /\ n = bots[P2] /\ x = Box1 /\ x1 = Box1' /\ y = queue /\ y1 = queue'
        /\ none = NoTimer
  OBVIOUS
<1>3. Grown(x, x1, out, none) /\ Grown(y, y1, out, none) /\ bots' = bots
  BY <1>2 DEF Boxed
<1>4. /\ Ledger(P1, m, x, life[P1], srvLife[P1], P1 \in news, P1 \in hurt, P1 \in resReq, rested[P1])
      /\ Ledger(P2, n, y, life[P2], srvLife[P2], P2 \in news, P2 \in hurt, P2 \in resReq, rested[P2])
  BY <1>2 DEF MatchesInv, Ledgers, LedgerOf
<1>5. Ledger(P1, m, x1, life'[P1], srvLife'[P1], P1 \in news', P1 \in hurt', P1 \in resReq', rested'[P1])
  BY <1>1, <1>2, <1>3, <1>4 DEF Settles, Follows
<1>6. Ledger(P2, n, y1, life'[P2], srvLife'[P2], P2 \in news', P2 \in hurt', P2 \in resReq', rested'[P2])
  BY <1>1, <1>2, <1>3, <1>4 DEF Settles, Follows
<1> QED BY <1>2, <1>3, <1>5, <1>6 DEF Ledgers, LedgerOf

(* The timeouts that are awaited.                                          *)
LEMMA WaitsGrow ==
  ASSUME MatchesInv, NEW out, Boxed(out),
         \A u \in timers : u \in timers' \/ Holds(out, EvOf("Timeout", u))
  PROVE  Waits'
<1>1. PICK m, n, x, x1, y, y1, none :
        /\ m = bots[P1] /\ n = bots[P2] /\ x = Box1 /\ x1 = Box1' /\ y = queue /\ y1 = queue'
        /\ none = NoTimer
  OBVIOUS
<1>2. Grown(x, x1, out, none) /\ Grown(y, y1, out, none) /\ bots' = bots
  BY <1>1 DEF Boxed
<1>3. ASSUME NEW b, NEW w, NEW w1, Grown(w, w1, out, none), Awaits(b, w), b.eventId \in TimerId \cup {NoTimer}
      PROVE  b.child = "resurrect" /\ b.eventId # NoTimer =>
               b.eventId \in timers' \/ Holds(w1, EvOf("Timeout", b.eventId))
  <2> SUFFICES ASSUME b.child = "resurrect", b.eventId # NoTimer
               PROVE  b.eventId \in timers' \/ Holds(w1, EvOf("Timeout", b.eventId))
    OBVIOUS
  <2>1. PICK A : A = EvOf("Timeout", b.eventId)
    OBVIOUS
  <2>2. b.eventId \in timers \/ Holds(w, A)
    BY <1>3, <2>1 DEF Awaits
  <2>3. A \in SUBSET EventSet /\ A \cap EvOf("Timeout", none) = {}
    BY <1>1, <2>1 DEF EvOf
  <2>4. Holds(w, A) => Holds(w1, A)
    BY <1>3, <2>3 DEF Grown
  <2>5. Holds(out, A) => Holds(w1, A)
    BY <1>3, <2>3 DEF Grown
  <2> QED BY <2>1, <2>2, <2>4, <2>5
<1>4. Awaits(m, x) /\ Awaits(n, y)
  BY <1>1 DEF MatchesInv, Waits
<1>5. m.eventId \in TimerId \cup {NoTimer} /\ n.eventId \in TimerId \cup {NoTimer}
  BY <1>1 DEF MatchesInv, Shapes, Shape, Bot
<1>6. m.child = "resurrect" /\ m.eventId # NoTimer =>
        m.eventId \in timers' \/ Holds(x1, EvOf("Timeout", m.eventId))
  BY <1>2, <1>3, <1>4, <1>5
<1>7. n.child = "resurrect" /\ n.eventId # NoTimer =>
        n.eventId \in timers' \/ Holds(y1, EvOf("Timeout", n.eventId))
  BY <1>2, <1>3, <1>4, <1>5
<1> QED BY <1>1, <1>2, <1>6, <1>7 DEF Waits, Awaits

LEMMA OpponentsStay ==
  ASSUME MatchesInv, NEW out, Boxed(out),
         \/ stage'[P2] \in {"reset", "loading"} \/ stage[P2] \notin {"reset", "loading"}
         \/ Holds(out, Ev("EntitySpawned"))
  PROVE  Opponents'
<1>1. PICK x, x1, none, A : x = Box1 /\ x1 = Box1' /\ none = NoTimer /\ A = Ev("EntitySpawned")
  OBVIOUS
<1>2. A \in Plain
  BY <1>1, PlainIs
<1>3. Grown(x, x1, out, none) /\ bots' = bots
  BY <1>1 DEF Boxed
<1>4. Holds(x1, A) <=> (Holds(x, A) \/ Holds(out, A))
  BY <1>2, <1>3, WaitingIs
<1> QED BY <1>1, <1>3, <1>4 DEF MatchesInv, Opponents

(* A step without a part in the journey, quiet while the players are calm. *)
LEMMA JourneyStays ==
  ASSUME MatchesInv, NEW out, Boxed(out), Within(out, Quiet),
         stage' = stage, procSelf' = procSelf, near' = near, warpReq' \subseteq warpReq,
         Calm => /\ Within(out, Harmless) /\ \A p \in Players : rested'[p] /\ life'[p] = "alive"
                 /\ hurt' = {} /\ news' = {} /\ option' = {} /\ resReq' = {}
  PROVE  Placed(P1)' /\ Within(queue', OnJourney) /\ Journey'
<1>1. PICK x, y, none : x = queue /\ y = queue' /\ none = NoTimer
  OBVIOUS
<1>2. Grown(x, y, out, none) /\ bots' = bots
  BY <1>1 DEF Boxed
<1>3. /\ Within(x, Quiet) => Within(y, Quiet)
      /\ Within(x, OnJourney) => Within(y, OnJourney)
      /\ \A kind \in TravelKinds :
           /\ Holds(y, Ev(kind)) <=> Holds(x, Ev(kind))
           /\ OnlyAfter(x, Ev(kind), Quiet) => OnlyAfter(y, Ev(kind), Quiet)
  <2>1. Quiet \in SUBSET EventSet /\ OnJourney \in SUBSET EventSet /\ Quiet \subseteq OnJourney
    BY DEF Quiet, OnJourney
  <2>2. Within(out, OnJourney)
    BY <2>1, Subsets
  <2>3. /\ Within(x, Quiet) => Within(y, Quiet)
        /\ Within(x, OnJourney) => Within(y, OnJourney)
    BY <1>2, <2>1, <2>2 DEF Grown
  <2>4. ASSUME NEW kind \in TravelKinds
        PROVE  /\ Holds(y, Ev(kind)) <=> Holds(x, Ev(kind))
               /\ OnlyAfter(x, Ev(kind), Quiet) => OnlyAfter(y, Ev(kind), Quiet)
    <3>1. Ev(kind) \in Plain
      BY PlainIs DEF TravelKinds
    <3>2. Quiet \cap Ev(kind) = {} /\ Ev(kind) \in SUBSET EventSet
      BY DEF Quiet, Ev
    <3>3. ~Holds(out, Ev(kind))
      BY <3>2, Subsets
    <3>4. Holds(y, Ev(kind)) <=> Holds(x, Ev(kind))
      BY <1>2, <3>1, <3>3, WaitingIs
    <3>5. OnlyAfter(out, Ev(kind), Quiet)
      BY More
    <3>6. OnlyAfter(x, Ev(kind), Quiet) => OnlyAfter(y, Ev(kind), Quiet)
      BY <1>2, <2>1, <3>2, <3>5 DEF Grown
    <3> QED BY <3>4, <3>6
  <2> QED BY <2>3, <2>4
<1>4. P1 \in Players /\ P2 \in Players
  BY PlayersAre
<1>5. Placed(P1)' /\ Within(queue', OnJourney)
  BY <1>1, <1>2, <1>3, <1>4 DEF MatchesInv, Placed
<1> SUFFICES Journey'
  BY <1>5
<1>6. CASE Placed(P2) /\ Within(queue, Quiet)
  <2>1. Placed(P2)' /\ Within(queue', Quiet)
    BY <1>1, <1>2, <1>3, <1>4, <1>6 DEF Placed
  <2> QED BY <2>1 DEF Journey
<1>7. CASE Calm /\ (Far \/ Leaving \/ Resetting \/ Loading \/ Entering)
  <2>1. Calm'
    <3>1. Within(x, Harmless) /\ Within(out, Harmless) /\ Harmless \in SUBSET EventSet
      BY <1>1, <1>7 DEF Calm, Harmless
    <3>2. Within(y, Harmless)
      BY <1>2, <3>1 DEF Grown
    <3> QED BY <1>1, <1>2, <1>7, <3>2 DEF Calm
  <2>2. Travelling => Travelling'
    BY <1>2 DEF Travelling
  <2>3. CASE Far
    <3>1. Far'
      BY <1>1, <1>2, <1>3, <2>3 DEF Far
    <3> QED BY <2>1, <3>1 DEF Journey
  <2>4. CASE Leaving
    <3>1. Leaving'
      BY <1>1, <1>2, <1>3, <2>2, <2>4 DEF Leaving
    <3> QED BY <2>1, <3>1 DEF Journey
  <2>5. CASE Resetting
    <3>1. /\ Holds(y, Ev("GameReset")) /\ OnlyAfter(y, Ev("GameReset"), Quiet)
          /\ ~Holds(y, Ev("SelfSpawned")) /\ ~Holds(y, Ev("EntitySpawned"))
          /\ bots[P2].selfEntity => Holds(y, Ev("EntityDespawned"))
      BY <1>1, <1>3, <2>5 DEF Resetting, TravelKinds
    <3>2. Resetting'
      BY <1>1, <1>2, <2>2, <2>5, <3>1 DEF Resetting
    <3> QED BY <2>1, <3>2 DEF Journey
  <2>6. CASE Loading
    <3>1. Loading'
      BY <1>1, <1>2, <1>3, <2>2, <2>6 DEF Loading
    <3> QED BY <2>1, <3>1 DEF Journey
  <2>7. CASE Entering
    <3>1. /\ Holds(y, Ev("SelfSpawned")) /\ OnlyAfter(y, Ev("SelfSpawned"), Quiet)
          /\ ~Holds(y, Ev("GameReset")) /\ ~Holds(y, Ev("EntityDespawned"))
      BY <1>1, <1>3, <2>7 DEF Entering, TravelKinds
    <3>2. Entering'
      BY <1>1, <1>2, <2>2, <2>7, <3>1 DEF Entering
    <3> QED BY <2>1, <3>2 DEF Journey
  <2> QED BY <1>7, <2>3, <2>4, <2>5, <2>6, <2>7
<1> QED BY <1>6, <1>7 DEF MatchesInv, Journey

Publishes(out) ==
  /\ out \in Seq(EventSet) /\ queue' = queue \o out /\ turn' = turn
  /\ bots' = bots /\ ready' = ready /\ nextPvpId' = nextPvpId
  /\ errors' = errors /\ reports' = reports

LEMMA PublishedIs ==
  ASSUME MatchesInv, NEW out, Publishes(out)
  PROVE  QueueOK' /\ Boxed(out) /\ AsksGrow(ManagerBox, ManagerBox', out)
<1>1. PICK none : none = NoTimer
  OBVIOUS
<1>2. QueueOK /\ out \in Seq(EventSet) /\ queue' = queue \o out /\ turn' = turn /\ bots' = bots
  BY DEF MatchesInv, Publishes
<1>3. /\ QueueOK' /\ (Behind' <=> Behind) /\ (queue # <<>> => Head(queue') = Head(queue))
      /\ Grown(Box1, Box1', out, none) /\ Grown(queue, queue', out, none)
      /\ AsksGrow(ManagerBox, ManagerBox', out)
  BY <1>2, PublishedBoxes
<1>4. Behind => queue # <<>>
  BY DEF Behind
<1> QED BY <1>1, <1>2, <1>3, <1>4 DEF Boxed

LEMMA RequestsStay ==
  ASSUME MatchesInv, NEW out, Publishes(out), Within(out, Routine)
  PROVE  RequestsOK'
<1>1. P1 \in Players /\ P2 \in Players
  BY PlayersAre
<1>2. PICK m, n, x, x1, y, y1, w, w1, none, u, v :
        /\ m = bots[P1] /\ n = bots[P2] /\ x = Box1 /\ x1 = Box1' /\ y = queue /\ y1 = queue'
        /\ w = ManagerBox /\ w1 = ManagerBox' /\ none = NoTimer /\ u = IsListed(P1) /\ v = IsListed(P2)
  OBVIOUS
<1>3. Grown(x, x1, out, none) /\ Grown(y, y1, out, none) /\ bots' = bots /\ AsksGrow(w, w1, out)
  BY <1>2, PublishedIs DEF Boxed
<1>4. ~Holds(out, Begins) /\ ~Holds(out, Asks(P1)) /\ ~Holds(out, Asks(P2))
  BY RoutineIs
<1>5. Tokens(P1, m, x, w, u) /\ Tokens(P2, n, y, w, v)
  BY <1>2 DEF MatchesInv, RequestsOK
<1>6. Tokens(P1, m, x1, w1, u)
  BY ONLY <1>1, <1>3, <1>4, <1>5, TokensOther, ZenonT(60)
<1>7. Tokens(P2, n, y1, w1, v)
  BY ONLY <1>1, <1>3, <1>4, <1>5, TokensOther, ZenonT(60)
<1>8. IsListed(P1)' = u /\ IsListed(P2)' = v
  BY <1>2 DEF Publishes, IsListed
<1> QED BY <1>2, <1>3, <1>6, <1>7, <1>8 DEF RequestsOK

(* What there is to show of a step that leaves the PvpManagers and the     *)
(* trainer alone.                                                          *)
LEMMA PublishingKeeps ==
  ASSUME MatchesInv, NEW out, Publishes(out), Within(out, Routine),
         \A p \in Players : Settles(p, out) /\ (rested[p] => rested'[p]),
         \A q \in Players : q \notin resReq /\ life[q] = "dead" /\ srvLife[q] = "dead" =>
           q \notin resReq' /\ life'[q] = "dead" /\ srvLife'[q] = "dead",
         \A u \in timers : u \in timers' \/ Holds(out, EvOf("Timeout", u)),
         \/ stage'[P2] \in {"reset", "loading"} \/ stage[P2] \notin {"reset", "loading"}
         \/ Holds(out, Ev("EntitySpawned")),
         Typed', Counted', Placed(P1)', Within(queue', OnJourney), Journey'
  PROVE  MatchesInv'
<1>1. QueueOK' /\ Boxed(out)
  BY PublishedIs
<1>2. ~Holds(out, Begins) /\ \A q : Within(out, EventSet \ Reports(q))
  BY RoutineIs
<1>3. Left => Left'
  BY <1>1, LeftStays
<1>4. Pairs'
  BY <1>1, <1>2, <1>3, PairsGrow
<1>5. Together'
  BY <1>1, <1>3, TogetherStays
<1>6. Ledgers'
  BY <1>1, LedgersGrow
<1>7. RequestsOK'
  BY RequestsStay
<1>8. Waits'
  BY <1>1, WaitsGrow
<1>9. Opponents'
  BY <1>1, OpponentsStay
<1>10. Shapes' /\ NoErrors' /\ (bots[P2].child = "actor" => reports = 0)'
  BY DEF Publishes, MatchesInv, Shapes, Shape, NoErrors
<1> QED BY <1>1, <1>4, <1>5, <1>6, <1>7, <1>8, <1>9, <1>10 DEF MatchesInv

(* Nothing published, and a single event.                                  *)
LEMMA NilIs ==
  ASSUME NEW nil, nil = <<>>
  PROVE  /\ nil \in Seq(EventSet) /\ \A A : ~Holds(nil, A) /\ Within(nil, A)
         /\ \A s \in Seq(EventSet) : s \o nil = s
  BY None

LEMMA SingleIs ==
  ASSUME NEW kind \in PlayerKinds, NEW p \in Players
  PROVE  LET out == <<Event(kind, p)>>
         IN /\ out \in Seq(EventSet)
            /\ kind \notin {"ReadyForAssignment", "ReadyForPvp"} => Within(out, Routine)
            /\ kind \notin TravelKinds => Within(out, Quiet)
            /\ kind \notin {"LifeStateChanged", "ResurrectOption"} => Within(out, Harmless)
            /\ p = P2 \/ kind \notin TravelKinds => Within(out, OnJourney)
            /\ \A q : Holds(out, Lives(q)) <=> (kind = "LifeStateChanged" /\ q = p)
            /\ \A other : Holds(out, Ev(other)) <=> other = kind
<1>1. PICK e : e = Event(kind, p)
  OBVIOUS
<1>2. e \in EventSet /\ e.kind = kind /\ e.about = p
  BY <1>1, EventIs
<1>3. \A A : (Holds(<<e>>, A) <=> e \in A) /\ (Within(<<e>>, A) <=> e \in A)
  BY <1>2, OneIs
<1>4. kind # "BeginPvp"
  BY DEF PlayerKinds, TravelKinds
<1>5. /\ kind \notin {"ReadyForAssignment", "ReadyForPvp"} => e \in Routine
      /\ kind \notin TravelKinds => e \in Quiet
      /\ kind \notin {"LifeStateChanged", "ResurrectOption"} => e \in Harmless
      /\ p = P2 \/ kind \notin TravelKinds => e \in OnJourney
      /\ \A q : e \in Lives(q) <=> (kind = "LifeStateChanged" /\ q = p)
      /\ \A other : e \in Ev(other) <=> other = kind
  BY <1>2, <1>4 DEF Routine, Quiet, Harmless, OnJourney, Lives, EvOf, Ev
<1>6. <<e>> \in Seq(EventSet)
  BY <1>2
<1> QED BY <1>1, <1>3, <1>5, <1>6

(* A step without a part in the journey, quiet while the players are calm. *)
LEMMA QuietlyKeeps ==
  ASSUME MatchesInv, NEW out, Publishes(out), Within(out, Routine), Within(out, Quiet),
         \A p \in Players : Settles(p, out) /\ (rested[p] => rested'[p]),
         \A q \in Players : q \notin resReq /\ life[q] = "dead" /\ srvLife[q] = "dead" =>
           q \notin resReq' /\ life'[q] = "dead" /\ srvLife'[q] = "dead",
         \A u \in timers : u \in timers' \/ Holds(out, EvOf("Timeout", u)),
         stage' = stage, procSelf' = procSelf, near' = near, warpReq' \subseteq warpReq,
         Calm => /\ Within(out, Harmless) /\ \A p \in Players : rested'[p] /\ life'[p] = "alive"
                 /\ hurt' = {} /\ news' = {} /\ option' = {} /\ resReq' = {},
         Typed', Counted'
  PROVE  MatchesInv'
<1>1. Boxed(out)
  BY PublishedIs
<1>2. Placed(P1)' /\ Within(queue', OnJourney) /\ Journey'
  BY <1>1, JourneyStays
<1>3. stage'[P2] \in {"reset", "loading"} \/ stage[P2] \notin {"reset", "loading"}
  OBVIOUS
<1> QED BY <1>2, <1>3, PublishingKeeps

(* Of these, the ones that leave the players' lives alone as well.         *)
LEMMA IdlyKeeps ==
  ASSUME MatchesInv, NEW out, Publishes(out), Within(out, Routine), Within(out, Quiet),
         \A q : ~Holds(out, Lives(q)),
         life' = life, srvLife' = srvLife, news' = news, hurt' = hurt, rested' = rested,
         resReq' \subseteq resReq, option' \subseteq option, warpReq' \subseteq warpReq,
         \A u \in timers : u \in timers' \/ Holds(out, EvOf("Timeout", u)),
         stage' = stage, procSelf' = procSelf, near' = near,
         Calm => Within(out, Harmless), timers' \subseteq TimerId, sees' = sees, count' = count
  PROVE  MatchesInv'
<1>1. \A p \in Players : Untouched(p)
  BY DEF Untouched
<1>2. \A p \in Players : Settles(p, out)
  BY <1>1, UntouchedSettles
<1>3. Typed' /\ Counted'
  BY DEF MatchesInv, Typed, Publishes, Counted
<1>4. Calm => /\ Within(out, Harmless) /\ \A p \in Players : rested'[p] /\ life'[p] = "alive"
              /\ hurt' = {} /\ news' = {} /\ option' = {} /\ resReq' = {}
  BY DEF Calm
<1>5. \A p \in Players : Settles(p, out) /\ (rested[p] => rested'[p])
  BY <1>2
<1>6. \A q \in Players : q \notin resReq /\ life[q] = "dead" /\ srvLife[q] = "dead" =>
        q \notin resReq' /\ life'[q] = "dead" /\ srvLife'[q] = "dead"
  OBVIOUS
<1> QED BY <1>3, <1>4, <1>5, <1>6, QuietlyKeeps

(* A timeout, any other event, a refusal, a resurrect option, a loss.      *)
LEMMA TimerKeeps ==
  ASSUME MatchesInv, NEW t \in TimerId, TimerDue(t)
  PROVE  MatchesInv'
<1>1. PICK e, out : e = Event("Timeout", t) /\ out = <<e>>
  OBVIOUS
<1>2. e \in EventSet /\ e.kind = "Timeout" /\ e.about = t
  BY <1>1, EventIs
<1>3. /\ out \in Seq(EventSet)
      /\ \A A : (Holds(out, A) <=> e \in A) /\ (Within(out, A) <=> e \in A)
  BY <1>1, <1>2, OneIs
<1>4. /\ Within(out, Routine) /\ Within(out, Quiet) /\ Within(out, Harmless)
      /\ \A q : ~Holds(out, Lives(q))
      /\ Holds(out, EvOf("Timeout", t))
  <2>1. /\ e \in Routine /\ e \in Quiet /\ e \in Harmless /\ \A q : e \notin Lives(q)
        /\ e \in EvOf("Timeout", t)
    BY <1>2 DEF Routine, Quiet, Harmless, Lives, EvOf, TravelKinds
  <2> QED BY <1>3, <2>1
<1>5. Publishes(out)
  BY <1>1, <1>3 DEF TimerDue, Published, Publishes
<1>6. timers \subseteq TimerId /\ timers' = timers \ {t}
  BY DEF TimerDue, MatchesInv, Typed
<1>7. \A u \in timers : u \in timers' \/ Holds(out, EvOf("Timeout", u))
  BY <1>4, <1>6
<1>8. /\ life' = life /\ srvLife' = srvLife /\ news' = news /\ hurt' = hurt /\ rested' = rested
      /\ resReq' = resReq /\ option' = option /\ warpReq' = warpReq /\ stage' = stage
      /\ procSelf' = procSelf /\ near' = near /\ sees' = sees /\ count' = count
  BY DEF TimerDue, world, server
<1> QED BY <1>4, <1>5, <1>6, <1>7, <1>8, IdlyKeeps

LEMMA OtherKeeps ==
  ASSUME MatchesInv, OtherEvent
  PROVE  MatchesInv'
<1>1. PICK e, out : e = Event("Other", Nobody) /\ out = <<e>>
  OBVIOUS
<1>2. e \in EventSet /\ e.kind = "Other"
  BY <1>1, EventIs
<1>3. /\ out \in Seq(EventSet)
      /\ \A A : (Holds(out, A) <=> e \in A) /\ (Within(out, A) <=> e \in A)
  BY <1>1, <1>2, OneIs
<1>4. /\ Within(out, Routine) /\ Within(out, Quiet) /\ Within(out, Harmless)
      /\ \A q : ~Holds(out, Lives(q))
  <2>1. e \in Routine /\ e \in Quiet /\ e \in Harmless /\ \A q : e \notin Lives(q)
    BY <1>2 DEF Routine, Quiet, Harmless, Lives, EvOf, TravelKinds
  <2> QED BY <1>3, <2>1
<1>5. Publishes(out)
  <2>1. queue' = queue \o out
    BY <1>1, <1>3 DEF OtherEvent
  <2> QED BY <1>3, <2>1 DEF OtherEvent, Publishes
<1>6. /\ life' = life /\ srvLife' = srvLife /\ news' = news /\ hurt' = hurt /\ rested' = rested
      /\ resReq' = resReq /\ option' = option /\ warpReq' = warpReq /\ stage' = stage
      /\ procSelf' = procSelf /\ near' = near /\ sees' = sees /\ count' = count /\ timers' = timers
  BY DEF OtherEvent, world, server
<1>7. timers \subseteq TimerId
  BY DEF MatchesInv, Typed
<1> QED BY <1>4, <1>5, <1>6, <1>7, IdlyKeeps

LEMMA RefuseKeeps ==
  ASSUME MatchesInv, NEW p \in Players, Refuse(p)
  PROVE  MatchesInv'
<1>1. PICK kind, out : kind = "WarpRefused" /\ out = <<Event(kind, p)>>
  OBVIOUS
<1>2. /\ kind \in PlayerKinds /\ kind \notin TravelKinds
      /\ kind \notin {"ReadyForAssignment", "ReadyForPvp", "LifeStateChanged", "ResurrectOption"}
  BY <1>1 DEF PlayerKinds, TravelKinds
<1>3. /\ out \in Seq(EventSet) /\ Within(out, Routine) /\ Within(out, Quiet)
      /\ Within(out, Harmless) /\ \A q : ~Holds(out, Lives(q))
  BY <1>1, <1>2, SingleIs
<1>4. Publishes(out)
  BY <1>1, <1>3 DEF Refuse, Published, Publishes
<1>5. /\ life' = life /\ srvLife' = srvLife /\ news' = news /\ hurt' = hurt /\ rested' = rested
      /\ resReq' = resReq /\ option' = option /\ warpReq' \subseteq warpReq /\ stage' = stage
      /\ procSelf' = procSelf /\ near' = near /\ sees' = sees /\ count' = count /\ timers' = timers
  BY DEF Refuse, world
<1>6. timers \subseteq TimerId
  BY DEF MatchesInv, Typed
<1> QED BY <1>3, <1>4, <1>5, <1>6, IdlyKeeps

LEMMA OptionKeeps ==
  ASSUME MatchesInv, NEW p \in Players, ResurrectOption(p)
  PROVE  MatchesInv'
<1>1. PICK kind, out : kind = "ResurrectOption" /\ out = <<Event(kind, p)>>
  OBVIOUS
<1>2. /\ kind \in PlayerKinds /\ kind \notin TravelKinds
      /\ kind \notin {"ReadyForAssignment", "ReadyForPvp", "LifeStateChanged"}
  BY <1>1 DEF PlayerKinds, TravelKinds
<1>3. /\ out \in Seq(EventSet) /\ Within(out, Routine) /\ Within(out, Quiet)
      /\ \A q : ~Holds(out, Lives(q))
  BY <1>1, <1>2, SingleIs
<1>4. Publishes(out)
  BY <1>1, <1>3 DEF ResurrectOption, Published, Publishes
<1>5. /\ life' = life /\ srvLife' = srvLife /\ news' = news /\ hurt' = hurt /\ rested' = rested
      /\ resReq' = resReq /\ option' \subseteq option /\ warpReq' = warpReq /\ stage' = stage
      /\ procSelf' = procSelf /\ near' = near /\ sees' = sees /\ count' = count /\ timers' = timers
  BY DEF ResurrectOption, world
<1>6. timers \subseteq TimerId
  BY DEF MatchesInv, Typed
<1>7. ~Calm
  BY DEF ResurrectOption, Calm
<1> QED BY <1>3, <1>4, <1>5, <1>6, <1>7, IdlyKeeps

LEMMA LoseKeeps ==
  ASSUME MatchesInv, NEW p \in Players, Lose(p)
  PROVE  MatchesInv'
<1>1. PICK nil : nil = <<>>
  OBVIOUS
<1>2. /\ nil \in Seq(EventSet) /\ \A A : ~Holds(nil, A) /\ Within(nil, A)
      /\ \A s \in Seq(EventSet) : s \o nil = s
  BY <1>1, NilIs
<1>3. queue \in Seq(EventSet) /\ timers \subseteq TimerId
  BY DEF MatchesInv, QueueOK, Typed
<1>4. Publishes(nil)
  BY <1>2, <1>3 DEF Lose, Publishes, broker
<1>5. /\ life' = life /\ srvLife' = srvLife /\ news' = news /\ hurt' = hurt /\ rested' = rested
      /\ resReq' \subseteq resReq /\ option' = option /\ warpReq' \subseteq warpReq /\ stage' = stage
      /\ procSelf' = procSelf /\ near' = near /\ sees' = sees /\ count' = count /\ timers' = timers
  BY DEF Lose, world, broker
<1> QED BY <1>2, <1>3, <1>4, <1>5, IdlyKeeps

-----------------------------------------------------------------------------
(* The steps that change a player's life.                                  *)

LEMMA LedgersAre ==
  ASSUME MatchesInv, NEW p \in Players
  PROVE  \E x : Ledger(p, bots[p], x, life[p], srvLife[p], p \in news, p \in hurt, p \in resReq,
                       rested[p])
<1>1. p = P1 \/ p = P2
  BY PlayersAre
<1> QED BY <1>1, ZenonT(60) DEF MatchesInv, Ledgers, LedgerOf

LEMMA KillKeeps ==
  ASSUME MatchesInv, NEW p \in Players, Kill(p)
  PROVE  MatchesInv'
<1>1. PICK nil : nil = <<>>
  OBVIOUS
<1>2. /\ nil \in Seq(EventSet) /\ \A A : ~Holds(nil, A) /\ Within(nil, A)
      /\ \A s \in Seq(EventSet) : s \o nil = s
  BY <1>1, NilIs
<1>3. /\ queue \in Seq(EventSet) /\ timers \subseteq TimerId
      /\ life \in [Players -> {"alive", "dead"}] /\ srvLife \in [Players -> {"alive", "dead"}]
  BY DEF MatchesInv, QueueOK, Typed
<1>4. Publishes(nil)
  BY <1>2, <1>3 DEF Kill, Publishes, broker
<1>5. /\ life' = life /\ rested' = rested /\ resReq' = resReq /\ warpReq' = warpReq
      /\ stage' = stage /\ procSelf' = procSelf /\ near' = near /\ sees' = sees /\ count' = count
      /\ timers' = timers /\ srvLife' = [srvLife EXCEPT ![p] = "dead"] /\ news' = news \cup {p}
      /\ hurt' = hurt \ {p} /\ option' = option \cup {p}
      /\ p \in hurt /\ srvLife[p] = "alive" /\ p \notin news
  BY DEF Kill, world, broker
<1>6. srvLife'[p] = "dead" /\ \A q \in Players : q # p => srvLife'[q] = srvLife[q]
  BY <1>3, <1>5
<1>7. Settles(p, nil)
  <2> SUFFICES ASSUME NEW b, NEW y, NEW y1, NEW t, Grown(y, y1, nil, t) PROVE Follows(p, b, y, y1)
    BY DEF Settles
  <2>1. Holds(y1, Lives(p)) <=> Holds(y, Lives(p))
    BY <1>2, WaitingIs, PlainIs
  <2>2. OnceIn(y, Lives(p)) => OnceIn(y1, Lives(p))
    BY <1>2, WaitingIs, PlainIs, More
  <2>3. life'[p] = life[p] /\ life[p] \in {"alive", "dead"} /\ rested'[p] = rested[p]
    BY <1>3, <1>5
  <2>4. p \in news' /\ p \notin hurt' /\ (p \in resReq' <=> p \in resReq)
    BY <1>5
  <2> QED BY <1>5, <1>6, <2>1, <2>2, <2>3, <2>4 DEF Follows, Ledger
<1>8. ASSUME NEW q \in Players PROVE Settles(q, nil) /\ (rested[q] => rested'[q])
  <2>1. CASE q = p
    BY <1>5, <1>7, <2>1
  <2>2. CASE q # p
    <3>1. Untouched(q)
      BY <1>5, <1>6, <2>2 DEF Untouched
    <3> QED BY <1>2, <1>5, <3>1, UntouchedSettles
  <2> QED BY <2>1, <2>2
<1>9. \A q \in Players : q \notin resReq /\ life[q] = "dead" /\ srvLife[q] = "dead" =>
        q \notin resReq' /\ life'[q] = "dead" /\ srvLife'[q] = "dead"
  BY <1>5, <1>6
<1>10. ~Calm
  BY <1>5 DEF Calm
<1>11. Typed' /\ Counted'
  BY <1>4, <1>5 DEF MatchesInv, Typed, Publishes, Counted
<1> QED BY <1>2, <1>4, <1>5, <1>8, <1>9, <1>10, <1>11, QuietlyKeeps

LEMMA ResurrectKeeps ==
  ASSUME MatchesInv, NEW p \in Players, Resurrect(p)
  PROVE  MatchesInv'
<1>1. PICK nil : nil = <<>>
  OBVIOUS
<1>2. /\ nil \in Seq(EventSet) /\ \A A : ~Holds(nil, A) /\ Within(nil, A)
      /\ \A s \in Seq(EventSet) : s \o nil = s
  BY <1>1, NilIs
<1>3. /\ queue \in Seq(EventSet) /\ timers \subseteq TimerId
      /\ life \in [Players -> {"alive", "dead"}] /\ srvLife \in [Players -> {"alive", "dead"}]
  BY DEF MatchesInv, QueueOK, Typed
<1>4. Publishes(nil)
  BY <1>2, <1>3 DEF Resurrect, Publishes, broker
<1>5. /\ life' = life /\ rested' = rested /\ hurt' = hurt /\ option' = option /\ warpReq' = warpReq
      /\ stage' = stage /\ procSelf' = procSelf /\ near' = near /\ sees' = sees /\ count' = count
      /\ timers' = timers /\ srvLife' = [srvLife EXCEPT ![p] = "alive"] /\ news' = news \cup {p}
      /\ resReq' = resReq \ {p} /\ p \in resReq /\ p \notin news
  BY DEF Resurrect, world, broker
<1>6. srvLife'[p] = "alive" /\ \A q \in Players : q # p => srvLife'[q] = srvLife[q]
  BY <1>3, <1>5
<1>7. Settles(p, nil)
  <2> SUFFICES ASSUME NEW b, NEW y, NEW y1, NEW t, Grown(y, y1, nil, t) PROVE Follows(p, b, y, y1)
    BY DEF Settles
  <2>1. Holds(y1, Lives(p)) <=> Holds(y, Lives(p))
    BY <1>2, WaitingIs, PlainIs
  <2>2. OnceIn(y, Lives(p)) => OnceIn(y1, Lives(p))
    BY <1>2, WaitingIs, PlainIs, More
  <2>3. life'[p] = life[p] /\ life[p] \in {"alive", "dead"} /\ rested'[p] = rested[p]
    BY <1>3, <1>5
  <2>4. p \in news' /\ p \notin resReq' /\ (p \in hurt' <=> p \in hurt)
    BY <1>5
  <2> QED BY <1>5, <1>6, <2>1, <2>2, <2>3, <2>4 DEF Follows, Ledger
<1>8. ASSUME NEW q \in Players PROVE Settles(q, nil) /\ (rested[q] => rested'[q])
  <2>1. CASE q = p
    BY <1>5, <1>7, <2>1
  <2>2. CASE q # p
    <3>1. Untouched(q)
      BY <1>5, <1>6, <2>2 DEF Untouched
    <3> QED BY <1>2, <1>5, <3>1, UntouchedSettles
  <2> QED BY <2>1, <2>2
<1>9. \A q \in Players : q \notin resReq /\ life[q] = "dead" /\ srvLife[q] = "dead" =>
        q \notin resReq' /\ life'[q] = "dead" /\ srvLife'[q] = "dead"
  BY <1>5, <1>6
<1>10. ~Calm
  BY <1>5 DEF Calm
<1>11. Typed' /\ Counted'
  BY <1>4, <1>5 DEF MatchesInv, Typed, Publishes, Counted
<1> QED BY <1>2, <1>4, <1>5, <1>8, <1>9, <1>10, <1>11, QuietlyKeeps

LEMMA RestKeeps ==
  ASSUME MatchesInv, NEW p \in Players, Rest(p)
  PROVE  MatchesInv'
<1>1. PICK nil : nil = <<>>
  OBVIOUS
<1>2. /\ nil \in Seq(EventSet) /\ \A A : ~Holds(nil, A) /\ Within(nil, A)
      /\ \A s \in Seq(EventSet) : s \o nil = s
  BY <1>1, NilIs
<1>3. /\ queue \in Seq(EventSet) /\ timers \subseteq TimerId /\ rested \in [Players -> BOOLEAN]
      /\ life \in [Players -> {"alive", "dead"}] /\ srvLife \in [Players -> {"alive", "dead"}]
  BY DEF MatchesInv, QueueOK, Typed
<1>4. Publishes(nil)
  BY <1>2, <1>3 DEF Rest, Publishes, broker
<1>5. /\ life' = life /\ resReq' = resReq /\ option' = option /\ warpReq' = warpReq
      /\ stage' = stage /\ procSelf' = procSelf /\ near' = near /\ sees' = sees /\ count' = count
      /\ timers' = timers /\ srvLife' = srvLife /\ news' = news /\ hurt' = hurt \ {p}
      /\ rested' = [rested EXCEPT ![p] = TRUE] /\ ~rested[p]
      /\ srvLife[p] = "alive" /\ p \notin news /\ bots[p].child = "prepare"
  BY DEF Rest, world, broker
<1>6. rested'[p] /\ \A q \in Players : q # p => rested'[q] = rested[q]
  BY <1>3, <1>5
<1>7. Settles(p, nil)
  <2> SUFFICES ASSUME NEW b, NEW y, NEW y1, NEW t, b = bots[p], Grown(y, y1, nil, t)
               PROVE  Follows(p, b, y, y1)
    BY DEF Settles
  <2>1. Holds(y1, Lives(p)) <=> Holds(y, Lives(p))
    BY <1>2, WaitingIs, PlainIs
  <2>2. OnceIn(y, Lives(p)) => OnceIn(y1, Lives(p))
    BY <1>2, WaitingIs, PlainIs, More
  <2>3. life'[p] = life[p] /\ srvLife'[p] = "alive" /\ b.child = "prepare"
    BY <1>3, <1>5
  <2>4. p \notin news' /\ p \notin hurt' /\ (p \in resReq' <=> p \in resReq) /\ p \notin news
    BY <1>5
  <2> QED BY <1>5, <1>6, <2>1, <2>2, <2>3, <2>4 DEF Follows, Ledger
<1>8. ASSUME NEW q \in Players PROVE Settles(q, nil) /\ (rested[q] => rested'[q])
  <2>1. CASE q = p
    BY <1>6, <1>7, <2>1
  <2>2. CASE q # p
    <3>1. Untouched(q)
      BY <1>5, <1>6, <2>2 DEF Untouched
    <3> QED BY <1>2, <1>6, <2>2, <3>1, UntouchedSettles
  <2> QED BY <2>1, <2>2
<1>9. \A q \in Players : q \notin resReq /\ life[q] = "dead" /\ srvLife[q] = "dead" =>
        q \notin resReq' /\ life'[q] = "dead" /\ srvLife'[q] = "dead"
  BY <1>5
<1>10. ~Calm
  BY <1>5 DEF Calm
<1>11. Typed' /\ Counted'
  BY <1>4, <1>5 DEF MatchesInv, Typed, Publishes, Counted
<1> QED BY <1>2, <1>4, <1>5, <1>8, <1>9, <1>10, <1>11, QuietlyKeeps

(* A change of life is told.                                               *)
LEMMA LifeStateKeeps ==
  ASSUME MatchesInv, NEW p \in Players, LifeState(p)
  PROVE  MatchesInv'
<1>1. PICK kind, out : kind = "LifeStateChanged" /\ out = <<Event(kind, p)>>
  OBVIOUS
<1>2. /\ kind \in PlayerKinds /\ kind \notin TravelKinds
      /\ kind \notin {"ReadyForAssignment", "ReadyForPvp"}
  BY <1>1 DEF PlayerKinds, TravelKinds
<1>3. /\ out \in Seq(EventSet) /\ Within(out, Routine) /\ Within(out, Quiet)
      /\ \A q : Holds(out, Lives(q)) <=> q = p
  BY <1>1, <1>2, SingleIs
<1>4. /\ queue \in Seq(EventSet) /\ timers \subseteq TimerId
      /\ life \in [Players -> {"alive", "dead"}] /\ srvLife \in [Players -> {"alive", "dead"}]
  BY DEF MatchesInv, QueueOK, Typed
<1>5. life[p] # srvLife[p]
  <2>1. PICK x : Ledger(p, bots[p], x, life[p], srvLife[p], p \in news, p \in hurt, p \in resReq,
                        rested[p])
    BY LedgersAre
  <2>2. p \in news
    BY DEF LifeState
  <2> QED BY <2>1, <2>2 DEF Ledger
<1>6. Publishes(out)
  BY <1>1, <1>3, <1>5 DEF LifeState, Published, Publishes
<1>7. /\ life' = [life EXCEPT ![p] = srvLife[p]] /\ resReq' = resReq /\ option' = option
      /\ warpReq' = warpReq /\ stage' = stage /\ procSelf' = procSelf /\ near' = near
      /\ sees' = sees /\ count' = count /\ timers' = timers /\ srvLife' = srvLife
      /\ news' = news \ {p} /\ hurt' = hurt /\ rested' = rested /\ p \in news
  BY DEF LifeState
<1>8. life'[p] = srvLife[p] /\ \A q \in Players : q # p => life'[q] = life[q]
  BY <1>4, <1>7
<1>9. Settles(p, out)
  <2> SUFFICES ASSUME NEW b, NEW y, NEW y1, NEW t, Grown(y, y1, out, t) PROVE Follows(p, b, y, y1)
    BY DEF Settles
  <2>1. Lives(p) \in Plain
    BY PlainIs
  <2>2. OnceIn(out, Lives(p))
    BY <1>1, <1>2, OneIs, EventIs
  <2>3. Holds(y1, Lives(p)) /\ (~Holds(y, Lives(p)) => OnceIn(y1, Lives(p)))
    BY <1>3, <2>1, <2>2, WaitingIs, More
  <2>4. /\ p \notin news' /\ p \in news /\ (p \in hurt' <=> p \in hurt)
        /\ (p \in resReq' <=> p \in resReq) /\ srvLife'[p] = srvLife[p] /\ rested'[p] = rested[p]
        /\ srvLife[p] \in {"alive", "dead"}
    BY <1>4, <1>7
  <2> QED BY <1>8, <2>3, <2>4 DEF Follows, Ledger
<1>10. ASSUME NEW q \in Players PROVE Settles(q, out) /\ (rested[q] => rested'[q])
  <2>1. CASE q = p
    BY <1>7, <1>9, <2>1
  <2>2. CASE q # p
    <3>1. Untouched(q)
      BY <1>7, <1>8, <2>2 DEF Untouched
    <3> QED BY <1>3, <1>7, <2>2, <3>1, UntouchedSettles
  <2> QED BY <2>1, <2>2
<1>11. \A q \in Players : q \notin resReq /\ life[q] = "dead" /\ srvLife[q] = "dead" =>
        q \notin resReq' /\ life'[q] = "dead" /\ srvLife'[q] = "dead"
  BY <1>5, <1>7, <1>8
<1>12. ~Calm
  BY <1>7 DEF Calm
<1>13. Typed' /\ Counted'
  BY <1>4, <1>6, <1>7 DEF MatchesInv, Typed, Publishes, Counted
<1> QED BY <1>3, <1>6, <1>7, <1>10, <1>11, <1>12, <1>13, QuietlyKeeps

-----------------------------------------------------------------------------
(* The steps of the journey.                                               *)

LEMMA OthersAre ==
  /\ P1 \in Players /\ P2 \in Players /\ P1 # P2 /\ Players = {P1, P2}
  /\ Others(P1) = P2 /\ Others(P2) = P1
  /\ \A s, p \in Players : s # p => s = Others(p) /\ p = Others(s)
  BY PlayersAre DEF Others

LEMMA CountsAre ==
  ASSUME MatchesInv, NEW p \in Players
  PROVE  /\ count[p] = (IF p \in sees[Others(p)] THEN 1 ELSE 0) + (IF procSelf[p] THEN 1 ELSE 0)
         /\ p \notin sees[p] /\ (p \in sees[Others(p)] => procSelf[p])
  BY DEF MatchesInv, Counted

LEMMA OutOfSightKeeps ==
  ASSUME MatchesInv, NEW s \in Players, NEW p \in Players, OutOfSight(s, p)
  PROVE  MatchesInv'
<1>1. PICK nil : nil = <<>>
  OBVIOUS
<1>2. /\ nil \in Seq(EventSet) /\ \A A : ~Holds(nil, A) /\ Within(nil, A)
      /\ \A w \in Seq(EventSet) : w \o nil = w
  BY <1>1, NilIs
<1>3. /\ queue \in Seq(EventSet) /\ timers \subseteq TimerId /\ count \in [Players -> 0..2]
      /\ sees \in [Players -> SUBSET Players]
  BY DEF MatchesInv, QueueOK, Typed
<1>4. /\ p \in sees[s] /\ sees' = [sees EXCEPT ![s] = @ \ {p}]
      /\ count' = [count EXCEPT ![p] = @ - 1]
      /\ queue' = IF count[p] = 1 THEN Published(<<Event("EntityDespawned", p)>>) ELSE queue
      /\ UNCHANGED <<bots, turn, timers, ready, nextPvpId, procSelf, life, near, stage, srvLife,
                     news, option, warpReq, resReq, hurt, rested, errors, reports>>
  BY DEF OutOfSight, Despawned
<1>5. p \notin sees[p]
  BY CountsAre
<1>6. s = Others(p) /\ s # p
  BY <1>4, <1>5, OthersAre
<1>7. procSelf[p] /\ count[p] = 2
  BY <1>4, <1>6, CountsAre
<1>8. count'[p] = 1 /\ \A q \in Players : q # p => count'[q] = count[q]
  BY <1>3, <1>4, <1>7
<1>9. Publishes(nil)
  BY <1>2, <1>3, <1>4, <1>7 DEF Publishes
<1>10. Typed'
  <2>1. count' \in [Players -> 0..2]
    <3>1. 2 - 1 \in 0..2
      OBVIOUS
    <3> QED BY <1>3, <1>4, <1>7, <3>1
  <2>2. sees' \in [Players -> SUBSET Players]
    BY <1>3, <1>4
  <2> QED BY <1>4, <2>1, <2>2 DEF MatchesInv, Typed
<1>11. Counted'
  <2> SUFFICES ASSUME NEW q \in Players
               PROVE  /\ q \notin sees'[q] /\ (q \in sees'[Others(q)] => procSelf'[q])
                      /\ count'[q] = (IF q \in sees'[Others(q)] THEN 1 ELSE 0)
                                     + (IF procSelf'[q] THEN 1 ELSE 0)
    BY DEF Counted, Others
  <2>1. Others(q) \in Players
    BY OthersAre
  <2>2. CASE q = p
    <3>1. q \notin sees'[q] /\ q \notin sees'[Others(q)]
      BY <1>3, <1>4, <1>5, <1>6, <2>2
    <3> QED BY <1>4, <1>7, <1>8, <2>2, <3>1
  <2>3. CASE q # p
    <3>1. Others(q) # s /\ q = s
      BY <1>6, <2>3, OthersAre
    <3>2. sees'[Others(q)] = sees[Others(q)] /\ q \notin sees'[q]
      <4>1. q \notin sees[q]
        BY CountsAre
      <4> QED BY <1>3, <1>4, <2>1, <3>1, <4>1
    <3> QED BY <1>4, <1>8, <2>3, <3>2, CountsAre
  <2> QED BY <2>2, <2>3
<1>12. \A q \in Players : Settles(q, nil)
  <2>1. \A q \in Players : Untouched(q)
    BY <1>4 DEF Untouched
  <2> QED BY <1>2, <2>1, UntouchedSettles
<1>13. Calm => \A q \in Players : rested[q] /\ life[q] = "alive"
  BY DEF Calm
<1> QED BY <1>2, <1>4, <1>9, <1>10, <1>11, <1>12, <1>13, QuietlyKeeps DEF Calm

LEMMA IntoSightKeeps ==
  ASSUME MatchesInv, NEW s \in Players, NEW p \in Players, IntoSight(s, p)
  PROVE  MatchesInv'
<1>1. PICK nil : nil = <<>>
  OBVIOUS
<1>2. /\ nil \in Seq(EventSet) /\ \A A : ~Holds(nil, A) /\ Within(nil, A)
      /\ \A w \in Seq(EventSet) : w \o nil = w
  BY <1>1, NilIs
<1>3. /\ queue \in Seq(EventSet) /\ timers \subseteq TimerId /\ count \in [Players -> 0..2]
      /\ sees \in [Players -> SUBSET Players]
  BY DEF MatchesInv, QueueOK, Typed
<1>4. /\ s # p /\ p \notin sees[s] /\ sees' = [sees EXCEPT ![s] = @ \cup {p}]
      /\ \A q \in Players : stage[q] = "in" /\ near[q]
      /\ count' = [count EXCEPT ![p] = @ + 1]
      /\ queue' = IF count[p] = 0 THEN Published(<<Event("EntitySpawned", p)>>) ELSE queue
      /\ life' = IF count[p] = 0 THEN [life EXCEPT ![p] = srvLife[p]] ELSE life
      /\ UNCHANGED <<bots, turn, timers, ready, nextPvpId, procSelf, near, stage, srvLife, news,
                     option, warpReq, resReq, hurt, rested, errors, reports>>
  BY DEF IntoSight, Spawned
<1>5. p \notin sees[p]
  BY CountsAre
<1>6. s = Others(p)
  BY <1>4, OthersAre
<1>7. procSelf[p] /\ count[p] = 1
  <2>1. procSelf[P1] /\ procSelf[P2]
    BY <1>4, OthersAre DEF MatchesInv, Placed, Journey, Far, Leaving, Resetting, Loading, Entering
  <2>2. procSelf[p]
    BY <2>1, OthersAre
  <2> QED BY <1>4, <1>6, <2>2, CountsAre
<1>8. count'[p] = 2 /\ \A q \in Players : q # p => count'[q] = count[q]
  BY <1>3, <1>4, <1>7
<1>9. Publishes(nil)
  BY <1>2, <1>3, <1>4, <1>7 DEF Publishes
<1>10. Typed'
  <2>1. count' \in [Players -> 0..2]
    <3>1. 1 + 1 \in 0..2
      OBVIOUS
    <3> QED BY <1>3, <1>4, <1>7, <3>1
  <2>2. sees' \in [Players -> SUBSET Players]
    BY <1>3, <1>4
  <2> QED BY <1>4, <1>7, <2>1, <2>2 DEF MatchesInv, Typed
<1>11. Counted'
  <2> SUFFICES ASSUME NEW q \in Players
               PROVE  /\ q \notin sees'[q] /\ (q \in sees'[Others(q)] => procSelf'[q])
                      /\ count'[q] = (IF q \in sees'[Others(q)] THEN 1 ELSE 0)
                                     + (IF procSelf'[q] THEN 1 ELSE 0)
    BY DEF Counted, Others
  <2>1. Others(q) \in Players
    BY OthersAre
  <2>2. CASE q = p
    <3>1. q \notin sees'[q] /\ q \in sees'[Others(q)]
      BY <1>3, <1>4, <1>5, <1>6, <2>2
    <3> QED BY <1>4, <1>7, <1>8, <2>2, <3>1
  <2>3. CASE q # p
    <3>1. Others(q) # s /\ q = s
      BY <1>4, <1>6, <2>3, OthersAre
    <3>2. sees'[Others(q)] = sees[Others(q)] /\ q \notin sees'[q]
      <4>1. q \notin sees[q]
        BY CountsAre
      <4> QED BY <1>3, <1>4, <2>1, <3>1, <4>1
    <3> QED BY <1>4, <1>8, <2>3, <3>2, CountsAre
  <2> QED BY <2>2, <2>3
<1>12. \A q \in Players : Settles(q, nil)
  <2>1. \A q \in Players : Untouched(q)
    BY <1>4, <1>7 DEF Untouched
  <2> QED BY <1>2, <2>1, UntouchedSettles
<1> QED BY <1>2, <1>4, <1>7, <1>9, <1>10, <1>11, <1>12, QuietlyKeeps DEF Calm

LEMMA LeaveKeeps ==
  ASSUME MatchesInv, NEW p \in Players, Leave(p)
  PROVE  MatchesInv'
<1>1. PICK nil : nil = <<>>
  OBVIOUS
<1>2. /\ nil \in Seq(EventSet) /\ \A A : ~Holds(nil, A) /\ Within(nil, A)
      /\ \A w \in Seq(EventSet) : w \o nil = w
  BY <1>1, NilIs
<1>3. /\ queue \in Seq(EventSet) /\ timers \subseteq TimerId /\ warpReq \subseteq Players
      /\ stage \in [Players -> {"in", "leaving", "reset", "loading", "entering"}]
  BY DEF MatchesInv, QueueOK, Typed
<1>4. Publishes(nil)
  BY <1>2, <1>3 DEF Leave, Publishes, broker
<1>5. /\ p \in warpReq /\ warpReq' = warpReq \ {p} /\ stage' = [stage EXCEPT ![p] = "leaving"]
      /\ UNCHANGED <<bots, queue, timers, procSelf, count, life, near, sees, srvLife, news, option,
                     resReq, hurt, rested>>
  BY DEF Leave, world, broker
<1>6. p = P2 /\ P1 \notin warpReq
  BY <1>5, OthersAre DEF MatchesInv, Placed
<1>7. Calm /\ Far
  BY <1>5, <1>6 DEF MatchesInv, Journey, Placed, Leaving, Resetting, Loading, Entering, Travelling
<1>8. warpReq' = {} /\ bots[P2].child = "prepare"
  BY <1>3, <1>5, <1>6, <1>7, OthersAre DEF Far
<1>9. stage'[P2] = "leaving" /\ stage'[P1] = stage[P1]
  BY <1>3, <1>5, <1>6, OthersAre
<1>10. Calm'
  BY <1>5, <1>7 DEF Calm
<1>11. Leaving'
  BY <1>5, <1>7, <1>8, <1>9 DEF Leaving, Travelling, Far
<1>12. Placed(P1)' /\ Within(queue', OnJourney)
  BY <1>5, <1>8, <1>9 DEF MatchesInv, Placed
<1>13. Journey'
  BY <1>10, <1>11 DEF Journey
<1>14. Typed' /\ Counted'
  <2>1. stage' \in [Players -> {"in", "leaving", "reset", "loading", "entering"}]
    BY <1>3, <1>5
  <2> QED BY <1>4, <1>5, <2>1 DEF MatchesInv, Typed, Publishes, Counted
<1>15. \A q \in Players : Settles(q, nil) /\ (rested[q] => rested'[q])
  <2>1. \A q \in Players : Untouched(q)
    BY <1>5 DEF Untouched
  <2> QED BY <1>2, <1>5, <2>1, UntouchedSettles
<1>16. stage[P2] \notin {"reset", "loading"}
  BY <1>7 DEF Far
<1> QED BY <1>2, <1>4, <1>5, <1>12, <1>13, <1>14, <1>15, <1>16, PublishingKeeps

(* Two events about the traveller.                                         *)
LEMMA CoupleIs ==
  ASSUME NEW a \in TravelKinds, NEW b \in TravelKinds, a # b, NEW q, q \in Seq(EventSet), Within(q, Quiet)
  PROVE  LET out == <<Event(a, P2)>> \o <<Event(b, P2)>>
             w == q \o out
         IN /\ out \in Seq(EventSet) /\ Within(out, Routine) /\ Within(out, OnJourney)
            /\ Within(out, Harmless) /\ \A p : ~Holds(out, Lives(p))
            /\ Holds(out, Ev(a)) /\ Holds(w, Ev(a)) /\ Holds(w, Ev(b))
            /\ OnlyAfter(w, Ev(b), Quiet)
            /\ \A kind \in TravelKinds : kind \notin {a, b} => ~Holds(w, Ev(kind))
            /\ Within(q, OnJourney) => Within(w, OnJourney)
            /\ Within(q, Harmless) => Within(w, Harmless)
<1>1. PICK d, e : d = Event(a, P2) /\ e = Event(b, P2)
  OBVIOUS
<1>2. /\ a \in PlayerKinds /\ b \in PlayerKinds /\ P2 \in Players
      /\ a \notin {"ReadyForAssignment", "ReadyForPvp", "BeginPvp", "LifeStateChanged", "ResurrectOption"}
      /\ b \notin {"ReadyForAssignment", "ReadyForPvp", "BeginPvp", "LifeStateChanged", "ResurrectOption"}
  BY OthersAre DEF PlayerKinds, TravelKinds
<1>3. /\ d \in EventSet /\ d.kind = a /\ d.about = P2
      /\ e \in EventSet /\ e.kind = b /\ e.about = P2
  BY <1>1, <1>2, EventIs
<1>4. /\ {d, e} \subseteq Routine /\ {d, e} \subseteq OnJourney /\ {d, e} \subseteq Harmless
      /\ \A p : d \notin Lives(p) /\ e \notin Lives(p)
      /\ \A kind : (d \in Ev(kind) <=> kind = a) /\ (e \in Ev(kind) <=> kind = b)
  BY <1>2, <1>3 DEF Routine, OnJourney, Harmless, Lives, EvOf, Ev
<1>5. PICK s : s = <<d>>
  OBVIOUS
<1>6. s \in Seq(EventSet) /\ s \o <<e>> \in Seq(EventSet)
  BY <1>3, <1>5
<1>7. \A A : /\ Holds(s, A) <=> d \in A
             /\ Within(s, A) <=> d \in A
  BY <1>3, <1>5, OneIs
<1>8. \A A : /\ Holds(s \o <<e>>, A) <=> (Holds(s, A) \/ e \in A)
             /\ Within(s \o <<e>>, A) <=> (Within(s, A) /\ e \in A)
  BY <1>3, <1>6, OneMore
<1>9. PICK v : v = q \o <<d>>
  OBVIOUS
<1>10. v \in Seq(EventSet) /\ q \o (s \o <<e>>) = v \o <<e>>
  BY <1>3, <1>5, <1>9
<1>11. \A A, B : /\ Holds(v, A) <=> (Holds(q, A) \/ d \in A)
                 /\ Within(v, A) <=> (Within(q, A) /\ d \in A)
                 /\ OnlyAfter(v, A, B) <=> (OnlyAfter(q, A, B) /\ (Holds(q, A) => d \in B))
  BY <1>3, <1>9, OneMore
<1>12. \A A, B : /\ Holds(v \o <<e>>, A) <=> (Holds(v, A) \/ e \in A)
                 /\ Within(v \o <<e>>, A) <=> (Within(v, A) /\ e \in A)
                 /\ OnlyAfter(v \o <<e>>, A, B) <=> (OnlyAfter(v, A, B) /\ (Holds(v, A) => e \in B))
  BY <1>3, <1>10, OneMore
<1>13. \A kind \in TravelKinds : ~Holds(q, Ev(kind))
  <2>1. TAKE kind \in TravelKinds
  <2>2. Quiet \cap Ev(kind) = {}
    BY DEF Quiet, Ev
  <2> QED BY <2>2, Subsets
<1>14. ~Holds(v, Ev(b))
  BY <1>4, <1>11, <1>13
<1>15. OnlyAfter(v \o <<e>>, Ev(b), Quiet)
  BY <1>12, <1>14, More
<1>16. PICK out, w : out = s \o <<e>> /\ w = q \o out
  OBVIOUS
<1>17. w = v \o <<e>>
  BY <1>10, <1>16
<1>18. /\ out \in Seq(EventSet) /\ Within(out, Routine) /\ Within(out, OnJourney)
       /\ Within(out, Harmless) /\ \A p : ~Holds(out, Lives(p))
       /\ Holds(out, Ev(a))
  BY <1>4, <1>6, <1>7, <1>8, <1>16
<1>19. /\ Holds(w, Ev(a)) /\ Holds(w, Ev(b)) /\ OnlyAfter(w, Ev(b), Quiet)
       /\ \A kind \in TravelKinds : kind \notin {a, b} => ~Holds(w, Ev(kind))
  BY <1>4, <1>11, <1>12, <1>13, <1>15, <1>17
<1>20. /\ Within(q, OnJourney) => Within(w, OnJourney)
       /\ Within(q, Harmless) => Within(w, Harmless)
  BY <1>4, <1>11, <1>12, <1>17
<1> QED BY <1>1, <1>5, <1>16, <1>18, <1>19, <1>20

LEMMA GameResetKeeps ==
  ASSUME MatchesInv, NEW p \in Players, GameReset(p)
  PROVE  MatchesInv'
<1>1. /\ queue \in Seq(EventSet) /\ timers \subseteq TimerId /\ count \in [Players -> 0..2]
      /\ stage \in [Players -> {"in", "leaving", "reset", "loading", "entering"}]
      /\ procSelf \in [Players -> BOOLEAN] /\ Placed(P1) /\ Within(queue, OnJourney)
  BY DEF MatchesInv, QueueOK, Typed
<1>2. p = P2
  BY OthersAre DEF GameReset, MatchesInv, Placed
<1>3. Calm /\ Leaving
  BY <1>2 DEF GameReset, MatchesInv, Journey, Placed, Far, Resetting, Loading, Entering
<1>4. Within(queue, Quiet) /\ procSelf[P2]
  BY <1>3 DEF Leaving
<1>5. P2 \notin sees[P1] /\ count[P2] = 1
  <2>1. P2 \notin sees[P1]
    BY <1>2, OthersAre DEF GameReset
  <2> QED BY <1>4, <2>1, OthersAre, CountsAre
<1>6. PICK a, b, q, out : /\ a = "EntityDespawned" /\ b = "GameReset" /\ q = queue
                          /\ out = <<Event(a, P2)>> \o <<Event(b, P2)>>
  OBVIOUS
<1>7. a \in TravelKinds /\ b \in TravelKinds /\ a # b /\ q \in Seq(EventSet) /\ Within(q, Quiet)
  BY <1>1, <1>4, <1>6 DEF TravelKinds
<1>8. /\ out \in Seq(EventSet) /\ Within(out, Routine) /\ \A r : ~Holds(out, Lives(r))
      /\ Holds(q \o out, Ev(a)) /\ Holds(q \o out, Ev(b)) /\ OnlyAfter(q \o out, Ev(b), Quiet)
      /\ \A kind \in TravelKinds : kind \notin {a, b} => ~Holds(q \o out, Ev(kind))
      /\ Within(q, OnJourney) => Within(q \o out, OnJourney)
      /\ Within(q, Harmless) => Within(q \o out, Harmless)
  BY <1>6, <1>7, CoupleIs
<1>9. /\ stage' = [stage EXCEPT ![P2] = "reset"] /\ procSelf' = [procSelf EXCEPT ![P2] = FALSE]
      /\ count' = [count EXCEPT ![P2] = @ - 1]
      /\ UNCHANGED <<bots, turn, timers, ready, nextPvpId, life, near, sees, srvLife, news, option,
                     warpReq, resReq, hurt, rested, errors, reports>>
  BY <1>2 DEF GameReset
<1>10. queue' = q \o out
  BY <1>2, <1>5, <1>6 DEF GameReset, Published
<1>11. Publishes(out)
  BY <1>6, <1>8, <1>9, <1>10 DEF Publishes
<1>12. /\ stage'[P2] = "reset" /\ stage'[P1] = stage[P1] /\ ~procSelf'[P2]
       /\ procSelf'[P1] = procSelf[P1] /\ count'[P2] = 0 /\ count'[P1] = count[P1]
  BY <1>1, <1>5, <1>9, OthersAre
<1>13. Calm'
  <2>1. Within(queue', Harmless)
    BY <1>3, <1>6, <1>8, <1>10 DEF Calm
  <2> QED BY <1>3, <1>9, <2>1 DEF Calm
<1>14. Resetting'
  <2>1. /\ Holds(queue', Ev("GameReset")) /\ OnlyAfter(queue', Ev("GameReset"), Quiet)
        /\ ~Holds(queue', Ev("SelfSpawned")) /\ ~Holds(queue', Ev("EntitySpawned"))
        /\ Holds(queue', Ev("EntityDespawned"))
    BY <1>6, <1>8, <1>10 DEF TravelKinds
  <2> QED BY <1>3, <1>9, <1>12, <2>1 DEF Resetting, Leaving, Travelling
<1>15. Journey'
  BY <1>13, <1>14 DEF Journey
<1>16. Placed(P1)' /\ Within(queue', OnJourney)
  BY <1>1, <1>6, <1>8, <1>9, <1>10, <1>12 DEF Placed
<1>17. Typed'
  <2>1. /\ stage' \in [Players -> {"in", "leaving", "reset", "loading", "entering"}]
        /\ procSelf' \in [Players -> BOOLEAN]
    BY <1>1, <1>9
  <2>2. count' \in [Players -> 0..2]
    <3>1. 1 - 1 \in 0..2
      OBVIOUS
    <3> QED BY <1>1, <1>5, <1>9, <3>1
  <2> QED BY <1>9, <2>1, <2>2 DEF MatchesInv, Typed
<1>18. Counted'
  <2>1. /\ P1 \notin sees[P1] /\ (P1 \in sees[P2] => procSelf[P1]) /\ P2 \notin sees[P2]
        /\ count[P1] = (IF P1 \in sees[P2] THEN 1 ELSE 0) + (IF procSelf[P1] THEN 1 ELSE 0)
    BY OthersAre, CountsAre
  <2>2. sees' = sees
    BY <1>9
  <2> SUFFICES ASSUME NEW r \in Players
               PROVE  /\ r \notin sees'[r] /\ (r \in sees'[Others(r)] => procSelf'[r])
                      /\ count'[r] = (IF r \in sees'[Others(r)] THEN 1 ELSE 0)
                                     + (IF procSelf'[r] THEN 1 ELSE 0)
    BY DEF Counted, Others
  <2>3. CASE r = P1
    BY <1>12, <2>1, <2>2, <2>3, OthersAre
  <2>4. CASE r = P2
    BY <1>5, <1>12, <2>1, <2>2, <2>4, OthersAre
  <2> QED BY <2>3, <2>4, OthersAre
<1>19. \A r \in Players : Settles(r, out) /\ (rested[r] => rested'[r])
  <2>1. \A r \in Players : Untouched(r)
    BY <1>9 DEF Untouched
  <2> QED BY <1>8, <1>9, <2>1, UntouchedSettles
<1>20. stage'[P2] \in {"reset", "loading"}
  BY <1>12
<1> QED BY <1>8, <1>9, <1>11, <1>15, <1>16, <1>17, <1>18, <1>19, <1>20, PublishingKeeps

LEMMA CharacterDataKeeps ==
  ASSUME MatchesInv, NEW p \in Players, CharacterData(p)
  PROVE  MatchesInv'
<1>1. /\ queue \in Seq(EventSet) /\ timers \subseteq TimerId /\ count \in [Players -> 0..2]
      /\ stage \in [Players -> {"in", "leaving", "reset", "loading", "entering"}]
      /\ procSelf \in [Players -> BOOLEAN] /\ Placed(P1) /\ Within(queue, OnJourney)
      /\ near \in [Players -> BOOLEAN]
      /\ life \in [Players -> {"alive", "dead"}] /\ srvLife \in [Players -> {"alive", "dead"}]
  BY DEF MatchesInv, QueueOK, Typed
<1>2. p = P2
  BY OthersAre DEF CharacterData, MatchesInv, Placed
<1>3. Calm /\ Loading
  BY <1>2 DEF CharacterData, MatchesInv, Journey, Placed, Far, Resetting, Leaving, Entering
<1>4. Within(queue, Quiet) /\ ~procSelf[P2]
  BY <1>3 DEF Loading
<1>5. P2 \notin sees[P1] /\ count[P2] = 0
  BY <1>4, OthersAre, CountsAre
<1>6. PICK a, b, q, out : /\ a = "EntitySpawned" /\ b = "SelfSpawned" /\ q = queue
                          /\ out = <<Event(a, P2)>> \o <<Event(b, P2)>>
  OBVIOUS
<1>7. a \in TravelKinds /\ b \in TravelKinds /\ a # b /\ q \in Seq(EventSet) /\ Within(q, Quiet)
  BY <1>1, <1>4, <1>6 DEF TravelKinds
<1>8. /\ out \in Seq(EventSet) /\ Within(out, Routine) /\ \A r : ~Holds(out, Lives(r))
      /\ Holds(out, Ev(a))
      /\ Holds(q \o out, Ev(a)) /\ Holds(q \o out, Ev(b)) /\ OnlyAfter(q \o out, Ev(b), Quiet)
      /\ \A kind \in TravelKinds : kind \notin {a, b} => ~Holds(q \o out, Ev(kind))
      /\ Within(q, OnJourney) => Within(q \o out, OnJourney)
      /\ Within(q, Harmless) => Within(q \o out, Harmless)
  BY <1>6, <1>7, CoupleIs
<1>9. /\ stage' = [stage EXCEPT ![P2] = "entering"] /\ procSelf' = [procSelf EXCEPT ![P2] = TRUE]
      /\ count' = [count EXCEPT ![P2] = @ + 1] /\ near' = [near EXCEPT ![P2] = TRUE]
      /\ life' = [life EXCEPT ![P2] = srvLife[P2]]
      /\ UNCHANGED <<bots, turn, timers, ready, nextPvpId, sees, srvLife, news, option,
                     warpReq, resReq, hurt, rested, errors, reports>>
  BY <1>2 DEF CharacterData
<1>10. queue' = q \o out
  BY <1>2, <1>5, <1>6 DEF CharacterData, Published
<1>11. life' = life
  <2>1. PICK x : Ledger(P2, bots[P2], x, life[P2], srvLife[P2], P2 \in news, P2 \in hurt,
                        P2 \in resReq, rested[P2])
    BY OthersAre, LedgersAre
  <2>2. life[P2] = srvLife[P2]
    BY <1>3, <2>1 DEF Calm, Ledger
  <2> QED BY <1>1, <1>9, <2>2
<1>12. Publishes(out)
  BY <1>6, <1>8, <1>9, <1>10 DEF Publishes
<1>13. /\ stage'[P2] = "entering" /\ stage'[P1] = stage[P1] /\ procSelf'[P2]
       /\ procSelf'[P1] = procSelf[P1] /\ count'[P2] = 1 /\ count'[P1] = count[P1]
       /\ near'[P2] /\ near'[P1] = near[P1]
  BY <1>1, <1>5, <1>9, OthersAre
<1>14. Calm'
  <2>1. Within(queue', Harmless)
    BY <1>3, <1>6, <1>8, <1>10 DEF Calm
  <2> QED BY <1>3, <1>9, <1>11, <2>1 DEF Calm
<1>15. Entering'
  <2>1. /\ Holds(queue', Ev("SelfSpawned")) /\ OnlyAfter(queue', Ev("SelfSpawned"), Quiet)
        /\ ~Holds(queue', Ev("GameReset")) /\ ~Holds(queue', Ev("EntityDespawned"))
    BY <1>6, <1>8, <1>10 DEF TravelKinds
  <2> QED BY <1>3, <1>9, <1>13, <2>1 DEF Entering, Loading, Travelling
<1>16. Journey'
  BY <1>14, <1>15 DEF Journey
<1>17. Placed(P1)' /\ Within(queue', OnJourney)
  BY <1>1, <1>6, <1>8, <1>9, <1>10, <1>13 DEF Placed
<1>18. Typed'
  <2>1. /\ stage' \in [Players -> {"in", "leaving", "reset", "loading", "entering"}]
        /\ procSelf' \in [Players -> BOOLEAN] /\ near' \in [Players -> BOOLEAN]
    BY <1>1, <1>9
  <2>2. count' \in [Players -> 0..2]
    <3>1. 0 + 1 \in 0..2
      OBVIOUS
    <3> QED BY <1>1, <1>5, <1>9, <3>1
  <2> QED BY <1>9, <1>11, <2>1, <2>2 DEF MatchesInv, Typed
<1>19. Counted'
  <2>1. /\ P1 \notin sees[P1] /\ (P1 \in sees[P2] => procSelf[P1]) /\ P2 \notin sees[P2]
        /\ count[P1] = (IF P1 \in sees[P2] THEN 1 ELSE 0) + (IF procSelf[P1] THEN 1 ELSE 0)
    BY OthersAre, CountsAre
  <2>2. sees' = sees
    BY <1>9
  <2> SUFFICES ASSUME NEW r \in Players
               PROVE  /\ r \notin sees'[r] /\ (r \in sees'[Others(r)] => procSelf'[r])
                      /\ count'[r] = (IF r \in sees'[Others(r)] THEN 1 ELSE 0)
                                     + (IF procSelf'[r] THEN 1 ELSE 0)
    BY DEF Counted, Others
  <2>3. CASE r = P1
    BY <1>13, <2>1, <2>2, <2>3, OthersAre
  <2>4. CASE r = P2
    BY <1>5, <1>13, <2>1, <2>2, <2>4, OthersAre
  <2> QED BY <2>3, <2>4, OthersAre
<1>20. \A r \in Players : Settles(r, out) /\ (rested[r] => rested'[r])
  <2>1. \A r \in Players : Untouched(r)
    BY <1>9, <1>11 DEF Untouched
  <2> QED BY <1>8, <1>9, <2>1, UntouchedSettles
<1>21. Holds(out, Ev("EntitySpawned"))
  BY <1>6, <1>8
<1> QED BY <1>8, <1>9, <1>11, <1>12, <1>16, <1>17, <1>18, <1>19, <1>20, <1>21, PublishingKeeps

-----------------------------------------------------------------------------
(* TrainingManager's turn.                                                 *)

LEMMA OneOrTwo ==
  ASSUME NEW S, NEW s \in Seq(S), NEW a \in S, NEW b \in S
  PROVE  /\ Len(s) = 0 => s = <<>>
         /\ Len(s) = 1 /\ s[1] = a => s = <<a>>
         /\ Len(s) = 2 /\ s[1] = a /\ s[2] = b => s = <<a, b>>
  OBVIOUS

LEMMA Appending ==
  ASSUME NEW S, NEW a \in S, NEW b \in S
  PROVE  Append(<<a>>, b) = <<a, b>>
<1>1. PICK s : s = <<a>>
  OBVIOUS
<1>2. /\ Append(s, b) \in Seq(S) /\ Len(Append(s, b)) = 2
      /\ Append(s, b)[1] = a /\ Append(s, b)[2] = b
  BY <1>1
<1>3. PICK v : v = Append(s, b)
  OBVIOUS
<1>4. v \in Seq(S) /\ Len(v) = 2 /\ v[1] = a /\ v[2] = b
  BY <1>2, <1>3
<1>5. v = <<a, b>>
  BY ONLY a \in S, b \in S, <1>4, OneOrTwo
<1> QED BY <1>1, <1>3, <1>5

LEMMA Halves ==
  ASSUME NEW S, NEW a \in S, NEW b \in S, NEW s, s = <<a, b>>
  PROVE  /\ SubSeq(s, 1, 0) = <<>> /\ SubSeq(s, 3, 2) = <<>>
         /\ SubSeq(s, 1, 1) = <<a>> /\ SubSeq(s, 2, 2) = <<b>>
<1>1. SubSeq(s, 1, 0) = <<>> /\ SubSeq(s, 3, 2) = <<>>
  OBVIOUS
<1>2. SubSeq(s, 1, 1) \in Seq(S) /\ Len(SubSeq(s, 1, 1)) = 1 /\ SubSeq(s, 1, 1)[1] = a
  OBVIOUS
<1>3. SubSeq(s, 2, 2) \in Seq(S) /\ Len(SubSeq(s, 2, 2)) = 1 /\ SubSeq(s, 2, 2)[1] = b
  OBVIOUS
<1>4. PICK v, w : v = SubSeq(s, 1, 1) /\ w = SubSeq(s, 2, 2)
  OBVIOUS
<1>5. /\ v \in Seq(S) /\ Len(v) = 1 /\ v[1] = a
      /\ w \in Seq(S) /\ Len(w) = 1 /\ w[1] = b
  BY <1>2, <1>3, <1>4
<1>6. v = <<a>> /\ w = <<b>>
  BY ONLY a \in S, b \in S, <1>5, OneOrTwo
<1> QED BY <1>1, <1>4, <1>6

LEMMA WithoutIs ==
  ASSUME NEW a \in Players, NEW b \in Players, a # b
  PROVE  /\ Without(<<a, b>>, a) = <<b>> /\ Without(<<a, b>>, b) = <<a>>
         /\ Without(<<a>>, a) = <<>>
<1>1. ASSUME NEW s, NEW x, NEW k \in DOMAIN s, s[k] = x, \A j \in DOMAIN s : s[j] = x => j = k,
             k \in Nat, \A j \in 1..(k - 1) : j \in DOMAIN s
      PROVE  Without(s, x) = WithoutAt(s, k)
  <2>1. \A j \in 1..(k - 1) : s[j] # x
    BY <1>1
  <2>2. (CHOOSE i \in DOMAIN s : s[i] = x /\ \A j \in 1..(i - 1) : s[j] # x) = k
    BY <1>1, <2>1
  <2> QED BY <2>2 DEF Without
<1>2. PICK s, t : s = <<a, b>> /\ t = <<a>>
  OBVIOUS
<1>3. /\ s \in Seq(Players) /\ Len(s) = 2 /\ DOMAIN s = {1, 2} /\ s[1] = a /\ s[2] = b
      /\ t \in Seq(Players) /\ Len(t) = 1 /\ DOMAIN t = {1} /\ t[1] = a
  BY <1>2
<1>4. 1..(1 - 1) = {} /\ 1..(2 - 1) = {1}
  OBVIOUS
<1>5. Without(s, a) = WithoutAt(s, 1)
  BY <1>1, <1>3, <1>4
<1>6. Without(s, b) = WithoutAt(s, 2)
  BY <1>1, <1>3, <1>4
<1>7. Without(t, a) = WithoutAt(t, 1)
  BY <1>1, <1>3, <1>4
<1>8. WithoutAt(s, 1) = <<b>>
  <2>1. SubSeq(s, 1, 0) = <<>> /\ SubSeq(s, 2, 2) = <<b>> /\ Len(s) = 2
    BY <1>2, <1>3, Halves
  <2>2. SubSeq(s, 1, 1 - 1) = <<>> /\ SubSeq(s, 1 + 1, Len(s)) = <<b>>
    BY <2>1
  <2>3. <<>> \o <<b>> = <<b>>
    OBVIOUS
  <2> QED BY <2>2, <2>3, Zenon DEF WithoutAt
<1>9. WithoutAt(s, 2) = <<a>>
  <2>1. SubSeq(s, 1, 1) = <<a>> /\ SubSeq(s, 3, 2) = <<>> /\ Len(s) = 2
    BY <1>2, <1>3, Halves
  <2>2. SubSeq(s, 1, 2 - 1) = <<a>> /\ SubSeq(s, 2 + 1, Len(s)) = <<>>
    BY <2>1
  <2>3. <<a>> \o <<>> = <<a>>
    OBVIOUS
  <2> QED BY <2>2, <2>3, Zenon DEF WithoutAt
<1>10. WithoutAt(t, 1) = <<>>
  BY <1>2 DEF WithoutAt
<1> QED BY <1>2, <1>5, <1>6, <1>7, <1>8, <1>9, <1>10

(* What the trainer does: it lists the player, and pairs the two.          *)
Lists(h) ==
  /\ ready = <<>> /\ ready' = <<h>> /\ nextPvpId' = nextPvpId
  /\ queue' = queue \o <<>> /\ errors' = errors
PairsUp(h) ==
  /\ ready = <<Others(h)>> /\ ready' = <<>> /\ nextPvpId' \in MatchId
  /\ queue' = queue \o <<Event("BeginPvp", nextPvpId)>> /\ errors' = errors

LEMMA TrainerIs ==
  ASSUME MatchesInv, DeliverToTrainingManager
  PROVE  \E h \in Players :
           /\ Head(queue) \in Asks(h) /\ Asking(bots[h])
           /\ Lists(h) \/ PairsUp(h)
           /\ queue \in Seq(EventSet) /\ queue # <<>> /\ turn = 1 /\ turn' = 2 /\ ~Behind
           /\ Head(queue).kind = "ReadyForAssignment"
<1>1. QueueOK /\ Turn(Manager) /\ ready \in {<<>>, <<P1>>, <<P2>>} /\ nextPvpId \in MatchId
  BY DEF MatchesInv, DeliverToTrainingManager, Typed
<1>2. /\ queue # <<>> /\ ~Behind /\ turn = 1 /\ Head(queue).kind = "ReadyForAssignment"
      /\ queue \in Seq(EventSet) /\ Head(queue) \in EventSet /\ ManagerBox = queue
  BY <1>1, Turns
<1>3. PICK h : h = Head(queue).about
  OBVIOUS
<1>4. Len(Subscribers(Head(queue))) = 3
  BY <1>2, SubscribersAre
<1>5. h \in Players /\ Head(queue) \in Asks(h)
  BY <1>2, <1>3, EventsAre DEF Asks, EvOf, PlayerKinds
<1>6. Holds(queue, Asks(h))
  BY <1>1, <1>2, <1>5, HeadIs
<1>7. Asking(bots[h]) /\ ~IsListed(h)
  <2>1. CASE h = P1
    BY <1>2, <1>6, <2>1 DEF MatchesInv, RequestsOK, Tokens
  <2>2. CASE h = P2
    BY <1>2, <1>6, <2>2 DEF MatchesInv, RequestsOK, Tokens
  <2> QED BY <1>5, <2>1, <2>2, OthersAre
<1>8. /\ Others(h) \in Players /\ Others(h) # h /\ Players = {h, Others(h)}
      /\ ready \in {<<>>, <<Others(h)>>}
  <2>1. ready # <<h>>
    BY <1>7 DEF IsListed
  <2> QED BY <1>1, <1>5, <2>1, OthersAre
<1>9. PICK o : o = Others(h)
  OBVIOUS
<1>10. PICK listed : listed = Append(ready, h)
  OBVIOUS
<1>11. ASSUME NEW q, EndTurn(q) PROVE queue' = q /\ turn' = 2
  <2>1. turn # Len(Subscribers(Head(queue))) /\ turn + 1 = 2
    BY <1>2, <1>4
  <2> QED BY <1>11, <2>1 DEF EndTurn
<1>12. CASE ready = <<>>
  <2>1. listed = <<h>>
    BY <1>10, <1>12
  <2>2. ~In(o, listed)
    BY <1>8, <1>9, <2>1 DEF In
  <2>3. ~(In(P1, listed) /\ In(P2, listed))
    BY <1>5, <1>8, <1>9, <2>2, OthersAre
  <2>4. ready' = listed /\ EndTurn(queue) /\ errors' = errors /\ nextPvpId' = nextPvpId
    BY <1>3, <1>10, <2>3 DEF DeliverToTrainingManager
  <2>5. queue \o <<>> = queue
    BY <1>2
  <2>6. Lists(h) /\ turn' = 2
    BY <1>11, <1>12, <2>1, <2>4, <2>5 DEF Lists
  <2> QED BY <1>2, <1>5, <1>7, <2>6
<1>13. CASE ready = <<o>>
  <2>1. listed = <<o, h>>
    <3>1. Append(<<o>>, h) = <<o, h>>
      BY <1>5, <1>8, <1>9, Appending
    <3> QED BY <1>10, <1>13, <3>1
  <2>2. In(o, listed) /\ In(h, listed)
    <3>1. 1 \in DOMAIN listed /\ 2 \in DOMAIN listed /\ listed[1] = o /\ listed[2] = h
      BY <2>1
    <3> QED BY <3>1 DEF In
  <2>3. In(P1, listed) /\ In(P2, listed)
    BY <1>5, <1>8, <1>9, <2>2, OthersAre
  <2>4. Asking(bots[P2])
    <3>1. IsListed(o)
      BY <1>13 DEF IsListed
    <3>2. CASE o = P2
      BY <3>1, <3>2 DEF MatchesInv, RequestsOK, Tokens
    <3>3. CASE h = P2
      BY <1>7, <3>3
    <3> QED BY <1>8, <1>9, <3>2, <3>3, OthersAre
  <2>5. \A p \in Players : bots[p].selfEntity
    <3>1. bots[P1].selfEntity
      BY DEF MatchesInv, Placed
    <3>2. ~Travelling
      BY <2>4 DEF Travelling, MatchesInv, Shapes, Shape, Asking
    <3>3. bots[P2].selfEntity
      BY <3>2 DEF MatchesInv, Journey, Placed, Far, Leaving, Resetting, Loading, Entering
    <3> QED BY <3>1, <3>3, OthersAre
  <2>6. Assign(listed) = <<>>
    <3>1. CASE o = P1
      <4>1. h = P2
        BY <1>5, <1>8, <1>9, <3>1, OthersAre
      <4>2. Without(listed, P1) = <<P2>> /\ Without(<<P2>>, P2) = <<>>
        BY <2>1, <3>1, <4>1, OthersAre, WithoutIs
      <4> QED BY <4>2 DEF Assign
    <3>2. CASE o = P2
      <4>1. h = P1
        BY <1>5, <1>8, <1>9, <3>2, OthersAre
      <4>2. Without(listed, P1) = <<P2>> /\ Without(<<P2>>, P2) = <<>>
        BY <2>1, <3>2, <4>1, OthersAre, WithoutIs
      <4> QED BY <4>2 DEF Assign
    <3> QED BY <1>8, <1>9, <3>1, <3>2, OthersAre
  <2>7. /\ ready' = Assign(listed) /\ EndTurn(Published(<<Event("BeginPvp", nextPvpId)>>))
        /\ errors' = errors /\ nextPvpId' = (nextPvpId % Matches) + 1
    BY <1>3, <1>10, <2>3, <2>5 DEF DeliverToTrainingManager
  <2>8. nextPvpId' \in MatchId
    BY <1>1, <2>7, PvpMatchesAssumption DEF MatchId
  <2>9. PairsUp(h) /\ turn' = 2
    BY <1>9, <1>11, <1>13, <2>6, <2>7, <2>8 DEF PairsUp, Published
  <2> QED BY <1>2, <1>5, <1>7, <2>9
<1> QED BY <1>8, <1>9, <1>12, <1>13

LEMMA TokensHandled ==
  ASSUME NEW q \in Players, NEW m, NEW x, NEW x1, NEW out, NEW t, Grown(x, x1, out, t),
         OnceIn(out, Begins), NEW w, NEW w1, NEW listed, NEW lists, Tokens(q, m, x, w, listed),
         OnceIn(w, Asks(q)) => OnceIn(w1, Asks(q)),
         Holds(w1, Asks(q)) => Holds(w, Asks(q)) /\ ~lists /\ ~Holds(out, Begins),
         lists => ~Holds(out, Begins) /\ (listed \/ Holds(w, Asks(q))),
         Holds(out, Begins) => listed \/ Holds(w, Asks(q))
  PROVE  Tokens(q, m, x1, w1, lists)
<1>1. /\ Holds(x1, Begins) <=> (Holds(x, Begins) \/ Holds(out, Begins))
      /\ OnceIn(x, Begins) /\ OnceIn(out, Begins) /\ ~(Holds(x, Begins) /\ Holds(out, Begins)) =>
           OnceIn(x1, Begins)
  BY WaitingIs, PlainIs
<1> QED BY <1>1 DEF Tokens

(* A pair that has been assigned has had nothing to report.                *)
LEMMA PairAssigned ==
  ASSUME NEW p \in Players, NEW o \in Players, NEW m, NEW n, NEW y, NEW y1, NEW out, NEW t,
         Grown(y, y1, out, t), ~Holds(out, Reports(o)), NEW rest, NEW left, NEW lefts,
         Pair(p, o, m, n, y, rest, left), Asking(m), Asking(n), ~Standing(m), ~Standing(n)
  PROVE  Pair(p, o, m, n, y1, rest, lefts)
<1>1. ~Holds(y, Reports(o))
  BY DEF Pair
<1>2. ~Holds(y1, Reports(o))
  BY <1>1, WaitingIs, PlainIs
<1>3. OnceIn(y1, Reports(o))
  BY <1>2, More
<1>4. m.descriptor = NoMatch
  BY DEF Asking
<1> QED BY <1>2, <1>3, <1>4 DEF Pair

LEMMA TrainerBoxes ==
  ASSUME MatchesInv, NEW out \in Seq(EventSet), queue' = queue \o out, turn = 1, turn' = 2,
         ~Behind, queue # <<>>, Head(queue).kind = "ReadyForAssignment", bots' = bots,
         NEW none, none = NoTimer
  PROVE  /\ QueueOK' /\ Boxed(out) /\ ManagerBox = queue
         /\ Grown(Tail(queue), ManagerBox', out, none)
<1>1. queue \in Seq(EventSet)
  BY DEF MatchesInv, QueueOK
<1>2. PICK h, y : h = Head(queue) /\ y = Tail(queue)
  OBVIOUS
<1>3. h \in EventSet /\ y \in Seq(EventSet) /\ queue = <<h>> \o y
  BY <1>1, <1>2
<1>4. /\ y \o out \in Seq(EventSet) /\ (<<h>> \o y) \o out = <<h>> \o (y \o out)
      /\ \A v \in Seq(EventSet) : <<h>> \o v \in Seq(EventSet) /\ <<h>> \o v # <<>>
                                  /\ Head(<<h>> \o v) = h /\ Tail(<<h>> \o v) = v
  <2>1. y \o out \in Seq(EventSet) /\ (<<h>> \o y) \o out = <<h>> \o (y \o out)
    BY <1>3, Joined
  <2>2. \A v \in Seq(EventSet) : /\ <<h>> \o v \in Seq(EventSet) /\ <<h>> \o v # <<>>
                                 /\ Head(<<h>> \o v) = h /\ Tail(<<h>> \o v) = v
    BY <1>3, Headed
  <2> QED BY <2>1, <2>2
<1>5. PICK v : v = y \o out
  OBVIOUS
<1>6. queue' \in Seq(EventSet) /\ queue' # <<>> /\ Head(queue') = h /\ Tail(queue') = v
  BY <1>3, <1>4, <1>5
<1>7. Len(Subscribers(h)) = 3
  BY <1>2, SubscribersAre
<1>8. QueueOK' /\ ~Behind'
  <2>1. 2 \in 1..3 /\ 2 <= 3 /\ 2 # 3
    OBVIOUS
  <2> QED BY <1>6, <1>7, <2>1 DEF QueueOK, Behind
<1>9. \A w \in Seq(EventSet) : Grown(w, w \o out, out, none)
  BY SparesNone, GrownIs
<1>10. Grown(queue, queue', out, none) /\ Grown(y, v, out, none)
  BY <1>1, <1>3, <1>5, <1>9
<1>11. Box1 = queue /\ Box1' = queue' /\ ManagerBox = queue /\ ManagerBox' = v
  BY <1>6, <1>8 DEF Box1, ManagerBox
<1> QED BY <1>2, <1>8, <1>10, <1>11 DEF Boxed

LEMMA TrainerKeeps ==
  ASSUME MatchesInv, DeliverToTrainingManager
  PROVE  MatchesInv'
<1>1. PICK h \in Players :
        /\ Head(queue) \in Asks(h) /\ Asking(bots[h])
        /\ Lists(h) \/ PairsUp(h)
        /\ queue \in Seq(EventSet) /\ queue # <<>> /\ turn = 1 /\ turn' = 2 /\ ~Behind
        /\ Head(queue).kind = "ReadyForAssignment"
  BY TrainerIs
<1>2. PICK o : o = Others(h)
  OBVIOUS
<1>3. o \in Players /\ o # h /\ Players = {h, o}
  BY <1>2, OthersAre
<1>4. UNCHANGED <<bots, timers, procSelf, count, life, near, stage, sees, srvLife, news, option,
                  warpReq, resReq, hurt, rested, reports>>
  BY DEF DeliverToTrainingManager, world, server
<1>5. PICK out, nil, begin, none :
        /\ nil = <<>> /\ begin = Event("BeginPvp", nextPvpId) /\ none = NoTimer
        /\ out = IF ready = <<>> THEN nil ELSE <<begin>>
  OBVIOUS
<1>6. /\ \A A : ~Holds(nil, A) /\ Within(nil, A) /\ OnceIn(nil, A)
      /\ nil \in Seq(EventSet)
  BY <1>5, None
<1>7. begin \in EventSet /\ begin \in Begins /\ begin.kind = "BeginPvp"
  <2>1. nextPvpId \in MatchId
    BY DEF MatchesInv, Typed
  <2> QED BY <1>5, <2>1, EventIs DEF Begins, Ev
<1>8. \A A : /\ <<begin>> \in Seq(EventSet) /\ (Holds(<<begin>>, A) <=> begin \in A)
             /\ (Within(<<begin>>, A) <=> begin \in A) /\ OnceIn(<<begin>>, A)
  BY <1>7, OneIs
<1>9. /\ ready = <<>> => out = nil /\ Lists(h)
      /\ ready # <<>> => out = <<begin>> /\ PairsUp(h)
  <2>1. <<Others(h)>> # <<>>
    OBVIOUS
  <2>2. Lists(h) => ready = <<>>
    BY DEF Lists
  <2>3. PairsUp(h) => ready # <<>>
    BY <2>1 DEF PairsUp
  <2> QED BY <1>1, <1>5, <2>2, <2>3
<1>10. queue' = queue \o out /\ errors' = errors
  BY <1>5, <1>9 DEF Lists, PairsUp
<1>11. /\ out \in Seq(EventSet) /\ OnceIn(out, Begins) /\ Within(out, Quiet) /\ Within(out, Harmless)
       /\ \A q : ~Holds(out, Lives(q)) /\ ~Holds(out, Reports(q)) /\ ~Holds(out, Asks(q))
       /\ Holds(out, Begins) <=> ready # <<>>
  <2>1. /\ begin \in Quiet /\ begin \in Harmless
        /\ \A q : begin \notin Lives(q) /\ begin \notin Reports(q) /\ begin \notin Asks(q)
    BY <1>7 DEF Quiet, Harmless, Lives, Reports, Asks, EvOf, TravelKinds
  <2>2. CASE ready = <<>>
    BY <1>6, <1>9, <2>2
  <2>3. CASE ready # <<>>
    BY <1>7, <1>8, <1>9, <2>1, <2>3
  <2> QED BY <2>2, <2>3
<1>12. QueueOK' /\ Boxed(out) /\ ManagerBox = queue /\ Grown(Tail(queue), ManagerBox', out, none)
  BY <1>1, <1>4, <1>5, <1>10, <1>11, TrainerBoxes
<1>13. Left => Left'
  BY <1>4, <1>12, LeftStays
<1>14. Together'
  BY <1>12, <1>13, TogetherStays
<1>15. Ledgers'
  <2>1. \A q \in Players : Untouched(q)
    BY <1>4 DEF Untouched
  <2>2. \A q \in Players : Settles(q, out)
    BY <1>11, <2>1, UntouchedSettles
  <2> QED BY <1>12, <2>2, LedgersGrow
<1>16. Waits'
  BY <1>4, <1>12, WaitsGrow
<1>17. Opponents'
  <2>1. stage'[P2] \in {"reset", "loading"} \/ stage[P2] \notin {"reset", "loading"}
    BY <1>4
  <2> QED BY <1>12, <2>1, OpponentsStay
<1>18. Placed(P1)' /\ Within(queue', OnJourney) /\ Journey'
  <2>1. Calm => /\ Within(out, Harmless) /\ \A p \in Players : rested'[p] /\ life'[p] = "alive"
                /\ hurt' = {} /\ news' = {} /\ option' = {} /\ resReq' = {}
    BY <1>4, <1>11 DEF Calm
  <2>2. stage' = stage /\ procSelf' = procSelf /\ near' = near /\ warpReq' \subseteq warpReq
    BY <1>4
  <2> QED BY <1>11, <1>12, <2>1, <2>2, JourneyStays
<1>19. Typed' /\ Counted'
  <2>1. ready' \in {<<>>, <<P1>>, <<P2>>} /\ nextPvpId' \in MatchId
    BY <1>1, OthersAre DEF Lists, PairsUp, MatchesInv, Typed
  <2> QED BY <1>4, <2>1 DEF MatchesInv, Typed, Counted
<1>20. Shapes' /\ NoErrors' /\ (bots[P2].child = "actor" => reports = 0)'
  BY <1>4, <1>10 DEF MatchesInv, Shapes, Shape, NoErrors
<1>21. PICK m, n, x, x1, y, y1, w, w1 :
         /\ m = bots[P1] /\ n = bots[P2] /\ x = Box1 /\ x1 = Box1' /\ y = queue /\ y1 = queue'
         /\ w = ManagerBox /\ w1 = ManagerBox'
  OBVIOUS
<1>22. Grown(x, x1, out, none) /\ Grown(y, y1, out, none) /\ bots' = bots
  BY <1>5, <1>12, <1>21 DEF Boxed
<1>23. \A q \in Players :
         /\ Holds(w, Asks(q)) <=> (q = h \/ Holds(Tail(queue), Asks(q)))
         /\ OnceIn(w, Asks(q)) => OnceIn(Tail(queue), Asks(q)) /\ (q = h => ~Holds(Tail(queue), Asks(q)))
  <2>1. TAKE q \in Players
  <2>2. Head(queue) \in Asks(q) <=> q = h
    BY <1>1 DEF Asks, EvOf
  <2>3. /\ Holds(queue, Asks(q)) <=> (Head(queue) \in Asks(q) \/ Holds(Tail(queue), Asks(q)))
        /\ OnceIn(queue, Asks(q)) <=> (OnceIn(Tail(queue), Asks(q))
                                       /\ (Head(queue) \in Asks(q) => ~Holds(Tail(queue), Asks(q))))
    BY <1>1, HeadTail
  <2> QED BY <1>12, <1>21, <2>2, <2>3
<1>24. \A q \in Players :
         /\ Holds(w1, Asks(q)) <=> Holds(Tail(queue), Asks(q))
         /\ OnceIn(Tail(queue), Asks(q)) => OnceIn(w1, Asks(q))
  <2>1. TAKE q \in Players
  <2>2. PICK z : z = Tail(queue)
    OBVIOUS
  <2>3. Grown(z, w1, out, none) /\ Asks(q) \in Plain
    BY <1>12, <1>21, <2>2, PlainIs
  <2>4. OnceIn(out, Asks(q))
    BY <1>11, More
  <2>5. /\ Holds(w1, Asks(q)) <=> (Holds(z, Asks(q)) \/ Holds(out, Asks(q)))
        /\ OnceIn(z, Asks(q)) /\ OnceIn(out, Asks(q)) /\ ~(Holds(z, Asks(q)) /\ Holds(out, Asks(q))) =>
             OnceIn(w1, Asks(q))
    BY <2>3, WaitingIs
  <2> QED BY <1>11, <2>2, <2>4, <2>5
<1>25. PICK l1, l2, k1, k2 :
         l1 = IsListed(P1) /\ l2 = IsListed(P2) /\ k1 = IsListed(P1)' /\ k2 = IsListed(P2)'
  OBVIOUS
<1>26. Tokens(P1, m, x, w, l1) /\ Tokens(P2, n, y, w, l2)
  BY <1>21, <1>25 DEF MatchesInv, RequestsOK
<1>27. /\ ready = <<>> => ~l1 /\ ~l2 /\ (k1 <=> h = P1) /\ (k2 <=> h = P2)
       /\ ready # <<>> => ~k1 /\ ~k2 /\ (l1 <=> h = P2) /\ (l2 <=> h = P1)
  <2>1. /\ \A a : <<a>> # <<>>
        /\ \A a, b : <<a>> = <<b>> => a = b
    OBVIOUS
  <2>2. CASE ready = <<>>
    BY <1>9, <1>25, <2>1, <2>2, OthersAre DEF Lists, IsListed
  <2>3. CASE ready # <<>>
    <3>1. ready = <<o>> /\ ready' = <<>>
      BY <1>2, <1>9, <2>3 DEF PairsUp
    <3> QED BY <1>3, <1>25, <2>1, <2>3, <3>1, OthersAre DEF IsListed
  <2> QED BY <2>2, <2>3
<1>28. RequestsOK'
  <2>1. ASSUME NEW q \in Players, NEW b, NEW v, NEW l, Tokens(q, b, v, w, l), OnceIn(w, Asks(q)),
               ready = <<>> => ~l, ready # <<>> => (l <=> h # q)
        PROVE  /\ OnceIn(w1, Asks(q)) /\ (Holds(w1, Asks(q)) => q # h /\ Holds(w, Asks(q)) /\ ready = <<>>)
               /\ q = h => Holds(w, Asks(q))
    BY <1>23, <1>24, <2>1 DEF Tokens
  <2>2. OnceIn(w, Asks(P1)) /\ OnceIn(w, Asks(P2))
    BY <1>26 DEF Tokens
  <2>3. /\ OnceIn(w1, Asks(P1)) /\ (Holds(w1, Asks(P1)) => P1 # h /\ Holds(w, Asks(P1)) /\ ready = <<>>)
        /\ P1 = h => Holds(w, Asks(P1))
    BY <1>1, <1>26, <1>27, <2>1, <2>2, OthersAre
  <2>4. /\ OnceIn(w1, Asks(P2)) /\ (Holds(w1, Asks(P2)) => P2 # h /\ Holds(w, Asks(P2)) /\ ready = <<>>)
        /\ P2 = h => Holds(w, Asks(P2))
    BY <1>1, <1>26, <1>27, <2>1, <2>2, OthersAre
  <2>5. Tokens(P1, m, x1, w1, k1)
    <3>1. /\ OnceIn(w, Asks(P1)) => OnceIn(w1, Asks(P1))
          /\ Holds(w1, Asks(P1)) => Holds(w, Asks(P1)) /\ ~k1 /\ ~Holds(out, Begins)
          /\ k1 => ~Holds(out, Begins) /\ (l1 \/ Holds(w, Asks(P1)))
          /\ Holds(out, Begins) => l1 \/ Holds(w, Asks(P1))
      BY <1>1, <1>3, <1>11, <1>27, <2>3, OthersAre
    <3>2. P1 \in Players /\ OnceIn(out, Begins)
      BY <1>11, OthersAre
    <3> QED BY ONLY <1>22, <1>26, <3>1, <3>2, TokensHandled, ZenonT(60)
  <2>6. Tokens(P2, n, y1, w1, k2)
    <3>1. /\ OnceIn(w, Asks(P2)) => OnceIn(w1, Asks(P2))
          /\ Holds(w1, Asks(P2)) => Holds(w, Asks(P2)) /\ ~k2 /\ ~Holds(out, Begins)
          /\ k2 => ~Holds(out, Begins) /\ (l2 \/ Holds(w, Asks(P2)))
          /\ Holds(out, Begins) => l2 \/ Holds(w, Asks(P2))
      BY <1>1, <1>3, <1>11, <1>27, <2>4, OthersAre
    <3>2. P2 \in Players /\ OnceIn(out, Begins)
      BY <1>11, OthersAre
    <3> QED BY ONLY <1>22, <1>26, <3>1, <3>2, TokensHandled, ZenonT(60)
  <2> QED BY <1>21, <1>22, <1>25, <2>5, <2>6 DEF RequestsOK
<1>29. Pairs'
  <2>1. CASE ready = <<>>
    <3>1. ~Holds(out, Begins) /\ \A q : Within(out, EventSet \ Reports(q))
      BY <1>6, <1>9, <2>1
    <3>2. \A q \in Players : rested[q] => rested'[q]
      BY <1>4
    <3> QED BY <1>12, <1>13, <3>1, <3>2, PairsGrow
  <2>2. CASE ready # <<>>
    <3>1. Asking(m) /\ Asking(n)
      <4>1. l1 \/ l2
        BY <1>1, <1>27, <2>2, OthersAre
      <4>2. (l1 => Asking(m)) /\ (l2 => Asking(n))
        BY <1>26 DEF Tokens
      <4> QED BY <1>1, <1>21, <1>27, <2>2, <4>2, OthersAre
    <3>2. ~Standing(m) /\ ~Standing(n)
      BY <3>1 DEF Asking, Standing
    <3>3. PICK r1, r2, l, k, no : /\ r1 = rested[P1] /\ r2 = rested[P2] /\ l = Left /\ k = Left'
                                  /\ no = FALSE
      OBVIOUS
    <3>4. Pair(P1, P2, m, n, x, r1, no) /\ Pair(P2, P1, n, m, y, r2, l)
      BY <1>21, <3>3 DEF MatchesInv, Pairs
    <3>5. ~Holds(out, Reports(P1)) /\ ~Holds(out, Reports(P2)) /\ P1 \in Players /\ P2 \in Players
      BY <1>11, OthersAre
    <3>6. Pair(P1, P2, m, n, x1, r1, no)
      BY ONLY <1>22, <3>1, <3>2, <3>4, <3>5, PairAssigned, ZenonT(60)
    <3>7. Pair(P2, P1, n, m, y1, r2, k)
      BY ONLY <1>22, <3>1, <3>2, <3>4, <3>5, PairAssigned, ZenonT(60)
    <3> QED BY <1>4, <1>21, <3>3, <3>6, <3>7 DEF Pairs
  <2> QED BY <2>1, <2>2
<1> QED BY <1>12, <1>14, <1>15, <1>16, <1>17, <1>18, <1>19, <1>20, <1>28, <1>29 DEF MatchesInv

-----------------------------------------------------------------------------
(* The invariant holds at first and of every step, hence always.           *)

LEMMA AtFirst ==
  ASSUME P1 \in AtTheSpot, MatchesInit
  PROVE  MatchesInv
<1>1. P1 \in Players /\ P2 \in Players /\ P1 # P2 /\ Others(P1) = P2 /\ Others(P2) = P1 /\ Players = {P1, P2}
      /\ Opponent(P1) = P2 /\ Opponent(P2) = P1
  BY OthersAre, PlayersAre
<1>2. PICK g : g = Event("Other", Nobody)
  OBVIOUS
<1>3. g \in EventSet /\ g.kind = "Other" /\ queue = <<g>> /\ turn = 1
  BY <1>2, EventIs DEF MatchesInit
<1>4. /\ queue \in Seq(EventSet) /\ queue # <<>> /\ Head(queue) = g
      /\ \A A, B : /\ (Holds(queue, A) <=> g \in A) /\ (Within(queue, A) <=> g \in A)
                   /\ OnceIn(queue, A) /\ OnlyAfter(queue, A, B)
  BY <1>3, OneIs
<1>5. Len(Subscribers(g)) = 2
  BY <1>3, SubscribersAre
<1>6. QueueOK /\ ~Behind /\ Box1 = queue /\ ManagerBox = queue
  <2>1. turn = 1 /\ Len(Subscribers(Head(queue))) = 2 /\ 1 \in 1..3 /\ 1 <= 2 /\ 1 # 2
    BY <1>3, <1>4, <1>5
  <2>2. QueueOK /\ ~Behind
    BY <1>4, <2>1 DEF QueueOK, Behind
  <2> QED BY <2>1, <2>2 DEF Box1, ManagerBox
<1>7. /\ g \in Quiet /\ g \in OnJourney /\ g \in Harmless /\ g \notin Begins
      /\ \A p : g \notin Asks(p) /\ g \notin Reports(p) /\ g \notin Lives(p)
  BY <1>3 DEF Quiet, OnJourney, Harmless, TravelKinds, Begins, Ev, Asks, Reports, Lives, EvOf
<1>8. ASSUME NEW p \in Players
      PROVE  /\ bots[p] \in Bot /\ bots[p].selfEntity /\ ~bots[p].initialized /\ bots[p].opponent = Nobody
             /\ bots[p].descriptor = NoMatch /\ ~bots[p].published /\ ~bots[p].weAreReady
             /\ ~bots[p].opponentIsReady /\ ~bots[p].gotOption /\ bots[p].child = "none"
             /\ bots[p].eventId = NoTimer
  BY DEF MatchesInit, Bot
<1>9. PICK m, n : m = bots[P1] /\ n = bots[P2]
  OBVIOUS
<1>10. ASSUME NEW b \in {m, n}
       PROVE  /\ b \in Bot /\ b.selfEntity /\ ~b.initialized /\ b.opponent = Nobody
              /\ b.descriptor = NoMatch /\ ~b.published /\ ~b.weAreReady
              /\ ~b.opponentIsReady /\ ~b.gotOption /\ b.child = "none" /\ b.eventId = NoTimer
  BY <1>1, <1>8, <1>9
<1>11. Shapes
  BY <1>9, <1>10 DEF Shapes, Shape, Asking, Standing
<1>12. Typed
  <2>1. bots \in [Players -> Bot]
    BY <1>8 DEF MatchesInit
  <2>2. 1 \in MatchId /\ timers \subseteq TimerId
    BY PvpMatchesAssumption DEF MatchesInit, MatchId
  <2>3. sees \in [Players -> SUBSET Players] /\ count \in [Players -> 0..2]
    BY <1>1 DEF MatchesInit
  <2>4. /\ procSelf \in [Players -> BOOLEAN] /\ life \in [Players -> {"alive", "dead"}]
        /\ srvLife \in [Players -> {"alive", "dead"}] /\ near \in [Players -> BOOLEAN]
        /\ rested \in [Players -> BOOLEAN]
        /\ stage \in [Players -> {"in", "leaving", "reset", "loading", "entering"}]
    BY DEF MatchesInit
  <2>5. UNION {news, option, warpReq, resReq, hurt} \subseteq Players
    BY DEF MatchesInit
  <2>6. nextPvpId \in MatchId /\ ready \in {<<>>, <<P1>>, <<P2>>}
    BY <2>2 DEF MatchesInit
  <2> QED BY <2>1, <2>2, <2>3, <2>4, <2>5, <2>6 DEF Typed
<1>13. Counted
  <2>1. CASE sees = [s \in Players |-> {}] /\ count = [p \in Players |-> 1]
    BY <2>1, <1>1 DEF MatchesInit, Counted
  <2>2. CASE sees = [s \in Players |-> {Opponent(s)}] /\ count = [p \in Players |-> 2]
    BY <2>2, <1>1 DEF MatchesInit, Counted
  <2> QED BY <2>1, <2>2 DEF MatchesInit
<1>14. ASSUME NEW p \in Players
       PROVE  /\ stage[p] = "in" /\ procSelf[p] /\ rested[p] /\ life[p] = "alive" /\ srvLife[p] = "alive"
              /\ (near[p] <=> p \in AtTheSpot) /\ p \notin warpReq /\ p \notin news /\ p \notin hurt /\ p \notin resReq
  BY DEF MatchesInit
<1>15. Ledgers
  <2>1. /\ ~Holds(queue, Lives(P1)) /\ OnceIn(queue, Lives(P1))
        /\ ~Holds(queue, Lives(P2)) /\ OnceIn(queue, Lives(P2))
    BY <1>4, <1>7
  <2> QED BY <1>1, <1>6, <1>9, <1>10, <1>14, <2>1 DEF Ledgers, LedgerOf, Ledger
<1>16. Pairs
  <2>1. /\ ~Holds(queue, Reports(P1)) /\ OnceIn(queue, Reports(P1)) /\ ~Holds(queue, Begins)
        /\ ~Holds(queue, Reports(P2)) /\ OnceIn(queue, Reports(P2))
    BY <1>4, <1>7
  <2> QED BY <1>6, <1>9, <1>10, <2>1 DEF Pairs, Pair, Standing
<1>17. RequestsOK
  <2>1. /\ ~Holds(queue, Asks(P1)) /\ OnceIn(queue, Asks(P1)) /\ ~Holds(queue, Begins)
        /\ ~Holds(queue, Asks(P2)) /\ OnceIn(queue, Asks(P2)) /\ OnceIn(queue, Begins)
    BY <1>4, <1>7
  <2>2. ~IsListed(P1) /\ ~IsListed(P2)
    BY DEF MatchesInit, IsListed
  <2> QED BY <1>6, <2>1, <2>2 DEF RequestsOK, Tokens
<1>18. Together /\ Opponents /\ Waits
  BY <1>6, <1>9, <1>10 DEF Together, Opponents, Waits, Awaits
<1>19. Placed(P1) /\ Within(queue, OnJourney) /\ Within(queue, Quiet) /\ Within(queue, Harmless)
  BY <1>1, <1>4, <1>7, <1>8, <1>14 DEF Placed
<1>20. Journey
  <2>1. CASE P2 \in AtTheSpot
    BY <1>1, <1>8, <1>14, <1>19, <2>1 DEF Journey, Placed
  <2>2. CASE P2 \notin AtTheSpot
    <3>1. Calm
      BY <1>9, <1>10, <1>14, <1>19 DEF Calm, MatchesInit
    <3>2. Far
      BY <1>1, <1>8, <1>14, <1>19, <2>2 DEF Far, MatchesInit
    <3> QED BY <3>1, <3>2 DEF Journey
  <2> QED BY <2>1, <2>2
<1>21. NoErrors /\ reports = 0
  BY DEF NoErrors, MatchesInit
<1> QED BY <1>6, <1>11, <1>12, <1>13, <1>15, <1>16, <1>17, <1>18, <1>19, <1>20, <1>21 DEF MatchesInv

LEMMA EveryStep ==
  ASSUME MatchesInv, [MatchesNext]_matchesVars
  PROVE  MatchesInv'
<1>1. CASE DeliverToTrainingManager
  BY <1>1, TrainerKeeps
<1>2. CASE \E b \in Players : DeliverToBot(b)
  BY <1>2, FirstDelivers, SecondDelivers DEF Players
<1>3. CASE \E t \in TimerId : TimerDue(t)
  BY <1>3, TimerKeeps
<1>4. CASE OtherEvent
  BY <1>4, OtherKeeps
<1>5. ASSUME NEW p \in Players,
             \/ Leave(p) \/ Refuse(p) \/ GameReset(p) \/ CharacterData(p)
             \/ Kill(p) \/ ResurrectOption(p) \/ LifeState(p) \/ Resurrect(p)
             \/ Lose(p) \/ Rest(p)
      PROVE  MatchesInv'
  BY <1>5, LeaveKeeps, RefuseKeeps, GameResetKeeps, CharacterDataKeeps, KillKeeps, OptionKeeps,
     LifeStateKeeps, ResurrectKeeps, LoseKeeps, RestKeeps
<1>6. ASSUME NEW s \in Players, NEW p \in Players, OutOfSight(s, p) \/ IntoSight(s, p)
      PROVE  MatchesInv'
  BY <1>6, OutOfSightKeeps, IntoSightKeeps
<1>7. CASE UNCHANGED matchesVars
  <2>1. /\ bots' = bots /\ queue' = queue /\ turn' = turn /\ timers' = timers /\ ready' = ready
        /\ nextPvpId' = nextPvpId /\ errors' = errors /\ reports' = reports
    BY <1>7 DEF matchesVars, broker
  <2>2. /\ procSelf' = procSelf /\ count' = count /\ life' = life /\ near' = near
        /\ stage' = stage /\ sees' = sees /\ srvLife' = srvLife /\ news' = news /\ option' = option
        /\ warpReq' = warpReq /\ resReq' = resReq /\ hurt' = hurt /\ rested' = rested
    BY <1>7 DEF matchesVars, world, server
  <2>3. Typed' /\ QueueOK' /\ Counted' /\ Shapes' /\ Ledgers' /\ Pairs' /\ RequestsOK' /\ Together'
    BY <2>1, <2>2 DEF MatchesInv, Typed, QueueOK, Counted, Shapes, Ledgers, LedgerOf, Pairs, Left,
       RequestsOK, IsListed, Together, Box1, ManagerBox, Behind
  <2>4. Journey' /\ Placed(P1)' /\ Opponents' /\ Waits' /\ NoErrors'
    BY <2>1, <2>2 DEF MatchesInv, Journey, Placed, Calm, Far, Leaving, Resetting, Loading, Entering,
       Travelling, Opponents, Waits, Awaits, NoErrors, Box1, Behind
  <2> QED BY <2>1, <2>3, <2>4 DEF MatchesInv
<1> QED BY <1>1, <1>2, <1>3, <1>4, <1>5, <1>6, <1>7 DEF MatchesNext

LEMMA MatchesInvAlways ==
  ASSUME P1 \in AtTheSpot
  PROVE  MatchesSpec => []MatchesInv
<1>1. MatchesInit => MatchesInv
  BY AtFirst
<1>2. MatchesInv /\ [MatchesNext]_matchesVars => MatchesInv'
  BY EveryStep
<1> QED BY <1>1, <1>2, PTL DEF MatchesSpec

-----------------------------------------------------------------------------
(* What the invariant says of every state.                                 *)

LEMMA TypesOK ==
  ASSUME MatchesInv
  PROVE  MatchesTypeOK
<1>1. Typed /\ turn \in 1..3
  BY DEF MatchesInv, QueueOK
<1>2. P1 \in Players /\ P2 \in Players
  BY PlayersAre
<1>3. \A i \in DOMAIN ready : ready[i] \in Players
  BY <1>1, <1>2 DEF Typed
<1> QED BY <1>1, <1>3 DEF Typed, MatchesTypeOK, Bot

LEMMA CountsRight ==
  ASSUME MatchesInv
  PROVE  CountsAgree
<1> SUFFICES ASSUME NEW p \in Players
             PROVE  count[p] = Cardinality({s \in Players : p \in sees[s]} \cup {q \in {p} : procSelf[q]})
  BY DEF CountsAgree
<1>1. PICK o : o = Others(p)
  OBVIOUS
<1>2. Players = {p, o} /\ p # o
  BY <1>1, OthersAre, Zenon
<1>3. /\ count[p] = (IF p \in sees[o] THEN 1 ELSE 0) + (IF procSelf[p] THEN 1 ELSE 0)
      /\ p \notin sees[p]
  BY <1>1, CountsAre
<1>4. {s \in Players : p \in sees[s]} = IF p \in sees[o] THEN {o} ELSE {}
  BY <1>2, <1>3
<1>5. {q \in {p} : procSelf[q]} = IF procSelf[p] THEN {p} ELSE {}
  OBVIOUS
<1>6. /\ Cardinality({}) = 0 /\ Cardinality({o}) = 1 /\ Cardinality({p}) = 1
      /\ Cardinality({o} \cup {p}) = 2
  <2>1. Cardinality({}) = 0
    BY FS_EmptySet
  <2>2. IsFiniteSet({o}) /\ Cardinality({o}) = 1 /\ Cardinality({p}) = 1
    BY FS_Singleton
  <2>3. Cardinality({o} \cup {p}) = Cardinality({o}) + 1
    BY <1>2, <2>2, FS_AddElement
  <2> QED BY <2>1, <2>2, <2>3
<1>7. {o} \cup {} = {o} /\ {} \cup {p} = {p} /\ {} \cup {} = {}
  OBVIOUS
<1>8. PICK all, others, own : /\ all = others \cup own /\ others = {s \in Players : p \in sees[s]}
                              /\ own = {q \in {p} : procSelf[q]}
  OBVIOUS
<1>9. count[p] = Cardinality(all)
  <2>1. own = (IF procSelf[p] THEN {p} ELSE {}) /\ others = (IF p \in sees[o] THEN {o} ELSE {})
    BY <1>4, <1>5, <1>8
  <2>2. all = IF p \in sees[o] THEN IF procSelf[p] THEN {o} \cup {p} ELSE {o}
                               ELSE IF procSelf[p] THEN {p} ELSE {}
    BY <1>7, <1>8, <2>1
  <2> QED BY ONLY <1>3, <1>6, <2>2
<1> QED BY <1>8, <1>9

(* What is in the queue, or behind its first event.                        *)
LEMMA Places ==
  ASSUME queue \in Seq(EventSet), NEW y, y = queue \/ (queue # <<>> /\ y = Tail(queue)),
         NEW A, NEW I \in SUBSET (DOMAIN queue),
         \A i \in I : queue[i] \in A /\ (i = 1 => y = queue)
  PROVE  (I # {} => Holds(y, A)) /\ (OnceIn(y, A) => \A i, j \in I : i = j)
<1>1. CASE y = queue
  BY <1>1 DEF Holds, OnceIn
<1>2. CASE y # queue
  <2>1. queue # <<>> /\ y = Tail(queue)
    BY <1>2
  <2>2. \A i \in I : i - 1 \in DOMAIN y /\ y[i - 1] \in A /\ i \in Nat
    <3>1. \A i \in DOMAIN queue : i = 1 \/ (i - 1 \in DOMAIN y /\ queue[i] = y[i - 1])
      BY <2>1, Ends
    <3>2. \A i \in DOMAIN queue : i \in Nat
      BY <2>1, Ends
    <3> QED BY <1>2, <3>1, <3>2
  <2>3. I # {} => Holds(y, A)
    BY <2>2 DEF Holds
  <2>4. ASSUME OnceIn(y, A), NEW i \in I, NEW j \in I PROVE i = j
    <3>1. i - 1 = j - 1 /\ i \in Nat /\ j \in Nat
      BY <2>2, <2>4 DEF OnceIn
    <3> QED BY <3>1
  <2> QED BY <2>3, <2>4
<1> QED BY <1>1, <1>2

LEMMA TimeoutsRight ==
  ASSUME MatchesInv
  PROVE  TimeoutsCome
<1>1. queue \in Seq(EventSet) /\ QueueOK
  BY DEF MatchesInv, QueueOK
<1>2. PICK x : x = Box1
  OBVIOUS
<1>3. ASSUME NEW A, Holds(x, A) PROVE Holds(queue, A)
  <2>1. CASE Behind
    BY <1>1, <1>2, <1>3, <2>1, Turns, HeadTail
  <2>2. CASE ~Behind
    BY <1>1, <1>2, <1>3, <2>2, Turns
  <2> QED BY <2>1, <2>2
<1>4. ASSUME NEW p \in Players, bots[p].child = "resurrect", bots[p].eventId # NoTimer
      PROVE  bots[p].eventId \in timers \/ Due(bots[p].eventId)
  <2>1. PICK t : t = bots[p].eventId
    OBVIOUS
  <2>2. t \in timers \/ Holds(x, EvOf("Timeout", t)) \/ Holds(queue, EvOf("Timeout", t))
    BY <1>2, <1>4, <2>1 DEF MatchesInv, Waits, Awaits, Players
  <2>3. Holds(queue, EvOf("Timeout", t)) => Due(t)
    BY DEF Holds, Due, EvOf, Is
  <2> QED BY <1>3, <2>1, <2>2, <2>3
<1> QED BY <1>4 DEF TimeoutsCome

LEMMA OnlyOne ==
  ASSUME NEW I, NEW J, NEW K,
         \A i, j \in I : i = j, \A i, j \in J : i = j, \A i, j \in K : i = j,
         I # {} => J = {} /\ K = {}, J # {} => K = {}
  PROVE  \A a, b \in ({"asked"} \X I) \cup ({"listed"} \X J) \cup ({"begun"} \X K) : a = b
<1>1. CASE I # {}
  BY <1>1
<1>2. CASE J # {}
  BY <1>2
<1>3. CASE I = {} /\ J = {}
  BY <1>3
<1> QED BY <1>1, <1>2, <1>3

LEMMA AssignedRight ==
  ASSUME MatchesInv
  PROVE  AssignedOnce
<1>1. /\ queue \in Seq(EventSet) /\ QueueOK /\ turn \in 1..3
      /\ P1 \in Players /\ P2 \in Players /\ P1 # P2
  BY PlayersAre DEF MatchesInv, QueueOK
<1> DEFINE Asked(p) == {i \in DOMAIN queue : Is(queue[i], "ReadyForAssignment", p) /\ ~(i = 1 /\ turn > 1)}
           Listed(p) == {i \in DOMAIN ready : ready[i] = p}
           Begun(p) == {i \in DOMAIN queue : queue[i].kind = "BeginPvp" /\ ~(i = 1 /\ turn = 2 /\ p = P1)}
           All(p) == ({"asked"} \X Asked(p)) \cup ({"listed"} \X Listed(p)) \cup ({"begun"} \X Begun(p))
<1> SUFFICES ASSUME NEW p \in Players
             PROVE  (\A a, b \in All(p) : a = b) /\ (bots[p].descriptor # NoMatch => All(p) = {})
  BY Zenon DEF AssignedOnce
<1>0. PICK asked, listed, begun : asked = Asked(p) /\ listed = Listed(p) /\ begun = Begun(p)
  OBVIOUS
<1> DEFINE all == ({"asked"} \X asked) \cup ({"listed"} \X listed) \cup ({"begun"} \X begun)
<1>2. PICK x, y, m : /\ x = (IF p = P1 THEN Box1 ELSE queue) /\ y = ManagerBox /\ m = bots[p]
  OBVIOUS
<1>3. Tokens(p, m, x, y, IsListed(p))
  BY <1>1, <1>2 DEF MatchesInv, RequestsOK, Players
<1>4. \A i \in DOMAIN queue : queue[i] \in EventSet
  BY <1>1
<1>5. (asked # {} => Holds(y, Asks(p))) /\ \A i, j \in asked : i = j
  <2>1. y = queue \/ (queue # <<>> /\ y = Tail(queue))
    BY <1>1, <1>2, Turns
  <2>2. \A i \in asked : queue[i] \in Asks(p) /\ (i = 1 => y = queue)
    <3>1. ~(turn > 1) => y = queue
      BY <1>1, <1>2, Turns
    <3> QED BY <1>0, <1>4, <3>1 DEF Is, Asks, EvOf
  <2>3. asked \in SUBSET DOMAIN queue /\ OnceIn(y, Asks(p))
    BY <1>0, <1>3 DEF Tokens
  <2>4. PICK A : A = Asks(p)
    OBVIOUS
  <2> QED BY <1>1, <2>1, <2>2, <2>3, <2>4, Places
<1>6. (begun # {} => Holds(x, Begins)) /\ \A i, j \in begun : i = j
  <2>1. x = queue \/ (queue # <<>> /\ x = Tail(queue))
    BY <1>1, <1>2, Turns
  <2>2. ASSUME NEW i \in begun PROVE queue[i] \in Begins /\ (i = 1 => x = queue)
    <3>1. queue[i] \in Begins
      BY <1>0, <1>4 DEF Begins, Ev
    <3>2. ASSUME i = 1, x # queue PROVE FALSE
      <4>1. p = P1 /\ Behind
        BY <1>1, <1>2, <3>2, Turns
      <4>2. Head(queue) = queue[1]
        BY <1>1, <4>1, Turns, Ends
      <4>3. Head(queue).kind = "BeginPvp"
        BY <1>0, <3>2, <4>2
      <4>4. turn = 2
        BY <1>1, <4>1, <4>3, Turns
      <4> QED BY <1>0, <3>2, <4>1, <4>4
    <3> QED BY <3>1, <3>2
  <2>3. begun \in SUBSET DOMAIN queue /\ OnceIn(x, Begins)
    BY <1>0, <1>3 DEF Tokens
  <2>4. PICK A : A = Begins
    OBVIOUS
  <2> QED BY <1>1, <2>1, <2>2, <2>3, <2>4, Places
<1>7. (listed # {} => IsListed(p)) /\ \A i, j \in listed : i = j
  BY <1>0, <1>1 DEF MatchesInv, Typed, IsListed
<1>8. /\ asked # {} => listed = {} /\ begun = {}
      /\ listed # {} => begun = {}
      /\ asked # {} \/ listed # {} \/ begun # {} => m.descriptor = NoMatch
  BY <1>3, <1>5, <1>6, <1>7 DEF Tokens, Asking
<1>9. \A a, b \in all : a = b
  BY <1>5, <1>6, <1>7, <1>8, OnlyOne
<1>10. m.descriptor # NoMatch => all = {}
  BY <1>8
<1> QED BY <1>0, <1>2, <1>9, <1>10

(* Only what player 2 hears ends its fight, and it has reported nothing    *)
(* before.                                                                 *)
LEMMA ReportedOnce ==
  ASSUME MatchesInv, [MatchesNext]_matchesVars, Pvping(bots[P2]), ~Pvping(bots'[P2])
  PROVE  reports' = 1
<1>1. P1 \in Players /\ P2 \in Players /\ P2 # P1 /\ P1 = Opponent(P2) /\ bots \in [Players -> Bot]
  BY PlayersAre DEF MatchesInv, Typed
<1>2. DeliverToBot(P2)
  <2>1. bots' # bots
    OBVIOUS
  <2>2. ~DeliverToBot(P1)
    <3> SUFFICES ASSUME DeliverToBot(P1) PROVE bots'[P2] = bots[P2]
      OBVIOUS
    <3>1. PICK b : bots' = [bots EXCEPT ![P1] = b]
      BY DEF DeliverToBot
    <3> QED BY <1>1, <3>1
  <2>3. ASSUME NEW p \in Players
        PROVE  /\ ~Leave(p) /\ ~Refuse(p) /\ ~GameReset(p) /\ ~CharacterData(p) /\ ~Kill(p)
               /\ ~ResurrectOption(p) /\ ~LifeState(p) /\ ~Resurrect(p) /\ ~Lose(p) /\ ~Rest(p)
               /\ \A s : ~OutOfSight(s, p) /\ ~IntoSight(s, p)
    BY <2>1 DEF Leave, Refuse, GameReset, CharacterData, Kill, ResurrectOption, LifeState,
       Resurrect, Lose, Rest, OutOfSight, IntoSight
  <2>4. ~DeliverToTrainingManager /\ ~OtherEvent /\ \A t : ~TimerDue(t)
    BY <2>1 DEF DeliverToTrainingManager, OtherEvent, TimerDue
  <2>5. ~UNCHANGED matchesVars
    BY <2>1 DEF matchesVars
  <2> QED BY <2>2, <2>3, <2>4, <2>5 DEF MatchesNext, Players
<1>3. PICK e, m : e = Head(queue) /\ m = SelfTracked(P2, e)
  OBVIOUS
<1>4. Turn(P2)
  BY <1>2 DEF DeliverToBot
<1>5. Fit(P2, P1, m, e)
  BY <1>3, <1>4, SecondFits
<1>6. PICK k \in Bot, out \in Seq(EventSet), z \in Seq(EventSet) :
        Effect(P2, P1, m, e, k, out, z) /\ Spares(Tail(queue), z, m.eventId)
  BY <1>1, <1>2, <1>3, <1>4, <1>5, DeliverIs
<1>7. m.child = bots[P2].child
  <2>1. e \in EventSet
    BY <1>5 DEF Fit
  <2> QED BY <1>1, <1>3, <2>1, SelfTrackedIs DEF Same
<1>8. bots'[P2] = k /\ reports = 0
  BY <1>1, <1>6 DEF Effect, MatchesInv, Pvping
<1> QED BY <1>6, <1>7, <1>8 DEF Effect, Pvping

(* For every number of ids of matches and of timers, wherever the option   *)
(* of a death comes, when player 1 begins where the fights take place:     *)
(* types, counts and timeouts agree, a session asks for an assignment      *)
(* once until it gets one (trainingManager.cpp:176-181), and nothing is    *)
(* thrown (pvpManager.cpp).                                                *)
THEOREM MatchesConsistentAlways ==
  ASSUME P1 \in AtTheSpot
  PROVE  MatchesSpec => []MatchesConsistent
<1>1. MatchesSpec => []MatchesInv
  BY MatchesInvAlways
<1>2. MatchesInv => MatchesConsistent
  BY TypesOK, CountsRight, TimeoutsRight, AssignedRight DEF MatchesConsistent, MatchesInv
<1> QED BY <1>1, <1>2, PTL

(* Player 2's fight reports its final state exactly once before another    *)
(* begins (intelligenceActor.cpp:57-72, pvpManager.cpp:113-119).           *)
THEOREM LastStateReportedAlways ==
  ASSUME P1 \in AtTheSpot
  PROVE  MatchesSpec => LastStateReported
<1>1. MatchesSpec => []MatchesInv
  BY MatchesInvAlways
<1>2. MatchesInv /\ [MatchesNext]_matchesVars =>
        [Pvping(bots[P2]) /\ ~Pvping(bots'[P2]) => reports' = 1]_matchesVars
  BY ReportedOnce
<1> QED BY <1>1, <1>2, PTL DEF MatchesSpec, LastStateReported
=============================================================================
