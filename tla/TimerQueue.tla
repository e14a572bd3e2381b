----------------------------- MODULE TimerQueue -----------------------------
(***************************************************************************)
(* What bot/src/broker/timerManager.hpp promises the event broker, without *)
(* threads, mutex or condition variable: a queue ordered by operator< whose*)
(* front is handed over once it is due, from which a timer may be taken    *)
(* back as long as it has not been handed over.  To find a timer due and to*)
(* hand over the front are two steps.  Only a timer taken back in between  *)
(* makes the next one early, or breaks the queue when it was the last.     *)
(***************************************************************************)
EXTENDS Integers, Sequences

CONSTANTS MaxTimers, MaxTime

VARIABLES
  now,        \* the clock
  pending,    \* the timers accepted and neither handed over nor taken back
  accepted,   \* how many timers were accepted; their ids count up from 0
  delivered,  \* the timers handed over, in order
  cancelled,  \* the ids taken back
  handing,    \* whether a timer was found due and the front is about to go
  broken,     \* whether nothing was left to hand over
  closed      \* whether the owner has begun to destroy the queue

vars == <<now, pending, accepted, delivered, cancelled, handing, broken, closed>>

Sooner(lhs, rhs) ==
  \/ lhs.endTime < rhs.endTime
  \/ /\ lhs.endTime = rhs.endTime
     /\ \/ lhs.isInstant /\ ~rhs.isInstant
        \/ lhs.isInstant = rhs.isInstant /\ lhs.id < rhs.id

Init ==
  /\ now = 0
  /\ pending = {}
  /\ accepted = 0
  /\ delivered = << >>
  /\ cancelled = {}
  /\ handing = FALSE
  /\ broken = FALSE
  /\ closed = FALSE

Tick ==
  /\ now < MaxTime
  /\ now' = now + 1
  /\ UNCHANGED <<pending, accepted, delivered, cancelled, handing, broken, closed>>

(* An instant timer is due when it is accepted; a delayed one whenever its *)
(* caller said, which may have passed by then.                             *)
Accept(isInstant, endTime) ==
  /\ accepted < MaxTimers
  /\ isInstant => endTime = now
  /\ pending' = pending \cup
                  {[id |-> accepted, isInstant |-> isInstant, endTime |-> endTime]}
  /\ accepted' = accepted + 1
  /\ UNCHANGED <<now, delivered, cancelled, handing, broken, closed>>

Cancel(t) ==
  /\ ~t.isInstant
  /\ pending' = pending \ {t}
  /\ cancelled' = cancelled \cup {t.id}
  /\ UNCHANGED <<now, accepted, delivered, handing, broken, closed>>

FindDue ==
  /\ ~broken
  /\ \E t \in pending : t.endTime <= now
  /\ handing' = TRUE
  /\ UNCHANGED <<now, pending, accepted, delivered, cancelled, broken, closed>>

Deliver(t) ==
  /\ handing
  /\ \A u \in pending \ {t} : Sooner(t, u)
  /\ pending' = pending \ {t}
  /\ delivered' = Append(delivered, t)
  /\ handing' = FALSE
  /\ UNCHANGED <<now, accepted, cancelled, broken, closed>>

Break ==
  /\ handing
  /\ pending = {}
  /\ handing' = FALSE
  /\ broken' = TRUE
  /\ UNCHANGED <<now, pending, accepted, delivered, cancelled, closed>>

HandOver == FindDue \/ Break \/ \E t \in pending : Deliver(t)

(* What is pending when the queue is closed may still be handed over.      *)
Close ==
  /\ closed' = TRUE
  /\ UNCHANGED <<now, pending, accepted, delivered, cancelled, handing, broken>>

Next ==
  \/ Tick
  \/ Close
  \/ \E isInstant \in BOOLEAN, endTime \in 0..MaxTime : Accept(isInstant, endTime)
  \/ \E t \in pending : Cancel(t)
  \/ HandOver

Spec == Init /\ [][Next]_vars

(* Time passes, and until the queue is closed or broken, a timer that      *)
(* stays due is found and the front handed over.                           *)
FairSpec == Spec /\ WF_vars(Tick) /\ WF_vars(~closed /\ HandOver)
=============================================================================
