------------------------------- MODULE Alarms --------------------------------
(***************************************************************************)
(* What a timer service promises.  An alarm that is set has a number of    *)
(* ticks left, which each tick makes one less.  After a tick the alarms    *)
(* that have none left go off, the most overdue first, and none of them is *)
(* left when the service rests again.  An alarm never goes off while it    *)
(* has ticks left.                                                         *)
(***************************************************************************)
EXTENDS Integers

CONSTANTS
  Alarm,
  Most,    \* the most ticks an alarm is set for
  Late,    \* how late an alarm may already be when it is set
  Off      \* the ticks left of an alarm that is not set

VARIABLES
  left,    \* the ticks left of each alarm
  ringing  \* whether the service is handling a tick

vars == <<left, ringing>>

IsSet(a) == left[a] # Off

Init == left = [a \in Alarm |-> Off] /\ ringing = FALSE

(* Clients set, move and cancel one alarm at a time.                       *)
Change(a) ==
  /\ ~ringing
  /\ \E n \in (1 - Late .. Most) \cup {Off} : left' = [left EXCEPT ![a] = n]
  /\ UNCHANGED ringing

Tick ==
  /\ ~ringing /\ ringing' = TRUE
  /\ left' = [a \in Alarm |-> IF IsSet(a) THEN left[a] - 1 ELSE Off]

(* Alarm a goes off.  It may be set again, and so may others be, or        *)
(* cancelled, but not so that they go off in the same tick.                *)
Ring(a) ==
  /\ ringing /\ IsSet(a)
  /\ left[a] <= 0
  /\ \A b \in Alarm : IsSet(b) => left[a] <= left[b]
  /\ left' \in [Alarm -> (-Late .. Most) \cup {Off}]
  /\ left'[a] = Off \/ left'[a] > 0
  /\ \A b \in Alarm \ {a} : left'[b] \in {left[b], Off} \/ left'[b] > 0
  /\ UNCHANGED ringing

Rest ==
  /\ ringing /\ ringing' = FALSE
  /\ \A a \in Alarm : IsSet(a) => left[a] > 0
  /\ UNCHANGED left

Next == Tick \/ Rest \/ \E a \in Alarm : Change(a) \/ Ring(a)

Spec == Init /\ [][Next]_vars
=============================================================================
