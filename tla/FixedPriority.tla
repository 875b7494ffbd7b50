--------------------------- MODULE FixedPriority ----------------------------
(***************************************************************************)
(* What the scheduler promises: preemptive scheduling by fixed priority,   *)
(* first come first served within one priority.  The processor is given to *)
(* nobody but the first thread of the most urgent queue that has one, and  *)
(* not at all while dispatching is locked; a thread that becomes ready, is *)
(* moved or has used its time slice joins at the end of a queue, and the   *)
(* others keep their order.                                                *)
(***************************************************************************)
EXTENDS RtList

CONSTANTS Thread, Prio, NoThread

VARIABLES
  queue,    \* the ready threads of each priority, in the order they will run
  running,  \* the thread that has the processor
  locked    \* whether dispatching is locked

vars == <<queue, running, locked>>

(* s and r have the same elements in the same order, apart from t          *)
SameOrderBut(s, r, t) == Without(s, t) = Without(r, t)

(* No thread is in two places.                                             *)
Init ==
  /\ queue \in [Prio -> Seq(Thread)]
  /\ \A p, r \in Prio : \A i \in DOMAIN queue[p], j \in DOMAIN queue[r] :
       queue[p][i] = queue[r][j] => p = r /\ i = j
  /\ running = NoThread
  /\ locked = FALSE

(* Thread t leaves the queues, or becomes the last of queue p.             *)
Withdraw(t) ==
  /\ \A p \in Prio : t \notin Elements(queue'[p])
  /\ \A p \in Prio : SameOrderBut(queue[p], queue'[p], t)
JoinLast(t, p) ==
  /\ queue'[p] # << >> /\ queue'[p][Len(queue'[p])] = t
  /\ \A i \in 1 .. Len(queue'[p]) - 1 : queue'[p][i] # t
  /\ \A r \in Prio \ {p} : t \notin Elements(queue'[r])
  /\ \A r \in Prio : SameOrderBut(queue[r], queue'[r], t)

Change ==
  \/ UNCHANGED queue
  \/ \E t \in Thread : Withdraw(t) \/ \E p \in Prio : JoinLast(t, p)

(* The first thread of the most urgent queue that is not empty.            *)
Dispatch ==
  \E p \in Prio :
    /\ queue'[p] # << >>
    /\ \A r \in Prio : r < p => queue'[r] = << >>
    /\ running' = queue'[p][1]

Next ==
  /\ DOMAIN queue' = Prio
  /\ Change
  /\ UNCHANGED running \/ (~locked /\ ~locked' /\ Dispatch)

Spec == Init /\ [][Next]_vars
=============================================================================
