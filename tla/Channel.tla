------------------------------ MODULE Channel -------------------------------
(***************************************************************************)
(* What a mailbox or message queue promises: a bounded queue of messages,  *)
(* which are received in the order they were sent, the urgent ones first,  *)
(* each once.  A reset or re-creation empties it.                          *)
(***************************************************************************)
EXTENDS Naturals, Sequences

CONSTANTS
  Msg,        \* the messages
  NoMsg,      \* the value of received before a message is received
  Capacity,   \* how many messages the queue holds at most
  HasUrgent   \* whether urgent messages can be sent

VARIABLES
  queue,      \* the messages sent and not received, the next one first
  received    \* the message received last

Init == queue = << >> /\ received = NoMsg

Send(m) ==
  /\ Len(queue) < Capacity
  /\ queue' = Append(queue, m)
  /\ UNCHANGED received

Urgent(m) ==
  /\ HasUrgent /\ Len(queue) < Capacity
  /\ queue' = <<m>> \o queue
  /\ UNCHANGED received

Receive ==
  /\ queue # << >>
  /\ received' = Head(queue)
  /\ queue' = Tail(queue)

Clear == queue' = << >> /\ UNCHANGED received

Next == Receive \/ Clear \/ \E m \in Msg : Send(m) \/ Urgent(m)

Spec == Init /\ [][Next]_<<queue, received>>
=============================================================================
