---------------------------- MODULE MessageQueue ----------------------------
(***************************************************************************)
(* One message queue of src/ipc.c: a list of queued messages and a list of *)
(* free ones, between which rt_mq_send, rt_mq_urgent and rt_mq_recv move   *)
(* them in two sections each, copying the contents with interrupts on in   *)
(* between; rt_mq_send from interrupts; reset, detach and init.            *)
(***************************************************************************)
EXTENDS IpcObject

CONSTANTS
  Mq,         \* the message queue's wait list
  Node,       \* the messages of its pool (struct rt_mq_message)
  Body,       \* the contents that are sent
  NoNode,     \* RT_NULL
  NoBody      \* the contents of a free message, which nobody reads

ASSUME MessageQueueAssumption ==
  /\ Mq \in {Lists[i] : i \in DOMAIN Lists}
  /\ Node # {} /\ IsFiniteSet(Node) /\ NoNode \notin Node /\ NoBody \notin Body

VARIABLES
  msg_queue,        \* the list from msg_queue_head to msg_queue_tail
  msg_queue_free,   \* the list of free messages
  mq_entry,         \* mq->entry
  body,             \* the contents of the messages
  msg,              \* the message that each thread's call has in hand
  sending,          \* the contents each thread is sending, NoBody in rt_mq_recv
  mq_got            \* the contents received last (a history variable)

mqVars == <<msg_queue, msg_queue_free, mq_entry, body, msg, sending, mq_got>>
mqLists == <<msg_queue, msg_queue_free, mq_entry>>

(* rt_mq_init links all messages in the free list. (Which of them is which *)
(* does not matter.)                                                       *)
FreeAll == CHOOSE s \in [1 .. Cardinality(Node) -> Node] : Elements(s) = Node

MessageQueueInit ==
  /\ msg_queue = << >> /\ msg_queue_free = FreeAll /\ mq_entry = 0
  /\ body = [n \in Node |-> NoBody]
  /\ msg = [t \in Thread |-> NoNode]
  /\ sending = [t \in Thread |-> NoBody]
  /\ mq_got = NoBody

-----------------------------------------------------------------------------
(* Mutant of MsgSend: the message stays in the free list.                  *)
MsgSendKeepFree(t, v, urgent) ==
  /\ ObjCall(t, IF urgent THEN "urgent" ELSE "send") /\ msg_queue_free # << >>
  /\ msg' = [msg EXCEPT ![t] = Head(msg_queue_free)]
  /\ sending' = [sending EXCEPT ![t] = v]
  /\ GoStep(t, IF urgent THEN "copy_urgent" ELSE "copy")
  /\ Goto(t, "waited")
  /\ UNCHANGED <<k, isr, arg, crit, flag, alive, wait, msg_queue, msg_queue_free, mq_entry, body,
                 mq_got>>

(* rt_mq_send, rt_mq_urgent: the section that takes a message from the     *)
(* free list.  If there is none they return -RT_EFULL.                     *)
MsgSend(t, v, urgent) ==
  /\ ObjCall(t, IF urgent THEN "urgent" ELSE "send") /\ msg_queue_free # << >>
  /\ msg' = [msg EXCEPT ![t] = Head(msg_queue_free)]
  /\ msg_queue_free' = Tail(msg_queue_free)
  /\ sending' = [sending EXCEPT ![t] = v]
  /\ GoStep(t, IF urgent THEN "copy_urgent" ELSE "copy")
  /\ Goto(t, "waited")
  /\ UNCHANGED <<k, isr, arg, crit, flag, alive, wait, msg_queue, mq_entry, body, mq_got>>

(* "copy buffer", with interrupts on                                       *)
MsgCopy(t) ==
  /\ AtStep(t, "copy") \/ AtStep(t, "copy_urgent")
  /\ body' = [body EXCEPT ![msg[t]] = sending[t]]
  /\ GoStep(t, IF step[t] = "copy" THEN "link" ELSE "link_urgent")
  /\ UNCHANGED <<vars, flag, alive, wait, mqLists, msg, sending, mq_got>>

(* "link msg to message queue", "to the beginning of message queue"        *)
QueueWith(n, urgent) == IF urgent THEN <<n>> \o msg_queue ELSE Append(msg_queue, n)

(* The second section of rt_mq_send and rt_mq_urgent                       *)
MsgLink(t) ==
  /\ AtStep(t, "link") \/ AtStep(t, "link_urgent")
  /\ msg_queue' = QueueWith(msg[t], step[t] = "link_urgent")
  /\ mq_entry' = mq_entry + 1
  /\ k' = WakeFirst(k, Mq)
  /\ Return(t, WakeLabel(Mq))
  /\ msg' = [msg EXCEPT ![t] = NoNode]
  /\ sending' = [sending EXCEPT ![t] = NoBody]
  /\ UNCHANGED <<isr, arg, crit, flag, alive, msg_queue_free, body, mq_got>>

(* All of rt_mq_send in a device interrupt                                 *)
MsgSendIsr(v) ==
  /\ IsrCall("isr_send") /\ msg_queue_free # << >>
  /\ body' = [body EXCEPT ![Head(msg_queue_free)] = v]
  /\ msg_queue' = QueueWith(Head(msg_queue_free), FALSE)
  /\ msg_queue_free' = Tail(msg_queue_free)
  /\ mq_entry' = mq_entry + 1
  /\ k' = WakeIsr(Mq)
  /\ UNCHANGED <<isr, pc, arg, crit, objVars, msg, sending, mq_got>>

-----------------------------------------------------------------------------
(* Mutant of TakeMsg: the message stays at the head of the queue.          *)
TakeMsgLinked(t) ==
  /\ msg' = [msg EXCEPT ![t] = Head(msg_queue)]
  /\ mq_got' = body[Head(msg_queue)]
  /\ mq_entry' = mq_entry - 1
  /\ GoStep(t, "free")
  /\ Goto(t, "waited")
  /\ UNCHANGED <<k, wait, msg_queue>>

(* "get message from queue": from here on the message is t's alone, which  *)
(* copies it with interrupts on.                                           *)
TakeMsg(t) ==
  /\ msg' = [msg EXCEPT ![t] = Head(msg_queue)]
  /\ mq_got' = body[Head(msg_queue)]
  /\ msg_queue' = Tail(msg_queue)
  /\ mq_entry' = mq_entry - 1
  /\ GoStep(t, "free")
  /\ Goto(t, "waited")
  /\ UNCHANGED <<k, wait>>

(* rt_mq_recv.  An empty queue makes it wait, or return -RT_ETIMEOUT at    *)
(* once with a timeout of 0.                                               *)
MsgRecv(t, time) ==
  /\ ObjCall(t, "recv")
  /\ \/ mq_entry # 0 /\ TakeMsg(t)
     \/ mq_entry = 0 /\ time # "none" /\ Block(t, Mq, time) /\ UNCHANGED <<mq_entry, msg_queue, msg, mq_got>>
  /\ UNCHANGED <<isr, arg, crit, flag, alive, msg_queue_free, body, sending>>

(* Its loop, after a wakeup                                                *)
MsgRecvAgain(t) ==
  /\ Woken(t) /\ k.error[t] = "EOK"
  /\ \/ mq_entry # 0 /\ TakeMsg(t)
     \/ /\ mq_entry = 0
        /\ \E time \in TimeLeft(t) :
             \/ time # "none" /\ Block(t, Mq, time)
             \/ time = "none" /\ Return(t, "app") /\ k' = SetError(k, t, "ETIMEOUT")
        /\ UNCHANGED <<mq_entry, msg_queue, msg, mq_got>>
  /\ UNCHANGED <<isr, arg, crit, flag, alive, msg_queue_free, body, sending>>

(* "put message to free list".  The message is linked before the second of *)
(* the free ones (msg_queue_free->next), so that the first is lost; if     *)
(* there is no free one a null pointer is followed, and the system stops.  *)
MsgFree(t) ==
  /\ AtStep(t, "free")
  /\ \/ /\ msg_queue_free # << >>
        /\ msg_queue_free' = <<msg[t]>> \o Tail(msg_queue_free)
        /\ UNCHANGED k
     \/ /\ msg_queue_free = << >>
        /\ k' = [k EXCEPT !.asserted = TRUE]
        /\ UNCHANGED msg_queue_free
  /\ Return(t, "app")
  /\ msg' = [msg EXCEPT ![t] = NoNode]
  /\ body' = [body EXCEPT ![msg[t]] = NoBody]
  /\ UNCHANGED <<isr, arg, crit, flag, alive, msg_queue, mq_entry, sending, mq_got>>

-----------------------------------------------------------------------------
(* rt_mq_control(RT_IPC_CMD_RESET): the messages of the queue are pushed   *)
(* on the free list one by one.                                            *)
MsgReset(t) ==
  /\ ObjCall(t, "reset")
  /\ k' = DrainLists(k)
  /\ msg_queue_free' = [i \in DOMAIN msg_queue |-> msg_queue[Len(msg_queue) + 1 - i]]
                         \o msg_queue_free
  /\ msg_queue' = << >> /\ mq_entry' = 0
  /\ body' = [n \in Node |-> IF n \in Elements(msg_queue) THEN NoBody ELSE body[n]]
  /\ Goto(t, "sched")
  /\ UNCHANGED <<isr, arg, crit, objVars, msg, sending, mq_got>>

(* rt_mq_detach, rt_mq_delete *)
MsgDetach(t) == DetachObject(t) /\ UNCHANGED mqVars

(* rt_mq_init, and rt_mq_create, whose loop links no message in the free   *)
(* list: every send to such a queue returns -RT_EFULL.                     *)
MsgCreate(t) ==
  /\ InitObject(t)
  /\ msg_queue_free' \in {FreeAll, << >>}
  /\ msg_queue' = << >> /\ mq_entry' = 0
  /\ body' = [n \in Node |-> NoBody]
  /\ UNCHANGED <<msg, sending, mq_got>>

MessageQueueStep ==
  \/ Next /\ UNCHANGED <<objVars, mqVars>>
  \/ \E v \in Body : MsgSendIsr(v)
  \/ \E t \in Thread :
       \/ \E v \in Body, urgent \in BOOLEAN : MsgSend(t, v, urgent)
       \/ MsgCopy(t) \/ MsgLink(t)
       \/ \E time \in Time : MsgRecv(t, time)
       \/ MsgRecvAgain(t) \/ MsgFree(t)
       \/ WaitFails(t) /\ UNCHANGED mqVars
       \/ MsgReset(t) \/ MsgDetach(t) \/ MsgCreate(t)
       \/ (DrainTest(t) \/ DrainResume(t)) /\ UNCHANGED mqVars

MessageQueueNext == (~k.asserted /\ MessageQueueStep) \/ (Halt /\ UNCHANGED mqVars)

MessageQueueSpec ==
  ObjStart /\ MessageQueueInit /\ [][MessageQueueNext]_<<vars, objVars, mqVars>>

-----------------------------------------------------------------------------
(* Correctness.                                                            *)

(* The message queue is a bounded queue with urgent messages: although     *)
(* contents are copied with interrupts on, and messages used again, every  *)
(* message is received with the contents it was sent with, once, in order. *)
MsgChannel == INSTANCE Channel WITH
  Msg <- Body, NoMsg <- NoBody, Capacity <- Cardinality(Node), HasUrgent <- TRUE,
  queue <- [i \in DOMAIN msg_queue |-> body[msg_queue[i]]], received <- mq_got
QueueIsChannel == MsgChannel!Spec

(* A message is in one place at most: in one of the lists once, or in the  *)
(* hands of one thread.                                                    *)
NoMessageShared ==
  LET used == msg_queue \o msg_queue_free
  IN  /\ \A i, j \in DOMAIN used : used[i] = used[j] => i = j
      /\ \A t \in Thread : msg[t] # NoNode =>
           msg[t] \notin Elements(used) /\ \A u \in Thread : msg[u] = msg[t] => u = t
      /\ mq_entry = Len(msg_queue)

(* Receivers wait only while there is no message but for those that were   *)
(* woken before them.                                                      *)
NoMessageMissed ==
  ~k.asserted /\ k.list[Mq] # << >> => mq_entry <= Cardinality(Roused)
=============================================================================
