------------------------------ MODULE Mailbox -------------------------------
(***************************************************************************)
(* One mailbox of src/ipc.c, a ring of words with a list of waiting        *)
(* receivers and one of waiting senders: rt_mb_send and rt_mb_send_wait,   *)
(* rt_mb_send from interrupts, rt_mb_recv, reset, delete and create.       *)
(*                                                                         *)
(* After a wait, rt_mb_send_wait enables interrupts where its comment says *)
(* "disable interrupt": all that follows, up to the end of the call, has   *)
(* interrupts on, and each statement is an action of its own.              *)
(***************************************************************************)
EXTENDS IpcObject

CONSTANTS
  Receivers, Senders,   \* the wait lists suspend_thread, suspend_sender_thread
  Mail,                 \* the words that are sent
  NoMail,               \* the contents of a slot that was never written
  Size                  \* the number of slots

ASSUME MailboxAssumption ==
  /\ \E i, j \in DOMAIN Lists : i < j /\ Receivers = Lists[i] /\ Senders = Lists[j]
  /\ NoMail \notin Mail
  /\ Size \in Nat \ {0}

VARIABLES
  msg_pool, entry, in_offset, out_offset,   \* the fields of struct rt_mailbox
  mail,       \* the word each thread is sending, NoMail in rt_mb_recv
  got         \* the word received last (a history variable)

mailboxVars == <<msg_pool, entry, in_offset, out_offset, mail, got>>
ring == <<msg_pool, entry, in_offset, out_offset>>

EmptyRing == entry = 0 /\ in_offset = 0 /\ out_offset = 0

MailboxInit ==
  /\ EmptyRing
  /\ msg_pool = [i \in 0 .. Size - 1 |-> NoMail]
  /\ mail = [t \in Thread |-> NoMail]
  /\ got = NoMail

(* A sender is in the part of its call that should have interrupts off.    *)
Exposed == {t \in Thread : pc[t] = "waited" /\ step[t] # "none"}

(* Unless "race" is among the Calls, nobody else uses the mailbox then.    *)
Undisturbed(t) == "race" \notin Calls => Exposed \subseteq {t}

MailCall(t, op) == ObjCall(t, op) /\ Undisturbed(t)

-----------------------------------------------------------------------------
(* "increase input offset", "increase output offset"                       *)
After(offset) == IF offset + 1 >= Size THEN 0 ELSE offset + 1

(* Mutant of PutMail: the slot that is read next is written.               *)
PutMailAtOut(v) ==
  /\ msg_pool' = [msg_pool EXCEPT ![out_offset] = v]
  /\ in_offset' = After(in_offset)

(* "set ptr" to "increase message entry", with interrupts off              *)
PutMail(v) ==
  /\ msg_pool' = [msg_pool EXCEPT ![in_offset] = v]
  /\ in_offset' = After(in_offset)

(* rt_mb_send_wait of a mailbox that is not full, rt_mb_send               *)
MailSend(t, v) ==
  /\ MailCall(t, "send") /\ entry # Size
  /\ PutMail(v)
  /\ entry' = entry + 1
  /\ k' = WakeFirst(k, Receivers)
  /\ Goto(t, WakeLabel(Receivers))
  /\ UNCHANGED <<isr, arg, crit, objVars, out_offset, mail, got>>

(* rt_mb_send in a device interrupt *)
MailSendIsr(v) ==
  /\ IsrCall("isr_send") /\ ("race" \notin Calls => Exposed = {}) /\ entry # Size
  /\ PutMail(v)
  /\ entry' = entry + 1
  /\ k' = WakeIsr(Receivers)
  /\ UNCHANGED <<isr, pc, arg, crit, objVars, out_offset, mail, got>>

(* rt_mb_send_wait of one that is full; with a timeout of 0 it returns     *)
(* -RT_EFULL at once.                                                      *)
MailSendWait(t, v, time) ==
  /\ MailCall(t, "send") /\ entry = Size /\ time # "none"
  /\ Block(t, Senders, time)
  /\ mail' = [mail EXCEPT ![t] = v]
  /\ UNCHANGED <<isr, arg, crit, flag, alive, ring, got>>

(* After the wakeup, with interrupts on: the waiting time is recomputed    *)
(* and the test of the loop made again.  If the mailbox is full again the  *)
(* call returns -RT_EFULL or suspends the thread, which is not in the wait *)
(* list yet,                                                               *)
MailSendAgain(t) ==
  /\ Woken(t) /\ mail[t] # NoMail /\ k.error[t] = "EOK" /\ Undisturbed(t)
  /\ \E time \in TimeLeft(t) :
       \/ /\ entry # Size
          /\ wait' = [wait EXCEPT ![t] = time]
          /\ GoStep(t, "put")
          /\ UNCHANGED <<k, pc, mail>>
       \/ /\ entry = Size /\ time = "none"
          /\ Return(t, "app")
          /\ mail' = [mail EXCEPT ![t] = NoMail]
          /\ UNCHANGED k
       \/ /\ entry = Size /\ time # "none"
          /\ k' = Suspend(k, t)
          /\ wait' = [wait EXCEPT ![t] = time]
          /\ GoStep(t, "link")
          /\ UNCHANGED <<pc, mail>>
  /\ UNCHANGED <<isr, arg, crit, flag, alive, ring, got>>

(* is linked in it, and has its timer started.                             *)
MailSendLink(t) ==
  /\ AtStep(t, "link")
  /\ k' = Await(t, Senders, wait[t])
  /\ GoStep(t, "none")
  /\ Goto(t, "wait")
  /\ UNCHANGED <<isr, arg, crit, flag, alive, wait, mailboxVars>>

(* "set ptr", "increase input offset"                                      *)
MailSendPut(t) ==
  /\ AtStep(t, "put")
  /\ PutMail(mail[t])
  /\ GoStep(t, "count")
  /\ UNCHANGED <<vars, flag, alive, wait, entry, out_offset, mail, got>>

(* "increase message entry"                                                *)
MailSendCount(t) ==
  /\ AtStep(t, "count")
  /\ entry' = entry + 1
  /\ GoStep(t, "wake")
  /\ UNCHANGED <<vars, flag, alive, wait, msg_pool, in_offset, out_offset, mail, got>>

(* "resume suspended thread"                                               *)
MailSendWake(t) ==
  /\ AtStep(t, "wake")
  /\ k' = WakeFirst(k, Receivers)
  /\ Return(t, WakeLabel(Receivers))
  /\ mail' = [mail EXCEPT ![t] = NoMail]
  /\ UNCHANGED <<isr, arg, crit, flag, alive, ring, got>>

-----------------------------------------------------------------------------
(* The section of rt_mb_recv that takes a word and wakes a sender. (Its    *)
(* mutant wakes nobody.)                                                   *)
TakeMailQuietly(t) ==
  /\ got' = msg_pool[out_offset]
  /\ out_offset' = After(out_offset)
  /\ entry' = entry - 1
  /\ Return(t, "app")
  /\ UNCHANGED <<k, msg_pool, in_offset>>

TakeMail(t) ==
  /\ got' = msg_pool[out_offset]
  /\ out_offset' = After(out_offset)
  /\ entry' = entry - 1
  /\ k' = WakeFirst(k, Senders)
  /\ Return(t, WakeLabel(Senders))
  /\ UNCHANGED <<msg_pool, in_offset>>

(* rt_mb_recv, its first section; an empty mailbox makes it wait, or       *)
(* return at once with a timeout of 0.                                     *)
MailRecv(t, time) ==
  /\ MailCall(t, "recv")
  /\ \/ entry # 0 /\ TakeMail(t)
     \/ entry = 0 /\ time # "none" /\ Block(t, Receivers, time) /\ UNCHANGED <<ring, got>>
  /\ UNCHANGED <<isr, arg, crit, flag, alive, mail>>

(* The turns of its loop after a wakeup, with interrupts off               *)
MailRecvAgain(t) ==
  /\ Woken(t) /\ mail[t] = NoMail /\ k.error[t] = "EOK" /\ Undisturbed(t)
  /\ \/ entry # 0 /\ TakeMail(t)
     \/ /\ entry = 0
        /\ \E time \in TimeLeft(t) :
             \/ time # "none" /\ Block(t, Receivers, time)
             \/ time = "none" /\ Return(t, "app") /\ k' = SetError(k, t, "ETIMEOUT")
        /\ UNCHANGED <<ring, got>>
  /\ UNCHANGED <<isr, arg, crit, flag, alive, mail>>

(* Either call returns the error of its wait.                              *)
MailFails(t) ==
  /\ WaitFails(t)
  /\ mail' = [mail EXCEPT ![t] = NoMail]
  /\ UNCHANGED <<ring, got>>

(* rt_mb_control(RT_IPC_CMD_RESET) *)
MailReset(t) ==
  /\ MailCall(t, "reset")
  /\ k' = DrainLists(k)
  /\ entry' = 0 /\ in_offset' = 0 /\ out_offset' = 0
  /\ Goto(t, "sched")
  /\ UNCHANGED <<isr, arg, crit, objVars, msg_pool, mail, got>>

(* rt_mb_delete, rt_mb_detach *)
MailDetach(t) == DetachObject(t) /\ UNCHANGED mailboxVars

(* rt_mb_create.  (rt_mb_init leaves the list of senders uninitialised.)   *)
MailCreate(t) ==
  /\ InitObject(t)
  /\ msg_pool' = [i \in 0 .. Size - 1 |-> NoMail]
  /\ entry' = 0 /\ in_offset' = 0 /\ out_offset' = 0
  /\ UNCHANGED <<mail, got>>

MailboxStep ==
  \/ Next /\ UNCHANGED <<objVars, mailboxVars>>
  \/ \E v \in Mail : MailSendIsr(v)
  \/ \E t \in Thread :
       \/ \E v \in Mail : MailSend(t, v) \/ \E time \in Time : MailSendWait(t, v, time)
       \/ MailSendAgain(t) \/ MailSendLink(t) \/ MailSendPut(t)
       \/ MailSendCount(t) \/ MailSendWake(t)
       \/ \E time \in Time : MailRecv(t, time)
       \/ MailRecvAgain(t) \/ MailFails(t) \/ MailReset(t)
       \/ MailDetach(t) \/ MailCreate(t)
       \/ (DrainTest(t) \/ DrainResume(t)) /\ UNCHANGED mailboxVars

MailboxNext == (~k.asserted /\ MailboxStep) \/ (Halt /\ UNCHANGED mailboxVars)

MailboxSpec == ObjStart /\ MailboxInit /\ [][MailboxNext]_<<vars, objVars, mailboxVars>>

-----------------------------------------------------------------------------
(* Correctness.                                                            *)

(* The words in the ring, the next to be received first.  A sender that    *)
(* has written its word and not counted it yet has not sent it yet.        *)
Mails == [i \in 1 .. entry |-> msg_pool[(out_offset + i - 1) % Size]]

(* The mailbox is a bounded queue: words are received in the order they    *)
(* were sent, none is lost and none comes twice.                           *)
MailChannel == INSTANCE Channel WITH
  Msg <- Mail, NoMsg <- NoMail, Capacity <- Size, HasUrgent <- FALSE,
  queue <- Mails, received <- got
MailboxIsChannel == MailChannel!Spec

(* Receivers wait only while there is no mail but for those that were      *)
(* woken before them, and senders only while there is no room but for      *)
(* those that were woken before them.                                      *)
NoMailMissed ==
  ~k.asserted =>
    /\ k.list[Receivers] # << >> =>
         entry <= Cardinality({t \in Roused : mail[t] = NoMail}
                                \cup {t \in Exposed : step[t] = "wake"})
    /\ k.list[Senders] # << >> =>
         Size - entry <= Cardinality({t \in Roused : mail[t] # NoMail}
                                       \cup {t \in Exposed : step[t] \in {"put", "count"}})
=============================================================================
