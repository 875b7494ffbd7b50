------------------------------- MODULE Event --------------------------------
(***************************************************************************)
(* One event object of src/ipc.c, a set of event bits: rt_event_send from  *)
(* threads and from interrupts, rt_event_recv with the options AND, OR and *)
(* CLEAR, rt_event_control(RESET), detach and init.                        *)
(***************************************************************************)
EXTENDS IpcObject

CONSTANTS
  Evt,        \* the event object's wait list
  Bits,       \* the bits of the event set
  Requests    \* what applications ask rt_event_recv for, records of
              \* [set : SUBSET Bits, opt : {"AND", "OR"}, clear : BOOLEAN]

ASSUME EventAssumption ==
  /\ Evt \in {Lists[i] : i \in DOMAIN Lists}
  /\ Requests \subseteq [set : (SUBSET Bits) \ {{}}, opt : {"AND", "OR"}, clear : BOOLEAN]

VARIABLES
  set,        \* event->set
  ask,        \* thread->event_set and thread->event_info of each thread
  late        \* the threads whose events were set already when they began
              \* to wait, until the next send (a history variable)

eventVars == <<set, ask, late>>

NoAsk == [set |-> {}, opt |-> "OR", clear |-> FALSE]

EventInit ==
  /\ set = {}
  /\ ask = [t \in Thread |-> NoAsk]
  /\ late = {}

Satisfied(r, events) ==
  IF r.opt = "AND" THEN r.set \subseteq events ELSE r.set \cap events # {}

-----------------------------------------------------------------------------
(* Mutants of Offer: only the events that are exactly asked for count; the *)
(* events are not cleared.                                                 *)
OfferExact(r, t) ==
  LET got == r.ask[t].set \cap r.set
  IN  IF ~Satisfied(r.ask[t], r.set) \/ got # r.ask[t].set THEN r
      ELSE [k   |-> Resume(r.k, t),
            set |-> IF r.ask[t].clear THEN r.set \ got ELSE r.set,
            ask |-> r.ask]

OfferKeep(r, t) ==
  LET got == r.ask[t].set \cap r.set
  IN  IF ~Satisfied(r.ask[t], r.set) THEN r
      ELSE [k |-> Resume(r.k, t), set |-> r.set, ask |-> [r.ask EXCEPT ![t].set = got]]

(* One turn of the loop of rt_event_send, for waiter t: r has the kernel,  *)
(* the event set and the threads' event_set as the turns before left them. *)
Offer(r, t) ==
  LET got == r.ask[t].set \cap r.set
  IN  IF ~Satisfied(r.ask[t], r.set) THEN r
      ELSE [k   |-> Resume(r.k, t),
            set |-> IF r.ask[t].clear THEN r.set \ got ELSE r.set,
            ask |-> [r.ask EXCEPT ![t].set = got]]

(* The section of rt_event_send.  It goes through the list once, in order, *)
(* and takes threads out of it while it does.                              *)
Delivered(events) ==
  LET waiters == k.list[Evt]
      turn[i \in 0 .. Len(waiters)] ==
        IF i = 0 THEN [k |-> k, set |-> set \cup events, ask |-> ask]
        ELSE Offer(turn[i - 1], waiters[i])
  IN  turn[Len(waiters)]

SendSection(r) ==
  /\ set' = r.set /\ ask' = r.ask
  /\ late' = {}

(* rt_event_send in a thread, up to its rt_schedule: need_schedule is set  *)
(* if a thread was resumed                                                 *)
EventSend(t, events) ==
  /\ ObjCall(t, "send")
  /\ LET r == Delivered(events)
     IN  /\ SendSection(r)
         /\ k' = r.k
         /\ Goto(t, IF r.k # k THEN "sched" ELSE "app")
  /\ UNCHANGED <<isr, arg, crit, objVars>>

(* rt_event_send in a device interrupt *)
EventSendIsr(events) ==
  /\ IsrCall("isr_send")
  /\ LET r == Delivered(events)
     IN  /\ SendSection(r)
         /\ k' = IF r.k # k THEN Schedule(r.k) ELSE k
  /\ UNCHANGED <<isr, pc, arg, crit, objVars>>

(* rt_event_recv.  Its test `status = RT_EOK` is an assignment and the     *)
(* condition always false: the call waits, whatever events are set,        *)
EventRecv(t, r, time) ==
  /\ ObjCall(t, "recv") /\ time # "none"
  /\ ask' = [ask EXCEPT ![t] = r]
  /\ late' = IF Satisfied(r, set) THEN late \cup {t} ELSE late \ {t}
  /\ k' = Await(t, Evt, time)
  /\ Goto(t, "wait")
  /\ UNCHANGED <<isr, arg, crit, objVars, set>>

(* or fails with a timeout of 0.                                           *)
EventRefuse(t) ==
  /\ ObjCall(t, "recv")
  /\ k' = SetError(k, t, "ETIMEOUT")
  /\ UNCHANGED <<isr, pc, arg, crit, objVars, eventVars>>

(* event_set and event_info of a thread mean nothing when its call is over *)
Forget(t) ==
  /\ ask' = [ask EXCEPT ![t] = NoAsk]
  /\ late' = late \ {t}
  /\ UNCHANGED set

(* The end of rt_event_recv: *recved = thread->event_set, or an error      *)
EventReceived(t) ==
  /\ Woken(t) /\ k.error[t] = "EOK"
  /\ Return(t, "app")
  /\ Forget(t)
  /\ UNCHANGED <<k, isr, arg, crit, flag, alive>>

(* rt_event_control(RT_IPC_CMD_RESET) *)
EventReset(t) ==
  /\ ObjCall(t, "reset")
  /\ k' = DrainLists(k)
  /\ set' = {}
  /\ Goto(t, "sched")
  /\ UNCHANGED <<isr, arg, crit, objVars, ask, late>>

(* rt_event_detach, rt_event_delete *)
EventDetach(t) == DetachObject(t) /\ UNCHANGED eventVars

(* rt_event_init, rt_event_create *)
EventCreate(t) ==
  /\ InitObject(t)
  /\ set' = {}
  /\ UNCHANGED <<ask, late>>

EventStep ==
  \/ Next /\ UNCHANGED <<objVars, eventVars>>
  \/ \E events \in (SUBSET Bits) \ {{}} :
       EventSendIsr(events) \/ \E t \in Thread : EventSend(t, events)
  \/ \E t \in Thread :
       \/ \E r \in Requests, time \in Time : EventRecv(t, r, time)
       \/ EventRefuse(t) \/ EventReceived(t) \/ EventReset(t)
       \/ WaitFails(t) /\ Forget(t)
       \/ EventDetach(t) \/ EventCreate(t)
       \/ (DrainTest(t) \/ DrainResume(t)) /\ UNCHANGED eventVars

EventNext == (~k.asserted /\ EventStep) \/ (Halt /\ UNCHANGED eventVars)

EventSpec == ObjStart /\ EventInit /\ [][EventNext]_<<vars, objVars, eventVars>>

-----------------------------------------------------------------------------
(* Correctness.                                                            *)

(* No send leaves a thread waiting for events that are set, although the   *)
(* threads before it in the list may clear some: who waits for such events *)
(* began to wait when they were set already and nothing was sent since.    *)
SendWakesAll ==
  \A t \in Elements(k.list[Evt]) : Satisfied(ask[t], set) => t \in late

(* Threads that leave the wait list without an error leave it with what    *)
(* they asked for: all of it for AND, something of it for OR.  What a      *)
(* thread receives with CLEAR it alone receives: the events are no longer  *)
(* set, and no thread behind it in the list is given them as well.         *)
Leaving(t) ==
  /\ t \in Elements(k.list[Evt]) /\ t \notin Elements(k'.list[Evt])
  /\ k'.error[t] = "EOK" /\ ask[t] # NoAsk
ClearedOnce ==
  [][\A i \in DOMAIN k.list[Evt] :
       LET t == k.list[Evt][i]
       IN  Leaving(t) =>
             /\ ask'[t].set # {} /\ ask'[t].set \subseteq ask[t].set
             /\ ask[t].opt = "AND" => ask'[t].set = ask[t].set
             /\ ask[t].clear =>
                  /\ ask'[t].set \cap set' = {}
                  /\ \A j \in i + 1 .. Len(k.list[Evt]) :
                       Leaving(k.list[Evt][j]) => ask'[t].set \cap ask'[k.list[Evt][j]].set = {}
    ]_<<vars, objVars, eventVars>>
=============================================================================
