----------------------------- MODULE IpcObject ------------------------------
(***************************************************************************)
(* What the objects that threads wait for have in common: the parent of    *)
(* type rt_ipc_object, the sections of a call that waits, and the          *)
(* functions that detach (delete) and init (create) an object.  Modules    *)
(* Mutex, Event, Mailbox, MessageQueue and MemPool add the object itself.  *)
(***************************************************************************)
EXTENDS Ipc

CONSTANTS
  Flags,    \* the flags that applications give to the object
  Lists,    \* the object's wait lists, in the order in which they are emptied
  Calls     \* the calls that applications and drivers make on the object

ASSUME ObjectAssumption ==
  /\ IsFiniteSet(Thread)
  /\ Flags \subseteq IpcFlag
  /\ Lists \in Seq(WaitList)
  /\ Len(Lists) > 0
  /\ \A i, j \in DOMAIN Lists : Lists[i] = Lists[j] => i = j

VARIABLES
  flag,     \* the flag of the object, the order in which waiters are served
  alive,    \* whether the object is one of the system
  wait,     \* the waiting time of the call a thread is in, as a kind of time
  step      \* where a thread with pc "waited" or "drain2" is in its call

objVars == <<flag, alive, wait, step>>

(* A waiting time is RT_WAITING_FOREVER, a number of ticks, or 0.          *)
Time == {"forever", "ticks", "none"}

ObjStart ==
  /\ Init
  /\ flag \in Flags /\ alive = TRUE
  /\ wait = [t \in Thread |-> "none"]
  /\ step = [t \in Thread |-> "none"]

(* By discipline of applications nobody uses an object being detached.     *)
Detaching == \E t \in Thread : pc[t] \in {"drain1", "drain2"}
Usable == alive /\ ~Detaching

ObjCall(t, op) ==
  op \in Calls /\ Running(t) /\ pc[t] = "app" /\ t # Idle /\ k.lock = 0 /\ Usable

(* A device interrupt that uses the object.                                *)
IsrCall(op) == op \in Calls /\ isr = "none" /\ k.cur # NoThread /\ Usable

AtStep(t, s) == Running(t) /\ pc[t] = "waited" /\ step[t] = s
GoStep(t, s) == step' = [step EXCEPT ![t] = s]

(* A failed assertion: rt_assert_handler loops, and nothing happens any    *)
(* more (unless an application sets a hook that returns).                  *)
Halt == k.asserted /\ UNCHANGED <<vars, objVars>>

-----------------------------------------------------------------------------
(* Suspension of t in list w, with its timer running if it waits for ticks *)
Await(t, w, time) ==
  LET waiting == IpcSuspend(SetError(k, t, "EOK"), w, t, flag)
  IN  IF time = "ticks" THEN StartTimer(waiting, t) ELSE waiting

(* The section of a call of t that suspends it, and goes on to rt_schedule *)
Block(t, w, time) ==
  /\ k' = Await(t, w, time)
  /\ wait' = [wait EXCEPT ![t] = time]
  /\ step' = [step EXCEPT ![t] = "none"]
  /\ Goto(t, "wait")

(* The call of t returns, or ends with rt_schedule.                        *)
Return(t, label) ==
  /\ Goto(t, label)
  /\ wait' = [wait EXCEPT ![t] = "none"]
  /\ step' = [step EXCEPT ![t] = "none"]

(* t is back from the rt_schedule of a call that waited                    *)
Woken(t) == AtStep(t, "none")

(* "return thread->error", of a wait that failed                           *)
WaitFails(t) ==
  /\ Woken(t) /\ k.error[t] # "EOK"
  /\ Return(t, "app")
  /\ UNCHANGED <<k, isr, arg, crit, flag, alive>>

(* The waiting time that is left after a wakeup: a number of ticks may be  *)
(* used up, whereupon it is set to 0.                                      *)
TimeLeft(t) == IF wait[t] = "ticks" THEN {"ticks", "none"} ELSE {wait[t]}

(* What a wakeup of the first waiter of list w is to the one who causes it *)
WakeFirst(k0, w) == IF k0.list[w] # << >> THEN IpcResume(k0, w) ELSE k0
WakeLabel(w) == IF k.list[w] # << >> THEN "sched" ELSE "app"
WakeIsr(w) == IF k.list[w] # << >> THEN Schedule(IpcResume(k, w)) ELSE k

DrainLists(k0) ==
  LET done[n \in 0 .. Len(Lists)] ==
        IF n = 0 THEN k0 ELSE DrainAll(done[n - 1], Lists[n])
  IN  done[Len(Lists)]

-----------------------------------------------------------------------------
(* Detach or delete.  By discipline no call on the object is then under    *)
(* way but those that sleep in its lists: a thread that has been woken has *)
(* returned, and one that will wait is suspended.  The code does not test  *)
(* this.                                                                   *)
DetachObject(t) ==
  /\ ObjCall(t, "detach")
  /\ \A u \in Thread : pc[u] \in {"wait", "waited"} => k.stat[u] = "suspend"
  /\ Goto(t, "drain1")
  /\ UNCHANGED <<k, isr, arg, crit, objVars>>

(* rt_ipc_list_resume_all looks at a list with interrupts on               *)
DrainTest(t) ==
  /\ Running(t) /\ pc[t] = "drain1"
  /\ \/ \E i \in DOMAIN Lists :
          /\ k.list[Lists[i]] # << >>
          /\ \A j \in 1 .. i - 1 : k.list[Lists[j]] = << >>
          /\ GoStep(t, Lists[i])
          /\ Goto(t, "drain2")
          /\ UNCHANGED alive
     \/ /\ \A i \in DOMAIN Lists : k.list[Lists[i]] = << >>
        /\ alive' = FALSE                      \* rt_object_detach
        /\ Goto(t, "app")
        /\ UNCHANGED step
  /\ UNCHANGED <<k, isr, arg, crit, flag, wait>>

(* and resumes its first waiter with interrupts off.                       *)
DrainResume(t) ==
  /\ Running(t) /\ pc[t] = "drain2"
  /\ k' = DrainOne(k, step[t])
  /\ GoStep(t, "none")
  /\ Goto(t, "drain1")
  /\ UNCHANGED <<isr, arg, crit, flag, alive, wait>>

(* The parent's part of init or create                                     *)
InitObject(t) ==
  /\ "detach" \in Calls /\ Running(t) /\ pc[t] = "app" /\ t # Idle
  /\ ~alive
  /\ alive' = TRUE
  /\ flag' \in Flags
  /\ UNCHANGED <<vars, wait, step>>

-----------------------------------------------------------------------------
(* The threads that sleep in a call on the object are those in its wait    *)
(* lists: nobody sleeps where no wakeup, reset or detach finds him, and    *)
(* the lists hold nobody who has gone on.                                  *)
WaitersListed ==
  \A t \in Thread :
    (\E i \in DOMAIN Lists : t \in Elements(k.list[Lists[i]]))
      <=> pc[t] \in {"wait", "waited"} /\ step[t] = "none" /\ k.stat[t] = "suspend"

(* Threads that were woken to find something, and have not looked yet.     *)
Roused == {t \in Thread : /\ pc[t] \in {"wait", "waited"} /\ step[t] = "none"
                          /\ k.stat[t] # "suspend" /\ k.error[t] = "EOK"}
=============================================================================
