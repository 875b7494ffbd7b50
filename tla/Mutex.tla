------------------------------- MODULE Mutex --------------------------------
(***************************************************************************)
(* One mutex of src/ipc.c: recursive taking, waiting with and without a    *)
(* timeout, priority inheritance by the owner, and release, which hands    *)
(* the mutex to the first waiter.                                          *)
(***************************************************************************)
EXTENDS IpcObject

CONSTANTS
  Mtx,        \* the mutex's wait list
  NoPrio,     \* 0xFF, the original_priority of a mutex without owner
  MaxHold     \* how often its owner takes it, at most: mutex->hold is an
              \* rt_uint8_t that rt_mutex_take increments without a test

ASSUME MutexAssumption ==
  /\ Mtx \in {Lists[i] : i \in DOMAIN Lists} /\ NoPrio \notin Prio /\ MaxHold \in 1 .. 255
  /\ "link" \notin WaitList   \* variable step holds labels and lists

VARIABLES
  value, owner, original_priority, hold,   \* the fields of struct rt_mutex
  astray,     \* threads that a signal has interrupted in a wait (history)
  held        \* takes that returned RT_EOK less releases, of each thread that
              \* is not astray: what it believes to hold (history)

mutexVars == <<value, owner, original_priority, hold, held, astray>>

MutexInit ==
  /\ ObjStart
  /\ value = 1 /\ owner = NoThread /\ original_priority = NoPrio /\ hold = 0
  /\ held = [t \in Thread |-> 0] /\ astray = {}

(* After a wait that a signal has interrupted rt_mutex_take goes back to   *)
(* its test with interrupts on.  By discipline nobody else uses the mutex  *)
(* while a thread is in this part of its call, so that its statements up   *)
(* to the suspension can be one action.                                    *)
MutexCall(t, op) ==
  ObjCall(t, op) /\ \A u \in Thread : ~(pc[u] = "waited" /\ step[u] = "link")

(* A take returns RT_EOK.                                                  *)
Holds(t) == held' = IF t \in astray THEN held ELSE [held EXCEPT ![t] = @ + 1]

-----------------------------------------------------------------------------
(* rt_mutex_take by the owner                                              *)
MutexTakeAgain(t) ==
  /\ MutexCall(t, "take")
  /\ owner = t /\ hold < MaxHold
  /\ hold' = hold + 1
  /\ Holds(t)
  /\ k' = SetError(k, t, "EOK")
  /\ UNCHANGED <<isr, pc, arg, crit, objVars, value, owner, original_priority, astray>>

(* rt_mutex_take of a mutex that is available                              *)
MutexTake(t) ==
  /\ MutexCall(t, "take")
  /\ owner # t /\ value > 0
  /\ value' = value - 1
  /\ owner' = t
  /\ original_priority' = k.prio[t]
  /\ hold' = hold + 1
  /\ Holds(t)
  /\ k' = SetError(k, t, "EOK")
  /\ UNCHANGED <<isr, pc, arg, crit, objVars, astray>>

(* rt_mutex_take with a time of 0 of a mutex that is not, rt_mutex_release *)
(* by a thread that is not the owner                                       *)
MutexRefuse(t) ==
  /\ \/ /\ MutexCall(t, "take") /\ owner # t /\ value = 0
        /\ k' = SetError(k, t, "ETIMEOUT")
     \/ /\ MutexCall(t, "release") /\ owner # t
        /\ k' = SetError(k, t, "ERROR")
  /\ UNCHANGED <<isr, pc, arg, crit, objVars, mutexVars>>

(* Mutant of Boost: the owner keeps its priority.                          *)
BoostNot(k0, t) == k0

(* "change the owner thread priority of mutex", for a waiter t             *)
Boost(k0, t) ==
  IF k0.prio[t] < k0.prio[owner] THEN ChangePriority(k0, owner, k0.prio[t]) ELSE k0

(* rt_mutex_take that waits, up to its rt_schedule                         *)
MutexWait(t, time) ==
  /\ MutexCall(t, "take") /\ time # "none"
  /\ owner # t /\ value = 0
  /\ LET waiting == IpcSuspend(SetError(Boost(k, t), t, "EOK"), Mtx, t, flag)
     IN  k' = IF time = "ticks" THEN StartTimer(waiting, t) ELSE waiting
  /\ wait' = [wait EXCEPT ![t] = time]
  /\ Goto(t, "wait")
  /\ UNCHANGED <<isr, arg, crit, flag, alive, step, mutexVars>>

(* "the mutex is taken successfully", after rt_schedule *)
MutexTaken(t) ==
  /\ Woken(t) /\ k.error[t] = "EOK"
  /\ Holds(t)
  /\ Return(t, "app")
  /\ UNCHANGED <<k, isr, arg, crit, flag, alive, value, owner, original_priority, hold, astray>>

(* or it failed.                                                           *)
MutexNotTaken(t) == k.error[t] # "EINTR" /\ WaitFails(t) /\ UNCHANGED mutexVars

(* "interrupt by signal, try it again": back to the test of the value.     *)
(* The error stays, and that the mutex may have been given to t since is   *)
(* not looked at: t then waits for itself.                                 *)
MutexAgain(t) ==
  /\ Woken(t) /\ k.error[t] = "EINTR"
  /\ \/ /\ value > 0
        /\ value' = value - 1 /\ owner' = t /\ original_priority' = k.prio[t]
        /\ hold' = hold + 1
        /\ Holds(t)
        /\ Return(t, "app")
        /\ UNCHANGED k
     \/ /\ value = 0
        /\ k' = Suspend(Boost(k, t), t)
        /\ GoStep(t, "link")
        /\ UNCHANGED <<pc, wait, value, owner, original_priority, hold, held>>
  /\ UNCHANGED <<isr, arg, crit, flag, alive, astray>>

(* It has suspended itself with interrupts on: an interrupt may switch to  *)
(* another thread before t is in the wait list.  If a signal has made it   *)
(* ready again, it links itself there although it is in its ready list;    *)
(* the lists are broken, and the system is taken to stop.                  *)
MutexLink(t) ==
  /\ AtStep(t, "link")
  /\ \/ /\ k.stat[t] = "suspend"
        /\ LET linked == IpcSuspend(k, Mtx, t, flag)
           IN  k' = IF wait[t] = "ticks" THEN StartTimer(linked, t) ELSE linked
     \/ /\ k.stat[t] # "suspend"
        /\ k' = [k EXCEPT !.asserted = TRUE]
  /\ Goto(t, "wait") /\ GoStep(t, "none")
  /\ UNCHANGED <<isr, arg, crit, flag, alive, wait, mutexVars>>

(* Mutant of Restore: the owner keeps the priority it has inherited.       *)
RestoreNot(t) == k

(* "change the owner thread to original priority"                          *)
Restore(t) ==
  IF original_priority # k.prio[t] THEN ChangePriority(k, t, original_priority) ELSE k

(* Mutant of HandOver: the value is increased as if nobody were waiting.   *)
HandOverAndFree(t) ==
  LET first == Head(k.list[Mtx])
  IN  /\ owner' = first
      /\ original_priority' = k.prio[first]
      /\ hold' = 1
      /\ value' = value + 1
      /\ k' = IpcResume(Restore(t), Mtx)

(* "set new owner and priority", "resume thread"                           *)
HandOver(t) ==
  LET first == Head(k.list[Mtx])
  IN  /\ owner' = first
      /\ original_priority' = k.prio[first]
      /\ hold' = 1
      /\ k' = IpcResume(Restore(t), Mtx)
      /\ UNCHANGED value

(* rt_mutex_release by the owner.  It always ends with rt_schedule: its    *)
(* condition `need_schedule = RT_TRUE` is an assignment.                  *)
MutexRelease(t) ==
  /\ MutexCall(t, "release") /\ owner = t
  /\ \/ /\ hold > 1
        /\ hold' = hold - 1
        /\ UNCHANGED <<k, value, owner, original_priority>>
     \/ /\ hold <= 1 /\ k.list[Mtx] # << >>
        /\ HandOver(t)
     \/ /\ hold <= 1 /\ k.list[Mtx] = << >>
        /\ value' = value + 1
        /\ owner' = NoThread
        /\ original_priority' = NoPrio
        /\ hold' = 0
        /\ k' = Restore(t)
  /\ held' = [held EXCEPT ![t] = IF @ > 0 THEN @ - 1 ELSE 0]
  /\ Goto(t, "sched")
  /\ UNCHANGED <<isr, arg, crit, objVars, astray>>

(* rt_mutex_detach, rt_mutex_delete: by discipline of a mutex that is free *)
(* or the caller's own, at its own priority.  The code tests neither, and  *)
(* a caller that waiters have raised would keep their priority.            *)
MutexDetach(t) ==
  /\ owner \in {t, NoThread}
  /\ owner = t => original_priority = k.prio[t]
  /\ DetachObject(t)
  /\ UNCHANGED mutexVars

(* rt_mutex_init, rt_mutex_create                                          *)
MutexCreate(t) ==
  /\ InitObject(t)
  /\ value' = 1 /\ owner' = NoThread /\ original_priority' = NoPrio /\ hold' = 0
  /\ held' = [u \in Thread |-> 0] /\ UNCHANGED astray

MutexStep(t) ==
  \/ MutexTakeAgain(t) \/ MutexTake(t) \/ MutexRefuse(t) \/ MutexTaken(t) \/ MutexRelease(t)
  \/ \E time \in Time : MutexWait(t, time)
  \/ MutexNotTaken(t) \/ MutexAgain(t) \/ MutexLink(t)
  \/ MutexDetach(t) \/ MutexCreate(t)
  \/ (DrainTest(t) \/ DrainResume(t)) /\ UNCHANGED mutexVars

-----------------------------------------------------------------------------
(* Correctness.                                                            *)

(* Only the owner believes to hold the mutex, as often as the mutex says,  *)
(* among the threads whose waits no signal has interrupted (astray): one   *)
(* that is resumed by a signal before its rt_schedule goes on as if it had *)
(* been given the mutex, and one that is given it and then handles a       *)
(* signal waits for itself.  A thread that was given the mutex and whose   *)
(* timer then finds it ready (k.asserted) is told otherwise.               *)
MutualExclusion ==
  \A t \in Thread \ astray :
    /\ held[t] > 0 => owner = t
    /\ owner = t /\ alive /\ pc[t] \in {"app", "sched"} /\ ~k.asserted
         => held[t] = hold

(* Priority inheritance: the owner is at least as urgent as every waiter.  *)
(* It holds for a mutex of kind PRIO; one of kind FIFO hands itself to the *)
(* first waiter, and the others do not raise it.                           *)
OwnerInherits ==
  flag = "PRIO" =>
    \A t \in Elements(k.list[Mtx]) : owner # NoThread => k.prio[owner] <= k.prio[t]

(* What a thread inherited it gives back: only the owner is ever away from *)
(* its own priority, and release will restore that.                        *)
PriorityRestored ==
  \A t \in Thread :
    k.prio[t] = InitPrio[t] \/ (owner = t /\ original_priority = InitPrio[t])
=============================================================================
