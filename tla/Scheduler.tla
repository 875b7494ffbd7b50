----------------------------- MODULE Scheduler ------------------------------
(***************************************************************************)
(* Threads, the clock interrupt and device interrupts running on the       *)
(* kernel of module Kernel: every function of thread.c and scheduler.c     *)
(* that changes the ready queue, rt_tick_increase of clock.c, the calls    *)
(* rt_timer_check makes for thread timers, and the reaping of dead threads *)
(* by idle.c.                                                              *)
(*                                                                         *)
(* One action is one section of code with interrupts off.  Between two     *)
(* sections of a thread's call an interrupt may come, and switch to        *)
(* another thread: pc says where a thread is in its call.  Interrupts do   *)
(* not nest (all have one priority), so that a device interrupt is one     *)
(* action; the clock interrupt is one action per timer it finds expired.   *)
(***************************************************************************)
EXTENDS Kernel

CONSTANTS
  Main,       \* the main thread of rt_application_init
  Static,     \* thread objects set up with rt_thread_init: the others are
              \* made by rt_thread_create and freed by the idle thread
  MaxLock,    \* bound of this model on the nesting of rt_enter_critical
  Ops         \* the calls that application and driver code makes

OpName == {"startup", "create", "yield", "sleep", "suspend", "resume",
           "priority", "critical", "exit", "delete", "isr_resume", "find"}

ASSUME SchedulerAssumption ==
  /\ Main \in Thread \ {Idle}
  /\ Static \subseteq Thread
  /\ Idle \in Static
  /\ InitPrio[Idle] = PrioMax - 1
  /\ MaxLock \in Nat
  /\ Ops \subseteq OpName

VARIABLES
  k,      \* the kernel data
  isr,    \* "clock" while rt_tick_increase runs (rt_interrupt_nest = 1)
  pc,     \* where each thread is
  arg,    \* the thread a call in progress works on
  crit    \* how many critical sections each thread has open (a history variable)

vars == <<k, isr, pc, arg, crit>>

(* A thread is in application code, or about to execute                    *)
(*   sched    the rt_schedule its call ends with                           *)
(*   block    the rt_schedule of rt_thread_sleep                           *)
(*   woken    the rest of rt_thread_sleep                                  *)
(*   resume1  rt_thread_resume after the check of the state                *)
(*   resume2  its call of rt_schedule_insert_thread                        *)
(*   delete1  rt_thread_delete or detach after rt_schedule_remove_thread   *)
(*   delete2  the same after rt_timer_detach                               *)
(*   exit     the rt_schedule of rt_thread_exit                            *)
(*   wait     the rt_schedule of an IPC call that blocks                   *)
(*   waited, drain1, drain2   the rest of IPC calls, in other modules      *)
(*   free     the two deallocations of rt_thread_idle_excute               *)
(* and "gone" is a thread that has switched away for the last time.        *)
PC == {"app", "sched", "block", "woken", "resume1", "resume2",
       "delete1", "delete2", "exit", "free", "gone",
       "wait", "waited", "drain1", "drain2"}

(* Where a thread goes on once the rt_schedule it is about to call returns *)
AfterSchedule == [sched |-> "app", block |-> "woken", wait |-> "waited", exit |-> "gone"]

Resuming == {"resume1", "resume2"}
Deleting == {"delete1", "delete2"}

(* The calls in progress that work on thread u, and whether there is one.  *)
Target(t) == IF pc[t] \in Resuming \cup Deleting THEN {arg[t]} ELSE {}
Targeted(u) == \E t \in Thread : u \in Target(t)

(* t is the thread the processor executes.                                 *)
Running(t) == isr = "none" /\ k.cur = t

Goto(t, label) == pc' = [pc EXCEPT ![t] = label]

(* The call of t has no more use for its argument.                         *)
Done(t) == arg' = [arg EXCEPT ![t] = Idle]

(* Application code in t may call a function of the kernel now (the idle   *)
(* thread has no hooks and makes no call).  By discipline of the           *)
(* application a thread is left alone while another one is resuming or     *)
(* deleting it.                                                            *)
Call(t, op) == op \in Ops /\ Running(t) /\ pc[t] = "app" /\ t # Idle
Free(u) == u # Idle /\ ~Targeted(u)

-----------------------------------------------------------------------------
(* rtthread_startup: rt_application_init starts the main thread, then      *)
(* rt_thread_idle_init the idle thread; other static threads are set up    *)
(* before they are started.  Interrupts are off until the first switch.    *)
Init ==
  /\ k = Startup(Startup(Blank([t \in Thread |->
            IF t \in Static \cup {Main} THEN "init" ELSE "none"]), Main), Idle)
  /\ isr  = "none"
  /\ pc   = [t \in Thread |-> "app"]
  /\ arg  = [t \in Thread |-> Idle]
  /\ crit = [t \in Thread |-> 0]

(* rt_system_scheduler_start *)
Start ==
  /\ k.cur = NoThread
  /\ k' = Schedule(k)
  /\ UNCHANGED <<isr, pc, arg, crit>>

-----------------------------------------------------------------------------
(* Calls of application code.                                              *)

(* rt_thread_init, rt_thread_create: of a thread object that is not in use *)
CreateThread(t, u) ==
  /\ Call(t, "create")
  /\ u # t /\ Free(u)
  /\ k.stat[u] = "none" \/ (u \in Static /\ k.stat[u] = "close")
  /\ k' = InitThread(k, u)
  /\ Goto(u, "app")
  /\ UNCHANGED <<isr, arg, crit>>

(* rt_thread_startup: then rt_thread_resume, whose check succeeds          *)
StartupThread(t, u) ==
  /\ Call(t, "startup")
  /\ k.stat[u] = "init" /\ Free(u)
  /\ k' = PrepareStartup(k, u)
  /\ arg' = [arg EXCEPT ![t] = u]
  /\ Goto(t, "resume1")
  /\ UNCHANGED <<isr, crit>>

(* rt_thread_yield *)
YieldThread(t) ==
  /\ Call(t, "yield")
  /\ CanRotate(k, t)
  /\ k' = Rotate(k, t)
  /\ Goto(t, "sched")
  /\ UNCHANGED <<isr, arg, crit>>

(* rt_thread_sleep: suspended with the timer running, in one section       *)
SleepThread(t) ==
  /\ Call(t, "sleep")
  /\ k' = StartTimer(Suspend(k, t), t)
  /\ Goto(t, "block")
  /\ UNCHANGED <<isr, arg, crit>>

(* rt_thread_suspend, which does not look at the state of its argument.    *)
(* Its note asks for an rt_schedule when a thread suspends itself.         *)
SuspendThread(t, u) ==
  /\ Call(t, "suspend")
  /\ k.stat[u] \in {"ready", "suspend"} /\ Free(u)
  /\ k' = Suspend(k, u)
  /\ IF u = t THEN Goto(t, "sched") ELSE UNCHANGED pc
  /\ UNCHANGED <<isr, arg, crit>>

(* rt_thread_resume: the check of the state, with interrupts on            *)
ResumeThread(t, u) ==
  /\ Call(t, "resume")
  /\ k.stat[u] = "suspend" /\ Free(u) /\ u # t
  /\ arg' = [arg EXCEPT ![t] = u]
  /\ Goto(t, "resume1")
  /\ UNCHANGED <<k, isr, crit>>

(* rt_thread_control(RT_THREAD_CTRL_CHANGE_PRIORITY); the application then *)
(* calls rt_schedule, without which the change has no effect yet           *)
ChangeThreadPriority(t, u, p) ==
  /\ Call(t, "priority")
  /\ k.stat[u] \in {"init", "ready", "suspend"} /\ Free(u)
  /\ p # k.prio[u]
  /\ k' = ChangePriority(k, u, p)
  /\ Goto(t, "sched")
  /\ UNCHANGED <<isr, arg, crit>>

(* rt_enter_critical *)
Enter(t) ==
  /\ Call(t, "critical")
  /\ k.lock < MaxLock /\ crit[t] < MaxLock
  /\ k' = EnterCritical(k)
  /\ crit' = [crit EXCEPT ![t] = @ + 1]
  /\ UNCHANGED <<isr, pc, arg>>

(* Mutant of Leave: the rt_schedule at the end is left out.                *)
LeaveNoSchedule(t) ==
  /\ Call(t, "critical")
  /\ crit[t] > 0
  /\ k' = LeaveCritical(k)
  /\ crit' = [crit EXCEPT ![t] = @ - 1]
  /\ UNCHANGED <<isr, pc, arg>>

(* rt_exit_critical, of a section that is open                             *)
Leave(t) ==
  /\ Call(t, "critical")
  /\ crit[t] > 0
  /\ k' = LeaveCritical(k)
  /\ crit' = [crit EXCEPT ![t] = @ - 1]
  /\ Goto(t, IF k'.lock = 0 THEN "sched" ELSE "app")
  /\ UNCHANGED <<isr, arg>>

(* rt_thread_find: its statement `rt_enter_critical;` calls nothing, and   *)
(* the call of rt_exit_critical leaves a section it has not entered.       *)
FindThread(t) ==
  /\ Call(t, "find")
  /\ k' = LeaveCritical(k)
  /\ Goto(t, IF k'.lock = 0 THEN "sched" ELSE "app")
  /\ UNCHANGED <<isr, arg, crit>>

(* rt_thread_exit, where the entry function of t returns.  A static thread *)
(* without a cleanup function is detached, and another goes to the idle    *)
(* thread's list.                                                          *)
ExitThread(t) ==
  /\ Call(t, "exit")
  /\ crit[t] = 0
  /\ LET left == StopTimer(RemoveThread(k, t), t)
     IN  k' = IF t \in Static
              THEN [left EXCEPT !.stat[t] = "close"]
              ELSE Close(left, t)
  /\ Goto(t, "exit")
  /\ UNCHANGED <<isr, arg, crit>>

(* rt_thread_delete, rt_thread_detach of another thread, as far as the     *)
(* section of rt_schedule_remove_thread; not of a thread that is itself    *)
(* in the middle of a resume or a delete                                   *)
DeleteThread(t, u) ==
  /\ Call(t, "delete")
  /\ u # t /\ Free(u) /\ Target(u) = {}
  /\ k.stat[u] \in {"init", "ready", "suspend"}
  /\ k' = IF k.stat[u] = "init" THEN k ELSE RemoveThread(k, u)
  /\ arg' = [arg EXCEPT ![t] = u]
  /\ Goto(t, "delete1")
  /\ UNCHANGED <<isr, crit>>

-----------------------------------------------------------------------------
(* The rest of a call.                                                     *)

(* rt_thread_resume: "remove from suspend list" *)
ResumeUnlink(t) ==
  /\ Running(t) /\ pc[t] = "resume1"
  /\ k' = [k EXCEPT !.list = Unlink(@, arg[t])]
  /\ Goto(t, "resume2")
  /\ UNCHANGED <<isr, arg, crit>>

(* rt_thread_resume: "insert to schedule ready list"; its caller is        *)
(* rt_thread_startup, or the application, and calls rt_schedule next.      *)
ResumeInsert(t) ==
  /\ Running(t) /\ pc[t] = "resume2"
  /\ k' = InsertThread(k, arg[t])
  /\ Goto(t, "sched")
  /\ Done(t)
  /\ UNCHANGED <<isr, crit>>

(* rt_thread_delete, rt_thread_detach: the call of rt_timer_detach *)
DeleteTimer(t) ==
  /\ Running(t) /\ pc[t] = "delete1"
  /\ k' = StopTimer(k, arg[t])
  /\ Goto(t, "delete2")
  /\ UNCHANGED <<isr, arg, crit>>

(* rt_thread_delete: the insertion in rt_thread_defunct; rt_thread_detach  *)
(* of a thread without a cleanup function only sets the state              *)
DeleteClose(t) ==
  /\ Running(t) /\ pc[t] = "delete2"
  /\ k' = IF arg[t] \in Static
          THEN [k EXCEPT !.stat[arg[t]] = "close"]
          ELSE Close(k, arg[t])
  /\ Goto(t, "app")
  /\ Done(t)
  /\ UNCHANGED <<isr, crit>>

(* rt_schedule, called with interrupts on.  The thread goes on with its    *)
(* next label when it is current again.                                    *)
Reschedule(t) ==
  /\ Running(t) /\ pc[t] \in DOMAIN AfterSchedule
  /\ k' = Schedule(k)
  /\ Goto(t, AfterSchedule[pc[t]])
  /\ UNCHANGED <<isr, arg, crit>>

(* rt_thread_sleep: the end *)
SleepReturn(t) ==
  /\ Running(t) /\ pc[t] = "woken"
  /\ k' = [k EXCEPT !.error[t] = IF @ = "ETIMEOUT" THEN "EOK" ELSE @]
  /\ Goto(t, "app")
  /\ UNCHANGED <<isr, arg, crit>>

(* Mutant of Reap: the thread stays in rt_thread_defunct.                  *)
ReapLinked ==
  /\ Running(Idle) /\ pc[Idle] = "app"
  /\ k.list[Defunct] # << >>
  /\ k' = Schedule(LeaveCritical(EnterCritical(k)))
  /\ arg' = [arg EXCEPT ![Idle] = Head(k.list[Defunct])]
  /\ Goto(Idle, "free")
  /\ UNCHANGED <<isr, crit>>

(* rt_thread_idle_excute: the section that takes the first defunct thread. *)
(* Its rt_exit_critical calls rt_schedule.                                 *)
Reap ==
  /\ Running(Idle) /\ pc[Idle] = "app"
  /\ k.list[Defunct] # << >>
  /\ LET dead == Head(k.list[Defunct])
     IN  /\ k' = Schedule(LeaveCritical(EnterCritical(
                   [k EXCEPT !.list = Unlink(@, dead)])))
         /\ arg' = [arg EXCEPT ![Idle] = dead]
  /\ Goto(Idle, "free")
  /\ UNCHANGED <<isr, crit>>

(* rt_thread_idle_excute: the stack and the object are freed *)
FreeThread ==
  /\ Running(Idle) /\ pc[Idle] = "free"
  /\ k' = [k EXCEPT !.stat[arg[Idle]] = "none"]
  /\ Goto(Idle, "app")
  /\ Done(Idle)
  /\ UNCHANGED <<isr, crit>>

-----------------------------------------------------------------------------
(* Interrupts.                                                             *)

(* rt_interrupt_enter and rt_tick_increase as far as rt_timer_check *)
ClockEnter ==
  /\ isr = "none" /\ k.cur # NoThread
  /\ isr' = "clock"
  /\ k' = TimeSlice(k)
  /\ UNCHANGED <<pc, arg, crit>>

(* One turn of the loop of rt_timer_check, for the timer of thread t *)
Expire(t) ==
  /\ isr = "clock" /\ k.timer[t]
  /\ k' = Timeout(k, t)
  /\ UNCHANGED <<isr, pc, arg, crit>>

(* rt_timer_check finds no other expired timer; rt_interrupt_leave *)
ClockLeave ==
  /\ isr = "clock"
  /\ isr' = "none"
  /\ UNCHANGED <<k, pc, arg, crit>>

(* A driver's interrupt resumes a thread and calls rt_schedule *)
DeviceResume(u) ==
  /\ "isr_resume" \in Ops /\ isr = "none" /\ k.cur # NoThread
  /\ Free(u) /\ k.stat[u] = "suspend"
  /\ k' = Schedule(Resume(k, u))
  /\ UNCHANGED <<isr, pc, arg, crit>>

-----------------------------------------------------------------------------
(* What thread t does once it is in a call of the kernel *)
InKernel(t) ==
  \/ ResumeUnlink(t) \/ ResumeInsert(t)
  \/ DeleteTimer(t) \/ DeleteClose(t)
  \/ Reschedule(t) \/ SleepReturn(t)

Application(t) ==
  \/ YieldThread(t) \/ SleepThread(t) \/ ExitThread(t)
  \/ Enter(t) \/ Leave(t) \/ FindThread(t)
  \/ \E u \in Thread :
       \/ CreateThread(t, u) \/ StartupThread(t, u) \/ DeleteThread(t, u)
       \/ SuspendThread(t, u) \/ ResumeThread(t, u)
       \/ \E p \in Prio : ChangeThreadPriority(t, u, p)

Interrupt ==
  \/ ClockEnter \/ ClockLeave
  \/ \E t \in Thread : Expire(t) \/ DeviceResume(t)

Next ==
  \/ Start \/ Reap \/ FreeThread \/ Interrupt
  \/ \E t \in Thread : Application(t) \/ InKernel(t)

Spec == Init /\ [][Next]_vars

(* What the kernel needs of the clock and does nothing for: the timer of a *)
(* thread may run while a call resumes or deletes the thread, but does not *)
(* expire between two sections of that call.  rt_thread_timeout would link *)
(* a thread that the call is about to unlink or to link as well; Spec has  *)
(* those steps, and CalmSpec has all but those.                            *)
CalmExpire(t) == ~Targeted(t) /\ Expire(t)

CalmNext ==
  \/ Start \/ Reap \/ FreeThread \/ ClockEnter \/ ClockLeave
  \/ \E t \in Thread :
       CalmExpire(t) \/ DeviceResume(t) \/ Application(t) \/ InKernel(t)

CalmSpec == Init /\ [][CalmNext]_vars

-----------------------------------------------------------------------------
(* Correctness, under CalmSpec where the name of the specification matters. *)

TypeOK ==
  /\ KernelType(k)
  /\ isr \in {"none", "clock"}
  /\ pc \in [Thread -> PC]
  /\ arg \in [Thread -> Thread]
  /\ crit \in [Thread -> Nat]

(* Every thread is linked at most once, the ready lists hold ready threads *)
(* of their priority and the bitmap agrees with them, while interrupts and *)
(* other threads come between two sections of rt_thread_resume (667, 676)  *)
(* and rt_thread_delete (388, 401).  It holds for CalmSpec: threads with a *)
(* running timer are resumed and deleted, and the one thing that must not  *)
(* come in between is the end of that timer.  With it, in Spec, the kernel *)
(* links a thread twice or leaves the bit of an empty list.                *)
QueuesConsistent == Consistent(k)

(* "The thread object will be removed from thread queue" (thread.c:369 and *)
(* 370, of rt_thread_delete; 270 of rt_thread_detach): a closed thread is  *)
(* in no ready list.  It holds for CalmSpec, as part of QueuesConsistent,  *)
(* and not for Spec.                                                       *)
ClosedUnqueued ==
  \A t \in Thread : k.stat[t] = "close" =>
    \A p \in Prio : t \notin Elements(k.list[p])

(* Outside the window before a call's rt_schedule, and with the scheduler  *)
(* unlocked, the processor executes the first thread of the highest ready  *)
(* priority: no wakeup, time slice or change of priority is left without   *)
(* the rt_schedule it needs, also one that came while the scheduler was    *)
(* locked.                                                                 *)
HighestRuns ==
  (k.cur # NoThread /\ k.lock = 0 /\ pc[k.cur] \notin DOMAIN AfterSchedule)
    => k.cur = Head(k.list[HighestReady(k)])

(* A thread between rt_enter_critical and its rt_exit_critical is not      *)
(* switched out, neither by an interrupt nor by a call of its own.         *)
CriticalKeepsCpu == \A t \in Thread : crit[t] > 0 => k.cur = t

(* A ready thread is in its ready list, or is the one a call in progress   *)
(* is deleting: no thread is forgotten.                                    *)
NoThreadLost ==
  \A t \in Thread :
    k.stat[t] = "ready" =>
      t \in Elements(k.list[k.prio[t]]) \/ \E u \in Thread : pc[u] \in Deleting /\ arg[u] = t

(* A thread object that is freed, or set up afresh, is in no list and not  *)
(* on the processor: the idle thread frees no stack that is in use.        *)
FreedUnused ==
  \A t \in Thread : k.stat[t] \in {"none", "init"} => ~Linked(k, t) /\ k.cur # t

(* The scheduler implements fixed-priority preemptive scheduling: threads  *)
(* of one priority are served in the order they became ready, and the      *)
(* processor changes hands only to the first of them and only unlocked.    *)
Policy == INSTANCE FixedPriority WITH
            queue   <- [p \in Prio |-> k.list[p]],
            running <- k.cur,
            locked  <- k.lock > 0
ImplementsFixedPriority == Policy!Spec

-----------------------------------------------------------------------------
(* The processor executes instructions between interrupts (whichever       *)
(* thread is current), interrupts end and the clock goes on, and an        *)
(* application ends its critical sections.                                 *)
Fairness ==
  /\ WF_vars(Start) /\ WF_vars(ClockEnter) /\ WF_vars(ClockLeave)
  /\ SF_vars(FreeThread \/ \E t \in Thread : InKernel(t))
  /\ SF_vars(\E t \in Thread : Leave(t))

(* Threads of the highest ready priority share the processor: one that is  *)
(* ready runs, unless it stops being ready or a more urgent one comes.     *)
RoundRobin ==
  \A t \in Thread :
    (k.group # {} /\ t \in Elements(k.list[HighestReady(k)]))
      ~> (k.cur = t \/ t \notin Elements(k.list[HighestReady(k)]))
=============================================================================
