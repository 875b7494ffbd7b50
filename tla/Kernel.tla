------------------------------- MODULE Kernel -------------------------------
(***************************************************************************)
(* The thread and ready-queue data of the kernel (src/scheduler.c,         *)
(* src/thread.c) and the functions that work on it with interrupts off.    *)
(*                                                                         *)
(* The data is one record, so that a caller composes calls the way the C   *)
(* code does: Schedule(Resume(k, t)).  Its fields:                         *)
(*   list      every rt_list a thread's tlist node can be linked in: one   *)
(*             ready list per priority (rt_thread_priority_table), the     *)
(*             wait lists of the IPC objects, and rt_thread_defunct        *)
(*   stat      thread->stat without its signal bit; "none" is a thread     *)
(*             object whose memory is not allocated                        *)
(*   prio      thread->current_priority (0 is the most urgent)             *)
(*   mask      thread->number_mask, as the set of its one bits             *)
(*   group     rt_thread_ready_priority_group, as the set of its one bits  *)
(*   cur       rt_current_thread                                           *)
(*   lock      rt_scheduler_lock_nest                                      *)
(*   slice     thread->remaining_tick                                      *)
(*   timer     whether thread->thread_timer is in the timer list           *)
(*   error     thread->error                                               *)
(*   asserted  whether an RT_ASSERT has failed (the model goes on, as the  *)
(*             kernel does when rt_assert_hook is set and returns)         *)
(***************************************************************************)
EXTENDS RtList, FiniteSets

CONSTANTS
  Thread,       \* thread objects
  Idle,         \* the idle thread, one of them
  PrioMax,      \* RT_THREAD_PRIORITY_MAX
  InitPrio,     \* thread->init_priority
  InitTick,     \* thread->init_tick, the time slice
  WaitList,     \* the suspend_thread lists of the IPC objects
  Defunct,      \* the name of the list rt_thread_defunct
  NoThread      \* RT_NULL as a thread

Prio  == 0 .. PrioMax - 1
Queue == Prio \cup WaitList \cup {Defunct}
Stat  == {"none", "init", "ready", "suspend", "close"}
Error == {"EOK", "ETIMEOUT", "ERROR", "EINTR"}

ASSUME KernelAssumption ==
  /\ PrioMax \in Nat \ {0}
  /\ InitTick \in Nat \ {0}
  /\ Idle \in Thread
  /\ NoThread \notin Thread
  /\ InitPrio \in [Thread -> Prio]
  /\ WaitList \cap Prio = {}
  /\ Defunct \notin Prio \cup WaitList

-----------------------------------------------------------------------------
(* Lists.                                                                  *)

(* rt_list_remove of t's node: from whatever list it is linked in.         *)
Unlink(list, t) == [q \in DOMAIN list |-> Without(list[q], t)]

(* rt_list_insert_before and rt_list_insert_after, called with the head of *)
(* list q: t's node becomes the last and the first one.                    *)
LinkLast(list, q, t)  == [list EXCEPT ![q] = Append(@, t)]
LinkFirst(list, q, t) == [list EXCEPT ![q] = <<t>> \o @]

Linked(k, t) == \E q \in Queue : t \in Elements(k.list[q])

-----------------------------------------------------------------------------
(* scheduler.c *)

(* __rt_ffs(rt_thread_ready_priority_group) - 1, the lowest bit that is set *)
HighestReady(k) == CHOOSE p \in k.group : \A r \in k.group : p <= r

(* Mutants of Schedule: the lock is not looked at; off by one.             *)
ScheduleLocked(k) ==
  [k EXCEPT !.cur = Head(k.list[HighestReady(k)])]
ScheduleLockedOnce(k) ==
  IF k.lock <= 1
  THEN [k EXCEPT !.cur = Head(k.list[HighestReady(k)])]
  ELSE k

(* rt_schedule: the first thread of the highest ready priority becomes     *)
(* current, unless the scheduler is locked.                                *)
Schedule(k) ==
  IF k.lock = 0
  THEN [k EXCEPT !.cur = Head(k.list[HighestReady(k)])]
  ELSE k

(* rt_schedule_insert_thread *)
InsertThread(k, t) ==
  [k EXCEPT !.stat[t] = "ready",
            !.list    = LinkLast(@, k.prio[t], t),
            !.group   = @ \cup k.mask[t]]

(* Mutant of RemoveThread: the bit of an empty list stays.                 *)
RemoveThreadKeepBit(k, t) ==
  [k EXCEPT !.list = Unlink(@, t)]

(* rt_schedule_remove_thread *)
RemoveThread(k, t) ==
  LET rest == Unlink(k.list, t)
  IN  [k EXCEPT !.list  = rest,
                !.group = IF rest[k.prio[t]] = << >> THEN @ \ k.mask[t] ELSE @]

(* rt_enter_critical, and what rt_exit_critical does before rt_schedule    *)
EnterCritical(k) == [k EXCEPT !.lock = @ + 1]
LeaveCritical(k) == [k EXCEPT !.lock = IF @ <= 1 THEN 0 ELSE @ - 1]

-----------------------------------------------------------------------------
(* thread.c *)

(* rt_timer_control(SET_TIME) and rt_timer_start, rt_timer_stop and        *)
(* rt_timer_detach of the thread's own timer.  When it expires is left     *)
(* open: module Timer has the arithmetic.                                  *)
StartTimer(k, t) == [k EXCEPT !.timer[t] = TRUE]
StopTimer(k, t)  == [k EXCEPT !.timer[t] = FALSE]

(* _rt_thread_init *)
InitThread(k, t) ==
  [k EXCEPT !.stat[t]  = "init",
            !.prio[t]  = InitPrio[t],
            !.mask[t]  = {},
            !.slice[t] = InitTick,
            !.timer[t] = FALSE,
            !.error[t] = "EOK"]

(* rt_thread_startup up to its call of rt_thread_resume *)
PrepareStartup(k, t) ==
  [k EXCEPT !.prio[t] = InitPrio[t],
            !.mask[t] = {InitPrio[t]},
            !.stat[t] = "suspend"]

(* Mutant of Suspend: the state is not set.                                *)
SuspendKeepStat(k, t) == StopTimer(RemoveThread(k, t), t)

(* rt_thread_suspend *)
Suspend(k, t) ==
  StopTimer(RemoveThread([k EXCEPT !.stat[t] = "suspend"], t), t)

(* Mutant of MakeReady: without the rt_list_remove                         *)
MakeReadyLinked(k, t) == InsertThread(k, t)

(* rt_list_remove, then rt_schedule_insert_thread: of rt_thread_resume and *)
(* of rt_thread_timeout                                                    *)
MakeReady(k, t) == InsertThread([k EXCEPT !.list = Unlink(@, t)], t)

(* rt_thread_resume called with interrupts off *)
Resume(k, t) == IF k.stat[t] = "suspend" THEN MakeReady(k, t) ELSE k

(* rt_thread_yield up to its call of rt_schedule, and its condition: t is  *)
(* ready and not alone in its list (a node that is alone has next = prev).  *)
CanRotate(k, t) ==
  LET peers == k.list[k.prio[t]]
  IN  k.stat[t] = "ready" /\ t \in Elements(peers) /\ Len(peers) > 1
Rotate(k, t) ==
  [k EXCEPT !.list = LinkLast(Unlink(@, t), k.prio[t], t)]

(* rt_thread_control(RT_THREAD_CTRL_CHANGE_PRIORITY) *)
Renumber(k, t, p) == [k EXCEPT !.prio[t] = p, !.mask[t] = {p}]
ChangePriority(k, t, p) ==
  IF k.stat[t] = "ready"
  THEN InsertThread(Renumber(RemoveThread(k, t), t, p), t)
  ELSE Renumber(k, t, p)

(* rt_thread_timeout, called by rt_timer_check, which has taken the timer  *)
(* out of its list before and clears its ACTIVATED flag after.             *)
Timeout(k, t) ==
  Schedule([MakeReady(k, t) EXCEPT !.asserted = @ \/ k.stat[t] # "suspend",
                                   !.error[t] = "ETIMEOUT",
                                   !.timer[t] = FALSE])

(* Mutants of TimeSlice: remaining_tick is not refilled; the thread that   *)
(* has used its time does not yield.                                       *)
TimeSliceNoRefill(k) ==
  LET t    == k.cur
      less == [k EXCEPT !.slice[t] = @ - 1]
  IN  IF less.slice[t] = 0 /\ CanRotate(less, t) THEN Schedule(Rotate(less, t)) ELSE less
TimeSliceNoYield(k) ==
  [k EXCEPT !.slice[k.cur] = IF @ > 1 THEN @ - 1 ELSE InitTick]

(* the time slice of rt_tick_increase *)
TimeSlice(k) ==
  LET t == k.cur
  IN  IF k.slice[t] > 1
      THEN [k EXCEPT !.slice[t] = @ - 1]
      ELSE LET fresh == [k EXCEPT !.slice[t] = InitTick]
           IN  IF CanRotate(fresh, t) THEN Schedule(Rotate(fresh, t)) ELSE fresh

(* the end of rt_thread_exit and rt_thread_delete: the stat CLOSE and the  *)
(* insertion at the front of rt_thread_defunct                             *)
Close(k, t) ==
  [k EXCEPT !.stat[t] = "close",
            !.list = LinkFirst(@, Defunct, t)]

-----------------------------------------------------------------------------
(* The kernel before rt_thread_startup is called for the first time.       *)
Blank(stat) ==
  [list     |-> [q \in Queue |-> << >>],
   stat     |-> stat,
   prio     |-> InitPrio,
   mask     |-> [t \in Thread |-> {}],
   group    |-> {},
   cur      |-> NoThread,
   lock     |-> 0,
   slice    |-> [t \in Thread |-> InitTick],
   timer    |-> [t \in Thread |-> FALSE],
   error    |-> [t \in Thread |-> "EOK"],
   asserted |-> FALSE]

Startup(k, t) == Resume(PrepareStartup(k, t), t)

-----------------------------------------------------------------------------
(* What every section with interrupts off preserves.                       *)

KernelType(k) ==
  k \in [list     : [Queue -> Seq(Thread)],
         stat     : [Thread -> Stat],
         prio     : [Thread -> Prio],
         mask     : [Thread -> SUBSET Prio],
         group    : SUBSET Prio,
         cur      : Thread \cup {NoThread},
         lock     : Nat,
         slice    : [Thread -> 1 .. InitTick],
         timer    : [Thread -> BOOLEAN],
         error    : [Thread -> Error],
         asserted : BOOLEAN]

(* No thread is linked twice: not in two lists, not twice in one.          *)
LinkedOnce(k) ==
  /\ \A q \in Queue : \A i, j \in DOMAIN k.list[q] :
        k.list[q][i] = k.list[q][j] => i = j
  /\ \A q, r \in Queue : q # r => Elements(k.list[q]) \cap Elements(k.list[r]) = {}

(* A ready list holds ready threads of its own priority.                   *)
QueuedReady(k) ==
  \A p \in Prio : \A t \in Elements(k.list[p]) : k.stat[t] = "ready" /\ k.prio[t] = p

(* The bitmap has exactly the bits of the non-empty ready lists.           *)
BitmapExact(k) == k.group = {p \in Prio : k.list[p] # << >>}

(* number_mask is the bit of current_priority once the thread has started. *)
MaskExact(k) ==
  \A t \in Thread : k.stat[t] \in {"ready", "suspend"} => k.mask[t] = {k.prio[t]}

Consistent(k) == LinkedOnce(k) /\ QueuedReady(k) /\ BitmapExact(k) /\ MaskExact(k)
=============================================================================
