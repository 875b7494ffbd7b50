-------------------------- MODULE SchedulerCallsMC --------------------------
(***************************************************************************)
(* Instances with applications of one kind: those that use the ready       *)
(* queue, or those that create and end threads.  Both at once would be too *)
(* many states; what is chosen here is only which calls are made.          *)
(***************************************************************************)
EXTENDS SchedulerMC

CONSTANT Kinds   \* a subset of {"queue", "life"}

VARIABLE calls   \* the one of Kinds that the applications are of

QueueCalls(t) ==
  \/ YieldThread(t)
  \/ \E u \in Thread : \/ SuspendThread(t, u) \/ ResumeThread(t, u)
                       \/ \E p \in Prio : ChangeThreadPriority(t, u, p)

LifeCalls(t) ==
  \/ ExitThread(t)
  \/ \E u \in Thread : CreateThread(t, u) \/ DeleteThread(t, u)

CommonCalls(t) ==
  \/ SleepThread(t) \/ Enter(t) \/ Leave(t) \/ FindThread(t)
  \/ \E u \in Thread : StartupThread(t, u)

(* CalmNext with applications of one kind *)
CallsNext ==
  /\ \/ Start \/ Reap \/ FreeThread \/ ClockEnter \/ ClockLeave
     \/ \E t \in Thread :
          \/ CalmExpire(t) \/ DeviceResume(t) \/ InKernel(t) \/ CommonCalls(t)
          \/ calls = "queue" /\ QueueCalls(t)
          \/ calls = "life" /\ LifeCalls(t)
  /\ UNCHANGED calls

CallsInit == Init /\ calls \in Kinds

CallsSpec == CallsInit /\ [][CallsNext]_<<vars, calls>>

FairCallsSpec == CallsSpec /\ Fairness
=============================================================================
