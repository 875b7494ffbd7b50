----------------------------- MODULE Semaphore ------------------------------
(***************************************************************************)
(* One counting semaphore of src/ipc.c on top of the scheduler: rt_sem_take*)
(* and rt_sem_trytake, rt_sem_release from threads and from interrupts,    *)
(* rt_sem_control(RESET), rt_sem_detach or delete, and rt_sem_init or      *)
(* create of it afterwards.                                                *)
(***************************************************************************)
EXTENDS Ipc

CONSTANTS
  Sem,         \* the name of the semaphore's wait list
  SemInit,     \* the value given to rt_sem_init
  ValueRange,  \* 2^16 in the code: sem->value is an rt_uint16_t
  SemOps,      \* the calls that applications make
  MaxNet       \* bound of this model: how far releases run ahead of takes

ASSUME SemAssumption ==
  /\ Sem \in WaitList
  /\ ValueRange \in Nat \ {0}
  /\ SemInit \in 0 .. ValueRange - 1
  /\ MaxNet \in Nat
  /\ SemOps \subseteq {"take", "trytake", "timed", "release", "isr", "reset", "detach"}

VARIABLES
  value,    \* sem->value
  flag,     \* the flag of the object, the order in which waiters are served
  alive,    \* whether the semaphore is an object of the system
  granted,  \* the threads that a release has given a token and whose take
            \* has not returned yet (a history variable)
  net       \* tokens released less tokens taken since the last reset: a
            \* take counts when it returns (a history variable)

semVars == <<value, flag, alive, granted, net>>
allVars == <<vars, semVars>>

SemStart ==
  /\ Init
  /\ value = SemInit /\ flag \in IpcFlag /\ alive = TRUE
  /\ granted = {} /\ net = SemInit

(* A thread is in the loop of rt_sem_detach; by discipline of applications *)
(* nobody takes a semaphore that is being detached.                        *)
Detaching == \E t \in Thread : pc[t] \in {"drain1", "drain2"}

SemCall(t, op) ==
  op \in SemOps /\ Running(t) /\ pc[t] = "app" /\ t # Idle /\ alive /\ ~Detaching

-----------------------------------------------------------------------------
(* Mutants of TakeNow: taking the token that is not there; not taking it.  *)
TakeNowOffByOne(t) ==
  /\ \E op \in {"take", "trytake", "timed"} : SemCall(t, op)
  /\ value >= 0
  /\ value' = value - 1
  /\ net' = net - 1
  /\ UNCHANGED <<vars, flag, alive, granted>>
TakeNowKeepValue(t) ==
  /\ \E op \in {"take", "trytake", "timed"} : SemCall(t, op)
  /\ value > 0
  /\ net' = net - 1
  /\ UNCHANGED <<vars, value, flag, alive, granted>>

(* rt_sem_take of a semaphore that has a token *)
TakeNow(t) ==
  /\ \E op \in {"take", "trytake", "timed"} : SemCall(t, op)
  /\ value > 0
  /\ value' = value - 1
  /\ net' = net - 1
  /\ UNCHANGED <<vars, flag, alive, granted>>

(* rt_sem_take of one that has none.  With time = 0 it returns             *)
(* -RT_ETIMEOUT and changes nothing; otherwise the thread waits, with its  *)
(* timer running if time > 0.  Applications do not block with the          *)
(* scheduler locked.                                                       *)
TakeWait(t, timed) ==
  /\ SemCall(t, IF timed THEN "timed" ELSE "take")
  /\ value = 0 /\ k.lock = 0
  /\ LET waiting == IpcSuspend(SetError(k, t, "EOK"), Sem, t, flag)
     IN  k' = IF timed THEN StartTimer(waiting, t) ELSE waiting
  /\ Goto(t, "wait")
  /\ UNCHANGED <<isr, arg, crit, semVars>>

(* The end of rt_sem_take, after its rt_schedule: it returns thread->error *)
TakeReturn(t) ==
  /\ Running(t) /\ pc[t] = "waited"
  /\ net' = IF k.error[t] = "EOK" \/ t \in granted THEN net - 1 ELSE net
  /\ granted' = granted \ {t}
  /\ Goto(t, "app")
  /\ UNCHANGED <<k, isr, arg, crit, value, flag, alive>>

(* Mutant of ReleaseSection: the value grows although a thread waits.      *)
ReleaseSectionTwice ==
  /\ net < MaxNet
  /\ net' = net + 1
  /\ granted' = IF k.list[Sem] # << >> THEN granted \cup {Head(k.list[Sem])} ELSE granted
  /\ value' = (value + 1) % ValueRange
  /\ UNCHANGED <<flag, alive>>

(* The section of rt_sem_release: a token goes to the first waiter, or is  *)
(* added to the value, which is not guarded against overflow.              *)
ReleaseSection ==
  /\ net < MaxNet
  /\ net' = net + 1
  /\ IF k.list[Sem] # << >>
     THEN /\ granted' = granted \cup {Head(k.list[Sem])}
          /\ UNCHANGED value
     ELSE /\ value' = (value + 1) % ValueRange
          /\ UNCHANGED granted
  /\ UNCHANGED <<flag, alive>>

(* rt_sem_release in a thread, up to its rt_schedule *)
Release(t) ==
  /\ SemCall(t, "release")
  /\ ReleaseSection
  /\ IF k.list[Sem] # << >>
     THEN k' = IpcResume(k, Sem) /\ Goto(t, "sched")
     ELSE UNCHANGED <<k, pc>>
  /\ UNCHANGED <<isr, arg, crit>>

(* rt_sem_release in a device interrupt *)
ReleaseIsr ==
  /\ "isr" \in SemOps /\ isr = "none" /\ k.cur # NoThread /\ alive
  /\ ReleaseSection
  /\ k' = IF k.list[Sem] # << >> THEN Schedule(IpcResume(k, Sem)) ELSE k
  /\ UNCHANGED <<isr, pc, arg, crit>>

(* rt_sem_control(RT_IPC_CMD_RESET) *)
Reset(t, v) ==
  /\ SemCall(t, "reset")
  /\ k' = DrainAll(k, Sem)
  /\ value' = v
  /\ net' = v + Cardinality(granted)
  /\ Goto(t, "sched")
  /\ UNCHANGED <<isr, arg, crit, flag, alive, granted>>

(* rt_sem_detach, rt_sem_delete: the loop of rt_ipc_list_resume_all tests  *)
(* the list with interrupts on,                                            *)
Detach(t) ==
  /\ SemCall(t, "detach")
  /\ Goto(t, "drain1")
  /\ UNCHANGED <<k, isr, arg, crit, semVars>>

(* (a mutant of which does not: waiters stay behind)                       *)
DrainTestNoLoop(t) ==
  /\ Running(t) /\ pc[t] = "drain1"
  /\ Goto(t, "app")
  /\ alive' = FALSE
  /\ UNCHANGED <<k, isr, arg, crit, value, flag, granted, net>>

DrainTest(t) ==
  /\ Running(t) /\ pc[t] = "drain1"
  /\ IF k.list[Sem] # << >>
     THEN Goto(t, "drain2") /\ UNCHANGED alive
     ELSE Goto(t, "app") /\ alive' = FALSE   \* rt_object_detach
  /\ UNCHANGED <<k, isr, arg, crit, value, flag, granted, net>>

(* and resumes the first waiter with interrupts off.                       *)
DrainResume(t) ==
  /\ Running(t) /\ pc[t] = "drain2"
  /\ k' = DrainOne(k, Sem)
  /\ Goto(t, "drain1")
  /\ UNCHANGED <<isr, arg, crit, semVars>>

(* rt_sem_init, rt_sem_create *)
InitSem(t) ==
  /\ "detach" \in SemOps /\ Running(t) /\ pc[t] = "app" /\ t # Idle
  /\ ~alive
  /\ alive' = TRUE
  /\ flag' \in IpcFlag
  /\ value' = SemInit
  /\ net' = SemInit + Cardinality(granted)
  /\ UNCHANGED <<vars, granted>>

SemNext ==
  \/ Next /\ UNCHANGED semVars
  \/ ReleaseIsr
  \/ \E t \in Thread :
       \/ TakeNow(t) \/ TakeReturn(t) \/ Release(t)
       \/ \E timed \in BOOLEAN : TakeWait(t, timed)
       \/ \E v \in {0, SemInit} : Reset(t, v)
       \/ Detach(t) \/ DrainTest(t) \/ DrainResume(t) \/ InitSem(t)

SemSpec == SemStart /\ [][SemNext]_allVars

-----------------------------------------------------------------------------
(* Correctness.                                                            *)

SemTypeOK ==
  /\ TypeOK
  /\ value \in 0 .. ValueRange - 1
  /\ flag \in IpcFlag
  /\ alive \in BOOLEAN
  /\ granted \subseteq Thread
  /\ net \in Int

(* A thread waits only while the semaphore has no token.                   *)
NoTokenWhileWaiting == k.list[Sem] # << >> => value = 0

(* Tokens are neither lost nor made: the value is what was released and    *)
(* not taken, up to the overflow of the counter.  A token that rt_sem_     *)
(* release handed to a waiter counts as its own until its take returns.    *)
TokensConserved == (value - (net - Cardinality(granted))) % ValueRange = 0

(* The threads blocked in rt_sem_take are those in the wait list: nobody   *)
(* sleeps on a semaphore that cannot wake it, and the list holds nobody    *)
(* who has gone on.                                                        *)
BlockedIffListed ==
  \A t \in Thread :
    t \in Elements(k.list[Sem]) <=> pc[t] \in {"wait", "waited"} /\ k.stat[t] = "suspend"

(* With RT_IPC_FLAG_PRIO the wait list stays sorted by urgency.            *)
WaitersSorted ==
  flag = "PRIO" =>
    \A i, j \in DOMAIN k.list[Sem] :
      i < j => k.prio[k.list[Sem][i]] <= k.prio[k.list[Sem][j]]

(* A semaphore that is no longer an object of the system has no waiters.   *)
DetachedHasNoWaiters == ~alive => k.list[Sem] = << >>

(* A take that had to wait returns RT_EOK only if a release gave it a      *)
(* token: no timeout, reset or detach of the semaphore looks like success. *)
NoFreeTake ==
  [][\A t \in Thread :
       pc[t] = "waited" /\ pc'[t] = "app" /\ k.error[t] = "EOK" => t \in granted]_allVars

(* The assertion of rt_thread_timeout: the thread it wakes is suspended.   *)
TimeoutFindsSuspended == ~k.asserted
=============================================================================
