-------------------------------- MODULE Ipc ---------------------------------
(***************************************************************************)
(* The wait lists that every IPC object has (rt_ipc_list_suspend,          *)
(* rt_ipc_list_resume of src/ipc.c), as functions on the kernel record.    *)
(* w is a member of WaitList, the suspend_thread list of one object.       *)
(***************************************************************************)
EXTENDS Scheduler

IpcFlag == {"FIFO", "PRIO"}   \* RT_IPC_FLAG_FIFO, RT_IPC_FLAG_PRIO

(* The place of a thread of priority p in the wait list s: before the      *)
(* first thread that is less urgent, at the end if there is none.          *)
Place(k0, s, p) ==
  IF \E i \in DOMAIN s : p < k0.prio[s[i]]
  THEN CHOOSE i \in DOMAIN s : /\ p < k0.prio[s[i]]
                               /\ \A j \in 1 .. i - 1 : k0.prio[s[j]] <= p
  ELSE Len(s) + 1

InsertInOrder(k0, s, t) ==
  LET at == Place(k0, s, k0.prio[t])
  IN  [i \in 1 .. Len(s) + 1 |->
         IF i < at THEN s[i] ELSE IF i = at THEN t ELSE s[i - 1]]

(* Mutants of IpcSuspend: a thread less urgent than all who wait is not    *)
(* linked; the flag is not looked at.                                      *)
IpcSuspendLost(k0, w, t, flag) ==
  [Suspend(k0, t) EXCEPT
     !.list[w] = IF flag = "FIFO"
                 THEN Append(@, t)
                 ELSE IF Place(k0, @, k0.prio[t]) > Len(@)
                 THEN @
                 ELSE InsertInOrder(k0, @, t)]
IpcSuspendFifo(k0, w, t, flag) ==
  [Suspend(k0, t) EXCEPT !.list[w] = Append(@, t)]

(* rt_ipc_list_suspend *)
IpcSuspend(k0, w, t, flag) ==
  [Suspend(k0, t) EXCEPT
     !.list[w] = IF flag = "FIFO" THEN Append(@, t) ELSE InsertInOrder(k0, @, t)]

(* rt_ipc_list_resume, of a list that is not empty *)
IpcResume(k0, w) == Resume(k0, Head(k0.list[w]))

SetError(k0, t, e) == [k0 EXCEPT !.error[t] = e]

(* Mutant of DrainOne: thread->error is not set.                           *)
DrainOneNoError(k0, w) ==
  IF k0.list[w] = << >>
  THEN [k0 EXCEPT !.asserted = TRUE]
  ELSE IpcResume(k0, w)

(* One turn of the loop of rt_ipc_list_resume_all.  The list was not empty *)
(* when the loop looked, with interrupts on; if it is empty now, the code  *)
(* takes the list head for a thread and fails the assertion on its type.   *)
DrainOne(k0, w) ==
  IF k0.list[w] = << >>
  THEN [k0 EXCEPT !.asserted = TRUE]
  ELSE IpcResume(SetError(k0, Head(k0.list[w]), "ERROR"), w)

(* The whole loop, when interrupts stay off around it.                     *)
DrainAll(k0, w) ==
  LET step[n \in Nat] == IF n = 0 THEN k0 ELSE DrainOne(step[n - 1], w)
  IN  step[Len(k0.list[w])]
=============================================================================
