------------------------------ MODULE MemPool -------------------------------
(***************************************************************************)
(* One memory pool of src/mempool.c: a list of free blocks, a list of the  *)
(* threads that wait for one, and a count of either.                       *)
(***************************************************************************)
EXTENDS IpcObject

CONSTANTS
  Pool,       \* the pool's wait list
  PoolBlock,  \* its blocks
  MaxCount    \* bound on suspend_thread_count, which grows with every timeout

ASSUME MemPoolAssumption ==
  /\ Pool \in {Lists[i] : i \in DOMAIN Lists}
  /\ PoolBlock # {} /\ IsFiniteSet(PoolBlock)
  /\ MaxCount \in Nat \ {0}

VARIABLES
  block_list, block_free_count, suspend_thread_count,   \* fields of struct rt_mempool
  out         \* the blocks that applications have (a history variable)

poolVars == <<block_list, block_free_count, suspend_thread_count, out>>
blocks == <<block_list, block_free_count, out>>

(* "initialize free block list". (Which block is which does not matter.)   *)
PoolReset(list, free, waiting, used) ==
  /\ list = CHOOSE s \in [1 .. Cardinality(PoolBlock) -> PoolBlock] : Elements(s) = PoolBlock
  /\ free = Cardinality(PoolBlock) /\ waiting = 0 /\ used = {}

MemPoolInit == PoolReset(block_list, block_free_count, suspend_thread_count, out)

-----------------------------------------------------------------------------
(* Mutant of GetBlock: the free block counter is not decreased.            *)
GetBlockNoCount ==
  /\ block_list' = Tail(block_list)
  /\ out' = out \cup {Head(block_list)}
  /\ UNCHANGED <<block_free_count, suspend_thread_count>>

(* "memory block is available"                                             *)
GetBlock ==
  /\ block_free_count' = block_free_count - 1
  /\ block_list' = Tail(block_list)
  /\ out' = out \cup {Head(block_list)}
  /\ UNCHANGED suspend_thread_count

(* "need suspend thread": the thread is linked behind the list head, as    *)
(* the first of the list, whatever its priority.                           *)
PoolWait(t, time) ==
  LET k1 == [Suspend(SetError(k, t, "EOK"), t) EXCEPT !.list[Pool] = <<t>> \o @]
  IN  /\ suspend_thread_count < MaxCount
      /\ k' = IF time = "ticks" THEN StartTimer(k1, t) ELSE k1
      /\ suspend_thread_count' = suspend_thread_count + 1
      /\ wait' = [wait EXCEPT ![t] = time]
      /\ step' = [step EXCEPT ![t] = "none"]
      /\ Goto(t, "wait")
      /\ UNCHANGED blocks

(* rt_mp_alloc up to its rt_schedule                                       *)
PoolAlloc(t, time) ==
  /\ ObjCall(t, "alloc")
  /\ \/ block_free_count # 0 /\ GetBlock /\ UNCHANGED <<k, pc, wait, step>>
     \/ block_free_count = 0 /\ time # "none" /\ PoolWait(t, time)
     \/ /\ block_free_count = 0 /\ time = "none"
        /\ k' = SetError(k, t, "ETIMEOUT")             \* rt_set_errno
        /\ UNCHANGED <<pc, wait, step, poolVars>>
  /\ UNCHANGED <<isr, arg, crit, flag, alive>>

(* The rest of rt_mp_alloc, after a wakeup                                 *)
PoolAllocAgain(t) ==
  /\ Woken(t) /\ k.error[t] = "EOK"
  /\ \/ block_free_count # 0 /\ GetBlock /\ Return(t, "app") /\ UNCHANGED k
     \/ /\ block_free_count = 0
        /\ \E time \in TimeLeft(t) :
             \/ time # "none" /\ PoolWait(t, time)
             \/ /\ time = "none" /\ Return(t, "app")
                /\ k' = SetError(k, t, "ETIMEOUT")
                /\ UNCHANGED poolVars
  /\ UNCHANGED <<isr, arg, crit, flag, alive>>

(* rt_mp_alloc in a device interrupt, which cannot wait                    *)
PoolAllocIsr ==
  /\ IsrCall("isr_alloc") /\ block_free_count # 0
  /\ GetBlock
  /\ UNCHANGED <<vars, objVars>>

(* The section of rt_mp_free, as far as it is about the pool               *)
PutBlock(b) ==
  /\ block_free_count' = block_free_count + 1
  /\ block_list' = <<b>> \o block_list
  /\ out' = out \ {b}
  /\ suspend_thread_count' = IF suspend_thread_count > 0 THEN suspend_thread_count - 1 ELSE 0

(* rt_mp_free resumes the first waiter if the count says there is one.  A  *)
(* waiter that timed out is still counted: the list may be empty, and the  *)
(* list head is then taken for a thread (an assertion fails).              *)
PoolResume ==
  IF k.list[Pool] = << >> THEN [k EXCEPT !.asserted = TRUE]
  ELSE IpcResume(SetError(k, Head(k.list[Pool]), "EOK"), Pool)

PoolFree(t, b) ==
  /\ ObjCall(t, "free")
  /\ PutBlock(b)
  /\ k' = IF suspend_thread_count > 0 THEN PoolResume ELSE k
  /\ Goto(t, IF suspend_thread_count > 0 THEN "sched" ELSE "app")
  /\ UNCHANGED <<isr, arg, crit, objVars>>

(* rt_mp_free in a device interrupt                                        *)
PoolFreeIsr(b) ==
  /\ IsrCall("isr_free")
  /\ PutBlock(b)
  /\ k' = IF suspend_thread_count > 0 THEN Schedule(PoolResume) ELSE k
  /\ UNCHANGED <<isr, pc, arg, crit, objVars>>

-----------------------------------------------------------------------------
(* rt_mp_detach, rt_mp_delete: the same loop as rt_ipc_list_resume_all,    *)
(* which here decreases the count.                                         *)
PoolDetach(t) == DetachObject(t) /\ UNCHANGED poolVars

PoolDrainResume(t) ==
  /\ DrainResume(t)
  /\ suspend_thread_count' = suspend_thread_count - 1
  /\ UNCHANGED blocks

(* rt_mp_init, rt_mp_create                                                *)
PoolCreate(t) ==
  InitObject(t) /\ PoolReset(block_list', block_free_count', suspend_thread_count', out')

MemPoolStep ==
  \/ Next /\ UNCHANGED <<objVars, poolVars>>
  \/ PoolAllocIsr
  \/ \E b \in out : PoolFreeIsr(b) \/ \E t \in Thread : PoolFree(t, b)
  \/ \E t \in Thread :
       \/ \E time \in Time : PoolAlloc(t, time)
       \/ PoolAllocAgain(t)
       \/ WaitFails(t) /\ UNCHANGED poolVars
       \/ PoolDetach(t) \/ PoolDrainResume(t) \/ PoolCreate(t)
       \/ DrainTest(t) /\ UNCHANGED poolVars

MemPoolNext == (~k.asserted /\ MemPoolStep) \/ (Halt /\ UNCHANGED poolVars)

MemPoolSpec == ObjStart /\ MemPoolInit /\ [][MemPoolNext]_<<vars, objVars, poolVars>>

-----------------------------------------------------------------------------
(* Correctness.                                                            *)

(* A block is either free, and in the list once, or an application's, and  *)
(* the count says how many are free.                                       *)
BlocksConserved ==
  /\ Elements(block_list) = PoolBlock \ out
  /\ block_free_count = Len(block_list)
  /\ Len(block_list) = Cardinality(PoolBlock \ out)

(* Threads wait only while no block is free but for those that were woken  *)
(* before them: no free overlooks a waiter.  For this the count must never *)
(* be less than the threads that wait.                                     *)
NoBlockMissed ==
  ~k.asserted /\ ~Detaching =>
    /\ k.list[Pool] # << >> => block_free_count <= Cardinality(Roused)
    /\ Len(k.list[Pool]) <= suspend_thread_count
=============================================================================
