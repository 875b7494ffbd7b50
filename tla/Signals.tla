------------------------------ MODULE Signals -------------------------------
(***************************************************************************)
(* Signals (src/signal.c) between threads and from interrupts, composed    *)
(* with the kernel and one mutex: rt_thread_kill in its sections, delivery *)
(* to a thread that sleeps, that is ready and that runs,                   *)
(* rt_thread_handle_sig, rt_signal_wait, rt_signal_mask and unmask.        *)
(*                                                                         *)
(* A thread that is ready gets a new frame on its stack, which executes    *)
(* _signal_entry before the thread goes on.  Handlers return at once.      *)
(***************************************************************************)
EXTENDS Mutex

CONSTANTS
  Sig,          \* signal numbers
  SigInfoMax,   \* RT_SIG_INFO_MAX, the blocks of _rt_siginfo_pool
  MaxFrame,     \* bound of this model on the frames of a thread
  Works         \* what applications do: the threads they start, whether they
                \* use the mutex and its flags, their calls of signal.c, which threads are
                \* sent which signals, and where in the kernel (as a value of
                \* pc) nobody goes

ASSUME SignalAssumption ==
  /\ SigInfoMax \in Nat \ {0} /\ MaxFrame \in Nat \ {0}
  /\ Sig \cap {"own", "check"} = {}
  /\ \A w \in Works : /\ w.crew \subseteq Thread /\ w.mutex \in BOOLEAN /\ w.flag \subseteq Flags
                       /\ w.calls \subseteq STRING /\ w.sent \subseteq Thread \X Sig
                       /\ w.never \subseteq PC

VARIABLES
  work,         \* the one of Works that is done
  sig_pending, sig_mask,   \* of every thread, as sets of signals
  si_list,      \* the signals in the nodes of thread->si_list, in its order
  free_nodes,   \* the free blocks of _rt_siginfo_pool
  awaited,      \* the set of rt_signal_wait; {} for RT_THREAD_STAT_SIGNAL_WAIT clear
  frames,       \* the frames on each stack, and what each executes
  sig_ret,      \* thread->sig_ret as the number of a frame, 0 for RT_NULL
  kill          \* the arguments of the rt_thread_kill a thread is in

sigVars == <<sig_pending, sig_mask, si_list, free_nodes, awaited, frames, sig_ret, kill>>
nodes == <<sig_pending, si_list, free_nodes>>

(* A frame executes the thread's "own" code, or is before the test of      *)
(* rt_thread_handle_sig ("check"), or in the handler of a signal.          *)
Top(t) == frames[t][Len(frames[t])]
SetTop(t, what) == [frames EXCEPT ![t][Len(frames[t])] = what]
Own(t) == frames[t] = <<"own">>

NoKill == [to |-> NoThread, sig |-> NoThread]

SignalsInit ==
  /\ MutexInit
  /\ work \in Works /\ flag \in work.flag
  /\ sig_pending = [t \in Thread |-> {}]
  /\ sig_mask = [t \in Thread |-> {}]
  /\ si_list = [t \in Thread |-> << >>]
  /\ free_nodes = SigInfoMax
  /\ awaited = [t \in Thread |-> {}]
  /\ frames = [t \in Thread |-> <<"own">>]
  /\ sig_ret = [t \in Thread |-> 0]
  /\ kill = [t \in Thread |-> NoKill]

(* Calls of application code                                               *)
SigCall(t, op) ==
  op \in work.calls /\ Running(t) /\ Own(t) /\ pc[t] = "app" /\ t # Idle /\ k.lock = 0

SentTo(t) == {s \in Sig : <<t, s>> \in work.sent}

(* Threads that may be sent signals: alive, and nobody's target            *)
Alive(u) == Free(u) /\ k.stat[u] \in {"ready", "suspend"}

-----------------------------------------------------------------------------
(* rt_thread_handle_sig *)

(* The loop from its test on: the first node is taken, whatever its signal *)
TakeFirst(t, pending) ==
  IF pending \cap sig_mask[t] # {} /\ si_list[t] # << >>
  THEN /\ si_list' = [si_list EXCEPT ![t] = Tail(@)]
       /\ frames' = SetTop(t, Head(si_list[t]))
  ELSE /\ frames' = SetTop(t, "own")
       /\ UNCHANGED si_list

HandleCheck(t) ==
  /\ Running(t) /\ Top(t) = "check"
  /\ TakeFirst(t, IF awaited[t] = {} THEN sig_pending[t] ELSE {})
  /\ UNCHANGED <<vars, sig_pending, sig_mask, free_nodes, awaited, sig_ret, kill>>

(* Mutant of HandleNext: the node is not released.                         *)
HandleNextKeep(t) ==
  /\ Running(t) /\ Top(t) \in Sig
  /\ sig_pending' = [sig_pending EXCEPT ![t] = @ \ {Top(t)}]
  /\ k' = SetError(k, t, "EINTR")
  /\ TakeFirst(t, sig_pending'[t])
  /\ UNCHANGED <<isr, pc, arg, crit, sig_mask, free_nodes, awaited, sig_ret, kill>>

(* After the handler, which runs with interrupts on *)
HandleNext(t) ==
  /\ Running(t) /\ Top(t) \in Sig
  /\ sig_pending' = [sig_pending EXCEPT ![t] = @ \ {Top(t)}]
  /\ free_nodes' = free_nodes + 1
  /\ k' = SetError(k, t, "EINTR")
  /\ TakeFirst(t, sig_pending'[t])
  /\ UNCHANGED <<isr, pc, arg, crit, sig_mask, awaited, sig_ret, kill>>

(* The end of _signal_entry: "return to thread".  There is nowhere to      *)
(* return to if a second delivery has overwritten sig_ret.                 *)
SignalEntryEnd(t) ==
  /\ Running(t) /\ Len(frames[t]) > 1 /\ Top(t) = "own"
  /\ \/ /\ sig_ret[t] # 0
        /\ frames' = [frames EXCEPT ![t] = SubSeq(@, 1, sig_ret[t])]
        /\ sig_ret' = [sig_ret EXCEPT ![t] = 0]
        /\ UNCHANGED k
     \/ /\ sig_ret[t] = 0
        /\ k' = [k EXCEPT !.asserted = TRUE]
        /\ UNCHANGED <<frames, sig_ret>>
  /\ UNCHANGED <<isr, pc, arg, crit, nodes, sig_mask, awaited, kill>>

-----------------------------------------------------------------------------
(* rt_thread_kill in a thread *)

(* The list of a thread that has the signal pending already is searched    *)
(* from the start of its first node, taken for the node's list field: what *)
(* follows is wild memory, and the system is taken to stop.                *)
Searches(u, s) == s \in sig_pending[u] /\ si_list[u] # << >>

(* Its first section                                                       *)
KillStart(t, u, s) ==
  /\ SigCall(t, "kill") /\ Alive(u)
  /\ k' = [k EXCEPT !.asserted = Searches(u, s)]
  /\ sig_pending' = [sig_pending EXCEPT ![u] = @ \cup {s}]
  /\ kill' = [kill EXCEPT ![t] = [to |-> u, sig |-> s]]
  /\ GoStep(t, IF s \in sig_pending[u] THEN "kill_find" ELSE "kill_alloc")
  /\ Goto(t, "waited")
  /\ UNCHANGED <<isr, arg, crit, wait, sig_mask, si_list, free_nodes, awaited, frames, sig_ret>>

(* The search of an empty list, in a critical section, whose               *)
(* rt_exit_critical ends with rt_schedule, as in OwnStep below             *)
KillFind(t) ==
  /\ AtStep(t, "kill_find")
  /\ k' = Schedule(LeaveCritical(EnterCritical(k)))
  /\ GoStep(t, "kill_alloc")
  /\ frames' = IF k'.cur # t THEN SetTop(t, "check") ELSE frames
  /\ UNCHANGED <<isr, pc, arg, crit, wait, nodes, sig_mask, awaited, sig_ret, kill>>

(* rt_mp_alloc(_rt_siginfo_pool, 0), with its rt_set_errno of an empty pool *)
KillAlloc(t) ==
  /\ AtStep(t, "kill_alloc")
  /\ \/ /\ free_nodes > 0
        /\ free_nodes' = free_nodes - 1
        /\ GoStep(t, "kill_link")
        /\ UNCHANGED k
     \/ /\ free_nodes = 0
        /\ k' = SetError(k, t, "ETIMEOUT")
        /\ GoStep(t, "kill_test")
        /\ UNCHANGED free_nodes
  /\ UNCHANGED <<isr, pc, arg, crit, wait, sig_pending, sig_mask, si_list, awaited, frames, sig_ret, kill>>

(* The node is linked at the end of the list                               *)
KillLink(t) ==
  /\ AtStep(t, "kill_link")
  /\ si_list' = [si_list EXCEPT ![kill[t].to] = Append(@, kill[t].sig)]
  /\ GoStep(t, "kill_test")
  /\ UNCHANGED <<vars, wait, sig_pending, sig_mask, free_nodes, awaited, frames, sig_ret, kill>>

(* _signal_deliver: "thread is not interested in pended signals", with     *)
(* interrupts on                                                           *)
KillTest(t) ==
  /\ AtStep(t, "kill_test")
  /\ LET u == kill[t].to
     IN  \/ /\ sig_pending[u] \cap sig_mask[u] # {}
            /\ GoStep(t, "kill_deliver")
            /\ UNCHANGED <<pc, wait, kill>>
         \/ /\ sig_pending[u] \cap sig_mask[u] = {}
            /\ Return(t, "app") /\ kill' = [kill EXCEPT ![t] = NoKill]
  /\ UNCHANGED <<k, isr, arg, crit, nodes, sig_mask, awaited, frames, sig_ret>>

(* The frame for _signal_entry.  (The test that there is none yet looks at *)
(* a bit that it has masked out before, and is always true.)               *)
PushFrame(u) ==
  /\ Len(frames[u]) < MaxFrame
  /\ frames' = [frames EXCEPT ![u] = Append(@, "check")]
  /\ sig_ret' = [sig_ret EXCEPT ![u] = Len(frames[u])]

(* Mutant of KillDeliver: a thread that sleeps is not resumed.             *)
KillDeliverReady(t) ==
  /\ AtStep(t, "kill_deliver")
  /\ LET u == kill[t].to
     IN  \/ k.stat[u] = "suspend" /\ Return(t, "sched") /\ UNCHANGED <<k, frames, sig_ret>>
         \/ /\ k.stat[u] # "suspend" /\ u = t
            /\ frames' = SetTop(t, "check")
            /\ Return(t, "app")
            /\ UNCHANGED <<k, sig_ret>>
         \/ k.stat[u] # "suspend" /\ u # t /\ PushFrame(u) /\ Return(t, "sched") /\ UNCHANGED k
  /\ kill' = [kill EXCEPT ![t] = NoKill]
  /\ UNCHANGED <<isr, arg, crit, nodes, sig_mask, awaited>>

(* The section of _signal_deliver.  A thread that delivers to itself goes  *)
(* on with rt_thread_handle_sig, else rt_schedule follows.                 *)
KillDeliver(t) ==
  /\ AtStep(t, "kill_deliver")
  /\ LET u == kill[t].to
     IN  \/ /\ k.stat[u] = "suspend"
            /\ k' = Resume(k, u)
            /\ Return(t, "sched")
            /\ UNCHANGED <<frames, sig_ret>>
         \/ /\ k.stat[u] # "suspend" /\ u = t
            /\ frames' = SetTop(t, "check")
            /\ Return(t, "app")
            /\ UNCHANGED <<k, sig_ret>>
         \/ k.stat[u] # "suspend" /\ u # t /\ PushFrame(u) /\ Return(t, "sched") /\ UNCHANGED k
  /\ kill' = [kill EXCEPT ![t] = NoKill]
  /\ UNCHANGED <<isr, arg, crit, nodes, sig_mask, awaited>>

-----------------------------------------------------------------------------
(* All of rt_thread_kill in a device interrupt *)

(* Handling in the interrupt: nodes are taken from the front until no      *)
(* signal is pending that is not masked, or none is left.                  *)
Handled(u, pending, list) ==
  LET left[n \in 0 .. Len(list)] ==
        IF n = 0 THEN pending ELSE left[n - 1] \ {list[n]}
      enough(n) == n = Len(list) \/ left[n] \cap sig_mask[u] = {}
      taken == CHOOSE n \in 0 .. Len(list) : enough(n) /\ \A m \in 0 .. n - 1 : ~enough(m)
  IN  [pending |-> left[taken], list |-> SubSeq(list, taken + 1, Len(list)), count |-> taken]

(* _signal_deliver, after k0, with the signals pending and the list        *)
IsrDeliver(u, k0, pending, list, free) ==
  LET keep == /\ sig_pending' = [sig_pending EXCEPT ![u] = pending]
              /\ si_list' = [si_list EXCEPT ![u] = list]
              /\ free_nodes' = free
  IN  \/ /\ pending \cap sig_mask[u] = {}
         /\ k' = k0 /\ keep /\ UNCHANGED <<frames, sig_ret>>
      \/ /\ pending \cap sig_mask[u] # {} /\ k0.stat[u] = "suspend"
         /\ k' = Schedule(Resume(k0, u)) /\ keep /\ UNCHANGED <<frames, sig_ret>>
      \/ /\ pending \cap sig_mask[u] # {} /\ k0.stat[u] # "suspend" /\ u # k0.cur
         /\ PushFrame(u) /\ k' = Schedule(k0) /\ keep
      \/ /\ pending \cap sig_mask[u] # {} /\ k0.stat[u] # "suspend" /\ u = k0.cur
         /\ LET r == IF awaited[u] = {} THEN Handled(u, pending, list)
                     ELSE [pending |-> pending, list |-> list, count |-> 0]
            IN  /\ sig_pending' = [sig_pending EXCEPT ![u] = r.pending]
                /\ si_list' = [si_list EXCEPT ![u] = r.list]
                /\ free_nodes' = free + r.count
                /\ k' = IF r.count > 0 THEN SetError(k0, u, "EINTR") ELSE k0
         /\ UNCHANGED <<frames, sig_ret>>

KillIsr(u, s) ==
  /\ "isr_kill" \in work.calls /\ isr = "none" /\ k.cur # NoThread /\ Alive(u)
  /\ LET k0 == IF s \in sig_pending[u] THEN Schedule(k) ELSE k     \* rt_exit_critical
         linked == IF free_nodes > 0 THEN 1 ELSE 0
     IN  \/ /\ Searches(u, s)
            /\ k' = [k EXCEPT !.asserted = TRUE]
            /\ UNCHANGED <<nodes, frames, sig_ret>>
         \/ /\ ~Searches(u, s)
            /\ IsrDeliver(u, k0, sig_pending[u] \cup {s},
                          si_list[u] \o [i \in 1 .. linked |-> s], free_nodes - linked)
  /\ UNCHANGED <<isr, pc, arg, crit, sig_mask, awaited, kill>>

-----------------------------------------------------------------------------
(* rt_signal_mask; rt_signal_unmask, which lets the thread handle what is  *)
(* pending                                                                 *)
SignalMask(t, s) ==
  /\ SigCall(t, "mask")
  /\ sig_mask' = [sig_mask EXCEPT ![t] = @ \ {s}]
  /\ UNCHANGED <<vars, objVars, nodes, awaited, frames, sig_ret, kill>>

SignalUnmask(t, s) ==
  /\ SigCall(t, "mask")
  /\ sig_mask' = [sig_mask EXCEPT ![t] = @ \cup {s}]
  /\ IF sig_mask'[t] \cap sig_pending[t] # {}
     THEN /\ kill' = [kill EXCEPT ![t] = [NoKill EXCEPT !.to = t]]
          /\ GoStep(t, "kill_test") /\ Goto(t, "waited")
     ELSE UNCHANGED <<kill, step, pc>>
  /\ UNCHANGED <<k, isr, arg, crit, wait, nodes, awaited, frames, sig_ret>>

(* rt_signal_wait, "to get the first matched pending signals".  The loop   *)
(* does not end at the end of the list, and a first node that is taken     *)
(* leaves in si_list the address of the second one's list field: in either *)
(* case wild memory is read, and the system is taken to stop.              *)
TakeSignal(t, set, k0) ==
  LET list == si_list[t]
      match == {i \in DOMAIN list : list[i] \in set}
      first == CHOOSE i \in match : \A j \in match : i <= j
      good == match # {} /\ (Len(list) = 1 \/ 1 \notin match)
  IN  \/ list = << >> /\ k' = k0 /\ UNCHANGED nodes
      \/ /\ list # << >> /\ ~good
         /\ k' = [k0 EXCEPT !.asserted = TRUE]
         /\ UNCHANGED nodes
      \/ /\ good
         /\ si_list' = [si_list EXCEPT ![t] = SubSeq(@, 1, first - 1) \o SubSeq(@, first + 1, Len(@))]
         /\ sig_pending' = [sig_pending EXCEPT ![t] = @ \ {list[first]}]
         /\ free_nodes' = free_nodes + 1
         /\ k' = k0

(* rt_signal_wait as far as its rt_schedule                                *)
SignalWait(t, set, time) ==
  /\ SigCall(t, "sigwait") /\ time # "none"
  /\ \/ /\ sig_pending[t] \cap set # {}
        /\ TakeSignal(t, set, k)
        /\ UNCHANGED <<pc, wait, step, awaited>>
     \/ /\ sig_pending[t] \cap set = {}
        /\ k' = IF time = "ticks" THEN StartTimer(Suspend(k, t), t) ELSE Suspend(k, t)
        /\ awaited' = [awaited EXCEPT ![t] = set]
        /\ Goto(t, "wait")
        /\ UNCHANGED <<wait, step, nodes>>
  /\ UNCHANGED <<isr, arg, crit, sig_mask, frames, sig_ret, kill>>

(* and the rest of it                                                      *)
SignalWoken(t) ==
  /\ Woken(t) /\ Own(t) /\ awaited[t] # {}
  /\ \/ /\ k.error[t] = "ETIMEOUT"
        /\ k' = SetError(k, t, "EOK")
        /\ UNCHANGED nodes
     \/ k.error[t] # "ETIMEOUT" /\ TakeSignal(t, awaited[t], k)
  /\ awaited' = [awaited EXCEPT ![t] = {}]
  /\ Return(t, "app")
  /\ UNCHANGED <<isr, arg, crit, sig_mask, frames, sig_ret, kill>>

-----------------------------------------------------------------------------
(* A step of the kernel that t executes in its own code.  When rt_schedule *)
(* has switched to another thread, it ends with rt_thread_handle_sig once  *)
(* t is back (which finds nothing to do when no signals are sent).         *)
OwnStep(t) ==
  /\ Own(t)
  /\ Application(t) \/ InKernel(t)
  /\ frames' = IF pc[t] \in DOMAIN AfterSchedule /\ k'.cur # t /\ work.calls # {}
               THEN SetTop(t, "check") ELSE frames
  /\ UNCHANGED <<nodes, sig_mask, awaited, sig_ret, kill>>

SignalStep(t) ==
  \/ HandleCheck(t) /\ UNCHANGED objVars
  \/ HandleNext(t) /\ UNCHANGED objVars
  \/ SignalEntryEnd(t) /\ UNCHANGED objVars
  \/ /\ Own(t)
     /\ \/ KillFind(t) \/ KillAlloc(t) \/ KillLink(t) \/ KillTest(t) \/ KillDeliver(t)
        \/ SignalWoken(t)
        \/ \E set \in (SUBSET SentTo(t)) \ {{}}, time \in Time : SignalWait(t, set, time)
        \/ \E s \in SentTo(t) : SignalMask(t, s) \/ SignalUnmask(t, s)
        \/ \E to \in work.sent : KillStart(t, to[1], to[2])
     /\ UNCHANGED <<flag, alive>>

(* The threads that a signal wakes in a call that waits for the mutex, or  *)
(* that handle one in such a call                                          *)
Interrupted ==
  {t \in Thread : /\ pc[t] \in {"wait", "waited"} /\ step[t] \in {"none", "link"}
                  /\ awaited[t] = {}
                  /\ k'.stat[t] # k.stat[t] \/ k'.error[t] # k.error[t]}

SignalsNext ==
  \/ /\ ~k.asserted
     /\ \/ (Start \/ Interrupt) /\ UNCHANGED <<objVars, mutexVars, sigVars>>
        \/ /\ \/ \E to \in work.sent : KillIsr(to[1], to[2]) /\ UNCHANGED objVars
              \/ \E t \in Thread : SignalStep(t)
           /\ astray' = astray \cup Interrupted
           /\ UNCHANGED <<value, owner, original_priority, hold, held>>
        \/ \E t \in Thread :
             \/ OwnStep(t) /\ UNCHANGED <<objVars, mutexVars>>
             \/ work.mutex /\ Own(t) /\ awaited[t] = {} /\ MutexStep(t) /\ UNCHANGED sigVars
     /\ \A t \in Thread : /\ t \notin work.crew => k'.stat[t] = k.stat[t]
                         /\ pc'[t] \notin work.never
     /\ UNCHANGED work
  \/ Halt /\ UNCHANGED <<mutexVars, sigVars, work>>

SignalsSpec == SignalsInit /\ [][SignalsNext]_<<vars, objVars, mutexVars, sigVars, work>>

-----------------------------------------------------------------------------
(* Correctness.                                                            *)

(* A thread that sleeps in rt_signal_wait is woken by each signal it waits *)
(* for and does not mask: none is pending but for one whose rt_thread_kill *)
(* is under way and will still look at the thread.                         *)
SignalWakesWaiter ==
  \A t \in Thread :
    (awaited[t] # {} /\ k.stat[t] = "suspend" /\ ~k.asserted) =>
      \/ sig_pending[t] \cap awaited[t] \cap sig_mask[t] = {}
      \/ \E u \in Thread : kill[u].to = t

(* The nodes of the pool are neither lost nor released twice: each is free *)
(* or in one thread's list, or in a call of rt_thread_kill that has not    *)
(* linked it yet, or is the one whose handler runs.                        *)
NodesConserved ==
  LET linked[S \in SUBSET Thread] ==
        IF S = {} THEN 0
        ELSE LET t == CHOOSE t \in S : TRUE IN Len(si_list[t]) + linked[S \ {t}]
      linking == {t \in Thread : pc[t] = "waited" /\ step[t] = "kill_link"}
      running == {f \in {<<t, i>> : t \in Thread, i \in 1 .. MaxFrame} :
                    f[2] <= Len(frames[f[1]]) /\ frames[f[1]][f[2]] \in Sig}
  IN  free_nodes + linked[Thread] + Cardinality(linking) + Cardinality(running) = SigInfoMax
=============================================================================
