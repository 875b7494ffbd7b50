---------------------------- MODULE SignalProofs ----------------------------
(***************************************************************************)
(* The nodes of the pool _rt_siginfo_pool, the threads that wait for       *)
(* signals, and the owner of the mutex, for any threads, signals, size of  *)
(* the pool and any Works.  At the end, the priorities: the owner inherits *)
(* them from the threads that wait, and gives them back.                   *)
(***************************************************************************)
EXTENDS Signals, SchedulerProofs

-----------------------------------------------------------------------------
(* Counting the nodes.                                                     *)

OfThreads(f) == f = [t \in Thread |-> f[t]]
Lists0 == [Thread -> Seq(Sig)]
Frames == [Thread -> Seq(Sig \cup {"own", "check"})]

Lengths(l) == [t \in Thread |-> Len(l[t])]

(* The nodes in the lists l of the threads                                 *)
InLists(l) ==
  LET linked[S \in SUBSET Thread] ==
        IF S = {} THEN 0
        ELSE LET t == CHOOSE t \in S : TRUE IN Len(l[t]) + linked[S \ {t}]
  IN  linked[Thread]

(* The calls that have a node in hand, and the frames fr in a handler      *)
Linking == {t \in Thread : pc[t] = "waited" /\ step[t] = "kill_link"}
Handling(fr) ==
  {f \in {<<t, i>> : t \in Thread, i \in 1 .. MaxFrame} :
     f[2] <= Len(fr[f[1]]) /\ fr[f[1]][f[2]] \in Sig}

Nodes == free_nodes + InLists(si_list) + Cardinality(Linking) + Cardinality(Handling(frames))

LEMMA NodesAre == NodesConserved <=> Nodes = SigInfoMax
BY DEF NodesConserved, Nodes, InLists, Linking, Handling

LEMMA ThreadsFinite == IsFiniteSet(Thread)
BY ObjectAssumption

LEMMA ListsSum ==
  ASSUME NEW l \in Lists0
  PROVE  /\ Lengths(l) \in [Thread -> Int]
         /\ \E it : Sums(Lengths(l), Thread, it) /\ InLists(l) = it[Thread]
<1> DEFINE f == Lengths(l)
           Eq(it) == it = [S \in SUBSET Thread |->
                             IF S = {} THEN 0 ELSE Len(l[Some(S)]) + it[S \ {Some(S)}]]
           ch == CHOOSE it : Eq(it)
<1>1. f \in [Thread -> Int] /\ \A t \in Thread : f[t] = Len(l[t])
  BY LenProperties DEF Lengths, Lists0
<1>2. PICK it : Sums(f, Thread, it)
  BY <1>1, ThreadsFinite, SumsExist
<1>3. \A S \in SUBSET Thread : S # {} => Some(S) \in Thread
  BY SmallerSets, ThreadsFinite
<1> HIDE DEF f
<1>4. Eq(it)
  BY <1>1, <1>2, <1>3 DEF Sums, Adds
<1>5. Eq(ch)
  BY <1>4
<1>6. InLists(l) = ch[Thread]
  BY DEF InLists, Some
<1> HIDE DEF ch
<1>7. Adds(f, Thread, ch)
  BY <1>1, <1>3, <1>5 DEF Adds
<1>8. ch[Thread] = it[Thread]
  BY <1>1, <1>2, <1>7, ThreadsFinite, SumsUnique
<1> QED BY <1>1, <1>2, <1>6, <1>8 DEF f

(* One thread's list changes.                                              *)
LEMMA ListsChange ==
  ASSUME NEW l \in Lists0, NEW m \in Lists0, NEW u \in Thread,
         \A t \in Thread \ {u} : m[t] = l[t]
  PROVE  InLists(l) \in Int /\ InLists(m) = InLists(l) - Len(l[u]) + Len(m[u])
<1> DEFINE f == Lengths(l)
           g == Lengths(m)
<1>1. /\ \A t \in Thread : f[t] = Len(l[t]) /\ g[t] = Len(m[t])
      /\ \A t \in Thread \ {u} : g[t] = f[t]
  BY DEF Lengths
<1>2. /\ f \in [Thread -> Int] /\ g \in [Thread -> Int]
      /\ \E it : Sums(f, Thread, it) /\ InLists(l) = it[Thread]
      /\ \E it : Sums(g, Thread, it) /\ InLists(m) = it[Thread]
  BY ListsSum
<1> HIDE DEF f, g
<1>3. PICK it : Sums(f, Thread, it) /\ InLists(l) = it[Thread]
  BY <1>2
<1>4. PICK jt : Sums(g, Thread, jt) /\ InLists(m) = jt[Thread]
  BY <1>2
<1>5. it[Thread] \in Int /\ jt[Thread] = it[Thread] - f[u] + g[u]
  <2>1. IsFiniteSet(Thread) /\ f \in [Thread -> Int] /\ g \in [Thread -> Int]
    BY <1>2, ThreadsFinite
  <2>2. \A t \in Thread \ {u} : g[t] = f[t]
    BY <1>1
  <2>3. Sums(f, Thread, it) /\ Sums(g, Thread, jt)
    BY <1>3, <1>4
  <2> QED BY ONLY <2>1, <2>2, <2>3, u \in Thread, SumsChange
<1> QED BY <1>1, <1>3, <1>4, <1>5

Handles(fr, t, i) == i <= Len(fr[t]) /\ fr[t][i] \in Sig

LEMMA HandlingFinite ==
  ASSUME NEW fr
  PROVE  IsFiniteSet(Handling(fr)) /\ Cardinality(Handling(fr)) \in Nat
<1>1. {<<t, i>> : t \in Thread, i \in 1 .. MaxFrame} = Thread \X (1 .. MaxFrame)
  OBVIOUS
<1>2. IsFiniteSet(1 .. MaxFrame)
  BY FS_Interval, SignalAssumption
<1>3. IsFiniteSet(Thread \X (1 .. MaxFrame))
  BY <1>2, ThreadsFinite, FS_Product
<1>4. Handling(fr) \subseteq Thread \X (1 .. MaxFrame)
  BY <1>1 DEF Handling
<1> QED BY <1>3, <1>4, FS_Subset, FS_CardinalityType

(* One frame of one thread changes.                                        *)
LEMMA HandlingChange ==
  ASSUME NEW fr, NEW gr, NEW u \in Thread, NEW n \in 1 .. MaxFrame,
         \A t \in Thread, i \in 1 .. MaxFrame :
           <<t, i>> # <<u, n>> => (Handles(gr, t, i) <=> Handles(fr, t, i))
  PROVE  Cardinality(Handling(gr)) =
           Cardinality(Handling(fr)) + (IF Handles(gr, u, n) THEN 1 ELSE 0)
                                     - (IF Handles(fr, u, n) THEN 1 ELSE 0)
<1>1. \A g : \A f : f \in Handling(g) <=>
         \E t \in Thread, i \in 1 .. MaxFrame : f = <<t, i>> /\ Handles(g, t, i)
  BY DEF Handling, Handles
<1>2. \A t \in Thread, i \in 1 .. MaxFrame : \A g : <<t, i>> \in Handling(g) <=> Handles(g, t, i)
  BY <1>1
<1>3. Handling(gr) \ {<<u, n>>} = Handling(fr) \ {<<u, n>>}
  BY <1>1
<1>4. /\ IsFiniteSet(Handling(fr)) /\ Cardinality(Handling(fr)) \in Nat
      /\ IsFiniteSet(Handling(gr)) /\ Cardinality(Handling(gr)) \in Nat
  BY HandlingFinite
<1>5. CASE Handles(gr, u, n) <=> Handles(fr, u, n)
  <2>1. <<u, n>> \in Handling(gr) <=> <<u, n>> \in Handling(fr)
    BY <1>2, <1>5
  <2>2. Handling(gr) = Handling(fr)
    BY <1>3, <2>1
  <2> QED BY <1>4, <1>5, <2>2
<1>6. CASE Handles(gr, u, n) /\ ~Handles(fr, u, n)
  <2>1. <<u, n>> \in Handling(gr) /\ Handling(fr) = Handling(gr) \ {<<u, n>>}
    BY <1>2, <1>3, <1>6
  <2> QED BY <1>4, <1>6, <2>1, FS_RemoveElement
<1>7. CASE ~Handles(gr, u, n) /\ Handles(fr, u, n)
  <2>1. <<u, n>> \in Handling(fr) /\ Handling(gr) = Handling(fr) \ {<<u, n>>}
    BY <1>2, <1>3, <1>7
  <2> QED BY <1>4, <1>7, <2>1, FS_RemoveElement
<1> QED BY <1>5, <1>6, <1>7

-----------------------------------------------------------------------------
(* Where the threads are in their calls.                                   *)

(* A call of rt_thread_kill that may have a node in hand                   *)
NodeCall(t) == pc[t] = "waited" /\ step[t] \in {"kill_find", "kill_alloc", "kill_link"}
KillCall(t) ==
  /\ pc[t] = "waited"
  /\ step[t] \in {"kill_find", "kill_alloc", "kill_link", "kill_test", "kill_deliver"}

Labels ==
  /\ OfThreads(pc) /\ OfThreads(step) /\ OfThreads(kill)
  /\ \A t \in Thread : step[t] # "none" => pc[t] \in {"waited", "drain2"}
  /\ \A t \in Thread : KillCall(t) => kill[t].to \in Thread
  /\ \A t \in Thread : NodeCall(t) => kill[t].sig \in Sig

(* Only t goes on in its call, and nobody else is the same as before.      *)
OnlyGoes(t) ==
  /\ OfThreads(pc') /\ OfThreads(step')
  /\ \A u \in Thread \ {t} : pc'[u] = pc[u] /\ step'[u] = step[u]

LEMMA LabelsGo ==
  ASSUME Labels, NEW t \in Thread, OnlyGoes(t),
         OfThreads(kill'), \A u \in Thread \ {t} : kill'[u] = kill[u],
         step'[t] # "none" => pc'[t] \in {"waited", "drain2"},
         KillCall(t)' => kill'[t].to \in Thread, NodeCall(t)' => kill'[t].sig \in Sig
  PROVE  Labels' /\ Linking' \ {t} = Linking \ {t}
<1>1. \A u \in Thread \ {t} : (NodeCall(u)' <=> NodeCall(u)) /\ (KillCall(u)' <=> KillCall(u))
  BY DEF NodeCall, KillCall, OnlyGoes
<1>2. Labels'
  BY <1>1 DEF Labels, OnlyGoes
<1>3. \A u \in Thread : u # t => (u \in Linking' <=> u \in Linking)
  BY DEF Linking, OnlyGoes
<1>4. Linking' \subseteq Thread /\ Linking \subseteq Thread
  BY DEF Linking
<1> QED BY <1>2, <1>3, <1>4

(* It has no node in hand, and it had none.                                *)
LEMMA LabelsPlain ==
  ASSUME Labels, NEW t \in Thread, OnlyGoes(t), t \notin Linking, t \notin Linking',
         OfThreads(kill'), \A u \in Thread \ {t} : kill'[u] = kill[u],
         step'[t] # "none" => pc'[t] \in {"waited", "drain2"},
         KillCall(t)' => kill'[t].to \in Thread, NodeCall(t)' => kill'[t].sig \in Sig
  PROVE  Labels' /\ Linking' = Linking
BY LabelsGo

LEMMA LabelsStay ==
  ASSUME Labels, pc' = pc, step' = step, kill' = kill
  PROVE  Labels' /\ Linking' = Linking
BY DEF Labels, Linking, NodeCall, KillCall, OfThreads

(* A step of the kernel in t's own code: t is in no call that waits for an *)
(* object, and no other thread goes on.                                    *)
LEMMA KernelLabels ==
  ASSUME Labels, "create" \notin Ops, NEW t \in Thread, Application(t) \/ InKernel(t),
         step' = step, kill' = kill
  PROVE  /\ Labels' /\ Linking' = Linking /\ OnlyGoes(t)
         /\ pc[t] \notin {"waited", "drain1", "drain2"}
         /\ step[t] = "none"
<1>1. OfThreads(pc) /\ OfThreads(step)
  BY DEF Labels
<1>2. pc[t] \in {"app", "resume1", "resume2", "delete1", "delete2", "woken"} \cup DOMAIN AfterSchedule
  BY DEF Application, InKernel, Call, YieldThread, SleepThread, ExitThread, Enter, Leave,
         FindThread, CreateThread, StartupThread, DeleteThread, SuspendThread, ResumeThread,
         ChangeThreadPriority, ResumeUnlink, ResumeInsert, DeleteTimer, DeleteClose,
         Reschedule, SleepReturn
<1>3. pc[t] \notin {"waited", "drain1", "drain2"}
  BY <1>2 DEF AfterSchedule
<1>4. \/ pc' = pc
      \/ \E label : pc' = [pc EXCEPT ![t] = label]
  BY DEF Application, InKernel, Call, YieldThread, SleepThread, ExitThread, Enter, Leave,
         FindThread, CreateThread, StartupThread, DeleteThread, SuspendThread, ResumeThread,
         ChangeThreadPriority, ResumeUnlink, ResumeInsert, DeleteTimer, DeleteClose,
         Reschedule, SleepReturn, Goto
<1>5. OfThreads(pc') /\ \A u \in Thread \ {t} : pc'[u] = pc[u]
  BY <1>1, <1>4 DEF OfThreads
<1>6. step[t] = "none" /\ step'[t] = "none" /\ t \notin Linking
  BY <1>3 DEF Labels, Linking
<1>7. OnlyGoes(t)
  BY <1>1, <1>5 DEF OnlyGoes
<1>8. Labels' /\ Linking' = Linking
  <2>1. t \notin Linking' /\ ~NodeCall(t)' /\ ~KillCall(t)'
    BY <1>6 DEF Linking, NodeCall, KillCall
  <2>2. OfThreads(kill') /\ \A u \in Thread \ {t} : kill'[u] = kill[u]
    BY DEF Labels, OfThreads
  <2> QED BY <1>6, <1>7, <2>1, <2>2, LabelsPlain
<1> QED BY <1>3, <1>6, <1>7, <1>8

(* A step of t in a call of the mutex                                      *)
LEMMA MutexLabels ==
  ASSUME Labels, NEW t \in Thread, MutexStep(t), kill' = kill
  PROVE  Labels' /\ Linking' = Linking /\ OnlyGoes(t) /\ (KillCall(t) => KillCall(t)')
<1>1. OfThreads(pc) /\ OfThreads(step)
  BY DEF Labels
<1>2. \/ pc' = pc /\ step' = step
      \/ pc' = [pc EXCEPT ![t] = "sched"] /\ pc[t] = "app" /\ step' = step
      \/ pc' = [pc EXCEPT ![t] = "wait"] /\ pc[t] = "app" /\ step' = step
      \/ pc' = [pc EXCEPT ![t] = "drain1"] /\ pc[t] = "app" /\ step' = step
      \/ /\ pc[t] = "waited" /\ step[t] \in {"none", "link"}
         /\ \/ pc' = [pc EXCEPT ![t] = "app"] /\ step' = [step EXCEPT ![t] = "none"]
            \/ pc' = [pc EXCEPT ![t] = "wait"] /\ step' = [step EXCEPT ![t] = "none"]
            \/ pc' = pc /\ step' = [step EXCEPT ![t] = "link"]
      \/ /\ pc[t] = "drain1"
         /\ \/ pc' = [pc EXCEPT ![t] = "app"] /\ step' = step
            \/ \E w : pc' = [pc EXCEPT ![t] = "drain2"] /\ step' = [step EXCEPT ![t] = w]
      \/ pc[t] = "drain2" /\ pc' = [pc EXCEPT ![t] = "drain1"] /\ step' = [step EXCEPT ![t] = "none"]
  BY DEF MutexStep, MutexTakeAgain, MutexTake, MutexRefuse, MutexTaken, MutexRelease, MutexWait,
         MutexNotTaken, MutexAgain, MutexLink, MutexDetach, MutexCreate, DrainTest, DrainResume,
         DetachObject, InitObject, MutexCall, ObjCall, Woken, AtStep, WaitFails, Return, Goto,
         GoStep, objVars, vars
<1>3. CASE pc' = pc /\ step' = step
  BY <1>1, <1>3, LabelsStay DEF OnlyGoes, OfThreads, KillCall
<1>4. CASE ~(pc' = pc /\ step' = step)
  <2>1. OnlyGoes(t)
    BY <1>1, <1>2 DEF OnlyGoes, OfThreads
  <2>2. step'[t] # "none" => pc'[t] \in {"waited", "drain2"}
    BY <1>1, <1>2 DEF Labels, OfThreads
  <2>3. ~NodeCall(t)' /\ ~KillCall(t)'
    BY <1>1, <1>2, <1>4 DEF NodeCall, KillCall, OfThreads
  <2>4. t \notin Linking /\ t \notin Linking'
    BY <1>2, <1>4, <2>3 DEF Linking, Labels, NodeCall
  <2>5. OfThreads(kill') /\ \A u \in Thread \ {t} : kill'[u] = kill[u]
    BY DEF Labels, OfThreads
  <2>6. ~KillCall(t)
    BY <1>2, <1>4 DEF KillCall
  <2> QED BY <2>1, <2>2, <2>3, <2>4, <2>5, <2>6, LabelsPlain
<1> QED BY <1>3, <1>4

-----------------------------------------------------------------------------
(* The frames on the stacks.                                               *)

FramesOK ==
  /\ frames \in Frames /\ \A t \in Thread : Len(frames[t]) \in 1 .. MaxFrame
  /\ OfThreads(sig_ret)
  /\ \A t \in Thread : sig_ret[t] # 0 => sig_ret[t] \in Nat /\ Len(frames[t]) = sig_ret[t] + 1

Handlers == Cardinality(Handling(frames))

LEMMA TopFacts ==
  ASSUME FramesOK, NEW t \in Thread
  PROVE  /\ Len(frames[t]) \in 1 .. MaxFrame /\ Top(t) \in Sig \cup {"own", "check"}
         /\ Handles(frames, t, Len(frames[t])) <=> Top(t) \in Sig
         /\ "own" \notin Sig /\ "check" \notin Sig /\ Handlers \in Nat
<1>1. frames[t] \in Seq(Sig \cup {"own", "check"}) /\ Len(frames[t]) \in 1 .. MaxFrame
  BY DEF FramesOK, Frames
<1>2. MaxFrame \in Nat /\ "own" \notin Sig /\ "check" \notin Sig
  BY SignalAssumption
<1>3. Top(t) \in Sig \cup {"own", "check"}
  BY <1>1, <1>2, ElementOfSeq DEF Top
<1> QED BY <1>1, <1>2, <1>3, HandlingFinite DEF Handles, Top, Handlers

(* No frame begins or ends a handler.                                      *)
LEMMA HandlingSame ==
  ASSUME NEW fr, NEW gr,
         \A t \in Thread, i \in 1 .. MaxFrame : Handles(gr, t, i) <=> Handles(fr, t, i)
  PROVE  Handling(gr) = Handling(fr)
BY DEF Handling, Handles

(* What the frame on top executes is another thing.                        *)
LEMMA TopChanges ==
  ASSUME FramesOK, NEW t \in Thread, NEW w \in Sig \cup {"own", "check"},
         frames' = SetTop(t, w), sig_ret' = sig_ret
  PROVE  /\ FramesOK'
         /\ Handlers' = Handlers + (IF w \in Sig THEN 1 ELSE 0) - (IF Top(t) \in Sig THEN 1 ELSE 0)
<1> DEFINE n == Len(frames[t])
<1>1. n \in 1 .. MaxFrame /\ (Handles(frames, t, n) <=> Top(t) \in Sig) /\ MaxFrame \in Nat
  BY TopFacts, SignalAssumption
<1>2. /\ frames \in Frames /\ DOMAIN frames = Thread
      /\ \A u \in Thread : frames[u] \in Seq(Sig \cup {"own", "check"})
  BY DEF FramesOK, Frames
<1>3. frames' = [frames EXCEPT ![t] = [frames[t] EXCEPT ![n] = w]]
  BY DEF SetTop
<1>4. /\ [frames[t] EXCEPT ![n] = w] \in Seq(Sig \cup {"own", "check"})
      /\ Len([frames[t] EXCEPT ![n] = w]) = n
      /\ \A i \in 1 .. n : [frames[t] EXCEPT ![n] = w][i] = IF i = n THEN w ELSE frames[t][i]
  BY <1>1, <1>2, ExceptSeq
<1>5. FramesOK'
  BY <1>2, <1>3, <1>4 DEF FramesOK, Frames
<1>6. Handles(frames', t, n) <=> w \in Sig
  BY <1>1, <1>2, <1>3, <1>4 DEF Handles
<1>7. ASSUME NEW u \in Thread, NEW i \in 1 .. MaxFrame, <<u, i>> # <<t, n>>
      PROVE  Handles(frames', u, i) <=> Handles(frames, u, i)
  <2>1. CASE u # t
    BY <1>2, <1>3, <2>1 DEF Handles
  <2>2. CASE u = t /\ i # n
    BY <1>1, <1>2, <1>3, <1>4, <2>2 DEF Handles
  <2> QED BY <1>7, <2>1, <2>2
<1>8. Handlers' = Handlers + (IF Handles(frames', t, n) THEN 1 ELSE 0)
                           - (IF Handles(frames, t, n) THEN 1 ELSE 0)
  BY <1>1, <1>7, HandlingChange DEF Handlers
<1> QED BY <1>1, <1>5, <1>6, <1>8

(* A frame is put on a stack, or the one on top is left.                   *)
LEMMA FramePushed ==
  ASSUME FramesOK, NEW u \in Thread, PushFrame(u)
  PROVE  FramesOK' /\ Handlers' = Handlers
<1> DEFINE n == Len(frames[u]) + 1
<1>1. /\ frames \in Frames /\ DOMAIN frames = Thread
      /\ \A t \in Thread : frames[t] \in Seq(Sig \cup {"own", "check"})
      /\ Len(frames[u]) \in 1 .. MaxFrame /\ MaxFrame \in Nat /\ "check" \notin Sig
  BY SignalAssumption DEF FramesOK, Frames
<1>2. n \in 1 .. MaxFrame /\ frames' = [frames EXCEPT ![u] = Append(frames[u], "check")]
  BY <1>1 DEF PushFrame
<1>3. /\ Append(frames[u], "check") \in Seq(Sig \cup {"own", "check"})
      /\ Len(Append(frames[u], "check")) = n
      /\ \A i \in 1 .. n : Append(frames[u], "check")[i] = IF i = n THEN "check" ELSE frames[u][i]
  BY <1>1, AppendProperties
<1>4. OfThreads(sig_ret') /\ \A t \in Thread : sig_ret'[t] = IF t = u THEN n - 1 ELSE sig_ret[t]
  <2>1. OfThreads(sig_ret) /\ sig_ret' = [sig_ret EXCEPT ![u] = n - 1]
    BY <1>1 DEF FramesOK, PushFrame
  <2> QED BY <2>1 DEF OfThreads
<1>5. FramesOK'
  <2>1. ASSUME NEW t \in Thread
        PROVE  /\ frames'[t] \in Seq(Sig \cup {"own", "check"}) /\ Len(frames'[t]) \in 1 .. MaxFrame
               /\ sig_ret'[t] # 0 => sig_ret'[t] \in Nat /\ Len(frames'[t]) = sig_ret'[t] + 1
    BY <1>1, <1>2, <1>3, <1>4 DEF FramesOK
  <2>2. frames' \in Frames
    BY <1>1, <1>2, <2>1 DEF Frames
  <2> QED BY <1>4, <2>1, <2>2 DEF FramesOK
<1>6. ASSUME NEW t \in Thread, NEW i \in 1 .. MaxFrame
      PROVE  Handles(frames', t, i) <=> Handles(frames, t, i)
  <2>1. CASE t # u
    BY <1>1, <1>2, <2>1 DEF Handles
  <2>2. CASE t = u
    BY <1>1, <1>2, <1>3, <2>2 DEF Handles
  <2> QED BY <2>1, <2>2
<1> QED BY <1>5, <1>6, HandlingSame DEF Handlers

LEMMA FramePopped ==
  ASSUME FramesOK, NEW t \in Thread, Top(t) = "own", sig_ret[t] # 0,
         frames' = [frames EXCEPT ![t] = SubSeq(@, 1, sig_ret[t])],
         sig_ret' = [sig_ret EXCEPT ![t] = 0]
  PROVE  FramesOK' /\ Handlers' = Handlers
<1> DEFINE n == Len(frames[t])
<1>1. /\ frames \in Frames /\ DOMAIN frames = Thread
      /\ \A u \in Thread : frames[u] \in Seq(Sig \cup {"own", "check"})
      /\ n \in 1 .. MaxFrame /\ MaxFrame \in Nat
  BY SignalAssumption DEF FramesOK, Frames
<1>2. sig_ret[t] \in Nat \ {0} /\ sig_ret[t] = n - 1
  BY DEF FramesOK
<1>3. /\ SubSeq(frames[t], 1, n - 1) \in Seq(Sig \cup {"own", "check"})
      /\ Len(SubSeq(frames[t], 1, n - 1)) = n - 1
      /\ \A i \in 1 .. n - 1 : SubSeq(frames[t], 1, n - 1)[i] = frames[t][i]
  <2>1. ASSUME NEW i \in 1 .. n - 1 PROVE frames[t][i] \in Sig \cup {"own", "check"}
    <3>1. i \in 1 .. Len(frames[t]) /\ frames[t] \in Seq(Sig \cup {"own", "check"})
      BY <1>1
    <3> QED BY ONLY <3>1, ElementOfSeq
  <2>2. 1 \in Int /\ n - 1 \in Int /\ 1 <= n - 1 /\ n - 1 - 1 + 1 = n - 1
    <3>1. n \in Int /\ n - 1 \in Nat /\ n - 1 # 0
      BY <1>1, <1>2
    <3> HIDE DEF n
    <3> QED BY <3>1
  <2> HIDE DEF n
  <2>3. /\ SubSeq(frames[t], 1, n - 1) \in Seq(Sig \cup {"own", "check"})
        /\ Len(SubSeq(frames[t], 1, n - 1)) = n - 1
        /\ \A i \in 1 .. n - 1 - 1 + 1 : SubSeq(frames[t], 1, n - 1)[i] = frames[t][1 + i - 1]
    BY <2>1, <2>2, SubSeqProperties
  <2>4. \A i \in 1 .. n - 1 : i \in 1 .. n - 1 - 1 + 1 /\ 1 + i - 1 = i
    BY <2>2
  <2> QED BY <2>3, <2>4
<1>4. OfThreads(sig_ret') /\ \A u \in Thread : sig_ret'[u] = IF u = t THEN 0 ELSE sig_ret[u]
  BY DEF FramesOK, OfThreads
<1>5. FramesOK'
  <2>1. ASSUME NEW u \in Thread
        PROVE  /\ frames'[u] \in Seq(Sig \cup {"own", "check"}) /\ Len(frames'[u]) \in 1 .. MaxFrame
               /\ sig_ret'[u] # 0 => sig_ret'[u] \in Nat /\ Len(frames'[u]) = sig_ret'[u] + 1
    BY <1>1, <1>2, <1>3, <1>4 DEF FramesOK
  <2>2. frames' \in Frames
    BY <1>1, <2>1 DEF Frames
  <2> QED BY <1>4, <2>1, <2>2 DEF FramesOK
<1>6. ASSUME NEW u \in Thread, NEW i \in 1 .. MaxFrame
      PROVE  Handles(frames', u, i) <=> Handles(frames, u, i)
  <2>1. CASE u # t
    BY <1>1, <2>1 DEF Handles
  <2>2. CASE u = t /\ i = n
    BY <1>1, <1>2, <1>3, <2>2, TopFacts DEF Handles
  <2>3. CASE u = t /\ i # n
    BY <1>1, <1>2, <1>3, <2>3 DEF Handles
  <2> QED BY <2>1, <2>2, <2>3
<1> QED BY <1>5, <1>6, HandlingSame DEF Handlers

-----------------------------------------------------------------------------
(* What each section does to the nodes.                                    *)

InTheLists == InLists(si_list)

NodesInv ==
  /\ Labels /\ FramesOK
  /\ work \in Works /\ free_nodes \in Int /\ si_list \in Lists0
  /\ Nodes = SigInfoMax

(* The section of a call that has no node in hand, before or afterwards    *)
LEMMA Balance ==
  ASSUME NodesInv, Labels', FramesOK', Linking' = Linking, work' = work,
         free_nodes' \in Int, si_list' \in Lists0,
         free_nodes' + InTheLists' + Handlers' = free_nodes + InTheLists + Handlers
  PROVE  NodesInv'
<1>1. Cardinality(Linking) \in Nat
  <2>1. Linking \subseteq Thread
    BY DEF Linking
  <2> QED BY <2>1, ThreadsFinite, FS_Subset, FS_CardinalityType
<1>2. InTheLists \in Int /\ InTheLists' \in Int
  <2>1. PICK t \in Thread : TRUE
    BY KernelAssumption
  <2>2. si_list \in Lists0 /\ si_list' \in Lists0
    BY DEF NodesInv
  <2> QED BY <2>1, <2>2, ListsChange DEF InTheLists
<1>3. Handlers \in Nat /\ Handlers' \in Nat
  BY HandlingFinite DEF Handlers
<1>4. /\ Nodes = free_nodes + InTheLists + Cardinality(Linking) + Handlers
      /\ Nodes' = free_nodes' + InTheLists' + Cardinality(Linking) + Handlers'
      /\ free_nodes \in Int
  BY DEF Nodes, InTheLists, Handlers, NodesInv
<1>5. Nodes' = Nodes
  <2> DEFINE a == InTheLists
             b == InTheLists'
             c == Cardinality(Linking)
             d == Handlers
             e == Handlers'
             f == free_nodes
             g == free_nodes'
  <2>1. a \in Int /\ b \in Int /\ c \in Int /\ d \in Int /\ e \in Int /\ f \in Int /\ g \in Int
    BY <1>1, <1>2, <1>3, <1>4
  <2>2. Nodes = f + a + c + d /\ Nodes' = g + b + c + e /\ g + b + e = f + a + d
    BY <1>4
  <2> HIDE DEF a, b, c, d, e, f, g
  <2>3. g + b + c + e = f + a + c + d
    BY <2>1, <2>2
  <2> QED BY <2>2, <2>3
<1> QED BY <1>5 DEF NodesInv

(* What the lists and the handlers have less, the pool has more.           *)
LEMMA BalanceOf ==
  ASSUME NodesInv, Labels', FramesOK', Linking' = Linking, work' = work,
         NEW n \in Int, si_list' \in Lists0, free_nodes' = free_nodes + n,
         InTheLists' + Handlers' = InTheLists + Handlers - n
  PROVE  NodesInv'
<1> DEFINE a == InTheLists
           b == InTheLists'
           c == Handlers
           d == Handlers'
           f == free_nodes
<1>1. a \in Int /\ b \in Int /\ c \in Int /\ d \in Int /\ f \in Int
  <2>1. PICK t \in Thread : TRUE
    BY KernelAssumption
  <2>2. si_list \in Lists0 /\ si_list' \in Lists0
    BY DEF NodesInv
  <2>3. a \in Int /\ b \in Int
    BY <2>1, <2>2, ListsChange DEF InTheLists
  <2>4. c \in Int /\ d \in Int
    BY HandlingFinite DEF Handlers
  <2> QED BY <2>3, <2>4 DEF NodesInv
<1>2. b + d = a + c - n /\ free_nodes' = f + n
  OBVIOUS
<1> HIDE DEF a, b, c, d, f
<1>3. f + n \in Int /\ (f + n) + b + d = f + a + c
  BY <1>1, <1>2
<1>4. free_nodes' \in Int /\ free_nodes' + b + d = f + a + c
  BY <1>2, <1>3
<1> QED BY <1>4, Balance DEF a, b, c, d, f

LEMMA NodesStay ==
  ASSUME NodesInv, Labels', Linking' = Linking, work' = work,
         free_nodes' = free_nodes, si_list' = si_list,
         FramesOK' /\ Handlers' = Handlers
  PROVE  NodesInv'
BY Balance DEF NodesInv, InTheLists

(* One list has another length.                                            *)
LEMMA ListIs ==
  ASSUME NEW u \in Thread, si_list \in Lists0, NEW s \in Seq(Sig),
         si_list' = [si_list EXCEPT ![u] = s]
  PROVE  /\ si_list' \in Lists0 /\ InTheLists \in Int
         /\ InTheLists' = InTheLists - Len(si_list[u]) + Len(s)
<1>1. si_list' \in Lists0 /\ si_list'[u] = s /\ \A t \in Thread \ {u} : si_list'[t] = si_list[t]
  BY DEF Lists0
<1>2. /\ InLists(si_list) \in Int
      /\ InLists(si_list') = InLists(si_list) - Len(si_list[u]) + Len(si_list'[u])
  BY <1>1, ListsChange
<1> QED BY <1>1, <1>2 DEF InTheLists

(* The test of the loop of rt_thread_handle_sig                            *)
LEMMA TakeFirstFacts ==
  ASSUME FramesOK, si_list \in Lists0, NEW t \in Thread, NEW pending, TakeFirst(t, pending),
         sig_ret' = sig_ret
  PROVE  /\ FramesOK' /\ si_list' \in Lists0
         /\ InTheLists' + Handlers' =
              InTheLists + Handlers - (IF Top(t) \in Sig THEN 1 ELSE 0)
<1> DEFINE one == IF Top(t) \in Sig THEN 1 ELSE 0
<1>1. Handlers \in Nat /\ "own" \notin Sig
  BY TopFacts
<1>2. si_list[t] \in Seq(Sig)
  BY DEF Lists0
<1>3. InTheLists \in Int
  <2>1. si_list = [si_list EXCEPT ![t] = si_list[t]]
    BY DEF Lists0
  <2> QED BY ListsChange DEF InTheLists
<1>4. CASE si_list[t] # << >> /\ frames' = SetTop(t, Head(si_list[t]))
           /\ si_list' = [si_list EXCEPT ![t] = Tail(si_list[t])]
  <2>1. /\ Head(si_list[t]) \in Sig /\ Tail(si_list[t]) \in Seq(Sig)
        /\ Len(Tail(si_list[t])) = Len(si_list[t]) - 1 /\ Len(si_list[t]) \in Nat
    BY <1>2, <1>4, HeadTailProperties, LenProperties
  <2>2. FramesOK' /\ Handlers' = Handlers + 1 - one
    BY <1>4, <2>1, TopChanges
  <2>3. si_list' \in Lists0 /\ InTheLists' = InTheLists - Len(si_list[t]) + Len(Tail(si_list[t]))
    BY <1>4, <2>1, ListIs
  <2> HIDE DEF one
  <2>4. one \in Int
    BY DEF one
  <2>5. InTheLists' + Handlers' = InTheLists + Handlers - one
    <3>1. \A a, b, h, n \in Int : (a - n + (n - 1)) + (h + 1 - b) = a + h - b
      OBVIOUS
    <3>2. InTheLists' = InTheLists - Len(si_list[t]) + (Len(si_list[t]) - 1)
      BY <2>1, <2>3
    <3> QED BY <1>1, <1>3, <2>1, <2>2, <2>4, <3>1, <3>2
  <2> QED BY <2>2, <2>3, <2>5 DEF one
<1>5. CASE frames' = SetTop(t, "own") /\ si_list' = si_list
  <2>1. FramesOK' /\ Handlers' = Handlers - one
    BY <1>1, <1>5, TopChanges
  <2>2. InTheLists' = InTheLists
    BY <1>5 DEF InTheLists
  <2> HIDE DEF one
  <2>3. one \in Int
    BY DEF one
  <2>4. InTheLists' + Handlers' = InTheLists + Handlers - one
    BY <1>1, <1>3, <2>1, <2>2, <2>3
  <2> QED BY <1>5, <2>1, <2>4 DEF one
<1> QED BY <1>4, <1>5 DEF TakeFirst

(* A part of a sequence, which may be empty                                *)
LEMMA PartLength ==
  ASSUME NEW S, NEW s, NEW m \in Nat, NEW n \in Nat, m <= n + 1,
         \A i \in m .. n : s[i] \in S
  PROVE  SubSeq(s, m, n) \in Seq(S) /\ Len(SubSeq(s, m, n)) = n - m + 1
<1>1. SubSeq(s, m, n) \in Seq(S) /\ Len(SubSeq(s, m, n)) = IF m <= n THEN n - m + 1 ELSE 0
  BY SubSeqProperties
<1>2. (IF m <= n THEN n - m + 1 ELSE 0) = n - m + 1
  OBVIOUS
<1> QED BY <1>1, <1>2

(* rt_signal_wait takes a node out of the list, or nothing.                *)
LEMMA TakeSignalFacts ==
  ASSUME si_list \in Lists0, free_nodes \in Int, NEW t \in Thread, NEW set, NEW k0,
         TakeSignal(t, set, k0)
  PROVE  /\ si_list' \in Lists0 /\ free_nodes' \in Int
         /\ free_nodes' + InTheLists' = free_nodes + InTheLists
<1> DEFINE list == si_list[t]
           match == {i \in DOMAIN list : list[i] \in set}
           first == CHOOSE i \in match : \A j \in match : i <= j
<1>1. list \in Seq(Sig) /\ Len(list) \in Nat /\ DOMAIN list = 1 .. Len(list)
      /\ \A i \in 1 .. Len(list) : list[i] \in Sig
  BY LenProperties, ElementOfSeq DEF Lists0
<1>2. CASE UNCHANGED nodes
  BY <1>2 DEF nodes, InTheLists
<1>3. CASE /\ match # {}
           /\ si_list' = [si_list EXCEPT ![t] = SubSeq(@, 1, first - 1)
                                                  \o SubSeq(@, first + 1, Len(@))]
           /\ free_nodes' = free_nodes + 1
  <2>1. first \in 1 .. Len(list)
    <3>1. match \subseteq Nat /\ match # {}
      BY <1>1, <1>3
    <3>2. \E i \in match : \A j \in match : i <= j
      BY <3>1, LeastElement
    <3>3. first \in match
      BY <3>2
    <3> QED BY <1>1, <3>3
  <2> HIDE DEF first
  <2>2. \A i \in 1 .. first - 1 : list[i] \in Sig
    BY <1>1, <2>1
  <2>3. \A i \in first + 1 .. Len(list) : list[i] \in Sig
    BY <1>1, <2>1
  <2> HIDE DEF list
  <2>4. SubSeq(list, 1, first - 1) \in Seq(Sig) /\ Len(SubSeq(list, 1, first - 1)) = first - 1
    <3>1. /\ 1 \in Nat /\ first - 1 \in Nat /\ 1 <= (first - 1) + 1
          /\ (first - 1) - 1 + 1 = first - 1
      BY <1>1, <2>1
    <3>2. /\ SubSeq(list, 1, first - 1) \in Seq(Sig)
          /\ Len(SubSeq(list, 1, first - 1)) = (first - 1) - 1 + 1
      BY ONLY <2>2, <3>1, PartLength
    <3> QED BY <3>1, <3>2
  <2>5. /\ SubSeq(list, first + 1, Len(list)) \in Seq(Sig)
        /\ Len(SubSeq(list, first + 1, Len(list))) = Len(list) - first
    <3>1. /\ first + 1 \in Nat /\ Len(list) \in Nat /\ first + 1 <= Len(list) + 1
          /\ Len(list) - (first + 1) + 1 = Len(list) - first
      BY <1>1, <2>1
    <3>2. /\ SubSeq(list, first + 1, Len(list)) \in Seq(Sig)
          /\ Len(SubSeq(list, first + 1, Len(list))) = Len(list) - (first + 1) + 1
      BY ONLY <2>3, <3>1, PartLength
    <3> QED BY <3>1, <3>2
  <2> DEFINE rest == SubSeq(list, 1, first - 1) \o SubSeq(list, first + 1, Len(list))
  <2>6. rest \in Seq(Sig) /\ Len(rest) = Len(list) - 1
    <3>1. rest \in Seq(Sig) /\ Len(rest) = (first - 1) + (Len(list) - first)
      BY <2>4, <2>5, ConcatProperties
    <3>2. (first - 1) + (Len(list) - first) = Len(list) - 1
      BY <1>1, <2>1
    <3> QED BY <3>1, <3>2
  <2>7. si_list' = [si_list EXCEPT ![t] = rest]
    BY <1>3 DEF list
  <2> HIDE DEF rest
  <2>8. si_list' \in Lists0 /\ InTheLists \in Int /\ InTheLists' = InTheLists - Len(list) + Len(rest)
    BY <2>6, <2>7, ListIs DEF list
  <2> QED BY <1>1, <1>3, <2>6, <2>8
<1> QED BY <1>2, <1>3 DEF TakeSignal

-----------------------------------------------------------------------------
(* Each section of signal.c keeps the nodes.                               *)

LEMMA FramesStay ==
  ASSUME FramesOK, frames' = frames, sig_ret' = sig_ret
  PROVE  FramesOK' /\ Handlers' = Handlers
BY DEF FramesOK, Handlers, OfThreads

LEMMA HandleNodes ==
  ASSUME NodesInv, NEW t \in Thread, work' = work, UNCHANGED objVars,
         HandleCheck(t) \/ HandleNext(t) \/ SignalEntryEnd(t)
  PROVE  NodesInv'
<1>1. /\ Labels' /\ Linking' = Linking
      /\ FramesOK /\ free_nodes \in Int /\ si_list \in Lists0
  <2>1. pc' = pc /\ step' = step /\ kill' = kill
    BY DEF HandleCheck, HandleNext, SignalEntryEnd, vars, objVars
  <2> QED BY <2>1, LabelsStay DEF NodesInv
<1>2. Handlers \in Nat /\ InTheLists \in Int /\ "check" \notin Sig
  BY <1>1, TopFacts, ListsChange DEF InTheLists
<1>3. CASE HandleCheck(t)
  <2>1. /\ FramesOK' /\ si_list' \in Lists0 /\ InTheLists' + Handlers' = InTheLists + Handlers - 0
    BY <1>1, <1>2, <1>3, TakeFirstFacts DEF HandleCheck
  <2>2. free_nodes' = free_nodes + 0
    BY <1>1, <1>3 DEF HandleCheck
  <2> QED BY <1>1, <2>1, <2>2, BalanceOf
<1>4. CASE HandleNext(t)
  <2>1. /\ FramesOK' /\ si_list' \in Lists0 /\ InTheLists' + Handlers' = InTheLists + Handlers - 1
    BY <1>1, <1>2, <1>4, TakeFirstFacts DEF HandleNext
  <2>2. free_nodes' = free_nodes + 1
    BY <1>4 DEF HandleNext
  <2> QED BY <1>1, <2>1, <2>2, BalanceOf
<1>5. CASE SignalEntryEnd(t)
  <2>1. FramesOK' /\ Handlers' = Handlers
    BY <1>1, <1>5, FramesStay, FramePopped DEF SignalEntryEnd
  <2> QED BY <1>1, <1>5, <2>1, NodesStay DEF SignalEntryEnd, nodes
<1> QED BY <1>3, <1>4, <1>5

(* The steps of a call of t that has no node in hand: where t may go       *)
LEMMA CallGoes ==
  ASSUME NodesInv, NEW t \in Thread,
         \/ \E to \in work.sent : KillStart(t, to[1], to[2])
         \/ KillFind(t) \/ KillTest(t) \/ KillDeliver(t) \/ SignalWoken(t)
         \/ \E set, time : SignalWait(t, set, time)
         \/ \E s : SignalMask(t, s) /\ UNCHANGED step
         \/ \E s : SignalUnmask(t, s)
  PROVE  Labels' /\ Linking' = Linking /\ OnlyGoes(t)
<1>1. Labels /\ OfThreads(pc) /\ OfThreads(step) /\ OfThreads(kill)
  BY DEF NodesInv, Labels
<1>2. \A to \in work.sent : to[1] \in Thread /\ to[2] \in Sig
  BY SignalAssumption DEF NodesInv
<1>3. \/ pc' = pc /\ step' = step /\ kill' = kill
      \/ /\ pc[t] = "app" \/ step[t] # "kill_link"
         /\ OnlyGoes(t) /\ OfThreads(kill') /\ \A u \in Thread \ {t} : kill'[u] = kill[u]
         /\ \/ /\ pc'[t] = "waited" /\ step'[t] \in {"kill_find", "kill_alloc"}
               /\ kill'[t].to \in Thread /\ kill'[t].sig \in Sig
            \/ /\ pc'[t] = "waited" /\ step'[t] \in {"kill_test", "kill_deliver"}
               /\ kill'[t].to \in Thread
            \/ step'[t] = "none"
  <2>1. ASSUME NEW to \in work.sent, KillStart(t, to[1], to[2]) PROVE <1>3
    BY <1>1, <1>2, <2>1 DEF KillStart, SigCall, Goto, GoStep, OnlyGoes, OfThreads
  <2>2. CASE KillFind(t)
    BY <1>1, <2>2 DEF KillFind, AtStep, GoStep, OnlyGoes, OfThreads, Labels, NodeCall, KillCall
  <2>3. CASE KillTest(t)
    BY <1>1, <2>3 DEF KillTest, AtStep, Goto, GoStep, Return, OnlyGoes, OfThreads, Labels, KillCall
  <2>4. CASE KillDeliver(t)
    BY <1>1, <2>4 DEF KillDeliver, AtStep, Goto, GoStep, Return, OnlyGoes, OfThreads
  <2>5. CASE SignalWoken(t)
    BY <1>1, <2>5 DEF SignalWoken, Woken, AtStep, Goto, GoStep, Return, OnlyGoes, OfThreads
  <2>6. ASSUME NEW set, NEW time, SignalWait(t, set, time) PROVE <1>3
    BY <1>1, <2>6 DEF SignalWait, SigCall, Goto, OnlyGoes, OfThreads, Labels
  <2>7. ASSUME NEW s, SignalMask(t, s) PROVE <1>3
    BY <2>7 DEF SignalMask, vars, objVars
  <2>8. ASSUME NEW s, SignalUnmask(t, s) PROVE <1>3
    BY <1>1, <2>8 DEF SignalUnmask, SigCall, Goto, GoStep, OnlyGoes, OfThreads, NoKill
  <2> QED BY <2>1, <2>2, <2>3, <2>4, <2>5, <2>6, <2>7, <2>8
<1>4. CASE pc' = pc /\ step' = step /\ kill' = kill
  BY <1>1, <1>4, LabelsStay DEF OnlyGoes, OfThreads
<1>5. CASE ~(pc' = pc /\ step' = step /\ kill' = kill)
  <2>1. t \notin Linking /\ t \notin Linking'
    BY <1>3, <1>5 DEF Linking
  <2> QED BY <1>1, <1>3, <1>5, <2>1, LabelsPlain DEF NodeCall, KillCall
<1> QED BY <1>4, <1>5

(* Those steps keep the nodes.                                             *)
LEMMA CallNodes ==
  ASSUME NodesInv, NEW t \in Thread, work' = work, Own(t),
         \/ \E to \in work.sent : KillStart(t, to[1], to[2])
         \/ KillFind(t) \/ KillTest(t) \/ KillDeliver(t) \/ SignalWoken(t)
         \/ \E set, time : SignalWait(t, set, time)
         \/ \E s : SignalMask(t, s) /\ UNCHANGED step
         \/ \E s : SignalUnmask(t, s)
  PROVE  NodesInv'
<1>1. Labels' /\ Linking' = Linking
  BY CallGoes
<1>2. FramesOK /\ si_list \in Lists0 /\ free_nodes \in Int
  BY DEF NodesInv
<1>3. Top(t) = "own" /\ "check" \notin Sig /\ "own" \notin Sig
  BY TopFacts, <1>2 DEF Own, Top
<1>4. /\ FramesOK' /\ Handlers' = Handlers
  <2>1. CASE frames' = frames /\ sig_ret' = sig_ret
    BY <1>2, <2>1, FramesStay
  <2>2. CASE frames' = SetTop(t, "check") /\ sig_ret' = sig_ret
    <3>1. /\ FramesOK'
          /\ Handlers' = Handlers + (IF "check" \in Sig THEN 1 ELSE 0)
                                  - (IF Top(t) \in Sig THEN 1 ELSE 0)
      BY <1>2, <2>2, TopChanges
    <3>2. Handlers \in Nat
      BY HandlingFinite DEF Handlers
    <3> QED BY <1>3, <3>1, <3>2
  <2>3. ASSUME NEW u \in Thread, PushFrame(u)
        PROVE  FramesOK' /\ Handlers' = Handlers
    BY <1>2, <2>3, FramePushed
  <2>4. ASSUME KillDeliver(t)
        PROVE  \/ frames' = frames /\ sig_ret' = sig_ret
               \/ frames' = SetTop(t, "check") /\ sig_ret' = sig_ret
               \/ \E u \in Thread : PushFrame(u)
    <3>1. kill[t].to \in Thread
      BY <2>4 DEF NodesInv, Labels, KillCall, KillDeliver, AtStep
    <3> QED BY <2>4, <3>1 DEF KillDeliver
  <2>5. ASSUME KillFind(t)
        PROVE  (frames' = frames \/ frames' = SetTop(t, "check")) /\ sig_ret' = sig_ret
    BY <2>5 DEF KillFind
  <2> QED BY <2>1, <2>2, <2>3, <2>4, <2>5 DEF KillStart, KillTest, SignalWoken, SignalWait,
         SignalMask, SignalUnmask
<1>5. \/ UNCHANGED nodes
      \/ UNCHANGED <<si_list, free_nodes>>
      \/ \E set, k0 : TakeSignal(t, set, k0)
  BY DEF KillStart, KillFind, KillTest, KillDeliver, SignalWoken, SignalWait,
         SignalMask, SignalUnmask, nodes
<1>6. CASE UNCHANGED <<si_list, free_nodes>>
  BY <1>1, <1>4, <1>6, NodesStay
<1>7. ASSUME NEW set, NEW k0, TakeSignal(t, set, k0)
      PROVE  NodesInv'
  <2>1. /\ si_list' \in Lists0 /\ free_nodes' \in Int
        /\ free_nodes' + InTheLists' = free_nodes + InTheLists
    BY <1>2, <1>7, TakeSignalFacts
  <2>2. free_nodes' + InTheLists' + Handlers' = free_nodes + InTheLists + Handlers
    BY <1>4, <2>1
  <2> QED BY <1>1, <1>4, <2>1, <2>2, Balance
<1> QED BY <1>5, <1>6, <1>7 DEF nodes

(* rt_mp_alloc takes a node off the pool, if there is one.                 *)
LEMMA AllocNodes ==
  ASSUME NodesInv, NEW t \in Thread, work' = work, KillAlloc(t)
  PROVE  NodesInv'
<1> DEFINE c == Cardinality(Linking)
           h == Handlers
           l == InTheLists
<1>1. /\ Labels /\ FramesOK /\ OfThreads(pc) /\ OfThreads(step) /\ OfThreads(kill)
      /\ free_nodes \in Int /\ si_list \in Lists0
  BY DEF NodesInv, Labels
<1>2. /\ OnlyGoes(t) /\ pc'[t] = "waited" /\ kill' = kill /\ t \notin Linking
      /\ KillCall(t) /\ NodeCall(t)
      /\ step'[t] = IF free_nodes > 0 THEN "kill_link" ELSE "kill_test"
      /\ free_nodes' = IF free_nodes > 0 THEN free_nodes - 1 ELSE free_nodes
  BY <1>1 DEF KillAlloc, AtStep, GoStep, OnlyGoes, OfThreads, Linking, KillCall, NodeCall, vars
<1>3. Labels' /\ Linking' \ {t} = Linking \ {t}
  <2>1. OfThreads(kill') /\ \A u \in Thread \ {t} : kill'[u] = kill[u]
    BY <1>1, <1>2 DEF OfThreads
  <2>2. kill'[t].to \in Thread /\ kill'[t].sig \in Sig
    BY <1>1, <1>2 DEF Labels
  <2> QED BY <1>1, <1>2, <2>1, <2>2, LabelsGo
<1>4. FramesOK' /\ Handlers' = h /\ si_list' = si_list
  BY <1>1, FramesStay DEF KillAlloc
<1>5. CASE free_nodes > 0
  <2>1. Linking' = Linking \cup {t}
    BY <1>2, <1>3, <1>5 DEF Linking
  <2>2. IsFiniteSet(Linking) /\ c \in Nat
    <3>1. Linking \subseteq Thread
      BY DEF Linking
    <3> QED BY <3>1, ThreadsFinite, FS_Subset, FS_CardinalityType
  <2>3. Cardinality(Linking)' = c + 1
    BY <1>2, <2>1, <2>2, FS_AddElement
  <2>4. l \in Int /\ h \in Int
    BY <1>1, ListsChange, HandlingFinite DEF InTheLists, Handlers
  <2>5. Nodes = free_nodes + l + c + h /\ Nodes' = (free_nodes - 1) + l + (c + 1) + h
    BY <1>2, <1>4, <1>5, <2>3 DEF Nodes, InTheLists, Handlers
  <2> HIDE DEF l, c, h
  <2>6. Nodes' = Nodes /\ free_nodes' \in Int
    BY <1>1, <1>2, <2>2, <2>4, <2>5
  <2> QED BY <1>3, <1>4, <2>6 DEF NodesInv
<1>6. CASE ~(free_nodes > 0)
  <2>1. Linking' = Linking
    BY <1>2, <1>3, <1>6 DEF Linking
  <2> QED BY <1>2, <1>3, <1>4, <1>6, <2>1, NodesStay
<1> QED BY <1>5, <1>6

(* The node in hand is linked.                                             *)
LEMMA LinkNodes ==
  ASSUME NodesInv, NEW t \in Thread, work' = work, KillLink(t)
  PROVE  NodesInv'
<1> DEFINE c == Cardinality(Linking)
           h == Handlers
           l == InTheLists
           u == kill[t].to
           s == Append(si_list[u], kill[t].sig)
<1>1. /\ Labels /\ FramesOK /\ OfThreads(pc) /\ OfThreads(step) /\ OfThreads(kill)
      /\ free_nodes \in Int /\ si_list \in Lists0
  BY DEF NodesInv, Labels
<1>2. /\ OnlyGoes(t) /\ pc'[t] = "waited" /\ kill' = kill /\ t \in Linking /\ t \notin Linking'
      /\ KillCall(t) /\ NodeCall(t) /\ step'[t] = "kill_test" /\ free_nodes' = free_nodes
      /\ si_list' = [si_list EXCEPT ![u] = s]
  BY <1>1 DEF KillLink, AtStep, GoStep, OnlyGoes, OfThreads, Linking, KillCall, NodeCall, vars
<1>3. /\ u \in Thread /\ kill[t].sig \in Sig
  BY <1>1, <1>2 DEF Labels
<1>4. Labels' /\ Linking' \ {t} = Linking \ {t}
  <2>1. OfThreads(kill') /\ \A v \in Thread \ {t} : kill'[v] = kill[v]
    BY <1>1, <1>2 DEF OfThreads
  <2>2. kill'[t].to \in Thread /\ kill'[t].sig \in Sig
    BY <1>2, <1>3
  <2> QED BY <1>1, <1>2, <2>1, <2>2, LabelsGo
<1>5. FramesOK' /\ Handlers' = h
  BY <1>1, FramesStay DEF KillLink
<1>6. si_list[u] \in Seq(Sig) /\ s \in Seq(Sig) /\ Len(s) = Len(si_list[u]) + 1
      /\ Len(si_list[u]) \in Nat
  BY <1>1, <1>3, AppendProperties, LenProperties DEF Lists0
<1> HIDE DEF s
<1>7. si_list' \in Lists0 /\ l \in Int /\ InTheLists' = l - Len(si_list[u]) + Len(s)
  BY <1>1, <1>2, <1>3, <1>6, ListIs
<1>8. Cardinality(Linking)' = c - 1 /\ c \in Nat
  <2>1. Linking' = Linking \ {t} /\ Linking \subseteq Thread
    BY <1>2, <1>4 DEF Linking
  <2>2. IsFiniteSet(Linking) /\ c \in Nat
    BY <2>1, ThreadsFinite, FS_Subset, FS_CardinalityType
  <2> QED BY <1>2, <2>1, <2>2, FS_RemoveElement
<1>9. h \in Int
  BY HandlingFinite DEF Handlers
<1>10. Nodes = free_nodes + l + c + h /\ Nodes' = free_nodes + InTheLists' + (c - 1) + h
  BY <1>2, <1>5, <1>8 DEF Nodes, InTheLists, Handlers
<1>11. InTheLists' = l + 1
  <2> DEFINE n == Len(si_list[u])
  <2>1. InTheLists' = l - n + (n + 1) /\ n \in Nat /\ l \in Int
    BY <1>6, <1>7
  <2> HIDE DEF l, n
  <2>2. l - n + (n + 1) = l + 1
    BY <2>1
  <2> QED BY <2>1, <2>2
<1>12. Nodes' = Nodes
  <2>1. Nodes = free_nodes + l + c + h /\ Nodes' = free_nodes + (l + 1) + (c - 1) + h
    BY <1>10, <1>11
  <2>2. l \in Int /\ c \in Int /\ h \in Int /\ free_nodes \in Int
    BY <1>1, <1>7, <1>8, <1>9
  <2> HIDE DEF l, c, h
  <2>3. free_nodes + (l + 1) + (c - 1) + h = free_nodes + l + c + h
    BY <2>2
  <2> QED BY <2>1, <2>3
<1> QED BY <1>1, <1>2, <1>4, <1>5, <1>7, <1>12 DEF NodesInv

(* Handling in an interrupt takes nodes from the front of the list.        *)
LEMMA HandledFacts ==
  ASSUME NEW u, NEW pending, NEW list \in Seq(Sig)
  PROVE  LET r == Handled(u, pending, list)
         IN  /\ r.list \in Seq(Sig) /\ r.count \in Int
             /\ Len(r.list) = Len(list) - r.count
<1> DEFINE Left(g) == g = [n \in 0 .. Len(list) |->
                             IF n = 0 THEN pending ELSE g[n - 1] \ {list[n]}]
           f == CHOOSE g : Left(g)
           enough(n) == n = Len(list) \/ f[n] \cap sig_mask[u] = {}
           taken == CHOOSE n \in 0 .. Len(list) : enough(n) /\ \A m \in 0 .. n - 1 : ~enough(m)
<1>1. /\ Handled(u, pending, list).list = SubSeq(list, taken + 1, Len(list))
      /\ Handled(u, pending, list).count = taken
  BY DEF Handled
<1> HIDE DEF f
<1>2. Len(list) \in Nat /\ \A i \in 1 .. Len(list) : list[i] \in Sig
  BY LenProperties, ElementOfSeq
<1>3. taken \in 0 .. Len(list)
  <2> DEFINE S == {n \in 0 .. Len(list) : enough(n)}
  <2>1. S \subseteq Nat /\ S # {}
    BY <1>2
  <2>2. PICK n \in S : \A m \in S : n <= m
    BY <2>1, LeastElement
  <2>3. \A m \in 0 .. n - 1 : ~enough(m)
    BY <1>2, <2>2
  <2> HIDE DEF enough
  <2>4. \E i \in 0 .. Len(list) : enough(i) /\ \A m \in 0 .. i - 1 : ~enough(m)
    BY <2>2, <2>3
  <2> QED BY <2>4
<1> HIDE DEF taken
<1>4. /\ taken + 1 \in Nat /\ Len(list) \in Nat /\ taken + 1 <= Len(list) + 1
      /\ Len(list) - (taken + 1) + 1 = Len(list) - taken
  BY <1>2, <1>3
<1>5. \A i \in taken + 1 .. Len(list) : list[i] \in Sig
  BY <1>2, <1>3
<1>6. /\ SubSeq(list, taken + 1, Len(list)) \in Seq(Sig)
      /\ Len(SubSeq(list, taken + 1, Len(list))) = Len(list) - (taken + 1) + 1
  BY ONLY <1>4, <1>5, PartLength
<1>7. taken \in Int
  BY <1>2, <1>3
<1> DEFINE r == Handled(u, pending, list)
<1>8. r.list \in Seq(Sig) /\ r.count \in Int /\ Len(r.list) = Len(list) - r.count
  BY <1>1, <1>4, <1>6, <1>7
<1> QED BY <1>8

(* All of rt_thread_kill in an interrupt                                   *)
LEMMA IsrNodes ==
  ASSUME NodesInv, NEW u \in Thread, NEW s \in Sig, work' = work, KillIsr(u, s), UNCHANGED objVars
  PROVE  NodesInv'
<1> DEFINE linked == IF free_nodes > 0 THEN 1 ELSE 0
           list == si_list[u] \o [i \in 1 .. linked |-> s]
           pending == sig_pending[u] \cup {s}
           h == Handlers
           l == InTheLists
<1>1. /\ Labels' /\ Linking' = Linking
      /\ FramesOK /\ free_nodes \in Int /\ si_list \in Lists0
  <2>1. pc' = pc /\ step' = step /\ kill' = kill
    BY DEF KillIsr, objVars
  <2> QED BY <2>1, LabelsStay DEF NodesInv
<1>2. h \in Int /\ l \in Int
  BY <1>1, ListsChange, HandlingFinite DEF InTheLists, Handlers
<1>3. linked \in Nat /\ si_list[u] \in Seq(Sig) /\ Len(si_list[u]) \in Nat
  BY <1>1, LenProperties DEF Lists0
<1> HIDE DEF linked
<1>4. list \in Seq(Sig) /\ Len(list) = Len(si_list[u]) + linked
  <2>1. [i \in 1 .. linked |-> s] \in Seq(Sig) /\ Len([i \in 1 .. linked |-> s]) = linked
    <3>1. [i \in 1 .. linked |-> s] \in [1 .. linked -> Sig]
      OBVIOUS
    <3> QED BY <1>3, <3>1
  <2> HIDE DEF linked
  <2> QED BY <1>3, <2>1, ConcatProperties
<1> HIDE DEF list, pending
<1>5. FramesOK' /\ Handlers' = h
  <2>1. CASE frames' = frames /\ sig_ret' = sig_ret
    BY <1>1, <2>1, FramesStay
  <2>2. CASE PushFrame(u)
    BY <1>1, <2>2, FramePushed
  <2> QED BY <2>1, <2>2 DEF KillIsr, IsrDeliver
<1>6. \/ si_list' = si_list /\ free_nodes' = free_nodes
      \/ \E new \in Seq(Sig), n \in Int :
           /\ si_list' = [si_list EXCEPT ![u] = new]
           /\ free_nodes' = (free_nodes - linked) + n
           /\ Len(new) = Len(list) - n
  <2>1. CASE UNCHANGED nodes
    BY <2>1 DEF nodes
  <2>2. CASE si_list' = [si_list EXCEPT ![u] = list] /\ free_nodes' = free_nodes - linked
    <3>1. 0 \in Int /\ free_nodes - linked = (free_nodes - linked) + 0 /\ Len(list) = Len(list) - 0
      BY <1>1, <1>3, <1>4, LenProperties
    <3> QED BY <1>4, <2>2, <3>1
  <2>3. ASSUME NEW r, r.list \in Seq(Sig), r.count \in Int, Len(r.list) = Len(list) - r.count,
               si_list' = [si_list EXCEPT ![u] = r.list],
               free_nodes' = free_nodes - linked + r.count
        PROVE  <1>6
    BY <2>3
  <2> DEFINE r1 == Handled(u, pending, list)
             r2 == [pending |-> pending, list |-> list, count |-> 0]
  <2>4. r1.list \in Seq(Sig) /\ r1.count \in Int /\ Len(r1.list) = Len(list) - r1.count
    BY <1>4, HandledFacts
  <2>5. r2.list \in Seq(Sig) /\ r2.count \in Int /\ Len(r2.list) = Len(list) - r2.count
    BY <1>4, LenProperties
  <2> HIDE DEF r1, r2
  <2>6. \/ UNCHANGED nodes
        \/ si_list' = [si_list EXCEPT ![u] = list] /\ free_nodes' = free_nodes - linked
        \/ si_list' = [si_list EXCEPT ![u] = r1.list] /\ free_nodes' = free_nodes - linked + r1.count
        \/ si_list' = [si_list EXCEPT ![u] = r2.list] /\ free_nodes' = free_nodes - linked + r2.count
    BY DEF KillIsr, IsrDeliver, linked, list, pending, r1, r2
  <2> QED BY <2>1, <2>2, <2>3, <2>4, <2>5, <2>6
<1>7. CASE si_list' = si_list /\ free_nodes' = free_nodes
  BY <1>1, <1>5, <1>7, NodesStay
<1>8. ASSUME NEW new \in Seq(Sig), NEW n \in Int,
             si_list' = [si_list EXCEPT ![u] = new],
             free_nodes' = (free_nodes - linked) + n,
             Len(new) = Len(list) - n
      PROVE  NodesInv'
  <2>1. si_list' \in Lists0 /\ InTheLists' = l - Len(si_list[u]) + Len(new)
    BY <1>1, <1>8, ListIs
  <2> DEFINE more == n - linked
             len == Len(si_list[u])
  <2>2. Len(new) = Len(list) - n /\ Len(list) = len + linked /\ len \in Int /\ l \in Int
    BY <1>2, <1>3, <1>4, <1>8
  <2> HIDE DEF l, h, len
  <2>3. more \in Int /\ free_nodes' = free_nodes + more
    BY <1>1, <1>3, <1>8
  <2>4. l - len + ((len + linked) - n) = l - more
    BY <1>3, <2>2
  <2>5. (l - more) + h = l + h - more
    BY <1>2, <2>3
  <2>6. InTheLists' + Handlers' = l + h - more
    <3>1. InTheLists' = l - len + Len(new) /\ Len(new) = (len + linked) - n
      BY <2>1, <2>2 DEF len
    <3> QED BY <1>5, <2>4, <2>5, <3>1
  <2> HIDE DEF more
  <2> QED BY <1>1, <1>5, <2>1, <2>3, <2>6, BalanceOf DEF l, h
<1> QED BY <1>6, <1>7, <1>8

-----------------------------------------------------------------------------
(* The nodes of the pool.                                                  *)

LEMMA NoNodes ==
  ASSUME NEW l \in Lists0, \A t \in Thread : l[t] = << >>
  PROVE  InLists(l) = 0
<1> DEFINE f == Lengths(l)
           jt == [S \in SUBSET Thread |-> 0]
<1>1. f \in [Thread -> Int] /\ \A t \in Thread : f[t] = 0
  BY ListsSum DEF Lengths
<1>2. PICK it : Sums(f, Thread, it) /\ InLists(l) = it[Thread]
  BY ListsSum
<1>3. Adds(f, Thread, jt)
  <2> SUFFICES ASSUME NEW S \in SUBSET Thread
               PROVE  jt[S] = IF S = {} THEN 0 ELSE f[Some(S)] + jt[S \ {Some(S)}]
    BY DEF Adds
  <2>1. CASE S # {}
    <3>1. Some(S) \in Thread /\ S \ {Some(S)} \in SUBSET Thread
      BY <2>1, ThreadsFinite, SmallerSets
    <3>2. f[Some(S)] = 0 /\ jt[S \ {Some(S)}] = 0 /\ jt[S] = 0
      BY <1>1, <3>1
    <3> QED BY <2>1, <3>2
  <2> QED BY <2>1
<1> HIDE DEF f
<1>4. jt[Thread] = it[Thread]
  <2> HIDE DEF jt
  <2> QED BY <1>1, <1>2, <1>3, ThreadsFinite, SumsUnique
<1> QED BY <1>2, <1>4

LEMMA StartNodes ==
  ASSUME SignalsInit PROVE NodesInv
<1>1. /\ pc = [t \in Thread |-> "app"] /\ step = [t \in Thread |-> "none"]
      /\ kill = [t \in Thread |-> NoKill] /\ free_nodes = SigInfoMax /\ work \in Works
      /\ si_list = [t \in Thread |-> << >>]
      /\ frames = [t \in Thread |-> <<"own">>] /\ sig_ret = [t \in Thread |-> 0]
  BY DEF SignalsInit, MutexInit, ObjStart, Init
<1>2. SigInfoMax \in Nat /\ MaxFrame \in Nat \ {0} /\ "own" \notin Sig
  BY SignalAssumption
<1>3. Labels
  BY <1>1 DEF Labels, OfThreads, KillCall, NodeCall
<1>4. FramesOK
  BY <1>1, <1>2 DEF FramesOK, Frames, OfThreads
<1>5. si_list \in Lists0 /\ InLists(si_list) = 0
  <2>1. << >> \in Seq(Sig)
    OBVIOUS
  <2>2. si_list \in Lists0 /\ \A t \in Thread : si_list[t] = << >>
    BY <1>1, <2>1 DEF Lists0
  <2> QED BY <2>2, NoNodes
<1>6. Cardinality(Linking) = 0 /\ Cardinality(Handling(frames)) = 0
  <2>1. Linking = {}
    BY <1>1 DEF Linking
  <2>2. Handling(frames) = {}
    BY <1>1, <1>2 DEF Handling
  <2> QED BY <2>1, <2>2, FS_EmptySet
<1>7. Nodes = SigInfoMax
  BY <1>1, <1>2, <1>5, <1>6 DEF Nodes
<1> QED BY <1>1, <1>2, <1>3, <1>4, <1>5, <1>7 DEF NodesInv

LEMMA NextNodes ==
  ASSUME NodesInv, "create" \notin Ops, [SignalsNext]_<<vars, objVars, mutexVars, sigVars, work>>
  PROVE  NodesInv'
<1> DEFINE Same == UNCHANGED <<si_list, free_nodes, frames, sig_ret, kill>>
<1>1. Labels /\ FramesOK /\ work \in Works
  BY DEF NodesInv
<1>2. work' = work
  BY DEF SignalsNext
<1>3. ASSUME UNCHANGED sigVars, Labels', Linking' = Linking PROVE NodesInv'
  <2>1. FramesOK' /\ Handlers' = Handlers /\ si_list' = si_list /\ free_nodes' = free_nodes
    BY <1>1, <1>3, FramesStay DEF sigVars
  <2> QED BY <1>2, <1>3, <2>1, NodesStay
<1>4. ASSUME UNCHANGED sigVars, pc' = pc, step' = step PROVE NodesInv'
  <2>1. Labels' /\ Linking' = Linking
    BY <1>1, <1>4, LabelsStay DEF sigVars
  <2> QED BY <1>3, <1>4, <2>1
<1>5. CASE Halt /\ UNCHANGED sigVars
  BY <1>4, <1>5 DEF Halt, vars, objVars
<1>6. CASE UNCHANGED <<vars, objVars, mutexVars, sigVars, work>>
  BY <1>4, <1>6 DEF vars, objVars
<1>7. CASE (Start \/ Interrupt) /\ UNCHANGED <<objVars, sigVars>>
  BY <1>4, <1>7 DEF Start, Interrupt, ClockEnter, ClockLeave, Expire, DeviceResume, objVars
<1>8. ASSUME NEW to \in work.sent, KillIsr(to[1], to[2]), UNCHANGED objVars PROVE NodesInv'
  <2>1. to[1] \in Thread /\ to[2] \in Sig
    BY <1>1, <1>8, SignalAssumption
  <2> QED BY <1>2, <1>8, <2>1, IsrNodes
<1>9. ASSUME NEW t \in Thread, SignalStep(t) PROVE NodesInv'
  <2>1. CASE (HandleCheck(t) \/ HandleNext(t) \/ SignalEntryEnd(t)) /\ UNCHANGED objVars
    BY <1>2, <2>1, HandleNodes
  <2>2. CASE KillAlloc(t)
    BY <1>2, <2>2, AllocNodes
  <2>3. CASE KillLink(t)
    BY <1>2, <2>3, LinkNodes
  <2>4. CASE ~(KillAlloc(t) \/ KillLink(t))
             /\ ~((HandleCheck(t) \/ HandleNext(t) \/ SignalEntryEnd(t)) /\ UNCHANGED objVars)
    <3>1. Own(t)
      BY <1>9, <2>4 DEF SignalStep
    <3>2. \/ \E to \in work.sent : KillStart(t, to[1], to[2])
          \/ KillFind(t) \/ KillTest(t) \/ KillDeliver(t) \/ SignalWoken(t)
          \/ \E set, time : SignalWait(t, set, time)
          \/ \E s : SignalMask(t, s) /\ UNCHANGED step
          \/ \E s : SignalUnmask(t, s)
      <4>1. \A s : SignalMask(t, s) => UNCHANGED step
        BY DEF SignalMask, objVars
      <4> QED BY <1>9, <2>4, <4>1 DEF SignalStep
    <3> QED BY <1>2, <3>1, <3>2, CallNodes
  <2> QED BY <2>1, <2>2, <2>3, <2>4
<1>10. ASSUME NEW t \in Thread, OwnStep(t), UNCHANGED objVars PROVE NodesInv'
  <2>1. Labels' /\ Linking' = Linking
    BY <1>1, <1>10, KernelLabels DEF OwnStep, objVars
  <2>2. Top(t) = "own" /\ "check" \notin Sig /\ "own" \notin Sig
    BY <1>1, <1>10, TopFacts DEF OwnStep, Own, Top
  <2>3. FramesOK' /\ Handlers' = Handlers
    <3>1. CASE frames' = frames
      BY <1>1, <1>10, <3>1, FramesStay DEF OwnStep
    <3>2. CASE frames' = SetTop(t, "check")
      <4>1. /\ FramesOK'
            /\ Handlers' = Handlers + (IF "check" \in Sig THEN 1 ELSE 0)
                                    - (IF Top(t) \in Sig THEN 1 ELSE 0)
        BY <1>1, <1>10, <3>2, TopChanges DEF OwnStep
      <4>2. Handlers \in Nat
        BY HandlingFinite DEF Handlers
      <4> QED BY <2>2, <4>1, <4>2
    <3> QED BY <1>10, <3>1, <3>2 DEF OwnStep
  <2> QED BY <1>2, <1>10, <2>1, <2>3, NodesStay DEF OwnStep, nodes
<1>11. ASSUME NEW t \in Thread, MutexStep(t), UNCHANGED sigVars PROVE NodesInv'
  <2>1. Labels' /\ Linking' = Linking
    BY <1>1, <1>11, MutexLabels DEF sigVars
  <2> QED BY <1>3, <1>11, <2>1
<1> QED BY <1>5, <1>6, <1>7, <1>8, <1>9, <1>10, <1>11 DEF SignalsNext

LEMMA SignalsInvariant == ASSUME "create" \notin Ops PROVE SignalsSpec => []NodesInv
BY StartNodes, NextNodes, PTL DEF SignalsSpec

(* The nodes of _rt_siginfo_pool are neither lost nor released twice,      *)
(* whichever threads and interrupts send signals and whichever frames      *)
(* handle them.  A thread object that rt_thread_init sets up anew is left  *)
(* out: it forgets the node that its last life was about to link.          *)
THEOREM NodesAreConserved ==
  ASSUME "create" \notin Ops PROVE SignalsSpec => []NodesConserved
<1>1. NodesInv => NodesConserved
  BY NodesAre DEF NodesInv
<1> QED BY <1>1, SignalsInvariant, PTL

-----------------------------------------------------------------------------
(* What the functions of the kernel do to the states of threads.           *)

(* As much of the kernel's type as is needed here                          *)
Shape(k0) == "stat" \in DOMAIN k0 /\ DOMAIN k0.stat = Thread

(* Nobody but the threads in U is newly suspended or set up.               *)
Keeps(k0, k1, U) ==
  /\ Shape(k1)
  /\ \A t \in Thread \ U : k1.stat[t] \in {"suspend", "init"} => k1.stat[t] = k0.stat[t]

LEMMA KeepsTwice ==
  ASSUME NEW k0, NEW k1, NEW k2, NEW U, Keeps(k0, k1, U), Keeps(k1, k2, U)
  PROVE  Keeps(k0, k2, U)
BY DEF Keeps

LEMMA KeepsMore ==
  ASSUME NEW k0, NEW k1, NEW U, Keeps(k0, k1, {}) PROVE Keeps(k0, k1, U)
BY DEF Keeps

LEMMA SameStats ==
  ASSUME NEW k0, Shape(k0), NEW k1, DOMAIN k1 = DOMAIN k0, k1.stat = k0.stat
  PROVE  Keeps(k0, k1, {})
BY DEF Keeps, Shape

LEMMA Kept ==
  ASSUME NEW k0, Shape(k0), NEW t, NEW p
  PROVE  /\ Keeps(k0, Schedule(k0), {}) /\ Keeps(k0, InsertThread(k0, t), {})
         /\ Keeps(k0, RemoveThread(k0, t), {}) /\ Keeps(k0, Rotate(k0, t), {})
         /\ Keeps(k0, EnterCritical(k0), {}) /\ Keeps(k0, LeaveCritical(k0), {})
         /\ Keeps(k0, StartTimer(k0, t), {}) /\ Keeps(k0, StopTimer(k0, t), {})
         /\ Keeps(k0, Renumber(k0, t, p), {}) /\ Keeps(k0, SetError(k0, t, p), {})
         /\ Keeps(k0, Close(k0, t), {}) /\ Keeps(k0, [k0 EXCEPT !.stat[t] = "close"], {})
         /\ Keeps(k0, [k0 EXCEPT !.list = Unlink(@, t)], {})
         /\ Keeps(k0, [k0 EXCEPT !.stat[t] = "suspend"], {t})
         /\ Keeps(k0, PrepareStartup(k0, t), {t})
         /\ Keeps(k0, [k0 EXCEPT !.asserted = TRUE], {})
<1>1. Keeps(k0, Schedule(k0), {})
  BY SameStats DEF Schedule, Shape
<1>2. Keeps(k0, InsertThread(k0, t), {})
  BY DEF Keeps, InsertThread, Shape
<1>3. Keeps(k0, RemoveThread(k0, t), {})
  BY SameStats DEF RemoveThread, Shape
<1>4. Keeps(k0, Rotate(k0, t), {})
  BY SameStats DEF Rotate, Shape
<1>5. Keeps(k0, EnterCritical(k0), {}) /\ Keeps(k0, LeaveCritical(k0), {})
  BY SameStats DEF EnterCritical, LeaveCritical, Shape
<1>6. Keeps(k0, StartTimer(k0, t), {}) /\ Keeps(k0, StopTimer(k0, t), {})
  BY SameStats DEF StartTimer, StopTimer, Shape
<1>7. Keeps(k0, Renumber(k0, t, p), {}) /\ Keeps(k0, SetError(k0, t, p), {})
  BY SameStats DEF Renumber, SetError, Shape
<1>8. Keeps(k0, Close(k0, t), {}) /\ Keeps(k0, [k0 EXCEPT !.stat[t] = "close"], {})
  BY DEF Keeps, Close, Shape
<1>9. Keeps(k0, [k0 EXCEPT !.list = Unlink(@, t)], {}) /\ Keeps(k0, [k0 EXCEPT !.asserted = TRUE], {})
  BY SameStats DEF Shape
<1>10. Keeps(k0, [k0 EXCEPT !.stat[t] = "suspend"], {t}) /\ Keeps(k0, PrepareStartup(k0, t), {t})
  BY DEF Keeps, PrepareStartup, Shape
<1> QED BY <1>1, <1>2, <1>3, <1>4, <1>5, <1>6, <1>7, <1>8, <1>9, <1>10

LEMMA ReadyKept ==
  ASSUME NEW k0, Shape(k0), NEW t
  PROVE  Keeps(k0, MakeReady(k0, t), {}) /\ Keeps(k0, Resume(k0, t), {})
<1> DEFINE k1 == [k0 EXCEPT !.list = Unlink(@, t)]
<1>1. Keeps(k0, k1, {})
  BY Kept
<1>2. Shape(k1) /\ Keeps(k0, k0, {})
  BY <1>1 DEF Keeps
<1> HIDE DEF k1
<1>3. Keeps(k1, InsertThread(k1, t), {})
  BY <1>2, Kept
<1>4. Keeps(k0, MakeReady(k0, t), {})
  BY <1>1, <1>3, KeepsTwice DEF MakeReady, k1
<1> QED BY <1>2, <1>4 DEF Resume

LEMMA KeptByCalls ==
  ASSUME NEW k0, Shape(k0), NEW t, NEW p, NEW w, NEW f
  PROVE  /\ Keeps(k0, ChangePriority(k0, t, p), {})
         /\ Keeps(k0, Timeout(k0, t), {}) /\ Keeps(k0, TimeSlice(k0), {})
         /\ Keeps(k0, Suspend(k0, t), {t}) /\ Keeps(k0, IpcSuspend(k0, w, t, f), {t})
         /\ Keeps(k0, IpcResume(k0, w), {}) /\ Keeps(k0, DrainOne(k0, w), {})
<1>1. \A k1, U : Keeps(k0, k1, U) => Shape(k1)
  BY DEF Keeps
<1>2. Keeps(k0, ChangePriority(k0, t, p), {})
  <2> DEFINE k1 == RemoveThread(k0, t)
             k2 == Renumber(k1, t, p)
  <2>1. Keeps(k0, k1, {}) /\ Shape(k1)
    BY Kept, <1>1
  <2> HIDE DEF k1
  <2>2. Keeps(k1, k2, {})
    BY <2>1, Kept
  <2>3. Keeps(k0, k2, {}) /\ Shape(k2)
    BY <2>1, <2>2, KeepsTwice, <1>1
  <2> HIDE DEF k2
  <2>4. Keeps(k2, InsertThread(k2, t), {})
    BY <2>3, Kept
  <2>5. Keeps(k0, InsertThread(k2, t), {}) /\ Keeps(k0, Renumber(k0, t, p), {})
    BY <2>3, <2>4, KeepsTwice, Kept
  <2> QED BY <2>5 DEF ChangePriority, k2, k1
<1>3. Keeps(k0, Timeout(k0, t), {})
  <2> DEFINE k1 == MakeReady(k0, t)
             k2 == [k1 EXCEPT !.asserted = @ \/ k0.stat[t] # "suspend",
                              !.error[t] = "ETIMEOUT",
                              !.timer[t] = FALSE]
  <2>1. Keeps(k0, k1, {}) /\ Shape(k1)
    BY <1>1, ReadyKept
  <2> HIDE DEF k1
  <2>2. Keeps(k1, k2, {})
    BY <2>1, SameStats DEF Shape
  <2>3. Keeps(k0, k2, {}) /\ Shape(k2)
    BY <2>1, <2>2, KeepsTwice, <1>1
  <2> HIDE DEF k2
  <2>4. Keeps(k2, Schedule(k2), {})
    BY <2>3, Kept
  <2> QED BY <2>3, <2>4, KeepsTwice DEF Timeout, k2, k1
<1>4. Keeps(k0, TimeSlice(k0), {})
  <2> DEFINE k1 == [k0 EXCEPT !.slice[k0.cur] = InitTick]
             k2 == Rotate(k1, k0.cur)
  <2>1. Keeps(k0, k1, {}) /\ Shape(k1) /\ Keeps(k0, [k0 EXCEPT !.slice[k0.cur] = @ - 1], {})
    BY SameStats DEF Shape
  <2> HIDE DEF k1
  <2>2. Keeps(k1, k2, {})
    BY <2>1, Kept
  <2>3. Keeps(k0, k2, {}) /\ Shape(k2)
    BY <2>1, <2>2, KeepsTwice, <1>1
  <2> HIDE DEF k2
  <2>4. Keeps(k2, Schedule(k2), {})
    BY <2>3, Kept
  <2>5. Keeps(k0, Schedule(k2), {})
    BY <2>3, <2>4, KeepsTwice
  <2> QED BY <2>1, <2>5 DEF TimeSlice, k2, k1
<1>5. Keeps(k0, Suspend(k0, t), {t})
  <2> DEFINE k1 == [k0 EXCEPT !.stat[t] = "suspend"]
             k2 == RemoveThread(k1, t)
  <2>1. Keeps(k0, k1, {t}) /\ Shape(k1)
    BY Kept, <1>1
  <2> HIDE DEF k1
  <2>2. Keeps(k1, k2, {t})
    BY <2>1, Kept, KeepsMore
  <2>3. Keeps(k0, k2, {t}) /\ Shape(k2)
    BY <2>1, <2>2, KeepsTwice, <1>1
  <2> HIDE DEF k2
  <2>4. Keeps(k2, StopTimer(k2, t), {t})
    BY <2>3, Kept, KeepsMore
  <2> QED BY <2>3, <2>4, KeepsTwice DEF Suspend, k2, k1
<1>6. Keeps(k0, IpcSuspend(k0, w, t, f), {t})
  <2> DEFINE k1 == Suspend(k0, t)
  <2>1. Shape(k1)
    BY <1>1, <1>5
  <2> HIDE DEF k1
  <2>2. DOMAIN IpcSuspend(k0, w, t, f) = DOMAIN k1 /\ IpcSuspend(k0, w, t, f).stat = k1.stat
    BY <2>1 DEF IpcSuspend, k1, Shape
  <2>3. Keeps(k1, IpcSuspend(k0, w, t, f), {t})
    BY <2>1, <2>2, SameStats, KeepsMore
  <2> QED BY <1>5, <2>3, KeepsTwice DEF k1
<1>7. Keeps(k0, IpcResume(k0, w), {})
  BY ReadyKept DEF IpcResume
<1>8. Keeps(k0, DrainOne(k0, w), {})
  <2> DEFINE k1 == SetError(k0, Head(k0.list[w]), "ERROR")
  <2>1. Keeps(k0, k1, {}) /\ Shape(k1)
    BY Kept, <1>1
  <2> HIDE DEF k1
  <2>2. Keeps(k1, IpcResume(k1, w), {})
    BY <2>1, ReadyKept DEF IpcResume
  <2>3. Keeps(k0, IpcResume(k1, w), {})
    BY <2>1, <2>2, KeepsTwice
  <2> QED BY <2>3, Kept DEF DrainOne, k1
<1> QED BY <1>2, <1>3, <1>4, <1>5, <1>6, <1>7, <1>8

-----------------------------------------------------------------------------
(* Threads in rt_signal_wait.                                              *)

(* What t waits for and would handle, and the calls that still look at it  *)
Heard(t) == sig_pending[t] \cap awaited[t] \cap sig_mask[t]
Looked(t) == \E u \in Thread : KillCall(u) /\ kill[u].to = t

Waits(t) == awaited[t] # {}

WaitsInv ==
  /\ Shape(k)
  /\ OfThreads(awaited) /\ OfThreads(sig_pending) /\ OfThreads(sig_mask)
  /\ \A t \in Thread : Waits(t) => /\ pc[t] \in {"wait", "waited"} /\ step[t] = "none"
                                   /\ k.stat[t] # "init"
  /\ \A t \in Thread : Waits(t) /\ k.stat[t] = "suspend" => Heard(t) = {} \/ Looked(t)

(* Threads that wait go on in their calls, or do not move, and so do those *)
(* that are in rt_thread_kill.                                             *)
GoOn ==
  /\ \A t \in Thread : Waits(t) => pc'[t] \in {"wait", "waited"} /\ step'[t] = "none"
  /\ \A t \in Thread : KillCall(t) => KillCall(t)'

(* A step that sends no signal: the threads in U, which it suspends, wait  *)
(* for none.                                                               *)
LEMMA WaitsStay ==
  ASSUME WaitsInv, NEW U, Keeps(k, k', U), \A t \in U : ~Waits(t),
         UNCHANGED <<awaited, sig_mask, kill>>, GoOn,
         OfThreads(sig_pending'), \A t \in Thread : sig_pending'[t] \subseteq sig_pending[t]
  PROVE  WaitsInv'
<1>1. \A t \in Thread : /\ Waits(t)' <=> Waits(t)
                        /\ Looked(t) => Looked(t)'
                        /\ Heard(t)' \subseteq Heard(t)
  BY DEF Waits, Looked, Heard, GoOn
<1>2. Shape(k') /\ \A t \in Thread : Waits(t) /\ k'.stat[t] \in {"suspend", "init"}
                                       => k'.stat[t] = k.stat[t]
  BY DEF Keeps
<1>3. OfThreads(awaited') /\ OfThreads(sig_mask')
  BY DEF WaitsInv, OfThreads
<1>4. ASSUME NEW t \in Thread, Waits(t)
      PROVE  pc'[t] \in {"wait", "waited"} /\ step'[t] = "none" /\ k'.stat[t] # "init"
  BY <1>2, <1>4 DEF WaitsInv, GoOn
<1>5. ASSUME NEW t \in Thread, Waits(t), k'.stat[t] = "suspend"
      PROVE  Heard(t)' = {} \/ Looked(t)'
  BY <1>1, <1>2, <1>5 DEF WaitsInv
<1> QED BY <1>1, <1>2, <1>3, <1>4, <1>5 DEF WaitsInv, Shape

(* Nobody else moves, and t waits for nothing.                             *)
LEMMA OthersWait ==
  ASSUME WaitsInv, NEW t \in Thread, OnlyGoes(t), ~Waits(t), KillCall(t) => KillCall(t)'
  PROVE  GoOn
BY DEF WaitsInv, OnlyGoes, GoOn, KillCall

LEMMA NobodyMoves ==
  ASSUME WaitsInv, pc' = pc, step' = step
  PROVE  GoOn
BY DEF WaitsInv, GoOn, KillCall

LEMMA AtAppOrStep ==
  ASSUME WaitsInv, NEW t \in Thread, pc[t] = "app" \/ step[t] # "none"
  PROVE  ~Waits(t)
BY DEF WaitsInv

(* Whom a step of the kernel suspends                                      *)
LEMMA KernelSuspends ==
  ASSUME Shape(k), Ops \cap {"create", "suspend"} = {}, NEW t \in Thread,
         Application(t) \/ InKernel(t)
  PROVE  \/ Keeps(k, k', {})
         \/ SleepThread(t) /\ Keeps(k, k', {t})
         \/ \E u \in Thread : StartupThread(t, u) /\ Keeps(k, k', {u})
<1> DEFINE Goal == \/ Keeps(k, k', {})
                   \/ SleepThread(t) /\ Keeps(k, k', {t})
                   \/ \E u \in Thread : StartupThread(t, u) /\ Keeps(k, k', {u})
<1>1. Shape(k) /\ \A k1, U : Keeps(k, k1, U) => Shape(k1)
  BY DEF Keeps
<1>3. CASE Keeps(k, k', {})
  BY <1>3
<1>4. CASE SleepThread(t)
  <2> DEFINE k1 == Suspend(k, t)
  <2>1. Keeps(k, k1, {t}) /\ Shape(k1)
    BY <1>1, KeptByCalls
  <2> HIDE DEF k1
  <2>2. Keeps(k1, StartTimer(k1, t), {t})
    BY <2>1, Kept, KeepsMore
  <2>3. Keeps(k, k', {t})
    BY <1>4, <2>1, <2>2, KeepsTwice DEF SleepThread, k1
  <2> QED BY <1>4, <2>3
<1>5. ASSUME NEW u \in Thread, StartupThread(t, u)
      PROVE  Goal
  <2>1. Keeps(k, k', {u})
    BY <1>1, <1>5, Kept DEF StartupThread
  <2> QED BY <1>5, <2>1
<1>6. CASE ExitThread(t)
  <2> DEFINE k1 == RemoveThread(k, t)
             k2 == StopTimer(k1, t)
  <2>1. Keeps(k, k1, {}) /\ Shape(k1)
    BY <1>1, Kept
  <2> HIDE DEF k1
  <2>2. Keeps(k1, k2, {})
    BY <2>1, Kept
  <2>3. Keeps(k, k2, {}) /\ Shape(k2)
    BY <1>1, <2>1, <2>2, KeepsTwice
  <2> HIDE DEF k2
  <2>4. Keeps(k2, Close(k2, t), {}) /\ Keeps(k2, [k2 EXCEPT !.stat[t] = "close"], {})
    BY <2>3, Kept
  <2>5. k' = Close(k2, t) \/ k' = [k2 EXCEPT !.stat[t] = "close"]
    BY <1>6 DEF ExitThread, k2, k1
  <2>6. Keeps(k, k', {})
    BY <2>3, <2>4, <2>5, KeepsTwice
  <2> QED BY <2>6
<1>7. ASSUME NEW u \in Thread, NEW p, ChangeThreadPriority(t, u, p) PROVE Keeps(k, k', {})
  BY <1>1, <1>7, KeptByCalls DEF ChangeThreadPriority
<1>8. /\ Keeps(k, k, {}) /\ Keeps(k, Schedule(k), {})
      /\ \A u : /\ Keeps(k, RemoveThread(k, u), {}) /\ Keeps(k, InsertThread(k, u), {})
               /\ Keeps(k, StopTimer(k, u), {}) /\ Keeps(k, Close(k, u), {})
               /\ Keeps(k, [k EXCEPT !.stat[u] = "close"], {})
               /\ Keeps(k, [k EXCEPT !.list = Unlink(@, u)], {})
  <2>1. Keeps(k, k, {})
    BY <1>1 DEF Keeps
  <2> QED BY <1>1, <2>1, Kept
<1>9. ASSUME NEW u \in Thread, ResumeThread(t, u) \/ DeleteThread(t, u) PROVE Keeps(k, k', {})
  <2>1. k' = k \/ k' = RemoveThread(k, u)
    BY <1>9 DEF ResumeThread, DeleteThread
  <2> QED BY <1>8, <2>1
<1>10. ASSUME YieldThread(t) \/ Enter(t) \/ Leave(t) \/ FindThread(t) PROVE Keeps(k, k', {})
  BY <1>1, <1>10, Kept, ZenonT(60) DEF YieldThread, Enter, Leave, FindThread
<1>11. ASSUME InKernel(t) PROVE Keeps(k, k', {})
  <2>1. CASE ResumeUnlink(t) \/ ResumeInsert(t) \/ DeleteTimer(t) \/ DeleteClose(t) \/ Reschedule(t)
    <3>1. \/ k' = [k EXCEPT !.list = Unlink(@, arg[t])] \/ k' = InsertThread(k, arg[t])
          \/ k' = StopTimer(k, arg[t]) \/ k' = [k EXCEPT !.stat[arg[t]] = "close"]
          \/ k' = Close(k, arg[t]) \/ k' = Schedule(k)
      BY <2>1 DEF ResumeUnlink, ResumeInsert, DeleteTimer, DeleteClose, Reschedule
    <3> QED BY <1>8, <3>1
  <2>2. CASE SleepReturn(t)
    BY <1>1, <2>2, SameStats DEF SleepReturn, Shape
  <2> QED BY <1>11, <2>1, <2>2 DEF InKernel
<1>12. ~\E u \in Thread : CreateThread(t, u) \/ SuspendThread(t, u)
  BY DEF CreateThread, SuspendThread, Call
<1> QED BY <1>3, <1>4, <1>5, <1>6, <1>7, <1>9, <1>10, <1>11, <1>12 DEF Application

LEMMA KernelKeeps ==
  ASSUME WaitsInv, Ops \cap {"create", "suspend"} = {}, NEW t \in Thread,
         Application(t) \/ InKernel(t)
  PROVE  \E U : Keeps(k, k', U) /\ \A u \in U : ~Waits(u)
<1>1. SleepThread(t) => ~Waits(t)
  BY AtAppOrStep DEF SleepThread, Call
<1>2. \A u \in Thread : StartupThread(t, u) => ~Waits(u)
  BY DEF StartupThread, WaitsInv
<1>3. Shape(k)
  BY DEF WaitsInv
<1>4. \/ Keeps(k, k', {})
      \/ SleepThread(t) /\ Keeps(k, k', {t})
      \/ \E u \in Thread : StartupThread(t, u) /\ Keeps(k, k', {u})
  BY <1>3, KernelSuspends
<1>5. CASE Keeps(k, k', {})
  BY ONLY <1>5
<1>6. CASE SleepThread(t) /\ Keeps(k, k', {t})
  BY ONLY <1>1, <1>6
<1>7. ASSUME NEW u \in Thread, StartupThread(t, u), Keeps(k, k', {u})
      PROVE  \E U : Keeps(k, k', U) /\ \A v \in U : ~Waits(v)
  BY ONLY <1>2, <1>7
<1> QED BY ONLY <1>4, <1>5, <1>6, <1>7

(* A step in a call of the mutex                                           *)
LEMMA MutexKeeps ==
  ASSUME Shape(k), NEW t \in Thread, MutexStep(t)
  PROVE  Keeps(k, k', {t})
<1>1. /\ \A k1, U : Keeps(k, k1, U) => Shape(k1)
      /\ Keeps(k, k, {}) /\ \A k1 : Keeps(k, k1, {}) => Keeps(k, k1, {t})
  BY DEF Keeps
<1>2. Keeps(k, Boost(k, t), {}) /\ Keeps(k, Restore(t), {})
  BY <1>1, KeptByCalls DEF Boost, Restore
<1>3. ASSUME NEW k1, Keeps(k, k1, {})
      PROVE  /\ Keeps(k, Suspend(k1, t), {t}) /\ Keeps(k, IpcResume(k1, Mtx), {})
             /\ Keeps(k, IpcSuspend(k1, Mtx, t, flag), {t})
             /\ Keeps(k, StartTimer(IpcSuspend(k1, Mtx, t, flag), t), {t})
  <2> DEFINE k2 == IpcSuspend(k1, Mtx, t, flag)
  <2>1. /\ Shape(k1) /\ Keeps(k, k1, {t}) /\ Keeps(k1, Suspend(k1, t), {t})
        /\ Keeps(k1, k2, {t}) /\ Keeps(k1, IpcResume(k1, Mtx), {})
    BY <1>1, <1>3, KeptByCalls
  <2>2. Keeps(k, Suspend(k1, t), {t}) /\ Keeps(k, k2, {t}) /\ Keeps(k, IpcResume(k1, Mtx), {})
    BY <1>3, <2>1, KeepsTwice
  <2> HIDE DEF k2
  <2>3. Keeps(k2, StartTimer(k2, t), {t})
    BY <1>1, <2>2, Kept, KeepsMore
  <2>4. Keeps(k, StartTimer(k2, t), {t})
    BY <2>2, <2>3, KeepsTwice
  <2> QED BY <2>2, <2>4 DEF k2
<1>4. CASE k' = k
  BY <1>1, <1>4
<1>5. CASE \E e : k' = SetError(k, t, e)
  BY <1>1, <1>5, Kept
<1>6. ASSUME NEW time, MutexWait(t, time) PROVE Keeps(k, k', {t})
  <2> DEFINE k1 == SetError(Boost(k, t), t, "EOK")
  <2>1. Keeps(Boost(k, t), k1, {})
    BY <1>1, <1>2, Kept
  <2>2. Keeps(k, k1, {})
    BY <1>2, <2>1, KeepsTwice
  <2> HIDE DEF k1
  <2> QED BY <1>3, <1>6, <2>2 DEF MutexWait, k1
<1>7. CASE MutexAgain(t)
  BY <1>1, <1>2, <1>3, <1>7 DEF MutexAgain
<1>8. CASE MutexLink(t)
  <2>1. Keeps(k, [k EXCEPT !.asserted = TRUE], {t})
    BY Kept, <1>1
  <2> QED BY <1>1, <1>3, <1>8, <2>1 DEF MutexLink
<1>9. CASE MutexRelease(t)
  BY <1>1, <1>2, <1>3, <1>9 DEF MutexRelease, HandOver
<1>10. CASE DrainResume(t)
  BY <1>1, <1>10, KeptByCalls DEF DrainResume
<1>11. MutexTakeAgain(t) \/ MutexTake(t) \/ MutexRefuse(t) => \E e : k' = SetError(k, t, e)
  BY DEF MutexTakeAgain, MutexTake, MutexRefuse
<1>12. MutexTaken(t) \/ MutexNotTaken(t) \/ MutexDetach(t) \/ MutexCreate(t) \/ DrainTest(t) => k' = k
  BY DEF MutexTaken, MutexNotTaken, MutexDetach, MutexCreate, DrainTest, WaitFails,
         DetachObject, InitObject, vars
<1> QED BY <1>4, <1>5, <1>6, <1>7, <1>8, <1>9, <1>10, <1>11, <1>12 DEF MutexStep

(* Steps that send no signal                                               *)
LEMMA QuietWaits ==
  ASSUME WaitsInv, Labels, Ops \cap {"create", "suspend"} = {}, NEW t \in Thread,
         \/ OwnStep(t) /\ UNCHANGED objVars
         \/ Own(t) /\ ~Waits(t) /\ MutexStep(t) /\ UNCHANGED sigVars
         \/ (HandleCheck(t) \/ HandleNext(t) \/ SignalEntryEnd(t)) /\ UNCHANGED objVars
         \/ Own(t) /\ (KillFind(t) \/ KillAlloc(t) \/ KillLink(t))
  PROVE  WaitsInv'
<1>1. /\ Shape(k) /\ OfThreads(sig_pending) /\ OfThreads(pc) /\ OfThreads(step)
      /\ \A k1, U : Keeps(k, k1, U) => Shape(k1)
      /\ Keeps(k, k, {})
  BY DEF WaitsInv, Keeps, Labels
<1>2. CASE OwnStep(t) /\ UNCHANGED objVars
  <2>1. OnlyGoes(t) /\ pc[t] # "waited" /\ ~KillCall(t)
    BY <1>2, KernelLabels DEF OwnStep, objVars, KillCall
  <2>2. PICK U : Keeps(k, k', U) /\ \A u \in U : ~Waits(u)
    BY <1>2, KernelKeeps DEF OwnStep
  <2>3. CASE ~Waits(t)
    <3>1. GoOn
      BY <2>1, <2>3, OthersWait
    <3> QED BY <1>1, <1>2, <2>2, <3>1, WaitsStay DEF OwnStep, nodes
  <2>4. CASE Waits(t)
    <3>1. pc[t] = "wait"
      BY <2>1, <2>4 DEF WaitsInv
    <3>2. Reschedule(t)
      BY <1>2, <3>1 DEF OwnStep, Application, InKernel, Call, YieldThread, SleepThread, ExitThread,
         Enter, Leave, FindThread, CreateThread, StartupThread, DeleteThread, SuspendThread,
         ResumeThread, ChangeThreadPriority, ResumeUnlink, ResumeInsert, DeleteTimer, DeleteClose,
         SleepReturn
    <3>3. pc' = [pc EXCEPT ![t] = "waited"] /\ step' = step
      BY <1>2, <3>1, <3>2 DEF Reschedule, Goto, AfterSchedule, objVars
    <3>4. GoOn
      BY <1>1, <2>1, <3>3 DEF WaitsInv, GoOn, OfThreads, KillCall
    <3> QED BY <1>1, <1>2, <2>2, <3>4, WaitsStay DEF OwnStep, nodes
  <2> QED BY <2>3, <2>4
<1>3. CASE ~Waits(t) /\ MutexStep(t) /\ UNCHANGED sigVars
  <2>1. OnlyGoes(t) /\ (KillCall(t) => KillCall(t)')
    BY <1>3, MutexLabels DEF sigVars
  <2>2. Keeps(k, k', {t}) /\ \A u \in {t} : ~Waits(u)
    BY <1>1, <1>3, MutexKeeps
  <2>3. GoOn
    BY <1>3, <2>1, OthersWait
  <2> QED BY <1>1, <1>3, <2>2, <2>3, WaitsStay DEF sigVars
<1>4. CASE (HandleCheck(t) \/ HandleNext(t) \/ SignalEntryEnd(t)) /\ UNCHANGED objVars
  <2>1. Keeps(k, k', {})
    <3>1. Keeps(k, SetError(k, t, "EINTR"), {}) /\ Keeps(k, [k EXCEPT !.asserted = TRUE], {})
      BY <1>1, Kept
    <3> QED BY <1>1, <1>4, <3>1 DEF HandleCheck, HandleNext, SignalEntryEnd, vars
  <2>2. GoOn
    BY <1>4, NobodyMoves DEF HandleCheck, HandleNext, SignalEntryEnd, vars, objVars
  <2>3. OfThreads(sig_pending') /\ \A u \in Thread : sig_pending'[u] \subseteq sig_pending[u]
    BY <1>1, <1>4 DEF HandleCheck, HandleNext, SignalEntryEnd, nodes, OfThreads
  <2>4. UNCHANGED <<awaited, sig_mask, kill>>
    BY <1>4 DEF HandleCheck, HandleNext, SignalEntryEnd
  <2> QED BY <2>1, <2>2, <2>3, <2>4, WaitsStay
<1>5. CASE KillFind(t) \/ KillAlloc(t) \/ KillLink(t)
  <2>1. OnlyGoes(t) /\ step[t] # "none" /\ KillCall(t)'
    BY <1>1, <1>5 DEF KillFind, KillAlloc, KillLink, AtStep, GoStep, OnlyGoes, OfThreads, vars,
       KillCall
  <2>2. Keeps(k, k', {})
    <3> DEFINE k1 == EnterCritical(k)
               k2 == LeaveCritical(k1)
    <3>1. Keeps(k, k1, {}) /\ Shape(k1)
      BY <1>1, Kept
    <3> HIDE DEF k1
    <3>2. Keeps(k1, k2, {})
      BY <3>1, Kept
    <3>3. Keeps(k, k2, {}) /\ Shape(k2)
      BY <1>1, <3>1, <3>2, KeepsTwice
    <3> HIDE DEF k2
    <3>4. Keeps(k2, Schedule(k2), {})
      BY <3>3, Kept
    <3>5. Keeps(k, Schedule(k2), {})
      BY <3>3, <3>4, KeepsTwice
    <3>6. Keeps(k, SetError(k, t, "ETIMEOUT"), {})
      BY <1>1, Kept
    <3>7. k' = k \/ k' = SetError(k, t, "ETIMEOUT") \/ k' = Schedule(k2)
      BY ONLY <1>5 DEF KillFind, KillAlloc, KillLink, vars, k2, k1
    <3> QED BY ONLY <1>1, <3>5, <3>6, <3>7
  <2>3. GoOn
    BY <2>1, OthersWait, AtAppOrStep
  <2>4. UNCHANGED <<awaited, sig_mask, kill, sig_pending>>
    BY <1>5 DEF KillFind, KillAlloc, KillLink, nodes
  <2> QED BY <1>1, <2>2, <2>3, <2>4, WaitsStay
<1> QED BY <1>2, <1>3, <1>4, <1>5

(* Interrupts and the start of the scheduler                               *)
LEMMA InterruptKeeps ==
  ASSUME Shape(k), Start \/ Interrupt PROVE Keeps(k, k', {}) /\ pc' = pc
<1>1. /\ \A k1, U : Keeps(k, k1, U) => Shape(k1)
      /\ Keeps(k, k, {}) /\ Keeps(k, Schedule(k), {})
  BY Kept DEF Keeps
<1>2. \A u : Keeps(k, Schedule(Resume(k, u)), {})
  <2> TAKE u
  <2> DEFINE k1 == Resume(k, u)
  <2>1. Keeps(k, k1, {}) /\ Shape(k1)
    BY <1>1, ReadyKept
  <2> HIDE DEF k1
  <2>2. Keeps(k1, Schedule(k1), {})
    BY <2>1, Kept
  <2>3. Keeps(k, Schedule(k1), {})
    BY <2>1, <2>2, KeepsTwice
  <2> QED BY <2>3 DEF k1
<1>3. Keeps(k, k', {}) /\ pc' = pc
  <2>1. CASE Start
    BY <1>1, <2>1 DEF Start
  <2>2. CASE ClockEnter \/ ClockLeave
    BY <1>1, <2>2, KeptByCalls DEF ClockEnter, ClockLeave
  <2>3. ASSUME NEW t \in Thread, Expire(t) PROVE Keeps(k, k', {}) /\ pc' = pc
    BY <1>1, <2>3, KeptByCalls DEF Expire
  <2>4. ASSUME NEW t \in Thread, DeviceResume(t) PROVE Keeps(k, k', {}) /\ pc' = pc
    BY <1>2, <2>4 DEF DeviceResume
  <2> QED BY <2>1, <2>2, <2>3, <2>4 DEF Interrupt
<1> QED BY <1>3

LEMMA InterruptWaits ==
  ASSUME WaitsInv, Start \/ Interrupt, UNCHANGED <<objVars, sigVars>>
  PROVE  WaitsInv'
<1>1. Shape(k) /\ OfThreads(sig_pending)
  BY DEF WaitsInv
<1>2. Keeps(k, k', {}) /\ pc' = pc
  BY <1>1, InterruptKeeps
<1>3. GoOn
  BY <1>2, NobodyMoves DEF objVars
<1> QED BY <1>1, <1>2, <1>3, WaitsStay DEF sigVars

(* rt_thread_kill has begun, in a thread that waits for nothing.           *)
LEMMA StartWaits ==
  ASSUME WaitsInv, Labels, NEW t \in Thread, NEW u \in Thread, NEW s \in Sig, KillStart(t, u, s)
  PROVE  WaitsInv'
<1>1. /\ Shape(k) /\ OfThreads(sig_pending) /\ OfThreads(pc) /\ OfThreads(step) /\ OfThreads(kill)
      /\ OfThreads(awaited) /\ OfThreads(sig_mask) /\ ~Waits(t) /\ ~KillCall(t)
  BY DEF WaitsInv, Labels, KillStart, SigCall, KillCall
<1>2. k'.stat = k.stat /\ Shape(k')
  BY <1>1 DEF KillStart, Shape
<1>3. GoOn /\ KillCall(t)' /\ kill'[t].to = u
  <2>1. OnlyGoes(t) /\ KillCall(t)' /\ kill'[t].to = u
    BY <1>1 DEF KillStart, OnlyGoes, OfThreads, Goto, GoStep, KillCall
  <2> QED BY <1>1, <2>1, OthersWait
<1>4. /\ UNCHANGED <<awaited, sig_mask>> /\ OfThreads(sig_pending')
      /\ \A v \in Thread \ {u} : sig_pending'[v] = sig_pending[v]
      /\ \A v \in Thread \ {t} : kill'[v] = kill[v]
  BY <1>1 DEF KillStart, OfThreads
<1>5. ASSUME NEW v \in Thread, Waits(v), k.stat[v] = "suspend"
      PROVE  Heard(v)' = {} \/ Looked(v)'
  <2>1. CASE v = u
    BY <1>3, <2>1 DEF Looked
  <2>2. CASE v # u
    <3>1. Heard(v)' = Heard(v)
      BY <1>4, <2>2 DEF Heard
    <3>2. Looked(v) => Looked(v)'
      BY <1>1, <1>3, <1>4 DEF Looked, GoOn
    <3> QED BY <1>5, <3>1, <3>2 DEF WaitsInv
  <2> QED BY <2>1, <2>2
<1>6. \A v \in Thread : Waits(v)' <=> Waits(v)
  BY <1>4 DEF Waits
<1>7. OfThreads(awaited') /\ OfThreads(sig_mask')
  BY <1>1, <1>4 DEF OfThreads
<1>8. \A v \in Thread : Waits(v)' => /\ pc'[v] \in {"wait", "waited"} /\ step'[v] = "none"
                                     /\ k'.stat[v] # "init"
  BY <1>2, <1>3, <1>6 DEF WaitsInv, GoOn
<1>9. \A v \in Thread : Waits(v)' /\ k'.stat[v] = "suspend" => Heard(v)' = {} \/ Looked(v)'
  BY <1>2, <1>5, <1>6
<1> QED BY <1>2, <1>4, <1>7, <1>8, <1>9 DEF WaitsInv, Shape

(* A step that concerns one thread u that may wait                         *)
LEMMA WaitsBut ==
  ASSUME WaitsInv, NEW u \in Thread, Keeps(k, k', {u}),
         OfThreads(awaited'), OfThreads(sig_pending'), OfThreads(sig_mask'),
         \A v \in Thread \ {u} : /\ awaited'[v] = awaited[v] /\ sig_mask'[v] = sig_mask[v]
                                 /\ sig_pending'[v] = sig_pending[v]
                                 /\ Looked(v) => Looked(v)'
                                 /\ Waits(v) => pc'[v] \in {"wait", "waited"} /\ step'[v] = "none",
         Waits(u)' => /\ pc'[u] \in {"wait", "waited"} /\ step'[u] = "none"
                      /\ k'.stat[u] # "init"
                      /\ k'.stat[u] = "suspend" => Heard(u)' = {} \/ Looked(u)'
  PROVE  WaitsInv'
<1>1. Shape(k') /\ \A v \in Thread \ {u} : k'.stat[v] \in {"suspend", "init"} => k'.stat[v] = k.stat[v]
  BY DEF Keeps
<1>2. ASSUME NEW v \in Thread, v # u, Waits(v)'
      PROVE  /\ pc'[v] \in {"wait", "waited"} /\ step'[v] = "none" /\ k'.stat[v] # "init"
             /\ k'.stat[v] = "suspend" => Heard(v)' = {} \/ Looked(v)'
  <2>1. Waits(v) /\ Heard(v)' = Heard(v)
    BY <1>2 DEF Waits, Heard
  <2> QED BY <1>1, <1>2, <2>1 DEF WaitsInv
<1>3. \A v \in Thread : Waits(v)' =>
             /\ pc'[v] \in {"wait", "waited"} /\ step'[v] = "none" /\ k'.stat[v] # "init"
             /\ k'.stat[v] = "suspend" => Heard(v)' = {} \/ Looked(v)'
  BY <1>2
<1> QED BY <1>1, <1>3 DEF WaitsInv, Shape

(* The end of rt_thread_kill                                               *)
LEMMA DeliverWaits ==
  ASSUME WaitsInv, Labels, NEW t \in Thread, KillTest(t) \/ KillDeliver(t)
  PROVE  WaitsInv'
<1>1. /\ Shape(k) /\ OfThreads(sig_pending) /\ OfThreads(pc) /\ OfThreads(step) /\ OfThreads(kill)
      /\ OfThreads(awaited) /\ OfThreads(sig_mask) /\ Keeps(k, k, {})
  BY DEF WaitsInv, Labels, Keeps
<1>2. KillCall(t) /\ ~Waits(t) /\ step[t] # "none"
  BY AtAppOrStep DEF KillTest, KillDeliver, AtStep, KillCall
<1>3. PICK u \in Thread : u = kill[t].to
  BY <1>2 DEF Labels
<1>4. OnlyGoes(t) /\ UNCHANGED <<awaited, sig_pending, sig_mask>>
  BY <1>1 DEF KillTest, KillDeliver, nodes, Goto, GoStep, Return, OnlyGoes, OfThreads
<1>5. CASE KillTest(t) /\ sig_pending[u] \cap sig_mask[u] # {}
  <2>1. KillCall(t)' /\ k' = k /\ kill' = kill
    BY <1>1, <1>3, <1>5 DEF KillTest, AtStep, GoStep, KillCall, OfThreads
  <2>2. GoOn
    BY <1>2, <1>4, <2>1, OthersWait
  <2> QED BY <1>1, <1>4, <2>1, <2>2, WaitsStay
<1>6. CASE KillDeliver(t) \/ sig_pending[u] \cap sig_mask[u] = {}
  <2>1. \A v \in Thread \ {t} : kill'[v] = kill[v]
    BY <1>1, <1>6 DEF KillTest, KillDeliver, OfThreads
  <2>2. \A v \in Thread \ {u} : Looked(v) => Looked(v)'
    BY <1>3, <1>4, <2>1 DEF Looked, OnlyGoes, KillCall
  <2>3. \A v \in Thread : Waits(v) => pc'[v] \in {"wait", "waited"} /\ step'[v] = "none"
    BY <1>2, <1>4 DEF WaitsInv, OnlyGoes
  <2>4. /\ Keeps(k, k', {})
        /\ k'.stat[u] = "suspend" => Heard(u)' = {}
    <3>1. CASE KillTest(t)
      <4>1. k' = k /\ sig_pending[u] \cap sig_mask[u] = {}
        BY <1>3, <1>6, <3>1 DEF KillTest, KillDeliver, AtStep
      <4>2. Heard(u)' = {}
        BY <1>4, <4>1 DEF Heard
      <4> QED BY <1>1, <4>1, <4>2
    <3>2. CASE KillDeliver(t)
      <4>1. Keeps(k, Resume(k, u), {})
        BY <1>1, ReadyKept
      <4>2. k.stat[u] = "suspend" => Resume(k, u).stat[u] = "ready"
        BY <1>1, <1>3 DEF Resume, MakeReady, InsertThread, Shape
      <4> QED BY <1>1, <1>3, <3>2, <4>1, <4>2 DEF KillDeliver
    <3> QED BY <3>1, <3>2
  <2>5. Waits(u)' => Waits(u)
    BY <1>4 DEF Waits
  <2>6. Keeps(k, k', {u})
    BY <2>4, KeepsMore
  <2>7. k'.stat[u] = "init" => k.stat[u] = "init"
    BY <1>3, <2>4 DEF Keeps
  <2>8. /\ OfThreads(awaited') /\ OfThreads(sig_pending') /\ OfThreads(sig_mask')
        /\ \A v \in Thread : awaited'[v] = awaited[v] /\ sig_mask'[v] = sig_mask[v]
                                                      /\ sig_pending'[v] = sig_pending[v]
    BY <1>1, <1>4 DEF OfThreads
  <2>9. Waits(u)' => /\ pc'[u] \in {"wait", "waited"} /\ step'[u] = "none"
                     /\ k'.stat[u] # "init"
                     /\ k'.stat[u] = "suspend" => Heard(u)' = {} \/ Looked(u)'
    BY <1>3, <2>3, <2>4, <2>5, <2>7 DEF WaitsInv
  <2> QED BY <1>3, <2>2, <2>3, <2>6, <2>8, <2>9, WaitsBut
<1> QED BY <1>5, <1>6

(* A call of signal.c that concerns only its caller                        *)
LEMMA OwnWaits ==
  ASSUME WaitsInv, Labels, NEW t \in Thread,
         \/ \E set, time : SignalWait(t, set, time)
         \/ SignalWoken(t)
         \/ \E s : SignalMask(t, s) \/ SignalUnmask(t, s)
  PROVE  WaitsInv'
<1>1. /\ Shape(k) /\ OfThreads(sig_pending) /\ OfThreads(pc) /\ OfThreads(step) /\ OfThreads(kill)
      /\ OfThreads(awaited) /\ OfThreads(sig_mask) /\ Keeps(k, k, {t})
  BY DEF WaitsInv, Labels, Keeps
<1>2. pc[t] = "app" \/ (pc[t] = "waited" /\ step[t] = "none")
  BY DEF SignalWait, SignalWoken, SignalMask, SignalUnmask, SigCall, Woken, AtStep
<1>3. ~KillCall(t) /\ step[t] = "none"
  BY <1>1, <1>2 DEF KillCall, Labels
<1>4. \A set, k0 : TakeSignal(t, set, k0) =>
        /\ OfThreads(sig_pending') /\ \A v \in Thread \ {t} : sig_pending'[v] = sig_pending[v]
        /\ k' = k0 \/ k' = [k0 EXCEPT !.asserted = TRUE]
  BY <1>1 DEF TakeSignal, OfThreads, nodes
<1>5. /\ OfThreads(sig_pending') /\ OfThreads(awaited') /\ OfThreads(sig_mask')
      /\ \A v \in Thread \ {t} : /\ awaited'[v] = awaited[v] /\ sig_mask'[v] = sig_mask[v]
                                 /\ sig_pending'[v] = sig_pending[v]
                                 /\ pc'[v] = pc[v] /\ step'[v] = step[v] /\ kill'[v] = kill[v]
  <2>1. ASSUME NEW set, NEW time, SignalWait(t, set, time) PROVE <1>5
    BY <1>1, <1>4, <2>1 DEF SignalWait, OfThreads, Goto, nodes
  <2>2. CASE SignalWoken(t)
    BY <1>1, <1>4, <2>2 DEF SignalWoken, OfThreads, Return, Goto, nodes
  <2>3. ASSUME NEW s, SignalMask(t, s) \/ SignalUnmask(t, s) PROVE <1>5
    BY <1>1, <2>3 DEF SignalMask, SignalUnmask, OfThreads, Goto, GoStep, nodes, vars, objVars
  <2> QED BY <2>1, <2>2, <2>3
<1>6. \A v \in Thread \ {t} : Looked(v) => Looked(v)'
  BY <1>3, <1>5 DEF Looked, KillCall
<1>7. \A v \in Thread \ {t} : Waits(v) => pc'[v] \in {"wait", "waited"} /\ step'[v] = "none"
  BY <1>5 DEF WaitsInv
<1>8. /\ Keeps(k, SetError(k, t, "EOK"), {t}) /\ Keeps(k, [k EXCEPT !.asserted = TRUE], {t})
      /\ Keeps(k, Suspend(k, t), {t}) /\ Keeps(k, StartTimer(Suspend(k, t), t), {t})
  <2>1. Keeps(k, Suspend(k, t), {t}) /\ Shape(Suspend(k, t))
    <3>1. Shape(k)
      BY <1>1
    <3>2. Keeps(k, Suspend(k, t), {t})
      BY ONLY <3>1, KeptByCalls
    <3> QED BY <3>2 DEF Keeps
  <2>2. Keeps(Suspend(k, t), StartTimer(Suspend(k, t), t), {t})
    BY <2>1, Kept, KeepsMore
  <2>3. Keeps(k, SetError(k, t, "EOK"), {}) /\ Keeps(k, [k EXCEPT !.asserted = TRUE], {})
    BY <1>1, Kept
  <2> QED BY <2>1, <2>2, <2>3, KeepsTwice, KeepsMore
<1>9. Keeps(k, k', {t})
  <2>1. ASSUME NEW set, NEW time, SignalWait(t, set, time) PROVE <1>9
    BY <1>1, <1>4, <1>8, <2>1 DEF SignalWait
  <2>2. CASE SignalWoken(t)
    BY <1>1, <1>4, <1>8, <2>2 DEF SignalWoken
  <2>3. ASSUME NEW s, SignalMask(t, s) \/ SignalUnmask(t, s) PROVE <1>9
    BY <1>1, <2>3 DEF SignalMask, SignalUnmask, vars
  <2> QED BY <2>1, <2>2, <2>3
<1>10. Waits(t)' => /\ pc'[t] \in {"wait", "waited"} /\ step'[t] = "none" /\ k'.stat[t] # "init"
                    /\ k'.stat[t] = "suspend" => Heard(t)' = {} \/ Looked(t)'
  <2>1. ASSUME NEW set, NEW time, SignalWait(t, set, time), Waits(t)' PROVE <1>10
    <3>1. pc[t] = "app" /\ ~Waits(t)
      BY <2>1, AtAppOrStep DEF SignalWait, SigCall
    <3>2. /\ awaited' = [awaited EXCEPT ![t] = set] /\ sig_pending[t] \cap set = {}
          /\ sig_pending' = sig_pending /\ pc' = [pc EXCEPT ![t] = "wait"] /\ step' = step
          /\ k' = Suspend(k, t) \/ k' = StartTimer(Suspend(k, t), t)
      BY <2>1, <3>1 DEF SignalWait, Waits, Goto, nodes
    <3>3. pc'[t] = "wait" /\ step'[t] = "none" /\ Heard(t)' = {}
      BY <1>1, <1>3, <3>2 DEF OfThreads, Heard
    <3>4. /\ Suspend(k, t).stat[t] = "suspend"
          /\ StartTimer(Suspend(k, t), t).stat[t] = "suspend"
      BY <1>1 DEF Suspend, RemoveThread, StopTimer, StartTimer, Shape
    <3> QED BY <3>2, <3>3, <3>4
  <2>2. CASE SignalWoken(t)
    BY <1>1, <2>2 DEF SignalWoken, Waits, OfThreads
  <2>3. ASSUME NEW s, SignalMask(t, s) \/ SignalUnmask(t, s) PROVE <1>10
    BY <2>3, AtAppOrStep DEF SignalMask, SignalUnmask, SigCall, Waits
  <2> QED BY <2>1, <2>2, <2>3
<1> QED BY <1>5, <1>6, <1>7, <1>9, <1>10, WaitsBut

(* All of rt_thread_kill in an interrupt                                   *)
LEMMA IsrWaits ==
  ASSUME WaitsInv, NEW u \in Thread, NEW s \in Sig, KillIsr(u, s), UNCHANGED objVars
  PROVE  WaitsInv'
<1> DEFINE pending == sig_pending[u] \cup {s}
           linked == IF free_nodes > 0 THEN 1 ELSE 0
           list == si_list[u] \o [i \in 1 .. linked |-> s]
           k0 == IF s \in sig_pending[u] THEN Schedule(k) ELSE k
           handled == Handled(u, pending, list)
<1>1. /\ Shape(k) /\ OfThreads(sig_pending) /\ OfThreads(awaited) /\ OfThreads(sig_mask)
      /\ Keeps(k, k, {}) /\ \A k1, U : Keeps(k, k1, U) => Shape(k1)
  BY DEF WaitsInv, Keeps
<1>2. Keeps(k, k0, {}) /\ Shape(k0)
  BY <1>1, Kept
<1>3. k0.stat[u] = k.stat[u]
  BY <1>1 DEF Schedule, Shape
<1>4. pc' = pc /\ step' = step /\ UNCHANGED <<awaited, sig_mask, kill>>
  BY DEF KillIsr, objVars
<1>5. GoOn
  BY <1>4, NobodyMoves
<1> HIDE DEF k0, pending, list, handled
<1>6. \/ k' = [k EXCEPT !.asserted = TRUE] /\ UNCHANGED nodes
      \/ /\ OfThreads(sig_pending') /\ \A v \in Thread \ {u} : sig_pending'[v] = sig_pending[v]
         /\ \/ k' = k0 /\ sig_pending'[u] = pending /\ pending \cap sig_mask[u] = {}
            \/ k0.stat[u] = "suspend" /\ k' = Schedule(Resume(k0, u))
            \/ /\ k0.stat[u] # "suspend"
               /\ k' = Schedule(k0) \/ k' = SetError(k0, u, "EINTR") \/ k' = k0
  <2>1. CASE Searches(u, s)
    BY <2>1 DEF KillIsr
  <2>2. CASE IsrDeliver(u, k0, pending, list, free_nodes - linked)
    BY <1>1, <2>2 DEF IsrDeliver, OfThreads
  <2> QED BY <2>1, <2>2 DEF KillIsr, k0, pending, list, linked
<1>7. CASE k' = [k EXCEPT !.asserted = TRUE] /\ UNCHANGED nodes
  <2>1. Keeps(k, k', {})
    BY <1>1, <1>7, Kept
  <2>2. OfThreads(sig_pending') /\ \A v \in Thread : sig_pending'[v] \subseteq sig_pending[v]
    BY <1>1, <1>7 DEF nodes, OfThreads
  <2> QED BY <1>4, <1>5, <2>1, <2>2, WaitsStay
<1>8. CASE /\ OfThreads(sig_pending') /\ \A v \in Thread \ {u} : sig_pending'[v] = sig_pending[v]
           /\ \/ k' = k0 /\ sig_pending'[u] = pending /\ pending \cap sig_mask[u] = {}
              \/ k0.stat[u] = "suspend" /\ k' = Schedule(Resume(k0, u))
              \/ /\ k0.stat[u] # "suspend"
                 /\ k' = Schedule(k0) \/ k' = SetError(k0, u, "EINTR") \/ k' = k0
  <2>1. Keeps(k0, Schedule(Resume(k0, u)), {})
    <3> DEFINE k1 == Resume(k0, u)
    <3>1. Keeps(k0, k1, {}) /\ Shape(k1)
      BY <1>2, ReadyKept DEF Keeps
    <3> HIDE DEF k1
    <3>2. Keeps(k1, Schedule(k1), {})
      BY <3>1, Kept
    <3>3. Keeps(k0, Schedule(k1), {})
      BY <3>1, <3>2, KeepsTwice
    <3> QED BY <3>3 DEF k1
  <2>2. Keeps(k0, Schedule(k0), {}) /\ Keeps(k0, SetError(k0, u, "EINTR"), {}) /\ Keeps(k0, k0, {})
    <3>1. Keeps(k0, k0, {})
      BY <1>2 DEF Keeps
    <3> QED BY <1>2, <3>1, Kept
  <2>3. Keeps(k, k', {})
    BY <1>2, <1>8, <2>1, <2>2, KeepsTwice
  <2>4. k0.stat[u] = "suspend" => Schedule(Resume(k0, u)).stat[u] = "ready"
    BY <1>2 DEF Schedule, Resume, MakeReady, InsertThread, Shape
  <2>5. k'.stat[u] = "suspend" => Heard(u)' = {}
    <3>1. CASE k' = k0 /\ sig_pending'[u] = pending /\ pending \cap sig_mask[u] = {}
      BY <1>4, <3>1 DEF Heard
    <3>2. CASE k0.stat[u] = "suspend" /\ k' = Schedule(Resume(k0, u))
      BY <2>4, <3>2
    <3>3. CASE k0.stat[u] # "suspend"
      BY <1>3, <2>3, <3>3 DEF Keeps
    <3> QED BY <1>8, <3>1, <3>2, <3>3
  <2>6. Waits(u)' => /\ pc'[u] \in {"wait", "waited"} /\ step'[u] = "none"
                     /\ k'.stat[u] # "init"
                     /\ k'.stat[u] = "suspend" => Heard(u)' = {} \/ Looked(u)'
    <3>1. Waits(u)' <=> Waits(u)
      BY <1>4 DEF Waits
    <3> QED BY <1>4, <2>3, <2>5, <3>1 DEF WaitsInv, Keeps
  <2>7. \A v \in Thread : Looked(v) => Looked(v)'
    BY <1>4 DEF Looked, KillCall
  <2>8. \A v \in Thread : Waits(v) => pc'[v] \in {"wait", "waited"} /\ step'[v] = "none"
    BY <1>5 DEF GoOn
  <2>9. OfThreads(awaited') /\ OfThreads(sig_mask') /\ Keeps(k, k', {u})
    BY <1>1, <1>4, <2>3, KeepsMore DEF OfThreads
  <2> QED BY <1>4, <1>8, <2>6, <2>7, <2>8, <2>9, WaitsBut
<1> QED BY <1>6, <1>7, <1>8

LEMMA StartWaiting ==
  ASSUME SignalsInit PROVE WaitsInv
<1> DEFINE set == [t \in Thread |-> IF t \in Static \cup {Main} THEN "init" ELSE "none"]
           k1 == Startup(Blank(set), Main)
<1>1. /\ k = Startup(k1, Idle)
      /\ awaited = [t \in Thread |-> {}] /\ sig_pending = [t \in Thread |-> {}]
      /\ sig_mask = [t \in Thread |-> {}]
  BY DEF SignalsInit, MutexInit, ObjStart, Init
<1>2. \A k0, t : Shape(k0) => Shape(Startup(k0, t))
  <2> SUFFICES ASSUME NEW k0, NEW t, Shape(k0) PROVE Shape(Startup(k0, t))
    OBVIOUS
  <2>1. Shape(PrepareStartup(k0, t))
    BY Kept DEF Keeps
  <2> QED BY <2>1, ReadyKept DEF Startup, Keeps
<1>3. Shape(Blank(set))
  BY DEF Blank, Shape
<1> HIDE DEF set
<1>4. Shape(k)
  BY <1>1, <1>2, <1>3
<1> QED BY <1>1, <1>4 DEF WaitsInv, OfThreads, Waits

LEMMA NextWaits ==
  ASSUME WaitsInv, NodesInv, Ops \cap {"create", "suspend"} = {},
         [SignalsNext]_<<vars, objVars, mutexVars, sigVars, work>>
  PROVE  WaitsInv'
<1>1. Labels /\ work \in Works
  BY DEF NodesInv
<1>2. CASE \/ Halt /\ UNCHANGED sigVars
           \/ UNCHANGED <<vars, objVars, mutexVars, sigVars, work>>
  <2>1. k' = k /\ pc' = pc /\ step' = step /\ UNCHANGED sigVars
    BY <1>2 DEF Halt, vars, objVars
  <2>2. GoOn
    BY <2>1, NobodyMoves
  <2>3. Keeps(k, k', {}) /\ OfThreads(sig_pending')
    BY <2>1 DEF WaitsInv, Keeps, sigVars, OfThreads
  <2> QED BY <2>1, <2>2, <2>3, WaitsStay DEF sigVars
<1>3. CASE (Start \/ Interrupt) /\ UNCHANGED <<objVars, sigVars>>
  BY <1>3, InterruptWaits
<1>4. ASSUME NEW to \in work.sent PROVE to[1] \in Thread /\ to[2] \in Sig
  BY <1>1, <1>4, SignalAssumption
<1>5. ASSUME NEW to \in work.sent, KillIsr(to[1], to[2]), UNCHANGED objVars PROVE WaitsInv'
  BY <1>4, <1>5, IsrWaits
<1>6. ASSUME NEW t \in Thread, SignalStep(t) PROVE WaitsInv'
  <2>1. CASE (HandleCheck(t) \/ HandleNext(t) \/ SignalEntryEnd(t)) /\ UNCHANGED objVars
    BY <1>1, <2>1, QuietWaits
  <2>2. CASE Own(t) /\ (KillFind(t) \/ KillAlloc(t) \/ KillLink(t))
    BY <1>1, <2>2, QuietWaits
  <2>3. CASE KillTest(t) \/ KillDeliver(t)
    BY <1>1, <2>3, DeliverWaits
  <2>4. ASSUME NEW to \in work.sent, KillStart(t, to[1], to[2]) PROVE WaitsInv'
    BY <1>1, <1>4, <2>4, StartWaits
  <2>5. CASE \/ \E set, time : SignalWait(t, set, time)
             \/ SignalWoken(t)
             \/ \E s : SignalMask(t, s) \/ SignalUnmask(t, s)
    BY <1>1, <2>5, OwnWaits
  <2> QED BY <1>6, <2>1, <2>2, <2>3, <2>4, <2>5 DEF SignalStep
<1>7. ASSUME NEW t \in Thread, OwnStep(t), UNCHANGED objVars PROVE WaitsInv'
  BY <1>1, <1>7, QuietWaits
<1>8. ASSUME NEW t \in Thread, Own(t), awaited[t] = {}, MutexStep(t), UNCHANGED sigVars PROVE WaitsInv'
  BY <1>1, <1>8, QuietWaits DEF Waits
<1> QED BY <1>2, <1>3, <1>5, <1>6, <1>7, <1>8 DEF SignalsNext

(* A thread that sleeps in rt_signal_wait has nothing to do that nobody    *)
(* will tell it: whichever way rt_thread_kill of a thread or an interrupt, *)
(* the threads' handlers and the timeout of the wait interleave.  A thread *)
(* that somebody else suspends, or sets up anew, in its wait is left out.  *)
THEOREM WaitersAreWoken ==
  ASSUME Ops \cap {"create", "suspend"} = {} PROVE SignalsSpec => []SignalWakesWaiter
<1>1. SignalsInit => WaitsInv
  BY StartWaiting
<1>2. WaitsInv /\ NodesInv /\ [SignalsNext]_<<vars, objVars, mutexVars, sigVars, work>> => WaitsInv'
  BY NextWaits
<1>3. WaitsInv => SignalWakesWaiter
  BY DEF WaitsInv, SignalWakesWaiter, Waits, Heard, Looked
<1>4. SignalsSpec => []NodesInv
  BY SignalsInvariant
<1> QED BY <1>1, <1>2, <1>3, <1>4, PTL DEF SignalsSpec

-----------------------------------------------------------------------------
(* Sections that change the states of threads which no call works on,      *)
(* whether they wait in a list or not.                                     *)

(* r is the kernel kd after the threads U were suspended, woken or moved.  *)
Changes(kd, r, U) ==
  /\ r \in KernelRecord /\ Consistent(r) /\ r.lock = kd.lock
  /\ \A u \in U :
       /\ kd.stat[u] \in {"ready", "suspend"} /\ r.stat[u] \in {"ready", "suspend"}
       /\ u \notin Elements(r.list[Defunct])
       /\ r.stat[u] = "ready" => u \in Elements(r.list[r.prio[u]])
  /\ \A v \in Thread \ U :
       /\ r.stat[v] = kd.stat[v] /\ r.timer[v] = kd.timer[v]
       /\ kd.stat[v] = "ready" => r.prio[v] = kd.prio[v]
  /\ \A q \in Queue : Elements(r.list[q]) \ U = Elements(kd.list[q]) \ U

LEMMA ChangesTwice ==
  ASSUME NEW kd \in KernelRecord, NEW m, NEW r, NEW U, NEW V,
         U \subseteq Thread, V \subseteq Thread, Changes(kd, m, U), Changes(m, r, V)
  PROVE  Changes(kd, r, U \cup V)
<1> USE DEF Changes
<1>1. Defunct \in Queue /\ Prio \subseteq Queue
  BY DEF Queue
<1>2. \A q \in Queue : Elements(r.list[q]) \ (U \cup V) = Elements(kd.list[q]) \ (U \cup V)
  <2>1. \A q \in Queue : Elements(r.list[q]) \ V = Elements(m.list[q]) \ V
    OBVIOUS
  <2>2. \A q \in Queue : Elements(m.list[q]) \ U = Elements(kd.list[q]) \ U
    OBVIOUS
  <2> QED BY <2>1, <2>2
<1>3. ASSUME NEW u \in U \cup V
      PROVE  /\ kd.stat[u] \in {"ready", "suspend"} /\ r.stat[u] \in {"ready", "suspend"}
             /\ u \notin Elements(r.list[Defunct])
             /\ r.stat[u] = "ready" => u \in Elements(r.list[r.prio[u]])
  <2>1. CASE u \in V
    <3>1. kd.stat[u] \in {"ready", "suspend"}
      BY <2>1
    <3> QED BY <2>1, <3>1
  <2>2. CASE u \notin V
    <3>1. u \in U /\ u \in Thread /\ r.stat[u] = m.stat[u]
      BY <2>2
    <3>2. \A q \in Queue : u \in Elements(r.list[q]) <=> u \in Elements(m.list[q])
      <4>1. \A q \in Queue : Elements(r.list[q]) \ V = Elements(m.list[q]) \ V
        OBVIOUS
      <4> QED BY <2>2, <4>1
    <3>3. r.stat[u] = "ready" => r.prio[u] = m.prio[u] /\ m.prio[u] \in Queue
      BY <1>1, <2>2, <3>1 DEF KernelRecord
    <3> QED BY <1>1, <3>1, <3>2, <3>3
  <2> QED BY <2>1, <2>2
<1> QED BY <1>2, <1>3

LEMMA ChangesNothing ==
  ASSUME NEW kd \in KernelRecord, NEW r \in KernelRecord, Consistent(kd),
         r.list = kd.list, r.stat = kd.stat, r.prio = kd.prio, r.mask = kd.mask,
         r.group = kd.group, r.timer = kd.timer, r.lock = kd.lock
  PROVE  Changes(kd, r, {})
BY SameConsistent DEF Changes

(* rt_thread_resume of a thread that is suspended                          *)
LEMMA RaiseChanges ==
  ASSUME NEW kd \in KernelRecord, Consistent(kd), NEW u \in Thread, kd.stat[u] = "suspend",
         NEW r, r = Resume(kd, u)
  PROVE  /\ Changes(kd, r, {u}) /\ TakesFrom(kd, r, u) /\ r.error = kd.error
         /\ r.stat = Update(kd.stat, u, "ready") /\ r.cur = kd.cur
         /\ r.prio = kd.prio /\ r.asserted = kd.asserted
<1>1. r = MakeReady(kd, u)
  BY DEF Resume
<1>2. /\ r \in KernelRecord /\ Consistent(r)
      /\ r.stat = Update(kd.stat, u, "ready")
      /\ r.prio = kd.prio /\ SameRest(kd, r) /\ SameLinks(kd, r, u)
      /\ u \in Elements(r.list[kd.prio[u]])
  BY <1>1, MakeReadyFacts
<1>3. TakesFrom(kd, r, u) /\ r.error = kd.error
  BY <1>1, MakeReadyTakes
<1>4. u \notin Elements(r.list[Defunct])
  BY <1>2, ReadyNotDefunct
<1>5. r.stat[u] = "ready" /\ \A v \in Thread \ {u} : r.stat[v] = kd.stat[v]
  BY <1>2 DEF Update, KernelRecord
<1>6. Changes(kd, r, {u})
  BY <1>2, <1>4, <1>5 DEF Changes, SameRest, SameLinks
<1> QED BY <1>2, <1>3, <1>6 DEF SameRest

(* rt_thread_suspend, with or without the start of the timer               *)
LEMMA SuspendChanges ==
  ASSUME NEW kd \in KernelRecord, Consistent(kd), NEW t \in Thread,
         kd.stat[t] \in {"ready", "suspend"},
         NEW r, r = Suspend(kd, t) \/ r = StartTimer(Suspend(kd, t), t)
  PROVE  /\ Changes(kd, r, {t}) /\ TakesFrom(kd, r, t) /\ r.error = kd.error
         /\ r.stat = Update(kd.stat, t, "suspend") /\ r.cur = kd.cur
         /\ \A u \in Thread \ {t} : r.timer[u] = kd.timer[u]
<1> DEFINE m == Suspend(kd, t)
<1>1. /\ m \in KernelRecord /\ Consistent(m)
      /\ m.stat = Update(kd.stat, t, "suspend")
      /\ m.prio = kd.prio /\ m.timer = Disarm(kd.timer, t)
      /\ m.cur = kd.cur /\ m.lock = kd.lock
      /\ SameLinks(kd, m, t) /\ Nowhere(m.list, t)
  BY SuspendFacts
<1>2. TakesFrom(kd, m, t) /\ m.error = kd.error
  BY SuspendTakes
<1>3. r = m \/ r = StartTimer(m, t)
  OBVIOUS
<1> HIDE DEF m
<1>4. /\ r \in KernelRecord
      /\ r.list = m.list /\ r.stat = m.stat /\ r.prio = m.prio /\ r.mask = m.mask
      /\ r.group = m.group /\ r.cur = m.cur /\ r.lock = m.lock /\ r.error = m.error
      /\ \A u \in Thread \ {t} : r.timer[u] = m.timer[u]
  <2>1. CASE r = m
    BY <1>1, <2>1
  <2>2. CASE r = StartTimer(m, t)
    <3>1. r = [m EXCEPT !.timer[t] = TRUE]
      BY <2>2 DEF StartTimer
    <3> QED BY <1>1, <3>1 DEF KernelRecord
  <2> QED BY <1>3, <2>1, <2>2
<1>5. Consistent(r)
  BY <1>1, <1>4, SameConsistent
<1>6. \A u \in Thread \ {t} : r.timer[u] = kd.timer[u] /\ r.stat[u] = kd.stat[u]
  BY <1>1, <1>4 DEF Disarm, Update, KernelRecord
<1>7. r.stat[t] = "suspend" /\ t \notin Elements(r.list[Defunct])
  BY <1>1, <1>4 DEF Update, Nowhere, Queue, KernelRecord
<1>8. Changes(kd, r, {t})
  BY <1>1, <1>4, <1>5, <1>6, <1>7 DEF Changes, SameLinks
<1> QED BY <1>1, <1>2, <1>4, <1>6, <1>8 DEF TakesFrom

(* A thread gets another priority.                                         *)
LEMMA PriorityChanges ==
  ASSUME NEW kd \in KernelRecord, Consistent(kd), NEW u \in Thread, NEW p \in Prio,
         kd.stat[u] = "ready" => \A w \in WaitList : u \notin Elements(kd.list[w]),
         NEW r, r = kd \/ r = ChangePriority(kd, u, p)
  PROVE  /\ \E U \in SUBSET {u} : Changes(kd, r, U) /\ (U # {} => kd.stat[u] = "ready")
         /\ SameWaits(kd, r) /\ r.error = kd.error /\ r.stat = kd.stat /\ r.timer = kd.timer
         /\ r.cur = kd.cur /\ r.lock = kd.lock /\ r \in KernelRecord /\ Consistent(r)
<1>1. CASE r = kd
  <2>1. Changes(kd, r, {})
    BY <1>1, ChangesNothing
  <2> QED BY <1>1, <2>1 DEF SameWaits
<1>2. CASE r = ChangePriority(kd, u, p)
  <2>1. /\ r \in KernelRecord /\ Consistent(r)
        /\ r.stat = kd.stat /\ SameRest(kd, r) /\ SameLinks(kd, r, u)
        /\ r.prio = Update(kd.prio, u, p)
        /\ kd.stat[u] = "ready" => u \in Elements(r.list[p])
        /\ kd.stat[u] # "ready" => r.list = kd.list
    BY <1>2, ChangePriorityFacts
  <2>2. SameWaits(kd, r) /\ r.error = kd.error
    BY <1>2, ChangePriorityTakes
  <2>3. r.prio[u] = p /\ \A v \in Thread \ {u} : r.prio[v] = kd.prio[v]
    BY <2>1 DEF Update, KernelRecord
  <2>4. CASE kd.stat[u] = "ready"
    <3>1. u \notin Elements(r.list[Defunct])
      BY <2>1, <2>3, <2>4, ReadyNotDefunct
    <3>2. Changes(kd, r, {u})
      BY <2>1, <2>3, <2>4, <3>1 DEF Changes, SameRest, SameLinks
    <3> QED BY <2>1, <2>2, <2>4, <3>2 DEF SameRest
  <2>5. CASE kd.stat[u] # "ready"
    <3>1. Changes(kd, r, {})
      BY <2>1, <2>3, <2>5 DEF Changes, SameRest
    <3> QED BY <2>1, <2>2, <3>1 DEF SameRest
  <2> QED BY <2>4, <2>5
<1> QED BY <1>1, <1>2

(* Waking threads of wait lists, suspending a thread in one                *)
LEMMA WakesAreChanges ==
  ASSUME NEW kd \in KernelRecord, NEW r, NEW U, U \subseteq Thread, Wakes(kd, r, U),
         \A u \in U : kd.stat[u] = "suspend"
  PROVE  Changes(kd, r, U)
<1>1. /\ r \in KernelRecord /\ Consistent(r) /\ r.prio = kd.prio
      /\ \A u \in U : r.stat[u] = "ready" /\ u \in Elements(r.list[r.prio[u]])
  BY DEF Wakes
<1>2. \A u \in U : u \notin Elements(r.list[Defunct])
  BY <1>1, ReadyNotDefunct
<1> QED BY <1>1, <1>2 DEF Changes, Wakes

LEMMA SuspendsChanges ==
  ASSUME NEW kd \in KernelRecord, NEW t \in Thread, kd.stat[t] \in {"ready", "suspend"},
         NEW r, NEW w, Suspends(kd, r, t, w)
  PROVE  Changes(kd, r, {t}) /\ r.stat[t] = "suspend"
         /\ \A u \in Thread \ {t} : r.stat[u] = kd.stat[u]
<1>1. r.stat[t] = "suspend" /\ \A u \in Thread \ {t} : r.stat[u] = kd.stat[u]
  BY DEF Suspends, Update, KernelRecord
<1> QED BY <1>1 DEF Changes, Suspends, SameLinks

(* rt_schedule *)
LEMMA ScheduleChanges ==
  ASSUME NEW kd \in KernelRecord, Consistent(kd), kd.group # {}, NEW r, r = Schedule(kd)
  PROVE  /\ Changes(kd, r, {}) /\ Dispatched(kd, r) /\ r.list = kd.list /\ r.error = kd.error
         /\ r.stat = kd.stat /\ r.timer = kd.timer /\ r.group = kd.group
<1>1. /\ r \in KernelRecord /\ Consistent(r)
      /\ r.list = kd.list /\ r.stat = kd.stat /\ r.prio = kd.prio /\ r.mask = kd.mask
      /\ r.group = kd.group /\ r.lock = kd.lock
      /\ r.timer = kd.timer /\ r.error = kd.error
      /\ Dispatched(kd, r)
  BY ScheduleFacts DEF Dispatched
<1> QED BY <1>1 DEF Changes

(* A section that changes the threads U preserves the invariant of threads *)
(* in calls: what is left to say of the calls, the processor and the lists *)
LEMMA ChangesIpc ==
  ASSUME IpcInv, NEW U, U \subseteq Thread, Changes(k, k', U), \A u \in U : ~Targeted(u),
         k'.stat[Idle] = "ready", k'.timer[Idle] = FALSE,
         OrdinaryMove, SwitchesToReady, isr' \in {"none", "clock"}, crit' \in [Thread -> Nat],
         \A v \in Thread : InCall(v)' /\ ~InCall(v) =>
           k'.stat[v] \in {"ready", "suspend"} /\ ~Targeted(v),
         WaitsUnlocked', RunnerReady',
         \A w \in WaitList : \A v \in Elements(k'.list[w]) :
           /\ v \in U => Waiting(v)' /\ k'.stat[v] = "suspend"
           /\ v \notin U /\ Waiting(v) => Waiting(v)'
  PROVE  IpcInv' /\ \A v \in Thread : Targeted(v)' <=> Targeted(v)
<1>1. IInv /\ k \in KernelRecord /\ k' \in KernelRecord /\ crit \in [Thread -> Nat]
  BY IpcFacts DEF Changes, IInv, TypeOK
<1>2. ChangesIn(U)
  BY DEF Changes, ChangesIn
<1>3. IInv'
  BY <1>1, <1>2, OrdinarySteps
<1>4. \A v \in Thread : Targeted(v)' <=> Targeted(v)
  BY DEF OrdinaryMove, Targeted, Target, InWindow, Resuming, Deleting
<1>5. CallersAlive'
  <2> SUFFICES ASSUME NEW v \in Thread, InCall(v)'
               PROVE  k'.stat[v] \in {"ready", "suspend"} /\ ~Targeted(v)
    BY <1>4 DEF CallersAlive
  <2>1. CASE ~InCall(v)
    BY <2>1
  <2>2. CASE InCall(v)
    <3>1. k.stat[v] \in {"ready", "suspend"} /\ ~Targeted(v)
      BY <2>2 DEF IpcInv, CallersAlive
    <3>2. k'.stat[v] \in {"ready", "suspend"}
      BY <3>1 DEF Changes
    <3> QED BY <3>1, <3>2
  <2> QED BY <2>1, <2>2
<1>6. ListedWait'
  <2> SUFFICES ASSUME NEW w \in WaitList, NEW v \in Elements(k'.list[w])
               PROVE  Waiting(v)' /\ k'.stat[v] = "suspend"
    BY DEF ListedWait
  <2>1. CASE v \in U
    BY <2>1
  <2>2. CASE v \notin U
    <3>1. v \in Elements(k.list[w])
      BY <2>2, WaitQueue DEF Changes
    <3>2. Waiting(v) /\ k.stat[v] = "suspend" /\ v \in Thread
      BY <3>1, IpcFacts DEF IpcInv, ListedWait
    <3> QED BY <2>2, <3>2 DEF Changes
  <2> QED BY <2>1, <2>2
<1> QED BY <1>3, <1>4, <1>5, <1>6 DEF IpcInv

(* A section of the thread that runs, in a call or between calls           *)
RunsSection(t, label, U) ==
  /\ Running(t) /\ k.lock = 0 /\ pc[t] \in {"app", "waited", "drain1", "drain2"}
  /\ label \in CallLabel \cup {"wait"} /\ Goto(t, label)
  /\ isr' = isr /\ arg' = arg /\ crit' = crit
  /\ U \subseteq Thread /\ Changes(k, k', U) /\ (\A u \in U : ~Targeted(u))
  /\ k'.stat[Idle] = "ready" /\ k'.timer[Idle] = FALSE
  /\ \/ Dispatched(k, k')
     \/ /\ k'.cur = k.cur
        /\ \/ label \in {"sched", "wait"} \/ k'.stat[t] = "ready"
           \/ label = "waited" /\ Unlisted(t)'
  /\ \A w \in WaitList : \A v \in Elements(k'.list[w]) :
       v \in U => k'.stat[v] = "suspend" /\ IF v = t THEN label = "wait" ELSE Waiting(v)

LEMMA ThreadSection ==
  ASSUME IpcInv, NEW t \in Thread, NEW label, NEW U, RunsSection(t, label, U)
  PROVE  IpcInv' /\ \A v \in Thread : Targeted(v)' <=> Targeted(v)
<1> USE DEF RunsSection
<1>1. /\ IInv /\ pc \in [Thread -> PC] /\ k \in KernelRecord /\ isr = "none"
      /\ k.cur = t /\ k.stat[t] \in {"ready", "suspend"} /\ ~Targeted(t)
      /\ crit \in [Thread -> Nat] /\ Unlisted(t)
  BY IpcFacts, CallerReady DEF IInv, TypeOK, Running, Unlisted
<1>2. \A u \in Thread : pc'[u] = IF u = t THEN label ELSE pc[u]
  BY <1>1 DEF Goto
<1>3. OrdinaryMove
  BY <1>1, GotoMove DEF CallLabel, InWindow, Resuming, Deleting, PC
<1>4. SwitchesToReady
  BY <1>1, DispatchSwitch DEF SwitchesToReady
<1>5. k'.lock = 0 /\ WaitsUnlocked'
  BY DEF Changes, WaitsUnlocked
<1>6. RunnerReady'
  <2>1. CASE Dispatched(k, k')
    BY <2>1 DEF Dispatched, RunnerReady
  <2>2. CASE k'.cur = k.cur
    <3> SUFFICES ASSUME pc'[t] \notin Unscheduled, ~Dispatched(k, k')
                 PROVE  k'.stat[t] = "ready" \/ (Waiting(t)' /\ Unlisted(t)')
      BY <1>1, <2>1, <2>2 DEF RunnerReady
    <3> QED BY <1>2 DEF Unscheduled, Waiting
  <2> QED BY <2>1, <2>2
<1>7. \A v \in Thread : InCall(v)' /\ ~InCall(v) =>
        k'.stat[v] \in {"ready", "suspend"} /\ ~Targeted(v)
  <2>1. k'.stat[t] \in {"ready", "suspend"}
    BY <1>1 DEF Changes
  <2> QED BY <1>1, <1>2, <2>1 DEF InCall
<1>8. \A w \in WaitList : \A v \in Elements(k'.list[w]) :
        /\ v \in U => Waiting(v)' /\ k'.stat[v] = "suspend"
        /\ v \notin U /\ Waiting(v) => Waiting(v)'
  <2> SUFFICES ASSUME NEW w \in WaitList, NEW v \in Elements(k'.list[w])
               PROVE  /\ v \in U => Waiting(v)' /\ k'.stat[v] = "suspend"
                      /\ v \notin U /\ Waiting(v) => Waiting(v)'
    OBVIOUS
  <2>1. v \notin U => v \in Elements(k.list[w]) /\ v # t /\ v \in Thread
    <3>1. v \notin U => v \in Elements(k.list[w])
      BY WaitQueue DEF Changes
    <3> QED BY <1>1, <3>1, IpcFacts DEF Unlisted
  <2> QED BY <1>2, <2>1 DEF Waiting
<1> QED BY <1>1, <1>3, <1>4, <1>5, <1>6, <1>7, <1>8, ChangesIpc

(* Sections that may call rt_schedule, and make the threads U ready        *)
Switches(kd, r) ==
  r.cur # kd.cur =>
    /\ kd.lock = 0 /\ r.cur \in Thread /\ r.stat[r.cur] = "ready"
    /\ r.cur \in Elements(r.list[r.prio[r.cur]])
Readies(kd, r, U) ==
  /\ U \subseteq Thread /\ Changes(kd, r, U) /\ Switches(kd, r) /\ r.group # {}
  /\ \A u \in U : r.stat[u] = "ready"

LEMMA ReadiesTwice ==
  ASSUME NEW kd \in KernelRecord, NEW m, NEW r, NEW U, NEW V, Readies(kd, m, U), Readies(m, r, V)
  PROVE  Readies(kd, r, U \cup V)
<1>1. Changes(kd, r, U \cup V)
  BY ChangesTwice DEF Readies
<1>2. \A u \in U \cup V : r.stat[u] = "ready"
  BY DEF Readies, Changes
<1>3. ASSUME r.cur # kd.cur
      PROVE  /\ kd.lock = 0 /\ r.cur \in Thread /\ r.stat[r.cur] = "ready"
             /\ r.cur \in Elements(r.list[r.prio[r.cur]])
  <2>1. CASE r.cur # m.cur
    BY <2>1 DEF Readies, Switches, Changes
  <2>2. CASE r.cur = m.cur
    <3>1. /\ kd.lock = 0 /\ m.cur \in Thread /\ m.stat[m.cur] = "ready"
          /\ m.cur \in Elements(m.list[m.prio[m.cur]])
      BY <1>3, <2>2 DEF Readies, Switches
    <3>2. CASE m.cur \in V
      BY <2>2, <3>1, <3>2 DEF Readies, Changes
    <3>3. CASE m.cur \notin V
      <4>1. r.stat[m.cur] = "ready" /\ r.prio[m.cur] = m.prio[m.cur]
        BY <3>1, <3>3 DEF Readies, Changes
      <4>2. m.prio[m.cur] \in Queue
        BY <3>1 DEF Readies, Changes, KernelRecord, Queue
      <4> QED BY <2>2, <3>1, <3>3, <4>1, <4>2 DEF Readies, Changes
    <3> QED BY <3>2, <3>3
  <2> QED BY <2>1, <2>2
<1> QED BY <1>1, <1>2, <1>3 DEF Readies, Switches

LEMMA ScheduleReadies ==
  ASSUME NEW kd \in KernelRecord, Consistent(kd), kd.group # {}, NEW r, r = kd \/ r = Schedule(kd)
  PROVE  Readies(kd, r, {}) /\ r.stat = kd.stat
<1>1. CASE r = kd
  <2>1. Changes(kd, r, {})
    BY <1>1, ChangesNothing
  <2> QED BY <1>1, <2>1 DEF Readies, Switches
<1>2. CASE r = Schedule(kd)
  BY <1>2, ScheduleChanges DEF Readies, Switches, Dispatched
<1> QED BY <1>1, <1>2

LEMMA RaiseReadies ==
  ASSUME NEW kd \in KernelRecord, Consistent(kd), NEW u \in Thread, kd.stat[u] = "suspend",
         NEW r, r = Resume(kd, u)
  PROVE  Readies(kd, r, {u})
<1>1. Changes(kd, r, {u}) /\ r.stat = Update(kd.stat, u, "ready") /\ r.cur = kd.cur
  BY RaiseChanges
<1>2. r.stat[u] = "ready"
  BY <1>1 DEF Update, KernelRecord
<1>3. u \in Elements(r.list[r.prio[u]]) /\ r.prio[u] \in Prio
  BY <1>1, <1>2 DEF Changes, KernelRecord
<1>4. r.group # {}
  BY <1>1, <1>3 DEF Changes, Consistent, BitmapExact, Elements
<1> QED BY <1>1, <1>2, <1>4 DEF Readies, Switches

LEMMA ErrorReadies ==
  ASSUME NEW kd \in KernelRecord, Consistent(kd), kd.group # {}, NEW u, NEW e \in Error,
         NEW r, r = SetError(kd, u, e)
  PROVE  Readies(kd, r, {})
<1>1. /\ r \in KernelRecord
      /\ r.list = kd.list /\ r.stat = kd.stat /\ r.prio = kd.prio /\ r.mask = kd.mask
      /\ r.group = kd.group /\ r.timer = kd.timer /\ r.lock = kd.lock /\ r.cur = kd.cur
  BY DEF SetError, KernelRecord
<1>2. Changes(kd, r, {})
  BY <1>1, ChangesNothing
<1> QED BY <1>1, <1>2 DEF Readies, Switches

(* A section of an interrupt, which may end with rt_schedule               *)
LEMMA IsrSection ==
  ASSUME IpcInv, isr = "none", pc' = pc, isr' = isr, arg' = arg, crit' = crit,
         NEW U, Readies(k, k', U), \A u \in U : ~Targeted(u) /\ u # Idle
  PROVE  IpcInv' /\ \A v \in Thread : Targeted(v)' <=> Targeted(v)
<1> USE DEF Readies
<1>0. k'.stat[Idle] = "ready" /\ k'.timer[Idle] = FALSE
  BY IdleFacts DEF IpcInv, Changes
<1>1. IInv /\ OrdinaryMove /\ crit \in [Thread -> Nat] /\ k' \in KernelRecord /\ Consistent(k')
  BY StayMove DEF IpcInv, IInv, TypeOK, Changes
<1>2. SwitchesToReady
  BY DEF Switches, SwitchesToReady
<1>3. WaitsUnlocked'
  BY DEF IpcInv, WaitsUnlocked, Waiting, Switches, Changes
<1>4. \A w \in WaitList : \A u \in U : u \notin Elements(k'.list[w])
  <2>1. \A u \in U : u \in Elements(k'.list[k'.prio[u]])
    BY DEF Changes
  <2> QED BY <1>1, <2>1, QueuedNotWaiting
<1>5. \A w \in WaitList : Elements(k'.list[w]) \subseteq Elements(k.list[w])
  BY <1>4, WaitQueue DEF Changes
<1>6. RunnerReady'
  <2> SUFFICES ASSUME NEW t \in Thread, k'.cur = t, k'.lock = 0, pc[t] \notin Unscheduled
               PROVE  k'.stat[t] = "ready" \/ (Waiting(t) /\ Unlisted(t)')
    BY DEF RunnerReady, Waiting
  <2>1. k.lock = 0
    BY DEF Changes
  <2>2. CASE k'.cur = k.cur
    <3>1. k.stat[t] = "ready" \/ (Waiting(t) /\ Unlisted(t))
      BY <2>1, <2>2 DEF IpcInv, RunnerReady
    <3>2. k.stat[t] = "ready" => k'.stat[t] = "ready"
      BY DEF Changes
    <3> QED BY <1>5, <3>1, <3>2 DEF Unlisted
  <2>3. CASE k'.cur # k.cur
    BY <2>3 DEF Switches
  <2> QED BY <2>2, <2>3
<1>7. \A w \in WaitList : \A v \in Elements(k'.list[w]) :
        /\ v \in U => Waiting(v)' /\ k'.stat[v] = "suspend"
        /\ v \notin U /\ Waiting(v) => Waiting(v)'
  BY <1>4 DEF Waiting
<1>8. \A v \in Thread : InCall(v)' => InCall(v)
  BY DEF InCall
<1> QED BY <1>0, <1>1, <1>2, <1>3, <1>6, <1>7, <1>8, ChangesIpc

-----------------------------------------------------------------------------
(* The mutex.                                                              *)

(* A thread in rt_mutex_take that waits, or has not looked at the result   *)
Takes(t) == Waiting(t) /\ step[t] = "none" /\ awaited[t] = {}

(* The owner and the fields that go with it, and what the threads believe  *)
OwnerTypes ==
  /\ OfThreads(held) /\ (\A t \in Thread : held[t] \in Nat) /\ astray \subseteq Thread
  /\ \/ owner = NoThread /\ value = 1 /\ hold = 0
     \/ owner \in Thread /\ original_priority \in Prio /\ value = 0 /\ hold \in Nat \ {0}
  /\ \A t \in Thread \ astray : held[t] > 0 => owner = t

(* Nobody is being deleted; a list that is emptied is a wait list; the     *)
(* thread that runs is ready, but for one that is about to link itself;    *)
(* whom rt_thread_kill works on is alive and nobody else's target; and the *)
(* idle thread is in no call that waits.                                   *)
NoDeleting == \A t \in Thread : pc[t] \notin Deleting
DrainsList == \A t \in Thread : pc[t] = "drain2" => step[t] \in WaitList
RunnerLinks ==
  \A t \in Thread :
    k.cur = t /\ k.lock = 0 /\ pc[t] \notin Unscheduled => k.stat[t] = "ready" \/ step[t] = "link"
TargetsSafe ==
  \A t \in Thread : KillCall(t) => k.stat[kill[t].to] # "init" /\ ~Targeted(kill[t].to)

IdleQuiet == ~InCall(Idle)

CallsInv == NoDeleting /\ DrainsList /\ RunnerLinks /\ TargetsSafe /\ IdleQuiet

(* What a thread that takes the mutex will find: it waits in the list, its *)
(* wait has failed, or the mutex was given to it.                          *)
Answered(t) ==
  \/ k.stat[t] = "suspend" /\ k.error[t] = "EOK" /\ owner # t /\ t \in Elements(k.list[Mtx])
  \/ k.stat[t] # "suspend" /\ k.error[t] \in {"ETIMEOUT", "ERROR"} /\ owner # t
  \/ k.stat[t] # "suspend" /\ k.error[t] = "EOK" /\ owner = t /\ hold = 1 /\ Usable

OwnedOf(t) ==
  t \notin astray =>
    /\ step[t] # "link"
    /\ IF Takes(t) THEN held[t] = 0 /\ Answered(t) ELSE owner = t /\ alive => held[t] = hold

(* The wait lists hold threads that take the mutex.                        *)
ListsTake == \A w \in WaitList : \A t \in Elements(k.list[w]) : Takes(t)

TakesInv == IpcInv /\ CallsInv /\ ListsTake /\ \A t \in Thread : OwnedOf(t)

(* Once an assertion has failed nothing happens any more.                  *)
MutexInv == OwnerTypes /\ (k.asserted \/ TakesInv)

LEMMA MutualExclusionFollows ==
  ASSUME MutexInv, Labels PROVE MutualExclusion
<1> SUFFICES ASSUME NEW t \in Thread \ astray
             PROVE  /\ held[t] > 0 => owner = t
                    /\ owner = t /\ alive /\ pc[t] \in {"app", "sched"} /\ ~k.asserted
                         => held[t] = hold
  BY DEF MutualExclusion
<1>1. held[t] > 0 => owner = t
  BY DEF MutexInv, OwnerTypes
<1>2. ~k.asserted => OwnedOf(t)
  BY DEF MutexInv, TakesInv
<1> QED BY <1>1, <1>2 DEF OwnedOf, Takes, Waiting

(* A thread that a step neither wakes nor answers                          *)
LEMMA OwnedSame ==
  ASSUME NEW x, OwnedOf(x), astray \subseteq astray', Takes(x)' <=> Takes(x),
         step'[x] = "link" => step[x] = "link",
         held'[x] = held[x], owner' = owner, hold' = hold, alive' => alive,
         x \notin astray' /\ Takes(x) =>
           /\ k'.stat[x] = k.stat[x] /\ k'.error[x] = k.error[x]
           /\ x \in Elements(k.list[Mtx]) => x \in Elements(k'.list[Mtx])
           /\ owner = x /\ Usable => Usable'
  PROVE  OwnedOf(x)'
BY DEF OwnedOf, Answered

(* Which calls of the kernel remain without those that meddle              *)
NoMeddling == Ops \cap (Meddling \cup {"create"}) = {}

(* A step of the kernel begins to delete nobody, and to work on nobody but *)
(* a thread that has not been started.                                     *)
LEMMA KernelTargets ==
  ASSUME pc \in [Thread -> PC], arg \in [Thread -> Thread], NoDeleting, NoMeddling,
         NEW t \in Thread, Application(t) \/ InKernel(t)
  PROVE  /\ NoDeleting'
         /\ \A y \in Thread : Targeted(y)' => Targeted(y) \/ k.stat[y] = "init"
<1>1. \/ pc' = pc /\ arg' = arg
      \/ arg' = arg /\ \E label \in PC \ (Resuming \cup Deleting) : Goto(t, label)
      \/ \E u \in Thread : k.stat[u] = "init" /\ arg' = [arg EXCEPT ![t] = u] /\ Goto(t, "resume1")
      \/ pc[t] = "resume1" /\ arg' = arg /\ Goto(t, "resume2")
      \/ Done(t) /\ Goto(t, "sched")
  <2>1. pc[t] \notin Deleting /\ Ops \cap {"create", "suspend", "resume", "delete"} = {}
    BY DEF NoDeleting, NoMeddling, Meddling
  <2>2. CASE \/ YieldThread(t) \/ SleepThread(t) \/ ExitThread(t) \/ Enter(t) \/ Leave(t)
             \/ FindThread(t) \/ \E u \in Thread, p \in Prio : ChangeThreadPriority(t, u, p)
    BY <2>2 DEF YieldThread, SleepThread, ExitThread, Enter, Leave, FindThread,
       ChangeThreadPriority, PC, Resuming, Deleting
  <2>3. CASE \E u \in Thread : StartupThread(t, u)
    BY <2>3 DEF StartupThread
  <2>4. ~\E u \in Thread :
           CreateThread(t, u) \/ SuspendThread(t, u) \/ ResumeThread(t, u) \/ DeleteThread(t, u)
    BY <2>1 DEF CreateThread, SuspendThread, ResumeThread, DeleteThread, Call
  <2>5. ~DeleteTimer(t) /\ ~DeleteClose(t)
    BY <2>1 DEF DeleteTimer, DeleteClose, Deleting
  <2>6. CASE ResumeUnlink(t) \/ ResumeInsert(t) \/ SleepReturn(t)
    BY <2>6 DEF ResumeUnlink, ResumeInsert, SleepReturn, PC, Resuming, Deleting
  <2>7. CASE Reschedule(t)
    BY <2>7 DEF Reschedule, AfterSchedule, PC, Resuming, Deleting
  <2> QED BY <2>2, <2>3, <2>4, <2>5, <2>6, <2>7 DEF Application, InKernel
<1>2. NoDeleting'
  BY <1>1 DEF NoDeleting, Goto, Deleting, Resuming
<1>3. ASSUME NEW y \in Thread, Targeted(y)', ~Targeted(y) PROVE k.stat[y] = "init"
  <2>1. PICK x \in Thread : pc'[x] \in Resuming \cup Deleting /\ arg'[x] = y
    BY <1>3 DEF Targeted, Target
  <2>2. ~(pc[x] \in Resuming \cup Deleting /\ arg[x] = y)
    BY <1>3 DEF Targeted, Target
  <2> QED BY <1>1, <2>1, <2>2 DEF Goto, Done, Resuming, Deleting
<1> QED BY <1>2, <1>3

(* What the kernel does to the calls                                       *)
LEMMA KernelCalls ==
  ASSUME IpcInv, CallsInv, Labels, NoMeddling, Moves,
         Start \/ Interrupt \/ \E t \in Thread : Application(t) \/ InKernel(t),
         UNCHANGED <<step, kill>>
  PROVE  CallsInv' /\ \A y \in Thread : k'.stat[y] = "init" => k.stat[y] = "init"
<1>1. /\ Shape(k) /\ pc \in [Thread -> PC] /\ arg \in [Thread -> Thread] /\ NoDeleting
      /\ Ops \cap {"create", "suspend"} = {} /\ k \in KernelRecord
  BY IpcFacts DEF CallsInv, NoMeddling, Meddling, KernelRecord, Shape
<1>2. ASSUME Start \/ Interrupt
      PROVE  NoDeleting' /\ \A y \in Thread : /\ Targeted(y)' => Targeted(y) \/ k.stat[y] = "init"
                                              /\ k'.stat[y] = "init" => k.stat[y] = "init"
  <2>1. Keeps(k, k', {}) /\ pc' = pc
    BY <1>1, <1>2, InterruptKeeps
  <2>2. arg' = arg
    BY <1>2 DEF Start, Interrupt, ClockEnter, ClockLeave, Expire, DeviceResume
  <2>3. NoDeleting' /\ \A y \in Thread : Targeted(y)' => Targeted(y)
    BY <1>1, <2>1, <2>2 DEF NoDeleting, Targeted, Target
  <2>4. \A y \in Thread : k'.stat[y] = "init" => k.stat[y] = "init"
    BY <2>1 DEF Keeps
  <2> QED BY <1>1, <2>3, <2>4
<1>3. ASSUME NEW t \in Thread, Application(t) \/ InKernel(t)
      PROVE  NoDeleting' /\ \A y \in Thread : /\ Targeted(y)' => Targeted(y) \/ k.stat[y] = "init"
                                              /\ k'.stat[y] = "init" => k.stat[y] = "init"
  <2>1. CASE Keeps(k, k', {})
    BY <1>1, <1>3, <2>1, KernelTargets DEF Keeps
  <2>2. CASE SleepThread(t) /\ Keeps(k, k', {t})
    <3>1. k'.stat[t] = "suspend"
      BY <1>1, <2>2 DEF SleepThread, StartTimer, Suspend, StopTimer, RemoveThread, KernelRecord
    <3> QED BY <1>1, <1>3, <2>2, <3>1, KernelTargets DEF Keeps
  <2>3. ASSUME NEW u \in Thread, StartupThread(t, u), Keeps(k, k', {u})
        PROVE  \A y \in Thread : k'.stat[y] = "init" => k.stat[y] = "init"
    BY <2>3 DEF StartupThread, Keeps
  <2> QED BY <1>1, <1>3, <2>1, <2>2, <2>3, KernelTargets, KernelSuspends
<1>4. /\ NoDeleting'
      /\ \A y \in Thread : /\ Targeted(y)' => Targeted(y) \/ k.stat[y] = "init"
                           /\ k'.stat[y] = "init" => k.stat[y] = "init"
  BY <1>2, <1>3
<1>5. DrainsList'
  BY DEF CallsInv, DrainsList, Moves, LabelsKept, IpcLabels
<1>6. RunnerLinks'
  <2> SUFFICES ASSUME NEW t \in Thread, k'.cur = t, k'.lock = 0, pc'[t] \notin Unscheduled
               PROVE  k'.stat[t] = "ready" \/ step[t] = "link"
    BY DEF RunnerLinks
  <2> QED BY DEF CallsInv, RunnerLinks, Moves, ProcessorKept, Dispatched
<1>7. TargetsSafe'
  <2> SUFFICES ASSUME NEW t \in Thread, KillCall(t)'
               PROVE  k'.stat[kill[t].to] # "init" /\ ~Targeted(kill[t].to)'
    BY DEF TargetsSafe
  <2>1. KillCall(t)
    BY DEF KillCall, Labels, Moves, LabelsKept, IpcLabels
  <2>2. kill[t].to \in Thread /\ k.stat[kill[t].to] # "init" /\ ~Targeted(kill[t].to)
    BY <2>1 DEF Labels, CallsInv, TargetsSafe
  <2> QED BY <1>4, <2>2
<1>8. IdleQuiet'
  BY IpcFacts DEF CallsInv, IdleQuiet, InCall, Moves, LabelsKept, IpcLabels
<1> QED BY <1>4, <1>5, <1>6, <1>7, <1>8 DEF CallsInv

(* Any step of the kernel                                                  *)
LEMMA KernelMutex ==
  ASSUME TakesInv, OwnerTypes, Labels, NoMeddling,
         Start \/ Interrupt \/ \E t \in Thread : Application(t) \/ InKernel(t),
         UNCHANGED <<objVars, mutexVars, awaited, kill>>
  PROVE  MutexInv'
<1>1. IpcInv' /\ Moves
  BY NextIpc DEF TakesInv, NoMeddling, Next
<1>2. OwnerTypes'
  BY DEF OwnerTypes, mutexVars, OfThreads
<1>3. CallsInv'
  BY <1>1, KernelCalls DEF TakesInv, objVars
<1>4. PICK u \in Thread \cup {NoThread} : WaitsKept(u)
  BY <1>1 DEF Moves
<1>5. \A x \in Thread : (Takes(x)' <=> Takes(x)) /\ (Takes(x) => InCall(x))
  BY <1>1 DEF Takes, Waiting, InCall, Moves, LabelsKept, IpcLabels, objVars
<1>6. \A w \in WaitList : /\ Elements(k'.list[w]) = Elements(k.list[w]) \ {u}
                          /\ Elements(k.list[w]) \subseteq Thread
  <2>1. k \in KernelRecord /\ Consistent(k)
    BY IpcFacts DEF TakesInv
  <2>2. \A w \in WaitList : Elements(k.list[w]) \subseteq Thread
    BY IpcFacts DEF TakesInv
  <2>3. \A w \in WaitList : k'.list[w] = Without(k.list[w], u)
    BY <1>4 DEF WaitsKept, TakesFrom
  <2>4. \A w \in WaitList : Elements(Without(k.list[w], u)) = Elements(k.list[w]) \ {u}
    BY <2>1, WaitTakes, ZenonT(60)
  <2> QED BY <2>2, <2>3, <2>4
<1>7. ListsTake'
  BY <1>5, <1>6 DEF ListsTake, TakesInv
<1>8. ASSUME ~k'.asserted, NEW x \in Thread PROVE OwnedOf(x)'
  <2>1. OwnedOf(x) /\ Mtx \in WaitList
    BY MutexAssumption, ObjectAssumption DEF TakesInv
  <2>2. Usable' <=> Usable
    BY <1>1 DEF Usable, Detaching, Moves, LabelsKept, IpcLabels, objVars
  <2>3. CASE x # u \/ ~Takes(x)
    <3>1. Takes(x) => /\ k'.stat[x] = k.stat[x] /\ k'.error[x] = k.error[x]
                      /\ x \in Elements(k.list[Mtx]) => x \in Elements(k'.list[Mtx])
      BY <1>4, <1>5, <1>6, <2>1, <2>3 DEF WaitsKept
    <3> QED BY <1>5, <2>1, <2>2, <3>1, OwnedSame DEF objVars, mutexVars
  <2>4. CASE x = u /\ Takes(x)
    <3>1. k.stat[x] = "suspend" /\ k'.stat[x] = "ready" /\ k'.error[x] = "ETIMEOUT"
      BY <1>4, <1>5, <1>8, <2>4 DEF WaitsKept
    <3> QED BY <1>5, <2>1, <2>4, <3>1 DEF OwnedOf, Answered, objVars, mutexVars
  <2> QED BY <2>3, <2>4
<1> QED BY <1>1, <1>2, <1>3, <1>7, <1>8 DEF MutexInv, TakesInv

(* A step that has nothing to do with the mutex, but may lead threads that *)
(* take it astray                                                          *)
LeadsAstray ==
  /\ UNCHANGED <<value, owner, original_priority, hold, held, alive>>
  /\ astray' = astray \cup Interrupted

LEMMA AstrayTypes ==
  ASSUME OwnerTypes, LeadsAstray PROVE OwnerTypes' /\ astray \subseteq astray'
BY DEF OwnerTypes, LeadsAstray, Interrupted, OfThreads

(* It changes the threads in U: they are in no wait list afterwards.       *)
LEMMA SignalMove ==
  ASSUME TakesInv, OwnerTypes, LeadsAstray, IpcInv', CallsInv',
         NEW U, U \subseteq Thread, Changes(k, k', U),
         \A u \in U : Unlisted(u)' /\ (k'.stat[u] # k.stat[u] \/ ~Takes(u)),
         \A x \in Thread : /\ Takes(x)' <=> Takes(x)
                           /\ step'[x] = "link" => step[x] = "link",
         Detaching' => Detaching
  PROVE  MutexInv'
<1>1. OwnerTypes' /\ astray \subseteq astray'
  BY AstrayTypes
<1>2. \A w \in WaitList : /\ Elements(k'.list[w]) = Elements(k.list[w]) \ U
                          /\ Elements(k.list[w]) \subseteq Thread
  <2>1. \A w \in WaitList : Elements(k'.list[w]) \ U = Elements(k.list[w]) \ U
    BY WaitQueue DEF Changes
  <2>2. \A w \in WaitList : Elements(k'.list[w]) \cap U = {}
    BY DEF Unlisted
  <2>3. \A w \in WaitList : Elements(k.list[w]) \subseteq Thread
    BY IpcFacts DEF TakesInv
  <2> QED BY <2>1, <2>2, <2>3
<1>3. ListsTake'
  BY <1>2 DEF ListsTake, TakesInv
<1>4. ASSUME NEW x \in Thread PROVE OwnedOf(x)'
  <2>1. OwnedOf(x) /\ Mtx \in WaitList
    BY MutexAssumption, ObjectAssumption DEF TakesInv
  <2>2. ASSUME x \notin astray', Takes(x)
        PROVE  k'.stat[x] = k.stat[x] /\ k'.error[x] = k.error[x]
    BY <2>2 DEF LeadsAstray, Interrupted, Takes, Waiting
  <2>3. ASSUME x \notin astray', Takes(x), x \in Elements(k.list[Mtx])
        PROVE  x \in Elements(k'.list[Mtx])
    BY <1>2, <2>1, <2>2, <2>3
  <2> QED BY <1>1, <2>1, <2>2, <2>3, OwnedSame DEF LeadsAstray, Usable
<1> QED BY <1>1, <1>3, <1>4 DEF MutexInv, TakesInv

(* It is a section of a call of t, which is not in rt_mutex_take,          *)
SignalGoes(t, label) ==
  /\ Running(t) /\ t # Idle /\ k.lock = 0 /\ pc[t] \in {"app", "waited"}
  /\ label \in {"app", "sched", "waited", "wait"} /\ Goto(t, label)
  /\ UNCHANGED <<isr, arg, crit>> /\ OnlyGoes(t) /\ step'[t] # "link"
  /\ ~Takes(t) /\ ~Takes(t)'
  /\ \A x \in Thread \ {t} : awaited'[x] = awaited[x] /\ kill'[x] = kill[x]
  /\ KillCall(t)' => /\ kill'[t].to \in Thread
                     /\ k.stat[kill'[t].to] # "init" /\ ~Targeted(kill'[t].to)

(* and changes the threads U.                                              *)
LEMMA SignalSection ==
  ASSUME TakesInv, OwnerTypes, Labels, LeadsAstray,
         NEW t \in Thread, NEW label, SignalGoes(t, label),
         NEW U, U \subseteq Thread \ {Idle}, Changes(k, k', U),
         \A u \in U : /\ ~Targeted(u) /\ Unlisted(u)'
                      /\ k'.stat[u] # k.stat[u] \/ ~Takes(u),
         \/ Dispatched(k, k')
         \/ k'.cur = k.cur /\ (label \in {"sched", "wait"} \/ k'.stat[t] = "ready")
  PROVE  MutexInv'
<1> USE DEF SignalGoes
<1>1. /\ IpcInv /\ IInv /\ pc \in [Thread -> PC] /\ k.stat[Idle] = "ready" /\ k.timer[Idle] = FALSE
      /\ k.cur = t /\ Idle \in Thread
  BY IpcFacts, IdleFacts DEF TakesInv, Running
<1>2. \A x \in Thread : pc'[x] = IF x = t THEN label ELSE pc[x]
  BY <1>1 DEF Goto
<1>3. IpcInv' /\ \A v \in Thread : Targeted(v)' <=> Targeted(v)
  <2>1. k'.stat[Idle] = "ready" /\ k'.timer[Idle] = FALSE
    BY <1>1 DEF Changes
  <2>2. \A w \in WaitList : \A v \in Elements(k'.list[w]) :
          v \in U => k'.stat[v] = "suspend" /\ IF v = t THEN label = "wait" ELSE Waiting(v)
    BY DEF Unlisted
  <2>3. label \in CallLabel \cup {"wait"} /\ pc[t] \in {"app", "waited", "drain1", "drain2"}
    BY DEF CallLabel
  <2>4. isr' = isr /\ arg' = arg /\ crit' = crit
    OBVIOUS
  <2>5. U \subseteq Thread /\ \A u \in U : ~Targeted(u)
    OBVIOUS
  <2>6. \/ Dispatched(k, k')
        \/ /\ k'.cur = k.cur
           /\ \/ label \in {"sched", "wait"} \/ k'.stat[t] = "ready"
              \/ (label = "waited" /\ Unlisted(t)')
    OBVIOUS
  <2>7. RunsSection(t, label, U)
    BY <2>1, <2>2, <2>3, <2>4, <2>5, <2>6 DEF RunsSection
  <2> QED BY <1>1, <2>7, ThreadSection
<1>4. \A x \in Thread : k'.stat[x] = "init" => k.stat[x] = "init"
  BY DEF Changes
<1>5. CallsInv'
  <2>1. NoDeleting'
    BY <1>2 DEF TakesInv, CallsInv, NoDeleting, Deleting
  <2>2. DrainsList'
    BY <1>2 DEF TakesInv, CallsInv, DrainsList, OnlyGoes
  <2>3. RunnerLinks'
    BY <1>1, <1>2 DEF RunnerLinks, Dispatched, Unscheduled
  <2>4. TargetsSafe'
    <3> SUFFICES ASSUME NEW x \in Thread, KillCall(x)'
                 PROVE  (k.stat[kill[x].to] # "init" /\ ~Targeted(kill[x].to))'
      BY DEF TargetsSafe
    <3>1. /\ kill'[x].to \in Thread
          /\ k.stat[kill'[x].to] # "init" /\ ~Targeted(kill'[x].to)
      BY DEF KillCall, OnlyGoes, Labels, TakesInv, CallsInv, TargetsSafe
    <3> QED BY <1>3, <1>4, <3>1
  <2>5. IdleQuiet'
    BY <1>1, <1>2 DEF TakesInv, CallsInv, IdleQuiet, InCall
  <2> QED BY <2>1, <2>2, <2>3, <2>4, <2>5 DEF CallsInv
<1>6. \A x \in Thread : /\ Takes(x)' <=> Takes(x)
                        /\ step'[x] = "link" => step[x] = "link"
  BY <1>2 DEF Takes, Waiting, OnlyGoes
<1>7. Detaching' => Detaching
  BY <1>2 DEF Detaching
<1> QED BY <1>3, <1>5, <1>6, <1>7, SignalMove


(* Who calls signal.c or handles a signal                                  *)
LEMMA SignalCaller ==
  ASSUME TakesInv, NEW t \in Thread, Running(t), (pc[t] = "app" /\ k.lock = 0) \/ pc[t] = "waited"
  PROVE  /\ k.lock = 0 /\ k.cur = t /\ k.stat[t] \in {"ready", "suspend"} /\ ~Targeted(t)
         /\ Unlisted(t) /\ pc[t] \in {"app", "waited"} /\ pc \in [Thread -> PC]
         /\ step[t] # "link" => k.stat[t] = "ready"
         /\ pc[t] = "waited" => t # Idle
<1>1. /\ IpcInv /\ RunnerLinks /\ pc \in [Thread -> PC]
  BY IpcFacts DEF TakesInv, CallsInv
<1>2. k.lock = 0
  BY <1>1 DEF IpcInv, WaitsUnlocked, Waiting, Running
<1>3. /\ k.cur = t /\ k.stat[t] \in {"ready", "suspend"} /\ ~Targeted(t)
      /\ \A w \in WaitList : t \notin Elements(k.list[w])
  BY <1>1, <1>2, CallerReady
<1>4. pc[t] = "waited" => t # Idle
  BY DEF TakesInv, CallsInv, IdleQuiet, InCall, IpcLabels
<1> QED BY <1>1, <1>2, <1>3, <1>4 DEF RunnerLinks, Unscheduled, Unlisted

(* It changes nothing that concerns the lists and states of threads.       *)
LEMMA SignalStill ==
  ASSUME TakesInv, OwnerTypes, Labels, LeadsAstray,
         NEW t \in Thread, step[t] # "link", NEW label, SignalGoes(t, label),
         \/ k' = k \/ k' = [k EXCEPT !.asserted = FALSE]
         \/ \E e \in Error : k' = SetError(k, t, e)
  PROVE  MutexInv'
<1>1. k \in KernelRecord /\ Consistent(k)
  BY IpcFacts DEF TakesInv
<1>2. /\ k' \in KernelRecord
      /\ k'.list = k.list /\ k'.stat = k.stat /\ k'.prio = k.prio /\ k'.mask = k.mask
      /\ k'.group = k.group /\ k'.timer = k.timer /\ k'.lock = k.lock /\ k'.cur = k.cur
  <2>1. CASE k' = k
    BY <1>1, <2>1
  <2>3. CASE k' = [k EXCEPT !.asserted = FALSE]
    BY <1>1, <2>3 DEF KernelRecord
  <2>2. ASSUME NEW e \in Error, k' = SetError(k, t, e)
        PROVE  /\ k' \in KernelRecord
               /\ k'.list = k.list /\ k'.stat = k.stat /\ k'.prio = k.prio /\ k'.mask = k.mask
               /\ k'.group = k.group /\ k'.timer = k.timer /\ k'.lock = k.lock /\ k'.cur = k.cur
    BY <1>1, <2>2 DEF SetError, KernelRecord
  <2> QED BY <2>1, <2>2, <2>3
<1>3. Changes(k, k', {})
  BY <1>1, <1>2, ChangesNothing
<1>4. k.stat[t] = "ready"
  BY SignalCaller DEF SignalGoes
<1> QED BY <1>2, <1>3, <1>4, SignalSection

(* The steps of rt_thread_kill up to its delivery                          *)
LEMMA KillStartMutex ==
  ASSUME TakesInv, OwnerTypes, NodesInv, LeadsAstray, NEW t \in Thread,
         NEW to \in work.sent, KillStart(t, to[1], to[2])
  PROVE  MutexInv'
<1>1. CASE Searches(to[1], to[2])
  <2>1. k \in KernelRecord
    BY IpcFacts DEF TakesInv
  <2>2. k'.asserted
    BY <1>1, <2>1 DEF KillStart, KernelRecord
  <2> QED BY <2>2, AstrayTypes DEF MutexInv
<1>2. CASE ~Searches(to[1], to[2])
  <2>1. /\ to[1] \in Thread /\ k.stat[to[1]] # "init" /\ ~Targeted(to[1])
        /\ Labels /\ Running(t) /\ t # Idle /\ pc[t] = "app" /\ k.lock = 0
    BY SignalAssumption DEF NodesInv, KillStart, Alive, Free, SigCall
  <2>2. OnlyGoes(t)
    BY CallGoes
  <2>3. step[t] = "none" /\ pc \in [Thread -> PC]
    BY <2>1, SignalCaller DEF Labels
  <2>4. step'[t] \in {"kill_find", "kill_alloc"} /\ Goto(t, "waited") /\ kill'[t].to = to[1]
        /\ (\A x \in Thread \ {t} : kill'[x] = kill[x]) /\ awaited' = awaited
        /\ UNCHANGED <<isr, arg, crit>>
    BY <2>1 DEF KillStart, Labels, OfThreads, GoStep
  <2>5. SignalGoes(t, "waited")
    BY <2>1, <2>2, <2>3, <2>4 DEF SignalGoes, Takes, Waiting
  <2>6. k' = [k EXCEPT !.asserted = FALSE]
    BY <1>2 DEF KillStart, Searches
  <2> QED BY <2>1, <2>3, <2>5, <2>6, SignalStill
<1> QED BY <1>1, <1>2

LEMMA KillAt ==
  ASSUME TakesInv, Labels, NEW t \in Thread,
         NEW s \in {"kill_find", "kill_alloc", "kill_link", "kill_test", "kill_deliver"}, AtStep(t, s)
  PROVE  /\ Running(t) /\ pc[t] = "waited" /\ step[t] = s /\ k.lock = 0 /\ k.stat[t] = "ready"
         /\ kill[t].to \in Thread /\ k.stat[kill[t].to] # "init" /\ ~Targeted(kill[t].to)
         /\ ~Takes(t) /\ pc \in [Thread -> PC] /\ t # Idle
<1>1. Running(t) /\ pc[t] = "waited" /\ step[t] = s
  BY DEF AtStep
<1>2. KillCall(t) /\ ~Takes(t) /\ step[t] # "link"
  BY <1>1 DEF KillCall, Takes
<1>3. kill[t].to \in Thread /\ k.stat[kill[t].to] # "init" /\ ~Targeted(kill[t].to)
  BY <1>2 DEF Labels, TakesInv, CallsInv, TargetsSafe
<1> QED BY <1>1, <1>2, <1>3, SignalCaller

LEMMA KillFindMutex ==
  ASSUME TakesInv, OwnerTypes, NodesInv, LeadsAstray, NEW t \in Thread, KillFind(t)
  PROVE  MutexInv'
<1> DEFINE r == LeaveCritical(EnterCritical(k))
<1>1. Labels /\ AtStep(t, "kill_find")
  BY DEF NodesInv, KillFind
<1>2. /\ Running(t) /\ pc[t] = "waited" /\ k.lock = 0
      /\ kill[t].to \in Thread /\ k.stat[kill[t].to] # "init" /\ ~Targeted(kill[t].to)
      /\ ~Takes(t) /\ pc \in [Thread -> PC] /\ t # Idle
  BY <1>1, KillAt
<1>3. OnlyGoes(t)
  BY CallGoes
<1>4. /\ Goto(t, "waited") /\ step'[t] = "kill_alloc" /\ UNCHANGED <<isr, arg, crit, awaited, kill>>
  BY <1>1, <1>2 DEF KillFind, GoStep, Goto, Labels, OfThreads
<1>5. SignalGoes(t, "waited")
  BY <1>2, <1>3, <1>4 DEF SignalGoes, Takes
<1>6. k \in KernelRecord /\ Consistent(k) /\ k.group # {}
  BY IpcFacts DEF TakesInv
<1>7. /\ r \in KernelRecord /\ Consistent(r)
      /\ r.list = k.list /\ r.stat = k.stat /\ r.prio = k.prio /\ r.mask = k.mask
      /\ r.group = k.group /\ SameRest(k, r)
  BY <1>6, LockPair
<1>8. k' = Schedule(r)
  BY DEF KillFind
<1> HIDE DEF r
<1>9. Changes(k, r, {})
  BY <1>6, <1>7, ChangesNothing DEF SameRest
<1>10. Changes(r, k', {}) /\ Dispatched(r, k')
  BY <1>6, <1>7, <1>8, ScheduleChanges
<1>11. Changes(k, k', {})
  <2>1. {} \cup {} = {} /\ {} \subseteq Thread
    OBVIOUS
  <2>2. Changes(k, k', {} \cup {})
    BY <1>6, <1>9, <1>10, <2>1, ChangesTwice
  <2> QED BY <2>1, <2>2
<1>12. Dispatched(k, k')
  BY <1>7, <1>10 DEF Dispatched, SameRest
<1> QED BY <1>1, <1>5, <1>11, <1>12, SignalSection

LEMMA KillGoesOn ==
  ASSUME TakesInv, OwnerTypes, NodesInv, LeadsAstray, NEW t \in Thread,
         KillAlloc(t) \/ KillLink(t) \/ KillTest(t)
  PROVE  MutexInv'
<1>1. Labels
  BY DEF NodesInv
<1>2. PICK s \in {"kill_alloc", "kill_link", "kill_test"} : AtStep(t, s)
  BY DEF KillAlloc, KillLink, KillTest
<1>3. /\ Running(t) /\ pc[t] = "waited" /\ step[t] = s /\ k.lock = 0
      /\ kill[t].to \in Thread /\ k.stat[kill[t].to] # "init" /\ ~Targeted(kill[t].to)
      /\ ~Takes(t) /\ pc \in [Thread -> PC] /\ t # Idle
  BY <1>1, <1>2, KillAt
<1>4. /\ UNCHANGED <<isr, arg, crit, awaited>>
      /\ OfThreads(step') /\ \A x \in Thread \ {t} : step'[x] = step[x] /\ kill'[x] = kill[x]
  BY <1>1 DEF KillAlloc, KillLink, KillTest, vars, GoStep, Return, Labels, OfThreads
<1>k. k' = k \/ k' = SetError(k, t, "ETIMEOUT")
  BY DEF KillAlloc, KillLink, KillTest, vars
<1>5. PICK label \in {"waited", "app"} :
        /\ Goto(t, label)
        /\ label = "waited" => step'[t] \in {"kill_link", "kill_test", "kill_deliver"} /\ kill' = kill
        /\ label = "app" => step'[t] = "none"
  BY <1>1, <1>3 DEF KillAlloc, KillLink, KillTest, vars, GoStep, Return, Labels, OfThreads, Goto
<1>6. OnlyGoes(t) /\ pc'[t] = label
  BY <1>1, <1>3, <1>4, <1>5 DEF OnlyGoes, Labels, OfThreads, Goto
<1>7. SignalGoes(t, label)
  <2>1. ~Takes(t)' /\ step'[t] # "link"
    BY <1>5, <1>6 DEF Takes, Waiting
  <2>2. KillCall(t)' => kill'[t].to = kill[t].to
    BY <1>5, <1>6 DEF KillCall
  <2> QED BY <1>3, <1>4, <1>5, <1>6, <2>1, <2>2 DEF SignalGoes
<1>8. "ETIMEOUT" \in Error
  BY DEF Error
<1> QED BY <1>1, <1>3, <1>k, <1>7, <1>8, SignalStill

(* Delivery                                                                *)
LEMMA KillDeliverMutex ==
  ASSUME TakesInv, OwnerTypes, NodesInv, LeadsAstray, NEW t \in Thread, KillDeliver(t)
  PROVE  MutexInv'
<1>1. Labels /\ AtStep(t, "kill_deliver")
  BY DEF NodesInv, KillDeliver
<1>u. PICK u \in Thread : u = kill[t].to
  BY <1>1, KillAt
<1>2. /\ Running(t) /\ pc[t] = "waited" /\ k.lock = 0 /\ k.stat[t] = "ready" /\ step[t] = "kill_deliver"
      /\ ~Targeted(u) /\ ~Takes(t) /\ pc \in [Thread -> PC] /\ t # Idle
  BY <1>1, <1>u, KillAt
<1>3. OnlyGoes(t)
  BY CallGoes
<1>4. PICK label \in {"app", "sched"} :
        Goto(t, label) /\ (k' = k \/ (k' = Resume(k, u) /\ k.stat[u] = "suspend" /\ label = "sched"))
  BY <1>u DEF KillDeliver, Return
<1>5. /\ UNCHANGED <<isr, arg, crit, awaited>> /\ step'[t] # "link"
      /\ \A x \in Thread \ {t} : kill'[x] = kill[x]
  BY <1>1 DEF KillDeliver, Return, Labels, OfThreads
<1>6. SignalGoes(t, label)
  <2>1. pc'[t] = label
    BY <1>2, <1>4 DEF Goto
  <2>2. ~Takes(t)' /\ ~KillCall(t)'
    BY <2>1 DEF Takes, Waiting, KillCall
  <2> QED BY <1>2, <1>3, <1>4, <1>5, <2>2 DEF SignalGoes
<1>7. CASE k' = k
  BY <1>1, <1>2, <1>6, <1>7, SignalStill
<1>8. CASE k' = Resume(k, u) /\ k.stat[u] = "suspend" /\ label = "sched"
  <2>1. k \in KernelRecord /\ Consistent(k) /\ k.stat[Idle] = "ready"
    BY IpcFacts DEF TakesInv
  <2>2. /\ Changes(k, k', {u}) /\ k'.stat = Update(k.stat, u, "ready") /\ k'.cur = k.cur
    BY <1>2, <1>8, <2>1, RaiseChanges
  <2>3. k'.stat[u] = "ready"
    BY <1>2, <2>1, <2>2 DEF Update, KernelRecord
  <2>4. Unlisted(u)'
    BY <1>2, <2>2, <2>3, QueuedNotWaiting DEF Changes, Unlisted
  <2>5. {u} \subseteq Thread \ {Idle}
    BY <1>2, <1>8, <2>1
  <2> QED BY <1>1, <1>2, <1>6, <1>8, <2>2, <2>3, <2>4, <2>5, SignalSection
<1> QED BY <1>4, <1>7, <1>8

(* rt_signal_mask, rt_signal_unmask                                        *)
LEMMA MaskMutex ==
  ASSUME TakesInv, OwnerTypes, NodesInv, LeadsAstray, NEW t \in Thread, NEW s,
         SignalMask(t, s) \/ SignalUnmask(t, s)
  PROVE  MutexInv'
<1>1. /\ Labels /\ Running(t) /\ t # Idle /\ pc[t] = "app" /\ k.lock = 0
      /\ k' = k /\ UNCHANGED <<isr, arg, crit, awaited>>
  BY DEF NodesInv, SignalMask, SignalUnmask, SigCall, vars
<1>2. step[t] = "none" /\ pc \in [Thread -> PC] /\ ~Targeted(t) /\ k.stat[t] = "ready"
  <2>1. step[t] = "none"
    BY <1>1 DEF Labels
  <2> QED BY <1>1, <2>1, SignalCaller
<1>3. OnlyGoes(t)
  <2>1. SignalMask(t, s) => UNCHANGED step
    BY DEF SignalMask, objVars
  <2> QED BY <2>1, CallGoes
<1>4. /\ \A x \in Thread \ {t} : kill'[x] = kill[x]
      /\ \/ Goto(t, "app") /\ step'[t] = "none"
         \/ Goto(t, "waited") /\ step'[t] = "kill_test" /\ kill'[t].to = t
  <2>1. CASE pc' = pc /\ step' = step /\ kill' = kill
    BY <1>1, <1>2, <2>1 DEF Goto
  <2>2. CASE SignalUnmask(t, s) /\ ~(pc' = pc /\ step' = step /\ kill' = kill)
    BY <1>2, <2>2 DEF SignalUnmask, NoKill, GoStep, Labels, OfThreads, NodesInv
  <2> QED BY <2>1, <2>2 DEF SignalMask, vars, objVars
<1>5. PICK label \in {"app", "waited"} : SignalGoes(t, label)
  <2>1. CASE Goto(t, "app") /\ step'[t] = "none"
    <3>1. pc'[t] = "app"
      BY <1>2, <2>1 DEF Goto
    <3>2. ~Takes(t) /\ ~Takes(t)' /\ ~KillCall(t)'
      BY <1>1, <3>1 DEF Takes, Waiting, KillCall
    <3>3. SignalGoes(t, "app")
      BY <1>1, <1>2, <1>3, <1>4, <2>1, <3>2 DEF SignalGoes
    <3> QED BY <3>3
  <2>2. CASE Goto(t, "waited") /\ step'[t] = "kill_test" /\ kill'[t].to = t
    <3>1. ~Takes(t) /\ ~Takes(t)'
      BY <1>1, <2>2 DEF Takes, Waiting
    <3>2. SignalGoes(t, "waited")
      BY <1>1, <1>2, <1>3, <1>4, <2>2, <3>1 DEF SignalGoes
    <3> QED BY <3>2
  <2> QED BY <1>4, <2>1, <2>2
<1> QED BY <1>1, <1>2, <1>5, SignalStill

(* rt_signal_wait *)
LEMMA SignalWaitMutex ==
  ASSUME TakesInv, OwnerTypes, NodesInv, LeadsAstray, NEW t \in Thread, NEW set, set # {},
         NEW time, SignalWait(t, set, time), OfThreads(awaited)
  PROVE  MutexInv'
<1>1. /\ Labels /\ Running(t) /\ pc[t] = "app" /\ k.lock = 0 /\ t # Idle
      /\ UNCHANGED <<isr, arg, crit, kill, step>>
  BY DEF NodesInv, SignalWait, SigCall
<1>2. /\ step[t] = "none" /\ pc \in [Thread -> PC] /\ ~Targeted(t) /\ k.stat[t] = "ready"
      /\ Unlisted(t) /\ ~Takes(t) /\ ~KillCall(t)
  <2>1. step[t] = "none" /\ ~Takes(t) /\ ~KillCall(t)
    BY <1>1 DEF Labels, Takes, Waiting, KillCall
  <2> QED BY <1>1, <2>1, SignalCaller
<1>3. OnlyGoes(t)
  BY CallGoes
<1>4. CASE TakeSignal(t, set, k) /\ UNCHANGED <<pc, awaited>>
  <2>1. CASE k' = k
    <3>1. Goto(t, "app")
      BY <1>1, <1>2, <1>4 DEF Goto
    <3>2. ~Takes(t)' /\ ~KillCall(t)'
      BY <1>1, <1>4 DEF Takes, Waiting, KillCall
    <3>3. SignalGoes(t, "app")
      BY <1>1, <1>2, <1>3, <1>4, <3>1, <3>2 DEF SignalGoes
    <3> QED BY <1>1, <1>2, <2>1, <3>3, SignalStill
  <2>2. CASE k' = [k EXCEPT !.asserted = TRUE]
    <3>1. k'.asserted
      BY <2>2, IpcFacts DEF TakesInv, KernelRecord
    <3> QED BY <3>1, AstrayTypes DEF MutexInv
  <2> QED BY <1>4, <2>1, <2>2 DEF TakeSignal
<1>5. CASE /\ k' = StartTimer(Suspend(k, t), t) \/ k' = Suspend(k, t)
           /\ awaited' = [awaited EXCEPT ![t] = set] /\ Goto(t, "wait")
  <2>1. k \in KernelRecord /\ Consistent(k)
    BY IpcFacts DEF TakesInv
  <2>2. /\ Changes(k, k', {t}) /\ TakesFrom(k, k', t) /\ k'.cur = k.cur
        /\ k'.stat = Update(k.stat, t, "suspend")
    BY <1>2, <1>5, <2>1, SuspendChanges
  <2>3. k'.stat[t] # k.stat[t]
    BY <1>2, <2>1, <2>2 DEF Update, KernelRecord
  <2>4. Unlisted(t)'
    <3>1. \A w \in WaitList : Elements(k'.list[w]) = Elements(k.list[w]) \ {t}
      BY <2>1, <2>2, WaitTakes DEF TakesFrom
    <3> QED BY <3>1 DEF Unlisted
  <2>5. awaited'[t] = set /\ \A x \in Thread \ {t} : awaited'[x] = awaited[x]
    BY <1>5 DEF OfThreads
  <2>6. ~Takes(t)' /\ ~KillCall(t)'
    BY <1>1, <1>2, <2>5 DEF Takes, KillCall
  <2>7. SignalGoes(t, "wait")
    BY <1>1, <1>2, <1>3, <1>5, <2>5, <2>6 DEF SignalGoes
  <2>8. {t} \subseteq Thread \ {Idle}
    BY <1>1
  <2> QED BY <1>1, <1>2, <2>2, <2>3, <2>4, <2>7, <2>8, SignalSection
<1> QED BY <1>4, <1>5 DEF SignalWait

(* and the rest of it                                                      *)
LEMMA SignalWokenMutex ==
  ASSUME TakesInv, OwnerTypes, NodesInv, LeadsAstray, NEW t \in Thread, SignalWoken(t),
         OfThreads(awaited)
  PROVE  MutexInv'
<1>1. /\ Labels /\ Running(t) /\ pc[t] = "waited" /\ step[t] = "none" /\ awaited[t] # {}
      /\ UNCHANGED <<isr, arg, crit, kill>> /\ Goto(t, "app") /\ step'[t] # "link"
      /\ \A x \in Thread \ {t} : awaited'[x] = awaited[x]
  BY DEF NodesInv, SignalWoken, Woken, AtStep, Return, OfThreads, Labels
<1>2. k.lock = 0 /\ pc \in [Thread -> PC] /\ t # Idle
  BY <1>1, SignalCaller
<1>3. OnlyGoes(t)
  BY CallGoes
<1>4. SignalGoes(t, "app")
  <2>1. pc'[t] = "app"
    BY <1>1, <1>2 DEF Goto
  <2>2. ~Takes(t) /\ ~Takes(t)' /\ ~KillCall(t)'
    BY <1>1, <2>1 DEF Takes, Waiting, KillCall
  <2> QED BY <1>1, <1>2, <1>3, <2>2 DEF SignalGoes
<1>5. CASE k' = [k EXCEPT !.asserted = TRUE]
  <2>1. k'.asserted
    BY <1>5, IpcFacts DEF TakesInv, KernelRecord
  <2> QED BY <2>1, AstrayTypes DEF MutexInv
<1>6. CASE k' = k \/ k' = SetError(k, t, "EOK")
  <2>1. "EOK" \in Error
    BY DEF Error
  <2> QED BY <1>1, <1>4, <1>6, <2>1, SignalStill
<1> QED BY <1>5, <1>6 DEF SignalWoken, TakeSignal

(* Steps of handlers and of interrupts, in which no thread goes on: they   *)
(* make the threads U ready.                                               *)
LEMMA SignalStays ==
  ASSUME TakesInv, OwnerTypes, Labels, LeadsAstray, isr = "none",
         UNCHANGED <<isr, pc, arg, crit, step, awaited, kill>>,
         NEW U, Readies(k, k', U),
         \A u \in U : ~Targeted(u) /\ u # Idle /\ k.stat[u] = "suspend"
  PROVE  MutexInv'
<1>1. IpcInv' /\ \A v \in Thread : Targeted(v)' <=> Targeted(v)
  BY IsrSection DEF TakesInv
<1>2. U \subseteq Thread /\ Changes(k, k', U) /\ \A u \in U : k'.stat[u] = "ready"
  BY DEF Readies
<1>3. \A u \in U : Unlisted(u)'
  <2> SUFFICES ASSUME NEW u \in U PROVE Unlisted(u)'
    OBVIOUS
  <2>1. u \in Thread /\ u \in Elements(k'.list[k'.prio[u]])
    BY <1>2 DEF Changes
  <2> QED BY <1>2, <2>1, QueuedNotWaiting DEF Changes, Unlisted
<1>4. CallsInv'
  <2>1. NoDeleting' /\ DrainsList'
    BY DEF TakesInv, CallsInv, NoDeleting, DrainsList
  <2>2. RunnerLinks'
    <3> SUFFICES ASSUME NEW t \in Thread, k'.cur = t, k'.lock = 0, pc[t] \notin Unscheduled
                 PROVE  k'.stat[t] = "ready" \/ step[t] = "link"
      BY DEF RunnerLinks
    <3>1. CASE k'.cur = k.cur
      <4>1. k.stat[t] = "ready" \/ step[t] = "link"
        BY <1>2, <3>1 DEF TakesInv, CallsInv, RunnerLinks, Changes
      <4> QED BY <1>2, <4>1 DEF Changes
    <3>2. CASE k'.cur # k.cur
      BY <3>2 DEF Readies, Switches
    <3> QED BY <3>1, <3>2
  <2>3. TargetsSafe'
    <3> SUFFICES ASSUME NEW x \in Thread, KillCall(x)'
                 PROVE  k'.stat[kill[x].to] # "init" /\ ~Targeted(kill[x].to)'
      BY DEF TargetsSafe
    <3>1. KillCall(x)
      BY DEF KillCall
    <3>2. /\ kill[x].to \in Thread /\ k.stat[kill[x].to] # "init" /\ ~Targeted(kill[x].to)
      BY <3>1 DEF Labels, TakesInv, CallsInv, TargetsSafe
    <3>3. k'.stat[kill[x].to] # "init"
      BY <1>2, <3>2 DEF Changes
    <3>4. PICK u \in Thread : u = kill[x].to
      BY <3>2
    <3> QED BY <1>1, <3>2, <3>3, <3>4
  <2>4. IdleQuiet'
    BY DEF TakesInv, CallsInv, IdleQuiet, InCall
  <2> QED BY <2>1, <2>2, <2>3, <2>4 DEF CallsInv
<1>5. \A x \in Thread : (Takes(x)' <=> Takes(x)) /\ (step'[x] = "link" => step[x] = "link")
  BY DEF Takes, Waiting
<1>6. Detaching' => Detaching
  BY DEF Detaching
<1>7. \A u \in U : k'.stat[u] # k.stat[u]
  BY <1>2
<1> QED BY <1>1, <1>2, <1>3, <1>4, <1>5, <1>6, <1>7, SignalMove

(* rt_thread_handle_sig, the end of _signal_entry                          *)
LEMMA HandleMutex ==
  ASSUME TakesInv, OwnerTypes, Labels, LeadsAstray, NEW t \in Thread, UNCHANGED objVars,
         HandleCheck(t) \/ HandleNext(t) \/ SignalEntryEnd(t)
  PROVE  MutexInv'
<1>1. isr = "none" /\ UNCHANGED <<isr, pc, arg, crit, step, awaited, kill>>
  BY DEF HandleCheck, HandleNext, SignalEntryEnd, Running, objVars, vars
<1>2. k \in KernelRecord /\ Consistent(k) /\ k.group # {}
  BY IpcFacts DEF TakesInv
<1>3. CASE k' = k
  <2>1. Readies(k, k', {})
    BY <1>2, <1>3, ScheduleReadies
  <2> QED BY <1>1, <2>1, SignalStays
<1>4. CASE k' = SetError(k, t, "EINTR")
  <2>1. Readies(k, k', {})
    BY <1>2, <1>4, ErrorReadies DEF Error
  <2> QED BY <1>1, <2>1, SignalStays
<1>5. CASE k' = [k EXCEPT !.asserted = TRUE]
  <2>1. k'.asserted
    BY <1>2, <1>5 DEF KernelRecord
  <2> QED BY <2>1, AstrayTypes DEF MutexInv
<1> QED BY <1>3, <1>4, <1>5 DEF HandleCheck, HandleNext, SignalEntryEnd, vars

(* All of rt_thread_kill in an interrupt                                   *)
LEMMA KillIsrMutex ==
  ASSUME TakesInv, OwnerTypes, Labels, LeadsAstray, NEW u \in Thread, NEW s, KillIsr(u, s),
         UNCHANGED objVars
  PROVE  MutexInv'
<1>1. /\ isr = "none" /\ UNCHANGED <<isr, pc, arg, crit, step, awaited, kill>>
      /\ ~Targeted(u) /\ u # Idle
  BY DEF KillIsr, Alive, Free, objVars
<1>2. k \in KernelRecord /\ Consistent(k) /\ k.group # {}
  BY IpcFacts DEF TakesInv
<1>3. CASE k' = [k EXCEPT !.asserted = TRUE]
  <2>1. k'.asserted
    BY <1>2, <1>3 DEF KernelRecord
  <2> QED BY <2>1, AstrayTypes DEF MutexInv
<1>4. ASSUME NEW m, m = k \/ m = Schedule(k),
             \/ k' = m \/ k' = Schedule(m) \/ k' = SetError(m, u, "EINTR")
             \/ m.stat[u] = "suspend" /\ k' = Schedule(Resume(m, u))
      PROVE  MutexInv'
  <2>1. Readies(k, m, {}) /\ m.stat = k.stat
    BY <1>2, <1>4, ScheduleReadies
  <2>2. m \in KernelRecord /\ Consistent(m) /\ m.group # {}
    BY <2>1 DEF Readies, Changes
  <2>3. CASE k' = m \/ k' = Schedule(m) \/ k' = SetError(m, u, "EINTR")
    <3>1. Readies(m, k', {})
      BY <2>2, <2>3, ScheduleReadies, ErrorReadies DEF Error
    <3>2. Readies(k, k', {} \cup {})
      BY <1>2, <2>1, <3>1, ReadiesTwice
    <3>3. {} \cup {} = {}
      OBVIOUS
    <3> QED BY <1>1, <3>2, <3>3, SignalStays
  <2>4. CASE m.stat[u] = "suspend" /\ k' = Schedule(Resume(m, u))
    <3> DEFINE n == Resume(m, u)
    <3>1. Readies(m, n, {u})
      BY <2>2, <2>4, RaiseReadies
    <3>2. k' = Schedule(n)
      BY <2>4
    <3> HIDE DEF n
    <3>3. Readies(n, k', {})
      BY <3>1, <3>2, ScheduleReadies DEF Readies, Changes
    <3>4. Readies(k, n, {} \cup {u})
      BY <1>2, <2>1, <3>1, ReadiesTwice
    <3>5. Readies(k, k', ({} \cup {u}) \cup {})
      BY <1>2, <3>3, <3>4, ReadiesTwice
    <3>6. ({} \cup {u}) \cup {} = {u}
      OBVIOUS
    <3>7. k.stat[u] = "suspend"
      BY <2>1, <2>4
    <3> QED BY <1>1, <3>5, <3>6, <3>7, SignalStays
  <2> QED BY <1>4, <2>3, <2>4
<1>5. ASSUME NEW m, NEW pending, NEW list, NEW free, IsrDeliver(u, m, pending, list, free)
      PROVE  \/ k' = m \/ k' = Schedule(m) \/ k' = SetError(m, u, "EINTR")
             \/ m.stat[u] = "suspend" /\ k' = Schedule(Resume(m, u))
  BY <1>5 DEF IsrDeliver
<1> QED BY <1>3, <1>4, <1>5 DEF KillIsr

-----------------------------------------------------------------------------
(* The calls of the mutex.                                                 *)

(* A section of such a call moves t and nobody else.                       *)
MutexGoes(t, label) ==
  /\ Running(t) /\ t # Idle /\ Goto(t, label) /\ label \notin Resuming \cup Deleting
  /\ OnlyGoes(t) /\ UNCHANGED <<kill, awaited, isr, arg, crit>>
  /\ k'.cur = k.cur /\ ~KillCall(t)'
  /\ label = "drain2" => step'[t] \in WaitList
  /\ k'.lock = 0 /\ label \notin Unscheduled => k'.stat[t] = "ready" \/ step'[t] = "link"

(* What it does to the calls, and to the other threads that take the mutex *)
LEMMA MutexCalls ==
  ASSUME TakesInv, Labels, NEW t \in Thread, NEW label, MutexGoes(t, label),
         \A x \in Thread : k'.stat[x] = "init" => k.stat[x] = "init"
  PROVE  CallsInv' /\ \A x \in Thread \ {t} : Takes(x)' <=> Takes(x)
<1> USE DEF MutexGoes
<1>1. /\ IpcInv /\ pc \in [Thread -> PC] /\ k.cur = t /\ Idle \in Thread
  BY IpcFacts DEF TakesInv, Running
<1>2. \A x \in Thread : pc'[x] = IF x = t THEN label ELSE pc[x]
  BY <1>1 DEF Goto
<1>3. \A v \in Thread : Targeted(v)' => Targeted(v)
  BY <1>1, <1>2 DEF Targeted, Target
<1>4. NoDeleting' /\ DrainsList'
  BY <1>2 DEF TakesInv, CallsInv, NoDeleting, DrainsList, OnlyGoes
<1>5. RunnerLinks'
  BY <1>1, <1>2 DEF RunnerLinks
<1>6. IdleQuiet'
  BY <1>1, <1>2 DEF TakesInv, CallsInv, IdleQuiet, InCall
<1>7. TargetsSafe'
  <2> SUFFICES ASSUME NEW x \in Thread, KillCall(x)'
               PROVE  k'.stat[kill[x].to] # "init" /\ ~Targeted(kill[x].to)'
    BY DEF TargetsSafe
  <2>1. KillCall(x)
    BY DEF KillCall, OnlyGoes
  <2>2. kill[x].to \in Thread /\ k.stat[kill[x].to] # "init" /\ ~Targeted(kill[x].to)
    BY <2>1 DEF Labels, TakesInv, CallsInv, TargetsSafe
  <2>3. PICK u \in Thread : u = kill[x].to
    BY <2>2
  <2> QED BY <1>3, <2>2, <2>3
<1>8. \A x \in Thread \ {t} : Takes(x)' <=> Takes(x)
  BY <1>2 DEF Takes, Waiting, OnlyGoes
<1> QED BY <1>4, <1>5, <1>6, <1>7, <1>8 DEF CallsInv

(* A section in which rt_schedule is not locked, which changes the threads *)
(* U                                                                       *)
LEMMA MutexRuns ==
  ASSUME TakesInv, Labels, NEW t \in Thread, NEW label, MutexGoes(t, label),
         NEW U, RunsSection(t, label, U),
         \A w \in WaitList : \A v \in Elements(k'.list[w]) : v \in U => v = t /\ Takes(t)'
  PROVE  /\ IpcInv' /\ CallsInv' /\ ListsTake'
         /\ \A x \in Thread \ {t} : Takes(x)' <=> Takes(x)
<1>1. IpcInv' /\ Unlisted(t)
  <2>1. IpcInv
    BY DEF TakesInv
  <2>2. Running(t) /\ k.lock = 0 /\ pc[t] \in {"app", "waited", "drain1", "drain2"}
    BY DEF RunsSection
  <2>3. Unlisted(t)
    BY <2>1, <2>2, CallerReady DEF Unlisted
  <2>4. IpcInv'
    BY <2>1, ThreadSection
  <2> QED BY <2>3, <2>4
<1>2. \A x \in Thread : k'.stat[x] = "init" => k.stat[x] = "init"
  BY DEF RunsSection, Changes
<1>3. CallsInv' /\ \A x \in Thread \ {t} : Takes(x)' <=> Takes(x)
  BY <1>2, MutexCalls
<1>4. ListsTake'
  <2> SUFFICES ASSUME NEW w \in WaitList, NEW v \in Elements(k'.list[w]), v \notin U
               PROVE  Takes(v)'
    BY DEF ListsTake
  <2>1. v \in Elements(k.list[w])
    BY WaitQueue DEF RunsSection, Changes
  <2>2. v \in Thread /\ v # t /\ Takes(v)
    BY <1>1, <2>1, IpcFacts DEF TakesInv, ListsTake, Unlisted
  <2> QED BY <1>3, <2>2
<1> QED BY <1>1, <1>3, <1>4

(* The state of a thread that calls the mutex                              *)
LEMMA MutexCaller ==
  ASSUME TakesInv, Labels, NEW t \in Thread, NEW op, MutexCall(t, op)
  PROVE  /\ Running(t) /\ pc[t] = "app" /\ t # Idle /\ k.lock = 0 /\ Usable
         /\ k.stat[t] = "ready" /\ Unlisted(t) /\ step[t] = "none"
         /\ ~Takes(t) /\ ~KillCall(t) /\ k.cur = t
<1>1. Running(t) /\ pc[t] = "app" /\ t # Idle /\ k.lock = 0 /\ Usable
  BY DEF MutexCall, ObjCall
<1>2. step[t] = "none"
  BY <1>1 DEF Labels
<1>3. ~Takes(t) /\ ~KillCall(t)
  BY <1>1 DEF Takes, Waiting, KillCall
<1> QED BY <1>1, <1>2, <1>3, SignalCaller

(* One that is back from its rt_schedule, and has not been led astray      *)
LEMMA MutexWoken ==
  ASSUME TakesInv, Labels, NEW t \in Thread, Woken(t), awaited[t] = {}
  PROVE  /\ Running(t) /\ pc[t] = "waited" /\ step[t] = "none" /\ t # Idle /\ k.lock = 0
         /\ k.stat[t] = "ready" /\ Unlisted(t) /\ Takes(t) /\ ~KillCall(t) /\ k.cur = t
         /\ t \notin astray =>
              /\ held[t] = 0
              /\ \/ k.error[t] \in {"ETIMEOUT", "ERROR"} /\ owner # t
                 \/ k.error[t] = "EOK" /\ owner = t /\ hold = 1
<1>1. Running(t) /\ pc[t] = "waited" /\ step[t] = "none"
  BY DEF Woken, AtStep
<1>2. Takes(t) /\ ~KillCall(t)
  BY <1>1 DEF Takes, Waiting, KillCall
<1>3. t # Idle /\ k.lock = 0 /\ k.stat[t] = "ready" /\ Unlisted(t) /\ k.cur = t
  BY <1>1, SignalCaller
<1>4. OwnedOf(t)
  BY DEF TakesInv
<1> QED BY <1>1, <1>2, <1>3, <1>4 DEF OwnedOf, Answered

(* Where the calls go, by MutexLabels                                      *)
LEMMA MutexOnly ==
  ASSUME Labels, NEW t \in Thread, MutexStep(t), UNCHANGED sigVars
  PROVE  OnlyGoes(t) /\ OfThreads(step) /\ OfThreads(pc) /\ UNCHANGED <<kill, awaited>>
BY MutexLabels DEF Labels, sigVars

(* A section that changes nothing that concerns the lists and states       *)
LEMMA MutexStill ==
  ASSUME TakesInv, Labels, NEW t \in Thread, NEW label \in {"app", "sched"}, MutexGoes(t, label),
         k.lock = 0, pc[t] \in {"app", "waited"}, k.stat[t] = "ready",
         k' = k \/ \E e \in Error : k' = SetError(k, t, e)
  PROVE  /\ IpcInv' /\ CallsInv' /\ ListsTake'
         /\ \A x \in Thread \ {t} : /\ Takes(x)' <=> Takes(x)
                                    /\ k'.error[x] = k.error[x]
         /\ k'.stat = k.stat /\ k'.list = k.list /\ ~Takes(t)' /\ (Detaching' <=> Detaching)
<1>1. /\ k \in KernelRecord /\ Consistent(k) /\ k.stat[Idle] = "ready" /\ k.timer[Idle] = FALSE
      /\ pc \in [Thread -> PC]
  BY IpcFacts, IdleFacts DEF TakesInv
<1>2. /\ k' \in KernelRecord
      /\ k'.list = k.list /\ k'.stat = k.stat /\ k'.prio = k.prio /\ k'.mask = k.mask
      /\ k'.group = k.group /\ k'.timer = k.timer /\ k'.lock = k.lock /\ k'.cur = k.cur
      /\ \A x \in Thread \ {t} : k'.error[x] = k.error[x]
  <2>1. CASE k' = k
    BY <1>1, <2>1
  <2>2. ASSUME NEW e \in Error, k' = SetError(k, t, e)
        PROVE  /\ k' \in KernelRecord
               /\ k'.list = k.list /\ k'.stat = k.stat /\ k'.prio = k.prio /\ k'.mask = k.mask
               /\ k'.group = k.group /\ k'.timer = k.timer /\ k'.lock = k.lock /\ k'.cur = k.cur
               /\ \A x \in Thread \ {t} : k'.error[x] = k.error[x]
    BY <1>1, <2>2 DEF SetError, KernelRecord
  <2> QED BY <2>1, <2>2
<1>3. Changes(k, k', {})
  BY <1>1, <1>2, ChangesNothing
<1>4. RunsSection(t, label, {})
  BY <1>1, <1>2, <1>3 DEF RunsSection, MutexGoes, CallLabel
<1>5. /\ IpcInv' /\ CallsInv' /\ ListsTake'
      /\ \A x \in Thread \ {t} : Takes(x)' <=> Takes(x)
  BY <1>4, MutexRuns
<1>6. \A x \in Thread : pc'[x] = IF x = t THEN label ELSE pc[x]
  BY <1>1 DEF MutexGoes, Goto
<1>7. ~Takes(t)' /\ (Detaching' <=> Detaching)
  BY <1>6 DEF Takes, Waiting, Detaching
<1> QED BY <1>2, <1>5, <1>7

(* A thread that has nothing to do with the ownership of the mutex         *)
LEMMA OwnedOther ==
  ASSUME NEW x, OwnedOf(x), astray' = astray, Takes(x)' <=> Takes(x),
         step'[x] = "link" => step[x] = "link", held'[x] = held[x], owner # x, owner' # x,
         Takes(x) => /\ k'.stat[x] = k.stat[x] /\ k'.error[x] = k.error[x]
                     /\ x \in Elements(k.list[Mtx]) => x \in Elements(k'.list[Mtx])
  PROVE  OwnedOf(x)'
BY DEF OwnedOf, Answered

(* rt_mutex_take that does not wait                                        *)
LEMMA TakeAgainMutex ==
  ASSUME TakesInv, OwnerTypes, Labels, NEW t \in Thread, MutexTakeAgain(t), OnlyGoes(t),
         UNCHANGED <<kill, awaited>>
  PROVE  MutexInv'
<1>1. /\ Running(t) /\ pc[t] = "app" /\ t # Idle /\ k.lock = 0 /\ Usable
      /\ k.stat[t] = "ready" /\ step[t] = "none" /\ ~Takes(t) /\ ~KillCall(t)
  BY MutexCaller DEF MutexTakeAgain
<1>2. /\ k' = SetError(k, t, "EOK") /\ UNCHANGED <<isr, pc, arg, crit, objVars>> /\ owner = t
      /\ UNCHANGED <<value, owner, original_priority, astray>> /\ hold' = hold + 1
      /\ held' = IF t \in astray THEN held ELSE [held EXCEPT ![t] = @ + 1]
  BY DEF MutexTakeAgain, Holds
<1>3. /\ k \in KernelRecord /\ pc \in [Thread -> PC] /\ NoThread \notin Thread
      /\ \A x \in Thread : OwnedOf(x)
  BY IpcFacts DEF TakesInv
<1>4. k'.cur = k.cur /\ k'.stat = k.stat /\ "EOK" \in Error
  BY <1>2, <1>3 DEF SetError, KernelRecord, Error
<1>5. MutexGoes(t, "app")
  <2>1. Goto(t, "app")
    BY <1>1, <1>2, <1>3 DEF Goto
  <2>2. ~KillCall(t)'
    BY <1>1, <1>2 DEF KillCall
  <2> QED BY <1>1, <1>2, <1>4, <2>1, <2>2 DEF MutexGoes, Resuming, Deleting, objVars
<1>6. /\ IpcInv' /\ CallsInv' /\ ListsTake'
      /\ \A x \in Thread \ {t} : (Takes(x)' <=> Takes(x)) /\ k'.error[x] = k.error[x]
      /\ k'.list = k.list /\ ~Takes(t)'
  BY <1>1, <1>2, <1>4, <1>5, MutexStill
<1>7. OwnerTypes'
  BY <1>2, <1>3 DEF OwnerTypes, OfThreads
<1>8. \A x \in Thread : OwnedOf(x)'
  <2>1. \A x \in Thread \ {t} : held'[x] = held[x]
    BY <1>2 DEF OwnerTypes, OfThreads
  <2>2. \A x \in Thread \ {t} : OwnedOf(x)'
    BY <1>2, <1>3, <1>4, <1>6, <2>1, OwnedOther DEF objVars
  <2>3. OwnedOf(t)'
    BY <1>1, <1>2, <1>3, <1>6 DEF OwnedOf, OwnerTypes, OfThreads, objVars, Usable
  <2> QED BY <2>2, <2>3
<1> QED BY <1>6, <1>7, <1>8 DEF MutexInv, TakesInv

LEMMA TakeMutex ==
  ASSUME TakesInv, OwnerTypes, Labels, NEW t \in Thread, MutexTake(t), OnlyGoes(t),
         UNCHANGED <<kill, awaited>>
  PROVE  MutexInv'
<1>1. /\ Running(t) /\ pc[t] = "app" /\ t # Idle /\ k.lock = 0 /\ Usable
      /\ k.stat[t] = "ready" /\ step[t] = "none" /\ ~Takes(t) /\ ~KillCall(t)
  BY MutexCaller DEF MutexTake
<1>2. /\ k' = SetError(k, t, "EOK") /\ UNCHANGED <<isr, pc, arg, crit, objVars, astray>>
      /\ owner = NoThread /\ value' = 0 /\ owner' = t /\ hold' = 1
      /\ original_priority' = k.prio[t]
      /\ held' = IF t \in astray THEN held ELSE [held EXCEPT ![t] = @ + 1]
  BY DEF MutexTake, Holds, OwnerTypes
<1>3. /\ k \in KernelRecord /\ pc \in [Thread -> PC] /\ NoThread \notin Thread
      /\ \A x \in Thread : OwnedOf(x)
  BY IpcFacts DEF TakesInv
<1>4. k'.cur = k.cur /\ k'.stat = k.stat /\ "EOK" \in Error /\ k.prio[t] \in Prio
  BY <1>2, <1>3 DEF SetError, KernelRecord, Error
<1>5. MutexGoes(t, "app")
  <2>1. Goto(t, "app")
    BY <1>1, <1>2, <1>3 DEF Goto
  <2>2. ~KillCall(t)'
    BY <1>1, <1>2 DEF KillCall
  <2> QED BY <1>1, <1>2, <1>4, <2>1, <2>2 DEF MutexGoes, Resuming, Deleting, objVars
<1>6. /\ IpcInv' /\ CallsInv' /\ ListsTake'
      /\ \A x \in Thread \ {t} : (Takes(x)' <=> Takes(x)) /\ k'.error[x] = k.error[x]
      /\ k'.list = k.list /\ ~Takes(t)'
  BY <1>1, <1>2, <1>4, <1>5, MutexStill
<1>7. \A x \in Thread \ astray : held[x] = 0
  BY <1>2, <1>3 DEF OwnerTypes
<1>8. \A x \in Thread \ {t} : held'[x] = held[x]
  BY <1>2 DEF OwnerTypes, OfThreads
<1>9. /\ OfThreads(held') /\ held'[t] = IF t \in astray THEN held[t] ELSE 1
  BY <1>2, <1>7 DEF OwnerTypes, OfThreads
<1>10. OwnerTypes'
  BY <1>2, <1>4, <1>7, <1>8, <1>9 DEF OwnerTypes, OfThreads
<1>11. \A x \in Thread : OwnedOf(x)'
  <2>1. \A x \in Thread \ {t} : OwnedOf(x)'
    BY <1>2, <1>3, <1>4, <1>6, <1>8, OwnedOther DEF objVars
  <2>2. OwnedOf(t)'
    BY <1>1, <1>2, <1>3, <1>6, <1>9 DEF OwnedOf, objVars
  <2> QED BY <2>1, <2>2
<1> QED BY <1>6, <1>10, <1>11 DEF MutexInv, TakesInv

LEMMA RefuseMutex ==
  ASSUME TakesInv, OwnerTypes, Labels, NEW t \in Thread, MutexRefuse(t), OnlyGoes(t),
         UNCHANGED <<kill, awaited>>
  PROVE  MutexInv'
<1>1. /\ Running(t) /\ pc[t] = "app" /\ t # Idle /\ k.lock = 0 /\ Usable
      /\ k.stat[t] = "ready" /\ step[t] = "none" /\ ~Takes(t) /\ ~KillCall(t)
  BY MutexCaller DEF MutexRefuse
<1>2. PICK e \in {"ETIMEOUT", "ERROR"} : k' = SetError(k, t, e)
  BY DEF MutexRefuse
<1>3. UNCHANGED <<isr, pc, arg, crit, objVars, mutexVars>>
  BY DEF MutexRefuse
<1>4. /\ k \in KernelRecord /\ pc \in [Thread -> PC]
      /\ \A x \in Thread : OwnedOf(x)
  BY IpcFacts DEF TakesInv
<1>5. k'.cur = k.cur /\ k'.stat = k.stat /\ e \in Error
  BY <1>2, <1>4 DEF SetError, KernelRecord, Error
<1>6. MutexGoes(t, "app")
  <2>1. Goto(t, "app")
    BY <1>1, <1>3, <1>4 DEF Goto
  <2>2. ~KillCall(t)'
    BY <1>1, <1>3 DEF KillCall
  <2> QED BY <1>1, <1>3, <1>5, <2>1, <2>2 DEF MutexGoes, Resuming, Deleting, objVars
<1>7. /\ IpcInv' /\ CallsInv' /\ ListsTake'
      /\ \A x \in Thread \ {t} : (Takes(x)' <=> Takes(x)) /\ k'.error[x] = k.error[x]
      /\ k'.list = k.list /\ ~Takes(t)' /\ (Detaching' <=> Detaching)
  BY <1>1, <1>2, <1>5, <1>6, MutexStill
<1>8. OwnerTypes'
  BY <1>3 DEF OwnerTypes, OfThreads, mutexVars
<1>9. \A x \in Thread : OwnedOf(x)'
  <2> SUFFICES ASSUME NEW x \in Thread PROVE OwnedOf(x)'
    OBVIOUS
  <2>1. (Takes(x)' <=> Takes(x)) /\ (Takes(x) => k'.error[x] = k.error[x])
    BY <1>1, <1>7
  <2>2. Usable' <=> Usable
    BY <1>3, <1>7 DEF Usable, objVars
  <2> QED BY <1>3, <1>4, <1>5, <1>7, <2>1, <2>2, OwnedSame DEF objVars, mutexVars
<1> QED BY <1>7, <1>8, <1>9 DEF MutexInv, TakesInv

(* The end of rt_mutex_take after a wait                                   *)
LEMMA TakenMutex ==
  ASSUME TakesInv, OwnerTypes, Labels, NEW t \in Thread, MutexTaken(t) \/ MutexNotTaken(t),
         OnlyGoes(t), UNCHANGED <<kill, awaited>>, awaited[t] = {}
  PROVE  MutexInv'
<1>1. Woken(t) /\ Return(t, "app") /\ k' = k
      /\ UNCHANGED <<isr, arg, crit, flag, alive, value, owner, original_priority, hold, astray>>
      /\ \/ /\ k.error[t] = "EOK"
            /\ held' = IF t \in astray THEN held ELSE [held EXCEPT ![t] = @ + 1]
         \/ k.error[t] \notin {"EOK", "EINTR"} /\ held' = held
  BY DEF MutexTaken, MutexNotTaken, WaitFails, Holds, mutexVars
<1>2. /\ Running(t) /\ pc[t] = "waited" /\ step[t] = "none" /\ t # Idle /\ k.lock = 0
      /\ k.stat[t] = "ready" /\ Takes(t) /\ ~KillCall(t)
      /\ t \notin astray =>
           /\ held[t] = 0
           /\ \/ k.error[t] \in {"ETIMEOUT", "ERROR"} /\ owner # t
              \/ k.error[t] = "EOK" /\ owner = t /\ hold = 1
  BY <1>1, MutexWoken
<1>3. /\ k \in KernelRecord /\ pc \in [Thread -> PC] /\ \A x \in Thread : OwnedOf(x)
  BY IpcFacts DEF TakesInv
<1>4. Goto(t, "app") /\ step'[t] = "none"
  BY <1>1 DEF Return, Labels, OfThreads
<1>5. pc'[t] = "app" /\ ~KillCall(t)'
  BY <1>3, <1>4 DEF Goto, KillCall
<1>6. MutexGoes(t, "app")
  BY <1>1, <1>2, <1>4, <1>5 DEF MutexGoes, Resuming, Deleting
<1>7. /\ IpcInv' /\ CallsInv' /\ ListsTake' /\ ~Takes(t)' /\ (Detaching' <=> Detaching)
      /\ \A x \in Thread \ {t} : Takes(x)' <=> Takes(x)
  BY <1>1, <1>2, <1>6, MutexStill
<1>8. /\ OfThreads(held') /\ \A x \in Thread \ {t} : held'[x] = held[x]
      /\ held'[t] \in Nat
      /\ t \notin astray => held'[t] = IF owner = t THEN 1 ELSE 0
  BY <1>1, <1>2 DEF OwnerTypes, OfThreads
<1>9. OwnerTypes'
  BY <1>1, <1>8 DEF OwnerTypes
<1>10. \A x \in Thread : OwnedOf(x)'
  <2>1. ASSUME NEW x \in Thread \ {t} PROVE OwnedOf(x)'
    <3>1. step'[x] = step[x] /\ (Usable' <=> Usable) /\ OwnedOf(x)
      BY <1>1, <1>3, <1>7 DEF OnlyGoes, Usable
    <3> QED BY <1>1, <1>7, <1>8, <3>1, OwnedSame
  <2>2. OwnedOf(t)'
    BY <1>1, <1>2, <1>4, <1>7, <1>8 DEF OwnedOf
  <2> QED BY <2>1, <2>2
<1> QED BY <1>7, <1>9, <1>10 DEF MutexInv, TakesInv

(* A thread that is ready is in no wait list, and nobody works on it.      *)
LEMMA ReadyFree ==
  ASSUME TakesInv, NEW u \in Thread, k.stat[u] = "ready"
  PROVE  Unlisted(u) /\ ~Targeted(u)
<1>1. Unlisted(u)
  BY DEF TakesInv, IpcInv, ListedWait, Unlisted
<1>2. \A v \in Thread : pc[v] \in Resuming => k.stat[arg[v]] = "suspend"
  BY DEF TakesInv, IpcInv, IInv, WindowsResume
<1>3. \A v \in Thread : pc[v] \notin Deleting
  BY DEF TakesInv, CallsInv, NoDeleting
<1> QED BY <1>1, <1>2, <1>3 DEF Targeted, Target

(* The inheritance of the priority of t                                    *)
LEMMA BoostChanges ==
  ASSUME TakesInv, owner \in Thread, NEW t \in Thread, NEW m, m = Boost(k, t)
  PROVE  /\ \E U \in SUBSET {owner} : /\ Changes(k, m, U)
                                      /\ \A u \in U : ~Targeted(u) /\ Unlisted(u)
         /\ SameWaits(k, m) /\ m.error = k.error /\ m.stat = k.stat /\ m.timer = k.timer
         /\ m.cur = k.cur /\ m.lock = k.lock /\ m \in KernelRecord /\ Consistent(m)
<1>1. k \in KernelRecord /\ Consistent(k)
  BY IpcFacts DEF TakesInv
<1>2. k.prio[t] \in Prio
  BY <1>1 DEF KernelRecord
<1>3. m = k \/ m = ChangePriority(k, owner, k.prio[t])
  BY DEF Boost
<1>4. k.stat[owner] = "ready" => \A w \in WaitList : owner \notin Elements(k.list[w])
  BY ReadyFree DEF Unlisted
<1>5. /\ \E U \in SUBSET {owner} : Changes(k, m, U) /\ (U # {} => k.stat[owner] = "ready")
      /\ SameWaits(k, m) /\ m.error = k.error /\ m.stat = k.stat /\ m.timer = k.timer
      /\ m.cur = k.cur /\ m.lock = k.lock /\ m \in KernelRecord /\ Consistent(m)
  <2>1. CASE m = k
    BY <1>1, <1>2, <1>4, <2>1, PriorityChanges
  <2>2. CASE m = ChangePriority(k, owner, k.prio[t])
    BY <1>1, <1>2, <1>4, <2>2, PriorityChanges
  <2> QED BY <1>3, <2>1, <2>2
<1>6. \A U \in SUBSET {owner} : (U # {} => k.stat[owner] = "ready")
                                  => \A u \in U : ~Targeted(u) /\ Unlisted(u)
  BY ReadyFree
<1> QED BY <1>5, <1>6

(* rt_mutex_take that waits                                                *)
LEMMA WaitMutex ==
  ASSUME TakesInv, OwnerTypes, Labels, NEW t \in Thread, NEW time, MutexWait(t, time),
         OnlyGoes(t), UNCHANGED <<kill, awaited>>, awaited[t] = {}
  PROVE  MutexInv'
<1>1. /\ Running(t) /\ pc[t] = "app" /\ t # Idle /\ k.lock = 0 /\ Usable
      /\ k.stat[t] = "ready" /\ Unlisted(t) /\ step[t] = "none" /\ ~Takes(t) /\ ~KillCall(t)
      /\ k.cur = t
  BY MutexCaller DEF MutexWait
<1>2. /\ Goto(t, "wait") /\ owner # t /\ value = 0
      /\ UNCHANGED <<isr, arg, crit, flag, alive, step, mutexVars>>
  BY DEF MutexWait
<1>3. /\ k \in KernelRecord /\ pc \in [Thread -> PC] /\ NoThread \notin Thread
      /\ Consistent(k) /\ k.stat[Idle] = "ready" /\ k.timer[Idle] = FALSE /\ Idle \in Thread
      /\ \A x \in Thread : OwnedOf(x)
  BY IpcFacts, IdleFacts DEF TakesInv
<1>4. owner \in Thread /\ Mtx \in WaitList
  <2>1. owner \in Thread
    BY <1>2 DEF OwnerTypes
  <2> QED BY <2>1, MutexAssumption, ObjectAssumption
<1>5. PICK m : m = Boost(k, t)
  OBVIOUS
<1>6. PICK x : x = IpcSuspend(SetError(m, t, "EOK"), Mtx, t, flag)
  OBVIOUS
<1>7. k' = x \/ k' = StartTimer(x, t)
  BY <1>5, <1>6 DEF MutexWait
<1>8. PICK U \in SUBSET {owner} : /\ Changes(k, m, U)
                                  /\ \A u \in U : ~Targeted(u) /\ Unlisted(u)
  BY <1>4, <1>5, BoostChanges
<1>9. /\ SameWaits(k, m) /\ m.error = k.error /\ m.stat = k.stat /\ m.timer = k.timer
      /\ m.cur = k.cur /\ m.lock = k.lock /\ m \in KernelRecord /\ Consistent(m)
  BY <1>4, <1>5, BoostChanges
<1>10. Suspends(m, k', t, Mtx)
  <2>1. \A v \in WaitList : t \notin Elements(m.list[v])
    BY <1>1, <1>9 DEF SameWaits, Unlisted
  <2> QED BY <1>1, <1>4, <1>6, <1>7, <1>9, <2>1, AwaitSuspends
<1>11. /\ Changes(m, k', {t}) /\ k'.stat[t] = "suspend"
       /\ \A u \in Thread \ {t} : k'.stat[u] = k.stat[u]
  <2>1. m \in KernelRecord /\ m.stat[t] \in {"ready", "suspend"}
    BY <1>1, <1>9
  <2>2. PICK r : r = k'
    OBVIOUS
  <2>3. Suspends(m, r, t, Mtx)
    BY <1>10, <2>2
  <2>4. /\ Changes(m, r, {t}) /\ r.stat[t] = "suspend"
        /\ \A u \in Thread \ {t} : r.stat[u] = m.stat[u]
    BY ONLY t \in Thread, <2>1, <2>3, SuspendsChanges
  <2> QED BY <1>9, <2>2, <2>4
<1>12. Changes(k, k', U \cup {t})
  BY <1>3, <1>4, <1>8, <1>11, ChangesTwice
<1>13. /\ \A u \in Thread \ {t} : k'.timer[u] = k.timer[u] /\ k'.error[u] = k.error[u]
       /\ k'.error[t] = "EOK" /\ k'.cur = k.cur
       /\ Elements(k'.list[Mtx]) = Elements(k.list[Mtx]) \cup {t}
       /\ \A w \in WaitList \ {Mtx} : k'.list[w] = k.list[w]
  <2>1. k.error = [y \in Thread |-> k.error[y]]
    BY <1>3 DEF KernelRecord
  <2> QED BY <1>4, <1>9, <1>10, <2>1 DEF Suspends, SameWaits, Update
<1>14. \A w \in WaitList : \A v \in Elements(k'.list[w]) : v \in U \cup {t} => v = t
  BY <1>8, <1>13 DEF Unlisted
<1>15. RunsSection(t, "wait", U \cup {t})
  <2>1. \A u \in U \cup {t} : ~Targeted(u)
    BY <1>1, <1>8, ReadyFree
  <2>2. k'.stat[Idle] = "ready" /\ k'.timer[Idle] = FALSE
    BY <1>1, <1>3, <1>11, <1>13
  <2> QED BY <1>1, <1>2, <1>4, <1>11, <1>12, <1>13, <1>14, <2>1, <2>2 DEF RunsSection
<1>16. pc'[t] = "wait" /\ step'[t] = "none" /\ awaited'[t] = {}
  BY <1>1, <1>2, <1>3 DEF Goto
<1>17. MutexGoes(t, "wait")
  <2>1. ~KillCall(t)'
    BY <1>16 DEF KillCall
  <2> QED BY <1>1, <1>2, <1>13, <2>1 DEF MutexGoes, Resuming, Deleting, Unscheduled
<1>18. Takes(t)'
  BY <1>16 DEF Takes, Waiting
<1>19. /\ IpcInv' /\ CallsInv' /\ ListsTake'
       /\ \A y \in Thread \ {t} : Takes(y)' <=> Takes(y)
  BY <1>14, <1>15, <1>17, <1>18, MutexRuns
<1>20. OwnerTypes'
  BY <1>2 DEF OwnerTypes, OfThreads, mutexVars
<1>21. Detaching' <=> Detaching
  BY <1>1, <1>2, <1>3 DEF Detaching, Goto
<1>22. \A y \in Thread : OwnedOf(y)'
  <2>1. ASSUME NEW y \in Thread \ {t} PROVE OwnedOf(y)'
    <3>1. OwnedOf(y) /\ (Usable' <=> Usable) /\ (Takes(y)' <=> Takes(y))
      BY <1>2, <1>3, <1>19, <1>21 DEF Usable
    <3>2. y \in Elements(k.list[Mtx]) => y \in Elements(k'.list[Mtx])
      BY <1>13
    <3> QED BY <1>2, <1>11, <1>13, <3>1, <3>2, OwnedSame DEF mutexVars
  <2>2. OwnedOf(t)'
    <3>1. t \notin astray => held[t] = 0
      BY <1>2 DEF OwnerTypes
    <3>2. Answered(t)'
      BY <1>2, <1>11, <1>13 DEF Answered, mutexVars
    <3> QED BY <1>2, <1>16, <1>18, <3>1, <3>2 DEF OwnedOf, mutexVars
  <2> QED BY <2>1, <2>2
<1> QED BY <1>19, <1>20, <1>22 DEF MutexInv, TakesInv

(* A wait that a signal has interrupted: the mutex is available,           *)
LEMMA AgainTakesMutex ==
  ASSUME TakesInv, OwnerTypes, Labels, NEW t \in Thread, MutexAgain(t), value > 0,
         OnlyGoes(t), UNCHANGED <<kill, awaited>>, awaited[t] = {}
  PROVE  MutexInv'
<1>1. /\ Woken(t) /\ k.error[t] = "EINTR" /\ Return(t, "app") /\ k' = k
      /\ UNCHANGED <<isr, arg, crit, flag, alive, astray>>
      /\ owner = NoThread /\ value' = 0 /\ owner' = t /\ hold' = 1
      /\ original_priority' = k.prio[t]
      /\ held' = IF t \in astray THEN held ELSE [held EXCEPT ![t] = @ + 1]
  BY DEF MutexAgain, Holds, OwnerTypes
<1>2. /\ Running(t) /\ pc[t] = "waited" /\ step[t] = "none" /\ t # Idle /\ k.lock = 0
      /\ k.stat[t] = "ready" /\ Takes(t) /\ ~KillCall(t) /\ t \in astray
  BY <1>1, MutexWoken
<1>3. /\ k \in KernelRecord /\ pc \in [Thread -> PC] /\ NoThread \notin Thread
      /\ \A x \in Thread : OwnedOf(x)
  BY IpcFacts DEF TakesInv
<1>4. Goto(t, "app") /\ step'[t] = "none" /\ k.prio[t] \in Prio
  BY <1>1, <1>3 DEF Return, Labels, OfThreads, KernelRecord
<1>5. pc'[t] = "app" /\ ~KillCall(t)'
  BY <1>3, <1>4 DEF Goto, KillCall
<1>6. MutexGoes(t, "app")
  BY <1>1, <1>2, <1>4, <1>5 DEF MutexGoes, Resuming, Deleting
<1>7. /\ IpcInv' /\ CallsInv' /\ ListsTake'
      /\ \A x \in Thread \ {t} : Takes(x)' <=> Takes(x)
  BY <1>1, <1>2, <1>6, MutexStill
<1>8. OwnerTypes'
  BY <1>1, <1>2, <1>3, <1>4 DEF OwnerTypes
<1>9. \A x \in Thread : OwnedOf(x)'
  <2>1. \A x \in Thread \ {t} : step'[x] = step[x]
    BY DEF OnlyGoes
  <2>2. \A x \in Thread \ {t} : OwnedOf(x)'
    BY <1>1, <1>2, <1>3, <1>7, <2>1, OwnedOther
  <2>3. OwnedOf(t)'
    BY <1>1, <1>2 DEF OwnedOf
  <2> QED BY <2>2, <2>3
<1> QED BY <1>7, <1>8, <1>9 DEF MutexInv, TakesInv

(* or it is not: the thread suspends itself, in no wait list.              *)
LEMMA AgainWaitsMutex ==
  ASSUME TakesInv, OwnerTypes, Labels, NEW t \in Thread, MutexAgain(t), value = 0,
         OnlyGoes(t), UNCHANGED <<kill, awaited>>, awaited[t] = {}
  PROVE  MutexInv'
<1>1. /\ Woken(t) /\ k.error[t] = "EINTR" /\ k' = Suspend(Boost(k, t), t) /\ GoStep(t, "link")
      /\ UNCHANGED <<pc, wait, value, owner, original_priority, hold, held>>
      /\ UNCHANGED <<isr, arg, crit, flag, alive, astray>>
  BY DEF MutexAgain
<1>2. /\ Running(t) /\ pc[t] = "waited" /\ step[t] = "none" /\ t # Idle /\ k.lock = 0
      /\ k.stat[t] = "ready" /\ Unlisted(t) /\ k.cur = t /\ t \in astray
  BY <1>1, MutexWoken
<1>3. /\ k \in KernelRecord /\ pc \in [Thread -> PC] /\ Consistent(k)
      /\ k.stat[Idle] = "ready" /\ k.timer[Idle] = FALSE /\ Idle \in Thread
      /\ \A w \in WaitList : Elements(k.list[w]) \subseteq Thread
      /\ \A x \in Thread : OwnedOf(x)
  BY IpcFacts, IdleFacts DEF TakesInv
<1>4. owner \in Thread
  BY DEF OwnerTypes
<1>5. PICK m : m = Boost(k, t)
  OBVIOUS
<1>6. PICK U \in SUBSET {owner} : /\ Changes(k, m, U)
                                  /\ \A u \in U : ~Targeted(u) /\ Unlisted(u)
  BY <1>4, <1>5, BoostChanges
<1>7. /\ SameWaits(k, m) /\ m.error = k.error /\ m.stat = k.stat /\ m.timer = k.timer
      /\ m.cur = k.cur /\ m.lock = k.lock /\ m \in KernelRecord /\ Consistent(m)
  BY <1>4, <1>5, BoostChanges
<1>8. /\ Changes(m, k', {t}) /\ TakesFrom(m, k', t) /\ k'.error = m.error
      /\ k'.stat = Update(m.stat, t, "suspend") /\ k'.cur = m.cur
      /\ \A u \in Thread \ {t} : k'.timer[u] = m.timer[u]
  BY <1>1, <1>2, <1>5, <1>7, SuspendChanges, SMTT(60)
<1>9. /\ k'.stat[t] = "suspend" /\ \A u \in Thread \ {t} : k'.stat[u] = k.stat[u]
  BY <1>3, <1>7, <1>8 DEF Update, KernelRecord
<1>10. Changes(k, k', U \cup {t})
  BY <1>3, <1>4, <1>6, <1>8, ChangesTwice
<1>11. \A w \in WaitList : Elements(k'.list[w]) = Elements(k.list[w])
  <2>1. \A w \in WaitList : k'.list[w] = Without(k.list[w], t)
    BY <1>7, <1>8 DEF TakesFrom, SameWaits
  <2>2. k \in KernelRecord /\ Consistent(k)
    BY <1>3
  <2> SUFFICES ASSUME NEW w \in WaitList PROVE Elements(k'.list[w]) = Elements(k.list[w])
    OBVIOUS
  <2>3. Elements(Without(k.list[w], t)) = Elements(k.list[w]) \ {t}
    BY <2>2, WaitTakes
  <2>4. t \notin Elements(k.list[w])
    BY <1>2 DEF Unlisted
  <2> QED BY <2>1, <2>3, <2>4
<1>12. \A w \in WaitList : \A v \in Elements(k'.list[w]) : v \notin U \cup {t}
  BY <1>2, <1>6, <1>11 DEF Unlisted
<1>13. Goto(t, "waited") /\ pc'[t] = "waited" /\ step'[t] = "link"
  BY <1>1, <1>2, <1>3 DEF Goto, GoStep, Labels, OfThreads
<1>14. RunsSection(t, "waited", U \cup {t})
  <2>1. \A u \in U \cup {t} : ~Targeted(u)
    BY <1>2, <1>6, ReadyFree
  <2>2. k'.stat[Idle] = "ready" /\ k'.timer[Idle] = FALSE /\ k'.cur = k.cur
    BY <1>2, <1>3, <1>7, <1>8, <1>9
  <2>3. Unlisted(t)'
    BY <1>2, <1>11 DEF Unlisted
  <2> QED BY <1>1, <1>2, <1>4, <1>10, <1>12, <1>13, <2>1, <2>2, <2>3
          DEF RunsSection, CallLabel
<1>15. MutexGoes(t, "waited")
  <2>1. ~KillCall(t)' /\ k'.cur = k.cur
    BY <1>7, <1>8, <1>13 DEF KillCall
  <2> QED BY <1>1, <1>2, <1>13, <2>1 DEF MutexGoes, Resuming, Deleting
<1>16. /\ IpcInv' /\ CallsInv' /\ ListsTake'
       /\ \A y \in Thread \ {t} : Takes(y)' <=> Takes(y)
  BY <1>12, <1>14, <1>15, MutexRuns
<1>17. OwnerTypes'
  BY <1>1 DEF OwnerTypes
<1>18. \A y \in Thread : OwnedOf(y)'
  <2>1. ASSUME NEW y \in Thread \ {t} PROVE OwnedOf(y)'
    <3>1. OwnedOf(y) /\ (Usable' <=> Usable) /\ (Takes(y)' <=> Takes(y)) /\ step'[y] = step[y]
      BY <1>1, <1>3, <1>16 DEF Usable, Detaching, OnlyGoes
    <3>2. Mtx \in WaitList
      BY MutexAssumption, ObjectAssumption
    <3> QED BY <1>1, <1>7, <1>8, <1>9, <1>11, <3>1, <3>2, OwnedSame
  <2>2. OwnedOf(t)'
    BY <1>1, <1>2 DEF OwnedOf
  <2> QED BY <2>1, <2>2
<1> QED BY <1>16, <1>17, <1>18 DEF MutexInv, TakesInv

(* and links itself later.                                                 *)
LEMMA LinkMutex ==
  ASSUME TakesInv, OwnerTypes, Labels, NEW t \in Thread, MutexLink(t),
         OnlyGoes(t), UNCHANGED <<kill, awaited>>, awaited[t] = {}
  PROVE  MutexInv'
<1>1. /\ AtStep(t, "link") /\ Goto(t, "wait") /\ GoStep(t, "none")
      /\ UNCHANGED <<isr, arg, crit, flag, alive, wait, mutexVars>>
  BY DEF MutexLink
<1>2. OwnerTypes'
  BY <1>1 DEF OwnerTypes, mutexVars
<1>3. CASE k' = [k EXCEPT !.asserted = TRUE]
  <2>1. k \in KernelRecord
    BY IpcFacts DEF TakesInv
  <2>2. k'.asserted
    BY <1>3, <2>1 DEF KernelRecord
  <2> QED BY <1>2, <2>2 DEF MutexInv
<1>4. ASSUME k.stat[t] = "suspend",
             NEW x, x = IpcSuspend(k, Mtx, t, flag), k' = x \/ k' = StartTimer(x, t)
      PROVE  MutexInv'
  <2>1. /\ Running(t) /\ pc[t] = "waited" /\ step[t] = "link" /\ k.lock = 0 /\ Unlisted(t)
        /\ k.cur = t /\ t # Idle /\ ~Targeted(t)
    BY <1>1, SignalCaller DEF AtStep
  <2>2. /\ k \in KernelRecord /\ pc \in [Thread -> PC] /\ Consistent(k)
        /\ k.stat[Idle] = "ready" /\ k.timer[Idle] = FALSE /\ Idle \in Thread
        /\ \A y \in Thread : OwnedOf(y)
    BY IpcFacts, IdleFacts DEF TakesInv
  <2>3. t \in astray /\ Mtx \in WaitList
    BY <2>1, <2>2, MutexAssumption, ObjectAssumption DEF OwnedOf
  <2>4. /\ x \in KernelRecord /\ Consistent(x)
        /\ x.stat = Update(k.stat, t, "suspend") /\ x.timer = Disarm(k.timer, t)
        /\ SameData(k, x) /\ x.error = k.error
        /\ Elements(x.list[Mtx]) = Elements(k.list[Mtx]) \cup {t}
        /\ \A v \in WaitList \ {Mtx} : x.list[v] = k.list[v]
        /\ SameLinks(k, x, t) /\ t \notin Elements(x.list[Defunct])
    BY <1>4, <2>1, <2>2, <2>3, IpcSuspendFacts DEF Unlisted
  <2>5. /\ k' \in KernelRecord
        /\ k'.list = x.list /\ k'.stat = x.stat /\ k'.prio = x.prio /\ k'.mask = x.mask
        /\ k'.group = x.group /\ k'.cur = x.cur /\ k'.lock = x.lock /\ k'.error = x.error
        /\ \A u \in Thread \ {t} : k'.timer[u] = x.timer[u]
    <3>1. CASE k' = x
      BY <2>4, <3>1
    <3>2. CASE k' = StartTimer(x, t)
      <4>1. k' = [x EXCEPT !.timer[t] = TRUE]
        BY <3>2 DEF StartTimer
      <4> QED BY <2>4, <4>1 DEF KernelRecord
    <3> QED BY <1>4, <3>1, <3>2
  <2>6. Consistent(k')
    BY <2>4, <2>5, SameConsistent
  <2>7. /\ k'.stat[t] = "suspend"
        /\ \A u \in Thread \ {t} : k'.stat[u] = k.stat[u] /\ k'.timer[u] = k.timer[u]
    BY <2>2, <2>4, <2>5 DEF Update, Disarm, KernelRecord
  <2>8. Changes(k, k', {t})
    BY <1>4, <2>4, <2>5, <2>6, <2>7 DEF Changes, SameData, SameLinks
  <2>9. /\ pc'[t] = "wait" /\ step'[t] = "none" /\ k'.cur = k.cur
        /\ Elements(k'.list[Mtx]) = Elements(k.list[Mtx]) \cup {t}
    BY <1>1, <2>2, <2>4, <2>5 DEF Goto, GoStep, Labels, OfThreads, SameData
  <2>10. RunsSection(t, "wait", {t})
    <3>1. k'.stat[Idle] = "ready" /\ k'.timer[Idle] = FALSE
      BY <2>1, <2>2, <2>7
    <3> QED BY <1>1, <2>1, <2>7, <2>8, <2>9, <3>1 DEF RunsSection
  <2>11. MutexGoes(t, "wait") /\ Takes(t)'
    <3>1. ~KillCall(t)'
      BY <2>9 DEF KillCall
    <3>2. Takes(t)'
      BY <2>9 DEF Takes, Waiting
    <3> QED BY <1>1, <2>1, <2>9, <3>1, <3>2 DEF MutexGoes, Resuming, Deleting, Unscheduled
  <2>12. /\ IpcInv' /\ CallsInv' /\ ListsTake'
         /\ \A y \in Thread \ {t} : Takes(y)' <=> Takes(y)
    BY <2>10, <2>11, MutexRuns
  <2>13. \A y \in Thread : OwnedOf(y)'
    <3>1. ASSUME NEW y \in Thread \ {t} PROVE OwnedOf(y)'
      <4>1. Detaching' <=> Detaching
        BY <1>1, <2>1, <2>2 DEF Detaching, Goto
      <4>2. OwnedOf(y) /\ (Usable' <=> Usable) /\ (Takes(y)' <=> Takes(y)) /\ step'[y] = step[y]
        BY <1>1, <2>2, <2>12, <4>1 DEF Usable, OnlyGoes
      <4>3. k'.error[y] = k.error[y]
        BY <2>4, <2>5
      <4> QED BY <1>1, <2>7, <2>9, <4>2, <4>3, OwnedSame DEF mutexVars
    <3>2. OwnedOf(t)'
      BY <1>1, <2>3 DEF OwnedOf, mutexVars
    <3> QED BY <3>1, <3>2
  <2> QED BY <1>2, <2>12, <2>13 DEF MutexInv, TakesInv
<1> QED BY <1>3, <1>4 DEF MutexLink

(* rt_mutex_release: the priority of t that is restored                    *)
LEMMA RestoreChanges ==
  ASSUME TakesInv, OwnerTypes, owner \in Thread, NEW t \in Thread, k.stat[t] = "ready",
         NEW m, m = Restore(t)
  PROVE  /\ \E U \in SUBSET {t} : Changes(k, m, U)
         /\ SameWaits(k, m) /\ m.error = k.error /\ m.stat = k.stat /\ m.timer = k.timer
         /\ m.cur = k.cur /\ m.lock = k.lock /\ m \in KernelRecord /\ Consistent(m)
<1>1. k \in KernelRecord /\ Consistent(k)
  BY IpcFacts DEF TakesInv
<1>2. original_priority \in Prio
  <2>1. owner # NoThread
    BY KernelAssumption
  <2> QED BY <2>1 DEF OwnerTypes
<1>3. m = k \/ m = ChangePriority(k, t, original_priority)
  BY DEF Restore
<1>4. \A w \in WaitList : t \notin Elements(k.list[w])
  BY ReadyFree DEF Unlisted
<1> QED BY <1>1, <1>2, <1>3, <1>4, PriorityChanges

(* What t believes to hold once it has released                            *)
LEMMA ReleaseHeld ==
  ASSUME OwnerTypes, NEW t \in Thread, owner = t, alive, ~Takes(t), OwnedOf(t),
         held' = [held EXCEPT ![t] = IF @ > 0 THEN @ - 1 ELSE 0]
  PROVE  /\ OfThreads(held') /\ (\A x \in Thread : held'[x] \in Nat)
         /\ t \notin astray => held'[t] = hold - 1
         /\ \A x \in Thread \ {t} : held'[x] = held[x] /\ (x \notin astray => held[x] = 0)
         /\ hold \in Nat \ {0} /\ value = 0 /\ original_priority \in Prio
<1>1. hold \in Nat \ {0} /\ value = 0 /\ original_priority \in Prio
  BY KernelAssumption DEF OwnerTypes
<1>2. /\ OfThreads(held') /\ (\A x \in Thread : held'[x] \in Nat)
      /\ held'[t] = IF held[t] > 0 THEN held[t] - 1 ELSE 0
      /\ \A x \in Thread \ {t} : held'[x] = held[x]
  BY DEF OwnerTypes, OfThreads
<1>3. t \notin astray => held[t] = hold
  BY DEF OwnedOf
<1>4. \A x \in Thread \ {t} : x \notin astray => held[x] = 0
  BY DEF OwnerTypes
<1> QED BY <1>1, <1>2, <1>3, <1>4

LEMMA ReleaseMutex ==
  ASSUME TakesInv, OwnerTypes, Labels, NEW t \in Thread, MutexRelease(t),
         OnlyGoes(t), UNCHANGED <<kill, awaited>>
  PROVE  MutexInv'
<1>1. /\ Running(t) /\ pc[t] = "app" /\ t # Idle /\ k.lock = 0 /\ Usable
      /\ k.stat[t] = "ready" /\ Unlisted(t) /\ step[t] = "none" /\ ~Takes(t) /\ ~KillCall(t)
      /\ k.cur = t
  BY MutexCaller DEF MutexRelease
<1>2. /\ Goto(t, "sched") /\ owner = t
      /\ UNCHANGED <<isr, arg, crit, objVars, astray>>
      /\ held' = [held EXCEPT ![t] = IF @ > 0 THEN @ - 1 ELSE 0]
  BY DEF MutexRelease
<1>3. /\ k \in KernelRecord /\ pc \in [Thread -> PC] /\ NoThread \notin Thread
      /\ Consistent(k) /\ k.stat[Idle] = "ready" /\ k.timer[Idle] = FALSE /\ Idle \in Thread
      /\ \A x \in Thread : OwnedOf(x)
  BY IpcFacts, IdleFacts DEF TakesInv
<1>4. /\ OfThreads(held') /\ (\A x \in Thread : held'[x] \in Nat)
      /\ t \notin astray => held'[t] = hold - 1
      /\ \A x \in Thread \ {t} : held'[x] = held[x] /\ (x \notin astray => held[x] = 0)
      /\ hold \in Nat \ {0} /\ value = 0 /\ original_priority \in Prio
  BY <1>1, <1>2, <1>3, ReleaseHeld DEF Usable
<1>5. pc'[t] = "sched" /\ ~Takes(t)' /\ ~KillCall(t)' /\ step'[t] = "none"
  BY <1>1, <1>2, <1>3 DEF Goto, Takes, Waiting, KillCall, objVars
<1>6. ASSUME k'.cur = k.cur PROVE MutexGoes(t, "sched")
  BY <1>1, <1>2, <1>5, <1>6 DEF MutexGoes, Resuming, Deleting, Unscheduled
<1>7. ASSUME NEW x \in Thread \ {t} PROVE step'[x] = step[x] /\ OwnedOf(x) /\ owner # x
  BY <1>2, <1>3 DEF objVars
<1>8. CASE hold > 1 /\ hold' = hold - 1 /\ UNCHANGED <<k, value, owner, original_priority>>
  <2>1. /\ IpcInv' /\ CallsInv' /\ ListsTake'
        /\ \A x \in Thread \ {t} : Takes(x)' <=> Takes(x)
    BY <1>1, <1>6, <1>8, MutexStill
  <2>2. OwnerTypes'
    BY <1>2, <1>3, <1>4, <1>8 DEF OwnerTypes
  <2>3. \A x \in Thread \ {t} : OwnedOf(x)'
    BY <1>2, <1>4, <1>7, <1>8, <2>1, OwnedOther
  <2>4. OwnedOf(t)'
    BY <1>2, <1>4, <1>5, <1>8 DEF OwnedOf
  <2> QED BY <2>1, <2>2, <2>3, <2>4 DEF MutexInv, TakesInv
<1>9. PICK m : m = Restore(t)
  OBVIOUS
<1>10. PICK U \in SUBSET {t} : Changes(k, m, U)
  BY <1>1, <1>2, <1>9, RestoreChanges
<1>11. /\ SameWaits(k, m) /\ m.error = k.error /\ m.stat = k.stat /\ m.timer = k.timer
       /\ m.cur = k.cur /\ m.lock = k.lock /\ m \in KernelRecord /\ Consistent(m)
  BY <1>1, <1>2, <1>9, RestoreChanges
<1>12. CASE /\ hold <= 1 /\ value' = value + 1 /\ owner' = NoThread /\ hold' = 0 /\ k' = m
  <2>1. \A w \in WaitList : k'.list[w] = k.list[w]
    BY <1>11, <1>12 DEF SameWaits
  <2>2. \A w \in WaitList : \A v \in Elements(k'.list[w]) : v \notin U
    BY <1>1, <2>1 DEF Unlisted
  <2>3. RunsSection(t, "sched", U)
    <3>1. \A u \in U : ~Targeted(u)
      BY <1>1, ReadyFree
    <3> QED BY <1>1, <1>2, <1>3, <1>10, <1>11, <1>12, <2>2, <3>1 DEF RunsSection, CallLabel
  <2>4. /\ IpcInv' /\ CallsInv' /\ ListsTake'
        /\ \A x \in Thread \ {t} : Takes(x)' <=> Takes(x)
    BY <1>6, <1>11, <1>12, <2>2, <2>3, MutexRuns
  <2>5. OwnerTypes'
    BY <1>2, <1>4, <1>12 DEF OwnerTypes
  <2>6. \A x \in Thread \ {t} : OwnedOf(x)'
    <3>1. Mtx \in WaitList
      BY MutexAssumption, ObjectAssumption
    <3> QED BY <1>2, <1>3, <1>4, <1>7, <1>11, <1>12, <2>1, <2>4, <3>1, OwnedOther
  <2>7. OwnedOf(t)'
    BY <1>3, <1>5, <1>12 DEF OwnedOf
  <2> QED BY <2>4, <2>5, <2>6, <2>7 DEF MutexInv, TakesInv
<1>13. CASE hold <= 1 /\ k.list[Mtx] # << >> /\ HandOver(t)
  <2>1. PICK first : first = Head(k.list[Mtx])
    OBVIOUS
  <2>2. /\ owner' = first /\ original_priority' = k.prio[first] /\ hold' = 1 /\ value' = value
        /\ k' = IpcResume(m, Mtx)
    BY <1>9, <1>13, <2>1 DEF HandOver
  <2>3. Mtx \in WaitList /\ m.list[Mtx] = k.list[Mtx]
    BY <1>11, MutexAssumption, ObjectAssumption DEF SameWaits
  <2>4. first \in Thread /\ first \in Elements(k.list[Mtx])
    BY <1>3, <1>13, <2>1, <2>3, FirstWaiter
  <2>5. Takes(first) /\ k.stat[first] = "suspend" /\ first # t /\ ~Targeted(first)
    <3>1. Takes(first)
      BY <2>3, <2>4 DEF TakesInv, ListsTake
    <3>2. k.stat[first] = "suspend"
      BY <2>3, <2>4 DEF TakesInv, IpcInv, ListedWait
    <3>3. InCall(first)
      BY <3>1 DEF Takes, Waiting, InCall, IpcLabels
    <3> QED BY <1>1, <2>4, <3>1, <3>2, <3>3, IpcFacts DEF TakesInv
  <2>6. AllSuspended(m, Mtx)
    BY <1>11, <2>3 DEF AllSuspended, TakesInv, IpcInv, ListedWait
  <2>7. /\ Wakes(m, k', {first}) /\ k'.error = m.error
    BY <1>11, <1>13, <2>1, <2>2, <2>3, <2>6, ResumeWakes, IpcResumeFacts DEF SameRest
  <2>8. Changes(m, k', {first})
    BY <1>11, <2>4, <2>5, <2>7, WakesAreChanges
  <2>9. Changes(k, k', U \cup {first})
    BY <1>3, <1>10, <1>11, <2>4, <2>8, ChangesTwice
  <2>10. /\ \A x \in Thread : k'.stat[x] = IF x = first THEN "ready" ELSE k.stat[x]
         /\ k'.timer = k.timer /\ k'.cur = k.cur
         /\ \A w \in WaitList : Elements(k'.list[w]) = Elements(k.list[w]) \ {first}
    <3>1. \A w \in WaitList : Elements(k'.list[w]) = Elements(m.list[w]) \ {first}
      BY <1>11, <2>4, <2>7, WakesTakes
    <3> QED BY <1>11, <2>7, <3>1 DEF Wakes, SameWaits
  <2>11. \A w \in WaitList : \A v \in Elements(k'.list[w]) : v \notin U \cup {first}
    BY <1>1, <2>10 DEF Unlisted
  <2>12. RunsSection(t, "sched", U \cup {first})
    <3>1. \A u \in U \cup {first} : ~Targeted(u)
      BY <1>1, <2>5, ReadyFree
    <3>2. k'.stat[Idle] = "ready" /\ k'.timer[Idle] = FALSE
      BY <1>3, <2>10
    <3> QED BY <1>1, <1>2, <2>4, <2>9, <2>10, <2>11, <3>1, <3>2 DEF RunsSection, CallLabel
  <2>13. /\ IpcInv' /\ CallsInv' /\ ListsTake'
         /\ \A x \in Thread \ {t} : Takes(x)' <=> Takes(x)
    BY <1>6, <2>10, <2>11, <2>12, MutexRuns
  <2>14. OwnerTypes'
    <3>1. k.prio[first] \in Prio
      BY <1>3, <2>4 DEF KernelRecord
    <3> QED BY <1>2, <1>4, <1>13, <2>2, <2>4, <3>1 DEF OwnerTypes
  <2>15. \A x \in Thread \ {t, first} : OwnedOf(x)'
    BY <1>2, <1>4, <1>7, <1>11, <2>2, <2>3, <2>7, <2>10, <2>13, OwnedOther
  <2>16. OwnedOf(t)'
    BY <1>2, <1>4, <1>5, <1>13, <2>2, <2>5 DEF OwnedOf
  <2>17. OwnedOf(first)'
    <3>1. Takes(first)' /\ step'[first] # "link"
      BY <2>4, <2>5, <2>13 DEF Takes
    <3>2. first \notin astray => k.error[first] = "EOK"
      BY <1>3, <2>4, <2>5 DEF OwnedOf, Answered
    <3>3. Usable'
      BY <1>1, <1>2, <1>3 DEF Usable, Detaching, Goto, objVars
    <3> QED BY <1>2, <1>4, <1>11, <2>2, <2>4, <2>5, <2>7, <2>10, <3>1, <3>2, <3>3
            DEF OwnedOf, Answered
  <2> QED BY <2>13, <2>14, <2>15, <2>16, <2>17 DEF MutexInv, TakesInv
<1> QED BY <1>8, <1>9, <1>12, <1>13 DEF MutexRelease

(* rt_mutex_detach, rt_mutex_delete: nobody is about to find that the      *)
(* mutex was given to it.                                                  *)
LEMMA DetachMutex ==
  ASSUME TakesInv, OwnerTypes, Labels, NEW t \in Thread, MutexDetach(t), OnlyGoes(t),
         UNCHANGED <<kill, awaited>>
  PROVE  MutexInv'
<1>1. /\ ObjCall(t, "detach") /\ Goto(t, "drain1")
      /\ UNCHANGED <<k, isr, arg, crit, objVars, mutexVars>>
      /\ \A u \in Thread : pc[u] \in {"wait", "waited"} => k.stat[u] = "suspend"
  BY DEF MutexDetach, DetachObject
<1>2. /\ Running(t) /\ pc[t] = "app" /\ t # Idle /\ k.lock = 0
  BY <1>1 DEF ObjCall
<1>3. /\ k \in KernelRecord /\ pc \in [Thread -> PC] /\ Consistent(k)
      /\ k.stat[Idle] = "ready" /\ k.timer[Idle] = FALSE
      /\ \A x \in Thread : OwnedOf(x)
  BY IpcFacts, IdleFacts DEF TakesInv
<1>4. k.stat[t] = "ready" /\ step[t] = "none"
  BY <1>2, CallerReady DEF TakesInv, Labels
<1>5. /\ pc'[t] = "drain1" /\ ~KillCall(t)' /\ ~Takes(t)' /\ ~Takes(t)
  BY <1>1, <1>2, <1>3 DEF Goto, KillCall, Takes, Waiting
<1>6. MutexGoes(t, "drain1")
  BY <1>1, <1>2, <1>4, <1>5 DEF MutexGoes, Resuming, Deleting
<1>7. RunsSection(t, "drain1", {})
  <2>1. Changes(k, k', {})
    BY <1>1, <1>3, ChangesNothing
  <2> QED BY <1>1, <1>2, <1>3, <1>4, <2>1 DEF RunsSection, CallLabel
<1>8. /\ IpcInv' /\ CallsInv' /\ ListsTake'
      /\ \A x \in Thread \ {t} : Takes(x)' <=> Takes(x)
  BY <1>6, <1>7, MutexRuns
<1>9. OwnerTypes'
  BY <1>1 DEF OwnerTypes, mutexVars
<1>10. \A x \in Thread : OwnedOf(x)'
  <2> SUFFICES ASSUME NEW x \in Thread PROVE OwnedOf(x)'
    OBVIOUS
  <2>1. x \notin astray /\ Takes(x) => owner # x
    BY <1>1, <1>3 DEF OwnedOf, Answered, Takes, Waiting
  <2>2. (Takes(x)' <=> Takes(x)) /\ OwnedOf(x)
    BY <1>3, <1>5, <1>8
  <2> QED BY <1>1, <2>1, <2>2, OwnedSame DEF mutexVars, objVars
<1> QED BY <1>8, <1>9, <1>10 DEF MutexInv, TakesInv

(* A thread that empties the list                                          *)
LEMMA MutexDrains ==
  ASSUME TakesInv, Labels, NEW t \in Thread, Running(t), pc[t] \in {"drain1", "drain2"}
  PROVE  /\ t # Idle /\ k.cur = t /\ ~Takes(t) /\ ~KillCall(t) /\ ~Usable
         /\ k.lock = 0 => k.stat[t] = "ready"
         /\ pc[t] = "drain1" => step[t] = "none"
         /\ pc[t] = "drain2" => step[t] \in WaitList
         /\ \A w \in WaitList : t \notin Elements(k.list[w])
<1>1. t # Idle
  BY DEF TakesInv, CallsInv, IdleQuiet, InCall, IpcLabels
<1>2. k.cur = t /\ ~Takes(t) /\ ~KillCall(t) /\ ~Waiting(t) /\ ~Usable
  BY DEF Running, Takes, Waiting, KillCall, Usable, Detaching
<1>3. k.lock = 0 => k.stat[t] = "ready"
  BY <1>2 DEF TakesInv, IpcInv, RunnerReady, Unscheduled
<1>4. /\ pc[t] = "drain1" => step[t] = "none"
      /\ pc[t] = "drain2" => step[t] \in WaitList
  BY DEF Labels, TakesInv, CallsInv, DrainsList
<1>5. \A w \in WaitList : t \notin Elements(k.list[w])
  BY <1>2 DEF TakesInv, ListsTake
<1> QED BY <1>1, <1>2, <1>3, <1>4, <1>5

LEMMA DrainTestMutex ==
  ASSUME TakesInv, OwnerTypes, Labels, NEW t \in Thread, DrainTest(t), UNCHANGED mutexVars,
         OnlyGoes(t), UNCHANGED <<kill, awaited>>
  PROVE  MutexInv'
<1>1. /\ Running(t) /\ pc[t] = "drain1" /\ UNCHANGED <<k, isr, arg, crit, flag, wait>>
      /\ \/ \E i \in DOMAIN Lists : GoStep(t, Lists[i]) /\ Goto(t, "drain2") /\ UNCHANGED alive
         \/ alive' = FALSE /\ Goto(t, "app") /\ UNCHANGED step
  BY DEF DrainTest
<1>2. /\ t # Idle /\ k.cur = t /\ ~Takes(t) /\ ~KillCall(t) /\ ~Usable /\ step[t] = "none"
      /\ k.lock = 0 => k.stat[t] = "ready"
  BY <1>1, MutexDrains
<1>3. /\ k \in KernelRecord /\ pc \in [Thread -> PC] /\ Consistent(k)
      /\ \A x \in Thread : OwnedOf(x)
  BY IpcFacts DEF TakesInv
<1>4. PICK label \in {"drain2", "app"} :
        /\ Goto(t, label) /\ step'[t] # "link" /\ (alive' => alive)
        /\ label = "drain2" => step'[t] \in WaitList
  <2>1. ASSUME NEW i \in DOMAIN Lists, GoStep(t, Lists[i]) PROVE step'[t] = Lists[i]
    BY <2>1 DEF GoStep, Labels, OfThreads
  <2>2. \A i \in DOMAIN Lists : Lists[i] \in WaitList
    BY ObjectAssumption
  <2> QED BY <1>1, <1>2, <2>1, <2>2, MutexAssumption
<1>5. pc'[t] = label /\ ~KillCall(t)' /\ ~Takes(t)'
  BY <1>3, <1>4 DEF Goto, KillCall, Takes, Waiting
<1>6. MutexGoes(t, label)
  BY <1>1, <1>2, <1>4, <1>5 DEF MutexGoes, Resuming, Deleting
<1>7. CallsInv' /\ \A x \in Thread \ {t} : Takes(x)' <=> Takes(x)
  BY <1>1, <1>6, MutexCalls
<1>8. IpcInv'
  <2>1. Wakes(k, k', {})
    BY <1>1, <1>3, WakesNobody
  <2> QED BY <1>1, <1>4, <2>1, CallSection DEF TakesInv, CallLabel
<1>9. ListsTake' /\ \A x \in Thread : Takes(x)' <=> Takes(x)
  <2>1. \A x \in Thread : Takes(x)' <=> Takes(x)
    BY <1>2, <1>5, <1>7
  <2>2. \A w \in WaitList : Elements(k.list[w]) \subseteq Thread
    BY IpcFacts DEF TakesInv
  <2> QED BY <1>1, <2>1, <2>2 DEF TakesInv, ListsTake
<1>10. OwnerTypes'
  BY DEF OwnerTypes, mutexVars
<1>11. \A x \in Thread : OwnedOf(x)'
  <2>1. \A x \in Thread : step'[x] = "link" => step[x] = "link"
    BY <1>4 DEF OnlyGoes
  <2> QED BY <1>1, <1>2, <1>3, <1>4, <1>9, <2>1, OwnedSame DEF mutexVars
<1> QED BY <1>7, <1>8, <1>9, <1>10, <1>11 DEF MutexInv, TakesInv

LEMMA DrainResumeMutex ==
  ASSUME TakesInv, OwnerTypes, Labels, NEW t \in Thread, DrainResume(t), UNCHANGED mutexVars,
         OnlyGoes(t), UNCHANGED <<kill, awaited>>
  PROVE  MutexInv'
<1>1. /\ Running(t) /\ pc[t] = "drain2" /\ UNCHANGED <<isr, arg, crit, flag, alive, wait>>
      /\ k' = DrainOne(k, step[t]) /\ GoStep(t, "none") /\ Goto(t, "drain1")
  BY DEF DrainResume
<1>2. PICK w : w = step[t]
  OBVIOUS
<1>3. /\ t # Idle /\ k.cur = t /\ ~Takes(t) /\ ~KillCall(t) /\ ~Usable /\ w \in WaitList
      /\ k.lock = 0 => k.stat[t] = "ready"
      /\ \A v \in WaitList : t \notin Elements(k.list[v])
  BY <1>1, <1>2, MutexDrains
<1>4. /\ k \in KernelRecord /\ pc \in [Thread -> PC] /\ Consistent(k)
      /\ \A v \in WaitList : Elements(k.list[v]) \subseteq Thread
      /\ \A x \in Thread : OwnedOf(x)
  BY IpcFacts DEF TakesInv
<1>5. OwnerTypes'
  BY DEF OwnerTypes, mutexVars
<1>6. CASE k.list[w] = << >>
  <2>1. k' = [k EXCEPT !.asserted = TRUE]
    BY <1>1, <1>2, <1>6 DEF DrainOne
  <2>2. k'.asserted
    BY <1>4, <2>1 DEF KernelRecord
  <2> QED BY <1>5, <2>2 DEF MutexInv
<1>7. CASE k.list[w] # << >>
  <2>1. PICK first : first = Head(k.list[w])
    OBVIOUS
  <2>2. AllSuspended(k, w)
    BY <1>3 DEF AllSuspended, TakesInv, IpcInv, ListedWait
  <2>3. /\ Wakes(k, k', {first}) /\ first \in Thread /\ first \in Elements(k.list[w])
        /\ k'.error = Update(k.error, first, "ERROR")
    <3>1. k \in KernelRecord /\ Consistent(k) /\ w \in WaitList /\ k' = DrainOne(k, w)
      BY <1>1, <1>2, <1>3, <1>4
    <3>2. PICK r : r = k'
      OBVIOUS
    <3>3. r = DrainOne(k, w)
      BY <3>1, <3>2
    <3>4. /\ Wakes(k, r, {first}) /\ first \in Thread /\ first \in Elements(k.list[w])
          /\ r.error = Update(k.error, first, "ERROR")
      BY ONLY <1>7, <2>1, <2>2, <3>1, <3>3, DrainOneWakes
    <3> QED BY <3>2, <3>4
  <2>4. Takes(first) /\ k.stat[first] = "suspend" /\ first # t
    <3>1. Takes(first)
      BY <1>3, <2>3 DEF TakesInv, ListsTake
    <3>2. k.stat[first] = "suspend"
      BY <1>3, <2>2, <2>3 DEF AllSuspended
    <3> QED BY <1>3, <3>1, <3>2
  <2>5. /\ \A x \in Thread : k'.stat[x] = IF x = first THEN "ready" ELSE k.stat[x]
        /\ \A x \in Thread : k'.error[x] = IF x = first THEN "ERROR" ELSE k.error[x]
        /\ \A v \in WaitList : Elements(k'.list[v]) = Elements(k.list[v]) \ {first}
        /\ k'.cur = k.cur /\ k'.lock = k.lock
    <3>1. \A v \in WaitList : Elements(k'.list[v]) = Elements(k.list[v]) \ {first}
      BY <1>4, <2>3, WakesTakes
    <3>2. \A x \in Thread : k'.error[x] = IF x = first THEN "ERROR" ELSE k.error[x]
      BY <1>4, <2>3 DEF Update, KernelRecord
    <3> QED BY <2>3, <3>1, <3>2 DEF Wakes
  <2>6. pc'[t] = "drain1" /\ step'[t] = "none" /\ ~KillCall(t)' /\ ~Takes(t)'
    BY <1>1, <1>4 DEF Goto, GoStep, KillCall, Takes, Waiting, Labels, OfThreads
  <2>7. MutexGoes(t, "drain1")
    BY <1>1, <1>3, <2>4, <2>5, <2>6 DEF MutexGoes, Resuming, Deleting
  <2>8. CallsInv' /\ \A x \in Thread \ {t} : Takes(x)' <=> Takes(x)
    BY <2>5, <2>7, MutexCalls
  <2>9. IpcInv'
    BY <1>1, <2>3, CallSection DEF TakesInv, CallLabel
  <2>10. ListsTake'
    BY <1>3, <1>4, <2>5, <2>8 DEF TakesInv, ListsTake
  <2>11. \A x \in Thread : step'[x] = "link" => step[x] = "link"
    BY <2>6 DEF OnlyGoes
  <2>12. \A x \in Thread \ {first} : OwnedOf(x)'
    <3> SUFFICES ASSUME NEW x \in Thread \ {first} PROVE OwnedOf(x)'
      OBVIOUS
    <3>1. (Takes(x)' <=> Takes(x)) /\ OwnedOf(x)
      BY <1>3, <1>4, <2>6, <2>8
    <3>2. Mtx \in WaitList
      BY MutexAssumption, ObjectAssumption
    <3> QED BY <1>1, <1>3, <2>5, <2>11, <3>1, <3>2, OwnedSame DEF mutexVars
  <2>13. OwnedOf(first)'
    <3>1. first \notin astray => held[first] = 0 /\ owner # first /\ step[first] # "link"
      BY <1>4, <2>3, <2>4 DEF OwnedOf, Answered
    <3> QED BY <2>3, <2>4, <2>5, <2>8, <2>11, <3>1 DEF OwnedOf, Answered, mutexVars
  <2> QED BY <1>5, <2>8, <2>9, <2>10, <2>12, <2>13 DEF MutexInv, TakesInv
<1> QED BY <1>6, <1>7

(* A step that concerns neither the kernel nor where the calls are         *)
LEMMA CallsStutter ==
  ASSUME TakesInv, UNCHANGED <<vars, step, kill, awaited>>
  PROVE  IpcInv' /\ CallsInv' /\ ListsTake' /\ \A x : Takes(x)' <=> Takes(x)
<1>1. UNCHANGED <<k, isr, pc, arg, crit, step, kill, awaited>>
  BY DEF vars
<1>2. \A x : (Takes(x)' <=> Takes(x)) /\ (KillCall(x)' <=> KillCall(x))
             /\ (Targeted(x)' <=> Targeted(x))
  BY <1>1 DEF Takes, Waiting, KillCall, Targeted, Target
<1>3. CallsInv'
  BY <1>1, <1>2 DEF TakesInv, CallsInv, NoDeleting, DrainsList, RunnerLinks, TargetsSafe,
                    IdleQuiet, InCall
<1> QED BY <1>1, <1>2, <1>3, IpcStutter DEF TakesInv, ListsTake

(* rt_mutex_init, rt_mutex_create: nobody has been given the mutex         *)
LEMMA CreateMutex ==
  ASSUME TakesInv, OwnerTypes, NEW t \in Thread, MutexCreate(t), UNCHANGED <<kill, awaited>>
  PROVE  MutexInv'
<1>1. /\ ~alive /\ UNCHANGED <<vars, wait, step, astray>>
      /\ value' = 1 /\ owner' = NoThread /\ hold' = 0 /\ held' = [u \in Thread |-> 0]
  BY DEF MutexCreate, InitObject
<1>2. IpcInv' /\ CallsInv' /\ ListsTake' /\ \A x : Takes(x)' <=> Takes(x)
  BY <1>1, CallsStutter
<1>3. NoThread \notin Thread
  BY KernelAssumption
<1>4. OwnerTypes'
  BY <1>1, <1>3 DEF OwnerTypes, OfThreads
<1>5. ASSUME NEW x \in Thread PROVE OwnedOf(x)'
  <2>1. OwnedOf(x) /\ ~Usable /\ k' = k
    BY <1>1 DEF TakesInv, Usable, vars
  <2> QED BY <1>1, <1>2, <1>3, <2>1 DEF OwnedOf, Answered
<1> QED BY <1>2, <1>4, <1>5 DEF MutexInv, TakesInv

-----------------------------------------------------------------------------
(* Every step.                                                             *)

LEMMA MutexActions ==
  ASSUME TakesInv, OwnerTypes, Labels, NEW t \in Thread, MutexStep(t), awaited[t] = {},
         UNCHANGED sigVars
  PROVE  MutexInv'
<1>1. OnlyGoes(t) /\ UNCHANGED <<kill, awaited>>
  BY MutexOnly
<1>2. CASE MutexTakeAgain(t)
  BY <1>1, <1>2, TakeAgainMutex
<1>3. CASE MutexTake(t)
  BY <1>1, <1>3, TakeMutex
<1>4. CASE MutexRefuse(t)
  BY <1>1, <1>4, RefuseMutex
<1>5. CASE MutexTaken(t) \/ MutexNotTaken(t)
  BY <1>1, <1>5, TakenMutex
<1>6. CASE MutexRelease(t)
  BY <1>1, <1>6, ReleaseMutex
<1>7. ASSUME NEW time, MutexWait(t, time) PROVE MutexInv'
  BY <1>1, <1>7, WaitMutex
<1>8. CASE MutexAgain(t)
  <2>1. value > 0 \/ value = 0
    BY <1>8 DEF MutexAgain
  <2> QED BY <1>1, <1>8, <2>1, AgainTakesMutex, AgainWaitsMutex
<1>9. CASE MutexLink(t)
  BY <1>1, <1>9, LinkMutex
<1>10. CASE MutexDetach(t)
  BY <1>1, <1>10, DetachMutex
<1>11. CASE MutexCreate(t)
  BY <1>1, <1>11, CreateMutex
<1>12. CASE DrainTest(t) /\ UNCHANGED mutexVars
  BY <1>1, <1>12, DrainTestMutex
<1>13. CASE DrainResume(t) /\ UNCHANGED mutexVars
  BY <1>1, <1>13, DrainResumeMutex
<1> QED BY <1>2, <1>3, <1>4, <1>5, <1>6, <1>7, <1>8, <1>9, <1>10, <1>11, <1>12, <1>13
        DEF MutexStep

LEMMA SignalActions ==
  ASSUME TakesInv, OwnerTypes, NodesInv, OfThreads(awaited), LeadsAstray,
         NEW t \in Thread, SignalStep(t)
  PROVE  MutexInv'
<1>1. Labels
  BY DEF NodesInv
<1>2. CASE (HandleCheck(t) \/ HandleNext(t) \/ SignalEntryEnd(t)) /\ UNCHANGED objVars
  BY <1>1, <1>2, HandleMutex
<1>3. CASE KillFind(t)
  BY <1>3, KillFindMutex
<1>4. CASE KillAlloc(t) \/ KillLink(t) \/ KillTest(t)
  BY <1>4, KillGoesOn
<1>5. CASE KillDeliver(t)
  BY <1>5, KillDeliverMutex
<1>6. CASE SignalWoken(t)
  BY <1>6, SignalWokenMutex
<1>7. ASSUME NEW set, set # {}, NEW time, SignalWait(t, set, time) PROVE MutexInv'
  BY <1>7, SignalWaitMutex
<1>8. ASSUME NEW s, SignalMask(t, s) \/ SignalUnmask(t, s) PROVE MutexInv'
  BY <1>8, MaskMutex
<1>9. ASSUME NEW to \in work.sent, KillStart(t, to[1], to[2]) PROVE MutexInv'
  BY <1>9, KillStartMutex
<1>10. CASE \E set \in (SUBSET SentTo(t)) \ {{}}, time \in Time : SignalWait(t, set, time)
  <2>1. ASSUME NEW set \in (SUBSET SentTo(t)) \ {{}} PROVE set # {}
    BY Zenon
  <2> QED BY <1>7, <1>10, <2>1
<1>11. CASE \E s \in SentTo(t) : SignalMask(t, s) \/ SignalUnmask(t, s)
  BY <1>8, <1>11
<1>12. CASE \E to \in work.sent : KillStart(t, to[1], to[2])
  BY <1>9, <1>12
<1> QED BY <1>2, <1>3, <1>4, <1>5, <1>6, <1>10, <1>11, <1>12 DEF SignalStep

LEMMA NextMutex ==
  ASSUME MutexInv, NodesInv, WaitsInv, NoMeddling,
         [SignalsNext]_<<vars, objVars, mutexVars, sigVars, work>>
  PROVE  MutexInv'
<1>1. Labels /\ work \in Works /\ OwnerTypes /\ OfThreads(awaited)
  BY DEF NodesInv, MutexInv, WaitsInv
<1>2. ASSUME k.asserted, k' = k, UNCHANGED mutexVars PROVE MutexInv'
  BY <1>1, <1>2 DEF MutexInv, OwnerTypes, mutexVars
<1>3. CASE Halt /\ UNCHANGED mutexVars
  BY <1>2, <1>3 DEF Halt, vars
<1>4. CASE UNCHANGED <<vars, objVars, mutexVars, sigVars, work>>
  <2>1. CASE k.asserted
    BY <1>2, <1>4, <2>1 DEF vars
  <2>2. CASE ~k.asserted
    <3>1. TakesInv
      BY <2>2 DEF MutexInv
    <3>2. UNCHANGED <<vars, step, kill, awaited>>
      BY <1>4 DEF objVars, sigVars
    <3>3. IpcInv' /\ CallsInv' /\ ListsTake' /\ \A x : Takes(x)' <=> Takes(x)
      BY <3>1, <3>2, CallsStutter
    <3>4. ASSUME NEW x \in Thread PROVE OwnedOf(x)'
      <4>1. (Usable' <=> Usable) /\ OwnedOf(x)
        BY <1>4, <3>1 DEF Usable, Detaching, vars, objVars, TakesInv
      <4> QED BY <1>4, <3>3, <4>1, OwnedSame DEF vars, objVars, mutexVars
    <3>5. OwnerTypes'
      BY <1>1, <1>4 DEF OwnerTypes, mutexVars
    <3> QED BY <3>3, <3>4, <3>5 DEF MutexInv, TakesInv
  <2> QED BY <2>1, <2>2
<1>5. ASSUME ~k.asserted PROVE TakesInv
  BY <1>5 DEF MutexInv
<1>6. CASE ~k.asserted /\ (Start \/ Interrupt) /\ UNCHANGED <<objVars, mutexVars, sigVars>>
  BY <1>1, <1>5, <1>6, KernelMutex DEF sigVars
<1>7. ASSUME ~k.asserted, astray' = astray \cup Interrupted,
             UNCHANGED <<value, owner, original_priority, hold, held>>,
             \/ \E to \in work.sent : KillIsr(to[1], to[2]) /\ UNCHANGED objVars
             \/ \E t \in Thread : SignalStep(t)
      PROVE  MutexInv'
  <2>1. alive' = alive
    <3>1. \A t : SignalStep(t) => alive' = alive
      BY DEF SignalStep, objVars
    <3> QED BY <1>7, <3>1 DEF objVars
  <2>2. LeadsAstray
    BY <1>7, <2>1 DEF LeadsAstray
  <2>3. ASSUME NEW to \in work.sent, KillIsr(to[1], to[2]), UNCHANGED objVars PROVE MutexInv'
    <3>1. to[1] \in Thread
      BY <1>1, SignalAssumption
    <3> QED BY <1>1, <1>5, <1>7, <2>2, <2>3, <3>1, KillIsrMutex
  <2>4. ASSUME NEW t \in Thread, SignalStep(t) PROVE MutexInv'
    BY <1>1, <1>5, <1>7, <2>2, <2>4, SignalActions
  <2> QED BY <1>7, <2>3, <2>4
<1>8. ASSUME NEW t \in Thread, ~k.asserted, OwnStep(t), UNCHANGED <<objVars, mutexVars>>
      PROVE  MutexInv'
  BY <1>1, <1>5, <1>8, KernelMutex DEF OwnStep
<1>9. ASSUME NEW t \in Thread, ~k.asserted, awaited[t] = {}, MutexStep(t), UNCHANGED sigVars
      PROVE  MutexInv'
  BY <1>1, <1>5, <1>9, MutexActions
<1> QED BY <1>3, <1>4, <1>6, <1>7, <1>8, <1>9 DEF SignalsNext

(* The initial state                                                       *)
LEMMA MutexStart ==
  ASSUME SignalsInit PROVE MutexInv
<1>1. /\ pc = [t \in Thread |-> "app"] /\ step = [t \in Thread |-> "none"]
      /\ arg = [t \in Thread |-> Idle] /\ Init
      /\ value = 1 /\ owner = NoThread /\ hold = 0
      /\ held = [t \in Thread |-> 0] /\ astray = {}
  BY DEF SignalsInit, MutexInit, ObjStart, Init
<1>2. IpcInv /\ NoThread \notin Thread
  BY <1>1, IpcStart, KernelAssumption
<1>3. k.cur = NoThread
  BY <1>1, InitStep
<1>4. OwnerTypes
  BY <1>1 DEF OwnerTypes, OfThreads
<1>5. CallsInv
  <2>1. NoDeleting /\ DrainsList /\ TargetsSafe
    BY <1>1 DEF NoDeleting, Deleting, DrainsList, TargetsSafe, KillCall
  <2>2. RunnerLinks /\ IdleQuiet
    BY <1>1, <1>2, <1>3, KernelAssumption DEF RunnerLinks, IdleQuiet, InCall, IpcLabels
  <2> QED BY <2>1, <2>2 DEF CallsInv
<1>6. \A t \in Thread : ~Takes(t) /\ ~InCall(t)
  BY <1>1 DEF Takes, Waiting, InCall, IpcLabels
<1>7. ListsTake
  BY <1>2, <1>6, IpcFacts DEF ListsTake
<1>8. \A t \in Thread : OwnedOf(t)
  BY <1>1, <1>2, <1>6 DEF OwnedOf
<1> QED BY <1>2, <1>4, <1>5, <1>7, <1>8 DEF MutexInv, TakesInv

(* Only the owner of a mutex believes to hold it, as often as it has taken *)
(* it, whichever way takes with and without a timeout, releases, detaches, *)
(* timeouts, signals and interrupts interleave, among the threads whose    *)
(* waits no signal has interrupted.  Threads that somebody else suspends,  *)
(* resumes, deletes or sets up anew in their calls are left out.           *)
THEOREM MutexExcludes ==
  ASSUME NoMeddling PROVE SignalsSpec => []MutualExclusion
<1>1. Ops \cap {"create", "suspend"} = {} /\ "create" \notin Ops
  BY DEF NoMeddling, Meddling
<1>2. SignalsInit => MutexInv /\ WaitsInv /\ NodesInv
  BY MutexStart, StartWaiting, StartNodes
<1>3. MutexInv /\ WaitsInv /\ NodesInv
        /\ [SignalsNext]_<<vars, objVars, mutexVars, sigVars, work>>
      => MutexInv' /\ WaitsInv' /\ NodesInv'
  BY <1>1, NextMutex, NextWaits, NextNodes
<1>4. MutexInv /\ NodesInv => MutualExclusion
  BY MutualExclusionFollows DEF NodesInv
<1> QED BY <1>2, <1>3, <1>4, PTL DEF SignalsSpec

-----------------------------------------------------------------------------
(* Priority inheritance: the invariant.                                    *)

(* By discipline a mutex is not detached where signals interrupt the waits *)
(* for it: a thread could be about to link itself in its list.             *)
SignalsOrDetach == \A w \in Works : w.mutex => w.calls = {} \/ "drain1" \in w.never

(* Without signals no wait for the mutex is interrupted,                   *)
Unsignalled ==
  work.calls = {} =>
    \A t \in Thread : /\ frames[t] = <<"own">> /\ awaited[t] = {} /\ k.error[t] # "EINTR"
                      /\ ~KillCall(t) /\ ~(pc[t] = "waited" /\ step[t] = "link")

(* and with them it is not detached.                                       *)
Undetached == work.calls # {} => Usable

CalmInv == work \in Works /\ Unsignalled /\ Undetached

(* The owner has been started and has its own priority to go back to, which *)
(* it has while the mutex is detached.                                     *)
OwnerPrio ==
  owner \in Thread =>
    /\ original_priority = InitPrio[owner] /\ k.stat[owner] # "init"
    /\ ~Usable => k.prio[owner] = original_priority

Ordered == flag = "PRIO" => SortedBut(k.prio, k.list[Mtx], owner)

(* It is as urgent as a thread that is about to link itself in the list,   *)
(* and nobody waits for a mutex without owner.                             *)
LinkersInherit ==
  \A t \in Thread : step[t] = "link" => owner # NoThread /\ k.prio[owner] <= k.prio[t]
NobodyWaits == owner = NoThread \/ ~alive => k.list[Mtx] = << >>

PrioInv ==
  /\ OwnerPrio /\ PriorityRestored
  /\ Ordered /\ OwnerInherits /\ LinkersInherit /\ NobodyWaits

(* A sequence of which Without takes nothing                               *)
LEMMA WithoutEmpty == ASSUME NEW t PROVE Without(<< >>, t) = << >>
BY DEF Without, Elements

(* Facts of a state                                                        *)
LEMMA MutexList ==
  ASSUME TakesInv
  PROVE  /\ Mtx \in WaitList /\ k \in KernelRecord /\ Consistent(k) /\ Fields(k)
         /\ k.list[Mtx] \in Seq(Thread) /\ NoRepeat(k.list[Mtx])
         /\ Elements(k.list[Mtx]) \subseteq Thread
         /\ \A x \in Elements(k.list[Mtx]) : k.stat[x] = "suspend"
         /\ NoThread \notin Thread
<1>1. /\ Mtx \in WaitList /\ k \in KernelRecord /\ Consistent(k) /\ NoThread \notin Thread
      /\ \A w \in WaitList : Elements(k.list[w]) \subseteq Thread
  BY MutexAssumption, ObjectAssumption, IpcFacts DEF TakesInv
<1>2. k.list[Mtx] \in Seq(Thread) /\ NoRepeat(k.list[Mtx])
  BY <1>1, WaitQueue DEF KernelRecord, QueueLists, Consistent, LinkedOnce, NoRepeat
<1>3. \A x \in Elements(k.list[Mtx]) : k.stat[x] = "suspend"
  BY <1>1 DEF TakesInv, IpcInv, ListedWait
<1>4. Fields(k)
  BY <1>1 DEF KernelRecord, Fields
<1> QED BY <1>1, <1>2, <1>3, <1>4

(* A thread about to link itself is one of the system.                     *)
LEMMA LinkerAlive ==
  ASSUME TakesInv, Labels, NEW t \in Thread, step[t] = "link"
  PROVE  k.stat[t] # "init" /\ pc[t] = "waited"
<1>1. pc[t] \in {"waited", "drain2"}
  BY DEF Labels
<1>2. pc[t] # "drain2"
  BY MutexAssumption DEF TakesInv, CallsInv, DrainsList
<1> QED BY <1>1, <1>2 DEF TakesInv, IpcInv, CallersAlive, InCall, IpcLabels

(* A step in which no thread begins to wait for the mutex and its owner    *)
(* remains: a thread may be started, and one may leave the list.           *)
LEMMA InheritSame ==
  ASSUME TakesInv, OwnerTypes, Labels, PrioInv, NEW u, TakesFrom(k, k', u),
         \A x \in Thread : /\ \/ k'.prio[x] = k.prio[x]
                              \/ k.stat[x] = "init" /\ k'.prio[x] = InitPrio[x]
                           /\ k'.stat[x] = "init" => k.stat[x] = "init"
                           /\ step'[x] = "link" => step[x] = "link",
         UNCHANGED <<flag, owner, original_priority>>, alive' = alive \/ k.list[Mtx] = << >>,
         Usable => Usable' \/ (owner \in Thread => k.prio[owner] = original_priority)
  PROVE  PrioInv'
<1>1. /\ Mtx \in WaitList /\ k.list[Mtx] \in Seq(Thread) /\ NoRepeat(k.list[Mtx])
      /\ Elements(k.list[Mtx]) \subseteq Thread
      /\ \A x \in Elements(k.list[Mtx]) : k.stat[x] = "suspend"
      /\ NoThread \notin Thread
  BY MutexList
<1>2. owner \in Thread \cup {NoThread}
  BY DEF OwnerTypes
<1> DEFINE s == k.list[Mtx]
           r == k'.list[Mtx]
<1>3. r = Without(s, u)
  BY <1>1 DEF TakesFrom
<1>4. r \in Seq(Thread) /\ Elements(r) \subseteq Elements(s)
  BY <1>1, <1>3, WithoutFacts
<1>5. \A x \in Elements(s) : k'.prio[x] = k.prio[x]
  BY <1>1
<1>6. owner \in Thread => k'.prio[owner] = k.prio[owner]
  BY DEF PrioInv, OwnerPrio
<1>7. OwnerPrio'
  BY <1>6 DEF PrioInv, OwnerPrio
<1>8. PriorityRestored'
  BY DEF PrioInv, PriorityRestored
<1>9. Ordered'
  <2> SUFFICES ASSUME flag = "PRIO" PROVE SortedBut(k'.prio, r, owner)
    BY DEF Ordered
  <2>1. SortedBut(k.prio, s, owner)
    BY DEF PrioInv, Ordered
  <2>2. SortedBut(k.prio, r, owner)
    BY <1>1, <1>3, <2>1, WithoutSorted
  <2>3. \A i \in DOMAIN r : k'.prio[r[i]] = k.prio[r[i]]
    BY <1>4, <1>5 DEF Elements
  <2> HIDE DEF r
  <2> QED BY <2>2, <2>3 DEF SortedBut
<1>10. OwnerInherits'
  BY <1>1, <1>2, <1>4, <1>5, <1>6 DEF PrioInv, OwnerInherits
<1>11. LinkersInherit'
  <2>1. \A x \in Thread : step[x] = "link" => k.stat[x] # "init"
    BY LinkerAlive
  <2> QED BY <1>2, <1>6, <2>1 DEF PrioInv, LinkersInherit
<1>12. NobodyWaits'
  BY <1>3, WithoutEmpty DEF PrioInv, NobodyWaits
<1> QED BY <1>7, <1>8, <1>9, <1>10, <1>11, <1>12 DEF PrioInv

-----------------------------------------------------------------------------
(* Steps of the kernel and of signals.                                     *)

(* No priority changes, at most one thread leaves the wait lists, and none *)
(* is set up.                                                              *)
Eases(kd, r) ==
  /\ r.prio = kd.prio /\ \E u : TakesFrom(kd, r, u)
  /\ \A x \in Thread : r.stat[x] = "init" => kd.stat[x] = "init"

LEMMA EasesSame ==
  ASSUME NEW kd, NEW m, Eases(kd, m), NEW r,
         r.list = m.list, r.prio = m.prio, r.stat = m.stat
  PROVE  Eases(kd, r)
BY DEF Eases, TakesFrom

LEMMA EasesNothing ==
  ASSUME NEW kd \in KernelRecord, NEW r, SameWaits(kd, r), r.prio = kd.prio, r.stat = kd.stat
  PROVE  Eases(kd, r)
<1>1. ASSUME NEW w \in WaitList PROVE NoThread \notin Elements(kd.list[w])
  <2>1. kd.list[w] \in Seq(Thread)
    BY WaitQueue DEF KernelRecord, QueueLists
  <2> QED BY <2>1, EmptyElements, KernelAssumption
<1>2. TakesFrom(kd, r, NoThread)
  BY <1>1, WithoutOther DEF TakesFrom, SameWaits
<1> QED BY <1>2 DEF Eases

(* The functions that the steps are made of                                *)
LEMMA Eased ==
  ASSUME NEW kd \in KernelRecord, Consistent(kd), kd.group # {}
  PROVE  /\ Eases(kd, kd) /\ \A b : Eases(kd, [kd EXCEPT !.asserted = b])
         /\ \A t, e : Eases(kd, SetError(kd, t, e))
         /\ Eases(kd, Schedule(kd)) /\ Eases(kd, Schedule(LeaveCritical(EnterCritical(kd))))
         /\ \A u \in Thread : kd.stat[u] = "suspend" =>
              Eases(kd, Resume(kd, u)) /\ Eases(kd, Schedule(Resume(kd, u)))
         /\ \A t \in Thread : kd.stat[t] \in {"ready", "suspend"} =>
              Eases(kd, Suspend(kd, t)) /\ Eases(kd, StartTimer(Suspend(kd, t), t))
<1>1. Eases(kd, kd) /\ \A b : Eases(kd, [kd EXCEPT !.asserted = b])
  BY EasesNothing DEF SameWaits, KernelRecord
<1>2. \A t, e : Eases(kd, SetError(kd, t, e))
  BY EasesNothing DEF SameWaits, SetError, KernelRecord
<1>3. Eases(kd, Schedule(kd))
  BY <1>1, EasesSame, ScheduleChanges DEF Schedule, KernelRecord
<1>4. Eases(kd, Schedule(LeaveCritical(EnterCritical(kd))))
  <2> DEFINE m == LeaveCritical(EnterCritical(kd))
  <2>1. /\ m.list = kd.list /\ m.prio = kd.prio /\ m.stat = kd.stat
        /\ {"list", "prio", "stat"} \subseteq DOMAIN m
    BY DEF EnterCritical, LeaveCritical, KernelRecord
  <2> HIDE DEF m
  <2>2. /\ Schedule(m).list = m.list /\ Schedule(m).prio = m.prio /\ Schedule(m).stat = m.stat
    BY <2>1 DEF Schedule
  <2>3. Eases(kd, Schedule(m))
    BY <1>1, <2>1, <2>2, EasesSame
  <2> QED BY <2>3 DEF m
<1>5. ASSUME NEW u \in Thread, kd.stat[u] = "suspend"
      PROVE  Eases(kd, Resume(kd, u)) /\ Eases(kd, Schedule(Resume(kd, u)))
  <2> DEFINE m == Resume(kd, u)
  <2>1. /\ TakesFrom(kd, m, u) /\ m.stat = Update(kd.stat, u, "ready") /\ m.prio = kd.prio
        /\ m \in KernelRecord
    BY <1>5, RaiseChanges DEF Changes
  <2> HIDE DEF m
  <2>2. \A x \in Thread : m.stat[x] = "init" => kd.stat[x] = "init"
    BY <2>1 DEF Update, KernelRecord
  <2>3. Eases(kd, m)
    BY <2>1, <2>2 DEF Eases
  <2>4. /\ Schedule(m).list = m.list /\ Schedule(m).prio = m.prio /\ Schedule(m).stat = m.stat
    BY <2>1 DEF Schedule, KernelRecord
  <2>5. Eases(kd, Schedule(m))
    BY <2>3, <2>4, EasesSame
  <2> QED BY <2>3, <2>5 DEF m
<1>6. ASSUME NEW t \in Thread, kd.stat[t] \in {"ready", "suspend"},
             NEW m, m = Suspend(kd, t) \/ m = StartTimer(Suspend(kd, t), t)
      PROVE  Eases(kd, m)
  <2>1. /\ TakesFrom(kd, m, t) /\ m.stat = Update(kd.stat, t, "suspend")
    BY <1>6, SuspendChanges
  <2>2. m.prio = kd.prio
    <3> DEFINE n == Suspend(kd, t)
    <3>1. n \in KernelRecord /\ n.prio = kd.prio
      BY <1>6, SuspendFacts
    <3> HIDE DEF n
    <3>2. StartTimer(n, t).prio = n.prio
      BY <3>1 DEF StartTimer, KernelRecord
    <3> QED BY <1>6, <3>1, <3>2 DEF n
  <2>3. \A x \in Thread : m.stat[x] = "init" => kd.stat[x] = "init"
    BY <2>1 DEF Update, KernelRecord
  <2> QED BY <2>1, <2>2, <2>3 DEF Eases
<1> QED BY <1>1, <1>2, <1>3, <1>4, <1>5, <1>6

(* One turn of the loop of rt_ipc_list_resume_all                          *)
LEMMA DrainEases ==
  ASSUME NEW kd \in KernelRecord, Consistent(kd), kd.group # {},
         NEW u \in Thread, kd.stat[u] = "suspend",
         NEW w, kd.list[w] # << >>, u = Head(kd.list[w])
  PROVE  Eases(kd, DrainOne(kd, w))
<1> DEFINE m == SetError(kd, u, "ERROR")
<1>2. "ERROR" \in Error
  BY DEF Error
<1>3. /\ m \in KernelRecord /\ Consistent(m) /\ m.group = kd.group
      /\ m.error = [kd.error EXCEPT ![u] = "ERROR"]
      /\ m.list = kd.list /\ m.prio = kd.prio /\ m.stat = kd.stat
  BY <1>2, SetErrorFacts
<1>4. DrainOne(kd, w) = Resume(m, u)
  BY <1>3 DEF DrainOne, IpcResume
<1> HIDE DEF m
<1>5. Eases(m, Resume(m, u))
  BY <1>3, Eased
<1> QED BY <1>3, <1>4, <1>5 DEF Eases, TakesFrom

(* Where a section of signal.c leaves the calls                            *)
LEMMA SignalControl ==
  ASSUME Labels, NEW t \in Thread, SignalStep(t)
  PROVE  /\ UNCHANGED <<flag, alive>> /\ (Detaching' => Detaching)
         /\ \A x \in Thread : step'[x] = "link" => step[x] = "link"
<1>1. UNCHANGED <<flag, alive>>
  BY DEF SignalStep, objVars
<1>2. pc' = pc \/ \E l \in {"app", "sched", "waited", "wait"} : Goto(t, l)
  BY DEF SignalStep, HandleCheck, HandleNext, SignalEntryEnd, KillFind, KillAlloc, KillLink,
         KillTest, KillDeliver, SignalWoken, SignalWait, SignalMask, SignalUnmask, KillStart,
         Return, vars
<1>3. step' = step \/ \E s : s # "link" /\ step' = [step EXCEPT ![t] = s]
  BY DEF SignalStep, HandleCheck, HandleNext, SignalEntryEnd, KillFind, KillAlloc, KillLink,
         KillTest, KillDeliver, SignalWoken, SignalWait, SignalMask, SignalUnmask, KillStart,
         Return, GoStep, objVars
<1>4. Detaching' => Detaching
  BY <1>2 DEF Detaching, Goto, Labels, OfThreads
<1>5. \A x \in Thread : step'[x] = "link" => step[x] = "link"
  BY <1>3 DEF Labels, OfThreads
<1> QED BY <1>1, <1>4, <1>5

(* and what it does to the kernel                                          *)
LEMMA SignalEases ==
  ASSUME TakesInv, Labels, NEW t \in Thread, SignalStep(t)
  PROVE  Eases(k, k')
<1>1. k \in KernelRecord /\ Consistent(k) /\ k.group # {}
  BY IpcFacts DEF TakesInv
<1>2. /\ Eases(k, k) /\ \A b : Eases(k, [k EXCEPT !.asserted = b])
      /\ \A e : Eases(k, SetError(k, t, e))
      /\ Eases(k, Schedule(LeaveCritical(EnterCritical(k))))
      /\ \A u \in Thread : k.stat[u] = "suspend" => Eases(k, Resume(k, u))
      /\ k.stat[t] \in {"ready", "suspend"} =>
           Eases(k, Suspend(k, t)) /\ Eases(k, StartTimer(Suspend(k, t), t))
  BY <1>1, Eased
<1>3. CASE HandleCheck(t) \/ HandleNext(t) \/ SignalEntryEnd(t)
  BY <1>2, <1>3 DEF HandleCheck, HandleNext, SignalEntryEnd, vars
<1>4. CASE KillFind(t)
  BY <1>2, <1>4 DEF KillFind
<1>5. CASE KillAlloc(t) \/ KillLink(t) \/ KillTest(t)
  BY <1>2, <1>5 DEF KillAlloc, KillLink, KillTest, vars
<1>6. CASE KillDeliver(t)
  <2>1. kill[t].to \in Thread
    BY <1>6, KillAt DEF KillDeliver
  <2> QED BY <1>2, <1>6, <2>1 DEF KillDeliver
<1>7. CASE SignalWoken(t)
  BY <1>2, <1>7 DEF SignalWoken, TakeSignal
<1>8. ASSUME NEW set, NEW time, SignalWait(t, set, time) PROVE Eases(k, k')
  <2>1. k.stat[t] \in {"ready", "suspend"}
    BY <1>8, SignalCaller DEF SignalWait, SigCall
  <2> QED BY <1>2, <1>8, <2>1 DEF SignalWait, TakeSignal
<1>9. ASSUME NEW s, SignalMask(t, s) \/ SignalUnmask(t, s) PROVE Eases(k, k')
  BY <1>2, <1>9 DEF SignalMask, SignalUnmask, vars
<1>10. ASSUME NEW u, NEW s, KillStart(t, u, s) PROVE Eases(k, k')
  BY <1>2, <1>10 DEF KillStart
<1> QED BY <1>3, <1>4, <1>5, <1>6, <1>7, <1>8, <1>9, <1>10 DEF SignalStep

LEMMA KillIsrEases ==
  ASSUME TakesInv, NEW u \in Thread, NEW s, KillIsr(u, s)
  PROVE  Eases(k, k')
<1>1. k \in KernelRecord /\ Consistent(k) /\ k.group # {}
  BY IpcFacts DEF TakesInv
<1>2. CASE k' = [k EXCEPT !.asserted = TRUE]
  BY <1>1, <1>2, Eased
<1>3. ASSUME NEW m, m = k \/ m = Schedule(k),
             \/ k' = m \/ k' = Schedule(m) \/ k' = SetError(m, u, "EINTR")
             \/ m.stat[u] = "suspend" /\ k' = Schedule(Resume(m, u))
      PROVE  Eases(k, k')
  <2>1. /\ m \in KernelRecord /\ Consistent(m) /\ m.group # {}
        /\ m.list = k.list /\ m.prio = k.prio /\ m.stat = k.stat
    BY <1>1, <1>3, ScheduleFacts
  <2>2. Eases(m, k')
    BY <1>3, <2>1, Eased
  <2> QED BY <2>1, <2>2 DEF Eases, TakesFrom
<1>4. ASSUME NEW m, NEW pending, NEW list, NEW free, IsrDeliver(u, m, pending, list, free)
      PROVE  \/ k' = m \/ k' = Schedule(m) \/ k' = SetError(m, u, "EINTR")
             \/ m.stat[u] = "suspend" /\ k' = Schedule(Resume(m, u))
  BY <1>4 DEF IsrDeliver
<1> QED BY <1>2, <1>3, <1>4 DEF KillIsr

(* They preserve the invariant.                                            *)
LEMMA SignalInherits ==
  ASSUME TakesInv, OwnerTypes, Labels, PrioInv, UNCHANGED <<owner, original_priority>>,
         \/ \E t \in Thread : SignalStep(t)
         \/ \E u \in Thread : \E s : KillIsr(u, s) /\ UNCHANGED objVars
  PROVE  PrioInv'
<1>1. /\ UNCHANGED <<flag, alive>> /\ (Detaching' => Detaching)
      /\ \A x \in Thread : step'[x] = "link" => step[x] = "link"
  <2>1. ASSUME NEW u \in Thread, NEW s, KillIsr(u, s), UNCHANGED objVars
        PROVE  /\ UNCHANGED <<flag, alive>> /\ (Detaching' => Detaching)
               /\ \A x \in Thread : step'[x] = "link" => step[x] = "link"
    BY <2>1 DEF KillIsr, objVars, Detaching
  <2> QED BY <2>1, SignalControl
<1>2. Eases(k, k')
  BY SignalEases, KillIsrEases
<1>3. PICK u : TakesFrom(k, k', u)
  BY <1>2 DEF Eases
<1>4. Usable => Usable'
  BY <1>1 DEF Usable
<1>5. \A x \in Thread : /\ k'.prio[x] = k.prio[x]
                        /\ k'.stat[x] = "init" => k.stat[x] = "init"
  BY <1>2 DEF Eases
<1> QED BY <1>1, <1>3, <1>4, <1>5, InheritSame

(* The steps of the kernel too                                             *)
LEMMA KernelInherits ==
  ASSUME TakesInv, OwnerTypes, Labels, PrioInv, NoMeddling, "priority" \notin Ops,
         Start \/ Interrupt \/ \E t \in Thread : Application(t) \/ InKernel(t),
         UNCHANGED <<objVars, mutexVars, kill>>
  PROVE  PrioInv'
<1>1. IpcInv' /\ Moves
  BY NextIpc DEF TakesInv, NoMeddling, Next
<1>2. \A x \in Thread : k'.stat[x] = "init" => k.stat[x] = "init"
  BY <1>1, KernelCalls DEF TakesInv, objVars
<1>3. PICK u : TakesFrom(k, k', u)
  BY <1>1 DEF Moves, WaitsKept
<1>4. \/ Spares(k, k')
      \/ \E v \in Thread : k.stat[v] = "init" /\ k'.prio = [k.prio EXCEPT ![v] = InitPrio[v]]
  BY MutexList, KernelSpares DEF NoMeddling
<1>5. ASSUME NEW x \in Thread
      PROVE  \/ k'.prio[x] = k.prio[x]
             \/ k.stat[x] = "init" /\ k'.prio[x] = InitPrio[x]
  BY <1>4, MutexList DEF Spares, KernelRecord
<1>6. Usable => Usable'
  BY <1>1 DEF Usable, Detaching, Moves, LabelsKept, IpcLabels, objVars
<1>7. UNCHANGED <<flag, owner, original_priority, alive>>
      /\ \A x \in Thread : step'[x] = "link" => step[x] = "link"
  BY DEF objVars, mutexVars
<1> QED BY <1>2, <1>3, <1>5, <1>6, <1>7, InheritSame

-----------------------------------------------------------------------------
(* The calls of the mutex.                                                 *)

(* The sections that neither make a thread wait nor move the mutex         *)
LEMMA InheritQuiet ==
  ASSUME TakesInv, OwnerTypes, Labels, PrioInv, NEW t \in Thread, OnlyGoes(t),
         step'[t] # "link", Eases(k, k'), UNCHANGED <<flag, owner, original_priority>>,
         alive' = alive \/ k.list[Mtx] = << >>,
         Usable => Usable' \/ (owner \in Thread => k.prio[owner] = original_priority)
  PROVE  PrioInv'
<1>1. PICK u : TakesFrom(k, k', u)
  BY DEF Eases
<1>2. \A x \in Thread : /\ k'.prio[x] = k.prio[x]
                        /\ k'.stat[x] = "init" => k.stat[x] = "init"
                        /\ step'[x] = "link" => step[x] = "link"
  BY DEF Eases, OnlyGoes
<1> QED BY <1>1, <1>2, InheritSame

(* The use of the mutex does not end when a thread goes on.                *)
LEMMA StaysUsable ==
  ASSUME NEW t \in Thread, OnlyGoes(t), alive' = alive, pc'[t] \notin {"drain1", "drain2"}
  PROVE  Usable => Usable'
BY DEF Usable, Detaching, OnlyGoes

LEMMA QuietInherits ==
  ASSUME TakesInv, OwnerTypes, Labels, PrioInv, NEW t \in Thread, OnlyGoes(t),
         \/ MutexTakeAgain(t) \/ MutexRefuse(t) \/ MutexTaken(t) \/ MutexNotTaken(t)
         \/ (MutexRelease(t) /\ hold > 1)
  PROVE  PrioInv'
<1>1. k \in KernelRecord /\ Consistent(k) /\ k.group # {} /\ pc \in [Thread -> PC]
  BY IpcFacts DEF TakesInv
<1>2. Eases(k, k) /\ \A e : Eases(k, SetError(k, t, e))
  BY <1>1, Eased
<1>3. UNCHANGED <<flag, alive, owner, original_priority>> /\ Eases(k, k')
  <2>1. CASE MutexRelease(t) /\ hold > 1
    <3>1. ~(hold <= 1)
      BY <2>1 DEF OwnerTypes
    <3> QED BY <1>2, <2>1, <3>1 DEF MutexRelease, objVars
  <2>2. CASE ~(MutexRelease(t) /\ hold > 1)
    <3>1. UNCHANGED <<flag, alive, owner, original_priority>>
      BY <2>2 DEF MutexTakeAgain, MutexRefuse, MutexTaken, MutexNotTaken, WaitFails,
             objVars, mutexVars
    <3>2. k' = k \/ \E e : k' = SetError(k, t, e)
      BY <2>2 DEF MutexTakeAgain, MutexRefuse, MutexTaken, MutexNotTaken, WaitFails
    <3> QED BY <1>2, <3>1, <3>2
  <2> QED BY <2>1, <2>2
<1>5. step'[t] = "none" /\ pc'[t] \in {"app", "sched"}
  <2>1. CASE MutexTakeAgain(t) \/ MutexRefuse(t) \/ MutexRelease(t)
    <3>1. pc[t] = "app" /\ step' = step /\ (pc' = pc \/ Goto(t, "sched"))
      BY <2>1 DEF MutexTakeAgain, MutexRefuse, MutexRelease, MutexCall, ObjCall, objVars
    <3> QED BY <1>1, <3>1 DEF Labels, Goto
  <2>2. CASE MutexTaken(t) \/ MutexNotTaken(t)
    BY <1>1, <2>2 DEF MutexTaken, MutexNotTaken, WaitFails, Return, Goto, Labels, OfThreads
  <2> QED BY <2>1, <2>2
<1> QED BY <1>3, <1>5, StaysUsable, InheritQuiet

(* The emptying of the list, and its begin: the owner is the caller, at    *)
(* its own priority.                                                       *)
LEMMA DrainInherits ==
  ASSUME TakesInv, OwnerTypes, Labels, PrioInv, NEW t \in Thread, OnlyGoes(t),
         MutexDetach(t) \/ ((DrainTest(t) \/ DrainResume(t)) /\ UNCHANGED mutexVars)
  PROVE  PrioInv'
<1>1. k \in KernelRecord /\ Consistent(k) /\ k.group # {} /\ pc \in [Thread -> PC]
  BY IpcFacts DEF TakesInv
<1>2. UNCHANGED <<flag, owner, original_priority>>
  BY DEF MutexDetach, DetachObject, DrainTest, DrainResume, objVars, mutexVars
<1>3. CASE MutexDetach(t)
  <2>1. Eases(k, k') /\ alive' = alive
    BY <1>1, <1>3, Eased DEF MutexDetach, DetachObject, objVars
  <2>2. step'[t] = "none"
    BY <1>3 DEF MutexDetach, DetachObject, ObjCall, objVars, Labels
  <2>3. owner \in Thread => k.prio[owner] = original_priority
    BY <1>3, KernelAssumption DEF MutexDetach
  <2> QED BY <1>2, <2>1, <2>2, <2>3, InheritQuiet
<1>4. CASE DrainTest(t)
  <2>1. Eases(k, k') /\ ~Usable
    BY <1>1, <1>4, Eased DEF DrainTest, Usable, Detaching
  <2>2. alive' = alive \/ k.list[Mtx] = << >>
    BY <1>4, MutexAssumption DEF DrainTest
  <2>3. step'[t] # "link"
    <3>1. step[t] = "none"
      BY <1>4 DEF DrainTest, Labels
    <3>2. step' = step \/ \E w \in WaitList : step' = [step EXCEPT ![t] = w]
      BY <1>4, ObjectAssumption DEF DrainTest, GoStep
    <3> QED BY <3>1, <3>2, MutexAssumption DEF Labels, OfThreads
  <2> QED BY <1>2, <2>1, <2>2, <2>3, InheritQuiet
<1>5. CASE DrainResume(t)
  <2>1. ~Usable /\ alive' = alive /\ step'[t] = "none"
    BY <1>5 DEF DrainResume, Usable, Detaching, GoStep, Labels, OfThreads
  <2>2. PICK w \in WaitList : k' = DrainOne(k, w)
    BY <1>5, MutexDrains DEF DrainResume
  <2>3. Eases(k, k')
    <3>1. CASE k.list[w] = << >>
      BY <1>1, <2>2, <3>1, Eased DEF DrainOne
    <3>2. CASE k.list[w] # << >>
      <4>1. Head(k.list[w]) \in Thread /\ Head(k.list[w]) \in Elements(k.list[w])
        BY <1>1, <3>2, FirstWaiter
      <4>2. k.stat[Head(k.list[w])] = "suspend"
        BY <4>1 DEF TakesInv, IpcInv, ListedWait
      <4> QED BY <1>1, <2>2, <3>2, <4>1, <4>2, DrainEases
    <3> QED BY <3>1, <3>2
  <2> QED BY <1>2, <2>1, <2>3, InheritQuiet
<1> QED BY <1>3, <1>4, <1>5

(* A thread takes the mutex, for which nobody waits.                       *)
LEMMA TakenInherits ==
  ASSUME TakesInv, PrioInv, owner = NoThread, NEW t \in Thread, k.stat[t] = "ready",
         k'.list = k.list, k'.prio = k.prio, k'.stat = k.stat,
         owner' = t, original_priority' = k.prio[t],
         \A x \in Thread : step'[x] = "link" => step[x] = "link"
  PROVE  PrioInv'
<1>1. NoThread \notin Thread /\ k.list[Mtx] = << >>
  BY KernelAssumption DEF PrioInv, NobodyWaits
<1>2. \A x \in Thread : k.prio[x] = InitPrio[x]
  BY <1>1 DEF PrioInv, PriorityRestored
<1>3. OwnerPrio' /\ PriorityRestored'
  BY <1>2 DEF OwnerPrio, PriorityRestored
<1>4. Ordered' /\ OwnerInherits' /\ NobodyWaits'
  BY <1>1 DEF Ordered, SortedBut, OwnerInherits, NobodyWaits, Elements
<1>5. LinkersInherit'
  BY DEF PrioInv, LinkersInherit
<1> QED BY <1>3, <1>4, <1>5 DEF PrioInv

LEMMA TakeInherits ==
  ASSUME TakesInv, OwnerTypes, Labels, PrioInv, NEW t \in Thread, OnlyGoes(t), awaited[t] = {},
         MutexTake(t) \/ (MutexAgain(t) /\ value > 0)
  PROVE  PrioInv'
<1>1. k \in KernelRecord
  BY IpcFacts DEF TakesInv
<1>2. owner = NoThread /\ owner' = t /\ original_priority' = k.prio[t]
  BY DEF MutexTake, MutexAgain, OwnerTypes
<1>3. k.stat[t] = "ready"
  BY MutexCaller, MutexWoken DEF MutexTake, MutexAgain
<1>4. k'.list = k.list /\ k'.prio = k.prio /\ k'.stat = k.stat
  BY <1>1 DEF MutexTake, MutexAgain, SetError, KernelRecord
<1>5. step'[t] # "link"
  <2>1. CASE MutexTake(t)
    BY <2>1, MutexCaller DEF MutexTake, objVars
  <2>2. CASE MutexAgain(t) /\ value > 0
    BY <2>2 DEF MutexAgain, Return, Labels, OfThreads
  <2> QED BY <2>1, <2>2
<1> QED BY <1>2, <1>3, <1>4, <1>5, TakenInherits DEF OnlyGoes

(* The inheritance of the priority of t                                    *)
LEMMA BoostPrio ==
  ASSUME TakesInv, owner \in Thread, NEW t \in Thread, NEW m, m = Boost(k, t)
  PROVE  /\ m.prio \in [Thread -> Prio]
         /\ \A x \in Thread \ {owner} : m.prio[x] = k.prio[x]
         /\ m.prio[owner] <= k.prio[owner] /\ m.prio[owner] <= k.prio[t]
<1>1. k \in KernelRecord /\ Consistent(k)
  BY IpcFacts DEF TakesInv
<1>2. /\ k.prio \in [Thread -> Prio] /\ k.prio[owner] \in Nat /\ k.prio[t] \in Prio
      /\ k.prio[t] \in Nat
  BY <1>1, KernelAssumption DEF KernelRecord, Prio
<1>3. CASE ~(k.prio[t] < k.prio[owner])
  BY <1>2, <1>3 DEF Boost
<1>4. CASE k.prio[t] < k.prio[owner]
  <2>1. m = ChangePriority(k, owner, k.prio[t]) /\ k.prio[t] \in Prio
    BY <1>2, <1>4 DEF Boost
  <2>2. m.prio = Update(k.prio, owner, k.prio[t])
    BY <1>1, <2>1, ChangePriorityFacts
  <2>3. m.prio \in [Thread -> Prio] /\ m.prio[owner] = k.prio[t]
    BY <1>2, <2>2 DEF Update
  <2>4. \A x \in Thread \ {owner} : m.prio[x] = k.prio[x]
    BY <1>2, <2>2 DEF Update
  <2> QED BY <1>2, <1>4, <2>3, <2>4
<1> QED BY <1>3, <1>4

(* A thread that waits, or will wait, for the owner                        *)
LEMMA BoostInherits ==
  ASSUME TakesInv, PrioInv, owner \in Thread, NEW t \in Thread,
         k'.prio \in [Thread -> Prio],
         \A x \in Thread \ {owner} : k'.prio[x] = k.prio[x],
         k'.prio[owner] <= k.prio[owner], k'.prio[owner] <= k.prio[t],
         UNCHANGED <<flag, owner, original_priority>>, Usable', k'.stat[owner] # "init",
         \A x \in Thread \ {t} : step'[x] = "link" => step[x] = "link",
         Elements(k'.list[Mtx]) \subseteq Elements(k.list[Mtx]) \cup {t},
         flag = "PRIO" => SortedBut(k'.prio, k'.list[Mtx], owner)
  PROVE  PrioInv'
<1>1. /\ k \in KernelRecord /\ Elements(k.list[Mtx]) \subseteq Thread /\ NoThread \notin Thread
  BY MutexList, KernelAssumption
<1>2. \A x \in Thread : k.prio[x] \in Nat /\ k'.prio[x] \in Nat
  BY <1>1, KernelAssumption DEF KernelRecord, Prio
<1>3. ASSUME NEW x \in Thread, x = t \/ k.prio[owner] <= k.prio[x]
      PROVE  k'.prio[owner] <= k'.prio[x]
  <2>1. CASE x = owner
    BY <1>2, <2>1
  <2>2. CASE x # owner
    BY <1>2, <1>3, <2>2
  <2> QED BY <2>1, <2>2
<1>4. OwnerPrio'
  BY DEF PrioInv, OwnerPrio
<1>5. PriorityRestored'
  BY DEF PrioInv, PriorityRestored, OwnerPrio
<1>6. Ordered'
  BY DEF Ordered
<1>7. OwnerInherits'
  BY <1>1, <1>3 DEF PrioInv, OwnerInherits
<1>8. LinkersInherit'
  BY <1>1, <1>3 DEF PrioInv, LinkersInherit
<1>9. NobodyWaits'
  BY <1>1 DEF NobodyWaits, Usable
<1> QED BY <1>4, <1>5, <1>6, <1>7, <1>8, <1>9 DEF PrioInv

(* rt_mutex_take that waits                                                *)
LEMMA WaitInherits ==
  ASSUME TakesInv, OwnerTypes, Labels, PrioInv, NEW t \in Thread, NEW time, MutexWait(t, time),
         OnlyGoes(t)
  PROVE  PrioInv'
<1>1. /\ Running(t) /\ pc[t] = "app" /\ t # Idle /\ Usable
      /\ k.stat[t] = "ready" /\ Unlisted(t) /\ step[t] = "none"
  BY MutexCaller DEF MutexWait
<1>2. /\ Goto(t, "wait") /\ owner # t /\ value = 0
      /\ UNCHANGED <<flag, alive, step, owner, original_priority>>
  BY DEF MutexWait, mutexVars
<1>3. k \in KernelRecord /\ pc \in [Thread -> PC] /\ Mtx \in WaitList /\ k.list[Mtx] \in Seq(Thread)
  BY IpcFacts, MutexList DEF TakesInv
<1>4. owner \in Thread
  BY <1>2 DEF OwnerTypes
<1>5. PICK m : m = Boost(k, t)
  OBVIOUS
<1>6. /\ SameWaits(k, m) /\ m.stat = k.stat /\ m \in KernelRecord /\ Consistent(m)
  BY <1>4, <1>5, BoostChanges
<1>7. /\ m.prio \in [Thread -> Prio]
      /\ \A x \in Thread \ {owner} : m.prio[x] = k.prio[x]
      /\ m.prio[owner] <= k.prio[owner] /\ m.prio[owner] <= k.prio[t]
  BY <1>4, <1>5, BoostPrio
<1>8. PICK n : n = SetError(m, t, "EOK")
  OBVIOUS
<1>9. /\ n \in KernelRecord /\ Consistent(n) /\ n.error = [m.error EXCEPT ![t] = "EOK"]
      /\ n.list = m.list /\ n.stat = m.stat /\ n.prio = m.prio
  <2>1. "EOK" \in Error
    BY DEF Error
  <2> QED BY <1>6, <1>8, <2>1, SetErrorFacts
<1>10. PICK x : x = IpcSuspend(n, Mtx, t, flag)
  OBVIOUS
<1>11. k' = x \/ k' = StartTimer(x, t)
  BY <1>5, <1>8, <1>10 DEF MutexWait
<1>12. /\ k'.prio = m.prio /\ k'.stat = Update(k.stat, t, "suspend")
       /\ Elements(k'.list[Mtx]) = Elements(k.list[Mtx]) \cup {t}
       /\ flag = "PRIO" => SortedBut(k'.prio, k'.list[Mtx], owner)
  <2>1. n.list[Mtx] = k.list[Mtx] /\ \A v \in WaitList : t \notin Elements(n.list[v])
    BY <1>1, <1>3, <1>6, <1>9 DEF SameWaits, Unlisted
  <2>2. n.prio[owner] <= n.prio[t] /\ n.stat[t] \in {"ready", "suspend"}
    BY <1>1, <1>2, <1>6, <1>7, <1>9
  <2>3. flag = "PRIO" => SortedBut(n.prio, n.list[Mtx], owner)
    <3>1. flag = "PRIO" => SortedBut(k.prio, k.list[Mtx], owner)
      BY DEF PrioInv, Ordered
    <3> QED BY <1>3, <1>7, <1>9, <2>1, <3>1, SortedBoosted
  <2>4. n.list[Mtx] = k.list[Mtx] /\ n.prio = m.prio /\ n.stat = k.stat
    BY <1>6, <1>9, <2>1
  <2>5. /\ k'.prio = n.prio /\ k'.stat = Update(n.stat, t, "suspend")
        /\ Elements(k'.list[Mtx]) = Elements(n.list[Mtx]) \cup {t}
        /\ flag = "PRIO" => SortedBut(k'.prio, k'.list[Mtx], owner)
    <3>1. \A v \in WaitList : t \notin Elements(n.list[v])
      BY <2>1
    <3>2. n \in KernelRecord /\ Consistent(n) /\ Mtx \in WaitList
      BY <1>3, <1>9
    <3>3. /\ k'.prio = n.prio /\ k'.stat = Update(n.stat, t, "suspend")
          /\ Elements(k'.list[Mtx]) = Elements(n.list[Mtx]) \cup {t}
          /\ k'.list[Mtx] = Enqueued(n, n.list[Mtx], t, flag)
      <4>1. x = IpcSuspend(n, Mtx, t, flag) /\ n.stat[t] \in {"ready", "suspend"}
        BY <1>10, <2>2
      <4>2. /\ x \in KernelRecord /\ SameData(n, x) /\ x.stat = Update(n.stat, t, "suspend")
            /\ Elements(x.list[Mtx]) = Elements(n.list[Mtx]) \cup {t}
            /\ x.list[Mtx] = Enqueued(n, n.list[Mtx], t, flag)
        BY <3>1, <3>2, <4>1, IpcSuspendFacts
      <4>3. StartTimer(x, t).prio = x.prio /\ StartTimer(x, t).stat = x.stat
            /\ StartTimer(x, t).list = x.list
        BY ONLY <4>2 DEF StartTimer, KernelRecord
      <4>4. x.prio = n.prio
        BY <4>2 DEF SameData
      <4>5. k'.prio = x.prio /\ k'.stat = x.stat /\ k'.list = x.list
        BY ONLY <1>11, <4>3
      <4> QED BY ONLY <4>2, <4>4, <4>5
    <3>4. ASSUME flag = "PRIO" PROVE SortedBut(n.prio, Enqueued(n, n.list[Mtx], t, flag), owner)
      BY <1>4, <2>2, <2>3, <3>2, <3>4, EnqueuedSorted
    <3> QED BY <3>3, <3>4
  <2> QED BY <2>4, <2>5
<1>13. k'.stat[owner] # "init"
  BY <1>2, <1>3, <1>4, <1>12 DEF PrioInv, OwnerPrio, Update, KernelRecord
<1>14. Usable'
  BY <1>1, <1>2, <1>3 DEF Usable, Detaching, Goto
<1> QED BY <1>2, <1>4, <1>7, <1>12, <1>13, <1>14, BoostInherits

(* One that a signal has interrupted suspends itself,                      *)
LEMMA AgainInherits ==
  ASSUME TakesInv, OwnerTypes, Labels, PrioInv, NEW t \in Thread, MutexAgain(t), value = 0,
         OnlyGoes(t), awaited[t] = {}, Usable
  PROVE  PrioInv'
<1>1. /\ Woken(t) /\ k' = Suspend(Boost(k, t), t)
      /\ UNCHANGED <<pc, owner, original_priority, flag, alive>>
  BY DEF MutexAgain
<1>2. Unlisted(t) /\ k.stat[t] = "ready"
  BY <1>1, MutexWoken
<1>3. k \in KernelRecord /\ Mtx \in WaitList /\ k.list[Mtx] \in Seq(Thread) /\ NoRepeat(k.list[Mtx])
  BY MutexList
<1>4. owner \in Thread
  BY DEF OwnerTypes
<1>5. PICK m : m = Boost(k, t)
  OBVIOUS
<1>6. /\ SameWaits(k, m) /\ m.stat = k.stat /\ m \in KernelRecord /\ Consistent(m)
  BY <1>4, <1>5, BoostChanges
<1>7. /\ m.prio \in [Thread -> Prio]
      /\ \A x \in Thread \ {owner} : m.prio[x] = k.prio[x]
      /\ m.prio[owner] <= k.prio[owner] /\ m.prio[owner] <= k.prio[t]
  BY <1>4, <1>5, BoostPrio
<1>8. /\ TakesFrom(m, k', t) /\ k'.stat = Update(m.stat, t, "suspend") /\ k'.prio = m.prio
  <2>1. k' = Suspend(m, t) /\ m.stat[t] \in {"ready", "suspend"}
    BY <1>1, <1>2, <1>5, <1>6
  <2>2. k'.prio = m.prio
    BY <1>6, <2>1, SuspendFacts
  <2> QED BY <1>6, <2>1, <2>2, SuspendChanges
<1>9. k'.list[Mtx] = Without(k.list[Mtx], t)
  BY <1>3, <1>6, <1>8 DEF TakesFrom, SameWaits
<1>10. Elements(k'.list[Mtx]) \subseteq Elements(k.list[Mtx]) /\ k'.list[Mtx] \in Seq(Thread)
  BY <1>3, <1>9, WithoutFacts
<1>11. flag = "PRIO" => SortedBut(k'.prio, k'.list[Mtx], owner)
  <2>1. flag = "PRIO" => SortedBut(k.prio, k'.list[Mtx], owner)
    BY <1>3, <1>9, WithoutSorted DEF PrioInv, Ordered
  <2> QED BY <1>7, <1>8, <1>10, <2>1, SortedBoosted
<1>12. k'.stat[owner] # "init"
  BY <1>3, <1>4, <1>6, <1>8 DEF PrioInv, OwnerPrio, Update, KernelRecord
<1>13. Usable'
  BY <1>1 DEF Usable, Detaching
<1> QED BY <1>1, <1>4, <1>7, <1>8, <1>10, <1>11, <1>12, <1>13, BoostInherits DEF OnlyGoes

(* and links itself later, if nobody has made it ready again.              *)
LEMMA LinkInherits ==
  ASSUME TakesInv, OwnerTypes, Labels, PrioInv, NEW t \in Thread, MutexLink(t),
         OnlyGoes(t), Usable
  PROVE  PrioInv'
<1>1. /\ AtStep(t, "link") /\ Goto(t, "wait") /\ GoStep(t, "none")
      /\ UNCHANGED <<flag, alive, owner, original_priority>>
  BY DEF MutexLink, mutexVars
<1>2. /\ Running(t) /\ pc[t] = "waited" /\ step[t] = "link" /\ Unlisted(t)
      /\ pc \in [Thread -> PC] /\ k \in KernelRecord /\ Consistent(k) /\ k.group # {}
      /\ Mtx \in WaitList /\ k.list[Mtx] \in Seq(Thread)
  BY <1>1, SignalCaller, MutexList, IpcFacts DEF AtStep, TakesInv
<1>3. pc'[t] = "wait" /\ step'[t] = "none" /\ Usable'
  BY <1>1, <1>2 DEF Goto, GoStep, Labels, OfThreads, Usable, Detaching
<1>4. CASE k' = [k EXCEPT !.asserted = TRUE]
  <2>1. Eases(k, k')
    BY <1>2, <1>4, Eased
  <2> QED BY <1>1, <1>3, <2>1, InheritQuiet
<1>5. ASSUME k.stat[t] = "suspend",
             NEW x, x = IpcSuspend(k, Mtx, t, flag), k' = x \/ k' = StartTimer(x, t)
      PROVE  PrioInv'
  <2>1. owner \in Thread /\ k.prio[owner] <= k.prio[t]
    BY <1>2 DEF PrioInv, LinkersInherit, OwnerTypes
  <2>2. /\ k'.prio = k.prio /\ k'.stat = Update(k.stat, t, "suspend")
        /\ Elements(k'.list[Mtx]) = Elements(k.list[Mtx]) \cup {t}
        /\ flag = "PRIO" => SortedBut(k'.prio, k'.list[Mtx], owner)
    <3>1. /\ k'.prio = k.prio /\ k'.stat = Update(k.stat, t, "suspend")
          /\ Elements(k'.list[Mtx]) = Elements(k.list[Mtx]) \cup {t}
          /\ k'.list[Mtx] = Enqueued(k, k.list[Mtx], t, flag)
      <4>1. \A v \in WaitList : t \notin Elements(k.list[v])
        BY <1>2 DEF Unlisted
      <4>2. PICK kd : kd = k
        OBVIOUS
      <4>3. PICK r : r = k'
        OBVIOUS
      <4>4. /\ r.prio = kd.prio /\ r.stat = Update(kd.stat, t, "suspend")
            /\ Elements(r.list[Mtx]) = Elements(kd.list[Mtx]) \cup {t}
            /\ r.list[Mtx] = Enqueued(kd, kd.list[Mtx], t, flag)
        <5>1. /\ kd \in KernelRecord /\ Consistent(kd) /\ Mtx \in WaitList
              /\ kd.stat[t] \in {"ready", "suspend"}
          BY <1>2, <1>5, <4>2
        <5>2. x = IpcSuspend(kd, Mtx, t, flag) /\ (r = x \/ r = StartTimer(x, t))
          BY <1>5, <4>2, <4>3
        <5>3. \A v \in WaitList : t \notin Elements(kd.list[v])
          BY <4>1, <4>2
        <5>5. CASE r = x
          BY <5>1, <5>2, <5>3, <5>5, SuspendJoins
        <5>6. CASE r = StartTimer(x, t)
          BY <5>1, <5>2, <5>3, <5>6, SuspendJoins
        <5> QED BY <5>2, <5>5, <5>6
      <4> QED BY <4>2, <4>3, <4>4
    <3>2. ASSUME flag = "PRIO" PROVE SortedBut(k.prio, Enqueued(k, k.list[Mtx], t, flag), owner)
      BY <1>2, <2>1, <3>2, EnqueuedSorted DEF PrioInv, Ordered
    <3> QED BY <3>1, <3>2
  <2>3. k'.stat[owner] # "init" /\ k.prio[owner] \in Nat /\ k.prio \in [Thread -> Prio]
    BY <1>2, <2>1, <2>2, KernelAssumption DEF PrioInv, OwnerPrio, Update, KernelRecord, Prio
  <2> QED BY <1>1, <1>3, <2>1, <2>2, <2>3, BoostInherits DEF OnlyGoes
<1> QED BY <1>4, <1>5 DEF MutexLink

(* rt_mutex_release: every thread has its own priority again.              *)
LEMMA RestorePrio ==
  ASSUME TakesInv, OwnerTypes, PrioInv, NEW t \in Thread, owner = t, NEW m, m = Restore(t)
  PROVE  \A x \in Thread : m.prio[x] = InitPrio[x]
<1>1. k \in KernelRecord /\ Consistent(k) /\ NoThread \notin Thread
  BY IpcFacts DEF TakesInv
<1>2. original_priority \in Prio /\ original_priority = InitPrio[t]
  BY <1>1 DEF OwnerTypes, PrioInv, OwnerPrio
<1>3. \A x \in Thread \ {t} : k.prio[x] = InitPrio[x]
  BY DEF PrioInv, PriorityRestored
<1>4. CASE original_priority = k.prio[t]
  BY <1>2, <1>3, <1>4 DEF Restore
<1>5. CASE original_priority # k.prio[t]
  <2>1. m = ChangePriority(k, t, original_priority)
    BY <1>5 DEF Restore
  <2>2. m.prio = Update(k.prio, t, original_priority)
    BY <1>1, <1>2, <2>1, ChangePriorityFacts
  <2> QED BY <1>1, <1>2, <1>3, <2>2 DEF Update, KernelRecord
<1> QED BY <1>4, <1>5

(* The mutex becomes free,                                                 *)
LEMMA FreeInherits ==
  ASSUME TakesInv, OwnerTypes, Labels, PrioInv, NEW t \in Thread, MutexRelease(t),
         hold <= 1, k.list[Mtx] = << >>
  PROVE  PrioInv'
<1>1. MutexCall(t, "release") /\ owner = t /\ k.stat[t] = "ready" /\ UNCHANGED objVars
  BY MutexCaller DEF MutexRelease
<1>2. k' = Restore(t) /\ owner' = NoThread
  BY KernelAssumption DEF MutexRelease, OwnerTypes
<1>3. NoThread \notin Thread /\ Mtx \in WaitList
  BY MutexList
<1>4. k'.list[Mtx] = << >>
  BY <1>1, <1>2, <1>3, RestoreChanges DEF SameWaits
<1>5. \A x \in Thread : k'.prio[x] = InitPrio[x]
  BY <1>1, <1>2, RestorePrio
<1>6. \A x \in Thread : step'[x] # "link"
  BY <1>1, LinkerAlive DEF MutexCall, objVars
<1>7. OwnerPrio' /\ PriorityRestored'
  BY <1>2, <1>3, <1>5 DEF OwnerPrio, PriorityRestored
<1>8. Ordered' /\ OwnerInherits' /\ LinkersInherit' /\ NobodyWaits'
  BY <1>4, <1>6 DEF Ordered, SortedBut, OwnerInherits, LinkersInherit, NobodyWaits, Elements
<1> QED BY <1>7, <1>8 DEF PrioInv

(* or is handed over to the first waiter, the most urgent one.             *)
LEMMA HandOverInherits ==
  ASSUME TakesInv, OwnerTypes, Labels, PrioInv, NEW t \in Thread, MutexRelease(t),
         hold <= 1, k.list[Mtx] # << >>
  PROVE  PrioInv'
<1>1. /\ MutexCall(t, "release") /\ owner = t /\ k.stat[t] = "ready" /\ UNCHANGED objVars
      /\ Unlisted(t) /\ Usable /\ Goto(t, "sched") /\ pc \in [Thread -> PC]
  BY MutexCaller, IpcFacts DEF MutexRelease, TakesInv
<1>2. HandOver(t)
  BY DEF MutexRelease, OwnerTypes
<1>3. /\ NoThread \notin Thread /\ Mtx \in WaitList /\ k \in KernelRecord /\ Consistent(k)
      /\ k.list[Mtx] \in Seq(Thread) /\ NoRepeat(k.list[Mtx])
      /\ Elements(k.list[Mtx]) \subseteq Thread
      /\ \A x \in Elements(k.list[Mtx]) : k.stat[x] = "suspend"
  BY MutexList
<1> DEFINE s == k.list[Mtx]
<1>4. PICK first : first = Head(s)
  OBVIOUS
<1>5. PICK m : m = Restore(t)
  OBVIOUS
<1>6. owner' = first /\ original_priority' = k.prio[first] /\ k' = IpcResume(m, Mtx)
  BY <1>2, <1>4, <1>5 DEF HandOver
<1>7. /\ SameWaits(k, m) /\ m.stat = k.stat /\ m \in KernelRecord /\ Consistent(m)
      /\ m.list[Mtx] = s
  BY <1>1, <1>3, <1>5, RestoreChanges DEF SameWaits
<1>8. /\ first \in Thread /\ first \in Elements(s) /\ Without(s, first) = Tail(s)
      /\ Elements(Tail(s)) = Elements(s) \ {first} /\ first # t
  <2>1. /\ first \in Thread /\ first \in Elements(s) /\ Without(s, first) = Tail(s)
        /\ Elements(Tail(s)) = Elements(s) \ {first}
    BY <1>3, <1>4, FirstWaiter
  <2> QED BY <1>1, <1>3, <2>1 DEF Unlisted
<1>9. k'.prio = m.prio /\ k'.list[Mtx] = Tail(s) /\ k'.stat = Update(m.stat, first, "ready")
  <2>1. AllSuspended(m, Mtx)
    BY <1>3, <1>7 DEF AllSuspended
  <2> QED BY <1>3, <1>4, <1>6, <1>7, <2>1, IpcResumeFacts
<1>10. \A x \in Thread : k'.prio[x] = InitPrio[x]
  BY <1>1, <1>5, <1>9, RestorePrio
<1>11. \A x \in Thread \ {t} : k.prio[x] = InitPrio[x]
  BY <1>1 DEF PrioInv, PriorityRestored
<1>12. \A x \in Thread : step'[x] # "link"
  BY <1>1, LinkerAlive DEF MutexCall, objVars
<1>13. OwnerPrio' /\ PriorityRestored'
  <2>1. k'.stat[first] # "init"
    BY <1>3, <1>7, <1>8, <1>9 DEF Update, KernelRecord
  <2>2. Usable'
    BY <1>1 DEF Usable, Detaching, Goto, objVars
  <2> QED BY <1>6, <1>8, <1>10, <1>11, <2>1, <2>2 DEF OwnerPrio, PriorityRestored
<1>14. ASSUME flag = "PRIO"
       PROVE  \A i, j \in DOMAIN s : i < j => k'.prio[s[i]] <= k'.prio[s[j]]
  <2>1. \A i \in DOMAIN s : s[i] \in Thread /\ s[i] # t
    BY <1>1, <1>3 DEF Elements, Unlisted
  <2>2. \A i \in DOMAIN s : k'.prio[s[i]] = k.prio[s[i]]
    BY <1>10, <1>11, <2>1
  <2> QED BY <1>1, <1>14, <2>1, <2>2 DEF PrioInv, Ordered, SortedBut
<1>15. Ordered'
  <2>1. ASSUME flag = "PRIO" PROVE SortedBut(k'.prio, Without(s, first), first)
    <3>1. SortedBut(k'.prio, s, first)
      BY <1>14, <2>1 DEF SortedBut
    <3> QED BY <1>3, <3>1, WithoutSorted
  <2> QED BY <1>1, <1>6, <1>8, <1>9, <2>1 DEF Ordered, objVars
<1>16. OwnerInherits'
  <2> SUFFICES ASSUME flag = "PRIO", NEW x \in Elements(s) \ {first}
               PROVE  k'.prio[first] <= k'.prio[x]
    BY <1>1, <1>6, <1>8, <1>9 DEF OwnerInherits, objVars
  <2>1. PICK j \in DOMAIN s : s[j] = x
    BY DEF Elements
  <2>2. 1 \in DOMAIN s /\ s[1] = first /\ 1 < j
    BY <1>3, <1>4, <2>1, LenProperties
  <2> QED BY <1>14, <2>1, <2>2
<1>17. LinkersInherit' /\ NobodyWaits'
  BY <1>1, <1>3, <1>6, <1>8, <1>12 DEF LinkersInherit, NobodyWaits, Usable, objVars
<1> QED BY <1>13, <1>15, <1>16, <1>17 DEF PrioInv

(* rt_mutex_init, rt_mutex_create                                          *)
LEMMA CreateInherits ==
  ASSUME TakesInv, OwnerTypes, PrioInv, NEW t \in Thread, MutexCreate(t),
         \A x \in Thread : step[x] # "link"
  PROVE  PrioInv'
<1>1. ~alive /\ owner' = NoThread /\ k' = k /\ step' = step
  BY DEF MutexCreate, InitObject, vars
<1>2. k.list[Mtx] = << >> /\ NoThread \notin Thread
  BY <1>1, KernelAssumption DEF PrioInv, NobodyWaits
<1>3. OwnerPrio'
  BY <1>1, <1>2 DEF OwnerPrio
<1>4. PriorityRestored'
  BY <1>1 DEF PrioInv, PriorityRestored, OwnerPrio, Usable
<1> QED BY <1>1, <1>2, <1>3, <1>4 DEF PrioInv, Ordered, SortedBut, OwnerInherits, LinkersInherit,
           NobodyWaits, Elements

(* Every section of a call of the mutex                                    *)
LEMMA MutexInherits ==
  ASSUME TakesInv, OwnerTypes, Labels, PrioInv, CalmInv, NEW t \in Thread, MutexStep(t),
         awaited[t] = {}, UNCHANGED sigVars
  PROVE  PrioInv'
<1>1. OnlyGoes(t)
  BY MutexOnly
<1>2. /\ k.error[t] = "EINTR" => Usable
      /\ AtStep(t, "link") => Usable
      /\ ~alive => \A x \in Thread : step[x] # "link"
  BY LinkerAlive DEF CalmInv, Unsignalled, Undetached, Usable, AtStep
<1>3. CASE MutexTakeAgain(t) \/ MutexRefuse(t) \/ MutexTaken(t) \/ MutexNotTaken(t)
  BY <1>1, <1>3, QuietInherits
<1>4. CASE MutexTake(t)
  BY <1>1, <1>4, TakeInherits
<1>5. CASE MutexRelease(t)
  <2>1. hold > 1 \/ (hold <= 1 /\ k.list[Mtx] = << >>) \/ (hold <= 1 /\ k.list[Mtx] # << >>)
    BY <1>5 DEF MutexRelease
  <2> QED BY <1>1, <1>5, <2>1, QuietInherits, FreeInherits, HandOverInherits
<1>6. ASSUME NEW time, MutexWait(t, time) PROVE PrioInv'
  BY <1>1, <1>6, WaitInherits
<1>7. CASE MutexAgain(t)
  <2>1. (value > 0 \/ value = 0) /\ k.error[t] = "EINTR"
    BY <1>7 DEF MutexAgain
  <2> QED BY <1>1, <1>2, <1>7, <2>1, TakeInherits, AgainInherits
<1>8. CASE MutexLink(t)
  BY <1>1, <1>2, <1>8, LinkInherits DEF MutexLink
<1>9. CASE MutexDetach(t) \/ ((DrainTest(t) \/ DrainResume(t)) /\ UNCHANGED mutexVars)
  BY <1>1, <1>9, DrainInherits
<1>10. CASE MutexCreate(t)
  BY <1>2, <1>10, CreateInherits DEF MutexCreate, InitObject
<1> QED BY <1>3, <1>4, <1>5, <1>6, <1>7, <1>8, <1>9, <1>10 DEF MutexStep

-----------------------------------------------------------------------------
(* Signals interrupt no wait, or the mutex is not detached.                *)

(* Where a section of a call of the mutex leads                            *)
LEMMA MutexControl ==
  ASSUME TakesInv, Labels, NEW t \in Thread, MutexStep(t), OnlyGoes(t)
  PROVE  /\ pc'[t] = "waited" => MutexAgain(t)
         /\ Usable /\ pc'[t] # "drain1" => Usable'
<1>1. pc \in [Thread -> PC]
  BY IpcFacts DEF TakesInv
<1>2. CASE \E l \in {"app", "sched", "wait"} : Goto(t, l) /\ alive' = alive
  <2>1. pc'[t] \notin {"waited", "drain1", "drain2"}
    BY <1>1, <1>2 DEF Goto
  <2> QED BY <1>2, <2>1, StaysUsable
<1>3. CASE pc[t] = "app" /\ pc' = pc /\ (~alive \/ alive' = alive)
  <2>1. pc'[t] = "app" /\ (alive' = alive \/ ~Usable)
    BY <1>3 DEF Usable
  <2> QED BY <2>1, StaysUsable
<1>4. CASE MutexAgain(t)
  <2>1. alive' = alive /\ (pc' = pc \/ Goto(t, "app"))
    BY <1>4 DEF MutexAgain, Return
  <2>2. (Usable' <=> Usable) \/ Goto(t, "app")
    BY <2>1 DEF Usable, Detaching
  <2> QED BY <1>2, <1>4, <2>1, <2>2
<1>5. CASE MutexDetach(t) \/ DrainTest(t) \/ DrainResume(t)
  <2>1. pc'[t] # "waited" /\ (pc'[t] = "drain1" \/ ~Usable)
    BY <1>1, <1>5 DEF MutexDetach, DetachObject, DrainTest, DrainResume, Goto, Usable, Detaching
  <2> QED BY <2>1
<1>6. CASE MutexTakeAgain(t) \/ MutexTake(t) \/ MutexRefuse(t) \/ MutexCreate(t)
  BY <1>3, <1>6 DEF MutexTakeAgain, MutexTake, MutexRefuse, MutexCreate, InitObject, MutexCall,
         ObjCall, objVars, vars
<1>7. CASE \/ MutexTaken(t) \/ MutexNotTaken(t) \/ MutexRelease(t) \/ MutexLink(t)
           \/ \E time : MutexWait(t, time)
  BY <1>2, <1>7 DEF MutexTaken, MutexNotTaken, WaitFails, Return, MutexRelease, MutexLink,
         MutexWait, objVars
<1> QED BY <1>4, <1>5, <1>6, <1>7 DEF MutexStep

(* A call of the mutex does not set the error that signals leave.          *)
LEMMA MutexErrors ==
  ASSUME TakesInv, OwnerTypes, Labels, NEW t \in Thread, MutexStep(t), ~MutexAgain(t),
         NEW x \in Thread, k'.error[x] = "EINTR"
  PROVE  k.error[x] = "EINTR"
<1>1. k \in KernelRecord /\ Consistent(k) /\ NoThread \notin Thread
  BY IpcFacts DEF TakesInv
<1>2. Fields(k) /\ \A m \in KernelRecord : Fields(m)
  BY <1>1 DEF Fields, KernelRecord
<1>3. ASSUME Spares(k, k') PROVE k.error[x] = "EINTR"
  BY <1>3 DEF Spares
<1>4. CASE MutexTakeAgain(t) \/ MutexTake(t) \/ MutexRefuse(t)
  <2>1. \A e : e # "EINTR" => Spares(k, SetError(k, t, e))
    BY <1>2, Spared
  <2> QED BY <1>3, <1>4, <2>1 DEF MutexTakeAgain, MutexTake, MutexRefuse
<1>5. CASE \/ MutexTaken(t) \/ MutexNotTaken(t) \/ MutexDetach(t) \/ MutexCreate(t)
           \/ DrainTest(t)
  BY <1>5 DEF MutexTaken, MutexNotTaken, WaitFails, MutexDetach, DetachObject, MutexCreate,
         InitObject, DrainTest, vars
<1>6. ASSUME NEW time, MutexWait(t, time) PROVE k.error[x] = "EINTR"
  <2>1. owner \in Thread
    BY <1>6 DEF MutexWait, OwnerTypes
  <2>2. PICK m : m = Boost(k, t)
    OBVIOUS
  <2>3. m \in KernelRecord /\ m.error = k.error
    BY <2>1, <2>2, BoostChanges
  <2>4. PICK n : n = SetError(m, t, "EOK")
    OBVIOUS
  <2>5. Spares(m, n) /\ Fields(n)
    <3>1. \A e : e # "EINTR" => Spares(m, SetError(m, t, e))
      BY <1>2, <2>3, Spared
    <3> QED BY <2>4, <3>1 DEF Spares
  <2>6. PICK y : y = IpcSuspend(n, Mtx, t, flag)
    OBVIOUS
  <2>7. Spares(n, y) /\ Fields(y)
    BY <2>5, <2>6, SparedByCalls DEF Spares
  <2>8. Spares(y, y) /\ Spares(y, StartTimer(y, t))
    BY <2>7, Spared
  <2>9. k' = y \/ k' = StartTimer(y, t)
    BY <1>6, <2>2, <2>4, <2>6 DEF MutexWait
  <2> QED BY <2>3, <2>5, <2>7, <2>8, <2>9 DEF Spares
<1>7. CASE MutexLink(t)
  <2>1. PICK y : y = IpcSuspend(k, Mtx, t, flag)
    OBVIOUS
  <2>2. Spares(k, y) /\ Fields(y)
    BY <1>2, <2>1, SparedByCalls DEF Spares
  <2>3. Spares(y, StartTimer(y, t)) /\ Spares(k, [k EXCEPT !.asserted = TRUE])
    BY <1>2, <2>2, Spared
  <2>4. k' = y \/ k' = StartTimer(y, t) \/ k' = [k EXCEPT !.asserted = TRUE]
    BY <1>7, <2>1 DEF MutexLink
  <2> QED BY <2>2, <2>3, <2>4 DEF Spares
<1>8. CASE MutexRelease(t)
  <2>1. owner = t /\ k.stat[t] = "ready"
    BY <1>8, MutexCaller DEF MutexRelease
  <2>2. PICK m : m = Restore(t)
    OBVIOUS
  <2>3. m \in KernelRecord /\ m.error = k.error
    BY <2>1, <2>2, RestoreChanges
  <2>4. Spares(m, IpcResume(m, Mtx))
    BY <1>2, <2>3, SparedByCalls
  <2>5. k' = k \/ k' = m \/ k' = IpcResume(m, Mtx)
    BY <1>8, <2>2 DEF MutexRelease, HandOver
  <2> QED BY <2>3, <2>4, <2>5 DEF Spares
<1>9. CASE DrainResume(t)
  <2>1. Spares(k, DrainOne(k, step[t]))
    BY <1>2, SparedByCalls
  <2> QED BY <1>3, <1>9, <2>1 DEF DrainResume
<1> QED BY <1>4, <1>5, <1>6, <1>7, <1>8, <1>9 DEF MutexStep

LEMMA MutexCalm ==
  ASSUME TakesInv, OwnerTypes, Labels, CalmInv, NEW t \in Thread, MutexStep(t),
         SignalsOrDetach, work.mutex, pc'[t] \notin work.never, UNCHANGED <<sigVars, work>>
  PROVE  CalmInv'
<1>1. OnlyGoes(t) /\ UNCHANGED <<frames, awaited, kill>>
  BY MutexOnly DEF sigVars
<1>2. CASE work.calls = {}
  <2>1. ~MutexAgain(t)
    BY <1>2 DEF MutexAgain, CalmInv, Unsignalled
  <2>2. pc'[t] # "waited"
    BY <1>1, <2>1, MutexControl
  <2>3. \A x \in Thread \ {t} : pc'[x] = pc[x] /\ step'[x] = step[x]
    BY <1>1 DEF OnlyGoes
  <2>4. \A x \in Thread : k'.error[x] = "EINTR" => k.error[x] = "EINTR"
    BY <2>1, MutexErrors
  <2>5. \A x \in Thread : pc'[x] = "waited" => pc[x] = "waited" /\ step'[x] = step[x]
    BY <2>2, <2>3
  <2> QED BY <1>1, <1>2, <2>4, <2>5 DEF CalmInv, Unsignalled, Undetached, KillCall
<1>3. CASE work.calls # {}
  <2>1. pc'[t] # "drain1" /\ Usable
    BY <1>3 DEF SignalsOrDetach, CalmInv, Undetached
  <2>2. Usable'
    BY <1>1, <2>1, MutexControl
  <2> QED BY <1>3, <2>2 DEF CalmInv, Unsignalled, Undetached
<1> QED BY <1>2, <1>3

(* A step of signals                                                       *)
LEMMA SignalCalm ==
  ASSUME TakesInv, Labels, CalmInv, work' = work,
         \/ \E t \in Thread : SignalStep(t)
         \/ \E u \in Thread : \E s : KillIsr(u, s) /\ UNCHANGED objVars
  PROVE  CalmInv'
<1>1. ASSUME work.calls = {}, NEW t \in Thread, SignalStep(t) PROVE FALSE
  <2>1. frames[t] = <<"own">> /\ awaited[t] = {} /\ ~KillCall(t)
    BY <1>1 DEF CalmInv, Unsignalled
  <2>2. Len(frames[t]) = 1 /\ Top(t) = "own" /\ "own" \notin Sig
    BY <2>1, SignalAssumption DEF Top
  <2>3. ~HandleCheck(t) /\ ~HandleNext(t) /\ ~SignalEntryEnd(t)
    BY <2>2 DEF HandleCheck, HandleNext, SignalEntryEnd
  <2>4. ~KillFind(t) /\ ~KillAlloc(t) /\ ~KillLink(t) /\ ~KillTest(t) /\ ~KillDeliver(t)
    BY <2>1 DEF KillFind, KillAlloc, KillLink, KillTest, KillDeliver, AtStep, KillCall
  <2>5. ~SignalWoken(t) /\ \A op : ~SigCall(t, op)
    BY <1>1, <2>1 DEF SignalWoken, SigCall
  <2> QED BY <1>1, <2>3, <2>4, <2>5 DEF SignalStep, SignalWait, SignalMask, SignalUnmask, KillStart
<1>2. work.calls # {}
  BY <1>1 DEF KillIsr
<1>3. Usable => Usable'
  <2>1. ASSUME NEW u, NEW s, KillIsr(u, s), UNCHANGED objVars PROVE Usable => Usable'
    BY <2>1 DEF KillIsr, objVars, Usable, Detaching
  <2>2. ASSUME NEW t \in Thread, SignalStep(t) PROVE Usable => Usable'
    BY <2>2, SignalControl DEF Usable
  <2> QED BY <2>1, <2>2
<1> QED BY <1>2, <1>3 DEF CalmInv, Unsignalled, Undetached

(* A step of the kernel                                                    *)
LEMMA KernelCalm ==
  ASSUME TakesInv, Labels, CalmInv, NoMeddling, "priority" \notin Ops,
         \/ (Start \/ Interrupt) /\ UNCHANGED sigVars
         \/ \E t \in Thread : OwnStep(t),
         UNCHANGED <<objVars, work>>
  PROVE  CalmInv'
<1>1. Start \/ Interrupt \/ \E t \in Thread : Application(t) \/ InKernel(t)
  BY DEF OwnStep
<1>2. UNCHANGED <<awaited, kill>> /\ (work.calls = {} => frames' = frames) /\ step' = step
  BY DEF OwnStep, sigVars, objVars
<1>3. Usable => Usable'
  <2>1. Moves
    BY <1>1, NextIpc DEF TakesInv, NoMeddling, Next
  <2> QED BY <2>1 DEF Usable, Detaching, Moves, LabelsKept, IpcLabels, objVars
<1>4. ASSUME NEW x \in Thread, k'.error[x] = "EINTR" PROVE k.error[x] = "EINTR"
  BY <1>1, <1>4, MutexList, KernelSpares DEF NoMeddling, Spares
<1>5. ASSUME NEW x \in Thread, pc'[x] = "waited", step[x] # "none" PROVE pc[x] = "waited"
  <2>1. CASE Start \/ Interrupt
    <3>1. pc' = pc
      BY <2>1, MutexList, InterruptKeeps DEF Shape, KernelRecord
    <3> QED BY <1>5, <3>1
  <2>2. ASSUME NEW t \in Thread, Application(t) \/ InKernel(t) PROVE pc[x] = "waited"
    <3>1. OnlyGoes(t) /\ step[t] = "none"
      BY <1>2, <2>2, KernelLabels DEF NoMeddling
    <3> QED BY <1>5, <3>1 DEF OnlyGoes
  <2> QED BY <1>1, <2>1, <2>2
<1> QED BY <1>2, <1>3, <1>4, <1>5 DEF CalmInv, Unsignalled, Undetached, KillCall

-----------------------------------------------------------------------------
(* Every step, and the initial state.                                      *)

LEMMA NextInherits ==
  ASSUME MutexInv, NodesInv, WaitsInv, CalmInv, PrioInv,
         NoMeddling, "priority" \notin Ops, SignalsOrDetach,
         [SignalsNext]_<<vars, objVars, mutexVars, sigVars, work>>
  PROVE  CalmInv' /\ PrioInv'
<1>1. Labels /\ OwnerTypes
  BY DEF NodesInv, MutexInv
<1>2. CASE UNCHANGED <<vars, objVars, mutexVars, sigVars, work>>
  <2>1. CalmInv'
    BY <1>2 DEF CalmInv, Unsignalled, Undetached, KillCall, Usable, Detaching,
           vars, objVars, sigVars
  <2>2. PrioInv'
    BY <1>2 DEF PrioInv, OwnerPrio, PriorityRestored, Ordered, OwnerInherits, LinkersInherit,
           NobodyWaits, Usable, Detaching, vars, objVars, mutexVars
  <2> QED BY <2>1, <2>2
<1>3. CASE Halt /\ UNCHANGED <<mutexVars, sigVars, work>>
  BY <1>2, <1>3 DEF Halt
<1>4. ASSUME ~k.asserted PROVE TakesInv
  BY <1>4 DEF MutexInv
<1>5. CASE ~k.asserted /\ work' = work /\ (Start \/ Interrupt) /\ UNCHANGED <<objVars, mutexVars, sigVars>>
  BY <1>1, <1>4, <1>5, KernelInherits, KernelCalm DEF sigVars
<1>6. ASSUME ~k.asserted, work' = work, UNCHANGED <<value, owner, original_priority, hold, held>>,
             \/ \E to \in work.sent : KillIsr(to[1], to[2]) /\ UNCHANGED objVars
             \/ \E t \in Thread : SignalStep(t)
      PROVE  CalmInv' /\ PrioInv'
  <2>1. \A to \in work.sent : to[1] \in Thread
    BY SignalAssumption DEF CalmInv
  <2>2. \/ \E t \in Thread : SignalStep(t)
        \/ \E u \in Thread : \E s : KillIsr(u, s) /\ UNCHANGED objVars
    BY <1>6, <2>1
  <2> QED BY <1>1, <1>4, <1>6, <2>2, SignalInherits, SignalCalm
<1>7. ASSUME NEW t \in Thread, ~k.asserted, work' = work, OwnStep(t), UNCHANGED <<objVars, mutexVars>>
      PROVE  CalmInv' /\ PrioInv'
  <2>1. (Application(t) \/ InKernel(t)) /\ kill' = kill
    BY <1>7 DEF OwnStep
  <2> QED BY <1>1, <1>4, <1>7, <2>1, KernelInherits, KernelCalm
<1>8. ASSUME NEW t \in Thread, ~k.asserted, work' = work, work.mutex, awaited[t] = {}, MutexStep(t),
             UNCHANGED sigVars, \A x \in Thread : pc'[x] \notin work.never
      PROVE  CalmInv' /\ PrioInv'
  BY <1>1, <1>4, <1>8, MutexInherits, MutexCalm
<1> QED BY <1>2, <1>3, <1>5, <1>6, <1>7, <1>8 DEF SignalsNext

(* The initial state                                                       *)
LEMMA StartInherits ==
  ASSUME SignalsInit PROVE CalmInv /\ PrioInv
<1>1. /\ pc = [t \in Thread |-> "app"] /\ step = [t \in Thread |-> "none"]
      /\ Init /\ alive = TRUE /\ owner = NoThread
      /\ frames = [t \in Thread |-> <<"own">>] /\ awaited = [t \in Thread |-> {}] /\ work \in Works
  BY DEF SignalsInit, MutexInit, ObjStart, Init
<1>2. IpcInv /\ NoThread \notin Thread /\ Mtx \in WaitList
  BY <1>1, IpcStart, KernelAssumption, MutexAssumption, ObjectAssumption
<1>3. Fresh(k)
  <2>1. \A stat : Fresh(Blank(stat))
    BY KernelAssumption DEF Blank, Fresh, Fields
  <2>2. Idle \in Thread /\ Main \in Thread
    BY KernelAssumption, SchedulerAssumption
  <2> QED BY <1>1, <2>1, <2>2, StartupFresh DEF Init
<1>4. k.list[Mtx] = << >>
  <2>1. \A t \in Thread : ~InCall(t)
    BY <1>1 DEF InCall, IpcLabels
  <2>2. k \in KernelRecord /\ Elements(k.list[Mtx]) = {}
    BY <1>2, <2>1, IpcFacts
  <2>3. k.list[Mtx] \in Seq(Thread)
    BY <1>2, <2>2, WaitQueue DEF KernelRecord, QueueLists
  <2> QED BY <2>2, <2>3, EmptyElements
<1>5. CalmInv
  BY <1>1, <1>3 DEF CalmInv, Unsignalled, Undetached, KillCall, Usable, Detaching, Fresh
<1>6. OwnerPrio /\ PriorityRestored
  BY <1>1, <1>2, <1>3 DEF OwnerPrio, PriorityRestored, Fresh
<1>7. Ordered /\ OwnerInherits /\ LinkersInherit /\ NobodyWaits
  BY <1>1, <1>4 DEF Ordered, SortedBut, OwnerInherits, LinkersInherit, NobodyWaits, Elements
<1> QED BY <1>5, <1>6, <1>7 DEF PrioInv

LEMMA InheritsAlways ==
  ASSUME NoMeddling, "priority" \notin Ops, SignalsOrDetach
  PROVE  SignalsSpec => []PrioInv
<1>1. Ops \cap {"create", "suspend"} = {} /\ "create" \notin Ops
  BY DEF NoMeddling, Meddling
<1>2. SignalsInit => MutexInv /\ WaitsInv /\ NodesInv /\ CalmInv /\ PrioInv
  BY MutexStart, StartWaiting, StartNodes, StartInherits
<1>3. MutexInv /\ WaitsInv /\ NodesInv /\ CalmInv /\ PrioInv
        /\ [SignalsNext]_<<vars, objVars, mutexVars, sigVars, work>>
      => MutexInv' /\ WaitsInv' /\ NodesInv' /\ CalmInv' /\ PrioInv'
  BY <1>1, NextMutex, NextWaits, NextNodes, NextInherits
<1> QED BY <1>2, <1>3, PTL DEF SignalsSpec

(* The owner of a mutex of kind PRIO is at least as urgent as every thread *)
(* that waits for it, whichever way takes that wait, releases, timeouts,   *)
(* signals and interrupts interleave.  That needs the threads' priorities  *)
(* to change by inheritance only (a change of a waiter's own is not passed *)
(* on), and no detach where signals interrupt waits: the one that empties  *)
(* the list would not find a thread that is about to link itself.          *)
THEOREM OwnerIsUrgent ==
  ASSUME NoMeddling, "priority" \notin Ops, SignalsOrDetach
  PROVE  SignalsSpec => []OwnerInherits
<1>1. PrioInv => OwnerInherits
  BY DEF PrioInv
<1> QED BY <1>1, InheritsAlways, PTL

(* A thread that has inherited a priority gives it back: whoever is not    *)
(* at its own priority owns the mutex, and will return to its own when it  *)
(* releases.                                                               *)
THEOREM PriorityIsRestored ==
  ASSUME NoMeddling, "priority" \notin Ops, SignalsOrDetach
  PROVE  SignalsSpec => []PriorityRestored
<1>1. PrioInv => PriorityRestored
  BY DEF PrioInv
<1> QED BY <1>1, InheritsAlways, PTL

=============================================================================
