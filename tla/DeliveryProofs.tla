--------------------------- MODULE DeliveryProofs ---------------------------
(***************************************************************************)
(* What the objects with contents deliver, for any number of threads and   *)
(* any size of the object: mailboxes and message queues are the bounded    *)
(* queues of module Channel; and no wakeup is lost: in a mailbox, a        *)
(* message queue and a memory pool threads wait only while there is        *)
(* nothing for them but what those woken before them are about to take.    *)
(***************************************************************************)
EXTENDS ObjectProofs

-----------------------------------------------------------------------------
(* Counting threads.                                                       *)

LEMMA CountThreads ==
  ASSUME NEW A \in SUBSET Thread, NEW B \in SUBSET Thread
  PROVE  /\ Cardinality(A) \in Nat
         /\ A \subseteq B => Cardinality(A) <= Cardinality(B)
<1>1. IsFiniteSet(A) /\ IsFiniteSet(B)
  BY ObjectAssumption, FS_Subset
<1>2. Cardinality(A) \in Nat
  BY <1>1, FS_CardinalityType
<1> QED BY <1>1, <1>2, FS_Subset

(* One thread more, and one less                                           *)
LEMMA CountMore ==
  ASSUME NEW A \in SUBSET Thread, NEW B \in SUBSET Thread, A \subseteq B,
         NEW h \in B, h \notin A
  PROVE  Cardinality(A) + 1 <= Cardinality(B)
<1>1. IsFiniteSet(A)
  BY ObjectAssumption, FS_Subset
<1>2. Cardinality(A \cup {h}) = Cardinality(A) + 1
  BY <1>1, FS_AddElement
<1>3. A \cup {h} \in SUBSET Thread /\ A \cup {h} \subseteq B
  OBVIOUS
<1> QED BY <1>2, <1>3, CountThreads

LEMMA CountLess ==
  ASSUME NEW A \in SUBSET Thread, NEW B \in SUBSET Thread, NEW t, A \ {t} \subseteq B
  PROVE  Cardinality(A) - 1 <= Cardinality(B)
<1>1. CASE t \in A
  <2>1. A \ {t} \in SUBSET Thread /\ t \notin A \ {t} /\ A \ {t} \subseteq A
    OBVIOUS
  <2>2. Cardinality(A \ {t}) + 1 >= Cardinality(A)
    <3>1. IsFiniteSet(A)
      BY ObjectAssumption, FS_Subset
    <3>2. Cardinality(A \ {t}) = Cardinality(A) - 1
      BY <1>1, <3>1, FS_RemoveElement
    <3> QED BY <3>2, CountThreads
  <2> QED BY <2>1, <2>2, CountThreads
<1>2. CASE t \notin A
  <2>1. A \subseteq B
    BY <1>2
  <2> QED BY <2>1, CountThreads
<1> QED BY <1>1, <1>2

-----------------------------------------------------------------------------
(* What a step does to the threads that were woken.                        *)

(* The threads in the object's wait lists have no error yet.               *)
ListedFresh == \A t \in Thread : Listed(t) => k.error[t] = "EOK"

(* r is the kernel after the threads U were woken to find something, and   *)
(* others with an error, by thread t, or by none if t is NoThread.         *)
Stirs(r, U, t) ==
  /\ U \subseteq Thread \ {t}
  /\ \A u \in U : Listed(u)
  /\ \A u \in Thread \ {t} : Dozing(u) =>
       IF u \in U
       THEN r.stat[u] = "ready" /\ r.error[u] = "EOK"
       ELSE \/ r.stat[u] = k.stat[u] /\ r.error[u] = k.error[u]
            \/ k.stat[u] = "suspend" /\ r.stat[u] = "ready" /\ r.error[u] # "EOK"

LEMMA StirsRoused ==
  ASSUME ObjInv, NEW t, NEW U, Stirs(k', U, t),
         \A u \in Thread \ {t} : Dozing(u)' <=> Dozing(u)
  PROVE  /\ \A u \in Thread \ {t} : u \in Roused' <=> u \in Roused \/ u \in U
         /\ \A u \in U : u \in Thread \ {t} /\ u \notin Roused
         /\ Roused \in SUBSET Thread /\ Roused' \in SUBSET Thread
<1>1. \A u \in U : Dozing(u) /\ k.stat[u] = "suspend" /\ u \in Thread \ {t}
  BY DEF Stirs, ObjInv, ListedDoze
<1>2. \A u \in Thread : u \in Roused <=> Dozing(u) /\ k.stat[u] # "suspend" /\ k.error[u] = "EOK"
  BY DEF Roused, Dozing, Waiting
<1>3. \A u \in Thread :
        u \in Roused' <=> Dozing(u)' /\ k'.stat[u] # "suspend" /\ k'.error[u] = "EOK"
  BY DEF Roused, Dozing, Waiting
<1>4. ASSUME NEW u \in Thread \ {t} PROVE u \in Roused' <=> u \in Roused \/ u \in U
  <2>1. CASE u \in U
    BY <1>1, <1>3, <2>1 DEF Stirs
  <2>2. CASE u \notin U /\ Dozing(u)
    BY <1>2, <1>3, <2>2 DEF Stirs
  <2>3. CASE ~Dozing(u)
    BY <1>1, <1>2, <1>3, <2>3
  <2> QED BY <2>1, <2>2, <2>3
<1>5. Roused \in SUBSET Thread /\ Roused' \in SUBSET Thread
  BY DEF Roused
<1> QED BY <1>1, <1>2, <1>4, <1>5

LEMMA StirsFresh ==
  ASSUME ObjInv, ObjInv', ListedFresh, NEW t, NEW U, Stirs(k', U, t),
         \A u \in Thread \ {t} : Dozing(u)' <=> Dozing(u),
         t \in Thread /\ Dozing(t)' => k'.error[t] = "EOK"
  PROVE  ListedFresh'
<1> SUFFICES ASSUME NEW u \in Thread, Listed(u)' PROVE k'.error[u] = "EOK"
  BY DEF ListedFresh
<1>1. Dozing(u)' /\ k'.stat[u] = "suspend"
  BY DEF ObjInv, ListedDoze
<1>2. CASE u = t
  BY <1>1, <1>2
<1>3. CASE u # t
  <2>1. Dozing(u) /\ k.stat[u] = "suspend" /\ k'.error[u] = k.error[u]
    BY <1>1, <1>3 DEF Stirs
  <2> QED BY <2>1 DEF ObjInv, ListedDoze, ListedFresh
<1> QED BY <1>2, <1>3

LEMMA SameStirs ==
  ASSUME NEW r, r.stat = k.stat, r.error = k.error, NEW t PROVE Stirs(r, {}, t)
BY DEF Stirs

LEMMA ErrorStirs ==
  ASSUME ObjInv, NEW t \in Thread, NEW e \in Error PROVE Stirs(SetError(k, t, e), {}, t)
<1>1. k \in KernelRecord /\ Consistent(k)
  BY ObjFacts
<1> QED BY <1>1 DEF Stirs, SetError, KernelRecord

LEMMA SuspendsStirs ==
  ASSUME ObjInv, NEW t \in Thread, NEW w, NEW r, Suspends(k, r, t, w)
  PROVE  Stirs(r, {}, t) /\ r.error[t] = "EOK"
<1>1. k \in KernelRecord
  BY ObjFacts
<1> QED BY <1>1 DEF Stirs, Suspends, Update, KernelRecord

(* The thread that a wakeup from list w wakes                              *)
First(w) == IF k.list[w] = << >> THEN {} ELSE {Head(k.list[w])}

LEMMA WakeStirs ==
  ASSUME ObjInv, ListedFresh, NEW i \in DOMAIN Lists, NEW w, w = Lists[i], NEW t, Unlisted(t),
         NEW r, r.stat = WakeFirst(k, w).stat, r.error = WakeFirst(k, w).error
  PROVE  Stirs(r, First(w), t)
<1>1. w \in WaitList /\ k \in KernelRecord /\ Consistent(k) /\ AllSuspended(k, w)
  BY ObjFacts, ObjListsFacts
<1>2. CASE k.list[w] = << >>
  BY <1>2, SameStirs DEF WakeFirst, First
<1>3. CASE k.list[w] # << >>
  <2> DEFINE h == Head(k.list[w])
             m == IpcResume(k, w)
  <2>1. h \in Thread /\ h \in Elements(k.list[w])
    BY <1>1, <1>3, FirstWaiter
  <2>2. m.stat = Update(k.stat, h, "ready") /\ m.error = k.error
    BY <1>1, <1>3, IpcResumeFacts DEF SameRest
  <2>3. r.stat = m.stat /\ r.error = m.error /\ First(w) = {h}
    BY <1>3 DEF WakeFirst, First
  <2> HIDE DEF h, m
  <2>4. h # t /\ Listed(h) /\ k.error[h] = "EOK"
    BY <1>1, <2>1 DEF Unlisted, Listed, ListedFresh
  <2>5. \A u \in Thread : r.stat[u] = IF u = h THEN "ready" ELSE k.stat[u]
    BY <1>1, <2>2, <2>3 DEF Update, KernelRecord
  <2>6. {h} \subseteq Thread \ {t}
    BY <2>1, <2>4
  <2>7. \A u \in Thread \ {t} : Dozing(u) =>
          IF u \in {h}
          THEN r.stat[u] = "ready" /\ r.error[u] = "EOK"
          ELSE r.stat[u] = k.stat[u] /\ r.error[u] = k.error[u]
    BY <2>2, <2>3, <2>4, <2>5
  <2> QED BY <2>3, <2>4, <2>6, <2>7 DEF Stirs
<1> QED BY <1>2, <1>3

(* Waiters that are woken with an error                                    *)
LEMMA DrainsStirs ==
  ASSUME ObjInv, NEW t, Unlisted(t), NEW r, Drains(r)
  PROVE  Stirs(r, {}, t)
<1>1. PICK U \in SUBSET Thread :
        /\ Wakes(k, r, U)
        /\ \A u \in Thread : r.error[u] = IF u \in U THEN "ERROR" ELSE k.error[u]
  BY DEF Drains
<1>2. ASSUME NEW u \in Thread
      PROVE  \/ r.stat[u] = k.stat[u] /\ r.error[u] = k.error[u]
             \/ k.stat[u] = "suspend" /\ r.stat[u] = "ready" /\ r.error[u] # "EOK"
  <2>1. CASE u \in U
    <3>1. k.stat[u] = "suspend"
      BY <1>1, <2>1, ObjFacts DEF Wakes, AllSuspended
    <3> QED BY <1>1, <2>1, <3>1 DEF Wakes
  <2>2. CASE u \notin U
    BY <1>1, <2>2 DEF Wakes
  <2> QED BY <2>1, <2>2
<1> QED BY <1>2 DEF Stirs

LEMMA DrainOneDrains ==
  ASSUME ObjInv, NEW w \in WaitList, k.list[w] # << >>
  PROVE  Drains(DrainOne(k, w))
<1> DEFINE r == DrainOne(k, w)
           h == Head(k.list[w])
<1>1. k \in KernelRecord /\ Consistent(k) /\ AllSuspended(k, w)
  BY ObjFacts
<1>2. Wakes(k, r, {h}) /\ h \in Thread /\ r.error = Update(k.error, h, "ERROR")
  BY ONLY w \in WaitList, k.list[w] # << >>, <1>1, DrainOneWakes
<1> HIDE DEF r, h
<1>3. {h} \in SUBSET Thread
  BY <1>2
<1>4. \A u \in Thread : r.error[u] = IF u \in {h} THEN "ERROR" ELSE k.error[u]
  BY <1>1, <1>2 DEF Update, KernelRecord
<1>5. Drains(r)
  BY <1>2, <1>3, <1>4 DEF Drains
<1> QED BY <1>5 DEF r

(* A wakeup by an interrupt                                                *)
LEMMA IsrStirs ==
  ASSUME ObjInv, ListedFresh, NEW op, IsrCall(op), UNCHANGED <<isr, pc, arg, crit>>,
         NEW i \in DOMAIN Lists, NEW w, w = Lists[i], k' = WakeIsr(w)
  PROVE  /\ Stirs(k', First(w), NoThread)
         /\ \A v \in WaitList : k'.list[v] = WakeFirst(k, w).list[v]
<1>1. IpcInv /\ k \in KernelRecord /\ Consistent(k) /\ w \in WaitList /\ AllSuspended(k, w)
  BY ObjFacts, ObjListsFacts
<1>2. k'.stat = WakeFirst(k, w).stat /\ k'.error = WakeFirst(k, w).error
      /\ k'.list = WakeFirst(k, w).list
  <2>1. CASE k.list[w] = << >>
    BY <2>1 DEF WakeIsr, WakeFirst
  <2>2. CASE k.list[w] # << >>
    <3> DEFINE r == IpcResume(k, w)
               h == Head(k.list[w])
    <3>1. Wakes(k, r, {h}) /\ h \in Thread
      BY <1>1, <2>2, ResumeWakes, FirstWaiter
    <3>2. k' = Schedule(r) /\ WakeFirst(k, w) = r
      BY <2>2 DEF WakeIsr, WakeFirst
    <3> HIDE DEF r, h
    <3>3. {h} \subseteq Thread
      BY <3>1
    <3>4. isr = "none" /\ k.cur # NoThread /\ pc' = pc /\ isr' = isr /\ arg' = arg /\ crit' = crit
      BY DEF IsrCall
    <3>5. k'.list = r.list /\ k'.stat = r.stat /\ k'.error = r.error
      BY <1>1, <3>1, <3>2, <3>3, <3>4, InterruptSection
    <3> QED BY <3>2, <3>5
  <2> QED BY <2>1, <2>2
<1>3. Unlisted(NoThread)
  BY <1>1, ObjFacts, KernelAssumption DEF Unlisted
<1> QED BY <1>2, <1>3, WakeStirs

(* A step of the scheduler, unless an assertion fails                      *)
LEMMA NextStirs ==
  ASSUME ObjInv, Ops \cap Meddling = {}, Next, UNCHANGED objVars, ~k'.asserted
  PROVE  /\ Stirs(k', {}, NoThread)
         /\ \A u \in Thread : Dozing(u)' <=> Dozing(u)
         /\ \E u \in Thread \cup {NoThread} : TakesFrom(k, k', u)
<1>1. PICK v \in Thread \cup {NoThread} : WaitsKept(v)
  BY ObjFacts, NextIpc DEF Moves
<1>2. LabelsKept /\ step' = step
  BY ObjFacts, NextIpc DEF Moves, objVars
<1>3. \A u \in Thread : Dozing(u)' <=> Dozing(u)
  BY <1>2 DEF LabelsKept, IpcLabels, Dozing, Waiting
<1>4. ASSUME NEW u \in Thread, Dozing(u)
      PROVE  \/ k'.stat[u] = k.stat[u] /\ k'.error[u] = k.error[u]
             \/ k.stat[u] = "suspend" /\ k'.stat[u] = "ready" /\ k'.error[u] # "EOK"
  <2>1. InCall(u)
    BY <1>4 DEF Dozing, InCall, Waiting, IpcLabels
  <2> QED BY <1>1, <2>1 DEF WaitsKept
<1>5. Stirs(k', {}, NoThread)
  BY <1>4 DEF Stirs
<1>6. TakesFrom(k, k', v)
  BY <1>1 DEF WaitsKept
<1> QED BY <1>3, <1>5, <1>6

-----------------------------------------------------------------------------
(* What a step does to the wait lists.                                     *)

(* Nobody is added to a wait list.                                         *)
Shrinks(r) == \A w \in WaitList : k.list[w] = << >> => r.list[w] = << >>

LEMMA EmptyList ==
  ASSUME NEW kd \in KernelRecord, NEW w \in WaitList
  PROVE  kd.list[w] = << >> <=> Elements(kd.list[w]) = {}
<1>1. kd.list[w] \in Seq(Thread)
  BY WaitQueue DEF KernelRecord, QueueLists
<1> QED BY <1>1, EmptyElements

LEMMA RousesShrinks ==
  ASSUME ObjInv, NEW r, Rouses(r) PROVE Shrinks(r)
<1>1. PICK U \in SUBSET Thread : Wakes(k, r, U)
  BY DEF Rouses
<1>2. k \in KernelRecord /\ r \in KernelRecord /\ U \subseteq Thread
  BY <1>1, ObjFacts DEF Wakes
<1>3. ASSUME NEW w \in WaitList, k.list[w] = << >> PROVE r.list[w] = << >>
  <2>1. Elements(r.list[w]) = Elements(k.list[w]) \ U
    BY ONLY <1>1, <1>2, w \in WaitList, WakesTakes
  <2> QED BY <1>2, <1>3, <2>1, EmptyList
<1> QED BY <1>3 DEF Shrinks

LEMMA NextRecord ==
  ASSUME ObjInv' PROVE k' \in KernelRecord /\ Consistent(k')
<1>1. TypeOK' /\ QueuesConsistent'
  BY DEF ObjInv, IpcInv, IInv
<1>2. KernelType(k)'
  BY <1>1 DEF TypeOK
<1> QED BY <1>1, <1>2, KernelTypeRecord DEF QueuesConsistent

LEMMA TakesShrinks ==
  ASSUME ObjInv, NEW u, NEW r \in KernelRecord, TakesFrom(k, r, u) PROVE Shrinks(r)
<1>1. k \in KernelRecord /\ Consistent(k)
  BY ObjFacts
<1>2. ASSUME NEW w \in WaitList, k.list[w] = << >> PROVE r.list[w] = << >>
  <2>1. r.list[w] = Without(k.list[w], u)
    BY DEF TakesFrom
  <2>2. Elements(Without(k.list[w], u)) = Elements(k.list[w]) \ {u}
    BY <1>1, WaitTakes
  <2> QED BY <1>1, <1>2, <2>1, <2>2, EmptyList
<1> QED BY <1>2 DEF Shrinks

-----------------------------------------------------------------------------
(* Sections of calls.                                                      *)

(* The other threads are where they were.                                  *)
LEMMA OthersDoze ==
  ASSUME ObjInv, NEW t \in Thread, NEW label, Goto(t, label),
         NEW s, step' = step \/ step' = [step EXCEPT ![t] = s]
  PROVE  /\ \A u \in Thread \ {t} : /\ Dozing(u)' <=> Dozing(u)
                                    /\ object' = object => (Linking(u)' <=> Linking(u))
                                    /\ pc'[u] = pc[u] /\ step'[u] = step[u]
         /\ pc'[t] = label
<1>1. pc \in [Thread -> PC] /\ step \in [Thread -> StepName]
  BY ObjFacts DEF ObjInv, ObjTypes
<1>2. /\ pc'[t] = label
      /\ \A u \in Thread \ {t} : pc'[u] = pc[u] /\ step'[u] = step[u]
  BY <1>1 DEF Goto
<1> QED BY <1>2 DEF Dozing, Linking, Waiting

(* A call that goes on, or ends, does not doze then.                       *)
LEMMA GoesOn ==
  ASSUME ObjInv, NEW t \in Thread, NEW label, Goto(t, label),
         NEW s, s # "none", step' = [step EXCEPT ![t] = s]
  PROVE  ~Dozing(t)' /\ \A u \in Thread \ {t} : Dozing(u)' <=> Dozing(u)
<1>1. step' = step \/ step' = [step EXCEPT ![t] = s]
  OBVIOUS
<1>2. \A u \in Thread \ {t} : Dozing(u)' <=> Dozing(u)
  BY <1>1, OthersDoze
<1>3. step'[t] # "none"
  BY DEF ObjInv, ObjTypes
<1> QED BY <1>2, <1>3 DEF Dozing

LEMMA GoesOut ==
  ASSUME ObjInv, NEW t \in Thread, NEW label \in {"app", "sched", "drain1", "drain2"},
         Goto(t, label), NEW s, step' = step \/ step' = [step EXCEPT ![t] = s]
  PROVE  ~Dozing(t)' /\ \A u \in Thread \ {t} : Dozing(u)' <=> Dozing(u)
<1>1. pc'[t] = label /\ \A u \in Thread \ {t} : Dozing(u)' <=> Dozing(u)
  BY OthersDoze
<1> QED BY <1>1 DEF Dozing, Waiting

LEMMA AwakeNotRoused ==
  ASSUME NEW t, t \notin Thread \/ ~Dozing(t) PROVE t \notin Roused
BY DEF Roused, Dozing, Waiting

LEMMA BlockSuspends ==
  ASSUME ObjInv, NEW t \in Thread, Running(t), k.lock = 0, pc[t] \in {"app", "waited"},
         NEW w \in {Lists[i] : i \in DOMAIN Lists}, NEW time, k' = Await(t, w, time)
  PROVE  Suspends(k, k', t, w)
<1>1. w \in WaitList
  BY ObjListsFacts
<1>2. /\ k \in KernelRecord /\ Consistent(k)
      /\ k.stat[t] \in {"ready", "suspend"} /\ \A v \in WaitList : t \notin Elements(k.list[v])
  BY ObjFacts, CallerReady
<1> DEFINE x == IpcSuspend(SetError(k, t, "EOK"), w, t, flag)
<1>3. k' = x \/ k' = StartTimer(x, t)
  BY DEF Await
<1> QED BY <1>1, <1>2, <1>3, AwaitSuspends

(* The wakeups of the others                                               *)
LEMMA WakeFirstEffect ==
  ASSUME ObjInv, ListedFresh, NEW t \in Thread, CallerAt(t),
         NEW w \in {Lists[i] : i \in DOMAIN Lists}, k' = WakeFirst(k, w)
  PROVE  Stirs(k', First(w), t) /\ Shrinks(k')
<1>1. Unlisted(t)
  BY CallerUnlisted DEF CallerAt
<1>2. PICK i \in DOMAIN Lists : w = Lists[i]
  OBVIOUS
<1>3. w \in WaitList
  BY <1>2, ObjListsFacts
<1>4. Rouses(k')
  BY <1>3, WakeRouses
<1> QED BY <1>1, <1>2, <1>4, WakeStirs, RousesShrinks

LEMMA WakeIsrEffect ==
  ASSUME ObjInv, ListedFresh, NEW op, IsrCall(op), UNCHANGED <<isr, pc, arg, crit, step>>,
         NEW w \in {Lists[i] : i \in DOMAIN Lists}, k' = WakeIsr(w)
  PROVE  /\ Stirs(k', First(w), NoThread) /\ Shrinks(k')
         /\ \A u \in Thread : Dozing(u)' <=> Dozing(u)
<1>1. PICK i \in DOMAIN Lists : w = Lists[i]
  OBVIOUS
<1>2. Stirs(k', First(w), NoThread) /\ \A v \in WaitList : k'.list[v] = WakeFirst(k, w).list[v]
  BY <1>1, IsrStirs
<1>3. Shrinks(k')
  <2>1. w \in WaitList
    BY <1>1, ObjListsFacts
  <2>2. Shrinks(WakeFirst(k, w))
    BY <2>1, WakeRouses, RousesShrinks
  <2> QED BY <1>2, <2>2 DEF Shrinks
<1> QED BY <1>2, <1>3 DEF Dozing, Waiting

(* Threads that were woken are as many as the n things there are, while    *)
(* others wait in list w.                                                  *)
Heard(n, w) == ListedFresh /\ (k.list[w] # << >> => n <= Cardinality(Roused))

(* What is enough: a step by t (NoThread for an interrupt or the scheduler) *)
(* that does not leave more things than threads woken for them             *)
LEMMA HeardMore ==
  ASSUME ObjInv, ObjInv', NEW w \in WaitList, NEW n \in Nat, NEW m \in Nat, Heard(n, w),
         NEW t \in Thread \cup {NoThread}, NEW U, Stirs(k', U, t),
         \A u \in Thread \ {t} : Dozing(u)' <=> Dozing(u),
         t \in Thread /\ Dozing(t)' => k'.error[t] = "EOK",
         \/ m = 0 \/ k'.list[w] = << >>
         \/ /\ k.list[w] = << >> => k'.list[w] = << >>
            /\ \/ m = n - 1
               \/ m = n /\ t \notin Roused
               \/ m = n + 1 /\ t \notin Roused /\ (k.list[w] # << >> => U # {})
  PROVE  ListedFresh' /\ (k'.list[w] # << >> => m <= Cardinality(Roused'))
<1>1. ListedFresh'
  BY StirsFresh DEF Heard
<1>2. /\ \A u \in Thread \ {t} : u \in Roused' <=> u \in Roused \/ u \in U
      /\ \A u \in U : u \in Thread \ {t} /\ u \notin Roused
      /\ Roused \in SUBSET Thread /\ Roused' \in SUBSET Thread
  BY StirsRoused
<1>3. ASSUME k'.list[w] # << >> PROVE m <= Cardinality(Roused')
  <2>1. Cardinality(Roused') \in Nat /\ Cardinality(Roused) \in Nat
    BY <1>2, CountThreads
  <2>2. CASE m = 0
    BY <2>1, <2>2
  <2>3. CASE m # 0
    <3>1. n <= Cardinality(Roused) /\ k.list[w] # << >>
      BY <1>3, <2>3 DEF Heard
    <3>2. CASE m = n - 1
      <4>1. Roused \ {t} \subseteq Roused'
        BY <1>2
      <4>2. Cardinality(Roused) - 1 <= Cardinality(Roused')
        BY <1>2, <4>1, CountLess
      <4> QED BY <2>1, <3>1, <3>2, <4>2
    <3>3. CASE m = n /\ t \notin Roused
      <4>1. Roused \subseteq Roused'
        BY <1>2, <3>3
      <4>2. Cardinality(Roused) <= Cardinality(Roused')
        BY <1>2, <4>1, CountThreads
      <4> QED BY <2>1, <3>1, <3>3, <4>2
    <3>4. CASE m = n + 1 /\ t \notin Roused /\ U # {}
      <4>1. PICK h : h \in U
        BY <3>4
      <4>2. Roused \subseteq Roused' /\ h \in Roused' /\ h \notin Roused
        BY <1>2, <3>4, <4>1
      <4>3. Cardinality(Roused) + 1 <= Cardinality(Roused')
        BY <1>2, <4>2, CountMore
      <4> QED BY <2>1, <3>1, <3>4, <4>3
    <3> QED BY <1>3, <2>3, <3>1, <3>2, <3>3, <3>4
  <2> QED BY <2>2, <2>3
<1> QED BY <1>1, <1>3

-----------------------------------------------------------------------------
(* Message queues.                                                         *)

QueueHears == ~k.asserted => Heard(mq_entry, Mq)

LEMMA QueueHearsMore ==
  ASSUME ObjInv, ObjInv', QueueHears, ~k.asserted, mq_entry \in Nat, mq_entry' \in Nat,
         NEW t \in Thread \cup {NoThread}, NEW U, Stirs(k', U, t),
         \A u \in Thread \ {t} : Dozing(u)' <=> Dozing(u),
         t \in Thread /\ Dozing(t)' => k'.error[t] = "EOK",
         \/ mq_entry' = 0
         \/ /\ k.list[Mq] = << >> => k'.list[Mq] = << >>
            /\ \/ mq_entry' = mq_entry - 1
               \/ mq_entry' = mq_entry /\ t \notin Roused
               \/ mq_entry' = mq_entry + 1 /\ t \notin Roused /\ (k.list[Mq] # << >> => U # {})
  PROVE  QueueHears'
<1>1. Heard(mq_entry, Mq) /\ Mq \in WaitList
  BY MqFacts DEF QueueHears
<1>2. ListedFresh' /\ (k'.list[Mq] # << >> => mq_entry' <= Cardinality(Roused'))
  BY <1>1, HeardMore
<1> QED BY <1>2 DEF QueueHears, Heard

(* A step of the queue, in the cases of MessageQueueStep                   *)
LEMMA QueueHearsCall ==
  ASSUME ObjInv, ObjInv', QueueHears, ~k.asserted, mq_entry \in Nat, mq_entry' \in Nat,
         NEW t \in Thread,
         \/ \E v \in Body, urgent \in BOOLEAN : MsgSend(t, v, urgent)
         \/ (\E time \in Time : MsgRecv(t, time))
         \/ MsgReset(t)
  PROVE  QueueHears'
<1>1. /\ Running(t) /\ k.lock = 0 /\ pc[t] = "app" /\ CallerAt(t) /\ t \notin Roused
      /\ Mq \in {Lists[i] : i \in DOMAIN Lists}
  <2>1. Running(t) /\ k.lock = 0 /\ pc[t] = "app" /\ t # Idle
    BY DEF MsgSend, MsgRecv, MsgReset, ObjCall
  <2>2. CallerAt(t)
    BY <2>1 DEF CallerAt, Linking
  <2>3. t \notin Roused
    BY <2>1, AwakeNotRoused DEF Dozing, Waiting
  <2> QED BY ONLY <2>1, <2>2, <2>3, MessageQueueAssumption
<1>2. Unlisted(t)
  BY <1>1, CallerUnlisted DEF CallerAt
<1>3. ASSUME NEW v \in Body, NEW urgent \in BOOLEAN, MsgSend(t, v, urgent) PROVE QueueHears'
  <2>1. /\ Goto(t, "waited") /\ mq_entry' = mq_entry /\ k' = k
        /\ step' = [step EXCEPT ![t] = IF urgent THEN "copy_urgent" ELSE "copy"]
    BY <1>3 DEF MsgSend, GoStep
  <2>2. (\A u \in Thread \ {t} : Dozing(u)' <=> Dozing(u)) /\ ~Dozing(t)'
    BY <2>1, GoesOn
  <2> QED BY <1>1, <2>1, <2>2, SameStirs, QueueHearsMore
<1>4. ASSUME NEW time \in Time, MsgRecv(t, time) PROVE QueueHears'
  <2>1. CASE mq_entry # 0 /\ TakeMsg(t)
    <3>1. /\ Goto(t, "waited") /\ mq_entry' = mq_entry - 1 /\ k' = k
          /\ step' = [step EXCEPT ![t] = "free"]
      BY <2>1 DEF TakeMsg, GoStep
    <3>2. (\A u \in Thread \ {t} : Dozing(u)' <=> Dozing(u)) /\ ~Dozing(t)'
      BY <3>1, GoesOn
    <3> QED BY <1>1, <3>1, <3>2, SameStirs, QueueHearsMore
  <2>2. CASE mq_entry = 0 /\ Block(t, Mq, time) /\ UNCHANGED <<mq_entry, msg_queue, msg, mq_got>>
    <3>1. /\ Goto(t, "wait") /\ mq_entry' = 0 /\ k' = Await(t, Mq, time)
          /\ step' = [step EXCEPT ![t] = "none"]
      BY <2>2 DEF Block
    <3>2. Stirs(k', {}, t) /\ k'.error[t] = "EOK"
      BY <1>1, <3>1, BlockSuspends, SuspendsStirs
    <3> QED BY <1>1, <3>1, <3>2, OthersDoze, QueueHearsMore
  <2> QED BY <1>4, <2>1, <2>2 DEF MsgRecv
<1>5. CASE MsgReset(t)
  <2>1. Goto(t, "sched") /\ mq_entry' = 0 /\ k' = DrainLists(k) /\ step' = step
    BY <1>5 DEF MsgReset, objVars
  <2>2. Stirs(k', {}, t)
    BY <1>2, <2>1, DrainListsDrains, DrainsStirs
  <2>3. ~Dozing(t)' /\ \A u \in Thread \ {t} : Dozing(u)' <=> Dozing(u)
    BY <2>1, GoesOut
  <2> QED BY <1>1, <2>1, <2>2, <2>3, QueueHearsMore
<1> QED BY <1>3, <1>4, <1>5

LEMMA QueueHearsOn ==
  ASSUME ObjInv, ObjInv', QueueHears, ~k.asserted, mq_entry \in Nat, mq_entry' \in Nat,
         object = "queue", NEW t \in Thread,
         MsgCopy(t) \/ MsgLink(t) \/ MsgFree(t) \/ MsgRecvAgain(t)
  PROVE  QueueHears'
<1>1. /\ Running(t) /\ k.lock = 0 /\ pc[t] = "waited" /\ CallerAt(t)
      /\ Mq \in {Lists[i] : i \in DOMAIN Lists} /\ pc \in [Thread -> PC]
      /\ step \in [Thread -> StepName]
  <2>1. Running(t) /\ pc[t] = "waited" /\ ~Linking(t)
    BY DEF MsgCopy, MsgLink, MsgFree, MsgRecvAgain, Woken, AtStep, Linking
  <2> QED BY <2>1, RunningInCall, MessageQueueAssumption, ObjFacts DEF ObjInv, ObjTypes
<1>2. CASE MsgCopy(t)
  <2>1. /\ Goto(t, "waited") /\ mq_entry' = mq_entry /\ k' = k /\ step[t] # "none"
        /\ step' = [step EXCEPT ![t] = IF step[t] = "copy" THEN "link" ELSE "link_urgent"]
    BY <1>1, <1>2 DEF MsgCopy, AtStep, GoStep, Goto, vars, mqLists
  <2>2. t \notin Roused
    BY <2>1, AwakeNotRoused DEF Dozing
  <2>3. (IF step[t] = "copy" THEN "link" ELSE "link_urgent") # "none"
    OBVIOUS
  <2>4. ~Dozing(t)' /\ \A u \in Thread \ {t} : Dozing(u)' <=> Dozing(u)
    BY <2>1, <2>3, GoesOn
  <2> QED BY <2>1, <2>2, <2>4, SameStirs, QueueHearsMore
<1>3. CASE MsgLink(t)
  <2>1. /\ Goto(t, WakeLabel(Mq)) /\ mq_entry' = mq_entry + 1 /\ k' = WakeFirst(k, Mq)
        /\ step[t] # "none" /\ step' = [step EXCEPT ![t] = "none"]
    BY <1>3 DEF MsgLink, AtStep, Return
  <2>2. Stirs(k', First(Mq), t) /\ Shrinks(k')
    BY <1>1, <2>1, WakeFirstEffect DEF QueueHears, Heard
  <2>3. /\ k.list[Mq] = << >> => k'.list[Mq] = << >>
        /\ k.list[Mq] # << >> => First(Mq) # {}
    BY <2>2, MqFacts DEF Shrinks, First
  <2>4. t \notin Roused
    BY <2>1, AwakeNotRoused DEF Dozing
  <2>5. ~Dozing(t)' /\ \A u \in Thread \ {t} : Dozing(u)' <=> Dozing(u)
    BY <2>1, WakeLabels, GoesOut
  <2> QED BY <2>1, <2>2, <2>3, <2>4, <2>5, QueueHearsMore
<1>4. CASE MsgFree(t)
  <2>1. /\ Goto(t, "app") /\ mq_entry' = mq_entry /\ step[t] # "none"
        /\ step' = [step EXCEPT ![t] = "none"]
        /\ k' = k \/ k' = [k EXCEPT !.asserted = TRUE]
    BY <1>4 DEF MsgFree, AtStep, Return
  <2>2. k'.stat = k.stat /\ k'.error = k.error /\ k'.list = k.list
    BY <2>1, ObjFacts DEF KernelRecord
  <2>3. t \notin Roused
    BY <2>1, AwakeNotRoused DEF Dozing
  <2>4. ~Dozing(t)' /\ \A u \in Thread \ {t} : Dozing(u)' <=> Dozing(u)
    BY <2>1, GoesOut
  <2> QED BY <2>1, <2>2, <2>3, <2>4, SameStirs, QueueHearsMore
<1>5. CASE MsgRecvAgain(t)
  <2>1. CASE mq_entry # 0 /\ TakeMsg(t)
    <3>1. /\ Goto(t, "waited") /\ mq_entry' = mq_entry - 1 /\ k' = k
          /\ step' = [step EXCEPT ![t] = "free"]
      BY <2>1 DEF TakeMsg, GoStep
    <3>2. (\A u \in Thread \ {t} : Dozing(u)' <=> Dozing(u)) /\ ~Dozing(t)'
      BY <3>1, GoesOn
    <3> QED BY <1>1, <3>1, <3>2, SameStirs, QueueHearsMore
  <2>2. ASSUME NEW time \in Time, mq_entry = 0, Block(t, Mq, time),
               UNCHANGED <<mq_entry, msg_queue, msg, mq_got>>
        PROVE  QueueHears'
    <3>1. /\ Goto(t, "wait") /\ mq_entry' = 0 /\ k' = Await(t, Mq, time)
          /\ step' = [step EXCEPT ![t] = "none"]
      BY <2>2 DEF Block
    <3>2. Stirs(k', {}, t) /\ k'.error[t] = "EOK"
      BY <1>1, <3>1, BlockSuspends, SuspendsStirs
    <3> QED BY <1>1, <3>1, <3>2, OthersDoze, QueueHearsMore
  <2>3. CASE mq_entry = 0 /\ Return(t, "app") /\ k' = SetError(k, t, "ETIMEOUT")
             /\ UNCHANGED <<mq_entry, msg_queue, msg, mq_got>>
    <3>1. Goto(t, "app") /\ mq_entry' = 0 /\ step' = [step EXCEPT ![t] = "none"]
      BY <2>3 DEF Return
    <3>2. Stirs(k', {}, t)
      BY <2>3, ErrorStirs DEF Error
    <3>3. ~Dozing(t)' /\ \A u \in Thread \ {t} : Dozing(u)' <=> Dozing(u)
      BY <3>1, GoesOut
    <3> QED BY <3>1, <3>2, <3>3, QueueHearsMore
  <2>4. TimeLeft(t) \subseteq Time
    BY <1>5, WokenCaller DEF MsgRecvAgain
  <2> QED BY <1>5, <2>1, <2>2, <2>3, <2>4 DEF MsgRecvAgain
<1> QED BY <1>2, <1>3, <1>4, <1>5

(* The functions of module IpcObject                                       *)
LEMMA QuitStep ==
  ASSUME ObjInv, NEW t \in Thread, WaitFails(t) \/ DetachObject(t) \/ DrainTest(t)
  PROVE  /\ k' = k /\ t \notin Roused
         /\ ~Dozing(t)' /\ \A u \in Thread \ {t} : Dozing(u)' <=> Dozing(u)
<1>1. CASE WaitFails(t)
  <2>1. k' = k /\ Goto(t, "app") /\ step' = [step EXCEPT ![t] = "none"] /\ t \notin Roused
    BY <1>1 DEF WaitFails, Return, Roused
  <2> QED BY <2>1, GoesOut
<1>2. CASE DetachObject(t)
  <2>1. k' = k /\ Goto(t, "drain1") /\ step' = step /\ t \notin Roused
    BY <1>2 DEF DetachObject, ObjCall, objVars, Roused
  <2> QED BY <2>1, GoesOut
<1>3. CASE DrainTest(t)
  <2>1. k' = k /\ t \notin Roused
    BY <1>3 DEF DrainTest, Roused
  <2>2. CASE Goto(t, "app") /\ step' = step
    BY <2>1, <2>2, GoesOut
  <2>3. ASSUME NEW w, Goto(t, "drain2"), GoStep(t, w)
        PROVE  ~Dozing(t)' /\ \A u \in Thread \ {t} : Dozing(u)' <=> Dozing(u)
    BY <2>3, GoesOut DEF GoStep
  <2> QED BY <1>3, <2>1, <2>2, <2>3 DEF DrainTest
<1> QED BY <1>1, <1>2, <1>3

LEMMA QueueHearsRest ==
  ASSUME ObjInv, ObjInv', QueueHears, ~k.asserted, mq_entry \in Nat,
         mq_entry' = mq_entry \/ mq_entry' = 0, NEW t \in Thread,
         WaitFails(t) \/ DetachObject(t) \/ DrainTest(t) \/ DrainResume(t)
  PROVE  QueueHears'
<1>1. CASE WaitFails(t) \/ DetachObject(t) \/ DrainTest(t)
  <2>1. /\ k' = k /\ t \notin Roused
        /\ ~Dozing(t)' /\ \A u \in Thread \ {t} : Dozing(u)' <=> Dozing(u)
    BY <1>1, QuitStep
  <2>2. Stirs(k', {}, t)
    BY <2>1, SameStirs
  <2>3. k'.list = k.list
    BY <2>1
  <2> QED BY <2>1, <2>2, <2>3, QueueHearsMore
<1>2. CASE DrainResume(t)
  <2>1. /\ Running(t) /\ pc[t] = "drain2" /\ Goto(t, "drain1") /\ t \notin Roused
        /\ step' = [step EXCEPT ![t] = "none"] /\ k' = DrainOne(k, step[t])
    BY <1>2 DEF DrainResume, GoStep, Roused
  <2>2. step[t] \in WaitList
    BY <2>1, ObjListsFacts DEF ObjInv, StepsInCalls
  <2>3. CASE k.list[step[t]] = << >>
    <3>1. k'.asserted
      BY <2>1, <2>3, ObjFacts DEF DrainOne, KernelRecord
    <3> QED BY <3>1 DEF QueueHears
  <2>4. CASE k.list[step[t]] # << >>
    <3>1. Drains(k')
      BY <2>1, <2>2, <2>4, DrainOneDrains
    <3>2. Unlisted(t)
      BY <2>1, CallerUnlisted DEF Linking
    <3>3. Stirs(k', {}, t) /\ Shrinks(k')
      BY <3>1, <3>2, DrainsStirs, DrainsRouses, RousesShrinks
    <3>4. k.list[Mq] = << >> => k'.list[Mq] = << >>
      BY <3>3, MqFacts DEF Shrinks
    <3>5. ~Dozing(t)' /\ \A u \in Thread \ {t} : Dozing(u)' <=> Dozing(u)
      BY <2>1, GoesOut
    <3> QED BY <2>1, <3>3, <3>4, <3>5, QueueHearsMore
  <2> QED BY <2>3, <2>4
<1> QED BY <1>1, <1>2

LEMMA QueueHearsStep ==
  ASSUME ObjInv, ObjInv', MqInv, MqInv', QueueHears, Ops \cap Meddling = {},
         object = "queue", object' = object, MessageQueueNext
  PROVE  QueueHears'
<1>1. mq_entry \in Nat /\ mq_entry' \in Nat
  BY DEF MqInv, MessagesApart, Apart
<1>2. CASE k.asserted
  BY <1>2 DEF MessageQueueNext, Halt, vars, QueueHears
<1>3. CASE ~k.asserted /\ MessageQueueStep
  <2>1. CASE Next /\ UNCHANGED <<objVars, mqVars>>
    <3>1. CASE k'.asserted
      BY <3>1 DEF QueueHears
    <3>2. CASE ~k'.asserted
      <4>0. UNCHANGED objVars /\ mq_entry' = mq_entry /\ NoThread \notin Roused
        BY <2>1, KernelAssumption, AwakeNotRoused DEF mqVars
      <4>1. Stirs(k', {}, NoThread) /\ \A u \in Thread : Dozing(u)' <=> Dozing(u)
        BY <2>1, <3>2, <4>0, NextStirs
      <4>2. k' \in KernelRecord
        BY NextRecord
      <4>3. Shrinks(k')
        BY <2>1, <3>2, <4>0, <4>2, NextStirs, TakesShrinks
      <4>4. k.list[Mq] = << >> => k'.list[Mq] = << >>
        BY <4>3, MqFacts DEF Shrinks
      <4> QED BY <1>1, <1>3, <4>0, <4>1, <4>4, KernelAssumption, QueueHearsMore
    <3> QED BY <3>1, <3>2
  <2>2. ASSUME NEW v \in Body, MsgSendIsr(v) PROVE QueueHears'
    <3>1. /\ IsrCall("isr_send") /\ UNCHANGED <<isr, pc, arg, crit, step>>
          /\ k' = WakeIsr(Mq) /\ mq_entry' = mq_entry + 1
          /\ NoThread \notin Roused /\ Mq \in {Lists[i] : i \in DOMAIN Lists}
      BY <2>2, KernelAssumption, MqFacts DEF MsgSendIsr, objVars, Roused, MqList
    <3>2. /\ Stirs(k', First(Mq), NoThread) /\ Shrinks(k')
          /\ \A u \in Thread : Dozing(u)' <=> Dozing(u)
      BY <1>3, <3>1, WakeIsrEffect DEF QueueHears, Heard
    <3>3. /\ k.list[Mq] = << >> => k'.list[Mq] = << >>
          /\ k.list[Mq] # << >> => First(Mq) # {}
      BY <3>2, MqFacts DEF Shrinks, First
    <3> QED BY <1>1, <1>3, <3>1, <3>2, <3>3, KernelAssumption, QueueHearsMore
  <2>3. ASSUME NEW t \in Thread,
               \/ \E v \in Body, urgent \in BOOLEAN : MsgSend(t, v, urgent)
               \/ MsgCopy(t) \/ MsgLink(t) \/ MsgFree(t)
               \/ (\E time \in Time : MsgRecv(t, time)) \/ MsgRecvAgain(t) \/ MsgReset(t)
        PROVE  QueueHears'
    BY <1>1, <1>3, <2>3, QueueHearsCall, QueueHearsOn
  <2>4. ASSUME NEW t \in Thread,
               \/ (DrainTest(t) \/ DrainResume(t) \/ WaitFails(t)) /\ UNCHANGED mqVars
               \/ MsgDetach(t)
        PROVE  QueueHears'
    BY <1>1, <1>3, <2>4, QueueHearsRest DEF MsgDetach, mqVars
  <2>5. ASSUME NEW t \in Thread, MsgCreate(t) PROVE QueueHears'
    <3>1. k' = k /\ mq_entry' = 0 /\ pc' = pc /\ step' = step
      BY <2>5 DEF MsgCreate, InitObject, vars
    <3>2. \A u \in Thread : Dozing(u)' <=> Dozing(u)
      BY <3>1 DEF Dozing, Waiting
    <3>3. Stirs(k', {}, NoThread)
      BY <3>1, SameStirs
    <3> QED BY <1>1, <1>3, <3>1, <3>2, <3>3, KernelAssumption, QueueHearsMore
  <2> QED BY <1>3, <2>1, <2>2, <2>3, <2>4, <2>5 DEF MessageQueueStep
<1> QED BY <1>2, <1>3 DEF MessageQueueNext, Halt

-----------------------------------------------------------------------------
(* Calls on an object that is in use.                                      *)

LEMMA UsableStays ==
  ASSUME pc \in [Thread -> PC], Usable, alive' = alive, NEW t \in Thread,
         NEW label \in {"app", "sched", "wait", "waited"}, Goto(t, label)
  PROVE  Usable'
<1>1. pc'[t] = label /\ \A u \in Thread \ {t} : pc'[u] = pc[u]
  BY DEF Goto
<1> QED BY <1>1 DEF Usable, Detaching

(* Only an object in use wakes its waiters without an error.               *)
LEMMA WokenUsable ==
  ASSUME ObjInv, WaitersQuit, NEW t \in Thread, Woken(t), k.error[t] = "EOK"
  PROVE  Usable
<1>1. Running(t) /\ pc[t] = "waited" /\ step[t] = "none" /\ k.stat[t] = "ready"
  BY WokenCaller, CallerUnlisted DEF CallerAt, Woken, AtStep
<1>2. Waiting(t) /\ ~Quits(t)
  BY <1>1 DEF Waiting, Quits, Linking
<1> QED BY <1>2 DEF WaitersQuit

(* A list without repetitions is as long as it has elements.               *)
LEMMA ListLength ==
  ASSUME NEW T, NEW s \in Seq(T), NoRepeat(s)
  PROVE  Len(s) = Cardinality(Elements(s)) /\ IsFiniteSet(Elements(s))
<1>1. Elements(s) = {s[i] : i \in 1 .. Len(s)} /\ Len(s) \in Nat
  BY DEF Elements
<1>2. s \in Bijection(1 .. Len(s), Elements(s))
  <2>1. DOMAIN s = 1 .. Len(s) /\ s \in [1 .. Len(s) -> Elements(s)]
    BY <1>1
  <2>2. s \in Injection(1 .. Len(s), Elements(s))
    BY <2>1 DEF NoRepeat, Injection, IsInjective
  <2>3. s \in Surjection(1 .. Len(s), Elements(s))
    BY <1>1, <2>1 DEF Surjection
  <2> QED BY <2>2, <2>3 DEF Bijection
<1>3. ExistsBijection(1 .. Len(s), Elements(s))
  BY <1>2 DEF ExistsBijection
<1>4. Len(s) = Cardinality(Elements(s))
  BY <1>1, <1>3, FS_CountingElements
<1>5. IsFiniteSet(Elements(s))
  BY <1>1, <1>3, FS_NatBijection
<1> QED BY <1>4, <1>5

LEMMA WaitLength ==
  ASSUME NEW kd \in KernelRecord, Consistent(kd), NEW w \in WaitList
  PROVE  /\ Elements(kd.list[w]) \in SUBSET Thread
         /\ Len(kd.list[w]) = Cardinality(Elements(kd.list[w]))
<1>1. kd.list[w] \in Seq(Thread) /\ NoRepeat(kd.list[w])
  BY WaitQueue DEF KernelRecord, QueueLists, Consistent, LinkedOnce, NoRepeat
<1>2. Elements(kd.list[w]) \in SUBSET Thread
  BY <1>1 DEF Elements
<1> QED BY <1>1, <1>2, ListLength

-----------------------------------------------------------------------------
(* Memory pools.                                                           *)

(* An object that is not one of the system has no waiters.                 *)
NoneLeft == ~alive => \A i \in DOMAIN Lists : k.list[Lists[i]] = << >>

(* Only one of the lists is used, and the count is never less than the     *)
(* threads that wait in it.                                                *)
PoolAlone == \A i \in DOMAIN Lists : Lists[i] # Pool => k.list[Lists[i]] = << >>
PoolCounts == suspend_thread_count \in Nat /\ Len(k.list[Pool]) <= suspend_thread_count

PoolReady ==
  /\ WaitersQuit /\ NoneLeft
  /\ PoolAlone /\ PoolCounts /\ Heard(block_free_count, Pool)
PoolHears == ~k.asserted => PoolReady

LEMMA FewerWait ==
  ASSUME ObjInv, NEW w \in WaitList, NEW r \in KernelRecord, Consistent(r)
  PROVE  /\ Len(r.list[w]) \in Nat /\ Len(k.list[w]) \in Nat
         /\ Elements(r.list[w]) \subseteq Elements(k.list[w]) => Len(r.list[w]) <= Len(k.list[w])
         /\ \A h \in Elements(k.list[w]) :
              Elements(r.list[w]) \subseteq Elements(k.list[w]) \ {h}
                => Len(r.list[w]) + 1 <= Len(k.list[w])
         /\ \A h : Elements(r.list[w]) = Elements(k.list[w]) \cup {h}
                     => Len(r.list[w]) <= Len(k.list[w]) + 1
<1> DEFINE A == Elements(r.list[w])
           B == Elements(k.list[w])
<1>1. /\ A \in SUBSET Thread /\ Len(r.list[w]) = Cardinality(A)
      /\ B \in SUBSET Thread /\ Len(k.list[w]) = Cardinality(B)
  BY ObjFacts, WaitLength
<1> HIDE DEF A, B
<1>2. Cardinality(A) \in Nat /\ Cardinality(B) \in Nat /\ (A \subseteq B => Cardinality(A) <= Cardinality(B))
  BY <1>1, CountThreads
<1>3. ASSUME NEW h \in B, A \subseteq B \ {h} PROVE Cardinality(A) + 1 <= Cardinality(B)
  BY <1>1, <1>3, CountMore
<1>4. ASSUME NEW h, A = B \cup {h} PROVE Cardinality(A) <= Cardinality(B) + 1
  <2>1. A \ {h} \subseteq B
    BY <1>4
  <2>2. Cardinality(A) - 1 <= Cardinality(B)
    BY <1>1, <2>1, CountLess
  <2> QED BY <1>2, <2>2
<1> QED BY <1>1, <1>2, <1>3, <1>4 DEF A, B

(* What is enough for a step by t                                          *)
LEMMA PoolHearsMore ==
  ASSUME ObjInv, ObjInv', PoolReady, block_free_count \in Nat, block_free_count' \in Nat,
         NEW t \in Thread \cup {NoThread}, NEW U, Stirs(k', U, t),
         \A u \in Thread \ {t} : Dozing(u)' <=> Dozing(u),
         t \in Thread /\ Dozing(t)' => k'.error[t] = "EOK",
         \/ block_free_count' = 0 \/ k'.list[Pool] = << >>
         \/ /\ k.list[Pool] = << >> => k'.list[Pool] = << >>
            /\ \/ block_free_count' = block_free_count - 1
               \/ block_free_count' = block_free_count /\ t \notin Roused
               \/ /\ block_free_count' = block_free_count + 1 /\ t \notin Roused
                  /\ k.list[Pool] # << >> => U # {},
         \A w \in WaitList \ {Pool} : k.list[w] = << >> => k'.list[w] = << >>,
         WaitersQuit', NoneLeft', PoolCounts'
  PROVE  PoolReady'
<1>1. Heard(block_free_count, Pool) /\ Pool \in WaitList
  BY PoolFacts DEF PoolReady
<1>2. ListedFresh' /\ (k'.list[Pool] # << >> => block_free_count' <= Cardinality(Roused'))
  BY <1>1, HeardMore
<1>3. PoolAlone'
  BY ObjListsFacts DEF PoolReady, PoolAlone
<1> QED BY <1>2, <1>3 DEF PoolReady, Heard

(* rt_mp_free that resumes a waiter                                        *)
LEMMA PoolResumeEffect ==
  ASSUME ObjInv, PoolReady, NEW t, Unlisted(t),
         NEW r, ~r.asserted, r.asserted = PoolResume.asserted,
         r.stat = PoolResume.stat, r.error = PoolResume.error, r.list = PoolResume.list
  PROVE  /\ Stirs(r, First(Pool), t) /\ First(Pool) # {}
         /\ \A w \in WaitList \ {Pool} : r.list[w] = k.list[w]
         /\ \E h \in Elements(k.list[Pool]) : Elements(r.list[Pool]) = Elements(k.list[Pool]) \ {h}
<1>1. k \in KernelRecord /\ Consistent(k) /\ Pool \in WaitList /\ AllSuspended(k, Pool)
  BY ObjFacts, PoolFacts
<1>2. k.list[Pool] # << >>
  BY <1>1 DEF PoolResume, KernelRecord
<1> DEFINE h == Head(k.list[Pool])
           e == SetError(k, h, "EOK")
           m == IpcResume(e, Pool)
<1>3. h \in Thread /\ h \in Elements(k.list[Pool]) /\ "EOK" \in Error
      /\ Elements(Tail(k.list[Pool])) = Elements(k.list[Pool]) \ {h}
  BY <1>1, <1>2, FirstWaiter DEF Error
<1>4. Listed(h) /\ k.error[h] = "EOK" /\ h # t
  BY <1>1, <1>3, PoolFacts DEF Listed, PoolReady, Heard, ListedFresh, Unlisted
<1>5. /\ e \in KernelRecord /\ Consistent(e) /\ e.list = k.list /\ AllSuspended(e, Pool)
      /\ \A u \in Thread : e.stat[u] = k.stat[u]
  <2>1. Wakes(k, e, {}) /\ e.list = k.list
    BY <1>1, <1>3, SetErrorWakes
  <2> QED BY <1>1, <2>1, ObjFacts DEF Wakes, AllSuspended
<1>6. \A u \in Thread : e.error[u] = k.error[u]
  BY <1>1, <1>3, <1>4 DEF SetError, KernelRecord
<1>7. PoolResume = m /\ First(Pool) = {h}
  BY <1>2 DEF PoolResume, First
<1> HIDE DEF e, h
<1>8. /\ m.stat = Update(e.stat, h, "ready") /\ m.error = e.error
      /\ m.list[Pool] = Tail(k.list[Pool])
      /\ \A w \in WaitList \ {Pool} : m.list[w] = k.list[w]
  BY <1>1, <1>2, <1>5, IpcResumeFacts DEF SameRest, h
<1> HIDE DEF m
<1>9. \A u \in Thread : r.stat[u] = (IF u = h THEN "ready" ELSE k.stat[u]) /\ r.error[u] = k.error[u]
  BY <1>5, <1>6, <1>7, <1>8 DEF Update, KernelRecord
<1>10. {h} \subseteq Thread \ {t}
  BY <1>3, <1>4
<1>11. Stirs(r, {h}, t)
  BY <1>4, <1>9, <1>10 DEF Stirs
<1> QED BY <1>3, <1>7, <1>8, <1>11

(* The counts of a step that wakes nobody, or somebody with an error       *)
LEMMA PoolCountsKept ==
  ASSUME ObjInv, ObjInv', PoolCounts, suspend_thread_count' = suspend_thread_count,
         Elements(k'.list[Pool]) \subseteq Elements(k.list[Pool])
  PROVE  PoolCounts'
<1>1. /\ Len(k'.list[Pool]) \in Nat /\ Len(k.list[Pool]) \in Nat
      /\ Len(k'.list[Pool]) <= Len(k.list[Pool])
  BY NextRecord, PoolFacts, FewerWait
<1> QED BY <1>1 DEF PoolCounts

(* rt_mp_alloc that waits                                                  *)
LEMMA PoolHearsWait ==
  ASSUME ObjInv, ObjInv', PoolReady, block_free_count = 0, Usable, alive' = alive,
         NEW t \in Thread, Running(t), k.lock = 0, pc[t] \in {"app", "waited"},
         NEW time, PoolWait(t, time)
  PROVE  PoolReady'
<1>1. Suspends(k, k', t, Pool)
  BY PoolWaitSuspends
<1>2. Stirs(k', {}, t) /\ k'.error[t] = "EOK"
  BY <1>1, SuspendsStirs
<1>3. /\ block_free_count' = 0 /\ suspend_thread_count' = suspend_thread_count + 1
      /\ Goto(t, "wait") /\ step' = [step EXCEPT ![t] = "none"]
  BY DEF PoolWait, blocks
<1>4. \A u \in Thread \ {t} : Dozing(u)' <=> Dozing(u)
  BY <1>3, OthersDoze
<1>5. Usable'
  BY <1>3, ObjFacts, UsableStays
<1>6. WaitersQuit' /\ NoneLeft'
  BY <1>5 DEF WaitersQuit, NoneLeft, Usable
<1>7. PoolCounts'
  <2>1. /\ Len(k'.list[Pool]) \in Nat /\ Len(k.list[Pool]) \in Nat
        /\ Len(k'.list[Pool]) <= Len(k.list[Pool]) + 1
    BY <1>1, NextRecord, PoolFacts, FewerWait DEF Suspends
  <2> QED BY <1>3, <2>1 DEF PoolReady, PoolCounts
<1>8. \A w \in WaitList \ {Pool} : k'.list[w] = k.list[w]
  BY <1>1 DEF Suspends
<1> QED BY <1>2, <1>3, <1>4, <1>6, <1>7, <1>8, PoolHearsMore

(* A call of rt_mp_alloc or rt_mp_free that does not wait; the error of    *)
(* the caller may be set.                                                  *)
LEMMA PoolHearsOut ==
  ASSUME ObjInv, ObjInv', PoolReady, block_free_count \in Nat, block_free_count' \in Nat,
         Usable, alive' = alive, NEW t \in Thread, NEW label \in {"app", "sched"}, Goto(t, label),
         step' = step \/ step' = [step EXCEPT ![t] = "none"],
         Stirs(k', {}, t), k'.list = k.list, suspend_thread_count' = suspend_thread_count,
         \/ block_free_count' = 0 \/ block_free_count' = block_free_count - 1
         \/ block_free_count' = block_free_count + 1 /\ t \notin Roused /\ k.list[Pool] = << >>
  PROVE  PoolReady'
<1>1. Usable'
  BY ObjFacts, UsableStays
<1>2. WaitersQuit' /\ NoneLeft'
  BY <1>1 DEF WaitersQuit, NoneLeft, Usable
<1>3. PoolCounts'
  BY PoolCountsKept DEF PoolReady
<1>4. ~Dozing(t)' /\ \A u \in Thread \ {t} : Dozing(u)' <=> Dozing(u)
  BY GoesOut
<1> QED BY <1>2, <1>3, <1>4, PoolHearsMore

LEMMA PoolHearsAlloc ==
  ASSUME ObjInv, ObjInv', PoolReady, block_free_count \in Nat, block_free_count' \in Nat,
         NEW t \in Thread, (\E time \in Time : PoolAlloc(t, time)) \/ PoolAllocAgain(t)
  PROVE  PoolReady'
<1>1. ASSUME NEW time \in Time, PoolAlloc(t, time) PROVE PoolReady'
  <2>1. Running(t) /\ k.lock = 0 /\ pc[t] = "app" /\ Usable /\ alive' = alive
    BY <1>1 DEF PoolAlloc, ObjCall
  <2>2. CASE block_free_count = 0 /\ PoolWait(t, time)
    BY <2>1, <2>2, PoolHearsWait
  <2>3. CASE block_free_count # 0 /\ GetBlock /\ UNCHANGED <<k, pc, wait, step>>
    <3>1. Goto(t, "app") /\ Stirs(k', {}, t)
      BY <2>1, <2>3, ObjFacts, SameStirs DEF Goto
    <3> QED BY <2>1, <2>3, <3>1, PoolHearsOut DEF GetBlock
  <2>4. CASE /\ block_free_count = 0 /\ k' = SetError(k, t, "ETIMEOUT")
             /\ UNCHANGED <<pc, wait, step, poolVars>>
    <3>1. Goto(t, "app") /\ Stirs(k', {}, t)
      BY <2>1, <2>4, ObjFacts, ErrorStirs DEF Goto, Error
    <3>2. k'.list = k.list
      BY <2>4, ObjFacts DEF SetError, KernelRecord
    <3> QED BY <2>1, <2>4, <3>1, <3>2, PoolHearsOut DEF poolVars
  <2> QED BY <1>1, <2>2, <2>3, <2>4 DEF PoolAlloc
<1>2. CASE PoolAllocAgain(t)
  <2>1. Running(t) /\ k.lock = 0 /\ pc[t] = "waited" /\ Usable /\ alive' = alive
    BY <1>2, WokenCaller, WokenUsable DEF PoolAllocAgain, PoolReady
  <2>2. CASE block_free_count = 0 /\ \E time \in TimeLeft(t) : PoolWait(t, time)
    BY <2>1, <2>2, PoolHearsWait
  <2>3. CASE block_free_count # 0 /\ GetBlock /\ Return(t, "app") /\ UNCHANGED k
    <3>1. Stirs(k', {}, t)
      BY <2>3, SameStirs
    <3> QED BY <2>1, <2>3, <3>1, PoolHearsOut DEF GetBlock, Return
  <2>4. CASE /\ block_free_count = 0 /\ k' = SetError(k, t, "ETIMEOUT")
             /\ Return(t, "app") /\ UNCHANGED poolVars
    <3>1. Stirs(k', {}, t)
      BY <2>4, ErrorStirs DEF Error
    <3>2. k'.list = k.list
      BY <2>4, ObjFacts DEF SetError, KernelRecord
    <3> QED BY <2>1, <2>4, <3>1, <3>2, PoolHearsOut DEF poolVars, Return
  <2> QED BY <1>2, <2>2, <2>3, <2>4 DEF PoolAllocAgain
<1> QED BY <1>1, <1>2

(* rt_mp_free of an application, and of an interrupt                       *)
LEMMA PoolCountLess ==
  ASSUME ObjInv, ObjInv', PoolReady, suspend_thread_count > 0,
         suspend_thread_count' = suspend_thread_count - 1,
         NEW h \in Elements(k.list[Pool]), Elements(k'.list[Pool]) = Elements(k.list[Pool]) \ {h}
  PROVE  PoolCounts'
<1>1. /\ Len(k'.list[Pool]) \in Nat /\ Len(k.list[Pool]) \in Nat
      /\ Len(k'.list[Pool]) + 1 <= Len(k.list[Pool])
  BY NextRecord, PoolFacts, FewerWait
<1> QED BY <1>1 DEF PoolReady, PoolCounts

LEMMA NoWaiters ==
  ASSUME ObjInv, PoolReady, ~(suspend_thread_count > 0) PROVE k.list[Pool] = << >>
<1>1. k.list[Pool] \in Seq(Thread) /\ Len(k.list[Pool]) <= 0
  BY ObjFacts, PoolFacts DEF PoolReady, PoolCounts
<1> QED BY <1>1

LEMMA PoolHearsFree ==
  ASSUME ObjInv, ObjInv', PoolReady, block_free_count \in Nat, block_free_count' \in Nat,
         ~k'.asserted, NEW t \in Thread, NEW b, PoolFree(t, b)
  PROVE  PoolReady'
<1>1. /\ ObjCall(t, "free") /\ Running(t) /\ pc[t] = "app" /\ Usable /\ alive' = alive
      /\ step' = step /\ k.lock = 0 /\ t # Idle /\ block_free_count' = block_free_count + 1
  BY DEF PoolFree, ObjCall, objVars, PutBlock
<1>2. t \notin Roused
  BY <1>1 DEF Roused
<1>3. CASE suspend_thread_count > 0
  <2>1. /\ k' = PoolResume /\ Goto(t, "sched") /\ suspend_thread_count' = suspend_thread_count - 1
    BY <1>3 DEF PoolFree, PutBlock
  <2>2. Unlisted(t)
    BY <1>1, CallerUnlisted DEF Linking
  <2>3. /\ Stirs(k', First(Pool), t) /\ First(Pool) # {}
        /\ \A w \in WaitList \ {Pool} : k'.list[w] = k.list[w]
    BY <2>1, <2>2, PoolResumeEffect
  <2>4. PICK h \in Elements(k.list[Pool]) : Elements(k'.list[Pool]) = Elements(k.list[Pool]) \ {h}
    BY <2>1, <2>2, PoolResumeEffect
  <2>5. PoolCounts' /\ k.list[Pool] # << >>
    <3>1. PoolCounts'
      BY <1>3, <2>1, <2>4, PoolCountLess
    <3> QED BY <3>1, <2>3 DEF First
  <2>6. Usable'
    BY <1>1, <2>1, ObjFacts, UsableStays
  <2>7. WaitersQuit' /\ NoneLeft'
    BY <2>6 DEF WaitersQuit, NoneLeft, Usable
  <2>8. ~Dozing(t)' /\ \A u \in Thread \ {t} : Dozing(u)' <=> Dozing(u)
    BY <1>1, <2>1, GoesOut
  <2> QED BY <1>1, <1>2, <2>3, <2>5, <2>7, <2>8, PoolHearsMore
<1>4. CASE ~(suspend_thread_count > 0)
  <2>1. /\ k' = k /\ Goto(t, "app") /\ suspend_thread_count' = 0 /\ suspend_thread_count = 0
    BY <1>4 DEF PoolFree, PutBlock, PoolReady, PoolCounts
  <2>2. Stirs(k', {}, t) /\ k.list[Pool] = << >>
    BY <1>4, <2>1, SameStirs, NoWaiters
  <2> QED BY <1>1, <1>2, <2>1, <2>2, PoolHearsOut
<1> QED BY <1>3, <1>4

LEMMA PoolHearsIsr ==
  ASSUME ObjInv, ObjInv', PoolReady, block_free_count \in Nat, block_free_count' \in Nat,
         ~k'.asserted, object' = object, PoolAllocIsr \/ \E b : PoolFreeIsr(b)
  PROVE  PoolReady'
<1>1. /\ UNCHANGED <<isr, pc, arg, crit, objVars>> /\ Usable
      /\ isr = "none" /\ k.cur # NoThread
  BY DEF PoolAllocIsr, PoolFreeIsr, IsrCall, vars
<1>2. Usable' /\ \A u \in Thread : Dozing(u)' <=> Dozing(u)
  BY <1>1 DEF Usable, Detaching, objVars, Dozing, Waiting
<1>3. WaitersQuit' /\ NoneLeft'
  BY <1>2 DEF WaitersQuit, NoneLeft, Usable
<1>4. NoThread \notin Thread /\ NoThread \notin Roused
  BY KernelAssumption, AwakeNotRoused
<1>5. CASE PoolAllocIsr
  <2>1. /\ k' = k /\ block_free_count' = block_free_count - 1
        /\ suspend_thread_count' = suspend_thread_count
    BY <1>5 DEF PoolAllocIsr, GetBlock, vars
  <2>2. Stirs(k', {}, NoThread)
    BY <2>1, SameStirs
  <2>3. PoolCounts'
    BY <2>1 DEF PoolReady, PoolCounts
  <2> QED BY <1>2, <1>3, <1>4, <2>1, <2>2, <2>3, PoolHearsMore
<1>6. ASSUME NEW b, PoolFreeIsr(b), ~(suspend_thread_count > 0) PROVE PoolReady'
  <2>1. k' = k /\ block_free_count' = block_free_count + 1 /\ suspend_thread_count' = 0
    BY <1>6 DEF PoolFreeIsr, PutBlock
  <2>2. Stirs(k', {}, NoThread) /\ k.list[Pool] = << >>
    BY <1>6, <2>1, SameStirs, NoWaiters
  <2>3. PoolCounts'
    BY <1>6, <2>1, <2>2 DEF PoolReady, PoolCounts
  <2> QED BY <1>2, <1>3, <1>4, <2>1, <2>2, <2>3, PoolHearsMore
<1>7. ASSUME NEW b, PoolFreeIsr(b), suspend_thread_count > 0 PROVE PoolReady'
  <2>1. /\ k' = Schedule(PoolResume) /\ block_free_count' = block_free_count + 1
        /\ suspend_thread_count' = suspend_thread_count - 1
    BY <1>7 DEF PoolFreeIsr, PutBlock
  <2>2. PICK U \in SUBSET Thread : Wakes(k, PoolResume, U)
    BY PoolResumeRouses DEF Rouses
  <2>3. /\ k'.list = PoolResume.list /\ k'.stat = PoolResume.stat
        /\ k'.error = PoolResume.error
    BY <1>1, <2>1, <2>2, ObjFacts, InterruptSection
  <2>4. k'.asserted = PoolResume.asserted
    <3>1. PoolResume \in KernelRecord
      BY <2>2 DEF Wakes
    <3> QED BY <2>1, <3>1 DEF Schedule, KernelRecord
  <2>5. Unlisted(NoThread)
    BY <1>4, ObjFacts DEF Unlisted
  <2>6. /\ Stirs(k', First(Pool), NoThread) /\ First(Pool) # {}
        /\ \A w \in WaitList \ {Pool} : k'.list[w] = k.list[w]
    BY <2>3, <2>4, <2>5, PoolResumeEffect
  <2>7. PICK h \in Elements(k.list[Pool]) : Elements(k'.list[Pool]) = Elements(k.list[Pool]) \ {h}
    BY <2>3, <2>4, <2>5, PoolResumeEffect
  <2>8. PoolCounts' /\ k.list[Pool] # << >>
    <3>1. PoolCounts'
      BY <1>7, <2>1, <2>7, PoolCountLess
    <3> QED BY <3>1, <2>6 DEF First
  <2> QED BY <1>2, <1>3, <1>4, <2>1, <2>6, <2>8, PoolHearsMore
<1> QED BY <1>5, <1>6, <1>7

(* The scheduler                                                           *)
LEMMA PoolHearsNext ==
  ASSUME ObjInv, ObjInv', PoolReady, block_free_count \in Nat, ~k'.asserted,
         Ops \cap Meddling = {}, object = "pool", object' = object,
         Next, UNCHANGED <<objVars, poolVars>>
  PROVE  PoolReady'
<1>1. /\ UNCHANGED objVars /\ alive' = alive
      /\ block_free_count' = block_free_count
      /\ suspend_thread_count' = suspend_thread_count
  BY DEF objVars, poolVars
<1>2. Stirs(k', {}, NoThread) /\ \A u \in Thread : Dozing(u)' <=> Dozing(u)
  BY <1>1, NextStirs
<1>3. PICK u \in Thread \cup {NoThread} : TakesFrom(k, k', u)
  BY <1>1, NextStirs
<1>4. k' \in KernelRecord /\ Shrinks(k')
  BY <1>3, NextRecord, TakesShrinks
<1>5. Elements(k'.list[Pool]) \subseteq Elements(k.list[Pool])
  <2>1. Pool \in WaitList /\ k \in KernelRecord /\ Consistent(k)
    BY ObjFacts, PoolFacts
  <2>2. k'.list[Pool] = Without(k.list[Pool], u)
    BY <1>3, <2>1 DEF TakesFrom
  <2>3. Elements(Without(k.list[Pool], u)) = Elements(k.list[Pool]) \ {u}
    BY <2>1, WaitTakes
  <2> QED BY <2>2, <2>3
<1>6. LinkingSleeps
  BY DEF LinkingSleeps, Linking
<1>7. WaitersQuit'
  BY <1>1, <1>6, NextQuits DEF PoolReady
<1>8. NoneLeft'
  BY <1>1, <1>4, ObjListsFacts DEF PoolReady, NoneLeft, Shrinks
<1>9. PoolCounts'
  BY <1>1, <1>5, PoolCountsKept DEF PoolReady
<1>10. NoThread \notin Thread /\ NoThread \notin Roused
  BY KernelAssumption, AwakeNotRoused
<1>11. \A w \in WaitList : k.list[w] = << >> => k'.list[w] = << >>
  BY <1>4 DEF Shrinks
<1> QED BY <1>1, <1>2, <1>7, <1>8, <1>9, <1>10, <1>11, PoolFacts, PoolHearsMore

(* The functions of module IpcObject                                       *)
LEMMA PoolHearsQuit ==
  ASSUME ObjInv, ObjInv', PoolReady, block_free_count \in Nat, block_free_count' \in Nat,
         object' = object, UNCHANGED poolVars, NEW t \in Thread,
         WaitFails(t) \/ DetachObject(t) \/ DrainTest(t)
  PROVE  PoolReady'
<1>1. /\ k' = k /\ t \notin Roused /\ ~Dozing(t)'
      /\ \A u \in Thread \ {t} : Dozing(u)' <=> Dozing(u)
  BY QuitStep
<1>2. Stirs(k', {}, t) /\ k'.list = k.list
  BY <1>1, SameStirs
<1>3. WaitersQuit'
  BY DrainQuits, DetachQuits DEF PoolReady
<1>4. alive' = alive \/ \A i \in DOMAIN Lists : k.list[Lists[i]] = << >>
  BY DEF WaitFails, DetachObject, DrainTest, objVars
<1>5. NoneLeft'
  BY <1>2, <1>4 DEF PoolReady, NoneLeft
<1>6. PoolCounts' /\ block_free_count' = block_free_count
  BY <1>2 DEF PoolReady, PoolCounts, poolVars
<1> QED BY <1>1, <1>2, <1>3, <1>5, <1>6, PoolHearsMore

LEMMA PoolHearsDrain ==
  ASSUME ObjInv, ObjInv', PoolReady, block_free_count \in Nat, block_free_count' \in Nat,
         ~k'.asserted, object' = object, NEW t \in Thread, PoolDrainResume(t)
  PROVE  PoolReady'
<1>1. /\ Running(t) /\ pc[t] = "drain2" /\ Goto(t, "drain1") /\ t \notin Roused
      /\ step' = [step EXCEPT ![t] = "none"] /\ k' = DrainOne(k, step[t])
      /\ suspend_thread_count' = suspend_thread_count - 1 /\ alive' = alive
      /\ block_free_count' = block_free_count
  BY DEF PoolDrainResume, DrainResume, GoStep, Roused, blocks
<1>2. PICK i \in DOMAIN Lists : step[t] = Lists[i]
  BY <1>1, ObjListsFacts DEF ObjInv, StepsInCalls, Elements
<1>3. k.list[step[t]] # << >>
  BY <1>1, ObjFacts DEF DrainOne, KernelRecord
<1>4. step[t] = Pool
  BY <1>2, <1>3 DEF PoolReady, PoolAlone
<1>5. Drains(k')
  BY <1>1, <1>3, <1>4, PoolFacts, DrainOneDrains
<1>6. Unlisted(t)
  BY <1>1, CallerUnlisted DEF Linking
<1>7. Stirs(k', {}, t) /\ Shrinks(k')
  BY <1>5, <1>6, DrainsStirs, DrainsRouses, RousesShrinks
<1>8. \E h \in Elements(k.list[Pool]) : Elements(k'.list[Pool]) = Elements(k.list[Pool]) \ {h}
  <2> DEFINE h == Head(k.list[Pool])
  <2>1. h \in Elements(k.list[Pool]) /\ Elements(Tail(k.list[Pool])) = Elements(k.list[Pool]) \ {h}
    BY <1>3, <1>4, ObjFacts, PoolFacts, FirstWaiter
  <2>2. k'.list[Pool] = Tail(k.list[Pool])
    <3>1. k \in KernelRecord /\ Consistent(k) /\ Pool \in WaitList /\ AllSuspended(k, Pool)
      BY ObjFacts, PoolFacts
    <3>2. k' = DrainOne(k, Pool) /\ k.list[Pool] # << >>
      BY <1>1, <1>3, <1>4
    <3>3. PICK r : r = k'
      OBVIOUS
    <3>4. r = DrainOne(k, Pool) /\ k.list[Pool] # << >>
      BY <3>2, <3>3
    <3>5. r.list[Pool] = Tail(k.list[Pool])
      BY ONLY <3>1, <3>4, DrainOneWakes
    <3> QED BY <3>3, <3>5
  <2> QED BY <2>1, <2>2
<1>9. PICK h \in Elements(k.list[Pool]) : Elements(k'.list[Pool]) = Elements(k.list[Pool]) \ {h}
  BY <1>8
<1>10. suspend_thread_count > 0
  <2>1. Len(k.list[Pool]) > 0
    BY <1>3, <1>4, ObjFacts, PoolFacts
  <2>2. Len(k.list[Pool]) \in Nat
    BY ObjFacts, PoolFacts
  <2> QED BY <2>1, <2>2 DEF PoolReady, PoolCounts
<1>11. PoolCounts'
  BY <1>1, <1>9, <1>10, PoolCountLess
<1>12. WaitersQuit'
  BY DrainQuits DEF PoolDrainResume, PoolReady
<1>13. NoneLeft'
  BY <1>1, <1>7, ObjListsFacts DEF PoolReady, NoneLeft, Shrinks
<1>14. ~Dozing(t)' /\ \A u \in Thread \ {t} : Dozing(u)' <=> Dozing(u)
  BY <1>1, GoesOut
<1>15. \A w \in WaitList : k.list[w] = << >> => k'.list[w] = << >>
  BY <1>7 DEF Shrinks
<1> QED BY <1>1, <1>7, <1>11, <1>12, <1>13, <1>14, <1>15, PoolFacts, PoolHearsMore

LEMMA PoolHearsCreate ==
  ASSUME ObjInv, ObjInv', PoolReady, block_free_count \in Nat, block_free_count' \in Nat,
         object' = object, NEW t \in Thread, PoolCreate(t)
  PROVE  PoolReady'
<1>1. /\ k' = k /\ pc' = pc /\ step' = step /\ alive' = TRUE /\ ~alive
      /\ suspend_thread_count' = 0 /\ InitObject(t)
  BY DEF PoolCreate, InitObject, PoolReset, vars
<1>2. \A u \in Thread : Dozing(u)' <=> Dozing(u)
  BY <1>1 DEF Dozing, Waiting
<1>3. Stirs(k', {}, NoThread)
  BY <1>1, SameStirs
<1>4. k.list[Pool] = << >>
  BY <1>1, PoolFacts DEF PoolReady, NoneLeft
<1>5. WaitersQuit' /\ NoneLeft' /\ PoolCounts'
  BY <1>1, <1>4, InitQuits DEF PoolReady, NoneLeft, PoolCounts
<1>6. k'.list = k.list
  BY <1>1
<1> QED BY <1>2, <1>3, <1>4, <1>5, <1>6, KernelAssumption, PoolHearsMore

LEMMA PoolHearsStep ==
  ASSUME ObjInv, ObjInv', PoolInv, PoolInv', PoolHears, Ops \cap Meddling = {},
         object = "pool", object' = object, MemPoolNext
  PROVE  PoolHears'
<1>1. block_free_count \in Nat /\ block_free_count' \in Nat
  BY DEF PoolInv, BlocksConserved
<1>2. CASE k.asserted
  BY <1>2 DEF MemPoolNext, Halt, vars, PoolHears
<1>3. CASE k'.asserted
  BY <1>3 DEF PoolHears
<1>4. CASE ~k.asserted /\ ~k'.asserted
  <2>1. MemPoolStep /\ PoolReady
    BY <1>4 DEF MemPoolNext, Halt, PoolHears
  <2>2. CASE Next /\ UNCHANGED <<objVars, poolVars>>
    BY <1>1, <1>4, <2>1, <2>2, PoolHearsNext DEF PoolHears
  <2>3. CASE PoolAllocIsr \/ \E b : PoolFreeIsr(b)
    BY <1>1, <1>4, <2>1, <2>3, PoolHearsIsr DEF PoolHears
  <2>4. ASSUME NEW b, NEW t \in Thread, PoolFree(t, b) PROVE PoolHears'
    BY <1>1, <1>4, <2>1, <2>4, PoolHearsFree DEF PoolHears
  <2>5. ASSUME NEW t \in Thread, (\E time \in Time : PoolAlloc(t, time)) \/ PoolAllocAgain(t)
        PROVE  PoolHears'
    BY <1>1, <1>4, <2>1, <2>5, PoolHearsAlloc DEF PoolHears
  <2>6. ASSUME NEW t \in Thread, \/ (WaitFails(t) \/ DrainTest(t)) /\ UNCHANGED poolVars
                                 \/ PoolDetach(t)
        PROVE  PoolHears'
    BY <1>1, <1>4, <2>1, <2>6, PoolHearsQuit DEF PoolHears, PoolDetach
  <2>7. ASSUME NEW t \in Thread, PoolDrainResume(t) \/ PoolCreate(t) PROVE PoolHears'
    BY <1>1, <1>4, <2>1, <2>7, PoolHearsDrain, PoolHearsCreate DEF PoolHears
  <2> QED BY <2>1, <2>2, <2>3, <2>4, <2>5, <2>6, <2>7 DEF MemPoolStep
<1> QED BY <1>2, <1>3, <1>4

-----------------------------------------------------------------------------
(* Mailboxes.                                                              *)

Takers == {t \in Roused : mail[t] = NoMail} \cup {t \in Exposed : step[t] = "wake"}
Fillers == {t \in Roused : mail[t] # NoMail} \cup {t \in Exposed : step[t] \in {"put", "count"}}

(* From those who take n things to those who take m, in a step by t        *)
Gains(A, B, n, m, t) ==
  \/ m = 0 \/ m = n - 1
  \/ m = n /\ (t \in A => t \in B)
  \/ m = n /\ \E h \in B : h \notin A
  \/ m = n + 1 /\ (t \in A => t \in B) /\ \E h \in B : h \notin A

LEMMA GainsEnough ==
  ASSUME NEW A \in SUBSET Thread, NEW B \in SUBSET Thread, NEW t, A \ {t} \subseteq B,
         NEW n \in Nat, NEW m \in Nat, n <= Cardinality(A), Gains(A, B, n, m, t)
  PROVE  m <= Cardinality(B)
<1>1. Cardinality(A) \in Nat /\ Cardinality(B) \in Nat /\ Cardinality(A) - 1 <= Cardinality(B)
  BY CountThreads, CountLess
<1>2. CASE t \in A => t \in B
  <2>1. A \subseteq B
    BY <1>2
  <2>2. Cardinality(A) <= Cardinality(B)
    BY <2>1, CountThreads
  <2>3. ASSUME NEW h \in B, h \notin A PROVE Cardinality(A) + 1 <= Cardinality(B)
    BY <2>1, <2>3, CountMore
  <2> QED BY <1>1, <2>2, <2>3 DEF Gains
<1>3. CASE m = n /\ \E h \in B : h \notin A
  <2>1. PICK h \in B : h \notin A
    BY <1>3
  <2>2. A \ {t} \in SUBSET Thread /\ h \notin A \ {t}
    BY <2>1
  <2>3. Cardinality(A \ {t}) + 1 <= Cardinality(B)
    BY <2>1, <2>2, CountMore
  <2>4. Cardinality(A) - 1 <= Cardinality(A \ {t}) /\ Cardinality(A \ {t}) \in Nat
    BY <2>2, CountLess, CountThreads
  <2> QED BY <1>1, <1>3, <2>3, <2>4
<1> QED BY <1>1, <1>2, <1>3 DEF Gains

(* A thread that a step leaves where it is                                 *)
Still(u) ==
  /\ (Dozing(u)' <=> Dozing(u)) /\ (Held(u)' <=> Held(u)) /\ (Waiting(u)' <=> Waiting(u))
  /\ step'[u] = step[u] /\ mail'[u] = mail[u]

LEMMA SidesMove ==
  ASSUME ObjInv, NEW t, NEW U, Stirs(k', U, t), \A u \in Thread \ {t} : Still(u)
  PROVE  /\ Takers \in SUBSET Thread /\ Takers' \in SUBSET Thread /\ Takers \ {t} \subseteq Takers'
         /\ Fillers \in SUBSET Thread /\ Fillers' \in SUBSET Thread /\ Fillers \ {t} \subseteq Fillers'
         /\ \A h \in U : IF mail[h] = NoMail THEN h \in Takers' /\ h \notin Takers
                         ELSE h \in Fillers' /\ h \notin Fillers
<1>1. \A u \in Thread \ {t} : Dozing(u)' <=> Dozing(u)
  BY DEF Still
<1>2. /\ \A u \in Thread \ {t} : u \in Roused' <=> u \in Roused \/ u \in U
      /\ \A u \in U : u \in Thread \ {t} /\ u \notin Roused
      /\ Roused \in SUBSET Thread /\ Roused' \in SUBSET Thread
  BY <1>1, StirsRoused
<1>3. Exposed \in SUBSET Thread /\ Exposed' \in SUBSET Thread
  BY DEF Exposed
<1>4. \A u \in Thread \ {t} : u \in Exposed' <=> u \in Exposed
  BY DEF Exposed, Still, Held
<1>5. \A u \in U : u \notin Exposed
  BY DEF Stirs, ObjInv, ListedDoze, Dozing, Exposed
<1>6. \A u \in Thread \ {t} : step'[u] = step[u] /\ mail'[u] = mail[u]
  BY DEF Still
<1>7. Takers \in SUBSET Thread /\ Takers' \in SUBSET Thread /\ Takers \ {t} \subseteq Takers'
  BY <1>2, <1>3, <1>4, <1>6 DEF Takers
<1>8. Fillers \in SUBSET Thread /\ Fillers' \in SUBSET Thread /\ Fillers \ {t} \subseteq Fillers'
  BY <1>2, <1>3, <1>4, <1>6 DEF Fillers
<1>9. ASSUME NEW h \in U
      PROVE  IF mail[h] = NoMail THEN h \in Takers' /\ h \notin Takers
             ELSE h \in Fillers' /\ h \notin Fillers
  BY <1>2, <1>5, <1>6 DEF Takers, Fillers
<1> QED BY <1>7, <1>8, <1>9

(* A mailbox, and the words in the hands of threads                        *)
MailWords ==
  /\ entry \in 0 .. Size /\ mail \in [Thread -> Mail \cup {NoMail}]
  /\ \A t \in Thread : ~Waiting(t) => mail[t] = NoMail
  /\ \A t \in Elements(k.list[Receivers]) : mail[t] = NoMail
  /\ \A t \in Elements(k.list[Senders]) : mail[t] # NoMail

(* The thread that is in the part of rt_mb_send_wait that has interrupts   *)
(* on: if it is to be linked and can run, nothing has come between.        *)
MayBeExposed(t) ==
  /\ step[t] \in {"put", "count", "wake", "link"} /\ mail[t] # NoMail
  /\ step[t] = "link" /\ k.cur = t => entry = Size
  /\ step[t] \in {"put", "count"} => entry < Size
MailExposed == \A t \in Exposed : MayBeExposed(t) /\ \A u \in Exposed : u = t

MailHeard ==
  /\ k.list[Receivers] # << >> => entry <= Cardinality(Takers)
  /\ k.list[Senders] # << >> => Size - entry <= Cardinality(Fillers)

MailReady ==
  /\ WaitersQuit /\ LinkingSleeps /\ NoneLeft /\ ListedFresh
  /\ MailWords /\ MailExposed /\ MailHeard
MailHears == ~k.asserted => MailReady

LEMMA MailHeardMore ==
  ASSUME ObjInv, ObjInv', ListedFresh, MailHeard, entry \in 0 .. Size, entry' \in 0 .. Size,
         NEW t \in Thread \cup {NoThread}, NEW U, Stirs(k', U, t),
         \A u \in Thread \ {t} : Still(u),
         t \in Thread /\ Dozing(t)' => k'.error[t] = "EOK",
         k'.list[Receivers] # << >> =>
           \/ entry' = 0
           \/ k.list[Receivers] # << >> /\ Gains(Takers, Takers', entry, entry', t),
         k'.list[Senders] # << >> =>
           \/ entry' = Size
           \/ k.list[Senders] # << >> /\ Gains(Fillers, Fillers', Size - entry, Size - entry', t)
  PROVE  ListedFresh' /\ MailHeard'
<1>1. ListedFresh'
  BY StirsFresh DEF Still
<1>2. /\ Takers \in SUBSET Thread /\ Takers' \in SUBSET Thread /\ Takers \ {t} \subseteq Takers'
      /\ Fillers \in SUBSET Thread /\ Fillers' \in SUBSET Thread /\ Fillers \ {t} \subseteq Fillers'
  BY SidesMove
<1>3. /\ Size \in Nat /\ entry \in Nat /\ entry' \in Nat
      /\ Size - entry \in Nat /\ Size - entry' \in Nat
  <2> DEFINE m == entry'
  <2>1. Size \in Nat /\ entry \in 0 .. Size /\ m \in 0 .. Size
    BY MailboxAssumption
  <2> HIDE DEF m
  <2>2. entry \in Nat /\ m \in Nat /\ Size - entry \in Nat /\ Size - m \in Nat
    BY ONLY <2>1
  <2> QED BY <2>1, <2>2 DEF m
<1>4. Cardinality(Takers') \in Nat /\ Cardinality(Fillers') \in Nat
  BY <1>2, CountThreads
<1>5. ASSUME k'.list[Receivers] # << >> PROVE entry' <= Cardinality(Takers')
  <2>1. CASE entry' = 0
    BY <1>4, <2>1
  <2>2. CASE k.list[Receivers] # << >> /\ Gains(Takers, Takers', entry, entry', t)
    BY <1>2, <1>3, <2>2, GainsEnough DEF MailHeard
  <2> QED BY <1>5, <2>1, <2>2
<1>6. ASSUME k'.list[Senders] # << >> PROVE Size - entry' <= Cardinality(Fillers')
  <2>1. CASE entry' = Size
    BY <1>3, <1>4, <2>1
  <2>2. CASE /\ k.list[Senders] # << >>
             /\ Gains(Fillers, Fillers', Size - entry, Size - entry', t)
    <3>1. Size - entry <= Cardinality(Fillers)
      BY <2>2 DEF MailHeard
    <3> DEFINE n == Size - entry
               m == Size - entry'
    <3>2. n \in Nat /\ m \in Nat /\ n <= Cardinality(Fillers) /\ Gains(Fillers, Fillers', n, m, t)
      BY <1>3, <2>2, <3>1
    <3> HIDE DEF n, m
    <3>3. m <= Cardinality(Fillers')
      BY <1>2, <3>2, GainsEnough
    <3> QED BY <3>3 DEF m
  <2> QED BY <1>6, <2>1, <2>2
<1> QED BY <1>1, <1>5, <1>6 DEF MailHeard

(* A step of a call on the mailbox by t, which sends x then, or receives   *)
LEMMA MailPlaces ==
  ASSUME ObjInv, NEW t \in Thread, NEW label \in {"app", "sched", "wait", "waited"},
         Goto(t, label), NEW s, step' = Update(step, t, s),
         mail \in [Thread -> Mail \cup {NoMail}], NEW x \in Mail \cup {NoMail},
         mail' = Update(mail, t, x), label = "waited" <=> s # "none"
  PROVE  /\ pc'[t] = label /\ step'[t] = s /\ mail'[t] = x
         /\ \A u \in Thread \ {t} : pc'[u] = pc[u] /\ step'[u] = step[u] /\ mail'[u] = mail[u]
         /\ \A u \in Thread \ {t} : Still(u)
         /\ mail' \in [Thread -> Mail \cup {NoMail}]
         /\ Held(t)' <=> label = "waited"
         /\ Waiting(t)' <=> label \in {"wait", "waited"}
         /\ Dozing(t)' <=> label = "wait"
<1>1. pc \in [Thread -> PC] /\ step \in [Thread -> StepName]
  BY ObjFacts DEF ObjInv, ObjTypes
<1>2. pc'[t] = label /\ \A u \in Thread \ {t} : pc'[u] = pc[u]
  BY <1>1 DEF Goto
<1>3. step'[t] = s /\ \A u \in Thread \ {t} : step'[u] = step[u]
  BY <1>1 DEF Update
<1>4. mail'[t] = x /\ \A u \in Thread \ {t} : mail'[u] = mail[u]
  BY DEF Update
<1>5. mail' \in [Thread -> Mail \cup {NoMail}]
  BY DEF Update
<1>6. \A u \in Thread \ {t} : Still(u)
  BY <1>2, <1>3, <1>4 DEF Still, Dozing, Held, Waiting
<1>7. /\ Held(t)' <=> label = "waited"
      /\ Waiting(t)' <=> label \in {"wait", "waited"}
      /\ Dozing(t)' <=> label = "wait"
  BY <1>2, <1>3 DEF Held, Waiting, Dozing
<1> QED BY <1>2, <1>3, <1>4, <1>5, <1>6, <1>7

LEMMA MailStays ==
  ASSUME ObjInv, ObjInv', MailReady, object' = object, Usable, alive' = alive,
         NEW t \in Thread, Exposed \subseteq {t},
         NEW label \in {"app", "sched", "wait", "waited"}, Goto(t, label),
         NEW s, step' = Update(step, t, s), label = "waited" <=> s # "none",
         NEW x \in Mail \cup {NoMail}, mail' = Update(mail, t, x),
         label \in {"app", "sched"} => x = NoMail,
         label = "waited" => MayBeExposed(t)',
         s = "link" => k'.stat[t] = "suspend" /\ ~k'.timer[t],
         \A u \in Elements(k'.list[Receivers]) :
           IF u = t THEN x = NoMail ELSE u \in Elements(k.list[Receivers]),
         \A u \in Elements(k'.list[Senders]) :
           IF u = t THEN x # NoMail ELSE u \in Elements(k.list[Senders]),
         NEW U, Stirs(k', U, t), label = "wait" => k'.error[t] = "EOK",
         entry' \in 0 .. Size,
         k'.list[Receivers] # << >> =>
           \/ entry' = 0
           \/ k.list[Receivers] # << >> /\ Gains(Takers, Takers', entry, entry', t),
         k'.list[Senders] # << >> =>
           \/ entry' = Size
           \/ k.list[Senders] # << >> /\ Gains(Fillers, Fillers', Size - entry, Size - entry', t)
  PROVE  MailReady'
<1>1. mail \in [Thread -> Mail \cup {NoMail}] /\ entry \in 0 .. Size
  BY DEF MailReady, MailWords
<1>2. /\ pc'[t] = label /\ step'[t] = s /\ mail'[t] = x
      /\ \A u \in Thread \ {t} : pc'[u] = pc[u] /\ step'[u] = step[u] /\ mail'[u] = mail[u]
      /\ \A u \in Thread \ {t} : Still(u)
      /\ mail' \in [Thread -> Mail \cup {NoMail}]
      /\ Held(t)' <=> label = "waited"
      /\ Waiting(t)' <=> label \in {"wait", "waited"}
      /\ Dozing(t)' <=> label = "wait"
  BY <1>1, MailPlaces
<1>3. Usable'
  BY ObjFacts, UsableStays
<1>4. WaitersQuit' /\ NoneLeft'
  BY <1>3 DEF WaitersQuit, NoneLeft, Usable
<1>5. Exposed' \subseteq {t} /\ \A u \in Thread : Held(u) => u = t
  <2>1. \A u \in Thread : Held(u) => u = t
    BY DEF Exposed, Held
  <2>2. \A u \in Thread : Held(u)' => u = t
    BY <1>2, <2>1 DEF Still
  <2> QED BY <2>1, <2>2 DEF Exposed, Held
<1>6. LinkingSleeps'
  <2>1. \A u \in Thread : Linking(u)' => Held(u)'
    BY DEF Linking, Held
  <2>2. \A u \in Thread : Linking(u)' => u = t
    BY <1>5, <2>1 DEF Exposed, Held
  <2>3. Linking(t)' => s = "link"
    BY <1>2 DEF Linking
  <2> QED BY <2>2, <2>3 DEF LinkingSleeps
<1>7. MailExposed'
  <2>1. t \in Exposed' => label = "waited"
    BY <1>2 DEF Exposed
  <2> QED BY <1>5, <2>1 DEF MailExposed
<1>8. MailWords'
  <2>1. \A u \in Thread : ~Waiting(u)' => mail'[u] = NoMail
    BY <1>2 DEF Still, MailReady, MailWords
  <2>2. \A u \in Elements(k'.list[Receivers]) : mail'[u] = NoMail
    <3>1. Elements(k.list[Receivers]) \subseteq Thread
      BY ObjFacts, MailListFacts DEF MailLists
    <3> QED BY <1>2, <3>1 DEF MailReady, MailWords
  <2>3. \A u \in Elements(k'.list[Senders]) : mail'[u] # NoMail
    <3>1. Elements(k.list[Senders]) \subseteq Thread
      BY ObjFacts, MailListFacts DEF MailLists
    <3> QED BY <1>2, <3>1 DEF MailReady, MailWords
  <2> QED BY <1>2, <2>1, <2>2, <2>3 DEF MailWords
<1>9. ListedFresh' /\ MailHeard'
  <2>1. ListedFresh /\ MailHeard
    BY DEF MailReady
  <2> QED BY <1>1, <1>2, <2>1, MailHeardMore
<1> QED BY <1>4, <1>6, <1>7, <1>8, <1>9 DEF MailReady

(* A step that is no call on the mailbox, and wakes nobody but with an error *)
LEMMA MailQuiet ==
  ASSUME ObjInv, ObjInv', MailReady, object = "mailbox", object' = object,
         WaitersQuit', LinkingSleeps', NoneLeft', HeldKept,
         NEW t \in Thread \cup {NoThread}, Stirs(k', {}, t), t \notin Roused,
         \A u \in Thread \ {t} :
           (Waiting(u)' <=> Waiting(u)) /\ step'[u] = step[u] /\ mail'[u] = mail[u],
         mail' \in [Thread -> Mail \cup {NoMail}],
         t \in Thread => ~Waiting(t)' /\ mail'[t] = NoMail,
         \A u \in Thread : Linking(u) /\ k.cur # u => k'.cur # u,
         Elements(k'.list[Receivers]) \subseteq Elements(k.list[Receivers]),
         Elements(k'.list[Senders]) \subseteq Elements(k.list[Senders]),
         \/ entry' = entry
         \/ /\ entry' = 0 /\ k'.list[Receivers] = << >> /\ k'.list[Senders] = << >>
            /\ \A u \in Thread : Held(u) => Linking(u) /\ k.cur # u
  PROVE  MailReady'
<1>1. /\ mail \in [Thread -> Mail \cup {NoMail}] /\ entry \in 0 .. Size
      /\ Size \in Nat /\ entry' \in 0 .. Size
  BY MailboxAssumption DEF MailReady, MailWords
<1>2. \A u \in Thread : Held(u)' <=> Held(u)
  BY DEF HeldKept
<1>3. \A u \in Thread \ {t} : Still(u)
  BY <1>2 DEF Still, Dozing
<1>4. t \in Thread => ~Dozing(t)' /\ ~Held(t)' /\ ~Held(t)
  BY <1>2 DEF Dozing, Waiting, Held
<1>5. \A u \in Thread : u \in Exposed' <=> u \in Exposed
  BY <1>2 DEF Exposed, Held
<1>6. t \notin Exposed
  BY <1>4 DEF Exposed, Held
<1>7. MailExposed'
  <2> SUFFICES ASSUME NEW u \in Exposed' PROVE MayBeExposed(u)'
    BY <1>5 DEF MailExposed, MailReady, Exposed
  <2>1. u \in Thread /\ u \in Exposed /\ u # t /\ MayBeExposed(u)
    BY <1>5, <1>6 DEF Exposed, MailExposed, MailReady
  <2>2. step'[u] = step[u] /\ mail'[u] = mail[u]
    BY <2>1
  <2>3. Held(u) /\ (step[u] = "link" => Linking(u))
    BY <2>1 DEF Exposed, Held, Linking
  <2>4. CASE entry' = entry
    <3>1. step'[u] = "link" /\ k'.cur = u => k.cur = u
      BY <2>1, <2>2, <2>3
    <3> QED BY <2>1, <2>2, <2>4, <3>1 DEF MayBeExposed
  <2>5. CASE \A v \in Thread : Held(v) => Linking(v) /\ k.cur # v
    BY <2>1, <2>2, <2>3, <2>5 DEF MayBeExposed, Linking
  <2> QED BY <2>4, <2>5
<1>8. MailWords'
  <2>1. \A u \in Thread : ~Waiting(u)' => mail'[u] = NoMail
    BY DEF MailReady, MailWords
  <2>2. Elements(k'.list[Receivers]) \subseteq Thread /\ Elements(k'.list[Senders]) \subseteq Thread
    BY ObjFacts, MailListFacts DEF MailLists
  <2>3. \A u \in Elements(k'.list[Receivers]) \cup Elements(k'.list[Senders]) : u # t
    <3>1. \A w \in MailLists : \A u \in Elements(k'.list[w]) : Listed(u)'
      BY MailListFacts DEF Listed
    <3>2. \A u \in Thread : Listed(u)' => Dozing(u)'
      BY DEF ObjInv, ListedDoze
    <3> QED BY <1>4, <2>2, <3>1, <3>2 DEF MailLists
  <2> QED BY <1>1, <2>1, <2>2, <2>3 DEF MailReady, MailWords
<1>9. ListedFresh' /\ MailHeard'
  <2>1. ListedFresh /\ MailHeard
    BY DEF MailReady
  <2>2. t \notin Takers /\ t \notin Fillers
    BY <1>6 DEF Takers, Fillers
  <2>3. k'.list[Receivers] # << >> =>
           k.list[Receivers] # << >> /\ Gains(Takers, Takers', entry, entry', t)
    <3>1. k.list[Receivers] = << >> => k'.list[Receivers] = << >>
      BY ObjFacts, NextRecord, MailListFacts, EmptyList DEF MailLists
    <3> QED BY <2>2, <3>1 DEF Gains
  <2>4. k'.list[Senders] # << >> =>
           k.list[Senders] # << >> /\ Gains(Fillers, Fillers', Size - entry, Size - entry', t)
    <3>1. k.list[Senders] = << >> => k'.list[Senders] = << >>
      BY ObjFacts, NextRecord, MailListFacts, EmptyList DEF MailLists
    <3> QED BY <2>2, <3>1 DEF Gains
  <2> QED BY <1>1, <1>3, <1>4, <2>1, <2>3, <2>4, MailHeardMore
<1> QED BY <1>7, <1>8, <1>9 DEF MailReady

(* The scheduler                                                           *)
LEMMA MailNext ==
  ASSUME ObjInv, ObjInv', MailReady, object = "mailbox", object' = object, ~k'.asserted,
         Ops \cap Meddling = {}, Next, UNCHANGED <<objVars, mailboxVars>>
  PROVE  MailReady'
<1>1. UNCHANGED objVars /\ step' = step /\ alive' = alive /\ mail' = mail /\ entry' = entry
      /\ WaitersQuit /\ LinkingSleeps /\ NoneLeft /\ MailWords
  BY DEF objVars, mailboxVars, MailReady
<1>2. WaitersQuit' /\ LinkingSleeps' /\ HeldKept
      /\ \A u \in Thread : Linking(u) /\ k.cur # u => k'.cur # u
  BY <1>1, NextQuits
<1>3. Stirs(k', {}, NoThread)
  BY <1>1, NextStirs
<1>4. PICK v \in Thread \cup {NoThread} : TakesFrom(k, k', v)
  BY <1>1, NextStirs
<1>5. NoneLeft'
  <2>1. Shrinks(k')
    BY <1>4, NextRecord, TakesShrinks
  <2> QED BY <1>1, <2>1, ObjListsFacts DEF NoneLeft, Shrinks
<1>6. \A w \in WaitList : Elements(k'.list[w]) \subseteq Elements(k.list[w])
  <2> SUFFICES ASSUME NEW w \in WaitList
               PROVE  Elements(k'.list[w]) \subseteq Elements(k.list[w])
    OBVIOUS
  <2>1. k \in KernelRecord /\ Consistent(k)
    BY ObjFacts
  <2>2. k'.list[w] = Without(k.list[w], v)
    BY <1>4 DEF TakesFrom
  <2>3. Elements(Without(k.list[w], v)) = Elements(k.list[w]) \ {v}
    BY <2>1, WaitTakes, ZenonT(60)
  <2> QED BY <2>2, <2>3
<1>7. Elements(k'.list[Receivers]) \subseteq Elements(k.list[Receivers])
      /\ Elements(k'.list[Senders]) \subseteq Elements(k.list[Senders])
  BY <1>6, MailListFacts DEF MailLists
<1>8. \A u \in Thread : Waiting(u)' <=> Waiting(u)
  <2>1. LabelsKept
    BY ObjFacts, NextIpc DEF Moves
  <2> QED BY <2>1 DEF LabelsKept, IpcLabels, Waiting
<1>9. NoThread \notin Thread /\ NoThread \notin Roused
  BY KernelAssumption, AwakeNotRoused
<1>10. mail' \in [Thread -> Mail \cup {NoMail}]
  BY <1>1 DEF MailWords
<1> QED BY <1>1, <1>2, <1>3, <1>5, <1>7, <1>8, <1>9, <1>10, MailQuiet

(* The functions of module IpcObject                                       *)
LEMMA QuitPlaces ==
  ASSUME ObjInv, NEW t \in Thread,
         WaitFails(t) \/ DetachObject(t) \/ DrainTest(t) \/ DrainResume(t)
  PROVE  /\ ~Waiting(t)'
         /\ \A u \in Thread \ {t} : (Waiting(u)' <=> Waiting(u)) /\ step'[u] = step[u]
         /\ \A u \in Thread : Linking(u)' => pc[u] = "waited" /\ step[u] = "link"
<1>1. PICK label \in {"app", "drain1", "drain2"} : Goto(t, label)
  BY DEF WaitFails, Return, DetachObject, DrainTest, DrainResume
<1>2. pc \in [Thread -> PC] /\ step \in [Thread -> StepName]
  BY ObjFacts DEF ObjInv, ObjTypes
<1>3. pc'[t] = label /\ \A u \in Thread \ {t} : pc'[u] = pc[u]
  BY <1>1, <1>2 DEF Goto
<1>4. \A u \in Thread \ {t} : step'[u] = step[u]
  BY <1>2 DEF WaitFails, Return, DetachObject, DrainTest, DrainResume, GoStep, objVars
<1> QED BY <1>3, <1>4 DEF Waiting, Linking

LEMMA LinkingKept ==
  ASSUME LinkingSleeps, object' = object, \A u \in Thread : Linking(u)' => Linking(u),
         k'.timer = k.timer, \A u \in Thread : Linking(u) => k'.stat[u] = k.stat[u]
  PROVE  LinkingSleeps'
BY DEF LinkingSleeps

LEMMA MailQuits ==
  ASSUME ObjInv, ObjInv', MailReady, object = "mailbox", object' = object, NEW t \in Thread,
         MailFails(t) \/ ((DetachObject(t) \/ DrainTest(t)) /\ UNCHANGED mailboxVars)
  PROVE  MailReady'
<1>1. /\ WaitersQuit /\ LinkingSleeps /\ NoneLeft /\ MailWords /\ entry' = entry
      /\ WaitFails(t) \/ DetachObject(t) \/ DrainTest(t)
  BY DEF MailReady, MailFails, mailboxVars, ring
<1>2. k' = k /\ t \notin Roused
  BY <1>1, QuitStep
<1>3. /\ ~Waiting(t)'
      /\ \A u \in Thread \ {t} : (Waiting(u)' <=> Waiting(u)) /\ step'[u] = step[u]
      /\ \A u \in Thread : Linking(u)' => Linking(u)
  BY <1>1, QuitPlaces DEF Linking
<1>4. WaitersQuit' /\ HeldKept
  BY <1>1, DrainQuits, DetachQuits
<1>5. LinkingSleeps'
  BY <1>1, <1>2, <1>3, LinkingKept
<1>6. NoneLeft'
  <2>1. alive' = alive \/ \A i \in DOMAIN Lists : k.list[Lists[i]] = << >>
    BY <1>1 DEF WaitFails, DetachObject, DrainTest, objVars
  <2> QED BY <1>1, <1>2, <2>1 DEF NoneLeft
<1>7. /\ mail' \in [Thread -> Mail \cup {NoMail}] /\ mail'[t] = NoMail
      /\ \A u \in Thread \ {t} : mail'[u] = mail[u]
  <2>1. DetachObject(t) \/ DrainTest(t) => ~Waiting(t)
    BY DEF DetachObject, ObjCall, DrainTest, Waiting
  <2> QED BY <1>1, <2>1 DEF MailWords, MailFails, mailboxVars
<1>8. Stirs(k', {}, t)
  BY <1>2, SameStirs
<1> QED BY <1>1, <1>2, <1>3, <1>4, <1>5, <1>6, <1>7, <1>8, MailQuiet

LEMMA MailDrains ==
  ASSUME ObjInv, ObjInv', MailReady, ~k'.asserted, object = "mailbox", object' = object,
         NEW t \in Thread, DrainResume(t), UNCHANGED mailboxVars
  PROVE  MailReady'
<1>1. WaitersQuit /\ LinkingSleeps /\ NoneLeft /\ MailWords /\ mail' = mail /\ entry' = entry
  BY DEF MailReady, mailboxVars
<1>2. /\ Running(t) /\ pc[t] = "drain2" /\ t \notin Roused /\ alive' = alive
      /\ k' = DrainOne(k, step[t]) /\ ~Waiting(t)
  BY DEF DrainResume, Roused, Waiting
<1>3. PICK i \in DOMAIN Lists : step[t] = Lists[i]
  BY <1>2, ObjListsFacts DEF ObjInv, StepsInCalls, Elements
<1>4. /\ k \in KernelRecord /\ Consistent(k) /\ step[t] \in WaitList /\ AllSuspended(k, step[t])
      /\ k.list[step[t]] # << >>
  BY <1>2, <1>3, ObjFacts, ObjListsFacts DEF DrainOne, KernelRecord
<1>5. Drains(k')
  BY <1>2, <1>4, DrainOneDrains
<1>6. Unlisted(t)
  BY <1>2, CallerUnlisted DEF Linking
<1>7. Stirs(k', {}, t) /\ Shrinks(k')
  BY <1>5, <1>6, DrainsStirs, DrainsRouses, RousesShrinks
<1>8. /\ ~Waiting(t)'
      /\ \A u \in Thread \ {t} : (Waiting(u)' <=> Waiting(u)) /\ step'[u] = step[u]
      /\ \A u \in Thread : Linking(u)' => Linking(u)
  BY QuitPlaces DEF Linking
<1>9. WaitersQuit' /\ HeldKept
  BY <1>1, DrainQuits
<1>10. NoneLeft'
  BY <1>1, <1>2, <1>7, ObjListsFacts DEF NoneLeft, Shrinks
<1>11. LinkingSleeps' /\ k'.cur = k.cur
  <2> DEFINE h == Head(k.list[step[t]])
  <2>1. Wakes(k, k', {h}) /\ h \in Thread /\ h \in Elements(k.list[step[t]])
    BY <1>2, <1>4, DrainOneWakes
  <2> HIDE DEF h
  <2>2. Dozing(h)
    BY <1>3, <2>1 DEF Listed, ObjInv, ListedDoze
  <2>3. ~Linking(h)
    BY <2>2 DEF Dozing, Linking
  <2>4. k'.timer = k.timer /\ k'.cur = k.cur /\ \A u \in Thread : Linking(u) => k'.stat[u] = k.stat[u]
    BY <2>1, <2>3 DEF Wakes
  <2> QED BY <1>1, <1>8, <2>4, LinkingKept
<1>12. Elements(k'.list[Receivers]) \subseteq Elements(k.list[Receivers])
       /\ Elements(k'.list[Senders]) \subseteq Elements(k.list[Senders])
  BY <1>5, DrainsRouses, RousesTakes, MailListFacts DEF MailLists
<1>13. mail' \in [Thread -> Mail \cup {NoMail}] /\ mail'[t] = NoMail
  BY <1>1, <1>2 DEF MailWords
<1> QED BY <1>1, <1>2, <1>7, <1>8, <1>9, <1>10, <1>11, <1>12, <1>13, MailQuiet

LEMMA MailCreated ==
  ASSUME ObjInv, ObjInv', MailReady, object = "mailbox", object' = object, NEW t \in Thread,
         MailCreate(t)
  PROVE  MailReady'
<1>1. WaitersQuit /\ LinkingSleeps /\ NoneLeft /\ MailWords
  BY DEF MailReady
<1>2. /\ InitObject(t) /\ k' = k /\ pc' = pc /\ step' = step /\ mail' = mail /\ entry' = 0
      /\ alive' = TRUE /\ ~alive
  BY DEF MailCreate, InitObject, vars
<1>3. WaitersQuit' /\ HeldKept /\ \A u \in Thread : Held(u) => Linking(u) /\ k.cur # u
  BY <1>1, <1>2, InitQuits
<1>4. LinkingSleeps' /\ NoneLeft'
  BY <1>1, <1>2 DEF LinkingSleeps, Linking, NoneLeft
<1>5. k'.list[Receivers] = << >> /\ k'.list[Senders] = << >>
  BY <1>1, <1>2, MailListFacts DEF NoneLeft, MailLists
<1>6. Stirs(k', {}, NoThread)
  BY <1>2, SameStirs
<1>7. NoThread \notin Thread /\ NoThread \notin Roused
  BY KernelAssumption, AwakeNotRoused
<1>8. \A u \in Thread : Waiting(u)' <=> Waiting(u)
  BY <1>2 DEF Waiting
<1>9. mail' \in [Thread -> Mail \cup {NoMail}]
  BY <1>1, <1>2 DEF MailWords
<1>10. Elements(k'.list[Receivers]) \subseteq Elements(k.list[Receivers])
       /\ Elements(k'.list[Senders]) \subseteq Elements(k.list[Senders])
       /\ \A u \in Thread : Linking(u) /\ k.cur # u => k'.cur # u
  BY <1>2
<1> QED BY <1>2, <1>3, <1>4, <1>5, <1>6, <1>7, <1>8, <1>9, <1>10, MailQuiet

-----------------------------------------------------------------------------
(* The callers of a mailbox, when nobody uses it in between.               *)

LEMMA MailCaller ==
  ASSUME ObjInv, MailReady, "race" \notin Calls, NEW t \in Thread, NEW op, MailCall(t, op)
  PROVE  /\ Running(t) /\ k.lock = 0 /\ pc[t] = "app" /\ CallerAt(t) /\ Unlisted(t) /\ Usable
         /\ Exposed \subseteq {t} /\ mail[t] = NoMail /\ step[t] = "none"
         /\ t \notin Takers /\ t \notin Fillers
<1>1. /\ Running(t) /\ k.lock = 0 /\ pc[t] = "app" /\ t # Idle /\ Usable
      /\ Exposed \subseteq {t}
  BY DEF MailCall, ObjCall, Undisturbed
<1>2. CallerAt(t) /\ Unlisted(t)
  BY <1>1, CallerUnlisted DEF CallerAt, Linking
<1>3. mail[t] = NoMail /\ step[t] = "none"
  BY <1>1 DEF MailReady, MailWords, Waiting, ObjInv, StepsInCalls
<1>4. t \notin Takers /\ t \notin Fillers
  BY <1>1 DEF Takers, Fillers, Roused, Exposed
<1> QED BY <1>1, <1>2, <1>3, <1>4

LEMMA MailWoken ==
  ASSUME ObjInv, MailReady, "race" \notin Calls, NEW t \in Thread, Woken(t), k.error[t] = "EOK",
         Undisturbed(t)
  PROVE  /\ Running(t) /\ k.lock = 0 /\ pc[t] = "waited" /\ CallerAt(t) /\ Unlisted(t) /\ Usable
         /\ Exposed = {} /\ t # Idle
         /\ mail[t] # NoMail => t \notin Takers
         /\ mail[t] = NoMail => t \notin Fillers
<1>1. /\ Running(t) /\ k.lock = 0 /\ pc[t] = "waited" /\ CallerAt(t) /\ Usable /\ t # Idle
      /\ step[t] = "none"
  BY WokenCaller, WokenUsable DEF MailReady, Woken, AtStep
<1>2. Unlisted(t)
  BY <1>1, CallerUnlisted DEF CallerAt
<1>3. Exposed = {}
  BY <1>1 DEF Undisturbed, Exposed
<1>4. (mail[t] # NoMail => t \notin Takers) /\ (mail[t] = NoMail => t \notin Fillers)
  BY <1>3 DEF Takers, Fillers
<1> QED BY <1>1, <1>2, <1>3, <1>4

LEMMA MailHeld ==
  ASSUME ObjInv, MailReady, object = "mailbox", NEW t \in Thread, Running(t),
         pc[t] = "waited", step[t] # "none"
  PROVE  /\ t \in Exposed /\ Exposed \subseteq {t} /\ Usable /\ k.lock = 0
         /\ MayBeExposed(t) /\ t \notin Roused
         /\ step[t] # "link" => CallerAt(t) /\ Unlisted(t)
<1>1. t \in Exposed /\ Exposed \subseteq {t} /\ MayBeExposed(t)
  BY DEF MailReady, MailExposed, Exposed
<1>2. Waiting(t) /\ k.cur = t /\ t \notin Roused
  BY DEF Running, Waiting, Roused
<1>3. ~Quits(t)
  BY <1>2 DEF Quits, Linking
<1>4. Usable /\ k.lock = 0
  BY <1>2, <1>3 DEF MailReady, WaitersQuit, ObjInv, IpcInv, WaitsUnlocked
<1>5. step[t] # "link" => CallerAt(t) /\ Unlisted(t)
  <2>1. step[t] # "link" => ~Linking(t)
    BY DEF Linking
  <2> QED BY <2>1, RunningInCall, CallerUnlisted DEF CallerAt
<1> QED BY <1>1, <1>2, <1>4, <1>5

(* What the sections of calls do to the lists of the mailbox               *)
MailListKept(t, w) ==
  /\ \A u \in Elements(k'.list[w]) : u # t /\ u \in Elements(k.list[w])
  /\ k'.list[w] # << >> => k.list[w] # << >>

LEMMA MailListsSame ==
  ASSUME NEW t, Unlisted(t), \A w \in WaitList : k'.list[w] = k.list[w]
  PROVE  MailListKept(t, Receivers) /\ MailListKept(t, Senders)
BY MailListFacts DEF Unlisted, MailListKept, MailLists

LEMMA MailListsLess ==
  ASSUME ObjInv, NEW t, Unlisted(t), Rouses(k')
  PROVE  MailListKept(t, Receivers) /\ MailListKept(t, Senders)
<1> SUFFICES ASSUME NEW w \in WaitList PROVE MailListKept(t, w)
  BY MailListFacts DEF MailLists
<1>1. Elements(k'.list[w]) \subseteq Elements(k.list[w])
  BY RousesTakes
<1>2. Shrinks(k')
  BY RousesShrinks
<1> QED BY <1>1, <1>2 DEF Unlisted, Shrinks, MailListKept

LEMMA MailWakes ==
  ASSUME ObjInv, MailReady, NEW t \in Thread, CallerAt(t), NEW w \in MailLists,
         k' = WakeFirst(k, w)
  PROVE  /\ Stirs(k', First(w), t)
         /\ MailListKept(t, Receivers) /\ MailListKept(t, Senders)
<1>1. w \in WaitList /\ w \in {Lists[i] : i \in DOMAIN Lists} /\ ListedFresh
  BY MailListFacts DEF MailReady
<1>2. Rouses(k') /\ Unlisted(t)
  BY <1>1, WakeRouses, CallerUnlisted DEF CallerAt
<1> QED BY <1>1, <1>2, WakeFirstEffect, MailListsLess

LEMMA MailBlocks ==
  ASSUME ObjInv, MailReady, NEW t \in Thread, Running(t), k.lock = 0, pc[t] \in {"app", "waited"},
         NEW w \in MailLists, NEW time, k' = Await(t, w, time)
  PROVE  /\ Stirs(k', {}, t) /\ k'.error[t] = "EOK"
         /\ \A u \in Elements(k'.list[w]) : u = t \/ u \in Elements(k.list[w])
         /\ \A v \in MailLists \ {w} : MailListKept(t, v)
<1>1. w \in WaitList /\ w \in {Lists[i] : i \in DOMAIN Lists}
  BY MailListFacts
<1>2. Suspends(k, k', t, w)
  BY <1>1, BlockSuspends
<1>3. Stirs(k', {}, t) /\ k'.error[t] = "EOK"
  BY <1>2, SuspendsStirs
<1>4. \A v \in WaitList : t \notin Elements(k.list[v])
  BY ObjFacts, CallerReady
<1>5. \A v \in MailLists \ {w} : MailListKept(t, v)
  BY <1>2, <1>4, MailListFacts DEF Suspends, MailListKept
<1> QED BY <1>2, <1>3, <1>5 DEF Suspends

(* Those who are woken take or send something.                             *)
LEMMA MailGains ==
  ASSUME ObjInv, MailReady, NEW t, NEW w \in MailLists, Stirs(k', First(w), t),
         \A u \in Thread \ {t} : Still(u)
  PROVE  k.list[w] # << >> =>
           IF w = Receivers THEN \E h \in Takers' : h \notin Takers
           ELSE \E h \in Fillers' : h \notin Fillers
<1> SUFFICES ASSUME k.list[w] # << >>
             PROVE  IF w = Receivers THEN \E h \in Takers' : h \notin Takers
                    ELSE \E h \in Fillers' : h \notin Fillers
  OBVIOUS
<1> DEFINE h == Head(k.list[w])
<1>1. First(w) = {h} /\ h \in Elements(k.list[w])
  BY ObjFacts, MailListFacts, FirstWaiter DEF First
<1> HIDE DEF h
<1>2. IF mail[h] = NoMail THEN h \in Takers' /\ h \notin Takers
      ELSE h \in Fillers' /\ h \notin Fillers
  BY <1>1, SidesMove
<1>3. IF w = Receivers THEN mail[h] = NoMail ELSE mail[h] # NoMail
  BY <1>1 DEF MailReady, MailWords, MailLists
<1> QED BY <1>2, <1>3

LEMMA MailNumbers ==
  ASSUME MailReady
  PROVE  /\ Size \in Nat /\ Size > 0 /\ entry \in 0 .. Size /\ entry \in Nat /\ entry <= Size
         /\ Receivers # Senders /\ NoMail \notin Mail
         /\ mail \in [Thread -> Mail \cup {NoMail}]
<1>1. Size \in Nat \ {0} /\ entry \in 0 .. Size
  BY MailboxAssumption DEF MailReady, MailWords
<1>2. Receivers # Senders /\ NoMail \notin Mail
  BY MailboxAssumption, ObjectAssumption
<1> QED BY <1>1, <1>2 DEF MailReady, MailWords

(* rt_mb_send_wait of a mailbox that is not full                           *)
LEMMA MailSendHears ==
  ASSUME ObjInv, ObjInv', MailReady, object' = object, "race" \notin Calls,
         NEW t \in Thread, NEW v \in Mail, MailSend(t, v)
  PROVE  MailReady'
<1>1. /\ CallerAt(t) /\ Usable /\ Exposed \subseteq {t} /\ mail[t] = NoMail /\ step[t] = "none"
      /\ t \notin Takers
  BY MailCaller DEF MailSend
<1>2. /\ entry # Size /\ entry' = entry + 1 /\ k' = WakeFirst(k, Receivers)
      /\ Goto(t, WakeLabel(Receivers)) /\ alive' = alive /\ step' = step /\ mail' = mail
  BY DEF MailSend, objVars
<1>3. step' = Update(step, t, "none") /\ mail' = Update(mail, t, NoMail)
  BY <1>1, <1>2, MailNumbers DEF ObjInv, ObjTypes, Update
<1>4. /\ Stirs(k', First(Receivers), t)
      /\ MailListKept(t, Receivers) /\ MailListKept(t, Senders)
  BY <1>1, <1>2, MailWakes DEF MailLists
<1>5. WakeLabel(Receivers) \in {"app", "sched"}
  BY WakeLabels
<1>6. \A u \in Thread \ {t} : Still(u)
  BY <1>2, <1>3, <1>5, MailNumbers, MailPlaces, ZenonT(60)
<1>7. k.list[Receivers] # << >> => Gains(Takers, Takers', entry, entry', t)
  BY <1>1, <1>2, <1>4, <1>6, MailGains DEF Gains, MailLists
<1>8. entry' \in 0 .. Size /\ Gains(Fillers, Fillers', Size - entry, Size - entry', t)
  BY <1>2, MailNumbers DEF Gains
<1> QED BY <1>1, <1>2, <1>3, <1>4, <1>5, <1>7, <1>8, MailStays, ZenonT(60) DEF MailListKept

(* A call that suspends its caller in list w                               *)
LEMMA MailBlockHears ==
  ASSUME ObjInv, ObjInv', MailReady, object' = object, Usable, alive' = alive,
         NEW t \in Thread, Running(t), k.lock = 0, pc[t] \in {"app", "waited"},
         Exposed \subseteq {t}, NEW w \in MailLists, NEW time, k' = Await(t, w, time),
         Goto(t, "wait"), step' = [step EXCEPT ![t] = "none"],
         NEW x \in Mail \cup {NoMail}, mail' = Update(mail, t, x), entry' = entry,
         IF w = Receivers THEN x = NoMail /\ entry = 0 /\ t \notin Fillers
         ELSE x # NoMail /\ entry = Size /\ t \notin Takers
  PROVE  MailReady'
<1>1. step' = Update(step, t, "none") /\ entry' \in 0 .. Size
  BY MailNumbers DEF Update
<1>2. CASE w = Receivers
  <2>1. /\ Stirs(k', {}, t) /\ k'.error[t] = "EOK"
        /\ \A u \in Elements(k'.list[Receivers]) : u = t \/ u \in Elements(k.list[Receivers])
        /\ MailListKept(t, Senders)
    BY <1>2, MailBlocks, MailNumbers DEF MailLists
  <2>2. Gains(Fillers, Fillers', Size - entry, Size - entry', t)
    BY <1>2 DEF Gains
  <2> QED BY <1>1, <1>2, <2>1, <2>2, MailStays DEF MailListKept
<1>3. CASE w # Receivers
  <2>1. /\ Stirs(k', {}, t) /\ k'.error[t] = "EOK"
        /\ \A u \in Elements(k'.list[Senders]) : u = t \/ u \in Elements(k.list[Senders])
        /\ MailListKept(t, Receivers)
    BY <1>3, MailBlocks, MailNumbers DEF MailLists
  <2>2. Gains(Takers, Takers', entry, entry', t)
    BY <1>3 DEF Gains
  <2> QED BY <1>1, <1>3, <2>1, <2>2, MailStays DEF MailListKept
<1> QED BY <1>2, <1>3

LEMMA MailSendWaitHears ==
  ASSUME ObjInv, ObjInv', MailReady, object' = object, "race" \notin Calls,
         NEW t \in Thread, NEW v \in Mail, NEW time, MailSendWait(t, v, time)
  PROVE  MailReady'
<1>1. /\ Running(t) /\ k.lock = 0 /\ pc[t] = "app" /\ Usable /\ Exposed \subseteq {t}
      /\ t \notin Takers
  BY MailCaller DEF MailSendWait
<1>2. /\ entry = Size /\ entry' = entry /\ k' = Await(t, Senders, time) /\ Goto(t, "wait")
      /\ step' = [step EXCEPT ![t] = "none"] /\ mail' = Update(mail, t, v) /\ alive' = alive
  BY DEF MailSendWait, Block, ring, Update
<1>3. v # NoMail /\ Senders \in MailLists /\ Senders # Receivers
  BY MailNumbers DEF MailLists
<1> QED BY <1>1, <1>2, <1>3, MailBlockHears

(* A call that returns at once, or after its last wait                     *)
LEMMA MailReturnHears ==
  ASSUME ObjInv, ObjInv', MailReady, object' = object, Usable, alive' = alive,
         NEW t \in Thread, Exposed \subseteq {t}, Unlisted(t),
         Goto(t, "app"), step' = Update(step, t, "none"), mail' = Update(mail, t, NoMail),
         Stirs(k', {}, t), k'.list = k.list, entry' = entry,
         (entry = 0 /\ t \notin Fillers) \/ (entry = Size /\ t \notin Takers)
  PROVE  MailReady'
<1>1. entry' \in 0 .. Size
  BY MailNumbers
<1>2. MailListKept(t, Receivers) /\ MailListKept(t, Senders)
  BY MailListsSame
<1>3. CASE entry = 0 /\ t \notin Fillers
  <2>1. Gains(Fillers, Fillers', Size - entry, Size - entry', t)
    BY <1>3 DEF Gains
  <2> QED BY <1>1, <1>2, <1>3, <2>1, MailStays DEF MailListKept
<1>4. CASE entry = Size /\ t \notin Takers
  <2>1. Gains(Takers, Takers', entry, entry', t)
    BY <1>4 DEF Gains
  <2> QED BY <1>1, <1>2, <1>4, <2>1, MailStays DEF MailListKept
<1> QED BY <1>3, <1>4

(* The loop of rt_mb_send_wait, and what comes after it                    *)
LEMMA MailGoesOn ==
  ASSUME ObjInv, ObjInv', MailReady, object' = object, Usable, alive' = alive,
         NEW t \in Thread, Exposed \subseteq {t}, Unlisted(t), pc[t] = "waited", pc' = pc,
         NEW s \in {"put", "count", "wake", "link"}, GoStep(t, s), mail' = mail, mail[t] # NoMail,
         Stirs(k', {}, t), \A w \in WaitList : k'.list[w] = k.list[w],
         s = "link" => entry' = Size /\ k'.stat[t] = "suspend" /\ ~k'.timer[t],
         s \in {"put", "count"} => entry' < Size,
         entry' \in 0 .. Size, Gains(Takers, Takers', entry, entry', t),
         Gains(Fillers, Fillers', Size - entry, Size - entry', t)
  PROVE  MailReady'
<1>1. /\ pc \in [Thread -> PC] /\ step \in [Thread -> StepName]
      /\ mail \in [Thread -> Mail \cup {NoMail}]
  BY ObjFacts DEF ObjInv, ObjTypes, MailReady, MailWords
<1>2. /\ Goto(t, "waited") /\ step' = Update(step, t, s) /\ mail' = Update(mail, t, mail[t])
      /\ step'[t] = s
  BY <1>1 DEF Goto, GoStep, Update
<1>3. MayBeExposed(t)'
  BY <1>2 DEF MayBeExposed
<1>4. MailListKept(t, Receivers) /\ MailListKept(t, Senders)
  BY MailListsSame
<1>5. mail[t] \in Mail \cup {NoMail} /\ s # "none"
  BY <1>1
<1> QED BY <1>2, <1>3, <1>4, <1>5, MailStays DEF MailListKept

LEMMA MailSendAgainHears ==
  ASSUME ObjInv, ObjInv', MailReady, object = "mailbox", object' = object, "race" \notin Calls,
         NEW t \in Thread, MailSendAgain(t)
  PROVE  MailReady'
<1>1. /\ Woken(t) /\ k.error[t] = "EOK" /\ mail[t] # NoMail /\ step[t] = "none"
      /\ alive' = alive /\ entry' = entry
  BY DEF MailSendAgain, ring, Woken, AtStep
<1>2. /\ Running(t) /\ k.lock = 0 /\ pc[t] = "waited" /\ Usable /\ Exposed = {} /\ Unlisted(t)
      /\ t # Idle /\ t \notin Takers
  BY <1>1, MailWoken DEF MailSendAgain
<1>3. CASE entry # Size /\ GoStep(t, "put") /\ UNCHANGED <<k, pc, mail>>
  <2>1. entry' < Size /\ entry' \in 0 .. Size
    BY <1>1, <1>3, MailNumbers
  <2>2. Stirs(k', {}, t)
    BY <1>3, SameStirs
  <2>3. t \in Fillers'
    BY <1>2, <1>3 DEF Fillers, Exposed, GoStep, ObjInv, ObjTypes
  <2>4. /\ Gains(Takers, Takers', entry, entry', t)
        /\ Gains(Fillers, Fillers', Size - entry, Size - entry', t)
    BY <1>1, <1>2, <2>3 DEF Gains
  <2> QED BY <1>1, <1>2, <1>3, <2>1, <2>2, <2>4, MailGoesOn
<1>4. CASE entry = Size /\ Return(t, "app") /\ mail' = [mail EXCEPT ![t] = NoMail] /\ UNCHANGED k
  <2>1. Stirs(k', {}, t)
    BY <1>4, SameStirs
  <2> QED BY <1>1, <1>2, <1>4, <2>1, MailReturnHears DEF Return, Update
<1>5. CASE entry = Size /\ k' = Suspend(k, t) /\ GoStep(t, "link") /\ UNCHANGED <<pc, mail>>
  <2>1. /\ SameWaits(k, k') /\ k'.stat = Update(k.stat, t, "suspend")
    BY <1>1, <1>2, <1>5, SuspendSection DEF ObjInv, MailSendAgain
  <2>2. k \in KernelRecord /\ Consistent(k) /\ k.stat[t] \in {"ready", "suspend"}
    BY <1>2, ObjFacts, CallerReady
  <2>3. ~k'.timer[t] /\ k'.error = k.error
    <3>1. k'.timer = Disarm(k.timer, t)
      BY <1>5, <2>2, SuspendFacts
    <3>2. k'.error = k.error
      BY <1>5, <2>2, SuspendTakes
    <3> QED BY <2>2, <3>1, <3>2 DEF Disarm, KernelRecord
  <2>4. k'.stat[t] = "suspend" /\ \A u \in Thread \ {t} : k'.stat[u] = k.stat[u]
    BY <2>1, <2>2 DEF Update, KernelRecord
  <2>5. Stirs(k', {}, t)
    BY <2>3, <2>4 DEF Stirs
  <2>6. Gains(Takers, Takers', entry, entry', t) /\ entry' = Size /\ entry' \in 0 .. Size
    BY <1>1, <1>2, <1>5, MailNumbers DEF Gains
  <2>7. Gains(Fillers, Fillers', Size - entry, Size - entry', t)
    BY <1>1, <1>5, MailNumbers DEF Gains
  <2> QED BY <1>1, <1>2, <1>5, <2>1, <2>3, <2>4, <2>5, <2>6, <2>7, MailGoesOn DEF SameWaits
<1> QED BY <1>3, <1>4, <1>5 DEF MailSendAgain

LEMMA MailSendLinkHears ==
  ASSUME ObjInv, ObjInv', MailReady, object = "mailbox", object' = object,
         NEW t \in Thread, MailSendLink(t)
  PROVE  MailReady'
<1>1. /\ Running(t) /\ k.cur = t /\ pc[t] = "waited" /\ step[t] = "link"
      /\ k' = Await(t, Senders, wait[t]) /\ Goto(t, "wait") /\ step' = [step EXCEPT ![t] = "none"]
      /\ alive' = alive /\ mail' = mail /\ entry' = entry
  BY DEF MailSendLink, AtStep, Running, GoStep, mailboxVars
<1>2. /\ Exposed \subseteq {t} /\ Usable /\ k.lock = 0 /\ MayBeExposed(t) /\ t \notin Roused
  BY <1>1, MailHeld
<1>3. entry = Size /\ mail[t] # NoMail /\ t \notin Takers
  BY <1>1, <1>2 DEF MayBeExposed, Takers
<1>4. /\ mail[t] \in Mail \cup {NoMail} /\ mail' = Update(mail, t, mail[t])
      /\ Senders \in MailLists /\ Senders # Receivers
  BY <1>1, MailNumbers DEF Update, MailLists
<1> QED BY <1>1, <1>2, <1>3, <1>4, MailBlockHears

LEMMA MailSendStepHears ==
  ASSUME ObjInv, ObjInv', MailReady, object = "mailbox", object' = object,
         NEW t \in Thread, MailSendPut(t) \/ MailSendCount(t) \/ MailSendWake(t)
  PROVE  MailReady'
<1>1. Running(t) /\ pc[t] = "waited" /\ step[t] \in {"put", "count", "wake"} /\ alive' = alive
  BY DEF MailSendPut, MailSendCount, MailSendWake, AtStep
<1>2. /\ t \in Exposed /\ Exposed \subseteq {t} /\ Usable /\ MayBeExposed(t) /\ t \notin Roused
      /\ CallerAt(t) /\ Unlisted(t)
  BY <1>1, MailHeld
<1>3. mail[t] # NoMail /\ entry \in 0 .. Size /\ Size \in Nat
  BY <1>2, MailNumbers DEF MayBeExposed
<1>4. /\ t \in Takers <=> step[t] = "wake"
      /\ t \in Fillers <=> step[t] \in {"put", "count"}
  BY <1>2 DEF Takers, Fillers
<1>5. CASE MailSendPut(t)
  <2>1. /\ step[t] = "put" /\ GoStep(t, "count") /\ k' = k /\ pc' = pc /\ mail' = mail
        /\ entry' = entry
    BY <1>5 DEF MailSendPut, AtStep, vars
  <2>2. t \in Fillers'
    BY <1>1, <2>1 DEF Fillers, Exposed, GoStep, ObjInv, ObjTypes
  <2>3. entry' < Size
    BY <1>2, <2>1 DEF MayBeExposed
  <2>4. /\ Gains(Takers, Takers', entry, entry', t)
        /\ Gains(Fillers, Fillers', Size - entry, Size - entry', t)
    BY <1>4, <2>1, <2>2 DEF Gains
  <2>5. Stirs(k', {}, t)
    BY <2>1, SameStirs
  <2> QED BY <1>1, <1>2, <1>3, <2>1, <2>3, <2>4, <2>5, MailGoesOn
<1>6. CASE MailSendCount(t)
  <2>1. /\ step[t] = "count" /\ GoStep(t, "wake") /\ k' = k /\ pc' = pc /\ mail' = mail
        /\ entry' = entry + 1
    BY <1>6 DEF MailSendCount, AtStep, vars
  <2>2. t \in Takers' /\ t \notin Takers
    BY <1>1, <1>4, <2>1 DEF Takers, Exposed, GoStep, ObjInv, ObjTypes
  <2>3. entry' \in 0 .. Size
    BY <1>2, <1>3, <2>1 DEF MayBeExposed
  <2>4. /\ Gains(Takers, Takers', entry, entry', t)
        /\ Gains(Fillers, Fillers', Size - entry, Size - entry', t)
    BY <1>3, <2>1, <2>2 DEF Gains
  <2>5. Stirs(k', {}, t)
    BY <2>1, SameStirs
  <2> QED BY <1>1, <1>2, <1>3, <2>1, <2>3, <2>4, <2>5, MailGoesOn
<1>7. CASE MailSendWake(t)
  <2>1. /\ step[t] = "wake" /\ k' = WakeFirst(k, Receivers) /\ Goto(t, WakeLabel(Receivers))
        /\ step' = Update(step, t, "none") /\ mail' = Update(mail, t, NoMail) /\ entry' = entry
    BY <1>7 DEF MailSendWake, AtStep, Return, Update, ring
  <2>2. /\ Stirs(k', First(Receivers), t)
        /\ MailListKept(t, Receivers) /\ MailListKept(t, Senders)
    BY <1>2, <2>1, MailWakes DEF MailLists
  <2>3. WakeLabel(Receivers) \in {"app", "sched"}
    BY WakeLabels
  <2>4. \A u \in Thread \ {t} : Still(u)
    BY <2>1, <2>3, MailNumbers, MailPlaces
  <2>5. k.list[Receivers] # << >> => Gains(Takers, Takers', entry, entry', t)
    BY <2>1, <2>2, <2>4, MailGains DEF Gains, MailLists
  <2>6. Gains(Fillers, Fillers', Size - entry, Size - entry', t)
    BY <1>4, <2>1 DEF Gains
  <2> QED BY <1>1, <1>2, <1>3, <2>1, <2>2, <2>3, <2>5, <2>6, MailStays DEF MailListKept
<1> QED BY <1>5, <1>6, <1>7

(* rt_mb_recv                                                              *)
LEMMA MailTakeHears ==
  ASSUME ObjInv, ObjInv', MailReady, object' = object, Usable, alive' = alive,
         NEW t \in Thread, CallerAt(t), Exposed \subseteq {t}, t \notin Fillers,
         mail[t] = NoMail, mail' = mail, entry # 0, TakeMail(t)
  PROVE  MailReady'
<1>1. /\ k' = WakeFirst(k, Senders) /\ Goto(t, WakeLabel(Senders)) /\ entry' = entry - 1
      /\ step' = Update(step, t, "none")
  BY DEF TakeMail, Return, Update
<1>2. mail' = Update(mail, t, NoMail)
  BY MailNumbers DEF Update
<1>3. /\ Stirs(k', First(Senders), t)
      /\ MailListKept(t, Receivers) /\ MailListKept(t, Senders)
  BY <1>1, MailWakes DEF MailLists
<1>4. WakeLabel(Senders) \in {"app", "sched"}
  BY WakeLabels
<1>5. \A u \in Thread \ {t} : Still(u)
  BY <1>1, <1>2, <1>4, MailNumbers, MailPlaces, ZenonT(60)
<1>6. entry' \in 0 .. Size
  BY <1>1, MailNumbers
<1>7. k.list[Senders] # << >> => Gains(Fillers, Fillers', Size - entry, Size - entry', t)
  <2>1. Size - entry' = Size - entry + 1
    BY <1>1, MailNumbers
  <2> QED BY <1>3, <1>5, <2>1, MailNumbers, MailGains DEF Gains, MailLists
<1>8. Gains(Takers, Takers', entry, entry', t)
  BY <1>1 DEF Gains
<1>9. PICK label \in {"app", "sched"} : Goto(t, label) /\ step' = Update(step, t, "none")
  BY <1>1, <1>4
<1>10. /\ \A u \in Elements(k'.list[Receivers]) : u # t /\ u \in Elements(k.list[Receivers])
       /\ \A u \in Elements(k'.list[Senders]) : u # t /\ u \in Elements(k.list[Senders])
       /\ k'.list[Receivers] # << >> => k.list[Receivers] # << >>
       /\ k'.list[Senders] # << >> => k.list[Senders] # << >>
  BY <1>3 DEF MailListKept
<1>11. /\ k'.list[Receivers] # << >> => k.list[Receivers] # << >> /\ Gains(Takers, Takers', entry, entry', t)
       /\ k'.list[Senders] # << >> =>
            k.list[Senders] # << >> /\ Gains(Fillers, Fillers', Size - entry, Size - entry', t)
  BY <1>7, <1>8, <1>10
<1> QED BY ONLY ObjInv, ObjInv', MailReady, object' = object, Usable, alive' = alive, t \in Thread,
                Exposed \subseteq {t}, <1>2, <1>3, <1>6, <1>9, <1>10, <1>11, MailStays

LEMMA MailRecvHears ==
  ASSUME ObjInv, ObjInv', MailReady, object' = object, "race" \notin Calls,
         NEW t \in Thread, (\E time \in Time : MailRecv(t, time)) \/ MailRecvAgain(t)
  PROVE  MailReady'
<1>1. /\ Running(t) /\ k.lock = 0 /\ pc[t] \in {"app", "waited"} /\ CallerAt(t) /\ Unlisted(t)
      /\ Usable /\ Exposed \subseteq {t} /\ mail[t] = NoMail /\ t \notin Fillers
  BY MailCaller, MailWoken DEF MailRecv, MailRecvAgain
<1>2. alive' = alive /\ mail' = mail
  BY DEF MailRecv, MailRecvAgain
<1>3. mail' = Update(mail, t, NoMail)
  BY <1>1, <1>2, MailNumbers DEF Update
<1>4. CASE entry # 0 /\ TakeMail(t)
  BY <1>1, <1>2, <1>4, MailTakeHears
<1>5. ASSUME NEW time, entry = 0, Block(t, Receivers, time), UNCHANGED <<ring, got>>
      PROVE  MailReady'
  <2>1. /\ k' = Await(t, Receivers, time) /\ Goto(t, "wait") /\ entry' = entry
        /\ step' = [step EXCEPT ![t] = "none"] /\ Receivers \in MailLists
    BY <1>5 DEF Block, ring, MailLists
  <2> QED BY <1>1, <1>2, <1>3, <1>5, <2>1, MailBlockHears
<1>6. CASE /\ entry = 0 /\ Return(t, "app") /\ k' = SetError(k, t, "ETIMEOUT")
           /\ UNCHANGED <<ring, got>>
  <2>1. Stirs(k', {}, t)
    BY <1>6, ErrorStirs DEF Error
  <2>2. k'.list = k.list
    BY <1>6, ObjFacts DEF SetError, KernelRecord
  <2>3. /\ Goto(t, "app") /\ step' = Update(step, t, "none")
        /\ entry' = entry /\ entry = 0
    BY <1>6 DEF Return, Update, ring
  <2> QED BY <1>1, <1>2, <1>3, <1>6, <2>1, <2>2, <2>3, MailReturnHears
<1>7. ASSUME NEW time \in Time, MailRecv(t, time) PROVE MailReady'
  BY <1>4, <1>5, <1>7 DEF MailRecv
<1>8. CASE MailRecvAgain(t)
  BY <1>4, <1>5, <1>6, <1>8 DEF MailRecvAgain
<1> QED BY <1>7, <1>8

LEMMA MailResetHears ==
  ASSUME ObjInv, ObjInv', MailReady, object' = object, "race" \notin Calls,
         NEW t \in Thread, MailReset(t)
  PROVE  MailReady'
<1>1. /\ Unlisted(t) /\ Usable /\ Exposed \subseteq {t} /\ mail[t] = NoMail /\ step[t] = "none"
  BY MailCaller DEF MailReset
<1>2. /\ k' = DrainLists(k) /\ Goto(t, "sched") /\ alive' = alive /\ step' = step /\ mail' = mail
      /\ entry' = 0
  BY DEF MailReset, objVars
<1>3. step' = Update(step, t, "none") /\ mail' = Update(mail, t, NoMail)
  BY <1>1, <1>2, MailNumbers DEF ObjInv, ObjTypes, Update
<1>4. Drains(k') /\ k'.list[Receivers] = << >> /\ k'.list[Senders] = << >>
  BY <1>2, DrainListsDrains, MailListFacts DEF MailLists
<1>5. Stirs(k', {}, t) /\ MailListKept(t, Receivers) /\ MailListKept(t, Senders)
  BY <1>1, <1>4, DrainsStirs, DrainsRouses, MailListsLess
<1>6. entry' \in 0 .. Size
  BY <1>2, MailNumbers
<1> QED BY <1>1, <1>2, <1>3, <1>4, <1>5, <1>6, MailStays DEF MailListKept

(* rt_mb_send in an interrupt                                              *)
LEMMA MailSendIsrHears ==
  ASSUME ObjInv, ObjInv', MailReady, object' = object, "race" \notin Calls,
         NEW v, MailSendIsr(v)
  PROVE  MailReady'
<1>1. /\ IsrCall("isr_send") /\ Usable /\ Exposed = {} /\ entry # Size /\ entry' = entry + 1
      /\ k' = WakeIsr(Receivers) /\ UNCHANGED <<isr, pc, arg, crit, step, alive, mail>>
      /\ WaitersQuit /\ LinkingSleeps /\ NoneLeft /\ ListedFresh /\ MailWords /\ MailHeard
  BY DEF MailSendIsr, IsrCall, objVars, MailReady
<1>2. /\ Stirs(k', First(Receivers), NoThread)
      /\ \A u \in Thread : Dozing(u)' <=> Dozing(u)
  BY <1>1, WakeIsrEffect, MailListFacts DEF MailLists
<1>3. \A u \in Thread : Still(u) /\ (Waiting(u)' <=> Waiting(u)) /\ ~Held(u)'
  BY <1>1, <1>2 DEF Still, Held, Waiting, Exposed
<1>4. MailListKept(NoThread, Receivers) /\ MailListKept(NoThread, Senders)
  <2>1. PICK r : Rouses(r) /\ (WakeIsr(Receivers) = r \/ WakeIsr(Receivers) = Schedule(r))
    BY WakeRouses, MailListFacts DEF MailLists
  <2>2. r \in KernelRecord
    BY <2>1 DEF Rouses, Wakes
  <2>3. k'.list = r.list
    BY <1>1, <2>1, <2>2 DEF Schedule, KernelRecord
  <2>4. \A w \in WaitList : /\ Elements(k'.list[w]) \subseteq Elements(k.list[w])
                            /\ k.list[w] = << >> => k'.list[w] = << >>
    BY <2>1, <2>3, RousesTakes, RousesShrinks DEF Shrinks
  <2> QED BY <2>4, ObjFacts, KernelAssumption, MailListFacts DEF MailListKept, MailLists
<1>5. WaitersQuit' /\ NoneLeft' /\ LinkingSleeps' /\ MailExposed'
  <2>1. Usable'
    BY <1>1 DEF Usable, Detaching
  <2>2. Exposed' = {} /\ \A u \in Thread : ~Linking(u)'
    BY <1>3 DEF Exposed, Held, Linking
  <2> QED BY <2>1, <2>2 DEF WaitersQuit, NoneLeft, Usable, LinkingSleeps, MailExposed
<1>6. entry' \in 0 .. Size
  BY <1>1, MailNumbers
<1>7. MailWords'
  BY <1>1, <1>3, <1>4, <1>6 DEF MailWords, MailListKept
<1>8. ListedFresh' /\ MailHeard'
  <2>1. NoThread \notin Thread /\ NoThread \notin Takers
    BY KernelAssumption DEF Takers, Roused, Exposed
  <2>2. k.list[Receivers] # << >> => Gains(Takers, Takers', entry, entry', NoThread)
    BY <1>1, <1>2, <1>3, <2>1, MailGains DEF Gains, MailLists
  <2>3. Gains(Fillers, Fillers', Size - entry, Size - entry', NoThread)
    BY <1>1, MailNumbers DEF Gains
  <2> QED BY <1>1, <1>2, <1>3, <1>4, <1>6, <2>1, <2>2, <2>3, MailNumbers, MailHeardMore
             DEF MailListKept
<1> QED BY <1>5, <1>7, <1>8 DEF MailReady

LEMMA MailHearsStep ==
  ASSUME ObjInv, ObjInv', MailHears, Ops \cap Meddling = {}, "race" \notin Calls,
         object = "mailbox", object' = object, MailboxNext
  PROVE  MailHears'
<1>1. CASE k.asserted
  BY <1>1 DEF MailboxNext, Halt, vars, MailHears
<1>2. CASE k'.asserted
  BY <1>2 DEF MailHears
<1>3. CASE ~k.asserted /\ ~k'.asserted
  <2>1. MailboxStep /\ MailReady
    BY <1>3 DEF MailboxNext, Halt, MailHears
  <2>2. CASE Next /\ UNCHANGED <<objVars, mailboxVars>>
    BY <1>3, <2>1, <2>2, MailNext DEF MailHears
  <2>3. CASE \E v \in Mail : MailSendIsr(v)
    BY <2>1, <2>3, MailSendIsrHears DEF MailHears
  <2>4. ASSUME NEW t \in Thread, NEW v \in Mail,
               MailSend(t, v) \/ \E time \in Time : MailSendWait(t, v, time)
        PROVE  MailHears'
    BY <2>1, <2>4, MailSendHears, MailSendWaitHears DEF MailHears
  <2>5. ASSUME NEW t \in Thread, \/ MailSendAgain(t) \/ MailSendLink(t) \/ MailSendPut(t)
                                 \/ MailSendCount(t) \/ MailSendWake(t)
        PROVE  MailHears'
    BY <2>1, <2>5, MailSendAgainHears, MailSendLinkHears, MailSendStepHears DEF MailHears
  <2>6. ASSUME NEW t \in Thread,
               (\E time \in Time : MailRecv(t, time)) \/ MailRecvAgain(t) \/ MailReset(t)
        PROVE  MailHears'
    BY <2>1, <2>6, MailRecvHears, MailResetHears DEF MailHears
  <2>7. ASSUME NEW t \in Thread, \/ MailFails(t) \/ MailDetach(t) \/ MailCreate(t)
                                 \/ (DrainTest(t) \/ DrainResume(t)) /\ UNCHANGED mailboxVars
        PROVE  MailHears'
    <3>1. CASE MailFails(t) \/ ((DetachObject(t) \/ DrainTest(t)) /\ UNCHANGED mailboxVars)
      BY <2>1, <3>1, MailQuits DEF MailHears
    <3>2. CASE DrainResume(t) /\ UNCHANGED mailboxVars
      BY <1>3, <2>1, <3>2, MailDrains DEF MailHears
    <3>3. CASE MailCreate(t)
      BY <2>1, <3>3, MailCreated DEF MailHears
    <3> QED BY <2>7, <3>1, <3>2, <3>3 DEF MailDetach
  <2> QED BY <2>1, <2>2, <2>3, <2>4, <2>5, <2>6, <2>7 DEF MailboxStep
<1> QED BY <1>1, <1>2, <1>3

-----------------------------------------------------------------------------
(* The three kinds of object together.                                     *)

(* In the initial state no thread is in a call, and all lists are empty.   *)
NobodyIn ==
  /\ pc = [t \in Thread |-> "app"] /\ alive = TRUE
  /\ \A i \in DOMAIN Lists : Lists[i] \in WaitList /\ k.list[Lists[i]] = << >>

LEMMA NobodyInStart ==
  ASSUME IpcObjectsInit PROVE NobodyIn /\ ObjInv
<1>1. ObjInv /\ pc = [t \in Thread |-> "app"] /\ alive = TRUE
  BY ObjStarts DEF IpcObjectsInit, ObjStart, Init
<1>2. ASSUME NEW i \in DOMAIN Lists PROVE Lists[i] \in WaitList /\ k.list[Lists[i]] = << >>
  <2>1. Lists[i] \in WaitList /\ k \in KernelRecord /\ Elements(k.list[Lists[i]]) \subseteq Thread
    BY <1>1, ObjListsFacts, ObjFacts
  <2>2. \A t \in Thread : ~Dozing(t)
    BY <1>1 DEF Dozing, Waiting
  <2>3. \A t \in Thread : ~Listed(t)
    BY <1>1, <2>2 DEF ObjInv, ListedDoze
  <2>4. Elements(k.list[Lists[i]]) = {}
    BY <2>1, <2>3 DEF Listed
  <2> QED BY <2>1, <2>4, EmptyList
<1> QED BY <1>1, <1>2 DEF NobodyIn

LEMMA NobodyReady ==
  ASSUME NobodyIn
  PROVE  /\ WaitersQuit /\ LinkingSleeps /\ NoneLeft /\ ListedFresh /\ Exposed = {}
         /\ \A t : ~Listed(t)
<1>1. \A t \in Thread : pc[t] = "app"
  BY DEF NobodyIn
<1>2. WaitersQuit /\ LinkingSleeps /\ Exposed = {}
  BY <1>1 DEF WaitersQuit, LinkingSleeps, Linking, Waiting, Exposed
<1>3. NoneLeft
  BY DEF NobodyIn, NoneLeft
<1>4. \A t : ~Listed(t)
  BY DEF NobodyIn, Listed, Elements
<1> QED BY <1>2, <1>3, <1>4 DEF ListedFresh

LEMMA QueueHearsStart ==
  ASSUME IpcObjectsInit PROVE QueueHears
<1>1. NobodyIn /\ k.list[Mq] = << >>
  BY NobodyInStart, MqFacts DEF NobodyIn, MqList
<1> QED BY <1>1, NobodyReady DEF QueueHears, Heard

LEMMA PoolHearsStart ==
  ASSUME IpcObjectsInit PROVE PoolHears
<1>1. NobodyIn /\ k.list[Pool] = << >>
  BY NobodyInStart, PoolFacts DEF NobodyIn
<1>2. suspend_thread_count = 0
  BY DEF IpcObjectsInit, MemPoolInit, PoolReset
<1>3. PoolAlone /\ PoolCounts
  BY <1>1, <1>2 DEF NobodyIn, PoolAlone, PoolCounts
<1> QED BY <1>1, <1>3, NobodyReady DEF PoolHears, PoolReady, Heard

LEMMA MailHearsStart ==
  ASSUME IpcObjectsInit PROVE MailHears
<1>1. NobodyIn /\ k.list[Receivers] = << >> /\ k.list[Senders] = << >>
  BY NobodyInStart, MailboxAssumption DEF NobodyIn
<1>2. entry = 0 /\ mail = [t \in Thread |-> NoMail] /\ Size \in Nat \ {0}
  BY MailboxAssumption DEF IpcObjectsInit, MailboxInit, EmptyRing
<1>3. MailWords
  BY <1>1, <1>2 DEF MailWords, Elements
<1>4. MailExposed /\ MailHeard
  BY <1>1, NobodyReady DEF MailExposed, MailHeard
<1> QED BY <1>1, <1>3, <1>4, NobodyReady DEF MailHears, MailReady

LEMMA HearsSame ==
  ASSUME UNCHANGED <<vars, objVars, objects>>
  PROVE  (QueueHears => QueueHears') /\ (PoolHears => PoolHears') /\ (MailHears => MailHears')
<1>1. /\ k' = k /\ pc' = pc /\ step' = step /\ alive' = alive /\ object' = object
      /\ mq_entry' = mq_entry /\ block_free_count' = block_free_count
      /\ suspend_thread_count' = suspend_thread_count /\ mail' = mail /\ entry' = entry
  BY DEF vars, objVars, objects, mqVars, poolVars, mailboxVars
<1>2. Roused' = Roused /\ Exposed' = Exposed /\ (ListedFresh' <=> ListedFresh)
  BY <1>1 DEF Roused, Exposed, ListedFresh, Listed
<1>3. /\ WaitersQuit' <=> WaitersQuit
      /\ LinkingSleeps' <=> LinkingSleeps
      /\ NoneLeft' <=> NoneLeft
  BY <1>1 DEF WaitersQuit, LinkingSleeps, NoneLeft, Usable, Detaching, Waiting, Quits, Linking
<1>4. QueueHears => QueueHears'
  BY <1>1, <1>2 DEF QueueHears, Heard
<1>5. PoolHears => PoolHears'
  BY <1>1, <1>2, <1>3 DEF PoolHears, PoolReady, PoolAlone, PoolCounts, Heard
<1>6. MailHears => MailHears'
  <2>1. Takers' = Takers /\ Fillers' = Fillers
    BY <1>1, <1>2 DEF Takers, Fillers
  <2>2. (MailWords' <=> MailWords) /\ (MailExposed' <=> MailExposed)
    BY <1>1, <1>2 DEF MailWords, MailExposed, MayBeExposed, Waiting
  <2> QED BY <1>1, <1>2, <1>3, <2>1, <2>2 DEF MailHears, MailReady, MailHeard
<1> QED BY <1>4, <1>5, <1>6

(* The inductive invariant                                                 *)
HearInv ==
  /\ ObjectsInv /\ MqInv /\ PoolInv
  /\ object = "mailbox" => MailHears
  /\ object = "queue" => QueueHears
  /\ object = "pool" => PoolHears

LEMMA HearInvStep ==
  ASSUME HearInv, Ops \cap Meddling = {}, "race" \notin Calls, IpcObjectsNext
  PROVE  HearInv'
<1>1. ObjectsInv' /\ ObjInv /\ ObjInv' /\ object' = object
  BY ObjectsStep DEF HearInv, IpcObjectsNext, ObjectsInv
<1>2. MqInv'
  BY <1>1, MqInvStep, MqInvSame DEF HearInv, IpcObjectsNext
<1>3. PoolInv'
  <2>1. MemPoolNext \/ UNCHANGED poolVars
    BY DEF IpcObjectsNext
  <2> QED BY <2>1, PoolInvStep, PoolInvKept DEF HearInv, poolVars, blocks
<1>4. CASE object = "mailbox"
  <2>1. MailboxNext /\ MailHears
    BY <1>4 DEF IpcObjectsNext, HearInv
  <2>2. MailHears'
    BY <1>1, <1>4, <2>1, MailHearsStep
  <2> QED BY <1>1, <1>2, <1>3, <1>4, <2>2 DEF HearInv
<1>5. CASE object = "queue"
  <2>1. MessageQueueNext /\ QueueHears /\ MqInv
    BY <1>5 DEF IpcObjectsNext, HearInv
  <2>2. QueueHears'
    BY <1>1, <1>2, <1>5, <2>1, QueueHearsStep
  <2> QED BY <1>1, <1>2, <1>3, <1>5, <2>2 DEF HearInv
<1>6. CASE object = "pool"
  <2>1. MemPoolNext /\ PoolHears /\ PoolInv
    BY <1>6 DEF IpcObjectsNext, HearInv
  <2>2. PoolHears'
    BY <1>1, <1>3, <1>6, <2>1, PoolHearsStep
  <2> QED BY <1>1, <1>2, <1>3, <1>6, <2>2 DEF HearInv
<1>7. CASE object \notin {"mailbox", "queue", "pool"}
  BY <1>1, <1>2, <1>3, <1>7 DEF HearInv
<1> QED BY <1>4, <1>5, <1>6, <1>7

LEMMA HearInvSame ==
  ASSUME HearInv, UNCHANGED <<vars, objVars, objects>> PROVE HearInv'
<1>1. object' = object /\ UNCHANGED mqVars /\ UNCHANGED blocks
  BY DEF objects, poolVars, blocks
<1>2. ObjectsInv' /\ MqInv' /\ PoolInv'
  BY <1>1, ObjectsStutter, MqInvSame, PoolInvKept DEF HearInv
<1> QED BY <1>1, <1>2, HearsSame DEF HearInv

LEMMA HearInvSays ==
  ASSUME HearInv PROVE NobodyWaitsInVain
<1>1. object = "mailbox" => NoMailMissed
  BY DEF HearInv, MailHears, MailReady, MailHeard, NoMailMissed, Takers, Fillers
<1>2. object = "queue" => NoMessageMissed
  BY DEF HearInv, QueueHears, Heard, NoMessageMissed
<1>3. object = "pool" => NoBlockMissed
  BY DEF HearInv, PoolHears, PoolReady, PoolCounts, Heard, NoBlockMissed
<1> QED BY <1>1, <1>2, <1>3 DEF NobodyWaitsInVain

(* No wakeup is lost: while a thread waits for a mail, for a slot, for a   *)
(* message or for a block, there are no more of them than threads that     *)
(* rt_mb_send, rt_mb_recv, rt_mq_send or rt_mp_free woke to take them and  *)
(* that have not looked yet, however interrupts, timeouts, resets and a    *)
(* detach come between the sections of the calls.  What it supposes is     *)
(* that nobody else uses a mailbox while a sender that waited is in the    *)
(* part of rt_mb_send_wait that runs with interrupts on by mistake.        *)
THEOREM NoWakeupIsLost ==
  ASSUME Ops \cap Meddling = {}, "race" \notin Calls
  PROVE  IpcObjectsSpec => []NobodyWaitsInVain
<1>1. IpcObjectsInit => HearInv
  BY ObjectsStart, MqInvStart, PoolInvStart, QueueHearsStart, PoolHearsStart, MailHearsStart
  DEF HearInv, IpcObjectsInit
<1>2. HearInv /\ [IpcObjectsNext]_<<vars, objVars, objects>> => HearInv'
  BY HearInvStep, HearInvSame
<1>3. HearInv => NobodyWaitsInVain
  BY HearInvSays
<1> QED BY <1>1, <1>2, <1>3, PTL DEF IpcObjectsSpec

-----------------------------------------------------------------------------
(* A message queue is a bounded queue.                                     *)

(* A thread with a message in its hand that it is to send knows what to    *)
(* write in it, and has written it once it has copied it.                  *)
Contents ==
  /\ body \in [Node -> Body \cup {NoBody}] /\ sending \in [Thread -> Body \cup {NoBody}]
  /\ \A t \in Thread : msg[t] # NoNode =>
       /\ step[t] # "free" => sending[t] \in Body
       /\ step[t] \in {"link", "link_urgent"} => body[msg[t]] = sending[t]

(* What a step of t (NoThread for no thread) leaves the others             *)
HandLeft(u) ==
  /\ msg'[u] = msg[u]
  /\ msg[u] # NoNode => /\ step'[u] = step[u] /\ sending'[u] = sending[u]
                        /\ body'[msg[u]] = body[msg[u]]

LEMMA ContentsMore ==
  ASSUME Contents, NEW t, \A u \in Thread \ {t} : HandLeft(u),
         body' \in [Node -> Body \cup {NoBody}], sending' \in [Thread -> Body \cup {NoBody}],
         msg'[t] # NoNode =>
           /\ step'[t] # "free" => sending'[t] \in Body
           /\ step'[t] \in {"link", "link_urgent"} => body'[msg'[t]] = sending'[t]
  PROVE  Contents'
BY DEF Contents, HandLeft

(* The contents of the messages of a list                                  *)
Bodies(q, b) == [i \in DOMAIN q |-> b[q[i]]]

LEMMA BodiesFacts ==
  ASSUME NEW q \in Seq(Node), NEW b \in [Node -> Body \cup {NoBody}]
  PROVE  /\ Bodies(q, b) \in Seq(Body \cup {NoBody}) /\ Len(Bodies(q, b)) = Len(q)
         /\ \A c : (\A n \in Elements(q) : c[n] = b[n]) => Bodies(q, c) = Bodies(q, b)
         /\ \A n \in Node : Bodies(Append(q, n), b) = Append(Bodies(q, b), b[n])
         /\ \A n \in Node : Bodies(<<n>> \o q, b) = <<b[n]>> \o Bodies(q, b)
         /\ q # << >> => /\ Bodies(q, b) # << >> /\ Head(Bodies(q, b)) = b[Head(q)]
                         /\ Bodies(Tail(q), b) = Tail(Bodies(q, b))
<1> DEFINE d == Bodies(q, b)
<1>1. d \in Seq(Body \cup {NoBody}) /\ Len(d) = Len(q) /\ DOMAIN q = 1 .. Len(q)
      /\ \A i \in 1 .. Len(q) : d[i] = b[q[i]] /\ q[i] \in Node
  BY DEF Bodies
<1>2. ASSUME NEW c, \A n \in Elements(q) : c[n] = b[n] PROVE Bodies(q, c) = d
  BY <1>2 DEF Bodies, Elements
<1>3. ASSUME NEW n \in Node PROVE Bodies(Append(q, n), b) = Append(d, b[n])
  <2>1. DOMAIN Append(q, n) = 1 .. Len(q) + 1 /\ DOMAIN Append(d, b[n]) = 1 .. Len(q) + 1
    BY <1>1
  <2>2. \A i \in 1 .. Len(q) + 1 : Append(d, b[n])[i] = b[Append(q, n)[i]]
    BY <1>1
  <2> QED BY <2>1, <2>2 DEF Bodies
<1>4. ASSUME NEW n \in Node PROVE Bodies(<<n>> \o q, b) = <<b[n]>> \o d
  <2>1. DOMAIN (<<n>> \o q) = 1 .. Len(q) + 1 /\ DOMAIN (<<b[n]>> \o d) = 1 .. Len(q) + 1
    BY <1>1
  <2>2. \A i \in 1 .. Len(q) + 1 : (<<b[n]>> \o d)[i] = b[(<<n>> \o q)[i]]
    BY <1>1
  <2> QED BY <2>1, <2>2 DEF Bodies
<1>5. ASSUME q # << >>
      PROVE  d # << >> /\ Head(d) = b[Head(q)] /\ Bodies(Tail(q), b) = Tail(d)
  <2>1. d # << >> /\ Head(d) = b[Head(q)] /\ Len(q) \in Nat \ {0}
    BY <1>1, <1>5
  <2>2. DOMAIN Tail(q) = 1 .. Len(q) - 1 /\ DOMAIN Tail(d) = 1 .. Len(q) - 1
    BY <1>1, <1>5, <2>1
  <2>3. \A i \in 1 .. Len(q) - 1 : Tail(d)[i] = b[Tail(q)[i]]
    BY <1>1, <1>5, <2>1
  <2> QED BY <2>1, <2>2, <2>3 DEF Bodies
<1> QED BY <1>1, <1>2, <1>3, <1>4, <1>5

(* A message that is in no list leaves room for itself.                    *)
LEMMA RoomForOne ==
  ASSUME NEW q \in Seq(Node), NoRepeat(q), NEW n \in Node, n \notin Elements(q)
  PROVE  Len(q) < Cardinality(Node)
<1>1. IsFiniteSet(Node) /\ Elements(q) \subseteq Node
  BY MessageQueueAssumption DEF Elements
<1>2. IsFiniteSet(Elements(q) \cup {n}) /\ Elements(q) \cup {n} \subseteq Node
  BY <1>1, FS_Subset
<1>3. Cardinality(Elements(q) \cup {n}) = Len(q) + 1
  <2>1. Len(q) = Cardinality(Elements(q)) /\ IsFiniteSet(Elements(q))
    BY ListLength
  <2>2. Cardinality(Elements(q) \cup {n}) = Cardinality(Elements(q)) + 1
    BY ONLY n \notin Elements(q), <2>1, FS_AddElement
  <2> QED BY <2>1, <2>2
<1>4. Cardinality(Elements(q) \cup {n}) <= Cardinality(Node) /\ Cardinality(Node) \in Nat
  BY <1>1, <1>2, FS_Subset, FS_CardinalityType
<1> QED BY <1>3, <1>4

Queued == Bodies(msg_queue, body)

QueueSays == MessagesApart /\ HandsHold /\ WaitersQuit /\ Contents

(* A step of the message queue is one of the bounded queue, or leaves it.  *)
QueueActs == MsgChannel!Next \/ (Queued' = Queued /\ mq_got' = mq_got)

LEMMA QueueActsSend ==
  ASSUME NEW v \in Body, NEW urgent \in BOOLEAN, Len(Queued) < Cardinality(Node),
         Queued' = IF urgent THEN <<v>> \o Queued ELSE Append(Queued, v), mq_got' = mq_got
  PROVE  QueueActs
<1>1. MsgChannel!Send(v) \/ MsgChannel!Urgent(v)
  BY DEF MsgChannel!Send, MsgChannel!Urgent, Queued, Bodies
<1> QED BY <1>1 DEF QueueActs, MsgChannel!Next

LEMMA QueueActsReceive ==
  ASSUME Queued # << >>, mq_got' = Head(Queued), Queued' = Tail(Queued)
  PROVE  QueueActs
<1>1. MsgChannel!Receive
  BY DEF MsgChannel!Receive, Queued, Bodies
<1> QED BY <1>1 DEF QueueActs, MsgChannel!Next

LEMMA QueueActsClear ==
  ASSUME msg_queue' = << >>, mq_got' = mq_got PROVE QueueActs
<1>1. DOMAIN msg_queue' = {}
  OBVIOUS
<1>2. Queued' = << >>
  BY <1>1 DEF Queued, Bodies
<1>3. MsgChannel!Clear
  BY <1>2 DEF MsgChannel!Clear, Queued, Bodies
<1> QED BY <1>3 DEF QueueActs, MsgChannel!Next

LEMMA ApartFacts ==
  ASSUME MessagesApart
  PROVE  /\ msg_queue \in Seq(Node) /\ NoRepeat(msg_queue) /\ mq_entry = Len(msg_queue)
         /\ msg_queue_free \in Seq(Node) /\ Elements(msg_queue) \cap Elements(msg_queue_free) = {}
         /\ msg \in [Thread -> Node \cup {NoNode}] /\ NoNode \notin Node
         /\ \A t \in Thread : msg[t] # NoNode =>
              /\ msg[t] \in Node /\ msg[t] \notin Elements(msg_queue) \cup Elements(msg_queue_free)
              /\ \A u \in Thread \ {t} : msg[u] # msg[t]
         /\ msg_queue_free # << >> => Head(msg_queue_free) \in Elements(msg_queue_free) \cap Node
<1>1. /\ msg_queue \in Seq(Node) /\ NoRepeat(msg_queue) /\ mq_entry = Len(msg_queue)
      /\ msg_queue_free \in Seq(Node) /\ Elements(msg_queue) \cap Elements(msg_queue_free) = {}
      /\ msg \in [Thread -> Node \cup {NoNode}]
      /\ HandsApart(msg, Elements(msg_queue) \cup Elements(msg_queue_free))
  BY DEF MessagesApart, Apart
<1>2. msg_queue_free # << >> => Head(msg_queue_free) \in Elements(msg_queue_free) \cap Node
  <2> SUFFICES ASSUME msg_queue_free # << >>
               PROVE  Head(msg_queue_free) \in Elements(msg_queue_free) \cap Node
    OBVIOUS
  <2>1. 1 \in DOMAIN msg_queue_free /\ Head(msg_queue_free) = msg_queue_free[1]
        /\ msg_queue_free[1] \in Node
    BY <1>1
  <2> QED BY <2>1 DEF Elements
<1> QED BY <1>1, <1>2, MessageQueueAssumption DEF HandsApart

LEMMA QueuedSame ==
  ASSUME msg_queue' = msg_queue, \A n \in Elements(msg_queue) : body'[n] = body[n]
  PROVE  Queued' = Queued
BY DEF Queued, Bodies, Elements

(* Steps that leave the message queue, and the steps of those who have a   *)
(* message in hand                                                         *)
LEMMA QueueLeft ==
  ASSUME QueueSays, UNCHANGED mqVars, \A u \in Thread : Held(u) => step'[u] = step[u]
  PROVE  Contents' /\ QueueActs
<1>1. \A u \in Thread : HandLeft(u)
  BY DEF QueueSays, HandLeft, HandsHold, mqVars
<1>2. Contents'
  BY <1>1 DEF QueueSays, Contents, HandLeft, mqVars
<1> QED BY <1>2 DEF QueueActs, Queued, mqVars

LEMMA QueueSend ==
  ASSUME ObjInv, QueueSays, NEW t \in Thread, NEW v \in Body, NEW urgent \in BOOLEAN,
         MsgSend(t, v, urgent)
  PROVE  Contents' /\ QueueActs
<1>1. /\ msg' = [msg EXCEPT ![t] = Head(msg_queue_free)] /\ msg_queue_free # << >>
      /\ sending' = [sending EXCEPT ![t] = v] /\ body' = body
      /\ step' = [step EXCEPT ![t] = IF urgent THEN "copy_urgent" ELSE "copy"]
      /\ msg_queue' = msg_queue /\ mq_got' = mq_got
  BY DEF MsgSend, GoStep
<1>2. step \in [Thread -> StepName] /\ msg \in [Thread -> Node \cup {NoNode}] /\ Contents
  BY ApartFacts DEF ObjInv, ObjTypes, QueueSays
<1>3. \A u \in Thread \ {t} : HandLeft(u)
  BY <1>1, <1>2 DEF HandLeft, Contents
<1>4. /\ step'[t] \in {"copy", "copy_urgent"} /\ sending'[t] = v
      /\ sending' \in [Thread -> Body \cup {NoBody}] /\ body' \in [Node -> Body \cup {NoBody}]
  BY <1>1, <1>2 DEF Contents
<1>5. Contents'
  BY <1>2, <1>3, <1>4, ContentsMore
<1> QED BY <1>1, <1>5 DEF QueueActs, Queued

LEMMA QueueCopy ==
  ASSUME ObjInv, QueueSays, NEW t \in Thread, MsgCopy(t)
  PROVE  Contents' /\ QueueActs
<1>1. /\ body' = [body EXCEPT ![msg[t]] = sending[t]] /\ sending' = sending /\ msg' = msg
      /\ step' = [step EXCEPT ![t] = IF step[t] = "copy" THEN "link" ELSE "link_urgent"]
      /\ msg_queue' = msg_queue /\ mq_got' = mq_got
      /\ step[t] \in {"copy", "copy_urgent"} /\ Held(t)
  BY DEF MsgCopy, GoStep, mqLists, AtStep, Held
<1>2. step \in [Thread -> StepName] /\ Contents /\ MessagesApart /\ msg[t] # NoNode
  BY <1>1 DEF ObjInv, ObjTypes, QueueSays, HandsHold
<1>3. /\ msg[t] \in Node /\ msg[t] \notin Elements(msg_queue) /\ msg_queue \in Seq(Node)
      /\ \A u \in Thread \ {t} : msg[u] # msg[t]
  BY <1>2, ApartFacts
<1>4. sending[t] \in Body /\ body \in [Node -> Body \cup {NoBody}]
      /\ sending \in [Thread -> Body \cup {NoBody}]
  BY <1>1, <1>2 DEF Contents
<1>5. \A u \in Thread \ {t} : HandLeft(u)
  BY <1>1, <1>2, <1>3, <1>4 DEF HandLeft
<1>6. /\ body' \in [Node -> Body \cup {NoBody}] /\ body'[msg'[t]] = sending'[t]
      /\ \A n \in Elements(msg_queue) : body'[n] = body[n]
  <2>1. body'[msg[t]] = sending[t] /\ \A n : n # msg[t] => body'[n] = body[n]
    BY <1>1, <1>3, <1>4
  <2> QED BY <1>1, <1>3, <1>4, <2>1
<1>7. Contents'
  BY <1>1, <1>2, <1>4, <1>5, <1>6, ContentsMore
<1>8. Queued' = Queued
  BY <1>1, <1>6, QueuedSame
<1> QED BY <1>1, <1>7, <1>8 DEF QueueActs

LEMMA QueueLink ==
  ASSUME ObjInv, QueueSays, NEW t \in Thread, MsgLink(t)
  PROVE  Contents' /\ QueueActs
<1> DEFINE urgent == step[t] = "link_urgent"
           v == sending[t]
<1>1. /\ msg_queue' = QueueWith(msg[t], urgent) /\ body' = body /\ mq_got' = mq_got
      /\ msg' = [msg EXCEPT ![t] = NoNode] /\ sending' = [sending EXCEPT ![t] = NoBody]
      /\ step' = [step EXCEPT ![t] = "none"]
      /\ step[t] \in {"link", "link_urgent"} /\ Held(t)
  BY DEF MsgLink, AtStep, Held, Return
<1>2. step \in [Thread -> StepName] /\ Contents /\ MessagesApart /\ msg[t] # NoNode
  BY <1>1 DEF ObjInv, ObjTypes, QueueSays, HandsHold
<1>3. /\ msg[t] \in Node /\ msg[t] \notin Elements(msg_queue) /\ msg_queue \in Seq(Node)
      /\ NoRepeat(msg_queue) /\ msg \in [Thread -> Node \cup {NoNode}]
  BY <1>2, ApartFacts
<1>4. /\ v \in Body /\ body[msg[t]] = v /\ body \in [Node -> Body \cup {NoBody}]
      /\ sending \in [Thread -> Body \cup {NoBody}]
  BY <1>1, <1>2 DEF Contents
<1>5. \A u \in Thread \ {t} : HandLeft(u)
  BY <1>1, <1>2, <1>3, <1>4 DEF HandLeft
<1>6. msg'[t] = NoNode /\ sending' \in [Thread -> Body \cup {NoBody}]
  BY <1>1, <1>3, <1>4
<1>7. Contents'
  BY <1>1, <1>2, <1>4, <1>5, <1>6, ContentsMore
<1>8. Len(Queued) < Cardinality(Node)
  BY <1>3, <1>4, BodiesFacts, RoomForOne DEF Queued
<1>9. Queued' = IF urgent THEN <<v>> \o Queued ELSE Append(Queued, v)
  <2> DEFINE q == msg_queue
             n == msg[t]
  <2>1. Queued = Bodies(q, body) /\ Queued' = Bodies(QueueWith(n, urgent), body)
    BY <1>1 DEF Queued
  <2>2. QueueWith(n, urgent) = IF urgent THEN <<n>> \o q ELSE Append(q, n)
    BY DEF QueueWith
  <2>3. q \in Seq(Node) /\ n \in Node /\ body[n] = v /\ body \in [Node -> Body \cup {NoBody}]
    BY <1>3, <1>4
  <2> HIDE DEF q, n, v, urgent
  <2>4. /\ Bodies(Append(q, n), body) = Append(Bodies(q, body), v)
        /\ Bodies(<<n>> \o q, body) = <<v>> \o Bodies(q, body)
    BY ONLY <2>3, BodiesFacts
  <2> QED BY ONLY <2>1, <2>2, <2>4
<1>10. urgent \in BOOLEAN
  OBVIOUS
<1> HIDE DEF urgent, v
<1> QED BY <1>1, <1>4, <1>7, <1>8, <1>9, <1>10, QueueActsSend

LEMMA QueueSendIsr ==
  ASSUME ObjInv, QueueSays, NEW v \in Body, MsgSendIsr(v)
  PROVE  Contents' /\ QueueActs
<1> DEFINE n == Head(msg_queue_free)
<1>1. /\ msg_queue_free # << >> /\ msg_queue' = Append(msg_queue, n)
      /\ body' = [body EXCEPT ![n] = v]
      /\ mq_got' = mq_got /\ msg' = msg /\ sending' = sending /\ step' = step
  BY DEF MsgSendIsr, QueueWith, objVars
<1>2. Contents /\ MessagesApart
  BY DEF QueueSays
<1>3. /\ n \in Node /\ n \in Elements(msg_queue_free) /\ n \notin Elements(msg_queue)
      /\ msg_queue \in Seq(Node) /\ NoRepeat(msg_queue)
      /\ \A u \in Thread : msg[u] # NoNode => msg[u] # n /\ msg[u] \in Node
  BY <1>1, <1>2, ApartFacts
<1> HIDE DEF n
<1>4. body \in [Node -> Body \cup {NoBody}] /\ sending \in [Thread -> Body \cup {NoBody}]
  BY <1>2 DEF Contents
<1>5. \A u \in Thread : HandLeft(u)
  BY <1>1, <1>3, <1>4 DEF HandLeft
<1>6. /\ body' \in [Node -> Body \cup {NoBody}] /\ body'[n] = v
      /\ \A m \in Elements(msg_queue) : body'[m] = body[m]
  <2>1. body'[n] = v /\ \A m : m # n => body'[m] = body[m]
    BY <1>1, <1>3, <1>4
  <2> QED BY <1>1, <1>3, <1>4, <2>1
<1>7. Contents'
  BY <1>1, <1>2, <1>4, <1>5, <1>6 DEF Contents, HandLeft
<1>8. Len(Queued) < Cardinality(Node)
  BY <1>3, <1>4, BodiesFacts, RoomForOne DEF Queued
<1>9. Queued' = Append(Queued, v)
  <2>1. Bodies(msg_queue, body') = Queued
    BY <1>6 DEF Queued, Bodies, Elements
  <2>2. PICK b \in [Node -> Body \cup {NoBody}] : b = body'
    BY <1>6
  <2>3. Bodies(Append(msg_queue, n), b) = Append(Bodies(msg_queue, b), b[n])
    BY <1>3, BodiesFacts
  <2>4. Queued' = Bodies(msg_queue', body')
    BY DEF Queued
  <2> QED BY <1>1, <1>6, <2>1, <2>2, <2>3, <2>4
<1> QED BY <1>1, <1>7, <1>8, <1>9, QueueActsSend

LEMMA QueueTake ==
  ASSUME ObjInv, QueueSays, NEW t \in Thread, mq_entry # 0, TakeMsg(t),
         UNCHANGED <<body, sending>>
  PROVE  Contents' /\ QueueActs
<1>1. /\ msg_queue' = Tail(msg_queue) /\ mq_got' = body[Head(msg_queue)]
      /\ msg' = [msg EXCEPT ![t] = Head(msg_queue)] /\ step' = [step EXCEPT ![t] = "free"]
  BY DEF TakeMsg, GoStep
<1>2. /\ step \in [Thread -> StepName] /\ Contents /\ MessagesApart
      /\ msg_queue \in Seq(Node) /\ mq_entry = Len(msg_queue)
      /\ msg \in [Thread -> Node \cup {NoNode}]
  BY ApartFacts DEF ObjInv, ObjTypes, QueueSays
<1>3. msg_queue # << >>
  BY <1>2
<1>4. \A u \in Thread \ {t} : HandLeft(u)
  BY <1>1, <1>2 DEF HandLeft
<1>5. step'[t] = "free"
  BY <1>1, <1>2
<1>6. body \in [Node -> Body \cup {NoBody}] /\ sending \in [Thread -> Body \cup {NoBody}]
  BY <1>2 DEF Contents
<1>7. Contents'
  BY <1>2, <1>4, <1>5, <1>6, ContentsMore
<1>8. Queued # << >> /\ mq_got' = Head(Queued) /\ Queued' = Tail(Queued)
  BY <1>1, <1>2, <1>3, <1>6, BodiesFacts DEF Queued
<1> QED BY <1>7, <1>8, QueueActsReceive

LEMMA QueueFree ==
  ASSUME ObjInv, QueueSays, NEW t \in Thread, MsgFree(t)
  PROVE  Contents' /\ QueueActs
<1>1. /\ body' = [body EXCEPT ![msg[t]] = NoBody] /\ sending' = sending
      /\ msg' = [msg EXCEPT ![t] = NoNode] /\ step' = [step EXCEPT ![t] = "none"]
      /\ msg_queue' = msg_queue /\ mq_got' = mq_got /\ Held(t)
  BY DEF MsgFree, Return, AtStep, Held
<1>2. step \in [Thread -> StepName] /\ Contents /\ MessagesApart /\ msg[t] # NoNode
  BY <1>1 DEF ObjInv, ObjTypes, QueueSays, HandsHold
<1>3. /\ msg[t] \in Node /\ msg[t] \notin Elements(msg_queue) /\ msg_queue \in Seq(Node)
      /\ msg \in [Thread -> Node \cup {NoNode}]
      /\ \A u \in Thread \ {t} : msg[u] # msg[t]
  BY <1>2, ApartFacts
<1>4. body \in [Node -> Body \cup {NoBody}] /\ sending \in [Thread -> Body \cup {NoBody}]
  BY <1>2 DEF Contents
<1>5. \A u \in Thread \ {t} : HandLeft(u)
  BY <1>1, <1>2, <1>3, <1>4 DEF HandLeft
<1>6. /\ body' \in [Node -> Body \cup {NoBody}] /\ msg'[t] = NoNode
      /\ \A n \in Elements(msg_queue) : body'[n] = body[n]
  <2>1. \A n : n # msg[t] => body'[n] = body[n]
    BY <1>1, <1>3, <1>4
  <2> QED BY <1>1, <1>3, <1>4, <2>1
<1>7. Contents'
  BY <1>1, <1>2, <1>4, <1>5, <1>6, ContentsMore
<1>8. Queued' = Queued
  BY <1>1, <1>6, QueuedSame
<1> QED BY <1>1, <1>7, <1>8 DEF QueueActs

LEMMA QueueEmptied ==
  ASSUME ObjInv, QueueSays, object = "queue", object' = object,
         NEW t \in Thread, MsgReset(t) \/ MsgCreate(t)
  PROVE  Contents' /\ QueueActs
<1>1. Contents /\ MessagesApart /\ msg' = msg /\ sending' = sending /\ step' = step
      /\ msg_queue' = << >> /\ mq_got' = mq_got
  BY DEF QueueSays, MsgReset, MsgCreate, InitObject, objVars
<1>2. CASE MsgReset(t)
  <2>1. body' = [n \in Node |-> IF n \in Elements(msg_queue) THEN NoBody ELSE body[n]]
    BY <1>2 DEF MsgReset
  <2>2. \A u \in Thread : msg[u] # NoNode => msg[u] \in Node /\ msg[u] \notin Elements(msg_queue)
    BY <1>1, ApartFacts
  <2> QED BY <1>1, <2>1, <2>2, QueueActsClear DEF Contents
<1>3. CASE MsgCreate(t)
  <2>1. \A u \in Thread : ~Held(u)
    BY <1>3, InitQuits, QueueLinksNot DEF MsgCreate, QueueSays
  <2>2. \A u \in Thread : msg[u] = NoNode
    BY <2>1 DEF QueueSays, HandsHold
  <2>3. body' = [n \in Node |-> NoBody]
    BY <1>3 DEF MsgCreate
  <2> QED BY <1>1, <2>2, <2>3, QueueActsClear DEF Contents
<1> QED BY <1>2, <1>3

LEMMA QueueStep ==
  ASSUME ObjInv, QueueSays, Ops \cap Meddling = {}, object = "queue", object' = object,
         MessageQueueNext
  PROVE  Contents' /\ QueueActs
<1>1. WaitersQuit
  BY DEF QueueSays
<1>2. CASE Next /\ UNCHANGED <<objVars, mqVars>>
  BY <1>2, QueueLeft DEF objVars
<1>3. ASSUME NEW v \in Body, MsgSendIsr(v) PROVE Contents' /\ QueueActs
  BY <1>3, QueueSendIsr
<1>4. ASSUME NEW t \in Thread, NEW v \in Body, NEW urgent \in BOOLEAN, MsgSend(t, v, urgent)
      PROVE  Contents' /\ QueueActs
  BY <1>4, QueueSend
<1>5. ASSUME NEW t \in Thread, MsgCopy(t) \/ MsgLink(t) \/ MsgFree(t)
      PROVE  Contents' /\ QueueActs
  BY <1>5, QueueCopy, QueueLink, QueueFree
<1>6. ASSUME NEW t \in Thread, (\E time \in Time : MsgRecv(t, time)) \/ MsgRecvAgain(t)
      PROVE  Contents' /\ QueueActs
  <2>1. /\ UNCHANGED <<body, sending>> /\ msg_queue_free' = msg_queue_free
        /\ ~Held(t)
    <3>1. pc[t] = "app" \/ step[t] = "none"
      BY <1>6 DEF MsgRecv, MsgRecvAgain, ObjCall, Woken, AtStep
    <3> QED BY <1>6, <3>1 DEF MsgRecv, MsgRecvAgain, Held
  <2>2. CASE mq_entry # 0 /\ TakeMsg(t)
    BY <2>1, <2>2, QueueTake
  <2>3. CASE /\ (\E time : Block(t, Mq, time)) \/ Return(t, "app")
             /\ UNCHANGED <<mq_entry, msg_queue, msg, mq_got>>
    <3>1. step' = [step EXCEPT ![t] = "none"]
      BY <2>3 DEF Block, Return
    <3>2. \A u \in Thread : Held(u) => step'[u] = step[u]
      BY <2>1, <3>1
    <3> QED BY <2>1, <2>3, <3>2, QueueLeft DEF mqVars
  <2> QED BY <1>6, <2>2, <2>3 DEF MsgRecv, MsgRecvAgain
<1>7. ASSUME NEW t \in Thread, \/ (WaitFails(t) \/ DrainTest(t) \/ DrainResume(t)) /\ UNCHANGED mqVars
                               \/ MsgDetach(t)
      PROVE  Contents' /\ QueueActs
  <2>1. UNCHANGED mqVars
    BY <1>7 DEF MsgDetach
  <2>2. \A u \in Thread : Held(u) => step'[u] = step[u]
    <3>1. step' = step \/ (~Held(t) /\ \E s : step' = [step EXCEPT ![t] = s])
      <4>1. CASE WaitFails(t)
        BY <4>1 DEF WaitFails, Return, Woken, AtStep, Held
      <4>2. CASE DrainTest(t) \/ DrainResume(t)
        BY <4>2 DEF DrainTest, DrainResume, GoStep, Held
      <4>3. CASE MsgDetach(t)
        BY <4>3 DEF MsgDetach, DetachObject, objVars
      <4> QED BY <1>7, <4>1, <4>2, <4>3
    <3> QED BY <3>1 DEF ObjInv, ObjTypes
  <2> QED BY <2>1, <2>2, QueueLeft
<1>8. ASSUME NEW t \in Thread, MsgReset(t) \/ MsgCreate(t) PROVE Contents' /\ QueueActs
  BY <1>8, QueueEmptied
<1>9. CASE Halt /\ UNCHANGED mqVars
  BY <1>9, QueueLeft DEF Halt, objVars
<1> QED BY <1>2, <1>3, <1>4, <1>5, <1>6, <1>7, <1>8, <1>9 DEF MessageQueueNext, MessageQueueStep

(* A message queue delivers each message once, with the contents that it   *)
(* was sent with, in the order in which they were linked, the urgent ones  *)
(* first: although rt_mq_send and rt_mq_recv copy contents with interrupts *)
(* on, and messages are used again, each step is one of module Channel.    *)
THEOREM QueueImplementsChannel ==
  ASSUME Ops \cap Meddling = {} PROVE IpcObjectsSpec => QueueIsChannel
<1> DEFINE Inv == ObjectsInv /\ MqInv /\ (object = "queue" => Contents)
<1>1. IpcObjectsInit => Inv /\ MsgChannel!Init
  <2> SUFFICES ASSUME IpcObjectsInit PROVE Inv /\ MsgChannel!Init
    OBVIOUS
  <2>1. /\ body = [n \in Node |-> NoBody] /\ sending = [t \in Thread |-> NoBody]
        /\ msg = [t \in Thread |-> NoNode] /\ msg_queue = << >> /\ mq_got = NoBody
    BY DEF IpcObjectsInit, MessageQueueInit
  <2>2. Contents
    BY <2>1 DEF Contents
  <2>3. MsgChannel!Init
    BY <2>1 DEF MsgChannel!Init
  <2> QED BY <2>2, <2>3, ObjectsStart, MqInvStart
<1>2. ASSUME Inv, IpcObjectsNext PROVE Inv' /\ QueueActs
  <2>1. ObjectsInv' /\ object' = object /\ ObjInv
    BY <1>2, ObjectsStep DEF IpcObjectsNext, ObjectsInv
  <2>2. MqInv'
    BY <1>2, <2>1, MqInvStep, MqInvSame DEF IpcObjectsNext
  <2>3. CASE object = "queue"
    <3>1. MessageQueueNext /\ QueueSays
      BY <1>2, <2>3 DEF IpcObjectsNext, MqInv, QueueSays
    <3>2. Contents' /\ QueueActs
      BY <2>1, <2>3, <3>1, QueueStep
    <3> QED BY <2>1, <2>2, <3>2
  <2>4. CASE object # "queue"
    <3>1. UNCHANGED mqVars
      BY <1>2, <2>4 DEF IpcObjectsNext
    <3>2. QueueActs
      BY <3>1 DEF mqVars, QueueActs, Queued
    <3> QED BY <2>1, <2>2, <2>4, <3>2
  <2> QED BY <2>3, <2>4
<1>3. ASSUME Inv, UNCHANGED <<vars, objVars, objects>> PROVE Inv' /\ QueueActs
  <2>1. object' = object /\ UNCHANGED mqVars /\ step' = step
    BY <1>3 DEF objects, objVars
  <2>2. ObjectsInv' /\ MqInv'
    BY <1>3, <2>1, ObjectsStutter, MqInvSame
  <2>3. (Contents => Contents') /\ QueueActs
    BY <2>1 DEF Contents, mqVars, QueueActs, Queued
  <2> QED BY <1>3, <2>1, <2>2, <2>3
<1>4. Inv /\ [IpcObjectsNext]_<<vars, objVars, objects>> => Inv'
  BY <1>2, <1>3
<1>5. Inv /\ [IpcObjectsNext]_<<vars, objVars, objects>>
        => [MsgChannel!Next]_<<[i \in DOMAIN msg_queue |-> body[msg_queue[i]]], mq_got>>
  BY <1>2, <1>3 DEF QueueActs, Queued, Bodies
<1> QED BY <1>1, <1>4, <1>5, PTL DEF IpcObjectsSpec, QueueIsChannel, MsgChannel!Spec

-----------------------------------------------------------------------------
(* A mailbox is a bounded queue.                                           *)

(* Counting around the ring                                                *)
LEMMA RoundOnce ==
  ASSUME NEW x \in Int, x >= 0, x < 2 * Size
  PROVE  x % Size = IF x < Size THEN x ELSE x - Size
<1>1. Size \in Nat \ {0}
  BY MailboxAssumption
<1>2. x % Size \in 0 .. Size - 1 /\ x = Size * (x \div Size) + (x % Size)
  BY <1>1
<1> QED BY <1>1, <1>2

(* The slot that is i behind slot o, and n words of the ring p from o on    *)
Slot(o, i) == (o + i) % Size
Words(p, o, n) == [i \in 1 .. n |-> p[(o + i - 1) % Size]]

Pools == [0 .. Size - 1 -> Mail \cup {NoMail}]

LEMMA SlotFacts ==
  ASSUME NEW o \in 0 .. Size - 1
  PROVE  /\ \A i \in 0 .. Size : Slot(o, i) \in 0 .. Size - 1
         /\ \A i \in 0 .. Size - 1 : After(Slot(o, i)) = Slot(o, i + 1)
         /\ \A i \in 0 .. Size - 1 : Slot(After(o), i) = Slot(o, i + 1)
         /\ \A i, j \in 0 .. Size - 1 : Slot(o, i) = Slot(o, j) => i = j
         /\ Slot(o, 0) = o /\ Slot(o, Size) = o /\ After(o) \in 0 .. Size - 1
<1>1. Size \in Nat \ {0}
  BY MailboxAssumption
<1>2. \A i \in 0 .. Size : Slot(o, i) = IF o + i < Size THEN o + i ELSE o + i - Size
  BY <1>1, RoundOnce DEF Slot
<1>3. /\ After(o) \in 0 .. Size - 1
      /\ After(o) = IF o + 1 >= Size THEN 0 ELSE o + 1
  BY <1>1 DEF After
<1>4. \A i \in 0 .. Size - 1 : Slot(After(o), i) =
        IF After(o) + i < Size THEN After(o) + i ELSE After(o) + i - Size
  BY <1>1, <1>3, RoundOnce DEF Slot
<1>5. \A i \in 0 .. Size - 1 : After(Slot(o, i)) = Slot(o, i + 1)
  BY <1>1, <1>2 DEF After
<1>6. \A i \in 0 .. Size - 1 : Slot(After(o), i) = Slot(o, i + 1)
  BY <1>1, <1>2, <1>3, <1>4
<1> QED BY <1>1, <1>2, <1>3, <1>5, <1>6

LEMMA WordsFacts ==
  ASSUME NEW p \in Pools, NEW o \in 0 .. Size - 1, NEW n \in 0 .. Size
  PROVE  /\ Words(p, o, n) \in Seq(Mail \cup {NoMail}) /\ Len(Words(p, o, n)) = n
         /\ DOMAIN Words(p, o, n) = 1 .. n
         /\ \A i \in 1 .. n : Words(p, o, n)[i] = p[Slot(o, i - 1)]
<1>1. Size \in Nat \ {0}
  BY MailboxAssumption
<1>2. \A i \in 1 .. n : o + i - 1 = o + (i - 1) /\ i - 1 \in 0 .. Size
  BY <1>1
<1>3. \A i \in 1 .. n : Words(p, o, n)[i] = p[Slot(o, i - 1)]
  BY <1>2 DEF Words, Slot
<1>4. \A i \in 1 .. n : Words(p, o, n)[i] \in Mail \cup {NoMail}
  BY <1>1, <1>2, <1>3, SlotFacts DEF Pools
<1>5. DOMAIN Words(p, o, n) = 1 .. n /\ n \in Nat
  BY <1>1 DEF Words
<1>6. Words(p, o, n) \in [1 .. n -> Mail \cup {NoMail}]
  BY <1>4, <1>5 DEF Words
<1> QED BY <1>3, <1>5, <1>6

(* A word written in the slot behind the last one is the last one if it is *)
(* counted, and not there if it is not.                                    *)
Written(p, o, n, v) ==
  LET q == Update(p, Slot(o, n), v)
  IN  /\ q \in Pools /\ q[Slot(o, n)] = v
      /\ Words(q, o, n) = Words(p, o, n)
      /\ Words(q, o, n + 1) = Append(Words(p, o, n), v)

LEMMA WordsWritten ==
  ASSUME NEW p \in Pools, NEW o \in 0 .. Size - 1, NEW n \in 0 .. Size - 1, NEW v \in Mail
  PROVE  Written(p, o, n, v)
<1> DEFINE q == Update(p, Slot(o, n), v)
<1>1. Size \in Nat \ {0} /\ n \in 0 .. Size /\ n + 1 \in 0 .. Size
  BY MailboxAssumption
<1>2. /\ \A i \in 0 .. Size : Slot(o, i) \in 0 .. Size - 1
      /\ \A i \in 0 .. n - 1 : Slot(o, i) # Slot(o, n)
  <2>1. \A i \in 0 .. n - 1 : i \in 0 .. Size - 1 /\ i # n
    BY <1>1
  <2>2. /\ \A i \in 0 .. Size : Slot(o, i) \in 0 .. Size - 1
        /\ \A i, j \in 0 .. Size - 1 : Slot(o, i) = Slot(o, j) => i = j
    BY SlotFacts
  <2> QED BY <2>1, <2>2
<1>3. q \in Pools /\ q[Slot(o, n)] = v
  BY <1>1, <1>2 DEF Pools, Update
<1>4. \A i \in 1 .. n : q[Slot(o, i - 1)] = p[Slot(o, i - 1)]
  BY <1>1, <1>2 DEF Pools, Update
<1>5. Words(q, o, n) = Words(p, o, n)
  <2>1. /\ \A i \in 1 .. n : Words(p, o, n)[i] = p[Slot(o, i - 1)]
        /\ \A i \in 1 .. n : Words(q, o, n)[i] = q[Slot(o, i - 1)]
    BY <1>1, <1>3, WordsFacts
  <2>2. \A i \in 1 .. n : Words(q, o, n)[i] = Words(p, o, n)[i]
    BY <1>4, <2>1
  <2> QED BY <2>2 DEF Words
<1>6. Words(q, o, n + 1) = Append(Words(p, o, n), v)
  <2> DEFINE w == Words(p, o, n)
             r == Words(q, o, n + 1)
  <2>1. /\ r \in Seq(Mail \cup {NoMail}) /\ Len(r) = n + 1
        /\ \A i \in 1 .. n + 1 : r[i] = q[Slot(o, i - 1)]
    BY <1>1, <1>3, WordsFacts
  <2>2. /\ w \in Seq(Mail \cup {NoMail}) /\ Len(w) = n
        /\ \A i \in 1 .. n : w[i] = p[Slot(o, i - 1)]
    BY <1>1, WordsFacts
  <2> HIDE DEF w, r
  <2>3. Append(w, v) \in Seq(Mail \cup {NoMail}) /\ Len(Append(w, v)) = n + 1
    BY <2>2
  <2>4. \A i \in 1 .. n + 1 : Append(w, v)[i] = r[i]
    <3>1. Append(w, v)[n + 1] = v /\ \A i \in 1 .. n : Append(w, v)[i] = w[i]
      BY <2>2
    <3>2. r[n + 1] = v
      BY <1>1, <1>3, <2>1
    <3>3. \A i \in 1 .. n : r[i] = w[i]
      BY <1>1, <1>4, <2>1, <2>2
    <3>4. \A i \in 1 .. n + 1 : i = n + 1 \/ i \in 1 .. n
      BY <1>1
    <3> QED BY <3>1, <3>2, <3>3, <3>4
  <2>5. Append(w, v) = r
    BY <2>1, <2>3, <2>4
  <2> QED BY <2>5 DEF w, r
<1> QED BY <1>3, <1>5, <1>6 DEF Written

LEMMA WordsTaken ==
  ASSUME NEW p \in Pools, NEW o \in 0 .. Size - 1, NEW n \in 1 .. Size
  PROVE  /\ Words(p, o, n) # << >> /\ Head(Words(p, o, n)) = p[o]
         /\ Words(p, After(o), n - 1) = Tail(Words(p, o, n))
<1> DEFINE w == Words(p, o, n)
           r == Words(p, After(o), n - 1)
<1>1. Size \in Nat \ {0} /\ n \in 0 .. Size /\ n - 1 \in 0 .. Size
  BY MailboxAssumption
<1>2. /\ w \in Seq(Mail \cup {NoMail}) /\ Len(w) = n
      /\ \A i \in 1 .. n : w[i] = p[Slot(o, i - 1)]
  BY <1>1, WordsFacts
<1>3. After(o) \in 0 .. Size - 1 /\ Slot(o, 0) = o
      /\ \A i \in 0 .. Size - 1 : Slot(After(o), i) = Slot(o, i + 1)
  BY SlotFacts
<1>4. /\ r \in Seq(Mail \cup {NoMail}) /\ Len(r) = n - 1
      /\ \A i \in 1 .. n - 1 : r[i] = p[Slot(After(o), i - 1)]
  BY <1>1, <1>3, WordsFacts
<1> HIDE DEF w, r
<1>5. w # << >> /\ Head(w) = p[o]
  BY <1>1, <1>2, <1>3
<1>6. Tail(w) \in Seq(Mail \cup {NoMail}) /\ Len(Tail(w)) = n - 1
      /\ \A i \in 1 .. n - 1 : Tail(w)[i] = w[i + 1]
  BY <1>1, <1>2, <1>5
<1>7. \A i \in 1 .. n - 1 : Tail(w)[i] = r[i]
  <2> SUFFICES ASSUME NEW i \in 1 .. n - 1 PROVE Tail(w)[i] = r[i]
    OBVIOUS
  <2>1. i - 1 \in 0 .. Size - 1 /\ i - 1 + 1 = i /\ i + 1 \in 1 .. n /\ i + 1 - 1 = i
    BY <1>1
  <2>2. Slot(After(o), i - 1) = Slot(o, i)
    BY <1>3, <2>1
  <2>3. w[i + 1] = p[Slot(o, i)]
    BY <1>2, <2>1
  <2> QED BY <1>4, <1>6, <2>2, <2>3
<1>8. Tail(w) = r
  BY <1>4, <1>6, <1>7
<1> QED BY <1>5, <1>8 DEF w, r

(* The sender that has written its word in the ring and not counted it yet *)
Counting == {t \in Exposed : step[t] = "count"}

Ring ==
  /\ in_offset \in 0 .. Size - 1 /\ out_offset \in 0 .. Size - 1 /\ msg_pool \in Pools
  /\ Counting = {} => in_offset = Slot(out_offset, entry)
  /\ \A t \in Counting : /\ in_offset = Slot(out_offset, entry + 1)
                         /\ msg_pool[Slot(out_offset, entry)] = mail[t]

(* A step of the mailbox is one of the bounded queue, or leaves it.        *)
MailActs == MailChannel!Next \/ (Mails' = Mails /\ got' = got)

LEMMA MailsAreWords == Mails = Words(msg_pool, out_offset, entry)
BY DEF Mails, Words

LEMMA MailActsSend ==
  ASSUME NEW v \in Mail, Len(Mails) < Size, Mails' = Append(Mails, v), got' = got
  PROVE  MailActs
<1>1. MailChannel!Send(v)
  BY DEF MailChannel!Send
<1> QED BY <1>1 DEF MailActs, MailChannel!Next

LEMMA MailActsReceive ==
  ASSUME Mails # << >>, got' = Head(Mails), Mails' = Tail(Mails)
  PROVE  MailActs
<1>1. MailChannel!Receive
  BY DEF MailChannel!Receive
<1> QED BY <1>1 DEF MailActs, MailChannel!Next

(* The mailbox is emptied.                                                 *)
LEMMA RingEmptied ==
  ASSUME Counting' = {}, entry' = 0, in_offset' = 0, out_offset' = 0, got' = got, msg_pool' \in Pools
  PROVE  Ring' /\ MailActs
<1>1. 0 \in 0 .. Size - 1 /\ Slot(0, 0) = 0
  BY MailboxAssumption, SlotFacts
<1>2. Ring'
  BY <1>1 DEF Ring
<1>3. Mails' = << >>
  BY DEF Mails
<1>4. MailChannel!Clear
  BY <1>3 DEF MailChannel!Clear
<1> QED BY <1>2, <1>4 DEF MailActs, MailChannel!Next

(* The ring and the sender that is counting its word are left as they are. *)
LEMMA RingLeft ==
  ASSUME Ring, UNCHANGED <<ring, got>>, Counting' = Counting,
         \A t \in Counting : mail'[t] = mail[t]
  PROVE  Ring' /\ MailActs
<1>1. Ring'
  BY DEF Ring, ring
<1> QED BY <1>1 DEF MailActs, Mails, ring

(* A word is written while no other one is to be counted, and counted at   *)
(* once, or to be counted.                                                 *)
LEMMA RingWritten ==
  ASSUME Ring, Counting = {}, entry \in 0 .. Size - 1, NEW v \in Mail, PutMail(v),
         out_offset' = out_offset, got' = got,
         \/ entry' = entry + 1 /\ Counting' = {}
         \/ entry' = entry /\ \E t : Counting' = {t} /\ mail'[t] = v
  PROVE  Ring' /\ MailActs
<1> DEFINE o == out_offset
           q == msg_pool'
<1>1. /\ o \in 0 .. Size - 1 /\ msg_pool \in Pools /\ in_offset = Slot(o, entry)
      /\ q = [msg_pool EXCEPT ![Slot(o, entry)] = v] /\ in_offset' = After(Slot(o, entry))
      /\ Size \in Nat \ {0} /\ entry \in 0 .. Size /\ entry + 1 \in 0 .. Size
  BY MailboxAssumption DEF Ring, PutMail
<1>2. /\ q \in Pools /\ q[Slot(o, entry)] = v
      /\ Words(q, o, entry) = Words(msg_pool, o, entry)
      /\ Words(q, o, entry + 1) = Append(Words(msg_pool, o, entry), v)
  <2>1. q = Update(msg_pool, Slot(o, entry), v)
    BY <1>1 DEF Update
  <2>2. o \in 0 .. Size - 1 /\ msg_pool \in Pools /\ entry \in 0 .. Size - 1 /\ v \in Mail
    BY <1>1
  <2> HIDE DEF q, o
  <2>3. \A x \in Mail : Written(msg_pool, o, entry, x)
    BY ONLY <2>2, WordsWritten
  <2> QED BY ONLY <2>1, <2>2, <2>3 DEF Written
<1>3. in_offset' = Slot(o, entry + 1) /\ in_offset' \in 0 .. Size - 1
  BY <1>1, SlotFacts
<1>4. Len(Mails) = entry /\ Mails = Words(msg_pool, o, entry)
  BY <1>1, WordsFacts, MailsAreWords
<1>5. Mails' = Words(q, o, entry')
  BY DEF Mails, Words
<1> HIDE DEF q
<1>6. CASE entry' = entry + 1 /\ Counting' = {}
  <2>1. Ring'
    BY <1>1, <1>2, <1>3, <1>6 DEF Ring, q
  <2>2. Mails' = Append(Mails, v) /\ Len(Mails) < Size
    <3>1. Mails' = Words(q, o, entry + 1)
      BY <1>5, <1>6
    <3>2. entry < Size
      BY <1>1
    <3> QED BY <1>2, <1>4, <3>1, <3>2
  <2> QED BY <2>1, <2>2, MailActsSend
<1>7. CASE entry' = entry /\ \E t : Counting' = {t} /\ mail'[t] = v
  <2>1. Ring'
    BY <1>1, <1>2, <1>3, <1>7 DEF Ring, q
  <2>2. Mails' = Mails
    BY <1>2, <1>4, <1>5, <1>7
  <2> QED BY <2>1, <2>2 DEF MailActs
<1> QED BY <1>6, <1>7

(* The word that was written is counted.                                   *)
LEMMA RingCounted ==
  ASSUME Ring, NEW t, Counting = {t}, Counting' = {}, entry \in 0 .. Size - 1, entry' = entry + 1,
         mail[t] \in Mail, UNCHANGED <<msg_pool, in_offset, out_offset, got>>
  PROVE  Ring' /\ MailActs
<1> DEFINE o == out_offset
           p == msg_pool
<1>1. /\ o \in 0 .. Size - 1 /\ p \in Pools /\ in_offset = Slot(o, entry + 1)
      /\ p[Slot(o, entry)] = mail[t] /\ in_offset \in 0 .. Size - 1
      /\ Size \in Nat \ {0} /\ entry \in 0 .. Size
  BY MailboxAssumption DEF Ring
<1>2. p = Update(p, Slot(o, entry), mail[t])
  BY <1>1, SlotFacts DEF Pools, Update
<1>3. Words(p, o, entry + 1) = Append(Words(p, o, entry), mail[t])
  <2>1. Written(p, o, entry, mail[t])
    BY <1>1, WordsWritten
  <2> QED BY <1>2, <2>1 DEF Written
<1>4. Len(Mails) = entry /\ Mails = Words(p, o, entry)
  BY <1>1, WordsFacts, MailsAreWords
<1>5. Mails' = Words(p, o, entry + 1)
  BY DEF Mails, Words
<1>6. Ring'
  BY <1>1 DEF Ring
<1> QED BY <1>1, <1>3, <1>4, <1>5, <1>6, MailActsSend

(* A word is taken.                                                        *)
LEMMA RingTaken ==
  ASSUME Ring, Counting = {}, Counting' = {}, entry \in 1 .. Size, entry' = entry - 1,
         got' = msg_pool[out_offset], out_offset' = After(out_offset),
         UNCHANGED <<msg_pool, in_offset>>
  PROVE  Ring' /\ MailActs
<1> DEFINE o == out_offset
           p == msg_pool
<1>1. /\ o \in 0 .. Size - 1 /\ p \in Pools /\ in_offset = Slot(o, entry)
      /\ in_offset \in 0 .. Size - 1 /\ Size \in Nat \ {0}
      /\ entry - 1 \in 0 .. Size - 1 /\ entry - 1 + 1 = entry
  BY MailboxAssumption DEF Ring
<1>2. After(o) \in 0 .. Size - 1 /\ Slot(After(o), entry - 1) = Slot(o, entry)
  BY <1>1, SlotFacts
<1>3. Ring'
  BY <1>1, <1>2 DEF Ring
<1>4. Mails' = Words(p, After(o), entry - 1) /\ Mails = Words(p, o, entry)
  BY DEF Mails, Words
<1>5. Mails # << >> /\ got' = Head(Mails) /\ Mails' = Tail(Mails)
  BY <1>1, <1>4, WordsTaken
<1> QED BY <1>3, <1>5, MailActsReceive

(* The steps of the mailbox                                                *)
MailSays == MailReady /\ Ring

(* Every thread stays where it is in the part of rt_mb_send_wait that      *)
(* writes and counts, or is not there.                                     *)
LEMMA RingQuiet ==
  ASSUME Ring, UNCHANGED <<ring, got>>,
         \A u \in Thread : /\ Held(u)' /\ step'[u] = "count" <=> Held(u) /\ step[u] = "count"
                           /\ Held(u) /\ step[u] = "count" => mail'[u] = mail[u]
  PROVE  Ring' /\ MailActs
<1>1. Counting' = Counting /\ \A u \in Counting : mail'[u] = mail[u]
  BY DEF Counting, Exposed, Held
<1> QED BY <1>1, RingLeft

LEMMA RingNext ==
  ASSUME ObjInv, MailSays, Ops \cap Meddling = {}, object' = object,
         Next, UNCHANGED <<objVars, mailboxVars>>
  PROVE  Ring' /\ MailActs
<1>1. HeldKept
  BY NextQuits DEF MailSays, MailReady
<1> QED BY <1>1, RingQuiet DEF MailSays, HeldKept, objVars, mailboxVars, ring

(* A sender that finds room, and a device interrupt that does              *)
LEMMA RingSend ==
  ASSUME ObjInv, MailSays, "race" \notin Calls,
         NEW v \in Mail, MailSendIsr(v) \/ \E t \in Thread : MailSend(t, v)
  PROVE  Ring' /\ MailActs
<1>1. /\ PutMail(v) /\ entry' = entry + 1 /\ entry # Size /\ out_offset' = out_offset
      /\ got' = got /\ mail' = mail /\ step' = step
  BY DEF MailSendIsr, MailSend, objVars
<1>2. entry \in 0 .. Size - 1 /\ Ring
  BY <1>1, MailboxAssumption DEF MailSays, MailReady, MailWords
<1>3. Exposed = {} /\ Exposed' = {}
  <2>1. CASE MailSendIsr(v)
    BY <2>1 DEF MailSendIsr, Exposed, objVars
  <2>2. ASSUME NEW t \in Thread, MailSend(t, v) PROVE Exposed = {} /\ Exposed' = {}
    <3>1. pc[t] = "app" /\ Exposed \subseteq {t} /\ step[t] = "none"
      BY <2>2, MailCaller DEF MailSend, MailSays
    <3>2. Exposed = {}
      BY <3>1 DEF Exposed
    <3>3. \A u \in Thread \ {t} : pc'[u] = pc[u]
      BY <2>2, ObjFacts DEF MailSend, Goto
    <3> QED BY <1>1, <3>1, <3>2, <3>3 DEF Exposed
  <2> QED BY <2>1, <2>2
<1>4. Counting = {} /\ Counting' = {}
  BY <1>3 DEF Counting
<1> QED BY <1>1, <1>2, <1>4, RingWritten

(* The statements of rt_mb_send_wait after a wait                          *)
LEMMA RingSendStep ==
  ASSUME ObjInv, MailSays, "race" \notin Calls, object = "mailbox",
         NEW t \in Thread, MailSendPut(t) \/ MailSendCount(t)
  PROVE  Ring' /\ MailActs
<1>1. Running(t) /\ pc[t] = "waited" /\ step[t] \in {"put", "count"} /\ MailReady /\ Ring
  BY DEF MailSendPut, MailSendCount, AtStep, MailSays
<1>2. t \in Exposed /\ Exposed \subseteq {t} /\ MayBeExposed(t)
  BY <1>1, MailHeld
<1>3. entry \in 0 .. Size - 1 /\ mail[t] \in Mail /\ step \in [Thread -> StepName]
  BY <1>1, <1>2, MailboxAssumption DEF MailReady, MailWords, MayBeExposed, ObjInv, ObjTypes
<1>4. CASE MailSendPut(t)
  <2>1. /\ PutMail(mail[t]) /\ entry' = entry /\ out_offset' = out_offset /\ got' = got
        /\ mail' = mail /\ pc' = pc /\ step' = [step EXCEPT ![t] = "count"] /\ step[t] = "put"
    BY <1>4 DEF MailSendPut, GoStep, vars, AtStep
  <2>2. Counting = {} /\ Counting' = {t}
    BY <1>1, <1>2, <1>3, <2>1 DEF Counting, Exposed
  <2> QED BY <1>1, <1>3, <2>1, <2>2, RingWritten
<1>5. CASE MailSendCount(t)
  <2>1. /\ entry' = entry + 1 /\ UNCHANGED <<msg_pool, in_offset, out_offset, got>>
        /\ pc' = pc /\ step' = [step EXCEPT ![t] = "wake"] /\ step[t] = "count"
    BY <1>5 DEF MailSendCount, GoStep, vars, AtStep
  <2>2. Counting = {t} /\ Counting' = {}
    BY <1>1, <1>2, <1>3, <2>1 DEF Counting, Exposed
  <2> QED BY <1>1, <1>3, <2>1, <2>2, RingCounted
<1> QED BY <1>4, <1>5

LEMMA RingTake ==
  ASSUME ObjInv, MailSays, "race" \notin Calls, object = "mailbox", NEW t \in Thread, TakeMail(t), entry # 0,
         Exposed = {}
  PROVE  Ring' /\ MailActs
<1>1. entry \in 1 .. Size /\ Ring
  BY MailboxAssumption DEF MailSays, MailReady, MailWords
<1>2. /\ got' = msg_pool[out_offset] /\ out_offset' = After(out_offset) /\ entry' = entry - 1
      /\ UNCHANGED <<msg_pool, in_offset>> /\ Return(t, WakeLabel(Senders))
  BY DEF TakeMail
<1>3. Exposed' = {}
  <2>1. pc' = [pc EXCEPT ![t] = WakeLabel(Senders)] /\ step' = [step EXCEPT ![t] = "none"]
    BY <1>2 DEF Return, Goto
  <2>2. pc \in [Thread -> PC] /\ step \in [Thread -> StepName]
    BY ObjFacts DEF ObjInv, ObjTypes
  <2> QED BY <2>1, <2>2 DEF Exposed
<1>4. Counting = {} /\ Counting' = {}
  BY <1>3 DEF Counting
<1> QED BY <1>1, <1>2, <1>4, RingTaken

(* One thread moves, neither from the count nor to it.                     *)
LEMMA RingMoves ==
  ASSUME ObjInv, Ring, UNCHANGED <<ring, got>>, NEW t \in Thread, NEW label, NEW s, NEW v,
         Goto(t, label) \/ (pc' = pc /\ label = "waited"), pc[t] = "waited" => step[t] # "count",
         step' = [step EXCEPT ![t] = s], label = "waited" => s # "count",
         mail \in [Thread -> Mail \cup {NoMail}], mail' = mail \/ mail' = [mail EXCEPT ![t] = v]
  PROVE  Ring' /\ MailActs
<1>1. pc \in [Thread -> PC] /\ step \in [Thread -> StepName]
  BY ObjFacts DEF ObjInv, ObjTypes
<1>2. \A u \in Thread \ {t} : pc'[u] = pc[u] /\ step'[u] = step[u] /\ mail'[u] = mail[u]
  BY <1>1 DEF Goto
<1>3. step'[t] = s /\ (pc'[t] = "waited" => s # "count")
  BY <1>1 DEF Goto
<1> QED BY <1>2, <1>3, RingQuiet DEF Held

(* rt_mb_send_wait suspends its caller, looks again after a wakeup, or     *)
(* wakes a receiver.                                                       *)
LEMMA RingSendWait ==
  ASSUME ObjInv, MailSays, "race" \notin Calls, NEW t \in Thread,
         \/ \E v \in Mail, time \in Time : MailSendWait(t, v, time)
         \/ MailSendAgain(t) \/ MailSendLink(t) \/ MailSendWake(t)
  PROVE  Ring' /\ MailActs
<1>1. Ring /\ MailReady /\ mail \in [Thread -> Mail \cup {NoMail}]
  BY DEF MailSays, MailReady, MailWords
<1>2. pc[t] = "waited" => step[t] # "count"
  BY DEF MailSendWait, MailCall, ObjCall, MailSendAgain, Woken, MailSendLink, MailSendWake, AtStep
<1>3. UNCHANGED <<ring, got>>
  BY DEF MailSendWait, MailSendAgain, MailSendLink, MailSendWake, mailboxVars, ring
<1>4. PICK v, label, s :
        /\ Goto(t, label) \/ (pc' = pc /\ label = "waited")
        /\ step' = [step EXCEPT ![t] = s] /\ (label = "waited" => s # "count")
        /\ mail' = mail \/ mail' = [mail EXCEPT ![t] = v]
  <2>1. ASSUME NEW v \in Mail, NEW time \in Time, MailSendWait(t, v, time)
        PROVE  Goto(t, "wait") /\ step' = [step EXCEPT ![t] = "none"] /\ mail' = [mail EXCEPT ![t] = v]
    BY <2>1 DEF MailSendWait, Block
  <2>2. CASE MailSendAgain(t)
    <3>1. CASE GoStep(t, "put") /\ UNCHANGED <<k, pc, mail>>
      <4>1. step' = [step EXCEPT ![t] = "put"] /\ pc' = pc /\ mail' = mail
        BY <3>1 DEF GoStep
      <4> QED BY <4>1
    <3>2. CASE Return(t, "app") /\ mail' = [mail EXCEPT ![t] = NoMail]
      <4>1. Goto(t, "app") /\ step' = [step EXCEPT ![t] = "none"]
        BY <3>2 DEF Return
      <4> WITNESS NoMail, "app", "none"
      <4> QED BY <3>2, <4>1
    <3>3. CASE GoStep(t, "link") /\ UNCHANGED <<pc, mail>>
      <4>1. step' = [step EXCEPT ![t] = "link"] /\ pc' = pc /\ mail' = mail
        BY <3>3 DEF GoStep
      <4> QED BY <4>1
    <3> QED BY <2>2, <3>1, <3>2, <3>3 DEF MailSendAgain
  <2>3. MailSendLink(t) => Goto(t, "wait") /\ step' = [step EXCEPT ![t] = "none"] /\ mail' = mail
    BY DEF MailSendLink, GoStep, mailboxVars
  <2>4. MailSendWake(t) =>
          /\ Goto(t, WakeLabel(Receivers)) /\ step' = [step EXCEPT ![t] = "none"]
          /\ mail' = [mail EXCEPT ![t] = NoMail]
    BY DEF MailSendWake, Return
  <2> QED BY <2>1, <2>2, <2>3, <2>4
<1> QED BY <1>1, <1>2, <1>3, <1>4, RingMoves

LEMMA RingRecv ==
  ASSUME ObjInv, MailSays, "race" \notin Calls, object = "mailbox", NEW t \in Thread,
         (\E time \in Time : MailRecv(t, time)) \/ MailRecvAgain(t)
  PROVE  Ring' /\ MailActs
<1>1. Ring /\ MailReady /\ mail \in [Thread -> Mail \cup {NoMail}] /\ mail' = mail
  BY DEF MailSays, MailReady, MailWords, MailRecv, MailRecvAgain
<1>2. Exposed = {} /\ (pc[t] = "waited" => step[t] = "none")
  <2>1. ASSUME NEW time, MailRecv(t, time) PROVE Exposed = {} /\ pc[t] = "app"
    BY <1>1, <2>1, MailCaller DEF MailRecv, Exposed
  <2>2. MailRecvAgain(t) => Exposed = {} /\ step[t] = "none"
    BY <1>1, MailWoken DEF MailRecvAgain, Woken, AtStep
  <2> QED BY <2>1, <2>2
<1>3. CASE entry # 0 /\ TakeMail(t)
  BY <1>2, <1>3, RingTake
<1>4. CASE ((\E time : Block(t, Receivers, time)) \/ Return(t, "app")) /\ UNCHANGED <<ring, got>>
  <2>1. PICK label \in {"wait", "app"} : Goto(t, label) /\ step' = [step EXCEPT ![t] = "none"]
    BY <1>4 DEF Block, Return
  <2> QED BY <1>1, <1>2, <1>4, <2>1, RingMoves
<1> QED BY <1>3, <1>4 DEF MailRecv, MailRecvAgain

LEMMA RingFresh ==
  ASSUME ObjInv, MailSays, "race" \notin Calls, object = "mailbox", object' = object,
         NEW t \in Thread, MailReset(t) \/ MailCreate(t)
  PROVE  Ring' /\ MailActs
<1>1. /\ entry' = 0 /\ in_offset' = 0 /\ out_offset' = 0 /\ got' = got /\ step' = step
      /\ MailReady /\ Ring
  BY DEF MailReset, MailCreate, InitObject, objVars, MailSays
<1>2. CASE MailReset(t)
  <2>1. Exposed = {} /\ pc[t] = "app" /\ Goto(t, "sched")
    BY <1>1, <1>2, MailCaller DEF MailReset, Exposed
  <2>2. Counting' = {}
    <3>1. pc' = [pc EXCEPT ![t] = "sched"] /\ pc \in [Thread -> PC]
      BY <2>1, ObjFacts DEF Goto
    <3> QED BY <1>1, <2>1, <3>1 DEF Counting, Exposed
  <2> QED BY <1>1, <1>2, <2>2, RingEmptied DEF MailReset, Ring
<1>3. CASE MailCreate(t)
  <2>1. HeldKept /\ \A u \in Thread : Held(u) => Linking(u)
    BY <1>1, <1>3, InitQuits DEF MailCreate, MailReady
  <2>2. Counting' = {}
    BY <1>1, <2>1 DEF HeldKept, Held, Linking, Counting, Exposed
  <2>3. msg_pool' \in Pools
    BY <1>3 DEF MailCreate, Pools
  <2> QED BY <1>1, <2>2, <2>3, RingEmptied
<1> QED BY <1>2, <1>3

LEMMA RingQuits ==
  ASSUME ObjInv, MailSays, object' = object, NEW t \in Thread,
         \/ MailFails(t) \/ MailDetach(t)
         \/ (DrainTest(t) \/ DrainResume(t)) /\ UNCHANGED mailboxVars
  PROVE  Ring' /\ MailActs
<1>1. Ring /\ MailReady /\ WaitersQuit /\ mail \in [Thread -> Mail \cup {NoMail}]
  BY DEF MailSays, MailReady, MailWords
<1>2. HeldKept /\ UNCHANGED <<ring, got>>
  <2>1. HeldKept
    BY <1>1, DrainQuits, DetachQuits DEF MailFails, MailDetach
  <2> QED BY <2>1 DEF MailFails, MailDetach, mailboxVars, ring
<1>3. ~Held(t)
  BY DEF MailFails, WaitFails, Woken, AtStep, MailDetach, DetachObject, ObjCall, DrainTest,
         DrainResume, Held
<1>4. \A u \in Thread \ {t} : step'[u] = step[u] /\ mail'[u] = mail[u]
  <2>1. \A u \in Thread \ {t} : step'[u] = step[u]
    BY QuitPlaces DEF MailFails, MailDetach
  <2> QED BY <1>1, <2>1 DEF MailFails, MailDetach, mailboxVars
<1> QED BY <1>1, <1>2, <1>3, <1>4, RingQuiet DEF HeldKept

LEMMA RingStep ==
  ASSUME ObjInv, MailSays, Ops \cap Meddling = {}, "race" \notin Calls,
         object = "mailbox", object' = object, MailboxStep
  PROVE  Ring' /\ MailActs
<1>1. CASE Next /\ UNCHANGED <<objVars, mailboxVars>>
  BY <1>1, RingNext
<1>2. ASSUME NEW v \in Mail, MailSendIsr(v) \/ \E t \in Thread : MailSend(t, v)
      PROVE  Ring' /\ MailActs
  BY <1>2, RingSend
<1>3. ASSUME NEW t \in Thread,
             \/ \E v \in Mail, time \in Time : MailSendWait(t, v, time)
             \/ MailSendAgain(t) \/ MailSendLink(t) \/ MailSendWake(t)
      PROVE  Ring' /\ MailActs
  BY <1>3, RingSendWait
<1>4. ASSUME NEW t \in Thread, MailSendPut(t) \/ MailSendCount(t) PROVE Ring' /\ MailActs
  BY <1>4, RingSendStep
<1>5. ASSUME NEW t \in Thread, (\E time \in Time : MailRecv(t, time)) \/ MailRecvAgain(t)
      PROVE  Ring' /\ MailActs
  BY <1>5, RingRecv
<1>6. ASSUME NEW t \in Thread, MailReset(t) \/ MailCreate(t) PROVE Ring' /\ MailActs
  BY <1>6, RingFresh
<1>7. ASSUME NEW t \in Thread, \/ MailFails(t) \/ MailDetach(t)
                               \/ (DrainTest(t) \/ DrainResume(t)) /\ UNCHANGED mailboxVars
      PROVE  Ring' /\ MailActs
  BY <1>7, RingQuits
<1> QED BY <1>1, <1>2, <1>3, <1>4, <1>5, <1>6, <1>7 DEF MailboxStep

(* A mailbox delivers each word once, in the order in which they were      *)
(* sent, and never holds more than its size: each step of rt_mb_send,      *)
(* rt_mb_send_wait and rt_mb_recv is one of module Channel or leaves the   *)
(* channel as it is, also where a sender that waited writes its word and   *)
(* counts it with interrupts on, as long as nobody else uses the mailbox   *)
(* in between.                                                             *)
THEOREM MailboxImplementsChannel ==
  ASSUME Ops \cap Meddling = {}, "race" \notin Calls PROVE IpcObjectsSpec => MailboxIsChannel
<1> DEFINE Inv == HearInv /\ (object = "mailbox" /\ ~k.asserted => Ring)
<1>1. IpcObjectsInit => Inv /\ MailChannel!Init
  <2> SUFFICES ASSUME IpcObjectsInit PROVE Inv /\ MailChannel!Init
    OBVIOUS
  <2>1. HearInv
    BY ObjectsStart, MqInvStart, PoolInvStart, QueueHearsStart, PoolHearsStart, MailHearsStart
       DEF HearInv, IpcObjectsInit
  <2>2. /\ entry = 0 /\ in_offset = 0 /\ out_offset = 0 /\ got = NoMail
        /\ msg_pool = [i \in 0 .. Size - 1 |-> NoMail]
    BY DEF IpcObjectsInit, MailboxInit, EmptyRing
  <2>3. Counting = {}
    BY NobodyInStart DEF NobodyIn, Counting, Exposed
  <2>4. 0 \in 0 .. Size - 1 /\ Slot(0, 0) = 0
    BY MailboxAssumption, SlotFacts
  <2>5. Ring
    BY <2>2, <2>3, <2>4 DEF Ring, Pools
  <2>6. MailChannel!Init
    BY <2>2 DEF MailChannel!Init, Mails
  <2> QED BY <2>1, <2>5, <2>6
<1>2. ASSUME Inv, IpcObjectsNext PROVE Inv' /\ MailActs
  <2>1. HearInv' /\ object' = object /\ ObjInv
    BY <1>2, HearInvStep DEF IpcObjectsNext, HearInv, ObjectsInv
  <2>2. CASE object = "mailbox" /\ ~k.asserted
    <3>1. MailboxStep /\ MailSays
      BY <1>2, <2>2 DEF IpcObjectsNext, MailboxNext, Halt, HearInv, MailHears, MailSays
    <3> QED BY <2>1, <2>2, <3>1, RingStep
  <2>3. CASE ~(object = "mailbox" /\ ~k.asserted)
    <3>1. UNCHANGED mailboxVars
      BY <1>2, <2>3 DEF IpcObjectsNext, MailboxNext
    <3>2. object = "mailbox" => k'.asserted
      BY <1>2, <2>3 DEF IpcObjectsNext, MailboxNext, Halt, vars
    <3>3. MailActs
      BY <3>1 DEF mailboxVars, MailActs, Mails
    <3> QED BY <2>1, <3>2, <3>3
  <2> QED BY <2>2, <2>3
<1>3. ASSUME Inv, UNCHANGED <<vars, objVars, objects>> PROVE Inv' /\ MailActs
  <2>1. object' = object /\ UNCHANGED mailboxVars /\ step' = step /\ pc' = pc /\ k' = k
    BY <1>3 DEF objects, objVars, vars
  <2>2. HearInv'
    BY <1>3, HearInvSame
  <2>3. (Ring => Ring') /\ MailActs
    BY <2>1 DEF Ring, Counting, Exposed, mailboxVars, MailActs, Mails
  <2> QED BY <1>3, <2>1, <2>2, <2>3
<1>4. Inv /\ [IpcObjectsNext]_<<vars, objVars, objects>> => Inv'
  BY <1>2, <1>3
<1>5. Inv /\ [IpcObjectsNext]_<<vars, objVars, objects>>
        => [MailChannel!Next]_<<Mails, got>>
  BY <1>2, <1>3 DEF MailActs
<1> QED BY <1>1, <1>4, <1>5, PTL DEF IpcObjectsSpec, MailboxIsChannel, MailChannel!Spec

=============================================================================
