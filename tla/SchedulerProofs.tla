--------------------------- MODULE SchedulerProofs ---------------------------
(***************************************************************************)
(* The safety of the scheduler, for any set of threads, any number of      *)
(* priorities and any choice of calls, provided that no timer ends between *)
(* two sections of a call on its thread (CalmSpec).  First the facts       *)
(* about the operators of module Kernel: what unlinking and inserting a    *)
(* thread do to the lists, and that each kernel function keeps the lists,  *)
(* the bitmap and the masks consistent.  Then that the scheduler           *)
(* implements its policy, and at the end the wait lists of IPC objects:    *)
(* the lemmas that the proofs about the objects rest on.                   *)
(***************************************************************************)
EXTENDS Ipc, ListLemmas

-----------------------------------------------------------------------------
(* Lists of threads.                                                       *)

QueueLists == [Queue -> Seq(Thread)]

Once(list) ==
  /\ \A q \in Queue : NoRepeat(list[q])
  /\ \A q, r \in Queue : q # r => Elements(list[q]) \cap Elements(list[r]) = {}

Nowhere(list, t) == \A q \in Queue : t \notin Elements(list[q])

(* The list q after a change keeps the first element of the list s before. *)
SameHead(s, r) == s # << >> => r # << >> /\ r[1] = s[1]

(* rt_list_remove leaves t in no list and the others where they were.      *)
LEMMA UnlinkFacts ==
  ASSUME NEW list \in QueueLists, Once(list), NEW t \in Thread, NEW new, new = Unlink(list, t)
  PROVE  /\ new \in QueueLists /\ Once(new) /\ Nowhere(new, t)
         /\ \A q \in Queue :
              /\ Elements(new[q]) = Elements(list[q]) \ {t}
              /\ list[q] # << >> /\ list[q][1] # t => SameHead(list[q], new[q])
              /\ t \notin Elements(list[q]) => new[q] = list[q]
<1>1. /\ DOMAIN list = Queue
      /\ new = [q \in Queue |-> Without(list[q], t)]
      /\ \A q \in Queue : list[q] \in Seq(Thread) /\ NoRepeat(list[q])
      /\ \A q \in Queue : new[q] = Without(list[q], t)
  BY DEF QueueLists, Unlink, Once
<1>2. ASSUME NEW q \in Queue
      PROVE  /\ new[q] \in Seq(Thread) /\ NoRepeat(new[q])
             /\ Elements(new[q]) = Elements(list[q]) \ {t}
             /\ list[q] # << >> /\ list[q][1] # t => SameHead(list[q], new[q])
             /\ t \notin Elements(list[q]) => new[q] = list[q]
  <2>1. list[q] \in Seq(Thread) /\ NoRepeat(list[q]) /\ new[q] = Without(list[q], t)
    BY <1>1
  <2>2. t \notin Elements(list[q]) => new[q] = list[q]
    BY <2>1 DEF Without
  <2> QED BY <2>1, <2>2, WithoutFacts DEF SameHead
<1>3. new \in QueueLists
  BY <1>1, <1>2 DEF QueueLists
<1>4. Once(new) /\ Nowhere(new, t)
  BY <1>2 DEF Once, Nowhere
<1> QED BY <1>2, <1>3, <1>4

(* rt_list_insert_before at the head of list p adds t to it and changes the *)
(* first element of no list that has one.                                  *)
LEMMA LinkLastFacts ==
  ASSUME NEW list \in QueueLists, Once(list), NEW t \in Thread, Nowhere(list, t),
         NEW p \in Queue, NEW new, new = LinkLast(list, p, t)
  PROVE  /\ new \in QueueLists /\ Once(new) /\ new[p] # << >>
         /\ Elements(new[p]) = Elements(list[p]) \cup {t}
         /\ \A q \in Queue :
              /\ q # p => new[q] = list[q]
              /\ SameHead(list[q], new[q])
<1>1. /\ list[p] \in Seq(Thread) /\ NoRepeat(list[p]) /\ t \notin Elements(list[p])
      /\ new[p] = Append(list[p], t)
      /\ \A q \in Queue : q # p => new[q] = list[q]
  BY DEF QueueLists, Once, Nowhere, LinkLast
<1>2. /\ new[p] \in Seq(Thread) /\ NoRepeat(new[p]) /\ new[p] # << >>
      /\ Elements(new[p]) = Elements(list[p]) \cup {t}
      /\ SameHead(list[p], new[p])
  BY <1>1, AppendFacts DEF SameHead
<1>3. new \in QueueLists
  BY <1>2 DEF QueueLists, LinkLast
<1>4. Once(new)
  <2>1. \A q \in Queue : NoRepeat(new[q])
    BY <1>1, <1>2 DEF Once
  <2>2. \A q \in Queue : Elements(new[q]) \subseteq Elements(list[q]) \cup IF q = p THEN {t} ELSE {}
    BY <1>1, <1>2
  <2>3. \A q, r \in Queue : q # r => Elements(new[q]) \cap Elements(new[r]) = {}
    BY <2>2 DEF Once, Nowhere
  <2> QED BY <2>1, <2>3 DEF Once
<1>5. \A q \in Queue : SameHead(list[q], new[q])
  BY <1>1, <1>2 DEF SameHead
<1> QED BY <1>1, <1>2, <1>3, <1>4, <1>5

(* rt_list_insert_after at the head of rt_thread_defunct adds t to it.     *)
LEMMA LinkFirstFacts ==
  ASSUME NEW list \in QueueLists, Once(list), NEW t \in Thread, Nowhere(list, t),
         NEW new, new = LinkFirst(list, Defunct, t)
  PROVE  /\ new \in QueueLists /\ Once(new)
         /\ Elements(new[Defunct]) = Elements(list[Defunct]) \cup {t}
         /\ \A q \in Queue : q # Defunct => new[q] = list[q]
<1>0. Defunct \in Queue
  BY DEF Queue
<1>1. /\ list[Defunct] \in Seq(Thread) /\ NoRepeat(list[Defunct])
      /\ t \notin Elements(list[Defunct])
      /\ new[Defunct] = <<t>> \o list[Defunct]
      /\ \A q \in Queue : q # Defunct => new[q] = list[q]
  BY <1>0 DEF QueueLists, Once, Nowhere, LinkFirst
<1>2. /\ new[Defunct] \in Seq(Thread) /\ NoRepeat(new[Defunct])
      /\ Elements(new[Defunct]) = Elements(list[Defunct]) \cup {t}
  BY <1>1, ConsFacts
<1>3. new \in QueueLists
  BY <1>0, <1>2 DEF QueueLists, LinkFirst
<1>4. Once(new)
  <2>1. \A q \in Queue : NoRepeat(new[q])
    BY <1>1, <1>2 DEF Once
  <2>2. \A q \in Queue :
          Elements(new[q]) \subseteq Elements(list[q]) \cup IF q = Defunct THEN {t} ELSE {}
    BY <1>1, <1>2
  <2>3. \A q, r \in Queue : q # r => Elements(new[q]) \cap Elements(new[r]) = {}
    BY <2>2 DEF Once, Nowhere
  <2> QED BY <2>1, <2>3 DEF Once
<1> QED BY <1>1, <1>2, <1>3, <1>4

-----------------------------------------------------------------------------
(* The kernel data.                                                        *)

KernelRecord ==
  [list : QueueLists, stat : [Thread -> Stat], prio : [Thread -> Prio],
   mask : [Thread -> SUBSET Prio], group : SUBSET Prio,
   cur : Thread \cup {NoThread}, lock : Nat, slice : [Thread -> 1 .. InitTick],
   timer : [Thread -> BOOLEAN], error : [Thread -> Error], asserted : BOOLEAN]

(* KernelType with the set of records named.                               *)
LEMMA KernelTypeRecord ==
  ASSUME NEW kd PROVE KernelType(kd) <=> kd \in KernelRecord
BY DEF KernelType, KernelRecord, QueueLists

(* The fields that a change of the queues leaves alone.                    *)
SameRest(kd, r) ==
  /\ r.cur = kd.cur /\ r.lock = kd.lock /\ r.slice = kd.slice
  /\ r.timer = kd.timer /\ r.error = kd.error /\ r.asserted = kd.asserted

(* A function changed at one point *)
Update(f, x, v) == [f EXCEPT ![x] = v]
Disarm(f, t)    == [f EXCEPT ![t] = FALSE]

(* Only t may be linked elsewhere than before.                             *)
SameLinks(kd, r, t) ==
  \A q \in Queue : Elements(r.list[q]) \ {t} = Elements(kd.list[q]) \ {t}

(* rt_list_remove and rt_schedule_insert_thread *)
LEMMA MakeReadyFacts ==
  ASSUME NEW kd \in KernelRecord, Consistent(kd), NEW t \in Thread,
         kd.stat[t] \in {"ready", "suspend"},
         NEW r, r = MakeReady(kd, t)
  PROVE  /\ r \in KernelRecord /\ Consistent(r)
         /\ r.stat = Update(kd.stat, t, "ready")
         /\ r.prio = kd.prio /\ r.mask = kd.mask
         /\ SameRest(kd, r) /\ SameLinks(kd, r, t)
         /\ r.group = kd.group \cup {kd.prio[t]}
         /\ t \in Elements(r.list[kd.prio[t]])
<1> DEFINE p    == kd.prio[t]
           list == kd.list
           mid  == Unlink(list, t)
           new  == LinkLast(mid, p, t)
<1>1. /\ list \in QueueLists /\ Once(list) /\ p \in Prio /\ p \in Queue
      /\ kd.mask[t] = {p}
  BY DEF KernelRecord, Consistent, LinkedOnce, Once, NoRepeat, MaskExact, Queue
<1>2. /\ r.list = new /\ r.stat = Update(kd.stat, t, "ready")
      /\ r.prio = kd.prio /\ r.mask = kd.mask /\ r.group = kd.group \cup {p}
      /\ SameRest(kd, r)
  BY <1>1 DEF KernelRecord, MakeReady, InsertThread, SameRest, Update
<1> HIDE DEF list
<1>3. /\ mid \in QueueLists /\ Once(mid) /\ Nowhere(mid, t)
      /\ \A q \in Queue :
           /\ Elements(mid[q]) = Elements(list[q]) \ {t}
           /\ t \notin Elements(list[q]) => mid[q] = list[q]
  BY <1>1, UnlinkFacts
<1> HIDE DEF mid, p
<1>4. /\ new \in QueueLists /\ Once(new) /\ new[p] # << >>
      /\ Elements(new[p]) = Elements(mid[p]) \cup {t}
      /\ \A q \in Queue : q # p => new[q] = mid[q]
  BY <1>1, <1>3, LinkLastFacts
<1> HIDE DEF new
<1> USE DEF list, p
<1>5. r \in KernelRecord
  BY <1>1, <1>4 DEF KernelRecord, MakeReady, InsertThread, Stat, mid, new
<1>6. SameLinks(kd, r, t) /\ t \in Elements(r.list[p])
  BY <1>2, <1>3, <1>4 DEF SameLinks
<1>7. LinkedOnce(r)
  BY <1>2, <1>4, ZenonT(60) DEF LinkedOnce, Once, NoRepeat
<1>8. QueuedReady(r)
  <2> SUFFICES ASSUME NEW q \in Prio, NEW u \in Elements(r.list[q])
               PROVE  r.stat[u] = "ready" /\ r.prio[u] = q
    BY DEF QueuedReady
  <2>1. CASE u = t
    BY <1>1, <1>2, <1>3, <1>4, <2>1 DEF KernelRecord, Queue, Nowhere, Update
  <2>2. CASE u # t
    <3>1. u \in Elements(kd.list[q])
      BY <1>2, <1>3, <1>4, <2>2 DEF Queue
    <3> QED BY <1>2, <2>2, <3>1 DEF KernelRecord, Consistent, QueuedReady, Update
  <2> QED BY <2>1, <2>2
<1>9. BitmapExact(r)
  <2> SUFFICES ASSUME NEW q \in Prio PROVE q \in r.group <=> r.list[q] # << >>
    BY <1>5 DEF BitmapExact, KernelRecord
  <2>1. CASE q = p
    BY <1>2, <1>4, <2>1
  <2>2. CASE q # p
    <3>1. t \notin Elements(kd.list[q])
      BY <2>2 DEF Consistent, QueuedReady
    <3>2. r.list[q] = kd.list[q]
      BY <1>2, <1>3, <1>4, <2>2, <3>1 DEF Queue
    <3> QED BY <1>2, <2>2, <3>2 DEF Consistent, BitmapExact
  <2> QED BY <2>1, <2>2
<1>10. MaskExact(r)
  BY <1>1, <1>2 DEF KernelRecord, Consistent, MaskExact, Update
<1> QED BY <1>2, <1>5, <1>6, <1>7, <1>8, <1>9, <1>10 DEF Consistent

(* rt_schedule_remove_thread, also when the state of t has been changed    *)
(* just before.  A thread that is first in its list and is not t stays so. *)
LEMMA RemoveFacts ==
  ASSUME NEW kd \in KernelRecord, NEW t \in Thread,
         LinkedOnce(kd), BitmapExact(kd), MaskExact(kd),
         kd.stat[t] \in {"ready", "suspend"},
         \A q \in Prio : \A u \in Elements(kd.list[q]) :
            kd.prio[u] = q /\ (u # t => kd.stat[u] = "ready"),
         NEW r, r = RemoveThread(kd, t)
  PROVE  /\ r \in KernelRecord /\ Consistent(r)
         /\ r.stat = kd.stat /\ r.prio = kd.prio /\ r.mask = kd.mask
         /\ SameRest(kd, r) /\ SameLinks(kd, r, t) /\ Nowhere(r.list, t)
         /\ r.group \subseteq kd.group
         /\ \A q \in Queue : kd.list[q] # << >> /\ kd.list[q][1] # t =>
                SameHead(kd.list[q], r.list[q])
<1> DEFINE p    == kd.prio[t]
           list == kd.list
           rest == Unlink(list, t)
<1>1. /\ list \in QueueLists /\ Once(list) /\ p \in Prio /\ p \in Queue
      /\ kd.mask[t] = {p}
  BY DEF KernelRecord, LinkedOnce, Once, NoRepeat, MaskExact, Queue
<1>2. /\ r.list = rest /\ r.stat = kd.stat /\ r.prio = kd.prio /\ r.mask = kd.mask
      /\ r.group = (IF rest[p] = << >> THEN kd.group \ {p} ELSE kd.group)
      /\ SameRest(kd, r)
  BY <1>1 DEF KernelRecord, RemoveThread, SameRest
<1> HIDE DEF list
<1>3. /\ rest \in QueueLists /\ Once(rest) /\ Nowhere(rest, t)
      /\ \A q \in Queue :
           /\ Elements(rest[q]) = Elements(list[q]) \ {t}
           /\ list[q] # << >> /\ list[q][1] # t => SameHead(list[q], rest[q])
           /\ t \notin Elements(list[q]) => rest[q] = list[q]
  BY <1>1, UnlinkFacts, SMTT(60)
<1> HIDE DEF rest
<1> USE DEF list
<1>4. r \in KernelRecord
  BY <1>1, <1>2, <1>3 DEF KernelRecord, RemoveThread, rest
<1>5. SameLinks(kd, r, t)
  BY <1>2, <1>3 DEF SameLinks
<1>6. LinkedOnce(r)
  BY <1>2, <1>3 DEF LinkedOnce, Once, NoRepeat
<1>7. QueuedReady(r)
  BY <1>2, <1>3 DEF QueuedReady, Queue
<1>8. BitmapExact(r)
  <2> SUFFICES ASSUME NEW q \in Prio PROVE q \in r.group <=> r.list[q] # << >>
    BY <1>4 DEF BitmapExact, KernelRecord
  <2>1. q \in kd.group <=> kd.list[q] # << >>
    BY DEF BitmapExact
  <2>2. CASE q = p
    <3>1. kd.list[p] = << >> => rest[p] = << >>
      <4>1. kd.list[p] = << >> => t \notin Elements(kd.list[p])
        BY DEF Elements
      <4> QED BY <4>1, <1>1, <1>3
    <3> QED BY <1>2, <2>1, <2>2, <3>1
  <2>3. CASE q # p
    <3>1. t \notin Elements(kd.list[q])
      BY <2>3
    <3>2. r.list[q] = kd.list[q]
      BY <1>2, <1>3, <3>1 DEF Queue
    <3> QED BY <1>2, <2>1, <2>3, <3>2
  <2> QED BY <2>2, <2>3
<1>9. MaskExact(r)
  BY <1>2 DEF MaskExact
<1> QED BY <1>2, <1>3, <1>4, <1>5, <1>6, <1>7, <1>8, <1>9 DEF Consistent

(* The consistency of the queues depends on these five fields only.        *)
LEMMA SameConsistent ==
  ASSUME NEW kd, NEW r, Consistent(kd),
         r.list = kd.list, r.stat = kd.stat, r.prio = kd.prio, r.mask = kd.mask,
         r.group = kd.group
  PROVE  Consistent(r)
BY DEF Consistent, LinkedOnce, QueuedReady, BitmapExact, MaskExact

(* rt_timer_stop *)
LEMMA StopTimerFacts ==
  ASSUME NEW kd \in KernelRecord, NEW t \in Thread, NEW r, r = StopTimer(kd, t)
  PROVE  /\ r \in KernelRecord
         /\ r.timer = Disarm(kd.timer, t)
         /\ r.list = kd.list /\ r.stat = kd.stat /\ r.prio = kd.prio /\ r.mask = kd.mask
         /\ r.group = kd.group /\ r.cur = kd.cur /\ r.lock = kd.lock
<1>1. r \in KernelRecord
  BY DEF StopTimer, KernelRecord
<1>2. r.timer = Disarm(kd.timer, t)
  BY DEF StopTimer, KernelRecord, Disarm
<1>3. /\ r.list = kd.list /\ r.stat = kd.stat /\ r.prio = kd.prio /\ r.mask = kd.mask
      /\ r.group = kd.group /\ r.cur = kd.cur /\ r.lock = kd.lock
  BY DEF StopTimer, KernelRecord
<1> QED BY <1>1, <1>2, <1>3

(* rt_thread_suspend *)
LEMMA SuspendFacts ==
  ASSUME NEW kd \in KernelRecord, Consistent(kd), NEW t \in Thread,
         kd.stat[t] \in {"ready", "suspend"},
         NEW r, r = Suspend(kd, t)
  PROVE  /\ r \in KernelRecord /\ Consistent(r)
         /\ r.stat = Update(kd.stat, t, "suspend")
         /\ r.prio = kd.prio /\ r.mask = kd.mask
         /\ r.timer = Disarm(kd.timer, t)
         /\ r.cur = kd.cur /\ r.lock = kd.lock
         /\ SameLinks(kd, r, t) /\ Nowhere(r.list, t)
         /\ r.group \subseteq kd.group
         /\ \A q \in Queue : kd.list[q] # << >> /\ kd.list[q][1] # t =>
                SameHead(kd.list[q], r.list[q])
<1> DEFINE s == [kd EXCEPT !.stat[t] = "suspend"]
           m == RemoveThread(s, t)
<1>1. /\ s \in KernelRecord
      /\ s.stat = Update(kd.stat, t, "suspend")
      /\ s.list = kd.list /\ s.prio = kd.prio /\ s.mask = kd.mask /\ s.group = kd.group
      /\ SameRest(kd, s)
  BY DEF KernelRecord, Stat, SameRest, Update
<1>2. r = StopTimer(m, t)
  BY DEF Suspend
<1> HIDE DEF s
<1>3. LinkedOnce(s) /\ BitmapExact(s)
  BY <1>1 DEF Consistent, LinkedOnce, BitmapExact
<1>4. MaskExact(s)
  BY <1>1 DEF Consistent, MaskExact, KernelRecord, Update
<1>5. s.stat[t] \in {"ready", "suspend"}
  BY <1>1 DEF KernelRecord, Update
<1>6. \A q \in Prio : \A u \in Elements(s.list[q]) :
            s.prio[u] = q /\ (u # t => s.stat[u] = "ready")
  BY <1>1 DEF Consistent, QueuedReady, KernelRecord, Update
<1>7. /\ m \in KernelRecord /\ Consistent(m)
      /\ m.stat = s.stat /\ m.prio = s.prio /\ m.mask = s.mask
      /\ SameRest(s, m) /\ SameLinks(s, m, t) /\ Nowhere(m.list, t)
      /\ m.group \subseteq s.group
      /\ \A q \in Queue : s.list[q] # << >> /\ s.list[q][1] # t =>
             SameHead(s.list[q], m.list[q])
  <2> HIDE DEF m
  <2> QED BY <1>1, <1>3, <1>4, <1>5, <1>6, RemoveFacts DEF m
<1> HIDE DEF m
<1>8. /\ r \in KernelRecord
      /\ r.list = m.list /\ r.stat = m.stat /\ r.prio = m.prio /\ r.mask = m.mask
      /\ r.group = m.group /\ r.cur = m.cur /\ r.lock = m.lock
      /\ r.timer = Disarm(m.timer, t)
  BY <1>2, <1>7, StopTimerFacts
<1>9. Consistent(r)
  BY <1>7, <1>8, SameConsistent
<1>10. SameLinks(kd, r, t)
  BY <1>1, <1>7, <1>8 DEF SameLinks
<1> QED BY <1>1, <1>7, <1>8, <1>9, <1>10 DEF SameRest

-----------------------------------------------------------------------------
(* The scheduler.                                                          *)

(* The lowest bit of a bitmap that is not zero *)
LEMMA HighestReadyFacts ==
  ASSUME NEW kd, kd.group \subseteq Prio, kd.group # {}
  PROVE  /\ HighestReady(kd) \in kd.group
         /\ \A p \in kd.group : HighestReady(kd) <= p
<1>1. kd.group \subseteq Nat
  BY KernelAssumption DEF Prio
<1>2. \E p \in kd.group : \A r \in kd.group : p <= r
  BY <1>1, LeastElement
<1> QED BY <1>2 DEF HighestReady

RunsFirst(kd) == kd.cur = Head(kd.list[HighestReady(kd)])

(* rt_schedule, of a kernel where some thread is ready *)
LEMMA ScheduleFacts ==
  ASSUME NEW kd \in KernelRecord, Consistent(kd), kd.group # {},
         NEW r, r = Schedule(kd)
  PROVE  /\ r \in KernelRecord /\ Consistent(r)
         /\ r.list = kd.list /\ r.stat = kd.stat /\ r.prio = kd.prio /\ r.mask = kd.mask
         /\ r.group = kd.group /\ r.lock = kd.lock /\ r.slice = kd.slice
         /\ r.timer = kd.timer /\ r.error = kd.error /\ r.asserted = kd.asserted
         /\ kd.lock # 0 => r.cur = kd.cur
         /\ kd.lock = 0 => /\ RunsFirst(r)
                           /\ r.cur \in Thread /\ r.stat[r.cur] = "ready"
                           /\ r.cur \in Elements(r.list[r.prio[r.cur]])
<1> DEFINE h == HighestReady(kd)
           t == Head(kd.list[h])
<1>1. h \in kd.group /\ h \in Prio /\ h \in Queue
  BY HighestReadyFacts DEF KernelRecord, Queue
<1>2. kd.list[h] \in Seq(Thread) /\ kd.list[h] # << >>
  BY <1>1 DEF KernelRecord, QueueLists, Consistent, BitmapExact
<1>3. t \in Thread /\ t \in Elements(kd.list[h])
  BY <1>2, EmptyElements
<1>4. kd.stat[t] = "ready" /\ kd.prio[t] = h
  BY <1>1, <1>3 DEF Consistent, QueuedReady
<1> HIDE DEF t
<1>5. r = IF kd.lock = 0 THEN [kd EXCEPT !.cur = t] ELSE kd
  BY DEF Schedule, t
<1>6. /\ r \in KernelRecord
      /\ r.list = kd.list /\ r.stat = kd.stat /\ r.prio = kd.prio /\ r.mask = kd.mask
      /\ r.group = kd.group /\ r.lock = kd.lock /\ r.slice = kd.slice
      /\ r.timer = kd.timer /\ r.error = kd.error /\ r.asserted = kd.asserted
  BY <1>3, <1>5 DEF KernelRecord
<1>7. r.cur = IF kd.lock = 0 THEN t ELSE kd.cur
  BY <1>5 DEF KernelRecord
<1>8. Consistent(r)
  BY <1>6, SameConsistent
<1>9. HighestReady(r) = h
  BY <1>6 DEF HighestReady
<1>10. kd.lock = 0 => RunsFirst(r)
  BY <1>6, <1>7, <1>9 DEF RunsFirst, t
<1> QED BY <1>3, <1>4, <1>6, <1>7, <1>8, <1>10

(* A thread that is the first of the most urgent list stays the first      *)
(* when others leave.                                                      *)
LEMMA StaysFirst ==
  ASSUME NEW kd \in KernelRecord, Consistent(kd), kd.group # {}, RunsFirst(kd),
         NEW r \in KernelRecord, Consistent(r), r.group \subseteq kd.group,
         r.cur = kd.cur,
         NEW t, t # kd.cur,
         \A q \in Queue : kd.list[q] # << >> /\ kd.list[q][1] # t =>
                SameHead(kd.list[q], r.list[q])
  PROVE  RunsFirst(r)
<1> DEFINE h == HighestReady(kd)
<1>1. h \in kd.group /\ h \in Prio /\ h \in Queue /\ \A p \in kd.group : h <= p
  BY HighestReadyFacts DEF KernelRecord, Queue
<1>2. kd.list[h] \in Seq(Thread) /\ kd.list[h] # << >> /\ r.list[h] \in Seq(Thread)
  BY <1>1 DEF KernelRecord, QueueLists, Consistent, BitmapExact
<1>3. kd.list[h][1] = kd.cur
  BY <1>2, EmptyElements DEF RunsFirst
<1>4. r.list[h] # << >> /\ r.list[h][1] = kd.cur
  BY <1>1, <1>2, <1>3 DEF SameHead
<1>5. h \in r.group
  BY <1>1, <1>4 DEF Consistent, BitmapExact
<1>6. HighestReady(r) = h
  <2>1. /\ HighestReady(r) \in r.group
        /\ \A p \in r.group : HighestReady(r) <= p
    <3>1. r.group \subseteq Prio /\ r.group # {}
      BY <1>5 DEF KernelRecord
    <3> QED BY <3>1, HighestReadyFacts
  <2>2. HighestReady(r) <= h /\ h <= HighestReady(r)
    BY <1>1, <1>5, <2>1
  <2>3. HighestReady(r) \in Nat /\ h \in Nat
    BY <1>1, <2>1, KernelAssumption DEF KernelRecord, Prio
  <2> QED BY <2>2, <2>3
<1> QED BY <1>2, <1>4, <1>6, EmptyElements DEF RunsFirst

(* rt_thread_yield up to rt_schedule *)
LEMMA RotateFacts ==
  ASSUME NEW kd \in KernelRecord, Consistent(kd), NEW t \in Thread, CanRotate(kd, t),
         NEW r, r = Rotate(kd, t)
  PROVE  /\ r \in KernelRecord /\ Consistent(r)
         /\ r.stat = kd.stat /\ r.prio = kd.prio /\ r.mask = kd.mask
         /\ SameRest(kd, r) /\ SameLinks(kd, r, t) /\ r.group = kd.group
         /\ t \in Elements(r.list[kd.prio[t]])
<1> DEFINE m == MakeReady(kd, t)
<1>1. kd.stat[t] = "ready" /\ kd.prio[t] \in Prio /\ kd.mask[t] = {kd.prio[t]}
  BY DEF CanRotate, KernelRecord, Consistent, MaskExact
<1>2. kd.prio[t] \in kd.group
  <2>1. kd.list[kd.prio[t]] # << >>
    BY DEF CanRotate, Elements
  <2> QED BY <1>1, <2>1 DEF Consistent, BitmapExact
<1>3. Update(kd.stat, t, "ready") = kd.stat
  BY <1>1 DEF KernelRecord, Update
<1>4. /\ m \in KernelRecord /\ Consistent(m)
      /\ m.stat = kd.stat /\ m.prio = kd.prio /\ m.mask = kd.mask
      /\ SameRest(kd, m) /\ SameLinks(kd, m, t) /\ m.group = kd.group
      /\ t \in Elements(m.list[kd.prio[t]])
  <2> HIDE DEF m
  <2>1. /\ m \in KernelRecord /\ Consistent(m)
        /\ m.stat = Update(kd.stat, t, "ready") /\ m.prio = kd.prio /\ m.mask = kd.mask
        /\ SameRest(kd, m) /\ SameLinks(kd, m, t)
        /\ m.group = kd.group \cup {kd.prio[t]}
        /\ t \in Elements(m.list[kd.prio[t]])
    BY <1>1, MakeReadyFacts DEF m
  <2>2. kd.group \cup {kd.prio[t]} = kd.group
    BY <1>2
  <2> QED BY <1>3, <2>1, <2>2
<1>5. m.list = LinkLast(Unlink(kd.list, t), kd.prio[t], t)
  BY <1>1 DEF MakeReady, InsertThread, KernelRecord
<1>6. /\ r.list = m.list /\ r.stat = kd.stat /\ r.prio = kd.prio /\ r.mask = kd.mask
      /\ SameRest(kd, r) /\ r.group = kd.group
  BY <1>5 DEF Rotate, KernelRecord, SameRest
<1>7. m.list \in QueueLists
  BY <1>4 DEF KernelRecord
<1>8. r \in KernelRecord
  <2> HIDE DEF m
  <2>1. r = [kd EXCEPT !.list = m.list]
    BY <1>5 DEF Rotate
  <2> QED BY <1>7, <2>1 DEF KernelRecord
<1>9. Consistent(r)
  BY <1>4, <1>6, SameConsistent
<1>10. SameLinks(kd, r, t)
  BY <1>4, <1>6 DEF SameLinks
<1> QED BY <1>4, <1>6, <1>8, <1>9, <1>10

NotQueued(kd, t) == \A q \in Prio : t \notin Elements(kd.list[q])

(* A new priority for a thread that is in no ready list *)
LEMMA RenumberFacts ==
  ASSUME NEW kd \in KernelRecord, Consistent(kd), NEW t \in Thread, NEW p \in Prio,
         NotQueued(kd, t),
         NEW r, r = Renumber(kd, t, p)
  PROVE  /\ r \in KernelRecord /\ Consistent(r)
         /\ r.prio = Update(kd.prio, t, p)
         /\ r.list = kd.list /\ r.stat = kd.stat /\ r.group = kd.group
         /\ SameRest(kd, r)
<1>1. r \in KernelRecord
  BY DEF Renumber, KernelRecord
<1>2. /\ r.prio = Update(kd.prio, t, p) /\ r.mask = Update(kd.mask, t, {p})
      /\ r.list = kd.list /\ r.stat = kd.stat /\ r.group = kd.group
      /\ SameRest(kd, r)
  BY DEF Renumber, KernelRecord, SameRest, Update
<1>3. LinkedOnce(r) /\ BitmapExact(r)
  BY <1>2 DEF Consistent, LinkedOnce, BitmapExact
<1>4. QueuedReady(r)
  BY <1>2 DEF Consistent, QueuedReady, KernelRecord, NotQueued, Update
<1>5. MaskExact(r)
  BY <1>2 DEF Consistent, MaskExact, KernelRecord, Update
<1> QED BY <1>1, <1>2, <1>3, <1>4, <1>5 DEF Consistent

(* rt_thread_control(RT_THREAD_CTRL_CHANGE_PRIORITY) *)
LEMMA ChangePriorityFacts ==
  ASSUME NEW kd \in KernelRecord, Consistent(kd), NEW t \in Thread, NEW p \in Prio,
         NEW r, r = ChangePriority(kd, t, p)
  PROVE  /\ r \in KernelRecord /\ Consistent(r)
         /\ r.stat = kd.stat /\ SameRest(kd, r) /\ SameLinks(kd, r, t)
         /\ r.prio = Update(kd.prio, t, p)
         /\ kd.stat[t] = "ready" => t \in Elements(r.list[p])
         /\ kd.stat[t] # "ready" => r.list = kd.list
<1>1. CASE kd.stat[t] # "ready"
  <2>1. NotQueued(kd, t)
    BY <1>1 DEF Consistent, QueuedReady, NotQueued
  <2>2. r = Renumber(kd, t, p)
    BY <1>1 DEF ChangePriority
  <2>3. /\ r \in KernelRecord /\ Consistent(r)
        /\ r.prio = Update(kd.prio, t, p)
        /\ r.list = kd.list /\ r.stat = kd.stat /\ SameRest(kd, r)
    BY <2>1, <2>2, RenumberFacts
  <2> QED BY <1>1, <2>3 DEF SameLinks
<1>2. CASE kd.stat[t] = "ready"
  <2> DEFINE a == RemoveThread(kd, t)
             b == Renumber(a, t, p)
             c == MakeReady(b, t)
  <2>1. \A q \in Prio : \A u \in Elements(kd.list[q]) :
            kd.prio[u] = q /\ (u # t => kd.stat[u] = "ready")
    BY DEF Consistent, QueuedReady
  <2>2. /\ a \in KernelRecord /\ Consistent(a)
        /\ a.stat = kd.stat /\ a.prio = kd.prio
        /\ SameRest(kd, a) /\ SameLinks(kd, a, t) /\ Nowhere(a.list, t)
    <3> HIDE DEF a
    <3> QED BY <1>2, <2>1, RemoveFacts DEF a, Consistent
  <2> HIDE DEF a
  <2>3. NotQueued(a, t)
    BY <2>2 DEF Nowhere, Queue, NotQueued
  <2>4. /\ b \in KernelRecord /\ Consistent(b)
        /\ b.prio = Update(a.prio, t, p)
        /\ b.list = a.list /\ b.stat = a.stat /\ SameRest(a, b)
    <3> HIDE DEF b
    <3> QED BY <2>2, <2>3, RenumberFacts DEF b
  <2>5. r = InsertThread(b, t)
    BY <1>2 DEF ChangePriority, a
  <2> HIDE DEF b
  <2>6. b.stat[t] \in {"ready", "suspend"} /\ b.prio[t] = p /\ Nowhere(b.list, t) /\ b.list \in QueueLists
    BY <1>2, <2>2, <2>4 DEF KernelRecord, Update
  <2>7. Unlink(b.list, t) = b.list
    BY <2>6 DEF Unlink, Without, Nowhere, QueueLists
  <2>8. r = c
    <3>1. [b EXCEPT !.list = Unlink(@, t)] = b
      BY <2>4, <2>7 DEF KernelRecord
    <3> QED BY <2>5, <3>1 DEF MakeReady
  <2>9. /\ c \in KernelRecord /\ Consistent(c)
        /\ c.stat = Update(b.stat, t, "ready") /\ c.prio = b.prio
        /\ SameRest(b, c) /\ SameLinks(b, c, t)
        /\ t \in Elements(c.list[b.prio[t]])
    <3> HIDE DEF c
    <3> QED BY <2>4, <2>6, MakeReadyFacts DEF c
  <2> HIDE DEF c
  <2>10. c.stat = kd.stat
    BY <1>2, <2>2, <2>4, <2>9 DEF KernelRecord, Update
  <2>11. SameRest(kd, r)
    BY <2>2, <2>4, <2>8, <2>9 DEF SameRest
  <2>12. SameLinks(kd, r, t)
    BY <2>2, <2>4, <2>8, <2>9 DEF SameLinks
  <2> QED BY <1>2, <2>2, <2>4, <2>6, <2>8, <2>9, <2>10, <2>11, <2>12
<1> QED BY <1>1, <1>2

(* What the processor does after an rt_schedule that worked on kernel kd   *)
Dispatched(kd, r) ==
  /\ kd.lock # 0 => r.cur = kd.cur
  /\ kd.lock = 0 => /\ RunsFirst(r)
                    /\ r.cur \in Thread /\ r.stat[r.cur] = "ready"
                    /\ r.cur \in Elements(r.list[r.prio[r.cur]])

(* rt_thread_timeout *)
LEMMA TimeoutFacts ==
  ASSUME NEW kd \in KernelRecord, Consistent(kd), NEW t \in Thread,
         kd.stat[t] \in {"ready", "suspend"},
         NEW r, r = Timeout(kd, t)
  PROVE  /\ r \in KernelRecord /\ Consistent(r)
         /\ r.stat = Update(kd.stat, t, "ready") /\ r.prio = kd.prio
         /\ r.timer = Disarm(kd.timer, t) /\ r.lock = kd.lock
         /\ SameLinks(kd, r, t) /\ t \in Elements(r.list[kd.prio[t]])
         /\ Dispatched(kd, r)
<1> DEFINE a == MakeReady(kd, t)
           b == [a EXCEPT !.asserted = @ \/ kd.stat[t] # "suspend",
                          !.error[t] = "ETIMEOUT",
                          !.timer[t] = FALSE]
<1>1. /\ a \in KernelRecord /\ Consistent(a)
      /\ a.stat = Update(kd.stat, t, "ready") /\ a.prio = kd.prio /\ a.mask = kd.mask
      /\ SameRest(kd, a) /\ SameLinks(kd, a, t)
      /\ a.group = kd.group \cup {kd.prio[t]}
      /\ t \in Elements(a.list[kd.prio[t]])
  <2> HIDE DEF a
  <2> QED BY MakeReadyFacts DEF a
<1>2. r = Schedule(b)
  BY DEF Timeout
<1> HIDE DEF a
<1>3. b \in KernelRecord
  BY <1>1 DEF KernelRecord, Error
<1>4. /\ b.list = a.list /\ b.stat = a.stat /\ b.prio = a.prio /\ b.mask = a.mask
      /\ b.group = a.group /\ b.cur = a.cur /\ b.lock = a.lock
  BY <1>1 DEF KernelRecord
<1>5. b.timer = Disarm(a.timer, t)
  BY <1>1 DEF KernelRecord, Disarm
<1> HIDE DEF b
<1>6. Consistent(b) /\ b.group # {}
  BY <1>1, <1>4, SameConsistent
<1>7. /\ r \in KernelRecord /\ Consistent(r)
      /\ r.list = b.list /\ r.stat = b.stat /\ r.prio = b.prio
      /\ r.lock = b.lock /\ r.timer = b.timer
  BY <1>2, <1>3, <1>6, ScheduleFacts
<1>8. Dispatched(b, r)
  BY <1>2, <1>3, <1>6, ScheduleFacts DEF Dispatched
<1>9. b.lock = kd.lock /\ b.cur = kd.cur /\ b.timer = Disarm(kd.timer, t)
  BY <1>1, <1>4, <1>5 DEF SameRest
<1>10. Dispatched(kd, r)
  BY <1>8, <1>9 DEF Dispatched
<1>11. SameLinks(kd, r, t)
  BY <1>1, <1>4, <1>7 DEF SameLinks
<1> QED BY <1>1, <1>4, <1>7, <1>9, <1>10, <1>11

(* the time slice of rt_tick_increase *)
LEMMA TimeSliceFacts ==
  ASSUME NEW kd \in KernelRecord, Consistent(kd), kd.cur \in Thread,
         NEW r, r = TimeSlice(kd)
  PROVE  /\ r \in KernelRecord /\ Consistent(r)
         /\ r.stat = kd.stat /\ r.prio = kd.prio /\ r.timer = kd.timer
         /\ r.lock = kd.lock
         /\ \/ r.list = kd.list /\ r.cur = kd.cur /\ r.group = kd.group
            \/ /\ kd.stat[kd.cur] = "ready" /\ SameLinks(kd, r, kd.cur)
               /\ kd.cur \in Elements(r.list[kd.prio[kd.cur]])
               /\ Dispatched(kd, r)
<1> DEFINE t == kd.cur
           a == [kd EXCEPT !.slice[t] = InitTick]
           b == Rotate(a, t)
<1>1. kd.slice[t] \in 1 .. InitTick /\ InitTick \in Nat \ {0}
  BY KernelAssumption DEF KernelRecord
<1>2. CASE kd.slice[t] > 1
  <2>1. r = [kd EXCEPT !.slice[t] = @ - 1]
    BY <1>2 DEF TimeSlice
  <2>2. kd.slice[t] - 1 \in 1 .. InitTick
    BY <1>1, <1>2
  <2>3. r \in KernelRecord
    BY <2>1, <2>2, SMTT(60) DEF KernelRecord
  <2>4. /\ r.list = kd.list /\ r.stat = kd.stat /\ r.prio = kd.prio /\ r.mask = kd.mask
        /\ r.group = kd.group /\ r.cur = kd.cur /\ r.lock = kd.lock
        /\ r.timer = kd.timer
    BY <2>1 DEF KernelRecord
  <2>5. Consistent(r)
    BY <2>4, SameConsistent
  <2> QED BY <2>3, <2>4, <2>5
<1>3. CASE ~ (kd.slice[t] > 1)
  <2>1. r = IF CanRotate(a, t) THEN Schedule(b) ELSE a
    BY <1>3 DEF TimeSlice
  <2>2. a \in KernelRecord
    BY <1>1, SMTT(60) DEF KernelRecord
  <2>3. /\ a.list = kd.list /\ a.stat = kd.stat /\ a.prio = kd.prio /\ a.mask = kd.mask
        /\ a.group = kd.group /\ a.cur = kd.cur /\ a.lock = kd.lock
        /\ a.timer = kd.timer
    BY DEF KernelRecord
  <2> HIDE DEF a
  <2>4. Consistent(a)
    BY <2>3, SameConsistent
  <2>5. CASE CanRotate(a, t)
    <3>1. /\ b \in KernelRecord /\ Consistent(b)
          /\ b.stat = a.stat /\ b.prio = a.prio
          /\ SameRest(a, b) /\ SameLinks(a, b, t)
          /\ t \in Elements(b.list[a.prio[t]])
      <4> HIDE DEF b, t
      <4>1. t \in Thread
        BY DEF t
      <4> QED BY <2>2, <2>4, <2>5, <4>1, RotateFacts DEF b
    <3> HIDE DEF b
    <3>2. b.group # {}
      <4>1. a.prio[t] \in Prio
        BY <2>2 DEF KernelRecord
      <4>2. b.list[a.prio[t]] # << >>
        BY <3>1 DEF Elements
      <4> QED BY <3>1, <4>1, <4>2 DEF Consistent, BitmapExact
    <3>3. r = Schedule(b)
      BY <2>1, <2>5
    <3>4. /\ r \in KernelRecord /\ Consistent(r)
          /\ r.list = b.list /\ r.stat = b.stat /\ r.prio = b.prio
          /\ r.lock = b.lock /\ r.timer = b.timer
      BY <3>1, <3>2, <3>3, ScheduleFacts
    <3>5. Dispatched(b, r)
      BY <3>1, <3>2, <3>3, ScheduleFacts DEF Dispatched
    <3>6. b.lock = kd.lock /\ b.cur = kd.cur /\ b.timer = kd.timer
      BY <2>3, <3>1 DEF SameRest
    <3>7. Dispatched(kd, r)
      BY <3>5, <3>6 DEF Dispatched
    <3>8. SameLinks(kd, r, t)
      BY <2>3, <3>1, <3>4 DEF SameLinks
    <3>9. kd.stat[t] = "ready"
      BY <2>3, <2>5 DEF CanRotate
    <3> QED BY <2>3, <3>1, <3>4, <3>6, <3>7, <3>8, <3>9
  <2>6. CASE ~CanRotate(a, t)
    BY <2>1, <2>2, <2>3, <2>4, <2>6
  <2> QED BY <2>5, <2>6
<1> QED BY <1>2, <1>3

-----------------------------------------------------------------------------
(* Threads that are in no ready list.                                      *)

(* rt_list_remove, without rt_schedule_insert_thread after it *)
Unlinked(kd, t) == [kd EXCEPT !.list = Unlink(@, t)]

(* rt_list_remove of a thread in a wait list, in rt_thread_defunct or in   *)
(* no list changes no ready list and leaves the thread linked nowhere.     *)
LEMMA UnlinkIdleFacts ==
  ASSUME NEW kd \in KernelRecord, Consistent(kd), NEW t \in Thread, NotQueued(kd, t),
         NEW r, r = Unlinked(kd, t)
  PROVE  /\ r \in KernelRecord /\ Consistent(r)
         /\ r.stat = kd.stat /\ r.prio = kd.prio /\ r.mask = kd.mask
         /\ r.group = kd.group /\ SameRest(kd, r)
         /\ SameLinks(kd, r, t) /\ Nowhere(r.list, t)
         /\ \A q \in Prio : r.list[q] = kd.list[q]
<1> DEFINE list == kd.list
           new  == Unlink(list, t)
<1>1. list \in QueueLists /\ Once(list)
  BY DEF KernelRecord, Consistent, LinkedOnce, Once, NoRepeat
<1>2. /\ r.list = new /\ r.stat = kd.stat /\ r.prio = kd.prio /\ r.mask = kd.mask
      /\ r.group = kd.group /\ SameRest(kd, r)
  BY DEF KernelRecord, SameRest, Unlinked
<1> HIDE DEF list
<1>3. /\ new \in QueueLists /\ Once(new) /\ Nowhere(new, t)
      /\ \A q \in Queue :
           /\ Elements(new[q]) = Elements(list[q]) \ {t}
           /\ t \notin Elements(list[q]) => new[q] = list[q]
  BY <1>1, UnlinkFacts
<1>4. r \in KernelRecord
  <2>1. r = [kd EXCEPT !.list = new]
    BY DEF list, Unlinked
  <2> HIDE DEF new
  <2> QED BY <1>3, <2>1 DEF KernelRecord
<1> HIDE DEF new
<1> USE DEF list
<1>5. SameLinks(kd, r, t) /\ Nowhere(r.list, t)
  BY <1>2, <1>3 DEF SameLinks
<1>6. \A q \in Prio : r.list[q] = kd.list[q]
  BY <1>2, <1>3 DEF NotQueued, Queue
<1>7. LinkedOnce(r)
  BY <1>2, <1>3 DEF LinkedOnce, Once, NoRepeat
<1>8. QueuedReady(r) /\ BitmapExact(r) /\ MaskExact(r)
  BY <1>2, <1>6 DEF Consistent, QueuedReady, BitmapExact, MaskExact
<1> QED BY <1>2, <1>4, <1>5, <1>6, <1>7, <1>8 DEF Consistent

(* The states of a thread that is neither ready nor suspended *)
DeadStat == {"none", "init", "close"}
Retired(kd, t, s) == [kd EXCEPT !.stat[t] = s]

(* A thread in no ready list may stop being ready or suspended: the lists  *)
(* and the bitmap have nothing to do with it.                              *)
LEMMA RetireFacts ==
  ASSUME NEW kd \in KernelRecord, Consistent(kd), NEW t \in Thread, NotQueued(kd, t),
         NEW s \in DeadStat,
         NEW r, r = Retired(kd, t, s)
  PROVE  /\ r \in KernelRecord /\ Consistent(r)
         /\ r.stat = Update(kd.stat, t, s) /\ r.list = kd.list /\ r.prio = kd.prio
         /\ r.group = kd.group /\ SameRest(kd, r)
<1>1. r \in KernelRecord
  BY DEF KernelRecord, Stat, DeadStat, Retired
<1>2. /\ r.stat = Update(kd.stat, t, s) /\ r.list = kd.list /\ r.prio = kd.prio
      /\ r.mask = kd.mask /\ r.group = kd.group /\ SameRest(kd, r)
  BY DEF KernelRecord, Update, SameRest, Retired
<1>3. LinkedOnce(r) /\ BitmapExact(r)
  BY <1>2 DEF Consistent, LinkedOnce, BitmapExact
<1>4. QueuedReady(r)
  BY <1>2 DEF Consistent, QueuedReady, KernelRecord, NotQueued, Update, DeadStat
<1>5. MaskExact(r)
  BY <1>2 DEF Consistent, MaskExact, KernelRecord, Update, DeadStat
<1> QED BY <1>1, <1>2, <1>3, <1>4, <1>5 DEF Consistent

(* the closing of a thread that is linked nowhere *)
LEMMA CloseFacts ==
  ASSUME NEW kd \in KernelRecord, Consistent(kd), NEW t \in Thread, Nowhere(kd.list, t),
         NEW r, r = Close(kd, t)
  PROVE  /\ r \in KernelRecord /\ Consistent(r)
         /\ r.stat = Update(kd.stat, t, "close") /\ r.prio = kd.prio
         /\ r.group = kd.group /\ SameRest(kd, r)
         /\ Elements(r.list[Defunct]) = Elements(kd.list[Defunct]) \cup {t}
         /\ \A q \in Queue : q # Defunct => r.list[q] = kd.list[q]
<1> DEFINE list == kd.list
           new  == LinkFirst(list, Defunct, t)
           m    == [kd EXCEPT !.stat[t] = "close"]
<1>1. list \in QueueLists /\ Once(list) /\ Nowhere(list, t) /\ NotQueued(kd, t)
  BY DEF KernelRecord, Consistent, LinkedOnce, Once, NoRepeat, NotQueued, Nowhere, Queue
<1>2. /\ m \in KernelRecord /\ Consistent(m)
      /\ m.stat = Update(kd.stat, t, "close") /\ m.list = kd.list /\ m.prio = kd.prio
      /\ m.group = kd.group /\ SameRest(kd, m)
  <2> HIDE DEF m
  <2>1. "close" \in DeadStat
    BY DEF DeadStat
  <2> QED BY <1>1, <2>1, RetireFacts DEF m, Retired
<1>3. r = [m EXCEPT !.list = new]
  BY DEF Close, KernelRecord
<1> HIDE DEF list, m
<1>4. /\ new \in QueueLists /\ Once(new)
      /\ Elements(new[Defunct]) = Elements(list[Defunct]) \cup {t}
      /\ \A q \in Queue : q # Defunct => new[q] = list[q]
  BY <1>1, LinkFirstFacts
<1> HIDE DEF new
<1> USE DEF list
<1>5. r \in KernelRecord
  BY <1>2, <1>3, <1>4 DEF KernelRecord
<1>6. /\ r.list = new /\ r.stat = m.stat /\ r.prio = m.prio /\ r.mask = m.mask
      /\ r.group = m.group /\ SameRest(m, r)
  BY <1>2, <1>3 DEF KernelRecord, SameRest
<1>7. LinkedOnce(r)
  BY <1>4, <1>6 DEF LinkedOnce, Once, NoRepeat
<1>8. \A q \in Prio : r.list[q] = m.list[q]
  BY <1>2, <1>4, <1>6, KernelAssumption DEF Queue
<1>9. QueuedReady(r) /\ BitmapExact(r) /\ MaskExact(r)
  BY <1>2, <1>6, <1>8 DEF Consistent, QueuedReady, BitmapExact, MaskExact
<1>10. SameRest(kd, r)
  BY <1>2, <1>6 DEF SameRest
<1> QED BY <1>2, <1>4, <1>5, <1>6, <1>7, <1>9, <1>10 DEF Consistent

(* The preparation of rt_thread_startup: a thread in no ready list gets    *)
(* its initial priority and the bit that belongs to it.                    *)
LEMMA PrepareFacts ==
  ASSUME NEW kd \in KernelRecord, Consistent(kd), NEW t \in Thread, NotQueued(kd, t),
         NEW r, r = PrepareStartup(kd, t)
  PROVE  /\ r \in KernelRecord /\ Consistent(r)
         /\ r.stat = Update(kd.stat, t, "suspend")
         /\ r.prio = Update(kd.prio, t, InitPrio[t])
         /\ r.list = kd.list /\ r.group = kd.group /\ SameRest(kd, r)
<1> DEFINE p == InitPrio[t]
<1>1. p \in Prio
  BY KernelAssumption
<1>2. r = [kd EXCEPT !.prio[t] = p, !.mask[t] = {p}, !.stat[t] = "suspend"]
  BY DEF PrepareStartup
<1> HIDE DEF p
<1>3. r \in KernelRecord
  <2>1. {p} \in SUBSET Prio /\ "suspend" \in Stat
    BY <1>1 DEF Stat
  <2>2. /\ [kd.stat EXCEPT ![t] = "suspend"] \in [Thread -> Stat]
        /\ [kd.prio EXCEPT ![t] = p] \in [Thread -> Prio]
        /\ [kd.mask EXCEPT ![t] = {p}] \in [Thread -> SUBSET Prio]
    BY <1>1, <2>1 DEF KernelRecord
  <2> QED BY <1>2, <2>2 DEF KernelRecord
<1>4. /\ r.stat = Update(kd.stat, t, "suspend") /\ r.prio = Update(kd.prio, t, p)
      /\ r.mask = Update(kd.mask, t, {p})
      /\ r.list = kd.list /\ r.group = kd.group /\ SameRest(kd, r)
  BY <1>2 DEF KernelRecord, Update, SameRest
<1>5. LinkedOnce(r) /\ BitmapExact(r)
  BY <1>4 DEF Consistent, LinkedOnce, BitmapExact
<1>6. QueuedReady(r)
  BY <1>4 DEF Consistent, QueuedReady, KernelRecord, NotQueued, Update
<1>7. MaskExact(r)
  BY <1>1, <1>4 DEF Consistent, MaskExact, KernelRecord, Update
<1> QED BY <1>3, <1>4, <1>5, <1>6, <1>7 DEF Consistent, p

(* rt_thread_startup with interrupts off puts a thread in its ready list.  *)
LEMMA StartupFacts ==
  ASSUME NEW kd \in KernelRecord, Consistent(kd), NEW t \in Thread, NotQueued(kd, t),
         NEW r, r = Startup(kd, t)
  PROVE  /\ r \in KernelRecord /\ Consistent(r)
         /\ r.stat = Update(kd.stat, t, "ready")
         /\ r.prio = Update(kd.prio, t, InitPrio[t])
         /\ SameRest(kd, r) /\ SameLinks(kd, r, t)
         /\ t \in Elements(r.list[r.prio[t]])
<1> DEFINE m == PrepareStartup(kd, t)
<1> HIDE DEF m
<1>1. /\ m \in KernelRecord /\ Consistent(m)
      /\ m.stat = Update(kd.stat, t, "suspend")
      /\ m.prio = Update(kd.prio, t, InitPrio[t])
      /\ m.list = kd.list /\ SameRest(kd, m)
  BY PrepareFacts DEF m
<1>2. m.stat[t] = "suspend"
  BY <1>1 DEF KernelRecord, Update
<1>3. r = MakeReady(m, t)
  BY <1>2 DEF Startup, Resume, m
<1>4. m.stat[t] \in {"ready", "suspend"}
  BY <1>2
<1>5. /\ r \in KernelRecord /\ Consistent(r)
      /\ r.stat = Update(m.stat, t, "ready") /\ r.prio = m.prio
      /\ SameRest(m, r) /\ SameLinks(m, r, t)
      /\ t \in Elements(r.list[m.prio[t]])
  BY <1>1, <1>3, <1>4, MakeReadyFacts
<1>6. r.stat = Update(kd.stat, t, "ready")
  BY <1>1, <1>5 DEF KernelRecord, Update
<1>7. SameRest(kd, r) /\ SameLinks(kd, r, t)
  BY <1>1, <1>5 DEF SameRest, SameLinks
<1> QED BY <1>1, <1>5, <1>6, <1>7

(* The kernel before the first thread is started *)
LEMMA BlankFacts ==
  ASSUME NEW st \in [Thread -> Stat], \A t \in Thread : st[t] \in DeadStat,
         NEW r, r = Blank(st)
  PROVE  /\ r \in KernelRecord /\ Consistent(r) /\ r.stat = st
         /\ \A q \in Queue : Elements(r.list[q]) = {}
         /\ r.cur = NoThread /\ r.lock = 0 /\ \A t \in Thread : r.timer[t] = FALSE
<1>1. InitTick \in 1 .. InitTick /\ InitPrio \in [Thread -> Prio]
  BY KernelAssumption
<1>2. r \in KernelRecord
  BY <1>1 DEF Blank, KernelRecord, QueueLists, Error
<1>3. /\ r.stat = st /\ r.group = {} /\ r.cur = NoThread /\ r.lock = 0
      /\ \A t \in Thread : r.timer[t] = FALSE
      /\ \A q \in Queue : r.list[q] = << >>
  BY DEF Blank
<1>4. \A q \in Queue : Elements(r.list[q]) = {}
  BY <1>3 DEF Elements
<1>5. LinkedOnce(r)
  <2>1. \A q \in Queue : DOMAIN r.list[q] = {}
    BY <1>3
  <2> QED BY <1>4, <2>1 DEF LinkedOnce
<1>6. QueuedReady(r) /\ BitmapExact(r)
  BY <1>3, <1>4 DEF QueuedReady, BitmapExact, Queue
<1>7. MaskExact(r)
  BY <1>3 DEF MaskExact, DeadStat
<1> QED BY <1>2, <1>3, <1>4, <1>5, <1>6, <1>7 DEF Consistent

-----------------------------------------------------------------------------
(* The invariant of the scheduler.                                         *)

(* A call in progress on another thread's behalf owns it: nobody else may  *)
(* link it or run it before the call is done.                              *)
Window(t) == pc[t] \in Resuming \cup Deleting

(* The timer of the thread that a call at this label works on may run:     *)
(* until rt_timer_detach has stopped it.  Without the calls that resume or *)
(* delete a thread, the thread is one that is started for the first time.  *)
TimerMayRun(label) == label # "delete2" /\ Ops \cap {"resume", "delete"} # {}

WindowsOwn ==
  \A t \in Thread : Window(t) =>
    /\ arg[t] # Idle /\ arg[t] # t /\ arg[t] # k.cur
    /\ k.timer[arg[t]] = FALSE \/ TimerMayRun(pc[t])
    /\ k.stat[t] \in {"ready", "suspend"}
    /\ \A u \in Thread : Window(u) /\ arg[u] = arg[t] => u = t

WindowsResume ==
  \A t \in Thread : pc[t] \in Resuming =>
    /\ k.stat[arg[t]] = "suspend"
    /\ pc[t] = "resume2" => Nowhere(k.list, arg[t])

WindowsDelete ==
  \A t \in Thread : pc[t] \in Deleting =>
    /\ k.stat[arg[t]] \in {"init", "ready", "suspend"}
    /\ Nowhere(k.list, arg[t])
    /\ ~Window(arg[t])

(* A thread that is not alive is in no list but rt_thread_defunct.         *)
DeadUnlinked ==
  /\ \A t \in Thread :
       k.stat[t] \in {"none", "init"} \/ (k.stat[t] = "close" /\ t \in Static)
         => Nowhere(k.list, t)
  /\ \A t \in Elements(k.list[Defunct]) : k.stat[t] = "close" /\ t \notin Static
  /\ \A t \in Thread : k.timer[t] => k.stat[t] \in {"ready", "suspend"}

Current ==
  k.cur # NoThread =>
    \/ k.stat[k.cur] \in {"ready", "suspend"}
    \/ k.stat[k.cur] = "close" /\ pc[k.cur] \in {"exit", "gone"}

Reaping ==
  \A t \in Thread : pc[t] = "free" =>
    /\ t = Idle
    /\ k.stat[arg[Idle]] = "close" /\ arg[Idle] \notin Static /\ arg[Idle] # k.cur
    /\ Nowhere(k.list, arg[Idle])

IdleReady == k.stat[Idle] = "ready" /\ ~k.timer[Idle]

IInv ==
  /\ TypeOK /\ QueuesConsistent
  /\ WindowsOwn /\ WindowsResume /\ WindowsDelete
  /\ DeadUnlinked /\ Current /\ Reaping /\ IdleReady /\ NoThreadLost

-----------------------------------------------------------------------------
(* Steps that open, advance or close no window.                            *)

InWindow == Resuming \cup Deleting \cup {"free"}

(* pc moves outside the windows, and a thread that has left stays away.    *)
OrdinaryMove ==
  /\ pc' \in [Thread -> PC] /\ arg' = arg
  /\ \A v \in Thread : pc'[v] = pc[v] \/ {pc[v], pc'[v]} \cap InWindow = {}
  /\ \A v \in Thread : pc[v] \in {"exit", "gone"} => pc'[v] \in {"exit", "gone"}

(* The step changes the state and the links of no thread outside U, a set  *)
(* of threads that no window owns and that are alive before and after.     *)
ChangesIn(U) ==
  /\ k' \in KernelRecord /\ Consistent(k')
  /\ \A u \in U :
       /\ ~Targeted(u)
       /\ k.stat[u] \in {"ready", "suspend"} /\ k'.stat[u] \in {"ready", "suspend"}
       /\ u \notin Elements(k'.list[Defunct])
       /\ k'.stat[u] = "ready" => u \in Elements(k'.list[k'.prio[u]])
  /\ \A v \in Thread \ U :
       /\ k'.stat[v] = k.stat[v] /\ k'.timer[v] = k.timer[v]
       /\ k.stat[v] = "ready" => k'.prio[v] = k.prio[v]
  /\ \A q \in Queue : Elements(k'.list[q]) \ U = Elements(k.list[q]) \ U
  /\ k'.stat[Idle] = "ready" /\ k'.timer[Idle] = FALSE

(* The same for one thread                                                 *)
ChangesOnly(u) ==
  /\ k' \in KernelRecord /\ Consistent(k')
  /\ ~Targeted(u)
  /\ k.stat[u] \in {"ready", "suspend"} /\ k'.stat[u] \in {"ready", "suspend"}
  /\ \A v \in Thread \ {u} :
       /\ k'.stat[v] = k.stat[v] /\ k'.timer[v] = k.timer[v]
       /\ k.stat[v] = "ready" => k'.prio[v] = k.prio[v]
  /\ SameLinks(k, k', u)
  /\ u \notin Elements(k'.list[Defunct])
  /\ k'.stat[u] = "ready" => u \in Elements(k'.list[k'.prio[u]])
  /\ k'.stat[Idle] = "ready" /\ k'.timer[Idle] = FALSE

SwitchesToReady ==
  k'.cur # k.cur =>
    /\ k'.cur \in Thread /\ k'.stat[k'.cur] = "ready"
    /\ k'.cur \in Elements(k'.list[k'.prio[k'.cur]])

(* A step that moves no window, and changes only the state and the links of *)
(* live threads that no window owns, preserves the invariant.              *)
LEMMA OrdinarySteps ==
  ASSUME IInv, NEW U \in SUBSET Thread, ChangesIn(U), OrdinaryMove, SwitchesToReady,
         isr' \in {"none", "clock"}, crit' \in [Thread -> Nat]
  PROVE  IInv'
<1> USE DEF ChangesIn, OrdinaryMove
<1>1. TypeOK'
  BY KernelTypeRecord DEF IInv, TypeOK
<1>2. QueuesConsistent'
  BY DEF QueuesConsistent
<1>3. \A v \in Thread : Window(v)' <=> Window(v)
  BY DEF Window, InWindow
<1>4. \A v \in Thread : Window(v) => arg[v] \in Thread \ U
  BY DEF Window, Targeted, Target, IInv, TypeOK
<1>5. \A v \in Thread \ U : Nowhere(k.list, v) => Nowhere(k'.list, v)
  BY DEF Nowhere
<1>6. \A v \in Thread : Nowhere(k'.list, v) \/ k'.stat[v] = "suspend" =>
         ~ (k'.stat[v] = "ready" /\ v \in Elements(k'.list[k'.prio[v]]))
  BY DEF Nowhere, Queue, KernelRecord
<1>7. WindowsResume'
  BY <1>3, <1>4, <1>5 DEF IInv, WindowsResume, Window, InWindow
<1>8. WindowsDelete'
  BY <1>3, <1>4, <1>5 DEF IInv, WindowsDelete, Window, InWindow
<1>9. WindowsOwn'
  <2> SUFFICES ASSUME NEW t \in Thread, Window(t)'
               PROVE  /\ arg'[t] # Idle /\ arg'[t] # t /\ arg'[t] # k'.cur
                      /\ k'.timer[arg'[t]] = FALSE \/ TimerMayRun(pc'[t])
                      /\ k'.stat[t] \in {"ready", "suspend"}
                      /\ \A v \in Thread : Window(v)' /\ arg'[v] = arg'[t] => v = t
    BY DEF WindowsOwn, TimerMayRun
  <2>1. Window(t) /\ arg'[t] = arg[t] /\ arg[t] \in Thread \ U
    BY <1>3, <1>4
  <2>5. pc'[t] = pc[t]
    BY DEF Window, InWindow
  <2>2. /\ arg[t] # Idle /\ arg[t] # t /\ arg[t] # k.cur
        /\ k.timer[arg[t]] = FALSE \/ TimerMayRun(pc[t])
        /\ k.stat[t] \in {"ready", "suspend"}
        /\ \A v \in Thread : Window(v) /\ arg[v] = arg[t] => v = t
    BY <2>1 DEF IInv, WindowsOwn
  <2>3. k'.stat[arg[t]] = "suspend" \/ Nowhere(k'.list, arg[t])
    BY <1>7, <1>8, <2>1 DEF WindowsResume, WindowsDelete, Window
  <2>4. arg[t] # k'.cur
    BY <1>6, <2>1, <2>2, <2>3 DEF SwitchesToReady
  <2> QED BY <1>3, <2>1, <2>2, <2>4, <2>5
<1>10. DeadUnlinked'
  <2>1. \A t \in Thread :
          k'.stat[t] \in {"none", "init"} \/ (k'.stat[t] = "close" /\ t \in Static)
            => Nowhere(k'.list, t)
    BY <1>5 DEF IInv, DeadUnlinked
  <2>2. \A t \in Elements(k'.list[Defunct]) : k'.stat[t] = "close" /\ t \notin Static
    <3> SUFFICES ASSUME NEW t \in Elements(k'.list[Defunct])
                 PROVE  k'.stat[t] = "close" /\ t \notin Static
      OBVIOUS
    <3>1. t \in Thread /\ t \notin U /\ t \in Elements(k.list[Defunct])
      <4>1. k'.list[Defunct] \in Seq(Thread)
        BY DEF KernelRecord, QueueLists, Queue
      <4>2. t \in Thread
        BY <4>1, EmptyElements
      <4>3. Defunct \in Queue
        BY DEF Queue
      <4> QED BY <4>2, <4>3
    <3> QED BY <3>1 DEF IInv, DeadUnlinked
  <2>3. \A t \in Thread : k'.timer[t] => k'.stat[t] \in {"ready", "suspend"}
    BY DEF IInv, DeadUnlinked
  <2> QED BY <2>1, <2>2, <2>3 DEF DeadUnlinked
<1>11. Current'
  <2>1. CASE k'.cur = k.cur
    <3>1. k.cur # NoThread => k.cur \in Thread
      BY KernelTypeRecord DEF IInv, TypeOK, KernelRecord
    <3>2. k.cur # NoThread =>
            \/ k'.stat[k.cur] \in {"ready", "suspend"}
            \/ k'.stat[k.cur] = "close" /\ pc'[k.cur] \in {"exit", "gone"}
      BY <3>1 DEF IInv, Current
    <3> QED BY <2>1, <3>2 DEF Current
  <2>2. CASE k'.cur # k.cur
    BY <2>2 DEF SwitchesToReady, Current
  <2> QED BY <2>1, <2>2
<1>12. Reaping'
  <2> SUFFICES ASSUME NEW t \in Thread, pc'[t] = "free"
               PROVE  /\ t = Idle
                      /\ k'.stat[arg[Idle]] = "close" /\ arg[Idle] \notin Static
                      /\ arg[Idle] # k'.cur /\ Nowhere(k'.list, arg[Idle])
    BY DEF Reaping
  <2>1. pc[t] = "free"
    BY DEF InWindow
  <2>2. /\ t = Idle
        /\ k.stat[arg[Idle]] = "close" /\ arg[Idle] \notin Static /\ arg[Idle] # k.cur
        /\ Nowhere(k.list, arg[Idle]) /\ arg[Idle] \in Thread
    BY <2>1, KernelAssumption DEF IInv, Reaping, TypeOK
  <2>3. arg[Idle] \notin U /\ k'.stat[arg[Idle]] = "close"
    BY <2>2
  <2> QED BY <1>5, <2>2, <2>3 DEF SwitchesToReady
<1>13. IdleReady'
  BY DEF IdleReady
<1>14. NoThreadLost'
  <2> SUFFICES ASSUME NEW t \in Thread, k'.stat[t] = "ready", t \notin U
               PROVE  \/ t \in Elements(k'.list[k'.prio[t]])
                      \/ \E v \in Thread : pc'[v] \in Deleting /\ arg'[v] = t
    BY DEF NoThreadLost
  <2>1. k.stat[t] = "ready" /\ k'.prio[t] = k.prio[t] /\ k.prio[t] \in Queue
    BY KernelTypeRecord DEF IInv, TypeOK, KernelRecord, Queue
  <2>2. CASE t \in Elements(k.list[k.prio[t]])
    BY <2>1, <2>2
  <2>3. CASE \E v \in Thread : pc[v] \in Deleting /\ arg[v] = t
    BY <2>3 DEF InWindow
  <2> QED BY <2>1, <2>2, <2>3 DEF IInv, NoThreadLost
<1> QED BY <1>1, <1>2, <1>7, <1>8, <1>9, <1>10, <1>11, <1>12, <1>13, <1>14 DEF IInv

(* The same for one thread                                                 *)
LEMMA OrdinaryStep ==
  ASSUME IInv, NEW u \in Thread, ChangesOnly(u), OrdinaryMove, SwitchesToReady,
         isr' \in {"none", "clock"}, crit' \in [Thread -> Nat]
  PROVE  IInv'
<1>1. ChangesIn({u})
  BY DEF ChangesOnly, ChangesIn, SameLinks
<1> QED BY <1>1, OrdinarySteps

-----------------------------------------------------------------------------
(* Facts of a state.                                                       *)

(* The invariant has the kernel record well-formed and the idle thread     *)
(* always ready and in its list, so that some ready list is not empty.     *)
LEMMA IdleFacts ==
  ASSUME IInv
  PROVE  /\ k \in KernelRecord /\ Consistent(k)
         /\ Idle \in Thread /\ k.stat[Idle] = "ready" /\ k.timer[Idle] = FALSE
         /\ ~Targeted(Idle)
         /\ Idle \in Elements(k.list[k.prio[Idle]])
         /\ k.group # {}
<1>1. k \in KernelRecord /\ Consistent(k) /\ Idle \in Thread /\ k.prio[Idle] \in Prio
  BY KernelTypeRecord, KernelAssumption DEF IInv, TypeOK, QueuesConsistent, KernelRecord
<1>2. \A t \in Thread : Window(t) => arg[t] # Idle
  BY DEF IInv, WindowsOwn
<1>3. ~Targeted(Idle)
  BY <1>2 DEF Targeted, Target, Window
<1>4. k.stat[Idle] = "ready" /\ k.timer[Idle] = FALSE
  BY <1>1 DEF IInv, IdleReady, KernelRecord
<1>5. Idle \in Elements(k.list[k.prio[Idle]])
  BY <1>1, <1>2, <1>4 DEF IInv, NoThreadLost, Window
<1>6. k.list[k.prio[Idle]] # << >>
  BY <1>5 DEF Elements
<1>7. k.group # {}
  BY <1>1, <1>6 DEF Consistent, BitmapExact
<1> QED BY <1>1, <1>3, <1>4, <1>5, <1>7

(* A thread in a ready list is in no other list.                           *)
LEMMA ReadyNotDefunct ==
  ASSUME NEW kd \in KernelRecord, Consistent(kd), NEW t \in Thread,
         t \in Elements(kd.list[kd.prio[t]])
  PROVE  t \notin Elements(kd.list[Defunct])
<1>1. kd.prio[t] \in Queue /\ Defunct \in Queue /\ kd.prio[t] # Defunct
  BY KernelAssumption DEF KernelRecord, Queue
<1> QED BY <1>1 DEF Consistent, LinkedOnce

(* The thread that calls the kernel is alive and no window owns it.        *)
LEMMA CallerFacts ==
  ASSUME IInv, NEW t \in Thread, Running(t), pc[t] \notin {"exit", "gone"}
  PROVE  k.cur = t /\ k.stat[t] \in {"ready", "suspend"} /\ ~Targeted(t)
<1>1. k.cur = t /\ k.cur # NoThread
  BY KernelAssumption DEF Running
<1>2. k.stat[t] \in {"ready", "suspend"}
  BY <1>1 DEF IInv, Current
<1>3. \A u \in Thread : Window(u) => arg[u] # t
  BY <1>1 DEF IInv, WindowsOwn
<1>4. ~Targeted(t)
  BY <1>3 DEF Targeted, Target, Window
<1> QED BY <1>1, <1>2, <1>4

(* A thread that goes from one label outside the windows to another makes an *)
(* ordinary move.                                                          *)
LEMMA GotoMove ==
  ASSUME IInv, NEW t \in Thread, NEW label, Goto(t, label), arg' = arg,
         pc[t] \notin InWindow, label \in PC, label \notin InWindow,
         pc[t] \in {"exit", "gone"} => label \in {"exit", "gone"}
  PROVE  OrdinaryMove
<1>1. pc \in [Thread -> PC]
  BY DEF IInv, TypeOK
<1>2. pc' = [pc EXCEPT ![t] = label]
  BY DEF Goto
<1>3. pc' \in [Thread -> PC] /\ \A v \in Thread : pc'[v] = IF v = t THEN label ELSE pc[v]
  BY <1>1, <1>2
<1> HIDE DEF InWindow
<1> QED BY <1>3 DEF OrdinaryMove

(* A step that moves no thread in its call makes an ordinary move.         *)
LEMMA StayMove ==
  ASSUME IInv, pc' = pc, arg' = arg
  PROVE  OrdinaryMove
BY DEF OrdinaryMove, IInv, TypeOK

(* rt_schedule switches to a ready thread in its ready list.               *)
LEMMA DispatchSwitch ==
  ASSUME Dispatched(k, k') PROVE SwitchesToReady
BY DEF Dispatched, SwitchesToReady

(* A step that changes none of these fields is a step that changes no      *)
(* thread but one that is allowed to change, say the idle thread.          *)
LEMMA Untouched ==
  ASSUME IInv, k' \in KernelRecord, k'.list = k.list, k'.stat = k.stat,
         k'.prio = k.prio, k'.timer = k.timer, Consistent(k')
  PROVE  ChangesOnly(Idle)
<1>1. Idle \notin Elements(k.list[Defunct])
  BY IdleFacts, ReadyNotDefunct
<1>2. SameLinks(k, k', Idle)
  BY DEF SameLinks
<1> QED BY <1>1, <1>2, IdleFacts DEF ChangesOnly

-----------------------------------------------------------------------------
(* The ordinary actions.                                                   *)

(* rt_system_scheduler_start preserves the invariant.                      *)
LEMMA StartStep ==
  ASSUME IInv, Start PROVE IInv'
<1>1. k' = Schedule(k) /\ isr' = isr /\ pc' = pc /\ arg' = arg /\ crit' = crit
  BY DEF Start
<1>2. /\ k' \in KernelRecord /\ Consistent(k') /\ k'.list = k.list
      /\ k'.stat = k.stat /\ k'.prio = k.prio /\ k'.timer = k.timer
  BY <1>1, IdleFacts, ScheduleFacts
<1>3. Dispatched(k, k')
  BY <1>1, IdleFacts, ScheduleFacts DEF Dispatched
<1>4. ChangesOnly(Idle) /\ SwitchesToReady /\ OrdinaryMove
  BY <1>1, <1>2, <1>3, Untouched, StayMove, DispatchSwitch
<1> QED BY <1>1, <1>4, IdleFacts, OrdinaryStep DEF IInv, TypeOK

(* The rt_schedule at the end of a call preserves the invariant.           *)
LEMMA RescheduleStep ==
  ASSUME IInv, NEW t \in Thread, Reschedule(t) PROVE IInv'
<1>1. /\ k' = Schedule(k) /\ isr' = isr /\ arg' = arg /\ crit' = crit
      /\ pc[t] \in {"sched", "block", "wait", "exit"} /\ Goto(t, AfterSchedule[pc[t]])
  BY DEF Reschedule, AfterSchedule
<1>2. /\ k' \in KernelRecord /\ Consistent(k') /\ k'.list = k.list
      /\ k'.stat = k.stat /\ k'.prio = k.prio /\ k'.timer = k.timer
  BY <1>1, IdleFacts, ScheduleFacts
<1>3. Dispatched(k, k')
  BY <1>1, IdleFacts, ScheduleFacts DEF Dispatched
<1>4. ChangesOnly(Idle) /\ SwitchesToReady
  BY <1>2, <1>3, Untouched, DispatchSwitch
<1>5. /\ AfterSchedule[pc[t]] \in {"app", "woken", "waited", "gone"}
      /\ pc[t] = "exit" => AfterSchedule[pc[t]] = "gone"
  BY <1>1 DEF AfterSchedule
<1>6. OrdinaryMove
  BY <1>1, <1>5, GotoMove DEF InWindow, Resuming, Deleting, PC
<1> QED BY <1>1, <1>4, <1>6, IdleFacts, OrdinaryStep DEF IInv, TypeOK

(* The end of rt_thread_sleep preserves the invariant.                     *)
LEMMA SleepReturnStep ==
  ASSUME IInv, NEW t \in Thread, SleepReturn(t) PROVE IInv'
<1> DEFINE e == IF k.error[t] = "ETIMEOUT" THEN "EOK" ELSE k.error[t]
<1>1. /\ k' = [k EXCEPT !.error[t] = e]
      /\ isr' = isr /\ arg' = arg /\ crit' = crit
      /\ pc[t] = "woken" /\ Goto(t, "app")
  BY DEF SleepReturn
<1>2. k \in KernelRecord /\ e \in Error
  BY IdleFacts DEF KernelRecord, Error
<1> HIDE DEF e
<1>3. k' \in KernelRecord
  BY <1>1, <1>2 DEF KernelRecord
<1>4. /\ k'.list = k.list /\ k'.stat = k.stat /\ k'.prio = k.prio /\ k'.mask = k.mask
      /\ k'.group = k.group /\ k'.timer = k.timer /\ k'.cur = k.cur
  BY <1>1, <1>2 DEF KernelRecord
<1>5. ChangesOnly(Idle) /\ SwitchesToReady
  BY <1>3, <1>4, IdleFacts, SameConsistent, Untouched DEF SwitchesToReady
<1>6. OrdinaryMove
  BY <1>1, GotoMove DEF InWindow, Resuming, Deleting, PC
<1> QED BY <1>1, <1>5, <1>6, IdleFacts, OrdinaryStep DEF IInv, TypeOK

(* rt_enter_critical, rt_exit_critical and rt_thread_find touch the lock   *)
(* only.                                                                   *)
LEMMA LockUntouched ==
  ASSUME IInv, NEW n \in Nat, k' = [k EXCEPT !.lock = n]
  PROVE  ChangesOnly(Idle) /\ SwitchesToReady
<1>1. k \in KernelRecord
  BY IdleFacts
<1>2. k' \in KernelRecord
  BY <1>1 DEF KernelRecord
<1>3. /\ k'.list = k.list /\ k'.stat = k.stat /\ k'.prio = k.prio /\ k'.mask = k.mask
      /\ k'.group = k.group /\ k'.timer = k.timer /\ k'.cur = k.cur
  BY <1>1 DEF KernelRecord
<1> QED BY <1>2, <1>3, IdleFacts, SameConsistent, Untouched DEF SwitchesToReady

(* rt_enter_critical, rt_exit_critical and rt_thread_find preserve the     *)
(* invariant.                                                              *)
LEMMA CriticalStep ==
  ASSUME IInv, NEW t \in Thread, Enter(t) \/ Leave(t) \/ FindThread(t) PROVE IInv'
<1>1. k.lock \in Nat /\ crit \in [Thread -> Nat]
  BY IdleFacts DEF KernelRecord, IInv, TypeOK
<1>2. CASE Enter(t)
  <2>1. ChangesOnly(Idle) /\ SwitchesToReady
    BY <1>1, <1>2, LockUntouched DEF Enter, EnterCritical
  <2>2. OrdinaryMove
    BY <1>2, StayMove DEF Enter
  <2>3. crit' \in [Thread -> Nat] /\ isr' = isr
    BY <1>1, <1>2 DEF Enter
  <2> QED BY <2>1, <2>2, <2>3, IdleFacts, OrdinaryStep DEF IInv, TypeOK
<1>3. CASE Leave(t) \/ FindThread(t)
  <2>1. /\ k' = LeaveCritical(k) /\ arg' = arg /\ isr' = isr
        /\ pc[t] = "app" /\ Goto(t, IF k'.lock = 0 THEN "sched" ELSE "app")
    BY <1>3 DEF Leave, FindThread, Call
  <2>2. crit' \in [Thread -> Nat]
    BY <1>1, <1>3 DEF Leave, FindThread
  <2>3. ChangesOnly(Idle) /\ SwitchesToReady
    BY <1>1, <2>1, LockUntouched DEF LeaveCritical
  <2>4. OrdinaryMove
    BY <2>1, GotoMove DEF InWindow, Resuming, Deleting, PC
  <2> QED BY <2>1, <2>2, <2>3, <2>4, IdleFacts, OrdinaryStep DEF IInv, TypeOK
<1> QED BY <1>2, <1>3

(* rt_thread_yield preserves the invariant.                                *)
LEMMA YieldStep ==
  ASSUME IInv, NEW t \in Thread, YieldThread(t) PROVE IInv'
<1>1. /\ k' = Rotate(k, t) /\ CanRotate(k, t) /\ isr' = isr /\ arg' = arg /\ crit' = crit
      /\ Running(t) /\ pc[t] = "app" /\ Goto(t, "sched")
  BY DEF YieldThread, Call
<1>2. k.cur = t /\ k.stat[t] = "ready" /\ ~Targeted(t)
  BY <1>1, CallerFacts DEF CanRotate
<1>3. /\ k' \in KernelRecord /\ Consistent(k')
      /\ k'.stat = k.stat /\ k'.prio = k.prio
      /\ SameRest(k, k') /\ SameLinks(k, k', t)
      /\ t \in Elements(k'.list[k.prio[t]])
  BY <1>1, IdleFacts, RotateFacts
<1>4. t \notin Elements(k'.list[Defunct])
  BY <1>3, ReadyNotDefunct
<1>5. ChangesOnly(t) /\ SwitchesToReady
  BY <1>2, <1>3, <1>4, IdleFacts DEF ChangesOnly, SwitchesToReady, SameRest
<1>6. OrdinaryMove
  BY <1>1, GotoMove DEF InWindow, Resuming, Deleting, PC
<1> QED BY <1>1, <1>5, <1>6, OrdinaryStep DEF IInv, TypeOK

(* rt_thread_suspend preserves the invariant.                              *)
LEMMA SuspendStep ==
  ASSUME IInv, NEW t \in Thread, NEW u \in Thread, SuspendThread(t, u) PROVE IInv'
<1>1. /\ k' = Suspend(k, u) /\ isr' = isr /\ arg' = arg /\ crit' = crit
      /\ Running(t) /\ pc[t] = "app" /\ k.stat[u] \in {"ready", "suspend"}
      /\ u # Idle /\ ~Targeted(u)
      /\ IF u = t THEN Goto(t, "sched") ELSE pc' = pc
  BY DEF SuspendThread, Call, Free
<1>2. /\ k' \in KernelRecord /\ Consistent(k')
      /\ k'.stat = Update(k.stat, u, "suspend") /\ k'.prio = k.prio
      /\ k'.timer = Disarm(k.timer, u) /\ k'.cur = k.cur
      /\ SameLinks(k, k', u) /\ Nowhere(k'.list, u)
  BY <1>1, IdleFacts, SuspendFacts
<1>3. u \notin Elements(k'.list[Defunct])
  BY <1>2 DEF Nowhere, Queue
<1>4. /\ k'.stat[u] = "suspend"
      /\ \A v \in Thread \ {u} : k'.stat[v] = k.stat[v] /\ k'.timer[v] = k.timer[v]
  BY <1>2, IdleFacts DEF KernelRecord, Update, Disarm
<1>5. ChangesOnly(u) /\ SwitchesToReady
  BY <1>1, <1>2, <1>3, <1>4, IdleFacts DEF ChangesOnly, SwitchesToReady
<1>6. OrdinaryMove
  BY <1>1, GotoMove, StayMove DEF InWindow, Resuming, Deleting, PC
<1> QED BY <1>1, <1>5, <1>6, OrdinaryStep DEF IInv, TypeOK

(* The section of rt_thread_sleep that suspends the thread and starts its  *)
(* timer preserves the invariant.                                          *)
LEMMA SleepStep ==
  ASSUME IInv, NEW t \in Thread, SleepThread(t) PROVE IInv'
<1> DEFINE s == Suspend(k, t)
<1>1. /\ k' = StartTimer(s, t) /\ isr' = isr /\ arg' = arg /\ crit' = crit
      /\ Running(t) /\ pc[t] = "app" /\ t # Idle /\ Goto(t, "block")
  BY DEF SleepThread, Call
<1>2. k.cur = t /\ k.stat[t] \in {"ready", "suspend"} /\ ~Targeted(t)
  BY <1>1, CallerFacts
<1>3. /\ s \in KernelRecord /\ Consistent(s)
      /\ s.stat = Update(k.stat, t, "suspend") /\ s.prio = k.prio
      /\ s.timer = Disarm(k.timer, t) /\ s.cur = k.cur
      /\ SameLinks(k, s, t) /\ Nowhere(s.list, t)
  <2> HIDE DEF s
  <2> QED BY <1>2, IdleFacts, SuspendFacts DEF s
<1> HIDE DEF s
<1>4. k' = [s EXCEPT !.timer[t] = TRUE]
  BY <1>1 DEF StartTimer
<1>5. k' \in KernelRecord
  BY <1>3, <1>4 DEF KernelRecord
<1>6. /\ k'.list = s.list /\ k'.stat = s.stat /\ k'.prio = s.prio /\ k'.mask = s.mask
      /\ k'.group = s.group /\ k'.cur = s.cur
  BY <1>3, <1>4 DEF KernelRecord
<1>7. \A v \in Thread \ {t} : k'.timer[v] = s.timer[v]
  BY <1>3, <1>4 DEF KernelRecord
<1>8. Consistent(k')
  BY <1>3, <1>6, SameConsistent
<1>9. /\ k'.stat[t] = "suspend"
      /\ \A v \in Thread \ {t} : k'.stat[v] = k.stat[v] /\ k'.timer[v] = k.timer[v]
  BY <1>3, <1>6, <1>7, IdleFacts DEF KernelRecord, Update, Disarm
<1>10. t \notin Elements(k'.list[Defunct]) /\ SameLinks(k, k', t)
  BY <1>3, <1>6 DEF Nowhere, Queue, SameLinks
<1>11. ChangesOnly(t) /\ SwitchesToReady
  BY <1>1, <1>2, <1>3, <1>5, <1>6, <1>8, <1>9, <1>10, IdleFacts, ZenonT(60)
     DEF ChangesOnly, SwitchesToReady
<1>12. OrdinaryMove
  BY <1>1, GotoMove DEF InWindow, Resuming, Deleting, PC
<1> QED BY <1>1, <1>11, <1>12, OrdinaryStep DEF IInv, TypeOK

(* A change of priority by rt_thread_control preserves the invariant.      *)
LEMMA PriorityStep ==
  ASSUME IInv, NEW t \in Thread, NEW u \in Thread, NEW p \in Prio,
         ChangeThreadPriority(t, u, p)
  PROVE  IInv'
<1>1. /\ k' = ChangePriority(k, u, p) /\ isr' = isr /\ arg' = arg /\ crit' = crit
      /\ pc[t] = "app" /\ k.stat[u] \in {"init", "ready", "suspend"}
      /\ u # Idle /\ ~Targeted(u) /\ Goto(t, "sched")
  BY DEF ChangeThreadPriority, Call, Free
<1>2. /\ k' \in KernelRecord /\ Consistent(k')
      /\ k'.stat = k.stat /\ SameRest(k, k') /\ SameLinks(k, k', u)
      /\ k'.prio = Update(k.prio, u, p)
      /\ k.stat[u] = "ready" => u \in Elements(k'.list[p])
      /\ k.stat[u] # "ready" => k'.list = k.list
  BY <1>1, IdleFacts, ChangePriorityFacts
<1>3. k'.prio[u] = p /\ \A v \in Thread \ {u} : k'.prio[v] = k.prio[v]
  BY <1>2, IdleFacts DEF KernelRecord, Update
<1>4. k'.timer = k.timer /\ k'.cur = k.cur
  BY <1>2 DEF SameRest
<1>5. CASE k.stat[u] = "ready"
  <2>1. u \notin Elements(k'.list[Defunct])
    BY <1>2, <1>3, <1>5, ReadyNotDefunct
  <2>2. ChangesOnly(u)
    BY <1>1, <1>2, <1>3, <1>4, <1>5, <2>1, IdleFacts DEF ChangesOnly
  <2> QED BY <1>1, <1>4, <2>2, OrdinaryStep, GotoMove
          DEF SwitchesToReady, IInv, TypeOK, InWindow, Resuming, Deleting, PC
<1>6. CASE k.stat[u] # "ready"
  <2>1. Idle \notin Elements(k.list[Defunct])
    BY IdleFacts, ReadyNotDefunct
  <2>2. k'.list = k.list /\ SameLinks(k, k', Idle)
    BY <1>2, <1>6 DEF SameLinks
  <2>3. ChangesOnly(Idle)
    BY <1>1, <1>2, <1>3, <1>4, <1>6, <2>1, <2>2, IdleFacts DEF ChangesOnly
  <2> QED BY <1>1, <1>4, <2>3, OrdinaryStep, GotoMove, IdleFacts
          DEF SwitchesToReady, IInv, TypeOK, InWindow, Resuming, Deleting, PC
<1> QED BY <1>5, <1>6

(* The time slice of rt_tick_increase preserves the invariant.             *)
LEMMA ClockEnterStep ==
  ASSUME IInv, ClockEnter PROVE IInv'
<1>1. /\ k' = TimeSlice(k) /\ k.cur # NoThread /\ isr' = "clock"
      /\ pc' = pc /\ arg' = arg /\ crit' = crit
  BY DEF ClockEnter
<1>2. k \in KernelRecord /\ Consistent(k) /\ k.cur \in Thread
  BY <1>1, IdleFacts DEF KernelRecord
<1>3. /\ k' \in KernelRecord /\ Consistent(k')
      /\ k'.stat = k.stat /\ k'.prio = k.prio /\ k'.timer = k.timer
      /\ \/ k'.list = k.list /\ k'.cur = k.cur /\ k'.group = k.group
         \/ /\ k.stat[k.cur] = "ready" /\ SameLinks(k, k', k.cur)
            /\ k.cur \in Elements(k'.list[k.prio[k.cur]])
            /\ Dispatched(k, k')
  BY <1>1, <1>2, TimeSliceFacts
<1>4. OrdinaryMove
  BY <1>1, StayMove
<1>5. CASE k'.list = k.list /\ k'.cur = k.cur
  BY <1>1, <1>3, <1>4, <1>5, Untouched, IdleFacts, OrdinaryStep
  DEF SwitchesToReady, IInv, TypeOK
<1>6. CASE /\ k.stat[k.cur] = "ready" /\ SameLinks(k, k', k.cur)
           /\ k.cur \in Elements(k'.list[k.prio[k.cur]])
           /\ Dispatched(k, k')
  <2> DEFINE u == k.cur
  <2>1. u \in Thread /\ u \notin Elements(k'.list[Defunct])
    BY <1>2, <1>3, <1>6, ReadyNotDefunct
  <2>2. ~Targeted(u)
    BY DEF Targeted, Target, IInv, WindowsOwn, Window
  <2>3. ChangesOnly(u)
    BY <1>3, <1>6, <2>1, <2>2, IdleFacts DEF ChangesOnly
  <2>4. SwitchesToReady
    BY <1>6, DispatchSwitch
  <2> QED BY <1>1, <1>4, <2>1, <2>3, <2>4, OrdinaryStep DEF IInv, TypeOK
<1> QED BY <1>3, <1>5, <1>6

(* The end of the clock interrupt preserves the invariant.                 *)
LEMMA ClockLeaveStep ==
  ASSUME IInv, ClockLeave PROVE IInv'
<1>1. k' = k /\ isr' = "none" /\ pc' = pc /\ arg' = arg /\ crit' = crit
  BY DEF ClockLeave
<1>2. ChangesOnly(Idle) /\ OrdinaryMove
  BY <1>1, IdleFacts, Untouched, StayMove
<1> QED BY <1>1, <1>2, IdleFacts, OrdinaryStep DEF SwitchesToReady, IInv, TypeOK

(* A thread timer that expires (rt_thread_timeout) while no call works on  *)
(* the thread preserves the invariant.                                     *)
LEMMA ExpireStep ==
  ASSUME IInv, NEW t \in Thread, CalmExpire(t) PROVE IInv'
<1>1. /\ k' = Timeout(k, t) /\ k.timer[t] /\ isr' = isr /\ pc' = pc /\ arg' = arg
      /\ crit' = crit
  BY DEF CalmExpire, Expire
<1>2. k.stat[t] \in {"ready", "suspend"} /\ k.timer[t] # FALSE
  BY <1>1 DEF IInv, DeadUnlinked
<1>3. ~Targeted(t)
  BY DEF CalmExpire
<1>4. /\ k' \in KernelRecord /\ Consistent(k')
      /\ k'.stat = Update(k.stat, t, "ready") /\ k'.prio = k.prio
      /\ k'.timer = Disarm(k.timer, t)
      /\ SameLinks(k, k', t) /\ t \in Elements(k'.list[k.prio[t]])
      /\ Dispatched(k, k')
  BY <1>1, <1>2, IdleFacts, TimeoutFacts
<1>5. /\ k'.stat[t] = "ready"
      /\ \A v \in Thread \ {t} : k'.stat[v] = k.stat[v] /\ k'.timer[v] = k.timer[v]
  BY <1>4, IdleFacts DEF KernelRecord, Update, Disarm
<1>6. t # Idle /\ t \notin Elements(k'.list[Defunct])
  BY <1>2, <1>4, IdleFacts, ReadyNotDefunct
<1>7. ChangesOnly(t)
  BY <1>2, <1>3, <1>4, <1>5, <1>6, IdleFacts DEF ChangesOnly
<1> QED BY <1>1, <1>4, <1>7, DispatchSwitch, StayMove, OrdinaryStep DEF IInv, TypeOK

(* An interrupt that resumes a thread and calls rt_schedule preserves the  *)
(* invariant.                                                              *)
LEMMA DeviceStep ==
  ASSUME IInv, NEW u \in Thread, DeviceResume(u) PROVE IInv'
<1> DEFINE m == MakeReady(k, u)
<1>1. /\ k' = Schedule(m) /\ isr' = isr /\ pc' = pc /\ arg' = arg /\ crit' = crit
      /\ k.stat[u] = "suspend" /\ ~Targeted(u)
  BY DEF DeviceResume, Resume, Free
<1>2. /\ m \in KernelRecord /\ Consistent(m)
      /\ m.stat = Update(k.stat, u, "ready") /\ m.prio = k.prio
      /\ SameRest(k, m) /\ SameLinks(k, m, u)
      /\ m.group = k.group \cup {k.prio[u]}
      /\ u \in Elements(m.list[k.prio[u]])
  <2> HIDE DEF m
  <2>1. k.stat[u] \in {"ready", "suspend"}
    BY <1>1
  <2> QED BY <2>1, IdleFacts, MakeReadyFacts DEF m
<1> HIDE DEF m
<1>3. m.group # {}
  BY <1>2
<1>4. /\ k' \in KernelRecord /\ Consistent(k')
      /\ k'.list = m.list /\ k'.stat = m.stat /\ k'.prio = m.prio /\ k'.timer = m.timer
  BY <1>1, <1>2, <1>3, ScheduleFacts
<1>5. Dispatched(m, k')
  BY <1>1, <1>2, <1>3, ScheduleFacts DEF Dispatched
<1>6. Dispatched(k, k')
  BY <1>2, <1>5 DEF Dispatched, SameRest
<1>7. /\ k'.stat[u] = "ready" /\ k'.timer = k.timer
      /\ \A v \in Thread \ {u} : k'.stat[v] = k.stat[v]
  BY <1>2, <1>4, IdleFacts DEF KernelRecord, Update, SameRest
<1>8. u \notin Elements(k'.list[Defunct]) /\ SameLinks(k, k', u)
  BY <1>2, <1>4, ReadyNotDefunct DEF SameLinks
<1>9. u # Idle
  BY <1>1, IdleFacts
<1>10. ChangesOnly(u)
  BY <1>1, <1>2, <1>4, <1>7, <1>8, <1>9, IdleFacts DEF ChangesOnly
<1> QED BY <1>1, <1>6, <1>10, DispatchSwitch, StayMove, OrdinaryStep DEF IInv, TypeOK

-----------------------------------------------------------------------------
(* The windows of rt_thread_resume and rt_thread_delete.                   *)

(* The running thread t owns u before the step, after it or both, and the  *)
(* step changes the state and the links of u only.                         *)
WorksOn(t, u) ==
  /\ k.cur = t /\ t # u /\ u # Idle
  /\ pc[t] # "free" /\ (Window(t) => arg[t] = u)
  /\ \A v \in Thread \ {t} : Window(v) => arg[v] # u
  /\ k.stat[t] \in {"ready", "suspend"}
  /\ k.stat[u] \in {"init", "ready", "suspend"}
  /\ k' \in KernelRecord /\ Consistent(k') /\ k'.cur = k.cur
  /\ \A v \in Thread \ {u} :
       k'.stat[v] = k.stat[v] /\ k'.timer[v] = k.timer[v] /\ k'.prio[v] = k.prio[v]
  /\ SameLinks(k, k', u)

(* What the step leaves of u, by the label it takes t to                   *)
Leaves(t, u) ==
  /\ pc'[t] \in Resuming \cup Deleting => k'.timer[u] = FALSE \/ TimerMayRun(pc'[t])
  /\ k'.timer[u] = FALSE \/ k'.stat[u] \in {"ready", "suspend"}
  /\ pc'[t] \in Resuming =>
       k'.stat[u] = "suspend" /\ (pc'[t] = "resume2" => Nowhere(k'.list, u))
  /\ pc'[t] \in Deleting =>
       /\ k'.stat[u] \in {"init", "ready", "suspend"} /\ Nowhere(k'.list, u)
       /\ ~Window(u)
  /\ pc'[t] \notin Deleting /\ k'.stat[u] = "ready" =>
       u \in Elements(k'.list[k'.prio[u]])
  /\ k'.stat[u] \in {"none", "init"} \/ (k'.stat[u] = "close" /\ u \in Static) =>
       Nowhere(k'.list, u)
  /\ u \in Elements(k'.list[Defunct]) => k'.stat[u] = "close" /\ u \notin Static
  /\ k'.stat[u] \notin {"ready", "suspend"} => ~Window(u)

(* A step of thread t that works on thread u alone, and leaves of u what the *)
(* label it takes t to asks for, preserves the invariant.                  *)
LEMMA WindowStep ==
  ASSUME IInv, NEW t \in Thread, NEW u \in Thread, WorksOn(t, u), Leaves(t, u),
         NEW label \in PC, label # "free", Goto(t, label),
         NEW x \in Thread, arg' = [arg EXCEPT ![t] = x],
         label \in Resuming \cup Deleting => x = u,
         isr' \in {"none", "clock"}, crit' \in [Thread -> Nat]
  PROVE  IInv'
<1> USE DEF WorksOn
<1>1. /\ pc \in [Thread -> PC] /\ arg \in [Thread -> Thread] /\ k \in KernelRecord
      /\ Idle \in Thread
  BY KernelAssumption, KernelTypeRecord DEF IInv, TypeOK
<1>2. /\ pc' \in [Thread -> PC] /\ arg' \in [Thread -> Thread]
      /\ pc'[t] = label /\ arg'[t] = x
      /\ \A v \in Thread \ {t} : pc'[v] = pc[v] /\ arg'[v] = arg[v]
  BY <1>1 DEF Goto
<1>3. TypeOK'
  BY <1>2, KernelTypeRecord DEF TypeOK
<1>4. QueuesConsistent'
  BY DEF QueuesConsistent
<1>5. /\ \A v \in Thread \ {t} : Window(v)' <=> Window(v)
      /\ Window(t)' => arg'[t] = u
  BY <1>2 DEF Window
<1>6. \A v \in Thread \ {u} : Nowhere(k.list, v) => Nowhere(k'.list, v)
  BY DEF Nowhere, SameLinks
<1>7. \A v \in Thread \ {t} : Window(v) => arg[v] \in Thread \ {t, u, Idle}
  BY <1>1 DEF IInv, WindowsOwn
<1>8. WindowsResume'
  <2> SUFFICES ASSUME NEW v \in Thread, pc'[v] \in Resuming
               PROVE  /\ k'.stat[arg'[v]] = "suspend"
                      /\ pc'[v] = "resume2" => Nowhere(k'.list, arg'[v])
    BY DEF WindowsResume
  <2>1. CASE v = t
    BY <1>2, <2>1 DEF Leaves
  <2>2. CASE v # t
    BY <1>2, <1>6, <1>7, <2>2 DEF IInv, WindowsResume, Window
  <2> QED BY <2>1, <2>2
<1>9. WindowsDelete'
  <2> SUFFICES ASSUME NEW v \in Thread, pc'[v] \in Deleting
               PROVE  /\ k'.stat[arg'[v]] \in {"init", "ready", "suspend"}
                      /\ Nowhere(k'.list, arg'[v])
                      /\ pc'[arg'[v]] \notin Resuming \cup Deleting
    BY DEF WindowsDelete, Window
  <2>1. CASE v = t
    BY <1>2, <2>1 DEF Leaves, Window
  <2>2. CASE v # t
    <3>1. /\ pc[v] \in Deleting /\ arg'[v] = arg[v] /\ arg[v] \in Thread \ {t, u}
      BY <1>2, <1>7, <2>2 DEF Window
    <3>2. /\ k.stat[arg[v]] \in {"init", "ready", "suspend"}
          /\ Nowhere(k.list, arg[v]) /\ ~Window(arg[v])
      BY <3>1 DEF IInv, WindowsDelete
    <3> QED BY <1>2, <1>6, <3>1, <3>2 DEF Window
  <2> QED BY <2>1, <2>2
<1>10. WindowsOwn'
  <2> SUFFICES ASSUME NEW v \in Thread, Window(v)'
               PROVE  /\ arg'[v] # Idle /\ arg'[v] # v /\ arg'[v] # k'.cur
                      /\ k'.timer[arg'[v]] = FALSE \/ TimerMayRun(pc'[v])
                      /\ k'.stat[v] \in {"ready", "suspend"}
                      /\ \A w \in Thread : Window(w)' /\ arg'[w] = arg'[v] => w = v
    BY DEF WindowsOwn, TimerMayRun
  <2>1. \A w \in Thread : Window(w)' => (arg'[w] = u <=> w = t)
    BY <1>2, <1>5, <1>7
  <2>2. CASE v = t
    <3>1. k'.timer[u] = FALSE \/ TimerMayRun(pc'[t])
      BY <2>2 DEF Leaves, Window
    <3> QED BY <1>2, <1>5, <2>1, <2>2, <3>1
  <2>3. CASE v # t
    <3>1. /\ Window(v) /\ arg'[v] = arg[v] /\ pc'[v] = pc[v]
          /\ arg[v] \in Thread \ {t, u, Idle}
      BY <1>2, <1>5, <1>7, <2>3
    <3>2. /\ arg[v] # v
          /\ k.timer[arg[v]] = FALSE \/ TimerMayRun(pc[v])
          /\ k.stat[v] \in {"ready", "suspend"}
          /\ \A w \in Thread : Window(w) /\ arg[w] = arg[v] => w = v
      BY <3>1 DEF IInv, WindowsOwn
    <3>3. k'.stat[v] \in {"ready", "suspend"}
      BY <3>1, <3>2 DEF Leaves
    <3> QED BY <1>2, <1>5, <2>1, <2>3, <3>1, <3>2, <3>3
  <2> QED BY <2>2, <2>3
<1>11. DeadUnlinked'
  <2>1. \A v \in Thread :
          k'.stat[v] \in {"none", "init"} \/ (k'.stat[v] = "close" /\ v \in Static)
            => Nowhere(k'.list, v)
    BY <1>6 DEF IInv, DeadUnlinked, Leaves
  <2>2. \A v \in Elements(k'.list[Defunct]) : k'.stat[v] = "close" /\ v \notin Static
    <3> SUFFICES ASSUME NEW v \in Elements(k'.list[Defunct]), v # u
                 PROVE  k'.stat[v] = "close" /\ v \notin Static
      BY DEF Leaves
    <3>1. Defunct \in Queue /\ k'.list[Defunct] \in Seq(Thread)
      BY DEF KernelRecord, QueueLists, Queue
    <3>2. v \in Thread
      BY <3>1, EmptyElements
    <3>3. v \in Elements(k.list[Defunct])
      BY <3>1 DEF SameLinks
    <3> QED BY <3>2, <3>3 DEF IInv, DeadUnlinked
  <2>3. \A v \in Thread : k'.timer[v] => k'.stat[v] \in {"ready", "suspend"}
    BY DEF IInv, DeadUnlinked, Leaves
  <2> QED BY <2>1, <2>2, <2>3 DEF DeadUnlinked
<1>12. Current'
  BY DEF Current
<1>13. Reaping'
  <2> SUFFICES ASSUME NEW v \in Thread, pc'[v] = "free"
               PROVE  /\ v = Idle
                      /\ k'.stat[arg'[Idle]] = "close" /\ arg'[Idle] \notin Static
                      /\ arg'[Idle] # k'.cur /\ Nowhere(k'.list, arg'[Idle])
    BY DEF Reaping
  <2>1. pc[v] = "free" /\ v # t
    BY <1>2
  <2>2. /\ v = Idle /\ arg'[Idle] = arg[Idle] /\ arg[Idle] \in Thread
        /\ k.stat[arg[Idle]] = "close" /\ arg[Idle] \notin Static /\ arg[Idle] # k.cur
        /\ Nowhere(k.list, arg[Idle])
    BY <1>1, <1>2, <2>1 DEF IInv, Reaping
  <2>3. arg[Idle] # u
    BY <2>2
  <2> QED BY <1>6, <2>1, <2>2, <2>3
<1>14. IdleReady'
  BY <1>1 DEF IInv, IdleReady
<1>15. NoThreadLost'
  <2> SUFFICES ASSUME NEW v \in Thread, k'.stat[v] = "ready"
               PROVE  \/ v \in Elements(k'.list[k'.prio[v]])
                      \/ \E w \in Thread : pc'[w] \in Deleting /\ arg'[w] = v
    BY DEF NoThreadLost
  <2>1. CASE v = u
    BY <1>2, <2>1 DEF Leaves
  <2>2. CASE v # u
    <3>1. k.stat[v] = "ready" /\ k'.prio[v] = k.prio[v] /\ k.prio[v] \in Queue
      BY <1>1, <2>2 DEF KernelRecord, Queue
    <3>2. CASE v \in Elements(k.list[k.prio[v]])
      BY <2>2, <3>1, <3>2 DEF SameLinks
    <3>3. CASE \E w \in Thread : pc[w] \in Deleting /\ arg[w] = v
      <4>1. PICK w \in Thread : pc[w] \in Deleting /\ arg[w] = v
        BY <3>3
      <4>2. w # t
        BY <2>2, <4>1 DEF Window
      <4> QED BY <1>2, <4>1, <4>2
    <3> QED BY <3>1, <3>2, <3>3 DEF IInv, NoThreadLost
  <2> QED BY <2>1, <2>2
<1> QED BY <1>3, <1>4, <1>8, <1>9, <1>10, <1>11, <1>12, <1>13, <1>14, <1>15 DEF IInv

(* A thread that is not alive is in no ready list, has no running timer and *)
(* is in no call on another thread.                                        *)
LEMMA DeadFacts ==
  ASSUME IInv, NEW u \in Thread, k.stat[u] \in {"none", "init", "close"}
  PROVE  /\ NotQueued(k, u) /\ k.timer[u] = FALSE /\ ~Window(u)
         /\ k.stat[u] \in {"none", "init"} => Nowhere(k.list, u)
<1>1. k \in KernelRecord /\ Consistent(k)
  BY IdleFacts
<1>2. NotQueued(k, u)
  BY <1>1 DEF NotQueued, Consistent, QueuedReady
<1>3. k.timer[u] = FALSE
  BY <1>1 DEF IInv, DeadUnlinked, KernelRecord
<1>4. ~Window(u)
  BY DEF IInv, WindowsOwn
<1>5. k.stat[u] \in {"none", "init"} => Nowhere(k.list, u)
  BY DEF IInv, DeadUnlinked
<1> QED BY <1>2, <1>3, <1>4, <1>5

(* rt_thread_startup up to its rt_thread_resume preserves the invariant.   *)
LEMMA StartupStep ==
  ASSUME IInv, NEW t \in Thread, NEW u \in Thread, StartupThread(t, u) PROVE IInv'
<1>1. /\ k' = PrepareStartup(k, u) /\ isr' = isr /\ crit' = crit
      /\ arg' = [arg EXCEPT ![t] = u] /\ Goto(t, "resume1")
      /\ Running(t) /\ pc[t] = "app" /\ t # Idle
      /\ k.stat[u] = "init" /\ u # Idle /\ ~Targeted(u)
  BY DEF StartupThread, Call, Free
<1>2. k.cur = t /\ k.stat[t] \in {"ready", "suspend"} /\ u # t
  BY <1>1, CallerFacts
<1>3. NotQueued(k, u) /\ Nowhere(k.list, u) /\ k.timer[u] = FALSE /\ ~Window(u)
  BY <1>1, DeadFacts
<1>4. k \in KernelRecord /\ Consistent(k) /\ InitPrio[u] \in Prio
  BY IdleFacts, KernelAssumption
<1>5. /\ k' \in KernelRecord /\ Consistent(k')
      /\ k'.stat = Update(k.stat, u, "suspend") /\ k'.prio = Update(k.prio, u, InitPrio[u])
      /\ k'.list = k.list /\ SameRest(k, k')
  BY <1>1, <1>3, <1>4, PrepareFacts
<1>6. /\ k'.cur = k.cur /\ k'.timer = k.timer /\ k'.stat[u] = "suspend"
      /\ \A v \in Thread \ {u} : k'.stat[v] = k.stat[v] /\ k'.prio[v] = k.prio[v]
  BY <1>4, <1>5 DEF SameRest, Update, KernelRecord
<1>10. WorksOn(t, u)
  BY <1>1, <1>2, <1>3, <1>5, <1>6
  DEF WorksOn, Window, Resuming, Deleting, Targeted, Target, SameLinks
<1>11. pc'[t] = "resume1"
  BY <1>1 DEF Goto, IInv, TypeOK
<1>12. Leaves(t, u)
  BY <1>3, <1>5, <1>6, <1>11 DEF Leaves, Resuming, Deleting, Nowhere, Queue
<1> QED BY <1>1, <1>10, <1>12, WindowStep DEF IInv, TypeOK, PC

(* The check of the state at the start of rt_thread_resume preserves the   *)
(* invariant.                                                              *)
LEMMA ResumeStep ==
  ASSUME IInv, NEW t \in Thread, NEW u \in Thread, ResumeThread(t, u) PROVE IInv'
<1>1. /\ k' = k /\ isr' = isr /\ crit' = crit
      /\ arg' = [arg EXCEPT ![t] = u] /\ Goto(t, "resume1")
      /\ Running(t) /\ pc[t] = "app" /\ t # Idle
      /\ k.stat[u] = "suspend" /\ u # Idle /\ u # t /\ ~Targeted(u)
      /\ TimerMayRun("resume1")
  BY DEF ResumeThread, Call, Free, TimerMayRun
<1>2. k.cur = t /\ k.stat[t] \in {"ready", "suspend"}
  BY <1>1, CallerFacts
<1>3. k \in KernelRecord /\ Consistent(k)
  BY IdleFacts
<1>4. WorksOn(t, u)
  BY <1>1, <1>2, <1>3 DEF WorksOn, Window, Resuming, Deleting, Targeted, Target, SameLinks
<1>5. u \notin Elements(k.list[Defunct])
  BY <1>1 DEF IInv, DeadUnlinked
<1>6. pc'[t] = "resume1"
  BY <1>1 DEF Goto, IInv, TypeOK
<1>7. Leaves(t, u)
  BY <1>1, <1>5, <1>6 DEF Leaves, Resuming, Deleting
<1> QED BY <1>1, <1>4, <1>7, WindowStep DEF IInv, TypeOK, PC

(* The section of rt_schedule_remove_thread in rt_thread_delete and        *)
(* rt_thread_detach preserves the invariant.                               *)
LEMMA DeleteStep ==
  ASSUME IInv, NEW t \in Thread, NEW u \in Thread, DeleteThread(t, u) PROVE IInv'
<1>1. /\ k' = (IF k.stat[u] = "init" THEN k ELSE RemoveThread(k, u))
      /\ isr' = isr /\ crit' = crit
      /\ arg' = [arg EXCEPT ![t] = u] /\ Goto(t, "delete1")
      /\ Running(t) /\ pc[t] = "app" /\ t # Idle
      /\ k.stat[u] \in {"init", "ready", "suspend"}
      /\ u # Idle /\ u # t /\ ~Targeted(u) /\ ~Window(u) /\ TimerMayRun("delete1")
  BY DEF DeleteThread, Call, Free, TimerMayRun, Target, Window
<1>2. k.cur = t /\ k.stat[t] \in {"ready", "suspend"}
  BY <1>1, CallerFacts
<1>3. /\ k \in KernelRecord /\ Consistent(k)
      /\ k.timer[u] = FALSE \/ k.stat[u] \in {"ready", "suspend"}
  BY IdleFacts DEF KernelRecord, IInv, DeadUnlinked
<1>4. /\ k' \in KernelRecord /\ Consistent(k')
      /\ k'.stat = k.stat /\ k'.prio = k.prio /\ k'.timer = k.timer /\ k'.cur = k.cur
      /\ SameLinks(k, k', u) /\ Nowhere(k'.list, u)
  <2>1. CASE k.stat[u] = "init"
    BY <1>1, <1>3, <2>1, DeadFacts DEF SameLinks
  <2>2. CASE k.stat[u] # "init"
    <3>1. \A q \in Prio : \A v \in Elements(k.list[q]) :
            k.prio[v] = q /\ (v # u => k.stat[v] = "ready")
      BY <1>3 DEF Consistent, QueuedReady
    <3>2. k.stat[u] \in {"ready", "suspend"} /\ k' = RemoveThread(k, u)
      BY <1>1, <2>2
    <3>3. LinkedOnce(k) /\ BitmapExact(k) /\ MaskExact(k)
      BY <1>3 DEF Consistent
    <3>4. /\ k' \in KernelRecord /\ Consistent(k')
          /\ k'.stat = k.stat /\ k'.prio = k.prio /\ SameRest(k, k')
          /\ SameLinks(k, k', u) /\ Nowhere(k'.list, u)
      BY <1>3, <3>1, <3>2, <3>3, RemoveFacts
    <3> QED BY <3>4 DEF SameRest
  <2> QED BY <2>1, <2>2
<1>5. WorksOn(t, u)
  BY <1>1, <1>2, <1>3, <1>4 DEF WorksOn, Window, Resuming, Deleting, Targeted, Target
<1>6. pc'[t] = "delete1"
  BY <1>1 DEF Goto, IInv, TypeOK
<1>7. Leaves(t, u)
  BY <1>1, <1>3, <1>4, <1>6 DEF Leaves, Resuming, Deleting, Nowhere, Queue
<1> QED BY <1>1, <1>5, <1>7, WindowStep DEF IInv, TypeOK, PC

(* What the invariant says of a call in progress and the thread it works on. *)
LEMMA WindowFacts ==
  ASSUME IInv, NEW t \in Thread, Running(t), Window(t), NEW u, u = arg[t]
  PROVE  /\ u \in Thread /\ u # t /\ u # Idle
         /\ k.cur = t /\ k.stat[t] \in {"ready", "suspend"}
         /\ k.timer[u] = FALSE \/ TimerMayRun(pc[t])
         /\ k.timer[u] = FALSE \/ k.stat[u] \in {"ready", "suspend"}
         /\ \A v \in Thread \ {t} : Window(v) => arg[v] # u
         /\ k.stat[u] \in {"init", "ready", "suspend"}
         /\ NotQueued(k, u) /\ u \notin Elements(k.list[Defunct])
         /\ pc[t] # "free"
         /\ k \in KernelRecord /\ Consistent(k)
<1>1. u \in Thread /\ k.cur = t /\ k \in KernelRecord /\ Consistent(k)
  BY IdleFacts DEF IInv, TypeOK, Running
<1>2. /\ u # Idle /\ u # t
      /\ k.timer[u] = FALSE \/ TimerMayRun(pc[t])
      /\ k.stat[t] \in {"ready", "suspend"}
      /\ \A v \in Thread : Window(v) /\ arg[v] = arg[t] => v = t
  BY DEF IInv, WindowsOwn
<1>5. k.timer[u] = FALSE \/ k.stat[u] \in {"ready", "suspend"}
  BY <1>1 DEF IInv, DeadUnlinked, KernelRecord
<1>3. CASE pc[t] \in Resuming
  <2>1. k.stat[u] = "suspend"
    BY <1>3 DEF IInv, WindowsResume
  <2>2. NotQueued(k, u)
    BY <1>1, <2>1 DEF NotQueued, Consistent, QueuedReady
  <2>3. u \notin Elements(k.list[Defunct])
    BY <2>1 DEF IInv, DeadUnlinked
  <2> QED BY <1>1, <1>2, <1>3, <1>5, <2>1, <2>2, <2>3 DEF Resuming
<1>4. CASE pc[t] \in Deleting
  <2>1. k.stat[u] \in {"init", "ready", "suspend"} /\ Nowhere(k.list, u)
    BY <1>4 DEF IInv, WindowsDelete
  <2>2. NotQueued(k, u) /\ u \notin Elements(k.list[Defunct])
    BY <2>1 DEF NotQueued, Nowhere, Queue
  <2> QED BY <1>1, <1>2, <1>4, <1>5, <2>1, <2>2 DEF Deleting
<1> QED BY <1>3, <1>4 DEF Window

(* The rt_list_remove of rt_thread_resume preserves the invariant.         *)
LEMMA ResumeUnlinkStep ==
  ASSUME IInv, NEW t \in Thread, ResumeUnlink(t) PROVE IInv'
<1> DEFINE u == arg[t]
<1>1. /\ k' = Unlinked(k, u) /\ isr' = isr /\ crit' = crit
      /\ arg' = arg /\ Goto(t, "resume2") /\ Running(t) /\ pc[t] = "resume1" /\ Window(t)
  BY DEF ResumeUnlink, Window, Resuming, Unlinked
<1> HIDE DEF u
<1>2. /\ u \in Thread /\ u # t /\ u # Idle
      /\ k.cur = t /\ k.stat[t] \in {"ready", "suspend"}
      /\ k.timer[u] = FALSE \/ TimerMayRun("resume1")
      /\ \A v \in Thread \ {t} : Window(v) => arg[v] # u
      /\ k.stat[u] \in {"init", "ready", "suspend"}
      /\ NotQueued(k, u) /\ k \in KernelRecord /\ Consistent(k)
  BY <1>1, WindowFacts DEF u
<1>3. k.stat[u] = "suspend"
  BY <1>1 DEF IInv, WindowsResume, Resuming, u
<1>4. /\ k' \in KernelRecord /\ Consistent(k')
      /\ k'.stat = k.stat /\ k'.prio = k.prio /\ SameRest(k, k')
      /\ SameLinks(k, k', u) /\ Nowhere(k'.list, u)
  BY <1>1, <1>2, UnlinkIdleFacts
<1>5. k'.timer = k.timer /\ k'.cur = k.cur
  BY <1>4 DEF SameRest
<1>6. WorksOn(t, u)
  BY <1>1, <1>2, <1>4, <1>5 DEF WorksOn, u
<1>7. pc'[t] = "resume2" /\ arg' = [arg EXCEPT ![t] = u]
  BY <1>1 DEF Goto, IInv, TypeOK, u
<1>8. Leaves(t, u)
  <2>1. k'.timer[u] = FALSE \/ TimerMayRun("resume2")
    BY <1>2, <1>5 DEF TimerMayRun
  <2> QED BY <1>3, <1>4, <1>7, <2>1 DEF Leaves, Resuming, Deleting, Nowhere, Queue
<1>9. /\ Goto(t, "resume2") /\ "resume2" \in PC /\ "resume2" # "free"
      /\ isr' \in {"none", "clock"} /\ crit' \in [Thread -> Nat]
  BY <1>1 DEF IInv, TypeOK, PC
<1> QED BY <1>2, <1>6, <1>7, <1>8, <1>9, WindowStep

(* The rt_schedule_insert_thread of rt_thread_resume preserves the invariant. *)
LEMMA ResumeInsertStep ==
  ASSUME IInv, NEW t \in Thread, ResumeInsert(t) PROVE IInv'
<1> DEFINE u == arg[t]
<1>1. /\ k' = InsertThread(k, u) /\ isr' = isr /\ crit' = crit
      /\ arg' = [arg EXCEPT ![t] = Idle] /\ Goto(t, "sched")
      /\ Running(t) /\ pc[t] = "resume2" /\ Window(t)
  BY DEF ResumeInsert, Done, Window, Resuming
<1> HIDE DEF u
<1>2. /\ u \in Thread /\ u # t /\ u # Idle
      /\ k.cur = t /\ k.stat[t] \in {"ready", "suspend"}
      /\ \A v \in Thread \ {t} : Window(v) => arg[v] # u
      /\ k.stat[u] \in {"init", "ready", "suspend"}
      /\ k \in KernelRecord /\ Consistent(k)
  BY <1>1, WindowFacts DEF u
<1>3. k.stat[u] = "suspend" /\ Nowhere(k.list, u)
  BY <1>1 DEF IInv, WindowsResume, Resuming, u
<1>4. k' = MakeReady(k, u)
  <2>1. k.list \in QueueLists
    BY <1>2 DEF KernelRecord
  <2>2. Unlink(k.list, u) = k.list
    BY <1>3, <2>1 DEF Unlink, Without, Nowhere, QueueLists
  <2>3. [k EXCEPT !.list = Unlink(@, u)] = k
    BY <1>2, <2>2 DEF KernelRecord
  <2> QED BY <1>1, <2>3 DEF MakeReady
<1>5. /\ k' \in KernelRecord /\ Consistent(k')
      /\ k'.stat = Update(k.stat, u, "ready") /\ k'.prio = k.prio
      /\ SameRest(k, k') /\ SameLinks(k, k', u)
      /\ u \in Elements(k'.list[k.prio[u]])
  <2>1. k.stat[u] \in {"ready", "suspend"}
    BY <1>3
  <2> QED BY <1>2, <1>4, <2>1, MakeReadyFacts
<1>6. /\ k'.timer = k.timer /\ k'.cur = k.cur /\ k'.stat[u] = "ready"
      /\ \A v \in Thread \ {u} : k'.stat[v] = k.stat[v]
  BY <1>2, <1>5 DEF SameRest, Update, KernelRecord
<1>7. u \notin Elements(k'.list[Defunct])
  BY <1>2, <1>5, ReadyNotDefunct
<1>8. WorksOn(t, u)
  BY <1>1, <1>2, <1>5, <1>6 DEF WorksOn, u
<1>9. pc'[t] = "sched"
  BY <1>1 DEF Goto, IInv, TypeOK
<1>10. Leaves(t, u)
  BY <1>5, <1>6, <1>7, <1>9 DEF Leaves, Resuming, Deleting
<1>11. "sched" \notin Resuming \cup Deleting
  BY DEF Resuming, Deleting
<1> QED BY <1>1, <1>2, <1>8, <1>10, <1>11, WindowStep, IdleFacts DEF IInv, TypeOK, PC

(* The rt_timer_detach of rt_thread_delete and rt_thread_detach preserves the *)
(* invariant.                                                              *)
LEMMA DeleteTimerStep ==
  ASSUME IInv, NEW t \in Thread, DeleteTimer(t) PROVE IInv'
<1> DEFINE u == arg[t]
<1>1. /\ k' = StopTimer(k, u) /\ isr' = isr /\ crit' = crit
      /\ arg' = arg /\ Goto(t, "delete2") /\ Running(t) /\ pc[t] = "delete1" /\ Window(t)
  BY DEF DeleteTimer, Window, Deleting
<1> HIDE DEF u
<1>2. /\ u \in Thread /\ u # t /\ u # Idle
      /\ k.cur = t /\ k.stat[t] \in {"ready", "suspend"}
      /\ \A v \in Thread \ {t} : Window(v) => arg[v] # u
      /\ k.stat[u] \in {"init", "ready", "suspend"}
      /\ k \in KernelRecord /\ Consistent(k)
  BY <1>1, WindowFacts DEF u
<1>3. Nowhere(k.list, u) /\ ~Window(u)
  BY <1>1 DEF IInv, WindowsDelete, Deleting, u
<1>4. /\ k' \in KernelRecord /\ k'.timer = Disarm(k.timer, u)
      /\ k'.list = k.list /\ k'.stat = k.stat /\ k'.prio = k.prio /\ k'.mask = k.mask
      /\ k'.group = k.group /\ k'.cur = k.cur
  BY <1>1, <1>2, StopTimerFacts
<1>5. k'.timer[u] = FALSE /\ \A v \in Thread \ {u} : k'.timer[v] = k.timer[v]
  BY <1>2, <1>4 DEF Disarm, KernelRecord
<1>6. Consistent(k')
  BY <1>2, <1>4, SameConsistent
<1>7. WorksOn(t, u)
  BY <1>1, <1>2, <1>4, <1>5, <1>6 DEF WorksOn, u, SameLinks
<1>8. pc'[t] = "delete2" /\ arg' = [arg EXCEPT ![t] = u]
  BY <1>1 DEF Goto, IInv, TypeOK, u
<1>9. Leaves(t, u)
  BY <1>2, <1>3, <1>4, <1>5, <1>8 DEF Leaves, Resuming, Deleting, Nowhere, Queue
<1>10. /\ Goto(t, "delete2") /\ "delete2" \in PC /\ "delete2" # "free"
       /\ isr' \in {"none", "clock"} /\ crit' \in [Thread -> Nat]
  BY <1>1 DEF IInv, TypeOK, PC
<1> QED BY <1>2, <1>7, <1>8, <1>9, <1>10, WindowStep

(* The end of rt_thread_delete and rt_thread_detach preserves the invariant. *)
LEMMA DeleteCloseStep ==
  ASSUME IInv, NEW t \in Thread, DeleteClose(t) PROVE IInv'
<1> DEFINE u == arg[t]
<1>1. /\ k' = (IF u \in Static THEN [k EXCEPT !.stat[u] = "close"] ELSE Close(k, u))
      /\ isr' = isr /\ crit' = crit
      /\ arg' = [arg EXCEPT ![t] = Idle] /\ Goto(t, "app")
      /\ Running(t) /\ pc[t] = "delete2" /\ Window(t)
  BY DEF DeleteClose, Done, Window, Deleting
<1> HIDE DEF u
<1>2. /\ u \in Thread /\ u # t /\ u # Idle
      /\ k.cur = t /\ k.stat[t] \in {"ready", "suspend"} /\ k.timer[u] = FALSE
      /\ \A v \in Thread \ {t} : Window(v) => arg[v] # u
      /\ k.stat[u] \in {"init", "ready", "suspend"}
      /\ NotQueued(k, u) /\ k \in KernelRecord /\ Consistent(k)
  BY <1>1, WindowFacts DEF TimerMayRun, u
<1>3. Nowhere(k.list, u) /\ ~Window(u)
  BY <1>1 DEF IInv, WindowsDelete, Deleting, u
<1>4. /\ k' \in KernelRecord /\ Consistent(k')
      /\ k'.stat = Update(k.stat, u, "close") /\ k'.prio = k.prio /\ SameRest(k, k')
      /\ u \in Static => k'.list = k.list
      /\ u \notin Static =>
           \A q \in Queue : q # Defunct => k'.list[q] = k.list[q]
      /\ u \notin Static =>
           Elements(k'.list[Defunct]) = Elements(k.list[Defunct]) \cup {u}
  <2>1. CASE u \in Static
    <3>1. "close" \in DeadStat /\ k' = Retired(k, u, "close")
      BY <1>1, <2>1 DEF DeadStat, Retired
    <3>2. /\ k' \in KernelRecord /\ Consistent(k')
          /\ k'.stat = Update(k.stat, u, "close") /\ k'.prio = k.prio /\ SameRest(k, k')
          /\ k'.list = k.list
      BY <1>2, <3>1, RetireFacts
    <3> QED BY <2>1, <3>2
  <2>2. CASE u \notin Static
    <3>1. k' = Close(k, u)
      BY <1>1, <2>2
    <3> QED BY <1>2, <1>3, <2>2, <3>1, CloseFacts
  <2> QED BY <2>1, <2>2
<1>5. SameLinks(k, k', u)
  BY <1>4 DEF SameLinks
<1>6. /\ k'.timer = k.timer /\ k'.cur = k.cur /\ k'.stat[u] = "close"
      /\ \A v \in Thread \ {u} : k'.stat[v] = k.stat[v]
  BY <1>2, <1>4 DEF SameRest, Update, KernelRecord
<1>7. WorksOn(t, u)
  BY <1>1, <1>2, <1>4, <1>5, <1>6 DEF WorksOn, u
<1>8. pc'[t] = "app"
  BY <1>1 DEF Goto, IInv, TypeOK
<1>9. Leaves(t, u)
  BY <1>2, <1>3, <1>4, <1>6, <1>8 DEF Leaves, Resuming, Deleting, Nowhere, Queue
<1>10. "app" \notin Resuming \cup Deleting
  BY DEF Resuming, Deleting
<1> QED BY <1>1, <1>2, <1>7, <1>9, <1>10, WindowStep, IdleFacts DEF IInv, TypeOK, PC

-----------------------------------------------------------------------------
(* The end of a thread: steps after which thread u is not alive.           *)

(* What the step does to the kernel's data                                 *)
Dies(u) ==
  /\ k' \in KernelRecord /\ Consistent(k')
  /\ u # Idle /\ ~Targeted(u) /\ ~Window(u)
  /\ k'.stat[u] \in DeadStat /\ k'.timer[u] = FALSE
  /\ \A v \in Thread \ {u} :
       k'.stat[v] = k.stat[v] /\ k'.timer[v] = k.timer[v] /\ k'.prio[v] = k.prio[v]
  /\ SameLinks(k, k', u)
  /\ k'.stat[u] \in {"none", "init"} \/ u \in Static => Nowhere(k'.list, u)
  /\ k'.cur = u => k'.stat[u] = "close" /\ pc'[u] \in {"exit", "gone"}

(* and to the program counters: windows stay as they are                   *)
DeadMove(u) ==
  /\ pc' \in [Thread -> PC] /\ arg' \in [Thread -> Thread]
  /\ \A v \in Thread :
       /\ Window(v)' <=> Window(v)
       /\ Window(v) => arg'[v] = arg[v] /\ pc'[v] = pc[v]
       /\ v # u /\ pc[v] \in {"exit", "gone"} => pc'[v] = pc[v]

(* A step that ends thread u and leaves no stale claim on the object that  *)
(* the idle thread is freeing preserves the invariant.                     *)
LEMMA DeadStep ==
  ASSUME IInv, NEW u \in Thread, Dies(u), DeadMove(u), SwitchesToReady, Reaping',
         isr' \in {"none", "clock"}, crit' \in [Thread -> Nat]
  PROVE  IInv'
<1> USE DEF Dies, DeadMove
<1>1. TypeOK'
  BY KernelTypeRecord DEF TypeOK
<1>2. QueuesConsistent'
  BY DEF QueuesConsistent
<1>3. \A v \in Thread : Window(v) => arg[v] \in Thread \ {u}
  BY DEF Window, Targeted, Target, IInv, TypeOK
<1>4. \A v \in Thread \ {u} : Nowhere(k.list, v) => Nowhere(k'.list, v)
  BY DEF Nowhere, SameLinks
<1>5. \A v \in Thread : pc'[v] \in Resuming \cup Deleting => Window(v) /\ pc'[v] = pc[v]
  BY DEF Window
<1>6. WindowsResume'
  BY <1>3, <1>4, <1>5 DEF IInv, WindowsResume
<1>7. WindowsDelete'
  <2> SUFFICES ASSUME NEW t \in Thread, pc'[t] \in Deleting
               PROVE  /\ k'.stat[arg'[t]] \in {"init", "ready", "suspend"}
                      /\ Nowhere(k'.list, arg'[t])
                      /\ pc'[arg'[t]] \notin Resuming \cup Deleting
    BY DEF WindowsDelete, Window
  <2>1. Window(t) /\ pc[t] \in Deleting /\ arg'[t] = arg[t] /\ arg[t] \in Thread \ {u}
    BY <1>3, <1>5
  <2>2. /\ k.stat[arg[t]] \in {"init", "ready", "suspend"}
        /\ Nowhere(k.list, arg[t]) /\ ~Window(arg[t])
    BY <2>1 DEF IInv, WindowsDelete
  <2> QED BY <1>4, <1>5, <2>1, <2>2
<1>8. WindowsOwn'
  <2> SUFFICES ASSUME NEW t \in Thread, Window(t)'
               PROVE  /\ arg'[t] # Idle /\ arg'[t] # t /\ arg'[t] # k'.cur
                      /\ k'.timer[arg'[t]] = FALSE \/ TimerMayRun(pc'[t])
                      /\ k'.stat[t] \in {"ready", "suspend"}
                      /\ \A v \in Thread : Window(v)' /\ arg'[v] = arg'[t] => v = t
    BY DEF WindowsOwn, TimerMayRun
  <2>1. /\ Window(t) /\ pc'[t] = pc[t] /\ t # u /\ arg'[t] = arg[t] /\ arg[t] \in Thread \ {u}
        /\ \A v \in Thread : Window(v)' => Window(v) /\ arg'[v] = arg[v]
    BY <1>3
  <2>2. /\ arg[t] # Idle /\ arg[t] # t /\ arg[t] # k.cur
        /\ k.timer[arg[t]] = FALSE \/ TimerMayRun(pc[t])
        /\ k.stat[t] \in {"ready", "suspend"}
        /\ \A v \in Thread : Window(v) /\ arg[v] = arg[t] => v = t
    BY <2>1 DEF IInv, WindowsOwn
  <2>3. k'.stat[arg[t]] = "suspend" \/ Nowhere(k'.list, arg[t])
    BY <1>5, <1>6, <1>7, <2>1 DEF WindowsResume, WindowsDelete, Window
  <2>4. arg[t] # k'.cur
    <3> SUFFICES ASSUME arg[t] = k'.cur PROVE FALSE
      OBVIOUS
    <3>1. k'.stat[arg[t]] = "ready" /\ arg[t] \in Elements(k'.list[k'.prio[arg[t]]])
      BY <2>2 DEF SwitchesToReady
    <3>2. k'.prio[arg[t]] \in Queue
      BY <2>1 DEF KernelRecord, Queue
    <3> QED BY <2>3, <3>1, <3>2 DEF Nowhere
  <2> QED BY <2>1, <2>2, <2>4
<1>9. DeadUnlinked'
  <2>1. \A t \in Thread :
          k'.stat[t] \in {"none", "init"} \/ (k'.stat[t] = "close" /\ t \in Static)
            => Nowhere(k'.list, t)
    BY <1>4 DEF IInv, DeadUnlinked
  <2>2. \A t \in Elements(k'.list[Defunct]) : k'.stat[t] = "close" /\ t \notin Static
    <3> SUFFICES ASSUME NEW t \in Elements(k'.list[Defunct])
                 PROVE  k'.stat[t] = "close" /\ t \notin Static
      OBVIOUS
    <3>1. Defunct \in Queue /\ k'.list[Defunct] \in Seq(Thread)
      BY DEF KernelRecord, QueueLists, Queue
    <3>2. t \in Thread
      BY <3>1, EmptyElements
    <3>3. CASE t = u
      BY <3>1, <3>3 DEF Nowhere, DeadStat
    <3>4. CASE t # u
      <4>1. t \in Elements(k.list[Defunct])
        BY <3>1, <3>4 DEF SameLinks
      <4> QED BY <3>2, <3>4, <4>1 DEF IInv, DeadUnlinked
    <3> QED BY <3>3, <3>4
  <2>3. \A t \in Thread : k'.timer[t] => k'.stat[t] \in {"ready", "suspend"}
    BY DEF IInv, DeadUnlinked
  <2> QED BY <2>1, <2>2, <2>3 DEF DeadUnlinked
<1>10. Current'
  <2> SUFFICES ASSUME k'.cur # NoThread, k'.cur # u
               PROVE  \/ k'.stat[k'.cur] \in {"ready", "suspend"}
                      \/ k'.stat[k'.cur] = "close" /\ pc'[k'.cur] \in {"exit", "gone"}
    BY DEF Current
  <2>1. CASE k'.cur = k.cur
    <3>1. k.cur \in Thread \ {u}
      BY <2>1 DEF KernelRecord
    <3> QED BY <2>1, <3>1 DEF IInv, Current
  <2>2. CASE k'.cur # k.cur
    BY <2>2 DEF SwitchesToReady
  <2> QED BY <2>1, <2>2
<1>11. IdleReady'
  BY KernelAssumption DEF IInv, IdleReady
<1>12. NoThreadLost'
  <2> SUFFICES ASSUME NEW t \in Thread, k'.stat[t] = "ready"
               PROVE  \/ t \in Elements(k'.list[k'.prio[t]])
                      \/ \E v \in Thread : pc'[v] \in Deleting /\ arg'[v] = t
    BY DEF NoThreadLost
  <2>1. t # u
    BY DEF DeadStat
  <2>2. k.stat[t] = "ready" /\ k'.prio[t] = k.prio[t] /\ k.prio[t] \in Queue
    BY <2>1, KernelTypeRecord DEF IInv, TypeOK, KernelRecord, Queue
  <2>3. CASE t \in Elements(k.list[k.prio[t]])
    BY <2>1, <2>2, <2>3 DEF SameLinks
  <2>4. CASE \E v \in Thread : pc[v] \in Deleting /\ arg[v] = t
    BY <2>4 DEF Window
  <2> QED BY <2>2, <2>3, <2>4 DEF IInv, NoThreadLost
<1> QED BY <1>1, <1>2, <1>6, <1>7, <1>8, <1>9, <1>10, <1>11, <1>12 DEF IInv


(* rt_thread_exit preserves the invariant. *)
LEMMA ExitStep ==
  ASSUME IInv, NEW t \in Thread, ExitThread(t) PROVE IInv'
<1> DEFINE a == RemoveThread(k, t)
           b == StopTimer(a, t)
<1>1. /\ k' = (IF t \in Static THEN [b EXCEPT !.stat[t] = "close"] ELSE Close(b, t))
      /\ isr' = isr /\ arg' = arg /\ crit' = crit /\ Goto(t, "exit")
      /\ Running(t) /\ pc[t] = "app" /\ t # Idle
  BY DEF ExitThread, Call
<1>2. /\ k.cur = t /\ k.stat[t] \in {"ready", "suspend"} /\ ~Targeted(t)
      /\ k \in KernelRecord /\ Consistent(k)
  BY <1>1, CallerFacts, IdleFacts
<1>3. \A q \in Prio : \A v \in Elements(k.list[q]) :
        k.prio[v] = q /\ (v # t => k.stat[v] = "ready")
  BY <1>2 DEF Consistent, QueuedReady
<1>4. /\ a \in KernelRecord /\ Consistent(a) /\ a.stat = k.stat /\ a.prio = k.prio
      /\ SameRest(k, a) /\ SameLinks(k, a, t) /\ Nowhere(a.list, t)
  <2> HIDE DEF a
  <2> QED BY <1>2, <1>3, RemoveFacts DEF a, Consistent
<1> HIDE DEF a
<1>5. /\ b \in KernelRecord /\ b.timer = Disarm(a.timer, t)
      /\ b.list = a.list /\ b.stat = a.stat /\ b.prio = a.prio /\ b.mask = a.mask
      /\ b.group = a.group /\ b.cur = a.cur
  <2> HIDE DEF b
  <2> QED BY <1>4, StopTimerFacts DEF b
<1> HIDE DEF b
<1>6. Consistent(b) /\ Nowhere(b.list, t) /\ NotQueued(b, t) /\ SameLinks(k, b, t)
  <2>1. Consistent(b) /\ Nowhere(b.list, t) /\ SameLinks(k, b, t)
    BY <1>4, <1>5, SameConsistent DEF SameLinks
  <2> QED BY <2>1 DEF Nowhere, NotQueued, Queue
<1>7. /\ k' \in KernelRecord /\ Consistent(k')
      /\ k'.stat = Update(b.stat, t, "close") /\ k'.prio = b.prio /\ SameRest(b, k')
      /\ \A q \in Queue : k'.list[q] = b.list[q] \/ (q = Defunct /\ t \notin Static)
      /\ t \notin Static => Elements(k'.list[Defunct]) = Elements(b.list[Defunct]) \cup {t}
  <2>1. CASE t \in Static
    <3>1. "close" \in DeadStat /\ k' = Retired(b, t, "close")
      BY <1>1, <2>1 DEF DeadStat, Retired
    <3>2. /\ k' \in KernelRecord /\ Consistent(k')
          /\ k'.stat = Update(b.stat, t, "close") /\ k'.prio = b.prio /\ SameRest(b, k')
          /\ k'.list = b.list
      BY <1>5, <1>6, <3>1, RetireFacts
    <3> QED BY <2>1, <3>2
  <2>2. CASE t \notin Static
    <3>1. k' = Close(b, t)
      BY <1>1, <2>2
    <3> QED BY <1>5, <1>6, <2>2, <3>1, CloseFacts
  <2> QED BY <2>1, <2>2
<1>8. /\ k'.stat[t] = "close" /\ k'.timer[t] = FALSE /\ k'.cur = t
      /\ \A v \in Thread \ {t} :
           k'.stat[v] = k.stat[v] /\ k'.timer[v] = k.timer[v] /\ k'.prio[v] = k.prio[v]
  BY <1>2, <1>4, <1>5, <1>7 DEF SameRest, Update, Disarm, KernelRecord
<1>9. SameLinks(k, k', t)
  BY <1>6, <1>7 DEF SameLinks
<1>10. t \in Static => Nowhere(k'.list, t)
  BY <1>6, <1>7 DEF Nowhere
<1>11. pc \in [Thread -> PC] /\ pc' \in [Thread -> PC] /\ pc' = [pc EXCEPT ![t] = "exit"]
  BY <1>1 DEF Goto, IInv, TypeOK, PC
<1>12. Dies(t)
  BY <1>1, <1>2, <1>7, <1>8, <1>9, <1>10, <1>11
  DEF Dies, DeadStat, Window, Resuming, Deleting
<1>13. DeadMove(t)
  BY <1>1, <1>11 DEF DeadMove, Window, Resuming, Deleting, IInv, TypeOK
<1>14. Reaping'
  <2> SUFFICES ASSUME NEW v \in Thread, pc'[v] = "free"
               PROVE  /\ v = Idle
                      /\ k'.stat[arg[Idle]] = "close" /\ arg[Idle] \notin Static
                      /\ arg[Idle] # k'.cur /\ Nowhere(k'.list, arg[Idle])
    BY <1>1 DEF Reaping
  <2>1. pc[v] = "free" /\ arg[Idle] \in Thread
    BY <1>11, KernelAssumption DEF IInv, TypeOK
  <2>2. /\ v = Idle
        /\ k.stat[arg[Idle]] = "close" /\ arg[Idle] \notin Static /\ arg[Idle] # k.cur
        /\ Nowhere(k.list, arg[Idle])
    BY <2>1 DEF IInv, Reaping
  <2> QED BY <1>2, <1>8, <1>9, <2>1, <2>2 DEF SameLinks, Nowhere
<1>15. SwitchesToReady
  BY <1>2, <1>8 DEF SwitchesToReady
<1> QED BY <1>1, <1>12, <1>13, <1>14, <1>15, DeadStep DEF IInv, TypeOK

(* rt_thread_init and rt_thread_create preserve the invariant. *)
LEMMA CreateStep ==
  ASSUME IInv, NEW t \in Thread, NEW u \in Thread, CreateThread(t, u) PROVE IInv'
<1>1. /\ k' = InitThread(k, u)
      /\ isr' = isr /\ arg' = arg /\ crit' = crit /\ Goto(u, "app")
      /\ Running(t) /\ pc[t] = "app" /\ u # t /\ u # Idle /\ ~Targeted(u)
      /\ k.stat[u] = "none" \/ (u \in Static /\ k.stat[u] = "close")
  BY DEF CreateThread, Call, Free
<1>2. k.cur = t /\ k \in KernelRecord /\ Consistent(k)
  BY <1>1, CallerFacts, IdleFacts
<1>3. NotQueued(k, u) /\ Nowhere(k.list, u) /\ ~Window(u)
  <2>1. NotQueued(k, u) /\ ~Window(u)
    BY <1>1, DeadFacts
  <2>2. Nowhere(k.list, u)
    BY <1>1 DEF IInv, DeadUnlinked
  <2> QED BY <2>1, <2>2
<1>4. InitPrio[u] \in Prio /\ InitTick \in 1 .. InitTick
  BY KernelAssumption
<1>5. k' \in KernelRecord
  BY <1>1, <1>2, <1>4 DEF InitThread, KernelRecord, Stat, Error
<1>6. /\ k'.list = k.list /\ k'.group = k.group /\ k'.cur = k.cur
      /\ k'.stat[u] = "init" /\ k'.timer[u] = FALSE
      /\ \A v \in Thread \ {u} :
           /\ k'.stat[v] = k.stat[v] /\ k'.timer[v] = k.timer[v] /\ k'.prio[v] = k.prio[v]
           /\ k'.mask[v] = k.mask[v]
  BY <1>1, <1>2 DEF InitThread, KernelRecord
<1>7. Consistent(k')
  <2>1. LinkedOnce(k') /\ BitmapExact(k')
    BY <1>2, <1>6 DEF Consistent, LinkedOnce, BitmapExact
  <2>2. QueuedReady(k')
    <3> SUFFICES ASSUME NEW q \in Prio, NEW v \in Elements(k.list[q])
                 PROVE  k'.stat[v] = "ready" /\ k'.prio[v] = q
      BY <1>6 DEF QueuedReady
    <3>1. v \in Thread
      <4>1. k.list[q] \in Seq(Thread)
        BY <1>2 DEF KernelRecord, QueueLists, Queue
      <4> QED BY <4>1, EmptyElements
    <3> QED BY <1>2, <1>3, <1>6, <3>1 DEF Consistent, QueuedReady, NotQueued
  <2>3. MaskExact(k')
    BY <1>2, <1>6 DEF Consistent, MaskExact
  <2> QED BY <2>1, <2>2, <2>3 DEF Consistent
<1>8. pc \in [Thread -> PC] /\ pc' \in [Thread -> PC] /\ pc' = [pc EXCEPT ![u] = "app"]
  BY <1>1 DEF Goto, IInv, TypeOK, PC
<1>9. Dies(u)
  BY <1>1, <1>2, <1>3, <1>5, <1>6, <1>7 DEF Dies, DeadStat, SameLinks
<1>10. DeadMove(u)
  BY <1>1, <1>3, <1>8 DEF DeadMove, Window, Resuming, Deleting, IInv, TypeOK
<1>11. Reaping'
  <2> SUFFICES ASSUME NEW v \in Thread, pc'[v] = "free"
               PROVE  /\ v = Idle
                      /\ k'.stat[arg[Idle]] = "close" /\ arg[Idle] \notin Static
                      /\ arg[Idle] # k'.cur /\ Nowhere(k'.list, arg[Idle])
    BY <1>1 DEF Reaping
  <2>1. pc[v] = "free" /\ arg[Idle] \in Thread
    BY <1>8, KernelAssumption DEF IInv, TypeOK
  <2>2. /\ v = Idle
        /\ k.stat[arg[Idle]] = "close" /\ arg[Idle] \notin Static /\ arg[Idle] # k.cur
        /\ Nowhere(k.list, arg[Idle])
    BY <2>1 DEF IInv, Reaping
  <2> QED BY <1>1, <1>6, <2>1, <2>2
<1>12. SwitchesToReady
  BY <1>6 DEF SwitchesToReady
<1> QED BY <1>1, <1>9, <1>10, <1>11, <1>12, DeadStep DEF IInv, TypeOK


(* No call in progress works on a thread that is not alive.                *)
LEMMA DeadUntargeted ==
  ASSUME IInv, NEW u \in Thread, k.stat[u] = "close"
  PROVE  u # Idle /\ ~Targeted(u) /\ ~Window(u) /\ NotQueued(k, u) /\ k.timer[u] = FALSE
<1>1. u # Idle
  BY IdleFacts
<1>2. \A v \in Thread : Window(v) => k.stat[arg[v]] \in {"init", "ready", "suspend"}
  BY DEF IInv, WindowsResume, WindowsDelete, Window
<1>3. ~Targeted(u)
  BY <1>2 DEF Targeted, Target, Window
<1> QED BY <1>1, <1>3, DeadFacts

(* The deallocations of rt_thread_idle_excute preserve the invariant. *)
LEMMA FreeStep ==
  ASSUME IInv, FreeThread PROVE IInv'
<1> DEFINE u == arg[Idle]
<1>1. /\ k' = [k EXCEPT !.stat[u] = "none"]
      /\ isr' = isr /\ arg' = [arg EXCEPT ![Idle] = Idle] /\ crit' = crit
      /\ Goto(Idle, "app") /\ Running(Idle) /\ pc[Idle] = "free"
  BY DEF FreeThread, Done
<1> HIDE DEF u
<1>2. /\ k \in KernelRecord /\ Consistent(k) /\ Idle \in Thread
      /\ pc \in [Thread -> PC] /\ arg \in [Thread -> Thread] /\ u \in Thread
  BY IdleFacts DEF IInv, TypeOK, u
<1>3. /\ k.stat[u] = "close" /\ u \notin Static /\ u # k.cur /\ Nowhere(k.list, u)
  BY <1>1, <1>2 DEF IInv, Reaping, u
<1>4. u # Idle /\ ~Targeted(u) /\ ~Window(u) /\ NotQueued(k, u) /\ k.timer[u] = FALSE
  BY <1>2, <1>3, DeadUntargeted
<1>5. "none" \in DeadStat /\ k' = Retired(k, u, "none")
  BY <1>1 DEF DeadStat, Retired
<1>6. /\ k' \in KernelRecord /\ Consistent(k')
      /\ k'.stat = Update(k.stat, u, "none") /\ k'.list = k.list /\ k'.prio = k.prio
      /\ SameRest(k, k')
  BY <1>2, <1>4, <1>5, RetireFacts
<1>7. /\ k'.stat[u] = "none" /\ k'.timer = k.timer /\ k'.cur = k.cur
      /\ \A v \in Thread \ {u} : k'.stat[v] = k.stat[v]
  BY <1>2, <1>6 DEF SameRest, Update, KernelRecord
<1>8. /\ pc' \in [Thread -> PC] /\ pc' = [pc EXCEPT ![Idle] = "app"]
      /\ arg' \in [Thread -> Thread]
  BY <1>1, <1>2 DEF Goto, PC
<1>9. Dies(u)
  BY <1>3, <1>4, <1>5, <1>6, <1>7 DEF Dies, SameLinks
<1>10. DeadMove(u)
  BY <1>1, <1>2, <1>8 DEF DeadMove, Window, Resuming, Deleting
<1>11. \A v \in Thread : pc'[v] # "free"
  BY <1>1, <1>2, <1>8 DEF IInv, Reaping
<1>12. Reaping'
  BY <1>11 DEF Reaping
<1>13. SwitchesToReady
  BY <1>7 DEF SwitchesToReady
<1> QED BY <1>1, <1>2, <1>9, <1>10, <1>12, <1>13, DeadStep DEF IInv, TypeOK

(* rt_enter_critical followed by rt_exit_critical leaves the nest as it was *)
LEMMA LockPair ==
  ASSUME NEW kd \in KernelRecord, Consistent(kd),
         NEW r, r = LeaveCritical(EnterCritical(kd))
  PROVE  /\ r \in KernelRecord /\ Consistent(r)
         /\ r.list = kd.list /\ r.stat = kd.stat /\ r.prio = kd.prio /\ r.mask = kd.mask
         /\ r.group = kd.group /\ SameRest(kd, r)
<1> DEFINE e == EnterCritical(kd)
<1>1. kd.lock \in Nat
  BY DEF KernelRecord
<1>2. /\ e \in KernelRecord /\ e.lock = kd.lock + 1
      /\ e.list = kd.list /\ e.stat = kd.stat /\ e.prio = kd.prio /\ e.mask = kd.mask
      /\ e.group = kd.group /\ e.cur = kd.cur /\ e.slice = kd.slice /\ e.timer = kd.timer
      /\ e.error = kd.error /\ e.asserted = kd.asserted
  BY <1>1 DEF KernelRecord, EnterCritical
<1> HIDE DEF e
<1>3. r = LeaveCritical(e)
  BY DEF e
<1>4. (IF e.lock <= 1 THEN 0 ELSE e.lock - 1) = kd.lock
  BY <1>1, <1>2
<1>5. r = [e EXCEPT !.lock = kd.lock]
  BY <1>3, <1>4 DEF LeaveCritical
<1>6. r \in KernelRecord
  BY <1>1, <1>2, <1>5 DEF KernelRecord
<1>7. /\ r.list = kd.list /\ r.stat = kd.stat /\ r.prio = kd.prio /\ r.mask = kd.mask
      /\ r.group = kd.group /\ SameRest(kd, r)
  BY <1>2, <1>5 DEF KernelRecord, SameRest
<1> QED BY <1>6, <1>7, SameConsistent

(* The section of rt_thread_idle_excute that takes a dead thread out of    *)
(* rt_thread_defunct preserves the invariant.                              *)
LEMMA ReapStep ==
  ASSUME IInv, Reap PROVE IInv'
<1> DEFINE u == Head(k.list[Defunct])
           a == [k EXCEPT !.list = Unlink(@, u)]
           b == LeaveCritical(EnterCritical(a))
<1>1. /\ k' = Schedule(b)
      /\ isr' = isr /\ arg' = [arg EXCEPT ![Idle] = u] /\ crit' = crit
      /\ Goto(Idle, "free") /\ Running(Idle) /\ pc[Idle] = "app"
      /\ k.list[Defunct] # << >>
  BY DEF Reap
<1> HIDE DEF u, a, b
<1>2. /\ k \in KernelRecord /\ Consistent(k) /\ Idle \in Thread /\ k.cur = Idle
      /\ k.stat[Idle] = "ready" /\ k.group # {}
      /\ pc \in [Thread -> PC] /\ arg \in [Thread -> Thread]
  BY <1>1, IdleFacts DEF IInv, TypeOK, Running
<1>3. u \in Thread /\ u \in Elements(k.list[Defunct])
  <2>1. k.list[Defunct] \in Seq(Thread)
    BY <1>2 DEF KernelRecord, QueueLists, Queue
  <2> QED BY <1>1, <2>1, EmptyElements DEF u
<1>4. k.stat[u] = "close" /\ u \notin Static
  BY <1>3 DEF IInv, DeadUnlinked
<1>5. u # Idle /\ ~Targeted(u) /\ ~Window(u) /\ NotQueued(k, u) /\ k.timer[u] = FALSE
  BY <1>3, <1>4, DeadUntargeted
<1>6. /\ a \in KernelRecord /\ Consistent(a)
      /\ a.stat = k.stat /\ a.prio = k.prio /\ a.group = k.group /\ SameRest(k, a)
      /\ SameLinks(k, a, u) /\ Nowhere(a.list, u)
  <2>1. a = Unlinked(k, u)
    BY DEF a, Unlinked
  <2> QED BY <1>2, <1>3, <1>5, <2>1, UnlinkIdleFacts
<1>7. /\ b \in KernelRecord /\ Consistent(b)
      /\ b.list = a.list /\ b.stat = a.stat /\ b.prio = a.prio /\ b.group = a.group
      /\ SameRest(a, b)
  BY <1>6, LockPair DEF b
<1>8. /\ k' \in KernelRecord /\ Consistent(k')
      /\ k'.list = a.list /\ k'.stat = k.stat /\ k'.prio = k.prio
      /\ k'.timer = k.timer
  <2>1. b.group # {}
    BY <1>2, <1>6, <1>7
  <2>2. /\ k' \in KernelRecord /\ Consistent(k')
        /\ k'.list = b.list /\ k'.stat = b.stat /\ k'.prio = b.prio /\ k'.timer = b.timer
    BY <1>1, <1>7, <2>1, ScheduleFacts
  <2> QED BY <1>6, <1>7, <2>2 DEF SameRest
<1>9. SwitchesToReady
  <2>1. b.cur = k.cur /\ b.group # {}
    BY <1>2, <1>6, <1>7 DEF SameRest
  <2>2. \/ k'.cur = b.cur
        \/ /\ k'.cur \in Thread /\ k'.stat[k'.cur] = "ready"
           /\ k'.cur \in Elements(k'.list[k'.prio[k'.cur]])
    BY <1>1, <1>7, <2>1, ScheduleFacts
  <2> QED BY <2>1, <2>2 DEF SwitchesToReady
<1>10. SameLinks(k, k', u) /\ Nowhere(k'.list, u)
  BY <1>6, <1>8 DEF SameLinks
<1>11. k'.cur # u
  BY <1>2, <1>4, <1>5, <1>8, <1>9 DEF SwitchesToReady
<1>12. /\ pc' \in [Thread -> PC] /\ pc' = [pc EXCEPT ![Idle] = "free"]
       /\ arg' \in [Thread -> Thread] /\ arg'[Idle] = u
  BY <1>1, <1>2, <1>3 DEF Goto, PC
<1>13. Dies(u)
  BY <1>4, <1>5, <1>8, <1>10, <1>11 DEF Dies, DeadStat
<1>14. DeadMove(u)
  BY <1>1, <1>2, <1>12 DEF DeadMove, Window, Resuming, Deleting
<1>15. Reaping'
  <2> SUFFICES ASSUME NEW v \in Thread, pc'[v] = "free" PROVE v = Idle
    BY <1>4, <1>8, <1>10, <1>11, <1>12 DEF Reaping
  <2> QED BY <1>2, <1>12 DEF IInv, Reaping
<1>16. isr' \in {"none", "clock"} /\ crit' \in [Thread -> Nat]
  BY <1>1 DEF IInv, TypeOK
<1> QED BY <1>3, <1>9, <1>13, <1>14, <1>15, <1>16, DeadStep


-----------------------------------------------------------------------------
(* The theorem.                                                            *)

(* rtthread_startup establishes the invariant, with the scheduler unlocked *)
(* and no thread on the processor or suspended.                            *)
LEMMA InitStep ==
  ASSUME Init
  PROVE  /\ IInv /\ k.lock = 0 /\ k.cur = NoThread
         /\ \A t \in Thread : k.stat[t] \in {"none", "init", "ready"}
<1> DEFINE st == [t \in Thread |-> IF t \in Static \cup {Main} THEN "init" ELSE "none"]
           b  == Blank(st)
           m  == Startup(b, Main)
<1>1. /\ Main \in Thread /\ Idle \in Thread /\ Main # Idle /\ Idle \in Static
      /\ NoThread \notin Thread
  BY KernelAssumption, SchedulerAssumption
<1>2. st \in [Thread -> Stat] /\ \A t \in Thread : st[t] \in {"none", "init"}
  BY DEF Stat
<1>3. k = Startup(m, Idle) /\ isr = "none" /\ crit = [t \in Thread |-> 0]
  BY DEF Init
<1>4. pc = [t \in Thread |-> "app"] /\ arg = [t \in Thread |-> Idle]
  BY DEF Init
<1> HIDE DEF st, b, m
<1>5. /\ b \in KernelRecord /\ Consistent(b) /\ b.stat = st
      /\ \A q \in Queue : Elements(b.list[q]) = {}
      /\ b.cur = NoThread /\ b.lock = 0 /\ \A t \in Thread : b.timer[t] = FALSE
  <2>1. \A t \in Thread : st[t] \in DeadStat
    BY <1>2 DEF DeadStat
  <2>2. b = Blank(st)
    BY DEF b
  <2> QED BY <1>2, <2>1, <2>2, BlankFacts, ZenonT(60)
<1>6. NotQueued(b, Main)
  BY <1>5 DEF NotQueued, Queue
<1>7. /\ m \in KernelRecord /\ Consistent(m)
      /\ m.stat = Update(b.stat, Main, "ready")
      /\ SameRest(b, m) /\ SameLinks(b, m, Main)
      /\ Main \in Elements(m.list[m.prio[Main]])
  BY <1>1, <1>5, <1>6, StartupFacts DEF m
<1>8. \A q \in Queue : Elements(m.list[q]) \subseteq {Main}
  BY <1>5, <1>7 DEF SameLinks
<1>9. NotQueued(m, Idle)
  BY <1>1, <1>8 DEF NotQueued, Queue
<1>10. /\ k \in KernelRecord /\ Consistent(k)
       /\ k.stat = Update(m.stat, Idle, "ready")
       /\ k.prio = Update(m.prio, Idle, InitPrio[Idle])
       /\ SameRest(m, k) /\ SameLinks(m, k, Idle)
       /\ Idle \in Elements(k.list[k.prio[Idle]])
  BY <1>1, <1>3, <1>7, <1>9, StartupFacts
<1>11. \A q \in Queue : Elements(k.list[q]) \subseteq {Main, Idle}
  BY <1>8, <1>10 DEF SameLinks
<1>12. Main \in Elements(k.list[k.prio[Main]])
  <2>1. k.prio[Main] = m.prio[Main] /\ m.prio[Main] \in Queue
    BY <1>1, <1>7, <1>10 DEF Update, KernelRecord, Queue
  <2> QED BY <1>1, <1>7, <1>10, <2>1 DEF SameLinks
<1>13. /\ k.stat[Main] = "ready" /\ k.stat[Idle] = "ready"
       /\ \A t \in Thread \ {Main, Idle} : k.stat[t] \in {"none", "init"}
  BY <1>1, <1>2, <1>5, <1>7, <1>10 DEF Update, KernelRecord
<1>14. k.cur = NoThread /\ k.lock = 0 /\ \A t \in Thread : k.timer[t] = FALSE
  BY <1>5, <1>7, <1>10 DEF SameRest
<1>15. TypeOK /\ QueuesConsistent
  BY <1>1, <1>3, <1>4, <1>10, KernelTypeRecord DEF TypeOK, QueuesConsistent, PC
<1>16. \A t \in Thread : pc[t] \notin Resuming /\ pc[t] \notin Deleting /\ pc[t] # "free"
  BY <1>4 DEF Resuming, Deleting
<1>17. WindowsOwn /\ WindowsResume /\ WindowsDelete /\ Reaping
  BY <1>16 DEF WindowsOwn, WindowsResume, WindowsDelete, Reaping, Window
<1>18. DeadUnlinked
  <2>1. Elements(k.list[Defunct]) = {}
    <3>1. Main \notin Elements(k.list[Defunct]) /\ Idle \notin Elements(k.list[Defunct])
      BY <1>1, <1>10, <1>12, ReadyNotDefunct
    <3> QED BY <1>11, <3>1 DEF Queue
  <2> QED BY <1>11, <1>13, <1>14, <2>1 DEF DeadUnlinked, Nowhere
<1>19. Current /\ IdleReady
  BY <1>1, <1>13, <1>14 DEF Current, IdleReady
<1>20. NoThreadLost
  BY <1>10, <1>12, <1>13 DEF NoThreadLost
<1> QED BY <1>13, <1>14, <1>15, <1>17, <1>18, <1>19, <1>20 DEF IInv


(* Every step preserves the invariant, but for the timer that ends between *)
(* two sections of a call on its thread.                                   *)
LEMMA NextStep ==
  ASSUME IInv, [CalmNext]_vars PROVE IInv'
<1>1. CASE Start \/ Reap \/ FreeThread
  BY <1>1, StartStep, ReapStep, FreeStep
<1>2. CASE ClockEnter \/ ClockLeave
  BY <1>2, ClockEnterStep, ClockLeaveStep
<1>6. ASSUME NEW t \in Thread, CalmExpire(t) \/ DeviceResume(t) PROVE IInv'
  BY <1>6, ExpireStep, DeviceStep
<1>3. ASSUME NEW t \in Thread, InKernel(t) PROVE IInv'
  BY <1>3, ResumeUnlinkStep, ResumeInsertStep, DeleteTimerStep, DeleteCloseStep,
     RescheduleStep, SleepReturnStep DEF InKernel
<1>4. ASSUME NEW t \in Thread, Application(t) PROVE IInv'
  <2>1. CASE YieldThread(t) \/ SleepThread(t) \/ ExitThread(t)
    BY <2>1, YieldStep, SleepStep, ExitStep
  <2>2. CASE Enter(t) \/ Leave(t) \/ FindThread(t)
    BY <2>2, CriticalStep
  <2>3. ASSUME NEW u \in Thread,
               CreateThread(t, u) \/ StartupThread(t, u) \/ DeleteThread(t, u)
        PROVE  IInv'
    BY <2>3, CreateStep, StartupStep, DeleteStep
  <2>4. ASSUME NEW u \in Thread, SuspendThread(t, u) \/ ResumeThread(t, u) PROVE IInv'
    BY <2>4, SuspendStep, ResumeStep
  <2>5. ASSUME NEW u \in Thread, NEW p \in Prio, ChangeThreadPriority(t, u, p) PROVE IInv'
    BY <2>5, PriorityStep
  <2> QED BY <1>4, <2>1, <2>2, <2>3, <2>4, <2>5 DEF Application
<1>5. CASE UNCHANGED vars
  <2>1. k' = k /\ isr' = isr /\ pc' = pc /\ arg' = arg /\ crit' = crit
    BY <1>5 DEF vars
  <2>2. ChangesOnly(Idle) /\ SwitchesToReady /\ OrdinaryMove
    BY <2>1, IdleFacts, Untouched, StayMove DEF SwitchesToReady
  <2> QED BY <2>1, <2>2, IdleFacts, OrdinaryStep DEF IInv, TypeOK
<1> QED BY <1>1, <1>2, <1>3, <1>4, <1>5, <1>6 DEF CalmNext

(* CalmNext is Next without some of its steps,                             *)
LEMMA CalmIsNext ==
  ASSUME [CalmNext]_vars PROVE [Next]_vars
BY DEF CalmNext, Next, Interrupt, CalmExpire

(* and without none where no thread is resumed or deleted by another: a    *)
(* thread that is started for the first time has no timer that runs.       *)
LEMMA NextIsCalm ==
  ASSUME IInv, Ops \cap {"resume", "delete"} = {}, Next PROVE CalmNext
<1>1. ASSUME NEW t \in Thread, Expire(t) PROVE CalmExpire(t)
  <2>1. k.timer[t] # FALSE
    BY <1>1 DEF Expire
  <2>2. ~Targeted(t)
    BY <2>1 DEF Targeted, Target, IInv, WindowsOwn, Window, TimerMayRun
  <2> QED BY <1>1, <2>2 DEF CalmExpire
<1> QED BY <1>1 DEF Next, CalmNext, Interrupt

(* The invariant holds in every state, unless the timer of a thread has    *)
(* ended between two sections of a call that resumes or deletes it.        *)
THEOREM SchedulerInvariant == CalmSpec => []IInv
<1>1. Init => IInv
  BY InitStep
<1>2. IInv /\ [CalmNext]_vars => IInv'
  BY NextStep
<1> QED BY <1>1, <1>2, PTL DEF CalmSpec

(* The state of the scheduler keeps its types, for any number of threads   *)
(* and priorities: rt_scheduler_lock_nest does not become negative, a      *)
(* time slice stays between 1 and init_tick.                               *)
THEOREM TypeCorrect == CalmSpec => []TypeOK
<1>1. IInv => TypeOK
  BY DEF IInv
<1> QED BY <1>1, SchedulerInvariant, PTL

(* Whatever comes between two sections of a call, but for the end of the   *)
(* timer of the very thread that the call resumes or deletes (CalmSpec),   *)
(* no thread is linked twice, the ready lists hold ready threads of their  *)
(* priority and the bitmap has exactly the bits of the lists that are not  *)
(* empty.  Threads with a running timer are resumed and deleted.           *)
THEOREM QueuesStayConsistent == CalmSpec => []QueuesConsistent
<1>1. IInv => QueuesConsistent
  BY DEF IInv
<1> QED BY <1>1, SchedulerInvariant, PTL

(* Every ready thread can be found in its ready list, except the one that  *)
(* a call of rt_thread_delete or rt_thread_detach is working on (CalmSpec: *)
(* the timer of such a thread may run and does not end in the call).       *)
THEOREM NoThreadIsLost == CalmSpec => []NoThreadLost
<1>1. IInv => NoThreadLost
  BY DEF IInv
<1> QED BY <1>1, SchedulerInvariant, PTL

(* The idle thread frees no object that is linked in a list or whose stack *)
(* the processor is using.  Sleeping threads are deleted, with their timer *)
(* running; CalmSpec excludes that it ends before rt_timer_detach.         *)
THEOREM FreedThreadsUnused == CalmSpec => []FreedUnused
<1>1. ASSUME IInv, NEW t \in Thread, k.stat[t] \in {"none", "init"}
      PROVE  ~Linked(k, t) /\ k.cur # t
  <2>1. Nowhere(k.list, t)
    BY <1>1 DEF IInv, DeadUnlinked
  <2>2. k.cur # t
    BY <1>1, KernelAssumption DEF IInv, Current
  <2> QED BY <2>1, <2>2 DEF Nowhere, Linked
<1>2. IInv => FreedUnused
  BY <1>1 DEF FreedUnused
<1> QED BY <1>2, SchedulerInvariant, PTL

-----------------------------------------------------------------------------
(* What the processor executes, for any instance: the first thread of the  *)
(* highest ready priority outside the windows of the kernel's calls, and   *)
(* in a critical section the thread that opened it.                        *)

(* What a step outside rt_enter_critical and rt_exit_critical does to the  *)
(* processor and to the lock.                                              *)
KeepsLock == k'.lock = k.lock /\ (k.lock # 0 => k'.cur = k.cur)

(* The labels at which rt_schedule is still to be called                   *)
Unscheduled == {"sched", "block", "wait", "exit"}

DispatchInv == IInv /\ HighestRuns

(* The invariant with RunsFirst for its conclusion                         *)
LEMMA HighestRunsIs ==
  /\ DOMAIN AfterSchedule = Unscheduled
  /\ HighestRuns <=>
       (k.cur # NoThread /\ k.lock = 0 /\ pc[k.cur] \notin Unscheduled => RunsFirst(k))
  /\ HighestRuns' <=>
       (k'.cur # NoThread /\ k'.lock = 0 /\ pc'[k'.cur] \notin Unscheduled => RunsFirst(k'))
<1>1. DOMAIN AfterSchedule = Unscheduled
  BY DEF AfterSchedule, Unscheduled
<1> QED BY <1>1 DEF HighestRuns, RunsFirst

-----------------------------------------------------------------------------
(* Four kinds of steps.                                                    *)

(* The ready lists stay as they are, and no rt_schedule is left out.       *)
SameReady ==
  /\ k'.cur = k.cur /\ k'.lock = k.lock /\ k'.group = k.group
  /\ \A q \in Prio : k'.list[q] = k.list[q]
SamePending == pc'[k.cur] \notin Unscheduled => pc[k.cur] \notin Unscheduled

(* A step that changes no ready list keeps what runs the first.            *)
LEMMA SameReadyStep ==
  ASSUME DispatchInv, SameReady, SamePending
  PROVE  HighestRuns' /\ KeepsLock
<1>1. k.group # {} /\ k.group \subseteq Prio
  BY IdleFacts DEF DispatchInv, KernelRecord
<1>2. HighestReady(k) \in Prio
  BY <1>1, HighestReadyFacts
<1>3. HighestReady(k') = HighestReady(k)
  BY DEF SameReady, HighestReady
<1>4. RunsFirst(k) => RunsFirst(k')
  BY <1>2, <1>3 DEF SameReady, RunsFirst
<1>5. HighestRuns'
  BY <1>4, HighestRunsIs DEF SameReady, SamePending, DispatchInv
<1> QED BY <1>5 DEF SameReady, KeepsLock

(* After rt_schedule the first thread runs, unless the scheduler is locked *)
LEMMA DispatchedStep ==
  ASSUME DispatchInv, Dispatched(k, k'), k'.lock = k.lock
  PROVE  HighestRuns' /\ KeepsLock
<1>1. k'.lock = 0 => RunsFirst(k')
  BY DEF Dispatched
<1>2. HighestRuns'
  BY <1>1, HighestRunsIs
<1> QED BY <1>2 DEF Dispatched, KeepsLock

(* Before the rt_schedule of a call anything may run.                      *)
LEMMA PendingStep ==
  ASSUME DispatchInv, k'.cur = k.cur, k'.lock = k.lock, pc'[k.cur] \in Unscheduled
  PROVE  HighestRuns' /\ KeepsLock
<1>1. HighestRuns'
  BY HighestRunsIs
<1> QED BY <1>1 DEF KeepsLock

(* A thread that is not running leaves its list.                           *)
LEMMA LeavingStep ==
  ASSUME DispatchInv, NEW u, u # k.cur, IInv',
         k'.cur = k.cur, k'.lock = k.lock, k'.group \subseteq k.group, SamePending,
         \A q \in Queue : k.list[q] # << >> /\ k.list[q][1] # u =>
                SameHead(k.list[q], k'.list[q])
  PROVE  HighestRuns' /\ KeepsLock
<1>1. k \in KernelRecord /\ Consistent(k) /\ k.group # {}
  BY IdleFacts DEF DispatchInv
<1>2. k' \in KernelRecord /\ Consistent(k')
  BY KernelTypeRecord DEF IInv, TypeOK, QueuesConsistent
<1>3. RunsFirst(k) => RunsFirst(k')
  BY <1>1, <1>2, StaysFirst
<1>4. HighestRuns'
  BY <1>3, HighestRunsIs DEF DispatchInv, SamePending
<1> QED BY <1>4 DEF KeepsLock

-----------------------------------------------------------------------------
(* The actions.                                                            *)

(* The invariant as the steps below use it                                 *)
LEMMA DispatchFacts ==
  ASSUME DispatchInv
  PROVE  /\ k \in KernelRecord /\ Consistent(k) /\ k.group # {}
         /\ pc \in [Thread -> PC] /\ arg \in [Thread -> Thread]
         /\ \A t \in Thread : Running(t) => k.cur = t
BY IdleFacts DEF DispatchInv, IInv, TypeOK, Running

(* Interrupts and rt_schedule itself switch to the first thread or leave   *)
(* the ready lists alone.                                                  *)
LEMMA ScheduleDispatch ==
  ASSUME DispatchInv,
         Start \/ Interrupt \/ (\E t \in Thread : Reschedule(t))
  PROVE  HighestRuns' /\ KeepsLock
<1>0. k \in KernelRecord /\ Consistent(k) /\ k.group # {}
  BY DispatchFacts
<1>1. ASSUME k' = Schedule(k) PROVE HighestRuns' /\ KeepsLock
  <2>1. Dispatched(k, k') /\ k'.lock = k.lock
    BY <1>0, <1>1, ScheduleFacts DEF Dispatched
  <2> QED BY <2>1, DispatchedStep
<1>2. ASSUME Start \/ (\E t \in Thread : Reschedule(t)) PROVE HighestRuns' /\ KeepsLock
  BY <1>1, <1>2 DEF Start, Reschedule
<1>3. CASE ClockEnter
  <2>1. k.cur \in Thread /\ k' = TimeSlice(k) /\ pc' = pc
    BY <1>0, <1>3 DEF ClockEnter, KernelRecord
  <2>2. /\ k'.lock = k.lock
        /\ \/ k'.list = k.list /\ k'.cur = k.cur /\ k'.group = k.group
           \/ Dispatched(k, k')
    BY <1>0, <2>1, TimeSliceFacts
  <2>3. CASE Dispatched(k, k')
    BY <2>2, <2>3, DispatchedStep
  <2>4. CASE k'.list = k.list /\ k'.cur = k.cur /\ k'.group = k.group
    BY <2>1, <2>2, <2>4, SameReadyStep DEF SameReady, SamePending
  <2> QED BY <2>2, <2>3, <2>4
<1>4. CASE ClockLeave
  BY <1>4, SameReadyStep DEF ClockLeave, SameReady, SamePending
<1>5. ASSUME NEW t \in Thread, Expire(t) PROVE HighestRuns' /\ KeepsLock
  <2>1. k' = Timeout(k, t) /\ k.timer[t]
    BY <1>5 DEF Expire
  <2>2. k.stat[t] \in {"ready", "suspend"}
    BY <2>1 DEF DispatchInv, IInv, DeadUnlinked
  <2>3. Dispatched(k, k') /\ k'.lock = k.lock
    BY <1>0, <2>1, <2>2, TimeoutFacts
  <2> QED BY <2>3, DispatchedStep
<1>6. ASSUME NEW u \in Thread, DeviceResume(u) PROVE HighestRuns' /\ KeepsLock
  <2> DEFINE m == MakeReady(k, u)
  <2>1. k' = Schedule(m) /\ k.stat[u] = "suspend"
    BY <1>6 DEF DeviceResume, Resume
  <2> HIDE DEF m
  <2>2. k.stat[u] \in {"ready", "suspend"} /\ m = MakeReady(k, u)
    BY <2>1 DEF m
  <2>3. /\ m \in KernelRecord /\ Consistent(m) /\ SameRest(k, m)
        /\ m.group = k.group \cup {k.prio[u]}
    BY <1>0, <2>2, MakeReadyFacts
  <2>4. m.group # {} /\ m.lock = k.lock /\ m.cur = k.cur
    BY <2>3 DEF SameRest
  <2>5. Dispatched(m, k') /\ k'.lock = m.lock
    BY <2>1, <2>3, <2>4, ScheduleFacts DEF Dispatched
  <2>6. Dispatched(k, k')
    BY <2>4, <2>5 DEF Dispatched
  <2> QED BY <2>4, <2>5, <2>6, DispatchedStep
<1> QED BY <1>2, <1>3, <1>4, <1>5, <1>6 DEF Interrupt

(* The idle thread's reaping ends with rt_schedule, and freeing touches no *)
(* list.                                                                   *)
LEMMA IdleDispatch ==
  ASSUME DispatchInv, Reap \/ FreeThread PROVE HighestRuns' /\ KeepsLock
<1>0. /\ k \in KernelRecord /\ Consistent(k) /\ k.group # {} /\ pc \in [Thread -> PC]
      /\ Idle \in Thread /\ (Running(Idle) => k.cur = Idle)
  BY DispatchFacts, KernelAssumption
<1>1. CASE Reap
  <2> DEFINE u == Head(k.list[Defunct])
             a == Unlinked(k, u)
             b == LeaveCritical(EnterCritical(a))
  <2>1. k' = Schedule(b) /\ k.list[Defunct] # << >>
    BY <1>1 DEF Reap, Unlinked
  <2> HIDE DEF u, a, b
  <2>2. u \in Thread /\ u \in Elements(k.list[Defunct])
    <3>1. k.list[Defunct] \in Seq(Thread)
      BY <1>0 DEF KernelRecord, QueueLists, Queue
    <3> QED BY <2>1, <3>1, EmptyElements DEF u
  <2>3. k.stat[u] = "close"
    BY <2>2 DEF DispatchInv, IInv, DeadUnlinked
  <2>4. NotQueued(k, u)
    BY <2>2, <2>3, DeadUntargeted DEF DispatchInv
  <2>5. /\ a \in KernelRecord /\ Consistent(a) /\ a.group = k.group /\ SameRest(k, a)
    BY <1>0, <2>2, <2>4, UnlinkIdleFacts DEF a
  <2>6. b \in KernelRecord /\ Consistent(b) /\ b.group = a.group /\ SameRest(a, b)
    BY <2>5, LockPair DEF b
  <2>7. b.group # {} /\ b.lock = k.lock /\ b.cur = k.cur
    BY <1>0, <2>5, <2>6 DEF SameRest
  <2>8. Dispatched(b, k') /\ k'.lock = b.lock
    BY <2>1, <2>6, <2>7, ScheduleFacts DEF Dispatched
  <2>9. Dispatched(k, k')
    BY <2>7, <2>8 DEF Dispatched
  <2> QED BY <2>7, <2>8, <2>9, DispatchedStep
<1>2. CASE FreeThread
  <2>1. /\ k' = Retired(k, arg[Idle], "none") /\ k.cur = Idle /\ pc[Idle] = "free"
    BY <1>0, <1>2 DEF FreeThread, Retired
  <2>2. SameReady
    BY <1>0, <2>1 DEF SameReady, Retired, KernelRecord
  <2> QED BY <2>1, <2>2, SameReadyStep DEF SamePending, Unscheduled
<1> QED BY <1>1, <1>2

(* The rest of a call: rt_thread_resume and rt_thread_delete touch no      *)
(* ready list before the insertion, which rt_schedule follows.             *)
LEMMA KernelDispatch ==
  ASSUME DispatchInv, NEW t \in Thread,
         \/ ResumeUnlink(t) \/ ResumeInsert(t) \/ DeleteTimer(t) \/ DeleteClose(t)
         \/ SleepReturn(t)
  PROVE  HighestRuns' /\ KeepsLock
<1> DEFINE u == arg[t]
<1>0. /\ k \in KernelRecord /\ Consistent(k) /\ pc \in [Thread -> PC] /\ u \in Thread
      /\ (Running(t) => k.cur = t)
  BY DispatchFacts
<1>1. Window(t) => NotQueued(k, u) /\ k.stat[u] \in {"init", "ready", "suspend"}
  BY WindowFacts DEF DispatchInv, ResumeUnlink, ResumeInsert, DeleteTimer, DeleteClose,
     SleepReturn, Window, Resuming, Deleting
<1> HIDE DEF u
<1>2. CASE ResumeUnlink(t)
  <2>1. k' = Unlinked(k, u) /\ k.cur = t /\ pc[t] = "resume1" /\ NotQueued(k, u)
    BY <1>0, <1>1, <1>2 DEF ResumeUnlink, Unlinked, Window, Resuming, u
  <2>2. \A q \in Prio : k'.list[q] = k.list[q]
    BY <1>0, <2>1, UnlinkIdleFacts
  <2>3. k'.group = k.group /\ SameRest(k, k')
    BY <1>0, <2>1, UnlinkIdleFacts
  <2>4. SameReady
    BY <2>2, <2>3 DEF SameReady, SameRest
  <2> QED BY <2>1, <2>4, SameReadyStep DEF SamePending, Unscheduled
<1>3. CASE ResumeInsert(t)
  <2>1. k' = InsertThread(k, u) /\ k.cur = t /\ pc' = [pc EXCEPT ![t] = "sched"]
    BY <1>0, <1>3 DEF ResumeInsert, Goto, u
  <2>2. k'.cur = k.cur /\ k'.lock = k.lock /\ pc'[t] \in Unscheduled
    BY <1>0, <2>1 DEF InsertThread, KernelRecord, Unscheduled
  <2> QED BY <2>1, <2>2, PendingStep
<1>4. CASE DeleteTimer(t)
  <2>1. k' = StopTimer(k, u) /\ k.cur = t /\ pc[t] = "delete1"
    BY <1>0, <1>4 DEF DeleteTimer, u
  <2>2. SameReady
    BY <1>0, <2>1, StopTimerFacts DEF SameReady
  <2> QED BY <2>1, <2>2, SameReadyStep DEF SamePending, Unscheduled
<1>5. CASE DeleteClose(t)
  <2>1. /\ k' = (IF u \in Static THEN Retired(k, u, "close") ELSE Close(k, u))
        /\ k.cur = t /\ pc[t] = "delete2"
    BY <1>0, <1>5 DEF DeleteClose, Retired, u
  <2>2. SameReady
    <3>1. CASE u \in Static
      BY <1>0, <2>1, <3>1 DEF SameReady, Retired, KernelRecord
    <3>2. CASE u \notin Static
      <4>1. Nowhere(k.list, u)
        BY <1>5, <2>1 DEF DispatchInv, IInv, WindowsDelete, Deleting, u
      <4>2. k' = Close(k, u)
        BY <2>1, <3>2
      <4>3. /\ k'.group = k.group /\ SameRest(k, k')
            /\ \A q \in Queue : q # Defunct => k'.list[q] = k.list[q]
        BY <1>0, <4>1, <4>2, CloseFacts
      <4> QED BY <4>3, KernelAssumption DEF SameReady, SameRest, Queue
    <3> QED BY <3>1, <3>2
  <2> QED BY <2>1, <2>2, SameReadyStep DEF SamePending, Unscheduled
<1>6. CASE SleepReturn(t)
  <2>1. k.cur = t /\ pc[t] = "woken"
    BY <1>0, <1>6 DEF SleepReturn
  <2>2. SameReady
    BY <1>0, <1>6 DEF SleepReturn, SameReady, KernelRecord
  <2> QED BY <2>1, <2>2, SameReadyStep DEF SamePending, Unscheduled
<1> QED BY <1>2, <1>3, <1>4, <1>5, <1>6

(* Calls that change the order of the ready threads, or end the caller's   *)
(* turn, have an rt_schedule to come.                                      *)
LEMMA CallerDispatch ==
  ASSUME DispatchInv, NEW t \in Thread,
         YieldThread(t) \/ SleepThread(t) \/ ExitThread(t)
           \/ (\E u \in Thread, p \in Prio : ChangeThreadPriority(t, u, p))
  PROVE  HighestRuns' /\ KeepsLock
<1>0. /\ k \in KernelRecord /\ Consistent(k) /\ pc \in [Thread -> PC]
      /\ (Running(t) => k.cur = t)
  BY DispatchFacts
<1>1. ASSUME k'.cur = k.cur, k'.lock = k.lock, Running(t),
             Goto(t, "sched") \/ Goto(t, "block") \/ Goto(t, "exit")
      PROVE  HighestRuns' /\ KeepsLock
  <2>1. k.cur = t /\ pc'[t] \in Unscheduled
    BY <1>0, <1>1 DEF Goto, Unscheduled
  <2> QED BY <1>1, <2>1, PendingStep
<1>2. CASE YieldThread(t)
  BY <1>0, <1>1, <1>2 DEF YieldThread, Call, Rotate
<1>3. CASE SleepThread(t)
  BY <1>0, <1>1, <1>3 DEF SleepThread, Call, StartTimer, Suspend, StopTimer, RemoveThread
<1>4. CASE ExitThread(t)
  BY <1>0, <1>1, <1>4 DEF ExitThread, Call, Close, StopTimer, RemoveThread
<1>5. ASSUME NEW u \in Thread, NEW p \in Prio, ChangeThreadPriority(t, u, p)
      PROVE  HighestRuns' /\ KeepsLock
  <2>1. k' = ChangePriority(k, u, p) /\ Running(t) /\ Goto(t, "sched")
    BY <1>5 DEF ChangeThreadPriority, Call
  <2>2. SameRest(k, k')
    BY <1>0, <2>1, ChangePriorityFacts
  <2> QED BY <1>1, <2>1, <2>2 DEF SameRest
<1> QED BY <1>2, <1>3, <1>4, <1>5

(* Calls that work on another thread leave the caller's list alone, or     *)
(* take another thread out of it; a thread that suspends itself has an     *)
(* rt_schedule to come.                                                    *)
LEMMA OtherDispatch ==
  ASSUME DispatchInv, IInv', NEW t \in Thread, NEW u \in Thread,
         \/ CreateThread(t, u) \/ StartupThread(t, u) \/ DeleteThread(t, u)
         \/ SuspendThread(t, u) \/ ResumeThread(t, u)
  PROVE  HighestRuns' /\ KeepsLock
<1>0. /\ k \in KernelRecord /\ Consistent(k) /\ pc \in [Thread -> PC]
      /\ k.cur = t /\ pc[t] = "app"
  BY DispatchFacts
  DEF CreateThread, StartupThread, DeleteThread, SuspendThread, ResumeThread, Call
<1>1. SamePending
  BY <1>0 DEF SamePending, Unscheduled
<1>2. CASE CreateThread(t, u) \/ ResumeThread(t, u)
  <2>1. SameReady
    BY <1>0, <1>2, ZenonT(60) DEF CreateThread, ResumeThread, InitThread, SameReady, KernelRecord
  <2> QED BY <1>1, <2>1, SameReadyStep
<1>3. CASE StartupThread(t, u)
  <2>1. SameReady
    BY <1>0, <1>3 DEF StartupThread, PrepareStartup, SameReady, KernelRecord
  <2> QED BY <1>1, <2>1, SameReadyStep
<1>4. CASE DeleteThread(t, u)
  <2>1. CASE k.stat[u] = "init"
    BY <1>1, <1>4, <2>1, SameReadyStep DEF DeleteThread, SameReady
  <2>2. CASE k.stat[u] # "init"
    <3>1. k' = RemoveThread(k, u) /\ k.stat[u] \in {"ready", "suspend"} /\ u # t
      BY <1>4, <2>2 DEF DeleteThread
    <3>2. \A q \in Prio : \A v \in Elements(k.list[q]) :
            k.prio[v] = q /\ (v # u => k.stat[v] = "ready")
      BY <1>0 DEF Consistent, QueuedReady
    <3>3. /\ SameRest(k, k') /\ k'.group \subseteq k.group
          /\ \A q \in Queue : k.list[q] # << >> /\ k.list[q][1] # u =>
                SameHead(k.list[q], k'.list[q])
      BY <1>0, <3>1, <3>2, RemoveFacts DEF Consistent
    <3> QED BY <1>0, <1>1, <3>1, <3>3, LeavingStep DEF SameRest
  <2> QED BY <2>1, <2>2
<1>5. CASE SuspendThread(t, u)
  <2>1. k' = Suspend(k, u) /\ k.stat[u] \in {"ready", "suspend"}
    BY <1>5 DEF SuspendThread
  <2>2. /\ k'.cur = k.cur /\ k'.lock = k.lock /\ k'.group \subseteq k.group
        /\ \A q \in Queue : k.list[q] # << >> /\ k.list[q][1] # u =>
              SameHead(k.list[q], k'.list[q])
    BY <1>0, <2>1, SuspendFacts
  <2>3. CASE u = t
    <3>1. pc'[t] \in Unscheduled
      BY <1>0, <1>5, <2>3 DEF SuspendThread, Goto, Unscheduled
    <3> QED BY <1>0, <2>2, <3>1, PendingStep
  <2>4. CASE u # t
    BY <1>0, <1>1, <2>2, <2>4, LeavingStep
  <2> QED BY <2>3, <2>4
<1> QED BY <1>2, <1>3, <1>4, <1>5

(* The critical sections: the lock is taken, or its release is followed by *)
(* rt_schedule.                                                            *)
LEMMA CriticalDispatch ==
  ASSUME DispatchInv, NEW t \in Thread, Enter(t) \/ Leave(t) \/ FindThread(t)
  PROVE  HighestRuns'
<1>0. /\ k \in KernelRecord /\ pc \in [Thread -> PC] /\ k.cur = t /\ k.lock \in Nat
  BY DispatchFacts DEF Enter, Leave, FindThread, Call, KernelRecord
<1>1. CASE Enter(t)
  <2>1. k'.lock # 0
    BY <1>0, <1>1 DEF Enter, EnterCritical, KernelRecord
  <2> QED BY <2>1, HighestRunsIs
<1>2. CASE Leave(t) \/ FindThread(t)
  <2>1. k'.cur = t /\ (k'.lock = 0 => pc'[t] = "sched")
    BY <1>0, <1>2 DEF Leave, FindThread, LeaveCritical, Goto, KernelRecord
  <2> QED BY <2>1, HighestRunsIs DEF Unscheduled
<1> QED BY <1>1, <1>2

-----------------------------------------------------------------------------
(* Every step but those of rt_enter_critical, rt_exit_critical and         *)
(* rt_thread_find keeps the lock, and the processor while it is locked.    *)
LEMMA DispatchNext ==
  ASSUME DispatchInv, IInv', [Next]_vars
  PROVE  /\ HighestRuns'
         /\ KeepsLock \/ \E t \in Thread : Enter(t) \/ Leave(t) \/ FindThread(t)
<1>1. CASE Start \/ Interrupt
  BY <1>1, ScheduleDispatch
<1>2. CASE Reap \/ FreeThread
  BY <1>2, IdleDispatch
<1>3. ASSUME NEW t \in Thread, InKernel(t) PROVE HighestRuns' /\ KeepsLock
  <2>1. CASE Reschedule(t)
    BY <2>1, ScheduleDispatch
  <2>2. CASE ~Reschedule(t)
    BY <1>3, <2>2, KernelDispatch DEF InKernel
  <2> QED BY <2>1, <2>2
<1>4. ASSUME NEW t \in Thread, Enter(t) \/ Leave(t) \/ FindThread(t) PROVE HighestRuns'
  BY <1>4, CriticalDispatch
<1>5. ASSUME NEW t \in Thread, Application(t), ~(Enter(t) \/ Leave(t) \/ FindThread(t))
      PROVE  HighestRuns' /\ KeepsLock
  <2>1. CASE YieldThread(t) \/ SleepThread(t) \/ ExitThread(t)
              \/ (\E u \in Thread, p \in Prio : ChangeThreadPriority(t, u, p))
    BY <2>1, CallerDispatch
  <2>2. ASSUME NEW u \in Thread,
               \/ CreateThread(t, u) \/ StartupThread(t, u) \/ DeleteThread(t, u)
               \/ SuspendThread(t, u) \/ ResumeThread(t, u)
        PROVE  HighestRuns' /\ KeepsLock
    BY <2>2, OtherDispatch
  <2> QED BY <1>5, <2>1, <2>2 DEF Application
<1>6. CASE UNCHANGED vars
  BY <1>6, SameReadyStep DEF vars, SameReady, SamePending
<1> QED BY <1>1, <1>2, <1>3, <1>4, <1>5, <1>6 DEF Next

(* Outside the windows of the kernel's calls, and with the scheduler       *)
(* unlocked, the processor executes the first thread of the highest ready  *)
(* priority.                                                               *)
THEOREM HighestAlwaysRuns == CalmSpec => []HighestRuns
<1>1. Init => DispatchInv
  BY InitStep DEF DispatchInv, HighestRuns
<1>2. ASSUME DispatchInv, [CalmNext]_vars PROVE DispatchInv'
  <2>1. IInv'
    BY <1>2, NextStep DEF DispatchInv
  <2>2. HighestRuns'
    BY <1>2, <2>1, CalmIsNext, DispatchNext
  <2> QED BY <2>1, <2>2 DEF DispatchInv
<1>3. DispatchInv => HighestRuns
  BY DEF DispatchInv
<1> QED BY <1>1, <1>2, <1>3, PTL DEF CalmSpec

(* rt_scheduler_lock_nest is the number of critical sections the current   *)
(* thread has open, and no other thread has one open.                      *)
LockOwned ==
  /\ \A t \in Thread : crit[t] = IF k.cur = t THEN k.lock ELSE 0
  /\ k.cur = NoThread => k.lock = 0

(* The steps of the critical sections preserve LockOwned.                  *)
LEMMA LockOwnedStep ==
  ASSUME IInv, LockOwned, NEW t \in Thread, Enter(t) \/ Leave(t) PROVE LockOwned'
<1>1. /\ k \in KernelRecord /\ k.lock \in Nat /\ crit \in [Thread -> Nat]
      /\ k.cur = t /\ t # NoThread /\ crit[t] = k.lock
  BY IdleFacts, KernelAssumption
  DEF KernelRecord, IInv, TypeOK, Enter, Leave, Call, Running, LockOwned
<1>2. CASE Enter(t)
  <2>1. k'.cur = t /\ k'.lock = k.lock + 1 /\ crit' = [crit EXCEPT ![t] = @ + 1]
    BY <1>1, <1>2 DEF Enter, EnterCritical, KernelRecord
  <2> QED BY <1>1, <2>1 DEF LockOwned
<1>3. CASE Leave(t)
  <2>1. /\ k'.cur = t /\ k'.lock = (IF k.lock <= 1 THEN 0 ELSE k.lock - 1)
        /\ crit' = [crit EXCEPT ![t] = @ - 1] /\ crit[t] > 0
    BY <1>1, <1>3 DEF Leave, LeaveCritical, KernelRecord
  <2>2. k'.lock = k.lock - 1
    BY <1>1, <2>1
  <2> QED BY <1>1, <2>1, <2>2 DEF LockOwned
<1> QED BY <1>2, <1>3

(* Without rt_thread_find, a thread in a critical section is not switched  *)
(* out, whatever interrupts come and whatever it calls.                    *)
THEOREM CriticalSectionsHold ==
  ASSUME "find" \notin Ops PROVE CalmSpec => []CriticalKeepsCpu
<1> DEFINE Inv == DispatchInv /\ LockOwned
<1>1. Init => Inv
  <2>1. Init => LockOwned
    BY InitStep DEF LockOwned, Init
  <2> QED BY <2>1, InitStep DEF DispatchInv, HighestRuns
<1>2. ASSUME Inv, [CalmNext]_vars PROVE Inv'
  <2>1. IInv' /\ [Next]_vars
    BY <1>2, NextStep, CalmIsNext DEF DispatchInv
  <2>2. /\ HighestRuns'
        /\ KeepsLock \/ \E t \in Thread : Enter(t) \/ Leave(t)
    BY <1>2, <2>1, DispatchNext DEF FindThread, Call
  <2>3. CASE \E t \in Thread : Enter(t) \/ Leave(t)
    BY <1>2, <2>1, <2>2, <2>3, LockOwnedStep DEF DispatchInv
  <2>4. CASE KeepsLock /\ ~(\E t \in Thread : Enter(t) \/ Leave(t))
    <3>1. crit' = crit
      BY <2>1, <2>4
      DEF Next, vars, Start, Reap, FreeThread, Interrupt, ClockEnter, ClockLeave, Expire,
          DeviceResume, Application, InKernel, YieldThread, SleepThread, ExitThread,
          FindThread, CreateThread, StartupThread, DeleteThread, SuspendThread,
          ResumeThread, ChangeThreadPriority, ResumeUnlink, ResumeInsert, DeleteTimer,
          DeleteClose, Reschedule, SleepReturn
    <3>2. LockOwned'
      BY <1>2, <2>4, <3>1 DEF LockOwned, KeepsLock
    <3> QED BY <2>1, <2>2, <3>2 DEF DispatchInv
  <2> QED BY <2>2, <2>3, <2>4
<1>3. Inv => CriticalKeepsCpu
  BY DEF LockOwned, CriticalKeepsCpu
<1> QED BY <1>1, <1>2, <1>3, PTL DEF CalmSpec

-----------------------------------------------------------------------------
(* The policy: every step is one of fixed-priority preemptive scheduling.  *)

(* What rt_list_remove, alone and with rt_list_insert_before after it, do  *)
(* to the ready lists                                                      *)
SameQueues(list, new)  == \A q \in Prio : new[q] = list[q]
Dequeued(list, new, t) == \A q \in Prio : new[q] = Without(list[q], t)
Requeued(list, new, t, p) ==
  /\ new[p] = Append(Without(list[p], t), t)
  /\ \A q \in Prio \ {p} : new[q] = Without(list[q], t)

(* A step moves one thread at most, and the processor goes to the first of *)
(* the most urgent ones, if it goes to another.                            *)
MovesOne(list, new) ==
  \/ SameQueues(list, new)
  \/ \E t \in Thread : Dequeued(list, new, t) \/ \E p \in Prio : Requeued(list, new, t, p)
GoesToFirst == k'.cur = k.cur \/ (k'.lock = k.lock /\ Dispatched(k, k'))
PolicyStep  == MovesOne(k.list, k'.list) /\ GoesToFirst

(* rt_list_remove, seen from one list                                      *)
LEMMA UnlinkOne ==
  ASSUME NEW list \in QueueLists, NEW t, NEW q \in Queue
  PROVE  Unlink(list, t)[q] = Without(list[q], t)
BY DEF QueueLists, Unlink

(* Without changes no list that the thread is not in.                      *)
LEMMA WithoutOther ==
  ASSUME NEW s, NEW t, t \notin Elements(s) PROVE Without(s, t) = s
BY DEF Without

(* The operators of the abstract specification's lists                     *)
LEMMA PolicyLists ==
  ASSUME NEW s, NEW t
  PROVE  Policy!Elements(s) = Elements(s) /\ Policy!Without(s, t) = Without(s, t)
BY DEF Policy!Elements, Elements, Policy!Without, Without

(* A thread that has left, or joined a list as its last, is what the       *)
(* abstract specification says of one.                                     *)
LEMMA MovesOneChange ==
  ASSUME k \in KernelRecord, Consistent(k), k' \in KernelRecord, MovesOne(k.list, k'.list)
  PROVE  Policy!Change
<1> DEFINE Q == [q \in Prio |-> k.list[q]]
           R == [q \in Prio |-> k'.list[q]]
<1>1. \A q \in Prio : k.list[q] \in Seq(Thread) /\ NoRepeat(k.list[q])
  BY DEF KernelRecord, QueueLists, Queue, Consistent, LinkedOnce, NoRepeat
<1>2. \A q \in Prio : Q[q] = k.list[q] /\ R[q] = k'.list[q]
  OBVIOUS
<1>3. CASE SameQueues(k.list, k'.list)
  <2>1. Q = R
    BY <1>3 DEF SameQueues
  <2> QED BY <2>1 DEF Policy!Change
<1> HIDE DEF Q, R
<1>4. \A q \in Prio, t \in Thread :
         /\ Without(k.list[q], t) \in Seq(Thread)
         /\ t \notin Elements(Without(k.list[q], t))
         /\ Without(Without(k.list[q], t), t) = Without(k.list[q], t)
  BY <1>1, WithoutFacts, WithoutOther
<1>5. ASSUME NEW t \in Thread, Dequeued(k.list, k'.list, t) PROVE Policy!Withdraw(t)
  <2>1. \A q \in Prio : t \notin Elements(R[q]) /\ Without(Q[q], t) = Without(R[q], t)
    BY <1>2, <1>4, <1>5 DEF Dequeued
  <2> QED BY <2>1, PolicyLists DEF Policy!Withdraw, Policy!SameOrderBut, Q, R
<1>6. ASSUME NEW t \in Thread, NEW p \in Prio, Requeued(k.list, k'.list, t, p)
      PROVE  Policy!JoinLast(t, p)
  <2>1. /\ R[p] # << >> /\ R[p][Len(R[p])] = t
        /\ \A i \in 1 .. Len(R[p]) - 1 : R[p][i] # t
        /\ Without(R[p], t) = Without(Q[p], t)
    BY <1>2, <1>4, <1>6, AppendLast, SMTT(60) DEF Requeued
  <2>2. \A q \in Prio \ {p} : t \notin Elements(R[q]) /\ Without(Q[q], t) = Without(R[q], t)
    BY <1>2, <1>4, <1>6 DEF Requeued
  <2> QED BY <2>1, <2>2, PolicyLists DEF Policy!JoinLast, Policy!SameOrderBut, Q, R
<1> QED BY <1>3, <1>5, <1>6 DEF MovesOne, Policy!Change

(* The first thread of the most urgent list                                *)
LEMMA RunsFirstDispatch ==
  ASSUME k' \in KernelRecord, Consistent(k)', k'.group # {}, RunsFirst(k)'
  PROVE  Policy!Dispatch
<1> DEFINE p == HighestReady(k')
<1>1. p \in k'.group /\ \A r \in k'.group : p <= r
  BY HighestReadyFacts DEF KernelRecord
<1>2. k'.group = {r \in Prio : k'.list[r] # << >>}
  BY DEF Consistent, BitmapExact
<1>3. p \in Prio /\ k'.list[p] # << >> /\ \A r \in Prio : r < p => k'.list[r] = << >>
  BY <1>1, <1>2, KernelAssumption DEF Prio
<1>4. k'.cur = k'.list[p][1]
  <2>1. k'.list[p] \in Seq(Thread)
    BY <1>3 DEF KernelRecord, QueueLists, Queue
  <2> QED BY <1>3, <2>1, EmptyElements DEF RunsFirst
<1> QED BY <1>3, <1>4 DEF Policy!Dispatch

-----------------------------------------------------------------------------
(* The functions of the kernel.                                            *)

(* rt_list_remove, then rt_list_insert_before                              *)
LEMMA Relinked ==
  ASSUME NEW list \in QueueLists, NEW t \in Thread, NEW p \in Prio
  PROVE  /\ Requeued(list, LinkLast(Unlink(list, t), p, t), t, p)
         /\ Dequeued(list, Unlink(list, t), t)
<1> DEFINE mid == Unlink(list, t)
<1>1. /\ DOMAIN mid = Queue /\ p \in Queue
      /\ \A q \in Prio : mid[q] = Without(list[q], t)
  BY UnlinkOne DEF QueueLists, Unlink, Queue
<1> HIDE DEF mid
<1>2. Requeued(list, LinkLast(mid, p, t), t, p)
  BY <1>1 DEF Requeued, LinkLast
<1>3. Dequeued(list, mid, t)
  BY <1>1 DEF Dequeued
<1> QED BY <1>2, <1>3 DEF mid

LEMMA MovesLists ==
  ASSUME NEW kd \in KernelRecord, NEW t \in Thread
  PROVE  /\ MovesOne(kd.list, kd.list)
         /\ MovesOne(kd.list, MakeReady(kd, t).list)
         /\ MovesOne(kd.list, Rotate(kd, t).list)
         /\ MovesOne(kd.list, RemoveThread(kd, t).list)
         /\ MovesOne(kd.list, Suspend(kd, t).list)
<1>1. kd.list \in QueueLists /\ kd.prio[t] \in Prio
  BY DEF KernelRecord
<1>2. /\ MakeReady(kd, t).list = LinkLast(Unlink(kd.list, t), kd.prio[t], t)
      /\ Rotate(kd, t).list = LinkLast(Unlink(kd.list, t), kd.prio[t], t)
  BY DEF MakeReady, InsertThread, Rotate, KernelRecord
<1>3. RemoveThread(kd, t).list = Unlink(kd.list, t)
  BY DEF RemoveThread, KernelRecord
<1>4. Suspend(kd, t).list = Unlink(kd.list, t)
  BY DEF Suspend, StopTimer, RemoveThread, KernelRecord
<1>5. MovesOne(kd.list, kd.list)
  BY DEF MovesOne, SameQueues
<1>6. PICK a, b : a = Unlink(kd.list, t) /\ b = LinkLast(a, kd.prio[t], t)
  OBVIOUS
<1>7. MovesOne(kd.list, a) /\ MovesOne(kd.list, b)
  BY <1>1, <1>6, Relinked DEF MovesOne
<1> QED BY <1>2, <1>3, <1>4, <1>5, <1>6, <1>7

(* rt_schedule_insert_thread of a thread that is linked nowhere            *)
LEMMA InsertMoves ==
  ASSUME NEW kd \in KernelRecord, NEW t \in Thread, NotQueued(kd, t)
  PROVE  MovesOne(kd.list, InsertThread(kd, t).list)
<1> DEFINE p == kd.prio[t]
<1>1. kd.list \in QueueLists /\ p \in Prio /\ \A q \in Prio : q \in Queue
  BY DEF KernelRecord, Queue
<1>2. InsertThread(kd, t).list = LinkLast(kd.list, p, t)
  BY DEF InsertThread, KernelRecord
<1>3. \A q \in Prio : Without(kd.list[q], t) = kd.list[q]
  BY WithoutOther DEF NotQueued
<1> HIDE DEF p
<1>4. Requeued(kd.list, LinkLast(kd.list, p, t), t, p)
  <2>1. PICK new : new = LinkLast(kd.list, p, t)
    OBVIOUS
  <2>2. new[p] = Append(kd.list[p], t) /\ \A q \in Prio \ {p} : new[q] = kd.list[q]
    BY <1>1, <2>1 DEF LinkLast, QueueLists
  <2>3. Requeued(kd.list, new, t, p)
    BY <1>1, <1>3, <2>2 DEF Requeued
  <2> QED BY <2>1, <2>3
<1> QED BY <1>1, <1>2, <1>4 DEF MovesOne

(* rt_thread_control(RT_THREAD_CTRL_CHANGE_PRIORITY)                       *)
LEMMA PriorityMovesOne ==
  ASSUME NEW kd \in KernelRecord, NEW t \in Thread, NEW p \in Prio
  PROVE  MovesOne(kd.list, ChangePriority(kd, t, p).list)
<1> DEFINE m == Renumber(RemoveThread(kd, t), t, p)
<1>1. CASE kd.stat[t] = "ready"
  <2>1. m.list = Unlink(kd.list, t) /\ m.prio[t] = p
    BY DEF Renumber, RemoveThread, KernelRecord
  <2>2. ChangePriority(kd, t, p) = InsertThread(m, t)
    BY <1>1 DEF ChangePriority
  <2>3. InsertThread(m, t).list = LinkLast(m.list, m.prio[t], t)
    BY DEF InsertThread, Renumber, RemoveThread, KernelRecord
  <2> HIDE DEF m
  <2>4. kd.list \in QueueLists
    BY DEF KernelRecord
  <2> QED BY <2>1, <2>2, <2>3, <2>4, Relinked DEF MovesOne
<1>2. CASE kd.stat[t] # "ready"
  <2>1. ChangePriority(kd, t, p).list = kd.list
    BY <1>2 DEF ChangePriority, Renumber, KernelRecord
  <2> QED BY <2>1 DEF MovesOne, SameQueues
<1> QED BY <1>1, <1>2

(* rt_thread_timeout, and the time slice of rt_tick_increase               *)
LEMMA ClockMovesOne ==
  ASSUME NEW kd \in KernelRecord, NEW t \in Thread
  PROVE  /\ MovesOne(kd.list, Timeout(kd, t).list)
         /\ kd.cur \in Thread => MovesOne(kd.list, TimeSlice(kd).list)
<1>1. Timeout(kd, t).list = MakeReady(kd, t).list
  BY DEF Timeout, Schedule, MakeReady, InsertThread, KernelRecord
<1>2. ASSUME NEW m, m = [kd EXCEPT !.slice[kd.cur] = InitTick]
      PROVE  Schedule(Rotate(m, kd.cur)).list = Rotate(kd, kd.cur).list
  BY <1>2 DEF Schedule, Rotate, KernelRecord
<1>3. \/ TimeSlice(kd).list = kd.list
      \/ TimeSlice(kd).list = Rotate(kd, kd.cur).list
  <2>1. CASE kd.slice[kd.cur] > 1
    BY <2>1 DEF TimeSlice, KernelRecord
  <2>2. CASE ~(kd.slice[kd.cur] > 1)
    <3>1. PICK m : m = [kd EXCEPT !.slice[kd.cur] = InitTick]
      OBVIOUS
    <3>2. m.list = kd.list
      BY <3>1 DEF KernelRecord
    <3>3. TimeSlice(kd) = IF CanRotate(m, kd.cur) THEN Schedule(Rotate(m, kd.cur)) ELSE m
      BY <2>2, <3>1 DEF TimeSlice
    <3> QED BY <1>2, <3>1, <3>2, <3>3
  <2> QED BY <2>1, <2>2
<1> QED BY <1>1, <1>3, MovesLists

-----------------------------------------------------------------------------
(* The actions.                                                            *)

KernelSound == k \in KernelRecord /\ Consistent(k) /\ k.group # {}

LEMMA PolicyFacts ==
  ASSUME IInv
  PROVE  /\ k \in KernelRecord /\ Consistent(k) /\ k.group # {}
         /\ pc \in [Thread -> PC] /\ arg \in [Thread -> Thread]
BY IdleFacts DEF IInv, TypeOK

(* Interrupts, rt_schedule, and rt_system_scheduler_start                  *)
LEMMA InterruptPolicy ==
  ASSUME IInv, Start \/ Interrupt \/ (\E t \in Thread : Reschedule(t))
  PROVE  PolicyStep
<1>0. k \in KernelRecord /\ Consistent(k) /\ k.group # {}
  BY PolicyFacts
<1>1. CASE Start \/ (\E t \in Thread : Reschedule(t))
  <2>1. k' = Schedule(k)
    BY <1>1 DEF Start, Reschedule
  <2>2. Dispatched(k, k') /\ k'.lock = k.lock /\ k'.list = k.list
    BY <1>0, <2>1, ScheduleFacts DEF Dispatched
  <2> QED BY <2>2 DEF PolicyStep, GoesToFirst, MovesOne, SameQueues
<1>2. CASE ClockEnter
  <2>1. k.cur \in Thread /\ k' = TimeSlice(k)
    BY <1>0, <1>2 DEF ClockEnter, KernelRecord
  <2>2. GoesToFirst
    BY <1>0, <2>1, TimeSliceFacts DEF GoesToFirst
  <2> QED BY <1>0, <2>1, <2>2, ClockMovesOne DEF PolicyStep
<1>3. CASE ClockLeave
  BY <1>3 DEF ClockLeave, PolicyStep, GoesToFirst, MovesOne, SameQueues
<1>4. ASSUME NEW t \in Thread, Expire(t) PROVE PolicyStep
  <2>1. k' = Timeout(k, t) /\ k.stat[t] \in {"ready", "suspend"}
    BY <1>4 DEF Expire, IInv, DeadUnlinked
  <2>2. GoesToFirst
    BY <1>0, <2>1, TimeoutFacts DEF GoesToFirst
  <2> QED BY <1>0, <2>1, <2>2, ClockMovesOne DEF PolicyStep
<1>5. ASSUME NEW u \in Thread, DeviceResume(u) PROVE PolicyStep
  <2>1. PICK m : m = MakeReady(k, u)
    OBVIOUS
  <2>2. k' = Schedule(m) /\ k.stat[u] \in {"ready", "suspend"}
    BY <1>5, <2>1 DEF DeviceResume, Resume
  <2>3. /\ m \in KernelRecord /\ Consistent(m) /\ SameRest(k, m)
        /\ m.group = k.group \cup {k.prio[u]}
    BY <1>0, <2>1, <2>2, MakeReadyFacts
  <2>4. m.group # {} /\ m.lock = k.lock /\ m.cur = k.cur
    BY <2>3 DEF SameRest
  <2>5. Dispatched(m, k') /\ k'.lock = m.lock /\ k'.list = m.list
    BY <2>2, <2>3, <2>4, ScheduleFacts DEF Dispatched
  <2>6. GoesToFirst
    BY <2>4, <2>5 DEF Dispatched, GoesToFirst
  <2> QED BY <1>0, <2>1, <2>5, <2>6, MovesLists DEF PolicyStep
<1> QED BY <1>1, <1>2, <1>3, <1>4, <1>5 DEF Interrupt

(* The idle thread                                                         *)
LEMMA IdlePolicy ==
  ASSUME IInv, Reap \/ FreeThread PROVE PolicyStep
<1>0. k \in KernelRecord /\ Consistent(k) /\ k.group # {} /\ arg[Idle] \in Thread
  BY PolicyFacts, KernelAssumption
<1>1. CASE Reap
  <2> DEFINE u == Head(k.list[Defunct])
             a == Unlinked(k, u)
             b == LeaveCritical(EnterCritical(a))
  <2>1. k' = Schedule(b) /\ k.list[Defunct] # << >>
    BY <1>1 DEF Reap, Unlinked
  <2> HIDE DEF u, a, b
  <2>2. u \in Thread /\ u \in Elements(k.list[Defunct])
    <3>1. k.list[Defunct] \in Seq(Thread)
      BY <1>0 DEF KernelRecord, QueueLists, Queue
    <3> QED BY <2>1, <3>1, EmptyElements DEF u
  <2>3. k.stat[u] = "close"
    BY <2>2 DEF IInv, DeadUnlinked
  <2>4. NotQueued(k, u)
    BY <2>2, <2>3, DeadUntargeted
  <2>5. /\ a \in KernelRecord /\ Consistent(a) /\ a.group = k.group /\ SameRest(k, a)
        /\ SameQueues(k.list, a.list)
    BY <1>0, <2>2, <2>4, UnlinkIdleFacts DEF a, SameQueues
  <2>6. /\ b \in KernelRecord /\ Consistent(b) /\ b.group = a.group /\ SameRest(a, b)
        /\ b.list = a.list
    BY <2>5, LockPair DEF b
  <2>7. b.group # {} /\ b.lock = k.lock /\ b.cur = k.cur
    BY <1>0, <2>5, <2>6 DEF SameRest
  <2>8. Dispatched(b, k') /\ k'.lock = b.lock /\ k'.list = b.list
    BY <2>1, <2>6, <2>7, ScheduleFacts DEF Dispatched
  <2>9. GoesToFirst
    BY <2>7, <2>8 DEF Dispatched, GoesToFirst
  <2> QED BY <2>5, <2>6, <2>8, <2>9 DEF PolicyStep, MovesOne
<1>2. CASE FreeThread
  <2>1. k'.list = k.list /\ k'.cur = k.cur
    BY <1>0, <1>2 DEF FreeThread, KernelRecord
  <2> QED BY <2>1 DEF PolicyStep, GoesToFirst, MovesOne, SameQueues
<1> QED BY <1>1, <1>2

(* The rest of a call: nothing moves before the insertion.                 *)
LEMMA KernelPolicy ==
  ASSUME IInv, NEW t \in Thread,
         \/ ResumeUnlink(t) \/ ResumeInsert(t) \/ DeleteTimer(t) \/ DeleteClose(t)
         \/ SleepReturn(t)
  PROVE  PolicyStep
<1> DEFINE u == arg[t]
<1>0. k \in KernelRecord /\ Consistent(k) /\ u \in Thread
  BY PolicyFacts
<1>1. Window(t) => NotQueued(k, u)
  BY WindowFacts DEF ResumeUnlink, ResumeInsert, DeleteTimer, DeleteClose,
     SleepReturn, Window, Resuming, Deleting
<1> HIDE DEF u
<1>2. ASSUME k'.cur = k.cur, SameQueues(k.list, k'.list) PROVE PolicyStep
  BY <1>2 DEF PolicyStep, GoesToFirst, MovesOne
<1>3. CASE ResumeUnlink(t)
  <2>1. k' = Unlinked(k, u) /\ NotQueued(k, u)
    BY <1>1, <1>3 DEF ResumeUnlink, Unlinked, Window, Resuming, u
  <2>2. SameRest(k, k') /\ SameQueues(k.list, k'.list)
    BY <1>0, <2>1, UnlinkIdleFacts DEF SameQueues
  <2> QED BY <1>2, <2>2 DEF SameRest
<1>4. CASE ResumeInsert(t)
  <2>1. k' = InsertThread(k, u) /\ NotQueued(k, u)
    BY <1>1, <1>4 DEF ResumeInsert, Window, Resuming, u
  <2>2. k'.cur = k.cur
    BY <1>0, <2>1 DEF InsertThread, KernelRecord
  <2> QED BY <1>0, <2>1, <2>2, InsertMoves DEF PolicyStep, GoesToFirst
<1>5. CASE DeleteTimer(t) \/ SleepReturn(t)
  <2>1. k'.list = k.list /\ k'.cur = k.cur
    BY <1>0, <1>5 DEF DeleteTimer, StopTimer, SleepReturn, KernelRecord
  <2> QED BY <1>2, <2>1 DEF SameQueues
<1>6. CASE DeleteClose(t)
  <2>1. \/ k'.list = k.list
        \/ k'.list = LinkFirst(k.list, Defunct, u)
    BY <1>0, <1>6 DEF DeleteClose, Close, KernelRecord, u
  <2>2. \A q \in Prio : q # Defunct /\ q \in Queue
    BY KernelAssumption DEF Queue
  <2>3. SameQueues(k.list, k'.list)
    BY <1>0, <2>1, <2>2 DEF SameQueues, LinkFirst, KernelRecord, QueueLists
  <2>4. k'.cur = k.cur
    BY <1>0, <1>6 DEF DeleteClose, Close, KernelRecord
  <2> QED BY <1>2, <2>3, <2>4
<1> QED BY <1>3, <1>4, <1>5, <1>6

(* A call of the application                                               *)
LEMMA ApplicationPolicy ==
  ASSUME IInv, NEW t \in Thread, Application(t) PROVE PolicyStep
<1>0. k \in KernelRecord
  BY PolicyFacts
<1>1. ASSUME k'.cur = k.cur, k'.list = k.list PROVE PolicyStep
  BY <1>1 DEF PolicyStep, GoesToFirst, MovesOne, SameQueues
<1>2. CASE YieldThread(t)
  <2>1. k' = Rotate(k, t) /\ k'.cur = k.cur
    BY <1>2 DEF YieldThread, Rotate
  <2> QED BY <1>0, <2>1, MovesLists DEF PolicyStep, GoesToFirst
<1>3. CASE SleepThread(t)
  <2>1. k'.list = Suspend(k, t).list /\ k'.cur = k.cur
    BY <1>0, <1>3 DEF SleepThread, StartTimer, Suspend, StopTimer, RemoveThread, KernelRecord
  <2> QED BY <1>0, <2>1, MovesLists DEF PolicyStep, GoesToFirst
<1>4. CASE ExitThread(t)
  <2>1. PICK m : m = RemoveThread(k, t)
    OBVIOUS
  <2>2. \/ k'.list = m.list
        \/ k'.list = LinkFirst(m.list, Defunct, t)
    BY <1>0, <1>4, <2>1 DEF ExitThread, Close, StopTimer, RemoveThread, KernelRecord
  <2>3. k'.cur = k.cur
    BY <1>0, <1>4 DEF ExitThread, Close, StopTimer, RemoveThread, KernelRecord
  <2>4. m.list = Unlink(k.list, t)
    BY <1>0, <2>1 DEF RemoveThread, KernelRecord
  <2>5. DOMAIN m.list = Queue /\ Dequeued(k.list, m.list, t)
    BY <1>0, <2>4, UnlinkOne DEF Dequeued, Unlink, KernelRecord, QueueLists, Queue
  <2>6. \A q \in Prio : q # Defunct /\ q \in Queue
    BY KernelAssumption DEF Queue
  <2>7. Dequeued(k.list, k'.list, t)
    BY <2>2, <2>5, <2>6 DEF Dequeued, LinkFirst
  <2> QED BY <2>3, <2>7 DEF PolicyStep, GoesToFirst, MovesOne
<1>5. CASE Enter(t) \/ Leave(t) \/ FindThread(t)
  BY <1>0, <1>1, <1>5 DEF Enter, Leave, FindThread, EnterCritical, LeaveCritical, KernelRecord
<1>6. ASSUME NEW u \in Thread,
             CreateThread(t, u) \/ StartupThread(t, u) \/ ResumeThread(t, u)
      PROVE  PolicyStep
  BY <1>0, <1>1, <1>6
  DEF CreateThread, StartupThread, ResumeThread, InitThread, PrepareStartup, KernelRecord
<1>7. ASSUME NEW u \in Thread, DeleteThread(t, u) PROVE PolicyStep
  <2>1. k' = k \/ k' = RemoveThread(k, u)
    BY <1>7 DEF DeleteThread
  <2>2. k'.cur = k.cur
    BY <1>0, <2>1 DEF RemoveThread, KernelRecord
  <2> QED BY <1>0, <1>1, <2>1, <2>2, MovesLists DEF PolicyStep, GoesToFirst
<1>8. ASSUME NEW u \in Thread, SuspendThread(t, u) PROVE PolicyStep
  <2>1. k' = Suspend(k, u)
    BY <1>8 DEF SuspendThread
  <2>2. k'.cur = k.cur
    BY <1>0, <2>1 DEF Suspend, StopTimer, RemoveThread, KernelRecord
  <2> QED BY <1>0, <2>1, <2>2, MovesLists DEF PolicyStep, GoesToFirst
<1>9. ASSUME NEW u \in Thread, NEW p \in Prio, ChangeThreadPriority(t, u, p)
      PROVE  PolicyStep
  <2>1. k' = ChangePriority(k, u, p)
    BY <1>9 DEF ChangeThreadPriority
  <2>2. k'.cur = k.cur
    BY <1>0, <2>1 DEF ChangePriority, InsertThread, Renumber, RemoveThread, KernelRecord
  <2> QED BY <1>0, <2>1, <2>2, PriorityMovesOne DEF PolicyStep, GoesToFirst
<1> QED BY <1>2, <1>3, <1>4, <1>5, <1>6, <1>7, <1>8, <1>9 DEF Application

LEMMA PolicyNext ==
  ASSUME IInv, [Next]_vars PROVE PolicyStep
<1>1. CASE Start \/ Interrupt
  BY <1>1, InterruptPolicy
<1>2. CASE Reap \/ FreeThread
  BY <1>2, IdlePolicy
<1>3. ASSUME NEW t \in Thread, InKernel(t) PROVE PolicyStep
  BY <1>3, InterruptPolicy, KernelPolicy DEF InKernel
<1>4. ASSUME NEW t \in Thread, Application(t) PROVE PolicyStep
  BY <1>4, ApplicationPolicy
<1>5. CASE UNCHANGED vars
  BY <1>5 DEF vars, PolicyStep, GoesToFirst, MovesOne, SameQueues
<1> QED BY <1>1, <1>2, <1>3, <1>4, <1>5 DEF Next

(* The scheduler implements preemptive scheduling by fixed priority:       *)
(* whatever interrupts come between two sections of a call, at most one    *)
(* thread moves in a step, to the end of a list, the others keep their     *)
(* order, and the processor goes to nobody but the first of the most       *)
(* urgent threads, and not while the scheduler is locked.                  *)
THEOREM SchedulesByPriority == CalmSpec => ImplementsFixedPriority
<1> DEFINE Q == [p \in Prio |-> k.list[p]]
<1>1. Init => Policy!Init
  <2> SUFFICES ASSUME Init PROVE Policy!Init
    OBVIOUS
  <2>1. k \in KernelRecord /\ Consistent(k) /\ k.cur = NoThread /\ k.lock = 0
    BY InitStep, PolicyFacts
  <2>2. /\ Q \in [Prio -> Seq(Thread)]
        /\ \A p \in Prio : Q[p] = k.list[p] /\ p \in Queue
    BY <2>1 DEF KernelRecord, QueueLists, Queue
  <2>3. ASSUME NEW p \in Prio, NEW r \in Prio,
               NEW i \in DOMAIN k.list[p], NEW j \in DOMAIN k.list[r],
               k.list[p][i] = k.list[r][j]
        PROVE  p = r /\ i = j
    <3>1. p = r
      <4>1. k.list[p][i] \in Elements(k.list[p]) /\ k.list[r][j] \in Elements(k.list[r])
        BY DEF Elements
      <4>2. p # r => Elements(k.list[p]) \cap Elements(k.list[r]) = {}
        BY <2>1, <2>2 DEF Consistent, LinkedOnce
      <4> QED BY <2>3, <4>1, <4>2
    <3> QED BY <2>1, <2>2, <2>3, <3>1 DEF Consistent, LinkedOnce
  <2> QED BY <2>1, <2>2, <2>3 DEF Policy!Init
<1>2. IInv' => KernelSound'
  <2>1. IInv => KernelSound
    BY PolicyFacts DEF KernelSound
  <2> QED BY <2>1, PTL
<1>3. IInv /\ IInv' /\ [CalmNext]_vars => [Policy!Next]_Policy!vars
  <2> SUFFICES ASSUME IInv, IInv', [Next]_vars PROVE [Policy!Next]_Policy!vars
    BY CalmIsNext
  <2>1. MovesOne(k.list, k'.list) /\ GoesToFirst
    BY PolicyNext DEF PolicyStep
  <2>2. /\ k \in KernelRecord /\ Consistent(k)
        /\ k' \in KernelRecord /\ Consistent(k)' /\ k'.group # {}
    BY <1>2, PolicyFacts DEF KernelSound
  <2>3. Policy!Change
    BY <2>1, <2>2, MovesOneChange
  <2>4. CASE k'.cur = k.cur
    BY <2>3, <2>4 DEF Policy!Next
  <2>5. CASE k'.cur # k.cur
    <3>1. k'.lock = k.lock /\ k.lock = 0 /\ RunsFirst(k)'
      BY <2>1, <2>5 DEF GoesToFirst, Dispatched
    <3>2. Policy!Dispatch
      BY <2>2, <3>1, RunsFirstDispatch
    <3> QED BY <2>3, <3>1, <3>2 DEF Policy!Next
  <2> QED BY <2>4, <2>5
<1> QED BY <1>1, <1>3, SchedulerInvariant, PTL DEF CalmSpec, ImplementsFixedPriority, Policy!Spec

-----------------------------------------------------------------------------
(* Threads that wait for IPC objects, for any instance: what the functions *)
(* of modules Kernel and Ipc do to the wait lists, and what any step of    *)
(* the scheduler does to threads that wait.                                *)

(* The functions of module Kernel.                                         *)

(* A wait list is no ready list and not rt_thread_defunct.                 *)
LEMMA WaitQueue ==
  ASSUME NEW w \in WaitList
  PROVE  w \in Queue /\ w \notin Prio /\ w # Defunct
BY KernelAssumption DEF Queue

(* What the kernel's functions take out of the wait lists                  *)
TakesFrom(kd, r, t) == \A w \in WaitList : r.list[w] = Without(kd.list[w], t)
SameWaits(kd, r) == \A w \in WaitList : r.list[w] = kd.list[w]

(* Functions that link a thread elsewhere take it out of the wait list it  *)
(* is in, and leave thread->error alone.                                   *)
LEMMA MakeReadyTakes ==
  ASSUME NEW kd \in KernelRecord, NEW t \in Thread, NEW r, r = MakeReady(kd, t)
  PROVE  TakesFrom(kd, r, t) /\ r.error = kd.error
<1> DEFINE mid == Unlink(kd.list, t)
<1>1. r.list = LinkLast(mid, kd.prio[t], t) /\ r.error = kd.error
  BY DEF MakeReady, InsertThread, KernelRecord
<1>2. kd.list \in QueueLists /\ kd.prio[t] \in Prio
  BY DEF KernelRecord
<1>3. ASSUME NEW w \in WaitList PROVE r.list[w] = Without(kd.list[w], t)
  <2>1. w \in Queue /\ w # kd.prio[t] /\ mid[w] = Without(kd.list[w], t)
    BY <1>2, WaitQueue, UnlinkOne
  <2>2. DOMAIN mid = Queue
    BY <1>2 DEF QueueLists, Unlink
  <2> HIDE DEF mid
  <2> QED BY <1>1, <2>1, <2>2 DEF LinkLast
<1> QED BY <1>1, <1>3 DEF TakesFrom

(* rt_schedule_remove_thread *)
LEMMA RemoveTakes ==
  ASSUME NEW kd \in KernelRecord, NEW t \in Thread, NEW r, r = RemoveThread(kd, t)
  PROVE  TakesFrom(kd, r, t) /\ r.error = kd.error
<1>1. r.list = Unlink(kd.list, t) /\ r.error = kd.error /\ kd.list \in QueueLists
  BY DEF RemoveThread, KernelRecord
<1> QED BY <1>1, WaitQueue, UnlinkOne DEF TakesFrom

(* rt_thread_suspend *)
LEMMA SuspendTakes ==
  ASSUME NEW kd \in KernelRecord, NEW t \in Thread, NEW r, r = Suspend(kd, t)
  PROVE  TakesFrom(kd, r, t) /\ r.error = kd.error
<1> DEFINE s == [kd EXCEPT !.stat[t] = "suspend"]
           m == RemoveThread(s, t)
<1>1. s \in KernelRecord /\ s.list = kd.list /\ s.error = kd.error
  BY DEF KernelRecord, Stat
<1>2. r.list = m.list /\ r.error = m.error
  <2>1. m.list = Unlink(kd.list, t) /\ m.error = kd.error
    BY DEF RemoveThread, KernelRecord
  <2>2. r = StopTimer(m, t)
    BY DEF Suspend
  <2>3. r.list = m.list /\ r.error = m.error
    BY <2>2 DEF StopTimer, RemoveThread, KernelRecord
  <2> QED BY <2>3
<1> HIDE DEF s
<1>3. TakesFrom(s, m, t) /\ m.error = s.error
  BY <1>1, RemoveTakes
<1> QED BY <1>1, <1>2, <1>3 DEF TakesFrom

(* rt_thread_yield up to rt_schedule *)
LEMMA RotateTakes ==
  ASSUME NEW kd \in KernelRecord, NEW t \in Thread, NEW r, r = Rotate(kd, t)
  PROVE  TakesFrom(kd, r, t) /\ r.error = kd.error
<1> DEFINE mid == Unlink(kd.list, t)
<1>1. r.list = LinkLast(mid, kd.prio[t], t) /\ r.error = kd.error
  BY DEF Rotate, KernelRecord
<1>2. kd.list \in QueueLists /\ kd.prio[t] \in Prio
  BY DEF KernelRecord
<1>3. ASSUME NEW w \in WaitList PROVE r.list[w] = Without(kd.list[w], t)
  <2>1. w \in Queue /\ w # kd.prio[t] /\ mid[w] = Without(kd.list[w], t)
    BY <1>2, WaitQueue, UnlinkOne
  <2>2. DOMAIN mid = Queue
    BY <1>2 DEF QueueLists, Unlink
  <2> HIDE DEF mid
  <2> QED BY <1>1, <2>1, <2>2 DEF LinkLast
<1> QED BY <1>1, <1>3 DEF TakesFrom

(* rt_schedule *)
LEMMA ScheduleTakes ==
  ASSUME NEW kd \in KernelRecord, NEW r, r = Schedule(kd)
  PROVE  SameWaits(kd, r) /\ r.error = kd.error /\ r.list = kd.list
BY DEF Schedule, KernelRecord, SameWaits

(* A thread in a ready list is in no wait list.                            *)
LEMMA QueuedNotWaiting ==
  ASSUME NEW kd \in KernelRecord, Consistent(kd), NEW t \in Thread,
         t \in Elements(kd.list[kd.prio[t]])
  PROVE  \A w \in WaitList : t \notin Elements(kd.list[w])
<1>1. kd.prio[t] \in Queue /\ kd.prio[t] \in Prio
  BY DEF KernelRecord, Queue
<1> QED BY <1>1, WaitQueue DEF Consistent, LinkedOnce

(* rt_thread_timeout *)
LEMMA TimeoutTakes ==
  ASSUME NEW kd \in KernelRecord, NEW t \in Thread, NEW r, r = Timeout(kd, t)
  PROVE  /\ TakesFrom(kd, r, t)
         /\ r.error[t] = "ETIMEOUT"
         /\ \A u \in Thread \ {t} : r.error[u] = kd.error[u]
         /\ kd.stat[t] = "suspend" \/ r.asserted
<1> DEFINE m == MakeReady(kd, t)
           a == [m EXCEPT !.asserted = @ \/ kd.stat[t] # "suspend",
                          !.error[t] = "ETIMEOUT", !.timer[t] = FALSE]
<1>1. r = Schedule(a)
  BY DEF Timeout
<1>2. TakesFrom(kd, m, t) /\ m.error = kd.error
  BY MakeReadyTakes
<1>3. /\ DOMAIN m = DOMAIN kd
      /\ kd.error \in [Thread -> Error] /\ {"list", "error", "cur", "asserted"} \subseteq DOMAIN kd
  BY DEF MakeReady, InsertThread, KernelRecord
<1> HIDE DEF m
<1>4. /\ a.list = m.list /\ a.error = [m.error EXCEPT ![t] = "ETIMEOUT"]
      /\ kd.stat[t] = "suspend" \/ a.asserted
  BY <1>3
<1>5. {"list", "error", "cur", "asserted"} \subseteq DOMAIN a
  BY <1>3
<1> HIDE DEF a
<1>6. r.list = a.list /\ r.error = a.error /\ r.asserted = a.asserted
  BY <1>1, <1>5 DEF Schedule
<1> QED BY <1>2, <1>3, <1>4, <1>6 DEF TakesFrom

(* the time slice of rt_tick_increase *)
LEMMA TimeSliceTakes ==
  ASSUME NEW kd \in KernelRecord, Consistent(kd), kd.cur \in Thread,
         NEW r, r = TimeSlice(kd)
  PROVE  SameWaits(kd, r) /\ r.error = kd.error
<1> DEFINE t     == kd.cur
           fresh == [kd EXCEPT !.slice[t] = InitTick]
           turn  == Rotate(fresh, t)
<1>1. CASE kd.slice[t] > 1
  BY <1>1 DEF TimeSlice, KernelRecord, SameWaits
<1>2. CASE ~(kd.slice[t] > 1)
  <2>1. r = IF CanRotate(fresh, t) THEN Schedule(turn) ELSE fresh
    BY <1>2 DEF TimeSlice
  <2>2. /\ fresh \in KernelRecord /\ fresh.list = kd.list /\ fresh.error = kd.error
        /\ fresh.prio = kd.prio
    BY KernelAssumption, SMTT(60) DEF KernelRecord
  <2>3. CASE ~CanRotate(fresh, t)
    BY <2>1, <2>2, <2>3 DEF SameWaits
  <2>4. CASE CanRotate(fresh, t)
    <3>1. t \in Elements(kd.list[kd.prio[t]])
      BY <2>2, <2>4 DEF CanRotate
    <3> HIDE DEF fresh
    <3>2. TakesFrom(fresh, turn, t) /\ turn.error = fresh.error
      BY <2>2, RotateTakes
    <3>3. {"list", "error", "cur"} \subseteq DOMAIN turn
      BY <2>2 DEF Rotate, KernelRecord
    <3> HIDE DEF turn
    <3>4. r.list = turn.list /\ r.error = turn.error
      BY <2>1, <2>4, <3>3 DEF Schedule
    <3>5. \A w \in WaitList : t \notin Elements(kd.list[w])
      BY <3>1, QueuedNotWaiting
    <3> QED BY <2>2, <3>2, <3>4, <3>5, WithoutOther DEF TakesFrom, SameWaits
  <2> QED BY <2>3, <2>4
<1> QED BY <1>1, <1>2

(* rt_thread_control(RT_THREAD_CTRL_CHANGE_PRIORITY) *)
LEMMA ChangePriorityTakes ==
  ASSUME NEW kd \in KernelRecord, NEW t \in Thread, NEW p \in Prio,
         kd.stat[t] = "ready" => \A w \in WaitList : t \notin Elements(kd.list[w]),
         NEW r, r = ChangePriority(kd, t, p)
  PROVE  SameWaits(kd, r) /\ r.error = kd.error
<1>1. CASE kd.stat[t] # "ready"
  BY <1>1 DEF ChangePriority, Renumber, KernelRecord, SameWaits
<1>2. CASE kd.stat[t] = "ready"
  <2> DEFINE m == RemoveThread(kd, t)
             n == Renumber(m, t, p)
  <2>1. r = InsertThread(n, t)
    BY <1>2 DEF ChangePriority
  <2>2. TakesFrom(kd, m, t) /\ m.error = kd.error
    BY RemoveTakes
  <2>3. n.list = m.list /\ n.error = m.error /\ n.prio[t] = p /\ m.list = Unlink(kd.list, t)
    BY DEF Renumber, RemoveThread, KernelRecord
  <2>4. r.list = LinkLast(n.list, p, t) /\ r.error = n.error
    BY <2>1, <2>3 DEF InsertThread, Renumber, RemoveThread, KernelRecord
  <2>5. DOMAIN n.list = Queue
    BY <2>3 DEF Unlink, KernelRecord, QueueLists
  <2> HIDE DEF m, n
  <2>6. ASSUME NEW w \in WaitList PROVE r.list[w] = n.list[w]
    BY <2>4, <2>5, WaitQueue DEF LinkLast
  <2> QED BY <1>2, <2>2, <2>3, <2>4, <2>6, WithoutOther DEF TakesFrom, SameWaits
<1> QED BY <1>1, <1>2

-----------------------------------------------------------------------------
(* Threads in a call of an IPC function.                                   *)

IpcLabels  == {"wait", "waited", "drain1", "drain2"}
InCall(t)  == pc[t] \in IpcLabels
Waiting(t) == pc[t] \in {"wait", "waited"}

(* A thread in a call is alive and no other call works on it.              *)
CallersAlive ==
  \A t \in Thread : InCall(t) => k.stat[t] \in {"ready", "suspend"} /\ ~Targeted(t)

(* A thread that waits does so with the scheduler unlocked.                *)
WaitsUnlocked == \A t \in Thread : Waiting(t) /\ k.cur = t => k.lock = 0

(* t is in no wait list.                                                   *)
Unlisted(t) == \A w \in WaitList : t \notin Elements(k.list[w])

(* The thread that the processor executes is ready, but for the rt_schedule *)
(* that is still to come, or it is about to link itself in a wait list.    *)
RunnerReady ==
  \A t \in Thread :
    k.cur = t /\ k.lock = 0 /\ pc[t] \notin Unscheduled =>
      k.stat[t] = "ready" \/ (Waiting(t) /\ Unlisted(t))

(* The wait lists hold suspended threads in calls that wait.               *)
ListedWait ==
  \A w \in WaitList : \A t \in Elements(k.list[w]) : Waiting(t) /\ k.stat[t] = "suspend"

IpcInv == IInv /\ CallersAlive /\ WaitsUnlocked /\ RunnerReady /\ ListedWait

(* What a step does to the labels of calls,                                *)
LabelsKept ==
  \A t \in Thread :
    \/ pc'[t] = pc[t]
    \/ pc[t] = "wait" /\ pc'[t] = "waited"
    \/ pc[t] \notin IpcLabels /\ pc'[t] \notin IpcLabels

(* to the wait lists and the threads in them, when the timer of u expires  *)
(* (or of none, NoThread),                                                 *)
WaitsKept(u) ==
  /\ TakesFrom(k, k', u)
  /\ \A t \in Thread : InCall(t) =>
       /\ ~Targeted(t)'
       /\ IF t = u THEN /\ k.timer[t] /\ (k.stat[t] = "suspend" \/ k'.asserted)
                        /\ k'.stat[t] = "ready" /\ k'.error[t] = "ETIMEOUT"
                   ELSE /\ k'.stat[t] = k.stat[t] /\ k'.error[t] = k.error[t]
                        /\ k'.timer[t] = k.timer[t]
       /\ "priority" \notin Ops => k'.prio[t] = k.prio[t]

(* and to the processor.                                                   *)
ProcessorKept ==
  \/ k'.lock = k.lock /\ Dispatched(k, k')
  \/ /\ k'.lock = k.lock /\ k'.cur = k.cur
     /\ k.cur \in Thread => /\ k'.stat[k.cur] = k.stat[k.cur]
                            /\ pc[k.cur] \in Unscheduled => pc'[k.cur] \in Unscheduled
  \/ /\ k'.cur = k.cur /\ k.cur \in Thread /\ ~Waiting(k.cur)
     /\ pc'[k.cur] \in Unscheduled \/ k'.lock # 0

(* The calls that change another thread, whose argument is never a thread  *)
(* that waits, by discipline of applications                               *)
Meddling == {"suspend", "resume", "delete", "isr_resume"}

(* Without(s, t) of a wait list s                                          *)
LEMMA WaitTakes ==
  ASSUME NEW kd \in KernelRecord, Consistent(kd), NEW w \in WaitList, NEW t
  PROVE  Elements(Without(kd.list[w], t)) = Elements(kd.list[w]) \ {t}
<1>1. kd.list[w] \in Seq(Thread) /\ NoRepeat(kd.list[w])
  BY WaitQueue DEF KernelRecord, QueueLists, Consistent, LinkedOnce, NoRepeat
<1> QED BY <1>1, WithoutFacts

(* Such a step preserves the invariant.                                    *)
LEMMA IpcMoveStep ==
  ASSUME IpcInv, IInv', NEW u, LabelsKept, WaitsKept(u), ProcessorKept
  PROVE  IpcInv'
<1>1. \A t \in Thread : (InCall(t)' => InCall(t)) /\ (Waiting(t)' <=> Waiting(t))
  BY DEF LabelsKept, InCall, Waiting, IpcLabels
<1>2. CallersAlive'
  BY <1>1 DEF WaitsKept, IpcInv, CallersAlive
<1>3. WaitsUnlocked'
  BY <1>1 DEF IpcInv, WaitsUnlocked, ProcessorKept, Dispatched
<1>4. RunnerReady'
  <2> SUFFICES ASSUME NEW t \in Thread, k'.cur = t, k'.lock = 0, pc'[t] \notin Unscheduled
               PROVE  k'.stat[t] = "ready" \/ (Waiting(t)' /\ Unlisted(t)')
    BY DEF RunnerReady
  <2>1. \A w \in WaitList : Elements(k'.list[w]) \subseteq Elements(k.list[w])
    <3>1. k \in KernelRecord /\ Consistent(k)
      BY IdleFacts DEF IpcInv
    <3>2. ASSUME NEW w \in WaitList PROVE Elements(k'.list[w]) \subseteq Elements(k.list[w])
      <4>1. k'.list[w] = Without(k.list[w], u)
        BY DEF WaitsKept, TakesFrom
      <4>2. Elements(Without(k.list[w], u)) = Elements(k.list[w]) \ {u}
        BY <3>1, WaitTakes, ZenonT(60)
      <4> QED BY <4>1, <4>2
    <3> QED BY <3>2
  <2>2. Unlisted(t) => Unlisted(t)'
    BY <2>1 DEF Unlisted
  <2>3. CASE k'.lock = k.lock /\ Dispatched(k, k')
    BY <2>3 DEF Dispatched
  <2>4. CASE k'.lock = k.lock /\ k'.cur = k.cur /\ k'.stat[t] = k.stat[t]
               /\ (pc[t] \in Unscheduled => pc'[t] \in Unscheduled)
    BY <1>1, <2>2, <2>4 DEF IpcInv, RunnerReady
  <2> QED BY <2>3, <2>4 DEF ProcessorKept
<1>5. ListedWait'
  <2> SUFFICES ASSUME NEW w \in WaitList, NEW t \in Elements(k'.list[w])
               PROVE  Waiting(t)' /\ k'.stat[t] = "suspend"
    BY DEF ListedWait
  <2>1. k \in KernelRecord /\ Consistent(k)
    BY IdleFacts DEF IpcInv
  <2>2. t \in Elements(k.list[w]) /\ t # u
    <3>1. k'.list[w] = Without(k.list[w], u)
      BY DEF WaitsKept, TakesFrom
    <3>2. Elements(Without(k.list[w], u)) = Elements(k.list[w]) \ {u}
      BY <2>1, WaitTakes, ZenonT(60)
    <3> QED BY <3>1, <3>2
  <2>3. t \in Thread
    <3>1. k.list[w] \in Seq(Thread)
      BY <2>1, WaitQueue DEF KernelRecord, QueueLists
    <3> QED BY <2>2, <3>1, EmptyElements
  <2>4. Waiting(t) /\ k.stat[t] = "suspend"
    BY <2>2 DEF IpcInv, ListedWait
  <2>5. InCall(t)
    BY <2>4 DEF InCall, Waiting, IpcLabels
  <2>6. k'.stat[t] = k.stat[t]
    BY <2>2, <2>3, <2>5 DEF WaitsKept
  <2> QED BY <1>1, <2>3, <2>4, <2>6
<1> QED BY <1>2, <1>3, <1>4, <1>5 DEF IpcInv

-----------------------------------------------------------------------------
(* The steps of the scheduler.                                             *)

Moves ==
  LabelsKept /\ ProcessorKept /\ \E u \in Thread \cup {NoThread} : WaitsKept(u)

(* Facts of a state                                                        *)
LEMMA IpcFacts ==
  ASSUME IpcInv
  PROVE  /\ IInv /\ k \in KernelRecord /\ Consistent(k) /\ k.group # {}
         /\ Idle \in Thread /\ k.stat[Idle] = "ready" /\ NoThread \notin Thread
         /\ pc \in [Thread -> PC] /\ arg \in [Thread -> Thread]
         /\ \A w \in WaitList : Elements(k.list[w]) \subseteq Thread
         /\ \A t \in Thread : Targeted(t) => ~InCall(t)
         /\ \A t \in Thread : k.stat[t] \notin {"ready", "suspend"} => ~InCall(t)
         /\ \A w \in WaitList : \A t \in Elements(k.list[w]) : InCall(t)
<1>1. /\ IInv /\ k \in KernelRecord /\ Consistent(k) /\ k.group # {}
      /\ Idle \in Thread /\ k.stat[Idle] = "ready" /\ NoThread \notin Thread
      /\ pc \in [Thread -> PC] /\ arg \in [Thread -> Thread]
  BY IdleFacts, KernelAssumption DEF IpcInv, IInv, TypeOK
<1>2. ASSUME NEW w \in WaitList PROVE Elements(k.list[w]) \subseteq Thread
  <2>1. k.list[w] \in Seq(Thread)
    BY <1>1, WaitQueue DEF KernelRecord, QueueLists
  <2> QED BY <2>1, EmptyElements
<1>3. /\ \A t \in Thread : Targeted(t) => ~InCall(t)
      /\ \A t \in Thread : k.stat[t] \notin {"ready", "suspend"} => ~InCall(t)
  BY DEF IpcInv, CallersAlive
<1>4. \A w \in WaitList : \A t \in Elements(k.list[w]) : InCall(t)
  BY DEF IpcInv, ListedWait, InCall, Waiting, IpcLabels
<1> QED BY <1>1, <1>2, <1>3, <1>4

(* A step that leaves the threads in calls alone                           *)
LEMMA QuietMove ==
  ASSUME IpcInv, SameWaits(k, k'),
         \A t \in Thread : InCall(t) =>
           /\ ~Targeted(t)'
           /\ k'.stat[t] = k.stat[t] /\ k'.error[t] = k.error[t] /\ k'.timer[t] = k.timer[t]
           /\ "priority" \notin Ops => k'.prio[t] = k.prio[t]
  PROVE  \E u \in Thread \cup {NoThread} : WaitsKept(u)
<1>1. \A w \in WaitList : NoThread \notin Elements(k.list[w])
  BY IpcFacts
<1>2. TakesFrom(k, k', NoThread)
  BY <1>1, WithoutOther DEF SameWaits, TakesFrom
<1>3. \A t \in Thread : t # NoThread
  BY IpcFacts
<1>4. WaitsKept(NoThread)
  BY <1>2, <1>3 DEF WaitsKept
<1> QED BY <1>4

(* A thread outside IPC calls goes from one label to another, or to the end *)
(* of the rt_schedule of a call that waits.                                *)
LEMMA GotoLabels ==
  ASSUME IpcInv, NEW t \in Thread, NEW label, Goto(t, label),
         \/ pc[t] \notin IpcLabels /\ label \notin IpcLabels
         \/ pc[t] = "wait" /\ label = "waited"
  PROVE  LabelsKept
BY IpcFacts DEF LabelsKept, Goto

(* No call opens a window.                                                 *)
LEMMA SameTargets ==
  ASSUME IpcInv, arg' = arg,
         \A v \in Thread : Window(v)' => Window(v)
  PROVE  \A t \in Thread : InCall(t) => ~Targeted(t)'
<1>1. \A t \in Thread : Targeted(t)' => Targeted(t)
  BY DEF Targeted, Target, Window
<1> QED BY <1>1, IpcFacts

(* The caller does not change its label, or goes to one without a window.  *)
LEMMA GotoTargets ==
  ASSUME IpcInv, NEW t \in Thread, NEW label, Goto(t, label), arg' = arg,
         label \notin Resuming \cup Deleting
  PROVE  \A u \in Thread : InCall(u) => ~Targeted(u)'
<1>1. pc \in [Thread -> PC]
  BY IpcFacts
<1>2. \A v \in Thread : Window(v)' => Window(v)
  BY <1>1 DEF Goto, Window
<1> QED BY <1>2, SameTargets

(* rt_system_scheduler_start *)
LEMMA StartMoves ==
  ASSUME IpcInv, Start PROVE Moves
<1>1. k' = Schedule(k) /\ pc' = pc /\ arg' = arg
  BY DEF Start
<1>2. /\ k'.stat = k.stat /\ k'.prio = k.prio /\ k'.lock = k.lock
      /\ k'.error = k.error /\ k'.timer = k.timer /\ SameWaits(k, k') /\ Dispatched(k, k')
  BY <1>1, IpcFacts, ScheduleFacts, ScheduleTakes DEF Dispatched
<1>3. \A t \in Thread : InCall(t) => ~Targeted(t)'
  BY <1>1, SameTargets DEF Window
<1>4. LabelsKept /\ ProcessorKept
  BY <1>1, <1>2 DEF LabelsKept, ProcessorKept
<1> QED BY <1>2, <1>3, <1>4, QuietMove DEF Moves

(* The rt_schedule at the end of a call                                    *)
LEMMA RescheduleMoves ==
  ASSUME IpcInv, NEW t \in Thread, Reschedule(t) PROVE Moves
<1>1. /\ k' = Schedule(k) /\ arg' = arg
      /\ pc[t] \in {"sched", "block", "wait", "exit"} /\ Goto(t, AfterSchedule[pc[t]])
  BY DEF Reschedule, AfterSchedule
<1>2. /\ k'.stat = k.stat /\ k'.prio = k.prio /\ k'.lock = k.lock
      /\ k'.error = k.error /\ k'.timer = k.timer /\ SameWaits(k, k') /\ Dispatched(k, k')
  BY <1>1, IpcFacts, ScheduleFacts, ScheduleTakes DEF Dispatched
<1>3. /\ AfterSchedule[pc[t]] \in {"app", "woken", "waited", "gone"}
      /\ AfterSchedule[pc[t]] = "waited" <=> pc[t] = "wait"
  BY <1>1 DEF AfterSchedule
<1>4. \A u \in Thread : InCall(u) => ~Targeted(u)'
  BY <1>1, <1>3, GotoTargets DEF Resuming, Deleting
<1>5. LabelsKept
  BY <1>1, <1>3, GotoLabels DEF IpcLabels
<1>6. ProcessorKept
  BY <1>2 DEF ProcessorKept
<1> QED BY <1>2, <1>4, <1>5, <1>6, QuietMove DEF Moves

(* The clock interrupt *)
LEMMA ClockMoves ==
  ASSUME IpcInv, ClockEnter \/ ClockLeave PROVE Moves
<1>1. pc' = pc /\ arg' = arg
  BY DEF ClockEnter, ClockLeave
<1>2. \A t \in Thread : InCall(t) => ~Targeted(t)'
  BY <1>1, SameTargets DEF Window
<1>3. CASE ClockLeave
  <2>1. k' = k
    BY <1>3 DEF ClockLeave
  <2> QED BY <1>1, <1>2, <2>1, QuietMove DEF Moves, LabelsKept, ProcessorKept, SameWaits
<1>4. CASE ClockEnter
  <2>1. k' = TimeSlice(k) /\ k.cur \in Thread
    BY <1>4, IpcFacts DEF ClockEnter, KernelRecord
  <2>2. /\ k'.stat = k.stat /\ k'.prio = k.prio /\ k'.lock = k.lock /\ k'.timer = k.timer
        /\ k'.cur = k.cur \/ Dispatched(k, k')
    BY <2>1, IpcFacts, TimeSliceFacts
  <2>3. SameWaits(k, k') /\ k'.error = k.error
    BY <2>1, IpcFacts, TimeSliceTakes
  <2> QED BY <1>1, <1>2, <2>2, <2>3, QuietMove DEF Moves, LabelsKept, ProcessorKept
<1> QED BY <1>3, <1>4

(* rt_thread_timeout *)
LEMMA ExpireMoves ==
  ASSUME IpcInv, NEW u \in Thread, Expire(u) PROVE Moves
<1>1. k' = Timeout(k, u) /\ pc' = pc /\ arg' = arg /\ k.timer[u]
  BY DEF Expire
<1>2. k.stat[u] \in {"ready", "suspend"}
  BY <1>1, IpcFacts DEF IInv, DeadUnlinked
<1>3. /\ k'.stat = Update(k.stat, u, "ready") /\ k'.prio = k.prio /\ k'.lock = k.lock
      /\ k'.timer = Disarm(k.timer, u) /\ Dispatched(k, k')
  BY <1>1, <1>2, IpcFacts, TimeoutFacts
<1>4. /\ TakesFrom(k, k', u) /\ k'.error[u] = "ETIMEOUT"
      /\ \A t \in Thread \ {u} : k'.error[t] = k.error[t]
      /\ k.stat[u] = "suspend" \/ k'.asserted
  BY <1>1, IpcFacts, TimeoutTakes
<1>5. /\ k'.stat[u] = "ready" /\ \A t \in Thread \ {u} : k'.stat[t] = k.stat[t]
      /\ \A t \in Thread \ {u} : k'.timer[t] = k.timer[t]
  BY <1>3, IpcFacts DEF Update, Disarm, KernelRecord
<1>6. \A t \in Thread : InCall(t) => ~Targeted(t)'
  BY <1>1, SameTargets DEF Window
<1>7. WaitsKept(u)
  BY <1>1, <1>3, <1>4, <1>5, <1>6 DEF WaitsKept
<1> QED BY <1>1, <1>3, <1>7 DEF Moves, LabelsKept, ProcessorKept

(* Unlinking a thread that is in no IPC call changes no wait list.         *)
LEMMA TakesOutsider ==
  ASSUME IpcInv, NEW t \in Thread, ~InCall(t), NEW r, TakesFrom(k, r, t)
  PROVE  SameWaits(k, r)
<1>1. \A w \in WaitList : t \notin Elements(k.list[w])
  BY IpcFacts
<1> QED BY <1>1, WithoutOther DEF TakesFrom, SameWaits

(* The end of rt_thread_sleep *)
LEMMA SleepReturnMoves ==
  ASSUME IpcInv, NEW t \in Thread, SleepReturn(t) PROVE Moves
<1>1. /\ k' = [k EXCEPT !.error[t] = IF @ = "ETIMEOUT" THEN "EOK" ELSE @]
      /\ arg' = arg /\ pc[t] = "woken" /\ Goto(t, "app") /\ k.cur = t
  BY DEF SleepReturn, Running
<1>2. /\ k'.list = k.list /\ k'.stat = k.stat /\ k'.prio = k.prio /\ k'.lock = k.lock
      /\ k'.cur = k.cur /\ k'.timer = k.timer
      /\ \A v \in Thread \ {t} : k'.error[v] = k.error[v]
  BY <1>1, IpcFacts DEF KernelRecord
<1>3. \A v \in Thread : InCall(v) => ~Targeted(v)'
  BY <1>1, GotoTargets DEF Resuming, Deleting
<1>4. LabelsKept
  BY <1>1, GotoLabels DEF IpcLabels
<1>5. ProcessorKept
  BY <1>1, <1>2 DEF ProcessorKept, Unscheduled
<1>6. ~InCall(t) /\ SameWaits(k, k')
  BY <1>1, <1>2 DEF InCall, IpcLabels, SameWaits
<1> QED BY <1>2, <1>3, <1>4, <1>5, <1>6, QuietMove DEF Moves

(* A call in progress works on no thread in an IPC call, and not on its own *)
(* caller.                                                                 *)
LEMMA WindowOutsider ==
  ASSUME IpcInv, NEW t \in Thread, pc[t] \in Resuming \cup Deleting
  PROVE  arg[t] \in Thread /\ arg[t] # k.cur /\ ~InCall(arg[t])
<1>1. Targeted(arg[t]) /\ arg[t] \in Thread
  BY IpcFacts DEF Targeted, Target
<1>2. arg[t] # k.cur
  BY IpcFacts DEF IInv, WindowsOwn, Window
<1> QED BY <1>1, <1>2, IpcFacts

(* The sections of rt_thread_resume, rt_thread_delete and rt_thread_detach *)
LEMMA WindowMoves ==
  ASSUME IpcInv, NEW t \in Thread,
         ResumeUnlink(t) \/ ResumeInsert(t) \/ DeleteTimer(t) \/ DeleteClose(t)
  PROVE  Moves
<1> DEFINE u == arg[t]
<1>1. /\ k.cur = t /\ pc[t] \in Resuming \cup Deleting
      /\ arg' = arg \/ arg' = [arg EXCEPT ![t] = Idle]
  BY DEF ResumeUnlink, ResumeInsert, DeleteTimer, DeleteClose, Running, Resuming,
         Deleting, Done
<1>2. u \in Thread /\ u # k.cur /\ ~InCall(u)
  BY <1>1, WindowOutsider
<1>3. PICK label \in {"resume2", "sched", "delete2", "app"} :
        /\ Goto(t, label)
        /\ label \in {"resume2", "delete2"} => arg' = arg
  BY DEF ResumeUnlink, ResumeInsert, DeleteTimer, DeleteClose
<1>4. LabelsKept
  BY <1>1, <1>3, GotoLabels DEF IpcLabels, Resuming, Deleting
<1>5. \A v \in Thread : InCall(v) => ~Targeted(v)'
  <2>1. /\ pc \in [Thread -> PC] /\ arg \in [Thread -> Thread]
    BY IpcFacts
  <2>2. \A v \in Thread : Window(v)' => Window(v) /\ arg'[v] = arg[v]
    BY <1>1, <1>3, <2>1 DEF Window, Goto, Resuming, Deleting
  <2>3. \A v \in Thread : Targeted(v)' => Targeted(v)
    BY <2>2 DEF Targeted, Target, Window
  <2> QED BY <2>3, IpcFacts
<1>6. /\ k'.prio = k.prio /\ k'.lock = k.lock /\ k'.error = k.error /\ k'.cur = k.cur
      /\ \A v \in Thread \ {u} : k'.stat[v] = k.stat[v] /\ k'.timer[v] = k.timer[v]
  <2>1. k \in KernelRecord
    BY IpcFacts
  <2>2. CASE ResumeUnlink(t)
    BY <2>1, <2>2 DEF ResumeUnlink, KernelRecord
  <2>3. CASE ResumeInsert(t)
    BY <1>2, <2>1, <2>3 DEF ResumeInsert, InsertThread, KernelRecord
  <2>4. CASE DeleteTimer(t)
    BY <1>2, <2>1, <2>4 DEF DeleteTimer, StopTimer, KernelRecord
  <2>5. CASE DeleteClose(t)
    BY <1>2, <2>1, <2>5 DEF DeleteClose, Close, KernelRecord
  <2> QED BY <2>2, <2>3, <2>4, <2>5
<1>7. SameWaits(k, k')
  <2>1. CASE ResumeUnlink(t)
    <3>1. k'.list = Unlink(k.list, u)
      BY <2>1, IpcFacts DEF ResumeUnlink, KernelRecord
    <3>2. TakesFrom(k, k', u)
      BY <3>1, IpcFacts, WaitQueue, UnlinkOne DEF TakesFrom, KernelRecord
    <3> QED BY <1>2, <3>2, TakesOutsider
  <2>2. CASE ResumeInsert(t)
    <3>1. k'.list = LinkLast(k.list, k.prio[u], u) /\ k.prio[u] \in Prio
      BY <1>2, <2>2, IpcFacts DEF ResumeInsert, InsertThread, KernelRecord
    <3> QED BY <3>1, IpcFacts, WaitQueue DEF LinkLast, SameWaits, KernelRecord, QueueLists
  <2>3. CASE DeleteTimer(t)
    BY <2>3, IpcFacts DEF DeleteTimer, StopTimer, KernelRecord, SameWaits
  <2>4. CASE DeleteClose(t)
    <3>1. k'.list = k.list \/ k'.list = LinkFirst(k.list, Defunct, u)
      BY <2>4, IpcFacts DEF DeleteClose, Close, KernelRecord
    <3> QED BY <3>1, IpcFacts, WaitQueue DEF LinkFirst, SameWaits, KernelRecord, QueueLists
  <2> QED BY <2>1, <2>2, <2>3, <2>4
<1>8. ProcessorKept
  BY <1>1, <1>2, <1>6 DEF ProcessorKept, Unscheduled, Resuming, Deleting
<1>9. \A v \in Thread : InCall(v) => k'.stat[v] = k.stat[v] /\ k'.timer[v] = k.timer[v]
  BY <1>2, <1>6
<1> QED BY <1>4, <1>5, <1>6, <1>7, <1>8, <1>9, QuietMove DEF Moves

(* The sections of rt_thread_idle_excute *)
LEMMA IdleMoves ==
  ASSUME IpcInv, Reap \/ FreeThread PROVE Moves
<1>1. CASE FreeThread
  <2>1. /\ k' = [k EXCEPT !.stat[arg[Idle]] = "none"]
        /\ arg' = [arg EXCEPT ![Idle] = Idle] /\ Goto(Idle, "app")
        /\ k.cur = Idle /\ pc[Idle] = "free"
    BY <1>1 DEF FreeThread, Done, Running
  <2>2. /\ k.stat[arg[Idle]] = "close" /\ arg[Idle] # k.cur /\ arg[Idle] \in Thread
        /\ ~InCall(arg[Idle])
    BY <2>1, IpcFacts DEF IInv, Reaping
  <2>3. /\ k'.list = k.list /\ k'.prio = k.prio /\ k'.lock = k.lock /\ k'.error = k.error
        /\ k'.cur = k.cur /\ k'.timer = k.timer
        /\ \A v \in Thread \ {arg[Idle]} : k'.stat[v] = k.stat[v]
    BY <2>1, IpcFacts DEF KernelRecord
  <2>4. LabelsKept
    BY <2>1, IpcFacts, GotoLabels DEF IpcLabels
  <2>5. ProcessorKept
    BY <2>1, <2>2, <2>3 DEF ProcessorKept, Unscheduled
  <2>6. \A v \in Thread : Targeted(v)' => Targeted(v)
    BY <2>1, IpcFacts DEF Goto, Targeted, Target, Resuming, Deleting
  <2> QED BY <2>2, <2>3, <2>4, <2>5, <2>6, IpcFacts, QuietMove DEF Moves, SameWaits
<1>2. CASE Reap
  <2> DEFINE u == Head(k.list[Defunct])
             a == [k EXCEPT !.list = Unlink(@, u)]
             b == LeaveCritical(EnterCritical(a))
  <2>1. /\ k' = Schedule(b)
        /\ arg' = [arg EXCEPT ![Idle] = u] /\ Goto(Idle, "free")
        /\ k.cur = Idle /\ pc[Idle] = "app" /\ k.list[Defunct] # << >>
    BY <1>2 DEF Reap, Running
  <2> HIDE DEF u, a, b
  <2>2. u \in Thread /\ u \in Elements(k.list[Defunct])
    <3>1. k.list[Defunct] \in Seq(Thread)
      BY IpcFacts DEF KernelRecord, QueueLists, Queue
    <3> QED BY <2>1, <3>1, EmptyElements DEF u
  <2>3. k.stat[u] = "close"
    BY <2>2, IpcFacts DEF IInv, DeadUnlinked
  <2>4. ~InCall(u) /\ NotQueued(k, u)
    BY <2>2, <2>3, IpcFacts, DeadUntargeted
  <2>5. /\ a \in KernelRecord /\ Consistent(a)
        /\ a.stat = k.stat /\ a.prio = k.prio /\ a.group = k.group /\ SameRest(k, a)
    <3>1. a = Unlinked(k, u)
      BY DEF a, Unlinked
    <3> QED BY <2>2, <2>4, <3>1, IpcFacts, UnlinkIdleFacts
  <2>6. TakesFrom(k, a, u)
    <3>1. a.list = Unlink(k.list, u)
      BY IpcFacts DEF a, KernelRecord
    <3> QED BY <3>1, IpcFacts, WaitQueue, UnlinkOne DEF TakesFrom, KernelRecord
  <2>7. SameWaits(k, a)
    BY <2>2, <2>4, <2>6, TakesOutsider
  <2>8. /\ b \in KernelRecord /\ Consistent(b)
        /\ b.list = a.list /\ b.stat = a.stat /\ b.prio = a.prio /\ b.group = a.group
        /\ SameRest(a, b)
    BY <2>5, LockPair DEF b
  <2>9. /\ k'.stat = b.stat /\ k'.prio = b.prio /\ k'.lock = b.lock
        /\ k'.error = b.error /\ k'.list = b.list /\ k'.timer = b.timer /\ Dispatched(b, k')
    BY <2>1, <2>5, <2>8, IpcFacts, ScheduleFacts DEF Dispatched
  <2>10. /\ k'.stat = k.stat /\ k'.prio = k.prio /\ k'.lock = k.lock /\ k'.error = k.error
         /\ SameWaits(k, k') /\ k'.timer = k.timer /\ Dispatched(k, k')
    BY <2>5, <2>7, <2>8, <2>9 DEF SameRest, SameWaits, Dispatched
  <2>11. LabelsKept
    BY <2>1, IpcFacts, GotoLabels DEF IpcLabels
  <2>12. \A v \in Thread : Targeted(v)' => Targeted(v)
    BY <2>1, IpcFacts DEF Goto, Targeted, Target, Resuming, Deleting
  <2>13. ProcessorKept
    BY <2>10 DEF ProcessorKept
  <2> QED BY <2>10, <2>11, <2>12, <2>13, IpcFacts, QuietMove DEF Moves
<1> QED BY <1>1, <1>2

(* A call of an application, which changes no thread but the caller or one *)
(* that is in no IPC call.                                                 *)
LEMMA CallMoves ==
  ASSUME IpcInv, NEW t \in Thread, k.cur = t, pc[t] = "app",
         NEW u \in Thread, ~InCall(u), SameWaits(k, k'), k'.cur = k.cur,
         \A v \in Thread \ {u} :
            /\ k'.stat[v] = k.stat[v] /\ k'.error[v] = k.error[v] /\ k'.prio[v] = k.prio[v]
            /\ k'.timer[v] = k.timer[v],
         LabelsKept, \A v \in Thread : InCall(v) => ~Targeted(v)',
         \/ k'.lock = k.lock /\ k'.stat[t] = k.stat[t]
         \/ pc'[t] \in Unscheduled \/ k'.lock # 0
  PROVE  Moves
<1>1. ~Waiting(t) /\ pc[t] \notin Unscheduled
  BY DEF Waiting, Unscheduled
<1>2. ProcessorKept
  BY <1>1 DEF ProcessorKept
<1>3. \A v \in Thread : InCall(v) => v # u
  OBVIOUS
<1> QED BY <1>2, <1>3, QuietMove DEF Moves

(* The calls that a thread makes about itself                              *)
LEMMA OwnMoves ==
  ASSUME IpcInv, NEW t \in Thread,
         YieldThread(t) \/ SleepThread(t) \/ ExitThread(t) \/ Enter(t) \/ Leave(t)
           \/ FindThread(t)
  PROVE  Moves
<1>1. /\ k.cur = t /\ pc[t] = "app" /\ arg' = arg /\ k \in KernelRecord /\ Consistent(k)
      /\ pc \in [Thread -> PC]
  BY IpcFacts
  DEF YieldThread, SleepThread, ExitThread, Enter, Leave, FindThread, Call, Running
<1>2. PICK label \in {"app", "sched", "block", "exit"} : pc' = [pc EXCEPT ![t] = label]
  <2>1. pc' = pc => pc' = [pc EXCEPT ![t] = "app"]
    BY <1>1
  <2> QED BY <2>1 DEF YieldThread, SleepThread, ExitThread, Enter, Leave, FindThread, Goto
<1>3. ~InCall(t) /\ Goto(t, label) /\ pc'[t] = label
  BY <1>1, <1>2 DEF InCall, IpcLabels, Goto
<1>4. LabelsKept /\ \A v \in Thread : InCall(v) => ~Targeted(v)'
  BY <1>1, <1>3, GotoLabels, GotoTargets DEF IpcLabels, Resuming, Deleting
<1> DEFINE Others == \A v \in Thread \ {t} :
              /\ k'.stat[v] = k.stat[v] /\ k'.error[v] = k.error[v] /\ k'.prio[v] = k.prio[v]
              /\ k'.timer[v] = k.timer[v]
<1>5. SameWaits(k, k') /\ k'.cur = k.cur /\ Others
  <2>1. CASE YieldThread(t)
    <3>1. k' = Rotate(k, t) /\ CanRotate(k, t)
      BY <2>1 DEF YieldThread
    <3>2. /\ k'.stat = k.stat /\ k'.prio = k.prio /\ k'.cur = k.cur /\ k'.error = k.error
          /\ k'.timer = k.timer
      BY <1>1, <3>1, RotateFacts DEF SameRest
    <3> QED BY <1>1, <1>3, <3>1, <3>2, RotateTakes, TakesOutsider
  <2>2. CASE SleepThread(t)
    <3> DEFINE m == Suspend(k, t)
    <3>1. k' = StartTimer(m, t)
      BY <2>2 DEF SleepThread
    <3>2. k.stat[t] \in {"ready", "suspend"}
      BY <1>1, IpcFacts DEF IInv, Current
    <3>3. /\ m \in KernelRecord /\ m.stat = Update(k.stat, t, "suspend") /\ m.prio = k.prio
          /\ m.cur = k.cur /\ m.timer = Disarm(k.timer, t)
      BY <1>1, <3>2, SuspendFacts
    <3>4. TakesFrom(k, m, t) /\ m.error = k.error
      BY <1>1, SuspendTakes
    <3> HIDE DEF m
    <3>5. /\ k'.stat = m.stat /\ k'.prio = m.prio /\ k'.cur = m.cur /\ k'.error = m.error
          /\ k'.list = m.list
      BY <3>1, <3>3 DEF StartTimer, KernelRecord
    <3>6. SameWaits(k, m)
      BY <1>3, <3>4, TakesOutsider
    <3>7. \A v \in Thread \ {t} : m.stat[v] = k.stat[v] /\ m.timer[v] = k.timer[v]
      BY <1>1, <3>3 DEF Update, Disarm, KernelRecord
    <3>8. \A v \in Thread \ {t} : k'.timer[v] = m.timer[v]
      BY <3>1, <3>3 DEF StartTimer, KernelRecord
    <3> QED BY <3>3, <3>4, <3>5, <3>6, <3>7, <3>8 DEF SameWaits
  <2>3. CASE ExitThread(t)
    <3> DEFINE m == RemoveThread(k, t)
               n == StopTimer(m, t)
    <3>1. k' = [n EXCEPT !.stat[t] = "close"] \/ k' = Close(n, t)
      BY <2>3 DEF ExitThread
    <3>2. TakesFrom(k, m, t) /\ m.error = k.error
      BY <1>1, RemoveTakes
    <3>3. /\ m \in KernelRecord /\ m.stat = k.stat /\ m.prio = k.prio /\ m.cur = k.cur
          /\ m.timer = k.timer
      <4>1. k.list \in QueueLists
        BY <1>1 DEF KernelRecord
      <4>2. Unlink(k.list, t) \in QueueLists
        BY <1>1, <4>1, UnlinkFacts DEF Consistent, LinkedOnce, Once, NoRepeat
      <4> QED BY <1>1, <4>2 DEF RemoveThread, KernelRecord
    <3> HIDE DEF m
    <3>4. /\ n \in KernelRecord /\ n.list = m.list /\ n.stat = m.stat /\ n.prio = m.prio
          /\ n.cur = m.cur /\ n.error = m.error
          /\ \A v \in Thread \ {t} : n.timer[v] = m.timer[v]
      BY <3>3 DEF StopTimer, KernelRecord
    <3> HIDE DEF n
    <3>5. /\ k'.prio = n.prio /\ k'.cur = n.cur /\ k'.error = n.error
          /\ k'.timer = n.timer
          /\ \A v \in Thread \ {t} : k'.stat[v] = n.stat[v]
          /\ k'.list = n.list \/ k'.list = LinkFirst(n.list, Defunct, t)
      BY <3>1, <3>4 DEF Close, KernelRecord
    <3>6. SameWaits(n, k')
      BY <3>4, <3>5, WaitQueue DEF LinkFirst, SameWaits, KernelRecord, QueueLists
    <3>7. SameWaits(k, m)
      BY <1>3, <3>2, TakesOutsider
    <3> QED BY <3>2, <3>3, <3>4, <3>5, <3>6, <3>7 DEF SameWaits
  <2>4. CASE Enter(t) \/ Leave(t) \/ FindThread(t)
    <3>1. \E n : k' = [k EXCEPT !.lock = n]
      BY <1>1, <2>4 DEF Enter, Leave, FindThread, EnterCritical, LeaveCritical, KernelRecord
    <3> QED BY <1>1, <3>1 DEF KernelRecord, SameWaits
  <2> QED BY <2>1, <2>2, <2>3, <2>4
    DEF YieldThread, SleepThread, ExitThread, Enter, Leave, FindThread
<1>6. label \in Unscheduled \/ k'.lock # 0
  <2>1. CASE Enter(t)
    BY <1>1, <2>1 DEF Enter, EnterCritical, KernelRecord
  <2>2. CASE Leave(t) \/ FindThread(t)
    BY <1>1, <1>3, <2>2 DEF Leave, FindThread, Goto, Unscheduled
  <2>3. CASE YieldThread(t) \/ SleepThread(t) \/ ExitThread(t)
    BY <1>1, <1>3, <2>3 DEF YieldThread, SleepThread, ExitThread, Goto, Unscheduled
  <2> QED BY <2>1, <2>2, <2>3
<1> HIDE DEF Others
<1>7. \A v \in Thread \ {t} :
              /\ k'.stat[v] = k.stat[v] /\ k'.error[v] = k.error[v] /\ k'.prio[v] = k.prio[v]
              /\ k'.timer[v] = k.timer[v]
  BY <1>5 DEF Others
<1> QED BY <1>1, <1>3, <1>4, <1>5, <1>6, <1>7, CallMoves

(* The calls that set up and start another thread                          *)
LEMMA StartupMoves ==
  ASSUME IpcInv, NEW t \in Thread, NEW u \in Thread,
         CreateThread(t, u) \/ StartupThread(t, u)
  PROVE  Moves
<1>1. /\ k.cur = t /\ pc[t] = "app" /\ k \in KernelRecord /\ pc \in [Thread -> PC]
      /\ arg \in [Thread -> Thread]
  BY IpcFacts DEF CreateThread, StartupThread, Call, Running
<1>2. k.stat[t] \in {"ready", "suspend"}
  BY <1>1, IpcFacts DEF IInv, Current
<1>3. ~InCall(u) /\ u # t
  <2>1. k.stat[u] \in {"none", "init", "close"}
    BY DEF CreateThread, StartupThread
  <2> QED BY <1>2, <2>1, IpcFacts
<1>4. /\ k'.list = k.list /\ k'.cur = k.cur /\ k'.lock = k.lock
      /\ \A v \in Thread \ {u} :
            /\ k'.stat[v] = k.stat[v] /\ k'.error[v] = k.error[v] /\ k'.prio[v] = k.prio[v]
            /\ k'.timer[v] = k.timer[v]
  <2>1. CASE CreateThread(t, u)
    <3>1. k' = InitThread(k, u)
      BY <2>1 DEF CreateThread
    <3> QED BY <1>1, <3>1 DEF InitThread, KernelRecord
  <2>2. CASE StartupThread(t, u)
    <3>1. k' = PrepareStartup(k, u)
      BY <2>2 DEF StartupThread
    <3> QED BY <1>1, <3>1 DEF PrepareStartup, KernelRecord
  <2> QED BY <2>1, <2>2
<1>5. LabelsKept /\ \A v \in Thread : InCall(v) => ~Targeted(v)'
  <2>1. CASE CreateThread(t, u)
    <3>1. Goto(u, "app") /\ arg' = arg
      BY <2>1 DEF CreateThread
    <3> QED BY <1>3, <3>1, GotoLabels, GotoTargets DEF InCall, IpcLabels, Resuming, Deleting
  <2>2. CASE StartupThread(t, u)
    <3>1. Goto(t, "resume1") /\ arg' = [arg EXCEPT ![t] = u]
      BY <2>2 DEF StartupThread
    <3>2. LabelsKept
      BY <1>1, <3>1, GotoLabels DEF IpcLabels
    <3>3. \A v \in Thread : Targeted(v)' => Targeted(v) \/ v = u
      BY <1>1, <3>1 DEF Targeted, Target, Goto, Resuming, Deleting
    <3> QED BY <1>3, <3>2, <3>3, IpcFacts
  <2> QED BY <2>1, <2>2
<1>6. SameWaits(k, k') /\ k'.stat[t] = k.stat[t]
  BY <1>3, <1>4 DEF SameWaits
<1> QED BY <1>1, <1>3, <1>4, <1>5, <1>6, CallMoves

(* rt_thread_control(RT_THREAD_CTRL_CHANGE_PRIORITY) *)
LEMMA PriorityMoves ==
  ASSUME IpcInv, NEW t \in Thread, NEW u \in Thread, NEW p \in Prio,
         ChangeThreadPriority(t, u, p)
  PROVE  Moves
<1>1. /\ k.cur = t /\ pc[t] = "app" /\ k \in KernelRecord /\ Consistent(k)
      /\ k' = ChangePriority(k, u, p) /\ Goto(t, "sched") /\ arg' = arg
      /\ "priority" \in Ops /\ pc \in [Thread -> PC]
  BY IpcFacts DEF ChangeThreadPriority, Call, Running
<1>2. k.stat[u] = "ready" => \A w \in WaitList : u \notin Elements(k.list[w])
  BY DEF IpcInv, ListedWait
<1>3. SameWaits(k, k') /\ k'.error = k.error
  BY <1>1, <1>2, ChangePriorityTakes
<1>4. k'.stat = k.stat /\ k'.cur = k.cur /\ k'.lock = k.lock /\ k'.timer = k.timer
  BY <1>1, ChangePriorityFacts DEF SameRest
<1>5. LabelsKept /\ \A v \in Thread : InCall(v) => ~Targeted(v)'
  BY <1>1, GotoLabels, GotoTargets DEF IpcLabels, Resuming, Deleting
<1>6. ProcessorKept
  BY <1>1, <1>4 DEF ProcessorKept, Goto, Unscheduled
<1> QED BY <1>1, <1>3, <1>4, <1>5, <1>6, QuietMove DEF Moves

(* Any step of the scheduler leaves the threads in IPC calls alone, but for *)
(* one whose time is up.                                                   *)
LEMMA NextMoves ==
  ASSUME IpcInv, Ops \cap Meddling = {}, Next PROVE Moves
<1>1. CASE Start \/ Reap \/ FreeThread
  BY <1>1, StartMoves, IdleMoves
<1>2. CASE Interrupt
  BY <1>2, ClockMoves, ExpireMoves DEF Interrupt, DeviceResume, Meddling
<1>3. ASSUME NEW t \in Thread, InKernel(t) PROVE Moves
  BY <1>3, WindowMoves, RescheduleMoves, SleepReturnMoves DEF InKernel
<1>4. ASSUME NEW t \in Thread, Application(t) PROVE Moves
  <2>1. CASE \/ YieldThread(t) \/ SleepThread(t) \/ ExitThread(t) \/ Enter(t) \/ Leave(t)
             \/ FindThread(t)
    BY <2>1, OwnMoves
  <2>2. ASSUME NEW u \in Thread,
               \/ CreateThread(t, u) \/ StartupThread(t, u) \/ DeleteThread(t, u)
               \/ SuspendThread(t, u) \/ ResumeThread(t, u)
        PROVE  Moves
    BY <2>2, StartupMoves DEF DeleteThread, SuspendThread, ResumeThread, Call, Meddling
  <2>3. ASSUME NEW u \in Thread, NEW p \in Prio, ChangeThreadPriority(t, u, p) PROVE Moves
    BY <2>3, PriorityMoves
  <2> QED BY <1>4, <2>1, <2>2, <2>3 DEF Application
<1> QED BY <1>1, <1>2, <1>3, <1>4 DEF Next

(* Any step of the scheduler preserves the invariant.                      *)
LEMMA NextIpc ==
  ASSUME IpcInv, Ops \cap Meddling = {}, Next PROVE IpcInv' /\ Moves
<1>1. Moves
  BY NextMoves
<1>2. IInv'
  BY NextIsCalm, NextStep DEF IpcInv, Meddling
<1> QED BY <1>1, <1>2, IpcMoveStep DEF Moves

(* The initial state                                                       *)
LEMMA IpcStart ==
  ASSUME Init PROVE IpcInv
<1>1. /\ IInv /\ k.cur = NoThread /\ k \in KernelRecord /\ Consistent(k)
      /\ \A t \in Thread : k.stat[t] \in {"none", "init", "ready"}
  BY InitStep, IdleFacts
<1>2. \A t \in Thread : ~InCall(t) /\ ~Waiting(t)
  BY DEF Init, InCall, Waiting, IpcLabels
<1>3. \A t \in Thread : k.cur # t
  BY <1>1, KernelAssumption
<1>4. ASSUME NEW w \in WaitList PROVE Elements(k.list[w]) = {}
  <2> SUFFICES ASSUME NEW t \in Elements(k.list[w]) PROVE FALSE
    OBVIOUS
  <2>1. k.list[w] \in Seq(Thread) /\ w \in Queue
    BY <1>1, WaitQueue DEF KernelRecord, QueueLists
  <2>2. t \in Thread /\ ~Nowhere(k.list, t)
    BY <2>1, EmptyElements DEF Nowhere
  <2>3. k.stat[t] = "ready"
    BY <1>1, <2>2 DEF IInv, DeadUnlinked
  <2>4. t \in Elements(k.list[k.prio[t]])
    BY <1>1, <2>2, <2>3 DEF IInv, NoThreadLost, Init, Deleting
  <2> QED BY <1>1, <2>2, <2>4, QueuedNotWaiting
<1> QED BY <1>1, <1>2, <1>3, <1>4
  DEF IpcInv, CallersAlive, WaitsUnlocked, RunnerReady, Unlisted, ListedWait

-----------------------------------------------------------------------------
(* The functions of module Ipc.                                            *)

(* A sequence of threads by urgency                                        *)
SortedBy(prio, s) == \A i, j \in DOMAIN s : i < j => prio[s[i]] <= prio[s[j]]

(* The place of a thread in a wait list: after the ones that are as urgent, *)
(* before the first that is less urgent.                                   *)
LEMMA PlaceFacts ==
  ASSUME NEW kd \in KernelRecord, NEW s \in Seq(Thread), NEW p \in Prio,
         NEW at, at = Place(kd, s, p)
  PROVE  /\ at \in 1 .. Len(s) + 1
         /\ \A i \in DOMAIN s : i < at => kd.prio[s[i]] <= p
         /\ at \in DOMAIN s => p < kd.prio[s[at]]
<1>1. Len(s) \in Nat /\ DOMAIN s = 1 .. Len(s) /\ p \in Nat
  BY LenProperties, KernelAssumption DEF Prio
<1>2. \A i \in DOMAIN s : kd.prio[s[i]] \in Nat
  BY <1>1, ElementOfSeq DEF KernelRecord, Prio
<1> DEFINE S == {i \in DOMAIN s : p < kd.prio[s[i]]}
<1>3. CASE S = {}
  <2>1. at = Len(s) + 1
    BY <1>3 DEF Place
  <2> QED BY <1>1, <1>2, <1>3, <2>1
<1>4. CASE S # {}
  <2>1. S \subseteq Nat
    BY <1>1
  <2>2. PICK n \in S : \A i \in S : n <= i
    <3> HIDE DEF S
    <3> QED BY <1>4, <2>1, LeastElement
  <2> DEFINE First(i) == /\ p < kd.prio[s[i]]
                         /\ \A j \in 1 .. i - 1 : kd.prio[s[j]] <= p
  <2>3. n \in DOMAIN s /\ First(n)
    <3>1. n \in 1 .. Len(s) /\ p < kd.prio[s[n]]
      BY <1>1, <2>2
    <3>2. ASSUME NEW j \in 1 .. n - 1 PROVE kd.prio[s[j]] <= p
      <4>1. j \in DOMAIN s /\ ~ (n <= j)
        BY <1>1, <3>1
      <4>2. j \notin S
        BY <2>2, <4>1
      <4> QED BY <1>1, <1>2, <4>1, <4>2
    <3> QED BY <1>1, <3>1, <3>2
  <2>4. at = CHOOSE i \in DOMAIN s : First(i)
    BY <1>4 DEF Place
  <2>5. at \in DOMAIN s /\ First(at)
    BY <2>3, <2>4
  <2> QED BY <1>1, <2>5
<1> QED BY <1>3, <1>4

(* rt_ipc_list_suspend with RT_IPC_FLAG_PRIO keeps the list sorted.        *)
LEMMA InsertInOrderFacts ==
  ASSUME NEW kd \in KernelRecord, NEW s \in Seq(Thread), NEW t \in Thread,
         NoRepeat(s), t \notin Elements(s),
         NEW r, r = InsertInOrder(kd, s, t)
  PROVE  /\ r \in Seq(Thread) /\ NoRepeat(r) /\ Elements(r) = Elements(s) \cup {t}
         /\ SortedBy(kd.prio, s) => SortedBy(kd.prio, r)
<1> DEFINE p == kd.prio[t]
           at == Place(kd, s, p)
<1>1. p \in Prio /\ p \in Nat /\ Len(s) \in Nat /\ DOMAIN s = 1 .. Len(s)
  BY LenProperties, KernelAssumption DEF KernelRecord, Prio
<1>2. r = InsertAt(s, at, t)
  BY DEF InsertInOrder, InsertAt
<1>3. /\ at \in 1 .. Len(s) + 1
      /\ \A i \in DOMAIN s : i < at => kd.prio[s[i]] <= p
      /\ at \in DOMAIN s => p < kd.prio[s[at]]
  BY <1>1, PlaceFacts
<1> HIDE DEF at, p
<1>4. /\ r \in Seq(Thread) /\ r[at] = t /\ at \in DOMAIN r
      /\ \A i \in DOMAIN r : i < at => i \in DOMAIN s /\ r[i] = s[i]
      /\ \A i \in DOMAIN r : i > at => i - 1 \in DOMAIN s /\ r[i] = s[i - 1]
      /\ Elements(r) = Elements(s) \cup {t}
  BY <1>2, <1>3, InsertAtFacts
<1>5. DOMAIN r \subseteq Nat /\ at \in Nat
  BY <1>3, <1>4, LenProperties
<1>6. \A i \in DOMAIN r : i < at \/ i = at \/ i > at
  BY <1>5
<1> DEFINE from(i) == IF i < at THEN i ELSE i - 1
<1>7. \A i \in DOMAIN r : i # at => from(i) \in DOMAIN s /\ r[i] = s[from(i)]
  BY <1>4, <1>6
<1>8. \A i, j \in DOMAIN r : i # at /\ j # at /\ i < j => from(i) < from(j)
  BY <1>1, <1>5, <1>7
<1>9. \A i, j \in DOMAIN r : i # at /\ j # at /\ from(i) = from(j) => i = j
  BY <1>1, <1>5, <1>7
<1>10. NoRepeat(r)
  BY <1>4, <1>7, <1>9 DEF NoRepeat, Elements
<1>11. ASSUME SortedBy(kd.prio, s), NEW i \in DOMAIN r, NEW j \in DOMAIN r, i < j
       PROVE  kd.prio[r[i]] <= kd.prio[r[j]]
  <2>0. \A x \in DOMAIN s : kd.prio[s[x]] \in Nat
    BY ElementOfSeq, <1>1, KernelAssumption DEF KernelRecord, Prio
  <2>1. CASE i # at /\ j # at
    BY <1>7, <1>8, <1>11, <2>1 DEF SortedBy
  <2>2. CASE i = at
    <3>1. j > at /\ j \in Nat
      BY <1>5, <1>11, <2>2
    <3>2. j - 1 \in DOMAIN s /\ r[j] = s[j - 1] /\ at <= j - 1
      BY <1>4, <1>5, <3>1
    <3>3. at \in DOMAIN s
      BY <1>1, <1>3, <3>2
    <3>4. kd.prio[s[at]] <= kd.prio[s[j - 1]]
      <4>1. at = j - 1 \/ at < j - 1
        BY <1>5, <3>1, <3>2
      <4>2. kd.prio[s[at]] \in Nat
        BY <2>0, <3>3
      <4>3. at < j - 1 => kd.prio[s[at]] <= kd.prio[s[j - 1]]
        BY <1>11, <3>2, <3>3 DEF SortedBy
      <4> QED BY ONLY <4>1, <4>2, <4>3
    <3> QED BY <1>1, <1>3, <1>4, <2>0, <2>2, <3>2, <3>3, <3>4 DEF p
  <2>3. CASE j = at
    <3>1. i \in DOMAIN s /\ r[i] = s[i]
      BY <1>4, <1>11, <2>3
    <3> QED BY <1>3, <1>4, <1>11, <2>3, <3>1 DEF p
  <2> QED BY <2>1, <2>2, <2>3
<1>12. SortedBy(kd.prio, s) => SortedBy(kd.prio, r)
  BY <1>11 DEF SortedBy
<1> QED BY <1>4, <1>10, <1>12

(* Two kernels that differ only in wait lists and the states of threads    *)
SameData(kd, r) ==
  /\ r.prio = kd.prio /\ r.mask = kd.mask /\ r.cur = kd.cur /\ r.lock = kd.lock

(* A wait list s with a thread more, which was linked nowhere              *)
WithList(kd, w, s) == [kd EXCEPT !.list[w] = s]

LEMMA LinkWaitingFacts ==
  ASSUME NEW kd \in KernelRecord, Consistent(kd), NEW t \in Thread, Nowhere(kd.list, t),
         NEW w \in WaitList, NEW s \in Seq(Thread), NoRepeat(s),
         Elements(s) = Elements(kd.list[w]) \cup {t},
         NEW r, r = WithList(kd, w, s)
  PROVE  /\ r \in KernelRecord /\ Consistent(r)
         /\ r.stat = kd.stat /\ r.prio = kd.prio /\ r.mask = kd.mask /\ r.group = kd.group
         /\ SameRest(kd, r)
         /\ r.list[w] = s /\ \A q \in Queue \ {w} : r.list[q] = kd.list[q]
<1>1. w \in Queue /\ w \notin Prio /\ kd.list \in QueueLists
  BY WaitQueue DEF KernelRecord
<1>2. /\ r.list = [kd.list EXCEPT ![w] = s] /\ r.stat = kd.stat /\ r.prio = kd.prio
      /\ r.mask = kd.mask /\ r.group = kd.group /\ SameRest(kd, r)
  BY DEF KernelRecord, SameRest, WithList
<1>3. r.list \in QueueLists /\ r.list[w] = s /\ \A q \in Queue \ {w} : r.list[q] = kd.list[q]
  BY <1>1, <1>2 DEF QueueLists
<1>4. r \in KernelRecord
  BY <1>2, <1>3 DEF KernelRecord, WithList
<1>5. LinkedOnce(r)
  <2>1. \A q \in Queue : NoRepeat(r.list[q])
    BY <1>3 DEF Consistent, LinkedOnce, NoRepeat
  <2>2. /\ Elements(r.list[w]) = Elements(kd.list[w]) \cup {t}
        /\ \A q \in Queue \ {w} : Elements(r.list[q]) = Elements(kd.list[q])
    BY <1>3
  <2>3. \A p, q \in Queue : p # q => Elements(r.list[p]) \cap Elements(r.list[q]) = {}
    <3>1. \A p, q \in Queue :
            p # q => Elements(kd.list[p]) \cap Elements(kd.list[q]) = {}
      BY DEF Consistent, LinkedOnce
    <3>2. \A q \in Queue : t \notin Elements(kd.list[q])
      BY DEF Nowhere
    <3>3. \A q \in Queue \ {w} : Elements(r.list[w]) \cap Elements(r.list[q]) = {}
      BY <1>1, <2>2, <3>1, <3>2
    <3>4. \A p, q \in Queue \ {w} :
            p # q => Elements(r.list[p]) \cap Elements(r.list[q]) = {}
      BY <2>2, <3>1
    <3> QED BY <3>3, <3>4
  <2> QED BY <2>1, <2>3 DEF LinkedOnce, NoRepeat
<1>6. \A q \in Prio : r.list[q] = kd.list[q]
  BY <1>1, <1>3 DEF Queue
<1>7. QueuedReady(r) /\ BitmapExact(r) /\ MaskExact(r)
  BY <1>2, <1>6 DEF Consistent, QueuedReady, BitmapExact, MaskExact
<1> QED BY <1>2, <1>3, <1>4, <1>5, <1>7 DEF Consistent

(* The list of rt_ipc_list_suspend                                         *)
Enqueued(kd, s, t, f) == IF f = "FIFO" THEN Append(s, t) ELSE InsertInOrder(kd, s, t)

(* rt_ipc_list_suspend of a thread that is in no wait list                 *)
LEMMA IpcSuspendFacts ==
  ASSUME NEW kd \in KernelRecord, Consistent(kd), NEW w \in WaitList, NEW t \in Thread,
         kd.stat[t] \in {"ready", "suspend"},
         \A v \in WaitList : t \notin Elements(kd.list[v]),
         NEW f, NEW r, r = IpcSuspend(kd, w, t, f)
  PROVE  /\ r \in KernelRecord /\ Consistent(r)
         /\ r.stat = Update(kd.stat, t, "suspend") /\ r.timer = Disarm(kd.timer, t)
         /\ SameData(kd, r) /\ r.error = kd.error
         /\ r.list[w] = Enqueued(kd, kd.list[w], t, f)
         /\ Elements(r.list[w]) = Elements(kd.list[w]) \cup {t}
         /\ \A v \in WaitList \ {w} : r.list[v] = kd.list[v]
         /\ SameLinks(kd, r, t) /\ t \notin Elements(r.list[Defunct])
         /\ f = "PRIO" /\ SortedBy(kd.prio, kd.list[w]) => SortedBy(kd.prio, r.list[w])
<1> DEFINE m == Suspend(kd, t)
           s == Enqueued(kd, m.list[w], t, f)
<1>1. /\ m \in KernelRecord /\ Consistent(m)
      /\ m.stat = Update(kd.stat, t, "suspend")
      /\ m.prio = kd.prio /\ m.mask = kd.mask /\ m.timer = Disarm(kd.timer, t)
      /\ m.cur = kd.cur /\ m.lock = kd.lock
      /\ SameLinks(kd, m, t) /\ Nowhere(m.list, t)
  BY SuspendFacts
<1>2. TakesFrom(kd, m, t) /\ m.error = kd.error
  BY SuspendTakes
<1>3. \A v \in WaitList : m.list[v] = kd.list[v]
  BY <1>2, WithoutOther DEF TakesFrom
<1>4. r = WithList(m, w, s)
  BY DEF IpcSuspend, Enqueued, WithList
<1> HIDE DEF m
<1>5. /\ m.list[w] \in Seq(Thread) /\ NoRepeat(m.list[w]) /\ t \notin Elements(m.list[w])
  BY <1>1, WaitQueue DEF KernelRecord, QueueLists, Consistent, LinkedOnce, NoRepeat, Nowhere
<1>6. /\ s \in Seq(Thread) /\ NoRepeat(s) /\ Elements(s) = Elements(m.list[w]) \cup {t}
      /\ f = "PRIO" /\ SortedBy(kd.prio, m.list[w]) => SortedBy(kd.prio, s)
  <2>1. CASE f = "FIFO"
    BY <1>5, <2>1, AppendFacts DEF Enqueued
  <2>2. CASE f # "FIFO"
    BY <1>5, <2>2, InsertInOrderFacts DEF Enqueued
  <2> QED BY <2>1, <2>2
<1> HIDE DEF s
<1>7. /\ r \in KernelRecord /\ Consistent(r)
      /\ r.stat = m.stat /\ r.prio = m.prio /\ r.mask = m.mask /\ r.group = m.group
      /\ SameRest(m, r)
      /\ r.list[w] = s /\ \A q \in Queue \ {w} : r.list[q] = m.list[q]
  BY <1>1, <1>4, <1>6, LinkWaitingFacts
<1>8. SameLinks(kd, r, t) /\ t \notin Elements(r.list[Defunct])
  <2>1. Defunct \in Queue \ {w} /\ w \in Queue
    BY WaitQueue DEF Queue
  <2>2. \A q \in Queue : Elements(r.list[q]) \ {t} = Elements(m.list[q]) \ {t}
    BY <1>6, <1>7
  <2> QED BY <1>1, <1>7, <2>1, <2>2 DEF SameLinks, Nowhere
<1>9. /\ r.timer = Disarm(kd.timer, t) /\ SameData(kd, r) /\ r.error = kd.error
  BY <1>1, <1>2, <1>7 DEF SameRest, SameData
<1>10. \A v \in WaitList \ {w} : r.list[v] = kd.list[v]
  BY <1>3, <1>7, WaitQueue
<1>11. r.list[w] = Enqueued(kd, kd.list[w], t, f)
  BY <1>3, <1>7 DEF s
<1> QED BY <1>1, <1>3, <1>6, <1>7, <1>8, <1>9, <1>10, <1>11

-----------------------------------------------------------------------------
(* Waking threads.                                                         *)

(* The threads of wait list w are suspended.                               *)
AllSuspended(kd, w) == \A t \in Elements(kd.list[w]) : kd.stat[t] = "suspend"

(* The first thread of a wait list                                         *)
LEMMA FirstWaiter ==
  ASSUME NEW kd \in KernelRecord, Consistent(kd), NEW w \in WaitList, kd.list[w] # << >>
  PROVE  /\ Head(kd.list[w]) \in Thread /\ Head(kd.list[w]) \in Elements(kd.list[w])
         /\ Without(kd.list[w], Head(kd.list[w])) = Tail(kd.list[w])
         /\ Elements(Tail(kd.list[w])) = Elements(kd.list[w]) \ {Head(kd.list[w])}
         /\ \A v \in WaitList \ {w} : Head(kd.list[w]) \notin Elements(kd.list[v])
<1>1. w \in Queue /\ WaitList \subseteq Queue
  BY WaitQueue
<1>2. kd.list[w] \in Seq(Thread) /\ NoRepeat(kd.list[w])
  BY <1>1 DEF KernelRecord, QueueLists, Consistent, LinkedOnce, NoRepeat
<1>3. Head(kd.list[w]) \in Elements(kd.list[w])
  BY <1>2, WithoutHead
<1>4. \A v \in WaitList \ {w} : Elements(kd.list[w]) \cap Elements(kd.list[v]) = {}
  BY <1>1 DEF Consistent, LinkedOnce
<1> QED BY <1>2, <1>3, <1>4, WithoutHead

(* rt_ipc_list_resume                                                      *)
LEMMA IpcResumeFacts ==
  ASSUME NEW kd \in KernelRecord, Consistent(kd), NEW w \in WaitList,
         kd.list[w] # << >>, AllSuspended(kd, w),
         NEW r, r = IpcResume(kd, w)
  PROVE  LET t == Head(kd.list[w])
         IN  /\ r \in KernelRecord /\ Consistent(r)
             /\ r.stat = Update(kd.stat, t, "ready")
             /\ r.prio = kd.prio /\ r.mask = kd.mask
             /\ SameRest(kd, r) /\ SameLinks(kd, r, t)
             /\ t \in Elements(r.list[kd.prio[t]])
             /\ r.list[w] = Tail(kd.list[w])
             /\ \A v \in WaitList \ {w} : r.list[v] = kd.list[v]
<1> DEFINE t == Head(kd.list[w])
<1>1. /\ t \in Thread /\ kd.stat[t] = "suspend" /\ Without(kd.list[w], t) = Tail(kd.list[w])
      /\ \A v \in WaitList \ {w} : t \notin Elements(kd.list[v])
  BY FirstWaiter DEF AllSuspended
<1>2. r = MakeReady(kd, t)
  BY <1>1 DEF IpcResume, Resume
<1> HIDE DEF t
<1>3. /\ r \in KernelRecord /\ Consistent(r)
      /\ r.stat = Update(kd.stat, t, "ready")
      /\ r.prio = kd.prio /\ r.mask = kd.mask
      /\ SameRest(kd, r) /\ SameLinks(kd, r, t)
      /\ t \in Elements(r.list[kd.prio[t]])
  BY <1>1, <1>2, MakeReadyFacts
<1>4. TakesFrom(kd, r, t)
  BY <1>1, <1>2, MakeReadyTakes
<1>5. r.list[w] = Tail(kd.list[w]) /\ \A v \in WaitList \ {w} : r.list[v] = kd.list[v]
  BY <1>1, <1>4, WithoutOther DEF TakesFrom
<1> QED BY <1>3, <1>5 DEF t

(* Setting thread->error                                                   *)
LEMMA SetErrorFacts ==
  ASSUME NEW kd \in KernelRecord, Consistent(kd), NEW t \in Thread, NEW e \in Error,
         NEW r, r = SetError(kd, t, e)
  PROVE  /\ r \in KernelRecord /\ Consistent(r)
         /\ r.error = [kd.error EXCEPT ![t] = e]
         /\ r.list = kd.list /\ r.stat = kd.stat /\ r.prio = kd.prio /\ r.mask = kd.mask
         /\ r.group = kd.group /\ r.cur = kd.cur /\ r.lock = kd.lock
         /\ r.slice = kd.slice /\ r.timer = kd.timer /\ r.asserted = kd.asserted
<1>1. /\ r \in KernelRecord
      /\ r.error = [kd.error EXCEPT ![t] = e]
      /\ r.list = kd.list /\ r.stat = kd.stat /\ r.prio = kd.prio /\ r.mask = kd.mask
      /\ r.group = kd.group /\ r.cur = kd.cur /\ r.lock = kd.lock
      /\ r.slice = kd.slice /\ r.timer = kd.timer /\ r.asserted = kd.asserted
  BY DEF SetError, KernelRecord
<1> QED BY <1>1, SameConsistent

(* One turn of the loop of rt_ipc_list_resume_all, of a list with a thread *)
LEMMA DrainOneFacts ==
  ASSUME NEW kd \in KernelRecord, Consistent(kd), NEW w \in WaitList,
         kd.list[w] # << >>, AllSuspended(kd, w),
         NEW r, r = DrainOne(kd, w)
  PROVE  LET t == Head(kd.list[w])
         IN  /\ r \in KernelRecord /\ Consistent(r)
             /\ r.stat = Update(kd.stat, t, "ready")
             /\ r.error = [kd.error EXCEPT ![t] = "ERROR"]
             /\ r.prio = kd.prio /\ r.cur = kd.cur /\ r.lock = kd.lock
             /\ r.timer = kd.timer /\ r.asserted = kd.asserted
             /\ SameLinks(kd, r, t)
             /\ t \in Elements(r.list[kd.prio[t]])
             /\ r.list[w] = Tail(kd.list[w])
             /\ \A v \in WaitList \ {w} : r.list[v] = kd.list[v]
<1> DEFINE t == Head(kd.list[w])
           m == SetError(kd, t, "ERROR")
<1>1. r = IpcResume(m, w) /\ t \in Thread /\ "ERROR" \in Error
  BY FirstWaiter DEF DrainOne, Error
<1> HIDE DEF t
<1>2. /\ m \in KernelRecord /\ Consistent(m)
      /\ m.error = [kd.error EXCEPT ![t] = "ERROR"]
      /\ m.list = kd.list /\ m.stat = kd.stat /\ m.prio = kd.prio
      /\ m.cur = kd.cur /\ m.lock = kd.lock /\ m.timer = kd.timer /\ m.asserted = kd.asserted
  BY <1>1, SetErrorFacts
<1> HIDE DEF m
<1>3. m.list[w] # << >> /\ AllSuspended(m, w) /\ Head(m.list[w]) = t
  BY <1>2 DEF AllSuspended, t
<1>4. /\ r \in KernelRecord /\ Consistent(r)
      /\ r.stat = Update(m.stat, t, "ready")
      /\ r.prio = m.prio /\ SameRest(m, r) /\ SameLinks(m, r, t)
      /\ t \in Elements(r.list[m.prio[t]])
      /\ r.list[w] = Tail(m.list[w])
      /\ \A v \in WaitList \ {w} : r.list[v] = m.list[v]
  BY <1>1, <1>2, <1>3, IpcResumeFacts
<1>5. /\ r.error = m.error /\ r.cur = m.cur /\ r.lock = m.lock
      /\ r.timer = m.timer /\ r.asserted = m.asserted
  BY <1>4 DEF SameRest
<1>6. SameLinks(kd, r, t)
  BY <1>2, <1>4 DEF SameLinks
<1> QED BY <1>2, <1>4, <1>5, <1>6 DEF t

(* r is the kernel kd after the threads D, once in wait list w, were woken *)
(* with the error code of a list that is drained.                          *)
Drained(kd, r, w, D) ==
  /\ r \in KernelRecord /\ Consistent(r)
  /\ \A t \in Thread : /\ r.stat[t] = IF t \in D THEN "ready" ELSE kd.stat[t]
                       /\ r.error[t] = IF t \in D THEN "ERROR" ELSE kd.error[t]
  /\ r.prio = kd.prio /\ r.cur = kd.cur /\ r.lock = kd.lock /\ r.timer = kd.timer
  /\ \A q \in Queue : Elements(r.list[q]) \ D = Elements(kd.list[q]) \ D
  /\ \A t \in D : t \in Elements(r.list[kd.prio[t]])
  /\ \A v \in WaitList \ {w} : r.list[v] = kd.list[v]

LEMMA DrainOneMore ==
  ASSUME NEW kd \in KernelRecord, NEW w \in WaitList, NEW D \in SUBSET Thread,
         NEW m, Drained(kd, m, w, D), m.list[w] # << >>, AllSuspended(m, w),
         NEW r, r = DrainOne(m, w)
  PROVE  /\ Drained(kd, r, w, D \cup {Head(m.list[w])})
         /\ r.list[w] = Tail(m.list[w]) /\ AllSuspended(r, w)
<1> DEFINE h == Head(m.list[w])
<1>0. m \in KernelRecord /\ Consistent(m)
  BY DEF Drained
<1>1. /\ r \in KernelRecord /\ Consistent(r)
      /\ r.stat = Update(m.stat, h, "ready")
      /\ r.error = [m.error EXCEPT ![h] = "ERROR"]
      /\ r.prio = m.prio /\ r.cur = m.cur /\ r.lock = m.lock /\ r.timer = m.timer
      /\ SameLinks(m, r, h)
      /\ h \in Elements(r.list[m.prio[h]])
      /\ r.list[w] = Tail(m.list[w])
      /\ \A v \in WaitList \ {w} : r.list[v] = m.list[v]
  BY <1>0, DrainOneFacts
<1>2. h \in Thread /\ Elements(Tail(m.list[w])) = Elements(m.list[w]) \ {h}
  BY <1>0, FirstWaiter
<1> HIDE DEF h
<1>3. \A t \in Thread : /\ r.stat[t] = IF t = h THEN "ready" ELSE m.stat[t]
                        /\ r.error[t] = IF t = h THEN "ERROR" ELSE m.error[t]
  BY <1>0, <1>1, <1>2, SMTT(60) DEF Update, KernelRecord
<1>4. \A t \in Thread :
         /\ r.stat[t] = IF t \in D \cup {h} THEN "ready" ELSE kd.stat[t]
         /\ r.error[t] = IF t \in D \cup {h} THEN "ERROR" ELSE kd.error[t]
  BY <1>3 DEF Drained
<1>5. \A q \in Queue :
         Elements(r.list[q]) \ (D \cup {h}) = Elements(kd.list[q]) \ (D \cup {h})
  <2> SUFFICES ASSUME NEW q \in Queue
               PROVE  Elements(r.list[q]) \ (D \cup {h}) = Elements(kd.list[q]) \ (D \cup {h})
    OBVIOUS
  <2>1. Elements(r.list[q]) \ {h} = Elements(m.list[q]) \ {h}
    BY <1>1 DEF SameLinks
  <2>2. Elements(m.list[q]) \ D = Elements(kd.list[q]) \ D
    BY DEF Drained
  <2> HIDE DEF Elements
  <2> QED BY <2>1, <2>2
<1>6. \A t \in D \cup {h} : t \in Elements(r.list[kd.prio[t]])
  <2> SUFFICES ASSUME NEW t \in D, t # h PROVE t \in Elements(r.list[kd.prio[t]])
    BY <1>1 DEF Drained
  <2>1. kd.prio[t] \in Queue
    BY DEF KernelRecord, Queue
  <2>2. t \in Elements(m.list[kd.prio[t]])
    BY DEF Drained
  <2> QED BY <1>1, <2>1, <2>2 DEF SameLinks
<1>7. AllSuspended(r, w)
  <2> SUFFICES ASSUME NEW t \in Elements(r.list[w]) PROVE r.stat[t] = "suspend"
    BY DEF AllSuspended
  <2>1. t \in Elements(m.list[w]) /\ t # h
    BY <1>1, <1>2
  <2>2. m.list[w] \in Seq(Thread)
    BY <1>0, WaitQueue DEF KernelRecord, QueueLists
  <2>3. t \in Thread
    BY <2>1, <2>2, EmptyElements
  <2> QED BY <1>3, <2>1, <2>3 DEF AllSuspended
<1>8. Drained(kd, r, w, D \cup {h})
  BY <1>1, <1>4, <1>5, <1>6 DEF Drained
<1> QED BY <1>1, <1>7, <1>8 DEF h

(* A turn of the loop, of whatever list, stays in the set of the kernels   *)
(* whose wait list w holds suspended threads.                              *)
Drainable(w) == {x \in KernelRecord : Consistent(x) /\ AllSuspended(x, w)}

LEMMA DrainOneStays ==
  ASSUME NEW w \in WaitList, NEW x \in Drainable(w)
  PROVE  DrainOne(x, w) \in Drainable(w)
<1> DEFINE r == DrainOne(x, w)
<1>1. x \in KernelRecord /\ Consistent(x) /\ AllSuspended(x, w)
  BY DEF Drainable
<1>2. CASE x.list[w] = << >>
  <2>1. r = [x EXCEPT !.asserted = TRUE]
    BY <1>2 DEF DrainOne
  <2>2. /\ r \in KernelRecord
        /\ r.list = x.list /\ r.stat = x.stat /\ r.prio = x.prio /\ r.mask = x.mask
        /\ r.group = x.group
    BY <1>1, <2>1 DEF KernelRecord
  <2> HIDE DEF r
  <2>3. Consistent(r)
    BY <1>1, <2>2, SameConsistent
  <2>4. AllSuspended(r, w)
    BY <1>1, <2>2 DEF AllSuspended
  <2> QED BY <2>2, <2>3, <2>4 DEF Drainable, r
<1>3. CASE x.list[w] # << >>
  <2>1. Drained(x, x, w, {})
    BY <1>1 DEF Drained
  <2>2. Drained(x, r, w, {} \cup {Head(x.list[w])}) /\ AllSuspended(r, w)
    BY <1>1, <1>3, <2>1, DrainOneMore
  <2> QED BY <2>2 DEF Drainable, Drained
<1> QED BY <1>2, <1>3

(* rt_ipc_list_resume_all with interrupts off: everyone is woken.          *)
LEMMA DrainAllFacts ==
  ASSUME NEW kd \in KernelRecord, Consistent(kd), NEW w \in WaitList, AllSuspended(kd, w),
         NEW r, r = DrainAll(kd, w)
  PROVE  Drained(kd, r, w, Elements(kd.list[w])) /\ r.list[w] = << >>
<1> DEFINE A == Drainable(w)
           f == [x \in A |-> DrainOne(x, w)]
           Body(g) == [n \in Nat |-> IF n = 0 THEN kd ELSE DrainOne(g[n - 1], w)]
           g == CHOOSE g : g = Body(g)
           s == kd.list[w]
<1>1. r = g[Len(s)]
  BY DEF DrainAll
<1>2. kd \in A /\ f \in [A -> A]
  BY DrainOneStays DEF Drainable
<1>3. \E h \in [Nat -> A] : h[0] = kd /\ \A n \in Nat : h[n + 1] = f[h[n]]
  <2> HIDE DEF A, f
  <2>1. kd \in A /\ f \in [A -> A]
    BY <1>2
  <2> QED BY ONLY <2>1, IterateExists, SMTT(60)
<1>4. \E h : h = Body(h)
  <2>1. PICK h \in [Nat -> A] : h[0] = kd /\ \A n \in Nat : h[n + 1] = f[h[n]]
    BY <1>3
  <2>2. ASSUME NEW n \in Nat PROVE h[n] = IF n = 0 THEN kd ELSE DrainOne(h[n - 1], w)
    <3>1. CASE n = 0
      BY <2>1, <3>1
    <3>2. CASE n # 0
      <4>1. n - 1 \in Nat /\ (n - 1) + 1 = n
        BY <3>2
      <4>2. h[n - 1] \in A /\ h[(n - 1) + 1] = f[h[n - 1]]
        BY <2>1, <4>1
      <4> QED BY <3>2, <4>1, <4>2
    <3> QED BY <3>1, <3>2
  <2> HIDE DEF A, f
  <2>3. h = Body(h)
    BY <2>1, <2>2
  <2> QED BY <2>3
<1>5. g = Body(g)
  BY <1>4
<1> HIDE DEF A, f, g
<1>6. g[0] = kd /\ \A n \in Nat : g[n + 1] = DrainOne(g[n], w)
  <2>1. g[0] = kd
    BY <1>5
  <2>2. ASSUME NEW n \in Nat PROVE g[n + 1] = DrainOne(g[n], w)
    <3>1. n + 1 \in Nat /\ n + 1 # 0 /\ (n + 1) - 1 = n
      OBVIOUS
    <3> QED BY <1>5, <3>1
  <2> QED BY <2>1, <2>2
<1>7. s \in Seq(Thread) /\ Len(s) \in Nat
  BY WaitQueue DEF KernelRecord, QueueLists
<1> HIDE DEF s
<1> DEFINE left(n) == g[n].list[w]
           Turn(n) ==
             /\ Elements(left(n)) \subseteq Elements(s)
             /\ Len(left(n)) = Len(s) - n
             /\ Drained(kd, g[n], w, Elements(s) \ Elements(left(n)))
             /\ AllSuspended(g[n], w)
           S == {n \in Nat : n <= Len(s) => Turn(n)}
<1>8. 0 \in S
  <2>1. left(0) = s
    BY <1>6 DEF s
  <2>2. Drained(kd, kd, w, {})
    BY DEF Drained
  <2>3. Elements(s) \ Elements(left(0)) = {}
    BY <2>1
  <2>4. Drained(kd, g[0], w, Elements(s) \ Elements(left(0))) /\ AllSuspended(g[0], w)
    BY <1>6, <2>2, <2>3
  <2>5. Elements(left(0)) \subseteq Elements(s) /\ Len(left(0)) = Len(s) - 0
    BY <1>7, <2>1
  <2>6. Turn(0)
    BY <2>4, <2>5
  <2> QED BY <2>6
<1>9. ASSUME NEW n \in S PROVE n + 1 \in S
  <2> SUFFICES ASSUME n + 1 <= Len(s) PROVE Turn(n + 1)
    OBVIOUS
  <2> DEFINE x == g[n]
  <2>1. n \in Nat /\ n < Len(s) /\ Turn(n)
    BY <1>7
  <2>2. x \in KernelRecord /\ Consistent(x)
    BY <2>1 DEF Drained
  <2>3. x.list[w] \in Seq(Thread) /\ Len(x.list[w]) = Len(s) - n /\ x.list[w] # << >>
    <3>1. x.list[w] \in Seq(Thread)
      BY <2>2, WaitQueue DEF KernelRecord, QueueLists
    <3> QED BY <1>7, <2>1, <3>1
  <2>4. g[n + 1] = DrainOne(x, w)
    BY <1>6, <2>1
  <2>5. Elements(s) \ Elements(left(n)) \in SUBSET Thread
    BY <1>7, EmptyElements
  <2> DEFINE D == Elements(s) \ Elements(left(n))
             h == Head(x.list[w])
  <2>6. /\ Drained(kd, g[n + 1], w, D \cup {h})
        /\ left(n + 1) = Tail(x.list[w]) /\ AllSuspended(g[n + 1], w)
    <3> HIDE DEF Turn
    <3>1. D \in SUBSET Thread /\ Drained(kd, x, w, D) /\ AllSuspended(x, w)
      BY <2>1, <2>5 DEF Turn
    <3> HIDE DEF D, x
    <3> DEFINE next == g[n + 1]
    <3>2. next = DrainOne(x, w) /\ x.list[w] # << >>
      BY <2>3, <2>4
    <3> HIDE DEF next, h
    <3>3. /\ Drained(kd, next, w, D \cup {Head(x.list[w])})
          /\ next.list[w] = Tail(x.list[w]) /\ AllSuspended(next, w)
      BY ONLY kd \in KernelRecord, w \in WaitList, <3>1, <3>2, DrainOneMore
    <3> QED BY <3>3 DEF next, h
  <2>7. h \in Elements(x.list[w]) /\ Elements(Tail(x.list[w])) = Elements(x.list[w]) \ {h}
    BY <2>2, <2>3, FirstWaiter
  <2>8. D \cup {h} = Elements(s) \ Elements(left(n + 1))
    BY <2>1, <2>6, <2>7
  <2>9. Len(left(n + 1)) = Len(s) - (n + 1)
    <3>1. /\ x.list[w] \in Seq(Thread) /\ Len(x.list[w]) = Len(s) - n /\ x.list[w] # << >>
          /\ left(n + 1) = Tail(x.list[w]) /\ n \in Nat /\ Len(s) \in Nat
      BY <1>7, <2>1, <2>3, <2>6
    <3>2. Len(Tail(x.list[w])) = Len(x.list[w]) - 1
      BY ONLY <3>1
    <3> QED BY ONLY <3>1, <3>2
  <2>10. Elements(left(n + 1)) \subseteq Elements(s)
    BY <2>1, <2>6, <2>7
  <2> QED BY <2>6, <2>8, <2>9, <2>10
<1>10. S = Nat
  <2> HIDE DEF Turn
  <2> QED BY <1>8, <1>9, SetInduction
<1>11. Turn(Len(s))
  <2> HIDE DEF Turn
  <2> QED BY <1>7, <1>10
<1>12. left(Len(s)) = << >>
  <2>1. g[Len(s)] \in KernelRecord
    BY <1>11 DEF Drained
  <2>2. left(Len(s)) \in Seq(Thread)
    BY <2>1, WaitQueue DEF KernelRecord, QueueLists
  <2> QED BY <1>7, <1>11, <2>2
<1>13. Elements(left(Len(s))) = {}
  BY <1>12 DEF Elements
<1> QED BY <1>1, <1>11, <1>12, <1>13 DEF s

-----------------------------------------------------------------------------
(* The sections of calls on IPC objects.                                   *)

(* r is the kernel kd after the threads U of its wait lists were woken.    *)
Wakes(kd, r, U) ==
  /\ r \in KernelRecord /\ Consistent(r)
  /\ \A t \in Thread : r.stat[t] = IF t \in U THEN "ready" ELSE kd.stat[t]
  /\ r.prio = kd.prio /\ r.timer = kd.timer /\ r.cur = kd.cur /\ r.lock = kd.lock
  /\ \A q \in Queue : Elements(r.list[q]) \ U = Elements(kd.list[q]) \ U
  /\ \A t \in U : t \in Elements(r.list[kd.prio[t]])
  /\ \A t \in U : \E w \in WaitList : t \in Elements(kd.list[w])

(* Nobody is woken.                                                        *)
LEMMA WakesNobody ==
  ASSUME NEW kd \in KernelRecord, Consistent(kd) PROVE Wakes(kd, kd, {})
BY DEF Wakes

(* rt_ipc_list_resume wakes one thread.                                    *)
LEMMA ResumeWakes ==
  ASSUME NEW kd \in KernelRecord, Consistent(kd), NEW w \in WaitList,
         kd.list[w] # << >>, AllSuspended(kd, w)
  PROVE  Wakes(kd, IpcResume(kd, w), {Head(kd.list[w])})
<1> DEFINE t == Head(kd.list[w])
           r == IpcResume(kd, w)
<1>1. t \in Thread /\ t \in Elements(kd.list[w])
  BY FirstWaiter
<1>2. /\ r \in KernelRecord /\ Consistent(r)
      /\ r.stat = Update(kd.stat, t, "ready")
      /\ r.prio = kd.prio /\ SameRest(kd, r) /\ SameLinks(kd, r, t)
      /\ t \in Elements(r.list[kd.prio[t]])
  BY IpcResumeFacts
<1> HIDE DEF t, r
<1>3. \A u \in Thread : r.stat[u] = IF u \in {t} THEN "ready" ELSE kd.stat[u]
  BY <1>1, <1>2 DEF Update, KernelRecord
<1>4. Wakes(kd, r, {t})
  BY <1>1, <1>2, <1>3 DEF Wakes, SameRest, SameLinks
<1> QED BY <1>4 DEF t, r

(* A turn of the loop of rt_ipc_list_resume_all, and all of them           *)
LEMMA DrainWakes ==
  ASSUME NEW kd \in KernelRecord, NEW w \in WaitList, NEW D \in SUBSET Elements(kd.list[w]),
         NEW r, Drained(kd, r, w, D)
  PROVE  Wakes(kd, r, D)
BY DEF Drained, Wakes

(* Threads that were woken are in no wait list.                            *)
LEMMA WakesTakes ==
  ASSUME NEW kd \in KernelRecord, NEW r, NEW U, U \subseteq Thread, Wakes(kd, r, U),
         NEW w \in WaitList
  PROVE  Elements(r.list[w]) = Elements(kd.list[w]) \ U
<1>1. w \in Queue
  BY WaitQueue
<1>2. Elements(r.list[w]) \ U = Elements(kd.list[w]) \ U
  BY <1>1 DEF Wakes
<1>3. ASSUME NEW t \in U PROVE t \notin Elements(r.list[w])
  <2>1. r \in KernelRecord /\ Consistent(r) /\ t \in Elements(r.list[r.prio[t]])
    BY DEF Wakes
  <2> QED BY <2>1, QueuedNotWaiting
<1> QED BY <1>2, <1>3

(* One turn of the loop of rt_ipc_list_resume_all wakes the first thread.  *)
LEMMA DrainOneWakes ==
  ASSUME NEW kd \in KernelRecord, Consistent(kd), NEW w \in WaitList,
         kd.list[w] # << >>, AllSuspended(kd, w),
         NEW t, t = Head(kd.list[w]),
         NEW r, r = DrainOne(kd, w)
  PROVE  /\ Wakes(kd, r, {t}) /\ t \in Thread /\ t \in Elements(kd.list[w])
         /\ r.list[w] = Tail(kd.list[w]) /\ r.prio = kd.prio
         /\ r.error = Update(kd.error, t, "ERROR")
<1>1. t \in Thread /\ t \in Elements(kd.list[w])
  BY FirstWaiter
<1>2. /\ r \in KernelRecord /\ Consistent(r)
      /\ r.stat = Update(kd.stat, t, "ready")
      /\ r.error = [kd.error EXCEPT ![t] = "ERROR"]
      /\ r.prio = kd.prio /\ r.cur = kd.cur /\ r.lock = kd.lock
      /\ r.timer = kd.timer /\ r.asserted = kd.asserted
      /\ SameLinks(kd, r, t)
      /\ t \in Elements(r.list[kd.prio[t]])
      /\ r.list[w] = Tail(kd.list[w])
  BY DrainOneFacts
<1>3. \A u \in Thread : r.stat[u] = IF u \in {t} THEN "ready" ELSE kd.stat[u]
  BY <1>1, <1>2 DEF Update, KernelRecord
<1>4. r.error = Update(kd.error, t, "ERROR")
  BY <1>2 DEF Update
<1>5. Wakes(kd, r, {t})
  BY <1>1, <1>2, <1>3 DEF Wakes, SameLinks
<1> QED BY <1>1, <1>2, <1>4, <1>5

(* rt_thread_resume with interrupts off, of any thread of a wait list      *)
LEMMA ResumeListed ==
  ASSUME NEW kd \in KernelRecord, Consistent(kd), NEW w \in WaitList, NEW t \in Thread,
         t \in Elements(kd.list[w]), kd.stat[t] = "suspend",
         NEW r, r = Resume(kd, t)
  PROVE  Wakes(kd, r, {t}) /\ TakesFrom(kd, r, t) /\ r.error = kd.error
<1>1. r = MakeReady(kd, t)
  BY DEF Resume
<1>2. /\ r \in KernelRecord /\ Consistent(r)
      /\ r.stat = Update(kd.stat, t, "ready")
      /\ r.prio = kd.prio /\ SameRest(kd, r) /\ SameLinks(kd, r, t)
      /\ t \in Elements(r.list[kd.prio[t]])
  BY <1>1, MakeReadyFacts
<1>3. TakesFrom(kd, r, t) /\ r.error = kd.error
  BY <1>1, MakeReadyTakes
<1>4. \A u \in Thread : r.stat[u] = IF u \in {t} THEN "ready" ELSE kd.stat[u]
  BY <1>2 DEF Update, KernelRecord
<1>5. \A q \in Queue : Elements(r.list[q]) \ {t} = Elements(kd.list[q]) \ {t}
  BY <1>2 DEF SameLinks
<1>6. \A u \in {t} : u \in Elements(r.list[kd.prio[u]])
                    /\ \E v \in WaitList : u \in Elements(kd.list[v])
  BY <1>2
<1>7. r.timer = kd.timer /\ r.cur = kd.cur /\ r.lock = kd.lock
  BY <1>2 DEF SameRest
<1>8. Wakes(kd, r, {t})
  BY ONLY <1>2, <1>4, <1>5, <1>6, <1>7 DEF Wakes
<1> QED BY <1>3, <1>8

(* Setting thread->error wakes nobody.                                     *)
LEMMA SetErrorWakes ==
  ASSUME NEW kd \in KernelRecord, Consistent(kd), NEW t \in Thread, NEW e \in Error,
         NEW r, r = SetError(kd, t, e)
  PROVE  Wakes(kd, r, {}) /\ r.list = kd.list
<1>1. /\ r \in KernelRecord /\ Consistent(r)
      /\ r.list = kd.list /\ r.stat = kd.stat /\ r.prio = kd.prio
      /\ r.cur = kd.cur /\ r.lock = kd.lock /\ r.timer = kd.timer
  <2>1. /\ r \in KernelRecord
        /\ r.list = kd.list /\ r.stat = kd.stat /\ r.prio = kd.prio /\ r.mask = kd.mask
        /\ r.group = kd.group
        /\ r.cur = kd.cur /\ r.lock = kd.lock /\ r.timer = kd.timer
    BY DEF SetError, KernelRecord
  <2> QED BY <2>1, SameConsistent
<1> QED BY <1>1 DEF Wakes

(* One section after another                                               *)
LEMMA WakesTrans ==
  ASSUME NEW kd \in KernelRecord, NEW U, U \subseteq Thread, NEW V, V \subseteq Thread,
         NEW m, Wakes(kd, m, U), NEW r, Wakes(m, r, V)
  PROVE  Wakes(kd, r, U \cup V)
<1>1. /\ m \in KernelRecord /\ Consistent(m) /\ m.prio = kd.prio
      /\ r \in KernelRecord /\ Consistent(r) /\ r.prio = kd.prio
      /\ r.timer = kd.timer /\ r.cur = kd.cur /\ r.lock = kd.lock
      /\ \A t \in U : t \in Elements(m.list[kd.prio[t]])
      /\ \A t \in V : t \in Elements(r.list[kd.prio[t]])
      /\ \A t \in U : \E w \in WaitList : t \in Elements(kd.list[w])
  BY DEF Wakes
<1>2. \A w \in WaitList : Elements(m.list[w]) = Elements(kd.list[w]) \ U
  BY WakesTakes
<1>3. \A t \in V : \E w \in WaitList : t \in Elements(m.list[w])
  BY DEF Wakes
<1>4. U \cap V = {}
  BY <1>2, <1>3
<1>5. \A q \in Queue : /\ Elements(m.list[q]) \ U = Elements(kd.list[q]) \ U
                       /\ Elements(r.list[q]) \ V = Elements(m.list[q]) \ V
  BY DEF Wakes
<1>6. \A t \in U \cup V : t \in Elements(r.list[kd.prio[t]])
  <2> SUFFICES ASSUME NEW t \in U, t \notin V PROVE t \in Elements(r.list[kd.prio[t]])
    BY <1>1
  <2>1. kd.prio[t] \in Queue
    BY DEF KernelRecord, Queue
  <2> QED BY <1>1, <1>5, <2>1
<1>7. \A t \in U \cup V : \E w \in WaitList : t \in Elements(kd.list[w])
  BY <1>1, <1>2, <1>3
<1>8. \A t \in Thread : r.stat[t] = IF t \in U \cup V THEN "ready" ELSE kd.stat[t]
  BY DEF Wakes
<1>9. \A q \in Queue : Elements(r.list[q]) \ (U \cup V) = Elements(kd.list[q]) \ (U \cup V)
  BY <1>5
<1> QED BY <1>1, <1>6, <1>7, <1>8, <1>9 DEF Wakes

(* Where a thread in a call can go on after a section                      *)
CallLabel == {"app", "sched", "waited", "drain1", "drain2"}

(* The threads that the kernel has woken are the scheduler's to run.       *)
LEMMA WakesChanges ==
  ASSUME IpcInv, NEW U, U \subseteq Thread, NEW r, Wakes(k, r, U),
         k' \in KernelRecord, Consistent(k'), k'.list = r.list, k'.stat = r.stat,
         k'.prio = r.prio, k'.timer = r.timer
  PROVE  ChangesIn(U) /\ \A t \in U : InCall(t) /\ k.stat[t] = "suspend"
<1>1. \A t \in U : InCall(t) /\ k.stat[t] = "suspend" /\ ~Targeted(t)
  BY IpcFacts DEF Wakes, IpcInv, ListedWait
<1>2. \A t \in U : t \in Elements(k'.list[k'.prio[t]])
  BY DEF Wakes
<1>3. \A t \in U : t \notin Elements(k'.list[Defunct])
  BY <1>2, ReadyNotDefunct
<1>4. Idle \notin U /\ k'.stat[Idle] = "ready" /\ k'.timer[Idle] = FALSE
  BY <1>1, IdleFacts DEF IpcInv, Wakes
<1> QED BY <1>1, <1>2, <1>3, <1>4 DEF ChangesIn, Wakes

(* A section of a call that may wake threads, and does not block           *)
LEMMA CallSection ==
  ASSUME IpcInv, NEW t \in Thread, Running(t),
         pc[t] \in {"app", "waited", "drain1", "drain2"},
         NEW label \in CallLabel, label = "waited" => k.lock = 0,
         pc[t] = "waited" => label = "waited" \/ k.stat[t] = "ready",
         Goto(t, label), isr' = isr, arg' = arg, crit' = crit,
         NEW U, U \subseteq Thread, Wakes(k, k', U)
  PROVE  IpcInv'
<1>1. /\ IInv /\ pc \in [Thread -> PC] /\ k \in KernelRecord
      /\ k.cur = t /\ k.stat[t] \in {"ready", "suspend"} /\ ~Targeted(t)
  BY IpcFacts, CallerFacts
<1>2. /\ k' \in KernelRecord /\ Consistent(k') /\ k'.cur = k.cur /\ k'.lock = k.lock
      /\ \A u \in Thread : k'.stat[u] = IF u \in U THEN "ready" ELSE k.stat[u]
  BY DEF Wakes
<1>3. ChangesIn(U) /\ \A u \in U : InCall(u) /\ k.stat[u] = "suspend"
  BY <1>2, WakesChanges
<1>4. \A u \in Thread : pc'[u] = IF u = t THEN label ELSE pc[u]
  BY <1>1 DEF Goto
<1>5. OrdinaryMove
  BY <1>1, GotoMove DEF CallLabel, InWindow, Resuming, Deleting, PC
<1>6. IInv'
  BY <1>1, <1>2, <1>3, <1>5, OrdinarySteps DEF SwitchesToReady, IInv, TypeOK
<1>7. \A u \in Thread : Targeted(u)' => Targeted(u)
  BY <1>4 DEF Targeted, Target, CallLabel, Resuming, Deleting
<1>8. CallersAlive'
  BY <1>1, <1>2, <1>4, <1>7 DEF IpcInv, CallersAlive, InCall
<1>9. WaitsUnlocked'
  BY <1>1, <1>2, <1>4 DEF IpcInv, WaitsUnlocked, Waiting, CallLabel
<1>10. RunnerReady'
  <2> SUFFICES ASSUME k'.lock = 0, pc'[t] \notin Unscheduled
               PROVE  k'.stat[t] = "ready" \/ (Waiting(t)' /\ Unlisted(t)')
    BY <1>1, <1>2 DEF RunnerReady
  <2>1. k.stat[t] = "ready" \/ (Waiting(t) /\ Unlisted(t))
    BY <1>1, <1>2 DEF IpcInv, RunnerReady, Unscheduled
  <2>2. Unlisted(t) => Unlisted(t)'
    BY <1>1, WakesTakes DEF Unlisted
  <2> QED BY <1>2, <1>4, <2>1, <2>2 DEF Waiting
<1>11. ListedWait'
  <2> SUFFICES ASSUME NEW w \in WaitList, NEW u \in Elements(k'.list[w])
               PROVE  Waiting(u)' /\ k'.stat[u] = "suspend"
    BY DEF ListedWait
  <2>1. u \in Elements(k.list[w]) /\ u \notin U
    BY <1>1, WakesTakes
  <2>2. Waiting(u) /\ k.stat[u] = "suspend" /\ u \in Thread
    BY <2>1, IpcFacts DEF IpcInv, ListedWait
  <2>3. u # t
    <3> SUFFICES ASSUME u = t PROVE FALSE
      OBVIOUS
    <3>1. pc[t] = "waited" /\ k.lock = 0
      BY <1>1, <2>2 DEF IpcInv, WaitsUnlocked, Waiting
    <3> QED BY <1>1, <2>1, <2>2, <3>1 DEF IpcInv, RunnerReady, Unscheduled, Unlisted
  <2> QED BY <1>2, <1>4, <2>1, <2>2, <2>3 DEF Waiting
<1> QED BY <1>6, <1>8, <1>9, <1>10, <1>11 DEF IpcInv

(* A section of an interrupt that wakes threads and calls rt_schedule      *)
LEMMA InterruptSection ==
  ASSUME IpcInv, isr = "none", k.cur # NoThread,
         pc' = pc, isr' = isr, arg' = arg, crit' = crit,
         NEW U, U \subseteq Thread, NEW r, Wakes(k, r, U),
         k' = r \/ k' = Schedule(r)
  PROVE  IpcInv' /\ k'.list = r.list /\ k'.stat = r.stat /\ k'.prio = r.prio /\ k'.error = r.error
<1>1. IInv /\ k \in KernelRecord /\ r \in KernelRecord /\ Consistent(r)
  BY IpcFacts DEF Wakes
<1>2. Idle \notin U
  BY IpcFacts, IdleFacts DEF Wakes, IpcInv, ListedWait
<1>3. Idle \in Elements(r.list[r.prio[Idle]]) /\ r.prio[Idle] \in Prio
  <2>1. k.prio[Idle] \in Queue /\ k.prio[Idle] \in Prio
    BY <1>1, IpcFacts DEF KernelRecord, Queue
  <2>2. Idle \in Elements(k.list[k.prio[Idle]])
    BY <1>1, IdleFacts
  <2> QED BY <1>2, <2>1, <2>2 DEF Wakes
<1>4. r.group # {}
  BY <1>1, <1>3 DEF Consistent, BitmapExact, Elements
<1>5. /\ k' \in KernelRecord /\ Consistent(k')
      /\ k'.list = r.list /\ k'.stat = r.stat /\ k'.prio = r.prio /\ k'.timer = r.timer
      /\ k'.lock = r.lock /\ k'.error = r.error
      /\ k'.cur = k.cur \/ Dispatched(k, k')
  <2>1. CASE k' = r
    BY <1>1, <2>1 DEF Wakes
  <2>2. CASE k' = Schedule(r)
    <3>1. k'.error = r.error
      BY <1>1, <2>2, ScheduleTakes
    <3> QED BY <1>1, <1>4, <2>2, <3>1, ScheduleFacts DEF Wakes, Dispatched
  <2> QED BY <2>1, <2>2
<1>6. ChangesIn(U) /\ \A u \in U : InCall(u) /\ k.stat[u] = "suspend"
  BY <1>5, WakesChanges
<1>7. SwitchesToReady
  BY <1>5, DispatchSwitch DEF SwitchesToReady
<1>8. IInv'
  BY <1>1, <1>6, <1>7, StayMove, OrdinarySteps DEF IInv, TypeOK
<1>9. \A u \in Thread : k'.stat[u] = IF u \in U THEN "ready" ELSE k.stat[u]
  BY <1>5 DEF Wakes
<1>10. k'.lock = k.lock
  BY <1>5 DEF Wakes
<1>11. CallersAlive'
  BY <1>9 DEF IpcInv, CallersAlive, InCall, Targeted, Target
<1>12. WaitsUnlocked'
  BY <1>5, <1>10 DEF IpcInv, WaitsUnlocked, Waiting, Dispatched
<1>13. RunnerReady'
  <2> SUFFICES ASSUME NEW t \in Thread, k'.cur = t, k'.lock = 0, pc[t] \notin Unscheduled
               PROVE  k'.stat[t] = "ready" \/ (Waiting(t) /\ Unlisted(t)')
    BY DEF RunnerReady, Waiting
  <2>1. Unlisted(t) => Unlisted(t)'
    BY <1>1, <1>5, WakesTakes DEF Unlisted
  <2>2. CASE k'.cur = k.cur
    BY <1>9, <1>10, <2>1, <2>2 DEF IpcInv, RunnerReady
  <2>3. CASE Dispatched(k, k')
    BY <1>10, <2>3 DEF Dispatched
  <2> QED BY <1>5, <2>2, <2>3
<1>14. ListedWait'
  <2> SUFFICES ASSUME NEW w \in WaitList, NEW u \in Elements(k'.list[w])
               PROVE  Waiting(u)' /\ k'.stat[u] = "suspend"
    BY DEF ListedWait
  <2>1. u \in Elements(k.list[w]) /\ u \notin U
    BY <1>1, <1>5, WakesTakes
  <2>2. Waiting(u) /\ k.stat[u] = "suspend" /\ u \in Thread
    BY <2>1, IpcFacts DEF IpcInv, ListedWait
  <2> QED BY <1>9, <2>1, <2>2 DEF Waiting
<1> QED BY <1>5, <1>8, <1>11, <1>12, <1>13, <1>14 DEF IpcInv

(* r is the kernel kd after thread t was suspended in wait list w.         *)
Suspends(kd, r, t, w) ==
  /\ r \in KernelRecord /\ Consistent(r)
  /\ r.stat = Update(kd.stat, t, "suspend") /\ r.error = Update(kd.error, t, "EOK")
  /\ r.prio = kd.prio /\ r.cur = kd.cur /\ r.lock = kd.lock
  /\ \A u \in Thread \ {t} : r.timer[u] = kd.timer[u]
  /\ SameLinks(kd, r, t) /\ t \notin Elements(r.list[Defunct])
  /\ Elements(r.list[w]) = Elements(kd.list[w]) \cup {t}
  /\ \A v \in WaitList \ {w} : r.list[v] = kd.list[v]

(* The section that suspends the caller, with or without its timer         *)
LEMMA AwaitSuspends ==
  ASSUME NEW kd \in KernelRecord, Consistent(kd), NEW w \in WaitList, NEW t \in Thread,
         kd.stat[t] \in {"ready", "suspend"}, \A v \in WaitList : t \notin Elements(kd.list[v]),
         NEW f, NEW x, x = IpcSuspend(SetError(kd, t, "EOK"), w, t, f),
         NEW r, r = x \/ r = StartTimer(x, t)
  PROVE  /\ Suspends(kd, r, t, w)
         /\ f = "PRIO" /\ SortedBy(kd.prio, kd.list[w]) => SortedBy(kd.prio, r.list[w])
<1> DEFINE m == SetError(kd, t, "EOK")
<1>1. /\ m \in KernelRecord /\ Consistent(m)
      /\ m.error = [kd.error EXCEPT ![t] = "EOK"]
      /\ m.list = kd.list /\ m.stat = kd.stat /\ m.prio = kd.prio
      /\ m.cur = kd.cur /\ m.lock = kd.lock /\ m.timer = kd.timer
  <2>1. "EOK" \in Error
    BY DEF Error
  <2> QED BY <2>1, SetErrorFacts
<1>2. x = IpcSuspend(m, w, t, f)
  OBVIOUS
<1> HIDE DEF m
<1>3. m.stat[t] \in {"ready", "suspend"} /\ \A v \in WaitList : t \notin Elements(m.list[v])
  BY <1>1
<1>4. /\ x \in KernelRecord /\ Consistent(x)
      /\ x.stat = Update(m.stat, t, "suspend") /\ x.timer = Disarm(m.timer, t)
      /\ SameData(m, x) /\ x.error = m.error
      /\ Elements(x.list[w]) = Elements(m.list[w]) \cup {t}
      /\ \A v \in WaitList \ {w} : x.list[v] = m.list[v]
      /\ SameLinks(m, x, t) /\ t \notin Elements(x.list[Defunct])
      /\ f = "PRIO" /\ SortedBy(m.prio, m.list[w]) => SortedBy(m.prio, x.list[w])
  <2>1. m \in KernelRecord /\ Consistent(m)
    BY <1>1
  <2> QED BY ONLY <2>1, <1>2, <1>3, w \in WaitList, t \in Thread, IpcSuspendFacts
<1>5. \A u \in Thread \ {t} : x.timer[u] = kd.timer[u]
  BY <1>1, <1>4 DEF Disarm, KernelRecord
<1>6. /\ r \in KernelRecord
      /\ r.list = x.list /\ r.stat = x.stat /\ r.prio = x.prio /\ r.mask = x.mask
      /\ r.group = x.group /\ r.cur = x.cur /\ r.lock = x.lock /\ r.error = x.error
      /\ \A u \in Thread \ {t} : r.timer[u] = x.timer[u]
  <2>1. CASE r = x
    BY <1>4, <2>1
  <2>2. CASE r = StartTimer(x, t)
    <3>1. r = [x EXCEPT !.timer[t] = TRUE]
      BY <2>2 DEF StartTimer
    <3> QED BY <1>4, <3>1, ZenonT(60) DEF KernelRecord
  <2> QED BY <2>1, <2>2
<1>7. Consistent(r)
  BY <1>4, <1>6, SameConsistent
<1>8. SameLinks(kd, r, t)
  BY <1>1, <1>4, <1>6 DEF SameLinks
<1>9. r.prio = kd.prio /\ r.cur = kd.cur /\ r.lock = kd.lock
  BY <1>1, <1>4, <1>6 DEF SameData
<1>10. r.stat = Update(kd.stat, t, "suspend") /\ r.error = Update(kd.error, t, "EOK")
  BY <1>1, <1>4, <1>6 DEF Update
<1>11. Suspends(kd, r, t, w)
  BY <1>1, <1>4, <1>5, <1>6, <1>7, <1>8, <1>9, <1>10 DEF Suspends
<1>12. f = "PRIO" /\ SortedBy(kd.prio, kd.list[w]) => SortedBy(kd.prio, r.list[w])
  BY <1>1, <1>4, <1>6
<1> QED BY <1>11, <1>12

(* The same for a thread that is linked anywhere in the list               *)
LEMMA AwaitAnywhere ==
  ASSUME NEW kd \in KernelRecord, Consistent(kd), NEW w \in WaitList, NEW t \in Thread,
         kd.stat[t] \in {"ready", "suspend"}, \A v \in WaitList : t \notin Elements(kd.list[v]),
         NEW s \in Seq(Thread), NoRepeat(s), Elements(s) = Elements(kd.list[w]) \cup {t},
         NEW x, x = WithList(Suspend(SetError(kd, t, "EOK"), t), w, s),
         NEW r, r = x \/ r = StartTimer(x, t)
  PROVE  Suspends(kd, r, t, w)
<1> DEFINE e == SetError(kd, t, "EOK")
           m == Suspend(e, t)
<1>1. /\ e \in KernelRecord /\ Consistent(e)
      /\ e.error = [kd.error EXCEPT ![t] = "EOK"]
      /\ e.list = kd.list /\ e.stat = kd.stat /\ e.prio = kd.prio
      /\ e.cur = kd.cur /\ e.lock = kd.lock /\ e.timer = kd.timer
  <2>1. "EOK" \in Error
    BY DEF Error
  <2> QED BY <2>1, SetErrorFacts
<1>2. x = WithList(m, w, s)
  OBVIOUS
<1> HIDE DEF e
<1>3. /\ m \in KernelRecord /\ Consistent(m)
      /\ m.stat = Update(e.stat, t, "suspend")
      /\ m.prio = e.prio /\ m.timer = Disarm(e.timer, t)
      /\ m.cur = e.cur /\ m.lock = e.lock
      /\ SameLinks(e, m, t) /\ Nowhere(m.list, t)
  BY <1>1, SuspendFacts
<1>4. TakesFrom(e, m, t) /\ m.error = e.error
  BY <1>1, SuspendTakes
<1>5. \A v \in WaitList : m.list[v] = kd.list[v]
  BY <1>1, <1>4, WithoutOther DEF TakesFrom
<1> HIDE DEF m
<1>6. /\ x \in KernelRecord /\ Consistent(x)
      /\ x.stat = m.stat /\ x.prio = m.prio /\ SameRest(m, x)
      /\ x.list[w] = s /\ \A q \in Queue \ {w} : x.list[q] = m.list[q]
  BY <1>2, <1>3, <1>5, LinkWaitingFacts
<1>7. \A u \in Thread \ {t} : x.timer[u] = kd.timer[u]
  BY <1>1, <1>3, <1>6 DEF Disarm, SameRest, KernelRecord
<1>8. SameLinks(kd, x, t) /\ t \notin Elements(x.list[Defunct])
  <2>1. Defunct \in Queue \ {w} /\ w \in Queue
    BY WaitQueue DEF Queue
  <2>2. \A q \in Queue : Elements(x.list[q]) \ {t} = Elements(m.list[q]) \ {t}
    BY <1>5, <1>6
  <2> QED BY <1>1, <1>3, <1>6, <2>1, <2>2 DEF SameLinks, Nowhere
<1>9. /\ r \in KernelRecord
      /\ r.list = x.list /\ r.stat = x.stat /\ r.prio = x.prio /\ r.mask = x.mask
      /\ r.group = x.group /\ r.cur = x.cur /\ r.lock = x.lock /\ r.error = x.error
      /\ \A u \in Thread \ {t} : r.timer[u] = x.timer[u]
  <2>1. CASE r = x
    BY <1>6, <2>1
  <2>2. CASE r = StartTimer(x, t)
    <3>1. r = [x EXCEPT !.timer[t] = TRUE]
      BY <2>2 DEF StartTimer
    <3> QED BY <1>6, <3>1, ZenonT(60) DEF KernelRecord
  <2> QED BY <2>1, <2>2
<1>10. Consistent(r)
  BY <1>6, <1>9, SameConsistent
<1>11. SameLinks(kd, r, t) /\ t \notin Elements(r.list[Defunct])
  BY <1>8, <1>9 DEF SameLinks
<1>12. r.prio = kd.prio /\ r.cur = kd.cur /\ r.lock = kd.lock
  BY <1>1, <1>3, <1>6, <1>9 DEF SameRest
<1>13. r.stat = Update(kd.stat, t, "suspend") /\ r.error = Update(kd.error, t, "EOK")
  BY <1>1, <1>3, <1>4, <1>6, <1>9 DEF Update, SameRest
<1>14. /\ Elements(r.list[w]) = Elements(kd.list[w]) \cup {t}
       /\ \A v \in WaitList \ {w} : r.list[v] = kd.list[v]
  BY <1>5, <1>6, <1>9, WaitQueue
<1> QED BY <1>7, <1>9, <1>10, <1>11, <1>12, <1>13, <1>14 DEF Suspends

(* The thread that makes a call is in no wait list, and ready unless it is *)
(* about to link itself in one.                                            *)
LEMMA CallerReady ==
  ASSUME IpcInv, NEW t \in Thread, Running(t), k.lock = 0,
         pc[t] \in {"app", "waited", "drain1", "drain2"}
  PROVE  /\ k.cur = t /\ k.stat[t] \in {"ready", "suspend"} /\ ~Targeted(t)
         /\ pc[t] # "waited" => k.stat[t] = "ready"
         /\ \A w \in WaitList : t \notin Elements(k.list[w])
<1>1. k.cur = t /\ ~Targeted(t)
  BY IpcFacts, CallerFacts
<1>2. k.stat[t] = "ready" \/ (Waiting(t) /\ Unlisted(t))
  BY <1>1 DEF IpcInv, RunnerReady, Unscheduled
<1>3. k.stat[t] \in {"ready", "suspend"}
  BY <1>2 DEF IpcInv, CallersAlive, InCall, Waiting, IpcLabels
<1> QED BY <1>1, <1>2, <1>3 DEF IpcInv, ListedWait, Unlisted, Waiting

(* The section of a call that blocks                                       *)
LEMMA BlockSection ==
  ASSUME IpcInv, NEW t \in Thread, Running(t), k.lock = 0, t # Idle,
         pc[t] \in {"app", "waited"},
         Goto(t, "wait"), isr' = isr, arg' = arg, crit' = crit,
         NEW w \in WaitList, Suspends(k, k', t, w)
  PROVE  IpcInv'
<1> USE DEF Suspends
<1>1. /\ IInv /\ pc \in [Thread -> PC] /\ k \in KernelRecord
      /\ k.cur = t /\ k.stat[t] \in {"ready", "suspend"} /\ ~Targeted(t)
  BY IpcFacts, CallerReady
<1>2. k'.stat[t] = "suspend" /\ \A u \in Thread \ {t} : k'.stat[u] = k.stat[u]
  BY <1>1 DEF Update, KernelRecord
<1>3. ChangesOnly(t)
  BY <1>1, <1>2, IdleFacts DEF ChangesOnly
<1>4. OrdinaryMove
  BY <1>1, GotoMove DEF InWindow, Resuming, Deleting, PC
<1>5. IInv'
  BY <1>1, <1>3, <1>4, OrdinaryStep DEF SwitchesToReady, IInv, TypeOK
<1>6. \A u \in Thread : pc'[u] = IF u = t THEN "wait" ELSE pc[u]
  BY <1>1 DEF Goto
<1>7. \A u \in Thread : Targeted(u)' => Targeted(u)
  BY <1>6 DEF Targeted, Target, Resuming, Deleting
<1>8. CallersAlive'
  BY <1>1, <1>2, <1>6, <1>7 DEF IpcInv, CallersAlive, InCall
<1>9. WaitsUnlocked'
  BY <1>1 DEF WaitsUnlocked
<1>10. RunnerReady'
  BY <1>1, <1>6 DEF RunnerReady, Unscheduled
<1>11. ListedWait'
  <2> SUFFICES ASSUME NEW v \in WaitList, NEW u \in Elements(k'.list[v])
               PROVE  Waiting(u)' /\ k'.stat[u] = "suspend"
    BY DEF ListedWait
  <2>1. u = t \/ u \in Elements(k.list[v])
    OBVIOUS
  <2>2. CASE u = t
    BY <1>2, <1>6, <2>2 DEF Waiting
  <2>3. CASE u # t
    <3>1. Waiting(u) /\ k.stat[u] = "suspend" /\ u \in Thread
      BY <2>1, <2>3, IpcFacts DEF IpcInv, ListedWait
    <3> QED BY <1>2, <1>6, <2>3, <3>1 DEF Waiting
  <2> QED BY <2>2, <2>3
<1> QED BY <1>5, <1>8, <1>9, <1>10, <1>11 DEF IpcInv

(* A step that leaves the kernel alone                                     *)
LEMMA IpcStutter ==
  ASSUME IpcInv, UNCHANGED vars PROVE IpcInv'
<1>1. k' = k /\ isr' = isr /\ pc' = pc /\ arg' = arg /\ crit' = crit
  BY DEF vars
<1>2. IInv /\ ChangesOnly(Idle) /\ SwitchesToReady /\ OrdinaryMove
  BY <1>1, IdleFacts, IpcFacts, Untouched, StayMove DEF SwitchesToReady
<1>3. IInv'
  BY <1>1, <1>2, IdleFacts, OrdinaryStep DEF IInv, TypeOK
<1>4. /\ CallersAlive' <=> CallersAlive
      /\ WaitsUnlocked' <=> WaitsUnlocked
      /\ RunnerReady' <=> RunnerReady
      /\ ListedWait' <=> ListedWait
  BY <1>1 DEF CallersAlive, WaitsUnlocked, RunnerReady, Unlisted, ListedWait, Waiting, InCall,
              Targeted, Target
<1> QED BY <1>3, <1>4 DEF IpcInv

(* The section of a call that suspends its thread, to link it later        *)
LEMMA SuspendSection ==
  ASSUME IpcInv, NEW t \in Thread, Running(t), k.lock = 0, t # Idle, pc[t] = "waited",
         pc' = pc, isr' = isr, arg' = arg, crit' = crit, k' = Suspend(k, t)
  PROVE  /\ IpcInv' /\ SameWaits(k, k')
         /\ k'.stat = Update(k.stat, t, "suspend")
<1>1. /\ IInv /\ pc \in [Thread -> PC] /\ k \in KernelRecord /\ Consistent(k)
      /\ k.cur = t /\ k.stat[t] \in {"ready", "suspend"} /\ ~Targeted(t) /\ Unlisted(t)
  BY IpcFacts, CallerReady DEF Unlisted
<1>2. /\ k' \in KernelRecord /\ Consistent(k') /\ k'.stat = Update(k.stat, t, "suspend")
      /\ k'.prio = k.prio /\ k'.timer = Disarm(k.timer, t)
      /\ k'.cur = k.cur /\ k'.lock = k.lock
      /\ SameLinks(k, k', t) /\ Nowhere(k'.list, t)
  BY <1>1, SuspendFacts
<1>3. SameWaits(k, k')
  <2>1. TakesFrom(k, k', t)
    BY <1>1, SuspendTakes
  <2> QED BY <1>1, <2>1, WithoutOther DEF TakesFrom, SameWaits, Unlisted
<1>4. k'.stat[t] = "suspend" /\ \A u \in Thread \ {t} : k'.stat[u] = k.stat[u]
  BY <1>1, <1>2 DEF Update, KernelRecord
<1>5. t \notin Elements(k'.list[Defunct])
  BY <1>2 DEF Nowhere, Queue
<1>6. ChangesOnly(t)
  <2>1. \A v \in Thread \ {t} : k'.timer[v] = k.timer[v]
    BY <1>1, <1>2 DEF Disarm, KernelRecord
  <2> QED BY <1>1, <1>2, <1>4, <1>5, <2>1, IdleFacts DEF ChangesOnly
<1>7. OrdinaryMove
  BY <1>1, StayMove
<1>8. IInv'
  BY <1>1, <1>2, <1>6, <1>7, OrdinaryStep DEF SwitchesToReady, IInv, TypeOK
<1>9. CallersAlive'
  BY <1>1, <1>4 DEF IpcInv, CallersAlive, InCall, Targeted, Target
<1>10. WaitsUnlocked'
  BY <1>2 DEF WaitsUnlocked
<1>11. RunnerReady'
  <2>1. Waiting(t)' /\ Unlisted(t)'
    BY <1>1, <1>3 DEF Waiting, Unlisted, SameWaits
  <2> QED BY <1>1, <1>2, <2>1 DEF RunnerReady
<1>12. ListedWait'
  <2> SUFFICES ASSUME NEW v \in WaitList, NEW u \in Elements(k'.list[v])
               PROVE  Waiting(u)' /\ k'.stat[u] = "suspend"
    BY DEF ListedWait
  <2>1. u \in Elements(k.list[v]) /\ u # t
    BY <1>1, <1>3 DEF SameWaits, Unlisted
  <2>2. Waiting(u) /\ k.stat[u] = "suspend" /\ u \in Thread
    BY <2>1, IpcFacts DEF IpcInv, ListedWait
  <2> QED BY <1>4, <2>1, <2>2 DEF Waiting
<1> QED BY <1>2, <1>3, <1>8, <1>9, <1>10, <1>11, <1>12 DEF IpcInv

-----------------------------------------------------------------------------
(* Wait lists in order of urgency, where one thread, the owner of a mutex, *)
(* may be more urgent than its place says.                                 *)

(* The threads of s are in order of urgency, but for the thread o.         *)
SortedBut(prio, s, o) ==
  \A i, j \in DOMAIN s : i < j /\ s[i] # o /\ s[j] # o => prio[s[i]] <= prio[s[j]]

(* They stay so when one of them leaves,                                   *)
LEMMA WithoutSorted ==
  ASSUME NEW T, NEW s \in Seq(T), NoRepeat(s), NEW prio, NEW o, SortedBut(prio, s, o), NEW t
  PROVE  SortedBut(prio, Without(s, t), o)
<1> DEFINE r == Without(s, t)
<1> SUFFICES ASSUME NEW i \in DOMAIN r, NEW j \in DOMAIN r, i < j, r[i] # o, r[j] # o
             PROVE  prio[r[i]] <= prio[r[j]]
  BY DEF SortedBut
<1> HIDE DEF r
<1>1. \E x, y \in DOMAIN s : x < y /\ s[x] = r[i] /\ s[y] = r[j]
  BY WithoutOrder DEF r
<1> QED BY <1>1 DEF SortedBut

(* and when one comes, less urgent than o if o is in the list.             *)
LEMMA InsertSorted ==
  ASSUME NEW kd \in KernelRecord, NEW s \in Seq(Thread), NEW t \in Thread,
         NEW o, SortedBut(kd.prio, s, o), o \in Thread => kd.prio[o] <= kd.prio[t]
  PROVE  SortedBut(kd.prio, InsertInOrder(kd, s, t), o)
<1> DEFINE p == kd.prio[t]
           at == Place(kd, s, p)
           r == InsertInOrder(kd, s, t)
<1>1. p \in Prio /\ p \in Nat /\ Len(s) \in Nat /\ DOMAIN s = 1 .. Len(s)
  BY LenProperties, KernelAssumption DEF KernelRecord, Prio
<1>2. r = InsertAt(s, at, t)
  BY DEF InsertInOrder, InsertAt
<1>3. /\ at \in 1 .. Len(s) + 1
      /\ \A i \in DOMAIN s : i < at => kd.prio[s[i]] <= p
      /\ at \in DOMAIN s => p < kd.prio[s[at]]
  BY <1>1, PlaceFacts
<1>4. \A x \in DOMAIN s : kd.prio[s[x]] \in Nat /\ s[x] \in Thread
  BY ElementOfSeq, <1>1, KernelAssumption DEF KernelRecord, Prio
<1> HIDE DEF at, p, r
<1>5. /\ r \in Seq(Thread) /\ r[at] = t /\ at \in DOMAIN r
      /\ \A i \in DOMAIN r : i < at => i \in DOMAIN s /\ r[i] = s[i]
      /\ \A i \in DOMAIN r : i > at => i - 1 \in DOMAIN s /\ r[i] = s[i - 1]
  BY <1>2, <1>3, InsertAtFacts
<1>6. DOMAIN r \subseteq Nat /\ at \in Nat /\ DOMAIN s \subseteq Nat
  BY <1>1, <1>3, <1>5, LenProperties
<1> SUFFICES ASSUME NEW i \in DOMAIN r, NEW j \in DOMAIN r, i < j, r[i] # o, r[j] # o
             PROVE  kd.prio[r[i]] <= kd.prio[r[j]]
  BY DEF SortedBut, r
<1>7. CASE i < at /\ j < at
  BY <1>5, <1>7 DEF SortedBut
<1>8. CASE i < at /\ j = at
  BY <1>3, <1>5, <1>8 DEF p
<1>9. CASE i < at /\ j > at
  <2>1. i \in DOMAIN s /\ j - 1 \in DOMAIN s /\ i < j - 1 /\ r[i] = s[i] /\ r[j] = s[j - 1]
    BY <1>5, <1>6, <1>9
  <2> QED BY <2>1 DEF SortedBut
<1>10. CASE i >= at /\ j > at
  <2>1. j - 1 \in DOMAIN s /\ r[j] = s[j - 1] /\ at <= j - 1 /\ at \in DOMAIN s
    BY <1>1, <1>3, <1>5, <1>6, <1>10
  <2>2. p <= kd.prio[s[at]] /\ s[at] # o
    <3>1. p < kd.prio[s[at]] /\ ~(kd.prio[s[at]] <= p)
      BY <1>1, <1>3, <1>4, <2>1
    <3>2. s[at] \in Thread
      BY <1>4, <2>1
    <3> QED BY <1>1, <1>4, <2>1, <3>1, <3>2 DEF p
  <2>3. kd.prio[s[at]] <= kd.prio[s[j - 1]]
    <3>1. CASE at = j - 1
      BY <1>4, <2>1, <3>1
    <3>2. CASE at < j - 1
      BY <2>1, <2>2, <3>2 DEF SortedBut
    <3> QED BY <1>6, <2>1, <3>1, <3>2
  <2>4. CASE i = at
    BY <1>1, <1>4, <1>5, <2>1, <2>2, <2>3, <2>4 DEF p
  <2>5. CASE i > at
    <3>1. i - 1 \in DOMAIN s /\ i - 1 < j - 1 /\ r[i] = s[i - 1]
      BY <1>5, <1>6, <2>5
    <3> QED BY <2>1, <3>1 DEF SortedBut
  <2> QED BY <1>6, <1>10, <2>4, <2>5
<1> QED BY <1>6, <1>7, <1>8, <1>9, <1>10

(* A list that is sorted but for the owner's place stays so when only the  *)
(* priority of the owner changes.                                          *)
LEMMA SortedBoosted ==
  ASSUME NEW s \in Seq(Thread), NEW prio, NEW new, NEW o, SortedBut(prio, s, o),
         \A x \in Thread \ {o} : new[x] = prio[x]
  PROVE  SortedBut(new, s, o)
<1>1. \A i \in DOMAIN s : s[i] \in Thread
  BY ElementOfSeq
<1> QED BY <1>1 DEF SortedBut

(* rt_ipc_list_suspend of a thread that is no more urgent than o           *)
LEMMA SuspendJoins ==
  ASSUME NEW kd \in KernelRecord, Consistent(kd), NEW w \in WaitList, NEW t \in Thread,
         kd.stat[t] \in {"ready", "suspend"}, \A v \in WaitList : t \notin Elements(kd.list[v]),
         NEW f, NEW x, x = IpcSuspend(kd, w, t, f), NEW r, r = x \/ r = StartTimer(x, t)
  PROVE  /\ r.prio = kd.prio /\ r.stat = Update(kd.stat, t, "suspend")
         /\ Elements(r.list[w]) = Elements(kd.list[w]) \cup {t}
         /\ r.list[w] = Enqueued(kd, kd.list[w], t, f)
<1>1. /\ x \in KernelRecord /\ x.stat = Update(kd.stat, t, "suspend") /\ SameData(kd, x)
      /\ x.list[w] = Enqueued(kd, kd.list[w], t, f)
      /\ Elements(x.list[w]) = Elements(kd.list[w]) \cup {t}
      /\ x.timer = Disarm(kd.timer, t)
  BY IpcSuspendFacts
<1>2. r.prio = x.prio /\ r.stat = x.stat /\ r.list = x.list
  BY <1>1 DEF StartTimer, KernelRecord
<1> QED BY <1>1, <1>2 DEF SameData

(* and behind every thread at least as urgent if it is sorted              *)
LEMMA EnqueuedSorted ==
  ASSUME NEW kd \in KernelRecord, NEW w \in WaitList, NEW t \in Thread, NEW f, f = "PRIO",
         NEW o \in Thread, kd.prio[o] <= kd.prio[t], SortedBut(kd.prio, kd.list[w], o)
  PROVE  SortedBut(kd.prio, Enqueued(kd, kd.list[w], t, f), o)
<1>1. kd.list[w] \in Seq(Thread)
  BY WaitQueue DEF KernelRecord, QueueLists
<1>2. SortedBut(kd.prio, InsertInOrder(kd, kd.list[w], t), o)
  BY <1>1, InsertSorted
<1>3. f # "FIFO"
  OBVIOUS
<1> QED BY <1>2, <1>3 DEF Enqueued

-----------------------------------------------------------------------------
(* What the functions of the kernel do to the priorities, and to the error *)
(* that a signal leaves.                                                   *)

Fields(k0) == {"prio", "error"} \subseteq DOMAIN k0 /\ DOMAIN k0.error = Thread
Spares(k0, k1) ==
  /\ Fields(k1) /\ k1.prio = k0.prio
  /\ \A t \in Thread : k1.error[t] = "EINTR" => k0.error[t] = "EINTR"

LEMMA SparesTwice ==
  ASSUME NEW k0, NEW k1, NEW k2, Spares(k0, k1), Spares(k1, k2)
  PROVE  Spares(k0, k2)
BY DEF Spares

LEMMA Spared ==
  ASSUME NEW k0, Fields(k0), NEW t
  PROVE  /\ Spares(k0, k0) /\ Spares(k0, Schedule(k0)) /\ Spares(k0, InsertThread(k0, t))
         /\ Spares(k0, RemoveThread(k0, t)) /\ Spares(k0, Rotate(k0, t))
         /\ Spares(k0, EnterCritical(k0)) /\ Spares(k0, LeaveCritical(k0))
         /\ Spares(k0, StartTimer(k0, t)) /\ Spares(k0, StopTimer(k0, t))
         /\ Spares(k0, Close(k0, t)) /\ Spares(k0, [k0 EXCEPT !.stat[t] = "close"])
         /\ Spares(k0, [k0 EXCEPT !.list = Unlink(@, t)])
         /\ \A e : e # "EINTR" => Spares(k0, SetError(k0, t, e))
         /\ Spares(k0, [k0 EXCEPT !.stat[t] = "suspend"])
         /\ Spares(k0, [k0 EXCEPT !.asserted = TRUE])
         /\ Spares(k0, [k0 EXCEPT !.slice[t] = InitTick]) /\ Spares(k0, [k0 EXCEPT !.slice[t] = @ - 1])
<1> USE DEF Spares, Fields
<1>1. /\ Spares(k0, k0) /\ Spares(k0, Schedule(k0)) /\ Spares(k0, InsertThread(k0, t))
      /\ Spares(k0, RemoveThread(k0, t)) /\ Spares(k0, Rotate(k0, t))
  BY DEF Schedule, InsertThread, RemoveThread, Rotate
<1>2. /\ Spares(k0, EnterCritical(k0)) /\ Spares(k0, LeaveCritical(k0))
      /\ Spares(k0, StartTimer(k0, t)) /\ Spares(k0, StopTimer(k0, t))
      /\ Spares(k0, Close(k0, t)) /\ Spares(k0, [k0 EXCEPT !.stat[t] = "close"])
  BY DEF EnterCritical, LeaveCritical, StartTimer, StopTimer, Close
<1>3. /\ Spares(k0, [k0 EXCEPT !.list = Unlink(@, t)])
      /\ \A e : e # "EINTR" => Spares(k0, SetError(k0, t, e))
      /\ Spares(k0, [k0 EXCEPT !.stat[t] = "suspend"])
      /\ Spares(k0, [k0 EXCEPT !.asserted = TRUE])
      /\ Spares(k0, [k0 EXCEPT !.slice[t] = InitTick]) /\ Spares(k0, [k0 EXCEPT !.slice[t] = @ - 1])
  BY DEF SetError
<1> QED BY <1>1, <1>2, <1>3

LEMMA SparedByCalls ==
  ASSUME NEW k0, Fields(k0), NEW t, NEW w, NEW f
  PROVE  /\ Spares(k0, MakeReady(k0, t)) /\ Spares(k0, Resume(k0, t))
         /\ Spares(k0, Timeout(k0, t)) /\ Spares(k0, TimeSlice(k0))
         /\ Spares(k0, Suspend(k0, t)) /\ Spares(k0, IpcSuspend(k0, w, t, f))
         /\ Spares(k0, IpcResume(k0, w)) /\ Spares(k0, DrainOne(k0, w))
<1>1. \A k1 : Spares(k0, k1) => Fields(k1)
  BY DEF Spares
<1>2. ASSUME NEW k1, Fields(k1), NEW u PROVE Spares(k1, MakeReady(k1, u)) /\ Spares(k1, Resume(k1, u))
  <2> DEFINE m == [k1 EXCEPT !.list = Unlink(@, u)]
  <2>0. Spares(k1, m) /\ Spares(k1, k1)
    BY <1>2, Spared
  <2> HIDE DEF m
  <2>1. Spares(k1, m) /\ Fields(m) /\ Spares(k1, k1)
    BY <2>0 DEF Spares
  <2>2. Spares(m, InsertThread(m, u))
    BY <2>1, Spared
  <2>3. Spares(k1, MakeReady(k1, u))
    BY <2>1, <2>2, SparesTwice DEF MakeReady, m
  <2> QED BY <2>1, <2>3 DEF Resume
<1>3. Spares(k0, Timeout(k0, t))
  <2> DEFINE k1 == MakeReady(k0, t)
             k2 == [k1 EXCEPT !.asserted = @ \/ k0.stat[t] # "suspend",
                              !.error[t] = "ETIMEOUT",
                              !.timer[t] = FALSE]
  <2>1. Spares(k0, k1) /\ Fields(k1)
    BY <1>1, <1>2
  <2> HIDE DEF k1
  <2>2. Spares(k1, k2)
    BY <2>1 DEF Spares, Fields
  <2>3. Spares(k0, k2) /\ Fields(k2)
    BY <2>1, <2>2, SparesTwice, <1>1
  <2> HIDE DEF k2
  <2>4. Spares(k2, Schedule(k2))
    BY <2>3, Spared
  <2> QED BY <2>3, <2>4, SparesTwice DEF Timeout, k2, k1
<1>4. Spares(k0, TimeSlice(k0))
  <2> DEFINE k1 == [k0 EXCEPT !.slice[k0.cur] = InitTick]
             k2 == Rotate(k1, k0.cur)
  <2>1. Spares(k0, k1) /\ Fields(k1) /\ Spares(k0, [k0 EXCEPT !.slice[k0.cur] = @ - 1])
    BY Spared, <1>1
  <2> HIDE DEF k1
  <2>2. Spares(k1, k2)
    BY <2>1, Spared
  <2>3. Spares(k0, k2) /\ Fields(k2)
    BY <2>1, <2>2, SparesTwice, <1>1
  <2> HIDE DEF k2
  <2>4. Spares(k2, Schedule(k2))
    BY <2>3, Spared
  <2>5. Spares(k0, Schedule(k2))
    BY <2>3, <2>4, SparesTwice
  <2> QED BY <2>1, <2>5 DEF TimeSlice, k2, k1
<1>5. Spares(k0, Suspend(k0, t))
  <2> DEFINE k1 == [k0 EXCEPT !.stat[t] = "suspend"]
             k2 == RemoveThread(k1, t)
  <2>1. Spares(k0, k1) /\ Fields(k1)
    BY Spared, <1>1
  <2> HIDE DEF k1
  <2>2. Spares(k1, k2)
    BY <2>1, Spared
  <2>3. Spares(k0, k2) /\ Fields(k2)
    BY <2>1, <2>2, SparesTwice, <1>1
  <2> HIDE DEF k2
  <2>4. Spares(k2, StopTimer(k2, t))
    BY <2>3, Spared
  <2> QED BY <2>3, <2>4, SparesTwice DEF Suspend, k2, k1
<1>6. Spares(k0, IpcSuspend(k0, w, t, f))
  <2> DEFINE k1 == Suspend(k0, t)
             s == IF f = "FIFO" THEN Append(k1.list[w], t) ELSE InsertInOrder(k0, k1.list[w], t)
  <2>1. Fields(k1)
    BY <1>1, <1>5
  <2>2. IpcSuspend(k0, w, t, f) = [k1 EXCEPT !.list[w] = s]
    BY DEF IpcSuspend
  <2> HIDE DEF k1, s
  <2>3. Spares(k1, [k1 EXCEPT !.list[w] = s])
    BY <2>1 DEF Spares, Fields
  <2> QED BY <1>5, <2>2, <2>3, SparesTwice DEF k1
<1>7. Spares(k0, IpcResume(k0, w))
  BY <1>2 DEF IpcResume
<1>8. Spares(k0, DrainOne(k0, w))
  <2> DEFINE k1 == SetError(k0, Head(k0.list[w]), "ERROR")
  <2>1. Spares(k0, k1) /\ Fields(k1)
    BY Spared, <1>1
  <2> HIDE DEF k1
  <2>2. Spares(k1, IpcResume(k1, w))
    BY <2>1, <1>2 DEF IpcResume
  <2>3. Spares(k0, IpcResume(k1, w))
    BY <2>1, <2>2, SparesTwice
  <2> QED BY <2>3, Spared DEF DrainOne, k1
<1> QED BY <1>2, <1>3, <1>4, <1>5, <1>6, <1>7, <1>8

(* A step of the kernel changes the priority of a thread that is started.  *)
LEMMA KernelSpares ==
  ASSUME Fields(k), Ops \cap {"create", "priority"} = {},
         Start \/ Interrupt \/ \E t \in Thread : Application(t) \/ InKernel(t)
  PROVE  \/ Spares(k, k')
         \/ \E u \in Thread : /\ k.stat[u] = "init" /\ k'.error = k.error
                              /\ k'.prio = [k.prio EXCEPT ![u] = InitPrio[u]]
<1> DEFINE Goal == \/ Spares(k, k')
                   \/ \E u \in Thread : /\ k.stat[u] = "init" /\ k'.error = k.error
                                        /\ k'.prio = [k.prio EXCEPT ![u] = InitPrio[u]]
<1>1. \A k1 : Spares(k, k1) => Fields(k1)
  BY DEF Spares
<1>2. /\ Spares(k, k) /\ Spares(k, Schedule(k)) /\ Spares(k, TimeSlice(k))
      /\ \A u : /\ Spares(k, RemoveThread(k, u)) /\ Spares(k, InsertThread(k, u))
                /\ Spares(k, StopTimer(k, u)) /\ Spares(k, Close(k, u))
                /\ Spares(k, [k EXCEPT !.stat[u] = "close"])
                /\ Spares(k, [k EXCEPT !.list = Unlink(@, u)])
                /\ Spares(k, Timeout(k, u)) /\ Spares(k, Suspend(k, u)) /\ Spares(k, Resume(k, u))
                /\ Spares(k, Rotate(k, u))
      /\ Spares(k, EnterCritical(k)) /\ Spares(k, LeaveCritical(k))
  BY Spared, SparedByCalls
<1>3. CASE Start
  BY <1>2, <1>3 DEF Start
<1>4. CASE Interrupt
  <2>1. CASE ClockEnter \/ ClockLeave
    BY <1>2, <2>1 DEF ClockEnter, ClockLeave
  <2>2. ASSUME NEW u \in Thread, Expire(u) PROVE Spares(k, k')
    BY <1>2, <2>2 DEF Expire
  <2>3. ASSUME NEW u \in Thread, DeviceResume(u) PROVE Spares(k, k')
    <3> DEFINE m == Resume(k, u)
    <3>1. Spares(k, m) /\ Fields(m) /\ k' = Schedule(m)
      BY <1>1, <1>2, <2>3 DEF DeviceResume
    <3> HIDE DEF m
    <3>2. Spares(m, Schedule(m))
      BY <3>1, Spared
    <3> QED BY <3>1, <3>2, SparesTwice
  <2> QED BY <1>4, <2>1, <2>2, <2>3 DEF Interrupt
<1>5. ASSUME NEW t \in Thread, SleepThread(t) PROVE Spares(k, k')
  <2> DEFINE m == Suspend(k, t)
  <2>1. Spares(k, m) /\ Fields(m) /\ k' = StartTimer(m, t)
    BY <1>1, <1>2, <1>5 DEF SleepThread
  <2> HIDE DEF m
  <2>2. Spares(m, StartTimer(m, t))
    BY <2>1, Spared
  <2> QED BY <2>1, <2>2, SparesTwice
<1>6. ASSUME NEW t \in Thread, NEW u \in Thread, StartupThread(t, u) PROVE Goal
  <2>1. k' = PrepareStartup(k, u) /\ k.stat[u] = "init"
    BY <1>6 DEF StartupThread
  <2>2. k'.prio = [k.prio EXCEPT ![u] = InitPrio[u]] /\ k'.error = k.error
    BY <2>1 DEF PrepareStartup, Fields
  <2> QED BY <2>1, <2>2
<1>7. ASSUME NEW t \in Thread, ExitThread(t) PROVE Spares(k, k')
  <2> DEFINE k1 == RemoveThread(k, t)
             k2 == StopTimer(k1, t)
  <2>1. Spares(k, k1) /\ Fields(k1)
    BY <1>1, <1>2
  <2> HIDE DEF k1
  <2>2. Spares(k1, k2)
    BY <2>1, Spared
  <2>3. Spares(k, k2) /\ Fields(k2)
    BY <1>1, <2>1, <2>2, SparesTwice
  <2> HIDE DEF k2
  <2>4. Spares(k2, Close(k2, t)) /\ Spares(k2, [k2 EXCEPT !.stat[t] = "close"])
    BY <2>3, Spared
  <2>5. k' = Close(k2, t) \/ k' = [k2 EXCEPT !.stat[t] = "close"]
    BY <1>7 DEF ExitThread, k2, k1
  <2> QED BY <2>3, <2>4, <2>5, SparesTwice
<1>8. ASSUME NEW t \in Thread, NEW u \in Thread,
             DeleteThread(t, u) \/ ResumeThread(t, u) \/ SuspendThread(t, u)
      PROVE  Spares(k, k')
  <2>1. k' = k \/ k' = RemoveThread(k, u) \/ k' = Suspend(k, u)
    BY <1>8 DEF ResumeThread, DeleteThread, SuspendThread
  <2> QED BY <1>2, <2>1
<1>9. ASSUME NEW t \in Thread, YieldThread(t) \/ Enter(t) \/ Leave(t) \/ FindThread(t)
      PROVE  Spares(k, k')
  BY <1>2, <1>9 DEF YieldThread, Enter, Leave, FindThread
<1>10. ASSUME NEW t \in Thread, InKernel(t) PROVE Spares(k, k')
  <2>1. CASE ResumeUnlink(t) \/ ResumeInsert(t) \/ DeleteTimer(t) \/ DeleteClose(t) \/ Reschedule(t)
    <3>1. \/ k' = [k EXCEPT !.list = Unlink(@, arg[t])] \/ k' = InsertThread(k, arg[t])
          \/ k' = StopTimer(k, arg[t]) \/ k' = [k EXCEPT !.stat[arg[t]] = "close"]
          \/ k' = Close(k, arg[t]) \/ k' = Schedule(k)
      BY <2>1 DEF ResumeUnlink, ResumeInsert, DeleteTimer, DeleteClose, Reschedule
    <3> QED BY <1>2, <3>1
  <2>2. CASE SleepReturn(t)
    BY <2>2 DEF SleepReturn, Spares, Fields
  <2> QED BY <1>10, <2>1, <2>2 DEF InKernel
<1>11. \A t : ~\E u \in Thread : CreateThread(t, u) \/ \E p \in Prio : ChangeThreadPriority(t, u, p)
  BY DEF CreateThread, ChangeThreadPriority, Call
<1>12. ASSUME NEW t \in Thread, Application(t) PROVE Goal
  BY <1>5, <1>6, <1>7, <1>8, <1>9, <1>11, <1>12 DEF Application
<1> QED BY <1>3, <1>4, <1>10, <1>12

(* At first every thread has its own priority, and rt_thread_startup keeps  *)
(* it so.                                                                  *)
Fresh(kd) ==
  /\ Fields(kd) /\ DOMAIN kd.prio = Thread
  /\ \A t \in Thread : kd.prio[t] = InitPrio[t] /\ kd.error[t] # "EINTR"

LEMMA StartupFresh ==
  ASSUME NEW kd, Fresh(kd), NEW u \in Thread
  PROVE  Fresh(Startup(kd, u))
<1>1. PICK m : m = PrepareStartup(kd, u)
  OBVIOUS
<1>2. m.prio = [kd.prio EXCEPT ![u] = InitPrio[u]] /\ m.error = kd.error /\ Fields(m)
  BY <1>1 DEF PrepareStartup, Fresh, Fields
<1>3. Fresh(m)
  BY <1>2 DEF Fresh
<1>4. Spares(m, Startup(kd, u))
  BY <1>1, <1>2, SparedByCalls DEF Startup
<1> QED BY <1>3, <1>4 DEF Fresh, Spares

=============================================================================
