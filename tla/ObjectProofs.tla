---------------------------- MODULE ObjectProofs -----------------------------
(***************************************************************************)
(* The safety of the objects of module IpcObjects, for any number of       *)
(* threads, priorities, messages and blocks.                               *)
(***************************************************************************)
EXTENDS IpcObjects, SchedulerProofs, FiniteSetTheorems

-----------------------------------------------------------------------------
(* A pool of things, in a sequence with each of them once.                 *)

LEMMA EachOnce ==
  ASSUME NEW T, IsFiniteSet(T),
         NEW s, s = CHOOSE f \in [1 .. Cardinality(T) -> T] : Elements(f) = T
  PROVE  s \in Seq(T) /\ NoRepeat(s) /\ Elements(s) = T /\ Len(s) = Cardinality(T)
<1> DEFINE n == Cardinality(T)
           D == 1 .. n
<1>1. n \in Nat /\ ExistsBijection(D, T)
  BY FS_CardinalityType
<1>2. IsFiniteSet(D) /\ Cardinality(D) = n
  <2>1. 1 \in Int /\ n \in Int
    BY <1>1
  <2>2. IsFiniteSet(1 .. n) /\ Cardinality(1 .. n) = IF 1 > n THEN 0 ELSE n - 1 + 1
    BY ONLY <2>1, FS_Interval
  <2> QED BY <1>1, <2>2
<1>3. \E f \in [D -> T] : Elements(f) = T
  <2>1. PICK f \in Bijection(D, T) : TRUE
    BY <1>1 DEF ExistsBijection
  <2>2. f \in [D -> T] /\ \A t \in T : \E i \in D : f[i] = t
    BY <2>1 DEF Bijection, Surjection
  <2>3. Elements(f) = T
    BY <2>2 DEF Elements
  <2> QED BY <2>2, <2>3
<1>4. s \in [D -> T] /\ Elements(s) = T
  BY <1>3
<1>5. s \in Surjection(D, T)
  BY <1>4 DEF Surjection, Elements
<1>6. s \in Injection(D, T)
  <2> HIDE DEF D, n
  <2>1. Cardinality(D) = Cardinality(T)
    BY <1>2 DEF n
  <2> QED BY <1>2, <1>5, <2>1, FS_SurjSameCardinalityImpliesInj
<1>7. s \in Seq(T) /\ Len(s) = n /\ DOMAIN s = D
  <2>1. s \in [1 .. n -> T] /\ n \in Nat
    BY <1>1, <1>4
  <2> HIDE DEF n
  <2>2. s \in Seq(T) /\ Len(s) = n /\ DOMAIN s = 1 .. n
    BY ONLY <2>1
  <2> QED BY <2>2
<1>8. NoRepeat(s)
  BY <1>6, <1>7 DEF Injection, IsInjective, NoRepeat
<1> QED BY <1>4, <1>7, <1>8

-----------------------------------------------------------------------------
(* Memory pools.                                                           *)

(* The blocks that are not applications' are linked once.                  *)
PoolInv ==
  /\ block_list \in Seq(PoolBlock) /\ NoRepeat(block_list)
  /\ out \in SUBSET PoolBlock
  /\ BlocksConserved

LEMMA PoolResetInv ==
  ASSUME NEW list, NEW free, NEW waiting, NEW used, PoolReset(list, free, waiting, used)
  PROVE  /\ list \in Seq(PoolBlock) /\ NoRepeat(list) /\ Elements(list) = PoolBlock
         /\ Len(list) = Cardinality(PoolBlock) /\ free = Len(list) /\ used = {}
<1>1. IsFiniteSet(PoolBlock)
  BY MemPoolAssumption
<1>2. /\ list = CHOOSE s \in [1 .. Cardinality(PoolBlock) -> PoolBlock] : Elements(s) = PoolBlock
      /\ free = Cardinality(PoolBlock) /\ used = {}
  BY DEF PoolReset
<1> QED BY <1>1, <1>2, EachOnce

LEMMA PoolInvStart ==
  ASSUME MemPoolInit PROVE PoolInv
<1>1. PoolReset(block_list, block_free_count, suspend_thread_count, out)
  BY DEF MemPoolInit
<1>2. /\ block_list \in Seq(PoolBlock) /\ NoRepeat(block_list)
      /\ Elements(block_list) = PoolBlock /\ out = {}
      /\ Len(block_list) = Cardinality(PoolBlock) /\ block_free_count = Len(block_list)
  BY <1>1, PoolResetInv
<1>3. PoolBlock \ out = PoolBlock
  BY <1>2
<1> QED BY <1>2, <1>3 DEF PoolInv, BlocksConserved

LEMMA PoolInvFresh ==
  ASSUME PoolReset(block_list', block_free_count', suspend_thread_count', out')
  PROVE  PoolInv'
<1>2. /\ block_list' \in Seq(PoolBlock) /\ NoRepeat(block_list)'
      /\ Elements(block_list)' = PoolBlock /\ out' = {}
      /\ Len(block_list') = Cardinality(PoolBlock) /\ block_free_count' = Len(block_list')
  BY PoolResetInv
<1>3. PoolBlock \ out' = PoolBlock
  BY <1>2
<1> QED BY <1>2, <1>3 DEF PoolInv, BlocksConserved

(* rt_mp_alloc takes the first block of the list                           *)
LEMMA PoolInvGet ==
  ASSUME PoolInv, block_free_count # 0, GetBlock PROVE PoolInv'
<1> DEFINE h == Head(block_list)
<1>1. /\ block_list \in Seq(PoolBlock) /\ NoRepeat(block_list) /\ out \in SUBSET PoolBlock
      /\ Elements(block_list) = PoolBlock \ out /\ block_free_count = Len(block_list)
      /\ Len(block_list) = Cardinality(PoolBlock \ out)
  BY DEF PoolInv, BlocksConserved
<1>2. /\ block_free_count' = block_free_count - 1 /\ block_list' = Tail(block_list)
      /\ out' = out \cup {h}
  BY DEF GetBlock
<1>3. block_list # << >>
  BY <1>1
<1>4. /\ h \in Elements(block_list) /\ Tail(block_list) \in Seq(PoolBlock)
      /\ NoRepeat(Tail(block_list)) /\ Elements(Tail(block_list)) = Elements(block_list) \ {h}
  BY <1>1, <1>3, WithoutHead
<1>5. PoolBlock \ out' = (PoolBlock \ out) \ {h} /\ h \in PoolBlock \ out
  BY <1>1, <1>2, <1>4
<1>6. IsFiniteSet(PoolBlock \ out)
  BY FS_Subset, MemPoolAssumption
<1>7. Cardinality(PoolBlock \ out') = Cardinality(PoolBlock \ out) - 1
  BY <1>5, <1>6, FS_RemoveElement
<1>8. Len(Tail(block_list)) = Len(block_list) - 1
  BY <1>1, <1>3
<1>9. BlocksConserved'
  BY <1>1, <1>2, <1>4, <1>5, <1>7, <1>8 DEF BlocksConserved
<1> QED BY <1>1, <1>2, <1>4, <1>5, <1>9 DEF PoolInv

(* and rt_mp_free puts one back at the front.                              *)
LEMMA PoolInvPut ==
  ASSUME PoolInv, NEW b \in out, PutBlock(b) PROVE PoolInv'
<1>1. /\ block_list \in Seq(PoolBlock) /\ NoRepeat(block_list) /\ out \in SUBSET PoolBlock
      /\ Elements(block_list) = PoolBlock \ out /\ block_free_count = Len(block_list)
      /\ Len(block_list) = Cardinality(PoolBlock \ out)
  BY DEF PoolInv, BlocksConserved
<1>2. /\ block_free_count' = block_free_count + 1 /\ block_list' = <<b>> \o block_list
      /\ out' = out \ {b}
  BY DEF PutBlock
<1>3. b \in PoolBlock /\ b \notin Elements(block_list)
  BY <1>1
<1>4. /\ <<b>> \o block_list \in Seq(PoolBlock) /\ NoRepeat(<<b>> \o block_list)
      /\ Elements(<<b>> \o block_list) = Elements(block_list) \cup {b}
  BY <1>1, <1>3, ConsFacts
<1>5. PoolBlock \ out' = (PoolBlock \ out) \cup {b} /\ b \notin PoolBlock \ out
  BY <1>1, <1>2, <1>3
<1>6. IsFiniteSet(PoolBlock \ out)
  BY FS_Subset, MemPoolAssumption
<1>7. Cardinality(PoolBlock \ out') = Cardinality(PoolBlock \ out) + 1
  BY <1>5, <1>6, FS_AddElement
<1>8. Len(<<b>> \o block_list) = Len(block_list) + 1
  BY <1>1
<1>9. BlocksConserved'
  BY <1>1, <1>2, <1>4, <1>5, <1>7, <1>8 DEF BlocksConserved
<1> QED BY <1>1, <1>2, <1>4, <1>5, <1>9 DEF PoolInv

LEMMA PoolInvKept ==
  ASSUME PoolInv, UNCHANGED blocks PROVE PoolInv'
<1>1. UNCHANGED <<block_list, block_free_count, out>>
  BY DEF blocks
<1> QED BY <1>1 DEF PoolInv, BlocksConserved

LEMMA PoolInvStep ==
  ASSUME PoolInv, MemPoolNext PROVE PoolInv'
<1>1. CASE Next /\ UNCHANGED <<objVars, poolVars>>
  BY <1>1, PoolInvKept DEF poolVars, blocks
<1>2. CASE PoolAllocIsr
  BY <1>2, PoolInvGet DEF PoolAllocIsr
<1>3. CASE \E b \in out : PoolFreeIsr(b) \/ \E t \in Thread : PoolFree(t, b)
  <2>1. \E b \in out : PutBlock(b)
    BY <1>3 DEF PoolFreeIsr, PoolFree
  <2> QED BY <2>1, PoolInvPut
<1>4. ASSUME NEW t \in Thread, \E time \in Time : PoolAlloc(t, time) PROVE PoolInv'
  <2>1. \/ block_free_count # 0 /\ GetBlock
        \/ UNCHANGED blocks
    BY <1>4 DEF PoolAlloc, PoolWait, poolVars, blocks
  <2> QED BY <2>1, PoolInvGet, PoolInvKept
<1>5. ASSUME NEW t \in Thread, PoolAllocAgain(t) PROVE PoolInv'
  <2>1. \/ block_free_count # 0 /\ GetBlock
        \/ UNCHANGED blocks
    BY <1>5 DEF PoolAllocAgain, PoolWait, poolVars, blocks
  <2> QED BY <2>1, PoolInvGet, PoolInvKept
<1>6. ASSUME NEW t \in Thread,
             \/ WaitFails(t) /\ UNCHANGED poolVars
             \/ PoolDetach(t) \/ PoolDrainResume(t)
             \/ DrainTest(t) /\ UNCHANGED poolVars
      PROVE  PoolInv'
  <2>1. UNCHANGED blocks
    BY <1>6 DEF PoolDetach, PoolDrainResume, poolVars, blocks
  <2> QED BY <2>1, PoolInvKept
<1>7. ASSUME NEW t \in Thread, PoolCreate(t) PROVE PoolInv'
  BY <1>7, PoolInvFresh DEF PoolCreate
<1>8. CASE Halt /\ UNCHANGED poolVars
  BY <1>8, PoolInvKept DEF poolVars, blocks
<1> QED BY <1>1, <1>2, <1>3, <1>4, <1>5, <1>6, <1>7, <1>8 DEF MemPoolNext, MemPoolStep

(* No block of a memory pool is lost or handed out twice, by rt_mp_alloc   *)
(* and rt_mp_free from threads and interrupts in any order, and the count  *)
(* that the functions test agrees with the list.                           *)
THEOREM BlocksStayConserved ==
  IpcObjectsSpec => []BlocksConserved
<1>1. IpcObjectsInit => PoolInv
  BY PoolInvStart DEF IpcObjectsInit
<1>2. PoolInv /\ [IpcObjectsNext]_<<vars, objVars, objects>> => PoolInv'
  <2>1. PoolInv /\ UNCHANGED poolVars => PoolInv'
    BY PoolInvKept DEF poolVars, blocks
  <2>2. UNCHANGED <<vars, objVars, objects>> => UNCHANGED poolVars
    BY DEF objects
  <2>3. IpcObjectsNext => MemPoolNext \/ UNCHANGED poolVars
    BY DEF IpcObjectsNext
  <2> QED BY <2>1, <2>2, <2>3, PoolInvStep
<1>3. PoolInv => BlocksConserved
  BY DEF PoolInv
<1> QED BY <1>1, <1>2, <1>3, PTL DEF IpcObjectsSpec

-----------------------------------------------------------------------------
(* Threads that wait for an object of any kind.                            *)

(* The steps of calls that module IpcObject leaves to the objects          *)
StepName ==
  {"none", "copy", "copy_urgent", "link", "link_urgent", "free", "put", "count", "wake"}
    \cup WaitList

ObjTypes ==
  /\ object \in {"event", "mailbox", "queue", "pool"}
  /\ flag \in IpcFlag /\ alive \in BOOLEAN
  /\ wait \in [Thread -> Time] /\ step \in [Thread -> StepName]

(* A sender of a mailbox that has suspended itself, and is to be linked    *)
Linking(t) == object = "mailbox" /\ pc[t] = "waited" /\ step[t] = "link"

(* The step of a thread says something while it is in a call.              *)
StepsInCalls ==
  \A t \in Thread :
    /\ InCall(t) => t # Idle
    /\ pc[t] \notin {"waited", "drain2"} => step[t] = "none"
    /\ pc[t] = "drain2" => step[t] \in Elements(Lists)

(* A thread that is somewhere in its call sleeps only if it waits in a     *)
(* list, or is about to.                                                   *)
AwakeInCalls ==
  \A t \in Thread :
    pc[t] = "waited" /\ step[t] # "none" /\ ~Linking(t) => k.stat[t] = "ready"

(* All wait lists hold what WaitersListed says of those of the object.     *)
Dozing(t) == Waiting(t) /\ step[t] = "none"
Listed(t) == \E i \in DOMAIN Lists : t \in Elements(k.list[Lists[i]])
ListedDoze == \A t \in Thread : Listed(t) <=> Dozing(t) /\ k.stat[t] = "suspend"

ObjInv == IpcInv /\ ObjTypes /\ StepsInCalls /\ AwakeInCalls /\ ListedDoze

LEMMA ListedDozeIsWaitersListed == ListedDoze <=> WaitersListed
BY DEF ListedDoze, WaitersListed, Dozing, Listed, Waiting

LEMMA ObjListsFacts ==
  /\ \A i \in DOMAIN Lists : Lists[i] \in WaitList /\ Lists[i] \in Elements(Lists)
  /\ Elements(Lists) \subseteq WaitList
  /\ Lists \in Seq(WaitList)
BY ObjectAssumption DEF Elements

LEMMA ObjFacts ==
  ASSUME ObjInv
  PROVE  /\ IpcInv /\ k \in KernelRecord /\ Consistent(k) /\ pc \in [Thread -> PC]
         /\ Idle \in Thread /\ ~InCall(Idle) /\ ~Dozing(Idle)
         /\ \A w \in WaitList : AllSuspended(k, w)
         /\ \A w \in WaitList : k.list[w] \in Seq(Thread) /\ Elements(k.list[w]) \subseteq Thread
<1>1. /\ IpcInv /\ k \in KernelRecord /\ Consistent(k) /\ pc \in [Thread -> PC]
      /\ Idle \in Thread
  BY IpcFacts DEF ObjInv
<1>2. ~InCall(Idle) /\ ~Dozing(Idle)
  BY <1>1 DEF ObjInv, StepsInCalls, Dozing, InCall, Waiting, IpcLabels
<1>3. \A w \in WaitList : AllSuspended(k, w)
  BY <1>1, IpcFacts DEF IpcInv, ListedWait, AllSuspended
<1>4. \A w \in WaitList : k.list[w] \in Seq(Thread) /\ Elements(k.list[w]) \subseteq Thread
  BY <1>1, WaitQueue, IpcFacts DEF KernelRecord, QueueLists
<1> QED BY <1>1, <1>2, <1>3, <1>4

(* A section that wakes the threads U, and whose thread t is in no list,   *)
(* leaves the sleeping threads listed.                                     *)
LEMMA WakingKeepsListed ==
  ASSUME ObjInv, NEW U, U \subseteq Thread, NEW r, Wakes(k, r, U),
         k'.list = r.list, k'.stat = r.stat,
         NEW t \in Thread, Unlisted(t), Dozing(t)' => k.stat[t] = "ready",
         \A u \in Thread \ {t} : Dozing(u)' <=> Dozing(u)
  PROVE  ListedDoze'
<1>1. k \in KernelRecord
  BY ObjFacts
<1>2. ASSUME NEW i \in DOMAIN Lists
      PROVE  Elements(k'.list[Lists[i]]) = Elements(k.list[Lists[i]]) \ U
  <2>1. Lists[i] \in WaitList
    BY ObjListsFacts
  <2>2. Elements(r.list[Lists[i]]) = Elements(k.list[Lists[i]]) \ U
    BY ONLY <1>1, <2>1, U \subseteq Thread, Wakes(k, r, U), WakesTakes
  <2> QED BY <2>2
<1>3. \A u \in Thread : Listed(u)' <=> Listed(u) /\ u \notin U
  BY <1>2 DEF Listed
<1>4. \A u \in Thread : k'.stat[u] = IF u \in U THEN "ready" ELSE k.stat[u]
  BY DEF Wakes
<1>5. t \notin U /\ ~Listed(t)
  BY ObjListsFacts DEF Wakes, Unlisted, Listed
<1>6. \A u \in Thread : Listed(u) <=> Dozing(u) /\ k.stat[u] = "suspend"
  BY DEF ObjInv, ListedDoze
<1>7. ASSUME NEW u \in Thread PROVE Listed(u)' <=> Dozing(u)' /\ k'.stat[u] = "suspend"
  <2>1. CASE u = t
    BY <1>3, <1>4, <1>5, <2>1
  <2>2. CASE u # t
    BY <1>3, <1>4, <1>6, <2>2
  <2> QED BY <2>1, <2>2
<1> QED BY <1>7 DEF ListedDoze

(* The thread that goes on in its call is ready, and in no list.           *)
LEMMA CallerUnlisted ==
  ASSUME ObjInv, NEW t \in Thread, Running(t),
         pc[t] \in {"app", "waited", "drain1", "drain2"}, ~Linking(t)
  PROVE  /\ Unlisted(t)
         /\ pc[t] = "waited" => k.lock = 0
         /\ k.lock = 0 => k.stat[t] = "ready"
<1>1. IpcInv /\ k.cur = t
  BY ObjFacts DEF Running
<1>2. pc[t] = "waited" => k.lock = 0
  BY <1>1 DEF IpcInv, WaitsUnlocked, Waiting
<1>3. CASE pc[t] # "waited"
  <2>1. Unlisted(t)
    BY <1>1, <1>3 DEF IpcInv, ListedWait, Unlisted, Waiting
  <2>2. k.lock = 0 => k.stat[t] = "ready"
    BY <1>1, <1>3, CallerReady
  <2> QED BY <1>3, <2>1, <2>2
<1>4. CASE pc[t] = "waited"
  <2>1. k.stat[t] \in {"ready", "suspend"} /\ Unlisted(t)
    BY <1>1, <1>2, <1>4, CallerReady DEF Unlisted
  <2>2. k.stat[t] = "ready"
    <3>1. CASE step[t] # "none"
      BY <1>4, <3>1 DEF ObjInv, AwakeInCalls
    <3>2. CASE step[t] = "none"
      <4>1. ~Listed(t) /\ Dozing(t)
        BY <1>4, <2>1, <3>2, ObjListsFacts DEF Unlisted, Listed, Dozing, Waiting
      <4> QED BY <2>1, <4>1 DEF ObjInv, ListedDoze
    <3> QED BY <3>1, <3>2
  <2> QED BY <1>2, <2>1, <2>2
<1> QED BY <1>3, <1>4

(* A section of a call that does not block: the calls go on in order, and  *)
(* nobody sleeps unlisted.                                                 *)
LEMMA ObjSection ==
  ASSUME ObjInv, NEW t \in Thread, Running(t), t # Idle,
         pc[t] \in {"app", "waited", "drain1", "drain2"}, ~Linking(t),
         NEW label \in CallLabel, label = "waited" => k.lock = 0, Goto(t, label),
         isr' = isr, arg' = arg, crit' = crit, object' = object, ObjTypes',
         \A u \in Thread \ {t} : step'[u] = step[u],
         label \notin {"waited", "drain2"} => step'[t] = "none",
         label = "waited" => step'[t] # "none",
         label = "drain2" => step'[t] \in Elements(Lists),
         NEW U, U \subseteq Thread, Wakes(k, k', U)
  PROVE  ObjInv'
<1>1. /\ IpcInv /\ k \in KernelRecord /\ pc \in [Thread -> PC]
      /\ \A u \in Thread : pc'[u] = IF u = t THEN label ELSE pc[u]
  BY ObjFacts DEF Goto
<1>2. /\ Unlisted(t)
      /\ pc[t] = "waited" => k.lock = 0
      /\ k.lock = 0 => k.stat[t] = "ready"
  BY CallerUnlisted
<1>3. IpcInv'
  <2>1. /\ IpcInv /\ Running(t) /\ pc[t] \in {"app", "waited", "drain1", "drain2"}
        /\ (label = "waited" => k.lock = 0) /\ Goto(t, label)
        /\ isr' = isr /\ arg' = arg /\ crit' = crit /\ U \subseteq Thread /\ Wakes(k, k', U)
    BY <1>1
  <2>2. pc[t] = "waited" => label = "waited" \/ k.stat[t] = "ready"
    BY <1>2
  <2> QED BY ONLY <2>1, <2>2, t \in Thread, label \in CallLabel, CallSection
<1>4. \A u \in Thread \ {t} : /\ Dozing(u)' <=> Dozing(u)
                              /\ InCall(u)' <=> InCall(u)
                              /\ Linking(u)' <=> Linking(u)
  BY <1>1 DEF Dozing, Waiting, InCall, Linking
<1>5. ~Dozing(t)'
  BY <1>1 DEF Dozing, Waiting, CallLabel
<1>6. ListedDoze'
  <2>1. /\ ObjInv /\ U \subseteq Thread /\ Wakes(k, k', U) /\ t \in Thread /\ Unlisted(t)
        /\ Dozing(t)' => k.stat[t] = "ready"
        /\ \A u \in Thread \ {t} : Dozing(u)' <=> Dozing(u)
    BY <1>2, <1>4, <1>5
  <2> QED BY ONLY <2>1, WakingKeepsListed
<1>7. StepsInCalls'
  BY <1>1, <1>4 DEF ObjInv, StepsInCalls, InCall
<1>8. AwakeInCalls'
  <2> SUFFICES ASSUME NEW u \in Thread, pc'[u] = "waited", step'[u] # "none", ~Linking(u)'
               PROVE  k'.stat[u] = "ready"
    BY DEF AwakeInCalls
  <2>1. k'.stat[u] = "ready" \/ k'.stat[u] = k.stat[u]
    BY DEF Wakes
  <2>2. CASE u = t
    BY <1>1, <1>2, <2>1, <2>2
  <2>3. CASE u # t
    BY <1>1, <1>4, <2>1, <2>3 DEF ObjInv, AwakeInCalls
  <2> QED BY <2>2, <2>3
<1> QED BY <1>3, <1>6, <1>7, <1>8 DEF ObjInv

(* A section of an interrupt                                               *)
LEMMA ObjInterrupt ==
  ASSUME ObjInv, isr = "none", k.cur # NoThread,
         pc' = pc, isr' = isr, arg' = arg, crit' = crit,
         UNCHANGED objVars, object' = object,
         NEW U, U \subseteq Thread, NEW r, Wakes(k, r, U),
         k' = r \/ k' = Schedule(r)
  PROVE  ObjInv'
<1>1. IpcInv /\ flag' = flag /\ alive' = alive /\ wait' = wait /\ step' = step
  BY ObjFacts DEF objVars
<1>2. IpcInv' /\ k'.list = r.list /\ k'.stat = r.stat
  BY <1>1, InterruptSection
<1>3. \A u \in Thread : /\ Dozing(u)' <=> Dozing(u)
                        /\ InCall(u)' <=> InCall(u)
                        /\ Linking(u)' <=> Linking(u)
  BY <1>1 DEF Dozing, Waiting, InCall, Linking
<1>4. ListedDoze'
  <2>1. Idle \in Thread /\ ~Dozing(Idle) /\ Unlisted(Idle)
    BY ObjFacts DEF IpcInv, ListedWait, Unlisted, InCall, Waiting, IpcLabels
  <2> QED BY <1>2, <1>3, <2>1, WakingKeepsListed
<1>5. StepsInCalls' /\ ObjTypes'
  BY <1>1, <1>3 DEF ObjInv, StepsInCalls, InCall, ObjTypes
<1>6. AwakeInCalls'
  <2>1. \A u \in Thread : k'.stat[u] = "ready" \/ k'.stat[u] = k.stat[u]
    BY <1>2 DEF Wakes
  <2> QED BY <1>1, <1>3, <2>1 DEF ObjInv, AwakeInCalls
<1> QED BY <1>2, <1>4, <1>5, <1>6 DEF ObjInv

(* The section of a call that blocks                                       *)
LEMMA ObjBlock ==
  ASSUME ObjInv, NEW t \in Thread, Running(t), k.lock = 0, t # Idle,
         pc[t] \in {"app", "waited"}, Goto(t, "wait"),
         isr' = isr, arg' = arg, crit' = crit, object' = object, ObjTypes',
         \A u \in Thread \ {t} : step'[u] = step[u], step'[t] = "none",
         NEW i \in DOMAIN Lists, Suspends(k, k', t, Lists[i])
  PROVE  ObjInv'
<1>1. /\ IpcInv /\ k \in KernelRecord /\ pc \in [Thread -> PC]
      /\ \A u \in Thread : pc'[u] = IF u = t THEN "wait" ELSE pc[u]
  BY ObjFacts DEF Goto
<1>2. Lists[i] \in WaitList /\ \A j \in DOMAIN Lists : Lists[j] \in WaitList
  BY ObjListsFacts
<1>3. IpcInv'
  BY <1>1, <1>2, BlockSection
<1>4. \A u \in Thread \ {t} : /\ Dozing(u)' <=> Dozing(u)
                              /\ InCall(u)' <=> InCall(u)
                              /\ Linking(u)' <=> Linking(u)
                              /\ k'.stat[u] = k.stat[u]
  BY <1>1 DEF Dozing, Waiting, InCall, Linking, Suspends, Update, KernelRecord
<1>5. Dozing(t)' /\ k'.stat[t] = "suspend"
  BY <1>1 DEF Dozing, Waiting, Suspends, Update, KernelRecord
<1>6. ListedDoze'
  <2>1. /\ Elements(k'.list[Lists[i]]) = Elements(k.list[Lists[i]]) \cup {t}
        /\ \A v \in WaitList \ {Lists[i]} : k'.list[v] = k.list[v]
    BY DEF Suspends
  <2>2. \A u \in Thread \ {t} : Listed(u)' <=> Listed(u)
    BY <1>2, <2>1 DEF Listed
  <2>3. Listed(t)'
    BY <2>1 DEF Listed
  <2> QED BY <1>4, <1>5, <2>2, <2>3 DEF ObjInv, ListedDoze
<1>7. StepsInCalls'
  BY <1>1, <1>4 DEF ObjInv, StepsInCalls, InCall
<1>8. AwakeInCalls'
  BY <1>1, <1>4 DEF ObjInv, AwakeInCalls
<1> QED BY <1>3, <1>6, <1>7, <1>8 DEF ObjInv

(* A step that changes nothing of the object and of the kernel             *)
LEMMA ObjStutter ==
  ASSUME ObjInv, UNCHANGED vars, UNCHANGED objVars, object' = object PROVE ObjInv'
<1>1. /\ k' = k /\ pc' = pc /\ flag' = flag /\ alive' = alive /\ wait' = wait /\ step' = step
  BY DEF vars, objVars
<1>2. IpcInv'
  BY IpcStutter DEF ObjInv
<1>3. ObjTypes' /\ StepsInCalls' /\ AwakeInCalls' /\ ListedDoze'
  BY <1>1 DEF ObjInv, ObjTypes, StepsInCalls, AwakeInCalls, ListedDoze, Dozing, Listed,
              Linking, Waiting, InCall
<1> QED BY <1>2, <1>3 DEF ObjInv

(* A step of the scheduler                                                 *)
LEMMA ObjNext ==
  ASSUME ObjInv, Ops \cap Meddling = {}, Next, UNCHANGED objVars, object' = object
  PROVE  ObjInv'
<1>1. /\ flag' = flag /\ alive' = alive /\ wait' = wait /\ step' = step
  BY DEF objVars
<1>2. IpcInv /\ k \in KernelRecord /\ Consistent(k)
  BY ObjFacts
<1>3. IpcInv' /\ Moves
  BY <1>2, NextIpc
<1>4. \A t \in Thread : /\ Waiting(t)' <=> Waiting(t)
                        /\ Dozing(t)' <=> Dozing(t)
                        /\ InCall(t)' <=> InCall(t)
                        /\ pc'[t] = "waited" => Waiting(t)
                        /\ pc'[t] = "drain2" <=> pc[t] = "drain2"
                        /\ pc'[t] = "waited" /\ step[t] # "none" => pc[t] = "waited"
                        /\ pc[t] = "waited" => pc'[t] = "waited"
  BY <1>1, <1>3 DEF Moves, LabelsKept, Dozing, Waiting, InCall, IpcLabels, ObjInv, StepsInCalls
<1>5. PICK u \in Thread \cup {NoThread} : WaitsKept(u)
  BY <1>3 DEF Moves
<1>6. \A t \in Thread : InCall(t) =>
        k'.stat[t] = IF t = u THEN "ready" ELSE k.stat[t]
  BY <1>5 DEF WaitsKept
<1>7. ASSUME NEW i \in DOMAIN Lists
      PROVE  Elements(k'.list[Lists[i]]) = Elements(k.list[Lists[i]]) \ {u}
  <2>1. Lists[i] \in WaitList
    BY ObjListsFacts
  <2>2. k'.list[Lists[i]] = Without(k.list[Lists[i]], u)
    BY <1>5, <2>1 DEF WaitsKept, TakesFrom
  <2>3. Elements(Without(k.list[Lists[i]], u)) = Elements(k.list[Lists[i]]) \ {u}
    BY <1>2, <2>1, WaitTakes, ZenonT(60)
  <2> QED BY <2>2, <2>3
<1>8. ListedDoze'
  <2>1. \A t \in Thread : Listed(t)' <=> Listed(t) /\ t # u
    BY <1>7 DEF Listed
  <2>2. ASSUME NEW t \in Thread PROVE Listed(t)' <=> Dozing(t)' /\ k'.stat[t] = "suspend"
    <3>1. Listed(t) <=> Dozing(t) /\ k.stat[t] = "suspend"
      BY DEF ObjInv, ListedDoze
    <3>2. Dozing(t) => InCall(t)
      BY DEF Dozing, InCall, Waiting, IpcLabels
    <3> QED BY <1>4, <1>6, <2>1, <3>1, <3>2
  <2> QED BY <2>2 DEF ListedDoze
<1>9. StepsInCalls' /\ ObjTypes'
  BY <1>1, <1>4 DEF ObjInv, StepsInCalls, ObjTypes
<1>10. AwakeInCalls'
  <2> SUFFICES ASSUME NEW t \in Thread, pc'[t] = "waited", step[t] # "none", ~Linking(t)'
               PROVE  k'.stat[t] = "ready"
    BY <1>1 DEF AwakeInCalls
  <2>1. pc[t] = "waited" /\ InCall(t) /\ ~Linking(t)
    BY <1>1, <1>4 DEF InCall, IpcLabels, Linking
  <2>2. k.stat[t] = "ready"
    BY <2>1 DEF ObjInv, AwakeInCalls
  <2> QED BY <1>6, <2>1, <2>2
<1> QED BY <1>3, <1>8, <1>9, <1>10 DEF ObjInv

(* The initial state                                                       *)
LEMMA ObjStarts ==
  ASSUME IpcObjectsInit PROVE ObjInv
<1>1. /\ Init /\ flag \in Flags /\ alive = TRUE /\ object \in Objects
      /\ wait = [t \in Thread |-> "none"] /\ step = [t \in Thread |-> "none"]
  BY DEF IpcObjectsInit, ObjStart
<1>2. IpcInv /\ pc = [t \in Thread |-> "app"]
  BY <1>1, IpcStart DEF Init
<1>3. ObjTypes
  BY <1>1, ObjectAssumption, IpcObjectsAssumption DEF ObjTypes, Time, StepName
<1>4. StepsInCalls /\ AwakeInCalls /\ \A t \in Thread : ~Waiting(t)
  BY <1>1, <1>2 DEF StepsInCalls, AwakeInCalls, InCall, IpcLabels, Waiting
<1>5. ListedDoze
  BY <1>2, <1>4, ObjListsFacts DEF ListedDoze, Dozing, Listed, IpcInv, ListedWait
<1> QED BY <1>2, <1>3, <1>4, <1>5 DEF ObjInv

-----------------------------------------------------------------------------
(* What the sections of calls do to the kernel.                            *)

(* Some threads of wait lists are woken.                                   *)
Rouses(r) == \E U \in SUBSET Thread : Wakes(k, r, U)

LEMMA KeepRouses ==
  ASSUME ObjInv PROVE Rouses(k)
BY ObjFacts, WakesNobody DEF Rouses

LEMMA ErrorRouses ==
  ASSUME ObjInv, NEW t \in Thread, NEW e \in Error PROVE Rouses(SetError(k, t, e))
<1>1. k \in KernelRecord /\ Consistent(k)
  BY ObjFacts
<1> QED BY <1>1, SetErrorWakes DEF Rouses

LEMMA AssertRouses ==
  ASSUME ObjInv, NEW r, r = [k EXCEPT !.asserted = TRUE] PROVE Rouses(r)
<1>1. k \in KernelRecord /\ Consistent(k)
  BY ObjFacts
<1>2. /\ r \in KernelRecord
      /\ r.list = k.list /\ r.stat = k.stat /\ r.prio = k.prio /\ r.mask = k.mask
      /\ r.group = k.group /\ r.timer = k.timer /\ r.cur = k.cur /\ r.lock = k.lock
  BY <1>1 DEF KernelRecord
<1>3. Consistent(r)
  BY <1>1, <1>2, SameConsistent
<1>4. Wakes(k, r, {})
  BY <1>2, <1>3 DEF Wakes
<1> QED BY <1>4 DEF Rouses

(* rt_ipc_list_resume of a list that has a thread                          *)
LEMMA ResumeRouses ==
  ASSUME ObjInv, NEW w \in WaitList, k.list[w] # << >>
  PROVE  Rouses(IpcResume(k, w))
<1>1. k \in KernelRecord /\ Consistent(k) /\ AllSuspended(k, w)
  BY ObjFacts
<1>2. Wakes(k, IpcResume(k, w), {Head(k.list[w])}) /\ Head(k.list[w]) \in Thread
  BY <1>1, ResumeWakes, FirstWaiter
<1> QED BY <1>2 DEF Rouses

LEMMA WakeRouses ==
  ASSUME ObjInv, NEW w \in WaitList
  PROVE  Rouses(WakeFirst(k, w)) /\ \E r : Rouses(r) /\ (WakeIsr(w) = r \/ WakeIsr(w) = Schedule(r))
BY ResumeRouses, KeepRouses DEF WakeFirst, WakeIsr

(* Threads that are still in a wait list after such a section sleep.       *)
LEMMA RousedSuspended ==
  ASSUME ObjInv, NEW x, Rouses(x), NEW w \in WaitList
  PROVE  x \in KernelRecord /\ Consistent(x) /\ AllSuspended(x, w)
<1>1. PICK U \in SUBSET Thread : Wakes(k, x, U)
  BY DEF Rouses
<1>2. k \in KernelRecord /\ AllSuspended(k, w) /\ U \subseteq Thread
      /\ Elements(k.list[w]) \subseteq Thread
  BY ObjFacts
<1>3. Elements(x.list[w]) = Elements(k.list[w]) \ U
  BY ONLY <1>1, <1>2, w \in WaitList, WakesTakes
<1>4. AllSuspended(x, w)
  BY <1>1, <1>2, <1>3 DEF AllSuspended, Wakes
<1> QED BY <1>1, <1>4 DEF Wakes

(* One section after another                                               *)
LEMMA RousesMore ==
  ASSUME ObjInv, NEW x, Rouses(x), NEW V \in SUBSET Thread, NEW r, Wakes(x, r, V)
  PROVE  Rouses(r)
<1>1. PICK U \in SUBSET Thread : Wakes(k, x, U)
  BY DEF Rouses
<1>2. k \in KernelRecord /\ U \subseteq Thread /\ V \subseteq Thread /\ Wakes(x, r, V)
  BY ObjFacts
<1>3. Wakes(k, r, U \cup V)
  BY ONLY <1>1, <1>2, WakesTrans
<1>4. U \cup V \in SUBSET Thread
  BY <1>2
<1> QED BY <1>3, <1>4 DEF Rouses

(* Some threads of wait lists are woken with an error.                     *)
Drains(r) ==
  \E U \in SUBSET Thread :
    /\ Wakes(k, r, U)
    /\ \A t \in Thread : r.error[t] = IF t \in U THEN "ERROR" ELSE k.error[t]

LEMMA DrainsRouses == ASSUME NEW r, Drains(r) PROVE Rouses(r)
BY DEF Drains, Rouses

(* rt_ipc_list_resume_all with interrupts off, after another one           *)
LEMMA DrainAllDrains ==
  ASSUME ObjInv, NEW x, Drains(x), NEW w \in WaitList
  PROVE  Drains(DrainAll(x, w))
<1> DEFINE r == DrainAll(x, w)
           D == Elements(x.list[w])
<1>1. x \in KernelRecord /\ Consistent(x) /\ AllSuspended(x, w)
  BY RousedSuspended, DrainsRouses
<1>2. Drained(x, r, w, D)
  BY <1>1, DrainAllFacts
<1>3. D \in SUBSET Thread
  <2>1. x.list[w] \in Seq(Thread)
    BY <1>1, WaitQueue DEF KernelRecord, QueueLists
  <2> QED BY <2>1, EmptyElements
<1> HIDE DEF r
<1>4. Wakes(x, r, D)
  BY <1>1, <1>2, DrainWakes
<1> HIDE DEF D
<1>5. \A t \in Thread : r.error[t] = IF t \in D THEN "ERROR" ELSE x.error[t]
  BY <1>2 DEF Drained, r
<1>6. PICK U \in SUBSET Thread :
        /\ Wakes(k, x, U)
        /\ \A t \in Thread : x.error[t] = IF t \in U THEN "ERROR" ELSE k.error[t]
  BY DEF Drains
<1>7. Wakes(k, r, U \cup D)
  <2>1. k \in KernelRecord /\ U \subseteq Thread /\ D \subseteq Thread
    BY <1>3, ObjFacts
  <2> QED BY ONLY <1>4, <1>6, <2>1, WakesTrans
<1>8. \A t \in Thread : r.error[t] = IF t \in U \cup D THEN "ERROR" ELSE k.error[t]
  BY <1>5, <1>6
<1>9. U \cup D \in SUBSET Thread
  BY <1>3
<1> QED BY <1>7, <1>8, <1>9 DEF Drains, r

(* and of all the lists of an object, which are empty then                 *)
LEMMA DrainListsDrains ==
  ASSUME ObjInv
  PROVE  /\ Drains(DrainLists(k))
         /\ \A i \in DOMAIN Lists : DrainLists(k).list[Lists[i]] = << >>
<1> DEFINE N == Len(Lists)
           S == {x \in KernelRecord : Drains(x)}
           Turns(f) == [n \in 0 .. N |-> IF n = 0 THEN k ELSE DrainAll(f[n - 1], Lists[n])]
           done == CHOOSE f : f = Turns(f)
           K == [n \in 0 .. N |-> S]
           L == [n \in 0 .. N |-> {x \in S : \A i \in 1 .. n : x.list[Lists[i]] = << >>}]
           G == [p \in (1 .. N) \X S |-> DrainAll(p[2], Lists[p[1]])]
<1>1. N \in Nat /\ \A n \in 1 .. N : Lists[n] \in WaitList
  BY ObjListsFacts, ObjectAssumption
<1>2. ASSUME NEW x \in S, NEW n \in 1 .. N PROVE DrainAll(x, Lists[n]) \in S
  <2>1. Drains(x) /\ Lists[n] \in WaitList
    BY <1>1
  <2>2. Drains(DrainAll(x, Lists[n]))
    BY <2>1, DrainAllDrains
  <2>3. DrainAll(x, Lists[n]) \in KernelRecord
    BY <2>2 DEF Drains, Wakes
  <2> QED BY <2>2, <2>3
<1>3. k \in S
  BY ObjFacts, WakesNobody DEF Drains
<1>4. \E f : Recursive(f, N, k, G)
  <2>1. k \in K[0]
    BY <1>1, <1>3
  <2>2. \A n \in 1 .. N : \A y \in K[n - 1] : G[<<n, y>>] \in K[n]
    BY <1>1, <1>2
  <2> HIDE DEF K, G, N
  <2> QED BY ONLY <1>1, <2>1, <2>2, FiniteRecursion
<1>5. \E f : f = Turns(f)
  <2>1. PICK f : f = [n \in 0 .. N |-> IF n = 0 THEN k ELSE G[<<n, f[n - 1]>>]]
    BY <1>4 DEF Recursive
  <2>2. f[0] \in K[0]
    BY <1>1, <1>3, <2>1
  <2>3. \A n \in 1 .. N : f[n - 1] \in K[n - 1] => f[n] \in K[n]
    <3> SUFFICES ASSUME NEW n \in 1 .. N, f[n - 1] \in K[n - 1] PROVE f[n] \in K[n]
      OBVIOUS
    <3>1. f[n - 1] \in S /\ n \in 0 .. N /\ n # 0
      BY <1>1
    <3>2. f[n] = G[<<n, f[n - 1]>>]
      BY <2>1, <3>1
    <3> QED BY <1>2, <3>1, <3>2
  <2>4. \A n \in 0 .. N : f[n] \in K[n]
    <3> HIDE DEF K, N
    <3> QED BY ONLY <1>1, <2>2, <2>3, FiniteRecursionStays
  <2>5. \A n \in 0 .. N : f[n] \in S
    BY <2>4
  <2>6. ASSUME NEW n \in 0 .. N
        PROVE  f[n] = IF n = 0 THEN k ELSE DrainAll(f[n - 1], Lists[n])
    <3>1. CASE n = 0
      BY <2>1, <3>1
    <3>2. CASE n # 0
      <4>1. n \in 1 .. N /\ n - 1 \in 0 .. N /\ f[n - 1] \in S
        BY <1>1, <2>5, <3>2
      <4> QED BY <2>1, <3>2, <4>1
    <3> QED BY <3>1, <3>2
  <2>7. f = Turns(f)
    BY <2>1, <2>6
  <2> QED BY <2>7
<1>6. done = Turns(done)
  BY <1>5
<1>7. DrainLists(k) = done[N]
  BY DEF DrainLists
<1> HIDE DEF done
<1>8. done[0] = k /\ \A n \in 1 .. N : done[n] = DrainAll(done[n - 1], Lists[n])
  BY <1>1, <1>6
<1>9. ASSUME NEW n \in 1 .. N, NEW x \in L[n - 1] PROVE DrainAll(x, Lists[n]) \in L[n]
  <2>1. n \in 0 .. N /\ n - 1 \in 0 .. N /\ x \in S /\ Drains(x)
        /\ \A i \in 1 .. n - 1 : x.list[Lists[i]] = << >>
    BY <1>1
  <2>2. x \in KernelRecord /\ Consistent(x) /\ AllSuspended(x, Lists[n]) /\ Lists[n] \in WaitList
    BY <1>1, <2>1, RousedSuspended, DrainsRouses
  <2> DEFINE r == DrainAll(x, Lists[n])
  <2>3. r \in S
    BY <1>2, <2>1
  <2>4. r.list[Lists[n]] = << >> /\ \A v \in WaitList \ {Lists[n]} : r.list[v] = x.list[v]
    BY <2>2, DrainAllFacts DEF Drained
  <2> HIDE DEF r, S
  <2>5. ASSUME NEW i \in 1 .. n PROVE r.list[Lists[i]] = << >>
    <3>1. CASE i = n
      BY <2>4, <3>1
    <3>2. CASE i # n
      <4>1. i \in 1 .. n - 1 /\ i \in 1 .. N /\ Lists[i] \in WaitList
        BY <1>1, <3>2
      <4> QED BY <2>1, <2>4, <4>1
    <3> QED BY <3>1, <3>2
  <2>6. r \in {y \in S : \A i \in 1 .. n : y.list[Lists[i]] = << >>}
    BY <2>3, <2>5
  <2> QED BY <2>1, <2>6 DEF r
<1>10. \A n \in 0 .. N : done[n] \in L[n]
  <2>1. done[0] \in L[0]
    BY <1>1, <1>3, <1>8
  <2>2. ASSUME NEW n \in 1 .. N, done[n - 1] \in L[n - 1] PROVE done[n] \in L[n]
    <3> HIDE DEF L, N
    <3>1. DrainAll(done[n - 1], Lists[n]) \in L[n]
      BY ONLY n \in 1 .. N, <1>9, <2>2
    <3> QED BY <1>8, <3>1
  <2> HIDE DEF L, N
  <2> QED BY ONLY <1>1, <2>1, <2>2, FiniteRecursionStays
<1>11. done[N] \in S /\ \A i \in 1 .. N : done[N].list[Lists[i]] = << >>
  BY <1>1, <1>10
<1>12. DOMAIN Lists = 1 .. N
  BY ObjListsFacts
<1> QED BY <1>7, <1>11, <1>12

-----------------------------------------------------------------------------
(* The sections of the calls on objects.                                   *)

(* A caller at a place of its call where it may go on                      *)
CallerAt(t) ==
  /\ Running(t) /\ pc[t] \in {"app", "waited", "drain1", "drain2"}
  /\ t # Idle /\ ~Linking(t)

LEMMA RunningInCall ==
  ASSUME ObjInv, NEW t \in Thread, Running(t), pc[t] \in {"waited", "drain1", "drain2"},
         ~Linking(t)
  PROVE  CallerAt(t) /\ (pc[t] = "waited" => k.lock = 0)
<1>1. t # Idle
  BY DEF ObjInv, StepsInCalls, InCall, IpcLabels
<1>2. CallerAt(t)
  BY <1>1 DEF CallerAt
<1> QED BY <1>2, CallerUnlisted

(* It leaves the call, or goes on to rt_schedule or the next list.         *)
LEMMA ObjLeaves ==
  ASSUME ObjInv, NEW t \in Thread, CallerAt(t),
         NEW label \in {"app", "sched", "drain1"}, Goto(t, label),
         step' = [step EXCEPT ![t] = "none"], wait' \in [Thread -> Time],
         UNCHANGED <<isr, arg, crit, object>>, flag' \in IpcFlag, alive' \in BOOLEAN,
         Rouses(k')
  PROVE  ObjInv'
<1>1. step \in [Thread -> StepName] /\ object \in {"event", "mailbox", "queue", "pool"}
  BY DEF ObjInv, ObjTypes
<1>2. step' \in [Thread -> StepName] /\ step'[t] = "none"
      /\ \A u \in Thread \ {t} : step'[u] = step[u]
  BY <1>1 DEF StepName
<1>3. ObjTypes'
  BY <1>1, <1>2 DEF ObjTypes
<1>4. PICK U \in SUBSET Thread : Wakes(k, k', U)
  BY DEF Rouses
<1>5. label \in CallLabel /\ label \notin {"waited", "drain2"}
  BY DEF CallLabel
<1> QED BY <1>2, <1>3, <1>4, <1>5, ObjSection DEF CallerAt

(* The same for a call of one section                                      *)
LEMMA ObjCalled ==
  ASSUME ObjInv, NEW t \in Thread, NEW op, ObjCall(t, op),
         NEW label \in {"app", "sched", "drain1"}, Goto(t, label),
         UNCHANGED objVars, UNCHANGED <<isr, arg, crit, object>>, Rouses(k')
  PROVE  ObjInv'
<1>1. /\ step' = step /\ wait' = wait /\ flag' = flag /\ alive' = alive
      /\ Running(t) /\ pc[t] = "app" /\ t # Idle
  BY DEF objVars, ObjCall
<1>2. /\ step \in [Thread -> StepName] /\ step[t] = "none"
      /\ wait \in [Thread -> Time] /\ flag \in IpcFlag /\ alive \in BOOLEAN
  BY <1>1 DEF ObjInv, ObjTypes, StepsInCalls
<1>3. step' = [step EXCEPT ![t] = "none"]
  BY <1>1, <1>2
<1>4. CallerAt(t)
  BY <1>1 DEF CallerAt, Linking
<1> QED BY <1>1, <1>2, <1>3, <1>4, ObjLeaves

(* It goes on in the call, with interrupts on.                             *)
LEMMA ObjGoesOn ==
  ASSUME ObjInv, NEW t \in Thread, CallerAt(t), k.lock = 0,
         Goto(t, "waited"), NEW s \in StepName \ {"none"}, GoStep(t, s),
         wait' \in [Thread -> Time], UNCHANGED <<isr, arg, crit, object>>,
         flag' \in IpcFlag, alive' \in BOOLEAN, Rouses(k')
  PROVE  ObjInv'
<1>1. step \in [Thread -> StepName] /\ object \in {"event", "mailbox", "queue", "pool"}
  BY DEF ObjInv, ObjTypes
<1>2. step' \in [Thread -> StepName] /\ step'[t] = s
      /\ \A u \in Thread \ {t} : step'[u] = step[u]
  BY <1>1 DEF GoStep
<1>3. ObjTypes'
  BY <1>1, <1>2 DEF ObjTypes
<1>4. PICK U \in SUBSET Thread : Wakes(k, k', U)
  BY DEF Rouses
<1>5. "waited" \in CallLabel
  BY DEF CallLabel
<1> QED BY <1>2, <1>3, <1>4, <1>5, ObjSection DEF CallerAt

(* It waits in a list.                                                     *)
LEMMA ObjWaits ==
  ASSUME ObjInv, NEW t \in Thread, Running(t), k.lock = 0, t # Idle,
         pc[t] \in {"app", "waited"}, Goto(t, "wait"),
         step' = [step EXCEPT ![t] = "none"], wait' \in [Thread -> Time],
         UNCHANGED <<isr, arg, crit, object, flag, alive>>,
         NEW w \in {Lists[i] : i \in DOMAIN Lists}, NEW time, k' = Await(t, w, time)
  PROVE  ObjInv'
<1>1. /\ step \in [Thread -> StepName] /\ object \in {"event", "mailbox", "queue", "pool"}
      /\ flag \in IpcFlag /\ alive \in BOOLEAN
  BY DEF ObjInv, ObjTypes
<1>2. step' \in [Thread -> StepName] /\ step'[t] = "none"
      /\ \A u \in Thread \ {t} : step'[u] = step[u]
  BY <1>1 DEF StepName
<1>3. ObjTypes'
  BY <1>1, <1>2 DEF ObjTypes
<1>4. PICK i \in DOMAIN Lists : w = Lists[i]
  OBVIOUS
<1>5. w \in WaitList
  BY <1>4, ObjListsFacts
<1>6. /\ k \in KernelRecord /\ Consistent(k)
      /\ k.stat[t] \in {"ready", "suspend"} /\ \A v \in WaitList : t \notin Elements(k.list[v])
  BY ObjFacts, CallerReady
<1>7. Suspends(k, k', t, w)
  <2> DEFINE x == IpcSuspend(SetError(k, t, "EOK"), w, t, flag)
  <2>1. k' = x \/ k' = StartTimer(x, t)
    BY DEF Await
  <2> QED BY <1>5, <1>6, <2>1, AwaitSuspends
<1> QED BY <1>2, <1>3, <1>4, <1>7, ObjBlock

-----------------------------------------------------------------------------
(* The functions of module IpcObject.                                      *)

(* A turn of the loop of rt_ipc_list_resume_all, of a list that may have   *)
(* been emptied meanwhile                                                  *)
LEMMA DrainOneRouses ==
  ASSUME ObjInv, NEW w \in WaitList PROVE Rouses(DrainOne(k, w))
<1>1. k \in KernelRecord /\ Consistent(k) /\ AllSuspended(k, w)
  BY ObjFacts
<1>2. CASE k.list[w] = << >>
  BY <1>2, AssertRouses DEF DrainOne
<1>3. CASE k.list[w] # << >>
  <2>1. Wakes(k, DrainOne(k, w), {Head(k.list[w])}) /\ Head(k.list[w]) \in Thread
    BY <1>1, <1>3, DrainOneWakes
  <2> QED BY <2>1 DEF Rouses
<1> QED BY <1>2, <1>3

(* Detach, delete                                                          *)
LEMMA DetachKeeps ==
  ASSUME ObjInv, NEW t \in Thread, DetachObject(t), object' = object PROVE ObjInv'
<1>1. ObjCall(t, "detach") /\ Goto(t, "drain1") /\ k' = k
  BY DEF DetachObject
<1>2. Rouses(k')
  BY <1>1, KeepRouses
<1> QED BY <1>1, <1>2, ObjCalled DEF DetachObject

LEMMA DrainTestKeeps ==
  ASSUME ObjInv, NEW t \in Thread, DrainTest(t), object' = object PROVE ObjInv'
<1>1. /\ Running(t) /\ pc[t] = "drain1" /\ CallerAt(t)
      /\ UNCHANGED <<k, isr, arg, crit, flag, wait>>
  BY RunningInCall DEF DrainTest, Linking
<1>2. /\ flag \in IpcFlag /\ wait \in [Thread -> Time] /\ alive \in BOOLEAN
      /\ step \in [Thread -> StepName] /\ step[t] = "none"
      /\ object \in {"event", "mailbox", "queue", "pool"}
  BY <1>1 DEF ObjInv, ObjTypes, StepsInCalls
<1>3. CASE /\ alive' = FALSE /\ Goto(t, "app") /\ UNCHANGED step
  <2>1. step' = [step EXCEPT ![t] = "none"]
    BY <1>2, <1>3
  <2>2. Rouses(k')
    BY <1>1, KeepRouses
  <2> QED BY <1>1, <1>2, <1>3, <2>1, <2>2, ObjLeaves
<1>4. ASSUME NEW i \in DOMAIN Lists, GoStep(t, Lists[i]), Goto(t, "drain2"), UNCHANGED alive
      PROVE  ObjInv'
  <2>1. Lists[i] \in WaitList /\ Lists[i] \in Elements(Lists)
    BY ObjListsFacts
  <2>2. /\ step' \in [Thread -> StepName] /\ step'[t] = Lists[i]
        /\ \A u \in Thread \ {t} : step'[u] = step[u]
    BY <1>2, <1>4, <2>1 DEF GoStep, StepName
  <2>3. ObjTypes'
    BY <1>1, <1>2, <1>4, <2>2 DEF ObjTypes
  <2>4. Wakes(k, k', {})
    BY <1>1, ObjFacts, WakesNobody
  <2>5. "drain2" \in CallLabel
    BY DEF CallLabel
  <2> QED BY <1>1, <1>4, <2>1, <2>2, <2>3, <2>4, <2>5, ObjSection DEF CallerAt
<1> QED BY <1>3, <1>4 DEF DrainTest

LEMMA DrainResumeKeeps ==
  ASSUME ObjInv, NEW t \in Thread, DrainResume(t), object' = object PROVE ObjInv'
<1>1. /\ Running(t) /\ pc[t] = "drain2" /\ CallerAt(t) /\ k' = DrainOne(k, step[t])
  BY RunningInCall DEF DrainResume, Linking
<1>2. /\ flag \in IpcFlag /\ wait \in [Thread -> Time] /\ alive \in BOOLEAN
      /\ step[t] \in WaitList
  BY <1>1, ObjListsFacts DEF ObjInv, ObjTypes, StepsInCalls
<1>3. Rouses(k')
  BY <1>1, <1>2, DrainOneRouses
<1> QED BY <1>1, <1>2, <1>3, ObjLeaves DEF DrainResume, GoStep

(* init, create *)
LEMMA InitKeeps ==
  ASSUME ObjInv, NEW t \in Thread, InitObject(t), object' = object PROVE ObjInv'
<1>1. /\ UNCHANGED vars /\ k' = k /\ pc' = pc /\ wait' = wait /\ step' = step
      /\ flag' \in IpcFlag /\ alive' \in BOOLEAN
  BY ObjectAssumption DEF InitObject, vars
<1>2. IpcInv'
  BY <1>1, IpcStutter DEF ObjInv
<1>3. ObjTypes' /\ StepsInCalls' /\ AwakeInCalls' /\ ListedDoze'
  BY <1>1 DEF ObjInv, ObjTypes, StepsInCalls, AwakeInCalls, ListedDoze, Dozing, Listed,
              Linking, Waiting, InCall
<1> QED BY <1>2, <1>3 DEF ObjInv

(* A thread is back from the rt_schedule of a call that waited.            *)
LEMMA WokenCaller ==
  ASSUME ObjInv, NEW t \in Thread, Woken(t)
  PROVE  /\ Running(t) /\ pc[t] = "waited" /\ t # Idle
         /\ CallerAt(t) /\ k.lock = 0
         /\ wait[t] \in Time /\ TimeLeft(t) \subseteq Time
<1>1. Running(t) /\ pc[t] = "waited" /\ ~Linking(t)
  BY DEF Woken, AtStep, Linking
<1>2. CallerAt(t) /\ k.lock = 0
  BY <1>1, RunningInCall
<1> QED BY <1>1, <1>2 DEF CallerAt, TimeLeft, ObjInv, ObjTypes, Time

(* and returns                                                             *)
LEMMA ReturnKeeps ==
  ASSUME ObjInv, NEW t \in Thread, CallerAt(t), NEW label \in {"app", "sched"},
         Return(t, label), UNCHANGED <<isr, arg, crit, flag, alive, object>>, Rouses(k')
  PROVE  ObjInv'
<1>1. flag \in IpcFlag /\ alive \in BOOLEAN /\ wait' \in [Thread -> Time]
  BY DEF ObjInv, ObjTypes, Return, Time
<1> QED BY <1>1, ObjLeaves DEF Return

LEMMA WaitFailsKeeps ==
  ASSUME ObjInv, NEW t \in Thread, WaitFails(t), object' = object PROVE ObjInv'
<1>1. CallerAt(t) /\ Rouses(k')
  BY WokenCaller, KeepRouses DEF WaitFails
<1> QED BY <1>1, ReturnKeeps DEF WaitFails

(* or waits again, or waits for the first time.                            *)
LEMMA BlockKeeps ==
  ASSUME ObjInv, NEW t \in Thread, Running(t), k.lock = 0, t # Idle,
         pc[t] \in {"app", "waited"}, NEW time \in Time,
         NEW w \in {Lists[i] : i \in DOMAIN Lists}, Block(t, w, time),
         UNCHANGED <<isr, arg, crit, object, flag, alive>>
  PROVE  ObjInv'
<1>1. wait' \in [Thread -> Time]
  BY DEF ObjInv, ObjTypes, Block
<1> QED BY <1>1, ObjWaits DEF Block

(* Interrupts *)
LEMMA IsrKeeps ==
  ASSUME ObjInv, NEW op, IsrCall(op), UNCHANGED <<isr, pc, arg, crit, objVars, object>>,
         NEW r, Rouses(r), k' = r \/ k' = Schedule(r)
  PROVE  ObjInv'
<1>1. PICK U \in SUBSET Thread : Wakes(k, r, U)
  BY DEF Rouses
<1> QED BY <1>1, ObjInterrupt DEF IsrCall

-----------------------------------------------------------------------------
(* Mailboxes.                                                              *)

MailLists == {Receivers, Senders}

LEMMA MailListFacts ==
  /\ MailLists \subseteq {Lists[i] : i \in DOMAIN Lists}
  /\ MailLists \subseteq WaitList
BY MailboxAssumption, ObjListsFacts DEF MailLists

LEMMA WakeLabels == \A w : WakeLabel(w) \in {"app", "sched"}
BY DEF WakeLabel

(* A call takes a word and wakes a sender.                                 *)
LEMMA TakeMailKeeps ==
  ASSUME ObjInv, NEW t \in Thread, CallerAt(t), TakeMail(t),
         UNCHANGED <<isr, arg, crit, flag, alive, object>>
  PROVE  ObjInv'
<1>1. Rouses(k') /\ WakeLabel(Senders) \in {"app", "sched"}
  BY WakeRouses, MailListFacts, WakeLabels DEF TakeMail, MailLists
<1> QED BY <1>1, ReturnKeeps DEF TakeMail

LEMMA MailSendKeeps ==
  ASSUME ObjInv, NEW t \in Thread, NEW v, MailSend(t, v), object' = object PROVE ObjInv'
<1>1. ObjCall(t, "send") /\ Goto(t, WakeLabel(Receivers)) /\ UNCHANGED <<isr, arg, crit, objVars>>
  BY DEF MailSend, MailCall
<1>2. Rouses(k') /\ WakeLabel(Receivers) \in {"app", "sched", "drain1"}
  BY WakeRouses, MailListFacts, WakeLabels DEF MailSend, MailLists
<1> QED BY <1>1, <1>2, ObjCalled

LEMMA MailSendIsrKeeps ==
  ASSUME ObjInv, NEW v, MailSendIsr(v), object' = object PROVE ObjInv'
<1>1. PICK r : Rouses(r) /\ (k' = r \/ k' = Schedule(r))
  BY WakeRouses, MailListFacts DEF MailSendIsr, MailLists
<1> QED BY <1>1, IsrKeeps DEF MailSendIsr

LEMMA MailSendWaitKeeps ==
  ASSUME ObjInv, NEW t \in Thread, NEW v, NEW time \in Time, MailSendWait(t, v, time),
         object' = object
  PROVE  ObjInv'
<1>1. /\ Running(t) /\ k.lock = 0 /\ t # Idle /\ pc[t] = "app" /\ Block(t, Senders, time)
      /\ UNCHANGED <<isr, arg, crit, object, flag, alive>>
  BY DEF MailSendWait, MailCall, ObjCall
<1> QED BY <1>1, MailListFacts, BlockKeeps DEF MailLists

LEMMA MailRecvKeeps ==
  ASSUME ObjInv, NEW t \in Thread, NEW time \in Time, MailRecv(t, time), object' = object
  PROVE  ObjInv'
<1>1. /\ Running(t) /\ k.lock = 0 /\ t # Idle /\ pc[t] = "app" /\ CallerAt(t)
      /\ UNCHANGED <<isr, arg, crit, object, flag, alive>>
      /\ TakeMail(t) \/ Block(t, Receivers, time)
  BY DEF MailRecv, MailCall, ObjCall, CallerAt, Linking
<1> QED BY <1>1, MailListFacts, BlockKeeps, TakeMailKeeps DEF MailLists

LEMMA MailRecvAgainKeeps ==
  ASSUME ObjInv, NEW t \in Thread, MailRecvAgain(t), object' = object PROVE ObjInv'
<1>1. /\ Running(t) /\ pc[t] = "waited" /\ t # Idle /\ CallerAt(t) /\ k.lock = 0
      /\ TimeLeft(t) \subseteq Time /\ UNCHANGED <<isr, arg, crit, object, flag, alive>>
  BY WokenCaller DEF MailRecvAgain
<1>2. CASE TakeMail(t)
  BY <1>1, <1>2, TakeMailKeeps
<1>3. ASSUME NEW time \in TimeLeft(t), Block(t, Receivers, time) PROVE ObjInv'
  BY <1>1, <1>3, MailListFacts, BlockKeeps DEF MailLists
<1>4. CASE Return(t, "app") /\ k' = SetError(k, t, "ETIMEOUT")
  <2>1. Rouses(k')
    BY <1>4, ErrorRouses DEF Error
  <2> QED BY <1>1, <1>4, <2>1, ReturnKeeps
<1> QED BY <1>2, <1>3, <1>4 DEF MailRecvAgain

(* A sender suspends itself again, and is in no list then.                 *)
LEMMA SuspendAgainKeeps ==
  ASSUME ObjInv, object = "mailbox", NEW t \in Thread, Woken(t), k' = Suspend(k, t),
         GoStep(t, "link"), wait' \in [Thread -> Time],
         UNCHANGED <<pc, isr, arg, crit, flag, alive, object>>
  PROVE  ObjInv'
<1>1. /\ Running(t) /\ pc[t] = "waited" /\ t # Idle /\ k.lock = 0 /\ Unlisted(t)
      /\ k.stat[t] = "ready"
  BY WokenCaller, CallerUnlisted DEF CallerAt
<1>2. /\ IpcInv' /\ SameWaits(k, k') /\ k'.stat = Update(k.stat, t, "suspend")
  <2>1. IpcInv
    BY DEF ObjInv
  <2> QED BY <1>1, <2>1, SuspendSection
<1>3. \A u \in Thread \ {t} : k'.stat[u] = k.stat[u]
  BY <1>2, ObjFacts DEF Update, KernelRecord
<1>4. /\ step' \in [Thread -> StepName] /\ step'[t] = "link"
      /\ \A u \in Thread \ {t} : step'[u] = step[u]
  BY DEF ObjInv, ObjTypes, GoStep, StepName
<1>5. ObjTypes'
  BY <1>4 DEF ObjInv, ObjTypes
<1>6. StepsInCalls'
  BY <1>1, <1>4 DEF ObjInv, StepsInCalls, InCall
<1>7. AwakeInCalls'
  BY <1>1, <1>3, <1>4 DEF ObjInv, AwakeInCalls, Linking
<1>8. ListedDoze'
  <2>1. \A u \in Thread : Listed(u)' <=> Listed(u)
    BY <1>2, ObjListsFacts DEF SameWaits, Listed
  <2>2. ~Listed(t)
    BY <1>1, ObjListsFacts DEF Unlisted, Listed
  <2>3. \A u \in Thread \ {t} : Dozing(u)' <=> Dozing(u)
    BY <1>4 DEF Dozing, Waiting
  <2>4. ~Dozing(t)'
    BY <1>4 DEF Dozing
  <2> QED BY <1>3, <2>1, <2>2, <2>3, <2>4 DEF ObjInv, ListedDoze
<1> QED BY <1>2, <1>5, <1>6, <1>7, <1>8 DEF ObjInv

LEMMA MailSendAgainKeeps ==
  ASSUME ObjInv, object = "mailbox", NEW t \in Thread, MailSendAgain(t), object' = object
  PROVE  ObjInv'
<1>1. /\ Running(t) /\ pc[t] = "waited" /\ t # Idle /\ CallerAt(t) /\ k.lock = 0
      /\ TimeLeft(t) \subseteq Time /\ UNCHANGED <<isr, arg, crit, object, flag, alive>>
      /\ Woken(t)
  BY WokenCaller DEF MailSendAgain
<1>2. flag \in IpcFlag /\ alive \in BOOLEAN /\ wait \in [Thread -> Time]
      /\ pc \in [Thread -> PC]
  BY ObjFacts DEF ObjInv, ObjTypes
<1>3. ASSUME NEW time \in TimeLeft(t), wait' = [wait EXCEPT ![t] = time] PROVE wait' \in [Thread -> Time]
  BY <1>1, <1>2, <1>3
<1>4. ASSUME NEW time \in TimeLeft(t), wait' = [wait EXCEPT ![t] = time], GoStep(t, "put"),
             UNCHANGED <<k, pc>>
      PROVE  ObjInv'
  <2>1. wait' \in [Thread -> Time] /\ Rouses(k') /\ "put" \in StepName \ {"none"}
    BY <1>3, <1>4, KeepRouses DEF StepName
  <2>2. Goto(t, "waited")
    BY <1>1, <1>2, <1>4 DEF Goto
  <2> QED BY <1>1, <1>2, <1>4, <2>1, <2>2, ObjGoesOn
<1>5. CASE Return(t, "app") /\ UNCHANGED k
  BY <1>1, <1>5, KeepRouses, ReturnKeeps
<1>6. ASSUME NEW time \in TimeLeft(t), wait' = [wait EXCEPT ![t] = time], GoStep(t, "link"),
             k' = Suspend(k, t), UNCHANGED pc
      PROVE  ObjInv'
  BY <1>1, <1>3, <1>6, SuspendAgainKeeps
<1> QED BY <1>4, <1>5, <1>6 DEF MailSendAgain

(* and is linked.                                                          *)
LEMMA MailSendLinkKeeps ==
  ASSUME ObjInv, NEW t \in Thread, MailSendLink(t), object' = object PROVE ObjInv'
<1>1. /\ Running(t) /\ pc[t] = "waited" /\ Goto(t, "wait") /\ k.cur = t
      /\ UNCHANGED <<isr, arg, crit, object, flag, alive>> /\ wait' = wait
      /\ step' = [step EXCEPT ![t] = "none"]
  BY DEF MailSendLink, AtStep, Running, GoStep
<1>2. t # Idle /\ k.lock = 0
  BY <1>1, ObjFacts DEF ObjInv, StepsInCalls, InCall, IpcLabels, IpcInv, WaitsUnlocked, Waiting
<1>3. wait' \in [Thread -> Time]
  BY <1>1 DEF ObjInv, ObjTypes
<1> QED BY <1>1, <1>2, <1>3, MailListFacts, ObjWaits DEF MailSendLink, MailLists

(* The steps of rt_mb_send_wait after a wait, with interrupts on           *)
LEMMA MailSendStepKeeps ==
  ASSUME ObjInv, NEW t \in Thread, MailSendPut(t) \/ MailSendCount(t) \/ MailSendWake(t),
         object' = object
  PROVE  ObjInv'
<1>1. /\ Running(t) /\ pc[t] = "waited" /\ step[t] \in {"put", "count", "wake"}
  BY DEF MailSendPut, MailSendCount, MailSendWake, AtStep
<1>2. CallerAt(t) /\ k.lock = 0
  BY <1>1, RunningInCall DEF Linking
<1>3. flag \in IpcFlag /\ alive \in BOOLEAN /\ wait \in [Thread -> Time]
      /\ pc \in [Thread -> PC]
  BY ObjFacts DEF ObjInv, ObjTypes
<1>4. ASSUME NEW s \in {"count", "wake"}, GoStep(t, s), UNCHANGED <<vars, flag, alive, wait>>
      PROVE  ObjInv'
  <2>1. s \in StepName \ {"none"} /\ Rouses(k')
    BY <1>4, KeepRouses DEF StepName, vars
  <2>2. Goto(t, "waited") /\ UNCHANGED <<isr, arg, crit, object>>
    BY <1>1, <1>3, <1>4 DEF Goto, vars
  <2> QED BY <1>2, <1>3, <1>4, <2>1, <2>2, ObjGoesOn
<1>5. CASE MailSendWake(t)
  <2>1. Rouses(k') /\ WakeLabel(Receivers) \in {"app", "sched"}
    BY <1>5, WakeRouses, MailListFacts, WakeLabels DEF MailSendWake, MailLists
  <2> QED BY <1>2, <1>5, <2>1, ReturnKeeps DEF MailSendWake
<1> QED BY <1>4, <1>5 DEF MailSendPut, MailSendCount

(* RT_IPC_CMD_RESET of any object                                          *)
LEMMA ResetKeeps ==
  ASSUME ObjInv, NEW t \in Thread, ObjCall(t, "reset"), k' = DrainLists(k), Goto(t, "sched"),
         UNCHANGED <<isr, arg, crit, object>>, UNCHANGED objVars
  PROVE  ObjInv'
<1>1. Rouses(k')
  BY DrainListsDrains, DrainsRouses
<1> QED BY <1>1, ObjCalled

LEMMA MailboxKeeps ==
  ASSUME ObjInv, object = "mailbox", Ops \cap Meddling = {}, MailboxNext, object' = object
  PROVE  ObjInv'
<1>1. CASE Next /\ UNCHANGED <<objVars, mailboxVars>>
  BY <1>1, ObjNext
<1>2. CASE \E v \in Mail : MailSendIsr(v)
  BY <1>2, MailSendIsrKeeps
<1>3. ASSUME NEW t \in Thread,
             \/ \E v \in Mail : MailSend(t, v) \/ \E time \in Time : MailSendWait(t, v, time)
             \/ MailSendAgain(t) \/ MailSendLink(t) \/ MailSendPut(t)
             \/ MailSendCount(t) \/ MailSendWake(t)
      PROVE  ObjInv'
  BY <1>3, MailSendKeeps, MailSendWaitKeeps, MailSendAgainKeeps, MailSendLinkKeeps,
     MailSendStepKeeps
<1>4. ASSUME NEW t \in Thread,
             (\E time \in Time : MailRecv(t, time)) \/ MailRecvAgain(t) \/ MailFails(t)
      PROVE  ObjInv'
  BY <1>4, MailRecvKeeps, MailRecvAgainKeeps, WaitFailsKeeps DEF MailFails
<1>5. ASSUME NEW t \in Thread, MailReset(t) PROVE ObjInv'
  BY <1>5, ResetKeeps DEF MailReset, MailCall
<1>6. ASSUME NEW t \in Thread,
             \/ MailDetach(t) \/ MailCreate(t) \/ DrainTest(t) \/ DrainResume(t)
      PROVE  ObjInv'
  BY <1>6, DetachKeeps, InitKeeps, DrainTestKeeps, DrainResumeKeeps DEF MailDetach, MailCreate
<1>7. CASE Halt /\ UNCHANGED mailboxVars
  BY <1>7, ObjStutter DEF Halt
<1> QED BY <1>1, <1>2, <1>3, <1>4, <1>5, <1>6, <1>7 DEF MailboxNext, MailboxStep

-----------------------------------------------------------------------------
(* Message queues.                                                         *)

MqList == {Lists[i] : i \in DOMAIN Lists}

LEMMA MqFacts == Mq \in MqList /\ Mq \in WaitList
BY MessageQueueAssumption, ObjListsFacts DEF MqList

(* A thread that takes a message in hand                                   *)
LEMMA MsgSendKeeps ==
  ASSUME ObjInv, NEW t \in Thread, NEW v, NEW urgent, MsgSend(t, v, urgent), object' = object
  PROVE  ObjInv'
<1>1. /\ Running(t) /\ pc[t] = "app" /\ t # Idle /\ k.lock = 0 /\ CallerAt(t)
      /\ Goto(t, "waited") /\ UNCHANGED <<k, isr, arg, crit, flag, alive, wait>>
  BY DEF MsgSend, ObjCall, CallerAt, Linking
<1>2. Rouses(k') /\ wait' \in [Thread -> Time] /\ flag' \in IpcFlag /\ alive' \in BOOLEAN
  BY <1>1, KeepRouses DEF ObjInv, ObjTypes
<1>3. PICK s \in {"copy", "copy_urgent"} : GoStep(t, s)
  BY DEF MsgSend
<1>4. s \in StepName \ {"none"}
  BY DEF StepName
<1> QED BY <1>1, <1>2, <1>3, <1>4, ObjGoesOn

LEMMA TakeMsgKeeps ==
  ASSUME ObjInv, NEW t \in Thread, CallerAt(t), k.lock = 0, TakeMsg(t),
         UNCHANGED <<isr, arg, crit, flag, alive, object>>
  PROVE  ObjInv'
<1>1. Rouses(k') /\ wait' \in [Thread -> Time] /\ flag' \in IpcFlag /\ alive' \in BOOLEAN
  BY KeepRouses DEF ObjInv, ObjTypes, TakeMsg
<1>2. "free" \in StepName \ {"none"}
  BY DEF StepName
<1> QED BY <1>1, <1>2, ObjGoesOn DEF TakeMsg

(* A thread that copies, links or frees a message                          *)
LEMMA MsgStepKeeps ==
  ASSUME ObjInv, object = "queue", NEW t \in Thread, MsgCopy(t) \/ MsgLink(t) \/ MsgFree(t),
         object' = object
  PROVE  ObjInv'
<1>1. Running(t) /\ pc[t] = "waited" /\ ~Linking(t)
  BY DEF MsgCopy, MsgLink, MsgFree, AtStep, Linking
<1>2. CallerAt(t) /\ k.lock = 0
  BY <1>1, RunningInCall
<1>3. CASE MsgCopy(t)
  <2>1. UNCHANGED <<k, isr, pc, arg, crit, flag, alive, wait>>
    BY <1>3 DEF MsgCopy, vars
  <2>2. Rouses(k') /\ wait' \in [Thread -> Time] /\ flag' \in IpcFlag /\ alive' \in BOOLEAN
    BY <2>1, KeepRouses DEF ObjInv, ObjTypes
  <2>3. Goto(t, "waited")
    BY <1>1, <2>1, ObjFacts DEF Goto
  <2>4. PICK s \in {"link", "link_urgent"} : GoStep(t, s)
    BY <1>3 DEF MsgCopy
  <2>5. s \in StepName \ {"none"}
    BY DEF StepName
  <2> QED BY <1>2, <2>1, <2>2, <2>3, <2>4, <2>5, ObjGoesOn
<1>4. CASE MsgLink(t)
  <2>1. Rouses(k') /\ WakeLabel(Mq) \in {"app", "sched"}
    BY <1>4, WakeRouses, MqFacts, WakeLabels DEF MsgLink
  <2> QED BY <1>2, <1>4, <2>1, ReturnKeeps DEF MsgLink
<1>5. CASE MsgFree(t)
  <2>1. Rouses(k')
    BY <1>5, KeepRouses, AssertRouses DEF MsgFree
  <2> QED BY <1>2, <1>5, <2>1, ReturnKeeps DEF MsgFree
<1> QED BY <1>3, <1>4, <1>5

LEMMA MsgSendIsrKeeps ==
  ASSUME ObjInv, NEW v, MsgSendIsr(v), object' = object PROVE ObjInv'
<1>1. PICK r : Rouses(r) /\ (k' = r \/ k' = Schedule(r))
  BY WakeRouses, MqFacts DEF MsgSendIsr
<1> QED BY <1>1, IsrKeeps DEF MsgSendIsr

LEMMA MsgRecvKeeps ==
  ASSUME ObjInv, NEW t \in Thread, NEW time \in Time, MsgRecv(t, time), object' = object
  PROVE  ObjInv'
<1>1. /\ Running(t) /\ k.lock = 0 /\ t # Idle /\ pc[t] = "app" /\ CallerAt(t)
      /\ UNCHANGED <<isr, arg, crit, object, flag, alive>>
      /\ TakeMsg(t) \/ Block(t, Mq, time)
  BY DEF MsgRecv, ObjCall, CallerAt, Linking
<1> QED BY <1>1, MqFacts, BlockKeeps, TakeMsgKeeps DEF MqList

LEMMA MsgRecvAgainKeeps ==
  ASSUME ObjInv, NEW t \in Thread, MsgRecvAgain(t), object' = object PROVE ObjInv'
<1>1. /\ Running(t) /\ pc[t] = "waited" /\ t # Idle /\ CallerAt(t) /\ k.lock = 0
      /\ TimeLeft(t) \subseteq Time /\ UNCHANGED <<isr, arg, crit, object, flag, alive>>
  BY WokenCaller DEF MsgRecvAgain
<1>2. CASE TakeMsg(t)
  BY <1>1, <1>2, TakeMsgKeeps
<1>3. ASSUME NEW time \in TimeLeft(t), Block(t, Mq, time) PROVE ObjInv'
  BY <1>1, <1>3, MqFacts, BlockKeeps DEF MqList
<1>4. CASE Return(t, "app") /\ k' = SetError(k, t, "ETIMEOUT")
  <2>1. Rouses(k')
    BY <1>4, ErrorRouses DEF Error
  <2> QED BY <1>1, <1>4, <2>1, ReturnKeeps
<1> QED BY <1>2, <1>3, <1>4 DEF MsgRecvAgain

LEMMA QueueKeeps ==
  ASSUME ObjInv, object = "queue", Ops \cap Meddling = {}, MessageQueueNext, object' = object
  PROVE  ObjInv'
<1>1. CASE Next /\ UNCHANGED <<objVars, mqVars>>
  BY <1>1, ObjNext
<1>2. CASE \E v \in Body : MsgSendIsr(v)
  BY <1>2, MsgSendIsrKeeps
<1>3. ASSUME NEW t \in Thread,
             \/ \E v \in Body, urgent \in BOOLEAN : MsgSend(t, v, urgent)
             \/ MsgCopy(t) \/ MsgLink(t) \/ MsgFree(t)
             \/ (\E time \in Time : MsgRecv(t, time)) \/ MsgRecvAgain(t)
      PROVE  ObjInv'
  BY <1>3, MsgSendKeeps, MsgStepKeeps, MsgRecvKeeps, MsgRecvAgainKeeps
<1>4. ASSUME NEW t \in Thread, MsgReset(t) PROVE ObjInv'
  BY <1>4, ResetKeeps DEF MsgReset
<1>5. ASSUME NEW t \in Thread,
             \/ WaitFails(t) \/ MsgDetach(t) \/ MsgCreate(t) \/ DrainTest(t) \/ DrainResume(t)
      PROVE  ObjInv'
  BY <1>5, WaitFailsKeeps, DetachKeeps, InitKeeps, DrainTestKeeps, DrainResumeKeeps
     DEF MsgDetach, MsgCreate
<1>6. CASE Halt /\ UNCHANGED mqVars
  BY <1>6, ObjStutter DEF Halt
<1> QED BY <1>1, <1>2, <1>3, <1>4, <1>5, <1>6 DEF MessageQueueNext, MessageQueueStep

-----------------------------------------------------------------------------
(* The threads that wait for a block of a memory pool.                     *)

LEMMA PoolFacts ==
  Pool \in WaitList /\ \E i \in DOMAIN Lists : Pool = Lists[i]
BY MemPoolAssumption, ObjListsFacts

(* rt_mp_alloc that waits                                                  *)
LEMMA PoolWaitSuspends ==
  ASSUME ObjInv, NEW t \in Thread, Running(t), k.lock = 0,
         pc[t] \in {"app", "waited"}, NEW time, PoolWait(t, time)
  PROVE  Suspends(k, k', t, Pool)
<1> DEFINE s == <<t>> \o k.list[Pool]
           x == WithList(Suspend(SetError(k, t, "EOK"), t), Pool, s)
<1>1. /\ k \in KernelRecord /\ Consistent(k)
      /\ k.stat[t] \in {"ready", "suspend"} /\ \A v \in WaitList : t \notin Elements(k.list[v])
      /\ k.list[Pool] \in Seq(Thread) /\ NoRepeat(k.list[Pool])
  BY ObjFacts, CallerReady, PoolFacts, WaitQueue DEF Consistent, LinkedOnce, NoRepeat
<1>2. s \in Seq(Thread) /\ NoRepeat(s) /\ Elements(s) = Elements(k.list[Pool]) \cup {t}
  BY <1>1, PoolFacts, ConsFacts
<1>3. [Suspend(SetError(k, t, "EOK"), t) EXCEPT !.list[Pool] = <<t>> \o @] = x
  <2> DEFINE e == SetError(k, t, "EOK")
             m == Suspend(e, t)
  <2>1. e \in KernelRecord /\ Consistent(e) /\ e.list = k.list /\ e.stat[t] = k.stat[t]
    <3>1. "EOK" \in Error
      BY DEF Error
    <3>2. Wakes(k, e, {}) /\ e.list = k.list
      BY <1>1, <3>1, SetErrorWakes
    <3> HIDE DEF e
    <3> QED BY <3>2 DEF Wakes
  <2>2. m \in KernelRecord
    <3> HIDE DEF e
    <3> QED BY <1>1, <2>1, SuspendFacts
  <2>3. TakesFrom(e, m, t)
    <3> HIDE DEF e
    <3> QED BY <2>1, SuspendTakes
  <2>4. m.list[Pool] = k.list[Pool]
    BY <1>1, <2>1, <2>3, PoolFacts, WithoutOther DEF TakesFrom
  <2> HIDE DEF m
  <2>5. [m EXCEPT !.list[Pool] = <<t>> \o @] = WithList(m, Pool, s)
    BY <2>2, <2>4, PoolFacts DEF WithList
  <2> QED BY <2>5 DEF m
<1>4. k' = x \/ k' = StartTimer(x, t)
  BY <1>3 DEF PoolWait
<1> HIDE DEF x
<1> QED BY <1>1, <1>2, <1>4, PoolFacts, AwaitAnywhere DEF x

LEMMA PoolWaitKeeps ==
  ASSUME ObjInv, NEW t \in Thread, Running(t), k.lock = 0, t # Idle,
         pc[t] \in {"app", "waited"}, NEW time \in Time, PoolWait(t, time),
         UNCHANGED <<isr, arg, crit, object, flag, alive>>
  PROVE  ObjInv'
<1>1. Suspends(k, k', t, Pool)
  BY PoolWaitSuspends
<1>2. /\ step' = [step EXCEPT ![t] = "none"] /\ wait' = [wait EXCEPT ![t] = time]
      /\ Goto(t, "wait")
  BY DEF PoolWait
<1>3. /\ ObjTypes' /\ step'[t] = "none" /\ \A u \in Thread \ {t} : step'[u] = step[u]
  BY <1>2 DEF ObjInv, ObjTypes, StepName
<1>4. PICK i \in DOMAIN Lists : Pool = Lists[i]
  BY PoolFacts
<1> QED BY <1>1, <1>2, <1>3, <1>4, ObjBlock

(* What rt_mp_free does if the count says that a thread waits              *)
LEMMA PoolResumeRouses ==
  ASSUME ObjInv PROVE Rouses(PoolResume)
<1>1. CASE k.list[Pool] = << >>
  BY <1>1, AssertRouses DEF PoolResume
<1>2. CASE k.list[Pool] # << >>
  <2> DEFINE h == Head(k.list[Pool])
             e == SetError(k, h, "EOK")
  <2>1. k \in KernelRecord /\ Consistent(k) /\ AllSuspended(k, Pool)
        /\ h \in Thread /\ "EOK" \in Error
    BY <1>2, ObjFacts, PoolFacts, FirstWaiter DEF Error
  <2>2. Wakes(k, e, {}) /\ e.list = k.list
    BY <2>1, SetErrorWakes
  <2>3. e \in KernelRecord /\ Consistent(e) /\ AllSuspended(e, Pool) /\ e.list[Pool] # << >>
        /\ Head(e.list[Pool]) = h
    BY <1>2, <2>1, <2>2, ObjFacts, PoolFacts DEF Wakes, AllSuspended
  <2>4. Wakes(e, IpcResume(e, Pool), {h})
    <3> HIDE DEF e, h
    <3> QED BY <2>3, PoolFacts, ResumeWakes
  <2>5. Rouses(IpcResume(e, Pool))
    <3>1. Rouses(e)
      BY <2>2 DEF Rouses
    <3>2. {h} \in SUBSET Thread
      BY <2>1
    <3> HIDE DEF e, h
    <3> QED BY <2>4, <3>1, <3>2, RousesMore
  <2> QED BY <1>2, <2>5 DEF PoolResume
<1> QED BY <1>1, <1>2

LEMMA PoolAllocKeeps ==
  ASSUME ObjInv, NEW t \in Thread, NEW time \in Time, PoolAlloc(t, time), object' = object
  PROVE  ObjInv'
<1>1. /\ ObjCall(t, "alloc") /\ Running(t) /\ k.lock = 0 /\ t # Idle /\ pc[t] = "app"
      /\ UNCHANGED <<isr, arg, crit, object, flag, alive>>
  BY DEF PoolAlloc, ObjCall
<1>2. CASE PoolWait(t, time)
  BY <1>1, <1>2, PoolWaitKeeps
<1>3. CASE UNCHANGED <<pc, wait, step>> /\ (k' = k \/ k' = SetError(k, t, "ETIMEOUT"))
  <2>1. Rouses(k')
    BY <1>3, KeepRouses, ErrorRouses DEF Error
  <2>2. Goto(t, "app") /\ UNCHANGED objVars
    BY <1>1, <1>3, ObjFacts DEF Goto, objVars
  <2> QED BY <1>1, <2>1, <2>2, ObjCalled
<1> QED BY <1>2, <1>3 DEF PoolAlloc

LEMMA PoolAllocAgainKeeps ==
  ASSUME ObjInv, NEW t \in Thread, PoolAllocAgain(t), object' = object PROVE ObjInv'
<1>1. /\ Running(t) /\ pc[t] = "waited" /\ t # Idle /\ CallerAt(t) /\ k.lock = 0
      /\ TimeLeft(t) \subseteq Time /\ UNCHANGED <<isr, arg, crit, object, flag, alive>>
  BY WokenCaller DEF PoolAllocAgain
<1>2. ASSUME NEW time \in TimeLeft(t), PoolWait(t, time) PROVE ObjInv'
  BY <1>1, <1>2, PoolWaitKeeps
<1>3. CASE Return(t, "app") /\ (k' = k \/ k' = SetError(k, t, "ETIMEOUT"))
  <2>1. Rouses(k')
    BY <1>3, KeepRouses, ErrorRouses DEF Error
  <2> QED BY <1>1, <1>3, <2>1, ReturnKeeps
<1> QED BY <1>2, <1>3 DEF PoolAllocAgain

LEMMA PoolKeeps ==
  ASSUME ObjInv, Ops \cap Meddling = {}, MemPoolNext, object' = object PROVE ObjInv'
<1>1. CASE Next /\ UNCHANGED <<objVars, poolVars>>
  BY <1>1, ObjNext
<1>2. CASE PoolAllocIsr \/ (Halt /\ UNCHANGED poolVars)
  BY <1>2, ObjStutter DEF PoolAllocIsr, Halt
<1>3. ASSUME NEW b \in out, PoolFreeIsr(b) PROVE ObjInv'
  <2>1. \E r : Rouses(r) /\ (k' = r \/ k' = Schedule(r))
    BY <1>3, PoolResumeRouses, KeepRouses DEF PoolFreeIsr
  <2> QED BY <1>3, <2>1, IsrKeeps DEF PoolFreeIsr
<1>4. ASSUME NEW b \in out, NEW t \in Thread, PoolFree(t, b) PROVE ObjInv'
  <2>1. Rouses(k')
    BY <1>4, PoolResumeRouses, KeepRouses DEF PoolFree
  <2>2. \E label \in {"app", "sched", "drain1"} : Goto(t, label)
    BY <1>4 DEF PoolFree
  <2> QED BY <1>4, <2>1, <2>2, ObjCalled DEF PoolFree
<1>5. ASSUME NEW t \in Thread, (\E time \in Time : PoolAlloc(t, time)) \/ PoolAllocAgain(t)
      PROVE  ObjInv'
  BY <1>5, PoolAllocKeeps, PoolAllocAgainKeeps
<1>6. ASSUME NEW t \in Thread,
             \/ WaitFails(t) \/ PoolDetach(t) \/ PoolDrainResume(t) \/ PoolCreate(t)
             \/ DrainTest(t)
      PROVE  ObjInv'
  BY <1>6, WaitFailsKeeps, DetachKeeps, DrainResumeKeeps, InitKeeps, DrainTestKeeps
     DEF PoolDetach, PoolDrainResume, PoolCreate
<1> QED BY <1>1, <1>2, <1>3, <1>4, <1>5, <1>6 DEF MemPoolNext, MemPoolStep

-----------------------------------------------------------------------------
(* Events.                                                                 *)

LEMMA EvtFacts == Evt \in WaitList /\ Evt \in {Lists[i] : i \in DOMAIN Lists}
BY EventAssumption, ObjListsFacts

Ask == [set : SUBSET Bits, opt : {"AND", "OR"}, clear : BOOLEAN]

(* The threads in the list of waiters ask for something; no send left one  *)
(* of them waiting.                                                        *)
EventInv ==
  /\ set \in SUBSET Bits /\ ask \in [Thread -> Ask]
  /\ object = "event" => \A t \in Elements(k.list[Evt]) : ask[t] \in Requests
  /\ object # "event" => set = {} /\ \A t \in Thread : ask[t] = NoAsk
  /\ SendWakesAll

LEMMA RequestFacts ==
  /\ NoAsk \in Ask
  /\ \A r \in Requests : r \in Ask /\ r.set # {} /\ r # NoAsk
  /\ \A r \in Requests \cup {NoAsk} : ~Satisfied(r, {})
<1>1. NoAsk \in Ask /\ NoAsk.set = {} /\ NoAsk.opt = "OR"
  BY DEF NoAsk, Ask
<1>2. ASSUME NEW r \in Requests PROVE r \in Ask /\ r.set # {} /\ r # NoAsk
  BY <1>1, EventAssumption DEF Ask
<1>3. ~Satisfied(NoAsk, {})
  BY <1>1 DEF Satisfied
<1>4. ASSUME NEW r \in Requests PROVE ~Satisfied(r, {})
  BY <1>2 DEF Satisfied
<1> QED BY <1>1, <1>2, <1>3, <1>4

(* Fewer events satisfy fewer requests.                                    *)
LEMMA SatisfiedMore ==
  ASSUME NEW r, NEW S, NEW T, T \subseteq S, Satisfied(r, T) PROVE Satisfied(r, S)
BY DEF Satisfied

(* The loop of rt_event_send, when the first i waiters W have been looked  *)
(* at and the threads U among them resumed: no other among them is left    *)
(* waiting for events that are set, and those received what they asked     *)
(* for, exclusively if they clear it.                                      *)
Turn == [k : KernelRecord, set : SUBSET Bits, ask : [Thread -> Ask]]

Given(y, W, i, U) ==
  /\ Wakes(k, y.k, U) /\ U \subseteq {W[j] : j \in 1 .. i} /\ y.k.error = k.error
  /\ \A u \in Thread \ U : y.ask[u] = ask[u]
  /\ \A u \in U : /\ y.ask[u].set # {} /\ y.ask[u].set \subseteq ask[u].set
                  /\ ask[u].opt = "AND" => y.ask[u].set = ask[u].set
                  /\ ask[u].clear => y.ask[u].set \cap y.set = {}
  /\ \A j \in 1 .. i : W[j] \notin U => ~Satisfied(ask[W[j]], y.set)
  /\ \A a, b \in 1 .. i : a < b /\ W[a] \in U /\ W[b] \in U /\ ask[W[a]].clear =>
       y.ask[W[a]].set \cap y.ask[W[b]].set = {}

(* One turn                                                                *)
LEMMA OfferGives ==
  ASSUME ObjInv, EventInv, object = "event",
         NEW W, W = k.list[Evt], NEW i \in 1 .. Len(W),
         NEW y \in Turn, NEW U \in SUBSET Thread, Given(y, W, i - 1, U),
         NEW r, r = Offer(y, W[i])
  PROVE  r \in Turn /\ \E V \in SUBSET Thread : Given(r, W, i, V)
<1> DEFINE t == W[i]
           rec == y.ask[t].set \cap y.set
<1>1. /\ k \in KernelRecord /\ Consistent(k) /\ AllSuspended(k, Evt) /\ Evt \in WaitList
      /\ W \in Seq(Thread) /\ NoRepeat(W)
  BY ObjFacts, EvtFacts, WaitQueue DEF Consistent, LinkedOnce, NoRepeat
<1>2. /\ Len(W) \in Nat /\ DOMAIN W = 1 .. Len(W) /\ i \in Nat /\ i - 1 \in Nat
      /\ 1 .. i = (1 .. i - 1) \cup {i} /\ i \notin 1 .. i - 1
      /\ 1 .. i \subseteq DOMAIN W
  BY <1>1
<1>3. t \in Thread /\ t \in Elements(k.list[Evt]) /\ k.stat[t] = "suspend" /\ ask[t] \in Requests
  BY <1>1, <1>2 DEF AllSuspended, Elements, EventInv
<1>4. \A j \in 1 .. i - 1 : W[j] # t
  BY <1>1, <1>2 DEF NoRepeat
<1>5. t \notin U
  BY <1>4 DEF Given
<1>6. y.ask[t] = ask[t] /\ ask[t] \in Ask /\ ask[t].set # {}
      /\ y.k \in KernelRecord /\ y.set \in SUBSET Bits /\ y.ask \in [Thread -> Ask]
  BY <1>3, <1>5, RequestFacts DEF Given, Turn
<1>7. CASE ~Satisfied(ask[t], y.set)
  <2>1. r = y
    BY <1>6, <1>7 DEF Offer
  <2>2. U \subseteq {W[j] : j \in 1 .. i}
    BY <1>2 DEF Given
  <2>3. \A j \in 1 .. i : W[j] \notin U => ~Satisfied(ask[W[j]], y.set)
    BY <1>2, <1>7 DEF Given
  <2>4. ASSUME NEW a \in 1 .. i, NEW b \in 1 .. i, a < b, W[a] \in U, W[b] \in U,
               ask[W[a]].clear
        PROVE  y.ask[W[a]].set \cap y.ask[W[b]].set = {}
    <3>1. a \in 1 .. i - 1 /\ b \in 1 .. i - 1
      BY <1>2, <1>5, <2>4
    <3> QED BY <2>4, <3>1 DEF Given
  <2>5. Given(y, W, i, U)
    BY <2>2, <2>3, <2>4 DEF Given
  <2> QED BY <2>1, <2>5
<1>8. CASE Satisfied(ask[t], y.set)
  <2> DEFINE x == Resume(y.k, t)
             V == U \cup {t}
  <2>1. /\ r.k = x
        /\ r.set = IF ask[t].clear THEN y.set \ rec ELSE y.set
        /\ r.ask = [y.ask EXCEPT ![t].set = rec]
        /\ r = [k |-> r.k, set |-> r.set, ask |-> r.ask]
    BY <1>6, <1>8 DEF Offer
  <2>2. /\ r.ask \in [Thread -> Ask] /\ r.ask[t].set = rec
        /\ \A u \in Thread \ {t} : r.ask[u] = y.ask[u]
    <3> DEFINE own == [y.ask[t] EXCEPT !.set = rec]
    <3>1. r.ask = [y.ask EXCEPT ![t] = own]
      BY <2>1
    <3>2. own \in Ask /\ own.set = rec
      BY <1>6 DEF Ask
    <3> HIDE DEF own
    <3> QED BY <1>3, <1>6, <3>1, <3>2
  <2>3. r.set \in SUBSET Bits /\ r.set \subseteq y.set
    <3> HIDE DEF rec
    <3>1. y.set \in SUBSET Bits /\ (r.set = y.set \/ r.set = y.set \ rec)
      BY <1>6, <2>1
    <3> QED BY ONLY <3>1
  <2>4. /\ rec # {} /\ rec \subseteq ask[t].set /\ rec \subseteq y.set
        /\ ask[t].opt = "AND" => rec = ask[t].set
        /\ ask[t].clear => rec \cap r.set = {}
    BY <1>6, <1>8, <2>1 DEF Satisfied
  <2>5. Wakes(y.k, x, {t}) /\ x.error = y.k.error
    <3>1. Elements(y.k.list[Evt]) = Elements(k.list[Evt]) \ U
      <4>1. Wakes(k, y.k, U) /\ U \subseteq Thread
        BY DEF Given
      <4> QED BY ONLY <4>1, <1>1, WakesTakes
    <3>2. t \in Elements(y.k.list[Evt]) /\ y.k.stat[t] = "suspend" /\ Consistent(y.k)
      BY <1>3, <1>5, <3>1 DEF Given, Wakes
    <3> QED BY <1>1, <1>3, <1>6, <3>2, ResumeListed
  <2> HIDE DEF x, rec
  <2>6. Wakes(k, r.k, V)
    <3>1. Wakes(k, y.k, U) /\ U \subseteq Thread /\ {t} \subseteq Thread /\ Wakes(y.k, r.k, {t})
      BY <1>3, <2>1, <2>5 DEF Given
    <3> QED BY ONLY <3>1, <1>1, WakesTrans
  <2>7. V \in SUBSET Thread /\ V \subseteq {W[j] : j \in 1 .. i} /\ r.k.error = k.error
    <3>1. U \subseteq {W[j] : j \in 1 .. i - 1} /\ y.k.error = k.error
      BY DEF Given
    <3>2. r.k.error = k.error
      BY <2>1, <2>5, <3>1
    <3>3. V \in SUBSET Thread
      BY <1>3
    <3>4. V \subseteq {W[j] : j \in 1 .. i}
      BY <1>2, <3>1
    <3> QED BY <3>2, <3>3, <3>4
  <2>8. \A u \in Thread \ V : r.ask[u] = ask[u]
    BY <2>2 DEF Given
  <2>9. ASSUME NEW u \in V
        PROVE  /\ r.ask[u].set # {} /\ r.ask[u].set \subseteq ask[u].set
               /\ ask[u].opt = "AND" => r.ask[u].set = ask[u].set
               /\ ask[u].clear => r.ask[u].set \cap r.set = {}
    <3>1. CASE u = t
      BY <2>2, <2>4, <3>1
    <3>2. CASE u # t
      <4>1. u \in U /\ r.ask[u] = y.ask[u]
        BY <2>2, <3>2
      <4> QED BY <2>3, <4>1 DEF Given
    <3> QED BY <3>1, <3>2
  <2>10. ASSUME NEW j \in 1 .. i, W[j] \notin V PROVE ~Satisfied(ask[W[j]], r.set)
    <3>1. j \in 1 .. i - 1 /\ W[j] \notin U
      BY <1>2, <2>10
    <3> QED BY <2>3, <3>1, SatisfiedMore DEF Given
  <2>11. ASSUME NEW a \in 1 .. i, NEW b \in 1 .. i, a < b, W[a] \in V, W[b] \in V, ask[W[a]].clear
         PROVE  r.ask[W[a]].set \cap r.ask[W[b]].set = {}
    <3>1. a \in 1 .. i - 1 /\ W[a] # t /\ W[a] \in U /\ W[a] \in Thread
          /\ r.ask[W[a]] = y.ask[W[a]] /\ y.ask[W[a]].set \cap y.set = {}
      <4>1. a \in 1 .. i - 1 /\ W[a] # t
        BY <1>2, <1>4, <2>11
      <4>2. W[a] \in U /\ W[a] \in Thread
        BY <2>11, <4>1
      <4>3. y.ask[W[a]].set \cap y.set = {}
        BY <2>11, <4>2 DEF Given
      <4> QED BY <2>2, <4>1, <4>2, <4>3
    <3>2. CASE b = i
      BY <2>2, <2>4, <3>1, <3>2
    <3>3. CASE b # i
      <4>1. b \in 1 .. i - 1 /\ W[b] # t /\ W[b] \in U /\ r.ask[W[b]] = y.ask[W[b]]
        BY <1>2, <1>4, <2>2, <2>11, <3>3
      <4> QED BY <2>11, <3>1, <4>1 DEF Given
    <3> QED BY <3>2, <3>3
  <2>12. Given(r, W, i, V)
    BY <2>6, <2>7, <2>8, <2>9, <2>10, <2>11 DEF Given
  <2>13. r \in Turn
    BY <2>1, <2>2, <2>3, <2>6 DEF Turn, Wakes
  <2> QED BY <2>7, <2>12, <2>13
<1> QED BY <1>7, <1>8

(* The loop of rt_event_send                                               *)
LEMMA DeliveredGives ==
  ASSUME ObjInv, EventInv, object = "event", NEW events \in SUBSET Bits,
         NEW r, r = Delivered(events)
  PROVE  /\ r \in Turn /\ r.set \subseteq set \cup events
         /\ \E V \in SUBSET Thread : Given(r, k.list[Evt], Len(k.list[Evt]), V)
<1> DEFINE W == k.list[Evt]
           N == Len(W)
           start == [k |-> k, set |-> set \cup events, ask |-> ask]
           S(i) == {y \in Turn : /\ y.set \subseteq set \cup events
                                 /\ \E V \in SUBSET Thread : Given(y, W, i, V)}
           Turns(f) == [i \in 0 .. N |-> IF i = 0 THEN start ELSE Offer(f[i - 1], W[i])]
           turn == CHOOSE f : f = Turns(f)
           K == [i \in 0 .. N |-> S(i)]
           G == [p \in (1 .. N) \X Turn |-> Offer(p[2], W[p[1]])]
<1>1. N \in Nat
  BY ObjFacts, EvtFacts
<1>2. start \in S(0)
  <2>1. k \in KernelRecord /\ Wakes(k, k, {})
    BY ObjFacts, WakesNobody
  <2>2. start \in Turn /\ start.k = k /\ start.set = set \cup events /\ start.ask = ask
    BY <2>1 DEF Turn, EventInv
  <2> HIDE DEF start
  <2>3. Given(start, W, 0, {})
    BY <2>1, <2>2 DEF Given
  <2> QED BY <2>2, <2>3
<1>3. ASSUME NEW i \in 1 .. N, NEW y \in S(i - 1) PROVE Offer(y, W[i]) \in S(i)
  <2>1. PICK U \in SUBSET Thread : Given(y, W, i - 1, U)
    BY <1>3
  <2>2. /\ Offer(y, W[i]) \in Turn
        /\ \E V \in SUBSET Thread : Given(Offer(y, W[i]), W, i, V)
    <3> HIDE DEF S
    <3>1. y \in Turn
      BY <1>3 DEF S
    <3> QED BY <2>1, <3>1, OfferGives
  <2>3. Offer(y, W[i]).set \subseteq y.set
    BY DEF Offer
  <2> QED BY <1>3, <2>2, <2>3
<1> HIDE DEF start
<1>4. \E f : Recursive(f, N, start, G)
  <2>1. start \in K[0]
    BY <1>1, <1>2
  <2>2. \A n \in 1 .. N : \A y \in K[n - 1] : G[<<n, y>>] \in K[n]
    <3> SUFFICES ASSUME NEW n \in 1 .. N, NEW y \in K[n - 1] PROVE G[<<n, y>>] \in K[n]
      OBVIOUS
    <3>1. n \in 0 .. N /\ n - 1 \in 0 .. N
      BY <1>1
    <3>2. y \in S(n - 1) /\ y \in Turn
      BY <3>1
    <3>3. Offer(y, W[n]) \in S(n)
      BY <1>3, <3>2
    <3> QED BY <3>1, <3>2, <3>3
  <2> HIDE DEF K, G, N
  <2> QED BY ONLY <1>1, <2>1, <2>2, FiniteRecursion
<1>5. \E f : f = Turns(f)
  <2>1. PICK f : f = [n \in 0 .. N |-> IF n = 0 THEN start ELSE G[<<n, f[n - 1]>>]]
    BY <1>4 DEF Recursive
  <2>2. f[0] \in K[0]
    BY <1>1, <1>2, <2>1
  <2>3. \A n \in 1 .. N : f[n - 1] \in K[n - 1] => f[n] \in K[n]
    <3> SUFFICES ASSUME NEW n \in 1 .. N, f[n - 1] \in K[n - 1] PROVE f[n] \in K[n]
      OBVIOUS
    <3>1. n \in 0 .. N /\ n # 0 /\ n - 1 \in 0 .. N
      BY <1>1
    <3>2. f[n - 1] \in S(n - 1) /\ f[n - 1] \in Turn
      BY <3>1
    <3>3. f[n] = Offer(f[n - 1], W[n])
      BY <2>1, <3>1, <3>2
    <3>4. Offer(f[n - 1], W[n]) \in S(n)
      BY <1>3, <3>2
    <3> QED BY <3>1, <3>3, <3>4
  <2>4. \A n \in 0 .. N : f[n] \in K[n]
    <3> HIDE DEF K, N
    <3> QED BY ONLY <1>1, <2>2, <2>3, FiniteRecursionStays
  <2>5. \A n \in 0 .. N : f[n] \in Turn
    BY <2>4
  <2>6. ASSUME NEW n \in 0 .. N
        PROVE  f[n] = IF n = 0 THEN start ELSE Offer(f[n - 1], W[n])
    <3>1. CASE n = 0
      BY <2>1, <3>1
    <3>2. CASE n # 0
      <4>1. n \in 1 .. N /\ n - 1 \in 0 .. N /\ f[n - 1] \in Turn
        BY <1>1, <2>5, <3>2
      <4> QED BY <2>1, <3>2, <4>1
    <3> QED BY <3>1, <3>2
  <2>7. f = Turns(f)
    BY <2>1, <2>6
  <2> QED BY <2>7
<1>6. turn = Turns(turn)
  BY <1>5
<1>7. r = turn[N]
  BY DEF Delivered, start
<1> HIDE DEF turn
<1>8. turn[0] = start /\ \A n \in 1 .. N : turn[n] = Offer(turn[n - 1], W[n])
  BY <1>1, <1>6
<1>9. \A n \in 0 .. N : turn[n] \in K[n]
  <2>1. turn[0] \in K[0]
    BY <1>1, <1>2, <1>8
  <2>2. ASSUME NEW n \in 1 .. N, turn[n - 1] \in K[n - 1] PROVE turn[n] \in K[n]
    <3>1. turn[n - 1] \in S(n - 1) /\ n \in 0 .. N
      BY <1>1, <2>2
    <3>2. turn[n] = Offer(turn[n - 1], W[n])
      BY <1>8
    <3>3. Offer(turn[n - 1], W[n]) \in S(n)
      BY <1>3, <3>1
    <3> QED BY <3>1, <3>2, <3>3
  <2> HIDE DEF K, N
  <2> QED BY ONLY <1>1, <2>1, <2>2, FiniteRecursionStays
<1>10. turn[N] \in S(N)
  <2> HIDE DEF S, N
  <2>1. N \in 0 .. N /\ K[N] = S(N)
    BY <1>1
  <2> HIDE DEF K
  <2> QED BY <1>9, <2>1
<1> QED BY <1>7, <1>10

(* The sections of rt_event_send                                           *)
LEMMA EventSendKeeps ==
  ASSUME ObjInv, EventInv, object = "event", NEW t \in Thread, NEW events \in SUBSET Bits,
         EventSend(t, events), object' = object
  PROVE  ObjInv'
<1> DEFINE r == Delivered(events)
<1>1. PICK V \in SUBSET Thread : Given(r, k.list[Evt], Len(k.list[Evt]), V)
  BY DeliveredGives
<1> HIDE DEF r
<1>2. /\ ObjCall(t, "send") /\ k' = r.k /\ Goto(t, IF r.k # k THEN "sched" ELSE "app")
      /\ UNCHANGED <<isr, arg, crit, objVars>>
  BY DEF EventSend, r
<1>3. Rouses(k')
  BY <1>1, <1>2 DEF Rouses, Given
<1>4. (IF r.k # k THEN "sched" ELSE "app") \in {"app", "sched", "drain1"}
  OBVIOUS
<1> QED BY <1>2, <1>3, <1>4, ObjCalled

LEMMA EventSendIsrKeeps ==
  ASSUME ObjInv, EventInv, object = "event", NEW events \in SUBSET Bits,
         EventSendIsr(events), object' = object
  PROVE  ObjInv'
<1> DEFINE r == Delivered(events)
<1>1. PICK V \in SUBSET Thread : Given(r, k.list[Evt], Len(k.list[Evt]), V)
  BY DeliveredGives
<1> HIDE DEF r
<1>2. /\ IsrCall("isr_send") /\ (k' = r.k \/ k' = Schedule(r.k))
      /\ UNCHANGED <<isr, pc, arg, crit, objVars>>
  BY DEF EventSendIsr, r
<1>3. Rouses(r.k)
  BY <1>1 DEF Rouses, Given
<1> QED BY <1>2, <1>3, IsrKeeps

(* rt_event_recv                                                           *)
LEMMA EventRecvKeeps ==
  ASSUME ObjInv, NEW t \in Thread, NEW r, NEW time, EventRecv(t, r, time), object' = object
  PROVE  ObjInv'
<1>1. /\ Running(t) /\ k.lock = 0 /\ t # Idle /\ pc[t] = "app" /\ Goto(t, "wait")
      /\ UNCHANGED <<isr, arg, crit, object, flag, alive>> /\ wait' = wait /\ step' = step
      /\ k' = Await(t, Evt, time)
  BY DEF EventRecv, ObjCall, objVars
<1>2. step' = [step EXCEPT ![t] = "none"] /\ wait' \in [Thread -> Time]
  BY <1>1 DEF ObjInv, ObjTypes, StepsInCalls
<1> QED BY <1>1, <1>2, EvtFacts, ObjWaits

LEMMA EventRefuseKeeps ==
  ASSUME ObjInv, NEW t \in Thread, EventRefuse(t), object' = object PROVE ObjInv'
<1>1. /\ ObjCall(t, "recv") /\ pc[t] = "app" /\ pc' = pc /\ UNCHANGED <<isr, arg, crit>>
      /\ UNCHANGED objVars /\ k' = SetError(k, t, "ETIMEOUT")
  BY DEF EventRefuse, ObjCall
<1>2. Goto(t, "app")
  BY <1>1, ObjFacts DEF Goto
<1>3. Rouses(k')
  BY <1>1, ErrorRouses DEF Error
<1> QED BY <1>1, <1>2, <1>3, ObjCalled

LEMMA EventReceivedKeeps ==
  ASSUME ObjInv, NEW t \in Thread, EventReceived(t), object' = object PROVE ObjInv'
<1>1. CallerAt(t) /\ Rouses(k')
  BY WokenCaller, KeepRouses DEF EventReceived
<1> QED BY <1>1, ReturnKeeps DEF EventReceived

LEMMA EventKeeps ==
  ASSUME ObjInv, EventInv, object = "event", Ops \cap Meddling = {}, EventNext, object' = object
  PROVE  ObjInv'
<1>1. CASE Next /\ UNCHANGED <<objVars, eventVars>>
  BY <1>1, ObjNext
<1>2. ASSUME NEW events \in SUBSET Bits,
             EventSendIsr(events) \/ \E t \in Thread : EventSend(t, events)
      PROVE  ObjInv'
  BY <1>2, EventSendKeeps, EventSendIsrKeeps
<1>3. ASSUME NEW t \in Thread,
             \/ \E r \in Requests, time \in Time : EventRecv(t, r, time)
             \/ EventRefuse(t) \/ EventReceived(t)
      PROVE  ObjInv'
  BY <1>3, EventRecvKeeps, EventRefuseKeeps, EventReceivedKeeps
<1>4. ASSUME NEW t \in Thread, EventReset(t) PROVE ObjInv'
  BY <1>4, ResetKeeps DEF EventReset
<1>5. ASSUME NEW t \in Thread,
             \/ WaitFails(t) \/ EventDetach(t) \/ EventCreate(t) \/ DrainTest(t) \/ DrainResume(t)
      PROVE  ObjInv'
  BY <1>5, WaitFailsKeeps, DetachKeeps, InitKeeps, DrainTestKeeps, DrainResumeKeeps
     DEF EventDetach, EventCreate
<1>6. CASE Halt /\ UNCHANGED eventVars
  BY <1>6, ObjStutter DEF Halt
<1> QED BY <1>1, <1>2, <1>3, <1>4, <1>5, <1>6 DEF EventNext, EventStep

(* Waking shortens the wait lists.                                         *)
LEMMA RousesTakes ==
  ASSUME ObjInv, NEW r, Rouses(r), NEW w \in WaitList
  PROVE  Elements(r.list[w]) \subseteq Elements(k.list[w])
<1>1. PICK U \in SUBSET Thread : Wakes(k, r, U)
  BY DEF Rouses
<1>2. k \in KernelRecord /\ U \subseteq Thread
  BY ObjFacts
<1>3. Elements(r.list[w]) = Elements(k.list[w]) \ U
  BY ONLY <1>1, <1>2, w \in WaitList, WakesTakes
<1> QED BY <1>3

LEMMA NextTakes ==
  ASSUME ObjInv, Ops \cap Meddling = {}, Next, NEW w \in WaitList
  PROVE  \E u \in Thread \cup {NoThread} :
           /\ Elements(k'.list[w]) = Elements(k.list[w]) \ {u}
           /\ u \in Elements(k.list[w]) => k'.error[u] = "ETIMEOUT"
<1>1. IpcInv /\ k \in KernelRecord /\ Consistent(k)
  BY ObjFacts
<1>2. PICK u \in Thread \cup {NoThread} : WaitsKept(u)
  BY <1>1, NextIpc DEF Moves
<1>3. Elements(k'.list[w]) = Elements(k.list[w]) \ {u}
  <2>1. k'.list[w] = Without(k.list[w], u)
    BY <1>2 DEF WaitsKept, TakesFrom
  <2>2. Elements(Without(k.list[w], u)) = Elements(k.list[w]) \ {u}
    BY <1>1, WaitTakes
  <2> QED BY <2>1, <2>2
<1>4. u \in Elements(k.list[w]) => u \in Thread /\ InCall(u)
  BY <1>1, IpcFacts
<1> QED BY <1>2, <1>3, <1>4 DEF WaitsKept

(* Steps that leave the waiters and the events alone, or clear the events  *)
LEMMA EventInvQuiet ==
  ASSUME EventInv, object = "event", object' = object,
         set' \in {set, {}}, ask' \in [Thread -> Ask],
         Elements(k'.list[Evt]) \subseteq Elements(k.list[Evt]),
         \A t \in Elements(k'.list[Evt]) : ask'[t] = ask[t] /\ (t \in late => t \in late')
  PROVE  EventInv'
<1>1. \A t \in Elements(k'.list[Evt]) : ask'[t] \in Requests
  BY DEF EventInv
<1>2. \A t \in Elements(k'.list[Evt]) : Satisfied(ask'[t], set') => t \in late'
  BY <1>1, RequestFacts DEF EventInv, SendWakesAll
<1>3. set' \in SUBSET Bits
  BY DEF EventInv
<1> QED BY <1>1, <1>2, <1>3 DEF EventInv, SendWakesAll

LEMMA EventInvSame ==
  ASSUME EventInv, object = "event", object' = object, UNCHANGED eventVars,
         Elements(k'.list[Evt]) \subseteq Elements(k.list[Evt])
  PROVE  EventInv'
<1>1. set' = set /\ ask' = ask /\ late' = late
  BY DEF eventVars
<1>2. ask \in [Thread -> Ask]
  BY DEF EventInv
<1> QED BY <1>1, <1>2, EventInvQuiet

(* The other kinds of object                                               *)
LEMMA EventInvIdle ==
  ASSUME ObjInv', EventInv, object # "event", object' = object, UNCHANGED eventVars
  PROVE  EventInv'
<1>1. set' = set /\ ask' = ask /\ late' = late
  BY DEF eventVars
<1>2. set' = {} /\ \A t \in Thread : ask'[t] = NoAsk
  BY <1>1 DEF EventInv
<1>3. Elements(k'.list[Evt]) \subseteq Thread
  <2>1. k' \in KernelRecord
    BY KernelTypeRecord DEF ObjInv, IpcInv, IInv, TypeOK
  <2> QED BY <2>1, EvtFacts, WaitQueue, EmptyElements DEF KernelRecord, QueueLists
<1>4. \A t \in Elements(k'.list[Evt]) : ~Satisfied(ask'[t], set')
  BY <1>2, <1>3, RequestFacts
<1> QED BY <1>1, <1>2, <1>4 DEF EventInv, SendWakesAll

(* rt_event_send                                                           *)
LEMMA SendInv ==
  ASSUME ObjInv, EventInv, object = "event", object' = object,
         NEW events \in SUBSET Bits, NEW r, r = Delivered(events), SendSection(r),
         k'.list = r.k.list
  PROVE  EventInv'
<1> DEFINE W == k.list[Evt]
<1>1. /\ r \in Turn /\ \E V \in SUBSET Thread : Given(r, W, Len(W), V)
  BY DeliveredGives
<1>2. PICK V \in SUBSET Thread : Given(r, W, Len(W), V)
  BY <1>1
<1>3. /\ k \in KernelRecord /\ Evt \in WaitList /\ W \in Seq(Thread)
      /\ Elements(W) \subseteq Thread
  BY ObjFacts, EvtFacts
<1>4. Elements(r.k.list[Evt]) = Elements(W) \ V
  <2>1. Wakes(k, r.k, V) /\ V \subseteq Thread
    BY <1>2 DEF Given
  <2> QED BY ONLY <1>3, <2>1, WakesTakes
<1>5. set' = r.set /\ ask' = r.ask
  BY DEF SendSection
<1>6. ASSUME NEW t \in Elements(k'.list[Evt])
      PROVE  ask'[t] \in Requests /\ ~Satisfied(ask'[t], set')
  <2>1. t \in Elements(W) /\ t \notin V /\ t \in Thread
    BY <1>3, <1>4
  <2>2. ask'[t] = ask[t] /\ ask[t] \in Requests
    BY <1>2, <1>5, <2>1 DEF Given, EventInv
  <2>3. PICK j \in 1 .. Len(W) : t = W[j]
    BY <1>3, <2>1 DEF Elements
  <2>4. ~Satisfied(ask[W[j]], r.set)
    BY <1>2, <2>1, <2>3 DEF Given
  <2> QED BY <1>5, <2>2, <2>3, <2>4
<1>7. set' \in SUBSET Bits /\ ask' \in [Thread -> Ask]
  BY <1>1, <1>5 DEF Turn
<1> QED BY <1>6, <1>7 DEF EventInv, SendWakesAll

(* rt_event_recv that waits                                                *)
LEMMA RecvInv ==
  ASSUME ObjInv, EventInv, object = "event", object' = object,
         NEW t \in Thread, NEW r \in Requests, NEW time, EventRecv(t, r, time)
  PROVE  EventInv'
<1>1. /\ Running(t) /\ k.lock = 0 /\ pc[t] = "app"
      /\ ask' = [ask EXCEPT ![t] = r] /\ set' = set
      /\ late' = (IF Satisfied(r, set) THEN late \cup {t} ELSE late \ {t})
      /\ k' = Await(t, Evt, time)
  BY DEF EventRecv, ObjCall
<1>2. /\ k \in KernelRecord /\ Consistent(k) /\ Evt \in WaitList
      /\ k.stat[t] \in {"ready", "suspend"} /\ \A v \in WaitList : t \notin Elements(k.list[v])
  BY <1>1, ObjFacts, CallerReady, EvtFacts
<1>3. Elements(k'.list[Evt]) = Elements(k.list[Evt]) \cup {t}
  <2> DEFINE x == IpcSuspend(SetError(k, t, "EOK"), Evt, t, flag)
  <2>1. k' = x \/ k' = StartTimer(x, t)
    BY <1>1 DEF Await
  <2>2. Suspends(k, k', t, Evt)
    BY <1>2, <2>1, AwaitSuspends
  <2> QED BY <2>2 DEF Suspends
<1>4. Elements(k.list[Evt]) \subseteq Thread /\ r \in Ask
  BY EvtFacts, ObjFacts, RequestFacts
<1>5. ask' \in [Thread -> Ask] /\ ask'[t] = r /\ \A u \in Thread \ {t} : ask'[u] = ask[u]
  BY <1>1, <1>4 DEF EventInv
<1>6. \A u \in Elements(k'.list[Evt]) :
        ask'[u] \in Requests /\ (Satisfied(ask'[u], set') => u \in late')
  BY <1>1, <1>3, <1>4, <1>5 DEF EventInv, SendWakesAll
<1> QED BY <1>1, <1>5, <1>6 DEF EventInv, SendWakesAll

(* The end of a call that waited                                           *)
LEMMA ForgetInv ==
  ASSUME ObjInv, EventInv, object = "event", object' = object,
         NEW t \in Thread, Woken(t), Forget(t), k' = k
  PROVE  EventInv'
<1>1. t \notin Elements(k.list[Evt])
  BY WokenCaller, CallerUnlisted, EvtFacts DEF CallerAt, Unlisted
<1>2. ask' = [ask EXCEPT ![t] = NoAsk] /\ late' = late \ {t} /\ set' = set
  BY DEF Forget
<1>3. Elements(k.list[Evt]) \subseteq Thread /\ ask \in [Thread -> Ask]
  BY EvtFacts, ObjFacts DEF EventInv
<1>4. ask' \in [Thread -> Ask] /\ \A u \in Thread \ {t} : ask'[u] = ask[u]
  BY <1>2, <1>3, RequestFacts
<1>5. \A u \in Elements(k'.list[Evt]) : ask'[u] = ask[u] /\ (u \in late => u \in late')
  BY <1>1, <1>2, <1>3, <1>4
<1> QED BY <1>2, <1>4, <1>5, EventInvQuiet

LEMMA EventInvStep ==
  ASSUME ObjInv, EventInv, object = "event", Ops \cap Meddling = {}, EventNext,
         object' = object
  PROVE  EventInv'
<1>1. CASE Next /\ UNCHANGED <<objVars, eventVars>>
  BY <1>1, EvtFacts, NextTakes, EventInvSame
<1>2. ASSUME NEW events \in SUBSET Bits,
             EventSendIsr(events) \/ \E t \in Thread : EventSend(t, events)
      PROVE  EventInv'
  <2> DEFINE r == Delivered(events)
  <2>1. r \in Turn
    BY DeliveredGives
  <2>2. SendSection(r) /\ (k' = r.k \/ k' = Schedule(r.k) \/ (k' = k /\ r.k = k))
    <3> HIDE DEF r
    <3>1. CASE EventSendIsr(events)
      BY <3>1 DEF EventSendIsr, r
    <3>2. ASSUME NEW t \in Thread, EventSend(t, events) PROVE SendSection(r) /\ k' = r.k
      BY <3>2 DEF EventSend, r
    <3> QED BY <1>2, <3>1, <3>2
  <2> HIDE DEF r
  <2>3. k'.list = r.k.list
    BY <2>1, <2>2, ScheduleTakes DEF Turn
  <2> QED BY <2>2, <2>3, SendInv DEF r
<1>3. ASSUME NEW t \in Thread, NEW r \in Requests, NEW time, EventRecv(t, r, time)
      PROVE  EventInv'
  BY <1>3, RecvInv
<1>4. ASSUME NEW t \in Thread, EventRefuse(t) PROVE EventInv'
  <2>1. Rouses(k') /\ UNCHANGED eventVars
    BY <1>4, ErrorRouses DEF EventRefuse, Error
  <2> QED BY <2>1, EvtFacts, RousesTakes, EventInvSame
<1>5. ASSUME NEW t \in Thread, EventReceived(t) \/ (WaitFails(t) /\ Forget(t)) PROVE EventInv'
  <2>1. Woken(t) /\ Forget(t) /\ k' = k
    BY <1>5 DEF EventReceived, WaitFails
  <2> QED BY <2>1, ForgetInv
<1>6. ASSUME NEW t \in Thread, EventReset(t) PROVE EventInv'
  <2>1. Rouses(k') /\ set' = {} /\ ask' = ask /\ late' = late
    BY <1>6, DrainListsDrains, DrainsRouses DEF EventReset
  <2>2. ask \in [Thread -> Ask] /\ Elements(k'.list[Evt]) \subseteq Elements(k.list[Evt])
    BY <2>1, EvtFacts, RousesTakes DEF EventInv
  <2> QED BY <2>1, <2>2, EventInvQuiet
<1>7. ASSUME NEW t \in Thread, EventCreate(t) PROVE EventInv'
  <2>1. k' = k /\ set' = {} /\ ask' = ask /\ late' = late
    BY <1>7 DEF EventCreate, InitObject, vars
  <2>2. ask \in [Thread -> Ask]
    BY DEF EventInv
  <2> QED BY <2>1, <2>2, EventInvQuiet
<1>8. ASSUME NEW t \in Thread,
             EventDetach(t) \/ ((DrainTest(t) \/ DrainResume(t)) /\ UNCHANGED eventVars)
      PROVE  EventInv'
  <2>1. UNCHANGED eventVars
    BY <1>8 DEF EventDetach
  <2>2. Rouses(k')
    <3>1. CASE DrainResume(t)
      <4>1. step[t] \in WaitList /\ k' = DrainOne(k, step[t])
        BY <3>1, ObjListsFacts DEF DrainResume, ObjInv, StepsInCalls
      <4> QED BY <4>1, DrainOneRouses
    <3>2. CASE ~DrainResume(t)
      <4>1. k' = k
        BY <1>8, <3>2 DEF EventDetach, DetachObject, DrainTest
      <4> QED BY <4>1, KeepRouses
    <3> QED BY <3>1, <3>2
  <2> QED BY <2>1, <2>2, EvtFacts, RousesTakes, EventInvSame
<1>9. CASE Halt /\ UNCHANGED eventVars
  <2>1. k' = k
    BY <1>9 DEF Halt, vars
  <2> QED BY <1>9, <2>1, EventInvSame
<1> QED BY <1>1, <1>2, <1>3, <1>4, <1>5, <1>6, <1>7, <1>8, <1>9 DEF EventNext, EventStep

-----------------------------------------------------------------------------
(* All the objects.                                                        *)

ObjectsInv == ObjInv /\ EventInv

LEMMA ObjectsStart ==
  ASSUME IpcObjectsInit PROVE ObjectsInv
<1>1. ObjInv
  BY ObjStarts
<1>2. set = {} /\ ask = [t \in Thread |-> NoAsk] /\ Init
  BY DEF IpcObjectsInit, EventInit, ObjStart
<1>3. pc = [t \in Thread |-> "app"] /\ \A t \in Elements(k.list[Evt]) : Waiting(t) /\ t \in Thread
  BY <1>1, <1>2, EvtFacts, ObjFacts DEF Init, ObjInv, IpcInv, ListedWait
<1>4. Elements(k.list[Evt]) = {}
  BY <1>3 DEF Waiting
<1> QED BY <1>1, <1>2, <1>4, RequestFacts DEF ObjectsInv, EventInv, SendWakesAll

LEMMA ObjectsStep ==
  ASSUME ObjectsInv, Ops \cap Meddling = {}, IpcObjectsNext PROVE ObjectsInv'
<1>1. ObjInv /\ EventInv /\ object' = object
  BY DEF ObjectsInv, IpcObjectsNext
<1>2. CASE object = "event" /\ EventNext
  BY <1>1, <1>2, EventKeeps, EventInvStep DEF ObjectsInv
<1>3. CASE object = "mailbox" /\ MailboxNext /\ UNCHANGED eventVars
  BY <1>1, <1>3, MailboxKeeps, EventInvIdle DEF ObjectsInv
<1>4. CASE object = "queue" /\ MessageQueueNext /\ UNCHANGED eventVars
  BY <1>1, <1>4, QueueKeeps, EventInvIdle DEF ObjectsInv
<1>5. CASE object = "pool" /\ MemPoolNext /\ UNCHANGED eventVars
  BY <1>1, <1>5, PoolKeeps, EventInvIdle DEF ObjectsInv
<1> QED BY <1>2, <1>3, <1>4, <1>5 DEF IpcObjectsNext

LEMMA ObjectsStutter ==
  ASSUME ObjectsInv, UNCHANGED <<vars, objVars, objects>> PROVE ObjectsInv'
<1>1. /\ ObjInv /\ EventInv /\ UNCHANGED vars /\ k' = k /\ UNCHANGED objVars /\ object' = object
      /\ UNCHANGED eventVars
  BY DEF ObjectsInv, objects, vars
<1>2. ObjInv'
  BY <1>1, ObjStutter
<1>3. EventInv'
  BY <1>1, <1>2, EventInvSame, EventInvIdle
<1> QED BY <1>2, <1>3 DEF ObjectsInv

THEOREM ObjectsInvariant ==
  ASSUME Ops \cap Meddling = {} PROVE IpcObjectsSpec => []ObjectsInv
<1>1. ObjectsInv /\ [IpcObjectsNext]_<<vars, objVars, objects>> => ObjectsInv'
  BY ObjectsStep, ObjectsStutter
<1> QED BY <1>1, ObjectsStart, PTL DEF IpcObjectsSpec

(* The threads that sleep in a call on an event, a mailbox, a message      *)
(* queue or a memory pool are those in its wait lists: there a wakeup, a   *)
(* reset or a detach finds them, whatever interrupt, timeout or thread     *)
(* comes between the sections of the calls.                                *)
THEOREM WaitersAreListed ==
  ASSUME Ops \cap Meddling = {} PROVE IpcObjectsSpec => []WaitersListed
<1>1. ObjectsInv => WaitersListed
  BY ListedDozeIsWaitersListed DEF ObjectsInv, ObjInv
<1> QED BY <1>1, ObjectsInvariant, PTL

(* No rt_event_send leaves a thread waiting whose request the event set    *)
(* satisfies, however the threads before it in the list clear events.      *)
THEOREM SendsWakeAll ==
  ASSUME Ops \cap Meddling = {} PROVE IpcObjectsSpec => []SendWakesAll
<1>1. ObjectsInv => SendWakesAll
  BY DEF ObjectsInv, EventInv
<1> QED BY <1>1, ObjectsInvariant, PTL

-----------------------------------------------------------------------------
(* Who leaves the list of an event, and with what.                         *)

(* The threads taken out of the list have an error.                        *)
NobodyLeaves ==
  \A t \in Elements(k.list[Evt]) : t \in Elements(k'.list[Evt]) \/ k'.error[t] # "EOK"

(* What ClearedOnce says of the i-th thread of the list                    *)
Exclusive(i) ==
  LET t == k.list[Evt][i]
  IN  Leaving(t) =>
        /\ ask'[t].set # {} /\ ask'[t].set \subseteq ask[t].set
        /\ ask[t].opt = "AND" => ask'[t].set = ask[t].set
        /\ ask[t].clear =>
             /\ ask'[t].set \cap set' = {}
             /\ \A j \in i + 1 .. Len(k.list[Evt]) :
                  Leaving(k.list[Evt][j]) => ask'[t].set \cap ask'[k.list[Evt][j]].set = {}

LEMMA NobodyExclusive ==
  ASSUME NobodyLeaves PROVE \A i \in DOMAIN k.list[Evt] : Exclusive(i)
<1>1. \A t : ~Leaving(t)
  BY DEF NobodyLeaves, Leaving
<1> QED BY <1>1 DEF Exclusive

(* rt_event_send                                                           *)
LEMMA SendExclusive ==
  ASSUME ObjInv, EventInv, object = "event",
         NEW events \in SUBSET Bits, NEW r, r = Delivered(events), SendSection(r),
         k'.list = r.k.list, NEW i \in DOMAIN k.list[Evt]
  PROVE  Exclusive(i)
<1> DEFINE W == k.list[Evt]
           t == W[i]
<1>1. PICK V \in SUBSET Thread : Given(r, W, Len(W), V)
  BY DeliveredGives
<1>2. /\ k \in KernelRecord /\ Evt \in WaitList /\ W \in Seq(Thread)
      /\ Elements(W) \subseteq Thread
  BY ObjFacts, EvtFacts
<1>3. Elements(r.k.list[Evt]) = Elements(W) \ V
  <2>1. Wakes(k, r.k, V) /\ V \subseteq Thread
    BY <1>1 DEF Given
  <2> QED BY ONLY <1>2, <2>1, WakesTakes
<1>4. set' = r.set /\ ask' = r.ask
  BY DEF SendSection
<1>5. \A u : Leaving(u) => u \in V
  BY <1>3 DEF Leaving
<1>6. Len(W) \in Nat /\ DOMAIN W = 1 .. Len(W) /\ i \in 1 .. Len(W)
  BY <1>2
<1> HIDE DEF W
<1>7. ASSUME Leaving(t)
      PROVE  /\ ask'[t].set # {} /\ ask'[t].set \subseteq ask[t].set
             /\ ask[t].opt = "AND" => ask'[t].set = ask[t].set
             /\ ask[t].clear => ask'[t].set \cap set' = {}
  BY <1>1, <1>4, <1>5, <1>7 DEF Given
<1>8. ASSUME Leaving(t), ask[t].clear, NEW j \in i + 1 .. Len(W), Leaving(W[j])
      PROVE  ask'[t].set \cap ask'[W[j]].set = {}
  <2>1. j \in 1 .. Len(W) /\ i < j /\ t \in V /\ W[j] \in V
    BY <1>5, <1>6, <1>8
  <2> QED BY <1>1, <1>4, <1>6, <1>8, <2>1 DEF Given
<1> QED BY <1>7, <1>8 DEF Exclusive, W

(* rt_ipc_list_resume_all                                                  *)
LEMMA DrainsNobody ==
  ASSUME ObjInv, Drains(k') PROVE NobodyLeaves
<1>1. PICK U \in SUBSET Thread :
        /\ Wakes(k, k', U)
        /\ \A t \in Thread : k'.error[t] = IF t \in U THEN "ERROR" ELSE k.error[t]
  BY DEF Drains
<1>2. /\ k \in KernelRecord /\ Evt \in WaitList /\ Elements(k.list[Evt]) \subseteq Thread
      /\ U \subseteq Thread
  BY ObjFacts, EvtFacts
<1>3. Elements(k'.list[Evt]) = Elements(k.list[Evt]) \ U
  BY ONLY <1>1, <1>2, WakesTakes
<1> QED BY <1>1, <1>2, <1>3 DEF NobodyLeaves

LEMMA DrainOneNobody ==
  ASSUME ObjInv, NEW w \in WaitList, k' = DrainOne(k, w) PROVE NobodyLeaves
<1>1. k \in KernelRecord /\ Consistent(k) /\ AllSuspended(k, w)
      /\ Elements(k.list[Evt]) \subseteq Thread /\ Evt \in WaitList
  BY ObjFacts, EvtFacts
<1>2. CASE k.list[w] = << >>
  <2>1. k'.list = k.list
    BY <1>1, <1>2 DEF DrainOne, KernelRecord
  <2> QED BY <2>1 DEF NobodyLeaves
<1>3. CASE k.list[w] # << >>
  <2> DEFINE h == Head(k.list[w])
  <2>1. Wakes(k, k', {h}) /\ h \in Thread /\ k'.error = Update(k.error, h, "ERROR")
    BY <1>1, <1>3, DrainOneWakes
  <2> HIDE DEF h
  <2>2. {h} \subseteq Thread
    BY <2>1
  <2>3. Elements(k'.list[Evt]) = Elements(k.list[Evt]) \ {h}
    BY ONLY <1>1, <2>1, <2>2, WakesTakes
  <2>4. k'.error[h] = "ERROR"
    BY <1>1, <2>1 DEF Update, KernelRecord
  <2> QED BY <2>3, <2>4 DEF NobodyLeaves
<1> QED BY <1>2, <1>3

(* The other steps                                                         *)
LEMMA EventExclusive ==
  ASSUME ObjInv, EventInv, object = "event", Ops \cap Meddling = {}, EventNext,
         NEW i \in DOMAIN k.list[Evt]
  PROVE  Exclusive(i)
<1>1. CASE Next
  <2>1. PICK u \in Thread \cup {NoThread} :
          /\ Elements(k'.list[Evt]) = Elements(k.list[Evt]) \ {u}
          /\ u \in Elements(k.list[Evt]) => k'.error[u] = "ETIMEOUT"
    BY <1>1, EvtFacts, NextTakes
  <2>2. NobodyLeaves
    BY <2>1 DEF NobodyLeaves
  <2> QED BY <2>2, NobodyExclusive
<1>2. ASSUME NEW events \in SUBSET Bits,
             EventSendIsr(events) \/ \E t \in Thread : EventSend(t, events)
      PROVE  Exclusive(i)
  <2> DEFINE r == Delivered(events)
  <2>1. r \in Turn
    BY DeliveredGives
  <2> HIDE DEF r
  <2>2. SendSection(r) /\ (k' = r.k \/ k' = Schedule(r.k) \/ (k' = k /\ r.k = k))
    <3>1. CASE EventSendIsr(events)
      BY <3>1 DEF EventSendIsr, r
    <3>2. ASSUME NEW t \in Thread, EventSend(t, events) PROVE SendSection(r) /\ k' = r.k
      BY <3>2 DEF EventSend, r
    <3> QED BY <1>2, <3>1, <3>2
  <2>3. k'.list = r.k.list
    BY <2>1, <2>2, ScheduleTakes DEF Turn
  <2> QED BY <2>2, <2>3, SendExclusive DEF r
<1>3. ASSUME NEW t \in Thread, NEW r, NEW time, EventRecv(t, r, time) PROVE Exclusive(i)
  <2>1. /\ k' = Await(t, Evt, time) /\ Running(t) /\ k.lock = 0 /\ pc[t] = "app"
    BY <1>3 DEF EventRecv, ObjCall
  <2>2. /\ k \in KernelRecord /\ Consistent(k) /\ Evt \in WaitList
        /\ k.stat[t] \in {"ready", "suspend"} /\ \A v \in WaitList : t \notin Elements(k.list[v])
    BY <2>1, ObjFacts, CallerReady, EvtFacts
  <2> DEFINE x == IpcSuspend(SetError(k, t, "EOK"), Evt, t, flag)
  <2>3. k' = x \/ k' = StartTimer(x, t)
    BY <2>1 DEF Await
  <2>4. Suspends(k, k', t, Evt)
    BY <2>2, <2>3, AwaitSuspends
  <2>5. NobodyLeaves
    BY <2>4 DEF Suspends, NobodyLeaves
  <2> QED BY <2>5, NobodyExclusive
<1>4. ASSUME k'.list = k.list PROVE Exclusive(i)
  <2>1. NobodyLeaves
    BY <1>4 DEF NobodyLeaves
  <2> QED BY <2>1, NobodyExclusive
<1>5. ASSUME NEW t \in Thread,
             \/ EventRefuse(t) \/ EventReceived(t) \/ WaitFails(t)
             \/ EventDetach(t) \/ EventCreate(t) \/ DrainTest(t)
      PROVE  Exclusive(i)
  <2>1. k' = k \/ k' = SetError(k, t, "ETIMEOUT")
    BY <1>5 DEF EventRefuse, EventReceived, WaitFails, EventDetach, DetachObject,
                EventCreate, InitObject, vars, DrainTest
  <2>2. k'.list = k.list
    BY <2>1, ObjFacts, SetErrorWakes DEF Error
  <2> QED BY <1>4, <2>2
<1>6. ASSUME NEW t \in Thread, EventReset(t) PROVE Exclusive(i)
  <2>1. Drains(k')
    BY <1>6, DrainListsDrains DEF EventReset
  <2> QED BY <2>1, DrainsNobody, NobodyExclusive
<1>7. ASSUME NEW t \in Thread, DrainResume(t) PROVE Exclusive(i)
  <2>1. step[t] \in WaitList /\ k' = DrainOne(k, step[t])
    BY <1>7, ObjListsFacts DEF DrainResume, ObjInv, StepsInCalls
  <2> QED BY <2>1, DrainOneNobody, NobodyExclusive
<1>8. CASE Halt
  BY <1>4, <1>8 DEF Halt, vars
<1> QED BY <1>1, <1>2, <1>3, <1>5, <1>6, <1>7, <1>8 DEF EventNext, EventStep

(* A thread leaves the list of an event without an error only when a send  *)
(* gives it what it asked for, and what it receives with CLEAR no other    *)
(* thread receives and no event set keeps.                                 *)
THEOREM EventsAreClearedOnce ==
  ASSUME Ops \cap Meddling = {} PROVE IpcObjectsSpec => ClearedOnce
<1>1. ASSUME ObjectsInv, IpcObjectsNext PROVE \A i \in DOMAIN k.list[Evt] : Exclusive(i)
  <2>1. ObjInv /\ EventInv
    BY <1>1 DEF ObjectsInv
  <2>2. CASE object = "event" /\ EventNext
    BY <2>1, <2>2, EventExclusive
  <2>3. CASE object # "event"
    <3>1. Elements(k.list[Evt]) \subseteq Thread
      BY <2>1, ObjFacts, EvtFacts
    <3>2. \A t : ~Leaving(t)
      BY <2>1, <2>3, <3>1 DEF Leaving, EventInv
    <3> QED BY <3>2 DEF Exclusive
  <2> QED BY <1>1, <2>2, <2>3 DEF IpcObjectsNext
<1>2. UNCHANGED <<vars, objVars, objects>> => UNCHANGED <<vars, objVars, eventVars>>
  BY DEF objects
<1>3. ObjectsInv /\ [IpcObjectsNext]_<<vars, objVars, objects>> =>
        [\A i \in DOMAIN k.list[Evt] : Exclusive(i)]_<<vars, objVars, eventVars>>
  BY <1>1, <1>2
<1> QED BY <1>3, ObjectsInvariant, PTL DEF IpcObjectsSpec, ClearedOnce, Exclusive

-----------------------------------------------------------------------------
(* The messages of a message queue.                                        *)

(* The hands m of the threads are apart from the messages N, and hold      *)
(* different ones.                                                         *)
HandsApart(m, N) ==
  \A t \in Thread : m[t] # NoNode =>
    m[t] \notin N /\ \A u \in Thread : m[u] = m[t] => u = t

(* The lists q and f hold messages once, and none that is in the hands m.  *)
Apart(q, f, m) ==
  /\ q \in Seq(Node) /\ NoRepeat(q) /\ f \in Seq(Node) /\ NoRepeat(f)
  /\ Elements(q) \cap Elements(f) = {}
  /\ m \in [Thread -> Node \cup {NoNode}]
  /\ HandsApart(m, Elements(q) \cup Elements(f))

MessagesApart == Apart(msg_queue, msg_queue_free, msg) /\ mq_entry = Len(msg_queue)

LEMMA HandsTake ==
  ASSUME NEW m \in [Thread -> Node \cup {NoNode}], NEW N, HandsApart(m, N),
         NEW n \in N \cap Node, NEW t \in Thread, NEW r, r = Update(m, t, n)
  PROVE  r \in [Thread -> Node \cup {NoNode}] /\ HandsApart(r, N \ {n})
<1>1. r \in [Thread -> Node \cup {NoNode}] /\ r[t] = n
      /\ \A u \in Thread \ {t} : r[u] = m[u]
  BY DEF Update
<1>2. n # NoNode /\ \A u \in Thread : m[u] # n
  BY MessageQueueAssumption DEF HandsApart
<1> QED BY <1>1, <1>2 DEF HandsApart

LEMMA HandsGive ==
  ASSUME NEW m \in [Thread -> Node \cup {NoNode}], NEW N, HandsApart(m, N),
         NEW t \in Thread, m[t] # NoNode, NEW r, r = Update(m, t, NoNode)
  PROVE  /\ r \in [Thread -> Node \cup {NoNode}] /\ HandsApart(r, N \cup {m[t]})
         /\ m[t] \in Node /\ m[t] \notin N
<1>1. r \in [Thread -> Node \cup {NoNode}] /\ r[t] = NoNode
      /\ \A u \in Thread \ {t} : r[u] = m[u]
  BY DEF Update
<1> QED BY <1>1 DEF HandsApart

LEMMA HandsLess ==
  ASSUME NEW m, NEW N, HandsApart(m, N), NEW M, M \subseteq N PROVE HandsApart(m, M)
BY DEF HandsApart

(* The first section of a send                                             *)
LEMMA ApartSend ==
  ASSUME NEW q, NEW f, NEW m, Apart(q, f, m), f # << >>, NEW t \in Thread,
         NEW r, r = Update(m, t, Head(f))
  PROVE  Apart(q, Tail(f), r) /\ Head(f) \in Node
<1> DEFINE n == Head(f)
<1>1. /\ n \in Elements(f) /\ n \in Node
      /\ Tail(f) \in Seq(Node) /\ NoRepeat(Tail(f)) /\ Elements(Tail(f)) = Elements(f) \ {n}
  BY WithoutHead DEF Apart
<1>2. r = Update(m, t, n)
  OBVIOUS
<1> HIDE DEF n
<1>3. /\ r \in [Thread -> Node \cup {NoNode}]
      /\ HandsApart(r, (Elements(q) \cup Elements(f)) \ {n})
  <2> DEFINE N == Elements(q) \cup Elements(f)
  <2>1. n \in N \cap Node /\ m \in [Thread -> Node \cup {NoNode}] /\ HandsApart(m, N)
    BY <1>1 DEF Apart
  <2> HIDE DEF N
  <2>2. r \in [Thread -> Node \cup {NoNode}] /\ HandsApart(r, N \ {n})
    BY <1>2, <2>1, HandsTake
  <2> QED BY <2>2 DEF N
<1>4. Elements(q) \cup Elements(Tail(f)) = (Elements(q) \cup Elements(f)) \ {n}
  BY <1>1 DEF Apart
<1> QED BY <1>1, <1>3, <1>4 DEF Apart, n

(* rt_mq_recv *)
LEMMA ApartTake ==
  ASSUME NEW q, NEW f, NEW m, Apart(q, f, m), q # << >>, NEW t \in Thread,
         NEW r, r = Update(m, t, Head(q))
  PROVE  Apart(Tail(q), f, r) /\ Head(q) \in Node
<1> DEFINE n == Head(q)
<1>1. /\ n \in Elements(q) /\ n \in Node
      /\ Tail(q) \in Seq(Node) /\ NoRepeat(Tail(q)) /\ Elements(Tail(q)) = Elements(q) \ {n}
  BY WithoutHead DEF Apart
<1>2. r = Update(m, t, n)
  OBVIOUS
<1> HIDE DEF n
<1>3. /\ r \in [Thread -> Node \cup {NoNode}]
      /\ HandsApart(r, (Elements(q) \cup Elements(f)) \ {n})
  <2> DEFINE N == Elements(q) \cup Elements(f)
  <2>1. n \in N \cap Node /\ m \in [Thread -> Node \cup {NoNode}] /\ HandsApart(m, N)
    BY <1>1 DEF Apart
  <2> HIDE DEF N
  <2>2. r \in [Thread -> Node \cup {NoNode}] /\ HandsApart(r, N \ {n})
    BY <1>2, <2>1, HandsTake
  <2> QED BY <2>2 DEF N
<1>4. Elements(Tail(q)) \cup Elements(f) = (Elements(q) \cup Elements(f)) \ {n}
  BY <1>1 DEF Apart
<1> QED BY <1>1, <1>3, <1>4 DEF Apart, n

(* The messages of the lists may be linked in any other way.               *)
LEMMA ApartLists ==
  ASSUME NEW q, NEW f, NEW m, Apart(q, f, m),
         NEW p \in Seq(Node), NEW g \in Seq(Node), NoRepeat(p), NoRepeat(g),
         Elements(p) \cap Elements(g) = {},
         Elements(p) \cup Elements(g) \subseteq Elements(q) \cup Elements(f)
  PROVE  Apart(p, g, m)
<1>1. HandsApart(m, Elements(p) \cup Elements(g))
  BY HandsLess DEF Apart
<1> QED BY <1>1 DEF Apart

(* The message in the hand of t goes to a list.                            *)
LEMMA ApartGive ==
  ASSUME NEW q, NEW f, NEW m, Apart(q, f, m), NEW t \in Thread, m[t] # NoNode,
         NEW r, r = Update(m, t, NoNode),
         NEW p \in Seq(Node), NEW g \in Seq(Node), NoRepeat(p), NoRepeat(g),
         Elements(p) \cap Elements(g) = {},
         Elements(p) \cup Elements(g) \subseteq Elements(q) \cup Elements(f) \cup {m[t]}
  PROVE  Apart(p, g, r)
<1> DEFINE N == Elements(q) \cup Elements(f)
<1>1. m \in [Thread -> Node \cup {NoNode}] /\ HandsApart(m, N)
  BY DEF Apart
<1>2. r \in [Thread -> Node \cup {NoNode}] /\ HandsApart(r, N \cup {m[t]})
  <2> HIDE DEF N
  <2> QED BY <1>1, HandsGive
<1>3. HandsApart(r, Elements(p) \cup Elements(g))
  BY <1>2, HandsLess
<1> QED BY <1>2, <1>3 DEF Apart

(* A message that is linked to the queue                                   *)
LEMMA QueueWithFacts ==
  ASSUME msg_queue \in Seq(Node), NEW n \in Node, NEW urgent, NEW q, q = QueueWith(n, urgent)
  PROVE  /\ q \in Seq(Node) /\ Elements(q) = Elements(msg_queue) \cup {n}
         /\ Len(q) = Len(msg_queue) + 1
         /\ NoRepeat(msg_queue) /\ n \notin Elements(msg_queue) => NoRepeat(q)
<1>1. CASE urgent
  <2>1. q = <<n>> \o msg_queue
    BY <1>1 DEF QueueWith
  <2>2. Len(<<n>> \o msg_queue) = Len(msg_queue) + 1
    OBVIOUS
  <2> QED BY <2>1, <2>2, ConsFacts
<1>2. CASE ~urgent
  <2>1. q = Append(msg_queue, n)
    BY <1>2 DEF QueueWith
  <2> QED BY <2>1, AppendFacts
<1> QED BY <1>1, <1>2

LEMMA ApartMsgSend ==
  ASSUME MessagesApart, NEW t \in Thread, NEW v, NEW urgent, MsgSend(t, v, urgent)
  PROVE  MessagesApart' /\ \E n \in Node : msg' = Update(msg, t, n)
<1>1. /\ msg_queue_free # << >> /\ msg_queue_free' = Tail(msg_queue_free)
      /\ msg' = Update(msg, t, Head(msg_queue_free))
      /\ msg_queue' = msg_queue /\ mq_entry' = mq_entry
  BY DEF MsgSend, Update
<1>2. Apart(msg_queue, msg_queue_free, msg)
  BY DEF MessagesApart
<1>3. Apart(msg_queue, Tail(msg_queue_free), msg') /\ Head(msg_queue_free) \in Node
  BY <1>1, <1>2, ApartSend
<1> QED BY <1>1, <1>3 DEF MessagesApart

LEMMA ApartTakeMsg ==
  ASSUME MessagesApart, NEW t \in Thread, mq_entry # 0, TakeMsg(t),
         UNCHANGED msg_queue_free
  PROVE  MessagesApart' /\ \E n \in Node : msg' = Update(msg, t, n)
<1>1. /\ msg_queue' = Tail(msg_queue) /\ mq_entry' = mq_entry - 1
      /\ msg' = Update(msg, t, Head(msg_queue))
  BY DEF TakeMsg, Update
<1>2. Apart(msg_queue, msg_queue_free, msg) /\ msg_queue \in Seq(Node) /\ msg_queue # << >>
  BY DEF MessagesApart, Apart
<1>3. Apart(Tail(msg_queue), msg_queue_free, msg') /\ Head(msg_queue) \in Node
  BY <1>1, <1>2, ApartTake
<1>4. Len(Tail(msg_queue)) = Len(msg_queue) - 1
  BY <1>2
<1> QED BY <1>1, <1>3, <1>4 DEF MessagesApart

LEMMA ApartMsgLink ==
  ASSUME MessagesApart, NEW t \in Thread, msg[t] # NoNode, MsgLink(t)
  PROVE  MessagesApart'
<1>1. PICK urgent \in BOOLEAN : msg_queue' = QueueWith(msg[t], urgent)
  BY DEF MsgLink
<1>2. /\ mq_entry' = mq_entry + 1 /\ msg_queue_free' = msg_queue_free
      /\ msg' = Update(msg, t, NoNode)
  BY DEF MsgLink, Update
<1>3. /\ Apart(msg_queue, msg_queue_free, msg) /\ msg_queue \in Seq(Node) /\ NoRepeat(msg_queue)
      /\ msg_queue_free \in Seq(Node) /\ NoRepeat(msg_queue_free)
      /\ Elements(msg_queue) \cap Elements(msg_queue_free) = {}
      /\ msg[t] \in Node /\ msg[t] \notin Elements(msg_queue) \cup Elements(msg_queue_free)
  BY DEF MessagesApart, Apart, HandsApart
<1>4. /\ msg_queue' \in Seq(Node) /\ NoRepeat(msg_queue')
      /\ Elements(msg_queue') = Elements(msg_queue) \cup {msg[t]}
      /\ Len(msg_queue') = Len(msg_queue) + 1
  BY <1>1, <1>3, QueueWithFacts
<1>5. Apart(msg_queue', msg_queue_free, msg')
  <2>1. /\ Elements(msg_queue') \cap Elements(msg_queue_free) = {}
        /\ Elements(msg_queue') \cup Elements(msg_queue_free)
             \subseteq Elements(msg_queue) \cup Elements(msg_queue_free) \cup {msg[t]}
    BY <1>3, <1>4
  <2> QED BY <1>2, <1>3, <1>4, <2>1, ApartGive
<1> QED BY <1>2, <1>4, <1>5 DEF MessagesApart

LEMMA ApartMsgFree ==
  ASSUME MessagesApart, NEW t \in Thread, msg[t] # NoNode, MsgFree(t)
  PROVE  MessagesApart'
<1>1. /\ mq_entry' = mq_entry /\ msg_queue' = msg_queue
      /\ msg' = Update(msg, t, NoNode)
  BY DEF MsgFree, Update
<1>2. /\ Apart(msg_queue, msg_queue_free, msg) /\ msg_queue \in Seq(Node) /\ NoRepeat(msg_queue)
      /\ msg_queue_free \in Seq(Node) /\ NoRepeat(msg_queue_free)
      /\ Elements(msg_queue) \cap Elements(msg_queue_free) = {}
      /\ msg[t] \in Node /\ msg[t] \notin Elements(msg_queue) \cup Elements(msg_queue_free)
  BY DEF MessagesApart, Apart, HandsApart
<1>3. CASE msg_queue_free' = msg_queue_free
  <2>1. Apart(msg_queue, msg_queue_free, msg')
    BY <1>1, <1>2, ApartGive
  <2> QED BY <1>1, <1>3, <2>1 DEF MessagesApart
<1>4. CASE /\ msg_queue_free # << >>
           /\ msg_queue_free' = <<msg[t]>> \o Tail(msg_queue_free)
  <2> DEFINE f == Tail(msg_queue_free)
             g == <<msg[t]>> \o f
  <2>1. f \in Seq(Node) /\ NoRepeat(f) /\ Elements(f) \subseteq Elements(msg_queue_free)
    BY <1>2, <1>4, WithoutHead
  <2>2. g \in Seq(Node) /\ NoRepeat(g) /\ Elements(g) = Elements(f) \cup {msg[t]}
    <3> HIDE DEF f
    <3> QED BY <1>2, <2>1, ConsFacts
  <2>3. msg_queue_free' = g
    BY <1>4
  <2> HIDE DEF f, g
  <2>4. /\ Elements(msg_queue) \cap Elements(g) = {}
        /\ Elements(msg_queue) \cup Elements(g)
             \subseteq Elements(msg_queue) \cup Elements(msg_queue_free) \cup {msg[t]}
    BY <1>2, <2>1, <2>2
  <2>5. Apart(msg_queue, g, msg')
    BY <1>1, <1>2, <2>2, <2>4, ApartGive
  <2> QED BY <1>1, <2>3, <2>5 DEF MessagesApart
<1> QED BY <1>3, <1>4 DEF MsgFree

LEMMA ApartSendIsr ==
  ASSUME MessagesApart, NEW v, MsgSendIsr(v) PROVE MessagesApart'
<1> DEFINE n == Head(msg_queue_free)
           f == Tail(msg_queue_free)
<1>1. /\ msg_queue_free # << >> /\ msg_queue_free' = f /\ msg_queue' = QueueWith(n, FALSE)
      /\ mq_entry' = mq_entry + 1 /\ msg' = msg
  BY DEF MsgSendIsr
<1>2. /\ Apart(msg_queue, msg_queue_free, msg) /\ msg_queue \in Seq(Node) /\ NoRepeat(msg_queue)
      /\ msg_queue_free \in Seq(Node) /\ NoRepeat(msg_queue_free)
      /\ Elements(msg_queue) \cap Elements(msg_queue_free) = {}
  BY DEF MessagesApart, Apart
<1>3. /\ n \in Elements(msg_queue_free) /\ n \in Node
      /\ f \in Seq(Node) /\ NoRepeat(f) /\ Elements(f) = Elements(msg_queue_free) \ {n}
  BY <1>1, <1>2, WithoutHead
<1> HIDE DEF n, f
<1>4. /\ msg_queue' \in Seq(Node) /\ NoRepeat(msg_queue')
      /\ Elements(msg_queue') = Elements(msg_queue) \cup {n}
      /\ Len(msg_queue') = Len(msg_queue) + 1
  <2>1. n \notin Elements(msg_queue)
    BY <1>2, <1>3
  <2> QED BY <1>1, <1>2, <1>3, <2>1, QueueWithFacts
<1>5. /\ Elements(msg_queue') \cap Elements(f) = {}
      /\ Elements(msg_queue') \cup Elements(f) \subseteq Elements(msg_queue) \cup Elements(msg_queue_free)
  BY <1>2, <1>3, <1>4
<1>6. Apart(msg_queue', f, msg)
  BY <1>2, <1>3, <1>4, <1>5, ApartLists
<1> QED BY <1>1, <1>4, <1>6 DEF MessagesApart

(* reset *)
LEMMA ApartReset ==
  ASSUME MessagesApart, NEW t \in Thread, MsgReset(t) PROVE MessagesApart'
<1> DEFINE r == [i \in DOMAIN msg_queue |-> msg_queue[Len(msg_queue) + 1 - i]]
           g == r \o msg_queue_free
<1>1. msg_queue_free' = g /\ msg_queue' = << >> /\ mq_entry' = 0 /\ msg' = msg
  BY DEF MsgReset
<1>2. /\ Apart(msg_queue, msg_queue_free, msg) /\ msg_queue \in Seq(Node) /\ NoRepeat(msg_queue)
      /\ msg_queue_free \in Seq(Node) /\ NoRepeat(msg_queue_free)
      /\ Elements(msg_queue) \cap Elements(msg_queue_free) = {}
  BY DEF MessagesApart, Apart
<1>3. r \in Seq(Node) /\ Elements(r) = Elements(msg_queue) /\ NoRepeat(r)
  BY <1>2, ReverseFacts
<1>4. /\ g \in Seq(Node) /\ NoRepeat(g)
      /\ Elements(g) = Elements(msg_queue) \cup Elements(msg_queue_free)
  <2> HIDE DEF r
  <2> QED BY <1>2, <1>3, ConcatFacts
<1> HIDE DEF g
<1>5. << >> \in Seq(Node) /\ NoRepeat(<< >>) /\ Elements(<< >>) = {} /\ Len(<< >>) = 0
  BY DEF NoRepeat, Elements
<1>6. Apart(<< >>, g, msg)
  BY <1>2, <1>4, <1>5, ApartLists
<1> QED BY <1>1, <1>5, <1>6 DEF MessagesApart

(* init, create *)
LEMMA ApartFresh ==
  ASSUME NEW f \in {FreeAll, << >>}, NEW m \in [Thread -> {NoNode}]
  PROVE  Apart(<< >>, f, m) /\ Len(<< >>) = 0
<1>1. << >> \in Seq(Node) /\ NoRepeat(<< >>) /\ Elements(<< >>) = {} /\ Len(<< >>) = 0
  BY DEF NoRepeat, Elements
<1>2. f \in Seq(Node) /\ NoRepeat(f)
  <2>1. CASE f = FreeAll
    <3>1. IsFiniteSet(Node)
      BY MessageQueueAssumption
    <3>2. f = CHOOSE s \in [1 .. Cardinality(Node) -> Node] : Elements(s) = Node
      BY <2>1 DEF FreeAll
    <3> QED BY <3>1, <3>2, EachOnce
  <2>2. CASE f = << >>
    BY <1>1, <2>2
  <2> QED BY <2>1, <2>2
<1>3. m \in [Thread -> Node \cup {NoNode}] /\ \A t \in Thread : m[t] = NoNode
  OBVIOUS
<1> QED BY <1>1, <1>2, <1>3 DEF Apart, HandsApart

(* The threads that are somewhere in their call                            *)
Held(t) == pc[t] = "waited" /\ step[t] # "none"
HeldKept == \A u \in Thread : Held(u)' <=> Held(u)

(* While the object is detached those who wait are still to be woken, or   *)
(* return with an error, but for a sender of a mailbox that was suspended, *)
(* and lost the processor before it was linked: it never runs again.       *)
Quits(t) ==
  \/ step[t] = "none" /\ (k.stat[t] = "suspend" \/ k.error[t] # "EOK")
  \/ Linking(t) /\ k.cur # t
WaitersQuit == ~Usable => \A t \in Thread : Waiting(t) => Quits(t)

LinkingSleeps == \A t \in Thread : Linking(t) => k.stat[t] = "suspend" /\ ~k.timer[t]

(* A step that leaves the object not usable, if it was not, and wakes      *)
(* waiters only with an error.                                             *)
LEMMA QuitsKept ==
  ASSUME WaitersQuit, ~Usable' => ~Usable, object' = object,
         \A u \in Thread : Waiting(u)' =>
           /\ Waiting(u) /\ step'[u] = step[u]
           /\ pc'[u] = pc[u] \/ pc[u] = "wait"
           /\ \/ k'.stat[u] = k.stat[u] /\ k'.error[u] = k.error[u]
              \/ k'.error[u] # "EOK"
           /\ Linking(u) /\ k.cur # u => k'.cur # u
  PROVE  WaitersQuit'
<1>1. ASSUME ~Usable', NEW u \in Thread, Waiting(u)' PROVE Quits(u)'
  <2>1. Waiting(u) /\ Quits(u) /\ step'[u] = step[u] /\ (pc'[u] = pc[u] \/ pc[u] = "wait")
    BY <1>1 DEF WaitersQuit
  <2>2. CASE Linking(u) /\ k.cur # u
    <3>1. k'.cur # u /\ Linking(u)'
      BY <1>1, <2>1, <2>2 DEF Linking
    <3> QED BY <3>1 DEF Quits
  <2>3. CASE step[u] = "none" /\ (k.stat[u] = "suspend" \/ k.error[u] # "EOK")
    BY <1>1, <2>1, <2>3 DEF Quits
  <2> QED BY <2>1, <2>2, <2>3 DEF Quits
<1> QED BY <1>1 DEF WaitersQuit

(* The steps of the scheduler, which never give the processor to a thread  *)
(* that is suspended                                                       *)
LEMMA NextQuits ==
  ASSUME ObjInv, Ops \cap Meddling = {}, Next, UNCHANGED objVars, object' = object,
         LinkingSleeps, WaitersQuit
  PROVE  WaitersQuit' /\ LinkingSleeps' /\ HeldKept /\ (Usable' <=> Usable)
         /\ \A u \in Thread : Linking(u) /\ k.cur # u => k'.cur # u
<1>1. PICK v \in Thread \cup {NoThread} : WaitsKept(v)
  BY ObjFacts, NextIpc DEF Moves
<1>2. LabelsKept /\ ProcessorKept
  BY ObjFacts, NextIpc DEF Moves
<1>3. step' = step /\ alive' = alive
  BY DEF objVars
<1>4. \A u \in Thread : pc[u] = "wait" => step[u] = "none"
  BY DEF ObjInv, StepsInCalls
<1>5. ASSUME NEW u \in Thread
      PROVE  /\ Held(u)' <=> Held(u)
             /\ Waiting(u)' <=> Waiting(u)
             /\ Waiting(u) => pc'[u] = pc[u] \/ pc[u] = "wait"
             /\ Linking(u)' <=> Linking(u)
             /\ pc'[u] \in {"drain1", "drain2"} <=> pc[u] \in {"drain1", "drain2"}
  BY <1>2, <1>3, <1>4 DEF LabelsKept, IpcLabels, Held, Waiting, Linking
<1>6. Usable' <=> Usable
  BY <1>3, <1>5 DEF Usable, Detaching
<1>7. ASSUME NEW u \in Thread, Waiting(u)
      PROVE  \/ k'.stat[u] = k.stat[u] /\ k'.error[u] = k.error[u]
             \/ k'.error[u] # "EOK"
  <2>1. InCall(u)
    BY <1>7 DEF InCall, Waiting, IpcLabels
  <2> QED BY <1>1, <2>1 DEF WaitsKept
<1>8. ASSUME NEW u \in Thread, Linking(u)
      PROVE  k'.stat[u] = "suspend" /\ ~k'.timer[u]
  <2>1. InCall(u) /\ k.stat[u] = "suspend" /\ ~k.timer[u]
    BY <1>8 DEF LinkingSleeps, Linking, InCall, IpcLabels
  <2> QED BY <1>1, <2>1 DEF WaitsKept
<1>9. ASSUME NEW u \in Thread, Linking(u), k.cur # u PROVE k'.cur # u
  <2>1. k'.stat[u] = "suspend"
    BY <1>8, <1>9
  <2> QED BY <1>2, <1>9, <2>1 DEF ProcessorKept, Dispatched
<1>10. WaitersQuit'
  BY <1>3, <1>5, <1>6, <1>7, <1>9, QuitsKept
<1> QED BY <1>5, <1>6, <1>8, <1>9, <1>10 DEF LinkingSleeps, HeldKept

(* A wait that fails, and the functions that detach and init               *)
LEMMA DetachQuits ==
  ASSUME ObjInv, object' = object, NEW t \in Thread, DetachObject(t), WaitersQuit
  PROVE  WaitersQuit' /\ HeldKept
<1>1. /\ pc[t] = "app" /\ k.cur = t /\ Goto(t, "drain1") /\ k' = k /\ step' = step
      /\ \A u \in Thread : Waiting(u) => k.stat[u] = "suspend"
  BY DEF DetachObject, ObjCall, Running, objVars, Waiting
<1>2. pc \in [Thread -> PC]
  BY ObjFacts
<1>3. pc'[t] = "drain1" /\ \A u \in Thread \ {t} : pc'[u] = pc[u]
  BY <1>1, <1>2 DEF Goto
<1>4. HeldKept
  BY <1>1, <1>3 DEF HeldKept, Held
<1>5. ASSUME NEW u \in Thread, Waiting(u)' PROVE Quits(u)'
  <2>1. Waiting(u) /\ k.stat[u] = "suspend" /\ pc'[u] = pc[u] /\ u # t
    BY <1>1, <1>3, <1>5 DEF Waiting
  <2>2. step[u] = "none" \/ Linking(u)
    BY <2>1 DEF ObjInv, AwakeInCalls, StepsInCalls, Waiting
  <2>3. CASE step[u] = "none"
    BY <1>1, <2>1, <2>3 DEF Quits
  <2>4. CASE Linking(u)
    <3>1. Linking(u)' /\ k'.cur # u
      BY <1>1, <2>1, <2>4 DEF Linking
    <3> QED BY <3>1 DEF Quits
  <2> QED BY <2>2, <2>3, <2>4
<1> QED BY <1>4, <1>5 DEF WaitersQuit

LEMMA DrainQuits ==
  ASSUME ObjInv, object' = object, NEW t \in Thread,
         DrainTest(t) \/ DrainResume(t) \/ WaitFails(t), WaitersQuit
  PROVE  WaitersQuit' /\ HeldKept
<1>1. pc \in [Thread -> PC] /\ step \in [Thread -> StepName]
  BY ObjFacts DEF ObjInv, ObjTypes
<1>2. CASE DrainTest(t)
  <2>1. PICK label \in {"app", "drain2"} : Goto(t, label)
    BY <1>2 DEF DrainTest
  <2>2. /\ pc[t] = "drain1" /\ pc'[t] = label /\ \A u \in Thread \ {t} : pc'[u] = pc[u]
        /\ \A u \in Thread \ {t} : step'[u] = step[u]
        /\ k' = k
    BY <1>1, <1>2, <2>1 DEF DrainTest, Goto, GoStep
  <2>3. ~Usable
    BY <2>2 DEF Usable, Detaching
  <2>4. HeldKept /\ \A u \in Thread : Waiting(u)' => u # t
    BY <2>2 DEF HeldKept, Held, Waiting
  <2> QED BY <2>2, <2>3, <2>4, QuitsKept DEF Waiting
<1>3. CASE DrainResume(t)
  <2>1. /\ pc[t] = "drain2" /\ pc'[t] = "drain1" /\ \A u \in Thread \ {t} : pc'[u] = pc[u]
        /\ \A u \in Thread \ {t} : step'[u] = step[u]
        /\ k' = DrainOne(k, step[t])
    BY <1>1, <1>3 DEF DrainResume, Goto, GoStep
  <2>2. ~Usable
    BY <2>1 DEF Usable, Detaching
  <2>3. HeldKept /\ \A u \in Thread : Waiting(u)' => u # t
    BY <2>1 DEF HeldKept, Held, Waiting
  <2>4. ASSUME NEW u \in Thread
        PROVE  /\ \/ k'.stat[u] = k.stat[u] /\ k'.error[u] = k.error[u]
                  \/ k'.error[u] # "EOK"
               /\ k'.cur = k.cur
    <3>1. step[t] \in WaitList
      BY <2>1, ObjListsFacts DEF ObjInv, StepsInCalls
    <3>2. k \in KernelRecord /\ Consistent(k) /\ AllSuspended(k, step[t])
      BY <3>1, ObjFacts
    <3>3. CASE k.list[step[t]] = << >>
      <4>1. k'.stat = k.stat /\ k'.error = k.error /\ k'.cur = k.cur
        BY <2>1, <3>2, <3>3 DEF DrainOne, KernelRecord
      <4> QED BY <4>1
    <3>4. CASE k.list[step[t]] # << >>
      <4> DEFINE h == Head(k.list[step[t]])
      <4>1. Wakes(k, k', {h}) /\ h \in Thread /\ k'.error = Update(k.error, h, "ERROR")
        BY <2>1, <3>1, <3>2, <3>4, DrainOneWakes
      <4> HIDE DEF h
      <4>2. k.error \in [Thread -> Error]
        BY <3>2 DEF KernelRecord
      <4>3. k'.error[u] = IF u = h THEN "ERROR" ELSE k.error[u]
        BY <4>1, <4>2 DEF Update
      <4>4. (u # h => k'.stat[u] = k.stat[u]) /\ k'.cur = k.cur
        BY <4>1 DEF Wakes
      <4> QED BY <4>3, <4>4
    <3> QED BY <3>3, <3>4
  <2> QED BY <2>1, <2>2, <2>3, <2>4, QuitsKept DEF Waiting
<1>4. CASE WaitFails(t)
  <2>1. /\ pc[t] = "waited" /\ step[t] = "none" /\ pc'[t] = "app" /\ alive' = alive /\ k' = k
        /\ \A u \in Thread \ {t} : pc'[u] = pc[u] /\ step'[u] = step[u]
    BY <1>1, <1>4 DEF WaitFails, Woken, AtStep, Return, Goto
  <2>2. HeldKept /\ \A u \in Thread : Waiting(u)' => u # t
    BY <2>1 DEF HeldKept, Held, Waiting
  <2>3. ~Usable' => ~Usable
    BY <2>1 DEF Usable, Detaching
  <2> QED BY <2>1, <2>2, <2>3, QuitsKept DEF Waiting
<1> QED BY <1>2, <1>3, <1>4

LEMMA InitQuits ==
  ASSUME NEW t \in Thread, InitObject(t), object' = object, WaitersQuit
  PROVE  WaitersQuit' /\ HeldKept /\ \A u \in Thread : Held(u) => Linking(u) /\ k.cur # u
<1>1. k' = k /\ pc' = pc /\ step' = step /\ ~Usable
  BY DEF InitObject, vars, Usable
<1>2. WaitersQuit'
  BY <1>1, QuitsKept DEF Waiting
<1>3. \A u \in Thread : Held(u) => Linking(u) /\ k.cur # u
  BY <1>1 DEF WaitersQuit, Quits, Waiting, Held
<1> QED BY <1>1, <1>2, <1>3 DEF HeldKept, Held

-----------------------------------------------------------------------------
(* Message queues: the messages are apart, and the threads somewhere in    *)
(* their call are those with a message in hand.                            *)
HandsHold == \A t \in Thread : msg[t] # NoNode <=> Held(t)

MqInv == MessagesApart /\ (object = "queue" => HandsHold /\ WaitersQuit)

LEMMA QueueLinksNot == ASSUME object = "queue" PROVE LinkingSleeps /\ \A t \in Thread : ~Linking(t)
BY DEF LinkingSleeps, Linking

LEMMA HandsKept == ASSUME HandsHold, HeldKept, msg' = msg PROVE HandsHold'
BY DEF HandsHold, HeldKept

(* A call on the object                                                    *)
LEMMA HandsStep ==
  ASSUME ObjInv, HandsHold, msg \in [Thread -> Node \cup {NoNode}],
         Usable, alive' = alive, NEW t \in Thread,
         NEW label \in {"app", "sched", "wait", "waited"}, Goto(t, label),
         NEW s, step' = Update(step, t, s), NEW n, msg' = Update(msg, t, n),
         n # NoNode <=> label = "waited" /\ s # "none"
  PROVE  HandsHold' /\ WaitersQuit'
<1>1. pc \in [Thread -> PC] /\ step \in [Thread -> StepName]
  BY ObjFacts DEF ObjInv, ObjTypes
<1>2. /\ pc'[t] = label /\ \A u \in Thread \ {t} : pc'[u] = pc[u]
      /\ step'[t] = s /\ \A u \in Thread \ {t} : step'[u] = step[u]
      /\ msg'[t] = n /\ \A u \in Thread \ {t} : msg'[u] = msg[u]
  BY <1>1 DEF Goto, Update
<1>3. HandsHold'
  BY <1>2 DEF HandsHold, Held
<1>4. Usable'
  BY <1>2 DEF Usable, Detaching
<1> QED BY <1>3, <1>4 DEF WaitersQuit

(* The steps of the calls of a message queue                               *)
LEMMA MqCall ==
  ASSUME ObjInv, MqInv, object = "queue", object' = object, NEW t \in Thread,
         \/ \E v \in Body, urgent \in BOOLEAN : MsgSend(t, v, urgent)
         \/ \E time \in Time : MsgRecv(t, time)
         \/ MsgReset(t)
  PROVE  MqInv'
<1>1. /\ MessagesApart /\ HandsHold /\ WaitersQuit
      /\ msg \in [Thread -> Node \cup {NoNode}]
  BY DEF MqInv, MessagesApart, Apart
<1>2. Usable /\ alive' = alive /\ pc[t] = "app" /\ step[t] = "none" /\ msg[t] = NoNode
  <2>1. Usable /\ alive' = alive /\ pc[t] = "app"
    BY DEF MsgSend, MsgRecv, MsgReset, ObjCall, objVars
  <2> QED BY <1>1, <2>1 DEF ObjInv, StepsInCalls, HandsHold, Held
<1>3. step \in [Thread -> StepName]
  BY DEF ObjInv, ObjTypes
<1>4. NoNode \notin Node
  BY MessageQueueAssumption
<1>5. ASSUME NEW v \in Body, NEW urgent \in BOOLEAN, MsgSend(t, v, urgent) PROVE MqInv'
  <2>1. PICK n \in Node : msg' = Update(msg, t, n)
    BY <1>1, <1>5, ApartMsgSend
  <2>2. PICK s \in {"copy", "copy_urgent"} : step' = Update(step, t, s)
    BY <1>5 DEF MsgSend, GoStep, Update
  <2>3. Goto(t, "waited") /\ s # "none" /\ n # NoNode
    BY <1>4, <1>5 DEF MsgSend
  <2>4. HandsHold' /\ WaitersQuit'
    BY <1>1, <1>2, <2>1, <2>2, <2>3, HandsStep
  <2> QED BY <1>1, <1>5, <2>4, ApartMsgSend DEF MqInv
<1>6. ASSUME NEW time \in Time, MsgRecv(t, time) PROVE MqInv'
  <2>1. CASE mq_entry # 0 /\ TakeMsg(t)
    <3>1. MessagesApart' /\ \E n \in Node : msg' = Update(msg, t, n)
      BY <1>1, <1>6, <2>1, ApartTakeMsg DEF MsgRecv
    <3>2. PICK n \in Node : msg' = Update(msg, t, n)
      BY <3>1
    <3>3. step' = Update(step, t, "free") /\ Goto(t, "waited") /\ n # NoNode
      BY <1>4, <2>1 DEF TakeMsg, GoStep, Update
    <3>4. HandsHold' /\ WaitersQuit'
      BY <1>1, <1>2, <3>2, <3>3, HandsStep
    <3> QED BY <3>1, <3>4 DEF MqInv
  <2>2. CASE Block(t, Mq, time) /\ UNCHANGED <<mq_entry, msg_queue, msg, mq_got>>
    <3>1. MessagesApart'
      BY <1>1, <1>6, <2>2 DEF MessagesApart, MsgRecv
    <3>2. /\ msg' = Update(msg, t, NoNode) /\ step' = Update(step, t, "none")
          /\ Goto(t, "wait")
      BY <1>1, <1>2, <2>2 DEF Block, Update
    <3>3. HandsHold' /\ WaitersQuit'
      BY <1>1, <1>2, <3>2, HandsStep
    <3> QED BY <3>1, <3>3 DEF MqInv
  <2> QED BY <1>6, <2>1, <2>2 DEF MsgRecv
<1>7. CASE MsgReset(t)
  <2>1. MessagesApart'
    BY <1>1, <1>7, ApartReset
  <2>2. msg' = Update(msg, t, NoNode) /\ step' = Update(step, t, "none") /\ Goto(t, "sched")
    BY <1>1, <1>2, <1>3, <1>7 DEF MsgReset, objVars, Update
  <2>3. HandsHold' /\ WaitersQuit'
    BY <1>1, <1>2, <2>2, HandsStep
  <2> QED BY <2>1, <2>3 DEF MqInv
<1> QED BY <1>5, <1>6, <1>7

LEMMA MqGoesOn ==
  ASSUME ObjInv, MqInv, object = "queue", object' = object, NEW t \in Thread,
         MsgCopy(t) \/ MsgLink(t) \/ MsgFree(t) \/ MsgRecvAgain(t)
  PROVE  MqInv'
<1>1. /\ MessagesApart /\ HandsHold /\ WaitersQuit
      /\ msg \in [Thread -> Node \cup {NoNode}]
  BY DEF MqInv, MessagesApart, Apart
<1>2. pc \in [Thread -> PC] /\ step \in [Thread -> StepName] /\ NoNode \notin Node
  BY ObjFacts, MessageQueueAssumption DEF ObjInv, ObjTypes
<1>3. pc[t] = "waited" /\ alive' = alive
  BY DEF MsgCopy, MsgLink, MsgFree, MsgRecvAgain, Woken, AtStep
<1>4. CASE MsgCopy(t)
  <2>1. Held(t) /\ msg[t] # NoNode /\ Usable
    BY <1>1, <1>4 DEF MsgCopy, AtStep, Held, HandsHold, WaitersQuit, Quits, Waiting, Linking
  <2>2. PICK s \in {"link", "link_urgent"} : step' = Update(step, t, s)
    BY <1>4 DEF MsgCopy, GoStep, Update
  <2>3. Goto(t, "waited") /\ msg' = Update(msg, t, msg[t]) /\ s # "none" /\ MessagesApart'
    BY <1>1, <1>2, <1>3, <1>4 DEF MsgCopy, Goto, vars, mqLists, Update, MessagesApart
  <2>4. HandsHold' /\ WaitersQuit'
    BY <1>1, <1>3, <2>1, <2>2, <2>3, HandsStep
  <2> QED BY <2>3, <2>4 DEF MqInv
<1>5. CASE MsgLink(t)
  <2>1. Held(t) /\ msg[t] # NoNode /\ Usable
    BY <1>1, <1>5 DEF MsgLink, AtStep, Held, HandsHold, WaitersQuit, Quits, Waiting, Linking
  <2>2. PICK label \in {"app", "sched"} : Goto(t, label)
    BY <1>5, WakeLabels DEF MsgLink, Return
  <2>3. msg' = Update(msg, t, NoNode) /\ step' = Update(step, t, "none") /\ label # "waited"
    BY <1>5 DEF MsgLink, Return, Update
  <2>4. HandsHold' /\ WaitersQuit'
    BY <1>1, <1>3, <2>1, <2>2, <2>3, HandsStep
  <2> QED BY <1>1, <1>5, <2>1, <2>4, ApartMsgLink DEF MqInv
<1>6. CASE MsgFree(t)
  <2>1. Held(t) /\ msg[t] # NoNode /\ Usable
    BY <1>1, <1>6 DEF MsgFree, AtStep, Held, HandsHold, WaitersQuit, Quits, Waiting, Linking
  <2>2. /\ msg' = Update(msg, t, NoNode) /\ step' = Update(step, t, "none")
        /\ Goto(t, "app")
    BY <1>6 DEF MsgFree, Return, Update
  <2>3. HandsHold' /\ WaitersQuit'
    BY <1>1, <1>3, <2>1, <2>2, HandsStep
  <2> QED BY <1>1, <1>6, <2>1, <2>3, ApartMsgFree DEF MqInv
<1>7. CASE MsgRecvAgain(t)
  <2>1. Running(t) /\ k.error[t] = "EOK" /\ k.stat[t] = "ready"
    BY <1>7, WokenCaller, CallerUnlisted DEF MsgRecvAgain, CallerAt
  <2>2. step[t] = "none" /\ msg[t] = NoNode /\ Usable
    BY <1>1, <1>3, <1>7, <2>1
       DEF MsgRecvAgain, Woken, AtStep, Held, HandsHold, WaitersQuit, Quits, Waiting, Linking
  <2>3. CASE mq_entry # 0 /\ TakeMsg(t)
    <3>1. MessagesApart' /\ \E n \in Node : msg' = Update(msg, t, n)
      BY <1>1, <1>7, <2>3, ApartTakeMsg DEF MsgRecvAgain
    <3>2. PICK n \in Node : msg' = Update(msg, t, n)
      BY <3>1
    <3>3. step' = Update(step, t, "free") /\ Goto(t, "waited") /\ n # NoNode
      BY <1>2, <2>3 DEF TakeMsg, GoStep, Update
    <3>4. HandsHold' /\ WaitersQuit'
      BY <1>1, <1>3, <2>2, <3>2, <3>3, HandsStep
    <3> QED BY <3>1, <3>4 DEF MqInv
  <2>4. CASE /\ (\E time \in Time : Block(t, Mq, time)) \/ Return(t, "app")
             /\ UNCHANGED <<mq_entry, msg_queue, msg, mq_got>>
    <3>1. MessagesApart'
      BY <1>1, <1>7, <2>4 DEF MessagesApart, MsgRecvAgain
    <3>2. PICK label \in {"wait", "app"} : Goto(t, label)
      BY <2>4 DEF Block, Return
    <3>3. msg' = Update(msg, t, NoNode) /\ step' = Update(step, t, "none")
      BY <1>1, <2>2, <2>4 DEF Block, Return, Update
    <3>4. HandsHold' /\ WaitersQuit'
      BY <1>1, <1>3, <2>2, <3>2, <3>3, HandsStep
    <3> QED BY <3>1, <3>4 DEF MqInv
  <2>5. TimeLeft(t) \subseteq Time
    BY <1>7, WokenCaller DEF MsgRecvAgain
  <2> QED BY <1>7, <2>3, <2>4, <2>5 DEF MsgRecvAgain
<1> QED BY <1>4, <1>5, <1>6, <1>7

LEMMA MqInvStep ==
  ASSUME ObjInv, MqInv, Ops \cap Meddling = {}, object = "queue", object' = object,
         MessageQueueNext
  PROVE  MqInv'
<1>1. MessagesApart /\ HandsHold /\ WaitersQuit /\ msg \in [Thread -> Node \cup {NoNode}]
  BY DEF MqInv, MessagesApart, Apart
<1>2. CASE Next /\ UNCHANGED <<objVars, mqVars>>
  <2>1. MessagesApart'
    BY <1>1, <1>2 DEF mqVars, MessagesApart
  <2>2. msg' = msg /\ UNCHANGED objVars
    BY <1>2 DEF mqVars
  <2> QED BY <1>1, <1>2, <2>1, <2>2, NextQuits, QueueLinksNot, HandsKept DEF MqInv
<1>3. ASSUME NEW v \in Body, MsgSendIsr(v) PROVE MqInv'
  <2>1. Usable /\ alive' = alive /\ pc' = pc /\ step' = step /\ msg' = msg
    BY <1>3 DEF MsgSendIsr, IsrCall, objVars
  <2>2. HandsHold' /\ Usable'
    BY <1>1, <2>1 DEF HandsHold, Held, Usable, Detaching
  <2> QED BY <1>1, <1>3, <2>2, ApartSendIsr DEF MqInv, WaitersQuit
<1>4. ASSUME NEW t \in Thread,
             \/ \E v \in Body, urgent \in BOOLEAN : MsgSend(t, v, urgent)
             \/ MsgCopy(t) \/ MsgLink(t) \/ MsgFree(t)
             \/ (\E time \in Time : MsgRecv(t, time)) \/ MsgRecvAgain(t) \/ MsgReset(t)
      PROVE  MqInv'
  BY <1>4, MqCall, MqGoesOn
<1>5. ASSUME NEW t \in Thread,
             \/ (DrainTest(t) \/ DrainResume(t) \/ WaitFails(t)) /\ UNCHANGED mqVars
             \/ MsgDetach(t)
      PROVE  MqInv'
  <2>1. MessagesApart' /\ msg' = msg
    BY <1>1, <1>5 DEF MsgDetach, mqVars, MessagesApart
  <2>2. WaitersQuit' /\ HeldKept
    BY <1>1, <1>5, DrainQuits, DetachQuits DEF MsgDetach
  <2> QED BY <1>1, <2>1, <2>2, HandsKept DEF MqInv
<1>6. ASSUME NEW t \in Thread, MsgCreate(t) PROVE MqInv'
  <2>1. /\ HandsHold' /\ WaitersQuit' /\ (\A u \in Thread : msg[u] = NoNode)
    BY <1>1, <1>6, InitQuits, HandsKept, QueueLinksNot DEF MsgCreate, HandsHold
  <2>2. /\ msg' \in [Thread -> {NoNode}] /\ msg_queue_free' \in {FreeAll, << >>}
        /\ msg_queue' = << >> /\ mq_entry' = 0
    BY <1>1, <1>6, <2>1 DEF MsgCreate
  <2>3. MessagesApart'
    BY <2>2, ApartFresh DEF MessagesApart
  <2> QED BY <2>1, <2>3 DEF MqInv
<1>7. CASE Halt /\ UNCHANGED mqVars
  <2>1. MessagesApart' /\ HandsHold' /\ WaitersQuit'
    BY <1>1, <1>7 DEF Halt, vars, objVars, mqVars, MessagesApart, HandsHold, Held, WaitersQuit,
                      Waiting, Quits, Linking, Usable, Detaching
  <2> QED BY <2>1 DEF MqInv
<1> QED BY <1>2, <1>3, <1>4, <1>5, <1>6, <1>7 DEF MessageQueueNext, MessageQueueStep

LEMMA MqInvSame ==
  ASSUME MqInv, object' = object, UNCHANGED mqVars,
         object = "queue" => UNCHANGED <<vars, objVars>>
  PROVE  MqInv'
<1>1. MessagesApart' /\ msg' = msg
  BY DEF mqVars, MqInv, MessagesApart
<1>2. CASE object = "queue"
  <2>1. HandsHold' /\ WaitersQuit'
    BY <1>1, <1>2 DEF MqInv, vars, objVars, HandsHold, Held, WaitersQuit, Waiting, Quits,
                      Linking, Usable, Detaching
  <2> QED BY <1>1, <2>1 DEF MqInv
<1>3. CASE object # "queue"
  BY <1>1, <1>3 DEF MqInv
<1> QED BY <1>2, <1>3

LEMMA MqInvStart ==
  ASSUME IpcObjectsInit PROVE MqInv
<1>1. /\ msg_queue = << >> /\ msg_queue_free = FreeAll /\ mq_entry = 0
      /\ msg = [t \in Thread |-> NoNode] /\ step = [t \in Thread |-> "none"] /\ alive = TRUE
      /\ pc = [t \in Thread |-> "app"]
  BY DEF IpcObjectsInit, MessageQueueInit, ObjStart, Init
<1>2. MessagesApart
  <2>1. msg \in [Thread -> {NoNode}]
    BY <1>1
  <2> QED BY <1>1, <2>1, ApartFresh DEF MessagesApart
<1>3. HandsHold /\ WaitersQuit
  BY <1>1 DEF HandsHold, Held, WaitersQuit, Usable, Detaching
<1> QED BY <1>2, <1>3 DEF MqInv

(* No message of a message queue is in two places, or twice in a list, or  *)
(* in the hands of two threads, although rt_mq_send and rt_mq_recv copy    *)
(* the messages that they took out of a list with interrupts on, and the   *)
(* queue may be reset, detached and initialised again in between.          *)
THEOREM MessagesAreNotShared ==
  ASSUME Ops \cap Meddling = {} PROVE IpcObjectsSpec => []NoMessageShared
<1> DEFINE Inv == ObjectsInv /\ MqInv
<1>1. IpcObjectsInit => Inv
  BY ObjectsStart, MqInvStart
<1>2. Inv /\ [IpcObjectsNext]_<<vars, objVars, objects>> => Inv'
  <2>1. ASSUME Inv, IpcObjectsNext PROVE Inv'
    <3>1. ObjectsInv' /\ object' = object /\ ObjInv
      BY <2>1, ObjectsStep DEF IpcObjectsNext, ObjectsInv
    <3>2. MqInv'
      BY <2>1, <3>1, MqInvStep, MqInvSame DEF IpcObjectsNext
    <3> QED BY <3>1, <3>2
  <2>2. ASSUME Inv, UNCHANGED <<vars, objVars, objects>> PROVE Inv'
    <3>1. object' = object /\ UNCHANGED mqVars
      BY <2>2 DEF objects
    <3> QED BY <2>2, <3>1, ObjectsStutter, MqInvSame
  <2> QED BY <2>1, <2>2
<1>3. Inv => NoMessageShared
  <2> SUFFICES ASSUME MessagesApart PROVE NoMessageShared
    BY DEF MqInv
  <2> DEFINE used == msg_queue \o msg_queue_free
  <2>1. Elements(used) = Elements(msg_queue) \cup Elements(msg_queue_free) /\ NoRepeat(used)
    BY ConcatFacts DEF MessagesApart, Apart
  <2>2. HandsApart(msg, Elements(used))
    BY <2>1 DEF MessagesApart, Apart
  <2>3. \A i, j \in DOMAIN used : used[i] = used[j] => i = j
    BY <2>1 DEF NoRepeat
  <2>4. mq_entry = Len(msg_queue)
    BY DEF MessagesApart
  <2> QED BY <2>2, <2>3, <2>4 DEF NoMessageShared, HandsApart
<1> QED BY <1>1, <1>2, <1>3, PTL DEF IpcObjectsSpec

=============================================================================
