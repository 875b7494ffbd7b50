--------------------------- MODULE SemaphoreProofs ---------------------------
(***************************************************************************)
(* The safety of semaphores, for any number of threads and priorities and  *)
(* any range of the counter, with any calls of the scheduler around them   *)
(* but those that change a thread behind its back (Meddling).              *)
(***************************************************************************)
EXTENDS Semaphore, SchedulerProofs, FiniteSetTheorems

-----------------------------------------------------------------------------
(* The invariant.                                                          *)

SemValues ==
  /\ value \in 0 .. ValueRange - 1 /\ flag \in IpcFlag /\ alive \in BOOLEAN
  /\ granted \in SUBSET Thread /\ IsFiniteSet(granted) /\ net \in Int

(* A thread that was given a token has been woken, and its take has not    *)
(* returned;                                                               *)
GrantedReady == \A t \in granted : Waiting(t) /\ k.stat[t] = "ready"

(* and no other thread is back from its wait without an error.             *)
WokenGranted ==
  \A t \in Thread :
    Waiting(t) /\ k.stat[t] = "ready" /\ k.error[t] = "EOK" => t \in granted

SemInv ==
  /\ IpcInv /\ SemValues
  /\ NoTokenWhileWaiting /\ DetachedHasNoWaiters /\ BlockedIffListed
  /\ TokensConserved /\ GrantedReady /\ WokenGranted

-----------------------------------------------------------------------------
(* The arithmetic of an rt_uint16_t, or of any other width.                *)

LEMMA MultipleMod ==
  ASSUME NEW m \in Nat \ {0}, NEW q \in Int PROVE (m * q) % m = 0
OBVIOUS

LEMMA OneTurnLess ==
  ASSUME NEW m \in Nat \ {0}, NEW x \in Int, x % m = 0 PROVE (x - m) % m = 0
<1> DEFINE q == x \div m
           p == q - 1
<1>1. q \in Int /\ x = m * q
  OBVIOUS
<1> HIDE DEF q
<1>2. x - m = m * p /\ p \in Int
  BY <1>1
<1> HIDE DEF p
<1>3. (m * p) % m = 0
  BY <1>2, MultipleMod
<1> QED BY ONLY <1>2, <1>3

(* A release without waiters: the value overflows to 0, and the account of *)
(* tokens is right up to a multiple of the range.                          *)
Balanced(v, n, c, m) == (v - (n - c)) % m = 0

LEMMA OneMoreToken ==
  ASSUME NEW m \in Nat \ {0}, NEW v \in 0 .. m - 1, NEW n \in Int, NEW c \in Int,
         Balanced(v, n, c, m), NEW w, w = (v + 1) % m
  PROVE  w \in 0 .. m - 1 /\ Balanced(w, n + 1, c, m)
<1> DEFINE x == v - (n - c)
<1>1. w = IF v + 1 = m THEN 0 ELSE v + 1
  OBVIOUS
<1>2. w \in 0 .. m - 1
  BY <1>1
<1>3. x \in Int /\ x % m = 0 /\ (x - m) % m = 0
  <2>1. x \in Int /\ x % m = 0
    BY DEF Balanced
  <2> HIDE DEF x
  <2> QED BY <2>1, OneTurnLess
<1>4. w - (n + 1 - c) = IF v + 1 = m THEN x - m ELSE x
  BY <1>1
<1> HIDE DEF x
<1>5. (w - (n + 1 - c)) % m = 0
  BY <1>3, <1>4
<1> QED BY <1>2, <1>5 DEF Balanced

-----------------------------------------------------------------------------
(* What the conjuncts say of the threads that wait.                        *)

(* Facts of a state                                                        *)
LEMMA SemFacts ==
  ASSUME SemInv
  PROVE  /\ IpcInv /\ k \in KernelRecord /\ Consistent(k)
         /\ Sem \in WaitList /\ AllSuspended(k, Sem)
         /\ pc \in [Thread -> PC] /\ Elements(k.list[Sem]) \subseteq Thread
         /\ k.list[Sem] \in Seq(Thread)
         /\ Cardinality(granted) \in Nat /\ value \in Nat /\ net \in Int
         /\ \A t \in Elements(k.list[Sem]) : t \notin granted
<1>1. /\ IpcInv /\ k \in KernelRecord /\ Consistent(k) /\ pc \in [Thread -> PC]
      /\ Sem \in WaitList /\ Elements(k.list[Sem]) \subseteq Thread
  BY IpcFacts, SemAssumption DEF SemInv
<1>2. AllSuspended(k, Sem)
  BY <1>1 DEF AllSuspended, IpcInv, ListedWait
<1>3. k.list[Sem] \in Seq(Thread)
  BY <1>1, WaitQueue DEF KernelRecord, QueueLists
<1>4. Cardinality(granted) \in Nat /\ value \in Nat /\ net \in Int
  BY FS_CardinalityType, SemAssumption DEF SemInv, SemValues
<1>5. \A t \in Elements(k.list[Sem]) : t \notin granted
  BY <1>2 DEF SemInv, GrantedReady, AllSuspended
<1> QED BY <1>1, <1>2, <1>3, <1>4, <1>5

(* A section that wakes the threads U of the list keeps the others in it.  *)
LEMMA WakeKeepsLists ==
  ASSUME SemInv, NEW U \in SUBSET Elements(k.list[Sem]),
         \A t \in Thread : k'.stat[t] = IF t \in U THEN "ready" ELSE k.stat[t],
         Elements(k'.list[Sem]) = Elements(k.list[Sem]) \ U,
         \A t \in Thread : Waiting(t)' <=> Waiting(t)
  PROVE  /\ BlockedIffListed'
         /\ \A t \in granted \cup U : Waiting(t)' /\ k'.stat[t] = "ready"
<1>1. \A t \in Thread : t \in Elements(k.list[Sem]) <=> Waiting(t) /\ k.stat[t] = "suspend"
  BY DEF SemInv, BlockedIffListed, Waiting
<1>2. \A t \in Thread :
        t \in Elements(k'.list[Sem]) <=> Waiting(t)' /\ k'.stat[t] = "suspend"
  BY <1>1
<1>3. BlockedIffListed'
  BY <1>2 DEF BlockedIffListed, Waiting
<1>4. \A t \in granted \cup U : Waiting(t)' /\ k'.stat[t] = "ready"
  BY <1>1, SemFacts DEF SemInv, GrantedReady, SemValues
<1> QED BY <1>3, <1>4

-----------------------------------------------------------------------------
(* The steps.                                                              *)

(* A step of the scheduler, or of an interrupt                             *)
LEMMA SchedulerMove ==
  ASSUME SemInv, Ops \cap Meddling = {}, Next, UNCHANGED semVars PROVE SemInv'
<1>1. IpcInv' /\ Moves
  BY NextIpc DEF SemInv
<1>2. PICK u \in Thread \cup {NoThread} : WaitsKept(u)
  BY <1>1 DEF Moves
<1>3. UNCHANGED <<value, flag, alive, granted, net>>
  BY DEF semVars
<1>4. SemValues' /\ TokensConserved'
  BY <1>3 DEF SemInv, SemValues, TokensConserved
<1>5. \A t \in Thread : (Waiting(t)' <=> Waiting(t)) /\ (Waiting(t) => InCall(t))
  BY <1>1 DEF Moves, LabelsKept, InCall, Waiting, IpcLabels
<1>6. k'.list[Sem] = Without(k.list[Sem], u)
  BY <1>2, SemFacts DEF WaitsKept, TakesFrom
<1>7. Elements(k'.list[Sem]) = Elements(k.list[Sem]) \ {u}
  <2>1. k \in KernelRecord /\ Consistent(k) /\ Sem \in WaitList
    BY SemFacts
  <2> QED BY ONLY <1>6, <2>1, WaitTakes
<1>8. NoTokenWhileWaiting' /\ DetachedHasNoWaiters'
  <2>1. k.list[Sem] = << >> => k'.list[Sem] = << >>
    BY <1>6 DEF Without, Elements
  <2> QED BY <1>3, <2>1 DEF SemInv, NoTokenWhileWaiting, DetachedHasNoWaiters
<1>9. \A t \in Thread : Waiting(t) =>
        IF t = u THEN k'.stat[t] = "ready" /\ k'.error[t] = "ETIMEOUT"
                 ELSE k'.stat[t] = k.stat[t] /\ k'.error[t] = k.error[t]
  BY <1>2, <1>5 DEF WaitsKept
<1>10. BlockedIffListed'
  <2>1. \A t \in Thread : t \in Elements(k.list[Sem]) <=> Waiting(t) /\ k.stat[t] = "suspend"
    BY DEF SemInv, BlockedIffListed, Waiting
  <2>2. \A t \in Thread :
          t \in Elements(k'.list[Sem]) <=> Waiting(t)' /\ k'.stat[t] = "suspend"
    BY <1>5, <1>7, <1>9, <2>1
  <2> QED BY <2>2 DEF BlockedIffListed, Waiting
<1>11. GrantedReady' /\ WokenGranted'
  BY <1>3, <1>5, <1>9 DEF SemInv, GrantedReady, WokenGranted, SemValues
<1> QED BY <1>1, <1>4, <1>8, <1>10, <1>11 DEF SemInv

(* rt_sem_take of a semaphore that has a token, and rt_sem_init: the       *)
(* kernel is left alone.                                                   *)
LEMMA ValueMove ==
  ASSUME SemInv, UNCHANGED <<k, isr, pc, arg, crit>>, granted' = granted,
         SemValues', TokensConserved', NoTokenWhileWaiting', DetachedHasNoWaiters'
  PROVE  SemInv'
<1>1. IpcInv'
  <2>1. UNCHANGED vars
    BY DEF vars
  <2>2. IpcInv
    BY DEF SemInv
  <2> QED BY <2>1, <2>2, IpcStutter
<1>2. BlockedIffListed' /\ GrantedReady' /\ WokenGranted'
  BY DEF SemInv, BlockedIffListed, GrantedReady, WokenGranted, Waiting
<1> QED BY <1>1, <1>2 DEF SemInv

LEMMA TakeNowMove ==
  ASSUME SemInv, NEW t \in Thread, TakeNow(t) PROVE SemInv'
<1>1. /\ value > 0 /\ value' = value - 1 /\ net' = net - 1
      /\ UNCHANGED <<k, isr, pc, arg, crit, flag, alive, granted>>
  BY DEF TakeNow, vars
<1>2. value \in 0 .. ValueRange - 1 /\ ValueRange \in Nat /\ net \in Int
      /\ Cardinality(granted) \in Nat
  BY SemFacts, SemAssumption DEF SemInv, SemValues
<1>3. SemValues'
  BY <1>1, <1>2 DEF SemInv, SemValues
<1>4. (value' - (net' - Cardinality(granted'))) = value - (net - Cardinality(granted))
  BY <1>1, <1>2
<1>5. TokensConserved'
  BY <1>4 DEF SemInv, TokensConserved
<1>6. NoTokenWhileWaiting' /\ DetachedHasNoWaiters'
  BY <1>1 DEF SemInv, NoTokenWhileWaiting, DetachedHasNoWaiters
<1> QED BY <1>1, <1>3, <1>5, <1>6, ValueMove

(* What remains of the account: the value is what was put in.              *)
LEMMA FreshAccount ==
  ASSUME SemInv, NEW v \in 0 .. ValueRange - 1, value' = v, net' = v + Cardinality(granted),
         granted' = granted
  PROVE  TokensConserved' /\ net' \in Int
<1>1. Cardinality(granted) \in Nat /\ v \in Int /\ ValueRange \in Nat \ {0}
  BY SemFacts, SemAssumption
<1>2. value' - (net' - Cardinality(granted')) = 0
  BY <1>1
<1>3. 0 % ValueRange = 0
  BY <1>1
<1> QED BY <1>1, <1>2, <1>3 DEF TokensConserved

LEMMA InitSemMove ==
  ASSUME SemInv, NEW t \in Thread, InitSem(t) PROVE SemInv'
<1>1. /\ ~alive /\ alive' = TRUE /\ flag' \in IpcFlag
      /\ value' = SemInit /\ net' = SemInit + Cardinality(granted)
      /\ UNCHANGED <<k, isr, pc, arg, crit, granted>>
  BY DEF InitSem, vars
<1>2. SemInit \in 0 .. ValueRange - 1
  BY SemAssumption
<1>3. TokensConserved' /\ net' \in Int
  BY <1>1, <1>2, FreshAccount
<1>4. SemValues'
  BY <1>1, <1>2, <1>3 DEF SemInv, SemValues
<1>5. NoTokenWhileWaiting' /\ DetachedHasNoWaiters'
  BY <1>1 DEF SemInv, NoTokenWhileWaiting, DetachedHasNoWaiters
<1> QED BY <1>1, <1>3, <1>4, <1>5, ValueMove

(* The section of rt_sem_release, with what it does to the kernel          *)
LEMMA ReleaseMove ==
  ASSUME SemInv, ReleaseSection, IpcInv', NEW U, NEW r, Wakes(k, r, U),
         U = IF k.list[Sem] # << >> THEN {Head(k.list[Sem])} ELSE {},
         k.list[Sem] = << >> => k'.list[Sem] = << >>,
         k'.list = r.list, k'.stat = r.stat, k'.error = k.error,
         \A t \in Thread : Waiting(t)' <=> Waiting(t)
  PROVE  SemInv'
<1>1. /\ Sem \in WaitList /\ k \in KernelRecord /\ Consistent(k) /\ ValueRange \in Nat \ {0}
      /\ value \in 0 .. ValueRange - 1 /\ net \in Int /\ Cardinality(granted) \in Int
      /\ IsFiniteSet(granted) /\ granted \subseteq Thread
  BY SemFacts, SemAssumption DEF SemInv, SemValues
<1>2. U \in SUBSET Elements(k.list[Sem]) /\ U \subseteq Thread
  BY <1>1, FirstWaiter
<1>3. \A t \in Thread : k'.stat[t] = IF t \in U THEN "ready" ELSE k.stat[t]
  BY DEF Wakes
<1>4. Elements(k'.list[Sem]) = Elements(k.list[Sem]) \ U
  BY <1>1, <1>2, WakesTakes
<1>5. BlockedIffListed' /\ \A t \in granted \cup U : Waiting(t)' /\ k'.stat[t] = "ready"
  BY <1>2, <1>3, <1>4, WakeKeepsLists
<1>6. granted' = granted \cup U /\ flag' = flag /\ alive' = alive /\ net' = net + 1
  BY DEF ReleaseSection
<1>7. GrantedReady'
  BY <1>5, <1>6 DEF GrantedReady
<1>8. WokenGranted'
  BY <1>3, <1>6 DEF SemInv, WokenGranted
<1>9. IsFiniteSet(granted') /\ granted' \in SUBSET Thread
  <2>1. CASE k.list[Sem] = << >>
    BY <1>1, <1>6, <2>1
  <2>2. CASE k.list[Sem] # << >>
    BY <1>1, <1>2, <1>6, <2>2, FS_AddElement
  <2> QED BY <2>1, <2>2
<1>10. CASE k.list[Sem] = << >>
  <2>1. value' = (value + 1) % ValueRange /\ granted' = granted /\ k'.list[Sem] = << >>
    BY <1>10 DEF ReleaseSection
  <2>2. Balanced(value, net, Cardinality(granted), ValueRange)
    BY DEF SemInv, TokensConserved, Balanced
  <2>3. value' \in 0 .. ValueRange - 1 /\ Balanced(value', net + 1, Cardinality(granted), ValueRange)
    BY <1>1, <2>1, <2>2, OneMoreToken
  <2>4. Balanced(value', net', Cardinality(granted'), ValueRange)
    BY <1>6, <2>1, <2>3
  <2>6. TokensConserved'
    BY <2>4 DEF TokensConserved, Balanced
  <2>7. SemValues'
    BY <1>1, <1>6, <1>9, <2>3 DEF SemValues, SemInv
  <2>5. NoTokenWhileWaiting' /\ DetachedHasNoWaiters'
    BY <2>1 DEF NoTokenWhileWaiting, DetachedHasNoWaiters
  <2> QED BY <1>5, <1>7, <1>8, <2>5, <2>6, <2>7 DEF SemInv
<1>11. CASE k.list[Sem] # << >>
  <2> DEFINE h == Head(k.list[Sem])
  <2>1. value' = value /\ granted' = granted \cup {h} /\ h \notin granted
    <3>1. h \in Elements(k.list[Sem])
      BY <1>1, <1>11, FirstWaiter
    <3> QED BY <1>11, <3>1, SemFacts DEF ReleaseSection
  <2>2. Cardinality(granted') = Cardinality(granted) + 1
    BY <1>1, <2>1, FS_AddElement
  <2>3. value' - (net' - Cardinality(granted')) = value - (net - Cardinality(granted))
    BY <1>1, <1>6, <2>1, <2>2
  <2>4. TokensConserved'
    BY <2>3 DEF SemInv, TokensConserved
  <2>5. SemValues'
    BY <1>1, <1>6, <1>9, <2>1 DEF SemValues, SemInv
  <2>6. value = 0 /\ alive = TRUE
    BY <1>11 DEF SemInv, NoTokenWhileWaiting, DetachedHasNoWaiters, SemValues
  <2>7. NoTokenWhileWaiting' /\ DetachedHasNoWaiters'
    BY <1>6, <2>1, <2>6 DEF NoTokenWhileWaiting, DetachedHasNoWaiters
  <2> QED BY <1>5, <1>7, <1>8, <2>4, <2>5, <2>7 DEF SemInv
<1> QED BY <1>10, <1>11

(* rt_sem_release in a thread                                              *)
LEMMA ReleaseThreadMove ==
  ASSUME SemInv, NEW t \in Thread, Release(t) PROVE SemInv'
<1>1. /\ Running(t) /\ pc[t] = "app" /\ ReleaseSection
      /\ isr' = isr /\ arg' = arg /\ crit' = crit
  BY DEF Release, SemCall
<1>2. /\ IpcInv /\ k \in KernelRecord /\ Consistent(k) /\ Sem \in WaitList
      /\ AllSuspended(k, Sem) /\ pc \in [Thread -> PC]
  BY SemFacts
<1>3. CASE k.list[Sem] = << >>
  <2>1. k' = k /\ pc' = pc
    BY <1>3 DEF Release
  <2>2. UNCHANGED vars
    BY <1>1, <2>1 DEF vars
  <2>3. IpcInv' /\ Wakes(k, k, {})
    BY <1>2, <2>2, IpcStutter, WakesNobody
  <2> QED BY <1>1, <1>3, <2>1, <2>3, ReleaseMove DEF Waiting
<1>4. CASE k.list[Sem] # << >>
  <2> DEFINE h == Head(k.list[Sem])
  <2>1. k' = IpcResume(k, Sem) /\ Goto(t, "sched")
    BY <1>4 DEF Release
  <2>2. Wakes(k, k', {h}) /\ h \in Thread
    BY <1>2, <1>4, <2>1, ResumeWakes, FirstWaiter
  <2>3. IpcInv'
    BY <1>1, <1>2, <2>1, <2>2, CallSection DEF CallLabel
  <2>4. k'.error = k.error
    BY <1>2, <1>4, <2>1, IpcResumeFacts DEF SameRest
  <2>5. \A u \in Thread : Waiting(u)' <=> Waiting(u)
    BY <1>1, <1>2, <2>1 DEF Goto, Waiting
  <2> QED BY <1>1, <1>4, <2>2, <2>3, <2>4, <2>5, ReleaseMove
<1> QED BY <1>3, <1>4

(* rt_sem_release in a device interrupt                                    *)
LEMMA ReleaseIsrMove ==
  ASSUME SemInv, ReleaseIsr PROVE SemInv'
<1>1. /\ isr = "none" /\ k.cur # NoThread /\ ReleaseSection
      /\ isr' = isr /\ pc' = pc /\ arg' = arg /\ crit' = crit
  BY DEF ReleaseIsr
<1>2. /\ IpcInv /\ k \in KernelRecord /\ Consistent(k) /\ Sem \in WaitList
      /\ AllSuspended(k, Sem)
  BY SemFacts
<1>3. CASE k.list[Sem] = << >>
  <2>1. k' = k
    BY <1>3 DEF ReleaseIsr
  <2>2. UNCHANGED vars
    BY <1>1, <2>1 DEF vars
  <2>3. IpcInv' /\ Wakes(k, k, {})
    BY <1>2, <2>2, IpcStutter, WakesNobody
  <2> QED BY <1>1, <1>3, <2>1, <2>3, ReleaseMove DEF Waiting
<1>4. CASE k.list[Sem] # << >>
  <2> DEFINE h == Head(k.list[Sem])
             r == IpcResume(k, Sem)
  <2>1. k' = Schedule(r)
    BY <1>4 DEF ReleaseIsr
  <2>2. Wakes(k, r, {h}) /\ h \in Thread
    BY <1>2, <1>4, ResumeWakes, FirstWaiter
  <2>3. r.error = k.error
    BY <1>2, <1>4, IpcResumeFacts DEF SameRest
  <2> HIDE DEF r
  <2>4. IpcInv' /\ k'.list = r.list /\ k'.stat = r.stat /\ k'.error = r.error
    BY <1>1, <1>2, <2>1, <2>2, InterruptSection
  <2> QED BY <1>1, <1>4, <2>2, <2>3, <2>4, ReleaseMove DEF Waiting
<1> QED BY <1>3, <1>4

(* A section that leaves the account of tokens alone: a thread goes on in  *)
(* its call, with the threads U woken and not granted anything.            *)
LEMMA AccountKept ==
  ASSUME SemInv, value' = value, flag' = flag, net' = net, granted' = granted
  PROVE  TokensConserved' /\ (alive' \in BOOLEAN => SemValues')
BY DEF SemInv, TokensConserved, SemValues

(* rt_sem_detach: its first section, and its test of the list              *)
LEMMA DetachMove ==
  ASSUME SemInv, NEW t \in Thread, Detach(t) \/ DrainTest(t) PROVE SemInv'
<1>1. /\ Running(t) /\ pc[t] \in {"app", "drain1"}
      /\ UNCHANGED <<k, isr, arg, crit, value, flag, granted, net>>
      /\ alive' \in BOOLEAN /\ (~alive' => ~alive \/ k.list[Sem] = << >>)
      /\ \E label \in {"app", "drain1", "drain2"} : Goto(t, label)
  BY DEF Detach, DrainTest, SemCall, SemInv, SemValues, semVars
<1>2. PICK label \in {"app", "drain1", "drain2"} : Goto(t, label)
  BY <1>1
<1>3. IpcInv /\ k \in KernelRecord /\ Consistent(k) /\ pc \in [Thread -> PC]
  BY SemFacts
<1>4. IpcInv'
  <2>1. Wakes(k, k', {})
    BY <1>1, <1>3, WakesNobody
  <2>2. label \in CallLabel /\ label # "waited"
    BY DEF CallLabel
  <2> QED BY <1>1, <1>2, <1>3, <2>1, <2>2, CallSection
<1>5. \A u \in Thread : Waiting(u)' <=> Waiting(u)
  BY <1>1, <1>2, <1>3 DEF Goto, Waiting
<1>6. TokensConserved' /\ SemValues'
  BY <1>1, AccountKept
<1>7. NoTokenWhileWaiting' /\ DetachedHasNoWaiters'
  BY <1>1 DEF SemInv, NoTokenWhileWaiting, DetachedHasNoWaiters
<1>8. BlockedIffListed'
  <2>1. \A u \in Thread : u \in Elements(k.list[Sem]) <=> Waiting(u) /\ k.stat[u] = "suspend"
    BY DEF SemInv, BlockedIffListed, Waiting
  <2>2. \A u \in Thread :
          u \in Elements(k'.list[Sem]) <=> Waiting(u)' /\ k'.stat[u] = "suspend"
    BY <1>1, <1>5, <2>1
  <2> QED BY <2>2 DEF BlockedIffListed, Waiting
<1>9. GrantedReady' /\ WokenGranted'
  BY <1>1, <1>5 DEF SemInv, GrantedReady, WokenGranted, SemValues
<1> QED BY <1>4, <1>6, <1>7, <1>8, <1>9 DEF SemInv

(* The threads U of the list are woken with an error: they are granted     *)
(* nothing.                                                                *)
LEMMA DrainKeeps ==
  ASSUME SemInv, NEW U \in SUBSET Elements(k.list[Sem]), Drained(k, k', Sem, U),
         Elements(k'.list[Sem]) = Elements(k.list[Sem]) \ U,
         \A t \in Thread : Waiting(t)' <=> Waiting(t),
         granted' = granted
  PROVE  BlockedIffListed' /\ GrantedReady' /\ WokenGranted'
<1>1. \A t \in Thread : /\ k'.stat[t] = IF t \in U THEN "ready" ELSE k.stat[t]
                        /\ k'.error[t] = IF t \in U THEN "ERROR" ELSE k.error[t]
  BY DEF Drained
<1>2. BlockedIffListed' /\ \A t \in granted \cup U : Waiting(t)' /\ k'.stat[t] = "ready"
  BY <1>1, WakeKeepsLists
<1>3. GrantedReady'
  BY <1>2 DEF GrantedReady
<1>4. WokenGranted'
  BY <1>1 DEF SemInv, WokenGranted
<1> QED BY <1>2, <1>3, <1>4

(* rt_sem_detach: a turn of its loop.  If the list has become empty since  *)
(* the test, an assertion fails and nothing else happens.                  *)
LEMMA DrainMove ==
  ASSUME SemInv, NEW t \in Thread, DrainResume(t) PROVE SemInv'
<1>1. /\ Running(t) /\ pc[t] = "drain2" /\ Goto(t, "drain1") /\ k' = DrainOne(k, Sem)
      /\ UNCHANGED <<isr, arg, crit, value, flag, alive, granted, net>>
  BY DEF DrainResume, semVars
<1>2. /\ IpcInv /\ k \in KernelRecord /\ Consistent(k) /\ Sem \in WaitList
      /\ AllSuspended(k, Sem) /\ pc \in [Thread -> PC] /\ k.list[Sem] \in Seq(Thread)
      /\ Elements(k.list[Sem]) \subseteq Thread
  BY SemFacts
<1>3. \A u \in Thread : Waiting(u)' <=> Waiting(u)
  BY <1>1, <1>2 DEF Goto, Waiting
<1>4. TokensConserved' /\ SemValues'
  BY <1>1, AccountKept DEF SemInv, SemValues
<1>5. \E U \in SUBSET Elements(k.list[Sem]) :
        /\ Wakes(k, k', U)
        /\ Elements(k'.list[Sem]) = Elements(k.list[Sem]) \ U
        /\ k.list[Sem] = << >> => k'.list[Sem] = << >>
        /\ \A u \in Thread : k'.error[u] = IF u \in U THEN "ERROR" ELSE k.error[u]
  <2>1. CASE k.list[Sem] = << >>
    <3>1. k' = [k EXCEPT !.asserted = TRUE]
      BY <1>1, <2>1 DEF DrainOne
    <3>2. /\ k' \in KernelRecord
          /\ k'.list = k.list /\ k'.stat = k.stat /\ k'.prio = k.prio /\ k'.mask = k.mask
          /\ k'.group = k.group /\ k'.timer = k.timer /\ k'.cur = k.cur
          /\ k'.lock = k.lock /\ k'.error = k.error
      BY <1>2, <3>1 DEF KernelRecord
    <3>3. Consistent(k')
      BY <1>2, <3>2, SameConsistent
    <3>4. Wakes(k, k', {})
      BY <3>2, <3>3 DEF Wakes
    <3> QED BY <2>1, <3>2, <3>4
  <2>2. CASE k.list[Sem] # << >>
    <3> DEFINE h == Head(k.list[Sem])
    <3>1. /\ Wakes(k, k', {h}) /\ h \in Thread /\ h \in Elements(k.list[Sem])
          /\ k'.error = Update(k.error, h, "ERROR")
      <4>1. k' = DrainOne(k, Sem)
        BY <1>1
      <4>2. k \in KernelRecord /\ Consistent(k) /\ Sem \in WaitList /\ AllSuspended(k, Sem)
        BY <1>2
      <4> QED BY ONLY <2>2, <4>1, <4>2, DrainOneWakes
    <3>5. Elements(k'.list[Sem]) = Elements(k.list[Sem]) \ {h}
      <4>1. {h} \subseteq Thread
        BY <3>1
      <4>2. k \in KernelRecord /\ Sem \in WaitList
        BY <1>2
      <4> QED BY ONLY <3>1, <4>1, <4>2, WakesTakes
    <3>6. \A u \in Thread : k'.error[u] = IF u \in {h} THEN "ERROR" ELSE k.error[u]
      BY <1>2, <3>1 DEF Update, KernelRecord
    <3> QED BY <2>2, <3>1, <3>5, <3>6
  <2> QED BY <2>1, <2>2
<1>6. PICK U \in SUBSET Elements(k.list[Sem]) :
        /\ Wakes(k, k', U)
        /\ Elements(k'.list[Sem]) = Elements(k.list[Sem]) \ U
        /\ k.list[Sem] = << >> => k'.list[Sem] = << >>
        /\ \A u \in Thread : k'.error[u] = IF u \in U THEN "ERROR" ELSE k.error[u]
  BY <1>5
<1>7. IpcInv'
  <2>1. U \subseteq Thread /\ "drain1" \in CallLabel
    BY <1>2 DEF CallLabel
  <2> QED BY <1>1, <1>2, <1>6, <2>1, CallSection
<1>8. \A u \in Thread : k'.stat[u] = IF u \in U THEN "ready" ELSE k.stat[u]
  BY <1>6 DEF Wakes
<1>9. BlockedIffListed' /\ \A u \in granted \cup U : Waiting(u)' /\ k'.stat[u] = "ready"
  BY <1>3, <1>6, <1>8, WakeKeepsLists
<1>10. GrantedReady' /\ WokenGranted'
  BY <1>1, <1>3, <1>6, <1>8, <1>9 DEF SemInv, GrantedReady, WokenGranted
<1>11. NoTokenWhileWaiting' /\ DetachedHasNoWaiters'
  BY <1>1, <1>6 DEF SemInv, NoTokenWhileWaiting, DetachedHasNoWaiters
<1> QED BY <1>4, <1>7, <1>9, <1>10, <1>11 DEF SemInv

(* rt_sem_control(RT_IPC_CMD_RESET)                                        *)
LEMMA ResetMove ==
  ASSUME SemInv, NEW t \in Thread, NEW v \in {0, SemInit}, Reset(t, v) PROVE SemInv'
<1> DEFINE U == Elements(k.list[Sem])
<1>1. /\ Running(t) /\ pc[t] = "app" /\ Goto(t, "sched") /\ k' = DrainAll(k, Sem)
      /\ value' = v /\ net' = v + Cardinality(granted) /\ alive = TRUE
      /\ UNCHANGED <<isr, arg, crit, flag, alive, granted>>
  BY DEF Reset, SemCall, SemInv, SemValues
<1>2. /\ IpcInv /\ k \in KernelRecord /\ Consistent(k) /\ Sem \in WaitList
      /\ AllSuspended(k, Sem) /\ pc \in [Thread -> PC] /\ U \subseteq Thread
  BY SemFacts
<1>3. Drained(k, k', Sem, U) /\ k'.list[Sem] = << >>
  BY <1>1, <1>2, DrainAllFacts
<1>4. Wakes(k, k', U) /\ Elements(k'.list[Sem]) = Elements(k.list[Sem]) \ U
  BY <1>2, <1>3, DrainWakes, WakesTakes
<1>5. IpcInv'
  <2>1. "sched" \in CallLabel
    BY DEF CallLabel
  <2> QED BY <1>1, <1>2, <1>4, <2>1, CallSection
<1>6. \A u \in Thread : Waiting(u)' <=> Waiting(u)
  BY <1>1, <1>2 DEF Goto, Waiting
<1>7. BlockedIffListed' /\ GrantedReady' /\ WokenGranted'
  BY <1>1, <1>3, <1>4, <1>6, DrainKeeps
<1>8. v \in 0 .. ValueRange - 1
  BY SemAssumption
<1>9. TokensConserved' /\ net' \in Int
  BY <1>1, <1>8, FreshAccount
<1>10. SemValues'
  BY <1>1, <1>8, <1>9 DEF SemInv, SemValues
<1>11. NoTokenWhileWaiting' /\ DetachedHasNoWaiters'
  BY <1>3 DEF NoTokenWhileWaiting, DetachedHasNoWaiters
<1> QED BY <1>5, <1>7, <1>9, <1>10, <1>11 DEF SemInv

(* What the section of rt_sem_take that blocks does to the kernel          *)
LEMMA TakeWaitSuspends ==
  ASSUME SemInv, NEW t \in Thread, NEW timed \in BOOLEAN, TakeWait(t, timed)
  PROVE  /\ Suspends(k, k', t, Sem)
         /\ flag = "PRIO" /\ SortedBy(k.prio, k.list[Sem]) => SortedBy(k.prio, k'.list[Sem])
<1>1. Running(t) /\ pc[t] = "app" /\ k.lock = 0
  BY DEF TakeWait, SemCall
<1>2. IpcInv /\ k \in KernelRecord /\ Consistent(k) /\ Sem \in WaitList
  BY SemFacts
<1>3. k.stat[t] \in {"ready", "suspend"} /\ \A v \in WaitList : t \notin Elements(k.list[v])
  BY <1>1, <1>2, CallerReady
<1> DEFINE x == IpcSuspend(SetError(k, t, "EOK"), Sem, t, flag)
<1>4. k' = x \/ k' = StartTimer(x, t)
  BY DEF TakeWait
<1> QED BY ONLY <1>2, <1>3, <1>4, t \in Thread, AwaitSuspends

LEMMA TakeWaitMove ==
  ASSUME SemInv, NEW t \in Thread, NEW timed \in BOOLEAN, TakeWait(t, timed) PROVE SemInv'
<1>1. /\ Running(t) /\ pc[t] = "app" /\ t # Idle /\ k.lock = 0 /\ Goto(t, "wait")
      /\ value = 0 /\ alive
      /\ UNCHANGED <<isr, arg, crit, value, flag, alive, granted, net>>
  BY DEF TakeWait, SemCall, semVars
<1>2. /\ IpcInv /\ k \in KernelRecord /\ Sem \in WaitList /\ pc \in [Thread -> PC]
  BY SemFacts
<1>3. Suspends(k, k', t, Sem)
  BY TakeWaitSuspends
<1>4. IpcInv'
  BY <1>1, <1>2, <1>3, BlockSection
<1>5. \A u \in Thread : Waiting(u)' <=> Waiting(u) \/ u = t
  BY <1>1, <1>2 DEF Goto, Waiting
<1>6. \A u \in Thread :
        /\ k'.stat[u] = IF u = t THEN "suspend" ELSE k.stat[u]
        /\ k'.error[u] = IF u = t THEN "EOK" ELSE k.error[u]
  BY <1>2, <1>3 DEF Suspends, Update, KernelRecord
<1>7. BlockedIffListed'
  <2>1. \A u \in Thread : u \in Elements(k.list[Sem]) <=> Waiting(u) /\ k.stat[u] = "suspend"
    BY DEF SemInv, BlockedIffListed, Waiting
  <2>2. Elements(k'.list[Sem]) = Elements(k.list[Sem]) \cup {t}
    BY <1>3 DEF Suspends
  <2>3. \A u \in Thread :
          u \in Elements(k'.list[Sem]) <=> Waiting(u)' /\ k'.stat[u] = "suspend"
    BY <1>5, <1>6, <2>1, <2>2
  <2> QED BY <2>3 DEF BlockedIffListed, Waiting
<1>8. t \notin granted
  BY <1>1 DEF SemInv, GrantedReady, Waiting
<1>9. GrantedReady' /\ WokenGranted'
  BY <1>1, <1>5, <1>6, <1>8 DEF SemInv, GrantedReady, WokenGranted, SemValues
<1>10. TokensConserved' /\ SemValues'
  BY <1>1, AccountKept DEF SemInv, SemValues
<1>11. NoTokenWhileWaiting' /\ DetachedHasNoWaiters'
  BY <1>1 DEF NoTokenWhileWaiting, DetachedHasNoWaiters
<1> QED BY <1>4, <1>7, <1>9, <1>10, <1>11 DEF SemInv

(* A thread back from its wait is ready: with RT_EOK it has been given a   *)
(* token.                                                                  *)
LEMMA ReturnGranted ==
  ASSUME SemInv, NEW t \in Thread, Running(t), pc[t] = "waited"
  PROVE  /\ k.lock = 0 /\ k.stat[t] = "ready" /\ t \notin Elements(k.list[Sem])
         /\ k.error[t] = "EOK" => t \in granted
<1>1. IpcInv /\ Sem \in WaitList /\ k.cur = t
  BY SemFacts DEF Running
<1>2. k.lock = 0
  BY <1>1 DEF IpcInv, WaitsUnlocked, Waiting
<1>3. k.stat[t] \in {"ready", "suspend"} /\ t \notin Elements(k.list[Sem])
  BY <1>1, <1>2, CallerReady
<1>4. k.stat[t] = "ready"
  BY <1>3 DEF SemInv, BlockedIffListed
<1> QED BY <1>2, <1>3, <1>4 DEF SemInv, WokenGranted, Waiting

LEMMA TakeReturnMove ==
  ASSUME SemInv, NEW t \in Thread, TakeReturn(t) PROVE SemInv'
<1>1. /\ Running(t) /\ pc[t] = "waited" /\ Goto(t, "app")
      /\ net' = IF k.error[t] = "EOK" \/ t \in granted THEN net - 1 ELSE net
      /\ granted' = granted \ {t}
      /\ UNCHANGED <<k, isr, arg, crit, value, flag, alive>>
  BY DEF TakeReturn
<1>2. /\ IpcInv /\ k \in KernelRecord /\ Consistent(k) /\ pc \in [Thread -> PC]
      /\ value \in Nat /\ net \in Int /\ Cardinality(granted) \in Nat
      /\ IsFiniteSet(granted)
  BY SemFacts DEF SemInv, SemValues
<1>3. /\ k.stat[t] = "ready" /\ t \notin Elements(k.list[Sem])
      /\ k.error[t] = "EOK" => t \in granted
  BY <1>1, ReturnGranted
<1>4. IpcInv'
  <2>1. Wakes(k, k', {})
    BY <1>1, <1>2, WakesNobody
  <2>2. "app" \in CallLabel
    BY DEF CallLabel
  <2> QED BY <1>1, <1>2, <1>3, <2>1, <2>2, CallSection
<1>5. \A u \in Thread : Waiting(u)' <=> Waiting(u) /\ u # t
  BY <1>1, <1>2 DEF Goto, Waiting
<1>6. BlockedIffListed'
  <2>1. \A u \in Thread : u \in Elements(k.list[Sem]) <=> Waiting(u) /\ k.stat[u] = "suspend"
    BY DEF SemInv, BlockedIffListed, Waiting
  <2>2. \A u \in Thread :
          u \in Elements(k'.list[Sem]) <=> Waiting(u)' /\ k'.stat[u] = "suspend"
    BY <1>1, <1>3, <1>5, <2>1
  <2> QED BY <2>2 DEF BlockedIffListed, Waiting
<1>7. GrantedReady' /\ WokenGranted'
  BY <1>1, <1>5 DEF SemInv, GrantedReady, WokenGranted, SemValues
<1>8. /\ IsFiniteSet(granted')
      /\ Cardinality(granted') = IF t \in granted THEN Cardinality(granted) - 1
                                                  ELSE Cardinality(granted)
  BY <1>1, <1>2, FS_RemoveElement
<1>9. net' = IF t \in granted THEN net - 1 ELSE net
  BY <1>1, <1>3
<1>10. value' - (net' - Cardinality(granted')) = value - (net - Cardinality(granted))
  BY <1>1, <1>2, <1>8, <1>9
<1>11. TokensConserved'
  BY <1>10 DEF SemInv, TokensConserved
<1>12. SemValues'
  BY <1>1, <1>2, <1>8, <1>9 DEF SemInv, SemValues
<1>13. NoTokenWhileWaiting' /\ DetachedHasNoWaiters'
  BY <1>1 DEF SemInv, NoTokenWhileWaiting, DetachedHasNoWaiters
<1> QED BY <1>4, <1>6, <1>7, <1>11, <1>12, <1>13 DEF SemInv

-----------------------------------------------------------------------------
(* All steps.                                                              *)

LEMMA SemStartInv ==
  ASSUME SemStart PROVE SemInv
<1>1. /\ Init /\ value = SemInit /\ flag \in IpcFlag /\ alive = TRUE
      /\ granted = {} /\ net = SemInit
  BY DEF SemStart
<1>2. IpcInv
  BY <1>1, IpcStart
<1>3. /\ Sem \in WaitList /\ SemInit \in 0 .. ValueRange - 1 /\ SemInit \in Int
      /\ ValueRange \in Nat \ {0}
  BY SemAssumption
<1>4. \A t \in Thread : ~Waiting(t)
  BY <1>1 DEF Init, Waiting
<1>5. Elements(k.list[Sem]) = {} /\ k.list[Sem] = << >>
  <2>1. k \in KernelRecord /\ Elements(k.list[Sem]) \subseteq Thread
    BY <1>2, <1>3, IpcFacts
  <2>2. k.list[Sem] \in Seq(Thread)
    BY <1>3, <2>1, WaitQueue DEF KernelRecord, QueueLists
  <2>3. Elements(k.list[Sem]) = {}
    BY <1>2, <1>3, <1>4, <2>1 DEF IpcInv, ListedWait
  <2> QED BY <2>2, <2>3, EmptyElements
<1>6. SemValues
  <2>1. IsFiniteSet(granted)
    BY <1>1, FS_EmptySet
  <2> QED BY <1>1, <1>3, <2>1 DEF SemValues
<1>7. TokensConserved
  <2>1. Cardinality(granted) = 0
    BY <1>1, FS_EmptySet
  <2>2. value - (net - Cardinality(granted)) = 0
    BY <1>1, <1>3, <2>1
  <2>3. 0 % ValueRange = 0
    BY <1>3
  <2> QED BY <2>2, <2>3 DEF TokensConserved
<1>8. NoTokenWhileWaiting /\ DetachedHasNoWaiters
  BY <1>1, <1>5 DEF NoTokenWhileWaiting, DetachedHasNoWaiters
<1>9. BlockedIffListed /\ GrantedReady /\ WokenGranted
  BY <1>1, <1>4, <1>5 DEF BlockedIffListed, GrantedReady, WokenGranted, Waiting
<1> QED BY <1>2, <1>6, <1>7, <1>8, <1>9 DEF SemInv

LEMMA SemStutter ==
  ASSUME SemInv, UNCHANGED allVars PROVE SemInv'
<1>1. UNCHANGED vars /\ UNCHANGED <<value, flag, alive, granted, net>>
  BY DEF allVars, semVars
<1>2. UNCHANGED <<k, isr, pc, arg, crit>>
  BY <1>1 DEF vars
<1>3. SemValues' /\ TokensConserved'
  BY <1>1 DEF SemInv, SemValues, TokensConserved
<1>4. NoTokenWhileWaiting' /\ DetachedHasNoWaiters'
  BY <1>1, <1>2 DEF SemInv, NoTokenWhileWaiting, DetachedHasNoWaiters
<1> QED BY <1>1, <1>2, <1>3, <1>4, ValueMove

LEMMA SemNextStep ==
  ASSUME SemInv, Ops \cap Meddling = {}, [SemNext]_allVars PROVE SemInv'
<1>1. CASE Next /\ UNCHANGED semVars
  BY <1>1, SchedulerMove
<1>2. CASE ReleaseIsr
  BY <1>2, ReleaseIsrMove
<1>3. ASSUME NEW t \in Thread,
             \/ TakeNow(t) \/ TakeReturn(t) \/ Release(t)
             \/ \E timed \in BOOLEAN : TakeWait(t, timed)
             \/ \E v \in {0, SemInit} : Reset(t, v)
             \/ Detach(t) \/ DrainTest(t) \/ DrainResume(t) \/ InitSem(t)
      PROVE  SemInv'
  <2>1. CASE TakeNow(t)
    BY <2>1, TakeNowMove
  <2>2. CASE TakeReturn(t)
    BY <2>2, TakeReturnMove
  <2>3. CASE Release(t)
    BY <2>3, ReleaseThreadMove
  <2>4. CASE \E timed \in BOOLEAN : TakeWait(t, timed)
    BY <2>4, TakeWaitMove
  <2>5. CASE \E v \in {0, SemInit} : Reset(t, v)
    BY <2>5, ResetMove
  <2>6. CASE Detach(t) \/ DrainTest(t)
    BY <2>6, DetachMove
  <2>7. CASE DrainResume(t)
    BY <2>7, DrainMove
  <2>8. CASE InitSem(t)
    BY <2>8, InitSemMove
  <2> QED BY <1>3, <2>1, <2>2, <2>3, <2>4, <2>5, <2>6, <2>7, <2>8
<1>4. CASE UNCHANGED allVars
  BY <1>4, SemStutter
<1> QED BY <1>1, <1>2, <1>3, <1>4 DEF SemNext

-----------------------------------------------------------------------------
(* The order of the waiters.                                               *)

LEMMA SortedWithout ==
  ASSUME NEW s \in Seq(Thread), NoRepeat(s), NEW u, NEW r, r = Without(s, u),
         NEW old, NEW new, SortedBy(old, s), \A t \in Elements(s) : new[t] = old[t]
  PROVE  SortedBy(new, r)
<1>1. ASSUME NEW i \in DOMAIN r, NEW j \in DOMAIN r, i < j
      PROVE  new[r[i]] <= new[r[j]]
  <2>1. PICK a, b \in DOMAIN s : a < b /\ s[a] = r[i] /\ s[b] = r[j]
    BY <1>1, WithoutOrder
  <2>2. s[a] \in Elements(s) /\ s[b] \in Elements(s)
    BY <2>1 DEF Elements
  <2>3. old[s[a]] <= old[s[b]]
    BY <2>1 DEF SortedBy
  <2> QED BY <2>1, <2>2, <2>3
<1> QED BY <1>1 DEF SortedBy

LEMMA SortedFacts ==
  ASSUME SemInv
  PROVE  /\ WaitersSorted <=> (flag = "PRIO" => SortedBy(k.prio, k.list[Sem]))
         /\ WaitersSorted' <=> (flag' = "PRIO" => SortedBy(k'.prio, k'.list[Sem]))
BY DEF WaitersSorted, SortedBy

(* One thread at most leaves the list                                      *)
LEMMA OrderKept ==
  ASSUME SemInv, WaitersSorted, flag' = flag, NEW u,
         k'.list[Sem] = Without(k.list[Sem], u),
         \A t \in Elements(k.list[Sem]) : k'.prio[t] = k.prio[t]
  PROVE  WaitersSorted'
<1>1. CASE flag = "PRIO"
  <2>1. SortedBy(k.prio, k.list[Sem])
    BY <1>1, SortedFacts
  <2>2. k.list[Sem] \in Seq(Thread) /\ NoRepeat(k.list[Sem])
    BY SemFacts, WaitQueue DEF Consistent, LinkedOnce, NoRepeat
  <2>3. SortedBy(k'.prio, k'.list[Sem])
    BY <2>1, <2>2, SortedWithout
  <2> QED BY <2>3, SortedFacts
<1> QED BY <1>1, SortedFacts

(* or nobody does,                                                         *)
LEMMA OrderUntouched ==
  ASSUME SemInv, WaitersSorted, flag' = flag, k' = k
  PROVE  WaitersSorted'
BY DEF WaitersSorted

(* or all do.                                                              *)
LEMMA OrderOfNone ==
  ASSUME k'.list[Sem] = << >> PROVE WaitersSorted'
BY DEF WaitersSorted

LEMMA SchedulerOrder ==
  ASSUME SemInv, WaitersSorted, Ops \cap Meddling = {}, "priority" \notin Ops,
         Next, UNCHANGED semVars
  PROVE  WaitersSorted'
<1>1. PICK u \in Thread \cup {NoThread} : WaitsKept(u)
  BY NextIpc DEF SemInv, Moves
<1>2. k'.list[Sem] = Without(k.list[Sem], u)
  BY <1>1, SemFacts DEF WaitsKept, TakesFrom
<1>3. \A t \in Elements(k.list[Sem]) : t \in Thread /\ InCall(t)
  BY SemFacts, IpcFacts
<1>4. \A t \in Elements(k.list[Sem]) : k'.prio[t] = k.prio[t]
  BY <1>1, <1>3 DEF WaitsKept
<1>5. flag' = flag
  BY DEF semVars
<1> QED BY <1>2, <1>4, <1>5, OrderKept

LEMMA ReleaseOrder ==
  ASSUME SemInv, WaitersSorted, ReleaseIsr \/ \E t \in Thread : Release(t)
  PROVE  WaitersSorted'
<1>1. /\ k \in KernelRecord /\ Consistent(k) /\ Sem \in WaitList
      /\ AllSuspended(k, Sem) /\ IpcInv
  BY SemFacts
<1>2. flag' = flag
  BY DEF ReleaseIsr, Release, ReleaseSection
<1>3. CASE k.list[Sem] = << >>
  <2>1. k' = k
    BY <1>3 DEF ReleaseIsr, Release
  <2> QED BY <1>2, <2>1, OrderUntouched
<1>4. CASE k.list[Sem] # << >>
  <2> DEFINE h == Head(k.list[Sem])
             r == IpcResume(k, Sem)
  <2>1. Wakes(k, r, {h}) /\ h \in Thread /\ Without(k.list[Sem], h) = Tail(k.list[Sem])
    BY <1>1, <1>4, ResumeWakes, FirstWaiter
  <2>2. r.list[Sem] = Tail(k.list[Sem]) /\ r.prio = k.prio
    BY <1>1, <1>4, IpcResumeFacts
  <2>3. CASE ReleaseIsr
    <3>1. /\ isr = "none" /\ k.cur # NoThread /\ k' = Schedule(r)
          /\ isr' = isr /\ pc' = pc /\ arg' = arg /\ crit' = crit
      BY <1>4, <2>3 DEF ReleaseIsr
    <3> HIDE DEF r
    <3>2. k'.list = r.list /\ k'.prio = r.prio
      BY <1>1, <2>1, <3>1, InterruptSection
    <3> QED BY <1>2, <2>1, <2>2, <3>2, OrderKept
  <2>4. CASE \E t \in Thread : Release(t)
    <3>1. k' = r
      BY <1>4, <2>4 DEF Release
    <3> QED BY <1>2, <2>1, <2>2, <3>1, OrderKept
  <2> QED BY <2>3, <2>4
<1> QED BY <1>3, <1>4

LEMMA DrainOrder ==
  ASSUME SemInv, WaitersSorted, NEW t \in Thread,
         DrainResume(t) \/ \E v \in {0, SemInit} : Reset(t, v)
  PROVE  WaitersSorted'
<1>1. k \in KernelRecord /\ Consistent(k) /\ Sem \in WaitList /\ AllSuspended(k, Sem)
  BY SemFacts
<1>2. flag' = flag
  BY DEF DrainResume, Reset, semVars
<1>3. CASE DrainResume(t) /\ k.list[Sem] = << >>
  <2>1. k' = [k EXCEPT !.asserted = TRUE]
    BY <1>3 DEF DrainResume, DrainOne
  <2>2. k'.list[Sem] = << >>
    BY <1>1, <1>3, <2>1 DEF KernelRecord
  <2> QED BY <2>2, OrderOfNone
<1>4. CASE DrainResume(t) /\ k.list[Sem] # << >>
  <2>1. k' = DrainOne(k, Sem)
    BY <1>4 DEF DrainResume
  <2>2. k'.list[Sem] = Tail(k.list[Sem]) /\ k'.prio = k.prio
    <3>1. k.list[Sem] # << >>
      BY <1>4
    <3> QED BY ONLY <1>1, <2>1, <3>1, DrainOneWakes
  <2>3. Without(k.list[Sem], Head(k.list[Sem])) = Tail(k.list[Sem])
    BY <1>1, <1>4, FirstWaiter
  <2> QED BY <1>2, <2>2, <2>3, OrderKept
<1>5. CASE \E v \in {0, SemInit} : Reset(t, v)
  <2>1. k' = DrainAll(k, Sem)
    BY <1>5 DEF Reset
  <2>2. k'.list[Sem] = << >>
    BY <1>1, <2>1, DrainAllFacts
  <2> QED BY <2>2, OrderOfNone
<1> QED BY <1>3, <1>4, <1>5

LEMMA OrderStep ==
  ASSUME SemInv, WaitersSorted, Ops \cap Meddling = {}, "priority" \notin Ops,
         [SemNext]_allVars
  PROVE  WaitersSorted'
<1>1. CASE Next /\ UNCHANGED semVars
  BY <1>1, SchedulerOrder
<1>2. CASE ReleaseIsr \/ \E t \in Thread : Release(t)
  BY <1>2, ReleaseOrder
<1>3. CASE \E t \in Thread : DrainResume(t) \/ \E v \in {0, SemInit} : Reset(t, v)
  BY <1>3, DrainOrder
<1>4. CASE \E t \in Thread : \E timed \in BOOLEAN : TakeWait(t, timed)
  <2>1. PICK t \in Thread, timed \in BOOLEAN : TakeWait(t, timed)
    BY <1>4
  <2>2. /\ Suspends(k, k', t, Sem)
        /\ flag = "PRIO" /\ SortedBy(k.prio, k.list[Sem]) => SortedBy(k.prio, k'.list[Sem])
    BY <2>1, TakeWaitSuspends
  <2>3. k'.prio = k.prio
    BY <2>2 DEF Suspends
  <2>4. flag' = flag
    BY <2>1 DEF TakeWait, semVars
  <2> QED BY <2>2, <2>3, <2>4, SortedFacts
<1>5. CASE \E t \in Thread : InitSem(t)
  <2>1. k' = k /\ k.list[Sem] = << >>
    BY <1>5 DEF InitSem, vars, SemInv, DetachedHasNoWaiters
  <2> QED BY <2>1, OrderOfNone
<1>6. CASE \E t \in Thread : TakeNow(t) \/ TakeReturn(t) \/ Detach(t) \/ DrainTest(t)
  <2>1. k' = k /\ flag' = flag
    BY <1>6 DEF TakeNow, TakeReturn, Detach, DrainTest, vars, semVars
  <2> QED BY <2>1, OrderUntouched
<1>7. CASE UNCHANGED allVars
  <2>1. k' = k /\ flag' = flag
    BY <1>7 DEF allVars, vars, semVars
  <2> QED BY <2>1, OrderUntouched
<1> QED BY <1>1, <1>2, <1>3, <1>4, <1>5, <1>6, <1>7 DEF SemNext

-----------------------------------------------------------------------------
(* The theorems.  Applications make no call that suspends, resumes or      *)
(* deletes a thread while it waits for the semaphore (Meddling); threads   *)
(* start, sleep, yield, exit, lock the scheduler and change priorities as  *)
(* they please.                                                            *)

(* The invariant holds in every reachable state.                           *)
THEOREM SemaphoreInvariant ==
  ASSUME Ops \cap Meddling = {} PROVE SemSpec => []SemInv
<1>1. SemStart => SemInv
  BY SemStartInv
<1>2. SemInv /\ [SemNext]_allVars => SemInv'
  BY SemNextStep
<1> QED BY <1>1, <1>2, PTL DEF SemSpec

(* The state of a semaphore and of the kernel under it keeps its types:    *)
(* the value stays in the range of an rt_uint16_t through every release.   *)
THEOREM SemaphoreTypes ==
  ASSUME Ops \cap Meddling = {} PROVE SemSpec => []SemTypeOK
<1>1. SemInv => SemTypeOK
  BY DEF SemInv, IpcInv, IInv, SemValues, SemTypeOK
<1> QED BY <1>1, SemaphoreInvariant, PTL

(* rt_sem_take makes a thread wait only when there is no token, and        *)
(* rt_sem_release adds to the value only when nobody waits: no thread      *)
(* waits for a token that is there.                                        *)
THEOREM NobodyWaitsForAToken ==
  ASSUME Ops \cap Meddling = {} PROVE SemSpec => []NoTokenWhileWaiting
<1>1. SemInv => NoTokenWhileWaiting
  BY DEF SemInv
<1> QED BY <1>1, SemaphoreInvariant, PTL

(* The wait list holds exactly the threads blocked in rt_sem_take, whether *)
(* releases, timeouts, resets or the detaching of the semaphore wake them. *)
THEOREM WaitListExact ==
  ASSUME Ops \cap Meddling = {} PROVE SemSpec => []BlockedIffListed
<1>1. SemInv => BlockedIffListed
  BY DEF SemInv
<1> QED BY <1>1, SemaphoreInvariant, PTL

(* No token is lost or made, with any number of threads, releases from     *)
(* interrupts and timeouts that come before a take that was granted a      *)
(* token has returned: the value is what was released and not taken, up to *)
(* the overflow of the counter in rt_sem_release.                          *)
THEOREM TokensAreConserved ==
  ASSUME Ops \cap Meddling = {} PROVE SemSpec => []TokensConserved
<1>1. SemInv => TokensConserved
  BY DEF SemInv
<1> QED BY <1>1, SemaphoreInvariant, PTL

(* rt_sem_detach leaves no thread behind in the list of a semaphore that   *)
(* is no longer an object, although its loop has interrupts on between two *)
(* waiters.                                                                *)
THEOREM DetachLeavesNobody ==
  ASSUME Ops \cap Meddling = {} PROVE SemSpec => []DetachedHasNoWaiters
<1>1. SemInv => DetachedHasNoWaiters
  BY DEF SemInv
<1> QED BY <1>1, SemaphoreInvariant, PTL

(* rt_ipc_list_suspend with RT_IPC_FLAG_PRIO keeps the waiters in the      *)
(* order of their priorities, whichever of them timeouts take out of the   *)
(* middle; rt_thread_control does not move a waiter whose priority it      *)
(* changes, so that applications must not change priorities.               *)
THEOREM WaitersStaySorted ==
  ASSUME Ops \cap Meddling = {}, "priority" \notin Ops
  PROVE  SemSpec => []WaitersSorted
<1>1. SemStart => SemInv /\ WaitersSorted
  <2> SUFFICES ASSUME SemStart PROVE SemInv /\ WaitersSorted
    OBVIOUS
  <2>1. SemInv /\ \A t \in Thread : ~Waiting(t)
    BY SemStartInv DEF SemStart, Init, Waiting
  <2>2. Elements(k.list[Sem]) = {}
    BY <2>1, SemFacts DEF SemInv, BlockedIffListed, Waiting
  <2>3. k.list[Sem] = << >>
    BY <2>1, <2>2, SemFacts, EmptyElements
  <2> QED BY <2>1, <2>3 DEF WaitersSorted
<1>2. SemInv /\ WaitersSorted /\ [SemNext]_allVars => (SemInv /\ WaitersSorted)'
  BY SemNextStep, OrderStep
<1> QED BY <1>1, <1>2, PTL DEF SemSpec

(* A thread whose take had to wait gets RT_EOK only if a release gave it a *)
(* token: no timeout, reset or detach of the semaphore looks like success. *)
THEOREM NoTakeIsFree ==
  ASSUME Ops \cap Meddling = {} PROVE SemSpec => NoFreeTake
<1>1. ASSUME SemInv, SemNext, NEW t \in Thread, pc[t] = "waited", pc'[t] = "app"
      PROVE  Running(t)
  <2>1. pc \in [Thread -> PC] /\ IpcInv
    BY <1>1, SemFacts
  <2>2. CASE Next /\ UNCHANGED semVars
    <3>1. LabelsKept
      BY <1>1, <2>1, <2>2, NextIpc DEF Moves
    <3> QED BY <1>1, <3>1 DEF LabelsKept, IpcLabels
  <2>3. CASE ReleaseIsr
    BY <1>1, <2>3 DEF ReleaseIsr
  <2>4. ASSUME NEW u \in Thread,
               \/ TakeNow(u) \/ TakeReturn(u) \/ Release(u)
               \/ \E timed \in BOOLEAN : TakeWait(u, timed)
               \/ \E v \in {0, SemInit} : Reset(u, v)
               \/ Detach(u) \/ DrainTest(u) \/ DrainResume(u) \/ InitSem(u)
        PROVE  Running(t)
    <3>1. \/ pc' = pc
          \/ Running(u) /\ \E label : Goto(u, label)
      <4>1. CASE TakeNow(u) \/ InitSem(u)
        BY <4>1 DEF TakeNow, InitSem, vars
      <4>2. CASE TakeReturn(u) \/ DrainTest(u) \/ DrainResume(u)
        BY <4>2 DEF TakeReturn, DrainTest, DrainResume
      <4>3. CASE Release(u) \/ Detach(u)
        BY <4>3 DEF Release, Detach, SemCall
      <4>4. CASE \E timed \in BOOLEAN : TakeWait(u, timed)
        BY <4>4 DEF TakeWait, SemCall
      <4>5. CASE \E v \in {0, SemInit} : Reset(u, v)
        BY <4>5 DEF Reset, SemCall
      <4> QED BY <2>4, <4>1, <4>2, <4>3, <4>4, <4>5
    <3> QED BY <1>1, <2>1, <3>1 DEF Goto
  <2> QED BY <1>1, <2>2, <2>3, <2>4 DEF SemNext
<1>2. SemInv /\ [SemNext]_allVars =>
        [\A t \in Thread :
           pc[t] = "waited" /\ pc'[t] = "app" /\ k.error[t] = "EOK" => t \in granted]_allVars
  BY <1>1, ReturnGranted
<1> QED BY <1>2, SemaphoreInvariant, PTL DEF SemSpec, NoFreeTake

=============================================================================
