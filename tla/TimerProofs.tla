---------------------------- MODULE TimerProofs -----------------------------
(***************************************************************************)
(* Proofs about module Timer, for any number of timers and clients, any    *)
(* width of the tick and any times below a quarter of it: the timer list   *)
(* stays in the order of expiry, no timer is early or forgotten, and the   *)
(* timers implement the service of module Alarms.                          *)
(***************************************************************************)
EXTENDS Timer, ListLemmas

-----------------------------------------------------------------------------
(* The timer data.                                                         *)

Tick == 0 .. TickRange - 1
Due  == -MaxDelay .. MaxInit

TimerRecord ==
  [tick : Tick, list : Seq(Timer), timeout : [Timer -> Tick],
   init : [Timer -> Times], active : [Timer -> BOOLEAN],
   periodic : [Timer -> BOOLEAN], live : [Timer -> BOOLEAN], due : [Timer -> Due]]

(* timeout_tick is due ticks ahead of the tick, modulo the tick's width.   *)
InTime(d, t) ==
  d.timeout[t] - d.tick - d.due[t] \in {0, TickRange, -TickRange}

InOrder(d) ==
  \A i, j \in DOMAIN d.list :
    i < j => d.list[i] # d.list[j] /\ d.due[d.list[i]] <= d.due[d.list[j]]

Good(d) ==
  /\ d \in TimerRecord
  /\ InOrder(d)
  /\ \A t \in Elements(d.list) : InTime(d, t) /\ d.live[t]

(* The timer data r differs from d only in the timers S.                   *)
Outside(d, r, S) ==
  /\ r.tick = d.tick /\ r.init = d.init /\ r.live = d.live /\ r.periodic = d.periodic
  /\ \A t \in Timer \ S :
       /\ r.timeout[t] = d.timeout[t] /\ r.due[t] = d.due[t] /\ r.active[t] = d.active[t]
       /\ t \in Elements(r.list) <=> t \in Elements(d.list)

(* The timer t is behind the others that are due at the same time.         *)
Behind(d, t) ==
  \A i, j \in DOMAIN d.list :
    d.list[i] = t /\ d.list[j] # t /\ d.due[d.list[j]] = d.due[t] => j < i

(* What the ranges of the numbers are.                                     *)
LEMMA Ranges ==
  /\ TickRange \in Nat /\ MaxInit \in Nat /\ MaxDelay \in Nat /\ Half \in Int
  /\ 2 * Half <= TickRange - 1 /\ TickRange - 1 <= 2 * Half + 1
  /\ MaxInit + MaxDelay < Half
  /\ Tick \subseteq Int /\ Due \subseteq Int /\ 0 \in Due
  /\ Times \subseteq Due /\ \A n \in Times : n \in Int /\ n >= 1 /\ n <= MaxInit
<1>1. /\ TickRange \in Nat /\ MaxInit \in Nat /\ MaxDelay \in Nat
      /\ MaxInit + MaxDelay < Half /\ Times \subseteq 1 .. MaxInit
  BY TimerAssumption
<1>2. Half \in Int /\ 2 * Half <= TickRange - 1 /\ TickRange - 1 <= 2 * Half + 1
  BY <1>1 DEF Half
<1> QED BY <1>1, <1>2 DEF Tick, Due

(* The list has no timer twice.                                            *)
LEMMA OrderOnce ==
  ASSUME NEW d \in TimerRecord, InOrder(d) PROVE NoRepeat(d.list)
<1>1. DOMAIN d.list \subseteq Int
  BY LenProperties DEF TimerRecord
<1>2. \A i, j \in DOMAIN d.list : i < j \/ j < i \/ i = j
  BY <1>1
<1> QED BY <1>2 DEF InOrder, NoRepeat

(* _rt_timer_remove *)
LEMMA RemoveFacts ==
  ASSUME NEW d, Good(d), NEW t \in Timer, NEW r, r = Remove(d, t)
  PROVE  /\ Good(r) /\ Outside(d, r, {t}) /\ r.active = d.active
         /\ Elements(r.list) = Elements(d.list) \ {t} /\ r.due[t] = 0
<1>1. /\ d \in TimerRecord /\ InOrder(d) /\ d.list \in Seq(Timer) /\ NoRepeat(d.list)
  BY OrderOnce DEF Good, TimerRecord
<1> DEFINE w == Without(d.list, t)
<1>2. w \in Seq(Timer) /\ Elements(w) = Elements(d.list) \ {t}
  BY <1>1, WithoutFacts
<1>3. /\ r.list = w /\ r.tick = d.tick /\ r.init = d.init /\ r.live = d.live
      /\ r.periodic = d.periodic /\ r.active = d.active
      /\ r.timeout[t] = 0 /\ r.due[t] = 0
      /\ \A u \in Timer \ {t} : r.timeout[u] = d.timeout[u] /\ r.due[u] = d.due[u]
  BY <1>1 DEF Remove, TimerRecord
<1>4. r \in TimerRecord
  <2>1. 0 \in Due /\ 0 \in Tick
    BY <1>1, Ranges DEF TimerRecord, Tick
  <2> DEFINE x == [d.timeout EXCEPT ![t] = 0]
             y == [d.due EXCEPT ![t] = 0]
  <2>2. x \in [Timer -> Tick] /\ y \in [Timer -> Due]
    BY <1>1, <2>1 DEF TimerRecord
  <2>3. r = [d EXCEPT !.list = w, !.timeout = x, !.due = y]
    BY DEF Remove
  <2> HIDE DEF w, x, y
  <2> QED BY <1>1, <1>2, <2>2, <2>3 DEF TimerRecord
<1>5. Outside(d, r, {t})
  BY <1>2, <1>3 DEF Outside
<1>6. InOrder(r)
  <2> SUFFICES ASSUME NEW i \in DOMAIN r.list, NEW j \in DOMAIN r.list, i < j
               PROVE  r.list[i] # r.list[j] /\ r.due[r.list[i]] <= r.due[r.list[j]]
    BY DEF InOrder
  <2>1. PICK a \in DOMAIN d.list, b \in DOMAIN d.list :
          a < b /\ d.list[a] = r.list[i] /\ d.list[b] = r.list[j]
    BY <1>1, <1>3, WithoutOrder
  <2>2. d.list[a] # d.list[b] /\ d.due[d.list[a]] <= d.due[d.list[b]]
    BY <1>1, <2>1 DEF InOrder
  <2>3. r.list[i] \in Timer \ {t} /\ r.list[j] \in Timer \ {t}
    <3>1. r.list[i] \in Elements(w) /\ r.list[j] \in Elements(w)
      BY <1>3 DEF Elements
    <3>2. Elements(d.list) \subseteq Timer
      BY <1>1, EmptyElements
    <3> QED BY <1>2, <3>1, <3>2
  <2> QED BY <1>3, <2>1, <2>2, <2>3
<1>7. \A u \in Elements(r.list) : InTime(r, u) /\ r.live[u]
  <2> SUFFICES ASSUME NEW u \in Elements(r.list) PROVE InTime(r, u) /\ r.live[u]
    OBVIOUS
  <2>1. u \in Elements(d.list) /\ u \in Timer \ {t}
    BY <1>1, <1>2, <1>3, EmptyElements
  <2> QED BY <1>3, <2>1 DEF Good, InTime
<1> QED BY <1>2, <1>3, <1>4, <1>5, <1>6, <1>7 DEF Good

(* The difference of two timeouts modulo the tick's width tells which      *)
(* timer is to expire later.                                               *)
LEMMA LaterIs ==
  ASSUME NEW d \in TimerRecord, NEW t \in Timer, NEW u \in Timer,
         InTime(d, t), InTime(d, u)
  PROVE  Later(d, u, d.timeout[t]) <=> d.due[u] > d.due[t]
<1> DEFINE a == d.timeout[u]
           b == d.timeout[t]
           x == d.due[u]
           y == d.due[t]
           n == d.tick
<1>1. a \in Tick /\ b \in Tick /\ x \in Due /\ y \in Due /\ n \in Tick
  BY DEF TimerRecord
<1>2. a - n - x \in {0, TickRange, -TickRange} /\ b - n - y \in {0, TickRange, -TickRange}
  BY DEF InTime
<1>3. Later(d, u, d.timeout[t]) <=> Minus(a, b) \in 1 .. Half - 1
  BY DEF Later
<1> HIDE DEF a, b, x, y, n
<1>4. a \in Int /\ b \in Int /\ n \in Int /\ a >= 0 /\ b >= 0 /\ n >= 0
      /\ a < TickRange /\ b < TickRange /\ n < TickRange
  BY <1>1, Ranges DEF Tick
<1>5. x \in Int /\ y \in Int /\ x - y < Half /\ y - x < Half
  BY <1>1, Ranges DEF Due
<1>6. Minus(a, b) - (x - y) \in {0, TickRange, -TickRange, 2 * TickRange, -2 * TickRange,
                                 3 * TickRange, -3 * TickRange}
  BY <1>2, <1>4, <1>5, Ranges DEF Minus
<1>7. Minus(a, b) \in Int /\ Minus(a, b) >= 0 /\ Minus(a, b) < TickRange
  BY <1>4, Ranges DEF Minus
<1>8. Minus(a, b) = IF x >= y THEN x - y ELSE x - y + TickRange
  BY <1>5, <1>6, <1>7, Ranges
<1>9. Minus(a, b) \in 1 .. Half - 1 <=> x > y
  BY <1>5, <1>8, Ranges
<1> QED BY <1>3, <1>9 DEF x, y
(* The search of rt_timer_start: the place found is behind the timers that *)
(* are to expire no later, and before those that are to expire later.      *)
LEMMA PlaceFacts ==
  ASSUME NEW d, Good(d), NEW t \in Timer, InTime(d, t), NEW p, p = Place(d, d.timeout[t])
  PROVE  /\ p \in 1 .. Len(d.list) + 1
         /\ \A i \in DOMAIN d.list :
              /\ i < p  => d.due[d.list[i]] <= d.due[t]
              /\ i >= p => d.due[d.list[i]] > d.due[t]
<1> DEFINE x == d.timeout[t]
           L(i) == Later(d, d.list[i], x)
<1>1. /\ d \in TimerRecord /\ InOrder(d) /\ d.list \in Seq(Timer)
      /\ DOMAIN d.list = 1 .. Len(d.list) /\ Len(d.list) \in Nat
  BY LenProperties DEF Good, TimerRecord
<1>2. ASSUME NEW i \in DOMAIN d.list
      PROVE  /\ d.list[i] \in Timer /\ d.due[d.list[i]] \in Int /\ d.due[t] \in Int
             /\ L(i) <=> d.due[d.list[i]] > d.due[t]
  <2>1. d.list[i] \in Timer /\ InTime(d, d.list[i])
    BY <1>1 DEF Good, Elements
  <2>2. d.due[d.list[i]] \in Due /\ d.due[t] \in Due
    BY <1>1, <2>1 DEF TimerRecord
  <2> QED BY <1>1, <2>1, <2>2, LaterIs, Ranges
<1>3. ASSUME NEW i \in DOMAIN d.list, NEW j \in DOMAIN d.list, i < j, L(i)
      PROVE  L(j)
  BY <1>1, <1>2, <1>3, SMTT(60) DEF InOrder
<1> HIDE DEF L
<1>4. p = IF \E i \in DOMAIN d.list : L(i)
          THEN CHOOSE i \in DOMAIN d.list : L(i) /\ \A j \in 1 .. i - 1 : ~L(j)
          ELSE Len(d.list) + 1
  BY DEF Place, L
<1>5. CASE \E i \in DOMAIN d.list : L(i)
  <2>1. \E i \in DOMAIN d.list : L(i) /\ \A j \in 1 .. i - 1 : ~L(j)
    <3> DEFINE A == {i \in DOMAIN d.list : L(i)}
    <3>1. A \subseteq Nat /\ A # {}
      BY <1>1, <1>5
    <3>2. PICK i \in A : \A j \in A : i <= j
      BY <3>1, LeastElement
    <3> QED BY <1>1, <3>2
  <2>2. p \in DOMAIN d.list /\ L(p) /\ \A j \in 1 .. p - 1 : ~L(j)
    BY <1>4, <1>5, <2>1
  <2>3. \A i \in DOMAIN d.list : (i < p => ~L(i)) /\ (i >= p => L(i))
    BY <1>1, <1>3, <2>2
  <2> QED BY <1>1, <1>2, <2>2, <2>3
<1>6. CASE \A i \in DOMAIN d.list : ~L(i)
  <2>1. p = Len(d.list) + 1
    BY <1>4, <1>6
  <2> QED BY <1>1, <1>2, <1>6, <2>1
<1> QED BY <1>5, <1>6

(* The insertion keeps the order, and puts the timer behind those that are *)
(* due at the same time.                                                   *)
LEMMA InsertFacts ==
  ASSUME NEW d, Good(d), NEW t \in Timer, InTime(d, t), d.live[t],
         t \notin Elements(d.list), NEW r, r = Insert(d, t)
  PROVE  /\ Good(r) /\ Outside(d, r, {t})
         /\ Elements(r.list) = Elements(d.list) \cup {t}
         /\ r.due = d.due /\ r.active[t] /\ Behind(r, t)
<1> DEFINE p == Place(d, d.timeout[t])
           s == InsertAt(d.list, p, t)
<1>1. /\ d \in TimerRecord /\ InOrder(d) /\ d.list \in Seq(Timer)
      /\ DOMAIN d.list = 1 .. Len(d.list) /\ Len(d.list) \in Nat
      /\ Elements(d.list) \subseteq Timer
  BY LenProperties, EmptyElements DEF Good, TimerRecord
<1>2. /\ p \in 1 .. Len(d.list) + 1
      /\ \A i \in DOMAIN d.list :
           /\ i < p  => d.due[d.list[i]] <= d.due[t]
           /\ i >= p => d.due[d.list[i]] > d.due[t]
  BY PlaceFacts
<1> HIDE DEF p
<1>0. s = InsertAt(d.list, p, t)
  OBVIOUS
<1> HIDE DEF s
<1>3. /\ s \in Seq(Timer) /\ s[p] = t /\ p \in DOMAIN s
      /\ \A i \in DOMAIN s : i < p => i \in DOMAIN d.list /\ s[i] = d.list[i]
      /\ \A i \in DOMAIN s : i > p => i - 1 \in DOMAIN d.list /\ s[i] = d.list[i - 1]
      /\ Elements(s) = Elements(d.list) \cup {t}
  <2> DEFINE list == d.list
  <2>1. list \in Seq(Timer) /\ p \in 1 .. Len(list) + 1 /\ s = InsertAt(list, p, t)
    BY <1>0, <1>1, <1>2
  <2> HIDE DEF list
  <2>2. /\ s \in Seq(Timer) /\ s[p] = t /\ p \in DOMAIN s
        /\ \A i \in DOMAIN s : i < p => i \in DOMAIN list /\ s[i] = list[i]
        /\ \A i \in DOMAIN s : i > p => i - 1 \in DOMAIN list /\ s[i] = list[i - 1]
        /\ Elements(s) = Elements(list) \cup {t}
    BY ONLY <2>1, t \in Timer, InsertAtFacts
  <2> QED BY <2>2 DEF list
<1>4. DOMAIN s \subseteq Int
  BY <1>3, LenProperties
<1>5. /\ r.list = s /\ r.tick = d.tick /\ r.init = d.init /\ r.live = d.live
      /\ r.periodic = d.periodic /\ r.timeout = d.timeout /\ r.due = d.due
      /\ r.active = [d.active EXCEPT ![t] = TRUE]
  BY <1>1 DEF Insert, TimerRecord, p, s
<1>6. r \in TimerRecord
  <2> DEFINE x == [d.active EXCEPT ![t] = TRUE]
  <2>1. x \in [Timer -> BOOLEAN]
    BY <1>1 DEF TimerRecord
  <2>2. r = [d EXCEPT !.list = s, !.active = x]
    BY DEF Insert, s, p
  <2> HIDE DEF x
  <2> QED BY <1>1, <1>3, <2>1, <2>2, ZenonT(60) DEF TimerRecord
<1>7. \A u \in Timer : d.due[u] \in Int
  BY <1>1, Ranges DEF TimerRecord
<1>8. ASSUME NEW i \in DOMAIN s
      PROVE  /\ s[i] \in Timer
             /\ i < p => s[i] \in Elements(d.list) /\ d.due[s[i]] <= d.due[t]
             /\ i > p => s[i] \in Elements(d.list) /\ d.due[s[i]] > d.due[t]
             /\ i = p => s[i] = t
  <2>1. CASE i < p
    BY <1>1, <1>2, <1>3, <2>1 DEF Elements
  <2>2. CASE i > p
    <3>1. i - 1 \in DOMAIN d.list /\ s[i] = d.list[i - 1] /\ i - 1 >= p
      BY <1>1, <1>2, <1>3, <1>4, <2>2
    <3> QED BY <1>1, <1>2, <1>3, <1>4, <2>2, <3>1 DEF Elements
  <2>3. CASE i = p
    BY <1>2, <1>3, <2>3
  <2> QED BY <1>2, <1>4, <2>1, <2>2, <2>3
<1>9. ASSUME NEW i \in DOMAIN s, NEW j \in DOMAIN s, i < j
      PROVE  s[i] # s[j] /\ d.due[s[i]] <= d.due[s[j]]
  <2>1. CASE i < p /\ j < p
    BY <1>1, <1>3, <1>9, <2>1 DEF InOrder
  <2>2. CASE i > p /\ j > p
    <3>1. /\ i - 1 \in DOMAIN d.list /\ s[i] = d.list[i - 1]
          /\ j - 1 \in DOMAIN d.list /\ s[j] = d.list[j - 1] /\ i - 1 < j - 1
      BY <1>3, <1>4, <1>9, <2>2
    <3> QED BY <1>1, <3>1 DEF InOrder
  <2>3. CASE i < p /\ j > p
    <3>1. d.due[s[i]] < d.due[s[j]]
      BY <1>7, <1>8, <2>3
    <3> QED BY <1>7, <1>8, <3>1
  <2>4. CASE i = p \/ j = p
    BY <1>2, <1>4, <1>7, <1>8, <1>9, <2>4
  <2> QED BY <1>2, <1>4, <1>9, <2>1, <2>2, <2>3, <2>4
<1>10. InOrder(r)
  BY <1>5, <1>9 DEF InOrder
<1>11. \A u \in Elements(r.list) : InTime(r, u) /\ r.live[u]
  BY <1>3, <1>5 DEF Good, InTime
<1>12. ASSUME NEW i \in DOMAIN s, NEW j \in DOMAIN s,
              s[i] = t, s[j] # t, d.due[s[j]] = d.due[t]
       PROVE  j < i
  <2>1. i = p
    BY <1>2, <1>4, <1>8, <1>12
  <2>2. j < p
    BY <1>2, <1>4, <1>7, <1>8, <1>12
  <2> QED BY <2>1, <2>2
<1>13. Behind(r, t)
  BY <1>5, <1>12 DEF Behind
<1>14. Outside(d, r, {t}) /\ r.active[t]
  BY <1>1, <1>3, <1>5 DEF Outside, TimerRecord
<1> QED BY <1>3, <1>5, <1>6, <1>10, <1>11, <1>13, <1>14 DEF Good
(* The test of rt_timer_check's loop: the difference of tick and timeout   *)
(* tells whether the timer is due.                                         *)
LEMMA ExpiredIs ==
  ASSUME NEW d \in TimerRecord, NEW t \in Timer, InTime(d, t)
  PROVE  Minus(d.tick, d.timeout[t]) < Half <=> d.due[t] <= 0
<1> DEFINE a == d.timeout[t]
           x == d.due[t]
           n == d.tick
<1>1. a \in Tick /\ x \in Due /\ n \in Tick
  BY DEF TimerRecord
<1>2. a - n - x \in {0, TickRange, -TickRange}
  BY DEF InTime
<1> SUFFICES Minus(n, a) < Half <=> x <= 0
  OBVIOUS
<1> HIDE DEF a, x, n
<1>3. /\ a \in Int /\ n \in Int /\ a >= 0 /\ n >= 0 /\ a < TickRange /\ n < TickRange
      /\ x \in Int /\ x < Half /\ -x < Half
  BY <1>1, Ranges DEF Tick, Due
<1>4. /\ Minus(n, a) + x \in {0, TickRange, -TickRange, 2 * TickRange, -2 * TickRange}
      /\ Minus(n, a) \in Int /\ Minus(n, a) >= 0 /\ Minus(n, a) < TickRange
  BY <1>2, <1>3, Ranges DEF Minus
<1>5. Minus(n, a) = IF x <= 0 THEN -x ELSE TickRange - x
  BY <1>3, <1>4, Ranges
<1> QED BY <1>3, <1>5, Ranges

(* timeout_tick as rt_timer_start computes it is init_tick ticks ahead.    *)
LEMMA ComputeFacts ==
  ASSUME NEW d, Good(d), NEW t \in Timer, t \notin Elements(d.list),
         NEW r, r = ComputeTimeout(d, t)
  PROVE  /\ Good(r) /\ Outside(d, r, {t}) /\ r.list = d.list /\ r.active = d.active
         /\ InTime(r, t) /\ r.due[t] = d.init[t]
<1> DEFINE x == [d.timeout EXCEPT ![t] = Plus(d.tick, d.init[t])]
           y == [d.due EXCEPT ![t] = d.init[t]]
<1>1. /\ d \in TimerRecord /\ InOrder(d) /\ d.list \in Seq(Timer)
      /\ Elements(d.list) \subseteq Timer
  BY EmptyElements DEF Good, TimerRecord
<1>2. d.tick \in Tick /\ d.init[t] \in Times
  BY <1>1 DEF TimerRecord
<1>3. /\ Plus(d.tick, d.init[t]) \in Tick /\ d.init[t] \in Due
      /\ Plus(d.tick, d.init[t]) - d.tick - d.init[t] \in {0, TickRange, -TickRange}
  BY <1>2, Ranges DEF Plus, Tick
<1>4. x \in [Timer -> Tick] /\ y \in [Timer -> Due]
  BY <1>1, <1>3 DEF TimerRecord
<1>5. /\ r.list = d.list /\ r.tick = d.tick /\ r.init = d.init /\ r.live = d.live
      /\ r.periodic = d.periodic /\ r.active = d.active /\ r.timeout = x /\ r.due = y
      /\ r = [d EXCEPT !.timeout = x, !.due = y]
  BY <1>1 DEF ComputeTimeout, TimerRecord
<1>6. /\ x[t] = Plus(d.tick, d.init[t]) /\ y[t] = d.init[t]
      /\ \A u \in Timer \ {t} : x[u] = d.timeout[u] /\ y[u] = d.due[u]
  BY <1>1 DEF TimerRecord
<1> HIDE DEF x, y
<1>7. r \in TimerRecord
  BY <1>1, <1>4, <1>5 DEF TimerRecord
<1>8. InTime(r, t) /\ r.due[t] = d.init[t] /\ Outside(d, r, {t})
  BY <1>3, <1>5, <1>6 DEF InTime, Outside
<1>9. \A u \in Elements(d.list) : u \in Timer \ {t} /\ r.due[u] = d.due[u]
                                  /\ r.timeout[u] = d.timeout[u]
  BY <1>1, <1>5, <1>6
<1>10. InOrder(r)
  BY <1>1, <1>5, <1>9 DEF InOrder, Elements
<1>11. \A u \in Elements(r.list) : InTime(r, u) /\ r.live[u]
  BY <1>5, <1>9 DEF Good, InTime
<1> QED BY <1>5, <1>7, <1>8, <1>10, <1>11 DEF Good

WithFlag(d, t, v) == [d EXCEPT !.active[t] = v]

(* The flag ACTIVATED plays no part in the order.                          *)
LEMMA FlagFacts ==
  ASSUME NEW d, Good(d), NEW t \in Timer, NEW v \in BOOLEAN,
         NEW r, r = WithFlag(d, t, v)
  PROVE  /\ Good(r) /\ Outside(d, r, {t}) /\ r.list = d.list /\ r.due = d.due
         /\ (r.active[t] <=> v)
<1> DEFINE x == [d.active EXCEPT ![t] = v]
<1>1. d \in TimerRecord /\ x \in [Timer -> BOOLEAN]
  BY DEF Good, TimerRecord
<1>2. (x[t] <=> v) /\ \A u \in Timer \ {t} : x[u] = d.active[u]
  BY <1>1 DEF TimerRecord
<1>3. /\ r.list = d.list /\ r.tick = d.tick /\ r.init = d.init /\ r.live = d.live
      /\ r.periodic = d.periodic /\ r.active = x /\ r.timeout = d.timeout /\ r.due = d.due
      /\ r = [d EXCEPT !.active = x]
  BY <1>1 DEF TimerRecord, WithFlag
<1> HIDE DEF x
<1>4. r \in TimerRecord
  BY <1>1, <1>3 DEF TimerRecord
<1>5. Good(r)
  BY <1>3, <1>4 DEF Good, InOrder, InTime
<1>6. Outside(d, r, {t})
  BY <1>2, <1>3 DEF Outside
<1> QED BY <1>2, <1>3, <1>5, <1>6

(* The first part of rt_timer_start *)
LEMMA DeactivateFacts ==
  ASSUME NEW d, Good(d), NEW t \in Timer, NEW r, r = Deactivate(d, t)
  PROVE  /\ Good(r) /\ Outside(d, r, {t}) /\ ~ r.active[t]
         /\ Elements(r.list) = Elements(d.list) \ {t}
         /\ r.due[t] = 0
<1> DEFINE e == Remove(d, t)
<1>1. /\ Good(e) /\ Outside(d, e, {t}) /\ Elements(e.list) = Elements(d.list) \ {t}
      /\ e.due[t] = 0
  BY RemoveFacts
<1>2. r = WithFlag(e, t, FALSE)
  BY DEF Deactivate, WithFlag
<1> HIDE DEF e
<1>3. /\ Good(r) /\ Outside(e, r, {t}) /\ r.list = e.list /\ r.due = e.due
      /\ ~ r.active[t]
  <2>1. PICK v \in BOOLEAN : v = FALSE
    OBVIOUS
  <2>2. r = WithFlag(e, t, v)
    BY <1>2, <2>1, Zenon
  <2>3. (r.active[t] <=> v) /\ Good(r) /\ Outside(e, r, {t}) /\ r.list = e.list /\ r.due = e.due
    BY <1>1, <2>2, FlagFacts
  <2> QED BY <2>1, <2>3, Zenon
<1> QED BY <1>1, <1>3 DEF Outside

(* rt_timer_start, all of it: the timer is linked, activated, and due      *)
(* after init_tick.                                                        *)
LEMMA StartNowFacts ==
  ASSUME NEW d, Good(d), NEW t \in Timer, d.live[t], NEW r, r = StartNow(d, t)
  PROVE  /\ Good(r) /\ Outside(d, r, {t}) /\ r.active[t]
         /\ Elements(r.list) = Elements(d.list) \cup {t}
         /\ r.due[t] = d.init[t] /\ Behind(r, t)
<1> DEFINE e == Deactivate(d, t)
           f == ComputeTimeout(e, t)
<1>1. /\ Good(e) /\ Outside(d, e, {t}) /\ Elements(e.list) = Elements(d.list) \ {t}
  BY DeactivateFacts
<1>2. r = Insert(f, t)
  BY DEF StartNow
<1> HIDE DEF e
<1>3. /\ Good(f) /\ Outside(e, f, {t}) /\ f.list = e.list
      /\ InTime(f, t) /\ f.due[t] = e.init[t]
  BY <1>1, ComputeFacts
<1> HIDE DEF f
<1>4. f.live[t] /\ t \notin Elements(f.list) /\ f.due[t] = d.init[t]
  BY <1>1, <1>3 DEF Outside
<1>5. /\ Good(r) /\ Outside(f, r, {t}) /\ Elements(r.list) = Elements(f.list) \cup {t}
      /\ r.due = f.due /\ r.active[t] /\ Behind(r, t)
  BY ONLY t \in Timer, <1>2, <1>3, <1>4, InsertFacts, SMTT(60)
<1>6. Outside(d, r, {t})
  BY <1>1, <1>3, <1>5 DEF Outside
<1> QED BY <1>1, <1>3, <1>4, <1>5, <1>6

(* rt_timer_stop, all of it: a timer that is activated is unlinked.        *)
LEMMA StopNowFacts ==
  ASSUME NEW d, Good(d), NEW t \in Timer, NEW r, r = StopNow(d, t)
  PROVE  /\ Good(r) /\ Outside(d, r, {t})
         /\ \/ r = d
            \/ /\ Elements(r.list) = Elements(d.list) \ {t}
               /\ ~ r.active[t]
<1>1. CASE d.active[t]
  BY <1>1, DeactivateFacts DEF StopNow
<1>2. CASE ~ d.active[t]
  BY <1>2 DEF StopNow, Outside
<1> QED BY <1>1, <1>2
-----------------------------------------------------------------------------
(* The inductive invariant.                                                *)

VarsOK ==
  /\ isr \in {"none", "clock"} /\ pc \in [Client -> TimerPC]
  /\ arg \in [Client -> Timer \cup {NoTimer}] /\ reg \in [Client -> BOOLEAN]

(* What a client that is about to execute p on timer t relies on: rt_timer_ *)
(* start has unlinked the timer, and its timeout_tick still counts.        *)
CallOK(d, p, t) ==
  p # "app" =>
    /\ t \in Timer /\ d.live[t]
    /\ p \in {"start2", "start3", "stop3"} => t \notin Elements(d.list)
    /\ p = "start3" =>
         InTime(d, t) /\ d.due[t] <= d.init[t] /\ d.due[t] >= d.init[t] - MaxDelay

Calls ==
  \A c \in Client : (pc[c] = "app" <=> arg[c] = NoTimer) /\ CallOK(m, pc[c], arg[c])

(* Each timer is used by one client at a time.                             *)
Separate == \A c, e \in Client : c # e /\ arg[c] = arg[e] => arg[c] = NoTimer

(* Outside the clock interrupt no timer is later than a start may make it. *)
NotLate == isr = "none" => \A t \in Elements(m.list) : m.due[t] >= 1 - MaxDelay

TimerInv == VarsOK /\ Good(m) /\ Calls /\ Separate /\ NotLate

LEMMA TimerInvType ==
  TimerInv => TimerTypeOK
BY DEF TimerInv, VarsOK, Good, TimerRecord, Tick, Due, TimerTypeOK

LEMMA TimerInvSorted ==
  TimerInv => PendingSorted
BY DEF TimerInv, Good, InOrder, PendingSorted

(* The timer data r differs from d, its tick aside, only in the timers S.  *)
Apart(d, r, S) ==
  /\ r.tick = d.tick
  /\ \A t \in Timer \ S :
       /\ r.timeout[t] = d.timeout[t] /\ r.due[t] = d.due[t]
       /\ r.init[t] = d.init[t] /\ (r.live[t] <=> d.live[t])
       /\ t \in Elements(r.list) <=> t \in Elements(d.list)

LEMMA OutsideApart ==
  ASSUME NEW d, NEW r, NEW S, Outside(d, r, S) PROVE Apart(d, r, S)
BY DEF Outside, Apart

(* A call goes on as before when others change other timers.               *)
LEMMA CallKept ==
  ASSUME NEW d, NEW r, NEW S, Apart(d, r, S), NEW p, NEW t, t \notin S, CallOK(d, p, t)
  PROVE  CallOK(r, p, t)
BY DEF Apart, CallOK, InTime

LEMMA NotLateKept ==
  ASSUME NEW t \in Timer, TimerInv, isr = "none", Good(m'), Apart(m, m', {t}),
         t \in Elements(m'.list) => m'.due[t] >= 1 - MaxDelay
  PROVE  \A u \in Elements(m'.list) : m'.due[u] >= 1 - MaxDelay
<1>1. Elements(m'.list) \subseteq Timer
  BY EmptyElements DEF Good, TimerRecord
<1> QED BY <1>1 DEF TimerInv, NotLate, Apart

(* A step outside the clock interrupt changes one timer.                   *)
OneChanged == isr = "none" /\ isr' = isr /\ \E t \in Timer : Apart(m, m', {t})

(* A step on a timer that no call works on                                 *)
LEMMA FreeStep ==
  ASSUME TimerInv, isr = "none", NEW t \in Timer, Free(t), Good(m'), Apart(m, m', {t}),
         t \in Elements(m'.list) => m'.due[t] >= 1 - MaxDelay,
         UNCHANGED <<isr, pc, arg, reg>>
  PROVE  TimerInv' /\ OneChanged
<1>1. Calls'
  <2> SUFFICES ASSUME NEW c \in Client
               PROVE  (pc[c] = "app" <=> arg[c] = NoTimer) /\ CallOK(m', pc[c], arg[c])
    BY DEF Calls
  <2>1. (pc[c] = "app" <=> arg[c] = NoTimer) /\ CallOK(m, pc[c], arg[c]) /\ arg[c] \notin {t}
    BY DEF TimerInv, Calls, Free
  <2> QED BY <2>1, CallKept
<1>2. NotLate'
  BY NotLateKept DEF NotLate
<1>3. VarsOK' /\ Separate'
  BY DEF TimerInv, VarsOK, Separate
<1>4. OneChanged
  BY DEF OneChanged
<1> QED BY <1>1, <1>2, <1>3, <1>4 DEF TimerInv

(* A step of client c in a call on timer t, which goes on to p; u is t as  *)
(* long as the call lasts.                                                 *)
LEMMA ClientStep ==
  ASSUME TimerInv, isr = "none", NEW c \in Client, NEW t \in Timer,
         arg[c] \in {NoTimer, t}, \A e \in Client \ {c} : arg[e] # t,
         Good(m'), Apart(m, m', {t}),
         t \in Elements(m'.list) => m'.due[t] >= 1 - MaxDelay,
         NEW p \in TimerPC, NEW u \in {t, NoTimer}, p = "app" <=> u = NoTimer,
         CallOK(m', p, u), isr' = isr, reg' \in [Client -> BOOLEAN],
         pc' = [pc EXCEPT ![c] = p], arg' = [arg EXCEPT ![c] = u]
  PROVE  TimerInv' /\ OneChanged
<1>1. /\ pc \in [Client -> TimerPC] /\ arg \in [Client -> Timer \cup {NoTimer}]
      /\ pc'[c] = p /\ arg'[c] = u
      /\ \A e \in Client \ {c} : pc'[e] = pc[e] /\ arg'[e] = arg[e]
  BY DEF TimerInv, VarsOK
<1>2. VarsOK'
  BY <1>1 DEF TimerInv, VarsOK
<1>3. Separate'
  BY <1>1 DEF TimerInv, Separate
<1>4. NotLate'
  BY NotLateKept DEF NotLate
<1>5. Calls'
  <2> SUFFICES ASSUME NEW e \in Client
               PROVE  (pc'[e] = "app" <=> arg'[e] = NoTimer) /\ CallOK(m', pc'[e], arg'[e])
    BY DEF Calls
  <2>1. CASE e = c
    BY <1>1, <2>1
  <2>2. CASE e # c
    <3>1. (pc[e] = "app" <=> arg[e] = NoTimer) /\ CallOK(m, pc[e], arg[e]) /\ arg[e] \notin {t}
      BY <2>2 DEF TimerInv, Calls
    <3> QED BY <1>1, <2>2, <3>1, CallKept
  <2> QED BY <2>1, <2>2
<1>6. OneChanged
  BY DEF OneChanged
<1> QED BY <1>2, <1>3, <1>4, <1>5, <1>6 DEF TimerInv

(* What a client may rely on when it begins or continues a call.           *)
LEMMA CallFacts ==
  ASSUME TimerInv, NEW c \in Client, NEW t \in Timer, Call(c, t)
  PROVE  /\ isr = "none" /\ m.live[t] /\ Free(t) /\ arg[c] = NoTimer
         /\ \A e \in Client \ {c} : arg[e] # t
BY DEF TimerInv, Calls, Call, Free

LEMMA ContinueFacts ==
  ASSUME TimerInv, NEW c \in Client, NEW p, p # "app", Continue(c, p)
  PROVE  /\ isr = "none" /\ arg[c] \in Timer /\ CallOK(m, p, arg[c]) /\ m.live[arg[c]]
         /\ \A e \in Client \ {c} : arg[e] # arg[c]
<1>1. pc[c] = p /\ CallOK(m, p, arg[c]) /\ arg[c] # NoTimer /\ isr = "none"
  BY DEF TimerInv, Calls, Continue
<1>2. \A e \in Client \ {c} : arg[e] # arg[c]
  BY <1>1 DEF TimerInv, Separate
<1> QED BY <1>1, <1>2 DEF CallOK
-----------------------------------------------------------------------------
(* The steps of clients.                                                   *)

LEMMA StartStep ==
  ASSUME TimerInv, NEW c \in Client, NEW t \in Timer, Start(c, t) PROVE TimerInv' /\ OneChanged
<1>1. /\ Call(c, t) /\ m' = Deactivate(m, t) /\ Good(m)
      /\ pc' = [pc EXCEPT ![c] = "start2"] /\ arg' = [arg EXCEPT ![c] = t]
      /\ isr' = isr /\ reg' = reg
  BY DEF Start, Begin, Goto, TimerInv
<1>2. /\ isr = "none" /\ m.live[t] /\ arg[c] = NoTimer
      /\ \A e \in Client \ {c} : arg[e] # t
  BY <1>1, CallFacts
<1>3. /\ Good(m') /\ Outside(m, m', {t}) /\ Elements(m'.list) = Elements(m.list) \ {t}
  BY <1>1, DeactivateFacts
<1>4. CallOK(m', "start2", t)
  BY <1>2, <1>3 DEF CallOK, Outside
<1> QED BY <1>1, <1>2, <1>3, <1>4, OutsideApart, TimerAssumption, ClientStep
        DEF TimerPC, TimerInv, VarsOK

LEMMA StartTickStep ==
  ASSUME TimerInv, NEW c \in Client, StartTick(c) PROVE TimerInv' /\ OneChanged
<1> DEFINE t == arg[c]
<1>1. /\ Continue(c, "start2") /\ m' = ComputeTimeout(m, t) /\ Good(m)
      /\ pc' = [pc EXCEPT ![c] = "start3"] /\ arg' = arg /\ isr' = isr /\ reg' = reg
  BY DEF StartTick, Goto, TimerInv
<1>2. /\ isr = "none" /\ t \in Timer /\ CallOK(m, "start2", t)
      /\ \A e \in Client \ {c} : arg[e] # t
  BY <1>1, ContinueFacts
<1>3. arg' = [arg EXCEPT ![c] = t]
  BY <1>1 DEF TimerInv, VarsOK
<1> HIDE DEF t
<1>4. t \notin Elements(m.list) /\ m.live[t]
  BY <1>2 DEF CallOK
<1>5. /\ Good(m') /\ Outside(m, m', {t}) /\ m'.list = m.list
      /\ InTime(m', t) /\ m'.due[t] = m.init[t]
  BY <1>1, <1>2, <1>4, ComputeFacts
<1>6. m.init[t] \in Times
  BY <1>1, <1>2 DEF Good, TimerRecord
<1>7. CallOK(m', "start3", t)
  <2>1. m.init[t] \in Int /\ MaxDelay \in Nat
    BY <1>6, Ranges
  <2>2. m'.init[t] = m.init[t] /\ m'.live[t] /\ t \notin Elements(m'.list)
    BY <1>4, <1>5 DEF Outside
  <2>3. m'.due[t] <= m'.init[t] /\ m'.due[t] >= m'.init[t] - MaxDelay
    BY <1>5, <2>1, <2>2
  <2> QED BY <1>2, <1>5, <2>2, <2>3 DEF CallOK
<1>8. arg[c] \in {NoTimer, t}
  BY DEF t
<1> QED BY <1>1, <1>2, <1>3, <1>4, <1>5, <1>7, <1>8, OutsideApart, TimerAssumption, ClientStep
        DEF TimerPC, TimerInv, VarsOK

(* The client returns from its call.                                       *)
LEMMA ReturnStep ==
  ASSUME TimerInv, NEW c \in Client, NEW t, t = arg[c], t \in Timer, isr = "none",
         \A e \in Client \ {c} : arg[e] # t,
         Good(m'), Apart(m, m', {t}), Return(c), isr' = isr,
         reg' \in [Client -> BOOLEAN],
         t \in Elements(m'.list) => m'.due[t] >= 1 - MaxDelay
  PROVE  TimerInv' /\ OneChanged
<1>1. pc' = [pc EXCEPT ![c] = "app"] /\ arg' = [arg EXCEPT ![c] = NoTimer]
  BY DEF Return, Goto
<1>2. CallOK(m', "app", NoTimer)
  BY DEF CallOK
<1>3. "app" \in TimerPC /\ NoTimer \in {t, NoTimer} /\ arg[c] \in {NoTimer, t}
  BY DEF TimerPC
<1> QED BY <1>1, <1>2, <1>3, ClientStep

LEMMA StartInsertStep ==
  ASSUME TimerInv, NEW c \in Client, StartInsert(c) PROVE TimerInv' /\ OneChanged
<1> DEFINE t == arg[c]
<1>1. /\ Continue(c, "start3") /\ m' = Insert(m, t) /\ Good(m)
      /\ Return(c) /\ isr' = isr /\ reg' = reg
  BY DEF StartInsert, TimerInv
<1>2. /\ isr = "none" /\ t \in Timer /\ CallOK(m, "start3", t)
      /\ \A e \in Client \ {c} : arg[e] # t
  BY <1>1, ContinueFacts
<1>3. t = arg[c]
  OBVIOUS
<1> HIDE DEF t
<1>4. /\ t \notin Elements(m.list) /\ m.live[t] /\ InTime(m, t)
      /\ m.due[t] >= m.init[t] - MaxDelay
  BY <1>2 DEF CallOK
<1>5. Good(m') /\ Outside(m, m', {t}) /\ m'.due = m.due
  BY <1>1, <1>2, <1>4, InsertFacts
<1>6. m.init[t] \in Times /\ m.due[t] \in Due
  BY <1>1, <1>2 DEF Good, TimerRecord
<1>7. m'.due[t] >= 1 - MaxDelay
  <2>1. m.init[t] \in Int /\ m.init[t] >= 1 /\ m.due[t] \in Int /\ MaxDelay \in Nat
    BY <1>6, Ranges
  <2>2. m.due[t] >= 1 - MaxDelay
    BY <1>4, <2>1
  <2> QED BY <1>5, <2>2
<1> QED BY <1>1, <1>2, <1>3, <1>5, <1>7, OutsideApart, ReturnStep DEF TimerInv, VarsOK

LEMMA StopStep ==
  ASSUME TimerInv, NEW c \in Client, NEW t \in Timer, Stop(c, t) \/ SetFlag(c, t)
  PROVE  TimerInv' /\ OneChanged
<1>1. PICK p \in {"stop2", "store"} : Begin(c, t, p)
  BY DEF Stop, SetFlag
<1>2. /\ Call(c, t) /\ m' = m /\ isr' = isr /\ Good(m)
      /\ pc' = [pc EXCEPT ![c] = p] /\ arg' = [arg EXCEPT ![c] = t]
  BY <1>1 DEF Stop, SetFlag, Begin, Goto, TimerInv
<1>3. /\ isr = "none" /\ m.live[t] /\ arg[c] = NoTimer
      /\ \A e \in Client \ {c} : arg[e] # t
  BY <1>2, CallFacts
<1>4. reg' \in [Client -> BOOLEAN]
  BY <1>2 DEF Stop, SetFlag, TimerInv, VarsOK, Good, TimerRecord
<1>5. CallOK(m', p, t) /\ Apart(m, m', {t}) /\ Good(m')
  BY <1>2, <1>3 DEF CallOK, Apart
<1>6. t \in Elements(m'.list) => m'.due[t] >= 1 - MaxDelay
  BY <1>2, <1>3 DEF TimerInv, NotLate
<1> QED BY <1>2, <1>3, <1>4, <1>5, <1>6, TimerAssumption, ClientStep, ZenonT(60) DEF TimerPC

LEMMA StopRemoveStep ==
  ASSUME TimerInv, NEW c \in Client, StopRemove(c) PROVE TimerInv' /\ OneChanged
<1> DEFINE t == arg[c]
<1>1. /\ Continue(c, "stop2") /\ m' = Remove(m, t) /\ Good(m)
      /\ pc' = [pc EXCEPT ![c] = "stop3"] /\ arg' = arg /\ isr' = isr /\ reg' = reg
  BY DEF StopRemove, Goto, TimerInv
<1>2. /\ isr = "none" /\ t \in Timer /\ m.live[t]
      /\ \A e \in Client \ {c} : arg[e] # t
  BY <1>1, ContinueFacts
<1>3. arg' = [arg EXCEPT ![c] = t] /\ arg[c] \in {NoTimer, t}
  BY <1>1 DEF TimerInv, VarsOK
<1> HIDE DEF t
<1>4. Good(m') /\ Outside(m, m', {t}) /\ Elements(m'.list) = Elements(m.list) \ {t}
  BY <1>1, <1>2, RemoveFacts
<1>5. CallOK(m', "stop3", t)
  BY <1>2, <1>4 DEF CallOK, Outside
<1> QED BY <1>1, <1>2, <1>3, <1>4, <1>5, OutsideApart, TimerAssumption, ClientStep
        DEF TimerPC, TimerInv, VarsOK

LEMMA StopFlagStep ==
  ASSUME TimerInv, NEW c \in Client, StopFlag(c) PROVE TimerInv' /\ OneChanged
<1> DEFINE t == arg[c]
<1>1. /\ Continue(c, "stop3") /\ Good(m) /\ Return(c) /\ isr' = isr /\ reg' = reg
      /\ m' = [m EXCEPT !.active[t] = FALSE]
  BY DEF StopFlag, TimerInv
<1>2. /\ isr = "none" /\ t \in Timer /\ CallOK(m, "stop3", t)
      /\ \A e \in Client \ {c} : arg[e] # t
  BY <1>1, ContinueFacts
<1>3. t = arg[c] /\ t \notin Elements(m.list)
  BY <1>2 DEF CallOK
<1> HIDE DEF t
<1>4. PICK v \in BOOLEAN : v = FALSE
  OBVIOUS
<1>5. m' = WithFlag(m, t, v)
  BY <1>1, <1>4, Zenon DEF WithFlag
<1>6. Good(m') /\ Outside(m, m', {t}) /\ m'.list = m.list
  <2>1. Good(m) /\ t \in Timer
    BY <1>1, <1>2
  <2> QED BY ONLY <2>1, <1>4, <1>5, FlagFacts
<1> QED BY <1>1, <1>2, <1>3, <1>6, OutsideApart, ReturnStep DEF TimerInv, VarsOK

LEMMA StoreFlagStep ==
  ASSUME TimerInv, NEW c \in Client, NEW p \in BOOLEAN, StoreFlag(c, p) PROVE TimerInv' /\ OneChanged
<1> DEFINE t == arg[c]
           x == [m.active EXCEPT ![t] = reg[c]]
           y == [m.periodic EXCEPT ![t] = p]
<1>1. /\ Continue(c, "store") /\ Good(m) /\ Return(c) /\ isr' = isr
      /\ m' = [m EXCEPT !.active = x, !.periodic = y]
      /\ reg' = [reg EXCEPT ![c] = FALSE]
  BY DEF StoreFlag, TimerInv
<1>2. /\ isr = "none" /\ t \in Timer /\ m \in TimerRecord
      /\ \A e \in Client \ {c} : arg[e] # t
  BY <1>1, ContinueFacts DEF Good
<1>3. x \in [Timer -> BOOLEAN] /\ y \in [Timer -> BOOLEAN] /\ t = arg[c]
      /\ reg' \in [Client -> BOOLEAN]
  BY <1>1, <1>2 DEF TimerRecord, TimerInv, VarsOK
<1> HIDE DEF t, x, y
<1>4. /\ m'.list = m.list /\ m'.tick = m.tick /\ m'.timeout = m.timeout
      /\ m'.due = m.due /\ m'.init = m.init /\ m'.live = m.live /\ m' \in TimerRecord
  BY <1>1, <1>2, <1>3 DEF TimerRecord
<1>5. Good(m') /\ Apart(m, m', {t})
  BY <1>1, <1>4 DEF Good, InOrder, InTime, Apart
<1>6. t \in Elements(m'.list) => m'.due[t] >= 1 - MaxDelay
  BY <1>2, <1>4 DEF TimerInv, NotLate
<1> QED BY <1>1, <1>2, <1>3, <1>5, <1>6, ReturnStep
-----------------------------------------------------------------------------
(* Steps that are done in one section, and a driver's interrupt.           *)

LEMMA SetTimeStep ==
  ASSUME TimerInv, NEW c \in Client, NEW t \in Timer, NEW n \in Times, SetTime(c, t, n)
  PROVE  TimerInv' /\ OneChanged
<1> DEFINE x == [m.init EXCEPT ![t] = n]
<1>1. /\ Call(c, t) /\ Good(m) /\ m' = [m EXCEPT !.init = x]
      /\ UNCHANGED <<isr, pc, arg, reg>>
  BY DEF SetTime, TimerInv
<1>2. isr = "none" /\ Free(t) /\ m \in TimerRecord
  BY <1>1, CallFacts DEF Good
<1>3. x \in [Timer -> Times] /\ \A u \in Timer \ {t} : x[u] = m.init[u]
  BY <1>2 DEF TimerRecord
<1> HIDE DEF x
<1>4. /\ m'.list = m.list /\ m'.tick = m.tick /\ m'.timeout = m.timeout
      /\ m'.due = m.due /\ m'.init = x /\ m'.live = m.live /\ m' \in TimerRecord
  BY <1>1, <1>2, <1>3 DEF TimerRecord
<1>5. Good(m') /\ Apart(m, m', {t})
  BY <1>1, <1>3, <1>4 DEF Good, InOrder, InTime, Apart
<1>6. t \in Elements(m'.list) => m'.due[t] >= 1 - MaxDelay
  BY <1>2, <1>4 DEF TimerInv, NotLate
<1> QED BY <1>1, <1>2, <1>5, <1>6, FreeStep

LEMMA DetachStep ==
  ASSUME TimerInv, NEW c \in Client, NEW t \in Timer, Detach(c, t) PROVE TimerInv' /\ OneChanged
<1> DEFINE r == Remove(m, t)
           x == [r.live EXCEPT ![t] = FALSE]
<1>1. /\ Call(c, t) /\ Good(m) /\ UNCHANGED <<isr, pc, arg, reg>>
      /\ m' = [r EXCEPT !.live = x]
  BY DEF Detach, TimerInv
<1>2. isr = "none" /\ Free(t)
  BY <1>1, CallFacts
<1>3. /\ Good(r) /\ Outside(m, r, {t}) /\ Elements(r.list) = Elements(m.list) \ {t}
  BY <1>1, RemoveFacts
<1> HIDE DEF r
<1>4. x \in [Timer -> BOOLEAN] /\ \A u \in Timer \ {t} : x[u] = r.live[u]
  BY <1>3 DEF Good, TimerRecord
<1> HIDE DEF x
<1>5. /\ m'.list = r.list /\ m'.tick = r.tick /\ m'.timeout = r.timeout
      /\ m'.due = r.due /\ m'.init = r.init /\ m'.live = x /\ m' \in TimerRecord
  BY <1>1, <1>3, <1>4 DEF Good, TimerRecord
<1>6. Elements(r.list) \subseteq Timer
  BY <1>3, EmptyElements DEF Good, TimerRecord
<1>7. Good(m')
  <2>1. InOrder(m')
    BY <1>3, <1>5 DEF Good, InOrder
  <2>2. ASSUME NEW u \in Elements(m'.list) PROVE InTime(m', u) /\ m'.live[u]
    <3>1. u \in Elements(r.list) /\ u \in Timer \ {t}
      BY <1>3, <1>5, <1>6
    <3> QED BY <1>3, <1>4, <1>5, <3>1 DEF Good, InTime
  <2> QED BY <1>5, <2>1, <2>2 DEF Good
<1>8. Apart(m, m', {t})
  BY <1>3, <1>4, <1>5 DEF Outside, Apart
<1> QED BY <1>1, <1>2, <1>3, <1>5, <1>7, <1>8, FreeStep

LEMMA InitTimerStep ==
  ASSUME TimerInv, NEW c \in Client, NEW t \in Timer, NEW n \in Times, NEW p \in BOOLEAN,
         InitTimer(c, t, n, p)
  PROVE  TimerInv' /\ OneChanged
<1> DEFINE lv == [m.live EXCEPT ![t] = TRUE]
           ac == [m.active EXCEPT ![t] = FALSE]
           pe == [m.periodic EXCEPT ![t] = p]
           ini == [m.init EXCEPT ![t] = n]
           tm == [m.timeout EXCEPT ![t] = 0]
<1>1. /\ isr = "none" /\ ~m.live[t] /\ Good(m) /\ UNCHANGED <<isr, pc, arg, reg>>
      /\ m' = [m EXCEPT !.live = lv, !.active = ac, !.periodic = pe,
                        !.init = ini, !.timeout = tm]
  BY DEF InitTimer, TimerInv
<1>2. t \notin Elements(m.list) /\ Free(t) /\ m \in TimerRecord
  <2>1. t \notin Elements(m.list) /\ m \in TimerRecord
    BY <1>1 DEF Good
  <2>2. ASSUME NEW e \in Client PROVE arg[e] # t
    <3>1. (pc[e] = "app" <=> arg[e] = NoTimer) /\ CallOK(m, pc[e], arg[e])
      BY DEF TimerInv, Calls
    <3> QED BY <1>1, <3>1, TimerAssumption DEF CallOK
  <2> QED BY <2>1, <2>2 DEF Free
<1>3. /\ lv \in [Timer -> BOOLEAN] /\ ac \in [Timer -> BOOLEAN] /\ pe \in [Timer -> BOOLEAN]
      /\ ini \in [Timer -> Times] /\ tm \in [Timer -> Tick]
  <2>1. 0 \in Tick
    BY <1>2, Ranges DEF TimerRecord, Tick
  <2> QED BY <1>2, <2>1 DEF TimerRecord
<1>4. \A u \in Timer \ {t} : /\ lv[u] = m.live[u] /\ ini[u] = m.init[u]
                             /\ tm[u] = m.timeout[u]
  BY <1>2 DEF TimerRecord
<1> HIDE DEF lv, ac, pe, ini, tm
<1>5. /\ m'.list = m.list /\ m'.tick = m.tick /\ m'.timeout = tm
      /\ m'.due = m.due /\ m'.init = ini /\ m'.live = lv /\ m' \in TimerRecord
  BY <1>1, <1>2, <1>3 DEF TimerRecord
<1>6. Elements(m.list) \subseteq Timer
  BY <1>2, EmptyElements DEF TimerRecord
<1>7. Good(m')
  <2>1. InOrder(m')
    BY <1>1, <1>5 DEF Good, InOrder
  <2>2. ASSUME NEW u \in Elements(m'.list) PROVE InTime(m', u) /\ m'.live[u]
    <3>1. u \in Elements(m.list) /\ u \in Timer \ {t}
      BY <1>2, <1>5, <1>6
    <3> QED BY <1>1, <1>4, <1>5, <3>1 DEF Good, InTime
  <2> QED BY <1>5, <2>1, <2>2 DEF Good
<1>8. Apart(m, m', {t})
  BY <1>4, <1>5 DEF Apart
<1> QED BY <1>1, <1>2, <1>5, <1>7, <1>8, FreeStep

LEMMA DeviceIsrStep ==
  ASSUME TimerInv, NEW t \in Timer, DeviceIsr(t) PROVE TimerInv' /\ OneChanged
<1>1. /\ isr = "none" /\ m.live[t] /\ Free(t) /\ Good(m)
      /\ m' = StartNow(m, t) \/ m' = StopNow(m, t)
      /\ UNCHANGED <<isr, pc, arg, reg>>
  BY DEF DeviceIsr, TimerInv
<1>2. t \in Elements(m.list) => m.due[t] >= 1 - MaxDelay
  BY <1>1 DEF TimerInv, NotLate
<1>3. CASE m' = StartNow(m, t)
  <2>1. Good(m') /\ Outside(m, m', {t}) /\ m'.due[t] = m.init[t]
    BY <1>1, <1>3, StartNowFacts
  <2>2. m.init[t] \in Times
    BY <1>1 DEF Good, TimerRecord
  <2>3. m.init[t] \in Int /\ m.init[t] >= 1 /\ MaxDelay \in Nat
    BY <2>2, Ranges
  <2>4. m'.due[t] >= 1 - MaxDelay
    BY <2>1, <2>3
  <2> QED BY <1>1, <2>1, <2>4, OutsideApart, FreeStep
<1>4. CASE m' = StopNow(m, t)
  <2>1. /\ Good(m') /\ Outside(m, m', {t})
        /\ m' = m \/ Elements(m'.list) = Elements(m.list) \ {t}
    BY <1>1, <1>4, StopNowFacts
  <2>2. t \in Elements(m'.list) => m'.due[t] >= 1 - MaxDelay
    BY <1>2, <2>1
  <2> QED BY <1>1, <2>1, <2>2, OutsideApart, FreeStep
<1> QED BY <1>1, <1>3, <1>4

-----------------------------------------------------------------------------
(* The clock interrupt.                                                    *)

LEMMA ClockEnterStep ==
  ASSUME TimerInv, ClockEnter PROVE TimerInv'
<1> DEFINE x == Plus(m.tick, 1)
           y == [t \in Timer |-> IF Counting(t) THEN m.due[t] - 1 ELSE m.due[t]]
<1>1. /\ isr = "none" /\ isr' = "clock" /\ Good(m) /\ m \in TimerRecord
      /\ m' = [m EXCEPT !.tick = x, !.due = y]
      /\ pc' = pc /\ arg' = arg /\ reg' = reg
      /\ \A c \in Client : pc[c] = "start3" => m.due[arg[c]] > m.init[arg[c]] - MaxDelay
  BY DEF ClockEnter, TimerInv, Good
<1>2. m.tick \in Tick /\ x \in Tick /\ x - m.tick - 1 \in {0, TickRange, -TickRange}
  <2>1. m.tick \in Tick
    BY <1>1 DEF TimerRecord
  <2> QED BY <2>1, Ranges DEF Plus, Tick
<1>3. ASSUME NEW t \in Timer, Counting(t)
      PROVE  m.due[t] \in Int /\ m.due[t] >= 1 - MaxDelay /\ m.due[t] <= MaxInit
  <2>1. m.due[t] \in Due /\ m.init[t] \in Times
    BY <1>1 DEF TimerRecord
  <2>2. /\ m.due[t] \in Int /\ m.due[t] <= MaxInit /\ MaxDelay \in Nat
        /\ m.init[t] \in Int /\ m.init[t] >= 1
    <3>1. m.init[t] \in Int /\ m.init[t] >= 1 /\ MaxDelay \in Nat
      BY <2>1, Ranges
    <3>2. m.due[t] \in Int /\ m.due[t] <= MaxInit
      BY <2>1, Ranges DEF Due
    <3> QED BY <3>1, <3>2
  <2>3. CASE Linked(t)
    BY <1>1, <2>2, <2>3 DEF Linked, TimerInv, NotLate
  <2>4. CASE \E c \in Client : pc[c] = "start3" /\ arg[c] = t
    <3>1. m.due[t] > m.init[t] - MaxDelay
      BY <1>1, <2>4
    <3> QED BY <2>2, <3>1
  <2> QED BY <1>3, <2>3, <2>4 DEF Counting
<1>4. y \in [Timer -> Due]
  <2> SUFFICES ASSUME NEW t \in Timer PROVE y[t] \in Due
    OBVIOUS
  <2>1. CASE Counting(t)
    BY <1>3, <2>1, Ranges DEF Due
  <2>2. CASE ~Counting(t)
    BY <1>1, <2>2 DEF TimerRecord
  <2> QED BY <2>1, <2>2
<1>5. \A t \in Timer : y[t] = IF Counting(t) THEN m.due[t] - 1 ELSE m.due[t]
  OBVIOUS
<1> HIDE DEF x, y
<1>6. /\ m'.list = m.list /\ m'.tick = x /\ m'.timeout = m.timeout
      /\ m'.due = y /\ m'.init = m.init /\ m'.live = m.live /\ m' \in TimerRecord
  BY <1>1, <1>2, <1>4 DEF TimerRecord
<1>7. ASSUME NEW t \in Timer, Counting(t), InTime(m, t)
      PROVE  InTime(m', t) /\ m'.due[t] = m.due[t] - 1
  <2>1. m.timeout[t] \in Tick /\ m.due[t] \in Due
    BY <1>1 DEF TimerRecord
  <2>2. /\ m.timeout[t] \in Int /\ m.timeout[t] >= 0 /\ m.timeout[t] < TickRange
        /\ m.tick \in Int /\ x \in Int /\ x >= 0 /\ x < TickRange
        /\ m.due[t] \in Int /\ m.due[t] < Half /\ -m.due[t] < Half
    BY <1>2, <2>1, Ranges DEF Tick, Due
  <2>3. m'.due[t] = m.due[t] - 1
    BY <1>5, <1>6, <1>7
  <2>4. m.timeout[t] - x - (m.due[t] - 1)
          \in {0, TickRange, -TickRange, 2 * TickRange, -2 * TickRange}
    BY <1>2, <1>7, <2>2, Ranges DEF InTime
  <2>5. /\ m.timeout[t] - x - (m.due[t] - 1) < 2 * TickRange
        /\ m.timeout[t] - x - (m.due[t] - 1) > -2 * TickRange
    BY <2>2, Ranges
  <2>6. m.timeout[t] - x - (m.due[t] - 1) \in {0, TickRange, -TickRange}
    BY <2>2, <2>4, <2>5, Ranges
  <2> QED BY <1>6, <2>3, <2>6 DEF InTime
<1>8. ASSUME NEW t \in Elements(m.list)
      PROVE  /\ t \in Timer /\ InTime(m', t) /\ m.live[t]
             /\ m'.due[t] = m.due[t] - 1 /\ m.due[t] \in Int
  <2>1. t \in Timer /\ Counting(t) /\ InTime(m, t) /\ m.live[t]
    BY <1>1, EmptyElements DEF Good, TimerRecord, Counting, Linked
  <2> QED BY <1>3, <1>7, <2>1
<1>9. Good(m')
  <2>1. InOrder(m')
    BY <1>1, <1>6, <1>8 DEF Good, InOrder, Elements
  <2> QED BY <1>6, <1>8, <2>1 DEF Good
<1>10. Calls'
  <2> SUFFICES ASSUME NEW c \in Client
               PROVE  (pc[c] = "app" <=> arg[c] = NoTimer) /\ CallOK(m', pc[c], arg[c])
    BY <1>1 DEF Calls
  <2>1. (pc[c] = "app" <=> arg[c] = NoTimer) /\ CallOK(m, pc[c], arg[c])
    BY DEF TimerInv, Calls
  <2>2. CASE pc[c] = "start3"
    <3> DEFINE t == arg[c]
    <3>1. /\ t \in Timer /\ Counting(t) /\ InTime(m, t) /\ m.due[t] <= m.init[t]
          /\ m.due[t] > m.init[t] - MaxDelay
      BY <1>1, <2>1, <2>2 DEF CallOK, Counting
    <3>2. InTime(m', t) /\ m'.due[t] = m.due[t] - 1 /\ m.due[t] \in Int
      BY <1>3, <1>7, <3>1
    <3>3. m.init[t] \in Int /\ MaxDelay \in Nat
      <4>1. m.init[t] \in Times
        BY <1>1, <3>1 DEF TimerRecord
      <4> QED BY <4>1, Ranges
    <3>4. m'.due[t] <= m'.init[t] /\ m'.due[t] >= m'.init[t] - MaxDelay
      BY <1>6, <3>1, <3>2, <3>3
    <3> QED BY <1>6, <2>1, <2>2, <3>2, <3>4 DEF CallOK
  <2>3. CASE pc[c] # "start3"
    BY <1>6, <2>1, <2>3 DEF CallOK
  <2> QED BY <2>2, <2>3
<1>11. VarsOK' /\ Separate' /\ NotLate'
  BY <1>1 DEF TimerInv, VarsOK, Separate, NotLate
<1> QED BY <1>9, <1>10, <1>11 DEF TimerInv

(* When the head of the list is not due, nothing in the list is.           *)
LEMMA HeadDue ==
  ASSUME NEW d, Good(d), d.list # << >>
  PROVE  /\ Head(d.list) \in Elements(d.list) /\ Head(d.list) \in Timer
         /\ Minus(d.tick, d.timeout[Head(d.list)]) < Half <=> d.due[Head(d.list)] <= 0
         /\ \A t \in Elements(d.list) : d.due[Head(d.list)] <= d.due[t]
<1>1. /\ d \in TimerRecord /\ d.list \in Seq(Timer) /\ InOrder(d)
      /\ Elements(d.list) \subseteq Timer
      /\ Head(d.list) = d.list[1] /\ Head(d.list) \in Elements(d.list)
  BY EmptyElements DEF Good, TimerRecord
<1>2. DOMAIN d.list = 1 .. Len(d.list) /\ Len(d.list) \in Nat /\ 1 \in DOMAIN d.list
  BY <1>1, LenProperties, EmptySeq
<1>3. \A t \in Timer : d.due[t] \in Int
  BY <1>1, Ranges DEF TimerRecord
<1>4. ASSUME NEW t \in Elements(d.list) PROVE d.due[Head(d.list)] <= d.due[t]
  <2>1. PICK i \in DOMAIN d.list : t = d.list[i]
    BY DEF Elements
  <2>2. CASE i = 1
    BY <1>1, <1>3, <2>1, <2>2
  <2>3. CASE i # 1
    <3>1. 1 < i
      BY <1>2, <2>3
    <3> QED BY <1>1, <1>2, <2>1, <3>1 DEF InOrder
  <2> QED BY <2>2, <2>3
<1>5. Minus(d.tick, d.timeout[Head(d.list)]) < Half <=> d.due[Head(d.list)] <= 0
  BY <1>1, ExpiredIs DEF Good
<1> QED BY <1>1, <1>4, <1>5

LEMMA NothingDue ==
  ASSUME TimerInv, ~HeadExpired
  PROVE  \A t \in Elements(m.list) : t \in Timer /\ m.due[t] > 0
<1>1. Good(m) /\ m \in TimerRecord /\ Elements(m.list) \subseteq Timer
  BY EmptyElements DEF TimerInv, Good, TimerRecord
<1>2. CASE m.list = << >>
  BY <1>2 DEF Elements
<1>3. CASE m.list # << >>
  <2>1. ~ (m.due[Head(m.list)] <= 0) /\ Head(m.list) \in Timer
        /\ \A t \in Elements(m.list) : m.due[Head(m.list)] <= m.due[t]
    BY <1>1, <1>3, HeadDue DEF HeadExpired
  <2>2. ASSUME NEW t \in Elements(m.list) PROVE t \in Timer /\ m.due[t] > 0
    <3> DEFINE h == Head(m.list)
    <3>1. t \in Timer /\ m.due[t] \in Due /\ m.due[h] \in Due
      BY <1>1, <2>1 DEF TimerRecord
    <3>2. m.due[h] \in Int /\ m.due[t] \in Int
      BY <3>1, Ranges
    <3>3. m.due[h] <= m.due[t] /\ ~ (m.due[h] <= 0)
      BY <2>1
    <3> QED BY <3>1, <3>2, <3>3
  <2> QED BY <2>2
<1> QED BY <1>2, <1>3

LEMMA ClockLeaveStep ==
  ASSUME TimerInv, ClockLeave PROVE TimerInv'
<1>1. isr' = "none" /\ m' = m /\ pc' = pc /\ arg' = arg /\ reg' = reg /\ ~HeadExpired
  BY DEF ClockLeave
<1>2. NotLate'
  <2> SUFFICES ASSUME NEW t \in Elements(m.list) PROVE m.due[t] >= 1 - MaxDelay
    BY <1>1 DEF NotLate
  <2>1. t \in Timer /\ m.due[t] > 0
    BY <1>1, NothingDue
  <2>2. m.due[t] \in Int /\ MaxDelay \in Nat
    BY <2>1, Ranges DEF TimerInv, Good, TimerRecord
  <2> QED BY <2>1, <2>2
<1> QED BY <1>1, <1>2 DEF TimerInv, VarsOK, Good, Calls, Separate, InOrder
(* What a timeout function may have done, its own timer being t            *)
LEMMA CallbackCases ==
  ASSUME NEW d, NEW t \in Timer, NEW e \in Callback(d, t)
  PROVE  \E u \in Timer :
           /\ u = t \/ (d.live[u] /\ Free(u))
           /\ \/ e = d
              \/ e = StopNow(d, u)
              \/ e = StartNow(d, u) /\ (u = t => "restart" \in TimerOps \/ d.periodic[t])
BY DEF Callback

(* The timers that are linked after a change are due as before, or have    *)
(* been started.                                                           *)
Restarts(d, r) ==
  \A t \in Elements(r.list) :
    (t \in Elements(d.list) /\ r.due[t] = d.due[t]) \/ r.due[t] = d.init[t]

ActiveLinked(d) == \A t \in Elements(d.list) : d.active[t]

(* One call of rt_timer_start or rt_timer_stop, or none                    *)
LEMMA CallEffect ==
  ASSUME NEW d, Good(d), NEW u \in Timer, NEW r,
         r = d \/ r = StopNow(d, u) \/ (r = StartNow(d, u) /\ d.live[u])
  PROVE  /\ Good(r) /\ Outside(d, r, {u}) /\ Restarts(d, r)
         /\ ActiveLinked(d) => ActiveLinked(r)
         /\ r = d \/ r = StopNow(d, u) => Elements(r.list) \subseteq Elements(d.list)
<1>1. Elements(d.list) \subseteq Timer
  BY EmptyElements DEF Good, TimerRecord
<1>2. CASE r = d
  BY <1>2 DEF Outside, Restarts
<1>3. ASSUME r = StopNow(d, u)
      PROVE  /\ Good(r) /\ Outside(d, r, {u}) /\ Restarts(d, r)
             /\ ActiveLinked(d) => ActiveLinked(r)
             /\ Elements(r.list) \subseteq Elements(d.list)
  <2>1. /\ Good(r) /\ Outside(d, r, {u})
        /\ r = d \/ Elements(r.list) = Elements(d.list) \ {u}
    BY <1>3, StopNowFacts
  <2> QED BY <1>1, <2>1 DEF Outside, Restarts, ActiveLinked
<1>4. ASSUME r = StartNow(d, u), d.live[u]
      PROVE  /\ Good(r) /\ Outside(d, r, {u}) /\ Restarts(d, r)
             /\ ActiveLinked(d) => ActiveLinked(r)
  <2>1. /\ Good(r) /\ Outside(d, r, {u}) /\ r.active[u]
        /\ Elements(r.list) = Elements(d.list) \cup {u} /\ r.due[u] = d.init[u]
    BY <1>4, StartNowFacts
  <2> QED BY <1>1, <1>4, <2>1 DEF Outside, Restarts, ActiveLinked
<1> QED BY <1>2, <1>3, <1>4

(* The end of a turn of rt_timer_check's loop                              *)
LEMMA RenewEffect ==
  ASSUME NEW d, Good(d), NEW t \in Timer, d.live[t], NEW r, r = Renew(d, t)
  PROVE  /\ Good(r) /\ Outside(d, r, {t}) /\ Restarts(d, r)
         /\ ActiveLinked(d) /\ (t \in Elements(d.list) => d.periodic[t])
              => ActiveLinked(r)
<1>1. Elements(d.list) \subseteq Timer
  BY EmptyElements DEF Good, TimerRecord
<1>2. CASE d.periodic[t] /\ d.active[t]
  <2>1. r = StartNow(d, t)
    BY <1>2 DEF Renew
  <2> QED BY <2>1, CallEffect
<1>3. CASE ~ (d.periodic[t] /\ d.active[t])
  <2>1. PICK v \in BOOLEAN : v = FALSE
    OBVIOUS
  <2>2. r = WithFlag(d, t, v)
    BY <1>3, <2>1, Zenon DEF Renew, WithFlag
  <2>3. /\ Good(r) /\ Outside(d, r, {t}) /\ r.list = d.list /\ r.due = d.due
    BY <2>2, FlagFacts
  <2>4. Restarts(d, r)
    BY <2>3 DEF Restarts
  <2>5. ASSUME ActiveLinked(d), t \in Elements(d.list) => d.periodic[t] PROVE ActiveLinked(r)
    <3>1. t \notin Elements(d.list)
      BY <1>3, <2>5 DEF ActiveLinked
    <3>2. \A u \in Elements(d.list) : u \in Timer \ {t} /\ d.active[u]
      BY <1>1, <2>5, <3>1 DEF ActiveLinked
    <3> QED BY <2>3, <3>2 DEF ActiveLinked, Outside
  <2> QED BY <2>3, <2>4, <2>5
<1> QED BY <1>2, <1>3

(* One turn of the loop: the head of the list goes off, and one other      *)
(* timer at most is changed, one that no call works on.                    *)
LEMMA ExpireFacts ==
  ASSUME TimerInv, Expire
  PROVE  /\ isr = "clock" /\ UNCHANGED <<isr, pc, arg, reg>> /\ HeadExpired
         /\ m.list # << >> /\ Head(m.list) \in Elements(m.list) /\ Head(m.list) \in Timer
         /\ Good(m') /\ m'.init = m.init
         /\ \E u \in Timer :
              /\ u = Head(m.list) \/ Free(u)
              /\ Outside(m, m', {Head(m.list), u})
         /\ \A t \in Elements(m'.list) :
              \/ t \in Elements(m.list) \ {Head(m.list)} /\ m'.due[t] = m.due[t]
              \/ m'.due[t] = m.init[t]
         /\ "restart" \notin TimerOps /\ ActiveLinked(m) => ActiveLinked(m')
<1> DEFINE t == Head(m.list)
           d == Remove(m, t)
<1>1. /\ isr = "clock" /\ UNCHANGED <<isr, pc, arg, reg>> /\ HeadExpired
      /\ m.list # << >> /\ Good(m) /\ \E e \in Callback(d, t) : m' = Renew(e, t)
  BY DEF Expire, HeadExpired, TimerInv
<1>2. t \in Elements(m.list) /\ t \in Timer /\ m.live[t]
  BY <1>1, HeadDue DEF Good
<1>3. PICK e \in Callback(d, t) : m' = Renew(e, t)
  BY <1>1
<1>4. t = Head(m.list)
  OBVIOUS
<1> HIDE DEF t
<1>5. /\ Good(d) /\ Outside(m, d, {t}) /\ d.active = m.active
      /\ Elements(d.list) = Elements(m.list) \ {t}
  <2>1. Good(m) /\ t \in Timer
    BY <1>1, <1>2
  <2>2. d = Remove(m, t)
    OBVIOUS
  <2> HIDE DEF d
  <2> QED BY ONLY <2>1, <2>2, RemoveFacts
<1> HIDE DEF d
<1>6. d.live[t] /\ d.init = m.init
  BY <1>2, <1>5 DEF Outside
<1>7. PICK u \in Timer :
        /\ u = t \/ (d.live[u] /\ Free(u))
        /\ \/ e = d
           \/ e = StopNow(d, u)
           \/ e = StartNow(d, u) /\ (u = t => "restart" \in TimerOps \/ d.periodic[t])
  BY <1>2, CallbackCases
<1>8. /\ Good(e) /\ Outside(d, e, {u}) /\ Restarts(d, e)
      /\ ActiveLinked(d) => ActiveLinked(e)
      /\ e = d \/ e = StopNow(d, u) => Elements(e.list) \subseteq Elements(d.list)
  BY <1>5, <1>6, <1>7, CallEffect
<1>9. e.live[t] /\ e.init = m.init /\ e.periodic = d.periodic
  BY <1>6, <1>8 DEF Outside
<1>10. /\ Good(m') /\ Outside(e, m', {t}) /\ Restarts(e, m')
       /\ ActiveLinked(e) /\ (t \in Elements(e.list) => e.periodic[t]) => ActiveLinked(m')
  BY <1>2, <1>3, <1>8, <1>9, RenewEffect
<1>11. Outside(m, m', {t, u}) /\ (u = t \/ Free(u))
  BY <1>5, <1>7, <1>8, <1>10 DEF Outside
<1>12. ASSUME NEW a \in Elements(m'.list)
       PROVE  \/ a \in Elements(m.list) \ {t} /\ m'.due[a] = m.due[a]
              \/ m'.due[a] = m.init[a]
  <2>1. Elements(m.list) \subseteq Timer
    BY <1>1, EmptyElements DEF Good, TimerRecord
  <2>2. (a \in Elements(e.list) /\ m'.due[a] = e.due[a]) \/ m'.due[a] = m.init[a]
    BY <1>9, <1>10 DEF Restarts
  <2>3. a \in Elements(e.list) =>
          (a \in Elements(d.list) /\ e.due[a] = d.due[a]) \/ e.due[a] = m.init[a]
    BY <1>6, <1>8 DEF Restarts
  <2>4. a \in Elements(d.list) => a \in Elements(m.list) \ {t} /\ d.due[a] = m.due[a]
    BY <1>5, <2>1 DEF Outside
  <2> QED BY <2>2, <2>3, <2>4
<1>13. ASSUME "restart" \notin TimerOps, ActiveLinked(m) PROVE ActiveLinked(m')
  <2>1. ActiveLinked(d)
    BY <1>5, <1>13 DEF ActiveLinked
  <2>2. t \in Elements(e.list) => e.periodic[t]
    <3>1. t \notin Elements(d.list)
      BY <1>5
    <3>2. CASE e = d \/ e = StopNow(d, u)
      BY <1>8, <3>1, <3>2
    <3>3. CASE u # t
      BY <1>2, <1>8, <3>1, <3>3 DEF Outside
    <3>4. CASE u = t /\ d.periodic[t]
      BY <1>9, <3>4
    <3> QED BY <1>7, <1>13, <3>2, <3>3, <3>4
  <2> QED BY <1>8, <1>10, <2>1, <2>2
<1>14. m'.init = m.init
  BY <1>9, <1>10 DEF Outside
<1> QED BY <1>1, <1>2, <1>4, <1>10, <1>11, <1>12, <1>13, <1>14

LEMMA ExpireStep ==
  ASSUME TimerInv, Expire PROVE TimerInv'
<1> DEFINE t == Head(m.list)
<1>1. /\ isr = "clock" /\ UNCHANGED <<isr, pc, arg, reg>>
      /\ t \in Elements(m.list) /\ t \in Timer /\ Good(m')
      /\ \E u \in Timer : (u = t \/ Free(u)) /\ Outside(m, m', {t, u})
  BY ExpireFacts
<1> HIDE DEF t
<1>2. PICK u \in Timer : (u = t \/ Free(u)) /\ Outside(m, m', {t, u})
  BY <1>1
<1>3. m'.live = m.live /\ Apart(m, m', {t, u})
  BY <1>2, OutsideApart DEF Outside
<1>4. Calls'
  <2> SUFFICES ASSUME NEW c \in Client
               PROVE  (pc[c] = "app" <=> arg[c] = NoTimer) /\ CallOK(m', pc[c], arg[c])
    BY <1>1 DEF Calls
  <2>1. (pc[c] = "app" <=> arg[c] = NoTimer) /\ CallOK(m, pc[c], arg[c])
    BY DEF TimerInv, Calls
  <2>2. CASE arg[c] = t
    BY <1>1, <1>3, <2>1, <2>2 DEF CallOK
  <2>3. CASE arg[c] # t
    <3>1. arg[c] \notin {t, u}
      BY <1>2, <2>3 DEF Free
    <3> QED BY <1>3, <2>1, <3>1, CallKept
  <2> QED BY <2>2, <2>3
<1> QED BY <1>1, <1>4 DEF TimerInv, VarsOK, Separate, NotLate

-----------------------------------------------------------------------------
LEMMA TimerInitStep ==
  TimerInit => TimerInv
<1> SUFFICES ASSUME TimerInit PROVE TimerInv
  OBVIOUS
<1>1. /\ m.list = << >> /\ isr = "none"
      /\ pc = [c \in Client |-> "app"] /\ arg = [c \in Client |-> NoTimer]
      /\ reg = [c \in Client |-> FALSE]
  BY DEF TimerInit
<1>2. Elements(m.list) = {} /\ InOrder(m)
  BY <1>1 DEF Elements, InOrder
<1>3. m \in TimerRecord
  <2>1. PICK n \in Times, p \in [Timer -> BOOLEAN] :
          m = [tick |-> 0, list |-> << >>, timeout |-> [t \in Timer |-> 0],
               init |-> [t \in Timer |-> n], active |-> [t \in Timer |-> FALSE],
               periodic |-> p, live |-> [t \in Timer |-> TRUE],
               due |-> [t \in Timer |-> 0]]
    BY DEF TimerInit
  <2>2. 0 \in Tick /\ 0 \in Due
    <3>1. /\ TickRange \in Nat /\ Half \in Int /\ 2 * Half <= TickRange - 1
          /\ 0 < Half /\ 0 \in Due
      BY Ranges
    <3> QED BY <3>1 DEF Tick
  <2>3. << >> \in Seq(Timer)
    OBVIOUS
  <2> QED BY <2>1, <2>2, <2>3 DEF TimerRecord
<1>4. VarsOK /\ Calls /\ Separate
  BY <1>1, TimerAssumption DEF VarsOK, TimerPC, Calls, CallOK, Separate
<1> QED BY <1>1, <1>2, <1>3, <1>4 DEF TimerInv, Good, NotLate

LEMMA ClientSteps ==
  ASSUME TimerInv, NEW c \in Client, InCall(c) \/ NewCall(c)
  PROVE  TimerInv' /\ OneChanged
<1>1. CASE InCall(c)
  BY <1>1, StartTickStep, StartInsertStep, StopRemoveStep, StopFlagStep, StoreFlagStep
     DEF InCall
<1>2. CASE NewCall(c)
  BY <1>2, StartStep, StopStep, DetachStep, SetTimeStep, InitTimerStep DEF NewCall
<1> QED BY <1>1, <1>2

LEMMA TimerNextStep ==
  TimerInv /\ [TimerNext]_vars => TimerInv'
<1> SUFFICES ASSUME TimerInv, [TimerNext]_vars PROVE TimerInv'
  OBVIOUS
<1>1. CASE ClockEnter
  BY <1>1, ClockEnterStep
<1>2. CASE Expire
  BY <1>2, ExpireStep
<1>3. CASE ClockLeave
  BY <1>3, ClockLeaveStep
<1>4. ASSUME NEW t \in Timer, DeviceIsr(t) PROVE TimerInv'
  BY <1>4, DeviceIsrStep
<1>5. ASSUME NEW c \in Client, InCall(c) \/ NewCall(c) PROVE TimerInv'
  BY <1>5, ClientSteps
<1>6. CASE UNCHANGED vars
  BY <1>6 DEF vars, TimerInv, VarsOK, Good, InOrder, InTime, Calls, CallOK, Separate, NotLate
<1> QED BY <1>1, <1>2, <1>3, <1>4, <1>5, <1>6 DEF TimerNext

(* The timer data is consistent in every reachable state.                  *)
THEOREM TimerInvariant ==
  TimerSpec => []TimerInv
BY TimerInitStep, TimerNextStep, PTL DEF TimerSpec

(* Every variable of the timers keeps its type: in particular timeout_tick *)
(* wraps around with the tick, and no timer is later than the clock        *)
(* interrupts that preempted its start.                                    *)
THEOREM TimerTypeCorrect ==
  TimerSpec => []TimerTypeOK
BY TimerInvariant, TimerInvType, PTL

(* The timer list is in the order of expiry, whatever the tick is: the     *)
(* search of rt_timer_start may compare timeouts modulo the tick's width.  *)
THEOREM ListStaysSorted ==
  TimerSpec => []PendingSorted
BY TimerInvariant, TimerInvSorted, PTL
-----------------------------------------------------------------------------
(* Action properties.                                                      *)

(* rt_timer_check returns only when no timer is left whose time has come,  *)
(* although it looks at the head of the list only.                         *)
THEOREM NoneIsForgotten ==
  TimerSpec => NoneForgotten
<1>1. ASSUME TimerInv, [TimerNext]_vars, isr = "clock", isr' = "none"
      PROVE  \A t \in Timer : Linked(t) => m.due[t] > 0
  <2>1. ClockLeave
    <3>1. CASE ClockEnter
      BY <1>1, <3>1 DEF ClockEnter
    <3>2. CASE Expire
      BY <1>1, <3>2 DEF Expire
    <3>3. ASSUME NEW t \in Timer, DeviceIsr(t) PROVE FALSE
      BY <1>1, <3>3 DEF DeviceIsr
    <3>4. ASSUME NEW c \in Client, InCall(c) \/ NewCall(c) PROVE FALSE
      BY <1>1, <3>4, ClientSteps DEF OneChanged
    <3>5. CASE UNCHANGED vars
      BY <1>1, <3>5 DEF vars
    <3> QED BY <1>1, <3>1, <3>2, <3>3, <3>4, <3>5 DEF TimerNext
  <2> QED BY <1>1, <2>1, NothingDue DEF ClockLeave, Linked
<1>2. TimerInv /\ [TimerNext]_vars =>
        [isr = "clock" /\ isr' = "none" => \A t \in Timer : Linked(t) => m.due[t] > 0]_vars
  BY <1>1
<1> QED BY <1>2, TimerInvariant, PTL DEF TimerSpec, NoneForgotten

(* The timers that are linked by a step                                    *)
FifoStep ==
  \A i, j \in DOMAIN m'.list :
    /\ ~Linked(m'.list[i]) /\ Linked(m'.list[j])
    /\ isr = "none"
    /\ m'.due[m'.list[i]] = m'.due[m'.list[j]]
    => j < i

LEMMA NoneLinked ==
  ASSUME Elements(m'.list) \subseteq Elements(m.list) PROVE FifoStep
BY DEF FifoStep, Elements, Linked

LEMMA LinkedBehind ==
  ASSUME NEW t, Elements(m'.list) = Elements(m.list) \cup {t}, Behind(m', t)
  PROVE  FifoStep
<1> SUFFICES ASSUME NEW i \in DOMAIN m'.list, NEW j \in DOMAIN m'.list,
                    ~Linked(m'.list[i]), Linked(m'.list[j]),
                    m'.due[m'.list[i]] = m'.due[m'.list[j]]
             PROVE  j < i
  BY DEF FifoStep
<1>1. m'.list[i] = t /\ m'.list[j] # t
  BY DEF Elements, Linked
<1> QED BY <1>1 DEF Behind

LEMMA ClientFifo ==
  ASSUME TimerInv, NEW c \in Client, InCall(c) \/ NewCall(c) PROVE FifoStep
<1>1. Good(m) /\ m \in TimerRecord
  BY DEF TimerInv, Good
<1>2. CASE StartInsert(c)
  <2> DEFINE t == arg[c]
  <2>1. /\ t \in Timer /\ CallOK(m, "start3", t) /\ m' = Insert(m, t)
    BY <1>2, ContinueFacts DEF StartInsert
  <2> HIDE DEF t
  <2>2. Elements(m'.list) = Elements(m.list) \cup {t} /\ Behind(m', t)
    BY <1>1, <2>1, InsertFacts, ZenonT(60) DEF CallOK
  <2> QED BY <2>2, LinkedBehind
<1>3. ASSUME NEW t \in Timer, Start(c, t) PROVE FifoStep
  <2>1. Elements(m'.list) = Elements(m.list) \ {t}
    BY <1>1, <1>3, DeactivateFacts DEF Start
  <2> QED BY <2>1, NoneLinked
<1>4. ASSUME NEW t \in Timer, Detach(c, t) PROVE FifoStep
  <2> DEFINE r == Remove(m, t)
  <2>1. Good(r) /\ Elements(r.list) = Elements(m.list) \ {t}
    BY <1>1, RemoveFacts
  <2>2. m'.list = r.list
    <3>1. m' = [r EXCEPT !.live[t] = FALSE]
      BY <1>4 DEF Detach
    <3> HIDE DEF r
    <3> QED BY <2>1, <3>1 DEF Good, TimerRecord
  <2> QED BY <2>1, <2>2, NoneLinked
<1>5. CASE StopRemove(c)
  <2> DEFINE t == arg[c]
  <2>1. t \in Timer /\ m' = Remove(m, t)
    BY <1>5, ContinueFacts DEF StopRemove
  <2> HIDE DEF t
  <2>2. Elements(m'.list) = Elements(m.list) \ {t}
    BY <1>1, <2>1, RemoveFacts
  <2> QED BY <2>2, NoneLinked
<1>6. ASSUME m'.list = m.list PROVE FifoStep
  BY <1>6, NoneLinked
<1>7. StartTick(c) => m'.list = m.list
  BY <1>1 DEF StartTick, ComputeTimeout, TimerRecord
<1>8. StopFlag(c) \/ (\E p \in BOOLEAN : StoreFlag(c, p)) => m'.list = m.list
  BY <1>1 DEF StopFlag, StoreFlag, TimerRecord
<1>9. \A t \in Timer : Stop(c, t) \/ SetFlag(c, t) => m'.list = m.list
  BY DEF Stop, SetFlag
<1>10. \A t \in Timer, n \in Times :
         SetTime(c, t, n) \/ (\E p \in BOOLEAN : InitTimer(c, t, n, p)) => m'.list = m.list
  <2>1. \A t, n : [m EXCEPT !.init[t] = n].list = m.list
    BY ONLY <1>1 DEF TimerRecord
  <2>2. \A t, n, p : [m EXCEPT !.live[t] = TRUE, !.active[t] = FALSE, !.periodic[t] = p,
                               !.init[t] = n, !.timeout[t] = 0].list = m.list
    BY ONLY <1>1 DEF TimerRecord
  <2>3. ASSUME NEW t \in Timer, NEW n \in Times, SetTime(c, t, n) PROVE m'.list = m.list
    BY <2>1, <2>3 DEF SetTime
  <2>4. ASSUME NEW t \in Timer, NEW n \in Times, NEW p \in BOOLEAN, InitTimer(c, t, n, p)
        PROVE  m'.list = m.list
    BY <2>2, <2>4 DEF InitTimer
  <2> QED BY ONLY <2>3, <2>4
<1> QED BY <1>2, <1>3, <1>4, <1>5, <1>6, <1>7, <1>8, <1>9, <1>10 DEF InCall, NewCall

(* Among timers that are due at the same time, the one started first goes  *)
(* off first, as the comment in rt_timer_start asks.                       *)
THEOREM FirstStartedFirst ==
  TimerSpec => FifoAmongEquals
<1>1. ASSUME TimerInv, [TimerNext]_vars PROVE FifoStep
  <2>1. Good(m) /\ m \in TimerRecord
    BY <1>1 DEF TimerInv, Good
  <2>2. CASE ClockEnter \/ ClockLeave \/ UNCHANGED vars
    <3>1. m'.list = m.list
      BY <2>1, <2>2 DEF ClockEnter, ClockLeave, vars, TimerRecord
    <3> QED BY <3>1, NoneLinked
  <2>3. CASE Expire
    BY <2>3 DEF Expire, FifoStep
  <2>4. ASSUME NEW t \in Timer, DeviceIsr(t) PROVE FifoStep
    <3>1. isr = "none" /\ m.live[t] /\ (m' = StartNow(m, t) \/ m' = StopNow(m, t))
      BY <2>4 DEF DeviceIsr
    <3>2. CASE m' = StartNow(m, t)
      <4>1. Elements(m'.list) = Elements(m.list) \cup {t} /\ Behind(m', t)
        BY <2>1, <3>1, <3>2, StartNowFacts
      <4> QED BY <4>1, LinkedBehind
    <3>3. CASE m' = StopNow(m, t)
      <4>1. Elements(m'.list) \subseteq Elements(m.list)
        <5>1. m' = m \/ Elements(m'.list) = Elements(m.list) \ {t}
          BY <2>1, <3>3, StopNowFacts
        <5> QED BY <5>1
      <4> QED BY <4>1, NoneLinked
    <3> QED BY <3>1, <3>2, <3>3
  <2>5. ASSUME NEW c \in Client, InCall(c) \/ NewCall(c) PROVE FifoStep
    BY <1>1, <2>5, ClientFifo
  <2> QED BY <1>1, <2>2, <2>3, <2>4, <2>5 DEF TimerNext
<1>2. TimerInv /\ [TimerNext]_vars => [FifoStep]_vars
  BY <1>1
<1> QED BY <1>2, TimerInvariant, PTL DEF TimerSpec, FifoAmongEquals, FifoStep
-----------------------------------------------------------------------------
(* The timers implement the service of module Alarms.                      *)

Off == MaxInit + 1

(* The ticks left of each alarm, as Timer substitutes them.                *)
Left == [t \in Timer |-> IF Linked(t) THEN m.due[t] ELSE Off]

LEMMA LeftFacts ==
  ASSUME TimerInv
  PROVE  /\ \A t \in Timer : m.due[t] \in Due
         /\ \A t \in Timer : Linked(t) => m.due[t] # Off
         /\ Elements(m.list) \subseteq Timer
<1>1. \A t \in Timer : m.due[t] \in Due
  BY DEF TimerInv, Good, TimerRecord
<1>2. \A n \in Due : n # Off
  BY Ranges DEF Due, Off
<1>3. Elements(m.list) \subseteq Timer
  BY EmptyElements DEF TimerInv, Good, TimerRecord
<1> QED BY <1>1, <1>2, <1>3

(* A change of one timer by a client or a driver                           *)
LEMMA ChangeSimulated ==
  ASSUME TimerInv, TimerInv', OneChanged PROVE Service!Next
<1>1. PICK t \in Timer : Apart(m, m', {t})
  BY DEF OneChanged
<1>2. isr = "none" /\ isr' = "none"
  BY DEF OneChanged
<1> DEFINE n == IF Linked(t)' THEN m'.due[t] ELSE Off
<1>3. n \in (1 - MaxDelay .. MaxInit) \cup {Off}
  <2>1. CASE Linked(t)'
    <3>1. m'.due[t] \in Due /\ m'.due[t] >= 1 - MaxDelay
      BY <1>2, <2>1 DEF TimerInv, Good, TimerRecord, NotLate, Linked
    <3> QED BY <2>1, <3>1, Ranges DEF Due
  <2>2. CASE ~Linked(t)'
    BY <2>2
  <2> QED BY <2>1, <2>2
<1>4. Left' = [Left EXCEPT ![t] = n]
  <2>1. \A u \in Timer \ {t} : (Linked(u)' <=> Linked(u)) /\ m'.due[u] = m.due[u]
    BY <1>1 DEF Apart, Linked
  <2> QED BY <2>1 DEF Left
<1> HIDE DEF n
<1>5. Service!Change(t)
  BY <1>2, <1>3, <1>4 DEF Service!Change, Left, Off
<1> QED BY <1>5 DEF Service!Next

LEMMA TickSimulated ==
  ASSUME TimerInv, ClockEnter PROVE Service!Next
<1>1. /\ isr = "none" /\ isr' = "clock" /\ m \in TimerRecord
      /\ m' = [m EXCEPT !.tick = Plus(@, 1),
                        !.due  = [t \in Timer |-> IF Counting(t) THEN @[t] - 1 ELSE @[t]]]
  BY DEF ClockEnter, TimerInv, Good
<1>2. m'.list = m.list /\ \A t \in Timer : Linked(t) => m'.due[t] = m.due[t] - 1
  BY <1>1 DEF TimerRecord, Counting
<1>3. \A t \in Timer : Linked(t) => m.due[t] # Off
  BY LeftFacts
<1>4. Left' = [t \in Timer |-> IF Left[t] # Off THEN Left[t] - 1 ELSE Off]
  BY <1>2, <1>3 DEF Left, Linked
<1>5. Service!Tick
  BY <1>1, <1>4 DEF Service!Tick, Service!IsSet, Left, Off
<1> QED BY <1>5 DEF Service!Next

LEMMA RingSimulated ==
  ASSUME TimerInv, TimerInv', Expire PROVE Service!Next
<1>0. PICK t \in Timer : t = Head(m.list)
  BY ExpireFacts
<1>1. /\ isr = "clock" /\ isr' = "clock" /\ t \in Elements(m.list) /\ t \in Timer
      /\ HeadExpired /\ m.list # << >> /\ Good(m) /\ m \in TimerRecord
      /\ \A b \in Elements(m'.list) :
              \/ b \in Elements(m.list) \ {t} /\ m'.due[b] = m.due[b]
              \/ m'.due[b] = m.init[b]
  BY <1>0, ExpireFacts DEF TimerInv, Good
<1>2. m.due[t] <= 0 /\ \A b \in Elements(m.list) : m.due[t] <= m.due[b]
  BY <1>0, <1>1, HeadDue DEF HeadExpired
<1>3. /\ \A b \in Timer : m.due[b] \in Due /\ m'.due[b] \in Due
      /\ \A b \in Timer : Linked(b) => m.due[b] # Off
  BY LeftFacts DEF TimerInv, Good, TimerRecord
<1>4. ASSUME NEW b \in Timer PROVE m.init[b] > 0
  <2>1. m.init[b] \in Times
    BY <1>1 DEF TimerRecord
  <2>2. m.init[b] \in Int /\ m.init[b] >= 1
    BY <2>1, Ranges
  <2> QED BY <2>2
<1>5. \A b \in Timer : Left'[b] \in Due \cup {Off}
  BY <1>3 DEF Left
<1>6. ASSUME NEW b \in Timer
      PROVE  IF b = t THEN Left'[b] = Off \/ Left'[b] > 0
                      ELSE Left'[b] \in {Left[b], Off} \/ Left'[b] > 0
  <2>1. CASE Linked(b)'
    <3>1. Left'[b] = m'.due[b]
      BY <2>1 DEF Left
    <3>2. CASE m'.due[b] = m.init[b]
      BY <1>4, <3>1, <3>2
    <3>3. CASE b \in Elements(m.list) \ {t} /\ m'.due[b] = m.due[b]
      BY <3>1, <3>3 DEF Left, Linked
    <3> QED BY <1>1, <2>1, <3>2, <3>3 DEF Linked
  <2>2. CASE ~Linked(b)'
    BY <2>2 DEF Left
  <2> QED BY <2>1, <2>2
<1>7. Left[t] = m.due[t] /\ Left[t] # Off
  BY <1>1, <1>3 DEF Left, Linked
<1>8. \A b \in Timer : Left[b] # Off => Left[t] <= Left[b]
  BY <1>2, <1>7 DEF Left, Linked
<1>9. Left' \in [Timer -> Due \cup {Off}]
  BY <1>5 DEF Left
<1>10. Service!Ring(t)
  BY <1>1, <1>2, <1>6, <1>7, <1>8, <1>9
     DEF Service!Ring, Service!IsSet, Left, Off, Due
<1> QED BY <1>10 DEF Service!Next

LEMMA RestSimulated ==
  ASSUME TimerInv, ClockLeave PROVE Service!Next
<1>1. isr = "clock" /\ isr' = "none" /\ m' = m /\ ~HeadExpired
  BY DEF ClockLeave
<1>2. \A t \in Timer : Left[t] # Off => Left[t] > 0
  BY <1>1, NothingDue DEF Left, Linked
<1>3. Service!Rest
  BY <1>1, <1>2 DEF Service!Rest, Service!IsSet, Left, Off, Linked
<1> QED BY <1>3 DEF Service!Next

(* No timer goes off before its time, none is forgotten, and those that    *)
(* are late go off in the order of their times: each step of the timers is *)
(* a step of the alarm service.                                            *)
THEOREM TimersImplementAlarms ==
  TimerSpec => ImplementsAlarms
<1>1. TimerInit => Service!Init
  BY DEF TimerInit, Service!Init, Linked, Elements
<1>2. TimerInv /\ [TimerNext]_vars => [Service!Next]_(Service!vars)
  <2> SUFFICES ASSUME TimerInv, [TimerNext]_vars
               PROVE  [Service!Next]_(Service!vars)
    OBVIOUS
  <2>1. TimerInv'
    BY TimerNextStep
  <2>2. CASE ClockEnter
    BY <2>2, TickSimulated
  <2>3. CASE Expire
    BY <2>1, <2>3, RingSimulated
  <2>4. CASE ClockLeave
    BY <2>4, RestSimulated
  <2>5. ASSUME NEW t \in Timer, DeviceIsr(t) PROVE Service!Next
    BY <2>1, <2>5, DeviceIsrStep, ChangeSimulated
  <2>6. ASSUME NEW c \in Client, InCall(c) \/ NewCall(c) PROVE Service!Next
    BY <2>1, <2>6, ClientSteps, ChangeSimulated
  <2>7. CASE UNCHANGED vars
    BY <2>7 DEF vars, Service!vars, Linked
  <2> QED BY <2>2, <2>3, <2>4, <2>5, <2>6, <2>7 DEF TimerNext
<1> QED BY <1>1, <1>2, TimerInvariant, PTL
        DEF TimerSpec, ImplementsAlarms, Service!Spec
-----------------------------------------------------------------------------
(* The flag ACTIVATED, where one-shot timers do not restart themselves.    *)

(* What rt_timer_control is about to store says that the timer is active   *)
(* if it is linked: it may have expired since it was loaded, but not have  *)
(* been started.                                                           *)
StoresActive == \A c \in Client : pc[c] = "store" /\ Linked(arg[c]) => reg[c]

FlagInv == ActiveLinked(m) /\ StoresActive

(* A step that changes the flag of t only, and links t only activated      *)
LEMMA FlagKept ==
  ASSUME FlagInv, TimerInv, NEW t,
         \A u \in Elements(m'.list) \ {t} : u \in Elements(m.list) /\ (m'.active[u] <=> m.active[u]),
         t \in Elements(m'.list) => m'.active[t],
         \A c \in Client :
           pc'[c] = "store" /\ arg'[c] \in Elements(m'.list) =>
             \/ reg'[c]
             \/ pc[c] = "store" /\ arg'[c] = arg[c] /\ arg[c] # t /\ (reg'[c] <=> reg[c])
  PROVE  FlagInv'
BY DEF FlagInv, ActiveLinked, StoresActive, Linked

(* The other clients, when client c takes a step.                          *)
Stay(c) ==
  \A e \in Client \ {c} : pc'[e] = pc[e] /\ arg'[e] = arg[e] /\ reg'[e] = reg[e]

LEMMA StayFacts ==
  ASSUME TimerInv, NEW c \in Client
  PROVE  /\ \A p : Goto(c, p) /\ UNCHANGED <<arg, reg>> =>
              Stay(c) /\ pc'[c] = p /\ arg'[c] = arg[c]
         /\ \A p, t : Begin(c, t, p) /\ UNCHANGED reg =>
              Stay(c) /\ pc'[c] = p /\ arg'[c] = t
         /\ Return(c) /\ UNCHANGED reg => Stay(c) /\ pc'[c] = "app"
BY DEF TimerInv, VarsOK, Goto, Begin, Return, Stay

(* A client that is not about to store                                     *)
LEMMA ClientFlag ==
  ASSUME FlagInv, TimerInv, NEW c \in Client, Stay(c), pc'[c] # "store", NEW t,
         \A e \in Client \ {c} : arg[e] # t,
         \A u \in Elements(m'.list) \ {t} : u \in Elements(m.list) /\ (m'.active[u] <=> m.active[u]),
         t \in Elements(m'.list) => m'.active[t]
  PROVE  FlagInv'
BY FlagKept DEF Stay

LEMMA OutsideFlag ==
  ASSUME NEW d, Good(d), NEW r, Good(r), NEW t, Outside(d, r, {t})
  PROVE  \A u \in Elements(r.list) \ {t} :
           u \in Elements(d.list) /\ (r.active[u] <=> d.active[u])
<1>1. Elements(r.list) \subseteq Timer
  BY EmptyElements DEF Good, TimerRecord
<1> QED BY <1>1 DEF Outside

LEMMA InCallFlag ==
  ASSUME FlagInv, TimerInv, TimerInv', NEW c \in Client, InCall(c) PROVE FlagInv'
<1>0. Good(m) /\ Good(m') /\ m \in TimerRecord
  BY DEF TimerInv, Good
<1>1. CASE StartTick(c)
  <2>0. PICK t : t = arg[c]
    OBVIOUS
  <2>1. /\ t \in Timer /\ CallOK(m, "start2", t) /\ m' = ComputeTimeout(m, t)
        /\ \A e \in Client \ {c} : arg[e] # t
    BY <1>1, <2>0, ContinueFacts DEF StartTick
  <2>2. Stay(c) /\ pc'[c] # "store"
    BY <1>1, StayFacts DEF StartTick
  <2>3. Outside(m, m', {t}) /\ m'.list = m.list /\ t \notin Elements(m.list)
    BY <1>0, <2>1, ComputeFacts DEF CallOK
  <2> QED BY <1>0, <2>1, <2>2, <2>3, OutsideFlag, ClientFlag
<1>2. CASE StartInsert(c)
  <2>0. PICK t : t = arg[c]
    OBVIOUS
  <2>1. /\ t \in Timer /\ CallOK(m, "start3", t) /\ m' = Insert(m, t)
        /\ \A e \in Client \ {c} : arg[e] # t
    BY <1>2, <2>0, ContinueFacts DEF StartInsert
  <2>2. Stay(c) /\ pc'[c] # "store"
    BY <1>2, StayFacts DEF StartInsert
  <2>3. Outside(m, m', {t}) /\ m'.active[t]
    BY <1>0, <2>1, InsertFacts DEF CallOK
  <2> QED BY <1>0, <2>1, <2>2, <2>3, OutsideFlag, ClientFlag
<1>3. CASE StopRemove(c)
  <2>0. PICK t : t = arg[c]
    OBVIOUS
  <2>1. /\ t \in Timer /\ m' = Remove(m, t)
        /\ \A e \in Client \ {c} : arg[e] # t
    BY <1>3, <2>0, ContinueFacts DEF StopRemove
  <2>2. Stay(c) /\ pc'[c] # "store"
    BY <1>3, StayFacts DEF StopRemove
  <2>3. Outside(m, m', {t}) /\ t \notin Elements(m'.list)
    BY <1>0, <2>1, RemoveFacts
  <2> QED BY <1>0, <2>1, <2>2, <2>3, OutsideFlag, ClientFlag, ZenonT(60)
<1>4. CASE StopFlag(c)
  <2>0. PICK t : t = arg[c]
    OBVIOUS
  <2>1. /\ t \in Timer /\ CallOK(m, "stop3", t) /\ m' = [m EXCEPT !.active[t] = FALSE]
        /\ \A e \in Client \ {c} : arg[e] # t
    BY <1>4, <2>0, ContinueFacts DEF StopFlag
  <2>2. Stay(c) /\ pc'[c] # "store"
    BY <1>4, StayFacts DEF StopFlag
  <2>3. m'.list = m.list /\ t \notin Elements(m.list) /\ Elements(m.list) \subseteq Timer
    BY <1>0, <2>1, EmptyElements DEF CallOK, TimerRecord
  <2>4. \A u \in Timer \ {t} : m'.active[u] <=> m.active[u]
    BY <1>0, <2>1 DEF TimerRecord
  <2> QED BY <2>1, <2>2, <2>3, <2>4, ClientFlag
<1>5. ASSUME NEW p \in BOOLEAN, StoreFlag(c, p) PROVE FlagInv'
  <2>0. PICK t : t = arg[c]
    OBVIOUS
  <2>1. /\ t \in Timer /\ pc[c] = "store"
        /\ m' = [m EXCEPT !.active[t] = reg[c], !.periodic[t] = p]
        /\ \A e \in Client \ {c} : arg[e] # t
        /\ pc' = [pc EXCEPT ![c] = "app"] /\ arg' = [arg EXCEPT ![c] = NoTimer]
        /\ reg' = [reg EXCEPT ![c] = FALSE]
    BY <1>5, <2>0, ContinueFacts DEF StoreFlag, Return, Goto, Continue
  <2>2. Stay(c) /\ pc'[c] # "store"
    BY <2>1 DEF TimerInv, VarsOK, Stay
  <2>3. /\ m'.list = m.list /\ (m'.active[t] <=> reg[c])
        /\ \A u \in Timer \ {t} : m'.active[u] <=> m.active[u]
    BY <1>0, <2>1 DEF TimerRecord
  <2>4. t \in Elements(m.list) => reg[c]
    BY <2>0, <2>1 DEF FlagInv, StoresActive, Linked
  <2>5. Elements(m.list) \subseteq Timer
    BY <1>0, EmptyElements DEF TimerRecord
  <2> QED BY <2>1, <2>2, <2>3, <2>4, <2>5, ClientFlag
<1> QED BY <1>1, <1>2, <1>3, <1>4, <1>5 DEF InCall

(* A step on a timer t that no call works on                              *)
LEMMA FreeFlag ==
  ASSUME FlagInv, NEW t, Free(t), UNCHANGED <<pc, arg, reg>>,
         \A u \in Elements(m'.list) \ {t} : u \in Elements(m.list) /\ (m'.active[u] <=> m.active[u]),
         t \in Elements(m'.list) => m'.active[t]
  PROVE  FlagInv'
BY DEF FlagInv, ActiveLinked, StoresActive, Linked, Free

LEMMA NewCallFlag ==
  ASSUME FlagInv, TimerInv, TimerInv', NEW c \in Client, NewCall(c) PROVE FlagInv'
<1>0. Good(m) /\ Good(m') /\ m \in TimerRecord /\ Elements(m.list) \subseteq Timer
  BY EmptyElements DEF TimerInv, Good, TimerRecord
<1>1. ASSUME NEW t \in Timer, Start(c, t) PROVE FlagInv'
  <2>1. m' = Deactivate(m, t) /\ \A e \in Client \ {c} : arg[e] # t
    BY <1>1, CallFacts DEF Start
  <2>2. Stay(c) /\ pc'[c] # "store"
    BY <1>1, StayFacts DEF Start
  <2>3. Outside(m, m', {t}) /\ t \notin Elements(m'.list)
    BY <1>0, <2>1, DeactivateFacts
  <2> QED BY <1>0, <2>1, <2>2, <2>3, OutsideFlag, ClientFlag, ZenonT(60)
<1>2. ASSUME NEW t \in Timer, Stop(c, t) PROVE FlagInv'
  <2>1. m' = m /\ \A e \in Client \ {c} : arg[e] # t
    BY <1>2, CallFacts DEF Stop
  <2>2. Stay(c) /\ pc'[c] # "store"
    BY <1>2, StayFacts DEF Stop
  <2>3. \A u \in Elements(m'.list) : u \in Elements(m.list) /\ m'.active[u]
    BY <2>1 DEF FlagInv, ActiveLinked
  <2> QED BY <2>1, <2>2, <2>3, ClientFlag
<1>3. ASSUME NEW t \in Timer, SetFlag(c, t) PROVE FlagInv'
  <2>1. m' = m /\ pc' = [pc EXCEPT ![c] = "store"] /\ arg' = [arg EXCEPT ![c] = t]
        /\ reg' = [reg EXCEPT ![c] = m.active[t]]
    BY <1>3 DEF SetFlag, Begin, Goto
  <2>2. Stay(c) /\ arg'[c] = t /\ (reg'[c] <=> m.active[t])
    BY <2>1 DEF TimerInv, VarsOK, Stay
  <2>3. t \in Elements(m.list) => m.active[t]
    BY DEF FlagInv, ActiveLinked
  <2>4. ASSUME NEW e \in Client, pc'[e] = "store", arg'[e] \in Elements(m.list) PROVE reg'[e]
    BY <2>2, <2>3, <2>4 DEF Stay, FlagInv, StoresActive, Linked
  <2> QED BY <2>1, <2>4 DEF FlagInv, ActiveLinked, StoresActive, Linked
<1>4. ASSUME NEW t \in Timer, Detach(c, t) PROVE FlagInv'
  <2> DEFINE r == Remove(m, t)
  <2>1. m' = [r EXCEPT !.live[t] = FALSE] /\ Free(t) /\ UNCHANGED <<pc, arg, reg>>
    BY <1>4, CallFacts DEF Detach
  <2>2. Outside(m, r, {t}) /\ t \notin Elements(r.list) /\ Good(r)
    BY <1>0, RemoveFacts
  <2> HIDE DEF r
  <2>3. m'.list = r.list /\ m'.active = r.active
    BY <2>1, <2>2 DEF Good, TimerRecord
  <2>4. \A u \in Elements(r.list) \ {t} :
          u \in Elements(m.list) /\ (r.active[u] <=> m.active[u])
    BY <1>0, <2>2, OutsideFlag
  <2> QED BY <2>1, <2>2, <2>3, <2>4, FreeFlag
<1>5. ASSUME NEW t \in Timer, NEW n \in Times, SetTime(c, t, n) PROVE FlagInv'
  <2>1. /\ m' = [m EXCEPT !.init[t] = n] /\ UNCHANGED <<pc, arg, reg>>
    BY <1>5 DEF SetTime
  <2>2. m'.list = m.list /\ m'.active = m.active
    BY <1>0, <2>1 DEF TimerRecord
  <2> QED BY <2>1, <2>2 DEF FlagInv, ActiveLinked, StoresActive, Linked
<1>6. ASSUME NEW t \in Timer, NEW n \in Times, NEW p \in BOOLEAN, InitTimer(c, t, n, p)
      PROVE  FlagInv'
  <2>1. /\ m' = [m EXCEPT !.live[t] = TRUE, !.active[t] = FALSE, !.periodic[t] = p,
                          !.init[t] = n, !.timeout[t] = 0]
        /\ ~ m.live[t] /\ UNCHANGED <<pc, arg, reg>>
    BY <1>6 DEF InitTimer
  <2>2. m'.list = m.list /\ \A u \in Timer \ {t} : m'.active[u] <=> m.active[u]
    BY <1>0, <2>1 DEF TimerRecord
  <2>3. t \notin Elements(m.list)
    BY <1>0, <2>1 DEF Good
  <2> QED BY <1>0, <2>1, <2>2, <2>3 DEF FlagInv, ActiveLinked, StoresActive, Linked
<1> QED BY <1>1, <1>2, <1>3, <1>4, <1>5, <1>6 DEF NewCall

LEMMA DeviceFlag ==
  ASSUME FlagInv, TimerInv, TimerInv', NEW t \in Timer, DeviceIsr(t) PROVE FlagInv'
<1>1. /\ m.live[t] /\ Free(t) /\ Good(m) /\ Good(m') /\ UNCHANGED <<pc, arg, reg>>
      /\ m' = StartNow(m, t) \/ m' = StopNow(m, t)
  BY DEF DeviceIsr, TimerInv
<1>2. CASE m' = StartNow(m, t)
  <2>1. Outside(m, m', {t}) /\ m'.active[t]
    BY <1>1, <1>2, StartNowFacts
  <2> QED BY <1>1, <2>1, OutsideFlag, FreeFlag
<1>3. CASE m' = StopNow(m, t)
  <2>1. Outside(m, m', {t}) /\ (m' = m \/ Elements(m'.list) = Elements(m.list) \ {t})
    BY <1>1, <1>3, StopNowFacts
  <2>2. t \in Elements(m'.list) => m'.active[t]
    BY <2>1 DEF FlagInv, ActiveLinked
  <2> QED BY <1>1, <2>1, <2>2, OutsideFlag, FreeFlag
<1> QED BY <1>1, <1>2, <1>3

(* The timer that expires was linked; the timers that a timeout function   *)
(* starts are in no call.                                                  *)
LEMMA ExpireFlag ==
  ASSUME "restart" \notin TimerOps, FlagInv, TimerInv, Expire PROVE FlagInv'
<1>1. /\ UNCHANGED <<pc, arg, reg>> /\ Head(m.list) \in Elements(m.list) /\ Good(m')
      /\ \E u \in Timer :
           /\ u = Head(m.list) \/ Free(u)
           /\ Outside(m, m', {Head(m.list), u})
      /\ ActiveLinked(m')
  BY ExpireFacts DEF FlagInv
<1>2. PICK u \in Timer : /\ u = Head(m.list) \/ Free(u)
                         /\ Outside(m, m', {Head(m.list), u})
  BY <1>1
<1>3. Elements(m'.list) \subseteq Timer
  BY <1>1, EmptyElements DEF Good, TimerRecord
<1>4. ASSUME NEW c \in Client, pc[c] = "store", arg[c] \in Elements(m'.list) PROVE reg[c]
  <2>1. arg[c] \in Elements(m.list)
    BY <1>1, <1>2, <1>3, <1>4 DEF Outside, Free
  <2> QED BY <1>4, <2>1 DEF FlagInv, StoresActive, Linked
<1> QED BY <1>1, <1>4 DEF FlagInv, StoresActive, Linked

LEMMA FlagNext ==
  ASSUME "restart" \notin TimerOps
  PROVE  TimerInv /\ TimerInv' /\ FlagInv /\ [TimerNext]_vars => FlagInv'
<1> SUFFICES ASSUME TimerInv, TimerInv', FlagInv, [TimerNext]_vars PROVE FlagInv'
  OBVIOUS
<1>1. CASE ClockEnter
  <2>1. m \in TimerRecord
    BY DEF TimerInv, Good
  <2>2. m'.list = m.list /\ m'.active = m.active /\ UNCHANGED <<pc, arg, reg>>
    BY <1>1, <2>1 DEF ClockEnter, TimerRecord
  <2> QED BY <2>2 DEF FlagInv, ActiveLinked, StoresActive, Linked
<1>2. CASE Expire
  BY <1>2, ExpireFlag
<1>3. CASE ClockLeave
  BY <1>3 DEF ClockLeave, FlagInv, ActiveLinked, StoresActive, Linked
<1>4. ASSUME NEW t \in Timer, DeviceIsr(t) PROVE FlagInv'
  BY <1>4, DeviceFlag
<1>5. ASSUME NEW c \in Client, InCall(c) \/ NewCall(c) PROVE FlagInv'
  BY <1>5, InCallFlag, NewCallFlag
<1>6. CASE UNCHANGED vars
  BY <1>6 DEF vars, FlagInv, ActiveLinked, StoresActive, Linked
<1> QED BY <1>1, <1>2, <1>3, <1>4, <1>5, <1>6 DEF TimerNext

LEMMA FlagInit ==
  TimerInit => FlagInv
<1> SUFFICES ASSUME TimerInit PROVE FlagInv
  OBVIOUS
<1>1. m.list = << >> /\ \A c \in Client : pc[c] # "store"
  BY DEF TimerInit
<1> QED BY <1>1 DEF FlagInv, ActiveLinked, StoresActive, Elements

LEMMA FlagLinked ==
  TimerInv /\ FlagInv => LinkedActive
BY DEF TimerInv, Good, FlagInv, ActiveLinked, LinkedActive, Linked

(* As long as no one-shot timer is restarted by its own timeout function,  *)
(* a timer that is linked has RT_TIMER_FLAG_ACTIVATED set: rt_timer_stop   *)
(* does stop it, whichever call the clock interrupt preempts.              *)
THEOREM LinkedTimersActive ==
  ASSUME "restart" \notin TimerOps
  PROVE  TimerSpec => []LinkedActive
<1>1. TimerInit => FlagInv
  BY FlagInit
<1>2. TimerInv /\ TimerInv' /\ FlagInv /\ [TimerNext]_vars => FlagInv'
  BY FlagNext
<1>3. TimerInv /\ FlagInv => LinkedActive
  BY FlagLinked
<1> QED BY <1>1, <1>2, <1>3, TimerInvariant, PTL DEF TimerSpec
=============================================================================
