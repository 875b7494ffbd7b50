------------------------------- MODULE Timer --------------------------------
(***************************************************************************)
(* The timers of src/timer.c: rt_timer_init/create, rt_timer_start,        *)
(* rt_timer_stop, rt_timer_control, rt_timer_detach/delete called by       *)
(* threads and by interrupts, and rt_timer_check, which rt_tick_increase   *)
(* of src/clock.c calls in the clock interrupt.                            *)
(*                                                                         *)
(* The list has one level (RT_TIMER_SKIP_LIST_LEVEL) and soft timers are   *)
(* not compiled in.  The data is one record, as in module Kernel:          *)
(*   tick      rt_tick, modulo TickRange                                   *)
(*   list      rt_timer_list, the timers that are linked, in its order     *)
(*   timeout   timer->timeout_tick                                         *)
(*   init      timer->init_tick                                            *)
(*   active    RT_TIMER_FLAG_ACTIVATED of timer->parent.flag               *)
(*   periodic  RT_TIMER_FLAG_PERIODIC of it                                *)
(*   live      whether the timer is an object of the system                *)
(*   due       the ticks left until the timer is to expire, counted since  *)
(*             rt_timer_start computed timeout_tick; negative once it is   *)
(*             late (a history variable: the code has no such count)       *)
(***************************************************************************)
EXTENDS RtList

CONSTANTS
  Timer,        \* timer objects
  NoTimer,      \* RT_NULL as a timer
  Client,       \* threads that use them
  TickRange,    \* 2^32 in the code: rt_tick_t is an rt_uint32_t
  Times,        \* the values given for init_tick
  MaxInit,      \* bounds them
  MaxDelay,     \* the clock interrupts that may come between the two lines
                \* of rt_timer_start that compute timeout_tick and disable
                \* interrupts
  TimerOps      \* what applications do beyond starting and stopping

(* RT_TICK_MAX / 2 *)
Half == (TickRange - 1) \div 2

ASSUME TimerAssumption ==
  /\ NoTimer \notin Timer
  /\ TickRange \in Nat /\ MaxInit \in Nat /\ MaxDelay \in Nat
  /\ MaxInit + MaxDelay < Half
  /\ Times \subseteq 1 .. MaxInit
  /\ TimerOps \subseteq {"control", "detach", "isr", "callback", "restart"}

VARIABLES
  m,      \* the timer data
  isr,    \* "clock" while rt_tick_increase runs
  pc,     \* where each client is in a call
  arg,    \* the timer its call works on, NoTimer outside a call
  reg     \* the bit ACTIVATED of the flags it has loaded and not stored yet

vars == <<m, isr, pc, arg, reg>>

(* A client is in application code, or about to execute                    *)
(*   start2   in rt_timer_start, the computation of timeout_tick           *)
(*   start3   its insertion in the list                                    *)
(*   stop2    in rt_timer_stop, the removal                                *)
(*   stop3    its clearing of RT_TIMER_FLAG_ACTIVATED                      *)
(*   store    in rt_timer_control, the store of parent.flag                *)
TimerPC == {"app", "start2", "start3", "stop2", "stop3", "store"}

-----------------------------------------------------------------------------
(* Arithmetic of rt_tick_t, for operands in 0 .. TickRange - 1.            *)

(* (mutant of Plus: no wrap-around)                                        *)
PlusNoWrap(x, n) == x + n

Plus(x, n)  == IF x + n < TickRange THEN x + n ELSE x + n - TickRange
Minus(x, y) == IF x >= y THEN x - y ELSE x - y + TickRange

Linked(t) == t \in Elements(m.list)

(* _rt_timer_remove.  timeout_tick, which nobody reads before              *)
(* rt_timer_start computes it again, and the count due are set to 0.       *)
Remove(d, t) == [d EXCEPT !.list = Without(@, t), !.timeout[t] = 0, !.due[t] = 0]

(* The place of rt_timer_start's search for a timer that expires at tick x *)
(* in a list that does not hold it: before the first timer whose timeout   *)
(* is later, where "later" is a difference below RT_TICK_MAX / 2.          *)
(* (mutants of Later: a plain comparison; equal timeouts are later)        *)
LaterPlain(d, t, x) == d.timeout[t] > x
LaterOrEqual(d, t, x) == Minus(d.timeout[t], x) < Half

Later(d, t, x) == Minus(d.timeout[t], x) \in 1 .. Half - 1
Place(d, x) ==
  IF \E i \in DOMAIN d.list : Later(d, d.list[i], x)
  THEN CHOOSE i \in DOMAIN d.list :
         Later(d, d.list[i], x) /\ \A j \in 1 .. i - 1 : ~Later(d, d.list[j], x)
  ELSE Len(d.list) + 1

(* The three parts of rt_timer_start.                                      *)
Deactivate(d, t) == [Remove(d, t) EXCEPT !.active[t] = FALSE]
(* (mutant of ComputeTimeout: one tick early)                              *)
ComputeTimeoutEarly(d, t) ==
  [d EXCEPT !.timeout[t] = Plus(d.tick, d.init[t] - 1), !.due[t] = d.init[t]]
ComputeTimeout(d, t) ==
  [d EXCEPT !.timeout[t] = Plus(d.tick, d.init[t]), !.due[t] = d.init[t]]
Insert(d, t) ==
  [d EXCEPT !.list = InsertAt(@, Place(d, d.timeout[t]), t), !.active[t] = TRUE]

(* rt_timer_start and rt_timer_stop in an interrupt *)
StartNow(d, t) == Insert(ComputeTimeout(Deactivate(d, t), t), t)
StopNow(d, t)  == IF d.active[t] THEN Deactivate(d, t) ELSE d

-----------------------------------------------------------------------------
TimerInit ==
  /\ \E n \in Times, p \in [Timer -> BOOLEAN] :
       m = [tick     |-> 0,
            list     |-> << >>,
            timeout  |-> [t \in Timer |-> 0],
            init     |-> [t \in Timer |-> n],
            active   |-> [t \in Timer |-> FALSE],
            periodic |-> p,
            live     |-> [t \in Timer |-> TRUE],
            due      |-> [t \in Timer |-> 0]]
  /\ isr = "none"
  /\ pc  = [c \in Client |-> "app"]
  /\ arg = [c \in Client |-> NoTimer]
  /\ reg = [c \in Client |-> FALSE]

(* By discipline of applications a timer is used by one thread at a time,  *)
(* and left alone by interrupts while a call of a thread works on it.      *)
Free(t) == \A c \in Client : arg[c] # t

Call(c, t) == isr = "none" /\ pc[c] = "app" /\ m.live[t] /\ Free(t)

Continue(c, label) == isr = "none" /\ pc[c] = label

Goto(c, label) == pc' = [pc EXCEPT ![c] = label]

Begin(c, t, label) == Goto(c, label) /\ arg' = [arg EXCEPT ![c] = t]

Return(c) == Goto(c, "app") /\ arg' = [arg EXCEPT ![c] = NoTimer]

-----------------------------------------------------------------------------
(* rt_timer_start: "stop timer firstly", *)
Start(c, t) ==
  /\ Call(c, t)
  /\ m' = Deactivate(m, t)
  /\ Begin(c, t, "start2")
  /\ UNCHANGED <<isr, reg>>

(* "get timeout tick", with interrupts on,                                 *)
StartTick(c) ==
  /\ Continue(c, "start2")
  /\ m' = ComputeTimeout(m, arg[c])
  /\ Goto(c, "start3")
  /\ UNCHANGED <<isr, arg, reg>>

(* and the insertion, with interrupts off.                                 *)
StartInsert(c) ==
  /\ Continue(c, "start3")
  /\ m' = Insert(m, arg[c])
  /\ Return(c)
  /\ UNCHANGED <<isr, reg>>

(* rt_timer_stop: the test of ACTIVATED, with interrupts on (if it fails   *)
(* the call returns -RT_ERROR and has changed nothing),                    *)
Stop(c, t) ==
  /\ Call(c, t)
  /\ m.active[t]
  /\ Begin(c, t, "stop2")
  /\ UNCHANGED <<m, isr, reg>>

(* the removal,                                                            *)
StopRemove(c) ==
  /\ Continue(c, "stop2")
  /\ m' = Remove(m, arg[c])
  /\ Goto(c, "stop3")
  /\ UNCHANGED <<isr, arg, reg>>

(* and "change stat", with interrupts on.                                  *)
StopFlag(c) ==
  /\ Continue(c, "stop3")
  /\ m' = [m EXCEPT !.active[arg[c]] = FALSE]
  /\ Return(c)
  /\ UNCHANGED <<isr, reg>>

(* rt_timer_control(RT_TIMER_CTRL_SET_TIME) *)
SetTime(c, t, n) ==
  /\ Call(c, t) /\ "control" \in TimerOps
  /\ m' = [m EXCEPT !.init[t] = n]
  /\ UNCHANGED <<isr, pc, arg, reg>>

(* rt_timer_control(RT_TIMER_CTRL_SET_ONESHOT or SET_PERIODIC): the flag   *)
(* byte is loaded, changed and stored with interrupts on.                  *)
SetFlag(c, t) ==
  /\ Call(c, t) /\ "control" \in TimerOps
  /\ reg' = [reg EXCEPT ![c] = m.active[t]]
  /\ Begin(c, t, "store")
  /\ UNCHANGED <<m, isr>>
StoreFlag(c, p) ==
  /\ Continue(c, "store")
  /\ m' = [m EXCEPT !.active[arg[c]] = reg[c], !.periodic[arg[c]] = p]
  /\ Return(c)
  /\ reg' = [reg EXCEPT ![c] = FALSE]
  /\ UNCHANGED isr

(* rt_timer_detach, rt_timer_delete: ACTIVATED is not cleared              *)
Detach(c, t) ==
  /\ Call(c, t) /\ "detach" \in TimerOps
  /\ m' = [Remove(m, t) EXCEPT !.live[t] = FALSE]
  /\ UNCHANGED <<isr, pc, arg, reg>>

(* rt_timer_init, rt_timer_create *)
InitTimer(c, t, n, p) ==
  /\ isr = "none" /\ pc[c] = "app" /\ ~m.live[t]
  /\ m' = [m EXCEPT !.live[t] = TRUE, !.active[t] = FALSE, !.periodic[t] = p,
                    !.init[t] = n, !.timeout[t] = 0]
  /\ UNCHANGED <<isr, pc, arg, reg>>

-----------------------------------------------------------------------------
(* A driver's interrupt starts or stops a timer.                           *)
DeviceIsr(t) ==
  /\ "isr" \in TimerOps
  /\ isr = "none" /\ m.live[t] /\ Free(t)
  /\ \/ m' = StartNow(m, t)
     \/ m.active[t] /\ m' = StopNow(m, t)
  /\ UNCHANGED <<isr, pc, arg, reg>>

(* The timers whose timeout_tick the count due goes on for.                *)
Counting(t) == Linked(t) \/ \E c \in Client : pc[c] = "start3" /\ arg[c] = t

(* rt_tick_increase: "increase the global tick", then rt_timer_check       *)
ClockEnter ==
  /\ isr = "none"
  /\ \A c \in Client :
       pc[c] = "start3" => m.due[arg[c]] > m.init[arg[c]] - MaxDelay
  /\ isr' = "clock"
  /\ m' = [m EXCEPT !.tick = Plus(@, 1),
                    !.due  = [t \in Timer |-> IF Counting(t) THEN @[t] - 1 ELSE @[t]]]
  /\ UNCHANGED <<pc, arg, reg>>

(* Mutant of HeadExpired: one tick late.                                   *)
HeadExpiredLate ==
  m.list # << >> /\ Minus(m.tick, m.timeout[Head(m.list)]) \in 1 .. Half - 1

(* the first timer of the list has expired *)
HeadExpired ==
  m.list # << >> /\ Minus(m.tick, m.timeout[Head(m.list)]) < Half

(* The timer data after the timeout function of t has run: it may stop its *)
(* own timer, restart it, or start or stop another one.  That a one-shot   *)
(* timer restarts itself is a hazard of its own.                           *)
Callback(d, t) ==
  {d} \cup
  (IF "callback" \in TimerOps
   THEN {StopNow(d, t)} \cup UNION {{StartNow(d, u), StopNow(d, u)} :
           u \in {v \in Timer \ {t} : d.live[v] /\ Free(v)}}
   ELSE {}) \cup
  (IF "callback" \in TimerOps /\ ("restart" \in TimerOps \/ d.periodic[t])
   THEN {StartNow(d, t)}
   ELSE {})

(* Mutants of Renew: the flag is cleared after the restart; the timeout is *)
(* not computed again.                                                     *)
RenewClearLast(d, t) ==
  IF d.periodic[t] /\ d.active[t]
  THEN [StartNow(d, t) EXCEPT !.active[t] = FALSE]
  ELSE [d EXCEPT !.active[t] = FALSE]
RenewSameTimeout(d, t) ==
  IF d.periodic[t] /\ d.active[t]
  THEN Insert([d EXCEPT !.timeout[t] = d.tick], t)
  ELSE [d EXCEPT !.active[t] = FALSE]

(* rt_timer_check: the end of a turn of the loop, for the timer t whose    *)
(* timeout function has run                                                *)
Renew(d, t) ==
  IF d.periodic[t] /\ d.active[t] THEN StartNow(d, t) ELSE [d EXCEPT !.active[t] = FALSE]

(* rt_timer_check: one turn of the loop *)
Expire ==
  /\ isr = "clock" /\ HeadExpired
  /\ LET t == Head(m.list)
     IN  \E d \in Callback(Remove(m, t), t) : m' = Renew(d, t)
  /\ UNCHANGED <<isr, pc, arg, reg>>

(* rt_timer_check leaves its loop, and the interrupt ends *)
ClockLeave ==
  /\ isr = "clock" /\ ~HeadExpired
  /\ isr' = "none"
  /\ UNCHANGED <<m, pc, arg, reg>>

-----------------------------------------------------------------------------
InCall(c) ==
  \/ StartTick(c) \/ StartInsert(c)
  \/ StopRemove(c) \/ StopFlag(c) \/ \E p \in BOOLEAN : StoreFlag(c, p)

NewCall(c) ==
  \E t \in Timer :
    \/ Start(c, t) \/ Stop(c, t) \/ SetFlag(c, t) \/ Detach(c, t)
    \/ \E n \in Times : SetTime(c, t, n) \/ \E p \in BOOLEAN : InitTimer(c, t, n, p)

TimerNext ==
  \/ ClockEnter \/ Expire \/ ClockLeave
  \/ \E t \in Timer : DeviceIsr(t)
  \/ \E c \in Client : InCall(c) \/ NewCall(c)

TimerSpec == TimerInit /\ [][TimerNext]_vars

-----------------------------------------------------------------------------
(* Correctness.                                                            *)

TimerTypeOK ==
  /\ m \in [tick : 0 .. TickRange - 1, list : Seq(Timer),
            timeout  : [Timer -> 0 .. TickRange - 1],
            init     : [Timer -> Times],
            active   : [Timer -> BOOLEAN],
            periodic : [Timer -> BOOLEAN],
            live     : [Timer -> BOOLEAN],
            due      : [Timer -> -MaxDelay .. MaxInit]]
  /\ isr \in {"none", "clock"}
  /\ pc \in [Client -> TimerPC]
  /\ arg \in [Client -> Timer \cup {NoTimer}]
  /\ reg \in [Client -> BOOLEAN]

(* The list has each timer once and is in the order the timers are to      *)
(* expire, however often the tick has wrapped around: rt_timer_check looks *)
(* at its head only.                                                       *)
PendingSorted ==
  \A i, j \in DOMAIN m.list :
    i < j => m.list[i] # m.list[j] /\ m.due[m.list[i]] <= m.due[m.list[j]]

(* A timer that is linked has RT_TIMER_FLAG_ACTIVATED set, without which   *)
(* rt_timer_stop does not stop it, whatever is stored over the flag.       *)
LinkedActive == \A t \in Timer : Linked(t) => m.active[t] /\ m.live[t]

(* When rt_timer_check returns no timer is left whose time has come.       *)
NoneForgotten ==
  [][isr = "clock" /\ isr' = "none" => \A t \in Timer : Linked(t) => m.due[t] > 0]_vars

(* "If we have two timers that timeout at the same time, it's preferred    *)
(* that the timer inserted early get called early": a timer that is linked *)
(* comes after those in the list that are due at the same time.            *)
FifoAmongEquals ==
  [][\A i, j \in DOMAIN m'.list :
       /\ ~Linked(m'.list[i]) /\ Linked(m'.list[j])
       /\ isr = "none"
       /\ m'.due[m'.list[i]] = m'.due[m'.list[j]]
       => j < i]_vars

(* The timers are a timer service: none goes off early, none is forgotten, *)
(* and those that are late go off in order.                                *)
Service == INSTANCE Alarms WITH
             Alarm   <- Timer,
             Most    <- MaxInit,
             Late    <- MaxDelay,
             Off     <- MaxInit + 1,
             left    <- [t \in Timer |-> IF Linked(t) THEN m.due[t] ELSE MaxInit + 1],
             ringing <- isr = "clock"
ImplementsAlarms == Service!Spec

-----------------------------------------------------------------------------
(* The processor executes the clock interrupt's instructions.              *)
TimerFairSpec == TimerSpec /\ WF_vars(Expire \/ ClockLeave)

(* rt_timer_check ends, although timers restart themselves and each other  *)
(* while it handles them.                                                  *)
InterruptEnds == isr = "clock" ~> isr = "none"
=============================================================================
