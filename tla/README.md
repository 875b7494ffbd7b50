# A TLA+ model of the kernel

The repository is a copy of the RT-Thread kernel: a preemptive real-time kernel
for one processor, written in C (`src/Source/rt-thread/src`, headers in
`src/Source/rt-thread/include`, configuration in `src/Source/rtconfig.h`).
This directory holds TLA+ modules that model it, TLC configurations that check
them on small instances, and proofs for every instance that TLAPS checks.

Paths below are relative to `src/Source/rt-thread/`; `thread.c` means
`src/thread.c` there.

## 1. Inventory

### Parts of the system

| part | state it keeps | operations | who it interacts with |
|---|---|---|---|
| **Scheduler** (`scheduler.c`) | one ready list per priority, the bitmap `rt_thread_ready_priority_group`, `rt_current_thread`, `rt_scheduler_lock_nest`, `rt_thread_defunct` | `rt_schedule`, `rt_schedule_insert_thread`, `rt_schedule_remove_thread`, `rt_enter_critical`, `rt_exit_critical`, `rt_system_scheduler_start` | called by everything that makes a thread ready or not |
| **Threads** (`thread.c`) | `stat`, `current_priority`, `number_mask`, `remaining_tick`, `error`, the list node `tlist`, the embedded timer | init/create, startup, exit, detach/delete, yield, sleep, control, suspend, resume, timeout, find | scheduler, timers, object registry, idle thread |
| **Clock** (`clock.c`) | `rt_tick` | `rt_tick_increase`, `rt_tick_get`, `rt_tick_set`, `rt_tick_from_millisecond` | takes the time slice from the current thread, calls `rt_timer_check` |
| **Timers** (`timer.c`) | a list ordered by `timeout_tick`; per timer the flags ACTIVATED and PERIODIC | init/create, start, stop, control, detach/delete, `rt_timer_check` | calls back `rt_thread_timeout` and application functions in the clock interrupt |
| **Interrupt nesting** (`irq.c`) | `rt_interrupt_nest` | enter, leave | `rt_schedule` switches differently inside an interrupt |
| **Idle thread** (`idle.c`) | the idle thread, idle hooks | `rt_thread_idle_excute` frees the threads of `rt_thread_defunct` | memory heap, object registry |
| **IPC wait lists** (`ipc.c` 36-146) | a list of suspended threads per object, FIFO or by priority | suspend in the list, resume the first, resume all | threads, scheduler |
| **Semaphore** (`ipc.c` 148-479) | `value` (16 bits), wait list | take, trytake, release, control, init/create, detach/delete | wait lists, thread timers |
| **Mutex** (`ipc.c` 481-864) | `value`, `owner`, `hold`, `original_priority`, wait list | take, release, detach | priority inheritance through `rt_thread_control` |
| **Event** (`ipc.c` 866-1244) | `set`, wait list; per thread `event_set`, `event_info` | send, recv, control | wait lists |
| **Mailbox** (`ipc.c` 1245-1719) | ring of words, list of receivers, list of senders | send, send_wait, recv, control | wait lists, ticks |
| **Message queue** (`ipc.c` 1721-2284) | message list, free list, wait list | send, urgent, recv, control | wait lists, ticks |
| **Signals** (`signal.c`) | per thread pending set, mask, handlers | install, mask, wait, kill, delivery on the thread's stack | threads, ports |
| **Memory pool** (`mempool.c`) | free-block list, wait list | alloc, free, delete | wait lists, ticks |
| **Small memory heap** (`mem.c`) | blocks chained by offsets, `lfree` | malloc, realloc, free | a semaphore as its lock |
| **Memory heap** (`memheap.c`) | block list and free list per heap | alloc, realloc, free | a semaphore as its lock |
| **Object registry** (`object.c`) | a list of named objects per class | init, allocate, detach, delete, find | every part registers its objects |
| **Devices** (`device.c`) | open flags and reference counts | register, open, close, read, write, control | drivers, outside the repository |
| **Services** (`kservice.c`) | none worth a model | string and print functions, the assertion handler | |
| **Start-up** (`components.c`) | none | `rtthread_startup`, init-function table | starts main and idle |

### How the parts interact

There is one processor. A thread runs until it calls the kernel and gives the
processor up, or until an interrupt makes a more urgent thread ready. All shared
data is protected by switching interrupts off, and each function of the kernel
is a sequence of *sections* with interrupts off; between two of them an
interrupt may come and, through `rt_schedule`, any other thread may run. What
is true inside a section may be false in the next one. A thread has a
single list node `tlist`, so the fact that it is ready, waiting for an
object or dead *is* the list it is linked in. The clock interrupt takes the
time slice and runs the expired timers; a thread that waits with a timeout is
woken by whichever comes first, the resource or its timer.

### What is hard

- Functions made of several sections: `rt_thread_resume` (test of the state,
  unlink, insert), `rt_thread_delete` (remove, stop the timer, close),
  `rt_ipc_list_resume_all` (its loop test has interrupts on), `rt_timer_start`
  and `rt_timer_stop`.
- The bitmap is a redundant copy of the ready lists. If a bit stays after the
  last thread left, `rt_schedule` takes a list head for a thread.
- Wakeups that come while the scheduler is locked have to be made up for by
  `rt_exit_critical`.
- A thread ends on its own stack, which somebody else frees.
- A timeout and a wakeup of the same thread at the same tick.
- Counters at their limits: `sem->value`, `mutex->hold`, `rt_tick`.
- Delivery to several waiters, priority inheritance, and re-computed timeouts.
- Signals, which end waits that somebody else is ending too, and run code on another
  thread's stack.

Each of these, with its line, is an entry of `hazards` in `PROJECT.json`,
together with the properties that cover it or the reason why none does yet.

### What makes each part correct

- *Scheduler*: the lists, the states and the bitmap agree; the first thread of
  the most urgent non-empty list runs whenever it may; a locked scheduler
  switches nobody; equal threads share the processor.
- *Threads and idle*: no thread is lost or linked twice; none is freed while it
  runs or is linked.
- *Timers*: no timer fires early, none is forgotten, and one that was stopped
  does not fire.
- *IPC objects*: what was sent is received once or still there; who waits is
  in the list, in order, and only while there is nothing to receive; success is
  reported only to whom something was given.
- *Mutex*: one owner; the owner runs at least at the priority of every waiter.
- *Memory*: blocks do not overlap, cover the heap, and freed neighbours merge.

## 2. Plan

Modules in the order they are written. All of them exist; the proofs named below are
what is left.

| step | module | composes | theorems or runs worth having |
|---|---|---|---|
| 1 | `Kernel`, `Scheduler` | | consistency, no lost thread, dispatch, refinement of `FixedPriority` (all proved); round robin (checked) |
| 2 | `Ipc`, `Semaphore` | `Scheduler` | token conservation, waiting only without tokens (proved) |
| 3 | `Timer` | stands alone; refines `Alarms` | order of the list modulo the tick's width, no early or forgotten timer, a linked timer can be stopped (all proved) |
| 4 | `IpcObject`, `Mutex` | `Ipc`, `Scheduler` | one owner; inheritance, the raised priority given back (all proved) |
| 5 | `Event` | `IpcObject` | every satisfied waiter is woken, nobody receives cleared events (proved); `rt_event_recv` as written |
| 6 | `Mailbox`, `MessageQueue` | `IpcObject` | refinement of the bounded queue `Channel`, no message in two places, no lost wakeup (proved); the window of `rt_mb_send_wait` |
| 7 | `MemPool` | `IpcObject` | blocks conserved between allocators that time out, no lost wakeup (proved) |
| 8 | `Heap`, `Mem`, `MemHeap`, `Heaps` | stand alone | split and merge keep the blocks a partition, free blocks are merged and indexed, refinement of `Allocator` (all proved) |
| 9 | `Signals` | `Mutex`, `Scheduler` | nobody sleeps through a signal, no node is lost, the mutex under interrupted waits (proved) |

Every property of the runs that pass is proved, under the hypotheses of section 6, except
the two that are liveness.

## 3. The modules

| module | models | contents |
|---|---|---|
| `RtList` | `rtservice.h`, the lists | what a linked list holds, removal, insertion |
| `Kernel` | data of `scheduler.c` and `thread.c` | the kernel record and the functions that work on it with interrupts off |
| `Scheduler` | `thread.c`, `scheduler.c`, `idle.c`, the clock interrupt, device interrupts | one action per section; the properties |
| `FixedPriority` | (abstract) | what a fixed-priority scheduler promises |
| `Ipc` | `ipc.c` 36-146 | the wait lists, as functions on the kernel record |
| `Semaphore` | `ipc.c` 148-479 | one semaphore, composed with `Scheduler` |
| `Timer` | `timer.c`, the tick of `clock.c` | timers with their numbers, one action per section |
| `Alarms` | (abstract) | what a timer service promises |
| `IpcObject` | the parent `rt_ipc_object` of all objects, detach and init, the assertion handler (`kservice.c`) | the sections of a call that waits |
| `Mutex` | `ipc.c` 481-864 | one mutex |
| `Signals` | `signal.c`, the end of `rt_schedule` | signals between threads and from interrupts, composed with one mutex, whose wait is the one that reacts to them |
| `Event` | `ipc.c` 866-1244 | one event object |
| `Mailbox` | `ipc.c` 1245-1719 | one mailbox |
| `MessageQueue` | `ipc.c` 1721-2284 | one message queue |
| `MemPool` | `mempool.c` | one memory pool |
| `Channel` | (abstract) | a bounded queue: what mailbox and message queue promise |
| `IpcObjects` | | the union of the four: the kernel with one object of any of these kinds |
| `Heap` | what `mem.c` and `memheap.c` share | blocks with headers, the clients and what they ask for, the properties |
| `Mem` | `mem.c` | the small heap, under its semaphore |
| `MemHeap` | `memheap.c` | a memory heap, under its semaphore |
| `Allocator` | (abstract) | disjoint regions: what a heap promises |
| `Heaps` | | the union of the two heaps |
| `SchedulerMC`, `SchedulerCallsMC`, `SemaphoreMC`, `TimerMC`, `SignalsMC`, `IpcObjectsMC`, `HeapsMC` | | instances for TLC |
| `ListLemmas` | | facts about lists, recursion and sums over finite sets |
| `SchedulerProofs` | | lemmas on each function of `Kernel`; the inductive invariant of the scheduler and its consequences; who runs, and critical sections; then the invariant of the scheduler with threads that wait, and lemmas on each function of `Ipc` and each kind of section |
| `SemaphoreProofs` | | the semaphore's inductive invariant and its consequences |
| `ObjectProofs` | | the same for events, mailboxes, message queues and memory pools |
| `DeliveryProofs` | | no wakeup of a mailbox, a message queue or a memory pool is lost; mailbox and message queue implement `Channel` |
| `TimerProofs` | | the timers' inductive invariant, its consequences, the refinement of `Alarms` |
| `HeapProofs` | | walks along blocks; the inductive invariants of the two heaps, their consequences, the refinement of `Allocator` |
| `SignalProofs` | | the nodes of signals, by counting; threads that wait for signals; the owner of the mutex |

### State

The kernel data is one record `k`, so that a call within a call is a function
application: `Schedule(Resume(k, t))` is `rt_thread_resume(t); rt_schedule();`
with interrupts off. `k.list[q]` is the sequence of threads whose `tlist` is
linked in list `q`: a priority, an IPC object's wait list, or `Defunct`.
`k.mask[t]` and `k.group` are the bit words `number_mask` and
`rt_thread_ready_priority_group` as the sets of their one bits; they are kept
apart from the lists, as in the code, since that they agree is a property and
not a definition. `k.timer[t]` says whether the thread's timer is linked.

`pc[t]` is where thread `t` is in a call of the kernel and `arg[t]` the
thread the call is about; `isr` is `"clock"` during `rt_tick_increase`. Two variables
do not exist in the code: `crit[t]` counts the critical sections `t` has open,
and in `Semaphore` `granted` and `net` record who was handed a token and how
many tokens are in circulation. They are history: no guard of a code action
reads them, except that applications close the sections they opened.

The timers' data is a record `m` in the same way: the tick, the list
`rt_timer_list` in its order, and per timer `timeout_tick`, `init_tick`, the bits
ACTIVATED and PERIODIC of the flag byte, and whether the object exists. The
numbers of the tick are those of `rt_tick_t`: they wrap around at `TickRange`,
and differences are taken modulo it. `m.due[t]` is history: the number of clock
interrupts left until `t` is to expire, an integer that does not wrap around and
that no code action reads. That the code's comparisons modulo `TickRange` agree
with it is what the properties of `Timer` say. `reg[c]` is the bit ACTIVATED in a
flag byte that client `c` has loaded and not stored yet.

Mutex, event, mailbox, message queue and memory pool extend `IpcObject`, which has
what they share: `flag`, the order of service; `alive`; `wait[t]`, whether the
call of `t` waits forever, for ticks, or not at all; and `step[t]`, where `t` is in the
part of its call after the wait. A call that waits has the `pc` `"wait"`
before its `rt_schedule` and `"waited"` afterwards. The objects' own variables are the
fields of the C structures, under their names; the links between
messages or blocks are sequences. History in these modules: `held[t]`, how
often `t` has been told that the mutex is its own, and `astray`, the threads whose wait for it a signal has interrupted; `late`, the receivers of an event
who began to wait when what they ask for was set already; `got` and `mq_got`, the
last mail or message received; `out`, the blocks applications have.

In `Signals` the pending and the mask bits are sets, `si_list[t]` the signals in the nodes
linked from `thread->si_list`, `free_nodes` what `_rt_siginfo_pool` has left, and
`awaited[t]` the set given to `rt_signal_wait`, empty where the bit
`RT_THREAD_STAT_SIGNAL_WAIT` is clear. The stack of a thread is a sequence of frames:
the first is its own code, each further one is a `_signal_entry` that
`_signal_deliver` has put on top. `frames[t]` says what each executes: `"own"` code (of a
`_signal_entry`: its end), the test of `rt_thread_handle_sig` (`"check"`), or the handler
of a signal. `sig_ret[t]` is the number of the frame that `thread->sig_ret`
points to.

The heaps' blocks are a function `heap` from the offsets of headers to records `[next,
prev, used]`; a header that is merged into another block is removed from its domain.
`want` is history: the size asked for of each block given out, from which the regions
of `Allocator` are made. `rmem`, `nmem` and `newsize` are the locals of a reallocation
that is in progress. In `MemHeap` `free_list` and `available_size` are the list and the
counter of the code, redundant with `heap`.

### Actions

One action is one section with interrupts off, with everything the section
calls. An example, `rt_thread_resume`:

| code | action |
|---|---|
| the test of `stat`, interrupts on (658) | `ResumeThread` |
| `rt_list_remove` (667-673) | `ResumeUnlink` |
| `rt_schedule_insert_thread` (676) | `ResumeInsert` |
| the caller's `rt_schedule` | `Reschedule` |

and `rt_timer_start`, in `Timer`:

| code | action |
|---|---|
| "stop timer firstly", interrupts off (279-285) | `Start` |
| `timeout_tick = rt_tick_get() + init_tick`, interrupts on (289-294) | `StartTick` |
| search and insertion, ACTIVATED set, interrupts off (296-369) | `StartInsert` |

Every thread that is not current keeps its `pc`, so a thread preempted between
two sections goes on there when it is current again. Interrupts are actions
that are enabled between any two sections of threads. Called inside an
interrupt or inside another section (`rt_thread_timeout`,
`rt_sem_release` in a driver) the same functions are applied in one action.

Sections of a clock interrupt: `ClockEnter` takes the time slice, `Expire(t)`
is one turn of the loop of `rt_timer_check` for a thread's timer, `ClockLeave`
ends it. In all modules but `Timer` it is left open which timers have expired,
so that a timeout may come at any tick after its start and two timers expire in
any order: more than the code can do, never less. `Timer` has the same three
actions with the comparison of `rt_timer_check`, and a turn of its loop includes
what the timeout function does (`Callback`) and the renewal of a periodic timer.

A call on an object that waits goes through `Block` (the section that links the thread
in a wait list and starts its timer), `rt_schedule`, and the part of its call after
the wakeup, which begins with `Woken` and returns with `WaitFails` or a section of the
object's own. What is special in each:

- `rt_mb_send_wait` goes on with interrupts on after a wait (the finding below), so
  that its statements are actions: `MailSendAgain` (the loop's test, and the
  waiting time), `MailSendLink`, `MailSendPut`, `MailSendCount`, `MailSendWake`.
- The message queue has two sections per call, and the copy between them
  is an action with interrupts on (`MsgCopy`; in `rt_mq_recv` it falls between `TakeMsg`
  and `MsgFree`, and since the message is then the receiver's alone, `NoMessageShared`,
  its contents are read off in `TakeMsg`). The free list shrinks as in the code: `rt_mq_recv`
  (2215) links a message before the second free one, so that the first is lost.
- `rt_mp_free` decides by `suspend_thread_count`, not by the list, whether to
  wake somebody (`PoolResume`), and `rt_mp_alloc` links waiters at the front.
- `rt_event_send` is one section: a fold over the wait list in which each turn
  (`Offer`) may clear bits that the later ones ask for. `rt_event_recv` never takes its
  branch for events that are set (1139).
- `rt_thread_kill` is `KillStart`, `KillFind` (the critical section of its search),
  `KillAlloc` (an empty pool leaves `-RT_ETIMEOUT` in the caller's error), `KillLink` and `_signal_deliver` (`KillTest` with interrupts on,
  `KillDeliver`), between which the receiver may run; in an interrupt it is one action
  (`KillIsr`). `rt_thread_handle_sig` takes the first node whatever its signal
  (`TakeFirst`) and runs the handler with interrupts on; it is called by `rt_schedule` when
  it has switched threads outside of interrupts (`OwnStep`), by `_signal_entry`, and by a
  thread that sends a signal to itself.
- `rt_mutex_take` goes back to its test after an interrupted wait (`MutexAgain`,
  `MutexLink`), with interrupts on and `thread->error` still `-RT_EINTR`.
- A heap's action is what is done between `rt_sem_take` and `rt_sem_release` of its
  semaphore. `rt_realloc` gives the semaphore back before it calls `rt_malloc`
  and `rt_free`, and so has several actions, between which others use the heap;
  the tests of `memheap.c` made before the lock is taken are actions too.

### What is abstracted

- In the scheduler's modules, the tick and the order of the timer list; in `Timer`,
  the threads' scheduling: any client may go on at any moment, which contains
  every order a scheduler can choose.
- `timeout_tick` of a timer that is not linked and that nobody is starting, kept at 0.
- `rt_current_priority` is written and never read by the kernel.
- Stacks, names, entry functions, hooks, log output.
- The bitmap's second level for more than 32 priorities (`rtconfig.h` sets 32).
- Interrupts do not nest: `rt_interrupt_nest` is 0 or 1.
- The bit `RT_THREAD_STAT_SIGNAL`: its only test (`signal.c:101`) masks it out before.
- Signal handlers return at once and do nothing. The siginfo is not told apart from its number.
- A failed `RT_ASSERT` sets `k.asserted`. In `Scheduler` and `Semaphore` the code
  goes on, as `rt_assert_handler` does when the application has set a hook that
  returns. In the modules of the other objects it stops there (`Halt`), as without a
  hook, where the handler loops forever. The finding on timeouts is a
  failed assertion that every object's wait can reach, and so is the stale count of
  waiters of a pool; `MutualExclusion` (its second part) and `NoBlockMissed`, which they
  break, are stated for systems that have not stopped in them.
- Where `signal.c` reads wild memory (see the findings), and where a signal frame ends
  without anywhere to return to, the system stops in the same way (`k.asserted`).
- Which message or block of several free ones is first (`CHOOSE`), the contents of
  a free message (`NoBody`), and the words of a mailbox that are not mails.
- `max_used_size`, `max_mem`, the thread names of `RT_USING_MEMTRACE`, the listing
  commands. Addresses in a heap are offsets of a few units (`Align`, `Header`).
- The semaphore of a heap: `rt_sem_take(..., RT_WAITING_FOREVER)` has no timer, so
  that the work between it and the release is exclusive, by the properties of `Semaphore`.
- `rt_mb_recv`, `rt_mq_recv` with a timeout of 0 called in interrupts.

### What is taken as the discipline of applications

The interface can be misused in ways that nobody would call a defect of the
kernel. The models assume:

- A thread that is being resumed, started or deleted by another one is not
  touched by a third, nor by an interrupt (`Free`). Without this,
  `rt_thread_resume` inserts the same thread twice, because it tests the
  state with interrupts on.
- A thread is not deleted in the middle of its own resume or delete of
  another, and it does not exit with a critical section open.
- After `rt_thread_suspend` of itself, `rt_thread_resume`, or a change of
  priority, the application calls `rt_schedule` (the note of
  `rt_thread_suspend` demands it).
- The idle thread makes no calls (no idle hooks).
- The timer of a thread does not end between two sections of a call that resumes or
  deletes the thread. This is not a guard of the calls, whose targets may well be asleep
  with their timer running, but the difference between the specifications `Spec` and
  `CalmSpec` of `Scheduler` (`CalmExpire`): the passing runs and the theorems about the
  scheduler's safety are for `CalmSpec`, and the run `SchedulerTimed` shows what happens in `Spec`, see the
  findings. The kernel does nothing to prevent it.
- Nobody blocks with the scheduler locked, and nobody uses a semaphore or other
  object that is being detached (`Usable`). An object is detached only when every thread
  in a call that waits is asleep (`DetachObject`), and a mutex only when it is free, or by its
  owner at its own priority (`MutexDetach`); the code tests neither, and an owner whom
  waiters have raised would keep their priority.
- While a sender is in the part of `rt_mb_send_wait` that has interrupts on where it
  should not, nobody else uses the mailbox, a second sender in its own such part
  included (`Exposed`, `Undisturbed`); the call `"race"` lifts
  this, see the findings.
- Clients of a heap free and reallocate only what they have been given, and leave alone
  a block that is being reallocated. They ask for sizes far below 2^32, where the rounding of
  `mem.c:228` wraps around, and the small heap has room for a smallest block, below which
  the unsigned difference of `mem.c:245` underflows (`MemAssumption`).
- While a thread is in the part of `rt_mutex_take` after an interrupted wait that has
  interrupts on, nobody else uses the mutex (`MutexCall`).
- Threads have installed handlers before they are sent signals, which are sent only to
  threads that are alive, and in the instances with signals no thread ends and no mutex is detached.
- `mutex->hold`, a byte, is not overrun: a thread takes a mutex at most `MaxHold` times.

- A timer is used by one thread at a time, and interrupts and other timers'
  timeout functions leave it alone while a thread is in a call on it
  (`Free` of `Timer`). Otherwise `rt_timer_stop`, which clears ACTIVATED with
  interrupts on again, clears it for a timer just started.
- `rt_tick_set` is not called: it makes every running timer early or late. A
  timeout function does not detach its own timer, and no `init_tick` is 0:
  a periodic timer with 0 would keep `rt_timer_check` in its loop forever.
- In the proof of `LinkedTimersActive` and the run `Timer`, a one-shot timer's
  timeout function does not start its own timer (`"restart"`): see the findings.

### Code that does not compile

The source has misspelled names and tokens (`levle`, `strcut`,
`rt_threead_yield`, `rt_tick_incread`, `rt_scheduler()` at `scheduler.c:366`,
`%to_thread->sp`, full-width semicolons, in `timer.c` `rt_list_enter`,
`RT)TIMER_SKIP_LIST_MASK`, and `&row_head[...]` at 350 for the element `row_head[...]`
whose type the parameter has; in `ipc.c` `ower` (684), `thread->hold` (791),
`mutex->current_priority` (796), `mb_in_offset` (1498), `rt_mn_send_wait`; `option` and
`event.parent` of the event functions; `block_prt` of the pool; `SIZE`, `mem` and the casts to a
byte, read as addresses, of `mem.c` (286-330); `free_list.next_free` of `memheap.c`, and
`heap->next_free` at 372 for the first of the free list). Where such text can only be a slip
the models read it as the name that is plainly meant. Where it compiles and
means something else, the models follow it to the letter: `rt_enter_critical;`
in `rt_thread_find` calls nothing, and the assignments in conditions (`ipc.c`
839 and 1139, `mem.c` 113) assign. At `ipc.c:2215`, which applies `->next` to a
`void *`, the field is read as written, of the first free message.

## 4. The runs

Each `.cfg` names the instance. Those of the scheduler, the semaphore and the mutex have four threads: `main` (priority 1),
`a` (0, more urgent), `b` (1, the same as main) and `idle` (2): enough for
preemption, for two threads of one priority, and for the idle thread to run.
In `MutexSignals` `b` has 2 and `idle` 3. Threads are not symmetric: they differ in priority. `IpcObjects` has three of them, `main`, `a`
and `idle`, and device interrupts as a third party; `Heaps` has two clients.

| run | checks | shows |
|---|---|---|
| `Scheduler` | `TypeOK`, `QueuesConsistent`, `HighestRuns`, `CriticalKeepsCpu`, `NoThreadLost`, `FreedUnused`, `ImplementsFixedPriority` | threads that use the ready queue, or create, start, end, delete, reap and create again (`a` and `main` are dynamic, `b` static), interleaved with the interrupts in every way `CalmSpec` has: the queue stays consistent, the right thread runs, critical sections hold, no thread is lost or freed in use; each step is a step of fixed-priority scheduling |
| `SchedulerRoundRobin` | `RoundRobin` | a ready thread of the highest priority runs, with a time slice of two ticks |
| `SchedulerFind` | `CriticalKeepsCpu` is violated | a finding, below |
| `SchedulerTimed` | `ClosedUnqueued` is violated in `Spec` | a finding, below: the end of a timer in the middle of `rt_thread_delete` |
| `Semaphore` | seven properties, see below | two threads and an interrupt on one semaphore, with timeouts, reset, detach and re-creation |
| `SemaphoreTimeout` | `TimeoutFindsSuspended` is violated | a finding, below |
| `Timer` | seven properties, see below | two threads, a driver and the timeout functions use two timers in every interleaving with the clock, while the tick wraps around |
| `TimerRestart` | `LinkedActive` is violated | a finding, below |
| `MutexSignals` | `MutualExclusion`, `OwnerInherits`, `PriorityRestored`, `SignalWakesWaiter`, `NodesConserved` | three threads take a mutex, recursively and with timeouts, release it, sleep, and create it again with either flag; two use it while interrupts send one of them a signal; two send each other signals, wait for them, mask them; one is sent two signals by interrupts |
| `IpcObjects` | eight properties, see below | two threads, their timers and interrupts use an event, a mailbox, a message queue or a pool |
| `MailboxRace` | `MailboxIsChannel` is violated | a finding, below |
| `Heaps` | four properties, see below | two clients allocate, reallocate and free in a heap of either kind |

Properties of `Semaphore`: `NoTokenWhileWaiting`, `TokensConserved`,
`BlockedIffListed`, `WaitersSorted`, `DetachedHasNoWaiters`, `NoFreeTake`,
besides the type invariant.
Properties of `IpcObjects`: who sleeps in a call is in one of the object's wait lists
and the other way round (`WaitersListed`), and nobody sleeps while there is
something for him that no thread woken before him is about to take (`NobodyWaitsInVain`:
`NoMailMissed`, `NoMessageMissed`, `NoBlockMissed`); after a send no waiter is left whose events are set
(`SendWakesAll`), and each receives what it asked for, cleared events alone
(`ClearedOnce`); mailbox and message queue implement `Channel` (`MailboxIsChannel`,
`QueueIsChannel`); no message and no block is in two places (`NoMessageShared`,
`BlocksConserved`).
Properties of `Heaps`: the blocks divide the memory, forward by `next` and backward by
`prev`, and the used ones are those clients have, each large enough (`HeapDivided`); freed neighbours are
merged (`NoFreeNeighbours`); `lfree` of `mem.c` is a block, and the free list and
`available_size` of `memheap.c` are those of the free blocks (`FreeBlocksIndexed`); the heap
implements `Allocator`, whose regions never overlap (`ImplementsAllocator`).
Properties of `MutexSignals`: among the threads whose waits no signal has interrupted only
the owner believes to hold the mutex, and as often as `hold` says (`MutualExclusion`); the
owner is as urgent as its waiters (`OwnerInherits`) and gets its own priority back
(`PriorityRestored`), whoever is interrupted; a thread that sleeps in `rt_signal_wait` has
none of the signals it waits for pending, unless it masks them or their
`rt_thread_kill` is under way (`SignalWakesWaiter`); each node of the pool is free, in one
list, or with a call or a handler (`NodesConserved`).
Properties of `Timer`: the list is in the order of expiry (`PendingSorted`) and equal
times keep the order of starting (`FifoAmongEquals`); a linked timer is activated
(`LinkedActive`); when `rt_timer_check` returns nothing is overdue
(`NoneForgotten`), and it returns (`InterruptEnds`); the timers implement
`Alarms`, whose steps set, stop and ring alarms, each not before its time
and the most overdue first.

### Bounds

- `MaxLock = 1`: critical sections are opened once; nesting changes only the
  counter. `PrioMax = 3`: a priority above, at and below the main thread.
- `InitTick` is 1 where the slice's length does not matter (each tick is then the
  end of a slice, the interesting case), 2 for round robin.
- `ValueRange = 2` stands for the 2^16 of `sem->value`: the overflow of the
  counter happens in the run, and conservation is stated modulo the range.
- `MaxNet = 2` bounds how many tokens are released and not taken.
- `Ops` and `SemOps` name the calls the instance makes: the calls are divided
  over runs, since all at once in four threads would be too many states, and each
  action fires in a passing run. In the run `Scheduler` the division is a variable of
  `SchedulerCallsMC` that never changes: `calls` is chosen from `Kinds` at the start (its steps are steps
  of `CalmNext`), and threads either use
  the ready queue (yield, suspend, resume, change of priority) or begin and end (create,
  exit, delete), with sleeping, starting, critical sections, `rt_thread_find` and all interrupts in both; both
  kinds at once have more than ten million states. `SchedulerRoundRobin` has no change of priority: a thread
  whose priority another keeps changing is put at the end of its list each time, and need not
  ever run.

- `TickRange = 10` stands for the 2^32 of `rt_tick_t`: the tick goes around as
  often as it likes, with timers on both sides of the wrap. The code's
  condition on times, below half of the range (the assertion at `timer.c:293`),
  appears as `MaxInit + MaxDelay < Half`.
- `MaxDelay = 1` is the number of clock interrupts between the computation of
  `timeout_tick` and the insertion of the timer, which has interrupts on in
  between: one is enough for a timer to be inserted when it is already due.
- `Times = {1, 2}`: expiry at the next tick, and behind it. Two timers suffice
  for order, for equal times and for a timeout function that acts on another
  timer; the theorems hold for any number.

- `MutexSignals`: `MaxHold = 2`, so that a mutex is taken again and released in two steps;
  `PrioMax = 4` has a priority below that of each taker. Three takers are
  owner, waiter who raises it, and second waiter.
  `Works` of `SignalsMC` are four instances in one run, since signals, the mutex and
  sleeping all at once would be too many states. Two nodes (`SigInfoMax`), so that the
  pool is used up; three frames (`MaxFrame`): one signal delivered on top of another.
  Two signals where their order in the list matters, one where the sections of
  `rt_thread_kill` interleave.
- `IpcObjects`: `Size = 2` mails of two kinds, so that the ring wraps around, is full and
  empty; three messages, since each receive loses one and a queue is refilled
  only when it is created again; two blocks; two event bits, with requests of one and of both, AND and OR, with
  and without CLEAR. `MaxCount = 3` bounds `suspend_thread_count`, which grows with each
  waiter that times out. Two waiters and an interrupt are enough for a wakeup to be
  overtaken by another taker and for a waiter to time out as it is woken. `Flags =
  {"PRIO"}`: with two waiters of different priorities the pool's list, which ignores
  the flag, and the order of arrival both occur.
- `Heaps`: a memory of 46 units with headers of 4 and sizes 0, 3 and 6, aligned to 2 (6 is
  above `MinSize`, 3 is raised to it, 0 is the size that is refused or frees): room for up to five blocks, so that a
  block with two free neighbours, a block that is split and one that just fits occur.

### Deadlock

All passing runs check for deadlock: the clock goes on, and the idle thread is
always there to be run. A heap's clients can always ask for another block, if only to
be refused.

### Fairness

`TimerFairSpec` of the run `Timer` says that the processor executes the clock
interrupt (weak fairness of `Expire \/ ClockLeave`, which nothing can preempt in the
model: interrupts do not nest); of clients and of the clock nothing is assumed.

`FairCallsSpec`, `CallsSpec` with the `Fairness` of `Scheduler`, is used by
`SchedulerRoundRobin` only. The clock ticks and its
interrupt ends (weak fairness of `ClockEnter` and `ClockLeave`): the timer
hardware does it. Code inside the kernel proceeds (strong fairness of
`InKernel`): each action is a few instructions of the thread that has the
processor, and interrupts, which disable it for a moment, do not come so
densely that no instruction is executed between two of them.
A thread leaves its critical sections (strong fairness of `Leave`): an application
that locks the scheduler forever stops every kernel. Nothing is assumed of other
calls: a thread may compute forever.

## 5. Findings

- **`rt_thread_find` unlocks the scheduler** (`thread.c:732`, run
  `SchedulerFind`). Under the comment "enter critical" stands
  `rt_enter_critical;`, without parentheses. The exits at 746 and 754 do call
  `rt_exit_critical()`. A thread that calls it in a critical section is
  switched out inside that section.
- **The timer of a thread may end in the middle of its resume or its deletion**
  (`thread.c:388` and `673`, run `SchedulerTimed`).
  `rt_thread_resume` and `rt_thread_delete` work in sections and leave the timer of their
  target running: the first never stops it, the second only after it has taken the thread out of its
  list. `rt_thread_timeout` in between finds a suspended thread and puts it into its ready list.
  `rt_thread_resume` then inserts the linked node a second time, or, one section
  earlier, unlinks it without its bit in the bitmap; `rt_thread_delete` closes a thread that is in a ready
  list ("The thread object will be removed from thread queue", 369) and links the same node into
  `rt_thread_defunct`. The run shows the closed thread in a ready list; with `QueuesConsistent` in
  the place of `ClosedUnqueued` in its `.cfg`, TLC shows it in both lists, and without `"delete"` in `Ops`
  the case of `rt_thread_resume`. From such a state on, the C pointers of the two lists are
  mixed up, which the model's lists do not follow; the run ends there.

- **A timeout may find its thread ready** (`thread.c:698`, run
  `SemaphoreTimeout`). `rt_thread_timeout` asserts that the thread is
  suspended, but nothing stops the timer of a thread that
  `rt_sem_release` wakes: `rt_thread_resume` does not and `rt_sem_take` does not
  after its wait. If the timer expires before the thread blocks again the
  assertion fails, or, where a hook lets it return, the thread goes to
  the end of its queue with `-RT_ETIMEOUT` as its error. `NoFreeTake` still
  holds: what can go wrong is a take that got a token and reports an error,
  which is why `TakeReturn` counts a granted thread as a taker either way.

- **A one-shot timer restarted by its timeout function cannot be stopped**
  (`timer.c:515`, run `TimerRestart`). After the timeout function `rt_timer_check`
  clears ACTIVATED of a timer that is not periodic, also when the function has
  just started it again. The timer is then linked, and goes off, without the
  flag that `rtdef.h:383` describes ("timer is active"), and `rt_timer_stop`
  refuses with `-RT_ERROR`. Nothing else goes wrong: it expires in time.

- **A sender that had to wait works with interrupts on** (`ipc.c:1481`, run
  `MailboxRace`). Under the comment "disable interrupt" `rt_mb_send_wait` calls
  `rt_hw_interrupt_enabled(temp)`; `rt_mb_recv` has `rt_hw_interrupt_disabled()` at
  the same place (1630). In the run an interrupt that sends between the sender's "increase input
  offset" and "increase message entry" finds room that is no longer there, and
  a mail is overwritten before anybody has received it. Without such an
  interruption the mailbox is a bounded queue (`MailboxIsChannel` in `IpcObjects`).

Signals break calls that wait, and the model shows how; `MutualExclusion` is stated for the
threads this does not happen to (not in `astray`). A signal that resumes a thread which has
suspended itself but not reached its `rt_schedule` (`signal.c:80`, from an interrupt) leaves the
thread's error at `RT_EOK` when that `rt_schedule` finds it current again: `rt_mutex_take`
returns `RT_EOK` without the mutex. A thread that was handed the mutex and then handles a
signal goes back to `__again` (`ipc.c:720`), finds `value` 0, and waits for itself.
`rt_thread_kill` of a signal that is pending already searches the list from the start of a node, taken for
its `list` field (`signal.c:409`); `rt_signal_wait` does not end its loop at the
end of the list (272) and stores the address of a `list` field where a node is expected
(263); a second delivery to a ready thread overwrites `sig_ret` (107).

Further places where the code surely does not do what was intended are modelled as
they are and listed among the hazards: `rt_event_recv` waits also for events that are
set (`ipc.c:1139`), `rt_mq_create` leaves the free list empty (1868), `rt_mq_recv` loses
a free message each time (2215), the pool counts waiters that have timed out
(`mempool.c:391`), `plug_holes` assigns in its test of `lfree` (`mem.c:113`). `rt_mb_init`,
which leaves the senders' list uninitialised (1280), is not modelled.

## 6. Proofs

The theorems about the scheduler are for any set of threads, any number of priorities, any time
slice, any initial priorities and any bound `MaxLock`, under the named
assumptions `KernelAssumption` and `SchedulerAssumption`, which TLC evaluates
in every run, and for `CalmSpec`: any thread is resumed and deleted, with its timer running
or not, and the only steps left out are those in which that timer ends between two sections
of the call. For `Spec` the same theorems would be false, as the run
`SchedulerTimed` and the finding about it show.

### The inductive invariant

`QueuesConsistent` by itself is not inductive: nothing in it says that the
thread a call is about to insert is not linked already. `IInv` in
`SchedulerProofs` is the conjunction of

- `TypeOK`, `QueuesConsistent`;
- `WindowsOwn`: no two calls in progress work on the same thread, which is not
  the current one and whose timer runs at most where `TimerMayRun` says: in a resume or the
  part of a delete before `rt_timer_detach`;
- `WindowsResume`: the thread a resume works on is suspended, and in no list
  once it is unlinked;
- `WindowsDelete`: the thread a delete works on is in no list, and not itself
  in the middle of a resume or delete;
- `DeadUnlinked`: new, closed and freed threads are in no ready or wait list, and
  their timers are stopped;
- `Current`: the current thread is alive, or closed and on its way out;
- `Reaping`: the thread the idle thread is freeing is closed and in no list;
- `IdleReady`: the idle thread is in its ready list, so the bitmap is never empty;
- `NoThreadLost`.

### The argument

`ListLemmas` has the facts about sequences (removal of a thread, appending
one); `SchedulerProofs` begins with one lemma per function of `Kernel`: its type, that it keeps
`Consistent`, and its frame, that is which threads' states and lists it leaves alone. With them
the steps fall into three families, each a lemma:
*ordinary* steps, where no call in progress changes its target; *window* steps,
which begin, continue or end a resume or delete; and steps of *dying* threads
(exit, create, free, reap). `NextStep` combines them, and each theorem follows
by temporal logic:

- `SchedulerInvariant`, `TypeCorrect`, `QueuesStayConsistent`,
  `NoThreadIsLost`, `FreedThreadsUnused`;
- `HighestAlwaysRuns`: `IInv /\ HighestRuns` is inductive,
  since a step either leaves the ready lists alone, ends in `rt_schedule`,
  leaves a `pc` behind that is about to call it, or is `rt_exit_critical`;
- `CriticalSectionsHold`: with the invariant that the lock
  nest is what the current thread has open, and nobody else has anything open
  (`LockOwned`), and for `Ops` without `"find"`, whose violation is the first finding;
- `SchedulesByPriority` (`ImplementsFixedPriority`): every step is one of the abstract scheduler.
  `PolicyStep` says so in terms of the kernel data: no ready list changes, or one thread
  leaves them (`Dequeued`) or becomes the last of one (`Requeued`), all others in place; and the
  processor stays or goes, unlocked, to what `rt_schedule` finds. Each function of
  `Kernel` moves one thread at most (`MovesLists`, `PriorityMovesOne`, `ClockMovesOne`), and each
  section is one such function, so that no interrupt sees a
  queue in disorder; `MovesOneChange` and `RunsFirstDispatch` translate this into the
  abstract steps. The invariant is needed where a section inserts or
  closes a thread that an earlier section has unlinked: it is still in no ready list.

### The timers

For any set of timers and clients, any width of the tick and any times,
under `TimerAssumption`. The invariant `TimerInv` of `TimerProofs` is the conjunction of

- `VarsOK` and `Good(m)`: the types; the list is in the order of `due`, without
  repetition; for each linked timer `timeout_tick - tick` is `due` modulo
  `TickRange`, and the timer exists;
- `Calls`: the timer a client is starting is not linked, and the `timeout_tick`
  it has computed is still right, at most `MaxDelay` ticks old;
- `Separate`: no two clients work on one timer;
- `NotLate`: outside the clock interrupt no linked timer is later than
  `MaxDelay` lets a start make it.

Without `NotLate` and the bounds on `due` the comparisons modulo `TickRange` would
mean nothing. They give the two lemmas on which the rest stands: `LaterIs` (the
search of `rt_timer_start` compares `due`) and `ExpiredIs` (the loop of
`rt_timer_check` tests `due <= 0`). From these come the facts about insertion,
start, stop and one turn of the loop; each step of a client changes one timer
(`OneChanged`), so that it keeps `TimerInv` and is a step of `Alarms`. The theorems:

- `TimerInvariant`, `TimerTypeCorrect`, `ListStaysSorted`;
- `NoneIsForgotten`, `FirstStartedFirst`: action properties, from the invariant;
- `TimersImplementAlarms`: `Timer` refines `Alarms` under the mapping of `Service`;
- `LinkedTimersActive`, for `"restart" \notin TimerOps`, with the strengthening
  `FlagInv`: what `rt_timer_control` is about to store over the flag
  byte says active if the timer is linked.

### Threads that wait

`SemaphoreProofs`, `ObjectProofs` and `DeliveryProofs` are about a semaphore, an event, a mailbox, a message
queue or a memory pool together with the whole kernel, for any number of threads,
priorities, tokens, events, messages and blocks, and for any `Calls`. They assume
`Ops \cap Meddling = {}`: the kernel runs with the calls that start and end threads, put
them to sleep, change their priorities and lock the scheduler, but without `rt_thread_suspend`,
`rt_thread_resume` and `rt_thread_delete`, from threads and interrupts, whose target may be
a thread that waits for the object. `rt_thread_resume` of such a thread makes the call
return as if it had got something, and applications refrain from it (section 3); the
runs that check the same properties leave the same calls out.

The last part of `SchedulerProofs` carries the scheduler's invariant over to wait lists that are in use.
`IpcInv` is `IInv` and

- `CallersAlive`: a thread in a call of an IPC function is ready or suspended, and no
  suspend, resume or delete works on it;
- `WaitsUnlocked`: the thread that runs in a call that waits does not hold the scheduler
  locked;
- `RunnerReady`: outside the windows before `rt_schedule` the running thread is ready,
  or on its way to link itself in a list. (`HighestRuns` is stronger and does not
  hold here: the loop of `rt_ipc_list_resume_all` wakes threads with interrupts on and calls
  `rt_schedule` only at the end.)
- `ListedWait`: who is in a wait list is suspended and in a call that waits.

Each step of `Scheduler` `Moves`: it keeps the labels of calls, and takes out of
the wait lists at most one thread, whose timer expires and whose error is
`-RT_ETIMEOUT` (`NextMoves`). Then one lemma for each function of `Ipc`, among them
`InsertInOrderFacts` (the search of `RT_IPC_FLAG_PRIO`) and `DrainAllFacts` (the loop, by
induction over its turns), and one for each kind of section: `CallSection`,
`InterruptSection`, `BlockSection`, `SuspendSection`.

- `SemaphoreInvariant`: `SemInv`, which adds to `IpcInv` what the waiters, the granted tokens
  and the detaching thread have to do with each other. From it `SemaphoreTypes`,
  `NobodyWaitsForAToken`, `WaitListExact`, `TokensAreConserved`,
  `DetachLeavesNobody`, `NoTakeIsFree`, and with `"priority" \notin Ops` (a change of
  priority does not move a waiter, section 5) `WaitersStaySorted`.
- `ObjectsInvariant`: `ObjInv /\ EventInv`. `ObjInv` adds to `IpcInv` where a thread is in its call
  (`StepsInCalls`), that it is awake there but for the sender that `rt_mb_send_wait`
  suspends before linking it (`AwakeInCalls`), and `WaitersListed`. Every section wakes
  some threads of the lists (`Rouses`), leaves the call, goes on in it, or waits; with one
  lemma for each of these the actions of the four objects are short. From it
  `WaitersAreListed`.
- `EventInv` is `SendWakesAll`, relative to the waiters' requests and to those whom a
  later `rt_event_recv` linked although its events were set. The loop of `rt_event_send` is a
  function of the place in the list; `Given` says what it has done up to a place, and holds
  by induction over the places (`DeliveredGives`). From it `SendsWakeAll` and
  `EventsAreClearedOnce`.
- `MqInv`: the lists of a message queue and the hands of the threads are apart
  (`Apart`), the threads with a message in hand are those between two sections of their
  call, and while the queue is detached, or gone, all that wait will return with an
  error (`WaitersQuit`), so that `rt_mq_init` finds no message in anyone's hand. From it
  `MessagesAreNotShared`.
- `BlocksStayConserved` needs nothing of the kernel, and no hypothesis: `PoolInv`.
- `NoWakeupIsLost` (module `DeliveryProofs`): `HearInv`, for `Calls` without `"race"`, that
  is, if nobody else uses a mailbox while a sender that waited goes through the part of
  `rt_mb_send_wait` that runs with interrupts on (the finding of run `MailboxRace` is what
  happens otherwise). The property compares a number of things (mails, free slots,
  messages, free blocks) with the number of threads woken for them, so the proof
  counts: a step of thread `t` that wakes the threads `U` leaves the set of those that were
  woken as it was but for `t` and `U` (`Stirs`, `StirsRoused`), and `CountMore`, `CountLess` and
  `GainsEnough` say when the number of things cannot have got ahead. That is inductive only with

  - `ListedFresh`: the threads in the lists have no error yet, so that whoever is woken by a
    send or a receive counts, and a timeout, which sets one, wakes nobody who would;
  - `WaitersQuit` and `NoneLeft`: whoever still waits when the object is detached returns with an
    error, and an object that is gone has no waiters, so that its next life starts with nobody;
  - for pools `PoolAlone` and `PoolCounts`: the count that `rt_mp_free` tests is at least the
    number of threads in the list. A timeout takes a thread out of the list and leaves the
    count, so that equality does not hold;
  - for mailboxes `LinkingSleeps`, `MailWords` and `MailExposed`: a waiting receiver has no mail in
    its hand and a waiting sender has one; at most one thread is between the statements of
    `rt_mb_send_wait`, and what it tested about the number of mails still holds.
- `QueueImplementsChannel`: the refinement maps the channel's messages to the contents of those
  in the list. It needs `MqInv`, by which a message that a thread copies is in no
  list, so that the copy leaves the channel as it is, and `Contents`: between the copy
  of `rt_mq_send` and its second section the message in hand has the contents that were
  to be sent. The copy of `rt_mq_recv` cannot disturb the channel either, which delivers when
  the message is taken out of the list.
- `MailboxImplementsChannel`, for `Calls` without `"race"` like `NoWakeupIsLost` (the run
  `MailboxRace` shows what happens otherwise): `HearInv` and `Ring`, that `in_offset` is the slot
  behind the last word and, between the statements of `rt_mb_send_wait` that write a word and
  count it, one further, the sender's word being in the slot before it. `SlotFacts`,
  `WordsFacts`, `WordsWritten` and `WordsTaken` count around a ring of any size; a word written
  and counted in one section is a `Send` of the channel, one written and counted in two is a `Send`
  where it is counted.

### The heaps

`HeapProofs` is about any memory, alignment, size of a header, `MinSize`, sizes and number of
clients, under `HeapAssumption`, `MemAssumption` and `MemHeapAssumption`, which say what
`rt_system_heap_init` and `rt_memheap_init` test or round, and that the small heap has room for one
smallest block. `HeapsInv` is `SmallInv` or
`RingInv`, by the kind of heap:

- `Chain`: the headers are blocks that follow each other without gap or overlap, up to the
  last one, which is used; each, but for the first and for the end of the small heap, which
  `rt_malloc` does not link, is linked back. `Ring`: the last block's `next` is the first and
  the first's `prev` the last.
- `Owned`: the used blocks are those that clients have, and each holds the size asked for.
- `NoPair`: no free block is behind a free one.
- `LfreeValid`, and `used_mem` as a sum, for `mem.c`; `Indexed` and `available_size` as a sum
  for `memheap.c`.
- `CallsKept`: the blocks of a reallocation in progress are allocated, and no other call has
  them. `RingCalls`: what `rt_memheap_realloc` has read before it takes the lock is true when
  it has it, and the size it is to grow or shrink to lies on the right side of it, far enough for a
  remainder to be a block.

Every operation is made of the same few changes of the headers: marking a block, splitting one
(`CutFacts`), merging one with the next (`MergedFacts`), each with its effect on pairs of free blocks
(`MergeFree`) and on the sum of the free sizes (`RingFreed`, `RingTaken`, `RingMerged`, `RingCut`).
Between the changes of one operation there may be a pair: the `X` of `NoPair` is where. The
operations' lemmas (`PlugForwardFacts`, `FreedFacts`, `AllocatedFacts`, `ReturnedFacts`, `TakenFacts`,
`GrowFacts`, `ShrinkFacts`) put them together. The sums are folds over sets, about which the
library has no theorem that the provers can use: `TotalSums` relates `Total` to a function on
subsets, and by `SumsAny` of `ListLemmas` any element may be the last. The searches of
`rt_malloc` are functions that recur along the blocks: `WalkExists` and `WalkEnds`, by induction
on the distance to the end, say that they are defined and where they stop.

- `HeapsInvariant`; from it `NoPairIsFree`, `IndexIsExact`, and `MemoryIsDivided`. The last
  supposes that a memory heap has room for `MinSize` bytes: in a smaller one, which
  `rt_memheap_init` accepts, the only block is smaller than `HeapDivided` says. The invariant
  holds there too, with 1 for the least size of a block (`Least`). For the small heap this is part
  of `MemAssumption`.
- `HeapsAllocate`: each step changes the allocations by at most one (`WantStep`), and those
  of a chain of blocks are `Apart`, so that every new or resized region overlaps no other.

### Signals

`SignalProofs` is about any number of threads, signals, nodes and frames, and any mutex.

- `NodesAreConserved`, for `"create" \notin Ops`: `rt_thread_init` of an object whose last life was
  deleted between two sections of `rt_thread_kill` forgets the node that this life was about to
  link, and the node is lost. `NodesInv` says that the nodes free, in lists, in hand and
  being handled are `SigInfoMax` together; that who is between sections of a call is there
  by its `pc` (`Labels`), since only those have a node in hand; and that each stack of frames
  has the size that `sig_ret` tells, and a handler only in a frame pushed for one (`FramesOK`).
  The number of handled nodes is a sum over frames of all threads, that of linked ones a
  sum over lists: `HandlingChange` and `ListsChange` say how they follow the one frame or
  list that a step changes, from the lemmas on sums (`SumsChange`), and `Balance` is what each
  section owes.
- `WaitersAreWoken`, for `Ops` without `"create"` and `"suspend"`: another thread may suspend one
  that a signal has just woken in `rt_signal_wait`, and then it sleeps with its signal pending.
  `WaitsInv` says of every thread in `rt_signal_wait` that it is in the part of
  its call with the wait (so that it does not change its mask meanwhile), and, if
  suspended, that it has heard nothing or some `rt_thread_kill` has yet to look at it. A thread
  can only begin to sleep unheard, which is what the test before its suspension is for; that no
  other step puts it back to sleep is a fact about each function of the kernel: nobody but
  those it is told to suspend is suspended after it and was not before (`Keeps`).
- `MutexExcludes` (`MutualExclusion`), for `NoMeddling`: `Ops` without the calls that suspend, resume or
  delete another thread in the middle of its take, or set it up anew. `MutexInv` has two parts.
  `OwnerTypes` holds even after a failed assertion: the owner, `value` and `hold` go
  together, and whoever believes to hold the mutex is its owner. `TakesInv`
  adds, while nothing has failed, what a thread in `rt_mutex_take` will find
  when it goes on (`Answered`): it is suspended in the list with no error and is not the owner; or it
  is awake with an error and is not the owner; or it is awake without one, is the owner, and `hold`
  is 1. A release moves the first waiter from the first case to the third, a timeout or
  a detach to the second. That no other step disturbs this is said by `Changes`, the frame of
  every section: which threads it suspends, wakes or moves, and that everyone else keeps
  state, timer and list. Threads that a signal interrupts leave the claim (`astray`), but stay in the invariant
  of the lists (`ListsTake`, `CallsInv`), which the others rest on: `rt_thread_kill` works on
  nobody else's target (`TargetsSafe`), and a thread back at `__again` suspends itself outside
  of any list (`RunnerLinks`).
- `OwnerIsUrgent` (`OwnerInherits`) and `PriorityIsRestored` (`PriorityRestored`), for `NoMeddling`, for
  `Ops` without `"priority"` and for `SignalsOrDetach`. `rt_thread_control` changes the priority of a
  waiter or of an owner and tells no mutex, so with `"priority"` both are false of the code.
  `SignalsOrDetach` says that every member of `Works` that has the mutex has either no signals or
  no detach (`"drain1"` in its `never`), as `MutexSignals` has it. A thread that a signal has interrupted
  suspends itself at `__again` and links itself in a later section; a detach between the two
  empties the list, gives the owner its own priority and does not see that thread, which then waits
  for a mutex that nobody owns. `CalmInv` carries the alternative through the steps:
  without signals nobody comes to that window (`Unsignalled`), with them the mutex
  is not detached (`Undetached`).

  `PrioInv` is what makes the two invariants inductive:

  | conjunct | says |
  |---|---|
  | `OwnerPrio` | `original_priority` is the owner's initial priority, the owner is started (so `rt_thread_startup` does not reset its priority), and has its own priority while a detach goes on |
  | `Ordered` | the list of a mutex of kind PRIO is sorted but for the owner (`SortedBut`), who may be in it: one that is handed the mutex and then handles a signal waits for itself (section 5) |
  | `LinkersInherit` | the owner has inherited also from a thread that is suspended but not linked yet |
  | `NobodyWaits` | the list is empty when nobody owns the mutex |

  The sorted list is what a release needs: the new owner is the first waiter, at its own
  priority, and must be as urgent as all the others at once (`HandOverInherits`). For it,
  `WithoutSorted` and `InsertSorted` of `SchedulerProofs` say that `rt_list_remove` and the insertion by
  priority keep the order, and `SortedBoosted` that the inheritance does, since nobody's priority changes but the
  owner's. `PriorityRestored` rests on there being only one mutex: the only
  raised priority is the owner's. `Spares` and `KernelSpares` say of each
  function of the kernel that it leaves priorities alone, and sets no `EINTR`; only a
  start sets a priority, the initial one of a thread not yet started.

### Induction

Induction over data is done on sets of numbers (`SetInduction`), on finite sets
(`SumsExist`) and, for functions defined by
recursion over `0 .. n`, by `IterateExists` and `FiniteRecursion` of `ListLemmas`, which say
that such a function exists and has its values where every turn leaves them.

### Checked by TLC only

`RoundRobin` and `InterruptEnds`, which are liveness.

## 7. Not modelled

- Of signals: `rt_signal_install` and `rt_thread_alloc_sig` (handlers are installed before), and
  `rt_thread_free_sig`, which the idle thread calls for a dead one. What the port does to
  switch to a frame on another thread's stack is not in the repository; the model has its effect.
- Soft timers are not compiled in (`RT_USING_TIMER_SOFT` is not set).
- `rt_mb_init` (a mailbox of `rt_mb_create` is modelled; the other has a list that is not
  one). `rt_mp_delete` frees `&start_address`, the address of the field: what the heap
  does with it is not modelled, only the pool's part is.
- `rt_memheap_detach`, which removes the heap from the registry, and
  `RT_USING_MEMHEAP_AS_HEAP`, which is not set.
- Devices: reference counts and flags around calls of drivers, which are not in the repository.
- Services: string, formatting and memory functions keep no state.
- The object registry: sequential list insertion and removal with interrupts off.
- Start-up: its result is the initial state of `Scheduler`; the table of init functions is
  made by the linker.
