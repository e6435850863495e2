# Zephyr kernel: TLA+ models of threads, timeouts and the objects built on them

This directory holds TLA+ models of core parts of the Zephyr kernel in this
repository, the TLC configurations that check them on small instances, and
proofs checked by TLAPS. `PROJECT.json` ties every definition to the source
lines it models.

## The system

Zephyr is a real-time operating system. Its kernel (`kernel/`) keeps all its
state in global structures protected by spinlocks, each critical section short,
and runs on one or several CPUs with interrupts nesting on top of threads. The
logic that is hard to test is in the windows between two critical sections:
a timeout that has been popped from the queue but whose handler has not yet
taken its client's lock, a callback around which a lock is dropped, a thread
that has been taken off a wait queue but has not run yet.

### Inventory

| Component | State | Operations | Hard behaviour | What makes it correct |
|---|---|---|---|---|
| Timeout queue (`timeout.c`) | queue of expiry ticks, `curr_tick`, `announce_remaining`, `announcing_cpu`, `inflight_timeout` with its superseded bit | add, try_abort, announce, tick_get, remaining | the firing loop drops the lock around every handler; other CPUs add, abort, read the clock and announce meanwhile | nothing fires early; ticks are counted once; the driver is always programmed in time; an abort's answer is true |
| Timer driver core (`system_timer_generic.h`) | last announced tick, last elapsed value, comparators | elapsed, set_timeout, ISR | deadlines are anchored at a value another CPU may change | one announcement within a tick of the deadline |
| k_timer (`timer.c`) | period, status, callbacks, wait queue | start, stop, status_get, status_sync, cleanup, expiration handler | stop, start and cleanup racing an expiration in flight; callbacks outside the lock | stale expiries are dropped; waiters are woken; cleanup leaves nobody using the timer |
| k_mutex (`mutex.c`) | owner, lock count, wait queue, held list, `orig_prio`, `mutex_pended_on` | lock (forever, timed, no wait), unlock | chains of owners, waiters timing out, hand-off, deadlock detection | mutual exclusion; no inversion; no boost left over |
| Scheduler (`sched.c`, `ksched.h`, `run_q.h`) | run queues, wait queues, thread states, per-CPU current | pend, unpend, ready, suspend, abort, join, priority change, IPI | timeout against wake, abort of a running thread on another CPU | one wake per wait; a thread runs on one CPU; the best ready threads run |
| Work queues (`work.c`) | flags per item and queue, pending list, cancellers, flushers | submit, flush, cancel, schedule, reschedule, drain, plug, stop | handler racing cancel and delay, several cancellers | no re-entrant handler; a synchronous cancel or flush returns with the item done |
| Semaphore, condition variable, event (`sem.c`, `condvar.c`, `events.c`) | counts, masks, wait queues | give, take, signal, broadcast, post, wait | wake against timeout, limits | no lost wake |
| Message queue, queue, pipe, stack, mailbox | ring buffers, wait queues | put, get, purge, close | hand-over to a pended thread, timeouts, partial transfer | order and no loss |
| Poll (`poll.c`) | pollers on objects | poll, signal, work poll | event between registration and pend | no lost event |
| Memory slab, heap (`mem_slab.c`, `kheap.c`) | free list, wait queue | alloc, free | hand-over of a freed block | no block twice |
| Threads, sleep, time slices (`thread.c`, `sleep.c`, `timeslicing.c`) | thread objects, slice timeouts | create, sleep, wakeup | wakeup against expiry | at least the time asked |
| Buffers (`lib/os/mpsc_pbuf.c`, `spsc_pbuf.c`) | ring indices | alloc, commit, claim, free | producers and consumer in parallel, overwrite | order, no torn packet |
| MMU and userspace, architectures, drivers, subsystems | | | | not modelled, see below |

Interaction: the timer interrupt calls `sys_clock_announce()`, which runs the
handlers of due timeouts: k_timer's expiration handler, delayable work, and the
timeout of every pended thread. Each handler takes its client's lock, and each
client calls `z_add_timeout()` and `z_try_abort_timeout()` under that lock, so
the timeout code is the hub all blocking operations depend on. Mutexes, and
everything built on wait queues, use thread timeouts in the same way.

## Modules

| Module | Models | State and actions |
|---|---|---|
| `TimeoutDispatch` | what `timeout.c` promises its clients | the set of linked timeouts, the announcing CPU, the timeout in flight and its superseded bit; `AddTimeout`, `TryAbort` (with `AbortResult` for 0, `-EAGAIN`, `-EINVAL`), `Announce`, `HandlerReturn` |
| `Timeout` | `timeout.c` over `system_timer_generic.h` | adds the hardware counter, the driver's `last_tick`, `last_elapsed` and comparators, `curr_tick`, `announce_remaining` and expiry ticks; one action per stretch under `timeout_lock` |
| `KTimer` | `timer.c` | built on `TimeoutDispatch`; the handler is split where `timer_lock` is dropped for `expiry_fn`, `k_timer_stop()` where it is dropped for `stop_fn`, `k_timer_status_sync()` at the pend |
| `Sched` | `sched.c`, `ksched.h`, `sleep.c` and the halting calls of `thread.c` | built on `TimeoutDispatch`; flags per thread, wait queues, the thread on each CPU, the call a thread is in; pend, wake, `z_thread_timeout()`, `next_up()`, sleep, wakeup, suspend, resume, abort, join |
| `Sem` | `sem.c` | built on `Sched`; the count, and the number of units given and not yet taken or reset as a history variable; give, take, reset and the return of a take |
| `BoundedQueue` | what a message queue promises | a sequence of at most `Max` messages, the clients that wait, the answer each of them gets |
| `MsgQ` | `msg_q.c` | built on `Sched`; the ring with both pointers and the count, `swap_data` of the threads in a call; put, put_front, get, peek_at, purge and the returns of waiting calls |
| `Mutex` | `mutex.c` with the part of `sched.c` it relies on | owner, count, priorities, held lists, `mutex_pended_on`, and the three states of a thread's timeout (armed, popped, gone) |
| `Condvar` | `condvar.c` | composed with `Mutex`; the step of each thread in `k_condvar_wait()` and the holder of `condvar_lock`; wait, signal, broadcast |
| `Work` | `work.c` | built on `TimeoutDispatch`; item and queue flags, pending lists that hold items and flushers, `pending_cancels`; the `*_locked()` functions are operators on a record of that state, the API functions and the steps of `work_queue_main()` are actions |
| `TimeoutProofs`, `KTimerProofs`, `SchedProofs`, `SemProofs`, `MsgQProofs`, `MutexProofs`, `CondvarProofs`, `WorkProofs` | | theorems and proofs |
| `MCSem`, `MCMsgQ`, `MCMutex`, `MCCondvar`, `MCWork` | | instances for TLC: symmetry sets, priorities, who calls what |

How they fit together:

```
TimeoutDispatch <--refines-- Timeout
   ^   ^   ^
   |   |   +-- Sched <-- Sem
   |   |         ^------ MsgQ --refines--> BoundedQueue
   |   +-- Work
   +------ KTimer                 Mutex <-- Condvar
```

`KTimer`, `Work` and `Sched` do not see the clock: for them the announce loop
may pop a linked timeout at any moment, which includes every timing the real
clock can produce. That this is sound is `ImplementsDispatch`: `Timeout` refines
`TimeoutDispatch`, with `active` mapped to the timeouts that have an expiry
tick. It is checked by TLC and proved.

Granularity: one action is one hold of the lock that protects the state. Code
that drops the lock part way is split there and nowhere else; the splits are
the firing loop around every handler, `expiry_fn` and `stop_fn`, the retry on
`-EAGAIN` in `k_timer_cleanup()`, `unschedule_locked()` and `halt_thread()`,
the work handlers, the release of the mutex in `k_condvar_wait()` and every
pend. Some definitions are preceded by a sibling marked "Mutant", the same
definition with a plausible mistake; it is not used by the model. Its purpose
is to show that the property named with it in `PROJECT.json` fails when the
code is wrong in that way.

Abstractions worth knowing:

- `Timeout` keeps the queue as expiry ticks. When two timeouts are due at the
  same tick the backends differ on which is "first", so the model leaves that
  open. Cycle-level rounding in the driver is left out; time is whole ticks.
- In `KTimer`, the period is only one-shot or periodic, and the bound
  `MaxStatus` stops the clock while that many expiries are unread. The timer
  observers and user data are left out.
- `Sched` has no priorities: a CPU that switches away from a thread is idle for
  a moment and then picks any thread of the run queue, and any thread may be
  preempted at any time. This includes what priorities, time slices and IPIs
  would decide. `Lifecycle` and `Waits` say which calls are made. All threads
  exist from the start; a dead one is not created again. The spinning form of a
  halt, for a caller that is an ISR, is left out.
- In `MsgQ`, `k_msgq_purge()` is one step: the code drops no lock a sender or
  receiver could take, and the timeouts that may fire between its wakes commute
  with them. `CONFIG_POLL` is off. The VIEW of its instance leaves out the
  history variables of `Sched`, which decide no step.
- In `Mutex`, a wait queue is the set of threads pended on a mutex, ordered by
  priority with ties left open. `K_NO_WAIT` on a taken mutex changes nothing and
  is no step. `MaxCount` bounds recursive locking.
- In `Condvar`, threads keep the timeouts of `Mutex`. There is one condition
  variable, which any of the mutexes may be used with.
- In `Work`, a plain item is one that is only ever scheduled with no delay.
  `Ops` says which caller makes which calls; only threads make the ones that
  block. Nobody is kept from calling, neither while `unschedule_locked()` has
  dropped the lock nor on the CPU that runs the timeout handler (`Isr`). The
  history variable `raced` holds the items that were scheduled again in such a
  window, until they are idle: findings 1 and 3 are about them, and the
  properties of delayed work speak of the others. A schedule with `K_FOREVER`
  is `DELAYED` without a timeout (`forever`).
- In `KTimer`, `k_timer_cleanup()` is refused only while a thread is pended, as
  in the code; that no call begins on a timer that has been cleaned up is left
  to the callers.

## Runs

| Run | Instance | What it shows |
|---|---|---|
| `timeout_smp` | 2 CPUs, 2 timeouts, durations 0 and 1, absolute timeouts to tick 3, 5 ticks, waits capped at 2 ticks, fairness | The tick counts stay consistent when announces fold into each other, no linked timeout is behind `curr_tick`, nothing fires early, and the whole implements `TimeoutDispatch`; one comparator is always set in time for the first timeout, up to what another CPU read during the last announce, and every timeout fires or is aborted. |
| `ktimer_smp` | 2 CPUs, 1 thread, 3 starts, fairness | An overtaken expiration is never counted; cleanup waits; a synchronising thread is woken for a reason, and is woken unless a stop met the expiration in flight. |
| `sem_sched` | 3 threads, 2 CPUs, a semaphore of limit 1, timed waits, every call of `Lifecycle` | No thread runs twice or is forgotten; a timed wait has its timeout; a late timeout does not end a later wait; an abort returns only with the timeout of the dead thread quiet and its handler waited for, and its waiters are released; every unit given is in the count or granted to one call. |
| `msgq` | 3 threads, 2 CPUs, a ring of 2, timed waits, abort | The code implements `BoundedQueue`; the one wait queue never mixes senders and receivers; the ring survives every wrap, and peek finds the message it is asked for. |
| `mutex_timed` | 3 threads of distinct priority, 3 mutexes, recursion, timed and endless waits | Ownership is consistent, no inversion along any chain, no boost left over after timeouts and hand-overs in any order. |
| `condvar` | 3 threads, 3 mutexes, one condition variable, endless waits, a ceiling that cuts the best priority, deadlock detection | No signal is lost between the release of the mutex and the wait; a wait returns with the mutex locked as deep as before; inherited priorities are exact, and every lock that closes a cycle is caught. |
| `work_plain` | 2 items, 2 queues, 2 threads and the handlers, fairness | No re-entered handler, synchronous calls return with what they promise, and return; a queue thread does not sleep on a stop. |
| `work_delay` | 1 delayable item, 2 queues, 2 CPUs, 2 threads, the handlers and an interrupt on the announcing CPU; delays none, some and `K_FOREVER` | With every call allowed at any time, also in the lock drop of `unschedule_locked()`: every schedule that was not overtaken has a timeout or a handler on its way, and no canceller waits for nobody. |
| `work_retry_race` | 1 delayable item, 2 CPUs, one thread that cancels, one that schedules | Violation: finding 1. |
| `work_two_cancellers` | 1 item, 2 threads | Violation: finding 2. |
| `work_nested_reschedule` | 1 delayable item, 1 CPU, an interrupt | Violation: finding 3. |
| `sched_suspend_timeout` | as `sem_sched` | Violation: finding 4. |

Bounds. The interesting cases of the timeout loop need two CPUs, two timeouts
and an announce of several ticks, which five ticks give: one CPU can be in a
handler with a residue while the other adds, aborts, reads and announces. Timeouts
are asked for up to tick 3, a longest wait of 2 ticks and a comparator reach of
3 are both met on the way there, and the two ticks after the last expiry leave
room for an alarm that is late by what the other CPU has read. The timer
has one timeout; three starts let a restart overtake an expiration twice. Three
threads on two CPUs are what the halting calls need: one that halts, one that is
halted while it runs elsewhere, and one that joins or waits in the run queue; a
limit of 1 makes a give meet a full semaphore after the first. A ring of two
slots wraps in both directions with one slot in between; of three threads two
can wait while the third puts, gets or purges. A chain of the mutex walk with a
hop in the middle, and a cycle with a timed member, need three threads. Work
needs two items for a flusher to have something behind it and two queues for
re-entrancy. The documentation of k_timer asks that only one thread at a time
synchronises with a timer, so the instance has one. The proofs below remove the
bounds for all but the liveness properties.

Deadlock checking is off throughout: the bounded clocks stop, a bounded number
of starts is used up, threads may all be dead or wait for each other, and nobody
has to call a kernel API again.

Fairness. `Timeout`: the counter runs, an interrupt that is due is taken by some
CPU, and a handler returns; `EventuallyFires` excepts behaviours in which
handlers link zero-tick timeouts without end. `KTimer`: the clock pops a running timer, handlers and
callbacks return, a woken thread runs. `Work`: queue threads run and their
handlers return. The code relies on the same: interrupts are not masked for
ever, handlers are functions that return, and a thread that is ready runs
eventually. Callers of an API are never obliged to call. The other modules have
safety properties only: that a thread waiting in them runs again depends on
what other threads call.

## Proofs

The theorems hold for every value of the constants that satisfies the
assumptions named in the modules (`DispatchAssumption`, `TimeoutAssumption`,
`KTimerAssumption`, `SchedAssumption`, `SemAssumption`, `MsgQAssumption`,
`MutexAssumption`, `WorkAssumption`); these only say that the sets are disjoint
from each other and from NULL, that ticks, sizes and bounds are numbers in
range, and which calls a kind of caller may make at all. TLC evaluates them in
every run.

- `TimeoutTyped`, `TimeoutInvariants`, `TimeoutNotOverdue`,
  `TimeoutNeverEarly`, `TimeoutRefinesDispatch`. The inductive invariant is `TypeOK`,
  `TickConsistency`, `NotOverdue`, `PlacedAfter` and `IdleLoop`.
  `TickConsistency` makes `elapsed()` exact on a CPU that is not announcing;
  from that a new timeout is placed at or after the time asked for
  (`PlacedAfter`). `NotOverdue` is what keeps the distance to the next timeout
  non-negative when the loop advances, and `IdleLoop` is needed for the
  refinement: a dispatch begins with the superseded bit clear.
- `TimeoutAlarmCovers`, for any number of CPUs. The invariant is the one above
  with `AlarmCovers`. A CPU that reprograms outside an announce has just read
  the clock, so its own comparator is on time (`ReadAndReprogramCovers`); an add
  that is not the first, an abort and a reading leave the comparator that was
  early enough as it is; the end of an announce programs its CPU late by what
  the driver last reported to another one, and `late` records exactly that
  (`RunLoopCovers`). `TimeoutAlarmExact` shows that on one CPU `late` is always
  0: nobody reads the clock during an announce (`ElapsedIdle`).
- `KTimerTyped`, `KTimerStaleNeverFires`, `KTimerCleanupWaits`,
  `KTimerSyncSawEvent`.
  `StaleMarked` says that a dispatch that has been overtaken, but has not yet
  taken `timer_lock`, is visible as such: the timer is linked again or the
  superseded bit is set. That is the test the handler makes. `FreedQuiet` and
  `RearmedLinked` carry it over to cleanup: a freed timer is not linked, so it
  cannot be popped again, and a handler still in flight bails. `WakeJustified`
  says that while the lock is dropped for a callback every waiter has either
  seen its cause or begun to wait during the callback.
- `ThreadsRunOnce`, `ThreadsNotForgotten`, `TimedWaitsEnd`,
  `AbortLeavesNoTimeout`, `DeadReleasesWaiters`, `StaleTimeoutHarmless`. The
  invariant is stated thread by thread (`ThreadInv`), and an action is proved by
  showing which threads it leaves alone (`UntouchedKeepsInv`), which it wakes
  (`WokenKeepsInv`) and what becomes of the one that is switched away
  (`SwitchKeepsInv`). The heart is `Armed`: as long as the timeout of a thread
  is linked, or in flight and not superseded, the thread is asleep, pended or
  dead, which is why `z_thread_timeout()` never makes a running thread ready.
  `AbortLeavesNoTimeout` also needs that only a halt that was not answered with
  `-EAGAIN` completes (`HaltWaitsForHandler`).
  `SchedProofs` proves this once; `SemProofs` and `MsgQProofs` reuse it for
  their specifications.
- `SemTyped`, `SemLosesNoGive`, `SemUnitsSafe`. On top of `SchedInv`, `TakeWait` ties the
  state of a take to the wait queue; `UnitsConserved` counts the units of the
  threads that were granted one and have not returned, and uses the cardinality
  theorems of finite sets.
- `RingSound`, `RingWaitersMatch`, `RingPeekSound`, `MsgQRefinesQueue`. The
  invariant places the pointers (`write_ptr` is `read_ptr` plus the count,
  modulo the size) for a ring of any size. From it every wrap is shown to find
  the slot that the abstract queue's operation appends, takes or looks at, and
  every action to be an action of `BoundedQueue` or a stutter. `Refuse` of
  `BoundedQueue` also covers a thread that is halted as it begins to wait.
- `MutexTyped`, `MutexOwnership`, `MutexLeaksNoBoost`. Ownership is inductive with the types
  of the variables it speaks of. The step that matters is the hand-over, which
  takes the new owner out of the wait queue in the same hold of the lock.
  `NoLeakedBoost` holds for any hop limit: the chain walk is a recursive
  function, and instead of an induction over it the proof takes the least
  number of hops at which a fact about it would fail, which exists because the
  naturals are well founded. `PrioInv` is that property, the ownership
  invariant and the types it needs.
- `MutexNoInversion`, `CondvarExactInheritance`, `CondvarDeadlockCaught` are
  about whole chains of owners, and assume that there are no more threads than
  `MUTEX_CHAIN_WALK_MAX_HOPS`: a longer chain is what the limit gives up on.
  Under that assumption a walk that neither ends at a thread that waits for
  nothing nor stops early meets a thread twice: the owners it has passed are
  distinct as long as it has not, and the cardinality of a finite set bounds
  them (`ChainCloses`). So the boost of a waiter reaches every owner that is
  less urgent, and the deadlock check comes back to the thread it began with
  when there is a circle. `UrgentInv` is `NoInversion` with the ownership
  invariant and holds with timeouts; `AllJustified` says that every boosted
  thread owes its priority, up to the ceiling, to a waiter it blocks. That one, and the circles, need that
  mutexes are waited for without a timeout (`UntimedInv`): a wait that times out
  leaves its boost until the owner next unlocks, and the check looks past
  circles that a timeout will open. Both are proved for mutexes with condition
  variables on top, whose own waits may time out.
- `CondvarLosesNoSignal`, `CondvarReturnsLocked`, `CondvarLeaksNoBoost`.
  `CondInv` extends the invariant of `Mutex` with what a thread in each step of
  `k_condvar_wait()` has let go of or got back, and with `SpinlockHeld`: from
  the release of the mutex until the pend the thread holds `condvar_lock`, so a
  signal cannot look at the wait queue in between.
- `WorkFlagsMatch`, `WorkCancelSyncIdle`, `WorkFlushWaits`. `WInv` says that
  flags, lists and queue threads agree (`Coherent`), that an item being
  cancelled is not queued, and what a thread waiting in a cancel or a flush is
  registered for. It holds whatever calls are made by whom. `OwedInv` adds, for
  every thread in `k_work_flush()`, that the submission it waits for is ahead of
  its flusher: the item comes before it in the list, or it runs and the flusher
  is in the list of the same queue. `AppendOrder`, `InsertOrder`, `InsertBehind`,
  `RemoveOrder` and `TailOrder` show that the list operations keep that order.
- `WorkDelayedArmed`, `WorkNoStrandedCanceller`, for any callers and any calls
  at any time. `ArmInv` says, for every item that is not in `raced`, who owns
  the `DELAYED` flag: a linked timeout, the handler in flight or `K_FOREVER`;
  and that a caller between two tries of `unschedule_locked()` has taken it
  away (`Orderly`). An item joins `raced` when it is scheduled again in that
  window or unscheduled on the CPU of its own handler, which are the steps
  findings 1 and 3 begin with, and leaves it when it is idle and nobody is on
  the way to it any more. `z_add_timeout()` meets a linked timeout only while
  some item is in `raced`. `StrandInv` builds on it: an item that is not in
  `raced` is `CANCELING` only while it runs, and a thread that waits for the
  cancellation is in the list. It assumes only that one thread cancels
  synchronously; finding 2 is what happens with two.
- `WorkAwakeForStop`. `StopInv` ties a stop request to the call of the one
  thread that drains and stops (`OnlyDrainer`): while the request stands, that
  thread is in `k_work_queue_stop()` and the queue does not drain, so the queue
  thread that finds nothing to do exits. An observation below says what happens
  when one thread stops while another drains.

Only model-checked: the liveness properties `EventuallyFires`, `WaiterServed`
and `SyncReturns`. They rest on fairness and so on `ENABLED`, which this prover
does not support. Every invariant and action property of the passing runs is a
theorem; the ones proved under an assumption are checked by TLC on instances
that satisfy it.

## Findings

1. `work_retry_race`: `unschedule_locked()` clears `DELAYED` once and then drops
   the lock until the handler in flight is gone. Another thread that schedules
   the item in that window sets the flag again and links a new timeout. The
   cancel then aborts the new timeout, leaves `DELAYED` set and marks the idle
   item `CANCELING`, so that the item accepts no more work and a single
   `k_work_cancel_delayable_sync()` waits for ever; or the old handler takes the
   new flag for its own and submits the item before its time, with the new
   timeout left in the queue. The documentation says that the API is safe from
   several threads without an external lock. `DelayedArmed` and
   `NoStrandedCanceller` except the items this happened to, until they are idle
   again.
2. `work_two_cancellers`: when a cancellation completes, one waiting thread is
   released and the others are not.
3. `work_nested_reschedule`: on one CPU, an interrupt that reschedules an item
   whose timeout has been popped hands its `DELAYED` flag to the old handler,
   which submits the item early and leaves the new timeout linked; the next
   reschedule adds a timeout that is already in the queue.
4. `sched_suspend_timeout`: `k_thread_suspend()` of a thread that runs on
   another CPU aborts the thread's timeout once that CPU has let go of it. If
   the thread began a timed wait in the meantime, the wait has no timeout any
   more, although the documentation says that suspension does not impact one.
   `TimedWaitArmed` excepts threads that this happened to.

Observations that the passing properties exclude by their preconditions:

- The end of the announce (`timeout.c:406`) asks the driver for a wait counted
  from the announce, but the driver counts it from the last value
  `sys_clock_elapsed()` returned, on whatever CPU. A call of `elapsed()` on a
  second CPU during the handlers makes the comparator late by that value.
  `AlarmCovers` allows exactly this much (`late`) and no more.
- A handler that adds a zero-tick timeout at the tick edge is due again in the
  same loop; the announce ends only when the handlers let it.
- `k_timer_stop()` that finds the expiration in flight returns early
  (`timer.c:293`), the handler bails because of it, and neither wakes the thread
  in `k_timer_status_sync()`. `WaiterServed` excepts this case (`stopLost`).
- `k_timer_cleanup()` waits only while the abort returns `-EAGAIN`
  (`timer.c:199`). A timer that is linked again while its handler runs, as every
  periodic one is, gives 0, and cleanup returns with the handler in flight.
  The documentation of `k_timer_cleanup()` (`kernel.h:2168`) promises the wait
  without exception. `CleanupWaits` excepts it.
- `k_timer_status_sync()` between the pop of a one-shot timer and its handler
  finds the timer neither running nor expired and returns 0 at once.
- `SyncSawEvent` excepts threads that began to wait while `timer_lock` was
  dropped for a callback: they are woken by the end of an expiry or stop that
  came before their wait.
- A thread that suspends itself clears the abort request another CPU has just
  flagged (`sched.c:53`); the abort is lost and its caller waits.
- A thread that aborts itself, or one that is preempted, while `halt_thread()`
  has dropped the lock to wait out a timeout handler, leaves the joiners of the
  dead thread waiting; `HaltWaitersReleased` excepts that window.
- An abort of a thread that has begun a new timed wait, while the handler of an
  earlier one is still in flight, removes the new timeout and does not wait. The
  handler left over was superseded or has finished with the thread, so it does
  not act on it; `AbortedQuiet` excepts only this.
- The deadlock check of `mutex.c` takes a timeout that is popped, but whose
  handler has not got the scheduler lock yet, for an endless wait, and may
  assert a deadlock that is about to resolve itself.
- `k_condvar_wait()` with a mutex that is locked recursively gives back one
  level only: the mutex stays locked for the whole wait.
- When one thread stops a queue that another is draining, `AwakeForStop` fails:
  the branch of `work_queue_main()` that ends a drain goes to sleep without
  looking at the stop request. The documentation asks for a queue that has been
  drained and plugged before the stop; in `work_plain` one thread does both.
- A `k_work_queue_drain()` with `plug` on a queue that has been stopped waits
  for ever; `SyncReturns` speaks of queues that have not.

## Not modelled

- The five queue backends: sequential containers under the timeout lock, of
  which the models use only the contract; the driver's conversion between cycles
  and ticks.
- The watchdog of `CONFIG_WORKQUEUE_WORK_TIMEOUT`, `k_work_queue_run()`, restart
  of a stopped queue, triggered and user work.
- Of the scheduler: priorities and deadlines in the run queue, affinity masks,
  metairq threads, time slices, IPIs, thread creation, and a halt requested by
  an ISR.
- Events, queues, pipes, stacks, mailboxes, memory slabs and blocking heap
  allocation: each waits and hands over as `Sem` or `MsgQ` does, under one lock.
  Polling, which would compose with all of them.
- Buffer allocation and cleanup of `msg_q.c`.
- The lock-free and packet buffers of `lib/os`, independent of the kernel
  objects.
- MMU, userspace, architectures, SoCs, drivers and subsystems: register access,
  permission tables, hardware description and applications of the kernel, each
  outside what a small model of the kernel core shows.

## Plan

Done: `TimeoutDispatch`, `Timeout`, `KTimer`, `Mutex`, `Work`, `Sched`, `Sem`,
`Condvar`, `MsgQ` and their theorems. What would come next, in this order:

1. `TimeoutList`: the delta list of `timeout_list.h` refining the queue contract
   of `Timeout` (the expiry tick is `curr_tick` plus a prefix sum).
2. `Poll` on `Sched`: the event between registration and pend, and triggered
   work on `Work`.
3. `Pipe` and `Mailbox`: partial transfers and the rendezvous of two parties.
4. The priority order of the run queue in `Sched`, and with it `Mutex` on
   `Sched` rather than beside it.
5. `MpscPbuf` and `SpscPbuf`: indices with wrap, producers and consumer in
   parallel.
6. The work watchdog and the restart of a queue, in `Work`.
