------------------------------- MODULE Sched -------------------------------
(***************************************************************************)
(* Threads on an SMP system: blocking, waking and thread timeouts          *)
(* (kernel/sched.c, kernel/include/ksched.h), sleep (kernel/sleep.c), and  *)
(* suspend, resume, abort and join (kernel/thread.c).  The objects that    *)
(* threads wait for are in the modules that extend this one.               *)
(*                                                                         *)
(* An action is one stretch of code under the scheduler lock, up to the    *)
(* context switch if there is one, or a step of the timeout dispatch loop. *)
(* A CPU that switches away from a thread is idle for a moment and then    *)
(* picks any thread of the run queue: priorities are left out.  Calls that *)
(* do not depend on the caller may also come from an ISR.                  *)
(***************************************************************************)
EXTENDS TimeoutDispatch, Integers, FiniteSets

CONSTANTS Threads,   \* the threads; each one's struct _timeout has its name
          Objects,   \* kernel objects with a wait queue
          Lifecycle, \* subset of {"sleep", "suspend", "abort", "join"}: calls made
          Waits      \* subset of {"forever", "timed"}: timeouts of blocking calls

ASSUME SchedAssumption ==
    /\ Timeouts = Threads
    /\ None \notin Objects \cup ({"join", "halt"} \X Threads)
    /\ Objects \cap ({"join", "halt"} \X Threads) = {}
    /\ Lifecycle \subseteq {"sleep", "suspend", "abort", "join"}
    /\ Waits \subseteq {"forever", "timed"}

join_queue(t) == <<"join", t>>
halt_queue(t) == <<"halt", t>>

VARIABLES
  thread_state,  \* bits of base.thread_state: prevention and halting flags, "queued"
  pended_on,     \* wait queue of a pended thread
  swap_retval,   \* what the blocking call of a thread is going to return, if it matters
  current,       \* thread on a CPU, None in the idle thread
  handler,       \* z_thread_timeout() of the timeout in flight: "idle", "entered", "done"
  call,          \* kernel call a thread is in
  target,        \* the thread it is about
  \* history
  timed,         \* threads whose current wait has a timeout
  stale,         \* the wait of the timeout in flight has ended
  robbed,        \* threads whose timeout k_thread_suspend() aborted
  aborted        \* threads whose k_thread_abort() has returned to the one who halted them

threadVars == <<thread_state, pended_on, swap_retval, current, handler, call, target>>
historyVars == <<timed, stale, robbed, aborted>>
schedVars == <<dispatchVars, threadVars, historyVars>>

Flags == {"pending", "sleeping", "suspended", "dead", "aborting", "suspending", "queued"}
Calls == {"none", "take", "put", "get", "join", "halt", "retry"}

SchedTypeOK ==
    /\ DispatchTypeOK
    /\ thread_state \in [Threads -> SUBSET Flags]
    /\ pended_on \in [Threads -> Objects \cup {None} \cup ({"join", "halt"} \X Threads)]
    /\ swap_retval \in [Threads -> {"0", "EAGAIN", "ENOMSG"}]
    /\ current \in [Cpus -> Threads \cup {None}]
    /\ handler \in {"idle", "entered", "done"}
    /\ call \in [Threads -> Calls] /\ target \in [Threads -> Threads \cup {None}]
    /\ timed \subseteq Threads /\ stale \in BOOLEAN /\ robbed \subseteq Threads
    /\ aborted \subseteq Threads

\* Threads have been created and started.
SchedInit ==
    /\ DispatchInit
    /\ thread_state = [t \in Threads |-> {"queued"}]
    /\ pended_on = [t \in Threads |-> None]
    /\ swap_retval = [t \in Threads |-> "0"]
    /\ current = [c \in Cpus |-> None]
    /\ handler = "idle"
    /\ call = [t \in Threads |-> "none"] /\ target = [t \in Threads |-> None]
    /\ timed = {} /\ stale = FALSE /\ robbed = {} /\ aborted = {}

-----------------------------------------------------------------------------
(* Thread states.                                                          *)

z_is_thread_ready(flags) == flags \cap {"pending", "sleeping", "dead", "suspended"} = {}

\* Mutant: a woken thread is queued although it is suspended.
ready_thread_unconditional(flags) == flags \cup {"queued"}

ready_thread(flags) == IF z_is_thread_ready(flags) THEN flags \cup {"queued"} ELSE flags

clear_halting(flags) == flags \ {"aborting", "suspending"}

wait_q(q) == {t \in Threads : pended_on[t] = q}

\* Mutant: the joiners are left out.
HaltWaiters_not_joiners(t) == wait_q(halt_queue(t))

HaltWaiters(t) == wait_q(join_queue(t)) \cup wait_q(halt_queue(t))

thread_active_elsewhere(c, t) == \E d \in Cpus \ {c} : current[d] = t

\* Thread t executes on CPU c, and is not interrupted by the dispatch loop.
Executes(c, t) == current[c] = t /\ announcing_cpu # c

\* It is not inside a kernel call.
Runs(c, t) == Executes(c, t) /\ call[t] = "none" /\ "dead" \notin thread_state[t]

(***************************************************************************)
(* unpend_all(), z_sched_wake(): the threads W leave their wait queues     *)
(* with return value ret and are made ready, on top of the states ts, wait *)
(* queues po and timeouts act that the rest of the action has produced;    *)
(* the timeouts of `dropped` are aborted too.  A timeout that is linked is *)
(* removed, one in flight is marked superseded and not waited for.         *)
(***************************************************************************)
unpend_all(W, ret, ts, po, rv, act, dropped) ==
    /\ thread_state' = [u \in Threads |->
           IF u \in W THEN ready_thread(ts[u] \ {"pending"}) ELSE ts[u]]
    /\ pended_on' = [u \in Threads |-> IF u \in W THEN None ELSE po[u]]
    /\ swap_retval' = [u \in Threads |-> IF u \in W THEN ret ELSE rv[u]]
    /\ active' = act \ (W \cup dropped)
    /\ superseded' = (superseded \/ inflight_timeout \in W \cup dropped)
    /\ stale' = (stale \/ (handler = "entered" /\ inflight_timeout \in W \cup dropped))
    /\ UNCHANGED <<announcing_cpu, inflight_timeout, handler>>

(***************************************************************************)
(* next_up() on CPU c, whose current thread t got the states `flags`, wait *)
(* queue `queue` and return value ret in this action, and a timeout if     *)
(* hasTimeout.  A thread that another CPU has flagged halts itself here,   *)
(* without touching its timeout; one that can still run goes back to the   *)
(* run queue.                                                              *)
(***************************************************************************)
next_up(c, t, flags, queue, ret, hasTimeout, ts) ==
    LET dies == "aborting" \in flags /\ "dead" \notin flags
        stops == "aborting" \notin flags /\ "suspending" \in flags
        halted == IF dies THEN clear_halting((flags \cup {"dead"}) \ {"pending"})
                  ELSE IF stops THEN clear_halting(flags \cup {"suspended"})
                  ELSE flags
        W == IF dies THEN HaltWaiters(t)
             ELSE IF stops THEN wait_q(halt_queue(t)) ELSE {}
    IN  /\ current' = [current EXCEPT ![c] = None]
        /\ unpend_all(W, "0",
                      [ts EXCEPT ![t] = ready_thread(halted)],
                      [pended_on EXCEPT ![t] = IF dies THEN None ELSE queue],
                      [swap_retval EXCEPT ![t] = ret],
                      IF hasTimeout THEN active \cup {t} ELSE active, {})
        /\ timed' = IF hasTimeout THEN timed \cup {t} ELSE timed

-----------------------------------------------------------------------------
(* Context switches.                                                       *)

\* An idle CPU takes a thread from the run queue.
Dispatch(c, t) ==
    /\ current[c] = None /\ announcing_cpu # c
    /\ "queued" \in thread_state[t]
    /\ current' = [current EXCEPT ![c] = t]
    /\ thread_state' = [thread_state EXCEPT ![t] = @ \ {"queued"}]
    /\ timed' = timed \ {t} /\ robbed' = robbed \ {t}
    /\ UNCHANGED <<dispatchVars, pended_on, swap_retval, handler, call, target, stale,
                   aborted>>

\* An interrupt, an IPI or k_yield() takes the CPU to the scheduler.
Preempt(c, t) ==
    /\ Executes(c, t)
    /\ next_up(c, t, thread_state[t], pended_on[t], swap_retval[t], FALSE, thread_state)
    /\ UNCHANGED <<call, target, robbed, aborted>>

-----------------------------------------------------------------------------
(* Thread timeouts.                                                        *)

Popped ==
    /\ handler' = "entered"
    /\ stale' = ("dead" \in thread_state[inflight_timeout'])

TimeoutPopped(c) ==
    /\ Announce(c) /\ Popped
    /\ UNCHANGED <<thread_state, pended_on, swap_retval, current, call, target,
                   timed, robbed, aborted>>

HandlerDone(c) ==
    /\ handler = "done"
    /\ HandlerReturn(c)
    /\ IF inflight_timeout' # None THEN Popped ELSE handler' = "idle" /\ UNCHANGED stale
    /\ UNCHANGED <<thread_state, pended_on, swap_retval, current, call, target,
                   timed, robbed, aborted>>

z_sched_wake_thread_locked(t) ==
    IF thread_state[t] \cap {"dead", "aborting"} # {} THEN UNCHANGED <<thread_state, pended_on>>
    ELSE /\ thread_state' = [thread_state EXCEPT
                ![t] = ready_thread(@ \ {"pending", "sleeping"})]
         /\ pended_on' = [pended_on EXCEPT ![t] = None]

(***************************************************************************)
(* z_thread_timeout() under the scheduler lock; it acts on the thread or   *)
(* bails.                                                                  *)
(***************************************************************************)
ThreadTimeout(c, acts) ==
    /\ announcing_cpu = c /\ handler = "entered"
    /\ handler' = "done"
    /\ IF acts THEN z_sched_wake_thread_locked(inflight_timeout)
       ELSE UNCHANGED <<thread_state, pended_on>>
    /\ stale' = FALSE
    /\ UNCHANGED <<dispatchVars, swap_retval, current, call, target, timed, robbed,
                   aborted>>

\* Mutant: the superseded mark is not looked at.
z_thread_timeout_unchecked(c) == ThreadTimeout(c, TRUE)

\* Mutant: the timeout of a suspended thread is ignored.
z_thread_timeout_not_suspended(c) ==
    ThreadTimeout(c, ~superseded /\ "suspended" \notin thread_state[inflight_timeout])

\* A waker that came first has marked the timeout superseded.
z_thread_timeout(c) == ThreadTimeout(c, ~superseded)

-----------------------------------------------------------------------------
(* Blocking, and the end of a blocking call.                               *)

(***************************************************************************)
(* z_pend_curr(): pend on q, with a timeout if `wait` is "timed", and      *)
(* switch away, all in one hold of the scheduler lock.                     *)
(***************************************************************************)
z_pend_curr(c, t, q, wait) ==
    next_up(c, t, thread_state[t] \cup {"pending"}, q, "EAGAIN", wait = "timed", thread_state)

\* z_swap() returns in the thread that was woken.
Resumes(c, t, op) ==
    /\ Executes(c, t) /\ call[t] = op
    /\ pended_on[t] = None /\ "dead" \notin thread_state[t]

(***************************************************************************)
(* z_sched_wake() and z_unpend_first_thread_locked(): an object wakes the  *)
(* threads W of its wait queue.                                            *)
(***************************************************************************)
z_sched_wake(W, ret) ==
    /\ unpend_all(W, ret, thread_state, pended_on, swap_retval, active, {})
    /\ UNCHANGED <<current, call, target, timed, robbed, aborted>>

z_impl_k_sleep_ticks(c, t, wait) ==
    /\ "sleep" \in Lifecycle
    /\ Runs(c, t)
    /\ next_up(c, t, thread_state[t] \cup {"sleeping"}, None, swap_retval[t],
               wait = "timed", thread_state)
    /\ UNCHANGED <<call, target, robbed, aborted>>

z_impl_k_wakeup(u) ==
    /\ "sleep" \in Lifecycle
    /\ "sleeping" \in thread_state[u]
    /\ TryAbort(u)
    /\ stale' = (stale \/ (handler = "entered" /\ inflight_timeout = u))
    /\ thread_state' = [thread_state EXCEPT ![u] = ready_thread(@ \ {"sleeping"})]
    /\ UNCHANGED <<pended_on, swap_retval, current, handler, call, target, timed,
                   robbed, aborted>>

-----------------------------------------------------------------------------
(* Suspend, resume, abort and join.                                        *)

\* z_thread_halt(), the target runs on another CPU: flag it and wait on q.
HaltElsewhere(c, t, u, flag, q) ==
    /\ thread_active_elsewhere(c, u)
    /\ call' = [call EXCEPT ![t] = "halt"]
    /\ target' = [target EXCEPT ![t] = u]
    /\ next_up(c, t, thread_state[t] \cup {"pending"}, q, swap_retval[t], FALSE,
               [thread_state EXCEPT ![u] = @ \cup {flag}])
    /\ UNCHANGED <<robbed, aborted>>

(***************************************************************************)
(* z_thread_halt(), back from that wait: abort the target's timeout, until *)
(* its handler is not in flight.                                           *)
(***************************************************************************)
HaltReturns(c, t) ==
    LET u == target[t] IN
    /\ Resumes(c, t, "halt")
    /\ TryAbort(u)
    /\ robbed' = IF u \in active \/ inflight_timeout = u THEN robbed \cup {u} ELSE robbed
    /\ IF AbortResult(c, u) = "EAGAIN" THEN UNCHANGED <<call, target, aborted>>
       ELSE /\ call' = [call EXCEPT ![t] = "none"]
            /\ target' = [target EXCEPT ![t] = None]
            /\ aborted' = IF "dead" \in thread_state[u] THEN aborted \cup {u} ELSE aborted
    /\ UNCHANGED <<thread_state, pended_on, swap_retval, current, handler, timed, stale>>

z_impl_k_thread_suspend(c, t, u) ==
    /\ "suspend" \in Lifecycle
    /\ Runs(c, t)
    /\ "suspended" \notin thread_state[u]
    /\ \/ HaltElsewhere(c, t, u, "suspending", halt_queue(u))
       \/ /\ ~thread_active_elsewhere(c, u)
          /\ LET flags == clear_halting((thread_state[u] \cup {"suspended"}) \ {"queued"})
                 ts == [thread_state EXCEPT ![u] = flags]
             IN  unpend_all(wait_q(halt_queue(u)), "0", ts, pended_on, swap_retval, active, {})
          /\ current' = IF u = t THEN [current EXCEPT ![c] = None] ELSE current
          /\ UNCHANGED <<call, target, timed, robbed, aborted>>

\* Mutant: the thread is not put back in the run queue.
z_impl_k_thread_resume_not_readied(u) ==
    /\ "suspend" \in Lifecycle
    /\ "suspended" \in thread_state[u]
    /\ thread_state' = [thread_state EXCEPT ![u] = @ \ {"suspended"}]
    /\ UNCHANGED <<dispatchVars, pended_on, swap_retval, current, handler, call, target,
                   historyVars>>

z_impl_k_thread_resume(u) ==
    /\ "suspend" \in Lifecycle
    /\ "suspended" \in thread_state[u]
    /\ thread_state' = [thread_state EXCEPT ![u] = ready_thread(@ \ {"suspended"})]
    /\ UNCHANGED <<dispatchVars, pended_on, swap_retval, current, handler, call, target,
                   historyVars>>

(***************************************************************************)
(* halt_thread(u, DEAD) by thread t on CPU c: the target is off its queues *)
(* at once; the threads waiting for it are released when no handler of its *)
(* timeout is in flight, and the scheduler lock is dropped until then.  A  *)
(* thread that halts itself does not come back from the switch.            *)
(***************************************************************************)
HaltThread(c, t, u, again, dropped) ==
    LET ts == [thread_state EXCEPT ![u] = (@ \cup {"dead"}) \ {"queued", "pending"}]
        po == [pended_on EXCEPT ![u] = None]
        W == IF again THEN {} ELSE HaltWaiters(u)
    IN
    /\ unpend_all(W, "0",
                  IF again THEN ts ELSE [ts EXCEPT ![u] = clear_halting(@)],
                  po, swap_retval, active, dropped)
    /\ call' = [call EXCEPT ![t] = IF again THEN "retry" ELSE "none"]
    /\ target' = [target EXCEPT ![t] = IF again THEN u ELSE None]
    /\ current' = IF u = t /\ ~again THEN [current EXCEPT ![c] = None] ELSE current
    /\ aborted' = IF again THEN aborted ELSE aborted \cup {u}
    /\ UNCHANGED <<timed, robbed>>

\* Mutant: a handler in flight is marked superseded and not waited for.
halt_thread_no_wait(c, t, u) == HaltThread(c, t, u, FALSE, {u})

halt_thread(c, t, u) == HaltThread(c, t, u, AbortResult(c, u) = "EAGAIN", {u})

z_impl_k_thread_abort(c, t, u) ==
    /\ "abort" \in Lifecycle
    /\ Runs(c, t)
    /\ "dead" \notin thread_state[u]
    /\ \/ HaltElsewhere(c, t, u, "aborting", join_queue(u))
       \/ ~thread_active_elsewhere(c, u) /\ halt_thread(c, t, u)

\* halt_thread() has the lock again; only the thread itself may be dead by now.
HaltRetries(c, t) ==
    /\ Executes(c, t) /\ call[t] = "retry"
    /\ halt_thread(c, t, target[t])

(***************************************************************************)
(* k_thread_join(): it returns 0 at once for a dead thread, and -EDEADLK   *)
(* for a join of oneself or of a thread that is joining the caller.        *)
(***************************************************************************)
z_impl_k_thread_join(c, t, u, wait) ==
    /\ "join" \in Lifecycle
    /\ Runs(c, t)
    /\ "dead" \notin thread_state[u]
    /\ t # u /\ pended_on[u] # join_queue(t)
    /\ call' = [call EXCEPT ![t] = "join"]
    /\ target' = [target EXCEPT ![t] = u]
    /\ z_pend_curr(c, t, join_queue(u), wait)
    /\ UNCHANGED <<robbed, aborted>>

JoinReturns(c, t) ==
    /\ Resumes(c, t, "join")
    /\ call' = [call EXCEPT ![t] = "none"]
    /\ target' = [target EXCEPT ![t] = None]
    /\ swap_retval' = [swap_retval EXCEPT ![t] = "0"]
    /\ UNCHANGED <<dispatchVars, thread_state, pended_on, current, handler,
                   timed, stale, robbed, aborted>>

-----------------------------------------------------------------------------
SchedStep(c, t) ==
    \/ Dispatch(c, t) \/ Preempt(c, t)
    \/ \E wait \in Waits : z_impl_k_sleep_ticks(c, t, wait)
    \/ \E u \in Threads :
         \/ z_impl_k_thread_suspend(c, t, u)
         \/ z_impl_k_thread_abort(c, t, u)
         \/ \E wait \in Waits : z_impl_k_thread_join(c, t, u, wait)
    \/ HaltReturns(c, t) \/ HaltRetries(c, t) \/ JoinReturns(c, t)

TimeoutStep(c) == TimeoutPopped(c) \/ z_thread_timeout(c) \/ HandlerDone(c)

SchedNext ==
    \/ \E c \in Cpus : TimeoutStep(c) \/ \E t \in Threads : SchedStep(c, t)
    \/ \E u \in Threads : z_impl_k_wakeup(u) \/ z_impl_k_thread_resume(u)

-----------------------------------------------------------------------------
(* Properties.                                                             *)

(***************************************************************************)
(* A thread is on at most one CPU, never on one and in the run queue, and  *)
(* the run queue holds only threads that may run: two wakers, a timeout    *)
(* and a resume never make the scheduler start a thread twice.             *)
(***************************************************************************)
RunsOnce ==
    \A t \in Threads :
        /\ \A c, d \in Cpus : current[c] = t /\ current[d] = t => c = d
        /\ "queued" \in thread_state[t] =>
             z_is_thread_ready(thread_state[t]) /\ \A c \in Cpus : current[c] # t

(***************************************************************************)
(* No thread is forgotten: one that no flag prevents from running is on a  *)
(* CPU or in the run queue, and a pending one is on a wait queue, from     *)
(* which somebody can wake it.                                             *)
(***************************************************************************)
NeverForgotten ==
    \A t \in Threads :
        /\ z_is_thread_ready(thread_state[t]) =>
             "queued" \in thread_state[t] \/ \E c \in Cpus : current[c] = t
        /\ "pending" \in thread_state[t] <=> pended_on[t] # None

(***************************************************************************)
(* The handler of a thread timeout wakes the thread only from the wait the *)
(* timeout was armed for: if a waker came first, the thread may be in a    *)
(* new wait by now.                                                        *)
(***************************************************************************)
StaleNeverWakes ==
    [][stale /\ handler = "entered" /\ handler' = "done" => UNCHANGED thread_state]_schedVars

\* The timeout is linked, or its handler is going to look at the thread.
TimeoutOnItsWay(t) ==
    t \in active \/ (inflight_timeout = t /\ handler = "entered" /\ ~superseded)

Waiting(t) == thread_state[t] \cap {"pending", "sleeping"} # {} /\ "dead" \notin thread_state[t]

(***************************************************************************)
(* A wait with a timeout ends: the timeout is linked, or its handler is on *)
(* the way and will act.  Excepted are threads whose timeout a             *)
(* k_thread_suspend() took away.                                           *)
(***************************************************************************)
TimedWaitArmed ==
    \A t \in timed : Waiting(t) => TimeoutOnItsWay(t) \/ t \in robbed

(***************************************************************************)
(* "Thread suspension does not impact any timeout upon which the thread    *)
(* may be waiting (such as a timeout from a call to k_sem_take() or        *)
(* k_sleep())" (k_thread_suspend).                                         *)
(***************************************************************************)
SuspendKeepsTimeout == \A t \in timed : Waiting(t) => TimeoutOnItsWay(t)

(***************************************************************************)
(* When k_thread_abort() returns to the thread that did the halting, no    *)
(* timeout of the dead thread is linked and no handler is going to act on  *)
(* it, then or later, so that its storage can be used again.  It has       *)
(* waited for a handler in flight to return, unless the thread had armed a *)
(* newer timeout, whose removal answers the abort: the handler left over   *)
(* was marked superseded by an earlier waker, or is past the thread.       *)
(***************************************************************************)
AbortedQuiet ==
    [][\A t \in aborted' :
         /\ ~TimeoutOnItsWay(t)'
         /\ t \notin aborted /\ inflight_timeout' = t => t \in active]_schedVars

(***************************************************************************)
(* Nobody waits for a thread that is dead, in k_thread_join() or in        *)
(* k_thread_abort(), except while the thread that halts it is in the       *)
(* window in which halt_thread() has dropped the lock.                     *)
(***************************************************************************)
HaltWaitersReleased ==
    \A t, u \in Threads :
        pended_on[t] \in {join_queue(u), halt_queue(u)} /\ "dead" \in thread_state[u] =>
            \E v \in Threads : call[v] = "retry" /\ target[v] = u

=============================================================================
