------------------------------ MODULE KTimer ------------------------------
(***************************************************************************)
(* One k_timer (kernel/timer.c) on an SMP system, as a client of the       *)
(* timeout dispatch protocol.  An action is one stretch of code under      *)
(* timer_lock (which nests timeout_lock) or one step of the dispatch loop; *)
(* timer_lock is dropped around expiry_fn and stop_fn.                     *)
(*                                                                         *)
(* Calls come from threads and from ISRs.  A call on the announcing CPU is *)
(* made by expiry_fn or by an interrupt on top of the handler; threads run *)
(* on the other CPUs.                                                      *)
(***************************************************************************)
EXTENDS TimeoutDispatch, Integers

CONSTANTS Timer,      \* the timer's struct _timeout
          Threads,    \* threads that may call k_timer_status_sync()
          Periods,    \* subset of {"oneshot", "periodic"}: kinds of start
          MaxStatus,  \* bound: the clock stops once this many expiries are unread
          MaxStarts   \* bound: k_timer_start() calls

ASSUME KTimerAssumption ==
    /\ Timeouts = {Timer}
    /\ Periods \subseteq {"oneshot", "periodic"}
    /\ MaxStatus \in Nat \ {0}
    /\ MaxStarts \in Nat

VARIABLES
  expiry_fn, stop_fn,   \* whether the timer has these callbacks
  period, status,
  handler,   \* z_timer_expiration_handler(): "idle", "entered", "expiry_fn", "done"
  stopping,  \* CPU in stop_fn of k_timer_stop(): "no", "thread", or "nested"
             \* when it interrupted the handler
  sync,      \* k_timer_status_sync() of a thread: "idle", "pended", "woken"
  freed,     \* k_timer_cleanup() returned 0
  starts,    \* calls of k_timer_start() so far
  \* history
  fresh,     \* the timer was popped after the last start, stop and cleanup
  rearmed,   \* the timer was armed again while its handler is in flight
  saw,       \* threads whose wait has seen an expiry or a stop, or began during
             \* the callback of one
  stopLost   \* a k_timer_stop() found the handler in flight

timerVars == <<expiry_fn, stop_fn, period, status, handler, stopping, sync,
               freed, starts, fresh, rearmed, saw, stopLost>>
vars == <<dispatchVars, timerVars>>

TypeOK ==
    /\ DispatchTypeOK
    /\ expiry_fn \in BOOLEAN /\ stop_fn \in BOOLEAN
    /\ period \in {"oneshot", "periodic"}
    /\ status \in 0..MaxStatus
    /\ handler \in {"idle", "entered", "expiry_fn", "done"}
    /\ stopping \in [Cpus -> {"no", "thread", "nested"}]
    /\ sync \in [Threads -> {"idle", "pended", "woken"}]
    /\ freed \in BOOLEAN /\ starts \in 0..MaxStarts
    /\ fresh \in BOOLEAN /\ rearmed \in BOOLEAN
    /\ saw \subseteq Threads /\ stopLost \in BOOLEAN

k_timer_init ==
    /\ DispatchInit
    /\ expiry_fn \in BOOLEAN /\ stop_fn \in BOOLEAN
    /\ period = "oneshot" /\ status = 0
    /\ handler = "idle"
    /\ stopping = [c \in Cpus |-> "no"]
    /\ sync = [th \in Threads |-> "idle"]
    /\ freed = FALSE /\ starts = 0
    /\ fresh = FALSE /\ rearmed = FALSE
    /\ saw = {} /\ stopLost = FALSE

Pended == {th \in Threads : sync[th] = "pended"}

\* z_waitq_head(), unpend and ready: the best waiter, if there is one.
WakeOne ==
    IF Pended = {} THEN UNCHANGED sync
    ELSE \E th \in Pended : sync' = [sync EXCEPT ![th] = "woken"]

\* timer_lock is dropped for expiry_fn or stop_fn, and a waiter will be woken after.
InCallback == handler = "expiry_fn" \/ \E c \in Cpus : stopping[c] # "no"

ThreadRuns == \E c \in Cpus : c # announcing_cpu

-----------------------------------------------------------------------------
(* The dispatch loop and the expiration handler.                           *)

\* Bookkeeping when the loop pops the timer.
Popped ==
    /\ handler' = "entered"
    /\ fresh' = TRUE
    /\ rearmed' = FALSE
    /\ UNCHANGED <<expiry_fn, stop_fn, period, status, stopping, sync, freed,
                   starts, saw, stopLost>>

TimerPopped(c) ==
    /\ status < MaxStatus
    /\ Announce(c)
    /\ Popped

(***************************************************************************)
(* z_timer_expiration_handler(), its first stretch under timer_lock: bail  *)
(* when the timer was restarted or stopped since it was popped; otherwise  *)
(* re-arm a periodic timer, count the expiry, and either drop the lock for *)
(* expiry_fn or wake a waiter.                                             *)
(***************************************************************************)
\* Mutant: only a restarted timer is noticed, not a stopped one.
HandlerBailsRestartOnly == Timer \in active

HandlerBails == Timer \in active \/ (inflight_timeout = Timer /\ superseded)

z_timer_expiration_handler(c) ==
    /\ announcing_cpu = c /\ handler = "entered" /\ stopping[c] # "nested"
    /\ IF HandlerBails
       THEN /\ handler' = "done"
            /\ UNCHANGED <<dispatchVars, status, rearmed, saw, sync>>
       ELSE /\ IF period = "periodic"
               THEN AddTimeout(Timer) /\ rearmed' = TRUE
               ELSE UNCHANGED <<dispatchVars, rearmed>>
            /\ status' = status + 1
            /\ saw' = saw \cup Pended
            /\ IF expiry_fn
               THEN handler' = "expiry_fn" /\ UNCHANGED sync
               ELSE handler' = "done" /\ WakeOne
    /\ UNCHANGED <<expiry_fn, stop_fn, period, stopping, freed, starts, fresh, stopLost>>

\* Mutant: a one-shot timer forgets its waiters after expiry_fn.
ExpiryFnReturnsSilently(c) ==
    /\ announcing_cpu = c /\ handler = "expiry_fn" /\ stopping[c] # "nested"
    /\ handler' = "done"
    /\ IF period = "periodic" THEN WakeOne ELSE UNCHANGED sync
    /\ UNCHANGED <<dispatchVars, expiry_fn, stop_fn, period, status, stopping, freed,
                   starts, fresh, rearmed, saw, stopLost>>

\* expiry_fn returns: back under timer_lock, wake a waiter.
ExpiryFnReturns(c) ==
    /\ announcing_cpu = c /\ handler = "expiry_fn" /\ stopping[c] # "nested"
    /\ handler' = "done"
    /\ WakeOne
    /\ UNCHANGED <<dispatchVars, expiry_fn, stop_fn, period, status, stopping, freed,
                   starts, fresh, rearmed, saw, stopLost>>

\* The handler returns to the loop, which may pop the timer again.
HandlerDone(c) ==
    /\ handler = "done" /\ stopping[c] # "nested"
    /\ HandlerReturn(c)
    /\ IF inflight_timeout' = Timer
       THEN status < MaxStatus /\ Popped
       ELSE /\ handler' = "idle"
            /\ UNCHANGED <<expiry_fn, stop_fn, period, status, stopping, sync, freed,
                           starts, fresh, rearmed, saw, stopLost>>

-----------------------------------------------------------------------------
(* The API.                                                                *)

(***************************************************************************)
(* k_timer_start(): abort and re-arm under one hold of timer_lock, without *)
(* waiting for a handler in flight.                                        *)
(***************************************************************************)
z_impl_k_timer_start(p) ==
    /\ ~freed /\ starts < MaxStarts
    /\ starts' = starts + 1
    /\ period' = p
    /\ status' = 0
    /\ active' = active \cup {Timer}
    /\ superseded' = (superseded \/ inflight_timeout = Timer)
    /\ fresh' = FALSE
    /\ rearmed' = (rearmed \/ inflight_timeout = Timer)
    /\ UNCHANGED <<announcing_cpu, inflight_timeout, expiry_fn, stop_fn, handler,
                   stopping, sync, freed, saw, stopLost>>

\* Mutant: wakes a waiter also when the timer was not running.
z_impl_k_timer_stop_always_wakes(c) ==
    /\ ~freed /\ stopping[c] = "no"
    /\ TryAbort(Timer)
    /\ fresh' = FALSE
    /\ WakeOne
    /\ saw' = IF AbortResult(c, Timer) = "removed" THEN saw \cup Pended ELSE saw
    /\ UNCHANGED <<expiry_fn, stop_fn, period, status, handler, stopping, freed, starts,
                   rearmed, stopLost>>

(***************************************************************************)
(* k_timer_stop(), up to stop_fn: when the timer is not in the queue it    *)
(* returns at once, leaving a handler in flight marked superseded.         *)
(***************************************************************************)
z_impl_k_timer_stop(c) ==
    /\ ~freed /\ stopping[c] = "no"
    /\ TryAbort(Timer)
    /\ fresh' = FALSE
    /\ IF AbortResult(c, Timer) # "removed"
       THEN /\ stopLost' = (stopLost \/ inflight_timeout = Timer)
            /\ UNCHANGED <<stopping, sync, saw>>
       ELSE /\ saw' = saw \cup Pended
            /\ UNCHANGED stopLost
            /\ IF stop_fn
               THEN /\ stopping' = [stopping EXCEPT
                         ![c] = IF announcing_cpu = c THEN "nested" ELSE "thread"]
                    /\ UNCHANGED sync
               ELSE WakeOne /\ UNCHANGED stopping
    /\ UNCHANGED <<expiry_fn, stop_fn, period, status, handler, freed, starts, rearmed>>

\* stop_fn returns: back under timer_lock, z_unpend1_no_timeout().
StopFnReturns(c) ==
    /\ \/ stopping[c] = "nested"
       \/ stopping[c] = "thread" /\ announcing_cpu # c
    /\ stopping' = [stopping EXCEPT ![c] = "no"]
    /\ WakeOne
    /\ UNCHANGED <<dispatchVars, expiry_fn, stop_fn, period, status, handler, freed,
                   starts, fresh, rearmed, saw, stopLost>>

\* Mutant: decrements the count once too often instead of resetting it.
z_impl_k_timer_status_get_decrements ==
    /\ ~freed
    /\ status' = status - 1
    /\ UNCHANGED <<dispatchVars, expiry_fn, stop_fn, period, handler, stopping, sync,
                   freed, starts, fresh, rearmed, saw, stopLost>>

z_impl_k_timer_status_get ==
    /\ ~freed /\ status > 0
    /\ status' = 0
    /\ UNCHANGED <<dispatchVars, expiry_fn, stop_fn, period, handler, stopping, sync,
                   freed, starts, fresh, rearmed, saw, stopLost>>

(***************************************************************************)
(* k_timer_status_sync(): wait only for a running timer with no expiry to  *)
(* report; the status is read and reset when the call returns.             *)
(***************************************************************************)
z_impl_k_timer_status_sync(th) ==
    /\ ~freed /\ ThreadRuns /\ sync[th] = "idle"
    /\ IF status = 0 /\ Timer \in active
       THEN /\ sync' = [sync EXCEPT ![th] = "pended"]
            /\ saw' = IF InCallback THEN saw \cup {th} ELSE saw \ {th}
            /\ UNCHANGED status
       ELSE status' = 0 /\ UNCHANGED <<sync, saw>>
    /\ UNCHANGED <<dispatchVars, expiry_fn, stop_fn, period, handler, stopping,
                   freed, starts, fresh, rearmed, stopLost>>

SyncReturns(th) ==
    /\ ThreadRuns /\ sync[th] = "woken"
    /\ sync' = [sync EXCEPT ![th] = "idle"]
    /\ status' = 0
    /\ UNCHANGED <<dispatchVars, expiry_fn, stop_fn, period, handler, stopping,
                   freed, starts, fresh, rearmed, saw, stopLost>>

\* Mutant: -EAGAIN is not retried.
z_timer_cleanup_no_retry(c) ==
    /\ ~freed /\ c # announcing_cpu
    /\ \A th \in Threads : sync[th] # "pended"
    /\ TryAbort(Timer)
    /\ freed' = TRUE
    /\ fresh' = FALSE
    /\ UNCHANGED <<expiry_fn, stop_fn, period, status, handler, stopping, sync,
                   starts, rearmed, saw, stopLost>>

(***************************************************************************)
(* k_timer_cleanup() by a thread on CPU c: refused while threads wait,     *)
(* retried while the abort returns -EAGAIN.  No call begins on a timer     *)
(* that has been cleaned up; the ones under way finish.                    *)
(***************************************************************************)
z_timer_cleanup(c) ==
    /\ ~freed /\ c # announcing_cpu
    /\ \A th \in Threads : sync[th] # "pended"
    /\ TryAbort(Timer)
    /\ freed' = (AbortResult(c, Timer) # "EAGAIN")
    /\ fresh' = FALSE
    /\ UNCHANGED <<expiry_fn, stop_fn, period, status, handler, stopping, sync,
                   starts, rearmed, saw, stopLost>>

-----------------------------------------------------------------------------
Api ==
    \/ \E p \in Periods : z_impl_k_timer_start(p)
    \/ \E c \in Cpus : z_impl_k_timer_stop(c)
    \/ z_impl_k_timer_status_get
    \/ \E th \in Threads : z_impl_k_timer_status_sync(th)
    \/ \E c \in Cpus : z_timer_cleanup(c)

HandlerStep(c) == z_timer_expiration_handler(c) \/ ExpiryFnReturns(c) \/ HandlerDone(c)

Next ==
    \/ Api
    \/ \E c \in Cpus : TimerPopped(c) \/ HandlerStep(c) \/ StopFnReturns(c)
    \/ \E th \in Threads : SyncReturns(th)

Spec == k_timer_init /\ [][Next]_vars

(***************************************************************************)
(* The clock pops a running timer, handlers and callbacks return, and a    *)
(* woken thread gets to run.  Nobody is obliged to call the API.           *)
(***************************************************************************)
Fairness ==
    /\ WF_vars(\E c \in Cpus : TimerPopped(c))
    /\ \A c \in Cpus : WF_vars(HandlerStep(c)) /\ WF_vars(StopFnReturns(c))
    /\ \A th \in Threads : WF_vars(SyncReturns(th))

FairSpec == Spec /\ Fairness

-----------------------------------------------------------------------------
(* Properties.                                                             *)

(***************************************************************************)
(* An expiry is counted, and expiry_fn called, only for a dispatch that no *)
(* k_timer_start(), k_timer_stop() or cleanup has overtaken: a stopped     *)
(* timer stays silent and a restarted one does not report the old expiry.  *)
(***************************************************************************)
StaleNeverFires == [][status' > status => fresh]_vars

(***************************************************************************)
(* k_timer_cleanup() returns with the handler in flight only when the      *)
(* timer had been armed again under it; otherwise it waits the handler     *)
(* out.                                                                    *)
(***************************************************************************)
CleanupWaits == freed /\ inflight_timeout = Timer => rearmed

(***************************************************************************)
(* A thread in k_timer_status_sync() on a timer that is not stopped under  *)
(* an expiration in flight is woken once the timer expires or is stopped.  *)
(***************************************************************************)
WaiterServed ==
    \A th \in Threads : sync[th] = "pended" ~> (sync[th] # "pended" \/ stopLost)

(***************************************************************************)
(* k_timer_status_sync() "blocks the calling thread until the timer's      *)
(* status is non-zero [...] or the timer is stopped": a woken thread has   *)
(* seen an expiry or a stop since it started to wait, or started while     *)
(* timer_lock was dropped for the callback of one.  A stop that finds the  *)
(* timer inactive and an overtaken handler wake nobody.                    *)
(***************************************************************************)
SyncSawEvent == \A th \in Threads : sync[th] = "woken" => th \in saw

=============================================================================
