------------------------------ MODULE Condvar ------------------------------
(***************************************************************************)
(* k_condvar (kernel/condvar.c) on top of k_mutex.  k_condvar_wait() holds *)
(* the spinlock condvar_lock from before the unlock of the mutex until it  *)
(* is on the wait queue; other CPUs can lock the mutex in between, so the  *)
(* two are separate steps here.  A thread on the condition variable's wait *)
(* queue is pended with no mutex_pended_on, and its timeout is the one     *)
(* that Mutex models.                                                      *)
(***************************************************************************)
EXTENDS Mutex

VARIABLES
  cond,          \* step of a thread in k_condvar_wait()
  cond_mutex,    \* the mutex it was called with
  condvar_lock,  \* holder of the spinlock, or None
  \* history
  depth,         \* lock count of that mutex at the call
  lost           \* a signal met a thread that had released its mutex, and woke nobody

condVars == <<cond, cond_mutex, condvar_lock, depth, lost>>
allVars == <<vars, condVars>>

CondvarTypeOK ==
    /\ TypeOK
    /\ cond \in [Threads -> {"none", "unlocked", "waiting", "woken", "locking"}]
    /\ cond_mutex \in [Threads -> Mutexes \cup {None}]
    /\ condvar_lock \in Threads \cup {None}
    /\ depth \in [Threads -> 0..MaxCount]
    /\ lost \in BOOLEAN

z_impl_k_condvar_init ==
    /\ z_impl_k_mutex_init
    /\ cond = [t \in Threads |-> "none"]
    /\ cond_mutex = [t \in Threads |-> None]
    /\ condvar_lock = None
    /\ depth = [t \in Threads |-> 0]
    /\ lost = FALSE

cond_wait_q == {t \in Threads : cond[t] = "waiting" /\ state[t] = "pended"}

-----------------------------------------------------------------------------
(* k_condvar_wait().  With K_NO_WAIT it returns -EAGAIN and does nothing.  *)

WaitUnlocks(t, m, spinlock) ==
    /\ cond[t] = "none"
    /\ Running(t) /\ owner[m] = t
    /\ z_impl_k_mutex_unlock(t, m)
    /\ cond' = [cond EXCEPT ![t] = "unlocked"]
    /\ cond_mutex' = [cond_mutex EXCEPT ![t] = m]
    /\ condvar_lock' = spinlock
    /\ depth' = [depth EXCEPT ![t] = lock_count[m]]
    /\ UNCHANGED lost

\* Mutant: the mutex is released before condvar_lock is taken.
z_impl_k_condvar_wait_unlock_first(t, m) == WaitUnlocks(t, m, condvar_lock)

z_impl_k_condvar_wait(t, m) == condvar_lock = None /\ WaitUnlocks(t, m, t)

WaitPends(t, wait) ==
    /\ cond[t] = "unlocked" /\ ~deadlock
    /\ state' = [state EXCEPT ![t] = "pended"]
    /\ timeout' = [timeout EXCEPT ![t] = IF wait = "timed" THEN "armed" ELSE "inactive"]
    /\ cond' = [cond EXCEPT ![t] = "waiting"]
    /\ condvar_lock' = None
    /\ UNCHANGED <<owner, lock_count, prio, orig_prio, held_mutexes, mutex_pended_on, deadlock,
                   cond_mutex, depth, lost>>

TimedOut(t, step) ==
    /\ cond[t] = "waiting" /\ state[t] = "timedout"
    /\ state' = [state EXCEPT ![t] = "ready"]
    /\ cond' = [cond EXCEPT ![t] = step]
    /\ UNCHANGED <<owner, lock_count, prio, orig_prio, held_mutexes, mutex_pended_on, timeout,
                   deadlock, cond_mutex, condvar_lock, depth, lost>>

\* Mutant: a wait that timed out does not lock the mutex.
WaitTimesOut_no_lock(t) == TimedOut(t, "locking")

\* z_pend_curr() returns -EAGAIN; nothing is done about it yet.
WaitTimesOut(t) == TimedOut(t, "woken")

\* Signalled or not, the mutex is locked again, without a timeout.
WaitLocks(t) ==
    LET m == cond_mutex[t] IN
    /\ cond[t] = "woken"
    /\ \/ LockGranted(t, m)
       \/ LockPends(t, m, "forever")
       \/ LockAsserts(t, m, "forever")
    /\ cond' = [cond EXCEPT ![t] = "locking"]
    /\ UNCHANGED <<cond_mutex, condvar_lock, depth, lost>>

WaitReturns(t) ==
    /\ cond[t] = "locking" /\ state[t] = "ready" /\ ~deadlock
    /\ cond' = [cond EXCEPT ![t] = "none"]
    /\ cond_mutex' = [cond_mutex EXCEPT ![t] = None]
    /\ depth' = [depth EXCEPT ![t] = 0]
    /\ UNCHANGED <<vars, condvar_lock, lost>>

-----------------------------------------------------------------------------
(* Signals, from threads or ISRs.                                          *)

\* z_sched_wake() of the threads W.
Wake(W) ==
    /\ state' = [t \in Threads |-> IF t \in W THEN "ready" ELSE state[t]]
    /\ timeout' = [t \in Threads |-> IF t \in W THEN "inactive" ELSE timeout[t]]
    /\ cond' = [t \in Threads |-> IF t \in W THEN "woken" ELSE cond[t]]
    /\ lost' = (lost \/ (W = {} /\ \E t \in Threads : cond[t] = "unlocked"))
    /\ UNCHANGED <<owner, lock_count, prio, orig_prio, held_mutexes, mutex_pended_on,
                   deadlock, cond_mutex, condvar_lock, depth>>

\* The most urgent waiter is woken, if there is one.
z_impl_k_condvar_signal ==
    /\ condvar_lock = None /\ ~deadlock
    /\ \/ cond_wait_q = {} /\ Wake({})
       \/ \E w \in cond_wait_q :
            /\ \A v \in cond_wait_q : prio[w] <= prio[v]
            /\ Wake({w})

z_impl_k_condvar_broadcast ==
    /\ condvar_lock = None /\ ~deadlock
    /\ Wake(cond_wait_q)

-----------------------------------------------------------------------------
\* A thread uses mutexes outside of k_condvar_wait(), or is locking one inside it.
MutexStep(t) ==
    /\ \/ /\ cond[t] = "none"
          /\ \E m \in Mutexes : z_impl_k_mutex_lock(t, m) \/ z_impl_k_mutex_unlock(t, m)
       \/ cond[t] # "waiting" /\ LockTimesOut(t)
       \/ TimeoutPopped(t)
       \/ z_thread_timeout(t)
    /\ UNCHANGED condVars

CondvarNext ==
    \/ \E t \in Threads :
        \/ MutexStep(t)
        \/ \E m \in Mutexes : z_impl_k_condvar_wait(t, m)
        \/ \E wait \in {"forever", "timed"} : WaitPends(t, wait)
        \/ WaitTimesOut(t) \/ WaitLocks(t) \/ WaitReturns(t)
    \/ z_impl_k_condvar_signal
    \/ z_impl_k_condvar_broadcast

CondvarSpec == z_impl_k_condvar_init /\ [][CondvarNext]_allVars

-----------------------------------------------------------------------------
(* Properties.                                                             *)

(***************************************************************************)
(* The release of the mutex and the wait are atomic to whoever signals: no *)
(* signal falls between them, also from a CPU that has locked the mutex    *)
(* the waiter just released.                                               *)
(***************************************************************************)
NoLostSignal == ~lost

(***************************************************************************)
(* k_condvar_wait() returns with the mutex locked by the caller as often   *)
(* as before, whether it was signalled or timed out and whether it got the *)
(* mutex at once or was handed it.                                         *)
(***************************************************************************)
ReturnsLocked ==
    [][\A t \in Threads : cond[t] = "locking" /\ cond'[t] = "none" =>
           owner[cond_mutex[t]] = t /\ lock_count[cond_mutex[t]] = depth[t]]_allVars

=============================================================================
