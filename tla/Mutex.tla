------------------------------- MODULE Mutex -------------------------------
(***************************************************************************)
(* k_mutex with priority inheritance (kernel/mutex.c).  Every action is    *)
(* one stretch of code under the global mutex_lock, or a step of the       *)
(* thread's timeout, which takes only the scheduler lock: a waiter that    *)
(* timed out is off the wait queue before it clears mutex_pended_on and    *)
(* lets the owner's priority down.                                         *)
(*                                                                         *)
(* Priorities are small integers, a lower one being more urgent.  A wait   *)
(* queue is the set of threads pended on a mutex; among waiters of equal   *)
(* priority any may come first.                                            *)
(***************************************************************************)
EXTENDS Integers, FiniteSetsExt

CONSTANTS Threads, Mutexes,
          None,              \* NULL
          BasePrio,          \* priority each thread was created with
          Ceiling,           \* CONFIG_PRIORITY_CEILING
          MaxHops,           \* MUTEX_CHAIN_WALK_MAX_HOPS
          Waits,             \* subset of {"forever", "timed"}: blocking timeouts
          DeadlockDetect,    \* CONFIG_MUTEX_DEADLOCK_DETECT
          MaxCount           \* bound: recursive locks

ASSUME MutexAssumption ==
    /\ None \notin Threads \cup Mutexes
    /\ BasePrio \in [Threads -> Int]
    /\ Ceiling \in Int
    /\ MaxHops \in Nat \ {0}
    /\ Waits \subseteq {"forever", "timed"}
    /\ DeadlockDetect \in BOOLEAN
    /\ MaxCount \in Nat \ {0}

VARIABLES
  owner, lock_count,               \* per mutex
  prio, orig_prio, held_mutexes, mutex_pended_on,  \* per thread
  state,     \* "ready", "pended", or "timedout" until k_mutex_lock() resumes
  timeout,   \* the thread's timeout: "inactive", "armed", or "popped" while
             \* its handler is on the way to the scheduler lock
  deadlock   \* the deadlock assertion has failed

vars == <<owner, lock_count, prio, orig_prio, held_mutexes, mutex_pended_on,
          state, timeout, deadlock>>

TypeOK ==
    /\ owner \in [Mutexes -> Threads \cup {None}]
    /\ lock_count \in [Mutexes -> 0..MaxCount]
    /\ prio \in [Threads -> Int] /\ orig_prio \in [Threads -> Int]
    /\ held_mutexes \in [Threads -> SUBSET Mutexes]
    /\ mutex_pended_on \in [Threads -> Mutexes \cup {None}]
    /\ state \in [Threads -> {"ready", "pended", "timedout"}]
    /\ timeout \in [Threads -> {"inactive", "armed", "popped"}]
    /\ deadlock \in BOOLEAN

z_impl_k_mutex_init ==
    /\ owner = [m \in Mutexes |-> None]
    /\ lock_count = [m \in Mutexes |-> 0]
    /\ prio = BasePrio /\ orig_prio = BasePrio
    /\ held_mutexes = [t \in Threads |-> {}]
    /\ mutex_pended_on = [t \in Threads |-> None]
    /\ state = [t \in Threads |-> "ready"]
    /\ timeout = [t \in Threads |-> "inactive"]
    /\ deadlock = FALSE

-----------------------------------------------------------------------------
(* Priorities.                                                             *)

z_get_new_prio_with_ceiling(p) == IF p >= Ceiling THEN p ELSE Ceiling

new_prio_for_inheritance(target, limit) ==
    z_get_new_prio_with_ceiling(IF target < limit THEN target ELSE limit)

wait_q(m) == {t \in Threads : state[t] = "pended" /\ mutex_pended_on[t] = m}

\* Mutant: falls back to the floor as if the other mutexes had no waiters.
held_mutexes_floor_only(held, floor_prio) == floor_prio

\* The best priority among the waiters of the mutexes `held`, floored.
held_mutexes_highest_waiter_prio(held, floor_prio) ==
    Min({floor_prio} \cup
        {z_get_new_prio_with_ceiling(prio[w]) : w \in UNION {wait_q(m) : m \in held}})

(***************************************************************************)
(* The ownership chain from mutex m: ChainMutex(m)[k] is the mutex the     *)
(* walk looks at on hop k.  It ends at an owner that is not pended on a    *)
(* mutex (a stale mutex_pended_on does not count), when it comes back to   *)
(* m, and after MaxHops.                                                   *)
(***************************************************************************)
NextMutex(t) == IF state[t] = "pended" THEN mutex_pended_on[t] ELSE None

ChainNext(m, at) ==
    LET next == IF at = None THEN None ELSE NextMutex(owner[at])
    IN  IF next = m THEN None ELSE next

\* Mutant: only the owner of the mutex itself is boosted.
ChainMutexOneHop(m) ==
    [k \in 0..(MaxHops - 1) |-> IF k = 0 THEN m ELSE None]

ChainMutex(m) ==
    LET chain[k \in 0..(MaxHops - 1)] ==
          IF k = 0 THEN m ELSE ChainNext(m, chain[k - 1])
    IN  chain

ChainHops(m) == {k \in 0..(MaxHops - 1) : ChainMutex(m)[k] # None}

ChainOwner(m, k) == owner[ChainMutex(m)[k]]

\* Mutant: looks only at the owner of the mutex itself.
ClosesCycleAtFirstHop(t, m, k) ==
    /\ k = 0
    /\ NextMutex(ChainOwner(m, k)) # None
    /\ owner[NextMutex(ChainOwner(m, k))] = t

(***************************************************************************)
(* The deadlock check at hop k: thread t waits forever, no owner up to     *)
(* here has an active timeout, and the one at k waits for a mutex of t.    *)
(***************************************************************************)
ClosesCycle(t, m, k) ==
    /\ \A j \in 0..k : timeout[ChainOwner(m, j)] # "armed"
    /\ NextMutex(ChainOwner(m, k)) # None
    /\ owner[NextMutex(ChainOwner(m, k))] = t

DetectedAt(t, m, wait) ==
    IF DeadlockDetect /\ wait = "forever"
    THEN {k \in ChainHops(m) : ClosesCycle(t, m, k)} ELSE {}

-----------------------------------------------------------------------------
(* k_mutex_lock().                                                         *)

\* Thread t can call the API: it is not blocked and the kernel has not panicked.
Running(t) == state[t] = "ready" /\ ~deadlock

\* Mutant: the pre-boost priority is captured on every first lock.
LockGrantedRecaptures(t, m) ==
    /\ Running(t)
    /\ lock_count[m] = 0 \/ owner[m] = t
    /\ lock_count[m] < MaxCount
    /\ lock_count' = [lock_count EXCEPT ![m] = @ + 1]
    /\ owner' = [owner EXCEPT ![m] = t]
    /\ IF lock_count[m] = 0
       THEN /\ held_mutexes' = [held_mutexes EXCEPT ![t] = @ \cup {m}]
            /\ orig_prio' = [orig_prio EXCEPT ![t] = prio[t]]
       ELSE UNCHANGED <<held_mutexes, orig_prio>>
    /\ UNCHANGED <<prio, mutex_pended_on, state, timeout, deadlock>>

(***************************************************************************)
(* The mutex is free or already ours.  K_NO_WAIT on a mutex of somebody    *)
(* else returns -EBUSY and changes nothing.                                *)
(***************************************************************************)
LockGranted(t, m) ==
    /\ Running(t)
    /\ lock_count[m] = 0 \/ owner[m] = t
    /\ lock_count[m] < MaxCount
    /\ lock_count' = [lock_count EXCEPT ![m] = @ + 1]
    /\ owner' = [owner EXCEPT ![m] = t]
    /\ IF lock_count[m] = 0
       THEN /\ held_mutexes' = [held_mutexes EXCEPT ![t] = @ \cup {m}]
            /\ orig_prio' = [orig_prio EXCEPT
                                ![t] = IF held_mutexes[t] = {} THEN prio[t] ELSE @]
       ELSE UNCHANGED <<held_mutexes, orig_prio>>
    /\ UNCHANGED <<prio, mutex_pended_on, state, timeout, deadlock>>

(***************************************************************************)
(* The mutex is somebody else's: boost the owners along the chain and pend *)
(* on the mutex, in one hold of mutex_lock.                                *)
(***************************************************************************)
LockPends(t, m, wait) ==
    LET boost == new_prio_for_inheritance(prio[t], prio[owner[m]])
        owners == {ChainOwner(m, k) : k \in ChainHops(m)}
    IN
    /\ Running(t)
    /\ lock_count[m] # 0 /\ owner[m] # t
    /\ DetectedAt(t, m, wait) = {}
    /\ prio' = [u \in Threads |-> IF u \in owners /\ boost < prio[u] THEN boost ELSE prio[u]]
    /\ mutex_pended_on' = [mutex_pended_on EXCEPT ![t] = m]
    /\ state' = [state EXCEPT ![t] = "pended"]
    /\ timeout' = [timeout EXCEPT ![t] = IF wait = "timed" THEN "armed" ELSE "inactive"]
    /\ UNCHANGED <<owner, lock_count, orig_prio, held_mutexes, deadlock>>

\* The deadlock assertion fails, which is fatal.
LockAsserts(t, m, wait) ==
    /\ Running(t)
    /\ lock_count[m] # 0 /\ owner[m] # t
    /\ DetectedAt(t, m, wait) # {}
    /\ deadlock' = TRUE
    /\ UNCHANGED <<owner, lock_count, prio, orig_prio, held_mutexes, mutex_pended_on,
                   state, timeout>>

z_impl_k_mutex_lock(t, m) ==
    \/ LockGranted(t, m)
    \/ \E wait \in Waits : LockPends(t, m, wait) \/ LockAsserts(t, m, wait)

-----------------------------------------------------------------------------
(* The thread's timeout.                                                   *)

\* The announce loop pops the timeout; its handler then needs the lock.
TimeoutPopped(t) ==
    /\ timeout[t] = "armed" /\ ~deadlock
    /\ timeout' = [timeout EXCEPT ![t] = "popped"]
    /\ UNCHANGED <<owner, lock_count, prio, orig_prio, held_mutexes, mutex_pended_on,
                   state, deadlock>>

\* The handler unpends the thread, unless an unlock has overtaken it.
z_thread_timeout(t) ==
    /\ timeout[t] = "popped" /\ state[t] = "pended" /\ ~deadlock
    /\ timeout' = [timeout EXCEPT ![t] = "inactive"]
    /\ state' = [state EXCEPT ![t] = "timedout"]
    /\ UNCHANGED <<owner, lock_count, prio, orig_prio, held_mutexes, mutex_pended_on, deadlock>>

(***************************************************************************)
(* The timed-out waiter resumes in k_mutex_lock() and recomputes the       *)
(* priority of whoever owns the mutex now.                                 *)
(***************************************************************************)
LockTimesOut(t) ==
    LET m == mutex_pended_on[t]
        o == owner[m]
    IN
    /\ state[t] = "timedout" /\ ~deadlock
    /\ state' = [state EXCEPT ![t] = "ready"]
    /\ mutex_pended_on' = [mutex_pended_on EXCEPT ![t] = None]
    /\ prio' = IF o = None THEN prio
               ELSE [prio EXCEPT ![o] =
                        held_mutexes_highest_waiter_prio(held_mutexes[o], orig_prio[o])]
    /\ UNCHANGED <<owner, lock_count, orig_prio, held_mutexes, timeout, deadlock>>

-----------------------------------------------------------------------------
(* k_mutex_unlock().                                                       *)

\* Mutant: the count is decremented whatever it is.
UnlockRecursiveAlways(t, m) ==
    /\ Running(t) /\ owner[m] = t
    /\ lock_count' = [lock_count EXCEPT ![m] = @ - 1]
    /\ UNCHANGED <<owner, prio, orig_prio, held_mutexes, mutex_pended_on, state,
                   timeout, deadlock>>

UnlockRecursive(t, m) ==
    /\ Running(t) /\ owner[m] = t
    /\ lock_count[m] > 1
    /\ lock_count' = [lock_count EXCEPT ![m] = @ - 1]
    /\ UNCHANGED <<owner, prio, orig_prio, held_mutexes, mutex_pended_on, state,
                   timeout, deadlock>>

\* Mutant: the count is not cleared when nobody waits.
UnlockReleasesKeepsCount(t, m) ==
    /\ Running(t) /\ owner[m] = t
    /\ lock_count[m] = 1
    /\ owner' = [owner EXCEPT ![m] = None]
    /\ held_mutexes' = [held_mutexes EXCEPT ![t] = @ \ {m}]
    /\ UNCHANGED <<lock_count, prio, orig_prio, mutex_pended_on, state, timeout, deadlock>>

(***************************************************************************)
(* The last unlock: leave the held list, fall back to the priority the     *)
(* other held mutexes justify, and hand the mutex to the best waiter with  *)
(* its timeout aborted.                                                    *)
(***************************************************************************)
UnlockReleases(t, m) ==
    LET rest == held_mutexes[t] \ {m}
        best == {w \in wait_q(m) : \A v \in wait_q(m) : prio[w] <= prio[v]}
    IN
    /\ Running(t) /\ owner[m] = t
    /\ lock_count[m] = 1
    /\ prio' = IF prio[t] = orig_prio[t] THEN prio
               ELSE [prio EXCEPT ![t] = held_mutexes_highest_waiter_prio(rest, orig_prio[t])]
    /\ UNCHANGED deadlock
    /\ IF wait_q(m) = {}
       THEN /\ owner' = [owner EXCEPT ![m] = None]
            /\ lock_count' = [lock_count EXCEPT ![m] = 0]
            /\ held_mutexes' = [held_mutexes EXCEPT ![t] = rest]
            /\ UNCHANGED <<orig_prio, mutex_pended_on, state, timeout>>
       ELSE \E w \in best :
            /\ owner' = [owner EXCEPT ![m] = w]
            /\ held_mutexes' = [held_mutexes EXCEPT ![t] = rest, ![w] = @ \cup {m}]
            /\ orig_prio' = [orig_prio EXCEPT
                                ![w] = IF held_mutexes[w] = {} THEN prio[w] ELSE @]
            /\ mutex_pended_on' = [mutex_pended_on EXCEPT ![w] = None]
            /\ state' = [state EXCEPT ![w] = "ready"]
            /\ timeout' = [timeout EXCEPT ![w] = "inactive"]
            /\ UNCHANGED lock_count

z_impl_k_mutex_unlock(t, m) == UnlockRecursive(t, m) \/ UnlockReleases(t, m)

-----------------------------------------------------------------------------
Next ==
    \E t \in Threads :
        \/ \E m \in Mutexes : z_impl_k_mutex_lock(t, m) \/ z_impl_k_mutex_unlock(t, m)
        \/ TimeoutPopped(t)
        \/ z_thread_timeout(t)
        \/ LockTimesOut(t)

Spec == z_impl_k_mutex_init /\ [][Next]_vars

-----------------------------------------------------------------------------
(* Properties.                                                             *)

(***************************************************************************)
(* Ownership bookkeeping: a mutex is locked exactly when it has an owner,  *)
(* it is on the held list of its owner and of nobody else, and a free      *)
(* mutex has no waiter (the handoff in k_mutex_unlock() is never lost).    *)
(***************************************************************************)
OwnershipConsistent ==
    \A m \in Mutexes :
        /\ lock_count[m] = 0 <=> owner[m] = None
        /\ \A t \in Threads : m \in held_mutexes[t] <=> owner[m] = t
        /\ owner[m] = None => wait_q(m) = {}

(***************************************************************************)
(* No priority inversion: along every ownership chain within the hop       *)
(* limit, an owner is at least as urgent as each waiter it blocks, up to   *)
(* the ceiling.                                                            *)
(***************************************************************************)
NoInversion ==
    \A m \in Mutexes : \A w \in wait_q(m) :
        prio[owner[m]] <= z_get_new_prio_with_ceiling(prio[w])

(***************************************************************************)
(* No leaked boost: a thread that holds no mutex is back at the priority   *)
(* it was created with, however waiters timed out and mutexes changed      *)
(* hands in between, and orig_prio is always that priority.                *)
(***************************************************************************)
NoLeakedBoost ==
    \A t \in Threads :
        /\ held_mutexes[t] = {} => prio[t] = BasePrio[t]
        /\ orig_prio[t] = BasePrio[t]

(***************************************************************************)
(* Where nobody waits with a timeout the inherited priority is exact: the  *)
(* best of the thread's own and those of the waiters it blocks.            *)
(***************************************************************************)
ExactInheritance ==
    \A t \in Threads :
        prio[t] = held_mutexes_highest_waiter_prio(held_mutexes[t], BasePrio[t])

(***************************************************************************)
(* With deadlock detection on, threads that only wait forever never end up *)
(* in a cycle of waits: the assertion catches the lock that closes it.     *)
(***************************************************************************)
DeadlockCaught ==
    \A S \in (SUBSET Threads) \ {{}} :
        \E t \in S : NextMutex(t) = None \/ owner[NextMutex(t)] \notin S

=============================================================================
