-------------------------------- MODULE Sem --------------------------------
(***************************************************************************)
(* k_sem (kernel/sem.c) on top of the scheduler, built without             *)
(* CONFIG_POLL.  Each call is one hold of the semaphore's lock, which      *)
(* nests the scheduler lock; thread timeouts take only the latter.         *)
(***************************************************************************)
EXTENDS Sched

CONSTANTS sem,           \* the semaphore's wait queue
          Limit,         \* limit of the semaphore
          InitialCount

ASSUME SemAssumption ==
    /\ sem \in Objects
    /\ Limit \in Nat \ {0}
    /\ InitialCount \in 0..Limit

VARIABLES count,
          units   \* history: units given and not yet taken or reset

semVars == <<count, units>>
vars == <<schedVars, semVars>>

TypeOK ==
    /\ SchedTypeOK
    /\ count \in 0..Limit
    /\ units \in Nat

z_impl_k_sem_init ==
    /\ SchedInit
    /\ count = InitialCount
    /\ units = InitialCount

GiveToWaiter ==
    /\ \E w \in wait_q(sem) : z_sched_wake({w}, "0")
    /\ units' = units + 1

GiveToCount ==
    /\ count' = count + 1 /\ units' = units + 1
    /\ UNCHANGED schedVars

\* Mutant: the count goes up also when a waiter is woken.
z_impl_k_sem_give_counts_twice ==
    \/ GiveToWaiter /\ count' = IF count # Limit THEN count + 1 ELSE count
    \/ wait_q(sem) = {} /\ count # Limit /\ GiveToCount

\* Mutant: the count is raised without looking for a waiter.
z_impl_k_sem_give_no_wake == count # Limit /\ GiveToCount

\* Mutant: the limit is not looked at.
z_impl_k_sem_give_unlimited ==
    \/ GiveToWaiter /\ UNCHANGED count
    \/ wait_q(sem) = {} /\ GiveToCount

\* Wake a waiter, or count up to the limit.
z_impl_k_sem_give ==
    \/ GiveToWaiter /\ UNCHANGED count
    \/ wait_q(sem) = {} /\ count # Limit /\ GiveToCount

\* K_NO_WAIT with count 0 returns -EBUSY and changes nothing.
z_impl_k_sem_take(c, t, wait) ==
    /\ Runs(c, t)
    /\ \/ /\ count > 0
          /\ count' = count - 1 /\ units' = units - 1
          /\ UNCHANGED schedVars
       \/ /\ count = 0
          /\ call' = [call EXCEPT ![t] = "take"]
          /\ z_pend_curr(c, t, sem, wait)
          /\ UNCHANGED <<target, robbed, aborted, semVars>>

TakeReturns(c, t) ==
    /\ Resumes(c, t, "take")
    /\ call' = [call EXCEPT ![t] = "none"]
    /\ units' = IF swap_retval[t] = "0" THEN units - 1 ELSE units
    /\ swap_retval' = [swap_retval EXCEPT ![t] = "0"]
    /\ UNCHANGED <<dispatchVars, thread_state, pended_on, current, handler, target,
                   historyVars, count>>

z_impl_k_sem_reset ==
    /\ z_sched_wake(wait_q(sem), "EAGAIN")
    /\ count' = 0 /\ units' = units - count

-----------------------------------------------------------------------------
SemStep(c, t) ==
    \/ \E wait \in Waits : z_impl_k_sem_take(c, t, wait)
    \/ TakeReturns(c, t)

Next ==
    \/ SchedNext /\ UNCHANGED semVars
    \/ \E c \in Cpus, t \in Threads : SemStep(c, t)
    \/ z_impl_k_sem_give
    \/ z_impl_k_sem_reset

Spec == z_impl_k_sem_init /\ [][Next]_vars

-----------------------------------------------------------------------------
(* Properties.                                                             *)

(***************************************************************************)
(* A unit never sits in the count while a thread waits for one: no give is *)
(* lost to a waiter that is timing out, being suspended or aborted.        *)
(***************************************************************************)
NoLostGive == count > 0 => wait_q(sem) = {}

\* Threads whose k_sem_take() is going to return 0.
Granted == {t \in Threads : call[t] = "take" /\ pended_on[t] = None /\ swap_retval[t] = "0"}

(***************************************************************************)
(* Units are conserved: what was given is in the count or with exactly one *)
(* woken thread; a take that times out or is reset takes none.             *)
(***************************************************************************)
UnitsConserved == units = count + Cardinality(Granted)

=============================================================================
