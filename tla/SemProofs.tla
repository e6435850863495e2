----------------------------- MODULE SemProofs -----------------------------
(***************************************************************************)
(* Proofs about the semaphore and, through it, about the scheduler: for    *)
(* any number of CPUs and threads, any limit and initial count.            *)
(***************************************************************************)
EXTENDS Sem, SchedProofs, FiniteSetTheorems

(***************************************************************************)
(* A thread is on the wait queue only in k_sem_take(), its answer is       *)
(* -EAGAIN as long as it is there, and it waits for nothing else.          *)
(***************************************************************************)
TakeWait(t) ==
    /\ pended_on[t] = sem => call[t] = "take" /\ swap_retval[t] = "EAGAIN"
    /\ call[t] = "take" => pended_on[t] \in {sem, None}

(***************************************************************************)
(* The inductive invariant.  That finitely many takes are granted and not  *)
(* yet returned is part of it: the number of threads need not be finite.   *)
(***************************************************************************)
SemInv ==
    /\ SchedInv
    /\ count \in 0..Limit
    /\ \A t \in Threads : TakeWait(t)
    /\ NoLostGive
    /\ IsFiniteSet(Granted)
    /\ UnitsConserved

\* The wait queue of the semaphore is not one of the queues of the threads.
LEMMA SemIsObject == sem \in Objects /\ sem # None
  BY SemAssumption, SchedAssumption

(***************************************************************************)
(* The inductive invariant implies the type invariant.                     *)
(***************************************************************************)
LEMMA SemInvType == SemInv => TypeOK
<1> SUFFICES ASSUME SemInv PROVE TypeOK
  OBVIOUS
<1>1. Cardinality(Granted) \in Nat
  BY FS_CardinalityType DEF SemInv
<1>2. count \in Nat
  BY SemAssumption DEF SemInv
<1>3. units \in Nat
  BY <1>1, <1>2 DEF SemInv, UnitsConserved
<1> QED
  BY <1>3 DEF SemInv, SchedInv, TypeOK

(***************************************************************************)
(* k_sem_init() establishes the invariant.                                 *)
(***************************************************************************)
LEMMA SemInvInit == z_impl_k_sem_init => SemInv
<1> SUFFICES ASSUME z_impl_k_sem_init PROVE SemInv
  OBVIOUS
<1>1. SchedInv
  BY SchedInvInit DEF z_impl_k_sem_init
<1>2. \A t \in Threads : pended_on[t] = None /\ call[t] = "none"
  BY DEF z_impl_k_sem_init, SchedInit
<1>3. wait_q(sem) = {} /\ Granted = {}
  BY <1>2, SemIsObject DEF wait_q, Granted
<1>4. IsFiniteSet(Granted) /\ Cardinality(Granted) = 0
  BY <1>3, FS_EmptySet
<1>5. \A t \in Threads : TakeWait(t)
  BY <1>2, SemIsObject DEF TakeWait
<1>6. count \in 0..Limit /\ units = count
  BY SemAssumption DEF z_impl_k_sem_init
<1> QED
  BY <1>1, <1>3, <1>4, <1>5, <1>6 DEF SemInv, NoLostGive, UnitsConserved

(***************************************************************************)
(* A step that grants nothing, gives nothing and queues nobody preserves   *)
(* the invariant.                                                          *)
(***************************************************************************)
LEMMA SameGranted ==
    ASSUME SemInv, SchedInv', \A t \in Threads : TakeWait(t)',
           count' \in 0..Limit, NoLostGive', Granted' = Granted,
           NEW d \in Int, count' = count + d, units' = units + d
    PROVE  SemInv'
<1>1. Cardinality(Granted) \in Nat
  BY FS_CardinalityType DEF SemInv
<1>2. count \in Nat /\ count' \in Nat
  BY SemAssumption DEF SemInv
<1>3. units = count + Cardinality(Granted)
  BY DEF SemInv, UnitsConserved
<1>4. IsFiniteSet(Granted)' /\ Cardinality(Granted)' = Cardinality(Granted)
  BY DEF SemInv
<1>5. units' = count' + Cardinality(Granted)'
  BY <1>1, <1>2, <1>3, <1>4
<1> QED
  BY <1>4, <1>5 DEF SemInv, UnitsConserved

(***************************************************************************)
(* Steps of the scheduler preserve the invariant: a timeout, a suspension  *)
(* or an abort takes threads off the wait queue and grants nothing.        *)
(***************************************************************************)
LEMMA SchedKeepsSemInv ==
    ASSUME SemInv, SchedNext, UNCHANGED semVars
    PROVE  SemInv'
<1>1. SchedInv /\ SchedInv'
  BY SchedInvStep DEF SemInv
<1>2. \A t \in Threads : CallKept(t)
  BY <1>1, SchedKeepsObjectCall
<1>3. ASSUME NEW t \in Threads PROVE pended_on'[t] = sem => pended_on[t] = sem /\ call'[t] = call[t]
  BY <1>1, SchedAddsNoWaiter, SemIsObject
<1>4. ASSUME NEW t \in Threads PROVE TakeWait(t)'
  BY <1>2, <1>3, SemIsObject DEF TakeWait, CallKept, ObjectCalls, SemInv
<1>5. Granted' = Granted
  BY <1>2, SemIsObject DEF Granted, TakeWait, CallKept, ObjectCalls, SemInv
<1>6. NoLostGive'
  BY <1>3 DEF NoLostGive, wait_q, SemInv, semVars
<1>7. count' = count + 0 /\ units' = units + 0
  BY SemInvType, SemAssumption DEF SemInv, semVars, TypeOK
<1> QED
  BY <1>1, <1>4, <1>5, <1>6, <1>7, SameGranted DEF SemInv

(***************************************************************************)
(* k_sem_give(): a waiter gets the unit, or the count does.                *)
(***************************************************************************)
LEMMA GiveKeepsSemInv ==
    ASSUME SemInv, z_impl_k_sem_give
    PROVE  SemInv'
<1>1. TypeOK /\ SchedInv
  BY SemInvType DEF SemInv
<1>2. ASSUME NEW w \in wait_q(sem), z_sched_wake({w}, "0"), units' = units + 1, UNCHANGED count
      PROVE  SemInv'
  <2>1. w \in Threads /\ pended_on[w] = sem
    BY DEF wait_q
  <2>2. SchedInv'
    BY <1>1, <1>2, <2>1, SemIsObject, WakeKeepsInv
  <2>3. /\ pended_on' = [u \in Threads |-> IF u \in {w} THEN None ELSE pended_on[u]]
        /\ swap_retval' = [u \in Threads |-> IF u \in {w} THEN "0" ELSE swap_retval[u]]
        /\ UNCHANGED call
    BY <1>2 DEF z_sched_wake, unpend_all
  <2>4. call[w] = "take" /\ w \notin Granted
    BY <2>1, SemIsObject DEF SemInv, TakeWait, Granted
  <2>5. \A t \in Threads : TakeWait(t)'
    BY <2>3, SemIsObject DEF SemInv, TakeWait
  <2>6. Granted' = Granted \cup {w}
    BY <2>1, <2>3, <2>4 DEF Granted
  <2>7. IsFiniteSet(Granted)' /\ Cardinality(Granted)' = Cardinality(Granted) + 1
    BY <2>4, <2>6, FS_AddElement DEF SemInv
  <2>8. NoLostGive'
    <3>1. count = 0
      BY <1>1, <1>2, SemAssumption DEF NoLostGive, SemInv
    <3> QED
      BY <1>2, <3>1 DEF NoLostGive
  <2>9. Cardinality(Granted) \in Nat /\ count \in Nat
    BY <1>1, FS_CardinalityType, SemAssumption DEF SemInv
  <2>10. units' = count' + Cardinality(Granted)'
    BY <1>2, <2>7, <2>9 DEF SemInv, UnitsConserved
  <2> QED
    BY <1>2, <2>2, <2>5, <2>7, <2>8, <2>10 DEF SemInv, UnitsConserved
<1>3. CASE wait_q(sem) = {} /\ count # Limit /\ GiveToCount
  <2>1. /\ UNCHANGED schedVars /\ count' = count + 1 /\ units' = units + 1
        /\ count' \in 0..Limit
    BY <1>1, <1>3, SemAssumption DEF GiveToCount, TypeOK
  <2>2. SchedInv'
    BY <1>1, <2>1, SchedInvStutters
  <2>3. UNCHANGED <<pended_on, call, swap_retval>>
    BY <2>1 DEF schedVars, threadVars
  <2>4. (\A t \in Threads : TakeWait(t)') /\ Granted' = Granted /\ wait_q(sem)' = wait_q(sem)
    BY <2>3 DEF SemInv, TakeWait, Granted, wait_q
  <2>5. NoLostGive'
    BY <1>3, <2>4 DEF NoLostGive
  <2> QED
    BY <2>1, <2>2, <2>4, <2>5, SameGranted
<1> QED
  BY <1>2, <1>3 DEF z_impl_k_sem_give, GiveToWaiter

(***************************************************************************)
(* k_sem_reset(): the waiters leave with -EAGAIN, the count is dropped.    *)
(***************************************************************************)
LEMMA ResetKeepsSemInv ==
    ASSUME SemInv, z_impl_k_sem_reset
    PROVE  SemInv'
<1>1. TypeOK /\ SchedInv
  BY SemInvType DEF SemInv
<1>2. PICK W \in SUBSET Threads : W = wait_q(sem)
  BY DEF wait_q
<1>3. z_sched_wake(W, "EAGAIN") /\ \A w \in W : pended_on[w] # None
  BY <1>2, SemIsObject DEF z_impl_k_sem_reset, wait_q
<1>4. SchedInv'
  BY <1>1, <1>3, WakeKeepsInv
<1>5. /\ pended_on' = [u \in Threads |-> IF u \in W THEN None ELSE pended_on[u]]
      /\ swap_retval' = [u \in Threads |-> IF u \in W THEN "EAGAIN" ELSE swap_retval[u]]
      /\ UNCHANGED call
  BY <1>3 DEF z_sched_wake, unpend_all
<1>6. \A u \in Threads : u \in W <=> pended_on[u] = sem
  BY <1>2 DEF wait_q
<1>7. \A t \in Threads : TakeWait(t)'
  BY <1>5, SemIsObject DEF SemInv, TakeWait
<1>8. Granted' = Granted
  BY <1>5, <1>6, SemIsObject DEF Granted
<1>9. /\ count' = 0 /\ count' = count + (-count) /\ units' = units + (-count)
      /\ -count \in Int /\ count' \in 0..Limit
  BY <1>1, SemAssumption DEF z_impl_k_sem_reset, TypeOK
<1>10. NoLostGive'
  BY <1>9 DEF NoLostGive
<1> QED
  <2>1. PICK d \in Int : d = -count
    BY <1>9
  <2> QED
    BY <1>4, <1>7, <1>8, <1>9, <1>10, <2>1, SameGranted

(***************************************************************************)
(* k_sem_take(): a unit of the count, or the wait queue.                   *)
(***************************************************************************)
LEMMA TakeKeepsSemInv ==
    ASSUME SemInv, NEW c \in Cpus, NEW t \in Threads, NEW wait \in Waits,
           z_impl_k_sem_take(c, t, wait)
    PROVE  SemInv'
<1>1. TypeOK /\ SchedInv
  BY SemInvType DEF SemInv
<1>2. CASE /\ count > 0 /\ count' = count - 1 /\ units' = units - 1
           /\ UNCHANGED schedVars
  <2>1. count' = count + (-1) /\ units' = units + (-1) /\ count' \in 0..Limit
    BY <1>1, <1>2, SemAssumption DEF TypeOK
  <2>2. SchedInv'
    BY <1>1, <1>2, SchedInvStutters
  <2>3. UNCHANGED <<pended_on, call, swap_retval>>
    BY <1>2 DEF schedVars, threadVars
  <2>4. (\A u \in Threads : TakeWait(u)') /\ Granted' = Granted /\ wait_q(sem)' = wait_q(sem)
    BY <2>3 DEF SemInv, TakeWait, Granted, wait_q
  <2>5. NoLostGive'
    BY <1>2, <2>4 DEF NoLostGive, SemInv
  <2> QED
    BY <2>1, <2>2, <2>4, <2>5, SameGranted
<1>3. CASE /\ count = 0 /\ call' = [call EXCEPT ![t] = "take"]
           /\ z_pend_curr(c, t, sem, wait)
           /\ UNCHANGED <<target, robbed, aborted, semVars>>
  <2>1. Runs(c, t)
    BY DEF z_impl_k_sem_take
  <2>2. /\ sem \in Objects \cup ({"join", "halt"} \X Threads)
        /\ \A u \in Threads : sem \notin {join_queue(u), halt_queue(u)}
        /\ "take" \in Calls \ {"halt", "retry"}
    BY SemIsObject, QueueNames DEF Calls
  <2>3. SchedInv'
    BY <1>1, <1>3, <2>1, <2>2, PendKeepsInv
  <2>4. /\ pended_on'[t] \in {sem, None} /\ swap_retval'[t] = "EAGAIN"
        /\ \A u \in Threads \ {t} : pended_on[u] \in Objects \cup {None} =>
               pended_on'[u] = pended_on[u] /\ swap_retval'[u] = swap_retval[u]
        /\ \A u \in Threads : pended_on'[u] \in Objects => pended_on'[u] = pended_on[u] \/ u = t
    BY <1>1, <1>3, <2>1, SemIsObject, PendEffect
  <2>5. call[t] = "none" /\ \A u \in Threads \ {t} : call'[u] = call[u]
    BY <1>1, <1>3, <2>1 DEF Runs, TypeOK, SchedTypeOK
  <2>6. call'[t] = "take"
    BY <1>1, <1>3 DEF TypeOK, SchedTypeOK
  <2>7. ASSUME NEW u \in Threads PROVE TakeWait(u)'
    BY <2>4, <2>5, <2>6, SemIsObject DEF SemInv, TakeWait
  <2>8. Granted' = Granted
    BY <2>4, <2>5, SemIsObject DEF SemInv, TakeWait, Granted
  <2>9. NoLostGive' /\ count' = count + 0 /\ units' = units + 0 /\ count' \in 0..Limit
    BY <1>1, <1>3 DEF NoLostGive, semVars, TypeOK
  <2> QED
    BY <2>3, <2>7, <2>8, <2>9, SameGranted
<1> QED
  BY <1>2, <1>3 DEF z_impl_k_sem_take

(***************************************************************************)
(* k_sem_take() returns in the thread that was woken: a granted unit is    *)
(* taken.                                                                  *)
(***************************************************************************)
LEMMA ReturnKeepsSemInv ==
    ASSUME SemInv, NEW c \in Cpus, NEW t \in Threads, TakeReturns(c, t)
    PROVE  SemInv'
<1>1. TypeOK /\ SchedInv
  BY SemInvType DEF SemInv
<1>2. /\ current[c] = t /\ "dead" \notin thread_state[t]
      /\ call[t] = "take" /\ pended_on[t] = None
      /\ call' = [call EXCEPT ![t] = "none"] /\ UNCHANGED target
      /\ swap_retval' = [swap_retval EXCEPT ![t] = "0"]
      /\ UNCHANGED <<dispatchVars, thread_state, pended_on, current, handler, historyVars, count>>
  BY DEF TakeReturns, Resumes, Executes
<1>3. SchedInv'
  BY <1>1, <1>2, ReturnKeepsInv
<1>4. /\ call'[t] = "none"
      /\ \A u \in Threads \ {t} : call'[u] = call[u] /\ swap_retval'[u] = swap_retval[u]
  BY <1>1, <1>2 DEF TypeOK, SchedTypeOK
<1>5. \A u \in Threads : TakeWait(u)'
  BY <1>2, <1>4, SemIsObject DEF SemInv, TakeWait
<1>6. NoLostGive'
  BY <1>2 DEF NoLostGive, wait_q, SemInv
<1>7. CASE swap_retval[t] = "0"
  <2>1. t \in Granted /\ Granted' = Granted \ {t} /\ units' = units - 1
    BY <1>2, <1>4, <1>7 DEF Granted, TakeReturns
  <2>2. IsFiniteSet(Granted)' /\ Cardinality(Granted)' = Cardinality(Granted) - 1
    BY <2>1, FS_RemoveElement DEF SemInv
  <2>3. Cardinality(Granted) \in Nat /\ count \in Nat
    BY <1>1, FS_CardinalityType, SemAssumption DEF SemInv
  <2>4. units' = count' + Cardinality(Granted)'
    BY <1>2, <2>1, <2>2, <2>3 DEF SemInv, UnitsConserved
  <2> QED
    BY <1>2, <1>3, <1>5, <1>6, <2>2, <2>4 DEF SemInv, UnitsConserved
<1>8. CASE swap_retval[t] # "0"
  <2>1. Granted' = Granted
    BY <1>2, <1>4, <1>8 DEF Granted
  <2>2. count' = count + 0 /\ units' = units + 0 /\ count' \in 0..Limit
    BY <1>1, <1>2, <1>8, SemAssumption DEF TakeReturns, TypeOK
  <2> QED
    BY <1>3, <1>5, <1>6, <2>1, <2>2, SameGranted
<1> QED
  BY <1>7, <1>8

(***************************************************************************)
(* Every step of the specification preserves the invariant.                *)
(***************************************************************************)
LEMMA SemInvStep == SemInv /\ [Next]_vars => SemInv'
<1> SUFFICES ASSUME SemInv, [Next]_vars PROVE SemInv'
  OBVIOUS
<1>1. CASE SchedNext /\ UNCHANGED semVars
  BY <1>1, SchedKeepsSemInv
<1>2. ASSUME NEW c \in Cpus, NEW t \in Threads, SemStep(c, t) PROVE SemInv'
  BY <1>2, TakeKeepsSemInv, ReturnKeepsSemInv DEF SemStep
<1>3. CASE z_impl_k_sem_give \/ z_impl_k_sem_reset
  BY <1>3, GiveKeepsSemInv, ResetKeepsSemInv
<1>4. CASE UNCHANGED vars
  <2>1. UNCHANGED <<pended_on, call, swap_retval, count, units>> /\ SchedInv'
    BY <1>4, SchedInvStutters DEF vars, schedVars, threadVars, semVars, SemInv
  <2>2. Granted' = Granted /\ wait_q(sem)' = wait_q(sem) /\ \A t \in Threads : TakeWait(t)'
    BY <2>1 DEF Granted, wait_q, TakeWait, SemInv
  <2>3. count' = count + 0 /\ units' = units + 0 /\ NoLostGive'
    BY <2>1, <2>2, SemInvType, SemAssumption DEF TypeOK, NoLostGive, SemInv
  <2> QED
    BY <2>1, <2>2, <2>3, SameGranted DEF SemInv
<1> QED
  BY <1>1, <1>2, <1>3, <1>4 DEF Next

\* The invariant holds throughout.
LEMMA SemInvariant == Spec => []SemInv
  BY SemInvInit, SemInvStep, PTL DEF Spec

(***************************************************************************)
(* No thread is on two CPUs, or on one and in the run queue, whatever      *)
(* wakers, timeouts, suspensions and aborts on other CPUs do.              *)
(***************************************************************************)
THEOREM ThreadsRunOnce == Spec => []RunsOnce
<1>1. SemInv => RunsOnce
  BY InvImplies DEF SemInv
<1> QED
  BY <1>1, SemInvariant, PTL

(***************************************************************************)
(* No thread that may run is forgotten, and none pends outside of a wait   *)
(* queue: every path of sched.c that makes a thread ready also queues it.  *)
(***************************************************************************)
THEOREM ThreadsNotForgotten == Spec => []NeverForgotten
<1>1. SemInv => NeverForgotten
  BY InvImplies DEF SemInv
<1> QED
  BY <1>1, SemInvariant, PTL

(***************************************************************************)
(* A timed wait always has its timeout linked or its handler on the way,   *)
(* unless k_thread_suspend() took it.                                      *)
(***************************************************************************)
THEOREM TimedWaitsEnd == Spec => []TimedWaitArmed
<1>1. SemInv => TimedWaitArmed
  BY InvImplies DEF SemInv
<1> QED
  BY <1>1, SemInvariant, PTL

(***************************************************************************)
(* k_thread_abort() returns to the thread that did the halting only when   *)
(* no timeout of the dead thread is on its way and a handler in flight has *)
(* been waited for.                                                        *)
(***************************************************************************)
THEOREM AbortLeavesNoTimeout == Spec => AbortedQuiet
<1> DEFINE Quiet == \A t \in aborted' :
                      /\ ~TimeoutOnItsWay(t)'
                      /\ t \notin aborted /\ inflight_timeout' = t => t \in active
<1>1. SemInv /\ SemInv' /\ [Next]_vars => [Quiet]_schedVars
  <2> SUFFICES ASSUME SemInv, SemInv', [Next]_vars, NEW t \in aborted'
               PROVE  /\ ~TimeoutOnItsWay(t)'
                      /\ t \notin aborted /\ inflight_timeout' = t => t \in active
    OBVIOUS
  <2>1. ~TimeoutOnItsWay(t)'
    BY DEF SemInv, SchedInv, SchedTypeOK, ThreadInv, Good
  <2>2. CASE SchedNext
    BY <2>1, <2>2, HaltWaitsForHandler DEF SemInv
  <2>3. CASE ~SchedNext
    <3>1. aborted' = aborted
      BY <2>3 DEF Next, SemStep, z_impl_k_sem_take, z_pend_curr, next_up, TakeReturns,
                  z_impl_k_sem_give, GiveToWaiter, GiveToCount, z_impl_k_sem_reset,
                  z_sched_wake, vars, schedVars, historyVars
    <3> QED
      BY <2>1, <3>1
  <2> QED
    BY <2>2, <2>3
<1> HIDE DEF Quiet
<1>2. Spec => [][Quiet]_schedVars
  BY <1>1, SemInvariant, PTL DEF Spec
<1> QED
  BY <1>2 DEF AbortedQuiet, Quiet

(***************************************************************************)
(* A dead thread leaves nobody waiting for it, except in the window in     *)
(* which halt_thread() has dropped the scheduler lock.                     *)
(***************************************************************************)
THEOREM DeadReleasesWaiters == Spec => []HaltWaitersReleased
<1>1. SemInv => HaltWaitersReleased
  BY DEF SemInv, SchedInv
<1> QED
  BY <1>1, SemInvariant, PTL

(***************************************************************************)
(* A late timeout handler never ends a wait it was not armed for.          *)
(***************************************************************************)
THEOREM StaleTimeoutHarmless == Spec => StaleNeverWakes
<1>1. SemInv /\ [Next]_vars =>
        [stale /\ handler = "entered" /\ handler' = "done" => UNCHANGED thread_state]_schedVars
  <2> SUFFICES ASSUME SemInv, [Next]_vars, stale, handler = "entered", handler' = "done"
               PROVE  UNCHANGED thread_state
    OBVIOUS
  <2>1. CASE SchedNext
    BY <2>1, StaleHandlerBails DEF SemInv
  <2>2. CASE ~SchedNext
    BY <2>2 DEF Next, SemStep, z_impl_k_sem_take, z_pend_curr, next_up, unpend_all, TakeReturns,
                z_impl_k_sem_give, GiveToWaiter, GiveToCount, z_impl_k_sem_reset, z_sched_wake,
                vars, schedVars, threadVars
  <2> QED
    BY <2>1, <2>2
<1> QED
  BY <1>1, SemInvariant, PTL DEF Spec, StaleNeverWakes

(***************************************************************************)
(* k_sem_give() and a timeout or an abort of the waiter it picks: no unit  *)
(* is left in the count while a thread waits for one.                      *)
(***************************************************************************)
THEOREM SemLosesNoGive == Spec => []NoLostGive
<1>1. SemInv => NoLostGive
  BY DEF SemInv
<1> QED
  BY <1>1, SemInvariant, PTL

(***************************************************************************)
(* Every state is well typed, and every unit given is in the count, reset  *)
(* away or granted to exactly one call of k_sem_take().                    *)
(***************************************************************************)
THEOREM SemUnitsSafe == Spec => [](TypeOK /\ UnitsConserved)
<1>1. SemInv => TypeOK /\ UnitsConserved
  BY SemInvType DEF SemInv
<1> QED
  BY <1>1, SemInvariant, PTL

(***************************************************************************)
(* The semaphore count stays within 0..limit and every thread in a state   *)
(* of the scheduler, whichever gives, takes, resets and aborts race.       *)
(***************************************************************************)
THEOREM SemTyped == Spec => []TypeOK
  BY SemUnitsSafe, PTL

=============================================================================
