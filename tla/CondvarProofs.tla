--------------------------- MODULE CondvarProofs ---------------------------
(***************************************************************************)
(* Theorems about Condvar, for any number of threads and mutexes, whatever *)
(* their priorities.                                                       *)
(***************************************************************************)
EXTENDS Condvar, MutexProofs

(***************************************************************************)
(* The inductive invariant.  The mutex part is the IInv of MutexProofs.    *)
(* Ready separates the two things a pended thread may wait for, and        *)
(* WaitInv follows the mutex of a k_condvar_wait() through its release,    *)
(* the wait and the two ways to get it back: at once or handed over.       *)
(***************************************************************************)
CondType ==
    /\ cond \in [Threads -> {"none", "unlocked", "waiting", "woken", "locking"}]
    /\ cond_mutex \in [Threads -> Mutexes \cup {None}]
    /\ depth \in [Threads -> 0..MaxCount]
    /\ timeout \in [Threads -> {"inactive", "armed", "popped"}]

Ready == \A t \in Threads : state[t] = "ready" => mutex_pended_on[t] = None

SpinlockHeld == \A t \in Threads : cond[t] = "unlocked" => condvar_lock = t

\* The mutex is out of t's hands, or held one level less than it was.
LetGo(t) ==
    /\ mutex_pended_on[t] = None
    /\ owner[cond_mutex[t]] = t => lock_count[cond_mutex[t]] = depth[t] - 1
    /\ owner[cond_mutex[t]] # t => depth[t] = 1

GotBack(t) ==
    /\ state[t] = "ready"
    /\ owner[cond_mutex[t]] = t /\ lock_count[cond_mutex[t]] = depth[t]

InLine(t) ==
    /\ state[t] = "pended" /\ timeout[t] = "inactive"
    /\ mutex_pended_on[t] = cond_mutex[t]
    /\ owner[cond_mutex[t]] # t /\ depth[t] = 1

WaitInv(t) ==
    /\ cond[t] # "none" => cond_mutex[t] \in Mutexes
    /\ cond[t] \in {"unlocked", "waiting", "woken"} => LetGo(t)
    /\ cond[t] = "locking" /\ ~deadlock => GotBack(t) \/ InLine(t)

CondInv ==
    /\ IInv
    /\ CondType
    /\ Ready
    /\ SpinlockHeld
    /\ ~lost
    /\ \A t \in Threads : WaitInv(t)

(***************************************************************************)
(* The initial state satisfies the inductive invariant.                    *)
(***************************************************************************)
LEMMA CondInvInit == z_impl_k_condvar_init => CondInv
<1> SUFFICES ASSUME z_impl_k_condvar_init PROVE CondInv
  OBVIOUS
<1>1. IInv
  BY InvariantInit DEF z_impl_k_condvar_init
<1>2. CondType
  BY MutexAssumption DEF z_impl_k_condvar_init, z_impl_k_mutex_init, CondType
<1>3. Ready /\ SpinlockHeld
  BY DEF z_impl_k_condvar_init, z_impl_k_mutex_init, Ready, SpinlockHeld
<1>4. \A t \in Threads : WaitInv(t)
  BY DEF z_impl_k_condvar_init, WaitInv
<1> QED
  BY <1>1, <1>2, <1>3, <1>4 DEF CondInv, z_impl_k_condvar_init

(***************************************************************************)
(* A step that leaves thread u where it is, and neither gives it its mutex *)
(* nor takes it away.                                                      *)
(***************************************************************************)
LEMMA UntouchedKeepsWait ==
    ASSUME NEW u \in Threads, WaitInv(u),
           cond'[u] = cond[u], cond_mutex'[u] = cond_mutex[u], depth'[u] = depth[u],
           state'[u] = state[u], mutex_pended_on'[u] = mutex_pended_on[u],
           timeout'[u] = timeout[u], deadlock => deadlock',
           \/ /\ owner'[cond_mutex[u]] = owner[cond_mutex[u]]
              /\ lock_count'[cond_mutex[u]] = lock_count[cond_mutex[u]]
           \/ owner[cond_mutex[u]] # u /\ owner'[cond_mutex[u]] # u
    PROVE  WaitInv(u)'
<1>1. CASE cond[u] = "none"
  BY <1>1 DEF WaitInv
<1>2. CASE cond[u] \in {"unlocked", "waiting", "woken"}
  <2>1. LetGo(u)'
    BY <1>2 DEF WaitInv, LetGo
  <2> QED
    BY <1>2, <2>1 DEF WaitInv
<1>3. CASE cond[u] = "locking"
  <2>1. ASSUME ~deadlock' PROVE (GotBack(u) \/ InLine(u))'
    BY <1>3, <2>1 DEF WaitInv, GotBack, InLine
  <2> QED
    BY <1>3, <2>1 DEF WaitInv
<1>4. CASE cond[u] \notin {"none", "unlocked", "waiting", "woken", "locking"}
  BY <1>4 DEF WaitInv
<1> QED
  BY <1>1, <1>2, <1>3, <1>4

(***************************************************************************)
(* What k_mutex_lock() and k_mutex_unlock() of thread t do to the wait of  *)
(* another thread: a waiter in line may be handed its mutex at the depth   *)
(* it had it; nobody else notices.                                         *)
(***************************************************************************)
LEMMA MutexCallsKeepOthers ==
    ASSUME CondInv, NEW t \in Threads, NEW m \in Mutexes, NEW wait,
           \/ LockGranted(t, m) \/ LockPends(t, m, wait) \/ LockAsserts(t, m, wait)
           \/ z_impl_k_mutex_unlock(t, m),
           NEW u \in Threads, u # t,
           cond'[u] = cond[u], cond_mutex'[u] = cond_mutex[u], depth'[u] = depth[u]
    PROVE  WaitInv(u)'
<1>0. WaitInv(u) /\ OwnershipType /\ OwnershipConsistent /\ CondType /\ Ready
  BY DEF CondInv, IInv
<1> DEFINE cm == cond_mutex[u]
<1>1. CASE LockGranted(t, m)
  <2>1. owner[m] # u
    BY <1>0, <1>1, MutexAssumption DEF LockGranted, OwnershipConsistent
  <2>2. /\ state'[u] = state[u] /\ mutex_pended_on'[u] = mutex_pended_on[u]
        /\ timeout'[u] = timeout[u] /\ deadlock' = deadlock
    BY <1>1 DEF LockGranted
  <2>3. CASE cm = m
    <3>1. owner'[m] = t
      BY <1>0, <1>1 DEF LockGranted, OwnershipType
    <3> QED
      BY <1>0, <2>1, <2>2, <2>3, <3>1, UntouchedKeepsWait
  <2>4. CASE cm # m
    <3>1. owner'[cm] = owner[cm] /\ lock_count'[cm] = lock_count[cm]
      BY <1>0, <1>1, <2>4 DEF LockGranted, OwnershipType
    <3> QED
      BY <1>0, <2>2, <3>1, UntouchedKeepsWait
  <2> QED
    BY <2>3, <2>4
<1>2. CASE LockPends(t, m, wait)
  <2>1. /\ state'[u] = state[u] /\ mutex_pended_on'[u] = mutex_pended_on[u]
        /\ timeout'[u] = timeout[u] /\ deadlock' = deadlock
        /\ owner' = owner /\ lock_count' = lock_count
    BY <1>0, <1>2 DEF LockPends, OwnershipType, CondType
  <2> QED
    BY <1>0, <2>1, UntouchedKeepsWait
<1>3. CASE LockAsserts(t, m, wait)
  <2>1. /\ state'[u] = state[u] /\ mutex_pended_on'[u] = mutex_pended_on[u]
        /\ timeout'[u] = timeout[u] /\ deadlock'
        /\ owner' = owner /\ lock_count' = lock_count
    BY <1>3 DEF LockAsserts
  <2> QED
    BY <1>0, <2>1, UntouchedKeepsWait
<1>4. CASE UnlockRecursive(t, m)
  <2>1. /\ state'[u] = state[u] /\ mutex_pended_on'[u] = mutex_pended_on[u]
        /\ timeout'[u] = timeout[u] /\ deadlock' = deadlock
        /\ owner' = owner /\ owner[m] = t
    BY <1>4 DEF UnlockRecursive
  <2>2. cm # m => lock_count'[cm] = lock_count[cm]
    BY <1>0, <1>4 DEF UnlockRecursive, OwnershipType
  <2> QED
    BY <1>0, <2>1, <2>2, UntouchedKeepsWait
<1>5. CASE UnlockReleases(t, m)
  <2>1. owner[m] = t /\ lock_count[m] = 1 /\ deadlock' = deadlock /\ u # None
    BY <1>5, MutexAssumption DEF UnlockReleases
  <2>2. CASE wait_q(m) = {}
    <3>1. /\ state'[u] = state[u] /\ mutex_pended_on'[u] = mutex_pended_on[u]
          /\ timeout'[u] = timeout[u]
          /\ owner' = [owner EXCEPT ![m] = None] /\ lock_count' = [lock_count EXCEPT ![m] = 0]
      BY <1>5, <2>2 DEF UnlockReleases
    <3>2. /\ owner'[m] = None
          /\ cm # m => owner'[cm] = owner[cm] /\ lock_count'[cm] = lock_count[cm]
      BY <1>0, <3>1 DEF OwnershipType
    <3> QED
      BY <1>0, <2>1, <3>1, <3>2, UntouchedKeepsWait
  <2>3. CASE wait_q(m) # {}
    <3>1. PICK w \in wait_q(m) :
            /\ owner' = [owner EXCEPT ![m] = w]
            /\ mutex_pended_on' = [mutex_pended_on EXCEPT ![w] = None]
            /\ state' = [state EXCEPT ![w] = "ready"]
            /\ timeout' = [timeout EXCEPT ![w] = "inactive"]
            /\ UNCHANGED lock_count
      BY <1>5, <2>3 DEF UnlockReleases
    <3>2. w \in Threads /\ state[w] = "pended" /\ mutex_pended_on[w] = m
      BY DEF wait_q
    <3>3. /\ owner'[m] = w
          /\ cm # m => owner'[cm] = owner[cm] /\ lock_count'[cm] = lock_count[cm]
      BY <1>0, <3>1 DEF OwnershipType
    <3>4. CASE u # w
      <4>1. /\ state'[u] = state[u] /\ mutex_pended_on'[u] = mutex_pended_on[u]
            /\ timeout'[u] = timeout[u]
        BY <1>0, <3>1, <3>4 DEF OwnershipType, CondType
      <4> QED
        BY <1>0, <2>1, <3>1, <3>3, <3>4, <4>1, UntouchedKeepsWait
    <3>5. CASE u = w
      <4>1. mutex_pended_on[u] # None
        BY <3>2, <3>5, MutexAssumption
      <4>2. cond[u] \notin {"unlocked", "waiting", "woken"}
        BY <1>0, <4>1 DEF WaitInv, LetGo
      <4>3. ASSUME cond[u] = "locking", ~deadlock PROVE GotBack(u)'
        <5>1. cm = m /\ depth[u] = 1
          BY <1>0, <3>2, <3>5, <4>3 DEF WaitInv, GotBack, InLine
        <5>2. state'[u] = "ready" /\ lock_count'[m] = 1
          BY <1>0, <2>1, <3>1, <3>5 DEF OwnershipType
        <5> QED
          BY <3>3, <3>5, <5>1, <5>2 DEF GotBack
      <4> QED
        BY <1>0, <2>1, <4>2, <4>3 DEF WaitInv
    <3> QED
      BY <3>4, <3>5
  <2> QED
    BY <2>2, <2>3
<1> QED
  BY <1>1, <1>2, <1>3, <1>4, <1>5 DEF z_impl_k_mutex_unlock

(***************************************************************************)
(* The calls of mutex.c leave a ready thread waiting for no mutex.         *)
(***************************************************************************)
LEMMA MutexCallsKeepReady ==
    ASSUME CondInv, NEW t \in Threads, NEW m \in Mutexes, NEW wait,
           \/ LockGranted(t, m) \/ LockPends(t, m, wait) \/ LockAsserts(t, m, wait)
           \/ z_impl_k_mutex_unlock(t, m)
    PROVE  Ready' /\ timeout' \in [Threads -> {"inactive", "armed", "popped"}]
<1>0. OwnershipType /\ CondType /\ Ready
  BY DEF CondInv, IInv
<1>1. CASE LockGranted(t, m) \/ LockAsserts(t, m, wait) \/ UnlockRecursive(t, m)
  BY <1>0, <1>1 DEF LockGranted, LockAsserts, UnlockRecursive, Ready, CondType
<1>2. CASE LockPends(t, m, wait)
  BY <1>0, <1>2 DEF LockPends, Ready, CondType, OwnershipType
<1>3. CASE UnlockReleases(t, m)
  <2>1. CASE wait_q(m) = {}
    BY <1>0, <1>3, <2>1 DEF UnlockReleases, Ready, CondType
  <2>2. CASE wait_q(m) # {}
    <3>1. PICK w \in wait_q(m) :
            /\ mutex_pended_on' = [mutex_pended_on EXCEPT ![w] = None]
            /\ state' = [state EXCEPT ![w] = "ready"]
            /\ timeout' = [timeout EXCEPT ![w] = "inactive"]
      BY <1>3, <2>2 DEF UnlockReleases
    <3>2. w \in Threads
      BY DEF wait_q
    <3> QED
      BY <1>0, <3>1, <3>2 DEF Ready, CondType, OwnershipType
  <2> QED
    BY <2>1, <2>2
<1> QED
  BY <1>1, <1>2, <1>3 DEF z_impl_k_mutex_unlock

(***************************************************************************)
(* A thread outside of k_condvar_wait() uses a mutex, or a timeout of any  *)
(* thread runs.                                                            *)
(***************************************************************************)
LEMMA MutexStepKeepsCondInv ==
    ASSUME CondInv, NEW t \in Threads, MutexStep(t)
    PROVE  CondInv'
<1>0. /\ OwnershipType /\ CondType /\ Ready /\ SpinlockHeld
      /\ \A u \in Threads : WaitInv(u)
  BY DEF CondInv, IInv
<1>1. UNCHANGED condVars
  BY DEF MutexStep
<1>2. SpinlockHeld' /\ ~lost'
  BY <1>1 DEF CondInv, SpinlockHeld, condVars
<1>3. CASE cond[t] = "none" /\ \E m \in Mutexes : z_impl_k_mutex_lock(t, m) \/ z_impl_k_mutex_unlock(t, m)
  <2>1. PICK m \in Mutexes : z_impl_k_mutex_lock(t, m) \/ z_impl_k_mutex_unlock(t, m)
    BY <1>3
  <2>2. PICK wait : \/ LockGranted(t, m) \/ LockPends(t, m, wait) \/ LockAsserts(t, m, wait)
                    \/ z_impl_k_mutex_unlock(t, m)
    BY <2>1 DEF z_impl_k_mutex_lock
  <2>3. IInv'
    BY <2>1, InvariantStep DEF CondInv, Next
  <2>4. Ready' /\ CondType'
    BY <1>0, <1>1, <2>2, MutexCallsKeepReady DEF CondType, condVars
  <2>5. ASSUME NEW u \in Threads PROVE WaitInv(u)'
    <3>1. CASE u = t
      BY <1>1, <1>3, <3>1 DEF WaitInv, condVars
    <3>2. CASE u # t
      BY <1>1, <2>2, <3>2, MutexCallsKeepOthers DEF condVars
    <3> QED
      BY <3>1, <3>2
  <2> QED
    BY <1>2, <2>3, <2>4, <2>5 DEF CondInv
<1>4. CASE cond[t] # "waiting" /\ LockTimesOut(t)
  <2>1. IInv'
    BY <1>4, InvariantStep DEF CondInv, Next
  <2>2. /\ state[t] = "timedout" /\ ~deadlock
        /\ state' = [state EXCEPT ![t] = "ready"]
        /\ mutex_pended_on' = [mutex_pended_on EXCEPT ![t] = None]
        /\ UNCHANGED <<owner, lock_count, timeout, deadlock>>
    BY <1>4 DEF LockTimesOut
  <2>3. Ready' /\ CondType'
    BY <1>0, <1>1, <2>2 DEF Ready, OwnershipType, CondType, condVars
  <2>4. ASSUME NEW u \in Threads PROVE WaitInv(u)'
    <3>1. CASE u = t
      <4>1. cond[t] # "locking"
        BY <1>0, <2>2 DEF WaitInv, GotBack, InLine
      <4>2. mutex_pended_on'[t] = None
        BY <1>0, <2>2 DEF OwnershipType
      <4> QED
        BY <1>0, <1>1, <2>2, <3>1, <4>1, <4>2 DEF WaitInv, LetGo, condVars
    <3>2. CASE u # t
      <4>1. state'[u] = state[u] /\ mutex_pended_on'[u] = mutex_pended_on[u]
        BY <1>0, <2>2, <3>2 DEF OwnershipType
      <4> QED
        BY <1>0, <1>1, <2>2, <4>1, UntouchedKeepsWait DEF condVars
    <3> QED
      BY <3>1, <3>2
  <2> QED
    BY <1>2, <2>1, <2>3, <2>4 DEF CondInv
<1>5. CASE TimeoutPopped(t) \/ z_thread_timeout(t)
  <2>1. IInv'
    BY <1>5, InvariantStep DEF CondInv, Next
  <2>2. /\ timeout[t] # "inactive" /\ ~deadlock
        /\ UNCHANGED <<owner, lock_count, mutex_pended_on, deadlock>>
    BY <1>5 DEF TimeoutPopped, z_thread_timeout
  <2>3. /\ \A u \in Threads : u # t => state'[u] = state[u] /\ timeout'[u] = timeout[u]
        /\ state'[t] = "ready" => state[t] = "ready"
        /\ state[t] = "ready" => state'[t] = "ready"
        /\ timeout' \in [Threads -> {"inactive", "armed", "popped"}]
    BY <1>0, <1>5 DEF TimeoutPopped, z_thread_timeout, OwnershipType, CondType
  <2>4. Ready' /\ CondType'
    BY <1>0, <1>1, <2>2, <2>3 DEF Ready, CondType, condVars
  <2>5. ASSUME NEW u \in Threads PROVE WaitInv(u)'
    <3>1. CASE u = t
      BY <1>0, <1>1, <2>2, <2>3, <3>1 DEF WaitInv, LetGo, GotBack, InLine, condVars
    <3>2. CASE u # t
      BY <1>0, <1>1, <2>2, <2>3, <3>2, UntouchedKeepsWait DEF condVars
    <3> QED
      BY <3>1, <3>2
  <2> QED
    BY <1>2, <2>1, <2>4, <2>5 DEF CondInv
<1> QED
  BY <1>3, <1>4, <1>5 DEF MutexStep

(***************************************************************************)
(* k_condvar_wait() releases the mutex with condvar_lock held.             *)
(***************************************************************************)
LEMMA WaitUnlockKeepsCondInv ==
    ASSUME CondInv, NEW t \in Threads, NEW m \in Mutexes, z_impl_k_condvar_wait(t, m)
    PROVE  CondInv'
<1>0. /\ OwnershipType /\ OwnershipConsistent /\ CondType /\ Ready /\ SpinlockHeld
      /\ \A u \in Threads : WaitInv(u)
  BY DEF CondInv, IInv
<1>1. /\ condvar_lock = None /\ condvar_lock' = t
      /\ cond' = [cond EXCEPT ![t] = "unlocked"]
      /\ cond_mutex' = [cond_mutex EXCEPT ![t] = m]
      /\ depth' = [depth EXCEPT ![t] = lock_count[m]]
      /\ lost' = lost /\ z_impl_k_mutex_unlock(t, m)
      /\ state[t] = "ready" /\ owner[m] = t
  BY DEF z_impl_k_condvar_wait, WaitUnlocks, Running
<1>2. IInv'
  BY <1>1, InvariantStep DEF CondInv, Next
<1>3. Ready' /\ CondType'
  BY <1>0, <1>1, MutexCallsKeepReady DEF CondType, OwnershipType
<1>4. SpinlockHeld'
  <2>1. \A u \in Threads : cond[u] # "unlocked"
    BY <1>0, <1>1, MutexAssumption DEF SpinlockHeld
  <2> QED
    BY <1>0, <1>1, <2>1 DEF SpinlockHeld, CondType
<1>5. WaitInv(t)'
  <2>1. /\ cond'[t] = "unlocked" /\ cond_mutex'[t] = m
        /\ depth'[t] = lock_count[m] /\ lock_count[m] \in Nat
    BY <1>0, <1>1 DEF CondType, OwnershipType
  <2>2. mutex_pended_on[t] = None
    BY <1>0, <1>1 DEF Ready
  <2>3. CASE UnlockRecursive(t, m)
    <3>1. owner'[m] = t /\ lock_count'[m] = lock_count[m] - 1 /\ mutex_pended_on'[t] = None
      BY <1>0, <1>1, <2>2, <2>3 DEF UnlockRecursive, OwnershipType
    <3> QED
      BY <2>1, <3>1 DEF WaitInv, LetGo
  <2>4. CASE UnlockReleases(t, m)
    <3>1. owner'[m] # t /\ mutex_pended_on'[t] = None /\ lock_count[m] = 1
      <4>1. CASE wait_q(m) = {}
        BY <1>0, <2>2, <2>4, <4>1, MutexAssumption DEF UnlockReleases, OwnershipType
      <4>2. CASE wait_q(m) # {}
        <5>1. PICK w \in wait_q(m) :
                /\ owner' = [owner EXCEPT ![m] = w]
                /\ mutex_pended_on' = [mutex_pended_on EXCEPT ![w] = None]
          BY <2>4, <4>2 DEF UnlockReleases
        <5>2. w # t /\ w \in Threads
          BY <1>1 DEF wait_q
        <5> QED
          BY <1>0, <2>2, <2>4, <5>1, <5>2 DEF UnlockReleases, OwnershipType
      <4> QED
        BY <4>1, <4>2
    <3> QED
      BY <2>1, <3>1 DEF WaitInv, LetGo
  <2> QED
    BY <1>1, <2>3, <2>4 DEF z_impl_k_mutex_unlock
<1>6. ASSUME NEW u \in Threads, u # t PROVE WaitInv(u)'
  <2>1. cond'[u] = cond[u] /\ cond_mutex'[u] = cond_mutex[u] /\ depth'[u] = depth[u]
    BY <1>0, <1>1, <1>6 DEF CondType
  <2> QED
    BY <1>1, <1>6, <2>1, MutexCallsKeepOthers
<1> QED
  BY <1>1, <1>2, <1>3, <1>4, <1>5, <1>6 DEF CondInv

(***************************************************************************)
(* A thread begins to wait for a signal, times out, or is woken: threads   *)
(* W change state, none of them waiting for a mutex and none locking one.  *)
(***************************************************************************)
LEMMA CondWaitersKeepCondInv ==
    ASSUME CondInv, NEW W \in SUBSET Threads,
           UNCHANGED <<owner, lock_count, held_mutexes, mutex_pended_on, deadlock,
                       cond_mutex, depth>>,
           ~lost',
           state' \in [Threads -> {"ready", "pended", "timedout"}],
           timeout' \in [Threads -> {"inactive", "armed", "popped"}],
           cond' \in [Threads -> {"none", "unlocked", "waiting", "woken", "locking"}],
           \A t \in Threads \ W : /\ state'[t] = state[t] /\ timeout'[t] = timeout[t]
                                  /\ cond'[t] = cond[t],
           \A t \in W : /\ cond[t] \in {"unlocked", "waiting"}
                        /\ cond'[t] \in {"waiting", "woken"},
           \A t \in Threads \ W : cond[t] = "unlocked" => condvar_lock' = t
    PROVE  CondInv'
<1>0. /\ OwnershipType /\ OwnershipConsistent /\ CondType /\ Ready
      /\ \A u \in Threads : WaitInv(u)
  BY DEF CondInv, IInv
<1>1. \A t \in W : mutex_pended_on[t] = None
  BY <1>0 DEF WaitInv, LetGo
<1>2. IInv'
  <2>1. \A n \in Mutexes : wait_q(n)' \subseteq wait_q(n)
    BY <1>1, MutexAssumption DEF wait_q
  <2> QED
    BY <1>0, <2>1, WaitersKeepIInv DEF CondInv, OwnershipType
<1>3. CondType' /\ Ready'
  BY <1>0, <1>1 DEF CondType, Ready
<1>4. SpinlockHeld'
  BY DEF SpinlockHeld
<1>5. ASSUME NEW u \in Threads PROVE WaitInv(u)'
  <2>1. CASE u \in W
    <3>1. LetGo(u) /\ cond_mutex[u] \in Mutexes
      BY <1>0, <2>1 DEF WaitInv
    <3> QED
      BY <2>1, <3>1 DEF WaitInv, LetGo
  <2>2. CASE u \notin W
    BY <1>0, <2>2, UntouchedKeepsWait
  <2> QED
    BY <2>1, <2>2
<1> QED
  BY <1>2, <1>3, <1>4, <1>5 DEF CondInv

(***************************************************************************)
(* k_condvar_wait() takes the mutex back: at once, or by getting in line.  *)
(***************************************************************************)
LEMMA WaitLocksKeepsCondInv ==
    ASSUME CondInv, NEW t \in Threads, WaitLocks(t)
    PROVE  CondInv'
<1>0. /\ OwnershipType /\ OwnershipConsistent /\ CondType /\ Ready /\ SpinlockHeld
      /\ WaitInv(t)
  BY DEF CondInv, IInv
<1> DEFINE m == cond_mutex[t]
<1>1. /\ cond[t] = "woken" /\ cond' = [cond EXCEPT ![t] = "locking"]
      /\ UNCHANGED <<cond_mutex, condvar_lock, depth, lost>>
      /\ LockGranted(t, m) \/ LockPends(t, m, "forever") \/ LockAsserts(t, m, "forever")
  BY DEF WaitLocks
<1>2. m \in Mutexes /\ LetGo(t) /\ cond'[t] = "locking"
  BY <1>0, <1>1 DEF WaitInv, CondType
<1> HIDE DEF m
<1>3. IInv'
  <2>1. CASE LockGranted(t, m)
    BY <1>2, <2>1, GrantKeepsIInv DEF CondInv
  <2>2. CASE LockPends(t, m, "forever")
    BY <1>2, <2>2, PendKeepsIInv DEF CondInv
  <2>3. CASE LockAsserts(t, m, "forever")
    BY <2>3 DEF CondInv, LockAsserts, IInv, OwnershipType, OwnershipConsistent, wait_q
  <2> QED
    BY <1>1, <2>1, <2>2, <2>3
<1>4. Ready' /\ CondType'
  BY <1>0, <1>1, <1>2, MutexCallsKeepReady DEF CondType
<1>5. SpinlockHeld' /\ ~lost'
  BY <1>0, <1>1 DEF SpinlockHeld, CondType, CondInv
<1>6. WaitInv(t)'
  <2>1. depth[t] \in Int
    BY <1>0, MutexAssumption DEF CondType
  <2>2. CASE LockGranted(t, m)
    <3>1. /\ owner'[m] = t /\ lock_count'[m] = lock_count[m] + 1 /\ state'[t] = "ready"
          /\ lock_count[m] = 0 \/ owner[m] = t
      BY <1>0, <1>2, <2>2 DEF LockGranted, Running, OwnershipType
    <3>2. lock_count[m] = depth[t] - 1
      <4>1. CASE owner[m] = t
        BY <1>2, <4>1 DEF LetGo, m
      <4>2. CASE owner[m] # t
        <5>1. depth[t] = 1 /\ lock_count[m] = 0
          BY <1>2, <3>1, <4>2 DEF LetGo, m
        <5> QED
          BY <5>1
      <4> QED
        BY <4>1, <4>2
    <3>3. lock_count'[m] = depth[t]
      BY <2>1, <3>1, <3>2
    <3>4. GotBack(t)'
      BY <1>1, <3>1, <3>3 DEF GotBack, m
    <3> QED
      BY <1>1, <1>2, <3>4 DEF WaitInv, m
  <2>3. CASE LockPends(t, m, "forever")
    <3>1. /\ state'[t] = "pended" /\ timeout'[t] = "inactive" /\ mutex_pended_on'[t] = m
          /\ owner' = owner /\ owner[m] # t
      BY <1>0, <1>2, <2>3 DEF LockPends, OwnershipType, CondType
    <3>2. InLine(t)'
      BY <1>1, <1>2, <3>1 DEF InLine, LetGo, m
    <3> QED
      BY <1>1, <1>2, <3>2 DEF WaitInv, m
  <2>4. CASE LockAsserts(t, m, "forever")
    <3>1. deadlock'
      BY <2>4 DEF LockAsserts
    <3> QED
      BY <1>1, <1>2, <3>1 DEF WaitInv, m
  <2> QED
    BY <1>1, <2>2, <2>3, <2>4
<1>7. ASSUME NEW u \in Threads, u # t PROVE WaitInv(u)'
  <2>1. cond'[u] = cond[u] /\ cond_mutex'[u] = cond_mutex[u] /\ depth'[u] = depth[u]
    BY <1>0, <1>1, <1>7 DEF CondType
  <2> QED
    BY <1>1, <1>2, <1>7, <2>1, MutexCallsKeepOthers
<1> QED
  BY <1>3, <1>4, <1>5, <1>6, <1>7 DEF CondInv

(***************************************************************************)
(* A signal or a broadcast, which must find condvar_lock free.             *)
(***************************************************************************)
LEMMA WakeKeepsCondInv ==
    ASSUME CondInv, condvar_lock = None, NEW W \in SUBSET cond_wait_q, Wake(W)
    PROVE  CondInv'
<1>0. /\ OwnershipType /\ CondType /\ SpinlockHeld /\ ~lost
  BY DEF CondInv, IInv
<1>1. \A t \in Threads : cond[t] # "unlocked"
  BY <1>0, MutexAssumption DEF SpinlockHeld
<1>2. W \in SUBSET Threads /\ \A t \in W : cond[t] = "waiting"
  BY DEF cond_wait_q
<1>3. /\ UNCHANGED <<owner, lock_count, held_mutexes, mutex_pended_on, deadlock,
                     cond_mutex, depth>>
      /\ ~lost'
  BY <1>0, <1>1 DEF Wake
<1>4. /\ state' \in [Threads -> {"ready", "pended", "timedout"}]
      /\ timeout' \in [Threads -> {"inactive", "armed", "popped"}]
      /\ cond' \in [Threads -> {"none", "unlocked", "waiting", "woken", "locking"}]
  BY <1>0 DEF Wake, OwnershipType, CondType
<1>5. /\ \A t \in Threads \ W : /\ state'[t] = state[t] /\ timeout'[t] = timeout[t]
                                /\ cond'[t] = cond[t]
      /\ \A t \in W : cond'[t] = "woken"
  BY <1>2 DEF Wake
<1> QED
  BY <1>1, <1>2, <1>3, <1>4, <1>5, CondWaitersKeepCondInv

(***************************************************************************)
(* Every step keeps the inductive invariant.                               *)
(***************************************************************************)
LEMMA CondInvStep == CondInv /\ [CondvarNext]_allVars => CondInv'
<1> SUFFICES ASSUME CondInv, [CondvarNext]_allVars PROVE CondInv'
  OBVIOUS
<1>0. /\ OwnershipType /\ CondType /\ SpinlockHeld /\ ~lost
      /\ \A u \in Threads : WaitInv(u)
  BY DEF CondInv, IInv
<1>1. ASSUME NEW t \in Threads, MutexStep(t) PROVE CondInv'
  BY <1>1, MutexStepKeepsCondInv
<1>2. ASSUME NEW t \in Threads, NEW m \in Mutexes, z_impl_k_condvar_wait(t, m) PROVE CondInv'
  BY <1>2, WaitUnlockKeepsCondInv
<1>3. ASSUME NEW t \in Threads, NEW wait, WaitPends(t, wait) PROVE CondInv'
  <2>1. /\ UNCHANGED <<owner, lock_count, held_mutexes, mutex_pended_on, deadlock,
                       cond_mutex, depth>>
        /\ ~lost' /\ cond[t] = "unlocked" /\ {t} \in SUBSET Threads
    BY <1>0, <1>3 DEF WaitPends
  <2>2. /\ state' \in [Threads -> {"ready", "pended", "timedout"}]
        /\ timeout' \in [Threads -> {"inactive", "armed", "popped"}]
        /\ cond' \in [Threads -> {"none", "unlocked", "waiting", "woken", "locking"}]
        /\ cond'[t] = "waiting"
        /\ \A u \in Threads \ {t} : /\ state'[u] = state[u] /\ timeout'[u] = timeout[u]
                                    /\ cond'[u] = cond[u]
    BY <1>0, <1>3 DEF WaitPends, OwnershipType, CondType
  <2>3. \A u \in Threads \ {t} : cond[u] # "unlocked"
    BY <1>0, <2>1 DEF SpinlockHeld
  <2> QED
    BY <2>1, <2>2, <2>3, CondWaitersKeepCondInv
<1>4. ASSUME NEW t \in Threads, WaitTimesOut(t) PROVE CondInv'
  <2>1. /\ UNCHANGED <<owner, lock_count, held_mutexes, mutex_pended_on, deadlock,
                       cond_mutex, depth>>
        /\ ~lost' /\ cond[t] = "waiting" /\ {t} \in SUBSET Threads
        /\ condvar_lock' = condvar_lock
    BY <1>0, <1>4 DEF WaitTimesOut, TimedOut
  <2>2. /\ state' \in [Threads -> {"ready", "pended", "timedout"}]
        /\ timeout' \in [Threads -> {"inactive", "armed", "popped"}]
        /\ cond' \in [Threads -> {"none", "unlocked", "waiting", "woken", "locking"}]
        /\ cond'[t] = "woken"
        /\ \A u \in Threads \ {t} : /\ state'[u] = state[u] /\ timeout'[u] = timeout[u]
                                    /\ cond'[u] = cond[u]
    BY <1>0, <1>4 DEF WaitTimesOut, TimedOut, OwnershipType, CondType
  <2>3. \A u \in Threads \ {t} : cond[u] = "unlocked" => condvar_lock' = u
    BY <1>0, <2>1 DEF SpinlockHeld
  <2> QED
    BY <2>1, <2>2, <2>3, CondWaitersKeepCondInv
<1>5. ASSUME NEW t \in Threads, WaitLocks(t) PROVE CondInv'
  BY <1>5, WaitLocksKeepsCondInv
<1>6. ASSUME NEW t \in Threads, WaitReturns(t) PROVE CondInv'
  <2>1. /\ UNCHANGED <<vars, condvar_lock, lost>>
        /\ cond' = [cond EXCEPT ![t] = "none"]
        /\ cond_mutex' = [cond_mutex EXCEPT ![t] = None]
        /\ depth' = [depth EXCEPT ![t] = 0]
    BY <1>6 DEF WaitReturns
  <2>2. IInv'
    BY <2>1, InvariantStep DEF CondInv
  <2>3. CondType' /\ SpinlockHeld' /\ Ready'
    BY <1>0, <2>1, MutexAssumption DEF CondType, SpinlockHeld, vars, CondInv, Ready
  <2>4. ASSUME NEW u \in Threads PROVE WaitInv(u)'
    <3>1. CASE u = t
      BY <1>0, <2>1, <3>1 DEF WaitInv, CondType
    <3>2. CASE u # t
      <4>1. cond'[u] = cond[u] /\ cond_mutex'[u] = cond_mutex[u] /\ depth'[u] = depth[u]
        BY <1>0, <2>1, <3>2 DEF CondType
      <4> QED
        BY <1>0, <2>1, <4>1, UntouchedKeepsWait DEF vars
    <3> QED
      BY <3>1, <3>2
  <2> QED
    BY <1>0, <2>1, <2>2, <2>3, <2>4 DEF CondInv
<1>7. ASSUME z_impl_k_condvar_signal PROVE CondInv'
  <2>1. PICK W \in SUBSET cond_wait_q : Wake(W)
    BY <1>7 DEF z_impl_k_condvar_signal
  <2> QED
    BY <1>7, <2>1, WakeKeepsCondInv DEF z_impl_k_condvar_signal
<1>8. ASSUME z_impl_k_condvar_broadcast PROVE CondInv'
  BY <1>8, WakeKeepsCondInv DEF z_impl_k_condvar_broadcast
<1>9. CASE UNCHANGED allVars
  <2>1. IInv'
    BY <1>9, InvariantStep DEF CondInv, allVars
  <2>2. CondType' /\ SpinlockHeld' /\ Ready' /\ ~lost'
    BY <1>0, <1>9 DEF CondType, SpinlockHeld, Ready, CondInv, allVars, vars, condVars
  <2>3. ASSUME NEW u \in Threads PROVE WaitInv(u)'
    BY <1>0, <1>9, UntouchedKeepsWait DEF allVars, vars, condVars
  <2> QED
    BY <2>1, <2>2, <2>3 DEF CondInv
<1> QED
  BY <1>1, <1>2, <1>3, <1>4, <1>5, <1>6, <1>7, <1>8, <1>9 DEF CondvarNext

(***************************************************************************)
(* No signal falls between the release of the mutex and the wait, for any  *)
(* number of threads, mutexes and signallers.                              *)
(***************************************************************************)
THEOREM CondvarLosesNoSignal == CondvarSpec => []NoLostSignal
<1>1. CondInv => NoLostSignal
  BY DEF CondInv, NoLostSignal
<1> QED
  BY <1>1, CondInvInit, CondInvStep, PTL DEF CondvarSpec

(***************************************************************************)
(* k_condvar_wait() returns with the mutex locked by the caller as often   *)
(* as before, whatever woke it and however it got the mutex back.          *)
(***************************************************************************)
THEOREM CondvarReturnsLocked == CondvarSpec => ReturnsLocked
<1>1. CondInv /\ [CondvarNext]_allVars =>
        [\A t \in Threads : cond[t] = "locking" /\ cond'[t] = "none" =>
           owner[cond_mutex[t]] = t /\ lock_count[cond_mutex[t]] = depth[t]]_allVars
  <2> SUFFICES ASSUME CondInv, CondvarNext,
                      NEW t \in Threads, cond[t] = "locking", cond'[t] = "none"
               PROVE  owner[cond_mutex[t]] = t /\ lock_count[cond_mutex[t]] = depth[t]
    OBVIOUS
  <2>0. CondType /\ WaitInv(t)
    BY DEF CondInv
  <2>1. ASSUME NEW u \in Threads, WaitReturns(u)
        PROVE  state[t] = "ready" /\ ~deadlock
    BY <2>0, <2>1 DEF WaitReturns, CondType
  <2>2. ASSUME NEW u \in Threads,
               \/ MutexStep(u)
               \/ \E m \in Mutexes : z_impl_k_condvar_wait(u, m)
               \/ \E wait \in {"forever", "timed"} : WaitPends(u, wait)
               \/ WaitTimesOut(u) \/ WaitLocks(u)
        PROVE  FALSE
    BY <2>0, <2>2 DEF MutexStep, condVars, z_impl_k_condvar_wait, WaitUnlocks, WaitPends,
                      WaitTimesOut, TimedOut, WaitLocks, CondType
  <2>3. ASSUME z_impl_k_condvar_signal \/ z_impl_k_condvar_broadcast PROVE FALSE
    BY <2>0, <2>3 DEF z_impl_k_condvar_signal, z_impl_k_condvar_broadcast, Wake, CondType
  <2>4. state[t] = "ready" /\ ~deadlock
    BY <2>1, <2>2, <2>3 DEF CondvarNext
  <2> QED
    BY <2>0, <2>4 DEF WaitInv, GotBack, InLine
<1> QED
  BY <1>1, CondInvInit, CondInvStep, PTL DEF CondvarSpec, ReturnsLocked

(***************************************************************************)
(* What the priorities need beside CondInv, with the last types.           *)
(***************************************************************************)
CondPrioInv ==
    /\ CondInv /\ PrioInv
    /\ condvar_lock \in Threads \cup {None} /\ lost \in BOOLEAN

(***************************************************************************)
(* Every step keeps it: only the calls of mutex.c touch priorities.        *)
(***************************************************************************)
LEMMA CondPrioInvStep == CondPrioInv /\ [CondvarNext]_allVars => CondPrioInv'
<1> SUFFICES ASSUME CondPrioInv, [CondvarNext]_allVars PROVE CondPrioInv'
  OBVIOUS
<1>1. CondInv' /\ CondInv
  BY CondInvStep DEF CondPrioInv
<1>2. lost' \in BOOLEAN
  <2>1. lost' = FALSE \/ lost' = TRUE
    BY DEF CondPrioInv, CondvarNext, MutexStep, condVars, z_impl_k_condvar_wait, WaitUnlocks,
           WaitPends, WaitTimesOut, TimedOut, WaitLocks, WaitReturns, Wake,
           z_impl_k_condvar_signal, z_impl_k_condvar_broadcast, allVars
  <2> QED
    BY <2>1
<1>3. condvar_lock' \in Threads \cup {None}
  BY DEF CondPrioInv, CondvarNext, MutexStep, condVars, z_impl_k_condvar_wait, WaitUnlocks,
         WaitPends, WaitTimesOut, TimedOut, WaitLocks, WaitReturns, Wake,
         z_impl_k_condvar_signal, z_impl_k_condvar_broadcast, allVars
<1>4. PrioInv'
  <2>1. ASSUME UNCHANGED <<prio, orig_prio, held_mutexes, deadlock>> PROVE PrioInv'
    BY <1>1, <2>1 DEF CondInv, CondType, CondPrioInv, PrioInv, NoLeakedBoost
  <2>2. ASSUME NEW t \in Threads, MutexStep(t) PROVE PrioInv'
    BY <2>2, PrioInvStep DEF MutexStep, Next, CondPrioInv
  <2>3. ASSUME NEW t \in Threads, NEW m \in Mutexes, z_impl_k_condvar_wait(t, m) PROVE PrioInv'
    BY <2>3, PrioInvStep DEF z_impl_k_condvar_wait, WaitUnlocks, Next, CondPrioInv
  <2>4. ASSUME NEW t \in Threads, WaitLocks(t) PROVE PrioInv'
    <3>1. PICK m \in Mutexes : \/ LockGranted(t, m) \/ LockPends(t, m, "forever")
                               \/ LockAsserts(t, m, "forever")
      BY <1>1, <2>4 DEF WaitLocks, CondInv, WaitInv
    <3>2. CASE LockGranted(t, m)
      BY <3>2, GrantKeepsPrio DEF CondPrioInv
    <3>3. CASE LockPends(t, m, "forever")
      BY <3>3, PendKeepsPrio DEF CondPrioInv
    <3>4. CASE LockAsserts(t, m, "forever")
      BY <1>1, <3>4 DEF LockAsserts, CondPrioInv, CondInv, PrioInv, NoLeakedBoost
    <3> QED
      BY <3>1, <3>2, <3>3, <3>4
  <2>5. ASSUME NEW t \in Threads,
               \/ \E wait \in {"forever", "timed"} : WaitPends(t, wait)
               \/ WaitTimesOut(t) \/ WaitReturns(t)
        PROVE  PrioInv'
    BY <2>1, <2>5 DEF WaitPends, WaitTimesOut, TimedOut, WaitReturns, vars
  <2>6. ASSUME z_impl_k_condvar_signal \/ z_impl_k_condvar_broadcast PROVE PrioInv'
    BY <2>1, <2>6 DEF z_impl_k_condvar_signal, z_impl_k_condvar_broadcast, Wake
  <2>7. CASE UNCHANGED allVars
    BY <2>1, <2>7 DEF allVars, vars
  <2> QED
    BY <2>2, <2>3, <2>4, <2>5, <2>6, <2>7 DEF CondvarNext
<1> QED
  BY <1>1, <1>2, <1>3, <1>4 DEF CondPrioInv

(***************************************************************************)
(* Every state is well typed, and the unlock and the lock that             *)
(* k_condvar_wait() makes leak no boost either.                            *)
(***************************************************************************)
THEOREM CondvarLeaksNoBoost == CondvarSpec => [](CondvarTypeOK /\ NoLeakedBoost)
<1>1. z_impl_k_condvar_init => CondPrioInv
  BY CondInvInit, PrioInvInit DEF z_impl_k_condvar_init, CondPrioInv
<1>2. CondPrioInv => CondvarTypeOK /\ NoLeakedBoost
  BY DEF CondPrioInv, CondInv, CondType, PrioInv, IInv, OwnershipType, TypeOK, CondvarTypeOK
<1> QED
  BY <1>1, <1>2, CondPrioInvStep, PTL DEF CondvarSpec

-----------------------------------------------------------------------------
(* Exact inheritance and deadlock detection, where k_mutex_lock() is only  *)
(* called with K_FOREVER.  Waits on the condition variable may time out.   *)

(***************************************************************************)
(* Only a thread on the condition variable has a timeout.                  *)
(***************************************************************************)
OnlyCondTimes ==
    \A t \in Threads :
        /\ timeout[t] # "inactive" => cond[t] = "waiting" /\ state[t] = "pended"
        /\ state[t] = "timedout" => cond[t] = "waiting"

UntimedInv == CondPrioInv /\ OnlyCondTimes

\* A step that changes no owner, no priority and nobody's place in a queue.
QuietStep ==
    /\ UNCHANGED <<owner, prio, held_mutexes>>
    /\ \A x \in Threads : NextMutex(x)' = NextMutex(x)

(***************************************************************************)
(* A wait queue is the threads whose chain goes on at its mutex.           *)
(***************************************************************************)
LEMMA WaitQueueIsNext ==
    ASSUME NEW n \in Mutexes
    PROVE  /\ wait_q(n) = {x \in Threads : NextMutex(x) = n}
           /\ wait_q(n)' = {x \in Threads : NextMutex(x)' = n}
  BY MutexAssumption DEF wait_q, NextMutex

(***************************************************************************)
(* What the steps of the condition variable come to for the mutexes.       *)
(***************************************************************************)
LEMMA CondStepKinds ==
    ASSUME Waits \subseteq {"forever"}, UntimedInv, [CondvarNext]_allVars
    PROVE  \/ \E t \in Threads, m \in Mutexes : LockGranted(t, m)
           \/ \E t \in Threads, m \in Mutexes : LockPends(t, m, "forever")
           \/ \E t \in Threads, m \in Mutexes : UnlockReleases(t, m)
           \/ QuietStep
<1>1. CondInv /\ IInv /\ OnlyCondTimes
  BY DEF UntimedInv, CondPrioInv, CondInv
<1>2. /\ state \in [Threads -> {"ready", "pended", "timedout"}]
      /\ mutex_pended_on \in [Threads -> Mutexes \cup {None}]
  BY <1>1 DEF IInv, OwnershipType
<1>3. ASSUME NEW t \in Threads, cond[t] \in {"unlocked", "waiting", "woken"}
      PROVE  mutex_pended_on[t] = None
  BY <1>1, <1>3 DEF CondInv, WaitInv, LetGo
<1>4. ASSUME UNCHANGED <<owner, prio, held_mutexes, state, mutex_pended_on>> PROVE QuietStep
  BY <1>4 DEF QuietStep, NextMutex
<1>5. ASSUME UNCHANGED <<owner, prio, held_mutexes, mutex_pended_on>>,
             \A x \in Threads : state'[x] = state[x] \/ mutex_pended_on[x] = None
      PROVE  QuietStep
  BY <1>5 DEF QuietStep, NextMutex
<1>6. ASSUME NEW t \in Threads, MutexStep(t)
      PROVE  \/ \E m \in Mutexes : \/ LockGranted(t, m) \/ LockPends(t, m, "forever")
                                   \/ UnlockReleases(t, m)
             \/ QuietStep
  <2>1. ASSUME NEW m \in Mutexes, z_impl_k_mutex_lock(t, m) \/ z_impl_k_mutex_unlock(t, m)
        PROVE  \/ LockGranted(t, m) \/ LockPends(t, m, "forever") \/ UnlockReleases(t, m)
               \/ QuietStep
    <3>1. CASE \E wait \in Waits : LockAsserts(t, m, wait)
      BY <1>4, <3>1 DEF LockAsserts
    <3>2. CASE UnlockRecursive(t, m)
      BY <1>4, <3>2 DEF UnlockRecursive
    <3> QED
      BY <2>1, <3>1, <3>2 DEF z_impl_k_mutex_lock, z_impl_k_mutex_unlock
  <2>2. CASE cond[t] # "waiting" /\ LockTimesOut(t)
    BY <1>1, <2>2 DEF OnlyCondTimes, LockTimesOut
  <2>3. CASE TimeoutPopped(t)
    BY <1>4, <2>3 DEF TimeoutPopped
  <2>4. CASE z_thread_timeout(t)
    <3>1. /\ state' = [state EXCEPT ![t] = "timedout"] /\ timeout[t] = "popped"
          /\ UNCHANGED <<owner, prio, held_mutexes, mutex_pended_on>>
      BY <2>4 DEF z_thread_timeout
    <3>2. mutex_pended_on[t] = None
      BY <1>1, <1>3, <3>1 DEF OnlyCondTimes
    <3> QED
      BY <1>2, <1>5, <3>1, <3>2
  <2> QED
    BY <1>6, <2>1, <2>2, <2>3, <2>4 DEF MutexStep
<1>7. ASSUME NEW t \in Threads, NEW m \in Mutexes, z_impl_k_condvar_wait(t, m)
      PROVE  UnlockReleases(t, m) \/ QuietStep
  <2>1. CASE UnlockRecursive(t, m)
    BY <1>4, <2>1 DEF UnlockRecursive
  <2> QED
    BY <1>7, <2>1 DEF z_impl_k_condvar_wait, WaitUnlocks, z_impl_k_mutex_unlock
<1>8. ASSUME NEW t \in Threads, NEW wait, WaitPends(t, wait) PROVE QuietStep
  <2>1. /\ state' = [state EXCEPT ![t] = "pended"] /\ cond[t] = "unlocked"
        /\ UNCHANGED <<owner, prio, held_mutexes, mutex_pended_on>>
    BY <1>8 DEF WaitPends
  <2> QED
    BY <1>2, <1>3, <1>5, <2>1
<1>9. ASSUME NEW t \in Threads, WaitTimesOut(t) PROVE QuietStep
  <2>1. /\ state' = [state EXCEPT ![t] = "ready"] /\ cond[t] = "waiting"
        /\ UNCHANGED <<owner, prio, held_mutexes, mutex_pended_on>>
    BY <1>9 DEF WaitTimesOut, TimedOut
  <2> QED
    BY <1>2, <1>3, <1>5, <2>1
<1>10. ASSUME NEW t \in Threads, WaitLocks(t)
       PROVE  \E m \in Mutexes : LockGranted(t, m) \/ LockPends(t, m, "forever") \/ QuietStep
  <2>1. PICK m \in Mutexes : \/ LockGranted(t, m) \/ LockPends(t, m, "forever")
                             \/ LockAsserts(t, m, "forever")
    BY <1>1, <1>10 DEF WaitLocks, CondInv, WaitInv
  <2>2. CASE LockAsserts(t, m, "forever")
    BY <1>4, <2>2 DEF LockAsserts
  <2> QED
    BY <2>1, <2>2
<1>11. ASSUME NEW W \in SUBSET cond_wait_q, Wake(W) PROVE QuietStep
  <2>1. /\ state' = [x \in Threads |-> IF x \in W THEN "ready" ELSE state[x]]
        /\ UNCHANGED <<owner, prio, held_mutexes, mutex_pended_on>>
    BY <1>11 DEF Wake
  <2>2. \A x \in W : mutex_pended_on[x] = None
    BY <1>3 DEF cond_wait_q
  <2>3. \A x \in Threads : state'[x] = state[x] \/ mutex_pended_on[x] = None
    BY <2>1, <2>2
  <2> QED
    BY <1>5, <2>1, <2>3
<1>12. CASE z_impl_k_condvar_signal \/ z_impl_k_condvar_broadcast
  <2>1. PICK W \in SUBSET cond_wait_q : Wake(W)
    <3>1. CASE z_impl_k_condvar_signal
      <4>1. Wake({}) \/ \E w \in cond_wait_q : Wake({w})
        BY <3>1 DEF z_impl_k_condvar_signal
      <4>2. {} \in SUBSET cond_wait_q /\ \A w \in cond_wait_q : {w} \in SUBSET cond_wait_q
        OBVIOUS
      <4> QED
        BY <4>1, <4>2
    <3>2. CASE z_impl_k_condvar_broadcast
      BY <3>2 DEF z_impl_k_condvar_broadcast
    <3> QED
      BY <1>12, <3>1, <3>2
  <2> QED
    BY <1>11, <2>1
<1>13. CASE UNCHANGED allVars
  BY <1>4, <1>13 DEF allVars, vars
<1>14. ASSUME NEW t \in Threads, WaitReturns(t) PROVE QuietStep
  BY <1>4, <1>14 DEF WaitReturns, vars
<1> QED
  BY <1>6, <1>7, <1>8, <1>9, <1>10, <1>12, <1>13, <1>14 DEF CondvarNext

(***************************************************************************)
(* No step gives a thread in line for a mutex a timeout.                   *)
(***************************************************************************)
LEMMA UntimedStep ==
    ASSUME Waits \subseteq {"forever"}, UntimedInv, [CondvarNext]_allVars
    PROVE  UntimedInv'
<1>1. CondPrioInv /\ CondPrioInv' /\ OnlyCondTimes
  BY CondPrioInvStep DEF UntimedInv
<1>2. /\ state \in [Threads -> {"ready", "pended", "timedout"}]
      /\ timeout \in [Threads -> {"inactive", "armed", "popped"}]
      /\ cond \in [Threads -> {"none", "unlocked", "waiting", "woken", "locking"}]
  BY <1>1 DEF CondPrioInv, CondInv, CondType, IInv, OwnershipType
<1> SUFFICES OnlyCondTimes'
  BY <1>1 DEF UntimedInv
<1>3. ASSUME UNCHANGED <<state, timeout, cond>> PROVE OnlyCondTimes'
  BY <1>1, <1>3 DEF OnlyCondTimes
<1>4. ASSUME NEW t \in Threads, timeout'[t] = "inactive", state'[t] # "timedout",
             \A x \in Threads : x # t => /\ timeout'[x] = timeout[x] /\ state'[x] = state[x]
                                         /\ cond'[x] = cond[x]
      PROVE  OnlyCondTimes'
  BY <1>1, <1>4 DEF OnlyCondTimes
<1>5. ASSUME NEW t \in Threads, NEW m \in Mutexes, LockGranted(t, m)
      PROVE  UNCHANGED <<state, timeout>> /\ state[t] = "ready"
  BY <1>5 DEF LockGranted, Running
<1>6. ASSUME NEW t \in Threads, NEW m \in Mutexes, LockPends(t, m, "forever")
      PROVE  /\ state' = [state EXCEPT ![t] = "pended"]
             /\ timeout' = [timeout EXCEPT ![t] = "inactive"]
  BY <1>6 DEF LockPends
<1>7. ASSUME NEW t \in Threads, NEW m \in Mutexes, NEW wait, LockAsserts(t, m, wait)
      PROVE  UNCHANGED <<state, timeout>> /\ state[t] = "ready"
  BY <1>7 DEF LockAsserts, Running
<1>8. ASSUME NEW t \in Threads, NEW m \in Mutexes, z_impl_k_mutex_unlock(t, m)
      PROVE  /\ state[t] = "ready"
             /\ \/ UNCHANGED <<state, timeout>>
                \/ \E b \in Threads : /\ state' = [state EXCEPT ![b] = "ready"]
                                      /\ timeout' = [timeout EXCEPT ![b] = "inactive"]
                                      /\ mutex_pended_on[b] = m /\ b # t
  <2>1. CASE UnlockRecursive(t, m)
    BY <2>1 DEF UnlockRecursive, Running
  <2>2. CASE UnlockReleases(t, m) /\ wait_q(m) = {}
    BY <2>2 DEF UnlockReleases, Running
  <2>3. CASE UnlockReleases(t, m) /\ wait_q(m) # {}
    <3>1. state[t] = "ready"
      BY <2>3 DEF UnlockReleases, Running
    <3>2. PICK b \in wait_q(m) : /\ state' = [state EXCEPT ![b] = "ready"]
                                 /\ timeout' = [timeout EXCEPT ![b] = "inactive"]
      BY <2>3 DEF UnlockReleases
    <3>3. b \in Threads /\ mutex_pended_on[b] = m /\ state[b] = "pended"
      BY DEF wait_q
    <3> QED
      BY <3>1, <3>2, <3>3
  <2> QED
    BY <1>8, <2>1, <2>2, <2>3 DEF z_impl_k_mutex_unlock
<1>9. ASSUME NEW t \in Threads, MutexStep(t) PROVE OnlyCondTimes'
  <2>1. UNCHANGED cond
    BY <1>9 DEF MutexStep, condVars
  <2>2. ASSUME NEW m \in Mutexes, z_impl_k_mutex_lock(t, m) PROVE OnlyCondTimes'
    <3>1. CASE LockPends(t, m, "forever")
      BY <1>2, <1>4, <1>6, <2>1, <3>1
    <3>2. CASE UNCHANGED <<state, timeout>>
      BY <1>3, <2>1, <3>2
    <3> QED
      BY <1>5, <1>7, <2>2, <3>1, <3>2 DEF z_impl_k_mutex_lock
  <2>3. ASSUME NEW m \in Mutexes, z_impl_k_mutex_unlock(t, m) PROVE OnlyCondTimes'
    <3>1. CASE UNCHANGED <<state, timeout>>
      BY <1>3, <2>1, <3>1
    <3>2. ASSUME NEW b \in Threads, state' = [state EXCEPT ![b] = "ready"],
                 timeout' = [timeout EXCEPT ![b] = "inactive"]
          PROVE  OnlyCondTimes'
      BY <1>2, <1>4, <2>1, <3>2
    <3> QED
      BY <1>8, <2>3, <3>1, <3>2
  <2>4. CASE cond[t] # "waiting" /\ LockTimesOut(t)
    BY <1>1, <2>4 DEF OnlyCondTimes, LockTimesOut
  <2>5. CASE TimeoutPopped(t)
    <3>1. timeout[t] = "armed" /\ timeout' = [timeout EXCEPT ![t] = "popped"] /\ UNCHANGED state
      BY <2>5 DEF TimeoutPopped
    <3> QED
      BY <1>1, <1>2, <2>1, <3>1 DEF OnlyCondTimes
  <2>6. CASE z_thread_timeout(t)
    <3>1. /\ timeout[t] = "popped" /\ timeout' = [timeout EXCEPT ![t] = "inactive"]
          /\ state' = [state EXCEPT ![t] = "timedout"]
      BY <2>6 DEF z_thread_timeout
    <3> QED
      BY <1>1, <1>2, <2>1, <3>1 DEF OnlyCondTimes
  <2> QED
    BY <1>9, <2>2, <2>3, <2>4, <2>5, <2>6 DEF MutexStep
<1>10. ASSUME NEW t \in Threads, NEW m \in Mutexes, z_impl_k_condvar_wait(t, m)
       PROVE  OnlyCondTimes'
  <2>1. cond' = [cond EXCEPT ![t] = "unlocked"] /\ z_impl_k_mutex_unlock(t, m) /\ cond[t] = "none"
    BY <1>10 DEF z_impl_k_condvar_wait, WaitUnlocks
  <2>2. CASE UNCHANGED <<state, timeout>>
    BY <1>1, <1>2, <2>1, <2>2 DEF OnlyCondTimes
  <2>3. ASSUME NEW b \in Threads, state' = [state EXCEPT ![b] = "ready"],
               timeout' = [timeout EXCEPT ![b] = "inactive"]
        PROVE  OnlyCondTimes'
    BY <1>1, <1>2, <2>1, <2>3 DEF OnlyCondTimes
  <2> QED
    BY <1>8, <2>1, <2>2, <2>3
<1>11. ASSUME NEW t \in Threads, NEW wait, WaitPends(t, wait) PROVE OnlyCondTimes'
  <2>1. /\ cond' = [cond EXCEPT ![t] = "waiting"]
        /\ state' = [state EXCEPT ![t] = "pended"]
        /\ timeout' = [timeout EXCEPT ![t] = IF wait = "timed" THEN "armed" ELSE "inactive"]
    BY <1>11 DEF WaitPends
  <2> QED
    BY <1>1, <1>2, <2>1 DEF OnlyCondTimes
<1>12. ASSUME NEW t \in Threads, WaitTimesOut(t) PROVE OnlyCondTimes'
  <2>1. /\ cond' = [cond EXCEPT ![t] = "woken"] /\ state[t] = "timedout"
        /\ state' = [state EXCEPT ![t] = "ready"] /\ UNCHANGED timeout
    BY <1>12 DEF WaitTimesOut, TimedOut
  <2> QED
    BY <1>1, <1>2, <2>1 DEF OnlyCondTimes
<1>13. ASSUME NEW t \in Threads, WaitLocks(t) PROVE OnlyCondTimes'
  <2>1. PICK m \in Mutexes : \/ LockGranted(t, m) \/ LockPends(t, m, "forever")
                             \/ LockAsserts(t, m, "forever")
    BY <1>1, <1>13 DEF WaitLocks, CondPrioInv, CondInv, WaitInv
  <2>2. cond' = [cond EXCEPT ![t] = "locking"] /\ cond[t] = "woken"
    BY <1>13 DEF WaitLocks
  <2>3. CASE UNCHANGED <<state, timeout>> /\ state[t] = "ready"
    BY <1>1, <1>2, <2>2, <2>3 DEF OnlyCondTimes
  <2>4. CASE LockPends(t, m, "forever")
    <3>1. timeout'[t] = "inactive" /\ state'[t] = "pended"
      BY <1>2, <1>6, <2>4
    <3>2. \A x \in Threads : x # t => /\ timeout'[x] = timeout[x] /\ state'[x] = state[x]
                                      /\ cond'[x] = cond[x]
      BY <1>2, <1>6, <2>2, <2>4
    <3> QED
      BY <1>4, <3>1, <3>2
  <2> QED
    BY <1>5, <1>7, <2>1, <2>3, <2>4
<1>14. ASSUME NEW t \in Threads, WaitReturns(t) PROVE OnlyCondTimes'
  <2>1. /\ cond' = [cond EXCEPT ![t] = "none"] /\ cond[t] = "locking"
        /\ UNCHANGED <<state, timeout>>
    BY <1>14 DEF WaitReturns, vars
  <2> QED
    BY <1>1, <1>2, <2>1 DEF OnlyCondTimes
<1>15. CASE z_impl_k_condvar_signal \/ z_impl_k_condvar_broadcast
  <2>1. PICK W : Wake(W)
    BY <1>15 DEF z_impl_k_condvar_signal, z_impl_k_condvar_broadcast
  <2>2. /\ state' = [x \in Threads |-> IF x \in W THEN "ready" ELSE state[x]]
        /\ timeout' = [x \in Threads |-> IF x \in W THEN "inactive" ELSE timeout[x]]
        /\ cond' = [x \in Threads |-> IF x \in W THEN "woken" ELSE cond[x]]
    BY <2>1 DEF Wake
  <2> QED
    BY <1>1, <2>2 DEF OnlyCondTimes
<1>16. CASE UNCHANGED allVars
  BY <1>3, <1>16 DEF allVars, vars, condVars
<1> QED
  BY <1>9, <1>10, <1>11, <1>12, <1>13, <1>14, <1>15, <1>16 DEF CondvarNext

(***************************************************************************)
(* The initial state: nobody waits, so no timeout runs.                    *)
(***************************************************************************)
LEMMA UntimedInit == z_impl_k_condvar_init => UntimedInv
<1> SUFFICES ASSUME z_impl_k_condvar_init PROVE UntimedInv
  OBVIOUS
<1>1. CondPrioInv
  BY CondInvInit, PrioInvInit DEF z_impl_k_condvar_init, CondPrioInv
<1>2. OnlyCondTimes
  BY DEF z_impl_k_condvar_init, z_impl_k_mutex_init, OnlyCondTimes
<1> QED
  BY <1>1, <1>2 DEF UntimedInv

(***************************************************************************)
(* Every step keeps inheritance exact.                                     *)
(***************************************************************************)
LEMMA ExactStep ==
    ASSUME Waits \subseteq {"forever"}, IsFiniteSet(Threads), Cardinality(Threads) <= MaxHops,
           UntimedInv, UrgentInv, AllJustified, [CondvarNext]_allVars
    PROVE  UrgentInv' /\ AllJustified'
<1>1. IInv /\ PrioInv'
  BY UntimedStep DEF UrgentInv, PrioInv, UntimedInv, CondPrioInv
<1>2. ASSUME NEW t \in Threads, NEW m \in Mutexes, LockGranted(t, m)
      PROVE  UrgentInv' /\ AllJustified'
  BY <1>1, <1>2, GrantKeepsUrgent, GrantKeepsJustified
<1>3. ASSUME NEW t \in Threads, NEW m \in Mutexes, LockPends(t, m, "forever")
      PROVE  UrgentInv' /\ AllJustified'
  BY <1>3, PendKeepsUrgent, PendKeepsJustified
<1>4. ASSUME NEW t \in Threads, NEW m \in Mutexes, UnlockReleases(t, m)
      PROVE  UrgentInv' /\ AllJustified'
  BY <1>4, ReleaseKeepsUrgent, ReleaseKeepsJustified
<1>5. CASE QuietStep
  <2>1. UNCHANGED <<owner, prio, held_mutexes>> /\ \A n \in Mutexes : wait_q(n)' = wait_q(n)
    BY <1>5, WaitQueueIsNext DEF QuietStep
  <2>2. UrgentInv'
    BY <1>1, <2>1, SameKeepsUrgent
  <2>3. AllJustified'
    BY <1>1, <2>1, SameKeepsJustified DEF IInv, OwnershipType
  <2> QED
    BY <2>2, <2>3
<1> QED
  BY <1>2, <1>3, <1>4, <1>5, CondStepKinds

(***************************************************************************)
(* Exact inheritance: where mutexes are waited for without a timeout, and  *)
(* the walk can pass every thread, a thread's priority is the best of its  *)
(* own and those of the threads it blocks at every moment, with condition  *)
(* variables that unlock, time out and lock in between.                    *)
(***************************************************************************)
THEOREM CondvarExactInheritance ==
    ASSUME Waits \subseteq {"forever"}, IsFiniteSet(Threads), Cardinality(Threads) <= MaxHops
    PROVE  CondvarSpec => []ExactInheritance
<1> DEFINE Inv == UntimedInv /\ UrgentInv /\ AllJustified
<1>1. z_impl_k_condvar_init => Inv
  BY UntimedInit, UrgentInvInit
     DEF z_impl_k_condvar_init, z_impl_k_mutex_init, AllJustified, Justified
<1>2. Inv /\ [CondvarNext]_allVars => Inv'
  BY UntimedStep, ExactStep
<1>3. Inv => ExactInheritance
  BY JustifiedIsExact
<1> QED
  BY <1>1, <1>2, <1>3, PTL DEF CondvarSpec

(***************************************************************************)
(* No step closes a cycle of waits.                                        *)
(***************************************************************************)
LEMMA CaughtStep ==
    ASSUME Waits \subseteq {"forever"}, DeadlockDetect,
           IsFiniteSet(Threads), Cardinality(Threads) <= MaxHops,
           UntimedInv, DeadlockCaught, [CondvarNext]_allVars
    PROVE  DeadlockCaught'
<1>1. IInv /\ CondInv /\ OnlyCondTimes
  BY DEF UntimedInv, CondPrioInv, CondInv
<1>2. ASSUME NEW t \in Threads, NEW m \in Mutexes, LockGranted(t, m)
      PROVE  DeadlockCaught'
  BY <1>1, <1>2, GrantKeepsCaught
<1>3. ASSUME NEW t \in Threads, NEW m \in Mutexes, LockPends(t, m, "forever")
      PROVE  DeadlockCaught'
  <2>1. ASSUME NEW n \in Mutexes, NEW w \in wait_q(n) PROVE timeout[w] # "armed"
    <3>1. w \in Threads /\ mutex_pended_on[w] # None
      BY MutexAssumption DEF wait_q
    <3>2. cond[w] # "waiting"
      BY <1>1, <3>1 DEF CondInv, WaitInv, LetGo
    <3> QED
      BY <1>1, <3>1, <3>2 DEF OnlyCondTimes
  <2> QED
    BY <1>1, <1>3, <2>1, PendKeepsCaught
<1>4. ASSUME NEW t \in Threads, NEW m \in Mutexes, UnlockReleases(t, m)
      PROVE  DeadlockCaught'
  BY <1>1, <1>4, ReleaseKeepsCaught
<1>5. CASE QuietStep
  <2>1. /\ \A x \in Threads : NextMutex(x)' = NextMutex(x)
        /\ \A n \in Mutexes : owner'[n] = owner[n]
    BY <1>5 DEF QuietStep
  <2> QED
    BY <1>1, <2>1, NextMutexType, SameKeepsCaught
<1> QED
  BY <1>2, <1>3, <1>4, <1>5, CondStepKinds

(***************************************************************************)
(* The deadlock check of k_mutex_lock() is complete: with it on, threads   *)
(* that wait for mutexes without a timeout never wait for each other in a  *)
(* cycle, whatever its length, unless the assertion has stopped the lock   *)
(* that would close it.                                                    *)
(***************************************************************************)
THEOREM CondvarDeadlockCaught ==
    ASSUME Waits \subseteq {"forever"}, DeadlockDetect,
           IsFiniteSet(Threads), Cardinality(Threads) <= MaxHops
    PROVE  CondvarSpec => []DeadlockCaught
<1>1. z_impl_k_condvar_init => UntimedInv /\ DeadlockCaught
  <2> SUFFICES ASSUME z_impl_k_condvar_init PROVE DeadlockCaught
    BY UntimedInit
  <2>1. \A t \in Threads : NextMutex(t) = None
    BY DEF z_impl_k_condvar_init, z_impl_k_mutex_init, NextMutex
  <2>2. ASSUME NEW S \in (SUBSET Threads) \ {{}}
        PROVE  \E t \in S : NextMutex(t) = None \/ owner[NextMutex(t)] \notin S
    <3>1. PICK t \in S : t \in Threads
      OBVIOUS
    <3> QED
      BY <2>1, <3>1
  <2> QED
    BY <2>2 DEF DeadlockCaught
<1>2. UntimedInv /\ DeadlockCaught /\ [CondvarNext]_allVars => (UntimedInv /\ DeadlockCaught)'
  BY UntimedStep, CaughtStep
<1> QED
  BY <1>1, <1>2, PTL DEF CondvarSpec

=============================================================================
