---------------------------- MODULE MutexProofs ----------------------------
(***************************************************************************)
(* Theorems about Mutex, for any number of threads and mutexes, whatever   *)
(* their priorities and however long the chains.                           *)
(***************************************************************************)
EXTENDS Mutex, FiniteSetTheorems, WellFoundedInduction, TLAPS

(***************************************************************************)
(* The inductive invariant: ownership is consistent and the state it is    *)
(* about has its type.  Priorities have no part in it: they only decide    *)
(* which waiter a mutex is handed to.                                      *)
(***************************************************************************)
OwnershipType ==
    /\ owner \in [Mutexes -> Threads \cup {None}]
    /\ lock_count \in [Mutexes -> 0..MaxCount]
    /\ held_mutexes \in [Threads -> SUBSET Mutexes]
    /\ mutex_pended_on \in [Threads -> Mutexes \cup {None}]
    /\ state \in [Threads -> {"ready", "pended", "timedout"}]

IInv == OwnershipType /\ OwnershipConsistent

(***************************************************************************)
(* The initial state satisfies the inductive invariant.                    *)
(***************************************************************************)
LEMMA InvariantInit == z_impl_k_mutex_init => IInv
<1> SUFFICES ASSUME z_impl_k_mutex_init PROVE IInv
  OBVIOUS
<1>1. OwnershipType
  BY MutexAssumption DEF z_impl_k_mutex_init, OwnershipType
<1>2. OwnershipConsistent
  BY MutexAssumption DEF z_impl_k_mutex_init, OwnershipConsistent, wait_q
<1> QED
  BY <1>1, <1>2 DEF IInv

(***************************************************************************)
(* k_mutex_lock() of a free or own mutex.                                  *)
(***************************************************************************)
LEMMA GrantKeepsIInv ==
    ASSUME IInv, NEW t \in Threads, NEW m \in Mutexes, LockGranted(t, m)
    PROVE  IInv'
<1>1. t # None
  BY MutexAssumption
<1>2. /\ lock_count' = [lock_count EXCEPT ![m] = @ + 1]
      /\ owner' = [owner EXCEPT ![m] = t]
      /\ lock_count[m] < MaxCount
      /\ lock_count[m] = 0 \/ owner[m] = t
      /\ UNCHANGED <<mutex_pended_on, state>>
  BY DEF LockGranted
<1>3. held_mutexes' = [held_mutexes EXCEPT ![t] = @ \cup {m}]
  <2>1. CASE lock_count[m] = 0
    BY <2>1 DEF LockGranted
  <2>2. CASE lock_count[m] # 0
    <3>1. m \in held_mutexes[t] /\ held_mutexes' = held_mutexes
      BY <1>2, <2>2 DEF LockGranted, IInv, OwnershipConsistent
    <3> QED
      BY <3>1 DEF IInv, OwnershipType
  <2> QED
    BY <2>1, <2>2
<1>4. lock_count[m] \in Nat /\ lock_count[m] + 1 \in 0..MaxCount
  BY <1>2, MutexAssumption DEF IInv, OwnershipType
<1>5. OwnershipType'
  BY <1>2, <1>3, <1>4 DEF IInv, OwnershipType
<1>6. ASSUME NEW n \in Mutexes
      PROVE  /\ lock_count'[n] = 0 <=> owner'[n] = None
             /\ \A u \in Threads : n \in held_mutexes'[u] <=> owner'[n] = u
             /\ owner'[n] = None => wait_q(n)' = {}
  <2>1. CASE n = m
    <3>1. owner'[m] = t /\ lock_count'[m] # 0
      BY <1>2, <1>4 DEF IInv, OwnershipType
    <3>2. ASSUME NEW u \in Threads, u # t PROVE m \notin held_mutexes'[u]
      <4>1. owner[m] # u
        BY <1>1, <1>2, <3>2, MutexAssumption DEF IInv, OwnershipConsistent
      <4> QED
        BY <1>3, <3>2, <4>1 DEF IInv, OwnershipType, OwnershipConsistent
    <3>3. m \in held_mutexes'[t]
      BY <1>3 DEF IInv, OwnershipType
    <3> QED
      BY <1>1, <2>1, <3>1, <3>2, <3>3
  <2>2. CASE n # m
    <3>1. lock_count'[n] = lock_count[n] /\ owner'[n] = owner[n]
      BY <1>2, <2>2 DEF IInv, OwnershipType
    <3>2. \A u \in Threads : n \in held_mutexes'[u] <=> n \in held_mutexes[u]
      BY <1>3, <2>2 DEF IInv, OwnershipType
    <3>3. wait_q(n)' = wait_q(n)
      BY <1>2 DEF wait_q
    <3> QED
      BY <3>1, <3>2, <3>3 DEF IInv, OwnershipConsistent
  <2> QED
    BY <2>1, <2>2
<1> QED
  BY <1>5, <1>6 DEF IInv, OwnershipConsistent

(***************************************************************************)
(* A change of the wait queues alone: waiters may leave, and a thread may  *)
(* begin to wait for a mutex that has an owner.                            *)
(***************************************************************************)
LEMMA WaitersKeepIInv ==
    ASSUME IInv, UNCHANGED <<owner, lock_count, held_mutexes>>,
           mutex_pended_on' \in [Threads -> Mutexes \cup {None}],
           state' \in [Threads -> {"ready", "pended", "timedout"}],
           \A n \in Mutexes : owner[n] = None => wait_q(n)' \subseteq wait_q(n)
    PROVE  IInv'
  BY DEF IInv, OwnershipType, OwnershipConsistent

(***************************************************************************)
(* k_mutex_lock() that begins to wait, with or without a timeout.          *)
(***************************************************************************)
LEMMA PendKeepsIInv ==
    ASSUME IInv, NEW t \in Threads, NEW m \in Mutexes, NEW wait, LockPends(t, m, wait)
    PROVE  IInv'
<1>1. /\ lock_count[m] # 0
      /\ mutex_pended_on' = [mutex_pended_on EXCEPT ![t] = m]
      /\ state' = [state EXCEPT ![t] = "pended"]
      /\ UNCHANGED <<owner, lock_count, held_mutexes>>
  BY DEF LockPends
<1>2. owner[m] # None
  BY <1>1 DEF IInv, OwnershipConsistent
<1>3. \A n \in Mutexes : n # m => wait_q(n)' \subseteq wait_q(n)
  BY <1>1 DEF wait_q, IInv, OwnershipType
<1>4. /\ mutex_pended_on' \in [Threads -> Mutexes \cup {None}]
      /\ state' \in [Threads -> {"ready", "pended", "timedout"}]
  BY <1>1 DEF IInv, OwnershipType
<1> QED
  BY <1>1, <1>2, <1>3, <1>4, WaitersKeepIInv

(***************************************************************************)
(* The hand-over in k_mutex_unlock(), to the best waiter if there is one.  *)
(***************************************************************************)
LEMMA ReleaseKeepsIInv ==
    ASSUME IInv, NEW t \in Threads, NEW m \in Mutexes, UnlockReleases(t, m)
    PROVE  IInv'
<1> DEFINE rest == held_mutexes[t] \ {m}
<1>1. owner[m] = t /\ lock_count[m] = 1 /\ state[t] = "ready" /\ t # None
  BY MutexAssumption DEF UnlockReleases, Running
<1>2. CASE wait_q(m) = {}
  <2>1. /\ owner' = [owner EXCEPT ![m] = None]
        /\ lock_count' = [lock_count EXCEPT ![m] = 0]
        /\ held_mutexes' = [held_mutexes EXCEPT ![t] = rest]
        /\ UNCHANGED <<mutex_pended_on, state>>
    BY <1>2 DEF UnlockReleases
  <2>2. OwnershipType'
    BY <2>1, MutexAssumption DEF IInv, OwnershipType
  <2>3. \A n \in Mutexes : wait_q(n)' = wait_q(n)
    BY <2>1 DEF wait_q
  <2>4. ASSUME NEW n \in Mutexes
        PROVE  /\ lock_count'[n] = 0 <=> owner'[n] = None
               /\ \A u \in Threads : n \in held_mutexes'[u] <=> owner'[n] = u
               /\ owner'[n] = None => wait_q(n)' = {}
    <3>1. CASE n = m
      <4>1. \A u \in Threads : u # t => m \notin held_mutexes[u]
        BY <1>1 DEF IInv, OwnershipConsistent
      <4>2. \A u \in Threads : m \notin held_mutexes'[u]
        BY <2>1, <4>1 DEF IInv, OwnershipType
      <4>3. owner'[m] = None /\ lock_count'[m] = 0
        BY <2>1 DEF IInv, OwnershipType
      <4> QED
        BY <1>2, <2>3, <3>1, <4>2, <4>3, MutexAssumption
    <3>2. CASE n # m
      <4>1. lock_count'[n] = lock_count[n] /\ owner'[n] = owner[n]
        BY <2>1, <3>2 DEF IInv, OwnershipType
      <4>2. \A u \in Threads : n \in held_mutexes'[u] <=> n \in held_mutexes[u]
        BY <2>1, <3>2 DEF IInv, OwnershipType
      <4> QED
        BY <2>3, <4>1, <4>2 DEF IInv, OwnershipConsistent
    <3> QED
      BY <3>1, <3>2
  <2> QED
    BY <2>2, <2>4 DEF IInv, OwnershipConsistent
<1>3. CASE wait_q(m) # {}
  <2>1. PICK w \in wait_q(m) :
          /\ owner' = [owner EXCEPT ![m] = w]
          /\ held_mutexes' = [held_mutexes EXCEPT ![t] = rest, ![w] = @ \cup {m}]
          /\ mutex_pended_on' = [mutex_pended_on EXCEPT ![w] = None]
          /\ state' = [state EXCEPT ![w] = "ready"]
          /\ UNCHANGED lock_count
    BY <1>3 DEF UnlockReleases
  <2>2. w \in Threads /\ w # t /\ w # None
    BY <1>1, MutexAssumption DEF wait_q
  <2>3. OwnershipType'
    BY <2>1, <2>2 DEF IInv, OwnershipType
  <2>4. \A n \in Mutexes : wait_q(n)' \subseteq wait_q(n)
    BY <2>1, <2>2 DEF wait_q, IInv, OwnershipType
  <2>5. /\ held_mutexes'[t] = rest
        /\ held_mutexes'[w] = held_mutexes[w] \cup {m}
        /\ \A u \in Threads : u # t /\ u # w => held_mutexes'[u] = held_mutexes[u]
    BY <2>1, <2>2 DEF IInv, OwnershipType
  <2>6. ASSUME NEW n \in Mutexes
        PROVE  /\ lock_count'[n] = 0 <=> owner'[n] = None
               /\ \A u \in Threads : n \in held_mutexes'[u] <=> owner'[n] = u
               /\ owner'[n] = None => wait_q(n)' = {}
    <3>1. CASE n = m
      <4>1. owner'[m] = w /\ lock_count'[m] = 1
        BY <1>1, <2>1 DEF IInv, OwnershipType
      <4>2. ASSUME NEW u \in Threads PROVE m \in held_mutexes'[u] <=> u = w
        BY <1>1, <2>2, <2>5 DEF IInv, OwnershipConsistent
      <4> QED
        BY <2>2, <3>1, <4>1, <4>2
    <3>2. CASE n # m
      <4>1. lock_count'[n] = lock_count[n] /\ owner'[n] = owner[n]
        BY <2>1, <3>2 DEF IInv, OwnershipType
      <4>2. ASSUME NEW u \in Threads PROVE n \in held_mutexes'[u] <=> n \in held_mutexes[u]
        BY <2>2, <2>5, <3>2
      <4> QED
        BY <2>4, <4>1, <4>2 DEF IInv, OwnershipConsistent
    <3> QED
      BY <3>1, <3>2
  <2> QED
    BY <2>3, <2>6 DEF IInv, OwnershipConsistent
<1> QED
  BY <1>2, <1>3

(***************************************************************************)
(* Every step keeps the inductive invariant.                               *)
(***************************************************************************)
LEMMA InvariantStep == IInv /\ [Next]_vars => IInv'
<1> SUFFICES ASSUME IInv, [Next]_vars PROVE IInv'
  OBVIOUS
<1>1. ASSUME NEW t \in Threads, NEW m \in Mutexes, LockGranted(t, m) PROVE IInv'
  BY <1>1, GrantKeepsIInv
<1>2. ASSUME NEW t \in Threads, NEW m \in Mutexes, NEW wait \in Waits, LockPends(t, m, wait)
      PROVE  IInv'
  BY <1>2, PendKeepsIInv
<1>3. ASSUME NEW t \in Threads, NEW m \in Mutexes, NEW wait \in Waits, LockAsserts(t, m, wait)
      PROVE  IInv'
  BY <1>3 DEF LockAsserts, IInv, OwnershipType, OwnershipConsistent, wait_q
<1>4. ASSUME NEW t \in Threads, TimeoutPopped(t) PROVE IInv'
  BY <1>4 DEF TimeoutPopped, IInv, OwnershipType, OwnershipConsistent, wait_q
<1>5. ASSUME NEW t \in Threads, z_thread_timeout(t) PROVE IInv'
  <2>1. /\ state' = [state EXCEPT ![t] = "timedout"]
        /\ UNCHANGED <<owner, lock_count, held_mutexes, mutex_pended_on>>
    BY <1>5 DEF z_thread_timeout
  <2>2. /\ state' \in [Threads -> {"ready", "pended", "timedout"}]
        /\ \A n \in Mutexes : wait_q(n)' \subseteq wait_q(n)
    BY <2>1 DEF wait_q, IInv, OwnershipType
  <2>3. mutex_pended_on' \in [Threads -> Mutexes \cup {None}]
    BY <2>1 DEF IInv, OwnershipType
  <2> QED
    BY <2>1, <2>2, <2>3, WaitersKeepIInv
<1>6. ASSUME NEW t \in Threads, LockTimesOut(t) PROVE IInv'
  <2>1. /\ state' = [state EXCEPT ![t] = "ready"]
        /\ mutex_pended_on' = [mutex_pended_on EXCEPT ![t] = None]
        /\ UNCHANGED <<owner, lock_count, held_mutexes>>
    BY <1>6 DEF LockTimesOut
  <2>2. /\ state' \in [Threads -> {"ready", "pended", "timedout"}]
        /\ mutex_pended_on' \in [Threads -> Mutexes \cup {None}]
        /\ \A n \in Mutexes : wait_q(n)' \subseteq wait_q(n)
    BY <2>1 DEF wait_q, IInv, OwnershipType
  <2> QED
    BY <2>1, <2>2, WaitersKeepIInv
<1>7. ASSUME NEW t \in Threads, NEW m \in Mutexes, UnlockRecursive(t, m) PROVE IInv'
  <2>1. /\ lock_count[m] > 1
        /\ lock_count' = [lock_count EXCEPT ![m] = @ - 1]
        /\ UNCHANGED <<owner, held_mutexes, mutex_pended_on, state>>
    BY <1>7 DEF UnlockRecursive
  <2>2. lock_count[m] - 1 \in 0..MaxCount /\ lock_count[m] # 0 /\ lock_count[m] - 1 # 0
    BY <2>1, MutexAssumption DEF IInv, OwnershipType
  <2>3. OwnershipType'
    BY <2>1, <2>2 DEF IInv, OwnershipType
  <2>4. \A n \in Mutexes : lock_count'[n] = 0 <=> lock_count[n] = 0
    BY <2>1, <2>2 DEF IInv, OwnershipType
  <2>5. \A n \in Mutexes : wait_q(n)' = wait_q(n)
    BY <2>1 DEF wait_q
  <2> QED
    BY <2>1, <2>3, <2>4, <2>5 DEF IInv, OwnershipConsistent
<1>8. ASSUME NEW t \in Threads, NEW m \in Mutexes, UnlockReleases(t, m) PROVE IInv'
  BY <1>8, ReleaseKeepsIInv
<1>9. CASE UNCHANGED vars
  BY <1>9 DEF vars, IInv, OwnershipType, OwnershipConsistent, wait_q
<1> QED
  BY <1>1, <1>2, <1>3, <1>4, <1>5, <1>6, <1>7, <1>8, <1>9
     DEF Next, z_impl_k_mutex_lock, z_impl_k_mutex_unlock

(***************************************************************************)
(* Mutual exclusion with its bookkeeping: lock count, owner and held lists *)
(* agree, whatever timeouts and hand-overs interleave, and no thread waits *)
(* for a free mutex.                                                       *)
(***************************************************************************)
THEOREM MutexOwnership == Spec => []OwnershipConsistent
<1>1. IInv => OwnershipConsistent
  BY DEF IInv
<1> QED
  BY <1>1, InvariantInit, InvariantStep, PTL DEF Spec

-----------------------------------------------------------------------------
(* Priorities.  Least elements and the chain's recursive definition come   *)
(* from the well-foundedness of the naturals.                              *)

Less == {ss \in Nat \X Nat : ss[1] < ss[2]}

(***************************************************************************)
(* A set of naturals that is not empty has a least element.                *)
(***************************************************************************)
LEMMA NatLeast ==
    ASSUME NEW S \in SUBSET Nat, S # {}
    PROVE  \E n \in S : \A k \in S : n <= k
<1>1. IsWellFoundedOn(Less, Nat)
  BY NatLessThanWellFounded DEF OpToRel, Less
<1>2. PICK n \in S : \A k \in S : ~ (<<k, n>> \in Less)
  BY <1>1, WFMin
<1>3. ASSUME NEW k \in S PROVE n <= k
  <2>1. k \in Nat /\ n \in Nat
    OBVIOUS
  <2>2. k < n => <<k, n>> \in Less
    BY <2>1 DEF Less
  <2>3. ~ (<<k, n>> \in Less)
    BY <1>2
  <2> QED
    BY <2>1, <2>2, <2>3
<1> QED
  BY <1>3

(***************************************************************************)
(* Min is the minimum of a set of integers bounded from below.             *)
(***************************************************************************)
LEMMA MinOfBounded ==
    ASSUME NEW S \in SUBSET Int, S # {}, NEW b \in Int, \A x \in S : b <= x
    PROVE  Min(S) \in S /\ \A x \in S : Min(S) <= x
<1> DEFINE N == {n \in Nat : b + n \in S}
<1>1. N # {}
  <2>1. PICK x \in S : TRUE
    OBVIOUS
  <2>2. x - b \in N
    BY <2>1
  <2> QED
    BY <2>2
<1>2. PICK n \in N : \A k \in N : n <= k
  BY <1>1, NatLeast
<1>3. b + n \in S
  OBVIOUS
<1>4. ASSUME NEW y \in S PROVE b + n <= y
  <2>1. y - b \in N
    BY <1>4
  <2> QED
    BY <1>2, <2>1
<1> QED
  BY <1>3, <1>4, Zenon DEF Min

(***************************************************************************)
(* The priority a thread falls back to is an integer, also with infinitely *)
(* many waiters since the ceiling bounds what they pass on; with no mutex  *)
(* held it is the floor.                                                   *)
(***************************************************************************)
LEMMA FallbackPrio ==
    ASSUME prio \in [Threads -> Int], NEW held \in SUBSET Mutexes, NEW floor_prio \in Int
    PROVE  /\ held_mutexes_highest_waiter_prio(held, floor_prio) \in Int
           /\ held = {} => held_mutexes_highest_waiter_prio(held, floor_prio) = floor_prio
<1> DEFINE waiters == UNION {wait_q(m) : m \in held}
           inherited == {z_get_new_prio_with_ceiling(prio[w]) : w \in waiters}
           S == {floor_prio} \cup inherited
           b == IF floor_prio < Ceiling THEN floor_prio ELSE Ceiling
<1>1. waiters \subseteq Threads
  BY DEF wait_q
<1>2. \A x \in inherited : x \in Int /\ Ceiling <= x
  BY <1>1, MutexAssumption DEF z_get_new_prio_with_ceiling
<1>3. b \in Int /\ b <= floor_prio /\ b <= Ceiling /\ Ceiling \in Int
  BY MutexAssumption
<1>4. S \in SUBSET Int /\ S # {} /\ \A x \in S : b <= x
  <2> HIDE DEF inherited, b
  <2> QED
    BY <1>2, <1>3
<1>5. Min(S) \in S
  <2> HIDE DEF S, b
  <2> QED
    BY <1>3, <1>4, MinOfBounded
<1>6. held = {} => S = {floor_prio}
  OBVIOUS
<1>7. held_mutexes_highest_waiter_prio(held, floor_prio) = Min(S)
  BY DEF held_mutexes_highest_waiter_prio
<1> HIDE DEF S
<1> QED
  BY <1>4, <1>5, <1>6, <1>7

(***************************************************************************)
(* The chain walk starts at the mutex and goes on from owner to owner.     *)
(***************************************************************************)
LEMMA ChainUnfolds ==
    ASSUME NEW m \in Mutexes
    PROVE  /\ ChainMutex(m)[0] = m
           /\ \A k \in 1..(MaxHops - 1) : ChainMutex(m)[k] = ChainNext(m, ChainMutex(m)[k - 1])
<1> DEFINE Walk(f, n) == [k \in 0..n |-> IF k = 0 THEN m ELSE ChainNext(m, f[k - 1])]
           Bad == {n \in Nat : ~ \E f : f = Walk(f, n)}
<1>1. Bad = {}
  <2> SUFFICES ASSUME Bad # {} PROVE FALSE
    OBVIOUS
  <2>1. PICK n \in Bad : \A k \in Bad : n <= k
    BY NatLeast
  <2>2. CASE n = 0
    <3> DEFINE g == [k \in 0..0 |-> m]
    <3>1. g = Walk(g, 0)
      OBVIOUS
    <3> QED
      BY <2>2, <3>1
  <2>3. CASE n # 0
    <3>1. n \in Nat
      OBVIOUS
    <3>2. n - 1 \in Nat /\ ~(n <= n - 1)
      BY <2>3, <3>1
    <3>3. n - 1 \notin Bad
      <4> HIDE DEF Bad
      <4> QED
        BY <2>1, <3>1, <3>2
    <3>4. PICK f : f = Walk(f, n - 1)
      BY <3>2, <3>3
    <3> DEFINE g == [k \in 0..n |-> IF k = n THEN ChainNext(m, f[n - 1]) ELSE f[k]]
    <3>5. g = Walk(g, n)
      BY <2>3, <3>1, <3>2, <3>4
    <3> QED
      BY <3>5
  <2> QED
    BY <2>2, <2>3
<1>2. MaxHops - 1 \in Nat
  BY MutexAssumption
<1>3. PICK f : f = Walk(f, MaxHops - 1)
  BY <1>1, <1>2
<1>4. ChainMutex(m) = CHOOSE g : g = Walk(g, MaxHops - 1)
  BY DEF ChainMutex
<1>5. ChainMutex(m) = Walk(ChainMutex(m), MaxHops - 1)
  BY <1>3, <1>4
<1> QED
  BY <1>2, <1>5

(***************************************************************************)
(* The walk looks only at mutexes that have an owner.                      *)
(***************************************************************************)
LEMMA ChainIsOwned ==
    ASSUME IInv, NEW m \in Mutexes, owner[m] # None, NEW k \in ChainHops(m)
    PROVE  ChainMutex(m)[k] \in Mutexes /\ ChainOwner(m, k) \in Threads
<1> DEFINE Fine(at) == at = None \/ (at \in Mutexes /\ owner[at] \in Threads)
           Bad == {j \in 0..(MaxHops - 1) : ~Fine(ChainMutex(m)[j])}
<1>1. Bad = {}
  <2> SUFFICES ASSUME Bad # {} PROVE FALSE
    OBVIOUS
  <2>1. PICK j \in Bad : \A i \in Bad : j <= i
    <3>1. Bad \in SUBSET Nat
      BY MutexAssumption
    <3> QED
      BY <3>1, NatLeast
  <2>2. j \in 0..(MaxHops - 1) /\ MaxHops \in Nat /\ ~Fine(ChainMutex(m)[j])
    BY MutexAssumption
  <2>3. j # 0
    BY <2>2, ChainUnfolds DEF IInv, OwnershipType
  <2>4. /\ j \in 1..(MaxHops - 1) /\ j - 1 \in 0..(MaxHops - 1) /\ ~(j <= j - 1)
    BY <2>2, <2>3
  <2>5. j - 1 \notin Bad
    <3> HIDE DEF Bad
    <3> QED
      BY <2>1, <2>4
  <2> DEFINE at == ChainMutex(m)[j - 1]
  <2>6. Fine(at)
    BY <2>4, <2>5
  <2>7. ChainMutex(m)[j] = ChainNext(m, at)
    BY <2>4, ChainUnfolds
  <2> HIDE DEF at
  <2>8. Fine(ChainNext(m, at))
    <3>1. CASE ChainNext(m, at) = None
      BY <3>1
    <3>2. CASE ChainNext(m, at) # None
      <4>1. at # None /\ ChainNext(m, at) = NextMutex(owner[at]) /\ owner[at] \in Threads
        BY <2>6, <3>2 DEF ChainNext
      <4> DEFINE u == owner[at]
                 n == NextMutex(u)
      <4>2. n # None /\ state[u] = "pended" /\ mutex_pended_on[u] = n /\ u \in Threads
        BY <3>2, <4>1 DEF NextMutex
      <4>3. n \in Mutexes /\ u \in wait_q(n)
        BY <4>2 DEF wait_q, IInv, OwnershipType
      <4>4. owner[n] \in Threads
        BY <4>3 DEF IInv, OwnershipType, OwnershipConsistent
      <4> QED
        BY <4>1, <4>3, <4>4
    <3> QED
      BY <3>1, <3>2
  <2> QED
    BY <2>2, <2>7, <2>8
<1>2. k \in 0..(MaxHops - 1) /\ ChainMutex(m)[k] # None
  BY DEF ChainHops
<1> QED
  BY <1>1, <1>2 DEF ChainOwner

(***************************************************************************)
(* The inductive invariant of the priorities, on top of IInv: who holds no *)
(* mutex is not boosted, so that the priority captured with the first      *)
(* mutex is the thread's own.                                              *)
(***************************************************************************)
PrioInv ==
    /\ IInv
    /\ prio \in [Threads -> Int] /\ orig_prio \in [Threads -> Int]
    /\ timeout \in [Threads -> {"inactive", "armed", "popped"}]
    /\ deadlock \in BOOLEAN
    /\ NoLeakedBoost

(***************************************************************************)
(* The initial state satisfies it.                                         *)
(***************************************************************************)
LEMMA PrioInvInit == z_impl_k_mutex_init => PrioInv
  BY InvariantInit, MutexAssumption DEF z_impl_k_mutex_init, PrioInv, NoLeakedBoost

(***************************************************************************)
(* k_mutex_lock() of a free or own mutex captures an unboosted priority.   *)
(***************************************************************************)
LEMMA GrantKeepsPrio ==
    ASSUME PrioInv, NEW t \in Threads, NEW m \in Mutexes, LockGranted(t, m)
    PROVE  PrioInv'
<1>1. IInv'
  BY GrantKeepsIInv DEF PrioInv
<1>2. UNCHANGED <<prio, timeout, deadlock>>
  BY DEF LockGranted
<1>3. orig_prio' = orig_prio
  <2>1. CASE lock_count[m] = 0
    <3>1. orig_prio' = [orig_prio EXCEPT ![t] = IF held_mutexes[t] = {} THEN prio[t] ELSE @]
      BY <2>1 DEF LockGranted
    <3>2. held_mutexes[t] = {} => prio[t] = orig_prio[t]
      BY DEF PrioInv, NoLeakedBoost
    <3> QED
      BY <3>1, <3>2 DEF PrioInv
  <2>2. CASE lock_count[m] # 0
    BY <2>2 DEF LockGranted
  <2> QED
    BY <2>1, <2>2
<1>4. \A u \in Threads : held_mutexes'[u] = {} => held_mutexes[u] = {}
  BY DEF LockGranted, PrioInv, IInv, OwnershipType
<1> QED
  BY <1>1, <1>2, <1>3, <1>4 DEF PrioInv, NoLeakedBoost

(***************************************************************************)
(* A thread that begins to wait boosts only owners.                        *)
(***************************************************************************)
LEMMA PendKeepsPrio ==
    ASSUME PrioInv, NEW t \in Threads, NEW m \in Mutexes, NEW wait, LockPends(t, m, wait)
    PROVE  PrioInv'
<1> DEFINE boost == new_prio_for_inheritance(prio[t], prio[owner[m]])
           owners == {ChainOwner(m, k) : k \in ChainHops(m)}
<1>1. IInv /\ IInv'
  BY PendKeepsIInv DEF PrioInv
<1>2. /\ lock_count[m] # 0
      /\ prio' = [u \in Threads |-> IF u \in owners /\ boost < prio[u] THEN boost ELSE prio[u]]
      /\ timeout' = [timeout EXCEPT ![t] = IF wait = "timed" THEN "armed" ELSE "inactive"]
      /\ UNCHANGED <<orig_prio, held_mutexes, deadlock>>
  BY DEF LockPends
<1>3. owner[m] # None /\ owner[m] \in Threads
  BY <1>1, <1>2 DEF IInv, OwnershipConsistent, OwnershipType
<1>4. boost \in Int
  BY <1>3, MutexAssumption
     DEF PrioInv, new_prio_for_inheritance, z_get_new_prio_with_ceiling
<1>5. ASSUME NEW u \in Threads, u \in owners PROVE held_mutexes[u] # {}
  <2>1. PICK k \in ChainHops(m) : u = ChainOwner(m, k)
    BY <1>5
  <2>2. ChainMutex(m)[k] \in Mutexes
    BY <1>1, <1>3, ChainIsOwned
  <2>3. owner[ChainMutex(m)[k]] = u
    BY <2>1 DEF ChainOwner
  <2> QED
    BY <1>1, <2>2, <2>3 DEF IInv, OwnershipConsistent
<1> HIDE DEF boost, owners
<1>6. prio' \in [Threads -> Int] /\ timeout' \in [Threads -> {"inactive", "armed", "popped"}]
  BY <1>2, <1>4 DEF PrioInv
<1>7. NoLeakedBoost'
  BY <1>2, <1>5 DEF PrioInv, NoLeakedBoost
<1> QED
  BY <1>1, <1>2, <1>6, <1>7 DEF PrioInv

(***************************************************************************)
(* The last unlock: the thread that gives up its last mutex falls back to  *)
(* its own priority, and the one that is handed its first is not boosted.  *)
(***************************************************************************)
LEMMA ReleaseKeepsPrio ==
    ASSUME PrioInv, NEW t \in Threads, NEW m \in Mutexes, UnlockReleases(t, m)
    PROVE  PrioInv'
<1> DEFINE rest == held_mutexes[t] \ {m}
           fallback == held_mutexes_highest_waiter_prio(rest, orig_prio[t])
<1>1. IInv /\ IInv'
  BY ReleaseKeepsIInv DEF PrioInv
<1>2. fallback \in Int /\ (rest = {} => fallback = orig_prio[t]) /\ rest \in SUBSET Mutexes
  <2>1. rest \in SUBSET Mutexes /\ orig_prio[t] \in Int /\ prio \in [Threads -> Int]
    BY <1>1 DEF PrioInv, IInv, OwnershipType
  <2> QED
    BY <2>1, FallbackPrio
<1>3. /\ prio' = IF prio[t] = orig_prio[t] THEN prio ELSE [prio EXCEPT ![t] = fallback]
      /\ owner[m] = t /\ state[t] = "ready" /\ deadlock' = deadlock
  BY DEF UnlockReleases, Running
<1> HIDE DEF fallback
<1>4. /\ prio' \in [Threads -> Int]
      /\ \A u \in Threads : u # t => prio'[u] = prio[u]
      /\ rest = {} => prio'[t] = orig_prio[t]
  BY <1>2, <1>3 DEF PrioInv
<1>5. /\ orig_prio' = orig_prio
      /\ timeout' \in [Threads -> {"inactive", "armed", "popped"}]
      /\ held_mutexes'[t] = rest
      /\ \A u \in Threads : u # t => held_mutexes[u] \subseteq held_mutexes'[u]
  <2>1. CASE wait_q(m) = {}
    BY <1>1, <2>1 DEF UnlockReleases, PrioInv, IInv, OwnershipType
  <2>2. CASE wait_q(m) # {}
    <3>1. PICK w \in wait_q(m) :
            /\ held_mutexes' = [held_mutexes EXCEPT ![t] = rest, ![w] = @ \cup {m}]
            /\ orig_prio' = [orig_prio EXCEPT
                                ![w] = IF held_mutexes[w] = {} THEN prio[w] ELSE @]
            /\ timeout' = [timeout EXCEPT ![w] = "inactive"]
      BY <2>2 DEF UnlockReleases
    <3>2. w \in Threads /\ w # t
      BY <1>3 DEF wait_q
    <3>3. held_mutexes[w] = {} => prio[w] = orig_prio[w]
      BY <3>2 DEF PrioInv, NoLeakedBoost
    <3> HIDE DEF rest
    <3>4. orig_prio' = orig_prio
      BY <3>1, <3>2, <3>3 DEF PrioInv
    <3> QED
      BY <1>1, <3>1, <3>2, <3>4 DEF PrioInv, IInv, OwnershipType
  <2> QED
    BY <2>1, <2>2
<1> HIDE DEF rest
<1>6. NoLeakedBoost'
  <2>1. ASSUME NEW u \in Threads, held_mutexes'[u] = {} PROVE prio'[u] = BasePrio[u]
    <3>1. CASE u = t
      BY <1>4, <1>5, <2>1, <3>1 DEF PrioInv, NoLeakedBoost
    <3>2. CASE u # t
      <4>1. held_mutexes[u] = {}
        BY <1>5, <2>1, <3>2
      <4> QED
        BY <1>4, <3>2, <4>1 DEF PrioInv, NoLeakedBoost
    <3> QED
      BY <3>1, <3>2
  <2> QED
    BY <1>5, <2>1 DEF PrioInv, NoLeakedBoost
<1> QED
  BY <1>1, <1>3, <1>4, <1>5, <1>6 DEF PrioInv

(***************************************************************************)
(* The waiter that timed out recomputes the priority of an owner.          *)
(***************************************************************************)
LEMMA TimeoutKeepsPrio ==
    ASSUME PrioInv, NEW t \in Threads, LockTimesOut(t), IInv'
    PROVE  PrioInv'
<1> DEFINE o == owner[mutex_pended_on[t]]
           fallback == held_mutexes_highest_waiter_prio(held_mutexes[o], orig_prio[o])
<1>1. /\ UNCHANGED <<orig_prio, held_mutexes, timeout, deadlock>>
      /\ prio' = IF o = None THEN prio ELSE [prio EXCEPT ![o] = fallback]
  BY DEF LockTimesOut
<1>2. CASE o \notin Threads
  <2>1. prio' = prio
    <3>1. [prio EXCEPT ![o] = fallback] = prio
      BY <1>2 DEF PrioInv
    <3> QED
      BY <1>1, <3>1
  <2> QED
    BY <1>1, <2>1 DEF PrioInv, NoLeakedBoost
<1>3. CASE o \in Threads
  <2>1. fallback \in Int /\ (held_mutexes[o] = {} => fallback = orig_prio[o])
    <3>1. /\ held_mutexes[o] \in SUBSET Mutexes /\ orig_prio[o] \in Int
          /\ prio \in [Threads -> Int]
      BY <1>3 DEF PrioInv, IInv, OwnershipType
    <3> HIDE DEF o
    <3> QED
      BY <3>1, FallbackPrio
  <2>2. o # None
    BY <1>3, MutexAssumption
  <2> HIDE DEF fallback, o
  <2>3. prio' = [prio EXCEPT ![o] = fallback]
    BY <1>1, <2>2
  <2>4. prio' \in [Threads -> Int]
    BY <1>3, <2>1, <2>3 DEF PrioInv
  <2>5. NoLeakedBoost'
    BY <1>1, <1>3, <2>1, <2>3 DEF PrioInv, NoLeakedBoost
  <2> QED
    BY <1>1, <2>4, <2>5 DEF PrioInv
<1> QED
  BY <1>2, <1>3

(***************************************************************************)
(* Every step keeps the invariant of the priorities.                       *)
(***************************************************************************)
LEMMA PrioInvStep == PrioInv /\ [Next]_vars => PrioInv'
<1> SUFFICES ASSUME PrioInv, [Next]_vars PROVE PrioInv'
  OBVIOUS
<1>0. IInv'
  BY InvariantStep DEF PrioInv
<1>1. ASSUME NEW t \in Threads, NEW m \in Mutexes, LockGranted(t, m) PROVE PrioInv'
  BY <1>1, GrantKeepsPrio
<1>2. ASSUME NEW t \in Threads, NEW m \in Mutexes, NEW wait \in Waits, LockPends(t, m, wait)
      PROVE  PrioInv'
  BY <1>2, PendKeepsPrio
<1>3. ASSUME NEW t \in Threads, NEW m \in Mutexes, NEW wait \in Waits, LockAsserts(t, m, wait)
      PROVE  PrioInv'
  BY <1>0, <1>3 DEF LockAsserts, PrioInv, NoLeakedBoost
<1>4. ASSUME NEW t \in Threads, TimeoutPopped(t) \/ z_thread_timeout(t) PROVE PrioInv'
  BY <1>0, <1>4 DEF TimeoutPopped, z_thread_timeout, PrioInv, NoLeakedBoost
<1>5. ASSUME NEW t \in Threads, LockTimesOut(t) PROVE PrioInv'
  BY <1>0, <1>5, TimeoutKeepsPrio
<1>6. ASSUME NEW t \in Threads, NEW m \in Mutexes, UnlockRecursive(t, m) PROVE PrioInv'
  BY <1>0, <1>6 DEF UnlockRecursive, PrioInv, NoLeakedBoost
<1>7. ASSUME NEW t \in Threads, NEW m \in Mutexes, UnlockReleases(t, m) PROVE PrioInv'
  BY <1>7, ReleaseKeepsPrio
<1>8. CASE UNCHANGED vars
  BY <1>0, <1>8 DEF vars, PrioInv, NoLeakedBoost
<1> QED
  BY <1>1, <1>2, <1>3, <1>4, <1>5, <1>6, <1>7, <1>8
     DEF Next, z_impl_k_mutex_lock, z_impl_k_mutex_unlock

(***************************************************************************)
(* No leaked boost, for any number of threads and mutexes, any priorities  *)
(* and any hop limit: a thread that holds no mutex has its own priority,   *)
(* and so has every orig_prio.  Every state is well typed.                 *)
(***************************************************************************)
THEOREM MutexLeaksNoBoost == Spec => [](TypeOK /\ NoLeakedBoost)
<1>1. PrioInv => TypeOK /\ NoLeakedBoost
  BY DEF PrioInv, IInv, OwnershipType, TypeOK
<1> QED
  BY <1>1, PrioInvInit, PrioInvStep, PTL DEF Spec

(***************************************************************************)
(* Lock counts stay in range and owners, held lists, priorities and thread *)
(* states stay what mutex.c declares them to be, in every state.           *)
(***************************************************************************)
THEOREM MutexTyped == Spec => []TypeOK
  BY MutexLeaksNoBoost, PTL

-----------------------------------------------------------------------------
(* Inversion.  The walk of k_mutex_lock() visits at most MaxHops mutexes.  *)
(* The facts below say that it misses no owner in the caller's chain when  *)
(* the system has at most that many threads.                               *)

(***************************************************************************)
(* z_get_new_prio_with_ceiling() is a maximum with the ceiling.            *)
(***************************************************************************)
LEMMA CeilingFacts ==
    ASSUME NEW p \in Int
    PROVE  /\ z_get_new_prio_with_ceiling(p) \in Int
           /\ p <= z_get_new_prio_with_ceiling(p)
           /\ Ceiling <= z_get_new_prio_with_ceiling(p)
           /\ z_get_new_prio_with_ceiling(z_get_new_prio_with_ceiling(p))
                = z_get_new_prio_with_ceiling(p)
           /\ \A q \in Int : p <= q => z_get_new_prio_with_ceiling(p)
                                         <= z_get_new_prio_with_ceiling(q)
  BY MutexAssumption DEF z_get_new_prio_with_ceiling

(***************************************************************************)
(* A hop of the walk is reached over all the hops before it, each of whose *)
(* owners is pended on the mutex of the next.                              *)
(***************************************************************************)
LEMMA ChainPrefix ==
    ASSUME NEW m \in Mutexes, NEW k \in ChainHops(m), NEW j \in 0..k
    PROVE  /\ j \in ChainHops(m)
           /\ j < k => NextMutex(ChainOwner(m, j)) = ChainMutex(m)[j + 1]
<1>0. PICK C : C = ChainMutex(m)
  OBVIOUS
<1>1. k \in 0..(MaxHops - 1) /\ C[k] # None /\ MaxHops - 1 \in Nat
  BY <1>0, MutexAssumption DEF ChainHops
<1>2. \A i \in 1..(MaxHops - 1) : C[i] = ChainNext(m, C[i - 1])
  BY <1>0, ChainUnfolds
<1> DEFINE Gap == {n \in 0..k : C[k - n] = None}
<1>3. Gap = {}
  <2> SUFFICES ASSUME Gap # {} PROVE FALSE
    OBVIOUS
  <2>1. PICK n \in Gap : \A i \in Gap : n <= i
    <3>1. Gap \in SUBSET Nat
      BY <1>1
    <3> QED
      BY <3>1, NatLeast
  <2>2. n \in 0..k /\ C[k - n] = None /\ n # 0
    BY <1>1
  <2>3. n - 1 \in 0..k /\ k - n \in 0..(MaxHops - 1) /\ k - n + 1 \in 1..(MaxHops - 1)
    BY <1>1, <2>2
  <2>4. C[k - n + 1] = ChainNext(m, None)
    <3>1. C[k - n + 1] = ChainNext(m, C[k - n + 1 - 1]) /\ k - n + 1 - 1 = k - n
      BY <1>1, <1>2, <2>2, <2>3
    <3> QED
      BY <2>2, <3>1
  <2>5. C[k - (n - 1)] = None
    <3>1. k - (n - 1) = k - n + 1
      BY <1>1, <2>2
    <3>2. ChainNext(m, None) = None
      BY DEF ChainNext
    <3> QED
      BY <2>4, <3>1, <3>2
  <2>6. n - 1 \in Gap
    BY <2>3, <2>5
  <2> HIDE DEF Gap
  <2>7. n <= n - 1
    BY <2>1, <2>6
  <2> QED
    BY <1>1, <2>2, <2>7
<1>4. ASSUME NEW i \in 0..k PROVE C[i] # None /\ i \in 0..(MaxHops - 1)
  <2>1. k - i \in 0..k /\ k - (k - i) = i
    BY <1>1
  <2>2. k - i \notin Gap
    BY <1>3
  <2>3. C[k - (k - i)] # None
    BY <2>1, <2>2
  <2> QED
    BY <1>1, <2>1, <2>3
<1>5. j \in ChainHops(m)
  BY <1>0, <1>4 DEF ChainHops
<1>6. ASSUME j < k PROVE NextMutex(ChainOwner(m, j)) = C[j + 1]
  <2>1. j + 1 \in 1..(MaxHops - 1) /\ j + 1 \in 0..k /\ j + 1 - 1 = j
    BY <1>1, <1>6
  <2>2. C[j + 1] = ChainNext(m, C[j]) /\ C[j + 1] # None
    BY <1>2, <1>4, <2>1
  <2> QED
    BY <1>0, <2>2 DEF ChainNext, ChainOwner
<1> QED
  BY <1>0, <1>5, <1>6

(***************************************************************************)
(* With at most MaxHops threads, one of them running, the walk is closed:  *)
(* a mutex that an owner on it waits for is on it too.  A walk cut off at  *)
(* the limit would have passed MaxHops waiting owners, two of them the     *)
(* same, so that it had begun to repeat itself.                            *)
(***************************************************************************)
LEMMA ChainCloses ==
    ASSUME IInv, IsFiniteSet(Threads), Cardinality(Threads) <= MaxHops,
           NEW t \in Threads, state[t] = "ready",
           NEW m \in Mutexes, owner[m] # None,
           NEW k \in ChainHops(m), NextMutex(ChainOwner(m, k)) # None
    PROVE  \E j \in ChainHops(m) : ChainMutex(m)[j] = NextMutex(ChainOwner(m, k))
<1>1. k \in 0..(MaxHops - 1) /\ MaxHops - 1 \in Nat
  BY MutexAssumption DEF ChainHops
<1>2. CASE NextMutex(ChainOwner(m, k)) = m
  <2>1. 0 \in ChainHops(m) /\ ChainMutex(m)[0] = m
    BY <1>1, ChainUnfolds, MutexAssumption DEF ChainHops
  <2> QED
    BY <1>2, <2>1
<1>3. CASE k < MaxHops - 1 /\ NextMutex(ChainOwner(m, k)) # m
  <2>1. k + 1 \in 1..(MaxHops - 1) /\ k + 1 \in 0..(MaxHops - 1) /\ k + 1 - 1 = k
    BY <1>1, <1>3
  <2>2. ChainMutex(m)[k + 1] = ChainNext(m, ChainMutex(m)[k])
    <3>1. PICK C : C = ChainMutex(m)
      OBVIOUS
    <3>2. \A i \in 1..(MaxHops - 1) : C[i] = ChainNext(m, C[i - 1])
      BY <3>1, ChainUnfolds
    <3>3. PICK n \in 1..(MaxHops - 1) : n = k + 1
      BY <2>1
    <3>4. C[n] = ChainNext(m, C[n - 1]) /\ n - 1 = k
      BY <1>1, <3>2, <3>3
    <3> QED
      BY <3>1, <3>3, <3>4
  <2>3. ChainMutex(m)[k] # None
    BY DEF ChainHops
  <2>4. ChainMutex(m)[k + 1] = NextMutex(ChainOwner(m, k))
    BY <1>3, <2>2, <2>3 DEF ChainNext, ChainOwner
  <2> QED
    BY <2>1, <2>4 DEF ChainHops
<1>4. CASE k = MaxHops - 1
  <2> DEFINE u == [i \in 0..k |-> ChainOwner(m, i)]
  <2>1. ASSUME NEW i \in 0..k
        PROVE  /\ i \in ChainHops(m)
               /\ u[i] \in Threads \ {t}
               /\ NextMutex(u[i]) # None
               /\ i < k => NextMutex(u[i]) = ChainMutex(m)[i + 1]
    <3>1. i \in ChainHops(m) /\ (i < k => NextMutex(u[i]) = ChainMutex(m)[i + 1])
      BY ChainPrefix
    <3>2. i < k => ChainMutex(m)[i + 1] # None
      <4>1. i < k => i + 1 \in 0..k
        BY <1>1
      <4>2. i < k => i + 1 \in ChainHops(m)
        BY <4>1, ChainPrefix
      <4> QED
        BY <4>2 DEF ChainHops
    <3>3. i = k \/ i < k
      BY <1>1
    <3>4. NextMutex(u[i]) # None
      BY <3>1, <3>2, <3>3
    <3>5. u[i] \in Threads /\ u[i] # t
      BY <3>1, <3>4, ChainIsOwned DEF NextMutex
    <3> QED
      BY <3>1, <3>4, <3>5
  <2>2. PICK x \in 0..k, y \in 0..k : x # y /\ u[x] = u[y]
    <3>1. IsFiniteSet(Threads \ {t}) /\ Cardinality(Threads \ {t}) = Cardinality(Threads) - 1
      BY FS_RemoveElement
    <3>2. IsFiniteSet(0..k) /\ Cardinality(0..k) = k + 1
      BY <1>1, FS_Interval
    <3>3. Cardinality(Threads) \in Nat
      BY FS_CardinalityType
    <3>4. Cardinality(Threads \ {t}) < Cardinality(0..k)
      BY <1>1, <1>4, <3>1, <3>2, <3>3, MutexAssumption
    <3>5. u \in [0..k -> Threads \ {t}]
      BY <2>1
    <3>6. PICK S, T, f : S = 0..k /\ T = Threads \ {t} /\ f = u
      OBVIOUS
    <3> HIDE DEF u
    <3>7. /\ IsFiniteSet(S) /\ IsFiniteSet(T) /\ Cardinality(T) < Cardinality(S)
          /\ f \in [S -> T]
      BY <3>1, <3>2, <3>4, <3>5, <3>6
    <3>8. \E x, y \in S : x # y /\ f[x] = f[y]
      BY <3>7, FS_PigeonHole
    <3> QED
      BY <3>6, <3>8
  <2> DEFINE D == {d \in 0..k : \E i \in 0..k : i < k - d /\ u[i] = u[k - d]}
  <2>3. D # {}
    <3>1. CASE x < y
      <4>1. k - y \in 0..k /\ k - (k - y) = y
        BY <1>1
      <4> QED
        BY <2>2, <3>1, <4>1
    <3>2. CASE y < x
      <4>1. k - x \in 0..k /\ k - (k - x) = x
        BY <1>1
      <4> QED
        BY <2>2, <3>2, <4>1
    <3> QED
      BY <1>1, <2>2, <3>1, <3>2
  <2>4. PICK d \in D : \A e \in D : d <= e
    <3>1. D \in SUBSET Nat
      BY <1>1
    <3> QED
      BY <2>3, <3>1, NatLeast
  <2>5. PICK i \in 0..k : i < k - d /\ u[i] = u[k - d]
    OBVIOUS
  <2>6. d \in 0..k /\ i < k /\ i + 1 \in 0..k
    BY <1>1, <2>5
  <2>7. d = 0
    <3> SUFFICES ASSUME d # 0 PROVE FALSE
      OBVIOUS
    <3>1. /\ k - d \in 0..k /\ k - d < k /\ k - d + 1 \in 0..k
          /\ d - 1 \in 0..k /\ k - (d - 1) = k - d + 1 /\ i + 1 < k - d + 1
      BY <1>1, <2>5, <2>6
    <3>2. ChainMutex(m)[i + 1] = ChainMutex(m)[k - d + 1]
      BY <2>1, <2>5, <2>6, <3>1
    <3>3. u[i + 1] = u[k - (d - 1)]
      BY <2>6, <3>1, <3>2 DEF ChainOwner
    <3>4. d - 1 \in D
      BY <2>6, <3>1, <3>3
    <3> HIDE DEF D
    <3>5. d <= d - 1
      BY <2>4, <3>4
    <3> QED
      BY <1>1, <2>6, <3>5
  <2>8. u[i] = u[k]
    BY <1>1, <2>5, <2>7
  <2>9. u[k] = ChainOwner(m, k)
    BY <1>1
  <2> HIDE DEF u
  <2>10. ChainMutex(m)[i + 1] = NextMutex(ChainOwner(m, k)) /\ i + 1 \in ChainHops(m)
    BY <2>1, <2>6, <2>8, <2>9
  <2> QED
    BY <2>10
<1> QED
  BY <1>1, <1>2, <1>3, <1>4

\* h is the least of the floor and what the waiters for the held mutexes pass on.
FallbackIs(h, held, floor_prio) ==
    /\ h \in Int /\ h <= floor_prio
    /\ \A n \in held : \A w \in wait_q(n) : h <= z_get_new_prio_with_ceiling(prio[w])
    /\ \/ h = floor_prio
       \/ \E n \in held : \E w \in wait_q(n) : h = z_get_new_prio_with_ceiling(prio[w])

(***************************************************************************)
(* held_mutexes_highest_waiter_prio() is the greatest lower bound of the   *)
(* floor and what the waiters pass on, and it is one of them.              *)
(***************************************************************************)
LEMMA FallbackBounds ==
    ASSUME prio \in [Threads -> Int], NEW held \in SUBSET Mutexes, NEW floor_prio \in Int,
           NEW h, h = held_mutexes_highest_waiter_prio(held, floor_prio)
    PROVE  FallbackIs(h, held, floor_prio)
<1> DEFINE waiters == UNION {wait_q(m) : m \in held}
           inherited == {z_get_new_prio_with_ceiling(prio[w]) : w \in waiters}
           S == {floor_prio} \cup inherited
<1>1. \A n \in held : \A w \in wait_q(n) : w \in waiters /\ w \in Threads
  BY DEF wait_q
<1>2. \A w \in waiters : w \in Threads /\ \E n \in held : w \in wait_q(n)
  BY DEF wait_q
<1>3. PICK b \in Int : b <= floor_prio /\ b <= Ceiling /\ Ceiling \in Int
  <2> DEFINE c == IF floor_prio < Ceiling THEN floor_prio ELSE Ceiling
  <2>1. c \in Int /\ c <= floor_prio /\ c <= Ceiling /\ Ceiling \in Int
    BY MutexAssumption
  <2> QED
    BY <2>1
<1>4. \A w \in waiters : /\ z_get_new_prio_with_ceiling(prio[w]) \in Int
                         /\ Ceiling <= z_get_new_prio_with_ceiling(prio[w])
  BY <1>2, CeilingFacts
<1> HIDE DEF waiters
<1>5. S \in SUBSET Int /\ S # {} /\ \A x \in S : b <= x
  BY <1>3, <1>4
<1>6. h = Min(S)
  BY DEF held_mutexes_highest_waiter_prio, waiters
<1>7. floor_prio \in S /\ \A w \in waiters : z_get_new_prio_with_ceiling(prio[w]) \in S
  OBVIOUS
<1>8. \A x \in S : x = floor_prio \/ \E w \in waiters : x = z_get_new_prio_with_ceiling(prio[w])
  OBVIOUS
<1> HIDE DEF S
<1>9. h \in S /\ \A x \in S : h <= x
  BY <1>5, <1>6, MinOfBounded
<1>10. h <= floor_prio
  BY <1>7, <1>9
<1>11. \A w \in waiters : h <= z_get_new_prio_with_ceiling(prio[w])
  BY <1>7, <1>9
<1>12. h = floor_prio \/ \E w \in waiters : h = z_get_new_prio_with_ceiling(prio[w])
  BY <1>8, <1>9
<1> QED
  BY <1>1, <1>2, <1>5, <1>9, <1>10, <1>11, <1>12 DEF FallbackIs

(***************************************************************************)
(* The invariant of inheritance, on top of PrioInv: no inversion, and      *)
(* inheritance only ever makes a thread more urgent.                       *)
(***************************************************************************)
OnlyBoosted == \A t \in Threads : prio[t] <= BasePrio[t]

UrgentInv == PrioInv /\ NoInversion /\ OnlyBoosted

(***************************************************************************)
(* The initial state satisfies it: nobody waits.                           *)
(***************************************************************************)
LEMMA UrgentInvInit == z_impl_k_mutex_init => UrgentInv
<1> SUFFICES ASSUME z_impl_k_mutex_init PROVE UrgentInv
  OBVIOUS
<1>1. PrioInv
  BY PrioInvInit
<1>2. NoInversion
  BY DEF z_impl_k_mutex_init, NoInversion, wait_q
<1>3. OnlyBoosted
  BY MutexAssumption DEF z_impl_k_mutex_init, OnlyBoosted
<1> QED
  BY <1>1, <1>2, <1>3 DEF UrgentInv

(***************************************************************************)
(* Steps in which no priority changes and no mutex with a waiter changes   *)
(* hands, and waiters may leave.                                           *)
(***************************************************************************)
LEMMA SameKeepsUrgent ==
    ASSUME UrgentInv, PrioInv', UNCHANGED prio,
           \A n \in Mutexes : wait_q(n)' \subseteq wait_q(n),
           \A n \in Mutexes : wait_q(n) # {} => owner'[n] = owner[n]
    PROVE  UrgentInv'
  BY DEF UrgentInv, NoInversion, OnlyBoosted

(***************************************************************************)
(* k_mutex_lock() of a free or own mutex: a free mutex has no waiter.      *)
(***************************************************************************)
LEMMA GrantKeepsUrgent ==
    ASSUME UrgentInv, NEW t \in Threads, NEW m \in Mutexes, LockGranted(t, m)
    PROVE  UrgentInv'
<1>1. IInv /\ PrioInv'
  BY GrantKeepsPrio DEF UrgentInv, PrioInv
<1>2. /\ owner' = [owner EXCEPT ![m] = t] /\ (lock_count[m] = 0 \/ owner[m] = t)
      /\ UNCHANGED <<prio, state, mutex_pended_on>>
  BY DEF LockGranted
<1>3. \A n \in Mutexes : wait_q(n)' = wait_q(n)
  BY <1>2 DEF wait_q
<1>4. ASSUME NEW n \in Mutexes, wait_q(n) # {} PROVE owner'[n] = owner[n]
  BY <1>1, <1>2, <1>4 DEF IInv, OwnershipType, OwnershipConsistent
<1> QED
  BY <1>1, <1>2, <1>3, <1>4, SameKeepsUrgent

(***************************************************************************)
(* The new waiter boosts every owner it waits for, directly or not: the    *)
(* walk is closed, so no boosted waiter is left with an owner less urgent. *)
(***************************************************************************)
LEMMA PendKeepsUrgent ==
    ASSUME UrgentInv, IsFiniteSet(Threads), Cardinality(Threads) <= MaxHops,
           NEW t \in Threads, NEW m \in Mutexes, NEW wait, LockPends(t, m, wait)
    PROVE  UrgentInv'
<1> DEFINE boost == new_prio_for_inheritance(prio[t], prio[owner[m]])
           owners == {ChainOwner(m, k) : k \in ChainHops(m)}
           ceil(p) == z_get_new_prio_with_ceiling(p)
<1>1. IInv /\ PrioInv /\ PrioInv' /\ NoInversion /\ OnlyBoosted
  BY PendKeepsPrio DEF UrgentInv, PrioInv
<1>2. /\ state[t] = "ready" /\ lock_count[m] # 0
      /\ prio' = [u \in Threads |-> IF u \in owners /\ boost < prio[u] THEN boost ELSE prio[u]]
      /\ mutex_pended_on' = [mutex_pended_on EXCEPT ![t] = m]
      /\ state' = [state EXCEPT ![t] = "pended"]
      /\ UNCHANGED owner
  BY DEF LockPends, Running
<1>3. owner[m] \in Threads /\ owner[m] # None
  BY <1>1, <1>2 DEF IInv, OwnershipType, OwnershipConsistent
<1>4. /\ prio \in [Threads -> Int]
      /\ mutex_pended_on \in [Threads -> Mutexes \cup {None}]
      /\ state \in [Threads -> {"ready", "pended", "timedout"}]
      /\ owner \in [Mutexes -> Threads \cup {None}]
  BY <1>1 DEF PrioInv, IInv, OwnershipType
<1>5. boost \in Int /\ ceil(boost) = boost /\ boost <= ceil(prio[t])
  <2>1. prio[t] \in Int /\ prio[owner[m]] \in Int
    BY <1>3, <1>4
  <2> QED
    BY <2>1, MutexAssumption DEF new_prio_for_inheritance, z_get_new_prio_with_ceiling
<1>6. owner[m] \in owners
  <2>1. 0 \in ChainHops(m) /\ ChainMutex(m)[0] = m
    BY ChainUnfolds, MutexAssumption DEF ChainHops
  <2> QED
    BY <2>1 DEF ChainOwner
<1>7. ASSUME NEW n \in Mutexes, NEW w \in wait_q(n), w \in owners
      PROVE  owner[n] \in owners
  <2>1. PICK k \in ChainHops(m) : w = ChainOwner(m, k)
    BY <1>7
  <2>2. NextMutex(w) = n /\ n # None
    BY MutexAssumption DEF wait_q, NextMutex
  <2>3. PICK j \in ChainHops(m) : ChainMutex(m)[j] = n
    BY <1>1, <1>2, <1>3, <2>1, <2>2, ChainCloses
  <2> QED
    BY <2>3 DEF ChainOwner
<1> HIDE DEF boost, owners
<1>8. ASSUME NEW u \in Threads
      PROVE  /\ prio'[u] \in Int /\ prio[u] \in Int /\ prio'[u] <= prio[u]
             /\ prio'[u] = prio[u] \/ (u \in owners /\ prio'[u] = boost)
             /\ u \in owners => prio'[u] <= boost
  BY <1>2, <1>4, <1>5
<1>9. OnlyBoosted'
  BY <1>1, <1>8, MutexAssumption DEF OnlyBoosted
<1>10. ASSUME NEW n \in Mutexes, NEW w \in wait_q(n)'
       PROVE  prio'[owner'[n]] <= ceil(prio'[w])
  <2>1. w \in Threads /\ (w = t => n = m) /\ (w # t => w \in wait_q(n))
    BY <1>2, <1>4 DEF wait_q
  <2>2. CASE w = t
    <3>1. prio'[owner[m]] \in Int /\ prio'[owner[m]] <= boost
      BY <1>3, <1>6, <1>8
    <3>2. boost <= ceil(prio'[t])
      <4>1. prio'[t] = prio[t] \/ prio'[t] = boost
        BY <1>8
      <4>2. CASE prio'[t] = prio[t]
        BY <1>5, <4>2
      <4>3. CASE prio'[t] = boost
        BY <1>5, <4>3
      <4> QED
        BY <4>1, <4>2, <4>3
    <3>3. ceil(prio'[t]) \in Int
      BY <1>8, CeilingFacts
    <3> HIDE DEF ceil
    <3> QED
      BY <1>2, <1>5, <2>1, <2>2, <3>1, <3>2, <3>3
  <2>3. CASE w # t
    <3>1. w \in wait_q(n) /\ owner[n] # None /\ owner[n] \in Threads
      BY <1>1, <1>4, <2>1, <2>3 DEF IInv, OwnershipConsistent
    <3>2. prio[owner[n]] <= ceil(prio[w]) /\ ceil(prio[w]) \in Int
      BY <1>1, <1>4, <2>1, <3>1, CeilingFacts DEF NoInversion
    <3>3. CASE prio'[w] = prio[w]
      <4>1. /\ prio'[owner[n]] \in Int /\ prio[owner[n]] \in Int
            /\ prio'[owner[n]] <= prio[owner[n]]
        BY <1>8, <3>1
      <4> HIDE DEF ceil
      <4> QED
        BY <1>2, <3>2, <3>3, <4>1
    <3>4. CASE w \in owners /\ prio'[w] = boost
      <4>1. owner[n] \in owners
        BY <1>7, <3>1, <3>4
      <4>2. prio'[owner[n]] <= boost
        BY <1>8, <3>1, <4>1
      <4> QED
        BY <1>2, <1>5, <3>4, <4>2
    <3> QED
      BY <1>8, <2>1, <3>3, <3>4
  <2> QED
    BY <2>2, <2>3
<1> QED
  BY <1>1, <1>9, <1>10 DEF UrgentInv, NoInversion

(***************************************************************************)
(* The last unlock: the fallback covers the waiters of the mutexes kept,   *)
(* and the best waiter is at least as urgent as those it leaves behind.    *)
(***************************************************************************)
LEMMA ReleaseKeepsUrgent ==
    ASSUME UrgentInv, NEW t \in Threads, NEW m \in Mutexes, UnlockReleases(t, m)
    PROVE  UrgentInv'
<1> DEFINE rest == held_mutexes[t] \ {m}
           ceil(p) == z_get_new_prio_with_ceiling(p)
<1>1. IInv /\ PrioInv /\ PrioInv' /\ NoInversion /\ OnlyBoosted
  BY ReleaseKeepsPrio DEF UrgentInv, PrioInv
<1>2. /\ prio \in [Threads -> Int] /\ orig_prio \in [Threads -> Int]
      /\ held_mutexes \in [Threads -> SUBSET Mutexes]
      /\ mutex_pended_on \in [Threads -> Mutexes \cup {None}]
      /\ state \in [Threads -> {"ready", "pended", "timedout"}]
      /\ owner \in [Mutexes -> Threads \cup {None}]
  BY <1>1 DEF PrioInv, IInv, OwnershipType
<1>3. PICK fallback : fallback = held_mutexes_highest_waiter_prio(rest, orig_prio[t])
  OBVIOUS
<1>4. /\ fallback \in Int /\ fallback <= orig_prio[t]
      /\ \A n \in rest : \A w \in wait_q(n) : fallback <= ceil(prio[w])
  <2>1. rest \in SUBSET Mutexes /\ orig_prio[t] \in Int
    BY <1>2
  <2> HIDE DEF rest
  <2>2. FallbackIs(fallback, rest, orig_prio[t])
    BY <1>2, <1>3, <2>1, FallbackBounds
  <2> QED
    BY <2>2 DEF FallbackIs
<1>5. /\ prio' = IF prio[t] = orig_prio[t] THEN prio ELSE [prio EXCEPT ![t] = fallback]
      /\ owner[m] = t /\ state[t] = "ready"
  BY <1>3 DEF UnlockReleases, Running
<1>6. /\ \A u \in Threads : u # t => prio'[u] = prio[u]
      /\ prio'[t] = prio[t] \/ prio'[t] = fallback
  BY <1>2, <1>5
<1>7. orig_prio[t] = BasePrio[t]
  BY <1>1 DEF PrioInv, NoLeakedBoost
<1>8. OnlyBoosted'
  BY <1>1, <1>4, <1>6, <1>7 DEF OnlyBoosted
<1>9. ASSUME NEW n \in Mutexes, n # m, NEW w \in wait_q(n)
      PROVE  prio'[owner[n]] <= ceil(prio'[w])
  <2>1. w \in Threads /\ w # t
    BY <1>5 DEF wait_q
  <2>2. prio'[w] = prio[w]
    BY <1>6, <2>1
  <2>3. owner[n] \in Threads
    BY <1>1, <1>2, <1>9 DEF IInv, OwnershipConsistent
  <2>4. prio[owner[n]] <= ceil(prio[w])
    BY <1>1, <1>9 DEF NoInversion
  <2>5. CASE owner[n] = t
    <3>1. n \in rest
      BY <1>1, <1>9, <2>5 DEF IInv, OwnershipConsistent
    <3> QED
      BY <1>4, <1>6, <2>2, <2>4, <2>5, <3>1
  <2>6. CASE owner[n] # t
    BY <1>6, <2>2, <2>3, <2>4, <2>6
  <2> QED
    BY <2>5, <2>6
<1>10. CASE wait_q(m) = {}
  <2>1. owner' = [owner EXCEPT ![m] = None] /\ UNCHANGED <<mutex_pended_on, state>>
    BY <1>10 DEF UnlockReleases
  <2>2. \A n \in Mutexes : wait_q(n)' = wait_q(n)
    BY <2>1 DEF wait_q
  <2>3. ASSUME NEW n \in Mutexes, NEW w \in wait_q(n)'
        PROVE  prio'[owner'[n]] <= ceil(prio'[w])
    <3>1. n # m /\ w \in wait_q(n)
      BY <1>10, <2>2
    <3>2. owner'[n] = owner[n]
      BY <1>2, <2>1, <3>1
    <3> QED
      BY <1>9, <3>1, <3>2
  <2> QED
    BY <1>1, <1>8, <2>3 DEF UrgentInv, NoInversion
<1>11. CASE wait_q(m) # {}
  <2>1. PICK b \in wait_q(m) :
          /\ \A v \in wait_q(m) : prio[b] <= prio[v]
          /\ owner' = [owner EXCEPT ![m] = b]
          /\ mutex_pended_on' = [mutex_pended_on EXCEPT ![b] = None]
          /\ state' = [state EXCEPT ![b] = "ready"]
    BY <1>11 DEF UnlockReleases
  <2>2. b \in Threads /\ b # t
    BY <1>5 DEF wait_q
  <2>3. \A n \in Mutexes : wait_q(n)' \subseteq wait_q(n)
    BY <1>2, <2>1, <2>2 DEF wait_q
  <2>4. ASSUME NEW n \in Mutexes, NEW w \in wait_q(n)'
        PROVE  prio'[owner'[n]] <= ceil(prio'[w])
    <3>1. w \in wait_q(n)
      BY <2>3
    <3>2. CASE n # m
      <4>1. owner'[n] = owner[n]
        BY <1>2, <2>1, <3>2
      <4> QED
        BY <1>9, <3>1, <3>2, <4>1
    <3>3. CASE n = m
      <4>1. owner'[n] = b
        BY <1>2, <2>1, <3>3
      <4>2. w \in Threads /\ w # t
        BY <1>5, <3>1 DEF wait_q
      <4>3. prio[b] <= prio[w] /\ prio'[b] = prio[b] /\ prio'[w] = prio[w]
        BY <1>6, <2>1, <2>2, <3>1, <3>3, <4>2
      <4>4. prio[w] <= ceil(prio[w]) /\ ceil(prio[w]) \in Int
        BY <1>2, <4>2, CeilingFacts
      <4>5. prio[b] \in Int /\ prio[w] \in Int
        BY <1>2, <2>2, <4>2
      <4> HIDE DEF ceil
      <4> QED
        BY <4>1, <4>3, <4>4, <4>5
    <3> QED
      BY <3>2, <3>3
  <2> QED
    BY <1>1, <1>8, <2>4 DEF UrgentInv, NoInversion
<1> QED
  BY <1>10, <1>11

(***************************************************************************)
(* The waiter that timed out lets the owner's priority down, never below   *)
(* what the waiters that are left need.                                    *)
(***************************************************************************)
LEMMA TimesOutKeepsUrgent ==
    ASSUME UrgentInv, NEW t \in Threads, LockTimesOut(t), PrioInv'
    PROVE  UrgentInv'
<1> DEFINE ceil(p) == z_get_new_prio_with_ceiling(p)
<1>1. IInv /\ PrioInv /\ NoInversion /\ OnlyBoosted
  BY DEF UrgentInv, PrioInv
<1>2. /\ prio \in [Threads -> Int] /\ orig_prio \in [Threads -> Int]
      /\ held_mutexes \in [Threads -> SUBSET Mutexes]
      /\ mutex_pended_on \in [Threads -> Mutexes \cup {None}]
      /\ state \in [Threads -> {"ready", "pended", "timedout"}]
      /\ owner \in [Mutexes -> Threads \cup {None}]
  BY <1>1 DEF PrioInv, IInv, OwnershipType
<1>3. PICK o, fallback : /\ o = owner[mutex_pended_on[t]]
                         /\ fallback = held_mutexes_highest_waiter_prio(held_mutexes[o], orig_prio[o])
  OBVIOUS
<1>4. /\ prio' = IF o = None THEN prio ELSE [prio EXCEPT ![o] = fallback]
      /\ state' = [state EXCEPT ![t] = "ready"]
      /\ mutex_pended_on' = [mutex_pended_on EXCEPT ![t] = None]
      /\ UNCHANGED owner
  BY <1>3 DEF LockTimesOut
<1>5. \A n \in Mutexes : wait_q(n)' \subseteq wait_q(n)
  BY <1>2, <1>4 DEF wait_q
<1>6. CASE o = None \/ o \notin Threads
  <2>1. prio' = prio
    <3>1. o \notin Threads => [prio EXCEPT ![o] = fallback] = prio
      BY <1>2
    <3> QED
      BY <1>4, <1>6, <3>1
  <2> QED
    BY <1>4, <1>5, <2>1, SameKeepsUrgent
<1>7. CASE o # None /\ o \in Threads
  <2>1. /\ fallback \in Int /\ fallback <= orig_prio[o]
        /\ \A n \in held_mutexes[o] : \A w \in wait_q(n) : fallback <= ceil(prio[w])
        /\ \/ fallback = orig_prio[o]
           \/ \E n \in held_mutexes[o] : \E w \in wait_q(n) : fallback = ceil(prio[w])
    <3>1. PICK held \in SUBSET Mutexes, base \in Int :
            held = held_mutexes[o] /\ base = orig_prio[o]
      BY <1>2, <1>7
    <3>2. fallback = held_mutexes_highest_waiter_prio(held, base)
      BY <1>3, <3>1
    <3>3. /\ fallback \in Int /\ fallback <= base
          /\ \A n \in held : \A w \in wait_q(n) : fallback <= ceil(prio[w])
          /\ \/ fallback = base
             \/ \E n \in held : \E w \in wait_q(n) : fallback = ceil(prio[w])
      <4>1. FallbackIs(fallback, held, base)
        BY <1>2, <3>2, FallbackBounds
      <4> QED
        BY <4>1 DEF FallbackIs
    <3> QED
      BY <3>1, <3>3
  <2>2. orig_prio[o] = BasePrio[o]
    BY <1>1, <1>7 DEF PrioInv, NoLeakedBoost
  <2>3. prio[o] <= fallback
    <3>1. CASE fallback = orig_prio[o]
      BY <1>1, <1>7, <2>2, <3>1 DEF OnlyBoosted
    <3>2. ASSUME NEW n \in held_mutexes[o], NEW w \in wait_q(n), fallback = ceil(prio[w])
          PROVE  prio[o] <= fallback
      <4>1. n \in Mutexes /\ owner[n] = o
        BY <1>1, <1>2, <1>7 DEF IInv, OwnershipConsistent
      <4> QED
        BY <1>1, <3>2, <4>1 DEF NoInversion
    <3> QED
      BY <2>1, <3>1, <3>2
  <2>4. prio' = [prio EXCEPT ![o] = fallback]
    BY <1>4, <1>7
  <2>5. \A u \in Threads : /\ prio'[u] \in Int /\ prio[u] \in Int /\ prio[u] <= prio'[u]
                           /\ u # o => prio'[u] = prio[u]
    BY <1>2, <1>7, <2>1, <2>3, <2>4
  <2>6. prio'[o] = fallback
    BY <1>2, <1>7, <2>4
  <2>7. OnlyBoosted'
    BY <1>1, <2>1, <2>2, <2>5, <2>6 DEF OnlyBoosted
  <2>8. ASSUME NEW n \in Mutexes, NEW w \in wait_q(n)'
        PROVE  prio'[owner'[n]] <= ceil(prio'[w])
    <3>1. w \in wait_q(n) /\ w \in Threads
      BY <1>5 DEF wait_q
    <3>2. owner[n] \in Threads
      BY <1>1, <1>2, <3>1 DEF IInv, OwnershipConsistent
    <3>3. ceil(prio[w]) <= ceil(prio'[w]) /\ ceil(prio[w]) \in Int /\ ceil(prio'[w]) \in Int
      BY <2>5, <3>1, CeilingFacts
    <3>4. prio'[owner[n]] <= ceil(prio[w])
      <4>1. CASE owner[n] = o
        <5>1. n \in held_mutexes[o]
          BY <1>1, <1>7, <4>1 DEF IInv, OwnershipConsistent
        <5> QED
          BY <2>1, <2>6, <3>1, <4>1, <5>1
      <4>2. CASE owner[n] # o
        BY <1>1, <2>5, <3>1, <3>2, <4>2 DEF NoInversion
      <4> QED
        BY <4>1, <4>2
    <3>5. prio'[owner[n]] \in Int
      BY <2>5, <3>2
    <3> HIDE DEF ceil
    <3> QED
      BY <1>4, <3>3, <3>4, <3>5
  <2> QED
    BY <2>7, <2>8 DEF UrgentInv, NoInversion
<1> QED
  BY <1>6, <1>7

(***************************************************************************)
(* Every step keeps the invariant of inheritance.                          *)
(***************************************************************************)
LEMMA UrgentInvStep ==
    ASSUME IsFiniteSet(Threads), Cardinality(Threads) <= MaxHops,
           UrgentInv, [Next]_vars
    PROVE  UrgentInv'
<1>1. PrioInv /\ PrioInv'
  BY PrioInvStep DEF UrgentInv
<1>2. ASSUME UNCHANGED <<prio, owner>>, \A n \in Mutexes : wait_q(n)' \subseteq wait_q(n)
      PROVE  UrgentInv'
  BY <1>1, <1>2, SameKeepsUrgent
<1>3. ASSUME NEW t \in Threads, NEW m \in Mutexes, LockGranted(t, m) PROVE UrgentInv'
  BY <1>3, GrantKeepsUrgent
<1>4. ASSUME NEW t \in Threads, NEW m \in Mutexes, NEW wait \in Waits, LockPends(t, m, wait)
      PROVE  UrgentInv'
  BY <1>4, PendKeepsUrgent
<1>5. ASSUME NEW t \in Threads, NEW m \in Mutexes, UnlockReleases(t, m) PROVE UrgentInv'
  BY <1>5, ReleaseKeepsUrgent
<1>6. ASSUME NEW t \in Threads, LockTimesOut(t) PROVE UrgentInv'
  BY <1>1, <1>6, TimesOutKeepsUrgent
<1>7. ASSUME NEW t \in Threads, NEW m \in Mutexes, NEW wait \in Waits, LockAsserts(t, m, wait)
      PROVE  UrgentInv'
  <2>1. UNCHANGED <<prio, owner, state, mutex_pended_on>>
    BY <1>7 DEF LockAsserts
  <2> QED
    BY <1>2, <2>1 DEF wait_q
<1>8. ASSUME NEW t \in Threads, TimeoutPopped(t) PROVE UrgentInv'
  <2>1. UNCHANGED <<prio, owner, state, mutex_pended_on>>
    BY <1>8 DEF TimeoutPopped
  <2> QED
    BY <1>2, <2>1 DEF wait_q
<1>9. ASSUME NEW t \in Threads, z_thread_timeout(t) PROVE UrgentInv'
  <2>1. UNCHANGED <<prio, owner, mutex_pended_on>> /\ state' = [state EXCEPT ![t] = "timedout"]
    BY <1>9 DEF z_thread_timeout
  <2>2. \A n \in Mutexes : wait_q(n)' \subseteq wait_q(n)
    BY <1>1, <2>1 DEF wait_q, PrioInv, IInv, OwnershipType
  <2> QED
    BY <1>2, <2>1, <2>2
<1>10. CASE UNCHANGED vars
  BY <1>2, <1>10 DEF vars, wait_q
<1>11. ASSUME NEW t \in Threads, NEW m \in Mutexes, UnlockRecursive(t, m) PROVE UrgentInv'
  <2>1. UNCHANGED <<prio, owner, state, mutex_pended_on>>
    BY <1>11 DEF UnlockRecursive
  <2> QED
    BY <1>2, <2>1 DEF wait_q
<1> QED
  BY <1>3, <1>4, <1>5, <1>6, <1>7, <1>8, <1>9, <1>10, <1>11
     DEF Next, z_impl_k_mutex_lock, z_impl_k_mutex_unlock

(***************************************************************************)
(* No priority inversion, for any priorities, mutexes and timeouts, in a   *)
(* system with no more threads than MUTEX_CHAIN_WALK_MAX_HOPS: every owner *)
(* is at least as urgent as each thread that waits for its mutex, and so,  *)
(* by induction along the chain, as every thread it blocks indirectly.     *)
(***************************************************************************)
THEOREM MutexNoInversion ==
    ASSUME IsFiniteSet(Threads), Cardinality(Threads) <= MaxHops
    PROVE  Spec => []NoInversion
<1>1. UrgentInv /\ [Next]_vars => UrgentInv'
  BY UrgentInvStep
<1>2. UrgentInv => NoInversion
  BY DEF UrgentInv
<1> QED
  BY <1>1, <1>2, UrgentInvInit, PTL DEF Spec

-----------------------------------------------------------------------------
(* Exact inheritance.  A waiter that times out leaves the queue before its *)
(* owner's priority is recomputed, so exactness is kept by every step but  *)
(* that one; the theorems about waits without a timeout use these lemmas.  *)

\* Thread t is as urgent as it was created, or as a waiter it blocks.
Justified(t) ==
    \/ prio[t] = BasePrio[t]
    \/ \E n \in held_mutexes[t] :
         \E w \in wait_q(n) : prio[t] = z_get_new_prio_with_ceiling(prio[w])

AllJustified == \A t \in Threads : Justified(t)

(***************************************************************************)
(* No inversion and no unjustified boost make the inherited priority the   *)
(* minimum that held_mutexes_highest_waiter_prio() computes.               *)
(***************************************************************************)
LEMMA JustifiedIsExact ==
    ASSUME UrgentInv, AllJustified
    PROVE  ExactInheritance
<1> SUFFICES ASSUME NEW t \in Threads
             PROVE  prio[t] = held_mutexes_highest_waiter_prio(held_mutexes[t], BasePrio[t])
  BY DEF ExactInheritance
<1>0. prio \in [Threads -> Int]
  BY DEF UrgentInv, PrioInv
<1>1. IInv /\ PrioInv /\ NoInversion /\ prio[t] <= BasePrio[t]
  BY DEF UrgentInv, PrioInv, OnlyBoosted
<1>2. PICK held \in SUBSET Mutexes, base \in Int :
        held = held_mutexes[t] /\ base = BasePrio[t]
  BY <1>1, MutexAssumption DEF IInv, OwnershipType
<1>3. PICK h : h = held_mutexes_highest_waiter_prio(held, base)
  OBVIOUS
<1>4. /\ h \in Int /\ h <= base
      /\ \A n \in held : \A w \in wait_q(n) : h <= z_get_new_prio_with_ceiling(prio[w])
      /\ \/ h = base
         \/ \E n \in held : \E w \in wait_q(n) : h = z_get_new_prio_with_ceiling(prio[w])
  <2>1. FallbackIs(h, held, base)
    BY <1>0, <1>3, FallbackBounds
  <2> QED
    BY <2>1 DEF FallbackIs
<1>5. \A n \in held : \A w \in wait_q(n) : prio[t] <= z_get_new_prio_with_ceiling(prio[w])
  <2> SUFFICES ASSUME NEW n \in held, NEW w \in wait_q(n)
               PROVE  prio[t] <= z_get_new_prio_with_ceiling(prio[w])
    OBVIOUS
  <2>1. n \in Mutexes /\ owner[n] = t
    BY <1>1, <1>2 DEF IInv, OwnershipConsistent
  <2> QED
    BY <1>1, <2>1 DEF NoInversion
<1>6. prio[t] <= h
  BY <1>0, <1>1, <1>2, <1>4, <1>5
<1>7. h <= prio[t]
  BY <1>2, <1>4 DEF AllJustified, Justified
<1> QED
  BY <1>0, <1>2, <1>3, <1>4, <1>6, <1>7

(***************************************************************************)
(* Steps in which priorities and wait queues stay as they are and mutexes  *)
(* with waiters stay held.                                                 *)
(***************************************************************************)
LEMMA SameKeepsJustified ==
    ASSUME AllJustified, UNCHANGED prio,
           held_mutexes \in [Threads -> SUBSET Mutexes],
           \A n \in Mutexes : wait_q(n)' = wait_q(n),
           \A u \in Threads : held_mutexes[u] \subseteq held_mutexes'[u]
    PROVE  AllJustified'
<1> SUFFICES ASSUME NEW u \in Threads PROVE Justified(u)'
  BY DEF AllJustified
<1>1. CASE prio[u] = BasePrio[u]
  BY <1>1 DEF Justified
<1>2. ASSUME NEW n \in held_mutexes[u], NEW w \in wait_q(n),
             prio[u] = z_get_new_prio_with_ceiling(prio[w])
      PROVE  Justified(u)'
  <2>1. n \in held_mutexes'[u] /\ w \in wait_q(n)'
    <3>1. n \in Mutexes
      OBVIOUS
    <3> QED
      BY <3>1
  <2> QED
    BY <1>2, <2>1 DEF Justified
<1> QED
  BY <1>1, <1>2 DEF AllJustified, Justified

(***************************************************************************)
(* k_mutex_lock() of a free or own mutex.                                  *)
(***************************************************************************)
LEMMA GrantKeepsJustified ==
    ASSUME IInv, AllJustified, NEW t \in Threads, NEW m \in Mutexes, LockGranted(t, m)
    PROVE  AllJustified'
<1>1. UNCHANGED <<prio, state, mutex_pended_on>>
  BY DEF LockGranted
<1>2. \A u \in Threads : held_mutexes[u] \subseteq held_mutexes'[u]
  BY DEF LockGranted, IInv, OwnershipType
<1>3. \A n \in Mutexes : wait_q(n)' = wait_q(n)
  BY <1>1 DEF wait_q
<1> QED
  BY <1>1, <1>2, <1>3, SameKeepsJustified DEF IInv, OwnershipType

(***************************************************************************)
(* The boost of k_mutex_lock() is justified hop by hop: the first owner by *)
(* the new waiter, the next ones by the boosted owner before them.         *)
(***************************************************************************)
LEMMA PendKeepsJustified ==
    ASSUME UrgentInv, AllJustified, IsFiniteSet(Threads), Cardinality(Threads) <= MaxHops,
           NEW t \in Threads, NEW m \in Mutexes, NEW wait, LockPends(t, m, wait)
    PROVE  AllJustified'
<1> DEFINE boost == new_prio_for_inheritance(prio[t], prio[owner[m]])
           owners == {ChainOwner(m, k) : k \in ChainHops(m)}
           ceil(p) == z_get_new_prio_with_ceiling(p)
<1>1. IInv /\ PrioInv /\ NoInversion
  BY DEF UrgentInv, PrioInv
<1>2. /\ state[t] = "ready" /\ lock_count[m] # 0
      /\ prio' = [u \in Threads |-> IF u \in owners /\ boost < prio[u] THEN boost ELSE prio[u]]
      /\ mutex_pended_on' = [mutex_pended_on EXCEPT ![t] = m]
      /\ state' = [state EXCEPT ![t] = "pended"]
      /\ UNCHANGED <<owner, held_mutexes>>
  BY DEF LockPends, Running
<1>3. owner[m] \in Threads /\ owner[m] # None
  BY <1>1, <1>2 DEF IInv, OwnershipType, OwnershipConsistent
<1>4. /\ prio \in [Threads -> Int]
      /\ mutex_pended_on \in [Threads -> Mutexes \cup {None}]
      /\ state \in [Threads -> {"ready", "pended", "timedout"}]
      /\ owner \in [Mutexes -> Threads \cup {None}]
      /\ held_mutexes \in [Threads -> SUBSET Mutexes]
  BY <1>1 DEF PrioInv, IInv, OwnershipType
<1>5. /\ boost \in Int /\ ceil(boost) = boost
      /\ boost < prio[owner[m]] => boost = ceil(prio[t])
  <2>1. prio[t] \in Int /\ prio[owner[m]] \in Int
    BY <1>3, <1>4
  <2> QED
    BY <2>1, MutexAssumption DEF new_prio_for_inheritance, z_get_new_prio_with_ceiling
<1>6. ASSUME NEW n \in Mutexes, NEW w \in wait_q(n), w \in owners
      PROVE  owner[n] \in owners
  <2>1. PICK k \in ChainHops(m) : w = ChainOwner(m, k)
    BY <1>6
  <2>2. NextMutex(w) = n /\ n # None
    BY MutexAssumption DEF wait_q, NextMutex
  <2>3. PICK j \in ChainHops(m) : ChainMutex(m)[j] = n
    BY <1>1, <1>2, <1>3, <2>1, <2>2, ChainCloses
  <2> QED
    BY <2>3 DEF ChainOwner
<1>7. ASSUME NEW u \in Threads, u \in owners
      PROVE  \/ u = owner[m]
             \/ \E n \in Mutexes : \E w \in wait_q(n) : w \in owners /\ owner[n] = u
  <2>1. PICK k \in ChainHops(m) : u = ChainOwner(m, k)
    BY <1>7
  <2>2. k \in 0..(MaxHops - 1) /\ MaxHops - 1 \in Nat /\ ChainMutex(m)[k] # None
    BY MutexAssumption DEF ChainHops
  <2>3. CASE k = 0
    BY <2>1, <2>3, ChainUnfolds DEF ChainOwner
  <2>4. CASE k # 0
    <3>1. k - 1 \in 0..k /\ k - 1 < k /\ k - 1 + 1 = k
      BY <2>2, <2>4
    <3>2. PICK w : w = ChainOwner(m, k - 1)
      OBVIOUS
    <3>3. k - 1 \in ChainHops(m) /\ NextMutex(w) = ChainMutex(m)[k]
      BY <3>1, <3>2, ChainPrefix
    <3>4. w \in Threads /\ ChainMutex(m)[k] \in Mutexes
      BY <1>1, <1>3, <3>2, <3>3, ChainIsOwned
    <3>5. w \in wait_q(ChainMutex(m)[k])
      BY <2>2, <3>3, <3>4, MutexAssumption DEF wait_q, NextMutex
    <3>6. w \in owners /\ owner[ChainMutex(m)[k]] = u
      BY <2>1, <3>2, <3>3 DEF ChainOwner
    <3> QED
      BY <3>4, <3>5, <3>6
  <2> QED
    BY <2>3, <2>4
<1> HIDE DEF boost, owners
<1>8. ASSUME NEW u \in Threads
      PROVE  /\ prio'[u] \in Int /\ prio[u] \in Int
             /\ \/ prio'[u] = prio[u] /\ (u \in owners => prio[u] <= boost)
                \/ u \in owners /\ prio'[u] = boost /\ boost < prio[u]
  BY <1>2, <1>4, <1>5
<1>9. \A n \in Mutexes : \A w \in wait_q(n) : w \in wait_q(n)' /\ w \in Threads
  BY <1>2, <1>4 DEF wait_q
<1>10. t \in wait_q(m)'
  BY <1>2, <1>4 DEF wait_q
<1>11. \A n \in Mutexes : \A u \in Threads : n \in held_mutexes[u] <=> owner[n] = u
  BY <1>1 DEF IInv, OwnershipConsistent
<1> SUFFICES ASSUME NEW u \in Threads PROVE Justified(u)'
  BY DEF AllJustified
<1>12. ASSUME NEW n \in Mutexes, owner[n] = u, NEW w \in wait_q(n)', prio'[u] = ceil(prio'[w])
       PROVE  Justified(u)'
  <2>1. n \in held_mutexes'[u]
    BY <1>2, <1>11, <1>12
  <2> QED
    BY <1>12, <2>1 DEF Justified
<1>13. CASE prio'[u] = prio[u] /\ (u \in owners => prio[u] <= boost)
  <2>1. CASE prio[u] = BasePrio[u]
    BY <1>13, <2>1 DEF Justified
  <2>2. ASSUME NEW n \in held_mutexes[u], NEW w \in wait_q(n), prio[u] = ceil(prio[w])
        PROVE  Justified(u)'
    <3>1. n \in Mutexes /\ owner[n] = u /\ w \in wait_q(n)' /\ w \in Threads
      BY <1>4, <1>9, <1>11
    <3>2. CASE prio'[w] = prio[w]
      BY <1>12, <1>13, <2>2, <3>1, <3>2
    <3>3. CASE w \in owners /\ prio'[w] = boost /\ boost < prio[w]
      <4>1. prio[u] <= boost
        BY <1>6, <1>13, <3>1, <3>3
      <4>2. boost <= ceil(prio[w])
        <5>1. prio[w] \in Int /\ boost <= prio[w]
          BY <1>5, <1>8, <3>1, <3>3
        <5>2. ceil(boost) <= ceil(prio[w])
          BY <1>5, <5>1, CeilingFacts
        <5> QED
          BY <1>5, <5>2
      <4>3. prio[u] \in Int
        BY <1>4
      <4>4. prio[u] = boost
        BY <1>5, <2>2, <4>1, <4>2, <4>3
      <4> QED
        BY <1>5, <1>12, <1>13, <3>1, <3>3, <4>4
    <3> QED
      BY <1>8, <3>1, <3>2, <3>3
  <2> QED
    BY <2>1, <2>2 DEF AllJustified, Justified
<1>14. CASE u \in owners /\ prio'[u] = boost /\ boost < prio[u]
  <2>1. CASE u = owner[m]
    <3>1. boost = ceil(prio[t])
      BY <1>5, <1>14, <2>1
    <3>2. boost = ceil(prio'[t])
      <4>1. CASE prio'[t] = prio[t]
        BY <3>1, <4>1
      <4>2. CASE prio'[t] = boost
        BY <1>5, <4>2
      <4> QED
        BY <1>8, <4>1, <4>2
    <3> QED
      BY <1>10, <1>12, <1>14, <2>1, <3>2
  <2>2. ASSUME NEW n \in Mutexes, NEW w \in wait_q(n), w \in owners, owner[n] = u
        PROVE  Justified(u)'
    <3>1. w \in Threads /\ w \in wait_q(n)' /\ prio[u] <= ceil(prio[w])
      BY <1>1, <1>9, <2>2 DEF NoInversion
    <3>2. prio'[w] = boost
      <4>1. CASE prio'[w] = prio[w] /\ prio[w] <= boost
        <5>1. prio[w] \in Int /\ prio[u] \in Int
          BY <1>4, <3>1
        <5>2. ceil(prio[w]) <= boost /\ ceil(prio[w]) \in Int
          <6>1. ceil(prio[w]) <= ceil(boost) /\ ceil(prio[w]) \in Int
            BY <1>5, <4>1, <5>1, CeilingFacts
          <6> QED
            BY <1>5, <6>1
        <5> HIDE DEF ceil
        <5> QED
          BY <1>5, <1>14, <3>1, <5>1, <5>2
      <4> QED
        BY <1>8, <2>2, <3>1, <4>1
    <3> QED
      BY <1>5, <1>12, <1>14, <2>2, <3>1, <3>2
  <2> QED
    BY <1>7, <1>14, <2>1, <2>2
<1> QED
  BY <1>8, <1>13, <1>14

(***************************************************************************)
(* The last unlock: the thread falls back to a justified priority, and the *)
(* thread that gets the mutex waits for no other.                          *)
(***************************************************************************)
LEMMA ReleaseKeepsJustified ==
    ASSUME UrgentInv, AllJustified, NEW t \in Threads, NEW m \in Mutexes, UnlockReleases(t, m)
    PROVE  AllJustified'
<1> DEFINE rest == held_mutexes[t] \ {m}
           ceil(p) == z_get_new_prio_with_ceiling(p)
<1>1. IInv /\ PrioInv
  BY DEF UrgentInv, PrioInv
<1>2. /\ prio \in [Threads -> Int] /\ orig_prio \in [Threads -> Int]
      /\ held_mutexes \in [Threads -> SUBSET Mutexes]
      /\ mutex_pended_on \in [Threads -> Mutexes \cup {None}]
      /\ state \in [Threads -> {"ready", "pended", "timedout"}]
      /\ owner \in [Mutexes -> Threads \cup {None}]
  BY <1>1 DEF PrioInv, IInv, OwnershipType
<1>3. PICK fallback : fallback = held_mutexes_highest_waiter_prio(rest, orig_prio[t])
  OBVIOUS
<1>4. \/ fallback = orig_prio[t]
      \/ \E n \in rest : \E w \in wait_q(n) : fallback = ceil(prio[w])
  <2>1. rest \in SUBSET Mutexes /\ orig_prio[t] \in Int
    BY <1>2
  <2> HIDE DEF rest
  <2>2. FallbackIs(fallback, rest, orig_prio[t])
    BY <1>2, <1>3, <2>1, FallbackBounds
  <2> QED
    BY <2>2 DEF FallbackIs
<1>5. /\ prio' = IF prio[t] = orig_prio[t] THEN prio ELSE [prio EXCEPT ![t] = fallback]
      /\ owner[m] = t /\ state[t] = "ready"
  BY <1>3 DEF UnlockReleases, Running
<1>6. /\ \A u \in Threads : u # t => prio'[u] = prio[u]
      /\ prio'[t] = orig_prio[t] \/ prio'[t] = fallback
  BY <1>2, <1>5
<1>7. orig_prio[t] = BasePrio[t]
  BY <1>1 DEF PrioInv, NoLeakedBoost
<1>8. /\ \A n \in Mutexes : n # m => \A w \in wait_q(n) : w \in wait_q(n)'
      /\ held_mutexes'[t] = rest
      /\ \A u \in Threads : u # t => held_mutexes[u] \subseteq held_mutexes'[u]
  <2>1. CASE wait_q(m) = {}
    <3>1. /\ held_mutexes' = [held_mutexes EXCEPT ![t] = rest]
          /\ UNCHANGED <<mutex_pended_on, state>>
      BY <2>1 DEF UnlockReleases
    <3> QED
      BY <1>2, <3>1 DEF wait_q
  <2>2. CASE wait_q(m) # {}
    <3>1. PICK b \in wait_q(m) :
            /\ held_mutexes' = [held_mutexes EXCEPT ![t] = rest, ![b] = @ \cup {m}]
            /\ mutex_pended_on' = [mutex_pended_on EXCEPT ![b] = None]
            /\ state' = [state EXCEPT ![b] = "ready"]
      BY <2>2 DEF UnlockReleases
    <3>2. b \in Threads /\ b # t /\ mutex_pended_on[b] = m
      BY <1>5 DEF wait_q
    <3>3. \A n \in Mutexes : n # m => \A w \in wait_q(n) : w \in wait_q(n)'
      BY <1>2, <3>1, <3>2 DEF wait_q
    <3> HIDE DEF rest
    <3>4. /\ held_mutexes'[t] = rest
          /\ \A u \in Threads : u # t => held_mutexes[u] \subseteq held_mutexes'[u]
      BY <1>2, <3>1, <3>2
    <3> QED
      BY <3>3, <3>4
  <2> QED
    BY <2>1, <2>2
<1>9. \A n \in Mutexes : \A w \in wait_q(n) : w \in Threads /\ w # t
  BY <1>5 DEF wait_q
<1> SUFFICES ASSUME NEW u \in Threads PROVE Justified(u)'
  BY DEF AllJustified
<1>10. CASE u = t
  <2>1. CASE prio'[t] = orig_prio[t]
    BY <1>7, <1>10, <2>1 DEF Justified
  <2>2. ASSUME NEW n \in rest, NEW w \in wait_q(n), prio'[t] = ceil(prio[w])
        PROVE  Justified(t)'
    <3>1. n \in Mutexes /\ n # m
      BY <1>2
    <3>2. n \in held_mutexes'[t] /\ w \in wait_q(n)' /\ prio'[w] = prio[w]
      BY <1>6, <1>8, <1>9, <3>1
    <3> QED
      BY <2>2, <3>2 DEF Justified
  <2> QED
    BY <1>4, <1>6, <1>10, <2>1, <2>2
<1>11. CASE u # t
  <2>1. CASE prio[u] = BasePrio[u]
    BY <1>6, <1>11, <2>1 DEF Justified
  <2>2. ASSUME NEW n \in held_mutexes[u], NEW w \in wait_q(n), prio[u] = ceil(prio[w])
        PROVE  Justified(u)'
    <3>1. n \in Mutexes /\ owner[n] = u
      BY <1>1, <1>2 DEF IInv, OwnershipConsistent
    <3>2. n # m
      BY <1>5, <1>11, <3>1
    <3>3. n \in held_mutexes'[u] /\ w \in wait_q(n)' /\ prio'[w] = prio[w]
      BY <1>6, <1>8, <1>9, <1>11, <3>1, <3>2
    <3> QED
      BY <1>6, <1>11, <2>2, <3>3 DEF Justified
  <2> QED
    BY <2>1, <2>2 DEF AllJustified, Justified
<1> QED
  BY <1>10, <1>11

-----------------------------------------------------------------------------
(* Deadlock detection, where no thread in line for a mutex has a timeout.  *)

(***************************************************************************)
(* A set of threads that all wait for each other is not closed by a step   *)
(* after which nobody waits for another mutex than before and every mutex  *)
(* that changed hands belongs to a thread that waits for none.             *)
(***************************************************************************)
LEMMA SameKeepsCaught ==
    ASSUME DeadlockCaught,
           \A x \in Threads : NextMutex(x)' = None \/ NextMutex(x)' = NextMutex(x),
           \A x \in Threads : NextMutex(x) \in Mutexes \cup {None},
           \A n \in Mutexes : \/ owner'[n] = owner[n]
                              \/ owner'[n] \notin Threads
                              \/ NextMutex(owner[n])' = None
    PROVE  DeadlockCaught'
<1> SUFFICES ASSUME NEW S \in (SUBSET Threads) \ {{}},
                    \A x \in S : NextMutex(x)' # None /\ owner'[NextMutex(x)'] \in S
             PROVE  FALSE
  BY DEF DeadlockCaught
<1>1. ASSUME NEW x \in S PROVE NextMutex(x) # None /\ owner[NextMutex(x)] \in S
  <2>1. x \in Threads /\ NextMutex(x)' # None /\ owner'[NextMutex(x)'] \in S
    OBVIOUS
  <2>2. NextMutex(x)' = NextMutex(x) /\ NextMutex(x) \in Mutexes
    BY <2>1
  <2>3. PICK n \in Mutexes : n = NextMutex(x)
    BY <2>2
  <2>4. owner'[n] \in S /\ owner'[n] \in Threads /\ NextMutex(x) # None
    BY <2>1, <2>2, <2>3
  <2>5. PICK o : o = owner'[n]
    OBVIOUS
  <2>6. NextMutex(o)' # None
    BY <2>4, <2>5
  <2>7. owner'[n] = owner[n]
    BY <2>4, <2>5, <2>6
  <2> QED
    BY <2>3, <2>4, <2>7
<1> QED
  BY <1>1 DEF DeadlockCaught

(***************************************************************************)
(* The walk meets the caller only at a hop where the assertion catches it, *)
(* and a cycle that does not go through the caller was there before.       *)
(***************************************************************************)
LEMMA PendKeepsCaught ==
    ASSUME IInv, DeadlockCaught, DeadlockDetect,
           IsFiniteSet(Threads), Cardinality(Threads) <= MaxHops,
           \A n \in Mutexes : \A w \in wait_q(n) : timeout[w] # "armed",
           NEW t \in Threads, NEW m \in Mutexes, LockPends(t, m, "forever")
    PROVE  DeadlockCaught'
<1> DEFINE O == {ChainOwner(m, k) : k \in ChainHops(m)}
<1>1. /\ state[t] = "ready" /\ lock_count[m] # 0 /\ owner[m] # t
      /\ DetectedAt(t, m, "forever") = {}
      /\ mutex_pended_on' = [mutex_pended_on EXCEPT ![t] = m]
      /\ state' = [state EXCEPT ![t] = "pended"]
      /\ UNCHANGED owner
  BY DEF LockPends, Running
<1>2. /\ owner[m] \in Threads /\ owner[m] # None
      /\ mutex_pended_on \in [Threads -> Mutexes \cup {None}]
      /\ state \in [Threads -> {"ready", "pended", "timedout"}]
  BY <1>1 DEF IInv, OwnershipType, OwnershipConsistent
<1>3. /\ NextMutex(t)' = m /\ NextMutex(t) = None /\ m # None
      /\ \A x \in Threads : x # t => NextMutex(x)' = NextMutex(x)
  BY <1>1, <1>2, MutexAssumption DEF NextMutex
<1>4. \A k \in ChainHops(m) : ChainOwner(m, k) \in Threads
  BY <1>2, ChainIsOwned
<1>5. \A k \in ChainHops(m) : k \in Nat
  BY MutexAssumption DEF ChainHops
<1>6. 0 \in ChainHops(m) /\ ChainOwner(m, 0) = owner[m]
  BY <1>3, ChainUnfolds, MutexAssumption DEF ChainHops, ChainOwner
<1>7. ASSUME NEW k \in ChainHops(m), k # 0
      PROVE  /\ k - 1 \in ChainHops(m)
             /\ NextMutex(ChainOwner(m, k - 1)) # None
             /\ ChainOwner(m, k) = owner[NextMutex(ChainOwner(m, k - 1))]
             /\ \A j \in 0..(k - 1) : timeout[ChainOwner(m, j)] # "armed"
  <2>1. k \in Nat /\ k - 1 \in 0..k /\ k - 1 < k /\ k - 1 + 1 = k
    BY <1>5, <1>7
  <2>2. k - 1 \in ChainHops(m) /\ NextMutex(ChainOwner(m, k - 1)) = ChainMutex(m)[k]
    BY <2>1, ChainPrefix
  <2>3. ASSUME NEW j \in 0..(k - 1) PROVE timeout[ChainOwner(m, j)] # "armed"
    <3>1. j \in 0..k /\ j < k /\ j + 1 \in 0..k
      BY <2>1
    <3>2. /\ j \in ChainHops(m) /\ j + 1 \in ChainHops(m)
          /\ NextMutex(ChainOwner(m, j)) = ChainMutex(m)[j + 1]
      BY <3>1, ChainPrefix
    <3>3. PICK w, n : w = ChainOwner(m, j) /\ n = ChainMutex(m)[j + 1]
      OBVIOUS
    <3>4. w \in Threads /\ n \in Mutexes /\ NextMutex(w) = n
      BY <1>2, <1>4, <3>2, <3>3, ChainIsOwned
    <3>5. w \in wait_q(n)
      BY <3>4, MutexAssumption DEF wait_q, NextMutex
    <3> QED
      BY <3>3, <3>4, <3>5
  <2>4. ChainMutex(m)[k] # None
    BY DEF ChainHops
  <2> QED
    BY <2>2, <2>3, <2>4 DEF ChainOwner
<1>8. t \notin O
  <2> SUFFICES ASSUME NEW k \in ChainHops(m), t = ChainOwner(m, k) PROVE FALSE
    OBVIOUS
  <2>1. k # 0
    BY <1>1, <1>6
  <2>2. k - 1 \in ChainHops(m) /\ ClosesCycle(t, m, k - 1)
    BY <1>7, <2>1 DEF ClosesCycle
  <2> QED
    BY <1>1, <2>2 DEF DetectedAt
<1>9. ASSUME NEW x \in O PROVE NextMutex(x) # None => owner[NextMutex(x)] \in O
  <2>1. PICK k \in ChainHops(m) : x = ChainOwner(m, k)
    OBVIOUS
  <2>2. CASE NextMutex(x) # None
    <3>1. PICK j \in ChainHops(m) : ChainMutex(m)[j] = NextMutex(x)
      BY <1>1, <1>2, <2>1, <2>2, ChainCloses
    <3> QED
      BY <3>1 DEF ChainOwner
  <2> QED
    BY <2>2
<1>10. O \in SUBSET Threads /\ O # {}
  BY <1>4, <1>6
<1> SUFFICES ASSUME NEW S \in (SUBSET Threads) \ {{}},
                    \A x \in S : NextMutex(x)' # None /\ owner[NextMutex(x)'] \in S
             PROVE  FALSE
  BY <1>1 DEF DeadlockCaught
<1>11. CASE t \notin S
  <2>1. \A x \in S : NextMutex(x) # None /\ owner[NextMutex(x)] \in S
    BY <1>3, <1>11
  <2> QED
    BY <2>1 DEF DeadlockCaught
<1>12. CASE t \in S
  <2> DEFINE Out == {k \in ChainHops(m) : ChainOwner(m, k) \notin S}
  <2>1. Out = {}
    <3> SUFFICES ASSUME Out # {} PROVE FALSE
      OBVIOUS
    <3>1. PICK k \in Out : \A j \in Out : k <= j
      <4>1. Out \in SUBSET Nat
        BY <1>5
      <4> QED
        BY <4>1, NatLeast
    <3>2. k \in ChainHops(m) /\ k \in Nat /\ ChainOwner(m, k) \notin S
      BY <1>5
    <3>3. k # 0
      BY <1>3, <1>6, <1>12, <3>2
    <3>4. /\ k - 1 \in ChainHops(m)
          /\ NextMutex(ChainOwner(m, k - 1)) # None
          /\ ChainOwner(m, k) = owner[NextMutex(ChainOwner(m, k - 1))]
      BY <1>7, <3>2, <3>3
    <3>5. k - 1 \notin Out
      <4> HIDE DEF Out
      <4>1. ~(k <= k - 1)
        BY <3>2
      <4> QED
        BY <3>1, <4>1
    <3>6. PICK w : w = ChainOwner(m, k - 1)
      OBVIOUS
    <3>7. w \in S /\ w # t /\ w \in Threads
      BY <1>3, <3>4, <3>5, <3>6
    <3>8. owner[NextMutex(w)] \in S
      BY <1>3, <3>7
    <3> QED
      BY <3>2, <3>4, <3>6, <3>8
  <2>2. O \subseteq S
    BY <2>1
  <2> HIDE DEF O
  <2>3. \A x \in O : NextMutex(x) # None /\ owner[NextMutex(x)] \in O
    BY <1>3, <1>8, <1>9, <1>10, <2>2
  <2> QED
    BY <1>10, <2>3 DEF DeadlockCaught
<1> QED
  BY <1>11, <1>12

(***************************************************************************)
(* What a thread waits for is a mutex; a ready thread waits for none.      *)
(***************************************************************************)
LEMMA NextMutexType ==
    ASSUME IInv, NEW x \in Threads
    PROVE  /\ NextMutex(x) \in Mutexes \cup {None}
           /\ state[x] # "pended" => NextMutex(x) = None
  BY DEF IInv, OwnershipType, NextMutex

(***************************************************************************)
(* A mutex is given only to a thread that runs or is about to.             *)
(***************************************************************************)
LEMMA GrantKeepsCaught ==
    ASSUME IInv, DeadlockCaught, NEW t \in Threads, NEW m \in Mutexes, LockGranted(t, m)
    PROVE  DeadlockCaught'
<1>1. /\ state[t] = "ready" /\ owner' = [owner EXCEPT ![m] = t]
      /\ UNCHANGED <<state, mutex_pended_on>>
  BY DEF LockGranted, Running
<1>2. \A x : NextMutex(x)' = NextMutex(x)
  BY <1>1 DEF NextMutex
<1>3. NextMutex(t)' = None
  BY <1>1, <1>2, NextMutexType
<1>4. ASSUME NEW n \in Mutexes
      PROVE  owner'[n] = owner[n] \/ owner'[n] \notin Threads \/ NextMutex(owner[n])' = None
  <2>1. owner'[n] = owner[n] \/ owner'[n] = t
    BY <1>1 DEF IInv, OwnershipType
  <2> QED
    BY <1>2, <1>3, <2>1
<1> QED
  BY <1>2, <1>4, NextMutexType, SameKeepsCaught

(***************************************************************************)
(* The same of k_mutex_unlock().                                           *)
(***************************************************************************)
LEMMA ReleaseKeepsCaught ==
    ASSUME IInv, DeadlockCaught, NEW t \in Threads, NEW m \in Mutexes, UnlockReleases(t, m)
    PROVE  DeadlockCaught'
<1>1. CASE wait_q(m) = {}
  <2>1. owner' = [owner EXCEPT ![m] = None] /\ UNCHANGED <<mutex_pended_on, state>>
    BY <1>1 DEF UnlockReleases
  <2>2. \A x : NextMutex(x)' = NextMutex(x)
    BY <2>1 DEF NextMutex
  <2>3. \A n \in Mutexes : owner'[n] = owner[n] \/ owner'[n] \notin Threads
    BY <2>1, MutexAssumption DEF IInv, OwnershipType
  <2> QED
    BY <2>2, <2>3, NextMutexType, SameKeepsCaught
<1>2. CASE wait_q(m) # {}
  <2>1. PICK b \in wait_q(m) : /\ owner' = [owner EXCEPT ![m] = b]
                               /\ mutex_pended_on' = [mutex_pended_on EXCEPT ![b] = None]
                               /\ state' = [state EXCEPT ![b] = "ready"]
    BY <1>2 DEF UnlockReleases
  <2>2. b \in Threads
    BY DEF wait_q
  <2>3. /\ NextMutex(b)' = None
        /\ \A x \in Threads : x # b => NextMutex(x)' = NextMutex(x)
    BY <2>1, <2>2 DEF NextMutex, IInv, OwnershipType
  <2>4. \A n \in Mutexes : owner'[n] = owner[n] \/ owner'[n] = b
    BY <2>1 DEF IInv, OwnershipType
  <2>5. ASSUME NEW n \in Mutexes
        PROVE  owner'[n] = owner[n] \/ owner'[n] \notin Threads \/ NextMutex(owner[n])' = None
    <3>1. CASE owner'[n] = owner[n]
      BY <3>1
    <3>2. CASE owner'[n] = b
      BY <2>3, <3>2 DEF NextMutex
    <3> QED
      BY <2>4, <3>1, <3>2
  <2> QED
    BY <2>3, <2>5, NextMutexType, SameKeepsCaught
<1> QED
  BY <1>1, <1>2

=============================================================================
