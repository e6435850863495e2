--------------------------- MODULE KTimerProofs ---------------------------
(***************************************************************************)
(* Theorems about KTimer, for any number of CPUs and threads and any       *)
(* bounds on expiries and starts.                                          *)
(***************************************************************************)
EXTENDS KTimer, TLAPS

(***************************************************************************)
(* The inductive invariant.  HandlerPhase ties the handler's progress to   *)
(* inflight_timeout; StaleMarked is why the handler's test for a restarted *)
(* or superseded timer catches every overtaken dispatch; RearmedLinked and *)
(* FreedQuiet carry the same argument over to k_timer_cleanup().           *)
(***************************************************************************)
HandlerPhase ==
    /\ handler # "idle" <=> inflight_timeout = Timer
    /\ handler = "entered" => status < MaxStatus

StaleMarked == handler = "entered" => fresh \/ Timer \in active \/ superseded

RearmedLinked == inflight_timeout = Timer /\ Timer \in active => rearmed

FreedQuiet ==
    freed => /\ Timer \notin active
             /\ inflight_timeout = Timer => rearmed /\ superseded

IInv ==
    /\ TypeOK
    /\ HandlerPhase
    /\ StaleMarked
    /\ RearmedLinked
    /\ FreedQuiet

(***************************************************************************)
(* Popping the timer, from outside the loop or after a handler, starts a   *)
(* dispatch that nothing has overtaken yet.                                *)
(***************************************************************************)
LEMMA PoppedKeepsIInv ==
    ASSUME IInv, NEW c \in Cpus, NEW t \in active, Fire(c, t), Popped, status < MaxStatus
    PROVE  IInv'
<1>1. t = Timer /\ ~freed
  BY KTimerAssumption DEF IInv, TypeOK, DispatchTypeOK, FreedQuiet
<1>2. Timer # None
  BY DispatchAssumption, KTimerAssumption
<1>3. TypeOK'
  BY <1>1, KTimerAssumption DEF IInv, TypeOK, DispatchTypeOK, Fire, Popped
<1>4. HandlerPhase' /\ StaleMarked' /\ RearmedLinked' /\ FreedQuiet'
  BY <1>1 DEF Fire, Popped, HandlerPhase, StaleMarked, RearmedLinked, FreedQuiet
<1> QED
  BY <1>3, <1>4 DEF IInv

(***************************************************************************)
(* Waking a waiter keeps the type of sync.                                 *)
(***************************************************************************)
LEMMA WakeOneType ==
    ASSUME sync \in [Threads -> {"idle", "pended", "woken"}], WakeOne
    PROVE  sync' \in [Threads -> {"idle", "pended", "woken"}]
  BY DEF WakeOne, Pended

(***************************************************************************)
(* The initial state satisfies the inductive invariant.                    *)
(***************************************************************************)
LEMMA InvariantInit == k_timer_init => IInv
<1> SUFFICES ASSUME k_timer_init PROVE IInv
  OBVIOUS
<1>1. TypeOK
  <2>1. status \in 0..MaxStatus /\ starts \in 0..MaxStarts
    BY KTimerAssumption DEF k_timer_init
  <2>2. /\ DispatchTypeOK
        /\ stopping \in [Cpus -> {"no", "thread", "nested"}]
        /\ sync \in [Threads -> {"idle", "pended", "woken"}]
    BY DEF k_timer_init, DispatchInit, DispatchTypeOK
  <2> QED
    BY <2>1, <2>2 DEF k_timer_init, TypeOK
<1>2. HandlerPhase /\ StaleMarked /\ RearmedLinked /\ FreedQuiet
  BY DispatchAssumption, KTimerAssumption
     DEF k_timer_init, DispatchInit, HandlerPhase, StaleMarked, RearmedLinked, FreedQuiet
<1> QED
  BY <1>1, <1>2 DEF IInv

(***************************************************************************)
(* The expiration handler keeps the invariant: one that does not bail      *)
(* cannot have been freed under.                                           *)
(***************************************************************************)
LEMMA HandlerKeepsIInv ==
    ASSUME IInv, NEW c \in Cpus, z_timer_expiration_handler(c)
    PROVE  IInv'
<1>1. handler = "entered" /\ inflight_timeout = Timer /\ status < MaxStatus
  BY DEF z_timer_expiration_handler, IInv, HandlerPhase
<1>2. CASE HandlerBails
  <2>1. TypeOK'
    BY <1>2 DEF z_timer_expiration_handler, dispatchVars, IInv, TypeOK, DispatchTypeOK
  <2>2. HandlerPhase' /\ StaleMarked' /\ RearmedLinked' /\ FreedQuiet'
    BY <1>1, <1>2 DEF z_timer_expiration_handler, dispatchVars, IInv, HandlerPhase,
                      StaleMarked, RearmedLinked, FreedQuiet
  <2> QED
    BY <2>1, <2>2 DEF IInv
<1>3. CASE ~HandlerBails
  <2>1. Timer \notin active /\ ~superseded /\ ~freed
    BY <1>1, <1>3 DEF HandlerBails, IInv, FreedQuiet
  <2>2. /\ \/ AddTimeout(Timer) /\ rearmed' = TRUE
           \/ UNCHANGED <<dispatchVars, rearmed>>
        /\ status' = status + 1
        /\ saw' = saw \cup Pended
        /\ handler' \in {"expiry_fn", "done"}
        /\ \/ UNCHANGED sync
           \/ WakeOne
        /\ UNCHANGED <<expiry_fn, stop_fn, period, stopping, freed, starts, fresh, stopLost>>
    BY <1>3 DEF z_timer_expiration_handler
  <2>3. DispatchTypeOK' /\ rearmed' \in BOOLEAN
    BY <2>2, KTimerAssumption DEF AddTimeout, dispatchVars, IInv, TypeOK, DispatchTypeOK
  <2>4. sync' \in [Threads -> {"idle", "pended", "woken"}] /\ saw' \subseteq Threads
    BY <2>2, WakeOneType DEF IInv, TypeOK, Pended
  <2>5. status' \in 0..MaxStatus
    BY <1>1, <2>2, KTimerAssumption DEF IInv, TypeOK
  <2>6. TypeOK'
    BY <2>2, <2>3, <2>4, <2>5 DEF IInv, TypeOK
  <2>7. HandlerPhase' /\ StaleMarked' /\ RearmedLinked' /\ FreedQuiet'
    BY <1>1, <2>1, <2>2 DEF AddTimeout, dispatchVars, HandlerPhase,
                            StaleMarked, RearmedLinked, FreedQuiet
  <2> QED
    BY <2>6, <2>7 DEF IInv
<1> QED
  BY <1>2, <1>3

(***************************************************************************)
(* k_timer_cleanup() keeps the invariant: it frees the timer only when the *)
(* abort found it linked or its handler gone.                              *)
(***************************************************************************)
LEMMA CleanupKeepsIInv ==
    ASSUME IInv, NEW c \in Cpus, z_timer_cleanup(c)
    PROVE  IInv'
<1>1. TypeOK'
  BY DEF z_timer_cleanup, TryAbort, IInv, TypeOK, DispatchTypeOK
<1>2. HandlerPhase'
  BY DEF z_timer_cleanup, TryAbort, IInv, HandlerPhase
<1>3. inflight_timeout' = Timer => superseded' = TRUE
  BY DEF z_timer_cleanup, TryAbort
<1>4. Timer \notin active'
  BY DEF z_timer_cleanup, TryAbort
<1>5. freed' /\ inflight_timeout' = Timer => rearmed'
  BY DEF z_timer_cleanup, TryAbort, AbortResult, IInv, RearmedLinked
<1>6. StaleMarked' /\ RearmedLinked' /\ FreedQuiet'
  BY <1>2, <1>3, <1>4, <1>5 DEF HandlerPhase, StaleMarked, RearmedLinked, FreedQuiet
<1> QED
  BY <1>1, <1>2, <1>6 DEF IInv

(***************************************************************************)
(* Every step keeps the inductive invariant.                               *)
(***************************************************************************)
LEMMA InvariantStep == IInv /\ [Next]_vars => IInv'
<1> SUFFICES ASSUME IInv, [Next]_vars PROVE IInv'
  OBVIOUS
<1> USE DEF IInv
<1>1. ASSUME NEW p \in Periods, z_impl_k_timer_start(p) PROVE IInv'
  <2>1. starts' \in 0..MaxStarts /\ status' \in 0..MaxStatus /\ status' < MaxStatus
    BY <1>1, KTimerAssumption DEF z_impl_k_timer_start, TypeOK
  <2>2. period' \in {"oneshot", "periodic"} /\ active' \subseteq Timeouts
    BY <1>1, KTimerAssumption DEF z_impl_k_timer_start, TypeOK, DispatchTypeOK
  <2>3. superseded' \in BOOLEAN /\ rearmed' \in BOOLEAN
    BY <1>1 DEF z_impl_k_timer_start
  <2>4. TypeOK'
    BY <1>1, <2>1, <2>2, <2>3 DEF z_impl_k_timer_start, TypeOK, DispatchTypeOK
  <2>5. HandlerPhase'
    BY <1>1, <2>1 DEF z_impl_k_timer_start, HandlerPhase
  <2>6. Timer \in active' /\ ~freed'
    BY <1>1 DEF z_impl_k_timer_start
  <2>7. inflight_timeout' = Timer => rearmed'
    BY <1>1 DEF z_impl_k_timer_start
  <2>8. StaleMarked' /\ RearmedLinked' /\ FreedQuiet'
    BY <2>6, <2>7 DEF StaleMarked, RearmedLinked, FreedQuiet
  <2> QED
    BY <2>4, <2>5, <2>8
<1>2. ASSUME NEW c \in Cpus, z_impl_k_timer_stop(c) PROVE IInv'
  <2>1. sync' \in [Threads -> {"idle", "pended", "woken"}] /\ saw' \subseteq Threads
    BY <1>2, WakeOneType DEF z_impl_k_timer_stop, TypeOK, Pended
  <2>2. /\ stopping' \in [Cpus -> {"no", "thread", "nested"}]
        /\ stopLost' \in BOOLEAN
    BY <1>2 DEF z_impl_k_timer_stop, TypeOK
  <2>3. TypeOK'
    BY <1>2, <2>1, <2>2 DEF z_impl_k_timer_stop, TryAbort, TypeOK, DispatchTypeOK
  <2>4. /\ TryAbort(Timer) /\ ~freed'
        /\ UNCHANGED <<handler, status, rearmed>>
    BY <1>2 DEF z_impl_k_timer_stop
  <2>5. HandlerPhase'
    BY <2>4 DEF TryAbort, HandlerPhase
  <2>6. StaleMarked' /\ RearmedLinked' /\ FreedQuiet'
    BY <2>4 DEF TryAbort, HandlerPhase, StaleMarked, RearmedLinked, FreedQuiet
  <2> QED
    BY <2>3, <2>5, <2>6
<1>3. CASE z_impl_k_timer_status_get
  BY <1>3, KTimerAssumption
     DEF z_impl_k_timer_status_get, dispatchVars, TypeOK, DispatchTypeOK, HandlerPhase,
         StaleMarked, RearmedLinked, FreedQuiet
<1>4. ASSUME NEW th \in Threads,
             z_impl_k_timer_status_sync(th) \/ SyncReturns(th)
      PROVE  IInv'
  <2>1. /\ status' \in {0, status}
        /\ sync' \in [Threads -> {"idle", "pended", "woken"}]
        /\ saw' \subseteq Threads
        /\ UNCHANGED <<dispatchVars, expiry_fn, stop_fn, period, handler, stopping,
                       freed, starts, fresh, rearmed, stopLost>>
    BY <1>4 DEF z_impl_k_timer_status_sync, SyncReturns, TypeOK
  <2>2. TypeOK' /\ HandlerPhase'
    BY <2>1, KTimerAssumption DEF dispatchVars, TypeOK, DispatchTypeOK, HandlerPhase
  <2>3. StaleMarked' /\ RearmedLinked' /\ FreedQuiet'
    BY <2>1 DEF dispatchVars, StaleMarked, RearmedLinked, FreedQuiet
  <2> QED
    BY <2>2, <2>3
<1>5. ASSUME NEW c \in Cpus, z_timer_cleanup(c) PROVE IInv'
  BY <1>5, CleanupKeepsIInv
<1>6. ASSUME NEW c \in Cpus, TimerPopped(c) PROVE IInv'
  <2>1. PICK t \in active : Fire(c, t)
    BY <1>6 DEF TimerPopped, Announce
  <2> QED
    BY <1>6, <2>1, PoppedKeepsIInv DEF TimerPopped
<1>7. ASSUME NEW c \in Cpus, z_timer_expiration_handler(c) PROVE IInv'
  BY <1>7, HandlerKeepsIInv
<1>8. ASSUME NEW c \in Cpus, ExpiryFnReturns(c) \/ StopFnReturns(c) PROVE IInv'
  <2>1. /\ WakeOne
        /\ handler' = handler \/ (handler = "expiry_fn" /\ handler' = "done")
        /\ stopping' \in [Cpus -> {"no", "thread", "nested"}]
        /\ UNCHANGED <<dispatchVars, expiry_fn, stop_fn, period, status, freed,
                       starts, fresh, rearmed, saw, stopLost>>
    BY <1>8 DEF ExpiryFnReturns, StopFnReturns, TypeOK
  <2>2. TypeOK'
    BY <2>1, WakeOneType DEF dispatchVars, TypeOK, DispatchTypeOK
  <2>3. HandlerPhase' /\ StaleMarked' /\ RearmedLinked' /\ FreedQuiet'
    BY <2>1 DEF dispatchVars, HandlerPhase, StaleMarked, RearmedLinked, FreedQuiet
  <2> QED
    BY <2>2, <2>3
<1>9. ASSUME NEW c \in Cpus, HandlerDone(c) PROVE IInv'
  <2>1. CASE StopFiring
    <3>1. Timer # None /\ inflight_timeout' # Timer
      BY <2>1, DispatchAssumption, KTimerAssumption DEF StopFiring
    <3>2. /\ handler' = "idle"
          /\ UNCHANGED <<expiry_fn, stop_fn, period, status, stopping, sync, freed,
                         starts, fresh, rearmed, saw, stopLost>>
      BY <1>9, <3>1 DEF HandlerDone
    <3>3. TypeOK'
      BY <2>1, <3>2 DEF StopFiring, TypeOK, DispatchTypeOK
    <3> QED
      BY <2>1, <3>1, <3>2, <3>3
         DEF StopFiring, HandlerPhase, StaleMarked, RearmedLinked, FreedQuiet
  <2>2. ASSUME NEW t \in active, Fire(c, t) PROVE IInv'
    <3>1. inflight_timeout' = Timer
      BY <2>2, KTimerAssumption DEF Fire, TypeOK, DispatchTypeOK
    <3>2. status < MaxStatus /\ Popped
      BY <1>9, <3>1 DEF HandlerDone
    <3> QED
      BY <2>2, <3>2, PoppedKeepsIInv
  <2> QED
    BY <1>9, <2>1, <2>2 DEF HandlerDone, HandlerReturn
<1>10. CASE UNCHANGED vars
  BY <1>10 DEF vars, timerVars, dispatchVars, TypeOK, DispatchTypeOK, HandlerPhase,
               StaleMarked, RearmedLinked, FreedQuiet
<1> QED
  BY <1>1, <1>2, <1>3, <1>4, <1>5, <1>6, <1>7, <1>8, <1>9, <1>10 DEF Next, Api, HandlerStep

(***************************************************************************)
(* The types are kept, and k_timer_cleanup() waits out a handler in flight *)
(* unless the timer had been armed again under it.                         *)
(***************************************************************************)
THEOREM KTimerCleanupWaits == Spec => [](TypeOK /\ CleanupWaits)
<1>1. IInv => TypeOK /\ CleanupWaits
  BY DEF IInv, FreedQuiet, CleanupWaits
<1> QED
  BY <1>1, InvariantInit, InvariantStep, PTL DEF Spec

(***************************************************************************)
(* The states of timers, handlers and waiting threads stay those of        *)
(* timer.c, whichever callbacks run in between.                            *)
(***************************************************************************)
THEOREM KTimerTyped == Spec => []TypeOK
  BY KTimerCleanupWaits, PTL

(***************************************************************************)
(* No dispatch of the timer that k_timer_start(), k_timer_stop() or        *)
(* cleanup has overtaken counts an expiry or calls expiry_fn.              *)
(***************************************************************************)
THEOREM KTimerStaleNeverFires == Spec => StaleNeverFires
<1>1. IInv /\ [Next]_vars => [status' > status => fresh]_vars
  <2> SUFFICES ASSUME IInv, Next, status' > status PROVE fresh
    OBVIOUS
  <2>1. status \in Nat
    BY KTimerAssumption DEF IInv, TypeOK
  <2>2. ASSUME NEW c \in Cpus, z_timer_expiration_handler(c) PROVE fresh
    <3>1. handler = "entered" /\ inflight_timeout = Timer
      BY <2>2 DEF z_timer_expiration_handler, IInv, HandlerPhase
    <3>2. ~HandlerBails
      BY <2>1, <2>2 DEF z_timer_expiration_handler
    <3> QED
      BY <3>1, <3>2 DEF HandlerBails, IInv, StaleMarked
  <2>3. ASSUME NEW c \in Cpus, TimerPopped(c) \/ ExpiryFnReturns(c) \/ HandlerDone(c)
                               \/ StopFnReturns(c)
        PROVE  FALSE
    BY <2>1, <2>3 DEF TimerPopped, Popped, ExpiryFnReturns, HandlerDone, StopFnReturns
  <2>4. ASSUME Api \/ \E th \in Threads : SyncReturns(th) PROVE FALSE
    BY <2>1, <2>4 DEF Api, z_impl_k_timer_start, z_impl_k_timer_stop,
          z_impl_k_timer_status_get, z_impl_k_timer_status_sync, z_timer_cleanup, SyncReturns
  <2> QED
    BY <2>2, <2>3, <2>4 DEF Next, HandlerStep
<1> QED
  BY <1>1, InvariantInit, InvariantStep, PTL DEF Spec, StaleNeverFires

(***************************************************************************)
(* While a callback runs with timer_lock dropped, whoever is in the wait   *)
(* queue may be woken by its end, and has seen its cause.                  *)
(***************************************************************************)
WakeJustified ==
    /\ sync \in [Threads -> {"idle", "pended", "woken"}]
    /\ SyncSawEvent
    /\ InCallback => Pended \subseteq saw

(***************************************************************************)
(* Waking one of the waiters, each of which has seen an event.             *)
(***************************************************************************)
LEMMA WakeKeepsJustified ==
    ASSUME WakeJustified, WakeOne, Pended \subseteq saw', saw \subseteq saw'
    PROVE  WakeJustified'
<1>1. sync' \in [Threads -> {"idle", "pended", "woken"}]
  BY WakeOneType DEF WakeJustified
<1>2. \A th \in Threads : /\ sync'[th] = "woken" => sync[th] = "woken" \/ th \in Pended
                          /\ sync'[th] = "pended" => th \in Pended
  BY DEF WakeOne, WakeJustified, Pended
<1>3. SyncSawEvent'
  BY <1>2 DEF WakeJustified, SyncSawEvent
<1>4. Pended' \subseteq saw'
  BY <1>2 DEF Pended
<1> QED
  BY <1>1, <1>3, <1>4 DEF WakeJustified

(***************************************************************************)
(* Steps that wake nobody, and begin no callback unless every waiter has   *)
(* seen the event.                                                         *)
(***************************************************************************)
LEMMA QuietKeepsJustified ==
    ASSUME WakeJustified, UNCHANGED sync, saw \subseteq saw',
           InCallback' => InCallback \/ Pended \subseteq saw'
    PROVE  WakeJustified'
  BY DEF WakeJustified, SyncSawEvent, Pended

(***************************************************************************)
(* A thread that k_timer_status_sync() has put to sleep is woken only if   *)
(* the timer expired or was stopped since, or while the callback of such   *)
(* an event was running.                                                   *)
(***************************************************************************)
THEOREM KTimerSyncSawEvent == Spec => []SyncSawEvent
<1>1. k_timer_init => WakeJustified
  BY DEF k_timer_init, WakeJustified, SyncSawEvent, Pended
<1>2. IInv /\ WakeJustified /\ [Next]_vars => WakeJustified'
  <2> SUFFICES ASSUME IInv, WakeJustified, [Next]_vars PROVE WakeJustified'
    OBVIOUS
  <2>1. ASSUME NEW c \in Cpus, z_timer_expiration_handler(c) PROVE WakeJustified'
    <3>1. CASE HandlerBails
      BY <2>1, <3>1, QuietKeepsJustified DEF z_timer_expiration_handler, InCallback
    <3>2. CASE ~HandlerBails
      <4>1. saw' = saw \cup Pended
        BY <2>1, <3>2 DEF z_timer_expiration_handler
      <4>2. CASE expiry_fn
        BY <2>1, <3>2, <4>1, <4>2, QuietKeepsJustified DEF z_timer_expiration_handler
      <4>3. CASE ~expiry_fn
        BY <2>1, <3>2, <4>1, <4>3, WakeKeepsJustified DEF z_timer_expiration_handler
      <4> QED
        BY <4>2, <4>3
    <3> QED
      BY <3>1, <3>2
  <2>2. ASSUME NEW c \in Cpus, ExpiryFnReturns(c) \/ StopFnReturns(c) PROVE WakeJustified'
    <3>1. InCallback
      BY <2>2 DEF ExpiryFnReturns, StopFnReturns, InCallback
    <3>2. WakeOne /\ UNCHANGED saw /\ Pended \subseteq saw
      BY <2>2, <3>1 DEF ExpiryFnReturns, StopFnReturns, WakeJustified
    <3> QED
      BY <3>2, WakeKeepsJustified
  <2>3. ASSUME NEW c \in Cpus, z_impl_k_timer_stop(c) PROVE WakeJustified'
    <3>1. CASE AbortResult(c, Timer) # "removed"
      BY <2>3, <3>1, QuietKeepsJustified DEF z_impl_k_timer_stop, InCallback
    <3>2. CASE AbortResult(c, Timer) = "removed"
      <4>1. saw' = saw \cup Pended
        BY <2>3, <3>2 DEF z_impl_k_timer_stop
      <4>2. CASE stop_fn
        BY <2>3, <3>2, <4>1, <4>2, QuietKeepsJustified DEF z_impl_k_timer_stop
      <4>3. CASE ~stop_fn
        BY <2>3, <3>2, <4>1, <4>3, WakeKeepsJustified DEF z_impl_k_timer_stop
      <4> QED
        BY <4>2, <4>3
    <3> QED
      BY <3>1, <3>2
  <2>4. ASSUME NEW th \in Threads, z_impl_k_timer_status_sync(th) PROVE WakeJustified'
    <3>1. UNCHANGED <<handler, stopping>> /\ (InCallback' <=> InCallback)
      BY <2>4 DEF z_impl_k_timer_status_sync, InCallback
    <3>2. CASE UNCHANGED <<sync, saw>>
      BY <3>1, <3>2, QuietKeepsJustified
    <3>3. CASE /\ sync[th] = "idle" /\ sync' = [sync EXCEPT ![th] = "pended"]
               /\ saw' = IF InCallback THEN saw \cup {th} ELSE saw \ {th}
      <4>1. /\ sync'[th] = "pended" /\ \A u \in Threads : u # th => sync'[u] = sync[u]
            /\ sync' \in [Threads -> {"idle", "pended", "woken"}]
        BY <3>3 DEF WakeJustified
      <4>2. SyncSawEvent'
        BY <3>3, <4>1 DEF WakeJustified, SyncSawEvent
      <4>3. InCallback' => Pended' \subseteq saw'
        BY <3>1, <3>3, <4>1 DEF WakeJustified, Pended
      <4> QED
        BY <4>1, <4>2, <4>3 DEF WakeJustified
    <3> QED
      BY <2>4, <3>2, <3>3 DEF z_impl_k_timer_status_sync
  <2>5. ASSUME NEW th \in Threads, SyncReturns(th) PROVE WakeJustified'
    <3>1. /\ sync' = [sync EXCEPT ![th] = "idle"] /\ UNCHANGED <<handler, stopping, saw>>
      BY <2>5 DEF SyncReturns
    <3>2. /\ sync' \in [Threads -> {"idle", "pended", "woken"}]
          /\ \A u \in Threads : sync'[u] = sync[u] \/ sync'[u] = "idle"
      BY <3>1 DEF WakeJustified
    <3>3. SyncSawEvent'
      BY <3>1, <3>2 DEF WakeJustified, SyncSawEvent
    <3>4. InCallback' => Pended' \subseteq saw'
      BY <3>1, <3>2 DEF WakeJustified, Pended, InCallback
    <3> QED
      BY <3>2, <3>3, <3>4 DEF WakeJustified
  <2>6. ASSUME \/ \E p \in Periods : z_impl_k_timer_start(p)
               \/ z_impl_k_timer_status_get
               \/ \E c \in Cpus : z_timer_cleanup(c) \/ TimerPopped(c) \/ HandlerDone(c)
               \/ UNCHANGED vars
        PROVE  WakeJustified'
    <3>1. UNCHANGED <<sync, stopping, saw>> /\ (handler' = handler \/ handler' # "expiry_fn")
      BY <2>6 DEF z_impl_k_timer_start, z_impl_k_timer_status_get, z_timer_cleanup,
                  TimerPopped, Popped, HandlerDone, vars, timerVars
    <3>2. InCallback' => InCallback
      BY <3>1 DEF InCallback
    <3> QED
      BY <3>1, <3>2, QuietKeepsJustified
  <2> QED
    BY <2>1, <2>2, <2>3, <2>4, <2>5, <2>6 DEF Next, Api, HandlerStep
<1>3. WakeJustified => SyncSawEvent
  BY DEF WakeJustified
<1> QED
  BY <1>1, <1>2, <1>3, InvariantInit, InvariantStep, PTL DEF Spec

=============================================================================
