-------------------------- MODULE TimeoutProofs --------------------------
(***************************************************************************)
(* Theorems about Timeout, for any number of CPUs and timeouts, any        *)
(* SYS_CLOCK_MAX_WAIT and any durations.                                   *)
(***************************************************************************)
EXTENDS Timeout, TLAPS

(***************************************************************************)
(* The inductive invariant.  TickConsistency makes elapsed() exact, which  *)
(* is what lets a new timeout be placed after notBefore; NotOverdue keeps  *)
(* the gap to the next timeout non-negative when the loop advances.        *)
(***************************************************************************)
PlacedAfter == \A t \in Linked(expires) : expires[t] >= notBefore[t]

\* Outside an announce no handler is in flight.
IdleLoop == announcing_cpu = None => inflight_timeout = None /\ superseded = FALSE

IInv ==
    /\ TypeOK
    /\ TickConsistency
    /\ NotOverdue
    /\ PlacedAfter
    /\ IdleLoop

(***************************************************************************)
(* elapsed() is the distance from curr_tick to the real time on a CPU that *)
(* is not announcing, and 0 on the one that is.                            *)
(***************************************************************************)
LEMMA ElapsedExact ==
    ASSUME TypeOK, TickConsistency, NEW c \in Cpus
    PROVE  /\ elapsed(c) \in Nat
           /\ announcing_cpu # c => curr_tick + elapsed(c) = counter
  BY DEF TypeOK, TickConsistency, elapsed

(***************************************************************************)
(* next_timeout() never asks the driver for a negative wait.               *)
(***************************************************************************)
LEMMA NextTimeoutNat ==
    ASSUME NEW next \in Int, NEW el \in Nat
    PROVE  next_timeout(next, el) \in Nat
  BY TimeoutAssumption DEF next_timeout

(***************************************************************************)
(* Reprogramming keeps the comparators' type.                              *)
(***************************************************************************)
LEMMA ReprogramType ==
    ASSUME NEW c \in Cpus, NEW e \in [Timeouts -> Nat \cup {Inactive}],
           NEW now \in Nat, NEW el \in Nat,
           armed \in [Cpus -> Nat \cup {Off}],
           last_tick' \in Nat, last_elapsed' \in Nat,
           reprogram_next(c, e, now, el)
    PROVE  armed' \in [Cpus -> Nat \cup {Off}]
<1>1. PICK next \in NextExpiry(e, now) : timer_core_arm(c, next_timeout(next, el))
  BY DEF reprogram_next
<1>2. next \in Int
  <2>1. CASE Linked(e) = {}
    BY <2>1, TimeoutAssumption DEF NextExpiry
  <2>2. CASE Linked(e) # {}
    BY <2>2 DEF NextExpiry, Earliest, Linked, Inactive
  <2> QED
    BY <2>1, <2>2
<1>3. next_timeout(next, el) \in Nat
  BY <1>2, NextTimeoutNat
<1>4. PICK ticks \in Nat : timer_core_arm(c, ticks)
  BY <1>1, <1>3
<1>5. PICK lt \in Nat, le \in Nat : lt = last_tick' /\ le = last_elapsed'
  OBVIOUS
<1>6. armed' = [armed EXCEPT ![c] = lt + (IF le + ticks <= MaxSpan THEN le + ticks ELSE MaxSpan)]
  BY <1>4, <1>5 DEF timer_core_arm
<1> QED
  BY <1>6, TimeoutAssumption

(***************************************************************************)
(* The driver's elapsed count stays a tick count.                          *)
(***************************************************************************)
LEMMA ElapsedReadType ==
    ASSUME TypeOK, TickConsistency, NEW c, sys_clock_elapsed_read(c)
    PROVE  last_elapsed' \in Nat
  BY DEF TypeOK, TickConsistency, sys_clock_elapsed_read

(***************************************************************************)
(* Linking a timeout dticks ahead, with dticks chosen as z_add_timeout()   *)
(* does, keeps the queue's part of the invariant.                          *)
(***************************************************************************)
LEMMA InsertKeepsQueue ==
    ASSUME IInv, NEW t \in Timeouts, NEW dticks \in Nat, NEW first \in BOOLEAN,
           NEW bound \in Nat,
           z_timeout_q_insert(t, dticks, first),
           announcing_cpu = None => dticks > 0,
           curr_tick + dticks >= bound,
           notBefore' = [notBefore EXCEPT ![t] = bound],
           UNCHANGED <<curr_tick, announcing_cpu>>
    PROVE  /\ expires' \in [Timeouts -> Nat \cup {Inactive}]
           /\ notBefore' \in [Timeouts -> Nat]
           /\ NotOverdue'
           /\ PlacedAfter'
<1> DEFINE new == curr_tick + dticks
<1>1. /\ expires' = [expires EXCEPT ![t] = new]
      /\ new \in Nat
  BY DEF IInv, TypeOK, z_timeout_q_insert
<1>2. /\ expires' \in [Timeouts -> Nat \cup {Inactive}]
      /\ notBefore' \in [Timeouts -> Nat]
  BY <1>1 DEF IInv, TypeOK
<1>3. ASSUME NEW u \in Linked(expires')
      PROVE  /\ expires'[u] >= curr_tick'
             /\ announcing_cpu' = None => expires'[u] > curr_tick'
             /\ expires'[u] >= notBefore'[u]
  <2>1. CASE u = t
    BY <1>1, <1>3, <2>1 DEF IInv, TypeOK
  <2>2. CASE u # t
    <3>1. u \in Linked(expires) /\ expires'[u] = expires[u] /\ notBefore'[u] = notBefore[u]
      BY <1>1, <1>3, <2>2 DEF IInv, TypeOK, Linked
    <3> QED
      BY <3>1 DEF IInv, NotOverdue, PlacedAfter
  <2> QED
    BY <2>1, <2>2
<1> QED
  BY <1>2, <1>3 DEF NotOverdue, PlacedAfter

(***************************************************************************)
(* The announce loop of sys_clock_announce_locked(), entered with the      *)
(* ticks the driver has announced and the loop has not yet processed.      *)
(***************************************************************************)
LEMMA RunLoopKeepsIInv ==
    ASSUME IInv, NEW c \in Cpus, NEW remaining \in Nat,
           RunLoop(c, remaining),
           curr_tick + remaining = last_tick',
           last_tick' <= counter', counter' \in Nat,
           last_tick' \in Nat, last_elapsed' \in Nat
    PROVE  IInv'
<1> USE DEF Inactive, Off
<1>1. ASSUME NEW t \in Earliest(expires),
             expires[t] <= curr_tick + remaining,
             Dispatch(c, t, expires[t], remaining - (expires[t] - curr_tick))
      PROVE  IInv'
  <2>1. /\ t \in Linked(expires) /\ t \in Timeouts
        /\ \A u \in Linked(expires) : expires[t] <= expires[u]
    BY DEF Earliest, Linked
  <2>2. expires[t] \in Nat /\ expires[t] >= curr_tick
    BY <2>1 DEF IInv, TypeOK, NotOverdue, Linked
  <2>3. TypeOK'
    <3>1. curr_tick' \in Nat /\ announce_remaining' \in Nat
      BY <1>1, <2>2 DEF IInv, TypeOK, Dispatch
    <3>2. expires' \in [Timeouts -> Nat \cup {Inactive}] /\ armed' \in [Cpus -> Nat \cup {Off}]
      BY <1>1 DEF IInv, TypeOK, Dispatch
    <3>3. notBefore' \in [Timeouts -> Nat] /\ late' \in Nat
      BY <1>1 DEF IInv, TypeOK, Dispatch
    <3> QED
      BY <1>1, <2>1, <3>1, <3>2, <3>3 DEF IInv, TypeOK, Dispatch
  <2>4. TickConsistency'
    BY <1>1, <2>2, TimeoutAssumption DEF IInv, TypeOK, TickConsistency, Dispatch
  <2>5. ASSUME NEW u \in Linked(expires')
        PROVE  /\ u \in Linked(expires) /\ expires'[u] = expires[u]
               /\ notBefore'[u] = notBefore[u]
    BY <1>1, <2>1, <2>5 DEF IInv, TypeOK, Dispatch, Linked
  <2>6. NotOverdue'
    BY <1>1, <2>1, <2>2, <2>5, TimeoutAssumption DEF NotOverdue, Dispatch
  <2>7. PlacedAfter'
    BY <2>5 DEF IInv, PlacedAfter
  <2>8. IdleLoop'
    BY <1>1, TimeoutAssumption DEF Dispatch, IdleLoop
  <2> QED
    BY <2>3, <2>4, <2>6, <2>7, <2>8 DEF IInv
<1>2. ASSUME \A t \in Linked(expires) : expires[t] > curr_tick + remaining,
             EndAnnounce(c, curr_tick + remaining)
      PROVE  IInv'
  <2>1. armed' \in [Cpus -> Nat \cup {Off}]
    BY <1>2, ReprogramType DEF IInv, TypeOK, EndAnnounce
  <2>2. TypeOK'
    BY <1>2, <2>1 DEF IInv, TypeOK, EndAnnounce
  <2>3. TickConsistency'
    BY <1>2 DEF IInv, TypeOK, TickConsistency, EndAnnounce
  <2>4. NotOverdue' /\ PlacedAfter'
    <3>1. Linked(expires') = Linked(expires)
      BY <1>2 DEF EndAnnounce
    <3> QED
      BY <1>2, <3>1 DEF IInv, TypeOK, NotOverdue, PlacedAfter, EndAnnounce, Linked
  <2>5. IdleLoop'
    BY <1>2 DEF EndAnnounce, IdleLoop
  <2> QED
    BY <2>2, <2>3, <2>4, <2>5 DEF IInv
<1> QED
  BY <1>1, <1>2 DEF RunLoop

(***************************************************************************)
(* The three operations that read the queue from any CPU.                  *)
(***************************************************************************)
LEMMA RelativeKeepsIInv ==
    ASSUME IInv, NEW c \in Cpus, NEW t \in Timeouts, NEW ticks \in Nat,
           z_add_timeout_relative(c, t, ticks)
    PROVE  IInv'
<1> DEFINE edge == IF announcing_cpu = c THEN 0 ELSE 1
           dticks == ticks + elapsed(c) + edge
           bound == IF announcing_cpu = c THEN curr_tick + ticks ELSE counter + ticks + 1
<1>1. PICK first \in BOOLEAN :
        /\ z_timeout_q_insert(t, dticks, first)
        /\ sys_clock_elapsed_read(c)
        /\ UNCHANGED <<counter, last_tick, loopVars, superseded>>
        /\ IF first /\ announcing_cpu = None
           THEN reprogram_next(c, expires', curr_tick, elapsed(c))
           ELSE UNCHANGED armed
        /\ notBefore' = [notBefore EXCEPT ![t] = bound]
  BY DEF z_add_timeout_relative
<1>2. elapsed(c) \in Nat /\ (announcing_cpu # c => curr_tick + elapsed(c) = counter)
  BY ElapsedExact DEF IInv
<1>3. announcing_cpu = c => elapsed(c) = 0
  BY DEF elapsed
<1>4. /\ dticks \in Nat /\ bound \in Nat
      /\ curr_tick + dticks >= bound
      /\ announcing_cpu = None => dticks > 0
  <2>1. CASE announcing_cpu = c
    BY <1>3, <2>1, TimeoutAssumption DEF IInv, TypeOK
  <2>2. CASE announcing_cpu # c
    BY <1>2, <2>2 DEF IInv, TypeOK
  <2> QED
    BY <2>1, <2>2
<1> HIDE DEF dticks, bound
<1>5. UNCHANGED <<curr_tick, announce_remaining, announcing_cpu, inflight_timeout,
                  counter, last_tick, superseded, late>>
  BY <1>1 DEF loopVars
<1>6. /\ expires' \in [Timeouts -> Nat \cup {Inactive}]
      /\ notBefore' \in [Timeouts -> Nat]
      /\ NotOverdue' /\ PlacedAfter'
  BY <1>1, <1>4, <1>5, InsertKeepsQueue
<1>7. last_elapsed' \in Nat
  BY <1>1, ElapsedReadType DEF IInv
<1>8. armed' \in [Cpus -> Nat \cup {Off}]
  BY <1>1, <1>2, <1>5, <1>6, <1>7, ReprogramType DEF IInv, TypeOK
<1>9. TypeOK'
  BY <1>5, <1>6, <1>7, <1>8 DEF IInv, TypeOK
<1>10. TickConsistency' /\ IdleLoop'
  BY <1>5 DEF IInv, TickConsistency, IdleLoop
<1> QED
  BY <1>6, <1>9, <1>10 DEF IInv

(***************************************************************************)
(* z_add_timeout() with an absolute tick preserves the inductive invariant. *)
(***************************************************************************)
LEMMA AbsoluteKeepsIInv ==
    ASSUME IInv, NEW c \in Cpus, NEW t \in Timeouts, NEW tick \in Nat,
           z_add_timeout_absolute(c, t, tick)
    PROVE  IInv'
<1> DEFINE dticks == IF tick - curr_tick > 1 THEN tick - curr_tick ELSE 1
<1>1. PICK first \in BOOLEAN :
        /\ z_timeout_q_insert(t, dticks, first)
        /\ UNCHANGED <<counter, last_tick, loopVars, superseded>>
        /\ IF first /\ announcing_cpu = None
           THEN /\ sys_clock_elapsed_read(c)
                /\ reprogram_next(c, expires', curr_tick, elapsed(c))
           ELSE UNCHANGED <<last_elapsed, armed>>
        /\ notBefore' = [notBefore EXCEPT ![t] = tick]
  BY DEF z_add_timeout_absolute
<1>2. /\ dticks \in Nat /\ dticks > 0
      /\ curr_tick + dticks >= tick
  BY DEF IInv, TypeOK
<1> HIDE DEF dticks
<1>3. UNCHANGED <<curr_tick, announce_remaining, announcing_cpu, inflight_timeout,
                  counter, last_tick, superseded, late>>
  BY <1>1 DEF loopVars
<1>4. /\ expires' \in [Timeouts -> Nat \cup {Inactive}]
      /\ notBefore' \in [Timeouts -> Nat]
      /\ NotOverdue' /\ PlacedAfter'
  BY <1>1, <1>2, <1>3, InsertKeepsQueue
<1>5. last_elapsed' \in Nat
  BY <1>1, ElapsedReadType DEF IInv, TypeOK
<1>6. elapsed(c) \in Nat
  BY ElapsedExact DEF IInv
<1>7. armed' \in [Cpus -> Nat \cup {Off}]
  BY <1>1, <1>3, <1>4, <1>5, <1>6, ReprogramType DEF IInv, TypeOK
<1>8. TypeOK' /\ TickConsistency' /\ IdleLoop'
  BY <1>3, <1>4, <1>5, <1>7 DEF IInv, TypeOK, TickConsistency, IdleLoop
<1> QED
  BY <1>4, <1>8 DEF IInv

(***************************************************************************)
(* z_try_abort_timeout() preserves the inductive invariant.                *)
(***************************************************************************)
LEMMA AbortKeepsIInv ==
    ASSUME IInv, NEW c \in Cpus, NEW t \in Timeouts, z_try_abort_timeout(c, t)
    PROVE  IInv'
<1>1. /\ UNCHANGED <<curr_tick, announce_remaining, announcing_cpu, inflight_timeout,
                     counter, last_tick, late>>
      /\ superseded' \in BOOLEAN
      /\ notBefore' = [notBefore EXCEPT ![t] = 0]
      /\ notBefore' \in [Timeouts -> Nat]
  BY DEF IInv, TypeOK, z_try_abort_timeout, loopVars
<1>a. IdleLoop'
  BY <1>1, TimeoutAssumption DEF IInv, IdleLoop, z_try_abort_timeout
<1>2. CASE z_is_inactive_timeout(t)
  <2>1. UNCHANGED <<expires, last_elapsed, armed>>
    BY <1>2 DEF z_try_abort_timeout
  <2>2. \A u \in Linked(expires) : notBefore'[u] = notBefore[u]
    BY <1>1, <1>2 DEF IInv, TypeOK, Linked, z_is_inactive_timeout
  <2>3. Linked(expires)' = Linked(expires)
    BY <2>1 DEF Linked
  <2>4. TypeOK' /\ TickConsistency'
    BY <1>1, <2>1 DEF IInv, TypeOK, TickConsistency
  <2>5. NotOverdue' /\ PlacedAfter'
    BY <1>1, <2>1, <2>2, <2>3 DEF IInv, NotOverdue, PlacedAfter
  <2> QED
    BY <1>a, <2>4, <2>5 DEF IInv
<1>3. CASE ~z_is_inactive_timeout(t)
  <2>1. /\ expires' = [expires EXCEPT ![t] = Inactive]
        /\ \/ sys_clock_elapsed_read(c)
              /\ reprogram_next(c, expires', curr_tick, elapsed(c))
           \/ UNCHANGED <<last_elapsed, armed>>
    BY <1>3 DEF z_try_abort_timeout
  <2>2. expires' \in [Timeouts -> Nat \cup {Inactive}]
    BY <2>1 DEF IInv, TypeOK
  <2>3. last_elapsed' \in Nat
    BY <2>1, ElapsedReadType DEF IInv, TypeOK
  <2>4. elapsed(c) \in Nat
    BY ElapsedExact DEF IInv
  <2>5. armed' \in [Cpus -> Nat \cup {Off}]
    BY <1>1, <2>1, <2>2, <2>3, <2>4, ReprogramType DEF IInv, TypeOK
  <2>6. \A u \in Linked(expires') : /\ u \in Linked(expires) /\ expires'[u] = expires[u]
                                    /\ notBefore'[u] = notBefore[u]
    BY <1>1, <2>1 DEF IInv, TypeOK, Linked
  <2>7. TypeOK' /\ TickConsistency'
    BY <1>1, <2>2, <2>3, <2>5 DEF IInv, TypeOK, TickConsistency
  <2>8. NotOverdue' /\ PlacedAfter'
    BY <1>1, <2>6 DEF IInv, NotOverdue, PlacedAfter
  <2> QED
    BY <1>a, <2>7, <2>8 DEF IInv
<1> QED
  BY <1>2, <1>3

(***************************************************************************)
(* The invariant holds in every reachable state of the timeout code.       *)
(***************************************************************************)
LEMMA InvariantInit == Init => IInv
<1> SUFFICES ASSUME Init PROVE IInv
  OBVIOUS
<1>1. TypeOK
  BY DEF Init, TypeOK, Inactive, Off
<1>2. TickConsistency /\ IdleLoop
  BY DEF Init, TickConsistency, IdleLoop
<1>3. Linked(expires) = {}
  BY DEF Init, Linked
<1> QED
  BY <1>1, <1>2, <1>3 DEF IInv, NotOverdue, PlacedAfter

(***************************************************************************)
(* Every step of the specification preserves the inductive invariant.      *)
(***************************************************************************)
LEMMA InvariantStep == IInv /\ [Next]_vars => IInv'
<1> SUFFICES ASSUME IInv, [Next]_vars PROVE IInv'
  OBVIOUS
<1>1. CASE HwTick
  BY <1>1 DEF HwTick, loopVars, IInv, TypeOK, TickConsistency, NotOverdue, PlacedAfter,
     IdleLoop, Linked
<1>2. ASSUME NEW c \in Cpus, NEW t \in Timeouts, NEW n \in Durations,
             z_add_timeout_relative(c, t, n)
      PROVE  IInv'
  BY <1>2, RelativeKeepsIInv, TimeoutAssumption
<1>3. ASSUME NEW c \in Cpus, NEW t \in Timeouts, NEW tick \in 1..LastExpiry,
             z_add_timeout_absolute(c, t, tick)
      PROVE  IInv'
  BY <1>3, AbsoluteKeepsIInv, TimeoutAssumption
<1>4. ASSUME NEW c \in Cpus, NEW t \in Timeouts, z_try_abort_timeout(c, t)
      PROVE  IInv'
  BY <1>4, AbortKeepsIInv
<1>5. ASSUME NEW c \in Cpus, sys_clock_tick_get(c)
      PROVE  IInv'
  <2>1. last_elapsed' \in Nat
    BY <1>5, ElapsedReadType DEF IInv, sys_clock_tick_get
  <2> QED
    BY <1>5, <2>1 DEF sys_clock_tick_get, loopVars, IInv, TypeOK, TickConsistency,
       NotOverdue, PlacedAfter, IdleLoop, Linked
<1>6. ASSUME NEW c \in Cpus, timer_core_announce(c)
      PROVE  IInv'
  <2>1. /\ counter' = counter
        /\ last_tick' = counter /\ last_elapsed' = 0
        /\ counter - last_tick \in Nat
    BY <1>6 DEF timer_core_announce, IInv, TypeOK, TickConsistency
  <2>2. CASE announcing_cpu # None
    <3>1. /\ announce_remaining' = announce_remaining + (counter - last_tick)
          /\ armed' = [armed EXCEPT ![c] = Off]
          /\ UNCHANGED <<curr_tick, announcing_cpu, inflight_timeout, superseded,
                         expires, notBefore, late>>
      BY <1>6, <2>2 DEF timer_core_announce
    <3>2. TickConsistency'
      BY <2>1, <2>2, <3>1 DEF IInv, TypeOK, TickConsistency
    <3>3. announce_remaining' \in Nat
      BY <2>1, <3>1 DEF IInv, TypeOK
    <3> QED
      BY <2>1, <3>1, <3>2, <3>3 DEF IInv, TypeOK, NotOverdue, PlacedAfter, IdleLoop, Linked
  <2>3. CASE announcing_cpu = None
    <3>1. RunLoop(c, counter - last_tick)
      BY <1>6, <2>3 DEF timer_core_announce
    <3>2. curr_tick + (counter - last_tick) = counter
      BY <2>3 DEF IInv, TypeOK, TickConsistency
    <3> QED
      BY <2>1, <3>1, <3>2, RunLoopKeepsIInv DEF IInv, TypeOK
  <2> QED
    BY <2>2, <2>3
<1>7. ASSUME NEW c \in Cpus, HandlerReturn(c)
      PROVE  IInv'
  <2>1. /\ UNCHANGED <<counter, last_tick, last_elapsed>>
        /\ RunLoop(c, announce_remaining)
    BY <1>7 DEF HandlerReturn
  <2> QED
    BY <2>1, RunLoopKeepsIInv DEF IInv, TypeOK, TickConsistency
<1>8. CASE UNCHANGED vars
  BY <1>8 DEF vars, IInv, TypeOK, TickConsistency, NotOverdue, PlacedAfter, IdleLoop, Linked
<1> QED
  BY <1>1, <1>2, <1>3, <1>4, <1>5, <1>6, <1>7, <1>8 DEF Next, Client

(***************************************************************************)
(* Every reachable state is well typed and keeps the three clocks of       *)
(* timeout.c and its driver consistent, on any number of CPUs.             *)
(***************************************************************************)
THEOREM TimeoutInvariants == Spec => [](TypeOK /\ TickConsistency)
<1>1. IInv => TypeOK /\ TickConsistency
  BY DEF IInv
<1> QED
  BY <1>1, InvariantInit, InvariantStep, PTL DEF Spec

(***************************************************************************)
(* Every tick count of timeout.c and its driver stays a natural number: no *)
(* subtraction of the announce loop or of elapsed() goes below zero.       *)
(***************************************************************************)
THEOREM TimeoutTyped == Spec => []TypeOK
  BY TimeoutInvariants, PTL

(***************************************************************************)
(* No announce, folded into another CPU's or not, moves curr_tick past a   *)
(* timeout that is still in the queue.                                     *)
(***************************************************************************)
THEOREM TimeoutNotOverdue == Spec => []NotOverdue
<1>1. IInv => NotOverdue
  BY DEF IInv
<1> QED
  BY <1>1, InvariantInit, InvariantStep, PTL DEF Spec

(***************************************************************************)
(* The timeout that the loop pops is due.                                  *)
(***************************************************************************)
LEMMA DispatchIsDue ==
    ASSUME IInv, NEW c \in Cpus, NEW remaining \in Nat,
           RunLoop(c, remaining), curr_tick + remaining <= counter,
           NEW t \in Timeouts, FiresInStep(t)
    PROVE  counter >= notBefore[t]
<1>1. t \in Linked(expires) /\ expires[t] \in Nat
  BY DEF FiresInStep, z_is_inactive_timeout, Linked, IInv, TypeOK
<1>2. PICK u \in Earliest(expires) :
        /\ expires[u] <= curr_tick + remaining
        /\ Dispatch(c, u, expires[u], remaining - (expires[u] - curr_tick))
  BY TimeoutAssumption DEF RunLoop, EndAnnounce, FiresInStep
<1>3. u = t
  BY <1>2 DEF Dispatch, FiresInStep
<1> QED
  BY <1>1, <1>2, <1>3 DEF IInv, TypeOK, PlacedAfter

(***************************************************************************)
(* A handler started by the announce loop never runs before the time its   *)
(* caller asked for: "at least N ticks", with folds, aborts and re-adds    *)
(* from any CPU in between.                                                *)
(***************************************************************************)
THEOREM TimeoutNeverEarly == Spec => NeverEarly
<1>1. IInv /\ [Next]_vars
        => [\A t \in Timeouts : FiresInStep(t) => counter >= notBefore[t]]_vars
  <2> SUFFICES ASSUME IInv, [Next]_vars, NEW t \in Timeouts, FiresInStep(t)
               PROVE  counter >= notBefore[t]
    OBVIOUS
  <2> USE DEF FiresInStep, z_is_inactive_timeout
  <2>1. CASE HwTick
    BY <2>1 DEF HwTick
  <2>2. ASSUME NEW c \in Cpus, NEW u \in Timeouts, NEW dticks \in Nat, NEW first \in BOOLEAN,
               z_timeout_q_insert(u, dticks, first)
        PROVE  FALSE
    BY <2>2 DEF z_timeout_q_insert, IInv, TypeOK, Inactive
  <2>3. ASSUME NEW c \in Cpus, NEW u \in Timeouts, z_try_abort_timeout(c, u)
        PROVE  FALSE
    <3>1. UNCHANGED inflight_timeout /\ superseded' = (superseded \/ inflight_timeout = u)
      BY <2>3 DEF z_try_abort_timeout, loopVars
    <3>2. expires' = expires \/ expires' = [expires EXCEPT ![u] = Inactive]
      BY <2>3 DEF z_try_abort_timeout
    <3> QED
      BY <3>1, <3>2 DEF IInv, TypeOK
  <2>4. ASSUME NEW c \in Cpus, NEW u \in Timeouts, NEW n \in Durations,
               z_add_timeout_relative(c, u, n)
        PROVE  FALSE
    <3>1. elapsed(c) \in Nat
      BY ElapsedExact DEF IInv
    <3> QED
      BY <2>2, <2>4, <3>1, TimeoutAssumption DEF z_add_timeout_relative
  <2>5. ASSUME NEW c \in Cpus, NEW u \in Timeouts, NEW tick \in 1..LastExpiry,
               z_add_timeout_absolute(c, u, tick)
        PROVE  FALSE
    BY <2>2, <2>5, TimeoutAssumption DEF z_add_timeout_absolute, IInv, TypeOK
  <2>6. ASSUME NEW c \in Cpus, sys_clock_tick_get(c)
        PROVE  FALSE
    BY <2>6 DEF sys_clock_tick_get
  <2>7. ASSUME NEW c \in Cpus, timer_core_announce(c)
        PROVE  counter >= notBefore[t]
    <3>1. announcing_cpu = None
      BY <2>7 DEF timer_core_announce
    <3>2. RunLoop(c, counter - last_tick)
      BY <2>7, <3>1 DEF timer_core_announce
    <3>3. counter - last_tick \in Nat /\ curr_tick + (counter - last_tick) = counter
      BY <3>1 DEF IInv, TypeOK, TickConsistency
    <3> QED
      BY <3>2, <3>3, DispatchIsDue DEF IInv, TypeOK
  <2>8. ASSUME NEW c \in Cpus, HandlerReturn(c)
        PROVE  counter >= notBefore[t]
    <3>1. RunLoop(c, announce_remaining)
      BY <2>8 DEF HandlerReturn
    <3> QED
      BY <3>1, DispatchIsDue DEF IInv, TypeOK, TickConsistency
  <2>9. CASE UNCHANGED vars
    BY <2>9 DEF vars
  <2> QED
    BY <2>1, <2>3, <2>4, <2>5, <2>6, <2>7, <2>8, <2>9 DEF Next, Client
<1> QED
  BY <1>1, InvariantInit, InvariantStep, PTL DEF Spec, NeverEarly

(***************************************************************************)
(* Refinement: every step of the clocked code is a step of the dispatch    *)
(* protocol, or leaves it unchanged.                                       *)
(***************************************************************************)
LEMMA InsertRefines ==
    ASSUME IInv, NEW t \in Timeouts, NEW dticks \in Nat, NEW first \in BOOLEAN,
           z_timeout_q_insert(t, dticks, first),
           UNCHANGED <<announcing_cpu, inflight_timeout, superseded>>
    PROVE  Dispatcher!AddTimeout(t)
<1>1. t \notin Linked(expires)
  BY DEF z_timeout_q_insert, z_is_inactive_timeout, Linked
<1>2. curr_tick + dticks # Inactive
  BY DEF IInv, TypeOK, Inactive
<1>3. Linked(expires)' = Linked(expires) \cup {t}
  BY <1>2 DEF z_timeout_q_insert, Linked, IInv, TypeOK
<1> QED
  BY <1>1, <1>3 DEF Dispatcher!AddTimeout

(***************************************************************************)
(* The firing loop of sys_clock_announce_locked() pops a timeout or leaves, *)
(* as the abstract dispatcher does.                                        *)
(***************************************************************************)
LEMMA RunLoopRefines ==
    ASSUME IInv, NEW c \in Cpus, NEW remaining, RunLoop(c, remaining)
    PROVE  \/ \E t \in Linked(expires) : Dispatcher!Fire(c, t)
           \/ Dispatcher!StopFiring
<1>1. ASSUME NEW t \in Earliest(expires),
             Dispatch(c, t, expires[t], remaining - (expires[t] - curr_tick))
      PROVE  t \in Linked(expires) /\ Dispatcher!Fire(c, t)
  <2>1. t \in Linked(expires) /\ t \in Timeouts
    BY DEF Earliest, Linked
  <2>2. Linked(expires)' = Linked(expires) \ {t}
    BY <1>1, <2>1 DEF Dispatch, Linked, IInv, TypeOK
  <2> QED
    BY <1>1, <2>1, <2>2 DEF Dispatch, Dispatcher!Fire
<1>2. ASSUME EndAnnounce(c, curr_tick + remaining)
      PROVE  Dispatcher!StopFiring
  BY <1>2 DEF EndAnnounce, Dispatcher!StopFiring, Linked
<1> QED
  BY <1>1, <1>2 DEF RunLoop

(***************************************************************************)
(* Every step of the timeout queue is a step of the dispatcher or none.    *)
(***************************************************************************)
LEMMA StepRefines ==
    IInv /\ [Next]_vars => [Dispatcher!DispatchNext]_(Dispatcher!dispatchVars)
<1> SUFFICES ASSUME IInv, [Next]_vars
             PROVE  \/ Dispatcher!DispatchNext
                    \/ UNCHANGED Dispatcher!dispatchVars
  OBVIOUS
<1>1. ASSUME UNCHANGED <<expires, announcing_cpu, inflight_timeout, superseded>>
      PROVE  UNCHANGED Dispatcher!dispatchVars
  BY <1>1 DEF Dispatcher!dispatchVars, Linked
<1>2. ASSUME NEW c \in Cpus, NEW t \in Timeouts, NEW n \in Durations,
             z_add_timeout_relative(c, t, n)
      PROVE  Dispatcher!DispatchNext
  <2>1. elapsed(c) \in Nat
    BY ElapsedExact DEF IInv
  <2>2. Dispatcher!AddTimeout(t)
    BY <1>2, <2>1, InsertRefines, TimeoutAssumption DEF z_add_timeout_relative, loopVars
  <2> QED
    BY <2>2 DEF Dispatcher!DispatchNext
<1>3. ASSUME NEW c \in Cpus, NEW t \in Timeouts, NEW tick \in 1..LastExpiry,
             z_add_timeout_absolute(c, t, tick)
      PROVE  Dispatcher!DispatchNext
  <2>1. Dispatcher!AddTimeout(t)
    BY <1>3, InsertRefines, TimeoutAssumption DEF z_add_timeout_absolute, loopVars, IInv, TypeOK
  <2> QED
    BY <2>1 DEF Dispatcher!DispatchNext
<1>4. ASSUME NEW c \in Cpus, NEW t \in Timeouts, z_try_abort_timeout(c, t)
      PROVE  Dispatcher!DispatchNext
  <2>1. Linked(expires)' = Linked(expires) \ {t}
    BY <1>4 DEF z_try_abort_timeout, z_is_inactive_timeout, Linked, IInv, TypeOK
  <2>2. Dispatcher!TryAbort(t)
    BY <1>4, <2>1 DEF z_try_abort_timeout, loopVars, Dispatcher!TryAbort
  <2> QED
    BY <2>2 DEF Dispatcher!DispatchNext
<1>5. ASSUME NEW c \in Cpus, timer_core_announce(c)
      PROVE  \/ Dispatcher!DispatchNext
             \/ UNCHANGED Dispatcher!dispatchVars
  <2>1. CASE announcing_cpu # None
    BY <1>1, <1>5, <2>1 DEF timer_core_announce
  <2>2. CASE announcing_cpu = None
    <3>1. RunLoop(c, counter - last_tick)
      BY <1>5, <2>2 DEF timer_core_announce
    <3>2. CASE \E t \in Linked(expires) : Dispatcher!Fire(c, t)
      BY <2>2, <3>2 DEF Dispatcher!Announce, Dispatcher!DispatchNext
    <3>3. CASE Dispatcher!StopFiring
      BY <2>2, <3>3 DEF Dispatcher!StopFiring, Dispatcher!dispatchVars, IInv, IdleLoop
    <3> QED
      BY <3>1, <3>2, <3>3, RunLoopRefines
  <2> QED
    BY <2>1, <2>2
<1>6. ASSUME NEW c \in Cpus, HandlerReturn(c)
      PROVE  Dispatcher!DispatchNext
  <2>1. RunLoop(c, announce_remaining) /\ announcing_cpu = c /\ inflight_timeout # None
    BY <1>6 DEF HandlerReturn
  <2>2. Dispatcher!HandlerReturn(c)
    BY <2>1, RunLoopRefines DEF Dispatcher!HandlerReturn
  <2> QED
    BY <2>2 DEF Dispatcher!DispatchNext
<1>7. CASE HwTick \/ (\E c \in Cpus : sys_clock_tick_get(c)) \/ UNCHANGED vars
  BY <1>1, <1>7 DEF HwTick, sys_clock_tick_get, loopVars, vars
<1> QED
  BY <1>2, <1>3, <1>4, <1>5, <1>6, <1>7 DEF Next, Client

(***************************************************************************)
(* The clocked timeout code implements the dispatch protocol that k_timer, *)
(* work items and thread timeouts rely on.                                 *)
(***************************************************************************)
THEOREM TimeoutRefinesDispatch == Spec => ImplementsDispatch
<1>1. Init => Dispatcher!DispatchInit
  BY DEF Init, Dispatcher!DispatchInit, Linked
<1> QED
  BY <1>1, InvariantInit, InvariantStep, StepRefines, PTL
     DEF Spec, ImplementsDispatch, Dispatcher!DispatchSpec

-----------------------------------------------------------------------------
(***************************************************************************)
(* AlarmCovers on any number of CPUs.  Whoever reprograms outside an       *)
(* announce has just read the clock, so its own comparator is exactly on   *)
(* time; the end of an announce asks for "no ticks elapsed" on top of what *)
(* the driver last reported to another CPU, and is late by that much.      *)
(***************************************************************************)
CoverInv == IInv /\ AlarmCovers

\* What AlarmCovers asks of one comparator.
Covers(c) ==
    /\ armed[c] # Off
    /\ \/ armed[c] <= counter
       \/ /\ armed[c] <= last_tick + MaxWait + late
          /\ \A t \in Linked(expires) : armed[c] <= expires[t] + late

(***************************************************************************)
(* timer_core_arm() after next_timeout(): the deadline is anchored at what *)
(* the driver last reported, and the wait from there is none, or reaches   *)
(* neither past the announce range nor past a linked timeout.              *)
(***************************************************************************)
LEMMA ReprogramBounds ==
    ASSUME NEW c \in Cpus, NEW e \in [Timeouts -> Nat \cup {Inactive}],
           NEW now \in Nat, NEW el \in Nat, NEW anchor \in Nat,
           armed \in [Cpus -> Nat \cup {Off}],
           last_tick' = now, last_elapsed' = anchor,
           reprogram_next(c, e, now, el)
    PROVE  \E ticks \in Nat :
             /\ armed'[c] \in Nat
             /\ armed'[c] <= now + (anchor + ticks)
             /\ \/ ticks = 0
                \/ /\ el + ticks <= MaxWait
                   /\ \A t \in Linked(e) : e[t] \in Nat /\ now + (el + ticks) <= e[t]
<1>1. PICK next \in NextExpiry(e, now) : timer_core_arm(c, next_timeout(next, el))
  BY DEF reprogram_next
<1>2. /\ next \in Int
      /\ \A t \in Linked(e) : e[t] \in Nat /\ next <= e[t] - now
  <2>1. CASE Linked(e) = {}
    BY <2>1, TimeoutAssumption DEF NextExpiry
  <2>2. CASE Linked(e) # {}
    <3>1. PICK u \in Earliest(e) : next = e[u] - now
      BY <2>2 DEF NextExpiry
    <3>2. \A t \in Linked(e) : e[t] \in Nat
      BY DEF Linked, Inactive
    <3>3. u \in Linked(e) /\ \A t \in Linked(e) : e[u] <= e[t]
      BY DEF Earliest
    <3> QED
      BY <2>2, <3>1, <3>2, <3>3
  <2> QED
    BY <2>1, <2>2
<1>3. PICK ticks \in Nat : ticks = next_timeout(next, el)
  BY <1>2, NextTimeoutNat
<1>4. \/ ticks = 0
      \/ el + ticks <= MaxWait /\ el + ticks <= next
  BY <1>2, <1>3, TimeoutAssumption DEF next_timeout
<1>5. PICK span \in Nat : /\ span = IF anchor + ticks <= MaxSpan THEN anchor + ticks ELSE MaxSpan
                          /\ span <= anchor + ticks
  BY TimeoutAssumption
<1>6. armed'[c] = now + span
  BY <1>1, <1>3, <1>5 DEF timer_core_arm
<1>7. armed'[c] \in Nat /\ armed'[c] <= now + (anchor + ticks)
  BY <1>5, <1>6
<1>8. ASSUME el + ticks <= next, NEW t \in Linked(e)
      PROVE  e[t] \in Nat /\ now + (el + ticks) <= e[t]
  BY <1>2, <1>8
<1> QED
  BY <1>4, <1>7, <1>8

(***************************************************************************)
(* Linking a timeout that is not the first leaves a comparator early       *)
(* enough: some timeout linked before it is no later.                      *)
(***************************************************************************)
LEMMA LaterInsertCovers ==
    ASSUME IInv, NEW c \in Cpus, Covers(c), NEW t \in Timeouts, NEW dticks \in Nat,
           z_timeout_q_insert(t, dticks, FALSE),
           UNCHANGED <<counter, last_tick, armed, late>>
    PROVE  Covers(c)'
<1>1. PICK new \in Nat : new = curr_tick + dticks /\ expires' = [expires EXCEPT ![t] = new]
  <2>1. curr_tick + dticks \in Nat
    BY DEF IInv, TypeOK
  <2>2. expires' = [expires EXCEPT ![t] = curr_tick + dticks]
    BY DEF z_timeout_q_insert
  <2> QED
    BY <2>1, <2>2
<1>2. /\ Linked(expires') = Linked(expires) \cup {t}
      /\ t \notin Linked(expires)
      /\ expires'[t] = new
      /\ \A u \in Linked(expires) : expires'[u] = expires[u] /\ expires[u] \in Nat
  BY <1>1 DEF IInv, TypeOK, Linked, Inactive, z_timeout_q_insert, z_is_inactive_timeout
<1>3. armed[c] \in Nat /\ late \in Nat
  BY DEF Covers, IInv, TypeOK
<1>4. CASE armed[c] <= counter
  BY <1>3, <1>4 DEF Covers
<1>5. CASE /\ armed[c] <= last_tick + MaxWait + late
           /\ \A u \in Linked(expires) : armed[c] <= expires[u] + late
  <2>1. ASSUME ~(armed[c] <= new + late) PROVE FALSE
    <3>1. \A u \in Linked(expires) : new < expires[u]
      BY <1>2, <1>3, <1>5, <2>1
    <3>2. Earliest(expires') = {t}
      BY <1>2, <3>1 DEF Earliest
    <3> QED
      BY <3>2 DEF z_timeout_q_insert, FirstOf
  <2>2. \A u \in Linked(expires') : armed[c] <= expires'[u] + late
    BY <1>2, <1>5, <2>1
  <2> QED
    BY <1>3, <1>5, <2>2 DEF Covers
<1> QED
  BY <1>4, <1>5 DEF Covers

(***************************************************************************)
(* Reprogramming outside an announce: the deadline is counted from the     *)
(* clock just read, so the comparator covers without any slack.            *)
(***************************************************************************)
LEMMA ReadAndReprogramCovers ==
    ASSUME IInv, IInv', NEW c \in Cpus, announcing_cpu = None,
           sys_clock_elapsed_read(c),
           reprogram_next(c, expires', curr_tick, elapsed(c)),
           UNCHANGED <<counter, last_tick, late>>
    PROVE  Covers(c)'
<1>1. PICK el \in Nat : /\ el = elapsed(c) /\ last_elapsed' = el /\ last_tick + el = counter
                        /\ curr_tick = last_tick
  BY TimeoutAssumption DEF sys_clock_elapsed_read, elapsed, IInv, TypeOK, TickConsistency
<1>2. /\ expires' \in [Timeouts -> Nat \cup {Inactive}]
      /\ armed \in [Cpus -> Nat \cup {Off}]
      /\ last_tick \in Nat /\ counter \in Nat /\ late \in Nat
  BY DEF IInv, TypeOK
<1>3. PICK ticks \in Nat :
        /\ armed'[c] \in Nat
        /\ armed'[c] <= last_tick + (el + ticks)
        /\ \/ ticks = 0
           \/ /\ el + ticks <= MaxWait
              /\ \A t \in Linked(expires') :
                   expires'[t] \in Nat /\ last_tick + (el + ticks) <= expires'[t]
  BY <1>1, <1>2, ReprogramBounds
<1>4. CASE ticks = 0
  BY <1>1, <1>2, <1>3, <1>4 DEF Covers, Off
<1>5. CASE /\ el + ticks <= MaxWait
           /\ \A t \in Linked(expires') :
                expires'[t] \in Nat /\ last_tick + (el + ticks) <= expires'[t]
  <2>1. armed'[c] <= last_tick' + MaxWait + late'
    BY <1>2, <1>3, <1>5, TimeoutAssumption
  <2>2. \A t \in Linked(expires') : armed'[c] <= expires'[t] + late'
    BY <1>2, <1>3, <1>5
  <2> QED
    BY <1>3, <2>1, <2>2 DEF Covers, Off
<1> QED
  BY <1>3, <1>4, <1>5

(***************************************************************************)
(* The end of the announce loop programs the comparator from the tick just *)
(* announced plus what another CPU read from the driver meanwhile, and     *)
(* `late` records that much; inside the loop nothing is promised.          *)
(***************************************************************************)
LEMMA RunLoopCovers ==
    ASSUME IInv, NEW c \in Cpus, NEW remaining \in Nat, RunLoop(c, remaining),
           curr_tick + remaining = last_tick', last_elapsed' \in Nat
    PROVE  announcing_cpu' = None => Covers(c)'
<1>1. CASE \E t \in Timeouts : \E at, left : Dispatch(c, t, at, left)
  BY <1>1, TimeoutAssumption DEF Dispatch
<1>2. CASE /\ \A t \in Linked(expires) : expires[t] > curr_tick + remaining
           /\ EndAnnounce(c, curr_tick + remaining)
  <2>1. /\ expires' = expires /\ late' = last_elapsed'
        /\ reprogram_next(c, expires, curr_tick + remaining, 0)
    BY <1>2 DEF EndAnnounce
  <2>2. PICK now \in Nat, anchor \in Nat :
          now = curr_tick + remaining /\ anchor = last_elapsed'
    BY DEF IInv, TypeOK
  <2>3. /\ armed \in [Cpus -> Nat \cup {Off}]
        /\ expires \in [Timeouts -> Nat \cup {Inactive}]
    BY DEF IInv, TypeOK
  <2>4. PICK ticks \in Nat :
          /\ armed'[c] \in Nat
          /\ armed'[c] <= now + (anchor + ticks)
          /\ \/ ticks = 0
             \/ /\ 0 + ticks <= MaxWait
                /\ \A t \in Linked(expires) : expires[t] \in Nat /\ now + (0 + ticks) <= expires[t]
    BY <2>1, <2>2, <2>3, ReprogramBounds
  <2>5. \A t \in Linked(expires) : expires[t] \in Nat /\ now + ticks <= expires[t]
    <3>1. \A t \in Linked(expires) : expires[t] \in Nat /\ now < expires[t]
      BY <1>2, <2>2, <2>3 DEF Linked, Inactive
    <3> QED
      BY <2>2, <2>4, <3>1
  <2>6. armed'[c] <= last_tick' + MaxWait + late'
    BY <2>1, <2>2, <2>4, TimeoutAssumption
  <2>7. \A t \in Linked(expires') : armed'[c] <= expires'[t] + late'
    BY <2>1, <2>2, <2>4, <2>5
  <2> QED
    BY <2>4, <2>6, <2>7 DEF Covers, Off
<1> QED
  BY <1>1, <1>2 DEF RunLoop, Earliest, Linked

(***************************************************************************)
(* Every step of any CPU leaves some comparator early enough: its own when *)
(* it reprograms, the one that was when it does not.                       *)
(***************************************************************************)
LEMMA CoverStep == CoverInv /\ [Next]_vars => CoverInv'
<1> SUFFICES ASSUME CoverInv, [Next]_vars PROVE CoverInv'
  OBVIOUS
<1>1. IInv /\ IInv'
  BY InvariantStep DEF CoverInv
<1>2. announcing_cpu = None => \E c \in Cpus : Covers(c)
  BY DEF CoverInv, AlarmCovers, Covers
<1> DEFINE Kept == announcing_cpu' = None => \E c \in Cpus : Covers(c)'
<1> SUFFICES Kept
  BY <1>1 DEF CoverInv, AlarmCovers, Covers
<1>3. CASE HwTick
  <2>1. /\ UNCHANGED <<last_tick, armed, expires, announcing_cpu, late>>
        /\ counter' = counter + 1
    BY <1>3 DEF HwTick, loopVars
  <2>2. /\ armed \in [Cpus -> Nat \cup {Off}] /\ counter \in Nat
    BY <1>1 DEF IInv, TypeOK
  <2>3. ASSUME NEW c \in Cpus, Covers(c) PROVE Covers(c)'
    BY <2>1, <2>2, <2>3 DEF Covers, Off
  <2> QED
    BY <1>2, <2>1, <2>3
<1>4. ASSUME NEW d \in Cpus, NEW t \in Timeouts, NEW n \in Durations,
             z_add_timeout_relative(d, t, n)
      PROVE  Kept
  <2> DEFINE dticks == n + elapsed(d) + (IF announcing_cpu = d THEN 0 ELSE 1)
  <2>1. PICK first \in BOOLEAN :
          /\ z_timeout_q_insert(t, dticks, first)
          /\ sys_clock_elapsed_read(d)
          /\ UNCHANGED <<counter, last_tick, loopVars>>
          /\ IF first /\ announcing_cpu = None
             THEN reprogram_next(d, expires', curr_tick, elapsed(d))
             ELSE UNCHANGED armed
    BY <1>4 DEF z_add_timeout_relative
  <2>2. dticks \in Nat
    BY <1>1, ElapsedExact, TimeoutAssumption DEF IInv
  <2>3. UNCHANGED <<counter, last_tick, announcing_cpu, late>>
    BY <2>1 DEF loopVars
  <2> HIDE DEF dticks
  <2>4. CASE announcing_cpu = None /\ first
    BY <1>1, <2>1, <2>3, <2>4, ReadAndReprogramCovers
  <2>5. CASE announcing_cpu = None /\ first = FALSE
    BY <1>1, <1>2, <2>1, <2>2, <2>3, <2>5, LaterInsertCovers
  <2> QED
    BY <2>3, <2>4, <2>5
<1>5. ASSUME NEW d \in Cpus, NEW t \in Timeouts, NEW tick \in 1..LastExpiry,
             z_add_timeout_absolute(d, t, tick)
      PROVE  Kept
  <2> DEFINE dticks == IF tick - curr_tick > 1 THEN tick - curr_tick ELSE 1
  <2>1. PICK first \in BOOLEAN :
          /\ z_timeout_q_insert(t, dticks, first)
          /\ UNCHANGED <<counter, last_tick, loopVars>>
          /\ IF first /\ announcing_cpu = None
             THEN /\ sys_clock_elapsed_read(d)
                  /\ reprogram_next(d, expires', curr_tick, elapsed(d))
             ELSE UNCHANGED <<last_elapsed, armed>>
    BY <1>5 DEF z_add_timeout_absolute
  <2>2. dticks \in Nat
    BY <1>1, TimeoutAssumption DEF IInv, TypeOK
  <2>3. UNCHANGED <<counter, last_tick, announcing_cpu, late>>
    BY <2>1 DEF loopVars
  <2> HIDE DEF dticks
  <2>4. CASE announcing_cpu = None /\ first
    BY <1>1, <2>1, <2>3, <2>4, ReadAndReprogramCovers
  <2>5. CASE announcing_cpu = None /\ first = FALSE
    BY <1>1, <1>2, <2>1, <2>2, <2>3, <2>5, LaterInsertCovers
  <2> QED
    BY <2>3, <2>4, <2>5
<1>6. ASSUME NEW d \in Cpus, NEW t \in Timeouts, z_try_abort_timeout(d, t)
      PROVE  Kept
  <2>1. UNCHANGED <<counter, last_tick, announcing_cpu, late>>
    BY <1>6 DEF z_try_abort_timeout, loopVars
  <2>2. CASE UNCHANGED <<expires, armed>>
    BY <1>2, <2>1, <2>2 DEF Covers
  <2>3. CASE sys_clock_elapsed_read(d) /\ reprogram_next(d, expires', curr_tick, elapsed(d))
    BY <1>1, <2>1, <2>3, ReadAndReprogramCovers
  <2>4. CASE expires' = [expires EXCEPT ![t] = Inactive] /\ UNCHANGED armed
    <3>1. \A u \in Linked(expires') : u \in Linked(expires) /\ expires'[u] = expires[u]
      BY <1>1, <2>4 DEF IInv, TypeOK, Linked
    <3> QED
      BY <1>2, <2>1, <2>4, <3>1 DEF Covers
  <2> QED
    BY <1>6, <2>2, <2>3, <2>4 DEF z_try_abort_timeout
<1>7. ASSUME NEW d \in Cpus, sys_clock_tick_get(d)
      PROVE  Kept
  <2>1. UNCHANGED <<counter, last_tick, armed, announcing_cpu, expires, late>>
    BY <1>7 DEF sys_clock_tick_get, loopVars
  <2> QED
    BY <1>2, <2>1 DEF Covers
<1>8. ASSUME NEW d \in Cpus, timer_core_announce(d)
      PROVE  Kept
  <2>1. last_tick' = counter /\ last_elapsed' = 0
    BY <1>8 DEF timer_core_announce
  <2>2. CASE announcing_cpu # None
    BY <1>8, <2>2 DEF timer_core_announce
  <2>3. CASE announcing_cpu = None
    <3>1. RunLoop(d, counter - last_tick)
      BY <1>8, <2>3 DEF timer_core_announce
    <3>2. counter - last_tick \in Nat /\ curr_tick + (counter - last_tick) = counter
      BY <1>1, <2>3 DEF IInv, TypeOK, TickConsistency
    <3> QED
      BY <1>1, <2>1, <3>1, <3>2, RunLoopCovers
  <2> QED
    BY <2>2, <2>3
<1>9. ASSUME NEW d \in Cpus, HandlerReturn(d)
      PROVE  Kept
  <2>1. UNCHANGED <<last_tick, last_elapsed>> /\ RunLoop(d, announce_remaining)
    BY <1>9 DEF HandlerReturn
  <2> QED
    BY <1>1, <2>1, RunLoopCovers DEF IInv, TypeOK, TickConsistency
<1>10. CASE UNCHANGED vars
  BY <1>2, <1>10 DEF vars, Covers
<1> QED
  BY <1>3, <1>4, <1>5, <1>6, <1>7, <1>8, <1>9, <1>10 DEF Next, Client

(***************************************************************************)
(* Outside an announce some CPU's comparator is programmed no later than   *)
(* the earliest linked timeout and the range the driver can announce, up   *)
(* to the slack of the last announce: no add, abort or end of an announce  *)
(* on any CPU leaves the tickless kernel without the interrupt its next    *)
(* timeout needs.                                                          *)
(***************************************************************************)
THEOREM TimeoutAlarmCovers ==
    ASSUME Cpus # {}
    PROVE  Spec => []AlarmCovers
<1>1. Init => CoverInv
  <2> SUFFICES ASSUME Init PROVE CoverInv
    OBVIOUS
  <2>1. Linked(expires) = {}
    BY DEF Init, Linked
  <2>2. PICK c \in Cpus : armed[c] = 1
    BY DEF Init
  <2>3. last_tick = 0 /\ late = 0
    BY DEF Init
  <2>4. AlarmCovers
    BY <2>1, <2>2, <2>3, TimeoutAssumption DEF AlarmCovers, Off
  <2> QED
    BY <2>4, InvariantInit DEF CoverInv
<1>2. CoverInv => AlarmCovers
  BY DEF CoverInv
<1> QED
  BY <1>1, <1>2, CoverStep, PTL DEF Spec

-----------------------------------------------------------------------------
(***************************************************************************)
(* On one CPU nobody reads the clock during an announce, so the driver's   *)
(* last_elapsed is 0 when the loop ends and the slack of AlarmCovers never *)
(* appears.                                                                *)
(***************************************************************************)
ElapsedIdle == announcing_cpu # None => last_elapsed = 0

SoleInv == IInv /\ ElapsedIdle /\ late = 0

(***************************************************************************)
(* Every step of a one-CPU system keeps the slack at 0.                    *)
(***************************************************************************)
LEMMA SoleStep ==
    ASSUME NEW c \in Cpus, Cpus = {c}, SoleInv, [Next]_vars
    PROVE  SoleInv'
<1>1. IInv /\ IInv'
  BY InvariantStep DEF SoleInv
<1>2. announcing_cpu = None \/ announcing_cpu = c
  BY <1>1 DEF IInv, TypeOK
<1>3. (announcing_cpu # None => last_elapsed = 0) /\ late = 0
  BY DEF SoleInv, ElapsedIdle
<1> DEFINE Kept == /\ announcing_cpu' # None => last_elapsed' = 0
                   /\ late' = 0
<1> SUFFICES Kept
  BY <1>1 DEF SoleInv, ElapsedIdle
<1>4. ASSUME UNCHANGED <<announcing_cpu, late>>,
             sys_clock_elapsed_read(c) \/ UNCHANGED last_elapsed
      PROVE  Kept
  BY <1>2, <1>3, <1>4, TimeoutAssumption DEF sys_clock_elapsed_read
<1>5. ASSUME NEW remaining, RunLoop(c, remaining), last_elapsed' = 0
      PROVE  Kept
  BY <1>5 DEF RunLoop, Dispatch, EndAnnounce
<1>6. CASE HwTick \/ UNCHANGED vars
  BY <1>4, <1>6 DEF HwTick, vars, loopVars
<1>7. ASSUME NEW t \in Timeouts, NEW n \in Durations, z_add_timeout_relative(c, t, n)
      PROVE  Kept
  BY <1>4, <1>7 DEF z_add_timeout_relative, loopVars
<1>8. ASSUME NEW t \in Timeouts, NEW tick \in 1..LastExpiry, z_add_timeout_absolute(c, t, tick)
      PROVE  Kept
  BY <1>4, <1>8 DEF z_add_timeout_absolute, loopVars
<1>9. ASSUME NEW t \in Timeouts, z_try_abort_timeout(c, t)
      PROVE  Kept
  BY <1>4, <1>9 DEF z_try_abort_timeout, loopVars
<1>10. CASE sys_clock_tick_get(c)
  BY <1>4, <1>10 DEF sys_clock_tick_get, loopVars
<1>11. CASE timer_core_announce(c)
  <2>1. announcing_cpu = None /\ last_elapsed' = 0
    BY <1>2, <1>11 DEF timer_core_announce
  <2>2. RunLoop(c, counter - last_tick)
    BY <1>11, <2>1 DEF timer_core_announce
  <2> QED
    BY <1>5, <2>1, <2>2
<1>12. CASE HandlerReturn(c)
  <2>1. announcing_cpu = c /\ UNCHANGED last_elapsed /\ RunLoop(c, announce_remaining)
    BY <1>12 DEF HandlerReturn
  <2>2. last_elapsed = 0
    BY <1>3, <2>1, TimeoutAssumption
  <2> QED
    BY <1>5, <2>1, <2>2
<1> QED
  BY <1>6, <1>7, <1>8, <1>9, <1>10, <1>11, <1>12 DEF Next, Client

(***************************************************************************)
(* On one CPU the comparator is never programmed after the earliest linked *)
(* timeout, nor beyond the range the driver can announce.                  *)
(***************************************************************************)
THEOREM TimeoutAlarmExact ==
    ASSUME NEW c \in Cpus, Cpus = {c}
    PROVE  Spec => [](AlarmCovers /\ late = 0)
<1>1. Init => SoleInv
  BY InvariantInit DEF Init, SoleInv, ElapsedIdle
<1>2. SoleInv /\ [Next]_vars => SoleInv'
  BY SoleStep
<1>3. SoleInv => late = 0
  BY DEF SoleInv
<1>4. Spec => [](late = 0)
  BY <1>1, <1>2, <1>3, PTL DEF Spec
<1>5. Spec => []AlarmCovers
  BY TimeoutAlarmCovers
<1> QED
  BY <1>4, <1>5, PTL

=============================================================================
