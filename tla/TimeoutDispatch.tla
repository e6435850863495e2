------------------------- MODULE TimeoutDispatch -------------------------
(***************************************************************************)
(* What kernel/timeout.c promises its clients (k_timer, delayable work,    *)
(* thread timeouts), with the clock left out: a timeout is active or not,  *)
(* one CPU at a time runs the handlers of popped timeouts, and an abort    *)
(* that comes while a handler is in flight marks it superseded.  Timeout   *)
(* refines this specification; the clients' modules are built on it.       *)
(***************************************************************************)
CONSTANTS Cpus,      \* CPUs of the SMP system
          Timeouts,  \* struct _timeout objects
          None       \* NULL pointer, and "no CPU" (-1)

ASSUME DispatchAssumption == None \notin Cpus \cup Timeouts

VARIABLES active,            \* timeouts linked in the queue
          announcing_cpu,    \* CPU in the firing loop, or None
          inflight_timeout,  \* timeout whose handler is being dispatched
          superseded         \* low bit of inflight_timeout

dispatchVars == <<active, announcing_cpu, inflight_timeout, superseded>>

DispatchTypeOK ==
    /\ active \subseteq Timeouts
    /\ announcing_cpu \in Cpus \cup {None}
    /\ inflight_timeout \in Timeouts \cup {None}
    /\ superseded \in BOOLEAN

DispatchInit ==
    /\ active = {}
    /\ announcing_cpu = None
    /\ inflight_timeout = None
    /\ superseded = FALSE

(***************************************************************************)
(* z_add_timeout(): the timeout must be inactive.                          *)
(***************************************************************************)
AddTimeout(t) ==
    /\ t \notin active
    /\ active' = active \cup {t}
    /\ UNCHANGED <<announcing_cpu, inflight_timeout, superseded>>

(***************************************************************************)
(* z_try_abort_timeout() called on CPU c: its return value and its effect. *)
(***************************************************************************)
AbortResult(c, t) ==
    IF t \in active THEN "removed"
    ELSE IF inflight_timeout = t /\ announcing_cpu # c THEN "EAGAIN"
    ELSE "EINVAL"

TryAbort(t) ==
    /\ active' = active \ {t}
    /\ superseded' = (superseded \/ inflight_timeout = t)
    /\ UNCHANGED <<announcing_cpu, inflight_timeout>>

(***************************************************************************)
(* The firing loop of sys_clock_announce_locked(): pop one timeout and     *)
(* drop the lock around its handler, or leave the loop.                    *)
(***************************************************************************)
Fire(c, t) ==
    /\ t \in active
    /\ active' = active \ {t}
    /\ announcing_cpu' = c
    /\ inflight_timeout' = t
    /\ superseded' = FALSE

StopFiring ==
    /\ announcing_cpu' = None
    /\ inflight_timeout' = None
    /\ superseded' = FALSE
    /\ UNCHANGED active

Announce(c) ==
    /\ announcing_cpu = None
    /\ \E t \in active : Fire(c, t)

HandlerReturn(c) ==
    /\ announcing_cpu = c
    /\ inflight_timeout # None
    /\ StopFiring \/ \E t \in active : Fire(c, t)

DispatchNext ==
    \/ \E t \in Timeouts : AddTimeout(t) \/ TryAbort(t)
    \/ \E c \in Cpus : Announce(c) \/ HandlerReturn(c)

DispatchSpec == DispatchInit /\ [][DispatchNext]_dispatchVars

=============================================================================
