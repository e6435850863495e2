----------------------------- MODULE Timeout -----------------------------
(***************************************************************************)
(* The kernel's timeout subsystem (kernel/timeout.c) on an SMP system,     *)
(* with the generic tickless timer driver under it                         *)
(* (drivers/timer/system_timer_generic.h) on one ordered comparator per    *)
(* CPU (drivers/timer/arm_arch_timer.c).  Every action is one stretch of   *)
(* code under timeout_lock: the lock is dropped only around the handlers   *)
(* fired by sys_clock_announce_locked(), so the loop runs from one handler *)
(* to the next in one step.                                                *)
(*                                                                         *)
(* The queue is modelled by its contract, the absolute expiry tick of each *)
(* linked timeout; the backends (kernel/timeout_list.h and its siblings)   *)
(* implement it.  Time is counted in whole ticks of the hardware counter.  *)
(***************************************************************************)
EXTENDS Integers

CONSTANTS Cpus,       \* CPUs of the SMP system
          Timeouts,   \* struct _timeout objects
          None,       \* NULL pointer, and "no CPU" (-1)
          MaxWait,    \* SYS_CLOCK_MAX_WAIT
          MaxSpan,    \* TIMER_CORE_MAX_SPAN_TICKS: the comparator's reach
          Durations,  \* relative timeouts asked for, in ticks
          LastExpiry, \* bound: no timeout is asked to expire after this tick
          LastTick    \* bound: the hardware counter stops at this tick

ASSUME TimeoutAssumption ==
    /\ None \notin Cpus \cup Timeouts
    /\ MaxWait \in Nat \ {0}
    /\ MaxSpan \in Nat \ {0}
    /\ Durations \subseteq Nat
    /\ LastExpiry \in Nat
    /\ LastTick \in Nat

VARIABLES
  \* timer driver
  counter,            \* hardware counter, in ticks: the real time
  last_tick,          \* timer_core_last_tick: counter at the last announce
  last_elapsed,       \* timer_core_last_elapsed: last sys_clock_elapsed()
  armed,              \* tick at which each CPU's comparator interrupts, or Off
  \* timeout.c
  curr_tick, announce_remaining, announcing_cpu, inflight_timeout, superseded,
  expires,            \* queue: absolute expiry tick, Inactive if not linked
  \* history
  notBefore,          \* real tick before which a linked timeout must not fire
  late                \* ticks another CPU had read at the end of the last announce

driverVars == <<counter, last_tick, last_elapsed, armed>>
loopVars == <<curr_tick, announce_remaining, announcing_cpu, inflight_timeout, late>>
vars == <<counter, last_tick, last_elapsed, armed, curr_tick,
          announce_remaining, announcing_cpu, inflight_timeout, superseded,
          expires, notBefore, late>>

Inactive == -1  \* not linked in the queue
Off == -1       \* comparator interrupt masked

z_is_inactive_timeout(t) == expires[t] = Inactive

TypeOK ==
    /\ counter \in Nat /\ last_tick \in Nat
    /\ last_elapsed \in Nat /\ armed \in [Cpus -> Nat \cup {Off}]
    /\ curr_tick \in Nat /\ announce_remaining \in Nat
    /\ announcing_cpu \in Cpus \cup {None}
    /\ inflight_timeout \in Timeouts \cup {None}
    /\ superseded \in BOOLEAN
    /\ expires \in [Timeouts -> Nat \cup {Inactive}]
    /\ notBefore \in [Timeouts -> Nat] /\ late \in Nat

Init ==
    /\ counter = 0 /\ last_tick = 0 /\ last_elapsed = 0
    /\ armed = [c \in Cpus |-> 1]
    /\ curr_tick = 0 /\ announce_remaining = 0
    /\ announcing_cpu = None /\ inflight_timeout = None /\ superseded = FALSE
    /\ expires = [t \in Timeouts |-> Inactive]
    /\ notBefore = [t \in Timeouts |-> 0] /\ late = 0

-----------------------------------------------------------------------------
(* The queue contract: which timeout is earliest, in a queue e.            *)

Linked(e) == {t \in Timeouts : e[t] # Inactive}

Earliest(e) == {t \in Linked(e) : \A u \in Linked(e) : e[t] <= e[u]}

(***************************************************************************)
(* z_timeout_q_next_expiry() at tick now: ticks to the earliest timeout.   *)
(* An empty queue (K_TICKS_FOREVER) is treated by next_timeout() like a    *)
(* deadline at the cap.                                                    *)
(***************************************************************************)
NextExpiry(e, now) ==
    IF Linked(e) = {} THEN {MaxWait} ELSE {e[t] - now : t \in Earliest(e)}

(***************************************************************************)
(* Whether a backend reports t as the first of the queue e.  Between       *)
(* timeouts of the same tick the backends differ, so a tie may go either   *)
(* way.                                                                    *)
(***************************************************************************)
FirstOf(e, t, first) ==
    IF first THEN t \in Earliest(e) ELSE Earliest(e) # {t}

-----------------------------------------------------------------------------
(* Clock arithmetic.                                                       *)

\* Mutant: forgets the ticks announced but not yet processed.
elapsed_no_residual(c) ==
    IF announcing_cpu = c THEN 0 ELSE counter - last_tick

elapsed(c) ==
    IF announcing_cpu = c THEN 0
    ELSE (counter - last_tick) + announce_remaining

\* The driver remembers what the last sys_clock_elapsed() returned.
sys_clock_elapsed_read(c) ==
    last_elapsed' = IF announcing_cpu = c THEN last_elapsed
                    ELSE counter - last_tick

\* Mutant: counts the wait from the last announce instead of from now.
next_timeout_from_announce(next, ticks_elapsed) ==
    IF next >= MaxWait THEN MaxWait ELSE next

next_timeout(next, ticks_elapsed) ==
    IF ticks_elapsed >= MaxWait THEN 0
    ELSE IF next >= MaxWait THEN MaxWait - ticks_elapsed
    ELSE IF next > ticks_elapsed THEN next - ticks_elapsed ELSE 0

\* timer_core_arm() on CPU c: the deadline is anchored at the last announce
\* plus the elapsed ticks the driver last reported to any CPU, and clamped.
timer_core_arm(c, ticks) ==
    armed' = [armed EXCEPT ![c] = last_tick' + (IF last_elapsed' + ticks <= MaxSpan
                                                THEN last_elapsed' + ticks ELSE MaxSpan)]

reprogram_next(c, e, now, ticks_elapsed) ==
    \E next \in NextExpiry(e, now) :
        timer_core_arm(c, next_timeout(next, ticks_elapsed))

-----------------------------------------------------------------------------
(* Operations called from threads, ISRs and timeout handlers.              *)

(***************************************************************************)
(* z_timeout_q_insert(): link t to expire dticks after curr_tick; first    *)
(* says whether it is now the earliest.                                    *)
(***************************************************************************)
z_timeout_q_insert(t, dticks, first) ==
    /\ z_is_inactive_timeout(t)
    /\ curr_tick + dticks <= LastExpiry
    /\ expires' = [expires EXCEPT ![t] = curr_tick + dticks]
    /\ FirstOf(expires', t, first)

(***************************************************************************)
(* z_add_timeout() with a relative timeout.  Only the announcing CPU is at *)
(* a tick edge; everybody else rounds up by one tick.                      *)
(***************************************************************************)
z_add_timeout_relative(c, t, ticks) ==
    \E first \in BOOLEAN :
      /\ z_timeout_q_insert(t,
             ticks + elapsed(c) + (IF announcing_cpu = c THEN 0 ELSE 1), first)
      /\ sys_clock_elapsed_read(c)
      /\ UNCHANGED <<counter, last_tick, loopVars, superseded>>
      /\ IF first /\ announcing_cpu = None
         THEN reprogram_next(c, expires', curr_tick, elapsed(c))
         ELSE UNCHANGED armed
      /\ notBefore' = [notBefore EXCEPT ![t] =
             IF announcing_cpu = c THEN curr_tick + ticks ELSE counter + ticks + 1]

\* Mutant: max(0, dticks), which links a timeout already due.
z_add_timeout_absolute_due(c, t, tick) ==
    \E first \in BOOLEAN :
      /\ z_timeout_q_insert(t, IF tick > curr_tick THEN tick - curr_tick ELSE 0, first)
      /\ sys_clock_elapsed_read(c)
      /\ UNCHANGED <<counter, last_tick, loopVars, superseded, armed>>
      /\ notBefore' = [notBefore EXCEPT ![t] = tick]

(***************************************************************************)
(* z_add_timeout() with an absolute timeout, which reads the clock only    *)
(* when it has to program the driver.                                      *)
(***************************************************************************)
z_add_timeout_absolute(c, t, tick) ==
    \E first \in BOOLEAN :
      /\ z_timeout_q_insert(t,
             IF tick - curr_tick > 1 THEN tick - curr_tick ELSE 1, first)
      /\ UNCHANGED <<counter, last_tick, loopVars, superseded>>
      /\ IF first /\ announcing_cpu = None
         THEN /\ sys_clock_elapsed_read(c)
              /\ reprogram_next(c, expires', curr_tick, elapsed(c))
         ELSE UNCHANGED <<last_elapsed, armed>>
      /\ notBefore' = [notBefore EXCEPT ![t] = tick]

(***************************************************************************)
(* z_try_abort_timeout() on CPU c.  Removing the first timeout reprograms  *)
(* the driver, even while another CPU is announcing.                       *)
(***************************************************************************)
z_try_abort_timeout(c, t) ==
    /\ UNCHANGED <<counter, last_tick, loopVars>>
    /\ notBefore' = [notBefore EXCEPT ![t] = 0]
    /\ superseded' = (superseded \/ inflight_timeout = t)
    /\ IF z_is_inactive_timeout(t)
       THEN UNCHANGED <<expires, last_elapsed, armed>>
       ELSE /\ expires' = [expires EXCEPT ![t] = Inactive]
            /\ \E was_first \in BOOLEAN :
                 /\ FirstOf(expires, t, was_first)
                 /\ IF was_first
                    THEN /\ sys_clock_elapsed_read(c)
                         /\ reprogram_next(c, expires', curr_tick, elapsed(c))
                    ELSE UNCHANGED <<last_elapsed, armed>>

(***************************************************************************)
(* sys_clock_tick_get(), z_timeout_remaining(), z_get_next_timeout_expiry: *)
(* readers of the clock.  They leave a trace in the driver.                *)
(***************************************************************************)
sys_clock_tick_get(c) ==
    /\ announcing_cpu # c
    /\ sys_clock_elapsed_read(c)
    /\ UNCHANGED <<counter, last_tick, armed, loopVars, superseded, expires, notBefore>>

-----------------------------------------------------------------------------
(* The announce path.                                                      *)

HwTick ==
    /\ counter < LastTick
    /\ counter' = counter + 1
    /\ UNCHANGED <<last_tick, last_elapsed, armed, loopVars, superseded, expires, notBefore>>

\* Mutant: the superseded mark of the previous handler is left behind.
DispatchKeepsMark(c, t, at, remaining) ==
    /\ curr_tick' = at
    /\ announce_remaining' = remaining
    /\ announcing_cpu' = c
    /\ inflight_timeout' = t
    /\ expires' = [expires EXCEPT ![t] = Inactive]
    /\ armed' = [armed EXCEPT ![c] = Off]
    /\ UNCHANGED superseded
    /\ notBefore' = [notBefore EXCEPT ![t] = 0] /\ late' = 0

(***************************************************************************)
(* Pop t, due at tick `at`, and drop the lock around its handler.          *)
(***************************************************************************)
Dispatch(c, t, at, remaining) ==
    /\ curr_tick' = at
    /\ announce_remaining' = remaining
    /\ announcing_cpu' = c
    /\ inflight_timeout' = t
    /\ superseded' = FALSE
    /\ expires' = [expires EXCEPT ![t] = Inactive]
    /\ armed' = [armed EXCEPT ![c] = Off]
    /\ notBefore' = [notBefore EXCEPT ![t] = 0] /\ late' = 0

\* Mutant: the end of the announce does not program the driver.
EndAnnounceNoRearm(c, at) ==
    /\ curr_tick' = at
    /\ announce_remaining' = 0
    /\ announcing_cpu' = None
    /\ inflight_timeout' = None
    /\ superseded' = FALSE
    /\ armed' = [armed EXCEPT ![c] = Off]
    /\ UNCHANGED <<expires, notBefore, late>>

\* Leave the loop at tick `at` and program this CPU's next announce.
EndAnnounce(c, at) ==
    /\ curr_tick' = at
    /\ announce_remaining' = 0
    /\ announcing_cpu' = None
    /\ inflight_timeout' = None
    /\ superseded' = FALSE
    /\ UNCHANGED <<expires, notBefore>>
    /\ reprogram_next(c, expires, at, 0)
    /\ late' = last_elapsed'

\* Mutant: the gap to the next timeout is not clamped to the announce window.
RunLoopNoClamp(c, remaining) ==
    \/ \E t \in Earliest(expires) :
         Dispatch(c, t, expires[t], remaining - (expires[t] - curr_tick))
    \/ Linked(expires) = {} /\ EndAnnounce(c, curr_tick + remaining)

(***************************************************************************)
(* The loop of sys_clock_announce_locked() on CPU c with `remaining` ticks *)
(* to process, up to the next handler or to the end.                       *)
(***************************************************************************)
RunLoop(c, remaining) ==
    \/ \E t \in Earliest(expires) :
         /\ expires[t] <= curr_tick + remaining
         /\ Dispatch(c, t, expires[t], remaining - (expires[t] - curr_tick))
    \/ /\ \A t \in Linked(expires) : expires[t] > curr_tick + remaining
       /\ EndAnnounce(c, curr_tick + remaining)

\* Mutant: a folded announce replaces the ticks left instead of adding to them.
timer_core_announce_overwrites(c) ==
    /\ armed[c] # Off /\ counter >= armed[c]
    /\ c # announcing_cpu
    /\ last_tick' = counter
    /\ last_elapsed' = 0
    /\ IF announcing_cpu # None
       THEN /\ announce_remaining' = counter - last_tick
            /\ armed' = [armed EXCEPT ![c] = Off]
            /\ UNCHANGED <<curr_tick, announcing_cpu, inflight_timeout, superseded,
                           expires, notBefore, late>>
       ELSE RunLoop(c, counter - last_tick)
    /\ UNCHANGED counter

(***************************************************************************)
(* The timer interrupt on CPU c: the comparator is masked until it is      *)
(* rearmed; timer_core_announce() moves the driver's baseline and          *)
(* announces the elapsed ticks, which are folded into the announce in      *)
(* progress when another CPU is in the loop.                               *)
(***************************************************************************)
timer_core_announce(c) ==
    /\ armed[c] # Off /\ counter >= armed[c]
    /\ c # announcing_cpu
    /\ last_tick' = counter
    /\ last_elapsed' = 0
    /\ IF announcing_cpu # None
       THEN /\ announce_remaining' = announce_remaining + (counter - last_tick)
            /\ armed' = [armed EXCEPT ![c] = Off]
            /\ UNCHANGED <<curr_tick, announcing_cpu, inflight_timeout, superseded,
                           expires, notBefore, late>>
       ELSE RunLoop(c, counter - last_tick)
    /\ UNCHANGED counter

(***************************************************************************)
(* The handler in flight returns and the loop goes on.                     *)
(***************************************************************************)
HandlerReturn(c) ==
    /\ announcing_cpu = c
    /\ inflight_timeout # None
    /\ UNCHANGED <<counter, last_tick, last_elapsed>>
    /\ RunLoop(c, announce_remaining)

-----------------------------------------------------------------------------
Client(c) ==
    \/ \E t \in Timeouts, n \in Durations : z_add_timeout_relative(c, t, n)
    \/ \E t \in Timeouts, tick \in 1..LastExpiry : z_add_timeout_absolute(c, t, tick)
    \/ \E t \in Timeouts : z_try_abort_timeout(c, t)
    \/ sys_clock_tick_get(c)

Next ==
    \/ HwTick
    \/ \E c \in Cpus : Client(c) \/ timer_core_announce(c) \/ HandlerReturn(c)

Spec == Init /\ [][Next]_vars

(***************************************************************************)
(* The counter runs, a pending timer interrupt is taken by some CPU, and   *)
(* timeout handlers return.                                                *)
(***************************************************************************)
Fairness ==
    /\ WF_vars(HwTick)
    /\ WF_vars(\E c \in Cpus : timer_core_announce(c))
    /\ WF_vars(\E c \in Cpus : HandlerReturn(c))

FairSpec == Spec /\ Fairness

-----------------------------------------------------------------------------
(* Properties.                                                             *)

(***************************************************************************)
(* What elapsed() relies on: the ticks the driver has announced are the    *)
(* ticks processed plus the ticks left to process, also while CPUs fold    *)
(* their announces into the one in progress.  sys_clock_tick_get() on a    *)
(* CPU that is not announcing is then exactly the real time.               *)
(***************************************************************************)
TickConsistency ==
    /\ curr_tick + announce_remaining = last_tick
    /\ last_tick <= counter
    /\ announcing_cpu = None => announce_remaining = 0

(***************************************************************************)
(* No linked timeout is ever left behind curr_tick: outside an announce    *)
(* every one of them is still ahead of the ticks already processed.        *)
(***************************************************************************)
NotOverdue ==
    \A t \in Linked(expires) :
        /\ expires[t] >= curr_tick
        /\ announcing_cpu = None => expires[t] > curr_tick

\* The announcing CPU starts the handler of t in this step.
FiresInStep(t) ==
    /\ ~z_is_inactive_timeout(t)
    /\ z_is_inactive_timeout(t)'
    /\ inflight_timeout' = t /\ ~superseded'

(***************************************************************************)
(* z_add_timeout() guarantees "at least N ticks": a handler never starts   *)
(* before the real time the caller asked for, whichever CPU armed it and   *)
(* however many announces were folded in between.                          *)
(***************************************************************************)
NeverEarly ==
    [][\A t \in Timeouts : FiresInStep(t) => counter >= notBefore[t]]_vars

(***************************************************************************)
(* The tickless kernel keeps one CPU programmed no later than the earliest *)
(* timeout and the SYS_CLOCK_MAX_WAIT announce range, outside an announce  *)
(* (whose end reprograms): "one tick announcement should occur within one  *)
(* tick BEFORE the specified expiration".  The only slack is that of the   *)
(* end of an announce, which programs `no ticks elapsed` on top of what    *)
(* another CPU read meanwhile; on one CPU there is none.                   *)
(***************************************************************************)
AlarmCovers ==
    announcing_cpu = None =>
      \E c \in Cpus :
         /\ armed[c] # Off
         /\ \/ armed[c] <= counter
            \/ /\ armed[c] <= last_tick + MaxWait + late
               /\ \A t \in Linked(expires) : armed[c] <= expires[t] + late

\* A handler links a timeout at the very tick that is being processed.
EdgeAdd == \E t \in Timeouts : z_is_inactive_timeout(t) /\ expires'[t] = curr_tick

(***************************************************************************)
(* A linked timeout fires or is aborted, also when CPUs fold announces     *)
(* into one another: no reprogramming of the driver loses the interrupt it *)
(* needs.  Handlers that link zero-tick timeouts without end hold the      *)
(* announce at its tick.                                                   *)
(***************************************************************************)
EventuallyFires ==
    \A t \in Timeouts :
        \/ t \in Linked(expires) ~> t \notin Linked(expires)
        \/ []<><<EdgeAdd>>_vars

(***************************************************************************)
(* The clocked timeout code implements the dispatch protocol its clients   *)
(* are built on.                                                           *)
(***************************************************************************)
Dispatcher == INSTANCE TimeoutDispatch WITH active <- Linked(expires)

ImplementsDispatch == Dispatcher!DispatchSpec

=============================================================================
