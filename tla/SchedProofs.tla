---------------------------- MODULE SchedProofs ----------------------------
(***************************************************************************)
(* The inductive invariant of Sched, for any number of CPUs, threads and   *)
(* objects, and the lemmas by which the modules of the kernel objects      *)
(* inherit it: every step of the scheduler, and every way in which an      *)
(* object pends, wakes and resumes a thread, preserves it.                 *)
(***************************************************************************)
EXTENDS Sched, TLAPS

OnCpu(t) == \E c \in Cpus : current[c] = t

AsleepOrDead(t) == thread_state[t] \cap {"pending", "sleeping", "dead"} # {}

\* The dispatch loop is in a handler exactly when a timeout is in flight.
HandlerPhase ==
    /\ handler # "idle" <=> inflight_timeout # None
    /\ announcing_cpu # None <=> inflight_timeout # None

(***************************************************************************)
(* What is true of a thread on a CPU: it waits for nothing, no timed wait  *)
(* of it is open, and if it is dead it is aborting itself.                 *)
(***************************************************************************)
Running(t) ==
    OnCpu(t) =>
        /\ thread_state[t] \cap {"pending", "sleeping", "suspended", "queued"} = {}
        /\ t \notin timed
        /\ "dead" \in thread_state[t] => call[t] = "retry" /\ target[t] = t

(***************************************************************************)
(* A thread is asleep or dead as long as its timeout is linked, or in      *)
(* flight and not superseded: this is why the handler never makes a thread *)
(* ready that runs already.                                                *)
(***************************************************************************)
Armed(t) ==
    /\ t \in active => AsleepOrDead(t)
    /\ handler = "entered" /\ inflight_timeout = t /\ ~superseded =>
           t \notin active /\ AsleepOrDead(t)

StaleMarked(t) ==
    stale /\ handler = "entered" /\ inflight_timeout = t =>
        superseded \/ "dead" \in thread_state[t]

\* One wait at a time, not for oneself, and a flagged thread is still on its CPU or dead.
FlagsSane(t) ==
    /\ pended_on[t] \notin {join_queue(t), halt_queue(t)}
    /\ ~({"pending", "sleeping"} \subseteq thread_state[t])
    /\ "aborting" \in thread_state[t] => OnCpu(t) \/ "dead" \in thread_state[t]
    /\ t \in aborted => "dead" \in thread_state[t]
    /\ call[t] \in {"halt", "retry"} => target[t] \in Threads
    /\ call[t] = "retry" => "dead" \in thread_state[target[t]]

\* The properties of Sched, for one thread.
Good(t) ==
    /\ \A c, d \in Cpus : current[c] = t /\ current[d] = t => c = d
    /\ "queued" \in thread_state[t] => z_is_thread_ready(thread_state[t])
    /\ z_is_thread_ready(thread_state[t]) => "queued" \in thread_state[t] \/ OnCpu(t)
    /\ "pending" \in thread_state[t] <=> pended_on[t] # None
    /\ t \in timed /\ Waiting(t) => TimeoutOnItsWay(t) \/ t \in robbed
    /\ t \in aborted => ~TimeoutOnItsWay(t)

ThreadInv(t) == Running(t) /\ Armed(t) /\ StaleMarked(t) /\ FlagsSane(t) /\ Good(t)

SchedInv ==
    /\ SchedTypeOK
    /\ HandlerPhase
    /\ \A t \in Threads : ThreadInv(t)
    /\ HaltWaitersReleased

(***************************************************************************)
(* The inductive invariant implies the properties of Sched.                *)
(***************************************************************************)
LEMMA InvImplies ==
    SchedInv => RunsOnce /\ NeverForgotten /\ TimedWaitArmed
  BY DEF SchedInv, SchedTypeOK, ThreadInv, Good, Running, OnCpu, RunsOnce, NeverForgotten,
         TimedWaitArmed

(***************************************************************************)
(* A thread that is woken is made ready unless it is suspended, sleeping   *)
(* or dead.                                                                *)
(***************************************************************************)
LEMMA ReadyEffect ==
    ASSUME NEW flags \in SUBSET Flags
    PROVE  /\ ready_thread(flags) \in SUBSET Flags
           /\ \A f : f # "queued" => (f \in ready_thread(flags) <=> f \in flags)
           /\ "queued" \in ready_thread(flags) <=> "queued" \in flags \/ z_is_thread_ready(flags)
           /\ z_is_thread_ready(ready_thread(flags)) <=> z_is_thread_ready(flags)
           /\ z_is_thread_ready(flags) <=>
                /\ "pending" \notin flags /\ "sleeping" \notin flags
                /\ "dead" \notin flags /\ "suspended" \notin flags
  BY DEF ready_thread, z_is_thread_ready, Flags

\* None, the CPU without a thread, is not a thread.
LEMMA NoThreadNone == None \notin Threads
  BY DispatchAssumption, SchedAssumption

(***************************************************************************)
(* The queues on which threads wait for one another are neither None nor   *)
(* the wait queue of an object.                                            *)
(***************************************************************************)
LEMMA QueueNames ==
    ASSUME NEW t \in Threads
    PROVE  /\ join_queue(t) # None /\ halt_queue(t) # None
           /\ join_queue(t) \notin Objects /\ halt_queue(t) \notin Objects
           /\ join_queue(t) \in {"join", "halt"} \X Threads
           /\ halt_queue(t) \in {"join", "halt"} \X Threads
  BY SchedAssumption DEF join_queue, halt_queue

(***************************************************************************)
(* Most threads of a step are untouched, or woken from a wait queue.       *)
(***************************************************************************)
InHandler(t) == inflight_timeout = t /\ handler = "entered"

DeadStays == \A v \in Threads : "dead" \in thread_state[v] => "dead" \in thread_state'[v]

Around(t) ==
    /\ \A d \in Cpus : current'[d] = t <=> current[d] = t
    /\ InHandler(t)' <=> InHandler(t)
    /\ t \in timed' <=> t \in timed
    /\ t \in robbed => t \in robbed'
    /\ t \in aborted' <=> t \in aborted
    /\ call'[t] = call[t] /\ target'[t] = target[t]

Untouched(t) ==
    /\ Around(t)
    /\ thread_state'[t] = thread_state[t] /\ pended_on'[t] = pended_on[t]
    /\ t \in active' <=> t \in active
    /\ InHandler(t) => (superseded' <=> superseded) /\ (stale' => stale)

Woken(t) ==
    /\ Around(t)
    /\ pended_on[t] # None /\ pended_on'[t] = None
    /\ thread_state'[t] = ready_thread(thread_state[t] \ {"pending"})
    /\ t \notin active'
    /\ InHandler(t) => superseded'

(***************************************************************************)
(* A step that changes nothing about a thread preserves its part of the    *)
(* invariant, as long as no dead thread comes back.                        *)
(***************************************************************************)
LEMMA UntouchedKeepsInv ==
    ASSUME SchedInv, DeadStays, NEW t \in Threads, Untouched(t)
    PROVE  ThreadInv(t)'
<1>1. OnCpu(t)' <=> OnCpu(t)
  BY DEF OnCpu, Untouched, Around
<1>2. Running(t)' /\ Armed(t)' /\ StaleMarked(t)'
  BY <1>1 DEF Running, Armed, StaleMarked, AsleepOrDead, SchedInv, ThreadInv, Untouched, Around,
              InHandler
<1>3. FlagsSane(t)'
  BY <1>1 DEF FlagsSane, SchedInv, ThreadInv, Untouched, Around, DeadStays
<1>4. Good(t)'
  BY <1>1 DEF Good, Waiting, TimeoutOnItsWay, SchedInv, ThreadInv, Untouched, Around, InHandler,
              z_is_thread_ready
<1> QED
  BY <1>2, <1>3, <1>4 DEF ThreadInv

(***************************************************************************)
(* A step that wakes a thread from its wait queue preserves the thread's   *)
(* part of the invariant.                                                  *)
(***************************************************************************)
LEMMA WokenKeepsInv ==
    ASSUME SchedInv, DeadStays, NEW t \in Threads, Woken(t)
    PROVE  ThreadInv(t)'
<1>1. "pending" \in thread_state[t] /\ ~OnCpu(t)
  BY DEF SchedInv, ThreadInv, Good, Running, Woken
<1>2. ~OnCpu(t)'
  BY <1>1 DEF OnCpu, Woken, Around
<1>3. thread_state[t] \in SUBSET Flags /\ thread_state[t] \ {"pending"} \in SUBSET Flags
  BY DEF SchedInv, SchedTypeOK
<1>4. /\ \A f : f # "queued" /\ f # "pending" => (f \in thread_state'[t] <=> f \in thread_state[t])
      /\ "pending" \notin thread_state'[t]
      /\ "queued" \in thread_state'[t] <=>
            "queued" \in thread_state[t] \/ z_is_thread_ready(thread_state'[t])
  BY <1>3, ReadyEffect DEF Woken
<1>5. "queued" \notin thread_state[t] /\ "sleeping" \notin thread_state[t]
  BY <1>1 DEF SchedInv, ThreadInv, Good, FlagsSane, z_is_thread_ready
<1>6. Running(t)' /\ Armed(t)' /\ StaleMarked(t)'
  BY <1>2, <1>4 DEF Running, Armed, StaleMarked, Woken, Around, InHandler
<1>7. FlagsSane(t)'
  BY <1>1, <1>2, <1>4, QueueNames DEF FlagsSane, SchedInv, ThreadInv, Woken, Around, DeadStays
<1>8. Good(t)'
  <2>1. "sleeping" \notin thread_state'[t]
    BY <1>4, <1>5
  <2>2. ~Waiting(t)' /\ ~TimeoutOnItsWay(t)'
    BY <1>4, <2>1 DEF Waiting, TimeoutOnItsWay, Woken, Around, InHandler
  <2> QED
    BY <1>1, <1>2, <1>4, <1>5, <2>2
    DEF Good, z_is_thread_ready, Woken, Around, OnCpu
<1> QED
  BY <1>6, <1>7, <1>8 DEF ThreadInv

(***************************************************************************)
(* A dead thread has no waiter that nobody is going to release, if no      *)
(* thread begins to wait and none that is not retrying dies.               *)
(***************************************************************************)
LEMMA WaitersStayReleased ==
    ASSUME SchedInv,
           \A t \in Threads : pended_on'[t] \in {pended_on[t], None},
           \A u \in Threads : "dead" \in thread_state'[u] => "dead" \in thread_state[u],
           \A v \in Threads : call[v] = "retry" => call'[v] = "retry" /\ target'[v] = target[v]
    PROVE  HaltWaitersReleased'
<1> SUFFICES ASSUME NEW t \in Threads, NEW u \in Threads,
                    pended_on'[t] \in {join_queue(u), halt_queue(u)}, "dead" \in thread_state'[u]
             PROVE  \E v \in Threads : call'[v] = "retry" /\ target'[v] = u
  BY DEF HaltWaitersReleased, join_queue, halt_queue
<1>1. pended_on[t] \in {join_queue(u), halt_queue(u)} /\ "dead" \in thread_state[u]
  BY QueueNames
<1>2. PICK v \in Threads : call[v] = "retry" /\ target[v] = u
  BY <1>1 DEF SchedInv, HaltWaitersReleased
<1> QED
  BY <1>2

(***************************************************************************)
(* Waking threads from the wait queue of an object.                        *)
(***************************************************************************)
LEMMA WakeKeepsInv ==
    ASSUME SchedInv, NEW W \in SUBSET Threads, \A w \in W : pended_on[w] # None,
           NEW ret \in {"0", "EAGAIN", "ENOMSG"}, z_sched_wake(W, ret)
    PROVE  SchedInv'
<1>1. DeadStays
  BY DEF z_sched_wake, unpend_all, ready_thread, DeadStays
<1>2. ASSUME NEW u \in Threads PROVE ThreadInv(u)'
  <2>1. CASE u \in W
    <3>1. Woken(u)
      BY <2>1 DEF z_sched_wake, unpend_all, Woken, Around, InHandler
    <3> QED
      BY <1>1, <3>1, WokenKeepsInv
  <2>2. CASE u \notin W
    <3>1. Untouched(u)
      BY <2>2 DEF z_sched_wake, unpend_all, Untouched, Around, InHandler
    <3> QED
      BY <1>1, <3>1, UntouchedKeepsInv
  <2> QED
    BY <2>1, <2>2
<1>3. SchedTypeOK'
  BY ReadyEffect DEF SchedInv, SchedTypeOK, DispatchTypeOK, z_sched_wake, unpend_all
<1>4. HandlerPhase'
  BY DEF SchedInv, HandlerPhase, z_sched_wake, unpend_all
<1>5. HaltWaitersReleased'
  BY WaitersStayReleased DEF z_sched_wake, unpend_all, ready_thread
<1> QED
  BY <1>2, <1>3, <1>4, <1>5 DEF SchedInv

-----------------------------------------------------------------------------
(***************************************************************************)
(* What next_up() leaves behind when thread t goes off CPU c with the flag *)
(* of `added`, if any, on wait queue `queue`, after the threads of         *)
(* `marked` were given the halting flag `mark`.                            *)
(***************************************************************************)
Dies(t) == "aborting" \in thread_state[t] /\ "dead" \notin thread_state[t]

Stops(t) == "aborting" \notin thread_state[t] /\ "suspending" \in thread_state[t]

HaltedFlags(t, added) ==
    IF Dies(t) THEN clear_halting((thread_state[t] \cup added \cup {"dead"}) \ {"pending"})
    ELSE IF Stops(t) THEN clear_halting(thread_state[t] \cup added \cup {"suspended"})
    ELSE thread_state[t] \cup added

Released(t) ==
    IF Dies(t) THEN HaltWaiters(t) ELSE IF Stops(t) THEN wait_q(halt_queue(t)) ELSE {}

SwitchesAway(c, t, added, queue, hasTimeout, marked, mark) ==
    /\ current' = [current EXCEPT ![c] = None]
    /\ thread_state' = [u \in Threads |->
           IF u = t THEN ready_thread(HaltedFlags(t, added))
           ELSE IF u \in Released(t) THEN ready_thread(thread_state[u] \ {"pending"})
           ELSE IF u \in marked THEN thread_state[u] \cup {mark}
           ELSE thread_state[u]]
    /\ pended_on' = [u \in Threads |->
           IF u = t THEN (IF Dies(t) THEN None ELSE queue)
           ELSE IF u \in Released(t) THEN None ELSE pended_on[u]]
    /\ swap_retval' \in [Threads -> {"0", "EAGAIN", "ENOMSG"}]
    /\ active' = (IF hasTimeout THEN active \cup {t} ELSE active) \ Released(t)
    /\ superseded' = (superseded \/ inflight_timeout \in Released(t))
    /\ stale' = (stale \/ (handler = "entered" /\ inflight_timeout \in Released(t)))
    /\ timed' = IF hasTimeout THEN timed \cup {t} ELSE timed
    /\ UNCHANGED <<announcing_cpu, inflight_timeout, handler, robbed, aborted>>

MayMark(t, marked) == \A u \in marked : u # t /\ OnCpu(u)

\* A thread waits for another one only if that can still release it.
MayPendOn(t, queue) ==
    \A u \in Threads : queue \in {join_queue(u), halt_queue(u)} =>
        u # t /\ ("dead" \in thread_state[u] => call[u] = "retry" /\ target[u] = u)

EntersCall(t) ==
    /\ call' \in [Threads -> Calls] /\ target' \in [Threads -> Threads \cup {None}]
    /\ \A u \in Threads \ {t} : call'[u] = call[u] /\ target'[u] = target[u]
    /\ \/ call'[t] = call[t] /\ target'[t] = target[t]
       \/ /\ call[t] # "retry" /\ call'[t] # "retry"
          /\ call'[t] = "halt" => target'[t] \in Threads

(***************************************************************************)
(* A thread that leaves its CPU in next_up(), preempted or to wait.  It    *)
(* may enter a call, but not the retry loop of halt_thread().              *)
(***************************************************************************)
LEMMA SwitchKeepsInv ==
    ASSUME SchedInv, NEW c \in Cpus, NEW t \in Threads, current[c] = t,
           NEW added \in {{}, {"pending"}, {"sleeping"}},
           NEW queue \in Objects \cup {None} \cup ({"join", "halt"} \X Threads),
           added = {"pending"} <=> queue # None,
           NEW hasTimeout \in BOOLEAN, hasTimeout => added # {},
           added # {} => "dead" \notin thread_state[t],
           NEW marked \in SUBSET Threads, MayMark(t, marked),
           NEW mark \in {"aborting", "suspending"},
           MayPendOn(t, queue), EntersCall(t),
           SwitchesAway(c, t, added, queue, hasTimeout, marked, mark)
    PROVE  SchedInv'
<1> USE DEF EntersCall, MayMark
<1>1. OnCpu(t)
  BY DEF OnCpu
<1>2. ASSUME NEW w \in Released(t)
      PROVE  w \in Threads /\ "pending" \in thread_state[w] /\ ~OnCpu(w) /\ pended_on[w] # None
  <2>1. w \in Threads /\ pended_on[w] \in {join_queue(t), halt_queue(t)}
    BY DEF Released, HaltWaiters, wait_q
  <2>2. pended_on[w] # None
    BY <2>1, QueueNames
  <2> QED
    BY <2>1, <2>2 DEF SchedInv, ThreadInv, Good, Running
<1>3. ASSUME NEW u \in Threads PROVE OnCpu(u)' <=> OnCpu(u) /\ u # t
  <2>1. \A d \in Cpus : current[d] = t => d = c
    BY DEF SchedInv, ThreadInv, Good
  <2>2. current' = [current EXCEPT ![c] = None] /\ current \in [Cpus -> Threads \cup {None}]
    BY DEF SwitchesAway, SchedInv, SchedTypeOK
  <2> QED
    BY <2>1, <2>2, NoThreadNone DEF OnCpu
<1>4. ASSUME NEW v \in Threads, "dead" \in thread_state[v]
      PROVE  "dead" \in thread_state'[v]
  BY <1>4 DEF SwitchesAway, ready_thread, HaltedFlags, clear_halting
<1>5. t \notin Released(t) /\ t \notin timed /\ t \notin marked
      /\ thread_state[t] \cap {"pending", "sleeping", "suspended", "queued"} = {}
  BY <1>1, <1>2 DEF SchedInv, ThreadInv, Running
<1>6. ThreadInv(t)'
  <2> DEFINE H == HaltedFlags(t, added)
  <2>1. /\ H \in SUBSET Flags
        /\ "dead" \in H <=> "dead" \in thread_state[t] \/ Dies(t)
        /\ "pending" \in H <=> added = {"pending"} /\ ~Dies(t)
        /\ "sleeping" \in H <=> added = {"sleeping"}
        /\ "queued" \notin H
        /\ "aborting" \in H => "dead" \in H
    BY <1>5 DEF SchedInv, SchedTypeOK, HaltedFlags, clear_halting, Dies, Stops, Flags
  <2>2. /\ thread_state'[t] = ready_thread(H)
        /\ pended_on'[t] = IF Dies(t) THEN None ELSE queue
        /\ t \in active' <=> hasTimeout \/ t \in active
        /\ inflight_timeout = t => (superseded' <=> superseded) /\ (stale' <=> stale)
        /\ t \in timed' <=> hasTimeout
        /\ UNCHANGED <<inflight_timeout, handler, robbed, aborted>>
    BY <1>5 DEF SwitchesAway
  <2>3. ~OnCpu(t)'
    BY <1>3
  <2> HIDE DEF H
  <2>4. /\ \A f : f # "queued" => (f \in thread_state'[t] <=> f \in H)
        /\ "queued" \in thread_state'[t] <=> z_is_thread_ready(thread_state'[t])
    BY <2>1, <2>2, ReadyEffect
  <2>5. Running(t)' /\ Armed(t)' /\ StaleMarked(t)'
    BY <1>1, <1>5, <2>1, <2>2, <2>3, <2>4
    DEF Running, Armed, StaleMarked, AsleepOrDead, SchedInv, ThreadInv
  <2>6. FlagsSane(t)'
    BY <1>1, <1>4, <2>1, <2>2, <2>4, QueueNames DEF FlagsSane, SchedInv, ThreadInv, MayPendOn
  <2>7. Good(t)'
    BY <1>1, <1>5, <2>1, <2>2, <2>3, <2>4
    DEF Good, Waiting, TimeoutOnItsWay, FlagsSane, SchedInv, ThreadInv, OnCpu
  <2> QED
    BY <2>5, <2>6, <2>7 DEF ThreadInv
<1>7. ASSUME NEW u \in Threads, u # t PROVE ThreadInv(u)'
  <2>1. \A d \in Cpus : current'[d] = u <=> current[d] = u
    BY <1>7, NoThreadNone DEF SwitchesAway, SchedInv, SchedTypeOK
  <2>2. Around(u)
    BY <1>7, <2>1 DEF SwitchesAway, Around, InHandler
  <2>3. DeadStays
    BY <1>4 DEF DeadStays
  <2>4. CASE u \in Released(t)
    <3>1. Woken(u)
      BY <1>2, <1>7, <2>2, <2>4 DEF SwitchesAway, Woken, InHandler
    <3> QED
      BY <2>3, <3>1, WokenKeepsInv
  <2>5. CASE u \in marked
    <3>1. /\ thread_state'[u] = thread_state[u] \cup {mark} /\ pended_on'[u] = pended_on[u]
          /\ u \in active' <=> u \in active
          /\ InHandler(u) => (superseded' <=> superseded) /\ (stale' <=> stale)
      BY <1>2, <1>7, <2>5 DEF SwitchesAway, InHandler
    <3>2. OnCpu(u)' /\ OnCpu(u)
      BY <1>3, <1>7, <2>5
    <3>3. Running(u)' /\ Armed(u)' /\ StaleMarked(u)'
      BY <2>2, <3>1, <3>2
      DEF Running, Armed, StaleMarked, AsleepOrDead, SchedInv, ThreadInv, Around, InHandler
    <3>4. FlagsSane(u)'
      BY <2>2, <2>3, <3>1, <3>2 DEF FlagsSane, SchedInv, ThreadInv, Around, DeadStays
    <3>5. Good(u)'
      BY <2>1, <2>2, <3>1, <3>2
      DEF Good, Waiting, TimeoutOnItsWay, SchedInv, ThreadInv, z_is_thread_ready, Around, InHandler
    <3> QED
      BY <3>3, <3>4, <3>5 DEF ThreadInv
  <2>6. CASE u \notin Released(t) /\ u \notin marked
    <3>1. Untouched(u)
      BY <1>7, <2>2, <2>6 DEF SwitchesAway, Untouched, InHandler
    <3> QED
      BY <2>3, <3>1, UntouchedKeepsInv
  <2> QED
    BY <2>4, <2>5, <2>6
<1>8. SchedTypeOK'
  <2>1. thread_state' \in [Threads -> SUBSET Flags]
    <3>1. HaltedFlags(t, added) \in SUBSET Flags
      BY DEF SchedInv, SchedTypeOK, HaltedFlags, clear_halting, Flags
    <3> QED
      BY <3>1, ReadyEffect DEF SwitchesAway, SchedInv, SchedTypeOK, Flags
  <2>2. pended_on' \in [Threads -> Objects \cup {None} \cup ({"join", "halt"} \X Threads)]
    BY DEF SwitchesAway, SchedInv, SchedTypeOK
  <2>3. DispatchTypeOK'
    BY SchedAssumption DEF SwitchesAway, SchedInv, SchedTypeOK, DispatchTypeOK
  <2> QED
    BY <2>1, <2>2, <2>3 DEF SwitchesAway, SchedInv, SchedTypeOK
<1>9. HandlerPhase'
  BY DEF SchedInv, HandlerPhase, SwitchesAway
<1>10. HaltWaitersReleased'
  <2> SUFFICES ASSUME NEW w \in Threads, NEW u \in Threads,
                      pended_on'[w] \in {join_queue(u), halt_queue(u)}, "dead" \in thread_state'[u]
               PROVE  \E v \in Threads : call'[v] = "retry" /\ target'[v] = u
    BY DEF HaltWaitersReleased, join_queue, halt_queue
  <2>1. CASE w = t
    <3>1. queue \in {join_queue(u), halt_queue(u)}
      BY <2>1, QueueNames DEF SwitchesAway
    <3>2. "dead" \in thread_state[u]
      BY <3>1 DEF SwitchesAway, ready_thread, MayPendOn
    <3> QED
      BY <3>1, <3>2 DEF MayPendOn
  <2>2. CASE w # t
    <3>1. pended_on[w] = pended_on'[w] /\ w \notin Released(t)
      BY <2>2, QueueNames DEF SwitchesAway
    <3>2. "dead" \in thread_state[u]
      <4>1. CASE u = t
        <5>1. ~Dies(t)
          BY <3>1, <4>1 DEF Released, HaltWaiters, wait_q
        <5> QED
          BY <4>1, <5>1 DEF SwitchesAway, ready_thread, HaltedFlags, clear_halting
      <4>2. CASE u # t
        BY <4>2 DEF SwitchesAway, ready_thread
      <4> QED
        BY <4>1, <4>2
    <3>3. PICK v \in Threads : call[v] = "retry" /\ target[v] = u
      BY <3>1, <3>2 DEF SchedInv, HaltWaitersReleased
    <3> QED
      BY <3>3
  <2> QED
    BY <2>1, <2>2
<1> QED
  BY <1>6, <1>7, <1>8, <1>9, <1>10 DEF SchedInv

(***************************************************************************)
(* A thread on a CPU has no wait queue and is not released with others.    *)
(***************************************************************************)
LEMMA CurrentAwake ==
    ASSUME SchedInv, NEW c \in Cpus, NEW t \in Threads, current[c] = t
    PROVE  /\ OnCpu(t) /\ pended_on[t] = None /\ t \notin timed
           /\ thread_state[t] \cap {"pending", "sleeping", "suspended", "queued"} = {}
           /\ \A u \in Threads : t \notin HaltWaiters(u)
<1>1. OnCpu(t)
  BY DEF OnCpu
<1>2. /\ thread_state[t] \cap {"pending", "sleeping", "suspended", "queued"} = {}
      /\ pended_on[t] = None /\ t \notin timed
  BY <1>1 DEF SchedInv, ThreadInv, Running, Good
<1> QED
  BY <1>1, <1>2, QueueNames DEF HaltWaiters, wait_q

(***************************************************************************)
(* A preempted thread goes back to the run queue, or halts if another CPU  *)
(* asked it to.                                                            *)
(***************************************************************************)
LEMMA PreemptKeepsInv ==
    ASSUME SchedInv, NEW c \in Cpus, NEW t \in Threads, Preempt(c, t)
    PROVE  SchedInv'
<1>1. current[c] = t /\ UNCHANGED <<call, target, robbed, aborted>>
  BY DEF Preempt, Executes
<1>2. pended_on[t] = None /\ t \notin HaltWaiters(t) /\ HaltWaiters(t) \subseteq Threads
  BY <1>1, CurrentAwake DEF HaltWaiters, wait_q
<1>3. SwitchesAway(c, t, {}, None, FALSE, {}, "aborting")
  BY <1>1, <1>2
  DEF Preempt, next_up, unpend_all, SwitchesAway, Released, HaltedFlags, Dies, Stops,
      SchedInv, SchedTypeOK, HaltWaiters
<1>4. /\ {} \in {{}, {"pending"}, {"sleeping"}} /\ {} # {"pending"} /\ {} \in SUBSET Threads
      /\ None \in Objects \cup {None} \cup ({"join", "halt"} \X Threads)
      /\ MayPendOn(t, None) /\ EntersCall(t) /\ MayMark(t, {})
  BY <1>1, QueueNames DEF SchedInv, SchedTypeOK, MayPendOn, EntersCall, MayMark
<1> QED
  BY <1>1, <1>3, <1>4, SwitchKeepsInv

(***************************************************************************)
(* A running thread that pends on a queue, in the call op about thread x.  *)
(***************************************************************************)
LEMMA PendKeepsInv ==
    ASSUME SchedInv, NEW c \in Cpus, NEW t \in Threads, Runs(c, t),
           NEW q \in Objects \cup ({"join", "halt"} \X Threads),
           NEW wait \in Waits, z_pend_curr(c, t, q, wait),
           \A u \in Threads : q \in {join_queue(u), halt_queue(u)} =>
               u # t /\ "dead" \notin thread_state[u],
           NEW op \in Calls \ {"halt", "retry"}, call' = [call EXCEPT ![t] = op],
           NEW x \in Threads \cup {None},
           target' = target \/ target' = [target EXCEPT ![t] = x],
           UNCHANGED <<robbed, aborted>>
    PROVE  SchedInv'
<1>1. current[c] = t /\ call[t] = "none" /\ "dead" \notin thread_state[t] /\ q # None
  BY SchedAssumption DEF Runs, Executes
<1>2. t \notin HaltWaiters(t) /\ HaltWaiters(t) \subseteq Threads
  BY <1>1, CurrentAwake DEF HaltWaiters, wait_q
<1>3. SwitchesAway(c, t, {"pending"}, q, wait = "timed", {}, "aborting")
  BY <1>1, <1>2
  DEF z_pend_curr, next_up, unpend_all, SwitchesAway, Released, HaltedFlags, Dies, Stops,
      SchedInv, SchedTypeOK, HaltWaiters
<1>4. EntersCall(t)
  BY <1>1 DEF SchedInv, SchedTypeOK, Calls, EntersCall
<1>5. /\ {"pending"} \in {{}, {"pending"}, {"sleeping"}} /\ {} \in SUBSET Threads
      /\ (wait = "timed") \in BOOLEAN /\ {"pending"} # {}
      /\ q \in Objects \cup {None} \cup ({"join", "halt"} \X Threads)
      /\ MayPendOn(t, q) /\ MayMark(t, {})
  BY DEF MayPendOn, MayMark
<1> QED
  BY <1>1, <1>3, <1>4, <1>5, SwitchKeepsInv

(***************************************************************************)
(* k_sleep().                                                              *)
(***************************************************************************)
LEMMA SleepKeepsInv ==
    ASSUME SchedInv, NEW c \in Cpus, NEW t \in Threads, NEW wait \in Waits,
           z_impl_k_sleep_ticks(c, t, wait)
    PROVE  SchedInv'
<1>1. /\ current[c] = t /\ "dead" \notin thread_state[t]
      /\ UNCHANGED <<call, target, robbed, aborted>>
  BY DEF z_impl_k_sleep_ticks, Runs, Executes
<1>2. t \notin HaltWaiters(t) /\ HaltWaiters(t) \subseteq Threads
  BY <1>1, CurrentAwake DEF HaltWaiters, wait_q
<1>3. SwitchesAway(c, t, {"sleeping"}, None, wait = "timed", {}, "aborting")
  BY <1>1, <1>2
  DEF z_impl_k_sleep_ticks, next_up, unpend_all, SwitchesAway, Released, HaltedFlags, Dies, Stops,
      SchedInv, SchedTypeOK, HaltWaiters
<1>4. /\ {"sleeping"} \in {{}, {"pending"}, {"sleeping"}} /\ {} \in SUBSET Threads
      /\ {"sleeping"} # {"pending"} /\ {"sleeping"} # {} /\ (wait = "timed") \in BOOLEAN
      /\ None \in Objects \cup {None} \cup ({"join", "halt"} \X Threads)
      /\ MayPendOn(t, None) /\ EntersCall(t) /\ MayMark(t, {})
  BY <1>1, QueueNames DEF SchedInv, SchedTypeOK, MayPendOn, EntersCall, MayMark
<1> QED
  BY <1>1, <1>3, <1>4, SwitchKeepsInv

(***************************************************************************)
(* z_thread_halt() of a thread on another CPU.                             *)
(***************************************************************************)
LEMMA HaltElsewhereKeepsInv ==
    ASSUME SchedInv, NEW c \in Cpus, NEW t \in Threads, NEW u \in Threads, Runs(c, t),
           NEW flag \in {"aborting", "suspending"}, NEW q \in {join_queue(u), halt_queue(u)},
           HaltElsewhere(c, t, u, flag, q)
    PROVE  SchedInv'
<1>1. /\ current[c] = t /\ call[t] = "none" /\ "dead" \notin thread_state[t]
      /\ UNCHANGED <<robbed, aborted>>
  BY DEF Runs, Executes, HaltElsewhere
<1>2. u # t /\ OnCpu(u)
  BY <1>1 DEF HaltElsewhere, thread_active_elsewhere, OnCpu, SchedInv, ThreadInv, Good
<1>3. t \notin HaltWaiters(t) /\ u \notin HaltWaiters(t) /\ HaltWaiters(t) \subseteq Threads
  BY <1>1, <1>2, CurrentAwake DEF HaltWaiters, wait_q, OnCpu
<1>4. SwitchesAway(c, t, {"pending"}, q, FALSE, {u}, flag)
  <2> DEFINE ts == [thread_state EXCEPT ![u] = @ \cup {flag}]
  <2>1. /\ \A v \in Threads : ts[v] = IF v = u THEN thread_state[v] \cup {flag} ELSE thread_state[v]
        /\ ts \in [Threads -> SUBSET Flags]
    BY DEF SchedInv, SchedTypeOK, Flags
  <2>2. next_up(c, t, thread_state[t] \cup {"pending"}, q, swap_retval[t], FALSE, ts)
    BY DEF HaltElsewhere
  <2> HIDE DEF ts
  <2>3. /\ unpend_all(Released(t), "0", [ts EXCEPT ![t] = ready_thread(HaltedFlags(t, {"pending"}))],
                      [pended_on EXCEPT ![t] = IF Dies(t) THEN None ELSE q],
                      [swap_retval EXCEPT ![t] = swap_retval[t]], active, {})
        /\ timed' = timed /\ current' = [current EXCEPT ![c] = None]
    BY <2>2 DEF next_up, unpend_all, Released, HaltedFlags, Dies, Stops
  <2>4. t \notin Released(t) /\ u \notin Released(t)
    BY <1>3 DEF Released, HaltWaiters
  <2>5. thread_state' = [v \in Threads |->
           IF v = t THEN ready_thread(HaltedFlags(t, {"pending"}))
           ELSE IF v \in Released(t) THEN ready_thread(thread_state[v] \ {"pending"})
           ELSE IF v \in {u} THEN thread_state[v] \cup {flag}
           ELSE thread_state[v]]
    <3>1. thread_state' = [v \in Threads |->
             IF v \in Released(t)
             THEN ready_thread([ts EXCEPT ![t] = ready_thread(HaltedFlags(t, {"pending"}))][v] \ {"pending"})
             ELSE [ts EXCEPT ![t] = ready_thread(HaltedFlags(t, {"pending"}))][v]]
      BY <2>3 DEF unpend_all
    <3>2. \A v \in Threads : [ts EXCEPT ![t] = ready_thread(HaltedFlags(t, {"pending"}))][v] =
             IF v = t THEN ready_thread(HaltedFlags(t, {"pending"})) ELSE ts[v]
      BY <2>1
    <3> QED
      BY <1>2, <2>1, <2>4, <3>1, <3>2
  <2>6. /\ pended_on' = [v \in Threads |->
              IF v = t THEN (IF Dies(t) THEN None ELSE q)
              ELSE IF v \in Released(t) THEN None ELSE pended_on[v]]
        /\ swap_retval' \in [Threads -> {"0", "EAGAIN", "ENOMSG"}]
    BY <2>3, <2>4 DEF unpend_all, SchedInv, SchedTypeOK
  <2>7. /\ active' = active \ Released(t)
        /\ superseded' = (superseded \/ inflight_timeout \in Released(t))
        /\ stale' = (stale \/ (handler = "entered" /\ inflight_timeout \in Released(t)))
        /\ UNCHANGED <<announcing_cpu, inflight_timeout, handler>>
    BY <2>3 DEF unpend_all
  <2> QED
    BY <1>1, <2>3, <2>5, <2>6, <2>7 DEF SwitchesAway
<1>5. EntersCall(t)
  BY <1>1 DEF HaltElsewhere, SchedInv, SchedTypeOK, Calls, EntersCall
<1>6. MayPendOn(t, q)
  <2> SUFFICES ASSUME NEW v \in Threads, q \in {join_queue(v), halt_queue(v)}
               PROVE  v # t /\ ("dead" \in thread_state[v] => call[v] = "retry" /\ target[v] = v)
    BY DEF MayPendOn
  <2>1. v = u
    BY DEF join_queue, halt_queue
  <2> QED
    BY <1>2, <2>1 DEF SchedInv, ThreadInv, Running
<1>7. /\ q \in Objects \cup {None} \cup ({"join", "halt"} \X Threads) /\ q # None
      /\ MayMark(t, {u})
  BY <1>2, QueueNames DEF MayMark
<1>8. PICK added \in {{}, {"pending"}, {"sleeping"}}, marked \in SUBSET Threads, hasTimeout \in BOOLEAN :
          added = {"pending"} /\ marked = {u} /\ hasTimeout = FALSE
  OBVIOUS
<1>9. SwitchesAway(c, t, added, q, hasTimeout, marked, flag) /\ MayMark(t, marked)
  BY <1>4, <1>7, <1>8
<1>10. /\ added = {"pending"} <=> q # None
       /\ hasTimeout => added # {}
       /\ added # {} => "dead" \notin thread_state[t]
  BY <1>1, <1>7, <1>8
<1>11. current[c] = t
  BY <1>1
<1> QED
  BY <1>5, <1>6, <1>7, <1>9, <1>10, <1>11, SwitchKeepsInv

-----------------------------------------------------------------------------
(***************************************************************************)
(* k_thread_suspend() of a thread on no other CPU.                         *)
(***************************************************************************)
LEMMA SuspendKeepsInv ==
    ASSUME SchedInv, NEW c \in Cpus, NEW t \in Threads, NEW u \in Threads,
           z_impl_k_thread_suspend(c, t, u)
    PROVE  SchedInv'
<1>1. Runs(c, t) /\ current[c] = t
  BY DEF z_impl_k_thread_suspend, Runs, Executes
<1>2. CASE HaltElsewhere(c, t, u, "suspending", halt_queue(u))
  BY <1>1, <1>2, HaltElsewhereKeepsInv
<1>3. CASE ~thread_active_elsewhere(c, u)
           /\ ~HaltElsewhere(c, t, u, "suspending", halt_queue(u))
  <2> DEFINE flags == clear_halting((thread_state[u] \cup {"suspended"}) \ {"queued"})
             W == wait_q(halt_queue(u))
  <2>1. /\ unpend_all(W, "0", [thread_state EXCEPT ![u] = flags], pended_on, swap_retval, active, {})
        /\ current' = IF u = t THEN [current EXCEPT ![c] = None] ELSE current
        /\ UNCHANGED <<call, target, timed, robbed, aborted>>
    BY <1>3 DEF z_impl_k_thread_suspend
  <2>2. u \notin W /\ t \notin W /\ \A w \in W : w \in Threads /\ pended_on[w] # None
    BY <1>1, CurrentAwake, QueueNames DEF wait_q, SchedInv, ThreadInv, FlagsSane
  <2>3. ~OnCpu(u)' /\ \A v \in Threads \ {u} : \A d \in Cpus : current'[d] = v <=> current[d] = v
    BY <1>1, <1>3, <2>1, NoThreadNone DEF thread_active_elsewhere, OnCpu, SchedInv, SchedTypeOK
  <2>4. /\ flags \in SUBSET Flags /\ thread_state'[u] = flags /\ pended_on'[u] = pended_on[u]
        /\ u \in active' <=> u \in active
        /\ inflight_timeout = u => (superseded' <=> superseded) /\ (stale' <=> stale)
        /\ UNCHANGED <<inflight_timeout, handler>>
    BY <2>1, <2>2 DEF unpend_all, SchedInv, SchedTypeOK, clear_halting, Flags
  <2>5. DeadStays
    BY <2>1 DEF DeadStays, unpend_all, ready_thread, clear_halting, SchedInv, SchedTypeOK
  <2>6. ThreadInv(u)'
    <3>1. /\ "suspended" \in flags /\ "aborting" \notin flags /\ "queued" \notin flags
          /\ \A f \in {"pending", "sleeping", "dead"} : f \in flags <=> f \in thread_state[u]
      BY DEF clear_halting
    <3> HIDE DEF flags
    <3>2. Running(u)' /\ Armed(u)' /\ StaleMarked(u)'
      BY <2>3, <2>4, <3>1 DEF Running, Armed, StaleMarked, AsleepOrDead, SchedInv, ThreadInv
    <3>3. FlagsSane(u)'
      BY <2>1, <2>4, <2>5, <3>1 DEF FlagsSane, DeadStays, SchedInv, ThreadInv
    <3>4. Good(u)'
      BY <2>1, <2>3, <2>4, <3>1
      DEF Good, z_is_thread_ready, Waiting, TimeoutOnItsWay, OnCpu, SchedInv, ThreadInv
    <3> QED
      BY <3>2, <3>3, <3>4 DEF ThreadInv
  <2>7. ASSUME NEW v \in Threads \ {u} PROVE ThreadInv(v)'
    <3>1. CASE v \in W
      <4>1. Woken(v)
        BY <2>1, <2>2, <2>3, <2>7, <3>1 DEF unpend_all, Woken, Around, InHandler, SchedInv, SchedTypeOK
      <4> QED
        BY <2>5, <4>1, WokenKeepsInv
    <3>2. CASE v \notin W
      <4>1. Untouched(v)
        BY <2>1, <2>2, <2>3, <2>7, <3>2 DEF unpend_all, Untouched, Around, InHandler, SchedInv, SchedTypeOK
      <4> QED
        BY <2>5, <4>1, UntouchedKeepsInv
    <3> QED
      BY <3>1, <3>2
  <2>8. SchedTypeOK'
    <3>1. thread_state' \in [Threads -> SUBSET Flags]
      BY <2>1, ReadyEffect DEF unpend_all, SchedInv, SchedTypeOK, clear_halting, Flags
    <3> QED
      BY <2>1, <3>1 DEF unpend_all, SchedInv, SchedTypeOK, DispatchTypeOK
  <2>9. HandlerPhase'
    BY <2>1 DEF SchedInv, HandlerPhase, unpend_all
  <2>10. HaltWaitersReleased'
    <3>1. \A v \in Threads : "dead" \in thread_state'[v] => "dead" \in thread_state[v]
      BY <2>1 DEF unpend_all, ready_thread, clear_halting, SchedInv, SchedTypeOK
    <3> QED
      BY <2>1, <3>1, WaitersStayReleased DEF unpend_all
  <2> QED
    BY <2>6, <2>7, <2>8, <2>9, <2>10 DEF SchedInv
<1> QED
  BY <1>2, <1>3 DEF z_impl_k_thread_suspend

(***************************************************************************)
(* halt_thread(), the first time or again after the lock was dropped.      *)
(***************************************************************************)
LEMMA HaltKeepsInv ==
    ASSUME SchedInv, NEW c \in Cpus, NEW t \in Threads, NEW u \in Threads, current[c] = t,
           \/ call[t] = "none" /\ "dead" \notin thread_state[t] /\ (u = t \/ ~OnCpu(u))
           \/ call[t] = "retry" /\ target[t] = u,
           halt_thread(c, t, u)
    PROVE  SchedInv'
<1>1. PICK again \in BOOLEAN : again = (AbortResult(c, u) = "EAGAIN")
  OBVIOUS
<1> DEFINE W == IF again THEN {} ELSE HaltWaiters(u)
           gone == (thread_state[u] \cup {"dead"}) \ {"queued", "pending"}
           flags == IF again THEN gone ELSE clear_halting(gone)
<1>2. /\ thread_state' = [v \in Threads |->
             IF v \in W THEN ready_thread((IF v = u THEN flags ELSE thread_state[v]) \ {"pending"})
             ELSE IF v = u THEN flags ELSE thread_state[v]]
      /\ pended_on' = [v \in Threads |-> IF v \in W \/ v = u THEN None ELSE pended_on[v]]
      /\ swap_retval' = [v \in Threads |-> IF v \in W THEN "0" ELSE swap_retval[v]]
  BY <1>1 DEF halt_thread, HaltThread, unpend_all, SchedInv, SchedTypeOK
<1>3. /\ active' = active \ (W \cup {u})
      /\ superseded' = (superseded \/ inflight_timeout \in W \cup {u})
      /\ stale' = (stale \/ (handler = "entered" /\ inflight_timeout \in W \cup {u}))
      /\ call' = [call EXCEPT ![t] = IF again THEN "retry" ELSE "none"]
      /\ target' = [target EXCEPT ![t] = IF again THEN u ELSE None]
      /\ current' = IF u = t /\ ~again THEN [current EXCEPT ![c] = None] ELSE current
      /\ aborted' = IF again THEN aborted ELSE aborted \cup {u}
      /\ UNCHANGED <<announcing_cpu, inflight_timeout, handler, timed, robbed>>
  BY <1>1 DEF halt_thread, HaltThread, unpend_all
<1>4. u \notin W /\ t \notin W /\ \A w \in W : w \in Threads /\ pended_on[w] # None
  BY CurrentAwake, QueueNames DEF HaltWaiters, wait_q, SchedInv, ThreadInv, FlagsSane
<1>5. /\ flags \in SUBSET Flags
      /\ "dead" \in flags /\ "queued" \notin flags /\ "pending" \notin flags
      /\ \A f \in flags : f = "dead" \/ f \in thread_state[u]
  BY DEF SchedInv, SchedTypeOK, clear_halting, Flags
<1>6. /\ thread_state'[u] = flags /\ pended_on'[u] = None /\ u \notin active'
      /\ inflight_timeout = u => superseded'
  BY <1>2, <1>3, <1>4
<1>7. DeadStays
  BY <1>2, <1>4, <1>6, <1>5 DEF DeadStays, ready_thread
<1> HIDE DEF W, flags
<1>8. \A v \in Threads \ {t} : \A d \in Cpus : current'[d] = v <=> current[d] = v
  BY <1>3, NoThreadNone DEF SchedInv, SchedTypeOK
<1>9. \A v \in Threads \ {t} : call'[v] = call[v] /\ target'[v] = target[v]
  BY <1>3 DEF SchedInv, SchedTypeOK
<1>10. /\ call'[t] = IF again THEN "retry" ELSE "none"
       /\ target'[t] = IF again THEN u ELSE None
  BY <1>3 DEF SchedInv, SchedTypeOK
<1>11. OnCpu(t)
  BY DEF OnCpu
<1>12. ThreadInv(u)'
  <2>1. OnCpu(u)' => OnCpu(u) /\ call'[u] = "retry" /\ target'[u] = u
    <3>1. CASE u = t
      <4>1. CASE again
        BY <1>10, <1>11, <3>1, <4>1
      <4>2. CASE ~again
        BY <1>3, <3>1, <4>2, NoThreadNone DEF OnCpu, SchedInv, SchedTypeOK, ThreadInv, Good
      <4> QED
        BY <4>1, <4>2
    <3>2. CASE u # t
      <4>1. OnCpu(u)' <=> OnCpu(u)
        BY <1>8, <3>2 DEF OnCpu
      <4>2. OnCpu(u) => call[u] = "retry" /\ target[u] = u
        BY <3>2 DEF SchedInv, ThreadInv, Running, FlagsSane
      <4> QED
        BY <1>9, <3>2, <4>1, <4>2
    <3> QED
      BY <3>1, <3>2
  <2>2. Running(u)'
    BY <1>3, <1>5, <1>6, <2>1 DEF Running, SchedInv, ThreadInv
  <2>3. Armed(u)' /\ StaleMarked(u)'
    BY <1>3, <1>5, <1>6 DEF Armed, StaleMarked
  <2>4. FlagsSane(u)'
    BY <1>3, <1>5, <1>6, <1>7, <1>9, <1>10, QueueNames DEF FlagsSane, DeadStays, SchedInv, ThreadInv
  <2>5. \A a, b \in Cpus : current'[a] = u /\ current'[b] = u => a = b
    BY <1>3, NoThreadNone DEF SchedInv, SchedTypeOK, ThreadInv, Good
  <2>6. Good(u)'
    BY <1>3, <1>5, <1>6, <2>5 DEF Good, Waiting, TimeoutOnItsWay, z_is_thread_ready
  <2> QED
    BY <2>2, <2>3, <2>4, <2>6 DEF ThreadInv
<1>13. ASSUME t # u PROVE ThreadInv(t)'
  <2>1. /\ thread_state'[t] = thread_state[t] /\ pended_on'[t] = pended_on[t]
        /\ t \in active' <=> t \in active
        /\ inflight_timeout = t => (superseded' <=> superseded) /\ (stale' <=> stale)
        /\ t \in aborted' <=> t \in aborted
        /\ current' = current
    BY <1>2, <1>3, <1>4, <1>13
  <2>2. "dead" \notin thread_state[t]
    BY <1>11, <1>13 DEF SchedInv, ThreadInv, Running
  <2>3. Running(t)' /\ Armed(t)' /\ StaleMarked(t)'
    BY <1>3, <1>11, <2>1, <2>2
    DEF Running, Armed, StaleMarked, AsleepOrDead, OnCpu, SchedInv, ThreadInv
  <2>4. FlagsSane(t)'
    BY <1>3, <1>5, <1>6, <1>10, <2>1, <2>2 DEF FlagsSane, OnCpu, SchedInv, ThreadInv
  <2>5. Good(t)'
    BY <1>3, <2>1 DEF Good, Waiting, TimeoutOnItsWay, z_is_thread_ready, OnCpu, SchedInv, ThreadInv
  <2> QED
    BY <2>3, <2>4, <2>5 DEF ThreadInv
<1>14. ASSUME NEW v \in Threads \ {t, u} PROVE ThreadInv(v)'
  <2>1. Around(v)
    BY <1>3, <1>8, <1>9 DEF Around, InHandler
  <2>2. CASE v \in W
    <3>1. Woken(v)
      BY <1>2, <1>3, <1>4, <2>1, <2>2 DEF Woken, InHandler
    <3> QED
      BY <1>7, <3>1, WokenKeepsInv
  <2>3. CASE v \notin W
    <3>1. Untouched(v)
      BY <1>2, <1>3, <2>1, <2>3 DEF Untouched, InHandler
    <3> QED
      BY <1>7, <3>1, UntouchedKeepsInv
  <2> QED
    BY <2>2, <2>3
<1>15. SchedTypeOK'
  <2>1. thread_state' \in [Threads -> SUBSET Flags]
    BY <1>2, <1>4, <1>5, ReadyEffect DEF SchedInv, SchedTypeOK
  <2>2. DispatchTypeOK'
    BY <1>3 DEF SchedInv, SchedTypeOK, DispatchTypeOK
  <2>3. pended_on' \in [Threads -> Objects \cup {None} \cup ({"join", "halt"} \X Threads)]
        /\ swap_retval' \in [Threads -> {"0", "EAGAIN", "ENOMSG"}]
    BY <1>2 DEF SchedInv, SchedTypeOK
  <2>4. call' \in [Threads -> Calls] /\ target' \in [Threads -> Threads \cup {None}]
        /\ current' \in [Cpus -> Threads \cup {None}]
    BY <1>3 DEF SchedInv, SchedTypeOK, Calls
  <2> QED
    BY <1>3, <2>1, <2>2, <2>3, <2>4 DEF SchedInv, SchedTypeOK
<1>16. HandlerPhase'
  BY <1>3 DEF SchedInv, HandlerPhase
<1>17. HaltWaitersReleased'
  <2> SUFFICES ASSUME NEW w \in Threads, NEW x \in Threads,
                      pended_on'[w] \in {join_queue(x), halt_queue(x)}, "dead" \in thread_state'[x]
               PROVE  \E v \in Threads : call'[v] = "retry" /\ target'[v] = x
    BY DEF HaltWaitersReleased, join_queue, halt_queue
  <2>1. w \notin W /\ pended_on[w] = pended_on'[w]
    BY <1>2, QueueNames
  <2>2. CASE x = u
    <3>1. again
      BY <2>1, <2>2 DEF W, HaltWaiters, wait_q
    <3> QED
      BY <1>10, <2>2, <3>1
  <2>3. CASE x # u
    <3>1. "dead" \in thread_state[x]
      BY <1>2, <2>3 DEF ready_thread
    <3>2. PICK v \in Threads : call[v] = "retry" /\ target[v] = x
      BY <2>1, <3>1 DEF SchedInv, HaltWaitersReleased
    <3>3. v # t
      BY <2>3, <3>2
    <3> QED
      BY <1>9, <3>2, <3>3
  <2> QED
    BY <2>2, <2>3
<1> QED
  BY <1>12, <1>13, <1>14, <1>15, <1>16, <1>17 DEF SchedInv

-----------------------------------------------------------------------------
(***************************************************************************)
(* An idle CPU takes a thread from the run queue.                          *)
(***************************************************************************)
LEMMA DispatchKeepsInv ==
    ASSUME SchedInv, NEW c \in Cpus, NEW t \in Threads, Dispatch(c, t)
    PROVE  SchedInv'
<1>1. /\ current[c] = None /\ "queued" \in thread_state[t]
      /\ current' = [current EXCEPT ![c] = t]
      /\ thread_state' = [thread_state EXCEPT ![t] = @ \ {"queued"}]
      /\ timed' = timed \ {t} /\ robbed' = robbed \ {t}
      /\ UNCHANGED <<dispatchVars, pended_on, swap_retval, handler, call, target, stale, aborted>>
  BY DEF Dispatch
<1>2. /\ "dead" \notin thread_state[t] /\ ~OnCpu(t)
      /\ thread_state'[t] \cap {"pending", "sleeping", "suspended", "queued", "dead"} = {}
      /\ thread_state'[t] = thread_state[t] \ {"queued"}
  BY <1>1 DEF SchedInv, SchedTypeOK, ThreadInv, Good, Running, z_is_thread_ready
<1>3. OnCpu(t)' /\ \A d \in Cpus : current'[d] = t => d = c
  BY <1>1, <1>2 DEF OnCpu, SchedInv, SchedTypeOK
<1>4. DeadStays
  BY <1>1 DEF DeadStays, SchedInv, SchedTypeOK
<1>5. ThreadInv(t)'
  <2>1. Running(t)' /\ Armed(t)' /\ StaleMarked(t)'
    BY <1>1, <1>2 DEF Running, Armed, StaleMarked, AsleepOrDead, dispatchVars, SchedInv, ThreadInv
  <2>2. FlagsSane(t)'
    BY <1>1, <1>2, <1>3, <1>4 DEF FlagsSane, DeadStays, SchedInv, ThreadInv
  <2>3. Good(t)'
    BY <1>1, <1>2, <1>3
    DEF Good, Waiting, TimeoutOnItsWay, z_is_thread_ready, dispatchVars, SchedInv, ThreadInv
  <2> QED
    BY <2>1, <2>2, <2>3 DEF ThreadInv
<1>6. ASSUME NEW u \in Threads \ {t} PROVE ThreadInv(u)'
  <2>1. Untouched(u)
    BY <1>1, NoThreadNone
    DEF Untouched, Around, InHandler, dispatchVars, SchedInv, SchedTypeOK
  <2> QED
    BY <1>4, <2>1, UntouchedKeepsInv
<1>7. SchedTypeOK' /\ HandlerPhase'
  BY <1>1 DEF SchedInv, SchedTypeOK, DispatchTypeOK, HandlerPhase, dispatchVars
<1>8. HaltWaitersReleased'
  BY <1>1, WaitersStayReleased DEF SchedInv, SchedTypeOK
<1> QED
  BY <1>5, <1>6, <1>7, <1>8 DEF SchedInv

(***************************************************************************)
(* A timeout is popped, or the dispatch loop ends: no handler is on its    *)
(* way to a thread at that moment.                                         *)
(***************************************************************************)
LEMMA FireKeepsInv ==
    ASSUME SchedInv, handler # "entered",
           NEW c \in Cpus, NEW x \in active, Fire(c, x), Popped,
           UNCHANGED <<thread_state, pended_on, swap_retval, current, call, target,
                       timed, robbed, aborted>>
    PROVE  SchedInv'
<1>1. x \in Threads /\ x # None /\ c # None
  BY SchedAssumption, DispatchAssumption DEF SchedInv, SchedTypeOK, DispatchTypeOK
<1>2. DeadStays
  BY DEF DeadStays
<1>3. ThreadInv(x)'
  <2>1. Running(x)' /\ Armed(x)' /\ StaleMarked(x)'
    BY <1>1 DEF Fire, Popped, Running, Armed, StaleMarked, AsleepOrDead, OnCpu, SchedInv, ThreadInv
  <2>2. FlagsSane(x)'
    BY <1>1 DEF FlagsSane, OnCpu, SchedInv, ThreadInv
  <2>3. Good(x)'
    BY <1>1 DEF Fire, Popped, Good, Waiting, TimeoutOnItsWay, OnCpu, SchedInv, ThreadInv
  <2> QED
    BY <2>1, <2>2, <2>3 DEF ThreadInv
<1>4. ASSUME NEW u \in Threads \ {x} PROVE ThreadInv(u)'
  <2>1. Untouched(u)
    BY DEF Fire, Popped, Untouched, Around, InHandler
  <2> QED
    BY <1>2, <2>1, UntouchedKeepsInv
<1>5. SchedTypeOK' /\ HandlerPhase'
  <2>1. DispatchTypeOK'
    BY <1>1 DEF Fire, SchedInv, SchedTypeOK, DispatchTypeOK
  <2>2. stale' \in BOOLEAN /\ handler' = "entered" /\ HandlerPhase'
    BY <1>1 DEF Fire, Popped, HandlerPhase
  <2> QED
    BY <2>1, <2>2 DEF SchedInv, SchedTypeOK
<1>6. HaltWaitersReleased'
  BY DEF HaltWaitersReleased, SchedInv
<1> QED
  BY <1>3, <1>4, <1>5, <1>6 DEF SchedInv

(***************************************************************************)
(* The firing loop preserves the invariant when it pops a timeout and when *)
(* it leaves.                                                              *)
(***************************************************************************)
LEMMA PoppedKeepsInv ==
    ASSUME SchedInv, NEW c \in Cpus, TimeoutPopped(c) \/ HandlerDone(c)
    PROVE  SchedInv'
<1>1. CASE TimeoutPopped(c)
  <2>1. PICK x \in active : Fire(c, x)
    BY <1>1 DEF TimeoutPopped, Announce
  <2>2. handler # "entered"
    BY <1>1 DEF TimeoutPopped, Announce, SchedInv, HandlerPhase
  <2> QED
    BY <1>1, <2>1, <2>2, FireKeepsInv DEF TimeoutPopped
<1>2. CASE HandlerDone(c)
  <2>1. /\ handler = "done"
        /\ UNCHANGED <<thread_state, pended_on, swap_retval, current, call, target,
                       timed, robbed, aborted>>
    BY <1>2 DEF HandlerDone
  <2>2. CASE \E x \in active : Fire(c, x)
    <3>1. PICK x \in active : Fire(c, x)
      BY <2>2
    <3>2. x # None
      BY SchedAssumption, DispatchAssumption DEF SchedInv, SchedTypeOK, DispatchTypeOK
    <3>3. Popped
      BY <1>2, <3>1, <3>2 DEF HandlerDone, Fire
    <3> QED
      BY <2>1, <3>1, <3>3, FireKeepsInv
  <2>3. CASE StopFiring
    <3>1. handler' = "idle" /\ stale' = stale
      BY <1>2, <2>3 DEF HandlerDone, StopFiring
    <3>2. ASSUME NEW u \in Threads PROVE ThreadInv(u)'
      <4>1. Untouched(u)
        BY <2>1, <2>3, <3>1 DEF StopFiring, Untouched, Around, InHandler
      <4>2. DeadStays
        BY <2>1 DEF DeadStays
      <4> QED
        BY <4>1, <4>2, UntouchedKeepsInv
    <3>3. SchedTypeOK' /\ HandlerPhase'
      BY <2>1, <2>3, <3>1 DEF StopFiring, SchedInv, SchedTypeOK, DispatchTypeOK, HandlerPhase
    <3>4. HaltWaitersReleased'
      BY <2>1 DEF HaltWaitersReleased, SchedInv
    <3> QED
      BY <3>2, <3>3, <3>4 DEF SchedInv
  <2> QED
    BY <1>2, <2>2, <2>3 DEF HandlerDone, HandlerReturn
<1> QED
  BY <1>1, <1>2

(***************************************************************************)
(* The handler of a thread timeout.  If nothing marked it superseded, the  *)
(* thread is asleep or dead, by Armed.                                     *)
(***************************************************************************)
LEMMA HandlerKeepsInv ==
    ASSUME SchedInv, NEW c \in Cpus, z_thread_timeout(c)
    PROVE  SchedInv'
<1>1. /\ announcing_cpu = c /\ handler = "entered" /\ handler' = "done" /\ stale' = FALSE
      /\ UNCHANGED <<dispatchVars, swap_retval, current, call, target, timed, robbed, aborted>>
  BY DEF z_thread_timeout, ThreadTimeout
<1>2. PICK x \in Threads : x = inflight_timeout
  BY <1>1, SchedAssumption DEF SchedInv, SchedTypeOK, DispatchTypeOK, HandlerPhase
<1> DEFINE awake == ready_thread(thread_state[x] \ {"pending", "sleeping"})
           wakes == ~superseded /\ thread_state[x] \cap {"dead", "aborting"} = {}
<1>3. /\ wakes => /\ thread_state' = [thread_state EXCEPT ![x] = awake]
                  /\ pended_on' = [pended_on EXCEPT ![x] = None]
      /\ ~wakes => UNCHANGED <<thread_state, pended_on>>
  BY <1>1, <1>2 DEF z_thread_timeout, ThreadTimeout, z_sched_wake_thread_locked
<1>4. /\ awake \in SUBSET Flags
      /\ "pending" \notin awake /\ "sleeping" \notin awake
      /\ \A f \in {"dead", "suspended", "aborting", "suspending"} : f \in awake <=> f \in thread_state[x]
      /\ "queued" \in awake <=> "queued" \in thread_state[x] \/ z_is_thread_ready(awake)
  <2>1. thread_state[x] \ {"pending", "sleeping"} \in SUBSET Flags
    BY DEF SchedInv, SchedTypeOK
  <2> QED
    BY <2>1, ReadyEffect
<1> HIDE DEF awake
<1>5. wakes => /\ ~OnCpu(x) /\ x \notin active /\ "queued" \notin thread_state[x]
               /\ "aborting" \notin awake /\ "dead" \notin awake
  BY <1>1, <1>2, <1>4
  DEF SchedInv, ThreadInv, Armed, AsleepOrDead, Running, Good, z_is_thread_ready
<1>6. DeadStays
  BY <1>3, <1>4 DEF DeadStays, SchedInv, SchedTypeOK
<1>7. OnCpu(x)' <=> OnCpu(x)
  BY <1>1 DEF OnCpu
<1>8. ThreadInv(x)'
  <2>1. CASE wakes
    <3>1. thread_state'[x] = awake /\ pended_on'[x] = None
      BY <1>3, <2>1 DEF SchedInv, SchedTypeOK
    <3>2. Running(x)' /\ Armed(x)' /\ StaleMarked(x)'
      BY <1>1, <1>5, <1>7, <2>1 DEF Running, Armed, StaleMarked, dispatchVars
    <3>3. FlagsSane(x)'
      BY <1>1, <1>4, <1>5, <1>6, <2>1, <3>1, QueueNames
      DEF FlagsSane, DeadStays, SchedInv, ThreadInv
    <3>4. Good(x)'
      BY <1>1, <1>4, <1>5, <1>7, <2>1, <3>1
      DEF Good, Waiting, TimeoutOnItsWay, dispatchVars, SchedInv, ThreadInv, z_is_thread_ready
    <3> QED
      BY <3>2, <3>3, <3>4 DEF ThreadInv
  <2>2. CASE ~wakes
    <3>1. thread_state' = thread_state /\ pended_on' = pended_on
      BY <1>3, <2>2
    <3>2. Running(x)' /\ Armed(x)' /\ StaleMarked(x)'
      BY <1>1, <1>7, <3>1
      DEF Running, Armed, StaleMarked, AsleepOrDead, dispatchVars, SchedInv, ThreadInv
    <3>3. FlagsSane(x)'
      BY <1>1, <1>7, <3>1 DEF FlagsSane, SchedInv, ThreadInv
    <3>4. superseded \/ "dead" \in thread_state[x]
      BY <1>1, <1>2, <2>2
      DEF SchedInv, ThreadInv, FlagsSane, Armed, AsleepOrDead, Running
    <3>5. Good(x)'
      BY <1>1, <1>7, <3>1, <3>4
      DEF Good, Waiting, TimeoutOnItsWay, dispatchVars, SchedInv, ThreadInv
    <3> QED
      BY <3>2, <3>3, <3>5 DEF ThreadInv
  <2> QED
    BY <2>1, <2>2
<1>9. ASSUME NEW u \in Threads \ {x} PROVE ThreadInv(u)'
  <2>1. Untouched(u)
    BY <1>1, <1>2, <1>3 DEF Untouched, Around, InHandler, dispatchVars, SchedInv, SchedTypeOK
  <2> QED
    BY <1>6, <2>1, UntouchedKeepsInv
<1>10. SchedTypeOK' /\ HandlerPhase'
  <2>1. thread_state' \in [Threads -> SUBSET Flags]
        /\ pended_on' \in [Threads -> Objects \cup {None} \cup ({"join", "halt"} \X Threads)]
    BY <1>3, <1>4 DEF SchedInv, SchedTypeOK
  <2> QED
    BY <1>1, <2>1 DEF SchedInv, SchedTypeOK, DispatchTypeOK, HandlerPhase, dispatchVars
<1>11. HaltWaitersReleased'
  BY <1>1, <1>3, <1>4, WaitersStayReleased DEF SchedInv, SchedTypeOK
<1> QED
  BY <1>8, <1>9, <1>10, <1>11 DEF SchedInv

(***************************************************************************)
(* k_wakeup() and k_thread_resume(): a prevention flag is cleared.         *)
(***************************************************************************)
LEMMA ResumeKeepsInv ==
    ASSUME SchedInv, NEW u \in Threads, NEW flag \in {"sleeping", "suspended"},
           flag \in thread_state[u],
           thread_state' = [thread_state EXCEPT ![u] = ready_thread(@ \ {flag})],
           UNCHANGED <<pended_on, swap_retval, current, handler, call, target, timed,
                       robbed, aborted>>,
           \/ flag = "suspended" /\ UNCHANGED <<dispatchVars, stale>>
           \/ /\ flag = "sleeping" /\ TryAbort(u)
              /\ stale' = (stale \/ (handler = "entered" /\ inflight_timeout = u))
    PROVE  SchedInv'
<1>1. ~OnCpu(u) /\ ~OnCpu(u)'
  BY DEF SchedInv, ThreadInv, Running, OnCpu
<1>2. thread_state[u] \ {flag} \in SUBSET Flags
  BY DEF SchedInv, SchedTypeOK
<1>3. /\ thread_state'[u] \in SUBSET Flags
      /\ \A f : f # "queued" => (f \in thread_state'[u] <=> f \in thread_state[u] /\ f # flag)
      /\ "queued" \in thread_state'[u] <=> "queued" \in thread_state[u] \/ z_is_thread_ready(thread_state'[u])
  BY <1>2, ReadyEffect DEF SchedInv, SchedTypeOK
<1>4. "queued" \notin thread_state[u]
  BY DEF SchedInv, ThreadInv, Good, z_is_thread_ready
<1>5. DeadStays
  BY <1>3 DEF DeadStays, SchedInv, SchedTypeOK
<1>6. /\ \A v \in Threads : v # u => (v \in active' <=> v \in active)
      /\ inflight_timeout # u => (superseded' <=> superseded) /\ (stale' <=> stale)
      /\ UNCHANGED <<inflight_timeout, announcing_cpu>>
      /\ flag = "suspended" => UNCHANGED <<active, superseded, stale>>
      /\ flag = "sleeping" => u \notin active' /\ (inflight_timeout = u => superseded')
  <2>1. CASE flag = "suspended"
    BY <2>1 DEF dispatchVars
  <2>2. CASE flag = "sleeping"
    <3>1. TryAbort(u) /\ (stale' <=> stale \/ (handler = "entered" /\ inflight_timeout = u))
      BY <2>2
    <3> QED
      BY <2>2, <3>1 DEF TryAbort
  <2> QED
    BY <2>1, <2>2
<1>7. ThreadInv(u)'
  <2>1. Running(u)' /\ Armed(u)' /\ StaleMarked(u)'
    <3>1. Running(u)'
      BY <1>1 DEF Running
    <3>2. CASE flag = "suspended"
      BY <1>3, <1>6, <3>1, <3>2 DEF Armed, StaleMarked, AsleepOrDead, SchedInv, ThreadInv
    <3>3. CASE flag = "sleeping"
      BY <1>6, <3>1, <3>3 DEF Armed, StaleMarked
    <3> QED
      BY <3>2, <3>3
  <2>2. FlagsSane(u)'
    BY <1>1, <1>3, <1>5 DEF FlagsSane, DeadStays, SchedInv, ThreadInv
  <2>3. CASE flag = "sleeping"
    <3>1. "pending" \notin thread_state'[u] /\ "sleeping" \notin thread_state'[u]
      BY <1>3, <2>3 DEF FlagsSane, SchedInv, ThreadInv
    <3>2. ~Waiting(u)' /\ ~TimeoutOnItsWay(u)'
      BY <1>6, <2>3, <3>1 DEF Waiting, TimeoutOnItsWay
    <3> QED
      BY <1>1, <1>3, <1>4, <2>1, <2>2, <2>3, <3>1, <3>2
      DEF ThreadInv, Good, z_is_thread_ready, SchedInv
  <2>4. CASE flag = "suspended"
    <3>1. Waiting(u)' <=> Waiting(u)
      BY <1>3, <2>4 DEF Waiting
    <3>2. TimeoutOnItsWay(u)' <=> TimeoutOnItsWay(u)
      BY <1>6, <2>4 DEF TimeoutOnItsWay
    <3> QED
      BY <1>1, <1>3, <1>4, <2>1, <2>2, <2>4, <3>1, <3>2
      DEF ThreadInv, Good, z_is_thread_ready, SchedInv
  <2> QED
    BY <2>3, <2>4
<1>8. ASSUME NEW v \in Threads \ {u} PROVE ThreadInv(v)'
  <2>1. Untouched(v)
    BY <1>6 DEF Untouched, Around, InHandler, SchedInv, SchedTypeOK
  <2> QED
    BY <1>5, <2>1, UntouchedKeepsInv
<1>9. SchedTypeOK' /\ HandlerPhase'
  <2>1. thread_state' \in [Threads -> SUBSET Flags]
    BY <1>3 DEF SchedInv, SchedTypeOK
  <2>2. DispatchTypeOK' /\ stale' \in BOOLEAN
    BY DEF SchedInv, SchedTypeOK, DispatchTypeOK, TryAbort, dispatchVars
  <2> QED
    BY <1>6, <2>1, <2>2 DEF SchedInv, SchedTypeOK, HandlerPhase
<1>10. HaltWaitersReleased'
  BY <1>3, WaitersStayReleased DEF SchedInv, SchedTypeOK
<1> QED
  BY <1>7, <1>8, <1>9, <1>10 DEF SchedInv

(***************************************************************************)
(* z_thread_halt() after the wait: the timeout of the target is aborted,   *)
(* also if the target is only suspended, which makes it `robbed`.          *)
(***************************************************************************)
LEMMA HaltReturnsKeepsInv ==
    ASSUME SchedInv, NEW c \in Cpus, NEW t \in Threads, HaltReturns(c, t)
    PROVE  SchedInv'
<1>1. /\ current[c] = t /\ call[t] = "halt" /\ "dead" \notin thread_state[t]
      /\ TryAbort(target[t])
      /\ UNCHANGED <<thread_state, pended_on, swap_retval, current, handler, timed, stale>>
  BY DEF HaltReturns, Resumes, Executes
<1>2. PICK u \in Threads : u = target[t]
  BY <1>1 DEF SchedInv, ThreadInv, FlagsSane
<1>3. /\ robbed' = IF u \in active \/ inflight_timeout = u THEN robbed \cup {u} ELSE robbed
      /\ \/ UNCHANGED <<call, target, aborted>>
         \/ /\ call' = [call EXCEPT ![t] = "none"]
            /\ target' = [target EXCEPT ![t] = None]
            /\ aborted' = IF "dead" \in thread_state[u] THEN aborted \cup {u} ELSE aborted
  BY <1>2 DEF HaltReturns
<1>4. /\ active' = active \ {u}
      /\ superseded' <=> superseded \/ inflight_timeout = u
      /\ superseded' \in BOOLEAN
      /\ UNCHANGED <<announcing_cpu, inflight_timeout>>
  BY <1>1, <1>2 DEF TryAbort
<1>5. ASSUME NEW v \in Threads PROVE ThreadInv(v)'
  <2>1. OnCpu(v)' <=> OnCpu(v)
    BY <1>1 DEF OnCpu
  <2>2. /\ v \in robbed => v \in robbed'
        /\ v \in aborted' => v \in aborted \/ (v = u /\ "dead" \in thread_state[u])
        /\ (call'[v] = call[v] /\ target'[v] = target[v]) \/ (v = t /\ call'[v] = "none")
    BY <1>3 DEF SchedInv, SchedTypeOK
  <2>3. Running(v)'
    BY <1>1, <2>1, <2>2 DEF Running, SchedInv, ThreadInv
  <2>4. Armed(v)' /\ StaleMarked(v)'
    BY <1>1, <1>4 DEF Armed, StaleMarked, AsleepOrDead, SchedInv, ThreadInv
  <2>5. FlagsSane(v)'
    BY <1>1, <2>1, <2>2 DEF FlagsSane, SchedInv, ThreadInv
  <2>6. TimeoutOnItsWay(v)' => TimeoutOnItsWay(v) /\ v # u
    BY <1>1, <1>4 DEF TimeoutOnItsWay
  <2>7. TimeoutOnItsWay(v) => TimeoutOnItsWay(v)' \/ v \in robbed'
    BY <1>1, <1>3, <1>4 DEF TimeoutOnItsWay
  <2>8. Good(v)'
    BY <1>1, <2>1, <2>2, <2>6, <2>7 DEF Good, Waiting, SchedInv, ThreadInv
  <2> QED
    BY <2>3, <2>4, <2>5, <2>8 DEF ThreadInv
<1>6. SchedTypeOK' /\ HandlerPhase'
  <2>1. DispatchTypeOK'
    BY <1>4 DEF SchedInv, SchedTypeOK, DispatchTypeOK
  <2>2. call' \in [Threads -> Calls] /\ target' \in [Threads -> Threads \cup {None}]
        /\ robbed' \subseteq Threads /\ aborted' \subseteq Threads
    BY <1>3 DEF SchedInv, SchedTypeOK, Calls
  <2> QED
    BY <1>1, <1>4, <2>1, <2>2 DEF SchedInv, SchedTypeOK, HandlerPhase
<1>7. HaltWaitersReleased'
  BY <1>1, <1>3, WaitersStayReleased DEF SchedInv, SchedTypeOK
<1> QED
  BY <1>5, <1>6, <1>7 DEF SchedInv

(***************************************************************************)
(* A blocking call returns.                                                *)
(***************************************************************************)
LEMMA ReturnKeepsInv ==
    ASSUME SchedInv, NEW c \in Cpus, NEW t \in Threads, current[c] = t,
           "dead" \notin thread_state[t], call[t] \notin {"halt", "retry"},
           call' = [call EXCEPT ![t] = "none"],
           target' = target \/ target' = [target EXCEPT ![t] = None],
           swap_retval' = [swap_retval EXCEPT ![t] = "0"],
           UNCHANGED <<dispatchVars, thread_state, pended_on, current, handler, historyVars>>
    PROVE  SchedInv'
<1>1. ASSUME NEW v \in Threads PROVE ThreadInv(v)'
  <2>1. OnCpu(v)' <=> OnCpu(v)
    BY DEF OnCpu
  <2>2. (call'[v] = call[v] /\ target'[v] = target[v]) \/ (v = t /\ call'[v] = "none")
    BY DEF SchedInv, SchedTypeOK
  <2>3. Running(v)' /\ Armed(v)' /\ StaleMarked(v)'
    BY <2>1, <2>2 DEF Running, Armed, StaleMarked, AsleepOrDead, SchedInv, ThreadInv,
                      dispatchVars, historyVars
  <2>4. FlagsSane(v)' /\ Good(v)'
    BY <2>1, <2>2 DEF FlagsSane, Good, Waiting, TimeoutOnItsWay, SchedInv, ThreadInv,
                      dispatchVars, historyVars
  <2> QED
    BY <2>3, <2>4 DEF ThreadInv
<1>2. SchedTypeOK' /\ HandlerPhase'
  BY DEF SchedInv, SchedTypeOK, DispatchTypeOK, Calls, HandlerPhase, dispatchVars, historyVars
<1>3. HaltWaitersReleased'
  BY WaitersStayReleased DEF SchedInv, SchedTypeOK
<1> QED
  BY <1>1, <1>2, <1>3 DEF SchedInv

-----------------------------------------------------------------------------
(***************************************************************************)
(* The initial state satisfies the inductive invariant.                    *)
(***************************************************************************)
LEMMA SchedInvInit == SchedInit => SchedInv
<1> SUFFICES ASSUME SchedInit PROVE SchedInv
  OBVIOUS
<1>1. SchedTypeOK
  BY DEF SchedInit, DispatchInit, SchedTypeOK, DispatchTypeOK, Flags, Calls
<1>2. HandlerPhase /\ HaltWaitersReleased
  BY QueueNames DEF SchedInit, DispatchInit, HandlerPhase, HaltWaitersReleased
<1>3. ASSUME NEW t \in Threads PROVE ThreadInv(t)
  <2>1. ~OnCpu(t) /\ thread_state[t] = {"queued"}
    BY NoThreadNone DEF SchedInit, OnCpu
  <2> QED
    BY <2>1, QueueNames DEF SchedInit, DispatchInit, ThreadInv, Running, Armed, StaleMarked, FlagsSane, Good,
                z_is_thread_ready, Waiting, TimeoutOnItsWay, OnCpu
<1> QED
  BY <1>1, <1>2, <1>3 DEF SchedInv

(***************************************************************************)
(* Every step of the scheduler preserves the invariant.                    *)
(***************************************************************************)
LEMMA SchedInvStep == SchedInv /\ SchedNext => SchedInv'
<1> SUFFICES ASSUME SchedInv, SchedNext PROVE SchedInv'
  OBVIOUS
<1>1. ASSUME NEW c \in Cpus, TimeoutStep(c) PROVE SchedInv'
  BY <1>1, PoppedKeepsInv, HandlerKeepsInv DEF TimeoutStep
<1>2. ASSUME NEW u \in Threads, z_impl_k_wakeup(u) PROVE SchedInv'
  <2>1. /\ "sleeping" \in thread_state[u] /\ TryAbort(u)
        /\ thread_state' = [thread_state EXCEPT ![u] = ready_thread(@ \ {"sleeping"})]
        /\ stale' = (stale \/ (handler = "entered" /\ inflight_timeout = u))
        /\ UNCHANGED <<pended_on, swap_retval, current, handler, call, target, timed,
                       robbed, aborted>>
    BY <1>2 DEF z_impl_k_wakeup
  <2> QED
    BY <2>1, ResumeKeepsInv
<1>3. ASSUME NEW u \in Threads, z_impl_k_thread_resume(u) PROVE SchedInv'
  <2>1. /\ "suspended" \in thread_state[u]
        /\ thread_state' = [thread_state EXCEPT ![u] = ready_thread(@ \ {"suspended"})]
        /\ UNCHANGED <<dispatchVars, pended_on, swap_retval, current, handler, call, target,
                       timed, stale, robbed, aborted>>
    BY <1>3 DEF z_impl_k_thread_resume, historyVars
  <2> QED
    BY <2>1, ResumeKeepsInv
<1>4. ASSUME NEW c \in Cpus, NEW t \in Threads, SchedStep(c, t) PROVE SchedInv'
  <2>1. CASE Dispatch(c, t) \/ Preempt(c, t) \/ HaltReturns(c, t)
    BY <2>1, DispatchKeepsInv, PreemptKeepsInv, HaltReturnsKeepsInv
  <2>2. CASE \E wait \in Waits : z_impl_k_sleep_ticks(c, t, wait)
    BY <2>2, SleepKeepsInv
  <2>3. ASSUME NEW u \in Threads, z_impl_k_thread_suspend(c, t, u) PROVE SchedInv'
    BY <2>3, SuspendKeepsInv
  <2>4. ASSUME NEW u \in Threads, z_impl_k_thread_abort(c, t, u) PROVE SchedInv'
    <3>1. Runs(c, t) /\ current[c] = t /\ call[t] = "none" /\ "dead" \notin thread_state[t]
      BY <2>4 DEF z_impl_k_thread_abort, Runs, Executes
    <3>2. CASE HaltElsewhere(c, t, u, "aborting", join_queue(u))
      BY <3>1, <3>2, HaltElsewhereKeepsInv
    <3>3. CASE ~thread_active_elsewhere(c, u) /\ halt_thread(c, t, u)
      <4>1. u = t \/ ~OnCpu(u)
        BY <3>1, <3>3 DEF thread_active_elsewhere, OnCpu
      <4> QED
        BY <3>1, <3>3, <4>1, HaltKeepsInv
    <3> QED
      BY <2>4, <3>2, <3>3 DEF z_impl_k_thread_abort
  <2>5. ASSUME NEW u \in Threads, NEW wait \in Waits, z_impl_k_thread_join(c, t, u, wait)
        PROVE  SchedInv'
    <3>1. /\ Runs(c, t) /\ "dead" \notin thread_state[u] /\ t # u
          /\ call' = [call EXCEPT ![t] = "join"] /\ target' = [target EXCEPT ![t] = u]
          /\ z_pend_curr(c, t, join_queue(u), wait) /\ UNCHANGED <<robbed, aborted>>
      BY <2>5 DEF z_impl_k_thread_join
    <3>2. /\ \A v \in Threads : join_queue(u) \in {join_queue(v), halt_queue(v)} =>
                v # t /\ "dead" \notin thread_state[v]
          /\ join_queue(u) \in Objects \cup ({"join", "halt"} \X Threads)
          /\ "join" \in Calls \ {"halt", "retry"}
      BY <3>1, QueueNames DEF join_queue, halt_queue, Calls
    <3> QED
      BY <3>1, <3>2, PendKeepsInv
  <2>6. CASE HaltRetries(c, t)
    <3>1. current[c] = t /\ call[t] = "retry" /\ halt_thread(c, t, target[t])
      BY <2>6 DEF HaltRetries, Executes
    <3>2. PICK u \in Threads : u = target[t]
      BY <3>1 DEF SchedInv, ThreadInv, FlagsSane
    <3> QED
      BY <3>1, <3>2, HaltKeepsInv
  <2>7. CASE JoinReturns(c, t)
    <3>1. /\ current[c] = t /\ "dead" \notin thread_state[t] /\ call[t] = "join"
          /\ call' = [call EXCEPT ![t] = "none"] /\ target' = [target EXCEPT ![t] = None]
          /\ swap_retval' = [swap_retval EXCEPT ![t] = "0"]
          /\ UNCHANGED <<dispatchVars, thread_state, pended_on, current, handler, historyVars>>
      BY <2>7 DEF JoinReturns, Resumes, Executes, historyVars
    <3> QED
      BY <3>1, ReturnKeepsInv
  <2> QED
    BY <1>4, <2>1, <2>2, <2>3, <2>4, <2>5, <2>6, <2>7 DEF SchedStep
<1> QED
  BY <1>1, <1>2, <1>3, <1>4 DEF SchedNext

(***************************************************************************)
(* The scheduler puts no thread on the wait queue of a kernel object, and  *)
(* a thread that stays on one stays in the call that put it there.         *)
(***************************************************************************)
LEMMA SchedAddsNoWaiter ==
    ASSUME SchedInv, SchedNext, NEW u \in Threads, pended_on'[u] \in Objects
    PROVE  pended_on[u] = pended_on'[u] /\ call'[u] = call[u]
<1> SchedTypeOK
  BY DEF SchedInv
<1> None \notin Objects
  BY SchedAssumption
<1>1. ASSUME NEW c \in Cpus, TimeoutStep(c) PROVE pended_on[u] = pended_on'[u] /\ call'[u] = call[u]
  BY <1>1 DEF TimeoutStep, TimeoutPopped, z_thread_timeout, ThreadTimeout, HandlerDone,
              z_sched_wake_thread_locked, SchedTypeOK
<1>2. ASSUME NEW v \in Threads, z_impl_k_wakeup(v) \/ z_impl_k_thread_resume(v)
      PROVE  pended_on[u] = pended_on'[u] /\ call'[u] = call[u]
  BY <1>2 DEF z_impl_k_wakeup, z_impl_k_thread_resume
<1>3. ASSUME NEW c \in Cpus, NEW t \in Threads, SchedStep(c, t)
      PROVE  pended_on[u] = pended_on'[u] /\ call'[u] = call[u]
  <2>1. CASE Dispatch(c, t)
    BY <2>1 DEF Dispatch
  <2>2. CASE Preempt(c, t)
    BY <2>2 DEF Preempt, next_up, unpend_all, SchedTypeOK
  <2>3. ASSUME NEW wait \in Waits, z_impl_k_sleep_ticks(c, t, wait)
        PROVE  pended_on[u] = pended_on'[u] /\ call'[u] = call[u]
    BY <2>3 DEF z_impl_k_sleep_ticks, next_up, unpend_all, SchedTypeOK
  <2>4. ASSUME NEW v \in Threads, NEW flag, NEW q \in {join_queue(v), halt_queue(v)},
               HaltElsewhere(c, t, v, flag, q), current[c] = t
        PROVE  pended_on[u] = pended_on'[u] /\ call'[u] = call[u]
    <3>1. q \notin Objects
      BY QueueNames
    <3>2. pended_on[t] = None
      BY <2>4, CurrentAwake
    <3>3. pended_on[u] = pended_on'[u]
      BY <2>4, <3>1 DEF HaltElsewhere, next_up, unpend_all, SchedTypeOK
    <3>4. u # t
      BY <3>2, <3>3
    <3> QED
      BY <2>4, <3>3, <3>4 DEF HaltElsewhere, SchedTypeOK
  <2>5. ASSUME NEW v \in Threads, z_impl_k_thread_suspend(c, t, v)
        PROVE  pended_on[u] = pended_on'[u] /\ call'[u] = call[u]
    <3>1. current[c] = t
      BY <2>5 DEF z_impl_k_thread_suspend, Runs, Executes
    <3>2. CASE HaltElsewhere(c, t, v, "suspending", halt_queue(v))
      BY <2>4, <3>1, <3>2
    <3>3. CASE ~HaltElsewhere(c, t, v, "suspending", halt_queue(v))
      BY <2>5, <3>3 DEF z_impl_k_thread_suspend, unpend_all
    <3> QED
      BY <3>2, <3>3
  <2>6. ASSUME NEW v \in Threads, halt_thread(c, t, v), current[c] = t
        PROVE  pended_on[u] = pended_on'[u] /\ call'[u] = call[u]
    <3>1. pended_on[t] = None
      BY <2>6, CurrentAwake
    <3>2. pended_on[u] = pended_on'[u]
      BY <2>6 DEF halt_thread, HaltThread, unpend_all, SchedTypeOK
    <3>3. u # t
      BY <3>1, <3>2
    <3> QED
      BY <2>6, <3>2, <3>3 DEF halt_thread, HaltThread, SchedTypeOK
  <2>7. ASSUME NEW v \in Threads, z_impl_k_thread_abort(c, t, v)
        PROVE  pended_on[u] = pended_on'[u] /\ call'[u] = call[u]
    BY <2>4, <2>6, <2>7 DEF z_impl_k_thread_abort, Runs, Executes
  <2>8. ASSUME NEW v \in Threads, NEW wait \in Waits, z_impl_k_thread_join(c, t, v, wait)
        PROVE  pended_on[u] = pended_on'[u] /\ call'[u] = call[u]
    <3>1. current[c] = t /\ join_queue(v) \notin Objects
      BY <2>8, QueueNames DEF z_impl_k_thread_join, Runs, Executes
    <3>2. pended_on[t] = None
      BY <3>1, CurrentAwake
    <3>3. pended_on[u] = pended_on'[u]
      BY <2>8, <3>1 DEF z_impl_k_thread_join, z_pend_curr, next_up, unpend_all, SchedTypeOK
    <3>4. u # t
      BY <3>2, <3>3
    <3> QED
      BY <2>8, <3>3, <3>4 DEF z_impl_k_thread_join, SchedTypeOK
  <2>9. CASE HaltReturns(c, t) \/ JoinReturns(c, t)
    <3>1. current[c] = t /\ UNCHANGED pended_on
      BY <2>9 DEF HaltReturns, JoinReturns, Resumes, Executes
    <3>2. u # t
      BY <3>1, CurrentAwake
    <3> QED
      BY <2>9, <3>1, <3>2 DEF HaltReturns, JoinReturns, SchedTypeOK
  <2>10. CASE HaltRetries(c, t)
    <3>1. current[c] = t /\ call[t] = "retry" /\ halt_thread(c, t, target[t])
      BY <2>10 DEF HaltRetries, Executes
    <3>2. PICK v \in Threads : v = target[t]
      BY <3>1 DEF SchedInv, ThreadInv, FlagsSane
    <3> QED
      BY <2>6, <3>1, <3>2
  <2> QED
    BY <1>3, <2>1, <2>2, <2>3, <2>5, <2>7, <2>8, <2>9, <2>10 DEF SchedStep
<1> QED
  BY <1>1, <1>2, <1>3 DEF SchedNext

\* The calls in which a thread waits for an object.
ObjectCalls == {"take", "put", "get"}

\* What a step of the scheduler may do to a thread in such a call.
CallKept(u) ==
    /\ call'[u] \in ObjectCalls \/ call[u] \in ObjectCalls => call'[u] = call[u]
    /\ call[u] \in ObjectCalls /\ pended_on[u] \in Objects \cup {None} =>
           pended_on'[u] \in {pended_on[u], None} /\ swap_retval'[u] = swap_retval[u]

(***************************************************************************)
(* No thread enters or leaves a call on an object by a step of the         *)
(* scheduler.  It may be taken off the object's wait queue, but what its   *)
(* call is going to return is not touched: only the object grants it.      *)
(***************************************************************************)
LEMMA SchedKeepsObjectCall ==
    ASSUME SchedInv, SchedNext, NEW u \in Threads
    PROVE  CallKept(u)
<1> SchedTypeOK
  BY DEF SchedInv
<1> USE DEF ObjectCalls, CallKept
<1>0. pended_on[u] \in Objects \cup {None} =>
          \A v \in Threads : u \notin HaltWaiters(v) /\ u \notin wait_q(halt_queue(v))
  BY QueueNames DEF HaltWaiters, wait_q
<1>1. ASSUME NEW c \in Cpus, TimeoutStep(c) PROVE CallKept(u)
  BY <1>1 DEF TimeoutStep, TimeoutPopped, z_thread_timeout, ThreadTimeout, HandlerDone,
              z_sched_wake_thread_locked, SchedTypeOK
<1>2. ASSUME NEW v \in Threads, z_impl_k_wakeup(v) \/ z_impl_k_thread_resume(v)
      PROVE  CallKept(u)
  BY <1>2 DEF z_impl_k_wakeup, z_impl_k_thread_resume
<1>3. ASSUME NEW c \in Cpus, NEW t \in Threads, SchedStep(c, t) PROVE CallKept(u)
  <2>1. CASE Dispatch(c, t)
    BY <2>1 DEF Dispatch
  <2>2. CASE Preempt(c, t)
    BY <1>0, <2>2 DEF Preempt, next_up, unpend_all, SchedTypeOK
  <2>3. ASSUME NEW wait \in Waits, z_impl_k_sleep_ticks(c, t, wait) PROVE CallKept(u)
    BY <1>0, <2>3 DEF z_impl_k_sleep_ticks, Runs, next_up, unpend_all, SchedTypeOK
  <2>4. ASSUME NEW v \in Threads, NEW flag, NEW q, HaltElsewhere(c, t, v, flag, q), Runs(c, t)
        PROVE  CallKept(u)
    BY <1>0, <2>4 DEF HaltElsewhere, Runs, next_up, unpend_all, SchedTypeOK
  <2>5. ASSUME NEW v \in Threads, z_impl_k_thread_suspend(c, t, v) PROVE CallKept(u)
    <3>1. CASE HaltElsewhere(c, t, v, "suspending", halt_queue(v))
      BY <2>4, <2>5, <3>1 DEF z_impl_k_thread_suspend
    <3>2. CASE ~HaltElsewhere(c, t, v, "suspending", halt_queue(v))
      BY <1>0, <2>5, <3>2 DEF z_impl_k_thread_suspend, unpend_all
    <3> QED
      BY <3>1, <3>2
  <2>6. ASSUME NEW v \in Threads, halt_thread(c, t, v), call[t] \in {"none", "retry"}
        PROVE  CallKept(u)
    BY <1>0, <2>6 DEF halt_thread, HaltThread, unpend_all, SchedTypeOK
  <2>7. ASSUME NEW v \in Threads, z_impl_k_thread_abort(c, t, v) PROVE CallKept(u)
    BY <2>4, <2>6, <2>7 DEF z_impl_k_thread_abort, Runs
  <2>8. ASSUME NEW v \in Threads, NEW wait \in Waits, z_impl_k_thread_join(c, t, v, wait)
        PROVE  CallKept(u)
    BY <1>0, <2>8 DEF z_impl_k_thread_join, Runs, z_pend_curr, next_up, unpend_all, SchedTypeOK
  <2>9. CASE HaltReturns(c, t) \/ JoinReturns(c, t)
    BY <2>9 DEF HaltReturns, JoinReturns, Resumes, SchedTypeOK
  <2>10. CASE HaltRetries(c, t)
    <3>1. call[t] = "retry" /\ halt_thread(c, t, target[t])
      BY <2>10 DEF HaltRetries
    <3>2. PICK v \in Threads : v = target[t]
      BY <3>1 DEF SchedInv, ThreadInv, FlagsSane
    <3> QED
      BY <2>6, <3>1, <3>2
  <2> QED
    BY <1>3, <2>1, <2>2, <2>3, <2>5, <2>7, <2>8, <2>9, <2>10 DEF SchedStep
<1> QED
  BY <1>1, <1>2, <1>3 DEF SchedNext

\* The step takes a thread off the wait queue of an object.
Leaves(u) == pended_on[u] \in Objects /\ pended_on'[u] # pended_on[u]

(***************************************************************************)
(* A step of the scheduler takes at most one thread off the wait queues of *)
(* the objects: the one that times out or is aborted.                      *)
(***************************************************************************)
LEMMA OneLeaves ==
    ASSUME SchedInv, SchedNext, NEW u \in Threads, NEW v \in Threads, Leaves(u), Leaves(v)
    PROVE  u = v
<1> SchedTypeOK
  BY DEF SchedInv
<1> None \notin Objects
  BY SchedAssumption
<1> USE DEF Leaves
<1>0. ASSUME NEW x \in Threads, Leaves(x), NEW w \in Threads
      PROVE  x \notin HaltWaiters(w) /\ x \notin wait_q(halt_queue(w))
  BY <1>0, QueueNames DEF HaltWaiters, wait_q
<1>1. ASSUME NEW c \in Cpus, TimeoutStep(c) PROVE u = v
  BY <1>1 DEF TimeoutStep, TimeoutPopped, z_thread_timeout, ThreadTimeout, HandlerDone,
              z_sched_wake_thread_locked, SchedTypeOK
<1>2. ASSUME NEW w \in Threads, z_impl_k_wakeup(w) \/ z_impl_k_thread_resume(w) PROVE u = v
  BY <1>2 DEF z_impl_k_wakeup, z_impl_k_thread_resume
<1>3. ASSUME NEW c \in Cpus, NEW t \in Threads, SchedStep(c, t) PROVE u = v
  <2>1. CASE Dispatch(c, t) \/ HaltReturns(c, t) \/ JoinReturns(c, t)
    BY <2>1 DEF Dispatch, HaltReturns, JoinReturns
  <2>2. ASSUME NEW w \in Threads, halt_thread(c, t, w) PROVE u = v
    BY <1>0, <2>2 DEF halt_thread, HaltThread, unpend_all, SchedTypeOK
  <2>3. ASSUME current[c] = t, NEW x \in Threads, Leaves(x) PROVE x # t
    BY <2>3, CurrentAwake
  <2>4. CASE Preempt(c, t)
    <3>1. u # t
      BY <2>3, <2>4 DEF Preempt, Executes
    <3> QED
      BY <1>0, <2>4, <3>1 DEF Preempt, next_up, unpend_all, SchedTypeOK
  <2>5. ASSUME NEW wait \in Waits, z_impl_k_sleep_ticks(c, t, wait) PROVE u = v
    <3>1. u # t
      BY <2>3, <2>5 DEF z_impl_k_sleep_ticks, Runs, Executes
    <3> QED
      BY <1>0, <2>5, <3>1 DEF z_impl_k_sleep_ticks, next_up, unpend_all, SchedTypeOK
  <2>6. ASSUME NEW w \in Threads, NEW flag, NEW q, HaltElsewhere(c, t, w, flag, q), Runs(c, t)
        PROVE  u = v
    <3>1. u # t
      BY <2>3, <2>6 DEF Runs, Executes
    <3> QED
      BY <1>0, <2>6, <3>1 DEF HaltElsewhere, next_up, unpend_all, SchedTypeOK
  <2>7. ASSUME NEW w \in Threads, z_impl_k_thread_suspend(c, t, w) PROVE u = v
    <3>1. CASE HaltElsewhere(c, t, w, "suspending", halt_queue(w))
      BY <2>6, <2>7, <3>1 DEF z_impl_k_thread_suspend
    <3>2. CASE ~HaltElsewhere(c, t, w, "suspending", halt_queue(w))
      BY <1>0, <2>7, <3>2 DEF z_impl_k_thread_suspend, unpend_all
    <3> QED
      BY <3>1, <3>2
  <2>8. ASSUME NEW w \in Threads, z_impl_k_thread_abort(c, t, w) PROVE u = v
    BY <2>2, <2>6, <2>8 DEF z_impl_k_thread_abort
  <2>9. ASSUME NEW w \in Threads, NEW wait \in Waits, z_impl_k_thread_join(c, t, w, wait)
        PROVE  u = v
    <3>1. u # t
      BY <2>3, <2>9 DEF z_impl_k_thread_join, Runs, Executes
    <3> QED
      BY <1>0, <2>9, <3>1 DEF z_impl_k_thread_join, z_pend_curr, next_up, unpend_all, SchedTypeOK
  <2>10. CASE HaltRetries(c, t)
    <3>1. call[t] = "retry" /\ halt_thread(c, t, target[t])
      BY <2>10 DEF HaltRetries
    <3>2. PICK w \in Threads : w = target[t]
      BY <3>1 DEF SchedInv, ThreadInv, FlagsSane
    <3> QED
      BY <2>2, <3>1, <3>2
  <2> QED
    BY <1>3, <2>1, <2>4, <2>5, <2>7, <2>8, <2>9, <2>10 DEF SchedStep
<1> QED
  BY <1>1, <1>2, <1>3 DEF SchedNext

(***************************************************************************)
(* A thread that pends on an object is on its wait queue with -EAGAIN as   *)
(* the answer, or dies at once; threads that wait for other objects are    *)
(* not disturbed.                                                          *)
(***************************************************************************)
LEMMA PendEffect ==
    ASSUME SchedInv, NEW c \in Cpus, NEW t \in Threads, Runs(c, t), NEW q \in Objects,
           NEW wait, z_pend_curr(c, t, q, wait)
    PROVE  /\ pended_on'[t] \in {q, None} /\ swap_retval'[t] = "EAGAIN"
           /\ \A u \in Threads \ {t} : pended_on[u] \in Objects \cup {None} =>
                  pended_on'[u] = pended_on[u] /\ swap_retval'[u] = swap_retval[u]
           /\ \A u \in Threads : pended_on'[u] \in Objects => pended_on'[u] = pended_on[u] \/ u = t
<1>1. current[c] = t
  BY DEF Runs, Executes
<1>2. t \notin HaltWaiters(t) /\ t \notin wait_q(halt_queue(t))
  BY <1>1, CurrentAwake DEF HaltWaiters
<1>3. ASSUME NEW u \in Threads, pended_on[u] \in Objects \cup {None}
      PROVE  u \notin HaltWaiters(t) /\ u \notin wait_q(halt_queue(t))
  BY <1>3, QueueNames DEF HaltWaiters, wait_q
<1> None \notin Objects
  BY SchedAssumption
<1> QED
  BY <1>2, <1>3 DEF z_pend_curr, next_up, unpend_all, SchedInv, SchedTypeOK

(***************************************************************************)
(* The handler of a timeout whose wait has ended leaves the thread states  *)
(* alone: it was marked superseded, or the thread is dead.                 *)
(***************************************************************************)
LEMMA StaleHandlerBails ==
    ASSUME SchedInv, SchedNext, stale, handler = "entered", handler' = "done"
    PROVE  UNCHANGED thread_state
<1>1. PICK x \in Threads : x = inflight_timeout
  BY SchedAssumption DEF SchedInv, SchedTypeOK, DispatchTypeOK, HandlerPhase
<1>2. superseded \/ "dead" \in thread_state[x]
  BY <1>1 DEF SchedInv, ThreadInv, StaleMarked
<1>3. PICK c \in Cpus : z_thread_timeout(c)
  BY DEF SchedNext, TimeoutStep, SchedStep, TimeoutPopped, Popped, HandlerDone, Dispatch, Preempt,
         z_impl_k_sleep_ticks, z_impl_k_thread_suspend, z_impl_k_thread_abort, HaltElsewhere,
         z_impl_k_thread_join, z_pend_curr, HaltReturns, HaltRetries, halt_thread, HaltThread,
         JoinReturns, z_impl_k_wakeup, z_impl_k_thread_resume, next_up, unpend_all
<1> QED
  BY <1>1, <1>2, <1>3 DEF z_thread_timeout, ThreadTimeout, z_sched_wake_thread_locked

(***************************************************************************)
(* Whoever completes the halt of a thread has found no handler of its      *)
(* timeout in flight, or a newer timeout linked: -EAGAIN goes on waiting.  *)
(***************************************************************************)
LEMMA HaltWaitsForHandler ==
    ASSUME SchedInv, SchedNext, NEW u \in aborted', u \notin aborted, inflight_timeout' = u
    PROVE  u \in active
<1>1. ASSUME NEW c \in Cpus, NEW t \in Threads, NEW v,
             Executes(c, t), halt_thread(c, t, v)
      PROVE  u \in active
  <2>1. u = v /\ AbortResult(c, v) # "EAGAIN" /\ inflight_timeout = u
    BY <1>1 DEF halt_thread, HaltThread, unpend_all
  <2>2. announcing_cpu # c
    BY <1>1 DEF Executes
  <2> QED
    BY <2>1, <2>2 DEF AbortResult
<1>2. ASSUME NEW c \in Cpus, NEW t \in Threads, HaltReturns(c, t)
      PROVE  u \in active
  <2>1. u = target[t] /\ AbortResult(c, u) # "EAGAIN" /\ inflight_timeout = u
    BY <1>2 DEF HaltReturns, TryAbort
  <2>2. announcing_cpu # c
    BY <1>2 DEF HaltReturns, Resumes, Executes
  <2> QED
    BY <2>1, <2>2 DEF AbortResult
<1>3. aborted' # aborted
  OBVIOUS
<1>4. ASSUME NEW c \in Cpus, TimeoutStep(c) PROVE FALSE
  BY <1>3, <1>4 DEF TimeoutStep, TimeoutPopped, HandlerDone, z_thread_timeout, ThreadTimeout
<1>5. ASSUME NEW v \in Threads, z_impl_k_wakeup(v) \/ z_impl_k_thread_resume(v) PROVE FALSE
  BY <1>3, <1>5 DEF z_impl_k_wakeup, z_impl_k_thread_resume, historyVars
<1>6. ASSUME NEW c \in Cpus, NEW t \in Threads, SchedStep(c, t) PROVE u \in active
  <2>1. CASE Dispatch(c, t) \/ Preempt(c, t) \/ JoinReturns(c, t)
    BY <1>3, <2>1 DEF Dispatch, Preempt, JoinReturns
  <2>2. ASSUME NEW wait \in Waits, z_impl_k_sleep_ticks(c, t, wait) PROVE FALSE
    BY <1>3, <2>2 DEF z_impl_k_sleep_ticks
  <2>3. ASSUME NEW v \in Threads, z_impl_k_thread_suspend(c, t, v) PROVE FALSE
    BY <1>3, <2>3 DEF z_impl_k_thread_suspend, HaltElsewhere
  <2>4. ASSUME NEW v \in Threads, NEW wait \in Waits, z_impl_k_thread_join(c, t, v, wait)
        PROVE  FALSE
    BY <1>3, <2>4 DEF z_impl_k_thread_join
  <2>5. ASSUME NEW v \in Threads, z_impl_k_thread_abort(c, t, v) PROVE u \in active
    BY <1>1, <1>3, <2>5 DEF z_impl_k_thread_abort, HaltElsewhere, Runs
  <2>6. CASE HaltRetries(c, t)
    BY <1>1, <2>6 DEF HaltRetries
  <2> QED
    BY <1>2, <1>6, <2>1, <2>2, <2>3, <2>4, <2>5, <2>6 DEF SchedStep
<1> QED
  BY <1>4, <1>5, <1>6 DEF SchedNext

(***************************************************************************)
(* A step that leaves the scheduler alone preserves the invariant.         *)
(***************************************************************************)
LEMMA SchedInvStutters == SchedInv /\ UNCHANGED schedVars => SchedInv'
  BY DEF schedVars, dispatchVars, threadVars, historyVars, SchedInv, SchedTypeOK, DispatchTypeOK,
         HandlerPhase, ThreadInv, Running, Armed, StaleMarked, FlagsSane, Good, OnCpu, AsleepOrDead,
         Waiting, TimeoutOnItsWay, HaltWaitersReleased

=============================================================================
