------------------------------- MODULE Work -------------------------------
(***************************************************************************)
(* Work items, delayable work and work queues (kernel/work.c) on an SMP    *)
(* system, as a client of the timeout dispatch protocol.  Every action is  *)
(* one stretch of code under work_lock.  The lock is dropped around work   *)
(* handlers, and in unschedule_locked() between two tries to abort a       *)
(* timeout whose handler is in flight on another CPU.                      *)
(*                                                                         *)
(* A plain k_work is an item that is only scheduled with no delay.         *)
(***************************************************************************)
EXTENDS TimeoutDispatch, Integers, SequencesExt

CONSTANTS Queues,    \* work queues; a queue also names its thread
          Threads,   \* other threads (an ISR on another CPU calls like one)
          Isr,       \* an interrupt nested on the one that runs the timeouts
          Delays,    \* K_NO_WAIT, any other delay, K_FOREVER: see WorkAssumption
          Ops        \* the operations each caller makes

Works == Timeouts
Callers == Threads \cup Queues \cup {Isr}

ASSUME WorkAssumption ==
    /\ None \notin Callers
    /\ Works \cap Callers = {} /\ Threads \cap Queues = {} /\ Isr \notin Threads \cup Queues
    /\ Delays \subseteq {"now", "later", "forever"}
    /\ Ops \in [Callers -> SUBSET {"schedule", "reschedule", "cancel", "cancel_sync",
                                   "flush", "drain", "unplug", "stop"}]
    \* An ISR must not block, and work handlers are not made to wait for items.
    /\ \A x \in Callers \ Threads : Ops[x] \cap {"cancel_sync", "flush"} = {}

VARIABLES
  flags,            \* of a work item: QUEUED, RUNNING, CANCELING, DELAYED
  queue,            \* work->queue, the last queue it was submitted to
  delay_queue,      \* dwork->queue, where to submit it after the delay
  pending,          \* per queue: items, and the flushers of waiting threads
  qflags,           \* of a queue: STARTED, BUSY, DRAIN, PLUGGED, STOP
  worker,           \* queue thread: "ready", "waiting", "handler", "exited"
  current,          \* what the queue thread is handling, or None
  pending_cancels,  \* threads waiting for a cancellation, in list order
  call,             \* where each caller is in the API
  handler,          \* work_timeout(): "idle", "entered", "done"
  assert_failed,    \* z_add_timeout() was given a timeout already in the queue
  \* history
  owed,             \* the submission a flushing thread waits for: "queued",
                    \* "running", or "no" when it has finished
  forever,          \* items last scheduled with K_FOREVER
  raced             \* items scheduled again under a retry or a late handler

workVars == <<flags, queue, delay_queue, pending, qflags, worker, current,
              pending_cancels, call, handler, assert_failed, owed, forever, raced>>
vars == <<dispatchVars, workVars>>

Idle == [op |-> "none", pc |-> "idle", work |-> None, queue |-> None, delay |-> "now"]

TypeOK ==
    /\ DispatchTypeOK
    /\ flags \in [Works -> SUBSET {"QUEUED", "RUNNING", "CANCELING", "DELAYED"}]
    /\ queue \in [Works -> Queues \cup {None}]
    /\ delay_queue \in [Works -> Queues \cup {None}]
    /\ pending \in [Queues -> Seq(Works \cup Threads)]
    /\ qflags \in [Queues -> SUBSET {"STARTED", "BUSY", "DRAIN", "PLUGGED", "STOP"}]
    /\ worker \in [Queues -> {"ready", "waiting", "handler", "exited"}]
    /\ current \in [Queues -> Works \cup Threads \cup {None}]
    /\ pending_cancels \in Seq(Threads)
    /\ \A x \in Callers : call[x].pc \in {"idle", "retry", "wait"}
    /\ handler \in {"idle", "entered", "done"}
    /\ assert_failed \in BOOLEAN
    /\ owed \in [Threads -> {"no", "queued", "running"}]
    /\ forever \subseteq Works /\ raced \subseteq Works

\* k_work_init_delayable() for every item, k_work_queue_start() for every queue.
Init ==
    /\ DispatchInit
    /\ flags = [w \in Works |-> {}]
    /\ queue = [w \in Works |-> None] /\ delay_queue = [w \in Works |-> None]
    /\ pending = [q \in Queues |-> <<>>]
    /\ qflags = [q \in Queues |-> {"STARTED"}]
    /\ worker = [q \in Queues |-> "ready"] /\ current = [q \in Queues |-> None]
    /\ pending_cancels = <<>>
    /\ call = [x \in Callers |-> Idle]
    /\ handler = "idle" /\ assert_failed = FALSE
    /\ owed = [x \in Threads |-> "no"]
    /\ forever = {} /\ raced = {}

-----------------------------------------------------------------------------
(* The *_locked() functions, on a record s of the state they change.       *)

State == [flags |-> flags, queue |-> queue, pending |-> pending, worker |-> worker]

Commit(s) ==
    /\ flags' = s.flags
    /\ queue' = s.queue
    /\ pending' = s.pending
    /\ worker' = s.worker

\* The queue thread looks for work again if it is waiting on notifyq.
notify_queue_locked(s, q) ==
    [s EXCEPT !.worker[q] = IF @ = "waiting" THEN "ready" ELSE @]

(***************************************************************************)
(* Whether queue q takes a submission by x: chained submissions come from  *)
(* the queue's own thread.                                                 *)
(***************************************************************************)
queue_submit_locked(x, q) ==
    /\ q # None
    /\ "STARTED" \in qflags[q]
    /\ "DRAIN" \in qflags[q] => x = q
    /\ "PLUGGED" \in qflags[q] => "DRAIN" \in qflags[q]

\* Mutant: a running item goes to the queue asked for.
SubmitQueueAsAsked(s, w, q) == IF q = None THEN s.queue[w] ELSE q

\* A running item goes to the queue that runs it.
SubmitQueue(s, w, q) ==
    IF q = None \/ "RUNNING" \in s.flags[w] THEN s.queue[w] ELSE q

\* Mutant: accepts an item that is being cancelled.
submit_ignores_canceling(x, s, w, q) ==
    LET to == SubmitQueue(s, w, q)
    IN  IF "QUEUED" \notin s.flags[w] /\ queue_submit_locked(x, to)
        THEN notify_queue_locked([s EXCEPT !.flags[w] = @ \cup {"QUEUED"},
                                           !.queue[w] = to,
                                           !.pending[to] = Append(@, w)], to)
        ELSE s

submit_to_queue_locked(x, s, w, q) ==
    LET to == SubmitQueue(s, w, q)
    IN  IF /\ {"CANCELING", "QUEUED"} \cap s.flags[w] = {}
           /\ queue_submit_locked(x, to)
        THEN notify_queue_locked([s EXCEPT !.flags[w] = @ \cup {"QUEUED"},
                                           !.queue[w] = to,
                                           !.pending[to] = Append(@, w)], to)
        ELSE s

\* Mutant: the flusher always goes first.
queue_flusher_prepends(s, w, x) ==
    [s EXCEPT !.pending[s.queue[w]] = <<x>> \o @]

\* The flusher of thread x goes right behind the item, or first if it is running.
queue_flusher_locked(s, w, x) ==
    [s EXCEPT !.pending[s.queue[w]] =
        IF "QUEUED" \in s.flags[w]
        THEN InsertAt(@, 1 + SelectInSeq(@, LAMBDA i : i = w), x)
        ELSE <<x>> \o @]

NeedsFlush(s, w) == {"QUEUED", "RUNNING"} \cap s.flags[w] # {}

work_flush_locked(s, w, x) ==
    IF NeedsFlush(s, w)
    THEN notify_queue_locked(queue_flusher_locked(s, w, x), s.queue[w])
    ELSE s

queue_remove_locked(s, w) ==
    IF "QUEUED" \in s.flags[w]
    THEN [s EXCEPT !.flags[w] = @ \ {"QUEUED"}, !.pending[s.queue[w]] = RemoveFirst(@, w)]
    ELSE s

cancel_async_locked(s, w) ==
    LET removed == IF "CANCELING" \in s.flags[w] THEN s ELSE queue_remove_locked(s, w)
    IN  IF removed.flags[w] = {} THEN removed
        ELSE [removed EXCEPT !.flags[w] = @ \cup {"CANCELING"}]

-----------------------------------------------------------------------------
(* The rest of an operation, once unschedule_locked() is through: s is the *)
(* state and act the timeouts in the queue at that point.                  *)

Returns(x) == call' = [call EXCEPT ![x] = Idle]

Waits(x, op, w, q) ==
    call' = [call EXCEPT ![x] = [Idle EXCEPT !.op = op, !.pc = "wait", !.work = w, !.queue = q]]

\* z_add_timeout() does nothing with K_FOREVER.
schedule_for_queue_locked(x, s, act, w, q, delay) ==
    /\ IF delay = "now"
       THEN /\ Commit(submit_to_queue_locked(x, s, w, q))
            /\ active' = act
            /\ UNCHANGED <<delay_queue, assert_failed, forever>>
       ELSE /\ Commit([s EXCEPT !.flags[w] = @ \cup {"DELAYED"}])
            /\ delay_queue' = [delay_queue EXCEPT ![w] = q]
            /\ IF delay = "forever"
               THEN /\ active' = act /\ forever' = forever \cup {w}
                    /\ UNCHANGED assert_failed
               ELSE /\ active' = act \cup {w} /\ forever' = forever \ {w}
                    /\ assert_failed' = (w \in act)
    /\ Returns(x)
    /\ UNCHANGED pending_cancels

CancelRest(x, s, act, w) ==
    /\ Commit(cancel_async_locked(s, w))
    /\ active' = act
    /\ Returns(x)
    /\ UNCHANGED <<delay_queue, assert_failed, forever, pending_cancels>>

CancelSyncRest(x, s, act, w) ==
    LET cancelled == cancel_async_locked(s, w)
    IN
    /\ Commit(cancelled)
    /\ active' = act
    /\ UNCHANGED <<delay_queue, assert_failed, forever>>
    /\ IF "CANCELING" \in cancelled.flags[w]
       THEN pending_cancels' = Append(pending_cancels, x) /\ Waits(x, "cancel_sync", w, None)
       ELSE Returns(x) /\ UNCHANGED pending_cancels

\* claimed: unschedule_locked() returned true.
FlushRest(x, s, act, w, claimed) ==
    LET submitted == IF claimed THEN submit_to_queue_locked(x, s, w, delay_queue[w]) ELSE s
    IN
    /\ Commit(work_flush_locked(submitted, w, x))
    /\ active' = act
    /\ IF NeedsFlush(submitted, w) THEN Waits(x, "flush", w, None) ELSE Returns(x)
    /\ UNCHANGED <<delay_queue, assert_failed, forever, pending_cancels>>

Rest(x, op, w, q, delay, s, act, claimed) ==
    \/ op = "reschedule" /\ schedule_for_queue_locked(x, s, act, w, q, delay)
    \/ op = "cancel" /\ CancelRest(x, s, act, w)
    \/ op = "cancel_sync" /\ CancelSyncRest(x, s, act, w)
    \/ op = "flush" /\ FlushRest(x, s, act, w, claimed)

\* Mutant: goes on without waiting for a handler in flight.
TryUnscheduleNoWait(x, c, op, w, q, delay, s) ==
    /\ superseded' = (superseded \/ inflight_timeout = w)
    /\ Rest(x, op, w, q, delay, s, active \ {w}, TRUE)

(***************************************************************************)
(* z_try_abort_timeout() in unschedule_locked(), on CPU c: -EAGAIN drops   *)
(* the lock and tries again, anything else goes on with the operation.     *)
(***************************************************************************)
TryUnschedule(x, c, op, w, q, delay, s) ==
    /\ superseded' = (superseded \/ inflight_timeout = w)
    /\ IF AbortResult(c, w) = "EAGAIN"
       THEN /\ call' = [call EXCEPT ![x] = [op |-> op, pc |-> "retry", work |-> w,
                                            queue |-> q, delay |-> delay]]
            /\ Commit(s)
            /\ UNCHANGED <<active, delay_queue, assert_failed, forever, pending_cancels>>
       ELSE Rest(x, op, w, q, delay, s, active \ {w}, TRUE)

-----------------------------------------------------------------------------
(* The API of work items.                                                  *)

\* x runs on CPU c: only a nested interrupt shares the CPU of the timeouts.
RunsOn(x, c) == (x = Isr) <=> (c = announcing_cpu)

\* Caller x may make the call op; a queue thread calls from a work handler.
May(x, op) ==
    /\ op \in Ops[x]
    /\ call[x] = Idle
    /\ x \in Queues => worker[x] = "handler" /\ current[x] \in Works

\* k_work_schedule_for_queue()
k_work_schedule(x, c, w, q, delay) ==
    /\ May(x, "schedule") /\ RunsOn(x, c)
    /\ flags[w] \subseteq {"RUNNING"}
    /\ schedule_for_queue_locked(x, State, active, w, q, delay)
    /\ UNCHANGED <<announcing_cpu, inflight_timeout, superseded, qflags, current, handler>>

(***************************************************************************)
(* The operations of delayable work that begin with unschedule_locked();   *)
(* the operation on a plain item, which is never DELAYED, is what is left. *)
(* cancel_sync and flush return at once for an idle item.                  *)
(***************************************************************************)
Unscheduling(x, c, op, w, q, delay) ==
    /\ May(x, op) /\ RunsOn(x, c)
    /\ op \in {"cancel_sync", "flush"} => flags[w] # {}
    /\ IF "DELAYED" \in flags[w]
       THEN TryUnschedule(x, c, op, w, q, delay,
                          [State EXCEPT !.flags[w] = @ \ {"DELAYED"}])
       ELSE Rest(x, op, w, q, delay, State, active, FALSE) /\ UNCHANGED superseded
    /\ UNCHANGED <<announcing_cpu, inflight_timeout, qflags, current, handler>>

k_work_reschedule(x, c, w, q, delay) == Unscheduling(x, c, "reschedule", w, q, delay)

k_work_cancel(x, c, w) == Unscheduling(x, c, "cancel", w, None, "now")

k_work_cancel_sync(x, c, w) == Unscheduling(x, c, "cancel_sync", w, None, "now")

k_work_flush(x, c, w) == Unscheduling(x, c, "flush", w, None, "now")

\* Back under work_lock after -EAGAIN, with whatever others did meanwhile.
unschedule_locked(x, c) ==
    /\ call[x].pc = "retry" /\ RunsOn(x, c)
    /\ TryUnschedule(x, c, call[x].op, call[x].work, call[x].queue, call[x].delay, State)
    /\ UNCHANGED <<announcing_cpu, inflight_timeout, qflags, current, handler>>

-----------------------------------------------------------------------------
(* Timeouts of delayable work.                                             *)

\* The announce loop pops the timeout of an item, or moves to the next one.
TimeoutPopped(c) ==
    /\ Announce(c) \/ (handler = "done" /\ call[Isr] = Idle /\ HandlerReturn(c))
    /\ handler' = IF inflight_timeout' = None THEN "idle" ELSE "entered"
    /\ UNCHANGED <<flags, queue, delay_queue, pending, qflags, worker, current,
                   pending_cancels, call, assert_failed, forever>>

work_timeout ==
    LET w == inflight_timeout
    IN
    /\ handler = "entered"
    /\ handler' = "done"
    /\ Commit(IF "DELAYED" \in flags[w]
              THEN submit_to_queue_locked(None,
                       [State EXCEPT !.flags[w] = @ \ {"DELAYED"}], w, delay_queue[w])
              ELSE State)
    /\ UNCHANGED <<dispatchVars, delay_queue, qflags, current, pending_cancels, call,
                   assert_failed, forever>>

-----------------------------------------------------------------------------
(* The queue thread, work_queue_main().                                    *)

WorkerTakes(q) ==
    LET i == Head(pending[q])
    IN
    /\ worker[q] = "ready" /\ pending[q] # <<>>
    /\ pending' = [pending EXCEPT ![q] = Tail(@)]
    /\ qflags' = [qflags EXCEPT ![q] = @ \cup {"BUSY"}]
    /\ worker' = [worker EXCEPT ![q] = "handler"]
    /\ current' = [current EXCEPT ![q] = i]
    /\ flags' = IF i \in Works
                THEN [flags EXCEPT ![i] = (@ \cup {"RUNNING"}) \ {"QUEUED"}] ELSE flags
    /\ UNCHANGED <<dispatchVars, queue, delay_queue, pending_cancels, call, handler,
                   assert_failed, forever>>

(***************************************************************************)
(* Nothing to do: end a drain, or else stop, or go to sleep on notifyq.    *)
(***************************************************************************)
WorkerIdles(q) ==
    /\ worker[q] = "ready" /\ pending[q] = <<>>
    /\ IF "DRAIN" \in qflags[q]
       THEN /\ qflags' = [qflags EXCEPT ![q] = @ \ {"DRAIN"}]
            /\ worker' = [worker EXCEPT ![q] = "waiting"]
            /\ call' = [x \in Callers |->
                          IF call[x].op = "drain" /\ call[x].queue = q THEN Idle ELSE call[x]]
       ELSE IF "STOP" \in qflags[q]
       THEN /\ qflags' = [qflags EXCEPT ![q] = {}]
            /\ worker' = [worker EXCEPT ![q] = "exited"]
            /\ UNCHANGED call
       ELSE /\ worker' = [worker EXCEPT ![q] = "waiting"]
            /\ UNCHANGED <<qflags, call>>
    /\ UNCHANGED <<dispatchVars, flags, queue, delay_queue, pending, current,
                   pending_cancels, handler, assert_failed, forever>>

\* The first thread in the list that waits for the cancellation of w.
FirstCanceller(w) == SelectInSeq(pending_cancels, LAMBDA x : call[x].work = w)

\* Mutant: CANCELING is left for the next cancellation to clear.
finalize_cancel_keeps_flag(q, w) ==
    /\ flags' = [flags EXCEPT ![w] = @ \ {"RUNNING"}]
    /\ UNCHANGED <<pending_cancels, call>>

(***************************************************************************)
(* The handler of w returned; a cancellation is complete and one of the    *)
(* threads waiting for it is released.                                     *)
(***************************************************************************)
finalize_cancel_locked(q, w) ==
    LET k == IF "CANCELING" \in flags[w] THEN FirstCanceller(w) ELSE 0
    IN
    /\ flags' = [flags EXCEPT ![w] = @ \ {"RUNNING", "CANCELING"}]
    /\ IF k = 0 THEN UNCHANGED <<pending_cancels, call>>
       ELSE /\ pending_cancels' = RemoveAt(pending_cancels, k)
            /\ Returns(pending_cancels[k])

\* A flusher was handled: its thread is released.
finalize_flush_locked(x) == Returns(x) /\ UNCHANGED <<flags, pending_cancels>>

WorkHandlerReturns(q) ==
    /\ worker[q] = "handler" /\ call[q] = Idle
    /\ worker' = [worker EXCEPT ![q] = "ready"]
    /\ qflags' = [qflags EXCEPT ![q] = @ \ {"BUSY"}]
    /\ current' = [current EXCEPT ![q] = None]
    /\ IF current[q] \in Works
       THEN finalize_cancel_locked(q, current[q])
       ELSE finalize_flush_locked(current[q])
    /\ UNCHANGED <<dispatchVars, queue, delay_queue, pending, handler, assert_failed, forever>>

-----------------------------------------------------------------------------
(* The API of work queues.                                                 *)

\* Mutant: does not wake the queue thread.
k_work_queue_drain_silent(x, q, plug) ==
    /\ May(x, "drain")
    /\ {"BUSY", "DRAIN"} \cap qflags[q] # {} \/ plug \/ pending[q] # <<>>
    /\ qflags' = [qflags EXCEPT ![q] = @ \cup {"DRAIN"} \cup (IF plug THEN {"PLUGGED"} ELSE {})]
    /\ Waits(x, "drain", None, q)
    /\ UNCHANGED <<dispatchVars, flags, queue, pending, worker, delay_queue, current,
                   pending_cancels, handler, assert_failed, forever>>

k_work_queue_drain(x, q, plug) ==
    /\ May(x, "drain")
    /\ {"BUSY", "DRAIN"} \cap qflags[q] # {} \/ plug \/ pending[q] # <<>>
    /\ qflags' = [qflags EXCEPT ![q] = @ \cup {"DRAIN"} \cup (IF plug THEN {"PLUGGED"} ELSE {})]
    /\ Commit(notify_queue_locked(State, q))
    /\ Waits(x, "drain", None, q)
    /\ UNCHANGED <<dispatchVars, delay_queue, current, pending_cancels, handler, assert_failed, forever>>

k_work_queue_unplug(x, q) ==
    /\ May(x, "unplug")
    /\ qflags' = [qflags EXCEPT ![q] = @ \ {"PLUGGED"}]
    /\ UNCHANGED <<dispatchVars, flags, queue, delay_queue, pending, worker, current,
                   pending_cancels, call, handler, assert_failed, forever>>

\* Mutant: does not wake the queue thread.
k_work_queue_stop_silent(x, q) ==
    /\ May(x, "stop")
    /\ {"STARTED", "PLUGGED"} \subseteq qflags[q]
    /\ qflags' = [qflags EXCEPT ![q] = @ \cup {"STOP"}]
    /\ Waits(x, "stop", None, q)
    /\ UNCHANGED <<dispatchVars, flags, queue, pending, worker, delay_queue, current,
                   pending_cancels, handler, assert_failed, forever>>

\* Refused unless the queue is started and plugged.
k_work_queue_stop(x, q) ==
    /\ May(x, "stop")
    /\ {"STARTED", "PLUGGED"} \subseteq qflags[q]
    /\ qflags' = [qflags EXCEPT ![q] = @ \cup {"STOP"}]
    /\ Commit(notify_queue_locked(State, q))
    /\ Waits(x, "stop", None, q)
    /\ UNCHANGED <<dispatchVars, delay_queue, current, pending_cancels, handler, assert_failed, forever>>

\* k_thread_join() returns, because the queue thread exited or in time.
StopReturns(x) ==
    /\ call[x].op = "stop"
    /\ \/ worker[call[x].queue] = "exited" /\ UNCHANGED qflags
       \/ qflags' = [qflags EXCEPT ![call[x].queue] = @ \ {"STOP"}]
    /\ Returns(x)
    /\ UNCHANGED <<dispatchVars, flags, queue, delay_queue, pending, worker, current,
                   pending_cancels, handler, assert_failed, forever>>

-----------------------------------------------------------------------------
\* The history of what each flushing thread waits for.
TrackFlush ==
    owed' = [x \in Threads |->
        LET w == call'[x].work
            taken == "RUNNING" \in flags'[w] /\ "RUNNING" \notin flags[w]
        IN  IF call'[x].op # "flush" \/ call'[x].pc # "wait" THEN "no"
            ELSE IF call[x].pc # "wait"
            THEN IF "QUEUED" \in flags'[w] THEN "queued" ELSE "running"
            ELSE IF owed[x] = "queued" /\ "QUEUED" \notin flags'[w]
            THEN IF taken THEN "running" ELSE "no"
            ELSE IF owed[x] = "running" /\ "RUNNING" \notin flags'[w] THEN "no"
            ELSE owed[x]]

\* x has dropped the lock between two tries to abort the timeout of w.
Retrying(x, w) == call[x].pc = "retry" /\ call[x].work = w

\* The handler of w's timeout is on its way to work_lock.
HandlerComing(w) == inflight_timeout = w /\ handler = "entered"

(***************************************************************************)
(* The history of items whose last schedule has been overtaken, until they *)
(* are idle again: scheduled while a caller is between two tries to abort  *)
(* the timeout before, or unscheduled by an interrupt that nests on the    *)
(* handler in flight and cannot wait for it.  x is the caller, or None.    *)
(***************************************************************************)
TrackRace(x) ==
    LET overtaken(w) ==
            \/ /\ "DELAYED" \in flags'[w] \ flags[w]
               /\ \E y \in Callers : Retrying(y, w)'
            \/ x = Isr /\ HandlerComing(w) /\ superseded' # superseded
        idle(w) ==
            /\ flags'[w] = {} /\ w \notin active' /\ ~HandlerComing(w)'
            /\ \A y \in Callers : ~Retrying(y, w)'
    IN  raced' = {w \in Works : overtaken(w) \/ (w \in raced /\ ~idle(w))}

History(x) == TrackFlush /\ TrackRace(x)

ItemCall(x, c) ==
    \E w \in Works :
        \/ \E q \in Queues, d \in Delays :
             k_work_schedule(x, c, w, q, d) \/ k_work_reschedule(x, c, w, q, d)
        \/ k_work_cancel(x, c, w)
        \/ k_work_cancel_sync(x, c, w)
        \/ k_work_flush(x, c, w)

QueueCall(x, q) ==
    \/ \E plug \in BOOLEAN : k_work_queue_drain(x, q, plug)
    \/ k_work_queue_unplug(x, q)
    \/ k_work_queue_stop(x, q)

CallerStep(x) ==
    \/ \E c \in Cpus : ItemCall(x, c) \/ unschedule_locked(x, c)
    \/ \E q \in Queues : QueueCall(x, q)
    \/ StopReturns(x)

WorkerStep(q) == WorkerTakes(q) \/ WorkerIdles(q) \/ WorkHandlerReturns(q)

\* A failed assertion is fatal.
Next ==
    /\ ~assert_failed
    /\ \/ \E x \in Callers : CallerStep(x) /\ History(x)
       \/ \E q \in Queues : WorkerStep(q) /\ History(None)
       \/ \E c \in Cpus : TimeoutPopped(c) /\ History(None)
       \/ work_timeout /\ History(None)

Spec == Init /\ [][Next]_vars

(***************************************************************************)
(* Work handlers return and the queue threads get to run.  Nobody is       *)
(* obliged to call the API.                                                *)
(***************************************************************************)
FairSpec == Spec /\ \A q \in Queues : WF_vars(WorkerStep(q) /\ History(None))

-----------------------------------------------------------------------------
(* Properties.                                                             *)

(***************************************************************************)
(* The flags of an item and the queues agree: a QUEUED item is in one      *)
(* pending list, once, and a RUNNING one is handled by one queue thread.   *)
(* With several queues this is what forbids a handler to be re-entered.    *)
(***************************************************************************)
FlagsMatch ==
    \A q \in Queues :
        /\ \A i, j \in DOMAIN pending[q] : pending[q][i] = pending[q][j] => i = j
        /\ \A w \in Works :
            /\ w \in ToSet(pending[q]) <=> "QUEUED" \in flags[w] /\ queue[w] = q
            /\ current[q] = w <=> "RUNNING" \in flags[w] /\ queue[w] = q

(***************************************************************************)
(* k_work_cancel_sync(): when the waiting thread is released the item is   *)
(* neither queued nor running nor still being cancelled.                   *)
(***************************************************************************)
CancelSyncIdle ==
    [][\A x \in Threads :
        call[x].op = "cancel_sync" /\ call[x].pc = "wait" /\ call'[x] = Idle
          => flags'[call[x].work] \subseteq {"DELAYED"}]_vars

(***************************************************************************)
(* k_work_flush(): the thread is released only after the submission that   *)
(* was last when it called has been handled or cancelled, whatever was     *)
(* resubmitted, cancelled or flushed by others in between.                 *)
(***************************************************************************)
FlushWaits ==
    [][\A x \in Threads :
        call[x].op = "flush" /\ call[x].pc = "wait" /\ call'[x] = Idle
          => owed[x] = "no"]_vars

\* The DELAYED flag and the timeout of an item agree.
TimeoutMatches(w) ==
    /\ "DELAYED" \in flags[w] /\ w \notin forever => w \in active \/ HandlerComing(w)
    /\ w \in active => "DELAYED" \in flags[w] /\ w \notin forever

(***************************************************************************)
(* A scheduled item has a timeout in the queue, or a handler on its way    *)
(* that will submit it; and a timeout in the queue is that of a scheduled  *)
(* item, so that scheduling it again finds the timeout free.  Any caller   *)
(* may call at any time, also while unschedule_locked() has dropped the    *)
(* lock: only the item that was scheduled again in that window, or under a *)
(* handler in flight, is excepted, until it is idle again.                 *)
(***************************************************************************)
DelayedArmed == \A w \in Works \ raced : TimeoutMatches(w)

(***************************************************************************)
(* "may also be canceling if it started running before a thread has        *)
(* requested that it be cancelled": an idle item is not marked CANCELING,  *)
(* since only the return of its handler would clear the mark.              *)
(***************************************************************************)
CancelingRuns == \A w \in Works : "CANCELING" \in flags[w] => "RUNNING" \in flags[w]

(***************************************************************************)
(* "release what's waiting for the completion.  The same work item can     *)
(* appear multiple times in the list": a thread waits for a cancellation   *)
(* only while there is a running handler whose return completes it.        *)
(* Excepted as in DelayedArmed.                                            *)
(***************************************************************************)
NoStrandedCanceller ==
    \A x \in Threads :
        call[x].op = "cancel_sync" /\ call[x].pc = "wait" /\ call[x].work \notin raced
          => {"RUNNING", "CANCELING"} \subseteq flags[call[x].work]

(***************************************************************************)
(* z_add_timeout() asserts z_is_inactive_timeout(): an item's timeout is   *)
(* never linked twice.                                                     *)
(***************************************************************************)
TimeoutFreeWhenAdded == ~assert_failed

(***************************************************************************)
(* "we didn't find work nor got asked to stop.  Just go to sleep": a queue *)
(* thread does not sleep on a request to stop.  This asks that one caller  *)
(* drains and stops the queue: the end of another caller's drain goes to   *)
(* sleep without a look at the request.                                    *)
(***************************************************************************)
AwakeForStop == \A q \in Queues : worker[q] = "waiting" => "STOP" \notin qflags[q]

\* A handler submits an item to its own queue while it drains.
ChainedSubmit ==
    \E q \in Queues, w \in Works :
        /\ "DRAIN" \in qflags[q]
        /\ "QUEUED" \notin flags[w] /\ "QUEUED" \in flags'[w] /\ queue'[w] = q

(***************************************************************************)
(* A thread in k_work_cancel_sync() or k_work_flush() returns, and so does *)
(* one in k_work_queue_drain() for a queue that has not been stopped,      *)
(* unless handlers resubmit without end.                                   *)
(***************************************************************************)
SyncReturns ==
    \A x \in Threads :
        /\ call[x].op \in {"cancel_sync", "flush"} ~> call[x] = Idle
        /\ \/ (call[x].op = "drain" /\ worker[call[x].queue] # "exited") ~> call[x] = Idle
           \/ []<><<ChainedSubmit>>_vars

=============================================================================
