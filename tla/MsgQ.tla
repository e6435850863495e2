------------------------------- MODULE MsgQ -------------------------------
(***************************************************************************)
(* k_msgq (kernel/msg_q.c) on top of the scheduler, built without          *)
(* CONFIG_POLL: a ring buffer and one wait queue for senders and receivers *)
(* alike.  Each call is one hold of msgq->lock, which nests the scheduler  *)
(* lock; thread timeouts take only the latter.  Pointers into the ring are *)
(* slot numbers.                                                           *)
(***************************************************************************)
EXTENDS Sched, Sequences

CONSTANTS msgq,       \* the wait queue of the message queue
          max_msgs,
          Messages

ASSUME MsgQAssumption ==
    /\ msgq \in Objects
    /\ max_msgs \in Nat \ {0}
    /\ None \notin Messages

VARIABLES slots,      \* the ring buffer
          read_ptr, write_ptr, used_msgs,
          swap_data   \* what base.swap_data of a thread in a waiting call points to

ringVars == <<slots, read_ptr, write_ptr, used_msgs>>
vars == <<schedVars, ringVars, swap_data>>

TypeOK ==
    /\ SchedTypeOK
    /\ slots \in [0..(max_msgs - 1) -> Messages \cup {None}]
    /\ read_ptr \in 0..(max_msgs - 1) /\ write_ptr \in 0..(max_msgs - 1)
    /\ used_msgs \in 0..max_msgs
    /\ swap_data \in [Threads -> Messages \cup {None}]

k_msgq_init ==
    /\ SchedInit
    /\ slots = [i \in 0..(max_msgs - 1) |-> None]
    /\ read_ptr = 0 /\ write_ptr = 0 /\ used_msgs = 0
    /\ swap_data = [t \in Threads |-> None]

-----------------------------------------------------------------------------
(* The ring.                                                               *)

\* Mutant: the pointer stops at the last slot.
Advance_saturates(ptr) == IF ptr + 1 = max_msgs THEN ptr ELSE ptr + 1

Advance(ptr) == IF ptr + 1 = max_msgs THEN 0 ELSE ptr + 1

Retreat(ptr) == IF ptr = 0 THEN max_msgs - 1 ELSE ptr - 1

\* Mutant: the wrap is missed when the message is the first of the buffer.
PeekIndex_no_wrap(idx) ==
    LET to_end == max_msgs - read_ptr
    IN  IF to_end < idx THEN idx - to_end ELSE read_ptr + idx

\* z_impl_k_msgq_peek_at(): the slot of message idx, counted from the oldest.
PeekIndex(idx) ==
    LET to_end == max_msgs - read_ptr
    IN  IF to_end <= idx THEN idx - to_end ELSE read_ptr + idx

-----------------------------------------------------------------------------
(* k_msgq_put() and k_msgq_put_front().                                    *)

\* There is space, and a thread waits: it can only be a receiver.
PutHandsOver(m) ==
    /\ used_msgs < max_msgs
    /\ \E w \in wait_q(msgq) :
          /\ swap_data' = [swap_data EXCEPT ![w] = m]
          /\ z_sched_wake({w}, "0")
    /\ UNCHANGED ringVars

PutAtBack(m) ==
    /\ used_msgs < max_msgs /\ wait_q(msgq) = {}
    /\ slots' = [slots EXCEPT ![write_ptr] = m]
    /\ write_ptr' = Advance(write_ptr)
    /\ used_msgs' = used_msgs + 1
    /\ UNCHANGED <<schedVars, read_ptr, swap_data>>

\* Mutant: the message is written before the pointer is moved.
PutAtFront_writes_first(m) ==
    /\ used_msgs < max_msgs /\ wait_q(msgq) = {}
    /\ slots' = [slots EXCEPT ![read_ptr] = m]
    /\ read_ptr' = Retreat(read_ptr)
    /\ used_msgs' = used_msgs + 1
    /\ UNCHANGED <<schedVars, write_ptr, swap_data>>

PutAtFront(m) ==
    /\ used_msgs < max_msgs /\ wait_q(msgq) = {}
    /\ slots' = [slots EXCEPT ![Retreat(read_ptr)] = m]
    /\ read_ptr' = Retreat(read_ptr)
    /\ used_msgs' = used_msgs + 1
    /\ UNCHANGED <<schedVars, write_ptr, swap_data>>

\* Only k_msgq_put() with a timeout waits; the others return -ENOMSG.
PutWaits(c, t, m, wait) ==
    /\ Runs(c, t)
    /\ used_msgs = max_msgs
    /\ swap_data' = [swap_data EXCEPT ![t] = m]
    /\ call' = [call EXCEPT ![t] = "put"]
    /\ z_pend_curr(c, t, msgq, wait)
    /\ UNCHANGED <<target, robbed, aborted, ringVars>>

-----------------------------------------------------------------------------
(* k_msgq_get(): the freed slot is filled with the message of a thread     *)
(* that waits, which can only be a sender.  The message in slot read_ptr   *)
(* goes to the caller, and the slot is forgotten here.                     *)

GetTakes(W) ==
    /\ used_msgs > 0
    /\ read_ptr' = Advance(read_ptr)
    /\ IF W = {}
       THEN /\ slots' = [slots EXCEPT ![read_ptr] = None]
            /\ used_msgs' = used_msgs - 1
            /\ UNCHANGED <<schedVars, write_ptr, swap_data>>
       ELSE \E w \in W :
            /\ slots' = [slots EXCEPT ![read_ptr] = None, ![write_ptr] = swap_data[w]]
            /\ write_ptr' = Advance(write_ptr)
            /\ UNCHANGED <<used_msgs, swap_data>>
            /\ z_sched_wake({w}, "0")

GetWaits(c, t, wait) ==
    /\ used_msgs = 0
    /\ swap_data' = [swap_data EXCEPT ![t] = None]
    /\ call' = [call EXCEPT ![t] = "get"]
    /\ z_pend_curr(c, t, msgq, wait)
    /\ UNCHANGED <<target, robbed, aborted, ringVars>>

\* Mutant: the slot is not offered to the waiting senders.
z_impl_k_msgq_get_admits_none(c, t, wait) ==
    Runs(c, t) /\ (GetTakes({}) \/ GetWaits(c, t, wait))

z_impl_k_msgq_get(c, t, wait) ==
    Runs(c, t) /\ (GetTakes(wait_q(msgq)) \/ GetWaits(c, t, wait))

WaitReturns(c, t) ==
    /\ Resumes(c, t, "put") \/ Resumes(c, t, "get")
    /\ call' = [call EXCEPT ![t] = "none"]
    /\ swap_retval' = [swap_retval EXCEPT ![t] = "0"]
    /\ swap_data' = [swap_data EXCEPT ![t] = None]
    /\ UNCHANGED <<dispatchVars, thread_state, pended_on, current, handler, target,
                   historyVars, ringVars>>

\* Everybody who waits gets -ENOMSG and no data.
z_impl_k_msgq_purge ==
    /\ swap_data' = [t \in Threads |-> IF t \in wait_q(msgq) THEN None ELSE swap_data[t]]
    /\ z_sched_wake(wait_q(msgq), "ENOMSG")
    /\ used_msgs' = 0 /\ read_ptr' = write_ptr
    /\ slots' = [i \in 0..(max_msgs - 1) |-> None]
    /\ UNCHANGED write_ptr

-----------------------------------------------------------------------------
MsgQStep(c, t) ==
    \/ \E m \in Messages, wait \in Waits : PutWaits(c, t, m, wait)
    \/ \E wait \in Waits : z_impl_k_msgq_get(c, t, wait)
    \/ WaitReturns(c, t)

Next ==
    \/ SchedNext /\ UNCHANGED <<ringVars, swap_data>>
    \/ \E c \in Cpus, t \in Threads : MsgQStep(c, t)
    \/ \E m \in Messages : PutHandsOver(m) \/ PutAtBack(m) \/ PutAtFront(m)
    \/ z_impl_k_msgq_purge

Spec == k_msgq_init /\ [][Next]_vars

-----------------------------------------------------------------------------
(* Properties.                                                             *)

(***************************************************************************)
(* The wait queue never mixes senders with receivers: senders wait only    *)
(* while the ring is full and receivers only while it is empty, so that    *)
(* k_msgq_put() may write into the buffer of whomever it finds there and   *)
(* k_msgq_get() may read from it.                                          *)
(***************************************************************************)
WaitersMatch ==
    \A t \in wait_q(msgq) :
        \/ call[t] = "put" /\ used_msgs = max_msgs
        \/ call[t] = "get" /\ used_msgs = 0

(***************************************************************************)
(* The pointers agree with the count across wrap-around, puts at the front *)
(* and purges: write_ptr is used_msgs slots after read_ptr.                *)
(***************************************************************************)
RingConsistent ==
    write_ptr = IF read_ptr + used_msgs < max_msgs THEN read_ptr + used_msgs
                ELSE read_ptr + used_msgs - max_msgs

\* The messages in the ring, oldest first.
Contents == [i \in 1..used_msgs |-> slots[(read_ptr + i - 1) % max_msgs]]

(***************************************************************************)
(* k_msgq_peek_at() reads the message at that position of the queue, on    *)
(* both sides of the wrap, and never outside of the buffer.                *)
(***************************************************************************)
PeekFindsMessage ==
    \A idx \in 0..(used_msgs - 1) :
        /\ PeekIndex(idx) \in 0..(max_msgs - 1)
        /\ slots[PeekIndex(idx)] = Contents[idx + 1]
        /\ Contents[idx + 1] # None

(***************************************************************************)
(* The message queue is a bounded FIFO: whatever timeouts, suspensions,    *)
(* aborts and purges interleave, no message is lost, doubled or delivered  *)
(* out of order, and a waiting call reports success exactly when its       *)
(* message was taken or it was given one.                                  *)
(***************************************************************************)
Queue == INSTANCE BoundedQueue WITH
    Clients <- Threads,
    Max <- max_msgs,
    queue <- Contents,
    waiting <- [t \in Threads |-> IF pended_on[t] = msgq THEN call[t] ELSE "none"],
    data <- swap_data,
    answer <- [t \in Threads |->
        IF call[t] \in {"put", "get"} /\ pended_on[t] # msgq
        THEN (IF swap_retval[t] = "0" THEN "ok" ELSE "failed") ELSE "none"]

ImplementsQueue == Queue!Spec

=============================================================================
