--------------------------- MODULE BoundedQueue ---------------------------
(***************************************************************************)
(* What a message queue promises its clients: a sequence of at most Max    *)
(* messages, threads that wait only when it is full or empty, and an       *)
(* answer to each waiting call that says what became of its message.       *)
(***************************************************************************)
EXTENDS Naturals, Sequences

CONSTANTS Clients, Messages, Max,
          None   \* no message

VARIABLES queue,    \* messages in the order of delivery
          waiting,  \* call a client waits in: "none", "put", "get"
          data,     \* what a client in a waiting call sends or has received
          answer    \* of the call it waited in, until that returns: "none", "ok", "failed"

vars == <<queue, waiting, data, answer>>

Init ==
    /\ queue = <<>>
    /\ waiting = [t \in Clients |-> "none"]
    /\ data = [t \in Clients |-> None]
    /\ answer = [t \in Clients |-> "none"]

Nobody(call) == \A t \in Clients : waiting[t] # call

Answered(t, a) ==
    /\ waiting' = [waiting EXCEPT ![t] = "none"]
    /\ answer' = [answer EXCEPT ![t] = a]

Put(m) ==
    /\ Len(queue) < Max /\ Nobody("get")
    /\ queue' = Append(queue, m)
    /\ UNCHANGED <<waiting, data, answer>>

PutFront(m) ==
    /\ Len(queue) < Max /\ Nobody("get")
    /\ queue' = <<m>> \o queue
    /\ UNCHANGED <<waiting, data, answer>>

\* A message goes straight to a client that waits for one.
HandOver(t, m) ==
    /\ waiting[t] = "get" /\ queue = <<>>
    /\ Answered(t, "ok")
    /\ data' = [data EXCEPT ![t] = m]
    /\ UNCHANGED queue

\* Head(queue) goes to the caller.
Get ==
    /\ queue # <<>> /\ Nobody("put")
    /\ queue' = Tail(queue)
    /\ UNCHANGED <<waiting, data, answer>>

\* The place that becomes free goes to the message of client u.
GetAndAdmit(u) ==
    /\ waiting[u] = "put" /\ queue # <<>>
    /\ queue' = Append(Tail(queue), data[u])
    /\ Answered(u, "ok")
    /\ UNCHANGED data

WaitToPut(t, m) ==
    /\ Len(queue) = Max
    /\ waiting' = [waiting EXCEPT ![t] = "put"]
    /\ data' = [data EXCEPT ![t] = m]
    /\ UNCHANGED <<queue, answer>>

WaitToGet(t) ==
    /\ queue = <<>>
    /\ waiting' = [waiting EXCEPT ![t] = "get"]
    /\ data' = [data EXCEPT ![t] = None]
    /\ UNCHANGED <<queue, answer>>

GiveUp(t) ==
    /\ waiting[t] # "none"
    /\ Answered(t, "failed")
    /\ UNCHANGED <<queue, data>>

\* The client is stopped as it begins to wait.
Refuse(t, d) ==
    /\ waiting[t] = "none" /\ answer[t] = "none"
    /\ Answered(t, "failed")
    /\ data' = [data EXCEPT ![t] = d]
    /\ UNCHANGED queue

Purge ==
    /\ queue' = <<>>
    /\ waiting' = [t \in Clients |-> "none"]
    /\ answer' = [t \in Clients |-> IF waiting[t] # "none" THEN "failed" ELSE answer[t]]
    /\ data' = [t \in Clients |-> IF waiting[t] # "none" THEN None ELSE data[t]]

Return(t) ==
    /\ answer[t] # "none"
    /\ answer' = [answer EXCEPT ![t] = "none"]
    /\ data' = [data EXCEPT ![t] = None]
    /\ UNCHANGED <<queue, waiting>>

Next ==
    \/ \E m \in Messages : Put(m) \/ PutFront(m)
    \/ \E t \in Clients, m \in Messages : HandOver(t, m) \/ WaitToPut(t, m)
    \/ \E t \in Clients : WaitToGet(t) \/ GiveUp(t) \/ GetAndAdmit(t) \/ Return(t)
    \/ \E t \in Clients, d \in Messages \cup {None} : Refuse(t, d)
    \/ Get
    \/ Purge

Spec == Init /\ [][Next]_vars

=============================================================================
