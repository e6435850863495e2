------------------------------ MODULE MCWork ------------------------------
EXTENDS Work, TLC

CONSTANTS t1, t2

\* CPUs do what any other does, and so do queues.
DelaySymmetry == Permutations(Cpus) \cup Permutations(Queues)

\* One thread synchronises and stops, one submits and cancels; handlers resubmit
\* and cancel.
MCOpsPlain ==
    [x \in Callers |->
        IF x = t1 THEN {"reschedule", "cancel_sync", "flush", "drain", "stop"}
        ELSE IF x = t2 THEN {"reschedule", "cancel", "flush", "unplug"}
        ELSE {"reschedule", "cancel"}]

\* Two threads, the handlers and an interrupt schedule and cancel; one thread waits.
MCOpsDelay ==
    [x \in Callers |->
        IF x = t1 THEN {"schedule", "reschedule", "cancel", "cancel_sync", "flush"}
        ELSE IF x = t2 THEN {"schedule", "reschedule", "cancel"}
        ELSE {"reschedule", "cancel"}]

\* One thread cancels the item and the other schedules it.
MCOpsRetry ==
    [x \in Callers |->
        IF x = t1 THEN {"cancel_sync"} ELSE IF x = t2 THEN {"schedule"} ELSE {}]

\* Both threads cancel the item.
MCOpsTwoCancel ==
    [x \in Callers |-> IF x \in Threads THEN {"reschedule", "cancel_sync"} ELSE {}]

\* A thread and an interrupt schedule the same item.
MCOpsNested ==
    [x \in Callers |-> IF x \in {t1, Isr} THEN {"reschedule"} ELSE {}]

=============================================================================
