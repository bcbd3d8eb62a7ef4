------------------------------ MODULE RunLock ------------------------------
(***************************************************************************)
(* What the control plane's state store promises, without SQL: every task  *)
(* has one run lock, a webhook event can be spent once, and the lock of a  *)
(* task is granted only to an unspent event of that task while the lock is *)
(* free.  An event that was spent never gets the lock (again).             *)
(***************************************************************************)
CONSTANTS
    Task, Event,
    TaskOf,  \* TaskOf[e]: the task event e belongs to
    None     \* not an event

VARIABLES
    holder,  \* holder[t]: the event whose run owns task t, or None
    spent    \* the events that were recorded

vars == <<holder, spent>>

Init ==
    /\ holder = [t \in Task |-> None]
    /\ spent = {}

\* The event is recorded and gets nothing: it was stale, refused, or an
\* operator's answer or cancellation.
Spend(e) ==
    /\ e \notin spent
    /\ spent' = spent \cup {e}
    /\ UNCHANGED holder

Acquire(e) ==
    /\ e \notin spent
    /\ holder[TaskOf[e]] = None
    /\ spent' = spent \cup {e}
    /\ holder' = [holder EXCEPT ![TaskOf[e]] = e]

Release(t) ==
    /\ holder[t] # None
    /\ holder' = [holder EXCEPT ![t] = None]
    /\ UNCHANGED spent

Next ==
    \/ \E e \in Event : Spend(e) \/ Acquire(e)
    \/ \E t \in Task : Release(t)

Spec == Init /\ [][Next]_vars
=============================================================================
