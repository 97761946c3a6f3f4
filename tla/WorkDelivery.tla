---------------------------- MODULE WorkDelivery ----------------------------
(***************************************************************************)
(* What the work queues, their workers and the retry protocol promise to   *)
(* the producer, without messages, tags, stages, processes or channels:    *)
(* an image that was published is stored until it is settled, and only     *)
(* what somebody works on is settled, published again or withdrawn.        *)
(***************************************************************************)
CONSTANT Images

VARIABLES
    due,     \* published and not settled since
    stored,  \* with a unit in the broker, waiting or unacknowledged
    working  \* with a task that works on one of its units

vars == <<due, stored, working>>

Init == due = {} /\ stored = {} /\ working = {}

Publish(i) ==
    /\ due' = due \cup {i}
    /\ stored' = stored \cup {i}
    /\ UNCHANGED working

Receive(i) ==
    /\ i \in stored
    /\ working' = working \cup {i}
    /\ UNCHANGED <<due, stored>>

(* Success, release, terminal error or dead letter. *)
Settle(i) ==
    /\ i \in working
    /\ due' = due \ {i}
    /\ UNCHANGED <<stored, working>>

(* Somebody who works on an image stores a further unit of it. *)
Retry(i) ==
    /\ i \in working
    /\ stored' = stored \cup {i}
    /\ UNCHANGED <<due, working>>

(* The end of a task: the last unit of an image is only withdrawn once the *)
(* image is settled.                                                       *)
Finish(i) ==
    /\ i \in working
    /\ working' \in {working, working \ {i}}
    /\ \/ UNCHANGED stored
       \/ i \notin due /\ stored' = stored \ {i}
    /\ UNCHANGED due

(* A process dies: whatever it worked on stays stored. *)
Abandon ==
    /\ working' \in SUBSET working
    /\ UNCHANGED <<due, stored>>

Next ==
    \/ \E i \in Images : \/ Publish(i) \/ Receive(i) \/ Settle(i)
                         \/ Retry(i) \/ Finish(i)
    \/ Abandon

Spec == Init /\ [][Next]_vars
=============================================================================
