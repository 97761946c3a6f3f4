--------------------------- MODULE RabbitChannel ---------------------------
(***************************************************************************)
(* RabbitMQClient as one worker process drives it: delivery tags, which    *)
(* mean something only on the channel that issued them, the counter of     *)
(* outstanding deliveries, and the reconnect it gates.                     *)
(*                                                                         *)
(* A task's ending (ack, or publish and ack, or nack) runs on the event    *)
(* loop without an await, so it is one step.  The broker is seen through   *)
(* the channel: what waits in the queues is TilesPipeline's subject.       *)
(***************************************************************************)
EXTENDS Integers, FiniteSets

CONSTANTS
    Slots,     \* WORKER_CONCURRENCY tasks of the drain loop
    MaxTag,    \* bound: deliveries on one channel
    MaxChan    \* bound: channels in a behaviour

ASSUME SlotsAssumption == IsFiniteSet(Slots)
ASSUME BoundsAssumption == MaxTag \in Nat /\ MaxChan \in Nat \ {0}

VARIABLES
    chan,         \* number of the channel opened last
    open,         \* whether that channel is open
    lastTag,      \* last delivery tag the broker issued on it
    unacked,      \* tags the broker holds unacknowledged on it
    outstanding,  \* RabbitMQClient._outstanding_deliveries
    mode,         \* "running", "stopping" (_running is False), "down"
    running,      \* tasks with a delivery to settle
    tag, origin,  \* their delivery tag and the channel it came from
    sent          \* what the last basic_ack or basic_nack named

vars == <<chan, open, lastTag, unacked, outstanding, mode, running, tag, origin,
          sent>>

Init ==
    /\ chan = 1
    /\ open = TRUE
    /\ lastTag = 0
    /\ unacked = {}
    /\ outstanding = 0
    /\ mode = "running"
    /\ running = {}
    /\ tag = [s \in Slots |-> 0]
    /\ origin = [s \in Slots |-> 0]
    /\ sent = "nothing"

-----------------------------------------------------------------------------
(* Client operations.  Each is given the counter it starts from, as one    *)
(* ending may run several of them.                                         *)

(* Mutant: no floor. *)
Settled_NoFloor(n) == n - 1

(* _settle_delivery, floored at zero. *)
Settled(n) == IF n = 0 THEN 0 ELSE n - 1

(* The connection breaks: the broker requeues what was unacknowledged.     *)
Breaks == open' = FALSE /\ unacked' = {}

(* The broker settles a tag it issued; a tag it did not issue on this      *)
(* channel is a PRECONDITION_FAILED and closes the channel.                *)
BrokerSettles(s) ==
    IF tag[s] \in unacked THEN open' = open /\ unacked' = unacked \ {tag[s]}
    ELSE Breaks

(* ack and nack: the counter first, then the broker if the channel is open *)
Settle(s) ==
    /\ outstanding' = Settled(outstanding)
    /\ IF open THEN /\ BrokerSettles(s)
                    /\ sent' = IF origin[s] = chan THEN "own" ELSE "stale"
       ELSE UNCHANGED <<open, unacked, sent>>
    /\ UNCHANGED <<chan, lastTag>>

(* Mutant: a dead channel is always replaced. *)
MayReconnect_Always(n) == chan < MaxChan

(* _ensure_channel hands out the open channel, and declines to replace a   *)
(* dead one while a delivery is outstanding.                               *)
MayReconnect(n) == n = 0 /\ chan < MaxChan

(* _discard_connection and connect: a new channel numbers its tags anew.   *)
Reconnect ==
    /\ chan' = chan + 1
    /\ lastTag' = 0

(* An ack right after a reconnect names a tag of the old channel, which is *)
(* none of the new one's: the broker closes it.                            *)
RefusedAck ==
    /\ Breaks
    /\ outstanding' = Settled(0)
    /\ sent' = "stale"

Ends(s) == running' = running \ {s} /\ UNCHANGED <<mode, tag, origin>>

-----------------------------------------------------------------------------
(* Mutant: the delivery is not counted. *)
basic_get_one_Uncounted(s) ==
    /\ lastTag < MaxTag
    /\ lastTag' = lastTag + 1
    /\ unacked' = unacked \cup {lastTag'}
    /\ running' = running \cup {s}
    /\ tag' = [tag EXCEPT ![s] = lastTag']
    /\ origin' = [origin EXCEPT ![s] = chan]
    /\ UNCHANGED outstanding

(* _basic_get_one: a decodable message. *)
basic_get_one(s) ==
    /\ lastTag < MaxTag
    /\ lastTag' = lastTag + 1
    /\ unacked' = unacked \cup {lastTag'}
    /\ running' = running \cup {s}
    /\ tag' = [tag EXCEPT ![s] = lastTag']
    /\ origin' = [origin EXCEPT ![s] = chan]
    /\ outstanding' = outstanding + 1

PollOne(s) ==
    /\ mode = "running" /\ open /\ s \notin running
    /\ basic_get_one(s)
    /\ UNCHANGED <<chan, open, mode, sent>>

(* An undecodable body is dead-lettered on the spot and never counted. *)
PollUndecodable ==
    /\ mode = "running" /\ open /\ running # Slots
    /\ lastTag < MaxTag
    /\ lastTag' = lastTag + 1
    /\ UNCHANGED <<chan, open, unacked, outstanding, mode, running, tag, origin,
                   sent>>

(* Success, skip, release, missing source: ack.  Shutdown, and any failure *)
(* of a worker that stops: nack.                                           *)
SettleUnit(s) ==
    /\ s \in running
    /\ Settle(s)
    /\ Ends(s)

(* A failed attempt: publish the retry or the dead letter, then ack.  With *)
(* a dead channel publish raises and the task dies; the counter keeps it.  *)
FailUnit(s) ==
    /\ s \in running /\ mode = "running"
    /\ \/ open /\ Settle(s)
       \/ /\ ~open
          /\ IF MayReconnect(outstanding) THEN Reconnect /\ RefusedAck
             ELSE UNCHANGED <<chan, open, lastTag, unacked, outstanding, sent>>
    /\ Ends(s)

(* The connection breaks inside a basic_ack or basic_nack.  Out of an      *)
(* except clause, the exception ends the task.  Out of the ack of a        *)
(* successful unit it lands in the generic handler: in a worker that runs, *)
(* that publishes a retry -- on a new connection when the counter, already *)
(* decreased, has reached zero -- and then acks the old tag there, or the  *)
(* publish raises; in a worker that stops, it nacks, and the counter is    *)
(* lowered a second time for the one delivery.                             *)
AckRaises(s) ==
    /\ s \in running /\ open
    /\ \/ /\ Breaks
          /\ outstanding' = Settled(outstanding)
          /\ UNCHANGED <<chan, lastTag, sent>>
       \/ /\ mode = "running" /\ MayReconnect(Settled(outstanding))
          /\ Reconnect
          /\ RefusedAck
       \/ /\ mode = "stopping"
          /\ Breaks
          /\ outstanding' = Settled(Settled(outstanding))
          /\ UNCHANGED <<chan, lastTag, sent>>
    /\ Ends(s)

(* An inline downloader publishes its rendering units while its own        *)
(* delivery is outstanding.  Declined, or with the broker away, the unit   *)
(* fails: its retry cannot be published either and the task dies, or, in a *)
(* worker that stops, it is nacked.                                        *)
InlinePublish(s) ==
    /\ s \in running /\ ~open
    /\ \/ /\ MayReconnect(outstanding)
          /\ Reconnect
          /\ open' = TRUE /\ unacked' = {} /\ outstanding' = 0
          /\ UNCHANGED <<mode, running, tag, origin, sent>>
       \/ /\ outstanding' = IF mode = "running" THEN outstanding
                            ELSE Settled(outstanding)
          /\ Ends(s)
          /\ UNCHANGED <<chan, open, lastTag, unacked, sent>>

(* release_progress raises out of an except clause: the task dies, its     *)
(* delivery stays counted.                                                 *)
TaskDies(s) ==
    /\ s \in running
    /\ Ends(s)
    /\ UNCHANGED <<chan, open, lastTag, unacked, outstanding, sent>>

ConnectionDies ==
    /\ open
    /\ Breaks
    /\ UNCHANGED <<chan, lastTag, outstanding, mode, running, tag, origin, sent>>

(* The signal handler: the drain loop polls no more.  (What it still polls *)
(* before it looks at the flag, it polls without an await: as before the   *)
(* signal.)                                                                *)
Signal ==
    /\ mode = "running"
    /\ mode' = "stopping"
    /\ UNCHANGED <<chan, open, lastTag, unacked, outstanding, running, tag, origin,
                   sent>>

ProcessEnds ==
    /\ mode' = "down"
    /\ running' = {}
    /\ UNCHANGED <<chan, lastTag, outstanding, tag, origin, sent>>

(* _drain_inflight has seen every task end; close.  *)
Exit ==
    /\ mode = "stopping" /\ running = {}
    /\ Breaks
    /\ ProcessEnds

(* Mutant: poll_one reports a dead channel as empty queues. *)
DrainEnds_Never == FALSE /\ UNCHANGED vars

(* poll_one raises on a dead channel as soon as a slot is free. *)
DrainEnds ==
    /\ mode = "running" /\ ~open /\ running # Slots
    /\ ProcessEnds
    /\ UNCHANGED <<open, unacked>>

(* service_events meets the broken connection first and raises out of the  *)
(* loop, whatever runs.                                                    *)
ServiceRaises ==
    /\ mode = "running" /\ open
    /\ Breaks
    /\ ProcessEnds

(* A new process: a new client, connected. *)
Restart ==
    /\ mode = "down"
    /\ chan < MaxChan
    /\ Reconnect
    /\ open' = TRUE /\ unacked' = {} /\ outstanding' = 0
    /\ mode' = "running"
    /\ UNCHANGED <<running, tag, origin, sent>>

Next ==
    \/ \E s \in Slots :
          \/ PollOne(s) \/ SettleUnit(s) \/ FailUnit(s) \/ AckRaises(s)
          \/ InlinePublish(s) \/ TaskDies(s)
    \/ PollUndecodable \/ ConnectionDies \/ Signal \/ Exit
    \/ DrainEnds \/ ServiceRaises \/ Restart

Spec == Init /\ [][Next]_vars

(* A unit's handling is bounded in time (WF), the drain loop runs and ends *)
(* (WF) and the container is restarted (WF).                               *)
Fairness ==
    /\ \A s \in Slots : WF_vars(SettleUnit(s))
    /\ WF_vars(DrainEnds)
    /\ WF_vars(Exit)
    /\ WF_vars(Restart)

FairSpec == Spec /\ Fairness

-----------------------------------------------------------------------------
(* Properties. *)

(* Type invariant; no more tags are unacknowledged than were issued.       *)
TypeOK ==
    /\ chan \in 1 .. MaxChan
    /\ open \in BOOLEAN
    /\ lastTag \in 0 .. MaxTag
    /\ unacked \subseteq 1 .. lastTag
    /\ outstanding \in Nat
    /\ mode \in {"running", "stopping", "down"}
    /\ running \subseteq Slots
    /\ tag \in [Slots -> 0 .. MaxTag]
    /\ origin \in [Slots -> 0 .. MaxChan]
    /\ sent \in {"nothing", "own", "stale"}

(* Tasks whose delivery is of the current channel. *)
OfThisChannel == {s \in running : origin[s] = chan}

(* The counter never falls below the deliveries in flight on the current   *)
(* channel, whatever way a task ends; this is what makes "nothing is       *)
(* outstanding" safe to act on.  Excepted is a worker that stops with its  *)
(* channel broken: there an ack that raised has been settled twice.        *)
CounterCoversRunning ==
    mode = "running" \/ open => Cardinality(OfThisChannel) <= outstanding

(* A worker that polls never reconnects under a running task: what a task  *)
(* will settle is of the current channel, unsettled while it is open, and  *)
(* no other task's.  A worker that stops may (after a double settlement),  *)
(* but then no old tag names a delivery of the new channel.  So no task's  *)
(* delivery is ever settled by another's ack.                              *)
RunningTagsValid ==
    \A s \in running :
        /\ mode = "running" => origin[s] = chan
        /\ IF origin[s] = chan THEN open => tag[s] \in unacked
           ELSE tag[s] \notin unacked
        /\ \A u \in running : tag[u] = tag[s] => u = s

(* A worker whose connection died gets a new one.                          *)
ConnectionRecovers == ~open ~> (open \/ chan = MaxChan)

-----------------------------------------------------------------------------
(* What the repository says of the program and the program does not do.    *)

(* "reconnecting here would let the caller publish a retry and then ack a  *)
(* tag that now means nothing": declining to reconnect keeps every ack on  *)
(* the channel its tag came from.  AckRaises gets past it.                 *)
AcksOnOwnChannel == sent # "stale"
=============================================================================
