----------------------------- MODULE QueueTiers -----------------------------
(***************************************************************************)
(* The three work queues: where QueueRouter sends a unit, how poll_one     *)
(* walks the two tiers of a worker, and where a unit goes that a worker    *)
(* took from a queue which is not its own.  A normal worker drains the     *)
(* normal queue first and then takes turns between the light ones; a light *)
(* worker has only the light ones.                                         *)
(***************************************************************************)
EXTENDS Naturals, Sequences, SequencesExt

CONSTANTS
    NormalWorkers, LightWorkers,
    Units,       \* work units, named by kind: see Route
    MaxLength    \* bound: messages in a queue

ASSUME TiersAssumption == MaxLength \in Nat /\ NormalWorkers \cap LightWorkers = {}

Consumers == NormalWorkers \cup LightWorkers
Light == <<"radar", "wrf">>
Queues == {"normal", "radar", "wrf"}
Junk == "junk"      \* a body WorkUnit.from_json refuses

VARIABLES
    queue,     \* the messages of a work queue, in order
    rr,        \* RabbitMQClient._rr of a consumer, counted from 1
    held,      \* what a consumer works on: <<>> or <<unit, source queue>>
    bypassed   \* times a consumer served the other light queue while a
               \* message it could have had waited in this one

tiervars == <<queue, rr, held, bypassed>>

TiersInit ==
    /\ queue = [q \in Queues |-> <<>>]
    /\ rr = [w \in Consumers |-> 1]
    /\ held = [w \in Consumers |-> <<>>]
    /\ bypassed = [w \in Consumers |-> [q \in ToSet(Light) |-> 0]]

Room(q) == Len(queue[q]) < MaxLength

-----------------------------------------------------------------------------
(* Radar is light when all_radar_light says so, and the WRF products that  *)
(* light_wrf_products names; anything else is normal.                      *)
Route(u) ==
    CASE u = "radar" -> "radar"
      [] u = "wrf_light" -> "wrf"
      [] OTHER -> "normal"

Publish(u) ==
    /\ Room(Route(u))
    /\ queue' = [queue EXCEPT ![Route(u)] = Append(@, u)]
    /\ UNCHANGED <<rr, held, bypassed>>

(* Another program, or an older version, puts in what cannot be decoded. *)
PublishJunk(q) ==
    /\ Room(q)
    /\ queue' = [queue EXCEPT ![q] = Append(@, Junk)]
    /\ UNCHANGED <<rr, held, bypassed>>

-----------------------------------------------------------------------------
(* poll_one                                                                *)

Other(i) == 3 - i

(* The queues in the order this poll tries them. *)
Order(w) ==
    IF w \in NormalWorkers THEN <<"normal", Light[rr[w]], Light[Other(rr[w])]>>
    ELSE <<Light[rr[w]], Light[Other(rr[w])]>>

(* A queue whose head is junk loses it to the DLQ and counts as empty, so  *)
(* a poll takes the first readable head and drops the junk before it.      *)
Readable(q) == queue[q] # <<>> /\ Head(queue[q]) # Junk
Found(w) == SelectInSeq(Order(w), Readable)
Tried(w) == {Order(w)[i] : i \in 1..(IF Found(w) = 0 THEN Len(Order(w)) ELSE Found(w))}

Drained(w) ==
    [q \in Queues |-> IF q \in Tried(w) /\ queue[q] # <<>> THEN Tail(queue[q])
                                                         ELSE queue[q]]

(* Mutant: the cursor stays at the queue that was served. *)
Turn_Stays(w, q) == IF q = "normal" THEN rr[w] ELSE IF q = "radar" THEN 1 ELSE 2

(* The cursor moves past the light queue that was served, and only then. *)
Turn(w, q) == IF q = "normal" THEN rr[w] ELSE IF q = "radar" THEN 2 ELSE 1

Bypass(w, q, p) ==
    IF p = q \/ queue[p] = <<>> \/ p \in Tried(w) THEN 0
    ELSE IF q = "normal" THEN bypassed[w][p]
    ELSE bypassed[w][p] + 1

PollOne(w) ==
    /\ held[w] = <<>> /\ Found(w) # 0
    /\ LET q == Order(w)[Found(w)] IN
         /\ held' = [held EXCEPT ![w] = <<Head(queue[q]), q>>]
         /\ rr' = [rr EXCEPT ![w] = Turn(w, q)]
         /\ bypassed' = [bypassed EXCEPT ![w] =
                           [p \in ToSet(Light) |-> Bypass(w, q, p)]]
    /\ queue' = Drained(w)

(* Nothing to read: junk at the heads is gone all the same. *)
PollNothing(w) ==
    /\ held[w] = <<>> /\ Found(w) = 0
    /\ queue' = Drained(w)
    /\ bypassed' = [bypassed EXCEPT ![w] = [p \in ToSet(Light) |-> 0]]
    /\ UNCHANGED <<rr, held>>

-----------------------------------------------------------------------------
Ack(w) ==
    /\ held[w] # <<>>
    /\ held' = [held EXCEPT ![w] = <<>>]
    /\ UNCHANGED <<queue, rr, bypassed>>

RetryQueue(w) == held[w][2]

(* _handle_processing_error: the copy goes to the back of the queue the    *)
(* unit came from, and the delivery is acked.                              *)
Retry(w) ==
    /\ held[w] # <<>> /\ Room(RetryQueue(w))
    /\ queue' = [queue EXCEPT ![RetryQueue(w)] = Append(@, held[w][1])]
    /\ held' = [held EXCEPT ![w] = <<>>]
    /\ UNCHANGED <<rr, bypassed>>

(* nack with requeue, or the worker dies: the broker puts the message back *)
(* where it was.  A new process starts with a new cursor.                  *)
Requeue(w) ==
    /\ held[w] # <<>> /\ Room(held[w][2])
    /\ queue' = [queue EXCEPT ![held[w][2]] = <<held[w][1]>> \o @]
    /\ held' = [held EXCEPT ![w] = <<>>]
    /\ \/ UNCHANGED <<rr, bypassed>>
       \/ /\ rr' = [rr EXCEPT ![w] = 1]
          /\ bypassed' = [bypassed EXCEPT ![w] = [p \in ToSet(Light) |-> 0]]

TiersNext ==
    \/ \E u \in Units : Publish(u)
    \/ \E q \in Queues : PublishJunk(q)
    \/ \E w \in Consumers : PollOne(w) \/ PollNothing(w) \/ Ack(w) \/ Retry(w) \/ Requeue(w)

TiersSpec == TiersInit /\ [][TiersNext]_tiervars

-----------------------------------------------------------------------------
TiersTypeOK ==
    /\ queue \in [Queues -> Seq(Units \cup {Junk})]
    /\ rr \in [Consumers -> 1..2]
    /\ held \in [Consumers -> {<<>>} \cup (Units \X Queues)]
    /\ bypassed \in [Consumers -> [ToSet(Light) -> Nat]]

(* Light queues alternate: while a message a worker could have had waits   *)
(* in one of them, that worker serves the other at most once.              *)
LightQueuesAlternate ==
    \A w \in Consumers, q \in ToSet(Light) : bypassed[w][q] <= 1
=============================================================================
