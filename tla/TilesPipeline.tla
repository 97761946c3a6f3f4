--------------------------- MODULE TilesPipeline ---------------------------
(***************************************************************************)
(* The delivery core of tiles-processor: one ImageDiscoveryProducer, the   *)
(* SQLite progress tracker it shares with the workers, the RabbitMQ work   *)
(* queues with manual acknowledgement, the drain loop of every worker and  *)
(* the tilesets the workers leave in S3.                                   *)
(*                                                                         *)
(* Data source listings, palettes, rasters and the three queues a unit may *)
(* be routed to are abstracted away: an image is one tracker key, the      *)
(* listing window is Images, and the broker is a set of messages of which  *)
(* any waiting one may be handed out (redelivery, three queues and several *)
(* consumers already break every order the code could rely on).            *)
(***************************************************************************)
EXTENDS Integers, FiniteSets

CONSTANTS
    Images,      \* the images of the listing window, one tracker key each
    Workers,     \* worker processes
    Slots,       \* WORKER_CONCURRENCY in-flight tasks per worker
    Msgs,        \* identities of the messages the broker can store at once
    MaxRetries,  \* WorkUnit.max_retries
    TTL,         \* JOB_TTL_MINUTES, in clock steps
    MaxFaults,   \* bound: faults and failed attempts in a behaviour
    None

ASSUME ConstantsAssumption ==
    /\ MaxRetries \in Nat
    /\ TTL \in Nat
    /\ MaxFaults \in Nat
    /\ Msgs \subseteq Nat
    /\ None \notin Images \cup Workers \cup Msgs

Tasks == Workers \X Slots

Unit == [img : Images, retry : 0 .. MaxRetries]

ASSUME NoneIsNoUnit == None \notin Unit

Phases == {"idle", "depths", "reclaim", "list", "read", "discover", "mark",
           "publish"}

(* "settle" is the ack that ends a task; a task is in it once the unit's   *)
(* fate is decided: completed, skipped, released, retried, dead-lettered.  *)
Stages == {"free", "polled", "download", "process", "uploading", "uploaded",
           "release", "failed", "requeue", "settle"}

VARIABLES
    \* progress_tracker.db: a row per image, "none" when it has no row
    status, age,
    \* S3: what a tileset prefix holds
    tiles,
    \* RabbitMQ: a message's unit (None: no such message) and the worker that
    \* holds it unacknowledged (None: waiting in a queue); the dead letters
    unit, holder, dlq,
    \* the producer's tick
    phase, seen, todo, current,
    \* worker processes: mode and state of their channel
    mode, channel,
    \* tasks of the drain loop: stage, unit worked on, delivery to settle
    \* (None once the channel it came from is gone)
    stage, work, delivery,
    \* number of faults so far (the bound MaxFaults)
    faults,
    \* ghost: images published and not brought to a final disposition since
    due

tracker   == <<status, age>>
broker    == <<unit, holder, dlq>>
producer  == <<phase, seen, todo, current>>
processes == <<mode, channel>>
tasks     == <<stage, work, delivery>>
vars      == <<tracker, tiles, broker, producer, processes, tasks, faults, due>>

Tracked == {i \in Images : status[i] # "none"}

FreeMsgs == {m \in Msgs : unit[m] = None}
Waiting  == {m \in Msgs : unit[m] # None /\ holder[m] = None}

(* get_queue_size counts messages waiting in a queue, not unacknowledged   *)
(* ones.                                                                   *)
QueueEmpty == Waiting = {}

Copies(i) == {m \in Msgs : unit[m] # None /\ unit[m].img = i}

Fault == faults < MaxFaults /\ faults' = faults + 1

-----------------------------------------------------------------------------
(* Tracker rows.  Every operation of ProgressTracker is one SQL statement. *)

DropRows(S) ==
    /\ status' = [i \in Images |-> IF i \in S THEN "none" ELSE status[i]]
    /\ age' = [i \in Images |-> IF i \in S THEN 0 ELSE age[i]]

Expired(s) == {i \in Images : status[i] = s /\ age[i] > TTL}

(* Mutant: nothing expires. *)
cleanup_stale_Never == DropRows({})

cleanup_stale == DropRows(Expired("PROCESSING"))

(* Mutant: the status is the one cleanup_stale already takes. *)
reclaim_orphan_WrongStatus == DropRows(Expired("PROCESSING"))

reclaim_orphan_in_progress == DropRows(Expired("IN_PROGRESS"))

(* INSERT OR REPLACE. *)
mark_in_progress(i) ==
    /\ status' = [status EXCEPT ![i] = "IN_PROGRESS"]
    /\ age' = [age EXCEPT ![i] = 0]

(* Mutant: an upsert. *)
mark_processing_Upsert(i) ==
    /\ status' = [status EXCEPT ![i] = "PROCESSING"]
    /\ age' = [age EXCEPT ![i] = 0]

(* UPDATE: an image without a row stays without one. *)
mark_processing(i) ==
    /\ status' = [status EXCEPT ![i] = IF @ = "none" THEN @ ELSE "PROCESSING"]
    /\ age' = [age EXCEPT ![i] = 0]

mark_completed(i) == DropRows({i})

-----------------------------------------------------------------------------
(* Broker operations of RabbitMQClient. *)

(* Only the smallest free identity is taken: identities carry no meaning.  *)
Enqueue(i, r) ==
    \E m \in FreeMsgs :
        /\ \A n \in FreeMsgs : m <= n
        /\ unit' = [unit EXCEPT ![m] = [img |-> i, retry |-> r]]

(* The broker requeues what a closed channel had not settled. *)
RequeueHeldBy(w) ==
    holder' = [m \in Msgs |-> IF holder[m] = w THEN None ELSE holder[m]]

(* Settling on a dead channel sends nothing (ack and nack return early).   *)
AckDelivery(m) ==
    IF m = None THEN UNCHANGED <<unit, holder>>
    ELSE /\ unit' = [unit EXCEPT ![m] = None]
         /\ holder' = [holder EXCEPT ![m] = None]

NackDelivery(m) ==
    IF m = None THEN UNCHANGED holder ELSE holder' = [holder EXCEPT ![m] = None]

-----------------------------------------------------------------------------
Init ==
    /\ status = [i \in Images |-> "none"]
    /\ age = [i \in Images |-> 0]
    /\ tiles = [i \in Images |-> "none"]
    /\ unit = [m \in Msgs |-> None]
    /\ holder = [m \in Msgs |-> None]
    /\ dlq = {}
    /\ phase = "idle"
    /\ seen = {}
    /\ todo = {}
    /\ current = None
    /\ mode = [w \in Workers |-> "up"]
    /\ channel = [w \in Workers |-> "open"]
    /\ stage = [t \in Tasks |-> "free"]
    /\ work = [t \in Tasks |-> None]
    /\ delivery = [t \in Tasks |-> None]
    /\ faults = 0
    /\ due = {}

-----------------------------------------------------------------------------
(* The producer's tick: discover_and_publish, one source.                  *)

EndTick ==
    /\ phase' = "idle"
    /\ seen' = {}
    /\ todo' = {}
    /\ current' = None

StartTick ==
    /\ phase = "idle"
    /\ cleanup_stale
    /\ phase' = "depths"
    /\ UNCHANGED <<tiles, broker, seen, todo, current, processes, tasks, faults,
                   due>>

ReadDepths ==
    /\ phase = "depths"
    /\ phase' = IF QueueEmpty THEN "reclaim" ELSE "list"
    /\ UNCHANGED <<tracker, tiles, broker, seen, todo, current, processes, tasks,
                   faults, due>>

(* Depths that cannot be read count as a queue that is not empty. *)
DepthsUnreadable ==
    /\ phase = "depths"
    /\ Fault
    /\ phase' = "list"
    /\ UNCHANGED <<tracker, tiles, broker, seen, todo, current, processes, tasks,
                   due>>

ReclaimOrphans ==
    /\ phase = "reclaim"
    /\ reclaim_orphan_in_progress
    /\ phase' = "list"
    /\ UNCHANGED <<tiles, broker, seen, todo, current, processes, tasks, faults,
                   due>>

(* The names under the tileset prefix: one uploaded tile is enough. *)
ExistingTilesets == {i \in Images : tiles[i] # "none"}

ListTilesets ==
    /\ phase = "list"
    /\ seen' = ExistingTilesets
    /\ phase' = "read"
    /\ UNCHANGED <<tracker, tiles, broker, todo, current, processes, tasks, faults,
                   due>>

(* A LIST that fails is swallowed: the tilesets named so far, if any. *)
ListFails ==
    /\ phase = "list"
    /\ Fault
    /\ seen' \in SUBSET ExistingTilesets
    /\ phase' = "read"
    /\ UNCHANGED <<tracker, tiles, broker, todo, current, processes, tasks, due>>

ReadInProgress ==
    /\ phase = "read"
    /\ seen' = seen \cup Tracked
    /\ phase' = "discover"
    /\ UNCHANGED <<tracker, tiles, broker, todo, current, processes, tasks, faults,
                   due>>

NewImages == Images \ seen

(* Bound on the copies in the broker: a batch leaves an identity for every *)
(* retry that failed tasks and faults to come can ask for; without room a  *)
(* tick finds nothing.                                                     *)
Room == Cardinality(FreeMsgs) >=
            Cardinality(NewImages) + (MaxFaults - faults)
                + Cardinality({t \in Tasks : stage[t] = "failed"})

Discover ==
    /\ phase = "discover"
    /\ \/ /\ NewImages = {} \/ ~Room
          /\ EndTick
       \/ /\ NewImages # {} /\ Room
          /\ todo' = NewImages
          /\ seen' = {}
          /\ phase' = "mark"
          /\ UNCHANGED current
    /\ UNCHANGED <<tracker, tiles, broker, processes, tasks, faults, due>>

(* An exception of the source, or SOURCE_DISCOVERY_TIMEOUT_S running out.  *)
(* wait_for cancels at an await, and the last await is discover_images.    *)
DiscoveryFails ==
    /\ phase \in {"list", "read", "discover"}
    /\ Fault
    /\ EndTick
    /\ UNCHANGED <<tracker, tiles, broker, processes, tasks, due>>

MarkInProgress(i) ==
    /\ phase = "mark"
    /\ i \in todo
    /\ mark_in_progress(i)
    /\ current' = i
    /\ todo' = todo \ {i}
    /\ phase' = "publish"
    /\ UNCHANGED <<tiles, broker, seen, processes, tasks, faults, due>>

NextOfBatch ==
    IF todo = {} THEN EndTick
    ELSE phase' = "mark" /\ current' = None /\ UNCHANGED <<seen, todo>>

Publish ==
    /\ phase = "publish"
    /\ Enqueue(current, 0)
    /\ due' = due \cup {current}
    /\ NextOfBatch
    /\ UNCHANGED <<tracker, tiles, holder, dlq, processes, tasks, faults>>

(* basic_publish without publisher confirms can lose a message silently. *)
PublishLost ==
    /\ phase = "publish"
    /\ Fault
    /\ NextOfBatch
    /\ UNCHANGED <<tracker, tiles, broker, processes, tasks, due>>

(* publish raises: the rest of the batch is dropped. *)
PublishRaises ==
    /\ phase = "publish"
    /\ Fault
    /\ EndTick
    /\ UNCHANGED <<tracker, tiles, broker, processes, tasks, due>>

ProducerCrash ==
    /\ phase # "idle"
    /\ Fault
    /\ EndTick
    /\ UNCHANGED <<tracker, tiles, broker, processes, tasks, due>>

ProducerStep ==
    \/ StartTick \/ ReadDepths \/ ReclaimOrphans \/ ListTilesets
    \/ ReadInProgress \/ Discover \/ Publish
    \/ \E i \in Images : MarkInProgress(i)

ProducerFault ==
    \/ DepthsUnreadable \/ ListFails \/ DiscoveryFails
    \/ PublishLost \/ PublishRaises \/ ProducerCrash

-----------------------------------------------------------------------------
(* A task of the drain loop.  t[1] is the worker it runs on.               *)

Img(t) == work[t].img

Goto(t, s) ==
    /\ stage' = [stage EXCEPT ![t] = s]
    /\ UNCHANGED <<work, delivery>>

FreeTask(t) ==
    /\ stage' = [stage EXCEPT ![t] = "free"]
    /\ work' = [work EXCEPT ![t] = None]
    /\ delivery' = [delivery EXCEPT ![t] = None]

(* A final disposition: the image's publication is accounted for. *)
Dispose(t) == due' = due \ {Img(t)}

(* Mutant: auto-ack. *)
Poll_AutoAck(t, m) ==
    /\ mode[t[1]] = "up" /\ channel[t[1]] = "open"
    /\ stage[t] = "free"
    /\ m \in Waiting
    /\ unit' = [unit EXCEPT ![m] = None]
    /\ stage' = [stage EXCEPT ![t] = "polled"]
    /\ work' = [work EXCEPT ![t] = unit[m]]
    /\ UNCHANGED <<tracker, tiles, holder, dlq, delivery, producer, processes,
                   faults, due>>

(* poll_one: basic_get without auto-ack, then a task is created. *)
Poll(t, m) ==
    /\ mode[t[1]] = "up" /\ channel[t[1]] = "open"
    /\ stage[t] = "free"
    /\ m \in Waiting
    /\ holder' = [holder EXCEPT ![m] = t[1]]
    /\ stage' = [stage EXCEPT ![t] = "polled"]
    /\ work' = [work EXCEPT ![t] = unit[m]]
    /\ delivery' = [delivery EXCEPT ![t] = m]
    /\ UNCHANGED <<tracker, tiles, unit, dlq, producer, processes, faults, due>>

MarkProcessing(t) ==
    /\ stage[t] = "polled"
    /\ mark_processing(Img(t))
    /\ Goto(t, "download")
    /\ UNCHANGED <<tiles, broker, producer, processes, faults, due>>

Download(t) ==
    /\ stage[t] = "download"
    /\ Goto(t, "process")
    /\ UNCHANGED <<tracker, tiles, broker, producer, processes, faults, due>>

(* ForecastNotAvailableError and TransientDownloadError. *)
NotAvailable(t) ==
    /\ stage[t] = "download"
    /\ Fault
    /\ Goto(t, "release")
    /\ UNCHANGED <<tracker, tiles, broker, producer, processes, due>>

(* SourceFileNotFoundError and UnprocessableInputError: acked, row kept. *)
Unusable(t) ==
    /\ stage[t] \in {"download", "process"}
    /\ Fault
    /\ Goto(t, "settle")
    /\ Dispose(t)
    /\ UNCHANGED <<tracker, tiles, broker, producer, processes>>

UploadFirst(t) ==
    /\ stage[t] = "process"
    /\ tiles' = [tiles EXCEPT ![Img(t)] = IF @ = "none" THEN "partial" ELSE @]
    /\ Goto(t, "uploading")
    /\ UNCHANGED <<tracker, broker, producer, processes, faults, due>>

UploadRest(t) ==
    /\ stage[t] = "uploading"
    /\ tiles' = [tiles EXCEPT ![Img(t)] = "full"]
    /\ Goto(t, "uploaded")
    /\ UNCHANGED <<tracker, broker, producer, processes, faults, due>>

(* upload_directory counts failed PUTs and its callers drop the count. *)
UploadIncomplete(t) ==
    /\ stage[t] \in {"process", "uploading"}
    /\ Fault
    /\ Goto(t, "uploaded")
    /\ UNCHANGED <<tracker, tiles, broker, producer, processes, due>>

MarkCompleted(t) ==
    /\ stage[t] = "uploaded"
    /\ mark_completed(Img(t))
    /\ Dispose(t)
    /\ Goto(t, "settle")
    /\ UNCHANGED <<tiles, broker, producer, processes, faults>>

ReleaseProgress(t) ==
    /\ stage[t] = "release"
    /\ mark_completed(Img(t))
    /\ Dispose(t)
    /\ Goto(t, "settle")
    /\ UNCHANGED <<tiles, broker, producer, processes, faults>>

(* release_progress raises inside an except clause: the task dies and its  *)
(* delivery stays unacknowledged on the open channel.                      *)
ReleaseRaises(t) ==
    /\ stage[t] = "release"
    /\ Fault
    /\ FreeTask(t)
    /\ UNCHANGED <<tracker, tiles, broker, producer, processes, due>>

(* Any other exception of handler.handle. *)
AttemptFails(t) ==
    /\ stage[t] \in {"polled", "download", "process", "uploading", "uploaded"}
    /\ Fault
    /\ Goto(t, "failed")
    /\ UNCHANGED <<tracker, tiles, broker, producer, processes, due>>

(* The subprocess stops at a checkpoint and exits with EXIT_SHUTDOWN_CODE. *)
ShutdownRequested(t) ==
    /\ mode[t[1]] = "stopping"
    /\ stage[t] \in {"process", "uploading"}
    /\ Goto(t, "requeue")
    /\ UNCHANGED <<tracker, tiles, broker, producer, processes, faults, due>>

(* Mutant: one retry too many. *)
can_retry_OffByOne(u) == u.retry <= MaxRetries

can_retry(u) == u.retry < MaxRetries

(* Mutant: the delivery is acked before its retry is published. *)
PublishRetry_AckFirst(t) ==
    /\ stage[t] = "failed" /\ mode[t[1]] = "up" /\ channel[t[1]] = "open"
    /\ can_retry(work[t])
    /\ \/ /\ delivery[t] # None
          /\ AckDelivery(delivery[t])
          /\ delivery' = [delivery EXCEPT ![t] = None]
          /\ UNCHANGED <<stage, work>>
       \/ /\ delivery[t] = None
          /\ Enqueue(Img(t), work[t].retry + 1)
          /\ Goto(t, "settle")
          /\ UNCHANGED holder
    /\ UNCHANGED <<tracker, tiles, dlq, producer, processes, faults, due>>

PublishRetry(t) ==
    /\ stage[t] = "failed" /\ mode[t[1]] = "up" /\ channel[t[1]] = "open"
    /\ can_retry(work[t])
    /\ Enqueue(Img(t), work[t].retry + 1)
    /\ Goto(t, "settle")
    /\ UNCHANGED <<tracker, tiles, holder, dlq, producer, processes, faults, due>>

DeadLetter(t) ==
    /\ stage[t] = "failed" /\ mode[t[1]] = "up" /\ channel[t[1]] = "open"
    /\ ~can_retry(work[t])
    /\ dlq' = dlq \cup {Img(t)}
    /\ Dispose(t)
    /\ Goto(t, "settle")
    /\ UNCHANGED <<tracker, tiles, unit, holder, producer, processes, faults>>

(* _ensure_channel declines to reconnect while a delivery is outstanding,  *)
(* so publish raises out of the task.                                      *)
PublishRefused(t) ==
    /\ stage[t] = "failed" /\ mode[t[1]] = "up" /\ channel[t[1]] = "closed"
    /\ FreeTask(t)
    /\ UNCHANGED <<tracker, tiles, broker, producer, processes, faults, due>>

(* Mutant: no return after the nack, so the ack below it runs too. *)
Nack_NoReturn(t) ==
    /\ \/ stage[t] = "requeue"
       \/ stage[t] = "failed" /\ mode[t[1]] = "stopping"
    /\ NackDelivery(delivery[t])
    /\ Goto(t, "settle")
    /\ UNCHANGED <<tracker, tiles, unit, dlq, producer, processes, faults, due>>

(* nack with requeue: interrupted work, or any failure while stopping. *)
Nack(t) ==
    /\ \/ stage[t] = "requeue"
       \/ stage[t] = "failed" /\ mode[t[1]] = "stopping"
    /\ NackDelivery(delivery[t])
    /\ FreeTask(t)
    /\ UNCHANGED <<tracker, tiles, unit, dlq, producer, processes, faults, due>>

Ack(t) ==
    /\ stage[t] = "settle"
    /\ AckDelivery(delivery[t])
    /\ FreeTask(t)
    /\ UNCHANGED <<tracker, tiles, dlq, producer, processes, faults, due>>

(* What a task does by itself, and what may go wrong under it. *)
TaskStep(t) ==
    \/ MarkProcessing(t) \/ Download(t) \/ UploadFirst(t) \/ UploadRest(t)
    \/ MarkCompleted(t) \/ ReleaseProgress(t) \/ ShutdownRequested(t)
    \/ PublishRetry(t) \/ DeadLetter(t) \/ PublishRefused(t) \/ Nack(t) \/ Ack(t)

TaskFault(t) ==
    \/ NotAvailable(t) \/ Unusable(t) \/ UploadIncomplete(t)
    \/ ReleaseRaises(t) \/ AttemptFails(t)

-----------------------------------------------------------------------------
(* Worker processes. *)

AbandonTasks(w) ==
    /\ stage' = [t \in Tasks |-> IF t[1] = w THEN "free" ELSE stage[t]]
    /\ work' = [t \in Tasks |-> IF t[1] = w THEN None ELSE work[t]]
    /\ delivery' = [t \in Tasks |-> IF t[1] = w THEN None ELSE delivery[t]]

Down(w) ==
    /\ mode' = [mode EXCEPT ![w] = "down"]
    /\ channel' = [channel EXCEPT ![w] = "closed"]
    /\ RequeueHeldBy(w)
    /\ AbandonTasks(w)

(* SIGTERM or SIGINT: _running becomes FALSE and the handler aborts. *)
Signal(w) ==
    /\ mode[w] = "up"
    /\ Fault
    /\ mode' = [mode EXCEPT ![w] = "stopping"]
    /\ UNCHANGED <<tracker, tiles, broker, producer, channel, tasks, due>>

(* Mutant: poll_one reports a dead channel as empty queues. *)
WorkerExit_DeadChannelIsIdle(w) ==
    /\ mode[w] = "stopping" /\ \A s \in Slots : stage[<<w, s>>] = "free"
    /\ Down(w)
    /\ UNCHANGED <<tracker, tiles, unit, dlq, producer, faults, due>>

(* The drain loop ends once a stopping worker has no task left; with a     *)
(* dead channel poll_one raises as soon as a task slot is free.            *)
WorkerExit(w) ==
    /\ \/ mode[w] = "stopping" /\ \A s \in Slots : stage[<<w, s>>] = "free"
       \/ /\ mode[w] = "up" /\ channel[w] = "closed"
          /\ \E s \in Slots : stage[<<w, s>>] = "free"
    /\ Down(w)
    /\ UNCHANGED <<tracker, tiles, unit, dlq, producer, faults, due>>

(* Also service_events raising out of the drain loop with every slot busy. *)
WorkerCrash(w) ==
    /\ mode[w] # "down"
    /\ Fault
    /\ Down(w)
    /\ UNCHANGED <<tracker, tiles, unit, dlq, producer, due>>

WorkerStart(w) ==
    /\ mode[w] = "down"
    /\ mode' = [mode EXCEPT ![w] = "up"]
    /\ channel' = [channel EXCEPT ![w] = "open"]
    /\ UNCHANGED <<tracker, tiles, broker, producer, tasks, faults, due>>

(* The broker or the network drops the connection; tasks keep running with *)
(* tags that no longer mean anything.                                      *)
ChannelDies(w) ==
    /\ mode[w] # "down" /\ channel[w] = "open"
    /\ Fault
    /\ channel' = [channel EXCEPT ![w] = "closed"]
    /\ RequeueHeldBy(w)
    /\ delivery' = [t \in Tasks |-> IF t[1] = w THEN None ELSE delivery[t]]
    /\ UNCHANGED <<tracker, tiles, unit, dlq, producer, mode, stage, work, due>>

-----------------------------------------------------------------------------
(* updated_at ages; an age past the TTL needs no further distinction.      *)
Clock ==
    /\ \E i \in Tracked : age[i] <= TTL
    /\ age' = [i \in Images |->
                 IF i \in Tracked /\ age[i] <= TTL THEN age[i] + 1 ELSE age[i]]
    /\ UNCHANGED <<status, tiles, broker, producer, processes, tasks, faults, due>>

Next ==
    \/ ProducerStep
    \/ ProducerFault
    \/ \E t \in Tasks :
          \/ \E m \in Msgs : Poll(t, m)
          \/ TaskStep(t)
          \/ TaskFault(t)
    \/ \E w \in Workers :
          \/ Signal(w) \/ WorkerExit(w) \/ WorkerCrash(w)
          \/ WorkerStart(w) \/ ChannelDies(w)
    \/ Clock

Spec == Init /\ [][Next]_vars

(* APScheduler keeps ticking and time passes (WF); a started task goes on  *)
(* (its subprocess, its downloads and its retries are bounded in time) and *)
(* a worker container is restarted (WF); a queue is first in first out, so *)
(* no message waits for ever while deliveries go on (SF).                  *)
Fairness ==
    /\ WF_vars(ProducerStep)
    /\ WF_vars(Clock)
    /\ \A t \in Tasks : WF_vars(TaskStep(t))
    /\ \A w \in Workers : WF_vars(WorkerStart(w) \/ WorkerExit(w))
    /\ \A m \in Msgs : SF_vars(\E t \in Tasks : Poll(t, m))

FairSpec == Spec /\ Fairness

-----------------------------------------------------------------------------
(* Properties. *)

(* Type invariant; a unit's retry count never exceeds its max_retries.     *)
TypeOK ==
    /\ status \in [Images -> {"none", "IN_PROGRESS", "PROCESSING"}]
    /\ age \in [Images -> 0 .. TTL + 1]
    /\ tiles \in [Images -> {"none", "partial", "full"}]
    /\ unit \in [Msgs -> Unit \cup {None}]
    /\ holder \in [Msgs -> Workers \cup {None}]
    /\ dlq \subseteq Images
    /\ phase \in Phases
    /\ seen \subseteq Images
    /\ todo \subseteq Images
    /\ current \in Images \cup {None}
    /\ mode \in [Workers -> {"up", "stopping", "down"}]
    /\ channel \in [Workers -> {"open", "closed"}]
    /\ stage \in [Tasks -> Stages]
    /\ work \in [Tasks -> Unit \cup {None}]
    /\ delivery \in [Tasks -> Msgs \cup {None}]
    /\ faults \in 0 .. MaxFaults
    /\ due \subseteq Images

(* At-least-once delivery across retries, crashes, restarts and dropped     *)
(* connections: while no attempt at a published image has reached a final  *)
(* disposition, the broker stores a copy of its unit.  It is what          *)
(* publishing the retry before acking, and requeueing on nack, are for.    *)
NoUnitLost == \A i \in due : Copies(i) # {}

(* The discovery dedup is check-then-act: it reads the tracker before it   *)
(* awaits the listing of the source and inserts its rows afterwards.       *)
(* Whatever the workers do in between, mark_in_progress (an INSERT OR      *)
(* REPLACE) never replaces a row, which would disarm a running TTL.        *)
NeverReplacesRow ==
    [][\A i \in Images : MarkInProgress(i) => status[i] = "none"]_vars

(* Two tasks never hold the same delivery, and what a task would ack is    *)
(* the message it works on, held by the task's own worker.                 *)
DeliveryHeldOnce ==
    \A t \in Tasks : delivery[t] # None =>
        /\ unit[delivery[t]] = work[t]
        /\ holder[delivery[t]] = t[1]
        /\ \A u \in Tasks : delivery[u] = delivery[t] => u = t

(* A row in PROCESSING does not stay there: it is completed, released or   *)
(* reclaimed, however its worker ended.                                    *)
ProcessingEnds ==
    \A i \in Images : status[i] = "PROCESSING" ~> status[i] # "PROCESSING"

(* A row whose message was lost is reclaimed if the queues stay drained.   *)
OrphansReclaimed ==
    <>[]QueueEmpty =>
        \A i \in Images : []<>(status[i] # "IN_PROGRESS" \/ phase = "publish")

(* An image nobody tracks and nothing of which is in S3 is published       *)
(* again, also when a tick marks it and its publication is lost: provided  *)
(* that ticks go on to find the queues empty now and then, as a row that   *)
(* was marked in vain is reclaimed only then.                              *)
Rediscovered ==
    []<>(phase = "reclaim") =>
        \A i \in Images :
            (status[i] = "none" /\ tiles[i] = "none")
                ~> (Copies(i) # {} \/ tiles[i] # "none")

(* Copies left unacknowledged on an open channel by tasks that died.       *)
Stranded(i) ==
    \A m \in Copies(i) : holder[m] # None /\ \A t \in Tasks : delivery[t] # m

(* Every published image is brought to a final disposition, unless the     *)
(* task that had it died in release_progress.                              *)
DueResolved == \A i \in Images : i \in due ~> (i \notin due \/ Stranded(i))

(* The pipeline implements the abstract delivery service: stored are the   *)
(* images with a copy in the broker, working those a task has a unit of.   *)
Stored  == {i \in Images : Copies(i) # {}}
Working == {i \in Images : \E t \in Tasks : work[t] # None /\ Img(t) = i}

Delivery == INSTANCE WorkDelivery WITH stored <- Stored, working <- Working

(* However messages are duplicated, retried, redelivered, dropped with     *)
(* their channel or abandoned in a crash, the pipeline only takes the      *)
(* steps of WorkDelivery: in particular the last copy of a due image is    *)
(* never withdrawn, and nothing but a worker that has the image settles    *)
(* or republishes it.                                                      *)
ImplementsDelivery == Delivery!Spec

-----------------------------------------------------------------------------
(* What the repository says of the program and the program does not do.    *)

(* "crashed / dead-lettered images become rediscoverable": an image that   *)
(* was dead-lettered is published again or has its tiles.  One tile of the *)
(* failed attempt is enough to hide it from the discovery.                 *)
DeadLettersRediscovered ==
    \A i \in Images :
        (i \in dlq /\ Copies(i) = {}) ~> (Copies(i) # {} \/ tiles[i] = "full")
=============================================================================
