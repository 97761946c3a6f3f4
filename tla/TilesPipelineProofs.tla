------------------------ MODULE TilesPipelineProofs ------------------------
(***************************************************************************)
(* Safety of TilesPipeline for every set of images, workers and slots and  *)
(* every MaxRetries, TTL and number of faults.                             *)
(*                                                                         *)
(* The properties are not inductive by themselves.  What strengthens them: *)
(*   - TaskInv and PublishInv say which variables hold a unit or an image  *)
(*     when an action reads them (TypeOK needs them);                      *)
(*   - DueUnspent strengthens NoUnitLost: a due image has a copy that no   *)
(*     task is about to ack (it needs DeliveryHeldOnce, a property itself);*)
(*   - BatchUntracked carries what the producer read from the tracker to   *)
(*     the moment it inserts its rows.                                     *)
(***************************************************************************)
EXTENDS TilesPipeline, TLAPS

TaskInv ==
    \A t \in Tasks :
        /\ stage[t] # "free" => work[t] # None
        /\ delivery[t] # None => work[t] # None

PublishInv == phase = "publish" => current # None

Spent(m) == \E t \in Tasks : delivery[t] = m /\ stage[t] = "settle"

DueUnspent == \A i \in due : \E m \in Copies(i) : ~Spent(m)

BatchUntracked ==
    /\ phase = "discover" => \A i \in Images \ seen : status[i] = "none"
    /\ \A i \in todo : status[i] = "none"

TypeInv == TypeOK /\ TaskInv /\ PublishInv

-----------------------------------------------------------------------------
(* Every step preserves the types. *)

LEMMA TypeProducer == TypeInv /\ (ProducerStep \/ ProducerFault) => TypeInv'
<1> SUFFICES ASSUME TypeInv, ProducerStep \/ ProducerFault
             PROVE  TypeInv'
    OBVIOUS
<1> USE ConstantsAssumption
        DEF TypeInv, TypeOK, TaskInv, PublishInv, Phases, tracker, broker,
            producer, processes, tasks, Fault
<1>1. CASE StartTick
    BY <1>1 DEF StartTick, cleanup_stale, DropRows
<1>2. CASE ReadDepths
    BY <1>2 DEF ReadDepths
<1>3. CASE ReclaimOrphans
    BY <1>3 DEF ReclaimOrphans, reclaim_orphan_in_progress, DropRows
<1>4. CASE ListTilesets
    BY <1>4 DEF ListTilesets, ExistingTilesets
<1>5. CASE ReadInProgress
    BY <1>5 DEF ReadInProgress, Tracked
<1>6. CASE Discover
    BY <1>6 DEF Discover, NewImages, EndTick
<1>7. CASE Publish
    <2>1. current \in Images
        BY <1>7 DEF Publish
    <2>2. unit' \in [Msgs -> Unit \cup {None}]
        BY <1>7, <2>1 DEF Publish, Enqueue, FreeMsgs, Unit
    <2> QED
        BY <1>7, <2>1, <2>2 DEF Publish, NextOfBatch, EndTick
<1>8. ASSUME NEW i \in Images, MarkInProgress(i)
      PROVE  TypeInv'
    BY <1>8 DEF MarkInProgress, mark_in_progress
<1>9. CASE DepthsUnreadable
    BY <1>9 DEF DepthsUnreadable
<1>10. CASE ListFails
    BY <1>10 DEF ListFails, ExistingTilesets
<1>11. CASE DiscoveryFails
    BY <1>11 DEF DiscoveryFails, EndTick
<1>12. CASE PublishLost
    BY <1>12 DEF PublishLost, NextOfBatch, EndTick
<1>13. CASE PublishRaises
    BY <1>13 DEF PublishRaises, EndTick
<1>14. CASE ProducerCrash
    BY <1>14 DEF ProducerCrash, EndTick
<1> QED
    BY <1>1, <1>2, <1>3, <1>4, <1>5, <1>6, <1>7, <1>8, <1>9, <1>10, <1>11,
       <1>12, <1>13, <1>14 DEF ProducerStep, ProducerFault

TaskAct(t) ==
    (\E m \in Msgs : Poll(t, m)) \/ TaskStep(t) \/ TaskFault(t)

LEMMA TypeTask ==
    ASSUME TypeInv, NEW t \in Tasks, TaskAct(t)
    PROVE  TypeInv'
<1> USE ConstantsAssumption
        DEF TypeInv, TypeOK, TaskInv, PublishInv, Stages, tracker, broker,
            producer, processes, tasks, Fault, Goto, FreeTask, Img, Dispose, Unit
<1>1. t[1] \in Workers
    BY DEF Tasks
<1>2. ASSUME NEW m \in Msgs, Poll(t, m)
      PROVE  TypeInv'
    BY <1>1, <1>2 DEF Poll, Waiting
<1>3. CASE MarkProcessing(t)
    BY <1>3 DEF MarkProcessing, mark_processing
<1>4. CASE Download(t)
    BY <1>4 DEF Download
<1>5. CASE UploadFirst(t)
    BY <1>5 DEF UploadFirst
<1>6. CASE UploadRest(t)
    BY <1>6 DEF UploadRest
<1>7. CASE MarkCompleted(t)
    BY <1>7 DEF MarkCompleted, mark_completed, DropRows
<1>8. CASE ReleaseProgress(t)
    BY <1>8 DEF ReleaseProgress, mark_completed, DropRows
<1>9. CASE ShutdownRequested(t)
    BY <1>9 DEF ShutdownRequested
<1>10. CASE PublishRetry(t)
    <2>1. work[t] \in Unit /\ work[t].retry + 1 \in 0 .. MaxRetries
        BY <1>10 DEF PublishRetry, can_retry
    <2> QED
        BY <1>10, <2>1 DEF PublishRetry, Enqueue, FreeMsgs
<1>11. CASE DeadLetter(t)
    BY <1>11 DEF DeadLetter
<1>12. CASE PublishRefused(t)
    BY <1>12 DEF PublishRefused
<1>13. CASE Nack(t)
    BY <1>13 DEF Nack, NackDelivery
<1>14. CASE Ack(t)
    BY <1>14 DEF Ack, AckDelivery
<1>15. CASE NotAvailable(t)
    BY <1>15 DEF NotAvailable
<1>16. CASE Unusable(t)
    BY <1>16 DEF Unusable
<1>17. CASE UploadIncomplete(t)
    BY <1>17 DEF UploadIncomplete
<1>18. CASE ReleaseRaises(t)
    BY <1>18 DEF ReleaseRaises
<1>19. CASE AttemptFails(t)
    BY <1>19 DEF AttemptFails
<1> QED
    BY <1>2, <1>3, <1>4, <1>5, <1>6, <1>7, <1>8, <1>9, <1>10, <1>11, <1>12,
       <1>13, <1>14, <1>15, <1>16, <1>17, <1>18, <1>19
       DEF TaskAct, TaskStep, TaskFault

WorkerStep(w) ==
    \/ Signal(w) \/ WorkerExit(w) \/ WorkerCrash(w) \/ WorkerStart(w)
    \/ ChannelDies(w)

LEMMA TypeWorker ==
    ASSUME TypeInv, NEW w \in Workers, WorkerStep(w)
    PROVE  TypeInv'
<1> USE ConstantsAssumption
        DEF TypeInv, TypeOK, TaskInv, PublishInv, Stages, tracker, broker,
            producer, processes, tasks, Fault, Down, RequeueHeldBy, AbandonTasks
<1>1. CASE Signal(w)
    BY <1>1 DEF Signal
<1>2. CASE WorkerExit(w)
    BY <1>2 DEF WorkerExit
<1>3. CASE WorkerCrash(w)
    BY <1>3 DEF WorkerCrash
<1>4. CASE WorkerStart(w)
    BY <1>4 DEF WorkerStart
<1>5. CASE ChannelDies(w)
    BY <1>5 DEF ChannelDies
<1> QED
    BY <1>1, <1>2, <1>3, <1>4, <1>5 DEF WorkerStep

LEMMA TypeClock == TypeInv /\ Clock => TypeInv'
    BY ConstantsAssumption
       DEF TypeInv, TypeOK, TaskInv, PublishInv, Clock, Tracked, broker, producer,
           processes, tasks

LEMMA TypeStutter == TypeInv /\ UNCHANGED vars => TypeInv'
    BY DEF TypeInv, TypeOK, TaskInv, PublishInv, vars, tracker, broker, producer,
           processes, tasks

(* The ways a step can be taken, as the lemmas above group them. *)
LEMMA Steps ==
    ASSUME [Next]_vars
    PROVE  \/ ProducerStep \/ ProducerFault
           \/ \E t \in Tasks : TaskAct(t)
           \/ \E w \in Workers : WorkerStep(w)
           \/ Clock
           \/ UNCHANGED vars
    BY DEF Next, WorkerStep, TaskAct

LEMMA TypeInit == Init => TypeInv
    BY ConstantsAssumption
       DEF Init, TypeInv, TypeOK, TaskInv, PublishInv, Phases, Stages

LEMMA TypeNext == TypeInv /\ [Next]_vars => TypeInv'
    BY TypeProducer, TypeTask, TypeWorker, TypeClock, TypeStutter, Steps

-----------------------------------------------------------------------------
(* Deliveries. *)

DeliveryInv == TypeInv /\ DeliveryHeldOnce

LEMMA DeliveryTask ==
    ASSUME DeliveryInv, NEW t \in Tasks, TaskAct(t)
    PROVE  DeliveryHeldOnce'
<1> USE DEF DeliveryInv, TypeInv, TypeOK, TaskInv, DeliveryHeldOnce, tracker,
            broker, producer, processes, tasks, Goto, FreeTask, Img
<1>1. \A u \in Tasks : u[1] \in Workers
    BY DEF Tasks
<1>2. ASSUME NEW m \in Msgs, Poll(t, m)
      PROVE  DeliveryHeldOnce'
    BY <1>1, <1>2, ConstantsAssumption DEF Poll, Waiting
<1>3. CASE PublishRetry(t)
    BY <1>3, ConstantsAssumption DEF PublishRetry, Enqueue, FreeMsgs
<1>4. CASE Ack(t)
    BY <1>4 DEF Ack, AckDelivery
<1>5. CASE Nack(t)
    BY <1>5 DEF Nack, NackDelivery
<1>6. CASE PublishRefused(t) \/ ReleaseRaises(t)
    BY <1>6 DEF PublishRefused, ReleaseRaises
<1>7. CASE UNCHANGED <<broker, work, delivery>>
    BY <1>7
<1>8. CASE DeadLetter(t)
    BY <1>8 DEF DeadLetter
<1> QED
    BY <1>2, <1>3, <1>4, <1>5, <1>6, <1>7, <1>8
       DEF TaskAct, TaskStep, TaskFault, MarkProcessing, Download, UploadFirst,
           UploadRest, MarkCompleted, ReleaseProgress, ShutdownRequested,
           NotAvailable, Unusable, UploadIncomplete, AttemptFails

LEMMA DeliveryWorker ==
    ASSUME DeliveryInv, NEW w \in Workers, WorkerStep(w)
    PROVE  DeliveryHeldOnce'
<1> USE DEF DeliveryInv, TypeInv, TypeOK, TaskInv, DeliveryHeldOnce, broker,
            tasks, RequeueHeldBy
<1>1. CASE Signal(w) \/ WorkerStart(w)
    BY <1>1 DEF Signal, WorkerStart
<1>2. CASE WorkerExit(w) \/ WorkerCrash(w)
    <2>1. Down(w) /\ unit' = unit
        BY <1>2 DEF WorkerExit, WorkerCrash
    <2> QED
        BY <2>1 DEF Down, AbandonTasks
<1>3. CASE ChannelDies(w)
    BY <1>3 DEF ChannelDies
<1> QED
    BY <1>1, <1>2, <1>3 DEF WorkerStep

LEMMA DeliveryProducer ==
    ASSUME DeliveryInv, ProducerStep \/ ProducerFault
    PROVE  DeliveryHeldOnce'
<1> USE DEF DeliveryInv, TypeInv, TypeOK, TaskInv, DeliveryHeldOnce, broker, tasks
<1>1. CASE Publish
    BY <1>1 DEF Publish, Enqueue, FreeMsgs
<1>2. CASE UNCHANGED <<broker, tasks>>
    BY <1>2
<1> QED
    BY <1>1, <1>2
       DEF ProducerStep, ProducerFault, StartTick, ReadDepths, ReclaimOrphans,
           ListTilesets, ReadInProgress, Discover, MarkInProgress,
           DepthsUnreadable, ListFails, DiscoveryFails, PublishLost,
           PublishRaises, ProducerCrash

LEMMA DeliveryRest ==
    ASSUME DeliveryInv, Clock \/ UNCHANGED vars
    PROVE  DeliveryHeldOnce'
    BY DEF DeliveryInv, DeliveryHeldOnce, Clock, vars, broker, tasks

LEMMA DeliveryNext == DeliveryInv /\ [Next]_vars => DeliveryInv'
    BY TypeNext, DeliveryTask, DeliveryWorker, DeliveryProducer, DeliveryRest,
       Steps DEF DeliveryInv

LEMMA DeliveryInit == Init => DeliveryInv
    BY TypeInit DEF Init, DeliveryInv, DeliveryHeldOnce

-----------------------------------------------------------------------------
(* At-least-once: a due image has a copy that is not about to be acked.    *)

DueInv == DeliveryInv /\ DueUnspent

(* A step that leaves the stored copies alone, ends no settling task and   *)
(* settles no unit but of images it takes out of due.                      *)
LEMMA DueKept ==
    ASSUME DeliveryInv, DueUnspent, NEW t \in Tasks,
           unit' = unit, delivery' = delivery,
           \A u \in Tasks \ {t} : stage'[u] = stage[u],
           due' \subseteq due,
           stage'[t] = "settle" => work[t].img \notin due'
    PROVE  DueUnspent'
<1> USE DEF DeliveryInv, DeliveryHeldOnce
<1> SUFFICES ASSUME NEW i \in due'
             PROVE  \E m \in Copies(i)' : ~Spent(m)'
    BY DEF DueUnspent
<1>1. PICK m \in Copies(i) : ~Spent(m)
    BY DEF DueUnspent
<1>2. m \in Copies(i)'
    BY <1>1 DEF Copies
<1>3. ASSUME NEW u \in Tasks, delivery'[u] = m, stage'[u] = "settle"
      PROVE  FALSE
    <2>1. u = t
        BY <1>1, <1>3 DEF Spent
    <2>2. unit[m] = work[t]
        BY <2>1, <1>1, <1>3, ConstantsAssumption DEF Copies
    <2> QED
        BY <2>1, <2>2, <1>1, <1>3 DEF Copies
<1> QED
    BY <1>2, <1>3 DEF Spent

(* A step that only frees tasks or takes deliveries from them, or hands a  *)
(* waiting message to a task that does not settle it yet.                  *)
LEMMA DueHarmless ==
    ASSUME DueUnspent, unit' = unit, due' = due,
           \A u \in Tasks : stage'[u] = "settle" /\ delivery'[u] # None =>
                stage[u] = "settle" /\ delivery'[u] = delivery[u]
    PROVE  DueUnspent'
<1> SUFFICES ASSUME NEW i \in due
             PROVE  \E m \in Copies(i)' : ~Spent(m)'
    BY DEF DueUnspent
<1>1. PICK m \in Copies(i) : ~Spent(m)
    BY DEF DueUnspent
<1>2. m \in Copies(i)' /\ m # None
    BY <1>1, ConstantsAssumption DEF Copies
<1>3. ~Spent(m)'
    BY <1>1, <1>2 DEF Spent
<1> QED
    BY <1>2, <1>3

(* A new message is nobody's delivery, and leaves the other copies alone.  *)
LEMMA EnqueueKeeps ==
    ASSUME DeliveryInv, NEW i \in Images, NEW r \in 0 .. MaxRetries,
           Enqueue(i, r), delivery' = delivery
    PROVE  /\ \E m \in Copies(i)' : ~Spent(m)'
           /\ \A j \in Images : Copies(j) \subseteq Copies(j)'
<1> USE DEF DeliveryInv, TypeInv, TypeOK, TaskInv, DeliveryHeldOnce
<1>1. PICK m \in FreeMsgs : unit' = [unit EXCEPT ![m] = [img |-> i, retry |-> r]]
    BY DEF Enqueue
<1>2. m \in Msgs /\ m # None /\ unit[m] = None
    BY <1>1, ConstantsAssumption DEF FreeMsgs
<1>3. [img |-> i, retry |-> r] # None
    BY NoneIsNoUnit DEF Unit
<1>4. m \in Copies(i)'
    BY <1>1, <1>2, <1>3 DEF Copies
<1>5. \A u \in Tasks : delivery[u] # m
    BY <1>2
<1>6. ~Spent(m)'
    BY <1>5 DEF Spent
<1>7. \A j \in Images : Copies(j) \subseteq Copies(j)'
    BY <1>1, <1>2 DEF Copies
<1> QED
    BY <1>4, <1>6, <1>7

LEMMA DueTask ==
    ASSUME DueInv, NEW t \in Tasks, TaskAct(t)
    PROVE  DueUnspent'
<1> USE DEF DueInv, DeliveryInv, TypeInv, TypeOK, tracker, broker, producer,
            processes, tasks, Goto, FreeTask
<1>1. ASSUME NEW m \in Msgs, Poll(t, m)
      PROVE  DueUnspent'
    BY <1>1, DueHarmless DEF Poll
<1>2. CASE MarkProcessing(t) \/ Download(t) \/ UploadFirst(t) \/ UploadRest(t)
           \/ ShutdownRequested(t) \/ NotAvailable(t) \/ UploadIncomplete(t)
           \/ AttemptFails(t)
    BY <1>2, DueHarmless
       DEF MarkProcessing, Download, UploadFirst, UploadRest, ShutdownRequested,
           NotAvailable, UploadIncomplete, AttemptFails
<1>3. CASE MarkCompleted(t) \/ ReleaseProgress(t) \/ Unusable(t) \/ DeadLetter(t)
    BY <1>3, DueKept
       DEF MarkCompleted, ReleaseProgress, Unusable, DeadLetter, Dispose, Img
<1>4. CASE PublishRefused(t) \/ ReleaseRaises(t) \/ Nack(t)
    BY <1>4, DueHarmless DEF PublishRefused, ReleaseRaises, Nack
<1>5. CASE PublishRetry(t)
    <2>0. work[t] \in Unit
        BY <1>5 DEF PublishRetry, TaskInv
    <2>1. /\ stage[t] = "failed" /\ work[t] \in Unit
          /\ Enqueue(Img(t), work[t].retry + 1)
          /\ stage' = [stage EXCEPT ![t] = "settle"]
          /\ work' = work /\ delivery' = delivery /\ due' = due
        BY <1>5, <2>0 DEF PublishRetry
    <2>2. Img(t) \in Images /\ work[t].retry + 1 \in 0 .. MaxRetries
        BY <1>5, <2>1, ConstantsAssumption DEF Img, Unit, PublishRetry, can_retry
    <2> PICK img \in Images, r \in 0 .. MaxRetries :
                img = Img(t) /\ r = work[t].retry + 1
        BY <2>2
    <2>3. /\ \E m \in Copies(img)' : ~Spent(m)'
          /\ \A j \in Images : Copies(j) \subseteq Copies(j)'
        BY <2>1, EnqueueKeeps
    <2>4. ASSUME NEW i \in due, i # img
          PROVE  \E m \in Copies(i)' : ~Spent(m)'
        <3>1. PICK m \in Copies(i) : ~Spent(m)
            BY DEF DueUnspent
        <3>2. m \in Copies(i)'
            BY <2>3, <3>1
        <3>3. delivery[t] # m
            BY <2>4, <3>1, ConstantsAssumption DEF DeliveryHeldOnce, Copies, Img
        <3>4. ~Spent(m)'
            BY <2>1, <3>1, <3>3 DEF Spent
        <3> QED
            BY <3>2, <3>4
    <2> QED
        BY <2>1, <2>3, <2>4 DEF DueUnspent
<1>6. CASE Ack(t)
    <2>1. /\ stage[t] = "settle" /\ AckDelivery(delivery[t])
          /\ stage' = [stage EXCEPT ![t] = "free"]
          /\ delivery' = [delivery EXCEPT ![t] = None] /\ due' = due
        BY <1>6 DEF Ack
    <2> SUFFICES ASSUME NEW i \in due
                 PROVE  \E m \in Copies(i)' : ~Spent(m)'
        BY <2>1 DEF DueUnspent
    <2>2. PICK m \in Copies(i) : ~Spent(m)
        BY DEF DueUnspent
    <2>3. delivery[t] # m
        BY <2>1, <2>2 DEF Spent
    <2>4. m \in Copies(i)'
        BY <2>1, <2>2, <2>3 DEF AckDelivery, Copies
    <2>5. ~Spent(m)'
        BY <2>1, <2>2, ConstantsAssumption DEF Spent, Copies
    <2> QED
        BY <2>4, <2>5
<1> QED
    BY <1>1, <1>2, <1>3, <1>4, <1>5, <1>6 DEF TaskAct, TaskStep, TaskFault

LEMMA DueWorker ==
    ASSUME DueInv, NEW w \in Workers, WorkerStep(w)
    PROVE  DueUnspent'
<1> USE DEF DueInv, DeliveryInv, TypeInv, TypeOK, broker, tasks
<1>1. CASE Signal(w) \/ WorkerStart(w)
    BY <1>1, DueHarmless DEF Signal, WorkerStart
<1>2. CASE WorkerExit(w) \/ WorkerCrash(w)
    <2>1. Down(w) /\ unit' = unit /\ due' = due
        BY <1>2 DEF WorkerExit, WorkerCrash
    <2> QED
        BY <2>1, DueHarmless DEF Down, AbandonTasks
<1>3. CASE ChannelDies(w)
    BY <1>3, DueHarmless DEF ChannelDies
<1> QED
    BY <1>1, <1>2, <1>3 DEF WorkerStep

LEMMA DueProducer ==
    ASSUME DueInv, ProducerStep \/ ProducerFault
    PROVE  DueUnspent'
<1> USE DEF DueInv, DeliveryInv, TypeInv, TypeOK, broker, tasks
<1>1. CASE Publish
    <2>0. current \in Images
        BY <1>1 DEF Publish, PublishInv
    <2>1. /\ current \in Images /\ Enqueue(current, 0)
          /\ stage' = stage /\ delivery' = delivery
          /\ due' = due \cup {current}
        BY <1>1, <2>0 DEF Publish
    <2> PICK img \in Images : img = current
        BY <2>0
    <2>2. /\ \E m \in Copies(img)' : ~Spent(m)'
          /\ \A j \in Images : Copies(j) \subseteq Copies(j)'
        BY <2>1, ConstantsAssumption, EnqueueKeeps
    <2>3. ASSUME NEW i \in due
          PROVE  \E m \in Copies(i)' : ~Spent(m)'
        <3>1. PICK m \in Copies(i) : ~Spent(m)
            BY DEF DueUnspent
        <3>2. m \in Copies(i)'
            BY <2>2, <3>1
        <3>3. ~Spent(m)'
            BY <2>1, <3>1 DEF Spent
        <3> QED
            BY <3>2, <3>3
    <2> QED
        BY <2>1, <2>2, <2>3 DEF DueUnspent
<1>2. CASE UNCHANGED <<broker, tasks, due>>
    BY <1>2, DueHarmless
<1> QED
    BY <1>1, <1>2
       DEF ProducerStep, ProducerFault, StartTick, ReadDepths, ReclaimOrphans,
           ListTilesets, ReadInProgress, Discover, MarkInProgress,
           DepthsUnreadable, ListFails, DiscoveryFails, PublishLost,
           PublishRaises, ProducerCrash

LEMMA DueRest ==
    ASSUME DueInv, Clock \/ UNCHANGED vars
    PROVE  DueUnspent'
    BY DueHarmless DEF DueInv, Clock, vars, broker, tasks

LEMMA DueNext == DueInv /\ [Next]_vars => DueInv'
    BY DeliveryNext, DueTask, DueWorker, DueProducer, DueRest, Steps DEF DueInv

LEMMA DueInit == Init => DueInv
    BY DeliveryInit DEF Init, DueInv, DueUnspent

-----------------------------------------------------------------------------
(* Dedup: what the producer is about to insert has no row.                 *)

BatchInv == TypeInv /\ BatchUntracked

(* Only mark_in_progress creates a row. *)
NoNewRow == \A i \in Images : status[i] = "none" => status'[i] = "none"

LEMMA BatchKept ==
    ASSUME BatchInv, NoNewRow, UNCHANGED <<phase, seen, todo>>
    PROVE  BatchUntracked'
    BY DEF BatchInv, TypeInv, TypeOK, BatchUntracked, NoNewRow

LEMMA BatchProducer ==
    ASSUME BatchInv, ProducerStep \/ ProducerFault
    PROVE  BatchUntracked'
<1> USE DEF BatchInv, TypeInv, TypeOK, BatchUntracked, tracker
<1>1. CASE StartTick \/ ReclaimOrphans
    BY <1>1 DEF StartTick, ReclaimOrphans, cleanup_stale,
                reclaim_orphan_in_progress, DropRows
<1>2. CASE ReadDepths \/ ListTilesets \/ DepthsUnreadable \/ ListFails
    BY <1>2 DEF ReadDepths, ListTilesets, DepthsUnreadable, ListFails
<1>3. CASE ReadInProgress
    BY <1>3 DEF ReadInProgress, Tracked
<1>4. CASE Discover
    BY <1>4 DEF Discover, NewImages, EndTick
<1>5. CASE Publish \/ PublishLost
    BY <1>5 DEF Publish, PublishLost, NextOfBatch, EndTick
<1>6. CASE DiscoveryFails \/ PublishRaises \/ ProducerCrash
    BY <1>6 DEF DiscoveryFails, PublishRaises, ProducerCrash, EndTick
<1>7. ASSUME NEW i \in Images, MarkInProgress(i)
      PROVE  BatchUntracked'
    BY <1>7 DEF MarkInProgress, mark_in_progress
<1> QED
    BY <1>1, <1>2, <1>3, <1>4, <1>5, <1>6, <1>7 DEF ProducerStep, ProducerFault

LEMMA BatchTask ==
    ASSUME BatchInv, NEW t \in Tasks, TaskAct(t)
    PROVE  NoNewRow /\ UNCHANGED <<phase, seen, todo>>
<1> USE DEF BatchInv, TypeInv, TypeOK, NoNewRow, tracker, producer
<1>1. CASE MarkProcessing(t)
    BY <1>1 DEF MarkProcessing, mark_processing
<1>2. CASE MarkCompleted(t) \/ ReleaseProgress(t)
    BY <1>2 DEF MarkCompleted, ReleaseProgress, mark_completed, DropRows
<1>3. CASE UNCHANGED <<tracker, producer>>
    BY <1>3
<1> QED
    BY <1>1, <1>2, <1>3
       DEF TaskAct, TaskStep, TaskFault, Poll, Download, UploadFirst, UploadRest,
           ShutdownRequested, PublishRetry, DeadLetter, PublishRefused, Nack, Ack,
           NotAvailable, Unusable, UploadIncomplete, ReleaseRaises, AttemptFails

LEMMA BatchRest ==
    ASSUME \/ \E w \in Workers : WorkerStep(w)
           \/ Clock \/ UNCHANGED vars
    PROVE  NoNewRow /\ UNCHANGED <<phase, seen, todo>>
    BY DEF NoNewRow, tracker, producer, vars, Clock, WorkerStep, Signal, WorkerExit,
           WorkerCrash, WorkerStart, ChannelDies

LEMMA BatchNext == BatchInv /\ [Next]_vars => BatchInv'
    BY TypeNext, BatchProducer, BatchTask, BatchRest, BatchKept, Steps DEF BatchInv

LEMMA BatchInit == Init => BatchInv
    BY TypeInit DEF Init, BatchInv, BatchUntracked

(* Every variable has its type in every behaviour of the pipeline; in      *)
(* particular no unit is ever retried past its max_retries.                *)
THEOREM TypeCorrect == Spec => []TypeOK
<1>1. TypeInv => TypeOK
    BY DEF TypeInv
<1> QED
    BY TypeInit, TypeNext, <1>1, PTL DEF Spec

(* No two tasks of any workers ever hold the same delivery, and a task     *)
(* settles exactly the message it works on.                                *)
THEOREM OneHolder == Spec => []DeliveryHeldOnce
<1>1. DeliveryInv => DeliveryHeldOnce
    BY DEF DeliveryInv
<1> QED
    BY DeliveryInit, DeliveryNext, <1>1, PTL DEF Spec

(* Whatever crashes, stops, loses its connection or fails, a published     *)
(* image with no final disposition has a message in the broker.            *)
THEOREM AtLeastOnce == Spec => []NoUnitLost
<1>1. DueInv => NoUnitLost
    BY DEF DueInv, DueUnspent, NoUnitLost
<1> QED
    BY DueInit, DueNext, <1>1, PTL DEF Spec

(* mark_in_progress never replaces a row, although the tracker was read    *)
(* long before and the workers went on: check-then-act is safe.            *)
THEOREM CheckThenAct == Spec => NeverReplacesRow
<1>1. BatchInv /\ [Next]_vars
        => [\A i \in Images : MarkInProgress(i) => status[i] = "none"]_vars
    BY DEF BatchInv, BatchUntracked, MarkInProgress
<1> QED
    BY BatchInit, BatchNext, <1>1, PTL DEF Spec, NeverReplacesRow
=============================================================================
