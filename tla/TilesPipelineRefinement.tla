---------------------- MODULE TilesPipelineRefinement ----------------------
(***************************************************************************)
(* Every behaviour of TilesPipeline is one of WorkDelivery, for every      *)
(* value of the constants.  The simulation needs DueInv, proved with the   *)
(* safety properties (an ack that takes the last copy of an image finds it *)
(* settled), and IdleInv (a task starts with nothing at hand).             *)
(***************************************************************************)
EXTENDS TilesPipelineProofs

IdleInv == \A t \in Tasks : stage[t] = "free" => work[t] = None

RefInv == DueInv /\ IdleInv

LEMMA IdleTask ==
    ASSUME RefInv, NEW t \in Tasks, TaskAct(t)
    PROVE  IdleInv'
<1> USE DEF RefInv, DueInv, DeliveryInv, TypeInv, TypeOK, IdleInv, tasks, Goto,
            FreeTask
<1>1. CASE UNCHANGED work /\ (stage'[t] # "free") /\ \A u \in Tasks \ {t} : stage'[u] = stage[u]
    BY <1>1
<1>2. CASE PublishRefused(t) \/ ReleaseRaises(t) \/ Nack(t) \/ Ack(t)
    BY <1>2 DEF PublishRefused, ReleaseRaises, Nack, Ack
<1>3. ASSUME NEW m \in Msgs, Poll(t, m)
      PROVE  IdleInv'
    BY <1>3 DEF Poll
<1> QED
    BY <1>1, <1>2, <1>3
       DEF TaskAct, TaskStep, TaskFault, MarkProcessing, Download, UploadFirst,
           UploadRest, MarkCompleted, ReleaseProgress, ShutdownRequested,
           PublishRetry, DeadLetter, NotAvailable, Unusable, UploadIncomplete,
           AttemptFails

LEMMA IdleRest ==
    ASSUME RefInv,
           \/ ProducerStep \/ ProducerFault \/ Clock \/ UNCHANGED vars
           \/ \E w \in Workers : WorkerStep(w)
    PROVE  IdleInv'
<1> USE DEF RefInv, DueInv, DeliveryInv, TypeInv, TypeOK, IdleInv, tasks, AbandonTasks
<1>1. CASE UNCHANGED <<stage, work>>
    BY <1>1
<1>2. ASSUME NEW w \in Workers, Down(w)
      PROVE  IdleInv'
    BY <1>2 DEF Down
<1> QED
    BY <1>1, <1>2
       DEF ProducerStep, ProducerFault, StartTick, ReadDepths, ReclaimOrphans,
           ListTilesets, ReadInProgress, Discover, MarkInProgress, Publish,
           DepthsUnreadable, ListFails, DiscoveryFails, PublishLost,
           PublishRaises, ProducerCrash, Clock, vars, WorkerStep, Signal,
           WorkerExit, WorkerCrash, WorkerStart, ChannelDies

LEMMA RefNext == RefInv /\ [Next]_vars => RefInv'
    BY DueNext, IdleTask, IdleRest, Steps DEF RefInv

LEMMA RefInit == Init => RefInv
    BY DueInit DEF Init, RefInv, IdleInv

-----------------------------------------------------------------------------
(* The step simulation, an action at a time.                               *)

LEMMA StutterKept ==
    ASSUME unit' = unit, work' = work, due' = due
    PROVE  UNCHANGED Delivery!vars
    BY DEF Delivery!vars, Stored, Working, Copies, Img

(* A task that lets go of its image does not change what others work on.   *)
LEMMA LetGo ==
    ASSUME RefInv, NEW t \in Tasks, work[t] # None,
           work' = [work EXCEPT ![t] = None]
    PROVE  /\ Img(t) \in Working
           /\ Working' \in {Working, Working \ {Img(t)}}
<1>1. work \in [Tasks -> Unit \cup {None}]
    BY DEF RefInv, DueInv, DeliveryInv, TypeInv, TypeOK
<1>2. PICK x \in Images : x = work[t].img
    BY <1>1 DEF Unit
<1>3. x \in Working
    BY <1>2 DEF Img, Working
<1>4. Working \subseteq Images /\ Working' \subseteq Images
    BY DEF Working
<1>5. \A i \in Images : i # x => (i \in Working' <=> i \in Working)
    BY <1>1, <1>2 DEF Working, Img
<1>6. CASE x \in Working'
    <2>1. \A i : i \in Working' <=> i \in Working
        BY <1>3, <1>4, <1>5, <1>6
    <2>2. Working' = Working
        BY <2>1
    <2> QED
        BY <2>2, <1>2, <1>3 DEF Img
<1>7. CASE x \notin Working'
    <2>1. \A i : i \in Working' <=> i \in Working \ {x}
        BY <1>3, <1>4, <1>5, <1>7
    <2>2. Working' = Working \ {x}
        BY <2>1
    <2> QED
        BY <2>2, <1>2, <1>3 DEF Img
<1> QED
    BY <1>6, <1>7

LEMMA EnqueueStores ==
    ASSUME RefInv, NEW i \in Images, NEW r \in 0 .. MaxRetries, Enqueue(i, r)
    PROVE  Stored' = Stored \cup {i}
<1> USE DEF RefInv, DueInv, DeliveryInv, TypeInv, TypeOK
<1>1. PICK m \in FreeMsgs : unit' = [unit EXCEPT ![m] = [img |-> i, retry |-> r]]
    BY DEF Enqueue
<1>2. m \in Msgs /\ unit[m] = None
    BY <1>1 DEF FreeMsgs
<1>3. [img |-> i, retry |-> r] # None
    BY NoneIsNoUnit DEF Unit
<1>4. m \in Copies(i)'
    BY <1>1, <1>2, <1>3 DEF Copies
<1>5. \A j \in Images : j # i => Copies(j)' = Copies(j)
    BY <1>1, <1>2 DEF Copies
<1> QED
    BY <1>4, <1>5 DEF Stored

LEMMA RefineTask ==
    ASSUME RefInv, DueInv', NEW t \in Tasks, TaskAct(t)
    PROVE  [Delivery!Next]_(Delivery!vars)
<1> USE DEF RefInv, DueInv, DeliveryInv, TypeInv, TypeOK, TaskInv, IdleInv, tasks,
            broker, Goto, FreeTask
<1>1. ASSUME NEW m \in Msgs, Poll(t, m)
      PROVE  Delivery!Next
    <2>1. unit[m] \in Unit /\ unit' = unit /\ due' = due /\ work[t] = None
          /\ work' = [work EXCEPT ![t] = unit[m]]
        BY <1>1 DEF Poll, Waiting
    <2> DEFINE i == unit[m].img
    <2>2. i \in Images /\ i \in Stored
        BY <2>1, NoneIsNoUnit DEF Unit, Stored, Copies
    <2>3. Stored' = Stored
        BY <2>1 DEF Stored, Copies
    <2>4. Working' = Working \cup {i}
        BY <2>1, <2>2, NoneIsNoUnit DEF Working, Img
    <2>5. Delivery!Receive(i)
        BY <2>1, <2>2, <2>3, <2>4 DEF Delivery!Receive
    <2> QED
        BY <2>2, <2>5 DEF Delivery!Next
<1>2. CASE MarkProcessing(t) \/ Download(t) \/ UploadFirst(t) \/ UploadRest(t)
           \/ ShutdownRequested(t) \/ NotAvailable(t) \/ UploadIncomplete(t)
           \/ AttemptFails(t)
    BY <1>2, StutterKept
       DEF MarkProcessing, Download, UploadFirst, UploadRest, ShutdownRequested,
           NotAvailable, UploadIncomplete, AttemptFails
<1>3. CASE MarkCompleted(t) \/ ReleaseProgress(t) \/ Unusable(t) \/ DeadLetter(t)
    <2>1. unit' = unit /\ work' = work /\ due' = due \ {Img(t)} /\ work[t] # None
        BY <1>3 DEF MarkCompleted, ReleaseProgress, Unusable, DeadLetter, Dispose
    <2>2. Img(t) \in Images /\ Img(t) \in Working
        BY <2>1 DEF Working, Img, Unit
    <2>3. Stored' = Stored /\ Working' = Working
        BY <2>1 DEF Stored, Working, Copies, Img
    <2>4. Delivery!Settle(Img(t))
        BY <2>1, <2>2, <2>3 DEF Delivery!Settle
    <2> QED
        BY <2>2, <2>4 DEF Delivery!Next
<1>4. CASE PublishRetry(t)
    <2>1. /\ work[t] \in Unit /\ work[t] # None /\ work' = work /\ due' = due
          /\ Enqueue(Img(t), work[t].retry + 1) /\ can_retry(work[t])
        BY <1>4 DEF PublishRetry
    <2>2. Img(t) \in Images /\ work[t].retry + 1 \in 0 .. MaxRetries
        BY <2>1, ConstantsAssumption DEF Img, Unit, can_retry
    <2>3. Stored' = Stored \cup {Img(t)} /\ Working' = Working
        BY <2>1, <2>2, EnqueueStores DEF Working, Img
    <2>4. Img(t) \in Working
        BY <2>1, <2>2 DEF Working
    <2>5. Delivery!Retry(Img(t))
        BY <2>1, <2>3, <2>4 DEF Delivery!Retry
    <2> QED
        BY <2>2, <2>5 DEF Delivery!Next
<1>5. CASE PublishRefused(t) \/ ReleaseRaises(t) \/ Nack(t)
    <2>1. /\ work[t] \in Unit /\ work[t] # None /\ due' = due /\ unit' = unit
          /\ work' = [work EXCEPT ![t] = None]
        BY <1>5 DEF PublishRefused, ReleaseRaises, Nack
    <2>2. /\ Img(t) \in Images /\ Img(t) \in Working
          /\ Working' \in {Working, Working \ {Img(t)}}
        BY <2>1, LetGo DEF Img, Unit
    <2>3. Stored' = Stored
        BY <2>1 DEF Stored, Copies
    <2>4. Delivery!Finish(Img(t))
        BY <2>1, <2>2, <2>3 DEF Delivery!Finish
    <2> QED
        BY <2>2, <2>4 DEF Delivery!Next
<1>6. CASE Ack(t)
    <2>1. /\ work[t] \in Unit /\ work[t] # None /\ due' = due
          /\ work' = [work EXCEPT ![t] = None] /\ AckDelivery(delivery[t])
        BY <1>6 DEF Ack
    <2>2. /\ Img(t) \in Images /\ Img(t) \in Working
          /\ Working' \in {Working, Working \ {Img(t)}}
        BY <2>1, LetGo DEF Img, Unit
    <2>3. \A j \in Images : j # Img(t) => Copies(j)' = Copies(j)
        BY <2>1, ConstantsAssumption, NoneIsNoUnit
           DEF AckDelivery, Copies, DeliveryHeldOnce, Img
    <2>4. Stored' \in {Stored, Stored \ {Img(t)}}
        BY <2>3, <2>1, <2>2, ConstantsAssumption DEF Stored, AckDelivery, Copies
    <2>5. Img(t) \in due => Stored' = Stored
        <3>1. ASSUME Img(t) \in due
              PROVE  Img(t) \in Stored' /\ Img(t) \in Stored
            BY <3>1, <2>1, <2>2 DEF DueUnspent, Stored
        <3> QED
            BY <3>1, <2>4
    <2>6. Delivery!Finish(Img(t))
        BY <2>1, <2>2, <2>4, <2>5 DEF Delivery!Finish
    <2> QED
        BY <2>2, <2>6 DEF Delivery!Next
<1> QED
    BY <1>1, <1>2, <1>3, <1>4, <1>5, <1>6 DEF TaskAct, TaskStep, TaskFault

LEMMA RefineWorker ==
    ASSUME RefInv, NEW w \in Workers, WorkerStep(w)
    PROVE  [Delivery!Next]_(Delivery!vars)
<1>1. CASE Signal(w) \/ WorkerStart(w) \/ ChannelDies(w)
    BY <1>1, StutterKept DEF Signal, WorkerStart, ChannelDies, broker, tasks
<1>2. CASE WorkerExit(w) \/ WorkerCrash(w)
    <2>1. Down(w) /\ unit' = unit /\ due' = due
        BY <1>2 DEF WorkerExit, WorkerCrash
    <2>2. Stored' = Stored
        BY <2>1 DEF Stored, Copies
    <2>3. Working' \subseteq Working
        BY <2>1 DEF Down, AbandonTasks, Working, Img
    <2> QED
        BY <2>1, <2>2, <2>3 DEF Delivery!Next, Delivery!Abandon
<1> QED
    BY <1>1, <1>2 DEF WorkerStep

LEMMA RefineProducer ==
    ASSUME RefInv, ProducerStep \/ ProducerFault
    PROVE  [Delivery!Next]_(Delivery!vars)
<1> USE DEF RefInv, DueInv, DeliveryInv, TypeInv, TypeOK, PublishInv, broker, tasks
<1>1. CASE Publish
    <2>1. /\ current \in Images /\ Enqueue(current, 0) /\ work' = work
          /\ due' = due \cup {current}
        BY <1>1 DEF Publish
    <2>2. Stored' = Stored \cup {current}
        BY <2>1, EnqueueStores, ConstantsAssumption
    <2>3. Working' = Working
        BY <2>1 DEF Working, Img
    <2> QED
        BY <2>1, <2>2, <2>3 DEF Delivery!Next, Delivery!Publish
<1>2. CASE UNCHANGED <<broker, tasks, due>>
    BY <1>2, StutterKept
<1> QED
    BY <1>1, <1>2
       DEF ProducerStep, ProducerFault, StartTick, ReadDepths, ReclaimOrphans,
           ListTilesets, ReadInProgress, Discover, MarkInProgress,
           DepthsUnreadable, ListFails, DiscoveryFails, PublishLost,
           PublishRaises, ProducerCrash

LEMMA RefineRest ==
    ASSUME Clock \/ UNCHANGED vars
    PROVE  UNCHANGED Delivery!vars
    BY StutterKept DEF Clock, vars, broker, tasks

LEMMA RefineInit == Init => Delivery!Init
    BY ConstantsAssumption DEF Init, Delivery!Init, Stored, Working, Copies

(* The pipeline implements the abstract delivery service: what its         *)
(* messages, tags, retries, crashes and restarts do to the images is       *)
(* nothing but publishing, receiving, settling, retrying and finishing.    *)
THEOREM Refinement == Spec => ImplementsDelivery
<1>1. RefInv /\ RefInv' /\ [Next]_vars => [Delivery!Next]_(Delivery!vars)
    BY RefineTask, RefineWorker, RefineProducer, RefineRest, Steps DEF RefInv
<1> QED
    BY RefInit, RefNext, RefineInit, <1>1, PTL
       DEF Spec, ImplementsDelivery, Delivery!Spec
=============================================================================
