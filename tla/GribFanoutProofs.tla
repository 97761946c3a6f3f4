-------------------------- MODULE GribFanoutProofs --------------------------
(***************************************************************************)
(* Safety of GribFanout for every number of steps, products and tasks,     *)
(* every cap, retry limit and number of faults.                            *)
(*                                                                         *)
(* GribMeansFannedOut is about what is cached; it is not inductive, for a  *)
(* GRIB is cached by a task whose unit may have died, been taken by a twin *)
(* and given up meanwhile.  What strengthens it:                           *)
(*   - CoverInv says the same of every step that is cached or whose unit   *)
(*     some task still works on, with its delivery or without;             *)
(*   - FanInv says how far a task has come: what it no longer has to       *)
(*     publish is published, and what it is about to ack is done;          *)
(*   - TaskInv says what a task holds at each stage.                       *)
(***************************************************************************)
EXTENDS GribFanout, TLAPS

TaskInv ==
    \A t \in Tasks :
        /\ held[t] => pc[t] # "free"
        /\ pc[t] # "free" => work[t] \in Unit
        /\ pc[t] \in {"heads", "publish"} => work[t].what = "grib"

(* A product of a step has its COG, or a unit on the way, or is given up. *)
Rendered(i, p) == <<i, p>> \in cog \cup lost \/ Alive(i, p)

Progress(t) ==
    /\ pc[t] = "publish" => \A p \in Products \ pending[t] : Rendered(Step(t), p)
    /\ pc[t] = "ack" =>
          IF work[t].what = "grib"
          THEN FannedOut(Step(t))
          ELSE <<Step(t), work[t].what>> \in cog \cup lost

FanInv == \A t \in Tasks : Progress(t)

Claimed(i) ==
    \/ i \in grib
    \/ \E t \in Tasks : pc[t] # "free" /\ work[t].what = "grib" /\ Step(t) = i

Covered(i) == i \in dropped \/ Alive(i, "grib") \/ FannedOut(i)

CoverInv == \A i \in Steps : Claimed(i) => Covered(i)

(* The types of a task's variables, and those of everything else. *)
TaskTypes ==
    /\ pc \in [Tasks -> {"free", "fetch", "heads", "publish", "ack"}]
    /\ work \in [Tasks -> Unit \cup {None}]
    /\ held \in [Tasks -> BOOLEAN]
    /\ pending \in [Tasks -> SUBSET Products]

OtherTypes ==
    /\ age \in {"young", "eligible", "late", "gone"}
    /\ row \in [Steps -> {"none", "IN_PROGRESS", "PROCESSING"}]
    /\ grib \subseteq Steps
    /\ cog \subseteq Steps \X Products
    /\ waiting \in [Unit -> Nat]
    /\ phase \in {"idle", "reclaim", "list", "emit"}
    /\ known \subseteq Steps /\ budget \in 0 .. Cap /\ todo \subseteq Steps
    /\ (phase = "emit") = (todo # {})
    /\ faults \in 0 .. MaxFaults
    /\ dropped \subseteq Steps
    /\ lost \subseteq Steps \X Products

TypeInv == TypeOK /\ TaskInv

(* A copy of u is on its way: Alive, unit by unit. *)
HasCopy(u) == waiting[u] > 0 \/ \E t \in Tasks : held[t] /\ work[t] = u

AliveIsCopy ==
    \A i \in Steps : \A what \in Products \cup {"grib"} :
        Alive(i, what) <=> \E u \in Unit : u.step = i /\ u.what = what /\ HasCopy(u)

Settles(t) == NotServed(t) \/ Unusable(t) \/ Ack(t) \/ AttemptFails(t)

FanoutInv == TypeInv /\ FanInv /\ CoverInv
-----------------------------------------------------------------------------
(* The operators. *)

(* The fields of a unit. *)
LEMMA UnitFields ==
    ASSUME NEW u \in Unit
    PROVE  /\ u.step \in Steps
           /\ u.what \in Products \cup {"grib"}
           /\ u.retry \in 0 .. MaxRetries
           /\ u = [step |-> u.step, what |-> u.what, retry |-> u.retry]
BY DEF Unit

(* A retry is a unit of the same step and product. *)
LEMMA RetryUnit ==
    ASSUME NEW u \in Unit, u.retry < MaxRetries
    PROVE  /\ [u EXCEPT !.retry = @ + 1] \in Unit
           /\ [u EXCEPT !.retry = @ + 1].step = u.step
           /\ [u EXCEPT !.retry = @ + 1].what = u.what
BY FanoutAssumption DEF Unit

LEMMA NewUnits ==
    ASSUME NEW i \in Steps
    PROVE  /\ StepUnit(i) \in Unit
           /\ \A p \in Products : ProductUnit(i, p) \in Unit
BY FanoutAssumption DEF Unit, StepUnit, ProductUnit

LEMMA TypesSplit == TypeOK <=> TaskTypes /\ OtherTypes
BY DEF TypeOK, TaskTypes, OtherTypes

LEMMA PublishTypes ==
    ASSUME waiting \in [Unit -> Nat], NEW u, publish(u)
    PROVE  waiting' \in [Unit -> Nat]
<1>1. waiting' = [v \in Unit |-> IF v = u THEN waiting[v] + 1 ELSE waiting[v]]
    BY DEF publish
<1> QED
    BY <1>1

LEMMA FreeTypes ==
    ASSUME TaskTypes, TaskInv, NEW t \in Tasks, Free(t)
    PROVE  (TaskTypes /\ TaskInv)'
BY DEF TaskTypes, TaskInv, Free

LEMMA GotoTypes ==
    ASSUME TaskTypes, TaskInv, NEW t \in Tasks, pc[t] # "free",
           NEW stage \in {"heads", "publish", "ack"}, Goto(t, stage),
           stage # "ack" => work[t].what = "grib"
    PROVE  (TaskTypes /\ TaskInv)'
BY DEF TaskTypes, TaskInv, Goto

LEMMA GiveUpTypes ==
    ASSUME OtherTypes, TaskInv, NEW t \in Tasks, pc[t] # "free", GiveUp(t)
    PROVE  dropped' \subseteq Steps /\ lost' \subseteq Steps \X Products
<1>1. work[t] \in Unit
    BY DEF TaskInv
<1>2. work[t].step \in Steps /\ work[t].what \in Products \cup {"grib"}
    BY <1>1, UnitFields
<1> QED
    BY <1>2 DEF GiveUp, OtherTypes
-----------------------------------------------------------------------------
(* Every step preserves the types. *)

LEMMA TypeProducer ==
    TypeInv /\ (Tick \/ ListFails \/ DiscoveryFails \/ EmitFails \/ Clock) => TypeInv'
<1> SUFFICES ASSUME TypeInv, Tick \/ ListFails \/ DiscoveryFails \/ EmitFails \/ Clock
             PROVE  TypeInv'
    OBVIOUS
<1>1. TaskTypes /\ TaskInv /\ OtherTypes
    BY TypesSplit DEF TypeInv
<1>2. UNCHANGED tasks
    BY DEF Tick, QueuesEmpty, ReadTracker, EndTick,
        ListCached, ListFails, Select, DiscoveryFails,
           Emit, EmitFails, Clock
<1>3. (TaskTypes /\ TaskInv)'
    BY <1>1, <1>2 DEF TaskTypes, TaskInv, tasks
<1>4. OtherTypes'
    <2> USE <1>1, FanoutAssumption DEF OtherTypes, producer, Fault
    <2>1. CASE ReadTracker
        <3>1. phase' \in {"idle", "list"} /\ todo' = {} /\ known' \subseteq Steps
            BY <2>1 DEF ReadTracker, EndTick
        <3>2. budget' \in 0 .. Cap
            BY <2>1 DEF ReadTracker, EndTick
        <3>3. UNCHANGED <<age, row, grib, cog, waiting, faults, dropped, lost>>
            BY <2>1 DEF ReadTracker
        <3> QED
            BY <3>1, <3>2, <3>3
    <2>2. ASSUME NEW cached, Select(cached), faults' \in 0 .. MaxFaults
          PROVE  OtherTypes'
        <3>1. todo' \subseteq Steps
            BY <2>2 DEF Select, Selected, First
        <3>2. /\ phase' = IF todo' = {} THEN "idle" ELSE "emit"
              /\ known' = {} /\ budget' = 0
              /\ UNCHANGED <<age, row, grib, cog, waiting, dropped, lost>>
            BY <2>2 DEF Select
        <3> QED
            BY <2>2, <3>1, <3>2
    <2>3. CASE ListCached
        BY <2>2, <2>3 DEF ListCached
    <2>4. CASE ListFails
        BY <2>2, <2>4 DEF ListFails
    <2>5. CASE DiscoveryFails
        BY <2>5 DEF DiscoveryFails, EndTick
    <2>6. CASE Emit
        <3>1. waiting' \in [Unit -> Nat]
            BY <2>6, PublishTypes DEF Emit
        <3>2. row' \in [Steps -> {"none", "IN_PROGRESS", "PROCESSING"}]
            BY <2>6 DEF Emit, mark_in_progress
        <3>3. /\ todo' \subseteq Steps /\ phase' \in {"idle", "emit"}
              /\ (phase' = "emit") = (todo' # {})
            BY <2>6 DEF Emit
        <3>4. UNCHANGED <<age, grib, cog, known, budget, faults, dropped, lost>>
            BY <2>6 DEF Emit
        <3> QED
            BY <3>1, <3>2, <3>3, <3>4
    <2>7. CASE EmitFails
        <3>1. row' \in [Steps -> {"none", "IN_PROGRESS", "PROCESSING"}]
            BY <2>7 DEF EmitFails, mark_in_progress
        <3>2. /\ EndTick /\ faults' \in 0 .. MaxFaults
              /\ UNCHANGED <<age, grib, cog, waiting, dropped, lost>>
            BY <2>7 DEF EmitFails
        <3> QED
            BY <3>1, <3>2 DEF EndTick
    <2>8. CASE Clock
        <3>1. age' \in {"young", "eligible", "late", "gone"}
            BY <2>8 DEF Clock
        <3>2. UNCHANGED <<row, grib, cog, waiting, producer, faults, dropped, lost>>
            BY <2>8 DEF Clock
        <3> QED
            BY <3>1, <3>2
    <2>9. CASE QueuesEmpty
        BY <2>9 DEF QueuesEmpty
    <2> QED
        BY <2>1, <2>9, <2>3, <2>4, <2>5, <2>6, <2>7, <2>8 DEF Tick
<1> QED
    BY <1>3, <1>4, TypesSplit, PTL DEF TypeInv

LEMMA ReclaimTypes ==
    ASSUME TypeInv, NEW i \in Steps, ReclaimRow(i)
    PROVE  TypeInv'
BY FanoutAssumption DEF TypeInv, TypeOK, TaskInv, ReclaimRow, producer, tasks, Fault

LEMMA TakeTypes ==
    ASSUME TypeInv, NEW t \in Tasks, NEW u \in Unit, Take(t, u)
    PROVE  TypeInv'
<1>1. TaskTypes /\ TaskInv /\ OtherTypes
    BY TypesSplit DEF TypeInv
<1>2. (TaskTypes /\ TaskInv)'
    BY <1>1 DEF Take, TaskTypes, TaskInv
<1>3. waiting' \in [Unit -> Nat]
    BY <1>1 DEF Take, Available, OtherTypes
<1>4. row' \in [Steps -> {"none", "IN_PROGRESS", "PROCESSING"}]
    BY <1>1 DEF Take, Mark, OtherTypes
<1>5. UNCHANGED <<age, grib, cog, producer, faults, dropped, lost>>
    BY DEF Take
<1>6. OtherTypes'
    BY <1>1, <1>3, <1>4, <1>5 DEF OtherTypes, producer
<1> QED
    BY <1>2, <1>6, TypesSplit, PTL DEF TypeInv

LEMMA TypeTask ==
    ASSUME TypeInv, NEW t \in Tasks, TaskStep(t) \/ TaskFault(t)
    PROVE  TypeInv'
<1>1. TaskTypes /\ TaskInv /\ OtherTypes
    BY TypesSplit DEF TypeInv
<1>2. pc[t] # "free"
    BY <1>1 DEF TaskInv, TaskStep, TaskFault, CacheGrib, PendingProducts,
        PublishProduct, PublishRefused, MarkCompleted, Render, Ack, NotServed,
        Unusable, AttemptFails, WorkerCrash, ChannelDies, Downloading, Rendering
<1>3. work[t] \in Unit /\ Step(t) \in Steps
    BY <1>1, <1>2, UnitFields DEF TaskInv, Step
<1>4. (TaskTypes /\ TaskInv)'
    <2>1. CASE NotServed(t) \/ Unusable(t) \/ PublishRefused(t) \/ Ack(t)
               \/ AttemptFails(t) \/ WorkerCrash(t)
        <3>1. Free(t)
            BY <2>1 DEF NotServed, Unusable, PublishRefused, Ack, AttemptFails,
                        WorkerCrash
        <3> QED
            BY <1>1, <3>1, FreeTypes
    <2>2. CASE CacheGrib(t) \/ MarkCompleted(t) \/ Render(t)
        <3>1. \/ Goto(t, "heads") /\ work[t].what = "grib"
              \/ Goto(t, "ack")
            BY <2>2 DEF CacheGrib, MarkCompleted, Render, Downloading
        <3> QED
            BY <1>1, <1>2, <3>1, GotoTypes
    <2>3. CASE PendingProducts(t)
        BY <1>1, <2>3 DEF PendingProducts, OnHeadFailure, TaskTypes, TaskInv
    <2>4. CASE \E p \in Products : PublishProduct(t, p)
        BY <1>1, <2>4 DEF PublishProduct, TaskTypes, TaskInv
    <2>5. CASE ChannelDies(t)
        BY <1>1, <2>5 DEF ChannelDies, TaskTypes, TaskInv
    <2> QED
        BY <2>1, <2>2, <2>3, <2>4, <2>5 DEF TaskStep, TaskFault
<1>5. OtherTypes'
    <2> USE <1>1, FanoutAssumption
    <2>1. UNCHANGED <<age, producer>>
        BY DEF TaskStep, TaskFault, CacheGrib, PendingProducts, PublishProduct,
            PublishRefused, MarkCompleted, Render, Ack, NotServed, Unusable,
            AttemptFails, WorkerCrash, ChannelDies
    <2>2. faults' \in 0 .. MaxFaults
        BY DEF OtherTypes, TaskStep, TaskFault, CacheGrib, PendingProducts,
            PublishProduct, PublishRefused, MarkCompleted, Render, Ack, NotServed,
            Unusable, AttemptFails, WorkerCrash, ChannelDies, Fault
    <2>3. row' \in [Steps -> {"none", "IN_PROGRESS", "PROCESSING"}]
        BY DEF OtherTypes, TaskStep, TaskFault, CacheGrib, PendingProducts,
            PublishProduct, PublishRefused, MarkCompleted, Render, Ack, NotServed,
            Unusable, AttemptFails, WorkerCrash, ChannelDies
    <2>4. waiting' \in [Unit -> Nat]
        <3>1. \/ UNCHANGED waiting
              \/ \E u \in {work[t], [work[t] EXCEPT !.retry = @ + 1]}
                         \cup {ProductUnit(Step(t), p) : p \in Products} : publish(u)
            BY DEF TaskStep, TaskFault, CacheGrib, PendingProducts, PublishProduct,
                PublishRefused, MarkCompleted, Render, Ack, NotServed, Unusable,
                AttemptFails, WorkerCrash, ChannelDies, Requeue
        <3> QED
            BY <3>1, PublishTypes DEF OtherTypes
    <2>5. grib' \subseteq Steps
        BY <1>3 DEF OtherTypes, TaskStep, TaskFault, CacheGrib, PendingProducts,
            PublishProduct, PublishRefused, MarkCompleted, Render, Ack, NotServed,
            Unusable, AttemptFails, WorkerCrash, ChannelDies
    <2>6. /\ cog' \subseteq Steps \X Products
          /\ dropped' \subseteq Steps /\ lost' \subseteq Steps \X Products
        <3>1. CASE GiveUp(t) /\ UNCHANGED cog
            BY <1>2, <3>1, GiveUpTypes DEF OtherTypes
        <3>2. CASE Render(t)
            <4>1. work[t].what \in Products
                BY <1>3, <3>2, UnitFields DEF Render, Rendering
            <4> QED
                BY <1>3, <3>2, <4>1 DEF Render, OtherTypes
        <3>3. CASE \E p \in Products : PublishProduct(t, p)
            BY <1>3, <3>3 DEF PublishProduct, OtherTypes
        <3>4. CASE UNCHANGED <<cog, dropped, lost>>
            BY <3>4 DEF OtherTypes
        <3> QED
            BY <3>1, <3>2, <3>3, <3>4 DEF TaskStep, TaskFault, CacheGrib,
                PendingProducts, PublishRefused, MarkCompleted, Ack, NotServed,
                Unusable, AttemptFails, WorkerCrash, ChannelDies
    <2> QED
        BY <2>1, <2>2, <2>3, <2>4, <2>5, <2>6 DEF OtherTypes, producer
<1> QED
    BY <1>4, <1>5, TypesSplit, PTL DEF TypeInv

LEMMA TypeStep == TypeInv /\ [Next]_vars => TypeInv'
<1> SUFFICES ASSUME TypeInv, [Next]_vars
             PROVE  TypeInv'
    OBVIOUS
<1>1. CASE UNCHANGED vars
    BY <1>1 DEF TypeInv, TypeOK, TaskInv, vars, producer, tasks
<1> QED
    BY <1>1, TypeProducer, ReclaimTypes, TypeTask, TakeTypes DEF Next

-----------------------------------------------------------------------------
(* Copies of a unit. *)

LEMMA AliveCopy == TypeInv => AliveIsCopy
<1> SUFFICES ASSUME TypeInv, NEW i \in Steps, NEW what \in Products \cup {"grib"}
             PROVE  Alive(i, what)
                      <=> \E u \in Unit : u.step = i /\ u.what = what /\ HasCopy(u)
    BY DEF AliveIsCopy
<1>1. ASSUME NEW r \in 0 .. MaxRetries
      PROVE  LET u == [step |-> i, what |-> what, retry |-> r]
             IN  u \in Unit /\ u.step = i /\ u.what = what
    BY DEF Unit
<1>2. ASSUME NEW u \in Unit, u.step = i, u.what = what, HasCopy(u)
      PROVE  Alive(i, what)
    BY <1>2, UnitFields DEF HasCopy, Alive
<1>3. ASSUME NEW t \in Tasks, held[t]
      PROVE  work[t] \in Unit
    BY <1>3 DEF TypeInv, TaskInv
<1>4. ASSUME Alive(i, what)
      PROVE  \E u \in Unit : u.step = i /\ u.what = what /\ HasCopy(u)
    BY <1>1, <1>3, <1>4 DEF HasCopy, Alive
<1> QED
    BY <1>2, <1>4

(* Publishing takes nothing out of the queue. *)
LEMMA PublishMore ==
    ASSUME waiting \in [Unit -> Nat], NEW u \in Unit, publish(u)
    PROVE  /\ \A v \in Unit : waiting[v] > 0 => waiting'[v] > 0
           /\ waiting'[u] > 0
BY DEF publish

(* A task that gives its delivery up touches no copy but its own. *)
LEMMA FreeCopies ==
    ASSUME TypeInv, NEW t \in Tasks, Free(t),
           \A v \in Unit : waiting[v] > 0 => waiting'[v] > 0,
           NEW u \in Unit, HasCopy(u), ~(held[t] /\ work[t] = u)
    PROVE  HasCopy(u)'
BY DEF TypeInv, TypeOK, HasCopy, Free

LEMMA RequeueCopies ==
    ASSUME TypeInv, NEW t \in Tasks, Requeue(t)
    PROVE  /\ \A v \in Unit : waiting[v] > 0 => waiting'[v] > 0
           /\ held[t] => waiting'[work[t]] > 0
BY PublishMore DEF TypeInv, TypeOK, TaskInv, Requeue

(* A copy goes only when a task settles it. *)
LEMMA CopyStep ==
    ASSUME TypeInv, [Next]_vars, NEW u \in Unit, HasCopy(u)
    PROVE  \/ HasCopy(u)'
           \/ \E t \in Tasks : held[t] /\ work[t] = u /\ Settles(t)
<1>0. waiting \in [Unit -> Nat] /\ held \in [Tasks -> BOOLEAN]
      /\ work \in [Tasks -> Unit \cup {None}]
    BY DEF TypeInv, TypeOK
<1>1. ASSUME UNCHANGED <<waiting, held, work>>
      PROVE  HasCopy(u)'
    BY <1>1 DEF HasCopy
<1>2. ASSUME NEW v \in Unit, publish(v), UNCHANGED <<held, work>>
      PROVE  HasCopy(u)'
    BY <1>0, <1>2, PublishMore DEF HasCopy
<1>3. ASSUME NEW t \in Tasks, NEW v \in Unit, Take(t, v)
      PROVE  HasCopy(u)'
    <2>1. ~held[t]
        BY <1>3 DEF Take, TypeInv, TaskInv
    <2>2. held' = [held EXCEPT ![t] = TRUE] /\ work' = [work EXCEPT ![t] = v]
          /\ waiting' = [waiting EXCEPT ![v] = @ - 1]
        BY <1>3 DEF Take
    <2>3. CASE u = v
        BY <1>0, <2>2, <2>3 DEF HasCopy
    <2>4. CASE u # v
        BY <1>0, <2>1, <2>2, <2>4 DEF HasCopy
    <2> QED
        BY <2>3, <2>4
<1>4. ASSUME NEW t \in Tasks, WorkerCrash(t)
      PROVE  HasCopy(u)'
    <2>1. CASE held[t] /\ work[t] = u
        BY <1>4, <2>1, RequeueCopies DEF WorkerCrash, HasCopy
    <2>2. CASE ~(held[t] /\ work[t] = u)
        BY <1>4, <2>2, RequeueCopies, FreeCopies DEF WorkerCrash
    <2> QED
        BY <2>1, <2>2
<1>5. ASSUME NEW t \in Tasks, ChannelDies(t)
      PROVE  HasCopy(u)'
    <2>1. held' = [held EXCEPT ![t] = FALSE] /\ work' = work /\ Requeue(t)
        BY <1>5 DEF ChannelDies
    <2> QED
        BY <1>0, <2>1, RequeueCopies DEF HasCopy
<1>6. ASSUME NEW t \in Tasks, NEW p \in Products, PublishProduct(t, p)
      PROVE  HasCopy(u)'
    <2>1. Step(t) \in Steps
        BY <1>6, UnitFields DEF PublishProduct, TypeInv, TaskInv, Step
    <2> QED
        BY <1>1, <1>2, <1>6, <2>1, NewUnits DEF PublishProduct
<1>7. ASSUME Emit
      PROVE  HasCopy(u)'
    <2>1. UNCHANGED <<held, work>> /\ publish(StepUnit(Earliest(todo)))
        BY <1>7 DEF Emit, tasks
    <2>2. \A v \in Unit : waiting[v] > 0 => waiting'[v] > 0
        BY <1>0, <2>1 DEF publish
    <2> QED
        BY <2>1, <2>2 DEF HasCopy
<1>8. ASSUME NEW t \in Tasks, PublishRefused(t)
      PROVE  HasCopy(u)'
    BY <1>8, FreeCopies DEF PublishRefused
<1>9. ASSUME NEW t \in Tasks, Settles(t), ~(held[t] /\ work[t] = u)
      PROVE  HasCopy(u)'
    <2>1. \A v \in Unit : waiting[v] > 0 => waiting'[v] > 0
        <3>1. CASE UNCHANGED waiting
            BY <3>1
        <3>2. CASE publish([work[t] EXCEPT !.retry = @ + 1]) /\ held[t]
                   /\ work[t].retry < MaxRetries
            <4>1. work[t] \in Unit
                BY <3>2 DEF TypeInv, TaskInv
            <4> QED
                BY <1>0, <3>2, <4>1, RetryUnit, PublishMore
        <3> QED
            BY <1>9, <3>1, <3>2
            DEF Settles, NotServed, Unusable, Ack, AttemptFails
    <2> QED
        BY <1>9, <2>1, FreeCopies
        DEF Settles, NotServed, Unusable, Ack, AttemptFails
<1>10. ASSUME QueuesEmpty \/ ReadTracker \/ ListCached \/ ListFails
              \/ DiscoveryFails \/ EmitFails
              \/ Clock \/ UNCHANGED vars \/ \E i \in Steps : ReclaimRow(i)
       PROVE  HasCopy(u)'
    BY <1>1, <1>10 DEF QueuesEmpty, ReadTracker, EndTick,
        ListCached, ListFails, Select, DiscoveryFails,
        EmitFails, Clock, ReclaimRow, vars, tasks
<1>11. ASSUME NEW t \in Tasks,
              CacheGrib(t) \/ PendingProducts(t) \/ MarkCompleted(t) \/ Render(t)
       PROVE  HasCopy(u)'
    BY <1>1, <1>11 DEF CacheGrib, PendingProducts, MarkCompleted, Render, Goto
<1> QED
    BY <1>3, <1>4, <1>5, <1>6, <1>7, <1>8, <1>9, <1>10, <1>11
    DEF Next, Tick, TaskStep, TaskFault, Settles

-----------------------------------------------------------------------------
(* What is done stays done. *)

LEMMA Grow ==
    ASSUME [Next]_vars
    PROVE  /\ grib \subseteq grib' /\ cog \subseteq cog'
           /\ dropped \subseteq dropped' /\ lost \subseteq lost'
<1>1. ASSUME NEW t \in Tasks, TaskStep(t) \/ TaskFault(t)
      PROVE  /\ grib \subseteq grib' /\ cog \subseteq cog'
             /\ dropped \subseteq dropped' /\ lost \subseteq lost'
    BY <1>1 DEF TaskStep, TaskFault, CacheGrib, PendingProducts, PublishProduct,
        PublishRefused, MarkCompleted, Render, Ack, NotServed, Unusable,
        AttemptFails, WorkerCrash, ChannelDies, GiveUp
<1>2. ASSUME Tick \/ ListFails \/ DiscoveryFails \/ EmitFails \/ Clock
             \/ UNCHANGED vars \/ \E i \in Steps : ReclaimRow(i)
      PROVE  UNCHANGED <<grib, cog, dropped, lost>>
    BY <1>2 DEF Tick, QueuesEmpty, ReadTracker, EndTick,
        ListCached, ListFails, Select, DiscoveryFails,
        Emit, EmitFails, Clock, ReclaimRow, vars
<1>3. ASSUME NEW t \in Tasks, NEW u \in Unit, Take(t, u)
      PROVE  UNCHANGED <<grib, cog, dropped, lost>>
    BY <1>3 DEF Take
<1> QED
    BY <1>1, <1>2, <1>3 DEF Next

LEMMA CopyAlive ==
    ASSUME TypeInv', NEW i \in Steps, NEW what \in Products \cup {"grib"},
           NEW u \in Unit, u.step = i, u.what = what, HasCopy(u)'
    PROVE  Alive(i, what)'
<1>1. AliveIsCopy'
    BY AliveCopy, PTL
<1> QED
    BY <1>1 DEF AliveIsCopy

(* The retry of a unit takes the place of its copy. *)
LEMMA RetryAlive ==
    ASSUME TypeInv, TypeInv', NEW i \in Steps, NEW what \in Products \cup {"grib"},
           NEW t \in Tasks, held[t], work[t].step = i, work[t].what = what,
           work[t].retry < MaxRetries, publish([work[t] EXCEPT !.retry = @ + 1])
    PROVE  Alive(i, what)'
<1>1. work[t] \in Unit /\ waiting \in [Unit -> Nat]
    BY DEF TypeInv, TypeOK, TaskInv
<1>2. PICK u \in Unit : u.step = i /\ u.what = what /\ waiting'[u] > 0
    BY <1>1, RetryUnit, PublishMore
<1>3. HasCopy(u)'
    BY <1>2 DEF HasCopy
<1> QED
    BY <1>2, <1>3, CopyAlive

(* A product that has its COG, a unit on the way or its loss on record     *)
(* keeps one of the three.                                                 *)
LEMMA RenderedStep ==
    ASSUME TypeInv, TypeInv', FanInv, [Next]_vars,
           NEW i \in Steps, NEW p \in Products, Rendered(i, p)
    PROVE  Rendered(i, p)'
<1>1. CASE <<i, p>> \in cog \cup lost
    BY <1>1, Grow DEF Rendered
<1>2. CASE Alive(i, p)
    <2>1. PICK u \in Unit : u.step = i /\ u.what = p /\ HasCopy(u)
        BY <1>2, AliveCopy DEF AliveIsCopy
    <2>2. CASE HasCopy(u)'
        BY <2>1, <2>2, CopyAlive DEF Rendered
    <2>3. ASSUME NEW t \in Tasks, held[t], work[t] = u, Settles(t)
          PROVE  Rendered(i, p)'
        <3>1. work[t].step = i /\ work[t].what = p /\ p # "grib"
            BY <2>1, <2>3, FanoutAssumption
        <3>2. ASSUME GiveUp(t)
              PROVE  Rendered(i, p)'
            BY <3>1, <3>2 DEF GiveUp, Rendered
        <3>3. CASE NotServed(t) \/ Unusable(t)
            BY <3>2, <3>3 DEF NotServed, Unusable
        <3>4. CASE Ack(t)
            BY <3>1, <3>4, Grow DEF Ack, FanInv, Progress, Rendered, Step
        <3>5. CASE AttemptFails(t)
            <4>1. CASE work[t].retry < MaxRetries
                <5>1. publish([work[t] EXCEPT !.retry = @ + 1])
                    BY <2>3, <3>5, <4>1 DEF AttemptFails
                <5> QED
                    BY <2>3, <3>1, <4>1, <5>1, RetryAlive DEF Rendered
            <4>2. CASE ~(work[t].retry < MaxRetries)
                BY <2>3, <3>2, <3>5, <4>2 DEF AttemptFails
            <4> QED
                BY <4>1, <4>2
        <3> QED
            BY <2>3, <3>3, <3>4, <3>5 DEF Settles
    <2> QED
        BY <2>1, <2>2, <2>3, CopyStep
<1> QED
    BY <1>1, <1>2 DEF Rendered

LEMMA FannedOutStep ==
    ASSUME TypeInv, TypeInv', FanInv, [Next]_vars, NEW i \in Steps, FannedOut(i)
    PROVE  FannedOut(i)'
BY RenderedStep DEF FannedOut, Rendered

-----------------------------------------------------------------------------
(* A claimed step stays covered. *)

(* When the last claim on a step is given up, the step goes with it. *)
LEMMA GiveUpStep ==
    ASSUME TypeInv, NEW t \in Tasks, pc[t] # "free", work[t].what = "grib",
           GiveUp(t), Free(t), grib' = grib,
           NEW i \in Steps, Step(t) = i, Claimed(i)'
    PROVE  i \in dropped'
<1>1. CASE i \in grib
    BY <1>1 DEF GiveUp, Step
<1>2. ASSUME NEW s \in Tasks, pc'[s] # "free", work'[s].what = "grib", work'[s].step = i
      PROVE  i \in dropped'
    <2>1. s # t /\ pc[s] # "free" /\ work'[s] = work[s]
        BY <1>2 DEF TypeInv, TypeOK, Free
    <2>2. work[s] # None
        BY <2>1, NoneAssumption DEF TypeInv, TaskInv
    <2>3. s \in Twins(t)
        BY <1>2, <2>1, <2>2 DEF Twins, Step
    <2> QED
        BY <2>3 DEF GiveUp, Step
<1> QED
    BY <1>1, <1>2 DEF Claimed, Step

(* Claims are made by caching and by taking a copy that was there. *)
LEMMA NewClaim ==
    ASSUME TypeInv, TypeInv', [Next]_vars, NEW i \in Steps, Claimed(i)', ~Claimed(i)
    PROVE  Alive(i, "grib")'
<1>1. ASSUME NEW t \in Tasks, NEW u \in Unit, Take(t, u)
      PROVE  Alive(i, "grib")'
    <2>1. grib' = grib /\ work' = [work EXCEPT ![t] = u]
          /\ pc' = [pc EXCEPT ![t] = "fetch"] /\ held' = [held EXCEPT ![t] = TRUE]
        BY <1>1 DEF Take
    <2>2. u.what = "grib" /\ u.step = i
        BY <2>1 DEF Claimed, Step, TypeInv, TypeOK
    <2>3. HasCopy(u)'
        BY <2>1 DEF HasCopy, TypeInv, TypeOK
    <2> QED
        BY <2>2, <2>3, CopyAlive
<1>2. ASSUME grib' = grib, NEW t \in Tasks,
             \A s \in Tasks \ {t} : pc'[s] = pc[s] /\ work'[s] = work[s],
             pc'[t] # "free" => pc[t] # "free" /\ work'[t] = work[t]
      PROVE  FALSE
    BY <1>2 DEF Claimed, Step
<1>3. ASSUME NEW t \in Tasks, Free(t), grib' = grib
      PROVE  FALSE
    BY <1>2, <1>3 DEF Free, TypeInv, TypeOK
<1>4. ASSUME NEW t \in Tasks,
             NotServed(t) \/ Unusable(t) \/ PublishRefused(t) \/ Ack(t)
             \/ AttemptFails(t) \/ WorkerCrash(t)
      PROVE  FALSE
    BY <1>3, <1>4 DEF NotServed, Unusable, PublishRefused, Ack, AttemptFails,
        WorkerCrash
<1>5. ASSUME NEW t \in Tasks,
             PendingProducts(t) \/ MarkCompleted(t) \/ Render(t) \/ ChannelDies(t)
             \/ \E p \in Products : PublishProduct(t, p)
      PROVE  FALSE
    <2>1. grib' = grib /\ work' = work /\ pc[t] # "free"
          /\ \A s \in Tasks \ {t} : pc'[s] = pc[s]
        BY <1>5 DEF PendingProducts, MarkCompleted, Render, Rendering, Goto,
            ChannelDies, PublishProduct, TypeInv, TypeOK, TaskInv
    <2> QED
        BY <1>2, <2>1
<1>6. ASSUME NEW t \in Tasks, CacheGrib(t)
      PROVE  FALSE
    <2>1. grib' = grib \cup {Step(t)} /\ work' = work /\ pc[t] # "free"
          /\ work[t].what = "grib" /\ \A s \in Tasks \ {t} : pc'[s] = pc[s]
        BY <1>6 DEF CacheGrib, Downloading, Goto, TypeInv, TypeOK
    <2> QED
        BY <2>1 DEF Claimed, Step
<1>7. ASSUME UNCHANGED <<grib, pc, work>>
      PROVE  FALSE
    BY <1>7 DEF Claimed, Step
<1>8. ASSUME Tick \/ ListFails \/ DiscoveryFails \/ EmitFails \/ Clock
             \/ UNCHANGED vars \/ \E j \in Steps : ReclaimRow(j)
      PROVE  FALSE
    BY <1>7, <1>8 DEF Tick, QueuesEmpty, ReadTracker, EndTick,
        ListCached, ListFails, Select,
        DiscoveryFails, Emit, EmitFails, Clock, ReclaimRow, vars, tasks
<1> QED
    BY <1>1, <1>4, <1>5, <1>6, <1>8 DEF Next, TaskStep, TaskFault

LEMMA CoverStep ==
    ASSUME TypeInv, TypeInv', FanInv, CoverInv, [Next]_vars,
           NEW i \in Steps, Claimed(i)'
    PROVE  Covered(i)'
<1>1. CASE ~Claimed(i)
    BY <1>1, NewClaim DEF Covered
<1>2. CASE Claimed(i) /\ i \in dropped
    BY <1>2, Grow DEF Covered
<1>3. CASE Claimed(i) /\ FannedOut(i)
    BY <1>3, FannedOutStep DEF Covered
<1>4. CASE Claimed(i) /\ Alive(i, "grib")
    <2>1. PICK u \in Unit : u.step = i /\ u.what = "grib" /\ HasCopy(u)
        BY <1>4, AliveCopy DEF AliveIsCopy
    <2>2. CASE HasCopy(u)'
        BY <2>1, <2>2, CopyAlive DEF Covered
    <2>3. ASSUME NEW t \in Tasks, held[t], work[t] = u, Settles(t)
          PROVE  Covered(i)'
        <3>1. work[t].step = i /\ Step(t) = i /\ work[t].what = "grib" /\ pc[t] # "free"
            BY <2>1, <2>3 DEF Step, TypeInv, TaskInv
        <3>2. ASSUME GiveUp(t), Free(t), grib' = grib
              PROVE  Covered(i)'
            BY <3>1, <3>2, GiveUpStep DEF Covered
        <3>3. CASE NotServed(t) \/ Unusable(t)
            BY <3>2, <3>3 DEF NotServed, Unusable
        <3>4. CASE Ack(t)
            <4>1. FannedOut(i)
                BY <3>1, <3>4 DEF Ack, FanInv, Progress
            <4> QED
                BY <4>1, FannedOutStep DEF Covered
        <3>5. CASE AttemptFails(t)
            <4>1. CASE work[t].retry < MaxRetries
                <5>1. publish([work[t] EXCEPT !.retry = @ + 1])
                    BY <2>3, <3>5, <4>1 DEF AttemptFails
                <5> QED
                    BY <2>3, <3>1, <4>1, <5>1, RetryAlive DEF Covered
            <4>2. CASE ~(work[t].retry < MaxRetries)
                BY <2>3, <3>2, <3>5, <4>2 DEF AttemptFails
            <4> QED
                BY <4>1, <4>2
        <3> QED
            BY <2>3, <3>3, <3>4, <3>5 DEF Settles
    <2> QED
        BY <2>1, <2>2, <2>3, CopyStep
<1> QED
    BY <1>1, <1>2, <1>3, <1>4 DEF CoverInv, Covered

-----------------------------------------------------------------------------
(* What a task has done of its unit. *)

(* A task that does not move loses none of it. *)
LEMMA ProgressKept ==
    ASSUME TypeInv, TypeInv', FanInv, [Next]_vars, NEW t \in Tasks,
           pc'[t] = pc[t], work'[t] = work[t], pending'[t] = pending[t]
    PROVE  Progress(t)'
<1>1. pc[t] # "free" => Step(t) \in Steps
    BY UnitFields DEF TypeInv, TaskInv, Step
<1>2. Step(t)' = Step(t)
    BY DEF Step
<1>3. CASE pc[t] = "publish"
    <2>1. \A p \in Products \ pending[t] : Rendered(Step(t), p)
        BY <1>3 DEF FanInv, Progress
    <2>2. ASSUME NEW i \in Steps, i = Step(t), NEW p \in Products \ pending[t]
          PROVE  Rendered(i, p)'
        BY <2>1, <2>2, RenderedStep
    <2> QED
        BY <1>1, <1>2, <1>3, <2>2 DEF Progress, Rendered
<1>4. CASE pc[t] = "ack" /\ work[t].what = "grib"
    <2>1. FannedOut(Step(t))
        BY <1>4 DEF FanInv, Progress
    <2>2. ASSUME NEW i \in Steps, i = Step(t)
          PROVE  FannedOut(i)'
        BY <2>1, <2>2, FannedOutStep
    <2> QED
        BY <1>1, <1>2, <1>4, <2>2 DEF Progress, FannedOut
<1>5. CASE pc[t] = "ack" /\ work[t].what # "grib"
    BY <1>2, <1>5, Grow DEF FanInv, Progress
<1>6. CASE pc[t] \notin {"publish", "ack"}
    BY <1>6 DEF Progress
<1> QED
    BY <1>3, <1>4, <1>5, <1>6

LEMMA FanStep ==
    ASSUME TypeInv, TypeInv', FanInv, [Next]_vars, NEW t \in Tasks
    PROVE  Progress(t)'
<1> DEFINE Still == pc'[t] = pc[t] /\ work'[t] = work[t] /\ pending'[t] = pending[t]
<1>1. CASE Still
    BY <1>1, ProgressKept
<1>2. CASE pc'[t] \notin {"publish", "ack"}
    BY <1>2 DEF Progress
<1>3. ASSUME NEW s \in Tasks, TaskStep(s) \/ TaskFault(s), s # t
      PROVE  Still
    BY <1>3 DEF TypeInv, TypeOK, TaskStep, TaskFault, CacheGrib, PendingProducts,
        PublishProduct, PublishRefused, MarkCompleted, Render, Ack, NotServed,
        Unusable, AttemptFails, WorkerCrash, ChannelDies, Free, Goto
<1>4. ASSUME NEW s \in Tasks, NEW u \in Unit, Take(s, u)
      PROVE  Still \/ pc'[t] = "fetch"
    BY <1>4 DEF Take, TypeInv, TypeOK
<1>5. ASSUME Tick \/ ListFails \/ DiscoveryFails \/ EmitFails \/ Clock
             \/ UNCHANGED vars \/ \E j \in Steps : ReclaimRow(j)
      PROVE  Still
    BY <1>5 DEF Tick, QueuesEmpty, ReadTracker, EndTick,
        ListCached, ListFails, Select, DiscoveryFails,
        Emit, EmitFails, Clock, ReclaimRow, vars, tasks
<1>6. ASSUME ChannelDies(t)
      PROVE  Still
    BY <1>6 DEF ChannelDies
<1>7. ASSUME Free(t)
      PROVE  pc'[t] = "free"
    BY <1>7 DEF Free, TypeInv, TypeOK
<1>8. ASSUME NotServed(t) \/ Unusable(t) \/ PublishRefused(t) \/ Ack(t)
             \/ AttemptFails(t) \/ WorkerCrash(t)
      PROVE  pc'[t] = "free"
    BY <1>7, <1>8 DEF NotServed, Unusable, PublishRefused, Ack, AttemptFails,
        WorkerCrash
<1>9. ASSUME CacheGrib(t)
      PROVE  pc'[t] = "heads"
    BY <1>9 DEF CacheGrib, Goto, TypeInv, TypeOK
<1>10. CASE PendingProducts(t)
    <2>1. pc'[t] = "publish" /\ work' = work /\ cog' = cog
          /\ \A p \in Products \ pending'[t] : <<Step(t), p>> \in cog
        BY <1>10 DEF PendingProducts, OnHeadFailure, TypeInv, TypeOK
    <2> QED
        BY <2>1 DEF Progress, Rendered, Step
<1>11. ASSUME NEW p \in Products, PublishProduct(t, p)
       PROVE  Progress(t)'
    <2>1. pc[t] = "publish" /\ pc' = pc /\ work' = work
          /\ pending' = [pending EXCEPT ![t] = @ \ {p}]
        BY <1>11 DEF PublishProduct
    <2>2. work[t] \in Unit /\ Step(t) \in Steps /\ Step(t)' = Step(t)
        BY <2>1, UnitFields DEF TypeInv, TaskInv, Step
    <2>3. ASSUME NEW i \in Steps, i = Step(t), NEW q \in Products \ pending[t]
          PROVE  Rendered(i, q)'
        BY <2>1, <2>3, RenderedStep DEF FanInv, Progress
    <2>4. ASSUME NEW i \in Steps, i = Step(t)
          PROVE  Rendered(i, p)'
        <3>1. CASE publish(ProductUnit(i, p))
            <4>1. ProductUnit(i, p) \in Unit /\ ProductUnit(i, p).step = i
                  /\ ProductUnit(i, p).what = p
                BY NewUnits DEF ProductUnit
            <4>2. waiting'[ProductUnit(i, p)] > 0
                BY <3>1, <4>1, PublishMore DEF TypeInv, TypeOK
            <4>3. HasCopy(ProductUnit(i, p))'
                BY <4>2 DEF HasCopy, ProductUnit
            <4> QED
                BY <4>1, <4>3, CopyAlive DEF Rendered
        <3>2. CASE lost' = lost \cup {<<i, p>>}
            BY <3>2 DEF Rendered
        <3> QED
            BY <1>11, <2>4, <3>1, <3>2 DEF PublishProduct
    <2> QED
        BY <2>1, <2>2, <2>3, <2>4 DEF Progress, Rendered, TypeInv, TypeOK, TaskInv
<1>12. CASE MarkCompleted(t)
    <2>1. pc[t] = "publish" /\ pending[t] = {} /\ pc'[t] = "ack" /\ work' = work
        BY <1>12 DEF MarkCompleted, Goto, TypeInv, TypeOK
    <2>2. work[t].what = "grib" /\ Step(t) \in Steps /\ Step(t)' = Step(t)
        BY <2>1, UnitFields DEF TypeInv, TaskInv, Step
    <2>3. ASSUME NEW i \in Steps, i = Step(t)
          PROVE  FannedOut(i)'
        <3>1. FannedOut(i)
            BY <2>1, <2>3 DEF FanInv, Progress, FannedOut, Rendered
        <3> QED
            BY <3>1, FannedOutStep
    <2> QED
        BY <2>1, <2>2, <2>3 DEF Progress, FannedOut
<1>13. CASE Render(t)
    <2>1. work[t].what # "grib" /\ work' = work /\ pc'[t] = "ack"
          /\ <<Step(t), work[t].what>> \in cog' \cup lost'
        BY <1>13 DEF Render, Rendering, Goto, TypeInv, TypeOK
    <2> QED
        BY <2>1 DEF Progress, Step
<1> QED
    BY <1>1, <1>2, <1>3, <1>4, <1>5, <1>6, <1>8, <1>9, <1>10, <1>11, <1>12, <1>13
    DEF Next, TaskStep, TaskFault

-----------------------------------------------------------------------------
(* The theorems. *)

LEMMA FanoutInit == Init => FanoutInv
<1> SUFFICES ASSUME Init
             PROVE  FanoutInv
    OBVIOUS
<1>1. TypeInv
    BY FanoutAssumption DEF Init, TypeInv, TypeOK, TaskInv
<1>2. FanInv
    BY DEF Init, FanInv, Progress
<1>3. CoverInv
    BY DEF Init, CoverInv, Claimed
<1> QED
    BY <1>1, <1>2, <1>3 DEF FanoutInv

LEMMA FanoutStep == FanoutInv /\ [Next]_vars => FanoutInv'
<1> SUFFICES ASSUME TypeInv, FanInv, CoverInv, [Next]_vars
             PROVE  FanoutInv'
    BY DEF FanoutInv
<1>1. TypeInv'
    BY TypeStep
<1>2. FanInv'
    BY <1>1, FanStep DEF FanInv
<1>3. CoverInv'
    BY <1>1, CoverStep DEF CoverInv
<1> QED
    BY <1>1, <1>2, <1>3 DEF FanoutInv

LEMMA FanoutSafe == Spec => []FanoutInv
BY FanoutInit, FanoutStep, PTL DEF Spec

(* Every variable keeps its type: no retry count passes max_retries, no    *)
(* count of copies goes below zero, the producer emits only while it has a *)
(* step left to emit.                                                      *)
THEOREM TypeCorrect == Spec => []TypeOK
<1>1. FanoutInv => TypeOK
    BY DEF FanoutInv, TypeInv
<1> QED
    BY <1>1, FanoutSafe, PTL

(* A cached GRIB never hides a step that was neither fanned out nor given  *)
(* up, whatever crashes, retries and dead channels do to the task that     *)
(* publishes its products.                                                 *)
THEOREM CachedIsFannedOut == Spec => []GribMeansFannedOut
<1>1. FanoutInv => GribMeansFannedOut
    BY DEF FanoutInv, TypeInv, TypeOK, CoverInv, Claimed, Covered,
           GribMeansFannedOut
<1> QED
    BY <1>1, FanoutSafe, PTL
=============================================================================
