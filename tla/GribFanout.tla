----------------------------- MODULE GribFanout -----------------------------
(***************************************************************************)
(* The model forecasts: one download, many products.  The producer emits a *)
(* unit per forecast step whose GRIB is not in the S3 cache; its worker    *)
(* downloads the GRIB, caches it and, inline, publishes one rendering unit *)
(* per product.  From then on the cached GRIB is what hides the step from  *)
(* the discovery, and the tracker knows nothing of the rendering units.    *)
(*                                                                         *)
(* One GFS cycle is modelled; an ECMWF run is a cycle of one step, without *)
(* cap and whose listing failure ends the tick (DiscoveryFails).  A worker *)
(* is one task.  TilesPipeline has the tracker and the broker in detail;   *)
(* here a row has no age and an expiry under a live unit is a fault.       *)
(***************************************************************************)
EXTENDS Integers, FiniteSets

CONSTANTS
    N,           \* forecast steps of the cycle
    Products,    \* enabled products
    Tasks,       \* workers
    Cap,         \* max_steps_per_tick
    MaxRetries,  \* WorkUnit.max_retries
    MaxFaults,   \* bound: faults in a behaviour
    None

ASSUME FanoutAssumption ==
    /\ N \in Nat /\ Cap \in Nat /\ MaxRetries \in Nat /\ MaxFaults \in Nat
    /\ "grib" \notin Products

Steps == 1 .. N

(* A step's download and fan-out, or the rendering of one of its products. *)
Unit == [step : Steps, what : Products \cup {"grib"}, retry : 0 .. MaxRetries]

ASSUME NoneAssumption == None \notin Unit

StepUnit(i) == [step |-> i, what |-> "grib", retry |-> 0]
ProductUnit(i, p) == [step |-> i, what |-> p, retry |-> 0]

VARIABLES
    age,      \* of the cycle: "young" (unpublished), "eligible", "late",
              \* "gone" (no longer among the cycles_to_maintain newest)
    row,      \* tracker row of a step
    grib,     \* steps whose GRIB is cached
    cog,      \* <<step, product>> whose primary COG is in S3
    waiting,  \* copies of each unit in the queue
    phase, known, budget, todo,  \* the producer's tick
    pc, work, held, pending,   \* a task: stage, unit, whether its delivery
                               \* can still be settled, products to publish
    faults,
    \* ghosts: steps given up although their GRIB is cached or about to be,
    \* and products given up (dead letter, failed upload, lost message)
    dropped, lost

producer == <<phase, known, budget, todo>>
tasks    == <<pc, work, held, pending>>
vars == <<age, row, grib, cog, waiting, producer, tasks, faults, dropped, lost>>

Fault == faults < MaxFaults /\ faults' = faults + 1

Init ==
    /\ age = "young"
    /\ row = [i \in Steps |-> "none"]
    /\ grib = {} /\ cog = {}
    /\ waiting = [u \in Unit |-> 0]
    /\ phase = "idle" /\ known = {} /\ budget = 0 /\ todo = {}
    /\ pc = [t \in Tasks |-> "free"]
    /\ work = [t \in Tasks |-> None]
    /\ held = [t \in Tasks |-> FALSE]
    /\ pending = [t \in Tasks |-> {}]
    /\ faults = 0
    /\ dropped = {} /\ lost = {}

-----------------------------------------------------------------------------
(* Units: a copy waits in the queue or is the unsettled delivery of a task *)

Alive(i, what) ==
    \/ \E r \in 0 .. MaxRetries :
          waiting[[step |-> i, what |-> what, retry |-> r]] > 0
    \/ \E t \in Tasks : held[t] /\ work[t].step = i /\ work[t].what = what

publish(u) == waiting' = [waiting EXCEPT ![u] = @ + 1]

Free(t) ==
    /\ pc' = [pc EXCEPT ![t] = "free"]
    /\ work' = [work EXCEPT ![t] = None]
    /\ held' = [held EXCEPT ![t] = FALSE]
    /\ pending' = [pending EXCEPT ![t] = {}]

Goto(t, stage) ==
    /\ pc' = [pc EXCEPT ![t] = stage]
    /\ UNCHANGED <<work, held, pending>>

(* Tasks with a copy of t's unit: what a dead channel leaves running.      *)
Twins(t) == {s \in Tasks \ {t} : work[s] # None /\ work[s].step = work[t].step
                                   /\ work[s].what = work[t].what}

(* A unit that ends without having done what it is for. *)
GiveUp(t) ==
    LET u == work[t] IN
    IF u.what = "grib"
    THEN /\ dropped' = IF u.step \in grib \/ Twins(t) # {}
                       THEN dropped \cup {u.step} ELSE dropped
         /\ UNCHANGED lost
    ELSE /\ lost' = lost \cup {<<u.step, u.what>>}
         /\ UNCHANGED dropped

-----------------------------------------------------------------------------
(* The producer. *)

EndTick == phase' = "idle" /\ known' = {} /\ budget' = 0 /\ todo' = {}

(* A tick that finds every work queue empty: none holds a unit of this     *)
(* cycle, and none of another cycle or source.                             *)
QueuesEmpty ==
    /\ phase = "idle"
    /\ \A u \in Unit : waiting[u] = 0
    /\ phase' = "reclaim"
    /\ UNCHANGED <<age, row, grib, cog, waiting, known, budget, todo, tasks, faults,
                   dropped, lost>>

(* A tick whose queues are not all empty comes here at once.  The rows are *)
(* read before discover_images lists the cache.  The newer cycles come     *)
(* first: this one has what they leave of the cap, and is not looked at if *)
(* that is nothing.                                                        *)
ReadTracker ==
    /\ phase \in {"idle", "reclaim"}
    /\ \/ /\ known' = {i \in Steps : row[i] # "none"}
          /\ budget' \in 1 .. Cap
          /\ phase' = "list"
          /\ UNCHANGED todo
       \/ EndTick
    /\ UNCHANGED <<age, row, grib, cog, waiting, tasks, faults, dropped, lost>>

First(n, S) == {i \in S : Cardinality({j \in S : j < i}) < n}

(* A candidate, published, and not abandoned. *)
Eligible(cached) == age = "eligible" \/ (age = "late" /\ cached # {})

(* Mutant: the cap is applied before the dedup. *)
Selected_CapFirst(cached) ==
    IF Eligible(cached) THEN First(budget, Steps) \ (cached \cup known) ELSE {}

(* Eligibility, dedup, cap: in that order. *)
Selected(cached) ==
    IF Eligible(cached) THEN First(budget, Steps \ (cached \cup known)) ELSE {}

Select(cached) ==
    /\ phase = "list"
    /\ todo' = Selected(cached)
    /\ phase' = IF todo' = {} THEN "idle" ELSE "emit"
    /\ known' = {} /\ budget' = 0
    /\ UNCHANGED <<age, row, grib, cog, waiting, tasks, dropped, lost>>

ListCached == Select(grib) /\ UNCHANGED faults

(* A LIST that fails finds nothing cached. *)
ListFails == Select({}) /\ Fault

(* An exception, the discovery timeout, an unknown latest ECMWF run, or a  *)
(* crash of the producer.                                                  *)
DiscoveryFails ==
    /\ phase # "idle"
    /\ Fault
    /\ EndTick
    /\ UNCHANGED <<age, row, grib, cog, waiting, tasks, dropped, lost>>

Earliest(S) == CHOOSE i \in S : \A j \in S : i <= j

mark_in_progress(i) == row' = [row EXCEPT ![i] = "IN_PROGRESS"]

Emit ==
    /\ phase = "emit"
    /\ LET i == Earliest(todo) IN
       /\ mark_in_progress(i)
       /\ publish(StepUnit(i))
       /\ todo' = todo \ {i}
    /\ phase' = IF todo' = {} THEN "idle" ELSE "emit"
    /\ UNCHANGED <<age, grib, cog, known, budget, tasks, faults, dropped, lost>>

(* Marked but not published: publish raises, or the process ends. *)
EmitFails ==
    /\ phase = "emit"
    /\ Fault
    /\ mark_in_progress(Earliest(todo))
    /\ EndTick
    /\ UNCHANGED <<age, grib, cog, waiting, tasks, dropped, lost>>

(* The reclaims at the start of a tick: a PROCESSING row past its TTL, and *)
(* an IN_PROGRESS one if the queues were found empty.                      *)
ReclaimRow(i) ==
    /\ \/ phase = "idle" /\ row[i] = "PROCESSING"
       \/ phase = "reclaim" /\ row[i] = "IN_PROGRESS"
    /\ IF Alive(i, "grib") THEN Fault ELSE UNCHANGED faults
    /\ row' = [row EXCEPT ![i] = "none"]
    /\ UNCHANGED <<age, grib, cog, waiting, producer, tasks, dropped, lost>>

(* availability_probe_hours: from, then to; and cycles_to_maintain newer   *)
(* cycles, finished or not.  A tick reads the time once.                   *)
Clock ==
    /\ phase = "idle"
    /\ \/ age = "young" /\ age' = "eligible"
       \/ age = "eligible" /\ age' = "late"
       \/ age # "gone" /\ age' = "gone"
    /\ UNCHANGED <<row, grib, cog, waiting, producer, tasks, faults, dropped, lost>>

-----------------------------------------------------------------------------
(* A worker's task. *)

Step(t) == work[t].step
Downloading(t) == pc[t] = "fetch" /\ work[t].what = "grib"
Rendering(t) == pc[t] = "fetch" /\ work[t].what # "grib"

Mark(u) ==
    row' = IF u.what = "grib" /\ row[u.step] # "none"
           THEN [row EXCEPT ![u.step] = "PROCESSING"] ELSE row

Available(u) == waiting[u] > 0

(* poll_one and mark_processing; a rendering unit's band has no row. *)
Take(t, u) ==
    /\ pc[t] = "free" /\ Available(u)
    /\ waiting' = [waiting EXCEPT ![u] = @ - 1]
    /\ pc' = [pc EXCEPT ![t] = "fetch"]
    /\ work' = [work EXCEPT ![t] = u]
    /\ held' = [held EXCEPT ![t] = TRUE]
    /\ Mark(u)
    /\ UNCHANGED <<age, grib, cog, producer, pending, faults, dropped, lost>>

(* ForecastNotAvailableError, TransientDownloadError: release, ack. *)
NotServed(t) ==
    /\ Downloading(t)
    /\ Fault
    /\ row' = [row EXCEPT ![Step(t)] = "none"]
    /\ GiveUp(t)
    /\ Free(t)
    /\ UNCHANGED <<age, grib, cog, waiting, producer>>

(* InvalidGribResponseError and other unusable input: ack. *)
Unusable(t) ==
    /\ pc[t] = "fetch"
    /\ Fault
    /\ GiveUp(t)
    /\ Free(t)
    /\ UNCHANGED <<age, row, grib, cog, waiting, producer>>

(* Downloaded; then _upload_grib_if_missing finds it there or uploads it. *)
CacheGrib(t) ==
    /\ Downloading(t)
    /\ grib' = grib \cup {Step(t)}
    /\ Goto(t, "heads")
    /\ UNCHANGED <<age, row, cog, waiting, producer, faults, dropped, lost>>

(* Mutant: what could not be checked is taken as rendered. *)
OnHeadFailure_Nothing == {}

OnHeadFailure == Products

PendingProducts(t) ==
    /\ pc[t] = "heads"
    /\ \/ /\ pending' = [pending EXCEPT ![t] =
                           {p \in Products : <<Step(t), p>> \notin cog}]
          /\ UNCHANGED faults
       \/ /\ Fault
          /\ pending' = [pending EXCEPT ![t] = OnHeadFailure]
    /\ pc' = [pc EXCEPT ![t] = "publish"]
    /\ UNCHANGED <<age, row, grib, cog, waiting, producer, work, held, dropped, lost>>

(* Without publisher confirms a published message may be lost. *)
PublishProduct(t, p) ==
    /\ pc[t] = "publish" /\ p \in pending[t] /\ held[t]
    /\ \/ publish(ProductUnit(Step(t), p)) /\ UNCHANGED <<faults, lost>>
       \/ /\ Fault
          /\ lost' = lost \cup {<<Step(t), p>>}
          /\ UNCHANGED waiting
    /\ pending' = [pending EXCEPT ![t] = @ \ {p}]
    /\ UNCHANGED <<age, row, grib, cog, producer, pc, work, held, dropped>>

(* With a dead channel publish raises, and the publication of the retry as *)
(* well: the task dies.                                                    *)
PublishRefused(t) ==
    /\ pc[t] = "publish" /\ pending[t] # {} /\ ~held[t]
    /\ Free(t)
    /\ UNCHANGED <<age, row, grib, cog, waiting, producer, faults, dropped, lost>>

MarkCompleted(t) ==
    /\ pc[t] = "publish" /\ pending[t] = {}
    /\ row' = [row EXCEPT ![Step(t)] = "none"]
    /\ Goto(t, "ack")
    /\ UNCHANGED <<age, grib, cog, waiting, producer, faults, dropped, lost>>

(* The upload of a COG that fails is logged and the unit completes. *)
Render(t) ==
    /\ Rendering(t)
    /\ LET product == <<Step(t), work[t].what>> IN
       \/ cog' = cog \cup {product} /\ UNCHANGED <<faults, lost>>
       \/ Fault /\ lost' = lost \cup {product} /\ UNCHANGED cog
    /\ Goto(t, "ack")
    /\ UNCHANGED <<age, row, grib, waiting, producer, dropped>>

Ack(t) ==
    /\ pc[t] = "ack"
    /\ Free(t)
    /\ UNCHANGED <<age, row, grib, cog, waiting, producer, faults, dropped, lost>>

(* Any other exception: retry, dead letter, or, with a dead channel, out   *)
(* of the task.                                                            *)
AttemptFails(t) ==
    /\ pc[t] = "fetch" \/ (pc[t] = "publish" /\ pending[t] = {})
    /\ Fault
    /\ LET u == work[t] IN
       IF ~held[t] THEN UNCHANGED <<waiting, dropped, lost>>
       ELSE IF u.retry < MaxRetries
       THEN publish([u EXCEPT !.retry = @ + 1]) /\ UNCHANGED <<dropped, lost>>
       ELSE GiveUp(t) /\ UNCHANGED waiting
    /\ Free(t)
    /\ UNCHANGED <<age, row, grib, cog, producer>>

(* The broker requeues an unsettled delivery when its channel goes, with   *)
(* the worker or without.  A shutdown's nack has the same effect.          *)
Requeue(t) == IF held[t] THEN publish(work[t]) ELSE UNCHANGED waiting

WorkerCrash(t) ==
    /\ pc[t] # "free"
    /\ Fault
    /\ Requeue(t)
    /\ Free(t)
    /\ UNCHANGED <<age, row, grib, cog, producer, dropped, lost>>

ChannelDies(t) ==
    /\ held[t]
    /\ Fault
    /\ Requeue(t)
    /\ held' = [held EXCEPT ![t] = FALSE]
    /\ UNCHANGED <<age, row, grib, cog, producer, pc, work, pending, dropped, lost>>

TaskStep(t) ==
    \/ CacheGrib(t) \/ PendingProducts(t)
    \/ \E p \in Products : PublishProduct(t, p)
    \/ PublishRefused(t) \/ MarkCompleted(t) \/ Render(t) \/ Ack(t)

TaskFault(t) ==
    NotServed(t) \/ Unusable(t) \/ AttemptFails(t) \/ WorkerCrash(t) \/ ChannelDies(t)

Tick == QueuesEmpty \/ ReadTracker \/ ListCached \/ Emit

Next ==
    \/ Tick \/ ListFails \/ DiscoveryFails \/ EmitFails \/ Clock
    \/ \E i \in Steps : ReclaimRow(i)
    \/ \E t \in Tasks :
          TaskStep(t) \/ TaskFault(t) \/ \E u \in Unit : Take(t, u)

Spec == Init /\ [][Next]_vars

(* Somewhere work goes on: the scheduler ticks, a worker takes a unit, a   *)
(* task moves (WF); a row past its TTL is reclaimed by one of the ticks    *)
(* that may (SF: between them it may not).  No tick needs ever find the    *)
(* queues empty, nor anything left of the cap.                             *)
Fairness ==
    /\ WF_vars(Tick)
    /\ SF_vars(\E i \in Steps : ReclaimRow(i))
    /\ WF_vars(\E t \in Tasks : TaskStep(t))
    /\ WF_vars(\E t \in Tasks, u \in Unit : Take(t, u))

FairSpec == Spec /\ Fairness

-----------------------------------------------------------------------------
(* Properties. *)

(* Type invariant; a retry count never exceeds max_retries.                *)
TypeOK ==
    /\ age \in {"young", "eligible", "late", "gone"}
    /\ row \in [Steps -> {"none", "IN_PROGRESS", "PROCESSING"}]
    /\ grib \subseteq Steps
    /\ cog \subseteq Steps \X Products
    /\ waiting \in [Unit -> Nat]
    /\ phase \in {"idle", "reclaim", "list", "emit"}
    /\ known \subseteq Steps /\ budget \in 0 .. Cap /\ todo \subseteq Steps
    /\ (phase = "emit") = (todo # {})
    /\ pc \in [Tasks -> {"free", "fetch", "heads", "publish", "ack"}]
    /\ work \in [Tasks -> Unit \cup {None}]
    /\ held \in [Tasks -> BOOLEAN]
    /\ pending \in [Tasks -> SUBSET Products]
    /\ faults \in 0 .. MaxFaults
    /\ dropped \subseteq Steps
    /\ lost \subseteq Steps \X Products

FannedOut(i) ==
    \A p \in Products : <<i, p>> \in cog \cup lost \/ Alive(i, p)

(* A cached GRIB hides its step from every later discovery, so it must not *)
(* be there without its rendering: each product has its COG, or a unit on  *)
(* the way to it, or was given up; or else the unit that fans out is alive *)
(* -- across retries, crashes and connections that die half way through    *)
(* the publications.  Excepted are steps given up (NotServed, Unusable, a  *)
(* dead letter) when another attempt had cached the GRIB or still ran.     *)
GribMeansFannedOut ==
    \A i \in grib : i \in dropped \/ Alive(i, "grib") \/ FannedOut(i)

(* A cycle that was begun is finished, late or not, and the per-tick cap   *)
(* only delays it, unless newer cycles push it out of the candidates; and  *)
(* then what it had cached still is: every product of the step gets its    *)
(* COG or is given up.  Provided that some ticks find the queues empty (an *)
(* orphaned row hides its step until then), and some something left of the *)
(* cap by the newer cycles.                                                *)
CycleCompletes ==
    []<>(phase = "reclaim") /\ []<>(phase = "list") =>
        (grib # {} ~> \A i \in Steps, p \in Products :
                         \/ i \in dropped \/ <<i, p>> \in cog \cup lost
                         \/ age = "gone" /\ i \notin grib)

-----------------------------------------------------------------------------
(* What the repository says of the program and the program does not do.    *)

(* "progress is released so the next discovery tick re-emits the unit": a  *)
(* step whose download fails transiently is still looked for.  Not once an *)
(* earlier attempt cached its GRIB and was cut short of the publications.  *)
ReleasedIsRediscoverable ==
    [][\A t \in Tasks, i \in Steps :
          NotServed(t) /\ Step(t) = i
             => i \notin grib \/ Alive(i, "grib")' \/ FannedOut(i)]_vars
=============================================================================
