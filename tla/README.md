# A TLA+ development of tiles-processor

tiles-processor turns satellite, radar and weather-model files into map tiles. A
producer discovers new inputs and publishes work units to RabbitMQ; workers take
them, download the input, render it in a subprocess and upload tiles and COGs to
S3. A small SQLite table, the progress tracker, keeps the producer from
publishing what is already queued. Nothing coordinates these parts but the table,
the broker and the object store, so what can go wrong is mostly in their
interleavings and failures. That is what these modules are about. Paths below are
relative to the repository root.

## 1. Inventory

| component | state | operations | hard behaviour | what makes it correct |
|---|---|---|---|---|
| discovery producer (`src/producer/image_discovery_producer.py`) | none across ticks; in a tick, the snapshots it has read and the batch left | clean stale rows, reclaim orphans, list tilesets, read tracker, discover, mark, publish | check-then-act dedup across awaits; listing failures; timeout or crash between mark and publish | every image is published until it has its tiles; a tracked row is never overwritten |
| progress tracker (`src/clients/progress_tracker.py`) | `processed_images(image_id, band_id, status, updated_at)` | mark_in_progress, mark_processing, mark_completed, cleanup_stale, reclaim_orphan_in_progress | rows that outlive their message, TTL racing a job | no row stays for ever |
| RabbitMQ client (`src/clients/rabbitmq_client.py`) | connection, channel, count of outstanding deliveries, round-robin cursor | poll_one, publish, publish_to_dlq, ack, nack, service_events, reconnect | delivery tags that outlive their channel | a task settles its own delivery or none |
| worker (`src/worker/worker.py`) | running flag, set of in-flight tasks | drain loop, verdict per exception, retry or dead letter, shutdown | crash between publishing a retry and acking; signals; concurrent tasks on one channel | at-least-once; no attempt burnt by a stop |
| work handler (`src/worker/work_handler.py`) and subprocess (`src/worker/subprocess_processor.py`, `src/processors/base_processor.py`) | set of processes, aborting flag, directories on the shared volume | handle, spawn, wait, time out, abort, escalate | signal racing a spawn; two copies of one unit on one volume; boot purge | no orphaned child, a stopping worker exits, residue is swept |
| forecast fan-out (`src/worker/*_grib_downloader.py`, `src/data_sources/*_producer_source.py`) | GRIB and COG objects in S3 | discover a cycle, download, cache, publish per product | the cached GRIB hides a step whose products may not be published | every product of a cycle is rendered |
| S3 client (`src/clients/s3_client.py`) | a client per profile and event loop, semaphores | list, head, download, upload, lifecycle | concurrent first calls, a client bound to a dead loop, hanging PUTs, ambiguous answers | one client per loop; what a caller is told is what is stored; small bodies never wait for large ones |
| discovery of every source (`src/data_sources/`) | none | list a window, group, filter, cap | late, duplicated and missing files, failing listings, several cycles under one cap | nothing is starved by a cap, nothing old is made again, a window is whole |
| input repositories (`src/data_sources/*_repository.py`, `gfs_fetcher.py`, `gfs_grib_validation.py`) | destination files | fetch from NOMADS, mirrors, a folder or a bucket; validate | files moving under the reader, a gather that fails in the middle, error classes that decide about a retry | what is handed on is whole; giving up has a cause |
| processors and imaging services (`src/processors`, `src/services`) | scratch tree | science pipeline, upload | failures between uploads, two copies on one volume, stops | all outputs or an exception |
| queue router and tiers (`src/producer/queue_router.py`, `poll_one`) | cursor | route, poll by tier | fairness of the light queues, messages nobody can read | light queues alternate |
| metrics (`src/worker/job_metrics_context.py`, `src/clients/metrics_repository.py`, `src/metrics_api`) | `job_metrics` rows; the monitor's connection | record, prune, export, import, aggregate; poll depths | pruning and importing under inserts, broken connections | the newest rows stay, no job twice; depths come back, the broker is not hammered |
| config, migrations, health, scripts | settings | read at start | - | - |

Interaction. Producer and workers share the tracker (one SQLite file on one
volume), the broker and the bucket; there are no calls between them. A worker
process has an event loop with up to WORKER_CONCURRENCY tasks, one AMQP channel
for all of them, one thread that escalates SIGTERM to SIGKILL, and one child process
per rendering task. All workers and the producer mount the same TMP_DIR.

## 2. Modules

| module | about | variables that stand for code |
|---|---|---|
| `WorkDelivery` | abstract: what broker and workers together promise about one kind of unit | `due` (images published and not settled), `stored` (with a unit in the broker), `working` (with a task at a unit) |
| `TilesPipeline` | producer, tracker, queue and workers, one imagery source | `status`, `age` (a row), `tiles` (S3 prefix), `unit`, `holder`, `dlq` (broker), `phase`, `seen`, `todo`, `current` (locals of a tick), `mode`, `channel` (a worker), `stage`, `work`, `delivery` (a task) |
| `MCTilesPipeline` | symmetry sets for it | |
| `TilesPipelineProofs` | its safety theorems | |
| `TilesPipelineRefinement` | that it implements `WorkDelivery` | |
| `RabbitChannel` | one worker's connection, between and inside the client's calls | `open`, `chan`, `lastTag`, `unacked` (broker's view), `outstanding` (`_outstanding_deliveries`), `mode` (`_running`, the process), `running`, `tag`, `origin` (tasks) |
| `RabbitChannelProofs` | its safety theorems | |
| `WorkHandler` | attempts at one unit by several workers on one volume: directories, subprocess, shutdown | `mode`, `killer`, `pc`, `token`, `child`, `procs` (`_processes`), `asked`, `verdict`, `dirs`, `files`, `scratch`, `pruned` |
| `WorkHandlerProofs` | its safety theorems | |
| `GribFanout` | one forecast cycle from discovery to the last product | `age` (of the cycle), `row`, `grib`, `cog` (S3), `waiting` (queue), `phase`, `known`, `budget`, `todo` (tick), `pc`, `work`, `held`, `pending` (tasks) |
| `GribFanoutProofs` | its safety theorems | |
| `ProductPrograms` | eleven processors as programs of checkpoints, computations and uploads: what each step needs, makes and drops | none: constant definitions |
| `ProductPipelines`, `MCProductPipelines` | the processing subprocess: these programs, run by copies of a unit | `stored` (bucket), `files` (work trees), `ip`, `asked` (`_shutdown_requested`), `token`, `phase`, `outcome` |
| `ProductPipelinesProofs` | its safety theorems | |
| `SourceSelection`, `MCSourceSelection` | what the seven kinds of source choose to publish, tick after tick | `listing` (the feed), `latest` (a mirror), `now`, `progress`, `tiles`, `emitted`, `template` (`key_template`) |
| `SourceSelectionProofs` | its safety theorems | |
| `SourceDownload` | the download of one attempt, for every backend | `source`, `target` (files), `get` and `tries` (`download_to_file`), `said` (answers of the mirrors, status of NOMADS), `verdict` |
| `S3Client` | one client object: cached clients, semaphores, operations on one loop | `client` (`_clients`), `lock`, `loop`, `pc`, `attempt`, `file`, `queued`, `sending`, `landed`, `stored` |
| `QueueTiers` | router, strict and round-robin tiers, retries | `queue` (in order), `rr` (`_rr`), `held` |
| `MetricsStore` | the `job_metrics` table | `rows`, `cut` (the prune between its statements), `importing`, `backup` |
| `QueueMonitor` | the broker connection of `/api/live` | `broker`, `conn`, `wait` (`_retry_after`), `shown` |
| `MCServices` | the last five side by side | `part` chooses the one that runs |
| `ServicesProofs` | the safety theorems of these five, alone and side by side | |

An action is one stretch of code between two points at which another actor may
run: an await, a statement of SQLite, a call to the broker or to S3, a signal. So
a tick of the producer is some ten actions (`StartTick` .. `EndTick`) and a unit at
least six (`Poll`, `MarkProcessing`, `Download`, `UploadFirst`, `UploadRest`,
`MarkCompleted`, `Ack`). The variables `due`, `dropped`, `lost`, `sent`, `verdict`,
`tried`, `begun`, `refused`, `late`, `bypassed`, `overlap`, `quiet`, `made` and `seen`
(of `SourceSelection`) record history for the properties; no guard of a modelled
handler reads them. `PROJECT.json`
maps every definition to its lines. Definitions with a suffix such as
`PublishRetry_AckFirst` are mutants: the change a bug would make, used to see
that the property next to them would notice.

How they fit together. `TilesPipeline` is the whole, with every part in a few atomic steps;
the other modules open one of these steps each. `RabbitChannel` opens the broker calls,
`QueueTiers` the queue, `WorkHandler` the attempt, `SourceDownload` its `Download`,
`ProductPipelines` its `UploadFirst` and `UploadRest`, `SourceSelection` the discovery of
a tick. `GribFanout` is the counterpart of `TilesPipeline` for forecasts. Upwards,
`TilesPipeline` implements `WorkDelivery`: `Stored` are the images with a message in the broker,
waiting or unacknowledged, `Working` those with a task at one of their units. The abstract
specification says that an image stays stored until it is settled, and that only
somebody who works on it settles it, publishes it again or withdraws its last message.

What is common to the modules, and abstracted:

- *Images.* In `TilesPipeline`, one source with a fixed window: `Images` are the candidates
  it finds. Bands and sources only partition the keys of the table. A retry count and an
  identity are what is left of a work unit; a body that does not decode is a
  separate action of `RabbitChannel`, and a message of its own (`Junk`) in `QueueTiers`.
- *Queues* are sets or bags of messages, not sequences, but in `QueueTiers`. Redelivery and
  retries reorder them anyway. That a queue is first in, first out comes back as strong
  fairness of `Poll` in the liveness run.
- *Time.* An age runs from 0 to TTL + 1, where the row counts as expired. Tiles and GRIBs
  do not expire within a behaviour of the pipeline: their retention is days, a unit's life
  minutes. In `SourceSelection`, whose behaviours are long, they do. In `GribFanout` the age of a cycle is its place
  in the discovery: not published yet, a candidate, past the probe window, pushed out by newer cycles.
- *Contents.* A file is whole; something else, or something that begins like a GRIB file and is none; or broken off,
  inside a GRIB message, between two, or before the bytes that show what it is. An object is missing, partial,
  whole or blank. What is computed is left out, which files it needs is not.
- *Faults* (crashes, dead connections, failing listings, lost messages, exceptions) are
  actions that may happen at any point; `MaxFaults` and its like bound their number per
  behaviour, as they also do for liveness. A signal to a worker is one of them in `TilesPipeline`; in `WorkHandler`,
  `RabbitChannel` and `ProductPipelines` signals come at will.
- *Overlap.* `TilesPipeline` lets a connection die between two calls of the client;
  `RabbitChannel` also inside one: an ack is atomic in the former, and one that raises, in a worker that runs or
  that stops, is the subject of the latter. `TilesPipeline` has one atomic attempt per
  stage; `WorkHandler` opens it up to the child process.
- `TilesPipeline` lets a signal in only outside the loop that fills the slots.
- Inline processors (the GRIB downloaders) have no subprocess; they are in `GribFanout`.
- The five modules that `MCServices` extends share no variable and no constant. Each has its own
  initial condition, next-state relation and specification (`S3Init`, `S3Next`, `S3Spec` and so on): the
  proofs start from these, the run is about their sum.
- The programs of `ProductPrograms` are fixed; what has to be true of the order of their steps is stated
  there as assumptions without constants, which TLC decides completely.

## 3. Runs

| run | instance | shows |
|---|---|---|
| `core_safety` | 1 image, 2 workers of 1 task, 4 messages, 1 retry, TTL 1, 2 faults | `NoUnitLost`, `DeliveryHeldOnce`, `NeverReplacesRow`, `ImplementsDelivery` |
| `core_live` | 1 image, 1 worker, 3 messages, 2 faults, TTL 0 | `ProcessingEnds`, `OrphansReclaimed`, `Rediscovered`, `DueResolved` |
| `channel` | 2 tasks, 3 tags, 3 channels | `CounterCoversRunning`, `RunningTagsValid`, `ConnectionRecovers` |
| `handler` | 2 workers of 1 task, 2 attempts at one unit | `NoChildEscapes`, `ShutdownBurnsNoRetry`, `RawFileOnlyLostToBoot`, `ShutdownEnds`, `ResidueSwept` |
| `fanout` | 2 steps, 2 products, 2 tasks, cap 1, 1 retry, 1 fault | `GribMeansFannedOut`, `CycleCompletes` |
| `products` | every processor; 2 copies, 3 attempts, 1 fault | `CompletedMeansStored`, `SkipPublishesNothing`, `WitnessIsLast`, `ShutdownIsPrompt`, `StepsFindTheirFiles` |
| `selection` | every source; a clock from 2 to 5, up to 7 files, 1 unit dropped, 1 tileset expired | `NeverBehindTheCap`, `WindowsGoOutWhole`, `NomadsRateBounded`, `BacklogDrains` |
| `services` | five components, see `services.cfg` | eleven properties, below |

Why these bounds are enough to be interesting. One image suffices because rows, units
and tiles of different images share nothing but the emptiness of the queue; the
proofs do not depend on the number. Two workers are needed for a redelivered copy to
run next to the first attempt. Two faults give the pairs that matter: a crash that
leaves a redelivery, and a failure of that redelivery. Three channels let a tag survive one
reconnection and see another. In `fanout` two steps under a cap of one make the order of
dedup and cap matter, and two tasks let the two copies of a step overlap; one
fault is the most for which the liveness check stays within minutes. The newer cycles appear there by what they do to
  this one: each tick they leave some of the cap or nothing, and in the end they push it out of the
  `cycles_to_maintain` newest, finished or not (`gfs_producer_source.py:198-209`).

Some properties say less than their name, on purpose, because the code does less:

- `CounterCoversRunning` and `RunningTagsValid` except a worker that stops with its channel broken. There an ack of a
  successful unit that raises (`worker.py:244`) is followed by a nack (`worker.py:322-326`), and each lowers the counter
  (`rabbitmq_client.py:437`, `441-443`). The counter may then reach zero under a running task, and an inline downloader
  reconnect under its own delivery. What still holds is that no task settles another's delivery: a
  worker that stops polls no more, so that nothing on the new channel has an old task's tag.
- `Rediscovered` asks for a copy of the unit, or its tiles, and not for a row in the tracker only.
- `CycleCompletes` has its premises in the formula: again and again a tick finds the queues empty, and one finds something
  left of the cap. A cycle that is pushed out before it is finished keeps no more than the promise
  about what it has cached.
- `NeverBehindTheCap`: the cap of GOES counts over the directories that the tick could list, one and the same choice for
  everything that tick publishes.
- `ResidueSwept` is about the directories of the attempts, not the scratch trees of their programs.
- `GivesUpForCause` lists what a unit may be given up for; two of the causes are passing ones (below).
- `AcceptedIsWhole` asks of a folder without validation only that every file is there.

In `products` a copy may be killed and start again next to the other one (three attempts), and one
fault is enough to see what each upload, kill or purge leaves, at every step of every
program. In `selection` the feeds (`MCSourceSelection`) hold what the filters are for: a minute
delivered twice, a scan of another variable, of another range and of a station that is filtered out,
runs with a step 0; caps of one make the order of cap and dedup matter; the clock crosses an hour,
and a cycle of forecasts enters and leaves its window. In `services`:

- `S3Client`: a download, a directory of two files, a small and a large heavy file, slots of one, two
  loops: `OneClientPerLoop`, `RequestsOnOwnClient`, `ResultsAreTrue`, `HeaviesNeverStarve`. Two
  operations per profile race for its client.
- `QueueTiers`: a normal and a light worker, queues of two, with junk: `LightQueuesAlternate`. A light queue with a
  waiting message is passed over at most once by a worker it could go to. The normal queue
  is strict: nothing bounds how long light units wait for a normal worker, which is what light
  workers are for.
- `MetricsStore`: four jobs, a table of two, two imports: `PruneKeepsNewest`, `ImportsAddNoDuplicate`. Imports that
  overlap do duplicate rows; the property excepts them.
- `QueueMonitor`: a back-off of two ticks: `NeverHammers`, `DepthsComeBack`.
- `SourceDownload`: a window of three files, two mirrors, two slots, two tries: `AcceptedIsWhole`, `GivesUpForCause`.

The deadlock check is off where a behaviour ends: `channel` and `doc_staleack` (bounded tags and
channels), `products` (the unit is done), `services` (a download has ended).

The type invariants of `WorkHandler`, `GribFanout`, `S3Client`, `QueueTiers`, `MetricsStore` and
`QueueMonitor` hold on the same instances but are not among the invariants of a run, which go to what is about a hazard.
They are proved (section 5).

### Where documentation and code differ

Four more runs state what a comment, docstring or the README says and find it violated.

| run | claim | what happens |
|---|---|---|
| `doc_deadletter` | the cleanup "lets crashed / dead-lettered images become rediscoverable" (`image_discovery_producer.py:83`) | one uploaded tile makes the tileset exist |
| `doc_staleack` | the client declines to reconnect so that no stale tag is acked (`rabbitmq_client.py:218`) | an ack that raises has already lowered the counter; the failure path reconnects and acks the old tag |
| `doc_purge` | `FileNotFoundError` means "pruned upstream" (`work_handler.py:125`) | another worker's boot purge removed the destination; the unit ends without a retry |
| `doc_release` | a released unit is re-emitted (`exceptions.py:35`) | not if an earlier attempt had cached the GRIB and was cut short of the fan-out |

After `doc_deadletter`, `doc_purge` and `doc_release` an image or a step is not rendered.

Met while modelling and without a run of their own, as the properties state what the code does. Not harmless:

- HTTP 429 and 408 of NOMADS are taken for an invalid request parameter, and the step is acked for good
  (`gfs_fetcher.py:129-132`), although `TransientDownloadError` exists for a "throttled endpoint"
  (`exceptions.py:32-38`), `InvalidGribResponseError` is for what "will not change" (`exceptions.py:14-20`), and the
  counterpart for ECMWF retries both (`ecmwf_repository.py:39`). `GivesUpForCause` names the two as causes.
- A GRIB cut between two messages, or within its magic bytes, is taken for a complete body and given up
  (`gfs_grib_validation.py:48-65`), although a second request may get all of it; the docstring of `fetch`
  (`gfs_fetcher.py:44-51`) has a truncated body requeued. Conversely a wrong body that begins like a GRIB file is taken for
  a truncated one and fetched again on every discovery. `GivesUpForCause` and `Scanned` have all three.
- The double settlement in a stopping worker (above) undermines the gate on reconnecting that
  `rabbitmq_client.py:79-82` and `218-226` describe.

Harmless:

- An IN_PROGRESS row with an empty queue may have a worker on it, against `progress_tracker.py:91-95`: its age is
  counted from the publication, so that a unit received after a long wait looks like an orphan.
- `README.md:47` says that processed tilesets are never queued again; tilesets are listed before the
  tracker is read, and a unit completing in between is in neither.
- `goes19_glm_repository.py:127-128` says that `gather` cancels the other downloads when one fails. It does
  not; they go on, and leave nothing because their directory is gone (`AcceptedIsWhole`).
- A worker that boots takes the tree from under a running attempt. The tile filler makes it
  again, so that a forecast may be stored as blank tiles; an image without tiles uploads zero files and
  completes. `CompletedMeansStored` excepts these attempts, and only these.

## 4. Fairness

Liveness is checked only under scheduling that the deployment provides.

- *Producer*: APScheduler fires the job again and again, and every await in a tick is
  bounded by the discovery timeout: weak fairness of its steps, of `Tick` in `SourceSelection`.
- *Tasks*: downloads, uploads and the subprocess (30 minutes) are bounded: weak
  fairness. No fairness for faults.
- *Workers*: a drained worker exits and the container is restarted: weak fairness.
- *Queue*: first in, first out: strong fairness of polling a given message.
- `OrphansReclaimed` has its premise in the formula: the queues stay drained. So has `Rediscovered`: again and again a
  tick gets to the reclaim of orphans, which it does only with empty queues.
- `RabbitChannel`: units are settled, the drain loop meets a dead channel, a stopping worker whose tasks have ended
  exits, the container is restarted: all weak.
- `WorkHandler` assumes less: a starting child gets to its signal handler, a child that was asked to
  stop gets to a checkpoint. Nothing makes a working child finish, or the 30 minutes pass,
  so that `ShutdownEnds` rests on the signals alone.
- `GribFanout`: someone ticks, someone takes a unit, some task moves (weak), and a
  reclaimable row is reclaimed by one of the ticks that may (strong, as it can happen only at the start of a tick).
  Nothing makes the queues empty or leaves some of the cap: these are premises of `CycleCompletes`, as the queues
  also hold the units of other cycles and sources.
- `S3Client`: tasks run and the timeouts of the client end a request; but for a PUT of the large
  lane nothing is assumed, which is the point of `HeaviesNeverStarve`.
- `QueueMonitor`: the dashboard polls and the clock ticks.
- `ProductPipelines`, `QueueTiers`, `MetricsStore`, `SourceDownload`: safety only, no fairness.

## 5. Proofs

The theorems hold for every value of the constants, under the named assumptions of the
modules (`ASSUME`, evaluated by TLC in every run): naturals where numbers are meant, distinct
sentinels, a finite set of tasks per worker.

`TilesPipelineProofs`:

- `TypeCorrect`: `TypeOK`. Inductive with `TaskInv` and `PublishInv`, which say which
  variables hold a unit or an image at the moment an action reads them. The step proof is
  split over producer, tasks, workers and clock.
- `OneHolder`: `DeliveryHeldOnce`, inductive once the types are there: the property names
  the message, its unit and its holder together, so that a requeue by a dead channel and a
  later poll by somebody else can be told from the old task's claim.
- `AtLeastOnce`: `NoUnitLost`. Not inductive: the copy that exists may be the one a task is about
  to ack. `DueUnspent` says that some copy is not being settled; each action that removes a
  copy either ends what is due (a verdict, a completion, a dead letter) or has stored another.
  It rests on `DeliveryHeldOnce`, without which one ack could remove another task's copy.
- `CheckThenAct`: `NeverReplacesRow`. `BatchUntracked` carries the absence of a row from the
  read of the tracker to the insertion: only the producer inserts rows, and it is busy with this batch.

`TilesPipelineRefinement`: `Refinement`, `Spec => ImplementsDelivery`. Each action is shown to be one of the
abstract actions or to leave `due`, `Stored` and `Working` unchanged. It needs `DueInv`, the invariant of
`NoUnitLost` (an ack that takes the last message of an image finds the image settled), and `IdleInv` (a free task has
nothing at hand).

`RabbitChannelProofs`: `CounterSound` and `TagsSound`, for any finite number of tasks, deliveries and channels.
While the worker runs the two properties need each other: a reconnection needs a counter at zero, which means
that no task runs; a tag stays valid because of that, and a valid tag is what makes an ack
lower the unacknowledged tags and the counter together. Once the worker stops the channel may be replaced under its
tasks, after a double settlement; `OldTagsNameNothing` carries the proof from there, as the new channel issues no tag,
with `TagsApart` (no two tasks have the same tag) and `OriginsPast` (channels are numbered upwards).
`DeadRunsNothing` completes the induction, as a new process starts with a counter at zero. The one reconnection that
does happen under a task of a running worker (`AckRaises`, the subject of `doc_staleack`) is shown to take the last
running task with it.

`WorkHandlerProofs`: `TypeCorrect`, `ChildrenStopped` (`NoChildEscapes`), `RetriesKept` (`ShutdownBurnsNoRetry`) and
`RawFilesKept` (`RawFileOnlyLostToBoot`), for any workers, slots and attempts. `AttemptInv` says that only a spawned
subprocess can be alive and that a task under way has no verdict yet; `AskedInv` that nothing is asked to stop
by a worker that is not stopping; `OwnTree` that no two attempts under way have the same tree, which is
why a concurrent copy never cleans up the other's raw file.

`GribFanoutProofs`: `TypeCorrect` and `CachedIsFannedOut` (`GribMeansFannedOut`), for any steps, products, tasks, caps, retries
and faults. The property is about cached GRIBs and not inductive: a task may cache one after its delivery was
given to a twin, and after that twin has given the unit up. `CoverInv` therefore says the same of every step that is
*claimed*, cached or worked on by anybody with or without the delivery, and `FanInv` how far each
task has come: the products it no longer has to publish are rendered, on their way or recorded as given up. The
lemmas are about copies of a unit: one goes only when a task that holds it settles it (`CopyStep`), and a retry
takes the place of its copy (`RetryAlive`).

`ProductPipelinesProofs`: `CompletionMeansStored`, `SkipsAreClean`, `WitnessComesLast`, `StopsInTime` and `FilesAreFound`, for any number of
copies, attempts and faults. The programs are not unfolded. The proofs rest on five facts of `ProductPrograms`, which
TLC decides once and for all: steps have the right shape; each finds its files among those made
before and not dropped; nothing is read once something went up; two uploads have a checkpoint between them (but for
WRF); the primary COG of a GFS product goes up last and its directory is not made again behind it. `TreeKept` carries the second
one through a run (a tree that no boot has purged holds what was made so far), `StoredKept` the bucket,
`SkippedNothing` the third, `LateOnce` the fourth. `WitnessKept` is the hard one: after a purge an attempt may have made its
directory again, and still must not get to the COG; either it never lost anything, or the COG is gone with
the tree and nothing that is left of the program can make it.

`SourceSelectionProofs`: `CapIsKept` (`NomadsRateBounded`), `NothingOldComesOut` (`NeverBehindTheCap`), `WindowsAreWhole`
(`WindowsGoOutWhole`), for any feed, clock, window and cap. For GOES the witness of `NothingOldComesOut` is the set of
directories that this tick could not list. Hardly anything is carried from state to state; the work is in
the selection itself. The steps within the cap are numbered by how many are ahead of each, which is
one-to-one because `Ahead` is a strict order. For GOES, files and start times are in bijection
(`FeedAssumption`), so that a cap on one is a cap on the other. For GLM, `EveryMinute`: a set of as
many files as a window has minutes, all of different minutes of it, has each of them.
That anchors form one grid across hours needs `GridAssumption`: the step divides the hour.

`ServicesProofs`, five independent parts, and `ComponentsAreApart`: in the specification that the run checks each component
takes its own steps or none, so that its theorems hold there too (`ServicesAreSafe`, `ServicesTypes`).

- `S3Client`: `ClientsAreShared` (`OneClientPerLoop`), `RequestsAreHome` (`RequestsOnOwnClient`) and `CallersAreToldTheTruth`
  (`ResultsAreTrue`), from `S3Assumption` (slots are positive, the kinds of operations disjoint). `MakerAlone` says that only the holder of a profile's lock
  makes a client, and only where none was made on this loop; `CacheIsTrue` that a cached client of this loop is open and
  that without one none was made. The second look under the lock is where the one follows from the
  other. `FileInv` and `StoredInv` follow a file or a heavy object through its attempts, `RestInv` counts these: a
  download that has used them up has raised. Most actions are `Quiet`:
  they move one operation and touch no client.
- `QueueTiers`: `LightQueuesTakeTurns` (`LightQueuesAlternate`), for any consumers and any sets of messages. `TiersInv`: a queue that was
  passed over was passed over once, and is the one the worker tries next.
- `MetricsStore`: `PruneTakesOldest` (`PruneKeepsNewest`), `ImportsAreOnce` (`ImportsAddNoDuplicate`). `PruneInv`: the row at which a prune decided to cut
  is still there when it cuts, with at least as many rows behind it; `ImportInv`: no job is in the table twice, and what an
  import has found missing stays missing, unless another import overlapped it.
- `QueueMonitor`: `MonitorIsPatient` (`NeverHammers`): what is left of the wait and what has passed of it add up to the back-off.
- `SourceDownload`: `DownloadsAreWhole` (`AcceptedIsWhole`), `VerdictsHaveCause` (`GivesUpForCause`), for any number of files, mirrors, slots and tries.
  `Complete` says that every file of a target is there before it is checked, `VerdictInv` that a window that failed leaves
  nothing behind, `RequestInv` which files the requests of a gather have written, those included that a failure left running. The
  causes of `VerdictsHaveCause` are those of the code, by status and by what the scan of the file finds; no 5xx, no
  failing transfer and no other broken body is among them.

The inductive invariants were checked by TLC on the instances of the runs before they were proved.

So every invariant and every safety property over steps of the passing runs is proved for all values of the
constants. What stays model-checked only:

- liveness: `ProcessingEnds`, `OrphansReclaimed`, `Rediscovered`, `DueResolved`, `ConnectionRecovers`, `ShutdownEnds`, `ResidueSwept`,
  `CycleCompletes`, `BacklogDrains`, `HeaviesNeverStarve`, `DepthsComeBack`. It needs fairness, hence the enabledness of actions,
  which the prover does not handle;
- the five facts about the fixed programs of `ProductPrograms`, which TLC evaluates (there is nothing to instantiate).

## 6. Not modelled, and the plan

The plan of the models is done: `TilesPipeline` first, as everything else opens a part of it; the connection,
the handler and the fan-out; `WorkDelivery` above it; then tiers, S3 client, metrics, monitor, selection,
download and processors.

The proofs of the safety properties are done too. What is left of them:

1. The safety half of liveness: measures that each step of a retry, a back-off or a drain lowers.
2. An abstract specification of the product fan-out that `GribFanout` refines, as `TilesPipeline` refines `WorkDelivery`.

Left out for good:

- array computations, palettes, tables, file names and string formats;
- of the metrics, what a row says, the aggregates and the HTTP API around them, which only read; which attempts leave a
  row (a nacked one leaves none, each retry another) is not stated anywhere as a promise;
- the lister's remembered `key_template` under concurrent ticks: sources are discovered one after another;
- FIELD3D files, which a WRF product may read from the folder beside the source;
- the lifecycle configuration of the bucket, the topology of the broker, `consume`;
- `generate_tiles.py`, `compute_brightness_temperatures.py`, `setup_goes_georreferencing.py` and `concurrent_runner.py`, which only
  tests call;
- Alembic migrations, which run under a file lock before anything else; configuration, health endpoints and scripts.
