-------------------------- MODULE SourceSelection --------------------------
(***************************************************************************)
(* What the data sources choose to publish: one source, tick after tick,   *)
(* over a feed whose files arrive late, out of order and twice, with       *)
(* listings that fail, units that are dropped and tiles that expire.       *)
(* Publication, tracking and processing are those of TilesPipeline; here   *)
(* a unit is in progress, has its tiles, or neither.                       *)
(***************************************************************************)
EXTENDS Integers, FiniteSets

CONSTANTS
    Files,          \* Files[f]: the files the feed of family f may deliver
    Stations,       \* the radar stations the filter allows
    Start, End,     \* bounds of the clock
    MaxDrops,       \* bound: units that end without tiles
    MaxExpiries,    \* bound: tiles that expire
    Hour, HoursBack,            \* hourly directories of GOES, and the lookback
    TargetImages, MaxAge,       \* target_images, max age
    TargetRuns,                 \* newest runs of WRF
    Accum, Every, Lag,          \* the GLM windows and their safety lag
    CycleLen, Cycles, Steps,    \* forecast cycles, those maintained, their steps
    ProbeFrom, ProbeTo,         \* eligibility window of a GFS cycle
    StepsPerTick                \* max_steps_per_tick

Families == {"abi", "glm", "radar", "inta", "wrf", "gfs", "ecmwf"}

(* Anchors restart at each hour: they form one grid only if steps fit it.  *)
ASSUME GridAssumption ==
    /\ Hour \in Nat \ {0} /\ Every \in Nat \ {0} /\ Hour % Every = 0
    /\ Accum \in Nat

ASSUME ClockAssumption == Start \in Nat /\ End \in Nat

ASSUME CapAssumption ==
    /\ Steps \subseteq Nat /\ IsFiniteSet(Steps)
    /\ Cycles \in Nat /\ CycleLen \in Nat \ {0} /\ StepsPerTick \in Nat

(* A feed is finite; an image of GOES is one file, a GLM file one version  *)
(* of its minute.                                                          *)
ASSUME FeedAssumption ==
    /\ \A f \in Families : IsFiniteSet(Files[f])
    /\ \A x, y \in Files["abi"] : x.t = y.t => x = y
    /\ Files["glm"] \subseteq [t : Nat, v : Nat]

VARIABLES
    family,     \* the source, chosen once
    template,   \* key_template of a radar bucket: "none", "right", or "wrong"
    now,        \* current_time of the ticks
    listing,    \* files of the feed that are there
    latest,     \* newest run an ECMWF mirror serves; -1 before the first
    progress,   \* ids the tracker holds
    tiles,      \* ids with tiles, or a cached GRIB, in the bucket
    seen,       \* ids published at some tick
    emitted,    \* what the last tick published: [id, files]
    drops, expiries

vars == <<family, template, now, listing, latest, progress, tiles, seen, emitted, drops, expiries>>

Times == 0 .. End

Init ==
    /\ family \in Families
    /\ template \in CASE family = "radar" -> {"none", "right", "wrong"}
                       [] family = "inta" -> {"right"}
                       [] OTHER -> {"none"}
    /\ now = Start
    /\ listing = {}
    /\ latest = -1
    /\ progress = {} /\ tiles = {}
    /\ seen = {} /\ emitted = {}
    /\ drops = 0 /\ expiries = 0

-----------------------------------------------------------------------------
(* neither in existing_tilesets nor in in_progress_images *)
Fresh(id) == id \notin tiles \cup progress

(* The n greatest of a set of numbers. *)
Newest(S, n) == {x \in S : Cardinality({y \in S : y > x}) < n}

Image(id, files) == [id |-> id, files |-> files]

(* The hourly directories of the lookback, but for those whose listing     *)
(* failed; the newest target_images of their files, then the dedup.        *)
Listed(lost) ==
    {x \in listing : x.t \div Hour \in
        (((now \div Hour) - HoursBack) .. (now \div Hour)) \ lost}

(* Mutant: the dedup before the cap, as in the radar source. *)
Abi_DedupFirst(lost) ==
    LET fresh == {x \in Listed(lost) : Fresh(<<x.t>>)}
    IN {Image(<<t>>, {x \in listing : x.t = t}) :
            t \in Newest({x.t : x \in fresh}, TargetImages)}

Abi(lost) ==
    {Image(<<t>>, {x \in listing : x.t = t}) :
        t \in {t \in Newest({x.t : x \in Listed(lost)}, TargetImages) : Fresh(<<t>>)}}

(* Every anchor whose window covers a minute: down from the last one of    *)
(* its hour, across the hour's start.                                      *)
AnchorsCovering(t) ==
    LET last == t - (t % Hour) + Every * ((t % Hour) \div Every)
    IN {a \in {last - k * Every : k \in 0 .. Accum} : a <= t /\ t < a + Accum}

Recent == {x \in listing : x.t >= now - MaxAge}

Window(a) == {x \in Recent : a \in AnchorsCovering(x.t)}

Anchors == UNION {AnchorsCovering(x.t) : x \in Recent}

(* One file per minute, the newest. *)
OneFilePerMinute(files) ==
    {x \in files : \A y \in files : y.t = x.t => y.v <= x.v}

(* Mutant: completeness by the number of files. *)
WindowIsWhole_Count(a) == Cardinality(Window(a)) = Accum

WindowIsWhole(a) == Cardinality(OneFilePerMinute(Window(a))) = Accum

ReadyWindows == {a \in Anchors : a + Accum <= now - Lag /\ WindowIsWhole(a)}

Glm ==
    {Image(<<a>>, OneFilePerMinute(Window(a))) :
        a \in {a \in Newest(ReadyWindows, TargetImages) : Fresh(<<a>>)}}

(* The hours a window touches: from its start, truncated, to its end. *)
Prefixes ==
    LET from == (now - MaxAge) \div Hour
    IN {h \in from .. now : h * Hour <= now}

(* Only the partitions of the window are listed; if that fails or finds    *)
(* nothing (a template that does not match the bucket) the whole prefix.   *)
RadarListing(fails) ==
    LET found == {x \in listing : template = "right" /\ x.t \div Hour \in Prefixes}
    IN IF template = "none" \/ fails \/ found = {} THEN listing ELSE found

(* Variable, subvolume and station match, the scan is recent. *)
Scans(fails) ==
    {x \in RadarListing(fails) :
        x.match /\ x.station \in Stations /\ x.t >= now - MaxAge}

(* Mutant: the cap before the dedup, as in the GOES source. *)
Radar_CapFirst(scans) ==
    {Image(<<x.station, x.t>>, {x}) :
        x \in {x \in scans : Fresh(<<x.station, x.t>>) /\
               x.t \in Newest({y.t : y \in {y \in scans : y.station = x.station}},
                              TargetImages)}}

(* The dedup, then the newest target_images of each station. *)
Radar(scans) ==
    LET fresh == {x \in scans : Fresh(<<x.station, x.t>>)}
        Of(s) == {x.t : x \in {y \in fresh : y.station = s}}
    IN {Image(<<x.station, x.t>>, {x}) :
            x \in {x \in fresh : x.t \in Newest(Of(x.station), TargetImages)}}

(* Only headers that can be read and give the range of the product; those  *)
(* in lost could not be read this time.                                    *)
Headed(lost) == {x \in Scans(lost # {}) : x.head = "ok" /\ x.t \notin lost}

(* The cap on runs is taken before the dedup. *)
AllowedRuns(steps) == Newest({x.run : x \in steps}, TargetRuns)

(* skip_f000 drops step 0 of the accumulated products. *)
WrfSteps == {x \in listing : x.run >= now - MaxAge /\ x.step # 0}

Wrf ==
    {Image(<<x.run, x.step>>, {x}) :
        x \in {x \in WrfSteps : x.run \in AllowedRuns(WrfSteps) /\ Fresh(<<x.run, x.step>>)}}

(* The k-th newest cycle. *)
Cycle(k) == now - (now % CycleLen) - (k - 1) * CycleLen

CandidateCycles == {Cycle(k) : k \in 1 .. Cycles} \cap Times

(* One LIST per cycle; one that fails finds nothing cached. *)
CachedSteps(c, lost) ==
    IF c \in lost THEN {} ELSE {s \in Steps : <<c, s>> \in tiles}

MissingSteps(c, lost) ==
    LET age == now - c
        cached == CachedSteps(c, lost)
    IN IF age < ProbeFrom \/ (age > ProbeTo /\ cached = {}) THEN {}
       ELSE {s \in Steps \ cached : <<c, s>> \notin progress}

Missing(lost) == UNION {{c} \X MissingSteps(c, lost) : c \in CandidateCycles}

(* Mutant: every cycle has the cap to itself. *)
Ahead_InCycle(i, j) == i[1] = j[1] /\ i[2] < j[2]

(* Newest cycle first, its steps in order. *)
Ahead(i, j) == i[1] > j[1] \/ (i[1] = j[1] /\ i[2] < j[2])

(* What the cap of the tick has room for. *)
Gfs(lost) ==
    {Image(i, {}) : i \in {i \in Missing(lost) :
        Cardinality({j \in Missing(lost) : Ahead(j, i)}) < StepsPerTick}}

(* Runs the mirrors have, not cached (a HEAD each) nor in progress. *)
Ecmwf == {Image(<<c>>, {}) : c \in {c \in CandidateCycles : c <= latest /\ Fresh(<<c>>)}}

Selected(lost) ==
    CASE family = "abi" -> Abi(lost)
      [] family = "glm" -> Glm
      [] family = "radar" -> Radar(Scans(lost # {}))
      [] family = "inta" -> Radar(Headed(lost))
      [] family = "wrf" -> Wrf
      [] family = "gfs" -> Gfs(lost)
      [] family = "ecmwf" -> Ecmwf

-----------------------------------------------------------------------------
Publish(images) ==
    LET ids == {i.id : i \in images} IN
    /\ emitted' = images
    /\ seen' = seen \cup ids
    /\ progress' = progress \cup ids
    /\ UNCHANGED <<family, template, now, listing, latest, tiles, drops, expiries>>

(* discover_images, and the publication of what it returns. *)
Tick == Publish(Selected({}))

(* A tick that cannot list or read everything: a directory of GOES, the    *)
(* partitions of a radar bucket, headers of INTA, a cycle of GFS.  For     *)
(* ECMWF a run that is not known or a HEAD that fails leaves nothing.      *)
TickLoses ==
    \/ /\ family \in {"abi", "radar", "inta", "gfs"}
       /\ \E t \in Times : Publish(Selected({t}))
    \/ family = "ecmwf" /\ Publish({})

Arrives ==
    \E x \in Files[family] \ listing :
        /\ IF family = "wrf" THEN x.run <= now ELSE x.t <= now
        /\ listing' = listing \cup {x}
        /\ UNCHANGED <<family, template, now, latest, progress, tiles, seen, emitted, drops, expiries>>

RunIsServed ==
    /\ family = "ecmwf"
    /\ \E t \in Times :
        /\ t > latest /\ t <= now /\ t % CycleLen = 0
        /\ latest' = t
    /\ UNCHANGED <<family, template, now, listing, progress, tiles, seen, emitted, drops, expiries>>

(* Tiles, or the GRIB of a forecast in the cache. *)
Completes ==
    \E i \in progress :
        /\ progress' = progress \ {i}
        /\ tiles' = tiles \cup {i}
        /\ UNCHANGED <<family, template, now, listing, latest, seen, emitted, drops, expiries>>

(* Released, reclaimed or dead-lettered before anything went up. *)
Dropped ==
    \E i \in progress :
        /\ drops < MaxDrops
        /\ drops' = drops + 1
        /\ progress' = progress \ {i}
        /\ UNCHANGED <<family, template, now, listing, latest, tiles, seen, emitted, expiries>>

(* The bucket's lifecycle, or an operator. *)
TilesExpire ==
    \E i \in tiles :
        /\ expiries < MaxExpiries
        /\ expiries' = expiries + 1
        /\ tiles' = tiles \ {i}
        /\ UNCHANGED <<family, template, now, listing, latest, progress, seen, emitted, drops>>

Passes ==
    /\ now < End
    /\ now' = now + 1
    /\ UNCHANGED <<family, template, listing, latest, progress, tiles, seen, emitted, drops, expiries>>

Next == Tick \/ TickLoses \/ Arrives \/ RunIsServed \/ Completes \/ Dropped
        \/ TilesExpire \/ Passes

(* The producer ticks for ever. *)
Spec == Init /\ [][Next]_vars /\ WF_vars(Tick)

-----------------------------------------------------------------------------
(* Whatever expired or was dropped, a tick never goes back behind the      *)
(* newest target_images of GOES, counted over the directories that this    *)
(* tick could list, nor behind the newest target_runs of WRF: these caps   *)
(* count what is already processed, so tiles that expire are not made      *)
(* again one by one.                                                       *)
NeverBehindTheCap ==
    [][emitted' # emitted =>
        CASE family = "abi" ->
                \E lost \in {{}} \cup {{t} : t \in Times} : \A e \in emitted' :
                    /\ e.files # {} /\ e.files \subseteq Listed(lost)
                    /\ Cardinality({x \in Listed(lost) : x.t > e.id[1]}) < TargetImages
          [] family = "wrf" -> \A e \in emitted' :
                /\ Cardinality({r \in {x.run : x \in WrfSteps} : r > e.id[1]}) < TargetRuns
                /\ e.id[1] >= now - MaxAge
          [] OTHER -> TRUE]_vars

(* A GLM window goes out with exactly one file for each of its minutes,    *)
(* the newest delivered so far, on the grid, and only after the safety lag: *)
(* a duplicate neither fills a gap nor counts twice, and the limit on age  *)
(* never thins a window.                                                   *)
WindowsGoOutWhole ==
    [][family = "glm" => \A e \in emitted' \ emitted :
        /\ e.id[1] % Every = 0
        /\ e.id[1] + Accum <= now - Lag
        /\ Cardinality(e.files) = Accum
        /\ \A m \in e.id[1] .. e.id[1] + Accum - 1 :
            \E x \in e.files :
                x.t = m /\ \A y \in listing : y.t = m => y.v <= x.v]_vars

(* A tick never asks NOMADS for more than its cap, over all cycles. *)
NomadsRateBounded == family = "gfs" => Cardinality(emitted) <= StepsPerTick

(* What a source has to publish: a matching scan in the age window, a step *)
(* of an eligible cycle, a run that is served.                             *)
Due ==
    CASE family = "radar" -> {<<x.station, x.t>> : x \in Scans(TRUE)}
      [] family = "inta" -> {<<x.station, x.t>> : x \in {x \in Scans(TRUE) : x.head = "ok"}}
      [] family = "gfs" -> UNION {{c} \X MissingSteps(c, {}) : c \in CandidateCycles}
      [] family = "ecmwf" -> {<<c>> : c \in {c \in CandidateCycles : c <= latest}}
      [] OTHER -> {}

(* The cap of a tick delays, it never starves: again and again nothing is  *)
(* due that was not published yet, neither a scan behind a full station    *)
(* nor a step of an older cycle behind a newer one.                        *)
BacklogDrains == []<>(Due \subseteq seen)
=============================================================================
