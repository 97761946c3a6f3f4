-------------------------- MODULE ProductPipelines --------------------------
(***************************************************************************)
(* The processors: what a processing subprocess does to turn one           *)
(* downloaded file into the objects of a product.  Each is a program of    *)
(* checkpoints, computations and uploads, run by copies of the same unit   *)
(* (a redelivery racing an attempt under way) on one volume, into one      *)
(* bucket, with SIGTERM, SIGKILL, errors and refused uploads.              *)
(***************************************************************************)
EXTENDS ProductPrograms

CONSTANTS
    Copies,        \* concurrent attempts at the unit
    MaxAttempts,   \* bound: attempts in a behaviour
    MaxFaults      \* bound: refused uploads and kills in a behaviour

ASSUME BoundsAssumption == MaxAttempts \in Nat /\ MaxFaults \in Nat

-----------------------------------------------------------------------------
VARIABLES
    family,     \* the processor, chosen once
    stored,     \* an output in the bucket: "nothing", "part", "whole", or
                \* "blank", tiles with nothing on them
    tried,      \* outputs some attempt has begun to upload
    files,      \* the files of a work tree, by its leaf
    attempts,   \* attempts so far
    faults,     \* refused uploads, kills and purges so far
    phase,      \* a copy: "off", "running", "closing" (the finally clauses)
    outcome,    \* how its last attempt ended: the exit code, or a kill
    token,      \* the handler's token of its attempt
    ip,         \* the step it is at
    asked,      \* _shutdown_requested
    begun,      \* outputs its attempt has begun to upload
    refused,    \* those of them that did not go up whole
    filled,     \* tile pyramids it filled where there were no tiles
    purged,     \* whether its tree was taken from it
    late        \* uploads it began after it was asked to stop

bucket == <<stored, tried>>
volume == <<files, purged>>
sent == <<begun, refused, late>>
run == <<phase, outcome, ip>>
vars == <<family, bucket, volume, attempts, faults, run, token, asked, sent, filled>>

Init ==
    /\ family \in Families
    /\ stored = [o \in Outputs(family) |-> "nothing"]
    /\ tried = {}
    /\ files = [t \in 1 .. MaxAttempts |-> {}]
    /\ attempts = 0 /\ faults = 0
    /\ phase = [c \in Copies |-> "off"]
    /\ outcome = [c \in Copies |-> "none"]
    /\ token = [c \in Copies |-> 1]
    /\ ip = [c \in Copies |-> 1]
    /\ asked = [c \in Copies |-> FALSE]
    /\ begun = [c \in Copies |-> {}]
    /\ refused = [c \in Copies |-> {}]
    /\ filled = [c \in Copies |-> {}]
    /\ purged = [c \in Copies |-> FALSE]
    /\ late = [c \in Copies |-> 0]

-----------------------------------------------------------------------------
(* Mutant: the leaf is the image id alone. *)
Leaf_OfImage(t) == 1

(* {image_id}-{token} *)
Leaf(t) == t

Tree(c) == files[Leaf(token[c])]

Current(c) == Program[family][ip[c]]

AtStep(c, ops) ==
    phase[c] = "running" /\ ip[c] <= Len(Program[family]) /\ Current(c).op \in ops

Found(c) == Current(c).needs \subseteq Tree(c)

(* A first attempt, a retry, or the redelivery of a requeued unit: the     *)
(* handler has downloaded the input, the processor makes its directories.  *)
Begin(c) ==
    /\ phase[c] = "off" /\ outcome[c] \in {"none", "error", "shutdown", "killed"}
    /\ attempts < MaxAttempts
    /\ attempts' = attempts + 1
    /\ token' = [token EXCEPT ![c] = attempts + 1]
    /\ files' = [files EXCEPT ![Leaf(attempts + 1)] = @ \cup {"dir", "raw"}]
    /\ phase' = [phase EXCEPT ![c] = "running"]
    /\ outcome' = [outcome EXCEPT ![c] = "none"]
    /\ ip' = [ip EXCEPT ![c] = 1]
    /\ asked' = [asked EXCEPT ![c] = FALSE]
    /\ begun' = [begun EXCEPT ![c] = {}]
    /\ refused' = [refused EXCEPT ![c] = {}]
    /\ filled' = [filled EXCEPT ![c] = {}]
    /\ purged' = [purged EXCEPT ![c] = FALSE]
    /\ late' = [late EXCEPT ![c] = 0]
    /\ UNCHANGED <<family, bucket, faults>>

(* SIGTERM of the worker's abort; it sets a flag. *)
Asked(c) ==
    /\ phase[c] = "running" /\ ~asked[c]
    /\ asked' = [asked EXCEPT ![c] = TRUE]
    /\ UNCHANGED <<family, bucket, volume, attempts, faults, run, token, sent, filled>>

Advance(c) ==
    /\ ip' = [ip EXCEPT ![c] = @ + 1]
    /\ UNCHANGED <<phase, outcome>>

Clear(leaf) == files' = [files EXCEPT ![leaf] = {}]

(* process returns or raises: the processor's own finally. *)
Ends(c, o) ==
    /\ phase' = [phase EXCEPT ![c] = "closing"]
    /\ outcome' = [outcome EXCEPT ![c] = o]
    /\ IF family \in RemovesTree THEN Clear(Leaf(token[c])) ELSE UNCHANGED files
    /\ UNCHANGED ip

(* Mutant: a checkpoint leaves process instead of raising out of it. *)
Checkpoint_Returns(c) ==
    /\ AtStep(c, {"check"})
    /\ IF asked[c] THEN Ends(c, "completed") ELSE Advance(c) /\ UNCHANGED files
    /\ UNCHANGED <<family, bucket, purged, attempts, faults, token, asked, sent, filled>>

(* Mutant: the flag is not looked at. *)
Checkpoint_Passes(c) ==
    /\ AtStep(c, {"check"})
    /\ Advance(c)
    /\ UNCHANGED <<family, bucket, volume, attempts, faults, token, asked, sent, filled>>

(* ShutdownRequested is raised at a checkpoint only. *)
Checkpoint(c) ==
    /\ AtStep(c, {"check"})
    /\ IF asked[c] THEN Ends(c, "shutdown") ELSE Advance(c) /\ UNCHANGED files
    /\ UNCHANGED <<family, bucket, purged, attempts, faults, token, asked, sent, filled>>

Computes(c) ==
    /\ AtStep(c, {"compute", "read"}) /\ Found(c)
    /\ Advance(c)
    /\ files' = [files EXCEPT ![Leaf(token[c])] = (@ \ Current(c).drops) \cup Current(c).makes]
    /\ UNCHANGED <<family, bucket, purged, attempts, faults, token, asked, sent, filled>>

(* It raises, as it does when an input or its directory is missing. *)
Raises(c) ==
    /\ AtStep(c, {"compute", "read", "fill"})
    /\ Ends(c, "error")
    /\ UNCHANGED <<family, bucket, purged, attempts, faults, token, asked, sent, filled>>

(* Mutant: whatever a step raises is taken for a bad input. *)
Unprocessable_AnyError(c) ==
    /\ AtStep(c, {"compute", "read", "fill"})
    /\ Ends(c, "skip")
    /\ UNCHANGED <<family, bucket, purged, attempts, faults, token, asked, sent, filled>>

(* UnprocessableInputError *)
Unprocessable(c) ==
    /\ AtStep(c, {"read"})
    /\ Ends(c, "skip")
    /\ UNCHANGED <<family, bucket, purged, attempts, faults, token, asked, sent, filled>>

(* fill_missing_tiles makes the directories it does not find, and puts an  *)
(* empty tile where there is none.                                         *)
Fills(c) ==
    /\ AtStep(c, {"fill"})
    /\ Advance(c)
    /\ files' = [files EXCEPT ![Leaf(token[c])] = @ \cup Current(c).makes]
    /\ filled' = IF Current(c).out \in Tree(c) THEN filled
                 ELSE [filled EXCEPT ![c] = @ \cup {Current(c).out}]
    /\ UNCHANGED <<family, bucket, purged, attempts, faults, token, asked, sent>>

(* ensure_bucket_exists reports a failure nobody looks at. *)
EnsureBucket(c) ==
    /\ AtStep(c, {"bucket"})
    /\ Advance(c)
    /\ UNCHANGED <<family, bucket, volume, attempts, faults, token, asked, sent, filled>>

Content(c) == IF Current(c).out \in filled[c] THEN "blank" ELSE "whole"

(* What a refused directory leaves of an output: some of it over the old.  *)
Mixed(old, new) == IF new = "blank" THEN new ELSE IF old = "nothing" THEN "part" ELSE old

Starts(c) ==
    LET o == Current(c).out IN
    /\ tried' = tried \cup {o}
    /\ begun' = [begun EXCEPT ![c] = @ \cup {o}]
    /\ late' = IF asked[c] THEN [late EXCEPT ![c] = @ + 1] ELSE late

Uploads(c) ==
    /\ AtStep(c, Uploading) /\ Found(c)
    /\ Starts(c) /\ Advance(c)
    /\ stored' = [stored EXCEPT ![Current(c).out] = Content(c)]
    /\ UNCHANGED <<family, volume, attempts, faults, token, asked, refused, filled>>

(* A directory that is not there is zero uploads, an object that is not    *)
(* there is logged: process goes on.                                       *)
NothingToUpload(c) ==
    /\ AtStep(c, Uploading) /\ ~Found(c)
    /\ Advance(c)
    /\ UNCHANGED <<family, bucket, volume, attempts, faults, token, asked, sent, filled>>

(* The files of a directory that fail are counted and logged, an object    *)
(* that fails is logged: process goes on.                                  *)
UploadRefused(c) ==
    /\ AtStep(c, Uploading) /\ Found(c) /\ faults < MaxFaults
    /\ faults' = faults + 1
    /\ Starts(c) /\ Advance(c)
    /\ LET o == Current(c).out IN
         /\ refused' = [refused EXCEPT ![c] = @ \cup {o}]
         /\ \/ UNCHANGED stored
            \/ /\ Current(c).op = "directory"
               /\ stored' = [stored EXCEPT ![o] = Mixed(@, Content(c))]
    /\ UNCHANGED <<family, volume, attempts, token, asked, filled>>

(* The client cannot be made: upload_directory raises, upload_file does not. *)
NoClient(c) ==
    /\ AtStep(c, {"directory"}) /\ Found(c) /\ faults < MaxFaults
    /\ faults' = faults + 1
    /\ Ends(c, "error")
    /\ UNCHANGED <<family, bucket, purged, attempts, token, asked, sent, filled>>

Returns(c) ==
    /\ phase[c] = "running" /\ ip[c] > Len(Program[family])
    /\ Ends(c, "completed")
    /\ UNCHANGED <<family, bucket, purged, attempts, faults, token, asked, sent, filled>>

HandlerCleans(c) ==
    IF family \in OwnTree THEN UNCHANGED files ELSE Clear(Leaf(token[c]))

(* The process is gone, and with it its place and its flag; what it was    *)
(* refused, and whether it was purged, still qualifies a success.          *)
Gone(c) ==
    /\ phase' = [phase EXCEPT ![c] = "off"]
    /\ token' = [token EXCEPT ![c] = 1]
    /\ ip' = [ip EXCEPT ![c] = 1]
    /\ asked' = [asked EXCEPT ![c] = FALSE]
    /\ filled' = [filled EXCEPT ![c] = {}]
    /\ begun' = [begun EXCEPT ![c] = {}]
    /\ late' = [late EXCEPT ![c] = 0]
    /\ IF outcome'[c] = "completed" THEN UNCHANGED <<refused, purged>>
       ELSE /\ refused' = [refused EXCEPT ![c] = {}]
            /\ purged' = [purged EXCEPT ![c] = FALSE]
    /\ HandlerCleans(c)

(* aclose, exit, and the handler's finally, which removes its own tree. *)
Exits(c) ==
    /\ phase[c] = "closing"
    /\ UNCHANGED outcome
    /\ Gone(c)
    /\ UNCHANGED <<family, bucket, attempts, faults>>

(* SIGKILL, an OOM: at an upload some of a directory may have gone up.  The *)
(* handler, alive, removes its own tree.                                   *)
Killed(c) ==
    /\ phase[c] = "running" /\ faults < MaxFaults
    /\ faults' = faults + 1
    /\ outcome' = [outcome EXCEPT ![c] = "killed"]
    /\ Gone(c)
    /\ \/ UNCHANGED bucket
       \/ /\ AtStep(c, {"directory"}) /\ Found(c)
          /\ tried' = tried \cup {Current(c).out}
          /\ stored' = [stored EXCEPT ![Current(c).out] = Mixed(@, Content(c))]
    /\ UNCHANGED <<family, attempts>>

(* Another worker boots, and removes every directory of TMP_DIR. *)
Purge ==
    /\ faults < MaxFaults
    /\ faults' = faults + 1
    /\ files' = [t \in DOMAIN files |-> {}]
    /\ purged' = [c \in Copies |-> purged[c] \/ phase[c] = "running"]
    /\ UNCHANGED <<family, bucket, attempts, run, token, asked, sent, filled>>

Next ==
    \/ \E c \in Copies :
        \/ Begin(c) \/ Asked(c) \/ Checkpoint(c) \/ Computes(c) \/ Raises(c)
        \/ Unprocessable(c) \/ Fills(c) \/ EnsureBucket(c) \/ Uploads(c)
        \/ NothingToUpload(c) \/ UploadRefused(c) \/ NoClient(c)
        \/ Returns(c) \/ Exits(c) \/ Killed(c)
    \/ Purge

Spec == Init /\ [][Next]_vars

-----------------------------------------------------------------------------
(* A unit that completes (and is acked, and its row marked) has every      *)
(* output whole in the bucket, but for those whose own upload this attempt *)
(* saw refused and let pass: no early exit counts as success, whatever an  *)
(* earlier attempt or another copy left behind.  The purge of a booting    *)
(* worker is the exception: a copy it took the tree from may complete with *)
(* nothing stored, or with blank tiles over those of another copy.         *)
CompletedMeansStored ==
    \A c \in Copies : outcome[c] = "completed" /\ ~purged[c] =>
        \A o \in Outputs(family) : stored[o] \in {"whole", "blank"} \/ o \in refused[c]

(* A skipped unit is acked and never tried again: it must not have begun   *)
(* to publish the product it gives up.                                     *)
SkipPublishesNothing ==
    \A c \in Copies : outcome[c] = "skip" => begun[c] = {}

(* The GFS fan-out takes the primary COG in the bucket for the product     *)
(* done: with it there nothing of the product is still untried, in any     *)
(* copy of the unit, not even one whose tree was purged.                   *)
WitnessIsLast ==
    family \in GfsFamilies /\ stored["cog"] = "whole" => tried = Outputs(family)

(* A copy told to stop begins at most one more upload, so that it exits    *)
(* before the escalation; WRF, whose uploads run through, is the exception. *)
ShutdownIsPrompt ==
    \A c \in Copies : family \notin {"wrf", "wrf_plain"} => late[c] <= 1

(* Unless a worker boots, a copy finds the files its next step needs: no   *)
(* other copy of the image removes them, and no step drops one too early.  *)
StepsFindTheirFiles ==
    \A c \in Copies :
        phase[c] = "running" /\ ~purged[c] /\ ip[c] <= Len(Program[family]) => Found(c)
=============================================================================
