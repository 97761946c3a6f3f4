--------------------------- MODULE SourceDownload ---------------------------
(***************************************************************************)
(* The download of one attempt: a data source asks its repository for the  *)
(* input of a unit, which is a file, or the files of a GLM window, behind  *)
(* a CGI, a list of mirrors, a folder or a bucket.  The source moves while *)
(* it is read: files are still being written, appear and are pruned.       *)
(*                                                                         *)
(* What a file holds: the "whole" of what was asked for; a complete body   *)
(* that is something "other", or that begins as a GRIB file and is none    *)
(* ("garbled"); or one broken off, inside a GRIB message ("cut"), between  *)
(* two ("edge"), or before the first shows that it is one ("stub", and the *)
(* empty file).                                                            *)
(***************************************************************************)
EXTENDS Naturals, Sequences, FiniteSets

CONSTANTS
    Parts,      \* bound: files of a GLM window, numbered from 1
    Mirrors,    \* number of ECMWF mirrors
    Tries,      \* retries of download_to_file
    GetSlots       \* its semaphore

ASSUME DownloadAssumption ==
    Parts \in Nat \ {0} /\ Mirrors \in Nat \ {0} /\ Tries \in Nat \ {0} /\ GetSlots \in Nat \ {0}

Folders == {"gfs_folder", "ecmwf_folder", "glm_folder", "folder"}
Buckets == {"gfs_bucket", "ecmwf_bucket", "glm_bucket", "bucket"}
Origins == {"nomads", "mirrors"} \cup Folders \cup Buckets
Forecasts == {"gfs_folder", "ecmwf_folder", "gfs_bucket", "ecmwf_bucket"}
Windows == {"glm_folder", "glm_bucket"}
Validated == {"nomads", "gfs_folder", "gfs_bucket"}

VARIABLES
    origin,    \* the backend, chosen once
    source,    \* what a folder or a bucket holds of a file, or "none"
    at,        \* "new", "fetching", "checking", "ended"
    verdict,   \* how download ended: see Ends
    target,    \* what the destination (of a window, its .partial) holds
    get,       \* download_to_file of a file: "off", "queued", "sending",
               \* "backoff", "done", "failed"
    tries,     \* its attempts that failed
    said       \* what the mirrors answered so far, in order; the status of
               \* an answer of NOMADS that is none of success

downloadvars == <<origin, source, at, verdict, target, get, tries, said>>

Wanted == IF origin \in Windows THEN 1 .. Parts ELSE {1}
Unbroken == {"whole", "other", "garbled"}
Contents == Unbroken \cup {"cut", "edge", "stub"}

DownloadInit ==
    /\ origin \in Origins
    /\ source \in [1 .. Parts ->
         {"none"} \cup (IF origin \in Folders \cup Buckets THEN Unbroken ELSE {})
                  \cup (IF origin \in Folders THEN {"stub"} ELSE {})]
    /\ at = "new" /\ verdict = "none"
    /\ target = [p \in 1 .. Parts |-> "none"]
    /\ get = [p \in 1 .. Parts |-> "off"]
    /\ tries = [p \in 1 .. Parts |-> 0]
    /\ said = <<>>

-----------------------------------------------------------------------------
(* _download_atomically: a window is all there, or its directory is gone.  *)
(* validate_gfs_grib removes what it refuses; a transfer that fails keeps  *)
(* what came of it.                                                        *)
Kept(v) ==
    IF v = "returned" \/ ~(origin \in Windows \/ at = "checking") THEN target
    ELSE [p \in 1 .. Parts |-> "none"]

(* returned | not_available, transient (released, and published again when *)
(* discovered) | invalid, missing (acked for good) | failed (retried)      *)
Ends(v) ==
    /\ at' = "ended"
    /\ verdict' = v
    /\ target' = Kept(v)

Begin ==
    /\ at = "new"
    /\ origin \notin Folders \cup {"gfs_bucket", "ecmwf_bucket"}
    /\ at' = "fetching"
    /\ get' = [p \in 1 .. Parts |-> IF origin \in Buckets /\ p \in Wanted THEN "queued" ELSE "off"]
    /\ UNCHANGED <<origin, source, verdict, target, tries, said>>

(* The file is looked for before it is copied; those of a window one by    *)
(* one, later.                                                             *)
FindInFolder ==
    /\ at = "new" /\ origin \in Folders
    /\ IF origin \in Windows \/ source[1] # "none"
       THEN at' = "fetching" /\ UNCHANGED <<verdict, target>>
       ELSE Ends(IF origin \in Forecasts THEN "not_available" ELSE "missing")
    /\ UNCHANGED <<origin, source, get, tries, said>>

(* A HEAD, which may also fail. *)
FindInBucket ==
    /\ at = "new" /\ origin \in {"gfs_bucket", "ecmwf_bucket"}
    /\ \/ /\ source[1] # "none"
          /\ at' = "fetching"
          /\ get' = [get EXCEPT ![1] = "queued"]
          /\ UNCHANGED <<verdict, target>>
       \/ source[1] = "none" /\ Ends("not_available") /\ UNCHANGED get
       \/ Ends("failed") /\ UNCHANGED get
    /\ UNCHANGED <<origin, source, tries, said>>

(* copy2, in a thread; it copies what is there when it reads.  A file that *)
(* is not there (any more) is a FileNotFoundError, whatever the backend.   *)
CopyNext ==
    /\ at = "fetching" /\ origin \in Folders
    /\ \E p \in Wanted :
        /\ target[p] = "none" /\ \A o \in Wanted : o < p => target[o] # "none"
        /\ IF source[p] = "none" THEN Ends("missing")
           ELSE /\ target' = [target EXCEPT ![p] = source[p]]
                /\ at' = IF \A o \in Wanted : o <= p THEN "checking" ELSE at
                /\ UNCHANGED verdict
    /\ UNCHANGED <<origin, source, get, tries, said>>

-----------------------------------------------------------------------------
(* Buckets: one download_to_file for each file, gathered.  The first that  *)
(* gives up ends the gather; the others go on without it.                  *)

(* Mutant: the directory is made again. *)
Writable_Always == TRUE

(* open: once the download has failed its .partial is gone. *)
Writable == at = "fetching" \/ origin \notin Windows

GetFails(p) ==
    /\ tries' = [tries EXCEPT ![p] = @ + 1]
    /\ IF tries[p] + 1 < Tries
       THEN get' = [get EXCEPT ![p] = "backoff"] /\ UNCHANGED <<at, verdict, target>>
       ELSE /\ get' = [get EXCEPT ![p] = "failed"]
            /\ IF at = "fetching" THEN Ends("failed") ELSE UNCHANGED <<at, verdict, target>>

GetOpens(p) ==
    /\ get[p] = "queued"
    /\ Cardinality({o \in Wanted : get[o] = "sending"}) < GetSlots
    /\ IF Writable /\ source[p] # "none"
       THEN /\ get' = [get EXCEPT ![p] = "sending"]
            /\ target' = [target EXCEPT ![p] = "cut"]
            /\ UNCHANGED <<at, verdict, tries>>
       ELSE GetFails(p)
    /\ UNCHANGED <<origin, source, said>>

(* What it still writes after the rmtree goes to an unlinked file. *)
GetArrives(p) ==
    /\ get[p] = "sending" /\ source[p] # "none"
    /\ get' = [get EXCEPT ![p] = "done"]
    /\ target' = IF target[p] = "none" THEN target ELSE [target EXCEPT ![p] = source[p]]
    /\ at' = IF at = "fetching" /\ \A o \in Wanted \ {p} : get[o] = "done"
             THEN "checking" ELSE at
    /\ UNCHANGED <<origin, source, verdict, tries, said>>

(* The network, or the object is gone; the file is removed. *)
GetBreaks(p) ==
    /\ get[p] = "sending"
    /\ tries' = [tries EXCEPT ![p] = @ + 1]
    /\ LET last == tries[p] + 1 = Tries IN
        /\ get' = [get EXCEPT ![p] = IF last THEN "failed" ELSE "backoff"]
        /\ IF last /\ at = "fetching"
           THEN at' = "ended" /\ verdict' = "failed"
           ELSE UNCHANGED <<at, verdict>>
        /\ target' = [IF last /\ at = "fetching" THEN Kept("failed") ELSE target
                        EXCEPT ![p] = "none"]
    /\ UNCHANGED <<origin, source, said>>

GetAgain(p) ==
    /\ get[p] = "backoff"
    /\ get' = [get EXCEPT ![p] = "queued"]
    /\ UNCHANGED <<origin, source, at, verdict, target, tries, said>>

-----------------------------------------------------------------------------
(* NOMADS: one request; the status decides, or the body that came.         *)

(* 403 and 404, "absent"; 500 and above, or no answer in time, "ill"; of   *)
(* the rest of the 4xx, 408 and 429 are "busy", the others "refused".      *)
Statuses == {"absent", "ill", "busy", "refused"}

StatusVerdict(s) ==
    IF s = "absent" THEN "not_available" ELSE IF s = "ill" THEN "transient" ELSE "invalid"

NomadsRefuses ==
    /\ at = "fetching" /\ origin = "nomads"
    /\ \E s \in Statuses : said' = <<s>> /\ Ends(StatusVerdict(s))
    /\ UNCHANGED <<origin, source, get, tries>>

NomadsSends ==
    /\ at = "fetching" /\ origin = "nomads"
    /\ \E c \in Contents : target' = [target EXCEPT ![1] = c]
    /\ at' = "checking"
    /\ UNCHANGED <<origin, source, verdict, get, tries, said>>

(* A transfer that fails leaves what it wrote. *)
NomadsBreaks ==
    /\ at = "fetching" /\ origin = "nomads"
    /\ \E c \in Contents \ Unbroken : target' = [target EXCEPT ![1] = c]
    /\ at' = "ended" /\ verdict' = "transient"
    /\ UNCHANGED <<origin, source, get, tries, said>>

(* What a mirror that does not serve the run amounts to: a 404, or a       *)
(* connection or a status multiurl would have retried for hours.           *)
Refusals == {"late", "ill"}

(* ECMWF: a mirror serves the run, does not have it yet, or is ill (and    *)
(* may have left a broken file, which the next one removes); an error of   *)
(* another kind ends the walk.                                             *)
AskMirror ==
    /\ at = "fetching" /\ origin = "mirrors" /\ Len(said) < Mirrors
    /\ \/ target' = [target EXCEPT ![1] = "whole"] /\ at' = "checking" /\ UNCHANGED <<verdict, said>>
       \/ /\ \E a \in Refusals :
                /\ said' = Append(said, a)
                /\ target' \in {[target EXCEPT ![1] = c] : c \in {"none"} \cup IF a = "ill" THEN {"cut"} ELSE {}}
          /\ UNCHANGED <<at, verdict>>
       \/ Ends("failed") /\ UNCHANGED said
    /\ UNCHANGED <<origin, source, get, tries>>

Answered(a) == \E k \in DOMAIN said : said[k] = a

(* Mutant: a mirror that has no data yet outweighs one that is ill. *)
WalkVerdict_LateFirst == IF Answered("late") THEN "not_available" ELSE "transient"

WalkVerdict == IF Answered("ill") THEN "transient" ELSE "not_available"

WalkEnds ==
    /\ at = "fetching" /\ origin = "mirrors" /\ Len(said) = Mirrors
    /\ Ends(WalkVerdict)
    /\ UNCHANGED <<origin, source, get, tries, said>>

-----------------------------------------------------------------------------
(* The magic bytes come first; then the walk over the messages has to end  *)
(* where the file does, and only then does their number count.             *)
Scanned(c) ==
    IF c = "whole" THEN "returned"
    ELSE IF c \in {"cut", "garbled"} THEN "transient" ELSE "invalid"

Check ==
    /\ at = "checking"
    /\ Ends(IF origin \in Validated THEN Scanned(target[1]) ELSE "returned")
    /\ UNCHANGED <<origin, source, get, tries, said>>

(* A folder's file appears, is written in place and is pruned; an object   *)
(* is there at once.                                                       *)
FileMoves == {<<"none", "stub">>, <<"stub", "cut">>, <<"stub", "edge">>,
              <<"cut", "edge">>, <<"edge", "cut">>, <<"cut", "whole">>,
              <<"edge", "whole">>, <<"whole", "none">>}
ObjectMoves == {<<"none", "whole">>, <<"whole", "none">>}

SourceMoves ==
    /\ \E p \in Wanted, c \in Contents \cup {"none"} :
        /\ \/ origin \in Folders /\ <<source[p], c>> \in FileMoves
           \/ origin \in Buckets /\ <<source[p], c>> \in ObjectMoves
        /\ source' = [source EXCEPT ![p] = c]
    /\ UNCHANGED <<origin, at, verdict, target, get, tries, said>>

DownloadNext ==
    \/ Begin \/ FindInFolder \/ FindInBucket \/ CopyNext
    \/ \E p \in 1 .. Parts : GetOpens(p) \/ GetArrives(p) \/ GetBreaks(p) \/ GetAgain(p)
    \/ NomadsRefuses \/ NomadsSends \/ NomadsBreaks \/ AskMirror \/ WalkEnds \/ Check \/ SourceMoves

DownloadSpec == DownloadInit /\ [][DownloadNext]_downloadvars

-----------------------------------------------------------------------------
(* What a download hands on is what was asked for as far as the backend    *)
(* can tell: a GFS file has all its messages, an object was not broken     *)
(* off, a window has all its files.  A window that failed leaves nothing,  *)
(* not even from the downloads its gather left running.                    *)
AcceptedIsWhole ==
    /\ verdict = "returned" => \A p \in Wanted :
        /\ target[p] # "none"
        /\ origin \in Validated \cup {"mirrors"} => target[p] = "whole"
        /\ origin \in Buckets => target[p] \in Unbroken
    /\ at = "ended" /\ verdict # "returned" /\ origin \in Windows =>
        \A p \in Wanted : target[p] = "none"

(* What the verdicts that give up rest on.  A run is not "not_available"   *)
(* when a mirror that may have it was ill.  A unit ends without a retry    *)
(* only for a body that lacks the magic bytes, or that ends exactly with a *)
(* message and is not the one asked for; for a 4xx of NOMADS other than    *)
(* 403 and 404, the passing 408 and 429 included; or for a file missing    *)
(* from a folder.  No other body broken off, no fault of the network and   *)
(* no 5xx is given up for good, whatever the source did meanwhile.         *)
GivesUpForCause ==
    [][verdict' # verdict =>
        /\ verdict' = "not_available" =>
             \/ origin = "mirrors" /\ ~Answered("ill")
             \/ origin = "nomads" /\ said' = <<"absent">>
             \/ origin \in Forecasts /\ source[1] = "none"
        /\ verdict' = "invalid" =>
             \/ origin \in Validated /\ target[1] \in {"other", "edge", "stub"}
             \/ origin = "nomads" /\ said' \in {<<"busy">>, <<"refused">>}
        /\ verdict' = "missing" => origin \in Folders /\ \E p \in Wanted : source[p] = "none"]_downloadvars
=============================================================================
