------------------------------ MODULE S3Client ------------------------------
(***************************************************************************)
(* One S3Client object: the cached clients it creates per profile and      *)
(* event loop, the semaphores that bound its requests, and the operations  *)
(* that run on one loop at the same time: streamed downloads with their    *)
(* retries, directories of small files, and heavy files, each a single PUT *)
(* in a lane chosen by its size.  An object outlives a loop: asyncio.run   *)
(* may be called again with it.                                            *)
(*                                                                         *)
(* Operations are names; what a body holds is whether it is intact.  Calls *)
(* of one request (LIST, HEAD, DELETE, bucket and lifecycle) do no more    *)
(* with the shared state than a directory of no files.                     *)
(***************************************************************************)
EXTENDS Naturals, FiniteSets

CONSTANTS
    Downloads,     \* download_to_file calls
    Directories,   \* upload_directory calls
    Heavies,       \* upload_file calls below the large threshold
    Larges,        \* upload_file calls at or above it
    Retries,       \* attempts of a download
    DirFiles,      \* files of a directory
    DownloadSlots, UploadSlots, HeavySlots, LargeSlots,   \* semaphores
    Loops          \* bound: event loops the object lives through

ASSUME S3Assumption ==
    /\ {Retries, DirFiles, DownloadSlots, UploadSlots} \subseteq Nat \ {0}
    /\ {HeavySlots, LargeSlots, Loops} \subseteq Nat \ {0}
    /\ Downloads \cap (Directories \cup Heavies \cup Larges) = {}
    /\ Directories \cap (Heavies \cup Larges) = {} /\ Heavies \cap Larges = {}

Heavy == Heavies \cup Larges
Ops == Downloads \cup Directories \cup Heavy
Files == Directories \X (1..DirFiles)
Profiles == {"default", "heavy"}
Profile(o) == IF o \in Heavy THEN "heavy" ELSE "default"

VARIABLES
    loop,      \* the running event loop, counted from 1
    closing,   \* aclose: "no", "closing", "closed"
    client,    \* the loop of the cached client of a profile, 0 for none
    made,      \* clients created for a profile on a loop
    open,      \* <<profile, loop>> whose clients are open
    lock,      \* who holds the creation lock of a profile
    pc,        \* an operation
    attempt,   \* attempts of a download that failed
    file,      \* its destination: "none", "partial", "full"
    queued, sending, landed,   \* files of directories
    stored     \* what the last PUT of a heavy file left in the bucket

clients == <<closing, client, made, open, lock>>
tiles == <<queued, sending, landed>>
s3vars == <<loop, clients, pc, attempt, file, tiles, stored>>

S3Init ==
    /\ loop = 1 /\ closing = "no"
    /\ client = [p \in Profiles |-> 0]
    /\ made = [pl \in Profiles \X (1..Loops) |-> 0]
    /\ open = {}
    /\ lock = [p \in Profiles |-> {}]
    /\ pc = [o \in Ops |-> "new"]
    /\ attempt = [o \in Downloads |-> 0]
    /\ file = [o \in Downloads |-> "none"]
    /\ queued = {} /\ sending = {} /\ landed = {}
    /\ stored = [o \in Heavy |-> "nothing"]

Goes(o, to) == pc' = [pc EXCEPT ![o] = to]
InFlight(S) == {o \in S : pc[o] = "sending"}

-----------------------------------------------------------------------------
(* _get_client                                                             *)

(* Mutant: whatever client is cached will do. *)
Cached_AnyLoop(p) == client[p] # 0

Cached(p) == client[p] = loop

(* The fast path takes no lock and does not await.  A heavy file is looked *)
(* at first: an empty or an oversized one is refused with False.           *)
Start(o) ==
    /\ closing = "no" /\ pc[o] = "new"
    /\ \/ Goes(o, IF Cached(Profile(o)) THEN "ready" ELSE "locking")
       \/ o \in Heavy /\ Goes(o, "false")
    /\ UNCHANGED <<loop, clients, attempt, file, tiles, stored>>

(* Mutant: no second look once the lock is held. *)
Lock_NoRecheck(o) ==
    /\ pc[o] = "locking" /\ lock[Profile(o)] = {}
    /\ Goes(o, "creating")
    /\ lock' = [lock EXCEPT ![Profile(o)] = {o}]
    /\ client' = [client EXCEPT ![Profile(o)] = 0]
    /\ UNCHANGED <<loop, closing, made, open, attempt, file, tiles, stored>>

(* Under the lock another caller may have made the client meanwhile; one   *)
(* of an earlier loop is forgotten, not closed.                            *)
Lock(o) ==
    /\ pc[o] = "locking" /\ lock[Profile(o)] = {}
    /\ IF Cached(Profile(o))
       THEN Goes(o, "ready") /\ UNCHANGED <<lock, client>>
       ELSE /\ Goes(o, "creating")
            /\ lock' = [lock EXCEPT ![Profile(o)] = {o}]
            /\ client' = [client EXCEPT ![Profile(o)] = 0]
    /\ UNCHANGED <<loop, closing, made, open, attempt, file, tiles, stored>>

Created(o) ==
    /\ pc[o] = "creating"
    /\ made' = [made EXCEPT ![<<Profile(o), loop>>] = @ + 1]
    /\ open' = open \cup {<<Profile(o), loop>>}
    /\ client' = [client EXCEPT ![Profile(o)] = loop]
    /\ lock' = [lock EXCEPT ![Profile(o)] = {}]
    /\ Goes(o, "ready")
    /\ UNCHANGED <<loop, closing, attempt, file, tiles, stored>>

(* The session cannot make one: False of a heavy file, an exception to     *)
(* the caller of anything else.                                            *)
CreateFails(o) ==
    /\ pc[o] = "creating"
    /\ lock' = [lock EXCEPT ![Profile(o)] = {}]
    /\ Goes(o, IF o \in Heavy THEN "false" ELSE "raised")
    /\ UNCHANGED <<loop, closing, client, made, open, attempt, file, tiles, stored>>

-----------------------------------------------------------------------------
(* download_to_file                                                        *)

OpenFile(o) ==
    /\ pc[o] = "ready"
    /\ Cardinality(InFlight(Downloads)) < DownloadSlots
    /\ file' = [file EXCEPT ![o] = "partial"]
    /\ Goes(o, "sending")
    /\ UNCHANGED <<loop, clients, attempt, tiles, stored>>

Downloaded(o) ==
    /\ pc[o] = "sending"
    /\ file' = [file EXCEPT ![o] = "full"]
    /\ Goes(o, "true")
    /\ UNCHANGED <<loop, clients, attempt, tiles, stored>>

(* A failed attempt, at the GET or at a read of its body, removes what it  *)
(* wrote and has given its slot back when it sleeps; the last one raises.  *)
DownloadFails(o) ==
    /\ pc[o] = "sending"
    /\ file' = [file EXCEPT ![o] = "none"]
    /\ attempt' = [attempt EXCEPT ![o] = @ + 1]
    /\ Goes(o, IF attempt[o] + 1 = Retries THEN "raised" ELSE "backoff")
    /\ UNCHANGED <<loop, clients, tiles, stored>>

BackedOff(o) ==
    /\ pc[o] = "backoff"
    /\ Goes(o, "ready")
    /\ UNCHANGED <<loop, clients, attempt, file, tiles, stored>>

-----------------------------------------------------------------------------
(* upload_directory: one client for all its files, one task for each, all  *)
(* through the semaphore of the object.  A file fails on its own.          *)

Gather(o) ==
    /\ pc[o] = "ready"
    /\ queued' = queued \cup ({o} \X (1..DirFiles))
    /\ Goes(o, "gathering")
    /\ UNCHANGED <<loop, clients, attempt, file, sending, landed, stored>>

SendTile(f) ==
    /\ f \in queued /\ Cardinality(sending) < UploadSlots
    /\ queued' = queued \ {f}
    /\ sending' = sending \cup {f}
    /\ UNCHANGED <<loop, clients, pc, attempt, file, landed, stored>>

TileSent(f) ==
    /\ f \in sending
    /\ sending' = sending \ {f}
    /\ landed' \in {landed, landed \cup {f}}
    /\ UNCHANGED <<loop, clients, pc, attempt, file, queued, stored>>

Gathered(o) ==
    /\ pc[o] = "gathering"
    /\ ({o} \X (1..DirFiles)) \cap (queued \cup sending) = {}
    /\ Goes(o, "true")
    /\ UNCHANGED <<loop, clients, attempt, file, tiles, stored>>

-----------------------------------------------------------------------------
(* upload_file                                                             *)

(* Mutant: one lane for every size. *)
Lane_Single(o) == Heavy

Lane(o) == IF o \in Larges THEN Larges ELSE Heavies
Slots(o) == IF o \in Larges THEN LargeSlots ELSE HeavySlots

Put(o) ==
    /\ pc[o] = "ready"
    /\ Cardinality(InFlight(Lane(o))) < Slots(o)
    /\ Goes(o, "sending")
    /\ UNCHANGED <<loop, clients, attempt, file, tiles, stored>>

(* What the store keeps, and the ETag it answers with: the MD5 of what it  *)
(* has, the MD5 of something else, one with a part count, or none.         *)
Answers == {<<"intact", "md5">>, <<"intact", "none">>, <<"corrupt", "other">>,
            <<"multipart", "parts">>}

(* Mutant: any answer counts as a success. *)
Accepted_Any(etag) == TRUE

Accepted(etag) == etag \in {"md5", "none"}

PutAnswered(o) ==
    /\ pc[o] = "sending"
    /\ \E a \in Answers :
         /\ stored' = [stored EXCEPT ![o] = a[1]]
         /\ Goes(o, IF Accepted(a[2]) THEN "true" ELSE "false")
    /\ UNCHANGED <<loop, clients, attempt, file, tiles>>

(* A PUT that raises may have been stored. *)
PutRaises(o) ==
    /\ pc[o] = "sending"
    /\ stored' \in {stored, [stored EXCEPT ![o] = "intact"]}
    /\ Goes(o, "false")
    /\ UNCHANGED <<loop, clients, attempt, file, tiles>>

-----------------------------------------------------------------------------
(* The end of a loop: nothing runs.  A child awaits aclose; the boot loop  *)
(* of a worker just ends.                                                  *)

Settled == \A o \in Ops : pc[o] \in {"new", "true", "false", "raised"}

Aclose ==
    /\ closing = "no" /\ Settled
    /\ closing' = "closed"
    /\ open' = open \ {<<p, client[p]>> : p \in {q \in Profiles : client[q] = loop}}
    /\ client' = [p \in Profiles |-> 0]
    /\ UNCHANGED <<loop, made, lock, pc, attempt, file, tiles, stored>>

NextLoop ==
    /\ Settled /\ loop < Loops
    /\ loop' = loop + 1 /\ closing' = "no"
    /\ pc' = [o \in Ops |-> "new"]
    /\ attempt' = [o \in Downloads |-> 0]
    /\ file' = [o \in Downloads |-> "none"]
    /\ landed' = {}
    /\ stored' = [o \in Heavy |-> "nothing"]
    /\ UNCHANGED <<client, made, open, lock, queued, sending>>

GetClient(o) == Start(o) \/ Lock(o) \/ Created(o) \/ CreateFails(o)
Download(o) == OpenFile(o) \/ Downloaded(o) \/ DownloadFails(o) \/ BackedOff(o)
Upload(o) == Put(o) \/ PutAnswered(o) \/ PutRaises(o)

S3Next ==
    \/ \E o \in Ops : GetClient(o)
    \/ \E o \in Downloads : Download(o)
    \/ \E o \in Directories : Gather(o) \/ Gathered(o)
    \/ \E f \in Files : SendTile(f) \/ TileSent(f)
    \/ \E o \in Heavy : Upload(o)
    \/ Aclose \/ NextLoop

(* Tasks run, and the client's timeouts end every request, but a PUT of    *)
(* the large lane is allowed to hang.                                      *)
S3Progress(o) ==
    \/ GetClient(o)
    \/ o \in Heavies /\ Upload(o)
    \/ o \in Larges /\ Put(o)

S3Spec == S3Init /\ [][S3Next]_s3vars

-----------------------------------------------------------------------------
Pcs == {"new", "locking", "creating", "ready", "sending", "gathering", "backoff",
        "true", "false", "raised"}

S3TypeOK ==
    /\ loop \in 1..Loops /\ closing \in {"no", "closed"}
    /\ client \in [Profiles -> 0..Loops]
    /\ made \in [Profiles \X (1..Loops) -> Nat]
    /\ open \subseteq Profiles \X (1..Loops)
    /\ lock \in [Profiles -> SUBSET Ops]
    /\ pc \in [Ops -> Pcs]
    /\ attempt \in [Downloads -> 0..Retries]
    /\ file \in [Downloads -> {"none", "partial", "full"}]
    /\ {queued, sending, landed} \subseteq SUBSET Files
    /\ stored \in [Heavy -> {"nothing", "intact", "corrupt", "multipart"}]

(* Callers that arrive together make one client per profile and loop, not  *)
(* one each: the second look under the lock is what does it.               *)
OneClientPerLoop == \A pl \in Profiles \X (1..Loops) : made[pl] <= 1

(* A request goes out on a client that is open and of the loop it runs on. *)
RequestsOnOwnClient ==
    \A o \in Ops :
        pc[o] \in {"ready", "sending", "gathering", "backoff"} =>
            <<Profile(o), loop>> \in open /\ client[Profile(o)] = loop

(* What a caller is told is what happened: a download that raised left no  *)
(* file and one that returned left all of it; True of a heavy file means   *)
(* that one intact PUT is in the bucket.                                   *)
ResultsAreTrue ==
    /\ \A o \in Downloads : /\ pc[o] = "true" => file[o] = "full"
                            /\ pc[o] \in {"raised", "backoff"} => file[o] = "none"
    /\ \A o \in Heavy : pc[o] = "true" => stored[o] = "intact"

(* PUTs of the large lane that hang do not keep a small object waiting. *)
HeaviesNeverStarve ==
    \A o \in Heavies : pc[o] \in {"locking", "ready"} ~> pc[o] \in {"true", "false"}
=============================================================================
