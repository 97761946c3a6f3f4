---------------------------- MODULE WorkHandler ----------------------------
(***************************************************************************)
(* One attempt at a unit as WorkHandler.handle runs it: a scratch tree on  *)
(* the volume every worker mounts, the download, the processing subprocess *)
(* with its signal handling and exit codes, the cleanup, and what the      *)
(* worker then does with the delivery.  Around the attempts: SIGTERM, the  *)
(* SIGKILL escalation, crashes, and the purge at the boot of a worker.     *)
(*                                                                         *)
(* Inline processors run no subprocess and are left out.  Trees are named  *)
(* by the attempt's token; a processor's own tree is apart from the        *)
(* handler's, as it is for the radar and WRF processors.                   *)
(***************************************************************************)
EXTENDS Integers

CONSTANTS
    Workers,      \* worker processes on one volume
    Slots,        \* WORKER_CONCURRENCY tasks of a worker
    MaxAttempts   \* bound: attempts in a behaviour

ASSUME AttemptsAssumption == MaxAttempts \in Nat

Tasks == Workers \X Slots

VARIABLES
    mode,      \* a worker process: "up", "stopping" (_aborting), "down"
    killer,    \* the _force_kill thread of abort: "off", "armed", "fired"
    pc,        \* a task of the drain loop
    token,     \* the attempt it makes
    child,     \* its subprocess, or the code that one exited with
    procs,     \* tasks whose subprocess is in self._processes
    asked,     \* tasks whose subprocess was sent SIGTERM
    verdict,   \* what the worker did with the last delivery
    attempts,  \* attempts so far
    dirs,      \* attempts whose work_dir is on the volume
    files,     \* attempts whose raw file is
    scratch,   \* attempts whose processor's work dir is
    pruned     \* whether the source file is gone upstream

processes == <<mode, killer>>
subs      == <<child, procs, asked>>
volume    == <<dirs, files, scratch>>
vars == <<processes, pc, token, subs, verdict, attempts, volume, pruned>>

Live == {"booting", "working"}

Init ==
    /\ mode = [w \in Workers |-> "up"]
    /\ killer = [w \in Workers |-> "off"]
    /\ pc = [t \in Tasks |-> "free"]
    /\ token = [t \in Tasks |-> 0]
    /\ child = [t \in Tasks |-> "none"]
    /\ procs = {} /\ asked = {}
    /\ verdict = [t \in Tasks |-> "none"]
    /\ attempts = 0
    /\ dirs = {} /\ files = {} /\ scratch = {}
    /\ pruned = FALSE

-----------------------------------------------------------------------------
(* What reaches the worker when handle returns or raises.  ShutdownRequest *)
(* is requeued whatever the flag says, any other failure only while        *)
(* stopping.                                                               *)

(* Mutant: the failure path does not look at _running. *)
Verdict_AlwaysRetry(w, outcome) ==
    CASE outcome = "error" -> "retry"
      [] outcome = "shutdown" -> "requeue"
      [] OTHER -> "ack"

Verdict(w, outcome) ==
    CASE outcome = "error" -> IF mode[w] = "stopping" THEN "requeue" ELSE "retry"
      [] outcome = "shutdown" -> "requeue"
      [] OTHER -> "ack"

(* Mutant: no finally around the attempt. *)
CleanUp_OnSuccess(t, outcome) ==
    IF outcome = "completed"
    THEN dirs' = dirs \ {token[t]} /\ files' = files \ {token[t]}
    ELSE UNCHANGED <<dirs, files>>

CleanUp(t, outcome) == dirs' = dirs \ {token[t]} /\ files' = files \ {token[t]}

(* handle ends: no await between its finally and the verdict. *)
Ends(t, outcome) ==
    /\ pc' = [pc EXCEPT ![t] = "free"]
    /\ verdict' = [verdict EXCEPT ![t] = Verdict(t[1], outcome)]
    /\ CleanUp(t, outcome)

-----------------------------------------------------------------------------
(* Mutant: the tree is named by the image alone. *)
NewToken_PerImage == 1

(* uuid4, one per attempt. *)
NewToken == attempts + 1

Handle(t) ==
    /\ mode[t[1]] = "up" /\ pc[t] = "free"
    /\ attempts < MaxAttempts
    /\ attempts' = attempts + 1
    /\ token' = [token EXCEPT ![t] = NewToken]
    /\ dirs' = dirs \cup {NewToken}
    /\ pc' = [pc EXCEPT ![t] = "download"]
    /\ child' = [child EXCEPT ![t] = "none"]
    /\ verdict' = [verdict EXCEPT ![t] = "none"]
    /\ asked' = asked \ {t}
    /\ UNCHANGED <<processes, procs, files, scratch, pruned>>

(* The repository looks at the source and makes the directory again, then  *)
(* awaits the copy in a thread.                                            *)
StartCopy(t) ==
    /\ pc[t] = "download" /\ ~pruned
    /\ dirs' = dirs \cup {token[t]}
    /\ pc' = [pc EXCEPT ![t] = "copying"]
    /\ UNCHANGED <<processes, token, subs, verdict, attempts, files, scratch, pruned>>

(* FileNotFoundError of the download becomes SourceFileNotFoundError, be   *)
(* it the source or the destination that is not there.                     *)
SourceMissing(t) ==
    /\ \/ pc[t] = "download" /\ pruned
       \/ pc[t] = "copying" /\ (pruned \/ token[t] \notin dirs)
    /\ Ends(t, "missing")
    /\ UNCHANGED <<processes, token, subs, attempts, scratch, pruned>>

(* Copied; a tree removed under the copy takes the file with it. *)
Copied(t) ==
    /\ pc[t] = "copying"
    /\ files' = IF token[t] \in dirs THEN files \cup {token[t]} ELSE files
    /\ pc' = [pc EXCEPT ![t] = "downloaded"]
    /\ UNCHANGED <<processes, token, subs, verdict, attempts, dirs, scratch, pruned>>

DownloadRaises(t) ==
    /\ pc[t] \in {"download", "copying"}
    /\ Ends(t, "error")
    /\ UNCHANGED <<processes, token, subs, attempts, scratch, pruned>>

(* create_subprocess_exec: the child runs before its parent knows it. *)
Spawn(t) ==
    /\ pc[t] = "downloaded"
    /\ child' = [child EXCEPT ![t] = "booting"]
    /\ pc' = [pc EXCEPT ![t] = "spawned"]
    /\ UNCHANGED <<processes, token, procs, asked, verdict, attempts, volume, pruned>>

(* SIGTERM to the groups in S: before its handler is installed a child     *)
(* dies of it, afterwards it stops at its next checkpoint.                 *)
SigTerm(S) ==
    /\ child' = [t \in Tasks |->
                   IF t \in S /\ child[t] = "booting" THEN "killed" ELSE child[t]]
    /\ asked' = asked \cup {t \in S : child[t] \in Live}

(* Mutant: no look at _aborting after the spawn. *)
Register_Unsignalled(t) ==
    /\ pc[t] = "spawned"
    /\ procs' = procs \cup {t}
    /\ pc' = [pc EXCEPT ![t] = "waiting"]
    /\ UNCHANGED <<processes, token, child, asked, verdict, attempts, volume, pruned>>

Register(t) ==
    /\ pc[t] = "spawned"
    /\ procs' = procs \cup {t}
    /\ IF mode[t[1]] = "stopping" THEN SigTerm({t}) ELSE UNCHANGED <<child, asked>>
    /\ pc' = [pc EXCEPT ![t] = "waiting"]
    /\ UNCHANGED <<processes, token, verdict, attempts, volume, pruned>>

(* The exit code is read; anything but 0, 2 and 3 is a RuntimeError. *)
Outcome(code) ==
    CASE code = "done" -> "completed"
      [] code \in {"skip", "shutdown"} -> code
      [] OTHER -> "error"

Reap(t) ==
    /\ pc[t] = "waiting" /\ child[t] \notin Live
    /\ procs' = procs \ {t}
    /\ Ends(t, Outcome(child[t]))
    /\ UNCHANGED <<processes, token, child, asked, attempts, scratch, pruned>>

(* wait_for(proc.wait(), 1800) runs out: SIGKILL to the group. *)
TimesOut(t) ==
    /\ pc[t] = "waiting" /\ child[t] \in Live
    /\ child' = [child EXCEPT ![t] = "killed"]
    /\ procs' = procs \ {t}
    /\ Ends(t, "error")
    /\ UNCHANGED <<processes, token, asked, attempts, scratch, pruned>>

-----------------------------------------------------------------------------
(* The subprocess. *)

(* The signal handler is installed, then the processor looks for its input *)
(* and makes its own tree.                                                 *)
ChildReady(t) ==
    /\ child[t] = "booting"
    /\ IF token[t] \in files
       THEN /\ child' = [child EXCEPT ![t] = "working"]
            /\ scratch' = scratch \cup {token[t]}
       ELSE /\ child' = [child EXCEPT ![t] = "error"]
            /\ UNCHANGED scratch
    /\ UNCHANGED <<processes, pc, token, procs, asked, verdict, attempts, dirs,
                   files, pruned>>

ChildExits(t, code) ==
    /\ child' = [child EXCEPT ![t] = code]
    /\ scratch' = scratch \ {token[t]}
    /\ UNCHANGED <<processes, pc, token, procs, asked, verdict, attempts, dirs,
                   files, pruned>>

(* Whatever was asked of it: past its last checkpoint it ends by itself,   *)
(* and SIGTERM to its group also kills the tools it runs.                  *)
ChildEnds(t) ==
    /\ child[t] = "working"
    /\ \E code \in {"done", "skip", "error"} : ChildExits(t, code)

Checkpoint(t) ==
    /\ child[t] = "working" /\ t \in asked
    /\ ChildExits(t, "shutdown")

-----------------------------------------------------------------------------
(* Worker processes. *)

OfWorker(w) == {t \in Tasks : t[1] = w}

(* Mutant: the flag alone. *)
Signal_NoAbort(w) ==
    /\ mode[w] = "up"
    /\ mode' = [mode EXCEPT ![w] = "stopping"]
    /\ UNCHANGED <<killer, pc, token, subs, verdict, attempts, volume, pruned>>

(* _signal_handler and abort. *)
Signal(w) ==
    /\ mode[w] = "up"
    /\ mode' = [mode EXCEPT ![w] = "stopping"]
    /\ killer' = [killer EXCEPT ![w] = "armed"]
    /\ SigTerm(procs \cap OfWorker(w))
    /\ UNCHANGED <<pc, token, procs, verdict, attempts, volume, pruned>>

(* _force_kill after its grace period, on the live set of that moment. *)
ForceKill(w) ==
    /\ killer[w] = "armed"
    /\ killer' = [killer EXCEPT ![w] = "fired"]
    /\ child' = [t \in Tasks |->
                   IF t \in procs \cap OfWorker(w) /\ child[t] \in Live
                   THEN "killed" ELSE child[t]]
    /\ UNCHANGED <<mode, pc, token, procs, asked, verdict, attempts, volume, pruned>>

(* The end of the process; its children end with their container. *)
Down(w) ==
    /\ mode' = [mode EXCEPT ![w] = "down"]
    /\ killer' = [killer EXCEPT ![w] = "off"]
    /\ pc' = [t \in Tasks |-> IF t[1] = w THEN "free" ELSE pc[t]]
    /\ child' = [t \in Tasks |-> IF t[1] = w THEN "none" ELSE child[t]]
    /\ procs' = procs \ OfWorker(w)
    /\ asked' = asked \ OfWorker(w)
    /\ verdict' = [t \in Tasks |-> IF t[1] = w THEN "none" ELSE verdict[t]]
    /\ UNCHANGED <<token, attempts, volume, pruned>>

DrainEnds(w) ==
    /\ mode[w] = "stopping" /\ \A t \in OfWorker(w) : pc[t] = "free"
    /\ Down(w)

Crash(w) == mode[w] # "down" /\ Down(w)

(* Mutant: no purge. *)
purge_stale_work_dirs_Not == UNCHANGED volume

(* Every directory of TMP_DIR, whichever worker made it. *)
purge_stale_work_dirs == dirs' = {} /\ files' = {} /\ scratch' = {}

Boot(w) ==
    /\ mode[w] = "down"
    /\ mode' = [mode EXCEPT ![w] = "up"]
    /\ purge_stale_work_dirs
    /\ UNCHANGED <<killer, pc, token, subs, verdict, attempts, pruned>>

(* The upstream bucket or folder drops the source file. *)
Prune ==
    /\ ~pruned
    /\ pruned' = TRUE
    /\ UNCHANGED <<processes, pc, token, subs, verdict, attempts, volume>>

TaskStep(t) ==
    \/ StartCopy(t) \/ SourceMissing(t) \/ Copied(t) \/ Spawn(t)
    \/ Register(t) \/ Reap(t)

Next ==
    \/ \E t \in Tasks :
          \/ Handle(t) \/ TaskStep(t) \/ DownloadRaises(t) \/ TimesOut(t)
          \/ ChildReady(t) \/ ChildEnds(t) \/ Checkpoint(t)
    \/ \E w \in Workers :
          \/ Signal(w) \/ ForceKill(w) \/ DrainEnds(w) \/ Crash(w) \/ Boot(w)
    \/ Prune

Spec == Init /\ [][Next]_vars

(* A task and a starting child go on, a child that was asked to stop comes *)
(* to a checkpoint, a drained worker exits, a container is restarted.      *)
(* Nothing makes a working child end or the 30 minutes run out.            *)
Fairness ==
    /\ \A t \in Tasks :
          WF_vars(TaskStep(t)) /\ WF_vars(ChildReady(t)) /\ WF_vars(Checkpoint(t))
    /\ \A w \in Workers : WF_vars(DrainEnds(w)) /\ WF_vars(Boot(w))

FairSpec == Spec /\ Fairness

-----------------------------------------------------------------------------
(* Properties. *)

(* Type invariant; only a waiting task has a subprocess to signal.         *)
TypeOK ==
    /\ mode \in [Workers -> {"up", "stopping", "down"}]
    /\ killer \in [Workers -> {"off", "armed", "fired"}]
    /\ pc \in [Tasks -> {"free", "download", "copying", "downloaded", "spawned",
                         "waiting"}]
    /\ token \in [Tasks -> 0 .. MaxAttempts]
    /\ child \in [Tasks -> {"none", "done", "skip", "shutdown", "error", "killed"}
                              \cup Live]
    /\ procs = {t \in Tasks : pc[t] = "waiting"}
    /\ asked \subseteq Tasks
    /\ verdict \in [Tasks -> {"none", "ack", "requeue", "retry"}]
    /\ attempts \in 0 .. MaxAttempts
    /\ dirs \subseteq 1 .. MaxAttempts
    /\ files \subseteq dirs
    /\ scratch \subseteq 1 .. MaxAttempts
    /\ pruned \in BOOLEAN

(* No subprocess escapes a shutdown: one that is spawned while abort runs, *)
(* or after it, is told to stop as soon as its parent knows it.            *)
NoChildEscapes ==
    \A t \in procs : mode[t[1]] = "stopping" /\ child[t] \in Live => t \in asked

(* A subprocess that was told to stop costs no retry and no dead letter,   *)
(* whether it stops at a checkpoint, dies of the signal or of its tools.   *)
ShutdownBurnsNoRetry == \A t \in Tasks : verdict[t] = "retry" => t \notin asked

(* The raw file of a running attempt is removed by nothing but its own     *)
(* cleanup and the boot of a worker: a redelivered copy of the same unit   *)
(* does not touch it.                                                      *)
RawFileOnlyLostToBoot ==
    [][\A t \in Tasks :
          pc[t] # "free" /\ pc'[t] # "free" /\ token[t] \in files
             => token[t] \in files' \/ \E w \in Workers : Boot(w)]_vars

(* A stopped worker exits, although nothing makes its subprocesses run to  *)
(* completion.                                                             *)
ShutdownEnds == \A w \in Workers : mode[w] = "stopping" ~> mode[w] = "down"

(* The tree of an attempt that is over is removed: by the attempt, or by   *)
(* the boot that follows its worker's crash.                               *)
ResidueSwept ==
    \A k \in 1 .. MaxAttempts :
        (k \in dirs /\ \A t \in Tasks : pc[t] = "free" \/ token[t] # k)
            ~> k \notin dirs

-----------------------------------------------------------------------------
(* What the repository says of the program and the program does not do.    *)

(* "The raw file this unit points at is gone (pruned upstream before we    *)
(* got to it)": a unit ends as SourceFileNotFound, which is not retried,   *)
(* only if its source is gone.  The purge of another worker's boot makes   *)
(* the download raise the same exception.                                  *)
MissingSourceIsPruned == [][\A t \in Tasks : SourceMissing(t) => pruned]_vars
=============================================================================
