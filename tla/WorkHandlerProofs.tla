------------------------- MODULE WorkHandlerProofs -------------------------
(***************************************************************************)
(* Safety of WorkHandler for every set of workers, every concurrency and   *)
(* every number of attempts.                                               *)
(*                                                                         *)
(* The properties are not inductive by themselves.  What strengthens them: *)
(*   - AttemptInv: a task that is not free makes a numbered attempt that   *)
(*     has no verdict yet, and only a spawned subprocess can be alive;     *)
(*   - AskedInv: nothing is told to stop by a worker that is not stopping; *)
(*   - OwnTree: two attempts under way never share a tree.                 *)
(***************************************************************************)
EXTENDS WorkHandler, TLAPS

AttemptInv ==
    \A t \in Tasks :
        /\ token[t] <= attempts
        /\ pc[t] # "free" => token[t] > 0 /\ verdict[t] = "none"
        /\ child[t] \in Live => pc[t] \in {"spawned", "waiting"}

AskedInv == \A t \in asked : mode[t[1]] = "stopping"

OwnTree ==
    \A t, u \in Tasks :
        pc[t] # "free" /\ pc[u] # "free" /\ token[t] = token[u] => t = u

TypeInv == TypeOK /\ AttemptInv

HandlerInv ==
    TypeInv /\ AskedInv /\ OwnTree /\ NoChildEscapes /\ ShutdownBurnsNoRetry

-----------------------------------------------------------------------------
(* Every step preserves the types. *)

LEMMA TypeStep == TypeInv /\ [Next]_vars => TypeInv'
<1> SUFFICES ASSUME TypeInv, [Next]_vars
             PROVE  TypeInv'
    OBVIOUS
<1> USE AttemptsAssumption
        DEF TypeInv, TypeOK, AttemptInv, Live, processes, subs, volume
<1>1. ASSUME NEW t \in Tasks, Handle(t)
      PROVE  TypeInv'
    BY <1>1 DEF Handle, NewToken
<1>2. ASSUME NEW t \in Tasks, StartCopy(t)
      PROVE  TypeInv'
    <2>1. token[t] \in 1 .. MaxAttempts
        BY <1>2 DEF StartCopy
    <2>2. TypeOK'
        BY <1>2, <2>1 DEF StartCopy
    <2>3. AttemptInv'
        BY <1>2 DEF StartCopy
    <2> QED
        BY <2>2, <2>3
<1>3. ASSUME NEW t \in Tasks, SourceMissing(t)
      PROVE  TypeInv'
    BY <1>3 DEF SourceMissing, Ends, CleanUp, Verdict
<1>4. ASSUME NEW t \in Tasks, Copied(t)
      PROVE  TypeInv'
    BY <1>4 DEF Copied
<1>5. ASSUME NEW t \in Tasks, DownloadRaises(t)
      PROVE  TypeInv'
    BY <1>5 DEF DownloadRaises, Ends, CleanUp, Verdict
<1>6. ASSUME NEW t \in Tasks, Spawn(t)
      PROVE  TypeInv'
    BY <1>6 DEF Spawn
<1>7. ASSUME NEW t \in Tasks, Register(t)
      PROVE  TypeInv'
    BY <1>7 DEF Register, SigTerm
<1>8. ASSUME NEW t \in Tasks, Reap(t)
      PROVE  TypeInv'
    BY <1>8 DEF Reap, Ends, CleanUp, Verdict, Outcome
<1>9. ASSUME NEW t \in Tasks, TimesOut(t)
      PROVE  TypeInv'
    BY <1>9 DEF TimesOut, Ends, CleanUp, Verdict
<1>10. ASSUME NEW t \in Tasks, ChildReady(t)
      PROVE  TypeInv'
    <2>1. token[t] \in 1 .. MaxAttempts
        BY <1>10 DEF ChildReady
    <2>2. TypeOK'
        <3>1. child' \in [Tasks -> {"none", "done", "skip", "shutdown", "error",
                                   "killed"} \cup Live]
            BY <1>10 DEF ChildReady
        <3>2. scratch' = scratch \/ scratch' = scratch \cup {token[t]}
            BY <1>10 DEF ChildReady
        <3>3. scratch' \subseteq 1 .. MaxAttempts
            <4> HIDE DEF TypeInv
            <4>1. scratch \subseteq 1 .. MaxAttempts
                BY DEF TypeInv
            <4> QED
                BY <2>1, <3>2, <4>1
        <3>4. UNCHANGED <<processes, pc, token, procs, asked, verdict, attempts,
                          dirs, files, pruned>>
            BY <1>10 DEF ChildReady
        <3> QED
            BY <3>1, <3>3, <3>4
    <2>3. AttemptInv'
        BY <1>10 DEF ChildReady
    <2> QED
        BY <2>2, <2>3
<1>11. ASSUME NEW t \in Tasks, ChildEnds(t)
      PROVE  TypeInv'
    <2>1. PICK code \in {"done", "skip", "error"} : ChildExits(t, code)
        BY <1>11 DEF ChildEnds
    <2>2. TypeOK'
        BY <2>1 DEF ChildExits
    <2>3. AttemptInv'
        BY <2>1 DEF ChildExits
    <2> QED
        BY <2>2, <2>3
<1>12. ASSUME NEW t \in Tasks, Checkpoint(t)
      PROVE  TypeInv'
    BY <1>12 DEF Checkpoint, ChildExits
<1>13. ASSUME NEW w \in Workers, Signal(w)
      PROVE  TypeInv'
    BY <1>13 DEF Signal, SigTerm, OfWorker
<1>14. ASSUME NEW w \in Workers, ForceKill(w)
      PROVE  TypeInv'
    BY <1>14 DEF ForceKill, OfWorker
<1>15. ASSUME NEW w \in Workers, DrainEnds(w)
      PROVE  TypeInv'
    BY <1>15 DEF DrainEnds, Down, OfWorker
<1>16. ASSUME NEW w \in Workers, Crash(w)
      PROVE  TypeInv'
    BY <1>16 DEF Crash, Down, OfWorker
<1>17. ASSUME NEW w \in Workers, Boot(w)
      PROVE  TypeInv'
    BY <1>17 DEF Boot, purge_stale_work_dirs
<1>18. CASE Prune
    BY <1>18 DEF Prune
<1>19. CASE UNCHANGED vars
    BY <1>19 DEF vars
<1> QED
    BY <1>1, <1>2, <1>3, <1>4, <1>5, <1>6, <1>7, <1>8, <1>9, <1>10, <1>11,
       <1>12, <1>13, <1>14, <1>15, <1>16, <1>17, <1>18, <1>19
       DEF Next, TaskStep
-----------------------------------------------------------------------------

(* A worker tells its subprocesses to stop only while it is stopping, and  *)
(* leaves no one asked behind when it goes down.                           *)
LEMMA AskedStep == TypeInv /\ AskedInv /\ [Next]_vars => AskedInv'
<1> SUFFICES ASSUME TypeInv, AskedInv, [Next]_vars
             PROVE  AskedInv'
    OBVIOUS
<1> USE AttemptsAssumption
        DEF TypeInv, TypeOK, AttemptInv, AskedInv, Live, processes, subs, volume
<1>1. ASSUME NEW t \in Tasks, Handle(t)
      PROVE  AskedInv'
    BY <1>1 DEF Handle, NewToken
<1>2. ASSUME NEW t \in Tasks, StartCopy(t)
      PROVE  AskedInv'
    BY <1>2 DEF StartCopy
<1>3. ASSUME NEW t \in Tasks, SourceMissing(t)
      PROVE  AskedInv'
    BY <1>3 DEF SourceMissing, Ends, CleanUp, Verdict
<1>4. ASSUME NEW t \in Tasks, Copied(t)
      PROVE  AskedInv'
    BY <1>4 DEF Copied
<1>5. ASSUME NEW t \in Tasks, DownloadRaises(t)
      PROVE  AskedInv'
    BY <1>5 DEF DownloadRaises, Ends, CleanUp, Verdict
<1>6. ASSUME NEW t \in Tasks, Spawn(t)
      PROVE  AskedInv'
    BY <1>6 DEF Spawn
<1>7. ASSUME NEW t \in Tasks, Register(t)
      PROVE  AskedInv'
    BY <1>7 DEF Register, SigTerm
<1>8. ASSUME NEW t \in Tasks, Reap(t)
      PROVE  AskedInv'
    BY <1>8 DEF Reap, Ends, CleanUp, Verdict, Outcome
<1>9. ASSUME NEW t \in Tasks, TimesOut(t)
      PROVE  AskedInv'
    BY <1>9 DEF TimesOut, Ends, CleanUp, Verdict
<1>10. ASSUME NEW t \in Tasks, ChildReady(t)
      PROVE  AskedInv'
    BY <1>10 DEF ChildReady
<1>11. ASSUME NEW t \in Tasks, ChildEnds(t)
      PROVE  AskedInv'
    BY <1>11 DEF ChildEnds, ChildExits
<1>12. ASSUME NEW t \in Tasks, Checkpoint(t)
      PROVE  AskedInv'
    BY <1>12 DEF Checkpoint, ChildExits
<1>13. ASSUME NEW w \in Workers, Signal(w)
      PROVE  AskedInv'
    BY <1>13 DEF Signal, SigTerm, OfWorker
<1>14. ASSUME NEW w \in Workers, ForceKill(w)
      PROVE  AskedInv'
    BY <1>14 DEF ForceKill, OfWorker
<1>15. ASSUME NEW w \in Workers, DrainEnds(w)
      PROVE  AskedInv'
    BY <1>15 DEF DrainEnds, Down, OfWorker
<1>16. ASSUME NEW w \in Workers, Crash(w)
      PROVE  AskedInv'
    BY <1>16 DEF Crash, Down, OfWorker
<1>17. ASSUME NEW w \in Workers, Boot(w)
      PROVE  AskedInv'
    BY <1>17 DEF Boot, purge_stale_work_dirs
<1>18. CASE Prune
    BY <1>18 DEF Prune
<1>19. CASE UNCHANGED vars
    BY <1>19 DEF vars
<1> QED
    BY <1>1, <1>2, <1>3, <1>4, <1>5, <1>6, <1>7, <1>8, <1>9, <1>10, <1>11,
       <1>12, <1>13, <1>14, <1>15, <1>16, <1>17, <1>18, <1>19
       DEF Next, TaskStep

-----------------------------------------------------------------------------

(* Attempts under way keep their trees apart. *)
LEMMA OwnTreeStep == TypeInv /\ OwnTree /\ [Next]_vars => OwnTree'
<1> SUFFICES ASSUME TypeInv, OwnTree, [Next]_vars
             PROVE  OwnTree'
    OBVIOUS
<1> USE AttemptsAssumption
        DEF TypeInv, TypeOK, AttemptInv, OwnTree, Live, processes, subs, volume
<1>1. ASSUME NEW t \in Tasks, Handle(t)
      PROVE  OwnTree'
    BY <1>1 DEF Handle, NewToken
<1>2. ASSUME NEW t \in Tasks, StartCopy(t)
      PROVE  OwnTree'
    BY <1>2 DEF StartCopy
<1>3. ASSUME NEW t \in Tasks, SourceMissing(t)
      PROVE  OwnTree'
    BY <1>3 DEF SourceMissing, Ends, CleanUp, Verdict
<1>4. ASSUME NEW t \in Tasks, Copied(t)
      PROVE  OwnTree'
    BY <1>4 DEF Copied
<1>5. ASSUME NEW t \in Tasks, DownloadRaises(t)
      PROVE  OwnTree'
    BY <1>5 DEF DownloadRaises, Ends, CleanUp, Verdict
<1>6. ASSUME NEW t \in Tasks, Spawn(t)
      PROVE  OwnTree'
    BY <1>6 DEF Spawn
<1>7. ASSUME NEW t \in Tasks, Register(t)
      PROVE  OwnTree'
    BY <1>7 DEF Register, SigTerm
<1>8. ASSUME NEW t \in Tasks, Reap(t)
      PROVE  OwnTree'
    BY <1>8 DEF Reap, Ends, CleanUp, Verdict, Outcome
<1>9. ASSUME NEW t \in Tasks, TimesOut(t)
      PROVE  OwnTree'
    BY <1>9 DEF TimesOut, Ends, CleanUp, Verdict
<1>10. ASSUME NEW t \in Tasks, ChildReady(t)
      PROVE  OwnTree'
    BY <1>10 DEF ChildReady
<1>11. ASSUME NEW t \in Tasks, ChildEnds(t)
      PROVE  OwnTree'
    BY <1>11 DEF ChildEnds, ChildExits
<1>12. ASSUME NEW t \in Tasks, Checkpoint(t)
      PROVE  OwnTree'
    BY <1>12 DEF Checkpoint, ChildExits
<1>13. ASSUME NEW w \in Workers, Signal(w)
      PROVE  OwnTree'
    BY <1>13 DEF Signal, SigTerm, OfWorker
<1>14. ASSUME NEW w \in Workers, ForceKill(w)
      PROVE  OwnTree'
    BY <1>14 DEF ForceKill, OfWorker
<1>15. ASSUME NEW w \in Workers, DrainEnds(w)
      PROVE  OwnTree'
    BY <1>15 DEF DrainEnds, Down, OfWorker
<1>16. ASSUME NEW w \in Workers, Crash(w)
      PROVE  OwnTree'
    BY <1>16 DEF Crash, Down, OfWorker
<1>17. ASSUME NEW w \in Workers, Boot(w)
      PROVE  OwnTree'
    BY <1>17 DEF Boot, purge_stale_work_dirs
<1>18. CASE Prune
    BY <1>18 DEF Prune
<1>19. CASE UNCHANGED vars
    BY <1>19 DEF vars
<1> QED
    BY <1>1, <1>2, <1>3, <1>4, <1>5, <1>6, <1>7, <1>8, <1>9, <1>10, <1>11,
       <1>12, <1>13, <1>14, <1>15, <1>16, <1>17, <1>18, <1>19
       DEF Next, TaskStep

-----------------------------------------------------------------------------

(* Registration and abort between them reach every subprocess. *)
LEMMA NoChildEscapesStep == TypeInv /\ NoChildEscapes /\ [Next]_vars => NoChildEscapes'
<1> SUFFICES ASSUME TypeInv, NoChildEscapes, [Next]_vars
             PROVE  NoChildEscapes'
    OBVIOUS
<1> USE AttemptsAssumption
        DEF TypeInv, TypeOK, AttemptInv, NoChildEscapes, Live, processes, subs, volume
<1>1. ASSUME NEW t \in Tasks, Handle(t)
      PROVE  NoChildEscapes'
    BY <1>1 DEF Handle, NewToken
<1>2. ASSUME NEW t \in Tasks, StartCopy(t)
      PROVE  NoChildEscapes'
    BY <1>2 DEF StartCopy
<1>3. ASSUME NEW t \in Tasks, SourceMissing(t)
      PROVE  NoChildEscapes'
    BY <1>3 DEF SourceMissing, Ends, CleanUp, Verdict
<1>4. ASSUME NEW t \in Tasks, Copied(t)
      PROVE  NoChildEscapes'
    BY <1>4 DEF Copied
<1>5. ASSUME NEW t \in Tasks, DownloadRaises(t)
      PROVE  NoChildEscapes'
    BY <1>5 DEF DownloadRaises, Ends, CleanUp, Verdict
<1>6. ASSUME NEW t \in Tasks, Spawn(t)
      PROVE  NoChildEscapes'
    BY <1>6 DEF Spawn
<1>7. ASSUME NEW t \in Tasks, Register(t)
      PROVE  NoChildEscapes'
    BY <1>7 DEF Register, SigTerm
<1>8. ASSUME NEW t \in Tasks, Reap(t)
      PROVE  NoChildEscapes'
    BY <1>8 DEF Reap, Ends, CleanUp, Verdict, Outcome
<1>9. ASSUME NEW t \in Tasks, TimesOut(t)
      PROVE  NoChildEscapes'
    BY <1>9 DEF TimesOut, Ends, CleanUp, Verdict
<1>10. ASSUME NEW t \in Tasks, ChildReady(t)
      PROVE  NoChildEscapes'
    BY <1>10 DEF ChildReady
<1>11. ASSUME NEW t \in Tasks, ChildEnds(t)
      PROVE  NoChildEscapes'
    BY <1>11 DEF ChildEnds, ChildExits
<1>12. ASSUME NEW t \in Tasks, Checkpoint(t)
      PROVE  NoChildEscapes'
    BY <1>12 DEF Checkpoint, ChildExits
<1>13. ASSUME NEW w \in Workers, Signal(w)
      PROVE  NoChildEscapes'
    BY <1>13 DEF Signal, SigTerm, OfWorker
<1>14. ASSUME NEW w \in Workers, ForceKill(w)
      PROVE  NoChildEscapes'
    BY <1>14 DEF ForceKill, OfWorker
<1>15. ASSUME NEW w \in Workers, DrainEnds(w)
      PROVE  NoChildEscapes'
    BY <1>15 DEF DrainEnds, Down, OfWorker
<1>16. ASSUME NEW w \in Workers, Crash(w)
      PROVE  NoChildEscapes'
    BY <1>16 DEF Crash, Down, OfWorker
<1>17. ASSUME NEW w \in Workers, Boot(w)
      PROVE  NoChildEscapes'
    BY <1>17 DEF Boot, purge_stale_work_dirs
<1>18. CASE Prune
    BY <1>18 DEF Prune
<1>19. CASE UNCHANGED vars
    BY <1>19 DEF vars
<1> QED
    BY <1>1, <1>2, <1>3, <1>4, <1>5, <1>6, <1>7, <1>8, <1>9, <1>10, <1>11,
       <1>12, <1>13, <1>14, <1>15, <1>16, <1>17, <1>18, <1>19
       DEF Next, TaskStep

-----------------------------------------------------------------------------

(* A retry is decided while the worker is not stopping, a request to stop  *)
(* is made while the task has no verdict yet.                              *)
LEMMA ShutdownBurnsNoRetryStep == TypeInv /\ AskedInv /\ ShutdownBurnsNoRetry /\ [Next]_vars => ShutdownBurnsNoRetry'
<1> SUFFICES ASSUME TypeInv, AskedInv, ShutdownBurnsNoRetry, [Next]_vars
             PROVE  ShutdownBurnsNoRetry'
    OBVIOUS
<1> USE AttemptsAssumption
        DEF TypeInv, TypeOK, AttemptInv, AskedInv, ShutdownBurnsNoRetry, Live, processes, subs, volume
<1>1. ASSUME NEW t \in Tasks, Handle(t)
      PROVE  ShutdownBurnsNoRetry'
    BY <1>1 DEF Handle, NewToken
<1>2. ASSUME NEW t \in Tasks, StartCopy(t)
      PROVE  ShutdownBurnsNoRetry'
    BY <1>2 DEF StartCopy
<1>3. ASSUME NEW t \in Tasks, SourceMissing(t)
      PROVE  ShutdownBurnsNoRetry'
    BY <1>3 DEF SourceMissing, Ends, CleanUp, Verdict
<1>4. ASSUME NEW t \in Tasks, Copied(t)
      PROVE  ShutdownBurnsNoRetry'
    BY <1>4 DEF Copied
<1>5. ASSUME NEW t \in Tasks, DownloadRaises(t)
      PROVE  ShutdownBurnsNoRetry'
    BY <1>5 DEF DownloadRaises, Ends, CleanUp, Verdict
<1>6. ASSUME NEW t \in Tasks, Spawn(t)
      PROVE  ShutdownBurnsNoRetry'
    BY <1>6 DEF Spawn
<1>7. ASSUME NEW t \in Tasks, Register(t)
      PROVE  ShutdownBurnsNoRetry'
    BY <1>7 DEF Register, SigTerm
<1>8. ASSUME NEW t \in Tasks, Reap(t)
      PROVE  ShutdownBurnsNoRetry'
    BY <1>8 DEF Reap, Ends, CleanUp, Verdict, Outcome
<1>9. ASSUME NEW t \in Tasks, TimesOut(t)
      PROVE  ShutdownBurnsNoRetry'
    BY <1>9 DEF TimesOut, Ends, CleanUp, Verdict
<1>10. ASSUME NEW t \in Tasks, ChildReady(t)
      PROVE  ShutdownBurnsNoRetry'
    BY <1>10 DEF ChildReady
<1>11. ASSUME NEW t \in Tasks, ChildEnds(t)
      PROVE  ShutdownBurnsNoRetry'
    BY <1>11 DEF ChildEnds, ChildExits
<1>12. ASSUME NEW t \in Tasks, Checkpoint(t)
      PROVE  ShutdownBurnsNoRetry'
    BY <1>12 DEF Checkpoint, ChildExits
<1>13. ASSUME NEW w \in Workers, Signal(w)
      PROVE  ShutdownBurnsNoRetry'
    BY <1>13 DEF Signal, SigTerm, OfWorker
<1>14. ASSUME NEW w \in Workers, ForceKill(w)
      PROVE  ShutdownBurnsNoRetry'
    BY <1>14 DEF ForceKill, OfWorker
<1>15. ASSUME NEW w \in Workers, DrainEnds(w)
      PROVE  ShutdownBurnsNoRetry'
    BY <1>15 DEF DrainEnds, Down, OfWorker
<1>16. ASSUME NEW w \in Workers, Crash(w)
      PROVE  ShutdownBurnsNoRetry'
    BY <1>16 DEF Crash, Down, OfWorker
<1>17. ASSUME NEW w \in Workers, Boot(w)
      PROVE  ShutdownBurnsNoRetry'
    BY <1>17 DEF Boot, purge_stale_work_dirs
<1>18. CASE Prune
    BY <1>18 DEF Prune
<1>19. CASE UNCHANGED vars
    BY <1>19 DEF vars
<1> QED
    BY <1>1, <1>2, <1>3, <1>4, <1>5, <1>6, <1>7, <1>8, <1>9, <1>10, <1>11,
       <1>12, <1>13, <1>14, <1>15, <1>16, <1>17, <1>18, <1>19
       DEF Next, TaskStep

-----------------------------------------------------------------------------
(* The theorems. *)

LEMMA HandlerInit == Init => HandlerInv
<1> USE DEF Init, Live
<1>1. Init => TypeOK
    <2> SUFFICES ASSUME Init
                 PROVE  TypeOK
        OBVIOUS
    <2>1. procs = {t \in Tasks : pc[t] = "waiting"}
        OBVIOUS
    <2>2. /\ token \in [Tasks -> 0 .. MaxAttempts]
          /\ attempts \in 0 .. MaxAttempts
        BY AttemptsAssumption
    <2>3. /\ dirs \subseteq 1 .. MaxAttempts /\ files \subseteq dirs
          /\ scratch \subseteq 1 .. MaxAttempts
        OBVIOUS
    <2> QED
        BY <2>1, <2>2, <2>3 DEF TypeOK
<1>2. Init => AttemptInv
    BY DEF AttemptInv
<1>3. Init => AskedInv /\ OwnTree /\ NoChildEscapes /\ ShutdownBurnsNoRetry
    BY DEF AskedInv, OwnTree, NoChildEscapes, ShutdownBurnsNoRetry
<1> QED
    BY <1>1, <1>2, <1>3 DEF HandlerInv, TypeInv

LEMMA HandlerStep == HandlerInv /\ [Next]_vars => HandlerInv'
BY TypeStep, AskedStep, OwnTreeStep, NoChildEscapesStep,
   ShutdownBurnsNoRetryStep DEF HandlerInv

LEMMA HandlerSafe == Spec => []HandlerInv
BY HandlerInit, HandlerStep, PTL DEF Spec

(* Every variable keeps its type; in particular only a waiting task has a  *)
(* subprocess abort can signal.                                            *)
THEOREM TypeCorrect == Spec => []TypeOK
<1>1. HandlerInv => TypeOK
    BY DEF HandlerInv, TypeInv
<1> QED
    BY <1>1, HandlerSafe, PTL

(* While its worker stops, a subprocess whose parent knows it was told to  *)
(* stop: the spawn that races abort leaves none behind.                    *)
THEOREM ChildrenStopped == Spec => []NoChildEscapes
<1>1. HandlerInv => NoChildEscapes
    BY DEF HandlerInv
<1> QED
    BY <1>1, HandlerSafe, PTL

(* The unit of a subprocess that was told to stop is never retried.        *)
THEOREM RetriesKept == Spec => []ShutdownBurnsNoRetry
<1>1. HandlerInv => ShutdownBurnsNoRetry
    BY DEF HandlerInv
<1> QED
    BY <1>1, HandlerSafe, PTL

-----------------------------------------------------------------------------
(* The raw file. *)

LEMMA RawFileStep ==
    ASSUME HandlerInv, [Next]_vars, NEW t \in Tasks,
           pc[t] # "free", pc'[t] # "free", token[t] \in files
    PROVE  token[t] \in files' \/ \E w \in Workers : Boot(w)
<1> USE DEF HandlerInv, TypeInv, processes, subs, volume
<1>1. ASSUME NEW u \in Tasks, pc[u] # "free", NEW outcome, Ends(u, outcome)
      PROVE  token[t] \in files'
    <2>1. pc'[u] = "free"
        BY <1>1 DEF Ends, TypeOK
    <2>2. token[u] # token[t]
        BY <1>1, <2>1 DEF OwnTree
    <2>3. files' = files \ {token[u]}
        BY <1>1 DEF Ends, CleanUp
    <2> QED
        BY <2>2, <2>3
<1>2. ASSUME NEW u \in Tasks, SourceMissing(u) \/ DownloadRaises(u) \/ Reap(u) \/ TimesOut(u)
      PROVE  token[t] \in files'
    BY <1>1, <1>2 DEF SourceMissing, DownloadRaises, Reap, TimesOut
<1>3. ASSUME NEW u \in Tasks,
             Handle(u) \/ StartCopy(u) \/ Copied(u) \/ Spawn(u) \/ Register(u)
             \/ ChildReady(u) \/ ChildEnds(u) \/ Checkpoint(u)
      PROVE  token[t] \in files'
    BY <1>3 DEF Handle, StartCopy, Copied, Spawn, Register, ChildReady,
                ChildEnds, Checkpoint, ChildExits
<1>4. ASSUME NEW w \in Workers,
             Signal(w) \/ ForceKill(w) \/ DrainEnds(w) \/ Crash(w)
      PROVE  token[t] \in files'
    BY <1>4 DEF Signal, ForceKill, DrainEnds, Crash, Down
<1>5. CASE Prune \/ UNCHANGED vars
    BY <1>5 DEF Prune, vars
<1> QED
    BY <1>2, <1>3, <1>4, <1>5 DEF Next, TaskStep

(* Nothing but its own cleanup and the boot of a worker removes the raw    *)
(* file of an attempt under way.                                           *)
THEOREM RawFilesKept == Spec => RawFileOnlyLostToBoot
<1>1. HandlerInv /\ [Next]_vars
        => [\A t \in Tasks :
               pc[t] # "free" /\ pc'[t] # "free" /\ token[t] \in files
                  => token[t] \in files' \/ \E w \in Workers : Boot(w)]_vars
    BY RawFileStep
<1> QED
    BY <1>1, HandlerSafe, PTL DEF Spec, RawFileOnlyLostToBoot
=============================================================================
