---------------------------- MODULE MetricsStore ----------------------------
(***************************************************************************)
(* The job_metrics table and those who share it, each statement a          *)
(* transaction of its own (autocommit) unless the code opens one: workers  *)
(* insert, the producer prunes in two statements, the metrics API imports  *)
(* after reading the keys it already has, and exports.                     *)
(*                                                                         *)
(* A job is named by its natural key; what its row says is left out.       *)
(***************************************************************************)
EXTENDS Naturals, FiniteSets, FiniteSetsExt, Functions

CONSTANTS
    Jobs,        \* bound: jobs that finish
    MaxRows,     \* METRICS_MAX_ROWS
    Importers,   \* POST /api/import requests that may overlap
    MaxId        \* bound: rows ever inserted

ASSUME MetricsAssumption == MaxRows \in Nat /\ MaxId \in Nat

VARIABLES
    rows,       \* the table: the job of each id
    recorded,   \* jobs a worker has inserted, or tried to
    cut,        \* the prune between its two statements: the id found, or 0
    backup,     \* jobs of an exported file
    importing,  \* an import: <<>>, or <<the jobs it found missing>>
    overlap     \* whether two imports were ever under way at once

metricsvars == <<rows, recorded, cut, backup, importing, overlap>>

Ids == DOMAIN rows
NewId == IF Ids = {} THEN 1 ELSE Max(Ids) + 1

MetricsInit ==
    /\ rows = [i \in {} |-> 0]
    /\ recorded = {} /\ cut = 0 /\ backup = {}
    /\ importing = [m \in Importers |-> <<>>]
    /\ overlap = FALSE

-----------------------------------------------------------------------------
(* Rows get consecutive ids in the order of the batch, which is that of    *)
(* the file it came in.                                                    *)
Insert(S) ==
    \E batch \in Bijection(NewId .. NewId + Cardinality(S) - 1, S) :
        rows' = [i \in Ids \cup DOMAIN batch |->
                    IF i \in Ids THEN rows[i] ELSE batch[i]]

Fits(n) == NewId + n - 1 <= MaxId

(* A worker's row; a write that fails is logged and forgotten.  Workers    *)
(* insert in any order, whatever order their jobs finished in.             *)
Record(j) ==
    /\ j \notin recorded
    /\ recorded' = recorded \cup {j}
    /\ \/ Fits(1) /\ Insert({j})
       \/ UNCHANGED rows
    /\ UNCHANGED <<cut, backup, importing, overlap>>

(* Mutant: OFFSET max_rows - 1 becomes an id comparison that is off by     *)
(* one, and the last row to keep goes.                                     *)
Doomed_Inclusive == {i \in Ids : i <= cut}

(* DELETE ... WHERE id < cut *)
Doomed == {i \in Ids : i < cut}

(* ORDER BY id DESC LIMIT 1 OFFSET max_rows - 1; without such a row there  *)
(* is nothing to prune.                                                    *)
PruneSelect ==
    /\ cut = 0 /\ MaxRows > 0
    /\ \E i \in Ids : Cardinality({j \in Ids : j > i}) = MaxRows - 1 /\ cut' = i
    /\ UNCHANGED <<rows, recorded, backup, importing, overlap>>

PruneDelete ==
    /\ cut # 0
    /\ rows' = Restrict(rows, Ids \ Doomed)
    /\ cut' = 0
    /\ UNCHANGED <<recorded, backup, importing, overlap>>

-----------------------------------------------------------------------------
(* Backup and restore; a file that is restored was exported from here.     *)

Export ==
    /\ backup' = Range(rows)
    /\ UNCHANGED <<rows, recorded, cut, importing, overlap>>

(* Mutant: the keys of the table are not looked up. *)
Missing_Blind(S) == S

Missing(S) == S \ Range(rows)

Underway == {m \in Importers : importing[m] # <<>>}

(* The keys are read before the transaction that inserts begins. *)
ImportRead(m) ==
    /\ importing[m] = <<>>
    /\ importing' = [importing EXCEPT ![m] = <<Missing(backup)>>]
    /\ overlap' = (overlap \/ Underway # {})
    /\ UNCHANGED <<rows, recorded, cut, backup>>

(* BEGIN, the batch, COMMIT: all of it or, rolled back, nothing. *)
ImportWrite(m) ==
    /\ m \in Underway
    /\ \/ /\ Fits(Cardinality(importing[m][1]))
          /\ Insert(importing[m][1])
       \/ UNCHANGED rows
    /\ importing' = [importing EXCEPT ![m] = <<>>]
    /\ UNCHANGED <<recorded, cut, backup, overlap>>

MetricsNext ==
    \/ \E j \in Jobs : Record(j)
    \/ PruneSelect \/ PruneDelete
    \/ Export
    \/ \E m \in Importers : ImportRead(m) \/ ImportWrite(m)

MetricsSpec == MetricsInit /\ [][MetricsNext]_metricsvars

-----------------------------------------------------------------------------
MetricsTypeOK ==
    /\ rows \in [Ids -> Jobs] /\ Ids \subseteq 1..MaxId
    /\ recorded \subseteq Jobs /\ backup \subseteq Jobs
    /\ cut \in 0..MaxId
    /\ \A m \in Underway : importing[m][1] \subseteq Jobs
    /\ overlap \in BOOLEAN

(* A prune never takes one of the MaxRows newest rows, whatever workers    *)
(* and imports insert between its SELECT and its DELETE.                   *)
PruneKeepsNewest ==
    [][\A i \in Ids \ DOMAIN rows' :
          Cardinality({j \in Ids : j > i}) >= MaxRows]_metricsvars

(* As long as no two imports have overlapped, no job has two rows: what    *)
(* is restored twice, or was pruned in between, is there once.             *)
ImportsAddNoDuplicate ==
    ~overlap => \A i, k \in Ids : rows[i] = rows[k] => i = k
=============================================================================
