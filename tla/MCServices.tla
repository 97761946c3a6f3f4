----------------------------- MODULE MCServices -----------------------------
(***************************************************************************)
(* Five small components that share no state, checked side by side: the    *)
(* first state chooses the one that runs, so that the states of the five   *)
(* add up instead of multiplying.  A property of one of them says nothing  *)
(* in the behaviours of the others, in which its state does not move.      *)
(***************************************************************************)
EXTENDS S3Client, QueueTiers, MetricsStore, QueueMonitor, SourceDownload

VARIABLE part   \* the component that runs

vars == <<part, s3vars, tiervars, metricsvars, monitorvars, downloadvars>>
restOfS3 == <<part, tiervars, metricsvars, monitorvars, downloadvars>>
restOfMonitor == <<part, s3vars, tiervars, metricsvars, downloadvars>>

Init ==
    /\ part \in {"s3", "tiers", "store", "monitor", "input"}
    /\ S3Init /\ TiersInit /\ MetricsInit /\ MonitorInit
    /\ IF part = "input" THEN DownloadInit
       ELSE DownloadInit /\ origin = "folder" /\ source = [p \in 1 .. Parts |-> "none"]

Next ==
    \/ part = "s3" /\ S3Next /\ UNCHANGED restOfS3
    \/ /\ part = "tiers" /\ TiersNext
       /\ UNCHANGED <<part, s3vars, metricsvars, monitorvars, downloadvars>>
    \/ /\ part = "store" /\ MetricsNext
       /\ UNCHANGED <<part, s3vars, tiervars, monitorvars, downloadvars>>
    \/ part = "monitor" /\ MonitorNext /\ UNCHANGED restOfMonitor
    \/ /\ part = "input" /\ DownloadNext
       /\ UNCHANGED <<part, s3vars, tiervars, metricsvars, monitorvars>>

Progress(o) == part = "s3" /\ S3Progress(o) /\ UNCHANGED restOfS3

Fairness ==
    /\ \A o \in Heavies \cup Larges : WF_vars(Progress(o))
    /\ WF_vars(part = "monitor" /\ Poll /\ UNCHANGED restOfMonitor)
    /\ WF_vars(part = "monitor" /\ Tick /\ UNCHANGED restOfMonitor)

Spec == Init /\ [][Next]_vars /\ Fairness

-----------------------------------------------------------------------------
(* The monitor recovers, in the behaviours in which it is polled. *)
DepthsComeBack == part = "monitor" => MonitorRecovers
=============================================================================
