----------------------------- MODULE DashboardPair -----------------------------
(***************************************************************************)
(* What a heartbeat of theseus promises about the two files it keeps, for    *)
(* aggroboard and aggrokube alike: the dashboard that Grafana loads, and the  *)
(* sidecar in which the heartbeat remembers what it has put there.           *)
(*                                                                         *)
(* The sidecar only ever records a topology that the dashboard holds whole   *)
(* at that moment, and a dashboard is replaced by the next version of what    *)
(* the sidecar records. A file that is lost or half-written is None.         *)
(***************************************************************************)
EXTENDS Naturals

CONSTANTS
    Topologies,  \* what a dashboard is about
    None         \* no whole file

VARIABLES dashboard, sidecar

files == <<dashboard, sidecar>>

Snapshots == [version : Nat, topology : Topologies]

Version(file) == IF file = None THEN 0 ELSE file.version

Init == dashboard = None /\ sidecar = None

\* A rewrite begins.
TruncateDashboard ==
    /\ dashboard' = None
    /\ UNCHANGED sidecar

WriteDashboard ==
    /\ dashboard = None
    /\ \E topology \in Topologies :
        dashboard' = [version |-> Version(sidecar) + 1, topology |-> topology]
    /\ UNCHANGED sidecar

\* The sidecar is given up only for the dashboard that is to be recorded.
TruncateSidecar ==
    /\ dashboard # None /\ dashboard.version = Version(sidecar) + 1
    /\ sidecar' = None
    /\ UNCHANGED dashboard

Record ==
    /\ dashboard # None /\ sidecar = None
    /\ sidecar' = dashboard
    /\ UNCHANGED dashboard

Next == TruncateDashboard \/ WriteDashboard \/ TruncateSidecar \/ Record

Spec == Init /\ [][Next]_files
=============================================================================
