------------------------------- MODULE Aggrokube -------------------------------
(***************************************************************************)
(* The cluster dashboard writer, aggregator/theseus/aggrokube.py. A tick asks *)
(* Prometheus for nodes, namespaces and three kinds of workloads, one query   *)
(* after the other, while the cluster goes on changing; each query may fail    *)
(* on its own, and then has no results. What it has seen is compared with the *)
(* sidecar, and the dashboard and the sidecar are rewritten if it differs.    *)
(*                                                                         *)
(* Prometheus lists what it has in any order, and the comparison is one of     *)
(* lists: what was seen is a set here, and the order its lists are in stands   *)
(* beside it. A dashboard is the topology it was built from. The files are None when     *)
(* missing or not parseable, as in Aggroboard.                              *)
(***************************************************************************)
EXTENDS Naturals

CONSTANTS
    Nodes, Spaces, Workloads,
    System,      \* SYSTEM_NAMESPACES
    SpaceOf,     \* the namespace of a workload
    KindOf,      \* its kind
    Orders,      \* orders a tick's lists may be in
    SortedOrder, \* the one that sorted() leaves them in
    None,        \* no whole file, nothing to write
    MaxChanges,  \* bound: how often the cluster changes
    MaxFaults    \* bound: how many queries and writes fail or are cut short

Kinds == {"Deployment", "StatefulSet", "DaemonSet"}

ASSUME SpacesAssumption ==
    /\ System \subseteq Spaces
    /\ SpaceOf \in [Workloads -> Spaces] /\ KindOf \in [Workloads -> Kinds]
ASSUME OrdersAssumption == SortedOrder \in Orders
ASSUME BoundsAssumption == MaxChanges \in Nat /\ MaxFaults \in Nat

\* What kube-state-metrics exports of a cluster: "spaces" are the namespaces with
\* labels, "busy" those that have pods. It may export no namespace's labels at all.
Clusters ==
    {c \in [nodes : SUBSET Nodes, spaces : SUBSET Spaces, busy : SUBSET Spaces,
            workloads : SUBSET Workloads] :
        c.spaces # {} =>
            c.busy \subseteq c.spaces /\ \A w \in c.workloads : SpaceOf[w] \in c.spaces}

\* What a tick makes of it, and what the files list.
Views      == [nodes : SUBSET Nodes, spaces : SUBSET (Spaces \ System),
               workloads : SUBSET Workloads]
Topologies == [seen : Views, order : Orders]
Snapshots  == [version : Nat, topology : Topologies]

ASSUME NoneAssumption == None \notin Snapshots

VARIABLES
    cluster,  \* what Prometheus would answer
    pc,       \* where the heartbeat is
    view,     \* what the tick has seen so far
    plan,     \* the dashboard it is writing
    board,    \* aggrokube.json
    sidecar,  \* aggrokube_state.json
    changes, faults

vars == <<cluster, pc, view, plan, board, sidecar, changes, faults>>

Queries == {"rest", "see_spaces", "see_busy", "see_deployments", "see_statefulsets",
            "see_daemonsets"}
Writing == {"open_board", "fill_board", "open_sidecar", "fill_sidecar"}

TypeOK ==
    /\ cluster \in Clusters
    /\ pc \in Queries \cup Writing \cup {"compare"}
    /\ view \in Views
    /\ plan \in Snapshots \cup {None}
    /\ board \in Snapshots \cup {None}
    /\ sidecar \in Snapshots \cup {None}
    /\ changes \in Nat /\ faults \in Nat

Nothing == [nodes |-> {}, spaces |-> {}, workloads |-> {}]

Init ==
    /\ cluster \in Clusters
    /\ pc = "rest" /\ view = Nothing /\ plan = None
    /\ board = None /\ sidecar = None
    /\ changes = 0 /\ faults = 0

Fails == faults < MaxFaults /\ faults' = faults + 1

-----------------------------------------------------------------------------
(* _discover_cluster *)

\* _query: the results, or none when anything goes wrong.
Query(truth, result) ==
    \/ result = truth /\ UNCHANGED faults
    \/ result = {} /\ Fails

WrongListed(spaces) == spaces
Listed(spaces) == spaces \ System

SeeNodes ==
    /\ pc = "rest"
    /\ \E nodes \in SUBSET cluster.nodes :
        /\ Query(cluster.nodes, nodes)
        /\ view' = [Nothing EXCEPT !.nodes = nodes]
    /\ pc' = "see_spaces"
    /\ UNCHANGED <<cluster, plan, board, sidecar, changes>>

\* kube_namespace_labels; without results the namespaces of the pods are next.
SeeSpaces ==
    /\ pc = "see_spaces"
    /\ \E spaces \in SUBSET cluster.spaces :
        /\ Query(cluster.spaces, spaces)
        /\ view' = [view EXCEPT !.spaces = Listed(spaces)]
        /\ pc' = IF spaces = {} THEN "see_busy" ELSE "see_deployments"
    /\ UNCHANGED <<cluster, plan, board, sidecar, changes>>

SeeBusy ==
    /\ pc = "see_busy"
    /\ \E spaces \in SUBSET cluster.busy :
        /\ Query(cluster.busy, spaces)
        /\ view' = [view EXCEPT !.spaces = Listed(spaces)]
    /\ pc' = "see_deployments"
    /\ UNCHANGED <<cluster, plan, board, sidecar, changes>>

WrongFound(workloads) == workloads

\* Only workloads of the namespaces already seen are listed.
Found(workloads) == {w \in workloads : SpaceOf[w] \in view.spaces}

SeeWorkloads(kind, at, next) ==
    /\ pc = at
    /\ \E found \in SUBSET cluster.workloads :
        /\ Query({w \in cluster.workloads : KindOf[w] = kind}, found)
        /\ view' = [view EXCEPT !.workloads = @ \cup Found(found)]
    /\ pc' = next
    /\ UNCHANGED <<cluster, plan, board, sidecar, changes>>

SeeDeployments  == SeeWorkloads("Deployment", "see_deployments", "see_statefulsets")
SeeStatefulSets == SeeWorkloads("StatefulSet", "see_statefulsets", "see_daemonsets")
SeeDaemonSets   == SeeWorkloads("DaemonSet", "see_daemonsets", "compare")

-----------------------------------------------------------------------------
(* _tick *)

WrongArranged(order) == order

\* Lists that came in some order, sorted: the nodes, the namespaces, the workloads of
\* each namespace and all of them together.
Arranged(order) == SortedOrder

Seen(order) == [seen |-> view, order |-> Arranged(order)]

Read(file) ==
    IF file = None
    THEN [version |-> 0, topology |-> [seen |-> Nothing, order |-> SortedOrder]]
    ELSE file

WrongSkipsGuard(order) == Seen(order) = Read(sidecar).topology
WrongSkipsWorkloads(order) ==
    \/ view.nodes = {}
    \/ LET old == Read(sidecar).topology.seen
       IN  view.nodes = old.nodes /\ view.spaces = old.spaces

\* No nodes, or nothing new.
Skips(order) == view.nodes = {} \/ Seen(order) = Read(sidecar).topology

Skip ==
    /\ pc = "compare" /\ \E order \in Orders : Skips(order)
    /\ pc' = "rest" /\ view' = Nothing
    /\ UNCHANGED <<cluster, plan, board, sidecar, changes, faults>>

WrongRewrite ==
    /\ pc = "compare"
    /\ \E order \in Orders :
        /\ ~Skips(order)
        /\ plan' = [version |-> Read(sidecar).version, topology |-> Seen(order)]
    /\ pc' = "open_board" /\ view' = Nothing
    /\ UNCHANGED <<cluster, board, sidecar, changes, faults>>

Rewrite ==
    /\ pc = "compare"
    /\ \E order \in Orders :
        /\ ~Skips(order)
        /\ plan' = [version |-> Read(sidecar).version + 1, topology |-> Seen(order)]
    /\ pc' = "open_board" /\ view' = Nothing
    /\ UNCHANGED <<cluster, board, sidecar, changes, faults>>

OpenBoard ==
    /\ pc = "open_board"
    /\ board' = None /\ pc' = "fill_board"
    /\ UNCHANGED <<cluster, view, plan, sidecar, changes, faults>>

FillBoard ==
    /\ pc = "fill_board"
    /\ board' = plan /\ pc' = "open_sidecar"
    /\ UNCHANGED <<cluster, view, plan, sidecar, changes, faults>>

OpenSidecar ==
    /\ pc = "open_sidecar"
    /\ sidecar' = None /\ pc' = "fill_sidecar"
    /\ UNCHANGED <<cluster, view, plan, board, changes, faults>>

FillSidecar ==
    /\ pc = "fill_sidecar"
    /\ sidecar' = plan /\ plan' = None /\ pc' = "rest"
    /\ UNCHANGED <<cluster, view, board, changes, faults>>

WrongCutShort ==
    /\ pc \in Writing /\ Fails
    /\ pc' = "dead" /\ view' = Nothing /\ plan' = None
    /\ UNCHANGED <<cluster, board, sidecar, changes>>

\* A write raises, or the process dies anywhere and starts again: either way the
\* files stay as they are and the next thing is a new tick.
CutShort ==
    /\ Fails
    /\ pc' = "rest" /\ view' = Nothing /\ plan' = None
    /\ UNCHANGED <<cluster, board, sidecar, changes>>

ClusterChanges ==
    /\ changes < MaxChanges /\ changes' = changes + 1
    /\ cluster' \in Clusters \ {cluster}
    /\ UNCHANGED <<pc, view, plan, board, sidecar, faults>>

Heartbeat ==
    \/ SeeNodes \/ SeeSpaces \/ SeeBusy
    \/ SeeDeployments \/ SeeStatefulSets \/ SeeDaemonSets
    \/ Skip \/ Rewrite \/ OpenBoard \/ FillBoard \/ OpenSidecar \/ FillSidecar

Next == Heartbeat \/ CutShort \/ ClusterChanges

Spec == Init /\ [][Next]_vars

\* The loop sleeps for its interval and goes on, and every query has a timeout.
FairSpec == Spec /\ WF_vars(Heartbeat)

-----------------------------------------------------------------------------
(* What the dashboard writer promises *)

Pair == INSTANCE DashboardPair WITH dashboard <- board

\* Whatever crashes or fails, the two files go through the steps of
\* DashboardPair only. (_tick writes the dashboard, then the sidecar.)
KeepsPair == Pair!Spec

\* The dashboard of a cluster always has the cluster's nodes: a failed query
\* empties it of everything but them (the guard "if not nodes"). And whatever
\* changed between two queries, each workload it shows is in a namespace it shows.
BoardIsSound ==
    board # None =>
        /\ board.topology.seen.nodes # {}
        /\ \A w \in board.topology.seen.workloads :
                SpaceOf[w] \in board.topology.seen.spaces

\* What a tick sees of a cluster that stays as it is.
WholeView(c) ==
    LET spaces == Listed(IF c.spaces = {} THEN c.busy ELSE c.spaces)
    IN  [nodes |-> c.nodes, spaces |-> spaces,
         workloads |-> {w \in c.workloads : SpaceOf[w] \in spaces}]

\* However its queries straddled the changes of the cluster and whatever failed,
\* once the cluster stays as it is the sidecar comes to list it, unless it has no
\* nodes.
SidecarFollowsCluster ==
    <>[](cluster.nodes # {} => Read(sidecar).topology.seen = WholeView(cluster))

\* "The dashboard re-renders when they change": as long as nothing fails, the
\* dashboard comes to show the cluster, workloads included.
BoardFollowsCluster ==
    <>[](faults = 0 /\ cluster.nodes # {} =>
            board # None /\ board.topology.seen = WholeView(cluster))

\* "Cluster topology unchanged, skipping write": as long as nothing fails, a
\* rewrite changes what the dashboard shows, in whatever order Prometheus lists it.
RewritesShowSomethingNew ==
    [][faults = 0 /\ pc = "compare" /\ pc' = "open_board" /\ board # None =>
            plan'.topology.seen # board.topology.seen]_vars
=============================================================================
