---------------------------- MODULE AggrokubeProofs ----------------------------
(***************************************************************************)
(* Aggrokube for every cluster and every bound: types, that the dashboard is  *)
(* sound whatever failed or changed between its queries, and that the two      *)
(* files implement DashboardPair.                                          *)
(***************************************************************************)
EXTENDS Aggrokube, TLAPS

\* A workload is seen after its namespace.
Closed(t) == \A w \in t.workloads : SpaceOf[w] \in t.spaces

ViewOK ==
    /\ Closed(view)
    /\ pc \in {"see_spaces", "see_busy"} => view.workloads = {}

\* What is written has nodes, is one version ahead of the sidecar that was read,
\* and goes to the dashboard first.
PlanOK ==
    /\ pc \in Writing =>
          /\ plan \in Snapshots /\ plan.topology.seen.nodes # {}
          /\ Closed(plan.topology.seen)
    /\ pc \in {"open_board", "fill_board", "open_sidecar"} =>
          plan.version = Read(sidecar).version + 1
    /\ pc = "fill_board" => board = None
    /\ pc \in {"open_sidecar", "fill_sidecar"} => board = plan
    /\ pc = "fill_sidecar" => sidecar = None

IInv == TypeOK /\ ViewOK /\ PlanOK /\ BoardIsSound

LEMMA NothingOK == Nothing \in Views /\ Closed(Nothing) /\ Nothing.workloads = {}
  BY DEF Nothing, Views, Closed

\* What is written and what is compared, in whatever order it came.
LEMMA SeenOK ==
    ASSUME view \in Views, NEW order \in Orders
    PROVE  /\ Seen(order) \in Topologies /\ Seen(order).seen = view
           /\ Seen(order).order = SortedOrder
  BY OrdersAssumption DEF Seen, Arranged, Topologies

LEMMA ReadOK == ASSUME TypeOK PROVE Read(sidecar) \in Snapshots
  BY NothingOK, OrdersAssumption DEF TypeOK, Read, Snapshots, Topologies

LEMMA IInit == Init => IInv
  BY NothingOK DEF Init, IInv, TypeOK, Queries, Writing, ViewOK, PlanOK, BoardIsSound

\* A query, whose answer is a part of the truth.
LEMMA SeeOK ==
    ASSUME IInv, SeeNodes \/ SeeSpaces \/ SeeBusy
                    \/ SeeDeployments \/ SeeStatefulSets \/ SeeDaemonSets
    PROVE  IInv'
<1>1. /\ cluster.nodes \subseteq Nodes /\ cluster.spaces \subseteq Spaces
      /\ cluster.busy \subseteq Spaces /\ cluster.workloads \subseteq Workloads
  BY DEF IInv, TypeOK, Clusters
<1>2. faults' \in Nat
  BY DEF IInv, TypeOK, Query, Fails, SeeNodes, SeeSpaces, SeeBusy,
         SeeDeployments, SeeStatefulSets, SeeDaemonSets, SeeWorkloads
<1>3. UNCHANGED <<cluster, plan, board, sidecar, changes>>
  BY DEF SeeNodes, SeeSpaces, SeeBusy, SeeDeployments, SeeStatefulSets, SeeDaemonSets,
         SeeWorkloads
<1>4. view' \in Views /\ ViewOK' /\ pc' \in (Queries \cup {"compare"}) \ {"rest"}
  <2>1. CASE SeeNodes
    <3>1. PICK nodes \in SUBSET cluster.nodes : view' = [Nothing EXCEPT !.nodes = nodes]
      BY <2>1 DEF SeeNodes
    <3>2. view' \in Views /\ Closed(view)' /\ view'.workloads = {}
      BY <1>1, <3>1 DEF Nothing, Views, Closed
    <3> QED BY <2>1, <3>2 DEF SeeNodes, ViewOK, Queries
  <2>2. CASE SeeSpaces \/ SeeBusy
    <3>1. PICK spaces \in SUBSET Spaces : view' = [view EXCEPT !.spaces = Listed(spaces)]
      BY <1>1, <2>2 DEF SeeSpaces, SeeBusy
    <3>2. view \in Views /\ view.workloads = {}
      BY <2>2 DEF IInv, TypeOK, ViewOK, SeeSpaces, SeeBusy
    <3>3. view' \in Views /\ Closed(view)' /\ view'.workloads = {}
      BY <3>1, <3>2 DEF Views, Listed, Closed
    <3> QED BY <2>2, <3>3 DEF SeeSpaces, SeeBusy, ViewOK, Queries
  <2>3. CASE SeeDeployments \/ SeeStatefulSets \/ SeeDaemonSets
    <3>1. PICK found \in SUBSET Workloads :
            view' = [view EXCEPT !.workloads = @ \cup Found(found)]
      BY <1>1, <2>3 DEF SeeDeployments, SeeStatefulSets, SeeDaemonSets, SeeWorkloads
    <3>2. view \in Views /\ Closed(view)
      BY DEF IInv, TypeOK, ViewOK
    <3>3. view' \in Views /\ Closed(view)'
      BY <3>1, <3>2 DEF Views, Found, Closed
    <3>4. pc' \in {"see_statefulsets", "see_daemonsets", "compare"}
      BY <2>3 DEF SeeDeployments, SeeStatefulSets, SeeDaemonSets, SeeWorkloads
    <3> QED BY <3>3, <3>4 DEF ViewOK, Queries
  <2> QED BY <2>1, <2>2, <2>3
<1>5. TypeOK'
  BY <1>2, <1>3, <1>4 DEF IInv, TypeOK
<1>6. PlanOK' /\ BoardIsSound'
  BY <1>3, <1>4 DEF IInv, PlanOK, BoardIsSound, Queries, Writing
<1> QED BY <1>4, <1>5, <1>6 DEF IInv

LEMMA RewriteOK == ASSUME IInv, Rewrite PROVE IInv'
<1>1. PICK order \in Orders :
        /\ ~Skips(order)
        /\ plan' = [version |-> Read(sidecar).version + 1, topology |-> Seen(order)]
  BY DEF Rewrite
<1>2. view \in Views /\ view.nodes # {} /\ Closed(view)
  BY <1>1 DEF IInv, TypeOK, ViewOK, Rewrite, Skips
<1>3. Read(sidecar) \in Snapshots
  BY ReadOK DEF IInv
<1>4. /\ plan' \in Snapshots /\ plan'.topology.seen = view
      /\ plan'.version = Read(sidecar).version + 1
  BY <1>1, <1>2, <1>3, SeenOK DEF Snapshots
<1>5. TypeOK' /\ ViewOK'
  BY <1>4, NothingOK DEF IInv, Rewrite, TypeOK, Writing, ViewOK
<1>6. PlanOK' /\ BoardIsSound'
  BY <1>2, <1>4 DEF IInv, Rewrite, PlanOK, BoardIsSound, Writing, Read
<1> QED BY <1>5, <1>6 DEF IInv

\* The two files are written one after the other.
LEMMA WritesOK ==
    ASSUME IInv, OpenBoard \/ FillBoard \/ OpenSidecar \/ FillSidecar
    PROVE  IInv'
<1>1. pc \in Writing => plan \in Snapshots
  BY DEF IInv, PlanOK
<1>2. TypeOK' /\ ViewOK'
  BY <1>1 DEF IInv, TypeOK, Queries, Writing, ViewOK,
              OpenBoard, FillBoard, OpenSidecar, FillSidecar
<1>3. PlanOK'
  BY NoneAssumption
     DEF IInv, PlanOK, Writing, Read, OpenBoard, FillBoard, OpenSidecar, FillSidecar
<1>4. BoardIsSound'
  BY DEF IInv, PlanOK, BoardIsSound, Writing, Closed,
         OpenBoard, FillBoard, OpenSidecar, FillSidecar
<1> QED BY <1>2, <1>3, <1>4 DEF IInv

LEMMA INext == IInv /\ [Next]_vars => IInv'
<1> SUFFICES ASSUME IInv, [Next]_vars PROVE IInv'
  OBVIOUS
<1>1. CASE SeeNodes \/ SeeSpaces \/ SeeBusy
              \/ SeeDeployments \/ SeeStatefulSets \/ SeeDaemonSets
  BY <1>1, SeeOK
<1>2. CASE Rewrite
  BY <1>2, RewriteOK
<1>3. CASE OpenBoard \/ FillBoard \/ OpenSidecar \/ FillSidecar
  BY <1>3, WritesOK
<1>4. CASE Skip \/ CutShort
  BY <1>4, NothingOK
     DEF Skip, CutShort, Fails, IInv, TypeOK, Queries, Writing, ViewOK, PlanOK, BoardIsSound
<1>5. CASE ClusterChanges
  BY <1>5 DEF ClusterChanges, IInv, TypeOK, ViewOK, PlanOK, BoardIsSound, Closed
<1>6. CASE UNCHANGED vars
  BY <1>6 DEF vars, IInv, TypeOK, ViewOK, PlanOK, BoardIsSound, Closed
<1> QED BY <1>1, <1>2, <1>3, <1>4, <1>5, <1>6 DEF Next, Heartbeat

\* Type correctness: whatever fails, the files never list a system namespace, nor
\* anything that no cluster could have.
THEOREM KubeTypes == Spec => []TypeOK
  BY IInit, INext, PTL DEF Spec, IInv

\* No failed query and no change between two queries leaves a dashboard without
\* nodes, or with a workload whose namespace it does not show.
THEOREM AlwaysSound == Spec => []BoardIsSound
  BY IInit, INext, PTL DEF Spec, IInv

-----------------------------------------------------------------------------
(* The two files implement DashboardPair *)

LEMMA PairStep == IInv /\ [Next]_vars => [Pair!Next]_(Pair!files)
<1> SUFFICES ASSUME IInv, [Next]_vars PROVE [Pair!Next]_(Pair!files)
  OBVIOUS
<1> USE DEF Pair!files
<1>1. CASE UNCHANGED <<board, sidecar>>
  BY <1>1
<1>2. CASE OpenBoard
  BY <1>2 DEF OpenBoard, Pair!Next, Pair!TruncateDashboard
<1>3. CASE FillBoard
  <2>1. /\ board = None /\ UNCHANGED sidecar /\ board' = plan /\ plan \in Snapshots
        /\ plan.version = Read(sidecar).version + 1
    BY <1>3 DEF IInv, FillBoard, PlanOK, Writing
  <2>2. plan = [version |-> plan.version, topology |-> plan.topology]
        /\ plan.topology \in Topologies
    BY <2>1 DEF Snapshots
  <2>3. Pair!WriteDashboard
    BY <2>1, <2>2 DEF Pair!WriteDashboard, Pair!Version, Read
  <2> QED BY <2>3 DEF Pair!Next
<1>4. CASE OpenSidecar
  <2>1. /\ board = plan /\ plan \in Snapshots /\ UNCHANGED board /\ sidecar' = None
        /\ plan.version = Read(sidecar).version + 1
    BY <1>4 DEF IInv, OpenSidecar, PlanOK, Writing
  <2>2. Pair!TruncateSidecar
    BY <2>1, NoneAssumption DEF Pair!TruncateSidecar, Pair!Version, Read
  <2> QED BY <2>2 DEF Pair!Next
<1>5. CASE FillSidecar
  <2>1. /\ board = plan /\ plan \in Snapshots /\ UNCHANGED board
        /\ sidecar = None /\ sidecar' = plan
    BY <1>5 DEF IInv, FillSidecar, PlanOK, Writing
  <2>2. Pair!Record
    BY <2>1, NoneAssumption DEF Pair!Record
  <2> QED BY <2>2 DEF Pair!Next
<1> QED BY <1>1, <1>2, <1>3, <1>4, <1>5
        DEF Next, Heartbeat, SeeNodes, SeeSpaces, SeeBusy, SeeDeployments, SeeStatefulSets,
            SeeDaemonSets, SeeWorkloads, Skip, Rewrite, CutShort, ClusterChanges, vars

\* The heartbeat implements the pair of files, for any cluster and any faults: a
\* sidecar records only what the dashboard holds whole.
THEOREM PairKept == Spec => KeepsPair
<1>1. Init => Pair!Init
  BY DEF Init, Pair!Init
<1> QED BY <1>1, IInit, INext, PairStep, PTL DEF Spec, KeepsPair, Pair!Spec

-----------------------------------------------------------------------------
(* Nothing failing, a rewrite is for something new *)

\* Until something fails the two files are the same whenever none is being written.
SameFiles == faults = 0 /\ pc \in Queries \cup {"compare", "open_board"} => board = sidecar

\* Every list there is has been sorted.
AllSorted ==
    /\ pc \in Writing => plan.topology.order = SortedOrder
    /\ board # None => board.topology.order = SortedOrder
    /\ sidecar # None => sidecar.topology.order = SortedOrder

QuietInv == IInv /\ SameFiles /\ AllSorted

LEMMA SortedNext == IInv /\ AllSorted /\ [Next]_vars => AllSorted'
<1> SUFFICES ASSUME IInv, AllSorted, [Next]_vars PROVE AllSorted'
  OBVIOUS
<1>1. CASE Rewrite
  <2>1. PICK order \in Orders : plan'.topology = Seen(order)
    BY <1>1 DEF Rewrite
  <2>2. plan'.topology.order = SortedOrder
    BY <2>1, SeenOK DEF IInv, TypeOK
  <2> QED BY <1>1, <2>2 DEF Rewrite, AllSorted
<1>2. CASE OpenBoard \/ FillBoard \/ OpenSidecar \/ FillSidecar
  BY <1>2 DEF OpenBoard, FillBoard, OpenSidecar, FillSidecar, AllSorted, Writing
<1>3. CASE SeeNodes \/ SeeSpaces \/ SeeBusy
             \/ SeeDeployments \/ SeeStatefulSets \/ SeeDaemonSets
  BY <1>3 DEF SeeNodes, SeeSpaces, SeeBusy, SeeDeployments, SeeStatefulSets,
              SeeDaemonSets, SeeWorkloads, AllSorted, Writing
<1>4. CASE Skip \/ CutShort \/ ClusterChanges \/ UNCHANGED vars
  BY <1>4 DEF Skip, CutShort, ClusterChanges, vars, AllSorted, Writing
<1> QED BY <1>1, <1>2, <1>3, <1>4 DEF Next, Heartbeat

LEMMA QuietNext == QuietInv /\ [Next]_vars => QuietInv'
<1> SUFFICES ASSUME QuietInv, [Next]_vars, faults' = 0,
                    pc' \in Queries \cup {"compare", "open_board"}
             PROVE  board' = sidecar'
  BY INext, SortedNext DEF QuietInv, SameFiles
<1>1. faults = 0
  BY DEF QuietInv, IInv, TypeOK, Next, Heartbeat, SeeNodes, SeeSpaces, SeeBusy,
         SeeDeployments, SeeStatefulSets, SeeDaemonSets, SeeWorkloads, Query, Fails, Skip,
         Rewrite, OpenBoard, FillBoard, OpenSidecar, FillSidecar, CutShort, ClusterChanges, vars
<1>2. CASE SeeNodes \/ SeeSpaces \/ SeeBusy
             \/ SeeDeployments \/ SeeStatefulSets \/ SeeDaemonSets
  BY <1>1, <1>2 DEF QuietInv, SameFiles, Queries, SeeNodes, SeeSpaces, SeeBusy,
                    SeeDeployments, SeeStatefulSets, SeeDaemonSets, SeeWorkloads
<1>3. CASE Skip \/ Rewrite \/ ClusterChanges \/ UNCHANGED vars
  BY <1>1, <1>3 DEF QuietInv, SameFiles, Queries, Skip, Rewrite, ClusterChanges, vars
<1>4. CASE OpenBoard \/ FillBoard \/ OpenSidecar
  BY <1>4 DEF OpenBoard, FillBoard, OpenSidecar, Queries
<1>5. CASE FillSidecar
  BY <1>5 DEF FillSidecar, QuietInv, IInv, PlanOK
<1>6. CASE CutShort
  BY <1>1, <1>6 DEF CutShort, Fails
<1> QED BY <1>2, <1>3, <1>4, <1>5, <1>6 DEF Next, Heartbeat

\* As long as nothing fails a rewrite changes what the dashboard shows, in whatever
\* order Prometheus lists a cluster and however it changes between two queries: a
\* topology is never written twice in a row. ("topology unchanged, skipping write")
THEOREM RewritesAreNew == Spec => RewritesShowSomethingNew
<1>1. Init => QuietInv
  BY IInit DEF Init, QuietInv, SameFiles, AllSorted, Writing
<1>2. ASSUME QuietInv, [Next]_vars,
             faults = 0, pc = "compare", pc' = "open_board", board # None
      PROVE  plan'.topology.seen # board.topology.seen
  <2>1. Rewrite
    BY <1>2 DEF Next, Heartbeat, SeeNodes, SeeSpaces, SeeBusy, SeeDeployments,
           SeeStatefulSets, SeeDaemonSets, SeeWorkloads, Skip, OpenBoard, FillBoard,
           OpenSidecar, FillSidecar, CutShort, ClusterChanges, vars
  <2>2. board = sidecar
    BY <1>2 DEF QuietInv, SameFiles
  <2>3. PICK order \in Orders :
          ~Skips(order) /\ plan'.topology = Seen(order)
    BY <2>1 DEF Rewrite
  <2>4. Seen(order) # board.topology
    BY <1>2, <2>2, <2>3 DEF Skips, Read
  <2>5. board.topology = [seen |-> board.topology.seen, order |-> SortedOrder]
    BY <1>2 DEF QuietInv, IInv, TypeOK, AllSorted, Snapshots, Topologies
  <2>6. Seen(order) = [seen |-> view, order |-> SortedOrder]
    BY DEF Seen, Arranged
  <2> QED BY <2>3, <2>4, <2>5, <2>6
<1> DEFINE A == faults = 0 /\ pc = "compare" /\ pc' = "open_board" /\ board # None =>
                    plan'.topology.seen # board.topology.seen
<1>3. QuietInv /\ [Next]_vars => [A]_vars
  BY <1>2
<1> QED BY <1>1, <1>3, QuietNext, PTL DEF Spec, RewritesShowSomethingNew

-----------------------------------------------------------------------------
(* What a failure leaves behind *)

\* Whatever fails, two whole files are the same or the dashboard is the one version
\* ahead that was never recorded.
SameOrAhead ==
    board # None /\ sidecar # None =>
        board = sidecar \/ board.version = sidecar.version + 1

FilesInv == QuietInv /\ SameOrAhead

\* A tick that has seen nodes and leaves the dashboard alone leaves one that shows
\* what it saw, unless it follows a write that was cut short, and the cluster is again
\* what the sidecar lists.
OnlyCutsMislead ==
    pc = "compare" /\ view.nodes # {} /\ (\E order \in Orders : Skips(order)) =>
        \/ board # None /\ board.topology.seen = view
        \/ faults > 0 /\ (board = None \/ board.version = sidecar.version + 1)

LEMMA FilesNext == FilesInv /\ [Next]_vars => FilesInv'
<1> SUFFICES ASSUME FilesInv, [Next]_vars PROVE SameOrAhead'
  BY QuietNext DEF FilesInv
<1>1. CASE UNCHANGED <<board, sidecar>>
  BY <1>1 DEF FilesInv, SameOrAhead
<1>2. CASE OpenBoard \/ OpenSidecar
  BY <1>2 DEF OpenBoard, OpenSidecar, SameOrAhead
<1>3. CASE FillBoard
  BY <1>3 DEF FillBoard, FilesInv, QuietInv, IInv, PlanOK, SameOrAhead, Read
<1>4. CASE FillSidecar
  BY <1>4 DEF FillSidecar, FilesInv, QuietInv, IInv, PlanOK, SameOrAhead
<1> QED BY <1>1, <1>2, <1>3, <1>4
        DEF Next, Heartbeat, SeeNodes, SeeSpaces, SeeBusy, SeeDeployments, SeeStatefulSets,
            SeeDaemonSets, SeeWorkloads, Skip, Rewrite, CutShort, ClusterChanges, vars

\* For every cluster and any number of faults, this is the only way in which a
\* dashboard stays behind what a tick saw: failed queries alone never do it, nor does
\* any failure before the latest write that ended. (_tick compares with the sidecar.)
THEOREM OnlyCutsEverMislead == Spec => []OnlyCutsMislead
<1>1. Init => FilesInv
  BY IInit DEF Init, FilesInv, QuietInv, SameFiles, AllSorted, Writing, SameOrAhead
<1>2. ASSUME FilesInv, pc = "compare", view.nodes # {},
             NEW order \in Orders, Skips(order)
      PROVE  \/ board # None /\ board.topology.seen = view
             \/ faults > 0 /\ (board = None \/ board.version = sidecar.version + 1)
  <2>1. sidecar # None /\ sidecar.topology.seen = view
    <3>1. Seen(order) = Read(sidecar).topology /\ Seen(order).seen = view
      BY <1>2, SeenOK DEF Skips, FilesInv, QuietInv, IInv, TypeOK
    <3> QED BY <1>2, <3>1 DEF Read, Nothing
  <2>2. CASE faults = 0
    BY <1>2, <2>1, <2>2 DEF FilesInv, QuietInv, SameFiles
  <2>3. CASE faults # 0
    <3>1. faults > 0
      BY <1>2, <2>3 DEF FilesInv, QuietInv, IInv, TypeOK
    <3> QED BY <1>2, <2>1, <3>1 DEF FilesInv, SameOrAhead
  <2> QED BY <2>2, <2>3
<1>3. FilesInv => OnlyCutsMislead
  BY <1>2 DEF OnlyCutsMislead
<1> QED BY <1>1, <1>3, FilesNext, PTL DEF Spec
=============================================================================
