--------------------------- MODULE DashboardLayout ---------------------------
(***************************************************************************)
(* Where the panels of the two dashboards go: _build_dashboard_json of       *)
(* aggroboard.py and _build_dashboard of aggrokube.py. Both walk over what    *)
(* there is to show and append panels, carrying along the next panel id and  *)
(* the next free line of Grafana's grid; the cluster's workloads fill lines   *)
(* from left to right and wrap.                                              *)
(*                                                                         *)
(* A step is one pass of a loop. Of a panel its place is kept, and the row    *)
(* it was appended under; titles, queries, thresholds and units are not. The  *)
(* panels are a set: their order in the list is the order of their ids.       *)
(***************************************************************************)
EXTENDS Integers

CONSTANTS
    MaxHosts,  \* bounds, for model checking: hosts of the fleet,
    MaxNodes,  \* nodes and
    MaxSpaces, \* namespaces of the cluster,
    MaxLoad    \* workloads of a namespace

ASSUME LayoutBounds == MaxHosts \in Nat /\ MaxNodes \in Nat /\ MaxSpaces \in Nat /\ MaxLoad \in Nat

VARIABLES
    part,    \* the loop the builder is in
    hosts,   \* hosts of the fleet still to be shown
    nodes,   \* nodes and
    spaces,  \* namespaces of the cluster still to be shown
    load,    \* workloads of the namespace at hand still to be shown
    panels,  \* what has been appended
    pid,     \* panel_id, pid: the next id
    y,       \* the next free line
    wx, wy,  \* workload_x, workload_y: the place of the next workload
    row      \* the id of the row appended last

layout == <<part, hosts, nodes, spaces, load, panels, pid, y, wx, wy, row>>

COLUMNS == 24
STAT_W  == 6
STAT_H  == 4
ROW_H   == 2
TABLE_W == 24    \* DISK_W
TABLE_H == 6     \* DISK_H

Panels == [id : Nat, of : Nat, x : Nat, y : Nat, w : Nat, h : Nat]

Init ==
    /\ \/ part = "hosts" /\ hosts \in 0..MaxHosts /\ nodes = 0 /\ spaces = 0
       \/ part = "overview" /\ hosts = 0 /\ nodes \in 1..MaxNodes /\ spaces \in 0..MaxSpaces
    /\ load = 0 /\ panels = {} /\ pid = 1 /\ row = 0
    /\ y = 0 /\ wx = 0 /\ wy = 0

-----------------------------------------------------------------------------
(* Panels of aggrokube.py *)

Row(id, at) == [id |-> id, of |-> id, x |-> 0, y |-> at, w |-> COLUMNS, h |-> ROW_H]

Stat(id, of, x, at) == [id |-> id, of |-> of, x |-> x, y |-> at, w |-> STAT_W, h |-> STAT_H]

PodPhaseTable(id, of, at) ==
    [id |-> id, of |-> of, x |-> 0, y |-> at, w |-> TABLE_W, h |-> TABLE_H]

TopPodsTable(id, of, at) ==
    [id |-> id, of |-> of, x |-> 0, y |-> at, w |-> TABLE_W, h |-> TABLE_H]

\* n stats next to each other, from the left.
Stats(n, id, of, at) == {Stat(id + i, of, i * STAT_W, at) : i \in 0..(n - 1)}

(* Panels of aggroboard.py *)

RowPanel(id, at) == [id |-> id, of |-> id, x |-> 0, y |-> at, w |-> 24, h |-> ROW_H]

StatPanel(id, of, x, at) ==
    [id |-> id, of |-> of, x |-> x, y |-> at, w |-> STAT_W, h |-> STAT_H]

FsTable(id, of, x, at, w, h) == [id |-> id, of |-> of, x |-> x, y |-> at, w |-> w, h |-> h]

DiskTable(id, of, at) == FsTable(id, of, 0, at, TABLE_W, TABLE_H)

-----------------------------------------------------------------------------
(* The fleet dashboard *)

\* Wrong...: the definition below it with a bug such code could have; nothing uses
\* it but the runs that show which property notices the bug.
WrongHostSection ==
    /\ part = "hosts" /\ hosts > 0
    /\ panels' = panels
            \cup {RowPanel(pid, y)}
            \cup {StatPanel(pid + 1 + i, pid, i * STAT_W, y + ROW_H) : i \in 0..3}
            \cup {DiskTable(pid + 5, pid, y + ROW_H + STAT_H)}
    /\ pid' = pid + 6 /\ row' = pid
    /\ y' = y + ROW_H + STAT_H
    /\ hosts' = hosts - 1
    /\ UNCHANGED <<part, nodes, spaces, load, wx, wy>>

\* A host: its row, CPU, memory, load and uptime, the table of its disks.
HostSection ==
    /\ part = "hosts" /\ hosts > 0
    /\ panels' = panels
            \cup {RowPanel(pid, y)}
            \cup {StatPanel(pid + 1 + i, pid, i * STAT_W, y + ROW_H) : i \in 0..3}
            \cup {DiskTable(pid + 5, pid, y + ROW_H + STAT_H)}
    /\ pid' = pid + 6 /\ row' = pid
    /\ y' = y + ROW_H + STAT_H + TABLE_H
    /\ hosts' = hosts - 1
    /\ UNCHANGED <<part, nodes, spaces, load, wx, wy>>

-----------------------------------------------------------------------------
(* The cluster dashboard *)

\* Four and then three stats about the whole cluster.
Overview ==
    /\ part = "overview"
    /\ panels' = panels
            \cup {Row(pid, y)}
            \cup Stats(4, pid + 1, pid, y + ROW_H)
            \cup Stats(3, pid + 5, pid, y + ROW_H + STAT_H)
    /\ pid' = pid + 8 /\ row' = pid
    /\ y' = y + ROW_H + STAT_H + STAT_H
    /\ part' = "sections"
    /\ UNCHANGED <<hosts, nodes, spaces, load, wx, wy>>

NodeSection ==
    /\ part = "sections" /\ nodes > 0
    /\ panels' = panels \cup {Row(pid, y)} \cup Stats(4, pid + 1, pid, y + ROW_H)
    /\ pid' = pid + 5 /\ row' = pid
    /\ y' = y + ROW_H + STAT_H
    /\ nodes' = nodes - 1
    /\ UNCHANGED <<part, hosts, spaces, load, wx, wy>>

\* The head of a namespace: its row and three stats.
SpaceHead ==
    /\ part = "sections" /\ nodes = 0 /\ spaces > 0
    /\ panels' = panels \cup {Row(pid, y)} \cup Stats(3, pid + 1, pid, y + ROW_H)
    /\ pid' = pid + 4 /\ row' = pid
    /\ y' = y + ROW_H + STAT_H
    /\ wx' = 0 /\ wy' = y + ROW_H + STAT_H
    /\ spaces' = spaces - 1 /\ load' \in 0..MaxLoad
    /\ part' = "workloads"
    /\ UNCHANGED <<hosts, nodes>>

WrongPlaceWorkload ==
    /\ part = "workloads" /\ load > 0
    /\ panels' = panels \cup {Stat(pid, row, wx, wy)}
    /\ pid' = pid + 1
    /\ IF wx + STAT_W > COLUMNS
       THEN wx' = 0 /\ wy' = wy + STAT_H
       ELSE wx' = wx + STAT_W /\ UNCHANGED wy
    /\ load' = load - 1
    /\ UNCHANGED <<part, hosts, nodes, spaces, y, row>>

\* A workload, right of the one before it or, when no other fits, on a new line.
PlaceWorkload ==
    /\ part = "workloads" /\ load > 0
    /\ panels' = panels \cup {Stat(pid, row, wx, wy)}
    /\ pid' = pid + 1
    /\ IF wx + STAT_W + STAT_W > COLUMNS
       THEN wx' = 0 /\ wy' = wy + STAT_H
       ELSE wx' = wx + STAT_W /\ UNCHANGED wy
    /\ load' = load - 1
    /\ UNCHANGED <<part, hosts, nodes, spaces, y, row>>

WrongPastWorkloads == wy + STAT_H

\* The first line below the workloads, of which there may be none.
PastWorkloads == IF wx > 0 THEN wy + STAT_H ELSE wy

\* The namespace's two tables.
SpaceTables ==
    /\ part = "workloads" /\ load = 0
    /\ panels' = panels
            \cup {PodPhaseTable(pid, row, PastWorkloads)}
            \cup {TopPodsTable(pid + 1, row, PastWorkloads + TABLE_H)}
    /\ pid' = pid + 2
    /\ y' = PastWorkloads + TABLE_H + TABLE_H
    /\ part' = "sections"
    /\ UNCHANGED <<hosts, nodes, spaces, load, wx, wy, row>>

Next ==
    \/ HostSection
    \/ Overview \/ NodeSection \/ SpaceHead \/ PlaceWorkload \/ SpaceTables

Spec == Init /\ [][Next]_layout

-----------------------------------------------------------------------------
(* What the layout promises *)

Apart(p, q) ==
    \/ p.x + p.w <= q.x \/ q.x + q.w <= p.x
    \/ p.y + p.h <= q.y \/ q.y + q.h <= p.y

\* However many workloads wrap onto however many lines, no panel covers another
\* or leaves the grid, and none shares its id: Grafana would move or drop it. (The
\* arithmetic on x, y, workload_x, workload_y and pid.)
PanelsApart ==
    /\ \A p \in panels : p.x + p.w <= COLUMNS
    /\ \A p, q \in panels : p # q => p.id # q.id /\ Apart(p, q)

\* Grafana takes a panel to belong to the last row above it. That is the row of
\* the host, node or namespace the panel is about.
RowsOwnTheirPanels ==
    \A p, r \in panels :
        r.id = r.of => IF r.id <= p.of THEN r.y <= p.y ELSE p.y < r.y

\* No line of the grid above the next free one is left blank, not even where the
\* last line of workloads is exactly full or there are no workloads.
NoBlankLines ==
    \A line \in 0..(y - 1) : \E p \in panels : p.y <= line /\ line < p.y + p.h
=============================================================================
