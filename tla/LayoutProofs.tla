----------------------------- MODULE LayoutProofs -----------------------------
(***************************************************************************)
(* DashboardLayout for any number of hosts, nodes, namespaces and workloads:  *)
(* no panel covers another, each is under its own row, no line is blank.     *)
(*                                                                         *)
(* The builders append blocks below what is there. So the invariant says     *)
(* where "below" is: under the line y, and while workloads are placed, under  *)
(* the line wy or on it and left of wx.                                      *)
(***************************************************************************)
EXTENDS DashboardLayout, TLAPS

TypeOK ==
    /\ part \in {"hosts", "overview", "sections", "workloads"}
    /\ load \in Nat
    /\ panels \in SUBSET Panels
    /\ pid \in Nat /\ row \in Nat
    /\ y \in Nat /\ wy \in Nat /\ wx \in {0, 6, 12, 18}

\* What has been appended has an extent, is within the grid, and is older than
\* the next panel.
Appended(p) ==
    /\ p.w > 0 /\ p.h > 0 /\ p.x + p.w <= COLUMNS
    /\ p.id < pid /\ p.of <= row /\ row < pid

\* Where the next panel goes is free.
OutOfTheWay(p) ==
    IF part = "workloads"
    THEN p.y + p.h <= wy \/ (p.y = wy /\ p.h = STAT_H /\ p.x + p.w <= wx)
    ELSE p.y + p.h <= y

\* The first line below everything.
FreeLine == IF part = "workloads" THEN PastWorkloads ELSE y

Covered(line, ps) == \E p \in ps : p.y <= line /\ line < p.y + p.h

PlacesOK ==
    /\ row < pid
    /\ part = "workloads" => y <= wy
    /\ \A p \in panels : Appended(p) /\ OutOfTheWay(p)
    /\ \A line \in 0..(FreeLine - 1) : Covered(line, panels)

IInv == TypeOK /\ PlacesOK /\ PanelsApart /\ RowsOwnTheirPanels

-----------------------------------------------------------------------------
(* Appending a block of panels below all others *)

\* A block: panels with ids from "from" to "to" - 1 that are about the row "of"
\* and lie between the lines "top" and "end", without gap or overlap.
Block(ps, from, to, of, top, end) ==
    /\ ps \in SUBSET Panels
    /\ \A p \in ps : /\ p.w > 0 /\ p.h > 0 /\ p.x + p.w <= COLUMNS
                    /\ from <= p.id /\ p.id < to /\ p.of = of
                    /\ top <= p.y /\ p.y + p.h <= end
    /\ \A p, q \in ps : p # q => p.id # q.id /\ Apart(p, q)
    /\ \A line \in top..(end - 1) : Covered(line, ps)

\* A section begins with its row, which is the first of the block's panels.
Headed(ps, from, top) ==
    \A r \in ps : r.id = r.of => r.id = from /\ r.y = top

LEMMA BlockApart ==
    ASSUME IInv, NEW ps, NEW to \in Nat, NEW of \in Nat, NEW top \in Nat, NEW end \in Nat,
           Block(ps, pid, to, of, top, end),
           \A p \in panels : p.y + p.h <= top,
           panels' = panels \cup ps
    PROVE  PanelsApart'
<1>1. ASSUME NEW p \in panels, NEW q \in ps PROVE p.id # q.id /\ Apart(p, q) /\ Apart(q, p)
  <2>1. p \in Panels /\ q \in Panels
    BY DEF IInv, TypeOK, Block
  <2>2. p.id < pid /\ pid <= q.id /\ p.y + p.h <= q.y
    BY <2>1 DEF IInv, PlacesOK, Appended, Block, Panels, TypeOK
  <2> QED BY <2>1, <2>2 DEF Apart, Panels, IInv, TypeOK
<1>2. \A p, q \in ps : p # q => p.id # q.id /\ Apart(p, q)
  BY DEF Block
<1>3. \A p, q \in panels : p # q => p.id # q.id /\ Apart(p, q)
  BY DEF IInv, PanelsApart
<1>4. \A p \in panels \cup ps : p.x + p.w <= COLUMNS
  BY DEF IInv, PanelsApart, Block
<1>5. \A p, q \in panels \cup ps : p # q => p.id # q.id /\ Apart(p, q)
  BY <1>1, <1>2, <1>3
<1> QED BY <1>4, <1>5 DEF PanelsApart

LEMMA BlockRows ==
    ASSUME IInv, NEW ps, NEW to \in Nat, NEW of \in Nat, NEW top \in Nat, NEW end \in Nat,
           Block(ps, pid, to, of, top, end),
           (of = pid /\ Headed(ps, pid, top)) \/ of = row,
           \A p \in panels : p.y + p.h <= top,
           panels' = panels \cup ps
    PROVE  RowsOwnTheirPanels'
<1> DEFINE Owned(p, r) == r.id = r.of => IF r.id <= p.of THEN r.y <= p.y ELSE p.y < r.y
<1> HIDE DEF Owned
<1>1. \A p, r \in panels : Owned(p, r)
  BY DEF Owned, IInv, RowsOwnTheirPanels
<1>2. \A p \in panels : /\ p \in Panels /\ p.id < pid /\ p.of <= row /\ row < pid
                        /\ p.y < top /\ p.y + p.h <= top
  BY DEF IInv, TypeOK, PlacesOK, Appended, Panels
<1>3. \A q \in ps : q \in Panels /\ pid <= q.id /\ q.of = of /\ top <= q.y
  BY DEF Block
<1>4. pid \in Nat /\ row \in Nat
  BY DEF IInv, TypeOK
<1>5. ASSUME NEW p \in ps, NEW r \in panels PROVE Owned(p, r)
  BY <1>2, <1>3, <1>4 DEF Owned, Panels
<1>6. ASSUME NEW p \in panels, NEW r \in ps PROVE Owned(p, r)
  BY <1>2, <1>3, <1>4 DEF Owned, Panels, Headed
<1>7. ASSUME NEW p \in ps, NEW r \in ps PROVE Owned(p, r)
  BY <1>2, <1>3, <1>4, row < pid DEF Owned, Panels, Headed, IInv, PlacesOK
<1>8. \A p, r \in panels \cup ps : Owned(p, r)
  BY <1>1, <1>5, <1>6, <1>7
<1> QED BY <1>8 DEF Owned, RowsOwnTheirPanels

\* The lines above "top" were covered; now those above "end" are.
LEMMA BlockCovers ==
    ASSUME NEW old, NEW ps, NEW top \in Nat, NEW end \in Nat,
           \A line \in 0..(top - 1) : Covered(line, old),
           \A line \in top..(end - 1) : Covered(line, ps)
    PROVE  \A line \in 0..(end - 1) : Covered(line, old \cup ps)
<1> SUFFICES ASSUME NEW line \in 0..(end - 1) PROVE Covered(line, old \cup ps)
  OBVIOUS
<1>1. CASE line < top
  BY <1>1 DEF Covered
<1>2. CASE top <= line
  BY <1>2 DEF Covered
<1> QED BY <1>1, <1>2

\* Where the next panel goes, and the row above it, after a block.
LEMMA BlockPlaces ==
    ASSUME IInv, NEW ps, NEW to \in Nat, NEW of \in Nat, NEW top \in Nat, NEW end \in Nat,
           Block(ps, pid, to, of, top, end), FreeLine = top, top <= end,
           of \in {pid, row}, row' = of,
           \A p \in panels : p.y + p.h <= top,
           panels' = panels \cup ps, pid' = to, pid < to,
           y' = end, part' = "workloads" => wy' = end /\ wx' = 0
    PROVE  PlacesOK'
<1>1. pid \in Nat /\ row \in Nat /\ row < pid /\ row <= of /\ of < to
  BY DEF IInv, PlacesOK, TypeOK
<1>2. ASSUME NEW p \in panels PROVE Appended(p)' /\ OutOfTheWay(p)'
  <2>1. p \in Panels /\ Appended(p) /\ p.y + p.h <= top
    BY DEF IInv, TypeOK, PlacesOK
  <2> QED BY <1>1, <2>1 DEF Appended, OutOfTheWay, Panels
<1>3. ASSUME NEW p \in ps PROVE Appended(p)' /\ OutOfTheWay(p)'
  BY <1>1 DEF Block, Appended, OutOfTheWay, Panels
<1>4. FreeLine' = end
  BY DEF FreeLine, PastWorkloads
<1>5. \A line \in 0..(end - 1) : Covered(line, panels')
  <2>1. \A line \in 0..(top - 1) : Covered(line, panels)
    BY DEF IInv, PlacesOK
  <2>2. \A line \in top..(end - 1) : Covered(line, ps)
    BY DEF Block
  <2> QED BY <2>1, <2>2, BlockCovers
<1> QED BY <1>1, <1>2, <1>3, <1>4, <1>5 DEF PlacesOK

\* All of it.
LEMMA BlockOK ==
    ASSUME IInv, NEW ps, NEW to \in Nat, NEW of \in Nat, NEW top \in Nat, NEW end \in Nat,
           Block(ps, pid, to, of, top, end), FreeLine = top, top <= end,
           (of = pid /\ Headed(ps, pid, top)) \/ of = row, row' = of,
           part = "workloads" => wx = 0 \/ top = wy + STAT_H,
           panels' = panels \cup ps, pid' = to, pid < to,
           y' = end, part' = "workloads" => wy' = end /\ wx' = 0,
           part' \in {"hosts", "overview", "sections", "workloads"}, load' \in Nat,
           wy' \in Nat, wx' \in {0, 6, 12, 18}
    PROVE  IInv'
<1>1. \A p \in panels : p.y + p.h <= top
  <2> SUFFICES ASSUME NEW p \in panels PROVE p.y + p.h <= top
    OBVIOUS
  <2>1. p \in Panels /\ OutOfTheWay(p) /\ p.w > 0
    BY DEF IInv, TypeOK, PlacesOK, Appended
  <2> QED BY <2>1 DEF OutOfTheWay, FreeLine, PastWorkloads, Panels, STAT_H, IInv, TypeOK
<1>2. TypeOK'
  BY DEF IInv, TypeOK, Block
<1>3. PanelsApart'
  BY <1>1, BlockApart
<1>4. RowsOwnTheirPanels'
  BY <1>1, BlockRows
<1>5. PlacesOK'
  BY <1>1, BlockPlaces
<1> QED BY <1>2, <1>3, <1>4, <1>5 DEF IInv

-----------------------------------------------------------------------------
(* The blocks the builders append *)

\* One block on top of another.
LEMMA BlocksJoin ==
    ASSUME NEW ps, NEW qs, NEW from \in Nat, NEW mid \in Nat, NEW to \in Nat, NEW of \in Nat,
           NEW top \in Nat, NEW edge \in Nat, NEW end \in Nat,
           from <= mid, mid <= to, top <= edge, edge <= end,
           Block(ps, from, mid, of, top, edge), Block(qs, mid, to, of, edge, end)
    PROVE  Block(ps \cup qs, from, to, of, top, end)
<1>1. \A p \in ps : p \in Panels /\ p.id < mid /\ p.y + p.h <= edge
  BY DEF Block
<1>2. \A q \in qs : q \in Panels /\ mid <= q.id /\ edge <= q.y
  BY DEF Block
<1>3. ASSUME NEW p \in ps, NEW q \in qs PROVE p.id # q.id /\ Apart(p, q) /\ Apart(q, p)
  BY <1>1, <1>2 DEF Apart, Panels
<1>4. \A p, q \in ps \cup qs : p # q => p.id # q.id /\ Apart(p, q)
  BY <1>3 DEF Block
<1>5. \A p \in ps \cup qs :
        /\ p \in Panels
        /\ p.w > 0 /\ p.h > 0 /\ p.x + p.w <= COLUMNS
        /\ from <= p.id /\ p.id < to /\ p.of = of
        /\ top <= p.y /\ p.y + p.h <= end
  BY DEF Block, Panels
<1>6. ASSUME NEW line \in top..(end - 1) PROVE Covered(line, ps \cup qs)
  <2>1. CASE line < edge
    BY <2>1 DEF Block, Covered
  <2>2. CASE edge <= line
    BY <2>2 DEF Block, Covered
  <2> QED BY <2>1, <2>2
<1> QED BY <1>4, <1>5, <1>6 DEF Block

LEMMA HeadsJoin ==
    ASSUME NEW ps, NEW qs, NEW from \in Nat, NEW mid \in Nat, NEW to \in Nat,
           NEW top \in Nat, NEW edge \in Nat, NEW end \in Nat,
           from < mid, Headed(ps, from, top), Block(qs, mid, to, from, edge, end)
    PROVE  Headed(ps \cup qs, from, top)
  BY DEF Headed, Block, Panels

\* One panel of the full width of the grid.
LEMMA WideBlock ==
    ASSUME NEW id \in Nat, NEW of \in Nat, NEW at \in Nat, NEW h \in Nat, h > 0
    PROVE  Block({[id |-> id, of |-> of, x |-> 0, y |-> at, w |-> COLUMNS, h |-> h]},
                 id, id + 1, of, at, at + h)
<1> DEFINE p == [id |-> id, of |-> of, x |-> 0, y |-> at, w |-> COLUMNS, h |-> h]
<1>1. /\ p \in Panels /\ p.id = id /\ p.of = of /\ p.x = 0 /\ p.y = at
      /\ p.w = COLUMNS /\ p.h = h /\ COLUMNS = 24
  BY DEF Panels, COLUMNS
<1> HIDE DEF p
<1>2. \A line \in at..(at + h - 1) : Covered(line, {p})
  BY <1>1 DEF Covered
<1>3. Block({p}, id, id + 1, of, at, at + h)
  BY <1>1, <1>2 DEF Block
<1> QED BY <1>3 DEF p

LEMMA RowBlock ==
    ASSUME NEW id \in Nat, NEW at \in Nat
    PROVE  /\ Block({Row(id, at)}, id, id + 1, id, at, at + ROW_H)
           /\ Headed({Row(id, at)}, id, at)
           /\ RowPanel(id, at) = Row(id, at)
<1>1. RowPanel(id, at) = Row(id, at)
  BY DEF Row, RowPanel, COLUMNS
<1>2. Headed({Row(id, at)}, id, at)
  BY DEF Headed, Row
<1>3. Block({Row(id, at)}, id, id + 1, id, at, at + ROW_H)
  BY WideBlock DEF Row, ROW_H
<1> QED BY <1>1, <1>2, <1>3

LEMMA TableBlock ==
    ASSUME NEW id \in Nat, NEW of \in Nat, NEW at \in Nat
    PROVE  /\ Block({PodPhaseTable(id, of, at)}, id, id + 1, of, at, at + TABLE_H)
           /\ Block({TopPodsTable(id, of, at)}, id, id + 1, of, at, at + TABLE_H)
           /\ Block({DiskTable(id, of, at)}, id, id + 1, of, at, at + TABLE_H)
  BY WideBlock
     DEF PodPhaseTable, TopPodsTable, DiskTable, FsTable, TABLE_W, TABLE_H, COLUMNS

\* Stats next to each other, as many as fit on a line.
LEMMA StatsBlock ==
    ASSUME NEW n \in 1..4, NEW id \in Nat, NEW of \in Nat, NEW at \in Nat
    PROVE  Block(Stats(n, id, of, at), id, id + n, of, at, at + STAT_H)
<1> DEFINE ps == Stats(n, id, of, at)
<1> USE DEF STAT_W, STAT_H, COLUMNS
<1>1. ASSUME NEW p \in ps
      PROVE  \E i \in 0..(n - 1) : /\ p \in Panels /\ p.id = id + i /\ p.of = of
                                   /\ p.x = i * 6 /\ p.y = at /\ p.w = 6 /\ p.h = 4
  BY DEF Stats, Stat, Panels
<1>2. \A p \in ps : /\ p \in Panels /\ p.w > 0 /\ p.h > 0 /\ p.x + p.w <= COLUMNS
                    /\ id <= p.id /\ p.id < id + n /\ p.of = of
                    /\ at <= p.y /\ p.y + p.h <= at + STAT_H
  BY <1>1
<1>3. ASSUME NEW p \in ps, NEW q \in ps, p # q PROVE p.id # q.id /\ Apart(p, q)
  <2>1. PICK i \in 0..(n - 1) : p = Stat(id + i, of, i * STAT_W, at)
    BY DEF Stats
  <2>2. PICK j \in 0..(n - 1) : q = Stat(id + j, of, j * STAT_W, at)
    BY DEF Stats
  <2>3. i # j
    BY <1>3, <2>1, <2>2
  <2> QED BY <2>1, <2>2, <2>3 DEF Stat, Apart
<1>4. \A line \in at..(at + STAT_H - 1) : Covered(line, ps)
  <2>1. Stat(id + 0, of, 0 * STAT_W, at) \in ps
    BY DEF Stats
  <2>2. PICK p \in ps : p.y = at /\ p.h = 4
    BY <2>1 DEF Stat
  <2> HIDE DEF ps
  <2> QED BY <2>2 DEF Covered
<1> HIDE DEF ps
<1>5. Block(ps, id, id + n, of, at, at + STAT_H)
  BY <1>2, <1>3, <1>4 DEF Block
<1> QED BY <1>5 DEF ps

\* A row and a line of stats below it.
LEMMA RowAndStatsBlock ==
    ASSUME NEW n \in 1..4, NEW id \in Nat, NEW at \in Nat
    PROVE  /\ Block({Row(id, at)} \cup Stats(n, id + 1, id, at + ROW_H),
                    id, id + 1 + n, id, at, at + ROW_H + STAT_H)
           /\ Headed({Row(id, at)} \cup Stats(n, id + 1, id, at + ROW_H), id, at)
<1>1. /\ Block({Row(id, at)}, id, id + 1, id, at, at + ROW_H)
      /\ Headed({Row(id, at)}, id, at)
  BY RowBlock
<1>2. /\ id + 1 \in Nat /\ at + ROW_H \in Nat /\ id + 1 + n \in Nat /\ at + ROW_H + STAT_H \in Nat
      /\ id < id + 1 /\ id + 1 <= id + 1 + n /\ at <= at + ROW_H
      /\ at + ROW_H <= at + ROW_H + STAT_H
  BY DEF ROW_H, STAT_H
<1>3. Block(Stats(n, id + 1, id, at + ROW_H), id + 1, id + 1 + n, id, at + ROW_H,
            at + ROW_H + STAT_H)
  BY <1>2, StatsBlock
<1>4. Headed({Row(id, at)} \cup Stats(n, id + 1, id, at + ROW_H), id, at)
  BY <1>1, <1>2, <1>3, HeadsJoin
<1>5. Block({Row(id, at)} \cup Stats(n, id + 1, id, at + ROW_H),
            id, id + 1 + n, id, at, at + ROW_H + STAT_H)
  BY <1>1, <1>2, <1>3, BlocksJoin
<1> QED BY <1>4, <1>5

-----------------------------------------------------------------------------
(* The steps of the builders *)

LEMMA IInit == Init => IInv
  BY DEF Init, IInv, TypeOK, PlacesOK, PanelsApart, RowsOwnTheirPanels, FreeLine

LEMMA HostSectionOK == ASSUME IInv, HostSection PROVE IInv'
<1> DEFINE head  == {Row(pid, y)} \cup Stats(4, pid + 1, pid, y + ROW_H)
           table == {DiskTable(pid + 5, pid, y + ROW_H + STAT_H)}
<1>1. pid \in Nat /\ y \in Nat
  BY DEF IInv, TypeOK
<1>2. Stats(4, pid + 1, pid, y + ROW_H)
        = {StatPanel(pid + 1 + i, pid, i * STAT_W, y + ROW_H) : i \in 0..3}
  BY DEF Stats, Stat, StatPanel
<1>3. /\ Block(head, pid, pid + 5, pid, y, y + 6) /\ Headed(head, pid, y)
      /\ pid + 5 \in Nat /\ y + 6 \in Nat /\ y + 12 \in Nat /\ pid + 6 \in Nat
      /\ y + ROW_H + STAT_H = y + 6 /\ y + ROW_H + STAT_H + TABLE_H = y + 12
  BY <1>1, RowAndStatsBlock DEF ROW_H, STAT_H, TABLE_H
<1>4. Block(table, pid + 5, pid + 6, pid, y + 6, y + 12)
  <2>1. Block({DiskTable(pid + 5, pid, y + 6)}, pid + 5, pid + 5 + 1, pid, y + 6,
              y + 6 + TABLE_H)
    BY <1>1, <1>3, TableBlock
  <2> QED BY <1>1, <1>3, <2>1 DEF TABLE_H
<1>5. RowPanel(pid, y) = Row(pid, y)
  BY <1>1, RowBlock
<1>6. /\ part = "hosts" /\ part' = part /\ panels' = panels \cup (head \cup table)
      /\ pid' = pid + 6 /\ row' = pid /\ y' = y + 12 /\ UNCHANGED <<load, wx, wy>>
  BY <1>2, <1>3, <1>5 DEF HostSection
<1> HIDE DEF head, table
<1>7. Block(head \cup table, pid, pid + 6, pid, y, y + 12) /\ Headed(head \cup table, pid, y)
  BY <1>1, <1>3, <1>4, BlocksJoin, HeadsJoin
<1> QED BY <1>1, <1>3, <1>6, <1>7, BlockOK DEF FreeLine, IInv, TypeOK

LEMMA OverviewOK == ASSUME IInv, Overview PROVE IInv'
<1> DEFINE head == {Row(pid, y)} \cup Stats(4, pid + 1, pid, y + ROW_H)
           more == Stats(3, pid + 5, pid, y + ROW_H + STAT_H)
<1>1. pid \in Nat /\ y \in Nat
  BY DEF IInv, TypeOK
<1>2. /\ Block(head, pid, pid + 5, pid, y, y + 6) /\ Headed(head, pid, y)
      /\ pid + 5 \in Nat /\ y + 6 \in Nat /\ y + 10 \in Nat /\ pid + 8 \in Nat
      /\ y + ROW_H + STAT_H = y + 6 /\ y + ROW_H + STAT_H + STAT_H = y + 10
  BY <1>1, RowAndStatsBlock DEF ROW_H, STAT_H
<1>3. Block(more, pid + 5, pid + 8, pid, y + 6, y + 10)
  BY <1>1, <1>2, StatsBlock DEF STAT_H
<1>4. /\ part = "overview" /\ part' = "sections" /\ panels' = panels \cup (head \cup more)
      /\ pid' = pid + 8 /\ row' = pid /\ y' = y + 10 /\ UNCHANGED <<load, wx, wy>>
  BY <1>2 DEF Overview
<1> HIDE DEF head, more
<1>5. Block(head \cup more, pid, pid + 8, pid, y, y + 10) /\ Headed(head \cup more, pid, y)
  BY <1>1, <1>2, <1>3, BlocksJoin, HeadsJoin
<1> QED BY <1>1, <1>2, <1>4, <1>5, BlockOK DEF FreeLine, IInv, TypeOK

LEMMA NodeSectionOK == ASSUME IInv, NodeSection PROVE IInv'
<1> DEFINE head == {Row(pid, y)} \cup Stats(4, pid + 1, pid, y + ROW_H)
<1>1. pid \in Nat /\ y \in Nat
  BY DEF IInv, TypeOK
<1>2. /\ Block(head, pid, pid + 5, pid, y, y + 6) /\ Headed(head, pid, y)
      /\ pid + 5 \in Nat /\ y + 6 \in Nat /\ y + ROW_H + STAT_H = y + 6
  BY <1>1, RowAndStatsBlock DEF ROW_H, STAT_H
<1>3. /\ part = "sections" /\ part' = part /\ panels' = panels \cup head
      /\ pid' = pid + 5 /\ row' = pid /\ y' = y + 6 /\ UNCHANGED <<load, wx, wy>>
  BY <1>2 DEF NodeSection
<1> HIDE DEF head
<1> QED BY <1>1, <1>2, <1>3, BlockOK DEF FreeLine, IInv, TypeOK

LEMMA SpaceHeadOK == ASSUME IInv, SpaceHead PROVE IInv'
<1> DEFINE head == {Row(pid, y)} \cup Stats(3, pid + 1, pid, y + ROW_H)
<1>1. pid \in Nat /\ y \in Nat
  BY DEF IInv, TypeOK
<1>2. /\ Block(head, pid, pid + 4, pid, y, y + 6) /\ Headed(head, pid, y)
      /\ pid + 4 \in Nat /\ y + 6 \in Nat /\ y + ROW_H + STAT_H = y + 6
  BY <1>1, RowAndStatsBlock DEF ROW_H, STAT_H
<1>3. /\ part = "sections" /\ part' = "workloads" /\ panels' = panels \cup head
      /\ pid' = pid + 4 /\ row' = pid /\ y' = y + 6 /\ wx' = 0 /\ wy' = y + 6
      /\ load' \in Nat
  BY <1>2, LayoutBounds DEF SpaceHead
<1> HIDE DEF head
<1> QED BY <1>1, <1>2, <1>3, BlockOK DEF FreeLine, IInv, TypeOK

LEMMA SpaceTablesOK == ASSUME IInv, SpaceTables PROVE IInv'
<1> DEFINE at    == PastWorkloads
           pods  == {PodPhaseTable(pid, row, at)}
           tops  == {TopPodsTable(pid + 1, row, at + TABLE_H)}
<1>1. /\ pid \in Nat /\ row \in Nat /\ at \in Nat /\ pid + 1 \in Nat /\ pid + 2 \in Nat
      /\ at + 6 \in Nat /\ at + 12 \in Nat
  BY DEF IInv, TypeOK, PastWorkloads, STAT_H
<1>2. part = "workloads" /\ (wx = 0 \/ at = wy + STAT_H) /\ FreeLine = at
  BY DEF SpaceTables, PastWorkloads, FreeLine, IInv, TypeOK
<1> HIDE DEF at
<1>3. at + TABLE_H = at + 6 /\ at + TABLE_H + TABLE_H = at + 12
  BY <1>1 DEF TABLE_H
<1>4. Block(pods, pid, pid + 1, row, at, at + 6)
  BY <1>1, <1>3, TableBlock
<1>5. Block(tops, pid + 1, pid + 2, row, at + 6, at + 12)
  <2>1. Block({TopPodsTable(pid + 1, row, at + 6)}, pid + 1, pid + 1 + 1, row,
              at + 6, at + 6 + TABLE_H)
    BY <1>1, TableBlock
  <2> QED BY <1>1, <1>3, <2>1
<1>6. /\ part' = "sections" /\ panels' = panels \cup (pods \cup tops)
      /\ pid' = pid + 2 /\ y' = at + 12 /\ UNCHANGED <<load, wx, wy, row>>
  BY <1>3 DEF SpaceTables, at
<1> HIDE DEF pods, tops
<1>7. Block(pods \cup tops, pid, pid + 2, row, at, at + 12)
  BY <1>1, <1>4, <1>5, BlocksJoin
<1> QED BY <1>1, <1>2, <1>6, <1>7, BlockOK DEF IInv, TypeOK

\* A workload goes right of all that is on its line. (No block: the line is not
\* full yet.)
LEMMA PlaceWorkloadOK == ASSUME IInv, PlaceWorkload PROVE IInv'
<1> DEFINE new == Stat(pid, row, wx, wy)
<1> USE DEF STAT_W, STAT_H, COLUMNS
<1>1. /\ pid \in Nat /\ row \in Nat /\ y \in Nat /\ wy \in Nat /\ wx \in {0, 6, 12, 18}
      /\ row < pid /\ y <= wy /\ load \in Nat
      /\ \A p \in panels : p \in Panels /\ Appended(p)
      /\ part = "workloads" /\ part' = part /\ pid' = pid + 1 /\ load' = load - 1 /\ load > 0
      /\ panels' = panels \cup {new} /\ UNCHANGED <<y, row>>
  BY DEF PlaceWorkload, IInv, TypeOK, PlacesOK
<1>2. /\ new \in Panels /\ new.id = pid /\ new.of = row /\ new.x = wx /\ new.y = wy
      /\ new.w = 6 /\ new.h = 4
  BY <1>1 DEF Stat, Panels
<1> HIDE DEF new
<1>3. IF wx = 18 THEN wx' = 0 /\ wy' = wy + 4 ELSE wx' = wx + 6 /\ wy' = wy
  BY <1>1 DEF PlaceWorkload
<1>4. \A p \in panels : p.y + p.h <= wy \/ (p.y = wy /\ p.h = 4 /\ p.x + p.w <= wx)
  BY <1>1 DEF IInv, PlacesOK, OutOfTheWay
<1>5. TypeOK'
  BY <1>1, <1>2, <1>3 DEF IInv, TypeOK
<1>6. PanelsApart'
  <2>1. \A p \in panels : p.id # new.id /\ Apart(p, new) /\ Apart(new, p)
    BY <1>1, <1>2, <1>4 DEF Apart, Appended, Panels
  <2>2. new.x + new.w <= COLUMNS
    BY <1>1, <1>2
  <2> QED BY <1>1, <2>1, <2>2 DEF PanelsApart, IInv
<1>7. RowsOwnTheirPanels'
  <2>1. \A p \in panels : p.y <= wy /\ p.id < pid /\ p.of <= row
    BY <1>1, <1>4 DEF Appended, Panels
  <2>2. ASSUME NEW p \in panels', NEW r \in panels', r.id = r.of
        PROVE  IF r.id <= p.of THEN r.y <= p.y ELSE p.y < r.y
    <3>1. r \in panels
      BY <1>1, <1>2, <2>2
    <3>2. CASE p \in panels
      BY <3>1, <3>2, <2>2 DEF IInv, RowsOwnTheirPanels
    <3>3. CASE p = new
      BY <1>1, <1>2, <2>1, <2>2, <3>1, <3>3 DEF Panels
    <3> QED BY <1>1, <3>2, <3>3
  <2> QED BY <2>2 DEF RowsOwnTheirPanels
<1>8. \A p \in panels' : Appended(p)' /\ OutOfTheWay(p)'
  <2>1. ASSUME NEW p \in panels PROVE Appended(p)' /\ OutOfTheWay(p)'
    <3>1. Appended(p)'
      BY <1>1 DEF Appended, Panels
    <3>2. OutOfTheWay(p)'
      BY <1>1, <1>3, <1>4 DEF OutOfTheWay, Appended, Panels
    <3> QED BY <3>1, <3>2
  <2>2. ASSUME NEW p \in panels', p = new PROVE Appended(p)' /\ OutOfTheWay(p)'
    <3>1. Appended(p)'
      BY <1>1, <1>2, <2>2 DEF Appended
    <3>2. OutOfTheWay(p)'
      BY <1>1, <1>2, <1>3, <2>2 DEF OutOfTheWay
    <3> QED BY <3>1, <3>2
  <2> QED BY <1>1, <2>1, <2>2
<1>9. \A line \in 0..(FreeLine' - 1) : Covered(line, panels')
  <2>1. FreeLine' = wy + 4 /\ (FreeLine = wy \/ FreeLine = wy + 4)
    BY <1>1, <1>3 DEF FreeLine, PastWorkloads
  <2> SUFFICES ASSUME NEW line \in 0..(FreeLine' - 1) PROVE Covered(line, panels')
    OBVIOUS
  <2>2. line \in Int /\ 0 <= line /\ line < wy + 4
    BY <1>1, <2>1
  <2>3. CASE line < wy
    BY <1>1, <2>1, <2>2, <2>3 DEF IInv, PlacesOK, Covered
  <2>4. CASE wy <= line
    <3>1. new \in panels' /\ new.y <= line /\ line < new.y + new.h
      BY <1>1, <1>2, <2>2, <2>4
    <3> QED BY <3>1 DEF Covered
  <2> QED BY <1>1, <2>2, <2>3, <2>4
<1>10. PlacesOK'
  BY <1>1, <1>3, <1>8, <1>9 DEF PlacesOK
<1> QED BY <1>5, <1>6, <1>7, <1>10 DEF IInv

LEMMA INext == IInv /\ [Next]_layout => IInv'
<1> SUFFICES ASSUME IInv, [Next]_layout PROVE IInv'
  OBVIOUS
<1>1. CASE UNCHANGED layout
  BY <1>1 DEF layout, IInv, TypeOK, PlacesOK, Appended, OutOfTheWay, FreeLine, PastWorkloads,
              PanelsApart, RowsOwnTheirPanels
<1> QED BY <1>1, HostSectionOK, OverviewOK, NodeSectionOK, SpaceHeadOK, PlaceWorkloadOK,
           SpaceTablesOK DEF Next

-----------------------------------------------------------------------------
(* The layout of dashboards of any size *)

\* However many hosts, nodes, namespaces and workloads there are and however the
\* workloads wrap: panels have their own ids, lie within the grid, and none covers
\* another.
THEOREM AlwaysApart == Spec => []PanelsApart
  BY IInit, INext, PTL DEF Spec, IInv

\* Every panel is under the row of the host, node or namespace it is about, and
\* above the row of the next.
THEOREM RowsAlwaysOwn == Spec => []RowsOwnTheirPanels
  BY IInit, INext, PTL DEF Spec, IInv

\* No line is left blank, whatever line of workloads ends full.
THEOREM NeverBlank == Spec => []NoBlankLines
<1>1. IInv => NoBlankLines
  <2> SUFFICES ASSUME IInv, NEW line \in 0..(y - 1) PROVE Covered(line, panels)
    BY DEF NoBlankLines, Covered
  <2>1. line \in 0..(FreeLine - 1)
    BY DEF IInv, TypeOK, PlacesOK, FreeLine, PastWorkloads, STAT_H
  <2> QED BY <2>1 DEF IInv, PlacesOK
<1> QED BY <1>1, IInit, INext, PTL DEF Spec
=============================================================================
