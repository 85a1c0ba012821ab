--------------------------- MODULE AggroboardProofs ---------------------------
(***************************************************************************)
(* Aggroboard for every fleet, every set of instance labels and every bound: *)
(* types, and that the sidecar never records what the dashboard was not     *)
(* given. The invariant follows the two files through a write: which one is  *)
(* truncated, which one is already new, and how far the versions are apart.  *)
(***************************************************************************)
EXTENDS Aggroboard, TLAPS

\* A tick is writing a dashboard one version ahead of the sidecar it read; it
\* writes that one into the dashboard first.
PlanOK ==
    /\ pc \in Writing => plan \in Boards
    /\ pc \in {"open_board", "fill_board", "open_sidecar"} =>
          plan.version = Read(sidecar).version + 1
    /\ pc = "fill_board" => board = None
    /\ pc \in {"open_sidecar", "fill_sidecar"} => board = plan
    /\ pc = "fill_sidecar" => sidecar = None

IInv == TypeOK /\ SidecarNeverAhead /\ PlanOK

LEMMA NoneIsNothing ==
    /\ None \notin Names
    /\ \A b \in Boards : b # None
    /\ \A r \in Records : r # None
    /\ \A x \in Entries : x # None
  BY NoneAssumption

LEMMA HostsAreNames == Hosts \subseteq Names
  BY BareAssumption DEF Hosts

LEMMA ReadType ==
    ASSUME NEW file \in Records \cup {None}
    PROVE  Read(file) \in Records
  BY DEF Read, Records, Dicts, NoHosts

LEMMA NewHostsType ==
    ASSUME NEW old \in Dicts, NEW known \in SUBSET Names, NEW last \in Lasts(old, known),
           uid \in Uids \cup {None}
    PROVE  NewHosts(old, known, last) \in Dicts
<1> SUFFICES ASSUME NEW h \in Hosts
             PROVE  (IF last[h] # None
                     THEN [instance |-> last[h], uid |-> IF uid = None THEN FallbackUid ELSE uid]
                     ELSE IF h \in known THEN old[h] ELSE None) \in Entries \cup {None}
  BY DEF NewHosts, Dicts
<1>1. last[h] # None => last[h] \in Names
  BY DEF Lasts
<1>2. old[h] \in Entries \cup {None}
  BY DEF Dicts
<1> QED BY <1>1, <1>2 DEF Entries

LEMMA IInit == Init => IInv
  BY FleetsAssumption
     DEF Init, IInv, TypeOK, PCs, SidecarNeverAhead, PlanOK, Writing

\* A tick, or a failed query, that starts to write.
LEMMA CompareOK ==
    ASSUME IInv, NEW known \in SUBSET Names, Compare(known), fleet' = fleet, faults' \in Nat
    PROVE  IInv'
<1> DEFINE old == Read(sidecar)
<1>1. old \in Records
  BY ReadType DEF IInv, TypeOK
<1>2. PICK last \in Lasts(old.hosts, known) :
        plan' = [version |-> NextVersion(old), hosts |-> NewHosts(old.hosts, known, last),
                 ds |-> uid]
  BY DEF Compare
<1>3. NewHosts(old.hosts, known, last) \in Dicts
  BY <1>1, <1>2, NewHostsType DEF IInv, TypeOK, Records
<1>4. plan' \in Boards /\ plan'.version = old.version + 1
  BY <1>1, <1>2, <1>3 DEF Boards, Records, NextVersion, IInv, TypeOK
<1>5. pc' = "open_board" /\ UNCHANGED <<uid, board, sidecar, changes>>
  BY DEF Compare
<1>6. TypeOK'
  BY <1>4, <1>5 DEF IInv, TypeOK, PCs
<1>7. SidecarNeverAhead'
  BY <1>5 DEF IInv, SidecarNeverAhead
<1>8. PlanOK'
  BY <1>4, <1>5 DEF PlanOK, Writing, PCs, Read
<1> QED BY <1>6, <1>7, <1>8 DEF IInv

\* The two files are written one after the other.
LEMMA WritesOK ==
    ASSUME IInv, OpenBoard \/ FillBoard \/ OpenSidecar \/ FillSidecar
    PROVE  IInv'
<1>1. CASE OpenBoard
  BY <1>1, NoneIsNothing
     DEF IInv, OpenBoard, TypeOK, PCs, SidecarNeverAhead, PlanOK, Writing
<1>2. CASE FillBoard
  <2>1. plan \in Boards /\ plan.version = Read(sidecar).version + 1
    BY <1>2 DEF IInv, FillBoard, PlanOK, Writing, PCs
  <2>2. TypeOK' /\ PlanOK'
    BY <1>2, <2>1 DEF IInv, FillBoard, TypeOK, PlanOK, Writing, PCs, Read
  <2>3. SidecarNeverAhead'
    BY <1>2, <2>1 DEF FillBoard, SidecarNeverAhead, Read
  <2> QED BY <2>2, <2>3 DEF IInv
<1>3. CASE OpenSidecar
  BY <1>3 DEF IInv, OpenSidecar, TypeOK, PCs, SidecarNeverAhead, PlanOK, Writing
<1>4. CASE FillSidecar
  <2>1. plan \in Boards /\ board = plan
    BY <1>4 DEF IInv, FillSidecar, PlanOK, Writing, PCs
  <2>2. sidecar' \in Records /\ sidecar'.version = board.version /\ sidecar'.hosts = board.hosts
    BY <1>4, <2>1 DEF FillSidecar, Boards, Records
  <2>3. TypeOK'
    BY <1>4, <2>2 DEF IInv, FillSidecar, TypeOK, PCs
  <2>4. SidecarNeverAhead'
    BY <1>4, <2>2 DEF FillSidecar, SidecarNeverAhead
  <2>5. PlanOK'
    BY <1>4 DEF FillSidecar, PlanOK, Writing, PCs
  <2> QED BY <2>3, <2>4, <2>5 DEF IInv
<1> QED BY <1>1, <1>2, <1>3, <1>4

\* Starting, failing and crashing leave both files as they are.
LEMMA InterruptionOK ==
    ASSUME IInv, Resolve \/ FailWrite \/ Crash
    PROVE  IInv'
<1>1. UNCHANGED <<board, sidecar>> /\ pc' \in {"boot", "rest"}
  BY DEF Resolve, FailWrite, Crash
<1>2. TypeOK'
  BY DEF IInv, TypeOK, PCs, Resolve, FailWrite, Crash
<1> QED BY <1>1, <1>2 DEF IInv, SidecarNeverAhead, PlanOK, Writing, PCs

LEMMA INext == IInv /\ [Next]_vars => IInv'
<1> SUFFICES ASSUME IInv, [Next]_vars PROVE IInv'
  OBVIOUS
<1>1. CASE Tick
  BY <1>1, CompareOK DEF Tick, Compare, IInv, TypeOK
<1>2. CASE FailedQuery
  BY <1>2, CompareOK DEF FailedQuery, Compare, IInv, TypeOK
<1>3. CASE OpenBoard \/ FillBoard \/ OpenSidecar \/ FillSidecar
  BY <1>3, WritesOK
<1>4. CASE Resolve \/ FailWrite \/ Crash
  BY <1>4, InterruptionOK
<1>5. CASE FleetChanges
  BY <1>5, FleetsAssumption
     DEF FleetChanges, IInv, TypeOK, SidecarNeverAhead, PlanOK, Writing, PCs, Read
<1>6. CASE UNCHANGED vars
  BY <1>6 DEF vars, IInv, TypeOK, SidecarNeverAhead, PlanOK, Read
<1> QED BY <1>1, <1>2, <1>3, <1>4, <1>5, <1>6 DEF Next, Heartbeat, Fault

\* Type correctness: whatever fails or is cut short, each file holds a whole
\* dashboard or sidecar or nothing that parses.
THEOREM BoardTypes == Spec => []TypeOK
  BY IInit, INext, PTL DEF Spec, IInv

\* The order of the two writes of _tick is enough, whatever crashes or fails in
\* between: the sidecar is never ahead of the dashboard.
THEOREM NeverAhead == Spec => []SidecarNeverAhead
  BY IInit, INext, PTL DEF Spec, IInv

-----------------------------------------------------------------------------
(* The two files implement DashboardPair *)

\* A file that is there is there for the pair too.
LEMMA WholeFiles ==
    ASSUME NEW version \in Nat, NEW hosts \in Dicts
    PROVE  [version |-> version, topology |-> hosts] # None
  BY PairAssumption DEF Pair!Snapshots

\* A step of the heartbeat, a fault or a change of the fleet is a step of the pair.
LEMMA PairStep == IInv /\ [Next]_vars => [Pair!Next]_(Pair!files)
<1> SUFFICES ASSUME IInv, [Next]_vars PROVE [Pair!Next]_(Pair!files)
  OBVIOUS
<1> USE DEF Pair!files
<1>1. CASE UNCHANGED <<board, sidecar>>
  BY <1>1
<1>2. CASE OpenBoard
  BY <1>2 DEF OpenBoard, Pair!Next, Pair!TruncateDashboard
<1>3. CASE FillBoard
  <2>1. /\ board = None /\ UNCHANGED sidecar /\ board' = plan /\ plan \in Boards
        /\ plan.version = Read(sidecar).version + 1
    BY <1>3 DEF IInv, FillBoard, PlanOK, Writing, PCs
  <2>2. board' # None /\ board'.hosts \in Dicts
    BY <2>1, NoneIsNothing DEF Boards
  <2>3. sidecar # None => [version |-> sidecar.version, topology |-> sidecar.hosts] # None
    BY WholeFiles DEF IInv, TypeOK, Records
  <2>4. Pair!WriteDashboard
    BY <2>1, <2>2, <2>3 DEF Pair!WriteDashboard, Pair!Version, Read
  <2> QED BY <2>4 DEF Pair!Next
<1>4. CASE OpenSidecar
  <2>1. /\ board = plan /\ plan \in Boards /\ UNCHANGED board /\ sidecar' = None
        /\ plan.version = Read(sidecar).version + 1
    BY <1>4 DEF IInv, OpenSidecar, PlanOK, Writing, PCs
  <2>2. board # None /\ [version |-> board.version, topology |-> board.hosts] # None
    BY <2>1, NoneIsNothing, WholeFiles DEF Boards
  <2>3. sidecar # None => [version |-> sidecar.version, topology |-> sidecar.hosts] # None
    BY WholeFiles DEF IInv, TypeOK, Records
  <2>4. Pair!TruncateSidecar
    BY <2>1, <2>2, <2>3 DEF Pair!TruncateSidecar, Pair!Version, Read
  <2> QED BY <2>4 DEF Pair!Next
<1>5. CASE FillSidecar
  <2>1. /\ board = plan /\ plan \in Boards /\ UNCHANGED board /\ sidecar = None
        /\ sidecar' = [version |-> plan.version, hosts |-> plan.hosts]
    BY <1>5 DEF IInv, FillSidecar, PlanOK, Writing, PCs
  <2>2. /\ board # None /\ sidecar' \in Records
        /\ [version |-> board.version, topology |-> board.hosts] # None
    BY <2>1, NoneIsNothing, WholeFiles DEF Boards, Records
  <2>3. sidecar' # None
    BY <2>2, NoneIsNothing
  <2>4. Pair!Record
    BY <2>1, <2>2, <2>3 DEF Pair!Record
  <2> QED BY <2>4 DEF Pair!Next
<1> QED BY <1>1, <1>2, <1>3, <1>4, <1>5
        DEF Next, Heartbeat, Fault, Resolve, Tick, FailedQuery, Compare, FailWrite, Crash,
            FleetChanges, vars

\* The heartbeat implements the pair of files: whatever crashes or fails, for any
\* fleet, a sidecar records only what the dashboard holds whole.
THEOREM PairKept == Spec => KeepsPair
<1>1. Init => Pair!Init
  BY DEF Init, Pair!Init
<1> QED BY <1>1, IInit, INext, PairStep, PTL DEF Spec, KeepsPair, Pair!Spec

-----------------------------------------------------------------------------
(* Nothing failing, what the dashboard shows is what the sidecar lists *)

\* The entry of a host is for an instance of that host.
OwnEntries(hosts) == \A h \in Hosts : hosts[h] # None => Bare[hosts[h].instance] = h

\* Until something fails the two files list the same hosts whenever none is being
\* written.
SameHosts ==
    faults = 0 /\ pc \in {"boot", "rest", "open_board"} =>
        /\ board = None <=> sidecar = None
        /\ board # None => board.hosts = sidecar.hosts

QuietInv ==
    /\ IInv
    /\ pc \in Writing => OwnEntries(plan.hosts)
    /\ board # None => OwnEntries(board.hosts)
    /\ sidecar # None => OwnEntries(sidecar.hosts)
    /\ SameHosts

LEMMA NewEntries ==
    ASSUME NEW old \in Dicts, NEW known, NEW last \in Lasts(old, known), OwnEntries(old)
    PROVE  OwnEntries(NewHosts(old, known, last))
<1> SUFFICES ASSUME NEW h \in Hosts, NewHosts(old, known, last)[h] # None
             PROVE  Bare[NewHosts(old, known, last)[h].instance] = h
  BY DEF OwnEntries
<1>1. CASE last[h] # None
  <2>1. Bare[last[h]] = h
    BY <1>1 DEF Lasts
  <2>2. NewHosts(old, known, last)[h].instance = last[h]
    BY <1>1 DEF NewHosts
  <2> QED BY <2>1, <2>2
<1>2. CASE last[h] = None
  BY <1>2 DEF NewHosts, OwnEntries
<1> QED BY <1>1, <1>2

LEMMA CompareQuiet ==
    ASSUME QuietInv, NEW known \in SUBSET Names, Compare(known)
    PROVE  OwnEntries(plan'.hosts)
<1> DEFINE old == Read(sidecar)
<1>1. old \in Records /\ old.hosts \in Dicts
  BY ReadType DEF QuietInv, IInv, TypeOK, Records
<1>2. OwnEntries(old.hosts)
  BY DEF QuietInv, Read, OwnEntries, NoHosts
<1>3. PICK last \in Lasts(old.hosts, known) :
        plan' = [version |-> NextVersion(old), hosts |-> NewHosts(old.hosts, known, last),
                 ds |-> uid]
  BY DEF Compare
<1> QED BY <1>1, <1>2, <1>3, NewEntries

LEMMA QuietNext == QuietInv /\ [Next]_vars => QuietInv'
<1> SUFFICES ASSUME QuietInv, [Next]_vars PROVE QuietInv'
  OBVIOUS
<1>1. IInv'
  BY INext DEF QuietInv
<1>2. CASE Tick
  <2>1. OwnEntries(plan'.hosts)
    BY <1>2, CompareQuiet DEF Tick, QuietInv, IInv, TypeOK
  <2> QED BY <1>1, <1>2, <2>1 DEF Tick, Compare, QuietInv, SameHosts, OwnEntries
<1>3. CASE FailedQuery
  <2>1. OwnEntries(plan'.hosts)
    BY <1>3, CompareQuiet DEF FailedQuery
  <2>2. faults' # 0
    BY <1>3 DEF FailedQuery, QuietInv, IInv, TypeOK
  <2> QED BY <1>1, <1>3, <2>1, <2>2 DEF FailedQuery, Compare, QuietInv, SameHosts, OwnEntries
<1>4. CASE OpenBoard \/ FillBoard \/ OpenSidecar
  BY <1>1, <1>4 DEF OpenBoard, FillBoard, OpenSidecar, QuietInv, SameHosts, OwnEntries, Writing, PCs
<1>5. CASE FillSidecar
  <2>1. plan \in Boards /\ board = plan /\ OwnEntries(plan.hosts)
    BY <1>5 DEF QuietInv, IInv, FillSidecar, PlanOK, Writing, PCs
  <2>2. sidecar' = [version |-> plan.version, hosts |-> plan.hosts] /\ sidecar' # None
    BY <1>5, <2>1, NoneIsNothing DEF FillSidecar, Boards, Records
  <2>3. sidecar'.hosts = board.hosts /\ board # None /\ board' = board /\ pc' = "rest"
    BY <1>5, <2>1, <2>2, NoneIsNothing DEF FillSidecar
  <2> QED BY <1>1, <2>1, <2>2, <2>3 DEF QuietInv, SameHosts, OwnEntries, Writing
<1>6. CASE Resolve \/ FleetChanges \/ UNCHANGED vars
  BY <1>1, <1>6 DEF Resolve, FleetChanges, vars, QuietInv, SameHosts, OwnEntries, Writing, PCs
<1>7. CASE FailWrite \/ Crash
  <2>1. faults' # 0 /\ pc' \notin Writing
    BY <1>7 DEF FailWrite, Crash, QuietInv, IInv, TypeOK, Writing
  <2> QED BY <1>1, <1>7, <2>1 DEF FailWrite, Crash, QuietInv, SameHosts, OwnEntries
<1> QED BY <1>2, <1>3, <1>4, <1>5, <1>6, <1>7 DEF Next, Heartbeat, Fault

LEMMA QuietInvariance == Spec => []QuietInv
<1>1. Init => QuietInv
  BY IInit DEF Init, QuietInv, SameHosts, Writing
<1> QED BY <1>1, QuietNext, PTL DEF Spec

\* Where instances are bare host names, the panels of a dashboard query its hosts.
LEMMA ShownAreKeys ==
    ASSUME QuietInv, board # None, \A i \in Names : Bare[i] = i
    PROVE  Shown = Keys(board.hosts)
<1>1. board \in Boards /\ OwnEntries(board.hosts)
  BY DEF QuietInv, IInv, TypeOK
<1>2. ASSUME NEW h \in Keys(board.hosts) PROVE board.hosts[h].instance = h
  <2>1. h \in Hosts /\ board.hosts[h] # None
    BY DEF Keys
  <2>2. board.hosts[h].instance \in Names
    BY <1>1, <2>1 DEF Boards, Dicts, Entries
  <2> QED BY <1>1, <2>1, <2>2 DEF OwnEntries
<1> QED BY <1>2 DEF Shown

\* ... which, until something fails, are those its sidecar lists.
LEMMA ShownIsListed ==
    ASSUME QuietInv, faults = 0, pc = "rest", \A i \in Names : Bare[i] = i
    PROVE  Shown = Keys(Read(sidecar).hosts)
<1>1. CASE board = None
  BY <1>1 DEF QuietInv, SameHosts, Shown, Keys, Read, NoHosts
<1>2. CASE board # None
  BY <1>2, ShownAreKeys DEF QuietInv, SameHosts, Read
<1> QED BY <1>1, <1>2

\* For every fleet of bare host names, and as long as nothing has failed: a tick
\* that does nothing leaves a dashboard that shows the fleet, however the fleet
\* changed during the last write. ("If same - do nothing")
THEOREM SkipsAreSafe ==
    ASSUME \A i \in Names : Bare[i] = i
    PROVE  Spec => []SkipsOnlyIfShown
<1>1. QuietInv => SkipsOnlyIfShown
  BY ShownIsListed DEF SkipsOnlyIfShown, Unchanged
<1>2. Spec => []QuietInv
  BY QuietInvariance
<1> QED BY <1>1, <1>2, PTL

\* ... and a tick that rewrites it does so because it shows another fleet.
THEOREM RewritesAreDue ==
    ASSUME \A i \in Names : Bare[i] = i
    PROVE  Spec => RewritesFollowChanges
<1> DEFINE A == faults' = 0 /\ pc = "rest" /\ pc' = "open_board" => Shown # fleet
<1>1. ASSUME QuietInv, [Next]_vars, faults' = 0, pc = "rest", pc' = "open_board"
      PROVE  Shown # fleet
  <2>1. Tick
    BY <1>1 DEF Next, Heartbeat, Fault, Resolve, OpenBoard, FillBoard, OpenSidecar, FillSidecar,
           FailedQuery, FailWrite, Crash, FleetChanges, vars, QuietInv, IInv, TypeOK
  <2>2. faults = 0 /\ ~Unchanged(fleet)
    BY <1>1, <2>1 DEF Tick, Compare
  <2> QED BY <1>1, <2>2, ShownIsListed DEF Unchanged
<1>2. QuietInv /\ [Next]_vars => [A]_vars
  BY <1>1
<1>3. Spec => []QuietInv
  BY QuietInvariance
<1> QED BY <1>2, <1>3, PTL DEF Spec, RewritesFollowChanges

-----------------------------------------------------------------------------
(* What a failure leaves behind *)

\* A write was cut short before it had recorded what it wrote: a file is truncated,
\* or the dashboard is the one version ahead of its sidecar.
WriteCutShort ==
    faults > 0 /\ (board = None \/ sidecar = None \/ board.version = sidecar.version + 1)

\* A tick that leaves the dashboard alone leaves one that shows the fleet, unless it
\* follows a write that was cut short and the fleet is again what the sidecar lists.
OnlyCutsMislead == pc = "rest" /\ Unchanged(fleet) => Shown = fleet \/ WriteCutShort

\* For every fleet of bare host names and any number of faults, this is the only way
\* in which a dashboard stays wrong: failed queries and crashes between two writes
\* alone never do it, nor does any failure before the latest write that ended.
\* (_tick compares the fleet with the sidecar, never with the dashboard.)
THEOREM OnlyCutsEverMislead ==
    ASSUME \A i \in Names : Bare[i] = i
    PROVE  Spec => []OnlyCutsMislead
<1>1. ASSUME QuietInv, pc = "rest", Unchanged(fleet), ~WriteCutShort
      PROVE  Shown = fleet
  <2>1. CASE faults = 0
    BY <1>1, <2>1, ShownIsListed DEF Unchanged
  <2>2. CASE faults # 0
    <3>1. /\ board # None /\ sidecar # None
          /\ board.version # sidecar.version + 1
      BY <1>1, <2>2 DEF WriteCutShort, QuietInv, IInv, TypeOK
    <3>2. board.hosts = sidecar.hosts
      BY <1>1, <3>1 DEF QuietInv, IInv, SidecarNeverAhead
    <3>3. Shown = Keys(board.hosts)
      BY <1>1, <3>1, ShownAreKeys
    <3> QED BY <1>1, <3>1, <3>2, <3>3 DEF Unchanged, Read
  <2> QED BY <2>1, <2>2
<1>2. QuietInv => OnlyCutsMislead
  BY <1>1 DEF OnlyCutsMislead
<1>3. Spec => []QuietInv
  BY QuietInvariance
<1> QED BY <1>2, <1>3, PTL
=============================================================================
