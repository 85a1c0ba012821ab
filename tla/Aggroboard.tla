------------------------------ MODULE Aggroboard ------------------------------
(***************************************************************************)
(* The fleet dashboard writer, aggregator/theseus/aggroboard.py: a heartbeat *)
(* that compares the instances Prometheus knows with a sidecar file and, if  *)
(* they differ, rewrites the Grafana dashboard and then the sidecar.        *)
(*                                                                         *)
(* Both files are written in place (Path.write_text: truncate, then fill),   *)
(* so a crash or a failed write leaves a file that does not parse; a file    *)
(* that is missing or does not parse is None here. The process may crash     *)
(* between any two of the four steps; Prometheus may fail to answer.         *)
(*                                                                         *)
(* The hosts of the sidecar are keyed by host name, Prometheus's instances   *)
(* are "host" or "host:port": the code compares the two sets as they are.    *)
(* A name of either kind is a member of Names, Bare maps it to its host.     *)
(***************************************************************************)
EXTENDS Naturals, FiniteSets

CONSTANTS
    Names,       \* instance labels, the bare host names among them
    Bare,        \* instance.split(":")[0]
    Fleets,      \* sets of instances Prometheus may know
    Uids,        \* UIDs of Grafana's Prometheus datasource
    FallbackUid, \* "prometheus", in links built while the UID is unknown
    None,        \* no entry, no UID, no whole file
    MaxChanges,  \* bound: how often the fleet changes
    MaxFaults,   \* bound: how many queries and writes fail or are cut short
    MaxVersion   \* bound: dashboard versions

ASSUME BareAssumption ==
    Bare \in [Names -> Names] /\ \A i \in Names : Bare[Bare[i]] = Bare[i]
ASSUME FleetsAssumption == Fleets \subseteq SUBSET Names
ASSUME BoundsAssumption == MaxChanges \in Nat /\ MaxFaults \in Nat /\ MaxVersion \in Nat

Hosts   == {Bare[i] : i \in Names}
Entries == [instance : Names, uid : Uids \cup {FallbackUid}]
Dicts   == [Hosts -> Entries \cup {None}]
Boards  == [version : Nat, hosts : Dicts, ds : Uids \cup {None}]
Records == [version : Nat, hosts : Dicts]

\* None is none of the values it stands in for.
ASSUME NoneAssumption == None \notin Names /\ None \notin Boards \cup Records \cup Entries

VARIABLES
    fleet,    \* the instances of up{job=~"node.*"}
    uid,      \* self._ds_uid
    pc,       \* where the heartbeat is
    plan,     \* the dashboard it is writing
    board,    \* aggroboard.json
    sidecar,  \* aggroboard_hosts.json
    changes, faults

vars == <<fleet, uid, pc, plan, board, sidecar, changes, faults>>

PCs == {"boot", "rest", "open_board", "fill_board", "open_sidecar", "fill_sidecar"}

TypeOK ==
    /\ fleet \in SUBSET Names
    /\ uid \in Uids \cup {None}
    /\ pc \in PCs
    /\ plan \in Boards \cup {None}
    /\ board \in Boards \cup {None}
    /\ sidecar \in Records \cup {None}
    /\ changes \in Nat /\ faults \in Nat

NoHosts == [h \in Hosts |-> None]

Init ==
    /\ fleet \in Fleets
    /\ uid = None /\ pc = "boot" /\ plan = None
    /\ board = None /\ sidecar = None
    /\ changes = 0 /\ faults = 0

-----------------------------------------------------------------------------
(* The sidecar *)

\* _read_sidecar: whatever goes wrong, an empty one.
Read(file) == IF file = None THEN [version |-> 0, hosts |-> NoHosts] ELSE file

Keys(hosts) == {h \in Hosts : hosts[h] # None}

\* Wrong...: the definition below with a bug such code could have; nothing uses
\* it but the runs that show which property notices the bug.
WrongUnchangedList(known) == FALSE
WrongUnchangedCount(known) == Cardinality(known) = Cardinality(Keys(Read(sidecar).hosts))

\* The comparison of the tick, with the instances it was told.
Unchanged(known) == known = Keys(Read(sidecar).hosts)

\* Of the instances of a host that are new, the one that set iteration reaches
\* last keeps the host's key.
Lasts(old, known) ==
    {last \in [Hosts -> known \cup {None}] :
        \A h \in Hosts :
            LET new == {i \in known \ Keys(old) : Bare[i] = h}
            IN  IF new = {} THEN last[h] = None ELSE last[h] \in new}

WrongNewHostsUid(old, known, last) ==
    [h \in Hosts |->
        IF last[h] # None THEN [instance |-> last[h], uid |-> uid]
        ELSE IF h \in known THEN old[h] ELSE None]

WrongNewHostsKept(old, known, last) ==
    [h \in Hosts |->
        IF last[h] # None
        THEN [instance |-> last[h], uid |-> IF uid = None THEN FallbackUid ELSE uid]
        ELSE old[h]]

\* Existing entries are kept, new ones get a link, the others are dropped.
NewHosts(old, known, last) ==
    [h \in Hosts |->
        IF last[h] # None
        THEN [instance |-> last[h], uid |-> IF uid = None THEN FallbackUid ELSE uid]
        ELSE IF h \in known THEN old[h] ELSE None]

WrongNextVersion(old) == old.version
NextVersion(old) == old.version + 1

-----------------------------------------------------------------------------
(* The heartbeat *)

\* _resolve_datasource, once, when the process starts.
Resolve ==
    /\ pc = "boot"
    /\ pc' = "rest"
    /\ uid' \in Uids \cup {None}
    /\ UNCHANGED <<fleet, plan, board, sidecar, changes, faults>>

\* The comparison and what follows from it. (No step when nothing changed.)
Compare(known) ==
    /\ pc = "rest"
    /\ ~Unchanged(known)
    /\ LET old == Read(sidecar) IN
        /\ old.version < MaxVersion
        /\ \E last \in Lasts(old.hosts, known) :
            plan' = [version |-> NextVersion(old),
                     hosts   |-> NewHosts(old.hosts, known, last),
                     ds      |-> uid]
    /\ pc' = "open_board"
    /\ UNCHANGED <<fleet, uid, board, sidecar, changes>>

Tick == Compare(fleet) /\ UNCHANGED faults

\* _get_known_instances answers [] when the query fails.
FailedQuery == Compare({}) /\ faults < MaxFaults /\ faults' = faults + 1

WrongOpenBoard ==
    /\ pc = "open_board"
    /\ sidecar' = None /\ pc' = "fill_sidecar"
    /\ UNCHANGED <<fleet, uid, plan, board, changes, faults>>

OpenBoard ==
    /\ pc = "open_board"
    /\ board' = None /\ pc' = "fill_board"
    /\ UNCHANGED <<fleet, uid, plan, sidecar, changes, faults>>

FillBoard ==
    /\ pc = "fill_board"
    /\ board' = plan /\ pc' = "open_sidecar"
    /\ UNCHANGED <<fleet, uid, plan, sidecar, changes, faults>>

OpenSidecar ==
    /\ pc = "open_sidecar"
    /\ sidecar' = None /\ pc' = "fill_sidecar"
    /\ UNCHANGED <<fleet, uid, plan, board, changes, faults>>

FillSidecar ==
    /\ pc = "fill_sidecar"
    /\ sidecar' = [version |-> plan.version, hosts |-> plan.hosts]
    /\ pc' = "rest" /\ plan' = None
    /\ UNCHANGED <<fleet, uid, board, changes, faults>>

Writing == PCs \ {"boot", "rest"}

WrongFailWrite ==
    /\ pc \in Writing
    /\ pc' = "dead" /\ plan' = None
    /\ faults < MaxFaults /\ faults' = faults + 1
    /\ UNCHANGED <<fleet, uid, board, sidecar, changes>>

\* A write raises: the tick is over, the loop sleeps and goes on.
FailWrite ==
    /\ pc \in Writing
    /\ pc' = "rest" /\ plan' = None
    /\ faults < MaxFaults /\ faults' = faults + 1
    /\ UNCHANGED <<fleet, uid, board, sidecar, changes>>

-----------------------------------------------------------------------------
(* The surroundings *)

Crash ==
    /\ pc' = "boot" /\ uid' = None /\ plan' = None
    /\ faults < MaxFaults /\ faults' = faults + 1
    /\ UNCHANGED <<fleet, board, sidecar, changes>>

FleetChanges ==
    /\ changes < MaxChanges /\ changes' = changes + 1
    /\ fleet' \in Fleets \ {fleet}
    /\ UNCHANGED <<uid, pc, plan, board, sidecar, faults>>

Heartbeat == Resolve \/ Tick \/ OpenBoard \/ FillBoard \/ OpenSidecar \/ FillSidecar
Fault     == FailedQuery \/ FailWrite \/ Crash

Next == Heartbeat \/ Fault \/ FleetChanges

Spec == Init /\ [][Next]_vars

\* The loop sleeps for its interval and goes on, whatever a tick raised; nothing
\* has to fail.
FairSpec == Spec /\ WF_vars(Heartbeat)

-----------------------------------------------------------------------------
(* What the dashboard writer promises *)

\* The two files as DashboardPair sees them.
Pair == INSTANCE DashboardPair WITH
    Topologies <- Dicts,
    dashboard  <- IF board = None THEN None
                  ELSE [version |-> board.version, topology |-> board.hosts],
    sidecar    <- IF sidecar = None THEN None
                  ELSE [version |-> sidecar.version, topology |-> sidecar.hosts]

ASSUME PairAssumption == None \notin Pair!Snapshots

\* Whatever crashes or fails in the middle of a write, the two files go through
\* the steps of DashboardPair only. (_tick writes the dashboard, then the sidecar.)
KeepsPair == Pair!Spec

\* The instances the dashboard's panels query.
Shown == IF board = None THEN {} ELSE {board.hosts[h].instance : h \in Keys(board.hosts)}

\* The sidecar never records hosts the dashboard has not been given: where both
\* files are whole they say the same, or the dashboard is the one version ahead
\* that the next tick writes again. (_tick writes the dashboard first.)
SidecarNeverAhead ==
    sidecar # None /\ board # None =>
        \/ board.version = sidecar.version /\ board.hosts = sidecar.hosts
        \/ board.version = sidecar.version + 1

\* Whatever was cut short, once the fleet stays as it is the sidecar comes to
\* list it, and stays so: no unreadable file and no half-written pair stops the
\* heartbeat. (Instances are bare host names here.)
SidecarFollowsFleet == <>[](Keys(Read(sidecar).hosts) = fleet)

\* "If same - do nothing (dashboard stays stable)": where the two files agree, so
\* that no write is to be done again, the dashboard is rewritten only when the fleet
\* is another than the one it shows.
WritesOnlyIfChanged ==
    [][/\ pc = "rest" /\ pc' = "open_board"
       /\ board # None /\ sidecar # None /\ board.hosts = sidecar.hosts
       => Shown # fleet]_vars

\* Whatever the files are, where nothing has failed a rewrite is for another fleet
\* than the one shown. (Instances are bare host names here.)
RewritesFollowChanges ==
    [][faults' = 0 /\ pc = "rest" /\ pc' = "open_board" => Shown # fleet]_vars

\* "If hosts changed - write new aggroboard.json": where nothing has failed, a tick
\* that would leave the dashboard alone leaves one that queries the instances of
\* the fleet, however the fleet changed while the last one was written.
SkipsOnlyIfShown == faults = 0 /\ pc = "rest" /\ Unchanged(fleet) => Shown = fleet

\* With nothing failing, the dashboard comes to show a fleet that stays.
BoardFollowsFleet == [](faults = 0) => <>[](Shown = fleet)
=============================================================================
