---------------------------- MODULE RegistryStore ----------------------------
(***************************************************************************)
(* The entity table of aggregator/theseus/registry and the pure functions   *)
(* the registry applies to it: the statements of db.py, the classes of      *)
(* lifecycle.py, the fingerprinted links of links.py and the way            *)
(* discovery.py turns the answers of Prometheus into sightings.             *)
(*                                                                         *)
(* A table maps every entity id to its row, or to None when it has none.    *)
(* Data is kept down to what a decision of the code reads: a container's    *)
(* compose_project and compose_service are one value "compose", a link is   *)
(* the arguments it was built from, the log rates of an entity are the time *)
(* "at" which discovery wrote them.                                         *)
(***************************************************************************)
EXTENDS Integers

CONSTANTS
    Nodes,         \* ids "node:<host>"
    Containers,    \* ids "container:<host>/<name>"
    Addrs,         \* values of the label "instance" ("host", "host:9100")
    BareHost,      \* the one that is the bare host name
    Projects,      \* compose projects
    Deploys,       \* what only changes with a redeploy: the builders' source
                   \* and GRAFANA_EXTERNAL_URL
    Uids,          \* UIDs Grafana may give its Prometheus datasource
    FallbackUid,   \* the literal "prometheus", served until the UID is known
    None,          \* no row, no key, no link, no pin
    EphemeralTtl   \* EPHEMERAL_TTL, in ticks of the clock

Ids   == Nodes \cup Containers
Pins  == {"persistent", "ephemeral"}
Times == Nat

Labels      == [instance : Addrs, compose : Projects \cup {None}]
DetailArgs  == [deploy : Deploys, instance : Addrs]
ExploreArgs == [deploy : Deploys, uid : Uids \cup {FallbackUid}, instance : Addrs]
Links       == [detail : DetailArgs \cup {None}, explore : ExploreArgs \cup {None}]
Row         == [labels : Labels, links : Links, log : Times \cup {None},
                lifecycle : Pins \cup {None}, first_seen : Times, last_seen : Times]
Tables      == [Ids -> Row \cup {None}]
Sightings   == [Ids -> Labels \cup {None}]

ASSUME IdsAssumption   == Nodes \cap Containers = {}
ASSUME AddrsAssumption == BareHost \in Addrs
ASSUME NoneAssumption  ==
    /\ None \notin Ids \cup Addrs \cup Projects \cup Deploys \cup Uids \cup Pins
    /\ None \notin Row
    /\ None \notin Labels
    /\ None # "retired"
ASSUME TtlAssumption   == EphemeralTtl \in Nat

EmptyTable == [e \in Ids |-> None]
Nothing    == [e \in Ids |-> None]     \* sightings of an empty scrape
NoLinks    == [detail |-> None, explore |-> None]

-----------------------------------------------------------------------------
(* db.py *)

\* Here and in the other modules, a definition named Wrong... is the one below it
\* with a bug that such code could have; nothing uses it but the runs that show
\* which property notices the bug.
WrongMerge(old, new) == new

\* upsert's  old | new : every sighting carries instance, and carries compose
\* only when docker-inventory reported it.
Merge(old, new) ==
    [instance |-> new.instance,
     compose  |-> IF new.compose = None THEN old.compose ELSE new.compose]

LabelsOf(row, new) == IF row = None THEN new ELSE row.labels

WrongUpsert(row, labels, now) ==
    IF row = None
    THEN [labels |-> labels, links |-> NoLinks, log |-> None,
          lifecycle |-> None, first_seen |-> now, last_seen |-> now]
    ELSE [row EXCEPT !.labels = labels]

\* INSERT .. ON CONFLICT(id) DO UPDATE SET labels, last_seen.
Upsert(row, labels, now) ==
    IF row = None
    THEN [labels |-> labels, links |-> NoLinks, log |-> None,
          lifecycle |-> None, first_seen |-> now, last_seen |-> now]
    ELSE [row EXCEPT !.labels = labels, !.last_seen = now]

\* A run of upserts. The first one of a connection that holds no lock reads its
\* old labels earlier ("base"); the others read them from the table they write.
UpsertAll(table, seen, now, first, base) ==
    [e \in Ids |->
        IF seen[e] = None THEN table[e]
        ELSE Upsert(table[e],
                    Merge(IF e = first THEN base ELSE LabelsOf(table[e], seen[e]), seen[e]),
                    now)]

\* The UPDATEs: no row, nothing to update.
SetLinks(table, e, links) ==
    [table EXCEPT ![e] = IF @ = None THEN None ELSE [@ EXCEPT !.links = links]]

SetLifecycle(table, e, pin) ==
    [table EXCEPT ![e] = IF @ = None THEN None ELSE [@ EXCEPT !.lifecycle = pin]]

Delete(table, gone) == [e \in Ids |-> IF e \in gone THEN None ELSE table[e]]

-----------------------------------------------------------------------------
(* lifecycle.py *)

Classify(e, row) ==
    IF row.lifecycle \in Pins THEN row.lifecycle
    ELSE IF e \in Nodes \/ row.labels.compose # None THEN "persistent"
    ELSE "ephemeral"

Prunable(e, row, now) ==
    /\ Classify(e, row) = "ephemeral"
    /\ now - row.last_seen > EphemeralTtl

\* The rows discovery is about to prune.
Faded(table, now) == {e \in Ids : table[e] # None /\ Prunable(e, table[e], now)}

-----------------------------------------------------------------------------
(* links.py *)

Detail(labels, dep)     == [deploy |-> dep, instance |-> labels.instance]
Explore(labels, dep, u) == [deploy |-> dep, uid |-> u, instance |-> labels.instance]

WrongFp(args) == args.instance

\* The fingerprint covers the builder's source and every argument.
Fp(args) == args

Ensure(link, args) ==
    IF link # None /\ Fp(link) = Fp(args) THEN link ELSE args

EnsureLinks(row, dep, u) ==
    [detail  |-> Ensure(row.links.detail, Detail(row.labels, dep)),
     explore |-> Ensure(row.links.explore, Explore(row.labels, dep, u))]

-----------------------------------------------------------------------------
(* discovery.py *)

\* node_uname_info: the instance of every node that answers.
NodeScrapes == [Nodes -> Addrs \cup {None}]

NodeSightings(scrape) ==
    [e \in Ids |->
        IF e \notin Nodes \/ scrape[e] = None THEN None
        ELSE [instance |-> scrape[e], compose |-> None]]

\* docker_container_info: stopped containers have a row too.
InventoryRow == [running : BOOLEAN, compose : Projects \cup {None}]
Inventories  == [Containers -> InventoryRow \cup {None}]
CAdvisors    == [Containers -> Addrs \cup {None}]

WrongContainerSightings(inv, cadvisor) ==
    [e \in Ids |->
        IF e \notin Containers THEN None
        ELSE IF cadvisor[e] = None /\ (inv[e] = None \/ ~inv[e].running) THEN None
        ELSE [instance |-> cadvisor[e],
              compose  |-> IF inv[e] # None THEN inv[e].compose ELSE None]]

\* A sighting is cAdvisor or a running inventory row; any inventory row of a
\* sighted container adds its compose labels.
ContainerSightings(inv, cadvisor) ==
    [e \in Ids |->
        IF e \notin Containers THEN None
        ELSE IF cadvisor[e] = None /\ (inv[e] = None \/ ~inv[e].running) THEN None
        ELSE [instance |-> IF cadvisor[e] # None THEN cadvisor[e] ELSE BareHost,
              compose  |-> IF inv[e] # None THEN inv[e].compose ELSE None]]

Seen(seen)     == {e \in Ids : seen[e] # None}
Both(s1, s2)   == [e \in Ids |-> IF s1[e] # None THEN s1[e] ELSE s2[e]]

\* _log_rates: when the recording rule has no row at all the snapshots are left
\* alone (unknown stays unknown); else every entity just seen gets its rates.
SetLogs(table, seen, answered, now) ==
    [e \in Ids |->
        IF answered /\ seen[e] # None /\ table[e] # None
        THEN [table[e] EXCEPT !.log = now] ELSE table[e]]
=============================================================================
