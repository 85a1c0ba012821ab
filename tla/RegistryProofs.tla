---------------------------- MODULE RegistryProofs ----------------------------
(***************************************************************************)
(* Proofs about Registry, for any sets of entities, labels, deployments and  *)
(* threads, any EPHEMERAL_TTL and any bound of the clock.                   *)
(*                                                                         *)
(* The invariant has four layers, each proved from the ones before it, and a *)
(* fifth that needs the first only:                                         *)
(*   ThreadsOK       what a thread carries at each point of its handler;    *)
(*   LockDiscipline  who may hold the write lock, and where;                *)
(*   ImageOK         how the holder's image differs from the table;         *)
(*   ClassOK         the compose label the holder's image has not lost;     *)
(*   AnswersOK       the links of the rows a request answers with.          *)
(***************************************************************************)
EXTENDS Registry, TLAPS

DiscoveryPCs == {"idle", "see_nodes", "lock_nodes", "see_containers",
                 "lock_containers", "see_logs", "sweep"}
GetPCs       == {"idle", "build", "store"}
PutPCs       == {"idle", "put_write", "put_reread", "put_build", "put_relink"}

\* A thread t at p with the local variables j.
ThreadOK(t, p, j) ==
    /\ p \in PCs /\ j \in Jobs
    /\ t \in Discoverers => p \in DiscoveryPCs
    /\ t \in Getters => p \in GetPCs
    /\ t \in Putters => p \in PutPCs
    /\ p \in {"lock_nodes", "lock_containers"} => j.id \in Ids /\ j.base \in Labels
    /\ p \in Querying => j.id = None
    /\ p \in {"put_write", "put_reread"} => j.id \in Ids
    /\ p = "store" => j.id \in Ids \ j.left /\ j.rows[j.id] # None
    /\ \A e \in j.left : j.rows[e] # None

ThreadsOK ==
    /\ pc \in [Threads -> PCs] /\ job \in [Threads -> Jobs]
    /\ \A t \in Threads : ThreadOK(t, pc[t], job[t])

TypeInv == TypeOK /\ ThreadsOK

-----------------------------------------------------------------------------
(* The operators of RegistryStore *)

LEMMA NoneIsNothing ==
    /\ \A r \in Row \cup {None} : r # None => r \in Row
    /\ \A r \in Row : r # None
    /\ \A l \in Labels \cup {None} : l # None => l \in Labels
    /\ \A l \in Labels : l # None
    /\ None \notin Ids /\ None \notin Pins
  BY NoneAssumption

LEMMA MergeType ==
    ASSUME NEW old \in Labels, NEW new \in Labels
    PROVE  Merge(old, new) \in Labels
  BY DEF Merge, Labels

LEMMA UpsertType ==
    ASSUME NEW row \in Row \cup {None}, NEW labels \in Labels, NEW now \in Times
    PROVE  Upsert(row, labels, now) \in Row
  <1>1. CASE row = None
    BY <1>1 DEF Upsert, Row, NoLinks, Links, Times
  <1>2. CASE row \in Row
    <2>1. row # None
      BY <1>2, NoneIsNothing
    <2> QED BY <1>2, <2>1 DEF Upsert, Row
  <1> QED BY <1>1, <1>2

LEMMA UpsertAllType ==
    ASSUME NEW table \in Tables, NEW seen \in Sightings, NEW now \in Times,
           NEW first, NEW base,
           first \in Ids => base \in Labels
    PROVE  UpsertAll(table, seen, now, first, base) \in Tables
  <1> SUFFICES ASSUME NEW e \in Ids, seen[e] # None
               PROVE  Upsert(table[e],
                             Merge(IF e = first THEN base ELSE LabelsOf(table[e], seen[e]),
                                   seen[e]),
                             now) \in Row
    BY DEF UpsertAll, Tables
  <1>1. seen[e] \in Labels
    BY NoneIsNothing DEF Sightings
  <1>2. table[e] \in Row \cup {None}
    BY DEF Tables
  <1>3. LabelsOf(table[e], seen[e]) \in Labels
    BY <1>1, <1>2 DEF LabelsOf, Row
  <1>4. Merge(IF e = first THEN base ELSE LabelsOf(table[e], seen[e]), seen[e]) \in Labels
    BY <1>1, <1>3, MergeType
  <1> QED BY <1>2, <1>4, UpsertType

LEMMA SetLinksType ==
    ASSUME NEW table \in Tables, NEW e \in Ids, NEW links \in Links
    PROVE  SetLinks(table, e, links) \in Tables
  <1>1. ASSUME table[e] # None
        PROVE  [table[e] EXCEPT !.links = links] \in Row
    BY <1>1, NoneIsNothing DEF Tables, Row
  <1> QED BY <1>1 DEF SetLinks, Tables

LEMMA SetLifecycleType ==
    ASSUME NEW table \in Tables, NEW e \in Ids, NEW pin \in Pins \cup {None}
    PROVE  SetLifecycle(table, e, pin) \in Tables
  <1>1. ASSUME table[e] # None
        PROVE  [table[e] EXCEPT !.lifecycle = pin] \in Row
    BY <1>1, NoneIsNothing DEF Tables, Row
  <1> QED BY <1>1 DEF SetLifecycle, Tables

LEMMA DeleteType ==
    ASSUME NEW table \in Tables, NEW gone
    PROVE  Delete(table, gone) \in Tables
  BY DEF Delete, Tables

LEMMA SetLogsType ==
    ASSUME NEW table \in Tables, NEW seen, NEW answered, NEW now \in Times
    PROVE  SetLogs(table, seen, answered, now) \in Tables
  <1>1. ASSUME NEW e \in Ids, table[e] # None
        PROVE  [table[e] EXCEPT !.log = now] \in Row
    BY <1>1, NoneIsNothing DEF Tables, Row
  <1> QED BY <1>1 DEF SetLogs, Tables

LEMMA EnsureLinksType ==
    ASSUME NEW row \in Row, NEW dep \in Deploys, NEW u \in Uids \cup {FallbackUid}
    PROVE  EnsureLinks(row, dep, u) \in Links
  <1>1. Detail(row.labels, dep) \in DetailArgs
    BY DEF Detail, DetailArgs, Row, Labels
  <1>2. Explore(row.labels, dep, u) \in ExploreArgs
    BY DEF Explore, ExploreArgs, Row, Labels
  <1>3. row.links \in Links
    BY DEF Row
  <1> QED BY <1>1, <1>2, <1>3 DEF EnsureLinks, Ensure, Links

LEMMA NodeSightingsType ==
    ASSUME NEW scrape \in NodeScrapes
    PROVE  NodeSightings(scrape) \in Sightings
  BY DEF NodeScrapes, NodeSightings, Sightings, Labels, Ids

LEMMA ContainerSightingsType ==
    ASSUME NEW inv \in Inventories, NEW cadvisor \in CAdvisors
    PROVE  ContainerSightings(inv, cadvisor) \in Sightings
  <1> SUFFICES ASSUME NEW e \in Containers
               PROVE  [instance |-> IF cadvisor[e] # None THEN cadvisor[e] ELSE BareHost,
                       compose  |-> IF inv[e] # None THEN inv[e].compose ELSE None] \in Labels
    BY DEF ContainerSightings, Sightings, Ids
  <1>1. inv[e] # None => inv[e].compose \in Projects \cup {None}
    BY DEF Inventories, InventoryRow
  <1>2. cadvisor[e] # None => cadvisor[e] \in Addrs
    BY DEF CAdvisors
  <1> QED BY <1>1, <1>2, AddrsAssumption DEF Labels

LEMMA BothType ==
    ASSUME NEW s1 \in Sightings, NEW s2 \in Sightings
    PROVE  Both(s1, s2) \in Sightings
  BY DEF Both, Sightings

LEMMA EmptyTypes ==
    EmptyTable \in Tables /\ Nothing \in Sightings /\ Blank \in Jobs
  <1>1. EmptyTable \in Tables /\ Nothing \in Sightings
    BY DEF EmptyTable, Nothing, Tables, Sightings
  <1> QED BY <1>1 DEF Blank, Jobs, Times, Wants

-----------------------------------------------------------------------------
(* Layer 1: the threads *)

LEMMA BlankOK ==
    ASSUME NEW t \in Threads
    PROVE  ThreadOK(t, "idle", Blank)
  BY EmptyTypes DEF ThreadOK, PCs, DiscoveryPCs, GetPCs, PutPCs, Querying, Blank

LEMMA ThreadsInit == Init => ThreadsOK
  BY BlankOK, EmptyTypes DEF Init, ThreadsOK, PCs

LEMMA GotoOK ==
    ASSUME ThreadsOK, NEW t \in Threads, NEW to, NEW with,
           ThreadOK(t, to, with), Goto(t, to, with)
    PROVE  ThreadsOK'
  <1>1. to \in PCs /\ with \in Jobs
    BY DEF ThreadOK
  <1>2. pc' \in [Threads -> PCs] /\ job' \in [Threads -> Jobs]
    BY <1>1 DEF ThreadsOK, Goto
  <1>3. ASSUME NEW u \in Threads
        PROVE  ThreadOK(u, pc'[u], job'[u])
    <2>1. CASE u = t
      <3>1. pc'[u] = to /\ job'[u] = with
        BY <2>1 DEF ThreadsOK, Goto
      <3> QED BY <2>1, <3>1
    <2>2. CASE u # t
      <3>1. pc'[u] = pc[u] /\ job'[u] = job[u]
        BY <2>2 DEF ThreadsOK, Goto
      <3> QED BY <3>1 DEF ThreadsOK
    <2> QED BY <2>1, <2>2
  <1> QED BY <1>2, <1>3 DEF ThreadsOK

\* What is known of a thread about to move.
LEMMA ThreadFacts ==
    ASSUME ThreadsOK, NEW t \in Threads
    PROVE  /\ ThreadOK(t, pc[t], job[t])
           /\ job[t] \in Jobs
           /\ job[t].now \in Times /\ job[t].seen \in Sightings
           /\ job[t].rows \in Tables /\ job[t].left \subseteq Ids
           /\ job[t].want \in Wants
  BY DEF ThreadsOK, ThreadOK, Jobs

LEMMA IdleOK ==
    ASSUME ThreadsOK, NEW t \in Threads, Goto(t, "idle", Blank)
    PROVE  ThreadsOK'
  BY BlankOK, GotoOK

LEMMA StartDiscoveryOK ==
    ASSUME TypeInv, NEW t \in Threads, StartDiscovery(t)
    PROVE  ThreadsOK'
  <1> DEFINE with == [Blank EXCEPT !.now = clock]
  <1>1. with \in Jobs
    BY EmptyTypes DEF Jobs, TypeInv, TypeOK
  <1>2. t \notin Getters /\ t \notin Putters
    BY ThreadsAssumption DEF StartDiscovery
  <1>3. ThreadOK(t, "see_nodes", with)
    BY <1>1, <1>2 DEF ThreadOK, PCs, DiscoveryPCs, Querying, Blank
  <1> QED BY <1>3, GotoOK DEF StartDiscovery, TypeInv

\* A thread in the middle of discover is not a request of another route.
LEMMA Roles ==
    ASSUME ThreadsOK, NEW t \in Threads
    PROVE  /\ pc[t] \in DiscoveryPCs \ {"idle"} => t \in Discoverers /\ t \notin Getters \cup Putters
           /\ pc[t] \in GetPCs \ {"idle"} => t \in Getters /\ t \notin Discoverers \cup Putters
           /\ pc[t] \in PutPCs \ {"idle"} => t \in Putters /\ t \notin Discoverers \cup Getters
  BY ThreadsAssumption, ThreadFacts
     DEF ThreadOK, Threads, DiscoveryPCs, GetPCs, PutPCs

LEMMA FirstUpsertOK ==
    ASSUME TypeInv, NEW t \in Threads, NEW at \in {"lock_nodes", "lock_containers"},
           NEW seen \in Sightings, NEW first \in Seen(seen),
           t \in Discoverers, t \notin Getters \cup Putters,
           FirstUpsert(t, at, seen, first)
    PROVE  ThreadsOK'
  <1> DEFINE with == [job[t] EXCEPT !.seen = seen, !.id = first,
                                    !.base = LabelsOf(db[first], seen[first])]
  <1>1. LabelsOf(db[first], seen[first]) \in Labels
    BY NoneIsNothing DEF LabelsOf, Seen, Sightings, TypeInv, TypeOK, Tables, Row
  <1>2. first \in Ids
    BY DEF Seen
  <1>3. with \in Jobs
    BY <1>1, <1>2, ThreadFacts DEF TypeInv, Jobs
  <1>4. with.left = job[t].left /\ with.rows = job[t].rows /\ with.id = first
        /\ with.base = LabelsOf(db[first], seen[first])
    BY ThreadFacts DEF TypeInv, Jobs
  <1>5. ThreadOK(t, at, with)
    BY <1>1, <1>2, <1>3, <1>4, ThreadFacts
       DEF ThreadOK, PCs, DiscoveryPCs, Querying, TypeInv
  <1> QED BY <1>5, GotoOK DEF FirstUpsert, TypeInv

LEMMA SeeNodesOK ==
    ASSUME TypeInv, NEW t \in Threads, SeeNodes(t)
    PROVE  ThreadsOK'
  <1> t \in Discoverers /\ t \notin Getters \cup Putters
    BY Roles DEF TypeInv, SeeNodes, DiscoveryPCs
  <1>1. PICK scrape \in NodeScrapes :
            \/ Goto(t, "see_containers", job[t])
            \/ \E first \in Seen(NodeSightings(scrape)) :
                    FirstUpsert(t, "lock_nodes", NodeSightings(scrape), first)
    BY DEF SeeNodes
  <1>2. CASE Goto(t, "see_containers", job[t])
    <2>1. ThreadOK(t, "see_containers", job[t])
      BY ThreadFacts DEF ThreadOK, PCs, DiscoveryPCs, Querying, TypeInv, SeeNodes
    <2> QED BY <1>2, <2>1, GotoOK DEF TypeInv
  <1>3. CASE \E first \in Seen(NodeSightings(scrape)) :
                    FirstUpsert(t, "lock_nodes", NodeSightings(scrape), first)
    BY <1>3, NodeSightingsType, FirstUpsertOK
  <1> QED BY <1>1, <1>2, <1>3

LEMMA SeeContainersOK ==
    ASSUME TypeInv, NEW t \in Threads, SeeContainers(t)
    PROVE  ThreadsOK'
  <1> t \in Discoverers /\ t \notin Getters \cup Putters
    BY Roles DEF TypeInv, SeeContainers, DiscoveryPCs
  <1>1. PICK inv \in Inventories, cadvisor \in CAdvisors :
            LET seen == ContainerSightings(inv, cadvisor)
                both == Both(job[t].seen, seen) IN
            \/ Goto(t, "see_logs", [job[t] EXCEPT !.seen = both])
            \/ Goto(t, "see_logs", job[t])
            \/ \E first \in Seen(seen) : FirstUpsert(t, "lock_containers", both, first)
    BY DEF SeeContainers
  <1> DEFINE seen == ContainerSightings(inv, cadvisor)
             both == Both(job[t].seen, seen)
             with == [job[t] EXCEPT !.seen = both]
  <1>2. seen \in Sightings /\ both \in Sightings
    BY ContainerSightingsType, BothType, ThreadFacts DEF TypeInv
  <1>3. job[t].id = None /\ \A e \in job[t].left : job[t].rows[e] # None
    BY ThreadFacts DEF TypeInv, ThreadOK, SeeContainers, Querying
  <1>4. CASE Goto(t, "see_logs", with)
    <2>1. with \in Jobs /\ with.id = None /\ with.left = job[t].left /\ with.rows = job[t].rows
      BY <1>2, <1>3, ThreadFacts DEF TypeInv, Jobs
    <2>2. ThreadOK(t, "see_logs", with)
      BY <2>1, <1>3 DEF ThreadOK, PCs, DiscoveryPCs, Querying
    <2> QED BY <1>4, <2>2, GotoOK DEF TypeInv
  <1>5. CASE Goto(t, "see_logs", job[t])
    <2>1. ThreadOK(t, "see_logs", job[t])
      BY <1>3, ThreadFacts DEF TypeInv, ThreadOK, PCs, DiscoveryPCs, Querying
    <2> QED BY <1>5, <2>1, GotoOK DEF TypeInv
  <1>6. CASE \E first \in Seen(seen) : FirstUpsert(t, "lock_containers", both, first)
    <2>1. Seen(seen) \subseteq Seen(both)
      BY NoneIsNothing DEF Seen, Both
    <2> QED BY <1>2, <1>6, <2>1, FirstUpsertOK
  <1> QED BY <1>1, <1>4, <1>5, <1>6

LEMMA LockUpsertsOK ==
    ASSUME TypeInv, NEW t \in Threads, NEW to \in {"see_containers", "see_logs"},
           pc[t] \in {"lock_nodes", "lock_containers"},
           Goto(t, to, [job[t] EXCEPT !.id = None, !.base = None])
    PROVE  ThreadsOK'
  <1> DEFINE with == [job[t] EXCEPT !.id = None, !.base = None]
  <1> t \in Discoverers /\ t \notin Getters \cup Putters
    BY Roles DEF TypeInv, DiscoveryPCs
  <1>1. with \in Jobs /\ with.id = None /\ with.left = job[t].left /\ with.rows = job[t].rows
    BY ThreadFacts DEF TypeInv, Jobs
  <1>2. ThreadOK(t, to, with)
    BY <1>1, ThreadFacts DEF TypeInv, ThreadOK, PCs, DiscoveryPCs, Querying
  <1> QED BY <1>2, GotoOK DEF TypeInv

LEMMA ListFadedOK ==
    ASSUME TypeInv, NEW t \in Threads, ListFaded(t)
    PROVE  ThreadsOK'
  <1> DEFINE gone == Faded(db, job[t].now)
             with == [job[t] EXCEPT !.gone = gone]
  <1> t \in Discoverers /\ t \notin Getters \cup Putters
    BY Roles DEF TypeInv, ListFaded, DiscoveryPCs
  <1>1. CASE Goto(t, "idle", Blank)
    BY <1>1, IdleOK DEF TypeInv
  <1>2. CASE Goto(t, "sweep", with)
    <2>1. gone \subseteq Ids
      BY DEF Faded
    <2>2. with \in Jobs /\ with.left = job[t].left /\ with.rows = job[t].rows
      BY <2>1, ThreadFacts DEF TypeInv, Jobs
    <2>3. ThreadOK(t, "sweep", with)
      BY <2>2, ThreadFacts DEF TypeInv, ThreadOK, PCs, DiscoveryPCs, Querying
    <2> QED BY <1>2, <2>3, GotoOK DEF TypeInv
  <1> QED BY <1>1, <1>2 DEF ListFaded

LEMMA ReadRowsOK ==
    ASSUME TypeInv, NEW t \in Threads, ReadRows(t)
    PROVE  ThreadsOK'
  <1>1. PICK asked \in Selections :
            LET ids == {e \in asked : db[e] # None} IN
            Goto(t, "build", [Blank EXCEPT
                !.rows = [e \in Ids |-> IF e \in ids THEN db[e] ELSE None], !.left = ids])
    BY DEF ReadRows
  <1> DEFINE ids  == {e \in asked : db[e] # None}
             rows == [e \in Ids |-> IF e \in ids THEN db[e] ELSE None]
             with == [Blank EXCEPT !.rows = rows, !.left = ids]
  <1>2. t \in Getters /\ t \notin Discoverers /\ t \notin Putters
    BY ThreadsAssumption DEF ReadRows
  <1>3. ids \subseteq Ids /\ rows \in Tables
    BY DEF Selections, Ids, Tables, TypeInv, TypeOK
  <1>4. with \in Jobs /\ with.left = ids /\ with.rows = rows /\ with.id = None
    BY <1>3, EmptyTypes DEF Jobs, Blank
  <1>5. \A e \in ids : rows[e] # None
    BY <1>3
  <1>6. ThreadOK(t, "build", with)
    BY <1>2, <1>4, <1>5 DEF ThreadOK, PCs, GetPCs, Querying
  <1> QED BY <1>1, <1>6, GotoOK DEF TypeInv

LEMMA BuildOK ==
    ASSUME TypeInv, NEW t \in Threads, Build(t)
    PROVE  ThreadsOK'
  <1>1. PICK e \in job[t].left :
            LET links == EnsureLinks(job[t].rows[e], deploy, uid)
                built == [job[t] EXCEPT !.rows[e].links = links, !.left = @ \ {e}]
            IN  \/ Goto(t, pc[t], built)
                \/ Goto(t, IF t \in Putters THEN "put_relink" ELSE "store",
                           [built EXCEPT !.id = e])
    BY DEF Build
  <1> DEFINE links == EnsureLinks(job[t].rows[e], deploy, uid)
             built == [job[t] EXCEPT !.rows[e].links = links, !.left = @ \ {e}]
             with  == [built EXCEPT !.id = e]
             row   == [job[t].rows[e] EXCEPT !.links = links]
             rows  == [job[t].rows EXCEPT ![e] = row]
  <1>2. e \in Ids /\ job[t].rows[e] \in Row /\ \A x \in job[t].left : job[t].rows[x] # None
    <2>1. e \in Ids /\ \A x \in job[t].left : job[t].rows[x] # None
      BY ThreadFacts DEF TypeInv, ThreadOK
    <2> QED BY <2>1, ThreadFacts, NoneIsNothing DEF TypeInv, Tables
  <1>3. links \in Links
    BY <1>2, EnsureLinksType DEF TypeInv, TypeOK
  <1>4. row \in Row /\ row # None
    BY <1>2, <1>3, NoneIsNothing DEF Row
  <1>5. rows \in Tables /\ \A x \in job[t].left : rows[x] # None
    BY <1>2, <1>4, ThreadFacts DEF TypeInv, Tables
  <1>6. built = [job[t] EXCEPT !.rows = rows, !.left = job[t].left \ {e}]
    BY ThreadFacts DEF TypeInv, Jobs
  <1>7. /\ built \in Jobs /\ built.rows = rows /\ built.left = job[t].left \ {e}
        /\ built.id = job[t].id
    BY <1>5, <1>6, ThreadFacts DEF TypeInv, Jobs
  <1>8. with \in Jobs /\ with.rows = rows /\ with.left = job[t].left \ {e} /\ with.id = e
    BY <1>2, <1>7 DEF Jobs
  <1>9. pc[t] \in {"build", "put_build"}
    BY DEF Build
  <1>10. CASE Goto(t, pc[t], built)
    <2>1. ThreadOK(t, pc[t], built)
      BY <1>5, <1>7, <1>9, ThreadFacts DEF TypeInv, ThreadOK, Querying
    <2> QED BY <1>10, <2>1, GotoOK DEF TypeInv
  <1>11. CASE Goto(t, IF t \in Putters THEN "put_relink" ELSE "store", with)
    <2>1. CASE t \in Putters
      <3>1. t \notin Discoverers /\ t \notin Getters
        BY <2>1, ThreadsAssumption
      <3>2. ThreadOK(t, "put_relink", with)
        BY <1>5, <1>8, <2>1, <3>1 DEF ThreadOK, PCs, PutPCs, Querying
      <3> QED BY <1>11, <2>1, <3>2, GotoOK DEF TypeInv
    <2>2. CASE t \notin Putters
      <3>1. t \in Getters /\ t \notin Discoverers
        BY <1>9, <2>2, Roles DEF TypeInv, GetPCs, PutPCs
      <3>2. ThreadOK(t, "store", with)
        BY <1>2, <1>5, <1>8, <2>2, <3>1, <1>4, ThreadFacts
           DEF TypeInv, ThreadOK, PCs, GetPCs, Querying, Tables
      <3> QED BY <1>11, <2>2, <3>2, GotoOK DEF TypeInv
    <2> QED BY <2>1, <2>2
  <1> QED BY <1>1, <1>10, <1>11

LEMMA StoreLinksOK ==
    ASSUME TypeInv, NEW t \in Threads, StoreLinks(t)
    PROVE  ThreadsOK'
  <1> DEFINE with == [job[t] EXCEPT !.id = None]
  <1>1. with \in Jobs /\ with.left = job[t].left /\ with.rows = job[t].rows
    BY ThreadFacts DEF TypeInv, Jobs
  <1>2. t \in Getters /\ t \notin Discoverers /\ t \notin Putters
    BY Roles DEF TypeInv, GetPCs, StoreLinks
  <1>3. ThreadOK(t, "build", with)
    BY <1>1, <1>2, ThreadFacts DEF TypeInv, ThreadOK, PCs, GetPCs, Querying
  <1> QED BY <1>3, GotoOK DEF StoreLinks, TypeInv

LEMMA CheckEntityOK ==
    ASSUME TypeInv, NEW t \in Threads, CheckEntity(t)
    PROVE  ThreadsOK'
  <1>1. PICK e \in Ids, want \in PutWants :
            Goto(t, "put_write", [Blank EXCEPT !.id = e, !.want = want])
    BY DEF CheckEntity
  <1> DEFINE with == [Blank EXCEPT !.id = e, !.want = want]
  <1>2. with \in Jobs /\ with.id = e /\ with.left = {}
    BY EmptyTypes, WantsAssumption DEF Jobs, Blank
  <1>3. t \in Putters /\ t \notin Discoverers /\ t \notin Getters
    BY ThreadsAssumption DEF CheckEntity
  <1>4. ThreadOK(t, "put_write", with)
    BY <1>2, <1>3 DEF ThreadOK, PCs, PutPCs, Querying
  <1> QED BY <1>1, <1>4, GotoOK DEF TypeInv

LEMMA PinOK ==
    ASSUME TypeInv, NEW t \in Threads, Pin(t)
    PROVE  ThreadsOK'
  <1>1. t \in Putters /\ t \notin Discoverers /\ t \notin Getters
    BY Roles DEF TypeInv, PutPCs, Pin
  <1>2. ThreadOK(t, "put_reread", job[t])
    BY <1>1, ThreadFacts DEF TypeInv, ThreadOK, PCs, PutPCs, Querying, Pin
  <1> QED BY <1>2, GotoOK DEF Pin, TypeInv

LEMMA RereadOK ==
    ASSUME TypeInv, NEW t \in Threads, Reread(t)
    PROVE  ThreadsOK'
  <1> DEFINE e    == job[t].id
             rows == [EmptyTable EXCEPT ![e] = db[e]]
             with == [Blank EXCEPT !.rows = rows, !.left = {e}]
  <1>1. CASE Goto(t, "idle", Blank)
    BY <1>1, IdleOK DEF TypeInv
  <1>2. CASE db[e] # None /\ Goto(t, "put_build", with)
    <2>1. t \in Putters /\ t \notin Discoverers /\ t \notin Getters
      BY Roles DEF TypeInv, PutPCs, Reread
    <2>2. e \in Ids
      BY ThreadFacts DEF TypeInv, ThreadOK, Reread
    <2>3. rows \in Tables /\ rows[e] # None
      BY <1>2, <2>2, EmptyTypes DEF Tables, TypeInv, TypeOK
    <2>4. with \in Jobs /\ with.rows = rows /\ with.left = {e}
      BY <2>2, <2>3, EmptyTypes DEF Jobs, Blank
    <2>5. ThreadOK(t, "put_build", with)
      BY <2>1, <2>3, <2>4 DEF ThreadOK, PCs, PutPCs, Querying
    <2> QED BY <1>2, <2>5, GotoOK DEF TypeInv
  <1> QED BY <1>1, <1>2 DEF Reread

\* Every step of a thread keeps every thread in order.
LEMMA ThreadsStep ==
    ASSUME TypeInv, NEW t \in Threads, Begin(t) \/ Step(t)
    PROVE  ThreadsOK'
  <1> ThreadsOK
    BY DEF TypeInv
  <1>1. CASE StartDiscovery(t)
    BY <1>1, StartDiscoveryOK
  <1>2. CASE ReadRows(t)
    BY <1>2, ReadRowsOK
  <1>3. CASE CheckEntity(t)
    BY <1>3, CheckEntityOK
  <1>4. CASE SeeNodes(t)
    BY <1>4, SeeNodesOK
  <1>5. CASE LockNodes(t) \/ LockContainers(t)
    BY <1>5, LockUpsertsOK DEF LockNodes, LockContainers
  <1>6. CASE SeeContainers(t)
    BY <1>6, SeeContainersOK
  <1>7. CASE ListFaded(t)
    BY <1>7, ListFadedOK
  <1>8. CASE Build(t)
    BY <1>8, BuildOK
  <1>9. CASE StoreLinks(t)
    BY <1>9, StoreLinksOK
  <1>10. CASE Pin(t)
    BY <1>10, PinOK
  <1>11. CASE Reread(t)
    BY <1>11, RereadOK
  <1>12. CASE \/ Finish(t) \/ Sweep(t) \/ FailQuery(t) \/ Respond(t)
              \/ Retire(t) \/ Relink(t) \/ AnswerPut(t) \/ LockTimeout(t)
    BY <1>12, IdleOK
       DEF Finish, Sweep, FailQuery, Respond, Retire, Relink, AnswerPut, LockTimeout
  <1> QED BY <1>1, <1>2, <1>3, <1>4, <1>5, <1>6, <1>7, <1>8, <1>9, <1>10, <1>11, <1>12
             DEF Begin, Step

-----------------------------------------------------------------------------
(* Type correctness *)

StoreType == db \in Tables /\ wdb \in Tables /\ writer \in Threads \cup {None}

LEMMA UpsertedType ==
    ASSUME TypeInv, NEW t \in Threads, NEW table \in Tables, NEW seen \in Sightings,
           pc[t] \in {"lock_nodes", "lock_containers", "see_containers"}
    PROVE  Upserted(t, table, seen) \in Tables
  <1>1. job[t].id \in Ids => job[t].base \in Labels
    BY ThreadFacts, NoneIsNothing DEF TypeInv, ThreadOK, Querying
  <1> QED BY <1>1, ThreadFacts, UpsertAllType DEF Upserted, TypeInv

\* A discovery's image just before it commits.
LEMMA LoggedType ==
    ASSUME TypeInv, NEW t \in Threads, NEW answered
    PROVE  SetLogs(wdb, job[t].seen, answered, job[t].now) \in Tables
  BY SetLogsType, ThreadFacts DEF TypeInv, TypeOK

LEMMA StoreTypeStep ==
    ASSUME TypeInv, NEW t \in Threads, Begin(t) \/ Step(t)
    PROVE  StoreType'
  <1> USE DEF StoreType, Store
  <1> db \in Tables /\ wdb \in Tables /\ writer \in Threads \cup {None} /\ ThreadsOK
    BY DEF TypeInv, TypeOK
  <1>1. CASE \/ StartDiscovery(t) \/ ReadRows(t) \/ CheckEntity(t) \/ SeeNodes(t)
             \/ ListFaded(t) \/ Build(t) \/ Reread(t) \/ Relink(t)
             \/ AnswerPut(t) \/ LockTimeout(t)
    BY <1>1 DEF StartDiscovery, ReadRows, CheckEntity, SeeNodes, ListFaded, Build,
                Reread, Relink, AnswerPut, LockTimeout
  <1>2. CASE LockNodes(t) \/ LockContainers(t)
    BY <1>2, UpsertedType, ThreadFacts DEF LockNodes, LockContainers, Hold
  <1>3. CASE SeeContainers(t)
    <2>1. PICK inv \in Inventories, cadvisor \in CAdvisors :
            \/ Hold(t, Upserted(t, wdb, ContainerSightings(inv, cadvisor)))
            \/ UNCHANGED <<db, wdb, writer>>
      BY <1>3 DEF SeeContainers
    <2>2. Upserted(t, wdb, ContainerSightings(inv, cadvisor)) \in Tables
      BY <1>3, ContainerSightingsType, UpsertedType DEF SeeContainers
    <2> QED BY <2>1, <2>2 DEF Hold
  <1>4. CASE Finish(t)
    <2>1. PICK answered \in LogAnswers :
            LET logged == SetLogs(wdb, job[t].seen, answered, job[t].now)
            IN  Commit(Delete(logged, Faded(logged, job[t].now)))
      BY <1>4 DEF Finish
    <2> QED BY <2>1, LoggedType, DeleteType DEF Commit
  <1>5. CASE Sweep(t) \/ Retire(t)
    BY <1>5, DeleteType DEF Sweep, Retire, Commit
  <1>6. CASE FailQuery(t)
    BY <1>6 DEF FailQuery, Rollback
  <1>7. CASE StoreLinks(t)
    <2>1. job[t].id \in Ids /\ job[t].rows[job[t].id] \in Row
      BY <1>7, ThreadFacts, NoneIsNothing DEF StoreLinks, ThreadOK, Tables
    <2>2. job[t].rows[job[t].id].links \in Links
      BY <2>1 DEF Row
    <2>3. SetLinks(View(t), job[t].id, job[t].rows[job[t].id].links) \in Tables
      BY <2>1, <2>2, SetLinksType DEF View
    <2> QED BY <1>7, <2>3 DEF StoreLinks, Hold
  <1>8. CASE Respond(t)
    BY <1>8 DEF Respond, Commit
  <1>9. CASE Pin(t)
    <2>1. job[t].id \in Ids /\ job[t].want \in Pins \cup {None}
      BY <1>9, ThreadFacts DEF Pin, ThreadOK, Wants
    <2>2. SetLifecycle(db, job[t].id, job[t].want) \in Tables
      BY <2>1, SetLifecycleType
    <2> QED BY <1>9, <2>2 DEF Pin, Commit
  <1> QED BY <1>1, <1>2, <1>3, <1>4, <1>5, <1>6, <1>7, <1>8, <1>9 DEF Begin, Step

LEMMA ProcessStep ==
    ASSUME NEW t \in Threads, Begin(t) \/ Step(t)
    PROVE  UNCHANGED <<clock, deploy, uid>>
  BY DEF Begin, Step, Process, StartDiscovery, ReadRows, CheckEntity, SeeNodes, LockNodes,
         SeeContainers, LockContainers, Finish, ListFaded, Sweep, FailQuery, Build,
         StoreLinks, Respond, Retire, Pin, Reread, Relink, AnswerPut, LockTimeout

LEMMA TypeInvNext == TypeInv /\ [Next]_vars => TypeInv'
  <1> SUFFICES ASSUME TypeInv, [Next]_vars PROVE TypeInv'
    OBVIOUS
  <1> USE DEF TypeInv, TypeOK, ThreadsOK
  <1>1. ASSUME NEW t \in Threads, Begin(t) \/ Step(t) PROVE TypeInv'
    BY <1>1, ThreadsStep, StoreTypeStep, ProcessStep DEF StoreType
  <1>2. CASE Tick
    BY <1>2, ClockAssumption DEF Tick, Store, Times
  <1>3. CASE ResolveUid
    BY <1>3 DEF ResolveUid, Store
  <1>4. CASE Restart
    BY <1>4, BlankOK, EmptyTypes DEF Restart, PCs
  <1>5. CASE UNCHANGED vars
    BY <1>5 DEF vars
  <1> QED BY <1>1, <1>2, <1>3, <1>4, <1>5 DEF Next

LEMMA TypeInvInit == Init => TypeInv
  BY ThreadsInit, EmptyTypes DEF Init, TypeInv, TypeOK, Times, PCs

\* What a thread carries at each point of its handler (the local variables of
\* discover and of the routes of api.py) is what its next step needs.
THEOREM TypeInvariant == Spec => []TypeInv
  BY TypeInvInit, TypeInvNext, PTL DEF Spec

\* Type correctness: whatever the requests, scrapes, failures and restarts, the
\* table holds only whole rows, and a thread only what its handler works with.
THEOREM TypeCorrect == Spec => []TypeOK
  BY TypeInvariant, PTL DEF TypeInv

-----------------------------------------------------------------------------
(* Layer 2: the lock *)

LockInv == TypeInv /\ LockDiscipline

\* While a thread holds the lock, nobody else touches the tables or the thread.
LEMMA HolderUndisturbed ==
    ASSUME TypeInv, NEW t \in Threads, NEW u \in Threads, u # t, writer = u,
           Begin(t) \/ Step(t)
    PROVE  UNCHANGED <<db, wdb, writer>> /\ pc'[u] = pc[u] /\ job'[u] = job[u]
  <1> writer # t /\ ~CanWrite(t)
    BY ThreadsAssumption DEF CanWrite
  <1>1. UNCHANGED <<db, wdb, writer>>
    BY DEF Begin, Step, Store, Rollback, StartDiscovery, ReadRows, CheckEntity, SeeNodes,
           LockNodes, SeeContainers, LockContainers, Finish, ListFaded, Sweep, FailQuery,
           Build, StoreLinks, Respond, Retire, Pin, Reread, Relink, AnswerPut, LockTimeout
  <1>2. \E to, with : Goto(t, to, with)
    BY DEF Begin, Step, StartDiscovery, ReadRows, CheckEntity, SeeNodes, FirstUpsert,
           LockNodes, SeeContainers, LockContainers, Finish, ListFaded, Sweep, FailQuery,
           Build, StoreLinks, Respond, Retire, Pin, Reread, Relink, AnswerPut, LockTimeout
  <1> QED BY <1>1, <1>2 DEF Goto, TypeInv, ThreadsOK

\* Where a thread is after its step.
LEMMA GotoPc ==
    ASSUME ThreadsOK, NEW t \in Threads, NEW to, NEW with, Goto(t, to, with)
    PROVE  pc'[t] = to /\ job'[t] = with
  BY DEF Goto, ThreadsOK

LEMMA LockStep ==
    ASSUME LockInv, NEW t \in Threads, Begin(t) \/ Step(t)
    PROVE  LockDiscipline'
  <1> ThreadsOK /\ TypeInv /\ LockDiscipline /\ writer \in Threads \cup {None}
    BY DEF LockInv, TypeInv, TypeOK
  <1> t # None
    BY ThreadsAssumption
  <1>1. CASE writer \in Threads /\ writer # t
    BY <1>1, HolderUndisturbed DEF LockDiscipline
  <1>2. CASE writer \in {None, t}
    <2> USE <1>2, GotoPc DEF LockDiscipline, Holding, Store
    <2>1. CASE \/ StartDiscovery(t) \/ ReadRows(t) \/ CheckEntity(t) \/ SeeNodes(t)
               \/ ListFaded(t) \/ Reread(t) \/ Relink(t)
               \/ AnswerPut(t) \/ LockTimeout(t)
      <3>1. writer = t => pc[t] \notin Holding
        BY <2>1 DEF StartDiscovery, ReadRows, CheckEntity, SeeNodes, ListFaded,
                    Reread, Relink, AnswerPut, LockTimeout, CanWrite
      <3>2. UNCHANGED <<db, wdb, writer>>
        BY <2>1 DEF StartDiscovery, ReadRows, CheckEntity, SeeNodes, ListFaded,
                    Reread, Relink, AnswerPut, LockTimeout
      <3> QED BY <3>1, <3>2
    <2>2. CASE LockNodes(t) \/ LockContainers(t)
      BY <2>2 DEF LockNodes, LockContainers, Hold
    <2>3. CASE SeeContainers(t)
      BY <2>3 DEF SeeContainers, Hold, FirstUpsert
    <2>4. CASE Finish(t)
      BY <2>4 DEF Finish, Commit
    <2>5. CASE Sweep(t) \/ Retire(t) \/ Pin(t)
      BY <2>5 DEF Sweep, Retire, Pin, Commit
    <2>6. CASE FailQuery(t)
      BY <2>6 DEF FailQuery, Rollback
    <2>7. CASE StoreLinks(t)
      BY <2>7 DEF StoreLinks, Hold
    <2>8. CASE Respond(t)
      BY <2>8 DEF Respond, Commit
    <2>9. CASE Build(t)
      <3>1. writer = t => pc[t] = "build" /\ t \notin Putters
        BY <2>9, Roles DEF Build, GetPCs
      <3>2. \E with : \/ Goto(t, pc[t], with)
                     \/ Goto(t, IF t \in Putters THEN "put_relink" ELSE "store", with)
        BY <2>9 DEF Build
      <3>3. pc'[t] = pc[t] \/ pc'[t] = IF t \in Putters THEN "put_relink" ELSE "store"
        BY <3>2
      <3> QED BY <2>9, <3>1, <3>3 DEF Build
    <2> QED BY <2>1, <2>2, <2>3, <2>4, <2>5, <2>6, <2>7, <2>8, <2>9 DEF Begin, Step
  <1> QED BY <1>1, <1>2

LEMMA LockInvNext == LockInv /\ [Next]_vars => LockInv'
  <1> SUFFICES ASSUME LockInv, [Next]_vars PROVE LockDiscipline'
    BY TypeInvNext DEF LockInv
  <1> USE DEF LockInv, LockDiscipline
  <1>1. ASSUME NEW t \in Threads, Begin(t) \/ Step(t) PROVE LockDiscipline'
    BY <1>1, LockStep
  <1>2. CASE Tick \/ ResolveUid
    BY <1>2 DEF Tick, ResolveUid, Store
  <1>3. CASE Restart
    BY <1>3 DEF Restart
  <1>4. CASE UNCHANGED vars
    BY <1>4 DEF vars
  <1> QED BY <1>1, <1>2, <1>3, <1>4 DEF Next

\* The write lock is never left behind: its holder is on its way to a commit,
\* and without a holder there is nothing uncommitted.
THEOREM LockIsDisciplined == Spec => []LockDiscipline
  <1>1. Init => LockInv
    BY TypeInvInit DEF Init, LockInv, LockDiscipline
  <1> QED BY <1>1, LockInvNext, PTL DEF Spec, LockInv

-----------------------------------------------------------------------------
(* Layer 3: the image of the lock's holder *)

\* What a discovery with the local variables j has made of e.
SeenImage(j, e) ==
    IF j.seen[e] = None THEN wdb[e] = db[e]
    ELSE /\ wdb[e] # None /\ wdb[e].last_seen = j.now
         /\ IF db[e] = None
            THEN /\ wdb[e].first_seen = j.now
                 /\ wdb[e].lifecycle = None /\ wdb[e].links = NoLinks
            ELSE /\ wdb[e].first_seen = db[e].first_seen
                 /\ wdb[e].lifecycle = db[e].lifecycle /\ wdb[e].links = db[e].links

\* What a GET with the local variables j has made of e.
ReadImage(j, e) ==
    \/ wdb[e] = db[e]
    \/ /\ db[e] # None /\ j.rows[e] # None /\ e \notin j.left
       /\ wdb[e] = [db[e] EXCEPT !.links = j.rows[e].links]

ImageOK ==
    /\ writer \in Discoverers => \A e \in Ids : SeenImage(job[writer], e)
    /\ writer \in Getters => \A e \in Ids : ReadImage(job[writer], e)
    /\ writer \notin Putters

Inv == LockInv /\ ImageOK

LEMMA UpsertedImage ==
    ASSUME NEW table \in Tables, NEW seen \in Sightings, NEW now \in Times, NEW first, NEW base,
           NEW e \in Ids, first \in Ids => base \in Labels
    PROVE  LET row == UpsertAll(table, seen, now, first, base)[e] IN
           IF seen[e] = None THEN row = table[e]
           ELSE /\ row # None /\ row.last_seen = now
                /\ IF table[e] = None
                   THEN row.first_seen = now /\ row.lifecycle = None /\ row.links = NoLinks
                   ELSE /\ row.first_seen = table[e].first_seen
                        /\ row.lifecycle = table[e].lifecycle /\ row.links = table[e].links
  <1> DEFINE all == UpsertAll(table, seen, now, first, base)
             labels == Merge(IF e = first THEN base ELSE LabelsOf(table[e], seen[e]), seen[e])
  <1>1. all \in Tables
    BY UpsertAllType
  <1>2. all[e] = IF seen[e] = None THEN table[e] ELSE Upsert(table[e], labels, now)
    BY DEF UpsertAll
  <1>3. CASE seen[e] = None
    BY <1>2, <1>3
  <1>4. CASE seen[e] # None
    <2>1. labels \in Labels
      <3>1. seen[e] \in Labels
        BY <1>4, NoneIsNothing DEF Sightings
      <3>2. table[e] # None => table[e].labels \in Labels
        BY NoneIsNothing DEF Tables, Row
      <3> QED BY <3>1, <3>2, MergeType DEF LabelsOf
    <2>2. table[e] \in Row \cup {None}
      BY DEF Tables
    <2>3. Upsert(table[e], labels, now) \in Row /\ Upsert(table[e], labels, now) # None
      BY <2>1, <2>2, UpsertType, NoneIsNothing
    <2>4. CASE table[e] = None
      BY <1>2, <1>4, <2>3, <2>4 DEF Upsert
    <2>5. CASE table[e] # None
      <3>1. table[e] \in Row
        BY <2>2, <2>5
      <3>2. Upsert(table[e], labels, now) = [table[e] EXCEPT !.labels = labels, !.last_seen = now]
        BY <2>5 DEF Upsert
      <3>3. /\ Upsert(table[e], labels, now).last_seen = now
            /\ Upsert(table[e], labels, now).first_seen = table[e].first_seen
            /\ Upsert(table[e], labels, now).lifecycle = table[e].lifecycle
            /\ Upsert(table[e], labels, now).links = table[e].links
        BY <3>1, <3>2 DEF Row
      <3> QED BY <1>2, <1>4, <2>3, <2>5, <3>3
    <2> QED BY <2>4, <2>5
  <1> QED BY <1>3, <1>4

LEMMA LockUpsertsImage ==
    ASSUME Inv, NEW t \in Threads, LockNodes(t) \/ LockContainers(t)
    PROVE  ImageOK'
  <1> TypeInv /\ ThreadsOK /\ db \in Tables
    BY DEF Inv, LockInv, TypeInv, TypeOK
  <1> DEFINE all == UpsertAll(db, job[t].seen, job[t].now, job[t].id, job[t].base)
  <1>1. pc[t] \in {"lock_nodes", "lock_containers"}
    BY DEF LockNodes, LockContainers
  <1>2. t \in Discoverers /\ t \notin Getters /\ t \notin Putters
    BY <1>1, Roles DEF DiscoveryPCs
  <1>3. writer' = t /\ wdb' = all /\ db' = db
    BY DEF LockNodes, LockContainers, Hold, Upserted
  <1>4. job'[t] = [job[t] EXCEPT !.id = None, !.base = None]
    BY GotoPc DEF LockNodes, LockContainers
  <1>5. job'[t].seen = job[t].seen /\ job'[t].now = job[t].now
    BY <1>4, ThreadFacts DEF Jobs
  <1>6. job[t].id \in Ids => job[t].base \in Labels
    BY <1>1, ThreadFacts DEF ThreadOK
  <1>7. ASSUME NEW e \in Ids PROVE SeenImage(job[t], e)'
    BY <1>3, <1>5, <1>6, ThreadFacts, UpsertedImage DEF SeenImage
  <1> QED BY <1>2, <1>3, <1>7 DEF ImageOK

LEMMA SeeContainersImage ==
    ASSUME Inv, NEW t \in Threads, SeeContainers(t)
    PROVE  ImageOK'
  <1> TypeInv /\ ThreadsOK /\ db \in Tables /\ wdb \in Tables
    BY DEF Inv, LockInv, TypeInv, TypeOK
  <1>1. t \in Discoverers /\ t \notin Getters /\ t \notin Putters
    BY Roles DEF DiscoveryPCs, SeeContainers
  <1>2. CASE writer = t
    <2>1. PICK inv \in Inventories, cadvisor \in CAdvisors :
            LET seen == ContainerSightings(inv, cadvisor) IN
            /\ Hold(t, Upserted(t, wdb, seen))
            /\ Goto(t, "see_logs", [job[t] EXCEPT !.seen = Both(job[t].seen, seen)])
      BY <1>2 DEF SeeContainers
    <2> DEFINE seen == ContainerSightings(inv, cadvisor)
               both == Both(job[t].seen, seen)
               all  == UpsertAll(wdb, seen, job[t].now, job[t].id, job[t].base)
    <2>2. writer' = t /\ wdb' = all /\ db' = db
      BY <2>1 DEF Hold, Upserted
    <2>3. job'[t] = [job[t] EXCEPT !.seen = both]
      BY <2>1, GotoPc
    <2>4. seen \in Sightings /\ both \in Sightings
      BY ContainerSightingsType, BothType, ThreadFacts
    <2>5. job'[t].seen = both /\ job'[t].now = job[t].now
      BY <2>3, <2>4, ThreadFacts DEF Jobs
    <2>6. job[t].id \notin Ids
      BY ThreadFacts, NoneIsNothing DEF ThreadOK, SeeContainers, Querying
    <2>7. ASSUME NEW e \in Ids PROVE SeenImage(job[t], e)'
      <3>1. SeenImage(job[t], e)
        BY <1>1, <1>2 DEF Inv, ImageOK
      <3>2. both[e] = IF job[t].seen[e] # None THEN job[t].seen[e] ELSE seen[e]
        BY DEF Both
      <3> HIDE DEF seen, both, all
      <3>3. LET row == all[e] IN
            IF seen[e] = None THEN row = wdb[e]
            ELSE /\ row # None /\ row.last_seen = job[t].now
                 /\ IF wdb[e] = None
                    THEN row.first_seen = job[t].now /\ row.lifecycle = None /\ row.links = NoLinks
                    ELSE /\ row.first_seen = wdb[e].first_seen
                         /\ row.lifecycle = wdb[e].lifecycle /\ row.links = wdb[e].links
        BY <2>4, <2>6, ThreadFacts, UpsertedImage DEF all
      <3> QED BY <2>2, <2>5, <3>1, <3>2, <3>3 DEF SeenImage
    <2> QED BY <1>1, <2>2, <2>7 DEF ImageOK
  <1>3. CASE writer # t
    <2>1. UNCHANGED <<db, wdb, writer>>
      BY <1>3 DEF SeeContainers, Store
    <2>2. CASE writer \in Threads
      BY <1>3, <2>1, <2>2, HolderUndisturbed DEF Inv, Step, ImageOK, SeenImage, ReadImage
    <2>3. CASE writer = None
      BY <2>1, <2>3, ThreadsAssumption DEF ImageOK, Threads
    <2> QED BY <2>2, <2>3 DEF TypeInv, TypeOK
  <1> QED BY <1>2, <1>3

LEMMA StoreLinksImage ==
    ASSUME Inv, NEW t \in Threads, StoreLinks(t)
    PROVE  ImageOK'
  <1> TypeInv /\ ThreadsOK /\ db \in Tables /\ wdb \in Tables
    BY DEF Inv, LockInv, TypeInv, TypeOK
  <1> DEFINE x == job[t].id
             links == job[t].rows[x].links
             view == View(t)
  <1>1. t \in Getters /\ t \notin Discoverers /\ t \notin Putters
    BY Roles DEF GetPCs, StoreLinks
  <1>2. x \in Ids /\ x \notin job[t].left /\ job[t].rows[x] # None
    BY ThreadFacts DEF StoreLinks, ThreadOK
  <1>3. writer' = t /\ wdb' = SetLinks(view, x, links) /\ db' = db
    BY DEF StoreLinks, Hold
  <1>4. job'[t] = [job[t] EXCEPT !.id = None]
    BY GotoPc DEF StoreLinks
  <1>5. job'[t].rows = job[t].rows /\ job'[t].left = job[t].left
    BY <1>4, ThreadFacts DEF Jobs
  <1>6. view \in Tables
    BY DEF View
  <1>7. ASSUME NEW e \in Ids
        PROVE  \/ view[e] = db[e]
               \/ /\ db[e] # None /\ job[t].rows[e] # None /\ e \notin job[t].left
                  /\ view[e] = [db[e] EXCEPT !.links = job[t].rows[e].links]
    BY <1>1 DEF View, Inv, ImageOK, ReadImage
  <1>8. ASSUME NEW e \in Ids PROVE ReadImage(job[t], e)'
    <2>1. CASE e # x
      <3>1. wdb'[e] = view[e]
        BY <1>2, <1>3, <1>6, <2>1 DEF SetLinks, Tables
      <3> QED BY <1>3, <1>5, <1>7, <3>1 DEF ReadImage
    <2>2. CASE e = x
      <3>1. wdb'[e] = IF view[e] = None THEN None ELSE [view[e] EXCEPT !.links = links]
        BY <1>2, <1>3, <1>6, <2>2 DEF SetLinks, Tables
      <3>2. db[e] # None => db[e] \in Row /\ [db[e] EXCEPT !.links = links] # None
        <4>1. links \in Links
          BY <1>2, ThreadFacts, NoneIsNothing DEF Tables, Row
        <4>2. ASSUME db[e] # None
              PROVE  db[e] \in Row /\ [db[e] EXCEPT !.links = links] \in Row
          BY <4>1, <4>2, NoneIsNothing DEF Tables, Row
        <4> QED BY <4>2, NoneIsNothing
      <3>3. CASE view[e] = db[e]
        BY <1>2, <1>3, <1>5, <2>2, <3>1, <3>3 DEF ReadImage
      <3>4. CASE db[e] # None /\ view[e] = [db[e] EXCEPT !.links = links]
        <4>1. db[e] \in Row /\ view[e] # None /\ view[e] \in Row
          BY <1>6, <3>2, <3>4, NoneIsNothing DEF Tables
        <4>2. [view[e] EXCEPT !.links = links] = view[e]
          BY <3>4, <4>1 DEF Row
        <4>3. wdb'[e] = view[e]
          BY <3>1, <4>1, <4>2
        <4> QED BY <1>2, <1>3, <1>5, <2>2, <3>4, <4>3 DEF ReadImage
      <3> QED BY <1>7, <2>2, <3>3, <3>4
    <2> QED BY <2>1, <2>2
  <1> QED BY <1>1, <1>3, <1>8 DEF ImageOK

\* A GET builds links for the rows it has not stored yet.
LEMMA BuildImage ==
    ASSUME Inv, NEW t \in Threads, Build(t)
    PROVE  ImageOK'
  <1> TypeInv /\ ThreadsOK
    BY DEF Inv, LockInv, TypeInv
  <1>1. UNCHANGED <<db, wdb, writer>>
    BY DEF Build, Store
  <1>2. CASE writer \in Threads /\ writer # t
    BY <1>1, <1>2, HolderUndisturbed DEF Inv, Step, ImageOK, SeenImage, ReadImage
  <1>3. CASE writer = None
    BY <1>1, <1>3, ThreadsAssumption DEF ImageOK, Threads
  <1>4. CASE writer = t
    <2>1. t \in Getters /\ t \notin Discoverers /\ t \notin Putters
      <3>1. pc[t] = "build"
        BY <1>4, ThreadsAssumption DEF Build, Inv, LockInv, LockDiscipline, Holding
      <3> QED BY <3>1, Roles DEF GetPCs
    <2>2. PICK x \in job[t].left : \E to, id :
            LET links == EnsureLinks(job[t].rows[x], deploy, uid)
                built == [job[t] EXCEPT !.rows[x].links = links, !.left = @ \ {x}]
            IN  Goto(t, to, built) \/ Goto(t, to, [built EXCEPT !.id = id])
      BY DEF Build
    <2> DEFINE links == EnsureLinks(job[t].rows[x], deploy, uid)
               built == [job[t] EXCEPT !.rows[x].links = links, !.left = @ \ {x}]
    <2>3. /\ built.left = job[t].left \ {x}
          /\ built.rows = [job[t].rows EXCEPT ![x].links = links]
      BY ThreadFacts DEF Jobs
    <2>4. \A id : LET with == [built EXCEPT !.id = id] IN
                  with.left = built.left /\ with.rows = built.rows
      BY ThreadFacts DEF Jobs
    <2>5. job'[t].left = job[t].left \ {x} /\ job'[t].rows = [job[t].rows EXCEPT ![x].links = links]
      BY <2>2, <2>3, <2>4, GotoPc
    <2>6. ASSUME NEW e \in Ids PROVE ReadImage(job[t], e)'
      <3>1. ReadImage(job[t], e)
        BY <1>4, <2>1 DEF Inv, ImageOK
      <3>2. e \notin job[t].left => job'[t].rows[e] = job[t].rows[e]
        BY <2>5, ThreadFacts DEF Tables
      <3> QED BY <1>1, <2>5, <3>1, <3>2 DEF ReadImage
    <2> QED BY <1>1, <1>4, <2>1, <2>6 DEF ImageOK
  <1> QED BY <1>2, <1>3, <1>4 DEF TypeInv, TypeOK

LEMMA ImageStep ==
    ASSUME Inv, NEW t \in Threads, Begin(t) \/ Step(t)
    PROVE  ImageOK'
  <1> TypeInv /\ ThreadsOK /\ LockDiscipline /\ writer \in Threads \cup {None}
    BY DEF Inv, LockInv, TypeInv, TypeOK
  <1> USE ThreadsAssumption DEF Threads
  <1>1. CASE writer \in Threads /\ writer # t
    BY <1>1, HolderUndisturbed DEF Inv, ImageOK, SeenImage, ReadImage
  <1>2. CASE LockNodes(t) \/ LockContainers(t)
    BY <1>2, LockUpsertsImage
  <1>3. CASE SeeContainers(t)
    BY <1>3, SeeContainersImage
  <1>4. CASE StoreLinks(t)
    BY <1>4, StoreLinksImage
  <1>5. CASE Build(t)
    BY <1>5, BuildImage
  <1>6. CASE writer \in {None, t} /\
             ( \/ StartDiscovery(t) \/ ReadRows(t) \/ CheckEntity(t) \/ SeeNodes(t)
               \/ ListFaded(t) \/ Reread(t) \/ Relink(t) \/ AnswerPut(t) \/ LockTimeout(t))
    <2>1. writer = t => pc[t] \notin Holding
      BY <1>6 DEF StartDiscovery, ReadRows, CheckEntity, SeeNodes, ListFaded,
                  Reread, Relink, AnswerPut, LockTimeout, CanWrite, Holding
    <2>2. writer = None
      BY <1>6, <2>1 DEF LockDiscipline
    <2>3. UNCHANGED writer
      BY <1>6 DEF StartDiscovery, ReadRows, CheckEntity, SeeNodes, ListFaded,
                  Reread, Relink, AnswerPut, LockTimeout, Store
    <2> QED BY <2>2, <2>3 DEF ImageOK
  <1>7. CASE writer \in {None, t} /\
             (\/ Finish(t) \/ Sweep(t) \/ FailQuery(t) \/ Respond(t) \/ Retire(t) \/ Pin(t))
    <2>1. writer' = None
      BY <1>7 DEF Finish, Sweep, FailQuery, Respond, Retire, Pin, Commit, Rollback, Store
    <2> QED BY <2>1 DEF ImageOK
  <1> QED BY <1>1, <1>2, <1>3, <1>4, <1>5, <1>6, <1>7 DEF Begin, Step

LEMMA InvNext == Inv /\ [Next]_vars => Inv'
  <1> SUFFICES ASSUME Inv, [Next]_vars PROVE ImageOK'
    BY LockInvNext DEF Inv
  <1>1. ASSUME NEW t \in Threads, Begin(t) \/ Step(t) PROVE ImageOK'
    BY <1>1, ImageStep
  <1>2. CASE Tick \/ ResolveUid \/ UNCHANGED vars
    BY <1>2 DEF Tick, ResolveUid, vars, Store, Inv, ImageOK, SeenImage, ReadImage
  <1>3. CASE Restart
    BY <1>3, ThreadsAssumption DEF Restart, ImageOK, Threads
  <1> QED BY <1>1, <1>2, <1>3 DEF Next

\* The image of the lock's holder: for a discovery the committed table with what
\* it saw upserted, for a GET the committed table with new links, column by column.
THEOREM Invariance == Spec => []Inv
  <1>1. Init => Inv
    BY TypeInvInit, ThreadsAssumption DEF Init, Inv, LockInv, LockDiscipline, ImageOK, Threads
  <1> QED BY <1>1, InvNext, PTL DEF Spec

-----------------------------------------------------------------------------
(* What a commit does to the table *)

\* The commit of a discovery that saw something, entity by entity.
LEMMA FinishEffect ==
    ASSUME Inv, NEW t \in Threads, Finish(t), NEW e \in Ids
    PROVE  /\ t \in Discoverers /\ writer = t /\ pc[t] = "see_logs"
           /\ IF job[t].seen[e] = None
              THEN db'[e] = IF e \in Faded(db, job[t].now) THEN None ELSE db[e]
              ELSE /\ db'[e] # None /\ db'[e].last_seen = job[t].now
                   /\ db'[e].labels = wdb[e].labels
                   /\ IF db[e] = None
                      THEN /\ db'[e].first_seen = job[t].now
                           /\ db'[e].lifecycle = None /\ db'[e].links = NoLinks
                      ELSE /\ db'[e].first_seen = db[e].first_seen
                           /\ db'[e].lifecycle = db[e].lifecycle
                           /\ db'[e].links = db[e].links
  <1> TypeInv /\ ThreadsOK /\ wdb \in Tables
    BY DEF Inv, LockInv, TypeInv, TypeOK
  <1>1. t \in Discoverers /\ writer = t /\ pc[t] = "see_logs"
    BY Roles DEF Finish, DiscoveryPCs
  <1>2. SeenImage(job[t], e)
    BY <1>1 DEF Inv, ImageOK
  <1>3. PICK answered \in LogAnswers :
            LET logged == SetLogs(wdb, job[t].seen, answered, job[t].now)
            IN  Commit(Delete(logged, Faded(logged, job[t].now)))
    BY DEF Finish
  <1> DEFINE logged == SetLogs(wdb, job[t].seen, answered, job[t].now)
             now    == job[t].now
  <1>4. now \in Nat
    BY ThreadFacts DEF Times
  <1>5. logged[e] = IF answered /\ job[t].seen[e] # None /\ wdb[e] # None
                    THEN [wdb[e] EXCEPT !.log = now] ELSE wdb[e]
    BY DEF SetLogs
  <1>6. db'[e] = IF e \in Faded(logged, now) THEN None ELSE logged[e]
    BY <1>3 DEF Commit, Delete
  <1>7. e \in Faded(logged, now) <=> logged[e] # None /\ Prunable(e, logged[e], now)
    BY DEF Faded
  <1>8. CASE job[t].seen[e] = None
    <2>1. logged[e] = db[e]
      BY <1>2, <1>5, <1>8 DEF SeenImage
    <2> QED BY <1>1, <1>6, <1>7, <1>8, <2>1 DEF Faded
  <1>9. CASE job[t].seen[e] # None
    <2>1. wdb[e] \in Row
      BY <1>2, <1>9, NoneIsNothing DEF SeenImage, Tables
    <2>2. logged[e] \in {wdb[e], [wdb[e] EXCEPT !.log = now]}
      BY <1>5
    <2>3. logged[e] \in Row
      BY <1>4, <2>1, <2>2 DEF Row, Times
    <2>4. /\ logged[e].last_seen = wdb[e].last_seen /\ logged[e].labels = wdb[e].labels
          /\ logged[e].first_seen = wdb[e].first_seen
          /\ logged[e].lifecycle = wdb[e].lifecycle /\ logged[e].links = wdb[e].links
      BY <2>1, <2>2 DEF Row
    <2>5. logged[e] # None
      BY <2>3, NoneIsNothing
    <2>6. logged[e].last_seen = now
      BY <1>2, <1>9, <2>4 DEF SeenImage
    <2>7. ~Prunable(e, logged[e], now)
      BY <1>4, <2>6, TtlAssumption DEF Prunable
    <2>8. db'[e] = logged[e]
      BY <1>6, <1>7, <2>7
    <2> HIDE DEF logged
    <2> QED BY <1>1, <1>2, <1>9, <2>4, <2>5, <2>6, <2>8 DEF SeenImage
  <1> QED BY <1>8, <1>9

\* Only these steps change the committed table.
Writes(t) == Finish(t) \/ Sweep(t) \/ (Respond(t) /\ writer = t) \/ Retire(t) \/ Pin(t)

LEMMA WritesOf ==
    ASSUME NEW t \in Threads, Begin(t) \/ Step(t), db' # db
    PROVE  Writes(t)
  BY DEF Begin, Step, Writes, StartDiscovery, ReadRows, CheckEntity, SeeNodes,
         LockNodes, SeeContainers, LockContainers, ListFaded, FailQuery,
         Build, StoreLinks, Respond, Reread, Relink, AnswerPut, LockTimeout,
         Store, Hold, Rollback

LEMMA OnlyWrites ==
    ASSUME Inv, [Next]_vars, db' # db
    PROVE  \E t \in Threads : Writes(t)
  <1>1. ~(Tick \/ ResolveUid \/ Restart \/ UNCHANGED vars)
    BY DEF Tick, ResolveUid, Restart, vars, Store
  <1> QED BY <1>1, WritesOf DEF Next

\* A delete leaves the other rows as they are.
LEMMA DeleteEffect ==
    ASSUME NEW t, Sweep(t) \/ Retire(t), NEW e \in Ids
    PROVE  db'[e] = None \/ db'[e] = db[e]
  BY DEF Sweep, Retire, Commit, Delete

\* The commit of a GET that stored links.
LEMMA RespondEffect ==
    ASSUME Inv, NEW t \in Threads, Respond(t), writer = t, NEW e \in Ids
    PROVE  /\ t \in Getters /\ pc[t] = "build"
           /\ \/ db'[e] = db[e]
              \/ /\ db[e] # None /\ db'[e] # None /\ job[t].rows[e] # None
                 /\ db'[e].links = job[t].rows[e].links
                 /\ db'[e].labels = db[e].labels /\ db'[e].log = db[e].log
                 /\ db'[e].lifecycle = db[e].lifecycle
                 /\ db'[e].first_seen = db[e].first_seen
                 /\ db'[e].last_seen = db[e].last_seen
  <1> TypeInv /\ ThreadsOK /\ db \in Tables /\ wdb \in Tables
    BY DEF Inv, LockInv, TypeInv, TypeOK
  <1>1. t \in Getters /\ pc[t] = "build"
    BY Roles DEF Respond, GetPCs
  <1>2. db' = wdb
    BY DEF Respond, Commit
  <1>3. ReadImage(job[t], e)
    BY <1>1 DEF Inv, ImageOK
  <1>4. CASE /\ db[e] # None /\ job[t].rows[e] # None
             /\ wdb[e] = [db[e] EXCEPT !.links = job[t].rows[e].links]
    <2>1. db[e] \in Row /\ job[t].rows[e] \in Row
      BY <1>4, ThreadFacts, NoneIsNothing DEF Tables
    <2>2. wdb[e] \in Row
      BY <1>4, <2>1 DEF Row
    <2>3. wdb[e] # None
      BY <2>2, NoneIsNothing
    <2> QED BY <1>1, <1>2, <1>4, <2>1, <2>3 DEF Row
  <1> QED BY <1>1, <1>2, <1>3, <1>4 DEF ReadImage

\* The commit of a pin.
LEMMA PinEffect ==
    ASSUME Inv, NEW t \in Threads, Pin(t), NEW e \in Ids
    PROVE  /\ t \in Putters /\ pc[t] = "put_write" /\ job[t].want # "retired"
           /\ \/ db'[e] = db[e]
              \/ /\ e = job[t].id /\ db[e] # None /\ db'[e] # None
                 /\ db'[e].lifecycle = job[t].want
                 /\ db'[e].labels = db[e].labels /\ db'[e].log = db[e].log
                 /\ db'[e].links = db[e].links
                 /\ db'[e].first_seen = db[e].first_seen
                 /\ db'[e].last_seen = db[e].last_seen
  <1> TypeInv /\ ThreadsOK /\ db \in Tables
    BY DEF Inv, LockInv, TypeInv, TypeOK
  <1>1. t \in Putters /\ pc[t] = "put_write" /\ job[t].want # "retired"
    BY Roles DEF Pin, PutPCs
  <1>2. db' = SetLifecycle(db, job[t].id, job[t].want)
    BY DEF Pin, Commit
  <1>3. job[t].id \in Ids /\ job[t].want \in Pins \cup {None}
    BY <1>1, ThreadFacts DEF ThreadOK, Wants
  <1>4. CASE e # job[t].id \/ db[e] = None
    BY <1>1, <1>2, <1>3, <1>4 DEF SetLifecycle, Tables
  <1>5. CASE e = job[t].id /\ db[e] # None
    <2>1. db[e] \in Row
      BY <1>5, NoneIsNothing DEF Tables
    <2>2. db'[e] = [db[e] EXCEPT !.lifecycle = job[t].want]
      BY <1>2, <1>5 DEF SetLifecycle, Tables
    <2>3. db'[e] \in Row
      BY <1>3, <2>1, <2>2 DEF Row
    <2>4. db'[e] # None
      BY <2>3, NoneIsNothing
    <2> QED BY <1>1, <1>5, <2>1, <2>2, <2>4 DEF Row
  <1> QED BY <1>4, <1>5

-----------------------------------------------------------------------------
(* The action properties *)

\* No write is lost: pins, links and sightings of a row never overwrite each
\* other, whatever was read before the lock. (The UPDATEs and the upsert of
\* db.py set disjoint columns.)
THEOREM NoLostUpdate == Spec => ColumnsHaveOneWriter
  <1>1. ASSUME Inv, [Next]_vars, NEW e \in Ids
        PROVE  ColumnsChangeByTheirWriter(e)
    <2> USE DEF ColumnsChangeByTheirWriter
    <2>1. CASE db' = db
      BY <2>1
    <2>2. CASE db' # db
      <3>1. PICK t \in Threads : Writes(t)
        BY <1>1, <2>2, OnlyWrites
      <3>2. CASE Finish(t)
        BY <1>1, <3>2, FinishEffect DEF Stays, Stamps
      <3>3. CASE Sweep(t) \/ Retire(t)
        BY <1>1, <3>3, DeleteEffect DEF Stays
      <3>4. CASE Respond(t) /\ writer = t
        BY <1>1, <3>4, RespondEffect
      <3>5. CASE Pin(t)
        BY <1>1, <3>5, PinEffect
      <3> QED BY <3>1, <3>2, <3>3, <3>4, <3>5 DEF Writes
    <2> QED BY <2>1, <2>2
  <1>2. Inv /\ [Next]_vars => [\A e \in Ids : ColumnsChangeByTheirWriter(e)]_vars
    BY <1>1
  <1> QED BY <1>2, Invariance, PTL DEF Spec, ColumnsHaveOneWriter

\* An entity that is gone comes back only through a discovery that saw it, and
\* as a new one: no request revives what it had read.
THEOREM OnlyDiscoveryCreates == Spec => OnlySightingsCreate
  <1>1. ASSUME Inv, [Next]_vars, NEW e \in Ids
        PROVE  CreatedBySighting(e)
    <2> SUFFICES ASSUME db[e] = None, db'[e] # None
                 PROVE  /\ \E t \in Discoverers : Stamps(t, e) /\ db'[e].first_seen = job[t].now
                        /\ db'[e].lifecycle = None /\ db'[e].links = NoLinks
      BY DEF CreatedBySighting
    <2>1. PICK t \in Threads : Writes(t)
      BY <1>1, OnlyWrites
    <2>2. Finish(t)
      BY <1>1, <2>1, DeleteEffect, RespondEffect, PinEffect DEF Writes
    <2>3. job[t].seen[e] # None
      BY <1>1, <2>2, FinishEffect
    <2> QED BY <1>1, <2>2, <2>3, FinishEffect DEF Stamps
  <1>2. Inv /\ [Next]_vars => [\A e \in Ids : CreatedBySighting(e)]_vars
    BY <1>1
  <1> QED BY <1>2, Invariance, PTL DEF Spec, OnlySightingsCreate

\* A discovery that saw anything commits whole, and prunes exactly what has
\* faded in the table of that moment: never a row that is, or has meanwhile
\* become, persistent, and never one it saw.
THEOREM DiscoveryCommitsWhole == Spec => DiscoveryIsWhole
  <1>1. ASSUME Inv, [Next]_vars, NEW t \in Discoverers, NEW e \in Ids
        PROVE  CommitsWhole(t, e)
    <2> SUFFICES ASSUME pc[t] = "see_logs", writer = t, db' # db
                 PROVE  IF job[t].seen[e] # None
                        THEN db'[e] # None /\ db'[e].last_seen = job[t].now
                        ELSE db'[e] = IF e \in Faded(db, job[t].now) THEN None ELSE db[e]
      BY DEF CommitsWhole
    <2>1. PICK u \in Threads : Writes(u)
      BY <1>1, OnlyWrites
    <2>2. u = t
      BY <2>1, ThreadsAssumption DEF Writes, Finish, Sweep, Retire, Pin, CanWrite, Threads
    <2>3. Finish(t)
      BY <2>1, <2>2 DEF Writes, Sweep, Retire, Pin, Respond
    <2> QED BY <1>1, <2>3, FinishEffect DEF Threads
  <1>2. Inv /\ [Next]_vars => [\A t \in Discoverers, e \in Ids : CommitsWhole(t, e)]_vars
    BY <1>1
  <1> QED BY <1>2, Invariance, PTL DEF Spec, DiscoveryIsWhole

\* e was retired: a PUT asked for it.
Retired(e) ==
    \E t \in Putters : pc[t] = "put_write" /\ job[t].id = e /\ job[t].want = "retired"

\* A discovery that saw nothing had listed e before it waited for the lock.
SweptLate(e) == \E t \in Discoverers : pc[t] = "sweep" /\ e \in job[t].gone

\* How a persistent row is deleted. (PersistentNeverPruned, which the run
\* pinned_pruned refutes, is this without SweptLate.)
PersistentGoes(e) ==
    db[e] # None /\ Classify(e, db[e]) = "persistent" /\ db'[e] = None =>
        Retired(e) \/ SweptLate(e)

\* A persistent row is deleted by the PUT that retires it, or by the late delete of a
\* discovery that saw nothing at all: no discovery that saw anything ever prunes one,
\* and no other race does. (discover's "Persistent never pruned", and its one gap.)
THEOREM PersistentGoesTwoWays == Spec => [][\A e \in Ids : PersistentGoes(e)]_vars
  <1>1. ASSUME Inv, [Next]_vars, NEW e \in Ids,
               db[e] # None, Classify(e, db[e]) = "persistent", db'[e] = None
        PROVE  Retired(e) \/ SweptLate(e)
    <2> ThreadsOK
      BY <1>1 DEF Inv, LockInv, TypeInv
    <2>1. PICK t \in Threads : Writes(t)
      BY <1>1, OnlyWrites
    <2>2. ~Finish(t)
      <3>1. ASSUME Finish(t) PROVE e \in Faded(db, job[t].now)
        BY <1>1, <3>1, FinishEffect
      <3>2. e \notin Faded(db, job[t].now)
        BY <1>1 DEF Faded, Prunable
      <3> QED BY <3>1, <3>2
    <2>3. CASE Sweep(t)
      <3>1. pc[t] = "sweep" /\ e \in job[t].gone
        BY <1>1, <2>3 DEF Sweep, Commit, Delete
      <3>2. t \in Discoverers
        BY <3>1, Roles DEF DiscoveryPCs
      <3> QED BY <3>1, <3>2 DEF SweptLate
    <2>4. CASE Retire(t)
      <3>1. pc[t] = "put_write" /\ job[t].want = "retired" /\ e = job[t].id
        BY <1>1, <2>4 DEF Retire, Commit, Delete
      <3>2. t \in Putters
        BY <3>1, Roles DEF PutPCs
      <3> QED BY <3>1, <3>2 DEF Retired
    <2>5. ~(Respond(t) /\ writer = t)
      BY <1>1, RespondEffect
    <2>6. ~Pin(t)
      BY <1>1, PinEffect
    <2> QED BY <2>1, <2>2, <2>3, <2>4, <2>5, <2>6 DEF Writes
  <1>2. Inv /\ [Next]_vars => [\A e \in Ids : PersistentGoes(e)]_vars
    BY <1>1 DEF PersistentGoes
  <1> QED BY <1>2, Invariance, PTL DEF Spec

-----------------------------------------------------------------------------
(* Layer 4: what a discovery has seen, and the class labels it keeps *)

Nodeless(j) == \A n \in Nodes : j.seen[n] = None

\* Where a discovery t that does not hold the lock is between its queries.
SeenOK(t, p, j) ==
    /\ p = "see_nodes" => j.seen = Nothing
    /\ p = "lock_nodes" => \A e \in Containers : j.seen[e] = None
    /\ p = "lock_containers" => Nodeless(j)

\* The compose label of e survives in the image.
Sticks(e) == db[e] # None /\ db[e].labels.compose # None => wdb[e].labels.compose # None

ClassOK ==
    /\ \A t \in Discoverers :
        /\ SeenOK(t, pc[t], job[t])
        /\ pc[t] = "see_containers" /\ writer # t => Nodeless(job[t])
    /\ writer \in Discoverers =>
        Nodeless(job[writer]) \/ \A e \in Containers : Sticks(e)

ClassInv == Inv /\ ClassOK

\* An upsert that reads its old labels from the table it writes keeps compose.
LEMMA UpsertKeepsCompose ==
    ASSUME NEW table \in Tables, NEW seen \in Sightings, NEW now \in Times,
           NEW first, NEW base, NEW e \in Ids, e # first,
           table[e] # None, table[e].labels.compose # None
    PROVE  UpsertAll(table, seen, now, first, base)[e].labels.compose # None
  <1>1. table[e] \in Row
    BY NoneIsNothing DEF Tables
  <1>2. CASE seen[e] = None
    BY <1>2 DEF UpsertAll
  <1>3. CASE seen[e] # None
    <2>1. UpsertAll(table, seen, now, first, base)[e]
            = [table[e] EXCEPT !.labels = Merge(table[e].labels, seen[e]), !.last_seen = now]
      BY <1>3 DEF UpsertAll, Upsert, LabelsOf
    <2>2. UpsertAll(table, seen, now, first, base)[e].labels = Merge(table[e].labels, seen[e])
      BY <1>1, <2>1 DEF Row
    <2> QED BY <2>2 DEF Merge
  <1> QED BY <1>2, <1>3

\* A discovery's own step.
LEMMA SeenStep ==
    ASSUME ClassInv, NEW t \in Threads, Begin(t) \/ Step(t), t \in Discoverers
    PROVE  /\ SeenOK(t, pc'[t], job'[t])
           /\ pc'[t] = "see_containers" /\ writer' # t => Nodeless(job'[t])
  <1> TypeInv /\ ThreadsOK
    BY DEF ClassInv, Inv, LockInv, TypeInv
  <1> t \notin Getters /\ t \notin Putters
    BY ThreadsAssumption
  <1>1. SeenOK(t, pc[t], job[t]) /\ (pc[t] = "see_containers" /\ writer # t => Nodeless(job[t]))
    BY DEF ClassInv, ClassOK
  <1>2. CASE StartDiscovery(t)
    <2>1. pc'[t] = "see_nodes" /\ job'[t] = [Blank EXCEPT !.now = clock]
      BY <1>2, GotoPc DEF StartDiscovery
    <2>2. job'[t].seen = Nothing
      BY <2>1 DEF Blank
    <2> QED BY <2>1, <2>2 DEF SeenOK
  <1>3. CASE SeeNodes(t)
    <2>1. job[t].seen = Nothing
      BY <1>1, <1>3 DEF SeeNodes, SeenOK
    <2>2. PICK scrape \in NodeScrapes :
            \/ Goto(t, "see_containers", job[t])
            \/ \E first \in Ids :
                 Goto(t, "lock_nodes", [job[t] EXCEPT
                    !.seen = NodeSightings(scrape), !.id = first,
                    !.base = LabelsOf(db[first], NodeSightings(scrape)[first])])
      BY <1>3 DEF SeeNodes, FirstUpsert, Seen
    <2>3. CASE Goto(t, "see_containers", job[t])
      <3>1. pc'[t] = "see_containers" /\ job'[t] = job[t]
        BY <2>3, GotoPc
      <3>2. Nodeless(job[t])
        BY <2>1 DEF Nodeless, Nothing, Ids
      <3> QED BY <3>1, <3>2 DEF SeenOK
    <2>4. CASE \E first \in Ids :
                 Goto(t, "lock_nodes", [job[t] EXCEPT
                    !.seen = NodeSightings(scrape), !.id = first,
                    !.base = LabelsOf(db[first], NodeSightings(scrape)[first])])
      <3> DEFINE seen == NodeSightings(scrape)
      <3>1. PICK first \in Ids :
              Goto(t, "lock_nodes", [job[t] EXCEPT !.seen = seen, !.id = first,
                                                   !.base = LabelsOf(db[first], seen[first])])
        BY <2>4
      <3>3. /\ pc'[t] = "lock_nodes"
            /\ job'[t] = [job[t] EXCEPT !.seen = seen, !.id = first,
                                        !.base = LabelsOf(db[first], seen[first])]
        BY <3>1, GotoPc
      <3>4. job'[t].seen = seen
        BY <3>3, ThreadFacts DEF Jobs
      <3>2. \A e \in Containers : NodeSightings(scrape)[e] = None
        BY IdsAssumption DEF NodeSightings, Ids
      <3> QED BY <3>2, <3>3, <3>4 DEF SeenOK
    <2> QED BY <2>2, <2>3, <2>4
  <1>4. CASE SeeContainers(t)
    <2>1. CASE writer = t
      <3>1. pc'[t] = "see_logs"
        BY <1>4, <2>1, GotoPc DEF SeeContainers
      <3> QED BY <3>1 DEF SeenOK
    <2>2. CASE writer # t
      <3>1. Nodeless(job[t])
        BY <1>1, <1>4, <2>2 DEF SeeContainers
      <3>2. PICK inv \in Inventories, cadvisor \in CAdvisors :
              LET both == Both(job[t].seen, ContainerSightings(inv, cadvisor)) IN
              \/ Goto(t, "see_logs", job[t])
              \/ \E first, base : Goto(t, "lock_containers",
                    [job[t] EXCEPT !.seen = both, !.id = first, !.base = base])
        BY <1>4, <2>2 DEF SeeContainers, FirstUpsert
      <3> DEFINE both == Both(job[t].seen, ContainerSightings(inv, cadvisor))
      <3>3. \A n \in Nodes : both[n] = None
        BY <3>1, IdsAssumption DEF Nodeless, Both, ContainerSightings, Ids
      <3>5. CASE Goto(t, "see_logs", job[t])
        BY <3>5, GotoPc DEF SeenOK
      <3>6. CASE \E first, base : Goto(t, "lock_containers",
                    [job[t] EXCEPT !.seen = both, !.id = first, !.base = base])
        <4>1. PICK first, base : Goto(t, "lock_containers",
                    [job[t] EXCEPT !.seen = both, !.id = first, !.base = base])
          BY <3>6
        <4>2. /\ pc'[t] = "lock_containers"
              /\ job'[t] = [job[t] EXCEPT !.seen = both, !.id = first, !.base = base]
          BY <4>1, GotoPc
        <4>3. job'[t].seen = both
          BY <4>2, ThreadFacts DEF Jobs
        <4> QED BY <3>3, <4>2, <4>3 DEF SeenOK, Nodeless
      <3> QED BY <3>2, <3>5, <3>6
    <2> QED BY <2>1, <2>2
  <1>5. CASE LockNodes(t)
    <2>1. pc'[t] = "see_containers" /\ writer' = t
      BY <1>5, GotoPc DEF LockNodes, Hold
    <2> QED BY <2>1 DEF SeenOK
  <1>6. CASE LockContainers(t) \/ ListFaded(t)
    <2>1. pc'[t] \in {"see_logs", "sweep", "idle"}
      BY <1>6, GotoPc DEF LockContainers, ListFaded
    <2> QED BY <2>1 DEF SeenOK
  <1>7. CASE Finish(t) \/ Sweep(t) \/ FailQuery(t) \/ LockTimeout(t)
    <2>1. pc'[t] = "idle"
      BY <1>7, GotoPc DEF Finish, Sweep, FailQuery, LockTimeout
    <2> QED BY <2>1 DEF SeenOK
  <1>8. pc[t] \in DiscoveryPCs
    BY ThreadFacts DEF ThreadOK
  <1> QED BY <1>2, <1>3, <1>4, <1>5, <1>6, <1>7, <1>8
             DEF Begin, Step, DiscoveryPCs, ReadRows, CheckEntity, Build, StoreLinks,
                 Respond, Retire, Pin, Reread, Relink, AnswerPut

\* What a discovery holds after its own step.
LEMMA SticksStep ==
    ASSUME ClassInv, NEW t \in Threads, Begin(t) \/ Step(t), t \in Discoverers, writer' = t
    PROVE  Nodeless(job'[t]) \/ \A e \in Containers : Sticks(e)'
  <1> TypeInv /\ ThreadsOK /\ db \in Tables /\ wdb \in Tables
    BY DEF ClassInv, Inv, LockInv, TypeInv, TypeOK
  <1> t \notin Getters /\ t \notin Putters /\ t # None
    BY ThreadsAssumption
  <1>1. CASE LockNodes(t)
    <2>1. \A e \in Containers : job[t].seen[e] = None
      BY <1>1 DEF ClassInv, ClassOK, SeenOK, LockNodes
    <2>2. db' = db /\ wdb' = UpsertAll(db, job[t].seen, job[t].now, job[t].id, job[t].base)
      BY <1>1 DEF LockNodes, Hold, Upserted
    <2>3. \A e \in Containers : wdb'[e] = db[e]
      BY <2>1, <2>2 DEF UpsertAll, Ids
    <2> QED BY <2>2, <2>3 DEF Sticks
  <1>2. CASE LockContainers(t)
    <2>1. Nodeless(job[t])
      BY <1>2 DEF ClassInv, ClassOK, SeenOK, LockContainers
    <2>2. job'[t] = [job[t] EXCEPT !.id = None, !.base = None]
      BY <1>2, GotoPc DEF LockContainers
    <2>3. job'[t].seen = job[t].seen
      BY <2>2, ThreadFacts DEF Jobs
    <2> QED BY <2>1, <2>3 DEF Nodeless
  <1>3. CASE SeeContainers(t)
    <2>1. writer = t
      BY <1>3 DEF SeeContainers, Store
    <2>2. PICK inv \in Inventories, cadvisor \in CAdvisors :
            LET seen == ContainerSightings(inv, cadvisor) IN
            /\ Hold(t, Upserted(t, wdb, seen))
            /\ Goto(t, "see_logs", [job[t] EXCEPT !.seen = Both(job[t].seen, seen)])
      BY <1>3, <2>1 DEF SeeContainers
    <2> DEFINE seen == ContainerSightings(inv, cadvisor)
               both == Both(job[t].seen, seen)
    <2>3. db' = db /\ wdb' = UpsertAll(wdb, seen, job[t].now, job[t].id, job[t].base)
      BY <2>2 DEF Hold, Upserted
    <2>4. job'[t].seen = both
      BY <2>2, GotoPc, ThreadFacts DEF Jobs
    <2>5. seen \in Sightings /\ job[t].id \notin Ids
      BY <1>3, ContainerSightingsType, ThreadFacts, NoneIsNothing
         DEF ThreadOK, SeeContainers, Querying
    <2>6. CASE Nodeless(job[t])
      <3>1. \A n \in Nodes : both[n] = None
        BY <2>6, IdsAssumption DEF Nodeless, Both, ContainerSightings, Ids
      <3> QED BY <2>4, <3>1 DEF Nodeless
    <2>7. CASE \A e \in Containers : Sticks(e)
      <3>1. ASSUME NEW e \in Containers, db[e] # None, db[e].labels.compose # None
            PROVE  wdb'[e].labels.compose # None
        <4>1. e \in Ids /\ e # job[t].id
          BY <2>5 DEF Ids
        <4>2. wdb[e].labels.compose # None
          BY <2>7, <3>1 DEF Sticks
        <4>3. wdb[e] # None
          BY <2>1, <3>1, <4>1 DEF ClassInv, Inv, ImageOK, SeenImage
        <4> QED BY <2>3, <2>5, <4>1, <4>2, <4>3, UpsertKeepsCompose, ThreadFacts
      <3> QED BY <2>3, <3>1 DEF Sticks
    <2> QED BY <2>1, <2>6, <2>7 DEF ClassInv, ClassOK
  <1>4. writer = None \/ pc[t] \in {"see_containers", "see_logs"}
    <2>1. CASE writer = t
      BY <2>1, ThreadFacts DEF ClassInv, Inv, LockInv, LockDiscipline, Holding, ThreadOK, DiscoveryPCs
    <2>2. CASE writer \in Threads /\ writer # t
      BY <2>2, HolderUndisturbed
    <2> QED BY <2>1, <2>2 DEF TypeInv, TypeOK
  <1>5. CASE Finish(t) \/ Sweep(t) \/ FailQuery(t) \/ Respond(t) \/ Retire(t) \/ Pin(t)
    <2>1. writer' # t
      BY <1>4, <1>5 DEF Finish, Sweep, FailQuery, Respond, Retire, Pin, Commit, Rollback, Store
    <2> QED BY <2>1
  <1>6. CASE \/ StartDiscovery(t) \/ ReadRows(t) \/ CheckEntity(t) \/ SeeNodes(t)
             \/ ListFaded(t) \/ Build(t) \/ Reread(t) \/ Relink(t) \/ AnswerPut(t)
             \/ LockTimeout(t)
    <2>1. writer' = writer /\ (writer # t \/ pc[t] \notin {"see_containers", "see_logs"})
      BY <1>6 DEF StartDiscovery, ReadRows, CheckEntity, SeeNodes, ListFaded, Build,
                  Reread, Relink, AnswerPut, LockTimeout, Store
    <2> QED BY <1>4, <2>1
  <1>7. ~StoreLinks(t)
    BY Roles DEF StoreLinks, GetPCs
  <1> QED BY <1>1, <1>2, <1>3, <1>5, <1>6, <1>7 DEF Begin, Step

LEMMA ClassInvNext == ClassInv /\ [Next]_vars => ClassInv'
  <1> SUFFICES ASSUME ClassInv, [Next]_vars PROVE ClassOK'
    BY InvNext DEF ClassInv
  <1> TypeInv /\ writer \in Threads \cup {None} /\ None \notin Threads
    BY ThreadsAssumption DEF ClassInv, Inv, LockInv, TypeInv, TypeOK
  <1>1. ASSUME NEW t \in Threads, Begin(t) \/ Step(t)
        PROVE  ClassOK'
    <2>1. ASSUME NEW u \in Discoverers
          PROVE  /\ SeenOK(u, pc'[u], job'[u])
                 /\ pc'[u] = "see_containers" /\ writer' # u => Nodeless(job'[u])
      <3>1. CASE u = t
        BY <1>1, <2>1, <3>1, SeenStep
      <3>2. CASE u # t
        <4>1. pc'[u] = pc[u] /\ job'[u] = job[u]
          <5>1. \E to, with : Goto(t, to, with)
            BY <1>1 DEF Begin, Step, StartDiscovery, ReadRows, CheckEntity, SeeNodes, FirstUpsert,
                   LockNodes, SeeContainers, LockContainers, Finish, ListFaded, Sweep, FailQuery,
                   Build, StoreLinks, Respond, Retire, Pin, Reread, Relink, AnswerPut, LockTimeout
          <5> QED BY <3>2, <5>1 DEF Goto, TypeInv, ThreadsOK, Threads
        <4>2. writer' # u => writer # u
          BY <1>1, <3>2, HolderUndisturbed DEF Threads
        <4> QED BY <4>1, <4>2 DEF ClassInv, ClassOK
      <3> QED BY <3>1, <3>2
    <2>2. ASSUME writer' \in Discoverers
          PROVE  Nodeless(job'[writer']) \/ \A e \in Containers : Sticks(e)'
      <3>1. CASE writer' = t
        BY <1>1, <2>2, <3>1, SticksStep
      <3>2. CASE writer' # t
        <4>1. writer' = writer
          <5>1. CASE writer \in Threads /\ writer # t
            BY <1>1, <5>1, HolderUndisturbed
          <5>2. CASE writer \in {None, t}
            <6>1. writer' \in {writer, t, None}
              BY <1>1 DEF Begin, Step, StartDiscovery, ReadRows, CheckEntity, SeeNodes,
                     LockNodes, SeeContainers, LockContainers, Finish, ListFaded, Sweep, FailQuery,
                     Build, StoreLinks, Respond, Retire, Pin, Reread, Relink, AnswerPut, LockTimeout,
                     Hold, Commit, Rollback, Store
            <6> QED BY <2>2, <3>2, <5>2, <6>1 DEF Threads
          <5> QED BY <5>1, <5>2
        <4>2. UNCHANGED <<db, wdb>> /\ job'[writer] = job[writer]
          BY <1>1, <2>2, <3>2, <4>1, HolderUndisturbed DEF Threads
        <4> QED BY <2>2, <4>1, <4>2 DEF ClassInv, ClassOK, Sticks
      <3> QED BY <3>1, <3>2
    <2> QED BY <2>1, <2>2 DEF ClassOK, SeenOK, Nodeless
  <1>2. CASE Tick \/ ResolveUid \/ UNCHANGED vars
    BY <1>2 DEF Tick, ResolveUid, vars, Store, ClassInv, ClassOK, SeenOK, Nodeless, Sticks
  <1>3. CASE Restart
    <2>1. \A t \in Threads : pc'[t] = "idle"
      BY <1>3 DEF Restart
    <2>2. writer' \notin Discoverers
      BY <1>3 DEF Restart, Threads
    <2> QED BY <2>1, <2>2 DEF ClassOK, SeenOK, Threads
  <1> QED BY <1>1, <1>2, <1>3 DEF Next

\* A discovery that saw a node has the lock before it reads a container's labels,
\* so no compose label is lost from the image it will commit.
THEOREM ClassInvariance == Spec => []ClassInv
  <1>1. Init => Inv
    BY TypeInvInit, ThreadsAssumption DEF Init, Inv, LockInv, LockDiscipline, ImageOK, Threads
  <1>2. Init => ClassOK
    BY ThreadsAssumption DEF Init, ClassOK, SeenOK, Threads
  <1> QED BY <1>1, <1>2, ClassInvNext, PTL DEF Spec, ClassInv

\* No discovery that found a node turns a persistent row ephemeral, even if it
\* missed docker-inventory or raced with another: the class sticks.
THEOREM ClassSticks == Spec => ClassSticksWithNodes
  <1>1. ASSUME ClassInv, [Next]_vars, NEW e \in Ids
        PROVE  DemotedByPinOrBlindly(e)
    <2> Inv /\ TypeInv /\ db \in Tables
      BY <1>1 DEF ClassInv, Inv, LockInv, TypeInv, TypeOK
    <2> SUFFICES ASSUME Demoted(e)
                 PROVE  \/ ByPin(e)
                        \/ \E t \in Discoverers :
                              pc[t] = "see_logs" /\ writer = t /\ ~SawNodes(t)
      BY DEF DemotedByPinOrBlindly
    <2>1. db' # db
      BY DEF Demoted, Classify
    <2>2. PICK t \in Threads : Writes(t)
      BY <1>1, <2>1, OnlyWrites
    <2>3. CASE Finish(t)
      <3>1. db[e] # None /\ db'[e] # None
        BY DEF Demoted, Stays
      <3>2. /\ t \in Discoverers /\ writer = t /\ pc[t] = "see_logs"
            /\ db'[e].lifecycle = db[e].lifecycle
            /\ db'[e].labels \in {db[e].labels, wdb[e].labels}
        BY <2>3, <3>1, FinishEffect
      <3>3. /\ e \in Containers
            /\ db[e].labels.compose # None /\ db'[e].labels.compose = None
        BY <3>2 DEF Demoted, Classify, Ids
      <3>4. ~Sticks(e)
        BY <3>1, <3>2, <3>3 DEF Sticks
      <3>5. Nodeless(job[t])
        BY <1>1, <3>2, <3>3, <3>4 DEF ClassInv, ClassOK
      <3> QED BY <3>2, <3>5 DEF Nodeless, SawNodes
    <2>4. CASE Sweep(t) \/ Retire(t)
      BY <2>4, DeleteEffect DEF Demoted, Stays, Classify
    <2>5. CASE Respond(t) /\ writer = t
      BY <2>5, RespondEffect DEF Demoted, Stays, Classify
    <2>6. CASE Pin(t)
      BY <2>6, PinEffect DEF Demoted, Stays, Classify, ByPin
    <2> QED BY <2>2, <2>3, <2>4, <2>5, <2>6 DEF Writes
  <1>2. ClassInv /\ [Next]_vars => [\A e \in Ids : DemotedByPinOrBlindly(e)]_vars
    BY <1>1
  <1> QED BY <1>2, ClassInvariance, PTL DEF Spec, ClassSticksWithNodes

-----------------------------------------------------------------------------
(* Layer 5: the links a request answers with *)

\* Where a request has rows in hand that it materializes.
Materializing == {"build", "store", "put_build", "put_relink"}

\* The links of row are those of its labels, for this deployment.
Matches(row) ==
    /\ row.links.detail = Detail(row.labels, deploy)
    /\ \E u \in {FallbackUid, uid} : row.links.explore = Explore(row.labels, deploy, u)

\* Of the rows of j, those that are materialized match.
AnswerOK(j) == \A e \in Ids : j.rows[e] # None /\ e \notin j.left => Matches(j.rows[e])

AnswersOK ==
    \A t \in Getters \cup Putters : pc[t] \in Materializing => AnswerOK(job[t])

LinksInv == TypeInv /\ AnswersOK

\* Whether a link is kept or built anew, it is the one of its arguments: the
\* fingerprint covers them all.
LEMMA EnsuredLinks ==
    ASSUME NEW row
    PROVE  /\ EnsureLinks(row, deploy, uid).detail = Detail(row.labels, deploy)
           /\ EnsureLinks(row, deploy, uid).explore = Explore(row.labels, deploy, uid)
  BY DEF EnsureLinks, Ensure, Fp

\* One more row is materialized.
LEMMA BuildMatches ==
    ASSUME TypeInv, NEW t \in Threads, Build(t), AnswerOK(job[t])
    PROVE  AnswerOK(job[t])'
  <1> ThreadsOK
    BY DEF TypeInv
  <1>1. PICK e \in job[t].left :
            LET links == EnsureLinks(job[t].rows[e], deploy, uid)
                built == [job[t] EXCEPT !.rows[e].links = links, !.left = @ \ {e}]
            IN  \/ Goto(t, pc[t], built)
                \/ Goto(t, IF t \in Putters THEN "put_relink" ELSE "store",
                           [built EXCEPT !.id = e])
    BY DEF Build
  <1> DEFINE links == EnsureLinks(job[t].rows[e], deploy, uid)
             row   == [job[t].rows[e] EXCEPT !.links = links]
             rows  == [job[t].rows EXCEPT ![e] = row]
             built == [job[t] EXCEPT !.rows[e].links = links, !.left = @ \ {e}]
  <1>2. e \in Ids /\ job[t].rows[e] \in Row
    BY ThreadFacts, NoneIsNothing DEF ThreadOK, Tables
  <1>3. row.links = links /\ row.labels = job[t].rows[e].labels
    BY <1>2 DEF Row
  <1>4. Matches(row)
    BY <1>3, EnsuredLinks DEF Matches
  <1>5. built = [job[t] EXCEPT !.rows = rows, !.left = job[t].left \ {e}]
    BY ThreadFacts DEF Jobs
  <1>6. job'[t] \in {built, [built EXCEPT !.id = e]}
    BY <1>1, GotoPc
  <1>7. job'[t].rows = rows /\ job'[t].left = job[t].left \ {e}
    <2> HIDE DEF rows
    <2> QED BY <1>5, <1>6, ThreadFacts DEF Jobs
  <1>8. ASSUME NEW x \in Ids, rows[x] # None, x \notin job[t].left \ {e}
        PROVE  Matches(rows[x])
    <2>1. CASE x = e
      BY <1>2, <1>4, <2>1, ThreadFacts DEF Tables
    <2>2. CASE x # e
      <3>1. rows[x] = job[t].rows[x]
        BY <1>2, <2>2, ThreadFacts DEF Tables
      <3> HIDE DEF rows
      <3> QED BY <1>8, <2>2, <3>1 DEF AnswerOK
    <2> QED BY <2>1, <2>2
  <1>9. UNCHANGED <<deploy, uid>>
    BY DEF Build, Process
  <1> HIDE DEF rows
  <1> QED BY <1>7, <1>8, <1>9 DEF AnswerOK, Matches

\* A request's own step.
LEMMA AnswerStep ==
    ASSUME LinksInv, NEW t \in Threads, Begin(t) \/ Step(t), t \in Getters \cup Putters,
           pc'[t] \in Materializing
    PROVE  AnswerOK(job[t])'
  <1> TypeInv /\ ThreadsOK /\ t \notin Discoverers
    BY ThreadsAssumption DEF LinksInv, TypeInv
  <1> USE DEF Materializing
  <1>1. pc[t] \notin DiscoveryPCs \ {"idle"}
    BY Roles
  <1>2. CASE ReadRows(t)
    <2>1. PICK asked \in Selections :
            LET ids == {e \in asked : db[e] # None} IN
            Goto(t, "build", [Blank EXCEPT
                !.rows = [e \in Ids |-> IF e \in ids THEN db[e] ELSE None], !.left = ids])
      BY <1>2 DEF ReadRows
    <2> DEFINE ids  == {e \in asked : db[e] # None}
               rows == [e \in Ids |-> IF e \in ids THEN db[e] ELSE None]
    <2>2. job'[t] = [Blank EXCEPT !.rows = rows, !.left = ids]
      BY <2>1, GotoPc
    <2>3. job'[t].rows = rows /\ job'[t].left = ids
      BY <2>2 DEF Blank
    <2> QED BY <2>3 DEF AnswerOK
  <1>3. CASE Reread(t)
    <2> DEFINE x == job[t].id
               rows == [EmptyTable EXCEPT ![x] = db[x]]
    <2>1. Goto(t, "idle", Blank) \/ Goto(t, "put_build", [Blank EXCEPT !.rows = rows, !.left = {x}])
      BY <1>3 DEF Reread
    <2>2. job'[t] = [Blank EXCEPT !.rows = rows, !.left = {x}]
      BY <2>1, GotoPc
    <2>3. job'[t].rows = rows /\ job'[t].left = {x}
      BY <2>2 DEF Blank
    <2> QED BY <2>3 DEF AnswerOK, EmptyTable
  <1>4. CASE Build(t)
    BY <1>4, BuildMatches DEF Build, LinksInv, AnswersOK
  <1>5. CASE StoreLinks(t)
    <2>1. job'[t] = [job[t] EXCEPT !.id = None] /\ pc[t] = "store"
      BY <1>5, GotoPc DEF StoreLinks
    <2>2. job'[t].rows = job[t].rows /\ job'[t].left = job[t].left
      BY <2>1, ThreadFacts DEF Jobs
    <2>3. UNCHANGED <<deploy, uid>>
      BY ProcessStep
    <2> QED BY <2>1, <2>2, <2>3 DEF LinksInv, AnswersOK, AnswerOK, Matches
  <1>6. CASE \/ FailQuery(t) \/ Respond(t) \/ Retire(t) \/ Relink(t) \/ AnswerPut(t)
             \/ LockTimeout(t)
    <2>1. Goto(t, "idle", Blank)
      BY <1>6 DEF FailQuery, Respond, Retire, Relink, AnswerPut, LockTimeout
    <2>2. pc'[t] = "idle"
      BY <2>1, GotoPc
    <2> QED BY <2>2
  <1>7. CASE CheckEntity(t) \/ Pin(t)
    <2>1. \E with : Goto(t, "put_write", with) \/ Goto(t, "put_reread", with)
      BY <1>7 DEF CheckEntity, Pin
    <2>2. pc'[t] \in {"put_write", "put_reread"}
      BY <2>1, GotoPc
    <2> QED BY <2>2
  <1>8. ~(\/ StartDiscovery(t) \/ SeeNodes(t) \/ LockNodes(t) \/ SeeContainers(t)
          \/ LockContainers(t) \/ Finish(t) \/ ListFaded(t) \/ Sweep(t))
    BY <1>1 DEF DiscoveryPCs, StartDiscovery, SeeNodes, LockNodes, SeeContainers,
                LockContainers, Finish, ListFaded, Sweep
  <1> QED BY <1>2, <1>3, <1>4, <1>5, <1>6, <1>7, <1>8 DEF Begin, Step

\* A thread's step leaves the others where they are.
LEMMA OthersStay ==
    ASSUME ThreadsOK, NEW t \in Threads, Begin(t) \/ Step(t), NEW u \in Threads, u # t
    PROVE  pc'[u] = pc[u] /\ job'[u] = job[u]
  <1>1. \E to, with : Goto(t, to, with)
    BY DEF Begin, Step, StartDiscovery, ReadRows, CheckEntity, SeeNodes, FirstUpsert,
           LockNodes, SeeContainers, LockContainers, Finish, ListFaded, Sweep, FailQuery,
           Build, StoreLinks, Respond, Retire, Pin, Reread, Relink, AnswerPut, LockTimeout
  <1> QED BY <1>1 DEF Goto, ThreadsOK

LEMMA LinksInvNext == LinksInv /\ [Next]_vars => LinksInv'
  <1> SUFFICES ASSUME LinksInv, [Next]_vars PROVE AnswersOK'
    BY TypeInvNext DEF LinksInv
  <1> TypeInv /\ ThreadsOK
    BY DEF LinksInv, TypeInv
  <1>1. ASSUME NEW t \in Threads, Begin(t) \/ Step(t)
        PROVE  AnswersOK'
    <2> SUFFICES ASSUME NEW u \in Getters \cup Putters, pc'[u] \in Materializing
                 PROVE  AnswerOK(job[u])'
      BY DEF AnswersOK, Materializing
    <2>1. CASE u = t
      BY <1>1, <2>1, AnswerStep
    <2>2. CASE u # t
      <3>1. pc'[u] = pc[u] /\ job'[u] = job[u]
        BY <1>1, <2>2, OthersStay DEF Threads
      <3> QED BY <1>1, <3>1, ProcessStep DEF LinksInv, AnswersOK, AnswerOK, Matches
    <2> QED BY <2>1, <2>2
  <1>2. CASE Tick \/ UNCHANGED vars
    BY <1>2 DEF Tick, vars, Store, LinksInv, AnswersOK, AnswerOK, Matches, Materializing
  <1>3. CASE ResolveUid
    BY <1>3 DEF ResolveUid, Store, LinksInv, AnswersOK, AnswerOK, Matches, Materializing
  <1>4. CASE Restart
    BY <1>4 DEF Restart, AnswersOK, Materializing, Threads
  <1> QED BY <1>1, <1>2, <1>3, <1>4 DEF Next

\* Every row a request is about to answer with carries links of the labels it
\* carries, for the deployment that runs, whatever was relabelled, redeployed or
\* resolved since they were stored.
THEOREM LinksMatch == Spec => []ServedLinksMatch
  <1>1. Init => LinksInv
    BY TypeInvInit DEF Init, LinksInv, AnswersOK, Materializing, Threads
  <1>2. LinksInv => ServedLinksMatch
    BY DEF LinksInv, AnswersOK, AnswerOK, Matches, Materializing, ServedLinksMatch
  <1> QED BY <1>1, <1>2, LinksInvNext, PTL DEF Spec
=============================================================================
