------------------------------- MODULE Registry -------------------------------
(***************************************************************************)
(* The entity registry at work: one SQLite file (WAL), the background       *)
(* discovery loop, and Flask's request threads, each with a connection of   *)
(* its own, racing on it.                                                   *)
(*                                                                         *)
(* A connection reads the committed table until its first write; from then  *)
(* on it holds the write lock and reads its own image, until it commits or  *)
(* is closed (rolled back). Everyone else who wants to write waits, for at   *)
(* most the busy timeout. Python's sqlite3 opens the transaction at the     *)
(* first INSERT, UPDATE or DELETE, not at a SELECT: so what a thread read   *)
(* before its first write may be out of date when it writes.                *)
(*                                                                         *)
(* A step is what a thread does between two points where another thread can  *)
(* make a difference: an HTTP query, a wait for the lock, a committed read.  *)
(***************************************************************************)
EXTENDS RegistryStore

CONSTANTS
    Loop,        \* the thread "registry-discovery"
    Getters,     \* request threads that serve GET /entities[/<id>]
    Putters,     \* request threads that serve PUT /entities/<id>
    Posters,     \* request threads that serve POST /entities/discover
    LogAnswers,  \* may the recording rule of the log rates have rows, or none
    PutWants,    \* what the PUTs ask for
    MaxClock     \* bound of the clock, for model checking

Discoverers == {Loop} \cup Posters
Threads     == Discoverers \cup Getters \cup Putters
Wants       == Pins \cup {None, "retired"}

ASSUME ThreadsAssumption ==
    /\ None \notin Threads
    /\ Loop \notin Posters
    /\ Discoverers \cap Getters = {} /\ Discoverers \cap Putters = {}
    /\ Getters \cap Putters = {}
ASSUME WantsAssumption == PutWants \subseteq Wants
ASSUME ClockAssumption == MaxClock \in Nat
ASSUME LogAssumption   == LogAnswers \subseteq BOOLEAN

VARIABLES
    clock,   \* int(time.time())
    deploy,  \* the deployment that runs
    uid,     \* what cfg["prom_uid"]() returns
    db,      \* the committed table
    wdb,     \* the table as the holder of the write lock sees it (db if nobody)
    writer,  \* the thread that holds the write lock, or None
    pc,      \* where each thread is
    job      \* its local variables

vars == <<clock, deploy, uid, db, wdb, writer, pc, job>>

Querying == {"see_nodes", "see_containers", "see_logs"}
PCs      == Querying \cup {"idle", "lock_nodes", "lock_containers", "sweep",
             "build", "store", "put_write", "put_reread", "put_build", "put_relink"}

Jobs == [now  : Times,                   \* discover: now
         seen : Sightings,               \* discover: what it upserts
         id   : Ids \cup {None},         \* the entity of the next write
         base : Labels \cup {None},      \* upsert: labels read before the lock
         gone : SUBSET Ids,              \* discover: what it read as prunable
         rows : Tables,                  \* the entities being answered
         left : SUBSET Ids,              \* of these, not yet materialized
         want : Wants]                   \* PUT: the lifecycle asked for

Blank == [now |-> 0, seen |-> Nothing, id |-> None, base |-> None, gone |-> {},
          rows |-> EmptyTable, left |-> {}, want |-> None]

TypeOK ==
    /\ clock \in Times
    /\ deploy \in Deploys
    /\ uid \in Uids \cup {FallbackUid}
    /\ db \in Tables /\ wdb \in Tables
    /\ writer \in Threads \cup {None}
    /\ pc \in [Threads -> PCs]
    /\ job \in [Threads -> Jobs]

Init ==
    /\ clock = 0
    /\ deploy \in Deploys
    /\ uid = FallbackUid
    /\ db = EmptyTable /\ wdb = EmptyTable
    /\ writer = None
    /\ pc = [t \in Threads |-> "idle"]
    /\ job = [t \in Threads |-> Blank]

-----------------------------------------------------------------------------
(* Connections *)

Goto(t, to, with) ==
    /\ pc' = [pc EXCEPT ![t] = to]
    /\ job' = [job EXCEPT ![t] = with]

\* The table t's connection sees.
View(t) == IF writer = t THEN wdb ELSE db

CanWrite(t) == writer \in {None, t}

\* t holds the lock after this step, with this image.
Hold(t, table) == writer' = t /\ wdb' = table /\ UNCHANGED db

\* t's transaction commits: its image becomes the table.
Commit(table) == db' = table /\ wdb' = table /\ writer' = None

WrongRollback(t) == Commit(wdb)

\* t's connection is closed without a commit.
Rollback(t) ==
    IF writer = t THEN writer' = None /\ wdb' = db /\ UNCHANGED db
                  ELSE UNCHANGED <<db, wdb, writer>>

Process == <<clock, deploy, uid>>
Store   == <<db, wdb, writer>>

-----------------------------------------------------------------------------
(* discover: the loop's, or POST /entities/discover *)

StartDiscovery(t) ==
    /\ t \in Discoverers /\ pc[t] = "idle"
    /\ Goto(t, "see_nodes", [Blank EXCEPT !.now = clock])
    /\ UNCHANGED <<Process, Store>>

\* The first upsert of a connection without the lock: it SELECTs the labels,
\* then waits for the lock to write.
FirstUpsert(t, at, seen, first) ==
    Goto(t, at, [job[t] EXCEPT !.seen = seen, !.id = first,
                               !.base = LabelsOf(db[first], seen[first])])

SeeNodes(t) ==
    /\ pc[t] = "see_nodes"
    /\ \E scrape \in NodeScrapes :
        LET seen == NodeSightings(scrape) IN
        \/ /\ Seen(seen) = {}
           /\ Goto(t, "see_containers", job[t])
        \/ \E first \in Seen(seen) : FirstUpsert(t, "lock_nodes", seen, first)
    /\ UNCHANGED <<Process, Store>>

Upserted(t, table, seen) ==
    UpsertAll(table, seen, job[t].now, job[t].id, job[t].base)

LockNodes(t) ==
    /\ pc[t] = "lock_nodes" /\ CanWrite(t)
    /\ Hold(t, Upserted(t, db, job[t].seen))
    /\ Goto(t, "see_containers", [job[t] EXCEPT !.id = None, !.base = None])
    /\ UNCHANGED Process

\* With the lock held since the nodes' upserts, the containers' are at once;
\* otherwise the first of them has the same gap the nodes' first one has.
SeeContainers(t) ==
    /\ pc[t] = "see_containers"
    /\ \E inv \in Inventories, cadvisor \in CAdvisors :
        LET seen == ContainerSightings(inv, cadvisor)
            both == Both(job[t].seen, seen) IN
        \/ /\ writer = t
           /\ Hold(t, Upserted(t, wdb, seen))
           /\ Goto(t, "see_logs", [job[t] EXCEPT !.seen = both])
        \/ /\ writer # t /\ Seen(seen) = {}
           /\ Goto(t, "see_logs", job[t])
           /\ UNCHANGED Store
        \/ /\ writer # t
           /\ \E first \in Seen(seen) : FirstUpsert(t, "lock_containers", both, first)
           /\ UNCHANGED Store
    /\ UNCHANGED Process

LockContainers(t) ==
    /\ pc[t] = "lock_containers" /\ CanWrite(t)
    /\ Hold(t, Upserted(t, db, job[t].seen))
    /\ Goto(t, "see_logs", [job[t] EXCEPT !.id = None, !.base = None])
    /\ UNCHANGED Process

WrongFinish(t) ==
    /\ pc[t] = "see_logs" /\ writer = t
    /\ \E answered \in LogAnswers :
        LET logged == SetLogs(wdb, job[t].seen, answered, job[t].now)
        IN  Commit(Delete(logged, Faded(db, job[t].now)))
    /\ Goto(t, "idle", Blank)
    /\ UNCHANGED Process

\* The rule has answered; with the lock held the snapshots, the prune and the
\* commit follow with nobody in between.
Finish(t) ==
    /\ pc[t] = "see_logs" /\ writer = t
    /\ \E answered \in LogAnswers :
        LET logged == SetLogs(wdb, job[t].seen, answered, job[t].now)
        IN  Commit(Delete(logged, Faded(logged, job[t].now)))
    /\ Goto(t, "idle", Blank)
    /\ UNCHANGED Process

\* A discovery that saw nothing has no lock yet: it reads what to prune here ...
ListFaded(t) ==
    /\ pc[t] = "see_logs" /\ writer # t
    /\ LET gone == Faded(db, job[t].now) IN
        IF gone = {} THEN Goto(t, "idle", Blank)
                     ELSE Goto(t, "sweep", [job[t] EXCEPT !.gone = gone])
    /\ UNCHANGED <<Process, Store>>

\* ... and deletes it once it gets the lock.
Sweep(t) ==
    /\ pc[t] = "sweep" /\ CanWrite(t)
    /\ Commit(Delete(db, job[t].gone))
    /\ Goto(t, "idle", Blank)
    /\ UNCHANGED Process

WrongFailQueryLeak(t) ==
    /\ pc[t] \in Querying
    /\ Goto(t, "idle", Blank)
    /\ UNCHANGED <<Process, Store>>

WrongFailQueryUncaught(t) ==
    /\ pc[t] \in Querying
    /\ Rollback(t)
    /\ Goto(t, IF t = Loop THEN "dead" ELSE "idle", Blank)
    /\ UNCHANGED Process

\* A query times out or is refused: the connection is closed, the loop sleeps
\* until its next tick, a request is answered with a 500.
FailQuery(t) ==
    /\ pc[t] \in Querying
    /\ Rollback(t)
    /\ Goto(t, "idle", Blank)
    /\ UNCHANGED Process

-----------------------------------------------------------------------------
(* GET /entities and GET /entities/<id>: read, then materialize row by row *)

\* All entities, those of a kind, or one.
Selections == {Ids, Nodes, Containers} \cup {{e} : e \in Ids}

ReadRows(t) ==
    /\ t \in Getters /\ pc[t] = "idle"
    /\ \E asked \in Selections :
        LET ids == {e \in asked : db[e] # None} IN
        /\ ids # {}
        /\ Goto(t, "build", [Blank EXCEPT
                !.rows = [e \in Ids |-> IF e \in ids THEN db[e] ELSE None],
                !.left = ids])
    /\ UNCHANGED <<Process, Store>>

WrongBuild(t) ==
    /\ pc[t] \in {"build", "put_build"}
    /\ \E e \in job[t].left :
        Goto(t, pc[t], [job[t] EXCEPT
                            !.rows[e].links = EnsureLinks(job[t].rows[e], deploy, uid)])
    /\ UNCHANGED <<Process, Store>>

\* _materialize: the links are built from the row as it was read and from the
\* UID of the moment; only a link that changed is written.
Build(t) ==
    /\ pc[t] \in {"build", "put_build"}
    /\ \E e \in job[t].left :
        LET links == EnsureLinks(job[t].rows[e], deploy, uid)
            built == [job[t] EXCEPT !.rows[e].links = links, !.left = @ \ {e}]
        IN  IF links = job[t].rows[e].links
            THEN Goto(t, pc[t], built)
            ELSE Goto(t, IF t \in Putters THEN "put_relink" ELSE "store",
                      [built EXCEPT !.id = e])
    /\ UNCHANGED <<Process, Store>>

WrongStoreLinks(t) ==
    /\ pc[t] = "store" /\ CanWrite(t)
    /\ LET e == job[t].id IN Hold(t, [View(t) EXCEPT ![e] = job[t].rows[e]])
    /\ Goto(t, "build", [job[t] EXCEPT !.id = None])
    /\ UNCHANGED Process

StoreLinks(t) ==
    /\ pc[t] = "store" /\ CanWrite(t)
    /\ LET e == job[t].id IN Hold(t, SetLinks(View(t), e, job[t].rows[e].links))
    /\ Goto(t, "build", [job[t] EXCEPT !.id = None])
    /\ UNCHANGED Process

Respond(t) ==
    /\ pc[t] = "build" /\ job[t].left = {}
    /\ IF writer = t THEN Commit(wdb) ELSE UNCHANGED Store
    /\ Goto(t, "idle", Blank)
    /\ UNCHANGED Process

-----------------------------------------------------------------------------
(* PUT /entities/<id>. A 404 and a 400 change nothing and are not steps. *)

CheckEntity(t) ==
    /\ t \in Putters /\ pc[t] = "idle"
    /\ \E e \in Ids, want \in PutWants :
        /\ db[e] # None
        /\ Goto(t, "put_write", [Blank EXCEPT !.id = e, !.want = want])
    /\ UNCHANGED <<Process, Store>>

Retire(t) ==
    /\ pc[t] = "put_write" /\ CanWrite(t) /\ job[t].want = "retired"
    /\ Commit(Delete(db, {job[t].id}))
    /\ Goto(t, "idle", Blank)
    /\ UNCHANGED Process

Pin(t) ==
    /\ pc[t] = "put_write" /\ CanWrite(t) /\ job[t].want # "retired"
    /\ Commit(SetLifecycle(db, job[t].id, job[t].want))
    /\ Goto(t, "put_reread", job[t])
    /\ UNCHANGED Process

\* The row is read again after the commit; when it is gone by then the answer
\* is a 500.
Reread(t) ==
    /\ pc[t] = "put_reread"
    /\ LET e == job[t].id IN
        IF db[e] = None THEN Goto(t, "idle", Blank)
        ELSE Goto(t, "put_build", [Blank EXCEPT !.rows = [EmptyTable EXCEPT ![e] = db[e]],
                                                !.left = {e}])
    /\ UNCHANGED <<Process, Store>>

\* PUT materializes but never commits: the links it stores are rolled back when
\* the connection is closed, right after it had the lock.
Relink(t) ==
    /\ pc[t] = "put_relink" /\ CanWrite(t)
    /\ Goto(t, "idle", Blank)
    /\ UNCHANGED <<Process, Store>>

AnswerPut(t) ==
    /\ pc[t] = "put_build" /\ job[t].left = {}
    /\ Goto(t, "idle", Blank)
    /\ UNCHANGED <<Process, Store>>

-----------------------------------------------------------------------------
(* The busy timeout, the process and its surroundings *)

\* "database is locked": somebody held the lock for the whole busy timeout.
LockTimeout(t) ==
    /\ pc[t] \in {"lock_nodes", "lock_containers", "sweep", "store", "put_write", "put_relink"}
    /\ ~CanWrite(t)
    /\ Goto(t, "idle", Blank)
    /\ UNCHANGED <<Process, Store>>

Tick ==
    /\ clock < MaxClock
    /\ clock' = clock + 1
    /\ UNCHANGED <<deploy, uid, Store, pc, job>>

\* The dashboard thread learns the UID once, when Grafana is up.
ResolveUid ==
    /\ uid = FallbackUid
    /\ uid' \in Uids
    /\ UNCHANGED <<clock, deploy, Store, pc, job>>

\* The container dies and starts again, perhaps a newer one: the file stays.
Restart ==
    /\ deploy' \in Deploys
    /\ uid' = FallbackUid
    /\ writer' = None /\ wdb' = db
    /\ pc' = [t \in Threads |-> "idle"]
    /\ job' = [t \in Threads |-> Blank]
    /\ UNCHANGED <<clock, db>>

\* What a thread does once it has begun.
Step(t) ==
    \/ SeeNodes(t) \/ LockNodes(t) \/ SeeContainers(t) \/ LockContainers(t)
    \/ Finish(t) \/ ListFaded(t) \/ Sweep(t) \/ FailQuery(t)
    \/ Build(t) \/ StoreLinks(t) \/ Respond(t)
    \/ Retire(t) \/ Pin(t) \/ Reread(t) \/ Relink(t) \/ AnswerPut(t)
    \/ LockTimeout(t)

Begin(t) == StartDiscovery(t) \/ ReadRows(t) \/ CheckEntity(t)

Next ==
    \/ \E t \in Threads : Begin(t) \/ Step(t)
    \/ Tick \/ ResolveUid \/ Restart

Spec == Init /\ [][Next]_vars

\* Every query, every wait for the lock and the loop's sleep has a timeout;
\* nobody promises that a request is made, a UID resolved or the clock read.
Fairness ==
    /\ \A t \in Threads : WF_vars(Step(t))
    /\ WF_vars(StartDiscovery(Loop))

FairSpec == Spec /\ Fairness
-----------------------------------------------------------------------------
(* What the registry promises *)

Holding == {"see_containers", "see_logs", "build", "store"}

\* The write lock is held only between a first write and its commit, by a
\* thread that is still on its way to it; nobody holding it, there is no
\* uncommitted image. (The transaction sqlite3 opens at the first upsert of
\* discover or at the first set_links of a GET.)
LockDiscipline ==
    /\ writer = None => wdb = db
    /\ writer # None => pc[writer] \in Holding

\* The rows e has before and after a step, when it has both.
Stays(e) == db[e] # None /\ db'[e] # None

\* The discovery t commits with this step, having seen e.
Stamps(t, e) ==
    /\ t \in Discoverers /\ pc[t] = "see_logs" /\ writer = t
    /\ job[t].seen[e] # None /\ db'[e].last_seen = job[t].now

ColumnsChangeByTheirWriter(e) ==
    Stays(e) =>
        /\ db'[e].first_seen = db[e].first_seen
        /\ db'[e].lifecycle # db[e].lifecycle =>
            \E t \in Putters : /\ pc[t] = "put_write" /\ job[t].id = e
                              /\ job[t].want = db'[e].lifecycle
        /\ db'[e].links # db[e].links =>
            \E t \in Getters : /\ pc[t] = "build"
                              /\ job[t].rows[e] # None
                              /\ job[t].rows[e].links = db'[e].links
        /\ (\/ db'[e].labels # db[e].labels \/ db'[e].log # db[e].log
            \/ db'[e].last_seen # db[e].last_seen) =>
            \E t \in Discoverers : Stamps(t, e)

\* No write is lost to a thread that read the row earlier: the pin of a row
\* changes only by the PUT that asks for it, its links only by a GET, its
\* labels, log rates and last sighting only by a discovery that saw it, its
\* first sighting never. (The statements of db.py write disjoint columns.)
ColumnsHaveOneWriter == [][\A e \in Ids : ColumnsChangeByTheirWriter(e)]_vars

CreatedBySighting(e) ==
    db[e] = None /\ db'[e] # None =>
        /\ \E t \in Discoverers : Stamps(t, e) /\ db'[e].first_seen = job[t].now
        /\ db'[e].lifecycle = None /\ db'[e].links = NoLinks

\* A retired or pruned entity comes back only because a discovery saw it, and
\* then as a new one: no request that had read it earlier revives it.
OnlySightingsCreate == [][\A e \in Ids : CreatedBySighting(e)]_vars

CommitsWhole(t, e) ==
    pc[t] = "see_logs" /\ writer = t /\ db' # db =>
        IF job[t].seen[e] # None
        THEN db'[e] # None /\ db'[e].last_seen = job[t].now
        ELSE db'[e] = IF e \in Faded(db, job[t].now) THEN None ELSE db[e]

\* A discovery that saw anything is committed whole: everything it saw is in
\* the table as of its start, and of the rest it removes exactly the faded
\* rows of the table it replaces, however long its queries took.
DiscoveryIsWhole == [][\A t \in Discoverers, e \in Ids : CommitsWhole(t, e)]_vars

Demoted(e) == /\ Stays(e)
              /\ Classify(e, db[e]) = "persistent"
              /\ Classify(e, db'[e]) = "ephemeral"

ByPin(e) == \E t \in Putters : pc[t] = "put_write" /\ job[t].id = e

SawNodes(t) == \E n \in Nodes : job[t].seen[n] # None

DemotedByPinOrBlindly(e) ==
    Demoted(e) =>
        \/ ByPin(e)
        \/ \E t \in Discoverers : pc[t] = "see_logs" /\ writer = t /\ ~SawNodes(t)

\* A container's class sticks through scrapes that miss docker-inventory, as
\* long as no discovery runs that finds no node. (db.upsert's merge.)
ClassSticksWithNodes == [][\A e \in Ids : DemotedByPinOrBlindly(e)]_vars

\* The same without the proviso: what upsert's docstring says.
ClassNeverFlips == [][\A e \in Ids : Demoted(e) => ByPin(e)]_vars

\* "Persistent never pruned": a row that is persistent when it is deleted was
\* retired by a PUT. (discover's comment.)
PersistentNeverPruned ==
    [][\A e \in Ids :
        db[e] # None /\ Classify(e, db[e]) = "persistent" /\ db'[e] = None =>
            \E t \in Putters : /\ pc[t] = "put_write" /\ job[t].id = e
                              /\ job[t].want = "retired"]_vars

\* As long as the loop is the only discovery, a row's times are in order: it
\* was not first seen, nor its logs read, after it was last seen.
TimesOrdered ==
    \A e \in Ids : db[e] # None =>
        /\ db[e].first_seen <= db[e].last_seen
        /\ db[e].log # None => db[e].log <= db[e].last_seen
        /\ db[e].last_seen <= clock

\* What a request is about to answer carries links built from the labels it
\* answers with and for the deployment that answers, and never the UID of a
\* datasource that Grafana had before a restart. (The fingerprint of links.py.)
ServedLinksMatch ==
    \A t \in Getters \cup Putters, e \in Ids :
        pc[t] \in {"build", "store", "put_build", "put_relink"}
            /\ job[t].rows[e] # None /\ e \notin job[t].left =>
        LET row == job[t].rows[e] IN
        /\ row.links.detail = Detail(row.labels, deploy)
        /\ \E u \in {FallbackUid, uid} : row.links.explore = Explore(row.labels, deploy, u)

\* Nobody keeps the write lock for good: a failed query closes its connection.
LockReleased == \A t \in Threads : writer = t ~> writer # t

\* Every request gets an answer, and every discovery ends.
EverythingEnds == \A t \in Threads : pc[t] # "idle" ~> pc[t] = "idle"

\* The loop outlives every failure: it always tries again.
LoopKeepsTrying == []<>(pc[Loop] = "see_nodes")
=============================================================================
