-------------------------- MODULE RegistrySoloProofs --------------------------
(***************************************************************************)
(* What holds of the registry as long as the loop is the only discovery, that *)
(* is, nobody uses POST /entities/discover: the times of a row stay in order, *)
(* and no class flips. Two discoveries break both (the run class_flip shows   *)
(* the second).                                                             *)
(*                                                                         *)
(* On top of the layers of RegistryProofs: what the loop read before it had   *)
(* the lock is still so when it gets it, because the other threads never     *)
(* touch the columns a sighting writes.                                      *)
(***************************************************************************)
EXTENDS RegistryProofs

\* The times of row are in order, and none is after limit.
InOrder(row, limit) ==
    /\ row.first_seen <= row.last_seen
    /\ row.log # None => row.log <= row.last_seen
    /\ row.last_seen <= limit

Ordered(table, limit) == \A e \in Ids : table[e] # None => InOrder(table[e], limit)

TimesOK ==
    /\ Ordered(db, clock)
    /\ pc[Loop] # "idle" => job[Loop].now <= clock /\ Ordered(db, job[Loop].now)
    /\ writer = Loop => Ordered(wdb, job[Loop].now)

\* The labels the loop read for its first upsert still have the compose label.
BaseOK ==
    pc[Loop] \in {"lock_nodes", "lock_containers"} =>
        LET row == db[job[Loop].id] IN
        row # None /\ row.labels.compose # None => job[Loop].base.compose # None

\* Its image has lost no compose label.
KeptOK == writer = Loop => \A e \in Ids : Sticks(e)

SoloInv == Inv /\ TimesOK /\ BaseOK /\ KeptOK

-----------------------------------------------------------------------------
(* Tables in order *)

LEMMA OrderedGrows ==
    ASSUME NEW table \in Tables, NEW n \in Nat, NEW m \in Nat, n <= m, Ordered(table, n)
    PROVE  Ordered(table, m)
  <1>1. ASSUME NEW e \in Ids, table[e] # None PROVE InOrder(table[e], m)
    <2>1. table[e] \in Row
      BY <1>1, NoneIsNothing DEF Tables
    <2>2. table[e].last_seen \in Nat
      BY <2>1 DEF Row, Times
    <2> QED BY <1>1, <2>2 DEF Ordered, InOrder
  <1> QED BY <1>1 DEF Ordered

LEMMA DeleteOrdered ==
    ASSUME NEW table, NEW n, NEW gone, Ordered(table, n)
    PROVE  Ordered(Delete(table, gone), n)
  BY DEF Ordered, Delete

\* An upsert moves a row's last sighting to now, which is not before any of its times.
LEMMA UpsertedOrdered ==
    ASSUME NEW table \in Tables, NEW seen \in Sightings, NEW now \in Nat, NEW first, NEW base,
           Ordered(table, now)
    PROVE  Ordered(UpsertAll(table, seen, now, first, base), now)
  <1> SUFFICES ASSUME NEW e \in Ids, UpsertAll(table, seen, now, first, base)[e] # None
               PROVE  InOrder(UpsertAll(table, seen, now, first, base)[e], now)
    BY DEF Ordered
  <1> DEFINE labels == Merge(IF e = first THEN base ELSE LabelsOf(table[e], seen[e]), seen[e])
             row    == UpsertAll(table, seen, now, first, base)[e]
  <1>1. row = IF seen[e] = None THEN table[e] ELSE Upsert(table[e], labels, now)
    BY DEF UpsertAll
  <1> HIDE DEF row, labels
  <1>2. CASE seen[e] = None
    BY <1>1, <1>2 DEF Ordered, row
  <1>3. CASE seen[e] # None /\ table[e] = None
    <2>1. row = [labels |-> labels, links |-> NoLinks, log |-> None,
                 lifecycle |-> None, first_seen |-> now, last_seen |-> now]
      BY <1>1, <1>3 DEF Upsert
    <2>2. row.log = None /\ row.first_seen = now /\ row.last_seen = now
      BY <2>1
    <2> QED BY <2>2 DEF InOrder, row
  <1>4. CASE seen[e] # None /\ table[e] # None
    <2>1. table[e] \in Row
      BY <1>4, NoneIsNothing DEF Tables
    <2>2. row = [table[e] EXCEPT !.labels = labels, !.last_seen = now]
      BY <1>1, <1>4 DEF Upsert
    <2>3. /\ row.log = table[e].log /\ row.first_seen = table[e].first_seen
          /\ row.last_seen = now
      BY <2>1, <2>2 DEF Row
    <2>4. /\ table[e].first_seen \in Nat /\ table[e].last_seen \in Nat
          /\ table[e].log \in Nat \cup {None}
      BY <2>1 DEF Row, Times
    <2>5. InOrder(table[e], now)
      BY <1>4 DEF Ordered
    <2> QED BY <2>3, <2>4, <2>5 DEF InOrder, row
  <1> QED BY <1>2, <1>3, <1>4

\* The log rates are of now, and written to rows seen now.
LEMMA LoggedOrdered ==
    ASSUME NEW table \in Tables, NEW seen, NEW answered, NEW now \in Nat,
           Ordered(table, now),
           \A e \in Ids : seen[e] # None => table[e] # None /\ table[e].last_seen = now
    PROVE  Ordered(SetLogs(table, seen, answered, now), now)
  <1> SUFFICES ASSUME NEW e \in Ids, SetLogs(table, seen, answered, now)[e] # None
               PROVE  InOrder(SetLogs(table, seen, answered, now)[e], now)
    BY DEF Ordered
  <1> DEFINE row == SetLogs(table, seen, answered, now)[e]
  <1>1. row = IF answered /\ seen[e] # None /\ table[e] # None
              THEN [table[e] EXCEPT !.log = now] ELSE table[e]
    BY DEF SetLogs
  <1> HIDE DEF row
  <1>2. CASE row = table[e]
    BY <1>2 DEF Ordered, row
  <1>3. CASE seen[e] # None /\ row = [table[e] EXCEPT !.log = now]
    <2>1. table[e] \in Row
      BY <1>3, NoneIsNothing DEF Tables
    <2>2. /\ row.log = now /\ row.first_seen = table[e].first_seen
          /\ row.last_seen = now
      BY <1>3, <2>1 DEF Row
    <2>3. InOrder(table[e], now) /\ table[e].last_seen = now
      BY <1>3 DEF Ordered
    <2> QED BY <2>2, <2>3 DEF InOrder, row
  <1> QED BY <1>1, <1>2, <1>3

\* A commit of a thread that is no discovery leaves what a sighting writes alone.
LEMMA SightingsKept ==
    ASSUME Inv, NEW t \in Threads, Begin(t) \/ Step(t), t \notin Discoverers, NEW e \in Ids
    PROVE  \/ db'[e] = None
           \/ /\ db[e] # None
              /\ db'[e].labels = db[e].labels /\ db'[e].log = db[e].log
              /\ db'[e].first_seen = db[e].first_seen
              /\ db'[e].last_seen = db[e].last_seen
  <1>1. CASE db' = db
    BY <1>1
  <1>2. CASE db' # db
    <2>1. Writes(t)
      BY <1>2, WritesOf
    <2>2. ~Finish(t)
      BY FinishEffect
    <2>3. CASE Sweep(t) \/ Retire(t)
      BY <2>3, DeleteEffect
    <2>4. CASE Respond(t) /\ writer = t
      BY <2>4, RespondEffect
    <2>5. CASE Pin(t)
      BY <2>5, PinEffect
    <2> QED BY <2>1, <2>2, <2>3, <2>4, <2>5 DEF Writes
  <1> QED BY <1>1, <1>2

-----------------------------------------------------------------------------
(* A step of another thread *)

\* A request neither moves the loop nor writes what it writes.
LEMMA RequestStep ==
    ASSUME SoloInv, Posters = {}, NEW t \in Threads, Begin(t) \/ Step(t), t # Loop
    PROVE  (TimesOK /\ BaseOK /\ KeptOK)'
  <1> Inv /\ TypeInv /\ ThreadsOK /\ t \notin Discoverers /\ Loop \in Threads
    BY DEF SoloInv, Inv, LockInv, TypeInv, Discoverers, Threads
  <1>1. pc'[Loop] = pc[Loop] /\ job'[Loop] = job[Loop] /\ clock' = clock
    BY OthersStay, ProcessStep
  <1>2. writer' = Loop => writer = Loop /\ UNCHANGED <<db, wdb>>
    <2>1. CASE writer \in Threads /\ writer # t
      BY <2>1, HolderUndisturbed
    <2>2. CASE writer \in {None, t}
      <3>1. writer' \in {writer, t, None}
        BY DEF Begin, Step, StartDiscovery, ReadRows, CheckEntity, SeeNodes,
               LockNodes, SeeContainers, LockContainers, Finish, ListFaded, Sweep, FailQuery,
               Build, StoreLinks, Respond, Retire, Pin, Reread, Relink, AnswerPut, LockTimeout,
               Hold, Commit, Rollback, Store
      <3> QED BY <2>2, <3>1, ThreadsAssumption
    <2> QED BY <2>1, <2>2 DEF TypeInv, TypeOK
  <1>3. ASSUME NEW limit, Ordered(db, limit) PROVE Ordered(db', limit)
    BY <1>3, SightingsKept DEF Ordered, InOrder
  <1>4. TimesOK'
    <2>1. Ordered(db', clock')
      BY <1>1, <1>3 DEF SoloInv, TimesOK
    <2>2. pc'[Loop] # "idle" => job'[Loop].now <= clock' /\ Ordered(db', job'[Loop].now)
      BY <1>1, <1>3 DEF SoloInv, TimesOK
    <2>3. writer' = Loop => Ordered(wdb', job'[Loop].now)
      BY <1>1, <1>2 DEF SoloInv, TimesOK
    <2> QED BY <2>1, <2>2, <2>3 DEF TimesOK, Ordered
  <1>5. BaseOK'
    <2> SUFFICES ASSUME pc[Loop] \in {"lock_nodes", "lock_containers"},
                        db'[job[Loop].id] # None,
                        db'[job[Loop].id].labels.compose # None
                 PROVE  job[Loop].base.compose # None
      BY <1>1 DEF BaseOK
    <2>1. job[Loop].id \in Ids
      BY ThreadFacts DEF ThreadOK
    <2>2. db[job[Loop].id] # None /\ db'[job[Loop].id].labels = db[job[Loop].id].labels
      BY <2>1, SightingsKept
    <2> QED BY <2>2 DEF SoloInv, BaseOK
  <1>6. KeptOK'
    BY <1>2 DEF SoloInv, KeptOK, Sticks
  <1> QED BY <1>4, <1>5, <1>6

-----------------------------------------------------------------------------
(* A step of the loop *)

LEMMA LoopTimes ==
    ASSUME SoloInv, Begin(Loop) \/ Step(Loop)
    PROVE  TimesOK'
  <1> DEFINE now == job[Loop].now
  <1> /\ Inv /\ TypeInv /\ ThreadsOK /\ LockDiscipline /\ TimesOK
      /\ db \in Tables /\ wdb \in Tables /\ clock \in Nat /\ now \in Nat
      /\ Loop \in Threads /\ Loop \in Discoverers /\ Loop # None
      /\ Loop \notin Getters /\ Loop \notin Putters
    BY ThreadFacts, ThreadsAssumption
       DEF SoloInv, Inv, LockInv, TypeInv, TypeOK, Discoverers, Threads, Times
  <1> SUFFICES /\ Ordered(db', clock)
               /\ pc'[Loop] # "idle" =>
                    job'[Loop].now <= clock /\ Ordered(db', job'[Loop].now)
               /\ writer' = Loop => Ordered(wdb', job'[Loop].now)
    <2>1. clock' = clock
      BY ProcessStep
    <2> QED BY <2>1 DEF TimesOK, Ordered
  <1> USE DEF TimesOK
  <1>1. CASE StartDiscovery(Loop)
    <2>1. job'[Loop] = [Blank EXCEPT !.now = clock]
      BY <1>1, GotoPc DEF StartDiscovery
    <2>2. job'[Loop].now = clock
      BY <2>1 DEF Blank
    <2>3. UNCHANGED <<db, wdb, writer>> /\ writer # Loop
      BY <1>1 DEF StartDiscovery, Store, LockDiscipline, Holding
    <2> QED BY <2>2, <2>3
  <1>2. CASE SeeNodes(Loop)
    <2>1. job'[Loop].now = now
      <3>1. \E seen, first, base :
              job'[Loop] \in {job[Loop], [job[Loop] EXCEPT !.seen = seen, !.id = first,
                                                           !.base = base]}
        BY <1>2, GotoPc DEF SeeNodes, FirstUpsert
      <3> QED BY <3>1, ThreadFacts DEF Jobs
    <2>2. UNCHANGED <<db, wdb, writer>> /\ writer # Loop /\ pc[Loop] # "idle"
      BY <1>2 DEF SeeNodes, Store, LockDiscipline, Holding
    <2> QED BY <2>1, <2>2
  <1>3. CASE LockNodes(Loop) \/ LockContainers(Loop)
    <2>1. job'[Loop].now = now /\ pc[Loop] # "idle"
      <3>1. job'[Loop] = [job[Loop] EXCEPT !.id = None, !.base = None]
        BY <1>3, GotoPc DEF LockNodes, LockContainers
      <3> QED BY <1>3, <3>1, ThreadFacts DEF Jobs, LockNodes, LockContainers
    <2>2. db' = db /\ wdb' = UpsertAll(db, job[Loop].seen, now, job[Loop].id, job[Loop].base)
      BY <1>3 DEF LockNodes, LockContainers, Hold, Upserted
    <2>3. Ordered(wdb', now)
      BY <2>1, <2>2, UpsertedOrdered, ThreadFacts
    <2> QED BY <2>1, <2>2, <2>3
  <1>4. CASE SeeContainers(Loop)
    <2>1. job'[Loop].now = now /\ pc[Loop] # "idle"
      <3>1. \E seen, first, base :
              job'[Loop] \in {job[Loop], [job[Loop] EXCEPT !.seen = seen],
                              [job[Loop] EXCEPT !.seen = seen, !.id = first, !.base = base]}
        BY <1>4, GotoPc DEF SeeContainers, FirstUpsert
      <3> QED BY <1>4, <3>1, ThreadFacts DEF Jobs, SeeContainers
    <2>2. CASE writer = Loop
      <3>1. PICK inv \in Inventories, cadvisor \in CAdvisors :
              Hold(Loop, Upserted(Loop, wdb, ContainerSightings(inv, cadvisor)))
        BY <1>4, <2>2 DEF SeeContainers
      <3>2. Ordered(Upserted(Loop, wdb, ContainerSightings(inv, cadvisor)), now)
        BY <2>2, UpsertedOrdered, ContainerSightingsType DEF Upserted
      <3> QED BY <2>1, <3>1, <3>2 DEF Hold
    <2>3. CASE writer # Loop
      <3>1. UNCHANGED <<db, wdb, writer>>
        BY <1>4, <2>3 DEF SeeContainers, Store
      <3> QED BY <2>1, <2>3, <3>1
    <2> QED BY <2>2, <2>3
  <1>5. CASE Finish(Loop)
    <2>1. PICK answered \in LogAnswers :
            LET logged == SetLogs(wdb, job[Loop].seen, answered, now)
            IN  Commit(Delete(logged, Faded(logged, now)))
      BY <1>5 DEF Finish
    <2> DEFINE logged == SetLogs(wdb, job[Loop].seen, answered, now)
    <2>2. writer = Loop /\ pc[Loop] = "see_logs" /\ pc'[Loop] = "idle"
      BY <1>5, GotoPc DEF Finish
    <2>3. \A e \in Ids : job[Loop].seen[e] # None => wdb[e] # None /\ wdb[e].last_seen = now
      BY <2>2 DEF Inv, ImageOK, SeenImage
    <2>4. Ordered(logged, now)
      BY <2>2, <2>3, LoggedOrdered
    <2>5. db' \in Tables
      BY <1>5, StoreTypeStep DEF StoreType
    <2>6. Ordered(db', now)
      BY <2>1, <2>4, DeleteOrdered DEF Commit
    <2>7. Ordered(db', clock) /\ writer' # Loop
      BY <2>1, <2>2, <2>5, <2>6, OrderedGrows DEF Commit
    <2> QED BY <2>2, <2>7
  <1>6. CASE ListFaded(Loop)
    <2>1. pc'[Loop] = "idle" \/ job'[Loop].now = now
      <3>1. \/ Goto(Loop, "idle", Blank)
            \/ \E gone : Goto(Loop, "sweep", [job[Loop] EXCEPT !.gone = gone])
        BY <1>6 DEF ListFaded
      <3>2. pc'[Loop] = "idle" \/ \E gone : job'[Loop] = [job[Loop] EXCEPT !.gone = gone]
        BY <3>1, GotoPc
      <3> QED BY <3>2, ThreadFacts DEF Jobs
    <2>2. UNCHANGED <<db, wdb, writer>> /\ writer # Loop /\ pc[Loop] # "idle"
      BY <1>6 DEF ListFaded, Store
    <2> QED BY <2>1, <2>2
  <1>7. CASE Sweep(Loop)
    <2>1. pc'[Loop] = "idle" /\ db' = Delete(db, job[Loop].gone) /\ writer' # Loop
      BY <1>7, GotoPc DEF Sweep, Commit
    <2> QED BY <2>1, DeleteOrdered
  <1>8. CASE FailQuery(Loop) \/ LockTimeout(Loop)
    <2>1. pc'[Loop] = "idle" /\ db' = db /\ writer' # Loop
      BY <1>8, GotoPc DEF FailQuery, LockTimeout, Rollback, Store, CanWrite
    <2> QED BY <2>1
  <1>9. pc[Loop] \in DiscoveryPCs
    BY ThreadFacts DEF ThreadOK
  <1> QED BY <1>1, <1>2, <1>3, <1>4, <1>5, <1>6, <1>7, <1>8, <1>9
             DEF Begin, Step, DiscoveryPCs, ReadRows, CheckEntity, Build, StoreLinks,
                 Respond, Retire, Pin, Reread, Relink, AnswerPut

\* The labels for the first upsert are the table's when the loop asks for the lock,
\* and its image is the table's but for what it saw.
LEMMA LoopLabels ==
    ASSUME SoloInv, Begin(Loop) \/ Step(Loop)
    PROVE  (BaseOK /\ KeptOK)'
  <1> /\ Inv /\ TypeInv /\ ThreadsOK /\ LockDiscipline
      /\ db \in Tables /\ wdb \in Tables
      /\ Loop \in Threads /\ Loop \in Discoverers /\ Loop # None
      /\ Loop \notin Getters /\ Loop \notin Putters
    BY ThreadsAssumption DEF SoloInv, Inv, LockInv, TypeInv, TypeOK, Discoverers, Threads
  <1>1. CASE SeeNodes(Loop) \/ (SeeContainers(Loop) /\ writer # Loop)
    <2>1. UNCHANGED <<db, wdb, writer>> /\ writer # Loop
      BY <1>1 DEF SeeNodes, SeeContainers, Store, LockDiscipline, Holding
    <2>2. \/ pc'[Loop] \in {"see_containers", "see_logs"}
          \/ \E seen, first : job'[Loop] = [job[Loop] EXCEPT !.seen = seen, !.id = first,
                                               !.base = LabelsOf(db[first], seen[first])]
      BY <1>1, GotoPc DEF SeeNodes, SeeContainers, FirstUpsert
    <2>3. BaseOK'
      <3>1. CASE pc'[Loop] \in {"see_containers", "see_logs"}
        BY <3>1 DEF BaseOK
      <3>2. CASE \E seen, first : job'[Loop] = [job[Loop] EXCEPT !.seen = seen, !.id = first,
                                                   !.base = LabelsOf(db[first], seen[first])]
        <4>1. PICK seen, first : job'[Loop] = [job[Loop] EXCEPT !.seen = seen, !.id = first,
                                                  !.base = LabelsOf(db[first], seen[first])]
          BY <3>2
        <4>2. job'[Loop].id = first /\ job'[Loop].base = LabelsOf(db[first], seen[first])
          BY <4>1, ThreadFacts DEF Jobs
        <4> QED BY <2>1, <4>2 DEF BaseOK, LabelsOf
      <3> QED BY <2>2, <3>1, <3>2
    <2> QED BY <2>1, <2>3 DEF KeptOK
  <1>2. CASE LockNodes(Loop) \/ LockContainers(Loop)
    <2> DEFINE id   == job[Loop].id
               seen == job[Loop].seen
    <2>1. pc'[Loop] \in {"see_containers", "see_logs"}
      BY <1>2, GotoPc DEF LockNodes, LockContainers
    <2>2. /\ db' = db
          /\ wdb' = UpsertAll(db, seen, job[Loop].now, id, job[Loop].base)
      BY <1>2 DEF LockNodes, LockContainers, Hold, Upserted
    <2>3. ASSUME NEW e \in Ids, db[e] # None, db[e].labels.compose # None
          PROVE  wdb'[e].labels.compose # None
      <3>1. CASE e # id
        BY <2>2, <2>3, <3>1, UpsertKeepsCompose, ThreadFacts
      <3>2. CASE e = id /\ seen[e] = None
        BY <2>2, <2>3, <3>2 DEF UpsertAll
      <3>3. CASE e = id /\ seen[e] # None
        <4>1. job[Loop].base.compose # None
          BY <1>2, <2>3, <3>3 DEF SoloInv, BaseOK, LockNodes, LockContainers
        <4>2. db[e] \in Row
          BY <2>3, NoneIsNothing DEF Tables
        <4>3. wdb'[e] = [db[e] EXCEPT !.labels = Merge(job[Loop].base, seen[e]),
                                      !.last_seen = job[Loop].now]
          BY <2>2, <2>3, <3>3 DEF UpsertAll, Upsert
        <4>4. wdb'[e].labels = Merge(job[Loop].base, seen[e])
          BY <4>2, <4>3 DEF Row
        <4> QED BY <4>1, <4>4 DEF Merge
      <3> QED BY <3>1, <3>2, <3>3
    <2> QED BY <2>1, <2>2, <2>3 DEF BaseOK, KeptOK, Sticks
  <1>3. CASE SeeContainers(Loop) /\ writer = Loop
    <2>1. PICK inv \in Inventories, cadvisor \in CAdvisors :
            Hold(Loop, Upserted(Loop, wdb, ContainerSightings(inv, cadvisor)))
      BY <1>3 DEF SeeContainers
    <2> DEFINE seen == ContainerSightings(inv, cadvisor)
    <2>2. pc'[Loop] = "see_logs"
      BY <1>3, GotoPc DEF SeeContainers
    <2>3. /\ db' = db
          /\ wdb' = UpsertAll(wdb, seen, job[Loop].now, job[Loop].id, job[Loop].base)
      BY <2>1 DEF Hold, Upserted
    <2>4. seen \in Sightings /\ job[Loop].id \notin Ids
      BY <1>3, ContainerSightingsType, ThreadFacts, NoneIsNothing
         DEF ThreadOK, SeeContainers, Querying
    <2>5. ASSUME NEW e \in Ids, db[e] # None, db[e].labels.compose # None
          PROVE  wdb'[e].labels.compose # None
      <3>1. wdb[e].labels.compose # None
        BY <1>3, <2>5 DEF SoloInv, KeptOK, Sticks
      <3>2. wdb[e] # None
        BY <1>3, <2>5 DEF Inv, ImageOK, SeenImage
      <3> QED BY <2>3, <2>4, <3>1, <3>2, UpsertKeepsCompose, ThreadFacts
    <2> QED BY <2>2, <2>3, <2>5 DEF BaseOK, KeptOK, Sticks
  <1>4. CASE StartDiscovery(Loop) \/ ListFaded(Loop)
    <2>1. pc'[Loop] \in {"see_nodes", "sweep", "idle"}
      BY <1>4, GotoPc DEF StartDiscovery, ListFaded
    <2>2. writer' = writer /\ writer # Loop
      BY <1>4 DEF StartDiscovery, ListFaded, Store, LockDiscipline, Holding
    <2> QED BY <2>1, <2>2 DEF BaseOK, KeptOK
  <1>5. CASE Finish(Loop) \/ Sweep(Loop) \/ FailQuery(Loop) \/ LockTimeout(Loop)
    <2>1. pc'[Loop] = "idle" /\ writer' # Loop
      BY <1>5, GotoPc DEF Finish, Sweep, FailQuery, LockTimeout, Commit, Rollback, Store, CanWrite
    <2> QED BY <2>1 DEF BaseOK, KeptOK
  <1>6. pc[Loop] \in DiscoveryPCs
    BY ThreadFacts DEF ThreadOK
  <1>7. \/ StartDiscovery(Loop) \/ SeeNodes(Loop) \/ LockNodes(Loop) \/ SeeContainers(Loop)
        \/ LockContainers(Loop) \/ Finish(Loop) \/ ListFaded(Loop) \/ Sweep(Loop)
        \/ FailQuery(Loop) \/ LockTimeout(Loop)
    BY <1>6 DEF Begin, Step, DiscoveryPCs, ReadRows, CheckEntity, Build, StoreLinks,
                Respond, Retire, Pin, Reread, Relink, AnswerPut
  <1> QED BY <1>1, <1>2, <1>3, <1>4, <1>5, <1>7

-----------------------------------------------------------------------------
(* The theorems *)

LEMMA SoloInvNext ==
    ASSUME Posters = {}
    PROVE  SoloInv /\ [Next]_vars => SoloInv'
  <1> SUFFICES ASSUME SoloInv, [Next]_vars PROVE (TimesOK /\ BaseOK /\ KeptOK)'
    BY InvNext DEF SoloInv
  <1> Loop \in Threads /\ Loop # None
    BY ThreadsAssumption DEF Discoverers, Threads
  <1>1. ASSUME NEW t \in Threads, Begin(t) \/ Step(t)
        PROVE  (TimesOK /\ BaseOK /\ KeptOK)'
    <2>1. CASE t = Loop
      BY <1>1, <2>1, LoopTimes, LoopLabels
    <2>2. CASE t # Loop
      BY <1>1, <2>2, RequestStep
    <2> QED BY <2>1, <2>2
  <1>2. CASE Tick
    <2>1. clock \in Nat /\ clock' = clock + 1 /\ db \in Tables
      BY <1>2 DEF Tick, SoloInv, Inv, LockInv, TypeInv, TypeOK, Times
    <2>2. UNCHANGED <<db, wdb, writer, pc, job>>
      BY <1>2 DEF Tick, Store
    <2>3. Ordered(db, clock')
      BY <2>1, OrderedGrows DEF SoloInv, TimesOK
    <2>4. pc[Loop] # "idle" => job[Loop].now <= clock'
      <3>1. job[Loop].now \in Nat
        BY ThreadFacts DEF SoloInv, Inv, LockInv, TypeInv, Times
      <3> QED BY <2>1, <3>1 DEF SoloInv, TimesOK
    <2> QED BY <2>2, <2>3, <2>4 DEF SoloInv, TimesOK, BaseOK, KeptOK, Ordered, Sticks
  <1>3. CASE ResolveUid \/ UNCHANGED vars
    BY <1>3 DEF ResolveUid, vars, Store, SoloInv, TimesOK, BaseOK, KeptOK, Ordered, Sticks
  <1>4. CASE Restart
    <2>1. /\ pc'[Loop] = "idle" /\ writer' = None
          /\ UNCHANGED <<db, clock>>
      BY <1>4 DEF Restart
    <2> QED BY <2>1 DEF SoloInv, TimesOK, BaseOK, KeptOK, Ordered
  <1> QED BY <1>1, <1>2, <1>3, <1>4 DEF Next

LEMMA SoloInvariance ==
    ASSUME Posters = {}
    PROVE  Spec => []SoloInv
  <1>1. Init => Inv
    BY TypeInvInit, ThreadsAssumption DEF Init, Inv, LockInv, LockDiscipline, ImageOK, Threads
  <1>2. Init => TimesOK /\ BaseOK /\ KeptOK
    BY ThreadsAssumption
       DEF Init, TimesOK, BaseOK, KeptOK, Ordered, EmptyTable, Discoverers, Threads
  <1>3. SoloInv /\ [Next]_vars => SoloInv'
    BY SoloInvNext
  <1> QED BY <1>1, <1>2, <1>3, PTL DEF Spec, SoloInv

\* While the loop is the only discovery a row's times are in order: it was not
\* first seen, nor its log rates read, after it was last seen, and it was last seen
\* in the past, whatever requests and restarts come between.
THEOREM TimesStayOrdered ==
    ASSUME Posters = {}
    PROVE  Spec => []TimesOrdered
  <1>1. SoloInv => TimesOrdered
    BY DEF SoloInv, TimesOK, Ordered, InOrder, TimesOrdered
  <1>2. Spec => []SoloInv
    BY SoloInvariance
  <1> QED BY <1>1, <1>2, PTL

\* While the loop is the only discovery no scrape, however much of it is missing,
\* flips the class of a row; only a PUT does. (The docstring of db.upsert.)
THEOREM ClassStays ==
    ASSUME Posters = {}
    PROVE  Spec => ClassNeverFlips
  <1>1. ASSUME SoloInv, [Next]_vars, NEW e \in Ids, Demoted(e)
        PROVE  ByPin(e)
    <2> Inv
      BY <1>1 DEF SoloInv
    <2>1. db' # db
      BY <1>1 DEF Demoted, Classify
    <2>2. PICK t \in Threads : Writes(t)
      BY <1>1, <2>1, OnlyWrites
    <2>3. CASE Finish(t)
      <3>1. db[e] # None /\ db'[e] # None
        BY <1>1 DEF Demoted, Stays
      <3>2. /\ t \in Discoverers /\ writer = t
            /\ db'[e].lifecycle = db[e].lifecycle
            /\ db'[e].labels \in {db[e].labels, wdb[e].labels}
        BY <2>3, <3>1, FinishEffect
      <3>3. db[e].labels.compose # None /\ db'[e].labels.compose = None
        BY <1>1, <3>2 DEF Demoted, Classify
      <3>4. Sticks(e)
        BY <1>1, <3>2 DEF SoloInv, KeptOK, Discoverers
      <3> QED BY <3>1, <3>2, <3>3, <3>4 DEF Sticks
    <2>4. CASE Sweep(t) \/ Retire(t)
      BY <1>1, <2>4, DeleteEffect DEF Demoted, Stays, Classify
    <2>5. CASE Respond(t) /\ writer = t
      BY <1>1, <2>5, RespondEffect DEF Demoted, Stays, Classify
    <2>6. CASE Pin(t)
      BY <1>1, <2>6, PinEffect DEF Demoted, Stays, Classify, ByPin
    <2> QED BY <2>2, <2>3, <2>4, <2>5, <2>6 DEF Writes
  <1>2. SoloInv /\ [Next]_vars => [\A e \in Ids : Demoted(e) => ByPin(e)]_vars
    BY <1>1
  <1>3. Spec => []SoloInv
    BY SoloInvariance
  <1> QED BY <1>2, <1>3, PTL DEF Spec, ClassNeverFlips
=============================================================================
