---------------------------- MODULE ExporterProofs ----------------------------
(***************************************************************************)
(* Exporter for any number of containers, VMs and scraping threads, and for   *)
(* every interval: types, that what is published is true, that a scrape is     *)
(* served what was published within the interval, and that nothing but an      *)
(* older poll that overlaps sets the last success back.                       *)
(***************************************************************************)
EXTENDS Exporter, TLAPS

\* A thread asks the questions of its own program, and has series where it is
\* about to use them.
AskOK(t) ==
    /\ pc[t] \in {"list", "inspect"} => program = "docker-inventory"
    /\ pc[t] \in {"find", "probe"} => program = "gpu-exporter"
    /\ pc[t] = "inspect" => job[t].series \in Inventories
    /\ pc[t] = "publish" => job[t].series \in Series

TypesOK == TypeOK /\ \A t \in Threads : AskOK(t)

\* What a poll knows so far was the case at some moment since it began.
KnowsOK(t) ==
    /\ pc[t] \in Polling => world \in during[t]
    /\ pc[t] = "inspect" =>
         \A c \in Containers \ job[t].left : \E w \in during[t] : job[t].series[c] = Listed(w)[c]
    /\ pc[t] = "probe" => \E w \in during[t] : w.holder = job[t].vm
    /\ pc[t] = "publish" =>
         IF job[t].failed THEN job[t].series \in {NothingListed, NobodyHolds}
         ELSE TrueOf(job[t].series, during[t])

TruthOK == \A t \in Threads : KnowsOK(t)

\* No time is ahead of the clock.
PastOK ==
    /\ polled <= clock /\ success <= clock /\ Start <= clock
    /\ cache # None => cache.at <= clock
    /\ \A t \in Threads : job[t].now <= clock

\* The main thread polls, successfully or not, before anything is served.
BootOK ==
    /\ pc[Main] # "respond"
    /\ pc[Main] = "boot" => polled = 0
    /\ pc[Main] \in {"stamp", "idle"} => cache # None
    /\ \A s \in Scrapers : pc[s] # "boot" /\ (pc[Main] # "idle" => pc[s] = "idle")

\* One poll after the other: each is later than all it finds, and what is cached
\* is at most one poll ahead of _last_poll.
TurnsOK ==
    /\ \A t, u \in Threads : pc[t] \in Polling /\ pc[u] \in Polling => t = u
    /\ \A t \in Threads : pc[t] \in Polling =>
            /\ polled <= job[t].now /\ success <= job[t].now
            /\ cache # None => cache.at <= job[t].now
    /\ \A t \in Threads : pc[t] = "stamp" => cache # None /\ cache.at = job[t].now
    /\ cache # None => polled <= cache.at
    /\ \A s \in Scrapers : pc[s] = "respond" =>
            cache # None /\ cache.at + Interval >= job[s].now

\* Polls that overlap included: _last_poll is the beginning of a poll that has
\* published since.
PublishedOK ==
    /\ polled <= published /\ published <= clock
    /\ \A t \in Threads : pc[t] = "stamp" => job[t].now <= published
    /\ \A s \in Scrapers : pc[s] = "respond" =>
            cache # None /\ published + Interval >= job[s].now

FreshOK == PastOK /\ BootOK /\ PublishedOK /\ (~overlapped => TurnsOK)

-----------------------------------------------------------------------------
(* Moving on *)

LEMMA SameProgram ==
    ASSUME UNCHANGED program
    PROVE  Worlds' = Worlds /\ Series' = Series /\ Texts' = Texts /\ Jobs' = Jobs
  BY DEF Worlds, Series, Texts, Jobs

\* A step moves the thread that takes it and no other.
LEMMA Moves ==
    ASSUME TypeOK, NEW t \in Threads, NEW to, NEW with, Goto(t, to, with)
    PROVE  /\ pc'[t] = to /\ job'[t] = with
           /\ \A u \in Threads : u # t => pc'[u] = pc[u] /\ job'[u] = job[u]
           /\ to \in PCs => pc' \in [Threads -> PCs]
           /\ with \in Jobs => job' \in [Threads -> Jobs]
  BY DEF TypeOK, Goto

LEMMA BlankOK ==
    /\ Blank \in Jobs
    /\ \A now \in Nat : [Blank EXCEPT !.now = now] \in Jobs
    /\ \A now \in Nat : [Blank EXCEPT !.now = now].now = now
  BY DEF Blank, Jobs

LEMMA SeriesOK ==
    ASSUME TypeOK
    PROVE  /\ Series = IF program = "docker-inventory" THEN Inventories ELSE GpuSeries
           /\ NothingListed \in Inventories /\ NobodyHolds \in GpuSeries
           /\ program \in {"docker-inventory", "gpu-exporter"}
  BY ProgramsAssumption DEF TypeOK, Series, Inventories, NothingListed, GpuSeries, NobodyHolds

LEMMA GotoTypes ==
    ASSUME TypesOK, NEW t \in Threads, NEW to \in PCs, NEW with \in Jobs,
           Goto(t, to, with), UNCHANGED program,
           to \in {"list", "inspect"} => program = "docker-inventory",
           to \in {"find", "probe"} => program = "gpu-exporter",
           to = "inspect" => with.series \in Inventories,
           to = "publish" => with.series \in Series
    PROVE  /\ pc' \in [Threads -> PCs] /\ job' \in [Threads -> Jobs']
           /\ \A u \in Threads : AskOK(u)'
<1>1. TypeOK /\ Jobs' = Jobs /\ Series' = Series
  BY SameProgram DEF TypesOK
<1>2. ASSUME NEW u \in Threads PROVE AskOK(u)'
  <2>1. CASE u = t
    BY <1>1, <2>1, Moves DEF AskOK
  <2>2. CASE u # t
    <3>1. pc'[u] = pc[u] /\ job'[u] = job[u]
      BY <1>1, <2>2, Moves
    <3> QED BY <1>1, <3>1 DEF TypesOK, AskOK
  <2> QED BY <2>1, <2>2
<1> QED BY <1>1, <1>2, Moves

\* The answer of a poll that is complete.
LEMMA BuiltTypes ==
    ASSUME TypesOK, NEW t \in Threads, NEW series \in Series, NEW failed \in BOOLEAN,
           Built(t, series, failed), UNCHANGED program
    PROVE  /\ pc' \in [Threads -> PCs] /\ job' \in [Threads -> Jobs']
           /\ \A u \in Threads : AskOK(u)'
<1>1. job[t] \in Jobs
  BY DEF TypesOK, TypeOK
<1> DEFINE with == [job[t] EXCEPT !.series = series, !.failed = failed]
<1>2. with \in Jobs /\ with.series = series
  BY <1>1 DEF Jobs
<1>3. Goto(t, "publish", with)
  BY DEF Built
<1> HIDE DEF with
<1> QED BY <1>2, <1>3, GotoTypes DEF PCs, Polling

LEMMA BeginTypes == ASSUME TypesOK, NEW t \in Threads, Begin(t) PROVE TypesOK'
<1>1. UNCHANGED <<program, clock, world, changes, cache, polled, success>>
  BY DEF Begin, Outside
<1>2. clock \in Nat /\ world \in Worlds /\ program \in {"docker-inventory", "gpu-exporter"}
  BY SeriesOK DEF TypesOK, TypeOK
<1> DEFINE with == [Blank EXCEPT !.now = clock]
<1>3. with \in Jobs
  BY <1>2, BlankOK
<1> HIDE DEF with
<1>4. PICK to \in {"list", "find", "respond"} :
        /\ Goto(t, to, with)
        /\ to = "list" => program = "docker-inventory"
        /\ to = "find" => program = "gpu-exporter"
  <2>1. CASE Due
    BY <1>2, <2>1 DEF Begin, FirstQuestion, with
  <2>2. CASE ~Due
    BY <1>2, <2>2 DEF Begin, with
  <2> QED BY <2>1, <2>2
<1>5. /\ pc' \in [Threads -> PCs] /\ job' \in [Threads -> Jobs']
      /\ \A u \in Threads : AskOK(u)'
  BY <1>1, <1>3, <1>4, GotoTypes DEF PCs, Polling
<1>6. during' \in [Threads -> SUBSET Worlds] /\ overlapped' \in BOOLEAN /\ published' \in Nat
  BY <1>2 DEF TypesOK, TypeOK, Begin
<1> QED BY <1>1, <1>5, <1>6, SameProgram DEF TypesOK, TypeOK

\* The questions.
LEMMA ListTypes == ASSUME TypesOK, NEW t \in Threads, List(t) PROVE TypesOK'
<1>1. UNCHANGED <<program, clock, world, changes, cache, polled, success, during, published, overlapped>>
  BY DEF List, Outside
<1>2. job[t] \in Jobs /\ program = "docker-inventory" /\ Series = Inventories
      /\ NothingListed \in Inventories
  BY SeriesOK DEF TypesOK, TypeOK, AskOK, List
<1>3. /\ pc' \in [Threads -> PCs] /\ job' \in [Threads -> Jobs']
      /\ \A u \in Threads : AskOK(u)'
  <2>1. CASE Goto(t, "inspect", [job[t] EXCEPT !.left = Present, !.series = NothingListed])
    <3> DEFINE with == [job[t] EXCEPT !.left = Present, !.series = NothingListed]
    <3>1. with \in Jobs /\ with.series = NothingListed
      BY <1>2 DEF Jobs, Present
    <3> HIDE DEF with
    <3>2. Goto(t, "inspect", with)
      BY <2>1 DEF with
    <3> QED BY <1>1, <1>2, <3>1, <3>2, GotoTypes DEF PCs, Polling
  <2>2. CASE Built(t, NothingListed, TRUE)
    BY <1>1, <1>2, <2>2, BuiltTypes
  <2> QED BY <2>1, <2>2 DEF List
<1> QED BY <1>1, <1>3, SameProgram DEF TypesOK, TypeOK

LEMMA ReportedOK ==
    ASSUME TypeOK, program = "docker-inventory", NEW c \in Present
    PROVE  Reported(world[c]) \in InventoryRow
<1>1. world[c] \in DockerContainer
  BY DEF TypeOK, Worlds, Dockers, Present
<1> QED BY <1>1, StandaloneAssumption DEF DockerContainer, Reported, InventoryRow

LEMMA InspectTypes == ASSUME TypesOK, NEW t \in Threads, Inspect(t) PROVE TypesOK'
<1>1. UNCHANGED <<program, clock, world, changes, cache, polled, success, during, published, overlapped>>
  BY DEF Inspect, Outside
<1>2. job[t] \in Jobs /\ program = "docker-inventory" /\ Series = Inventories
      /\ NothingListed \in Inventories /\ job[t].series \in Inventories
  BY SeriesOK DEF TypesOK, TypeOK, AskOK, Inspect
<1>3. /\ pc' \in [Threads -> PCs] /\ job' \in [Threads -> Jobs']
      /\ \A u \in Threads : AskOK(u)'
  <2>1. CASE Built(t, job[t].series, FALSE) \/ Built(t, NothingListed, TRUE)
    BY <1>1, <1>2, <2>1, BuiltTypes
  <2>2. ASSUME NEW c \in job[t].left \cap Present,
               Goto(t, "inspect",
                    [job[t] EXCEPT !.left = @ \ {c}, !.series[c] = Reported(world[c])])
        PROVE  /\ pc' \in [Threads -> PCs] /\ job' \in [Threads -> Jobs']
               /\ \A u \in Threads : AskOK(u)'
    <3> DEFINE series == [job[t].series EXCEPT ![c] = Reported(world[c])]
    <3> DEFINE with == [job[t] EXCEPT !.left = @ \ {c}, !.series = series]
    <3>1. series \in Inventories
      BY <1>2, ReportedOK DEF TypesOK, Inventories
    <3>2. Goto(t, "inspect", with)
      BY <2>2
    <3> HIDE DEF series
    <3>3. with \in Jobs /\ with.series = series
      BY <1>2, <3>1 DEF Jobs
    <3> HIDE DEF with
    <3> QED BY <1>1, <1>2, <3>1, <3>2, <3>3, GotoTypes DEF PCs, Polling
  <2> QED BY <2>1, <2>2 DEF Inspect
<1> QED BY <1>1, <1>3, SameProgram DEF TypesOK, TypeOK

LEMMA GpuTypes ==
    ASSUME TypesOK, NEW t \in Threads, FindHolder(t) \/ Read(t) \/ Unreadable(t)
    PROVE  TypesOK'
<1>1. UNCHANGED <<program, clock, world, changes, cache, polled, during, published, overlapped>>
  BY DEF FindHolder, Read, Unreadable, Outside
<1>2. job[t] \in Jobs /\ program = "gpu-exporter" /\ Series = GpuSeries
      /\ NobodyHolds \in GpuSeries /\ world \in Cards
  BY SeriesOK DEF TypesOK, TypeOK, AskOK, FindHolder, Read, Unreadable, Worlds
<1>3. success' \in Nat
  BY <1>2 DEF TypesOK, TypeOK, FindHolder, Read, Unreadable, Jobs
<1>4. /\ pc' \in [Threads -> PCs] /\ job' \in [Threads -> Jobs']
      /\ \A u \in Threads : AskOK(u)'
  <2>1. CASE Built(t, NobodyHolds, FALSE) \/ Built(t, NobodyHolds, TRUE)
    BY <1>1, <1>2, <2>1, BuiltTypes
  <2>2. CASE Goto(t, "probe", [job[t] EXCEPT !.vm = world.holder])
    <3> DEFINE with == [job[t] EXCEPT !.vm = world.holder]
    <3>1. with \in Jobs
      BY <1>2 DEF Jobs, Cards
    <3> HIDE DEF with
    <3>2. Goto(t, "probe", with)
      BY <2>2 DEF with
    <3> QED BY <1>1, <1>2, <3>1, <3>2, GotoTypes DEF PCs, Polling
  <2>3. CASE Built(t, [vm |-> job[t].vm, reading |-> world.reading], FALSE)
             \/ Built(t, [vm |-> job[t].vm, reading |-> None], FALSE)
    <3>1. /\ [vm |-> job[t].vm, reading |-> world.reading] \in GpuSeries
          /\ [vm |-> job[t].vm, reading |-> None] \in GpuSeries
      BY <1>2 DEF Jobs, Cards, GpuSeries
    <3> QED BY <1>1, <1>2, <2>3, <3>1, BuiltTypes
  <2> QED BY <2>1, <2>2, <2>3 DEF FindHolder, Read, Unreadable
<1> QED BY <1>1, <1>3, <1>4, SameProgram DEF TypesOK, TypeOK

LEMMA CacheTypes ==
    ASSUME TypesOK, NEW t \in Threads, Publish(t) \/ Stamp(t) \/ Respond(t)
    PROVE  TypesOK'
<1>1. UNCHANGED <<program, clock, world, changes, success, overlapped>>
      /\ published' \in Nat
  BY DEF Publish, Stamp, Respond, Outside, TypesOK, TypeOK
<1>2. job[t] \in Jobs /\ success \in Nat
  BY DEF TypesOK, TypeOK
<1>3. polled' \in Nat
  BY <1>2 DEF TypesOK, TypeOK, Publish, Stamp, Respond, Jobs
<1>4. cache' \in Texts \cup {None}
  <2>1. CASE Publish(t)
    BY <1>2, <2>1 DEF TypesOK, AskOK, Publish, Jobs, Texts
  <2> QED BY <2>1 DEF TypesOK, TypeOK, Stamp, Respond
<1>5. during' \in [Threads -> SUBSET Worlds]
  BY DEF TypesOK, TypeOK, Publish, Stamp, Respond
<1>6. PICK to \in {"stamp", "idle", "respond"},
           with \in {job[t], [job[t] EXCEPT !.series = None], Blank} : Goto(t, to, with)
  BY DEF Publish, Stamp, Respond
<1>7. with \in Jobs
  BY <1>2, BlankOK DEF Jobs
<1>8. /\ pc' \in [Threads -> PCs] /\ job' \in [Threads -> Jobs']
      /\ \A u \in Threads : AskOK(u)'
  BY <1>1, <1>6, <1>7, GotoTypes DEF PCs, Polling
<1> QED BY <1>1, <1>3, <1>4, <1>5, <1>8, SameProgram DEF TypesOK, TypeOK

LEMMA OutsideTypes ==
    ASSUME TypesOK, Tick \/ WorldChanges \/ Restart \/ UNCHANGED vars
    PROVE  TypesOK'
<1>1. UNCHANGED program
  BY DEF Tick, WorldChanges, Restart, Outside, vars
<1>2. CASE Tick \/ UNCHANGED vars
  BY <1>1, <1>2, SameProgram DEF TypesOK, TypeOK, AskOK, Tick, vars
<1>3. CASE WorldChanges
  BY <1>1, <1>3, SameProgram DEF TypesOK, TypeOK, AskOK, WorldChanges
<1>4. CASE Restart
  <2>1. \A t \in Threads : pc'[t] \in {"boot", "idle"} /\ job'[t] = Blank
    BY <1>4 DEF Restart, Booting
  <2>2. pc' \in [Threads -> PCs] /\ job' \in [Threads -> Jobs]
    BY <1>4, BlankOK DEF Restart, Booting, PCs
  <2> QED BY <1>1, <1>4, <2>1, <2>2, SameProgram
          DEF TypesOK, TypeOK, AskOK, Restart, Outside
<1> QED BY <1>2, <1>3, <1>4

LEMMA TypesInit == Init => TypesOK
<1> SUFFICES ASSUME Init PROVE TypesOK
  OBVIOUS
<1>1. pc \in [Threads -> PCs] /\ job \in [Threads -> Jobs]
  BY BlankOK DEF Init, Booting, PCs
<1>2. \A t \in Threads : pc[t] \in {"boot", "idle"}
  BY DEF Init, Booting
<1>3. Start \in Nat
  BY IntervalAssumption DEF Start
<1> QED BY <1>1, <1>2, <1>3 DEF Init, TypesOK, TypeOK, AskOK

LEMMA TypesNext == TypesOK /\ [Next]_vars => TypesOK'
<1> SUFFICES ASSUME TypesOK, [Next]_vars PROVE TypesOK'
  OBVIOUS
<1>1. Main \in Threads
  BY DEF Threads
<1> QED BY <1>1, BeginTypes, ListTypes, InspectTypes, GpuTypes, CacheTypes, OutsideTypes
        DEF Next, Boot, Scrape, Step

\* Types, whatever the threads poll and however they interleave.
THEOREM AlwaysTyped == Spec => []TypeOK
  BY TypesInit, TypesNext, PTL DEF Spec, TypesOK

-----------------------------------------------------------------------------
(* What is published *)

\* Nothing that has been the case is forgotten while a thread polls.
LEMMA Remembered ==
    ASSUME TruthOK, NEW u \in Threads, UNCHANGED program, pc'[u] = pc[u], job'[u] = job[u],
           during[u] \subseteq during'[u],
           pc[u] \in Polling => world' \in during'[u]
    PROVE  KnowsOK(u)'
<1>1. KnowsOK(u)
  BY DEF TruthOK
<1>2. \A c \in Containers : \A r : (\E w \in during[u] : r[c] = Listed(w)[c])
                                 => \E w \in during'[u] : r[c] = Listed(w)[c]
  OBVIOUS
<1>3. TrueOf(job[u].series, during[u]) => TrueOf(job[u].series, during[u])'
  BY DEF TrueOf
<1>4. pc'[u] = "inspect" => \A c \in Containers \ job'[u].left :
                              \E w \in during'[u] : job'[u].series[c] = Listed(w)[c]
  BY <1>1, <1>2 DEF KnowsOK
<1>5. pc'[u] = "probe" => \E w \in during'[u] : w.holder = job'[u].vm
  BY <1>1 DEF KnowsOK
<1>6. pc'[u] = "publish" =>
         IF job'[u].failed THEN job'[u].series \in {NothingListed, NobodyHolds}
         ELSE TrueOf(job[u].series, during[u])'
  BY <1>1, <1>3 DEF KnowsOK
<1> QED BY <1>4, <1>5, <1>6 DEF KnowsOK

\* A step of t is about t's own poll.
LEMMA OnlyOwnPoll ==
    ASSUME TypesOK, TruthOK, NEW t \in Threads, NEW to, NEW with, Goto(t, to, with),
           UNCHANGED <<program, world, during>>, KnowsOK(t)'
    PROVE  TruthOK'
<1> SUFFICES ASSUME NEW u \in Threads PROVE KnowsOK(u)'
  BY DEF TruthOK
<1>1. CASE u # t
  <2>1. pc'[u] = pc[u] /\ job'[u] = job[u]
    BY <1>1, Moves DEF TypesOK
  <2>2. pc[u] \in Polling => world \in during[u]
    BY DEF TruthOK, KnowsOK
  <2> QED BY <2>1, <2>2, Remembered
<1> QED BY <1>1

LEMMA BuiltTruth ==
    ASSUME TypesOK, TruthOK, NEW t \in Threads, pc[t] \in Polling,
           UNCHANGED <<program, world, during>>,
           NEW series, NEW failed \in BOOLEAN, Built(t, series, failed),
           IF failed THEN series \in {NothingListed, NobodyHolds}
           ELSE TrueOf(series, during[t])
    PROVE  TruthOK'
<1> DEFINE with == [job[t] EXCEPT !.series = series, !.failed = failed]
<1>1. with.series = series /\ with.failed = failed
  BY DEF TypesOK, TypeOK, Jobs
<1>2. Goto(t, "publish", with)
  BY DEF Built
<1> HIDE DEF with
<1>3. pc'[t] = "publish" /\ job'[t] = with
  BY <1>2, Moves DEF TypesOK
<1>4. world \in during[t]
  BY DEF TruthOK, KnowsOK
<1>5. TrueOf(series, during[t]) => TrueOf(series, during[t])'
  BY DEF TrueOf
<1>6. KnowsOK(t)'
  BY <1>1, <1>3, <1>4, <1>5 DEF KnowsOK
<1> QED BY <1>2, <1>6, OnlyOwnPoll

LEMMA BeginTruth == ASSUME TypesOK, TruthOK, NEW t \in Threads, Begin(t) PROVE TruthOK'
<1>1. UNCHANGED <<program, world>>
  BY DEF Begin, Outside
<1>2. PICK to, with :
        /\ to \in {"list", "find", "respond"}
        /\ Goto(t, to, with)
        /\ IF to = "respond" THEN UNCHANGED during
           ELSE during' = [during EXCEPT ![t] = {world}]
  BY DEF Begin, FirstQuestion
<1>3. pc'[t] = to /\ \A u \in Threads : u # t => pc'[u] = pc[u] /\ job'[u] = job[u]
  BY <1>2, Moves DEF TypesOK
<1>4. during \in [Threads -> SUBSET Worlds]
  BY DEF TypesOK, TypeOK
<1> SUFFICES ASSUME NEW u \in Threads PROVE KnowsOK(u)'
  BY DEF TruthOK
<1>5. CASE u = t
  BY <1>1, <1>2, <1>3, <1>4, <1>5 DEF KnowsOK, Polling
<1>6. CASE u # t
  <2>1. pc'[u] = pc[u] /\ job'[u] = job[u] /\ during'[u] = during[u]
    BY <1>2, <1>3, <1>4, <1>6
  <2>2. pc[u] \in Polling => world \in during[u]
    BY DEF TruthOK, KnowsOK
  <2> QED BY <1>1, <2>1, <2>2, Remembered
<1> QED BY <1>5, <1>6

\* The names are those of the containers there are now ...
LEMMA ListTruth == ASSUME TypesOK, TruthOK, NEW t \in Threads, List(t) PROVE TruthOK'
<1>1. UNCHANGED <<program, world, during>> /\ pc[t] = "list" /\ pc[t] \in Polling
  BY DEF List, Outside, Polling
<1>2. world \in during[t] /\ world \in [Containers -> DockerContainer \cup {None}]
  BY <1>1 DEF TruthOK, KnowsOK, TypesOK, TypeOK, AskOK, Worlds, Dockers
<1>3. CASE Goto(t, "inspect", [job[t] EXCEPT !.left = Present, !.series = NothingListed])
  <2> DEFINE with == [job[t] EXCEPT !.left = Present, !.series = NothingListed]
  <2>1. with.left = Present /\ with.series = NothingListed
    BY DEF TypesOK, TypeOK, Jobs
  <2>2. Goto(t, "inspect", with)
    BY <1>3
  <2> HIDE DEF with
  <2>3. pc'[t] = "inspect" /\ job'[t] = with
    BY <2>2, Moves DEF TypesOK
  <2>4. \A c \in Containers \ Present : NothingListed[c] = Listed(world)[c]
    BY DEF Present, NothingListed, Listed
  <2>5. KnowsOK(t)'
    BY <1>1, <1>2, <2>1, <2>3, <2>4 DEF KnowsOK
  <2> QED BY <1>1, <2>2, <2>5, OnlyOwnPoll
<1>4. CASE Built(t, NothingListed, TRUE)
  BY <1>1, <1>4, BuiltTruth
<1> QED BY <1>3, <1>4 DEF List

\* ... and each is inspected as it is then.
LEMMA InspectTruth == ASSUME TypesOK, TruthOK, NEW t \in Threads, Inspect(t) PROVE TruthOK'
<1>1. /\ UNCHANGED <<program, world, during>> /\ pc[t] = "inspect" /\ pc[t] \in Polling
      /\ program = "docker-inventory"
  BY DEF Inspect, Outside, Polling, TypesOK, AskOK
<1>2. world \in during[t]
  BY <1>1 DEF TruthOK, KnowsOK
<1>3. /\ job[t] \in Jobs /\ job[t].series \in Inventories
      /\ \A c \in Containers \ job[t].left :
           \E w \in during[t] : job[t].series[c] = Listed(w)[c]
  BY <1>1 DEF TypesOK, TypeOK, AskOK, TruthOK, KnowsOK
<1>4. CASE job[t].left = {} /\ Built(t, job[t].series, FALSE)
  <2>1. TrueOf(job[t].series, during[t])
    BY <1>1, <1>3, <1>4 DEF TrueOf
  <2> QED BY <1>1, <1>4, <2>1, BuiltTruth
<1>5. ASSUME NEW c \in job[t].left \cap Present,
             Goto(t, "inspect",
                  [job[t] EXCEPT !.left = @ \ {c}, !.series[c] = Reported(world[c])])
      PROVE  TruthOK'
  <2> DEFINE series == [job[t].series EXCEPT ![c] = Reported(world[c])]
  <2> DEFINE with == [job[t] EXCEPT !.left = @ \ {c}, !.series = series]
  <2>1. Goto(t, "inspect", with)
    BY <1>5
  <2>2. /\ c \in Containers /\ world[c] # None
        /\ \A d \in Containers :
             series[d] = IF d = c THEN Reported(world[c]) ELSE job[t].series[d]
    BY <1>3 DEF Present, Inventories
  <2> HIDE DEF series
  <2>3. with.left = job[t].left \ {c} /\ with.series = series
    BY <1>3 DEF Jobs
  <2> HIDE DEF with
  <2>4. pc'[t] = "inspect" /\ job'[t] = with
    BY <2>1, Moves DEF TypesOK
  <2>5. Listed(world)[c] = Reported(world[c])
    BY <2>2 DEF Listed
  <2>6. ASSUME NEW d \in Containers \ with.left
        PROVE  \E w \in during[t] : series[d] = Listed(w)[d]
    <3>1. CASE d = c
      BY <1>2, <2>2, <2>5, <3>1
    <3>2. CASE d # c
      BY <1>3, <2>2, <2>3, <3>2
    <3> QED BY <3>1, <3>2
  <2>7. KnowsOK(t)'
    BY <1>1, <1>2, <2>3, <2>4, <2>6 DEF KnowsOK
  <2> QED BY <1>1, <2>1, <2>7, OnlyOwnPoll
<1>6. CASE Built(t, NothingListed, TRUE)
  BY <1>1, <1>6, BuiltTruth
<1> QED BY <1>4, <1>5, <1>6 DEF Inspect

\* Who holds the card, and the reading while it still does.
LEMMA GpuTruth ==
    ASSUME TypesOK, TruthOK, NEW t \in Threads, FindHolder(t) \/ Read(t) \/ Unreadable(t)
    PROVE  TruthOK'
<1>1. /\ UNCHANGED <<program, world, during>> /\ pc[t] \in {"find", "probe"}
      /\ pc[t] \in Polling /\ program = "gpu-exporter"
  BY DEF FindHolder, Read, Unreadable, Outside, Polling, TypesOK, AskOK
<1>2. world \in during[t]
  BY <1>1 DEF TruthOK, KnowsOK
<1>3. CASE FindHolder(t)
  <2>1. CASE world.holder = None /\ Built(t, NobodyHolds, FALSE)
    <3>1. TrueOf(NobodyHolds, during[t])
      BY <1>1, <1>2, <2>1 DEF TrueOf, NobodyHolds
    <3> QED BY <1>1, <2>1, <3>1, BuiltTruth
  <2>2. CASE Goto(t, "probe", [job[t] EXCEPT !.vm = world.holder])
    <3> DEFINE with == [job[t] EXCEPT !.vm = world.holder]
    <3>1. with.vm = world.holder
      BY DEF TypesOK, TypeOK, Jobs
    <3>2. Goto(t, "probe", with)
      BY <2>2
    <3> HIDE DEF with
    <3>3. pc'[t] = "probe" /\ job'[t] = with
      BY <3>2, Moves DEF TypesOK
    <3>4. KnowsOK(t)'
      BY <1>1, <1>2, <3>1, <3>3 DEF KnowsOK
    <3> QED BY <1>1, <3>2, <3>4, OnlyOwnPoll
  <2>3. CASE Built(t, NobodyHolds, TRUE)
    BY <1>1, <2>3, BuiltTruth
  <2> QED BY <1>3, <2>1, <2>2, <2>3 DEF FindHolder
<1>4. CASE Read(t)
  <2>1. TrueOf([vm |-> job[t].vm, reading |-> world.reading], during[t])
    BY <1>1, <1>2, <1>4 DEF Read, TrueOf
  <2>2. Built(t, [vm |-> job[t].vm, reading |-> world.reading], FALSE)
    BY <1>4 DEF Read
  <2> QED BY <1>1, <2>1, <2>2, BuiltTruth
<1>5. CASE Unreadable(t)
  <2>1. \E w \in during[t] : w.holder = job[t].vm
    BY <1>5 DEF Unreadable, TruthOK, KnowsOK
  <2>2. TrueOf([vm |-> job[t].vm, reading |-> None], during[t])
    BY <1>1, <2>1 DEF TrueOf
  <2>3. Built(t, [vm |-> job[t].vm, reading |-> None], FALSE)
    BY <1>5 DEF Unreadable
  <2> QED BY <1>1, <2>2, <2>3, BuiltTruth
<1> QED BY <1>3, <1>4, <1>5

LEMMA CacheTruth ==
    ASSUME TypesOK, TruthOK, NEW t \in Threads, Publish(t) \/ Stamp(t) \/ Respond(t)
    PROVE  TruthOK'
<1>1. UNCHANGED <<program, world>>
  BY DEF Publish, Stamp, Respond, Outside
<1>2. PICK to, with : to \in {"stamp", "idle", "respond"} /\ Goto(t, to, with)
  BY DEF Publish, Stamp, Respond
<1>3. pc'[t] = to /\ \A u \in Threads : u # t => pc'[u] = pc[u] /\ job'[u] = job[u]
  BY <1>2, Moves DEF TypesOK
<1>4. \/ UNCHANGED during
      \/ to # "stamp" /\ during' = [during EXCEPT ![t] = {}]
  BY <1>3 DEF Publish, Stamp, Respond, Goto, TypesOK, TypeOK
<1>5. to = "stamp" => pc[t] = "publish"
  BY <1>3 DEF Publish, Stamp, Respond, Goto, TypesOK, TypeOK
<1>6. \A u \in Threads : pc[u] \in Polling => world \in during[u]
  BY DEF TruthOK, KnowsOK
<1>7. during \in [Threads -> SUBSET Worlds]
  BY DEF TypesOK, TypeOK
<1> SUFFICES ASSUME NEW u \in Threads PROVE KnowsOK(u)'
  BY DEF TruthOK
<1>8. CASE u = t
  BY <1>1, <1>2, <1>3, <1>4, <1>5, <1>6, <1>8 DEF KnowsOK, Polling
<1>9. CASE u # t
  <2>1. pc'[u] = pc[u] /\ job'[u] = job[u] /\ during'[u] = during[u]
    BY <1>3, <1>4, <1>7, <1>9
  <2> QED BY <1>1, <1>6, <2>1, Remembered
<1> QED BY <1>8, <1>9

LEMMA OutsideTruth ==
    ASSUME TypesOK, TruthOK, Tick \/ WorldChanges \/ Restart \/ UNCHANGED vars
    PROVE  TruthOK'
<1>1. UNCHANGED program
  BY DEF Tick, WorldChanges, Restart, Outside, vars
<1>2. \A u \in Threads : pc[u] \in Polling => world \in during[u]
  BY DEF TruthOK, KnowsOK
<1> SUFFICES ASSUME NEW u \in Threads PROVE KnowsOK(u)'
  BY DEF TruthOK
<1>3. CASE Tick \/ UNCHANGED vars
  BY <1>1, <1>2, <1>3, Remembered DEF Tick, vars
<1>4. CASE WorldChanges
  BY <1>1, <1>2, <1>4, Remembered DEF WorldChanges
<1>5. CASE Restart
  BY <1>5 DEF Restart, Booting, KnowsOK, Polling
<1> QED BY <1>3, <1>4, <1>5

LEMMA TruthNext == TypesOK /\ TruthOK /\ [Next]_vars => TruthOK'
<1> SUFFICES ASSUME TypesOK, TruthOK, [Next]_vars PROVE TruthOK'
  OBVIOUS
<1>1. Main \in Threads
  BY DEF Threads
<1> QED BY <1>1, BeginTruth, ListTruth, InspectTruth, GpuTruth, CacheTruth, OutsideTruth
        DEF Next, Boot, Scrape, Step

LEMMA TruthInit == Init => TruthOK
  BY DEF Init, Booting, TruthOK, KnowsOK, Polling

\* Only its own Publish takes a thread from "publish" to "stamp".
LEMMA PublishStep ==
    ASSUME TypesOK, [Next]_vars, NEW t \in Threads, pc[t] = "publish", pc'[t] = "stamp"
    PROVE  cache'.series = job[t].series
<1>1. ASSUME NEW u \in Threads, NEW to, NEW with, Goto(u, to, with), u # t \/ to # "stamp"
      PROVE  FALSE
  BY <1>1, Moves DEF TypesOK
<1>2. ~(Tick \/ WorldChanges \/ Restart \/ UNCHANGED vars)
  BY DEF Tick, WorldChanges, Restart, Booting, vars
<1>3. ASSUME NEW u \in Threads, Begin(u) PROVE FALSE
  BY <1>1, <1>3 DEF Begin, FirstQuestion
<1>4. ASSUME NEW u \in Threads, List(u) \/ Inspect(u) PROVE FALSE
  BY <1>1, <1>4 DEF List, Inspect, Built
<1>5. ASSUME NEW u \in Threads, FindHolder(u) \/ Read(u) \/ Unreadable(u) PROVE FALSE
  BY <1>1, <1>5 DEF FindHolder, Read, Unreadable, Built
<1>6. ASSUME NEW u \in Threads, Stamp(u) \/ Respond(u) PROVE FALSE
  BY <1>1, <1>6 DEF Stamp, Respond
<1>7. ASSUME NEW u \in Threads, Publish(u) PROVE cache'.series = job[t].series
  <2>1. u = t
    BY <1>1, <1>7 DEF Publish
  <2> QED BY <1>7, <2>1 DEF Publish
<1>8. Main \in Threads
  BY DEF Threads
<1> QED BY <1>2, <1>3, <1>4, <1>5, <1>6, <1>7, <1>8 DEF Next, Boot, Scrape, Step

\* Whatever fails or changes in the middle of a poll, and however many threads
\* poll at once: the text that is published was the case at some moment since the
\* poll began, less what could not be read.
THEOREM AlwaysTrue == Spec => PublishedIsTrue
<1> DEFINE Good ==
      \A t \in Threads : pc[t] = "publish" /\ pc'[t] = "stamp" =>
        IF job[t].failed THEN cache'.series \in {NothingListed, NobodyHolds}
        ELSE TrueOf(cache'.series, during[t])
<1>1. TypesOK /\ TruthOK /\ [Next]_vars => [Good]_vars
  <2> SUFFICES ASSUME TypesOK, TruthOK, [Next]_vars, NEW t \in Threads,
                      pc[t] = "publish", pc'[t] = "stamp"
               PROVE  IF job[t].failed THEN cache'.series \in {NothingListed, NobodyHolds}
                      ELSE TrueOf(cache'.series, during[t])
    OBVIOUS
  <2>1. KnowsOK(t) /\ cache'.series = job[t].series
    BY PublishStep DEF TruthOK
  <2> QED BY <2>1 DEF KnowsOK
<1> QED BY <1>1, TypesInit, TypesNext, TruthInit, TruthNext, PTL DEF Spec, PublishedIsTrue

-----------------------------------------------------------------------------
(* What is served *)

LEMMA TimesTyped ==
    ASSUME TypesOK
    PROVE  /\ clock \in Nat /\ polled \in Nat /\ success \in Nat
           /\ cache # None => cache.at \in Nat
           /\ Interval \in Nat /\ Start \in Nat /\ Start > Interval
           /\ \A t \in Threads : job[t].now \in Nat
           /\ Main \in Threads /\ Main \notin Scrapers /\ Scrapers \subseteq Threads
           /\ published \in Nat /\ overlapped \in BOOLEAN
  BY IntervalAssumption, ScrapersAssumption
     DEF TypesOK, TypeOK, Texts, Jobs, Start, Threads

\* A poll that is asking.
Asking == {"list", "inspect", "find", "probe", "publish"}

LEMMA AskingIsPolling == Polling = Asking \cup {"stamp"}
  BY DEF Polling, Asking

\* A question changes none of the times but, perhaps, that of the last success.
LEMMA AskEffect ==
    ASSUME TypesOK, NEW t \in Threads,
           List(t) \/ Inspect(t) \/ FindHolder(t) \/ Read(t) \/ Unreadable(t)
    PROVE  /\ pc[t] \in Asking /\ pc'[t] \in Asking /\ job'[t].now = job[t].now
           /\ \A u \in Threads : u # t => pc'[u] = pc[u] /\ job'[u] = job[u]
           /\ success' \in {success, job[t].now}
           /\ UNCHANGED <<clock, cache, polled, published, overlapped>>
<1>1. job[t] \in Jobs
  BY DEF TypesOK, TypeOK
<1>2. pc[t] \in Asking /\ success' \in {success, job[t].now}
      /\ UNCHANGED <<clock, cache, polled, published, overlapped>>
  BY DEF List, Inspect, FindHolder, Read, Unreadable, Outside, Asking
<1>3. \A series, failed :
        [job[t] EXCEPT !.series = series, !.failed = failed].now = job[t].now
  BY <1>1 DEF Jobs
<1>4. PICK to, with : to \in Asking /\ Goto(t, to, with) /\ with.now = job[t].now
  <2>1. ASSUME NEW series, NEW failed, Built(t, series, failed)
        PROVE  \E to, with : to \in Asking /\ Goto(t, to, with) /\ with.now = job[t].now
    BY <1>3, <2>1 DEF Built, Asking
  <2>2. CASE List(t)
    <3>1. [job[t] EXCEPT !.left = Present, !.series = NothingListed].now = job[t].now
      BY <1>1 DEF Jobs
    <3> QED BY <2>1, <2>2, <3>1 DEF List, Asking
  <2>3. CASE Inspect(t)
    <3>1. \A c : [job[t] EXCEPT !.left = @ \ {c}, !.series[c] = Reported(world[c])].now
                   = job[t].now
      BY <1>1 DEF Jobs
    <3> QED BY <2>1, <2>3, <3>1 DEF Inspect, Asking
  <2>4. CASE FindHolder(t)
    <3>1. [job[t] EXCEPT !.vm = world.holder].now = job[t].now
      BY <1>1 DEF Jobs
    <3> QED BY <2>1, <2>4, <3>1 DEF FindHolder, Asking
  <2>5. CASE Read(t) \/ Unreadable(t)
    BY <2>1, <2>5 DEF Read, Unreadable
  <2> QED BY <2>2, <2>3, <2>4, <2>5
<1> QED BY <1>2, <1>4, Moves DEF TypesOK

LEMMA AskFresh ==
    ASSUME TypesOK, FreshOK, NEW t \in Threads,
           List(t) \/ Inspect(t) \/ FindHolder(t) \/ Read(t) \/ Unreadable(t)
    PROVE  FreshOK'
<1>1. PastOK'
  BY AskEffect, TimesTyped DEF FreshOK, PastOK
<1>2. BootOK'
  BY AskEffect, TimesTyped DEF FreshOK, BootOK, Asking
<1>3. PublishedOK'
  BY AskEffect, TimesTyped DEF FreshOK, PublishedOK, Asking
<1>4. ASSUME ~overlapped' PROVE TurnsOK'
  <2>1. TurnsOK
    BY <1>4, AskEffect DEF FreshOK
  <2>2. \A u \in Threads : (pc[u] \in Polling <=> pc'[u] \in Polling)
                            /\ job'[u].now = job[u].now
    BY AskEffect, AskingIsPolling
  <2>3. \A u \in Threads : pc'[u] \in Polling => u = t
    BY <2>1, <2>2, AskEffect, AskingIsPolling DEF TurnsOK
  <2>4. pc'[t] # "stamp" /\ pc'[t] # "respond" /\ pc[t] \in Polling
    BY AskEffect, AskingIsPolling DEF Asking
  <2>5. \A u \in Threads : pc'[u] # "stamp"
    BY <2>3, <2>4, AskingIsPolling
  <2>6. \A u \in Threads : pc'[u] \in Polling =>
            /\ polled' <= job'[u].now /\ success' <= job'[u].now
            /\ cache' # None => cache'.at <= job'[u].now
    BY <2>1, <2>2, <2>3, <2>4, AskEffect, TimesTyped DEF TurnsOK
  <2>7. \A s \in Scrapers : pc'[s] = "respond" =>
            cache' # None /\ cache'.at + Interval >= job'[s].now
    BY <2>1, <2>4, AskEffect, TimesTyped DEF TurnsOK
  <2>8. cache' # None => polled' <= cache'.at
    BY <2>1, AskEffect DEF TurnsOK
  <2> QED BY <2>3, <2>5, <2>6, <2>7, <2>8 DEF TurnsOK
<1> QED BY <1>1, <1>2, <1>3, <1>4 DEF FreshOK

\* A thread decides by the clock, and by what it finds.
LEMMA BeginFresh ==
    ASSUME TypesOK, FreshOK, NEW t \in Threads, Begin(t),
           \/ t = Main /\ pc[Main] = "boot"
           \/ t \in Scrapers /\ pc[t] = "idle" /\ pc[Main] = "idle"
    PROVE  FreshOK'
<1>1. UNCHANGED <<program, clock, cache, polled, success, published>>
  BY DEF Begin, Outside
<1> DEFINE with == [Blank EXCEPT !.now = clock]
<1>2. with.now = clock
  BY TimesTyped, BlankOK
<1>3. PICK to \in {"list", "find", "respond"} :
        /\ Goto(t, to, with)
        /\ IF to = "respond" THEN ~Due /\ UNCHANGED overlapped
           ELSE overlapped' = (overlapped \/ \E u \in Threads : pc[u] \in Polling)
  BY DEF Begin, FirstQuestion
<1> HIDE DEF with
<1>4. /\ pc'[t] = to /\ job'[t].now = clock
      /\ \A u \in Threads : u # t => pc'[u] = pc[u] /\ job'[u] = job[u]
  BY <1>2, <1>3, Moves DEF TypesOK
<1>5. to = "respond" => clock - polled <= Interval /\ t # Main
  <2>1. t = Main => clock - polled > Interval
    BY TimesTyped DEF FreshOK, PastOK, BootOK
  <2> QED BY <1>3, <2>1, TimesTyped DEF Due
<1>6. PastOK'
  BY <1>1, <1>4, TimesTyped DEF FreshOK, PastOK
<1>7. BootOK'
  BY <1>1, <1>4, <1>5, TimesTyped DEF FreshOK, BootOK
<1>8. PublishedOK'
  <2>1. to = "respond" => cache # None /\ published + Interval >= clock
    BY <1>5, TimesTyped DEF FreshOK, BootOK, PublishedOK
  <2> QED BY <1>1, <1>4, <2>1, TimesTyped DEF FreshOK, PublishedOK
<1>9. ASSUME ~overlapped' PROVE TurnsOK'
  <2>1. TurnsOK /\ (to # "respond" => \A u \in Threads : pc[u] \notin Polling)
    BY <1>3, <1>9, TimesTyped DEF FreshOK
  <2>2. \A u \in Threads : pc'[u] \in Polling =>
            IF u = t THEN to # "respond" ELSE pc[u] \in Polling
    BY <1>4 DEF Polling
  <2>3. \A u, v \in Threads : pc'[u] \in Polling /\ pc'[v] \in Polling => u = v
    BY <2>1, <2>2, <1>4 DEF TurnsOK
  <2>4. \A u \in Threads : pc'[u] \in Polling =>
            /\ polled' <= job'[u].now /\ success' <= job'[u].now
            /\ cache' # None => cache'.at <= job'[u].now
    BY <1>1, <1>4, <2>1, <2>2 DEF TurnsOK, FreshOK, PastOK
  <2>5. \A u \in Threads : pc'[u] = "stamp" => cache' # None /\ cache'.at = job'[u].now
    BY <1>1, <1>4, <2>1 DEF TurnsOK
  <2>6. \A s \in Scrapers : pc'[s] = "respond" =>
            cache' # None /\ cache'.at + Interval >= job'[s].now
    <3> SUFFICES ASSUME NEW s \in Scrapers, pc'[s] = "respond"
                 PROVE  cache # None /\ cache.at + Interval >= job'[s].now
      BY <1>1
    <3>1. CASE s = t
      <4>1. cache # None /\ polled <= cache.at /\ clock - polled <= Interval
        BY <1>4, <1>5, <2>1, <3>1, TimesTyped DEF FreshOK, BootOK, TurnsOK
      <4> QED BY <1>4, <3>1, <4>1, TimesTyped
    <3>2. CASE s # t
      BY <1>4, <2>1, <3>2, TimesTyped DEF TurnsOK
    <3> QED BY <3>1, <3>2
  <2>7. cache' # None => polled' <= cache'.at
    BY <1>1, <2>1 DEF TurnsOK
  <2> QED BY <2>3, <2>4, <2>5, <2>6, <2>7 DEF TurnsOK
<1> QED BY <1>6, <1>7, <1>8, <1>9 DEF FreshOK

LEMMA PublishFresh == ASSUME TypesOK, FreshOK, NEW t \in Threads, Publish(t) PROVE FreshOK'
<1>1. /\ UNCHANGED <<clock, polled, success, overlapped>> /\ pc[t] = "publish"
      /\ published' = clock
      /\ pc'[t] = "stamp" /\ job'[t] = job[t]
      /\ \A u \in Threads : u # t => pc'[u] = pc[u] /\ job'[u] = job[u]
  BY Moves DEF Publish, Outside, TypesOK
<1>2. cache' # None /\ cache'.at = job[t].now
  <2>1. job[t].now \in Nat /\ job[t].series \in Inventories \cup GpuSeries /\ success \in Nat
    BY TimesTyped, SeriesOK DEF Publish, TypesOK, AskOK
  <2> QED BY <2>1, TextsAssumption DEF Publish
<1>3. PastOK'
  BY <1>1, <1>2, TimesTyped DEF FreshOK, PastOK
<1>4. BootOK'
  BY <1>1, <1>2, TimesTyped DEF FreshOK, BootOK
<1>5. PublishedOK'
  BY <1>1, <1>2, TimesTyped DEF FreshOK, PastOK, PublishedOK
<1>6. ASSUME ~overlapped' PROVE TurnsOK'
  <2>1. TurnsOK /\ pc[t] \in Polling
    BY <1>1, <1>6 DEF FreshOK, Polling
  <2>2. \A u \in Threads : pc'[u] \in Polling => u = t
    BY <1>1, <2>1 DEF TurnsOK
  <2>3. polled <= job[t].now /\ success <= job[t].now /\ (cache # None => cache.at <= job[t].now)
    BY <2>1 DEF TurnsOK
  <2>4. \A s \in Scrapers : pc'[s] = "respond" => cache'.at + Interval >= job'[s].now
    BY <1>1, <1>2, <2>1, <2>3, TimesTyped DEF TurnsOK
  <2> QED BY <1>1, <1>2, <2>2, <2>3, <2>4, TimesTyped DEF TurnsOK, Polling
<1> QED BY <1>3, <1>4, <1>5, <1>6 DEF FreshOK

LEMMA StampFresh == ASSUME TypesOK, FreshOK, NEW t \in Threads, Stamp(t) PROVE FreshOK'
<1> DEFINE with == [job[t] EXCEPT !.series = None]
<1>1. with.now = job[t].now
  BY DEF TypesOK, TypeOK, Jobs
<1>2. PICK to \in {"idle", "respond"} : Goto(t, to, with) /\ (to = "idle" <=> t = Main)
  BY DEF Stamp
<1> HIDE DEF with
<1>3. /\ UNCHANGED <<clock, cache, success, published, overlapped>> /\ pc[t] = "stamp"
      /\ polled' = job[t].now /\ pc'[t] = to /\ job'[t].now = job[t].now
      /\ \A u \in Threads : u # t => pc'[u] = pc[u] /\ job'[u] = job[u]
  BY <1>1, <1>2, Moves DEF Stamp, Outside, TypesOK
<1>4. PastOK'
  BY <1>3, TimesTyped DEF FreshOK, PastOK
<1>5. BootOK'
  <2>1. CASE t = Main
    BY <1>2, <1>3, <2>1, TimesTyped DEF FreshOK, BootOK
  <2>2. CASE t \in Scrapers
    <3>1. pc'[Main] = pc[Main] /\ pc[Main] = "idle" /\ to = "respond"
      BY <1>2, <1>3, <2>2, TimesTyped DEF FreshOK, BootOK
    <3> QED BY <1>3, <3>1, TimesTyped DEF FreshOK, BootOK
  <2> QED BY <2>1, <2>2 DEF Threads
<1>6. PublishedOK'
  <2>1. to = "respond" => cache # None
    BY <1>2, <1>3, TimesTyped DEF FreshOK, BootOK, Threads
  <2> QED BY <1>2, <1>3, <2>1, TimesTyped DEF FreshOK, PublishedOK
<1>7. ASSUME ~overlapped' PROVE TurnsOK'
  <2>1. TurnsOK /\ pc[t] \in Polling
    BY <1>3, <1>7 DEF FreshOK, Polling
  <2>2. \A u \in Threads : pc'[u] \notin Polling /\ pc'[u] # "stamp"
    BY <1>3, <2>1 DEF TurnsOK, Polling
  <2>3. cache # None /\ cache.at = job[t].now
    BY <1>3, <2>1 DEF TurnsOK
  <2>4. \A s \in Scrapers : pc'[s] = "respond" =>
            cache # None /\ cache.at + Interval >= job'[s].now
    BY <1>3, <2>1, <2>3, TimesTyped DEF TurnsOK
  <2> QED BY <1>3, <2>2, <2>3, <2>4, TimesTyped DEF TurnsOK
<1> QED BY <1>4, <1>5, <1>6, <1>7 DEF FreshOK

LEMMA RespondFresh == ASSUME TypesOK, FreshOK, NEW t \in Threads, Respond(t) PROVE FreshOK'
<1>1. /\ UNCHANGED <<clock, cache, polled, success, published, overlapped>> /\ pc[t] = "respond"
      /\ pc'[t] = "idle" /\ job'[t].now = 0
      /\ \A u \in Threads : u # t => pc'[u] = pc[u] /\ job'[u] = job[u]
  BY Moves DEF Respond, Outside, TypesOK, Blank
<1>2. PastOK'
  BY <1>1, TimesTyped DEF FreshOK, PastOK
<1>3. BootOK'
  BY <1>1, TimesTyped DEF FreshOK, BootOK
<1>4. TurnsOK => TurnsOK'
  BY <1>1, TimesTyped DEF TurnsOK, Polling
<1>5. PublishedOK'
  BY <1>1, TimesTyped DEF FreshOK, PublishedOK
<1> QED BY <1>1, <1>2, <1>3, <1>4, <1>5 DEF FreshOK

LEMMA RestartFresh == ASSUME TypesOK, Start <= clock, Restart PROVE FreshOK'
<1>1. /\ cache' = None /\ polled' = 0 /\ success' = 0 /\ published' = 0 /\ clock' = clock
      /\ \A t \in Threads : job'[t].now = 0 /\ pc'[t] = (IF t = Main THEN "boot" ELSE "idle")
  BY DEF Restart, Booting, Blank, Outside
<1> QED BY <1>1, TimesTyped DEF FreshOK, PastOK, BootOK, PublishedOK, TurnsOK, Polling

LEMMA OutsideFresh ==
    ASSUME TypesOK, FreshOK, Tick \/ WorldChanges \/ UNCHANGED vars PROVE FreshOK'
<1>1. UNCHANGED <<cache, polled, success, pc, job, published, overlapped>> /\ clock' >= clock /\ clock' \in Nat
  BY TimesTyped DEF Tick, WorldChanges, vars
<1> QED BY <1>1, TimesTyped DEF FreshOK, PastOK, BootOK, PublishedOK, TurnsOK

LEMMA FreshInit == Init => FreshOK
<1> SUFFICES ASSUME Init PROVE FreshOK
  OBVIOUS
<1>1. TypesOK
  BY TypesInit
<1>2. \A t \in Threads : job[t].now = 0 /\ pc[t] = (IF t = Main THEN "boot" ELSE "idle")
  BY DEF Init, Booting, Blank
<1> QED BY <1>1, <1>2, TimesTyped DEF Init, FreshOK, PastOK, BootOK, PublishedOK, TurnsOK, Polling

LEMMA FreshNext == TypesOK /\ FreshOK /\ [Next]_vars => FreshOK'
<1> SUFFICES ASSUME TypesOK, FreshOK, [Next]_vars PROVE FreshOK'
  OBVIOUS
<1>1. Main \in Threads
  BY DEF Threads
<1>2. CASE Boot
  BY <1>1, <1>2, BeginFresh DEF Boot
<1>3. ASSUME NEW t \in Threads, Scrape(t) PROVE FreshOK'
  BY <1>3, BeginFresh DEF Scrape
<1>4. ASSUME NEW t \in Threads, Step(t) PROVE FreshOK'
  BY <1>4, AskFresh, PublishFresh, StampFresh, RespondFresh DEF Step
<1>5. CASE Restart
  BY <1>5, RestartFresh DEF FreshOK, PastOK
<1> QED BY <1>2, <1>3, <1>4, <1>5, OutsideFresh DEF Next

\* However many threads scrape, and in whatever order polls that overlap end: a
\* scrape is answered with a text published at most POLL_INTERVAL before it; while no
\* two polls have overlapped since the process started, its poll had begun by then.
THEOREM AlwaysFresh == Spec => []ServedIsFresh
<1>1. FreshOK => ServedIsFresh
  BY DEF FreshOK, PublishedOK, TurnsOK, ServedIsFresh
<1> QED BY <1>1, TypesInit, TypesNext, FreshInit, FreshNext, PTL DEF Spec

\* A poll that read the card.
HasRead(t) ==
    /\ pc[t] = "probe" /\ pc'[t] = "publish" /\ job'[t].series.reading # None
    /\ success' = job[t].now

LEMMA ReadsCard == ASSUME TypesOK, NEW t \in Threads, Read(t) PROVE HasRead(t)
<1>1. job[t] \in Jobs /\ world \in Cards
  BY DEF TypesOK, TypeOK, AskOK, Read, Worlds
<1> DEFINE series == [vm |-> job[t].vm, reading |-> world.reading]
<1> DEFINE with == [job[t] EXCEPT !.series = series, !.failed = FALSE]
<1>2. series.reading # None
  BY <1>1, VmsAssumption DEF Cards
<1>3. Goto(t, "publish", with) /\ pc[t] = "probe" /\ success' = job[t].now
  BY DEF Read, Built
<1> HIDE DEF series
<1>4. with.series = series
  BY <1>1 DEF Jobs
<1> HIDE DEF with
<1>5. pc'[t] = "publish" /\ job'[t] = with
  BY <1>3, Moves DEF TypesOK
<1> QED BY <1>2, <1>3, <1>4, <1>5 DEF HasRead

\* Only reading the card and a restart change the last success.
LEMMA SuccessStep ==
    ASSUME TypesOK, FreshOK, [Next]_vars, success' < success, pc'[Main] # "boot"
    PROVE  overlapped /\ \E t \in Threads : HasRead(t)
<1>1. ~UNCHANGED success
  BY TimesTyped
<1>2. ~Restart
  BY DEF Restart, Booting, Threads
<1>3. ASSUME NEW t \in Threads, Read(t) PROVE overlapped /\ HasRead(t)
  <2>1. pc[t] \in Polling /\ success' = job[t].now
    BY <1>3 DEF Read, Polling
  <2>2. overlapped
    BY <2>1, TimesTyped DEF FreshOK, TurnsOK
  <2> QED BY <1>3, <2>2, ReadsCard
<1>4. ASSUME NEW t \in Threads, Step(t), ~Read(t) PROVE UNCHANGED success
  BY <1>4 DEF Step, List, Inspect, FindHolder, Unreadable, Publish, Stamp, Respond
<1>5. ASSUME NEW t \in Threads, Begin(t) PROVE UNCHANGED success
  BY <1>5 DEF Begin
<1>6. Tick \/ WorldChanges \/ UNCHANGED vars => UNCHANGED success
  BY DEF Tick, WorldChanges, vars
<1> QED BY <1>1, <1>2, <1>3, <1>4, <1>5, <1>6 DEF Next, Boot, Scrape, Threads

\* Whatever fails, a process loses the last success to nothing but a poll that read
\* the card too, had begun earlier and overlapped.
THEOREM SuccessNeverBack == Spec => SuccessStays
<1> DEFINE Good ==
      success' < success /\ pc'[Main] # "boot" =>
        /\ overlapped
        /\ \E t \in Threads :
             /\ pc[t] = "probe" /\ pc'[t] = "publish" /\ job'[t].series.reading # None
             /\ success' = job[t].now
<1>1. TypesOK /\ FreshOK /\ [Next]_vars => [Good]_vars
  BY SuccessStep DEF HasRead
<1> QED BY <1>1, TypesInit, TypesNext, FreshInit, FreshNext, PTL DEF Spec, SuccessStays
=============================================================================
