------------------------------- MODULE Exporter -------------------------------
(***************************************************************************)
(* A process of one of the two exporters, docker-inventory or gpu-exporter    *)
(* (src/collector): every scrape refreshes the cached text when it is older   *)
(* than POLL_INTERVAL and is answered with the cache. Flask serves each       *)
(* scrape on a thread of its own and nothing locks the cache, so two of them  *)
(* may poll at the same time.                                                *)
(*                                                                         *)
(* Both programs have the same maybe_refresh; they differ in what a poll      *)
(* asks. docker-inventory lists the containers, where the Docker client asks  *)
(* for their names and then inspects each of them. gpu-exporter asks which    *)
(* VM holds the card and then reads the card inside that VM. A step is what   *)
(* a thread does from one of these questions, or one access to the globals,   *)
(* to the next.                                                              *)
(*                                                                         *)
(* "during" is no variable of the programs: it remembers what was the case    *)
(* at some time since a thread began to poll; "published" when the cached text *)
(* was published; "overlapped" whether two polls have run at the same time     *)
(* since the process started.                                              *)
(***************************************************************************)
EXTENDS DockerInventory

CONSTANTS
    Programs,    \* which of the two programs the process may be
    Main,        \* the main thread, which polls before the server starts
    Scrapers,    \* threads that serve GET /metrics
    Vms,         \* VMs the card may be passed through to
    Readings,    \* memory and utilization of the card
    Interval,    \* POLL_INTERVAL, in ticks
    MaxTicks,    \* bound: ticks of the clock
    MaxChanges   \* bound: changes of what is polled

Threads == {Main} \cup Scrapers

ASSUME ProgramsAssumption == Programs \subseteq {"docker-inventory", "gpu-exporter"}
ASSUME ScrapersAssumption == Main \notin Scrapers
ASSUME VmsAssumption      == None \notin Vms \cup Readings
ASSUME IntervalAssumption == Interval \in Nat /\ MaxTicks \in Nat /\ MaxChanges \in Nat

VARIABLES
    program,  \* the program this process runs
    clock,    \* time.time()
    world,    \* what there is to find out: the containers, the card
    cache,    \* _cache, None while it is empty
    polled,   \* _last_poll
    success,  \* _last_success_ts (gpu-exporter)
    pc, job,  \* where each thread is, and its local variables
    during,   \* the worlds there were since it began to poll
    published, overlapped,
    changes

vars == <<program, clock, world, cache, polled, success, pc, job,
          during, published, overlapped, changes>>

\* The clock starts past the interval: _last_poll is the epoch.
Start == Interval + 1

Cards   == [holder : Vms \cup {None}, reading : Readings]
Worlds  == IF program = "docker-inventory" THEN Dockers ELSE Cards

\* The series of a text: of the containers; or who holds the card, whether it was
\* readable, and its reading.
GpuSeries == [vm : Vms \cup {None}, reading : Readings \cup {None}]
Series    == IF program = "docker-inventory" THEN Inventories ELSE GpuSeries
Texts     == [at : Nat, series : Series, success : Nat]

\* No text is as good as none.
ASSUME TextsAssumption ==
    None \notin [at : Nat, series : Inventories \cup GpuSeries, success : Nat]

Polling == {"list", "inspect", "find", "probe", "publish", "stamp"}
PCs     == Polling \cup {"boot", "idle", "respond"}

\* left: the containers listed and not yet inspected.
Jobs == [now : Nat, left : SUBSET Containers, vm : Vms \cup {None},
         series : Series \cup {None}, failed : BOOLEAN]

Blank == [now |-> 0, left |-> {}, vm |-> None, series |-> None, failed |-> FALSE]

TypeOK ==
    /\ program \in Programs /\ clock \in Nat /\ world \in Worlds
    /\ cache \in Texts \cup {None} /\ polled \in Nat /\ success \in Nat
    /\ pc \in [Threads -> PCs] /\ job \in [Threads -> Jobs]
    /\ during \in [Threads -> SUBSET Worlds]
    /\ published \in Nat /\ overlapped \in BOOLEAN /\ changes \in Nat

Booting == [t \in Threads |-> IF t = Main THEN "boot" ELSE "idle"]

Init ==
    /\ program \in Programs
    /\ clock = Start /\ world \in Worlds
    /\ cache = None /\ polled = 0 /\ success = 0
    /\ pc = Booting /\ job = [t \in Threads |-> Blank]
    /\ during = [t \in Threads |-> {}] /\ published = 0 /\ overlapped = FALSE
    /\ changes = 0

-----------------------------------------------------------------------------
(* maybe_refresh *)

Goto(t, to, with) ==
    /\ pc' = [pc EXCEPT ![t] = to]
    /\ job' = [job EXCEPT ![t] = with]

Outside == <<program, clock, world, changes>>

Due == clock - polled > Interval \/ (program = "gpu-exporter" /\ cache = None)

FirstQuestion == IF program = "docker-inventory" THEN "list" ELSE "find"

WrongBegin(t) ==
    /\ IF Due
       THEN /\ Goto(t, FirstQuestion, [Blank EXCEPT !.now = clock])
            /\ during' = [during EXCEPT ![t] = {world}]
            /\ overlapped' = (overlapped \/ \E u \in Threads : pc[u] \in Polling)
            /\ polled' = clock
       ELSE /\ Goto(t, "respond", [Blank EXCEPT !.now = clock])
            /\ UNCHANGED <<during, overlapped, polled>>
    /\ UNCHANGED <<Outside, cache, success, published>>

\* now = time.time(), and the decision.
Begin(t) ==
    /\ IF Due
       THEN /\ Goto(t, FirstQuestion, [Blank EXCEPT !.now = clock])
            /\ during' = [during EXCEPT ![t] = {world}]
            /\ overlapped' = (overlapped \/ \E u \in Threads : pc[u] \in Polling)
       ELSE /\ Goto(t, "respond", [Blank EXCEPT !.now = clock])
            /\ UNCHANGED <<during, overlapped>>
    /\ UNCHANGED <<Outside, cache, polled, success, published>>

\* The poll before app.run, and a GET /metrics after it.
Boot      == pc[Main] = "boot" /\ Begin(Main)
Scrape(t) == t \in Scrapers /\ pc[t] = "idle" /\ pc[Main] = "idle" /\ Begin(t)

\* _cache = build_metrics(): gpu-exporter ends its text with the last success.
Publish(t) ==
    /\ pc[t] = "publish"
    /\ cache' = [at |-> job[t].now, series |-> job[t].series, success |-> success]
    /\ published' = clock
    /\ Goto(t, "stamp", job[t])
    /\ UNCHANGED <<Outside, polled, success, during, overlapped>>

WrongStamp(t) ==
    /\ pc[t] = "stamp"
    /\ polled' = clock
    /\ Goto(t, IF t = Main THEN "idle" ELSE "respond", [job[t] EXCEPT !.series = None])
    /\ UNCHANGED <<Outside, cache, success, during, published, overlapped>>

\* _last_poll = now
Stamp(t) ==
    /\ pc[t] = "stamp"
    /\ polled' = job[t].now
    /\ Goto(t, IF t = Main THEN "idle" ELSE "respond", [job[t] EXCEPT !.series = None])
    /\ UNCHANGED <<Outside, cache, success, during, published, overlapped>>

\* Response(_cache)
Respond(t) ==
    /\ pc[t] = "respond"
    /\ Goto(t, "idle", Blank)
    /\ during' = [during EXCEPT ![t] = {}]
    /\ UNCHANGED <<Outside, cache, polled, success, published, overlapped>>

-----------------------------------------------------------------------------
(* build_metrics *)

Built(t, series, failed) ==
    Goto(t, "publish", [job[t] EXCEPT !.series = series, !.failed = failed])

Present == {c \in Containers : world[c] # None}

\* docker-inventory: client.containers.list(all=True) asks for the names ...
List(t) ==
    /\ pc[t] = "list"
    /\ \/ Goto(t, "inspect", [job[t] EXCEPT !.left = Present, !.series = NothingListed])
       \/ Built(t, NothingListed, TRUE)
    /\ UNCHANGED <<Outside, cache, polled, success, during, published, overlapped>>

WrongInspect(t) ==
    /\ pc[t] = "inspect"
    /\ \/ job[t].left = {} /\ Built(t, job[t].series, FALSE)
       \/ \E c \in job[t].left :
            Goto(t, "inspect",
                 [job[t] EXCEPT !.left = @ \ {c},
                                !.series[c] = [running |-> TRUE, compose |-> Standalone]])
    /\ UNCHANGED <<Outside, cache, polled, success, during, published, overlapped>>

\* ... and for each container. One of these failing, as when the container has
\* gone meanwhile, is the failure of the whole list.
Inspect(t) ==
    /\ pc[t] = "inspect"
    /\ \/ job[t].left = {} /\ Built(t, job[t].series, FALSE)
       \/ \E c \in job[t].left \cap Present :
            Goto(t, "inspect",
                 [job[t] EXCEPT !.left = @ \ {c}, !.series[c] = Reported(world[c])])
       \/ job[t].left # {} /\ Built(t, NothingListed, TRUE)
    /\ UNCHANGED <<Outside, cache, polled, success, during, published, overlapped>>

NobodyHolds == [vm |-> None, reading |-> None]

WrongFindHolder(t) ==
    /\ pc[t] = "find"
    /\ \/ world.holder = None /\ Built(t, NobodyHolds, FALSE)
       \/ world.holder # None /\ Goto(t, "probe", [job[t] EXCEPT !.vm = world.holder])
       \/ Goto(t, "dead", Blank)
    /\ UNCHANGED <<Outside, cache, polled, success, during, published, overlapped>>

\* vmctl.gpu_holder(): a failure counts as nobody.
FindHolder(t) ==
    /\ pc[t] = "find"
    /\ \/ world.holder = None /\ Built(t, NobodyHolds, FALSE)
       \/ world.holder # None /\ Goto(t, "probe", [job[t] EXCEPT !.vm = world.holder])
       \/ Built(t, NobodyHolds, TRUE)
    /\ UNCHANGED <<Outside, cache, polled, success, during, published, overlapped>>

\* gpu_probe.query(): it reads the card where the VM still has it ...
Read(t) ==
    /\ pc[t] = "probe" /\ world.holder = job[t].vm
    /\ success' = job[t].now
    /\ Built(t, [vm |-> job[t].vm, reading |-> world.reading], FALSE)
    /\ UNCHANGED <<Outside, cache, polled, during, published, overlapped>>

WrongUnreadable(t) ==
    /\ pc[t] = "probe"
    /\ \E r \in Readings : Built(t, [vm |-> job[t].vm, reading |-> r], FALSE)
    /\ UNCHANGED <<Outside, cache, polled, success, during, published, overlapped>>

WrongUnreadableReset(t) ==
    /\ pc[t] = "probe"
    /\ success' = 0
    /\ Built(t, [vm |-> job[t].vm, reading |-> None], FALSE)
    /\ UNCHANGED <<Outside, cache, polled, during, published, overlapped>>

\* ... or answers that it could not: then no value is given for it.
Unreadable(t) ==
    /\ pc[t] = "probe"
    /\ Built(t, [vm |-> job[t].vm, reading |-> None], FALSE)
    /\ UNCHANGED <<Outside, cache, polled, success, during, published, overlapped>>

-----------------------------------------------------------------------------
(* The surroundings *)

Tick ==
    /\ clock < Start + MaxTicks /\ clock' = clock + 1
    /\ UNCHANGED <<program, world, cache, polled, success, pc, job,
                   during, published, overlapped, changes>>

WorldChanges ==
    /\ changes < MaxChanges /\ changes' = changes + 1
    /\ world' \in Worlds \ {world}
    /\ during' = [t \in Threads |->
                    IF pc[t] \in Polling THEN during[t] \cup {world'} ELSE during[t]]
    /\ UNCHANGED <<program, clock, cache, polled, success, pc, job, published, overlapped>>

\* The globals live in memory only.
Restart ==
    /\ cache' = None /\ polled' = 0 /\ success' = 0
    /\ pc' = Booting /\ job' = [t \in Threads |-> Blank]
    /\ during' = [t \in Threads |-> {}] /\ published' = 0 /\ overlapped' = FALSE
    /\ UNCHANGED Outside

Step(t) ==
    \/ List(t) \/ Inspect(t) \/ FindHolder(t) \/ Read(t) \/ Unreadable(t)
    \/ Publish(t) \/ Stamp(t) \/ Respond(t)

Next ==
    \/ Boot
    \/ \E t \in Threads : Scrape(t) \/ Step(t)
    \/ Tick \/ WorldChanges \/ Restart

Spec == Init /\ [][Next]_vars

\* The questions have timeouts (PROBE_TIMEOUT, the Docker client's); whether
\* anybody scrapes is not up to the exporter.
FairSpec == Spec /\ WF_vars(Boot) /\ \A t \in Threads : WF_vars(Step(t))

-----------------------------------------------------------------------------
(* What an exporter promises *)

\* The series are what was to be found out in the worlds ws: each container by
\* itself; the holder and its reading at one and the same moment.
TrueOf(series, ws) ==
    IF program = "docker-inventory"
    THEN \A c \in Containers : \E w \in ws : series[c] = Listed(w)[c]
    ELSE \E w \in ws : series.vm = w.holder /\ series.reading \in {w.reading, None}

\* "'unknown' must never read as 'idle'" (gpu-exporter's header), nor as the state
\* of a container: whatever failed or changed in the middle of a poll, the text it
\* publishes is what was the case at some moment since it began, less what could not
\* be read; when the first question failed it has no container and no holder.
PublishedIsTrue ==
    [][\A t \in Threads : pc[t] = "publish" /\ pc'[t] = "stamp" =>
        IF job[t].failed THEN cache'.series \in {NothingListed, NobodyHolds}
        ELSE TrueOf(cache'.series, during[t])]_vars

\* A scrape is answered with a text that was published at most POLL_INTERVAL before
\* it, however many scrapes polled at the same time and in whatever order they ended;
\* and as long as no two polls have overlapped, that poll had also begun within the
\* interval. (maybe_refresh sets _last_poll to the time the poll began, and only
\* after it has published.)
ServedIsFresh ==
    \A t \in Scrapers : pc[t] = "respond" =>
        /\ cache # None /\ published + Interval >= job[t].now
        /\ ~overlapped => cache.at + Interval >= job[t].now

\* "persists across scrapes; staleness signal": whatever fails, a process never loses
\* the last success it reports. It goes back only where polls have overlapped and one
\* that read the card ends after one that began later and read it too.
SuccessStays ==
    [][success' < success /\ pc'[Main] # "boot" =>
        /\ overlapped
        /\ \E t \in Threads :
             /\ pc[t] = "probe" /\ pc'[t] = "publish" /\ job'[t].series.reading # None
             /\ success' = job[t].now]_vars

\* Every scrape is answered, whatever the questions come to.
ScrapesAnswered == \A t \in Scrapers : pc[t] # "idle" ~> pc[t] = "idle"
=============================================================================
