# bis-observer in TLA+

Specifications of bis-observer, an observability stack: collectors on every
node (Grafana Alloy, docker-inventory, gpu-exporter) and one aggregator
(Prometheus, Loki, Grafana and *theseus*, a Flask service). theseus is where the
program's own state is: it keeps a registry of everything that is watched, and
writes two Grafana dashboards. The specifications are about that state: who may
change it, what survives failures and races, and what the answers built from it
may be trusted for.

## Inventory

| Part (under `src/`) | State | Operations | Hard behaviours | Correct when |
|---|---|---|---|---|
| **Entity registry** `aggregator/theseus/registry/` | one SQLite table `entity` (WAL), one connection per request and per discovery | discovery (every 300 s, or POST /entities/discover): three HTTP queries, upserts, log rates, prune, commit; GET /entities materializes links; PUT pins, clears or retires | discovery holds the write lock across HTTP; `sqlite3` opens a transaction only at the first write, so a SELECT before it may be stale; busy timeout; failed query rolls back; restart | no write is lost or torn; the class of an entity sticks; what is persistent is not pruned; stored links match what they are answered with; the lock is always released |
| **Fleet dashboard** `aggregator/theseus/aggroboard.py` | `aggroboard.json`, `aggroboard_hosts.json` (sidecar), the datasource UID | heartbeat: query instances, compare with the sidecar, rewrite both files | two files written in place one after the other; crashes and failed writes in between; a failed query that looks like an empty fleet | the dashboard shows the fleet and is left alone otherwise |
| **Cluster dashboard** `aggregator/theseus/aggrokube.py` | `aggrokube.json`, `aggrokube_state.json` | heartbeat: five queries one after the other, compare, rewrite | any of the five may fail alone; the cluster changes between two of them | as above; a failed query does not drop what exists |
| **State files** `aggregator/theseus/state.py` | the sidecars' place | moves a legacy sidecar once | crash between copy and unlink | the newer sidecar wins |
| **theseus process** `aggregator/theseus/app.py` | background event loop, routes | the heartbeats on one loop; requests hand coroutines to it and wait 15 s | a request that gives up leaves its coroutine behind | every request is answered |
| **Telemetry** `aggregator/theseus/telemetry.py` | none | PromQL/LogQL queries, results into JSON | several queries per answer, at different times, any of which may fail alone | what a query answered was the case at some moment of the request; a failed query costs its own values only |
| **URL builders** `aggregator/theseus/links.py` | none | Grafana URLs | none | (formatting) |
| **docker-inventory** `collector/docker-inventory/app.py` | cached metrics text | /metrics refreshes the cache when it is old | scrapes on several threads | fresh enough; labels say what Docker says |
| **gpu-exporter** `collector/gpu-exporter/app.py` | cached text, time of the last good read | the same | the same; a failing probe | failure is not reported as a reading |
| **Scripts and configuration** `scripts/`, `Makefile`, `collector/alloy/`, `aggregator/config/`, compose files | none of their own | | | not code of the system's logic |

How they interact: docker-inventory and cAdvisor are scraped into Prometheus;
discovery reads Prometheus (never the collectors) and writes the table; GETs
read the table and write links into it; the registry reads the datasource UID
that the dashboard heartbeat resolved, a plain attribute of another thread's
object, once per entity it answers. The dashboards and the registry share
nothing else.

## Modules

| Module | Models |
|---|---|
| `RegistryStore` | the table and the pure functions on it: `db.py`, `classify` and `prunable`, the fingerprinted links, how scrapes become sightings |
| `Registry` | the threads: the discovery loop, POST discover, GETs, PUTs, the SQLite lock, timeouts, failures, restarts |
| `RegistryProofs` | theorems about `Registry` |
| `RegistrySoloProofs` | theorems about `Registry` as long as the loop is the only discovery |
| `DashboardPair` | what both dashboard writers promise about a dashboard and its sidecar (an abstract specification) |
| `Aggroboard` | the fleet heartbeat, its two files, faults; implements `DashboardPair` |
| `AggroboardProofs` | theorems about `Aggroboard` |
| `Aggrokube` | the cluster heartbeat with its queries one by one, its two files, faults; implements `DashboardPair` |
| `AggrokubeProofs` | theorems about `Aggrokube` |
| `DashboardLayout` | where both dashboard builders place their panels, loop by loop |
| `LayoutProofs` | theorems about `DashboardLayout` |
| `DockerInventory` | what docker-inventory reports of a container, in the registry's terms; extends `RegistryStore` |
| `Exporter` | a process of docker-inventory or gpu-exporter: the cached text, scrapes on several threads, polls question by question |
| `ExporterProofs` | theorems about `Exporter` |
| `OneOffs` | Docker, docker-inventory, Prometheus and discovery together: which class a container gets |
| `Telemetry` | the queries of `telemetry.py`, what Prometheus, Loki and the apiserver answer, and how answers become fields |
| `Requests` | the telemetry routes: threads, coroutines on the event loop, the 15 s limit, queries that fail; extends `Telemetry` |
| `RequestsProofs` | theorems about `Requests` |
| `RequestsListsProofs` | theorems about the logs and temperatures in its replies; extends `RequestsProofs` |
| `MCRegistry`, `MCAggroboard`, `MCAggrokube`, `MCRequests` | values of constants for the runs |

A definition named `Wrong...` is the definition below it with a bug such code
could have. Nothing uses it; it is there to show which property notices the bug.

### Registry

A row keeps what decisions read. `compose_project` and `compose_service` are one
label `compose` (`classify` takes either); `host`, `name`, `nodename`, `image`
and `kind` follow from the id or are only displayed. A link is represented by
the arguments it was built from, so "the link is right" can be stated: `detail`
by the external URL and the instance, `explore` also by the datasource UID. The
external URL and the source of the builders change only with a redeploy: both
are `deploy`. The log rates of a snapshot are the time `at` they were written.
`ensure_links`' KeyError branch is not modelled: every row of the table has the
labels the builders ask for.

SQLite. Each thread has a connection. Until its first INSERT, UPDATE or DELETE a
connection reads the last committed table (`db`); Python's `sqlite3` begins a
transaction at that statement, after which the thread is the `writer` and reads
and writes its own image (`wdb`), until `Commit` or `Rollback` (the connection
is closed). Who wants to write while another does waits up to the busy timeout
(`LockTimeout`: "database is locked"). So the interesting gap is between a SELECT
made without the lock and the first write that follows it:

* `upsert` reads the old labels, then waits for the lock with the merged labels
  in hand. Only the first upsert of a discovery has this gap (`FirstUpsert`, with
  the labels in `base`); from the second on it reads what it is writing to.
  Which one is first is arbitrary: it depends on the order of Prometheus's answer.
* the prune reads the table and then deletes: a gap only for a discovery that
  upserted nothing (`ListFaded`, `Sweep`).
* `_materialize` reads a row, builds links and updates: `Build`, `StoreLinks`.
* PUT checks that the row exists, then writes; and after its commit reads the row
  again, which may be gone by then (`Reread`: the answer is a 500).

A step of a thread runs from one such point (an HTTP query, a wait for the lock,
a committed read) to the next. PUT calls `_materialize` but never commits after
it: `Relink` takes the lock and the rollback at the end of the request gives it
back. Each of the loop's ticks catches everything (`FailQuery`, `LockTimeout` go
back to "idle"); for a request the same steps are a 500.

### Aggroboard

`sidecar` and `board` are the two files, None when missing or unreadable:
`Path.write_text` truncates and then fills, so a write is two steps and a crash
or an error may come between. The rest of the dashboard is determined by the
hosts and the version. The sidecar is keyed by host name, while the comparison
is of sets of instance labels; `Bare` is `instance.split(":")[0]`. When two new
instances have one host name, set iteration order decides which stays (`Lasts`).

### Aggrokube

A tick is five or six queries (`SeeNodes` to `SeeDaemonSets`), each a step of its
own because the cluster may change between them, each of which may fail and then
counts as an empty answer (`Query`); then a comparison (`Skip` or `Rewrite`) and
the same four write steps as above. A cluster is what kube-state-metrics exports:
nodes, namespaces, which of them have pods (the fallback when the namespaces are
not answered, or have no labels exported at all), workloads with kind and namespace.
What a tick has seen is sets, and the order Prometheus lists them in is chosen at
the comparison: `Arranged` is the sorting of nodes, namespaces and workloads, and the
files list what was seen in an order (`[seen, order]`), so a list that was not sorted
differs from its own sidecar. Each workload is exported once here; should Prometheus
hold two series of one (two replicas of kube-state-metrics, say), the code lists it
twice, in every tick. A dashboard is its topology and
version; which datasource it names does not influence anything that happens, and
is left out, as is the start of the process, which does nothing else: so a failed
write and a crash have the same effect (`CutShort`).

### DashboardPair

The two heartbeats are shown to do to their files nothing but four abstract
steps: a dashboard is truncated, is written as the next version of what the
sidecar records, the sidecar is truncated only when the dashboard is that next
version, and records exactly the dashboard there is. The mapping for `Aggrokube`
is the identity, for `Aggroboard` it renames the hosts to the topology and drops
the datasource (`Pair` in both modules).

### DashboardLayout

`_build_dashboard_json` and `_build_dashboard` walk over hosts, or nodes,
namespaces and workloads, and append panels while `panel_id`/`pid` and `y` go
along; workloads fill lines from left to right (`workload_x`, `workload_y`). Each
pass of a loop is an action. Which panels there are is decided by how many
hosts, nodes, namespaces and workloads there are, so these are numbers; a panel
is its id, its place and the row it was appended under. `Init` chooses one of the
two dashboards. `if ns in workloads_by_ns` is the case `load > 0`: with no
workload the code neither sets `workload_x` nor moves `y`, as here.

### DockerInventory, Exporter, OneOffs

Both exporters have the same `maybe_refresh` and the same globals, so `Exporter`
is one process that runs either program (`program`). Flask's development server
answers each scrape on a thread of its own and nothing locks the globals. A step
is what a thread does between two accesses to something shared: the decision
(`Begin`), each question of a poll, `_cache = ...` (`Publish`), `_last_poll = now`
(`Stamp`), reading `_cache` for the answer (`Respond`). A poll of docker-inventory
is `List` and then one `Inspect` per container, because that is what the Docker
client's `containers.list(all=True)` does; the whole list fails if one of them
does. A poll of gpu-exporter is `FindHolder` and then `Read` or `Unreadable`.
`Due` differs: gpu-exporter also polls while its cache is empty. The clock starts
past the interval because `_last_poll = 0` is the epoch. `failed`, `during`,
`published` and `overlapped` remember what the properties speak of and influence
nothing.

`OneOffs` puts `Listed` in front of the registry: Docker's containers, the series
Prometheus holds of the last scrape, and the table, each as old as its last copy.
The steps inside a scrape and a discovery are in `Exporter` and `Registry`; here
each is one.

### Telemetry, Requests

Telemetry keeps no state. What can go wrong is in time: a field made of two
queries that were answered at different moments, or of which one failed; a
coroutine that goes on after its request has given up. A world is what there is
to be asked, and one query is evaluated in the world of that moment (`Deliver`)
or fails (`Fail`: no value, no rows). All queries of a route are sent side by
side (`asyncio.gather`); only `swap_used_pct` sends a second after the first
(`SentAfter`). The fields of a host or pod that are one scalar query each (CPU,
memory, load, network and disk rates, restarts, time series) differ in nothing that
happens and are the one field `gauge`, likewise the machine's identity and its GPUs.
A container's queries match its host by prefix: of its processor and memory the first
of several series is taken (`usage`), its network and disk rates are summed over all
of them (`rates`, `Summed`). `mounts`, `counts` and `temps` are the joins; of the
eleven queries of a host's hardware `temps` has the sensors, the thermal zones that
are listed after them, and the names (of chips and of their sensors, one query here);
the other seven are single values. `tail` merges Loki's streams,
`pod_tail` reads the pod's log from the apiserver, which knows no levels. A list that
is sorted is the set of its elements in a strict total order (`Sorted`): lines have
different times, and sensors of one temperature go by their number. What
`lines[:limit]` cuts off is `First`.

A request hands its coroutine to the loop (`Start`), waits (`waits_for`), and
replies or gives up (`TimeOut`); `coro` has the coroutines on the loop, each until
it has closed its client (`Finish`), whether or not anybody waits for it. The 15 seconds are not
measured: `TimeOut` may happen at any moment of the wait. (One query may take 10
seconds and the swap query is a chain of two, so a request that would have been
answered can be given up.)

## Runs

| Run | Instance | Shows |
|---|---|---|
| `registry_races` | loop, POST discover and PUT on one node and one container, EPHEMERAL_TTL 0, clock to 1 | types, lock discipline, that nothing but a sighting creates a row, that a discovery commits whole, that the class sticks while nodes are seen |
| `registry_solo` | loop, GET and PUT on one container, every lifecycle, fairness | no lost update between the columns; times in order; with one discovery at a time the class never flips; the lock is released, every handler ends, the loop goes on |
| `registry_links` | two GETs and the loop, one node with two instance labels, two deployments, two UIDs | the links of an answer are built from the labels of the same answer, for this deployment and a UID of its lifetime |
| `board` | two hosts, every fleet, two faults, five fleet changes | types; the sidecar is never ahead of the dashboard; the pair is kept; the sidecar comes to list a fleet that stays. While nothing has failed: a skip only of what is shown, a rewrite only for a change, and the dashboard comes to show the fleet |
| `kube` | one node, a system namespace with a DaemonSet and another with a Deployment, every cluster of these with and without labels, answers in two orders, two changes, two faults | system namespaces are never listed; the dashboard keeps its nodes and the namespaces of its workloads; the pair is kept; both files come to list a cluster that stays; rewrites show something new, in whatever order Prometheus lists it |
| `layout` | up to four hosts; two nodes, three namespaces, nine workloads in each | panels never overlap nor share an id, each is under its own row, no line is left blank |
| `exporters` | either program, a main thread and two scrapers, interval 1, two ticks, one change, restarts at any time | what a poll publishes was the case while it ran; a scrape is served what was published within the interval, polls that overlap included; the last success is set back by nothing but an older poll that overlaps; every scrape is answered |
| `telemetry` | one thread, two coroutines, two worlds, one change between them, one field a route (a reply of several fields is each of them by itself), four sensors of which one is a thermal zone | what a reply was answered was so during its request; lists are in order and of the levels asked for; a failed query costs nothing but its own values; swap is NaN only if it was switched off meanwhile; requests and coroutines end |
| `pinned_pruned`, `class_flip`, `board_wiped`, `oneoffs` | the smallest instances | see "Divergences" |

Bounds. `MaxClock = 1` with a TTL of 0 ticks is enough for a row to be seen, to
fade and to be seen again, and for two discoveries to start at different times
and commit in either order: the code compares times only with each other and the
TTL. One container is enough for the column and class properties because rows
are updated independently; a node next to it is needed in `registry_races`
because whether a discovery saw a node decides when it takes the lock. Two GETs,
two deployments and two UIDs are the least with which a stale link can be stored
over a fresh one. In the dashboard runs two faults suffice for a fault during
the recovery from a fault, and the versions stay below `MaxVersion`: they grow
by one per rewrite, and rewrites are bounded by fleet changes and faults. In
`kube` two faults and two changes per behaviour let the labels and their fallback
fail in one tick, and a failure fall between two changes within a tick or in the
tick after it; its two workloads are of the kinds asked for first and last. Properties
that hold only without failures say so (`faults = 0`). In `layout` nine workloads are two full lines
and one more, so each way a line can end occurs, before and after other
namespaces, and with none. In `exporters` two scrapers are what it takes for two
polls to overlap (the main thread's is over before the server starts), and two
ticks make the cache of an interval of 1 old once after the first poll. Where two
polls have overlapped the older one may end last, and its text, `_last_poll` and last
success stay: `ServedIsFresh` then promises when the text was published, not when its
poll began, and `SuccessStays` that it was a poll that read the card.
In `telemetry` one thread and two coroutines are one request next to one that
was given up, and threads share nothing but the loop; the second world differs
from the first in every field, including the edges: no swap, a disk of size 0,
readings of 0 and 150, equal temperatures, a stack with nothing running, a host
whose name begins with another's. Every bound is a guard of the environment
(`Tick`, `FleetChanges`, `FailedQuery`, `FailWrite`, `Crash`, `CutShort`,
`ClusterChanges`, `WorldChanges`; `Start` for the number of coroutines) or, for
`MaxVersion`, of a step that never reaches it.

Fairness. Each query has a timeout (10 s), so has each wait for the lock (10 s),
and the loop sleeps a fixed time: every thread that has begun takes its next
step (`WF_vars(Step(t))`), and the loop begins again. Weak fairness of a whole
step and not of its success: a query may fail every time, a lock may time out
every time. Requests, the clock, the UID, restarts, faults and fleet changes are
never assumed to happen. The heartbeat's fairness is that of its loop, which
catches what a tick raises. An exporter's thread takes its next step because its
questions have timeouts (`PROBE_TIMEOUT`, the Docker client's); which question
fails is never fair. In `Requests` the loop runs each coroutine
(`WF_vars(Run(k))`), each query ends by its timeout, and a waiting thread's
`result(timeout=15)` ends too; that a query succeeds is not assumed.

Deadlock is checked for the registry, the cluster dashboard, the exporters and
the requests. The `board` runs switch it off: a heartbeat that finds nothing
changed changes nothing, so a model whose fleet has stopped changing rests.
`layout` ends when everything is placed.

## What is proved

For all values of the constants, from the assumptions named in the modules: ids
of nodes and containers are disjoint, sentinels are not values, each kind of
thread is disjoint from the others, the sensors of a host are finitely many, the
TTL and the bounds are naturals.

| Theorem | States |
|---|---|
| `RegistryProofs`: `TypeCorrect`, `LockIsDisciplined` | `[]TypeOK`, `[]LockDiscipline` |
| `NoLostUpdate`, `OnlyDiscoveryCreates`, `DiscoveryCommitsWhole` | `ColumnsHaveOneWriter`, `OnlySightingsCreate`, `DiscoveryIsWhole` |
| `ClassSticks` | `ClassSticksWithNodes` |
| `LinksMatch` | `[]ServedLinksMatch` |
| `PersistentGoesTwoWays` | a persistent row is deleted by the PUT that retires it or by the late delete of a discovery that saw nothing, and in no other way (what `pinned_pruned` shows is the only gap) |
| `RegistrySoloProofs`: `TimesStayOrdered`, `ClassStays` | `[]TimesOrdered`, `ClassNeverFlips`, both if `Posters = {}` |
| `AggroboardProofs`: `BoardTypes`, `NeverAhead`, `PairKept` | `[]TypeOK`, `[]SidecarNeverAhead`, `KeepsPair` |
| `SkipsAreSafe`, `RewritesAreDue` | `[]SkipsOnlyIfShown`, `RewritesFollowChanges`, both if instances are bare host names |
| `OnlyCutsEverMislead` | after any faults, a tick that does nothing leaves a dashboard of another fleet only if a write was cut short: a file is truncated, or the dashboard is one version ahead of its sidecar; for bare host names too |
| `AggrokubeProofs`: `KubeTypes`, `AlwaysSound`, `PairKept` | `[]TypeOK`, `[]BoardIsSound`, `KeepsPair` |
| `RewritesAreNew`, `OnlyCutsEverMislead` | `RewritesShowSomethingNew`; as above, of the cluster a tick saw |
| `LayoutProofs`: `AlwaysApart`, `RowsAlwaysOwn`, `NeverBlank` | `[]PanelsApart`, `[]RowsOwnTheirPanels`, `[]NoBlankLines` |
| `ExporterProofs`: `AlwaysTyped`, `AlwaysTrue` | `[]TypeOK`, `PublishedIsTrue` |
| `AlwaysFresh`, `SuccessNeverBack` | `[]ServedIsFresh`, `SuccessStays` |
| `RequestsProofs`: `AlwaysTyped`, `ValuesAlwaysPresent` | `[]TypeOK`, `[]ValuesArePresent` |
| `ValuesAlwaysExact`, `NaNOnlyThen` | `[]ValuesAreExact`, `[]NaNOnlyIfSwapLeft` |
| `RequestsListsProofs`: `ListsAlwaysPresent`, `ListsAlwaysExact` | `[]ListsArePresent`, `[]ListsAreExact` |

Two theorems about the registry have the hypothesis `Posters = {}`, an
installation in which nobody uses POST /entities/discover; with it both can fail.
Three about the fleet dashboard ask for instance labels without a port, as the
repository's own collectors write them; "Divergences" says what happens to
others. Those about the cluster dashboard hold for any orders Prometheus may list in
(`SortedOrder` is one of them), those about temperatures for thermal zones numbered
after the other sensors. Each invariant below was first checked by TLC on the instances of the runs.

**Registry.** The invariant is built in layers. None of the properties is inductive
alone: that a commit changes only the columns of its writer needs to know what
the writer's image is. So:

1. `ThreadsOK`: what each thread carries at each point, e.g. that a discovery
   waiting for the lock has chosen a first entity and read labels for it.
2. `LockDiscipline`: with no writer `wdb = db`, and a writer is at a point from
   which it will commit or roll back. Needed for `HolderUndisturbed`: while a
   thread holds the lock no other step touches the tables.
3. `ImageOK`: row by row, a discovery's image is the committed table with what it
   has seen upserted, a GET's is the committed table with the links of rows it
   has materialized. From this the commits' effects follow (`FinishEffect`,
   `RespondEffect`, `PinEffect`), and from these the action properties.
4. `ClassOK`: a discovery that saw a node took the lock with a node's upsert, so
   it read every container's labels from the image it wrote them to.
5. `AnswersOK`, from the first layer alone: the links of each row a request has
   materialized are those of the labels it read, because a link that is kept has
   the fingerprint of all its arguments (`EnsuredLinks`). That the UID may resolve
   in the middle of an answer is why `FallbackUid` stays allowed; a redeployment
   ends every request.

`SoloInv` adds what one discovery may rely on. Everybody else leaves labels, log
rates and times alone (`SightingsKept`, from the effects of the commits), so the
labels read for the first upsert are still the table's when the lock is had
(`BaseOK`), the image has lost no compose label (`KeptOK`), and no row was seen
after this discovery began (`TimesOK`).

**Dashboards.** `PlanOK` says at each of the four write steps which file is
truncated, which is new, and that the planned version is one more than the
sidecar's. From it each concrete step is one of `DashboardPair` or a stutter
(`PairStep`). For the cluster dashboard `ViewOK` adds that a workload is taken up
only after its namespace, so that what is planned is closed. `QuietInv` follows
the files as long as nothing has failed: outside a write they list the same, so
comparing with the sidecar is comparing with the dashboard. For the fleet it also
needs that each entry is for an instance of its own host (`OwnEntries`), which
makes the instances shown the sidecar's keys; for the cluster, that every list there
is has been sorted (`AllSorted`), which makes another list another topology. What failures leave behind follows from
the same invariant: two whole files are the same or one version apart, so a dashboard
that a skipping tick leaves wrong was never recorded (`OnlyCutsEverMislead`). It
stays wrong until the next change, because the comparison is with the sidecar.

**Layout.** The builders append blocks below what is there. `PlacesOK` says where
"below" is: every panel ends above `y`, or, while workloads are placed, above `wy`
or on its line and left of `wx`; ids are below `pid`; and every line down to there
(`FreeLine`) is covered. A line of workloads that is begun is covered by its first
panel, which is why no blank line is left when it is not filled.

**Exporters.** `TruthOK` is the poll's own story: what it knows at each question
was so in a world since it began. `FreshOK` orders times: none is ahead of the
clock, the main thread has polled before anything is served (`BootOK`), and
`_last_poll` is always the beginning of a poll that has published since
(`PublishedOK`), so whoever finds it within the interval is served what was published
within the interval, whichever poll ended last. Until two polls overlap, each also
began after all it finds, with the cache at most one poll ahead of `_last_poll`
(`TurnsOK`). The last success changes only where the card is read, so setting it back
takes a poll that began before the one that set it.

**Requests.** A waiting thread's coroutine is on the loop, and every answer it has
was given while the thread waited (`PresentAnswers`), because a request begins with
a coroutine that has asked nothing yet. `CoroOK` is the order of a coroutine's
queries: what is open or answered is what its fields need, and the second swap
query is there only after an answer that is neither None nor 0. Then each field
of a reply is traced to its answers: a mount's percentage to the size and available
bytes beside it, a container's rates to the sum over the hosts its query matches, which
is its own value where no other host's container matches (`SumOfOne`).

**Lists.** What is sorted is put in order by counting. The rank of an element is the
number of those up to it; ranks are an injection into `1 .. Cardinality(S)`, so each
place is taken, and the only sequence in order is the one with each element at its
rank (`InOrderIs`). No induction is needed. From this, each line of a tail is in the
place its rank gives it (`TailIs`, `PodTailIs`); the limit that Loki and the
apiserver have applied leaves nothing for `First` to cut (`NothingCut`); and the
hottest sensors shown are those whose rank among the plausible readings is at most
`MaxSensors` (`TempsAre`), which is what `Expected` says without sorting anything.
That a list is in order, names nothing twice and is no longer than it may be does not
need a world that stands still, and is part of `ListsArePresent`.

Only model-checked (every safety invariant and action property of a passing run is proved):

* liveness (`LockReleased`, `EverythingEnds`, `LoopKeepsTrying`,
  `SidecarFollowsFleet`, `BoardFollowsFleet`, `SidecarFollowsCluster`,
  `BoardFollowsCluster`, `ScrapesAnswered`): fairness and ENABLED are beyond the
  prover;
* the four divergences, which are single counterexamples.

## Divergences between code and documentation

* `pinned_pruned`. "Persistent never pruned" (`registry/discovery.py:60`). A
  discovery that saw nothing reads what is prunable without the lock; another
  discovery sees one of these containers with compose labels, or a PUT pins it
  persistent, and commits; the first then deletes it.
* `class_flip`. A missing scrape "can't flip a class" (`registry/db.py:51-53`). A
  discovery that found no node reads a container's labels before it has the lock;
  another one commits the compose labels; the first writes its merge without them.
* `board_wiped`. "If same - do nothing (dashboard stays stable)"
  (`aggroboard.py:8`). A failed query is an empty list (`aggroboard.py:107`), so a
  pair of files that agree and show the fleet is rewritten without hosts though the
  fleet is the same, and again when the next query works. (The property asks for
  files that agree: a write that was cut short is rightly done again.)
* `oneoffs`. "Anything else ephemeral (drone steps, scanner jobs, docker run
  one-offs)" (`registry/lifecycle.py:8`). docker-inventory gives a container without
  compose labels the project "standalone" and its own name as the service
  (`docker-inventory/app.py:94`); discovery stores both, and `classify` takes either
  for compose. With docker-inventory running no container it reports is ephemeral.

Smaller ones that the models contain and no run is spent on:

* A host whose instance label goes from `host:port` to `host`: the labels equal
  the sidecar's keys, nothing is written, and its panels keep querying an
  instance that is gone (`aggroboard.py:485`; `SkipsOnlyIfShown` holds for bare host
  names only). With `host:port` labels the comparison never holds and every tick rewrites.
* A container is asked for by `name` and `instance=~"<host>.*"`
  (`telemetry.py:474`), which for `node1` also matches `node10`: of its processor and
  memory the first series is taken, its network and disk rates are summed over both
  hosts. `ValuesArePresent` allows it, `ValuesAreExact` excludes it.
* A mount's percentage is worked out of a size and available bytes that two queries
  answered (`telemetry.py:245`). While a filesystem is resized or remounted it may be
  one that never was; `ValuesArePresent` asks only that it goes with the two numbers.
* `swap_used_pct` "returns None if no swap", but NaN if swap goes between its two
  queries (`NaNOnlyIfSwapLeft`).
* "an exporter that crashes is worse than one reporting 'unknown'"
  (`gpu-exporter/app.py:82-84`): when nobody could say who holds the card, it
  reports `gpu_holder_present 0`, as when nobody does. The two are told apart by
  no series, and `PublishedIsTrue` does not ask for it.

## Not modelled

* `state.py`: a one-time move of a legacy sidecar before the first heartbeat. The
  heartbeats are modelled from an installation that has neither file; a whole or an
  unreadable one they find where an earlier process of theirs left it.
* What nothing promises: two discoveries that commit in the other order than they
  began may set `last_seen` back (`TimesOrdered` is for the loop alone), until the
  next one.
* `links.py`: the URL builders are text; the registry model keeps their arguments.
* Of the registry: the fields `lifecycle.state` and `annotate` add to an answer,
  `_migrate`, the schema.
* Of the process: the routes that hand out a sidecar, the configuration or
  `/health`. A request for a sidecar may read a truncated file and answer with no hosts.
* Panels' queries, thresholds, titles; the escaping of labels, the parsing of timestamps.
* Scripts, compose files and the configuration of third-party programs.

## Plan

1. *(done)* `RegistryStore`, `Registry`, `RegistryProofs`; `DashboardPair`,
   `Aggroboard`, `Aggrokube` and their proofs.
2. *(done)* `DashboardLayout`; `DockerInventory`, `Exporter`, `OneOffs`;
   `Telemetry`, `Requests`.
3. *(done)* `LayoutProofs`, `ExporterProofs`, `RequestsProofs`.
4. *(done)* `RegistrySoloProofs`, `LinksMatch` and `PersistentGoesTwoWays`; the
   dashboards' properties that hold until something fails.
5. *(done)* `RequestsListsProofs`; `OnlyCutsEverMislead` for both dashboards: what they
   keep after a failure.
6. Not planned: a registry in which a discovery is one step, for `Registry` to
   implement. It does not: with a row retired, pinned or relabelled between the
   read and the first write of a discovery the outcome is none that whole
   discoveries one after the other have (`pinned_pruned`, `class_flip`). What is
   left of atomicity is what `DiscoveryIsWhole` and `ColumnsHaveOneWriter` state.
