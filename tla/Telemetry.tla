------------------------------ MODULE Telemetry ------------------------------
(***************************************************************************)
(* The queries of aggregator/theseus/telemetry.py: what Prometheus, Loki and *)
(* the apiserver answer to them, and how the answers become the fields of a   *)
(* reply.                                                                  *)
(*                                                                         *)
(* A world is what there is to be asked. A field is what one method of        *)
(* HostQuery, ServiceQuery, ContainerQuery or PodQuery returns. The fields    *)
(* that are one scalar query are alike: "gauge" is any one of a host or pod,  *)
(* "usage" a container's processor or memory, "rates" a sum over its network *)
(* or disk series. A query that fails is answered with no value or no rows    *)
(* (_prom_query, _prom_scalar, _loki_tail).                                  *)
(***************************************************************************)
EXTENDS Integers, FiniteSets, Sequences, Functions

CONSTANTS
    Gauges,      \* values of a scalar
    Hosts,       \* hosts, each with a container of the name that is asked for
    Longer,      \* the hosts whose names begin with a host's name
    Mounts,      \* mountpoints of a host
    Members,     \* containers of a stack
    Sensors,     \* sensors, numbered as they are listed: those of hwmon, and
    Zones,       \*   after them the thermal zones
    Levels,      \* log levels
    Limit,       \* lines asked for
    MaxSensors,  \* sensors shown
    None, NaN, Off

ASSUME DataAssumption ==
    Gauges \subseteq Nat /\ Sensors \subseteq Nat /\ IsFiniteSet(Sensors)
ASSUME ZonesAssumption ==
    Zones \subseteq Sensors /\ \A s \in Sensors \ Zones, z \in Zones : s < z
ASSUME ValuesAssumption ==
    NaN \notin Gauges \cup {None, Off} /\ {None, NaN, Off} \cap Nat = {} /\ None # Off
ASSUME LongerAssumption == Longer \in [Hosts -> SUBSET Hosts]
ASSUME LimitAssumption == Limit \in Nat \ {0} /\ MaxSensors \in Nat \ {0}

\* swap is Off where SwapTotal is 0. usage: what the container reads as on each
\* host. named: the sensors of hwmon that have a name to be shown. logs: the levels of
\* the lines, oldest first.
World == [gauge : Gauges \cup {None},
          usage : [Hosts -> Gauges \cup {None}],
          swap  : Gauges \cup {None, Off},
          fs    : [Mounts -> [size : Nat, avail : Nat] \cup {None}],
          stack : [Members -> {"running", "exited", None}],
          temps : [Sensors -> Int \cup {None}],
          named : SUBSET (Sensors \ Zones),
          logs  : Seq(Levels)]

Fields == {"gauge", "usage", "rates", "swap", "mounts", "counts", "temps", "tail", "pod_tail"}

Queries == {"gauge", "usage", "rates", "swap_total", "swap_pct", "fs_size", "fs_avail",
            "total", "running", "hwmon", "zones", "names", "loki", "apiserver"}

\* The queries that asyncio.gather sends at once for a field.
SentFor(f) ==
    CASE f = "gauge"    -> {"gauge"}
      [] f = "usage"    -> {"usage"}
      [] f = "rates"    -> {"rates"}
      [] f = "swap"     -> {"swap_total"}
      [] f = "mounts"   -> {"fs_size", "fs_avail"}
      [] f = "counts"   -> {"total", "running"}
      [] f = "temps"    -> {"hwmon", "zones", "names"}
      [] f = "tail"     -> {"loki"}
      [] f = "pod_tail" -> {"apiserver"}

WrongSentAfter(q, v) == IF q = "swap_total" /\ v # None THEN {"swap_pct"} ELSE {}

\* The one that waits for another: swap_used_pct asks on only where there is swap.
SentAfter(q, v) == IF q = "swap_total" /\ v \notin {None, 0} THEN {"swap_pct"} ELSE {}

-----------------------------------------------------------------------------
(* Lists *)

\* The elements of a finite set, in the strict total order R.
InOrder(set, R) ==
    CHOOSE s \in [1 .. Cardinality(set) -> set] :
        \A m, n \in DOMAIN s : m < n => <<s[m], s[n]>> \in R

Sorted(set, Before(_, _)) == InOrder(set, {p \in set \X set : Before(p[1], p[2])})

First(seq, n) == SubSeq(seq, 1, IF Len(seq) < n THEN Len(seq) ELSE n)

-----------------------------------------------------------------------------
(* Answers to queries *)

\* PromQL's count() of nothing is not 0 but no series.
Counted(set) == IF set = {} THEN None ELSE Cardinality(set)

Present(f) == {x \in DOMAIN f : f[x] # None}

\* Lines of the levels "want", all where it is empty; a line is its place in the log.
Matching(w, want) == {i \in DOMAIN w.logs : want = {} \/ w.logs[i] \in want}
Newest(lines, n)  == {i \in lines : Cardinality({j \in lines : j > i}) < n}
Line(w, i)        == [ts |-> i, level |-> w.logs[i]]
Descending(lines) == Sorted(lines, >)
Ascending(lines)  == Sorted(lines, <)

Lines(w, order) == [n \in DOMAIN order |-> Line(w, order[n])]

\* Loki: one stream per level, each of them newest first.
Streams(w, want) ==
    LET found == Newest(Matching(w, want), Limit)
    IN  [l \in Levels |-> Lines(w, Descending({i \in found : w.logs[i] = l}))]

WrongSelected(w, host) == {h \in Hosts : w.usage[h] # None}

\* ContainerQuery: name="<name>",instance=~"<host>.*"
Selected(w, host) == {h \in {host} \cup Longer[host] : w.usage[h] # None}

\* Of several series _prom_scalar takes the one that comes first, in no order.
UsageAnswers(w, host) ==
    IF Selected(w, host) = {} THEN {None} ELSE {w.usage[h] : h \in Selected(w, host)}

\* PromQL's sum() over every series that is selected; of none it is no series.
Summed(w, host) ==
    IF Selected(w, host) = {} THEN None
    ELSE SumFunctionOnSet(w.usage, Selected(w, host))

Answer(w, q, host, want) ==
    CASE q = "gauge"      -> w.gauge
      [] q = "rates"      -> Summed(w, host)
      [] q = "swap_total" -> IF w.swap = Off THEN 0 ELSE IF w.swap = None THEN None ELSE 1
      [] q = "swap_pct"   -> IF w.swap = Off THEN NaN ELSE w.swap
      [] q = "fs_size"    -> [m \in Present(w.fs) |-> w.fs[m].size]
      [] q = "fs_avail"   -> [m \in Present(w.fs) |-> w.fs[m].avail]
      [] q = "total"      -> Counted(Present(w.stack))
      [] q = "running"    -> Counted({c \in Members : w.stack[c] = "running"})
      [] q = "hwmon"      -> [s \in Present(w.temps) \ Zones |-> w.temps[s]]
      [] q = "zones"      -> [s \in Present(w.temps) \cap Zones |-> w.temps[s]]
      [] q = "names"      -> w.named
      [] q = "loki"       -> Streams(w, want)
      \* tailLines: the last lines of every level, oldest first.
      [] q = "apiserver"  -> Lines(w, Ascending(Newest(DOMAIN w.logs, Limit)))

\* What the query q may be answered in the world w.
Answers(w, q, host, want) ==
    IF q = "usage" THEN UsageAnswers(w, host) ELSE {Answer(w, q, host, want)}

Nothing(q) ==
    CASE q \in {"gauge", "usage", "rates", "swap_total", "swap_pct", "total", "running"} -> None
      [] q = "names" -> {}
      [] q = "loki" -> [l \in Levels |-> <<>>]
      [] OTHER -> <<>>

-----------------------------------------------------------------------------
(* Fields of a reply *)

\* In whole percent here.
Used(size, avail) == 100 - (avail * 100) \div size

\* A mountpoint that was not answered reads as full.
WrongMount(m, size, avails) ==
    IF m \in DOMAIN avails
    THEN [mountpoint |-> m, size |-> size, avail |-> avails[m], used |-> Used(size, avails[m])]
    ELSE [mountpoint |-> m, size |-> size, avail |-> None, used |-> Used(size, 0)]

\* A mountpoint without its available bytes keeps its size.
Mount(m, size, avails) ==
    IF m \in DOMAIN avails
    THEN [mountpoint |-> m, size |-> size, avail |-> avails[m], used |-> Used(size, avails[m])]
    ELSE [mountpoint |-> m, size |-> size, avail |-> None, used |-> None]

WrongMountRows(sizes, avails) ==
    {Mount(m, sizes[m], avails) : m \in {m \in DOMAIN sizes \cap DOMAIN avails : sizes[m] # 0}}

MountRows(sizes, avails) ==
    {Mount(m, sizes[m], avails) : m \in {m \in DOMAIN sizes : sizes[m] # 0}}

\* The zones are listed after the sensors of hwmon.
Joined(hwmon, zones) ==
    [s \in DOMAIN hwmon \cup DOMAIN zones |-> IF s \in DOMAIN hwmon THEN hwmon[s] ELSE zones[s]]

Hotter(x, y) == x.c > y.c \/ (x.c = y.c /\ x.sensor < y.sensor)

\* The hottest of the readings: one out of (0, 150) is none.
Hottest(read) ==
    LET sorted == Sorted({x \in read : 0 < x.c /\ x.c < 150}, Hotter)
    IN  [hottest |-> IF sorted = <<>> THEN None ELSE sorted[1].c,
         sensors |-> First(sorted, MaxSensors)]

WrongTemps(degrees, names) ==
    Hottest({[sensor |-> s, named |-> TRUE, c |-> degrees[s]] : s \in DOMAIN degrees \cap names})

\* A sensor of hwmon without a name keeps its bus path. (The queries for the names of
\* chips and of their sensors are one here; a zone goes by its type.)
Temps(degrees, names) ==
    Hottest({[sensor |-> s, named |-> s \in names, c |-> degrees[s]] : s \in DOMAIN degrees})

Newer(x, y) == x.ts > y.ts
Older(x, y) == x.ts < y.ts

LinesOf(streams) == UNION {Range(streams[l]) : l \in Levels}

WrongLokiTail(streams) == First(Sorted(LinesOf(streams), Older), Limit)

\* _loki_tail: the lines of all streams, newest first.
LokiTail(streams) == First(Sorted(LinesOf(streams), Newer), Limit)

WrongPodTail(text, want) ==
    LET wanted == {x \in Range(text) : want = {} \/ x.level \in want}
    IN  First(Sorted(wanted, Older), Limit)

\* PodQuery.log_tail: the levels are chosen from the lines that were sent.
PodTail(text, want) ==
    LET wanted == {x \in Range(text) : want = {} \/ x.level \in want}
    IN  First(Sorted(wanted, Newer), Limit)

\* What the field f is, given the answers "got" to its queries.
Field(f, got, want) ==
    CASE f = "gauge"    -> got["gauge"]
      [] f = "usage"    -> got["usage"]
      [] f = "rates"    -> got["rates"]
      [] f = "swap"     -> IF "swap_pct" \in DOMAIN got THEN got["swap_pct"] ELSE None
      [] f = "mounts"   -> MountRows(got["fs_size"], got["fs_avail"])
      [] f = "counts"   -> [total |-> got["total"], running |-> got["running"]]
      [] f = "temps"    -> Temps(Joined(got["hwmon"], got["zones"]), got["names"])
      [] f = "tail"     -> LokiTail(got["loki"])
      [] f = "pod_tail" -> PodTail(got["apiserver"], want)
=============================================================================
