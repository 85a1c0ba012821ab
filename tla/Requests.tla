------------------------------- MODULE Requests -------------------------------
(***************************************************************************)
(* The telemetry routes of aggregator/theseus/app.py. A request runs on a     *)
(* Flask thread: it hands a coroutine to the event loop (_run) and waits for  *)
(* it for 15 seconds. The coroutine opens an HTTP client, sends the queries   *)
(* of its fields side by side and closes the client when all are answered.    *)
(* A request that gives up leaves its coroutine, and its client, behind.      *)
(*                                                                         *)
(* Meanwhile what is asked changes, and every query may fail. A step is one   *)
(* query answered, at the moment the server evaluates it.                    *)
(*                                                                         *)
(* "during" and "failed" are no variables of the program: they remember what   *)
(* was the case since a request began and which of its queries failed.        *)
(***************************************************************************)
EXTENDS Telemetry

CONSTANTS
    Threads,     \* Flask threads that serve telemetry routes
    Coroutines,  \* bound: coroutines at a time, those left behind included
    Routes,      \* sets of fields
    Wants,       \* sets of levels a log route may be asked for
    Worlds,      \* names of the worlds there may be
    Data,        \* what there is to be asked in each of them
    MaxChanges   \* bound: changes of the world

ASSUME RoutesAssumption == Routes \subseteq SUBSET Fields /\ Wants \subseteq SUBSET Levels
ASSUME WorldsAssumption == Data \in [Worlds -> World]
ASSUME BoundsAssumption == None \notin Coroutines /\ MaxChanges \in Nat

VARIABLES
    world, changes,
    pc,         \* where each thread is
    waits_for,  \* the coroutine it waits for
    coro,       \* the coroutines that have not ended
    reply,      \* what it is about to reply
    during

vars == <<world, changes, pc, waits_for, coro, reply, during>>

LogFields == {"tail", "pod_tail"}

TypeOK ==
    /\ world \in Worlds /\ changes \in Nat
    /\ pc \in [Threads -> {"idle", "wait", "reply"}]
    /\ waits_for \in [Threads -> Coroutines \cup {None}]
    /\ \A t \in Threads : pc[t] = "wait" <=> waits_for[t] # None
    /\ DOMAIN coro \subseteq Coroutines
    /\ \A k \in DOMAIN coro :
         /\ coro[k].fields \in Routes /\ coro[k].host \in Hosts \cup {None}
         /\ coro[k].want \in SUBSET Levels
         /\ coro[k].open \subseteq Queries /\ coro[k].failed \subseteq DOMAIN coro[k].got
         /\ DOMAIN coro[k].got \subseteq Queries \ coro[k].open
    /\ \A t \in Threads :
         IF pc[t] = "reply"
         THEN /\ DOMAIN reply[t].fields \in Routes /\ reply[t].host \in Hosts \cup {None}
              /\ reply[t].want \in SUBSET Levels /\ reply[t].failed \in SUBSET Queries
         ELSE reply[t] = None
    /\ during \in [Threads -> SUBSET Worlds]

Init ==
    /\ world \in Worlds /\ changes = 0
    /\ pc = [t \in Threads |-> "idle"]
    /\ waits_for = [t \in Threads |-> None]
    /\ coro = <<>>
    /\ reply = [t \in Threads |-> None]
    /\ during = [t \in Threads |-> {}]

-----------------------------------------------------------------------------
(* The thread of a request *)

Free == Coroutines \ DOMAIN coro

\* A coroutine that has sent the first queries of its fields.
Begun(fields, host, want) ==
    [fields |-> fields, host |-> host, want |-> want, got |-> <<>>, failed |-> {},
     open |-> UNION {SentFor(f) : f \in fields}]

\* _run: the coroutine is on the loop and the thread waits for it. (Which of the
\* free ones it is makes no difference.)
Start(t, fields, host, want) ==
    /\ Free # {}
    /\ LET k == CHOOSE k \in Free : TRUE IN
        /\ coro' = [j \in DOMAIN coro \cup {k} |->
                        IF j = k THEN Begun(fields, host, want) ELSE coro[j]]
        /\ waits_for' = [waits_for EXCEPT ![t] = k]

\* What a route takes: the host of a container, the levels of a log.
Asked(fields, host, want) ==
    /\ {"usage", "rates"} \cap fields # {} <=> host # None
    /\ fields \cap LogFields = {} => want = {}

WrongRequest(t) ==
    /\ pc[t] = "idle" /\ pc' = [pc EXCEPT ![t] = "wait"]
    /\ during' = [during EXCEPT ![t] = {world}]
    /\ \E fields \in Routes, host \in Hosts \cup {None}, want \in Wants :
        /\ Asked(fields, host, want)
        /\ \/ Start(t, fields, host, want)
           \/ \E k \in DOMAIN coro :
                /\ coro[k].fields = fields /\ coro[k].host = host /\ coro[k].want = want
                /\ waits_for' = [waits_for EXCEPT ![t] = k] /\ UNCHANGED coro
    /\ UNCHANGED <<world, changes, reply>>

Request(t) ==
    /\ pc[t] = "idle" /\ pc' = [pc EXCEPT ![t] = "wait"]
    /\ during' = [during EXCEPT ![t] = {world}]
    /\ \E fields \in Routes, host \in Hosts \cup {None}, want \in Wants :
        Asked(fields, host, want) /\ Start(t, fields, host, want)
    /\ UNCHANGED <<world, changes, reply>>

WrongTimeOut(t) ==
    /\ pc[t] = "wait" /\ pc' = [pc EXCEPT ![t] = "idle"]
    /\ during' = [during EXCEPT ![t] = {}]
    /\ UNCHANGED <<world, changes, waits_for, coro, reply>>

\* .result(timeout=15) raises and the request is a 500: the coroutine goes on.
TimeOut(t) ==
    /\ pc[t] = "wait" /\ pc' = [pc EXCEPT ![t] = "idle"]
    /\ waits_for' = [waits_for EXCEPT ![t] = None]
    /\ during' = [during EXCEPT ![t] = {}]
    /\ UNCHANGED <<world, changes, coro, reply>>

\* jsonify
Reply(t) ==
    /\ pc[t] = "reply" /\ pc' = [pc EXCEPT ![t] = "idle"]
    /\ reply' = [reply EXCEPT ![t] = None]
    /\ during' = [during EXCEPT ![t] = {}]
    /\ UNCHANGED <<world, changes, waits_for, coro>>

-----------------------------------------------------------------------------
(* Its coroutine *)

\* The query q of the coroutine k is answered with v.
Got(k, q, v, failed) ==
    coro' = [coro EXCEPT
        ![k].got = [p \in DOMAIN @ \cup {q} |-> IF p = q THEN v ELSE @[p]],
        ![k].open = (@ \ {q}) \cup SentAfter(q, v),
        ![k].failed = @ \cup failed]

Deliver(k) ==
    /\ UNCHANGED <<world, changes, pc, waits_for, reply, during>>
    /\ k \in DOMAIN coro
    /\ \E q \in coro[k].open :
        \E v \in Answers(Data[world], q, coro[k].host, coro[k].want) : Got(k, q, v, {})

\* No connection, an error status, or the 10 seconds of a query are over.
Fail(k) ==
    /\ UNCHANGED <<world, changes, pc, waits_for, reply, during>>
    /\ k \in DOMAIN coro
    /\ \E q \in coro[k].open : Got(k, q, Nothing(q), {q})

Result(c) ==
    [fields |-> [f \in c.fields |-> Field(f, c.got, c.want)],
     host |-> c.host, want |-> c.want, failed |-> c.failed]

WrongFinish(k) ==
    /\ k \in DOMAIN coro /\ coro[k].open = {}
    /\ \E t \in Threads : waits_for[t] = k
    /\ coro' = [j \in DOMAIN coro \ {k} |-> coro[j]]
    /\ reply' = [t \in Threads |-> IF waits_for[t] = k THEN Result(coro[k]) ELSE reply[t]]
    /\ pc' = [t \in Threads |-> IF waits_for[t] = k THEN "reply" ELSE pc[t]]
    /\ waits_for' = [t \in Threads |-> IF waits_for[t] = k THEN None ELSE waits_for[t]]
    /\ UNCHANGED <<world, changes, during>>

\* All are answered: the client is closed, and whoever still waits has the result.
Finish(k) ==
    /\ UNCHANGED <<world, changes, during>>
    /\ k \in DOMAIN coro /\ coro[k].open = {}
    /\ coro' = [j \in DOMAIN coro \ {k} |-> coro[j]]
    /\ reply' = [t \in Threads |-> IF waits_for[t] = k THEN Result(coro[k]) ELSE reply[t]]
    /\ pc' = [t \in Threads |-> IF waits_for[t] = k THEN "reply" ELSE pc[t]]
    /\ waits_for' = [t \in Threads |-> IF waits_for[t] = k THEN None ELSE waits_for[t]]

-----------------------------------------------------------------------------
(* The surroundings *)

WorldChanges ==
    /\ changes < MaxChanges /\ changes' = changes + 1
    /\ world' \in Worlds \ {world}
    /\ during' = [t \in Threads |->
                    IF pc[t] = "wait" THEN during[t] \cup {world'} ELSE during[t]]
    /\ UNCHANGED <<pc, waits_for, coro, reply>>

Run(k) == Deliver(k) \/ Fail(k) \/ Finish(k)

Next ==
    \/ \E t \in Threads : Request(t) \/ TimeOut(t) \/ Reply(t)
    \/ \E k \in Coroutines : Run(k)
    \/ WorldChanges

Spec == Init /\ [][Next]_vars

\* The loop runs every coroutine and every query has a timeout, so has a request's
\* wait; nobody has to ask.
FairSpec ==
    /\ Spec
    /\ \A k \in Coroutines : WF_vars(Run(k))
    /\ \A t \in Threads : WF_vars(TimeOut(t) \/ Reply(t))

-----------------------------------------------------------------------------
(* What the routes promise *)

Replying == {t \in Threads : pc[t] = "reply"}

\* Whether the value v of the field f is made of what was the case in the worlds ws.
\* A container's is that of its host, or of one whose name begins with its host's.
MadeOf(f, v, host, want, ws) ==
    CASE f = "gauge"  -> v = None \/ \E w \in ws : v = w.gauge
      [] f = "usage"  -> v = None \/
            \E w \in ws : \E h \in {host} \cup Longer[host] : v = w.usage[h]
      [] f = "rates"  -> v = None \/
            \E w \in ws : v = SumFunctionOnSet(w.usage,
                                {h \in {host} \cup Longer[host] : w.usage[h] # None})
      [] f = "swap"   -> v \in {None, NaN} \/ \E w \in ws : v = w.swap
      [] f = "mounts" -> \A r \in v :
            /\ \E w \in ws : w.fs[r.mountpoint] # None /\ w.fs[r.mountpoint].size = r.size
            /\ r.avail # None =>
                \E w \in ws : w.fs[r.mountpoint] # None /\ w.fs[r.mountpoint].avail = r.avail
            /\ r.used = IF r.avail = None THEN None ELSE 100 - (r.avail * 100) \div r.size
      [] f = "counts" ->
            /\ v.total = None \/ \E w \in ws : v.total = Cardinality(Present(w.stack))
            /\ v.running = None \/
                \E w \in ws : v.running = Cardinality({c \in Members : w.stack[c] = "running"})
      [] f = "temps"  ->
            /\ \A n \in DOMAIN v.sensors :
                \E w \in ws : w.temps[v.sensors[n].sensor] = v.sensors[n].c
            /\ \A m, n \in DOMAIN v.sensors : m < n =>
                v.sensors[m].c >= v.sensors[n].c /\ v.sensors[m].sensor # v.sensors[n].sensor
            /\ Len(v.sensors) <= MaxSensors
            /\ v.hottest = IF v.sensors = <<>> THEN None ELSE v.sensors[1].c
      [] f \in LogFields ->
            /\ \A n \in DOMAIN v :
                /\ \E w \in ws : v[n].ts \in DOMAIN w.logs /\ v[n].level = w.logs[v[n].ts]
                /\ want = {} \/ v[n].level \in want
            /\ \A m, n \in DOMAIN v : m < n => v[m].ts > v[n].ts
            /\ Len(v) <= Limit

\* The fields that are lists, sorted and cut to a length.
Lists == {"temps"} \cup LogFields

PresentIn(fields) ==
    \A t \in Replying : \A f \in DOMAIN reply[t].fields \cap fields :
        MadeOf(f, reply[t].fields[f], reply[t].host, reply[t].want,
               {Data[w] : w \in during[t]})

\* "Nothing is cached - callers always get present state": what a query answered was
\* the case at some moment since the request began, whatever earlier requests have
\* left running on the loop. (Every request has a coroutine of its own.) What a mount
\* uses is worked out of the size and the available bytes beside it, and these may be
\* of two moments: no moment need have had that percentage. A container's rates are
\* the sum of all that its query matches, other hosts' included.
ValuesArePresent == PresentIn(Fields \ Lists)

\* So was every reading and every line of its lists, also of two moments in one list.
\* Even then a list is in order, names nothing twice, is no longer than it may be,
\* and a log has no level that was not asked for.
ListsArePresent == PresentIn(Lists)

\* The value of the field f in the world w, less what the failed queries cost.
Expected(f, w, host, want, failed) ==
    LET Known(q) == q \notin failed
        readings == {s \in Present(w.temps) :
                        /\ Known(IF s \in Zones THEN "zones" ELSE "hwmon")
                        /\ 0 < w.temps[s] /\ w.temps[s] < 150}
        rank(s)  == Cardinality({r \in readings :
                        w.temps[r] > w.temps[s] \/ (w.temps[r] = w.temps[s] /\ r <= s)})
        shown    == {s \in readings : rank(s) <= MaxSensors}
    IN
    CASE f = "gauge" -> IF Known("gauge") THEN w.gauge ELSE None
      [] f = "usage" -> IF Known("usage") THEN w.usage[host] ELSE None
      [] f = "rates" -> IF Known("rates") THEN w.usage[host] ELSE None
      [] f = "swap"  -> IF {"swap_total", "swap_pct"} \cap failed = {} /\ w.swap # Off
                        THEN w.swap ELSE None
      [] f = "mounts" ->
            IF ~Known("fs_size") THEN {}
            ELSE {[mountpoint |-> m, size |-> w.fs[m].size,
                   avail |-> IF Known("fs_avail") THEN w.fs[m].avail ELSE None,
                   used  |-> IF Known("fs_avail")
                             THEN 100 - (w.fs[m].avail * 100) \div w.fs[m].size ELSE None] :
                  m \in {m \in Present(w.fs) : w.fs[m].size > 0}}
      [] f = "counts" ->
            [total   |-> IF Known("total") THEN Counted(Present(w.stack)) ELSE None,
             running |-> IF Known("running")
                         THEN Counted({c \in Members : w.stack[c] = "running"}) ELSE None]
      [] f = "temps" ->
            [hottest |-> IF readings = {} THEN None
                         ELSE w.temps[CHOOSE s \in readings : rank(s) = 1],
             sensors |-> [n \in 1 .. Cardinality(shown) |->
                            LET s == CHOOSE s \in shown : rank(s) = n
                            IN  [sensor |-> s, c |-> w.temps[s],
                                 named |-> Known("names") /\ s \in w.named]]]
      [] f = "tail" ->
            IF Known("loki") THEN Lines(w, Descending(Newest(Matching(w, want), Limit)))
            ELSE <<>>
      [] f = "pod_tail" ->
            IF Known("apiserver")
            THEN Lines(w, Descending(Matching(w, want) \cap Newest(DOMAIN w.logs, Limit)))
            ELSE <<>>

\* Another host's container of the same name matches the query as well.
Ambiguous(w, host) == \E h \in Longer[host] : w.usage[h] # None

ExactIn(fields) ==
    \A t \in Replying : \A f \in DOMAIN reply[t].fields \cap fields : \A w \in Worlds :
        during[t] = {w} /\ ~(f \in {"usage", "rates"} /\ Ambiguous(Data[w], reply[t].host)) =>
            reply[t].fields[f] =
                Expected(f, Data[w], reply[t].host, reply[t].want, reply[t].failed)

\* "Every field is optional": while nothing changes, a reply is exactly what there
\* is to tell, less what a failed query would have told. Nothing else is lost with
\* it: mounts keep their sizes, a stack one of its counts. (gather awaits queries
\* that never raise.) Of a container, its rates included, this is promised where no
\* host whose name begins with its host's has one of the same name.
ValuesAreExact == ExactIn(Fields \ Lists)

\* So are the lists: sensors keep their readings and the hottest are shown, logs are
\* the newest lines that match, newest first.
ListsAreExact == ExactIn(Lists)

\* swap_used_pct: "Returns None if no swap". It is NaN, which is not JSON, only for
\* a host whose swap was switched off while it was being asked.
NaNOnlyIfSwapLeft ==
    \A t \in Replying : "swap" \in DOMAIN reply[t].fields =>
        (reply[t].fields["swap"] = NaN =>
            \E w, v \in during[t] : Data[w].swap = Off /\ Data[v].swap \notin {Off, None})

\* Every request ends, and so does every coroutine, also one that nobody waits for
\* any more: it does not keep its client and its connections.
EverythingEnds ==
    /\ \A t \in Threads : pc[t] # "idle" ~> pc[t] = "idle"
    /\ \A k \in Coroutines : k \in DOMAIN coro ~> k \notin DOMAIN coro
=============================================================================
