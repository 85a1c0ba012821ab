---------------------------- MODULE RequestsProofs ----------------------------
(***************************************************************************)
(* Requests for any number of threads, coroutines, routes and worlds: types,  *)
(* and that a reply is made of answers given since its request began,          *)
(* whatever earlier requests have left running on the loop.                   *)
(*                                                                         *)
(* Invariant: a thread waits for a coroutine that is on the loop, all of       *)
(* whose answers were given while the thread waited; and no coroutine asks     *)
(* how much swap is used before it knows that there is swap.                  *)
(***************************************************************************)
EXTENDS Requests, TLAPS

\* A coroutine c has sent what its fields need, the one query that waits for
\* another only after the other's answer.
CoroOK(c) ==
    /\ DOMAIN c = {"fields", "host", "want", "got", "failed", "open"}
    /\ c.fields \in Routes /\ c.host \in Hosts \cup {None} /\ c.want \in SUBSET Levels
    /\ {"usage", "rates"} \cap c.fields # {} => c.host \in Hosts
    /\ c.open \subseteq Queries /\ c.failed \subseteq DOMAIN c.got
    /\ DOMAIN c.got \subseteq Queries \ c.open
    /\ \A f \in c.fields : SentFor(f) \subseteq c.open \cup DOMAIN c.got
    /\ "swap_pct" \in c.open \cup DOMAIN c.got <=>
          "swap_total" \in DOMAIN c.got /\ c.got["swap_total"] \notin {None, 0}

LoopOK ==
    /\ DOMAIN coro \subseteq Coroutines
    /\ coro = [k \in DOMAIN coro |-> coro[k]]
    /\ \A k \in DOMAIN coro : CoroOK(coro[k])

\* Every answer the coroutine c has is that to a failed query or what the query
\* was answered in one of the worlds ws.
PresentAnswers(c, ws) ==
    \A q \in DOMAIN c.got :
        IF q \in c.failed THEN c.got[q] = Nothing(q)
        ELSE \E w \in ws : c.got[q] \in Answers(Data[w], q, c.host, c.want)

ThreadOK(t) ==
    /\ pc[t] = "wait" =>
         /\ waits_for[t] \in DOMAIN coro /\ world \in during[t]
         /\ PresentAnswers(coro[waits_for[t]], during[t])
    /\ pc[t] # "wait" => waits_for[t] = None
    /\ pc[t] # "reply" => reply[t] = None
    /\ pc[t] = "reply" =>
         \E c : CoroOK(c) /\ c.open = {} /\ PresentAnswers(c, during[t]) /\ reply[t] = Result(c)

BaseOK ==
    /\ world \in Worlds /\ changes \in Nat
    /\ pc \in [Threads -> {"idle", "wait", "reply"}]
    /\ waits_for \in [Threads -> Coroutines \cup {None}]
    /\ reply = [t \in Threads |-> reply[t]]
    /\ during \in [Threads -> SUBSET Worlds]

IInv == BaseOK /\ LoopOK /\ \A t \in Threads : ThreadOK(t)

-----------------------------------------------------------------------------
(* Coroutines *)

LEMMA QueriesOK ==
    /\ \A f \in Fields : SentFor(f) \subseteq Queries \ {"swap_pct"}
    /\ \A q, v : SentAfter(q, v) \subseteq Queries
    /\ \A q, v : SentAfter(q, v) # {} =>
         q = "swap_total" /\ v \notin {None, 0} /\ SentAfter(q, v) = {"swap_pct"}
    /\ \A v : SentAfter("swap_total", v) = {} => v \in {None, 0}
<1>1. \A f \in Fields : SentFor(f) \subseteq Queries \ {"swap_pct"}
  BY DEF Fields, SentFor, Queries
<1> QED BY <1>1 DEF SentAfter, Queries

LEMMA BegunOK ==
    ASSUME NEW fields \in Routes, NEW host \in Hosts \cup {None}, NEW want \in SUBSET Levels,
           Asked(fields, host, want)
    PROVE  CoroOK(Begun(fields, host, want)) /\ \A ws : PresentAnswers(Begun(fields, host, want), ws)
<1>1. fields \subseteq Fields
  BY RoutesAssumption
<1> DEFINE c == Begun(fields, host, want)
<1>2. /\ DOMAIN c = {"fields", "host", "want", "got", "failed", "open"}
      /\ c.fields = fields /\ c.host = host /\ c.want = want /\ c.failed = {}
      /\ DOMAIN c.got = {} /\ c.open = UNION {SentFor(f) : f \in fields}
  BY DEF Begun
<1> HIDE DEF c
<1>3. c.open \subseteq Queries \ {"swap_pct"}
  BY <1>1, <1>2, QueriesOK
<1>4. \A f \in c.fields : SentFor(f) \subseteq c.open
  BY <1>2
<1>5. CoroOK(c)
  BY <1>2, <1>3, <1>4 DEF CoroOK, Asked
<1>6. \A ws : PresentAnswers(c, ws)
  BY <1>2 DEF PresentAnswers
<1> QED BY <1>5, <1>6 DEF c

\* An answer adds to what a coroutine has got and touches no other coroutine.
LEMMA GotEffect ==
    ASSUME LoopOK, NEW k \in DOMAIN coro, NEW q \in coro[k].open, NEW v, NEW failed,
           Got(k, q, v, failed)
    PROVE  LET c == coro[k] d == coro'[k] IN
           /\ DOMAIN coro' = DOMAIN coro
           /\ coro' = [j \in DOMAIN coro' |-> coro'[j]]
           /\ \A j \in DOMAIN coro : j # k => coro'[j] = coro[j]
           /\ DOMAIN d = DOMAIN c
           /\ d.fields = c.fields /\ d.host = c.host /\ d.want = c.want
           /\ DOMAIN d.got = DOMAIN c.got \cup {q} /\ d.got[q] = v
           /\ \A p \in DOMAIN c.got : p # q => d.got[p] = c.got[p]
           /\ d.open = (c.open \ {q}) \cup SentAfter(q, v)
           /\ d.failed = c.failed \cup failed
<1> DEFINE got == [p \in DOMAIN coro[k].got \cup {q} |-> IF p = q THEN v ELSE coro[k].got[p]]
           open == (coro[k].open \ {q}) \cup SentAfter(q, v)
           fails == coro[k].failed \cup failed
<1>1. DOMAIN coro[k] = {"fields", "host", "want", "got", "failed", "open"}
  BY DEF LoopOK, CoroOK
<1>2. coro' = [coro EXCEPT ![k].got = got, ![k].open = open, ![k].failed = fails]
  BY DEF Got
<1>3. /\ DOMAIN got = DOMAIN coro[k].got \cup {q} /\ got[q] = v
      /\ \A p \in DOMAIN coro[k].got : p # q => got[p] = coro[k].got[p]
  OBVIOUS
<1> HIDE DEF got, open, fails
<1>4. /\ DOMAIN coro' = DOMAIN coro
      /\ coro' = [j \in DOMAIN coro' |-> coro'[j]]
      /\ \A j \in DOMAIN coro : j # k => coro'[j] = coro[j]
  BY <1>2
<1>5. /\ DOMAIN coro'[k] = DOMAIN coro[k]
      /\ coro'[k].fields = coro[k].fields /\ coro'[k].host = coro[k].host
      /\ coro'[k].want = coro[k].want
      /\ coro'[k].got = got /\ coro'[k].open = open /\ coro'[k].failed = fails
  BY <1>1, <1>2
<1> QED BY <1>3, <1>4, <1>5 DEF open, fails

LEMMA GotOK ==
    ASSUME LoopOK, NEW k \in DOMAIN coro, NEW q \in coro[k].open, NEW v, NEW failed,
           failed \subseteq {q}, Got(k, q, v, failed)
    PROVE  LoopOK'
<1> DEFINE c == coro[k]
           d == coro'[k]
<1>1. /\ DOMAIN coro' = DOMAIN coro
      /\ coro' = [j \in DOMAIN coro' |-> coro'[j]]
      /\ \A j \in DOMAIN coro : j # k => coro'[j] = coro[j]
  BY GotEffect
<1>2. /\ DOMAIN d = DOMAIN c
      /\ d.fields = c.fields /\ d.host = c.host /\ d.want = c.want
      /\ DOMAIN d.got = DOMAIN c.got \cup {q} /\ d.got[q] = v
      /\ \A p \in DOMAIN c.got : p # q => d.got[p] = c.got[p]
      /\ d.open = (c.open \ {q}) \cup SentAfter(q, v)
      /\ d.failed = c.failed \cup failed
  BY GotEffect
<1>3. CoroOK(c) /\ q \in c.open
  BY DEF LoopOK
<1> HIDE DEF c, d
<1>4. q \in Queries /\ q \notin DOMAIN c.got
  BY <1>3 DEF CoroOK
<1>5. CoroOK(d)
  <2>1. CASE SentAfter(q, v) = {}
    <3>1. /\ d.open \subseteq Queries /\ d.failed \subseteq DOMAIN d.got
          /\ DOMAIN d.got \subseteq Queries \ d.open
      BY <1>2, <1>3, <1>4, <2>1 DEF CoroOK
    <3>2. d.open \cup DOMAIN d.got = c.open \cup DOMAIN c.got
      BY <1>2, <1>3, <2>1
    <3>3. q = "swap_total" => v \in {None, 0}
      BY <2>1, QueriesOK
    <3> QED BY <1>2, <1>3, <1>4, <3>1, <3>2, <3>3 DEF CoroOK
  <2>2. CASE SentAfter(q, v) # {}
    <3>1. /\ q = "swap_total" /\ v \notin {None, 0} /\ SentAfter(q, v) = {"swap_pct"}
          /\ "swap_pct" \notin c.open \cup DOMAIN c.got
      BY <1>3, <1>4, <2>2, QueriesOK DEF CoroOK
    <3>2. /\ d.open \subseteq Queries /\ d.failed \subseteq DOMAIN d.got
          /\ DOMAIN d.got \subseteq Queries \ d.open
      BY <1>2, <1>3, <1>4, <3>1 DEF CoroOK, Queries
    <3>3. c.open \cup DOMAIN c.got \subseteq d.open \cup DOMAIN d.got
      BY <1>2, <1>3
    <3> QED BY <1>2, <1>3, <3>1, <3>2, <3>3 DEF CoroOK
  <2> QED BY <2>1, <2>2
<1> QED BY <1>1, <1>5 DEF LoopOK, d

-----------------------------------------------------------------------------
(* Threads *)

\* Others' steps leave a thread what it has; what was the case stays known.
LEMMA Undisturbed ==
    ASSUME NEW t \in Threads, ThreadOK(t), pc'[t] = pc[t], waits_for'[t] = waits_for[t],
           reply'[t] = reply[t], during[t] \subseteq during'[t],
           pc[t] = "wait" => world' \in during'[t],
           pc[t] = "wait" => waits_for[t] \in DOMAIN coro'
                              /\ coro'[waits_for[t]] = coro[waits_for[t]]
    PROVE  ThreadOK(t)'
<1>1. \A c : PresentAnswers(c, during[t]) => PresentAnswers(c, during'[t])
  BY DEF PresentAnswers
<1>2. pc[t] = "wait" => PresentAnswers(coro[waits_for[t]], during[t])'
  <2> SUFFICES ASSUME pc[t] = "wait" PROVE PresentAnswers(coro[waits_for[t]], during[t])'
    OBVIOUS
  <2>1. PresentAnswers(coro[waits_for[t]], during[t])
    BY DEF ThreadOK
  <2> QED BY <2>1 DEF PresentAnswers
<1>3. pc[t] = "reply" =>
         \E c : CoroOK(c) /\ c.open = {} /\ PresentAnswers(c, during'[t]) /\ reply'[t] = Result(c)
  BY <1>1 DEF ThreadOK
<1>4. pc'[t] = "reply" =>
         (\E c : CoroOK(c) /\ c.open = {} /\ PresentAnswers(c, during[t]) /\ reply[t] = Result(c))'
  BY <1>3 DEF CoroOK, PresentAnswers, Result
<1> QED BY <1>2, <1>4 DEF ThreadOK

LEMMA RequestOK == ASSUME IInv, NEW t \in Threads, Request(t) PROVE IInv'
<1>1. PICK fields \in Routes, host \in Hosts \cup {None}, want \in Wants :
        Asked(fields, host, want) /\ Start(t, fields, host, want)
  BY DEF Request
<1> DEFINE c == Begun(fields, host, want)
<1>2. want \in SUBSET Levels
  BY RoutesAssumption
<1>3. CoroOK(c) /\ \A ws : PresentAnswers(c, ws)
  BY <1>1, <1>2, BegunOK
<1>4. PICK k \in Coroutines \ DOMAIN coro :
        /\ coro' = [j \in DOMAIN coro \cup {k} |-> IF j = k THEN c ELSE coro[j]]
        /\ waits_for' = [waits_for EXCEPT ![t] = k]
  BY <1>1 DEF Start, Free
<1> HIDE DEF c
<1>5. /\ UNCHANGED <<world, changes, reply>> /\ pc[t] = "idle" /\ pc' = [pc EXCEPT ![t] = "wait"]
      /\ during' = [during EXCEPT ![t] = {world}]
  BY DEF Request
<1>6. BaseOK'
  BY <1>4, <1>5 DEF IInv, BaseOK
<1>7. LoopOK'
  BY <1>3, <1>4 DEF IInv, LoopOK
<1> SUFFICES ASSUME NEW u \in Threads PROVE ThreadOK(u)'
  BY <1>6, <1>7 DEF IInv
<1>8. CASE u = t
  <2>1. /\ pc'[t] = "wait" /\ waits_for'[t] = k /\ coro'[k] = c /\ k \in DOMAIN coro'
        /\ world' \in during'[t] /\ reply'[t] = reply[t]
    BY <1>4, <1>5 DEF IInv, BaseOK
  <2>2. reply'[t] = None
    BY <1>5, <2>1 DEF IInv, ThreadOK
  <2>3. PresentAnswers(coro[waits_for[t]], during[t])'
    BY <1>3, <2>1 DEF PresentAnswers
  <2> QED BY <1>8, <2>1, <2>2, <2>3 DEF ThreadOK
<1>9. CASE u # t
  <2>1. /\ pc'[u] = pc[u] /\ waits_for'[u] = waits_for[u] /\ during'[u] = during[u]
        /\ reply'[u] = reply[u]
    BY <1>4, <1>5, <1>9 DEF IInv, BaseOK
  <2>2. ThreadOK(u)
    BY DEF IInv
  <2>3. pc[u] = "wait" => waits_for[u] \in DOMAIN coro'
                              /\ coro'[waits_for[u]] = coro[waits_for[u]]
                              /\ world' \in during'[u]
    BY <1>4, <1>5, <2>1, <2>2 DEF ThreadOK
  <2> QED BY <2>1, <2>2, <2>3, Undisturbed
<1> QED BY <1>8, <1>9

\* A request ends, its coroutine perhaps does not.
LEMMA EndOK == ASSUME IInv, NEW t \in Threads, TimeOut(t) \/ Reply(t) PROVE IInv'
<1>1. /\ UNCHANGED <<world, changes, coro>> /\ pc' = [pc EXCEPT ![t] = "idle"]
      /\ during' = [during EXCEPT ![t] = {}]
      /\ \/ UNCHANGED reply \/ reply' = [reply EXCEPT ![t] = None]
      /\ \/ UNCHANGED waits_for \/ waits_for' = [waits_for EXCEPT ![t] = None]
  BY DEF TimeOut, Reply
<1>2. pc'[t] = "idle" /\ waits_for'[t] = None /\ reply'[t] = None
  BY DEF TimeOut, Reply, IInv, BaseOK, ThreadOK
<1>3. BaseOK' /\ LoopOK'
  BY <1>1 DEF IInv, BaseOK, LoopOK, CoroOK
<1> SUFFICES ASSUME NEW u \in Threads PROVE ThreadOK(u)'
  BY <1>3 DEF IInv
<1>4. CASE u = t
  BY <1>2, <1>4 DEF ThreadOK
<1>5. CASE u # t
  <2>1. /\ pc'[u] = pc[u] /\ waits_for'[u] = waits_for[u] /\ during'[u] = during[u]
        /\ reply'[u] = reply[u]
    BY <1>1, <1>5 DEF IInv, BaseOK
  <2>2. ThreadOK(u)
    BY DEF IInv
  <2> QED BY <1>1, <2>1, <2>2, Undisturbed DEF ThreadOK
<1> QED BY <1>4, <1>5

\* An answer is that of the world there is now, which whoever waits has seen.
LEMMA AnswerOK ==
    ASSUME IInv, NEW k \in Coroutines, Deliver(k) \/ Fail(k) PROVE IInv'
<1>1. k \in DOMAIN coro /\ UNCHANGED <<world, changes, pc, waits_for, reply, during>>
  BY DEF Deliver, Fail
<1>2. PICK q, v, failed :
        /\ q \in coro[k].open /\ failed \subseteq {q} /\ Got(k, q, v, failed)
        /\ IF q \in failed THEN v = Nothing(q)
           ELSE v \in Answers(Data[world], q, coro[k].host, coro[k].want)
  <2>1. CASE Deliver(k)
    BY <2>1 DEF Deliver
  <2>2. CASE Fail(k)
    BY <2>2 DEF Fail
  <2> QED BY <2>1, <2>2
<1>3. LoopOK /\ LoopOK'
  BY <1>1, <1>2, GotOK DEF IInv
<1>4. BaseOK'
  BY <1>1 DEF IInv, BaseOK
<1> DEFINE c == coro[k]
           d == coro'[k]
<1>5. /\ DOMAIN coro' = DOMAIN coro
      /\ \A j \in DOMAIN coro : j # k => coro'[j] = coro[j]
      /\ d.host = c.host /\ d.want = c.want
      /\ DOMAIN d.got = DOMAIN c.got \cup {q} /\ d.got[q] = v
      /\ \A p \in DOMAIN c.got : p # q => d.got[p] = c.got[p]
      /\ d.failed = c.failed \cup failed
  BY <1>1, <1>2, <1>3, GotEffect
<1>6. ASSUME NEW ws, world \in ws, PresentAnswers(c, ws) PROVE PresentAnswers(d, ws)
  <2> HIDE DEF c, d
  <2> SUFFICES ASSUME NEW p \in DOMAIN d.got
               PROVE  IF p \in d.failed THEN d.got[p] = Nothing(p)
                      ELSE \E w \in ws : d.got[p] \in Answers(Data[w], p, d.host, d.want)
    BY DEF PresentAnswers
  <2>1. CASE p = q
    <3>1. IF q \in failed THEN v = Nothing(q)
          ELSE v \in Answers(Data[world], q, c.host, c.want)
      BY <1>2 DEF c
    <3>2. q \notin c.failed
      BY <1>1, <1>2, <1>3 DEF LoopOK, CoroOK, c
    <3> QED BY <1>5, <1>6, <2>1, <3>1, <3>2
  <2>2. CASE p # q
    BY <1>2, <1>5, <1>6, <2>2 DEF PresentAnswers
  <2> QED BY <2>1, <2>2
<1> SUFFICES ASSUME NEW t \in Threads PROVE ThreadOK(t)'
  BY <1>3, <1>4 DEF IInv
<1>7. ThreadOK(t)
  BY DEF IInv
<1>8. CASE pc[t] = "wait" /\ waits_for[t] = k
  <2>1. PresentAnswers(d, during[t]) /\ world \in during[t]
    BY <1>6, <1>7, <1>8 DEF ThreadOK
  <2>2. PresentAnswers(coro[waits_for[t]], during[t])'
    BY <1>1, <1>8, <2>1 DEF PresentAnswers
  <2> QED BY <1>1, <1>5, <1>7, <1>8, <2>1, <2>2 DEF ThreadOK
<1>9. CASE ~(pc[t] = "wait" /\ waits_for[t] = k)
  BY <1>1, <1>5, <1>7, <1>9, Undisturbed DEF ThreadOK
<1> QED BY <1>8, <1>9

LEMMA FinishOK == ASSUME IInv, NEW k \in Coroutines, Finish(k) PROVE IInv'
<1>1. /\ UNCHANGED <<world, changes, during>> /\ k \in DOMAIN coro /\ coro[k].open = {}
      /\ coro' = [j \in DOMAIN coro \ {k} |-> coro[j]]
      /\ reply' = [t \in Threads |-> IF waits_for[t] = k THEN Result(coro[k]) ELSE reply[t]]
      /\ pc' = [t \in Threads |-> IF waits_for[t] = k THEN "reply" ELSE pc[t]]
      /\ waits_for' = [t \in Threads |-> IF waits_for[t] = k THEN None ELSE waits_for[t]]
  BY DEF Finish
<1>2. BaseOK'
  BY <1>1 DEF IInv, BaseOK
<1>3. LoopOK' /\ CoroOK(coro[k])
  BY <1>1 DEF IInv, LoopOK
<1> SUFFICES ASSUME NEW t \in Threads PROVE ThreadOK(t)'
  BY <1>2, <1>3 DEF IInv
<1>4. ThreadOK(t)
  BY DEF IInv
<1>5. CASE waits_for[t] = k
  <2>1. pc[t] = "wait" /\ PresentAnswers(coro[k], during[t])
    BY <1>4, <1>5, BoundsAssumption DEF ThreadOK
  <2>2. pc'[t] = "reply" /\ waits_for'[t] = None /\ reply'[t] = Result(coro[k])
    BY <1>1, <1>5
  <2> DEFINE c == coro[k]
  <2>3. CoroOK(c) /\ c.open = {} /\ PresentAnswers(c, during'[t]) /\ reply'[t] = Result(c)
    BY <1>1, <1>3, <2>1, <2>2
  <2> HIDE DEF c
  <2>4. (\E d : CoroOK(d) /\ d.open = {} /\ PresentAnswers(d, during[t])
                 /\ reply[t] = Result(d))'
    BY <2>3 DEF CoroOK, PresentAnswers, Result
  <2> QED BY <2>2, <2>4 DEF ThreadOK
<1>6. CASE waits_for[t] # k
  BY <1>1, <1>4, <1>6, Undisturbed DEF ThreadOK
<1> QED BY <1>5, <1>6

LEMMA OutsideOK == ASSUME IInv, WorldChanges \/ UNCHANGED vars PROVE IInv'
<1>1. UNCHANGED <<pc, waits_for, coro, reply>>
  BY DEF WorldChanges, vars
<1>2. LoopOK'
  BY <1>1 DEF IInv, LoopOK, CoroOK
<1>3. BaseOK'
  BY DEF IInv, BaseOK, WorldChanges, vars
<1> SUFFICES ASSUME NEW t \in Threads PROVE ThreadOK(t)'
  BY <1>2, <1>3 DEF IInv
<1>4. ThreadOK(t)
  BY DEF IInv
<1>5. during[t] \subseteq during'[t] /\ (pc[t] = "wait" => world' \in during'[t])
  BY <1>4 DEF WorldChanges, vars, ThreadOK
<1> QED BY <1>1, <1>4, <1>5, Undisturbed DEF ThreadOK

LEMMA IInit == Init => IInv
  BY DEF Init, IInv, BaseOK, LoopOK, ThreadOK

LEMMA INext == IInv /\ [Next]_vars => IInv'
<1> SUFFICES ASSUME IInv, [Next]_vars PROVE IInv'
  OBVIOUS
<1> QED BY RequestOK, EndOK, AnswerOK, FinishOK, OutsideOK DEF Next, Run

-----------------------------------------------------------------------------
(* The promises, for any number of requests *)

\* Types: a request waits exactly while its coroutine runs, and no query of a
\* coroutine is both sent and answered.
THEOREM AlwaysTyped == Spec => []TypeOK
<1>1. IInv => TypeOK
  <2> SUFFICES ASSUME IInv PROVE TypeOK
    OBVIOUS
  <2>1. \A t \in Threads : pc[t] = "wait" <=> waits_for[t] # None
    BY BoundsAssumption DEF IInv, ThreadOK, LoopOK
  <2>2. ASSUME NEW t \in Threads, pc[t] = "reply"
        PROVE  /\ DOMAIN reply[t].fields \in Routes /\ reply[t].host \in Hosts \cup {None}
               /\ reply[t].want \in SUBSET Levels /\ reply[t].failed \in SUBSET Queries
    <3>1. PICK c : CoroOK(c) /\ reply[t] = Result(c)
      BY <2>2 DEF IInv, ThreadOK
    <3> QED BY <3>1 DEF CoroOK, Result
  <2>3. \A k \in DOMAIN coro : CoroOK(coro[k])
    BY DEF IInv, LoopOK
  <2> QED BY <2>1, <2>2, <2>3 DEF IInv, BaseOK, LoopOK, ThreadOK, CoroOK, TypeOK
<1> QED BY <1>1, IInit, INext, PTL DEF Spec

-----------------------------------------------------------------------------
(* Values of a reply *)

\* The answers to the queries of a field that is no list.
LEMMA QueriesAnswered ==
    ASSUME NEW c, CoroOK(c), c.open = {}, NEW f \in c.fields
    PROVE  /\ f \in Fields /\ SentFor(f) \subseteq DOMAIN c.got
           /\ f \in Fields \ Lists => f \in {"gauge", "usage", "rates", "swap", "mounts", "counts"}
  BY RoutesAssumption DEF CoroOK, Fields, Lists, LogFields

LEMMA WorldsTyped == \A w \in Worlds : Data[w] \in World
  BY WorldsAssumption

\* What some of the queries tell of a world.
SizesOf(w)   == [m \in Present(w.fs) |-> w.fs[m].size]
AvailsOf(w)  == [m \in Present(w.fs) |-> w.fs[m].avail]
RunningIn(w) == {m \in Members : w.stack[m] = "running"}

LEMMA AnswersAre ==
    ASSUME NEW w, NEW host, NEW want
    PROVE  /\ Answers(w, "gauge", host, want) = {w.gauge}
           /\ Answers(w, "usage", host, want) = UsageAnswers(w, host)
           /\ Answers(w, "rates", host, want) = {Summed(w, host)}
           /\ Answers(w, "swap_total", host, want) =
                {IF w.swap = Off THEN 0 ELSE IF w.swap = None THEN None ELSE 1}
           /\ Answers(w, "swap_pct", host, want) = {IF w.swap = Off THEN NaN ELSE w.swap}
           /\ Answers(w, "fs_size", host, want) = {SizesOf(w)}
           /\ Answers(w, "fs_avail", host, want) = {AvailsOf(w)}
           /\ Answers(w, "total", host, want) = {Counted(Present(w.stack))}
           /\ Answers(w, "running", host, want)
                = {Counted(RunningIn(w))}
  BY DEF Answers, Answer, SizesOf, AvailsOf, RunningIn

LEMMA NothingIs ==
    /\ \A q \in {"gauge", "usage", "rates", "swap_total", "swap_pct", "total", "running"} :
         Nothing(q) = None
    /\ DOMAIN Nothing("fs_size") = {} /\ DOMAIN Nothing("fs_avail") = {}
  BY DEF Nothing

\* An answered query, in the world it was answered in.
LEMMA Answered ==
    ASSUME NEW c, NEW ws, PresentAnswers(c, ws), NEW q \in DOMAIN c.got
    PROVE  IF q \in c.failed THEN c.got[q] = Nothing(q)
           ELSE \E w \in ws : c.got[q] \in Answers(Data[w], q, c.host, c.want)
  BY DEF PresentAnswers

LEMMA GaugeField ==
    ASSUME NEW c, CoroOK(c), c.open = {}, "gauge" \in c.fields, NEW ws, PresentAnswers(c, ws)
    PROVE  IF "gauge" \in c.failed THEN Field("gauge", c.got, c.want) = None
           ELSE \E w \in ws : Field("gauge", c.got, c.want) = Data[w].gauge
<1>1. "gauge" \in DOMAIN c.got
  BY QueriesAnswered DEF SentFor
<1>2. Field("gauge", c.got, c.want) = c.got["gauge"]
  BY DEF Field
<1> QED BY <1>1, <1>2, Answered, AnswersAre, NothingIs

LEMMA UsageField ==
    ASSUME NEW c, CoroOK(c), c.open = {}, "usage" \in c.fields, NEW ws, PresentAnswers(c, ws)
    PROVE  IF "usage" \in c.failed THEN Field("usage", c.got, c.want) = None
           ELSE \E w \in ws : Field("usage", c.got, c.want) \in UsageAnswers(Data[w], c.host)
<1>1. "usage" \in DOMAIN c.got
  BY QueriesAnswered DEF SentFor
<1>2. Field("usage", c.got, c.want) = c.got["usage"]
  BY DEF Field
<1> QED BY <1>1, <1>2, Answered, AnswersAre, NothingIs

LEMMA RatesField ==
    ASSUME NEW c, CoroOK(c), c.open = {}, "rates" \in c.fields, NEW ws, PresentAnswers(c, ws)
    PROVE  IF "rates" \in c.failed THEN Field("rates", c.got, c.want) = None
           ELSE \E w \in ws : Field("rates", c.got, c.want) = Summed(Data[w], c.host)
<1>1. "rates" \in DOMAIN c.got
  BY QueriesAnswered DEF SentFor
<1>2. Field("rates", c.got, c.want) = c.got["rates"]
  BY DEF Field
<1> QED BY <1>1, <1>2, Answered, AnswersAre, NothingIs

\* A sum of one summand is that summand.
LEMMA SumOfOne ==
    ASSUME NEW x, NEW g, g[x] \in Int
    PROVE  SumFunctionOnSet(g, {x}) = g[x]
<1> DEFINE IsSum(s) == s = [T \in SUBSET {x} |->
                            IF T = {} THEN 0
                            ELSE LET y == CHOOSE y \in T : TRUE IN g[y] + s[T \ {y}]]
           one == [T \in SUBSET {x} |-> IF T = {} THEN 0 ELSE g[x]]
<1>1. SumFunctionOnSet(g, {x}) = (CHOOSE s : IsSum(s))[{x}]
  BY DEF SumFunctionOnSet, FoldFunctionOnSet, MapThenFoldSet
<1>2. IsSum(one)
  <2>1. ASSUME NEW T \in SUBSET {x}, T # {}
        PROVE  /\ (CHOOSE y \in T : TRUE) = x
               /\ T \ {x} = {}
    BY <2>1
  <2>2. ASSUME NEW T \in SUBSET {x}
        PROVE  one[T] = IF T = {} THEN 0
                        ELSE LET y == CHOOSE y \in T : TRUE IN g[y] + one[T \ {y}]
    BY <2>1
  <2> QED BY <2>2
<1>3. IsSum(CHOOSE s : IsSum(s))
  BY <1>2
<1>4. ASSUME NEW s, IsSum(s) PROVE s[{x}] = g[x]
  <2>1. s[{}] = 0
    BY <1>4
  <2> DEFINE y == CHOOSE y \in {x} : TRUE
  <2>2. s[{x}] = g[y] + s[{x} \ {y}]
    BY <1>4
  <2>3. y = x
    OBVIOUS
  <2> HIDE DEF y
  <2>4. {x} \ {y} = {}
    BY <2>3
  <2>5. s[{x}] = g[x] + 0
    BY <2>1, <2>2, <2>3, <2>4
  <2> QED BY <2>5
<1> QED BY <1>1, <1>3, <1>4

\* How much swap is used is asked when there was swap.
LEMMA SwapField ==
    ASSUME NEW c, CoroOK(c), c.open = {}, "swap" \in c.fields, NEW ws, PresentAnswers(c, ws)
    PROVE  \/ /\ Field("swap", c.got, c.want) = None
              /\ "swap_total" \in c.failed \/ \E v \in ws : Data[v].swap \in {Off, None}
           \/ /\ "swap_total" \notin c.failed /\ \E v \in ws : Data[v].swap \notin {Off, None}
              /\ IF "swap_pct" \in c.failed THEN Field("swap", c.got, c.want) = None
                 ELSE \E w \in ws : Field("swap", c.got, c.want)
                                      = (IF Data[w].swap = Off THEN NaN ELSE Data[w].swap)
<1>1. "swap_total" \in DOMAIN c.got
  BY QueriesAnswered DEF SentFor
<1>2. Field("swap", c.got, c.want) = (IF "swap_pct" \in DOMAIN c.got THEN c.got["swap_pct"] ELSE None)
  BY DEF Field
<1>3. "swap_pct" \in DOMAIN c.got <=> c.got["swap_total"] \notin {None, 0}
  BY <1>1 DEF CoroOK
<1>4. IF "swap_total" \in c.failed THEN c.got["swap_total"] = None
      ELSE \E v \in ws : c.got["swap_total"] =
              (IF Data[v].swap = Off THEN 0 ELSE IF Data[v].swap = None THEN None ELSE 1)
  BY <1>1, Answered, AnswersAre, NothingIs
<1>5. 1 \notin {None, 0}
  BY ValuesAssumption
<1>6. CASE "swap_pct" \notin DOMAIN c.got
  BY <1>2, <1>3, <1>4, <1>5, <1>6
<1>7. CASE "swap_pct" \in DOMAIN c.got
  <2>1. "swap_total" \notin c.failed /\ \E v \in ws : Data[v].swap \notin {Off, None}
    BY <1>3, <1>4, <1>7
  <2>2. IF "swap_pct" \in c.failed THEN c.got["swap_pct"] = None
        ELSE \E w \in ws : c.got["swap_pct"]
                             = (IF Data[w].swap = Off THEN NaN ELSE Data[w].swap)
    BY <1>7, Answered, AnswersAre, NothingIs
  <2> QED BY <1>2, <1>7, <2>1, <2>2
<1> QED BY <1>6, <1>7

\* Sizes and available bytes are those of one moment each.
LEMMA MountsField ==
    ASSUME NEW c, CoroOK(c), c.open = {}, "mounts" \in c.fields, NEW ws, PresentAnswers(c, ws)
    PROVE  LET sizes == c.got["fs_size"] avails == c.got["fs_avail"] IN
           /\ Field("mounts", c.got, c.want) = MountRows(sizes, avails)
           /\ IF "fs_size" \in c.failed THEN DOMAIN sizes = {}
              ELSE \E w \in ws : sizes = SizesOf(Data[w])
           /\ IF "fs_avail" \in c.failed THEN DOMAIN avails = {}
              ELSE \E w \in ws : avails = AvailsOf(Data[w])
<1>1. "fs_size" \in DOMAIN c.got /\ "fs_avail" \in DOMAIN c.got
  BY QueriesAnswered DEF SentFor
<1>2. Field("mounts", c.got, c.want) = MountRows(c.got["fs_size"], c.got["fs_avail"])
  BY DEF Field
<1>3. IF "fs_size" \in c.failed THEN DOMAIN c.got["fs_size"] = {}
      ELSE \E w \in ws : c.got["fs_size"] = SizesOf(Data[w])
  BY <1>1, Answered, AnswersAre, NothingIs
<1>4. IF "fs_avail" \in c.failed THEN DOMAIN c.got["fs_avail"] = {}
      ELSE \E w \in ws : c.got["fs_avail"] = AvailsOf(Data[w])
  BY <1>1, Answered, AnswersAre, NothingIs
<1> QED BY <1>2, <1>3, <1>4

LEMMA CountsField ==
    ASSUME NEW c, CoroOK(c), c.open = {}, "counts" \in c.fields, NEW ws, PresentAnswers(c, ws)
    PROVE  LET total == c.got["total"] running == c.got["running"] IN
           /\ Field("counts", c.got, c.want) = [total |-> total, running |-> running]
           /\ IF "total" \in c.failed THEN total = None
              ELSE \E w \in ws : total = Counted(Present(Data[w].stack))
           /\ IF "running" \in c.failed THEN running = None
              ELSE \E w \in ws : running = Counted(RunningIn(Data[w]))
<1>1. "total" \in DOMAIN c.got /\ "running" \in DOMAIN c.got
  BY QueriesAnswered DEF SentFor
<1>2. Field("counts", c.got, c.want) = [total |-> c.got["total"], running |-> c.got["running"]]
  BY DEF Field
<1>3. IF "total" \in c.failed THEN c.got["total"] = None
      ELSE \E w \in ws : c.got["total"] = Counted(Present(Data[w].stack))
  BY <1>1, Answered, AnswersAre, NothingIs
<1>4. IF "running" \in c.failed THEN c.got["running"] = None
      ELSE \E w \in ws : c.got["running"] = Counted(RunningIn(Data[w]))
  BY <1>1, Answered, AnswersAre, NothingIs
<1> QED BY <1>2, <1>3, <1>4

-----------------------------------------------------------------------------
(* Replies are of the present *)

\* What a row of mounts is made of.
RowMade(r, ws) ==
    /\ \E w \in ws : w.fs[r.mountpoint] # None /\ w.fs[r.mountpoint].size = r.size
    /\ r.avail # None =>
        \E w \in ws : w.fs[r.mountpoint] # None /\ w.fs[r.mountpoint].avail = r.avail
    /\ r.used = IF r.avail = None THEN None ELSE 100 - (r.avail * 100) \div r.size

LEMMA MountsMade ==
    ASSUME NEW ws \in SUBSET Worlds, NEW sizes, NEW avails,
           \/ DOMAIN sizes = {}
           \/ \E w \in ws : sizes = SizesOf(Data[w]),
           \/ DOMAIN avails = {}
           \/ \E w \in ws : avails = AvailsOf(Data[w]),
           NEW r \in MountRows(sizes, avails)
    PROVE  RowMade(r, {Data[v] : v \in ws})
<1>1. PICK m \in DOMAIN sizes : r = Mount(m, sizes[m], avails)
  BY DEF MountRows
<1>2. /\ r.mountpoint = m /\ r.size = sizes[m]
      /\ r.avail # None => m \in DOMAIN avails /\ r.avail = avails[m]
  BY <1>1 DEF Mount
<1>3. PICK v \in ws : sizes = SizesOf(Data[v])
  BY <1>1
<1>4. Data[v].fs[m] # None /\ Data[v].fs[m].size = r.size
  BY <1>1, <1>2, <1>3 DEF Present, SizesOf, AvailsOf
<1>5. ASSUME r.avail # None
      PROVE  \E u \in ws : Data[u].fs[m] # None /\ Data[u].fs[m].avail = r.avail
  <2>1. PICK u \in ws : avails = AvailsOf(Data[u])
    BY <1>2, <1>5
  <2> QED BY <1>2, <1>5, <2>1 DEF Present, SizesOf, AvailsOf
<1>6. m \in DOMAIN avails => avails[m] # None
  <2> SUFFICES ASSUME m \in DOMAIN avails PROVE avails[m] # None
    OBVIOUS
  <2>1. PICK u \in ws : avails = AvailsOf(Data[u])
    OBVIOUS
  <2>2. avails[m] \in Nat
    BY <2>1, WorldsTyped DEF World, Present, AvailsOf
  <2> QED BY <2>2, ValuesAssumption
<1>7. r.used = IF r.avail = None THEN None ELSE 100 - (r.avail * 100) \div r.size
  <2>1. CASE m \in DOMAIN avails
    BY <1>1, <1>6, <2>1 DEF Mount, Used
  <2>2. CASE m \notin DOMAIN avails
    BY <1>1, <2>2 DEF Mount
  <2> QED BY <2>1, <2>2
<1> QED BY <1>2, <1>4, <1>5, <1>7 DEF RowMade

\* What a coroutine makes of answers given in the worlds ws is made of these worlds.
LEMMA FieldMade ==
    ASSUME NEW c, CoroOK(c), c.open = {}, NEW ws \in SUBSET Worlds, PresentAnswers(c, ws),
           NEW f \in c.fields, f \notin Lists
    PROVE  MadeOf(f, Field(f, c.got, c.want), c.host, c.want, {Data[w] : w \in ws})
<1>1. f \in {"gauge", "usage", "rates", "swap", "mounts", "counts"}
  BY QueriesAnswered
<1>2. CASE f = "gauge"
  BY <1>2, GaugeField DEF MadeOf, LogFields
<1>3. CASE f = "usage"
  <2>1. \A w, v : v \in UsageAnswers(w, c.host) =>
            v = None \/ \E h \in {c.host} \cup Longer[c.host] : v = w.usage[h]
    BY DEF UsageAnswers, Selected
  <2> QED BY <1>3, <2>1, UsageField DEF MadeOf, LogFields
<1>4. CASE f = "swap"
  BY <1>4, SwapField DEF MadeOf, LogFields
<1>7. CASE f = "rates"
  <2> DEFINE v == Field("rates", c.got, c.want)
             over(w) == {h \in {c.host} \cup Longer[c.host] : w.usage[h] # None}
  <2>1. \/ v = None
        \/ \E w \in ws : v = SumFunctionOnSet(Data[w].usage, over(Data[w]))
    <3>1. \A w : Summed(w, c.host) = None
                  \/ Summed(w, c.host) = SumFunctionOnSet(w.usage, over(w))
      BY DEF Summed, Selected
    <3> HIDE DEF over
    <3>2. v = None \/ \E w \in ws : v = Summed(Data[w], c.host)
      BY <1>7, RatesField
    <3> QED BY <3>1, <3>2
  <2> HIDE DEF v
  <2>2. MadeOf("rates", v, c.host, c.want, {Data[w] : w \in ws})
    BY <2>1 DEF MadeOf, LogFields
  <2> QED BY <1>7, <2>2 DEF v
<1>5. CASE f = "mounts"
  <2> DEFINE sizes == c.got["fs_size"]
             avails == c.got["fs_avail"]
  <2>1. /\ Field("mounts", c.got, c.want) = MountRows(sizes, avails)
        /\ \/ DOMAIN sizes = {}
           \/ \E w \in ws : sizes = SizesOf(Data[w])
        /\ \/ DOMAIN avails = {}
           \/ \E w \in ws : avails = AvailsOf(Data[w])
    BY <1>5, MountsField
  <2> HIDE DEF sizes, avails
  <2>2. \A r \in MountRows(sizes, avails) : RowMade(r, {Data[v] : v \in ws})
    BY <2>1, MountsMade
  <2>3. MadeOf("mounts", MountRows(sizes, avails), c.host, c.want, {Data[w] : w \in ws})
    BY <2>2 DEF MadeOf, RowMade, LogFields
  <2> QED BY <1>5, <2>1, <2>3
<1>6. CASE f = "counts"
  <2> DEFINE total == c.got["total"]
             running == c.got["running"]
  <2>1. /\ Field("counts", c.got, c.want) = [total |-> total, running |-> running]
        /\ total = None \/ \E w \in ws : total = Cardinality(Present(Data[w].stack))
        /\ running = None \/
             \E w \in ws : running = Cardinality(RunningIn(Data[w]))
    BY <1>6, CountsField DEF Counted
  <2> HIDE DEF total, running
  <2>2. MadeOf("counts", [total |-> total, running |-> running], c.host, c.want,
               {Data[w] : w \in ws})
    BY <2>1 DEF MadeOf, LogFields, RunningIn
  <2> QED BY <1>6, <2>1, <2>2
<1> QED BY <1>1, <1>2, <1>3, <1>4, <1>5, <1>6, <1>7

\* However many requests time out and leave their coroutines running: what a query
\* answered was the case at some moment since its request began, and a percentage
\* used goes with the size and the available bytes beside it.
THEOREM ValuesAlwaysPresent == Spec => []ValuesArePresent
<1>1. IInv => ValuesArePresent
  <2> SUFFICES ASSUME IInv, NEW t \in Replying,
                      NEW f \in DOMAIN reply[t].fields \cap (Fields \ Lists)
               PROVE  MadeOf(f, reply[t].fields[f], reply[t].host, reply[t].want,
                             {Data[w] : w \in during[t]})
    BY DEF ValuesArePresent, PresentIn
  <2>1. PICK c : CoroOK(c) /\ c.open = {} /\ PresentAnswers(c, during[t]) /\ reply[t] = Result(c)
    BY DEF Replying, IInv, ThreadOK
  <2>2. /\ f \in c.fields /\ reply[t].fields[f] = Field(f, c.got, c.want)
        /\ reply[t].host = c.host /\ reply[t].want = c.want
    BY <2>1 DEF Result
  <2>3. during[t] \in SUBSET Worlds
    BY DEF IInv, BaseOK, Replying
  <2> QED BY <2>1, <2>2, <2>3, FieldMade
<1> QED BY <1>1, IInit, INext, PTL DEF Spec

\* A host whose swap is on, or off, all the while it is asked is never told NaN.
THEOREM NaNOnlyThen == Spec => []NaNOnlyIfSwapLeft
<1>1. IInv => NaNOnlyIfSwapLeft
  <2> SUFFICES ASSUME IInv, NEW t \in Replying, "swap" \in DOMAIN reply[t].fields,
                      reply[t].fields["swap"] = NaN
               PROVE  \E w, v \in during[t] : Data[w].swap = Off /\ Data[v].swap \notin {Off, None}
    BY DEF NaNOnlyIfSwapLeft
  <2>1. PICK c : CoroOK(c) /\ c.open = {} /\ PresentAnswers(c, during[t]) /\ reply[t] = Result(c)
    BY DEF Replying, IInv, ThreadOK
  <2>2. "swap" \in c.fields /\ Field("swap", c.got, c.want) = NaN
    BY <2>1 DEF Result
  <2>3. \A w \in during[t] : Data[w].swap # NaN
    BY WorldsTyped, ValuesAssumption DEF IInv, BaseOK, Replying, World
  <2> QED BY <2>1, <2>2, <2>3, SwapField, ValuesAssumption
<1> QED BY <1>1, IInit, INext, PTL DEF Spec

-----------------------------------------------------------------------------
(* A failed query costs its own values *)

LEMMA MountsExact ==
    ASSUME NEW w \in World, NEW sizes, NEW avails, NEW failed,
           IF "fs_size" \in failed THEN DOMAIN sizes = {}
           ELSE sizes = SizesOf(w),
           IF "fs_avail" \in failed THEN DOMAIN avails = {}
           ELSE avails = AvailsOf(w),
           NEW host, NEW want
    PROVE  MountRows(sizes, avails) = Expected("mounts", w, host, want, failed)
<1> DEFINE Known(m) ==
      [mountpoint |-> m, size |-> w.fs[m].size,
       avail |-> IF "fs_avail" \notin failed THEN w.fs[m].avail ELSE None,
       used  |-> IF "fs_avail" \notin failed
                 THEN 100 - (w.fs[m].avail * 100) \div w.fs[m].size ELSE None]
<1>1. Expected("mounts", w, host, want, failed) =
        IF "fs_size" \in failed THEN {}
        ELSE {Known(m) : m \in {m \in Present(w.fs) : w.fs[m].size > 0}}
  BY DEF Expected
<1>2. CASE "fs_size" \in failed
  BY <1>1, <1>2 DEF MountRows
<1>3. CASE "fs_size" \notin failed
  <2>1. \A m \in Present(w.fs) : w.fs[m].size \in Nat /\ sizes[m] = w.fs[m].size
    BY <1>3 DEF World, Present, SizesOf
  <2>2. {m \in DOMAIN sizes : sizes[m] # 0} = {m \in Present(w.fs) : w.fs[m].size > 0}
    BY <1>3, <2>1 DEF SizesOf
  <2>3. ASSUME NEW m \in Present(w.fs) PROVE Mount(m, sizes[m], avails) = Known(m)
    BY <2>1 DEF Mount, Used, AvailsOf
  <2> HIDE DEF Known
  <2> QED BY <1>1, <1>3, <2>2, <2>3 DEF MountRows
<1> QED BY <1>2, <1>3

\* While nothing but the world w was the case, a value is what w has to tell, less
\* what failed.
LEMMA FieldExact ==
    ASSUME NEW c, CoroOK(c), c.open = {}, NEW w \in Worlds,
           NEW ws, ws = {w}, PresentAnswers(c, ws),
           NEW f \in c.fields, f \notin Lists,
           ~(f \in {"usage", "rates"} /\ Ambiguous(Data[w], c.host))
    PROVE  Field(f, c.got, c.want) = Expected(f, Data[w], c.host, c.want, c.failed)
<1>1. f \in {"gauge", "usage", "rates", "swap", "mounts", "counts"}
  BY QueriesAnswered
<1>2. CASE f = "gauge"
  <2>1. Expected("gauge", Data[w], c.host, c.want, c.failed)
          = IF "gauge" \notin c.failed THEN Data[w].gauge ELSE None
    BY DEF Expected
  <2> QED BY <1>2, <2>1, GaugeField
<1>3. CASE f = "usage"
  <2>1. Expected("usage", Data[w], c.host, c.want, c.failed)
          = IF "usage" \notin c.failed THEN Data[w].usage[c.host] ELSE None
    BY DEF Expected
  <2>2. \A h \in Longer[c.host] : Data[w].usage[h] = None
    BY <1>3 DEF Ambiguous
  <2>3. UsageAnswers(Data[w], c.host) = {Data[w].usage[c.host]}
    <3>1. CASE Data[w].usage[c.host] = None
      BY <2>2, <3>1 DEF UsageAnswers, Selected
    <3>2. CASE Data[w].usage[c.host] # None
      <4>1. Selected(Data[w], c.host) = {c.host}
        BY <2>2, <3>2 DEF Selected
      <4> QED BY <4>1 DEF UsageAnswers
    <3> QED BY <3>1, <3>2
  <2> QED BY <1>3, <2>1, <2>3, UsageField
<1>7. CASE f = "rates"
  <2>1. Expected("rates", Data[w], c.host, c.want, c.failed)
          = IF "rates" \notin c.failed THEN Data[w].usage[c.host] ELSE None
    BY DEF Expected
  <2>2. \A h \in Longer[c.host] : Data[w].usage[h] = None
    BY <1>7 DEF Ambiguous
  <2>3. Summed(Data[w], c.host) = Data[w].usage[c.host]
    <3>1. CASE Data[w].usage[c.host] = None
      BY <2>2, <3>1 DEF Summed, Selected
    <3>2. CASE Data[w].usage[c.host] # None
      <4>1. Selected(Data[w], c.host) = {c.host}
        BY <2>2, <3>2 DEF Selected
      <4> c.host \in Hosts
        BY <1>7 DEF CoroOK
      <4>2. Data[w].usage[c.host] \in Int
        <5>1. Data[w].usage \in [Hosts -> Gauges \cup {None}]
          BY WorldsTyped DEF World
        <5>2. Data[w].usage[c.host] \in Gauges
          BY <3>2, <5>1
        <5>3. Gauges \subseteq Int
          BY DataAssumption
        <5> QED BY <5>2, <5>3
      <4>3. SumFunctionOnSet(Data[w].usage, {c.host}) = Data[w].usage[c.host]
        BY <4>2, SumOfOne
      <4> QED BY <4>1, <4>3 DEF Summed
    <3> QED BY <3>1, <3>2
  <2> QED BY <1>7, <2>1, <2>3, RatesField
<1>4. CASE f = "swap"
  <2>1. Expected("swap", Data[w], c.host, c.want, c.failed)
          = IF {"swap_total", "swap_pct"} \cap c.failed = {} /\ Data[w].swap # Off
            THEN Data[w].swap ELSE None
    BY DEF Expected
  <2>2. "swap_pct" \in c.failed => "swap_pct" \in DOMAIN c.got
    BY DEF CoroOK
  <2>3. "swap_total" \in DOMAIN c.got
    BY <1>4, QueriesAnswered DEF SentFor
  <2>4. CASE Data[w].swap \in {Off, None}
    <3>1. c.got["swap_total"] \in {None, 0}
      BY <2>3, <2>4, Answered, AnswersAre, NothingIs
    <3>2. "swap_pct" \notin DOMAIN c.got
      BY <3>1 DEF CoroOK
    <3> QED BY <1>4, <2>1, <2>4, <3>2 DEF Field
  <2>5. CASE Data[w].swap \notin {Off, None}
    BY <1>4, <2>1, <2>2, <2>5, SwapField
  <2> QED BY <2>4, <2>5
<1>5. CASE f = "mounts"
  <2> DEFINE sizes == c.got["fs_size"]
             avails == c.got["fs_avail"]
  <2>1. /\ Field("mounts", c.got, c.want) = MountRows(sizes, avails)
        /\ IF "fs_size" \in c.failed THEN DOMAIN sizes = {}
           ELSE sizes = SizesOf(Data[w])
        /\ IF "fs_avail" \in c.failed THEN DOMAIN avails = {}
           ELSE avails = AvailsOf(Data[w])
    BY <1>5, MountsField
  <2> HIDE DEF sizes, avails
  <2> QED BY <1>5, <2>1, WorldsTyped, MountsExact
<1>6. CASE f = "counts"
  <2>1. Expected("counts", Data[w], c.host, c.want, c.failed)
          = [total   |-> IF "total" \notin c.failed THEN Counted(Present(Data[w].stack)) ELSE None,
             running |-> IF "running" \notin c.failed
                         THEN Counted(RunningIn(Data[w])) ELSE None]
    BY DEF Expected, RunningIn
  <2> DEFINE total == c.got["total"]
             running == c.got["running"]
  <2>2. /\ Field("counts", c.got, c.want) = [total |-> total, running |-> running]
        /\ total = IF "total" \in c.failed THEN None ELSE Counted(Present(Data[w].stack))
        /\ running = IF "running" \in c.failed THEN None ELSE Counted(RunningIn(Data[w]))
    BY <1>6, CountsField
  <2> HIDE DEF total, running
  <2> QED BY <1>6, <2>1, <2>2
<1> QED BY <1>1, <1>2, <1>3, <1>4, <1>5, <1>6, <1>7

\* Whichever queries fail: while nothing changes, the values of a reply are exactly
\* what there is to tell, less those that a failed query would have told.
THEOREM ValuesAlwaysExact == Spec => []ValuesAreExact
<1>1. IInv => ValuesAreExact
  <2> SUFFICES ASSUME IInv, NEW t \in Replying,
                      NEW f \in DOMAIN reply[t].fields \cap (Fields \ Lists), NEW w \in Worlds,
                      during[t] = {w},
                      ~(f \in {"usage", "rates"} /\ Ambiguous(Data[w], reply[t].host))
               PROVE  reply[t].fields[f] =
                        Expected(f, Data[w], reply[t].host, reply[t].want, reply[t].failed)
    BY DEF ValuesAreExact, ExactIn
  <2>1. PICK c : CoroOK(c) /\ c.open = {} /\ PresentAnswers(c, during[t]) /\ reply[t] = Result(c)
    BY DEF Replying, IInv, ThreadOK
  <2>2. /\ f \in c.fields /\ reply[t].fields[f] = Field(f, c.got, c.want)
        /\ reply[t].host = c.host /\ reply[t].want = c.want /\ reply[t].failed = c.failed
    BY <2>1 DEF Result
  <2> QED BY <2>1, <2>2, FieldExact
<1> QED BY <1>1, IInit, INext, PTL DEF Spec
=============================================================================
