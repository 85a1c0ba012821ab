------------------------- MODULE RequestsListsProofs -------------------------
(***************************************************************************)
(* The lists of Requests, for any logs, sensors and limits: what is sorted and *)
(* cut to a length. A finite set in a strict total order is put in order by    *)
(* counting: the rank of an element is the number of those up to it. So that a *)
(* list is in order needs no induction: ranks are an injection into            *)
(* 1 .. Cardinality(S), and an injection between sets of one size is onto.     *)
(***************************************************************************)
EXTENDS RequestsProofs, FiniteSetTheorems

\* R is a strict total order of the finite set S.
Orders(R, S) ==
    /\ IsFiniteSet(S)
    /\ \A x \in S : <<x, x>> \notin R
    /\ \A x, y \in S : x = y \/ <<x, y>> \in R \/ <<y, x>> \in R
    /\ \A x, y, z \in S : <<x, y>> \in R /\ <<y, z>> \in R => <<x, z>> \in R

UpTo(x, S, R) == {y \in S : y = x \/ <<y, x>> \in R}

Rank(x, S, R) == Cardinality(UpTo(x, S, R))

IsInOrder(s, S, R) ==
    /\ s \in [1 .. Cardinality(S) -> S]
    /\ \A m, n \in DOMAIN s : m < n => <<s[m], s[n]>> \in R

-----------------------------------------------------------------------------
(* Ranks *)

LEMMA RankIn ==
    ASSUME NEW S, NEW R, Orders(R, S), NEW x \in S
    PROVE  Rank(x, S, R) \in 1 .. Cardinality(S)
<1> DEFINE U == UpTo(x, S, R)
<1>1. x \in U /\ U \in SUBSET S
  BY DEF UpTo
<1> HIDE DEF U
<1>2. IsFiniteSet(S)
  BY DEF Orders
<1>3. IsFiniteSet(U) /\ Cardinality(U) <= Cardinality(S)
  BY <1>1, <1>2, FS_Subset
<1>4. Cardinality(U) \in Nat /\ Cardinality(S) \in Nat
  BY <1>2, <1>3, FS_CardinalityType
<1>5. Cardinality(U) # 0
  BY <1>1, <1>3, FS_EmptySet
<1> QED BY <1>3, <1>4, <1>5 DEF Rank, U

LEMMA RankGrows ==
    ASSUME NEW S, NEW R, Orders(R, S), NEW x \in S, NEW y \in S, <<x, y>> \in R
    PROVE  Rank(x, S, R) < Rank(y, S, R)
<1> DEFINE U == UpTo(x, S, R)
           V == UpTo(y, S, R)
<1>1. U \in SUBSET V
  BY DEF UpTo, Orders
<1>2. y \in V /\ y \notin U
  BY DEF UpTo, Orders
<1>3. V \in SUBSET S
  BY DEF UpTo
<1> HIDE DEF U, V
<1>4. IsFiniteSet(V)
  BY <1>3, FS_Subset DEF Orders
<1>5. IsFiniteSet(U) /\ Cardinality(U) <= Cardinality(V) /\ Cardinality(U) # Cardinality(V)
  BY <1>1, <1>2, <1>4, FS_Subset
<1>6. Cardinality(U) \in Nat /\ Cardinality(V) \in Nat
  BY <1>4, <1>5, FS_CardinalityType
<1> QED BY <1>5, <1>6 DEF Rank, U, V

LEMMA RankTells ==
    ASSUME NEW S, NEW R, Orders(R, S), NEW x \in S, NEW y \in S
    PROVE  /\ Rank(x, S, R) = Rank(y, S, R) => x = y
           /\ Rank(x, S, R) < Rank(y, S, R) => <<x, y>> \in R
<1>1. Rank(x, S, R) \in Nat /\ Rank(y, S, R) \in Nat
  BY RankIn DEF Orders
<1>2. x = y \/ <<x, y>> \in R \/ <<y, x>> \in R
  BY DEF Orders
<1>3. <<x, y>> \in R => Rank(x, S, R) < Rank(y, S, R)
  BY RankGrows
<1>4. <<y, x>> \in R => Rank(y, S, R) < Rank(x, S, R)
  BY RankGrows
<1> QED BY <1>1, <1>2, <1>3, <1>4

\* Every place of 1 .. Cardinality(S) is some element's.
LEMMA RankOnto ==
    ASSUME NEW S, NEW R, Orders(R, S), NEW n \in 1 .. Cardinality(S)
    PROVE  \E x \in S : Rank(x, S, R) = n
<1> DEFINE T == 1 .. Cardinality(S)
           f == [x \in S |-> Rank(x, S, R)]
<1>1. IsFiniteSet(S) /\ Cardinality(S) \in Nat
  BY FS_CardinalityType DEF Orders
<1>2. IsFiniteSet(T) /\ Cardinality(T) = Cardinality(S)
  BY <1>1, FS_Interval
<1>3. f \in [S -> T]
  BY RankIn
<1>4. \A x, y \in S : f[x] = f[y] => x = y
  BY RankTells
<1> HIDE DEF f, T
<1>5. f \in Injection(S, T)
  BY <1>3, <1>4 DEF Injection, IsInjective
<1>6. f \in Surjection(S, T)
  BY <1>2, <1>5, FS_Injection
<1>7. \A k \in T : \E x \in S : f[x] = k
  BY <1>6 DEF Surjection
<1> QED BY <1>7 DEF f, T

\* In a list in order, the n-th has rank n.
LEMMA PlaceIsRank ==
    ASSUME NEW S, NEW R, Orders(R, S), NEW s, IsInOrder(s, S, R), NEW n \in 1 .. Cardinality(S)
    PROVE  Rank(s[n], S, R) = n
<1> DEFINE T == 1 .. Cardinality(S)
           U == UpTo(s[n], S, R)
           f == [m \in 1 .. n |-> s[m]]
<1>1. IsFiniteSet(S) /\ Cardinality(S) \in Nat
  BY FS_CardinalityType DEF Orders
<1>2. IsFiniteSet(T) /\ Cardinality(T) = Cardinality(S)
  BY <1>1, FS_Interval
<1>3. s \in [T -> S] /\ \A k, m \in T : k < m => <<s[k], s[m]>> \in R
  BY DEF IsInOrder
<1>4. \A k, m \in T : s[k] = s[m] => k = m
  <2> SUFFICES ASSUME NEW k \in T, NEW m \in T, s[k] = s[m], k # m PROVE FALSE
    OBVIOUS
  <2>1. k < m \/ m < k
    BY <1>1
  <2>2. s[k] \in S /\ <<s[k], s[k]>> \in R
    BY <1>3, <2>1
  <2> QED BY <2>2 DEF Orders
<1>5. s \in Injection(T, S)
  BY <1>3, <1>4 DEF Injection, IsInjective
<1>6. s \in Surjection(T, S)
  BY <1>1, <1>2, <1>5, FS_Injection
<1>7. \A x \in S : \E m \in T : s[m] = x
  BY <1>6 DEF Surjection
<1>8. \A m \in T : s[m] \in U <=> m <= n
  <2>1. ASSUME NEW m \in T, m <= n PROVE s[m] \in U
    BY <1>1, <1>3, <2>1 DEF UpTo
  <2>2. ASSUME NEW m \in T, n < m PROVE s[m] \notin U
    BY <1>1, <1>3, <1>4, <2>2 DEF UpTo, Orders
  <2> QED BY <1>1, <2>1, <2>2
<1>9. U \subseteq S /\ IsFiniteSet(U)
  BY <1>1, FS_Subset DEF UpTo
<1> HIDE DEF U
<1>10. f \in [1 .. n -> U] /\ \A k, m \in 1 .. n : f[k] = f[m] => k = m
  BY <1>1, <1>4, <1>8
<1>11. \A x \in U : \E m \in 1 .. n : f[m] = x
  <2> SUFFICES ASSUME NEW x \in U PROVE \E m \in 1 .. n : f[m] = x
    OBVIOUS
  <2>1. PICK m \in T : s[m] = x
    BY <1>7, <1>9
  <2>2. m \in 1 .. n
    BY <1>1, <1>8, <2>1
  <2> QED BY <2>1, <2>2
<1> HIDE DEF f
<1>12. ExistsBijection(1 .. n, U)
  BY <1>10, <1>11 DEF ExistsBijection, Bijection, Injection, Surjection, IsInjective
<1>13. n \in Nat
  BY <1>1
<1> QED BY <1>12, <1>13, FS_CountingElements DEF Rank, U

\* There is one list in order.
LEMMA OnlyOneOrder ==
    ASSUME NEW S, NEW R, Orders(R, S), NEW s, NEW t, IsInOrder(s, S, R), IsInOrder(t, S, R)
    PROVE  s = t
<1>1. ASSUME NEW n \in 1 .. Cardinality(S) PROVE s[n] = t[n]
  <2>1. s[n] \in S /\ t[n] \in S
    BY DEF IsInOrder
  <2>2. Rank(s[n], S, R) = n /\ Rank(t[n], S, R) = n
    BY PlaceIsRank
  <2> QED BY <2>1, <2>2, RankTells
<1>2. /\ s = [n \in 1 .. Cardinality(S) |-> s[n]]
      /\ t = [n \in 1 .. Cardinality(S) |-> t[n]]
  BY DEF IsInOrder
<1> QED BY <1>1, <1>2

\* InOrder finds it.
LEMMA InOrderIs ==
    ASSUME NEW S, NEW R, Orders(R, S)
    PROVE  IsInOrder(InOrder(S, R), S, R)
<1> DEFINE s == [n \in 1 .. Cardinality(S) |-> CHOOSE x \in S : Rank(x, S, R) = n]
<1>1. \A n \in 1 .. Cardinality(S) : s[n] \in S /\ Rank(s[n], S, R) = n
  BY RankOnto
<1>2. s \in [1 .. Cardinality(S) -> S] /\ DOMAIN s = 1 .. Cardinality(S)
  BY <1>1
<1> HIDE DEF s
<1>3. \A m, n \in DOMAIN s : m < n => <<s[m], s[n]>> \in R
  BY <1>1, <1>2, RankTells
<1> QED BY <1>2, <1>3 DEF InOrder, IsInOrder

\* What is in order has every element, and has it in its place.
LEMMA OrderIsWhole ==
    ASSUME NEW S, NEW R, Orders(R, S), NEW s, IsInOrder(s, S, R)
    PROVE  /\ DOMAIN s = 1 .. Cardinality(S) /\ Cardinality(S) \in Nat
           /\ Range(s) = S
           /\ \A x \in S : s[Rank(x, S, R)] = x
<1>1. DOMAIN s = 1 .. Cardinality(S) /\ \A n \in DOMAIN s : s[n] \in S
  BY DEF IsInOrder
<1>2. ASSUME NEW x \in S PROVE Rank(x, S, R) \in DOMAIN s /\ s[Rank(x, S, R)] = x
  <2>1. Rank(x, S, R) \in 1 .. Cardinality(S)
    BY RankIn
  <2>2. Rank(s[Rank(x, S, R)], S, R) = Rank(x, S, R) /\ s[Rank(x, S, R)] \in S
    BY <1>1, <2>1, PlaceIsRank
  <2> QED BY <1>1, <2>1, <2>2, RankTells
<1>3. Range(s) = S
  BY <1>1, <1>2 DEF Range
<1> QED BY <1>1, <1>2, <1>3, FS_CardinalityType DEF Orders

Cut(k, n) == IF k < n THEN k ELSE n

LEMMA FirstIs ==
    ASSUME NEW S, NEW s \in Seq(S), NEW n \in Nat
    PROVE  LET m == Cut(Len(s), n) IN
           /\ m \in Nat /\ m <= Len(s)
           /\ First(s, n) = [i \in 1 .. m |-> s[i]] /\ DOMAIN First(s, n) = 1 .. m
           /\ \A i \in 1 .. m : First(s, n)[i] = s[i]
<1>1. First(s, n) = SubSeq(s, 1, Cut(Len(s), n))
      /\ Cut(Len(s), n) \in Nat /\ Cut(Len(s), n) <= Len(s)
  BY DEF First, Cut
<1>2. First(s, n) = [i \in 1 .. Cut(Len(s), n) |-> s[i]]
  BY <1>1
<1> QED BY <1>1, <1>2

-----------------------------------------------------------------------------
(* Lines of a log *)

Later(set)     == {p \in set \X set : p[1] > p[2]}
Earlier(set)   == {p \in set \X set : p[1] < p[2]}
NewerIn(lines) == {p \in lines \X lines : Newer(p[1], p[2])}

LinesAt(w, set) == {Line(w, i) : i \in set}

LEMMA PlacesInOrder ==
    ASSUME NEW set \in SUBSET Nat, IsFiniteSet(set)
    PROVE  /\ Orders(Later(set), set) /\ IsInOrder(Descending(set), set, Later(set))
           /\ Orders(Earlier(set), set) /\ IsInOrder(Ascending(set), set, Earlier(set))
<1>1. Orders(Later(set), set)
  BY DEF Orders, Later
<1>2. Orders(Earlier(set), set)
  BY DEF Orders, Earlier
<1>3. /\ Descending(set) = InOrder(set, Later(set))
      /\ Ascending(set) = InOrder(set, Earlier(set))
  BY DEF Descending, Ascending, Sorted, Later, Earlier
<1> QED BY <1>1, <1>2, <1>3, InOrderIs

\* No more than n are the newest n.
LEMMA NewestAre ==
    ASSUME NEW set \in SUBSET Nat, IsFiniteSet(set), NEW n \in Nat
    PROVE  /\ Newest(set, n) \in SUBSET set /\ IsFiniteSet(Newest(set, n))
           /\ Cardinality(Newest(set, n)) <= n
<1> DEFINE N == Newest(set, n)
           f == [i \in N |-> Rank(i, set, Later(set))]
<1>1. N \in SUBSET set
  BY DEF Newest
<1>2. IsFiniteSet(N)
  BY <1>1, FS_Subset
<1>3. ASSUME NEW i \in N PROVE f[i] \in 1 .. n
  <2> DEFINE U == {j \in set : j > i}
  <2>1. i \in set /\ Cardinality(U) < n
    BY DEF Newest
  <2>2. UpTo(i, set, Later(set)) = U \cup {i} /\ i \notin U
    BY <2>1 DEF UpTo, Later
  <2>3. IsFiniteSet(U)
    BY FS_Subset
  <2> HIDE DEF U
  <2>4. Cardinality(U \cup {i}) = Cardinality(U) + 1 /\ Cardinality(U) \in Nat
    BY <2>2, <2>3, FS_AddElement, FS_CardinalityType
  <2>5. Rank(i, set, Later(set)) = Cardinality(U) + 1
    BY <2>2, <2>4 DEF Rank
  <2> QED BY <2>1, <2>4, <2>5
<1>4. ASSUME NEW i \in N, NEW j \in N, f[i] = f[j] PROVE i = j
  BY <1>1, <1>4, PlacesInOrder, RankTells
<1>5. IsFiniteSet(1 .. n) /\ Cardinality(1 .. n) = n
  BY FS_Interval
<1>6. f \in [N -> 1 .. n] /\ \A i, j \in N : f[i] = f[j] => i = j
  BY <1>3, <1>4
<1> HIDE DEF f, N
<1>7. f \in Injection(N, 1 .. n)
  BY <1>6 DEF Injection, IsInjective
<1>8. Cardinality(N) <= n
  BY <1>5, <1>7, FS_Injection
<1> QED BY <1>1, <1>2, <1>8 DEF N

\* The lines at some places, newest first, are those places in descending order.
LEMMA LinesInOrder ==
    ASSUME NEW w, NEW set \in SUBSET Nat, IsFiniteSet(set)
    PROVE  /\ Sorted(LinesAt(w, set), Newer) = Lines(w, Descending(set))
           /\ Lines(w, Descending(set)) \in [1 .. Cardinality(set) -> LinesAt(w, set)]
<1> DEFINE L == LinesAt(w, set)
           f == [i \in set |-> Line(w, i)]
           s == Lines(w, Descending(set))
           k == Cardinality(set)
<1>1. \A i, j \in set : Line(w, i).ts = i /\ (Line(w, i) = Line(w, j) => i = j)
  BY DEF Line
<1>2. f \in [set -> L] /\ \A x \in L : \E i \in set : f[i] = x
  BY DEF LinesAt
<1>3. f \in Bijection(set, L)
  BY <1>1, <1>2 DEF Bijection, Injection, Surjection, IsInjective
<1>4. IsFiniteSet(L) /\ Cardinality(L) = k
  BY <1>3, FS_Bijection DEF ExistsBijection
<1>5. \A x \in L : x.ts \in set /\ x = Line(w, x.ts)
  BY <1>1 DEF LinesAt
<1>6. /\ Descending(set) \in [1 .. k -> set]
      /\ \A m, n \in 1 .. k : m < n => Descending(set)[m] > Descending(set)[n]
  BY PlacesInOrder DEF IsInOrder, Later
<1>7. s \in [1 .. k -> L] /\ \A n \in 1 .. k : s[n].ts = Descending(set)[n]
  BY <1>1, <1>6 DEF Lines, LinesAt
<1> HIDE DEF L, s
<1>8. \A x, y \in L : <<x, y>> \in NewerIn(L) <=> x.ts > y.ts
  BY DEF NewerIn, Newer
<1>9. Orders(NewerIn(L), L)
  <2>1. \A x, y \in L : x.ts \in Nat /\ (x.ts = y.ts => x = y)
    BY <1>5
  <2> QED BY <1>4, <1>8, <2>1 DEF Orders
<1>10. IsInOrder(s, L, NewerIn(L))
  BY <1>4, <1>6, <1>7, <1>8 DEF IsInOrder
<1>11. Sorted(L, Newer) = InOrder(L, NewerIn(L))
  BY DEF Sorted, NewerIn
<1>12. Sorted(L, Newer) = s
  BY <1>9, <1>10, <1>11, InOrderIs, OnlyOneOrder
<1> QED BY <1>7, <1>12 DEF L, s

LEMMA LogPlaces ==
    ASSUME NEW w \in World, NEW want
    PROVE  /\ DOMAIN w.logs \in SUBSET Nat /\ IsFiniteSet(DOMAIN w.logs)
           /\ \A i \in DOMAIN w.logs : w.logs[i] \in Levels
           /\ Matching(w, want) \in SUBSET DOMAIN w.logs /\ IsFiniteSet(Matching(w, want))
<1>1. w.logs \in Seq(Levels)
  BY DEF World
<1>2. DOMAIN w.logs = 1 .. Len(w.logs) /\ Len(w.logs) \in Nat
  BY <1>1
<1>3. IsFiniteSet(DOMAIN w.logs)
  BY <1>2, FS_Interval
<1> QED BY <1>1, <1>2, <1>3, FS_Subset DEF Matching

\* A list that is no longer than the limit is not cut.
LEMMA NothingCut ==
    ASSUME NEW w, NEW set \in SUBSET Nat, IsFiniteSet(set), Cardinality(set) <= Limit
    PROVE  First(Sorted(LinesAt(w, set), Newer), Limit) = Lines(w, Descending(set))
<1> DEFINE s == Lines(w, Descending(set))
           k == Cardinality(set)
<1>1. k \in Nat /\ Limit \in Nat
  BY FS_CardinalityType, LimitAssumption
<1>2. s \in [1 .. k -> LinesAt(w, set)] /\ Sorted(LinesAt(w, set), Newer) = s
  BY LinesInOrder
<1> HIDE DEF s, k
<1>3. s \in Seq(LinesAt(w, set)) /\ Len(s) = k /\ s = [n \in 1 .. k |-> s[n]]
  BY <1>1, <1>2
<1>4. Cut(k, Limit) = k
  BY <1>1 DEF Cut, k
<1>5. First(s, Limit) = s
  BY <1>1, <1>3, <1>4, FirstIs
<1> QED BY <1>2, <1>5 DEF s

\* Loki's streams hold the newest lines that match, and these are what is told.
LEMMA TailIs ==
    ASSUME NEW w \in World, NEW want
    PROVE  /\ LokiTail(Streams(w, want)) =
                Lines(w, Descending(Newest(Matching(w, want), Limit)))
           /\ Newest(Matching(w, want), Limit) \in SUBSET Matching(w, want)
           /\ IsFiniteSet(Newest(Matching(w, want), Limit))
           /\ Cardinality(Newest(Matching(w, want), Limit)) <= Limit
<1> DEFINE found == Newest(Matching(w, want), Limit)
           of(l) == {i \in found : w.logs[i] = l}
<1>1. Matching(w, want) \in SUBSET Nat /\ IsFiniteSet(Matching(w, want)) /\ Limit \in Nat
  BY LogPlaces, LimitAssumption
<1>2. found \in SUBSET Matching(w, want) /\ IsFiniteSet(found) /\ Cardinality(found) <= Limit
  BY <1>1, NewestAre
<1>3. found \in SUBSET Nat /\ found \in SUBSET DOMAIN w.logs
  BY <1>1, <1>2, LogPlaces
<1>4. Streams(w, want) = [l \in Levels |-> Lines(w, Descending(of(l)))]
  BY DEF Streams
<1> HIDE DEF found
<1>5. ASSUME NEW l \in Levels PROVE Range(Streams(w, want)[l]) = LinesAt(w, of(l))
  <2>1. of(l) \in SUBSET Nat /\ IsFiniteSet(of(l))
    BY <1>2, <1>3, FS_Subset
  <2>2. DOMAIN Descending(of(l)) = DOMAIN Lines(w, Descending(of(l)))
    BY DEF Lines
  <2>3. Range(Descending(of(l))) = of(l)
    BY <2>1, PlacesInOrder, OrderIsWhole
  <2> HIDE DEF of
  <2>4. Range(Lines(w, Descending(of(l)))) = LinesAt(w, of(l))
    BY <2>3 DEF Lines, LinesAt, Range
  <2> QED BY <1>4, <2>4
<1>6. LinesOf(Streams(w, want)) = LinesAt(w, found)
  <2>1. LinesOf(Streams(w, want)) = UNION {LinesAt(w, of(l)) : l \in Levels}
    BY <1>5 DEF LinesOf
  <2>2. \A i \in found : w.logs[i] \in Levels
    BY <1>3, LogPlaces
  <2> QED BY <2>1, <2>2 DEF LinesAt
<1>7. LokiTail(Streams(w, want)) = Lines(w, Descending(found))
  BY <1>2, <1>3, <1>6, NothingCut DEF LokiTail
<1> QED BY <1>2, <1>3, <1>7 DEF found

\* The apiserver sends the newest lines, of which those that match are told.
LEMMA PodTailIs ==
    ASSUME NEW w \in World, NEW want
    PROVE  LET sent == Newest(DOMAIN w.logs, Limit)
               set  == Matching(w, want) \cap sent
           IN  /\ PodTail(Lines(w, Ascending(sent)), want) = Lines(w, Descending(set))
               /\ set \in SUBSET Matching(w, want) /\ IsFiniteSet(set)
               /\ Cardinality(set) <= Limit
<1> DEFINE sent == Newest(DOMAIN w.logs, Limit)
           set  == Matching(w, want) \cap sent
           text == Lines(w, Ascending(sent))
<1>1. DOMAIN w.logs \in SUBSET Nat /\ IsFiniteSet(DOMAIN w.logs) /\ Limit \in Nat
  BY LogPlaces, LimitAssumption
<1>2. sent \in SUBSET DOMAIN w.logs /\ IsFiniteSet(sent) /\ Cardinality(sent) <= Limit
  BY <1>1, NewestAre
<1> HIDE DEF sent
<1>3. set \in SUBSET DOMAIN w.logs /\ set \in SUBSET sent /\ set \in SUBSET Matching(w, want)
  BY <1>2
<1>4. IsFiniteSet(set) /\ Cardinality(set) <= Cardinality(sent)
  BY <1>2, <1>3, FS_Subset
<1>5. Cardinality(set) <= Limit
  BY <1>1, <1>2, <1>4, FS_CardinalityType
<1>6. Range(Ascending(sent)) = sent
  BY <1>1, <1>2, PlacesInOrder, OrderIsWhole
<1>7. Range(text) = LinesAt(w, sent)
  BY <1>6 DEF Lines, LinesAt, Range
<1> HIDE DEF text
<1>8. {x \in Range(text) : want = {} \/ x.level \in want} = LinesAt(w, set)
  BY <1>2, <1>7 DEF LinesAt, Line, Matching
<1> HIDE DEF set
<1>9. PodTail(text, want) = Lines(w, Descending(set))
  BY <1>1, <1>3, <1>4, <1>5, <1>8, NothingCut DEF PodTail
<1> QED BY <1>3, <1>4, <1>5, <1>9 DEF text, set, sent

\* Nothing answered is no line.
LEMMA NoTail ==
    /\ LokiTail(Nothing("loki")) = <<>>
    /\ \A want : PodTail(Nothing("apiserver"), want) = <<>>
<1>1. IsFiniteSet({}) /\ Cardinality({}) = 0 /\ Limit \in Nat
  BY FS_EmptySet, LimitAssumption
<1>2. \A w : LinesAt(w, {}) = {}
  BY DEF LinesAt
<1>3. First(Sorted({}, Newer), Limit) = <<>>
  <2> SUFFICES ASSUME NEW w PROVE First(Sorted({}, Newer), Limit) = <<>>
    OBVIOUS
  <2>1. First(Sorted(LinesAt(w, {}), Newer), Limit) = Lines(w, Descending({}))
    BY <1>1, NothingCut
  <2>2. Lines(w, Descending({})) \in [1 .. Cardinality({}) -> LinesAt(w, {})]
    BY <1>1, LinesInOrder
  <2>3. Lines(w, Descending({})) = <<>>
    BY <1>1, <2>2
  <2> QED BY <1>2, <2>1, <2>3 DEF Sorted
<1>4. Nothing("apiserver") = <<>> /\ Nothing("loki") = [l \in Levels |-> <<>>]
  BY DEF Nothing
<1>5. LinesOf([l \in Levels |-> <<>>]) = {} /\ Range(<<>>) = {}
  BY DEF LinesOf, Range
<1>6. LokiTail(Nothing("loki")) = <<>>
  BY <1>3, <1>4, <1>5 DEF LokiTail
<1>7. ASSUME NEW want PROVE PodTail(<<>>, want) = <<>>
  <2>1. {x \in Range(<<>>) : want = {} \/ x.level \in want} = {}
    BY <1>5
  <2> QED BY <1>3, <2>1 DEF PodTail
<1> QED BY <1>4, <1>6, <1>7

-----------------------------------------------------------------------------
(* Sensors *)

Readable(degrees) == {s \in DOMAIN degrees : 0 < degrees[s] /\ degrees[s] < 150}

Reading(degrees, names, s) == [sensor |-> s, named |-> s \in names, c |-> degrees[s]]

Readings(degrees, names) == {Reading(degrees, names, s) : s \in Readable(degrees)}

HotterIn(set) == {p \in set \X set : Hotter(p[1], p[2])}

\* Sensors as hot as s or hotter, those listed later with the same reading left out.
AsHot(degrees, s) ==
    {r \in Readable(degrees) : degrees[r] > degrees[s] \/ (degrees[r] = degrees[s] /\ r <= s)}

IsDegrees(degrees) == DOMAIN degrees \in SUBSET Sensors /\ \A s \in DOMAIN degrees : degrees[s] \in Int

LEMMA ReadingsInOrder ==
    ASSUME NEW degrees, IsDegrees(degrees), NEW names
    PROVE  LET S == Readings(degrees, names) R == HotterIn(S) IN
           /\ Cardinality(S) = Cardinality(Readable(degrees))
           /\ Orders(R, S) /\ IsInOrder(Sorted(S, Hotter), S, R)
           /\ \A s \in Readable(degrees) :
                Rank(Reading(degrees, names, s), S, R) = Cardinality(AsHot(degrees, s))
<1> DEFINE P == Readable(degrees)
           S == Readings(degrees, names)
           R == HotterIn(S)
           is(s) == Reading(degrees, names, s)
           f == [s \in P |-> is(s)]
<1>1. \A s \in P : s \in Nat /\ degrees[s] \in Int
  BY DataAssumption DEF Readable, IsDegrees
<1>2. IsFiniteSet(P)
  BY DataAssumption, FS_Subset DEF Readable, IsDegrees
<1>3. \A s \in P : is(s) \in S /\ is(s).sensor = s /\ is(s).c = degrees[s]
  BY DEF Readings, Reading
<1>4. \A x \in S : x.sensor \in P /\ x = is(x.sensor)
  BY DEF Readings, Reading
<1> HIDE DEF P, S, is
<1>5. \A s, r \in P : is(s) = is(r) => s = r
  BY <1>3
<1>6. f \in Bijection(P, S)
  <2>1. f \in [P -> S] /\ \A x \in S : \E s \in P : f[s] = x
    BY <1>3, <1>4
  <2> QED BY <1>5, <2>1 DEF Bijection, Injection, Surjection, IsInjective
<1>7. IsFiniteSet(S) /\ Cardinality(S) = Cardinality(P)
  BY <1>2, <1>6, FS_Bijection DEF ExistsBijection
<1>8. \A s, r \in P : <<is(r), is(s)>> \in R
                         <=> degrees[r] > degrees[s] \/ (degrees[r] = degrees[s] /\ r < s)
  BY <1>3 DEF HotterIn, Hotter
<1> HIDE DEF R
<1>9. Orders(R, S)
  <2>1. \A x \in S : <<x, x>> \notin R
    BY <1>1, <1>4, <1>8
  <2>2. \A x, y \in S : x = y \/ <<x, y>> \in R \/ <<y, x>> \in R
    BY <1>1, <1>4, <1>8
  <2>3. \A x, y, z \in S : <<x, y>> \in R /\ <<y, z>> \in R => <<x, z>> \in R
    BY <1>1, <1>4, <1>8
  <2> QED BY <1>7, <2>1, <2>2, <2>3 DEF Orders
<1>10. Sorted(S, Hotter) = InOrder(S, R)
  BY DEF Sorted, R, HotterIn
<1>11. ASSUME NEW s \in P PROVE Rank(is(s), S, R) = Cardinality(AsHot(degrees, s))
  <2> DEFINE U == AsHot(degrees, s)
             V == UpTo(is(s), S, R)
             g == [r \in U |-> is(r)]
  <2>1. \A r \in P : r \in U <=> is(r) \in V
    <3> SUFFICES ASSUME NEW r \in P PROVE r \in U <=> is(r) \in V
      OBVIOUS
    <3>1. r \in U <=> degrees[r] > degrees[s] \/ (degrees[r] = degrees[s] /\ r <= s)
      BY DEF AsHot, P
    <3>2. is(r) \in V <=> r = s \/ <<is(r), is(s)>> \in R
      BY <1>3, <1>5 DEF UpTo
    <3>3. r \in Nat /\ s \in Nat /\ degrees[r] \in Int /\ degrees[s] \in Int
      BY <1>1
    <3> HIDE DEF U, V
    <3> QED BY <1>8, <3>1, <3>2, <3>3
  <2>2. U \in SUBSET P /\ V \in SUBSET S
    BY DEF AsHot, UpTo, P
  <2> HIDE DEF U, V
  <2>3. g \in [U -> V] /\ \A x \in V : \E r \in U : g[r] = x
    BY <1>4, <2>1, <2>2
  <2>4. g \in Bijection(U, V)
    BY <1>5, <2>2, <2>3 DEF Bijection, Injection, Surjection, IsInjective
  <2>5. IsFiniteSet(U)
    BY <1>2, <2>2, FS_Subset
  <2>6. Cardinality(V) = Cardinality(U)
    BY <2>4, <2>5, FS_Bijection DEF ExistsBijection
  <2> QED BY <2>6 DEF Rank, U, V
<1> QED BY <1>7, <1>9, <1>10, <1>11, InOrderIs DEF P, S, R, is

\* What is made of what the sensors were asked.
LEMMA TempsAre ==
    ASSUME NEW degrees, IsDegrees(degrees), NEW names
    PROVE  LET S == Readings(degrees, names) list == Sorted(S, Hotter)
               k == Cardinality(S) m == Cut(k, MaxSensors) sensors == First(list, MaxSensors)
           IN
           /\ k \in Nat /\ m \in Nat /\ m <= k
           /\ list \in [1 .. k -> S]
           /\ sensors = [n \in 1 .. m |-> list[n]]
           /\ DOMAIN sensors = 1 .. m /\ \A n \in 1 .. m : sensors[n] = list[n]
           /\ Temps(degrees, names) =
                [hottest |-> IF k = 0 THEN None ELSE list[1].c, sensors |-> sensors]
<1> DEFINE S == Readings(degrees, names)
           list == Sorted(S, Hotter)
           k == Cardinality(S)
           read == {[sensor |-> s, named |-> s \in names, c |-> degrees[s]] : s \in DOMAIN degrees}
<1>1. {x \in read : 0 < x.c /\ x.c < 150} = S
  BY DEF Readings, Reading, Readable
<1> HIDE DEF S
<1>2. Temps(degrees, names) =
        [hottest |-> IF list = <<>> THEN None ELSE list[1].c, sensors |-> First(list, MaxSensors)]
  BY <1>1 DEF Temps, Hottest
<1>3. k \in Nat /\ list \in [1 .. k -> S]
  BY ReadingsInOrder, FS_CardinalityType DEF Orders, IsInOrder, S
<1> HIDE DEF list, k
<1>4. list = <<>> <=> k = 0
  BY <1>3
<1>5. list \in Seq(S) /\ Len(list) = k /\ MaxSensors \in Nat
  BY <1>3, LimitAssumption
<1> DEFINE m == Cut(k, MaxSensors)
           sensors == First(list, MaxSensors)
<1>6. /\ m \in Nat /\ m <= k
      /\ sensors = [n \in 1 .. m |-> list[n]]
      /\ DOMAIN sensors = 1 .. m /\ \A n \in 1 .. m : sensors[n] = list[n]
  BY <1>5, FirstIs
<1> QED BY <1>2, <1>3, <1>4, <1>6 DEF S, list, k

-----------------------------------------------------------------------------
(* The lists of a reply *)

HwmonOf(w) == [s \in Present(w.temps) \ Zones |-> w.temps[s]]
ZonesOf(w) == [s \in Present(w.temps) \cap Zones |-> w.temps[s]]
SentOf(w)  == Lines(w, Ascending(Newest(DOMAIN w.logs, Limit)))

LEMMA ListAnswersAre ==
    ASSUME NEW w, NEW host, NEW want
    PROVE  /\ Answers(w, "hwmon", host, want) = {HwmonOf(w)}
           /\ Answers(w, "zones", host, want) = {ZonesOf(w)}
           /\ Answers(w, "names", host, want) = {w.named}
           /\ Answers(w, "loki", host, want) = {Streams(w, want)}
           /\ Answers(w, "apiserver", host, want) = {SentOf(w)}
  BY DEF Answers, Answer, HwmonOf, ZonesOf, SentOf

\* What was answered is a sensor's reading in one of the worlds ws.
DegreesMade(degrees, ws) ==
    IsDegrees(degrees) /\ \A s \in DOMAIN degrees : \E w \in ws : w.temps[s] = degrees[s]

LEMMA DegreesAre ==
    ASSUME NEW w \in World, NEW ws, w \in ws
    PROVE  DegreesMade(HwmonOf(w), ws) /\ DegreesMade(ZonesOf(w), ws)
<1>1. \A s \in Present(w.temps) : s \in Sensors /\ w.temps[s] \in Int
  BY DEF World, Present
<1> QED BY <1>1 DEF DegreesMade, IsDegrees, HwmonOf, ZonesOf

LEMMA NoDegrees ==
    /\ DOMAIN Nothing("hwmon") = {} /\ DOMAIN Nothing("zones") = {}
    /\ \A ws : DegreesMade(Nothing("hwmon"), ws) /\ DegreesMade(Nothing("zones"), ws)
<1>1. Nothing("hwmon") = <<>> /\ Nothing("zones") = <<>>
  BY DEF Nothing
<1> QED BY <1>1 DEF DegreesMade, IsDegrees

LEMMA JoinedAre ==
    ASSUME NEW ws, NEW hwmon, DegreesMade(hwmon, ws), NEW zones, DegreesMade(zones, ws)
    PROVE  DegreesMade(Joined(hwmon, zones), ws)
<1> DEFINE both == Joined(hwmon, zones)
<1>1. /\ DOMAIN both = DOMAIN hwmon \cup DOMAIN zones
      /\ \A s \in DOMAIN both : both[s] = IF s \in DOMAIN hwmon THEN hwmon[s] ELSE zones[s]
  BY DEF Joined
<1> HIDE DEF both
<1> QED BY <1>1 DEF DegreesMade, IsDegrees, both

LEMMA TempsField ==
    ASSUME NEW c, CoroOK(c), c.open = {}, "temps" \in c.fields, NEW ws, PresentAnswers(c, ws)
    PROVE  LET hwmon == c.got["hwmon"] zones == c.got["zones"] names == c.got["names"] IN
           /\ Field("temps", c.got, c.want) = Temps(Joined(hwmon, zones), names)
           /\ IF "hwmon" \in c.failed THEN hwmon = Nothing("hwmon")
              ELSE \E w \in ws : hwmon = HwmonOf(Data[w])
           /\ IF "zones" \in c.failed THEN zones = Nothing("zones")
              ELSE \E w \in ws : zones = ZonesOf(Data[w])
           /\ IF "names" \in c.failed THEN names = {}
              ELSE \E w \in ws : names = Data[w].named
<1>1. {"hwmon", "zones", "names"} \subseteq DOMAIN c.got
  BY QueriesAnswered DEF SentFor
<1>2. Field("temps", c.got, c.want) = Temps(Joined(c.got["hwmon"], c.got["zones"]), c.got["names"])
  BY DEF Field
<1>3. Nothing("names") = {}
  BY DEF Nothing
<1>4. IF "hwmon" \in c.failed THEN c.got["hwmon"] = Nothing("hwmon")
      ELSE \E w \in ws : c.got["hwmon"] = HwmonOf(Data[w])
  BY <1>1, Answered, ListAnswersAre
<1>5. IF "zones" \in c.failed THEN c.got["zones"] = Nothing("zones")
      ELSE \E w \in ws : c.got["zones"] = ZonesOf(Data[w])
  BY <1>1, Answered, ListAnswersAre
<1>6. IF "names" \in c.failed THEN c.got["names"] = {}
      ELSE \E w \in ws : c.got["names"] = Data[w].named
  BY <1>1, <1>3, Answered, ListAnswersAre
<1> QED BY <1>2, <1>4, <1>5, <1>6

LEMMA TailField ==
    ASSUME NEW c, CoroOK(c), c.open = {}, "tail" \in c.fields, NEW ws, PresentAnswers(c, ws)
    PROVE  IF "loki" \in c.failed THEN Field("tail", c.got, c.want) = <<>>
           ELSE \E w \in ws : Field("tail", c.got, c.want) = LokiTail(Streams(Data[w], c.want))
<1>1. "loki" \in DOMAIN c.got
  BY QueriesAnswered DEF SentFor
<1>2. Field("tail", c.got, c.want) = LokiTail(c.got["loki"])
  BY DEF Field
<1>3. IF "loki" \in c.failed THEN c.got["loki"] = Nothing("loki")
      ELSE \E w \in ws : c.got["loki"] = Streams(Data[w], c.want)
  BY <1>1, Answered, ListAnswersAre
<1> QED BY <1>2, <1>3, NoTail

LEMMA PodTailField ==
    ASSUME NEW c, CoroOK(c), c.open = {}, "pod_tail" \in c.fields, NEW ws, PresentAnswers(c, ws)
    PROVE  IF "apiserver" \in c.failed THEN Field("pod_tail", c.got, c.want) = <<>>
           ELSE \E w \in ws : Field("pod_tail", c.got, c.want) = PodTail(SentOf(Data[w]), c.want)
<1>1. "apiserver" \in DOMAIN c.got
  BY QueriesAnswered DEF SentFor
<1>2. Field("pod_tail", c.got, c.want) = PodTail(c.got["apiserver"], c.want)
  BY DEF Field
<1>3. IF "apiserver" \in c.failed THEN c.got["apiserver"] = Nothing("apiserver")
      ELSE \E w \in ws : c.got["apiserver"] = SentOf(Data[w])
  BY <1>1, Answered, ListAnswersAre
<1> QED BY <1>2, <1>3, NoTail

\* A log told of some places that match.
LogMade(v, want, ws) ==
    /\ \A n \in DOMAIN v :
        /\ \E w \in ws : v[n].ts \in DOMAIN w.logs /\ v[n].level = w.logs[v[n].ts]
        /\ want = {} \/ v[n].level \in want
    /\ \A m, n \in DOMAIN v : m < n => v[m].ts > v[n].ts
    /\ Len(v) <= Limit

LEMMA LinesMade ==
    ASSUME NEW w \in World, NEW want, NEW set \in SUBSET Matching(w, want), IsFiniteSet(set),
           Cardinality(set) <= Limit, NEW ws, w \in ws
    PROVE  LogMade(Lines(w, Descending(set)), want, ws)
<1> DEFINE s == Lines(w, Descending(set))
           k == Cardinality(set)
<1>1. set \in SUBSET Nat /\ set \in SUBSET DOMAIN w.logs
  BY LogPlaces
<1>2. s \in [1 .. k -> LinesAt(w, set)] /\ DOMAIN s = 1 .. k /\ k \in Nat
  BY <1>1, LinesInOrder, FS_CardinalityType
<1>3. \A x \in LinesAt(w, set) : x.ts \in set /\ x.level = w.logs[x.ts]
  BY DEF LinesAt, Line
<1>4. \A i \in set : want = {} \/ w.logs[i] \in want
  BY DEF Matching
<1>5. ASSUME NEW m \in DOMAIN s, NEW n \in DOMAIN s, m < n PROVE s[m].ts > s[n].ts
  <2> DEFINE d == Descending(set)
  <2>1. d \in [1 .. k -> set] /\ \A a, b \in 1 .. k : a < b => d[a] > d[b]
    BY <1>1, PlacesInOrder DEF IsInOrder, Later
  <2>2. \A a \in 1 .. k : s[a].ts = d[a]
    BY <2>1 DEF Lines, Line
  <2> HIDE DEF d, s
  <2> QED BY <1>2, <1>5, <2>1, <2>2
<1> HIDE DEF s, k
<1>6. Len(s) = k
  BY <1>2
<1>7. \A n \in DOMAIN s : /\ s[n].ts \in DOMAIN w.logs /\ s[n].level = w.logs[s[n].ts]
                          /\ want = {} \/ s[n].level \in want
  BY <1>1, <1>2, <1>3, <1>4
<1> QED BY <1>5, <1>6, <1>7 DEF LogMade, s, k

\* Temperatures told of some readings.
TempsMade(v, ws) ==
    /\ \A n \in DOMAIN v.sensors : \E w \in ws : w.temps[v.sensors[n].sensor] = v.sensors[n].c
    /\ \A m, n \in DOMAIN v.sensors : m < n =>
        v.sensors[m].c >= v.sensors[n].c /\ v.sensors[m].sensor # v.sensors[n].sensor
    /\ Len(v.sensors) <= MaxSensors
    /\ v.hottest = IF v.sensors = <<>> THEN None ELSE v.sensors[1].c

LEMMA ReadingsMade ==
    ASSUME NEW ws, NEW degrees, DegreesMade(degrees, ws), NEW names
    PROVE  TempsMade(Temps(degrees, names), ws)
<1> DEFINE S == Readings(degrees, names)
           list == Sorted(S, Hotter)
           k == Cardinality(S)
           m == Cut(k, MaxSensors)
           sensors == First(list, MaxSensors)
           v == Temps(degrees, names)
<1>1. IsDegrees(degrees)
  BY DEF DegreesMade
<1>2. /\ k \in Nat /\ m \in Nat /\ m <= k /\ list \in [1 .. k -> S]
      /\ sensors = [i \in 1 .. m |-> list[i]]
      /\ DOMAIN sensors = 1 .. m /\ \A i \in 1 .. m : sensors[i] = list[i]
      /\ v = [hottest |-> IF k = 0 THEN None ELSE list[1].c, sensors |-> sensors]
  BY <1>1, TempsAre
<1>3. \A x \in S : /\ x.sensor \in Nat /\ x.c \in Int /\ x.c = degrees[x.sensor]
                   /\ \E w \in ws : w.temps[x.sensor] = x.c
  <2>1. \A s \in DOMAIN degrees : /\ s \in Nat /\ degrees[s] \in Int
                                  /\ \E w \in ws : w.temps[s] = degrees[s]
    BY <1>1, DataAssumption DEF DegreesMade, IsDegrees
  <2>2. \A x \in S : x.sensor \in DOMAIN degrees /\ x.c = degrees[x.sensor]
    BY DEF Readings, Reading, Readable
  <2> HIDE DEF S
  <2> QED BY <2>1, <2>2
<1>4. \A i, j \in 1 .. k : i < j => Hotter(list[i], list[j])
  <2>1. IsInOrder(list, S, HotterIn(S))
    BY <1>1, ReadingsInOrder
  <2> HIDE DEF S, list
  <2> QED BY <1>2, <2>1 DEF IsInOrder, HotterIn, k
<1>5. MaxSensors \in Nat \ {0} /\ m <= MaxSensors /\ (m = 0 <=> k = 0)
  BY <1>2, LimitAssumption DEF Cut
<1> HIDE DEF S, list, k, m, sensors, v
<1>6. Len(sensors) = m
  BY <1>2
<1>7. ASSUME NEW i \in DOMAIN sensors, NEW j \in DOMAIN sensors, i < j
      PROVE  sensors[i].c >= sensors[j].c /\ sensors[i].sensor # sensors[j].sensor
  <2>1. i \in 1 .. k /\ j \in 1 .. k /\ sensors[i] = list[i] /\ sensors[j] = list[j]
    BY <1>2
  <2>2. list[i] \in S /\ list[j] \in S
    BY <1>2, <2>1
  <2>3. /\ list[i].sensor \in Nat /\ list[j].sensor \in Nat
        /\ list[i].c \in Int /\ list[j].c \in Int
    BY <1>3, <2>2
  <2>4. \/ list[i].c > list[j].c
        \/ list[i].c = list[j].c /\ list[i].sensor < list[j].sensor
    BY <1>4, <1>7, <2>1 DEF Hotter
  <2>5. list[i].c >= list[j].c /\ list[i].sensor # list[j].sensor
    <3>1. CASE list[i].c > list[j].c
      <4>1. list[i].sensor # list[j].sensor
        BY <1>3, <2>2, <2>3, <3>1
      <4> QED BY <2>3, <3>1, <4>1
    <3>2. CASE list[i].c = list[j].c /\ list[i].sensor < list[j].sensor
      BY <2>3, <3>2
    <3> QED BY <2>4, <3>1, <3>2
  <2> QED BY <2>1, <2>5
<1>8. ASSUME NEW i \in DOMAIN sensors
      PROVE  \E w \in ws : w.temps[sensors[i].sensor] = sensors[i].c
  <2>1. i \in 1 .. k /\ sensors[i] = list[i]
    BY <1>2
  <2>2. list[i] \in S
    BY <1>2, <2>1
  <2> QED BY <1>3, <2>1, <2>2
<1>9. v.hottest = IF sensors = <<>> THEN None ELSE sensors[1].c
  <2>1. sensors = <<>> <=> k = 0
    BY <1>2, <1>5, <1>6
  <2>2. k # 0 => sensors[1] = list[1]
    BY <1>2, <1>5
  <2> QED BY <1>2, <2>1, <2>2
<1>10. v.sensors = sensors
  BY <1>2
<1> QED BY <1>5, <1>6, <1>7, <1>8, <1>9, <1>10 DEF TempsMade, v

LEMMA ListMade ==
    ASSUME NEW c, CoroOK(c), c.open = {}, NEW ws \in SUBSET Worlds, PresentAnswers(c, ws),
           NEW f \in c.fields, f \in Lists
    PROVE  MadeOf(f, Field(f, c.got, c.want), c.host, c.want, {Data[w] : w \in ws})
<1> DEFINE v == Field(f, c.got, c.want)
           all == {Data[w] : w \in ws}
<1>1. \A w \in ws : Data[w] \in World /\ Data[w] \in all
  BY WorldsTyped
<1>2. CASE f = "temps"
  <2> DEFINE hwmon == c.got["hwmon"]
             zones == c.got["zones"]
             names == c.got["names"]
  <2>1. /\ v = Temps(Joined(hwmon, zones), names)
        /\ hwmon = Nothing("hwmon") \/ \E w \in ws : hwmon = HwmonOf(Data[w])
        /\ zones = Nothing("zones") \/ \E w \in ws : zones = ZonesOf(Data[w])
    BY <1>2, TempsField
  <2> HIDE DEF hwmon, zones, names, v, all
  <2>2. DegreesMade(hwmon, all)
    BY <1>1, <2>1, DegreesAre, NoDegrees
  <2>3. DegreesMade(zones, all)
    BY <1>1, <2>1, DegreesAre, NoDegrees
  <2>4. TempsMade(v, all)
    BY <2>1, <2>2, <2>3, JoinedAre, ReadingsMade
  <2>5. MadeOf("temps", v, c.host, c.want, all)
    BY <2>4 DEF MadeOf, TempsMade, LogFields
  <2> QED BY <1>2, <2>5 DEF v, all
<1>3. CASE f \in LogFields
  <2>1. \/ v = <<>>
        \/ \E w \in ws : \E set \in SUBSET Matching(Data[w], c.want) :
             /\ IsFiniteSet(set) /\ Cardinality(set) <= Limit
             /\ v = Lines(Data[w], Descending(set))
    <3>1. CASE f = "tail"
      BY <1>1, <3>1, TailField, TailIs
    <3>2. CASE f = "pod_tail"
      <4>1. ASSUME NEW w \in World
            PROVE  \E set \in SUBSET Matching(w, c.want) :
                     /\ IsFiniteSet(set) /\ Cardinality(set) <= Limit
                     /\ PodTail(SentOf(w), c.want) = Lines(w, Descending(set))
        BY PodTailIs DEF SentOf
      <4> QED BY <1>1, <3>2, <4>1, PodTailField
    <3> QED BY <1>3, <3>1, <3>2 DEF LogFields
  <2> HIDE DEF v, all
  <2>2. LogMade(v, c.want, all)
    <3>1. CASE v = <<>>
      BY <3>1, LimitAssumption DEF LogMade
    <3>2. CASE v # <<>>
      BY <1>1, <2>1, <3>2, LinesMade
    <3> QED BY <3>1, <3>2
  <2>3. MadeOf(f, v, c.host, c.want, all)
    BY <1>3, <2>2 DEF MadeOf, LogMade, LogFields
  <2> QED BY <2>3 DEF v, all
<1> QED BY <1>2, <1>3 DEF Lists

\* However many requests time out and leave their coroutines running: every line of
\* a log and every reading of a sensor in a reply was the case at some moment since
\* its request began, a log has only levels that were asked for, and each list is in
\* order, names nothing twice and is no longer than it may be.
THEOREM ListsAlwaysPresent == Spec => []ListsArePresent
<1>1. IInv => ListsArePresent
  <2> SUFFICES ASSUME IInv, NEW t \in Replying,
                      NEW f \in DOMAIN reply[t].fields \cap Lists
               PROVE  MadeOf(f, reply[t].fields[f], reply[t].host, reply[t].want,
                             {Data[w] : w \in during[t]})
    BY DEF ListsArePresent, PresentIn
  <2>1. PICK c : CoroOK(c) /\ c.open = {} /\ PresentAnswers(c, during[t]) /\ reply[t] = Result(c)
    BY DEF Replying, IInv, ThreadOK
  <2>2. /\ f \in c.fields /\ reply[t].fields[f] = Field(f, c.got, c.want)
        /\ reply[t].host = c.host /\ reply[t].want = c.want
    BY <2>1 DEF Result
  <2>3. during[t] \in SUBSET Worlds
    BY DEF IInv, BaseOK, Replying
  <2> QED BY <2>1, <2>2, <2>3, ListMade
<1> QED BY <1>1, IInit, INext, PTL DEF Spec

-----------------------------------------------------------------------------
(* A failed query costs its own lists *)

\* The list of sensors by their places, and how many are shown.
LEMMA PlacesOfSensors ==
    ASSUME NEW degrees, IsDegrees(degrees), NEW names
    PROVE  LET P == Readable(degrees)
               S == Readings(degrees, names)
               list == Sorted(S, Hotter)
               shown == {s \in P : Cardinality(AsHot(degrees, s)) <= MaxSensors}
               m == Cut(Cardinality(S), MaxSensors)
           IN  /\ Cardinality(S) = 0 <=> P = {}
               /\ Cardinality(shown) = m
               /\ \A n \in 1 .. Cardinality(S) : \E s \in P :
                    /\ list[n] = Reading(degrees, names, s)
                    /\ \A r \in P : Cardinality(AsHot(degrees, r)) = n <=> r = s
<1> DEFINE P == Readable(degrees)
           S == Readings(degrees, names)
           R == HotterIn(S)
           list == Sorted(S, Hotter)
           k == Cardinality(S)
           m == Cut(k, MaxSensors)
           is(s) == Reading(degrees, names, s)
           place(s) == Cardinality(AsHot(degrees, s))
           shown == {s \in P : place(s) <= MaxSensors}
           f == [n \in 1 .. m |-> list[n].sensor]
<1>1. /\ k = Cardinality(P) /\ Orders(R, S) /\ IsInOrder(list, S, R)
      /\ \A s \in P : Rank(is(s), S, R) = place(s)
  BY ReadingsInOrder
<1>2. /\ \A s \in P : is(s) \in S /\ is(s).sensor = s
      /\ \A x \in S : x.sensor \in P /\ x = is(x.sensor)
  BY DEF Readings, Reading
<1>3. IsFiniteSet(P) /\ (k = 0 <=> P = {}) /\ k \in Nat
  <2>1. IsFiniteSet(P)
    BY DataAssumption, FS_Subset DEF Readable, IsDegrees
  <2> HIDE DEF P, S
  <2> QED BY <1>1, <2>1, FS_EmptySet, FS_CardinalityType
<1> HIDE DEF P, S, R, list, k, is, place
<1>4. ASSUME NEW n \in 1 .. k
      PROVE  /\ list[n] \in S /\ list[n].sensor \in P /\ list[n] = is(list[n].sensor)
             /\ \A r \in P : place(r) = n <=> r = list[n].sensor
  <2>1. list[n] \in S /\ Rank(list[n], S, R) = n
    BY <1>1, PlaceIsRank DEF IsInOrder, k
  <2>2. ASSUME NEW r \in P, place(r) = n PROVE r = list[n].sensor
    <3>1. Rank(is(r), S, R) = Rank(list[n], S, R) /\ is(r) \in S
      BY <1>1, <1>2, <2>1, <2>2
    <3>2. is(r) = list[n]
      BY <1>1, <2>1, <3>1, RankTells
    <3> QED BY <1>2, <3>2
  <2> QED BY <1>1, <1>2, <2>1, <2>2
<1>5. \A s \in P : place(s) \in 1 .. k
  BY <1>1, <1>2, RankIn DEF k
<1>6. MaxSensors \in Nat
  BY LimitAssumption
<1>7. m \in Nat /\ m <= k /\ \A n \in 1 .. k : n <= m <=> n <= MaxSensors
  BY <1>3, <1>6 DEF Cut
<1> HIDE DEF m
<1>8. \A n \in 1 .. m : n \in 1 .. k /\ n <= MaxSensors
  BY <1>3, <1>7
<1>9. \A n \in 1 .. m : list[n].sensor \in shown /\ place(list[n].sensor) = n
  BY <1>4, <1>8
<1>10. \A s \in shown : place(s) \in 1 .. m /\ list[place(s)].sensor = s
  BY <1>3, <1>4, <1>5, <1>7
<1> HIDE DEF shown
<1>11. f \in Bijection(1 .. m, shown)
  <2>1. f \in [1 .. m -> shown]
    BY <1>9
  <2>2. \A n, i \in 1 .. m : f[n] = f[i] => n = i
    BY <1>9
  <2>3. \A s \in shown : \E n \in 1 .. m : f[n] = s
    BY <1>10
  <2> QED BY <2>1, <2>2, <2>3 DEF Bijection, Injection, Surjection, IsInjective
<1>12. Cardinality(shown) = m
  BY <1>7, <1>11, FS_CountingElements DEF ExistsBijection
<1> QED BY <1>3, <1>4, <1>12 DEF P, S, R, list, k, m, is, place, shown

LEMMA TempsExact ==
    ASSUME NEW w \in World, NEW hwmon, NEW zones, NEW names, NEW failed,
           IF "hwmon" \in failed THEN hwmon = Nothing("hwmon") ELSE hwmon = HwmonOf(w),
           IF "zones" \in failed THEN zones = Nothing("zones") ELSE zones = ZonesOf(w),
           IF "names" \in failed THEN names = {} ELSE names = w.named,
           NEW host, NEW want
    PROVE  Temps(Joined(hwmon, zones), names) = Expected("temps", w, host, want, failed)
<1> DEFINE degrees == Joined(hwmon, zones)
           readings == {s \in Present(w.temps) :
                          (IF s \in Zones THEN "zones" ELSE "hwmon") \notin failed
                          /\ 0 < w.temps[s] /\ w.temps[s] < 150}
           as(s) == {r \in readings :
                       w.temps[r] > w.temps[s] \/ (w.temps[r] = w.temps[s] /\ r <= s)}
           shown == {s \in readings : Cardinality(as(s)) <= MaxSensors}
           told(s) == [sensor |-> s, c |-> w.temps[s],
                       named |-> "names" \notin failed /\ s \in w.named]
           S == Readings(degrees, names)
           list == Sorted(S, Hotter)
           k == Cardinality(S)
           m == Cut(k, MaxSensors)
           hottest == IF readings = {} THEN None
                      ELSE w.temps[CHOOSE s \in readings : Cardinality(as(s)) = 1]
           sensors == [n \in 1 .. Cardinality(shown) |->
                         told(CHOOSE s \in shown : Cardinality(as(s)) = n)]
           first == [n \in 1 .. m |-> list[n]]
<1>1. Expected("temps", w, host, want, failed) = [hottest |-> hottest, sensors |-> sensors]
  BY DEF Expected
<1> HIDE DEF hottest, sensors, first
<1>2. IsDegrees(degrees)
  <2>1. DegreesMade(hwmon, {w}) /\ DegreesMade(zones, {w})
    BY DegreesAre, NoDegrees
  <2> QED BY <2>1, JoinedAre DEF DegreesMade
<1>3. readings = Readable(degrees) /\ \A s \in readings : degrees[s] = w.temps[s]
  <2> DEFINE known == {s \in Present(w.temps) :
                          (IF s \in Zones THEN "zones" ELSE "hwmon") \notin failed}
  <2>1. /\ DOMAIN degrees = DOMAIN hwmon \cup DOMAIN zones
        /\ \A s \in DOMAIN degrees :
             degrees[s] = IF s \in DOMAIN hwmon THEN hwmon[s] ELSE zones[s]
    BY DEF Joined
  <2>2. DOMAIN hwmon = known \ Zones /\ \A s \in DOMAIN hwmon : hwmon[s] = w.temps[s]
    BY NoDegrees DEF HwmonOf
  <2>3. DOMAIN zones = known \cap Zones /\ \A s \in DOMAIN zones : zones[s] = w.temps[s]
    BY NoDegrees DEF ZonesOf
  <2>4. readings = {s \in known : 0 < w.temps[s] /\ w.temps[s] < 150}
    OBVIOUS
  <2> HIDE DEF degrees, known, readings
  <2>5. DOMAIN degrees = known /\ \A s \in known : degrees[s] = w.temps[s]
    BY <2>1, <2>2, <2>3
  <2> QED BY <2>4, <2>5 DEF Readable
<1> HIDE DEF degrees
<1>4. \A s \in readings : as(s) = AsHot(degrees, s) /\ told(s) = Reading(degrees, names, s)
  <2> SUFFICES ASSUME NEW s \in readings
               PROVE  as(s) = AsHot(degrees, s) /\ told(s) = Reading(degrees, names, s)
    OBVIOUS
  <2>1. as(s) = AsHot(degrees, s)
    BY <1>3 DEF AsHot
  <2>2. ("names" \notin failed /\ s \in w.named) = (s \in names)
    OBVIOUS
  <2>3. told(s) = Reading(degrees, names, s)
    BY <1>3, <2>2 DEF Reading
  <2> QED BY <2>1, <2>3
<1> HIDE DEF readings, as, told
<1>5. shown = {s \in Readable(degrees) : Cardinality(AsHot(degrees, s)) <= MaxSensors}
  BY <1>3, <1>4
<1>6. /\ k = 0 <=> readings = {}
      /\ Cardinality(shown) = m
      /\ \A n \in 1 .. k : \E s \in readings :
           /\ list[n] = told(s)
           /\ \A r \in readings : Cardinality(as(r)) = n <=> r = s
  <2>1. /\ k = 0 <=> Readable(degrees) = {}
        /\ Cardinality({s \in Readable(degrees) : Cardinality(AsHot(degrees, s)) <= MaxSensors}) = m
        /\ \A n \in 1 .. k : \E s \in Readable(degrees) :
             /\ list[n] = Reading(degrees, names, s)
             /\ \A r \in Readable(degrees) : Cardinality(AsHot(degrees, r)) = n <=> r = s
    BY <1>2, PlacesOfSensors
  <2> HIDE DEF S, list, k, m, shown
  <2>2. ASSUME NEW n \in 1 .. k
        PROVE  \E s \in readings : /\ list[n] = told(s)
                                   /\ \A r \in readings : Cardinality(as(r)) = n <=> r = s
    <3>1. PICK s \in Readable(degrees) :
            /\ list[n] = Reading(degrees, names, s)
            /\ \A r \in Readable(degrees) : Cardinality(AsHot(degrees, r)) = n <=> r = s
      BY <2>1
    <3> QED BY <1>3, <1>4, <3>1
  <2> QED BY <1>3, <1>5, <2>1, <2>2
<1>7. /\ k \in Nat /\ m \in Nat /\ m <= k
      /\ Temps(degrees, names) =
           [hottest |-> IF k = 0 THEN None ELSE list[1].c, sensors |-> first]
  BY <1>2, TempsAre DEF first
<1>8. \A s : told(s).c = w.temps[s]
  BY DEF told
<1> HIDE DEF S, list, k
<1>9. ASSUME k # 0
      PROVE  list[1].c = w.temps[CHOOSE s \in readings : Cardinality(as(s)) = 1]
  <2>1. 1 \in 1 .. k
    BY <1>7, <1>9
  <2>2. PICK s \in readings : /\ list[1] = told(s)
                              /\ \A r \in readings : Cardinality(as(r)) = 1 <=> r = s
    BY <1>6, <2>1
  <2>3. s = CHOOSE r \in readings : Cardinality(as(r)) = 1
    BY <2>2
  <2> QED BY <1>8, <2>2, <2>3
<1>10. MaxSensors \in Nat /\ \A n \in 1 .. m : n \in 1 .. k /\ n <= MaxSensors
  <2>1. MaxSensors \in Nat
    BY LimitAssumption
  <2> QED BY <1>7, <2>1 DEF Cut
<1> HIDE DEF m
<1>11. ASSUME NEW n \in 1 .. m
       PROVE  list[n] = told(CHOOSE s \in shown : Cardinality(as(s)) = n)
  <2>1. PICK s \in readings : /\ list[n] = told(s)
                              /\ \A r \in readings : Cardinality(as(r)) = n <=> r = s
    BY <1>6, <1>10
  <2>2. s \in shown /\ \A r \in shown : Cardinality(as(r)) = n <=> r = s
    BY <1>10, <2>1
  <2> HIDE DEF shown
  <2>3. s = CHOOSE r \in shown : Cardinality(as(r)) = n
    BY <2>2
  <2> QED BY <2>1, <2>3
<1> HIDE DEF shown
<1>12. first = sensors
  BY <1>6, <1>11 DEF first, sensors
<1>13. (IF k = 0 THEN None ELSE list[1].c) = hottest
  BY <1>6, <1>9 DEF hottest
<1> QED BY <1>1, <1>7, <1>12, <1>13 DEF degrees

\* While nothing but the world w was the case, a list is what w has to tell, less
\* what failed.
LEMMA ListExact ==
    ASSUME NEW c, CoroOK(c), c.open = {}, NEW w \in Worlds,
           NEW ws, ws = {w}, PresentAnswers(c, ws),
           NEW f \in c.fields, f \in Lists
    PROVE  Field(f, c.got, c.want) = Expected(f, Data[w], c.host, c.want, c.failed)
<1>1. Data[w] \in World
  BY WorldsTyped
<1>2. CASE f = "temps"
  <2> DEFINE hwmon == c.got["hwmon"]
             zones == c.got["zones"]
             names == c.got["names"]
  <2>1. /\ Field("temps", c.got, c.want) = Temps(Joined(hwmon, zones), names)
        /\ IF "hwmon" \in c.failed THEN hwmon = Nothing("hwmon")
           ELSE hwmon = HwmonOf(Data[w])
        /\ IF "zones" \in c.failed THEN zones = Nothing("zones")
           ELSE zones = ZonesOf(Data[w])
        /\ IF "names" \in c.failed THEN names = {} ELSE names = Data[w].named
    BY <1>2, TempsField
  <2> HIDE DEF hwmon, zones, names
  <2> QED BY <1>1, <1>2, <2>1, TempsExact
<1>3. CASE f = "tail"
  <2>1. Expected("tail", Data[w], c.host, c.want, c.failed)
          = IF "loki" \notin c.failed
            THEN Lines(Data[w], Descending(Newest(Matching(Data[w], c.want), Limit)))
            ELSE <<>>
    BY DEF Expected
  <2>2. LokiTail(Streams(Data[w], c.want)) =
          Lines(Data[w], Descending(Newest(Matching(Data[w], c.want), Limit)))
    BY <1>1, TailIs
  <2> QED BY <1>3, <2>1, <2>2, TailField
<1>4. CASE f = "pod_tail"
  <2> DEFINE set == Matching(Data[w], c.want) \cap Newest(DOMAIN Data[w].logs, Limit)
  <2>1. Expected("pod_tail", Data[w], c.host, c.want, c.failed)
          = IF "apiserver" \notin c.failed THEN Lines(Data[w], Descending(set)) ELSE <<>>
    BY DEF Expected
  <2>2. PodTail(SentOf(Data[w]), c.want) = Lines(Data[w], Descending(set))
    BY <1>1, PodTailIs DEF SentOf
  <2> HIDE DEF set
  <2> QED BY <1>4, <2>1, <2>2, PodTailField
<1> QED BY <1>2, <1>3, <1>4 DEF Lists, LogFields

\* Whichever queries fail: while nothing changes, logs are the newest lines that
\* match, newest first, and sensors the hottest with their readings, less what a
\* failed query would have told.
THEOREM ListsAlwaysExact == Spec => []ListsAreExact
<1>1. IInv => ListsAreExact
  <2> SUFFICES ASSUME IInv, NEW t \in Replying,
                      NEW f \in DOMAIN reply[t].fields \cap Lists, NEW w \in Worlds,
                      during[t] = {w}
               PROVE  reply[t].fields[f] =
                        Expected(f, Data[w], reply[t].host, reply[t].want, reply[t].failed)
    BY DEF ListsAreExact, ExactIn
  <2>1. PICK c : CoroOK(c) /\ c.open = {} /\ PresentAnswers(c, during[t]) /\ reply[t] = Result(c)
    BY DEF Replying, IInv, ThreadOK
  <2>2. /\ f \in c.fields /\ reply[t].fields[f] = Field(f, c.got, c.want)
        /\ reply[t].host = c.host /\ reply[t].want = c.want /\ reply[t].failed = c.failed
    BY <2>1 DEF Result
  <2> QED BY <2>1, <2>2, ListExact
<1> QED BY <1>1, IInit, INext, PTL DEF Spec
=============================================================================
