---------------------------- MODULE MergerProofs ----------------------------
(***************************************************************************)
(* The merger keeps its sinks sound, and its facts are what the streams    *)
(* say.  Of every input the proof knows a cut, a time its stream has       *)
(* passed: the sink holds, for every tag set, exactly the facts that were  *)
(* read after the cut, the guesses that nothing has overtaken, and the     *)
(* last fact before the cut that interpolation can still reach.            *)
(***************************************************************************)
EXTENDS Merger, FiniteSetTheorems, SequenceTheorems, TLAPS

\* Of the sets of elements below an element, which are ordered by inclusion,
\* a minimal one belongs to the least element.
LEMMA FiniteMin ==
  ASSUME NEW S \in SUBSET Int, IsFiniteSet(S), S # {}
  PROVE \E m \in S : \A n \in S : m <= n
<1>1. IsWellFoundedOn(StrictSubsetOrdering(S), SUBSET S)
  BY FS_StrictSubsetOrderingWellFounded, FS_FiniteSubsetsOfFinite
<1> DEFINE Less(n) == {x \in S : x < n}
<1> DEFINE F == {Less(n) : n \in S}
<1>2. F \subseteq SUBSET S /\ F # {}
  OBVIOUS
<1>3. PICK X \in F : \A Y \in F : <<Y, X>> \notin StrictSubsetOrdering(S)
  <2> HIDE DEF F
  <2> QED BY <1>1, <1>2, WFMin, Zenon
<1>4. PICK m \in S : X = Less(m)
  BY <1>3
<1>5. ASSUME NEW n \in S, n < m PROVE FALSE
  <2>1. Less(n) \in F /\ n \in X /\ n \notin Less(n)
    BY <1>4, <1>5
  <2>2. Less(n) \subseteq X
    <3> SUFFICES ASSUME NEW x \in S, x < n PROVE x < m
      BY <1>4
    <3> QED BY <1>5
  <2>3. <<Less(n), X>> \in StrictSubsetOrdering(S)
    BY <2>1, <2>2, <1>2, <1>3 DEF StrictSubsetOrdering
  <2> QED BY <2>1, <2>3, <1>3
<1> QED BY <1>5

(* ----------------------- a sequence of entries ----------------------- *)

\* Entries of a sink whose values are in D, by time, and with the facts first.
Entries(D) == [tp : Nat, data : D, fact : BOOLEAN, emitted : BOOLEAN]
Timed(D, data) ==
  /\ data \in Seq(Entries(D))
  /\ \A j, k \in DOMAIN data : j < k => data[j].tp < data[k].tp
Parted(data, n) ==
  \A j, k \in 1 .. n : j < k /\ data[k].fact => data[j].fact
Ordered(D, data) == Timed(D, data) /\ Parted(data, Len(data))

\* The parts of an entry.
LEMMA EntryParts ==
  ASSUME NEW D, NEW v \in Entries(D)
  PROVE /\ v.tp \in Nat /\ v.data \in D /\ v.fact \in BOOLEAN /\ v.emitted \in BOOLEAN
        /\ v = [tp |-> v.tp, data |-> v.data, fact |-> v.fact, emitted |-> v.emitted]
BY DEF Entries

\* The type of a sequence of entries.
LEMMA TimedSeq ==
  ASSUME NEW D, NEW data, Timed(D, data)
  PROVE /\ Len(data) \in Nat
        /\ DOMAIN data = 1 .. Len(data)
        /\ \A k \in DOMAIN data : /\ data[k] \in Entries(D)
                                 /\ data[k].tp \in Nat /\ data[k].data \in D
                                 /\ data[k].fact \in BOOLEAN /\ data[k].emitted \in BOOLEAN
<1>1. data \in Seq(Entries(D))
  BY DEF Timed
<1>2. Len(data) \in Nat /\ DOMAIN data = 1 .. Len(data)
  BY <1>1, LenProperties
<1>3. \A k \in 1 .. Len(data) : data[k] \in Entries(D)
  BY <1>1, ElementOfSeq
<1> QED BY <1>2, <1>3, EntryParts

\* The least of some positions is one of them.
LEMMA LeastIs ==
  ASSUME NEW n \in Nat, NEW S \in SUBSET (0 .. n), S # {}
  PROVE Least(S) \in S /\ \A m \in S : Least(S) <= m
<1>1. IsFiniteSet(0 .. n)
  BY FS_Interval
<1>2. IsFiniteSet(S)
  BY <1>1, FS_Subset
<1>3. \E m \in S : \A k \in S : m <= k
  <2>1. S \in SUBSET Int
    OBVIOUS
  <2> QED BY <2>1, <1>2, FiniteMin
<1> QED BY <1>3 DEF Least

\* The lower bound splits the entries by their times.
LEMMA BoundSplits ==
  ASSUME NEW D, NEW data, Timed(D, data), NEW tp \in Int
  PROVE LET k == LowerBound(data, tp)
        IN /\ k \in 1 .. Len(data) + 1
           /\ \A j \in DOMAIN data : j < k <=> data[j].tp < tp
<1> DEFINE N == Len(data)
<1> DEFINE S == {k \in DOMAIN data : data[k].tp >= tp} \cup {N + 1}
<1>1. N \in Nat /\ DOMAIN data = 1 .. N /\ \A k \in 1 .. N : data[k].tp \in Nat
  BY TimedSeq
<1>2. S \in SUBSET (0 .. N + 1) /\ S # {}
  BY <1>1
<1> DEFINE k == Least(S)
<1>3. k \in S /\ \A m \in S : k <= m
  <2> HIDE DEF S
  <2>1. N + 1 \in Nat
    BY <1>1
  <2> QED BY <2>1, <1>2, LeastIs
<1>4. k \in 1 .. N + 1
  BY <1>1, <1>3
<1>5. ASSUME NEW j \in DOMAIN data PROVE j < k <=> data[j].tp < tp
  <2>1. CASE j < k
    <3>1. j \notin S
      <4> HIDE DEF S, k
      <4> QED BY <2>1, <1>1, <1>3, <1>4
    <3> QED BY <3>1, <2>1, <1>1
  <2>2. CASE k <= j
    <3>1. k \in DOMAIN data /\ data[k].tp >= tp
      BY <2>2, <1>1, <1>3
    <3>2. k = j \/ data[k].tp < data[j].tp
      BY <3>1, <2>2, <1>1, <1>4 DEF Timed
    <3> QED BY <3>1, <3>2, <2>2, <1>1, <1>4
  <2> QED BY <2>1, <2>2, <1>1, <1>4
<1>6. LowerBound(data, tp) = k
  BY DEF LowerBound
<1> QED BY <1>4, <1>5, <1>6

\* Where the search ends when it has reached len entries from a on, of which
\* those before p are facts.
Clamp(p, r) == IF p < r[1] THEN r[1] ELSE IF p > r[1] + r[2] THEN r[1] + r[2] ELSE p
Spans(n) == {r \in (1 .. n + 1) \X (0 .. n) : r[1] + r[2] <= n + 1}
SearchStep(data, n, f) ==
  [r \in Spans(n) |->
     LET first == r[1]
         half  == r[2] \div 2
     IN IF r[2] = 0 THEN first
        ELSE IF data[first + half].fact
             THEN f[<<first + half + 1, r[2] - half - 1>>]
             ELSE f[<<first, half>>]]

\* The search, as a function of the spans that are left.
LEMMA FirstIsSearch ==
  ASSUME NEW data, NEW n
  PROVE FirstSpeculation(data, n) = (CHOOSE f : f = SearchStep(data, n, f))[<<1, n>>]
BY DEF FirstSpeculation, SearchStep, Spans

\* The entries before p are facts, the others guesses.
Parts(data, n, p) == \A k \in 1 .. n : data[k].fact <=> k < p

\* An interval of a search that sees p - 1 facts first ends at p.
LEMMA ClampSteps ==
  ASSUME NEW data, NEW n \in Nat, NEW p \in 1 .. n + 1, Parts(data, n, p)
  PROVE [r \in Spans(n) |-> Clamp(p, r)] = SearchStep(data, n, [r \in Spans(n) |-> Clamp(p, r)])
<1> DEFINE C == [r \in Spans(n) |-> Clamp(p, r)]
<1> DEFINE S == SearchStep(data, n, C)
<1>1. ASSUME NEW r \in Spans(n) PROVE Clamp(p, r) = S[r]
  <2> DEFINE a == r[1]
  <2> DEFINE h == r[2] \div 2
  <2>1. a \in 1 .. n + 1 /\ r[2] \in 0 .. n /\ a + r[2] <= n + 1
    BY DEF Spans
  <2>2. S[r] = IF r[2] = 0 THEN a
               ELSE IF data[a + h].fact THEN C[<<a + h + 1, r[2] - h - 1>>] ELSE C[<<a, h>>]
    BY DEF SearchStep
  <2>3. CASE r[2] = 0
    BY <2>1, <2>2, <2>3 DEF Clamp
  <2>4. CASE r[2] # 0
    <3>1. h \in 0 .. r[2] - 1
      BY <2>1, <2>4
    <3>2. a + h \in 1 .. n
      BY <3>1, <2>1
    <3>3. data[a + h].fact <=> a + h < p
      BY <3>2 DEF Parts
    <3>4. CASE a + h < p
      <4>1. <<a + h + 1, r[2] - h - 1>> \in Spans(n)
        BY <3>1, <2>1 DEF Spans
      <4>2. S[r] = Clamp(p, <<a + h + 1, r[2] - h - 1>>)
        <5> HIDE DEF S, h
        <5> QED BY <4>1, <3>3, <3>4, <2>2, <2>4
      <4> HIDE DEF S, h
      <4> QED BY <4>2, <3>1, <3>4, <2>1 DEF Clamp
    <3>5. CASE ~(a + h < p)
      <4>1. <<a, h>> \in Spans(n)
        BY <3>1, <2>1 DEF Spans
      <4>2. S[r] = Clamp(p, <<a, h>>)
        <5> HIDE DEF S, h
        <5> QED BY <4>1, <3>3, <3>5, <2>2, <2>4
      <4> HIDE DEF S, h
      <4> QED BY <4>2, <3>1, <3>5, <2>1 DEF Clamp
    <3> QED BY <3>4, <3>5
  <2> QED BY <2>3, <2>4
<1>2. S = [r \in Spans(n) |-> S[r]]
  BY DEF SearchStep
<1>3. C = [r \in Spans(n) |-> S[r]]
  BY <1>1, Zenon
<1> QED BY <1>2, <1>3, Zenon

\* There is no other such function: of the intervals at which two differ, take
\* a shortest one.
LEMMA SearchIsClamp ==
  ASSUME NEW data, NEW n \in Nat, NEW p \in 1 .. n + 1, Parts(data, n, p)
  PROVE FirstSpeculation(data, n) = p
<1> DEFINE f == CHOOSE g : g = SearchStep(data, n, g)
<1>1. f = SearchStep(data, n, f)
  BY ClampSteps, Zenon
<1> HIDE DEF f
<1> DEFINE Bad == {l \in 0 .. n : \E r \in Spans(n) : r[2] = l /\ f[r] # Clamp(p, r)}
<1>2. ASSUME Bad # {} PROVE FALSE
  <2>1. Bad \in SUBSET (0 .. n)
    OBVIOUS
  <2>2. Least(Bad) \in Bad /\ \A m \in Bad : Least(Bad) <= m
    <3> HIDE DEF Bad
    <3> QED BY <1>2, <2>1, LeastIs
  <2>3. PICK r \in Spans(n) : r[2] = Least(Bad) /\ f[r] # Clamp(p, r)
    BY <2>2
  <2> DEFINE a == r[1]
  <2> DEFINE h == r[2] \div 2
  <2>4. a \in 1 .. n + 1 /\ r[2] \in 0 .. n /\ a + r[2] <= n + 1
    BY DEF Spans
  <2>5. f[r] = IF r[2] = 0 THEN a
               ELSE IF data[a + h].fact THEN f[<<a + h + 1, r[2] - h - 1>>] ELSE f[<<a, h>>]
    <3>1. SearchStep(data, n, f)[r] =
            IF r[2] = 0 THEN a
            ELSE IF data[a + h].fact THEN f[<<a + h + 1, r[2] - h - 1>>] ELSE f[<<a, h>>]
      BY DEF SearchStep
    <3> QED BY <3>1, <1>1, Zenon
  <2>6. r[2] # 0
    BY <2>3, <2>4, <2>5 DEF Clamp
  <2>7. \A q \in Spans(n) : q[2] < r[2] => f[q] = Clamp(p, q)
    <3> SUFFICES ASSUME NEW q \in Spans(n), q[2] < r[2], f[q] # Clamp(p, q) PROVE FALSE
      OBVIOUS
    <3>1. q[2] \in 0 .. n
      BY DEF Spans
    <3>2. q[2] \in Bad
      BY <3>1
    <3> QED BY <3>1, <3>2, <2>2, <2>3, <2>4
  <2>8. h \in 0 .. r[2] - 1
    BY <2>4, <2>6
  <2>9. a + h \in 1 .. n /\ (data[a + h].fact <=> a + h < p)
    BY <2>8, <2>4 DEF Parts
  <2> HIDE DEF h, Bad
  <2>10. CASE a + h < p
    <3>1. <<a + h + 1, r[2] - h - 1>> \in Spans(n)
      BY <2>8, <2>4 DEF Spans
    <3>2. f[r] = Clamp(p, <<a + h + 1, r[2] - h - 1>>)
      <4>1. r[2] - h - 1 < r[2]
        BY <2>8, <2>4
      <4> QED BY <3>1, <4>1, <2>5, <2>6, <2>7, <2>9, <2>10
    <3> QED BY <3>2, <2>3, <2>4, <2>8, <2>10 DEF Clamp
  <2>11. CASE ~(a + h < p)
    <3>1. <<a, h>> \in Spans(n)
      BY <2>8, <2>4 DEF Spans
    <3>2. f[r] = Clamp(p, <<a, h>>)
      BY <3>1, <2>4, <2>5, <2>6, <2>7, <2>8, <2>9, <2>11
    <3> QED BY <3>2, <2>3, <2>4, <2>8, <2>11 DEF Clamp
  <2> QED BY <2>10, <2>11
<1>3. <<1, n>> \in Spans(n) /\ n \in 0 .. n
  BY DEF Spans
<1>4. f[<<1, n>>] = Clamp(p, <<1, n>>)
  BY <1>2, <1>3
<1>5. Clamp(p, <<1, n>>) = p
  BY DEF Clamp
<1> QED BY <1>4, <1>5, FirstIsSearch DEF f

\* On entries with the facts first the search finds the first guess.
LEMMA SearchFinds ==
  ASSUME NEW data, NEW n \in Nat, Parted(data, n), \A k \in 1 .. n : data[k].fact \in BOOLEAN
  PROVE LET p == FirstSpeculation(data, n)
        IN p \in 1 .. n + 1 /\ \A k \in 1 .. n : data[k].fact <=> k < p
<1> DEFINE S == {k \in 1 .. n : ~data[k].fact} \cup {n + 1}
<1> DEFINE p == Least(S)
<1>1. S \in SUBSET (0 .. n + 1) /\ S # {} /\ n + 1 \in Nat
  OBVIOUS
<1>2. p \in S /\ \A m \in S : p <= m
  <2> HIDE DEF S
  <2> QED BY <1>1, LeastIs
<1>3. p \in 1 .. n + 1
  BY <1>2
<1>4. ASSUME NEW k \in 1 .. n PROVE data[k].fact <=> k < p
  <2>1. CASE k < p
    <3>1. k \notin S
      <4> HIDE DEF S, p
      <4> QED BY <2>1, <1>2, <1>3
    <3> QED BY <3>1, <2>1
  <2>2. CASE p <= k
    <3>1. ~data[p].fact
      BY <2>2, <1>2
    <3> QED BY <3>1, <2>2, <1>3 DEF Parted
  <2> QED BY <2>1, <2>2, <1>3
<1>5. Parts(data, n, p)
  BY <1>4 DEF Parts
<1>6. FirstSpeculation(data, n) = p
  BY <1>3, <1>5, SearchIsClamp
<1> QED BY <1>3, <1>4, <1>6

(* ----------------------- erasing and inserting ----------------------- *)

\* What is left when the entries from a to b are erased.
LEMMA EraseIs ==
  ASSUME NEW D, NEW data, Timed(D, data), NEW a \in 1 .. Len(data) + 1, NEW b \in a .. Len(data) + 1
  PROVE /\ Timed(D, Erase(data, a, b))
        /\ Len(Erase(data, a, b)) = Len(data) - (b - a)
        /\ \A i \in 1 .. Len(Erase(data, a, b)) :
             Erase(data, a, b)[i] = IF i < a THEN data[i] ELSE data[i + (b - a)]
        /\ \A v : v \in ToSet(Erase(data, a, b)) <=>
                    \E j \in DOMAIN data : (j < a \/ j >= b) /\ v = data[j]
<1> DEFINE N == Len(data)
<1> DEFINE L == SubSeq(data, 1, a - 1)
<1> DEFINE U == SubSeq(data, b, N)
<1> DEFINE R == L \o U
<1>1. /\ N \in Nat /\ DOMAIN data = 1 .. N
      /\ \A k \in 1 .. N : data[k] \in Entries(D) /\ data[k].tp \in Nat
  BY TimedSeq
<1>2. L \in Seq(Entries(D)) /\ Len(L) = a - 1 /\ \A i \in 1 .. a - 1 : L[i] = data[i]
  <2>1. a - 1 \in Int /\ 1 \in Int /\ \A i \in 1 .. a - 1 : data[i] \in Entries(D)
    BY <1>1
  <2>2. /\ L \in Seq(Entries(D))
        /\ Len(L) = IF 1 <= a - 1 THEN (a - 1) - 1 + 1 ELSE 0
        /\ \A i \in 1 .. (a - 1) - 1 + 1 : L[i] = data[1 + i - 1]
    BY <2>1, SubSeqProperties
  <2> HIDE DEF L
  <2> QED BY <2>2, <1>1
<1>3. U \in Seq(Entries(D)) /\ Len(U) = N - b + 1 /\ \A i \in 1 .. N - b + 1 : U[i] = data[b + i - 1]
  <2>1. N \in Int /\ b \in Int /\ \A i \in b .. N : data[i] \in Entries(D)
    BY <1>1
  <2>2. /\ U \in Seq(Entries(D))
        /\ Len(U) = IF b <= N THEN N - b + 1 ELSE 0
        /\ \A i \in 1 .. N - b + 1 : U[i] = data[b + i - 1]
    BY <2>1, SubSeqProperties
  <2> HIDE DEF U
  <2> QED BY <2>2, <1>1
<1>4. /\ R \in Seq(Entries(D)) /\ Len(R) = N - (b - a)
      /\ \A i \in 1 .. N - (b - a) : R[i] = IF i < a THEN data[i] ELSE data[i + (b - a)]
  <2> HIDE DEF L, U
  <2>1. /\ R \in Seq(Entries(D)) /\ Len(R) = Len(L) + Len(U)
        /\ \A i \in 1 .. Len(L) + Len(U) : R[i] = IF i <= Len(L) THEN L[i] ELSE U[i - Len(L)]
    BY <1>2, <1>3, ConcatProperties
  <2> HIDE DEF R
  <2>2. Len(R) = N - (b - a)
    BY <2>1, <1>1, <1>2, <1>3
  <2>4. \A i \in 1 .. N - (b - a) : R[i] = IF i <= a - 1 THEN L[i] ELSE U[i - (a - 1)]
    <3>1. Len(L) + Len(U) = N - (b - a) /\ Len(L) = a - 1
      BY <1>1, <1>2, <1>3
    <3> QED BY <3>1, <2>1
  <2>3. ASSUME NEW i \in 1 .. N - (b - a)
        PROVE R[i] = IF i < a THEN data[i] ELSE data[i + (b - a)]
    <3>1. CASE i < a
      <4>1. i \in 1 .. a - 1 /\ i <= a - 1
        BY <3>1, <1>1
      <4>2. R[i] = L[i]
        BY <4>1, <2>4
      <4> QED BY <4>1, <4>2, <3>1, <1>2
    <3>2. CASE i >= a
      <4>1. R[i] = U[i - (a - 1)] /\ i - (a - 1) \in 1 .. N - b + 1
        BY <3>2, <2>1, <2>2, <1>1, <1>2, <1>3
      <4>2. U[i - (a - 1)] = data[b + (i - (a - 1)) - 1] /\ b + (i - (a - 1)) - 1 = i + (b - a)
        BY <4>1, <1>1, <1>3
      <4> QED BY <4>1, <4>2, <3>2, <1>1
    <3> QED BY <3>1, <3>2, <1>1
  <2> QED BY <2>1, <2>2, <2>3
<1> HIDE DEF R, L, U
<1>5. DOMAIN R = 1 .. N - (b - a)
  BY <1>4, LenProperties
<1>6. ASSUME NEW j \in DOMAIN R, NEW k \in DOMAIN R, j < k PROVE R[j].tp < R[k].tp
  <2> DEFINE J == IF j < a THEN j ELSE j + (b - a)
  <2> DEFINE K == IF k < a THEN k ELSE k + (b - a)
  <2>1. J \in DOMAIN data /\ K \in DOMAIN data /\ J < K
    BY <1>1, <1>5, <1>6
  <2>2. R[j] = data[J] /\ R[k] = data[K]
    BY <1>4, <1>5
  <2> QED BY <2>1, <2>2 DEF Timed
<1>7. ASSUME NEW v PROVE v \in ToSet(R) <=> \E j \in DOMAIN data : (j < a \/ j >= b) /\ v = data[j]
  <2>1. ASSUME NEW i \in DOMAIN R PROVE \E j \in DOMAIN data : (j < a \/ j >= b) /\ R[i] = data[j]
    <3> DEFINE J == IF i < a THEN i ELSE i + (b - a)
    <3>1. J \in DOMAIN data /\ (J < a \/ J >= b) /\ R[i] = data[J]
      BY <1>1, <1>4, <1>5
    <3> QED BY <3>1
  <2>2. ASSUME NEW j \in DOMAIN data, j < a \/ j >= b PROVE \E i \in DOMAIN R : R[i] = data[j]
    <3> DEFINE I == IF j < a THEN j ELSE j - (b - a)
    <3>1. I \in DOMAIN R /\ (IF I < a THEN I ELSE I + (b - a)) = j
      BY <2>2, <1>1, <1>5
    <3>2. R[I] = data[j]
      <4> HIDE DEF I
      <4> QED BY <3>1, <1>4, <1>5
    <3> QED BY <3>1, <3>2
  <2> QED BY <2>1, <2>2 DEF ToSet
<1>9. Erase(data, a, b) = R
  BY DEF Erase, R, L, U
<1>10. Timed(D, R)
  BY <1>4, <1>5, <1>6 DEF Timed
<1> QED BY <1>4, <1>7, <1>9, <1>10, Zenon

\* An entry put between those before its time and those after it.
LEMMA InsertIs ==
  ASSUME NEW D, NEW data, Timed(D, data), NEW e \in Entries(D), NEW k \in 1 .. Len(data) + 1,
         \A j \in DOMAIN data : data[j].tp # e.tp /\ (j < k <=> data[j].tp < e.tp)
  PROVE LET R == InsertAt(data, k, e)
        IN /\ Timed(D, R)
           /\ Len(R) = Len(data) + 1
           /\ \A i \in 1 .. Len(R) : R[i] = IF i < k THEN data[i] ELSE IF i = k THEN e ELSE data[i - 1]
           /\ ToSet(R) = ToSet(data) \cup {e}
<1> DEFINE N == Len(data)
<1> DEFINE L == SubSeq(data, 1, k - 1)
<1> DEFINE U == SubSeq(data, k, N)
<1> DEFINE M == L \o <<e>>
<1> DEFINE R == M \o U
<1>1. /\ N \in Nat /\ DOMAIN data = 1 .. N
      /\ \A i \in 1 .. N : data[i] \in Entries(D) /\ data[i].tp \in Nat
  BY TimedSeq
<1>2. L \in Seq(Entries(D)) /\ Len(L) = k - 1 /\ \A i \in 1 .. k - 1 : L[i] = data[i]
  <2>1. k - 1 \in Int /\ 1 \in Int /\ \A i \in 1 .. k - 1 : data[i] \in Entries(D)
    BY <1>1
  <2>2. /\ L \in Seq(Entries(D))
        /\ Len(L) = IF 1 <= k - 1 THEN (k - 1) - 1 + 1 ELSE 0
        /\ \A i \in 1 .. (k - 1) - 1 + 1 : L[i] = data[1 + i - 1]
    BY <2>1, SubSeqProperties
  <2> HIDE DEF L
  <2> QED BY <2>2, <1>1
<1>3. U \in Seq(Entries(D)) /\ Len(U) = N - k + 1 /\ \A i \in 1 .. N - k + 1 : U[i] = data[k + i - 1]
  <2>1. N \in Int /\ k \in Int /\ \A i \in k .. N : data[i] \in Entries(D)
    BY <1>1
  <2>2. /\ U \in Seq(Entries(D))
        /\ Len(U) = IF k <= N THEN N - k + 1 ELSE 0
        /\ \A i \in 1 .. N - k + 1 : U[i] = data[k + i - 1]
    BY <2>1, SubSeqProperties
  <2> HIDE DEF U
  <2> QED BY <2>2, <1>1
<1>4. /\ M \in Seq(Entries(D)) /\ Len(M) = k
      /\ \A i \in 1 .. k : M[i] = IF i < k THEN data[i] ELSE e
  <2> HIDE DEF L
  <2>1. <<e>> \in Seq(Entries(D)) /\ Len(<<e>>) = 1 /\ <<e>>[1] = e
    OBVIOUS
  <2>2. /\ M \in Seq(Entries(D)) /\ Len(M) = Len(L) + Len(<<e>>)
        /\ \A i \in 1 .. Len(L) + Len(<<e>>) : M[i] = IF i <= Len(L) THEN L[i] ELSE <<e>>[i - Len(L)]
    BY <1>2, <2>1, ConcatProperties
  <2> HIDE DEF M
  <2> QED BY <2>1, <2>2, <1>1, <1>2
<1>5. /\ R \in Seq(Entries(D)) /\ Len(R) = N + 1
      /\ \A i \in 1 .. N + 1 : R[i] = IF i < k THEN data[i] ELSE IF i = k THEN e ELSE data[i - 1]
  <2> HIDE DEF M, U
  <2>1. /\ R \in Seq(Entries(D)) /\ Len(R) = Len(M) + Len(U)
        /\ \A i \in 1 .. Len(M) + Len(U) : R[i] = IF i <= Len(M) THEN M[i] ELSE U[i - Len(M)]
    BY <1>4, <1>3, ConcatProperties
  <2> HIDE DEF R
  <2>2. Len(R) = N + 1
    BY <2>1, <1>1, <1>4, <1>3
  <2>3. ASSUME NEW i \in 1 .. N + 1
        PROVE R[i] = IF i < k THEN data[i] ELSE IF i = k THEN e ELSE data[i - 1]
    <3>1. CASE i <= k
      BY <3>1, <2>1, <2>2, <1>1, <1>4, <1>3
    <3>2. CASE i > k
      <4>1. R[i] = U[i - k] /\ i - k \in 1 .. N - k + 1
        BY <3>2, <2>1, <2>2, <1>1, <1>4, <1>3
      <4>2. U[i - k] = data[k + (i - k) - 1] /\ k + (i - k) - 1 = i - 1
        BY <4>1, <1>1, <1>3
      <4> QED BY <4>1, <4>2, <3>2, <1>1
    <3> QED BY <3>1, <3>2, <1>1
  <2> QED BY <2>1, <2>2, <2>3
<1> HIDE DEF R, M, L, U
<1>6. DOMAIN R = 1 .. N + 1
  BY <1>5, LenProperties
<1>7. ASSUME NEW i \in DOMAIN R, NEW j \in DOMAIN R, i < j PROVE R[i].tp < R[j].tp
  <2>1. \A m, n \in 1 .. N : m < n => data[m].tp < data[n].tp
    BY <1>1 DEF Timed
  <2>2. e.tp \in Nat /\ \A m \in 1 .. N : (m < k => data[m].tp < e.tp) /\ (m >= k => e.tp < data[m].tp)
    BY <1>1, EntryParts
  <2>0. i \in 1 .. N + 1 /\ j \in 1 .. N + 1
    BY <1>6
  <2>3. CASE j < k
    <3>1. R[i] = data[i] /\ R[j] = data[j] /\ i \in 1 .. N /\ j \in 1 .. N
      BY <2>0, <2>3, <1>1, <1>5, <1>7
    <3> QED BY <3>1, <2>1, <1>7
  <2>4. CASE j = k
    <3>1. R[i] = data[i] /\ R[j] = e /\ i \in 1 .. N /\ i < k
      BY <2>0, <2>4, <1>1, <1>5, <1>7
    <3> QED BY <3>1, <2>2
  <2>5. CASE j > k /\ i = k
    <3>1. R[i] = e /\ R[j] = data[j - 1] /\ j - 1 \in 1 .. N /\ j - 1 >= k
      BY <2>0, <2>5, <1>1, <1>5
    <3> QED BY <3>1, <2>2
  <2>6. CASE j > k /\ i < k
    <3>1. R[i] = data[i] /\ R[j] = data[j - 1] /\ i \in 1 .. N /\ j - 1 \in 1 .. N /\ i < j - 1
      BY <2>0, <2>6, <1>1, <1>5
    <3> QED BY <3>1, <2>1
  <2>7. CASE j > k /\ i > k
    <3>1. /\ R[i] = data[i - 1] /\ R[j] = data[j - 1]
          /\ i - 1 \in 1 .. N /\ j - 1 \in 1 .. N /\ i - 1 < j - 1
      BY <2>0, <2>7, <1>1, <1>5, <1>7
    <3> QED BY <3>1, <2>1
  <2> QED BY <2>0, <2>3, <2>4, <2>5, <2>6, <2>7, <1>1
<1>8. ASSUME NEW v PROVE v \in ToSet(R) <=> v \in ToSet(data) \cup {e}
  <2>1. ASSUME NEW i \in DOMAIN R PROVE R[i] = e \/ \E j \in DOMAIN data : R[i] = data[j]
    <3>1. i \in 1 .. N + 1
      BY <1>6
    <3>2. CASE i < k
      BY <3>1, <3>2, <1>1, <1>5
    <3>3. CASE i > k
      <4>1. R[i] = data[i - 1] /\ i - 1 \in 1 .. N
        BY <3>1, <3>3, <1>1, <1>5
      <4> QED BY <4>1, <1>1
    <3>4. CASE i = k
      BY <3>1, <3>4, <1>5
    <3> QED BY <3>1, <3>2, <3>3, <3>4, <1>1
  <2>2. ASSUME NEW j \in DOMAIN data PROVE \E i \in DOMAIN R : R[i] = data[j]
    <3> DEFINE I == IF j < k THEN j ELSE j + 1
    <3>1. I \in DOMAIN R /\ R[I] = data[j]
      BY <1>1, <1>5, <1>6
    <3> QED BY <3>1
  <2>3. k \in DOMAIN R /\ R[k] = e
    BY <1>1, <1>5, <1>6
  <2> QED BY <2>1, <2>2, <2>3 DEF ToSet
<1>9. ToSet(R) = ToSet(data) \cup {e}
  BY <1>8
<1>10. InsertAt(data, k, e) = R
  BY DEF InsertAt, R, M, L, U
<1> QED BY <1>5, <1>6, <1>7, <1>9, <1>10 DEF Timed

\* An entry in the place of one of the same time.
LEMMA ReplaceIs ==
  ASSUME NEW D, NEW data, Timed(D, data), NEW e \in Entries(D), NEW k \in DOMAIN data, data[k].tp = e.tp
  PROVE LET R == [data EXCEPT ![k] = e]
        IN /\ Timed(D, R)
           /\ Len(R) = Len(data)
           /\ \A i \in 1 .. Len(R) : R[i] = IF i = k THEN e ELSE data[i]
           /\ ToSet(R) = {v \in ToSet(data) : v.tp # e.tp} \cup {e}
<1> DEFINE R == [data EXCEPT ![k] = e]
<1>1. /\ Len(data) \in Nat /\ DOMAIN data = 1 .. Len(data)
      /\ \A i \in DOMAIN data : data[i] \in Entries(D) /\ data[i].tp \in Nat
  BY TimedSeq
<1>2. data \in Seq(Entries(D)) /\ \A i, j \in DOMAIN data : i < j => data[i].tp < data[j].tp
  BY DEF Timed
<1>3. R \in Seq(Entries(D)) /\ Len(R) = Len(data) /\ \A i \in 1 .. Len(data) : R[i] = IF i = k THEN e ELSE data[i]
  BY <1>1, <1>2, ExceptSeq
<1>4. DOMAIN R = DOMAIN data
  BY <1>1
<1> HIDE DEF R
<1>5. \A i \in DOMAIN R : R[i].tp = data[i].tp
  BY <1>1, <1>3, <1>4
<1>6. \A i, j \in DOMAIN R : i < j => R[i].tp < R[j].tp
  BY <1>2, <1>4, <1>5
<1>7. ASSUME NEW v PROVE v \in ToSet(R) <=> v \in {w \in ToSet(data) : w.tp # e.tp} \cup {e}
  <2>1. ASSUME NEW i \in DOMAIN R PROVE R[i] = e \/ (R[i] \in ToSet(data) /\ R[i].tp # e.tp)
    <3>1. CASE i = k
      BY <3>1, <1>1, <1>3
    <3>2. CASE i # k
      <4>1. R[i] = data[i] /\ i \in DOMAIN data
        BY <3>2, <1>1, <1>3, <1>4
      <4>2. data[i].tp # data[k].tp
        BY <4>1, <3>2, <1>1, <1>2
      <4> QED BY <4>1, <4>2 DEF ToSet
    <3> QED BY <3>1, <3>2
  <2>2. ASSUME NEW i \in DOMAIN data, data[i].tp # e.tp PROVE \E j \in DOMAIN R : R[j] = data[i]
    BY <2>2, <1>1, <1>3, <1>4
  <2>3. R[k] = e /\ k \in DOMAIN R
    BY <1>1, <1>3, <1>4
  <2>4. v \in ToSet(R) => v \in {w \in ToSet(data) : w.tp # e.tp} \cup {e}
    BY <2>1 DEF ToSet
  <2>5. v \in ToSet(data) /\ v.tp # e.tp => v \in ToSet(R)
    BY <2>2 DEF ToSet
  <2>6. v = e => v \in ToSet(R)
    BY <2>3 DEF ToSet
  <2> QED BY <2>4, <2>5, <2>6
<1>8. ToSet(R) = {w \in ToSet(data) : w.tp # e.tp} \cup {e}
  BY <1>7
<1> QED BY <1>1, <1>3, <1>6, <1>8 DEF Timed, R

\* A later entry at the end.
LEMMA AppendIs ==
  ASSUME NEW D, NEW data, Timed(D, data), NEW e \in Entries(D),
         \A i \in DOMAIN data : data[i].tp < e.tp
  PROVE LET R == Append(data, e)
        IN /\ Timed(D, R)
           /\ Len(R) = Len(data) + 1
           /\ \A i \in 1 .. Len(R) : R[i] = IF i = Len(R) THEN e ELSE data[i]
           /\ ToSet(R) = ToSet(data) \cup {e}
<1> DEFINE R == Append(data, e)
<1>1. /\ Len(data) \in Nat /\ DOMAIN data = 1 .. Len(data)
      /\ \A i \in DOMAIN data : data[i] \in Entries(D) /\ data[i].tp \in Nat
  BY TimedSeq
<1>2. data \in Seq(Entries(D)) /\ \A i, j \in DOMAIN data : i < j => data[i].tp < data[j].tp
  BY DEF Timed
<1>3. R \in Seq(Entries(D)) /\ Len(R) = Len(data) + 1
      /\ \A i \in 1 .. Len(data) + 1 : R[i] = IF i = Len(data) + 1 THEN e ELSE data[i]
  BY <1>1, <1>2
<1>4. DOMAIN R = 1 .. Len(data) + 1
  BY <1>3, LenProperties
<1> HIDE DEF R
<1>6. ASSUME NEW i \in DOMAIN R, NEW j \in DOMAIN R, i < j PROVE R[i].tp < R[j].tp
  <2>1. i \in 1 .. Len(data) /\ R[i] = data[i]
    BY <1>1, <1>3, <1>4, <1>6
  <2>2. CASE j = Len(data) + 1
    BY <2>1, <2>2, <1>1, <1>3, <1>4
  <2>3. CASE j # Len(data) + 1
    <3>1. j \in 1 .. Len(data) /\ R[j] = data[j]
      BY <2>3, <1>1, <1>3, <1>4
    <3> QED BY <3>1, <2>1, <1>1, <1>2, <1>6
  <2> QED BY <2>2, <2>3
<1>7. ASSUME NEW v PROVE v \in ToSet(R) <=> v \in ToSet(data) \cup {e}
  <2>1. ASSUME NEW i \in DOMAIN R PROVE R[i] = e \/ \E j \in DOMAIN data : R[i] = data[j]
    BY <1>1, <1>3, <1>4
  <2>2. ASSUME NEW j \in DOMAIN data PROVE j \in DOMAIN R /\ R[j] = data[j]
    BY <1>1, <1>3, <1>4
  <2>3. Len(data) + 1 \in DOMAIN R /\ R[Len(data) + 1] = e
    BY <1>1, <1>3, <1>4
  <2> QED BY <2>1, <2>2, <2>3 DEF ToSet
<1>8. ToSet(R) = ToSet(data) \cup {e}
  BY <1>7
<1> QED BY <1>1, <1>3, <1>6, <1>8 DEF Timed, R

\* The guesses before a fact are erased.
LEMMA FactErases ==
  ASSUME NEW D, NEW X, Timed(D, X), NEW k \in DOMAIN X, X[k].fact, Parted(X, k - 1),
         \A j \in DOMAIN X : j > k => ~X[j].fact
  PROVE LET R == Erase(X, FirstSpeculation(X, k - 1), k)
        IN /\ Ordered(D, R)
           /\ ToSet(R) = {v \in ToSet(X) : v.fact \/ v.tp > X[k].tp}
<1> DEFINE f == FirstSpeculation(X, k - 1)
<1>1. /\ Len(X) \in Nat /\ DOMAIN X = 1 .. Len(X)
      /\ \A i \in DOMAIN X : X[i].tp \in Nat /\ X[i].fact \in BOOLEAN
  BY TimedSeq
<1>2. k - 1 \in Nat /\ \A i \in 1 .. k - 1 : X[i].fact \in BOOLEAN
  BY <1>1
<1>3. f \in 1 .. (k - 1) + 1 /\ \A i \in 1 .. k - 1 : X[i].fact <=> i < f
  BY <1>2, SearchFinds
<1> HIDE DEF f
<1>4. f \in 1 .. Len(X) + 1 /\ k \in f .. Len(X) + 1
  BY <1>1, <1>3
<1> DEFINE R == Erase(X, f, k)
<1>5. /\ Timed(D, R)
      /\ Len(R) = Len(X) - (k - f)
      /\ \A i \in 1 .. Len(R) : R[i] = IF i < f THEN X[i] ELSE X[i + (k - f)]
      /\ \A v : v \in ToSet(R) <=> \E j \in DOMAIN X : (j < f \/ j >= k) /\ v = X[j]
  <2>1. Timed(D, Erase(X, f, k))
    BY <1>4, EraseIs
  <2>2. Len(Erase(X, f, k)) = Len(X) - (k - f)
    BY <1>4, EraseIs
  <2>3. \A i \in 1 .. Len(Erase(X, f, k)) :
             Erase(X, f, k)[i] = IF i < f THEN X[i] ELSE X[i + (k - f)]
    BY <1>4, EraseIs
  <2>4. \A v : v \in ToSet(Erase(X, f, k)) <=>
                    \E j \in DOMAIN X : (j < f \/ j >= k) /\ v = X[j]
    BY <1>4, EraseIs
  <2> QED BY <2>1, <2>2, <2>3, <2>4
<1> HIDE DEF R
<1>6. ASSUME NEW i \in 1 .. Len(R), NEW j \in 1 .. Len(R), i < j, R[j].fact PROVE R[i].fact
  <2> DEFINE I == IF i < f THEN i ELSE i + (k - f)
  <2> DEFINE J == IF j < f THEN j ELSE j + (k - f)
  <2>1. I \in DOMAIN X /\ J \in DOMAIN X /\ I < J /\ (I < f \/ I >= k) /\ (J < f \/ J >= k)
    BY <1>1, <1>3, <1>4, <1>5, <1>6
  <2>2. R[i] = X[I] /\ R[j] = X[J]
    BY <1>5
  <2> HIDE DEF I, J
  <2>3. J <= k
    BY <2>1, <2>2, <1>1, <1>6
  <2>4. I < f
    BY <2>1, <2>3, <1>1, <1>3
  <2>5. I \in 1 .. k - 1
    BY <2>1, <2>3, <1>1
  <2> QED BY <2>2, <2>4, <2>5, <1>3
<1>7. Ordered(D, R)
  BY <1>5, <1>6 DEF Ordered, Parted
<1>8. ASSUME NEW j \in DOMAIN X
      PROVE (j < f \/ j >= k) <=> (X[j].fact \/ X[j].tp > X[k].tp)
  <2>1. CASE j < k
    <3>1. X[j].tp < X[k].tp /\ j \in 1 .. k - 1
      BY <2>1, <1>1 DEF Timed
    <3> QED BY <3>1, <2>1, <1>1, <1>3
  <2>2. CASE j = k
    BY <2>2, <1>1
  <2>3. CASE j > k
    <3>1. X[k].tp < X[j].tp
      BY <2>3, <1>1 DEF Timed
    <3> QED BY <3>1, <2>3, <1>1
  <2> QED BY <2>1, <2>2, <2>3, <1>1
<1>9. ToSet(R) = {v \in ToSet(X) : v.fact \/ v.tp > X[k].tp}
  <2>1. ASSUME NEW v PROVE v \in ToSet(R) <=> v \in ToSet(X) /\ (v.fact \/ v.tp > X[k].tp)
    <3>1. v \in ToSet(X) <=> \E j \in DOMAIN X : v = X[j]
      BY DEF ToSet
    <3> QED BY <3>1, <1>5, <1>8
  <2> QED BY <2>1
<1> QED BY <1>7, <1>9 DEF f, R

(* ------------------------ a scalar sink reads ------------------------ *)

\* What interpolation may remember.
Remembered(D) == {Absent} \cup [tp : Nat, data : D]
\* A sink of values in D that is in order.
SinkOver(D, s) ==
  /\ s = [data |-> s.data, recent |-> s.recent]
  /\ Ordered(D, s.data)
  /\ s.recent \in Remembered(D)

\* Another content of a sink.
LEMMA WithData ==
  ASSUME NEW D, NEW s, SinkOver(D, s), NEW data, Ordered(D, data)
  PROVE /\ SinkOver(D, [s EXCEPT !.data = data])
        /\ [s EXCEPT !.data = data].data = data
        /\ [s EXCEPT !.data = data].recent = s.recent
<1>1. s = [data |-> s.data, recent |-> s.recent]
  BY DEF SinkOver
<1>2. [s EXCEPT !.data = data] = [data |-> data, recent |-> s.recent]
  BY <1>1
<1> QED BY <1>2 DEF SinkOver

\* A new entry.
LEMMA EntryIs ==
  ASSUME NEW D, NEW e, e.tp \in Nat, e.data \in D, e.fact \in BOOLEAN
  PROVE Entry(e) \in Entries(D) /\ Entry(e).tp = e.tp /\ Entry(e).fact = e.fact /\ Entry(e).data = e.data
BY DEF Entry, Entries

\* What follows the facts that the sink has, as the streams are.
FactFits(s, e) ==
  /\ s.recent = Absent \/ s.recent.tp <= e.tp
  /\ \A k \in DOMAIN s.data : s.data[k].fact => s.data[k].tp < e.tp
  /\ (\A k \in DOMAIN s.data : s.data[k].tp < e.tp) => \A k \in DOMAIN s.data : s.data[k].fact
GuessFits(s, e) ==
  /\ s.recent = Absent \/ s.recent.tp <= e.tp
  /\ \A k \in DOMAIN s.data : s.data[k].fact => s.data[k].tp < e.tp

\* A fact is put after the facts, and the guesses before it are gone.
LEMMA AcceptFact ==
  ASSUME NEW D, NEW s, SinkOver(D, s), NEW e, e.tp \in Nat, e.data \in D, e.fact = TRUE, FactFits(s, e)
  PROVE \E data : /\ AcceptScalar(s, e) = [ok |-> TRUE, sink |-> [s EXCEPT !.data = data]]
                  /\ Ordered(D, data)
                  /\ \A v : v \in ToSet(data) <=> \/ v = Entry(e)
                                                  \/ v \in ToSet(s.data) /\ (v.fact \/ v.tp > e.tp)
<1> DEFINE N == Len(s.data)
<1> DEFINE k == LowerBound(s.data, e.tp)
<1> DEFINE E == Entry(e)
<1>1. E \in Entries(D) /\ E.tp = e.tp /\ E.fact = TRUE
  BY EntryIs
<1> HIDE DEF E
<1>2. Timed(D, s.data) /\ Parted(s.data, N)
  BY DEF SinkOver, Ordered
<1>3. /\ N \in Nat /\ DOMAIN s.data = 1 .. N
      /\ \A i \in DOMAIN s.data : s.data[i] \in Entries(D) /\ s.data[i].tp \in Nat /\ s.data[i].fact \in BOOLEAN
  BY <1>2, TimedSeq
<1>4. k \in 1 .. N + 1 /\ \A j \in DOMAIN s.data : j < k <=> s.data[j].tp < e.tp
  <2>1. e.tp \in Int
    OBVIOUS
  <2> QED BY <2>1, <1>2, BoundSplits
<1>5. ~(s.recent # Absent /\ e.tp < s.recent.tp)
  BY DEF FactFits, SinkOver, Remembered
<1> HIDE DEF k
<1>6. CASE k > N
  <2> DEFINE X == Append(s.data, E)
  <2>1. \A i \in DOMAIN s.data : s.data[i].tp < e.tp
    BY <1>3, <1>4, <1>6
  <2>2. \A i \in DOMAIN s.data : s.data[i].fact
    BY <2>1 DEF FactFits
  <2>3. /\ Timed(D, X) /\ Len(X) = N + 1
        /\ \A i \in 1 .. Len(X) : X[i] = IF i = Len(X) THEN E ELSE s.data[i]
        /\ ToSet(X) = ToSet(s.data) \cup {E}
    BY <2>1, <1>1, <1>2, AppendIs
  <2> HIDE DEF X
  <2>4. ASSUME NEW i \in 1 .. N + 1 PROVE X[i].fact
    <3>1. X[i] = IF i = N + 1 THEN E ELSE s.data[i]
      BY <2>3
    <3>2. i # N + 1 => i \in DOMAIN s.data
      BY <1>3
    <3> QED BY <3>1, <3>2, <2>2, <1>1
  <2>5. Parted(X, N + 1) /\ Parts(X, N + 1, N + 2)
    BY <2>4, <1>3 DEF Parted, Parts
  <2>6. FirstSpeculation(X, N + 1) = N + 2
    BY <2>5, <1>3, SearchIsClamp
  <2> DEFINE m == N + 2
  <2> DEFINE R == Erase(X, m, m)
  <2>7. m \in 1 .. Len(X) + 1 /\ m \in m .. Len(X) + 1
    BY <2>3, <1>3
  <2>0. m \in Int /\ m = N + 2
    BY <1>3
  <2> HIDE DEF m
  <2>8. Timed(D, R)
    BY <2>3, <2>7, EraseIs
  <2>9. Len(R) = Len(X) - (m - m)
    BY <2>3, <2>7, EraseIs
  <2>10. \A i \in 1 .. Len(R) : R[i] = IF i < m THEN X[i] ELSE X[i + (m - m)]
    BY <2>3, <2>7, EraseIs
  <2>11. \A v : v \in ToSet(R) <=> \E j \in DOMAIN X : (j < m \/ j >= m) /\ v = X[j]
    BY <2>3, <2>7, EraseIs
  <2> HIDE DEF R
  <2>12. Ordered(D, R)
    <3>1. Len(R) = N + 1 /\ \A i \in 1 .. N + 1 : R[i].fact
      BY <2>0, <2>3, <2>4, <2>9, <2>10, <1>3
    <3> QED BY <3>1, <2>8 DEF Ordered, Parted
  <2>13. ASSUME NEW v PROVE v \in ToSet(R) <=> v \in ToSet(X)
    <3>1. DOMAIN X = 1 .. N + 1
      BY <2>3, TimedSeq
    <3>2. \A j \in DOMAIN X : j < m \/ j >= m
      BY <3>1, <2>0, <1>3
    <3>3. v \in ToSet(X) <=> \E j \in DOMAIN X : v = X[j]
      BY DEF ToSet
    <3> QED BY <3>2, <3>3, <2>11
  <2>14. \A v \in ToSet(s.data) : v.fact
    BY <2>2 DEF ToSet
  <2>15. AcceptScalar(s, e) = [ok |-> TRUE, sink |-> [s EXCEPT !.data = R]]
    <3>1. LowerBound(s.data, e.tp) > Len(s.data)
      BY <1>6 DEF k
    <3>2. AcceptScalar(s, e) = Put(s, e, Append(s.data, Entry(e)), Len(Append(s.data, Entry(e))) + 1)
      BY <3>1, <1>5 DEF AcceptScalar
    <3>3. AcceptScalar(s, e) = Put(s, e, X, Len(X) + 1)
      BY <3>2 DEF X, E
    <3>4. Len(X) + 1 = m /\ Len(X) + 1 - 1 = N + 1
      BY <2>0, <2>3, <1>3
    <3>5. Put(s, e, X, m) = [ok |-> TRUE, sink |-> [s EXCEPT !.data = Erase(X, FirstSpeculation(X, m - 1), m)]]
      BY DEF Put
    <3>6. m - 1 = N + 1
      BY <2>0, <1>3
    <3> QED BY <3>3, <3>4, <3>5, <3>6, <2>0, <2>6 DEF R
  <2> QED BY <2>3, <2>12, <2>13, <2>14, <2>15 DEF E
<1>7. CASE k <= N /\ s.data[k].tp = e.tp
  <2> DEFINE X == [s.data EXCEPT ![k] = E]
  <2>1. k \in DOMAIN s.data
    BY <1>3, <1>4, <1>7
  <2>2. /\ Timed(D, X) /\ Len(X) = N
        /\ \A i \in 1 .. Len(X) : X[i] = IF i = k THEN E ELSE s.data[i]
        /\ ToSet(X) = {v \in ToSet(s.data) : v.tp # E.tp} \cup {E}
    <3>1. s.data[k].tp = E.tp
      BY <1>7, <1>1
    <3> QED BY <3>1, <2>1, <1>1, <1>2, ReplaceIs
  <2> HIDE DEF X
  <2>3. k \in DOMAIN X /\ X[k] = E
    <3>1. DOMAIN X = 1 .. Len(X)
      BY <2>2, TimedSeq
    <3> QED BY <3>1, <2>1, <2>2, <1>3
  <2>4. Parted(X, k - 1)
    BY <2>2, <1>2, <1>3, <1>4 DEF Parted
  <2>5. ASSUME NEW j \in DOMAIN X, j > k PROVE ~X[j].fact
    <3>1. j \in DOMAIN s.data /\ X[j] = s.data[j]
      <4>1. DOMAIN X = 1 .. Len(X)
        BY <2>2, TimedSeq
      <4> QED BY <4>1, <2>2, <2>5, <1>3
    <3>2. ~(s.data[j].tp < e.tp)
      BY <3>1, <2>5, <1>3, <1>4
    <3> QED BY <3>1, <3>2 DEF FactFits
  <2> DEFINE R == Erase(X, FirstSpeculation(X, k - 1), k)
  <2>6. Ordered(D, R) /\ ToSet(R) = {v \in ToSet(X) : v.fact \/ v.tp > X[k].tp}
    BY <2>2, <2>3, <2>4, <2>5, <1>1, FactErases
  <2>7. AcceptScalar(s, e) = [ok |-> TRUE, sink |-> [s EXCEPT !.data = R]]
    <3>1. AcceptScalar(s, e) = Put(s, e, X, k)
      BY <1>3, <1>4, <1>5, <1>7 DEF AcceptScalar, k, N, X, E
    <3> QED BY <3>1 DEF Put, R
  <2> HIDE DEF R
  <2>8. ASSUME NEW v PROVE v \in ToSet(R) <=> v = E \/ (v \in ToSet(s.data) /\ (v.fact \/ v.tp > e.tp))
    <3>1. v \in ToSet(s.data) /\ v.tp = e.tp => ~v.fact /\ ~(v.tp > e.tp)
      BY <1>3 DEF ToSet, FactFits
    <3> QED BY <3>1, <2>2, <2>3, <2>6, <1>1
  <2> QED BY <2>6, <2>7, <2>8 DEF E
<1>8. CASE k <= N /\ s.data[k].tp # e.tp
  <2> DEFINE X == InsertAt(s.data, k, E)
  <2>1. k \in DOMAIN s.data /\ s.data[k].tp > e.tp
    BY <1>3, <1>4, <1>8
  <2>2. \A j \in DOMAIN s.data : s.data[j].tp # E.tp /\ (j < k <=> s.data[j].tp < E.tp)
    <3> SUFFICES ASSUME NEW j \in DOMAIN s.data PROVE s.data[j].tp # e.tp
      BY <1>1, <1>4
    <3>1. j = k \/ j < k \/ s.data[k].tp < s.data[j].tp
      BY <2>1, <1>2, <1>3 DEF Timed
    <3> QED BY <3>1, <2>1, <1>3, <1>4
  <2>3. Timed(D, X)
    BY <2>2, <1>1, <1>2, <1>4, InsertIs
  <2>4. Len(X) = N + 1
    BY <2>2, <1>1, <1>2, <1>4, InsertIs
  <2>5. \A i \in 1 .. Len(X) : X[i] = IF i < k THEN s.data[i] ELSE IF i = k THEN E ELSE s.data[i - 1]
    BY <2>2, <1>1, <1>2, <1>4, InsertIs
  <2>6. ToSet(X) = ToSet(s.data) \cup {E}
    BY <2>2, <1>1, <1>2, <1>4, InsertIs
  <2> HIDE DEF X
  <2>7. DOMAIN X = 1 .. N + 1
    BY <2>3, <2>4, TimedSeq
  <2>8. k \in DOMAIN X /\ X[k] = E
    BY <2>1, <2>4, <2>5, <2>7, <1>3
  <2>9. Parted(X, k - 1)
    <3>1. \A i \in 1 .. k - 1 : X[i] = s.data[i] /\ i \in 1 .. N
      BY <2>4, <2>5, <1>3, <1>4
    <3> QED BY <3>1, <1>2 DEF Parted
  <2>10. ASSUME NEW j \in DOMAIN X, j > k PROVE ~X[j].fact
    <3>1. j - 1 \in DOMAIN s.data /\ X[j] = s.data[j - 1] /\ ~(j - 1 < k)
      BY <2>1, <2>4, <2>5, <2>7, <2>10, <1>3
    <3> QED BY <3>1, <1>4 DEF FactFits
  <2> DEFINE R == Erase(X, FirstSpeculation(X, k - 1), k)
  <2>11. Ordered(D, R) /\ ToSet(R) = {v \in ToSet(X) : v.fact \/ v.tp > X[k].tp}
    BY <2>3, <2>8, <2>9, <2>10, <1>1, FactErases
  <2>12. AcceptScalar(s, e) = [ok |-> TRUE, sink |-> [s EXCEPT !.data = R]]
    <3>1. AcceptScalar(s, e) = Put(s, e, X, k)
      BY <2>1, <1>3, <1>4, <1>5, <1>8 DEF AcceptScalar, k, N, X, E
    <3> QED BY <3>1 DEF Put, R
  <2> HIDE DEF R
  <2>13. \A v : v \in ToSet(R) <=> v = E \/ (v \in ToSet(s.data) /\ (v.fact \/ v.tp > e.tp))
    BY <2>6, <2>8, <2>11, <1>1
  <2> QED BY <2>11, <2>12, <2>13 DEF E
<1> QED BY <1>3, <1>4, <1>6, <1>7, <1>8

\* The order of the facts and guesses by their times.
FactsBefore(V) == \A v, w \in V : v.tp < w.tp /\ w.fact => v.fact

\* The order of the entries follows from what they are.
LEMMA OrderedByTimes ==
  ASSUME NEW D, NEW data, Timed(D, data)
  PROVE /\ Ordered(D, data) <=> FactsBefore(ToSet(data))
        /\ \A v, w \in ToSet(data) : v.tp = w.tp => v = w
        /\ \A v \in ToSet(data) : /\ v \in Entries(D) /\ v.tp \in Nat /\ v.data \in D
                                  /\ v.fact \in BOOLEAN /\ v.emitted \in BOOLEAN
<1>1. /\ Len(data) \in Nat
      /\ DOMAIN data = 1 .. Len(data)
      /\ \A k \in DOMAIN data : /\ data[k] \in Entries(D)
                                /\ data[k].tp \in Nat /\ data[k].data \in D
                                /\ data[k].fact \in BOOLEAN /\ data[k].emitted \in BOOLEAN
  BY TimedSeq
<1>2. \A j, k \in DOMAIN data : j < k => data[j].tp < data[k].tp
  BY DEF Timed
<1>3. ToSet(data) = {data[k] : k \in DOMAIN data}
  BY DEF ToSet
<1>4. ASSUME Ordered(D, data), NEW j \in DOMAIN data, NEW k \in DOMAIN data,
             data[j].tp < data[k].tp, data[k].fact
      PROVE data[j].fact
  <2>1. j < k
    BY <1>1, <1>2, <1>4
  <2> QED BY <2>1, <1>1, <1>4 DEF Ordered, Parted
<1>5. ASSUME FactsBefore(ToSet(data)) PROVE Ordered(D, data)
  BY <1>1, <1>2, <1>3, <1>5 DEF Ordered, Parted, FactsBefore
<1>6. ASSUME NEW j \in DOMAIN data, NEW k \in DOMAIN data, data[j].tp = data[k].tp PROVE j = k
  BY <1>1, <1>2, <1>6
<1>7. Ordered(D, data) => FactsBefore(ToSet(data))
  BY <1>3, <1>4 DEF FactsBefore
<1>8. \A v, w \in ToSet(data) : v.tp = w.tp => v = w
  BY <1>3, <1>6
<1>9. \A v \in ToSet(data) : /\ v \in Entries(D) /\ v.tp \in Nat /\ v.data \in D
                             /\ v.fact \in BOOLEAN /\ v.emitted \in BOOLEAN
  BY <1>1, <1>3
<1> QED BY <1>5, <1>7, <1>8, <1>9

\* A guess is put at its place.
LEMMA AcceptGuess ==
  ASSUME NEW D, NEW s, SinkOver(D, s), NEW e, e.tp \in Nat, e.data \in D, e.fact \in BOOLEAN, ~e.fact, GuessFits(s, e)
  PROVE \E data : /\ AcceptScalar(s, e) = [ok |-> TRUE, sink |-> [s EXCEPT !.data = data]]
                  /\ Ordered(D, data)
                  /\ \A v : v \in ToSet(data) <=> v = Entry(e) \/ (v \in ToSet(s.data) /\ v.tp # e.tp)
<1> DEFINE N == Len(s.data)
<1> DEFINE k == LowerBound(s.data, e.tp)
<1> DEFINE E == Entry(e)
<1>1. E \in Entries(D) /\ E.tp = e.tp /\ E.fact = FALSE
  BY EntryIs
<1> HIDE DEF E
<1>2. Timed(D, s.data) /\ Parted(s.data, N) /\ Ordered(D, s.data)
  BY DEF SinkOver, Ordered
<1>3. /\ N \in Nat /\ DOMAIN s.data = 1 .. N
      /\ \A i \in DOMAIN s.data : s.data[i] \in Entries(D) /\ s.data[i].tp \in Nat /\ s.data[i].fact \in BOOLEAN
  BY <1>2, TimedSeq
<1>4. k \in 1 .. N + 1 /\ \A j \in DOMAIN s.data : j < k <=> s.data[j].tp < e.tp
  <2>1. e.tp \in Int
    OBVIOUS
  <2> QED BY <2>1, <1>2, BoundSplits
<1>5. ~(s.recent # Absent /\ e.tp < s.recent.tp)
  BY DEF GuessFits, SinkOver, Remembered
<1>6. ToSet(s.data) = {s.data[i] : i \in DOMAIN s.data}
  BY DEF ToSet
<1> HIDE DEF k
<1>7. ASSUME NEW X, Timed(D, X), AcceptScalar(s, e) = Put(s, e, X, k) \/ AcceptScalar(s, e) = Put(s, e, X, Len(X) + 1),
             \A v : v \in ToSet(X) <=> v = E \/ (v \in ToSet(s.data) /\ v.tp # e.tp)
      PROVE \E data : /\ AcceptScalar(s, e) = [ok |-> TRUE, sink |-> [s EXCEPT !.data = data]]
                      /\ Ordered(D, data)
                      /\ \A v : v \in ToSet(data) <=> v = E \/ (v \in ToSet(s.data) /\ v.tp # e.tp)
  <2>1. AcceptScalar(s, e) = [ok |-> TRUE, sink |-> [s EXCEPT !.data = X]]
    BY <1>7 DEF Put
  <2>2. FactsBefore(ToSet(X))
    <3> SUFFICES ASSUME NEW v \in ToSet(X), NEW w \in ToSet(X), v.tp < w.tp, w.fact PROVE v.fact
      BY DEF FactsBefore
    <3>1. w \in ToSet(s.data) /\ w.tp < e.tp
      BY <1>1, <1>6, <1>7 DEF GuessFits
    <3>2. w.tp \in Nat
      BY <3>1, <1>3, <1>6
    <3>3. v \in ToSet(s.data)
      BY <3>1, <3>2, <1>1, <1>7
    <3>4. FactsBefore(ToSet(s.data))
      BY <1>2, OrderedByTimes
    <3> QED BY <3>1, <3>3, <3>4 DEF FactsBefore
  <2>3. Ordered(D, X)
    BY <2>2, <1>7, OrderedByTimes
  <2> QED BY <2>1, <2>3, <1>7
<1>8. CASE k > N
  <2> DEFINE X == Append(s.data, E)
  <2>1. \A i \in DOMAIN s.data : s.data[i].tp < E.tp
    BY <1>1, <1>3, <1>4, <1>8
  <2>2. Timed(D, X) /\ ToSet(X) = ToSet(s.data) \cup {E}
    BY <2>1, <1>1, <1>2, AppendIs
  <2>3. AcceptScalar(s, e) = Put(s, e, X, Len(X) + 1)
    <3>1. LowerBound(s.data, e.tp) > Len(s.data)
      BY <1>8 DEF k
    <3>2. AcceptScalar(s, e) = Put(s, e, Append(s.data, Entry(e)), Len(Append(s.data, Entry(e))) + 1)
      BY <3>1, <1>5 DEF AcceptScalar
    <3> QED BY <3>2 DEF X, E
  <2> HIDE DEF X
  <2>4. \A v : v \in ToSet(X) <=> v = E \/ (v \in ToSet(s.data) /\ v.tp # e.tp)
    <3>1. \A v \in ToSet(s.data) : v.tp # e.tp
      BY <2>1, <1>1, <1>3, <1>6
    <3> QED BY <3>1, <2>2
  <2> QED BY <2>2, <2>3, <2>4, <1>7 DEF E
<1>9. CASE k <= N /\ s.data[k].tp = e.tp
  <2> DEFINE X == [s.data EXCEPT ![k] = E]
  <2>1. k \in DOMAIN s.data /\ s.data[k].tp = E.tp
    BY <1>1, <1>3, <1>4, <1>9
  <2>2. Timed(D, X) /\ ToSet(X) = {v \in ToSet(s.data) : v.tp # E.tp} \cup {E}
    BY <2>1, <1>1, <1>2, ReplaceIs
  <2>3. AcceptScalar(s, e) = Put(s, e, X, k)
    BY <1>3, <1>4, <1>5, <1>9 DEF AcceptScalar, k, N, X, E
  <2> HIDE DEF X
  <2>4. \A v : v \in ToSet(X) <=> v = E \/ (v \in ToSet(s.data) /\ v.tp # e.tp)
    BY <2>2, <1>1
  <2> QED BY <2>2, <2>3, <2>4, <1>7 DEF E
<1>10. CASE k <= N /\ s.data[k].tp # e.tp
  <2> DEFINE X == InsertAt(s.data, k, E)
  <2>1. k \in DOMAIN s.data /\ s.data[k].tp > e.tp /\ ~s.data[k].fact
    <3>1. k \in DOMAIN s.data /\ s.data[k].tp > e.tp
      BY <1>3, <1>4, <1>10
    <3> QED BY <3>1, <1>3 DEF GuessFits
  <2>2. \A j \in DOMAIN s.data : s.data[j].tp # E.tp /\ (j < k <=> s.data[j].tp < E.tp)
    <3> SUFFICES ASSUME NEW j \in DOMAIN s.data PROVE s.data[j].tp # e.tp
      BY <1>1, <1>4
    <3>1. j = k \/ j < k \/ s.data[k].tp < s.data[j].tp
      BY <2>1, <1>2, <1>3 DEF Timed
    <3> QED BY <3>1, <2>1, <1>3, <1>4
  <2>3. Timed(D, X)
    BY <2>2, <1>1, <1>2, <1>4, InsertIs
  <2>4. ToSet(X) = ToSet(s.data) \cup {E}
    BY <2>2, <1>1, <1>2, <1>4, InsertIs
  <2>5. AcceptScalar(s, e) = Put(s, e, X, k)
    BY <2>1, <1>3, <1>4, <1>5, <1>10 DEF AcceptScalar, k, N, X, E
  <2> HIDE DEF X
  <2>6. \A v : v \in ToSet(X) <=> v = E \/ (v \in ToSet(s.data) /\ v.tp # e.tp)
    <3>1. \A v \in ToSet(s.data) : v.tp # e.tp
      BY <2>2, <1>1, <1>6
    <3> QED BY <3>1, <2>4
  <2> QED BY <2>3, <2>5, <2>6, <1>7 DEF E
<1> QED BY <1>3, <1>4, <1>8, <1>9, <1>10 DEF E

\* The guesses before tp are dropped.
LEMMA DropIs ==
  ASSUME NEW D, NEW s, SinkOver(D, s), NEW tp \in Nat
  PROVE \E data : /\ DropSpeculativeBefore(s, tp) = [s EXCEPT !.data = data]
                  /\ Ordered(D, data)
                  /\ \A v : v \in ToSet(data) <=> v \in ToSet(s.data) /\ (v.fact \/ v.tp >= tp)
<1> DEFINE N == Len(s.data)
<1> DEFINE b == LowerBound(s.data, tp)
<1>1. Timed(D, s.data) /\ Parted(s.data, N) /\ Ordered(D, s.data)
  BY DEF SinkOver, Ordered
<1>2. /\ N \in Nat /\ DOMAIN s.data = 1 .. N
      /\ \A i \in DOMAIN s.data : s.data[i] \in Entries(D) /\ s.data[i].tp \in Nat /\ s.data[i].fact \in BOOLEAN
  BY <1>1, TimedSeq
<1>3. b \in 1 .. N + 1 /\ \A j \in DOMAIN s.data : j < b <=> s.data[j].tp < tp
  <2>1. tp \in Int
    OBVIOUS
  <2> QED BY <2>1, <1>1, BoundSplits
<1>4. ToSet(s.data) = {s.data[i] : i \in DOMAIN s.data}
  BY DEF ToSet
<1> HIDE DEF b
<1>5. CASE b <= N /\ s.data[b].fact
  <2>1. DropSpeculativeBefore(s, tp) = s
    BY <1>5 DEF DropSpeculativeBefore, b, N
  <2>2. [s EXCEPT !.data = s.data] = s
    BY DEF SinkOver
  <2>3. \A i \in DOMAIN s.data : s.data[i].fact \/ s.data[i].tp >= tp
    <3> SUFFICES ASSUME NEW i \in DOMAIN s.data, i < b PROVE s.data[i].fact
      BY <1>2, <1>3
    <3> QED BY <1>1, <1>2, <1>3, <1>5 DEF Parted
  <2>4. \A v \in ToSet(s.data) : v.fact \/ v.tp >= tp
    BY <2>3, <1>4
  <2> QED BY <2>1, <2>2, <2>4, <1>1
<1>6. CASE ~(b <= N /\ s.data[b].fact)
  <2> DEFINE f == FirstSpeculation(s.data, b - 1)
  <2> DEFINE R == Erase(s.data, f, b)
  <2>1. DropSpeculativeBefore(s, tp) = [s EXCEPT !.data = R]
    BY <1>6 DEF DropSpeculativeBefore, b, N
  <2>2. b - 1 \in Nat /\ Parted(s.data, b - 1) /\ \A i \in 1 .. b - 1 : s.data[i].fact \in BOOLEAN
    <3>1. b - 1 \in Nat /\ \A i \in 1 .. b - 1 : i \in 1 .. N
      BY <1>2, <1>3
    <3> QED BY <3>1, <1>1, <1>2 DEF Parted
  <2>3. f \in 1 .. (b - 1) + 1 /\ \A i \in 1 .. b - 1 : s.data[i].fact <=> i < f
    BY <2>2, SearchFinds
  <2> HIDE DEF f
  <2>4. f \in 1 .. N + 1 /\ b \in f .. N + 1
    BY <2>3, <1>2, <1>3
  <2>5. Timed(D, R)
    BY <2>4, <1>1, EraseIs
  <2>6. \A v : v \in ToSet(R) <=> \E j \in DOMAIN s.data : (j < f \/ j >= b) /\ v = s.data[j]
    BY <2>4, <1>1, EraseIs
  <2> HIDE DEF R
  <2>7. ASSUME NEW j \in DOMAIN s.data
        PROVE (j < f \/ j >= b) <=> (s.data[j].fact \/ s.data[j].tp >= tp)
    <3>1. CASE j < b
      <4>1. j \in 1 .. b - 1
        BY <3>1, <1>2, <1>3
      <4> QED BY <4>1, <3>1, <2>3, <1>2, <1>3
    <3>2. CASE j >= b
      BY <3>2, <1>2, <1>3
    <3> QED BY <3>1, <3>2, <1>2, <1>3
  <2>8. \A v : v \in ToSet(R) <=> v \in ToSet(s.data) /\ (v.fact \/ v.tp >= tp)
    <3> SUFFICES ASSUME NEW v PROVE v \in ToSet(R) <=> v \in ToSet(s.data) /\ (v.fact \/ v.tp >= tp)
      OBVIOUS
    <3>1. v \in ToSet(s.data) <=> \E j \in DOMAIN s.data : v = s.data[j]
      BY <1>4
    <3>2. ASSUME v \in ToSet(R) PROVE v \in ToSet(s.data) /\ (v.fact \/ v.tp >= tp)
      <4>1. PICK j \in DOMAIN s.data : (j < f \/ j >= b) /\ v = s.data[j]
        BY <2>6, <3>2
      <4> QED BY <4>1, <2>7, <3>1
    <3>3. ASSUME v \in ToSet(s.data), v.fact \/ v.tp >= tp PROVE v \in ToSet(R)
      <4>1. PICK j \in DOMAIN s.data : v = s.data[j]
        BY <3>1, <3>3
      <4>2. j < f \/ j >= b
        BY <4>1, <2>7, <3>3
      <4> QED BY <4>1, <4>2, <2>6
    <3> QED BY <3>2, <3>3
  <2>9. FactsBefore(ToSet(R))
    <3>1. FactsBefore(ToSet(s.data))
      BY <1>1, OrderedByTimes
    <3> QED BY <3>1, <2>8 DEF FactsBefore
  <2>10. Ordered(D, R)
    BY <2>5, <2>9, OrderedByTimes
  <2> QED BY <2>1, <2>8, <2>10
<1> QED BY <1>5, <1>6

(* ------------------------ a scalar sink drops ------------------------ *)

\* The entries on both sides of a lower bound.
LEMMA BoundNone ==
  ASSUME NEW D, NEW data, Timed(D, data), NEW tp \in Int, LowerBound(data, tp) > Len(data)
  PROVE \A v \in ToSet(data) : v.tp < tp
<1>1. /\ LowerBound(data, tp) \in 1 .. Len(data) + 1
      /\ \A j \in DOMAIN data : j < LowerBound(data, tp) <=> data[j].tp < tp
  BY BoundSplits
<1>2. Len(data) \in Nat /\ DOMAIN data = 1 .. Len(data)
  BY TimedSeq
<1>3. \A j \in DOMAIN data : j < LowerBound(data, tp)
  BY <1>1, <1>2
<1> QED BY <1>1, <1>3 DEF ToSet

\* The entry at the bound is the first one at or after tp.
LEMMA BoundSome ==
  ASSUME NEW D, NEW data, Timed(D, data), NEW tp \in Int, NEW k, k = LowerBound(data, tp), k <= Len(data)
  PROVE /\ k \in DOMAIN data /\ data[k] \in ToSet(data) /\ data[k].tp >= tp
        /\ \A w \in ToSet(data) : w.tp >= tp => data[k].tp <= w.tp
<1>1. k \in 1 .. Len(data) + 1 /\ \A j \in DOMAIN data : j < k <=> data[j].tp < tp
  BY BoundSplits
<1>2. /\ Len(data) \in Nat /\ DOMAIN data = 1 .. Len(data)
      /\ \A j \in DOMAIN data : data[j].tp \in Nat
  BY TimedSeq
<1>3. k \in DOMAIN data /\ data[k].tp >= tp
  BY <1>1, <1>2
<1>4. ASSUME NEW j \in DOMAIN data, data[j].tp >= tp PROVE data[k].tp <= data[j].tp
  <2>1. k = j \/ k < j
    BY <1>1, <1>2, <1>3, <1>4
  <2> QED BY <2>1, <1>2, <1>3 DEF Timed
<1> QED BY <1>3, <1>4 DEF ToSet

\* The entry before the bound is the last one before tp.
LEMMA BoundBefore ==
  ASSUME NEW D, NEW data, Timed(D, data), NEW tp \in Int, NEW k, k = LowerBound(data, tp)
  PROVE /\ k = 1 => \A w \in ToSet(data) : w.tp >= tp
        /\ k # 1 => /\ k - 1 \in DOMAIN data /\ data[k - 1] \in ToSet(data) /\ data[k - 1].tp < tp
                    /\ \A w \in ToSet(data) : w.tp < tp => w.tp <= data[k - 1].tp
<1>1. k \in 1 .. Len(data) + 1 /\ \A j \in DOMAIN data : j < k <=> data[j].tp < tp
  BY BoundSplits
<1>2. /\ Len(data) \in Nat /\ DOMAIN data = 1 .. Len(data)
      /\ \A j \in DOMAIN data : data[j].tp \in Nat
  BY TimedSeq
<1>3. ASSUME k = 1, NEW j \in DOMAIN data PROVE data[j].tp >= tp
  BY <1>1, <1>2, <1>3
<1>4. ASSUME k # 1
      PROVE /\ k - 1 \in DOMAIN data /\ data[k - 1].tp < tp
            /\ \A j \in DOMAIN data : data[j].tp < tp => data[j].tp <= data[k - 1].tp
  <2>1. k - 1 \in DOMAIN data /\ data[k - 1].tp < tp
    BY <1>1, <1>2, <1>4
  <2>2. ASSUME NEW j \in DOMAIN data, data[j].tp < tp PROVE data[j].tp <= data[k - 1].tp
    <3>1. j = k - 1 \/ j < k - 1
      BY <2>2, <1>1, <1>2
    <3> QED BY <3>1, <2>1, <1>2 DEF Timed
  <2> QED BY <2>1, <2>2
<1> QED BY <1>3, <1>4 DEF ToSet

\* What is left after a time.
LEMMA RestIs ==
  ASSUME NEW D, NEW data, Ordered(D, data), NEW keep \in 1 .. Len(data) + 1
  PROVE /\ Ordered(D, SubSeq(data, keep, Len(data)))
        /\ \A v : v \in ToSet(SubSeq(data, keep, Len(data))) <=>
                    \E j \in DOMAIN data : j >= keep /\ v = data[j]
<1>0. Timed(D, data) /\ Len(data) \in Nat /\ data \in Seq(Entries(D))
  BY TimedSeq DEF Ordered, Timed
<1>1. 1 \in 1 .. Len(data) + 1 /\ keep \in 1 .. Len(data) + 1
  BY <1>0
<1> DEFINE R == Erase(data, 1, keep)
<1>2. Timed(D, R)
  BY <1>0, <1>1, EraseIs
<1>3. \A v : v \in ToSet(R) <=> \E j \in DOMAIN data : (j < 1 \/ j >= keep) /\ v = data[j]
  BY <1>0, <1>1, EraseIs
<1>4. R = SubSeq(data, keep, Len(data))
  <2>1. SubSeq(data, 1, 0) = << >>
    BY SubSeqEmpty
  <2>2. SubSeq(data, keep, Len(data)) \in Seq(Entries(D))
    <3>1. \A i \in keep .. Len(data) : data[i] \in Entries(D)
      BY <1>0, <1>1, TimedSeq
    <3> QED BY <3>1, <1>0, SubSeqProperties
  <2>3. << >> \o SubSeq(data, keep, Len(data)) = SubSeq(data, keep, Len(data))
    BY <2>2, ConcatEmptySeq
  <2> QED BY <2>1, <2>3 DEF Erase
<1> HIDE DEF R
<1>5. DOMAIN data = 1 .. Len(data)
  BY <1>0, TimedSeq
<1>6. \A v : v \in ToSet(R) <=> \E j \in DOMAIN data : j >= keep /\ v = data[j]
  BY <1>3, <1>5
<1>7. FactsBefore(ToSet(R))
  <2>1. FactsBefore(ToSet(data))
    BY <1>0, OrderedByTimes
  <2>2. \A v : v \in ToSet(R) => v \in ToSet(data)
    BY <1>6 DEF ToSet
  <2> QED BY <2>1, <2>2 DEF FactsBefore
<1>8. Ordered(D, R)
  BY <1>2, <1>7, OrderedByTimes
<1> QED BY <1>4, <1>6, <1>8

\* What the facts up to tp leave for interpolation, none being before what
\* was remembered.
Leaves(s, tp, expire, recent) ==
  LET F == {v \in ToSet(s.data) : v.fact /\ v.tp <= tp}
  IN IF recent = Absent
     THEN /\ \A w \in F : w.tp < expire
          /\ s.recent = Absent \/ s.recent.tp < expire
     ELSE /\ recent.tp >= expire
          /\ \/ recent = s.recent /\ F = {}
             \/ \E v \in F : /\ recent = [tp |-> v.tp, data |-> v.data]
                             /\ \A w \in F : w.tp <= v.tp

\* What is left when everything up to tp is dropped.
LEMMA ForwardIs ==
  ASSUME NEW D, NEW s, SinkOver(D, s), NEW tp \in Int, NEW expire \in Int,
         s.recent # Absent => \A v \in ToSet(s.data) : s.recent.tp < v.tp
  PROVE \E data, recent :
          /\ ForwardScalar(s, tp, expire) = [data |-> data, recent |-> recent]
          /\ Ordered(D, data)
          /\ recent \in Remembered(D)
          /\ \A v : v \in ToSet(data) <=> v \in ToSet(s.data) /\ v.tp > tp
          /\ Leaves(s, tp, expire, recent)
<1> DEFINE N == Len(s.data)
<1> DEFINE recent0 == IF s.recent # Absent /\ s.recent.tp < expire THEN Absent ELSE s.recent
<1> DEFINE b == LowerBound(s.data, tp)
<1> DEFINE keep == IF b <= N /\ s.data[b].tp = tp THEN b + 1 ELSE b
<1> DEFINE first == FirstSpeculation(s.data, keep - 1)
<1> DEFINE saved == first > 1 /\ s.data[first - 1].tp >= expire
<1> DEFINE recent == IF saved THEN [tp |-> s.data[first - 1].tp, data |-> s.data[first - 1].data] ELSE recent0
<1> DEFINE data == SubSeq(s.data, keep, N)
<1>1. Timed(D, s.data) /\ Parted(s.data, N) /\ Ordered(D, s.data) /\ s.recent \in Remembered(D)
  BY DEF SinkOver, Ordered
<1>2. /\ N \in Nat /\ DOMAIN s.data = 1 .. N
      /\ \A i \in DOMAIN s.data : /\ s.data[i] \in Entries(D) /\ s.data[i].tp \in Nat
                                  /\ s.data[i].data \in D /\ s.data[i].fact \in BOOLEAN
  BY <1>1, TimedSeq
<1>3. b \in 1 .. N + 1 /\ \A j \in DOMAIN s.data : j < b <=> s.data[j].tp < tp
  BY <1>1, BoundSplits
<1>4. ToSet(s.data) = {s.data[i] : i \in DOMAIN s.data}
  BY DEF ToSet
<1>0. ForwardScalar(s, tp, expire) = [data |-> data, recent |-> recent]
  BY DEF ForwardScalar
<1> HIDE DEF b
<1>5. keep \in 1 .. N + 1 /\ \A j \in DOMAIN s.data : j >= keep <=> s.data[j].tp > tp
  <2>1. CASE b <= N /\ s.data[b].tp = tp
    <3>1. keep = b + 1 /\ b \in DOMAIN s.data
      BY <2>1, <1>2, <1>3
    <3>2. \A j \in DOMAIN s.data : j > b => s.data[j].tp > tp
      BY <2>1, <3>1, <1>1 DEF Timed
    <3> QED BY <3>1, <3>2, <2>1, <1>2, <1>3
  <2>2. CASE ~(b <= N /\ s.data[b].tp = tp)
    <3>1. keep = b
      BY <2>2
    <3>2. ASSUME NEW j \in DOMAIN s.data, j >= b PROVE s.data[j].tp > tp
      <4>1. b \in DOMAIN s.data /\ s.data[b].tp > tp
        BY <2>2, <3>2, <1>2, <1>3
      <4>2. j = b \/ s.data[b].tp < s.data[j].tp
        BY <4>1, <3>2, <1>1, <1>2 DEF Timed
      <4> QED BY <4>1, <4>2, <3>2, <1>2
    <3> QED BY <3>1, <3>2, <1>2, <1>3
  <2> QED BY <2>1, <2>2
<1> HIDE DEF keep
<1>6. first \in 1 .. (keep - 1) + 1 /\ \A i \in 1 .. keep - 1 : s.data[i].fact <=> i < first
  <2>1. keep - 1 \in Nat /\ Parted(s.data, keep - 1) /\ \A i \in 1 .. keep - 1 : s.data[i].fact \in BOOLEAN
    BY <1>1, <1>2, <1>5 DEF Parted
  <2> QED BY <2>1, SearchFinds
<1> HIDE DEF first
<1>7. Ordered(D, data)
  BY <1>1, <1>5, RestIs
<1>8. \A v : v \in ToSet(data) <=> \E j \in DOMAIN s.data : j >= keep /\ v = s.data[j]
  BY <1>1, <1>5, RestIs
<1> HIDE DEF data
<1>9. \A v : v \in ToSet(data) <=> v \in ToSet(s.data) /\ v.tp > tp
  <2> SUFFICES ASSUME NEW v PROVE v \in ToSet(data) <=> v \in ToSet(s.data) /\ v.tp > tp
    OBVIOUS
  <2>1. v \in ToSet(s.data) <=> \E j \in DOMAIN s.data : v = s.data[j]
    BY <1>4
  <2> QED BY <2>1, <1>5, <1>8
<1> DEFINE F == {v \in ToSet(s.data) : v.fact /\ v.tp <= tp}
<1>10. \A v : v \in F <=> \E j \in 1 .. first - 1 : v = s.data[j]
  <2>1. ASSUME NEW j \in DOMAIN s.data PROVE (s.data[j].fact /\ s.data[j].tp <= tp) <=> j < first
    <3>1. CASE j >= keep
      BY <3>1, <1>2, <1>5, <1>6
    <3>2. CASE j < keep
      <4>1. j \in 1 .. keep - 1
        BY <3>2, <1>2, <1>5
      <4> QED BY <4>1, <3>2, <1>2, <1>5, <1>6
    <3> QED BY <3>1, <3>2, <1>2, <1>5
  <2>2. \A j : j \in 1 .. first - 1 <=> j \in DOMAIN s.data /\ j < first
    BY <1>2, <1>5, <1>6
  <2> SUFFICES ASSUME NEW v PROVE v \in F <=> \E j \in 1 .. first - 1 : v = s.data[j]
    OBVIOUS
  <2>3. v \in ToSet(s.data) <=> \E j \in DOMAIN s.data : v = s.data[j]
    BY <1>4
  <2> QED BY <2>1, <2>2, <2>3
<1> HIDE DEF F
<1>11. CASE first = 1
  <2>1. F = {} /\ ~saved
    BY <1>10, <1>11
  <2>2. recent = recent0
    BY <2>1
  <2>3. recent \in Remembered(D) /\ Leaves(s, tp, expire, recent)
    BY <2>1, <2>2, <1>1 DEF Leaves, Remembered, F
  <2> QED BY <2>3, <1>0, <1>7, <1>9
<1>12. CASE first # 1
  <2> DEFINE v == s.data[first - 1]
  <2>1. first - 1 \in 1 .. first - 1 /\ first - 1 \in DOMAIN s.data
    BY <1>2, <1>5, <1>6, <1>12
  <2>2. v \in F /\ v \in ToSet(s.data) /\ v.tp \in Nat /\ v.data \in D
    BY <2>1, <1>2, <1>4, <1>10
  <2>3. \A w \in F : w.tp <= v.tp
    <3> SUFFICES ASSUME NEW j \in 1 .. first - 1 PROVE s.data[j].tp <= v.tp
      BY <1>10
    <3>1. j \in DOMAIN s.data /\ (j = first - 1 \/ j < first - 1)
      BY <1>2, <1>5, <1>6
    <3> QED BY <3>1, <2>1, <1>1, <1>2 DEF Timed
  <2> HIDE DEF v
  <2>4. saved <=> v.tp >= expire
    BY <2>1, <1>6, <1>12 DEF v
  <2>5. CASE v.tp >= expire
    <3> DEFINE r == [tp |-> v.tp, data |-> v.data]
    <3>1. recent = r
      BY <2>4, <2>5 DEF v
    <3>2. r \in Remembered(D) /\ r # Absent /\ r.tp = v.tp
      BY <2>2 DEF Remembered, Absent
    <3>3. Leaves(s, tp, expire, r)
      BY <3>2, <2>2, <2>3, <2>5 DEF Leaves, F
    <3> QED BY <3>1, <3>2, <3>3, <1>0, <1>7, <1>9
  <2>6. CASE v.tp < expire
    <3>1. recent = recent0
      BY <2>2, <2>4, <2>6
    <3>2. s.recent # Absent => s.recent.tp < expire
      BY <2>2, <2>6, <1>1 DEF Remembered
    <3>3. recent = Absent
      BY <3>1, <3>2
    <3>4. \A w \in F : w.tp < expire
      <4>1. \A w \in F : w.tp \in Nat
        BY <1>1, OrderedByTimes DEF F
      <4> QED BY <4>1, <2>2, <2>3, <2>6
    <3>5. Leaves(s, tp, expire, recent) /\ recent \in Remembered(D)
      BY <3>2, <3>3, <3>4 DEF Leaves, F, Remembered
    <3> QED BY <3>5, <1>0, <1>7, <1>9
  <2> QED BY <2>2, <2>5, <2>6
<1> QED BY <1>11, <1>12

(* ------------------- a scalar sink and its stream -------------------- *)

\* Entries that differ at most in having been emitted.
Alike(V, W) == \A v \in V : \E w \in W : v.tp = w.tp /\ v.fact = w.fact /\ v.data = w.data

\* A sequence without elements.
LEMMA NoEntries ==
  ASSUME NEW D, NEW data, Timed(D, data)
  PROVE data = << >> <=> ToSet(data) = {}
<1>1. data \in Seq(Entries(D)) /\ Len(data) \in Nat /\ DOMAIN data = 1 .. Len(data)
  BY TimedSeq DEF Timed
<1>2. ASSUME data = << >> PROVE ToSet(data) = {}
  BY <1>2 DEF ToSet
<1>3. ASSUME data # << >> PROVE ToSet(data) # {}
  <2>1. Len(data) \in Nat \ {0}
    BY <1>1, <1>3, EmptySeq
  <2>2. 1 \in DOMAIN data
    BY <2>1, <1>1
  <2> QED BY <2>2 DEF ToSet
<1> QED BY <1>2, <1>3

\* To mark an entry changes neither times nor values.
LEMMA MarkIs ==
  ASSUME NEW D, NEW s, SinkOver(D, s), NEW tp
  PROVE \E data : /\ MarkScalar(s, tp) = [s EXCEPT !.data = data]
                  /\ Ordered(D, data)
                  /\ Alike(ToSet(data), ToSet(s.data)) /\ Alike(ToSet(s.data), ToSet(data))
<1> DEFINE X == [k \in DOMAIN s.data |->
      IF s.data[k].tp = tp THEN [s.data[k] EXCEPT !.emitted = TRUE] ELSE s.data[k]]
<1>1. MarkScalar(s, tp) = [s EXCEPT !.data = X]
  BY DEF MarkScalar
<1>2. Timed(D, s.data) /\ Parted(s.data, Len(s.data)) /\ s.data \in Seq(Entries(D))
  BY DEF SinkOver, Ordered, Timed
<1>3. /\ Len(s.data) \in Nat /\ DOMAIN s.data = 1 .. Len(s.data)
      /\ \A i \in DOMAIN s.data : s.data[i] \in Entries(D)
  BY <1>2, TimedSeq
<1>4. ASSUME NEW v \in Entries(D)
      PROVE LET w == [v EXCEPT !.emitted = TRUE]
            IN w \in Entries(D) /\ w.tp = v.tp /\ w.fact = v.fact /\ w.data = v.data
  BY EntryParts DEF Entries
<1>5. \A k \in DOMAIN s.data : /\ X[k] \in Entries(D) /\ X[k].tp = s.data[k].tp
                               /\ X[k].fact = s.data[k].fact /\ X[k].data = s.data[k].data
  BY <1>3, <1>4
<1>6. X \in Seq(Entries(D)) /\ Len(X) = Len(s.data) /\ DOMAIN X = DOMAIN s.data
  <2>1. X \in [1 .. Len(s.data) -> Entries(D)]
    BY <1>3, <1>5
  <2> QED BY <2>1, <1>3
<1> HIDE DEF X
<1>7. Ordered(D, X)
  BY <1>2, <1>3, <1>5, <1>6 DEF Ordered, Timed, Parted
<1>8. Alike(ToSet(X), ToSet(s.data)) /\ Alike(ToSet(s.data), ToSet(X))
  BY <1>5, <1>6 DEF Alike, ToSet
<1> QED BY <1>1, <1>7, <1>8

\* A sink suggests times of its entries, and a factual one if it has any.
LEMMA SuggestIs ==
  ASSUME NEW D, NEW s, SinkOver(D, s)
  PROVE /\ SuggestScalar(s).speculative = NoTime
           \/ \E v \in ToSet(s.data) : v.tp = SuggestScalar(s).speculative
        /\ IF ToSet(s.data) = {} THEN SuggestScalar(s).factual = NoTime
           ELSE \E v \in ToSet(s.data) : v.tp = SuggestScalar(s).factual
<1> DEFINE N == Len(s.data)
<1> DEFINE fresh == {k \in DOMAIN s.data : ~s.data[k].emitted}
<1>1. Timed(D, s.data)
  BY DEF SinkOver, Ordered
<1>2. /\ N \in Nat /\ DOMAIN s.data = 1 .. N
      /\ \A i \in DOMAIN s.data : s.data[i].tp \in Nat
  BY <1>1, TimedSeq
<1>3. s.data = << >> <=> ToSet(s.data) = {}
  BY <1>1, NoEntries
<1>4. CASE s.data = << >>
  BY <1>3, <1>4 DEF SuggestScalar, NoSelector, Selector
<1>5. CASE s.data # << >>
  <2>1. 1 \in DOMAIN s.data
    <3>1. \E v : v \in ToSet(s.data)
      BY <1>3, <1>5
    <3>2. \E k : k \in DOMAIN s.data
      BY <3>1 DEF ToSet
    <3> QED BY <3>2, <1>2
  <2>2. fresh # {} => Least(fresh) \in fresh
    <3>1. fresh \in SUBSET (0 .. N)
      BY <1>2
    <3> HIDE DEF fresh
    <3> QED BY <3>1, <1>2, LeastIs
  <2>3. SuggestScalar(s) = [speculative |-> IF fresh = {} THEN NoTime ELSE s.data[Least(fresh)].tp,
                            factual |-> s.data[1].tp]
    BY <1>5 DEF SuggestScalar, Selector
  <2>4. s.data[1] \in ToSet(s.data)
    BY <2>1 DEF ToSet
  <2>5. fresh # {} => s.data[Least(fresh)] \in ToSet(s.data)
    BY <2>2 DEF ToSet
  <2> HIDE DEF fresh
  <2> QED BY <2>3, <2>4, <2>5
<1> QED BY <1>4, <1>5

\* A stream as one tag set sees it: what is not here speaks of others.
Streaming(q, N) ==
  /\ N \in Nat /\ DOMAIN q = 1 .. N
  /\ \A k \in 1 .. N : /\ q[k].tp \in Nat /\ q[k].fact \in BOOLEAN /\ q[k].here \in BOOLEAN
                       /\ q[k].here => q[k].data # Absent
  /\ \A j, k \in 1 .. N : j < k /\ q[j].fact => q[j].tp < q[k].tp
  /\ \A j, k \in 1 .. N : j < k /\ ~q[j].fact /\ q[j].here /\ q[k].fact =>
       /\ q[j].tp = q[k].tp => q[k].here
       /\ q[j].tp < q[k].tp /\ q[k].here =>
            \E m \in 1 .. k - 1 : IF q[m].fact THEN m > j /\ q[j].tp <= q[m].tp
                                 ELSE q[m].here /\ q[k].tp <= q[m].tp
Values(q) == {q[k].data : k \in DOMAIN q}

\* A fact at or after tp was read; k is a fact that speaks of the tag set.
Passed(q, n, tp) == \E k \in 1 .. n : q[k].fact /\ tp <= q[k].tp
FactHere(q, k) == q[k].fact /\ q[k].here
GuessHere(q, k) == ~q[k].fact /\ q[k].here

\* What a sink knows that has read n emissions and dropped everything up to c.
HasFacts(V, q, n, c) ==
  /\ \A v \in V : v.fact => /\ v.tp > c
                            /\ \E k \in 1 .. n : FactHere(q, k) /\ q[k].tp = v.tp /\ q[k].data = v.data
  /\ \A k \in 1 .. n : FactHere(q, k) /\ q[k].tp > c => \E v \in V : v.fact /\ v.tp = q[k].tp
HasGuesses(V, q, N, n, c) ==
  /\ \A v \in V : ~v.fact => /\ v.tp > c /\ ~Passed(q, n, v.tp)
                             /\ \E k \in 1 .. n : GuessHere(q, k) /\ q[k].tp = v.tp
  /\ n < N => \A k \in 1 .. n : GuessHere(q, k) /\ ~Passed(q, n, q[k].tp) => \E v \in V : v.tp = q[k].tp
HasRecent(recent, q, n, c) ==
  IF recent = Absent
  THEN \A k \in 1 .. n : FactHere(q, k) /\ q[k].tp <= c => q[k].tp < c - Slack
  ELSE /\ recent.tp <= c
       /\ \E k \in 1 .. n : FactHere(q, k) /\ q[k].tp = recent.tp /\ q[k].data = recent.data
       /\ \A k \in 1 .. n : FactHere(q, k) /\ q[k].tp <= c => q[k].tp <= recent.tp
Tracks(s, q, N, n, c) ==
  /\ SinkOver(Values(q), s)
  /\ HasFacts(ToSet(s.data), q, n, c)
  /\ HasGuesses(ToSet(s.data), q, N, n, c)
  /\ HasRecent(s.recent, q, n, c)

\* What is remembered comes before what is there.
LEMMA RecentBefore ==
  ASSUME NEW s, NEW q, NEW N, NEW n, NEW c \in Int, Tracks(s, q, N, n, c)
  PROVE s.recent # Absent => s.recent.tp <= c /\ \A v \in ToSet(s.data) : s.recent.tp < v.tp
<1>1. ASSUME s.recent # Absent, NEW v \in ToSet(s.data) PROVE s.recent.tp < v.tp
  <2>1. s.recent.tp <= c /\ s.recent.tp \in Nat
    BY <1>1 DEF Tracks, HasRecent, SinkOver, Remembered
  <2>2. v.tp > c
    BY DEF Tracks, HasFacts, HasGuesses
  <2>3. v.tp \in Nat
    BY OrderedByTimes DEF Tracks, SinkOver, Ordered
  <2> QED BY <2>1, <2>2, <2>3
<1>2. s.recent # Absent => s.recent.tp <= c
  BY DEF Tracks, HasRecent
<1> QED BY <1>1, <1>2

\* A new sink.
LEMMA TracksNothing ==
  ASSUME NEW q, NEW N, Streaming(q, N)
  PROVE Tracks(EmptySink, q, N, 0, -1)
<1>1. Timed(Values(q), << >>)
  BY DEF Timed
<1>2. ToSet(<< >>) = {}
  BY DEF ToSet
<1>3. Ordered(Values(q), << >>)
  BY <1>1, <1>2, OrderedByTimes DEF FactsBefore
<1>4. 1 .. 0 = {}
  OBVIOUS
<1> QED BY <1>2, <1>3, <1>4 DEF Tracks, SinkOver, Remembered, EmptySink, HasFacts, HasGuesses, HasRecent

\* The entries of a sink, typed.
LEMMA TracksTyped ==
  ASSUME NEW s, NEW q, NEW N, NEW n, NEW c, Tracks(s, q, N, n, c)
  PROVE /\ SinkOver(Values(q), s) /\ Ordered(Values(q), s.data) /\ Timed(Values(q), s.data)
        /\ s.recent \in Remembered(Values(q))
        /\ \A v \in ToSet(s.data) : /\ v \in Entries(Values(q)) /\ v.tp \in Nat /\ v.data \in Values(q)
                                    /\ v.fact \in BOOLEAN /\ v.emitted \in BOOLEAN
<1>1. SinkOver(Values(q), s) /\ Ordered(Values(q), s.data) /\ Timed(Values(q), s.data) /\ s.recent \in Remembered(Values(q))
  BY DEF Tracks, SinkOver, Ordered
<1> QED BY <1>1, OrderedByTimes

\* What was passed stays passed, and one more guess passes nothing.
LEMMA PassedGrows ==
  ASSUME NEW q, NEW N, Streaming(q, N), NEW n \in Nat, n < N, NEW tp \in Int
  PROVE /\ Passed(q, n, tp) => Passed(q, n + 1, tp)
        /\ Passed(q, n + 1, tp) <=> Passed(q, n, tp) \/ (q[n + 1].fact /\ tp <= q[n + 1].tp)
<1>1. 1 .. n + 1 = (1 .. n) \cup {n + 1}
  OBVIOUS
<1> QED BY <1>1 DEF Passed

\* The facts read so far are before the next emission.
LEMMA NextIsLater ==
  ASSUME NEW q, NEW N, Streaming(q, N), NEW n \in Nat, n < N
  PROVE /\ n + 1 \in 1 .. N
        /\ \A k \in 1 .. n : k \in 1 .. N /\ (q[k].fact => q[k].tp < q[n + 1].tp)
        /\ \A tp \in Int : Passed(q, n, tp) => tp < q[n + 1].tp
        /\ q[n + 1].tp \in Nat /\ q[n + 1].data \in Values(q)
<1>1. N \in Nat /\ DOMAIN q = 1 .. N /\ n + 1 \in 1 .. N
  BY DEF Streaming
<1>2. \A k \in 1 .. n : k \in 1 .. N /\ k < n + 1
  BY <1>1
<1>3. \A k \in 1 .. n : q[k].fact => q[k].tp < q[n + 1].tp
  BY <1>1, <1>2 DEF Streaming
<1>4. \A k \in 1 .. N : q[k].tp \in Nat
  BY DEF Streaming
<1>5. \A tp \in Int : Passed(q, n, tp) => tp < q[n + 1].tp
  BY <1>1, <1>2, <1>3, <1>4 DEF Passed
<1> QED BY <1>1, <1>2, <1>3, <1>4, <1>5 DEF Values

\* What is remembered stays so when more is read.
LEMMA RecentStays ==
  ASSUME NEW q, NEW N, Streaming(q, N), NEW n \in Nat, n < N, NEW c \in Int, NEW recent,
         HasRecent(recent, q, n, c), q[n + 1].fact => c < q[n + 1].tp
  PROVE HasRecent(recent, q, n + 1, c)
<1>1. 1 .. n + 1 = (1 .. n) \cup {n + 1} /\ q[n + 1].tp \in Nat
  BY NextIsLater
<1>2. ~(FactHere(q, n + 1) /\ q[n + 1].tp <= c)
  BY <1>1 DEF FactHere
<1> QED BY <1>1, <1>2 DEF HasRecent

\* A fact of the tag set is read.
LEMMA ReadsFact ==
  ASSUME NEW s, NEW q, NEW N, Streaming(q, N), NEW n \in Nat, n < N, NEW c \in Int,
         Tracks(s, q, N, n, c), c < q[n + 1].tp, FactHere(q, n + 1),
         NEW e, e.tp = q[n + 1].tp, e.data = q[n + 1].data, e.fact = TRUE
  PROVE AcceptScalar(s, e).ok /\ Tracks(AcceptScalar(s, e).sink, q, N, n + 1, c)
<1> DEFINE D == Values(q)
<1> DEFINE V == ToSet(s.data)
<1>1. /\ SinkOver(D, s) /\ Ordered(D, s.data) /\ Timed(D, s.data) /\ s.recent \in Remembered(D)
      /\ \A v \in V : v.tp \in Nat /\ v.fact \in BOOLEAN
  BY TracksTyped
<1>2. /\ n + 1 \in 1 .. N /\ e.tp \in Nat /\ e.data \in D
      /\ \A k \in 1 .. n : k \in 1 .. N /\ (q[k].fact => q[k].tp < e.tp)
      /\ \A tp \in Int : Passed(q, n, tp) => tp < e.tp
  BY NextIsLater
<1>3. \A k \in 1 .. N : q[k].tp \in Nat
  BY DEF Streaming
<1>4. HasFacts(V, q, n, c) /\ HasGuesses(V, q, N, n, c) /\ HasRecent(s.recent, q, n, c)
  BY DEF Tracks
<1> HIDE DEF D, V
<1>5. \A v \in V : v.fact => v.tp < e.tp
  BY <1>2, <1>4 DEF HasFacts, FactHere
<1>6. ASSUME \A v \in V : v.tp < e.tp, NEW v \in V PROVE v.fact
  <2> SUFFICES ASSUME ~v.fact PROVE FALSE
    OBVIOUS
  <2>1. PICK j \in 1 .. n : GuessHere(q, j) /\ q[j].tp = v.tp
    BY <1>4 DEF HasGuesses
  <2>2. ~Passed(q, n, v.tp) /\ v.tp < e.tp
    BY <1>4, <1>6 DEF HasGuesses
  <2>3. j < n + 1 /\ j \in 1 .. N
    BY <1>2
  <2>4. PICK m \in 1 .. (n + 1) - 1 : IF q[m].fact THEN m > j /\ q[j].tp <= q[m].tp
                                      ELSE q[m].here /\ q[n + 1].tp <= q[m].tp
    BY <2>1, <2>2, <2>3, <1>2 DEF Streaming, GuessHere, FactHere
  <2>5. m \in 1 .. n
    OBVIOUS
  <2>6. ~q[m].fact
    BY <2>1, <2>2, <2>4, <2>5 DEF Passed
  <2>7. GuessHere(q, m) /\ e.tp <= q[m].tp
    BY <2>4, <2>6 DEF GuessHere
  <2>8. ~Passed(q, n, q[m].tp)
    BY <2>5, <2>7, <1>2, <1>3
  <2>9. PICK w \in V : w.tp = q[m].tp
    BY <2>5, <2>7, <2>8, <1>4 DEF HasGuesses
  <2> QED BY <2>5, <2>7, <2>9, <1>1, <1>2, <1>3, <1>6
<1>7. FactFits(s, e)
  <2>1. s.recent = Absent \/ s.recent.tp <= e.tp
    BY <1>2, <1>3, <1>4 DEF HasRecent, FactHere
  <2>2. \A k \in DOMAIN s.data : s.data[k] \in V
    BY DEF V, ToSet
  <2>3. (\A k \in DOMAIN s.data : s.data[k].tp < e.tp) => \A v \in V : v.tp < e.tp
    BY DEF V, ToSet
  <2> QED BY <2>1, <2>2, <2>3, <1>5, <1>6 DEF FactFits
<1>8. PICK data : /\ AcceptScalar(s, e) = [ok |-> TRUE, sink |-> [s EXCEPT !.data = data]]
                  /\ Ordered(D, data)
                  /\ \A v : v \in ToSet(data) <=> \/ v = Entry(e)
                                                  \/ v \in ToSet(s.data) /\ (v.fact \/ v.tp > e.tp)
  BY <1>1, <1>2, <1>7, AcceptFact
<1> DEFINE r == AcceptScalar(s, e).sink
<1> DEFINE W == ToSet(data)
<1>9. SinkOver(D, r) /\ r.data = data /\ r.recent = s.recent /\ AcceptScalar(s, e).ok
  <2>1. r = [s EXCEPT !.data = data] /\ AcceptScalar(s, e).ok
    BY <1>8
  <2>2. SinkOver(D, s) /\ Ordered(D, data)
    BY <1>1, <1>8
  <2> HIDE DEF r
  <2> QED BY <2>1, <2>2, WithData
<1> HIDE DEF r, W
<1>10. \A v : v \in W <=> v = Entry(e) \/ (v \in V /\ (v.fact \/ v.tp > e.tp))
  BY <1>8 DEF V, W
<1>11. Entry(e).tp = e.tp /\ Entry(e).fact = TRUE /\ Entry(e).data = e.data
  BY <1>2, EntryIs
<1>12. 1 .. n + 1 = (1 .. n) \cup {n + 1}
  OBVIOUS
<1>13. HasFacts(W, q, n + 1, c)
  <2>1. ASSUME NEW v \in W, v.fact
        PROVE v.tp > c /\ \E k \in 1 .. n + 1 : FactHere(q, k) /\ q[k].tp = v.tp /\ q[k].data = v.data
    <3>1. CASE v = Entry(e)
      BY <3>1, <1>2, <1>11, <1>12
    <3>2. CASE v \in V
      BY <3>2, <2>1, <1>4, <1>12 DEF HasFacts
    <3> QED BY <3>1, <3>2, <1>10
  <2>2. ASSUME NEW k \in 1 .. n + 1, FactHere(q, k), q[k].tp > c
        PROVE \E v \in W : v.fact /\ v.tp = q[k].tp
    <3>1. CASE k = n + 1
      BY <3>1, <1>10, <1>11
    <3>2. CASE k \in 1 .. n
      BY <3>2, <2>2, <1>4, <1>10 DEF HasFacts
    <3> QED BY <3>1, <3>2, <1>12
  <2> QED BY <2>1, <2>2 DEF HasFacts
<1>14. \A tp \in Int : Passed(q, n + 1, tp) <=> Passed(q, n, tp) \/ tp <= e.tp
  BY PassedGrows DEF FactHere
<1>15. HasGuesses(W, q, N, n + 1, c)
  <2>1. ASSUME NEW v \in W, ~v.fact
        PROVE /\ v.tp > c /\ ~Passed(q, n + 1, v.tp)
              /\ \E k \in 1 .. n + 1 : GuessHere(q, k) /\ q[k].tp = v.tp
    <3>1. v \in V /\ v.tp > e.tp
      BY <2>1, <1>10, <1>11
    <3> QED BY <3>1, <2>1, <1>1, <1>2, <1>4, <1>12, <1>14 DEF HasGuesses
  <2>2. ASSUME n + 1 < N, NEW k \in 1 .. n + 1, GuessHere(q, k), ~Passed(q, n + 1, q[k].tp)
        PROVE \E v \in W : v.tp = q[k].tp
    <3>1. k \in 1 .. n
      BY <2>2, <1>12 DEF GuessHere, FactHere
    <3>2. q[k].tp \in Int /\ q[k].tp > e.tp /\ ~Passed(q, n, q[k].tp)
      BY <3>1, <2>2, <1>2, <1>3, <1>14
    <3>3. PICK v \in V : v.tp = q[k].tp
      BY <3>1, <3>2, <2>2, <1>4 DEF HasGuesses
    <3> QED BY <3>2, <3>3, <1>10
  <2> QED BY <2>1, <2>2 DEF HasGuesses
<1>16. HasRecent(r.recent, q, n + 1, c)
  BY <1>4, <1>9, RecentStays
<1> QED BY <1>9, <1>13, <1>15, <1>16 DEF Tracks, D, W, r

\* A guess about the tag set is read.
LEMMA ReadsGuess ==
  ASSUME NEW s, NEW q, NEW N, Streaming(q, N), NEW n \in Nat, n < N, NEW c \in Int,
         Tracks(s, q, N, n, c), c < q[n + 1].tp, GuessHere(q, n + 1),
         NEW e, e.tp = q[n + 1].tp, e.data = q[n + 1].data, e.fact \in BOOLEAN, ~e.fact
  PROVE /\ AcceptScalar(s, e).ok /\ Tracks(AcceptScalar(s, e).sink, q, N, n + 1, c)
        /\ ~IsEmpty(AcceptScalar(s, e).sink)
<1> DEFINE D == Values(q)
<1> DEFINE V == ToSet(s.data)
<1>1. /\ SinkOver(D, s) /\ Ordered(D, s.data) /\ Timed(D, s.data) /\ s.recent \in Remembered(D)
      /\ \A v \in V : v.tp \in Nat /\ v.fact \in BOOLEAN
  BY TracksTyped
<1>2. /\ n + 1 \in 1 .. N /\ e.tp \in Nat /\ e.data \in D
      /\ \A k \in 1 .. n : k \in 1 .. N /\ (q[k].fact => q[k].tp < e.tp)
      /\ \A tp \in Int : Passed(q, n, tp) => tp < e.tp
  BY NextIsLater
<1>3. \A k \in 1 .. N : q[k].tp \in Nat
  BY DEF Streaming
<1>4. HasFacts(V, q, n, c) /\ HasGuesses(V, q, N, n, c) /\ HasRecent(s.recent, q, n, c)
  BY DEF Tracks
<1> HIDE DEF D, V
<1>5. \A v \in V : v.fact => v.tp < e.tp
  BY <1>2, <1>4 DEF HasFacts, FactHere
<1>7. GuessFits(s, e)
  <2>1. s.recent = Absent \/ s.recent.tp <= e.tp
    BY <1>2, <1>3, <1>4 DEF HasRecent, FactHere
  <2>2. \A k \in DOMAIN s.data : s.data[k] \in V
    BY DEF V, ToSet
  <2> QED BY <2>1, <2>2, <1>5 DEF GuessFits
<1>8. PICK data : /\ AcceptScalar(s, e) = [ok |-> TRUE, sink |-> [s EXCEPT !.data = data]]
                  /\ Ordered(D, data)
                  /\ \A v : v \in ToSet(data) <=> v = Entry(e) \/ (v \in ToSet(s.data) /\ v.tp # e.tp)
  <2>1. SinkOver(D, s) /\ e.tp \in Nat /\ e.data \in D /\ e.fact \in BOOLEAN /\ ~e.fact
    BY <1>1, <1>2
  <2> QED BY <2>1, <1>7, AcceptGuess
<1> DEFINE r == AcceptScalar(s, e).sink
<1> DEFINE W == ToSet(data)
<1>9. SinkOver(D, r) /\ r.data = data /\ r.recent = s.recent /\ AcceptScalar(s, e).ok
  <2>1. r = [s EXCEPT !.data = data] /\ AcceptScalar(s, e).ok
    BY <1>8
  <2>2. SinkOver(D, s) /\ Ordered(D, data)
    BY <1>1, <1>8
  <2> HIDE DEF r
  <2> QED BY <2>1, <2>2, WithData
<1> HIDE DEF r, W
<1>10. \A v : v \in W <=> v = Entry(e) \/ (v \in V /\ v.tp # e.tp)
  BY <1>8 DEF V, W
<1>11. Entry(e).tp = e.tp /\ Entry(e).fact = FALSE /\ Entry(e).data = e.data
  BY <1>2, EntryIs
<1>12. 1 .. n + 1 = (1 .. n) \cup {n + 1}
  OBVIOUS
<1>13. HasFacts(W, q, n + 1, c)
  <2>1. ASSUME NEW v \in W, v.fact
        PROVE v.tp > c /\ \E k \in 1 .. n + 1 : FactHere(q, k) /\ q[k].tp = v.tp /\ q[k].data = v.data
    <3>1. v \in V
      BY <2>1, <1>10, <1>11
    <3> QED BY <3>1, <2>1, <1>4, <1>12 DEF HasFacts
  <2>2. ASSUME NEW k \in 1 .. n + 1, FactHere(q, k), q[k].tp > c
        PROVE \E v \in W : v.fact /\ v.tp = q[k].tp
    <3>1. k \in 1 .. n
      BY <2>2, <1>12 DEF FactHere, GuessHere
    <3>2. PICK v \in V : v.fact /\ v.tp = q[k].tp
      BY <3>1, <2>2, <1>4 DEF HasFacts
    <3>3. v.tp # e.tp
      BY <3>2, <1>1, <1>2, <1>5
    <3> QED BY <3>2, <3>3, <1>10
  <2> QED BY <2>1, <2>2 DEF HasFacts
<1>14. \A tp \in Int : Passed(q, n + 1, tp) <=> Passed(q, n, tp)
  BY PassedGrows DEF GuessHere
<1>15. HasGuesses(W, q, N, n + 1, c)
  <2>1. ASSUME NEW v \in W, ~v.fact
        PROVE /\ v.tp > c /\ ~Passed(q, n + 1, v.tp)
              /\ \E k \in 1 .. n + 1 : GuessHere(q, k) /\ q[k].tp = v.tp
    <3>1. CASE v = Entry(e)
      <4>1. ~Passed(q, n, e.tp)
        BY <1>2
      <4> QED BY <4>1, <3>1, <1>2, <1>11, <1>12, <1>14
    <3>2. CASE v \in V
      BY <3>2, <2>1, <1>1, <1>4, <1>12, <1>14 DEF HasGuesses
    <3> QED BY <3>1, <3>2, <1>10
  <2>2. ASSUME n + 1 < N, NEW k \in 1 .. n + 1, GuessHere(q, k), ~Passed(q, n + 1, q[k].tp)
        PROVE \E v \in W : v.tp = q[k].tp
    <3>1. CASE q[k].tp = e.tp
      BY <3>1, <1>10, <1>11
    <3>2. CASE q[k].tp # e.tp
      <4>1. k \in 1 .. n
        BY <3>2, <1>12
      <4>2. q[k].tp \in Int /\ ~Passed(q, n, q[k].tp)
        BY <4>1, <2>2, <1>2, <1>3, <1>14
      <4>3. PICK v \in V : v.tp = q[k].tp
        BY <4>1, <4>2, <2>2, <1>4 DEF HasGuesses
      <4> QED BY <4>3, <3>2, <1>10
    <3> QED BY <3>1, <3>2
  <2> QED BY <2>1, <2>2 DEF HasGuesses
<1>16. HasRecent(r.recent, q, n + 1, c)
  BY <1>4, <1>9, RecentStays
<1>17. ~IsEmpty(r)
  <2>1. ToSet(r.data) # {}
    BY <1>9, <1>10 DEF W
  <2>2. Timed(D, r.data)
    BY <1>8, <1>9 DEF Ordered
  <2> QED BY <2>1, <2>2, NoEntries DEF IsEmpty
<1> QED BY <1>9, <1>13, <1>15, <1>16, <1>17 DEF Tracks, D, W, r

\* Emissions that speak of other tag sets, and are no facts, change nothing.
LEMMA ReadsOther ==
  ASSUME NEW s, NEW q, NEW N, Streaming(q, N), NEW n \in Nat, n < N, NEW c \in Int,
         Tracks(s, q, N, n, c), ~q[n + 1].fact, ~q[n + 1].here
  PROVE Tracks(s, q, N, n + 1, c)
<1> DEFINE V == ToSet(s.data)
<1>1. /\ n + 1 \in 1 .. N /\ 1 .. n + 1 = (1 .. n) \cup {n + 1}
      /\ \A k \in 1 .. n : k \in 1 .. N
      /\ \A k \in 1 .. N : q[k].tp \in Nat
  BY NextIsLater DEF Streaming
<1>2. ~FactHere(q, n + 1) /\ ~GuessHere(q, n + 1)
  BY DEF FactHere, GuessHere
<1>3. ASSUME NEW tp \in Int PROVE Passed(q, n + 1, tp) <=> Passed(q, n, tp)
  BY PassedGrows
<1>4. \A v \in V : v.tp \in Nat
  BY TracksTyped
<1>5. HasFacts(V, q, n, c) /\ HasGuesses(V, q, N, n, c) /\ HasRecent(s.recent, q, n, c)
  BY DEF Tracks
<1> HIDE DEF V
<1>6. HasFacts(V, q, n + 1, c)
  BY <1>1, <1>2, <1>5 DEF HasFacts
<1>7. HasGuesses(V, q, N, n + 1, c)
  <2>1. ASSUME NEW v \in V, ~v.fact
        PROVE /\ v.tp > c /\ ~Passed(q, n + 1, v.tp)
              /\ \E k \in 1 .. n + 1 : GuessHere(q, k) /\ q[k].tp = v.tp
    BY <2>1, <1>1, <1>3, <1>4, <1>5 DEF HasGuesses
  <2>2. ASSUME n + 1 < N, NEW k \in 1 .. n + 1, GuessHere(q, k), ~Passed(q, n + 1, q[k].tp)
        PROVE \E v \in V : v.tp = q[k].tp
    <3>1. k \in 1 .. n /\ q[k].tp \in Int
      BY <2>2, <1>1, <1>2
    <3>2. ~Passed(q, n, q[k].tp)
      BY <2>2, <3>1, <1>3
    <3> QED BY <2>2, <3>1, <3>2, <1>5 DEF HasGuesses
  <2> QED BY <2>1, <2>2 DEF HasGuesses
<1>8. HasRecent(s.recent, q, n + 1, c)
  BY <1>5, RecentStays
<1> QED BY <1>6, <1>7, <1>8 DEF Tracks, V

\* A fact that has nothing for the tag set makes its guesses moot.
LEMMA ReadsAbsence ==
  ASSUME NEW s, NEW q, NEW N, Streaming(q, N), NEW n \in Nat, n < N, NEW c \in Int,
         Tracks(s, q, N, n, c), c < q[n + 1].tp, q[n + 1].fact, ~q[n + 1].here
  PROVE Tracks(DropSpeculativeBefore(s, q[n + 1].tp), q, N, n + 1, c)
<1> DEFINE V == ToSet(s.data)
<1> DEFINE D == Values(q)
<1> DEFINE tp == q[n + 1].tp
<1>1. /\ n + 1 \in 1 .. N /\ 1 .. n + 1 = (1 .. n) \cup {n + 1}
      /\ \A k \in 1 .. n : k \in 1 .. N /\ k < n + 1 /\ (q[k].fact => q[k].tp < tp)
      /\ \A k \in 1 .. N : q[k].tp \in Nat
      /\ tp \in Nat
  BY NextIsLater DEF Streaming
<1>2. ~FactHere(q, n + 1) /\ ~GuessHere(q, n + 1)
  BY DEF FactHere, GuessHere
<1>3. ASSUME NEW t \in Int PROVE Passed(q, n + 1, t) <=> Passed(q, n, t) \/ t <= tp
  BY PassedGrows
<1>4. \A v \in V : v.tp \in Nat
  BY TracksTyped
<1>5. SinkOver(D, s) /\ HasFacts(V, q, n, c) /\ HasGuesses(V, q, N, n, c) /\ HasRecent(s.recent, q, n, c)
  BY DEF Tracks
<1>6. ASSUME NEW v \in V, ~v.fact, v.tp = tp PROVE FALSE
  <2>1. PICK j \in 1 .. n : GuessHere(q, j) /\ q[j].tp = v.tp
    BY <1>5, <1>6 DEF HasGuesses
  <2>2. j \in 1 .. N /\ j < n + 1
    BY <1>1
  <2> QED BY <2>1, <2>2, <1>1, <1>6 DEF Streaming, GuessHere
<1> HIDE DEF D, V
<1>7. PICK data : /\ DropSpeculativeBefore(s, tp) = [s EXCEPT !.data = data]
                  /\ Ordered(D, data)
                  /\ \A v : v \in ToSet(data) <=> v \in ToSet(s.data) /\ (v.fact \/ v.tp >= tp)
  BY <1>1, <1>5, DropIs
<1> DEFINE r == DropSpeculativeBefore(s, tp)
<1> DEFINE W == ToSet(data)
<1>8. SinkOver(D, r) /\ r.data = data /\ r.recent = s.recent
  <2>1. r = [s EXCEPT !.data = data]
    BY <1>7
  <2> HIDE DEF r
  <2> QED BY <2>1, <1>5, <1>7, WithData
<1> HIDE DEF r, W
<1>9. \A v : v \in W <=> v \in V /\ (v.fact \/ v.tp >= tp)
  BY <1>7 DEF V, W
<1> HIDE DEF tp
<1>10. HasFacts(W, q, n + 1, c)
  BY <1>1, <1>2, <1>5, <1>9 DEF HasFacts
<1>11. HasGuesses(W, q, N, n + 1, c)
  <2>1. ASSUME NEW v \in W, ~v.fact
        PROVE /\ v.tp > c /\ ~Passed(q, n + 1, v.tp)
              /\ \E k \in 1 .. n + 1 : GuessHere(q, k) /\ q[k].tp = v.tp
    <3>1. v \in V /\ v.tp >= tp /\ v.tp # tp /\ v.tp \in Int
      BY <2>1, <1>4, <1>6, <1>9
    <3>2. ~Passed(q, n + 1, v.tp)
      BY <2>1, <3>1, <1>1, <1>3, <1>5 DEF HasGuesses
    <3> QED BY <2>1, <3>1, <3>2, <1>1, <1>5 DEF HasGuesses
  <2>2. ASSUME n + 1 < N, NEW k \in 1 .. n + 1, GuessHere(q, k), ~Passed(q, n + 1, q[k].tp)
        PROVE \E v \in W : v.tp = q[k].tp
    <3>1. k \in 1 .. n /\ q[k].tp \in Int
      BY <2>2, <1>1, <1>2
    <3>2. ~Passed(q, n, q[k].tp) /\ q[k].tp > tp
      BY <2>2, <3>1, <1>1, <1>3
    <3>3. PICK v \in V : v.tp = q[k].tp
      BY <2>2, <3>1, <3>2, <1>5 DEF HasGuesses
    <3> QED BY <3>2, <3>3, <1>1, <3>1, <1>9
  <2> QED BY <2>1, <2>2 DEF HasGuesses
<1>12. HasRecent(r.recent, q, n + 1, c)
  BY <1>5, <1>8, RecentStays
<1> QED BY <1>8, <1>10, <1>11, <1>12 DEF Tracks, D, W, r, tp

\* A sink that has read a fact at tp or later has no guesses before tp.
LEMMA DropKeeps ==
  ASSUME NEW s, NEW q, NEW N, Streaming(q, N), NEW n, NEW c,
         Tracks(s, q, N, n, c), NEW tp \in Nat, Passed(q, n, tp), n \in 0 .. N
  PROVE Tracks(DropSpeculativeBefore(s, tp), q, N, n, c)
<1> DEFINE V == ToSet(s.data)
<1> DEFINE D == Values(q)
<1>1. SinkOver(D, s) /\ HasFacts(V, q, n, c) /\ HasGuesses(V, q, N, n, c) /\ HasRecent(s.recent, q, n, c)
  BY DEF Tracks
<1>2. \A v \in V : v.tp \in Nat
  BY TracksTyped
<1>3. \A v \in V : ~v.fact => v.tp > tp
  <2> SUFFICES ASSUME NEW v \in V, ~v.fact, v.tp <= tp PROVE FALSE
    BY <1>2
  <2>1. PICK k \in 1 .. n : q[k].fact /\ tp <= q[k].tp
    BY DEF Passed
  <2>2. N \in Nat /\ k \in 1 .. N /\ q[k].tp \in Nat
    BY DEF Streaming
  <2>3. Passed(q, n, v.tp)
    BY <2>1, <2>2, <1>2 DEF Passed
  <2> QED BY <2>3, <1>1 DEF HasGuesses
<1> HIDE DEF D, V
<1>4. PICK data : /\ DropSpeculativeBefore(s, tp) = [s EXCEPT !.data = data]
                  /\ Ordered(D, data)
                  /\ \A v : v \in ToSet(data) <=> v \in ToSet(s.data) /\ (v.fact \/ v.tp >= tp)
  BY <1>1, DropIs
<1> DEFINE r == DropSpeculativeBefore(s, tp)
<1>5. SinkOver(D, r) /\ r.data = data /\ r.recent = s.recent
  <2>1. r = [s EXCEPT !.data = data]
    BY <1>4
  <2> HIDE DEF r
  <2> QED BY <2>1, <1>1, <1>4, WithData
<1>6. ToSet(data) = V
  <2>1. \A v : v \in ToSet(data) <=> v \in V
    BY <1>2, <1>3, <1>4 DEF V
  <2> QED BY <2>1
<1> QED BY <1>1, <1>5, <1>6 DEF Tracks, D

\* To mark entries keeps them.
LEMMA MarkKeeps ==
  ASSUME NEW s, NEW q, NEW N, NEW n, NEW c, Tracks(s, q, N, n, c), NEW tp
  PROVE Tracks(MarkScalar(s, tp), q, N, n, c)
<1> DEFINE V == ToSet(s.data)
<1> DEFINE D == Values(q)
<1>1. SinkOver(D, s) /\ HasFacts(V, q, n, c) /\ HasGuesses(V, q, N, n, c) /\ HasRecent(s.recent, q, n, c)
  BY DEF Tracks
<1> HIDE DEF D
<1>2. PICK data : /\ MarkScalar(s, tp) = [s EXCEPT !.data = data]
                  /\ Ordered(D, data)
                  /\ Alike(ToSet(data), V) /\ Alike(V, ToSet(data))
  BY <1>1, MarkIs
<1> DEFINE W == ToSet(data)
<1>3. SinkOver(D, MarkScalar(s, tp)) /\ MarkScalar(s, tp).data = data /\ MarkScalar(s, tp).recent = s.recent
  BY <1>1, <1>2, WithData
<1> HIDE DEF V, W
<1>4. Alike(W, V) /\ Alike(V, W)
  BY <1>2 DEF W
<1>5. HasFacts(W, q, n, c)
  <2>1. ASSUME NEW v \in W, v.fact
        PROVE v.tp > c /\ \E k \in 1 .. n : FactHere(q, k) /\ q[k].tp = v.tp /\ q[k].data = v.data
    <3>1. PICK w \in V : v.tp = w.tp /\ v.fact = w.fact /\ v.data = w.data
      BY <1>4 DEF Alike
    <3> QED BY <2>1, <3>1, <1>1 DEF HasFacts
  <2>2. ASSUME NEW k \in 1 .. n, FactHere(q, k), q[k].tp > c
        PROVE \E v \in W : v.fact /\ v.tp = q[k].tp
    <3>1. PICK w \in V : w.fact /\ w.tp = q[k].tp
      BY <2>2, <1>1 DEF HasFacts
    <3>2. PICK v \in W : w.tp = v.tp /\ w.fact = v.fact /\ w.data = v.data
      BY <1>4 DEF Alike
    <3> QED BY <3>1, <3>2
  <2> QED BY <2>1, <2>2 DEF HasFacts
<1>6. HasGuesses(W, q, N, n, c)
  <2>1. ASSUME NEW v \in W, ~v.fact
        PROVE /\ v.tp > c /\ ~Passed(q, n, v.tp)
              /\ \E k \in 1 .. n : GuessHere(q, k) /\ q[k].tp = v.tp
    <3>1. PICK w \in V : v.tp = w.tp /\ v.fact = w.fact /\ v.data = w.data
      BY <1>4 DEF Alike
    <3> QED BY <2>1, <3>1, <1>1 DEF HasGuesses
  <2>2. ASSUME n < N, NEW k \in 1 .. n, GuessHere(q, k), ~Passed(q, n, q[k].tp)
        PROVE \E v \in W : v.tp = q[k].tp
    <3>1. PICK w \in V : w.tp = q[k].tp
      BY <2>2, <1>1 DEF HasGuesses
    <3> QED BY <3>1, <1>4 DEF Alike
  <2> QED BY <2>1, <2>2 DEF HasGuesses
<1> QED BY <1>1, <1>3, <1>5, <1>6 DEF Tracks, D, W

\* What is before tp is dropped, up to what interpolation after tp may need.
LEMMA ForwardKeeps ==
  ASSUME NEW s, NEW q, NEW N, Streaming(q, N), NEW n \in 0 .. N, NEW c \in Int, NEW tp \in Int, c < tp,
         Tracks(s, q, N, n, c), n < N => Passed(q, n, tp)
  PROVE Tracks(ForwardScalar(s, tp, tp - Slack), q, N, n, tp)
<1> DEFINE V == ToSet(s.data)
<1> DEFINE D == Values(q)
<1> DEFINE expire == tp - Slack
<1>1. SinkOver(D, s) /\ HasFacts(V, q, n, c) /\ HasGuesses(V, q, N, n, c) /\ HasRecent(s.recent, q, n, c)
  BY DEF Tracks
<1>2. /\ Slack \in Nat /\ expire \in Int
      /\ \A v \in V : v.tp \in Nat
      /\ s.recent # Absent => s.recent.tp \in Nat /\ s.recent.tp <= c /\ \A v \in V : s.recent.tp < v.tp
  BY TracksTyped, RecentBefore, MergerAssumption DEF Remembered
<1>3. \A k \in 1 .. n : q[k].tp \in Nat
  BY DEF Streaming
<1> HIDE DEF D, V
<1>4. PICK data, recent :
          /\ ForwardScalar(s, tp, expire) = [data |-> data, recent |-> recent]
          /\ Ordered(D, data)
          /\ recent \in Remembered(D)
          /\ \A v : v \in ToSet(data) <=> v \in ToSet(s.data) /\ v.tp > tp
          /\ Leaves(s, tp, expire, recent)
  <2> HIDE DEF expire
  <2>1. s.recent # Absent => \A v \in ToSet(s.data) : s.recent.tp < v.tp
    BY <1>2 DEF V
  <2> QED BY <2>1, <1>1, <1>2, ForwardIs
<1> DEFINE r == ForwardScalar(s, tp, expire)
<1> DEFINE W == ToSet(data)
<1>5. SinkOver(D, r) /\ r.data = data /\ r.recent = recent
  BY <1>4 DEF SinkOver
<1>6. \A v : v \in W <=> v \in V /\ v.tp > tp
  BY <1>4 DEF V
<1> HIDE DEF r, W
<1>7. HasFacts(W, q, n, tp)
  <2>1. ASSUME NEW v \in W, v.fact
        PROVE v.tp > tp /\ \E k \in 1 .. n : FactHere(q, k) /\ q[k].tp = v.tp /\ q[k].data = v.data
    BY <2>1, <1>1, <1>6 DEF HasFacts
  <2>2. ASSUME NEW k \in 1 .. n, FactHere(q, k), q[k].tp > tp
        PROVE \E v \in W : v.fact /\ v.tp = q[k].tp
    <3>1. q[k].tp > c
      BY <2>2, <1>3
    <3> QED BY <2>2, <3>1, <1>1, <1>6 DEF HasFacts
  <2> QED BY <2>1, <2>2 DEF HasFacts
<1>8. HasGuesses(W, q, N, n, tp)
  <2>1. ASSUME NEW v \in W, ~v.fact
        PROVE /\ v.tp > tp /\ ~Passed(q, n, v.tp)
              /\ \E k \in 1 .. n : GuessHere(q, k) /\ q[k].tp = v.tp
    BY <2>1, <1>1, <1>6 DEF HasGuesses
  <2>2. ASSUME n < N, NEW k \in 1 .. n, GuessHere(q, k), ~Passed(q, n, q[k].tp)
        PROVE \E v \in W : v.tp = q[k].tp
    <3>1. PICK v \in V : v.tp = q[k].tp
      BY <2>2, <1>1 DEF HasGuesses
    <3>2. q[k].tp > tp
      BY <2>2, <1>3 DEF Passed
    <3> QED BY <3>1, <3>2, <1>6
  <2> QED BY <2>1, <2>2 DEF HasGuesses
<1>9. HasRecent(recent, q, n, tp)
  <2> DEFINE F == {v \in V : v.fact /\ v.tp <= tp}
  <2>1. IF recent = Absent
        THEN (\A w \in F : w.tp < expire) /\ (s.recent = Absent \/ s.recent.tp < expire)
        ELSE /\ recent.tp >= expire
             /\ \/ recent = s.recent /\ F = {}
                \/ \E v \in F : recent = [tp |-> v.tp, data |-> v.data] /\ \A w \in F : w.tp <= v.tp
    BY <1>4 DEF Leaves, V
  <2>2. ASSUME NEW k \in 1 .. n, FactHere(q, k), q[k].tp <= tp, q[k].tp > c
        PROVE \E v \in F : v.tp = q[k].tp
    BY <2>2, <1>1 DEF HasFacts
  <2>3. CASE recent = Absent
    <3>1. ASSUME NEW k \in 1 .. n, FactHere(q, k), q[k].tp <= tp PROVE q[k].tp < expire
      <4>1. CASE q[k].tp > c
        BY <3>1, <4>1, <2>1, <2>2, <2>3
      <4>2. CASE q[k].tp <= c
        <5>1. CASE s.recent = Absent
          <6>1. q[k].tp < c - Slack
            BY <3>1, <4>2, <5>1, <1>1 DEF HasRecent
          <6> QED BY <6>1, <1>2, <1>3
        <5>2. CASE s.recent # Absent
          <6>1. q[k].tp <= s.recent.tp
            BY <3>1, <4>2, <5>2, <1>1 DEF HasRecent
          <6>2. s.recent.tp < expire
            BY <5>2, <2>1, <2>3
          <6> QED BY <6>1, <6>2, <5>2, <1>2, <1>3
        <5> QED BY <5>1, <5>2
      <4> QED BY <4>1, <4>2, <1>3
    <3> QED BY <3>1, <2>3 DEF HasRecent
  <2>4. CASE recent # Absent
    <3>1. CASE recent = s.recent /\ F = {}
      <4>1. \A k \in 1 .. n : FactHere(q, k) /\ q[k].tp <= tp => q[k].tp <= c
        BY <3>1, <2>2, <1>3
      <4>2. recent.tp <= c /\ recent.tp \in Nat
        BY <3>1, <2>4, <1>2
      <4> HIDE DEF F
      <4> QED BY <4>1, <4>2, <3>1, <2>4, <1>1 DEF HasRecent
    <3>2. ASSUME NEW v \in F, recent = [tp |-> v.tp, data |-> v.data], \A w \in F : w.tp <= v.tp
          PROVE HasRecent(recent, q, n, tp)
      <4>1. recent.tp = v.tp /\ recent.data = v.data /\ v.tp <= tp /\ v.tp \in Nat /\ v.fact /\ v \in V
        BY <3>2, <1>2
      <4>2. \E k \in 1 .. n : FactHere(q, k) /\ q[k].tp = recent.tp /\ q[k].data = recent.data
        BY <4>1, <1>1 DEF HasFacts
      <4>3. v.tp > c
        BY <4>1, <1>1 DEF HasFacts
      <4>4. ASSUME NEW k \in 1 .. n, FactHere(q, k), q[k].tp <= tp PROVE q[k].tp <= recent.tp
        <5>1. CASE q[k].tp > c
          BY <4>4, <5>1, <2>2, <3>2, <4>1
        <5>2. CASE q[k].tp <= c
          BY <5>2, <4>1, <4>3, <1>3
        <5> QED BY <5>1, <5>2, <1>3
      <4> QED BY <4>1, <4>2, <4>4, <2>4 DEF HasRecent
    <3> QED BY <2>1, <2>4, <3>1, <3>2
  <2> QED BY <2>3, <2>4
<1> QED BY <1>5, <1>7, <1>8, <1>9 DEF Tracks, W, r, D

\* To drop up to a time that was passed before drops nothing.
LEMMA ForwardOld ==
  ASSUME NEW s, NEW q, NEW N, Streaming(q, N), NEW n \in 0 .. N, NEW c \in Int, NEW tp \in Int, tp <= c,
         Tracks(s, q, N, n, c)
  PROVE Tracks(ForwardScalar(s, tp, tp - Slack), q, N, n, c)
<1> DEFINE V == ToSet(s.data)
<1> DEFINE D == Values(q)
<1> DEFINE expire == tp - Slack
<1>1. SinkOver(D, s) /\ HasFacts(V, q, n, c) /\ HasGuesses(V, q, N, n, c) /\ HasRecent(s.recent, q, n, c)
  BY DEF Tracks
<1>2. /\ Slack \in Nat /\ expire \in Int
      /\ \A v \in V : v.tp \in Nat /\ v.tp > tp
      /\ s.recent # Absent => s.recent.tp \in Nat /\ s.recent.tp <= c /\ \A v \in V : s.recent.tp < v.tp
  <2>0. \A v \in V : v.tp \in Nat
    BY TracksTyped
  <2>1. \A v \in V : v.tp \in Nat /\ v.tp > c
    BY <2>0, <1>1 DEF HasFacts, HasGuesses
  <2>2. s.recent # Absent => s.recent.tp \in Nat
    BY TracksTyped DEF Remembered
  <2>3. s.recent # Absent => s.recent.tp <= c /\ \A v \in V : s.recent.tp < v.tp
    BY RecentBefore
  <2>4. Slack \in Nat
    BY MergerAssumption
  <2> QED BY <2>1, <2>2, <2>3, <2>4
<1>3. \A k \in 1 .. n : q[k].tp \in Nat
  BY DEF Streaming
<1> HIDE DEF D, V
<1>4. PICK data, recent :
          /\ ForwardScalar(s, tp, expire) = [data |-> data, recent |-> recent]
          /\ Ordered(D, data)
          /\ recent \in Remembered(D)
          /\ \A v : v \in ToSet(data) <=> v \in ToSet(s.data) /\ v.tp > tp
          /\ Leaves(s, tp, expire, recent)
  <2> HIDE DEF expire
  <2>1. s.recent # Absent => \A v \in ToSet(s.data) : s.recent.tp < v.tp
    BY <1>2 DEF V
  <2> QED BY <2>1, <1>1, <1>2, ForwardIs
<1> DEFINE r == ForwardScalar(s, tp, expire)
<1>5. SinkOver(D, r) /\ r.data = data /\ r.recent = recent
  BY <1>4 DEF SinkOver
<1>6. ToSet(data) = V
  <2>1. \A v : v \in ToSet(data) <=> v \in V
    BY <1>2, <1>4 DEF V
  <2> QED BY <2>1
<1>7. HasRecent(recent, q, n, c)
  <2>1. IF recent = Absent THEN s.recent = Absent \/ s.recent.tp < expire ELSE recent = s.recent
    BY <1>2, <1>4 DEF Leaves, V
  <2>2. CASE recent = s.recent
    BY <2>2, <1>1
  <2>3. CASE recent = Absent /\ s.recent # Absent
    <3>1. s.recent.tp < expire /\ s.recent.tp \in Nat
      BY <2>1, <2>3, <1>2
    <3>2. \A k \in 1 .. n : FactHere(q, k) /\ q[k].tp <= c => q[k].tp <= s.recent.tp
      BY <2>3, <1>1 DEF HasRecent
    <3>3. \A k \in 1 .. n : FactHere(q, k) /\ q[k].tp <= c => q[k].tp < c - Slack
      BY <3>1, <3>2, <1>2, <1>3
    <3> QED BY <3>3, <2>3 DEF HasRecent
  <2> QED BY <2>1, <2>2, <2>3
<1> QED BY <1>1, <1>5, <1>6, <1>7 DEF Tracks, D

\* A sink that is empty is a new one.
LEMMA EmptyIs ==
  ASSUME NEW D, NEW s, SinkOver(D, s)
  PROVE IsEmpty(s) <=> s = EmptySink
BY DEF SinkOver, IsEmpty, EmptySink

\* What is tracked is in the order that the sinks assert.
LEMMA TracksSound ==
  ASSUME NEW s, NEW q, NEW N, NEW n, NEW c \in Int, Tracks(s, q, N, n, c)
  PROVE ScalarSound(s)
<1>1. Timed(Values(q), s.data) /\ Parted(s.data, Len(s.data))
  BY TracksTyped DEF Ordered
<1>2. /\ Len(s.data) \in Nat /\ DOMAIN s.data = 1 .. Len(s.data)
      /\ \A k \in DOMAIN s.data : s.data[k].tp \in Nat
  BY <1>1, TimedSeq
<1>3. \A j, k \in DOMAIN s.data : j < k =>
        s.data[j].tp <= s.data[k].tp /\ (s.data[k].fact => s.data[j].fact)
  BY <1>1, <1>2 DEF Timed, Parted
<1>4. ASSUME s.recent # Absent, s.data # << >> PROVE s.recent.tp < s.data[1].tp
  <2>1. \E v : v \in ToSet(s.data)
    BY <1>1, <1>4, NoEntries
  <2>2. 1 \in DOMAIN s.data
    BY <2>1, <1>2 DEF ToSet
  <2>3. s.data[1] \in ToSet(s.data)
    BY <2>2 DEF ToSet
  <2> QED BY <2>3, <1>4, RecentBefore
<1> QED BY <1>3, <1>4 DEF ScalarSound

\* The last of the facts of a sink.
LEMMA FactEndIs ==
  ASSUME NEW D, NEW s, SinkOver(D, s)
  PROVE FactEnd(s) = NoTime \/ \E v \in ToSet(s.data) : v.fact /\ v.tp = FactEnd(s)
<1> DEFINE p == FirstSpeculation(s.data, Len(s.data))
<1>1. Timed(D, s.data) /\ Parted(s.data, Len(s.data))
  BY DEF SinkOver, Ordered
<1>2. /\ Len(s.data) \in Nat /\ DOMAIN s.data = 1 .. Len(s.data)
      /\ \A k \in DOMAIN s.data : s.data[k].fact \in BOOLEAN
  BY <1>1, TimedSeq
<1>3. p \in 1 .. Len(s.data) + 1 /\ \A k \in 1 .. Len(s.data) : s.data[k].fact <=> k < p
  BY <1>1, <1>2, SearchFinds
<1>4. FactEnd(s) = IF p = 1 THEN NoTime ELSE s.data[p - 1].tp
  BY DEF FactEnd
<1> HIDE DEF p
<1>5. ASSUME p # 1 PROVE s.data[p - 1] \in ToSet(s.data) /\ s.data[p - 1].fact
  BY <1>5, <1>2, <1>3 DEF ToSet
<1> QED BY <1>4, <1>5

(* -------------------- the value of a scalar sink --------------------- *)

\* The facts of a stream, and what they say at a time.
FactsOf(q) == {k \in DOMAIN q : FactHere(q, k)}
Ref(q, tp) ==
  LET at     == FactsOf(q)
      before == {k \in at : q[k].tp < tp /\ \A j \in at : q[j].tp < tp => q[j].tp <= q[k].tp}
      after  == {k \in at : q[k].tp > tp /\ \A j \in at : q[j].tp > tp => q[j].tp >= q[k].tp}
  IN {q[k].data : k \in {j \in at : q[j].tp = tp}}
       \cup {Interpolate(tp, q[j].data, q[k].data) :
               j \in {b \in before : q[b].tp >= tp - Slack /\ ~\E e \in at : q[e].tp = tp},
               k \in {a \in after : q[a].tp <= tp + Slack}}

\* There is at most one fact of a time.
LEMMA FactsDiffer ==
  ASSUME NEW q, NEW N, Streaming(q, N), NEW j \in FactsOf(q), NEW k \in FactsOf(q), q[j].tp = q[k].tp
  PROVE j = k
<1>1. j \in 1 .. N /\ k \in 1 .. N /\ N \in Nat /\ q[j].fact /\ q[k].fact
  BY DEF Streaming, FactsOf, FactHere
<1>2. q[j].tp \in Nat /\ q[k].tp \in Nat
  BY <1>1 DEF Streaming
<1>3. ~(j < k) /\ ~(k < j)
  BY <1>1, <1>2 DEF Streaming
<1> QED BY <1>1, <1>3

\* No fact there, and none within the slack on one side.
LEMMA RefNone ==
  ASSUME NEW q, NEW tp,
         \A k \in FactsOf(q) : q[k].tp # tp,
         \/ \A k \in FactsOf(q) : q[k].tp > tp => ~(q[k].tp <= tp + Slack)
         \/ \A k \in FactsOf(q) : q[k].tp < tp => ~(q[k].tp >= tp - Slack)
  PROVE Ref(q, tp) = {}
BY DEF Ref

\* The fact of the time.
LEMMA RefAt ==
  ASSUME NEW q, NEW N, Streaming(q, N), NEW k \in FactsOf(q)
  PROVE Ref(q, q[k].tp) = {q[k].data}
<1> DEFINE tp == q[k].tp
<1>1. {q[j].data : j \in {j \in FactsOf(q) : q[j].tp = tp}} = {q[k].data}
  BY FactsDiffer
<1>2. {b \in {x \in FactsOf(q) : q[x].tp < tp /\ \A j \in FactsOf(q) : q[j].tp < tp => q[j].tp <= q[x].tp} :
         q[b].tp >= tp - Slack /\ ~\E e \in FactsOf(q) : q[e].tp = tp} = {}
  OBVIOUS
<1> QED BY <1>1, <1>2 DEF Ref

\* The facts on both sides.
LEMMA RefBetween ==
  ASSUME NEW q, NEW N, Streaming(q, N), NEW tp \in Int, NEW b \in FactsOf(q), NEW a \in FactsOf(q),
         \A k \in FactsOf(q) : q[k].tp # tp,
         q[b].tp < tp, q[b].tp >= tp - Slack, \A k \in FactsOf(q) : q[k].tp < tp => q[k].tp <= q[b].tp,
         q[a].tp > tp, q[a].tp <= tp + Slack, \A k \in FactsOf(q) : q[k].tp > tp => q[k].tp >= q[a].tp
  PROVE Ref(q, tp) = {Interpolate(tp, q[b].data, q[a].data)}
<1> DEFINE at == FactsOf(q)
<1> DEFINE B == {x \in {k \in at : q[k].tp < tp /\ \A j \in at : q[j].tp < tp => q[j].tp <= q[k].tp} :
                   q[x].tp >= tp - Slack /\ ~\E e \in at : q[e].tp = tp}
<1> DEFINE A == {x \in {k \in at : q[k].tp > tp /\ \A j \in at : q[j].tp > tp => q[j].tp >= q[k].tp} :
                   q[x].tp <= tp + Slack}
<1>1. \A k \in at : q[k].tp \in Nat
  BY DEF FactsOf, Streaming
<1>2. B = {b}
  <2>1. b \in B
    OBVIOUS
  <2>2. ASSUME NEW x \in B PROVE x = b
    <3>1. q[x].tp = q[b].tp /\ x \in at
      BY <1>1
    <3> QED BY <3>1, FactsDiffer
  <2> QED BY <2>1, <2>2
<1>3. A = {a}
  <2>1. a \in A
    OBVIOUS
  <2>2. ASSUME NEW x \in A PROVE x = a
    <3>1. q[x].tp = q[a].tp /\ x \in at
      BY <1>1
    <3> QED BY <3>1, FactsDiffer
  <2> QED BY <2>1, <2>2
<1>4. {q[k].data : k \in {j \in at : q[j].tp = tp}} = {}
  OBVIOUS
<1>5. Ref(q, tp) = {q[k].data : k \in {j \in at : q[j].tp = tp}}
                     \cup {Interpolate(tp, q[j].data, q[k].data) : j \in B, k \in A}
  BY DEF Ref
<1> HIDE DEF A, B, at
<1> QED BY <1>2, <1>3, <1>4, <1>5

\* Facts that were passed, or of a stream that was read to its end, were read.
LEMMA PassedAreRead ==
  ASSUME NEW q, NEW N, Streaming(q, N), NEW n \in 0 .. N, NEW tp \in Int, Passed(q, n, tp) \/ n = N,
         NEW k \in FactsOf(q), q[k].tp <= tp
  PROVE k \in 1 .. n /\ FactHere(q, k) /\ q[k].tp \in Nat
<1>1. k \in 1 .. N /\ N \in Nat /\ q[k].tp \in Nat /\ FactHere(q, k)
  BY DEF Streaming, FactsOf
<1>2. CASE n = N
  BY <1>1, <1>2
<1>3. ASSUME NEW j \in 1 .. n, q[j].fact, tp <= q[j].tp PROVE k \in 1 .. n
  <2>1. j \in 1 .. N /\ q[j].tp \in Nat
    BY <1>1 DEF Streaming
  <2>2. ~(j < k)
    BY <1>1, <1>3, <2>1 DEF Streaming, FactHere
  <2> QED BY <1>1, <2>1, <2>2
<1> QED BY <1>1, <1>2, <1>3 DEF Passed

\* What comes before tp, for interpolation.
Before(s, k) == IF k = 1 THEN s.recent ELSE [tp |-> s.data[k - 1].tp, data |-> s.data[k - 1].data]

\* p is the last fact before tp, or there is none that interpolation reaches.
LastBefore(q, tp, p) ==
  IF p = Absent
  THEN \A j \in FactsOf(q) : q[j].tp < tp => ~(q[j].tp >= tp - Slack)
  ELSE \E b \in FactsOf(q) : /\ q[b].tp = p.tp /\ q[b].data = p.data /\ q[b].tp < tp
                             /\ \A j \in FactsOf(q) : q[j].tp < tp => q[j].tp <= q[b].tp

\* The entry before the bound is the last fact that was read before tp.
LEMMA BeforeIs ==
  ASSUME NEW s, NEW q, NEW N, Streaming(q, N), NEW n \in 0 .. N, NEW c \in Int, NEW tp \in Int, c < tp,
         Tracks(s, q, N, n, c), Passed(q, n, tp) \/ n = N,
         NEW k, k = LowerBound(s.data, tp), k # 1 => s.data[k - 1].fact
  PROVE LastBefore(q, tp, Before(s, k))
<1> SUFFICES IF Before(s, k) = Absent
        THEN \A j \in FactsOf(q) : q[j].tp < tp => ~(q[j].tp >= tp - Slack)
        ELSE \E b \in FactsOf(q) : /\ q[b].tp = Before(s, k).tp /\ q[b].data = Before(s, k).data
                                   /\ q[b].tp < tp
                                   /\ \A j \in FactsOf(q) : q[j].tp < tp => q[j].tp <= q[b].tp
  BY DEF LastBefore
<1> DEFINE V == ToSet(s.data)
<1>1. HasFacts(V, q, n, c) /\ HasRecent(s.recent, q, n, c) /\ Slack \in Nat
  BY MergerAssumption DEF Tracks
<1>2. Timed(Values(q), s.data) /\ \A v \in V : v.tp \in Nat
  BY TracksTyped
<1>3. s.recent # Absent => s.recent.tp \in Nat /\ s.recent.tp <= c
  BY TracksTyped, RecentBefore DEF Remembered
<1>4. ASSUME NEW j \in FactsOf(q), q[j].tp < tp PROVE j \in 1 .. n /\ FactHere(q, j) /\ q[j].tp \in Nat
  <2>1. q[j].tp \in Nat
    BY DEF FactsOf, Streaming
  <2>2. q[j].tp <= tp
    BY <1>4, <2>1
  <2> QED BY <2>2, PassedAreRead
<1>5. ASSUME NEW j \in 1 .. n, FactHere(q, j) PROVE j \in FactsOf(q)
  BY <1>5 DEF FactsOf, Streaming
<1>6. CASE k = 1
  <2>1. \A w \in V : w.tp >= tp
    BY <1>2, <1>6, BoundBefore
  <2>2. ASSUME NEW j \in FactsOf(q), q[j].tp < tp PROVE q[j].tp <= c /\ q[j].tp \in Nat
    BY <2>1, <2>2, <1>1, <1>2, <1>4 DEF HasFacts
  <2>3. Before(s, k) = s.recent
    BY <1>6 DEF Before
  <2>4. CASE s.recent = Absent
    <3>1. ASSUME NEW j \in FactsOf(q), q[j].tp < tp PROVE ~(q[j].tp >= tp - Slack)
      <4>1. q[j].tp < c - Slack
        BY <3>1, <2>2, <2>4, <1>1, <1>4 DEF HasRecent
      <4> QED BY <4>1, <2>2, <3>1, <1>1
    <3> QED BY <3>1, <2>3, <2>4
  <2>5. CASE s.recent # Absent
    <3>1. PICK b \in 1 .. n : FactHere(q, b) /\ q[b].tp = s.recent.tp /\ q[b].data = s.recent.data
      BY <2>5, <1>1 DEF HasRecent
    <3>2. \A j \in FactsOf(q) : q[j].tp < tp => q[j].tp <= q[b].tp
      BY <2>2, <2>5, <3>1, <1>1, <1>4 DEF HasRecent
    <3>3. q[b].tp < tp
      BY <3>1, <2>5, <1>3
    <3> QED BY <3>1, <3>2, <3>3, <2>3, <2>5, <1>5
  <2> QED BY <2>4, <2>5
<1>7. CASE k # 1
  <2> DEFINE w == s.data[k - 1]
  <2>1. w \in V /\ w.tp < tp /\ \A v \in V : v.tp < tp => v.tp <= w.tp
    BY <1>2, <1>7, BoundBefore
  <2>2. w.fact
    BY <1>7
  <2>3. Before(s, k) = [tp |-> w.tp, data |-> w.data]
    BY <1>7 DEF Before
  <2> HIDE DEF w
  <2>4. Before(s, k) # Absent /\ Before(s, k).tp = w.tp /\ Before(s, k).data = w.data
    <3>1. "absent" \notin DOMAIN Before(s, k) /\ "absent" \in DOMAIN Absent
      BY <2>3 DEF Absent
    <3> QED BY <2>3, <3>1
  <2>5. PICK b \in 1 .. n : FactHere(q, b) /\ q[b].tp = w.tp /\ q[b].data = w.data
    BY <2>1, <2>2, <1>1 DEF HasFacts
  <2>6. w.tp > c /\ w.tp \in Nat
    BY <2>1, <2>2, <1>1, <1>2 DEF HasFacts
  <2>7. ASSUME NEW j \in FactsOf(q), q[j].tp < tp PROVE q[j].tp <= w.tp
    <3>1. CASE q[j].tp > c
      BY <2>1, <2>7, <3>1, <1>1, <1>4 DEF HasFacts
    <3>2. CASE q[j].tp <= c
      BY <2>6, <2>7, <3>2, <1>4
    <3> QED BY <3>1, <3>2, <1>4, <2>7
  <2> QED BY <2>1, <2>4, <2>5, <2>7, <1>5
<1> QED BY <1>6, <1>7

\* A value that is factual is what the facts of the whole stream say, and
\* there is none where they say nothing.
LEMMA GetIsReference ==
  ASSUME NEW s, NEW q, NEW N, Streaming(q, N), NEW n \in 0 .. N, NEW c \in Int, NEW tp \in Int, c < tp,
         Tracks(s, q, N, n, c), NEW closed \in BOOLEAN, closed => n = N,
         \/ GetScalar(s, tp, tp - Slack, tp + Slack, closed).fact
         \/ Passed(q, n, tp + Slack)
         \/ s = EmptySink /\ Passed(q, n, tp)
  PROVE {GetScalar(s, tp, tp - Slack, tp + Slack, closed).value} \ {Absent} = Ref(q, tp)
<1> DEFINE V == ToSet(s.data)
<1> DEFINE k == LowerBound(s.data, tp)
<1> DEFINE none == k > Len(s.data)
<1> DEFINE v == s.data[k]
<1> DEFINE prev == Before(s, k)
<1> DEFINE got == GetScalar(s, tp, tp - Slack, tp + Slack, closed)
<1> DEFINE F == FactsOf(q)
<1>1. HasFacts(V, q, n, c) /\ HasGuesses(V, q, N, n, c) /\ HasRecent(s.recent, q, n, c)
  BY DEF Tracks
<1>2. Timed(Values(q), s.data) /\ FactsBefore(V) /\ \A w \in V : w.tp \in Nat /\ w.fact \in BOOLEAN
  BY TracksTyped, OrderedByTimes
<1>3. Slack \in Nat
  BY MergerAssumption
<1>4. got = IF closed /\ (none \/ ~v.fact) THEN [fact |-> TRUE, value |-> Absent]
            ELSE IF none THEN [fact |-> FALSE, value |-> Absent]
            ELSE [fact  |-> v.fact,
                  value |-> IF v.tp = tp THEN v.data
                            ELSE IF v.tp > tp + Slack \/ prev = Absent \/ prev.tp < tp - Slack THEN Absent
                            ELSE Interpolate(tp, prev.data, v.data)]
  BY DEF GetScalar, Before
<1>5. none => \A w \in V : w.tp < tp
  BY <1>2, BoundNone
<1>6. ~none => /\ k \in DOMAIN s.data /\ v \in V /\ v.tp >= tp
               /\ \A w \in V : w.tp >= tp => v.tp <= w.tp
  <2>1. k \in 1 .. Len(s.data) + 1 /\ Len(s.data) \in Nat
    BY <1>2, BoundSplits, TimedSeq
  <2> HIDE DEF k
  <2>2. k = LowerBound(s.data, tp)
    BY DEF k
  <2>3. ~none => k <= Len(s.data)
    BY <2>1
  <2> QED BY <1>2, <2>2, <2>3, BoundSome
<1>7. k # 1 => s.data[k - 1] \in V /\ s.data[k - 1].tp < tp
  <2> HIDE DEF k
  <2>2. k = LowerBound(s.data, tp)
    BY DEF k
  <2> QED BY <1>2, <2>2, BoundBefore
<1>8. \A j \in F : q[j].tp \in Nat
  BY DEF FactsOf, Streaming
<1> HIDE DEF V, k, none, got, F
<1>9. \/ got.fact
      \/ Passed(q, n, tp + Slack)
      \/ s = EmptySink /\ Passed(q, n, tp)
  BY DEF got
\* A fact from tp on that was read is an entry.
<1>10. ASSUME NEW j \in F, j \in 1 .. n, q[j].tp >= tp PROVE \E w \in V : w.fact /\ w.tp = q[j].tp
  BY <1>1, <1>8, <1>10 DEF HasFacts, F, FactsOf
<1>11. ASSUME \A w \in V : ~(w.tp >= tp /\ w.fact), Passed(q, n, tp + Slack) \/ n = N
       PROVE Ref(q, tp) = {}
  <2>1. ASSUME NEW j \in F, q[j].tp >= tp, q[j].tp <= tp + Slack PROVE FALSE
    <3>1. j \in 1 .. n
      BY <1>3, <1>11, <2>1, PassedAreRead DEF F
    <3> QED BY <1>10, <1>11, <2>1, <3>1
  <2>2. \A j \in F : q[j].tp # tp
    BY <2>1, <1>3, <1>8
  <2>3. \A j \in F : q[j].tp > tp => ~(q[j].tp <= tp + Slack)
    BY <2>1, <1>8
  <2> QED BY <2>2, <2>3, RefNone DEF F
<1>12. CASE closed /\ (none \/ ~v.fact)
  <2>1. got.value = Absent /\ n = N
    BY <1>4, <1>12
  <2>2. ASSUME NEW w \in V, w.tp >= tp, w.fact PROVE FALSE
    <3>1. CASE none
      BY <3>1, <1>2, <1>5, <2>2
    <3>2. CASE ~none /\ ~v.fact
      <4>1. v \in V /\ v.tp <= w.tp
        BY <3>2, <1>6, <2>2
      <4>2. v.tp # w.tp
        BY <4>1, <3>2, <2>2, <1>2, OrderedByTimes DEF V
      <4> QED BY <4>1, <4>2, <3>2, <2>2, <1>2 DEF FactsBefore
    <3> QED BY <3>1, <3>2, <1>12
  <2>3. Ref(q, tp) = {}
    BY <1>11, <2>1, <2>2
  <2> QED BY <2>1, <2>3 DEF got
<1>13. CASE none /\ ~closed
  <2>1. got.value = Absent /\ ~got.fact
    BY <1>4, <1>13
  <2>2. Ref(q, tp) = {}
    <3>1. CASE Passed(q, n, tp + Slack)
      <4>1. \A w \in V : ~(w.tp >= tp /\ w.fact)
        BY <1>2, <1>5, <1>13
      <4> QED BY <3>1, <4>1, <1>11
    <3>2. CASE s = EmptySink /\ Passed(q, n, tp)
      <4>1. V = {} /\ s.recent = Absent
        BY <3>2 DEF EmptySink, V, ToSet
      <4>2. ASSUME NEW j \in F, q[j].tp <= tp PROVE q[j].tp < c - Slack
        <5>1. j \in 1 .. n /\ FactHere(q, j)
          BY <3>2, <4>2, PassedAreRead DEF F
        <5>2. q[j].tp <= c
          BY <4>1, <5>1, <1>1, <1>8 DEF HasFacts
        <5> QED BY <4>1, <5>1, <5>2, <1>1 DEF HasRecent
      <4>3. \A j \in F : q[j].tp # tp
        BY <4>2, <1>3, <1>8
      <4>4. \A j \in F : q[j].tp < tp => ~(q[j].tp >= tp - Slack)
        BY <4>2, <1>3, <1>8
      <4> QED BY <4>3, <4>4, RefNone DEF F
    <3> QED BY <3>1, <3>2, <2>1, <1>9
  <2> QED BY <2>1, <2>2 DEF got
<1>14. CASE ~none /\ ~v.fact /\ ~closed
  <2>1. /\ got.fact = v.fact
        /\ got.value = IF v.tp = tp THEN v.data
                       ELSE IF v.tp > tp + Slack \/ prev = Absent \/ prev.tp < tp - Slack THEN Absent
                       ELSE Interpolate(tp, prev.data, v.data)
    BY <1>4, <1>14
  <2>2. v \in V /\ v.tp >= tp /\ v.tp \in Nat /\ \A w \in V : w.tp >= tp => v.tp <= w.tp
    BY <1>2, <1>6, <1>14
  <2>3. Passed(q, n, tp + Slack)
    <3>1. s # EmptySink
      BY <2>2 DEF EmptySink, V, ToSet
    <3> QED BY <3>1, <2>1, <1>9, <1>14
  <2>4. ~Passed(q, n, v.tp)
    BY <2>2, <1>1, <1>14 DEF HasGuesses
  <2>5. v.tp > tp + Slack
    <3>1. \A j \in 1 .. n : q[j].tp \in Nat
      BY DEF Streaming
    <3> QED BY <2>2, <2>3, <2>4, <3>1, <1>3 DEF Passed
  <2>6. got.value = Absent
    BY <2>1, <2>2, <2>5, <1>3
  <2>7. \A w \in V : ~(w.tp >= tp /\ w.fact)
    <3> SUFFICES ASSUME NEW w \in V, w.tp >= tp, w.fact PROVE FALSE
      OBVIOUS
    <3>1. v.tp <= w.tp /\ w.tp \in Nat
      BY <2>2, <1>2
    <3>2. v.tp # w.tp
      BY <2>2, <1>2, <1>14, OrderedByTimes DEF V
    <3> QED BY <2>2, <3>1, <3>2, <1>2, <1>14 DEF FactsBefore
  <2>8. Ref(q, tp) = {}
    BY <1>11, <2>3, <2>7
  <2> QED BY <2>6, <2>8 DEF got
<1>15. CASE ~none /\ v.fact
  <2>1. got.value = IF v.tp = tp THEN v.data
                    ELSE IF v.tp > tp + Slack \/ prev = Absent \/ prev.tp < tp - Slack THEN Absent
                    ELSE Interpolate(tp, prev.data, v.data)
    BY <1>4, <1>15
  <2>2. v \in V /\ v.tp >= tp /\ v.tp \in Nat /\ \A w \in V : w.tp >= tp => v.tp <= w.tp
    BY <1>2, <1>6, <1>15
  <2>3. PICK a \in 1 .. n : FactHere(q, a) /\ q[a].tp = v.tp /\ q[a].data = v.data
    BY <2>2, <1>1, <1>15 DEF HasFacts
  <2>4. a \in F /\ q[a].data # Absent /\ Passed(q, n, tp)
    BY <2>2, <2>3 DEF F, FactsOf, FactHere, Streaming, Passed
  <2>5. ASSUME NEW j \in F, q[j].tp >= tp PROVE v.tp <= q[j].tp
    <3> SUFFICES ASSUME q[j].tp < v.tp PROVE FALSE
      BY <2>2, <1>8
    <3>1. q[j].tp <= v.tp /\ Passed(q, n, v.tp)
      BY <2>2, <2>3, <1>8 DEF Passed, FactHere
    <3>2. j \in 1 .. n
      BY <3>1, <2>2, PassedAreRead DEF F
    <3>3. \E w \in V : w.tp = q[j].tp
      BY <3>2, <2>5, <1>10
    <3> QED BY <3>3, <2>2, <2>5, <1>8
  <2>6. CASE v.tp = tp
    <3>1. Ref(q, tp) = {v.data}
      BY <2>3, <2>4, <2>6, RefAt DEF F
    <3> QED BY <3>1, <2>1, <2>3, <2>4, <2>6 DEF got
  <2>7. CASE v.tp # tp
    <3>1. \A j \in F : q[j].tp # tp
      BY <2>2, <2>5, <2>7, <1>8
    <3>2. \A j \in F : q[j].tp > tp => q[j].tp >= v.tp
      BY <2>2, <2>5, <1>8
    <3>3. IF prev = Absent
          THEN \A j \in F : q[j].tp < tp => ~(q[j].tp >= tp - Slack)
          ELSE \E b \in F : /\ q[b].tp = prev.tp /\ q[b].data = prev.data
                            /\ q[b].tp < tp
                            /\ \A j \in F : q[j].tp < tp => q[j].tp <= q[b].tp
      <4>1. k # 1 => s.data[k - 1].fact
        BY <2>2, <1>2, <1>7, <1>15 DEF FactsBefore
      <4>2. k = LowerBound(s.data, tp)
        BY DEF k
      <4>3. Passed(q, n, tp) \/ n = N
        BY <2>4
      <4> HIDE DEF v
      <4>4. LastBefore(q, tp, Before(s, k))
        BY <4>1, <4>2, <4>3, BeforeIs
      <4> QED BY <4>4 DEF F, LastBefore
    <3> HIDE DEF prev
    <3>4. CASE v.tp > tp + Slack
      <4>1. \A j \in F : q[j].tp > tp => ~(q[j].tp <= tp + Slack)
        BY <3>2, <3>4, <2>2, <1>3, <1>8
      <4>2. Ref(q, tp) = {}
        BY <3>1, <4>1, RefNone DEF F
      <4> QED BY <4>2, <3>4, <2>1, <2>7 DEF got
    <3>5. CASE prev = Absent
      <4>1. Ref(q, tp) = {}
        BY <3>1, <3>3, <3>5, RefNone DEF F
      <4> QED BY <4>1, <3>5, <2>1, <2>7 DEF got
    <3>6. ASSUME prev # Absent, ~(v.tp > tp + Slack),
                 NEW b \in F, q[b].tp = prev.tp, q[b].data = prev.data, q[b].tp < tp,
                 \A j \in F : q[j].tp < tp => q[j].tp <= q[b].tp
          PROVE {got.value} \ {Absent} = Ref(q, tp)
      <4>1. CASE prev.tp < tp - Slack
        <5>1. \A j \in F : q[j].tp < tp => ~(q[j].tp >= tp - Slack)
          BY <3>6, <4>1, <1>3, <1>8
        <5>2. Ref(q, tp) = {}
          BY <3>1, <5>1, RefNone DEF F
        <5> QED BY <5>2, <4>1, <2>1, <2>7
      <4>2. CASE ~(prev.tp < tp - Slack)
        <5>1. got.value = Interpolate(tp, prev.data, v.data)
          BY <4>2, <3>6, <2>1, <2>7
        <5>2. q[b].tp >= tp - Slack /\ q[a].tp > tp /\ q[a].tp <= tp + Slack
          BY <4>2, <3>6, <2>2, <2>3, <2>7, <1>3, <1>8
        <5>3. \A j \in F : q[j].tp > tp => q[j].tp >= q[a].tp
          BY <3>2, <2>3
        <5>4. Ref(q, tp) = {Interpolate(tp, q[b].data, q[a].data)}
          BY <3>1, <3>6, <5>2, <5>3, <2>4, RefBetween DEF F
        <5>5. Interpolate(tp, prev.data, v.data) # Absent
          <6>1. "at" \in DOMAIN Interpolate(tp, prev.data, v.data) /\ "at" \notin DOMAIN Absent
            BY DEF Interpolate, Absent
          <6> QED BY <6>1
        <5> QED BY <5>1, <5>4, <5>5, <3>6, <2>3
      <4> QED BY <4>1, <4>2
    <3> QED BY <3>3, <3>4, <3>5, <3>6 DEF got
  <2> QED BY <2>6, <2>7
<1> QED BY <1>12, <1>13, <1>14, <1>15, <1>6

(* -------------------- streams and their tag sets --------------------- *)

\* What a stream says of a tag set.
Hear(kind, says, t) ==
  [k \in DOMAIN says |->
     [tp   |-> says[k].tp,
      fact |-> says[k].fact,
      here |-> kind = "scalar" \/ t \in DOMAIN says[k].data,
      data |-> IF kind = "scalar" THEN says[k].data
               ELSE IF t \in DOMAIN says[k].data THEN says[k].data[t] ELSE Absent]]

Disciplined(kind, says) == Emissions(kind, says) /\ Final(says) /\ Confirmed(kind, says)

\* The emissions of a stream, typed.
LEMMA SaysTyped ==
  ASSUME NEW kind, NEW says, Disciplined(kind, says)
  PROVE /\ Len(says) \in Nat /\ DOMAIN says = 1 .. Len(says)
        /\ \A k \in 1 .. Len(says) : says[k].tp \in Nat /\ says[k].fact \in BOOLEAN
        /\ kind = "scalar" => \A k \in 1 .. Len(says) : says[k].data # Absent
        /\ kind # "scalar" => \A k \in 1 .. Len(says) :
             IsFiniteSet(DOMAIN says[k].data) /\ \A t \in DOMAIN says[k].data : says[k].data[t] # Absent
<1> DEFINE T == [tp : Nat, fact : BOOLEAN, data : {e.data : e \in ToSet(says)}]
<1>1. says \in Seq(T)
  BY DEF Disciplined, Emissions
<1>2. Len(says) \in Nat /\ DOMAIN says = 1 .. Len(says) /\ \A k \in 1 .. Len(says) : says[k] \in T
  <2> HIDE DEF T
  <2> QED BY <1>1, LenProperties, ElementOfSeq
<1>3. \A k \in 1 .. Len(says) : says[k] \in ToSet(says)
  BY <1>2 DEF ToSet
<1>4. \A e \in ToSet(says) :
        IF kind = "scalar" THEN e.data # Absent
        ELSE IsFiniteSet(DOMAIN e.data) /\ \A t \in DOMAIN e.data : e.data[t] # Absent
  BY DEF Disciplined, Emissions
<1> QED BY <1>2, <1>3, <1>4

\* What is heard, by emission.
LEMMA HearIs ==
  ASSUME NEW kind, NEW says, NEW t, NEW k \in DOMAIN says
  PROVE /\ Hear(kind, says, t)[k].tp = says[k].tp
        /\ Hear(kind, says, t)[k].fact = says[k].fact
        /\ Hear(kind, says, t)[k].here = (kind = "scalar" \/ t \in DOMAIN says[k].data)
        /\ Hear(kind, says, t)[k].data = IF kind = "scalar" THEN says[k].data
                                         ELSE IF t \in DOMAIN says[k].data THEN says[k].data[t] ELSE Absent
BY DEF Hear

\* Every tag set hears a stream in the sense of this module.
LEMMA HeardStreams ==
  ASSUME NEW kind \in {"scalar", "vector"}, NEW says, Disciplined(kind, says), NEW t
  PROVE Streaming(Hear(kind, says, t), Len(says))
<1> DEFINE q == Hear(kind, says, t)
<1> DEFINE N == Len(says)
<1> DEFINE name == IF kind = "scalar" THEN "the scalar" ELSE t
<1>1. /\ N \in Nat /\ DOMAIN says = 1 .. N
      /\ \A k \in 1 .. N : says[k].tp \in Nat /\ says[k].fact \in BOOLEAN
  BY SaysTyped
<1>2. DOMAIN q = 1 .. N
  BY <1>1 DEF Hear
<1>3. \A k \in 1 .. N : /\ q[k].tp = says[k].tp /\ q[k].fact = says[k].fact
                        /\ q[k].here = (kind = "scalar" \/ t \in DOMAIN says[k].data)
                        /\ q[k].data = IF kind = "scalar" THEN says[k].data
                                       ELSE IF t \in DOMAIN says[k].data THEN says[k].data[t] ELSE Absent
  BY <1>1, HearIs
<1> HIDE DEF q
<1>4. \A k \in 1 .. N : q[k].here => name \in Names(kind, says[k])
  BY <1>3 DEF Names
<1>5. \A k \in 1 .. N : name \in Names(kind, says[k]) => q[k].here
  BY <1>3 DEF Names
<1>6. \A k \in 1 .. N : /\ q[k].tp \in Nat /\ q[k].fact \in BOOLEAN /\ q[k].here \in BOOLEAN
                        /\ q[k].here => q[k].data # Absent
  <2> SUFFICES ASSUME NEW k \in 1 .. N
               PROVE /\ q[k].tp \in Nat /\ q[k].fact \in BOOLEAN /\ q[k].here \in BOOLEAN
                     /\ q[k].here => q[k].data # Absent
    OBVIOUS
  <2>1. q[k].tp \in Nat /\ q[k].fact \in BOOLEAN /\ q[k].here \in BOOLEAN
    BY <1>1, <1>3
  <2>2. CASE kind = "scalar"
    BY <1>3, <2>1, <2>2, SaysTyped
  <2>3. CASE kind # "scalar"
    BY <1>3, <2>1, <2>3, SaysTyped
  <2> QED BY <2>2, <2>3
<1> HIDE DEF name
<1>7. ASSUME NEW j \in 1 .. N, NEW k \in 1 .. N, j < k, q[j].fact PROVE q[j].tp < q[k].tp
  BY <1>1, <1>3, <1>7 DEF Disciplined, Final
<1>8. ASSUME NEW j \in 1 .. N, NEW k \in 1 .. N, j < k, ~q[j].fact, q[j].here, q[k].fact
      PROVE /\ q[j].tp = q[k].tp => q[k].here
            /\ q[j].tp < q[k].tp /\ q[k].here =>
                 \E m \in 1 .. k - 1 : IF q[m].fact THEN m > j /\ q[j].tp <= q[m].tp
                                      ELSE q[m].here /\ q[k].tp <= q[m].tp
  <2>1. name \in Names(kind, says[j]) /\ ~says[j].fact /\ says[k].fact
    BY <1>3, <1>4, <1>8
  <2>2. /\ says[j].tp = says[k].tp => name \in Names(kind, says[k])
        /\ says[j].tp < says[k].tp /\ name \in Names(kind, says[k]) =>
             \E m \in 1 .. k - 1 : IF says[m].fact THEN m > j /\ says[j].tp <= says[m].tp
                                  ELSE name \in Names(kind, says[m]) /\ says[k].tp <= says[m].tp
    BY <2>1, <1>1, <1>8 DEF Disciplined, Confirmed
  <2>3. q[j].tp = q[k].tp => q[k].here
    BY <2>2, <1>3, <1>5
  <2>4. ASSUME q[j].tp < q[k].tp, q[k].here
        PROVE \E m \in 1 .. k - 1 : IF q[m].fact THEN m > j /\ q[j].tp <= q[m].tp
                                   ELSE q[m].here /\ q[k].tp <= q[m].tp
    <3>1. PICK m \in 1 .. k - 1 : IF says[m].fact THEN m > j /\ says[j].tp <= says[m].tp
                                  ELSE name \in Names(kind, says[m]) /\ says[k].tp <= says[m].tp
      BY <2>2, <2>4, <1>3, <1>4
    <3>2. m \in 1 .. N
      BY <1>1
    <3> QED BY <3>1, <3>2, <1>3, <1>5
  <2> QED BY <2>3, <2>4
<1>9. \A j, k \in 1 .. N : j < k /\ q[j].fact => q[j].tp < q[k].tp
  BY <1>7
<1>10. \A j, k \in 1 .. N : j < k /\ ~q[j].fact /\ q[j].here /\ q[k].fact =>
       /\ q[j].tp = q[k].tp => q[k].here
       /\ q[j].tp < q[k].tp /\ q[k].here =>
            \E m \in 1 .. k - 1 : IF q[m].fact THEN m > j /\ q[j].tp <= q[m].tp
                                 ELSE q[m].here /\ q[k].tp <= q[m].tp
  BY <1>8
<1> HIDE DEF N
<1>11. Streaming(q, N)
  BY <1>1, <1>2, <1>6, <1>9, <1>10 DEF Streaming
<1> QED BY <1>11 DEF q, N

\* All tag sets hear the same times.
LEMMA HeardPassed ==
  ASSUME NEW kind, NEW says, Disciplined(kind, says), NEW t, NEW n \in 0 .. Len(says), NEW tp
  PROVE Passed(Hear(kind, says, t), n, tp) <=> Passed(says, n, tp)
<1>1. \A k \in 1 .. n : k \in DOMAIN says
  BY SaysTyped
<1>2. \A k \in 1 .. n : /\ Hear(kind, says, t)[k].tp = says[k].tp
                        /\ Hear(kind, says, t)[k].fact = says[k].fact
  BY <1>1, HearIs
<1> QED BY <1>2 DEF Passed

\* The least of a finite set of times.
LEMMA LeastOfTimes ==
  ASSUME NEW S \in SUBSET Int, IsFiniteSet(S), S # {}
  PROVE Least(S) \in S /\ \A m \in S : Least(S) <= m
<1>1. \E m \in S : \A k \in S : m <= k
  BY FiniteMin
<1> QED BY <1>1 DEF Least

\* The least time there is, none in an empty set.
First(times) == IF times = {} THEN NoTime ELSE Least(times)

\* A family of times has a first one.
LEMMA FirstIs ==
  ASSUME NEW D, IsFiniteSet(D), NEW f, \A t \in D : f[t] \in Int
  PROVE LET S == {f[t] : t \in D} \ {NoTime}
        IN /\ First(S) = NoTime => S = {}
           /\ First(S) # NoTime => First(S) \in S
           /\ \A m \in S : First(S) <= m /\ First(S) # NoTime
<1> DEFINE S == {f[t] : t \in D} \ {NoTime}
<1>1. IsFiniteSet({f[t] : t \in D})
  <2> DEFINE g == [t \in D |-> f[t]]
  <2>1. g \in Surjection(D, {f[t] : t \in D})
    BY DEF Surjection
  <2> QED BY <2>1, FS_Surjection
<1>2. IsFiniteSet(S)
  <2> DEFINE U == {f[t] : t \in D}
  <2>1. S \subseteq U
    OBVIOUS
  <2> HIDE DEF U, S
  <2>2. IsFiniteSet(U)
    BY <1>1 DEF U
  <2> QED BY <2>1, <2>2, FS_Subset
<1>3. S \in SUBSET Int /\ NoTime \notin S
  OBVIOUS
<1> HIDE DEF S
<1>4. S # {} => Least(S) \in S /\ \A m \in S : Least(S) <= m
  BY <1>2, <1>3, LeastOfTimes
<1>5. /\ First(S) = NoTime => S = {}
      /\ First(S) # NoTime => First(S) \in S
      /\ \A m \in S : First(S) <= m /\ First(S) # NoTime
  BY <1>3, <1>4 DEF First
<1> QED BY <1>5 DEF S

(* --------------------------- a vector sink --------------------------- *)

\* The entry of a tag set among those of a vector.
AtTag(data, t) == IF t \in DOMAIN data THEN data[t] ELSE EmptySink

LastFact(says, n, last) ==
  /\ last \in Int /\ last >= NoTime
  /\ last = NoTime \/ \E k \in 1 .. n : says[k].fact /\ says[k].tp = last
  /\ \A k \in 1 .. n : says[k].fact => says[k].tp <= last

\* What the sink of a vector knows: of every tag set, and of the last fact.
VectorKept(says, n, s, c) ==
  /\ s = [data |-> s.data, last |-> s.last, done |-> s.done]
  /\ IsFiniteSet(DOMAIN s.data)
  /\ \A t \in DOMAIN s.data : s.data[t] # EmptySink
  /\ \A t : Tracks(AtTag(s.data, t), Hear("vector", says, t), Len(says), n, c)
  /\ LastFact(says, n, s.last)

\* Entries without content may go.
LEMMA HeldIs ==
  ASSUME NEW data, \A t \in DOMAIN data : IsEmpty(data[t]) <=> data[t] = EmptySink
  PROVE /\ \A t : AtTag(Held(data), t) = AtTag(data, t)
        /\ DOMAIN Held(data) \subseteq DOMAIN data
        /\ \A t \in DOMAIN Held(data) : Held(data)[t] # EmptySink
<1>2. DOMAIN Held(data) = {t \in DOMAIN data : ~IsEmpty(data[t])}
  BY DEF Held, Restrict
<1>3. \A t \in DOMAIN Held(data) : Held(data)[t] = data[t]
  BY <1>2 DEF Held, Restrict
<1> QED BY <1>2, <1>3 DEF AtTag

\* Sinks that track something are empty when they are new.
LEMMA TrackedEmpty ==
  ASSUME NEW s, NEW q, NEW N, NEW n, NEW c, Tracks(s, q, N, n, c)
  PROVE IsEmpty(s) <=> s = EmptySink
<1>1. SinkOver(Values(q), s)
  BY DEF Tracks
<1> QED BY <1>1, EmptyIs

\* Nothing is dropped from a new sink.
LEMMA DropNothing ==
  ASSUME NEW tp \in Nat
  PROVE DropSpeculativeBefore(EmptySink, tp) = EmptySink
<1>1. Timed({}, << >>)
  BY DEF Timed
<1>2. ToSet(<< >>) = {}
  BY DEF ToSet
<1>3. Ordered({}, << >>)
  BY <1>1, <1>2, OrderedByTimes DEF FactsBefore
<1>4. SinkOver({}, EmptySink)
  BY <1>3 DEF SinkOver, EmptySink, Remembered
<1>5. PICK data : /\ DropSpeculativeBefore(EmptySink, tp) = [EmptySink EXCEPT !.data = data]
                  /\ Ordered({}, data)
                  /\ \A v : v \in ToSet(data) <=> v \in ToSet(EmptySink.data) /\ (v.fact \/ v.tp >= tp)
  BY <1>4, DropIs
<1>6. ToSet(data) = {}
  BY <1>2, <1>5 DEF EmptySink
<1>7. data = << >>
  BY <1>5, <1>6, NoEntries DEF Ordered
<1> QED BY <1>5, <1>7 DEF EmptySink

\* The last fact, one emission later.
LEMMA LastFactGrows ==
  ASSUME NEW kind, NEW says, Disciplined(kind, says), NEW n \in Nat, n < Len(says), NEW last, LastFact(says, n, last)
  PROVE /\ says[n + 1].fact => LastFact(says, n + 1, says[n + 1].tp)
        /\ ~says[n + 1].fact => LastFact(says, n + 1, last)
<1>1. /\ Len(says) \in Nat /\ DOMAIN says = 1 .. Len(says)
      /\ \A k \in 1 .. Len(says) : says[k].tp \in Nat /\ says[k].fact \in BOOLEAN
  BY SaysTyped
<1>2. n + 1 \in 1 .. Len(says) /\ 1 .. n + 1 = (1 .. n) \cup {n + 1} /\ \A k \in 1 .. n : k \in 1 .. Len(says) /\ k < n + 1
  BY <1>1
<1>3. ASSUME says[n + 1].fact PROVE LastFact(says, n + 1, says[n + 1].tp)
  <2>1. \A k \in 1 .. n + 1 : says[k].fact => says[k].tp <= says[n + 1].tp
    BY <1>1, <1>2 DEF Disciplined, Final
  <2>2. says[n + 1].tp \in Int /\ says[n + 1].tp >= NoTime
    BY <1>1, <1>2 DEF NoTime
  <2> QED BY <2>1, <2>2, <1>2, <1>3 DEF LastFact
<1>4. ASSUME ~says[n + 1].fact PROVE LastFact(says, n + 1, last)
  BY <1>2, <1>4 DEF LastFact
<1> QED BY <1>3, <1>4

\* A vector reads a fact.
LEMMA VectorReadsFact ==
  ASSUME NEW says, Disciplined("vector", says), NEW n \in Nat, n < Len(says), NEW c \in Int,
         c < says[n + 1].tp, says[n + 1].fact, NEW s, VectorKept(says, n, s, c)
  PROVE /\ AcceptVector(s, says[n + 1]).ok
        /\ VectorKept(says, n + 1, AcceptVector(s, says[n + 1]).sink, c)
        /\ AcceptVector(s, says[n + 1]).sink.last = says[n + 1].tp
<1> DEFINE e == says[n + 1]
<1> DEFINE N == Len(says)
<1> DEFINE q(t) == Hear("vector", says, t)
<1> DEFINE Of(t) == AcceptScalar(AtTag(s.data, t), [tp |-> e.tp, fact |-> e.fact, data |-> e.data[t]])
<1> DEFINE all == DOMAIN e.data \cup DOMAIN s.data
<1> DEFINE data == [t \in all |-> IF t \in DOMAIN e.data THEN Of(t).sink ELSE s.data[t]]
<1> DEFINE R == [t \in all |-> DropSpeculativeBefore(data[t], e.tp)]
<1> DEFINE r == [data |-> Held(R), last |-> e.tp, done |-> FALSE]
<1>1. AcceptVector(s, e) = [ok |-> TRUE, sink |-> r]
  BY DEF AcceptVector, EntryOf, AtTag
<1>2. /\ N \in Nat /\ DOMAIN says = 1 .. N /\ n + 1 \in 1 .. N
      /\ e.tp \in Nat /\ e.fact \in BOOLEAN /\ IsFiniteSet(DOMAIN e.data)
  BY SaysTyped
<1>3. ASSUME NEW t
      PROVE /\ Streaming(q(t), N)
            /\ q(t)[n + 1].tp = e.tp /\ q(t)[n + 1].fact
            /\ q(t)[n + 1].here = (t \in DOMAIN e.data)
            /\ t \in DOMAIN e.data => q(t)[n + 1].data = e.data[t]
            /\ Passed(q(t), n + 1, e.tp)
  <2>1. Streaming(q(t), N)
    BY HeardStreams
  <2>2. /\ q(t)[n + 1].tp = e.tp
        /\ q(t)[n + 1].here = (t \in DOMAIN e.data)
        /\ t \in DOMAIN e.data => q(t)[n + 1].data = e.data[t]
    BY <1>2, HearIs
  <2>3. q(t)[n + 1].fact
    BY <1>2, HearIs
  <2>4. Passed(q(t), n + 1, e.tp)
    <3>1. n + 1 \in 1 .. n + 1 /\ e.tp <= q(t)[n + 1].tp
      BY <2>2, <1>2
    <3>2. q(t)[n + 1].fact
      BY <2>3
    <3> HIDE DEF e, q
    <3> QED BY <3>1, <3>2 DEF Passed
  <2> QED BY <2>1, <2>2, <2>3, <2>4
<1>4. ASSUME NEW t PROVE Tracks(AtTag(s.data, t), q(t), N, n, c)
  BY DEF VectorKept
<1> HIDE DEF q, N, e
<1>5. ASSUME NEW t \in DOMAIN e.data PROVE Tracks(DropSpeculativeBefore(Of(t).sink, e.tp), q(t), N, n + 1, c)
  <2> DEFINE f == [tp |-> e.tp, fact |-> e.fact, data |-> e.data[t]]
  <2>1. FactHere(q(t), n + 1) /\ c < q(t)[n + 1].tp /\ n < N
    BY <1>3 DEF FactHere, e, N
  <2>2. f.tp = q(t)[n + 1].tp /\ f.data = q(t)[n + 1].data /\ f.fact = TRUE
    BY <1>2, <1>3 DEF e
  <2> HIDE DEF f
  <2>3. Tracks(AcceptScalar(AtTag(s.data, t), f).sink, q(t), N, n + 1, c)
    BY <2>1, <2>2, <1>3, <1>4, ReadsFact
  <2>4. Tracks(Of(t).sink, q(t), N, n + 1, c)
    BY <2>3 DEF f
  <2>5. n + 1 \in 0 .. N
    BY <1>2
  <2> HIDE DEF Of
  <2> QED BY <2>4, <2>5, <1>2, <1>3, DropKeeps
<1>6. ASSUME NEW t, t \notin DOMAIN e.data
      PROVE Tracks(DropSpeculativeBefore(AtTag(s.data, t), e.tp), q(t), N, n + 1, c)
  <2>1. q(t)[n + 1].fact /\ ~q(t)[n + 1].here /\ c < q(t)[n + 1].tp /\ n < N /\ q(t)[n + 1].tp = e.tp
    BY <1>3, <1>6 DEF e, N
  <2>2. Tracks(DropSpeculativeBefore(AtTag(s.data, t), q(t)[n + 1].tp), q(t), N, n + 1, c)
    BY <2>1, <1>3, <1>4, ReadsAbsence
  <2> QED BY <2>1, <2>2
<1> HIDE DEF Of
<1>7. ASSUME NEW t PROVE Tracks(AtTag(R, t), q(t), N, n + 1, c)
  <2>1. CASE t \in DOMAIN e.data
    BY <2>1, <1>5 DEF AtTag
  <2>2. CASE t \notin DOMAIN e.data /\ t \in DOMAIN s.data
    BY <2>2, <1>6 DEF AtTag
  <2>3. CASE t \notin all
    BY <2>3, <1>2, <1>6, DropNothing DEF AtTag
  <2> QED BY <2>1, <2>2, <2>3
<1>8. \A t \in DOMAIN R : IsEmpty(R[t]) <=> R[t] = EmptySink
  <2> SUFFICES ASSUME NEW t \in DOMAIN R PROVE IsEmpty(R[t]) <=> R[t] = EmptySink
    OBVIOUS
  <2>1. R[t] = AtTag(R, t)
    BY DEF AtTag
  <2>2. Tracks(AtTag(R, t), q(t), N, n + 1, c)
    BY <1>7
  <2> HIDE DEF R
  <2> QED BY <2>1, <2>2, TrackedEmpty
<1>9. IsFiniteSet(DOMAIN R)
  <2>1. IsFiniteSet(DOMAIN s.data)
    BY DEF VectorKept
  <2>2. IsFiniteSet(DOMAIN e.data \cup DOMAIN s.data)
    BY <2>1, <1>2, FS_Union
  <2> QED BY <2>2
<1> HIDE DEF R, data
<1>10. /\ \A t : AtTag(Held(R), t) = AtTag(R, t)
       /\ DOMAIN Held(R) \subseteq DOMAIN R
       /\ \A t \in DOMAIN Held(R) : Held(R)[t] # EmptySink
  BY <1>8, HeldIs
<1>11. IsFiniteSet(DOMAIN Held(R))
  BY <1>9, <1>10, FS_Subset
<1>12. LastFact(says, n + 1, e.tp)
  BY LastFactGrows DEF e, VectorKept
<1>13. \A t : Tracks(AtTag(r.data, t), q(t), N, n + 1, c)
  BY <1>7, <1>10
<1>14. /\ r = [data |-> r.data, last |-> r.last, done |-> r.done]
       /\ r.data = Held(R) /\ r.last = e.tp
  OBVIOUS
<1> HIDE DEF r
<1>15. VectorKept(says, n + 1, r, c)
  BY <1>10, <1>11, <1>12, <1>13, <1>14 DEF VectorKept, q, N
<1> QED BY <1>1, <1>14, <1>15 DEF e

\* A vector reads a guess.
LEMMA VectorReadsGuess ==
  ASSUME NEW says, Disciplined("vector", says), NEW n \in Nat, n < Len(says), NEW c \in Int,
         c < says[n + 1].tp, ~says[n + 1].fact, NEW s, VectorKept(says, n, s, c)
  PROVE /\ AcceptVector(s, says[n + 1]).ok
        /\ VectorKept(says, n + 1, AcceptVector(s, says[n + 1]).sink, c)
        /\ AcceptVector(s, says[n + 1]).sink.last = s.last
        /\ DOMAIN s.data \subseteq DOMAIN AcceptVector(s, says[n + 1]).sink.data
<1> DEFINE e == says[n + 1]
<1> DEFINE N == Len(says)
<1> DEFINE q(t) == Hear("vector", says, t)
<1> DEFINE Of(t) == AcceptScalar(AtTag(s.data, t), [tp |-> e.tp, fact |-> e.fact, data |-> e.data[t]])
<1> DEFINE all == DOMAIN e.data \cup DOMAIN s.data
<1> DEFINE data == [t \in all |-> IF t \in DOMAIN e.data THEN Of(t).sink ELSE s.data[t]]
<1> DEFINE r == [s EXCEPT !.data = data]
<1>1. AcceptVector(s, e) = [ok |-> \A t \in DOMAIN e.data : Of(t).ok, sink |-> r]
  BY DEF AcceptVector, EntryOf, AtTag
<1>2. /\ N \in Nat /\ DOMAIN says = 1 .. N /\ n + 1 \in 1 .. N
      /\ e.tp \in Nat /\ e.fact \in BOOLEAN /\ IsFiniteSet(DOMAIN e.data)
  BY SaysTyped
<1>3. ASSUME NEW t
      PROVE /\ Streaming(q(t), N)
            /\ q(t)[n + 1].tp = e.tp /\ q(t)[n + 1].fact = e.fact
            /\ q(t)[n + 1].here = (t \in DOMAIN e.data)
            /\ t \in DOMAIN e.data => q(t)[n + 1].data = e.data[t]
  <2>1. Streaming(q(t), N)
    BY HeardStreams
  <2>2. /\ q(t)[n + 1].tp = e.tp /\ q(t)[n + 1].fact = e.fact
        /\ q(t)[n + 1].here = (t \in DOMAIN e.data)
        /\ t \in DOMAIN e.data => q(t)[n + 1].data = e.data[t]
    BY <1>2, HearIs
  <2> QED BY <2>1, <2>2
<1>4. ASSUME NEW t PROVE Tracks(AtTag(s.data, t), q(t), N, n, c)
  BY DEF VectorKept
<1> HIDE DEF q, N, e
<1>5. ASSUME NEW t \in DOMAIN e.data
      PROVE Of(t).ok /\ Tracks(Of(t).sink, q(t), N, n + 1, c) /\ Of(t).sink # EmptySink
  <2> DEFINE f == [tp |-> e.tp, fact |-> e.fact, data |-> e.data[t]]
  <2>1. GuessHere(q(t), n + 1) /\ c < q(t)[n + 1].tp /\ n < N
    BY <1>3 DEF GuessHere, e, N
  <2>2. f.tp = q(t)[n + 1].tp /\ f.data = q(t)[n + 1].data /\ f.fact \in BOOLEAN /\ ~f.fact
    BY <1>2, <1>3 DEF e
  <2> HIDE DEF f
  <2>3. /\ AcceptScalar(AtTag(s.data, t), f).ok /\ Tracks(AcceptScalar(AtTag(s.data, t), f).sink, q(t), N, n + 1, c)
        /\ ~IsEmpty(AcceptScalar(AtTag(s.data, t), f).sink)
    BY <2>1, <2>2, <1>3, <1>4, ReadsGuess
  <2>4. Of(t) = AcceptScalar(AtTag(s.data, t), f)
    BY DEF f
  <2> QED BY <2>3, <2>4 DEF IsEmpty, EmptySink
<1>6. ASSUME NEW t, t \notin DOMAIN e.data PROVE Tracks(AtTag(s.data, t), q(t), N, n + 1, c)
  <2>1. ~q(t)[n + 1].fact /\ ~q(t)[n + 1].here /\ n < N
    BY <1>3, <1>6 DEF e, N
  <2> QED BY <2>1, <1>3, <1>4, ReadsOther
<1> HIDE DEF Of
<1>7. ASSUME NEW t PROVE Tracks(AtTag(data, t), q(t), N, n + 1, c)
  <2>1. CASE t \in DOMAIN e.data
    BY <2>1, <1>5 DEF AtTag
  <2>2. CASE t \notin DOMAIN e.data
    BY <2>2, <1>6 DEF AtTag
  <2> QED BY <2>1, <2>2
<1>8. \A t \in DOMAIN data : data[t] # EmptySink
  <2> SUFFICES ASSUME NEW t \in all PROVE data[t] # EmptySink
    OBVIOUS
  <2>1. \A x \in DOMAIN s.data : s.data[x] # EmptySink
    BY DEF VectorKept
  <2> QED BY <2>1, <1>5
<1>9. IsFiniteSet(DOMAIN data) /\ DOMAIN s.data \subseteq DOMAIN data
  <2>1. IsFiniteSet(DOMAIN s.data)
    BY DEF VectorKept
  <2>2. IsFiniteSet(DOMAIN e.data \cup DOMAIN s.data)
    BY <2>1, <1>2, FS_Union
  <2> QED BY <2>2
<1> HIDE DEF data
<1>10. LastFact(says, n + 1, s.last)
  BY LastFactGrows DEF e, VectorKept
<1>11. r = [data |-> data, last |-> s.last, done |-> s.done]
  <2>1. s = [data |-> s.data, last |-> s.last, done |-> s.done]
    BY DEF VectorKept
  <2> QED BY <2>1
<1> HIDE DEF r
<1>12. r.data = data /\ r.last = s.last /\ r = [data |-> r.data, last |-> r.last, done |-> r.done]
  BY <1>11
<1>13. VectorKept(says, n + 1, r, c)
  BY <1>7, <1>8, <1>9, <1>10, <1>12 DEF VectorKept, q, N
<1>14. AcceptVector(s, e).ok /\ AcceptVector(s, e).sink = r
  BY <1>1, <1>5
<1> QED BY <1>9, <1>12, <1>13, <1>14 DEF e

\* To mark the entries of a sink that has some leaves them.
LEMMA MarkNotEmpty ==
  ASSUME NEW D, NEW s, SinkOver(D, s), NEW tp, s # EmptySink
  PROVE MarkScalar(s, tp) # EmptySink
<1> DEFINE X == [k \in DOMAIN s.data |->
      IF s.data[k].tp = tp THEN [s.data[k] EXCEPT !.emitted = TRUE] ELSE s.data[k]]
<1>1. s = [data |-> s.data, recent |-> s.recent] /\ Timed(D, s.data)
  BY DEF SinkOver, Ordered
<1>2. MarkScalar(s, tp) = [data |-> X, recent |-> s.recent]
  <2>1. MarkScalar(s, tp) = [s EXCEPT !.data = X]
    BY DEF MarkScalar
  <2> HIDE DEF X
  <2> QED BY <1>1, <2>1
<1>3. ASSUME X = << >> PROVE s.data = << >>
  <2>1. DOMAIN s.data = {}
    BY <1>3
  <2>2. ToSet(s.data) = {}
    BY <2>1 DEF ToSet
  <2> QED BY <2>2, <1>1, NoEntries
<1> HIDE DEF X
<1> QED BY <1>1, <1>2, <1>3 DEF EmptySink

\* The entries of a vector are marked.
LEMMA VectorMarks ==
  ASSUME NEW says, NEW n, NEW c, NEW s, VectorKept(says, n, s, c), NEW tp
  PROVE VectorKept(says, n, MarkVector(s, tp), c)
<1> DEFINE data == [t \in DOMAIN s.data |-> MarkScalar(s.data[t], tp)]
<1> DEFINE r == MarkVector(s, tp)
<1> DEFINE q(t) == Hear("vector", says, t)
<1>1. s = [data |-> s.data, last |-> s.last, done |-> s.done]
  BY DEF VectorKept
<1>2. r = [data |-> data, last |-> s.last, done |-> s.done]
  BY <1>1 DEF MarkVector
<1>3. ASSUME NEW t PROVE Tracks(AtTag(data, t), q(t), Len(says), n, c)
  <2>1. Tracks(AtTag(s.data, t), q(t), Len(says), n, c)
    BY DEF VectorKept
  <2>2. CASE t \in DOMAIN s.data
    <3>1. Tracks(MarkScalar(AtTag(s.data, t), tp), q(t), Len(says), n, c)
      BY <2>1, MarkKeeps
    <3> QED BY <3>1, <2>2 DEF AtTag
  <2>3. CASE t \notin DOMAIN s.data
    BY <2>1, <2>3 DEF AtTag
  <2> QED BY <2>2, <2>3
<1>4. ASSUME NEW t \in DOMAIN s.data PROVE data[t] # EmptySink
  <2>1. SinkOver(Values(q(t)), AtTag(s.data, t))
    BY DEF VectorKept, Tracks
  <2>2. SinkOver(Values(q(t)), s.data[t]) /\ s.data[t] # EmptySink
    BY <2>1 DEF AtTag, VectorKept
  <2> QED BY <2>2, MarkNotEmpty
<1>5. IsFiniteSet(DOMAIN data) /\ LastFact(says, n, s.last)
  BY DEF VectorKept
<1>6. \A t \in DOMAIN data : data[t] # EmptySink
  BY <1>4
<1> HIDE DEF data, r
<1>7. r.data = data /\ r.last = s.last /\ r = [data |-> r.data, last |-> r.last, done |-> r.done]
  BY <1>2
<1>8. VectorKept(says, n, r, c)
  BY <1>3, <1>5, <1>6, <1>7 DEF VectorKept
<1> QED BY <1>8 DEF r

\* Nothing is dropped from a new sink, and nothing remembered.
LEMMA ForwardNothing ==
  ASSUME NEW tp \in Int, NEW expire \in Int
  PROVE ForwardScalar(EmptySink, tp, expire) = EmptySink
<1>1. Timed({}, << >>)
  BY DEF Timed
<1>2. ToSet(<< >>) = {}
  BY DEF ToSet
<1>3. Ordered({}, << >>)
  BY <1>1, <1>2, OrderedByTimes DEF FactsBefore
<1>4. SinkOver({}, EmptySink) /\ EmptySink.recent = Absent /\ EmptySink.data = << >>
  BY <1>3 DEF SinkOver, EmptySink, Remembered
<1>5. PICK data, recent :
          /\ ForwardScalar(EmptySink, tp, expire) = [data |-> data, recent |-> recent]
          /\ Ordered({}, data)
          /\ recent \in Remembered({})
          /\ \A v : v \in ToSet(data) <=> v \in ToSet(EmptySink.data) /\ v.tp > tp
          /\ Leaves(EmptySink, tp, expire, recent)
  BY <1>4, ForwardIs
<1>6. ToSet(data) = {}
  BY <1>2, <1>4, <1>5
<1>7. data = << >>
  BY <1>5, <1>6, NoEntries DEF Ordered
<1>8. recent = Absent
  BY <1>2, <1>4, <1>5 DEF Leaves
<1> QED BY <1>5, <1>7, <1>8 DEF EmptySink

\* The cut of an input moves to the time of a fact that it has passed.
Cut(says, n, c, tp) == IF c < tp /\ (Passed(says, n, tp) \/ n = Len(says)) THEN tp ELSE c

\* A vector drops what is up to tp.
LEMMA VectorForwards ==
  ASSUME NEW says, Disciplined("vector", says), NEW n \in 0 .. Len(says), NEW c \in Int, NEW s,
         VectorKept(says, n, s, c), NEW tp \in Int,
         \/ tp <= c
         \/ Passed(says, n, tp) \/ n = Len(says)
         \/ DOMAIN s.data = {}
  PROVE /\ VectorKept(says, n, ForwardVector(s, tp, tp - Slack), Cut(says, n, c, tp))
        /\ ForwardVector(s, tp, tp - Slack).last = s.last
<1> DEFINE N == Len(says)
<1> DEFINE q(t) == Hear("vector", says, t)
<1> DEFINE d == Cut(says, n, c, tp)
<1> DEFINE F(x) == ForwardScalar(x, tp, tp - Slack)
<1> DEFINE R == [t \in DOMAIN s.data |-> F(s.data[t])]
<1> DEFINE r == ForwardVector(s, tp, tp - Slack)
<1>0. Slack \in Nat /\ tp - Slack \in Int
  BY MergerAssumption
<1>1. s = [data |-> s.data, last |-> s.last, done |-> s.done]
  BY DEF VectorKept
<1>2. r = [data |-> Held(R), last |-> s.last, done |-> (s.done \/ s.last = tp)]
  <2>1. r = [s EXCEPT !.data = Held(R), !.done = (s.done \/ s.last = tp)]
    BY DEF ForwardVector
  <2> HIDE DEF R, r
  <2> QED BY <1>1, <2>1
<1>3. ASSUME NEW t PROVE Tracks(AtTag(s.data, t), q(t), N, n, c) /\ Streaming(q(t), N)
                         /\ (Passed(q(t), n, tp) <=> Passed(says, n, tp))
  BY HeardStreams, HeardPassed DEF VectorKept
<1> HIDE DEF q, N
<1>4. ASSUME NEW t PROVE Tracks(AtTag(R, t), q(t), N, n, d)
  <2> DEFINE x == AtTag(s.data, t)
  <2>1. Tracks(x, q(t), N, n, c) /\ Streaming(q(t), N) /\ n \in 0 .. N
    BY <1>3 DEF N
  <2>2. CASE tp <= c
    <3>1. d = c
      BY <2>2 DEF Cut
    <3>2. Tracks(F(x), q(t), N, n, c)
      BY <2>1, <2>2, ForwardOld
    <3> QED BY <3>1, <3>2, <1>0, ForwardNothing DEF AtTag
  <2>3. CASE c < tp /\ (Passed(says, n, tp) \/ n = Len(says))
    <3>1. d = tp
      BY <2>3 DEF Cut
    <3>2. n < N => Passed(q(t), n, tp)
      BY <2>1, <2>3, <1>3 DEF N
    <3>3. Tracks(F(x), q(t), N, n, tp)
      BY <2>1, <2>3, <3>2, ForwardKeeps
    <3> QED BY <3>1, <3>3, <1>0, ForwardNothing DEF AtTag
  <2>4. CASE ~(Passed(says, n, tp) \/ n = Len(says)) /\ DOMAIN s.data = {}
    <3>1. d = c
      BY <2>4 DEF Cut
    <3>2. AtTag(R, t) = x
      BY <2>4 DEF AtTag
    <3> QED BY <3>1, <3>2, <2>1
  <2> QED BY <2>2, <2>3, <2>4
<1> HIDE DEF d
<1>5. \A t \in DOMAIN R : IsEmpty(R[t]) <=> R[t] = EmptySink
  <2> SUFFICES ASSUME NEW t \in DOMAIN R PROVE IsEmpty(R[t]) <=> R[t] = EmptySink
    OBVIOUS
  <2>1. R[t] = AtTag(R, t)
    BY DEF AtTag
  <2>2. Tracks(AtTag(R, t), q(t), N, n, d)
    BY <1>4
  <2> HIDE DEF R
  <2> QED BY <2>1, <2>2, TrackedEmpty
<1>6. IsFiniteSet(DOMAIN R) /\ LastFact(says, n, s.last)
  BY DEF VectorKept
<1> HIDE DEF R
<1>7. /\ \A t : AtTag(Held(R), t) = AtTag(R, t)
      /\ DOMAIN Held(R) \subseteq DOMAIN R
      /\ \A t \in DOMAIN Held(R) : Held(R)[t] # EmptySink
  BY <1>5, HeldIs
<1>8. IsFiniteSet(DOMAIN Held(R))
  BY <1>6, <1>7, FS_Subset
<1> HIDE DEF r
<1>9. r.data = Held(R) /\ r.last = s.last /\ r = [data |-> r.data, last |-> r.last, done |-> r.done]
  BY <1>2
<1>10. \A t : Tracks(AtTag(r.data, t), q(t), N, n, d)
  BY <1>4, <1>7, <1>9
<1>11. VectorKept(says, n, r, d)
  BY <1>6, <1>7, <1>8, <1>9, <1>10 DEF VectorKept, q, N
<1> QED BY <1>9, <1>11 DEF r, d

\* The suggestions of a sink are after its cut.
LEMMA ScalarSuggests ==
  ASSUME NEW s, NEW q, NEW N, NEW n, NEW c, Tracks(s, q, N, n, c)
  PROVE /\ SuggestScalar(s).speculative \in Int
        /\ SuggestScalar(s).speculative = NoTime \/ SuggestScalar(s).speculative > c
<1> DEFINE x == SuggestScalar(s).speculative
<1>1. x = NoTime \/ \E v \in ToSet(s.data) : v.tp = x
  BY SuggestIs DEF Tracks
<1> HIDE DEF x
<1>2. \A v \in ToSet(s.data) : v.tp \in Nat
  BY TracksTyped
<1>3. \A v \in ToSet(s.data) : v.tp > c
  BY TracksTyped DEF Tracks, HasFacts, HasGuesses
<1>4. (x = NoTime \/ x \in Nat) /\ (x = NoTime \/ x > c)
  BY <1>1, <1>2, <1>3
<1>5. x \in Int
  BY <1>4 DEF NoTime
<1> QED BY <1>4, <1>5 DEF x

\* The same for a vector.
LEMMA VectorSuggests ==
  ASSUME NEW says, NEW n, NEW c, NEW s, VectorKept(says, n, s, c)
  PROVE /\ SuggestVector(s) = [speculative |-> SuggestVector(s).speculative, factual |-> SuggestVector(s).factual]
        /\ SuggestVector(s).speculative \in Int
        /\ SuggestVector(s).speculative = NoTime \/ SuggestVector(s).speculative > c
        /\ SuggestVector(s).factual # NoTime => DOMAIN s.data # {}
<1> DEFINE T == DOMAIN s.data
<1> DEFINE all == {SuggestScalar(s.data[t]) : t \in T}
<1> DEFINE S == {x.speculative : x \in all} \ {NoTime}
<1> DEFINE U == {x.factual : x \in all} \ {NoTime}
<1>1. SuggestVector(s) = [speculative |-> First(S), factual |-> First(U)]
  BY DEF SuggestVector, Selector, First
<1>2. U # {} => DOMAIN s.data # {}
  OBVIOUS
<1>3. ASSUME NEW t \in T PROVE /\ SuggestScalar(s.data[t]).speculative \in Int
                               /\ \/ SuggestScalar(s.data[t]).speculative = NoTime
                                  \/ SuggestScalar(s.data[t]).speculative > c
  <2>1. Tracks(AtTag(s.data, t), Hear("vector", says, t), Len(says), n, c)
    BY DEF VectorKept
  <2>2. AtTag(s.data, t) = s.data[t]
    BY DEF AtTag
  <2> QED BY <2>1, <2>2, ScalarSuggests
<1>4. First(S) = NoTime \/ (First(S) \in Int /\ First(S) > c)
  <2> DEFINE f == [t \in T |-> SuggestScalar(s.data[t]).speculative]
  <2>1. S = {f[t] : t \in T} \ {NoTime}
    OBVIOUS
  <2>2. \A t \in T : f[t] \in Int /\ (f[t] = NoTime \/ f[t] > c)
    BY <1>3
  <2>3. IsFiniteSet(T)
    BY DEF VectorKept
  <2> HIDE DEF f, T, S
  <2>4. First(S) = NoTime \/ First(S) \in S
    BY <2>1, <2>2, <2>3, FirstIs
  <2> QED BY <2>1, <2>2, <2>4
<1>5. First(U) # NoTime => U # {}
  BY DEF First
<1>6. NoTime \in Int
  BY DEF NoTime
<1> HIDE DEF S, U
<1> QED BY <1>1, <1>2, <1>4, <1>5, <1>6

(* ---------------------- the values of an input ----------------------- *)

\* Of a new sink there is nothing to get.
LEMMA EmptyGets ==
  ASSUME NEW tp \in Int, NEW lo, NEW hi, NEW closed \in BOOLEAN
  PROVE /\ closed => GetScalar(EmptySink, tp, lo, hi, closed).fact
        /\ GetScalar(EmptySink, tp, lo, hi, closed).value = Absent
<1> DEFINE k == LowerBound(<< >>, tp)
<1>1. Timed({}, << >>)
  BY DEF Timed
<1>2. k \in 1 .. Len(<< >>) + 1
  BY <1>1, BoundSplits
<1>3. k > Len(<< >>)
  <2>1. \A j \in DOMAIN << >> : FALSE
    OBVIOUS
  <2>2. k = 1
    BY <1>2
  <2> QED BY <2>2
<1>4. EmptySink.data = << >>
  BY DEF EmptySink
<1>5. CASE closed
  BY <1>3, <1>4, <1>5 DEF GetScalar
<1>6. CASE ~closed
  BY <1>3, <1>4, <1>6 DEF GetScalar
<1> QED BY <1>5, <1>6

\* A factual value needs a fact from its time on, or the end of the stream.
LEMMA FactPassed ==
  ASSUME NEW s, NEW q, NEW N, NEW n, NEW c, NEW tp \in Int, NEW lo, NEW hi,
         Tracks(s, q, N, n, c), NEW closed \in BOOLEAN,
         GetScalar(s, tp, lo, hi, closed).fact
  PROVE Passed(q, n, tp) \/ closed
<1> DEFINE k == LowerBound(s.data, tp)
<1> DEFINE none == k > Len(s.data)
<1>1. Timed(Values(q), s.data) /\ HasFacts(ToSet(s.data), q, n, c)
  BY TracksTyped DEF Tracks
<1>2. CASE closed
  BY <1>2
<1>3. CASE ~closed
  <2>1. ~none /\ s.data[k].fact
    <3> HIDE DEF k, none
    <3>1. GetScalar(s, tp, lo, hi, closed).fact = IF none THEN FALSE ELSE s.data[k].fact
      BY <1>3 DEF GetScalar, k, none
    <3> QED BY <3>1
  <2>2. s.data[k] \in ToSet(s.data) /\ s.data[k].tp >= tp
    <3>1. k \in 1 .. Len(s.data) + 1 /\ Len(s.data) \in Nat
      BY <1>1, BoundSplits, TimedSeq
    <3> HIDE DEF k
    <3>2. k <= Len(s.data) /\ k = LowerBound(s.data, tp)
      BY <2>1, <3>1 DEF k
    <3> QED BY <3>2, <1>1, BoundSome
  <2>3. PICK j \in 1 .. n : FactHere(q, j) /\ q[j].tp = s.data[k].tp
    BY <2>1, <2>2, <1>1 DEF HasFacts
  <2> QED BY <2>2, <2>3 DEF Passed, FactHere
<1> QED BY <1>2, <1>3

\* The value of a scalar.
LEMMA ScalarGets ==
  ASSUME NEW says, Disciplined("scalar", says), NEW n \in 0 .. Len(says), NEW c \in Int, NEW s,
         Tracks(s, Hear("scalar", says, 0), Len(says), n, c),
         NEW tp \in Int, c < tp, NEW closed \in BOOLEAN, closed => n = Len(says),
         GetScalar(s, tp, tp - Slack, tp + Slack, closed).fact
  PROVE \A t : {GetScalar(s, tp, tp - Slack, tp + Slack, closed).value} \ {Absent}
                 = Ref(Hear("scalar", says, t), tp)
<1>1. Streaming(Hear("scalar", says, 0), Len(says))
  BY HeardStreams
<1>2. {GetScalar(s, tp, tp - Slack, tp + Slack, closed).value} \ {Absent} = Ref(Hear("scalar", says, 0), tp)
  BY <1>1, GetIsReference
<1>3. \A t : Hear("scalar", says, t) = Hear("scalar", says, 0)
  BY DEF Hear
<1> QED BY <1>2, <1>3

\* The values of a vector, none for the tag sets that have no entry.
LEMMA VectorGets ==
  ASSUME NEW says, Disciplined("vector", says), NEW n \in 0 .. Len(says), NEW c \in Int, NEW s,
         VectorKept(says, n, s, c),
         NEW tp \in Nat, c < tp, NEW closed \in BOOLEAN, closed => n = Len(says),
         GetVector(s, tp, tp - Slack, tp + Slack, closed).fact,
         DOMAIN s.data # {} \/ Passed(says, n, tp) \/ closed
  PROVE /\ Passed(says, n, tp) \/ closed
        /\ \A t : {GetScalar(AtTag(s.data, t), tp, tp - Slack, tp + Slack, closed).value} \ {Absent}
                    = Ref(Hear("vector", says, t), tp)
<1> DEFINE N == Len(says)
<1> DEFINE q(t) == Hear("vector", says, t)
<1> DEFINE lo == tp - Slack
<1> DEFINE hi == tp + Slack
<1>0. Slack \in Nat
  BY MergerAssumption
<1>1. \A t \in DOMAIN s.data : GetScalar(s.data[t], tp, lo, hi, closed).fact \/ s.last >= hi
  BY DEF GetVector
<1>2. ASSUME NEW t PROVE /\ Tracks(AtTag(s.data, t), q(t), N, n, c) /\ Streaming(q(t), N)
                         /\ \A x : Passed(q(t), n, x) <=> Passed(says, n, x)
  BY HeardStreams, HeardPassed DEF VectorKept
<1>3. N \in Nat /\ \A k \in 1 .. n : says[k].tp \in Nat
  BY SaysTyped
<1> HIDE DEF q, N
<1>4. s.last >= hi => Passed(says, n, hi)
  <2>1. LastFact(says, n, s.last)
    BY DEF VectorKept
  <2>2. s.last >= hi => s.last # NoTime
    BY <1>0 DEF NoTime
  <2> QED BY <2>1, <2>2 DEF LastFact, Passed
<1>5. Passed(says, n, hi) => Passed(says, n, tp)
  BY <1>0, <1>3 DEF Passed
<1>6. Passed(says, n, tp) \/ closed
  <2> SUFFICES ASSUME NEW t \in DOMAIN s.data, ~(s.last >= hi) PROVE Passed(says, n, tp) \/ closed
    BY <1>4, <1>5
  <2>1. GetScalar(AtTag(s.data, t), tp, lo, hi, closed).fact
    BY <1>1 DEF AtTag
  <2> HIDE DEF lo, hi
  <2>2. Passed(q(t), n, tp) \/ closed
    BY <2>1, <1>2, FactPassed
  <2> QED BY <2>2, <1>2
<1>7. ASSUME NEW t
      PROVE {GetScalar(AtTag(s.data, t), tp, lo, hi, closed).value} \ {Absent} = Ref(q(t), tp)
  <2> DEFINE x == AtTag(s.data, t)
  <2>1. Tracks(x, q(t), N, n, c) /\ Streaming(q(t), N) /\ n \in 0 .. N /\ (closed => n = N)
    BY <1>2 DEF N
  <2>2. \/ GetScalar(x, tp, lo, hi, closed).fact
        \/ Passed(q(t), n, hi)
        \/ x = EmptySink /\ Passed(q(t), n, tp)
    <3>1. CASE s.last >= hi
      BY <3>1, <1>2, <1>4
    <3>2. CASE ~(s.last >= hi) /\ t \in DOMAIN s.data
      BY <3>2, <1>1 DEF AtTag
    <3>3. CASE t \notin DOMAIN s.data /\ closed
      <4>2. GetScalar(EmptySink, tp, lo, hi, closed).fact
        <5>1. tp \in Int /\ closed \in BOOLEAN
          OBVIOUS
        <5> HIDE DEF lo, hi
        <5> QED BY <3>3, <5>1, EmptyGets, Zenon
      <4> QED BY <3>3, <4>2 DEF AtTag
    <3>4. CASE t \notin DOMAIN s.data /\ Passed(says, n, tp)
      BY <3>4, <1>2 DEF AtTag
    <3> QED BY <3>1, <3>2, <3>3, <3>4, <1>6
  <2> HIDE DEF x
  <2> QED BY <2>1, <2>2, GetIsReference DEF x
<1> QED BY <1>6, <1>7 DEF q

(* ----------------------------- an input ------------------------------ *)

\* An input: its sink has read n of the emissions that were pushed, and was
\* cut at c, a time that the stream has passed.
Kept(kind, says, n, s, c) ==
  IF kind = "scalar" THEN Tracks(s, Hear("scalar", says, 0), Len(says), n, c) ELSE VectorKept(says, n, s, c)
NextKept(kind, s, next, c) ==
  /\ next = [speculative |-> next.speculative, factual |-> next.factual]
  /\ next.speculative \in Int
  /\ next.speculative = NoTime \/ next.speculative > c
  /\ kind # "scalar" /\ next.factual # NoTime =>
       \/ DOMAIN s.data # {}
       \/ next.speculative # NoTime /\ next.speculative <= s.last
InputKept(kind, says, push, op, n, s, next, c) ==
  /\ push \in 0 .. Len(says) /\ n \in 0 .. push /\ (~op => push = Len(says))
  /\ c \in Int /\ c >= -1 /\ (c = -1 \/ Passed(says, n, c) \/ n = Len(says))
  /\ Kept(kind, says, n, s, c)
  /\ NextKept(kind, s, next, c)

\* Nothing was read yet.
LEMMA Begins ==
  ASSUME NEW kind \in {"scalar", "vector"}, NEW says, Disciplined(kind, says)
  PROVE InputKept(kind, says, 0, TRUE, 0, IF kind = "scalar" THEN EmptySink ELSE EmptyVector, NoSelector, -1)
<1>1. Len(says) \in Nat
  BY SaysTyped
<1>2. ASSUME NEW t PROVE Tracks(EmptySink, Hear(kind, says, t), Len(says), 0, -1)
  BY HeardStreams, TracksNothing
<1>3. ASSUME kind = "vector" PROVE VectorKept(says, 0, EmptyVector, -1)
  <2>1. EmptyVector.data = << >> /\ EmptyVector.last = NoTime /\ DOMAIN << >> = {}
    BY DEF EmptyVector
  <2>2. EmptyVector = [data |-> EmptyVector.data, last |-> EmptyVector.last, done |-> EmptyVector.done]
    BY DEF EmptyVector
  <2>3. IsFiniteSet({})
    BY FS_EmptySet
  <2>4. \A t : AtTag(<< >>, t) = EmptySink
    BY DEF AtTag
  <2>5. LastFact(says, 0, NoTime)
    BY DEF LastFact, NoTime
  <2> HIDE DEF EmptyVector
  <2>6. \A t : Tracks(AtTag(EmptyVector.data, t), Hear("vector", says, t), Len(says), 0, -1)
    BY <1>2, <1>3, <2>1, <2>4
  <2> QED BY <2>1, <2>2, <2>3, <2>5, <2>6 DEF VectorKept
<1>4. Kept(kind, says, 0, IF kind = "scalar" THEN EmptySink ELSE EmptyVector, -1)
  BY <1>2, <1>3 DEF Kept
<1>5. NextKept(kind, IF kind = "scalar" THEN EmptySink ELSE EmptyVector, NoSelector, -1)
  BY DEF NextKept, NoSelector, Selector, NoTime
<1> QED BY <1>1, <1>4, <1>5 DEF InputKept

\* The next emission is after the cut.
LEMMA NextAfterCut ==
  ASSUME NEW kind \in {"scalar", "vector"}, NEW says, Disciplined(kind, says), NEW n \in Nat, n < Len(says), NEW c \in Int,
         c = -1 \/ Passed(says, n, c) \/ n = Len(says)
  PROVE c < says[n + 1].tp
<1> DEFINE L == Len(says)
<1>1. L \in Nat /\ DOMAIN says = 1 .. L /\ \A k \in 1 .. L : says[k].tp \in Nat
  BY SaysTyped
<1>0. n < L /\ (c = -1 \/ Passed(says, n, c) \/ n = L)
  OBVIOUS
<1> HIDE DEF L
<1>2. n + 1 \in 1 .. L /\ n # L
  BY <1>0, <1>1
<1>3. CASE c = -1
  BY <1>1, <1>2, <1>3
<1>4. CASE Passed(says, n, c)
  <2>1. PICK k \in 1 .. n : says[k].fact /\ c <= says[k].tp
    BY <1>4 DEF Passed
  <2>2. k \in 1 .. L /\ k < n + 1
    BY <1>0, <1>1
  <2>3. says[k].tp < says[n + 1].tp
    BY <2>1, <2>2, <1>1, <1>2 DEF Disciplined, Final
  <2> QED BY <2>1, <2>2, <2>3, <1>1, <1>2
<1> QED BY <1>0, <1>2, <1>3, <1>4

\* An emission is read, and never refused.
LEMMA Reads ==
  ASSUME NEW kind \in {"scalar", "vector"}, NEW says, Disciplined(kind, says),
         NEW push, NEW op, NEW n, NEW s, NEW next, NEW c,
         InputKept(kind, says, push, op, n, s, next, c), n < push,
         NEW a, a = IF kind = "scalar" THEN AcceptScalar(s, says[n + 1]) ELSE AcceptVector(s, says[n + 1])
  PROVE /\ a.ok
        /\ InputKept(kind, says, push, op, n + 1, a.sink,
                     Selector(Earlier(next.speculative, says[n + 1].tp),
                              IF says[n + 1].fact /\ next.factual = NoTime THEN says[n + 1].tp ELSE next.factual), c)
<1> DEFINE e == says[n + 1]
<1>1. /\ Len(says) \in Nat /\ DOMAIN says = 1 .. Len(says)
      /\ \A k \in 1 .. Len(says) : says[k].tp \in Nat /\ says[k].fact \in BOOLEAN
  BY SaysTyped
<1>2. /\ push \in 0 .. Len(says) /\ n \in 0 .. push /\ (~op => push = Len(says))
      /\ c \in Int /\ c >= -1 /\ (c = -1 \/ Passed(says, n, c) \/ n = Len(says))
      /\ Kept(kind, says, n, s, c) /\ NextKept(kind, s, next, c)
  BY DEF InputKept
<1>3. n \in Nat /\ n < Len(says) /\ n + 1 \in 1 .. Len(says) /\ n + 1 \in 0 .. push /\ n \in 0 .. Len(says)
  <2> DEFINE L == Len(says)
  <2>1. L \in Nat /\ push \in 0 .. L /\ n \in 0 .. push /\ n < push
    BY <1>1, <1>2
  <2> HIDE DEF L
  <2>2. n \in Nat /\ n < L /\ n + 1 \in 1 .. L /\ n + 1 \in 0 .. push /\ n \in 0 .. L
    BY <2>1
  <2> QED BY <2>2 DEF L
<1>4. c < e.tp /\ e.tp \in Nat /\ e.fact \in BOOLEAN
  BY <1>1, <1>2, <1>3, NextAfterCut
<1>5. a.ok /\ Kept(kind, says, n + 1, a.sink, c)
  <2>1. CASE kind = "scalar"
    <3> DEFINE q == Hear("scalar", says, 0)
    <3>1. Streaming(q, Len(says)) /\ Tracks(s, q, Len(says), n, c)
      BY <2>1, <1>2, HeardStreams DEF Kept
    <3>2. q[n + 1].tp = e.tp /\ q[n + 1].data = e.data
      BY <1>1, <1>3, HearIs
    <3>3. q[n + 1].here
      BY <1>1, <1>3, HearIs
    <3>4. q[n + 1].fact <=> e.fact
      BY <1>1, <1>3, HearIs
    <3> HIDE DEF q, e
    <3>5. AcceptScalar(s, e).ok /\ Tracks(AcceptScalar(s, e).sink, q, Len(says), n + 1, c)
      <4>1. CASE e.fact
        <5>1. e.fact = TRUE /\ FactHere(q, n + 1) /\ c < q[n + 1].tp
          BY <4>1, <3>2, <3>3, <3>4, <1>4 DEF FactHere
        <5> QED BY <5>1, <3>1, <3>2, <1>2, <1>3, ReadsFact
      <4>2. CASE ~e.fact
        <5>1. GuessHere(q, n + 1) /\ c < q[n + 1].tp
          BY <4>2, <3>2, <3>3, <3>4, <1>4 DEF GuessHere
        <5> QED BY <5>1, <4>2, <3>1, <3>2, <1>2, <1>3, <1>4, ReadsGuess
      <4> QED BY <4>1, <4>2
    <3> QED BY <3>5, <2>1 DEF Kept, q, e
  <2>2. CASE kind = "vector"
    <3>1. VectorKept(says, n, s, c) /\ a = AcceptVector(s, says[n + 1])
      BY <2>2, <1>2 DEF Kept
    <3>2. CASE says[n + 1].fact
      BY <2>2, <3>1, <3>2, <1>2, <1>3, <1>4, VectorReadsFact DEF Kept
    <3>3. CASE ~says[n + 1].fact
      BY <2>2, <3>1, <3>3, <1>2, <1>3, <1>4, VectorReadsGuess DEF Kept
    <3> QED BY <3>2, <3>3
  <2> QED BY <2>1, <2>2
<1> DEFINE spec == Earlier(next.speculative, e.tp)
<1> DEFINE fact == IF e.fact /\ next.factual = NoTime THEN e.tp ELSE next.factual
<1>6. /\ spec \in Int /\ spec # NoTime /\ spec > c /\ spec <= e.tp
      /\ next.speculative # NoTime => spec <= next.speculative
  <2>1. next.speculative \in Int /\ (next.speculative = NoTime \/ next.speculative > c)
    BY <1>2 DEF NextKept
  <2> QED BY <2>1, <1>2, <1>4 DEF Earlier, NoTime
<1>7. ASSUME kind # "scalar", fact # NoTime
      PROVE DOMAIN a.sink.data # {} \/ spec <= a.sink.last
  <2>1. VectorKept(says, n, s, c) /\ a = AcceptVector(s, says[n + 1]) /\ kind = "vector"
    BY <1>7, <1>2 DEF Kept
  <2>2. CASE says[n + 1].fact
    <3>1. a.sink.last = e.tp
      BY <2>1, <2>2, <1>2, <1>3, <1>4, VectorReadsFact
    <3> QED BY <3>1, <1>6
  <2>3. CASE ~says[n + 1].fact
    <3>1. a.sink.last = s.last /\ DOMAIN s.data \subseteq DOMAIN a.sink.data
      BY <2>1, <2>3, <1>2, <1>3, <1>4, VectorReadsGuess
    <3>2. DOMAIN s.data # {} \/ (next.speculative # NoTime /\ next.speculative <= s.last)
      BY <2>3, <1>2, <1>7 DEF NextKept
    <3>3. s.last \in Int /\ next.speculative \in Int
      BY <2>1, <1>2 DEF VectorKept, LastFact, NextKept
    <3> HIDE DEF spec
    <3> QED BY <3>1, <3>2, <3>3, <1>6
  <2> QED BY <2>2, <2>3
<1> HIDE DEF spec, fact
<1>8. NextKept(kind, a.sink, Selector(spec, fact), c)
  <2>1. Selector(spec, fact).speculative = spec /\ Selector(spec, fact).factual = fact
    BY DEF Selector
  <2>2. Selector(spec, fact) = [speculative |-> spec, factual |-> fact]
    BY DEF Selector
  <2> QED BY <2>1, <2>2, <1>6, <1>7 DEF NextKept
<1>9. c = -1 \/ Passed(says, n + 1, c) \/ n + 1 = Len(says)
  <2>1. Passed(says, n, c) => Passed(says, n + 1, c)
    <3>1. \A k \in 1 .. n : k \in 1 .. n + 1
      BY <1>3
    <3> QED BY <3>1 DEF Passed
  <2> QED BY <2>1, <1>2, <1>3
<1> QED BY <1>2, <1>3, <1>5, <1>8, <1>9 DEF InputKept, spec, fact

\* What is pushed stays in the stream until it is read.
LEMMA Pushes ==
  ASSUME NEW kind, NEW says, Disciplined(kind, says), NEW push, NEW op, NEW n, NEW s, NEW next, NEW c,
         InputKept(kind, says, push, op, n, s, next, c)
  PROVE /\ push < Len(says) => InputKept(kind, says, push + 1, op, n, s, next, c) /\ op
        /\ push = Len(says) => InputKept(kind, says, push, FALSE, n, s, next, c)
<1> DEFINE L == Len(says)
<1>1. L \in Nat
  BY SaysTyped
<1>2. push \in 0 .. L /\ n \in 0 .. push /\ (~op => push = L)
  BY DEF InputKept
<1> HIDE DEF L
<1>3. push < L => push + 1 \in 0 .. L /\ n \in 0 .. push + 1 /\ op
  BY <1>1, <1>2
<1> QED BY <1>2, <1>3 DEF InputKept, L

\* What is suggested next.
LEMMA SuggestsKept ==
  ASSUME NEW kind \in {"scalar", "vector"}, NEW says, NEW n, NEW s, NEW c, Kept(kind, says, n, s, c)
  PROVE NextKept(kind, s, IF kind = "scalar" THEN SuggestScalar(s) ELSE SuggestVector(s), c)
<1>1. CASE kind = "scalar"
  <2>1. Tracks(s, Hear("scalar", says, 0), Len(says), n, c)
    BY <1>1 DEF Kept
  <2>2. SuggestScalar(s).speculative \in Int
        /\ (SuggestScalar(s).speculative = NoTime \/ SuggestScalar(s).speculative > c)
    BY <2>1, ScalarSuggests
  <2>3. SuggestScalar(s) = [speculative |-> SuggestScalar(s).speculative, factual |-> SuggestScalar(s).factual]
    BY DEF SuggestScalar, Selector, NoSelector
  <2> QED BY <2>2, <2>3, <1>1 DEF NextKept
<1>2. CASE kind = "vector"
  <2>1. VectorKept(says, n, s, c)
    BY <1>2 DEF Kept
  <2> QED BY <2>1, <1>2, VectorSuggests DEF NextKept
<1> QED BY <1>1, <1>2

\* A guess was emitted.
LEMMA Marks ==
  ASSUME NEW kind \in {"scalar", "vector"}, NEW says, NEW push, NEW op, NEW n, NEW s, NEW next, NEW c,
         InputKept(kind, says, push, op, n, s, next, c), NEW tp,
         NEW r, r = IF kind = "scalar" THEN MarkScalar(s, tp) ELSE MarkVector(s, tp)
  PROVE InputKept(kind, says, push, op, n, r, IF kind = "scalar" THEN SuggestScalar(r) ELSE SuggestVector(r), c)
<1>1. Kept(kind, says, n, r, c)
  <2>1. CASE kind = "scalar"
    BY <2>1, MarkKeeps DEF InputKept, Kept
  <2>2. CASE kind = "vector"
    BY <2>2, VectorMarks DEF InputKept, Kept
  <2> QED BY <2>1, <2>2
<1>2. NextKept(kind, r, IF kind = "scalar" THEN SuggestScalar(r) ELSE SuggestVector(r), c)
  BY <1>1, SuggestsKept
<1> QED BY <1>1, <1>2 DEF InputKept

\* A fact was emitted.
LEMMA Forwards ==
  ASSUME NEW kind \in {"scalar", "vector"}, NEW says, Disciplined(kind, says),
         NEW push, NEW op, NEW n, NEW s, NEW next, NEW c,
         InputKept(kind, says, push, op, n, s, next, c), NEW tp \in Nat,
         \/ tp <= c
         \/ Passed(says, n, tp) \/ n = Len(says)
         \/ kind # "scalar" /\ DOMAIN s.data = {},
         NEW r, r = IF kind = "scalar" THEN ForwardScalar(s, tp, tp - Slack) ELSE ForwardVector(s, tp, tp - Slack)
  PROVE InputKept(kind, says, push, op, n, r,
                  IF kind = "scalar" THEN SuggestScalar(r) ELSE SuggestVector(r), Cut(says, n, c, tp))
<1> DEFINE d == Cut(says, n, c, tp)
<1> DEFINE L == Len(says)
<1>1. L \in Nat
  BY SaysTyped
<1>2. /\ push \in 0 .. L /\ n \in 0 .. push /\ (~op => push = L)
      /\ c \in Int /\ c >= -1 /\ (c = -1 \/ Passed(says, n, c) \/ n = L)
      /\ Kept(kind, says, n, s, c)
  BY DEF InputKept
<1>3. n \in 0 .. L
  <2> HIDE DEF L
  <2> QED BY <1>1, <1>2
<1>4. d \in Int /\ d >= -1 /\ (d = -1 \/ Passed(says, n, d) \/ n = L)
  BY <1>2 DEF Cut
<1>5. Kept(kind, says, n, r, d)
  <2>1. CASE kind = "scalar"
    <3> DEFINE q == Hear("scalar", says, 0)
    <3>1. Streaming(q, L) /\ Tracks(s, q, L, n, c) /\ (Passed(q, n, tp) <=> Passed(says, n, tp))
      BY <2>1, <1>2, <1>3, HeardStreams, HeardPassed DEF Kept
    <3>2. tp \in Int
      OBVIOUS
    <3> HIDE DEF q, L
    <3>3. CASE tp <= c
      <4>1. d = c
        BY <3>3, <1>2 DEF Cut
      <4>2. Tracks(ForwardScalar(s, tp, tp - Slack), q, L, n, c)
        BY <3>1, <3>2, <3>3, <1>2, <1>3, ForwardOld
      <4> QED BY <4>1, <4>2, <2>1 DEF Kept, q, L
    <3>4. CASE c < tp
      <4>1. Passed(says, n, tp) \/ n = L
        BY <3>4, <2>1, <1>2 DEF L
      <4>2. d = tp
        BY <4>1, <3>4 DEF Cut, L
      <4>3. n < L => Passed(q, n, tp)
        BY <4>1, <3>1, <1>1, <1>3
      <4>4. Tracks(ForwardScalar(s, tp, tp - Slack), q, L, n, tp)
        BY <4>3, <3>1, <3>2, <3>4, <1>2, <1>3, ForwardKeeps
      <4> QED BY <4>2, <4>4, <2>1 DEF Kept, q, L
    <3> QED BY <3>3, <3>4, <1>2
  <2>2. CASE kind = "vector"
    <3>1. VectorKept(says, n, s, c) /\ tp \in Int
      BY <2>2, <1>2 DEF Kept
    <3>2. VectorKept(says, n, ForwardVector(s, tp, tp - Slack), d)
      BY <2>2, <3>1, <1>2, <1>3, VectorForwards
    <3> QED BY <2>2, <3>2 DEF Kept
  <2> QED BY <2>1, <2>2
<1> HIDE DEF d
<1>6. NextKept(kind, r, IF kind = "scalar" THEN SuggestScalar(r) ELSE SuggestVector(r), d)
  BY <1>5, SuggestsKept
<1> QED BY <1>2, <1>4, <1>5, <1>6 DEF InputKept, L, d

\* The invariants that the sinks of an input assert.
LEMMA KeptSound ==
  ASSUME NEW kind \in {"scalar", "vector"}, NEW says, Disciplined(kind, says),
         NEW push, NEW op, NEW n, NEW s, NEW next, NEW c, InputKept(kind, says, push, op, n, s, next, c)
  PROVE IF kind = "scalar" THEN ScalarSound(s)
        ELSE VectorSound(s) /\ \A t \in DOMAIN s.data : ScalarSound(s.data[t])
<1>1. c \in Int /\ Kept(kind, says, n, s, c)
  BY DEF InputKept
<1>2. CASE kind = "scalar"
  BY <1>1, <1>2, TracksSound DEF Kept
<1>3. CASE kind = "vector"
  <2>1. VectorKept(says, n, s, c)
    BY <1>1, <1>3 DEF Kept
  <2>2. ASSUME NEW t \in DOMAIN s.data
        PROVE ScalarSound(s.data[t]) /\ ~IsEmpty(s.data[t]) /\ FactEnd(s.data[t]) <= s.last
    <3> DEFINE q == Hear("vector", says, t)
    <3>1. Tracks(AtTag(s.data, t), q, Len(says), n, c)
      BY <2>1 DEF VectorKept
    <3>2. AtTag(s.data, t) = s.data[t] /\ s.data[t] # EmptySink
      BY <2>1 DEF AtTag, VectorKept
    <3> DEFINE x == s.data[t]
    <3>3. Tracks(x, q, Len(says), n, c)
      BY <3>1, <3>2
    <3>4. LastFact(says, n, s.last)
      BY <2>1 DEF VectorKept
    <3>5. \A k \in 1 .. n : q[k].fact = says[k].fact /\ q[k].tp = says[k].tp
      <4>1. Len(says) \in Nat /\ DOMAIN says = 1 .. Len(says)
        BY SaysTyped
      <4>2. push \in 0 .. Len(says) /\ n \in 0 .. push
        BY DEF InputKept
      <4> DEFINE L == Len(says)
      <4>3. \A k \in 1 .. n : k \in 1 .. L
        <5>1. L \in Nat /\ push \in 0 .. L /\ n \in 0 .. push
          BY <4>1, <4>2
        <5> HIDE DEF L
        <5> QED BY <5>1
      <4>4. \A k \in 1 .. n : k \in DOMAIN says
        BY <4>1, <4>3
      <4> QED BY <4>4, HearIs
    <3> HIDE DEF x, q
    <3>6. FactEnd(x) = NoTime \/ \E v \in ToSet(x.data) : v.fact /\ v.tp = FactEnd(x)
      BY <3>3, FactEndIs DEF Tracks
    <3>7. FactEnd(x) <= s.last
      <4>1. ASSUME NEW v \in ToSet(x.data), v.fact PROVE v.tp <= s.last
        <5>1. PICK k \in 1 .. n : FactHere(q, k) /\ q[k].tp = v.tp
          BY <3>3, <4>1 DEF Tracks, HasFacts
        <5> QED BY <5>1, <3>4, <3>5 DEF LastFact, FactHere
      <4> QED BY <4>1, <3>4, <3>6 DEF LastFact
    <3>8. ScalarSound(x) /\ (IsEmpty(x) <=> x = EmptySink)
      BY <3>3, <1>1, TracksSound, TrackedEmpty
    <3> QED BY <3>2, <3>7, <3>8 DEF x
  <2> QED BY <2>2, <1>3 DEF VectorSound
<1> QED BY <1>2, <1>3

\* What is got from an input at tp, and its value for a tag set.
Got(kind, s, tp, closed) ==
  IF kind = "scalar" THEN GetScalar(s, tp, tp - Slack, tp + Slack, closed)
  ELSE GetVector(s, tp, tp - Slack, tp + Slack, closed)
ValueAt(kind, g, t) ==
  IF kind = "scalar" THEN g.value ELSE IF t \in DOMAIN g.values THEN g.values[t] ELSE Absent

\* The values of a vector are those of its entries.
LEMMA VectorValues ==
  ASSUME NEW s, NEW tp \in Int, NEW lo, NEW hi, NEW closed \in BOOLEAN, NEW t
  PROVE LET v == GetVector(s, tp, lo, hi, closed).values
        IN (IF t \in DOMAIN v THEN v[t] ELSE Absent) = GetScalar(AtTag(s.data, t), tp, lo, hi, closed).value
<1> DEFINE got == [u \in DOMAIN s.data |-> GetScalar(s.data[u], tp, lo, hi, closed)]
<1> DEFINE there == {u \in DOMAIN got : got[u].value # Absent}
<1> DEFINE v == GetVector(s, tp, lo, hi, closed).values
<1>1. v = [u \in there |-> got[u].value]
  BY DEF GetVector
<1> HIDE DEF v
<1>2. DOMAIN v = there /\ \A u \in there : v[u] = got[u].value
  BY <1>1
<1>3. \A u : u \in there <=> u \in DOMAIN s.data /\ GetScalar(s.data[u], tp, lo, hi, closed).value # Absent
  OBVIOUS
<1>4. \A u \in there : got[u].value = GetScalar(s.data[u], tp, lo, hi, closed).value
  OBVIOUS
<1> HIDE DEF there, got
<1>5. GetScalar(EmptySink, tp, lo, hi, closed).value = Absent
  <2>1. tp \in Int /\ closed \in BOOLEAN
    OBVIOUS
  <2> QED BY <2>1, EmptyGets, Zenon
<1>6. (IF t \in DOMAIN v THEN v[t] ELSE Absent) = GetScalar(AtTag(s.data, t), tp, lo, hi, closed).value
  <2>1. CASE t \in DOMAIN s.data
    BY <2>1, <1>2, <1>3, <1>4 DEF AtTag
  <2>2. CASE t \notin DOMAIN s.data
    BY <2>2, <1>2, <1>3, <1>5 DEF AtTag
  <2> QED BY <2>1, <2>2
<1> QED BY <1>6 DEF v

\* They are values of tag sets that have an entry.
LEMMA VectorHolds ==
  ASSUME NEW s, NEW tp, NEW lo, NEW hi, NEW closed
  PROVE /\ DOMAIN GetVector(s, tp, lo, hi, closed).values \subseteq DOMAIN s.data
        /\ \A u \in DOMAIN GetVector(s, tp, lo, hi, closed).values :
             GetVector(s, tp, lo, hi, closed).values[u] # Absent
BY DEF GetVector

\* A factual value allows to drop everything up to its time.
LEMMA FactsForward ==
  ASSUME NEW kind \in {"scalar", "vector"}, NEW says, Disciplined(kind, says),
         NEW push, NEW op, NEW n, NEW s, NEW next, NEW c,
         InputKept(kind, says, push, op, n, s, next, c), NEW tp \in Nat,
         NEW closed \in BOOLEAN, closed => n = Len(says),
         Got(kind, s, tp, closed).fact
  PROVE \/ tp <= c
        \/ Passed(says, n, tp) \/ n = Len(says)
        \/ kind # "scalar" /\ DOMAIN s.data = {}
<1>0. n \in 0 .. Len(says) /\ c \in Int /\ Kept(kind, says, n, s, c)
  <2>1. Len(says) \in Nat
    BY SaysTyped
  <2> QED BY <2>1 DEF InputKept
<1>1. CASE kind = "scalar"
  <2>1. Tracks(s, Hear(kind, says, 0), Len(says), n, c)
    BY <1>0, <1>1 DEF Kept
  <2>2. GetScalar(s, tp, tp - Slack, tp + Slack, closed).fact
    BY <1>1 DEF Got
  <2>3. Passed(Hear(kind, says, 0), n, tp) \/ closed
    BY <2>1, <2>2, FactPassed
  <2> QED BY <2>3, <1>0, HeardPassed
<1>2. CASE kind = "vector" /\ ~(tp <= c) /\ DOMAIN s.data # {}
  <2>1. VectorKept(says, n, s, c) /\ Disciplined("vector", says)
    BY <1>0, <1>2 DEF Kept
  <2>2. GetVector(s, tp, tp - Slack, tp + Slack, closed).fact
    BY <1>2 DEF Got
  <2>3. c < tp
    BY <1>0, <1>2
  <2>4. Passed(says, n, tp) \/ closed
    BY <2>1, <2>2, <2>3, <1>0, <1>2, VectorGets
  <2> QED BY <2>4
<1> QED BY <1>1, <1>2

\* An input whose emissions were read until it was clear what comes next, or
\* to its end, gives what its facts say.
LEMMA GotIsReference ==
  ASSUME NEW kind \in {"scalar", "vector"}, NEW says, Disciplined(kind, says),
         NEW push, NEW op, NEW n, NEW s, NEW next, NEW c,
         InputKept(kind, says, push, op, n, s, next, c), NEW tp \in Nat, c < tp,
         NEW closed \in BOOLEAN, closed => n = Len(says),
         Got(kind, s, tp, closed).fact,
         kind # "scalar" => next.factual # NoTime \/ closed,
         next.speculative # NoTime => tp <= next.speculative
  PROVE /\ Passed(says, n, tp) \/ n = Len(says)
        /\ \A t : {ValueAt(kind, Got(kind, s, tp, closed), t)} \ {Absent} = Ref(Hear(kind, says, t), tp)
<1>0. n \in 0 .. Len(says) /\ c \in Int /\ Kept(kind, says, n, s, c) /\ NextKept(kind, s, next, c)
  <2>1. Len(says) \in Nat
    BY SaysTyped
  <2> QED BY <2>1 DEF InputKept
<1>1. CASE kind = "scalar"
  <2>1. Tracks(s, Hear("scalar", says, 0), Len(says), n, c) /\ Disciplined("scalar", says)
    BY <1>0, <1>1 DEF Kept
  <2>2. GetScalar(s, tp, tp - Slack, tp + Slack, closed).fact
    BY <1>1 DEF Got
  <2>3. Passed(Hear("scalar", says, 0), n, tp) \/ closed
    BY <2>1, <2>2, FactPassed
  <2>4. Passed(says, n, tp) \/ n = Len(says)
    BY <2>1, <2>3, <1>0, HeardPassed
  <2>5. \A t : {GetScalar(s, tp, tp - Slack, tp + Slack, closed).value} \ {Absent} = Ref(Hear("scalar", says, t), tp)
    BY <2>1, <2>2, <1>0, ScalarGets
  <2>6. \A t : ValueAt(kind, Got(kind, s, tp, closed), t) = GetScalar(s, tp, tp - Slack, tp + Slack, closed).value
    BY <1>1 DEF ValueAt, Got
  <2> QED BY <2>4, <2>5, <2>6, <1>1
<1>2. CASE kind = "vector"
  <2>1. VectorKept(says, n, s, c) /\ Disciplined("vector", says)
    BY <1>0, <1>2 DEF Kept
  <2>2. GetVector(s, tp, tp - Slack, tp + Slack, closed).fact
    BY <1>2 DEF Got
  <2>3. DOMAIN s.data # {} \/ Passed(says, n, tp) \/ closed
    <3> SUFFICES ASSUME DOMAIN s.data = {}, ~closed PROVE Passed(says, n, tp)
      OBVIOUS
    <3>1. next.factual # NoTime /\ kind # "scalar"
      BY <1>2
    <3>2. next.speculative # NoTime /\ next.speculative <= s.last /\ next.speculative \in Int
      BY <3>1, <1>0 DEF NextKept
    <3>3. LastFact(says, n, s.last)
      BY <2>1 DEF VectorKept
    <3>4. tp <= s.last
      BY <3>2, <3>3 DEF LastFact
    <3>5. s.last # NoTime
      BY <3>4 DEF NoTime
    <3>6. PICK k \in 1 .. n : says[k].fact /\ says[k].tp = s.last
      BY <3>3, <3>5 DEF LastFact
    <3> QED BY <3>4, <3>6 DEF Passed
  <2>4. Passed(says, n, tp) \/ closed
    BY <2>1, <2>2, <2>3, <1>0, VectorGets
  <2>5. \A t : {GetScalar(AtTag(s.data, t), tp, tp - Slack, tp + Slack, closed).value} \ {Absent}
                    = Ref(Hear("vector", says, t), tp)
    BY <2>1, <2>2, <2>3, <1>0, VectorGets
  <2>6. ASSUME NEW t PROVE ValueAt(kind, Got(kind, s, tp, closed), t)
                = GetScalar(AtTag(s.data, t), tp, tp - Slack, tp + Slack, closed).value
    <3> DEFINE v == GetVector(s, tp, tp - Slack, tp + Slack, closed).values
    <3>1. ValueAt(kind, Got(kind, s, tp, closed), t) = IF t \in DOMAIN v THEN v[t] ELSE Absent
      BY <1>2 DEF ValueAt, Got
    <3>2. (IF t \in DOMAIN v THEN v[t] ELSE Absent) = GetScalar(AtTag(s.data, t), tp, tp - Slack, tp + Slack, closed).value
      BY VectorValues
    <3> QED BY <3>1, <3>2
  <2> QED BY <2>4, <2>5, <2>6, <1>2
<1> QED BY <1>1, <1>2

(* -------------------------- what is emitted -------------------------- *)

\* What the merger gets from the inputs at tp is the same for all streams.
Answers(p, tp, t, a) ==
  /\ a = [i \in DOMAIN p.kinds |-> a[i]]
  /\ \A i \in DOMAIN p.kinds : Ref(Hear(p.kinds[i], p.says[i], t), tp) = {a[i]}
Agrees(p, tp, d) ==
  IF \E i \in DOMAIN p.kinds : p.kinds[i] # "scalar"
  THEN /\ d = [t \in DOMAIN d |-> d[t]]
       /\ \A t \in DOMAIN d : Answers(p, tp, t, d[t])
       /\ \A t : (\A i \in DOMAIN p.kinds : Ref(Hear(p.kinds[i], p.says[i], t), tp) # {}) => t \in DOMAIN d
  ELSE Answers(p, tp, 0, d)

\* The pipes are as the constants say.
LEMMA PipeIs ==
  ASSUME pipe \in Pipes, StreamsAreOrderly
  PROVE /\ Inputs = 1 .. Len(pipe.kinds) /\ Len(pipe.kinds) \in Nat \ {0}
        /\ \A i \in Inputs : pipe.kinds[i] \in {"scalar", "vector"} /\ Disciplined(pipe.kinds[i], pipe.says[i])
        /\ Slack \in Nat
<1>1. /\ pipe.kinds \in Seq({"scalar", "vector"}) /\ pipe.kinds # << >>
      /\ \A i \in DOMAIN pipe.kinds : Disciplined(pipe.kinds[i], pipe.says[i])
  BY MergerAssumption DEF Disciplined, StreamsAreOrderly, Inputs
<1>2. Len(pipe.kinds) \in Nat /\ DOMAIN pipe.kinds = 1 .. Len(pipe.kinds)
      /\ \A i \in 1 .. Len(pipe.kinds) : pipe.kinds[i] \in {"scalar", "vector"}
  BY <1>1, LenProperties, ElementOfSeq
<1>3. Len(pipe.kinds) # 0
  BY <1>1, EmptySeq
<1>4. Slack \in Nat
  BY MergerAssumption
<1> QED BY <1>1, <1>2, <1>3, <1>4 DEF Inputs

\* The two ways to say what the facts of a stream are.
LEMMA ReferenceIs ==
  ASSUME pipe \in Pipes, NEW i \in Inputs, NEW t, NEW tp
  PROVE Reference(i, t, tp) = Ref(Hear(pipe.kinds[i], pipe.says[i], t), tp)
<1> DEFINE says == pipe.says[i]
<1> DEFINE kind == pipe.kinds[i]
<1> DEFINE q == Hear(kind, says, t)
<1> DEFINE at == FactsOn(i, t)
<1> DEFINE Val(k) == IF Scalar(i) THEN says[k].data ELSE says[k].data[t]
<1>1. DOMAIN q = DOMAIN says
  BY DEF Hear
<1>2. \A k \in DOMAIN says : /\ q[k].tp = says[k].tp /\ q[k].fact = says[k].fact
                             /\ q[k].here = (kind = "scalar" \/ t \in DOMAIN says[k].data)
                             /\ q[k].data = IF kind = "scalar" THEN says[k].data
                                            ELSE IF t \in DOMAIN says[k].data THEN says[k].data[t] ELSE Absent
  BY HearIs
<1> HIDE DEF q
<1>3. at = FactsOf(q)
  <2>1. at = {k \in DOMAIN says : says[k].fact /\ (kind = "scalar" \/ t \in DOMAIN says[k].data)}
    BY DEF FactsOn, Scalar
  <2>2. FactsOf(q) = {k \in DOMAIN says : q[k].fact /\ q[k].here}
    BY <1>1 DEF FactsOf, FactHere
  <2> QED BY <2>1, <2>2, <1>2
<1>4. \A k \in at : says[k].tp = q[k].tp /\ Val(k) = q[k].data
  BY <1>2 DEF FactsOn, Scalar
<1> DEFINE before == {k \in at : says[k].tp < tp /\ \A j \in at : says[j].tp < tp => says[j].tp <= says[k].tp}
<1> DEFINE after  == {k \in at : says[k].tp > tp /\ \A j \in at : says[j].tp > tp => says[j].tp >= says[k].tp}
<1> DEFINE from == {b \in before : says[b].tp >= tp - Slack /\ ~\E e \in at : says[e].tp = tp}
<1> DEFINE to == {a \in after : says[a].tp <= tp + Slack}
<1> DEFINE now == {j \in at : says[j].tp = tp}
<1>5. Reference(i, t, tp) = {Val(k) : k \in now} \cup {Interpolate(tp, Val(j), Val(k)) : j \in from, k \in to}
  BY DEF Reference
<1> DEFINE qbefore == {k \in at : q[k].tp < tp /\ \A j \in at : q[j].tp < tp => q[j].tp <= q[k].tp}
<1> DEFINE qafter  == {k \in at : q[k].tp > tp /\ \A j \in at : q[j].tp > tp => q[j].tp >= q[k].tp}
<1> DEFINE qfrom == {b \in qbefore : q[b].tp >= tp - Slack /\ ~\E e \in at : q[e].tp = tp}
<1> DEFINE qto == {a \in qafter : q[a].tp <= tp + Slack}
<1> DEFINE qnow == {j \in at : q[j].tp = tp}
<1>6. Ref(q, tp) = {q[k].data : k \in qnow} \cup {Interpolate(tp, q[j].data, q[k].data) : j \in qfrom, k \in qto}
  BY <1>3 DEF Ref
<1> HIDE DEF at, Val
<1>7. before = qbefore /\ after = qafter /\ now = qnow
  BY <1>4
<1>8. from = qfrom /\ to = qto
  <2>1. \A b \in before : b \in at
    OBVIOUS
  <2>2. \A a \in after : a \in at
    OBVIOUS
  <2> HIDE DEF before, after, qbefore, qafter
  <2> QED BY <2>1, <2>2, <1>4, <1>7
<1>9. (\A k \in now : k \in at) /\ (\A k \in from : k \in at) /\ (\A k \in to : k \in at)
  OBVIOUS
<1> HIDE DEF from, to, now, qfrom, qto, qnow, before, after, qbefore, qafter
<1> DEFINE A == {Val(k) : k \in now}
<1> DEFINE B == {Interpolate(tp, Val(j), Val(k)) : j \in from, k \in to}
<1> DEFINE qA == {q[k].data : k \in qnow}
<1> DEFINE qB == {Interpolate(tp, q[j].data, q[k].data) : j \in qfrom, k \in qto}
<1>10. A = qA
  BY <1>4, <1>7, <1>9
<1>11. B = qB
  BY <1>4, <1>8, <1>9
<1>12. Reference(i, t, tp) = A \cup B
  BY <1>5
<1>13. Ref(q, tp) = qA \cup qB
  BY <1>6
<1> HIDE DEF A, B, qA, qB
<1>14. Reference(i, t, tp) = Ref(q, tp)
  BY <1>10, <1>11, <1>12, <1>13
<1> QED BY <1>14 DEF q

\* What the streams agree on is the reference.
LEMMA AgreesIsReference ==
  ASSUME pipe \in Pipes, NEW tp, NEW d, Agrees(pipe, tp, d)
  PROVE d \in ReferenceFact(tp)
<1> DEFINE R(i, t) == Ref(Hear(pipe.kinds[i], pipe.says[i], t), tp)
<1>1. ASSUME NEW t PROVE \A i \in Inputs : Reference(i, t, tp) = R(i, t)
  BY ReferenceIs
<1>2. ASSUME NEW t, NEW a, Answers(pipe, tp, t, a) PROVE ReferenceAt(tp, t) = {a}
  <2>1. a = [i \in Inputs |-> a[i]] /\ \A i \in Inputs : R(i, t) = {a[i]}
    BY <1>2 DEF Answers, Inputs
  <2> HIDE DEF R
  <2>2. \A i \in Inputs : Reference(i, t, tp) = {a[i]}
    BY <2>1, <1>1
  <2> DEFINE All == UNION {Reference(i, t, tp) : i \in Inputs}
  <2>3. \A i \in Inputs : a[i] \in All
    BY <2>2
  <2>4. a \in [Inputs -> All]
    BY <2>1, <2>3
  <2>5. ASSUME NEW b \in [Inputs -> All], \A i \in Inputs : b[i] \in Reference(i, t, tp) PROVE b = a
    <3>1. \A i \in Inputs : b[i] = a[i]
      BY <2>2, <2>5
    <3>2. b = [i \in Inputs |-> b[i]]
      BY <2>5
    <3> QED BY <3>1, <3>2, <2>1
  <2>6. ReferenceAt(tp, t) = {b \in [Inputs -> All] : \A i \in Inputs : b[i] \in Reference(i, t, tp)}
    BY DEF ReferenceAt
  <2>7. \A i \in Inputs : a[i] \in Reference(i, t, tp)
    BY <2>2
  <2> HIDE DEF All
  <2> QED BY <2>4, <2>5, <2>6, <2>7
<1>3. CASE ~Vectors
  <2>1. Answers(pipe, tp, 0, d)
    BY <1>3 DEF Agrees, Vectors, Inputs, Scalar
  <2> QED BY <2>1, <1>2, <1>3 DEF ReferenceFact
<1>4. CASE Vectors
  <2>1. /\ d = [t \in DOMAIN d |-> d[t]]
        /\ \A t \in DOMAIN d : Answers(pipe, tp, t, d[t])
        /\ \A t : (\A i \in Inputs : R(i, t) # {}) => t \in DOMAIN d
    BY <1>4 DEF Agrees, Vectors, Inputs, Scalar
  <2> HIDE DEF R
  <2> DEFINE tags == {t \in FactTags : ReferenceAt(tp, t) # {}}
  <2>2. ASSUME NEW t \in DOMAIN d PROVE t \in tags
    <3>1. ReferenceAt(tp, t) = {d[t]}
      BY <2>1, <1>2
    <3>2. PICK i \in Inputs : ~Scalar(i)
      BY <1>4 DEF Vectors
    <3>3. Reference(i, t, tp) # {}
      BY <3>1 DEF ReferenceAt
    <3>4. FactsOn(i, t) # {}
      BY <3>3 DEF Reference
    <3>5. PICK k \in DOMAIN pipe.says[i] : pipe.says[i][k].fact /\ t \in DOMAIN pipe.says[i][k].data
      BY <3>2, <3>4 DEF FactsOn
    <3>6. pipe.says[i][k] \in {x \in ToSet(pipe.says[i]) : x.fact}
      BY <3>5 DEF ToSet
    <3>7. t \in UNION {DOMAIN e.data : e \in {x \in ToSet(pipe.says[i]) : x.fact}}
      BY <3>5, <3>6
    <3>8. t \in FactTags
      BY <3>2, <3>7 DEF FactTags
    <3> QED BY <3>1, <3>8
  <2>3. ASSUME NEW t \in tags PROVE t \in DOMAIN d
    <3>1. PICK a : a \in ReferenceAt(tp, t)
      OBVIOUS
    <3>2. \A i \in Inputs : a[i] \in Reference(i, t, tp)
      BY <3>1 DEF ReferenceAt
    <3>3. \A i \in Inputs : R(i, t) # {}
      BY <3>2, <1>1
    <3> QED BY <3>3, <2>1
  <2>4. DOMAIN d = tags
    <3> HIDE DEF tags
    <3> QED BY <2>2, <2>3
  <2>5. \A t \in DOMAIN d : d[t] = CHOOSE a \in ReferenceAt(tp, t) : TRUE
    <3> SUFFICES ASSUME NEW t \in DOMAIN d PROVE d[t] = CHOOSE a \in ReferenceAt(tp, t) : TRUE
      OBVIOUS
    <3>1. ReferenceAt(tp, t) = {d[t]}
      BY <2>1, <1>2
    <3> QED BY <3>1
  <2> DEFINE e == [t \in tags |-> CHOOSE a \in ReferenceAt(tp, t) : TRUE]
  <2>6. ReferenceFact(tp) = {e}
    BY <1>4 DEF ReferenceFact
  <2>7. d = e
    BY <2>1, <2>4, <2>5
  <2> HIDE DEF e
  <2> QED BY <2>6, <2>7
<1> QED BY <1>3, <1>4

\* A finite set put in some order.
LEMMA SetToSeqIs ==
  ASSUME NEW S, IsFiniteSet(S)
  PROVE SetToSeq(S) \in Seq(S)
<1> DEFINE n == Cardinality(S)
<1>1. n \in Nat /\ ExistsBijection(1 .. n, S)
  BY FS_CardinalityType
<1> HIDE DEF n
<1>2. \E f \in [1 .. n -> S] : IsInjective(f)
  <2>1. PICK f : f \in Bijection(1 .. n, S)
    BY <1>1 DEF ExistsBijection
  <2>2. f \in [1 .. n -> S] /\ \A a, b \in 1 .. n : f[a] = f[b] => a = b
    BY <2>1 DEF Bijection, Injection, IsInjective
  <2> QED BY <2>2 DEF IsInjective
<1>3. SetToSeq(S) \in [1 .. n -> S]
  BY <1>2 DEF SetToSeq, n
<1> QED BY <1>1, <1>3, SeqDef

\* The emissions at tp.
LEMMA EmissionTimes ==
  ASSUME NEW tp, NEW args,
         Vectors => IsFiniteSet(SharedTags(args))
  PROVE \E S : /\ Emission(tp, args) \in Seq(S)
               /\ \A e \in S : e.tp = tp /\ (e.fact => Fact(args))
<1>1. CASE ~Vectors
  <2> DEFINE e == [tp |-> tp, fact |-> Fact(args), data |-> [i \in Inputs |-> args[i].value]]
  <2>1. Emission(tp, args) \in Seq({e})
    <3>1. Emission(tp, args) = IF Complete(args) THEN <<e>> ELSE << >>
      BY <1>1 DEF Emission, EmitScalar
    <3> HIDE DEF e
    <3>2. <<e>> \in Seq({e}) /\ << >> \in Seq({e})
      OBVIOUS
    <3> QED BY <3>1, <3>2
  <2>2. e.tp = tp /\ (e.fact => Fact(args))
    OBVIOUS
  <2> HIDE DEF e
  <2> QED BY <2>1, <2>2
<1>2. CASE Vectors /\ Fact(args)
  <2> DEFINE tags == IF Complete(args) THEN SharedTags(args) ELSE {}
  <2> DEFINE e == [tp |-> tp, fact |-> TRUE, data |-> [t \in tags |-> ArgsAt(args, t)]]
  <2>1. Emission(tp, args) = <<e>>
    BY <1>2 DEF Emission, EmitVector
  <2>2. e.tp = tp
    OBVIOUS
  <2> HIDE DEF e
  <2>3. <<e>> \in Seq({e})
    OBVIOUS
  <2>4. Fact(args)
    BY <1>2
  <2>5. \A x \in {e} : x.tp = tp /\ (x.fact => Fact(args))
    BY <2>2, <2>4
  <2>6. Emission(tp, args) \in Seq({e})
    BY <2>1, <2>3
  <2> QED BY <2>5, <2>6
<1>3. CASE Vectors /\ ~Fact(args)
  <2> DEFINE tags == IF Complete(args) THEN SharedTags(args) ELSE {}
  <2> DEFINE D(t) == t :> ArgsAt(args, t)
  <2> DEFINE One(t) == [tp |-> tp, fact |-> FALSE, data |-> D(t)]
  <2> DEFINE S == {One(t) : t \in tags}
  <2>1. Emission(tp, args) = SetToSeq(S)
    BY <1>3 DEF Emission, EmitVector
  <2> HIDE DEF D
  <2>2. \A e \in S : e.tp = tp /\ ~e.fact
    OBVIOUS
  <2>3. IsFiniteSet(tags)
    BY <1>3, FS_EmptySet
  <2>4. IsFiniteSet(S)
    <3> DEFINE f == [t \in tags |-> One(t)]
    <3>1. f \in Surjection(tags, S)
      BY DEF Surjection
    <3> HIDE DEF f, tags, S
    <3> QED BY <2>3, <3>1, FS_Surjection
  <2> HIDE DEF S
  <2>5. SetToSeq(S) \in Seq(S)
    BY <2>4, SetToSeqIs
  <2> QED BY <2>1, <2>2, <2>5
<1> QED BY <1>1, <1>2, <1>3

\* What a factual emission holds.
FactData(args, d) ==
  IF Vectors
  THEN d = [t \in (IF Complete(args) THEN SharedTags(args) ELSE {}) |-> ArgsAt(args, t)]
  ELSE Complete(args) /\ d = [i \in Inputs |-> args[i].value]

\* A fact that is emitted is one emission.
LEMMA EmissionOfFact ==
  ASSUME NEW tp, NEW args, Fact(args)
  PROVE \/ Emission(tp, args) = << >>
        \/ \E e : Emission(tp, args) = <<e>> /\ FactData(args, e.data)
<1>1. CASE ~Vectors
  <2> DEFINE e == [tp |-> tp, fact |-> Fact(args), data |-> [i \in Inputs |-> args[i].value]]
  <2>1. Emission(tp, args) = IF Complete(args) THEN <<e>> ELSE << >>
    BY <1>1 DEF Emission, EmitScalar
  <2>2. e.data = [i \in Inputs |-> args[i].value]
    OBVIOUS
  <2> HIDE DEF e
  <2> QED BY <2>1, <2>2, <1>1 DEF FactData
<1>2. CASE Vectors
  <2> DEFINE tags == IF Complete(args) THEN SharedTags(args) ELSE {}
  <2> DEFINE e == [tp |-> tp, fact |-> TRUE, data |-> [t \in tags |-> ArgsAt(args, t)]]
  <2>1. Emission(tp, args) = <<e>>
    BY <1>2 DEF Emission, EmitVector
  <2>2. e.data = [t \in tags |-> ArgsAt(args, t)]
    OBVIOUS
  <2> HIDE DEF e
  <2> QED BY <2>1, <2>2, <1>2 DEF FactData
<1> QED BY <1>1, <1>2

\* If every input gives what its facts say, the emission is what they agree on.
LEMMA EmissionAgrees ==
  ASSUME pipe \in Pipes, NEW tp, NEW args, NEW d,
         \A i \in Inputs : \A t : {ValueAt(pipe.kinds[i], args[i], t)} \ {Absent}
                                    = Ref(Hear(pipe.kinds[i], pipe.says[i], t), tp),
         \A i \in Inputs : ~Scalar(i) => \A t \in DOMAIN args[i].values : args[i].values[t] # Absent,
         FactData(args, d)
  PROVE Agrees(pipe, tp, d)
<1> DEFINE R(i, t) == Ref(Hear(pipe.kinds[i], pipe.says[i], t), tp)
<1> DEFINE V(i, t) == ValueAt(pipe.kinds[i], args[i], t)
<1>1. \A i \in Inputs : \A t : R(i, t) = {V(i, t)} \ {Absent}
  OBVIOUS
<1>2. \A i \in Inputs : Scalar(i) => \A t : V(i, t) = args[i].value
  BY DEF ValueAt, Scalar
<1>3. \A i \in Inputs : ~Scalar(i) => \A t : V(i, t) = IF t \in DOMAIN args[i].values THEN args[i].values[t] ELSE Absent
  BY DEF ValueAt, Scalar
<1> HIDE DEF V
<1>4. CASE ~Vectors
  <2>1. \A i \in Inputs : Scalar(i)
    BY <1>4 DEF Vectors
  <2>2. Complete(args) /\ d = [i \in Inputs |-> args[i].value]
    BY <1>4 DEF FactData
  <2>3. \A i \in Inputs : d[i] = V(i, 0) /\ V(i, 0) # Absent
    BY <1>2, <2>1, <2>2 DEF Complete
  <2>4. \A i \in Inputs : R(i, 0) = {d[i]}
    BY <1>1, <2>3
  <2>5. d = [i \in Inputs |-> d[i]]
    BY <2>2
  <2>6. Answers(pipe, tp, 0, d)
    BY <2>4, <2>5 DEF Answers, Inputs
  <2> QED BY <2>6, <1>4 DEF Agrees, Vectors, Scalar, Inputs
<1>5. CASE Vectors
  <2> DEFINE tags == IF Complete(args) THEN SharedTags(args) ELSE {}
  <2>1. d = [t \in tags |-> ArgsAt(args, t)]
    BY <1>5 DEF FactData
  <2>2. ASSUME NEW t \in tags PROVE Answers(pipe, tp, t, ArgsAt(args, t))
    <3> DEFINE a == ArgsAt(args, t)
    <3>1. Complete(args) /\ t \in SharedTags(args)
      OBVIOUS
    <3>2. \A i \in Inputs : ~Scalar(i) => t \in DOMAIN args[i].values
      BY <3>1 DEF SharedTags
    <3>3. a = [i \in Inputs |-> IF Scalar(i) THEN args[i].value ELSE args[i].values[t]]
      BY DEF ArgsAt
    <3> HIDE DEF a
    <3>4. ASSUME NEW i \in Inputs PROVE a[i] = V(i, t) /\ V(i, t) # Absent
      <4>1. CASE Scalar(i)
        BY <3>1, <3>3, <4>1, <1>2 DEF Complete
      <4>2. CASE ~Scalar(i)
        BY <3>2, <3>3, <4>2, <1>3
      <4> QED BY <4>1, <4>2
    <3>5. \A i \in Inputs : R(i, t) = {a[i]}
      BY <3>4, <1>1
    <3>6. a = [i \in Inputs |-> a[i]]
      BY <3>3
    <3>7. Answers(pipe, tp, t, a)
      BY <3>5, <3>6 DEF Answers, Inputs
    <3> QED BY <3>7 DEF a
  <2>3. ASSUME NEW t, \A i \in Inputs : R(i, t) # {} PROVE t \in tags
    <3>1. \A i \in Inputs : V(i, t) # Absent
      BY <2>3, <1>1
    <3>2. Complete(args)
      BY <3>1, <1>2 DEF Complete
    <3>3. \A i \in Inputs : ~Scalar(i) => t \in DOMAIN args[i].values
      BY <3>1, <1>3
    <3>4. PICK i \in Inputs : ~Scalar(i)
      BY <1>5 DEF Vectors
    <3>5. t \in SharedTags(args)
      BY <3>3, <3>4 DEF SharedTags
    <3> QED BY <3>2, <3>5
  <2> HIDE DEF tags, R
  <2>4. /\ d = [t \in DOMAIN d |-> d[t]]
        /\ \A t \in DOMAIN d : Answers(pipe, tp, t, d[t])
        /\ \A t : (\A i \in Inputs : R(i, t) # {}) => t \in DOMAIN d
    BY <2>1, <2>2, <2>3
  <2>5. \E i \in DOMAIN pipe.kinds : pipe.kinds[i] # "scalar"
    BY <1>5 DEF Vectors, Scalar, Inputs
  <2> QED BY <2>4, <2>5 DEF Agrees, Inputs, R
<1> QED BY <1>4, <1>5

(* --------------------------- the invariant --------------------------- *)

\* What was emitted up to m.
OutSound(p, o, m) ==
  /\ o \in Seq(ToSet(o))
  /\ \A k \in 1 .. Len(o) : o[k].fact =>
       /\ o[k].tp \in Int /\ o[k].tp <= m
       /\ Agrees(p, o[k].tp, o[k].data)
       /\ \A j \in k + 1 .. Len(o) : o[k].tp < o[j].tp

Functional(f) == f = [i \in Inputs |-> f[i]]
Shape ==
  /\ pipe \in Pipes /\ StreamsAreOrderly
  /\ Functional(pushed) /\ Functional(open) /\ Functional(taken)
  /\ Functional(sink) /\ Functional(next_tp_)

\* The next time of the input is a fact's, or nothing comes any more.
Certain(i) == next_tp_[i].factual # NoTime \/ (taken[i] = pushed[i] /\ ~open[i])
CallIsSound ==
  \/ call = Idle
  \/ /\ call = [at |-> call.at, input |-> call.input, kind |-> call.kind]
     /\ call.at \in {"suggest", "read", "emit"} /\ call.kind \in pipe.calls
     /\ call.at # "emit" => call.input \in Inputs
     /\ call.kind # "try_pull" => \A i \in Inputs : call.at = "emit" \/ i < call.input => Certain(i)

InputAt(i, c) ==
  InputKept(pipe.kinds[i], pipe.says[i], pushed[i], open[i], taken[i], sink[i], next_tp_[i], c)
Cuts(c) ==
  /\ c = [i \in Inputs |-> c[i]]
  /\ \A i \in Inputs : InputAt(i, c[i])
  /\ Waits => \E m \in Int : (\A i \in Inputs : c[i] = m) /\ OutSound(pipe, out, m)

IInv == Shape /\ CallIsSound /\ \E c : Cuts(c)

\* It holds at first.
LEMMA InitIInv == Init /\ StreamsAreOrderly => IInv
<1> SUFFICES ASSUME Init, StreamsAreOrderly PROVE IInv
  OBVIOUS
<1>0. /\ pipe \in Pipes
      /\ pushed = [i \in Inputs |-> 0] /\ open = [i \in Inputs |-> TRUE] /\ taken = [i \in Inputs |-> 0]
      /\ sink = [i \in Inputs |-> Sink(i)] /\ next_tp_ = [i \in Inputs |-> NoSelector]
      /\ call = Idle /\ out = << >>
  BY DEF Init
<1>1. Shape
  BY <1>0 DEF Shape, Functional
<1>2. CallIsSound
  BY <1>0 DEF CallIsSound
<1> DEFINE c == [i \in Inputs |-> -1]
<1>3. ASSUME NEW i \in Inputs PROVE InputAt(i, c[i])
  <2>1. pipe.kinds[i] \in {"scalar", "vector"} /\ Disciplined(pipe.kinds[i], pipe.says[i])
    BY <1>0, PipeIs
  <2>2. InputKept(pipe.kinds[i], pipe.says[i], 0, TRUE, 0,
                  IF pipe.kinds[i] = "scalar" THEN EmptySink ELSE EmptyVector, NoSelector, -1)
    BY <2>1, Begins
  <2>3. sink[i] = IF pipe.kinds[i] = "scalar" THEN EmptySink ELSE EmptyVector
    BY <1>0 DEF Sink, Scalar
  <2>4. pushed[i] = 0 /\ open[i] = TRUE /\ taken[i] = 0 /\ next_tp_[i] = NoSelector /\ c[i] = -1
    BY <1>0
  <2> HIDE DEF c
  <2> QED BY <2>2, <2>3, <2>4 DEF InputAt
<1>4. OutSound(pipe, out, -1)
  BY <1>0 DEF OutSound
<1>5. c = [i \in Inputs |-> c[i]] /\ \A i \in Inputs : c[i] = -1
  OBVIOUS
<1> HIDE DEF c
<1>6. Cuts(c)
  <2>1. Waits => \E m \in Int : (\A i \in Inputs : c[i] = m) /\ OutSound(pipe, out, m)
    BY <1>4, <1>5
  <2> QED BY <1>3, <1>5, <2>1 DEF Cuts
<1> QED BY <1>1, <1>2, <1>6 DEF IInv

\* Nothing happens to the streams and what was emitted.
Resting == UNCHANGED <<pipe, pushed, open, taken, sink, next_tp_, out>>
\* Then only the call may break the invariant.
LEMMA Rests ==
  ASSUME IInv, Resting
  PROVE /\ Shape'
        /\ (\E c : Cuts(c))'
        /\ CallIsSound' => IInv'
<1>0. /\ pipe' = pipe /\ pushed' = pushed /\ open' = open /\ taken' = taken /\ sink' = sink
      /\ next_tp_' = next_tp_ /\ out' = out
  BY DEF Resting
<1>1. Shape'
  BY <1>0 DEF IInv, Shape, StreamsAreOrderly, Functional, Inputs
<1>2. PICK c : Cuts(c)
  BY DEF IInv
<1>3. Waits' = Waits /\ Inputs' = Inputs
  BY <1>0 DEF Waits, Inputs, Scalar
<1>4. \A i \in Inputs : InputAt(i, c[i])'
  BY <1>0, <1>2 DEF Cuts, InputAt
<1>5. Cuts(c)'
  BY <1>0, <1>2, <1>3, <1>4 DEF Cuts
<1> QED BY <1>1, <1>5 DEF IInv

(* ----------------------------- the steps ----------------------------- *)

\* The numbers of an input.
LEMMA InputNumbers ==
  ASSUME IInv, NEW i \in Inputs
  PROVE /\ pushed[i] \in 0 .. Len(pipe.says[i]) /\ taken[i] \in 0 .. pushed[i] /\ Len(pipe.says[i]) \in Nat
        /\ ~open[i] => pushed[i] = Len(pipe.says[i])
        /\ pipe.kinds[i] \in {"scalar", "vector"} /\ Disciplined(pipe.kinds[i], pipe.says[i])
        /\ pipe \in Pipes
<1>1. pipe \in Pipes /\ StreamsAreOrderly /\ \E c : InputAt(i, c)
  BY DEF IInv, Shape, Cuts
<1>2. pipe.kinds[i] \in {"scalar", "vector"} /\ Disciplined(pipe.kinds[i], pipe.says[i])
  BY <1>1, PipeIs
<1>3. Len(pipe.says[i]) \in Nat
  BY <1>2, SaysTyped
<1> QED BY <1>1, <1>2, <1>3 DEF InputAt, InputKept

\* One input changes.
LEMMA OneInput ==
  ASSUME IInv, NEW i \in Inputs,
         UNCHANGED <<pipe, out>>, Shape',
         \A j \in Inputs \ {i} : /\ pushed'[j] = pushed[j] /\ open'[j] = open[j] /\ taken'[j] = taken[j]
                                 /\ sink'[j] = sink[j] /\ next_tp_'[j] = next_tp_[j],
         \A c : InputAt(i, c) => InputAt(i, c)'
  PROVE (\E c : Cuts(c))'
<1>0. pipe' = pipe /\ out' = out
  OBVIOUS
<1>2. PICK c : Cuts(c)
  BY DEF IInv
<1>3. Waits' = Waits /\ Inputs' = Inputs
  BY <1>0 DEF Waits, Inputs, Scalar
<1>4. ASSUME NEW j \in Inputs PROVE InputAt(j, c[j])'
  <2>1. InputAt(j, c[j])
    BY <1>2 DEF Cuts
  <2>2. CASE j = i
    BY <2>1, <2>2
  <2>3. CASE j # i
    BY <2>1, <2>3, <1>0 DEF InputAt
  <2> QED BY <2>2, <2>3
<1>5. Cuts(c)'
  BY <1>0, <1>2, <1>3, <1>4 DEF Cuts
<1> QED BY <1>5

\* A stream gets an emission.
LEMMA PushStep ==
  ASSUME IInv, NEW i \in Inputs, Push(i)
  PROVE IInv'
<1>0. /\ pushed[i] < Len(pipe.says[i]) /\ pushed' = [pushed EXCEPT ![i] = pushed[i] + 1]
      /\ pipe' = pipe /\ open' = open /\ taken' = taken /\ sink' = sink
      /\ next_tp_' = next_tp_ /\ out' = out /\ call' = call
  BY DEF Push
<1>1. Shape
  BY DEF IInv
<1>2. Inputs' = Inputs
  BY <1>0 DEF Inputs
<1>3. pushed' = [j \in Inputs |-> pushed'[j]] /\ pushed'[i] = pushed[i] + 1
      /\ \A j \in Inputs \ {i} : pushed'[j] = pushed[j]
  BY <1>0, <1>1 DEF Shape, StreamsAreOrderly, Functional
<1>4. Shape'
  BY <1>0, <1>1, <1>2, <1>3 DEF Shape, StreamsAreOrderly, Functional
<1>5. ASSUME NEW c, InputAt(i, c) PROVE InputAt(i, c)'
  <2>1. pipe.kinds[i] \in {"scalar", "vector"} /\ Disciplined(pipe.kinds[i], pipe.says[i])
    BY InputNumbers
  <2>2. InputKept(pipe.kinds[i], pipe.says[i], pushed[i], open[i], taken[i], sink[i], next_tp_[i], c)
    BY <1>5 DEF InputAt
  <2>3. InputKept(pipe.kinds[i], pipe.says[i], pushed[i] + 1, open[i], taken[i], sink[i], next_tp_[i], c)
    BY <2>1, <2>2, <1>0, Pushes
  <2> QED BY <2>3, <1>0, <1>3 DEF InputAt
<1>6. open[i]
  <2>1. pushed[i] # Len(pipe.says[i])
    BY <1>0, InputNumbers
  <2> QED BY <2>1, InputNumbers
<1>7. (\E c : Cuts(c))'
  BY <1>0, <1>3, <1>4, <1>5, OneInput
<1>8. \A j \in Inputs : Certain(j) => Certain(j)'
  BY <1>0, <1>3, <1>6 DEF Certain
<1>9. CallIsSound'
  BY <1>0, <1>2, <1>8 DEF IInv, CallIsSound
<1> QED BY <1>4, <1>7, <1>9 DEF IInv

\* A stream ends.
LEMMA CloseStep ==
  ASSUME IInv, NEW i \in Inputs, Close(i)
  PROVE IInv'
<1>0. /\ pushed[i] = Len(pipe.says[i]) /\ open' = [open EXCEPT ![i] = FALSE]
      /\ pipe' = pipe /\ pushed' = pushed /\ taken' = taken /\ sink' = sink
      /\ next_tp_' = next_tp_ /\ out' = out /\ call' = call
  BY DEF Close
<1>1. Shape
  BY DEF IInv
<1>2. Inputs' = Inputs
  BY <1>0 DEF Inputs
<1>3. open' = [j \in Inputs |-> open'[j]] /\ open'[i] = FALSE
      /\ \A j \in Inputs \ {i} : open'[j] = open[j]
  BY <1>0, <1>1 DEF Shape, StreamsAreOrderly, Functional
<1>4. Shape'
  BY <1>0, <1>1, <1>2, <1>3 DEF Shape, StreamsAreOrderly, Functional
<1>5. ASSUME NEW c, InputAt(i, c) PROVE InputAt(i, c)'
  <2>1. pipe.kinds[i] \in {"scalar", "vector"} /\ Disciplined(pipe.kinds[i], pipe.says[i])
    BY InputNumbers
  <2>2. InputKept(pipe.kinds[i], pipe.says[i], pushed[i], FALSE, taken[i], sink[i], next_tp_[i], c)
    BY <2>1, <1>0, <1>5, Pushes DEF InputAt
  <2> QED BY <2>2, <1>0, <1>3 DEF InputAt
<1>7. (\E c : Cuts(c))'
  BY <1>0, <1>3, <1>4, <1>5, OneInput
<1>8. \A j \in Inputs : Certain(j) => Certain(j)'
  BY <1>0, <1>3 DEF Certain
<1>9. CallIsSound'
  BY <1>0, <1>2, <1>8 DEF IInv, CallIsSound
<1> QED BY <1>4, <1>7, <1>9 DEF IInv

\* A call begins, or is answered at once.
LEMMA CallStep ==
  ASSUME IInv, NEW kind \in pipe.calls, Call(kind)
  PROVE IInv'
<1>0. /\ Resting
      /\ \/ call' = call
         \/ call' = [at |-> "suggest", input |-> 1, kind |-> kind]
  BY DEF Call, Resting
<1>1. Inputs = 1 .. Len(pipe.kinds) /\ Len(pipe.kinds) \in Nat \ {0}
  BY PipeIs DEF IInv, Shape
<1>2. CallIsSound'
  <2>1. CASE call' = call
    BY <1>0, <2>1 DEF IInv, CallIsSound, Resting, Certain, Inputs
  <2>2. CASE call' = [at |-> "suggest", input |-> 1, kind |-> kind]
    <3>1. call'.at = "suggest" /\ call'.input = 1 /\ call'.kind = kind
      BY <2>2
    <3>2. 1 \in Inputs /\ \A i \in Inputs : ~(i < 1)
      BY <1>1
    <3>3. Inputs' = Inputs /\ pipe' = pipe
      BY <1>0 DEF Resting, Inputs
    <3> QED BY <2>2, <3>1, <3>2, <3>3 DEF CallIsSound
  <2> QED BY <1>0, <2>1, <2>2
<1> QED BY <1>0, <1>2, Rests

\* The front is taken.
LEMMA PopFrontStep ==
  ASSUME IInv, PopFront
  PROVE IInv'
<1>0. Resting /\ call' = call
  BY DEF PopFront, Resting
<1>1. CallIsSound'
  BY <1>0 DEF IInv, CallIsSound, Resting, Certain, Inputs
<1> QED BY <1>0, <1>1, Rests

\* The call goes to the next input when this one is certain.
LEMMA OnwardSound ==
  ASSUME IInv, Resting, call.at \in {"suggest", "read"}, call' = Onward,
         call.kind # "try_pull" => Certain(call.input)
  PROVE IInv'
<1>1. Inputs = 1 .. Len(pipe.kinds) /\ Len(pipe.kinds) \in Nat \ {0}
  BY PipeIs DEF IInv, Shape
<1>2. call # Idle
  BY DEF Idle
<1>3. /\ call = [at |-> call.at, input |-> call.input, kind |-> call.kind]
      /\ call.kind \in pipe.calls /\ call.input \in Inputs
      /\ call.kind # "try_pull" => \A i \in Inputs : i < call.input => Certain(i)
  BY <1>2 DEF IInv, CallIsSound
<1> DEFINE at == IF call.input = Len(pipe.kinds) THEN "emit" ELSE "suggest"
<1>4. call' = [at |-> at, input |-> call.input + 1, kind |-> call.kind]
  <2> DEFINE x == call.at
  <2> DEFINE y == call.input
  <2> DEFINE z == call.kind
  <2>1. call = [at |-> x, input |-> y, kind |-> z] /\ at = IF y = Len(pipe.kinds) THEN "emit" ELSE "suggest"
    BY <1>3
  <2>2. call' = [call EXCEPT !.input = y + 1, !.at = at]
    BY DEF Onward
  <2> HIDE DEF at, x, y, z
  <2>3. call' = [at |-> at, input |-> y + 1, kind |-> z]
    BY <2>1, <2>2
  <2> QED BY <2>3 DEF y, z
<1>5. /\ call'.at = at /\ call'.input = call.input + 1 /\ call'.kind = call.kind
  BY <1>4
<1>6. Inputs' = Inputs /\ pipe' = pipe /\ \A i \in Inputs : Certain(i) => Certain(i)'
  BY DEF Resting, Inputs, Certain
<1>7. at # "emit" => call.input + 1 \in Inputs
  BY <1>1, <1>3
<1>8. ASSUME call.kind # "try_pull", NEW i \in Inputs, at = "emit" \/ i < call.input + 1 PROVE Certain(i)
  <2>1. i \in Nat /\ call.input \in Nat /\ i <= Len(pipe.kinds)
    BY <1>1, <1>3
  <2>2. i <= call.input
    BY <1>8, <2>1
  <2>3. CASE i = call.input
    BY <1>8, <2>3
  <2>4. CASE i < call.input
    BY <1>3, <1>8, <2>4
  <2> QED BY <2>1, <2>2, <2>3, <2>4
<1>9. at \in {"suggest", "read", "emit"}
  OBVIOUS
<1> HIDE DEF at
<1>10. CallIsSound'
  BY <1>3, <1>4, <1>5, <1>6, <1>7, <1>8, <1>9 DEF CallIsSound
<1> QED BY <1>10, Rests

\* The steps of a call at an input, without the reading.
LEMMA ReadyStep ==
  ASSUME IInv, Ready
  PROVE IInv'
<1>1. /\ Resting /\ call.at \in {"suggest", "read"} /\ call' = Onward
      /\ Certain(call.input)
  BY DEF Ready, Resting, Certain
<1> QED BY <1>1, OnwardSound

\* The same, when the input has no factual time.
LEMMA EnterReadMoreStep ==
  ASSUME IInv, EnterReadMore
  PROVE IInv'
<1>1. Resting /\ call.at = "suggest"
  BY DEF EnterReadMore, Resting
<1>2. /\ call = [at |-> call.at, input |-> call.input, kind |-> call.kind]
      /\ call.kind \in pipe.calls /\ call.input \in Inputs
      /\ call.kind # "try_pull" => \A i \in Inputs : i < call.input => Certain(i)
  <2>1. call # Idle
    BY <1>1 DEF Idle
  <2> QED BY <1>1, <2>1 DEF IInv, CallIsSound
<1>3. CASE ~Pullable(call.input)
  <2>1. Certain(call.input)
    BY <1>2, <1>3, InputNumbers DEF Pullable, Certain
  <2>2. call' = Onward
    BY <1>3 DEF EnterReadMore
  <2> QED BY <1>1, <2>1, <2>2, OnwardSound
<1>4. CASE Pullable(call.input)
  <2> DEFINE x == call.input
  <2> DEFINE z == call.kind
  <2>1. call' = [call EXCEPT !.at = "read"]
    BY <1>4 DEF EnterReadMore
  <2>2. call = [at |-> call.at, input |-> x, kind |-> z]
    BY <1>2
  <2> HIDE DEF x, z
  <2>3. call' = [at |-> "read", input |-> x, kind |-> z]
    BY <2>1, <2>2
  <2>4. call'.at = "read" /\ call'.input = x /\ call'.kind = z
    BY <2>3
  <2>5. Inputs' = Inputs /\ pipe' = pipe /\ \A i \in Inputs : Certain(i) => Certain(i)'
    BY <1>1 DEF Resting, Inputs, Certain
  <2>6. z \in pipe.calls /\ x \in Inputs /\ (z # "try_pull" => \A i \in Inputs : i < x => Certain(i))
    BY <1>2 DEF x, z
  <2>7. CallIsSound'
    BY <2>3, <2>4, <2>5, <2>6 DEF CallIsSound
  <2> QED BY <1>1, <2>7, Rests
<1> QED BY <1>3, <1>4

\* The loop ends.
LEMMA EndReadMoreStep ==
  ASSUME IInv, EndReadMore
  PROVE IInv'
<1>1. Resting /\ call.at \in {"suggest", "read"} /\ call' = Onward
  BY DEF EndReadMore, Resting
<1>2. call.kind # "try_pull" => Certain(call.input)
  BY DEF EndReadMore, Blocking, Certain
<1> QED BY <1>1, <1>2, OnwardSound

\* A call returns without an emission.
LEMMA NothingStep ==
  ASSUME IInv, Nothing
  PROVE IInv'
<1>1. Resting /\ call' = Idle
  BY DEF Nothing, Resting
<1>2. CallIsSound'
  BY <1>1 DEF CallIsSound
<1> QED BY <1>1, <1>2, Rests

\* An emission is read.
LEMMA ReadMoreStep ==
  ASSUME IInv, ReadMore
  PROVE IInv'
<1>in. call.input \in Inputs
  <2>1. call # Idle
    BY DEF Idle, ReadMore
  <2> QED BY <2>1 DEF IInv, CallIsSound, ReadMore
<1>i. PICK i \in Inputs : i = call.input
  BY <1>in
<1> DEFINE e == pipe.says[i][taken[i] + 1]
<1> DEFINE a == Accept(i, sink[i], e)
<1> DEFINE n == next_tp_[i]
<1> DEFINE new == Selector(Earlier(n.speculative, e.tp),
                           IF e.fact /\ n.factual = NoTime THEN e.tp ELSE n.factual)
<1>0. /\ taken[i] < pushed[i] /\ taken' = [taken EXCEPT ![i] = taken[i] + 1]
      /\ sink' = [sink EXCEPT ![i] = a.sink]
      /\ next_tp_' = [next_tp_ EXCEPT ![i] = IF ~a.ok THEN n ELSE new]
      /\ pipe' = pipe /\ pushed' = pushed /\ open' = open /\ out' = out /\ call' = call
      /\ call.at = "read"
  BY <1>i DEF ReadMore
<1>1. Shape
  BY DEF IInv
<1>2. Inputs' = Inputs
  BY <1>0 DEF Inputs
<1>4. /\ taken' = [j \in Inputs |-> taken'[j]] /\ taken'[i] = taken[i] + 1
      /\ sink' = [j \in Inputs |-> sink'[j]] /\ sink'[i] = a.sink
      /\ next_tp_' = [j \in Inputs |-> next_tp_'[j]] /\ next_tp_'[i] = (IF ~a.ok THEN n ELSE new)
      /\ \A j \in Inputs \ {i} : taken'[j] = taken[j] /\ sink'[j] = sink[j] /\ next_tp_'[j] = next_tp_[j]
  <2> HIDE DEF a, new, n
  <2> QED BY <1>0, <1>1 DEF Shape, StreamsAreOrderly, Functional
<1>5. Shape'
  <2> HIDE DEF a, new, n
  <2> QED BY <1>0, <1>1, <1>2, <1>4 DEF Shape, StreamsAreOrderly, Functional
<1>6. ASSUME NEW c, InputAt(i, c) PROVE InputAt(i, c)'
  <2>1. pipe.kinds[i] \in {"scalar", "vector"} /\ Disciplined(pipe.kinds[i], pipe.says[i])
    BY InputNumbers
  <2>2. InputKept(pipe.kinds[i], pipe.says[i], pushed[i], open[i], taken[i], sink[i], next_tp_[i], c)
    BY <1>6 DEF InputAt
  <2>3. a = IF pipe.kinds[i] = "scalar" THEN AcceptScalar(sink[i], pipe.says[i][taken[i] + 1])
            ELSE AcceptVector(sink[i], pipe.says[i][taken[i] + 1])
    BY DEF Accept, Scalar
  <2> HIDE DEF a
  <2>4. /\ a.ok
        /\ InputKept(pipe.kinds[i], pipe.says[i], pushed[i], open[i], taken[i] + 1, a.sink, new, c)
    BY <2>1, <2>2, <2>3, <1>0, Reads
  <2>5. next_tp_'[i] = new
    BY <2>4, <1>4
  <2> HIDE DEF new, n, e
  <2> QED BY <2>4, <2>5, <1>0, <1>4 DEF InputAt
<1>7. (\E c : Cuts(c))'
  <2> HIDE DEF a, new, n, e
  <2> QED BY <1>0, <1>4, <1>5, <1>6, OneInput
<1>8. ASSUME NEW j \in Inputs, j # i, Certain(j) PROVE Certain(j)'
  <2>1. taken'[j] = taken[j] /\ next_tp_'[j] = next_tp_[j]
    BY <1>4, <1>8
  <2> QED BY <2>1, <1>0, <1>8 DEF Certain
<1>9. CallIsSound'
  <2>1. call # Idle
    BY <1>0 DEF Idle
  <2>2. /\ call = [at |-> call.at, input |-> call.input, kind |-> call.kind]
        /\ call.kind \in pipe.calls
        /\ call.kind # "try_pull" => \A j \in Inputs : j < call.input => Certain(j)
    BY <1>0, <2>1 DEF IInv, CallIsSound
  <2>3. \A j \in Inputs : j < i => j # i
    <3>1. Inputs = 1 .. Len(pipe.kinds) /\ Len(pipe.kinds) \in Nat \ {0}
      BY PipeIs DEF IInv, Shape
    <3> QED BY <3>1
  <2>4. call.kind # "try_pull" => \A j \in Inputs : j < call.input => Certain(j)'
    BY <2>2, <2>3, <1>8, <1>i
  <2> HIDE DEF a, new, n, e
  <2> QED BY <2>2, <2>4, <1>in, <1>0, <1>2 DEF CallIsSound
<1> QED BY <1>5, <1>7, <1>9 DEF IInv

(* --------------------------- the emission ---------------------------- *)

\* More is emitted, all of it at a later time, and no more than one fact.
LEMMA Appended ==
  ASSUME NEW p, NEW o, NEW m \in Int, OutSound(p, o, m),
         NEW S, NEW E \in Seq(S), NEW tp \in Int, m < tp, \A e \in S : e.tp = tp,
         NEW r \in {m, tp},
         \A k \in 1 .. Len(E) : E[k].fact => r = tp /\ Len(E) = 1 /\ Agrees(p, tp, E[k].data)
  PROVE OutSound(p, o \o E, r)
<1> DEFINE X == o \o E
<1> DEFINE L == Len(o)
<1> DEFINE M == Len(E)
<1>1. o \in Seq(ToSet(o)) /\ L \in Nat /\ M \in Nat
  BY LenProperties DEF OutSound
<1>2. X \in Seq(ToSet(o) \cup S) /\ Len(X) = L + M
      /\ \A k \in 1 .. Len(X) : X[k] = IF k <= L THEN o[k] ELSE E[k - L]
  <2>1. o \in Seq(ToSet(o) \cup S) /\ E \in Seq(ToSet(o) \cup S)
    BY <1>1
  <2> QED BY <2>1, ConcatProperties
<1>3. \A k \in 1 .. M : E[k].tp = tp
  BY ElementOfSeq
<1> HIDE DEF X
<1>4. X \in Seq(ToSet(X))
  <2>1. \A k \in 1 .. Len(X) : X[k] \in ToSet(X)
    BY <1>2 DEF ToSet
  <2>2. X = [k \in 1 .. Len(X) |-> X[k]] /\ Len(X) \in Nat
    BY <1>2, LenProperties
  <2> QED BY <2>1, <2>2, SeqDef
<1>5. \A k \in 1 .. L : o[k].fact =>
         /\ o[k].tp \in Int /\ o[k].tp <= m
         /\ Agrees(p, o[k].tp, o[k].data)
         /\ \A j \in k + 1 .. L : o[k].tp < o[j].tp
  BY DEF OutSound
<1> HIDE DEF L, M
<1>6. ASSUME NEW k \in 1 .. L + M, X[k].fact
      PROVE /\ X[k].tp \in Int /\ X[k].tp <= r
            /\ Agrees(p, X[k].tp, X[k].data)
            /\ \A j \in k + 1 .. L + M : X[k].tp < X[j].tp
  <2>1. CASE k <= L
    <3>1. X[k] = o[k] /\ k \in 1 .. L
      BY <1>1, <1>2, <2>1
    <3>2. /\ X[k].tp \in Int /\ X[k].tp <= m
          /\ Agrees(p, X[k].tp, X[k].data)
          /\ \A j \in k + 1 .. L : X[k].tp < o[j].tp
      BY <3>1, <1>5, <1>6
    <3>3. ASSUME NEW j \in k + 1 .. L + M PROVE X[k].tp < X[j].tp
      <4>1. j \in 1 .. L + M
        BY <1>1
      <4>2. CASE j <= L
        BY <1>1, <1>2, <3>2, <4>1, <4>2
      <4>3. CASE j > L
        <5>1. X[j] = E[j - L] /\ j - L \in 1 .. M
          BY <1>1, <1>2, <4>1, <4>3
        <5> QED BY <5>1, <1>3, <3>2
      <4> QED BY <1>1, <4>2, <4>3
    <3>4. X[k].tp <= r
      BY <3>2
    <3> QED BY <3>2, <3>3, <3>4
  <2>2. CASE k > L
    <3>1. X[k] = E[k - L] /\ k - L \in 1 .. M
      BY <1>1, <1>2, <2>2
    <3>2. r = tp /\ M = 1 /\ Agrees(p, tp, E[k - L].data) /\ E[k - L].tp = tp
      BY <3>1, <1>3, <1>6 DEF M
    <3>3. k = L + 1
      BY <1>1, <2>2, <3>2
    <3> QED BY <1>1, <3>1, <3>2, <3>3
  <2> QED BY <1>1, <2>1, <2>2
<1>7. OutSound(p, X, r)
  BY <1>2, <1>4, <1>6 DEF OutSound
<1> QED BY <1>7 DEF X

\* The time that is chosen is the earliest of those that are next.
LEMMA ChosenIs ==
  ASSUME IInv, NEW c, Cuts(c), NEW tp, tp = Chosen(Suggestion), tp # NoTime
  PROVE /\ tp \in Nat
        /\ \E j \in Inputs : c[j] < tp
        /\ \A i \in Inputs : next_tp_[i].speculative # NoTime => tp <= next_tp_[i].speculative
<1> DEFINE f == [i \in Inputs |-> next_tp_[i].speculative]
<1> DEFINE times == {f[i] : i \in Inputs} \ {NoTime}
<1>1. \A i \in Inputs : /\ f[i] = next_tp_[i].speculative
                        /\ f[i] \in Int /\ c[i] \in Int /\ c[i] >= -1 /\ (f[i] = NoTime \/ f[i] > c[i])
  BY DEF Cuts, InputAt, InputKept, NextKept
<1>2. IsFiniteSet(Inputs)
  <2>1. Inputs = 1 .. Len(pipe.kinds) /\ Len(pipe.kinds) \in Nat
    BY PipeIs DEF IInv, Shape
  <2> QED BY <2>1, FS_Interval
<1>3. times = {next_tp_[i].speculative : i \in Inputs} \ {NoTime}
  OBVIOUS
<1>4. tp = First(times)
  <2>1. CASE times = {}
    BY <1>3, <2>1 DEF Suggestion, Chosen, NoSelector, Selector, First
  <2>2. CASE times # {}
    BY <1>3, <2>2 DEF Suggestion, Chosen, Selector, First
  <2> QED BY <2>1, <2>2
<1> HIDE DEF f
<1>5. tp \in times /\ \A m \in times : tp <= m
  <2>1. \A i \in Inputs : f[i] \in Int
    BY <1>1
  <2>2. /\ First(times) # NoTime => First(times) \in times
        /\ \A m \in times : First(times) <= m
    BY <1>2, <2>1, FirstIs
  <2> HIDE DEF times
  <2> QED BY <1>4, <2>2
<1>6. PICK j \in Inputs : tp = f[j]
  BY <1>5
<1>7. tp \in Int /\ c[j] < tp /\ c[j] \in Int /\ c[j] >= -1
  BY <1>1, <1>6
<1>8. tp \in Nat
  BY <1>7
<1>9. \A i \in Inputs : f[i] # NoTime => tp <= f[i]
  BY <1>5
<1> QED BY <1>1, <1>7, <1>8, <1>9

\* What is got from an input.
LEMMA GetIsGot ==
  ASSUME NEW tp
  PROVE /\ \A i \in Inputs : Args(tp)[i] = Got(pipe.kinds[i], sink[i], tp, ~Pullable(i))
        /\ Args(tp) = [i \in Inputs |-> Args(tp)[i]]
<1>1. \A i \in Inputs : Get(i, tp) = Got(pipe.kinds[i], sink[i], tp, ~Pullable(i))
  BY DEF Get, Got, Scalar
<1> QED BY <1>1 DEF Args

\* The tag sets that are shared are those of entries.
LEMMA SharedIsFinite ==
  ASSUME IInv, NEW tp \in Int, Vectors
  PROVE IsFiniteSet(SharedTags(Args(tp)))
<1>1. PICK i \in Inputs : ~Scalar(i)
  BY DEF Vectors
<1>2. SharedTags(Args(tp)) \subseteq DOMAIN Args(tp)[i].values
  BY <1>1 DEF SharedTags
<1>3. Args(tp)[i] = GetVector(sink[i], tp, tp - Slack, tp + Slack, ~Pullable(i))
  BY <1>1, GetIsGot DEF Got, Scalar
<1>4. DOMAIN Args(tp)[i].values \subseteq DOMAIN sink[i].data
  BY <1>3, VectorHolds
<1>5. IsFiniteSet(DOMAIN sink[i].data)
  <2>1. PICK c : InputAt(i, c)
    BY DEF IInv, Cuts
  <2>2. pipe.kinds[i] # "scalar"
    BY <1>1 DEF Scalar
  <2> QED BY <2>1, <2>2 DEF InputAt, InputKept, Kept, VectorKept
<1> QED BY <1>2, <1>4, <1>5, FS_Subset

\* The next state of an emission, by input.
LEMMA EmitIs ==
  ASSUME IInv, Emit, NEW tp, tp = Chosen(Suggestion)
  PROVE /\ tp # NoTime /\ out' = out \o Emission(tp, Args(tp))
        /\ pipe' = pipe /\ Inputs' = Inputs /\ pushed' = pushed /\ open' = open /\ taken' = taken
        /\ Shape' /\ CallIsSound' /\ Waits' = Waits
        /\ call.kind \in pipe.calls /\ (call.kind # "try_pull" => \A i \in Inputs : Certain(i))
        /\ \A i \in Inputs :
             /\ sink'[i] = IF Fact(Args(tp)) THEN Forward(i, sink[i], tp) ELSE Mark(i, sink[i], tp)
             /\ next_tp_'[i] = IF pipe.kinds[i] = "scalar" THEN SuggestScalar(sink'[i]) ELSE SuggestVector(sink'[i])
<1>1. /\ tp # NoTime /\ out' = out \o Emission(tp, Args(tp))
      /\ sink' = [i \in Inputs |-> IF Fact(Args(tp)) THEN Forward(i, sink[i], tp) ELSE Mark(i, sink[i], tp)]
      /\ next_tp_' = [i \in Inputs |-> Suggest(i, sink'[i])]
      /\ pipe' = pipe /\ pushed' = pushed /\ open' = open /\ taken' = taken
      /\ call' = Idle /\ call.at = "emit"
  BY DEF Emit
<1>2. Inputs' = Inputs /\ Waits' = Waits
  BY <1>1 DEF Inputs, Waits, Scalar
<1>3. Shape'
  <2>1. sink' = [i \in Inputs |-> sink'[i]] /\ next_tp_' = [i \in Inputs |-> next_tp_'[i]]
    BY <1>1
  <2> QED BY <1>1, <1>2, <2>1 DEF IInv, Shape, StreamsAreOrderly, Functional
<1>4. CallIsSound'
  BY <1>1 DEF CallIsSound
<1>5. call # Idle
  BY <1>1 DEF Idle
<1>6. call.kind \in pipe.calls /\ (call.kind # "try_pull" => \A i \in Inputs : Certain(i))
  BY <1>1, <1>5 DEF IInv, CallIsSound
<1>7. ASSUME NEW i \in Inputs
      PROVE /\ sink'[i] = IF Fact(Args(tp)) THEN Forward(i, sink[i], tp) ELSE Mark(i, sink[i], tp)
            /\ next_tp_'[i] = IF pipe.kinds[i] = "scalar" THEN SuggestScalar(sink'[i]) ELSE SuggestVector(sink'[i])
  BY <1>1 DEF Suggest, Scalar
<1> QED BY <1>1, <1>2, <1>3, <1>4, <1>6, <1>7

\* A guess is emitted.
LEMMA EmitGuessStep ==
  ASSUME IInv, Emit, NEW tp, tp = Chosen(Suggestion), ~Fact(Args(tp))
  PROVE IInv'
<1>1. PICK c : Cuts(c)
  BY DEF IInv
<1>2. /\ tp # NoTime /\ out' = out \o Emission(tp, Args(tp))
      /\ pipe' = pipe /\ Inputs' = Inputs /\ pushed' = pushed /\ open' = open /\ taken' = taken
      /\ Shape' /\ CallIsSound'
      /\ Waits' = Waits
  BY EmitIs
<1>3. /\ tp \in Nat
      /\ \E j \in Inputs : c[j] < tp
  BY <1>1, <1>2, ChosenIs
<1>4. ASSUME NEW i \in Inputs PROVE InputAt(i, c[i])'
  <2>1. pipe.kinds[i] \in {"scalar", "vector"} /\ Disciplined(pipe.kinds[i], pipe.says[i])
    BY InputNumbers
  <2>2. InputKept(pipe.kinds[i], pipe.says[i], pushed[i], open[i], taken[i], sink[i], next_tp_[i], c[i])
    BY <1>1 DEF Cuts, InputAt
  <2>3. sink'[i] = IF pipe.kinds[i] = "scalar" THEN MarkScalar(sink[i], tp) ELSE MarkVector(sink[i], tp)
    BY EmitIs DEF Mark, Scalar
  <2>4. next_tp_'[i] = IF pipe.kinds[i] = "scalar" THEN SuggestScalar(sink'[i]) ELSE SuggestVector(sink'[i])
    BY EmitIs
  <2>5. InputKept(pipe.kinds[i], pipe.says[i], pushed[i], open[i], taken[i], sink'[i],
                  IF pipe.kinds[i] = "scalar" THEN SuggestScalar(sink'[i]) ELSE SuggestVector(sink'[i]), c[i])
    BY <2>1, <2>2, <2>3, Marks
  <2> QED BY <2>4, <2>5, <1>2 DEF InputAt
<1>5. ASSUME Waits PROVE \E m \in Int : (\A i \in Inputs : c[i] = m) /\ OutSound(pipe, out', m)
  <2>1. PICK m \in Int : (\A i \in Inputs : c[i] = m) /\ OutSound(pipe, out, m)
    BY <1>1, <1>5 DEF Cuts
  <2>2. m < tp
    BY <1>3, <2>1
  <2> DEFINE E == Emission(tp, Args(tp))
  <2>3. Vectors => IsFiniteSet(SharedTags(Args(tp)))
    BY <1>3, SharedIsFinite
  <2>4. PICK S : E \in Seq(S) /\ \A e \in S : e.tp = tp /\ (e.fact => Fact(Args(tp)))
    BY <2>3, EmissionTimes
  <2> HIDE DEF E
  <2>5. \A k \in 1 .. Len(E) : ~E[k].fact
    <3>1. \A k \in 1 .. Len(E) : E[k] \in S
      BY <2>4, ElementOfSeq
    <3> QED BY <3>1, <2>4
  <2>6. OutSound(pipe, out \o E, m)
    BY <1>3, <2>1, <2>2, <2>4, <2>5, Appended
  <2> QED BY <1>2, <2>1, <2>6 DEF E
<1>6. Cuts(c)'
  BY <1>1, <1>2, <1>4, <1>5 DEF Cuts
<1> QED BY <1>2, <1>6 DEF IInv

\* A stream of which nothing more can be read was read to its end.
LEMMA NotPullable ==
  ASSUME IInv, NEW i \in Inputs
  PROVE /\ ~Pullable(i) => taken[i] = Len(pipe.says[i])
        /\ taken[i] = pushed[i] /\ ~open[i] => ~Pullable(i)
<1>1. /\ pushed[i] \in 0 .. Len(pipe.says[i]) /\ taken[i] \in 0 .. pushed[i] /\ Len(pipe.says[i]) \in Nat
      /\ ~open[i] => pushed[i] = Len(pipe.says[i])
  BY InputNumbers
<1>2. pushed[i] \in Nat /\ taken[i] \in Nat /\ taken[i] <= pushed[i]
  BY <1>1
<1> QED BY <1>1, <1>2 DEF Pullable

\* When a fact is emitted, every input drops what is up to its time.
LEMMA EmitForwards ==
  ASSUME IInv, Emit, NEW tp \in Nat, tp = Chosen(Suggestion), Fact(Args(tp)),
         NEW i \in Inputs, NEW c, InputAt(i, c)
  PROVE InputKept(pipe.kinds[i], pipe.says[i], pushed[i], open[i], taken[i], sink'[i], next_tp_'[i],
                  Cut(pipe.says[i], taken[i], c, tp))
<1> DEFINE closed == ~Pullable(i)
<1>1. pipe.kinds[i] \in {"scalar", "vector"} /\ Disciplined(pipe.kinds[i], pipe.says[i])
  BY InputNumbers
<1>2. InputKept(pipe.kinds[i], pipe.says[i], pushed[i], open[i], taken[i], sink[i], next_tp_[i], c)
  BY DEF InputAt
<1>3. closed \in BOOLEAN /\ (closed => taken[i] = Len(pipe.says[i]))
  BY NotPullable
<1>4. Got(pipe.kinds[i], sink[i], tp, closed).fact
  BY GetIsGot DEF Fact
<1>5. sink'[i] = IF pipe.kinds[i] = "scalar" THEN ForwardScalar(sink[i], tp, tp - Slack)
                 ELSE ForwardVector(sink[i], tp, tp - Slack)
  BY EmitIs DEF Forward, Scalar
<1>6. next_tp_'[i] = IF pipe.kinds[i] = "scalar" THEN SuggestScalar(sink'[i]) ELSE SuggestVector(sink'[i])
  BY EmitIs
<1> HIDE DEF closed
<1>7. \/ tp <= c
      \/ Passed(pipe.says[i], taken[i], tp) \/ taken[i] = Len(pipe.says[i])
      \/ pipe.kinds[i] # "scalar" /\ DOMAIN sink[i].data = {}
  BY <1>1, <1>2, <1>3, <1>4, FactsForward
<1>8. InputKept(pipe.kinds[i], pipe.says[i], pushed[i], open[i], taken[i], sink'[i],
                IF pipe.kinds[i] = "scalar" THEN SuggestScalar(sink'[i]) ELSE SuggestVector(sink'[i]),
                Cut(pipe.says[i], taken[i], c, tp))
  BY <1>1, <1>2, <1>5, <1>7, Forwards
<1> QED BY <1>6, <1>8

\* If the call waited, the fact is what the streams agree on, and all of them
\* have passed its time.
LEMMA EmitAgrees ==
  ASSUME IInv, Emit, Waits, NEW tp \in Nat, tp = Chosen(Suggestion), Fact(Args(tp)),
         NEW i \in Inputs, NEW c, InputAt(i, c), c < tp,
         next_tp_[i].speculative # NoTime => tp <= next_tp_[i].speculative
  PROVE /\ Passed(pipe.says[i], taken[i], tp) \/ taken[i] = Len(pipe.says[i])
        /\ \A t : {ValueAt(pipe.kinds[i], Args(tp)[i], t)} \ {Absent} = Ref(Hear(pipe.kinds[i], pipe.says[i], t), tp)
<1> DEFINE closed == ~Pullable(i)
<1>1. pipe.kinds[i] \in {"scalar", "vector"} /\ Disciplined(pipe.kinds[i], pipe.says[i])
  BY InputNumbers
<1>2. InputKept(pipe.kinds[i], pipe.says[i], pushed[i], open[i], taken[i], sink[i], next_tp_[i], c)
  BY DEF InputAt
<1>3. closed \in BOOLEAN /\ (closed => taken[i] = Len(pipe.says[i]))
  BY NotPullable
<1>4. Got(pipe.kinds[i], sink[i], tp, closed).fact
  BY GetIsGot DEF Fact
<1>5. Args(tp)[i] = Got(pipe.kinds[i], sink[i], tp, closed)
  BY GetIsGot
<1>6. pipe.kinds[i] # "scalar" => next_tp_[i].factual # NoTime \/ closed
  <2> SUFFICES ASSUME pipe.kinds[i] # "scalar" PROVE next_tp_[i].factual # NoTime \/ closed
    OBVIOUS
  <2>1. "try_pull" \notin pipe.calls
    BY DEF Waits, Scalar
  <2>2. Certain(i)
    BY <2>1, EmitIs
  <2> QED BY <2>2, NotPullable DEF Certain
<1> HIDE DEF closed
<1>7. Passed(pipe.says[i], taken[i], tp) \/ taken[i] = Len(pipe.says[i])
  BY <1>1, <1>2, <1>3, <1>4, <1>6, GotIsReference
<1>8. \A t : {ValueAt(pipe.kinds[i], Got(pipe.kinds[i], sink[i], tp, closed), t)} \ {Absent}
               = Ref(Hear(pipe.kinds[i], pipe.says[i], t), tp)
  BY <1>1, <1>2, <1>3, <1>4, <1>6, GotIsReference
<1> QED BY <1>5, <1>7, <1>8

\* A fact is emitted.
LEMMA EmitFactStep ==
  ASSUME IInv, Emit, NEW tp, tp = Chosen(Suggestion), Fact(Args(tp))
  PROVE IInv'
<1>1. PICK c : Cuts(c)
  BY DEF IInv
<1>2. /\ tp # NoTime /\ out' = out \o Emission(tp, Args(tp))
      /\ pipe' = pipe /\ Inputs' = Inputs /\ pushed' = pushed /\ open' = open /\ taken' = taken
      /\ Shape' /\ CallIsSound'
      /\ Waits' = Waits
  BY EmitIs
<1>3. /\ tp \in Nat
      /\ \E j \in Inputs : c[j] < tp
      /\ \A i \in Inputs : next_tp_[i].speculative # NoTime => tp <= next_tp_[i].speculative
  BY <1>1, <1>2, ChosenIs
<1>4. \A i \in Inputs : InputAt(i, c[i])
  BY <1>1 DEF Cuts
<1>d. PICK d : d = [i \in Inputs |-> Cut(pipe.says[i], taken[i], c[i], tp)]
  OBVIOUS
<1>5. d = [i \in Inputs |-> d[i]] /\ \A i \in Inputs : d[i] = Cut(pipe.says[i], taken[i], c[i], tp)
  BY <1>d
<1>6. ASSUME NEW i \in Inputs PROVE InputAt(i, d[i])'
  <2>1. InputKept(pipe.kinds[i], pipe.says[i], pushed[i], open[i], taken[i], sink'[i], next_tp_'[i],
                  Cut(pipe.says[i], taken[i], c[i], tp))
    BY <1>3, <1>4, EmitForwards
  <2> QED BY <2>1, <1>2, <1>5 DEF InputAt
<1>7. ASSUME Waits PROVE \E m \in Int : (\A i \in Inputs : d[i] = m) /\ OutSound(pipe, out', m)
  <2>1. PICK m \in Int : (\A i \in Inputs : c[i] = m) /\ OutSound(pipe, out, m)
    BY <1>1, <1>7 DEF Cuts
  <2>2. m < tp
    BY <1>3, <2>1
  <2>3. ASSUME NEW i \in Inputs
        PROVE /\ Passed(pipe.says[i], taken[i], tp) \/ taken[i] = Len(pipe.says[i])
              /\ \A t : {ValueAt(pipe.kinds[i], Args(tp)[i], t)} \ {Absent}
                          = Ref(Hear(pipe.kinds[i], pipe.says[i], t), tp)
    <3>1. InputAt(i, m)
      BY <1>4, <2>1
    <3>2. next_tp_[i].speculative # NoTime => tp <= next_tp_[i].speculative
      BY <1>3
    <3>3. Passed(pipe.says[i], taken[i], tp) \/ taken[i] = Len(pipe.says[i])
      BY <1>3, <1>7, <2>2, <3>1, <3>2, EmitAgrees
    <3>4. \A t : {ValueAt(pipe.kinds[i], Args(tp)[i], t)} \ {Absent}
                   = Ref(Hear(pipe.kinds[i], pipe.says[i], t), tp)
      BY <1>3, <1>7, <2>2, <3>1, <3>2, EmitAgrees
    <3> QED BY <3>3, <3>4
  <2>4. \A i \in Inputs : d[i] = tp
    BY <1>5, <2>1, <2>2, <2>3 DEF Cut
  <2>5. \A i \in Inputs : ~Scalar(i) => \A t \in DOMAIN Args(tp)[i].values : Args(tp)[i].values[t] # Absent
    <3> SUFFICES ASSUME NEW i \in Inputs, ~Scalar(i)
                 PROVE \A t \in DOMAIN Args(tp)[i].values : Args(tp)[i].values[t] # Absent
      OBVIOUS
    <3>1. Args(tp)[i] = GetVector(sink[i], tp, tp - Slack, tp + Slack, ~Pullable(i))
      BY GetIsGot DEF Got, Scalar
    <3> QED BY <3>1, VectorHolds
  <2> DEFINE E == Emission(tp, Args(tp))
  <2>6. Vectors => IsFiniteSet(SharedTags(Args(tp)))
    BY <1>3, SharedIsFinite
  <2>7. PICK S : E \in Seq(S) /\ \A e \in S : e.tp = tp /\ (e.fact => Fact(Args(tp)))
    BY <2>6, EmissionTimes
  <2>8. \A k \in 1 .. Len(E) : Len(E) = 1 /\ Agrees(pipe, tp, E[k].data)
    <3>1. CASE E = << >>
      BY <3>1
    <3>2. ASSUME NEW e, E = <<e>>, FactData(Args(tp), e.data)
          PROVE \A k \in 1 .. Len(E) : Len(E) = 1 /\ Agrees(pipe, tp, E[k].data)
      <4>1. Agrees(pipe, tp, e.data)
        <5>1. pipe \in Pipes
          BY DEF IInv, Shape
        <5>2. \A i \in Inputs : \A t : {ValueAt(pipe.kinds[i], Args(tp)[i], t)} \ {Absent}
                                          = Ref(Hear(pipe.kinds[i], pipe.says[i], t), tp)
          BY <2>3
        <5> HIDE DEF E
        <5> QED BY <5>1, <5>2, <2>5, <3>2, EmissionAgrees
      <4> HIDE DEF E
      <4>2. Len(E) = 1 /\ E[1] = e
        BY <3>2
      <4> QED BY <4>1, <4>2
    <3>3. \/ E = << >>
          \/ \E e : E = <<e>> /\ FactData(Args(tp), e.data)
      BY EmissionOfFact
    <3> HIDE DEF E
    <3> QED BY <3>1, <3>2, <3>3
  <2> HIDE DEF E
  <2>9. OutSound(pipe, out \o E, tp)
    BY <1>3, <2>1, <2>2, <2>7, <2>8, Appended
  <2> QED BY <1>2, <1>3, <2>4, <2>9 DEF E
<1>8. Cuts(d)'
  BY <1>2, <1>5, <1>6, <1>7 DEF Cuts
<1> QED BY <1>2, <1>8 DEF IInv

(* --------------------------- the theorems ---------------------------- *)

\* Every step keeps it.
LEMMA NextIInv == IInv /\ [Next]_vars => IInv'
<1> SUFFICES ASSUME IInv, [Next]_vars PROVE IInv'
  OBVIOUS
<1>1. CASE UNCHANGED vars
  <2>1. Resting /\ call' = call
    BY <1>1 DEF vars, Resting
  <2>2. CallIsSound'
    BY <2>1 DEF IInv, CallIsSound, Resting, Certain, Inputs
  <2> QED BY <2>1, <2>2, Rests
<1>2. CASE Feed
  <2>1. ASSUME NEW i \in Inputs, Push(i) \/ Close(i) PROVE IInv'
    BY <2>1, PushStep, CloseStep
  <2> QED BY <1>2, <2>1 DEF Feed
<1>3. CASE Work
  <2>1. CASE Emit
    <3>1. PICK tp : tp = Chosen(Suggestion)
      OBVIOUS
    <3>2. CASE Fact(Args(tp))
      BY <2>1, <3>1, <3>2, EmitFactStep
    <3>3. CASE ~Fact(Args(tp))
      BY <2>1, <3>1, <3>3, EmitGuessStep
    <3> QED BY <3>2, <3>3
  <2> QED BY <1>3, <2>1, ReadyStep, EnterReadMoreStep, ReadMoreStep, EndReadMoreStep, NothingStep DEF Work
<1>4. CASE Ask
  <2>1. ASSUME NEW kind \in pipe.calls, Call(kind) PROVE IInv'
    BY <2>1, CallStep
  <2> QED BY <1>4, <2>1, PopFrontStep DEF Ask
<1> QED BY <1>1, <1>2, <1>3, <1>4 DEF Next

\* The pipe stays.
LEMMA PipeStays == [Next]_vars => pipe' = pipe
BY DEF Next, Feed, Push, Close, Work, Ready, EnterReadMore, ReadMore, EndReadMore, Nothing, Emit,
       Ask, Call, PopFront, vars

\* So the invariant holds in every behaviour of a pipe with such streams.
LEMMA IInvAlways == Spec => [](StreamsAreOrderly => IInv)
<1>1. Init => (StreamsAreOrderly => IInv)
  BY InitIInv
<1>2. (StreamsAreOrderly => IInv) /\ [Next]_vars => (StreamsAreOrderly => IInv)'
  <2>1. [Next]_vars => (StreamsAreOrderly' => StreamsAreOrderly)
    <3>1. [Next]_vars => pipe' = pipe
      BY PipeStays
    <3> QED BY <3>1 DEF StreamsAreOrderly, Inputs
  <2> QED BY <2>1, NextIInv
<1> QED BY <1>1, <1>2, PTL DEF Spec

\* In every state of every pipe with orderly streams the sinks satisfy what
\* merger.cc asserts of them: facts before speculations, times in order,
\* nothing at or before what interpolation remembers.
THEOREM SinksStaySound == Spec => [](StreamsAreOrderly => SinksAreSound)
<1>1. IInv => SinksAreSound
  <2> SUFFICES ASSUME IInv, NEW i \in Inputs
               PROVE IF Scalar(i) THEN ScalarSound(sink[i])
                     ELSE VectorSound(sink[i]) /\ \A t \in DOMAIN sink[i].data : ScalarSound(sink[i].data[t])
    BY DEF SinksAreSound
  <2>1. pipe.kinds[i] \in {"scalar", "vector"} /\ Disciplined(pipe.kinds[i], pipe.says[i])
    BY InputNumbers
  <2>2. PICK c : InputKept(pipe.kinds[i], pipe.says[i], pushed[i], open[i], taken[i], sink[i], next_tp_[i], c)
    BY DEF IInv, Cuts, InputAt
  <2> QED BY <2>1, <2>2, KeptSound DEF Scalar
<1> QED BY <1>1, IInvAlways, PTL

\* A fact that the merger emits is what the complete streams say at its time,
\* and nothing follows it at or before that time, for every pipe with orderly
\* streams whose reader waits, and for scalars also when it does not
\* (expression.h: facts are known correct and never overridden).
THEOREM FactsStayFinal == Spec => [](StreamsAreOrderly /\ Waits => FactsAreFinal)
<1>1. IInv => (Waits => FactsAreFinal)
  <2> SUFFICES ASSUME IInv, Waits PROVE FactsAreFinal
    OBVIOUS
  <2>1. PICK c : Cuts(c)
    BY DEF IInv
  <2>2. PICK m \in Int : OutSound(pipe, out, m)
    BY <2>1 DEF Cuts
  <2>3. DOMAIN out = 1 .. Len(out)
    BY <2>2, LenProperties DEF OutSound
  <2>4. ASSUME NEW k \in DOMAIN out, out[k].fact
        PROVE /\ out[k].data \in ReferenceFact(out[k].tp)
              /\ \A j \in k + 1 .. Len(out) : out[k].tp < out[j].tp
    <3>1. Agrees(pipe, out[k].tp, out[k].data) /\ \A j \in k + 1 .. Len(out) : out[k].tp < out[j].tp
      BY <2>2, <2>3, <2>4 DEF OutSound
    <3> QED BY <3>1, AgreesIsReference DEF IInv, Shape
  <2> QED BY <2>4 DEF FactsAreFinal
<1> QED BY <1>1, IInvAlways, PTL
=============================================================================
