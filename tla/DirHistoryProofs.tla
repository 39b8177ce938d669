--------------------------- MODULE DirHistoryProofs ---------------------------
(***************************************************************************)
(* Theorems about DirHistory: whatever the files, the readers and the      *)
(* pushes, no record leaves the directory, and what a reader emits is in   *)
(* order, recorded, and complete.                                          *)
(***************************************************************************)
EXTENDS DirHistory, Integers, FiniteSetTheorems, SequenceTheorems, TLAPS

(***************************************************************************)
(* A finite set of integers has a least and a greatest element.            *)
(***************************************************************************)

\* Of the sets of elements below an element, which are ordered by inclusion,
\* a minimal one belongs to the least element.
LEMMA FiniteMin ==
  ASSUME NEW S \in SUBSET Int, IsFiniteSet(S), S # {}
  PROVE \E m \in S : \A n \in S : m <= n
<1>1. IsWellFoundedOn(StrictSubsetOrdering(S), SUBSET S)
  BY FS_StrictSubsetOrderingWellFounded, FS_FiniteSubsetsOfFinite
<1> DEFINE Less(n) == {x \in S : x < n}
<1> DEFINE F == {Less(n) : n \in S}
<1>2. F \subseteq SUBSET S /\ F # {}
  OBVIOUS
<1>3. PICK X \in F : \A Y \in F : <<Y, X>> \notin StrictSubsetOrdering(S)
  <2> HIDE DEF F
  <2> QED BY <1>1, <1>2, WFMin, Zenon
<1>4. PICK m \in S : X = Less(m)
  BY <1>3
<1>5. ASSUME NEW n \in S, n < m PROVE FALSE
  <2>1. Less(n) \in F /\ n \in X /\ n \notin Less(n)
    BY <1>4, <1>5
  <2>2. Less(n) \subseteq X
    <3> SUFFICES ASSUME NEW x \in S, x < n PROVE x < m
      BY <1>4
    <3> QED BY <1>5
  <2>3. <<Less(n), X>> \in StrictSubsetOrdering(S)
    BY <2>1, <2>2, <1>2, <1>3 DEF StrictSubsetOrdering
  <2> QED BY <2>1, <2>3, <1>3
<1> QED BY <1>5

\* The negated set has a least element.
LEMMA FiniteMax ==
  ASSUME NEW S \in SUBSET Int, IsFiniteSet(S), S # {}
  PROVE \E m \in S : \A n \in S : n <= m
<1> DEFINE N == {-n : n \in S}
<1>1. IsFiniteSet(N)
  <2> DEFINE f == [n \in S |-> -n]
  <2>1. f \in Surjection(S, N)
    BY DEF Surjection
  <2> QED BY <2>1, FS_Surjection
<1>2. N \in SUBSET Int /\ N # {}
  <2>1. \A n \in S : -n \in Int
    OBVIOUS
  <2> QED BY <2>1, Zenon
<1>3. PICK k \in N : \A n \in N : k <= n
  <2> HIDE DEF N
  <2> QED BY FiniteMin, <1>1, <1>2
<1>4. PICK m \in S : k = -m
  OBVIOUS
<1>5. ASSUME NEW n \in S PROVE n <= m
  <2>1. k <= -n
    BY <1>3
  <2> QED BY <2>1, <1>4
<1> QED BY <1>5

(***************************************************************************)
(* The invariant.  What it says of a reader is stated for any files, any   *)
(* reader rd and any output o, so that a step can be looked at without the *)
(* rest of the state.                                                      *)
(***************************************************************************)
DiskInv ==
  /\ IsFiniteSet(DOMAIN disk) /\ disk \in [DOMAIN disk -> File]
  /\ now \in Nat /\ \A n \in DOMAIN disk : disk[n].end <= now

HistInv ==
  /\ hist \in [up : BOOLEAN, writable : BOOLEAN, files : SUBSET DOMAIN disk,
               writeFile : SUBSET DOMAIN disk]
  /\ hist.writeFile \subseteq hist.files
  /\ \A n \in hist.files : disk[n].valid
  /\ hist.up => \A n \in DOMAIN disk : n \in hist.files \/ disk[n].recs = {}
  /\ ~hist.up => hist.files = {} /\ reader = NoReader

Ranges == [begin : OptionalTime, end : OptionalTime, interval : OptionalTime \ {{0}}]
Sources(files) == [unstarted : SUBSET DOMAIN files, active : SUBSET Record]
Stamps == UNION {[K -> Nat] : K \in SUBSET Keys}
Transformations(files) ==
  [src : Sources(files), tr : Ranges, slack : Nat, ahead : SUBSET Record,
   stamps : Stamps, first : BOOLEAN, last : BOOLEAN, emitTp : Nat]
Bounds == {S \in SUBSET Int : \A t, u \in S : t = u}
BatchesOf(files) ==
  Int \X [files : SUBSET DOMAIN files, begin : Bounds, end : Bounds]
ReadersOf(files) ==
  [status : {"open", "batches", "closed", "undefined"}, kind : {"emit", "time", "push"},
   batches : SUBSET BatchesOf(files), r : Transformations(files), due : SUBSET Record]
Emissions == [tp : Nat, keys : SUBSET Keys, between : SUBSET (Keys \X Nat \X Nat)]

Stored(files, x) == \E n \in DOMAIN files : x \in files[n].recs
RecordedAt(files, t) == \E n \in DOMAIN files : \E x \in files[n].recs : x.tp = t
Known(files, k, t) ==
  \E n \in DOMAIN files : \E x \in files[n].recs : x.tp = t /\ k \in x.keys

\* What a source still has comes after t.
After(files, src, t) ==
  /\ \A x \in src.active : t < x.tp
  /\ \A f \in src.unstarted : t < files[f].begin

SourceInv(files, tr, src) ==
  \A x \in src.active : InRange(x.tp, tr) /\ Stored(files, x)

AheadInv(files, src, ahead) ==
  /\ \A a \in ahead : /\ After(files, src, a.tp)
                      /\ \A k \in a.keys : Known(files, k, a.tp)
  /\ \A a, b \in ahead : a.tp = b.tp => a = b

StampsInv(files, r) ==
  /\ \A k \in DOMAIN r.stamps : Known(files, k, r.stamps[k])
  /\ ~NothingLeft(r) => \A k \in DOMAIN r.stamps : r.first \/ r.stamps[k] < r.emitTp

TransformationInv(files, r) ==
  /\ SourceInv(files, r.tr, r.src)
  /\ AheadInv(files, r.src, r.ahead)
  /\ StampsInv(files, r)
  /\ r.first => r.ahead = {} /\ ~r.last /\ r.stamps = <<>>
  /\ ~r.first => \A b \in r.tr.begin : b <= r.emitTp
  /\ r.last => r.emitTp \in r.tr.end

\* An emission is sound.
OutputInv(files, rd, e) ==
  /\ InRange(e.tp, rd.r.tr)
  /\ \A k \in e.keys : Known(files, k, e.tp)
  /\ \A b \in e.between : /\ b[2] < e.tp /\ e.tp < b[3]
                          /\ Known(files, b[1], b[2]) /\ Known(files, b[1], b[3])
  /\ rd.kind # "emit" => RecordedAt(files, e.tp)

OrderInv(files, rd, o) ==
  /\ rd.kind = "time" => \A i \in DOMAIN o : After(files, rd.r.src, o[i].tp)
  /\ rd.kind = "emit" =>
       /\ rd.r.first <=> o = <<>>
       /\ ~rd.r.first /\ ~NothingLeft(rd.r) => \A i \in DOMAIN o : o[i].tp < rd.r.emitTp
  /\ rd.kind = "push" =>
       /\ \A b, c \in rd.batches : \A t \in Nat :
            InRange(t, b[2]) /\ InRange(t, c[2]) => b = c
       /\ \A b \in rd.batches : \A i \in DOMAIN o : ~InRange(o[i].tp, b[2])
  /\ \A i, j \in DOMAIN o : i < j =>
       IF rd.kind = "push" THEN o[i].tp # o[j].tp ELSE o[i].tp < o[j].tp

\* Emissions are made at the points of the interval, and at the end.
GridInv(rd, o) ==
  rd.kind = "emit" /\ ~rd.r.first /\ ~NothingLeft(rd.r) =>
    \A i \in rd.r.tr.interval :
      (rd.r.emitTp - o[1].tp) % i = 0 \/ rd.r.emitTp \in rd.r.tr.end

OwedTo(rd, o, tp) ==
  /\ InRange(tp, rd.r.tr)
  /\ rd.kind = "emit" => {tp} \intersect (rd.r.tr.begin \union rd.r.tr.end) = {}
  /\ \A i \in rd.r.tr.interval : o # <<>> => (tp - o[1].tp) % i = 0

HasEmitted(rd, o, x) ==
  \E i \in DOMAIN o : o[i].tp = x.tp /\ (rd.kind = "emit" => x.keys \subseteq o[i].keys)

\* What the reader has still to read, or has read ahead.
HeldBy(files, src, ahead, x) ==
  \/ \E f \in src.unstarted : x \in files[f].recs
  \/ x \in src.active
  \/ \E a \in ahead : a.tp = x.tp /\ x.keys \subseteq a.keys

Pending(files, rd, x) ==
  \/ /\ rd.status = "open"
     /\ HeldBy(files, rd.r.src, rd.r.ahead, x)
     /\ rd.kind = "emit" /\ ~rd.r.first => rd.r.emitTp <= x.tp
  \/ /\ rd.status = "batches"
     /\ \E b \in rd.batches : \E f \in b[2].files :
          x \in files[f].recs /\ InRange(x.tp, b[2])

CompleteInv(files, rd, o) ==
  /\ \A x \in rd.due : Stored(files, x)
  /\ rd.status # "undefined" =>
       \A x \in rd.due : OwedTo(rd, o, x.tp) => HasEmitted(rd, o, x) \/ Pending(files, rd, x)

ReaderInv(files, rd, o) ==
  /\ rd \in ReadersOf(files) /\ o \in Seq(Emissions)
  /\ rd.status = "batches" => rd.kind = "push"
  /\ rd.kind # "emit" => rd.r.first
  /\ rd.kind = "push" => rd.r.src.active = {} /\ (rd.status = "open" => o = <<>>)
  /\ TransformationInv(files, rd.r)
  /\ \A i \in DOMAIN o : OutputInv(files, rd, o[i])
  /\ OrderInv(files, rd, o)
  /\ GridInv(rd, o)
  /\ CompleteInv(files, rd, o)

Inv ==
  /\ DiskInv /\ HistInv
  /\ reader # NoReader => ReaderInv(Files, reader, out)

-----------------------------------------------------------------------------
(***************************************************************************)
(* Times, and sets of them.                                                *)
(***************************************************************************)
\* A set of times has a least one.
LEMMA LeastTime ==
  ASSUME NEW S \in SUBSET Nat, S # {}
  PROVE  Min(S) \in S /\ \A t \in S : Min(S) <= t
<1>1. PICK t \in S : TRUE
  OBVIOUS
<1> DEFINE T == {x \in S : x <= t}
<1>2. T \in SUBSET Int /\ T # {} /\ T \in SUBSET Nat
  <2>1. t \in T
    OBVIOUS
  <2>2. \A x \in T : x \in Nat /\ x \in Int
    OBVIOUS
  <2> QED BY <2>1, <2>2, Zenon
<1>3. IsFiniteSet(T)
  <2>1. \A x \in T : x <= t
    OBVIOUS
  <2> HIDE DEF T
  <2> QED BY <1>1, <1>2, <2>1, FS_BoundedSetOfNaturals
<1>4. PICK m \in T : \A x \in T : m <= x
  <2> HIDE DEF T
  <2> QED BY <1>2, <1>3, FiniteMin
<1>5. m \in S /\ \A x \in S : m <= x
  <2> SUFFICES ASSUME NEW x \in S PROVE m <= x
    BY <1>4
  <2>1. CASE x <= t
    BY <2>1, <1>4
  <2>2. CASE ~(x <= t)
    BY <2>2, <1>1, <1>4
  <2> QED BY <2>1, <2>2
<1> QED BY <1>5, Zenon DEF Min

\* A bounded one has a greatest one.
LEMMA GreatestTime ==
  ASSUME NEW S \in SUBSET Nat, S # {}, NEW b \in Nat, \A t \in S : t <= b
  PROVE  Max(S) \in S /\ \A t \in S : t <= Max(S)
<1>1. IsFiniteSet(S) /\ S \in SUBSET Int
  BY FS_BoundedSetOfNaturals
<1>2. PICK m \in S : \A x \in S : x <= m
  BY <1>1, FiniteMax
<1>3. \E y \in S : \A x \in S : y >= x
  BY <1>1, <1>2
<1>4. Max(S) \in S /\ \A x \in S : Max(S) >= x
  BY <1>3, Zenon DEF Max
<1> QED BY <1>1, <1>4

\* What an optional time is when there is one.
LEMMA OneTime ==
  ASSUME NEW S \in OptionalTime, NEW t \in S
  PROVE  S = {t} /\ Max(S) = t /\ t \in Nat
<1>1. S = {t} /\ t \in Nat
  BY DEF OptionalTime
<1>2. Max(S) \in S
  <2>1. S \in SUBSET Nat /\ S # {} /\ \A x \in S : x <= t
    BY <1>1
  <2> QED BY <2>1, <1>1, GreatestTime
<1> QED BY <1>1, <1>2

\* The next point is the one after the interval or the end of the range.
LEMMA NextOf ==
  ASSUME NEW n \in Nat, NEW E \in OptionalTime, NEW m, m = Min({n} \union {e \in E : n > e})
  PROVE  /\ m \in Nat /\ m <= n /\ \A e \in E : m <= e
         /\ m = n \/ m \in E
<1> DEFINE S == {n} \union {e \in E : n > e}
<1>1. S \in SUBSET Nat /\ S # {} /\ n \in S
  BY DEF OptionalTime
<1>2. Min(S) \in S /\ \A t \in S : Min(S) <= t
  <2> HIDE DEF S
  <2> QED BY <1>1, LeastTime
<1>3. m \in S /\ \A t \in S : m <= t
  BY <1>2
<1>4. m \in Nat /\ m <= n /\ (m = n \/ m \in E)
  BY <1>1, <1>3
<1>5. ASSUME NEW e \in E PROVE m <= e
  <2>1. e \in Nat
    BY DEF OptionalTime
  <2>2. CASE n > e
    BY <2>2, <1>3
  <2>3. CASE ~(n > e)
    BY <2>1, <2>3, <1>4
  <2> QED BY <2>2, <2>3
<1> QED BY <1>4, <1>5

\* Two times between which there is no whole interval are not both of its grid.
LEMMA GridStep ==
  ASSUME NEW i \in Nat, i # 0, NEW o \in Nat, NEW p \in Nat, NEW t \in Nat,
         (p - o) % i = 0, (t - o) % i = 0, p < t
  PROVE  p + i <= t
<1> DEFINE a == (p - o) \div i
<1> DEFINE b == (t - o) \div i
<1>1. p - o = i * a /\ a \in Int
  OBVIOUS
<1>2. t - o = i * b /\ b \in Int
  OBVIOUS
<1> HIDE DEF a, b
<1>3. b >= a + 1
  <2> SUFFICES ASSUME b <= a PROVE FALSE
    BY <1>1, <1>2
  <2>1. i * b <= i * a
    BY <1>1, <1>2
  <2> QED BY <2>1, <1>1, <1>2
<1>4. i * b >= i * (a + 1)
  BY <1>1, <1>2, <1>3
<1>5. i * (a + 1) = i * a + i
  BY <1>1
<1> QED BY <1>1, <1>2, <1>4, <1>5

\* A grid is left neither by its first point nor by a step of the interval.
LEMMA GridPoint ==
  ASSUME NEW i \in Nat, i # 0, NEW o \in Nat, NEW p \in Nat
  PROVE  /\ (o - o) % i = 0
         /\ (p - o) % i = 0 => ((p + i) - o) % i = 0
<1>1. (o - o) % i = 0
  <2>1. o - o = 0
    OBVIOUS
  <2>2. 0 % i = 0
    OBVIOUS
  <2> QED BY <2>1, <2>2
<1>2. ASSUME (p - o) % i = 0 PROVE ((p + i) - o) % i = 0
  <2> DEFINE a == (p - o) \div i
  <2>1. p - o = i * a /\ a \in Int
    BY <1>2
  <2> HIDE DEF a
  <2>2. (p + i) - o = i * (a + 1)
    BY <2>1
  <2>3. (i * (a + 1)) % i = 0
    BY <2>1
  <2> QED BY <2>2, <2>3
<1> QED BY <1>1, <1>2

(***************************************************************************)
(* The source: what opening some of its files does.                        *)
(***************************************************************************)
Opens(files, tr, src, w) ==
  /\ w \in Sources(files)
  /\ w.unstarted \subseteq src.unstarted
  /\ src.active \subseteq w.active
  /\ \A x \in w.active :
       \/ x \in src.active
       \/ \E f \in src.unstarted \ w.unstarted : x \in files[f].recs /\ InRange(x.tp, tr)
  /\ \A f \in src.unstarted \ w.unstarted : \A x \in files[f].recs :
       InRange(x.tp, tr) => x \in w.active

\* The times of a file's records, and their type.
LEMMA FileTimes ==
  ASSUME NEW files, files \in [DOMAIN files -> File], NEW f \in DOMAIN files
  PROVE  /\ files[f].begin \in Nat /\ files[f].end \in Nat
         /\ files[f].begin <= files[f].end /\ IsFiniteSet(files[f].recs)
         /\ files[f].recs \in SUBSET Record
         /\ \A x \in files[f].recs : /\ x \in Record /\ x.tp \in Nat
                                     /\ files[f].begin <= x.tp /\ x.tp <= files[f].end
<1>1. files[f] \in File
  OBVIOUS
<1> QED BY <1>1 DEF File, Record

\* Opening files leads to such a source.
LEMMA OpenFilesOpens ==
  ASSUME NEW files, files \in [DOMAIN files -> File], NEW tr,
         NEW src \in Sources(files), NEW fs \in SUBSET src.unstarted
  PROVE  /\ Opens(files, tr, src, OpenFiles(files, tr, src, fs))
         /\ OpenFiles(files, tr, src, fs).unstarted = src.unstarted \ fs
<1> DEFINE w == OpenFiles(files, tr, src, fs)
<1>1. w.unstarted = src.unstarted \ fs
  BY DEF OpenFiles
<1>2. \A x : x \in w.active <=>
         x \in src.active \/ \E f \in fs : x \in files[f].recs /\ InRange(x.tp, tr)
  BY DEF OpenFiles, Emission
<1>3. w = [unstarted |-> w.unstarted, active |-> w.active]
  BY DEF OpenFiles
<1> HIDE DEF w
<1>4. \A f \in src.unstarted : f \in DOMAIN files
  BY DEF Sources
<1>5. w.active \in SUBSET Record
  <2> SUFFICES ASSUME NEW x \in w.active PROVE x \in Record
    OBVIOUS
  <2>1. CASE x \in src.active
    BY <2>1 DEF Sources
  <2>2. CASE \E f \in fs : x \in files[f].recs
    BY <2>2, <1>4, FileTimes
  <2> QED BY <2>1, <2>2, <1>2
<1>6. w \in Sources(files)
  BY <1>1, <1>3, <1>4, <1>5 DEF Sources
<1>7. src.unstarted \ w.unstarted = fs
  BY <1>1
<1>8. Opens(files, tr, src, w)
  BY <1>1, <1>2, <1>6, <1>7 DEF Opens
<1> QED BY <1>1, <1>8 DEF w

\* What holds of a source still holds once files are opened.
LEMMA OpensKeeps ==
  ASSUME NEW files, files \in [DOMAIN files -> File], NEW tr,
         NEW src \in Sources(files), NEW w, Opens(files, tr, src, w)
  PROVE  /\ SourceInv(files, tr, src) => SourceInv(files, tr, w)
         /\ \A t \in Nat : After(files, src, t) => After(files, w, t)
         /\ \A ahead, x : InRange(x.tp, tr) /\ HeldBy(files, src, ahead, x)
                            => HeldBy(files, w, ahead, x)
<1>1. \A f \in src.unstarted : f \in DOMAIN files
  BY DEF Sources
<1>2. ASSUME SourceInv(files, tr, src) PROVE SourceInv(files, tr, w)
  <2> SUFFICES ASSUME NEW x \in w.active PROVE InRange(x.tp, tr) /\ Stored(files, x)
    BY DEF SourceInv
  <2>1. CASE x \in src.active
    BY <2>1, <1>2 DEF SourceInv
  <2>2. CASE \E f \in src.unstarted : x \in files[f].recs /\ InRange(x.tp, tr)
    BY <2>2, <1>1 DEF Stored
  <2> QED BY <2>1, <2>2 DEF Opens
<1>3. ASSUME NEW t \in Nat, After(files, src, t) PROVE After(files, w, t)
  <2>1. ASSUME NEW x \in w.active PROVE t < x.tp
    <3>1. CASE x \in src.active
      BY <3>1, <1>3 DEF After
    <3>2. ASSUME NEW f \in src.unstarted, x \in files[f].recs PROVE t < x.tp
      <4>1. t < files[f].begin /\ f \in DOMAIN files
        BY <1>1, <1>3 DEF After
      <4> QED BY <4>1, <3>2, FileTimes
    <3> QED BY <3>1, <3>2 DEF Opens
  <2> QED BY <2>1, <1>3 DEF After, Opens
<1>4. ASSUME NEW ahead, NEW x, InRange(x.tp, tr), HeldBy(files, src, ahead, x)
      PROVE  HeldBy(files, w, ahead, x)
  BY <1>4 DEF HeldBy, Opens
<1> QED BY <1>2, <1>3, <1>4

\* The least time of the records of a source, once it has one.
LEMMA HeadOf ==
  ASSUME NEW S \in SUBSET Record, S # {}
  PROVE  /\ HeadTime(S) \in Nat
         /\ \E x \in S : x.tp = HeadTime(S)
         /\ \A x \in S : x.tp \in Nat /\ HeadTime(S) <= x.tp
<1>1. Times(S) \in SUBSET Nat /\ Times(S) # {}
  BY DEF Times, Record
<1>2. HeadTime(S) \in Times(S) /\ \A t \in Times(S) : HeadTime(S) <= t
  BY <1>1, LeastTime DEF HeadTime
<1> QED BY <1>1, <1>2 DEF Times, Record

\* wait: then no file that is not open begins with the earliest record or
\* before it.
LEMMA WaitOpens ==
  ASSUME NEW files, files \in [DOMAIN files -> File], NEW tr, NEW src \in Sources(files)
  PROVE  LET w == Wait(files, tr, src)
         IN /\ Opens(files, tr, src, w)
            /\ \A f \in w.unstarted : HeadTime(w.active) < files[f].begin
            /\ w.active = {} => w.unstarted = {}
<1> DEFINE w == Wait(files, tr, src)
<1> DEFINE fs == {f \in src.unstarted : \A x \in LeftBefore(files, tr, src, f) :
                                           files[f].begin <= x.tp}
<1> DEFINE all == OpenFiles(files, tr, src, src.unstarted).active
<1>1. Opens(files, tr, src, w) /\ w.unstarted = src.unstarted \ fs
  <2>1. fs \in SUBSET src.unstarted
    OBVIOUS
  <2>2. w = OpenFiles(files, tr, src, fs)
    BY DEF Wait
  <2> HIDE DEF fs, w
  <2>3. Opens(files, tr, src, OpenFiles(files, tr, src, fs))
    BY <2>1, OpenFilesOpens
  <2>4. OpenFiles(files, tr, src, fs).unstarted = src.unstarted \ fs
    BY DEF OpenFiles
  <2> QED BY <2>2, <2>3, <2>4
<1>2. Opens(files, tr, src, OpenFiles(files, tr, src, src.unstarted))
  BY OpenFilesOpens
<1>3. all \in SUBSET Record
  BY <1>2 DEF Opens, Sources
<1>4. ASSUME NEW f \in w.unstarted
      PROVE  \E x \in LeftBefore(files, tr, src, f) :
               /\ x \in all /\ x.tp \in Nat /\ x.tp < files[f].begin
               /\ \/ x \in src.active
                  \/ \E g \in src.unstarted : /\ files[g].begin < files[f].begin
                                              /\ x \in files[g].recs /\ InRange(x.tp, tr)
  <2>1. f \in src.unstarted /\ f \notin fs /\ f \in DOMAIN files
    BY <1>1 DEF Sources
  <2>2. PICK x \in LeftBefore(files, tr, src, f) : ~(files[f].begin <= x.tp)
    BY <2>1
  <2> DEFINE before == {g \in src.unstarted : files[g].begin < files[f].begin}
  <2>3. x \in OpenFiles(files, tr, src, before).active
    BY <2>2 DEF LeftBefore
  <2>4. Opens(files, tr, src, OpenFiles(files, tr, src, before))
    <3>1. before \in SUBSET src.unstarted
      OBVIOUS
    <3> HIDE DEF before
    <3> QED BY <3>1, OpenFilesOpens
  <2>5. \/ x \in src.active
        \/ \E g \in before : x \in files[g].recs /\ InRange(x.tp, tr)
    <3>1. OpenFiles(files, tr, src, before).unstarted = src.unstarted \ before
      BY DEF OpenFiles
    <3> QED BY <2>3, <2>4, <3>1 DEF Opens
  <2>6. x \in all
    <3>1. OpenFiles(files, tr, src, src.unstarted).unstarted = {}
      BY DEF OpenFiles
    <3> QED BY <2>5, <3>1, <1>2 DEF Opens
  <2>7. x.tp \in Nat /\ files[f].begin \in Nat
    BY <2>6, <1>3, <2>1, FileTimes DEF Record
  <2> QED BY <2>2, <2>5, <2>6, <2>7
<1> HIDE DEF w, fs
<1>5. CASE all = {}
  <2>1. w.unstarted = {}
    BY <1>4, <1>5
  <2> QED BY <2>1, <1>1 DEF w
<1>6. CASE all # {}
  <2>1. HeadTime(all) \in Nat /\ \A x \in all : x.tp \in Nat /\ HeadTime(all) <= x.tp
    BY <1>3, <1>6, HeadOf
  <2>2. PICK e \in all : e.tp = HeadTime(all)
    BY <1>3, <1>6, HeadOf
  <2>3. ASSUME NEW f \in w.unstarted PROVE e.tp < files[f].begin
    <3>1. PICK x \in all : x.tp < files[f].begin
      BY <1>4
    <3>2. files[f].begin \in Nat
      BY <1>1, FileTimes DEF Opens, Sources
    <3> QED BY <2>1, <2>2, <3>1, <3>2
  <2>4. e \in w.active
    <3>1. CASE e \in src.active
      BY <3>1, <1>1 DEF Opens
    <3>2. ASSUME NEW g \in src.unstarted, e \in files[g].recs, InRange(e.tp, tr)
          PROVE  e \in w.active
      <4>1. g \in DOMAIN files
        BY DEF Sources
      <4>2. files[g].begin <= e.tp /\ files[g].begin \in Nat /\ e.tp \in Nat
        BY <3>2, <4>1, FileTimes
      <4>3. g \notin w.unstarted
        BY <2>3, <4>2
      <4> QED BY <4>3, <3>2, <1>1 DEF Opens
    <3> QED BY <3>1, <3>2, <1>2 DEF Opens
  <2>5. w.active \in SUBSET all
    <3>1. OpenFiles(files, tr, src, src.unstarted).unstarted = {}
      BY DEF OpenFiles
    <3> QED BY <3>1, <1>1, <1>2 DEF Opens
  <2>6. HeadTime(w.active) = e.tp
    <3>1. w.active \in SUBSET Record /\ w.active # {}
      BY <2>4, <1>1 DEF Opens, Sources
    <3>2. HeadTime(w.active) \in Nat /\ HeadTime(w.active) <= e.tp
      BY <3>1, <2>4, HeadOf
    <3>3. PICK x \in w.active : x.tp = HeadTime(w.active)
      BY <3>1, HeadOf
    <3>4. e.tp <= x.tp
      BY <3>3, <2>1, <2>2, <2>5
    <3> QED BY <3>2, <3>3, <3>4, <2>1, <2>2
  <2> QED BY <1>1, <2>3, <2>4, <2>6 DEF w
<1> QED BY <1>5, <1>6

(***************************************************************************)
(* transformation: reading ahead.                                          *)
(***************************************************************************)
\* What is read up to the limit, what is left then comes after it.
LEMMA OpenPastOpens ==
  ASSUME NEW files, files \in [DOMAIN files -> File], NEW tr, NEW src \in Sources(files),
         NEW limit \in Nat
  PROVE  /\ Opens(files, tr, src, OpenPast(files, tr, src, limit))
         /\ \A f \in OpenPast(files, tr, src, limit).unstarted : limit < files[f].begin
<1> DEFINE w == OpenPast(files, tr, src, limit)
<1> DEFINE fs == {f \in src.unstarted : \A x \in LeftBefore(files, tr, src, f) :
                                           x.tp <= limit \/ files[f].begin <= x.tp}
<1>1. Opens(files, tr, src, w) /\ w.unstarted = src.unstarted \ fs
  <2>1. fs \in SUBSET src.unstarted
    OBVIOUS
  <2>2. w = OpenFiles(files, tr, src, fs)
    BY DEF OpenPast
  <2> HIDE DEF fs, w
  <2>3. Opens(files, tr, src, OpenFiles(files, tr, src, fs))
    BY <2>1, OpenFilesOpens
  <2>4. OpenFiles(files, tr, src, fs).unstarted = src.unstarted \ fs
    BY DEF OpenFiles
  <2> QED BY <2>2, <2>3, <2>4
<1>2. ASSUME NEW f \in w.unstarted PROVE limit < files[f].begin
  <2>1. f \in src.unstarted /\ f \notin fs /\ f \in DOMAIN files
    BY <1>1 DEF Sources
  <2>2. PICK x \in LeftBefore(files, tr, src, f) :
               ~(x.tp <= limit) /\ ~(files[f].begin <= x.tp)
    BY <2>1
  <2> DEFINE before == {g \in src.unstarted : files[g].begin < files[f].begin}
  <2>3. x \in OpenFiles(files, tr, src, before).active
    BY <2>2 DEF LeftBefore
  <2>4. Opens(files, tr, src, OpenFiles(files, tr, src, before))
    <3>1. before \in SUBSET src.unstarted
      OBVIOUS
    <3> HIDE DEF before
    <3> QED BY <3>1, OpenFilesOpens
  <2>5. x.tp \in Nat /\ files[f].begin \in Nat
    BY <2>1, <2>3, <2>4, FileTimes DEF Opens, Sources, Record
  <2> QED BY <2>2, <2>5
<1> QED BY <1>1, <1>2

LEMMA ReadAhead ==
  ASSUME NEW files, files \in [DOMAIN files -> File], NEW r \in Transformations(files),
         SourceInv(files, r.tr, r.src), AheadInv(files, r.src, r.ahead)
  PROVE  LET read == ReadUpTo(files, r)
         IN /\ read.src \in Sources(files) /\ read.ahead \in SUBSET Record
            /\ SourceInv(files, r.tr, read.src)
            /\ AheadInv(files, read.src, read.ahead)
            /\ After(files, read.src, r.emitTp + r.slack)
            /\ \A x : InRange(x.tp, r.tr) /\ HeldBy(files, r.src, r.ahead, x)
                        => HeldBy(files, read.src, read.ahead, x)
<1> DEFINE limit == r.emitTp + r.slack
<1> DEFINE w == OpenPast(files, r.tr, r.src, limit)
<1> DEFINE past == {x \in w.active : x.tp <= limit}
<1> DEFINE read == ReadUpTo(files, r)
<1>1. /\ r.src \in Sources(files) /\ limit \in Nat /\ r.ahead \in SUBSET Record
      /\ \A a \in r.ahead : a.tp \in Nat
  BY DEF Transformations, Record
<1>2. Opens(files, r.tr, r.src, w) /\ \A f \in w.unstarted : limit < files[f].begin
  <2> HIDE DEF limit
  <2> QED BY <1>1, OpenPastOpens
<1>3. /\ read.src = [w EXCEPT !.active = @ \ past]
      /\ read.ahead = r.ahead \union {Merged(past, t) : t \in Times(past)}
  BY DEF ReadUpTo, ReadFrom
<1> HIDE DEF limit, w, read
<1>4. w \in Sources(files) /\ w.active \in SUBSET Record
  BY <1>2 DEF Opens, Sources
<1>5. /\ read.src \in Sources(files) /\ read.src.unstarted = w.unstarted
      /\ read.src.active = w.active \ past
  BY <1>3, <1>4 DEF Sources
<1>6. SourceInv(files, r.tr, w)
  BY <1>1, <1>2, OpensKeeps
<1>7. SourceInv(files, r.tr, read.src)
  BY <1>5, <1>6 DEF SourceInv
<1>8. After(files, read.src, limit)
  <2>1. ASSUME NEW x \in read.src.active PROVE limit < x.tp
    <3>1. x \in w.active /\ ~(x.tp <= limit) /\ x.tp \in Nat
      BY <1>4, <1>5 DEF Record
    <3> QED BY <3>1, <1>1
  <2> QED BY <2>1, <1>2, <1>5 DEF After
<1> DEFINE new == {Merged(past, t) : t \in Times(past)}
<1>9. ASSUME NEW a \in new
      PROVE  /\ a \in Record /\ a.tp <= limit /\ \E x \in past : x.tp = a.tp
             /\ \A k \in a.keys : Known(files, k, a.tp)
             /\ a = Merged(past, a.tp)
  <2>1. PICK t \in Times(past) : a = Merged(past, t)
    OBVIOUS
  <2>2. PICK y \in past : y.tp = t
    BY DEF Times
  <2>3. a.tp = t /\ a.keys = UNION {x.keys : x \in {z \in past : z.tp = t}} /\ a.between = {}
    BY <2>1 DEF Merged
  <2>4. past \in SUBSET Record
    BY <1>4
  <2>5. t \in Nat /\ t <= limit
    BY <2>2, <2>4 DEF Record
  <2>6. a \in Record
    <3>1. a.keys \in SUBSET Keys
      <4> SUFFICES ASSUME NEW k \in a.keys PROVE k \in Keys
        OBVIOUS
      <4>1. PICK x \in past : k \in x.keys
        BY <2>3
      <4> QED BY <4>1, <2>4 DEF Record
    <3>2. a = [tp |-> a.tp, keys |-> a.keys, between |-> a.between]
      BY <2>1 DEF Merged
    <3> QED BY <3>1, <3>2, <2>3, <2>5 DEF Record
  <2>7. ASSUME NEW k \in a.keys PROVE Known(files, k, a.tp)
    <3>1. PICK x \in past : x.tp = t /\ k \in x.keys
      BY <2>3
    <3>2. Stored(files, x)
      BY <3>1, <1>6 DEF SourceInv
    <3> QED BY <3>1, <3>2, <2>3 DEF Stored, Known
  <2> QED BY <2>1, <2>2, <2>3, <2>5, <2>6, <2>7
<1>10. read.ahead = r.ahead \union new
  BY <1>3
<1>11. read.ahead \in SUBSET Record
  <2> HIDE DEF new
  <2> QED BY <1>1, <1>9, <1>10
<1>12. \A a \in r.ahead : After(files, w, a.tp) /\ After(files, read.src, a.tp)
  <2> SUFFICES ASSUME NEW a \in r.ahead
               PROVE  After(files, w, a.tp) /\ After(files, read.src, a.tp)
    OBVIOUS
  <2>1. After(files, r.src, a.tp)
    BY DEF AheadInv
  <2>2. After(files, w, a.tp)
    BY <2>1, <1>1, <1>2, OpensKeeps
  <2> QED BY <2>2, <1>5 DEF After
<1>13. ASSUME NEW a \in read.ahead
       PROVE  After(files, read.src, a.tp) /\ \A k \in a.keys : Known(files, k, a.tp)
  <2>1. CASE a \in r.ahead
    BY <2>1, <1>12 DEF AheadInv
  <2>2. CASE a \in new
    <3>1. a.tp \in Nat /\ a.tp <= limit
      BY <2>2, <1>9 DEF Record
    <3>2. /\ \A f \in read.src.unstarted : files[f].begin \in Nat
          /\ \A x \in read.src.active : x.tp \in Nat
      BY <1>5, FileTimes DEF Sources, Record
    <3>3. After(files, read.src, a.tp)
      BY <3>1, <3>2, <1>1, <1>8 DEF After
    <3> HIDE DEF new
    <3> QED BY <3>3, <2>2, <1>9
  <2> QED BY <2>1, <2>2, <1>10
<1>14. ASSUME NEW a \in read.ahead, NEW b \in read.ahead, a.tp = b.tp
       PROVE  a = b
  <2>1. ASSUME NEW c \in r.ahead, NEW d \in new PROVE c.tp # d.tp
    <3>1. PICK x \in past : x.tp = d.tp
      <4> HIDE DEF new
      <4> QED BY <1>9
    <3>2. c.tp < x.tp
      BY <1>12 DEF After
    <3>3. c.tp \in Nat /\ x.tp \in Nat
      BY <1>1, <1>4 DEF Record
    <3> QED BY <3>1, <3>2, <3>3
  <2>2. CASE a \in r.ahead /\ b \in r.ahead
    BY <2>2, <1>14 DEF AheadInv
  <2>3. CASE a \in new /\ b \in new
    <3> HIDE DEF new
    <3> QED BY <2>3, <1>9, <1>14
  <2> HIDE DEF new
  <2> QED BY <2>1, <2>2, <2>3, <1>10, <1>14
<1>15. AheadInv(files, read.src, read.ahead)
  BY <1>13, <1>14 DEF AheadInv
<1>16. ASSUME NEW x, InRange(x.tp, r.tr), HeldBy(files, r.src, r.ahead, x)
       PROVE  HeldBy(files, read.src, read.ahead, x)
  <2>1. HeldBy(files, w, r.ahead, x)
    BY <1>1, <1>2, <1>16, OpensKeeps
  <2>2. CASE x \in past
    <3> DEFINE a == Merged(past, x.tp)
    <3>1. a \in new
      BY <2>2 DEF Times
    <3>2. a.tp = x.tp /\ x.keys \subseteq a.keys
      BY <2>2 DEF Merged
    <3> HIDE DEF a, new
    <3> QED BY <3>1, <3>2, <1>10 DEF HeldBy
  <2>3. CASE x \notin past
    BY <2>1, <2>3, <1>5, <1>10 DEF HeldBy
  <2> QED BY <2>2, <2>3
<1> QED BY <1>5, <1>7, <1>8, <1>11, <1>15, <1>16 DEF limit, read

(***************************************************************************)
(* transformation: the point that is emitted.                              *)
(***************************************************************************)
\* The time a key is left with is the one it had or that of a record.
LEMMA StampedTimes ==
  ASSUME NEW stamps \in Stamps, NEW rs \in SUBSET Record, NEW b \in Nat,
         \A x \in rs : x.tp <= b
  PROVE  /\ Stamped(stamps, rs) \in Stamps
         /\ \A k \in DOMAIN Stamped(stamps, rs) :
              \/ k \in DOMAIN stamps /\ Stamped(stamps, rs)[k] = stamps[k]
              \/ \E x \in rs : k \in x.keys /\ Stamped(stamps, rs)[k] = x.tp
<1> DEFINE new == UNION {x.keys : x \in rs}
<1> DEFINE last(k) == Max(Times({x \in rs : k \in x.keys}))
<1> DEFINE s == Stamped(stamps, rs)
<1>1. s = [k \in DOMAIN stamps \union new |-> IF k \in new THEN last(k) ELSE stamps[k]]
  BY DEF Stamped
<1>2. PICK K \in SUBSET Keys : stamps \in [K -> Nat]
  BY DEF Stamps
<1>3. new \in SUBSET Keys
  BY DEF Record
<1>4. ASSUME NEW k \in new
      PROVE  \E x \in rs : k \in x.keys /\ last(k) = x.tp /\ x.tp \in Nat
  <2> DEFINE T == Times({x \in rs : k \in x.keys})
  <2>1. T # {}
    BY DEF Times
  <2>2. T \in SUBSET Nat /\ \A t \in T : t <= b
    BY DEF Times, Record
  <2>3. Max(T) \in T
    <3> HIDE DEF T
    <3> QED BY <2>1, <2>2, GreatestTime
  <2> QED BY <2>2, <2>3 DEF Times
<1> HIDE DEF s, new, last
<1>5. ASSUME NEW k \in DOMAIN s
      PROVE  /\ k \in Keys /\ s[k] \in Nat
             /\ \/ k \in DOMAIN stamps /\ s[k] = stamps[k]
                \/ \E x \in rs : k \in x.keys /\ s[k] = x.tp
  <2>1. CASE k \in new
    BY <2>1, <1>1, <1>3, <1>4
  <2>2. CASE k \notin new
    <3>1. k \in DOMAIN stamps /\ s[k] = stamps[k]
      BY <2>2, <1>1, <1>5
    <3> QED BY <3>1, <1>2
  <2> QED BY <2>1, <2>2
<1>6. s \in Stamps
  <2>1. s \in [DOMAIN s -> Nat]
    BY <1>1, <1>5
  <2> QED BY <2>1, <1>5 DEF Stamps
<1> QED BY <1>5, <1>6 DEF s

\* The reader r stands at a point, whose record is the first of those read ahead.
AtPoint(files, r) ==
  /\ r \in Transformations(files)
  /\ SourceInv(files, r.tr, r.src) /\ AheadInv(files, r.src, r.ahead)
  /\ After(files, r.src, r.emitTp)
  /\ \A a \in r.ahead : r.emitTp <= a.tp
  /\ \E a \in r.ahead : a.tp = r.emitTp
  /\ \A k \in DOMAIN r.stamps : Known(files, k, r.stamps[k]) /\ r.stamps[k] < r.emitTp

SameRange(r, s) == s.tr = r.tr /\ s.slack = r.slack /\ s.first = r.first

LEMMA CreateEmitPoint ==
  ASSUME NEW files, files \in [DOMAIN files -> File], NEW r \in Transformations(files),
         TransformationInv(files, r), ~r.first, ~NothingLeft(r)
  PROVE  LET c == CreateEmit(files, r).reader
         IN /\ AtPoint(files, c) /\ SameRange(r, c)
            /\ c.emitTp = r.emitTp /\ c.last = r.last
            /\ \A x : /\ InRange(x.tp, r.tr) /\ r.emitTp <= x.tp /\ x.tp \in Nat
                      /\ HeldBy(files, r.src, r.ahead, x)
                      => HeldBy(files, c.src, c.ahead, x)
<1> DEFINE read == ReadUpTo(files, r)
<1> DEFINE c == CreateEmit(files, r).reader
<1> DEFINE past == {x \in read.ahead : x.tp < r.emitTp}
<1> DEFINE rest == read.ahead \ past
<1> DEFINE point == Merged({}, r.emitTp)
<1>1. /\ r.emitTp \in Nat /\ r.slack \in Nat /\ r.stamps \in Stamps
      /\ SourceInv(files, r.tr, r.src) /\ AheadInv(files, r.src, r.ahead)
  BY DEF Transformations, TransformationInv
<1>2. /\ read.src \in Sources(files) /\ read.ahead \in SUBSET Record
      /\ SourceInv(files, r.tr, read.src)
      /\ AheadInv(files, read.src, read.ahead)
      /\ After(files, read.src, r.emitTp + r.slack)
      /\ \A x : InRange(x.tp, r.tr) /\ HeldBy(files, r.src, r.ahead, x)
                  => HeldBy(files, read.src, read.ahead, x)
  <2> HIDE DEF read
  <2> QED BY <1>1, ReadAhead DEF read
<1>3. c = [r EXCEPT !.src = read.src, !.stamps = Stamped(@, past),
                    !.ahead = IF r.emitTp \in Times(rest) THEN rest
                              ELSE rest \union {point}]
  BY DEF CreateEmit, PointFrom
<1> HIDE DEF read, c
<1>4. \A a \in read.ahead : a.tp \in Nat
  BY <1>2 DEF Record
<1>5. past \in SUBSET Record /\ \A x \in past : x.tp <= r.emitTp
  BY <1>1, <1>2, <1>4
<1>6. point \in Record /\ point.tp = r.emitTp /\ point.keys = {}
  BY <1>1 DEF Merged, Record
<1>7. \A k \in DOMAIN r.stamps : Known(files, k, r.stamps[k]) /\ r.stamps[k] < r.emitTp
  BY DEF TransformationInv, StampsInv
<1> DEFINE stamps == Stamped(r.stamps, past)
<1>8. stamps \in Stamps /\ \A k \in DOMAIN stamps :
              \/ k \in DOMAIN r.stamps /\ stamps[k] = r.stamps[k]
              \/ \E x \in past : k \in x.keys /\ stamps[k] = x.tp
  <2> HIDE DEF past
  <2> QED BY <1>1, <1>5, StampedTimes
<1> DEFINE ahead == IF r.emitTp \in Times(rest) THEN rest ELSE rest \union {point}
<1>9. /\ c.src = read.src /\ c.stamps = stamps /\ c.ahead = ahead
      /\ SameRange(r, c) /\ c.emitTp = r.emitTp /\ c.last = r.last
  BY <1>3 DEF SameRange, Transformations
<1>10. ahead \in SUBSET Record
  BY <1>2, <1>6
<1>11. c \in Transformations(files)
  <2> HIDE DEF stamps, ahead
  <2> QED BY <1>2, <1>3, <1>8, <1>9, <1>10 DEF Transformations
<1>12. After(files, c.src, r.emitTp)
  <2>1. \A f \in read.src.unstarted : files[f].begin \in Nat
    BY <1>2, FileTimes DEF Sources
  <2>2. \A x \in read.src.active : x.tp \in Nat
    BY <1>2 DEF Sources, Record
  <2> QED BY <2>1, <2>2, <1>1, <1>2, <1>9 DEF After
<1>13. \A a \in ahead : r.emitTp <= a.tp /\ (a \in rest \/ a = point)
  BY <1>1, <1>4, <1>6
<1>14. \E a \in ahead : a.tp = r.emitTp
  BY <1>6 DEF Times
<1>15. AheadInv(files, c.src, ahead)
  <2>1. ASSUME NEW a \in ahead
        PROVE  After(files, c.src, a.tp) /\ \A k \in a.keys : Known(files, k, a.tp)
    <3>1. CASE a \in rest
      BY <3>1, <1>2, <1>9 DEF AheadInv
    <3>2. CASE a = point
      <4> HIDE DEF point
      <4> QED BY <3>2, <1>6, <1>12
    <3> QED BY <3>1, <3>2, <1>13
  <2>2. ASSUME NEW a \in ahead, NEW b \in ahead, a.tp = b.tp PROVE a = b
    <3>1. CASE a \in rest /\ b \in rest
      BY <3>1, <2>2, <1>2 DEF AheadInv
    <3>2. CASE r.emitTp \in Times(rest)
      BY <3>1, <3>2
    <3>3. CASE r.emitTp \notin Times(rest)
      <4> HIDE DEF point
      <4>1. \A d \in rest : d.tp # point.tp
        BY <3>3, <1>6 DEF Times
      <4> HIDE DEF rest
      <4> QED BY <3>1, <4>1, <2>2
    <3> QED BY <3>2, <3>3
  <2> HIDE DEF ahead
  <2> QED BY <2>1, <2>2 DEF AheadInv
<1>16. ASSUME NEW k \in DOMAIN stamps
       PROVE  Known(files, k, stamps[k]) /\ stamps[k] < r.emitTp
  <2>1. CASE k \in DOMAIN r.stamps /\ stamps[k] = r.stamps[k]
    BY <2>1, <1>7
  <2>2. ASSUME NEW x \in past, k \in x.keys, stamps[k] = x.tp
        PROVE  Known(files, k, stamps[k]) /\ stamps[k] < r.emitTp
    BY <2>2, <1>2 DEF AheadInv
  <2> HIDE DEF stamps, past
  <2> QED BY <2>1, <2>2, <1>8
<1>17. AtPoint(files, c)
  <2>1. SourceInv(files, c.tr, c.src)
    BY <1>2, <1>9 DEF SameRange
  <2> HIDE DEF stamps, ahead
  <2> QED BY <2>1, <1>9, <1>11, <1>12, <1>13, <1>14, <1>15, <1>16 DEF AtPoint
<1>18. ASSUME NEW x, InRange(x.tp, r.tr), r.emitTp <= x.tp, x.tp \in Nat,
              HeldBy(files, r.src, r.ahead, x)
       PROVE  HeldBy(files, c.src, c.ahead, x)
  <2>1. HeldBy(files, read.src, read.ahead, x)
    BY <1>2, <1>18
  <2>2. ASSUME NEW a \in read.ahead, a.tp = x.tp PROVE a \in c.ahead
    BY <2>2, <1>1, <1>9, <1>18
  <2> QED BY <2>1, <2>2, <1>9 DEF HeldBy
<1> QED BY <1>9, <1>17, <1>18 DEF c

\* The record at the front.
LEMMA FirstAheadIs ==
  ASSUME NEW files, NEW r, AtPoint(files, r)
  PROVE  /\ FirstAhead(r.ahead) \in r.ahead
         /\ HeadTime(r.ahead) = r.emitTp /\ FirstAhead(r.ahead).tp = r.emitTp
         /\ \A a \in r.ahead : a.tp = r.emitTp => a = FirstAhead(r.ahead)
<1>1. r.ahead \in SUBSET Record /\ r.ahead # {} /\ r.emitTp \in Nat
  BY DEF AtPoint, Transformations
<1>2. /\ HeadTime(r.ahead) \in Nat
      /\ \E x \in r.ahead : x.tp = HeadTime(r.ahead)
      /\ \A x \in r.ahead : HeadTime(r.ahead) <= x.tp
  BY <1>1, HeadOf
<1>3. HeadTime(r.ahead) = r.emitTp
  <2>1. PICK a \in r.ahead : a.tp = r.emitTp
    BY DEF AtPoint
  <2>2. PICK x \in r.ahead : x.tp = HeadTime(r.ahead)
    BY <1>2
  <2>3. r.emitTp <= x.tp /\ HeadTime(r.ahead) <= a.tp
    BY <1>2 DEF AtPoint
  <2> QED BY <1>1, <1>2, <2>1, <2>2, <2>3
<1>4. FirstAhead(r.ahead) \in r.ahead /\ FirstAhead(r.ahead).tp = HeadTime(r.ahead)
  BY <1>2 DEF FirstAhead
<1> QED BY <1>3, <1>4 DEF AtPoint, AheadInv

\* What is emitted for the point.
LEMMA PointIsSound ==
  ASSUME NEW files, files \in [DOMAIN files -> File], NEW r, AtPoint(files, r)
  PROVE  LET e == PointOf(r)
         IN /\ e \in Emissions /\ e.tp = r.emitTp
            /\ \A k \in e.keys : Known(files, k, e.tp)
            /\ \A b \in e.between : /\ b[2] < e.tp /\ e.tp < b[3]
                                    /\ Known(files, b[1], b[2]) /\ Known(files, b[1], b[3])
            /\ \A x : /\ ~AtEnds(r) /\ x.tp = r.emitTp
                      /\ HeldBy(files, r.src, r.ahead, x)
                      => x.keys \subseteq e.keys
<1> DEFINE e == PointOf(r)
<1>1. /\ r \in Transformations(files) /\ r.ahead \in SUBSET Record /\ r.emitTp \in Nat
      /\ r.stamps \in Stamps /\ r.slack \in Nat
  BY DEF AtPoint, Transformations
<1>2. /\ FirstAhead(r.ahead) \in r.ahead
      /\ HeadTime(r.ahead) = r.emitTp /\ FirstAhead(r.ahead).tp = r.emitTp
      /\ \A a \in r.ahead : a.tp = r.emitTp => a = FirstAhead(r.ahead)
  BY FirstAheadIs
<1>3. CASE AtEnds(r)
  <2> DEFINE Later(k) == Times({x \in r.ahead : /\ r.emitTp < x.tp
                                                /\ x.tp <= r.emitTp + r.slack
                                                /\ k \in x.keys})
  <2> DEFINE known == {k \in DOMAIN r.stamps : /\ r.stamps[k] >= r.emitTp - r.slack
                                               /\ Later(k) # {}}
  <2>1. e = [tp |-> r.emitTp, keys |-> {},
             between |-> {<<k, r.stamps[k], Min(Later(k))>> : k \in known}]
    BY <1>2, <1>3 DEF PointOf, InterpolateFor
  <2>2. ASSUME NEW k \in known
        PROVE  /\ k \in Keys /\ r.stamps[k] \in Nat /\ Min(Later(k)) \in Nat
               /\ r.stamps[k] < r.emitTp /\ r.emitTp < Min(Later(k))
               /\ Known(files, k, r.stamps[k]) /\ Known(files, k, Min(Later(k)))
    <3>1. k \in DOMAIN r.stamps /\ Later(k) # {}
      OBVIOUS
    <3>2. Later(k) \in SUBSET Nat
      BY <1>1 DEF Times, Record
    <3>3. Min(Later(k)) \in Later(k)
      <4> HIDE DEF Later
      <4> QED BY <3>1, <3>2, LeastTime
    <3>4. PICK x \in r.ahead : x.tp = Min(Later(k)) /\ r.emitTp < x.tp /\ k \in x.keys
      <4>1. \A t \in Later(k) : \E x \in r.ahead : x.tp = t /\ r.emitTp < x.tp /\ k \in x.keys
        BY DEF Times
      <4> HIDE DEF Later
      <4> QED BY <3>3, <4>1
    <3>5. Known(files, k, x.tp)
      BY <3>4 DEF AtPoint, AheadInv
    <3>6. k \in Keys /\ r.stamps[k] \in Nat
      BY <1>1, <3>1 DEF Stamps
    <3>7. Known(files, k, r.stamps[k]) /\ r.stamps[k] < r.emitTp
      BY <3>1 DEF AtPoint
    <3>8. Min(Later(k)) \in Nat
      <4> HIDE DEF Later
      <4> QED BY <3>2, <3>3
    <3> HIDE DEF Later, known
    <3> QED BY <3>4, <3>5, <3>6, <3>7, <3>8
  <2> HIDE DEF e, known, Later
  <2>3. \A b \in e.between : \E k \in known : b = <<k, r.stamps[k], Min(Later(k))>>
    BY <2>1
  <2>4. e.between \in SUBSET (Keys \X Nat \X Nat)
    <3> SUFFICES ASSUME NEW b \in e.between PROVE b \in Keys \X Nat \X Nat
      OBVIOUS
    <3>1. PICK k \in known : b = <<k, r.stamps[k], Min(Later(k))>>
      BY <2>3
    <3> QED BY <3>1, <2>2
  <2>5. e \in Emissions /\ e.tp = r.emitTp /\ e.keys = {}
    BY <1>1, <2>1, <2>4 DEF Emissions
  <2>6. ASSUME NEW b \in e.between
        PROVE  /\ b[2] < e.tp /\ e.tp < b[3]
               /\ Known(files, b[1], b[2]) /\ Known(files, b[1], b[3])
    <3>1. PICK k \in known : b = <<k, r.stamps[k], Min(Later(k))>>
      BY <2>3
    <3>2. b[1] = k /\ b[2] = r.stamps[k] /\ b[3] = Min(Later(k))
      BY <3>1
    <3> QED BY <3>2, <2>2, <2>5
  <2> QED BY <1>3, <2>5, <2>6 DEF e
<1>4. CASE ~AtEnds(r)
  <2>1. e = FirstAhead(r.ahead)
    BY <1>4 DEF PointOf
  <2> HIDE DEF e
  <2>2. e \in r.ahead /\ e.tp = r.emitTp
    BY <2>1, <1>2
  <2>3. e \in Emissions /\ e.between = {}
    BY <2>2, <1>1 DEF Record, Emissions
  <2>4. \A k \in e.keys : Known(files, k, e.tp)
    BY <2>2 DEF AtPoint, AheadInv
  <2>5. ASSUME NEW x, x.tp = r.emitTp, HeldBy(files, r.src, r.ahead, x)
        PROVE  x.keys \subseteq e.keys
    <3>1. x \notin r.src.active
      <4>1. \A y \in r.src.active : r.emitTp < y.tp
        BY DEF AtPoint, After
      <4> QED BY <4>1, <2>5, <1>1
    <3>2. ASSUME NEW f \in r.src.unstarted PROVE x \notin files[f].recs
      <4>1. f \in DOMAIN files
        BY <1>1 DEF Transformations, Sources
      <4>2. r.emitTp < files[f].begin
        BY DEF AtPoint, After
      <4> QED BY <4>1, <4>2, <2>5, <1>1, FileTimes
    <3>3. PICK a \in r.ahead : a.tp = x.tp /\ x.keys \subseteq a.keys
      BY <2>5, <3>1, <3>2 DEF HeldBy
    <3> QED BY <3>3, <2>1, <2>5, <1>2
  <2> QED BY <1>4, <2>2, <2>3, <2>4, <2>5 DEF e
<1> QED BY <1>3, <1>4

\* The reader once the point is taken.
LEMMA PointTakenIs ==
  ASSUME NEW files, files \in [DOMAIN files -> File], NEW r, AtPoint(files, r)
  PROVE  LET c == PointTaken(r)
         IN /\ c \in Transformations(files)
            /\ SameRange(r, c) /\ c.src = r.src /\ c.emitTp = r.emitTp /\ c.last = r.last
            /\ AheadInv(files, c.src, c.ahead)
            /\ \A a \in c.ahead : r.emitTp < a.tp
            /\ \A k \in DOMAIN c.stamps : /\ Known(files, k, c.stamps[k])
                                          /\ c.stamps[k] <= r.emitTp
            /\ \A x : /\ HeldBy(files, r.src, r.ahead, x) /\ x.tp # r.emitTp
                      => HeldBy(files, c.src, c.ahead, x)
<1> DEFINE c == PointTaken(r)
<1> DEFINE first == FirstAhead(r.ahead)
<1>1. /\ r \in Transformations(files) /\ r.ahead \in SUBSET Record /\ r.emitTp \in Nat
      /\ r.stamps \in Stamps /\ \A a \in r.ahead : a.tp \in Nat
  BY DEF AtPoint, Transformations, Record
<1>2. /\ first \in r.ahead /\ first.tp = r.emitTp
      /\ \A a \in r.ahead : a.tp = r.emitTp => a = first
  BY FirstAheadIs
<1> DEFINE stamps == Stamped(r.stamps, {first})
<1>3. c = [r EXCEPT !.stamps = stamps, !.ahead = @ \ {first}]
  BY DEF PointTaken
<1> HIDE DEF c, first
<1>4. stamps \in Stamps /\ \A k \in DOMAIN stamps :
              \/ k \in DOMAIN r.stamps /\ stamps[k] = r.stamps[k]
              \/ k \in first.keys /\ stamps[k] = first.tp
  <2>1. {first} \in SUBSET Record /\ \A x \in {first} : x.tp <= r.emitTp
    BY <1>1, <1>2
  <2> QED BY <1>1, <2>1, StampedTimes
<1> HIDE DEF stamps
<1>5. /\ c \in Transformations(files) /\ c.ahead = r.ahead \ {first} /\ c.stamps = stamps
      /\ SameRange(r, c) /\ c.src = r.src /\ c.emitTp = r.emitTp /\ c.last = r.last
  BY <1>1, <1>3, <1>4 DEF Transformations, SameRange
<1>6. AheadInv(files, c.src, c.ahead)
  BY <1>5 DEF AtPoint, AheadInv
<1>7. ASSUME NEW a \in c.ahead PROVE r.emitTp < a.tp
  <2>1. r.emitTp <= a.tp /\ a.tp # r.emitTp /\ a.tp \in Nat
    BY <1>1, <1>2, <1>5 DEF AtPoint
  <2> QED BY <2>1, <1>1
<1>8. ASSUME NEW k \in DOMAIN stamps
      PROVE  Known(files, k, stamps[k]) /\ stamps[k] <= r.emitTp
  <2>1. CASE k \in DOMAIN r.stamps /\ stamps[k] = r.stamps[k]
    <3>1. Known(files, k, stamps[k]) /\ stamps[k] < r.emitTp
      BY <2>1 DEF AtPoint
    <3>2. stamps[k] \in Nat
      BY <2>1, <1>1 DEF Stamps
    <3> QED BY <3>1, <3>2, <1>1
  <2>2. CASE k \in first.keys /\ stamps[k] = first.tp
    <3>1. Known(files, k, first.tp)
      BY <2>2, <1>2 DEF AtPoint, AheadInv
    <3> QED BY <3>1, <2>2, <1>1, <1>2
  <2> QED BY <2>1, <2>2, <1>4
<1>9. ASSUME NEW x, HeldBy(files, r.src, r.ahead, x), x.tp # r.emitTp
      PROVE  HeldBy(files, c.src, c.ahead, x)
  BY <1>2, <1>5, <1>9 DEF HeldBy
<1> QED BY <1>5, <1>6, <1>7, <1>8, <1>9 DEF c

(***************************************************************************)
(* transformation: the next point.                                         *)
(***************************************************************************)
\* A reader c whose point is taken: all that it has left comes after it.
Taken(files, c) ==
  /\ c \in Transformations(files)
  /\ SourceInv(files, c.tr, c.src) /\ AheadInv(files, c.src, c.ahead)
  /\ After(files, c.src, c.emitTp)
  /\ \A a \in c.ahead : c.emitTp < a.tp
  /\ \A k \in DOMAIN c.stamps : Known(files, k, c.stamps[k]) /\ c.stamps[k] <= c.emitTp

Asks(c) == c.tr.interval = {} /\ c.ahead = {}

\* The next point is not before the last one, and nothing that is left is before it.
LEMMA NextPoint ==
  ASSUME NEW files, files \in [DOMAIN files -> File], NEW c, Taken(files, c),
         NEW w, w = Wait(files, c.tr, c.src),
         Asks(c) /\ w.active = {} => ~IsPullable(c.src),
         \A e \in c.tr.end : c.emitTp <= e
  PROVE  LET tp == NextTp(c, w)
         IN /\ tp \in Nat /\ c.emitTp <= tp
            /\ \A e \in c.tr.end : tp <= e
            /\ \A i \in c.tr.interval : /\ tp <= c.emitTp + i
                                        /\ tp = c.emitTp + i \/ tp \in c.tr.end
            /\ \/ c.emitTp < tp
               \/ c.emitTp \in c.tr.end
               \/ Asks(c) /\ w.active = {} /\ w.unstarted = {}
            /\ c.tr.interval = {} =>
                 \A x : HeldBy(files, c.src, c.ahead, x) /\ InRange(x.tp, c.tr) /\ x \in Record
                          => tp <= x.tp
<1> DEFINE next == IF c.tr.interval # {} THEN c.emitTp + Max(c.tr.interval)
                   ELSE IF c.ahead # {} THEN HeadTime(c.ahead)
                   ELSE IF w.active # {} THEN HeadTime(w.active)
                   ELSE c.emitTp
<1> DEFINE tp == NextTp(c, w)
<1>1. /\ c.emitTp \in Nat /\ c.tr \in Ranges /\ c.src \in Sources(files)
      /\ c.ahead \in SUBSET Record
      /\ c.tr.end \in OptionalTime /\ c.tr.interval \in OptionalTime
      /\ c.tr.interval # {0}
  BY DEF Taken, Transformations, Ranges
<1>2. /\ Opens(files, c.tr, c.src, w) /\ w.active \in SUBSET Record
      /\ \A f \in w.unstarted : HeadTime(w.active) < files[f].begin
      /\ w.active = {} => w.unstarted = {}
      /\ After(files, w, c.emitTp)
  <2>1. /\ Opens(files, c.tr, c.src, w)
        /\ \A f \in w.unstarted : HeadTime(w.active) < files[f].begin
        /\ w.active = {} => w.unstarted = {}
    BY <1>1, WaitOpens
  <2>2. After(files, w, c.emitTp)
    BY <1>1, <2>1, OpensKeeps DEF Taken
  <2> QED BY <2>1, <2>2 DEF Opens, Sources
<1>3. ASSUME NEW i \in c.tr.interval
      PROVE  next = c.emitTp + i /\ i \in Nat /\ i # 0
  <2>1. c.tr.interval = {i} /\ Max(c.tr.interval) = i /\ i \in Nat
    BY <1>1, OneTime
  <2> QED BY <2>1, <1>1
<1>4. c.ahead # {} => /\ HeadTime(c.ahead) \in Nat /\ c.emitTp < HeadTime(c.ahead)
                      /\ \E x \in c.ahead : x.tp = HeadTime(c.ahead)
                      /\ \A x \in c.ahead : HeadTime(c.ahead) <= x.tp
  BY <1>1, HeadOf DEF Taken
<1>5. w.active # {} => /\ HeadTime(w.active) \in Nat /\ c.emitTp < HeadTime(w.active)
                       /\ \A x \in w.active : HeadTime(w.active) <= x.tp
  BY <1>2, HeadOf DEF After
<1>6. /\ next \in Nat /\ c.emitTp <= next
      /\ c.emitTp < next \/ (Asks(c) /\ w.active = {})
  <2>1. CASE c.tr.interval # {}
    <3>1. PICK i \in c.tr.interval : TRUE
      BY <2>1
    <3>2. next = c.emitTp + i /\ i \in Nat /\ i # 0
      BY <3>1, <1>3
    <3> HIDE DEF next
    <3> QED BY <3>2, <1>1
  <2>2. CASE c.tr.interval = {} /\ c.ahead # {}
    BY <2>2, <1>1, <1>4
  <2>3. CASE c.tr.interval = {} /\ c.ahead = {} /\ w.active # {}
    BY <2>3, <1>1, <1>5
  <2>4. CASE c.tr.interval = {} /\ c.ahead = {} /\ w.active = {}
    BY <2>4, <1>1 DEF Asks
  <2> QED BY <2>1, <2>2, <2>3, <2>4
<1>7. tp = Min({next} \union {e \in c.tr.end : next > e})
  BY DEF NextTp
<1>8. ASSUME c.tr.interval = {}, NEW x \in Record, HeldBy(files, c.src, c.ahead, x),
             InRange(x.tp, c.tr)
      PROVE  next <= x.tp
  <2>0. x.tp \in Nat
    BY DEF Record
  <2>1. CASE c.ahead # {}
    <3>1. PICK a \in c.ahead : a.tp = HeadTime(c.ahead)
      BY <2>1, <1>4
    <3>2. After(files, c.src, a.tp) /\ next = a.tp /\ a.tp \in Nat
      BY <1>8, <2>1, <3>1, <1>1 DEF Taken, AheadInv, Record
    <3>3. CASE x \in c.src.active
      BY <3>2, <3>3, <2>0 DEF After
    <3>4. ASSUME NEW f \in c.src.unstarted, x \in files[f].recs PROVE next <= x.tp
      <4>1. f \in DOMAIN files
        BY <1>1 DEF Sources
      <4>2. files[f].begin <= x.tp /\ files[f].begin \in Nat
        BY <4>1, <3>4, FileTimes
      <4>3. a.tp < files[f].begin
        BY <3>2 DEF After
      <4> HIDE DEF next
      <4> QED BY <4>2, <4>3, <3>2, <2>0
    <3>5. ASSUME NEW b \in c.ahead, b.tp = x.tp PROVE next <= x.tp
      BY <3>5, <2>1, <1>4, <1>8
    <3> HIDE DEF next
    <3> QED BY <3>3, <3>4, <3>5, <1>8 DEF HeldBy
  <2>2. CASE c.ahead = {}
    <3>1. HeldBy(files, w, c.ahead, x)
      BY <1>1, <1>2, <1>8, OpensKeeps
    <3>2. CASE x \in w.active
      <4>1. next = HeadTime(w.active)
        BY <3>2, <2>2, <1>8
      <4> QED BY <4>1, <3>2, <1>5
    <3>3. ASSUME NEW f \in w.unstarted, x \in files[f].recs PROVE next <= x.tp
      <4>1. f \in DOMAIN files /\ w.active # {}
        BY <1>2 DEF Opens, Sources
      <4>2. files[f].begin <= x.tp /\ files[f].begin \in Nat
        BY <4>1, <3>3, FileTimes
      <4>3. next = HeadTime(w.active) /\ HeadTime(w.active) < files[f].begin
        BY <4>1, <2>2, <1>2, <1>8
      <4> QED BY <4>1, <4>2, <4>3, <1>5, <2>0
    <3> HIDE DEF next
    <3> QED BY <3>1, <3>2, <3>3, <2>2 DEF HeldBy
  <2> QED BY <2>1, <2>2
<1> HIDE DEF next, tp
<1>9. /\ tp \in Nat /\ tp <= next /\ \A e \in c.tr.end : tp <= e
      /\ tp = next \/ tp \in c.tr.end
  BY <1>1, <1>6, <1>7, NextOf
<1>10. \A e \in c.tr.end : e \in Nat
  BY <1>1 DEF OptionalTime
<1>11. /\ c.emitTp <= tp
       /\ c.emitTp < tp \/ c.emitTp \in c.tr.end \/ (Asks(c) /\ w.active = {})
  <2>1. CASE tp = next
    BY <2>1, <1>6
  <2>2. CASE tp \in c.tr.end
    <3>1. c.emitTp <= tp /\ (c.emitTp < tp \/ c.emitTp = tp)
      BY <2>2, <1>1, <1>9
    <3> QED BY <3>1, <2>2
  <2> QED BY <2>1, <2>2, <1>9
<1>12. ASSUME NEW i \in c.tr.interval
       PROVE  tp <= c.emitTp + i /\ (tp = c.emitTp + i \/ tp \in c.tr.end)
  BY <1>3, <1>9
<1>13. ASSUME c.tr.interval = {}, NEW x \in Record, HeldBy(files, c.src, c.ahead, x),
              InRange(x.tp, c.tr)
       PROVE  tp <= x.tp
  <2>1. next <= x.tp /\ x.tp \in Nat
    BY <1>8, <1>13 DEF Record
  <2> QED BY <2>1, <1>6, <1>9
<1> QED BY <1>2, <1>9, <1>11, <1>12, <1>13 DEF tp

\* fill_: a sound emission at the point, and a reader that goes on from there.
LEMMA FillGoesOn ==
  ASSUME NEW files, files \in [DOMAIN files -> File], NEW r \in Transformations(files),
         TransformationInv(files, r), ~r.first, ~NothingLeft(r),
         \A e \in r.tr.end : r.emitTp <= e,
         ~Fill(files, r).dry
  PROVE  LET e == Fill(files, r).out
             s == Fill(files, r).reader
         IN /\ e \in Emissions /\ e.tp = r.emitTp
            /\ \A k \in e.keys : Known(files, k, e.tp)
            /\ \A b \in e.between : /\ b[2] < e.tp /\ e.tp < b[3]
                                    /\ Known(files, b[1], b[2]) /\ Known(files, b[1], b[3])
            /\ s \in Transformations(files) /\ TransformationInv(files, s) /\ SameRange(r, s)
            /\ ~NothingLeft(s) => r.emitTp < s.emitTp /\ r.emitTp \notin r.tr.end
            /\ \A i \in r.tr.interval : /\ s.emitTp <= r.emitTp + i
                                        /\ s.emitTp = r.emitTp + i \/ s.emitTp \in r.tr.end
            /\ \A d \in r.tr.end : s.emitTp <= d
            /\ \A x \in Record :
                 /\ InRange(x.tp, r.tr) /\ r.emitTp <= x.tp
                 /\ HeldBy(files, r.src, r.ahead, x)
                 => \/ x.tp = r.emitTp /\ (~AtEnds(r) => x.keys \subseteq e.keys)
                    \/ /\ r.emitTp < x.tp
                       /\ HeldBy(files, s.src, s.ahead, x)
                       /\ r.tr.interval = {} => s.emitTp <= x.tp
<1> DEFINE made == CreateEmit(files, r)
<1> DEFINE p == made.reader
<1> DEFINE c == PointTaken(p)
<1> DEFINE w == Wait(files, c.tr, c.src)
<1> DEFINE e == Fill(files, r).out
<1> DEFINE s == Fill(files, r).reader
<1>1. /\ AtPoint(files, p) /\ SameRange(r, p)
      /\ p.emitTp = r.emitTp /\ p.last = r.last
      /\ \A x : /\ InRange(x.tp, r.tr) /\ r.emitTp <= x.tp /\ x.tp \in Nat
                /\ HeldBy(files, r.src, r.ahead, x)
                => HeldBy(files, p.src, p.ahead, x)
  BY CreateEmitPoint
<1>2. /\ e = PointOf(p)
      /\ s = [c EXCEPT !.emitTp = NextTp(c, w), !.src = IF Asks(c) THEN w ELSE @,
                       !.last = c.emitTp \in c.tr.end]
      /\ ~(Asks(c) /\ IsPullable(c.src) /\ w.active = {})
  BY DEF Fill, Refill, FillFrom, Filled, Asks
<1> HIDE DEF made, e, s
<1>3. /\ e \in Emissions /\ e.tp = p.emitTp
      /\ \A k \in e.keys : Known(files, k, e.tp)
      /\ \A b \in e.between : /\ b[2] < e.tp /\ e.tp < b[3]
                              /\ Known(files, b[1], b[2]) /\ Known(files, b[1], b[3])
      /\ \A x : /\ ~AtEnds(p) /\ x.tp = p.emitTp
                /\ HeldBy(files, p.src, p.ahead, x)
                => x.keys \subseteq e.keys
  <2> HIDE DEF p
  <2> QED BY <1>1, <1>2, PointIsSound
<1>4. /\ c \in Transformations(files)
      /\ SameRange(p, c) /\ c.src = p.src /\ c.emitTp = p.emitTp /\ c.last = p.last
      /\ AheadInv(files, c.src, c.ahead)
      /\ \A a \in c.ahead : p.emitTp < a.tp
      /\ \A k \in DOMAIN c.stamps : Known(files, k, c.stamps[k]) /\ c.stamps[k] <= p.emitTp
      /\ \A x : HeldBy(files, p.src, p.ahead, x) /\ x.tp # p.emitTp
                  => HeldBy(files, c.src, c.ahead, x)
  <2> HIDE DEF p
  <2> QED BY <1>1, PointTakenIs
<1> HIDE DEF p, c
<1>5. /\ c.tr = r.tr /\ c.slack = r.slack /\ c.first = r.first /\ c.emitTp = r.emitTp
      /\ p.tr = r.tr /\ AtEnds(p) = AtEnds(r)
  BY <1>1, <1>4 DEF SameRange, AtEnds
<1>6. Taken(files, c)
  BY <1>1, <1>4, <1>5 DEF Taken, AtPoint
<1> DEFINE tp == NextTp(c, w)
<1>7. /\ tp \in Nat /\ c.emitTp <= tp
      /\ \A d \in c.tr.end : tp <= d
      /\ \A i \in c.tr.interval : /\ tp <= c.emitTp + i
                                  /\ tp = c.emitTp + i \/ tp \in c.tr.end
      /\ \/ c.emitTp < tp
         \/ c.emitTp \in c.tr.end
         \/ Asks(c) /\ w.active = {} /\ w.unstarted = {}
      /\ c.tr.interval = {} =>
           \A x : HeldBy(files, c.src, c.ahead, x) /\ InRange(x.tp, c.tr) /\ x \in Record
                    => tp <= x.tp
  BY <1>2, <1>5, <1>6, NextPoint
<1>8. Opens(files, c.tr, c.src, w)
  BY <1>4, WaitOpens DEF Transformations
<1>9. /\ c.src \in Sources(files) /\ c.ahead \in SUBSET Record /\ c.emitTp \in Nat
      /\ \A a \in c.ahead : a.tp \in Nat
  BY <1>4 DEF Transformations, Record
<1>10. /\ SourceInv(files, c.tr, w)
       /\ \A t \in Nat : After(files, c.src, t) => After(files, w, t)
       /\ \A x : InRange(x.tp, c.tr) /\ HeldBy(files, c.src, c.ahead, x)
                   => HeldBy(files, w, c.ahead, x)
  BY <1>6, <1>8, <1>9, OpensKeeps DEF Taken
<1> HIDE DEF w, tp
<1>11. s = [c EXCEPT !.emitTp = tp, !.src = IF Asks(c) THEN w ELSE @,
                     !.last = c.emitTp \in c.tr.end]
  BY <1>2 DEF tp
<1>12. /\ s.emitTp = tp /\ s.src = (IF Asks(c) THEN w ELSE c.src)
       /\ s.ahead = c.ahead /\ s.stamps = c.stamps /\ s.last = (c.emitTp \in c.tr.end)
       /\ s.tr = c.tr /\ s.first = c.first /\ s.slack = c.slack
  BY <1>4, <1>11 DEF Transformations
<1>13. s \in Transformations(files)
  <2>1. (IF Asks(c) THEN w ELSE c.src) \in Sources(files)
    BY <1>8, <1>9 DEF Opens
  <2>2. (c.emitTp \in c.tr.end) \in BOOLEAN
    OBVIOUS
  <2>3. s = [c EXCEPT !.emitTp = tp, !.src = IF Asks(c) THEN w ELSE c.src,
                      !.last = c.emitTp \in c.tr.end]
    BY <1>4, <1>11
  <2> DEFINE last == c.emitTp \in c.tr.end
  <2> DEFINE src == IF Asks(c) THEN w ELSE c.src
  <2> HIDE DEF last, src
  <2>4. [c EXCEPT !.emitTp = tp, !.src = src, !.last = last] \in Transformations(files)
    <3>1. src \in Sources(files) /\ last \in BOOLEAN
      BY <2>1, <2>2 DEF src, last
    <3> QED BY <3>1, <1>4, <1>7 DEF Transformations
  <2> QED BY <2>3, <2>4 DEF src, last
<1>14. ~NothingLeft(s) => r.emitTp < s.emitTp /\ r.emitTp \notin r.tr.end
  <2> SUFFICES ASSUME ~NothingLeft(s) PROVE c.emitTp < tp /\ c.emitTp \notin c.tr.end
    BY <1>5, <1>12
  <2>1. c.emitTp \notin c.tr.end
    BY <1>12 DEF NothingLeft
  <2>2. ~(Asks(c) /\ w.active = {} /\ w.unstarted = {})
    BY <1>12 DEF NothingLeft, IsPullable, Asks
  <2> QED BY <1>7, <2>1, <2>2
<1>15. TransformationInv(files, s)
  <2>1. SourceInv(files, s.tr, s.src)
    BY <1>6, <1>10, <1>12 DEF Taken
  <2>2. AheadInv(files, s.src, s.ahead)
    BY <1>4, <1>9, <1>10, <1>12 DEF AheadInv
  <2>3. StampsInv(files, s)
    <3>1. \A k \in DOMAIN c.stamps : c.stamps[k] \in Nat
      BY <1>4 DEF Transformations, Stamps
    <3>2. \A k \in DOMAIN s.stamps : Known(files, k, s.stamps[k])
      BY <1>6, <1>12 DEF Taken
    <3>3. ASSUME ~NothingLeft(s), NEW k \in DOMAIN s.stamps PROVE s.stamps[k] < s.emitTp
      <4>1. c.stamps[k] <= c.emitTp /\ c.stamps[k] \in Nat
        BY <3>1, <3>3, <1>6, <1>12 DEF Taken
      <4>2. c.emitTp < tp
        BY <3>3, <1>5, <1>12, <1>14
      <4> QED BY <4>1, <4>2, <1>7, <1>9, <1>12
    <3> QED BY <3>2, <3>3 DEF StampsInv
  <2>4. ~s.first /\ \A b \in s.tr.begin : b <= s.emitTp
    <3>1. ~s.first
      BY <1>5, <1>12
    <3>2. ASSUME NEW b \in s.tr.begin PROVE b <= s.emitTp
      <4>1. b <= c.emitTp
        BY <1>5, <1>12 DEF TransformationInv
      <4>2. b \in Nat
        BY <1>13 DEF Transformations, Ranges, OptionalTime
      <4> QED BY <4>1, <4>2, <1>7, <1>9, <1>12
    <3> QED BY <3>1, <3>2
  <2>5. s.last => s.emitTp \in s.tr.end
    <3> SUFFICES ASSUME c.emitTp \in c.tr.end PROVE tp \in c.tr.end
      BY <1>12
    <3>1. tp <= c.emitTp /\ c.emitTp <= tp
      BY <1>7
    <3> QED BY <3>1, <1>7, <1>9
  <2> QED BY <2>1, <2>2, <2>3, <2>4, <2>5 DEF TransformationInv
<1>16. ASSUME NEW x \in Record, InRange(x.tp, r.tr), r.emitTp <= x.tp,
              HeldBy(files, r.src, r.ahead, x)
       PROVE  \/ x.tp = r.emitTp /\ (~AtEnds(r) => x.keys \subseteq e.keys)
              \/ /\ r.emitTp < x.tp
                 /\ HeldBy(files, s.src, s.ahead, x)
                 /\ r.tr.interval = {} => s.emitTp <= x.tp
  <2>1. x.tp \in Nat /\ HeldBy(files, p.src, p.ahead, x)
    BY <1>1, <1>16 DEF Record
  <2>2. CASE x.tp = r.emitTp
    BY <2>1, <2>2, <1>1, <1>3, <1>5
  <2>3. CASE x.tp # r.emitTp
    <3>1. r.emitTp < x.tp
      BY <2>1, <2>3, <1>5, <1>9, <1>16
    <3>2. HeldBy(files, c.src, c.ahead, x)
      BY <2>1, <2>3, <1>1, <1>4
    <3>3. HeldBy(files, s.src, s.ahead, x)
      BY <3>2, <1>5, <1>10, <1>12, <1>16
    <3>4. r.tr.interval = {} => s.emitTp <= x.tp
      BY <3>2, <1>5, <1>7, <1>12, <1>16
    <3> QED BY <3>1, <3>3, <3>4
  <2> QED BY <2>2, <2>3
<1>17. SameRange(r, s)
  BY <1>5, <1>12 DEF SameRange
<1>18. e.tp = r.emitTp
  BY <1>1, <1>3
<1>19. \A i \in r.tr.interval : /\ s.emitTp <= r.emitTp + i
                                /\ s.emitTp = r.emitTp + i \/ s.emitTp \in r.tr.end
  BY <1>5, <1>7, <1>12
<1>20. \A d \in r.tr.end : s.emitTp <= d
  BY <1>5, <1>7, <1>12
<1> QED BY <1>3, <1>13, <1>14, <1>15, <1>16, <1>17, <1>18, <1>19, <1>20 DEF e, s

\* fill_'s first emission: from then on all the reader has comes at its point or later.
LEMMA StartsAtFirst ==
  ASSUME NEW files, files \in [DOMAIN files -> File], NEW r \in Transformations(files),
         TransformationInv(files, r), ~NothingLeft(r),
         AsksSource(r) => ~RunsDry(files, r.tr, r.src)
  PROVE  LET s == Starts(files, r)
         IN /\ s \in Transformations(files) /\ TransformationInv(files, s)
            /\ ~s.first /\ ~NothingLeft(s)
            /\ s.tr = r.tr /\ s.slack = r.slack
            /\ ~r.first => s = r
            /\ r.first => \A x \in Record :
                 InRange(x.tp, r.tr) /\ HeldBy(files, r.src, r.ahead, x)
                   => HeldBy(files, s.src, s.ahead, x) /\ s.emitTp <= x.tp
<1>1. CASE ~r.first
  <2>1. Starts(files, r) = r
    BY <1>1 DEF Starts
  <2> QED BY <2>1, <1>1
<1>2. CASE r.first
  <2> DEFINE w == Wait(files, r.tr, r.src)
  <2> DEFINE s == Starts(files, r)
  <2>1. r.ahead = {} /\ ~r.last /\ r.stamps = <<>>
    BY <1>2 DEF TransformationInv
  <2>2. /\ r.src \in Sources(files) /\ r.tr.begin \in OptionalTime
        /\ SourceInv(files, r.tr, r.src)
    BY DEF Transformations, TransformationInv, Ranges
  <2>3. /\ Opens(files, r.tr, r.src, w)
        /\ \A f \in w.unstarted : HeadTime(w.active) < files[f].begin
    BY <2>2, WaitOpens
  <2>4. /\ SourceInv(files, r.tr, w)
        /\ \A x : InRange(x.tp, r.tr) /\ HeldBy(files, r.src, r.ahead, x)
                    => HeldBy(files, w, r.ahead, x)
    BY <2>2, <2>3, OpensKeeps
  <2>5. w.active # {}
    BY <2>1 DEF NothingLeft, AsksSource, RunsDry
  <2>6. /\ HeadTime(w.active) \in Nat
        /\ \E x \in w.active : x.tp = HeadTime(w.active)
        /\ \A x \in w.active : x.tp \in Nat /\ HeadTime(w.active) <= x.tp
    BY <2>3, <2>5, HeadOf DEF Opens, Sources
  <2> DEFINE tp == IF r.tr.begin # {} THEN Max(r.tr.begin) ELSE HeadTime(w.active)
  <2>7. s = [r EXCEPT !.first = FALSE, !.src = w, !.emitTp = tp]
    BY <1>2 DEF Starts
  <2>8. tp \in Nat /\ \A b \in r.tr.begin : tp = b /\ b \in Nat
    <3>1. \A b \in r.tr.begin : Max(r.tr.begin) = b /\ b \in Nat
      BY <2>2, OneTime
    <3> QED BY <3>1, <2>6
  <2> HIDE DEF w, s
  <2>9. ASSUME NEW x \in Record, InRange(x.tp, r.tr), HeldBy(files, r.src, r.ahead, x)
        PROVE  HeldBy(files, w, r.ahead, x) /\ tp <= x.tp
    <3>1. HeldBy(files, w, r.ahead, x)
      BY <2>4, <2>9
    <3>2. CASE r.tr.begin # {}
      BY <3>1, <3>2, <2>8, <2>9 DEF InRange
    <3>3. CASE r.tr.begin = {}
      <4>0. tp = HeadTime(w.active)
        BY <3>3
      <4> HIDE DEF tp
      <4>1. CASE x \in w.active
        BY <3>1, <4>0, <4>1, <2>6
      <4>2. ASSUME NEW f \in w.unstarted, x \in files[f].recs PROVE tp <= x.tp
        <5>1. f \in DOMAIN files
          BY <2>3 DEF Opens, Sources
        <5>2. files[f].begin <= x.tp /\ files[f].begin \in Nat /\ x.tp \in Nat
          BY <5>1, <4>2, FileTimes
        <5>3. tp < files[f].begin
          BY <4>0, <2>3
        <5> QED BY <5>2, <5>3, <2>8
      <4> QED BY <3>1, <4>1, <4>2, <2>1 DEF HeldBy
    <3> QED BY <3>1, <3>2, <3>3
  <2> HIDE DEF tp
  <2>10. /\ s.first = FALSE /\ s.src = w /\ s.emitTp = tp /\ s.last = r.last
         /\ s.ahead = r.ahead /\ s.stamps = r.stamps /\ s.tr = r.tr /\ s.slack = r.slack
    BY <2>7 DEF Transformations
  <2>11. s \in Transformations(files)
    BY <2>3, <2>7, <2>8 DEF Transformations, Opens
  <2>12. ~NothingLeft(s)
    BY <2>1, <2>5, <2>10 DEF NothingLeft, IsPullable
  <2>13. TransformationInv(files, s)
    <3>1. AheadInv(files, s.src, s.ahead)
      BY <2>1, <2>10 DEF AheadInv
    <3>2. StampsInv(files, s)
      BY <2>1, <2>10 DEF StampsInv
    <3>3. \A b \in s.tr.begin : b <= s.emitTp
      BY <2>8, <2>10
    <3> QED BY <3>1, <3>2, <3>3, <2>1, <2>4, <2>10 DEF TransformationInv
  <2> QED BY <1>2, <2>9, <2>10, <2>11, <2>12, <2>13 DEF s
<1> QED BY <1>1, <1>2

(***************************************************************************)
(* The steps of a reader.                                                  *)
(***************************************************************************)
\* A reader that ends keeps what it is; it may when nothing is owed.
LEMMA EndsSoundly ==
  ASSUME NEW files, NEW rd, NEW o, ReaderInv(files, rd, o),
         NEW st \in {"closed", "undefined"},
         st = "closed" => \A x \in rd.due : OwedTo(rd, o, x.tp) => HasEmitted(rd, o, x)
  PROVE  ReaderInv(files, [rd EXCEPT !.status = st], o)
<1> DEFINE s == [rd EXCEPT !.status = st]
<1>1. rd \in ReadersOf(files)
  BY DEF ReaderInv
<1>2. /\ s \in ReadersOf(files) /\ s.status = st
      /\ s.kind = rd.kind /\ s.batches = rd.batches /\ s.r = rd.r /\ s.due = rd.due
  BY <1>1 DEF ReadersOf
<1> HIDE DEF s
<1>3. \A i \in DOMAIN o : OutputInv(files, s, o[i])
  BY <1>2 DEF ReaderInv, OutputInv
<1>4. OrderInv(files, s, o)
  BY <1>2 DEF ReaderInv, OrderInv
<1>5. GridInv(s, o)
  BY <1>2 DEF ReaderInv, GridInv
<1>6. CompleteInv(files, s, o)
  <2>1. \A x \in s.due : Stored(files, x)
    BY <1>2 DEF ReaderInv, CompleteInv
  <2>2. ASSUME st # "undefined", NEW x \in s.due, OwedTo(s, o, x.tp) PROVE HasEmitted(s, o, x)
    <3>1. OwedTo(rd, o, x.tp)
      BY <2>2, <1>2 DEF OwedTo
    <3>2. HasEmitted(rd, o, x)
      BY <3>1, <2>2, <1>2
    <3> QED BY <3>2, <1>2 DEF HasEmitted
  <2> QED BY <2>1, <2>2, <1>2 DEF CompleteInv
<1>7. s.status # "batches" /\ s.status # "open"
  BY <1>2
<1> QED BY <1>2, <1>3, <1>4, <1>5, <1>6, <1>7 DEF s, ReaderInv

\* One more emission.
LEMMA OneMore ==
  ASSUME NEW o \in Seq(Emissions), NEW e \in Emissions
  PROVE  LET p == Append(o, e)
         IN /\ p \in Seq(Emissions) /\ p # <<>>
            /\ Len(o) + 1 \in DOMAIN p /\ p[Len(o) + 1] = e
            /\ DOMAIN o \subseteq DOMAIN p
            /\ \A i \in DOMAIN o : p[i] = o[i] /\ i < Len(o) + 1
            /\ \A i \in DOMAIN p : i \in DOMAIN o \/ i = Len(o) + 1
            /\ o = <<>> => p[1] = e
            /\ o # <<>> => p[1] = o[1] /\ 1 \in DOMAIN o
<1> DEFINE p == Append(o, e)
<1>1. /\ p \in Seq(Emissions) /\ Len(p) = Len(o) + 1 /\ Len(o) \in Nat
      /\ DOMAIN p = 1 .. Len(o) + 1 /\ DOMAIN o = 1 .. Len(o)
  OBVIOUS
<1>2. p[Len(o) + 1] = e /\ \A i \in 1 .. Len(o) : p[i] = o[i]
  OBVIOUS
<1>3. p # <<>>
  <2>1. Len(<<>>) = 0
    OBVIOUS
  <2> HIDE DEF p
  <2> QED BY <1>1, <2>1
<1>4. o = <<>> => Len(o) = 0
  OBVIOUS
<1>5. o # <<>> => Len(o) >= 1
  OBVIOUS
<1> HIDE DEF p
<1> QED BY <1>1, <1>2, <1>3, <1>4, <1>5 DEF p

\* pull of emit.
LEMMA PullEmitStep ==
  ASSUME NEW files, files \in [DOMAIN files -> File], NEW rd, NEW o, ReaderInv(files, rd, o),
         rd.status = "open", rd.kind = "emit", ~NothingLeft(rd.r),
         AsksSource(rd.r) => ~RunsDry(files, rd.r.tr, rd.r.src)
  PROVE  LET s == Starts(files, rd.r)
             f == Fill(files, s)
         IN /\ (\E e \in s.tr.end : s.emitTp > e) =>
                 \A x \in rd.due : OwedTo(rd, o, x.tp) => HasEmitted(rd, o, x)
            /\ ~(\E e \in s.tr.end : s.emitTp > e) /\ ~f.dry =>
                 ReaderInv(files, [rd EXCEPT !.r = f.reader], Append(o, f.out))
<1> DEFINE r == rd.r
<1> DEFINE s == Starts(files, r)
<1> DEFINE f == Fill(files, s)
<1>1. /\ rd \in ReadersOf(files) /\ r \in Transformations(files) /\ o \in Seq(Emissions)
      /\ TransformationInv(files, r)
  BY DEF ReaderInv, ReadersOf
<1>2. /\ s \in Transformations(files) /\ TransformationInv(files, s)
      /\ ~s.first /\ ~NothingLeft(s)
      /\ s.tr = r.tr /\ s.slack = r.slack
      /\ ~r.first => s = r
      /\ r.first => \A x \in Record :
           InRange(x.tp, r.tr) /\ HeldBy(files, r.src, r.ahead, x)
             => HeldBy(files, s.src, s.ahead, x) /\ s.emitTp <= x.tp
  <2> HIDE DEF s
  <2> QED BY <1>1, StartsAtFirst DEF s
<1> HIDE DEF s
<1>3. /\ s.emitTp \in Nat /\ r.tr \in Ranges
      /\ r.tr.end \in OptionalTime /\ r.tr.begin \in OptionalTime
      /\ r.tr.interval \in OptionalTime /\ r.tr.interval # {0}
      /\ \A e \in r.tr.end : e \in Nat
  BY <1>1, <1>2 DEF Transformations, Ranges, OptionalTime
<1>4. ASSUME NEW x \in rd.due, OwedTo(rd, o, x.tp), ~HasEmitted(rd, o, x)
      PROVE  /\ x \in Record /\ x.tp \in Nat /\ InRange(x.tp, r.tr)
             /\ x.tp \notin r.tr.begin /\ x.tp \notin r.tr.end
             /\ HeldBy(files, s.src, s.ahead, x) /\ s.emitTp <= x.tp
  <2>1. x \in Record /\ x.tp \in Nat
    BY <1>1 DEF ReadersOf, Record
  <2>2. InRange(x.tp, r.tr) /\ x.tp \notin r.tr.begin /\ x.tp \notin r.tr.end
    BY <1>4 DEF OwedTo
  <2>3. Pending(files, rd, x)
    BY <1>4 DEF ReaderInv, CompleteInv
  <2>4. HeldBy(files, r.src, r.ahead, x) /\ (~r.first => r.emitTp <= x.tp)
    BY <2>3 DEF Pending
  <2> QED BY <2>1, <2>2, <2>4, <1>2
<1>5. ASSUME \E e \in s.tr.end : s.emitTp > e,
             NEW x \in rd.due, OwedTo(rd, o, x.tp)
      PROVE  HasEmitted(rd, o, x)
  <2> SUFFICES ASSUME ~HasEmitted(rd, o, x) PROVE FALSE
    OBVIOUS
  <2>1. PICK e \in r.tr.end : s.emitTp > e
    BY <1>2, <1>5
  <2>2. x.tp <= e /\ s.emitTp <= x.tp /\ x.tp \in Nat
    BY <1>4, <1>5 DEF InRange
  <2> QED BY <2>1, <2>2, <1>3
<1>6. ASSUME ~(\E e \in s.tr.end : s.emitTp > e), ~f.dry
      PROVE  ReaderInv(files, [rd EXCEPT !.r = f.reader], Append(o, f.out))
  <2> DEFINE e == f.out
  <2> DEFINE u == f.reader
  <2> DEFINE rd2 == [rd EXCEPT !.r = u]
  <2> DEFINE o2 == Append(o, e)
  <2>1. \A d \in s.tr.end : s.emitTp <= d
    BY <1>2, <1>3, <1>6
  <2>2. /\ e \in Emissions /\ e.tp = s.emitTp
        /\ \A k \in e.keys : Known(files, k, e.tp)
        /\ \A b \in e.between : /\ b[2] < e.tp /\ e.tp < b[3]
                                /\ Known(files, b[1], b[2]) /\ Known(files, b[1], b[3])
        /\ u \in Transformations(files) /\ TransformationInv(files, u) /\ SameRange(s, u)
        /\ ~NothingLeft(u) => s.emitTp < u.emitTp /\ s.emitTp \notin s.tr.end
        /\ \A i \in s.tr.interval : /\ u.emitTp <= s.emitTp + i
                                    /\ u.emitTp = s.emitTp + i \/ u.emitTp \in s.tr.end
        /\ \A d \in s.tr.end : u.emitTp <= d
        /\ \A x \in Record :
             /\ InRange(x.tp, s.tr) /\ s.emitTp <= x.tp
             /\ HeldBy(files, s.src, s.ahead, x)
             => \/ x.tp = s.emitTp /\ (~AtEnds(s) => x.keys \subseteq e.keys)
                \/ /\ s.emitTp < x.tp
                   /\ HeldBy(files, u.src, u.ahead, x)
                   /\ s.tr.interval = {} => u.emitTp <= x.tp
    <3> HIDE DEF f
    <3> QED BY <2>1, <1>2, <1>6, FillGoesOn DEF f
  <2> HIDE DEF f, e, u
  <2>3. /\ rd2 \in ReadersOf(files) /\ rd2.status = "open" /\ rd2.kind = "emit"
        /\ rd2.r = u /\ rd2.due = rd.due /\ rd2.batches = rd.batches
    BY <1>1, <2>2 DEF ReadersOf
  <2>4. u.tr = r.tr /\ u.first = FALSE
    BY <1>2, <2>2 DEF SameRange, Transformations
  <2>5. /\ o2 \in Seq(Emissions) /\ o2 # <<>>
        /\ Len(o) + 1 \in DOMAIN o2 /\ o2[Len(o) + 1] = e
        /\ DOMAIN o \subseteq DOMAIN o2
        /\ \A i \in DOMAIN o : o2[i] = o[i] /\ i < Len(o) + 1
        /\ \A i \in DOMAIN o2 : i \in DOMAIN o \/ i = Len(o) + 1
        /\ o = <<>> => o2[1] = e
        /\ o # <<>> => o2[1] = o[1] /\ 1 \in DOMAIN o
    BY <1>1, <2>2, OneMore
  <2> HIDE DEF rd2, o2
  <2>6. \A i \in DOMAIN o : o[i].tp \in Nat /\ o[i].tp < s.emitTp
    <3> SUFFICES ASSUME NEW i \in DOMAIN o PROVE o[i].tp \in Nat /\ o[i].tp < s.emitTp
      OBVIOUS
    <3>1. ~r.first
      BY <1>1 DEF ReaderInv, OrderInv
    <3>2. o[i].tp < r.emitTp
      BY <3>1 DEF ReaderInv, OrderInv
    <3>3. o[i] \in Emissions
      BY <1>1
    <3> QED BY <3>1, <3>2, <3>3, <1>2 DEF Emissions
  <2>7. ASSUME NEW i \in DOMAIN o2 PROVE OutputInv(files, rd2, o2[i])
    <3>1. CASE i \in DOMAIN o
      <4>1. OutputInv(files, rd, o[i])
        BY <3>1 DEF ReaderInv
      <4> QED BY <4>1, <3>1, <2>3, <2>4, <2>5 DEF OutputInv
    <3>2. CASE i = Len(o) + 1
      <4>1. InRange(s.emitTp, r.tr)
        BY <1>2, <2>1 DEF InRange, TransformationInv
      <4> QED BY <4>1, <3>2, <2>2, <2>3, <2>4, <2>5 DEF OutputInv
    <3> QED BY <3>1, <3>2, <2>5
  <2>8. OrderInv(files, rd2, o2)
    <3>1. ASSUME ~NothingLeft(u), NEW i \in DOMAIN o2 PROVE o2[i].tp < u.emitTp
      <4>1. s.emitTp < u.emitTp /\ u.emitTp \in Nat
        BY <3>1, <2>2 DEF Transformations
      <4> QED BY <4>1, <1>3, <2>2, <2>5, <2>6
    <3>2. ASSUME NEW i \in DOMAIN o2, NEW j \in DOMAIN o2, i < j PROVE o2[i].tp < o2[j].tp
      <4>1. i \in DOMAIN o
        BY <3>2, <1>1, <2>5
      <4>2. CASE j \in DOMAIN o
        BY <4>1, <4>2, <3>2, <2>5 DEF ReaderInv, OrderInv
      <4>3. CASE j = Len(o) + 1
        BY <4>1, <4>3, <2>2, <2>5, <2>6
      <4> QED BY <4>2, <4>3, <2>5
    <3> QED BY <3>1, <3>2, <2>3, <2>4, <2>5 DEF OrderInv
  <2>9. ASSUME NEW i \in r.tr.interval, s.emitTp \notin r.tr.end
        PROVE  (s.emitTp - o2[1].tp) % i = 0 /\ i \in Nat /\ i # 0 /\ o2[1].tp \in Nat
    <3>1. i \in Nat /\ i # 0
      BY <1>3, OneTime
    <3>2. CASE o = <<>>
      BY <3>1, <3>2, <1>3, <2>2, <2>5, GridPoint
    <3>3. CASE o # <<>>
      <4>1. ~r.first
        BY <3>3 DEF ReaderInv, OrderInv
      <4>2. s = r
        BY <4>1, <1>2
      <4>3. (r.emitTp - o[1].tp) % i = 0
        BY <4>1, <4>2, <2>9 DEF ReaderInv, GridInv
      <4> QED BY <3>1, <3>3, <4>2, <4>3, <2>5, <2>6
    <3> QED BY <3>2, <3>3
  <2>10. GridInv(rd2, o2)
    <3> SUFFICES ASSUME ~NothingLeft(u), NEW i \in r.tr.interval, u.emitTp \notin r.tr.end
                 PROVE  (u.emitTp - o2[1].tp) % i = 0
      BY <2>3, <2>4 DEF GridInv
    <3>1. s.emitTp \notin r.tr.end /\ u.emitTp = s.emitTp + i
      BY <1>2, <2>2
    <3>2. (s.emitTp - o2[1].tp) % i = 0 /\ i \in Nat /\ i # 0 /\ o2[1].tp \in Nat
      BY <3>1, <2>9
    <3> QED BY <3>1, <3>2, <1>3, GridPoint
  <2>11. CompleteInv(files, rd2, o2)
    <3>1. \A x \in rd2.due : Stored(files, x)
      BY <2>3 DEF ReaderInv, CompleteInv
    <3>2. ASSUME NEW x \in rd2.due, OwedTo(rd2, o2, x.tp), ~HasEmitted(rd2, o2, x)
          PROVE  Pending(files, rd2, x)
      <4>1. OwedTo(rd, o, x.tp)
        BY <3>2, <2>3, <2>4, <2>5 DEF OwedTo
      <4>2. ~HasEmitted(rd, o, x)
        BY <3>2, <2>3, <2>5 DEF HasEmitted
      <4>3. /\ x \in Record /\ x.tp \in Nat /\ InRange(x.tp, r.tr)
            /\ x.tp \notin r.tr.begin /\ x.tp \notin r.tr.end
            /\ HeldBy(files, s.src, s.ahead, x) /\ s.emitTp <= x.tp
        BY <4>1, <4>2, <1>4, <2>3
      <4>4. ~(x.tp = s.emitTp /\ (~AtEnds(s) => x.keys \subseteq e.keys))
        <5> SUFFICES ASSUME x.tp = s.emitTp, ~AtEnds(s) => x.keys \subseteq e.keys PROVE FALSE
          OBVIOUS
        <5>1. ~AtEnds(s)
          BY <4>3, <1>2 DEF AtEnds
        <5> QED BY <5>1, <3>2, <2>2, <2>5 DEF HasEmitted
      <4>5. /\ s.emitTp < x.tp
            /\ HeldBy(files, u.src, u.ahead, x)
            /\ r.tr.interval = {} => u.emitTp <= x.tp
        BY <4>3, <4>4, <1>2, <2>2
      <4>6. ASSUME NEW i \in r.tr.interval PROVE u.emitTp <= x.tp
        <5>1. s.emitTp \notin r.tr.end
          <6>1. \A d \in r.tr.end : x.tp <= d /\ d \in Nat
            BY <4>3, <1>3 DEF InRange
          <6> QED BY <6>1, <4>3, <4>5, <1>3
        <5>2. (s.emitTp - o2[1].tp) % i = 0 /\ i \in Nat /\ i # 0 /\ o2[1].tp \in Nat
          BY <5>1, <2>9
        <5>3. (x.tp - o2[1].tp) % i = 0
          BY <3>2, <2>3, <2>4, <2>5 DEF OwedTo
        <5>4. s.emitTp + i <= x.tp
          BY <5>2, <5>3, <4>3, <4>5, <1>3, GridStep
        <5>5. u.emitTp <= s.emitTp + i /\ u.emitTp \in Nat
          BY <1>2, <2>2 DEF Transformations
        <5> QED BY <5>2, <5>4, <5>5, <4>3, <1>3
      <4>7. u.emitTp <= x.tp
        BY <4>5, <4>6
      <4> QED BY <4>5, <4>7, <2>3 DEF Pending
    <3> QED BY <3>1, <3>2, <2>3 DEF CompleteInv
  <2>12. ReaderInv(files, rd2, o2)
    BY <2>2, <2>3, <2>5, <2>7, <2>8, <2>10, <2>11 DEF ReaderInv
  <2> QED BY <2>12 DEF rd2, o2, e, u
<1> QED BY <1>5, <1>6 DEF s

\* A reader of emit that has come to its end owes nothing.
LEMMA NothingOwed ==
  ASSUME NEW files, NEW rd, NEW o, ReaderInv(files, rd, o),
         rd.status = "open", rd.kind = "emit", NothingLeft(rd.r)
  PROVE  \A x \in rd.due : OwedTo(rd, o, x.tp) => HasEmitted(rd, o, x)
<1> SUFFICES ASSUME NEW x \in rd.due, OwedTo(rd, o, x.tp), ~HasEmitted(rd, o, x)
             PROVE  FALSE
  OBVIOUS
<1>1. HeldBy(files, rd.r.src, rd.r.ahead, x) /\ (~rd.r.first => rd.r.emitTp <= x.tp)
  BY DEF ReaderInv, CompleteInv, Pending
<1>2. rd.r.last
  BY <1>1 DEF NothingLeft, IsPullable, HeldBy
<1>3. rd.r.emitTp \in rd.r.tr.end /\ ~rd.r.first
  BY <1>2 DEF ReaderInv, TransformationInv
<1>4. x.tp <= rd.r.emitTp /\ x.tp # rd.r.emitTp
  BY <1>3 DEF OwedTo, InRange
<1>5. rd.r.emitTp \in Nat /\ x.tp \in Nat
  BY DEF ReaderInv, ReadersOf, Transformations, Record
<1> QED BY <1>1, <1>3, <1>4, <1>5

\* pull of emit_time: the source's front.
LEMMA PullTimeStep ==
  ASSUME NEW files, files \in [DOMAIN files -> File], NEW rd, NEW o, ReaderInv(files, rd, o),
         rd.status = "open", rd.kind = "time",
         Wait(files, rd.r.tr, rd.r.src).active # {}
  PROVE  LET w == Wait(files, rd.r.tr, rd.r.src)
         IN ReaderInv(files, [rd EXCEPT !.r.src = PopFront(w)], Append(o, FrontOf(w.active)))
<1> DEFINE r == rd.r
<1> DEFINE w == Wait(files, r.tr, r.src)
<1> DEFINE t == HeadTime(w.active)
<1> DEFINE e == FrontOf(w.active)
<1> DEFINE src == PopFront(w)
<1> DEFINE rd2 == [rd EXCEPT !.r.src = src]
<1> DEFINE o2 == Append(o, e)
<1>1. /\ rd \in ReadersOf(files) /\ r \in Transformations(files) /\ o \in Seq(Emissions)
      /\ TransformationInv(files, r) /\ r.src \in Sources(files)
      /\ r.first /\ r.ahead = {} /\ ~r.last /\ r.stamps = <<>>
  BY DEF ReaderInv, ReadersOf, Transformations, TransformationInv
<1>2. /\ Opens(files, r.tr, r.src, w) /\ w \in Sources(files) /\ w.active \in SUBSET Record
      /\ \A f \in w.unstarted : t < files[f].begin
  <2>1. Opens(files, r.tr, r.src, w) /\ \A f \in w.unstarted : t < files[f].begin
    BY <1>1, WaitOpens
  <2> QED BY <2>1 DEF Opens, Sources
<1>3. /\ SourceInv(files, r.tr, w)
      /\ \A u \in Nat : After(files, r.src, u) => After(files, w, u)
      /\ \A x : InRange(x.tp, r.tr) /\ HeldBy(files, r.src, r.ahead, x)
                  => HeldBy(files, w, r.ahead, x)
  BY <1>1, <1>2, OpensKeeps DEF TransformationInv
<1>4. t \in Nat /\ (\E x \in w.active : x.tp = t)
      /\ \A x \in w.active : x.tp \in Nat /\ t <= x.tp
  BY <1>2, HeadOf
<1>5. /\ src \in Sources(files) /\ src.unstarted = w.unstarted
      /\ src.active = {x \in w.active : x.tp # t}
  <2>1. src = [w EXCEPT !.active = {x \in @ : x.tp # HeadTime(@)}]
    BY DEF PopFront
  <2> HIDE DEF w, src
  <2>2. src.active = {x \in w.active : x.tp # t} /\ src.unstarted = w.unstarted
    BY <2>1, <1>2 DEF Sources
  <2>3. {x \in w.active : x.tp # t} \in SUBSET Record
    BY <1>2
  <2> QED BY <2>1, <2>2, <2>3, <1>2 DEF Sources
<1>6. /\ e.tp = t /\ e.between = {}
      /\ \A k \in e.keys : \E x \in w.active : x.tp = t /\ k \in x.keys
      /\ e = [tp |-> e.tp, keys |-> e.keys, between |-> e.between]
  BY DEF FrontOf, Merged
<1> HIDE DEF w, src, e, t
<1>7. e \in Emissions
  <2>1. e.keys \in SUBSET Keys
    <3> SUFFICES ASSUME NEW k \in e.keys PROVE k \in Keys
      OBVIOUS
    <3>1. PICK x \in w.active : k \in x.keys
      BY <1>6
    <3> QED BY <3>1, <1>2 DEF Record
  <2> QED BY <2>1, <1>4, <1>6 DEF Emissions
<1>8. /\ o2 \in Seq(Emissions) /\ o2 # <<>>
      /\ Len(o) + 1 \in DOMAIN o2 /\ o2[Len(o) + 1] = e
      /\ DOMAIN o \subseteq DOMAIN o2
      /\ \A i \in DOMAIN o : o2[i] = o[i] /\ i < Len(o) + 1
      /\ \A i \in DOMAIN o2 : i \in DOMAIN o \/ i = Len(o) + 1
      /\ o # <<>> => o2[1] = o[1]
  BY <1>1, <1>7, OneMore
<1>9. [r EXCEPT !.src = src] \in Transformations(files)
  BY <1>1, <1>5 DEF Transformations
<1>10. rd2 = [rd EXCEPT !.r = [r EXCEPT !.src = src]]
  OBVIOUS
<1>11. /\ rd2 \in ReadersOf(files) /\ rd2.status = "open" /\ rd2.kind = "time"
       /\ rd2.due = rd.due /\ rd2.r = [r EXCEPT !.src = src]
  BY <1>1, <1>9, <1>10 DEF ReadersOf
<1> HIDE DEF rd2, o2
<1>12. /\ rd2.r.src = src /\ rd2.r.tr = r.tr /\ rd2.r.first = r.first /\ rd2.r.ahead = r.ahead
       /\ rd2.r.last = r.last /\ rd2.r.stamps = r.stamps
  BY <1>1, <1>11 DEF Transformations
<1>13. TransformationInv(files, rd2.r)
  <2>1. SourceInv(files, rd2.r.tr, rd2.r.src)
    BY <1>3, <1>5, <1>12 DEF SourceInv
  <2>2. AheadInv(files, rd2.r.src, rd2.r.ahead)
    BY <1>1, <1>12 DEF AheadInv
  <2>3. StampsInv(files, rd2.r)
    BY <1>1, <1>12 DEF StampsInv
  <2> QED BY <2>1, <2>2, <2>3, <1>1, <1>12 DEF TransformationInv
<1>14. \A i \in DOMAIN o : o[i].tp \in Nat /\ o[i].tp < t /\ After(files, src, o[i].tp)
  <2> SUFFICES ASSUME NEW i \in DOMAIN o
               PROVE  o[i].tp \in Nat /\ o[i].tp < t /\ After(files, src, o[i].tp)
    OBVIOUS
  <2>1. o[i].tp \in Nat
    <3>1. o[i] \in Emissions
      BY <1>1
    <3> QED BY <3>1 DEF Emissions
  <2>2. After(files, r.src, o[i].tp)
    BY DEF ReaderInv, OrderInv
  <2>3. After(files, w, o[i].tp)
    BY <2>1, <2>2, <1>3
  <2> QED BY <2>1, <2>3, <1>4, <1>5 DEF After
<1>15. After(files, src, t)
  <2>1. ASSUME NEW x \in src.active PROVE t < x.tp
    BY <1>4, <1>5
  <2> QED BY <2>1, <1>2, <1>5 DEF After
<1>16. ASSUME NEW i \in DOMAIN o2 PROVE OutputInv(files, rd2, o2[i])
  <2>1. CASE i \in DOMAIN o
    <3>1. OutputInv(files, rd, o[i])
      BY <2>1 DEF ReaderInv
    <3> QED BY <3>1, <2>1, <1>8, <1>11, <1>12 DEF OutputInv
  <2>2. CASE i = Len(o) + 1
    <3>1. PICK x \in w.active : x.tp = t
      BY <1>4
    <3>2. InRange(t, r.tr) /\ Stored(files, x)
      BY <3>1, <1>3 DEF SourceInv
    <3>3. RecordedAt(files, t)
      BY <3>1, <3>2 DEF Stored, RecordedAt
    <3>4. ASSUME NEW k \in e.keys PROVE Known(files, k, t)
      <4>1. PICK y \in w.active : y.tp = t /\ k \in y.keys
        BY <1>6
      <4> QED BY <4>1, <1>3 DEF SourceInv, Stored, Known
    <3> QED BY <2>2, <3>2, <3>3, <3>4, <1>6, <1>8, <1>12 DEF OutputInv
  <2> QED BY <2>1, <2>2, <1>8
<1>17. OrderInv(files, rd2, o2)
  <2>1. \A i \in DOMAIN o2 : After(files, src, o2[i].tp)
    BY <1>6, <1>8, <1>14, <1>15
  <2>2. ASSUME NEW i \in DOMAIN o2, NEW j \in DOMAIN o2, i < j PROVE o2[i].tp < o2[j].tp
    <3>1. i \in DOMAIN o
      BY <2>2, <1>1, <1>8
    <3>2. CASE j \in DOMAIN o
      BY <3>1, <3>2, <2>2, <1>8 DEF ReaderInv, OrderInv
    <3>3. CASE j = Len(o) + 1
      BY <3>1, <3>3, <1>6, <1>8, <1>14
    <3> QED BY <3>2, <3>3, <1>8
  <2> QED BY <2>1, <2>2, <1>11, <1>12 DEF OrderInv
<1>18. CompleteInv(files, rd2, o2)
  <2>1. \A x \in rd2.due : Stored(files, x)
    BY <1>11 DEF ReaderInv, CompleteInv
  <2>2. ASSUME NEW x \in rd2.due, OwedTo(rd2, o2, x.tp), ~HasEmitted(rd2, o2, x)
        PROVE  Pending(files, rd2, x)
    <3>1. OwedTo(rd, o, x.tp)
      BY <2>2, <1>8, <1>11, <1>12 DEF OwedTo
    <3>2. ~HasEmitted(rd, o, x)
      BY <2>2, <1>8, <1>11 DEF HasEmitted
    <3>3. HeldBy(files, r.src, r.ahead, x) /\ InRange(x.tp, r.tr)
      BY <3>1, <3>2, <1>11 DEF ReaderInv, CompleteInv, Pending, OwedTo
    <3>4. HeldBy(files, w, r.ahead, x)
      BY <3>3, <1>3
    <3>5. x.tp # t
      BY <2>2, <1>6, <1>8, <1>11 DEF HasEmitted
    <3>6. HeldBy(files, src, r.ahead, x)
      BY <3>4, <3>5, <1>5 DEF HeldBy
    <3> QED BY <3>6, <1>11, <1>12 DEF Pending
  <2> QED BY <2>1, <2>2, <1>11 DEF CompleteInv
<1>19. ReaderInv(files, rd2, o2)
  BY <1>1, <1>8, <1>11, <1>12, <1>13, <1>16, <1>17, <1>18 DEF ReaderInv, GridInv
<1> QED BY <1>19 DEF rd2, o2, src, e, w

\* A reader of emit_time with an empty source owes nothing.
LEMMA NoTimeOwed ==
  ASSUME NEW files, NEW rd, NEW o, ReaderInv(files, rd, o),
         rd.status = "open", rd.kind = "time", ~IsPullable(rd.r.src)
  PROVE  \A x \in rd.due : OwedTo(rd, o, x.tp) => HasEmitted(rd, o, x)
<1> SUFFICES ASSUME NEW x \in rd.due, OwedTo(rd, o, x.tp), ~HasEmitted(rd, o, x)
             PROVE  FALSE
  OBVIOUS
<1>1. HeldBy(files, rd.r.src, rd.r.ahead, x)
  BY DEF ReaderInv, CompleteInv, Pending
<1>2. rd.r.ahead = {}
  BY DEF ReaderInv, TransformationInv
<1> QED BY <1>1, <1>2 DEF HeldBy, IsPullable

(***************************************************************************)
(* The batches.                                                            *)
(***************************************************************************)
\* A list of the elements of a set, each once, has all of them.
LEMMA ListsAll ==
  ASSUME NEW S, IsFiniteSet(S), NEW list \in SetToSeqs(S)
  PROVE  /\ list \in Seq(S) /\ Len(list) \in Nat
         /\ DOMAIN list = 1 .. Len(list)
         /\ \A i \in 1 .. Len(list) : list[i] \in S
         /\ \A x \in S : \E i \in 1 .. Len(list) : list[i] = x
<1> DEFINE n == Cardinality(S)
<1>1. n \in Nat
  BY FS_CardinalityType
<1>2. list \in [1 .. n -> S] /\ \A i, j \in 1 .. n : i # j => list[i] # list[j]
  BY DEF SetToSeqs
<1> HIDE DEF n
<1>3. list \in Seq(S)
  BY <1>1, <1>2, SeqDef
<1>4. Len(list) = n
  <2>1. DOMAIN list = 1 .. n /\ DOMAIN list = 1 .. Len(list) /\ Len(list) \in Nat
    BY <1>2, <1>3, LenProperties
  <2> QED BY <2>1, <1>1
<1>5. list \in Injection(1 .. n, S)
  BY <1>2 DEF Injection, IsInjective
<1>6. Cardinality(1 .. n) = Cardinality(S)
  <2>1. Cardinality(1 .. n) = n
    BY <1>1, FS_Interval
  <2> QED BY <2>1 DEF n
<1>7. list \in Surjection(1 .. n, S)
  BY <1>5, <1>6, FS_Injection
<1>8. \A x \in S : \E i \in 1 .. n : list[i] = x
  BY <1>7 DEF Surjection
<1> QED BY <1>1, <1>2, <1>3, <1>4, <1>8

\* The files in the order of their begins.
Sorted(files, list) ==
  /\ list \in Seq(DOMAIN files) /\ Len(list) \in Nat /\ DOMAIN list = 1 .. Len(list)
  /\ \A i \in 1 .. Len(list) : list[i] \in DOMAIN files
  /\ \A i, j \in 1 .. Len(list) : i < j => files[list[i]].begin <= files[list[j]].begin

\* The end of a batch is the least of those of the files up to its last, and
\* before the begin of the others.
LEMMA CutIs ==
  ASSUME NEW files, files \in [DOMAIN files -> File], NEW list, Sorted(files, list),
         NEW i \in 1 .. Len(list)
  PROVE  LET u == Reach(files, list, i)
             t == Cut(files, list, i)
         IN /\ u \in i .. Len(list) /\ t \in Nat
            /\ \A k \in i .. u : t <= files[list[k]].end
            /\ \E k \in i .. u : t = files[list[k]].end
            /\ \A k \in u + 1 .. Len(list) : t < files[list[k]].begin
<1> DEFINE n == Len(list)
<1> DEFINE least(j) == EarliestEnd(files, list, i, j)
<1>1. n \in Nat /\ i \in Nat /\ \A k \in 1 .. n : list[k] \in DOMAIN files
  BY DEF Sorted
<1>2. \A k \in 1 .. n : /\ files[list[k]].begin \in Nat /\ files[list[k]].end \in Nat
                        /\ files[list[k]].begin <= files[list[k]].end
  BY <1>1, FileTimes
<1>3. ASSUME NEW j \in i .. n
      PROVE  /\ least(j) \in Nat
             /\ \A k \in i .. j : least(j) <= files[list[k]].end
             /\ \E k \in i .. j : least(j) = files[list[k]].end
  <2> DEFINE S == {files[list[k]].end : k \in i .. j}
  <2>1. \A k \in i .. j : k \in 1 .. n
    BY <1>1
  <2>2. S \in SUBSET Nat /\ S # {}
    <3>1. i \in i .. j
      BY <1>1
    <3>2. files[list[i]].end \in S
      BY <3>1
    <3>3. \A t \in S : t \in Nat
      BY <1>2, <2>1
    <3> QED BY <3>2, <3>3
  <2>3. Min(S) \in S /\ \A t \in S : Min(S) <= t
    <3> HIDE DEF S
    <3> QED BY <2>2, LeastTime
  <2>4. least(j) = Min(S)
    BY DEF EarliestEnd
  <2>5. \A k \in i .. j : files[list[k]].end \in S
    OBVIOUS
  <2>6. \A t \in S : \E k \in i .. j : t = files[list[k]].end
    OBVIOUS
  <2> HIDE DEF S, least
  <2> QED BY <2>2, <2>3, <2>4, <2>5, <2>6
<1> DEFINE R == {j \in i .. n : \A k \in i + 1 .. j : files[list[k]].begin <= least(k - 1)}
<1> DEFINE u == Reach(files, list, i)
<1>4. u = Max(R)
  BY DEF Reach
<1>5. R \in SUBSET Nat /\ i \in R /\ \A j \in R : j <= n
  BY <1>1
<1>6. u \in R /\ \A j \in R : j <= u
  <2> HIDE DEF R, u
  <2> QED BY <1>1, <1>4, <1>5, GreatestTime
<1> DEFINE t == Cut(files, list, i)
<1>7. t = least(u)
  BY DEF Cut
<1> HIDE DEF u, least, t
<1>8. u \in i .. n
  BY <1>6
<1>9. ASSUME NEW k \in u + 1 .. n PROVE t < files[list[k]].begin
  <2>1. u + 1 \in i .. n /\ u + 1 \notin R
    <3>1. u + 1 \in i .. n
      BY <1>1, <1>8, <1>9
    <3>2. ~(u + 1 <= u)
      BY <1>8
    <3> HIDE DEF R
    <3> QED BY <3>1, <3>2, <1>6
  <2>2. PICK m \in i + 1 .. u + 1 : ~(files[list[m]].begin <= least(m - 1))
    BY <2>1
  <2>3. m = u + 1
    <3> SUFFICES ASSUME m # u + 1 PROVE FALSE
      OBVIOUS
    <3>1. m \in i + 1 .. u
      BY <1>8, <2>2
    <3> QED BY <3>1, <2>2, <1>6
  <2>4. ~(files[list[u + 1]].begin <= t)
    <3>1. m - 1 = u
      BY <2>3, <1>8
    <3> QED BY <3>1, <2>2, <2>3, <1>7
  <2>5. t \in Nat /\ files[list[u + 1]].begin \in Nat /\ files[list[k]].begin \in Nat
    <3>1. u + 1 \in 1 .. n /\ k \in 1 .. n
      BY <1>1, <1>8, <1>9
    <3> QED BY <3>1, <1>2, <1>3, <1>7, <1>8
  <2>6. files[list[u + 1]].begin <= files[list[k]].begin
    <3>1. CASE k = u + 1
      BY <3>1, <2>5
    <3>2. CASE k # u + 1
      <4>1. u + 1 < k /\ u + 1 \in 1 .. n /\ k \in 1 .. n
        BY <3>2, <1>1, <1>8, <1>9
      <4> QED BY <4>1 DEF Sorted
    <3> QED BY <3>1, <3>2
  <2> QED BY <2>4, <2>5, <2>6
<1>10. t \in Nat /\ (\A k \in i .. u : t <= files[list[k]].end)
       /\ \E k \in i .. u : t = files[list[k]].end
  BY <1>3, <1>7, <1>8
<1> QED BY <1>8, <1>9, <1>10 DEF u, t

\* The batches follow each other.
LEMMA CutsGrow ==
  ASSUME NEW files, files \in [DOMAIN files -> File], NEW list, Sorted(files, list),
         NEW i \in 1 .. Len(list), NEW j \in 1 .. Len(list), i <= j
  PROVE  Cut(files, list, i) <= Cut(files, list, j)
<1> DEFINE n == Len(list)
<1> DEFINE u == Reach(files, list, i)
<1> DEFINE v == Reach(files, list, j)
<1>1. n \in Nat /\ \A k \in 1 .. n : list[k] \in DOMAIN files
  BY DEF Sorted
<1>2. /\ u \in i .. n /\ Cut(files, list, i) \in Nat
      /\ \A k \in i .. u : Cut(files, list, i) <= files[list[k]].end
      /\ \A k \in u + 1 .. n : Cut(files, list, i) < files[list[k]].begin
  BY CutIs
<1>3. v \in j .. n /\ \E k \in j .. v : Cut(files, list, j) = files[list[k]].end
  BY CutIs
<1>4. PICK k \in j .. v : Cut(files, list, j) = files[list[k]].end
  BY <1>3
<1> HIDE DEF u, v
<1>5. CASE k <= u
  <2>1. k \in i .. u
    BY <1>2, <1>3, <1>4, <1>5
  <2> QED BY <2>1, <1>2, <1>4
<1>6. CASE ~(k <= u)
  <2>1. k \in u + 1 .. n /\ k \in 1 .. n
    BY <1>1, <1>2, <1>3, <1>4, <1>6
  <2>2. files[list[k]].begin <= files[list[k]].end
        /\ files[list[k]].begin \in Nat /\ files[list[k]].end \in Nat
    BY <2>1, <1>1, FileTimes
  <2> QED BY <2>1, <2>2, <1>2, <1>4
<1> QED BY <1>5, <1>6

\* What a batch is: the one of a turn, or the last.
LEMMA BatchIs ==
  ASSUME NEW files, files \in [DOMAIN files -> File], NEW list, Sorted(files, list),
         NEW b \in Batches(files, list)
  PROVE  /\ b \in BatchesOf(files)
         /\ b[1] \in 1 .. Len(list) + 1 /\ Len(list) \in Nat
         /\ b[2].begin = BatchBegin(files, list, b[1])
         /\ b[2].end = (IF b[1] \in 1 .. Len(list) THEN {Cut(files, list, b[1])} ELSE {})
         /\ b = <<b[1], IF b[1] \in 1 .. Len(list) THEN BatchOf(files, list, b[1])
                        ELSE LastBatch(files, list)>>
<1> DEFINE n == Len(list)
<1>1. n \in Nat /\ DOMAIN list = 1 .. n /\ \A k \in 1 .. n : list[k] \in DOMAIN files
  BY DEF Sorted
<1>2. \A i \in 1 .. n : Cut(files, list, i) \in Nat /\ Reach(files, list, i) \in i .. n
  BY CutIs
<1>3. ASSUME NEW i \in 1 .. n + 1 PROVE BatchBegin(files, list, i) \in Bounds
  <2>1. CASE i = 1
    BY <2>1 DEF BatchBegin, Bounds
  <2>2. CASE i # 1
    <3>1. i - 1 \in 1 .. n
      BY <1>1, <2>2
    <3>2. Cut(files, list, i - 1) + 1 \in Int
      BY <3>1, <1>2
    <3> QED BY <3>2, <2>2 DEF BatchBegin, Bounds
  <2> QED BY <2>1, <2>2
<1>4. ASSUME NEW i \in 1 .. n + 1, NEW u \in Int, u <= n
      PROVE  {list[j] : j \in FirstLeft(files, list, i) .. u} \in SUBSET DOMAIN files
  <2> DEFINE S == {j \in 1 .. n : \A d \in BatchBegin(files, list, i) :
                                    files[list[j]].end >= d} \union {n + 1}
  <2>1. S \in SUBSET Nat /\ S # {} /\ \A j \in S : 1 <= j
    BY <1>1
  <2>2. FirstLeft(files, list, i) \in Nat /\ 1 <= FirstLeft(files, list, i)
    <3>1. FirstLeft(files, list, i) = Min(S)
      BY DEF FirstLeft
    <3> HIDE DEF S
    <3>2. Min(S) \in S
      BY <2>1, LeastTime
    <3> QED BY <3>1, <3>2, <2>1
  <2>3. \A j \in FirstLeft(files, list, i) .. u : j \in 1 .. n
    BY <1>1, <1>4, <2>2
  <2> QED BY <2>3, <1>1
<1>5. list # <<>> /\ n # 0
  <2>1. list # <<>>
    BY DEF Batches
  <2>2. CASE n = 0
    <3> QED BY <2>1, <2>2, EmptySeq DEF Sorted
  <2> QED BY <2>1, <2>2
<1>6. CASE \E i \in 1 .. n : b = <<i, BatchOf(files, list, i)>>
  <2>1. PICK i \in 1 .. n : b = <<i, BatchOf(files, list, i)>>
    BY <1>6
  <2>2. i \in 1 .. n + 1 /\ i \in Int /\ Reach(files, list, i) \in Int /\ Reach(files, list, i) <= n
    BY <1>1, <1>2
  <2>3. /\ BatchOf(files, list, i).files \in SUBSET DOMAIN files
        /\ BatchOf(files, list, i).begin = BatchBegin(files, list, i)
        /\ BatchOf(files, list, i).end = {Cut(files, list, i)}
    BY <2>2, <1>4 DEF BatchOf
  <2>4. {Cut(files, list, i)} \in Bounds
    BY <1>2 DEF Bounds
  <2>5. BatchOf(files, list, i) \in [files : SUBSET DOMAIN files, begin : Bounds, end : Bounds]
    BY <2>2, <2>3, <2>4, <1>3 DEF BatchOf
  <2> QED BY <2>1, <2>2, <2>3, <2>5, <1>1 DEF BatchesOf
<1>7. CASE b = <<n + 1, LastBatch(files, list)>>
  <2>1. n \in 1 .. n + 1 /\ n + 1 \in 1 .. n + 1 /\ n + 1 \notin 1 .. n /\ n + 1 \in Int /\ n \in Int
    BY <1>1, <1>5
  <2>2. /\ LastBatch(files, list).files \in SUBSET DOMAIN files
        /\ LastBatch(files, list).begin = BatchBegin(files, list, n + 1)
        /\ LastBatch(files, list).end = {}
    BY <2>1, <1>1, <1>4 DEF LastBatch
  <2>3. {} \in Bounds
    BY DEF Bounds
  <2>4. LastBatch(files, list) \in [files : SUBSET DOMAIN files, begin : Bounds, end : Bounds]
    BY <2>1, <2>2, <2>3, <1>3 DEF LastBatch
  <2> QED BY <1>7, <2>1, <2>2, <2>4, <1>1 DEF BatchesOf
<1> QED BY <1>1, <1>5, <1>6, <1>7 DEF Batches

\* No time is in two batches.
LEMMA BatchesApart ==
  ASSUME NEW files, files \in [DOMAIN files -> File], NEW list, Sorted(files, list),
         NEW b \in Batches(files, list), NEW c \in Batches(files, list), NEW t \in Nat,
         InRange(t, b[2]), InRange(t, c[2])
  PROVE  b = c
<1> DEFINE n == Len(list)
<1>1. ASSUME NEW d \in Batches(files, list), NEW e \in Batches(files, list),
             InRange(t, d[2]), InRange(t, e[2]), d[1] < e[1]
      PROVE  FALSE
  <2>1. /\ d[1] \in 1 .. n /\ e[1] \in 1 .. n + 1 /\ n \in Nat
        /\ d[2].end = {Cut(files, list, d[1])}
        /\ e[2].begin = BatchBegin(files, list, e[1])
    <3>1. /\ d[1] \in 1 .. n + 1 /\ n \in Nat
          /\ d[2].end = (IF d[1] \in 1 .. n THEN {Cut(files, list, d[1])} ELSE {})
      BY BatchIs
    <3>2. e[1] \in 1 .. n + 1 /\ e[2].begin = BatchBegin(files, list, e[1])
      BY BatchIs
    <3>3. d[1] \in 1 .. n
      BY <3>1, <3>2, <1>1
    <3> QED BY <3>1, <3>2, <3>3
  <2>2. e[1] - 1 \in 1 .. n /\ d[1] <= e[1] - 1 /\ e[1] # 1
    BY <2>1, <1>1
  <2>3. Cut(files, list, d[1]) <= Cut(files, list, e[1] - 1)
    BY <2>1, <2>2, CutsGrow
  <2>4. Cut(files, list, d[1]) \in Nat /\ Cut(files, list, e[1] - 1) \in Nat
    BY <2>1, <2>2, CutIs
  <2>5. t <= Cut(files, list, d[1])
    BY <2>1, <1>1 DEF InRange
  <2>6. Cut(files, list, e[1] - 1) + 1 <= t
    BY <2>1, <2>2, <1>1 DEF InRange, BatchBegin
  <2> QED BY <2>3, <2>4, <2>5, <2>6
<1>2. b[1] \in Int /\ c[1] \in Int
  <2>1. b[1] \in 1 .. n + 1 /\ n \in Nat
    BY BatchIs
  <2>2. c[1] \in 1 .. n + 1
    BY BatchIs
  <2> QED BY <2>1, <2>2
<1>3. b[1] = c[1]
  BY <1>1, <1>2
<1> DEFINE what(i) == IF i \in 1 .. n THEN BatchOf(files, list, i) ELSE LastBatch(files, list)
<1>4. b = <<b[1], what(b[1])>>
  BY BatchIs
<1>5. c = <<c[1], what(c[1])>>
  BY BatchIs
<1> HIDE DEF what
<1> QED BY <1>3, <1>4, <1>5

\* A time that a file covers is in a batch which has the file.
LEMMA BatchesCover ==
  ASSUME NEW files, files \in [DOMAIN files -> File], NEW list, Sorted(files, list),
         NEW j \in 1 .. Len(list), NEW t \in Nat,
         files[list[j]].begin <= t, t <= files[list[j]].end
  PROVE  \E b \in Batches(files, list) : list[j] \in b[2].files /\ InRange(t, b[2])
<1> DEFINE n == Len(list)
<1>1. n \in Nat /\ DOMAIN list = 1 .. n /\ list # <<>> /\ list[j] \in DOMAIN files
  BY DEF Sorted
<1>2. files[list[j]].begin \in Nat /\ files[list[j]].end \in Nat
  BY <1>1, FileTimes
<1>3. \A i \in 1 .. n : Cut(files, list, i) \in Nat /\ Reach(files, list, i) \in i .. n
  BY CutIs
\* the first cut that is not before the time
<1> DEFINE S == {i \in 1 .. n : t <= Cut(files, list, i)} \union {n + 1}
<1> DEFINE i == Min(S)
<1>4. i \in S /\ \A k \in S : i <= k
  <2>1. S \in SUBSET Nat /\ S # {}
    BY <1>1
  <2> HIDE DEF S
  <2> QED BY <2>1, LeastTime
<1> HIDE DEF i
<1>5. i \in 1 .. n + 1 /\ (i \in 1 .. n => t <= Cut(files, list, i))
  BY <1>1, <1>4
<1>6. i # 1 => i - 1 \in 1 .. n /\ Cut(files, list, i - 1) + 1 <= t
  <2> SUFFICES ASSUME i # 1 PROVE i - 1 \in 1 .. n /\ Cut(files, list, i - 1) + 1 <= t
    OBVIOUS
  <2>1. i - 1 \in 1 .. n /\ ~(i <= i - 1)
    BY <1>1, <1>5
  <2>2. i - 1 \notin S
    <3> HIDE DEF S
    <3> QED BY <2>1, <1>4
  <2> QED BY <2>1, <2>2, <1>3
<1>7. ASSUME NEW k \in 1 .. n + 1, k <= i, k = 1 \/ k - 1 \in 1 .. n
      PROVE  FirstLeft(files, list, k) \in Nat /\ FirstLeft(files, list, k) <= j
  <2> DEFINE L == {m \in 1 .. n : \A d \in BatchBegin(files, list, k) :
                                    files[list[m]].end >= d} \union {n + 1}
  <2>1. L \in SUBSET Nat /\ L # {}
    BY <1>1
  <2>2. j \in L
    <3>1. \A d \in BatchBegin(files, list, k) : files[list[j]].end >= d
      <4>1. CASE k = 1
        BY <4>1 DEF BatchBegin
      <4>2. CASE k # 1
        <5>1. k - 1 \in 1 .. n /\ i # 1 /\ i - 1 \in 1 .. n /\ k - 1 <= i - 1
          BY <4>2, <1>5, <1>6, <1>7
        <5>2. Cut(files, list, k - 1) <= Cut(files, list, i - 1)
          BY <5>1, CutsGrow
        <5>3. Cut(files, list, k - 1) \in Nat /\ Cut(files, list, i - 1) \in Nat
          BY <5>1, <1>3
        <5>4. files[list[j]].end >= Cut(files, list, k - 1) + 1
          BY <5>1, <5>2, <5>3, <1>2, <1>6
        <5> QED BY <5>4, <4>2 DEF BatchBegin
      <4> QED BY <4>1, <4>2
    <3> QED BY <3>1
  <2>3. FirstLeft(files, list, k) = Min(L)
    BY DEF FirstLeft
  <2> HIDE DEF L
  <2>4. Min(L) \in L /\ \A m \in L : Min(L) <= m
    BY <2>1, LeastTime
  <2> QED BY <2>1, <2>2, <2>3, <2>4
<1>8. \A d \in BatchBegin(files, list, i) : d <= t
  BY <1>6 DEF BatchBegin
<1>9. CASE i \in 1 .. n
  <2> DEFINE b == <<i, BatchOf(files, list, i)>>
  <2>1. b \in Batches(files, list)
    BY <1>1, <1>9 DEF Batches
  <2>2. j <= Reach(files, list, i)
    <3> SUFFICES ASSUME ~(j <= Reach(files, list, i)) PROVE FALSE
      OBVIOUS
    <3>1. Reach(files, list, i) \in i .. n
      BY <1>3, <1>9
    <3>2. j \in Reach(files, list, i) + 1 .. n
      BY <3>1, <1>1
    <3>3. Cut(files, list, i) < files[list[j]].begin
      BY <3>2, <1>9, CutIs
    <3> QED BY <3>3, <1>2, <1>3, <1>5, <1>9
  <2>3. j \in FirstLeft(files, list, i) .. Reach(files, list, i)
    BY <2>2, <1>3, <1>5, <1>6, <1>7, <1>9
  <2>4. list[j] \in b[2].files
    BY <2>3 DEF BatchOf
  <2>5. InRange(t, b[2])
    BY <1>5, <1>8, <1>9 DEF BatchOf, InRange
  <2> QED BY <2>1, <2>4, <2>5
<1>10. CASE i = n + 1
  <2> DEFINE b == <<n + 1, LastBatch(files, list)>>
  <2>1. b \in Batches(files, list)
    BY <1>1 DEF Batches
  <2>2. n \in 1 .. n + 1 /\ n <= i /\ (n = 1 \/ n - 1 \in 1 .. n)
    BY <1>1, <1>10
  <2>3. j \in FirstLeft(files, list, n) .. n
    BY <2>2, <1>1, <1>7
  <2>4. list[j] \in b[2].files
    BY <2>3 DEF LastBatch
  <2>5. InRange(t, b[2])
    BY <1>8, <1>10 DEF LastBatch, InRange
  <2> QED BY <2>1, <2>4, <2>5
<1> QED BY <1>5, <1>9, <1>10, <1>1

\* The range asked of a file in a batch is the reader's and the batch's.
LEMMA ClampIs ==
  ASSUME NEW tr \in Ranges, NEW batch, batch.begin \in Bounds, batch.end \in Bounds,
         NEW t \in Nat
  PROVE  InRange(t, Clamp(tr, batch)) <=> InRange(t, tr) /\ InRange(t, batch)
<1> DEFINE lows == tr.begin \union batch.begin
<1> DEFINE highs == tr.end \union batch.end
<1> DEFINE low == {b \in lows : \A x \in lows : x <= b}
<1> DEFINE high == {e \in highs : \A x \in highs : e <= x}
<1>1. Clamp(tr, batch).begin = low /\ Clamp(tr, batch).end = high
  BY DEF Clamp
<1>2. /\ tr.begin \in SUBSET Int /\ \A x, y \in tr.begin : x = y
      /\ tr.end \in SUBSET Int /\ \A x, y \in tr.end : x = y
      /\ batch.begin \in SUBSET Int /\ \A x, y \in batch.begin : x = y
      /\ batch.end \in SUBSET Int /\ \A x, y \in batch.end : x = y
  BY DEF Ranges, OptionalTime, Bounds
<1>3. ASSUME NEW x \in lows PROVE \E b \in low : x <= b
  <2>1. CASE \A y \in lows : y <= x
    BY <2>1, <1>2
  <2>2. CASE \E y \in lows : ~(y <= x)
    <3>1. PICK y \in lows : ~(y <= x)
      BY <2>2
    <3>2. \A z \in lows : z = x \/ z = y
      BY <3>1, <1>2
    <3>3. x \in Int /\ y \in Int
      BY <1>2
    <3>4. y \in low /\ x <= y
      BY <3>1, <3>2, <3>3
    <3> QED BY <3>4
  <2> QED BY <2>1, <2>2
<1>4. ASSUME NEW x \in highs PROVE \E e \in high : e <= x
  <2>1. CASE \A y \in highs : x <= y
    BY <2>1, <1>2
  <2>2. CASE \E y \in highs : ~(x <= y)
    <3>1. PICK y \in highs : ~(x <= y)
      BY <2>2
    <3>2. \A z \in highs : z = x \/ z = y
      BY <3>1, <1>2
    <3>3. x \in Int /\ y \in Int
      BY <1>2
    <3>4. y \in high /\ y <= x
      BY <3>1, <3>2, <3>3
    <3> QED BY <3>4
  <2> QED BY <2>1, <2>2
<1>5. lows \in SUBSET Int /\ highs \in SUBSET Int
  BY <1>2
<1>6. low \subseteq lows /\ high \subseteq highs
  OBVIOUS
<1>7. /\ \A x \in tr.begin : x \in lows
      /\ \A x \in batch.begin : x \in lows
      /\ \A x \in lows : x \in tr.begin \/ x \in batch.begin
      /\ \A x \in tr.end : x \in highs
      /\ \A x \in batch.end : x \in highs
      /\ \A x \in highs : x \in tr.end \/ x \in batch.end
  OBVIOUS
<1> HIDE DEF lows, highs, low, high
<1>8. (\A b \in low : b <= t) <=> (\A x \in lows : x <= t)
  <2>1. ASSUME \A b \in low : b <= t, NEW x \in lows PROVE x <= t
    <3>1. PICK b \in low : x <= b
      BY <1>3
    <3>2. b <= t /\ b \in Int /\ x \in Int
      BY <2>1, <3>1, <1>5, <1>6
    <3> QED BY <3>1, <3>2
  <2> QED BY <2>1, <1>6
<1>9. (\A e \in high : t <= e) <=> (\A x \in highs : t <= x)
  <2>1. ASSUME \A e \in high : t <= e, NEW x \in highs PROVE t <= x
    <3>1. PICK e \in high : e <= x
      BY <1>4
    <3>2. t <= e /\ e \in Int /\ x \in Int
      BY <2>1, <3>1, <1>5, <1>6
    <3> QED BY <3>1, <3>2
  <2> QED BY <2>1, <1>6
<1>10. InRange(t, Clamp(tr, batch)) <=>
         (\A x \in lows : x <= t) /\ (\A x \in highs : t <= x)
  BY <1>1, <1>8, <1>9 DEF InRange
<1> QED BY <1>7, <1>10 DEF InRange

\* The times of a batch.
LEMMA BatchTimesAre ==
  ASSUME NEW files, files \in [DOMAIN files -> File], IsFiniteSet(DOMAIN files),
         NEW tr \in Ranges, NEW b \in BatchesOf(files)
  PROVE  /\ IsFiniteSet(BatchTimes(files, tr, b[2]))
         /\ \A t \in BatchTimes(files, tr, b[2]) :
              /\ t \in Nat /\ InRange(t, tr) /\ InRange(t, b[2])
              /\ RecordedAt(files, t)
         /\ \A f \in b[2].files : \A x \in files[f].recs :
              InRange(x.tp, tr) /\ InRange(x.tp, b[2])
                => x.tp \in BatchTimes(files, tr, b[2])
<1> DEFINE batch == b[2]
<1> DEFINE c == Clamp(tr, batch)
<1> DEFINE rs == UNION {Emission(files[f], c) : f \in batch.files}
<1>1. /\ batch.files \in SUBSET DOMAIN files
      /\ batch.begin \in Bounds /\ batch.end \in Bounds
  BY DEF BatchesOf
<1>2. BatchTimes(files, tr, batch) = Times(rs)
  BY DEF BatchTimes
<1>3. \A x : x \in rs <=> \E f \in batch.files : x \in files[f].recs /\ InRange(x.tp, c)
  BY DEF Emission
<1>4. \A x \in rs : x.tp \in Nat
  BY <1>1, <1>3, FileTimes
<1>5. IsFiniteSet(rs)
  <2> DEFINE all == {Emission(files[f], c) : f \in batch.files}
  <2>1. IsFiniteSet(batch.files)
    BY <1>1, FS_Subset
  <2>2. IsFiniteSet(all)
    <3> DEFINE g == [f \in batch.files |-> Emission(files[f], c)]
    <3>1. g \in Surjection(batch.files, all)
      BY DEF Surjection
    <3> HIDE DEF g, all
    <3> QED BY <2>1, <3>1, FS_Surjection
  <2>3. \A T \in all : IsFiniteSet(T)
    <3> SUFFICES ASSUME NEW f \in batch.files PROVE IsFiniteSet(Emission(files[f], c))
      OBVIOUS
    <3>1. IsFiniteSet(files[f].recs)
      BY <1>1, FileTimes
    <3>2. Emission(files[f], c) \in SUBSET files[f].recs
      BY DEF Emission
    <3> QED BY <3>1, <3>2, FS_Subset
  <2> HIDE DEF all
  <2>4. IsFiniteSet(UNION all)
    BY <2>2, <2>3, FS_UNION
  <2> QED BY <2>4 DEF all
<1> HIDE DEF rs, c
<1>6. IsFiniteSet(Times(rs))
  <2> DEFINE g == [x \in rs |-> x.tp]
  <2>1. g \in Surjection(rs, Times(rs))
    BY DEF Surjection, Times
  <2> HIDE DEF g
  <2> QED BY <2>1, <1>5, FS_Surjection
<1>7. ASSUME NEW t \in Times(rs)
      PROVE  t \in Nat /\ InRange(t, tr) /\ InRange(t, batch) /\ RecordedAt(files, t)
  <2>1. PICK x \in rs : x.tp = t
    BY DEF Times
  <2>2. PICK f \in batch.files : x \in files[f].recs /\ InRange(x.tp, c)
    BY <1>3
  <2>3. t \in Nat /\ InRange(t, c)
    BY <2>1, <2>2, <1>4
  <2>4. InRange(t, tr) /\ InRange(t, batch)
    BY <2>3, <1>1, ClampIs DEF c
  <2> QED BY <2>1, <2>2, <2>3, <2>4, <1>1 DEF RecordedAt
<1>8. ASSUME NEW f \in batch.files, NEW x \in files[f].recs,
             InRange(x.tp, tr), InRange(x.tp, batch)
      PROVE  x.tp \in Times(rs)
  <2>1. x.tp \in Nat
    BY <1>1, FileTimes
  <2>2. InRange(x.tp, c)
    BY <2>1, <1>1, <1>8, ClampIs DEF c
  <2> QED BY <2>2, <1>3 DEF Times
<1> QED BY <1>2, <1>6, <1>7, <1>8

\* The list of a reader's files is sorted, and has all of them.
LEMMA ByBeginSorts ==
  ASSUME NEW files, files \in [DOMAIN files -> File], IsFiniteSet(DOMAIN files),
         NEW fs \in SUBSET DOMAIN files, NEW list \in ByBegin(files, fs)
  PROVE  Sorted(files, list) /\ \A f \in fs : \E j \in 1 .. Len(list) : list[j] = f
<1>1. list \in SetToSeqs(fs) /\ IsFiniteSet(fs)
  BY FS_Subset DEF ByBegin
<1>2. /\ list \in Seq(fs) /\ Len(list) \in Nat
      /\ DOMAIN list = 1 .. Len(list)
      /\ \A i \in 1 .. Len(list) : list[i] \in fs
      /\ \A x \in fs : \E i \in 1 .. Len(list) : list[i] = x
  BY <1>1, ListsAll
<1>3. list \in Seq(DOMAIN files)
  BY <1>2, SeqMonotonic
<1>4. \A i, j \in 1 .. Len(list) : i < j => files[list[i]].begin <= files[list[j]].begin
  BY <1>2 DEF ByBegin
<1> QED BY <1>2, <1>3, <1>4 DEF Sorted

\* emit_time into an acceptor: the batches are made.
LEMMA SinkIntoStep ==
  ASSUME NEW files, files \in [DOMAIN files -> File], IsFiniteSet(DOMAIN files),
         NEW rd, NEW o, ReaderInv(files, rd, o), rd.status = "open", rd.kind = "push",
         NEW list \in ByBegin(files, rd.r.src.unstarted)
  PROVE  ReaderInv(files, [rd EXCEPT !.status = "batches", !.batches = Batches(files, list)], o)
<1> DEFINE rd2 == [rd EXCEPT !.status = "batches", !.batches = Batches(files, list)]
<1>1. /\ rd \in ReadersOf(files) /\ rd.r.src.unstarted \in SUBSET DOMAIN files
      /\ rd.r.src.active = {} /\ rd.r.ahead = {} /\ o = <<>>
  BY DEF ReaderInv, ReadersOf, Transformations, Sources, TransformationInv
<1>2. /\ Sorted(files, list)
      /\ \A f \in rd.r.src.unstarted : \E j \in 1 .. Len(list) : list[j] = f
  BY <1>1, ByBeginSorts
<1>3. Batches(files, list) \in SUBSET BatchesOf(files)
  BY <1>2, BatchIs
<1>4. /\ rd2 \in ReadersOf(files) /\ rd2.status = "batches" /\ rd2.kind = "push"
      /\ rd2.batches = Batches(files, list) /\ rd2.r = rd.r /\ rd2.due = rd.due
  BY <1>1, <1>3 DEF ReadersOf
<1> HIDE DEF rd2
<1>5. OrderInv(files, rd2, o)
  <2>1. \A b, c \in rd2.batches : \A t \in Nat :
          InRange(t, b[2]) /\ InRange(t, c[2]) => b = c
    BY <1>2, <1>4, BatchesApart
  <2> QED BY <2>1, <1>1, <1>4 DEF OrderInv
<1>6. CompleteInv(files, rd2, o)
  <2>1. \A x \in rd2.due : Stored(files, x)
    BY <1>4 DEF ReaderInv, CompleteInv
  <2>2. ASSUME NEW x \in rd2.due, OwedTo(rd2, o, x.tp), ~HasEmitted(rd2, o, x)
        PROVE  Pending(files, rd2, x)
    <3>1. OwedTo(rd, o, x.tp) /\ ~HasEmitted(rd, o, x)
      BY <2>2, <1>4 DEF OwedTo, HasEmitted
    <3>2. HeldBy(files, rd.r.src, rd.r.ahead, x)
      BY <3>1, <1>4 DEF ReaderInv, CompleteInv, Pending
    <3>3. PICK f \in rd.r.src.unstarted : x \in files[f].recs
      BY <3>2, <1>1 DEF HeldBy
    <3>4. PICK j \in 1 .. Len(list) : list[j] = f
      BY <1>2
    <3>5. x.tp \in Nat /\ files[f].begin <= x.tp /\ x.tp <= files[f].end
      BY <3>3, <1>1, FileTimes
    <3>6. \E b \in Batches(files, list) : f \in b[2].files /\ InRange(x.tp, b[2])
      BY <3>4, <3>5, <1>2, BatchesCover
    <3> QED BY <3>3, <3>6, <1>4 DEF Pending
  <2> QED BY <2>1, <2>2 DEF CompleteInv
<1>7. \A i \in DOMAIN o : OutputInv(files, rd2, o[i])
  BY <1>4 DEF ReaderInv, OutputInv
<1>8. ReaderInv(files, rd2, o)
  BY <1>4, <1>5, <1>6, <1>7 DEF ReaderInv, GridInv
<1> QED BY <1>8 DEF rd2

\* One batch is merged and pushed.
LEMMA EmitBatchStep ==
  ASSUME NEW files, files \in [DOMAIN files -> File], IsFiniteSet(DOMAIN files),
         NEW rd, NEW o, ReaderInv(files, rd, o), rd.status = "batches",
         NEW b \in rd.batches,
         NEW times \in InOrder(BatchTimes(files, rd.r.tr, b[2]))
  PROVE  ReaderInv(files, [rd EXCEPT !.batches = @ \ {b}], o \o Pushed(times))
<1> USE DEF Pushed
<1> DEFINE new == Pushed(times)
<1> DEFINE o2 == o \o new
<1> DEFINE rd2 == [rd EXCEPT !.batches = @ \ {b}]
<1> DEFINE T == BatchTimes(files, rd.r.tr, b[2])
<1>1. /\ rd \in ReadersOf(files) /\ rd.kind = "push" /\ o \in Seq(Emissions)
      /\ rd.r.tr \in Ranges /\ b \in BatchesOf(files) /\ rd.batches \in SUBSET BatchesOf(files)
  BY DEF ReaderInv, ReadersOf, Transformations
<1>2. /\ IsFiniteSet(T)
      /\ \A t \in T : /\ t \in Nat /\ InRange(t, rd.r.tr) /\ InRange(t, b[2])
                      /\ RecordedAt(files, t)
      /\ \A f \in b[2].files : \A x \in files[f].recs :
           InRange(x.tp, rd.r.tr) /\ InRange(x.tp, b[2]) => x.tp \in T
  BY <1>1, BatchTimesAre
<1>3. times \in SetToSeqs(T) /\ \A i, j \in DOMAIN times : i < j => times[i] < times[j]
  BY DEF InOrder
<1> HIDE DEF T
<1>4. /\ times \in Seq(T) /\ Len(times) \in Nat
      /\ DOMAIN times = 1 .. Len(times)
      /\ \A i \in 1 .. Len(times) : times[i] \in T
      /\ \A x \in T : \E i \in 1 .. Len(times) : times[i] = x
  BY <1>2, <1>3, ListsAll
<1> DEFINE m == Len(times)
<1>5. /\ new \in Seq(Emissions) /\ Len(new) = m
      /\ \A i \in 1 .. m : new[i] = [tp |-> times[i], keys |-> {}, between |-> {}]
  <2>1. \A i \in 1 .. m : [tp |-> times[i], keys |-> {}, between |-> {}] \in Emissions
    BY <1>2, <1>4 DEF Emissions
  <2>2. new \in [1 .. m -> Emissions]
    BY <2>1, <1>4
  <2>3. new \in Seq(Emissions)
    BY <2>2, <1>4, SeqDef
  <2>4. Len(new) = m
    <3>1. DOMAIN new = 1 .. m /\ DOMAIN new = 1 .. Len(new) /\ Len(new) \in Nat
      BY <2>2, <2>3, LenProperties
    <3> QED BY <3>1, <1>4
  <2> QED BY <2>3, <2>4, <1>4
<1> DEFINE n == Len(o)
<1> HIDE DEF new, Pushed
<1>6. /\ o2 \in Seq(Emissions) /\ n \in Nat /\ DOMAIN o = 1 .. n
      /\ Len(o2) = n + m /\ DOMAIN o2 = 1 .. n + m
      /\ \A i \in 1 .. n : o2[i] = o[i]
      /\ \A i \in 1 .. m : /\ n + i \in 1 .. n + m
                           /\ o2[n + i] = [tp |-> times[i], keys |-> {}, between |-> {}]
  <2>1. /\ o2 \in Seq(Emissions) /\ Len(o2) = n + m /\ n \in Nat /\ DOMAIN o = 1 .. n
        /\ DOMAIN o2 = 1 .. Len(o2)
    <3>1. /\ o \o new \in Seq(Emissions)
          /\ Len(o \o new) = Len(o) + Len(new)
      BY <1>1, <1>5, ConcatProperties
    <3>2. n \in Nat /\ DOMAIN o = 1 .. n
      BY <1>1, LenProperties
    <3>3. DOMAIN o2 = 1 .. Len(o2)
      BY <3>1, LenProperties
    <3> QED BY <3>1, <3>2, <3>3, <1>5
  <2>2. \A i \in 1 .. n + m : o2[i] = IF i <= n THEN o[i] ELSE new[i - n]
    BY <1>1, <1>5, ConcatProperties
  <2>3. ASSUME NEW i \in 1 .. n PROVE o2[i] = o[i]
    BY <2>1, <2>2, <1>4
  <2>4. ASSUME NEW i \in 1 .. m
        PROVE  /\ n + i \in 1 .. n + m
               /\ o2[n + i] = [tp |-> times[i], keys |-> {}, between |-> {}]
    <3>1. n + i \in 1 .. n + m /\ ~(n + i <= n) /\ (n + i) - n = i
      BY <2>1, <1>4
    <3> HIDE DEF o2, n, m
    <3>2. o2[n + i] = new[(n + i) - n]
      BY <2>2, <3>1
    <3> QED BY <3>1, <3>2, <1>5
  <2> HIDE DEF o2
  <2> QED BY <2>1, <2>3, <2>4
<1>7. /\ rd2 \in ReadersOf(files) /\ rd2.status = "batches" /\ rd2.kind = "push"
      /\ rd2.batches = rd.batches \ {b} /\ rd2.r = rd.r /\ rd2.due = rd.due
  BY <1>1 DEF ReadersOf
<1> HIDE DEF o2, rd2, n, m
<1>8. ASSUME NEW i \in DOMAIN o2
      PROVE  \/ i \in 1 .. n /\ o2[i] = o[i]
             \/ \E k \in 1 .. m : /\ i = n + k
                                  /\ o2[i] = [tp |-> times[k], keys |-> {}, between |-> {}]
  <2>1. CASE i <= n
    BY <2>1, <1>6
  <2>2. CASE ~(i <= n)
    <3>1. i - n \in 1 .. m /\ i = n + (i - n)
      BY <2>2, <1>4, <1>6 DEF m
    <3> QED BY <3>1, <1>6
  <2> QED BY <2>1, <2>2
<1>9. ASSUME NEW k \in 1 .. m
      PROVE  /\ times[k] \in T /\ times[k] \in Nat /\ InRange(times[k], rd.r.tr)
             /\ InRange(times[k], b[2]) /\ RecordedAt(files, times[k])
  BY <1>2, <1>4 DEF m
<1>10. ASSUME NEW i \in DOMAIN o2 PROVE OutputInv(files, rd2, o2[i])
  <2>1. CASE i \in 1 .. n /\ o2[i] = o[i]
    <3>1. OutputInv(files, rd, o[i])
      BY <2>1, <1>6 DEF ReaderInv
    <3> QED BY <3>1, <2>1, <1>7, <1>1 DEF OutputInv
  <2>2. ASSUME NEW k \in 1 .. m, o2[i] = [tp |-> times[k], keys |-> {}, between |-> {}]
        PROVE  OutputInv(files, rd2, o2[i])
    BY <2>2, <1>7, <1>9 DEF OutputInv
  <2> QED BY <2>1, <2>2, <1>8
<1>11. ASSUME NEW i \in 1 .. n PROVE o[i].tp \in Nat /\ \A c \in rd.batches : ~InRange(o[i].tp, c[2])
  <2>1. o[i] \in Emissions
    BY <1>1, <1>6
  <2> QED BY <2>1, <1>1, <1>6 DEF ReaderInv, OrderInv, Emissions
<1>12. OrderInv(files, rd2, o2)
  <2>1. \A c, d \in rd2.batches : \A t \in Nat : InRange(t, c[2]) /\ InRange(t, d[2]) => c = d
    BY <1>1, <1>7 DEF ReaderInv, OrderInv
  <2>2. ASSUME NEW c \in rd2.batches, NEW i \in DOMAIN o2 PROVE ~InRange(o2[i].tp, c[2])
    <3>1. c \in rd.batches /\ c # b
      BY <1>7
    <3>2. CASE i \in 1 .. n /\ o2[i] = o[i]
      BY <3>1, <3>2, <1>11
    <3>3. ASSUME NEW k \in 1 .. m, o2[i] = [tp |-> times[k], keys |-> {}, between |-> {}]
          PROVE  ~InRange(o2[i].tp, c[2])
      <4>1. o2[i].tp = times[k]
        BY <3>3
      <4> QED BY <4>1, <3>1, <1>1, <1>9 DEF ReaderInv, OrderInv
    <3> QED BY <3>2, <3>3, <1>8
  <2>3. ASSUME NEW i \in DOMAIN o2, NEW j \in DOMAIN o2, i < j PROVE o2[i].tp # o2[j].tp
    <3>1. CASE i \in 1 .. n /\ o2[i] = o[i] /\ j \in 1 .. n /\ o2[j] = o[j]
      BY <3>1, <2>3, <1>1, <1>6 DEF ReaderInv, OrderInv
    <3>2. ASSUME NEW k \in 1 .. m, j = n + k,
                 o2[j] = [tp |-> times[k], keys |-> {}, between |-> {}]
          PROVE  o2[i].tp # o2[j].tp
      <4>1. o2[j].tp = times[k]
        BY <3>2
      <4>2. CASE i \in 1 .. n /\ o2[i] = o[i]
        BY <4>1, <4>2, <1>9, <1>11
      <4>3. ASSUME NEW l \in 1 .. m, i = n + l,
                   o2[i] = [tp |-> times[l], keys |-> {}, between |-> {}]
            PROVE  o2[i].tp # o2[j].tp
        <5>1. l < k
          BY <4>3, <3>2, <2>3, <1>4, <1>6 DEF m
        <5>2. times[l] < times[k]
          BY <5>1, <1>3, <1>4 DEF m
        <5>3. o2[i].tp = times[l]
          BY <4>3
        <5> QED BY <5>2, <5>3, <4>1, <1>9
      <4> QED BY <4>2, <4>3, <1>8
    <3>3. ASSUME NEW l \in 1 .. m, i = n + l, j \in 1 .. n PROVE FALSE
      BY <3>3, <2>3, <1>4, <1>6 DEF m
    <3> QED BY <3>1, <3>2, <3>3, <1>8
  <2> QED BY <2>1, <2>2, <2>3, <1>7 DEF OrderInv
<1>13. CompleteInv(files, rd2, o2)
  <2>1. \A x \in rd2.due : Stored(files, x)
    BY <1>7 DEF ReaderInv, CompleteInv
  <2>2. ASSUME NEW x \in rd2.due, OwedTo(rd2, o2, x.tp), ~HasEmitted(rd2, o2, x)
        PROVE  Pending(files, rd2, x)
    <3>1. OwedTo(rd, o, x.tp)
      <4>1. o # <<>> => o2 # <<>> /\ o2[1] = o[1]
        <5> SUFFICES ASSUME o # <<>> PROVE o2 # <<>> /\ o2[1] = o[1]
          OBVIOUS
        <5>1. n # 0
          BY <1>1, EmptySeq DEF n
        <5>2. 1 \in 1 .. n /\ Len(o2) # 0
          BY <5>1, <1>4, <1>6 DEF m
        <5>3. o2 # <<>>
          BY <5>2, <1>6, EmptySeq
        <5>4. o2[1] = o[1]
          BY <5>2, <1>6
        <5> QED BY <5>3, <5>4
      <4>2. rd2.r.tr = rd.r.tr /\ rd.kind # "emit"
        BY <1>1, <1>7
      <4>3. InRange(x.tp, rd.r.tr)
        BY <4>2, <2>2 DEF OwedTo
      <4>4. ASSUME NEW i \in rd.r.tr.interval, o # <<>> PROVE (x.tp - o[1].tp) % i = 0
        <5>1. o2 # <<>> /\ o2[1] = o[1]
          BY <4>1, <4>4
        <5>2. (x.tp - o2[1].tp) % i = 0
          BY <5>1, <4>2, <4>4, <2>2 DEF OwedTo
        <5> QED BY <5>1, <5>2
      <4> QED BY <4>2, <4>3, <4>4 DEF OwedTo
    <3>2. ~HasEmitted(rd, o, x)
      <4>1. \A i \in DOMAIN o : i \in DOMAIN o2 /\ o2[i] = o[i]
        BY <1>4, <1>6 DEF m
      <4> QED BY <4>1, <2>2, <1>1, <1>7 DEF HasEmitted
    <3>3. Pending(files, rd, x)
      BY <3>1, <3>2, <1>7 DEF ReaderInv, CompleteInv
    <3>4. PICK c \in rd.batches : \E f \in c[2].files : x \in files[f].recs /\ InRange(x.tp, c[2])
      BY <3>3 DEF Pending
    <3>5. c # b
      <4> SUFFICES ASSUME c = b PROVE FALSE
        OBVIOUS
      <4>1. x.tp \in T
        BY <3>1, <3>4, <1>2 DEF OwedTo
      <4>2. PICK k \in 1 .. m : times[k] = x.tp
        BY <4>1, <1>4 DEF m
      <4>3. n + k \in DOMAIN o2 /\ o2[n + k].tp = x.tp
        <5>1. /\ n + k \in 1 .. n + m
              /\ o2[n + k] = [tp |-> times[k], keys |-> {}, between |-> {}]
          BY <1>6
        <5>2. [tp |-> times[k], keys |-> {}, between |-> {}].tp = times[k]
          OBVIOUS
        <5> QED BY <5>1, <5>2, <4>2, <1>6
      <4>4. PICK i \in DOMAIN o2 : o2[i].tp = x.tp
        BY <4>3
      <4> QED BY <4>4, <2>2, <1>7 DEF HasEmitted
    <3> QED BY <3>4, <3>5, <1>7 DEF Pending
  <2> QED BY <2>1, <2>2 DEF CompleteInv
<1>14. ReaderInv(files, rd2, o2)
  BY <1>1, <1>6, <1>7, <1>10, <1>12, <1>13 DEF ReaderInv, GridInv
<1> QED BY <1>14 DEF rd2, o2, new

\* A push reader whose batches are pushed owes nothing.
LEMMA NoBatchOwed ==
  ASSUME NEW files, NEW rd, NEW o, ReaderInv(files, rd, o),
         rd.status = "batches", rd.batches = {}
  PROVE  \A x \in rd.due : OwedTo(rd, o, x.tp) => HasEmitted(rd, o, x)
BY DEF ReaderInv, CompleteInv, Pending

-----------------------------------------------------------------------------
(***************************************************************************)
(* What the rest of the program does to a reader: it makes it, and adds    *)
(* files and records under it.                                             *)
(***************************************************************************)
\* A file that grows keeps its begin, and the new ones come with their own:
\* what a reader relies on stays.
LEMMA FilesGrow ==
  ASSUME NEW files, NEW gfiles, gfiles \in [DOMAIN gfiles -> File],
         DOMAIN files \subseteq DOMAIN gfiles,
         \A n \in DOMAIN files : /\ gfiles[n].begin = files[n].begin
                                 /\ files[n].recs \subseteq gfiles[n].recs,
         NEW rd, NEW o, ReaderInv(files, rd, o)
  PROVE  ReaderInv(gfiles, rd, o)
<1>1. Sources(files) \subseteq Sources(gfiles) /\ BatchesOf(files) \subseteq BatchesOf(gfiles)
  BY DEF Sources, BatchesOf
<1>2. Transformations(files) \subseteq Transformations(gfiles)
  BY <1>1 DEF Transformations
<1>3. rd \in ReadersOf(files) /\ rd \in ReadersOf(gfiles)
  BY <1>1, <1>2 DEF ReaderInv, ReadersOf
<1>4. /\ rd.r.src.unstarted \in SUBSET DOMAIN files /\ rd.batches \in SUBSET BatchesOf(files)
  BY <1>3 DEF ReadersOf, Transformations, Sources
<1>5. /\ \A x : Stored(files, x) => Stored(gfiles, x)
      /\ \A t : RecordedAt(files, t) => RecordedAt(gfiles, t)
      /\ \A k, t : Known(files, k, t) => Known(gfiles, k, t)
  BY DEF Stored, RecordedAt, Known
<1>6. \A t : After(files, rd.r.src, t) => After(gfiles, rd.r.src, t)
  BY <1>4 DEF After
<1>7. TransformationInv(gfiles, rd.r)
  <2>1. SourceInv(gfiles, rd.r.tr, rd.r.src)
    BY <1>5 DEF ReaderInv, TransformationInv, SourceInv
  <2>2. AheadInv(gfiles, rd.r.src, rd.r.ahead)
    BY <1>5, <1>6 DEF ReaderInv, TransformationInv, AheadInv
  <2>3. StampsInv(gfiles, rd.r)
    BY <1>5 DEF ReaderInv, TransformationInv, StampsInv
  <2> QED BY <2>1, <2>2, <2>3 DEF ReaderInv, TransformationInv
<1>8. ASSUME NEW i \in DOMAIN o PROVE OutputInv(gfiles, rd, o[i])
  <2>1. OutputInv(files, rd, o[i])
    BY DEF ReaderInv
  <2> QED BY <2>1, <1>5 DEF OutputInv
<1>9. OrderInv(gfiles, rd, o)
  BY <1>6 DEF ReaderInv, OrderInv
<1>10. CompleteInv(gfiles, rd, o)
  <2>1. ASSUME NEW x, Pending(files, rd, x) PROVE Pending(gfiles, rd, x)
    <3>1. HeldBy(files, rd.r.src, rd.r.ahead, x) => HeldBy(gfiles, rd.r.src, rd.r.ahead, x)
      BY <1>4 DEF HeldBy
    <3>2. ASSUME NEW b \in rd.batches, NEW f \in b[2].files, x \in files[f].recs
          PROVE  x \in gfiles[f].recs
      <4>1. f \in DOMAIN files
        BY <1>4 DEF BatchesOf
      <4> QED BY <4>1, <3>2
    <3> QED BY <2>1, <3>1, <3>2 DEF Pending
  <2> QED BY <2>1, <1>5 DEF ReaderInv, CompleteInv
<1> QED BY <1>3, <1>7, <1>8, <1>9, <1>10 DEF ReaderInv

\* A new reader has the files that intersect its range before it.
LEMMA ReaderStarts ==
  ASSUME NEW files, files \in [DOMAIN files -> File],
         NEW kind \in {"emit", "time", "push"}, NEW tr \in Ranges, NEW slack \in Nat,
         NEW due \in SUBSET Record, \A x \in due : Stored(files, x)
  PROVE  ReaderInv(files,
           [status |-> "open", kind |-> kind, batches |-> {},
            r |-> NewReader(FilterFiles(files, tr), tr, slack), due |-> due], <<>>)
<1> DEFINE fs == FilterFiles(files, tr)
<1> DEFINE r == NewReader(fs, tr, slack)
<1> DEFINE rd == [status |-> "open", kind |-> kind, batches |-> {}, r |-> r, due |-> due]
<1> DEFINE o == <<>>
<1>1. fs \in SUBSET DOMAIN files
  BY DEF FilterFiles
<1>2. o \in Seq(Emissions) /\ DOMAIN o = {}
  <2>1. <<>> \in Seq(Emissions) /\ Len(<<>>) = 0
    BY EmptySeq
  <2>2. DOMAIN <<>> = 1 .. 0
    BY <2>1, LenProperties
  <2> QED BY <2>1, <2>2
<1>3. <<>> \in Stamps
  <2>1. <<>> \in Seq(Nat) /\ Len(<<>>) = 0
    BY EmptySeq
  <2>2. <<>> \in [1 .. 0 -> Nat] /\ 1 .. 0 = {}
    BY <2>1, LenProperties
  <2>3. {} \in SUBSET Keys
    OBVIOUS
  <2> QED BY <2>2, <2>3 DEF Stamps
<1>4. /\ r.src.unstarted = fs /\ r.src.active = {} /\ r.tr = tr /\ r.ahead = {}
      /\ r.stamps = <<>> /\ r.first = TRUE /\ r.last = FALSE
  BY DEF NewReader, NewSource
<1>5. r \in Transformations(files)
  BY <1>1, <1>3 DEF NewReader, NewSource, Transformations, Sources
<1> HIDE DEF r, fs
<1>6. rd \in ReadersOf(files)
  BY <1>5 DEF ReadersOf
<1>7. /\ rd.status = "open" /\ rd.kind = kind /\ rd.batches = {} /\ rd.r = r /\ rd.due = due
  OBVIOUS
<1> HIDE DEF rd, o
<1>8. TransformationInv(files, rd.r)
  <2>1. DOMAIN r.stamps = {}
    BY <1>2, <1>4 DEF o
  <2> QED BY <2>1, <1>4, <1>7
          DEF TransformationInv, SourceInv, AheadInv, StampsInv
<1>9. OrderInv(files, rd, o) /\ GridInv(rd, o)
  BY <1>2, <1>4, <1>7 DEF OrderInv, GridInv, o
<1>10. CompleteInv(files, rd, o)
  <2>1. ASSUME NEW x \in due, OwedTo(rd, o, x.tp) PROVE Pending(files, rd, x)
    <3>1. PICK f \in DOMAIN files : x \in files[f].recs
      BY DEF Stored
    <3>2. InRange(x.tp, tr)
      BY <2>1, <1>4, <1>7 DEF OwedTo
    <3>3. /\ files[f].begin \in Nat /\ files[f].end \in Nat /\ x.tp \in Nat
          /\ files[f].begin <= x.tp /\ x.tp <= files[f].end
      BY <3>1, FileTimes
    <3>4. tr.begin \subseteq Nat /\ tr.end \subseteq Nat
      BY DEF Ranges, OptionalTime
    <3>5. f \in fs
      BY <3>2, <3>3, <3>4 DEF fs, FilterFiles, InRange
    <3> QED BY <3>1, <3>5, <1>4, <1>7 DEF Pending, HeldBy
  <2> QED BY <2>1, <1>7 DEF CompleteInv
<1>11. ReaderInv(files, rd, o)
  BY <1>2, <1>4, <1>6, <1>7, <1>8, <1>9, <1>10 DEF ReaderInv
<1> QED BY <1>11 DEF rd, o, r, fs

-----------------------------------------------------------------------------
(***************************************************************************)
(* The directory.                                                          *)
(***************************************************************************)
\* The files that a history sees of a directory.
LEMMA FilesAre ==
  ASSUME NEW d, d \in [DOMAIN d -> File], IsFiniteSet(DOMAIN d),
         NEW fs \in SUBSET DOMAIN d, NEW files, files = [n \in fs |-> d[n]]
  PROVE  /\ DOMAIN files = fs /\ IsFiniteSet(DOMAIN files)
         /\ files \in [DOMAIN files -> File]
         /\ \A n \in fs : files[n] = d[n]
<1>1. DOMAIN files = fs /\ \A n \in fs : files[n] = d[n]
  OBVIOUS
<1>2. IsFiniteSet(fs)
  BY FS_Subset
<1>3. \A n \in fs : d[n] \in File
  OBVIOUS
<1> QED BY <1>1, <1>2, <1>3

LEMMA WithIs ==
  ASSUME NEW d, d \in [DOMAIN d -> File], IsFiniteSet(DOMAIN d), NEW n, NEW f \in File
  PROVE  /\ With(d, n, f) \in [DOMAIN d \union {n} -> File]
         /\ IsFiniteSet(DOMAIN d \union {n})
<1>1. IsFiniteSet(DOMAIN d \union {n})
  BY FS_AddElement
<1>2. \A m \in DOMAIN d : d[m] \in File
  OBVIOUS
<1> QED BY <1>1, <1>2 DEF With

LEMMA WithHas ==
  ASSUME NEW d, NEW n, NEW f
  PROVE  /\ With(d, n, f)[n] = f
         /\ \A m \in DOMAIN d : m # n => With(d, n, f)[m] = d[m]
BY DEF With

LEMMA NewFiles ==
  ASSUME NEW tp \in Nat
  PROVE  EmptyFile \in File /\ NewListFile(tp) \in File
<1>1. IsFiniteSet({})
  BY FS_EmptySet
<1> QED BY <1>1 DEF EmptyFile, NewListFile, File

\* A record later than those of a file goes to its end.
LEMMA AppendedIs ==
  ASSUME NEW f \in File, f.valid, NEW r \in Record, f.end <= r.tp,
         NEW g, g = Appended(f, r)
  PROVE  /\ g \in File /\ g.begin = f.begin /\ g.end = r.tp
         /\ g.recs = f.recs \union {r} /\ g.valid = TRUE
<1>1. /\ f.begin \in Nat /\ f.end \in Nat /\ f.begin <= f.end /\ IsFiniteSet(f.recs)
      /\ f.recs \in SUBSET Record /\ f.owner \in BOOLEAN
      /\ \A x \in f.recs : f.begin <= x.tp /\ x.tp <= f.end
      /\ r.tp \in Nat
  BY DEF File, Record
<1>2. f.begin <= r.tp
  BY <1>1
<1>3. Min({f.begin, r.tp}) = f.begin
  <2>1. {f.begin, r.tp} \in SUBSET Nat /\ {f.begin, r.tp} # {}
    BY <1>1
  <2>2. /\ Min({f.begin, r.tp}) \in {f.begin, r.tp}
        /\ \A t \in {f.begin, r.tp} : Min({f.begin, r.tp}) <= t
    BY <2>1, LeastTime
  <2> QED BY <2>2, <1>1, <1>2
<1>4. Max({f.end, r.tp}) = r.tp
  <2>1. /\ {f.end, r.tp} \in SUBSET Nat /\ {f.end, r.tp} # {}
        /\ \A t \in {f.end, r.tp} : t <= r.tp
    BY <1>1
  <2>2. /\ Max({f.end, r.tp}) \in {f.end, r.tp}
        /\ \A t \in {f.end, r.tp} : t <= Max({f.end, r.tp})
    BY <2>1, <1>1, GreatestTime
  <2> QED BY <2>2, <1>1
<1>5. g = [begin |-> f.begin, end |-> r.tp, recs |-> f.recs \union {r},
           valid |-> f.valid, owner |-> f.owner]
  <2>1. g = [f EXCEPT !.recs = f.recs \union {r}, !.begin = f.begin, !.end = r.tp]
    BY <1>3, <1>4 DEF Appended
  <2>2. f \in [begin : Nat, end : Nat, recs : SUBSET Record, valid : BOOLEAN, owner : BOOLEAN]
    BY DEF File
  <2> QED BY <2>1, <2>2
<1>6. f.valid = TRUE
  BY DEF File
<1>7. IsFiniteSet(f.recs \union {r})
  BY <1>1, FS_AddElement
<1>8. \A x \in f.recs \union {r} : x \in Record /\ f.begin <= x.tp /\ x.tp <= r.tp
  <2> SUFFICES ASSUME NEW x \in f.recs \union {r}
               PROVE  x \in Record /\ f.begin <= x.tp /\ x.tp <= r.tp
    OBVIOUS
  <2>1. CASE x \in f.recs
    <3>1. x \in Record /\ x.tp \in Nat
      BY <1>1, <2>1 DEF Record
    <3> QED BY <3>1, <2>1, <1>1
  <2>2. CASE x = r
    BY <2>2, <1>1, <1>2
  <2> QED BY <2>1, <2>2
<1>9. g \in File
  BY <1>1, <1>2, <1>5, <1>6, <1>7, <1>8 DEF File
<1> QED BY <1>5, <1>6, <1>9

\* The name of a new file is one that no file has.
LEMMA FreshNameIs ==
  ASSUME NEW tp \in Nat, ~Exists(decide_fname_(tp))
  PROVE  FreshName(tp) \notin DOMAIN disk
<1> DEFINE base == decide_fname_(tp)
<1> DEFINE free == {i \in 0 .. SuffixTries - 1 : ~Exists(<<base[1], i>>)}
<1>1. CASE free = {}
  BY <1>1 DEF FreshName, Exists
<1>2. CASE free # {}
  <2>1. free \in SUBSET Nat
    BY HistoryAssumption
  <2>2. Min(free) \in free
    <3> HIDE DEF free
    <3> QED BY <2>1, <1>2, LeastTime
  <2>3. FreshName(tp) = <<base[1], Min(free)>>
    BY <1>2 DEF FreshName
  <2> QED BY <2>2, <2>3 DEF Exists
<1> QED BY <1>1, <1>2

-----------------------------------------------------------------------------
(***************************************************************************)
(* A push.                                                                 *)
(***************************************************************************)
\* What a push leaves of what there was.
Grows ==
  /\ DiskInv' /\ HistInv'
  /\ DOMAIN disk \subseteq DOMAIN disk' /\ hist.files \subseteq hist'.files
  /\ \A n \in DOMAIN disk : /\ disk'[n].begin = disk[n].begin
                            /\ disk[n].recs \subseteq disk'[n].recs

LEMMA PushGrows ==
  ASSUME DiskInv, HistInv, Push
  PROVE  Grows
<1>1. PICK tp \in now + 1 .. MaxTime, ks \in Pushes :
        LET r == [tp |-> tp, keys |-> ks, between |-> {}]
        IN /\ now' = tp
           /\ PushBack(r) \/ StartAndPush(r) \/ StartFails(r) \/ PushThrows(r)
  BY DEF Push
<1> DEFINE r == [tp |-> tp, keys |-> ks, between |-> {}]
<1>2. tp \in Nat /\ now \in Nat /\ now < tp /\ r \in Record /\ r.tp = tp /\ now' = tp
  BY <1>1, HistoryAssumption, PushesAssumption DEF DiskInv, Record
<1> HIDE DEF r
<1>3. reader' = reader
  BY DEF Push
<1>4. /\ IsFiniteSet(DOMAIN disk) /\ disk \in [DOMAIN disk -> File]
      /\ \A n \in DOMAIN disk : disk[n].end <= now /\ disk[n].end \in Nat
  <2>1. disk \in [DOMAIN disk -> File]
    BY DEF DiskInv
  <2> QED BY <2>1, FileTimes DEF DiskInv
<1>5. /\ hist.up \in BOOLEAN /\ hist.writable \in BOOLEAN
      /\ hist.files \in SUBSET DOMAIN disk /\ hist.writeFile \in SUBSET hist.files
      /\ \A n \in hist.files : disk[n].valid
      /\ hist \in [up : BOOLEAN, writable : BOOLEAN, files : SUBSET DOMAIN disk,
                   writeFile : SUBSET DOMAIN disk]
  BY DEF HistInv
<1>6. CASE PushBack(r)
  <2>1. PICK w \in hist.writeFile : disk' = [disk EXCEPT ![w] = Appended(@, r)]
    BY <1>6 DEF PushBack
  <2>2. hist.up /\ hist' = hist
    BY <1>6 DEF PushBack
  <2>3. w \in DOMAIN disk /\ disk[w] \in File /\ disk[w].valid /\ disk[w].end <= r.tp
    BY <1>2, <1>4, <1>5
  <2> DEFINE g == Appended(disk[w], r)
  <2>4. /\ g \in File /\ g.begin = disk[w].begin /\ g.end = r.tp
        /\ g.recs = disk[w].recs \union {r} /\ g.valid = TRUE
    <3> DEFINE f == disk[w]
    <3>1. f \in File /\ f.valid /\ f.end <= r.tp /\ g = Appended(f, r)
      BY <2>3
    <3>2. f.begin = disk[w].begin /\ f.recs = disk[w].recs
      OBVIOUS
    <3> HIDE DEF f, g
    <3>3. g \in File /\ g.begin = f.begin
      BY <3>1, <1>2, AppendedIs
    <3>4. g.end = r.tp /\ g.recs = f.recs \union {r} /\ g.valid = TRUE
      BY <3>1, <1>2, AppendedIs
    <3> QED BY <3>2, <3>3, <3>4
  <2>5. /\ DOMAIN disk' = DOMAIN disk /\ disk'[w] = g
        /\ \A n \in DOMAIN disk : n # w => disk'[n] = disk[n]
        /\ disk' = [disk EXCEPT ![w] = g]
    BY <2>1, <2>3
  <2> HIDE DEF g
  <2>6. disk' \in [DOMAIN disk' -> File]
    BY <2>4, <2>5, <1>4
  <2>7. \A n \in DOMAIN disk' : disk'[n].end <= now'
    <3> SUFFICES ASSUME NEW n \in DOMAIN disk' PROVE disk'[n].end <= now'
      OBVIOUS
    <3>1. CASE n = w
      BY <3>1, <2>4, <2>5, <1>2
    <3>2. CASE n # w
      BY <3>2, <2>5, <1>2, <1>4
    <3> QED BY <3>1, <3>2
  <2>8. DiskInv'
    BY <2>5, <2>6, <2>7, <1>2, <1>4 DEF DiskInv
  <2>9. HistInv'
    <3>1. \A n \in DOMAIN disk : n \in hist.files \/ disk[n].recs = {}
      BY <2>2 DEF HistInv
    <3>2. \A n \in DOMAIN disk' : n \in hist.files \/ disk'[n].recs = {}
      BY <3>1, <2>5, <1>5
    <3>3. \A n \in hist.files : disk'[n].valid
      BY <2>4, <2>5, <1>5
    <3> QED BY <3>2, <3>3, <2>2, <2>5, <1>5 DEF HistInv
  <2> QED BY <2>2, <2>4, <2>5, <2>8, <2>9 DEF Grows
<1>7. CASE StartAndPush(r)
  <2> DEFINE base == decide_fname_(tp)
  <2> DEFINE name == FreshName(tp)
  <2> DEFINE d == With(disk, base, EmptyFile)
  <2> DEFINE g == Appended(NewListFile(tp), r)
  <2>1. /\ hist.up /\ ~Exists(base) /\ disk' = With(d, name, g)
        /\ hist' = [hist EXCEPT !.files = @ \union {name}, !.writeFile = {name}]
    BY <1>2, <1>7 DEF StartAndPush
  <2>2. base \notin DOMAIN disk /\ name \notin DOMAIN disk
    BY <2>1, <1>2, FreshNameIs DEF Exists
  <2>3. EmptyFile \in File /\ NewListFile(tp) \in File
    BY <1>2, NewFiles
  <2>4. g \in File /\ g.end = tp /\ g.valid = TRUE
    <3>1. NewListFile(tp).valid /\ NewListFile(tp).end <= r.tp
      BY <1>2 DEF NewListFile
    <3> HIDE DEF g
    <3> QED BY <3>1, <2>3, <1>2, AppendedIs DEF g
  <2> HIDE DEF base, name, g
  <2>5. /\ DOMAIN d = DOMAIN disk \union {base} /\ IsFiniteSet(DOMAIN d)
        /\ d \in [DOMAIN d -> File] /\ d[base] = EmptyFile
        /\ \A m \in DOMAIN disk : m # base => d[m] = disk[m]
    <3>1. d \in [DOMAIN disk \union {base} -> File] /\ IsFiniteSet(DOMAIN disk \union {base})
      BY <2>3, <1>4, WithIs
    <3>2. d[base] = EmptyFile /\ \A m \in DOMAIN disk : m # base => d[m] = disk[m]
      BY WithHas
    <3> HIDE DEF d
    <3> QED BY <3>1, <3>2
  <2> HIDE DEF d
  <2>6. /\ DOMAIN disk' = DOMAIN d \union {name} /\ IsFiniteSet(DOMAIN disk')
        /\ disk' \in [DOMAIN disk' -> File] /\ disk'[name] = g
        /\ \A m \in DOMAIN d : m # name => disk'[m] = d[m]
    <3>1. /\ disk' \in [DOMAIN d \union {name} -> File]
          /\ IsFiniteSet(DOMAIN d \union {name})
      BY <2>1, <2>4, <2>5, WithIs
    <3>2. disk'[name] = g /\ \A m \in DOMAIN d : m # name => disk'[m] = d[m]
      BY <2>1, WithHas
    <3> QED BY <3>1, <3>2
  <2>7. \A m \in DOMAIN disk : m \in DOMAIN disk' /\ disk'[m] = disk[m]
    BY <2>2, <2>5, <2>6
  <2>8. \A m \in DOMAIN disk' : \/ m \in DOMAIN disk /\ disk'[m] = disk[m]
                                \/ m = name /\ disk'[m] = g
                                \/ m = base /\ disk'[m] = EmptyFile
    BY <2>2, <2>5, <2>6
  <2>9. DiskInv'
    <3>1. EmptyFile.end = 0
      BY DEF EmptyFile
    <3>2. \A m \in DOMAIN disk' : disk'[m].end <= now'
      <4> SUFFICES ASSUME NEW m \in DOMAIN disk' PROVE disk'[m].end <= now'
        OBVIOUS
      <4>1. CASE m \in DOMAIN disk /\ disk'[m] = disk[m]
        BY <4>1, <1>2, <1>4
      <4>2. CASE m = name /\ disk'[m] = g
        BY <4>2, <2>4, <1>2
      <4>3. CASE m = base /\ disk'[m] = EmptyFile
        BY <4>3, <3>1, <1>2
      <4> QED BY <4>1, <4>2, <4>3, <2>8
    <3> QED BY <3>2, <2>6, <1>2 DEF DiskInv
  <2>10. /\ hist'.up = hist.up /\ hist'.writable = hist.writable
         /\ hist'.files = hist.files \union {name} /\ hist'.writeFile = {name}
         /\ hist' \in [up : BOOLEAN, writable : BOOLEAN, files : SUBSET DOMAIN disk',
                       writeFile : SUBSET DOMAIN disk']
    BY <2>1, <2>6, <2>7, <1>5
  <2>11. HistInv'
    <3>1. \A n \in DOMAIN disk : n \in hist.files \/ disk[n].recs = {}
      BY <2>1 DEF HistInv
    <3>2. EmptyFile.recs = {}
      BY DEF EmptyFile
    <3>3. \A n \in DOMAIN disk' : n \in hist'.files \/ disk'[n].recs = {}
      BY <3>1, <3>2, <2>8, <2>10
    <3>4. \A n \in hist'.files : disk'[n].valid
      BY <2>4, <2>6, <2>7, <2>10, <1>5
    <3> QED BY <3>3, <3>4, <2>1, <2>10 DEF HistInv
  <2> QED BY <2>7, <2>9, <2>10, <2>11 DEF Grows
<1>8. CASE StartFails(r)
  <2> DEFINE base == decide_fname_(tp)
  <2>1. /\ hist.up /\ base \notin DOMAIN disk /\ hist' = hist
        /\ disk' = disk \/ disk' = With(disk, base, EmptyFile)
    BY <1>2, <1>8 DEF StartFails, Exists
  <2>2. EmptyFile \in File /\ EmptyFile.end = 0 /\ EmptyFile.recs = {}
    BY <1>2, NewFiles DEF EmptyFile
  <2> HIDE DEF base
  <2>3. /\ DOMAIN disk \subseteq DOMAIN disk' /\ IsFiniteSet(DOMAIN disk')
        /\ disk' \in [DOMAIN disk' -> File]
        /\ \A m \in DOMAIN disk : disk'[m] = disk[m]
        /\ \A m \in DOMAIN disk' : m \in DOMAIN disk \/ disk'[m] = EmptyFile
    <3>1. CASE disk' = disk
      BY <3>1, <1>4
    <3>2. CASE disk' = With(disk, base, EmptyFile)
      <4>1. /\ DOMAIN disk' = DOMAIN disk \union {base} /\ IsFiniteSet(DOMAIN disk')
            /\ disk' \in [DOMAIN disk' -> File] /\ disk'[base] = EmptyFile
            /\ \A m \in DOMAIN disk : m # base => disk'[m] = disk[m]
        <5>1. /\ disk' \in [DOMAIN disk \union {base} -> File]
              /\ IsFiniteSet(DOMAIN disk \union {base})
          BY <3>2, <2>2, <1>4, WithIs
        <5>2. /\ disk'[base] = EmptyFile
              /\ \A m \in DOMAIN disk : m # base => disk'[m] = disk[m]
          BY <3>2, WithHas
        <5> QED BY <5>1, <5>2
      <4> QED BY <4>1, <2>1
    <3> QED BY <3>1, <3>2, <2>1
  <2>4. DiskInv'
    <3>1. \A m \in DOMAIN disk' : disk'[m].end <= now'
      <4> SUFFICES ASSUME NEW m \in DOMAIN disk' PROVE disk'[m].end <= now'
        OBVIOUS
      <4>1. CASE m \in DOMAIN disk
        BY <4>1, <2>3, <1>2, <1>4
      <4>2. CASE disk'[m] = EmptyFile
        BY <4>2, <2>2, <1>2
      <4> QED BY <4>1, <4>2, <2>3
    <3> QED BY <3>1, <2>3, <1>2 DEF DiskInv
  <2>5. HistInv'
    <3>1. \A n \in DOMAIN disk : n \in hist.files \/ disk[n].recs = {}
      BY <2>1 DEF HistInv
    <3>2. \A n \in DOMAIN disk' : n \in hist.files \/ disk'[n].recs = {}
      BY <3>1, <2>2, <2>3
    <3>3. hist' \in [up : BOOLEAN, writable : BOOLEAN, files : SUBSET DOMAIN disk',
                     writeFile : SUBSET DOMAIN disk']
      BY <2>1, <2>3, <1>5
    <3>4. \A n \in hist.files : disk'[n].valid
      BY <2>3, <1>5
    <3> QED BY <3>2, <3>3, <3>4, <2>1, <1>5 DEF HistInv
  <2> QED BY <2>1, <2>3, <2>4, <2>5 DEF Grows
<1>9. CASE PushThrows(r)
  <2>1. disk' = disk /\ hist' = hist
    BY <1>9 DEF PushThrows
  <2>2. DiskInv'
    BY <2>1, <1>2, <1>4 DEF DiskInv
  <2>3. HistInv'
    BY <2>1, <1>3 DEF HistInv
  <2> QED BY <2>1, <2>2, <2>3 DEF Grows
<1> QED BY <1>1, <1>6, <1>7, <1>8, <1>9 DEF r

-----------------------------------------------------------------------------
(***************************************************************************)
(* The invariant holds.                                                    *)
(***************************************************************************)
LEMMA InitInv == Init => Inv
<1> SUFFICES ASSUME Init PROVE Inv
  OBVIOUS
<1>1. /\ IsFiniteSet(DOMAIN disk) /\ disk \in [DOMAIN disk -> File]
      /\ hist = Closed /\ reader = NoReader
      /\ now = Max({0} \union {disk[n].end : n \in DOMAIN disk})
  BY DisksAssumption DEF Init
<1>2. DiskInv
  <2> DEFINE ends == {disk[n].end : n \in DOMAIN disk}
  <2> DEFINE S == {0} \union ends
  <2>1. \A n \in DOMAIN disk : disk[n].end \in Nat
    BY <1>1, FileTimes
  <2>2. S \in SUBSET Nat /\ S \in SUBSET Int /\ 0 \in S
    BY <2>1
  <2>3. IsFiniteSet(ends)
    <3> DEFINE f == [n \in DOMAIN disk |-> disk[n].end]
    <3>1. f \in Surjection(DOMAIN disk, ends)
      BY DEF Surjection
    <3> HIDE DEF f, ends
    <3> QED BY <3>1, <1>1, FS_Surjection
  <2>4. IsFiniteSet(S)
    <3>1. S = ends \union {0}
      OBVIOUS
    <3> HIDE DEF S, ends
    <3> QED BY <3>1, <2>3, FS_AddElement
  <2>5. now \in S /\ \A t \in S : t <= now
    <3>1. now = Max(S)
      BY <1>1
    <3> HIDE DEF S
    <3>2. PICK m \in S : \A t \in S : t <= m
      BY <2>2, <2>4, FiniteMax
    <3>3. m \in Nat
      BY <2>2
    <3> QED BY <3>1, <3>2, <3>3, <2>2, GreatestTime
  <2>6. \A n \in DOMAIN disk : disk[n].end \in S
    OBVIOUS
  <2> HIDE DEF S, ends
  <2> QED BY <2>2, <2>5, <2>6, <1>1 DEF DiskInv
<1>3. HistInv
  BY <1>1 DEF HistInv, Closed
<1> QED BY <1>1, <1>2, <1>3 DEF Inv

\* A step of the reader alone.
LEMMA ReaderStep ==
  ASSUME Inv, hist.up, UNCHANGED <<disk, hist, now>>,
         reader' # NoReader => ReaderInv(Files, reader', out')
  PROVE  Inv'
<1>1. DiskInv' /\ HistInv'
  BY DEF Inv, DiskInv, HistInv
<1>2. Files' = Files
  BY DEF Files
<1> QED BY <1>1, <1>2 DEF Inv

LEMMA NextInv == Inv /\ [Next]_vars => Inv'
<1> SUFFICES ASSUME Inv, [Next]_vars PROVE Inv'
  OBVIOUS
<1>1. /\ IsFiniteSet(DOMAIN disk) /\ disk \in [DOMAIN disk -> File]
      /\ hist.files \in SUBSET DOMAIN disk
      /\ ~hist.up => hist.files = {} /\ reader = NoReader
  BY DEF Inv, DiskInv, HistInv
<1>2. /\ DOMAIN Files = hist.files /\ IsFiniteSet(DOMAIN Files)
      /\ Files \in [DOMAIN Files -> File]
      /\ \A n \in hist.files : Files[n] = disk[n]
  BY <1>1, FilesAre DEF Files
<1>3. CASE UNCHANGED vars
  BY <1>3 DEF vars, Inv, DiskInv, HistInv, Files
<1>4. ASSUME NEW write \in BOOLEAN, Open(write) PROVE Inv'
  <2>1. /\ ~hist.up /\ reader = NoReader /\ reader' = NoReader
        /\ disk' = disk /\ now' = now
    BY <1>1, <1>4 DEF Open
  <2>2. DiskInv'
    BY <2>1 DEF Inv, DiskInv
  <2>3. CASE UNCHANGED hist
    <3>1. HistInv'
      BY <2>1, <2>3 DEF Inv, HistInv
    <3> QED BY <3>1, <2>1, <2>2 DEF Inv
  <2>4. CASE ~(\E n \in DOMAIN disk : ~disk[n].valid) /\
             \E w \in SUBSET WriteCandidates(write) :
               hist' = [up |-> TRUE, writable |-> write, files |-> DOMAIN disk, writeFile |-> w]
    <3>1. PICK w \in SUBSET WriteCandidates(write) :
            hist' = [up |-> TRUE, writable |-> write, files |-> DOMAIN disk, writeFile |-> w]
      BY <2>4
    <3>2. w \in SUBSET DOMAIN disk
      BY DEF WriteCandidates
    <3>3. HistInv'
      BY <3>1, <3>2, <2>1, <2>4 DEF HistInv
    <3> QED BY <3>3, <2>1, <2>2 DEF Inv
  <2> QED BY <2>3, <2>4, <1>4 DEF Open
<1>5. CASE Close
  <2>1. /\ hist' = Closed /\ reader' = NoReader /\ disk' = disk /\ now' = now
    BY <1>5 DEF Close
  <2>2. DiskInv' /\ HistInv'
    BY <2>1 DEF Inv, DiskInv, HistInv, Closed
  <2> QED BY <2>1, <2>2 DEF Inv
<1>6. CASE CleanUp
  <2>1. /\ ~hist.up /\ reader = NoReader /\ reader' = NoReader /\ hist' = hist /\ now' = now
        /\ hist.files = {}
        /\ disk' = [n \in {m \in DOMAIN disk : disk[m].valid} |-> disk[n]]
    BY <1>1, <1>6 DEF CleanUp
  <2> DEFINE kept == {m \in DOMAIN disk : disk[m].valid}
  <2>2. kept \in SUBSET DOMAIN disk /\ disk' = [n \in kept |-> disk[n]]
    BY <2>1
  <2>3. /\ DOMAIN disk' = kept /\ IsFiniteSet(DOMAIN disk')
        /\ disk' \in [DOMAIN disk' -> File]
        /\ \A n \in kept : disk'[n] = disk[n]
    <3> HIDE DEF kept
    <3> QED BY <2>2, <1>1, FilesAre
  <2> HIDE DEF kept
  <2>4. DiskInv'
    BY <2>1, <2>2, <2>3 DEF Inv, DiskInv
  <2>5. HistInv'
    BY <2>1 DEF Inv, HistInv
  <2> QED BY <2>1, <2>4, <2>5 DEF Inv
<1>7. CASE Push
  <2>1. Grows
    BY <1>7, PushGrows DEF Inv
  <2>2. reader' = reader /\ out' = out
    BY <1>7 DEF Push
  <2>3. ASSUME reader # NoReader PROVE ReaderInv(Files', reader, out)
    <3>1. ReaderInv(Files, reader, out)
      BY <2>3 DEF Inv
    <3>2. /\ IsFiniteSet(DOMAIN disk') /\ disk' \in [DOMAIN disk' -> File]
          /\ hist'.files \in SUBSET DOMAIN disk'
      BY <2>1 DEF Grows, DiskInv, HistInv
    <3>3. /\ DOMAIN Files' = hist'.files
          /\ Files' \in [DOMAIN Files' -> File]
          /\ \A n \in hist'.files : Files'[n] = disk'[n]
      BY <3>2, FilesAre DEF Files
    <3>4. /\ DOMAIN Files \subseteq DOMAIN Files'
          /\ \A n \in DOMAIN Files : /\ Files'[n].begin = Files[n].begin
                                     /\ Files[n].recs \subseteq Files'[n].recs
      BY <3>3, <2>1, <1>1, <1>2 DEF Grows
    <3> QED BY <3>1, <3>3, <3>4, FilesGrow
  <2> QED BY <2>1, <2>2, <2>3 DEF Grows, Inv
<1>8. ASSUME NEW q \in Readers, MakeReader(q) PROVE Inv'
  <2>1. /\ hist.up /\ out' = <<>> /\ UNCHANGED <<disk, hist, now>>
        /\ reader' = [status |-> "open", kind |-> q.kind, batches |-> {},
                      r |-> NewReader(FilterFiles(Files, q.tr), q.tr, q.slack),
                      due |-> Recorded]
    BY <1>8 DEF MakeReader
  <2>2. q.kind \in {"emit", "time", "push"} /\ q.tr \in Ranges /\ q.slack \in Nat
    BY ReadersAssumption DEF Ranges
  <2>3. Recorded \in SUBSET Record
    <3>1. \A n \in DOMAIN disk : disk[n].recs \in SUBSET Record
      BY <1>1, FileTimes
    <3> QED BY <3>1 DEF Recorded
  <2>4. \A x \in Recorded : Stored(Files, x)
    <3>1. \A n \in DOMAIN disk : n \in hist.files \/ disk[n].recs = {}
      BY <2>1 DEF Inv, HistInv
    <3> QED BY <3>1, <1>2 DEF Recorded, Stored
  <2>5. ReaderInv(Files, reader', out')
    BY <2>1, <2>2, <2>3, <2>4, <1>2, ReaderStarts
  <2> QED BY <2>1, <2>5, ReaderStep
<1>9. ASSUME PullTime \/ PullEmit \/ SinkInto \/ EmitBatch
      PROVE  /\ hist.up /\ UNCHANGED <<disk, hist, now>>
             /\ ReaderInv(Files, reader, out)
  <2>1. reader.status \in {"open", "batches"} /\ UNCHANGED <<disk, hist, now>>
    BY <1>9 DEF PullTime, PullEmit, SinkInto, EmitBatch, Reads
  <2>2. reader # NoReader
    BY <2>1 DEF NoReader
  <2> QED BY <2>1, <2>2, <1>1 DEF Inv
<1>10. ASSUME NEW st \in {"closed", "undefined"}, Leaves(st),
              ReaderInv(Files, reader, out), hist.up, UNCHANGED <<disk, hist, now>>,
              st = "closed" => \A x \in reader.due :
                OwedTo(reader, out, x.tp) => HasEmitted(reader, out, x)
       PROVE  Inv'
  <2>1. reader' = [reader EXCEPT !.status = st] /\ out' = out
    BY <1>10 DEF Leaves
  <2>2. ReaderInv(Files, reader', out')
    BY <2>1, <1>10, EndsSoundly
  <2> QED BY <2>2, <1>10, ReaderStep
<1>11. CASE PullTime
  <2>1. /\ hist.up /\ UNCHANGED <<disk, hist, now>> /\ ReaderInv(Files, reader, out)
        /\ reader.status = "open" /\ reader.kind = "time"
    BY <1>9, <1>11 DEF PullTime, Reads
  <2> DEFINE w == Wait(Files, reader.r.tr, reader.r.src)
  <2>2. CASE ~IsPullable(reader.r.src) /\ Leaves("closed")
    BY <2>1, <2>2, <1>10, NoTimeOwed
  <2>3. CASE Leaves("undefined")
    BY <2>1, <2>3, <1>10
  <2>4. CASE /\ w.active # {} /\ out' = Append(out, FrontOf(w.active))
             /\ reader' = [reader EXCEPT !.r.src = PopFront(w)]
    <3>1. ReaderInv(Files, reader', out')
      BY <2>1, <2>4, <1>2, PullTimeStep
    <3> QED BY <3>1, <2>1, ReaderStep
  <2> HIDE DEF w
  <2> QED BY <1>11, <2>2, <2>3, <2>4 DEF PullTime, w
<1>12. CASE PullEmit
  <2>1. /\ hist.up /\ UNCHANGED <<disk, hist, now>> /\ ReaderInv(Files, reader, out)
        /\ reader.status = "open" /\ reader.kind = "emit"
    BY <1>9, <1>12 DEF PullEmit, Reads
  <2> DEFINE s == Starts(Files, reader.r)
  <2> DEFINE f == Fill(Files, s)
  <2> DEFINE past == \E e \in s.tr.end : s.emitTp > e
  <2>2. CASE NothingLeft(reader.r) /\ Leaves("closed")
    BY <2>1, <2>2, <1>10, NothingOwed
  <2>3. CASE Leaves("undefined")
    BY <2>1, <2>3, <1>10
  <2>4. CASE /\ ~NothingLeft(reader.r)
             /\ AsksSource(reader.r) => ~RunsDry(Files, reader.r.tr, reader.r.src)
             /\ \/ past /\ Leaves("closed")
                \/ /\ ~past /\ ~f.dry
                   /\ out' = Append(out, f.out)
                   /\ reader' = [reader EXCEPT !.r = f.reader]
    <3>1. /\ past => \A x \in reader.due :
                       OwedTo(reader, out, x.tp) => HasEmitted(reader, out, x)
          /\ ~past /\ ~f.dry =>
               ReaderInv(Files, [reader EXCEPT !.r = f.reader], Append(out, f.out))
      BY <2>1, <2>4, <1>2, PullEmitStep
    <3>2. CASE past /\ Leaves("closed")
      BY <2>1, <3>1, <3>2, <1>10
    <3>3. CASE /\ ~past /\ ~f.dry
               /\ out' = Append(out, f.out)
               /\ reader' = [reader EXCEPT !.r = f.reader]
      <4>1. ReaderInv(Files, reader', out')
        BY <3>1, <3>3
      <4> QED BY <4>1, <2>1, ReaderStep
    <3> QED BY <2>4, <3>2, <3>3
  <2> QED BY <1>12, <2>2, <2>3, <2>4 DEF PullEmit
<1>13. CASE SinkInto
  <2>1. /\ hist.up /\ UNCHANGED <<disk, hist, now>> /\ ReaderInv(Files, reader, out)
        /\ reader.status = "open" /\ reader.kind = "push"
    BY <1>9, <1>13 DEF SinkInto, Reads
  <2>2. PICK list \in ByBegin(Files, reader.r.src.unstarted) :
          \/ Leaves("undefined")
          \/ /\ reader' = [reader EXCEPT !.status = "batches", !.batches = Batches(Files, list)]
             /\ UNCHANGED out
    BY <1>13 DEF SinkInto
  <2>3. CASE Leaves("undefined")
    BY <2>1, <2>3, <1>10
  <2>4. CASE /\ reader' = [reader EXCEPT !.status = "batches", !.batches = Batches(Files, list)]
             /\ UNCHANGED out
    <3>1. ReaderInv(Files, reader', out')
      BY <2>1, <2>4, <1>2, SinkIntoStep
    <3> QED BY <3>1, <2>1, ReaderStep
  <2> QED BY <2>2, <2>3, <2>4
<1>14. CASE EmitBatch
  <2>1. /\ hist.up /\ UNCHANGED <<disk, hist, now>> /\ ReaderInv(Files, reader, out)
        /\ reader.status = "batches"
    BY <1>9, <1>14 DEF EmitBatch
  <2>2. CASE reader.batches = {} /\ Leaves("closed")
    BY <2>1, <2>2, <1>10, NoBatchOwed
  <2>3. ASSUME NEW b \in reader.batches,
               NEW times \in InOrder(BatchTimes(Files, reader.r.tr, b[2])),
               out' = out \o Pushed(times),
               reader' = [reader EXCEPT !.batches = @ \ {b}]
        PROVE  Inv'
    <3>1. ReaderInv(Files, reader', out')
      BY <2>1, <2>3, <1>2, EmitBatchStep
    <3> QED BY <3>1, <2>1, ReaderStep
  <2> QED BY <1>14, <2>2, <2>3 DEF EmitBatch
<1> QED BY <1>3, <1>4, <1>5, <1>6, <1>7, <1>8, <1>11, <1>12, <1>13, <1>14 DEF Next

THEOREM HistoryInvariant == Spec => []Inv
BY InitInv, NextInv, PTL DEF Spec

-----------------------------------------------------------------------------
(***************************************************************************)
(* What follows from it.                                                   *)
(***************************************************************************)
LEMMA InvReader ==
  ASSUME Inv, reader.status # "none"
  PROVE  /\ ReaderInv(Files, reader, out)
         /\ DOMAIN Files = hist.files /\ hist.files \in SUBSET DOMAIN disk
         /\ Files \in [DOMAIN Files -> File]
         /\ \A n \in hist.files : Files[n] = disk[n]
<1>1. reader # NoReader
  BY DEF NoReader
<1>2. /\ IsFiniteSet(DOMAIN disk) /\ disk \in [DOMAIN disk -> File]
      /\ hist.files \in SUBSET DOMAIN disk
  BY DEF Inv, DiskInv, HistInv
<1>3. /\ DOMAIN Files = hist.files /\ Files \in [DOMAIN Files -> File]
      /\ \A n \in hist.files : Files[n] = disk[n]
  BY <1>2, FilesAre DEF Files
<1> QED BY <1>1, <1>2, <1>3 DEF Inv

\* Pulled records and points come in time order, also while the directory
\* grows, and no two batches push the same time (merge_emit_t,
\* transformation::fill_, sink_into_).
THEOREM InOrderAlways == Spec => []EmittedInOrder
<1>1. Inv => EmittedInOrder
  <2> SUFFICES ASSUME Inv, reader.status # "none", NEW i \in DOMAIN out, NEW j \in DOMAIN out,
                      i < j
               PROVE  IF reader.kind = "push" THEN out[i].tp # out[j].tp
                                              ELSE out[i].tp < out[j].tp
    BY DEF EmittedInOrder
  <2> QED BY InvReader DEF ReaderInv, OrderInv
<1> QED BY <1>1, HistoryInvariant, PTL

\* What lies between what two files have lies in the time of the history.
LEMMA HistoryCovers ==
  ASSUME DiskInv, hist.files \in SUBSET DOMAIN disk,
         NEW n \in hist.files, NEW m \in hist.files,
         NEW t \in Nat, disk[n].begin <= t, t <= disk[m].end
  PROVE  InRange(t, HistoryTime)
<1> DEFINE begins == {disk[f].begin : f \in hist.files}
<1> DEFINE ends == {disk[f].end : f \in hist.files}
<1>1. \A f \in hist.files : /\ disk[f].begin \in Nat /\ disk[f].end \in Nat
                            /\ disk[f].end <= now
  <2>1. disk \in [DOMAIN disk -> File]
    BY DEF DiskInv
  <2> QED BY <2>1, FileTimes DEF DiskInv
<1>2. begins \in SUBSET Nat /\ disk[n].begin \in begins
  BY <1>1
<1>3. ends \in SUBSET Nat /\ disk[m].end \in ends /\ \A e \in ends : e <= now
  BY <1>1
<1>4. HistoryTime = [begin |-> {Min(begins)}, end |-> {Max(ends)}]
  BY DEF HistoryTime
<1> HIDE DEF begins, ends
<1>5. Min(begins) \in Nat /\ Min(begins) <= t
  <2>1. Min(begins) \in begins /\ Min(begins) <= disk[n].begin
    BY <1>2, LeastTime
  <2> QED BY <2>1, <1>1, <1>2
<1>6. Max(ends) \in Nat /\ t <= Max(ends)
  <2>1. Max(ends) \in ends /\ disk[m].end <= Max(ends)
    BY <1>3, GreatestTime DEF DiskInv
  <2>2. Max(ends) \in Nat
    BY <2>1, <1>3
  <2>3. disk[m].end \in Nat /\ t <= disk[m].end
    BY <1>1
  <2> QED BY <2>1, <2>2, <2>3
<1>7. HistoryTime.begin = {Min(begins)} /\ HistoryTime.end = {Max(ends)}
  BY <1>4
<1> QED BY <1>5, <1>6, <1>7 DEF InRange

\* Nothing is made up: an emission lies in the range and in the time of the
\* history, its exact values were recorded at its time, and an interpolated
\* one lies between two recorded times of its key.
THEOREM SoundAlways == Spec => []EmissionsSound
<1>1. Inv => EmissionsSound
  <2> SUFFICES ASSUME Inv, reader.status # "none", NEW i \in DOMAIN out
               PROVE
      /\ InRange(out[i].tp, Tr)
      /\ InRange(out[i].tp, HistoryTime) \/ out[i].keys \union out[i].between = {}
      /\ \A k \in out[i].keys : \E x \in Recorded : x.tp = out[i].tp /\ k \in x.keys
      /\ \A b \in out[i].between :
           /\ b[2] < out[i].tp /\ out[i].tp < b[3]
           /\ \A t \in {b[2], b[3]} : \E x \in Recorded : x.tp = t /\ b[1] \in x.keys
      /\ reader.kind # "emit" => \E x \in Recorded : x.tp = out[i].tp
    BY DEF EmissionsSound
  <2> DEFINE e == out[i]
  <2>1. /\ ReaderInv(Files, reader, out)
        /\ DOMAIN Files = hist.files /\ hist.files \in SUBSET DOMAIN disk
        /\ Files \in [DOMAIN Files -> File]
        /\ \A n \in hist.files : Files[n] = disk[n]
    BY InvReader
  <2>2. OutputInv(Files, reader, e) /\ e \in Emissions
    <3>1. out \in Seq(Emissions)
      BY <2>1 DEF ReaderInv
    <3> QED BY <2>1, <3>1 DEF ReaderInv
  <2>3. e.tp \in Nat /\ e.between \in SUBSET (Keys \X Nat \X Nat)
    BY <2>2 DEF Emissions
  <2> HIDE DEF e
  <2>4. ASSUME NEW n \in hist.files, NEW x \in disk[n].recs
        PROVE  /\ x \in Recorded /\ x.tp \in Nat
               /\ disk[n].begin \in Nat /\ disk[n].end \in Nat
               /\ disk[n].begin <= x.tp /\ x.tp <= disk[n].end
    BY <2>1, FileTimes DEF Recorded
  <2>5. ASSUME NEW k, NEW t, Known(Files, k, t)
        PROVE  \E x \in Recorded : x.tp = t /\ k \in x.keys
    BY <2>1, <2>4, <2>5 DEF Known
  <2>6. reader.kind # "emit" => \E x \in Recorded : x.tp = e.tp
    BY <2>1, <2>2, <2>4 DEF OutputInv, RecordedAt
  <2>7. ASSUME NEW n \in hist.files, NEW m \in hist.files,
               disk[n].begin <= e.tp, e.tp <= disk[m].end
        PROVE  InRange(e.tp, HistoryTime)
    BY <2>1, <2>3, <2>7, HistoryCovers DEF Inv
  <2>8. ASSUME NEW k, NEW t, Known(Files, k, t)
        PROVE  \E n \in hist.files : /\ disk[n].begin \in Nat /\ disk[n].begin <= t
                                     /\ disk[n].end \in Nat /\ t <= disk[n].end
    <3>1. PICK n \in hist.files : \E x \in disk[n].recs : x.tp = t
      BY <2>1, <2>8 DEF Known
    <3> QED BY <3>1, <2>4
  <2>9. ASSUME NEW k \in e.keys PROVE InRange(e.tp, HistoryTime)
    <3>1. Known(Files, k, e.tp)
      BY <2>2 DEF OutputInv
    <3> QED BY <3>1, <2>7, <2>8
  <2>10. ASSUME NEW b \in e.between PROVE InRange(e.tp, HistoryTime)
    <3>1. /\ b[2] \in Nat /\ b[3] \in Nat /\ b[2] < e.tp /\ e.tp < b[3]
          /\ Known(Files, b[1], b[2]) /\ Known(Files, b[1], b[3])
      BY <2>2, <2>3 DEF OutputInv
    <3>2. PICK n \in hist.files : disk[n].begin \in Nat /\ disk[n].begin <= b[2]
      BY <3>1, <2>8
    <3>3. PICK m \in hist.files : disk[m].end \in Nat /\ b[3] <= disk[m].end
      BY <3>1, <2>8
    <3>4. disk[n].begin <= e.tp /\ e.tp <= disk[m].end
      BY <3>1, <3>2, <3>3, <2>3
    <3> QED BY <3>4, <2>7
  <2> QED BY <2>2, <2>5, <2>6, <2>9, <2>10 DEF OutputInv, e, Tr
<1> QED BY <1>1, HistoryInvariant, PTL

\* A reader that came to its end has emitted what was there when it was made,
\* whatever files overlap and whatever was pushed since.
THEOREM CompleteAlways == Spec => []ReadersComplete
<1>1. Inv => ReadersComplete
  <2> SUFFICES ASSUME Inv, reader.status = "closed", NEW x \in reader.due, Owed(x.tp)
               PROVE  \E i \in DOMAIN out :
                        /\ out[i].tp = x.tp
                        /\ reader.kind = "emit" => x.keys \subseteq out[i].keys
    BY DEF ReadersComplete
  <2>1. ReaderInv(Files, reader, out)
    BY InvReader
  <2>2. OwedTo(reader, out, x.tp)
    BY DEF Owed, OwedTo, Tr
  <2>3. HasEmitted(reader, out, x)
    BY <2>1, <2>2 DEF ReaderInv, CompleteInv, Pending
  <2> QED BY <2>3 DEF HasEmitted
<1> QED BY <1>1, HistoryInvariant, PTL

\* A push, the opening of the directory and its repair lose no record
\* (do_push_back_, maybe_start_new_file_).
THEOREM RecordsStayAlways == Spec => RecordsStay
<1>1. Inv /\ [Next]_vars => [RecordsKept]_vars
  <2> SUFFICES ASSUME Inv, [Next]_vars PROVE [RecordsKept]_vars
    OBVIOUS
  <2>1. CASE UNCHANGED vars
    BY <2>1
  <2>2. CASE Push
    <3>1. Grows
      BY <2>2, PushGrows DEF Inv
    <3> QED BY <3>1 DEF Grows, RecordsKept
  <2>3. CASE CleanUp
    <3>1. disk' = [n \in {m \in DOMAIN disk : disk[m].valid} |-> disk[n]]
      BY <2>3 DEF CleanUp
    <3>2. \A n \in DOMAIN disk : disk[n].recs # {} => disk[n].valid
      BY DEF Inv, DiskInv, File
    <3> QED BY <3>1, <3>2 DEF RecordsKept
  <2>4. CASE disk' = disk
    BY <2>4 DEF RecordsKept
  <2>5. \/ Push \/ CleanUp \/ disk' = disk
    BY DEF Next, Open, Close, MakeReader, PullTime, PullEmit, SinkInto, EmitBatch, vars
  <2> QED BY <2>2, <2>3, <2>4, <2>5
<1> QED BY <1>1, HistoryInvariant, PTL DEF Spec, RecordsStay

=============================================================================
