------------------------- MODULE ReplacementMapProofs -------------------------
(***************************************************************************)
(* Theorems about ReplacementMap, for every value of its constants.        *)
(***************************************************************************)
EXTENDS ReplacementMap, Integers, FiniteSetTheorems, SequenceTheorems, TLAPS

(***************************************************************************)
(* A finite set of integers has a least and a greatest element.            *)
(***************************************************************************)

\* Of the sets of elements below an element, which are ordered by inclusion,
\* a minimal one belongs to the least element.
LEMMA FiniteMin ==
  ASSUME NEW S \in SUBSET Int, IsFiniteSet(S), S # {}
  PROVE \E m \in S : \A n \in S : m <= n
<1>1. IsWellFoundedOn(StrictSubsetOrdering(S), SUBSET S)
  BY FS_StrictSubsetOrderingWellFounded, FS_FiniteSubsetsOfFinite
<1> DEFINE Less(n) == {x \in S : x < n}
<1> DEFINE F == {Less(n) : n \in S}
<1>2. F \subseteq SUBSET S /\ F # {}
  OBVIOUS
<1>3. PICK X \in F : \A Y \in F : <<Y, X>> \notin StrictSubsetOrdering(S)
  <2> HIDE DEF F
  <2> QED BY <1>1, <1>2, WFMin, Zenon
<1>4. PICK m \in S : X = Less(m)
  BY <1>3
<1>5. ASSUME NEW n \in S, n < m PROVE FALSE
  <2>1. Less(n) \in F /\ n \in X /\ n \notin Less(n)
    BY <1>4, <1>5
  <2>2. Less(n) \subseteq X
    <3> SUFFICES ASSUME NEW x \in S, x < n PROVE x < m
      BY <1>4
    <3> QED BY <1>5
  <2>3. <<Less(n), X>> \in StrictSubsetOrdering(S)
    BY <2>1, <2>2, <1>2, <1>3 DEF StrictSubsetOrdering
  <2> QED BY <2>1, <2>3, <1>3
<1> QED BY <1>5

\* The negated set has a least element.
LEMMA FiniteMax ==
  ASSUME NEW S \in SUBSET Int, IsFiniteSet(S), S # {}
  PROVE \E m \in S : \A n \in S : n <= m
<1> DEFINE N == {-n : n \in S}
<1>1. IsFiniteSet(N)
  <2> DEFINE f == [n \in S |-> -n]
  <2>1. f \in Surjection(S, N)
    BY DEF Surjection
  <2> QED BY <2>1, FS_Surjection
<1>2. N \in SUBSET Int /\ N # {}
  <2>1. \A n \in S : -n \in Int
    OBVIOUS
  <2> QED BY <2>1, Zenon
<1>3. PICK k \in N : \A n \in N : k <= n
  <2> HIDE DEF N
  <2> QED BY FiniteMin, <1>1, <1>2
<1>4. PICK m \in S : k = -m
  OBVIOUS
<1>5. ASSUME NEW n \in S PROVE n <= m
  <2>1. k <= -n
    BY <1>3
  <2> QED BY <2>1, <1>4
<1> QED BY <1>5

(***************************************************************************)
(* Regions and parts of regions.  A region is never empty; two of them are *)
(* clear of each other when one ends where the other begins or before.     *)
(***************************************************************************)
IsRegion(r) ==
  /\ r.first \in Nat
  /\ r.data \in Seq(Bytes)
  /\ Len(r.data) > 0
  /\ EndOf(r) <= MaxOff
  /\ r = Region(r.first, r.data)
AreRegions(m) == \A r \in m : IsRegion(r)

Covers(r, o)   == r.first <= o /\ o < EndOf(r)
ByteIn(r, o)   == r.data[o - r.first + 1]
ClearOf(q, r)  == EndOf(q) <= r.first \/ EndOf(r) <= q.first
PartOf(p, r)   == r.first <= p.first /\ EndOf(p) <= EndOf(r)
SameBytes(p, r) == \A o \in Int : Covers(p, o) => ByteIn(p, o) = ByteIn(r, o)

\* A region ends after it begins.
LEMMA RegionEnds ==
  ASSUME NEW r, IsRegion(r)
  PROVE  EndOf(r) \in Nat /\ EndOf(r) = r.first + Len(r.data) /\ EndOf(r) > r.first
<1>1. Len(r.data) \in Nat
  BY LenProperties DEF IsRegion
<1> QED BY <1>1 DEF IsRegion, EndOf

\* A region is what Region makes of a first offset and a run of bytes.
LEMMA MakeRegion ==
  ASSUME NEW first \in Nat, NEW data \in Seq(Bytes),
         Len(data) > 0, first + Len(data) <= MaxOff
  PROVE  /\ IsRegion(Region(first, data))
         /\ Region(first, data).first = first
         /\ Region(first, data).data = data
         /\ EndOf(Region(first, data)) = first + Len(data)
  BY DEF IsRegion, Region, EndOf

\* A run of bytes out of a sequence.
LEMMA RunOfBytes ==
  ASSUME NEW data \in Seq(Bytes), NEW i \in Int, NEW j \in Int,
         1 <= i, i <= j, j <= Len(data)
  PROVE  /\ SubSeq(data, i, j) \in Seq(Bytes)
         /\ Len(SubSeq(data, i, j)) = j - i + 1
         /\ \A k \in 1 .. j - i + 1 : SubSeq(data, i, j)[k] = data[i + k - 1]
<1>1. \A k \in i .. j : data[k] \in Bytes
  BY ElementOfSeq, LenProperties
<1> QED BY <1>1, SubSeqProperties

\* The front of a region that begins before the cut is a region that ends at
\* the cut (pop_back).
LEMMA KeptFront ==
  ASSUME NEW r, IsRegion(r), NEW n \in Nat, 0 < n, n <= Len(r.data)
  PROVE  /\ IsRegion(KeepFront(r, n))
         /\ KeepFront(r, n).first = r.first
         /\ EndOf(KeepFront(r, n)) = r.first + n
<1>1. r.first \in Nat /\ r.data \in Seq(Bytes) /\ Len(r.data) \in Nat
  BY LenProperties DEF IsRegion
<1>2. /\ SubSeq(r.data, 1, n) \in Seq(Bytes)
      /\ Len(SubSeq(r.data, 1, n)) = n - 1 + 1
  BY <1>1, RunOfBytes
<1>3. r.first + Len(r.data) <= MaxOff
  BY DEF IsRegion, EndOf
<1> QED BY <1>1, <1>2, <1>3, MaxOffAssumption DEF KeepFront, IsRegion, Region, EndOf

\* The back of a region that ends after the cut is a region that begins at
\* the cut (pop_front).
LEMMA KeptBack ==
  ASSUME NEW r, IsRegion(r), NEW n \in Nat, 0 < n, n <= Len(r.data)
  PROVE  /\ IsRegion(KeepBack(r, n))
         /\ KeepBack(r, n).first = EndOf(r) - n
         /\ EndOf(KeepBack(r, n)) = EndOf(r)
<1>1. r.first \in Nat /\ r.data \in Seq(Bytes) /\ Len(r.data) \in Nat
  BY LenProperties DEF IsRegion
<1> DEFINE i == Len(r.data) - n + 1
<1>2. i \in Int /\ 1 <= i /\ i <= Len(r.data)
  BY <1>1
<1>3. /\ SubSeq(r.data, i, Len(r.data)) \in Seq(Bytes)
      /\ Len(SubSeq(r.data, i, Len(r.data))) = Len(r.data) - i + 1
  <2> HIDE DEF i
  <2> QED BY <1>1, <1>2, RunOfBytes
<1>4. r.first + Len(r.data) <= MaxOff
  BY DEF IsRegion, EndOf
<1> DEFINE f == EndOf(r) - n
           d == SubSeq(r.data, i, Len(r.data))
<1>5. f \in Nat /\ Len(d) = n /\ f + n = EndOf(r) /\ EndOf(r) <= MaxOff /\ d \in Seq(Bytes)
  BY <1>1, <1>3, <1>4, MaxOffAssumption DEF EndOf
<1>6. KeepBack(r, n) = Region(f, d)
  BY DEF KeepBack
<1> HIDE DEF f, d, i
<1>7. /\ IsRegion(Region(f, d)) /\ Region(f, d).first = f
      /\ EndOf(Region(f, d)) = f + Len(d)
  BY <1>5, MakeRegion
<1> QED BY <1>5, <1>6, <1>7 DEF f

\* The part of a write's bytes that fills a gap is a region that is the gap.
LEMMA PartOfData ==
  ASSUME NEW off \in Nat, NEW data \in Seq(Bytes), NEW b \in Nat, NEW e \in Nat,
         off <= b, b < e, e <= off + Len(data), off + Len(data) <= MaxOff
  PROVE  /\ IsRegion(Part(off, data, b, e))
         /\ Part(off, data, b, e).first = b
         /\ EndOf(Part(off, data, b, e)) = e
<1> DEFINE i == b - off + 1
           j == e - off
<1>1. Len(data) \in Nat
  BY LenProperties
<1>2. i \in Int /\ j \in Int /\ 1 <= i /\ i <= j /\ j <= Len(data)
  BY <1>1
<1>3. /\ SubSeq(data, i, j) \in Seq(Bytes)
      /\ Len(SubSeq(data, i, j)) = j - i + 1
  <2> HIDE DEF i, j
  <2> QED BY <1>2, RunOfBytes
<1> DEFINE d == SubSeq(data, i, j)
<1>4. d \in Seq(Bytes) /\ Len(d) = e - b /\ Len(d) > 0 /\ b + Len(d) = e /\ e <= MaxOff
  BY <1>1, <1>3, MaxOffAssumption
<1>5. Part(off, data, b, e) = Region(b, d)
  BY DEF Part
<1> HIDE DEF d, i, j
<1>6. /\ IsRegion(Region(b, d)) /\ Region(b, d).first = b
      /\ EndOf(Region(b, d)) = b + Len(d)
  BY <1>4, MakeRegion
<1> QED BY <1>4, <1>5, <1>6

\* The parts have the bytes of what they are parts of.
LEMMA KeptFrontBytes ==
  ASSUME NEW r, IsRegion(r), NEW n \in Nat, 0 < n, n <= Len(r.data)
  PROVE  SameBytes(KeepFront(r, n), r)
<1>1. r.first \in Nat /\ r.data \in Seq(Bytes) /\ Len(r.data) \in Nat
  BY LenProperties DEF IsRegion
<1>2. \A k \in 1 .. n - 1 + 1 : SubSeq(r.data, 1, n)[k] = r.data[1 + k - 1]
  BY <1>1, RunOfBytes
<1>3. /\ KeepFront(r, n).first = r.first /\ EndOf(KeepFront(r, n)) = r.first + n
      /\ KeepFront(r, n).data = SubSeq(r.data, 1, n)
  BY KeptFront DEF KeepFront, Region
<1>4. ASSUME NEW o \in Int, Covers(KeepFront(r, n), o)
      PROVE  ByteIn(KeepFront(r, n), o) = ByteIn(r, o)
  <2> DEFINE k == o - r.first + 1
  <2>1. k \in 1 .. n - 1 + 1 /\ 1 + k - 1 = k
    BY <1>1, <1>3, <1>4 DEF Covers
  <2> QED BY <1>2, <1>3, <2>1 DEF ByteIn
<1> QED BY <1>4 DEF SameBytes

\* Its bytes are those of the region.
LEMMA KeptBackBytes ==
  ASSUME NEW r, IsRegion(r), NEW n \in Nat, 0 < n, n <= Len(r.data)
  PROVE  SameBytes(KeepBack(r, n), r)
<1> DEFINE i == Len(r.data) - n + 1
           j == Len(r.data)
           f == EndOf(r) - n
<1>1. /\ r.first \in Nat /\ r.data \in Seq(Bytes) /\ j \in Nat
      /\ EndOf(r) = r.first + j
  BY LenProperties DEF IsRegion, EndOf
<1>2. i \in Int /\ 1 <= i /\ i <= j /\ j <= Len(r.data)
  BY <1>1
<1>3. \A k \in 1 .. j - i + 1 : SubSeq(r.data, i, j)[k] = r.data[i + k - 1]
  <2> HIDE DEF i, j
  <2> QED BY <1>1, <1>2, RunOfBytes
<1>4. /\ KeepBack(r, n).first = f /\ EndOf(KeepBack(r, n)) = EndOf(r)
      /\ KeepBack(r, n).data = SubSeq(r.data, i, j)
  BY KeptBack DEF KeepBack, Region
<1>5. ASSUME NEW o \in Int, Covers(KeepBack(r, n), o)
      PROVE  ByteIn(KeepBack(r, n), o) = ByteIn(r, o)
  <2> DEFINE k == o - f + 1
  <2>1. k \in 1 .. j - i + 1 /\ i + k - 1 = o - r.first + 1
    BY <1>1, <1>4, <1>5 DEF Covers
  <2>2. SubSeq(r.data, i, j)[k] = r.data[o - r.first + 1]
    <3> HIDE DEF i, j, k
    <3> QED BY <1>3, <2>1
  <2> QED BY <1>4, <2>2 DEF ByteIn
<1> QED BY <1>5 DEF SameBytes

\* The part's bytes are those of the write at the same offsets.
LEMMA PartBytes ==
  ASSUME NEW off \in Nat, NEW data \in Seq(Bytes), NEW b \in Nat, NEW e \in Nat,
         off <= b, b < e, e <= off + Len(data), off + Len(data) <= MaxOff
  PROVE  \A o \in Int : Covers(Part(off, data, b, e), o) =>
           ByteIn(Part(off, data, b, e), o) = data[o - off + 1]
<1> DEFINE i == b - off + 1
           j == e - off
<1>1. Len(data) \in Nat
  BY LenProperties
<1>2. i \in Int /\ j \in Int /\ 1 <= i /\ i <= j /\ j <= Len(data)
  BY <1>1
<1>3. \A k \in 1 .. j - i + 1 : SubSeq(data, i, j)[k] = data[i + k - 1]
  <2> HIDE DEF i, j
  <2> QED BY <1>2, RunOfBytes
<1>4. /\ Part(off, data, b, e).first = b /\ EndOf(Part(off, data, b, e)) = e
      /\ Part(off, data, b, e).data = SubSeq(data, i, j)
  BY PartOfData DEF Part, Region
<1>5. ASSUME NEW o \in Int, Covers(Part(off, data, b, e), o)
      PROVE  ByteIn(Part(off, data, b, e), o) = data[o - off + 1]
  <2> DEFINE k == o - b + 1
  <2>1. k \in 1 .. j - i + 1 /\ i + k - 1 = o - off + 1
    BY <1>4, <1>5 DEF Covers
  <2>2. SubSeq(data, i, j)[k] = data[o - off + 1]
    <3> HIDE DEF i, j, k
    <3> QED BY <1>3, <2>1
  <2> QED BY <1>4, <2>2 DEF ByteIn
<1> QED BY <1>5

\* Parts of regions that are clear of each other are clear of each other.
LEMMA PartsAreClear ==
  ASSUME NEW p, NEW q, NEW r, NEW s,
         IsRegion(p), IsRegion(q), IsRegion(r), IsRegion(s),
         PartOf(p, r), PartOf(q, s), ClearOf(r, s)
  PROVE  ClearOf(p, q)
<1>1. /\ p.first \in Nat /\ q.first \in Nat /\ r.first \in Nat /\ s.first \in Nat
      /\ EndOf(p) \in Nat /\ EndOf(q) \in Nat /\ EndOf(r) \in Nat /\ EndOf(s) \in Nat
  BY RegionEnds DEF IsRegion
<1> QED BY <1>1 DEF PartOf, ClearOf

(***************************************************************************)
(* A write that is prepared for a map erases regions of it, and what it    *)
(* inserts are regions that are clear of each other and of those that      *)
(* stay.  Committing it then keeps the regions apart.                      *)
(***************************************************************************)
Prepared(m, tx) ==
  /\ tx.erase \subseteq m
  /\ AreRegions(tx.insert)
  /\ Disjoint(tx.insert)
  /\ \A r \in tx.insert, q \in m \ tx.erase : ClearOf(r, q)

\* Committing what is prepared for a map leaves its regions apart.
LEMMA CommitKeepsApart ==
  ASSUME NEW m, NEW tx, AreRegions(m), Disjoint(m), Prepared(m, tx)
  PROVE  AreRegions(CommitTx(m, tx)) /\ Disjoint(CommitTx(m, tx))
  BY DEF AreRegions, Disjoint, Prepared, CommitTx, ClearOf

\* The regions a write replaces, and those it leaves alone.
LEMMA OverwrittenMeet ==
  ASSUME NEW m, AreRegions(m), Disjoint(m), NEW off \in Nat, NEW end \in Nat, off <= end
  PROVE  /\ Overwritten(m, off, end) \subseteq m
         /\ \A r \in Overwritten(m, off, end) : EndOf(r) > off /\ r.first <= end
         /\ \A r \in m \ Overwritten(m, off, end) : EndOf(r) <= off \/ end <= r.first
<1>1. \A r \in m : r.first \in Nat /\ EndOf(r) \in Nat /\ EndOf(r) > r.first
  BY RegionEnds DEF AreRegions, IsRegion
<1>2. Overwritten(m, off, end) \subseteq m
  BY DEF Overwritten, Holding, AtOrBefore, After
<1>3. ASSUME NEW r \in Overwritten(m, off, end)
      PROVE  EndOf(r) > off /\ r.first <= end
  BY <1>1, <1>2 DEF Overwritten, Holding, AtOrBefore, After
<1>4. ASSUME NEW r \in m, r \notin Overwritten(m, off, end), EndOf(r) > off
      PROVE  end <= r.first
  <2>1. CASE r.first > off
    BY <1>1, <1>4, <2>1 DEF Overwritten, After
  <2>2. CASE r.first <= off
    <3>1. \A q \in m : q.first <= off => q.first <= r.first
      BY <1>1, <1>4, <2>2 DEF Disjoint
    <3>2. r \in Holding(m, off)
      BY <1>4, <2>2, <3>1 DEF Holding, AtOrBefore
    <3> QED BY <1>4, <3>2 DEF Overwritten
  <2> QED BY <1>1, <2>1, <2>2
<1>5. ASSUME NEW r \in m, r \notin Overwritten(m, off, end)
      PROVE  EndOf(r) <= off \/ end <= r.first
  BY <1>1, <1>4, <1>5
<1> QED BY <1>2, <1>3, <1>5

\* A write that overwrites is prepared for the map it was prepared on: what
\* remains of the regions it cuts, and its own bytes, are clear of the rest.
LEMMA OverwriteIsPrepared ==
  ASSUME NEW m, AreRegions(m), Disjoint(m), NEW off \in Nat, NEW data \in Seq(Bytes),
         off + Len(data) <= MaxOff
  PROVE  Prepared(m, OverwriteTx(m, off, data))
<1> DEFINE end    == off + Len(data)
           E      == Overwritten(m, off, end)
           Fronts == {KeepFront(r, off - r.first) : r \in {x \in E : x.first < off}}
           Backs  == {KeepBack(r, EndOf(r) - end) : r \in {x \in E : EndOf(x) > end}}
           News   == NewRegion(off, data)
<1>1. end \in Nat /\ off <= end
  BY LenProperties
<1>2. /\ E \subseteq m
      /\ \A r \in E : EndOf(r) > off /\ r.first <= end
      /\ \A r \in m \ E : EndOf(r) <= off \/ end <= r.first
  <2> HIDE DEF end
  <2> QED BY <1>1, OverwrittenMeet
<1>3. OverwriteTx(m, off, data) = [erase |-> E, insert |-> Fronts \union Backs \union News]
  BY DEF OverwriteTx, Kept
<1>4. \A r \in m : /\ IsRegion(r) /\ r.first \in Nat /\ Len(r.data) \in Nat
                   /\ EndOf(r) \in Nat /\ EndOf(r) = r.first + Len(r.data) /\ EndOf(r) > r.first
  BY RegionEnds, LenProperties DEF AreRegions, IsRegion
<1>5. ASSUME NEW p \in Fronts
      PROVE  /\ IsRegion(p) /\ EndOf(p) = off
             /\ \E r \in E : PartOf(p, r) /\ p = KeepFront(r, off - r.first)
  <2>1. PICK r \in E : r.first < off /\ p = KeepFront(r, off - r.first)
    BY <1>5
  <2>2. off - r.first \in Nat /\ 0 < off - r.first /\ off - r.first <= Len(r.data)
    BY <1>2, <1>4, <2>1
  <2>3. IsRegion(p) /\ p.first = r.first /\ EndOf(p) = r.first + (off - r.first)
    BY <1>2, <1>4, <2>1, <2>2, KeptFront
  <2>4. EndOf(p) = off /\ PartOf(p, r)
    BY <1>2, <1>4, <2>1, <2>3 DEF PartOf
  <2> QED BY <2>1, <2>3, <2>4
<1>6. ASSUME NEW p \in Backs
      PROVE  /\ IsRegion(p) /\ p.first = end
             /\ \E r \in E : PartOf(p, r) /\ p = KeepBack(r, EndOf(r) - end)
  <2>1. PICK r \in E : EndOf(r) > end /\ p = KeepBack(r, EndOf(r) - end)
    BY <1>6
  <2>2. EndOf(r) - end \in Nat /\ 0 < EndOf(r) - end /\ EndOf(r) - end <= Len(r.data)
    BY <1>1, <1>2, <1>4, <2>1
  <2>3. /\ IsRegion(p) /\ p.first = EndOf(r) - (EndOf(r) - end)
        /\ EndOf(p) = EndOf(r)
    BY <1>2, <1>4, <2>1, <2>2, KeptBack
  <2>4. p.first = end /\ PartOf(p, r)
    BY <1>1, <1>2, <1>4, <2>1, <2>3 DEF PartOf
  <2> QED BY <2>1, <2>3, <2>4
<1>7. ASSUME NEW p \in News
      PROVE  IsRegion(p) /\ p.first = off /\ EndOf(p) = end
  BY <1>7, LenProperties, EmptySeq DEF NewRegion, Region, IsRegion, EndOf
<1> HIDE DEF Fronts, Backs, News, E, end
<1>8. AreRegions(Fronts \union Backs \union News)
  BY <1>5, <1>6, <1>7 DEF AreRegions
<1>9. Disjoint(Fronts \union Backs \union News)
  <2>1. ASSUME NEW p \in Fronts, NEW q \in Fronts
        PROVE  p = q \/ ClearOf(p, q)
    <3>1. PICK r \in E : PartOf(p, r) /\ p = KeepFront(r, off - r.first)
      BY <1>5
    <3>2. PICK s \in E : PartOf(q, s) /\ q = KeepFront(s, off - s.first)
      BY <1>5
    <3>3. r = s \/ ClearOf(r, s)
      BY <1>2 DEF Disjoint, ClearOf
    <3> QED BY <1>2, <1>4, <1>5, <3>1, <3>2, <3>3, PartsAreClear
  <2>2. ASSUME NEW p \in Backs, NEW q \in Backs
        PROVE  p = q \/ ClearOf(p, q)
    <3>1. PICK r \in E : PartOf(p, r) /\ p = KeepBack(r, EndOf(r) - end)
      BY <1>6
    <3>2. PICK s \in E : PartOf(q, s) /\ q = KeepBack(s, EndOf(s) - end)
      BY <1>6
    <3>3. r = s \/ ClearOf(r, s)
      BY <1>2 DEF Disjoint, ClearOf
    <3> QED BY <1>2, <1>4, <1>6, <3>1, <3>2, <3>3, PartsAreClear
  <2>3. ASSUME NEW p \in News, NEW q \in News
        PROVE  p = q
    BY <2>3 DEF News, NewRegion
  <2>4. /\ \A p \in Fronts, q \in Backs \union News : EndOf(p) <= q.first
        /\ \A p \in News, q \in Backs : EndOf(p) <= q.first
    BY <1>1, <1>5, <1>6, <1>7
  <2> QED BY <2>1, <2>2, <2>3, <2>4 DEF Disjoint, ClearOf
<1>10. ASSUME NEW p \in Fronts \union Backs \union News, NEW q \in m \ E
       PROVE  ClearOf(p, q)
  <2>1. CASE p \in News
    BY <1>1, <1>2, <1>4, <1>7, <1>10, <2>1 DEF ClearOf
  <2>2. CASE p \in Fronts \union Backs
    <3>1. PICK r \in E : IsRegion(p) /\ PartOf(p, r)
      BY <1>5, <1>6, <2>2
    <3>2. ClearOf(r, q) /\ PartOf(q, q) /\ IsRegion(q) /\ IsRegion(r)
      BY <1>2, <1>4, <1>10 DEF Disjoint, ClearOf, PartOf
    <3> QED BY <3>1, <3>2, PartsAreClear
  <2> QED BY <1>10, <2>1, <2>2
<1> QED BY <1>2, <1>3, <1>8, <1>9, <1>10 DEF Prepared

\* The gaps between the regions are apart, and hold no byte of them.
LEMMA GapsAreApart ==
  ASSUME NEW m, NEW off \in Nat, NEW end \in Nat,
         NEW g \in Gaps(m, off, end), NEW h \in Gaps(m, off, end)
  PROVE  g = h \/ g[2] < h[1] \/ h[2] < g[1]
<1>1. /\ g = <<g[1], g[2]>> /\ h = <<h[1], h[2]>>
      /\ g[1] \in off .. end /\ g[2] \in off .. end /\ h[1] \in off .. end /\ h[2] \in off .. end
      /\ g[1] < g[2] /\ h[1] < h[2]
  BY DEF Gaps
<1>2. /\ \A o \in g[1] .. g[2] - 1 : ~Covered(m, o)
      /\ g[1] = off \/ Covered(m, g[1] - 1)
      /\ g[2] = end \/ Covered(m, g[2])
  BY DEF Gaps
<1>3. /\ \A o \in h[1] .. h[2] - 1 : ~Covered(m, o)
      /\ h[1] = off \/ Covered(m, h[1] - 1)
      /\ h[2] = end \/ Covered(m, h[2])
  BY DEF Gaps
<1>4. CASE g[1] < h[1]
  BY <1>1, <1>2, <1>3, <1>4
<1>5. CASE h[1] < g[1]
  BY <1>1, <1>2, <1>3, <1>5
<1>6. CASE g[1] = h[1]
  <2>1. g[2] = h[2]
    BY <1>1, <1>2, <1>3, <1>6
  <2> QED BY <1>1, <1>6, <2>1
<1> QED BY <1>1, <1>4, <1>5, <1>6

\* So is a write that does not, if a region begins at or before its offset.
\* It erases nothing and inserts only within its own range.
LEMMA FillIsPrepared ==
  ASSUME NEW m, AreRegions(m), NEW off \in Nat, NEW data \in Seq(Bytes),
         off + Len(data) <= MaxOff, AtOrBefore(m, off) # {}
  PROVE  /\ Prepared(m, FillTx(m, off, data))
         /\ FillTx(m, off, data).erase = {}
         /\ \A r \in FillTx(m, off, data).insert :
              off <= r.first /\ EndOf(r) <= off + Len(data)
<1> DEFINE end == off + Len(data)
           G   == Gaps(m, off, end)
           I   == FillsTheGaps(m, off, data)
<1>1. end \in Nat
  BY LenProperties
<1>2. FillTx(m, off, data) = [erase |-> {}, insert |-> I]
  BY DEF FillTx
<1>3. ASSUME NEW g \in G
      PROVE  /\ g[1] \in Nat /\ g[2] \in Nat /\ off <= g[1] /\ g[1] < g[2] /\ g[2] <= end
             /\ \A o \in g[1] .. g[2] - 1 : ~Covered(m, o)
  BY <1>1 DEF Gaps
<1>4. ASSUME NEW g \in G
      PROVE  /\ IsRegion(Part(off, data, g[1], g[2]))
             /\ Part(off, data, g[1], g[2]).first = g[1]
             /\ EndOf(Part(off, data, g[1], g[2])) = g[2]
  BY <1>3, PartOfData
<1>5. ASSUME NEW p \in I
      PROVE  \E g \in G : p = Part(off, data, g[1], g[2])
  BY DEF FillsTheGaps
<1> HIDE DEF G, I, end
<1>6. AreRegions(I) /\ \A r \in I : off <= r.first /\ EndOf(r) <= end
  BY <1>3, <1>4, <1>5 DEF AreRegions
<1>7. ASSUME NEW p \in I, NEW q \in I
      PROVE  p = q \/ ClearOf(p, q)
  <2>1. PICK g \in G : p = Part(off, data, g[1], g[2])
    BY <1>5
  <2>2. PICK h \in G : q = Part(off, data, h[1], h[2])
    BY <1>5
  <2>3. g = h \/ g[2] < h[1] \/ h[2] < g[1]
    BY <1>1, GapsAreApart DEF G
  <2> QED BY <1>3, <1>4, <2>1, <2>2, <2>3 DEF ClearOf
<1>8. ASSUME NEW p \in I, NEW q \in m
      PROVE  ClearOf(p, q)
  <2>1. PICK g \in G : p = Part(off, data, g[1], g[2])
    BY <1>5
  <2>2. q.first \in Nat /\ EndOf(q) \in Nat /\ q.first < EndOf(q)
    BY RegionEnds DEF AreRegions, IsRegion
  <2>3. SUFFICES ASSUME q.first < g[2], g[1] < EndOf(q) PROVE FALSE
    BY <1>3, <1>4, <2>1, <2>2 DEF ClearOf
  <2>4. PICK o \in {g[1], q.first} : g[1] <= o /\ q.first <= o
    BY <1>3, <2>2
  <2>5. o \in g[1] .. g[2] - 1 /\ q.first <= o /\ o < EndOf(q)
    BY <1>3, <2>2, <2>3, <2>4
  <2> QED BY <1>3, <2>5 DEF Covered
<1>9. Prepared(m, [erase |-> {}, insert |-> I])
  BY <1>6, <1>7, <1>8 DEF Prepared, Disjoint, ClearOf
<1> QED BY <1>2, <1>6, <1>9 DEF end

\* truncate leaves the regions apart.
LEMMA TruncateKeepsApart ==
  ASSUME NEW m, AreRegions(m), Disjoint(m), NEW size \in Nat
  PROVE  AreRegions(Truncate(m, size)) /\ Disjoint(Truncate(m, size))
<1> DEFINE rest   == {r \in m : r.first < size}
           Cut(r) == IF IsLast(rest, r) /\ EndOf(r) > size
                     THEN KeepFront(r, size - r.first) ELSE r
<1>1. Truncate(m, size) = {Cut(r) : r \in rest}
  BY DEF Truncate
<1>2. ASSUME NEW r \in rest
      PROVE  IsRegion(r) /\ IsRegion(Cut(r)) /\ PartOf(Cut(r), r)
  <2>1. /\ IsRegion(r) /\ r.first \in Nat /\ Len(r.data) \in Nat
        /\ EndOf(r) \in Nat /\ EndOf(r) = r.first + Len(r.data)
    BY RegionEnds, LenProperties DEF AreRegions, IsRegion
  <2>2. CASE Cut(r) = r
    BY <2>1, <2>2 DEF PartOf
  <2>3. CASE Cut(r) = KeepFront(r, size - r.first) /\ EndOf(r) > size
    <3>1. size - r.first \in Nat /\ 0 < size - r.first /\ size - r.first <= Len(r.data)
      BY <2>1, <2>3
    <3>2. /\ IsRegion(KeepFront(r, size - r.first))
          /\ KeepFront(r, size - r.first).first = r.first
          /\ EndOf(KeepFront(r, size - r.first)) = r.first + (size - r.first)
      BY <2>1, <3>1, KeptFront
    <3> QED BY <2>1, <2>3, <3>2 DEF PartOf
  <2> QED BY <2>2, <2>3
<1>3. \A q, r \in rest : q = r \/ ClearOf(q, r)
  BY DEF Disjoint, ClearOf
<1> HIDE DEF Cut, rest
<1>4. \A q, r \in rest : q = r \/ ClearOf(Cut(q), Cut(r))
  BY <1>2, <1>3, PartsAreClear
<1> QED BY <1>1, <1>2, <1>4 DEF AreRegions, Disjoint, ClearOf

(***************************************************************************)
(* The bytes.  A map holds a byte at an offset when a region that covers   *)
(* the offset has it there; ByteAt is that byte, since no two do.          *)
(***************************************************************************)
Holds(m, o, v) == \E r \in m : Covers(r, o) /\ ByteIn(r, o) = v

\* A map whose regions are apart holds at most one byte at an offset.
LEMMA ByteIsHeld ==
  ASSUME NEW m, AreRegions(m), Disjoint(m), NEW o \in Nat
  PROVE  /\ Covered(m, o) => ByteAt(m, o) \in Bytes /\ Holds(m, o, ByteAt(m, o))
         /\ ~Covered(m, o) => ByteAt(m, o) = None
         /\ \A v : Holds(m, o, v) => Covered(m, o) /\ ByteAt(m, o) = v
<1>1. CASE ~Covered(m, o)
  BY <1>1 DEF ByteAt, Covered, Holds, Covers
<1>2. CASE Covered(m, o)
  <2>1. PICK r \in m : Covers(r, o) /\ ByteAt(m, o) = ByteIn(r, o)
    BY <1>2 DEF Covered, ByteAt, Covers, ByteIn
  <2>2. /\ r.first \in Nat /\ r.data \in Seq(Bytes) /\ Len(r.data) \in Nat
        /\ EndOf(r) = r.first + Len(r.data)
    BY LenProperties, RegionEnds DEF AreRegions, IsRegion
  <2>3. o - r.first + 1 \in 1 .. Len(r.data)
    BY <2>1, <2>2 DEF Covers
  <2>4. ByteIn(r, o) \in Bytes
    BY <2>2, <2>3, ElementOfSeq DEF ByteIn
  <2>5. \A q \in m : Covers(q, o) => q = r
    BY <2>1, RegionEnds DEF Covers, Disjoint, AreRegions, IsRegion
  <2>6. \A v : Holds(m, o, v) => v = ByteIn(r, o)
    BY <2>5 DEF Holds
  <2> QED BY <1>2, <2>1, <2>4, <2>6 DEF Holds
<1> QED BY <1>1, <1>2

(***************************************************************************)
(* What a prepared write means: the bytes of the request where it writes,  *)
(* and those of the map elsewhere.                                         *)
(***************************************************************************)
InRequest(r, o) == r.off <= o /\ o < EndOfRequest(r)
WritesAt(m, r, o) == InRequest(r, o) /\ (r.overwrite \/ ~Covered(m, o))

MeansAt(m, tx, r, o) ==
  \A v : Holds((m \ tx.erase) \union tx.insert, o, v)
          <=> IF WritesAt(m, r, o) THEN v = r.data[o - r.off + 1] ELSE Holds(m, o, v)
Means(m, tx, r) == \A o \in Nat : MeansAt(m, tx, r, o)

\* The tree refuses none of the regions of a write that is prepared for it.
LEMMA CommitIsPlain ==
  ASSUME NEW m, NEW tx, AreRegions(m), Prepared(m, tx)
  PROVE  CommitTx(m, tx) = (m \ tx.erase) \union tx.insert
<1>1. ASSUME NEW r \in tx.insert, NEW q \in m \ tx.erase
      PROVE  q.first # r.first
  <2>1. ClearOf(r, q) /\ IsRegion(r) /\ IsRegion(q)
    BY <1>1 DEF Prepared, AreRegions
  <2> QED BY <2>1, RegionEnds DEF ClearOf, IsRegion
<1> QED BY <1>1 DEF CommitTx

\* A write that overwrites puts its bytes in its range and leaves the others.
LEMMA OverwriteMeans ==
  ASSUME NEW m, AreRegions(m), Disjoint(m), NEW off \in Nat, NEW data \in Seq(Bytes),
         off + Len(data) <= MaxOff
  PROVE  Means(m, OverwriteTx(m, off, data), Request(off, data, TRUE))
<1> DEFINE end    == off + Len(data)
           E      == Overwritten(m, off, end)
           Fronts == {KeepFront(r, off - r.first) : r \in {x \in E : x.first < off}}
           Backs  == {KeepBack(r, EndOf(r) - end) : r \in {x \in E : EndOf(x) > end}}
           News   == NewRegion(off, data)
           After2 == (m \ E) \union Fronts \union Backs \union News
<1>1. end \in Nat /\ off <= end /\ Len(data) \in Nat
  BY LenProperties
<1>2. /\ E \subseteq m
      /\ \A r \in E : EndOf(r) > off /\ r.first <= end
      /\ \A r \in m \ E : EndOf(r) <= off \/ end <= r.first
  <2> HIDE DEF end
  <2> QED BY <1>1, OverwrittenMeet
<1>3. \A r \in m : /\ IsRegion(r) /\ r.first \in Nat /\ Len(r.data) \in Nat
                   /\ EndOf(r) \in Nat /\ EndOf(r) = r.first + Len(r.data) /\ EndOf(r) > r.first
  BY RegionEnds, LenProperties DEF AreRegions, IsRegion
<1>4. ASSUME NEW r \in E, r.first < off
      PROVE  /\ KeepFront(r, off - r.first).first = r.first
             /\ EndOf(KeepFront(r, off - r.first)) = off
             /\ SameBytes(KeepFront(r, off - r.first), r)
  <2>1. off - r.first \in Nat /\ 0 < off - r.first /\ off - r.first <= Len(r.data)
    BY <1>2, <1>3, <1>4
  <2>2. r.first + (off - r.first) = off
    BY <1>2, <1>3
  <2> QED BY <1>2, <1>3, <2>1, <2>2, KeptFront, KeptFrontBytes
<1>5. ASSUME NEW r \in E, EndOf(r) > end
      PROVE  /\ KeepBack(r, EndOf(r) - end).first = end
             /\ EndOf(KeepBack(r, EndOf(r) - end)) = EndOf(r)
             /\ SameBytes(KeepBack(r, EndOf(r) - end), r)
  <2>1. EndOf(r) - end \in Nat /\ 0 < EndOf(r) - end /\ EndOf(r) - end <= Len(r.data)
    BY <1>1, <1>2, <1>3, <1>5
  <2>2. EndOf(r) - (EndOf(r) - end) = end
    BY <1>1, <1>2, <1>3
  <2> QED BY <1>2, <1>3, <2>1, <2>2, KeptBack, KeptBackBytes
<1>6. /\ \A p \in News : /\ p.first = off /\ EndOf(p) = end
                        /\ \A o \in Nat : ByteIn(p, o) = data[o - off + 1]
      /\ off < end => \E p \in News : TRUE
  <2>1. off < end => data # <<>>
    BY <1>1, EmptySeq
  <2>2. off < end => Region(off, data) \in News
    BY <2>1 DEF NewRegion
  <2>3. \A p \in News : p = Region(off, data)
    BY DEF NewRegion
  <2>4. Region(off, data).first = off /\ Region(off, data).data = data
    BY DEF Region
  <2> QED BY <2>2, <2>3, <2>4 DEF EndOf, ByteIn
<1> HIDE DEF end, E, Fronts, Backs, News
<1>7. ASSUME NEW o \in Nat, off <= o, o < end, NEW v
      PROVE  Holds(After2, o, v) <=> v = data[o - off + 1]
  <2>1. \A p \in m \ E : ~Covers(p, o)
    BY <1>1, <1>2, <1>3, <1>7 DEF Covers
  <2>2. \A p \in Fronts \union Backs : ~Covers(p, o)
    BY <1>1, <1>4, <1>5, <1>7 DEF Covers, Fronts, Backs
  <2>3. \A p \in News : Covers(p, o) /\ ByteIn(p, o) = data[o - off + 1]
    BY <1>6, <1>7 DEF Covers
  <2>4. \E p \in News : TRUE
    BY <1>1, <1>6, <1>7
  <2> QED BY <2>1, <2>2, <2>3, <2>4 DEF Holds
<1>8. ASSUME NEW o \in Nat, ~(off <= o /\ o < end), NEW v
      PROVE  Holds(After2, o, v) <=> Holds(m, o, v)
  <2>1. ASSUME NEW p \in After2, Covers(p, o)
        PROVE  \E r \in m : Covers(r, o) /\ ByteIn(r, o) = ByteIn(p, o)
    <3>1. CASE p \in m \ E
      BY <2>1, <3>1
    <3>2. CASE p \in Fronts
      <4>1. PICK r \in E : r.first < off /\ p = KeepFront(r, off - r.first)
        BY <3>2 DEF Fronts
      <4>2. Covers(r, o)
        BY <1>2, <1>3, <1>4, <2>1, <4>1 DEF Covers
      <4> QED BY <1>2, <1>4, <2>1, <4>1, <4>2 DEF SameBytes
    <3>3. CASE p \in Backs
      <4>1. PICK r \in E : EndOf(r) > end /\ p = KeepBack(r, EndOf(r) - end)
        BY <3>3 DEF Backs
      <4>2. Covers(r, o)
        BY <1>1, <1>2, <1>3, <1>5, <2>1, <4>1 DEF Covers
      <4> QED BY <1>2, <1>5, <2>1, <4>1, <4>2 DEF SameBytes
    <3>4. CASE p \in News
      BY <1>1, <1>6, <1>8, <2>1, <3>4 DEF Covers
    <3> QED BY <2>1, <3>1, <3>2, <3>3, <3>4
  <2>2. ASSUME NEW r \in m, Covers(r, o)
        PROVE  \E p \in After2 : Covers(p, o) /\ ByteIn(p, o) = ByteIn(r, o)
    <3>1. CASE r \notin E
      BY <2>2, <3>1
    <3>2. CASE r \in E /\ o < off
      <4>1. r.first < off
        BY <1>3, <2>2, <3>2 DEF Covers
      <4>2. KeepFront(r, off - r.first) \in Fronts
        BY <3>2, <4>1 DEF Fronts
      <4>3. Covers(KeepFront(r, off - r.first), o)
        BY <1>4, <2>2, <3>2, <4>1 DEF Covers
      <4> QED BY <1>4, <3>2, <4>1, <4>2, <4>3 DEF SameBytes
    <3>3. CASE r \in E /\ end <= o
      <4>1. EndOf(r) > end
        BY <1>1, <1>3, <2>2, <3>3 DEF Covers
      <4>2. KeepBack(r, EndOf(r) - end) \in Backs
        BY <3>3, <4>1 DEF Backs
      <4>3. Covers(KeepBack(r, EndOf(r) - end), o)
        BY <1>5, <2>2, <3>3, <4>1 DEF Covers
      <4> QED BY <1>5, <3>3, <4>1, <4>2, <4>3 DEF SameBytes
    <3> QED BY <1>1, <1>8, <3>1, <3>2, <3>3
  <2> QED BY <2>1, <2>2 DEF Holds
<1> DEFINE tx == OverwriteTx(m, off, data)
           r  == Request(off, data, TRUE)
<1>9. (m \ tx.erase) \union tx.insert = After2
  BY DEF OverwriteTx, Kept, Fronts, Backs, News, E, end
<1>10. /\ r.off = off /\ r.data = data
       /\ \A o \in Nat : WritesAt(m, r, o) <=> off <= o /\ o < end
  BY DEF Request, WritesAt, InRequest, EndOfRequest, end
<1> HIDE DEF After2, tx, r
<1>11. ASSUME NEW o \in Nat, NEW v
       PROVE  Holds(After2, o, v)
              <=> IF WritesAt(m, r, o) THEN v = r.data[o - r.off + 1] ELSE Holds(m, o, v)
  <2>1. CASE off <= o /\ o < end
    BY <1>7, <1>10, <2>1
  <2>2. CASE ~(off <= o /\ o < end)
    BY <1>8, <1>10, <2>2
  <2> QED BY <2>1, <2>2
<1>12. Means(m, tx, r)
  BY <1>9, <1>11 DEF Means, MeansAt
<1> QED BY <1>12 DEF tx, r

\* An offset that no region covers lies in a gap.
LEMMA GapAround ==
  ASSUME NEW m, NEW off \in Nat, NEW end \in Nat,
         NEW o \in Nat, off <= o, o < end, ~Covered(m, o)
  PROVE  \E g \in Gaps(m, off, end) : g[1] <= o /\ o < g[2]
<1> DEFINE B == {b \in off .. o : \A k \in b .. o : ~Covered(m, k)}
           F == {e \in o + 1 .. end : \A k \in o .. e - 1 : ~Covered(m, k)}
<1>1. /\ B \in SUBSET Int /\ IsFiniteSet(B) /\ o \in B
      /\ F \in SUBSET Int /\ IsFiniteSet(F) /\ o + 1 \in F
  <2>1. IsFiniteSet(off .. o) /\ IsFiniteSet(o + 1 .. end)
    BY FS_Interval
  <2>2. B \subseteq off .. o /\ F \subseteq o + 1 .. end
    OBVIOUS
  <2>3. \A k \in o .. o : k = o
    OBVIOUS
  <2>4. o \in B /\ o + 1 \in F
    BY <2>3
  <2>5. IsFiniteSet(B) /\ IsFiniteSet(F)
    BY <2>1, <2>2, FS_Subset
  <2> QED BY <2>2, <2>4, <2>5
<1>2. PICK b \in B : \A x \in B : b <= x
  <2> HIDE DEF B
  <2> QED BY <1>1, FiniteMin
<1>3. PICK e \in F : \A x \in F : x <= e
  <2> HIDE DEF F
  <2> QED BY <1>1, FiniteMax
<1>4. b = off \/ Covered(m, b - 1)
  <2>1. SUFFICES ASSUME b # off, ~Covered(m, b - 1) PROVE FALSE
    OBVIOUS
  <2>2. b - 1 \in off .. o /\ \A k \in b - 1 .. o : k = b - 1 \/ k \in b .. o
    BY <2>1
  <2>3. b - 1 \in B
    BY <2>1, <2>2
  <2> QED BY <1>2, <2>3
<1>5. e = end \/ Covered(m, e)
  <2>1. SUFFICES ASSUME e # end, ~Covered(m, e) PROVE FALSE
    OBVIOUS
  <2>2. e + 1 \in o + 1 .. end /\ \A k \in o .. e + 1 - 1 : k = e \/ k \in o .. e - 1
    BY <2>1
  <2>3. e + 1 \in F
    BY <2>1, <2>2
  <2> QED BY <1>3, <2>3
<1>6. \A k \in b .. e - 1 : ~Covered(m, k)
  OBVIOUS
<1>7. <<b, e>> \in Gaps(m, off, end)
  BY <1>4, <1>5, <1>6 DEF Gaps
<1> QED BY <1>7

\* A write that does not puts its bytes where its range has none.
LEMMA FillMeans ==
  ASSUME NEW m, AreRegions(m), NEW off \in Nat, NEW data \in Seq(Bytes),
         off + Len(data) <= MaxOff, AtOrBefore(m, off) # {}
  PROVE  Means(m, FillTx(m, off, data), Request(off, data, FALSE))
<1> DEFINE end == off + Len(data)
           G   == Gaps(m, off, end)
           I   == FillsTheGaps(m, off, data)
           tx  == FillTx(m, off, data)
           r   == Request(off, data, FALSE)
<1>1. end \in Nat /\ end <= MaxOff
  BY LenProperties
<1>2. (m \ tx.erase) \union tx.insert = m \union I
  BY DEF FillTx
<1>3. ASSUME NEW g \in G
      PROVE  /\ g[1] \in Nat /\ g[2] \in Nat /\ off <= g[1] /\ g[1] < g[2] /\ g[2] <= end
             /\ \A o \in g[1] .. g[2] - 1 : ~Covered(m, o)
  BY <1>1 DEF Gaps
<1>4. ASSUME NEW g \in G
      PROVE  /\ Part(off, data, g[1], g[2]) \in I
             /\ \A o \in Nat : Covers(Part(off, data, g[1], g[2]), o) <=> g[1] <= o /\ o < g[2]
             /\ \A o \in Nat : Covers(Part(off, data, g[1], g[2]), o) =>
                  ByteIn(Part(off, data, g[1], g[2]), o) = data[o - off + 1]
  <2>1. /\ Part(off, data, g[1], g[2]).first = g[1]
        /\ EndOf(Part(off, data, g[1], g[2])) = g[2]
    BY <1>3, PartOfData
  <2>2. \A o \in Int : Covers(Part(off, data, g[1], g[2]), o) =>
          ByteIn(Part(off, data, g[1], g[2]), o) = data[o - off + 1]
    BY <1>3, PartBytes
  <2>3. Part(off, data, g[1], g[2]) \in I
    BY DEF FillsTheGaps
  <2> QED BY <2>1, <2>2, <2>3 DEF Covers
<1>5. ASSUME NEW p \in I
      PROVE  \E g \in G : p = Part(off, data, g[1], g[2])
  BY DEF FillsTheGaps
<1>6. /\ r.off = off /\ r.data = data
      /\ \A o \in Nat : WritesAt(m, r, o) <=> off <= o /\ o < end /\ ~Covered(m, o)
  BY DEF Request, WritesAt, InRequest, EndOfRequest
<1> HIDE DEF end, G, I, tx, r
<1>7. ASSUME NEW o \in Nat, NEW v, off <= o, o < end, ~Covered(m, o)
      PROVE  Holds(m \union I, o, v) <=> v = data[o - off + 1]
  <2>1. \A p \in m : ~Covers(p, o)
    BY <1>7 DEF Covered, Covers
  <2>2. \A p \in I : Covers(p, o) => ByteIn(p, o) = data[o - off + 1]
    BY <1>4, <1>5
  <2>3. PICK g \in G : g[1] <= o /\ o < g[2]
    BY <1>1, <1>7, GapAround DEF G
  <2>4. \E p \in I : Covers(p, o)
    BY <1>4, <2>3
  <2> QED BY <2>1, <2>2, <2>4 DEF Holds
<1>8. ASSUME NEW o \in Nat, NEW v, ~(off <= o /\ o < end /\ ~Covered(m, o))
      PROVE  Holds(m \union I, o, v) <=> Holds(m, o, v)
  <2>1. ASSUME NEW p \in I, Covers(p, o)
        PROVE  FALSE
    <3>1. PICK g \in G : p = Part(off, data, g[1], g[2])
      BY <1>5
    <3>2. g[1] <= o /\ o < g[2]
      BY <1>4, <2>1, <3>1
    <3>3. o \in g[1] .. g[2] - 1 /\ off <= o /\ o < end
      BY <1>1, <1>3, <3>2
    <3> QED BY <1>3, <1>8, <3>3
  <2> QED BY <2>1 DEF Holds
<1>9. ASSUME NEW o \in Nat, NEW v
      PROVE  Holds(m \union I, o, v)
             <=> IF WritesAt(m, r, o) THEN v = r.data[o - r.off + 1] ELSE Holds(m, o, v)
  <2>1. CASE WritesAt(m, r, o)
    BY <1>6, <1>7, <2>1
  <2>2. CASE ~WritesAt(m, r, o)
    BY <1>6, <1>8, <2>2
  <2> QED BY <2>1, <2>2
<1>10. Means(m, tx, r)
  BY <1>2, <1>9 DEF Means, MeansAt
<1> QED BY <1>10 DEF tx, r

\* truncate keeps the bytes before the size and no others.
LEMMA TruncateMeans ==
  ASSUME NEW m, AreRegions(m), Disjoint(m), NEW size \in Nat, NEW o \in Nat, NEW v
  PROVE  Holds(Truncate(m, size), o, v) <=> o < size /\ Holds(m, o, v)
<1> DEFINE rest   == {r \in m : r.first < size}
           Cut(r) == IF IsLast(rest, r) /\ EndOf(r) > size
                     THEN KeepFront(r, size - r.first) ELSE r
<1>1. Truncate(m, size) = {Cut(r) : r \in rest}
  BY DEF Truncate
<1>2. ASSUME NEW r \in rest
      PROVE  /\ Covers(Cut(r), o) <=> o < size /\ Covers(r, o)
             /\ Covers(Cut(r), o) => ByteIn(Cut(r), o) = ByteIn(r, o)
  <2>1. /\ IsRegion(r) /\ r.first \in Nat /\ Len(r.data) \in Nat
        /\ EndOf(r) \in Nat /\ EndOf(r) = r.first + Len(r.data)
    BY RegionEnds, LenProperties DEF AreRegions, IsRegion
  <2>2. CASE IsLast(rest, r) /\ EndOf(r) > size
    <3>1. size - r.first \in Nat /\ 0 < size - r.first /\ size - r.first <= Len(r.data)
      BY <2>1, <2>2
    <3>2. /\ KeepFront(r, size - r.first).first = r.first
          /\ EndOf(KeepFront(r, size - r.first)) = r.first + (size - r.first)
          /\ SameBytes(KeepFront(r, size - r.first), r)
      BY <2>1, <3>1, KeptFront, KeptFrontBytes
    <3> QED BY <2>1, <2>2, <3>2 DEF Covers, SameBytes
  <2>3. CASE EndOf(r) <= size
    BY <2>1, <2>3 DEF Covers
  <2>4. CASE ~IsLast(rest, r)
    <3>1. PICK q \in rest : ~(q.first <= r.first)
      BY <2>4 DEF IsLast
    <3>2. q.first \in Nat /\ EndOf(q) \in Nat /\ EndOf(q) > q.first
      BY RegionEnds DEF AreRegions, IsRegion
    <3>3. q = r \/ EndOf(q) <= r.first \/ EndOf(r) <= q.first
      BY DEF Disjoint
    <3>4. EndOf(r) <= size
      BY <2>1, <3>1, <3>2, <3>3
    <3> QED BY <2>3, <3>4
  <2> QED BY <2>1, <2>2, <2>3, <2>4
<1>3. \A r \in m \ rest : Covers(r, o) => ~(o < size)
  BY DEF Covers, AreRegions, IsRegion
<1> HIDE DEF rest, Cut
<1> QED BY <1>1, <1>2, <1>3 DEF Holds, rest

(***************************************************************************)
(* The invariant.  Between the preparation and the commit of a write the   *)
(* map changes only by commits of other writes that fill gaps, each within *)
(* its own range: what was prepared still fits.                            *)
(***************************************************************************)
RequestOf(h) == pending[h].req

PendingFits(h) ==
  /\ RequestOf(h).off \in Nat
  /\ RequestOf(h).data \in Seq(Bytes)
  /\ Prepared(map, pending[h].tx)
  /\ Means(map, pending[h].tx, RequestOf(h))
  /\ ~RequestOf(h).overwrite =>
       /\ pending[h].tx.erase = {}
       /\ \A r \in pending[h].tx.insert :
            RequestOf(h).off <= r.first /\ EndOf(r) <= EndOfRequest(RequestOf(h))

PendingApart(g, h) ==
  /\ ~RequestOf(g).overwrite
  /\ ~RequestOf(h).overwrite
  /\ Apart(RequestOf(g), RequestOf(h))

ApartInv ==
  /\ AreRegions(map)
  /\ Disjoint(map)
  /\ pending = [h \in Handles |-> pending[h]]
  /\ \A h \in Handles : ~Idle(h) => PendingFits(h)
  /\ \A g, h \in Handles : g # h /\ ~Idle(g) /\ ~Idle(h) => PendingApart(g, h)

\* The empty map, on which nothing is prepared, has the invariant.
LEMMA ApartInit == Init => ApartInv
  BY DEF Init, ApartInv, AreRegions, Disjoint, Idle

\* The bytes of a request are a sequence.
LEMMA BlockIsSeq ==
  ASSUME NEW data \in Blocks
  PROVE  data \in Seq(Bytes)
  BY IsASeq, MaxOffAssumption DEF Blocks

\* Preparing a write keeps the invariant.
LEMMA WriteAtStep ==
  ASSUME ApartInv, ~FillAnywhere,
         NEW h \in Handles, NEW off \in 0 .. MaxOff, NEW data \in Blocks,
         NEW ow \in Overwrites, WriteAt(h, off, data, ow)
  PROVE  ApartInv'
<1> DEFINE r  == Request(off, data, ow)
           tx == WriteTx(map, off, data, ow)
<1>1. /\ Idle(h) /\ MayPrepare(h, r)
      /\ ow \/ AtOrBefore(map, off) # {}
      /\ pending' = [pending EXCEPT ![h] = [req |-> r, tx |-> tx]]
      /\ map' = map /\ off + Len(data) <= MaxOff
  BY DEF WriteAt
<1>2. off \in Nat /\ data \in Seq(Bytes) /\ ow \in BOOLEAN
  BY BlockIsSeq, MaxOffAssumption, OverwritesAssumption
<1>3. AreRegions(map) /\ Disjoint(map)
  BY DEF ApartInv
<1>4. r.off = off /\ r.data = data /\ r.overwrite = ow /\ EndOfRequest(r) = off + Len(data)
  BY DEF Request, EndOfRequest
<1>5. /\ Prepared(map, tx) /\ Means(map, tx, r)
      /\ ~ow => /\ tx.erase = {}
                /\ \A x \in tx.insert : off <= x.first /\ EndOf(x) <= off + Len(data)
  <2>1. CASE ow
    BY <1>1, <1>2, <1>3, <2>1, OverwriteIsPrepared, OverwriteMeans DEF WriteTx
  <2>2. CASE ~ow
    BY <1>1, <1>2, <1>3, <2>2, FillIsPrepared, FillMeans DEF WriteTx
  <2> QED BY <2>1, <2>2
<1> HIDE DEF r, tx
<1>6. pending' = [g \in Handles |-> IF g = h THEN [req |-> r, tx |-> tx] ELSE pending[g]]
  BY <1>1 DEF ApartInv
<1>7. /\ pending'[h] = [req |-> r, tx |-> tx]
      /\ \A g \in Handles \ {h} : pending'[g] = pending[g]
  BY <1>6
<1>8. ASSUME NEW g \in Handles, ~Idle(g)'
      PROVE  PendingFits(g)'
  <2>1. CASE g = h
    BY <1>1, <1>2, <1>4, <1>5, <1>7, <2>1 DEF PendingFits, RequestOf
  <2>2. CASE g # h
    <3>1. ~Idle(g) /\ pending'[g] = pending[g]
      BY <1>7, <1>8, <2>2 DEF Idle
    <3>2. PendingFits(g)
      BY <3>1 DEF ApartInv
    <3> QED BY <1>1, <3>1, <3>2 DEF PendingFits, RequestOf
  <2> QED BY <2>1, <2>2
<1>9. ASSUME NEW g \in Handles \ {h}, ~Idle(g)'
      PROVE  PendingApart(g, h)' /\ PendingApart(h, g)'
  <2>1. ~Idle(g) /\ pending'[g] = pending[g]
    BY <1>7, <1>9 DEF Idle
  <2>2. ~r.overwrite /\ ~pending[g].req.overwrite /\ Apart(r, pending[g].req)
    BY <1>1, <2>1 DEF MayPrepare
  <2> QED BY <1>7, <2>1, <2>2 DEF PendingApart, RequestOf, Apart
<1>10. ASSUME NEW f \in Handles \ {h}, NEW g \in Handles \ {h}, f # g, ~Idle(f)', ~Idle(g)'
       PROVE  PendingApart(f, g)'
  <2>1. ~Idle(f) /\ ~Idle(g) /\ pending'[f] = pending[f] /\ pending'[g] = pending[g]
    BY <1>7, <1>10 DEF Idle
  <2>2. PendingApart(f, g)
    BY <1>10, <2>1 DEF ApartInv
  <2> QED BY <2>1, <2>2 DEF PendingApart, RequestOf
<1>11. AreRegions(map)' /\ Disjoint(map)' /\ pending' = [g \in Handles |-> pending'[g]]
  BY <1>1, <1>3, <1>6
<1> QED BY <1>8, <1>9, <1>10, <1>11 DEF ApartInv

\* A commit that fills gaps in its own range does not change what another
\* prepared write means.
LEMMA OtherFill ==
  ASSUME NEW m, NEW t, NEW u, NEW q, NEW r, AreRegions(m),
         q.off \in Nat, q.data \in Seq(Bytes), r.off \in Nat, r.data \in Seq(Bytes),
         Prepared(m, t), Prepared(m, u), t.erase = {}, u.erase = {}, Means(m, u, r),
         \A x \in t.insert : q.off <= x.first /\ EndOf(x) <= EndOfRequest(q),
         \A x \in u.insert : r.off <= x.first /\ EndOf(x) <= EndOfRequest(r),
         Apart(q, r), ~r.overwrite
  PROVE  Means(CommitTx(m, t), u, r)
<1> DEFINE n == CommitTx(m, t)
<1>1. n = m \union t.insert
  BY CommitIsPlain
<1>2. EndOfRequest(q) \in Nat /\ EndOfRequest(r) \in Nat
  BY LenProperties DEF EndOfRequest
<1>3. /\ \A x \in t.insert : x.first \in Nat /\ EndOf(x) \in Nat
      /\ \A x \in u.insert : x.first \in Nat /\ EndOf(x) \in Nat
  BY RegionEnds DEF Prepared, AreRegions, IsRegion
<1> HIDE DEF n
<1>4. ASSUME NEW o \in Nat, NEW v, InRequest(r, o)
      PROVE  /\ Holds(n, o, v) <=> Holds(m, o, v)
             /\ Holds(n \union u.insert, o, v) <=> Holds(m \union u.insert, o, v)
             /\ Covered(n, o) <=> Covered(m, o)
  <2>1. \A x \in t.insert : ~Covers(x, o)
    BY <1>2, <1>3, <1>4 DEF InRequest, Covers, Apart
  <2> QED BY <1>1, <2>1 DEF Holds, Covered, Covers
<1>5. ASSUME NEW o \in Nat, NEW v, ~InRequest(r, o)
      PROVE  Holds(n \union u.insert, o, v) <=> Holds(n, o, v)
  <2>1. \A x \in u.insert : ~Covers(x, o)
    BY <1>2, <1>3, <1>5 DEF InRequest, Covers
  <2> QED BY <2>1 DEF Holds
<1>6. ASSUME NEW o \in Nat, NEW v
      PROVE  Holds((n \ u.erase) \union u.insert, o, v)
             <=> IF WritesAt(n, r, o) THEN v = r.data[o - r.off + 1] ELSE Holds(n, o, v)
  <2>1. (n \ u.erase) \union u.insert = n \union u.insert /\ (m \ u.erase) \union u.insert = m \union u.insert
    OBVIOUS
  <2>2. Holds(m \union u.insert, o, v)
        <=> IF WritesAt(m, r, o) THEN v = r.data[o - r.off + 1] ELSE Holds(m, o, v)
    BY <2>1 DEF Means, MeansAt
  <2>3. CASE InRequest(r, o)
    BY <1>4, <2>1, <2>2, <2>3 DEF WritesAt
  <2>4. CASE ~InRequest(r, o)
    BY <1>5, <2>1, <2>4 DEF WritesAt
  <2> QED BY <2>3, <2>4
<1>7. Means(n, u, r)
  BY <1>6 DEF Means, MeansAt
<1> QED BY <1>7 DEF n

\* Committing one keeps it: what the other handles have prepared still fits.
LEMMA CommitStep ==
  ASSUME ApartInv, NEW h \in Handles, Commit(h)
  PROVE  ApartInv'
<1> DEFINE tx == pending[h].tx
<1>1. /\ ~Idle(h) /\ map' = CommitTx(map, tx)
      /\ pending' = [pending EXCEPT ![h] = None]
  BY DEF Commit
<1>2. AreRegions(map) /\ Disjoint(map) /\ PendingFits(h)
  BY <1>1 DEF ApartInv
<1>3. AreRegions(map') /\ Disjoint(map')
  BY <1>1, <1>2, CommitKeepsApart DEF PendingFits
<1>4. /\ pending' = [g \in Handles |-> IF g = h THEN None ELSE pending[g]]
      /\ Idle(h)'
  BY <1>1 DEF ApartInv, Idle
<1>5. ASSUME NEW g \in Handles, ~Idle(g)'
      PROVE  g # h /\ ~Idle(g) /\ pending'[g] = pending[g]
  BY <1>4, <1>5 DEF Idle
<1>6. ASSUME NEW g \in Handles, ~Idle(g)'
      PROVE  PendingFits(g)'
  <2>1. g # h /\ ~Idle(g) /\ pending'[g] = pending[g]
    BY <1>5, <1>6
  <2>2. PendingFits(g) /\ PendingApart(g, h)
    BY <1>1, <2>1 DEF ApartInv
  <2>3. pending[g].tx.erase = {} /\ tx.erase = {}
    BY <1>2, <2>2 DEF PendingFits, PendingApart
  <2>4. ASSUME NEW x \in pending[g].tx.insert, NEW q \in map'
        PROVE  ClearOf(x, q)
    <3>1. CASE q \in map
      BY <2>2, <2>3, <3>1 DEF PendingFits, Prepared
    <3>2. CASE q \in tx.insert
      <4>1. /\ RequestOf(g).off <= x.first /\ EndOf(x) <= EndOfRequest(RequestOf(g))
            /\ RequestOf(h).off <= q.first /\ EndOf(q) <= EndOfRequest(RequestOf(h))
        BY <1>2, <2>2, <2>4, <3>2 DEF PendingFits, PendingApart
      <4>2. /\ IsRegion(x) /\ IsRegion(q)
        BY <1>2, <2>2, <2>4, <3>2 DEF PendingFits, Prepared, AreRegions
      <4>3. /\ RequestOf(g).off \in Nat /\ EndOfRequest(RequestOf(g)) \in Nat
            /\ RequestOf(h).off \in Nat /\ EndOfRequest(RequestOf(h)) \in Nat
        BY <1>2, <2>2, LenProperties DEF PendingFits, EndOfRequest
      <4>4. /\ x.first \in Nat /\ EndOf(x) \in Nat /\ q.first \in Nat /\ EndOf(q) \in Nat
        BY <4>2, RegionEnds DEF IsRegion
      <4> QED BY <2>2, <4>1, <4>3, <4>4 DEF PendingApart, Apart, ClearOf
    <3> QED BY <1>1, <2>4, <3>1, <3>2 DEF CommitTx
  <2>5. Prepared(map', pending[g].tx)
    BY <2>2, <2>3, <2>4 DEF Prepared, PendingFits
  <2>6. Means(map', pending[g].tx, RequestOf(g))
    <3> DEFINE q == RequestOf(h)
               r == RequestOf(g)
               u == pending[g].tx
    <3>1. /\ q.off \in Nat /\ q.data \in Seq(Bytes) /\ r.off \in Nat /\ r.data \in Seq(Bytes)
          /\ Prepared(map, tx) /\ Prepared(map, u) /\ Means(map, u, r)
          /\ Apart(q, r) /\ ~q.overwrite /\ ~r.overwrite
      BY <1>2, <2>2 DEF PendingFits, PendingApart, Apart
    <3>2. /\ tx.erase = {} /\ u.erase = {}
          /\ \A x \in tx.insert : q.off <= x.first /\ EndOf(x) <= EndOfRequest(q)
          /\ \A x \in u.insert : r.off <= x.first /\ EndOf(x) <= EndOfRequest(r)
      BY <1>2, <2>2, <3>1 DEF PendingFits
    <3> HIDE DEF q, r, u, tx
    <3>3. Means(CommitTx(map, tx), u, r)
      BY <1>2, <3>1, <3>2, OtherFill
    <3> QED BY <1>1, <3>3 DEF u, r, tx
  <2> QED BY <2>1, <2>2, <2>5, <2>6 DEF PendingFits, RequestOf
<1>7. ASSUME NEW f \in Handles, NEW g \in Handles, f # g, ~Idle(f)', ~Idle(g)'
      PROVE  PendingApart(f, g)'
  <2>1. ~Idle(f) /\ ~Idle(g) /\ pending'[f] = pending[f] /\ pending'[g] = pending[g]
    BY <1>5, <1>7
  <2>2. PendingApart(f, g)
    BY <1>7, <2>1 DEF ApartInv
  <2> QED BY <2>1, <2>2 DEF PendingApart, RequestOf
<1> QED BY <1>3, <1>4, <1>6, <1>7 DEF ApartInv

\* Dropping one keeps it.
LEMMA DropStep ==
  ASSUME ApartInv, NEW h \in Handles, Drop(h)
  PROVE  ApartInv'
<1>1. /\ map' = map
      /\ pending' = [g \in Handles |-> IF g = h THEN None ELSE pending[g]]
  BY DEF Drop, ApartInv
<1>2. ASSUME NEW g \in Handles, ~Idle(g)'
      PROVE  ~Idle(g) /\ pending'[g] = pending[g]
  BY <1>1, <1>2 DEF Idle
<1>3. ASSUME NEW g \in Handles, ~Idle(g)'
      PROVE  PendingFits(g)'
  BY <1>1, <1>2, <1>3 DEF ApartInv, PendingFits, RequestOf
<1>4. ASSUME NEW f \in Handles, NEW g \in Handles, f # g, ~Idle(f)', ~Idle(g)'
      PROVE  PendingApart(f, g)'
  BY <1>2, <1>4 DEF ApartInv, PendingApart, RequestOf
<1>5. AreRegions(map)' /\ Disjoint(map)' /\ pending' = [g \in Handles |-> pending'[g]]
  BY <1>1 DEF ApartInv
<1> QED BY <1>3, <1>4, <1>5 DEF ApartInv

\* truncate and clear are called when no write is prepared.
LEMMA ShrinkStep ==
  ASSUME ApartInv, \A h \in Handles : Idle(h), UNCHANGED pending,
         AreRegions(map'), Disjoint(map')
  PROVE  ApartInv'
  BY DEF ApartInv, Idle

\* Every step keeps the invariant.
LEMMA ApartNext ==
  ASSUME ~FillAnywhere, ApartInv, [Next]_vars
  PROVE  ApartInv'
<1>1. ASSUME NEW h \in Handles, NEW off \in 0 .. MaxOff, NEW data \in Blocks,
             NEW ow \in Overwrites, WriteAt(h, off, data, ow)
      PROVE  ApartInv'
  BY <1>1, WriteAtStep
<1>2. ASSUME NEW h \in Handles, Commit(h)
      PROVE  ApartInv'
  BY <1>2, CommitStep
<1>3. ASSUME NEW h \in Handles, Drop(h)
      PROVE  ApartInv'
  BY <1>3, DropStep
<1>4. ASSUME NEW size \in 0 .. MaxOff, TruncateTo(size)
      PROVE  ApartInv'
  <2>1. size \in Nat /\ AreRegions(map) /\ Disjoint(map)
    BY MaxOffAssumption DEF ApartInv
  <2>2. AreRegions(map') /\ Disjoint(map')
    BY <1>4, <2>1, TruncateKeepsApart DEF TruncateTo
  <2> QED BY <1>4, <2>2, ShrinkStep DEF TruncateTo
<1>5. CASE Clear
  <2>1. AreRegions(map') /\ Disjoint(map')
    BY <1>5 DEF Clear, AreRegions, Disjoint
  <2> QED BY <1>5, <2>1, ShrinkStep DEF Clear
<1>6. CASE UNCHANGED vars
  BY <1>6 DEF vars, ApartInv, Idle, PendingFits, PendingApart, RequestOf
<1> QED BY <1>1, <1>2, <1>3, <1>4, <1>5, <1>6 DEF Next

(***************************************************************************)
(* Regions never overlap, whatever is written, prepared together, dropped, *)
(* truncated or cleared: tx::commit's assertions hold (replacement_map.cc, *)
(* 330-332).  Filling writes must begin at or after the first region: the  *)
(* code does not look for others when they do not.                         *)
(***************************************************************************)
THEOREM RegionsStayApart ==
  ASSUME ~FillAnywhere
  PROVE  Spec => []NoOverlap
<1>1. ApartInv => NoOverlap
  BY DEF ApartInv, NoOverlap
<1>2. ApartInv /\ [Next]_vars => ApartInv'
  BY ApartNext
<1> QED BY ApartInit, <1>1, <1>2, PTL DEF Spec

(***************************************************************************)
(* Reading.  The region at an offset is the one read_at finds.             *)
(***************************************************************************)
LEMMA CoveringIsHolding ==
  ASSUME NEW m, AreRegions(m), Disjoint(m), NEW off \in Nat, NEW r \in m,
         r.first <= off, off < EndOf(r)
  PROVE  r \in Holding(m, off)
<1>1. \A q \in m : q.first \in Nat /\ EndOf(q) \in Nat /\ EndOf(q) > q.first
  BY RegionEnds DEF AreRegions, IsRegion
<1>2. \A q \in m : q.first <= off => q.first <= r.first
  BY <1>1 DEF Disjoint
<1> QED BY <1>1, <1>2 DEF Holding, AtOrBefore

\* The length a read leaves when no region is at its offset: as far as the
\* next region, or all of it.
LEMMA ClampIsGap ==
  ASSUME NEW m, AreRegions(m), NEW off \in Nat, NEW n \in Nat
  PROVE  /\ ClampToGap(m, off, n) \in 0 .. n
         /\ \A r \in After(m, off) : ClampToGap(m, off, n) <= r.first - off
         /\ \/ ClampToGap(m, off, n) = n
            \/ \E r \in After(m, off) : ClampToGap(m, off, n) = r.first - off
<1> DEFINE IsGap(k) == /\ \A r \in After(m, off) : k <= r.first - off
                       /\ (k = n \/ \E r \in After(m, off) : k = r.first - off)
           D == {k \in 0 .. n : \E r \in After(m, off) : k = r.first - off}
<1>1. \A r \in After(m, off) : r.first \in Nat /\ r.first > off
  BY DEF After, AreRegions, IsRegion
<1>2. \E k \in 0 .. n : IsGap(k)
  <2>1. CASE D = {}
    <3>1. ASSUME NEW r \in After(m, off)
          PROVE  n <= r.first - off
      <4>1. r.first - off \notin D /\ r.first \in Nat /\ r.first > off
        BY <1>1, <2>1
      <4> QED BY <4>1
    <3> QED BY <3>1
  <2>2. CASE D # {}
    <3>1. D \in SUBSET Int /\ IsFiniteSet(D)
      <4>1. D \in SUBSET (0 .. n) /\ D \in SUBSET Int
        OBVIOUS
      <4>2. IsFiniteSet(0 .. n)
        BY FS_Interval
      <4> HIDE DEF D
      <4> QED BY <4>1, <4>2, FS_Subset
    <3>2. PICK k \in D : \A d \in D : k <= d
      <4> HIDE DEF D
      <4> QED BY <2>2, <3>1, FiniteMin
    <3>3. k \in 0 .. n /\ \E r \in After(m, off) : k = r.first - off
      BY <3>2
    <3>4. ASSUME NEW r \in After(m, off)
          PROVE  k <= r.first - off
      <4>1. r.first - off \in Nat
        BY <1>1
      <4>2. CASE r.first - off <= n
        <5>1. r.first - off \in D
          BY <4>1, <4>2
        <5> QED BY <3>2, <5>1
      <4>3. CASE ~(r.first - off <= n)
        BY <3>3, <4>1, <4>3
      <4> QED BY <4>2, <4>3
    <3> QED BY <3>3, <3>4
  <2> QED BY <2>1, <2>2
<1>3. ClampToGap(m, off, n) = CHOOSE k \in 0 .. n : IsGap(k)
  BY DEF ClampToGap
<1> HIDE DEF IsGap
<1>4. ClampToGap(m, off, n) \in 0 .. n /\ IsGap(ClampToGap(m, off, n))
  BY <1>2, <1>3
<1> QED BY <1>4 DEF IsGap

\* A read of a region gives its bytes from the offset on, as many as were
\* asked for and the region has.
LEMMA ReadsRegion ==
  ASSUME NEW m, AreRegions(m), Disjoint(m), NEW off \in Nat, NEW n \in Nat,
         Holding(m, off) # {}
  PROVE  /\ Len(ReadAt(m, off, n).data) \in 0 .. n
         /\ n > 0 => Len(ReadAt(m, off, n).data) > 0
         /\ \A i \in 1 .. Len(ReadAt(m, off, n).data) :
              ReadAt(m, off, n).data[i] = ByteAt(m, off + i - 1)
<1> DEFINE h == CHOOSE r \in Holding(m, off) : TRUE
           k == off - h.first
           l == Least(n, Len(h.data) - k)
<1>1. ReadAt(m, off, n).data = SubSeq(h.data, k + 1, k + l)
  BY DEF ReadAt
<1>2. h \in m /\ h.first <= off /\ off < EndOf(h)
  BY DEF Holding, AtOrBefore
<1> HIDE DEF h
<1>3. /\ h.first \in Nat /\ h.data \in Seq(Bytes) /\ Len(h.data) \in Nat
      /\ EndOf(h) = h.first + Len(h.data)
  BY <1>2, LenProperties, RegionEnds DEF AreRegions, IsRegion
<1>4. k \in Nat /\ l \in 0 .. n /\ k + l <= Len(h.data) /\ (n > 0 => l > 0)
  <2>1. k \in Nat /\ Len(h.data) - k \in Nat \ {0}
    BY <1>2, <1>3
  <2> HIDE DEF k
  <2>2. l = IF n <= Len(h.data) - k THEN n ELSE Len(h.data) - k
    BY DEF Least
  <2> QED BY <1>3, <2>1, <2>2
<1> HIDE DEF k, l
<1>5. \A i \in k + 1 .. k + l : h.data[i] \in Bytes
  BY <1>3, <1>4, ElementOfSeq
<1>6. k + 1 \in Int /\ k + l \in Int
  BY <1>4
<1>7. /\ Len(SubSeq(h.data, k + 1, k + l)) = l
      /\ \A i \in 1 .. l : SubSeq(h.data, k + 1, k + l)[i] = h.data[k + i]
  <2> DEFINE a == k + 1
             b == k + l
  <2>1. a \in Int /\ b \in Int /\ \A i \in a .. b : h.data[i] \in Bytes
    BY <1>5, <1>6
  <2>2. /\ Len(SubSeq(h.data, a, b)) = IF a <= b THEN b - a + 1 ELSE 0
        /\ \A i \in 1 .. b - a + 1 : SubSeq(h.data, a, b)[i] = h.data[a + i - 1]
    <3> HIDE DEF a, b
    <3> QED BY <2>1, SubSeqProperties
  <2>3. \A i \in 1 .. l : i \in 1 .. b - a + 1 /\ a + i - 1 = k + i
    BY <1>4
  <2>4. (IF a <= b THEN b - a + 1 ELSE 0) = l
    BY <1>4
  <2> DEFINE s == SubSeq(h.data, a, b)
  <2>5. Len(s) = l
    <3>1. Len(s) = IF a <= b THEN b - a + 1 ELSE 0
      BY <2>2
    <3> HIDE DEF s, a, b
    <3> QED BY <2>4, <3>1
  <2>6. ASSUME NEW i \in 1 .. l
        PROVE  s[i] = h.data[k + i]
    <3>1. s[i] = h.data[a + i - 1]
      BY <2>2, <2>3
    <3> HIDE DEF s, a, b
    <3> QED BY <2>3, <3>1
  <2> QED BY <2>5, <2>6
<1>8. ASSUME NEW i \in 1 .. l
      PROVE  h.data[k + i] = ByteAt(m, off + i - 1)
  <2>1. /\ off + i - 1 \in Nat /\ Covers(h, off + i - 1)
        /\ (off + i - 1) - h.first + 1 = k + i
    BY <1>2, <1>3, <1>4 DEF Covers, k
  <2>2. Holds(m, off + i - 1, h.data[k + i])
    BY <1>2, <2>1 DEF Holds, ByteIn
  <2> QED BY <2>1, <2>2, ByteIsHeld
<1> QED BY <1>1, <1>4, <1>7, <1>8

\* A read where no region is gives no bytes and the length of the gap.
LEMMA ReadsGap ==
  ASSUME NEW m, AreRegions(m), Disjoint(m), NEW off \in Nat, NEW n \in Nat,
         Holding(m, off) = {}
  PROVE  /\ ReadAt(m, off, n).data = <<>>
         /\ n > 0 =>
              /\ ReadAt(m, off, n).left > 0
              /\ \A i \in 0 .. ReadAt(m, off, n).left - 1 : ByteAt(m, off + i) = None
              /\ ReadAt(m, off, n).left < n => ByteAt(m, off + ReadAt(m, off, n).left) # None
<1> DEFINE c == ClampToGap(m, off, n)
<1>1. ReadAt(m, off, n) = [data |-> <<>>, left |-> c]
  BY DEF ReadAt
<1>2. /\ c \in 0 .. n
      /\ \A r \in After(m, off) : c <= r.first - off
      /\ (c = n \/ \E r \in After(m, off) : c = r.first - off)
  BY ClampIsGap
<1> HIDE DEF c
<1>3. \A r \in m : r.first \in Nat /\ EndOf(r) \in Nat /\ EndOf(r) > r.first
  BY RegionEnds DEF AreRegions, IsRegion
<1>4. n > 0 => c > 0
  BY <1>2, <1>3 DEF After
<1>5. ASSUME NEW i \in 0 .. c - 1
      PROVE  ByteAt(m, off + i) = None
  <2>1. ASSUME NEW r \in m, r.first <= off + i, off + i < EndOf(r)
        PROVE  FALSE
    <3>1. CASE r.first > off
      BY <1>2, <1>3, <2>1, <3>1 DEF After
    <3>2. CASE ~(r.first > off)
      BY <1>2, <1>3, <2>1, <3>2, CoveringIsHolding
    <3> QED BY <3>1, <3>2
  <2>2. ~Covered(m, off + i) /\ off + i \in Nat
    BY <1>2, <2>1 DEF Covered
  <2> QED BY <2>2, ByteIsHeld
<1>6. ASSUME c < n
      PROVE  ByteAt(m, off + c) # None
  <2>1. PICK r \in After(m, off) : c = r.first - off
    BY <1>2, <1>6
  <2>2. Covered(m, off + c) /\ off + c \in Nat
    BY <1>2, <1>3, <2>1 DEF After, Covered
  <2> QED BY <2>2, ByteIsHeld, BytesAssumption
<1> QED BY <1>1, <1>4, <1>5, <1>6

(***************************************************************************)
(* A read returns a prefix of the bytes the map has, and where it has none *)
(* the length of the gap, so that a caller who reads on by what it was     *)
(* given misses no region (replacement_map.h, 174-185).                    *)
(***************************************************************************)
THEOREM ReadsGiveTheBytes ==
  ASSUME ~FillAnywhere
  PROVE  Spec => []ReadsAgree
<1>1. ApartInv => ReadsAgree
  <2> SUFFICES ASSUME ApartInv, NEW off \in Offs, NEW n \in 0 .. MaxOff
               PROVE  LET r == ReadAt(map, off, n)
                          k == Len(r.data)
                      IN  /\ k <= n
                          /\ \A i \in 1 .. k : r.data[i] = ByteAt(map, off + i - 1)
                          /\ k = 0 /\ n > 0 =>
                               /\ r.left > 0
                               /\ \A i \in 0 .. r.left - 1 : ByteAt(map, off + i) = None
                               /\ r.left < n => ByteAt(map, off + r.left) # None
    BY DEF ReadsAgree
  <2>1. /\ off \in Nat /\ n \in Nat
        /\ AreRegions(map) /\ Disjoint(map)
    BY MaxOffAssumption DEF ApartInv, Offs
  <2>2. CASE Holding(map, off) # {}
    BY <2>1, <2>2, ReadsRegion
  <2>3. CASE Holding(map, off) = {}
    <3>1. Len(ReadAt(map, off, n).data) = 0
      BY <2>1, <2>3, ReadsGap, EmptySeq
    <3> QED BY <2>1, <2>3, <3>1, ReadsGap
  <2> QED BY <2>2, <2>3
<1>2. ApartInv /\ [Next]_vars => ApartInv'
  BY ApartNext
<1> QED BY ApartInit, <1>1, <1>2, PTL DEF Spec

(***************************************************************************)
(* Types.  Whatever is prepared is a request with regions within bounds.   *)
(***************************************************************************)
LEMMA RegionIsTyped ==
  ASSUME NEW r, IsRegion(r)
  PROVE  r \in AllRegions
<1>1. /\ r.first \in Nat /\ r.data \in Seq(Bytes) /\ Len(r.data) \in Nat /\ Len(r.data) > 0
      /\ r.first + Len(r.data) <= MaxOff
      /\ r = [first |-> r.first, data |-> r.data]
  BY LenProperties DEF IsRegion, EndOf, Region
<1>2. r.first \in Offs /\ Len(r.data) \in 0 .. MaxOff
  BY <1>1, MaxOffAssumption DEF Offs
<1>3. r.data \in [1 .. Len(r.data) -> Bytes] /\ r.data # <<>>
  BY <1>1, LenProperties, EmptySeq
<1>4. r.data \in Blocks
  BY <1>2, <1>3 DEF Blocks
<1> QED BY <1>1, <1>2, <1>3, <1>4 DEF AllRegions

\* So do the regions of a write and its request: what write_at prepares is
\* never taken for an idle handle.
LEMMA WriteIsTyped ==
  ASSUME ~FillAnywhere, ApartInv, NEW h \in Handles, NEW off \in 0 .. MaxOff,
         NEW data \in Blocks, NEW ow \in Overwrites, WriteAt(h, off, data, ow)
  PROVE  [req |-> Request(off, data, ow), tx |-> WriteTx(map, off, data, ow)] \in AllWrites
<1> DEFINE tx == WriteTx(map, off, data, ow)
<1>1. Request(off, data, ow) \in AllRequests
  BY OverwritesAssumption DEF Request, AllRequests
<1>2. tx = [erase |-> tx.erase, insert |-> tx.insert]
  BY DEF WriteTx, OverwriteTx, FillTx
<1>3. /\ ow \/ AtOrBefore(map, off) # {}
      /\ off + Len(data) <= MaxOff
      /\ off \in Nat /\ data \in Seq(Bytes) /\ ow \in BOOLEAN
  BY BlockIsSeq, MaxOffAssumption, OverwritesAssumption DEF WriteAt
<1>4. AreRegions(map) /\ Disjoint(map)
  BY DEF ApartInv
<1>5. Prepared(map, tx)
  <2>1. CASE ow
    BY <1>3, <1>4, <2>1, OverwriteIsPrepared DEF WriteTx
  <2>2. CASE ~ow
    BY <1>3, <1>4, <2>2, FillIsPrepared DEF WriteTx
  <2> QED BY <2>1, <2>2
<1> HIDE DEF tx
<1>6. tx.erase \in SUBSET AllRegions /\ tx.insert \in SUBSET AllRegions
  BY <1>4, <1>5, RegionIsTyped DEF Prepared, AreRegions
<1> QED BY <1>1, <1>2, <1>6 DEF AllWrites, tx

TypedInv == \A h \in Handles : ~Idle(h) => pending[h] \in AllWrites

\* What is prepared keeps its type.
LEMMA TypedNext ==
  ASSUME ~FillAnywhere, ApartInv, ApartInv', TypedInv, [Next]_vars
  PROVE  TypedInv'
<1>1. ASSUME NEW h \in Handles, NEW off \in 0 .. MaxOff, NEW data \in Blocks,
             NEW ow \in Overwrites, WriteAt(h, off, data, ow)
      PROVE  TypedInv'
  <2> DEFINE tx == WriteTx(map, off, data, ow)
  <2>1. pending' = [g \in Handles |-> IF g = h THEN [req |-> Request(off, data, ow), tx |-> tx]
                                     ELSE pending[g]]
    BY <1>1 DEF WriteAt, ApartInv
  <2>2. [req |-> Request(off, data, ow), tx |-> tx] \in AllWrites
    BY <1>1, WriteIsTyped
  <2> QED BY <2>1, <2>2 DEF TypedInv, Idle
<1>2. ASSUME NEW h \in Handles, Commit(h) \/ Drop(h)
      PROVE  TypedInv'
  <2>1. pending' = [g \in Handles |-> IF g = h THEN None ELSE pending[g]]
    BY <1>2 DEF Commit, Drop, ApartInv
  <2> QED BY <2>1 DEF TypedInv, Idle
<1>3. CASE UNCHANGED pending
  BY <1>3 DEF TypedInv, Idle
<1> QED BY <1>1, <1>2, <1>3 DEF Next, TruncateTo, Clear, vars

\* The regions of the map and the writes prepared on it keep their types: no
\* region is empty or exceeds the offsets (map_, to_erase_ and to_insert_).
THEOREM RegionsAreTyped ==
  ASSUME ~FillAnywhere
  PROVE  Spec => []TypeOK
<1>1. Init => ApartInv /\ TypedInv
  BY ApartInit DEF Init, TypedInv, Idle
<1>2. ApartInv /\ TypedInv /\ [Next]_vars => (ApartInv /\ TypedInv)'
  BY ApartNext, TypedNext
<1>3. ApartInv /\ TypedInv => TypeOK
  BY RegionIsTyped DEF ApartInv, TypedInv, TypeOK, AreRegions, Idle
<1> QED BY <1>1, <1>2, <1>3, PTL DEF Spec

(***************************************************************************)
(* The refinement.                                                         *)
(***************************************************************************)

\* A byte of a map whose regions are apart is known by what the map holds.
LEMMA ByteAtIs ==
  ASSUME NEW m, AreRegions(m), Disjoint(m), NEW n, AreRegions(n), Disjoint(n), NEW o \in Nat,
         \A v : Holds(n, o, v) <=> Holds(m, o, v)
  PROVE  ByteAt(n, o) = ByteAt(m, o)
  BY ByteIsHeld

\* A commit changes the byte at an offset as the request says.
LEMMA CommitBytes ==
  ASSUME ApartInv, ApartInv', NEW h \in Handles, Commit(h), NEW o \in Nat
  PROVE  ByteAt(map', o) = IF /\ RequestOf(h).off <= o
                              /\ o < RequestOf(h).off + Len(RequestOf(h).data)
                              /\ (RequestOf(h).overwrite \/ ByteAt(map, o) = None)
                           THEN RequestOf(h).data[o - RequestOf(h).off + 1]
                           ELSE ByteAt(map, o)
<1> DEFINE r == RequestOf(h)
<1>1. /\ AreRegions(map) /\ Disjoint(map) /\ AreRegions(map') /\ Disjoint(map')
      /\ PendingFits(h)
  BY DEF ApartInv, Commit
<1>2. map' = (map \ pending[h].tx.erase) \union pending[h].tx.insert
  BY <1>1, CommitIsPlain DEF Commit, PendingFits
<1>3. \A v : Holds(map', o, v)
             <=> IF WritesAt(map, r, o) THEN v = r.data[o - r.off + 1] ELSE Holds(map, o, v)
  BY <1>1, <1>2 DEF PendingFits, Means, MeansAt
<1>4. ByteAt(map, o) = None <=> ~Covered(map, o)
  BY <1>1, ByteIsHeld, BytesAssumption
<1>5. WritesAt(map, r, o) <=> (/\ r.off <= o
                               /\ o < r.off + Len(r.data)
                               /\ (r.overwrite \/ ByteAt(map, o) = None))
  BY <1>4 DEF WritesAt, InRequest, EndOfRequest
<1> HIDE DEF r
<1>6. CASE WritesAt(map, r, o)
  <2>1. Holds(map', o, r.data[o - r.off + 1])
    BY <1>3, <1>6
  <2>2. ByteAt(map', o) = r.data[o - r.off + 1]
    BY <1>1, <2>1, ByteIsHeld
  <2> QED BY <1>5, <1>6, <2>2 DEF r
<1>7. CASE ~WritesAt(map, r, o)
  <2>1. ByteAt(map', o) = ByteAt(map, o)
    BY <1>1, <1>3, <1>7, ByteAtIs
  <2> QED BY <1>5, <1>7, <2>1 DEF r
<1> QED BY <1>6, <1>7

\* A truncation drops the bytes from the size on.
LEMMA TruncateBytes ==
  ASSUME ApartInv, ApartInv', NEW size \in Nat, map' = Truncate(map, size), NEW o \in Nat
  PROVE  ByteAt(map', o) = IF o < size THEN ByteAt(map, o) ELSE None
<1>1. /\ AreRegions(map) /\ Disjoint(map) /\ AreRegions(map') /\ Disjoint(map')
  BY DEF ApartInv
<1>2. \A v : Holds(map', o, v) <=> o < size /\ Holds(map, o, v)
  BY <1>1, TruncateMeans
<1>3. CASE o < size
  BY <1>1, <1>2, <1>3, ByteAtIs
<1>4. CASE ~(o < size)
  BY <1>1, <1>2, <1>4, ByteIsHeld
<1> QED BY <1>3, <1>4

\* The empty map is the function without bytes.
LEMMA InitIsByteMap == Init => Function!Init
<1> SUFFICES ASSUME Init PROVE Function!Init
  OBVIOUS
<1>1. \A o \in Offs : ByteAt(map, o) = None
  BY DEF Init, ByteAt, Covered
<1>2. \A h \in Handles : Idle(h)
  BY DEF Init, Idle
<1> QED BY <1>1, <1>2 DEF Function!Init, Function!Offs, Offs, Contents, Requests

\* Every step of the map is one of the function, or leaves it alone.
LEMMA StepIsByteMap ==
  ASSUME ~FillAnywhere, ApartInv, ApartInv', TypedInv, TypedInv', [Next]_vars
  PROVE  [Function!Next]_<<Contents, Requests>>
<1>1. map' = map => Contents' = Contents
  BY DEF Contents
<1>2. pending' = pending => Requests' = Requests
  BY DEF Requests, Idle
<1>3. ASSUME NEW h \in Handles, pending[h] \in AllWrites
      PROVE  ~Idle(h) /\ RequestOf(h) \in AllRequests /\ RequestOf(h) # None
  BY <1>3, NoneAssumption DEF Idle, RequestOf, AllWrites
<1>4. ASSUME NEW h \in Handles, NEW off \in 0 .. MaxOff, NEW data \in Blocks,
             NEW ow \in Overwrites, WriteAt(h, off, data, ow)
      PROVE  Function!Next
  <2> DEFINE r  == Request(off, data, ow)
             tx == WriteTx(map, off, data, ow)
  <2>1. /\ Idle(h) /\ map' = map
        /\ pending' = [g \in Handles |-> IF g = h THEN [req |-> r, tx |-> tx] ELSE pending[g]]
    BY <1>4 DEF WriteAt, ApartInv
  <2>2. r \in AllRequests
    BY OverwritesAssumption DEF Request, AllRequests
  <2>3. [req |-> r, tx |-> tx] # None
    BY <1>4, WriteIsTyped, NoneAssumption
  <2> HIDE DEF r, tx
  <2>4. Requests' = [g \in Handles |-> IF g = h THEN r ELSE Requests[g]]
    BY <2>1, <2>3 DEF Requests, Idle
  <2>5. Requests[h] = None
    BY <2>1 DEF Requests
  <2>6. Requests' = [Requests EXCEPT ![h] = r]
    BY <2>4 DEF Requests
  <2>7. Function!Prepare(h, r)
    BY <1>1, <2>1, <2>5, <2>6 DEF Function!Prepare
  <2>8. r \in Function!Request
    BY <2>2 DEF Function!Request, Function!Blocks, AllRequests, Blocks
  <2> QED BY <2>7, <2>8 DEF Function!Next
<1>5. ASSUME NEW h \in Handles, Commit(h)
      PROVE  Function!Next
  <2>1. /\ ~Idle(h)
        /\ pending' = [g \in Handles |-> IF g = h THEN None ELSE pending[g]]
    BY <1>5 DEF Commit, ApartInv
  <2>2. Requests[h] = RequestOf(h) /\ Requests[h] # None
    BY <1>3, <2>1 DEF TypedInv, Requests, RequestOf
  <2>3. Requests' = [Requests EXCEPT ![h] = None]
    BY <2>1 DEF Requests, Idle
  <2>4. Contents' = [o \in Offs |-> Function!Written(Requests[h], o)]
    <3>1. ASSUME NEW o \in Offs
          PROVE  ByteAt(map', o) = Function!Written(Requests[h], o)
      <4>1. o \in Nat /\ Contents[o] = ByteAt(map, o)
        BY MaxOffAssumption DEF Offs, Contents
      <4> QED BY <1>5, <2>2, <4>1, CommitBytes DEF Function!Written
    <3> QED BY <3>1 DEF Contents
  <2>5. Function!Commit(h)
    BY <2>2, <2>3, <2>4 DEF Function!Commit, Function!Offs, Offs
  <2> QED BY <2>5 DEF Function!Next
<1>6. ASSUME NEW h \in Handles, Drop(h)
      PROVE  Function!Next
  <2>1. /\ map' = map
        /\ pending' = [g \in Handles |-> IF g = h THEN None ELSE pending[g]]
    BY <1>6 DEF Drop, ApartInv
  <2>2. Requests' = [Requests EXCEPT ![h] = None]
    BY <2>1 DEF Requests, Idle
  <2>3. Function!Drop(h)
    BY <1>1, <2>1, <2>2 DEF Function!Drop
  <2> QED BY <2>3 DEF Function!Next
<1>7. ASSUME NEW size \in 0 .. MaxOff, UNCHANGED pending,
             \A o \in Nat : ByteAt(map', o) = IF o < size THEN ByteAt(map, o) ELSE None
      PROVE  Function!Next
  <2>1. Contents' = [o \in Offs |-> IF o < size THEN Contents[o] ELSE None]
    BY <1>7, MaxOffAssumption DEF Contents, Offs
  <2>2. Function!Truncate(size)
    BY <1>2, <1>7, <2>1 DEF Function!Truncate, Function!Offs, Offs
  <2> QED BY <2>2 DEF Function!Next
<1>8. ASSUME NEW size \in 0 .. MaxOff, TruncateTo(size)
      PROVE  Function!Next
  <2>1. size \in Nat
    BY MaxOffAssumption
  <2>2. \A o \in Nat : ByteAt(map', o) = IF o < size THEN ByteAt(map, o) ELSE None
    BY <1>8, <2>1, TruncateBytes DEF TruncateTo
  <2> QED BY <1>7, <1>8, <2>2 DEF TruncateTo
<1>9. CASE Clear
  <2>1. 0 \in 0 .. MaxOff
    BY MaxOffAssumption
  <2>2. \A o \in Nat : ByteAt(map', o) = IF o < 0 THEN ByteAt(map, o) ELSE None
    BY <1>9 DEF Clear, ByteAt, Covered
  <2> QED BY <1>7, <1>9, <2>1, <2>2 DEF Clear
<1>10. CASE UNCHANGED vars
  BY <1>1, <1>2, <1>10 DEF vars
<1> QED BY <1>4, <1>5, <1>6, <1>8, <1>9, <1>10 DEF Next

(***************************************************************************)
(* Users see a partial function from offsets to bytes that changes by      *)
(* whole writes: cutting, joining and skipping regions show nowhere        *)
(* (replacement_map.cc, 56-69, 124-263 and 310-338).                       *)
(***************************************************************************)
THEOREM ImplementsByteMap ==
  ASSUME ~FillAnywhere
  PROVE  Spec => IsByteMap
<1>1. Init => ApartInv /\ TypedInv
  BY ApartInit DEF Init, TypedInv, Idle
<1>2. ApartInv /\ TypedInv /\ [Next]_vars => (ApartInv /\ TypedInv)'
  BY ApartNext, TypedNext
<1>3. ApartInv /\ TypedInv /\ (ApartInv /\ TypedInv)' /\ [Next]_vars
      => [Function!Next]_<<Contents, Requests>>
  BY StepIsByteMap
<1> QED BY <1>1, <1>2, <1>3, InitIsByteMap, PTL DEF Spec, IsByteMap, Function!Spec, Function!bmVars

=============================================================================
