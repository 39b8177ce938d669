------------------------------ MODULE TxFileProofs ------------------------------
(***************************************************************************)
(* Theorems about TxFile: whatever the transactions, the sequencer's list  *)
(* has the records it needs and no others; and where writes are of single  *)
(* bytes and files only grow, every read is a read of the snapshot.        *)
(***************************************************************************)
EXTENDS TxFile, SequenceTheorems, FiniteSetTheorems, TLAPS

(***************************************************************************)
(* The sequencer's list: what its operations keep, and in which order.     *)
(***************************************************************************)
Distinct(list) == \A i, j \in DOMAIN list : list[i].id = list[j].id => i = j

\* h names the elements of list that short has, in the order of the list.
Sublist(short, list, h) ==
  /\ h \in [1 .. Len(short) -> 1 .. Len(list)]
  /\ \A i, j \in 1 .. Len(short) : i < j => h[i] < h[j]
  /\ \A i \in 1 .. Len(short) : short[i] = list[h[i]]

\* A set of positions has a first one.
LEMMA FirstOf ==
  ASSUME NEW P \in SUBSET Nat, P # {}
  PROVE  \E k \in P : \A j \in P : k <= j
<1>1. PICK k \in P : \A y \in P : <<y, k>> \notin OpToRel(<, Nat)
  BY NatLessThanWellFounded, WFMin, Zenon
<1>2. \A j \in P : ~(j < k)
  BY <1>1 DEF OpToRel
<1> QED BY <1>2

\* The list without one of its elements.
LEMMA RemovedElement ==
  ASSUME NEW S, NEW s \in Seq(S), NEW p \in 1 .. Len(s)
  PROVE  /\ RemoveAt(s, p) \in Seq(S)
         /\ Len(RemoveAt(s, p)) = Len(s) - 1
         /\ \A i \in 1 .. Len(s) - 1 : RemoveAt(s, p)[i] = s[IF i < p THEN i ELSE i + 1]
<1>1. Len(s) \in Nat /\ \A i \in 1 .. Len(s) : s[i] \in S
  BY ElementOfSeq, LenProperties
<1> DEFINE f == SubSeq(s, 1, p - 1)
           b == SubSeq(s, p + 1, Len(s))
<1>2. f \in Seq(S) /\ Len(f) = p - 1 /\ \A i \in 1 .. p - 1 : f[i] = s[i]
  BY <1>1, SubSeqProperties
<1>3. b \in Seq(S) /\ Len(b) = Len(s) - p /\ \A i \in 1 .. Len(s) - p : b[i] = s[i + p]
  BY <1>1, SubSeqProperties
<1>4. RemoveAt(s, p) = f \o b
  BY DEF RemoveAt
<1> HIDE DEF f, b
<1>5. /\ f \o b \in Seq(S) /\ Len(f \o b) = Len(f) + Len(b)
      /\ \A i \in 1 .. Len(f) + Len(b) : (f \o b)[i] = IF i <= Len(f) THEN f[i] ELSE b[i - Len(f)]
  BY <1>2, <1>3, ConcatProperties
<1>6. ASSUME NEW i \in 1 .. Len(s) - 1
      PROVE  (f \o b)[i] = s[IF i < p THEN i ELSE i + 1]
  BY <1>1, <1>2, <1>3, <1>5
<1> QED BY <1>1, <1>2, <1>3, <1>4, <1>5, <1>6

\* Unlinking a record takes it out of the list and nothing else.
LEMMA UnlinkKeeps ==
  ASSUME NEW S, NEW list \in Seq(S), NEW id, Distinct(list)
  PROVE  /\ Unlink(list, id) \in Seq(S)
         /\ \E h : /\ Sublist(Unlink(list, id), list, h)
                   /\ \A q \in 1 .. Len(list) :
                        list[q].id # id => \E i \in 1 .. Len(Unlink(list, id)) : h[i] = q
         /\ \A i \in 1 .. Len(Unlink(list, id)) : Unlink(list, id)[i].id # id
<1> DEFINE at == {i \in DOMAIN list : list[i].id = id}
           p  == CHOOSE i \in at : TRUE
           u  == Unlink(list, id)
<1>0. Len(list) \in Nat /\ DOMAIN list = 1 .. Len(list)
  BY LenProperties
<1>1. CASE at = {}
  <2> DEFINE h == [i \in 1 .. Len(list) |-> i]
  <2>1. u = list
    BY <1>1 DEF Unlink
  <2>2. Sublist(u, list, h) /\ \A q \in 1 .. Len(list) : h[q] = q
    BY <1>0, <2>1 DEF Sublist
  <2> QED BY <1>0, <1>1, <2>1, <2>2
<1>2. CASE at # {}
  <2>1. u = RemoveAt(list, p)
    BY <1>2 DEF Unlink
  <2>2. p \in 1 .. Len(list) /\ list[p].id = id
    BY <1>0, <1>2
  <2> HIDE DEF p, at
  <2>3. /\ u \in Seq(S) /\ Len(u) = Len(list) - 1
        /\ \A i \in 1 .. Len(list) - 1 : u[i] = list[IF i < p THEN i ELSE i + 1]
    BY <2>1, <2>2, RemovedElement
  <2> DEFINE h == [i \in 1 .. Len(u) |-> IF i < p THEN i ELSE i + 1]
  <2> HIDE DEF u
  <2>4. Sublist(u, list, h)
    BY <1>0, <2>2, <2>3 DEF Sublist
  <2>5. ASSUME NEW q \in 1 .. Len(list), list[q].id # id
        PROVE  \E i \in 1 .. Len(u) : h[i] = q
    <3>1. q # p
      BY <2>2, <2>5
    <3>2. CASE q < p
      BY <1>0, <2>2, <2>3, <3>2
    <3>3. CASE q > p
      <4>1. q - 1 \in 1 .. Len(u) /\ h[q - 1] = q
        BY <1>0, <2>2, <2>3, <3>3
      <4> QED BY <4>1
    <3> QED BY <1>0, <2>2, <3>1, <3>2, <3>3
  <2>6. ASSUME NEW i \in 1 .. Len(u)
        PROVE  u[i].id # id
    <3>1. h[i] \in 1 .. Len(list) /\ h[i] # p /\ u[i] = list[h[i]]
      BY <1>0, <2>2, <2>3
    <3> QED BY <1>0, <2>2, <3>1 DEF Distinct
  <2> QED BY <2>3, <2>4, <2>5, <2>6 DEF u
<1> QED BY <1>1, <1>2

\* Maintenance drops committed records at the front until there is none.
LEMMA MaintainKeeps ==
  ASSUME NEW S, NEW list \in Seq(S)
  PROVE  /\ Maintain(list) \in Seq(S)
         /\ \E h : /\ Sublist(Maintain(list), list, h)
                   /\ \A p, q \in 1 .. Len(list) : ~list[p].committed /\ p <= q =>
                        \E i \in 1 .. Len(Maintain(list)) : h[i] = q
         /\ Len(Maintain(list)) > 0 => ~Maintain(list)[1].committed
<1> DEFINE used == {i \in DOMAIN list : ~list[i].committed}
           k    == CHOOSE i \in used : \A j \in used : i <= j
           m    == Maintain(list)
<1>0. /\ Len(list) \in Nat /\ DOMAIN list = 1 .. Len(list)
      /\ \A i \in 1 .. Len(list) : list[i] \in S
  BY LenProperties, ElementOfSeq
<1>1. CASE used = {}
  <2> DEFINE h == [i \in 1 .. 0 |-> i]
  <2>1. m = <<>>
    BY <1>1 DEF Maintain
  <2>2. m \in Seq(S) /\ Len(m) = 0
    BY <2>1
  <2>3. h \in [1 .. Len(m) -> 1 .. Len(list)]
    <3>1. 1 .. Len(m) = {} /\ 1 .. 0 = {}
      BY <2>2
    <3> QED BY <3>1
  <2>4. Sublist(m, list, h)
    BY <2>2, <2>3 DEF Sublist
  <2> QED BY <1>0, <1>1, <2>2, <2>4
<1>2. CASE used # {}
  <2>1. used \in SUBSET Nat
    BY <1>0
  <2>2. k \in used /\ \A j \in used : k <= j
    <3>1. \E i \in used : \A j \in used : i <= j
      <4> HIDE DEF used
      <4> QED BY <1>2, <2>1, FirstOf
    <3> QED BY <3>1
  <2>3. k \in 1 .. Len(list) /\ ~list[k].committed
        /\ \A j \in 1 .. Len(list) : ~list[j].committed => k <= j
    BY <1>0, <2>2
  <2>4. m = SubSeq(list, k, Len(list))
    BY <1>2 DEF Maintain
  <2> HIDE DEF used, k, m
  <2> DEFINE n == Len(list) - k + 1
             h == [i \in 1 .. n |-> i + k - 1]
  <2>5. n \in Nat /\ n > 0
    BY <1>0, <2>3
  <2>6. m \in Seq(S) /\ Len(m) = n /\ \A i \in 1 .. n : m[i] = list[i + k - 1]
    BY <1>0, <2>3, <2>4, SubSeqProperties
  <2>7. Sublist(m, list, h)
    BY <1>0, <2>3, <2>5, <2>6 DEF Sublist
  <2>8. ASSUME NEW p \in 1 .. Len(list), NEW q \in 1 .. Len(list), ~list[p].committed, p <= q
        PROVE  \E i \in 1 .. Len(m) : h[i] = q
    <3>1. k <= q
      BY <1>0, <2>3, <2>8
    <3>2. q - k + 1 \in 1 .. n /\ h[q - k + 1] = q
      BY <1>0, <2>3, <3>1
    <3> QED BY <2>6, <3>2
  <2>9. m[1] = list[k]
    BY <1>0, <2>3, <2>5, <2>6
  <2>10. \E g : /\ Sublist(m, list, g)
                /\ \A p, q \in 1 .. Len(list) : ~list[p].committed /\ p <= q =>
                     \E i \in 1 .. Len(m) : g[i] = q
    <3> HIDE DEF h
    <3> QED BY <2>7, <2>8
  <2> QED BY <2>3, <2>6, <2>9, <2>10 DEF m
<1> QED BY <1>1, <1>2

\* Parts of parts, and longer lists.
LEMMA SublistOfSublist ==
  ASSUME NEW R, NEW S, NEW T, R \in Seq(T), S \in Seq(T), NEW L \in Seq(T),
         NEW g, Sublist(R, S, g), NEW h, Sublist(S, L, h)
  PROVE  Sublist(R, L, [i \in 1 .. Len(R) |-> h[g[i]]])
<1>1. Len(R) \in Nat /\ Len(S) \in Nat /\ Len(L) \in Nat
  BY LenProperties
<1> QED BY <1>1 DEF Sublist

\* A list without repetitions has none in its parts.
LEMMA SublistDistinct ==
  ASSUME NEW T, NEW S \in Seq(T), NEW L \in Seq(T), Distinct(L), NEW h, Sublist(S, L, h)
  PROVE  Distinct(S)
<1>1. Len(S) \in Nat /\ DOMAIN S = 1 .. Len(S) /\ DOMAIN L = 1 .. Len(L)
  BY LenProperties
<1>2. ASSUME NEW i \in DOMAIN S, NEW j \in DOMAIN S, S[i].id = S[j].id
      PROVE  i = j
  <2>1. h[i] = h[j]
    BY <1>1, <1>2 DEF Sublist, Distinct
  <2>2. ~(i < j) /\ ~(j < i)
    <3>1. h[i] \in 1 .. Len(L) /\ h[j] \in 1 .. Len(L) /\ Len(L) \in Nat
      BY <1>1, LenProperties DEF Sublist
    <3> QED BY <1>1, <2>1, <3>1 DEF Sublist
  <2> QED BY <1>1, <2>2
<1> QED BY <1>2 DEF Distinct

(***************************************************************************)
(* What a read finds in the list from position p on at offset o: the byte  *)
(* of the first undo map that has one, else the byte the WAL region had    *)
(* after the last commit.                                                  *)
(***************************************************************************)
Has(r, o) == r.committed /\ ByteAt(r.undo, o) # None
Reads(list, p, o, last, b) ==
  \/ \E j \in p .. Len(list) : /\ Has(list[j], o) /\ ByteAt(list[j].undo, o) = b
                               /\ \A i \in p .. j - 1 : ~Has(list[i], o)
  \/ (\A i \in p .. Len(list) : ~Has(list[i], o)) /\ last = b

\* A part that keeps the committed records from a position on reads the same
\* there.
LEMMA SublistReads ==
  ASSUME NEW T, NEW S \in Seq(T), NEW L \in Seq(T), NEW h, Sublist(S, L, h),
         NEW p \in 1 .. Len(S), NEW o, NEW last, NEW b, Reads(L, h[p], o, last, b),
         \A q \in 1 .. Len(L) : h[p] <= q /\ L[q].committed => \E k \in 1 .. Len(S) : h[k] = q
  PROVE  Reads(S, p, o, last, b)
<1>1. Len(S) \in Nat /\ Len(L) \in Nat
  BY LenProperties
<1>2. /\ \A i \in 1 .. Len(S) : h[i] \in 1 .. Len(L) /\ S[i] = L[h[i]]
      /\ \A i, j \in 1 .. Len(S) : i < j => h[i] < h[j]
  BY DEF Sublist
<1>3. \A i, j \in 1 .. Len(S) : i <= j => h[i] <= h[j]
  BY <1>1, <1>2
<1>4. \A i, j \in 1 .. Len(S) : h[i] <= h[j] => i <= j
  BY <1>1, <1>2
<1>5. CASE \E j \in h[p] .. Len(L) : /\ Has(L[j], o) /\ ByteAt(L[j].undo, o) = b
                                     /\ \A i \in h[p] .. j - 1 : ~Has(L[i], o)
  <2>1. PICK j \in h[p] .. Len(L) : /\ Has(L[j], o) /\ ByteAt(L[j].undo, o) = b
                                    /\ \A i \in h[p] .. j - 1 : ~Has(L[i], o)
    BY <1>5
  <2>2. j \in 1 .. Len(L) /\ h[p] <= j
    BY <1>1, <1>2
  <2>3. PICK k \in 1 .. Len(S) : h[k] = j
    BY <2>1, <2>2 DEF Has
  <2>4. k \in p .. Len(S) /\ Has(S[k], o) /\ ByteAt(S[k].undo, o) = b
    BY <1>1, <1>2, <1>4, <2>1, <2>2, <2>3
  <2>5. ASSUME NEW i \in p .. k - 1
        PROVE  ~Has(S[i], o)
    <3>1. i \in 1 .. Len(S) /\ i < k /\ p <= i
      BY <1>1, <2>4
    <3>2. h[i] \in h[p] .. j - 1
      BY <1>1, <1>2, <1>3, <2>3, <3>1
    <3> QED BY <1>2, <2>1, <3>1, <3>2
  <2> QED BY <2>4, <2>5 DEF Reads
<1>6. CASE (\A i \in h[p] .. Len(L) : ~Has(L[i], o)) /\ last = b
  <2>1. ASSUME NEW i \in p .. Len(S)
        PROVE  ~Has(S[i], o)
    <3>1. i \in 1 .. Len(S) /\ p <= i
      BY <1>1
    <3>2. h[i] \in h[p] .. Len(L)
      BY <1>1, <1>2, <1>3, <3>1
    <3> QED BY <1>2, <1>6, <3>1, <3>2
  <2> QED BY <1>6, <2>1 DEF Reads
<1> QED BY <1>5, <1>6 DEF Reads

\* A record at the end of the list has what was the last byte, or nothing.
LEMMA AppendReads ==
  ASSUME NEW T, NEW L \in Seq(T), NEW r \in T, NEW p \in 1 .. Len(L),
         NEW o, NEW last, NEW new, NEW b, Reads(L, p, o, last, b),
         IF Has(r, o) THEN ByteAt(r.undo, o) = last ELSE new = last
  PROVE  Reads(Append(L, r), p, o, new, b)
<1> DEFINE n == Len(L)
           A == Append(L, r)
<1>1. /\ n \in Nat /\ Len(A) = n + 1 /\ A[n + 1] = r
      /\ \A i \in 1 .. n : A[i] = L[i]
  BY LenProperties, AppendProperties
<1> HIDE DEF A
<1>2. CASE \E j \in p .. n : /\ Has(L[j], o) /\ ByteAt(L[j].undo, o) = b
                             /\ \A i \in p .. j - 1 : ~Has(L[i], o)
  <2>1. PICK j \in p .. n : /\ Has(L[j], o) /\ ByteAt(L[j].undo, o) = b
                            /\ \A i \in p .. j - 1 : ~Has(L[i], o)
    BY <1>2
  <2>2. j \in p .. Len(A) /\ A[j] = L[j] /\ \A i \in p .. j - 1 : A[i] = L[i]
    BY <1>1
  <2>3. Has(A[j], o) /\ ByteAt(A[j].undo, o) = b /\ \A i \in p .. j - 1 : ~Has(A[i], o)
    BY <2>1, <2>2
  <2> QED BY <2>2, <2>3 DEF Reads
<1>3. CASE (\A i \in p .. n : ~Has(L[i], o)) /\ last = b
  <2>1. \A i \in p .. n : ~Has(A[i], o)
    BY <1>1, <1>3
  <2>2. CASE Has(r, o)
    <3>1. n + 1 \in p .. Len(A) /\ Has(A[n + 1], o) /\ ByteAt(A[n + 1].undo, o) = b
      BY <1>1, <1>3, <2>2
    <3>2. \A i \in p .. (n + 1) - 1 : ~Has(A[i], o)
      BY <1>1, <2>1
    <3> QED BY <3>1, <3>2 DEF Reads
  <2>3. CASE ~Has(r, o)
    <3>1. \A i \in p .. Len(A) : ~Has(A[i], o)
      BY <1>1, <2>1, <2>3
    <3>2. new = b
      BY <1>3, <2>3
    <3> QED BY <3>1, <3>2 DEF Reads
  <2> QED BY <2>2, <2>3
<1> QED BY <1>2, <1>3 DEF Reads

\* What Destroy leaves: all that readers of the list may need but the record
\* that goes.
DestroyLeft(T, L, M, id) ==
  /\ M \in Seq(T) /\ Distinct(M)
  /\ Len(M) > 0 => ~M[1].committed
  /\ \A i \in 1 .. Len(M) : M[i].id # id
  /\ \E h : /\ Sublist(M, L, h)
            /\ \A p, q \in 1 .. Len(L) :
                 /\ ~L[p].committed /\ L[p].id # id
                 /\ p <= q /\ L[q].id # id
                 => \E i \in 1 .. Len(M) : h[i] = q

LEMMA DestroyLeaves ==
  ASSUME NEW T, NEW L \in Seq(T), Distinct(L), NEW id
  PROVE  DestroyLeft(T, L, Maintain(Unlink(L, id)), id)
<1> DEFINE U == Unlink(L, id)
           M == Maintain(Unlink(L, id))
<1>0. M = Maintain(U)
  OBVIOUS
<1> HIDE DEF M
<1>1. U \in Seq(T) /\ \A i \in 1 .. Len(U) : U[i].id # id
  BY UnlinkKeeps
<1>2. PICK g : /\ Sublist(U, L, g)
               /\ \A q \in 1 .. Len(L) : L[q].id # id => \E i \in 1 .. Len(U) : g[i] = q
  BY UnlinkKeeps
<1> HIDE DEF U
<1>3. M \in Seq(T) /\ (Len(M) > 0 => ~M[1].committed)
  BY <1>0, <1>1, MaintainKeeps
<1>4. PICK f : /\ Sublist(M, U, f)
               /\ \A p, q \in 1 .. Len(U) : ~U[p].committed /\ p <= q =>
                    \E i \in 1 .. Len(M) : f[i] = q
  BY <1>0, <1>1, MaintainKeeps
<1> DEFINE h == [i \in 1 .. Len(M) |-> g[f[i]]]
<1>5. Sublist(M, L, h)
  BY <1>1, <1>2, <1>3, <1>4, SublistOfSublist
<1>6. Distinct(M)
  <2> HIDE DEF h
  <2> QED BY <1>3, <1>5, SublistDistinct
<1>7. \A i \in 1 .. Len(M) : M[i].id # id
  BY <1>1, <1>4 DEF Sublist
<1>8. Len(U) \in Nat /\ Len(L) \in Nat
  BY <1>1, LenProperties
<1>9. ASSUME NEW p \in 1 .. Len(L), NEW q \in 1 .. Len(L),
             ~L[p].committed, L[p].id # id, p <= q, L[q].id # id
      PROVE  \E i \in 1 .. Len(M) : h[i] = q
  <2>1. PICK x \in 1 .. Len(U) : g[x] = p
    BY <1>2, <1>9
  <2>2. PICK y \in 1 .. Len(U) : g[y] = q
    BY <1>2, <1>9
  <2>3. ~(y < x)
    BY <1>2, <1>8, <1>9, <2>1, <2>2 DEF Sublist
  <2>4. x <= y /\ ~U[x].committed
    BY <1>2, <1>8, <1>9, <2>1, <2>3 DEF Sublist
  <2>5. PICK i \in 1 .. Len(M) : f[i] = y
    BY <1>4, <2>4
  <2>6. h[i] = q
    BY <2>2, <2>5
  <2> QED BY <2>6
<1>10. \E k : /\ Sublist(M, L, k)
              /\ \A p, q \in 1 .. Len(L) :
                   /\ ~L[p].committed /\ L[p].id # id
                   /\ p <= q /\ L[q].id # id
                   => \E i \in 1 .. Len(M) : k[i] = q
  <2> HIDE DEF h
  <2> QED BY <1>5, <1>9
<1> QED BY <1>3, <1>6, <1>7, <1>10 DEF DestroyLeft, M

\* Records that are not committed read in M what they read in L, before the
\* record r was committed.
ReadsOn(L, M, r) ==
  \A q \in 1 .. Len(L), i \in 1 .. Len(M) :
    /\ L[q].id # r.id /\ ~L[q].committed /\ M[i].id = L[q].id
    /\ \A x \in 1 .. Len(L) : L[x].id = r.id => ~L[x].committed
    => \A o, last, new, b :
         /\ Reads(L, q, o, last, b)
         /\ IF Has(r, o) THEN ByteAt(r.undo, o) = last ELSE new = last
         => Reads(M, i, o, new, b)

\* What a commit leaves: the records of others that are not committed, which
\* read what they read before.
CommitLeft(T, L, M, r) ==
  /\ M \in Seq(T) /\ Distinct(M)
  /\ Len(M) > 0 => ~M[1].committed
  /\ \A i \in 1 .. Len(M) :
       M[i] = r \/ \E q \in 1 .. Len(L) : M[i] = L[q] /\ L[q].id # r.id
  /\ \A q \in 1 .. Len(L) : L[q].id # r.id /\ ~L[q].committed =>
       \E i \in 1 .. Len(M) : M[i] = L[q]
  /\ ReadsOn(L, M, r)

LEMMA CommitLeaves ==
  ASSUME NEW T, NEW L \in Seq(T), Distinct(L), NEW r \in T, r.committed
  PROVE  CommitLeft(T, L, Maintain(Append(Unlink(L, r.id), r)), r)
<1> DEFINE M == Maintain(Append(Unlink(L, r.id), r))
           U == Unlink(L, r.id)
           A == Append(U, r)
<1>1. U \in Seq(T) /\ \A i \in 1 .. Len(U) : U[i].id # r.id
  BY UnlinkKeeps
<1>2. PICK g : /\ Sublist(U, L, g)
               /\ \A q \in 1 .. Len(L) : L[q].id # r.id => \E i \in 1 .. Len(U) : g[i] = q
  BY UnlinkKeeps
<1> HIDE DEF U
<1>3. /\ A \in Seq(T) /\ Len(A) = Len(U) + 1 /\ A[Len(U) + 1] = r
      /\ \A i \in 1 .. Len(U) : A[i] = U[i]
  BY <1>1, AppendProperties
<1>0. M = Maintain(A)
  BY DEF A, U
<1> HIDE DEF A, M
<1>4. M \in Seq(T) /\ (Len(M) > 0 => ~M[1].committed)
  BY <1>0, <1>3, MaintainKeeps
<1>5. PICK f : /\ Sublist(M, A, f)
               /\ \A p, q \in 1 .. Len(A) : ~A[p].committed /\ p <= q =>
                    \E i \in 1 .. Len(M) : f[i] = q
  BY <1>0, <1>3, MaintainKeeps
<1>6. Len(U) \in Nat /\ Len(L) \in Nat /\ Len(A) \in Nat /\ Len(M) \in Nat
      /\ DOMAIN U = 1 .. Len(U) /\ DOMAIN A = 1 .. Len(A) /\ DOMAIN M = 1 .. Len(M)
  BY <1>1, <1>3, <1>4, LenProperties
<1>7. Distinct(U)
  BY <1>1, <1>2, SublistDistinct
<1>8. Distinct(A)
  <2>1. \A i \in 1 .. Len(A) : i \in 1 .. Len(U) \/ i = Len(U) + 1
    BY <1>3, <1>6
  <2> QED BY <1>1, <1>3, <1>6, <1>7, <2>1 DEF Distinct
<1>9. Distinct(M)
  BY <1>3, <1>4, <1>5, <1>8, SublistDistinct
<1>10. ASSUME NEW i \in 1 .. Len(M)
       PROVE  M[i] = r \/ \E q \in 1 .. Len(L) : M[i] = L[q] /\ L[q].id # r.id
  <2>1. f[i] \in 1 .. Len(A) /\ M[i] = A[f[i]]
    BY <1>5 DEF Sublist
  <2>2. CASE f[i] = Len(U) + 1
    BY <1>3, <2>1, <2>2
  <2>3. CASE f[i] \in 1 .. Len(U)
    <3>1. M[i] = U[f[i]] /\ U[f[i]] = L[g[f[i]]] /\ g[f[i]] \in 1 .. Len(L)
      BY <1>2, <1>3, <2>1, <2>3 DEF Sublist
    <3> QED BY <1>1, <2>3, <3>1
  <2> QED BY <1>3, <1>6, <2>1, <2>2, <2>3
<1>11. ASSUME NEW q \in 1 .. Len(L), L[q].id # r.id, ~L[q].committed
       PROVE  \E x \in 1 .. Len(U) : \E i \in 1 .. Len(M) :
                g[x] = q /\ f[i] = x /\ U[x] = L[q] /\ M[i] = L[q]
  <2>1. PICK x \in 1 .. Len(U) : g[x] = q
    BY <1>2, <1>11
  <2>2. x \in 1 .. Len(A) /\ U[x] = L[q] /\ A[x] = L[q]
    BY <1>2, <1>3, <1>6, <2>1 DEF Sublist
  <2>3. PICK i \in 1 .. Len(M) : f[i] = x
    BY <1>5, <1>6, <1>11, <2>2
  <2>4. M[i] = L[q]
    BY <1>5, <2>2, <2>3 DEF Sublist
  <2> QED BY <2>1, <2>2, <2>3, <2>4
<1>12. ASSUME NEW q \in 1 .. Len(L), NEW i \in 1 .. Len(M),
              L[q].id # r.id, ~L[q].committed, M[i].id = L[q].id,
              \A x \in 1 .. Len(L) : L[x].id = r.id => ~L[x].committed,
              NEW o, NEW last, NEW new, NEW b, Reads(L, q, o, last, b),
              IF Has(r, o) THEN ByteAt(r.undo, o) = last ELSE new = last
       PROVE  Reads(M, i, o, new, b)
  <2>1. PICK x \in 1 .. Len(U), j \in 1 .. Len(M) :
          g[x] = q /\ f[j] = x /\ U[x] = L[q] /\ M[j] = L[q]
    BY <1>11, <1>12
  <2>2. i = j
    BY <1>6, <1>9, <1>12, <2>1 DEF Distinct
  <2>3. Reads(U, x, o, last, b)
    <3>1. \A y \in 1 .. Len(L) : g[x] <= y /\ L[y].committed => \E k \in 1 .. Len(U) : g[k] = y
      BY <1>2, <1>12
    <3>2. Reads(L, g[x], o, last, b)
      BY <1>12, <2>1
    <3> QED BY <1>1, <1>2, <3>1, <3>2, SublistReads
  <2>4. Reads(A, x, o, new, b)
    BY <1>1, <1>12, <2>3, AppendReads DEF A
  <2>5. x \in 1 .. Len(A) /\ A[x] = L[q]
    BY <1>3, <1>6, <2>1
  <2>6. \A y \in 1 .. Len(A) : f[i] <= y /\ A[y].committed => \E k \in 1 .. Len(M) : f[k] = y
    BY <1>5, <1>12, <2>1, <2>2, <2>5
  <2>7. Reads(A, f[i], o, new, b)
    BY <2>1, <2>2, <2>4
  <2> QED BY <1>3, <1>4, <1>5, <2>6, <2>7, SublistReads
<1>13. \A q \in 1 .. Len(L) : L[q].id # r.id /\ ~L[q].committed =>
         \E i \in 1 .. Len(M) : M[i] = L[q]
  BY <1>11
<1>14. ReadsOn(L, M, r)
  BY <1>12 DEF ReadsOn
<1> QED BY <1>4, <1>9, <1>10, <1>13, <1>14 DEF CommitLeft, M

(***************************************************************************)
(* Transactions and their records.  A map is a member of some set M here:  *)
(* nothing is said of the writes.                                          *)
(***************************************************************************)
RecordsOf(M) == [id : Txs, committed : BOOLEAN, undo : M]
ObjectsOf(M) == [made : BOOLEAN, valid : BOOLEAN, readOnly : BOOLEAN, record : Txs \union {None},
                 writes : M, newSize : Sizes \union {None}]

Shaped(M) ==
  /\ records \in Seq(RecordsOf(M))
  /\ tx \in [Txs -> ObjectsOf(M)]
  /\ committing \in [tx : Txs \union {None}, undo : M]
  /\ sealed \subseteq Txs

\* A record is of a transaction that was made, has committed when it is sealed,
\* and then has no valid object; before, it has at most one.
Owned ==
  /\ Distinct(records)
  /\ \A i \in DOMAIN records : /\ tx[records[i].id].made
                               /\ records[i].committed <=> records[i].id \in sealed
  /\ \A id \in sealed : tx[id].made
  /\ \A t \in Txs : tx[t].valid =>
       tx[t].made /\ tx[t].record \in Txs \ sealed /\ tx[tx[t].record].made
  /\ \A t, u \in Txs : tx[t].valid /\ tx[u].valid /\ tx[t].record = tx[u].record => t = u
  /\ ~Free => tx[committing.tx].valid /\ ~tx[committing.tx].readOnly

\* The first record of the list is of use.
Fronted == Len(records) > 0 => ~records[1].committed

\* What the list holds.
LEMMA RecordTypes ==
  ASSUME NEW M, Shaped(M)
  PROVE  /\ records \in Seq(RecordsOf(M))
         /\ DOMAIN records = 1 .. Len(records) /\ Len(records) \in Nat
         /\ \A i \in 1 .. Len(records) : records[i] \in RecordsOf(M) /\ records[i].id \in Txs
<1>1. records \in Seq(RecordsOf(M))
  BY DEF Shaped
<1>2. DOMAIN records = 1 .. Len(records) /\ Len(records) \in Nat
  BY <1>1, LenProperties
<1>3. \A i \in 1 .. Len(records) : records[i] \in RecordsOf(M)
  BY <1>1, ElementOfSeq
<1> QED BY <1>1, <1>2, <1>3 DEF RecordsOf

\* A step that changes objects only, and makes none of them valid.
LEMMA ObjectsOnly ==
  ASSUME NEW M, Shaped(M), Owned, Fronted,
         UNCHANGED <<records, sealed, committing>>,
         \A x \in Txs : /\ tx'[x].made = tx[x].made
                        /\ tx'[x].record = tx[x].record
                        /\ tx'[x].readOnly = tx[x].readOnly
                        /\ tx'[x].valid => tx[x].valid
                        /\ x = committing.tx => tx'[x].valid = tx[x].valid
  PROVE  Owned' /\ Fronted'
<1>1. DOMAIN records = 1 .. Len(records) /\ \A i \in DOMAIN records : records[i].id \in Txs
  BY RecordTypes
<1>2. committing.tx \in Txs \union {None} /\ sealed \subseteq Txs
  BY DEF Shaped
<1>3. Distinct(records)' /\ Fronted'
  BY DEF Owned, Fronted, Distinct
<1>4. \A i \in DOMAIN records' : /\ tx'[records'[i].id].made
                                 /\ records'[i].committed <=> records'[i].id \in sealed'
  BY <1>1 DEF Owned
<1>5. \A id \in sealed' : tx'[id].made
  BY <1>2 DEF Owned
<1>6. \A t \in Txs : tx'[t].valid =>
        tx'[t].made /\ tx'[t].record \in Txs \ sealed' /\ tx'[tx'[t].record].made
  BY DEF Owned
<1>7. \A t, u \in Txs : tx'[t].valid /\ tx'[u].valid /\ tx'[t].record = tx'[u].record => t = u
  BY DEF Owned
<1>8. ~Free' => tx'[committing'.tx].valid /\ ~tx'[committing'.tx].readOnly
  BY <1>2 DEF Owned, Free
<1> QED BY <1>3, <1>4, <1>5, <1>6, <1>7, <1>8 DEF Owned

LEMMA OwnedBegin ==
  ASSUME NEW M, Shaped(M), Owned, Fronted, NEW t \in Txs, NEW ro \in BOOLEAN, Begin(t, ro),
         {} \in M
  PROVE  Owned' /\ Fronted'
<1> DEFINE n == Len(records)
<1>1. /\ DOMAIN records = 1 .. n /\ n \in Nat
      /\ \A i \in 1 .. n : records[i].id \in Txs
  BY RecordTypes
<1>2. /\ records' = Append(records, Record(t)) /\ sealed' = sealed /\ committing' = committing
      /\ ~tx[t].made
  BY DEF Begin
<1>3. Record(t) \in RecordsOf(M) /\ Record(t).id = t /\ Record(t).committed = FALSE
  BY DEF Record, RecordsOf
<1>4. /\ DOMAIN records' = 1 .. n + 1 /\ Len(records') = n + 1 /\ records'[n + 1] = Record(t)
      /\ \A i \in 1 .. n : records'[i] = records[i]
  <2>1. records \in Seq(RecordsOf(M))
    BY DEF Shaped
  <2> QED BY <1>2, <1>3, <2>1, AppendProperties, LenProperties
<1>5. /\ \A x \in Txs : x # t => tx'[x] = tx[x]
      /\ tx'[t].made /\ tx'[t].valid /\ tx'[t].record = t
  BY DEF Begin, Shaped, ObjectsOf
<1> HIDE DEF n
<1>6. \A i \in 1 .. n : records[i].id # t
  BY <1>1, <1>2 DEF Owned
<1>7. \A i \in 1 .. n + 1 : i \in 1 .. n \/ i = n + 1
  BY <1>1
<1>8. Distinct(records)'
  BY <1>1, <1>3, <1>4, <1>6, <1>7 DEF Owned, Distinct
<1>9. t \notin sealed /\ sealed \subseteq Txs
  BY <1>2 DEF Owned, Shaped
<1>10. \A i \in DOMAIN records' : /\ tx'[records'[i].id].made
                                  /\ records'[i].committed <=> records'[i].id \in sealed'
  BY <1>1, <1>2, <1>3, <1>4, <1>5, <1>6, <1>7, <1>9 DEF Owned
<1>11. \A id \in sealed' : tx'[id].made
  BY <1>2, <1>5, <1>9 DEF Owned
<1>12. \A x \in Txs : tx[x].valid => x # t /\ tx[x].record # t
  BY <1>2 DEF Owned
<1>13. \A x \in Txs : tx'[x].valid =>
         tx'[x].made /\ tx'[x].record \in Txs \ sealed' /\ tx'[tx'[x].record].made
  BY <1>2, <1>5, <1>9, <1>12 DEF Owned
<1>14. \A x, u \in Txs : tx'[x].valid /\ tx'[u].valid /\ tx'[x].record = tx'[u].record => x = u
  BY <1>5, <1>12 DEF Owned
<1>15. ~Free' => tx'[committing'.tx].valid /\ ~tx'[committing'.tx].readOnly
  BY <1>2, <1>5, <1>12 DEF Owned, Free, Shaped
<1>16. Fronted'
  BY <1>1, <1>3, <1>4, <1>7 DEF Fronted, n
<1> QED BY <1>8, <1>10, <1>11, <1>13, <1>14, <1>15, <1>16 DEF Owned

LEMMA OwnedCommit ==
  ASSUME NEW M, Shaped(M), Owned, Fronted, NEW t \in Txs, CommitSequence(t)
  PROVE  /\ Owned' /\ Fronted' /\ records' \in Seq(RecordsOf(M))
         /\ \A q \in DOMAIN records : records[q].id # tx[t].record /\ ~records[q].committed =>
              \E i \in DOMAIN records' : records'[i] = records[q]
<1> DEFINE id == tx[t].record
           r  == [id |-> id, committed |-> TRUE, undo |-> committing.undo]
           n  == Len(records)
<1>1. /\ records \in Seq(RecordsOf(M)) /\ DOMAIN records = 1 .. n /\ n \in Nat
      /\ \A i \in 1 .. n : records[i].id \in Txs
  BY RecordTypes
<1>2. /\ tx[t].valid /\ tx[t].made /\ id \in Txs \ sealed /\ tx[id].made
      /\ committing.tx = t /\ committing' = NoCommit /\ sealed' = sealed \union {id}
  <2>1. committing.tx = t /\ ~Free /\ committing' = NoCommit /\ sealed' = sealed \union {id}
    BY BytesAssumption DEF CommitSequence, Free
  <2> QED BY <2>1 DEF Owned
<1>3. /\ \A x \in Txs : x # t => tx'[x] = tx[x]
      /\ ~tx'[t].valid /\ tx'[t].made = tx[t].made /\ tx'[t].record = tx[t].record
  BY DEF CommitSequence, Shaped, ObjectsOf
<1>4. r \in RecordsOf(M) /\ r.id = id /\ r.committed
  BY <1>2 DEF Shaped, RecordsOf
<1>5. records' = Maintain(Append(Unlink(records, r.id), r))
  BY DEF CommitSequence, Committed
<1> HIDE DEF r, n, id
<1>6. /\ records' \in Seq(RecordsOf(M)) /\ Distinct(records')
      /\ Len(records') > 0 => ~records'[1].committed
      /\ \A i \in 1 .. Len(records') :
           records'[i] = r \/ \E q \in 1 .. n : records'[i] = records[q] /\ records[q].id # r.id
      /\ \A q \in 1 .. n : records[q].id # r.id /\ ~records[q].committed =>
           \E i \in 1 .. Len(records') : records'[i] = records[q]
  <2>1. Distinct(records)
    BY DEF Owned
  <2>2. CommitLeft(RecordsOf(M), records, Maintain(Append(Unlink(records, r.id), r)), r)
    BY <1>1, <1>4, <2>1, CommitLeaves
  <2> QED BY <1>5, <2>2 DEF CommitLeft, n
<1>7. DOMAIN records' = 1 .. Len(records')
  BY <1>6, LenProperties
<1>8. ASSUME NEW i \in DOMAIN records'
      PROVE  /\ tx'[records'[i].id].made
             /\ records'[i].committed <=> records'[i].id \in sealed'
  <2>1. CASE records'[i] = r
    BY <1>2, <1>3, <1>4, <2>1 DEF Owned
  <2>2. CASE \E q \in 1 .. n : records'[i] = records[q] /\ records[q].id # r.id
    <3>1. PICK q \in 1 .. n : records'[i] = records[q] /\ records[q].id # r.id
      BY <2>2
    <3>2. tx[records[q].id].made /\ (records[q].committed <=> records[q].id \in sealed)
      BY <1>1 DEF Owned
    <3> QED BY <1>1, <1>2, <1>3, <1>4, <3>1, <3>2
  <2> QED BY <1>6, <1>7, <2>1, <2>2
<1>9. \A x \in sealed' : tx'[x].made
  <2>1. \A x \in sealed : x \in Txs /\ tx[x].made
    BY DEF Owned, Shaped
  <2> QED BY <1>2, <1>3, <2>1
<1>10. \A x \in Txs : tx'[x].valid => x # t /\ tx[x].valid /\ tx[x].record # id /\ tx'[x] = tx[x]
  BY <1>2, <1>3 DEF Owned, id
<1>11. \A x \in Txs : tx'[x].valid =>
         tx'[x].made /\ tx'[x].record \in Txs \ sealed' /\ tx'[tx'[x].record].made
  <2> SUFFICES ASSUME NEW x \in Txs, tx'[x].valid
               PROVE  tx'[x].made /\ tx'[x].record \in Txs \ sealed' /\ tx'[tx'[x].record].made
    OBVIOUS
  <2>1. tx[x].made /\ tx[x].record \in Txs \ sealed /\ tx[tx[x].record].made
    BY <1>10 DEF Owned
  <2> QED BY <1>2, <1>3, <1>10, <2>1
<1>12. \A x, u \in Txs : tx'[x].valid /\ tx'[u].valid /\ tx'[x].record = tx'[u].record => x = u
  BY <1>10 DEF Owned
<1>13. Free'
  BY <1>2 DEF Free, NoCommit
<1>14. Owned'
  BY <1>6, <1>8, <1>9, <1>11, <1>12, <1>13 DEF Owned
<1>15. \A q \in DOMAIN records : records[q].id # tx[t].record /\ ~records[q].committed =>
         \E i \in DOMAIN records' : records'[i] = records[q]
  BY <1>1, <1>4, <1>6, <1>7 DEF id
<1> QED BY <1>6, <1>14, <1>15 DEF Fronted

LEMMA OwnedDestroy ==
  ASSUME NEW M, Shaped(M), Owned, Fronted, NEW t \in Txs, Destroy(t)
  PROVE  /\ Owned' /\ Fronted' /\ records' \in Seq(RecordsOf(M))
         /\ \A q \in DOMAIN records : records[q].id # tx[t].record /\ ~records[q].committed =>
              \E i \in DOMAIN records' : records'[i] = records[q]
<1> DEFINE id == tx[t].record
           n  == Len(records)
<1>1. /\ records \in Seq(RecordsOf(M)) /\ DOMAIN records = 1 .. n /\ n \in Nat
      /\ \A i \in 1 .. n : records[i].id \in Txs
  BY RecordTypes
<1>2. /\ tx[t].made /\ committing' = committing /\ sealed' = sealed /\ committing.tx # t
      /\ id # None
      /\ records' = IF id \in sealed THEN records ELSE Maintain(Unlink(records, id))
  BY DEF Destroy
<1>3. /\ \A x \in Txs : x # t => tx'[x] = tx[x]
      /\ tx'[t].made = TRUE /\ tx'[t].valid = FALSE /\ tx'[t].record = None
  BY DEF Destroy, Shaped, ObjectsOf, NotMade
<1>4. Distinct(records)
  BY DEF Owned
<1>5. /\ records' \in Seq(RecordsOf(M)) /\ Distinct(records') /\ Fronted'
      /\ \A i \in 1 .. Len(records') : \E q \in 1 .. n : records'[i] = records[q]
      /\ \A q \in 1 .. n : records[q].id # id /\ ~records[q].committed =>
           \E i \in 1 .. Len(records') : records'[i] = records[q]
  <2>1. CASE id \in sealed
    <3>1. records' = records
      BY <1>2, <2>1
    <3> QED BY <1>1, <1>4, <3>1 DEF Fronted
  <2>2. CASE id \notin sealed
    <3>1. DestroyLeft(RecordsOf(M), records, Maintain(Unlink(records, id)), id)
      <4> HIDE DEF id
      <4> QED BY <1>1, <1>4, DestroyLeaves
    <3>2. DestroyLeft(RecordsOf(M), records, records', id)
      BY <1>2, <2>2, <3>1
    <3> HIDE DEF id
    <3>3. PICK h : /\ Sublist(records', records, h)
                   /\ \A p, q \in 1 .. n :
                        /\ ~records[p].committed /\ records[p].id # id
                        /\ p <= q /\ records[q].id # id
                        => \E i \in 1 .. Len(records') : h[i] = q
      BY <3>2 DEF DestroyLeft
    <3>4. \A i \in 1 .. Len(records') : h[i] \in 1 .. n /\ records'[i] = records[h[i]]
      BY <3>3 DEF Sublist
    <3>5. ASSUME NEW q \in 1 .. n, records[q].id # id, ~records[q].committed
          PROVE  \E i \in 1 .. Len(records') : records'[i] = records[q]
      <4>1. PICK i \in 1 .. Len(records') : h[i] = q
        BY <1>1, <3>3, <3>5
      <4> QED BY <3>4, <4>1
    <3> QED BY <3>2, <3>4, <3>5 DEF DestroyLeft, Fronted
  <2> QED BY <2>1, <2>2
<1>6. DOMAIN records' = 1 .. Len(records')
  BY <1>5, LenProperties
<1> HIDE DEF id, n
<1>7. ASSUME NEW i \in DOMAIN records'
      PROVE  /\ tx'[records'[i].id].made
             /\ records'[i].committed <=> records'[i].id \in sealed'
  <2>1. PICK q \in 1 .. n : records'[i] = records[q]
    BY <1>5, <1>6, <1>7
  <2>2. tx[records[q].id].made /\ (records[q].committed <=> records[q].id \in sealed)
    BY <1>1 DEF Owned
  <2> QED BY <1>1, <1>2, <1>3, <2>1, <2>2
<1>8. \A x \in sealed' : tx'[x].made
  <2>1. \A x \in sealed : x \in Txs /\ tx[x].made
    BY DEF Owned, Shaped
  <2> QED BY <1>2, <1>3, <2>1
<1>9. \A x \in Txs : tx'[x].valid => x # t /\ tx[x].valid /\ tx'[x] = tx[x]
  BY <1>3
<1>10. \A x \in Txs : tx'[x].valid =>
         tx'[x].made /\ tx'[x].record \in Txs \ sealed' /\ tx'[tx'[x].record].made
  <2> SUFFICES ASSUME NEW x \in Txs, tx'[x].valid
               PROVE  tx'[x].made /\ tx'[x].record \in Txs \ sealed' /\ tx'[tx'[x].record].made
    OBVIOUS
  <2>1. tx[x].made /\ tx[x].record \in Txs \ sealed /\ tx[tx[x].record].made
    BY <1>9 DEF Owned
  <2> QED BY <1>2, <1>3, <1>9, <2>1
<1>11. \A x, u \in Txs : tx'[x].valid /\ tx'[u].valid /\ tx'[x].record = tx'[u].record => x = u
  BY <1>9 DEF Owned
<1>12. ~Free' => tx'[committing'.tx].valid /\ ~tx'[committing'.tx].readOnly
  <2>1. committing.tx \in Txs \union {None}
    BY DEF Shaped
  <2> QED BY <1>2, <1>3, <2>1 DEF Owned, Free
<1>13. Owned'
  BY <1>5, <1>7, <1>8, <1>10, <1>11, <1>12 DEF Owned
<1>14. \A q \in DOMAIN records : records[q].id # tx[t].record /\ ~records[q].committed =>
         \E i \in DOMAIN records' : records'[i] = records[q]
  BY <1>1, <1>5, <1>6 DEF id
<1> QED BY <1>5, <1>13, <1>14

LEMMA OwnedMove ==
  ASSUME NEW M, Shaped(M), Owned, Fronted, NEW t \in Txs, NEW u \in Txs \ {t}, Move(t, u)
  PROVE  Owned' /\ Fronted'
<1>1. /\ \A x \in Txs : x # t /\ x # u => tx'[x] = tx[x]
      /\ tx'[u] = tx[t] /\ tx'[t].valid = FALSE
      /\ tx'[t].made = tx[t].made /\ tx'[t].record = tx[t].record
      /\ tx[t].valid /\ ~tx[u].made /\ committing.tx # t
      /\ records' = records /\ sealed' = sealed /\ committing' = committing
  BY DEF Move, Shaped, ObjectsOf
<1>2. /\ DOMAIN records = 1 .. Len(records)
      /\ \A i \in 1 .. Len(records) : records[i].id \in Txs
  BY RecordTypes
<1>3. tx[t].made /\ tx[t].record \in Txs \ sealed /\ tx[tx[t].record].made /\ sealed \subseteq Txs
  BY <1>1 DEF Owned, Shaped
<1>4. \A x \in Txs : tx[x].made => tx'[x].made
  BY <1>1, <1>3
<1>5. Distinct(records)' /\ Fronted'
  BY <1>1 DEF Owned, Fronted, Distinct
<1>6. \A i \in DOMAIN records' : /\ tx'[records'[i].id].made
                                 /\ records'[i].committed <=> records'[i].id \in sealed'
  BY <1>1, <1>2, <1>4 DEF Owned
<1>7. \A id \in sealed' : tx'[id].made
  BY <1>1, <1>3, <1>4 DEF Owned
<1>8. \A x \in Txs : tx'[x].valid =>
        tx'[x].made /\ tx'[x].record \in Txs \ sealed' /\ tx'[tx'[x].record].made
  BY <1>1, <1>3, <1>4 DEF Owned
<1>9. \A x \in Txs : tx[x].valid => x # u
  BY <1>1 DEF Owned
<1>10. \A x, y \in Txs : tx'[x].valid /\ tx'[y].valid /\ tx'[x].record = tx'[y].record => x = y
  BY <1>1, <1>9 DEF Owned
<1>11. ~Free' => tx'[committing'.tx].valid /\ ~tx'[committing'.tx].readOnly
  <2>1. committing.tx \in Txs \union {None}
    BY DEF Shaped
  <2> QED BY <1>1, <1>9, <2>1 DEF Owned, Free
<1> QED BY <1>5, <1>6, <1>7, <1>8, <1>10, <1>11 DEF Owned

\* The steps that change objects only.
LEMMA OwnedObjects ==
  ASSUME NEW M, Shaped(M), Owned, Fronted, NEW t \in Txs,
         \/ \E off \in Offs, n \in Lengths : \E data \in [1 .. n -> Bytes] : WriteAt(t, off, data)
         \/ \E n \in Sizes : Resize(t, n)
         \/ CommitReadOnly(t) \/ Rollback(t)
  PROVE  Owned' /\ Fronted'
<1>1. committing.tx # None => tx[committing.tx].valid /\ ~tx[committing.tx].readOnly
  BY DEF Owned, Free
<1>2. /\ UNCHANGED <<records, sealed, committing>>
      /\ \A x \in Txs : x # t => tx'[x] = tx[x]
      /\ tx'[t].made = tx[t].made /\ tx'[t].record = tx[t].record
      /\ tx'[t].readOnly = tx[t].readOnly
      /\ tx'[t].valid => tx[t].valid
      /\ t = committing.tx => tx'[t].valid = tx[t].valid
  <2>1. CASE \E off \in Offs, n \in Lengths : \E data \in [1 .. n -> Bytes] : WriteAt(t, off, data)
    BY <2>1 DEF WriteAt, Shaped, ObjectsOf
  <2>2. CASE \E n \in Sizes : Resize(t, n)
    BY <2>2 DEF Resize, Shaped, ObjectsOf
  <2>3. CASE CommitReadOnly(t)
    <3>1. t # committing.tx
      BY <1>1, <2>3, BytesAssumption DEF CommitReadOnly
    <3> QED BY <2>3, <3>1 DEF CommitReadOnly, Shaped, ObjectsOf
  <2>4. CASE Rollback(t)
    BY <2>4 DEF Rollback, Shaped, ObjectsOf
  <2> QED BY <2>1, <2>2, <2>3, <2>4
<1> QED BY <1>2, ObjectsOnly

LEMMA OwnedNext ==
  ASSUME NEW M, Shaped(M), Owned, Fronted, [Next]_vars, {} \in M
  PROVE  Owned' /\ Fronted'
<1>1. CASE UNCHANGED <<records, sealed, committing, tx>>
  BY <1>1, ObjectsOnly
<1>2. ASSUME NEW t \in Txs, CommitApply(t)
      PROVE  Owned' /\ Fronted'
  <2>1. /\ records' = records /\ sealed' = sealed /\ tx' = tx
        /\ committing'.tx = t /\ tx[t].valid /\ ~tx[t].readOnly
    BY <1>2 DEF CommitApply, MayWrite
  <2> QED BY <2>1 DEF Owned, Fronted, Free, Distinct
<1>3. ASSUME NEW t \in Txs, NEW ro \in BOOLEAN, Begin(t, ro)
      PROVE  Owned' /\ Fronted'
  BY <1>3, OwnedBegin
<1>4. ASSUME NEW t \in Txs, NEW u \in Txs \ {t}, Move(t, u)
      PROVE  Owned' /\ Fronted'
  BY <1>4, OwnedMove
<1>5. ASSUME NEW t \in Txs, CommitSequence(t) \/ Destroy(t)
      PROVE  Owned' /\ Fronted'
  BY <1>5, OwnedCommit, OwnedDestroy
<1>6. CASE Compact
  BY <1>1, <1>6 DEF Compact
<1>7. CASE UNCHANGED vars
  BY <1>1, <1>7 DEF vars
<1>8. CASE Next
  BY <1>2, <1>3, <1>4, <1>5, <1>6, <1>8, OwnedObjects DEF Next
<1> QED BY <1>7, <1>8

LEMMA ShapedNext ==
  ASSUME NEW M, Shaped(M), Owned, Fronted, [Next]_vars, {} \in M,
         \A t \in Txs : tx'[t].writes \in M, committing'.undo \in M
  PROVE  Shaped(M)'
<1>0. /\ records \in Seq(RecordsOf(M)) /\ tx \in [Txs -> ObjectsOf(M)]
      /\ committing \in [tx : Txs \union {None}, undo : M] /\ sealed \subseteq Txs
  BY DEF Shaped
<1>1. CASE UNCHANGED <<records, sealed, committing, tx>>
  BY <1>0, <1>1 DEF Shaped
<1>2. ASSUME NEW t \in Txs, NEW off \in Offs, NEW n \in Lengths, NEW data \in [1 .. n -> Bytes],
             WriteAt(t, off, data)
      PROVE  Shaped(M)'
  <2> DEFINE w == Overwrite(tx[t].writes, off, data)
  <2>1. tx' = [tx EXCEPT ![t].writes = w] /\ UNCHANGED <<records, sealed, committing>>
    BY <1>2 DEF WriteAt
  <2> HIDE DEF w
  <2>2. tx'[t].writes = w
    BY <1>0, <2>1 DEF ObjectsOf
  <2>3. w \in M
    BY <2>2
  <2>4. tx' \in [Txs -> ObjectsOf(M)]
    BY <1>0, <2>1, <2>3 DEF ObjectsOf
  <2> QED BY <1>0, <2>1, <2>4 DEF Shaped
<1>3. ASSUME NEW t \in Txs, NEW n \in Sizes, Resize(t, n)
      PROVE  Shaped(M)'
  BY <1>0, <1>3 DEF Resize, Shaped, ObjectsOf
<1>4. ASSUME NEW t \in Txs, CommitReadOnly(t) \/ Rollback(t)
      PROVE  Shaped(M)'
  <2>1. tx' = [tx EXCEPT ![t].valid = FALSE] /\ UNCHANGED <<records, sealed, committing>>
    BY <1>4 DEF CommitReadOnly, Rollback
  <2>2. tx' \in [Txs -> ObjectsOf(M)]
    BY <1>0, <2>1 DEF ObjectsOf
  <2> QED BY <1>0, <2>1, <2>2 DEF Shaped
<1>5. ASSUME NEW t \in Txs, NEW ro \in BOOLEAN, Begin(t, ro)
      PROVE  Shaped(M)'
  <2>1. /\ records' = Append(records, Record(t)) /\ UNCHANGED <<sealed, committing>>
        /\ tx' = [tx EXCEPT ![t] = [@ EXCEPT !.made = TRUE, !.valid = TRUE,
                                             !.readOnly = ro, !.record = t]]
    BY <1>5 DEF Begin
  <2>2. Record(t) \in RecordsOf(M)
    BY DEF Record, RecordsOf
  <2>3. records' \in Seq(RecordsOf(M))
    BY <1>0, <2>1, <2>2, AppendProperties
  <2>4. tx' \in [Txs -> ObjectsOf(M)]
    BY <1>0, <2>1 DEF ObjectsOf
  <2> QED BY <1>0, <2>1, <2>3, <2>4 DEF Shaped
<1>6. ASSUME NEW t \in Txs, CommitApply(t)
      PROVE  Shaped(M)'
  <2>1. /\ UNCHANGED <<records, sealed, tx>>
        /\ committing' = [tx |-> t, undo |-> committing'.undo]
    BY <1>6 DEF CommitApply
  <2> QED BY <1>0, <2>1 DEF Shaped
<1>7. ASSUME NEW t \in Txs, CommitSequence(t)
      PROVE  Shaped(M)'
  <2>1. /\ sealed' = sealed \union {tx[t].record} /\ committing' = NoCommit
        /\ tx' = [tx EXCEPT ![t].valid = FALSE] /\ committing.tx = t
    BY <1>7 DEF CommitSequence
  <2>2. tx[t].record \in Txs
    BY <2>1, BytesAssumption DEF Owned, Free
  <2>3. records' \in Seq(RecordsOf(M))
    BY <1>7, OwnedCommit
  <2>4. tx' \in [Txs -> ObjectsOf(M)]
    BY <1>0, <2>1 DEF ObjectsOf
  <2> QED BY <1>0, <2>1, <2>2, <2>3, <2>4 DEF Shaped, NoCommit
<1>8. ASSUME NEW t \in Txs, Destroy(t)
      PROVE  Shaped(M)'
  <2>1. /\ UNCHANGED <<sealed, committing>>
        /\ tx' = [tx EXCEPT ![t] = [NotMade EXCEPT !.made = TRUE]]
    BY <1>8 DEF Destroy
  <2>2. [NotMade EXCEPT !.made = TRUE] \in ObjectsOf(M)
    BY DEF NotMade, ObjectsOf
  <2>3. records' \in Seq(RecordsOf(M))
    BY <1>8, OwnedDestroy
  <2> QED BY <1>0, <2>1, <2>2, <2>3 DEF Shaped
<1>9. ASSUME NEW t \in Txs, NEW u \in Txs \ {t}, Move(t, u)
      PROVE  Shaped(M)'
  <2>1. /\ UNCHANGED <<records, sealed, committing>>
        /\ tx' = [tx EXCEPT ![u] = tx[t], ![t] = [@ EXCEPT !.valid = FALSE, !.writes = {}]]
    BY <1>9 DEF Move
  <2> DEFINE moved == [tx[t] EXCEPT !.valid = FALSE, !.writes = {}]
  <2>2. tx[t] \in ObjectsOf(M) /\ moved \in ObjectsOf(M)
    BY <1>0 DEF ObjectsOf
  <2>3. tx' = [[tx EXCEPT ![u] = tx[t]] EXCEPT ![t] = moved]
    BY <1>0, <2>1
  <2> HIDE DEF moved
  <2>4. tx' \in [Txs -> ObjectsOf(M)]
    BY <1>0, <2>2, <2>3
  <2> QED BY <1>0, <2>1, <2>4 DEF Shaped
<1>10. CASE Compact
  BY <1>1, <1>10 DEF Compact
<1>11. CASE UNCHANGED vars
  BY <1>1, <1>11 DEF vars
<1>12. CASE Next
  BY <1>2, <1>3, <1>4, <1>5, <1>6, <1>7, <1>8, <1>9, <1>10, <1>12 DEF Next
<1> QED BY <1>11, <1>12

\* The same for any maps.
Shape == \E M : {} \in M /\ Shaped(M)
ListInv == Shape /\ Owned /\ Fronted

LEMMA ShapedInit ==
  ASSUME Init, NEW M, {} \in M
  PROVE  Shaped(M) /\ Owned /\ Fronted
<1>1. records = <<>> /\ sealed = {} /\ committing = NoCommit /\ tx = [t \in Txs |-> NotMade]
  BY DEF Init
<1>2. NotMade \in ObjectsOf(M) /\ ~NotMade.valid
  BY DEF NotMade, ObjectsOf
<1>3. Shaped(M)
  BY <1>1, <1>2 DEF Shaped, NoCommit
<1>4. records = <<>> /\ DOMAIN records = {} /\ Len(records) = 0
  BY <1>1
<1>5. Owned /\ Fronted
  BY <1>1, <1>2, <1>4 DEF Owned, Fronted, Free, NoCommit, Distinct
<1> QED BY <1>3, <1>5

LEMMA ListInvNext == ListInv /\ [Next]_vars => ListInv'
<1> SUFFICES ASSUME ListInv, [Next]_vars PROVE ListInv'
  OBVIOUS
<1>1. PICK M : {} \in M /\ Shaped(M)
  BY DEF ListInv, Shape
<1>0. PICK N : N = M \union {tx'[t].writes : t \in Txs} \union {committing'.undo}
  OBVIOUS
<1>2. M \subseteq N /\ {} \in N /\ committing'.undo \in N /\ \A t \in Txs : tx'[t].writes \in N
  BY <1>0, <1>1
<1>3. Shaped(N)
  <2>1. RecordsOf(M) \subseteq RecordsOf(N) /\ ObjectsOf(M) \subseteq ObjectsOf(N)
    BY <1>2 DEF RecordsOf, ObjectsOf
  <2>2. records \in Seq(RecordsOf(N))
    <3>1. records \in Seq(RecordsOf(M))
      BY <1>1 DEF Shaped
    <3>2. \A i \in 1 .. Len(records) : records[i] \in RecordsOf(N)
      BY <2>1, <3>1, ElementOfSeq
    <3> QED BY <3>1, <3>2, IsASeq, LenProperties
  <2> QED BY <1>1, <1>2, <2>1, <2>2 DEF Shaped
<1>4. Shaped(N)' /\ Owned' /\ Fronted'
  BY <1>2, <1>3, ShapedNext, OwnedNext DEF ListInv
<1>5. Shape'
  BY <1>2, <1>4 DEF Shape
<1> QED BY <1>4, <1>5 DEF ListInv

LEMMA ListInvAlways == Spec => []ListInv
<1>1. Init => ListInv
  <2> SUFFICES ASSUME Init PROVE ListInv
    OBVIOUS
  <2>1. {} \in {{}}
    OBVIOUS
  <2> QED BY <2>1, ShapedInit DEF ListInv, Shape
<1> QED BY <1>1, ListInvNext, PTL DEF Spec

\* The sequencer keeps the bytes a commit replaced only while a transaction
\* that began before the commit is in the list: do_maintenance_ follows each
\* erasure, and begins append behind.
THEOREM NoUndoIsKeptInVain == Spec => []UndoIsNeeded
<1>1. ListInv => UndoIsNeeded
  <2> SUFFICES ASSUME ListInv, NEW i \in DOMAIN records, records[i].committed
               PROVE  \E j \in 1 .. i - 1 : ~records[j].committed
    BY DEF UndoIsNeeded
  <2>1. PICK M : Shaped(M)
    BY DEF ListInv, Shape
  <2>2. i \in 1 .. Len(records) /\ Len(records) \in Nat
    BY <2>1, RecordTypes
  <2>3. ~records[1].committed
    BY <2>2 DEF ListInv, Fronted
  <2>4. 1 \in 1 .. i - 1
    BY <2>2, <2>3
  <2> QED BY <2>3, <2>4
<1> QED BY <1>1, ListInvAlways, PTL

\* Where no object ends while the one it was moved to still has its record,
\* the record of a valid transaction is in the list.
THEOREM ValidIsLinked == ASSUME ~EarlyEnd PROVE Spec => []ReadersLinked
<1>1. Init => ReadersLinked
  BY DEF Init, ReadersLinked, NotMade
<1>2. ListInv /\ ReadersLinked /\ [Next]_vars => ReadersLinked'
  <2> SUFFICES ASSUME ListInv, ReadersLinked, [Next]_vars, NEW x \in Txs, tx'[x].valid
               PROVE  \E i \in DOMAIN records' : records'[i].id = tx'[x].record
    BY DEF ReadersLinked, Linked
  <2>1. PICK M : {} \in M /\ Shaped(M)
    BY DEF ListInv, Shape
  <2>2. Owned /\ Fronted /\ tx \in [Txs -> ObjectsOf(M)]
    BY <2>1 DEF ListInv, Shaped
  <2>3. DOMAIN records = 1 .. Len(records) /\ Len(records) \in Nat
    BY <2>1, RecordTypes
  <2>4. ASSUME NEW y \in Txs, tx[y].valid
        PROVE  \E i \in DOMAIN records :
                 records[i].id = tx[y].record /\ ~records[i].committed
    <3>1. tx[y].record \notin sealed
      BY <2>2, <2>4 DEF Owned
    <3> QED BY <2>2, <2>4, <3>1 DEF ReadersLinked, Linked, Owned
  <2>5. ASSUME records' = records, tx[x].valid, tx'[x].record = tx[x].record
        PROVE  \E i \in DOMAIN records' : records'[i].id = tx'[x].record
    BY <2>4, <2>5
  <2>6. ASSUME NEW t \in Txs, CommitSequence(t) \/ Destroy(t)
        PROVE  \E i \in DOMAIN records' : records'[i].id = tx'[x].record
    <3>1. x # t /\ tx'[x] = tx[x]
      BY <2>2, <2>6 DEF CommitSequence, Destroy, ObjectsOf, NotMade
    <3>2. tx[x].valid /\ tx'[x].record = tx[x].record
      BY <3>1
    <3>3. CASE tx[x].record # tx[t].record
      <4>1. PICK q \in DOMAIN records :
              records[q].id = tx[x].record /\ ~records[q].committed
        BY <2>4, <3>2
      <4>2. \E i \in DOMAIN records' : records'[i] = records[q]
        BY <2>1, <2>2, <2>6, <3>3, <4>1, OwnedCommit, OwnedDestroy
      <4> QED BY <3>2, <4>1, <4>2
    <3>4. CASE tx[x].record = tx[t].record
      <4>1. tx[x].record \notin sealed
        BY <2>2, <3>2 DEF Owned
      <4>2. Shared(t)
        BY <3>1, <3>4 DEF Shared
      <4>3. CommitSequence(t)
        BY <2>6, <3>4, <4>1, <4>2 DEF Destroy
      <4>4. tx[t].valid
        BY <2>2, <4>3, BytesAssumption DEF CommitSequence, Owned, Free
      <4> QED BY <2>2, <3>1, <3>2, <3>4, <4>4 DEF Owned
    <3> QED BY <3>3, <3>4
  <2>7. ASSUME NEW t \in Txs, NEW ro \in BOOLEAN, Begin(t, ro)
        PROVE  \E i \in DOMAIN records' : records'[i].id = tx'[x].record
    <3>1. records' = Append(records, Record(t)) /\ Record(t).id = t
      BY <2>7 DEF Begin, Record
    <3>2. records \in Seq(RecordsOf(M)) /\ Record(t) \in RecordsOf(M)
      BY <2>1 DEF Shaped, Record, RecordsOf
    <3>3. /\ DOMAIN records' = 1 .. Len(records) + 1
          /\ records'[Len(records) + 1] = Record(t)
          /\ \A i \in 1 .. Len(records) : records'[i] = records[i]
      BY <3>1, <3>2, AppendProperties, LenProperties
    <3>4. CASE x = t
      <4>1. tx'[x].record = t
        BY <2>2, <2>7, <3>4 DEF Begin, ObjectsOf
      <4> QED BY <2>3, <3>1, <3>3, <4>1
    <3>5. CASE x # t
      <4>1. tx'[x] = tx[x]
        BY <2>2, <2>7, <3>5 DEF Begin
      <4>2. PICK q \in DOMAIN records : records[q].id = tx[x].record
        BY <2>4, <4>1
      <4> QED BY <2>3, <3>3, <4>1, <4>2
    <3> QED BY <3>4, <3>5
  <2>8. ASSUME NEW t \in Txs, NEW u \in Txs \ {t}, Move(t, u)
        PROVE  \E i \in DOMAIN records' : records'[i].id = tx'[x].record
    <3>1. /\ records' = records /\ tx[t].valid
          /\ tx'[x] = IF x = u THEN tx[t] ELSE IF x = t THEN tx'[t] ELSE tx[x]
          /\ ~tx'[t].valid
      BY <2>2, <2>8 DEF Move, ObjectsOf
    <3>2. CASE x = u
      BY <2>4, <3>1, <3>2
    <3>3. CASE x # u
      BY <2>4, <3>1, <3>3
    <3> QED BY <3>2, <3>3
  <2>9. ASSUME NEW t \in Txs,
              \/ \E off \in Offs, n \in Lengths : \E data \in [1 .. n -> Bytes] : WriteAt(t, off, data)
              \/ \E n \in Sizes : Resize(t, n)
              \/ CommitReadOnly(t) \/ Rollback(t)
        PROVE  \E i \in DOMAIN records' : records'[i].id = tx'[x].record
    <3>1. records' = records /\ (tx'[x].valid => tx[x].valid) /\ tx'[x].record = tx[x].record
      BY <2>2, <2>9 DEF WriteAt, Resize, CommitReadOnly, Rollback, ObjectsOf
    <3> QED BY <2>5, <3>1
  <2>10. CASE Compact \/ UNCHANGED vars \/ \E t \in Txs : CommitApply(t)
    <3>1. records' = records /\ tx' = tx
      BY <2>10 DEF Compact, vars, CommitApply
    <3> QED BY <2>5, <3>1
  <2> QED BY <2>6, <2>7, <2>8, <2>9, <2>10 DEF Next
<1> QED BY <1>1, <1>2, ListInvAlways, PTL DEF Spec

(***************************************************************************)
(* Where every write has one byte, a map is a function from offsets to     *)
(* bytes: a set of cells of which no two have the same offset.             *)
(***************************************************************************)
Cells == {Region(o, <<b>>) : o \in Offs, b \in Bytes}
OneByte(m) == m \subseteq Cells /\ \A q, r \in m : q.first = r.first => q = r

\* A cell.
LEMMA CellIs ==
  ASSUME NEW r \in Cells
  PROVE  /\ r.first \in Offs /\ r.first \in Nat /\ r.data[1] \in Bytes /\ r.data[1] # None
         /\ r.data = <<r.data[1]>> /\ Len(r.data) = 1 /\ EndOf(r) = r.first + 1
         /\ r = Region(r.first, <<r.data[1]>>)
<1>1. PICK o \in Offs, b \in Bytes : r = Region(o, <<b>>)
  BY DEF Cells
<1>2. r.first = o /\ r.data = <<b>>
  BY <1>1 DEF Region
<1>3. o \in Nat /\ b # None
  BY MaxSizeAssumption, BytesAssumption DEF Offs
<1>4. Len(r.data) = 1 /\ r.data[1] = b
  BY <1>2
<1> QED BY <1>1, <1>2, <1>3, <1>4 DEF EndOf

\* The byte at an offset is that of the cell there.
LEMMA ByteIs ==
  ASSUME NEW m, OneByte(m), NEW o \in Nat
  PROVE  /\ ByteAt(m, o) \in Bytes \union {None}
         /\ ByteAt(m, o) # None => Region(o, <<ByteAt(m, o)>>) \in m
         /\ ByteAt(m, o) = None => \A r \in m : r.first # o
         /\ \A r \in m : r.first = o => ByteAt(m, o) = r.data[1]
         /\ (\A r \in m : r.first # o) => ByteAt(m, o) = None
<1>0. \A r \in m : r \in Cells
  BY DEF OneByte
<1>1. \A r \in m : /\ r \in Cells /\ r.first \in Nat /\ EndOf(r) = r.first + 1
                   /\ r.data[1] \in Bytes /\ r.data[1] # None
                   /\ r = Region(r.first, <<r.data[1]>>)
  <2> SUFFICES ASSUME NEW r \in m
               PROVE  /\ r \in Cells /\ r.first \in Nat /\ EndOf(r) = r.first + 1
                      /\ r.data[1] \in Bytes /\ r.data[1] # None
                      /\ r = Region(r.first, <<r.data[1]>>)
    OBVIOUS
  <2>1. r \in Cells
    BY <1>0
  <2> QED BY <2>1, CellIs
<1>2. ASSUME NEW r \in m
      PROVE  r.first <= o /\ o < EndOf(r) <=> r.first = o
  <2>1. r.first \in Nat /\ EndOf(r) = r.first + 1
    BY <1>1
  <2> QED BY <2>1
<1>3. CASE Covered(m, o)
  <2> DEFINE c == CHOOSE r \in m : r.first <= o /\ o < EndOf(r)
  <2>1. c \in m /\ c.first <= o /\ o < EndOf(c)
    BY <1>3 DEF Covered
  <2>2. ByteAt(m, o) = c.data[o - c.first + 1]
    BY <1>3 DEF ByteAt
  <2> HIDE DEF c
  <2>3. c.first = o /\ ByteAt(m, o) = c.data[1]
    BY <1>1, <1>2, <2>1, <2>2
  <2>4. \A r \in m : r.first = o => r = c
    BY <2>1, <2>3 DEF OneByte
  <2> QED BY <1>1, <2>1, <2>3, <2>4
<1>4. CASE ~Covered(m, o)
  BY <1>2, <1>4 DEF Covered, ByteAt
<1> QED BY <1>3, <1>4

LEMMA ByteOf ==
  ASSUME NEW m, OneByte(m), NEW r \in m
  PROVE  ByteAt(m, r.first) = r.data[1]
<1>1. r.first \in Nat
  BY CellIs DEF OneByte
<1> QED BY <1>1, ByteIs

\* The map without bytes.
LEMMA NoBytes == OneByte({}) /\ \A o \in Nat : ByteAt({}, o) = None
  BY DEF OneByte, ByteAt, Covered

\* The gap that ClampToGap gives ends where the next region begins.
LEMMA GapIs ==
  ASSUME NEW m, \A r \in m : r.first \in Nat, NEW off \in Nat, NEW n \in Nat
  PROVE  /\ ClampToGap(m, off, n) \in 0 .. n
         /\ \A r \in After(m, off) : ClampToGap(m, off, n) <= r.first - off
         /\ ClampToGap(m, off, n) = n \/ \E r \in After(m, off) : ClampToGap(m, off, n) = r.first - off
<1> DEFINE G == {r.first - off : r \in After(m, off)} \union {n}
<1>1. \A r \in After(m, off) : r.first \in Nat /\ r.first > off
  BY DEF After
<1>2. G \in SUBSET Nat /\ n \in G
  BY <1>1
<1>3. PICK k \in G : \A j \in G : k <= j
  <2> HIDE DEF G
  <2> QED BY <1>2, FirstOf
<1>4. k \in 0 .. n /\ \A r \in After(m, off) : k <= r.first - off
  BY <1>2, <1>3
<1>5. k = n \/ \E r \in After(m, off) : k = r.first - off
  BY <1>3
<1> HIDE DEF G
<1> QED BY <1>4, <1>5 DEF ClampToGap

\* A read gives the byte at the offset, or none, and then the map has no byte
\* in what is left of the request.
LEMMA ReadIs ==
  ASSUME NEW m, OneByte(m), NEW off \in Nat, NEW n \in Nat, n > 0
  PROVE  IF ByteAt(m, off) # None
         THEN ReadAt(m, off, n).data = <<ByteAt(m, off)>>
         ELSE /\ ReadAt(m, off, n).data = <<>>
              /\ ReadAt(m, off, n).left \in 1 .. n
              /\ \A o \in off .. off + ReadAt(m, off, n).left - 1 : ByteAt(m, o) = None
<1>1. \A r \in m : /\ r.first \in Nat /\ EndOf(r) = r.first + 1 /\ Len(r.data) = 1
                   /\ r.data = <<r.data[1]>>
  BY CellIs DEF OneByte
<1>2. \A r \in Holding(m, off) : r \in m /\ r.first = off
  BY <1>1 DEF Holding, AtOrBefore
<1>3. \A r \in m : r.first = off => r \in Holding(m, off)
  BY <1>1 DEF Holding, AtOrBefore
<1>4. CASE ByteAt(m, off) # None
  <2> DEFINE c == CHOOSE r \in Holding(m, off) : TRUE
  <2>1. Region(off, <<ByteAt(m, off)>>) \in m
    BY <1>4, ByteIs
  <2>2. Holding(m, off) # {}
    BY <1>3, <2>1 DEF Region
  <2>3. c \in Holding(m, off)
    BY <2>2
  <2>4. ReadAt(m, off, n).data =
          SubSeq(c.data, off - c.first + 1, off - c.first + Least(n, Len(c.data) - (off - c.first)))
    BY <2>2 DEF ReadAt
  <2> HIDE DEF c
  <2>5. c \in m /\ c.first = off /\ c.data = <<c.data[1]>> /\ Len(c.data) = 1
    BY <1>1, <1>2, <2>3
  <2>6. ByteAt(m, off) = c.data[1]
    BY <2>5, ByteIs
  <2>7. off - c.first + 1 = 1 /\ off - c.first + Least(n, Len(c.data) - (off - c.first)) = 1
    BY <2>5 DEF Least
  <2>8. SubSeq(c.data, 1, 1) = <<c.data[1]>>
    <3>1. PICK x : x = c.data[1]
      OBVIOUS
    <3>2. <<x>> \in Seq({x}) /\ Len(<<x>>) = 1
      OBVIOUS
    <3>3. SubSeq(<<x>>, 1, 1) = <<x>>
      BY <3>2, SubSeqFull
    <3> QED BY <2>5, <3>1, <3>3
  <2> QED BY <1>4, <2>4, <2>6, <2>7, <2>8
<1>5. CASE ByteAt(m, off) = None
  <2>1. \A r \in m : r.first # off
    BY <1>5, ByteIs
  <2>2. Holding(m, off) = {}
    BY <1>2, <2>1
  <2>3. ReadAt(m, off, n).data = <<>> /\ ReadAt(m, off, n).left = ClampToGap(m, off, n)
    BY <2>2 DEF ReadAt
  <2> DEFINE k == ClampToGap(m, off, n)
  <2>4. /\ k \in 0 .. n
        /\ \A r \in After(m, off) : k <= r.first - off
        /\ k = n \/ \E r \in After(m, off) : k = r.first - off
    <3> HIDE DEF k
    <3> QED BY <1>1, GapIs DEF k
  <2> HIDE DEF k
  <2>5. k \in 1 .. n
    BY <1>1, <2>4 DEF After
  <2>6. ASSUME NEW o \in off .. off + k - 1
        PROVE  ByteAt(m, o) = None
    <3>1. \A r \in m : r.first # o
      BY <1>1, <2>1, <2>4, <2>5 DEF After
    <3>2. o \in Nat
      OBVIOUS
    <3> QED BY <3>1, <3>2, ByteIs
  <2> QED BY <1>5, <2>3, <2>5, <2>6 DEF k
<1> QED BY <1>4, <1>5

\* A write of a byte replaces the byte there and no other.
LEMMA OverwriteIs ==
  ASSUME NEW m, OneByte(m), NEW off \in Offs, NEW b \in Bytes
  PROVE  /\ Overwrite(m, off, <<b>>) = {r \in m : r.first # off} \union {Region(off, <<b>>)}
         /\ OneByte(Overwrite(m, off, <<b>>))
<1>0. off \in Nat
  BY MaxSizeAssumption DEF Offs
<1>1. \A r \in m : r \in Cells /\ r.first \in Nat /\ EndOf(r) = r.first + 1
  BY CellIs DEF OneByte
<1> DEFINE E == Overwritten(m, off, off + 1)
           w == Region(off, <<b>>)
<1>2. E = {r \in m : r.first = off}
  <2>1. \A r \in E : r \in m /\ r.first = off
    BY <1>0, <1>1 DEF Overwritten, Holding, AtOrBefore, After
  <2>2. \A r \in m : r.first = off => r \in E
    BY <1>0, <1>1 DEF Overwritten, Holding, AtOrBefore
  <2> QED BY <2>1, <2>2
<1>3. Kept(E, off, off + 1) = {}
  BY <1>0, <1>1, <1>2 DEF Kept
<1>4. OverwriteTx(m, off, <<b>>) = [erase |-> E, insert |-> {w}]
  BY <1>3 DEF OverwriteTx, NewRegion
<1>5. w.first = off /\ w \in Cells
  BY DEF Region, Cells
<1>6. Overwrite(m, off, <<b>>) = {r \in m : r.first # off} \union {w}
  <2> HIDE DEF w, E
  <2>1. m \ E = {r \in m : r.first # off}
    BY <1>2
  <2> QED BY <1>4, <1>5, <2>1 DEF Overwrite, CommitTx
<1> HIDE DEF w, E
<1>7. OneByte({r \in m : r.first # off} \union {w})
  BY <1>1, <1>5 DEF OneByte
<1> QED BY <1>6, <1>7 DEF w

\* The bytes of a map before and after.
LEMMA OverwriteBytes ==
  ASSUME NEW m, OneByte(m), NEW off \in Offs, NEW b \in Bytes, NEW o \in Nat
  PROVE  ByteAt(Overwrite(m, off, <<b>>), o) = IF o = off THEN b ELSE ByteAt(m, o)
<1> DEFINE w == Region(off, <<b>>)
           v == Overwrite(m, off, <<b>>)
<1>1. v = {r \in m : r.first # off} \union {w} /\ OneByte(v)
  BY OverwriteIs
<1>2. w.first = off /\ w.data[1] = b
  BY DEF Region
<1> HIDE DEF v, w
<1>3. CASE o = off
  <2>1. w \in v
    BY <1>1
  <2>2. ByteAt(v, o) = b
    BY <1>1, <1>2, <1>3, <2>1, ByteIs
  <2> QED BY <1>3, <2>2 DEF v
<1>4. CASE o # off
  <2>1. CASE ByteAt(m, o) # None
    <3> DEFINE c == Region(o, <<ByteAt(m, o)>>)
    <3>1. c \in m /\ c.first = o /\ ByteAt(m, o) = c.data[1]
      <4>1. c \in m
        BY <2>1, ByteIs
      <4> QED BY <4>1 DEF Region
    <3> HIDE DEF c
    <3>2. c \in v
      BY <1>1, <1>4, <3>1
    <3>3. ByteAt(v, c.first) = c.data[1]
      BY <1>1, <3>2, ByteOf
    <3>4. ByteAt(v, o) = c.data[1]
      BY <3>1, <3>3
    <3> QED BY <1>4, <3>1, <3>4 DEF v
  <2>2. CASE ByteAt(m, o) = None
    <3>1. \A r \in v : r.first # o
      BY <1>1, <1>2, <1>4, <2>2, ByteIs
    <3>2. ByteAt(v, o) = None
      BY <1>1, <3>1, ByteIs
    <3> QED BY <1>4, <2>2, <3>2 DEF v
  <2> QED BY <2>1, <2>2
<1> QED BY <1>3, <1>4

\* A map whose bytes are below the size keeps them.
LEMMA TruncateIs ==
  ASSUME NEW m, OneByte(m), NEW n \in Nat, \A r \in m : r.first < n
  PROVE  Truncate(m, n) = m
<1>1. \A r \in m : r.first \in Nat /\ EndOf(r) = r.first + 1
  BY CellIs DEF OneByte
<1>2. {r \in m : r.first < n} = m /\ \A r \in m : ~(EndOf(r) > n)
  BY <1>1
<1> QED BY <1>2 DEF Truncate


(***************************************************************************)
(* A commit: what the writes make of a map, and what they replace.         *)
(***************************************************************************)
LEMMA WritesAreFinite ==
  ASSUME NEW m, OneByte(m)
  PROVE  IsFiniteSet(m)
<1> DEFINE f == [r \in m |-> r.first]
<1>1. IsFiniteSet(Offs)
  BY MaxSizeAssumption, FS_Interval DEF Offs
<1>2. f \in Injection(m, Offs)
  BY CellIs DEF OneByte, Injection, IsInjective
<1> HIDE DEF f
<1> QED BY <1>1, <1>2, FS_Injection DEF ExistsInjection

\* The writes replace the bytes at their offsets.
With(m, s) == {r \in m : \A w \in s : w.first # r.first} \union s

LEMMA WithIs ==
  ASSUME NEW m, OneByte(m), NEW s, OneByte(s)
  PROVE  OneByte(With(m, s))
BY DEF OneByte, With

LEMMA WithStep ==
  ASSUME NEW m, OneByte(m), NEW s, OneByte(s), NEW x \in s
  PROVE  Overwrite(With(m, s \ {x}), x.first, x.data) = With(m, s)
<1>1. x \in Cells
  BY DEF OneByte
<1>2. /\ x.first \in Offs /\ x.data[1] \in Bytes /\ x.data = <<x.data[1]>>
      /\ x = Region(x.first, <<x.data[1]>>)
  BY <1>1, CellIs
<1>3. OneByte(s \ {x})
  BY DEF OneByte
<1> DEFINE v == With(m, s \ {x})
<1>4. OneByte(v)
  BY <1>3, WithIs
<1> HIDE DEF v
<1>5. Overwrite(v, x.first, <<x.data[1]>>) = {r \in v : r.first # x.first} \union {x}
  BY <1>2, <1>4, OverwriteIs
<1>6. {r \in v : r.first # x.first} \union {x} = With(m, s)
  BY DEF v, With, OneByte
<1> QED BY <1>2, <1>5, <1>6 DEF v

LEMMA MergedIs ==
  ASSUME NEW m, OneByte(m), NEW writes, OneByte(writes)
  PROVE  Merged(m, writes) = With(m, writes)
<1> DEFINE eq(f) == [s \in SUBSET writes |->
                      IF s = {} THEN m
                      ELSE LET x == CHOOSE x \in s : TRUE
                           IN  Overwrite(f[s \ {x}], x.first, x.data)]
           it == CHOOSE f : f = eq(f)
           g  == [s \in SUBSET writes |-> With(m, s)]
<1>1. Merged(m, writes) = it[writes]
  BY DEF Merged, FoldSet, MapThenFoldSet
<1>2. g = eq(g)
  <2>1. ASSUME NEW s \in SUBSET writes
        PROVE  With(m, s) = IF s = {} THEN m
                            ELSE LET x == CHOOSE x \in s : TRUE
                                 IN  Overwrite(With(m, s \ {x}), x.first, x.data)
    <3>1. CASE s = {}
      BY <3>1 DEF With
    <3>2. CASE s # {}
      <4>1. PICK y : y = CHOOSE x \in s : TRUE
        OBVIOUS
      <4>2. y \in s
        BY <3>2, <4>1
      <4>3. OneByte(s)
        BY DEF OneByte
      <4>4. Overwrite(With(m, s \ {y}), y.first, y.data) = With(m, s)
        BY <4>2, <4>3, WithStep
      <4> QED BY <3>2, <4>1, <4>4
    <3> QED BY <3>1, <3>2
  <2> QED BY <2>1
<1>3. it = eq(it)
  <2> HIDE DEF g
  <2> QED BY <1>2
<1> HIDE DEF it, g
<1>4. \A s \in SUBSET writes : IsFiniteSet(s)
  BY WritesAreFinite, FS_Subset
<1> DEFINE Bad == {n \in Nat : \E s \in SUBSET writes : Cardinality(s) = n /\ it[s] # With(m, s)}
<1>5. Bad = {}
  <2> SUFFICES ASSUME Bad # {} PROVE FALSE
    OBVIOUS
  <2>1. PICK n \in Bad : \A k \in Bad : n <= k
    BY FirstOf
  <2>2. PICK s \in SUBSET writes : Cardinality(s) = n /\ it[s] # With(m, s)
    OBVIOUS
  <2>3. it[s] = IF s = {} THEN m
                ELSE LET x == CHOOSE x \in s : TRUE
                     IN  Overwrite(it[s \ {x}], x.first, x.data)
    BY <1>3
  <2>4. s # {}
    BY <2>2, <2>3 DEF With
  <2>5. PICK y : y = CHOOSE x \in s : TRUE
    OBVIOUS
  <2>6. y \in s
    BY <2>4, <2>5
  <2>7. it[s] = Overwrite(it[s \ {y}], y.first, y.data)
    BY <2>3, <2>4, <2>5
  <2>8. n \in Nat /\ Cardinality(s \ {y}) = n - 1 /\ Cardinality(s \ {y}) \in Nat
    BY <1>4, <2>2, <2>6, FS_RemoveElement, FS_CardinalityType, FS_Subset
  <2>9. it[s \ {y}] = With(m, s \ {y})
    BY <2>1, <2>8
  <2>10. OneByte(s)
    BY DEF OneByte
  <2> QED BY <2>2, <2>6, <2>7, <2>9, <2>10, WithStep
<1>6. Cardinality(writes) \in Nat
  BY <1>4, FS_CardinalityType
<1>7. it[writes] = With(m, writes)
  BY <1>5, <1>6
<1> QED BY <1>1, <1>7

\* The region's state where every write has one byte: the bytes past the end
\* of the file are zeroes.
Region1 ==
  /\ base \in [Offs -> Bytes] /\ size \in Sizes /\ OneByte(repl)
  /\ \A r \in repl : r.first < size
  /\ \A o \in Offs : o >= size => base[o] = Zero

LEMMA OffsAreNat == Offs \subseteq Nat /\ Sizes \subseteq Nat
  BY MaxSizeAssumption DEF Offs, Sizes

LEMMA WalByteIs ==
  ASSUME Region1, NEW o \in Offs
  PROVE  WalByte(o) \in Bytes /\ (o >= size => WalByte(o) = Zero)
<1>1. o \in Nat /\ size \in Nat
  BY OffsAreNat DEF Region1
<1>2. ByteAt(repl, o) \in Bytes \union {None}
  BY <1>1, ByteIs DEF Region1
<1>3. ASSUME o >= size
      PROVE  ByteAt(repl, o) = None
  <2>1. \A r \in repl : r.first # o
    BY <1>1, <1>3, CellIs DEF Region1, OneByte
  <2> QED BY <1>1, <2>1, ByteIs DEF Region1
<1> QED BY <1>2, <1>3 DEF WalByte, Region1

\* The byte that a commit saves for undoing is the one the file has.
LEMMA FromWalIs ==
  ASSUME Region1, NEW o \in Offs
  PROVE  FromWal(o, 1).data = <<WalByte(o)>> /\ FromWal(o, 1).len = 1
<1>1. o \in Nat /\ size \in Nat /\ o + 1 - 1 = o
  BY OffsAreNat DEF Region1
<1> DEFINE r == ReadAt(repl, o, 1)
<1>2. IF ByteAt(repl, o) # None
      THEN r.data = <<ByteAt(repl, o)>>
      ELSE r.data = <<>> /\ r.left \in 1 .. 1
  BY <1>1, ReadIs DEF Region1
<1>3. FromWal(o, 1) =
        IF r.data # <<>> THEN [data |-> r.data, len |-> 1]
        ELSE IF o >= size
        THEN [data |-> [i \in 1 .. r.left |-> Zero], len |-> r.left]
        ELSE LET len == Least(r.left, size - o)
             IN  [data |-> [i \in 1 .. len |-> base[o + i - 1]], len |-> len]
  BY DEF FromWal
<1> HIDE DEF r
<1>4. CASE ByteAt(repl, o) # None
  BY <1>2, <1>3, <1>4 DEF WalByte
<1>5. CASE ByteAt(repl, o) = None
  <2>1. r.data = <<>> /\ r.left = 1
    BY <1>2, <1>5
  <2>2. CASE o >= size
    <3>1. FromWal(o, 1) = [data |-> [i \in 1 .. 1 |-> Zero], len |-> 1]
      BY <1>3, <2>1, <2>2
    <3>2. WalByte(o) = Zero
      BY <2>2, WalByteIs
    <3>3. [i \in 1 .. 1 |-> Zero] = <<Zero>>
      OBVIOUS
    <3> QED BY <3>1, <3>2, <3>3
  <2>3. CASE ~(o >= size)
    <3>1. Least(1, size - o) = 1
      BY <1>1, <2>3 DEF Least
    <3>2. FromWal(o, 1) = [data |-> [i \in 1 .. 1 |-> base[o + i - 1]], len |-> 1]
      BY <1>3, <2>1, <2>3, <3>1
    <3>3. [i \in 1 .. 1 |-> base[o + i - 1]] = <<base[o]>>
      <4>1. \A i \in 1 .. 1 : o + i - 1 = o
        BY <1>1
      <4>2. [i \in 1 .. 1 |-> base[o + i - 1]] = [i \in 1 .. 1 |-> base[o]]
        BY <4>1
      <4> QED BY <4>2
    <3>4. WalByte(o) = base[o]
      BY <1>5 DEF WalByte
    <3> QED BY <3>2, <3>3, <3>4
  <2> QED BY <2>2, <2>3
<1> QED BY <1>4, <1>5

LEMMA SavedIs ==
  ASSUME Region1, NEW w \in Cells
  PROVE  Saved(w) = {Region(w.first, <<WalByte(w.first)>>)}
<1>1. w.first \in Offs /\ w.first \in Nat /\ EndOf(w) = w.first + 1
  BY CellIs
<1> DEFINE a == w.first
           c == Region(a, <<WalByte(a)>>)
           eq(f) == [off \in a .. EndOf(w) |->
                      IF off = EndOf(w) THEN {}
                      ELSE LET r == FromWal(off, EndOf(w) - off)
                           IN  {Region(off, r.data)} \union f[off + r.len]]
           it == CHOOSE f : f = eq(f)
           g  == [off \in a .. a + 1 |-> IF off = a + 1 THEN {} ELSE {c}]
<1>2. Saved(w) = it[a]
  BY DEF Saved
<1>3. a .. EndOf(w) = {a, a + 1} /\ a .. a + 1 = {a, a + 1} /\ a # a + 1 /\ (a + 1) - a = 1
  BY <1>1
<1>4. FromWal(a, 1).data = <<WalByte(a)>> /\ FromWal(a, 1).len = 1
  BY <1>1, FromWalIs
<1>5. g = eq(g)
  <2>1. g[a + 1] = {} /\ g[a] = {c}
    BY <1>3
  <2> HIDE DEF g
  <2>2. eq(g)[a + 1] = {}
    BY <1>1, <1>3
  <2>3. eq(g)[a] = {c}
    <3>1. eq(g)[a] = {Region(a, FromWal(a, 1).data)} \union g[a + FromWal(a, 1).len]
      BY <1>1, <1>3
    <3> QED BY <1>4, <2>1, <3>1
  <2>4. DOMAIN eq(g) = {a, a + 1} /\ DOMAIN g = {a, a + 1}
    BY <1>3 DEF g
  <2>5. \A x \in {a, a + 1} : g[x] = eq(g)[x]
    BY <2>1, <2>2, <2>3
  <2>6. eq(g) = [x \in DOMAIN eq(g) |-> eq(g)[x]] /\ g = [x \in DOMAIN g |-> g[x]]
    BY DEF g
  <2> HIDE DEF eq
  <2> QED BY <2>4, <2>5, <2>6
<1>6. it = eq(it)
  <2> HIDE DEF g
  <2> QED BY <1>5
<1> HIDE DEF it
<1>7. it[a + 1] = {}
  BY <1>1, <1>3, <1>6
<1>8. it[a] = {Region(a, FromWal(a, 1).data)} \union it[a + FromWal(a, 1).len]
  <2>1. eq(it)[a] = {Region(a, FromWal(a, 1).data)} \union it[a + FromWal(a, 1).len]
    BY <1>1, <1>3
  <2> HIDE DEF eq
  <2> QED BY <1>6, <2>1
<1>9. it[a] = {c}
  BY <1>4, <1>7, <1>8
<1> QED BY <1>2, <1>9

\* The undo map of a commit has the file's byte where the transaction wrote.
LEMMA UndoIs ==
  ASSUME Region1, NEW writes, OneByte(writes)
  PROVE  /\ OneByte(Undo(writes))
         /\ \A o \in Offs : ByteAt(Undo(writes), o) =
                              IF ByteAt(writes, o) # None THEN WalByte(o) ELSE None
<1> DEFINE Was(o) == Region(o, <<WalByte(o)>>)
           u == Undo(writes)
<1>1. \A w \in writes : w \in Cells /\ w.first \in Offs
  BY CellIs DEF OneByte
<1>2. \A w \in writes : Saved(w) = {Was(w.first)}
  BY <1>1, SavedIs
<1>3. u = {Was(w.first) : w \in writes}
  BY <1>2 DEF Undo
<1>4. \A o \in Offs : Was(o) \in Cells /\ Was(o).first = o /\ Was(o).data[1] = WalByte(o)
  BY WalByteIs DEF Region, Cells
<1> HIDE DEF Was, u
<1>5. OneByte(u)
  BY <1>1, <1>3, <1>4 DEF OneByte
<1>6. ASSUME NEW o \in Offs
      PROVE  ByteAt(u, o) = IF ByteAt(writes, o) # None THEN WalByte(o) ELSE None
  <2>0. o \in Nat
    BY OffsAreNat
  <2>1. CASE ByteAt(writes, o) # None
    <3>1. Region(o, <<ByteAt(writes, o)>>) \in writes
      BY <2>0, <2>1, ByteIs
    <3>2. Was(o) \in u
      BY <1>3, <3>1 DEF Region
    <3> QED BY <1>4, <1>5, <2>1, <3>2, ByteOf
  <2>2. CASE ByteAt(writes, o) = None
    <3>1. \A w \in writes : w.first # o
      BY <2>0, <2>2, ByteIs
    <3>2. \A r \in u : r.first # o
      BY <1>1, <1>3, <1>4, <3>1
    <3> QED BY <1>5, <2>0, <2>2, <3>2, ByteIs
  <2> QED BY <2>1, <2>2
<1> QED BY <1>5, <1>6 DEF u

(***************************************************************************)
(* Reads: through the list, then the region.                               *)
(***************************************************************************)
Maps1 == {m \in SUBSET Cells : OneByte(m)}

LEMMA HoldingIs ==
  ASSUME NEW m, OneByte(m), NEW o \in Nat
  PROVE  Holding(m, o) # {} <=> ByteAt(m, o) # None
<1>1. \A r \in m : r.first \in Nat /\ EndOf(r) = r.first + 1
  BY CellIs DEF OneByte
<1>2. CASE ByteAt(m, o) # None
  <2>1. Region(o, <<ByteAt(m, o)>>) \in m
    BY <1>2, ByteIs
  <2>2. PICK r \in m : r.first = o
    BY <2>1 DEF Region
  <2>3. r \in Holding(m, o)
    BY <1>1, <2>2 DEF Holding, AtOrBefore
  <2> QED BY <1>2, <2>3
<1>3. CASE ByteAt(m, o) = None
  <2>1. \A r \in m : r.first # o
    BY <1>3, ByteIs
  <2> QED BY <1>1, <1>3, <2>1 DEF Holding, AtOrBefore
<1> QED BY <1>2, <1>3

\* What the sequencer finds from position p on: the byte of the first record
\* that has one, else nothing in what is left of the request.
Found(p, off, n, r) ==
  IF \E i \in p .. Len(records) : Has(records[i], off)
  THEN \E j \in p .. Len(records) : /\ Has(records[j], off)
                                    /\ \A i \in p .. j - 1 : ~Has(records[i], off)
                                    /\ r.data = <<ByteAt(records[j].undo, off)>>
  ELSE /\ r.data = <<>> /\ r.left \in 1 .. n
       /\ \A o \in off .. off + r.left - 1, i \in p .. Len(records) : ~Has(records[i], o)

LEMMA SeqReadIs ==
  ASSUME Shaped(Maps1), NEW id, Linked(id), NEW off \in Nat, NEW n \in Nat, n > 0
  PROVE  \E p \in DOMAIN records : /\ records[p].id = id
                                   /\ Found(p, off, n, SeqRead(id, off, n))
<1> DEFINE p == Position(id)
           later  == {i \in p .. Len(records) : records[i].committed}
           hits   == {i \in later : Holding(records[i].undo, off) # {}}
           Us(S)  == UNION {records[i].undo : i \in S}
           R      == SeqRead(id, off, n)
<1>1. p \in DOMAIN records /\ records[p].id = id
  BY DEF Linked, Position
<1>2. /\ DOMAIN records = 1 .. Len(records) /\ Len(records) \in Nat
      /\ \A i \in 1 .. Len(records) : OneByte(records[i].undo)
  <2>1. /\ DOMAIN records = 1 .. Len(records) /\ Len(records) \in Nat
        /\ \A i \in 1 .. Len(records) : records[i] \in RecordsOf(Maps1)
    BY RecordTypes
  <2> QED BY <2>1 DEF RecordsOf, Maps1
<1>3. R = IF hits = {} THEN [data |-> <<>>, left |-> ClampToGap(Us(later), off, n)]
          ELSE ReadAt(records[Min(hits)].undo, off,
                      ClampToGap(Us({i \in later : i < Min(hits)}), off, n))
  BY DEF SeqRead
<1> HIDE DEF p, R
<1>4. \A i \in later : i \in 1 .. Len(records) /\ i \in p .. Len(records)
  BY <1>1, <1>2
<1>5. \A i \in p .. Len(records) : Has(records[i], off) <=> i \in hits
  BY <1>1, <1>2, HoldingIs DEF Has
<1>6. \A S \in SUBSET later : \A r \in Us(S) : r \in Cells /\ r.first \in Nat
  BY <1>2, <1>4, CellIs DEF OneByte
<1>7. ASSUME NEW S \in SUBSET later
      PROVE  /\ ClampToGap(Us(S), off, n) \in 1 .. n
             /\ \A r \in Us(S) : r.first > off => ClampToGap(Us(S), off, n) <= r.first - off
  <2>1. \A r \in Us(S) : r.first \in Nat
    BY <1>6
  <2> DEFINE m == Us(S)
             k == ClampToGap(m, off, n)
  <2> HIDE DEF m, k
  <2>2. /\ k \in 0 .. n
        /\ \A r \in After(m, off) : k <= r.first - off
        /\ k = n \/ \E r \in After(m, off) : k = r.first - off
    BY <2>1, GapIs DEF m, k
  <2>3. \A r \in m : r.first \in Nat
    BY <2>1 DEF m
  <2> QED BY <2>2, <2>3 DEF After, m, k
<1>8. CASE hits = {}
  <2> DEFINE left == ClampToGap(Us(later), off, n)
  <2>1. R.data = <<>> /\ R.left = left
    BY <1>3, <1>8
  <2>2. /\ left \in 1 .. n
        /\ \A r \in Us(later) : r.first > off => left <= r.first - off
    BY <1>7
  <2> HIDE DEF left
  <2>3. ASSUME NEW o \in off .. off + left - 1, NEW i \in p .. Len(records), Has(records[i], o)
        PROVE  FALSE
    <3>1. o \in Nat /\ o >= off /\ o < off + left
      BY <2>2
    <3>2. i \in later /\ OneByte(records[i].undo) /\ ByteAt(records[i].undo, o) # None
      BY <1>2, <1>4, <2>3 DEF Has
    <3>3. o # off
      BY <1>5, <1>8, <2>3
    <3>4. Region(o, <<ByteAt(records[i].undo, o)>>) \in records[i].undo
      BY <3>1, <3>2, ByteIs
    <3>5. PICK r \in records[i].undo : r.first = o
      BY <3>4 DEF Region
    <3>6. r \in Us(later)
      BY <3>2
    <3> HIDE DEF later
    <3> QED BY <2>2, <3>1, <3>3, <3>5, <3>6
  <2>4. \A i \in p .. Len(records) : ~Has(records[i], off)
    BY <1>5, <1>8
  <2>5. Found(p, off, n, R)
    BY <2>1, <2>2, <2>3, <2>4 DEF Found
  <2> QED BY <1>1, <2>5 DEF R
<1>9. CASE hits # {}
  <2>1. hits \in SUBSET Nat
    BY <1>2, <1>4
  <2>2. \E x \in hits : \A y \in hits : x <= y
    <3> HIDE DEF hits
    <3> QED BY <1>9, <2>1, FirstOf
  <2> DEFINE j == Min(hits)
  <2>3. j \in hits /\ \A y \in hits : j <= y
    BY <2>2 DEF Min
  <2> HIDE DEF j
  <2>4. j \in p .. Len(records) /\ Has(records[j], off) /\ OneByte(records[j].undo)
    BY <1>2, <1>4, <1>5, <2>3
  <2>5. ASSUME NEW i \in p .. j - 1, Has(records[i], off)
        PROVE  FALSE
    <3>1. p \in Nat /\ j \in Nat /\ i \in p .. Len(records) /\ i < j
      BY <1>1, <1>2, <2>4
    <3>2. i \in hits
      BY <1>5, <2>5, <3>1
    <3> HIDE DEF hits
    <3> QED BY <2>3, <3>1, <3>2
  <2> DEFINE before == {i \in later : i < j}
             gap == ClampToGap(Us(before), off, n)
  <2>6. R = ReadAt(records[j].undo, off, gap)
    BY <1>3, <1>9 DEF j
  <2>7. gap \in 1 .. n
    BY <1>7
  <2> HIDE DEF gap
  <2>8. R.data = <<ByteAt(records[j].undo, off)>>
    <3>1. ByteAt(records[j].undo, off) # None
      BY <2>4 DEF Has
    <3>2. gap \in Nat /\ gap > 0
      BY <2>7
    <3> QED BY <2>4, <2>6, <3>1, <3>2, ReadIs
  <2>9. Found(p, off, n, R)
    BY <2>4, <2>5, <2>8 DEF Found
  <2> QED BY <1>1, <2>9 DEF R
<1> QED BY <1>8, <1>9

\* The region gives its bytes, and none past the end of the file.
LEMMA WalReadIs ==
  ASSUME Region1, NEW off \in Nat, NEW n \in Nat, n > 0, off + n <= MaxSize
  PROVE  /\ off >= size => WalRead(off, n) = <<>>
         /\ off < size => /\ WalRead(off, n) # <<>>
                          /\ DOMAIN WalRead(off, n) \subseteq 1 .. n
                          /\ \A i \in DOMAIN WalRead(off, n) : WalRead(off, n)[i] = WalByte(off + i - 1)
<1>1. CASE off >= size
  <2>1. size \in Nat
    BY OffsAreNat DEF Region1
  <2>2. ~(off < size) /\ WalRead(off, n) = <<>>
    BY <1>1, <2>1 DEF WalRead
  <2> QED BY <2>2
<1>2. CASE ~(off >= size)
  <2>0. size \in Nat /\ MaxSize \in Nat
    BY OffsAreNat, MaxSizeAssumption DEF Region1
  <2> DEFINE len == Least(n, size - off)
             r   == ReadAt(repl, off, len)
             W   == WalRead(off, n)
  <2>1. len \in 1 .. n
    BY <1>2, <2>0 DEF Least
  <2>2. W = IF r.data # <<>> THEN r.data ELSE [i \in 1 .. r.left |-> base[off + i - 1]]
    BY <1>2 DEF WalRead
  <2> HIDE DEF len, W
  <2>3. IF ByteAt(repl, off) # None
        THEN r.data = <<ByteAt(repl, off)>>
        ELSE /\ r.data = <<>>
             /\ r.left \in 1 .. len
             /\ \A o \in off .. off + r.left - 1 : ByteAt(repl, o) = None
    BY <2>1, ReadIs DEF Region1
  <2> HIDE DEF r
  <2>4. CASE ByteAt(repl, off) # None
    <3>1. W = <<WalByte(off)>>
      BY <2>2, <2>3, <2>4 DEF WalByte
    <3>2. W # <<>> /\ DOMAIN W = {1} /\ W[1] = WalByte(off) /\ off + 1 - 1 = off
      BY <3>1
    <3>3. DOMAIN W \subseteq 1 .. n
      BY <3>2
    <3> QED BY <1>2, <2>0, <3>2, <3>3 DEF W
  <2>5. CASE ByteAt(repl, off) = None
    <3>1. W = [i \in 1 .. r.left |-> base[off + i - 1]] /\ r.left \in 1 .. n
      BY <2>1, <2>2, <2>3, <2>5
    <3>2. W # <<>> /\ DOMAIN W = 1 .. r.left
      BY <3>1
    <3>3. ASSUME NEW i \in 1 .. r.left
          PROVE  W[i] = WalByte(off + i - 1)
      <4>1. off + i - 1 \in off .. off + r.left - 1
        BY <3>1
      <4>2. ByteAt(repl, off + i - 1) = None
        BY <2>3, <2>5, <4>1
      <4> QED BY <3>1, <4>2 DEF WalByte
    <3>4. 1 .. r.left \subseteq 1 .. n
      BY <3>1
    <3> QED BY <1>2, <2>0, <3>2, <3>3, <3>4 DEF W
  <2> QED BY <2>4, <2>5
<1> QED BY <1>1, <1>2

(***************************************************************************)
(* The invariant: the contents are those of the region, but for a commit   *)
(* that is not sequenced yet; and from its record on, a transaction finds  *)
(* the bytes of its snapshot.                                              *)
(***************************************************************************)
Applied ==
  \A o \in Offs :
    IF Free THEN contents.data[o] = WalByte(o)
    ELSE \/ ByteAt(committing.undo, o) = contents.data[o]
         \/ ByteAt(committing.undo, o) = None /\ contents.data[o] = WalByte(o)

Snapshots ==
  \A t \in Txs, p \in DOMAIN records : tx[t].valid /\ records[p].id = tx[t].record =>
    \A o \in Offs : Reads(records, p, o, contents.data[o], start[t].data[o])

\* Every byte of a read is the one expected.
LEMMA TxReadIs ==
  ASSUME Region1, Shaped(Maps1), Applied, Snapshots, Free,
         NEW t \in Txs, Reader(t), NEW off \in Offs, NEW n \in 1 .. MaxSize, off + n <= MaxSize,
         NEW i \in DOMAIN TxRead(t, off, n)
  PROVE  TxRead(t, off, n)[i] = Expected(t, off + i - 1)
<1> DEFINE resized == tx[t].newSize # None
           want == IF resized THEN Least(n, tx[t].newSize - off) ELSE n
           own  == ReadAt(tx[t].writes, off, want)
           seq  == SeqRead(tx[t].record, off, own.left)
           wal  == WalRead(off, seq.left)
           R    == TxRead(t, off, n)
<1>1. /\ off \in Nat /\ n \in Nat /\ n > 0 /\ MaxSize \in Nat /\ size \in Nat
      /\ \A k \in 1 .. n : off + k - 1 \in Offs /\ off + k - 1 \in Nat
  BY MaxSizeAssumption, OffsAreNat DEF Offs, Region1
<1>2. /\ OneByte(tx[t].writes)
      /\ resized => tx[t].newSize \in Nat
  <2>1. tx[t] \in ObjectsOf(Maps1)
    BY DEF Shaped
  <2>2. tx[t].writes \in Maps1 /\ tx[t].newSize \in Sizes \union {None}
    BY <2>1 DEF ObjectsOf
  <2> QED BY <2>2, OffsAreNat DEF Maps1
<1>3. R = IF resized /\ off >= tx[t].newSize THEN <<>>
          ELSE IF own.data # <<>> THEN own.data
          ELSE IF seq.data # <<>> THEN seq.data
          ELSE IF wal # <<>> THEN wal
          ELSE IF resized THEN [k \in 1 .. seq.left |-> Zero]
          ELSE <<>>
  BY DEF TxRead
<1> DEFINE none == resized /\ off >= tx[t].newSize
<1>4. ASSUME ~none
      PROVE  want \in 1 .. n
  BY <1>1, <1>2, <1>4 DEF Least
<1> HIDE DEF R, want
<1>5. CASE none
  BY <1>3, <1>5 DEF R
<1>6. CASE ~none
  <2>1. IF ByteAt(tx[t].writes, off) # None
        THEN own.data = <<ByteAt(tx[t].writes, off)>>
        ELSE /\ own.data = <<>>
             /\ own.left \in 1 .. want
             /\ \A o \in off .. off + own.left - 1 : ByteAt(tx[t].writes, o) = None
    BY <1>1, <1>2, <1>4, <1>6, ReadIs
  <2> HIDE DEF own
  <2>2. CASE ByteAt(tx[t].writes, off) # None
    <3>1. R = <<ByteAt(tx[t].writes, off)>>
      <4>1. own.data = <<ByteAt(tx[t].writes, off)>>
        BY <2>1, <2>2
      <4>2. own.data # <<>>
        BY <4>1
      <4>3. R = own.data
        BY <1>3, <1>6, <4>2
      <4> QED BY <4>1, <4>3
    <3>2. i = 1 /\ off + i - 1 = off /\ R[i] = ByteAt(tx[t].writes, off)
      <4>1. DOMAIN R = {1} /\ R[1] = ByteAt(tx[t].writes, off)
        BY <3>1
      <4>2. i = 1
        BY <4>1 DEF R
      <4> QED BY <1>1, <4>1, <4>2
    <3> QED BY <2>2, <3>2 DEF Expected, R
  <2>3. CASE ByteAt(tx[t].writes, off) = None
    <3>1. /\ own.data = <<>> /\ own.left \in 1 .. n
          /\ \A k \in 1 .. own.left : Expected(t, off + k - 1) = start[t].data[off + k - 1]
      <4>1. own.data = <<>> /\ own.left \in 1 .. n
        BY <1>1, <1>4, <1>6, <2>1, <2>3
      <4>2. ASSUME NEW k \in 1 .. own.left
            PROVE  Expected(t, off + k - 1) = start[t].data[off + k - 1]
        <5>1. off + k - 1 \in off .. off + own.left - 1
          BY <1>1, <4>1
        <5> QED BY <2>1, <2>3, <5>1 DEF Expected
      <4> QED BY <4>1, <4>2
    <3>2. PICK p \in DOMAIN records : /\ records[p].id = tx[t].record
                                      /\ Found(p, off, own.left, seq)
      <4>1. own.left \in Nat /\ own.left > 0 /\ Linked(tx[t].record)
        BY <3>1 DEF Reader
      <4> QED BY <1>1, <4>1, SeqReadIs
    <3> HIDE DEF seq
    <3>3. \A o \in Offs : Reads(records, p, o, WalByte(o), start[t].data[o])
      BY <3>2 DEF Snapshots, Applied, Reader
    <3>4. DOMAIN records = 1 .. Len(records) /\ Len(records) \in Nat /\ p \in Nat
      <4>1. DOMAIN records = 1 .. Len(records) /\ Len(records) \in Nat
        BY RecordTypes
      <4> QED BY <4>1
    <3>5. CASE \E k \in p .. Len(records) : Has(records[k], off)
      <4>1. PICK j \in p .. Len(records) : /\ Has(records[j], off)
                                           /\ \A k \in p .. j - 1 : ~Has(records[k], off)
                                           /\ seq.data = <<ByteAt(records[j].undo, off)>>
        BY <3>2, <3>5 DEF Found
      <4>2. PICK x \in p .. Len(records) : /\ Has(records[x], off)
                                           /\ ByteAt(records[x].undo, off) = start[t].data[off]
                                           /\ \A k \in p .. x - 1 : ~Has(records[k], off)
        BY <3>3, <3>5 DEF Reads
      <4>3. x = j
        <5>1. ~(x < j) /\ ~(j < x)
          BY <3>4, <4>1, <4>2
        <5> QED BY <3>4, <5>1
      <4>4. R = <<start[t].data[off]>>
        BY <1>3, <1>6, <3>1, <4>1, <4>2, <4>3
      <4>5. DOMAIN R = {1} /\ R[1] = start[t].data[off]
        BY <4>4
      <4>6. i = 1 /\ off + i - 1 = off
        BY <1>1, <4>5 DEF R
      <4>7. Expected(t, off + 1 - 1) = start[t].data[off + 1 - 1]
        BY <3>1
      <4> QED BY <1>1, <4>5, <4>6, <4>7 DEF R
    <3>6. CASE ~\E k \in p .. Len(records) : Has(records[k], off)
      <4>1. /\ seq.data = <<>> /\ seq.left \in 1 .. own.left
            /\ \A o \in off .. off + seq.left - 1, k \in p .. Len(records) : ~Has(records[k], o)
        BY <3>2, <3>6 DEF Found
      <4>2. seq.left \in 1 .. n /\ off + seq.left <= MaxSize
        BY <1>1, <3>1, <4>1
      <4>3. ASSUME NEW k \in 1 .. seq.left
            PROVE  Expected(t, off + k - 1) = WalByte(off + k - 1)
        <5>1. off + k - 1 \in off .. off + seq.left - 1 /\ off + k - 1 \in Offs
          BY <1>1, <4>2
        <5>2. Reads(records, p, off + k - 1, WalByte(off + k - 1), start[t].data[off + k - 1])
          BY <3>3, <5>1
        <5>3. \A x \in p .. Len(records) : ~Has(records[x], off + k - 1)
          BY <4>1, <5>1
        <5>4. WalByte(off + k - 1) = start[t].data[off + k - 1]
          BY <5>2, <5>3 DEF Reads
        <5>5. k \in 1 .. own.left
          BY <3>1, <4>1
        <5> QED BY <3>1, <5>4, <5>5
      <4>4. /\ off >= size => wal = <<>>
            /\ off < size => /\ wal # <<>>
                             /\ DOMAIN wal \subseteq 1 .. seq.left
                             /\ \A k \in DOMAIN wal : wal[k] = WalByte(off + k - 1)
        <5>1. seq.left \in Nat /\ seq.left > 0
          BY <4>2
        <5> QED BY <1>1, <4>2, <5>1, WalReadIs
      <4> HIDE DEF wal
      <4>5. CASE wal # <<>>
        <5>1. R = wal
          BY <1>3, <1>6, <3>1, <4>1, <4>5
        <5>2. off < size
          BY <1>1, <4>4, <4>5
        <5>3. i \in 1 .. seq.left /\ R[i] = WalByte(off + i - 1)
          BY <4>4, <5>1, <5>2 DEF R
        <5> QED BY <4>3, <5>3 DEF R
      <4>6. CASE wal = <<>>
        <5>1. R = IF resized THEN [k \in 1 .. seq.left |-> Zero] ELSE <<>>
          BY <1>3, <1>6, <3>1, <4>1, <4>6
        <5>2. off >= size
          BY <1>1, <4>4, <4>6
        <5>3. i \in 1 .. seq.left /\ R[i] = Zero
          BY <5>1 DEF R
        <5>4. off + i - 1 \in Offs /\ off + i - 1 >= size
          BY <1>1, <4>2, <5>2, <5>3
        <5>5. WalByte(off + i - 1) = Zero
          BY <5>4, WalByteIs
        <5> QED BY <4>3, <5>3, <5>5 DEF R
      <4> QED BY <4>5, <4>6
    <3> QED BY <3>5, <3>6
  <2> QED BY <2>2, <2>3
<1> QED BY <1>5, <1>6

LEMMA WithBytes ==
  ASSUME NEW m, OneByte(m), NEW s, OneByte(s), NEW o \in Nat
  PROVE  ByteAt(With(m, s), o) = IF ByteAt(s, o) # None THEN ByteAt(s, o) ELSE ByteAt(m, o)
<1> DEFINE v == With(m, s)
<1>1. OneByte(v) /\ v = {r \in m : \A w \in s : w.first # r.first} \union s
  BY WithIs DEF With
<1> HIDE DEF v
<1>2. CASE ByteAt(s, o) # None
  <2> DEFINE c == Region(o, <<ByteAt(s, o)>>)
  <2>1. c \in s /\ c.first = o /\ c.data[1] = ByteAt(s, o)
    <3>1. c \in s
      BY <1>2, ByteIs
    <3> QED BY <3>1 DEF Region
  <2> HIDE DEF c
  <2>2. c \in v
    BY <1>1, <2>1
  <2>3. ByteAt(v, c.first) = c.data[1]
    BY <1>1, <2>2, ByteOf
  <2> QED BY <1>2, <2>1, <2>3 DEF v
<1>3. CASE ByteAt(s, o) = None /\ ByteAt(m, o) # None
  <2> DEFINE c == Region(o, <<ByteAt(m, o)>>)
  <2>1. c \in m /\ c.first = o /\ c.data[1] = ByteAt(m, o)
    <3>1. c \in m
      BY <1>3, ByteIs
    <3> QED BY <3>1 DEF Region
  <2> HIDE DEF c
  <2>2. \A w \in s : w.first # o
    BY <1>3, ByteIs
  <2>3. c \in v
    BY <1>1, <2>1, <2>2
  <2>4. ByteAt(v, c.first) = c.data[1]
    BY <1>1, <2>3, ByteOf
  <2> QED BY <1>3, <2>1, <2>4 DEF v
<1>4. CASE ByteAt(s, o) = None /\ ByteAt(m, o) = None
  <2>1. \A w \in s : w.first # o
    BY <1>4, ByteIs
  <2>2. \A w \in m : w.first # o
    BY <1>4, ByteIs
  <2>3. \A r \in v : r.first # o
    BY <1>1, <2>1, <2>2
  <2>4. ByteAt(v, o) = None
    BY <1>1, <2>3, ByteIs
  <2> QED BY <1>4, <2>4 DEF v
<1> QED BY <1>2, <1>3, <1>4

\* What transactions know of sizes: one at a time grows the file, and writes
\* are below the size that their transaction sees.
Resizing(t) == tx[t].valid /\ tx[t].newSize # None

SizedOf(t) ==
  /\ ~tx[t].made => tx[t].newSize = None /\ tx[t].writes = {}
  /\ tx[t].valid /\ tx[t].newSize # None =>
       IF committing.tx = t THEN tx[t].newSize = size ELSE size < tx[t].newSize
  /\ tx[t].valid => \A w \in tx[t].writes : w.first < TxSize(t)

Sized ==
  /\ \A t \in Txs : SizedOf(t)
  /\ \A t, u \in Txs : Resizing(t) /\ Resizing(u) => t = u

Held == contents \in Files /\ start \in [Txs -> Files]

ReadInv ==
  /\ Region1 /\ Shaped(Maps1) /\ Owned /\ Fronted
  /\ Sized /\ Held /\ Applied /\ Snapshots

\* A transaction object.
LEMMA ObjectTypes ==
  ASSUME Shaped(Maps1), NEW t \in Txs
  PROVE  /\ OneByte(tx[t].writes) /\ tx[t].writes \in Maps1
         /\ tx[t].newSize \in Sizes \union {None}
         /\ tx[t].record \in Txs \union {None}
         /\ tx[t].newSize # None => tx[t].newSize \in Nat
<1>1. tx[t] \in ObjectsOf(Maps1)
  BY DEF Shaped
<1>2. /\ tx[t].writes \in Maps1 /\ tx[t].newSize \in Sizes \union {None}
      /\ tx[t].record \in Txs \union {None}
  BY <1>1 DEF ObjectsOf
<1> QED BY <1>2, OffsAreNat DEF Maps1

\* What tx_commit_ makes of the region: the file does not shrink, and has the
\* transaction's bytes over its own.
LEMMA ApplyIs ==
  ASSUME Region1, Shaped(Maps1), Sized, NEW t \in Txs, CommitApply(t)
  PROVE  /\ Region1'
         /\ size' = TxSize(t) /\ size <= size' /\ (tx[t].newSize = None => size' = size)
         /\ OneByte(committing'.undo)
         /\ \A o \in Offs :
              /\ WalByte(o)' = IF ByteAt(tx[t].writes, o) # None THEN ByteAt(tx[t].writes, o)
                               ELSE WalByte(o)
              /\ ByteAt(committing'.undo, o) =
                   IF ByteAt(tx[t].writes, o) # None THEN WalByte(o) ELSE None
<1> DEFINE ws == tx[t].writes
           n  == tx[t].newSize
           m  == With(repl, ws)
<1>1. OneByte(ws) /\ n \in Sizes \union {None} /\ (n # None => n \in Nat)
  BY ObjectTypes
<1>2. /\ Free /\ tx[t].valid /\ base' = base
      /\ committing' = [tx |-> t, undo |-> Undo(ws)]
      /\ IF n = None
         THEN repl' = Merged(repl, ws) /\ size' = size
         ELSE repl' = Truncate(Merged(repl, ws), n) /\ size' = n
  BY DEF CommitApply, MayWrite
<1>3. /\ base \in [Offs -> Bytes] /\ size \in Sizes /\ size \in Nat /\ OneByte(repl)
      /\ \A r \in repl : r.first < size /\ r.first \in Nat
      /\ \A o \in Offs : o >= size => base[o] = Zero
  BY OffsAreNat, CellIs DEF Region1, OneByte
<1>4. SizedOf(t)
  BY DEF Sized
<1>5. committing.tx # t
  BY <1>2, BytesAssumption DEF Free
<1> HIDE DEF ws, n
<1>6. \A w \in ws : w.first < TxSize(t) /\ w.first \in Nat
  BY <1>1, <1>2, <1>4, CellIs DEF SizedOf, OneByte, ws
<1>7. size <= TxSize(t) /\ TxSize(t) \in Sizes /\ TxSize(t) \in Nat
  <2>1. CASE n = None
    BY <1>3, <2>1 DEF TxSize, n
  <2>2. CASE n # None
    <3>1. size < n /\ TxSize(t) = n
      BY <1>2, <1>4, <1>5, <2>2 DEF SizedOf, TxSize, n
    <3> QED BY <1>1, <1>3, <2>2, <3>1
  <2> QED BY <2>1, <2>2
<1>8. Merged(repl, ws) = m /\ OneByte(m)
  BY <1>1, <1>3, MergedIs, WithIs
<1>9. \A r \in m : r.first < TxSize(t)
  BY <1>3, <1>6, <1>7 DEF With
<1> HIDE DEF m
<1>10. size' = TxSize(t) /\ repl' = m
  <2>1. CASE n = None
    BY <1>2, <1>8, <2>1 DEF TxSize, n
  <2>2. CASE n # None
    <3>1. TxSize(t) = n
      BY <2>2 DEF TxSize, n
    <3>2. Truncate(m, n) = m
      BY <1>7, <1>8, <1>9, <3>1, TruncateIs
    <3> QED BY <1>2, <1>8, <2>2, <3>1, <3>2
  <2> QED BY <2>1, <2>2
<1>11. \A o \in Offs : o >= size' => base'[o] = Zero
  BY <1>2, <1>3, <1>7, <1>10, OffsAreNat
<1>12. Region1'
  BY <1>2, <1>3, <1>7, <1>8, <1>9, <1>10, <1>11 DEF Region1
<1>13. committing'.undo = Undo(ws)
  BY <1>2
<1>14. /\ OneByte(Undo(ws))
       /\ \A o \in Offs : ByteAt(Undo(ws), o) = IF ByteAt(ws, o) # None THEN WalByte(o) ELSE None
  BY <1>1, UndoIs
<1>15. ASSUME NEW o \in Offs
       PROVE  WalByte(o)' = IF ByteAt(ws, o) # None THEN ByteAt(ws, o) ELSE WalByte(o)
  <2>1. o \in Nat
    BY OffsAreNat
  <2>2. ByteAt(m, o) = IF ByteAt(ws, o) # None THEN ByteAt(ws, o) ELSE ByteAt(repl, o)
    BY <1>1, <1>3, <2>1, WithBytes DEF m
  <2>3. WalByte(o)' = IF ByteAt(m, o) # None THEN ByteAt(m, o) ELSE base[o]
    BY <1>2, <1>10 DEF WalByte
  <2> QED BY <2>2, <2>3 DEF WalByte
<1>16. tx[t].newSize = None => size' = size
  BY <1>10 DEF TxSize
<1> QED BY <1>7, <1>10, <1>12, <1>13, <1>14, <1>15, <1>16 DEF ws

\* Compaction changes no byte.
LEMMA CompactIs ==
  ASSUME Region1, Compact
  PROVE  Region1' /\ \A o \in Offs : WalByte(o)' = WalByte(o)
<1>1. /\ base' = [o \in Offs |-> WalByte(o)] /\ repl' = {} /\ size' = size
  BY DEF Compact
<1>2. \A o \in Offs : WalByte(o) \in Bytes /\ (o >= size => WalByte(o) = Zero)
  BY WalByteIs
<1>3. OneByte({}) /\ \A o \in Offs : ByteAt({}, o) = None
  BY NoBytes, OffsAreNat
<1>4. Region1'
  BY <1>1, <1>2, <1>3 DEF Region1
<1>5. \A o \in Offs : WalByte(o)' = base'[o]
  BY <1>1, <1>3 DEF WalByte
<1> QED BY <1>1, <1>4, <1>5

(***************************************************************************)
(* Every step keeps the invariant, where writes have one byte and no       *)
(* transaction shrinks the file.                                           *)
(***************************************************************************)
OnlyGrows == Lengths \subseteq {1} /\ "shrink" \notin Resizes

LEMMA RegionNext ==
  ASSUME ReadInv, [Next]_vars, OnlyGrows
  PROVE  Region1' /\ Shaped(Maps1)' /\ Owned' /\ Fronted'
<1>0. Region1 /\ Shaped(Maps1) /\ Owned /\ Fronted /\ Sized
  BY DEF ReadInv
<1>1. {} \in Maps1
  BY NoBytes DEF Maps1
<1>2. Region1'
  <2>1. CASE UNCHANGED walVars
    BY <1>0, <2>1 DEF Region1, walVars
  <2>2. CASE \E t \in Txs : CommitApply(t)
    BY <1>0, <2>2, ApplyIs
  <2>3. CASE Compact
    BY <1>0, <2>3, CompactIs
  <2> QED BY <2>1, <2>2, <2>3 DEF Next, vars, walVars, Begin, WriteAt, Resize, CommitSequence,
                              CommitReadOnly, Rollback, Destroy, Move
<1>3. tx \in [Txs -> ObjectsOf(Maps1)] /\ committing.undo \in Maps1
  BY <1>0 DEF Shaped
<1>4. \A t \in Txs : tx[t].writes \in Maps1
  BY <1>0, ObjectTypes
<1>5. \A t \in Txs : tx'[t].writes \in Maps1
  <2>1. ASSUME NEW t \in Txs, NEW off \in Offs, NEW n \in Lengths, NEW data \in [1 .. n -> Bytes],
               WriteAt(t, off, data), NEW x \in Txs
        PROVE  tx'[x].writes \in Maps1
    <3>1. n = 1
      BY DEF OnlyGrows
    <3>2. data = <<data[1]>> /\ data[1] \in Bytes
      BY <3>1
    <3> DEFINE w == Overwrite(tx[t].writes, off, data)
    <3>3. OneByte(w)
      <4>1. OneByte(tx[t].writes)
        BY <1>4 DEF Maps1
      <4>2. PICK b \in Bytes : data = <<b>>
        BY <3>2
      <4> QED BY <4>1, <4>2, OverwriteIs
    <3>4. tx' = [tx EXCEPT ![t].writes = w]
      BY <2>1 DEF WriteAt
    <3> HIDE DEF w
    <3>5. tx'[t].writes = w
      BY <1>3, <3>4 DEF ObjectsOf
    <3>6. x # t => tx'[x] = tx[x]
      BY <1>3, <3>4
    <3> QED BY <1>4, <3>3, <3>5, <3>6 DEF Maps1, OneByte
  <2>2. ASSUME NEW t \in Txs, NEW u \in Txs \ {t}, Move(t, u), NEW x \in Txs
        PROVE  tx'[x].writes \in Maps1
    <3>1. x # t /\ x # u => tx'[x] = tx[x]
      BY <1>3, <2>2 DEF Move
    <3>2. tx'[u] = tx[t]
      BY <1>3, <2>2 DEF Move
    <3>3. tx'[t].writes = {}
      BY <1>3, <2>2 DEF Move, ObjectsOf
    <3> QED BY <1>1, <1>4, <3>1, <3>2, <3>3
  <2>3. ASSUME NEW t \in Txs, Destroy(t), NEW x \in Txs
        PROVE  tx'[x].writes \in Maps1
    <3>1. x # t => tx'[x] = tx[x]
      BY <1>3, <2>3 DEF Destroy
    <3>2. tx'[t].writes = {}
      BY <1>3, <2>3 DEF Destroy, NotMade
    <3> QED BY <1>1, <1>4, <3>1, <3>2
  <2>4. ASSUME NEW t \in Txs, NEW x \in Txs,
               \/ \E ro \in BOOLEAN : Begin(t, ro)
               \/ \E n \in Sizes : Resize(t, n)
               \/ CommitSequence(t) \/ CommitReadOnly(t) \/ Rollback(t)
        PROVE  tx'[x].writes = tx[x].writes
    <3>1. ASSUME NEW ro \in BOOLEAN, Begin(t, ro)
          PROVE  tx'[x].writes = tx[x].writes
      BY <1>3, <3>1 DEF Begin, ObjectsOf
    <3>2. ASSUME NEW n \in Sizes, Resize(t, n)
          PROVE  tx'[x].writes = tx[x].writes
      BY <1>3, <3>2 DEF Resize, ObjectsOf
    <3>3. CASE CommitSequence(t) \/ CommitReadOnly(t) \/ Rollback(t)
      BY <1>3, <3>3 DEF CommitSequence, CommitReadOnly, Rollback, ObjectsOf
    <3> QED BY <2>4, <3>1, <3>2, <3>3
  <2>5. CASE tx' = tx
    BY <1>4, <2>5
  <2> QED BY <1>4, <2>1, <2>2, <2>3, <2>4, <2>5 DEF Next, vars, Compact, CommitApply
<1>6. committing'.undo \in Maps1
  <2>1. CASE committing' = committing
    BY <1>3, <2>1
  <2>2. ASSUME NEW t \in Txs, CommitApply(t)
        PROVE  committing'.undo \in Maps1
    <3>1. OneByte(committing'.undo)
      BY <1>0, <2>2, ApplyIs
    <3> QED BY <3>1 DEF Maps1, OneByte
  <2>3. CASE \E t \in Txs : CommitSequence(t)
    BY <1>1, <2>3 DEF CommitSequence, NoCommit
  <2> QED BY <2>1, <2>2, <2>3 DEF Next, vars, Begin, WriteAt, Resize, CommitReadOnly,
                              Rollback, Destroy, Move, Compact
<1> QED BY <1>0, <1>1, <1>2, <1>5, <1>6, ShapedNext, OwnedNext

\* Sizes.  Objects that the step leaves alone, in a region of that size.
Alike(x) == tx'[x] = tx[x] \/ (~tx'[x].valid /\ tx'[x].made)

LEMMA SizedSame ==
  ASSUME committing' = committing, size' = size, NEW X \in SUBSET Txs,
         \A x \in X : SizedOf(x) /\ Alike(x)
  PROVE  \A x \in X : SizedOf(x)'
BY DEF SizedOf, TxSize, Alike

LEMMA SizedNext ==
  ASSUME ReadInv, [Next]_vars, OnlyGrows
  PROVE  Sized'
<1>0. /\ Region1 /\ Shaped(Maps1) /\ Owned /\ Sized
      /\ tx \in [Txs -> ObjectsOf(Maps1)] /\ size \in Nat
      /\ \A x \in Txs : SizedOf(x)
      /\ \A x, y \in Txs : Resizing(x) /\ Resizing(y) => x = y
  BY OffsAreNat DEF ReadInv, Shaped, Sized, Region1
<1>1. committing.tx # None => tx[committing.tx].valid
  BY <1>0 DEF Owned, Free
<1>2. \A x \in Txs : tx[x].valid => tx[x].made
  BY <1>0 DEF Owned
<1>3. ASSUME NEW t \in Txs, NEW ro \in BOOLEAN, Begin(t, ro)
      PROVE  Sized'
  <2>1. /\ committing' = committing /\ size' = size /\ ~tx[t].made
        /\ \A x \in Txs : x # t => tx'[x] = tx[x]
        /\ tx'[t].made /\ tx'[t].newSize = tx[t].newSize /\ tx'[t].writes = tx[t].writes
    BY <1>0, <1>3 DEF Begin, walVars, ObjectsOf
  <2>2. tx[t].newSize = None /\ tx[t].writes = {}
    BY <1>0, <2>1 DEF SizedOf
  <2>3. SizedOf(t)'
    BY <2>1, <2>2 DEF SizedOf
  <2>4. \A x \in Txs \ {t} : SizedOf(x)'
    <3>1. Txs \ {t} \in SUBSET Txs /\ \A x \in Txs \ {t} : SizedOf(x) /\ Alike(x)
      BY <1>0, <2>1 DEF Alike
    <3>2. committing' = committing /\ size' = size
      BY <1>0, <2>1
    <3> QED BY <3>1, <3>2, SizedSame
  <2>5. \A x \in Txs : Resizing(x)' => Resizing(x)
    BY <2>1, <2>2 DEF Resizing
  <2> QED BY <1>0, <2>3, <2>4, <2>5 DEF Sized
<1>4. ASSUME NEW t \in Txs, NEW off \in Offs, NEW n \in Lengths, NEW data \in [1 .. n -> Bytes],
             WriteAt(t, off, data)
      PROVE  Sized'
  <2>1. n = 1 /\ off \in Nat
    BY OffsAreNat DEF OnlyGrows
  <2>2. PICK b \in Bytes : data = <<b>>
    BY <2>1
  <2> DEFINE w == Overwrite(tx[t].writes, off, data)
  <2>3. w = {r \in tx[t].writes : r.first # off} \union {Region(off, <<b>>)}
    BY <1>0, <2>2, ObjectTypes, OverwriteIs
  <2>4. tx' = [tx EXCEPT ![t].writes = w] /\ committing' = committing /\ size' = size
        /\ tx[t].valid /\ off + Len(data) <= TxSize(t)
    BY <1>4 DEF WriteAt, walVars, MayWrite
  <2> HIDE DEF w
  <2>5. /\ \A x \in Txs : x # t => tx'[x] = tx[x]
        /\ tx'[t].writes = w /\ tx'[t].made = tx[t].made /\ tx'[t].valid = tx[t].valid
        /\ tx'[t].newSize = tx[t].newSize
    BY <1>0, <2>4 DEF ObjectsOf
  <2>6. TxSize(t)' = TxSize(t) /\ TxSize(t) \in Nat
    BY <1>0, <2>4, <2>5, ObjectTypes DEF TxSize
  <2>7. off < TxSize(t)
    <3>1. Len(data) = 1
      BY <2>2
    <3> QED BY <2>1, <2>4, <2>6, <3>1
  <2>8. \A r \in w : r.first < TxSize(t)
    BY <1>0, <2>3, <2>4, <2>7 DEF SizedOf, Region
  <2>9. SizedOf(t)'
    BY <1>0, <1>2, <2>4, <2>5, <2>6, <2>8 DEF SizedOf
  <2>10. \A x \in Txs \ {t} : SizedOf(x)'
    <3>1. Txs \ {t} \in SUBSET Txs /\ \A x \in Txs \ {t} : SizedOf(x) /\ Alike(x)
      BY <1>0, <2>4, <2>5 DEF Alike
    <3>2. committing' = committing /\ size' = size
      BY <1>0, <2>4, <2>5
    <3> QED BY <3>1, <3>2, SizedSame
  <2>11. \A x \in Txs : Resizing(x)' => Resizing(x)
    BY <2>5 DEF Resizing
  <2> QED BY <1>0, <2>9, <2>10, <2>11 DEF Sized
<1>5. ASSUME NEW t \in Txs, NEW n \in Sizes, Resize(t, n)
      PROVE  Sized'
  <2>1. /\ tx' = [tx EXCEPT ![t].newSize = n] /\ committing' = committing /\ size' = size
        /\ tx[t].valid /\ committing.tx # t
        /\ \A u \in Txs \ {t} : tx[u].valid => tx[u].newSize = None
        /\ ~(n <= TxSize(t))
    BY <1>5 DEF Resize, walVars, MayWrite, OnlyGrows
  <2>2. /\ \A x \in Txs : x # t => tx'[x] = tx[x]
        /\ tx'[t].writes = tx[t].writes /\ tx'[t].made = tx[t].made
        /\ tx'[t].valid = tx[t].valid /\ tx'[t].newSize = n
    BY <1>0, <2>1 DEF ObjectsOf
  <2>3. TxSize(t) \in Nat /\ n \in Nat /\ n # None
    BY <1>0, ObjectTypes, OffsAreNat, BytesAssumption DEF TxSize
  <2>4. size <= TxSize(t)
    BY <1>0, <2>1, <2>3 DEF SizedOf, TxSize
  <2>5. \A w \in tx[t].writes : w.first < n
    <3>1. \A w \in tx[t].writes : w.first < TxSize(t) /\ w.first \in Nat
      BY <1>0, <2>1, ObjectTypes, CellIs DEF SizedOf, OneByte
    <3> QED BY <2>1, <2>3, <3>1
  <2>6. TxSize(t)' = n
    BY <2>2, <2>3 DEF TxSize
  <2>7. SizedOf(t)'
    <3>1. size < n
      BY <1>0, <2>1, <2>3, <2>4
    <3> QED BY <1>2, <2>1, <2>2, <2>5, <2>6, <3>1 DEF SizedOf
  <2>8. \A x \in Txs \ {t} : SizedOf(x)'
    <3>1. Txs \ {t} \in SUBSET Txs /\ \A x \in Txs \ {t} : SizedOf(x) /\ Alike(x)
      BY <1>0, <2>1, <2>2 DEF Alike
    <3>2. committing' = committing /\ size' = size
      BY <1>0, <2>1, <2>2
    <3> QED BY <3>1, <3>2, SizedSame
  <2>9. \A x \in Txs : Resizing(x)' => x = t
    BY <2>1, <2>2 DEF Resizing
  <2> QED BY <2>7, <2>8, <2>9 DEF Sized
<1>6. ASSUME NEW t \in Txs, CommitApply(t)
      PROVE  Sized'
  <2>1. /\ tx' = tx /\ committing'.tx = t /\ committing.tx = None /\ tx[t].valid
    BY <1>6 DEF CommitApply, MayWrite, Free
  <2>2. size' = TxSize(t) /\ size <= size' /\ (tx[t].newSize = None => size' = size)
    BY <1>0, <1>6, ApplyIs
  <2>3. None \notin Txs
    BY BytesAssumption
  <2>4. ASSUME NEW x \in Txs
        PROVE  SizedOf(x)'
    <3>1. SizedOf(x)
      BY <1>0
    <3>2. CASE x = t
      BY <2>1, <2>2, <3>1, <3>2 DEF SizedOf, TxSize
    <3>3. CASE x # t /\ tx[x].valid
      <4>1. CASE tx[x].newSize = None
        <5>1. size' \in Nat /\ TxSize(x) = size /\ TxSize(x)' = size'
          BY <1>0, <2>1, <2>2, <4>1, ObjectTypes DEF TxSize
        <5>2. \A w \in tx[x].writes : w.first < size /\ w.first \in Nat
          BY <1>0, <3>1, <3>3, <5>1, ObjectTypes, CellIs DEF SizedOf, OneByte
        <5>3. \A w \in tx[x].writes : w.first < size'
          BY <1>0, <2>2, <5>1, <5>2
        <5> QED BY <1>2, <2>1, <3>3, <4>1, <5>1, <5>3 DEF SizedOf
      <4>2. CASE tx[x].newSize # None
        <5>1. tx[t].newSize = None
          BY <1>0, <2>1, <3>3, <4>2 DEF Resizing
        <5>2. size' = size
          BY <2>2, <5>1
        <5> QED BY <2>1, <2>3, <3>1, <3>3, <5>2 DEF SizedOf, TxSize
      <4> QED BY <4>1, <4>2
    <3>4. CASE ~tx[x].valid
      BY <2>1, <3>1, <3>4 DEF SizedOf
    <3> QED BY <3>2, <3>3, <3>4
  <2>5. \A x \in Txs : Resizing(x)' => Resizing(x)
    BY <2>1 DEF Resizing
  <2> QED BY <1>0, <2>4, <2>5 DEF Sized
<1>7. ASSUME NEW t \in Txs, CommitSequence(t)
      PROVE  Sized'
  <2>1. /\ committing.tx = t /\ committing'.tx = None /\ size' = size /\ tx[t].valid
        /\ \A x \in Txs : x # t => tx'[x] = tx[x]
        /\ ~tx'[t].valid /\ tx'[t].made = tx[t].made
    <3>1. t # None
      BY BytesAssumption
    <3> QED BY <1>0, <1>1, <1>7, <3>1 DEF CommitSequence, walVars, NoCommit, ObjectsOf
  <2>2. ASSUME NEW x \in Txs, x # t
        PROVE  SizedOf(x)'
    <3>1. committing.tx # x /\ committing'.tx # x
      BY <2>1, <2>2, BytesAssumption
    <3> QED BY <1>0, <2>1, <2>2, <3>1 DEF SizedOf, TxSize
  <2>3. SizedOf(t)'
    BY <1>2, <2>1 DEF SizedOf
  <2>4. \A x \in Txs : Resizing(x)' => Resizing(x)
    BY <2>1 DEF Resizing
  <2> QED BY <1>0, <2>2, <2>3, <2>4 DEF Sized
<1>8. ASSUME NEW t \in Txs, CommitReadOnly(t) \/ Rollback(t) \/ Destroy(t)
      PROVE  Sized'
  <2>1. /\ committing' = committing /\ size' = size /\ tx[t].made
        /\ \A x \in Txs : x # t => tx'[x] = tx[x]
        /\ ~tx'[t].valid /\ tx'[t].made
    BY <1>0, <1>2, <1>8 DEF CommitReadOnly, Rollback, Destroy, NotMade, walVars, ObjectsOf
  <2>2. \A x \in Txs : SizedOf(x)'
    <3>1. Txs \in SUBSET Txs /\ \A x \in Txs : SizedOf(x) /\ Alike(x)
      BY <1>0, <2>1 DEF Alike
    <3>2. committing' = committing /\ size' = size
      BY <1>0, <2>1
    <3> QED BY <3>1, <3>2, SizedSame
  <2>3. \A x \in Txs : Resizing(x)' => Resizing(x)
    BY <2>1 DEF Resizing
  <2> QED BY <1>0, <2>2, <2>3 DEF Sized
<1>9. ASSUME NEW t \in Txs, NEW u \in Txs \ {t}, Move(t, u)
      PROVE  Sized'
  <2>1. /\ committing' = committing /\ size' = size /\ tx[t].valid /\ ~tx[u].made
        /\ \A x \in Txs : x # t /\ x # u => tx'[x] = tx[x]
        /\ ~tx'[t].valid /\ tx'[t].made = tx[t].made /\ tx'[u] = tx[t] /\ committing.tx # t
    BY <1>0, <1>9 DEF Move, walVars, ObjectsOf
  <2>2. committing.tx # u
    <3>1. ~tx[u].valid /\ u # None
      BY <1>2, <2>1, BytesAssumption
    <3> QED BY <1>1, <3>1
  <2>3. \A x \in Txs \ {u} : SizedOf(x)'
    <3>1. Txs \ {u} \in SUBSET Txs /\ \A x \in Txs \ {u} : SizedOf(x) /\ Alike(x)
      BY <1>0, <1>2, <2>1 DEF Alike
    <3>2. committing' = committing /\ size' = size
      BY <1>0, <1>2, <2>1
    <3> QED BY <3>1, <3>2, SizedSame
  <2>4. SizedOf(u)'
    <3>1. SizedOf(t)
      BY <1>0
    <3> QED BY <2>1, <2>2, <3>1 DEF SizedOf, TxSize
  <2>5. \A x \in Txs : Resizing(x)' => IF x = u THEN Resizing(t) ELSE x # t /\ Resizing(x)
    BY <2>1 DEF Resizing
  <2> QED BY <1>0, <2>3, <2>4, <2>5 DEF Sized
<1>10. CASE UNCHANGED <<tx, size, committing>>
  <2>1. \A x \in Txs : SizedOf(x)'
    <3>1. Txs \in SUBSET Txs /\ \A x \in Txs : SizedOf(x) /\ Alike(x)
      BY <1>0, <1>10 DEF Alike
    <3>2. committing' = committing /\ size' = size
      BY <1>0, <1>10
    <3> QED BY <3>1, <3>2, SizedSame
  <2>2. \A x \in Txs : Resizing(x)' => Resizing(x)
    BY <1>10 DEF Resizing
  <2> QED BY <1>0, <2>1, <2>2 DEF Sized
<1>11. CASE Compact \/ UNCHANGED vars
  BY <1>10, <1>11 DEF Compact, vars, walVars
<1> QED BY <1>3, <1>4, <1>5, <1>6, <1>7, <1>8, <1>9, <1>11 DEF Next

\* The bytes a commit left in the contents are those of the region.
LEMMA NowIs ==
  ASSUME Region1
  PROVE  Now \in Files /\ \A o \in Offs : Now.data[o] = WalByte(o)
<1>1. size \in Sizes /\ size \in Nat /\ Zero \in Bytes
  BY OffsAreNat, BytesAssumption DEF Region1
<1>2. \A o \in Offs : o \in Nat /\ WalByte(o) \in Bytes /\ (o >= size => WalByte(o) = Zero)
  BY WalByteIs, OffsAreNat
<1>3. \A o \in Offs : (IF o < size THEN WalByte(o) ELSE Zero) = WalByte(o)
  BY <1>1, <1>2
<1>4. Now = [size |-> size, data |-> [o \in Offs |-> WalByte(o)]]
  BY <1>3 DEF Now
<1> QED BY <1>1, <1>2, <1>4 DEF Files

LEMMA HeldNext ==
  ASSUME ReadInv, [Next]_vars
  PROVE  Held'
<1>0. Region1 /\ contents \in Files /\ start \in [Txs -> Files]
  BY DEF ReadInv, Held
<1>1. Now \in Files
  BY <1>0, NowIs
<1>2. CASE UNCHANGED <<contents, start>>
  BY <1>0, <1>2 DEF Held
<1>3. ASSUME NEW t \in Txs, NEW ro \in BOOLEAN, Begin(t, ro)
      PROVE  Held'
  BY <1>0, <1>3 DEF Held, Begin
<1>4. ASSUME NEW t \in Txs, NEW u \in Txs, Move(t, u)
      PROVE  Held'
  BY <1>0, <1>4 DEF Held, Move
<1>5. ASSUME NEW t \in Txs, CommitSequence(t)
      PROVE  Held'
  <2>1. contents' = Now /\ start' = start
    BY <1>5 DEF CommitSequence
  <2> QED BY <1>0, <1>1, <2>1 DEF Held
<1> QED BY <1>2, <1>3, <1>4, <1>5 DEF Next, vars, WriteAt, Resize, CommitApply, CommitReadOnly,
                                      Rollback, Destroy, Compact

LEMMA AppliedNext ==
  ASSUME ReadInv, [Next]_vars
  PROVE  Applied'
<1>0. Region1 /\ Shaped(Maps1) /\ Sized /\ Applied
  BY DEF ReadInv
<1>1. CASE UNCHANGED <<walVars, committing, contents>>
  BY <1>0, <1>1 DEF Applied, walVars, Free, WalByte
<1>2. ASSUME NEW t \in Txs, CommitApply(t)
      PROVE  Applied'
  <2>1. contents' = contents /\ Free /\ ~Free'
    <3>1. committing'.tx = t /\ t # None
      BY <1>2, BytesAssumption DEF CommitApply
    <3> QED BY <1>2, <3>1 DEF CommitApply, Free
  <2>2. \A o \in Offs : contents.data[o] = WalByte(o)
    BY <1>0, <2>1 DEF Applied
  <2>3. \A o \in Offs :
          /\ WalByte(o)' = IF ByteAt(tx[t].writes, o) # None THEN ByteAt(tx[t].writes, o)
                           ELSE WalByte(o)
          /\ ByteAt(committing'.undo, o) =
               IF ByteAt(tx[t].writes, o) # None THEN WalByte(o) ELSE None
    BY <1>0, <1>2, ApplyIs
  <2> QED BY <2>1, <2>2, <2>3 DEF Applied
<1>3. ASSUME NEW t \in Txs, CommitSequence(t)
      PROVE  Applied'
  <2>1. contents' = Now /\ UNCHANGED walVars /\ Free'
    BY <1>3 DEF CommitSequence, Free, NoCommit
  <2>2. \A o \in Offs : Now.data[o] = WalByte(o)
    BY <1>0, NowIs
  <2>3. \A o \in Offs : WalByte(o)' = WalByte(o)
    BY <2>1 DEF walVars, WalByte
  <2> QED BY <2>1, <2>2, <2>3 DEF Applied
<1>4. CASE Compact
  <2>1. Free /\ contents' = contents /\ committing' = committing
    BY <1>4 DEF Compact
  <2>2. \A o \in Offs : WalByte(o)' = WalByte(o)
    BY <1>0, <1>4, CompactIs
  <2> QED BY <1>0, <2>1, <2>2 DEF Applied, Free
<1> QED BY <1>1, <1>2, <1>3, <1>4 DEF Next, vars, walVars, Begin, WriteAt, Resize,
                                      CommitReadOnly, Rollback, Destroy, Move

\* A transaction keeps its snapshot: as others begin, and their records
\* follow in the list,
LEMMA SnapshotsBegin ==
  ASSUME ReadInv, NEW t \in Txs, NEW ro \in BOOLEAN, Begin(t, ro)
  PROVE  Snapshots'
<1> DEFINE n == Len(records)
<1>0. /\ Shaped(Maps1) /\ Owned /\ Snapshots /\ start \in [Txs -> Files]
      /\ tx \in [Txs -> ObjectsOf(Maps1)]
  BY DEF ReadInv, Held, Shaped
<1>1. /\ DOMAIN records = 1 .. n /\ n \in Nat /\ records \in Seq(RecordsOf(Maps1))
      /\ \A i \in 1 .. n : records[i].id \in Txs
  BY <1>0, RecordTypes
<1>2. /\ records' = Append(records, Record(t)) /\ contents' = contents
      /\ start' = [start EXCEPT ![t] = contents] /\ ~tx[t].made
      /\ \A x \in Txs : x # t => tx'[x] = tx[x]
      /\ tx'[t].record = t
  BY <1>0 DEF Begin, ObjectsOf
<1>3. {} \in Maps1
  BY NoBytes DEF Maps1
<1>4. Record(t) \in RecordsOf(Maps1) /\ Record(t).id = t /\ Record(t).committed = FALSE
  BY <1>3 DEF Record, RecordsOf
<1>5. /\ DOMAIN records' = 1 .. n + 1 /\ Len(records') = n + 1 /\ records'[n + 1] = Record(t)
      /\ \A i \in 1 .. n : records'[i] = records[i]
  BY <1>1, <1>2, <1>4, AppendProperties, LenProperties
<1> HIDE DEF n
<1>6. ASSUME NEW x \in Txs, NEW p \in DOMAIN records', tx'[x].valid,
             records'[p].id = tx'[x].record, NEW o \in Offs
      PROVE  Reads(records', p, o, contents'.data[o], start'[x].data[o])
  <2>1. CASE p = n + 1
    <3>1. tx'[x].record = t
      BY <1>4, <1>5, <1>6, <2>1
    <3>2. x = t
      <4>1. CASE x # t
        <5>1. tx[x].valid /\ tx[x].record = t
          BY <1>2, <1>6, <3>1, <4>1
        <5> QED BY <1>0, <1>2, <5>1 DEF Owned
      <4> QED BY <4>1
    <3>3. start'[x].data[o] = contents'.data[o]
      BY <1>0, <1>2, <3>2
    <3>4. \A i \in p .. Len(records') : ~Has(records'[i], o)
      <4>1. \A i \in p .. Len(records') : i = n + 1
        BY <1>1, <1>5, <2>1
      <4> QED BY <1>4, <1>5, <4>1 DEF Has
    <3> QED BY <3>3, <3>4 DEF Reads
  <2>2. CASE p \in 1 .. n
    <3>1. records[p].id = tx'[x].record /\ records[p].id # t
      <4>1. tx[records[p].id].made
        BY <1>0, <1>1, <2>2 DEF Owned
      <4> QED BY <1>2, <1>5, <1>6, <2>2, <4>1
    <3>2. x # t
      BY <1>2, <3>1
    <3>3. tx'[x] = tx[x] /\ start'[x] = start[x]
      BY <1>0, <1>2, <3>2
    <3>4. Reads(records, p, o, contents.data[o], start[x].data[o])
      BY <1>0, <1>1, <1>6, <2>2, <3>1, <3>3 DEF Snapshots
    <3>5. ~Has(Record(t), o)
      BY <1>4 DEF Has
    <3>6. Reads(Append(records, Record(t)), p, o, contents.data[o], start[x].data[o])
      BY <1>1, <1>4, <2>2, <3>4, <3>5, AppendReads DEF n
    <3> QED BY <1>2, <3>3, <3>6
  <2>3. p \in 1 .. n \/ p = n + 1
    BY <1>1, <1>5
  <2> QED BY <2>1, <2>2, <2>3
<1> QED BY <1>6 DEF Snapshots

\* as they commit, and leave what they replaced behind,
LEMMA SnapshotsCommit ==
  ASSUME ReadInv, NEW t \in Txs, CommitSequence(t)
  PROVE  Snapshots'
<1> DEFINE n == Len(records)
           r == [id |-> tx[t].record, committed |-> TRUE, undo |-> committing.undo]
<1>0. /\ Region1 /\ Shaped(Maps1) /\ Owned /\ Applied /\ Snapshots
      /\ tx \in [Txs -> ObjectsOf(Maps1)] /\ contents \in Files
  BY DEF ReadInv, Held, Shaped
<1>1. /\ DOMAIN records = 1 .. n /\ n \in Nat /\ records \in Seq(RecordsOf(Maps1))
      /\ \A i \in 1 .. n : records[i].id \in Txs
  BY <1>0, RecordTypes
<1>2. /\ committing.tx = t /\ ~Free /\ start' = start /\ contents' = Now
      /\ \A x \in Txs : x # t => tx'[x] = tx[x]
      /\ ~tx'[t].valid
  BY <1>0, BytesAssumption DEF CommitSequence, Free, ObjectsOf
<1>3. tx[t].valid /\ tx[t].record \in Txs \ sealed
  BY <1>0, <1>2 DEF Owned
<1>4. r \in RecordsOf(Maps1) /\ r.id = tx[t].record /\ r.committed
      /\ r.undo = committing.undo
  BY <1>0, <1>3 DEF Shaped, RecordsOf
<1>5. records' = Maintain(Append(Unlink(records, r.id), r))
  BY DEF CommitSequence, Committed
<1> HIDE DEF r, n
<1>6. CommitLeft(RecordsOf(Maps1), records, Maintain(Append(Unlink(records, r.id), r)), r)
  <2>1. Distinct(records)
    BY <1>0 DEF Owned
  <2> QED BY <1>1, <1>4, <2>1, CommitLeaves
<1>7. /\ records' \in Seq(RecordsOf(Maps1)) /\ ReadsOn(records, records', r)
      /\ \A i \in 1 .. Len(records') :
           records'[i] = r \/ \E q \in 1 .. n : records'[i] = records[q] /\ records[q].id # r.id
  BY <1>5, <1>6 DEF CommitLeft, n
<1>8. DOMAIN records' = 1 .. Len(records')
  BY <1>7, LenProperties
<1>9. ASSUME NEW o \in Offs
      PROVE  IF Has(r, o) THEN ByteAt(r.undo, o) = contents.data[o]
             ELSE contents'.data[o] = contents.data[o]
  <2>1. contents'.data[o] = WalByte(o)
    BY <1>0, <1>2, NowIs
  <2>2. contents.data[o] # None
    BY <1>0, BytesAssumption DEF Files
  <2>3. Has(r, o) <=> ByteAt(committing.undo, o) # None
    BY <1>4 DEF Has
  <2> QED BY <1>0, <1>2, <1>4, <2>1, <2>2, <2>3 DEF Applied
<1>10. ASSUME NEW x \in Txs, NEW p \in DOMAIN records', tx'[x].valid,
              records'[p].id = tx'[x].record, NEW o \in Offs
       PROVE  Reads(records', p, o, contents'.data[o], start'[x].data[o])
  <2>1. x # t /\ tx'[x] = tx[x] /\ tx[x].valid
    BY <1>2, <1>10
  <2>2. tx[x].record # r.id /\ tx[x].record \notin sealed
    BY <1>0, <1>3, <1>4, <2>1 DEF Owned
  <2>3. PICK q \in 1 .. n : records'[p] = records[q] /\ records[q].id # r.id
    BY <1>7, <1>8, <1>10, <2>1, <2>2
  <2>4. records[q].id = tx[x].record /\ ~records[q].committed
    <3>1. records[q].id = tx[x].record
      BY <1>10, <2>1, <2>3
    <3> QED BY <1>0, <1>1, <2>2, <3>1 DEF Owned
  <2>5. Reads(records, q, o, contents.data[o], start[x].data[o])
    BY <1>0, <1>1, <2>1, <2>4 DEF Snapshots
  <2>6. \A y \in 1 .. n : records[y].id = r.id => ~records[y].committed
    BY <1>0, <1>1, <1>3, <1>4 DEF Owned
  <2>7. Reads(records', p, o, contents'.data[o], start[x].data[o])
    BY <1>7, <1>8, <1>9, <2>3, <2>4, <2>5, <2>6 DEF ReadsOn, n
  <2> QED BY <1>2, <2>7
<1> QED BY <1>10 DEF Snapshots

\* as they end, whether they committed or not,
LEMMA SnapshotsDestroy ==
  ASSUME ReadInv, NEW t \in Txs, Destroy(t)
  PROVE  Snapshots'
<1> DEFINE n  == Len(records)
           id == tx[t].record
<1>0. /\ Shaped(Maps1) /\ Owned /\ Snapshots /\ tx \in [Txs -> ObjectsOf(Maps1)]
  BY DEF ReadInv, Shaped
<1>1. /\ DOMAIN records = 1 .. n /\ n \in Nat /\ records \in Seq(RecordsOf(Maps1))
  BY <1>0, RecordTypes
<1>2. /\ start' = start /\ contents' = contents
      /\ \A x \in Txs : x # t => tx'[x] = tx[x]
      /\ ~tx'[t].valid
      /\ records' = IF id \in sealed THEN records ELSE Maintain(Unlink(records, id))
  BY <1>0 DEF Destroy, NotMade
<1>3. CASE id \in sealed
  <2>1. records' = records
    BY <1>2, <1>3
  <2>2. \A x \in Txs : tx'[x].valid => tx'[x] = tx[x]
    BY <1>2
  <2> QED BY <1>0, <1>2, <2>1, <2>2 DEF Snapshots
<1>4. CASE id \notin sealed
  <2> HIDE DEF id, n
  <2>1. DestroyLeft(RecordsOf(Maps1), records, Maintain(Unlink(records, id)), id)
    <3>1. Distinct(records)
      BY <1>0 DEF Owned
    <3> QED BY <1>1, <3>1, DestroyLeaves
  <2>2. DestroyLeft(RecordsOf(Maps1), records, records', id)
    BY <1>2, <1>4, <2>1
  <2>3. /\ records' \in Seq(RecordsOf(Maps1))
        /\ \A i \in 1 .. Len(records') : records'[i].id # id
    BY <2>2 DEF DestroyLeft
  <2>4. PICK h : /\ Sublist(records', records, h)
                 /\ \A p, q \in 1 .. n :
                      /\ ~records[p].committed /\ records[p].id # id
                      /\ p <= q /\ records[q].id # id
                      => \E i \in 1 .. Len(records') : h[i] = q
    BY <2>2 DEF DestroyLeft, n
  <2>5. DOMAIN records' = 1 .. Len(records')
    BY <2>3, LenProperties
  <2>6. ASSUME NEW x \in Txs, NEW p \in DOMAIN records', tx'[x].valid,
               records'[p].id = tx'[x].record, NEW o \in Offs
        PROVE  Reads(records', p, o, contents'.data[o], start'[x].data[o])
    <3>1. tx'[x] = tx[x] /\ tx[x].valid
      BY <1>2, <2>6
    <3>2. h[p] \in 1 .. n /\ records'[p] = records[h[p]] /\ p \in 1 .. Len(records')
      BY <2>4, <2>5 DEF Sublist, n
    <3>3. records[h[p]].id = tx[x].record /\ records[h[p]].id # id
      BY <2>3, <2>6, <3>1, <3>2
    <3>4. ~records[h[p]].committed
      <4>1. tx[x].record \notin sealed
        BY <1>0, <3>1 DEF Owned
      <4> QED BY <1>0, <1>1, <3>2, <3>3, <4>1 DEF Owned
    <3>5. Reads(records, h[p], o, contents.data[o], start[x].data[o])
      BY <1>0, <1>1, <3>1, <3>2, <3>3 DEF Snapshots
    <3>6. ASSUME NEW q \in 1 .. n, h[p] <= q, records[q].committed
          PROVE  \E k \in 1 .. Len(records') : h[k] = q
      <4>1. records[q].id # id
        BY <1>0, <1>1, <1>4, <3>6 DEF Owned
      <4> QED BY <2>4, <3>2, <3>3, <3>4, <3>6, <4>1
    <3>7. Reads(records', p, o, contents.data[o], start[x].data[o])
      BY <1>1, <2>3, <2>4, <3>2, <3>5, <3>6, SublistReads DEF n
    <3> QED BY <1>2, <3>7
  <2> QED BY <2>6 DEF Snapshots
<1> QED BY <1>3, <1>4

\* and as it is moved; nothing else changes what it reads.
LEMMA SnapshotsNext ==
  ASSUME ReadInv, [Next]_vars
  PROVE  Snapshots'
<1>0. Shaped(Maps1) /\ Snapshots /\ start \in [Txs -> Files] /\ tx \in [Txs -> ObjectsOf(Maps1)]
  BY DEF ReadInv, Held, Shaped
<1>1. ASSUME NEW t \in Txs, NEW u \in Txs \ {t}, Move(t, u)
      PROVE  Snapshots'
  <2>1. /\ records' = records /\ contents' = contents /\ tx[t].valid /\ ~tx'[t].valid
        /\ tx'[u] = tx[t] /\ start'[u] = start[t]
        /\ \A x \in Txs : x # t /\ x # u => tx'[x] = tx[x]
        /\ \A x \in Txs : x # u => start'[x] = start[x]
    BY <1>0, <1>1 DEF Move, ObjectsOf
  <2> QED BY <1>0, <2>1 DEF Snapshots
<1>2. CASE /\ UNCHANGED <<records, contents, start>>
           /\ \A x \in Txs : tx'[x].record = tx[x].record /\ (tx'[x].valid => tx[x].valid)
  BY <1>0, <1>2 DEF Snapshots
<1>3. ASSUME NEW t \in Txs,
             \/ \E off \in Offs, n \in Lengths : \E data \in [1 .. n -> Bytes] : WriteAt(t, off, data)
             \/ \E n \in Sizes : Resize(t, n)
             \/ CommitReadOnly(t) \/ Rollback(t)
      PROVE  Snapshots'
  <2>1. \A x \in Txs : tx'[x].record = tx[x].record /\ (tx'[x].valid => tx[x].valid)
    BY <1>0, <1>3 DEF WriteAt, Resize, CommitReadOnly, Rollback, ObjectsOf
  <2>2. UNCHANGED <<records, contents, start>>
    BY <1>3 DEF WriteAt, Resize, CommitReadOnly, Rollback
  <2> QED BY <1>2, <2>1, <2>2
<1>4. CASE Compact \/ UNCHANGED vars \/ \E t \in Txs : CommitApply(t)
  <2>1. UNCHANGED <<records, contents, start, tx>>
    BY <1>4 DEF Compact, vars, CommitApply
  <2> QED BY <1>2, <2>1
<1>5. CASE \E t \in Txs, ro \in BOOLEAN : Begin(t, ro)
  BY <1>5, SnapshotsBegin
<1>6. CASE \E t \in Txs : CommitSequence(t) \/ Destroy(t)
  BY <1>6, SnapshotsCommit, SnapshotsDestroy
<1> QED BY <1>1, <1>3, <1>4, <1>5, <1>6 DEF Next

LEMMA ReadInvInit == Init => ReadInv
<1> SUFFICES ASSUME Init PROVE ReadInv
  OBVIOUS
<1>1. /\ base = [o \in Offs |-> Zero] /\ size = IF Resizes = {} THEN MaxSize ELSE 0
      /\ repl = {} /\ records = <<>> /\ tx = [t \in Txs |-> NotMade]
      /\ committing = NoCommit /\ contents = Now /\ start = [t \in Txs |-> Now]
  BY DEF Init
<1>2. Region1
  <2>1. size \in Sizes /\ Zero \in Bytes
    BY <1>1, MaxSizeAssumption, BytesAssumption DEF Sizes
  <2> QED BY <1>1, <2>1, NoBytes DEF Region1
<1>3. Now \in Files /\ \A o \in Offs : Now.data[o] = WalByte(o)
  BY <1>2, NowIs
<1>4. Shaped(Maps1) /\ Owned /\ Fronted
  BY NoBytes, ShapedInit DEF Maps1
<1>5. Sized
  BY <1>1 DEF Sized, SizedOf, Resizing, NotMade
<1>6. Held
  BY <1>1, <1>3 DEF Held
<1>7. Applied
  BY <1>1, <1>3 DEF Applied, Free, NoCommit
<1>8. Snapshots
  BY <1>1 DEF Snapshots, NotMade
<1> QED BY <1>2, <1>4, <1>5, <1>6, <1>7, <1>8 DEF ReadInv

\* Where every write has one byte and no transaction shrinks the file, every
\* read of a transaction whose record is in the list gives the bytes of its
\* snapshot under its own writes: whatever commits, also between its two
\* steps, is rolled back, moved, destroyed or compacted meanwhile.
THEOREM ReadsAreOfTheSnapshot ==
  ASSUME Lengths \subseteq {1}, "shrink" \notin Resizes
  PROVE  Spec => []SnapshotReads
<1>1. OnlyGrows
  BY DEF OnlyGrows
<1>2. ReadInv /\ [Next]_vars => ReadInv'
  BY <1>1, RegionNext, SizedNext, HeldNext, AppliedNext, SnapshotsNext DEF ReadInv
<1>3. ReadInv => SnapshotReads
  <2> SUFFICES ASSUME ReadInv, Free, NEW t \in Txs, Reader(t),
                      NEW off \in Offs, NEW n \in 1 .. MaxSize, off + n <= MaxSize,
                      NEW i \in DOMAIN TxRead(t, off, n)
               PROVE  TxRead(t, off, n)[i] = Expected(t, off + i - 1)
    BY DEF SnapshotReads
  <2> QED BY TxReadIs DEF ReadInv
<1> QED BY <1>2, <1>3, ReadInvInit, PTL DEF Spec
===============================================================================
