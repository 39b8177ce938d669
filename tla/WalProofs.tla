------------------------------ MODULE WalProofs ------------------------------
(***************************************************************************)
(* Theorems about Wal, for every value of its constants: first its types,  *)
(* identifiers and headers, then the log, its replay and crashes.          *)
(***************************************************************************)
EXTENDS Wal, Integers, FiniteSetTheorems, TLAPS

(***************************************************************************)
(* A finite set of integers has a least and a greatest element.            *)
(***************************************************************************)

\* Of the sets of elements below an element, which are ordered by inclusion,
\* a minimal one belongs to the least element.
LEMMA FiniteMin ==
  ASSUME NEW S \in SUBSET Int, IsFiniteSet(S), S # {}
  PROVE \E m \in S : \A n \in S : m <= n
<1>1. IsWellFoundedOn(StrictSubsetOrdering(S), SUBSET S)
  BY FS_StrictSubsetOrderingWellFounded, FS_FiniteSubsetsOfFinite
<1> DEFINE Less(n) == {x \in S : x < n}
<1> DEFINE F == {Less(n) : n \in S}
<1>2. F \subseteq SUBSET S /\ F # {}
  OBVIOUS
<1>3. PICK X \in F : \A Y \in F : <<Y, X>> \notin StrictSubsetOrdering(S)
  <2> HIDE DEF F
  <2> QED BY <1>1, <1>2, WFMin, Zenon
<1>4. PICK m \in S : X = Less(m)
  BY <1>3
<1>5. ASSUME NEW n \in S, n < m PROVE FALSE
  <2>1. Less(n) \in F /\ n \in X /\ n \notin Less(n)
    BY <1>4, <1>5
  <2>2. Less(n) \subseteq X
    <3> SUFFICES ASSUME NEW x \in S, x < n PROVE x < m
      BY <1>4
    <3> QED BY <1>5
  <2>3. <<Less(n), X>> \in StrictSubsetOrdering(S)
    BY <2>1, <2>2, <1>2, <1>3 DEF StrictSubsetOrdering
  <2> QED BY <2>1, <2>3, <1>3
<1> QED BY <1>5

\* The negated set has a least element.
LEMMA FiniteMax ==
  ASSUME NEW S \in SUBSET Int, IsFiniteSet(S), S # {}
  PROVE \E m \in S : \A n \in S : n <= m
<1> DEFINE N == {-n : n \in S}
<1>1. IsFiniteSet(N)
  <2> DEFINE f == [n \in S |-> -n]
  <2>1. f \in Surjection(S, N)
    BY DEF Surjection
  <2> QED BY <2>1, FS_Surjection
<1>2. N \in SUBSET Int /\ N # {}
  <2>1. \A n \in S : -n \in Int
    OBVIOUS
  <2> QED BY <2>1, Zenon
<1>3. PICK k \in N : \A n \in N : k <= n
  <2> HIDE DEF N
  <2> QED BY FiniteMin, <1>1, <1>2
<1>4. PICK m \in S : k = -m
  OBVIOUS
<1>5. ASSUME NEW n \in S PROVE n <= m
  <2>1. k <= -n
    BY <1>3
  <2> QED BY <2>1, <1>4
<1> QED BY <1>5

(***************************************************************************)
(* The operators Wal is built from.                                        *)
(***************************************************************************)

\* A set of numbers up to a bound is finite.
LEMMA BoundedFinite ==
  ASSUME NEW n \in Nat, NEW S \in SUBSET (0 .. n)
  PROVE  IsFiniteSet(S) /\ S \in SUBSET Int
<1>1. IsFiniteSet(0 .. n)
  BY FS_Interval
<1>2. IsFiniteSet(S)
  BY <1>1, FS_Subset
<1> QED BY <1>2

\* EndPos is the first end marker of a log that has one.
LEMMA EndPosFirst ==
  ASSUME NEW l, HasEnd(l)
  PROVE  /\ EndPos(l) \in Cells
         /\ l[EndPos(l)].kind = "end"
         /\ \A q \in 1 .. EndPos(l) - 1 : l[q].kind # "end"
<1> DEFINE S == {p \in Cells : l[p].kind = "end"}
<1>1. Cap \in Nat /\ S \in SUBSET (0 .. Cap) /\ S # {}
  BY CapAssumption DEF HasEnd, Cells
<1>2. PICK m \in S : \A n \in S : m <= n
  BY <1>1, BoundedFinite, FiniteMin
<1>3. /\ m \in Cells /\ l[m].kind = "end"
      /\ \A q \in 1 .. m - 1 : l[q].kind # "end"
  BY <1>1, <1>2 DEF Cells
<1> QED BY <1>3 DEF EndPos

\* CommitOf is the first commit record of its transaction after a record.
LEMMA CommitOfFirst ==
  ASSUME NEW l, HasEnd(l), NEW p, CommitsAfter(l, p) # {}
  PROVE  CommitOf(l, p) \in CommitsAfter(l, p)
<1>1. Cap \in Nat /\ CommitsAfter(l, p) \in SUBSET (0 .. Cap)
  BY CapAssumption, EndPosFirst DEF CommitsAfter, Body, Cells
<1>2. PICK m \in CommitsAfter(l, p) : \A n \in CommitsAfter(l, p) : m <= n
  BY <1>1, BoundedFinite, FiniteMin
<1> QED BY <1>2 DEF CommitOf

\* LastApplied is one of the records it is asked about, or None: there is a
\* greatest commit position, and a greatest record among those that share it.
LEMMA LastAppliedMember ==
  ASSUME NEW l, HasEnd(l), NEW S \in SUBSET Body(l)
  PROVE  LastApplied(l, S) \in S \union {None}
<1> DEFINE A == {p \in S : CommitsAfter(l, p) # {}}
<1> DEFINE C == {CommitOf(l, p) : p \in A}
<1> DEFINE Best(p) == \A q \in A : AppliedAfter(l, p, q)
<1> SUFFICES ASSUME A # {} PROVE \E p \in A : Best(p)
  BY DEF LastApplied
<1>1. Cap \in Nat /\ Body(l) \in SUBSET (0 .. Cap)
  BY CapAssumption, EndPosFirst DEF Body, Cells
<1>2. C \in SUBSET (0 .. Cap) /\ C # {}
  BY <1>1, CommitOfFirst DEF CommitsAfter
<1>3. PICK c \in C : \A d \in C : d <= c
  <2> HIDE DEF C
  <2> QED BY <1>1, <1>2, BoundedFinite, FiniteMax
<1> DEFINE L == {p \in A : CommitOf(l, p) = c}
<1>4. L \in SUBSET (0 .. Cap) /\ L # {}
  BY <1>1, <1>3
<1>5. PICK p \in L : \A q \in L : q <= p
  <2> HIDE DEF L
  <2> QED BY <1>1, <1>4, BoundedFinite, FiniteMax
<1>6. ASSUME NEW q \in A PROVE AppliedAfter(l, p, q)
  <2>1. CommitOf(l, q) \in C /\ CommitOf(l, q) \in Int /\ c \in Int
    BY <1>2
  <2>2. CommitOf(l, q) < c \/ CommitOf(l, q) = c
    BY <1>3, <2>1
  <2> QED BY <2>2, <1>5 DEF AppliedAfter
<1> QED BY <1>5, <1>6

\* The bytes in a map of pending writes end within the largest file.
LEMMA PastEndType ==
  ASSUME NEW w
  PROVE  PastEnd(w) \in Sizes
<1> DEFINE IsPast(n) == /\ \A o \in Offs : w[o] # None => o < n
                        /\ n = 0 \/ w[n - 1] # None
<1> SUFFICES \E n \in Sizes : IsPast(n)
  BY DEF PastEnd
<1> DEFINE S == {o \in Offs : w[o] # None}
<1>1. MaxSize \in Nat \ {0} /\ S \in SUBSET (0 .. MaxSize)
  BY MaxSizeAssumption DEF Offs
<1>2. CASE S = {}
  <2>1. 0 \in Sizes /\ IsPast(0)
    BY <1>1, <1>2 DEF Sizes
  <2> QED BY <2>1
<1>3. CASE S # {}
  <2>1. PICK m \in S : \A n \in S : n <= m
    <3> HIDE DEF S
    <3> QED BY <1>1, <1>3, BoundedFinite, FiniteMax
  <2>2. m + 1 \in Sizes /\ IsPast(m + 1)
    <3>1. m \in 0 .. MaxSize - 1 /\ w[m] # None /\ (m + 1) - 1 = m
      BY <1>1 DEF Offs
    <3>2. \A o \in Offs : w[o] # None => o < m + 1
      BY <1>1, <2>1, <3>1 DEF Offs
    <3> QED BY <1>1, <3>1, <3>2 DEF Sizes
  <2> QED BY <2>2
<1> QED BY <1>2, <1>3

\* The ids in progress are below the length that compact_ trims to.
LEMMA TrimmedLenBounds ==
  ASSUME active \subseteq Ids
  PROVE  /\ TrimmedLen \in 0 .. MaxId + 1
         /\ \A i \in active : i < TrimmedLen
<1>1. MaxId \in Nat /\ active \in SUBSET (0 .. MaxId)
  BY MaxIdAssumption DEF Ids
<1>2. CASE active = {}
  BY <1>1, <1>2 DEF TrimmedLen
<1>3. CASE active # {}
  <2>1. PICK m \in active : \A n \in active : n <= m
    BY <1>1, <1>3, BoundedFinite, FiniteMax
  <2> DEFINE top == CHOOSE i \in active : \A j \in active : j <= i
  <2>2. top \in active /\ \A j \in active : j <= top
    BY <2>1
  <2>3. TrimmedLen = 1 + top
    BY <1>3 DEF TrimmedLen
  <2> HIDE DEF top
  <2> QED BY <1>1, <2>2, <2>3
<1> QED BY <1>2, <1>3

\* allocate_tx_id takes one of the ids that are available.
LEMMA LeastAvailable ==
  ASSUME NEW A, A \subseteq Ids, A # {}
  PROVE  (CHOOSE i \in A : \A j \in A : i <= j) \in A
<1>1. MaxId \in Nat /\ A \in SUBSET (0 .. MaxId)
  BY MaxIdAssumption DEF Ids
<1>2. PICK m \in A : \A n \in A : m <= n
  BY <1>1, BoundedFinite, FiniteMin
<1> QED BY <1>2

\* The slot that compact_ writes is a log with an end marker.
LEMMA CopiedIsLog ==
  ASSUME NEW l \in [Cells -> Records], HasEnd(l),
         NEW K \in SUBSET Body(l),
         NEW old \in [Cells -> Records]
  PROVE  /\ Copied(l, K, old) \in [Cells -> Records]
         /\ HasEnd(Copied(l, K, old))
<1> DEFINE n == EndPos(l)
<1> DEFINE Rank(k) == Cardinality({j \in K : j <= k})
<1>1. n \in Cells /\ Cap \in Nat /\ Body(l) = 1 .. n - 1
  BY EndPosFirst, CapAssumption DEF Body
<1>2. IsFiniteSet(1 .. n - 1) /\ Cardinality(1 .. n - 1) = n - 1
  <2> HIDE DEF n
  <2>1. n \in Int /\ 1 \in Int /\ n - 1 \in Int /\ 1 <= n
    BY <1>1 DEF Cells
  <2> QED BY <2>1, FS_Interval
<1>3. IsFiniteSet(K) /\ Cardinality(K) \in Nat /\ Cardinality(K) <= n - 1
  <2>1. K \in SUBSET (1 .. n - 1)
    BY <1>1
  <2> HIDE DEF n
  <2> QED BY <1>2, <2>1, FS_Subset, FS_CardinalityType
<1>4. \A k \in K : Rank(k) \in Nat /\ Rank(k) <= Cardinality(K)
  <2> TAKE k \in K
  <2>1. {j \in K : j <= k} \in SUBSET K
    OBVIOUS
  <2> QED BY <1>3, <2>1, FS_Subset, FS_CardinalityType
<1> DEFINE e == Cardinality(K) + 1
<1>5. e \in Cells /\ \A k \in K : Rank(k) # e
  BY <1>1, <1>3, <1>4 DEF Cells
<1>6. \A k \in K : k \in Cells /\ l[k] \in Records
  BY <1>1 DEF Cells
<1>7. End \in Records
  BY MaxIdAssumption, MaxSizeAssumption DEF End, Record, Records, Ids, Sizes, Bytes
<1> DEFINE From(p) == {k \in K : Rank(k) = p}
<1> DEFINE C == Copied(l, K, old)
<1>8. C = [p \in Cells |-> IF From(p) # {} THEN l[CHOOSE k \in From(p) : TRUE]
                            ELSE IF p = e THEN End ELSE old[p]]
  BY DEF Copied
<1>9. \A p \in Cells : From(p) # {} => (CHOOSE k \in From(p) : TRUE) \in K
  OBVIOUS
<1>10. From(e) = {}
  BY <1>5
<1>11. C[e] = End
  <2> HIDE DEF C, From, e
  <2> QED BY <1>5, <1>8, <1>10
<1>12. C \in [Cells -> Records]
  <2> HIDE DEF C, From, e
  <2> QED BY <1>6, <1>7, <1>8, <1>9
<1>13. HasEnd(C)
  <2> HIDE DEF C, e
  <2> QED BY <1>5, <1>11 DEF HasEnd, End, Record
<1> QED BY <1>12, <1>13

-------------------------------------------------------------------------------
(***************************************************************************)
(* Type correctness.  TypeOK is not inductive: slot_off_ stays in the slot *)
(* because a call advances it only where it has made room for an end       *)
(* marker after it, and compact_ can place the next record because the log *)
(* it reads, and the one it leaves, have an end marker.                    *)
(***************************************************************************)
CompactPCs == {"copy", "write", "apply", "header", "ids", "install"}
ReopenPCs  == {"write", "flush", "seq", "size", "end", "done"}

\* Where each kind of call can be, and what it is about.
CallShape ==
  /\ op.kind = "idle" => op.pc = "idle"
  /\ op.kind = "down" => op.pc = "down"
  /\ op.kind = "reopen" => op.pc \in ReopenPCs
  /\ op.kind \in {"compact", "begin"} => op.pc \in CompactPCs
  /\ op.kind = "append" => op.pc \in CompactPCs \union {"body", "flush", "marker"}
  /\ op.kind = "commit" => op.pc \in CompactPCs \union {"body", "flush", "marker", "sync"}
  /\ op.kind \in {"append", "commit"} => op.tx \in Txs
  /\ op.kind = "append" =>
       \/ op.rec.kind = "write" /\ op.rec.arg \in Offs /\ op.rec.val \in Vals
       \/ op.rec.kind = "resize"

\* A call is appending, or compact_ has written the other slot.
Appending == op.kind \in {"append", "commit"} /\ op.pc \in {"body", "flush", "marker", "sync"}
SlotMade  == op.kind \in Compacting /\ op.pc \in CompactPCs \ {"copy"}

SlotsEnd ==
  /\ Up \/ (op.kind = "reopen" /\ op.pc = "done") => HasEnd(log[curSlot])
  /\ Appending => slotOff + 1 \in Cells
  /\ Appending /\ op.pc # "body" => log[curSlot][slotOff + 1].kind = "end"
  /\ SlotMade => HasEnd(log[Other(curSlot)])

TypeInv == TypeOK /\ CallShape /\ SlotsEnd

\* What the numbers of Wal are.
LEMMA Constants ==
  /\ MaxSize \in Nat \ {0} /\ MaxId \in Nat /\ Cap \in Nat \ {0, 1} /\ SeqHalf \in Nat \ {0, 1}
  /\ None \notin Txs /\ None \notin Vals /\ None # Zero /\ None \notin Nat
  /\ 0 \in Sizes /\ MaxSize \in Sizes /\ Offs \subseteq Sizes /\ None \notin Sizes
  /\ 0 \in Ids /\ None \notin Ids /\ 0 \in Slots /\ 1 \in Cells /\ 2 \in Cells
  /\ \A n \in Seqs : Succ(n) \in Seqs
  /\ \A s \in Slots : Other(s) \in Slots /\ Other(s) # s /\ Other(Other(s)) = s
BY MaxSizeAssumption, MaxIdAssumption, CapAssumption, SeqHalfAssumption, TxsAssumption, NoneAssumption
   DEF Sizes, Offs, Ids, Slots, Cells, Seqs, Succ, SeqMod, Other

\* Every record that is made is a log record.
LEMMA RecordTypes ==
  /\ End \in Records /\ End.kind = "end"
  /\ \A i \in Ids : CommitRec(i) \in Records
  /\ \A i \in Ids, o \in Offs, v \in Vals :
       WriteRec(i, o, v) \in Records /\ WriteRec(i, o, v).kind = "write"
       /\ WriteRec(i, o, v).arg = o /\ WriteRec(i, o, v).val = v
  /\ \A i \in Ids, n \in Sizes :
       ResizeRec(i, n) \in Records /\ ResizeRec(i, n).kind = "resize"
BY Constants DEF End, CommitRec, WriteRec, ResizeRec, Record, Records, Bytes

LEMMA TypeInvInit == Init => TypeInv
<1> SUFFICES ASSUME Init PROVE TypeInv
  OBVIOUS
<1> USE Constants, RecordTypes
<1>1. op = Idle /\ op.kind = "idle" /\ op.pc = "idle"
  BY DEF Init, NewFile, NoIds, Idle, Call
<1>2. CallShape
  BY <1>1 DEF CallShape
<1>3. log \in [Slots -> [Cells -> Records]]
  BY DEF Init, NewFile, NoIds, NewSegment
<1>4. SlotsEnd
  BY <1>1, <1>3 DEF SlotsEnd, Appending, SlotMade, Compacting, HasEnd, Init, NewFile, NoIds, NewSegment
<1>5. hdr \in [Slots -> Headers]
  BY DEF Init, NewFile, NoIds, Headers, Seqs, SeqMod
<1>6. op \in Calls
  BY <1>1 DEF Idle, Call, Calls, PCs
<1>7. TypeOK
  BY <1>3, <1>5, <1>6 DEF TypeOK, Init, NewFile, NoIds, Bytes, Seqs, SeqMod, NoWrites, NoUpdate, Updates
<1> QED BY <1>2, <1>4, <1>7 DEF TypeInv

\* A call that takes log_mtx_ starts to append if there is room, or to compact.
LEMMA TypeInvEnter ==
  ASSUME TypeInv, op.kind = "idle",
         NEW kind \in {"append", "commit", "compact", "begin"},
         NEW u \in Txs \union {None}, kind \in {"append", "commit"} => u \in Txs,
         NEW rec \in Records,
         kind = "append" => \/ rec.kind = "write" /\ rec.arg \in Offs /\ rec.val \in Vals
                            \/ rec.kind = "resize",
         \/ op' = Call(kind, u, rec, "copy")
         \/ op' = Call(kind, u, rec, "body") /\ kind \in {"append", "commit"} /\ HasRoom(slotOff),
         UNCHANGED <<diskVars, durVars, posVars, fileVars, allocVars, txVars>>
  PROVE  TypeInv'
<1> USE Constants
<1> TypeOK /\ CallShape /\ SlotsEnd
  BY DEF TypeInv
<1>1. TypeOK'
  BY DEF TypeOK, Calls, Call, PCs, diskVars, durVars, posVars, fileVars, allocVars, txVars
<1>2. CallShape'
  BY DEF CallShape, Call, CompactPCs
<1>3. SlotsEnd'
  BY DEF SlotsEnd, Appending, SlotMade, Up, HasRoom, Call, CompactPCs, Cells, TypeOK,
         diskVars, posVars
<1> QED BY <1>1, <1>2, <1>3 DEF TypeInv

\* The steps of a client.
LEMMA TypeInvCompact ==
  ASSUME TypeInv, Compact
  PROVE  TypeInv'
BY TypeInvEnter, RecordTypes DEF Compact

LEMMA TypeInvClient ==
  ASSUME TypeInv, NEW t \in Txs
  PROVE  /\ Begin(t) => TypeInv'
         /\ BeginCompacts(t) => TypeInv'
         /\ Rollback(t) => TypeInv'
         /\ \A o \in Offs, v \in Vals : Write(t, o, v) => TypeInv'
         /\ \A n \in Sizes : Resize(t, n) => TypeInv'
         /\ Commit(t) => TypeInv'
<1> USE Constants, RecordTypes
<1> TypeOK /\ CallShape /\ SlotsEnd
  BY DEF TypeInv
<1>1. ASSUME Begin(t) PROVE TypeInv'
  <2> DEFINE id == NextId
  <2>1. id \in Ids /\ (avail = {} => idLen + 1 \in 0 .. MaxId + 1)
    <3>1. CASE avail = {}
      BY <1>1, <3>1 DEF Begin, NextId, OutOfIds, Ids, TypeOK
    <3>2. CASE avail # {}
      BY <3>2, LeastAvailable DEF NextId, TypeOK
    <3> QED BY <3>1, <3>2
  <2>2. /\ fresh' = fresh \ {t} /\ txId' = [txId EXCEPT ![t] = id]
        /\ active' = active \union {id} /\ avail' = avail \ {id}
        /\ idLen' = IF avail = {} THEN idLen + 1 ELSE idLen
        /\ UNCHANGED <<diskVars, durVars, posVars, fileVars, completed, txUpd, op>>
    BY <1>1 DEF Begin
  <2> HIDE DEF id
  <2>3. TypeOK'
    BY <2>1, <2>2 DEF TypeOK, diskVars, durVars, posVars, fileVars
  <2>4. CallShape' /\ SlotsEnd'
    BY <2>2 DEF CallShape, SlotsEnd, Appending, SlotMade, Up, diskVars, posVars
  <2> QED BY <2>3, <2>4 DEF TypeInv
<1>2. ASSUME Rollback(t) PROVE TypeInv'
  <2>1. TypeOK'
    BY <1>2 DEF Rollback, Finish, Forget, TypeOK, NoUpdate, NoWrites, Updates,
                diskVars, durVars, posVars, fileVars
  <2>2. CallShape' /\ SlotsEnd'
    BY <1>2 DEF Rollback, CallShape, SlotsEnd, Appending, SlotMade, Up, diskVars, posVars
  <2> QED BY <2>1, <2>2 DEF TypeInv
<1>3. ASSUME BeginCompacts(t) PROVE TypeInv'
  BY <1>3, TypeInvEnter DEF BeginCompacts
<1>4. ASSUME NEW kind \in {"append", "commit"}, NEW rec \in Records, Enter(kind, t, rec),
             kind = "append" => \/ rec.kind = "write" /\ rec.arg \in Offs /\ rec.val \in Vals
                                \/ rec.kind = "resize"
      PROVE  TypeInv'
  BY <1>4, TypeInvEnter DEF Enter
<1>5. ASSUME NEW o \in Offs, NEW v \in Vals, Write(t, o, v) PROVE TypeInv'
  <2>1. txId[t] \in Ids
    BY <1>5 DEF Write, Enter, TypeOK
  <2> QED BY <1>4, <1>5, <2>1 DEF Write
<1>6. ASSUME NEW n \in Sizes, Resize(t, n) PROVE TypeInv'
  <2>1. txId[t] \in Ids
    BY <1>6 DEF Resize, Enter, TypeOK
  <2> QED BY <1>4, <1>6, <2>1 DEF Resize
<1>7. ASSUME Commit(t) PROVE TypeInv'
  <2>1. txId[t] \in Ids
    BY <1>7 DEF Commit, Enter, TypeOK
  <2> QED BY <1>4, <1>7, <2>1 DEF Commit
<1> QED BY <1>1, <1>2, <1>3, <1>5, <1>6, <1>7

\* What a transaction has done stays a map of writes and a size.
LEMMA PerformedType ==
  ASSUME NEW u \in Updates, NEW rec \in Records,
         \/ rec.kind = "write" /\ rec.arg \in Offs /\ rec.val \in Vals
         \/ rec.kind = "resize"
  PROVE  Performed(u, rec) \in Updates
BY DEF Performed, Updates, Records

\* Writes laid over a map, or over the file, and a map cut at a size.
LEMMA OverlayType ==
  ASSUME NEW B, NEW w \in [Offs -> B], NEW u \in [Offs -> B \union {None}]
  PROVE  Overlay(w, u) \in [Offs -> B]
BY DEF Overlay

LEMMA TruncatedType ==
  ASSUME NEW B, NEW w \in [Offs -> B \union {None}], NEW n
  PROVE  Truncated(w, n) \in [Offs -> B \union {None}]
BY DEF Truncated

\* The steps of an append and of a commit.
LEMMA TypeInvAppend ==
  ASSUME TypeInv, Append
  PROVE  TypeInv'
<1> USE Constants, RecordTypes
<1> TypeOK /\ CallShape /\ SlotsEnd
  BY DEF TypeInv
<1>1. CASE WriteBody
  <2>1. Appending /\ Up /\ slotOff + 1 \in Cells /\ op.kind \in Compacting
    BY <1>1 DEF WriteBody, At, Appending, Up, SlotsEnd, Compacting
  <2>2. TypeOK'
    BY <1>1, <2>1 DEF WriteBody, TypeOK, Goto, At, Calls, PCs, durVars, posVars, fileVars, allocVars, txVars
  <2>3. CallShape'
    BY <1>1 DEF WriteBody, CallShape, Goto, At, CompactPCs, TypeOK, Calls
  <2>4. SlotsEnd'
    BY <1>1, <2>1, <2>2 DEF WriteBody, SlotsEnd, Appending, SlotMade, Up, Goto, At, CompactPCs, TypeOK,
                       Calls, HasEnd, Compacting, posVars
  <2> QED BY <2>2, <2>3, <2>4 DEF TypeInv
<1>2. CASE FlushBody
  <2>1. TypeOK'
    BY <1>2 DEF FlushBody, Flush, TypeOK, Goto, At, Calls, PCs, diskVars, posVars, fileVars, allocVars, txVars
  <2>2. CallShape'
    BY <1>2 DEF FlushBody, CallShape, Goto, At, CompactPCs, TypeOK, Calls
  <2>3. SlotsEnd'
    BY <1>2 DEF FlushBody, SlotsEnd, Appending, SlotMade, Up, Goto, At, CompactPCs, TypeOK,
                Calls, diskVars, posVars
  <2> QED BY <2>1, <2>2, <2>3 DEF TypeInv
<1>3. CASE AppendMarker
  <2>1. /\ op.kind = "append" /\ op.pc = "marker" /\ op.tx \in Txs
        /\ slotOff + 1 \in Cells /\ log[curSlot][slotOff + 1].kind = "end"
        /\ Performed(txUpd[op.tx], op.rec) \in Updates
    BY <1>3, PerformedType DEF AppendMarker, At, CallShape, SlotsEnd, Appending, TypeOK, Calls
  <2>2. TypeOK'
    BY <1>3, <2>1 DEF AppendMarker, TypeOK, Idle, Call, Calls, PCs, durVars, fileVars, allocVars
  <2>3. CallShape'
    BY <1>3 DEF AppendMarker, CallShape, Idle, Call
  <2>4. HasEnd(log'[curSlot])
    BY <1>3, <2>1 DEF AppendMarker, HasEnd, TypeOK, Cells
  <2>5. SlotsEnd'
    BY <1>3, <2>4 DEF AppendMarker, SlotsEnd, Appending, SlotMade, Compacting, Idle, Call
  <2> QED BY <2>2, <2>3, <2>5 DEF TypeInv
<1>4. CASE CommitMarker
  <2>1. /\ op.kind = "commit" /\ op.pc = "marker"
        /\ slotOff + 1 \in Cells /\ log[curSlot][slotOff + 1].kind = "end"
    BY <1>4 DEF CommitMarker, At, SlotsEnd, Appending
  <2>2. TypeOK'
    BY <1>4, <2>1 DEF CommitMarker, TypeOK, Goto, Calls, PCs, durVars, posVars, fileVars, allocVars, txVars
  <2>3. CallShape'
    BY <1>4, <2>1 DEF CommitMarker, CallShape, Goto, TypeOK, Calls
  <2>4. log'[curSlot][slotOff + 1].kind = "end" /\ HasEnd(log'[curSlot])
    BY <1>4, <2>1 DEF CommitMarker, HasEnd, TypeOK, Cells
  <2>5. op'.kind = "commit" /\ op'.pc = "sync" /\ curSlot' = curSlot /\ slotOff' = slotOff
    BY <1>4, <2>1 DEF CommitMarker, Goto, TypeOK, Calls, posVars
  <2>6. SlotsEnd'
    BY <2>1, <2>4, <2>5 DEF SlotsEnd, Appending, SlotMade, CompactPCs
  <2> QED BY <2>2, <2>3, <2>6 DEF TypeInv
<1>5. CASE CommitDone
  <2>1. /\ op.kind = "commit" /\ op.pc = "sync" /\ op.tx \in Txs /\ Up
        /\ slotOff + 1 \in Cells /\ HasEnd(log[curSlot])
    BY <1>5 DEF CommitDone, At, CallShape, SlotsEnd, Appending, Up
  <2>2. repl' \in [Offs -> Bytes \union {None}] /\ size' \in Sizes
    <3>1. txUpd[op.tx] \in Updates
      BY <2>1 DEF TypeOK
    <3> DEFINE u == txUpd[op.tx]
    <3>2. /\ u.writes \in [Offs -> Bytes \union {None}] /\ u.size \in Sizes \union {None}
          /\ repl \in [Offs -> Bytes \union {None}] /\ size \in Sizes
      BY <3>1 DEF Updates, TypeOK, Bytes
    <3>3. Overlay(repl, u.writes) \in [Offs -> Bytes \union {None}]
      BY <3>2 DEF Overlay
    <3>4. u.size # None =>
            Truncated(Overlay(repl, u.writes), u.size) \in [Offs -> Bytes \union {None}]
      BY <3>3, TruncatedType
    <3>5. IF u.size = None
          THEN repl' = Overlay(repl, u.writes) /\ size' = size
          ELSE repl' = Truncated(Overlay(repl, u.writes), u.size) /\ size' = u.size
      BY <1>5 DEF CommitDone
    <3> QED BY <3>2, <3>3, <3>4, <3>5
  <2>3. TypeOK'
    BY <1>5, <2>1, <2>2 DEF CommitDone, Flush, Finish, Forget, TypeOK, Idle, Call, Calls, PCs, NoUpdate, NoWrites,
                            Updates, diskVars
  <2>4. CallShape'
    BY <1>5 DEF CommitDone, CallShape, Idle, Call
  <2>5. SlotsEnd'
    BY <1>5, <2>1 DEF CommitDone, SlotsEnd, Appending, SlotMade, Compacting, Idle, Call, diskVars
  <2> QED BY <2>3, <2>4, <2>5 DEF TypeInv
<1> QED BY <1>1, <1>2, <1>3, <1>4, <1>5 DEF Append

\* The steps of a compaction.
LEMMA TypeInvCompaction ==
  ASSUME TypeInv, Compaction
  PROVE  TypeInv'
<1> USE Constants, RecordTypes
<1> TypeOK /\ CallShape /\ SlotsEnd
  BY DEF TypeInv
<1>1. op.kind \in Compacting /\ op.pc \in CompactPCs /\ Up /\ ~Appending /\ HasEnd(log[curSlot])
  BY DEF Compaction, CompactCopy, CompactWrite, CompactApply, CompactHeader, CompactIds,
         CompactInstall, At, Compacting, CompactPCs, Up, SlotsEnd, Appending, CallShape
<1>2. ASSUME NEW pc \in CompactPCs, Goto(pc)
      PROVE  op' \in Calls /\ CallShape' /\ ~Appending' /\ Up' /\ op'.pc = pc
  <2>1. op' \in Calls /\ op'.kind = op.kind /\ op'.pc = pc /\ op'.tx = op.tx /\ op'.rec = op.rec
    BY <1>2 DEF Goto, TypeOK, Calls, PCs, CompactPCs
  <2> QED BY <1>1, <2>1 DEF CallShape, CompactPCs, Compacting, Appending, Up
<1>3. CASE CompactCopy
  <2>1. Kept(log[curSlot]) \in SUBSET Body(log[curSlot])
    BY DEF Kept
  <2>2. /\ Copied(log[curSlot], Kept(log[curSlot]), log[Other(curSlot)]) \in [Cells -> Records]
        /\ HasEnd(Copied(log[curSlot], Kept(log[curSlot]), log[Other(curSlot)]))
    <3>1. log[curSlot] \in [Cells -> Records] /\ log[Other(curSlot)] \in [Cells -> Records]
      BY DEF TypeOK
    <3> QED BY <1>1, <2>1, <3>1, CopiedIsLog
  <2>3. /\ log' \in [Slots -> [Cells -> Records]]
        /\ log'[curSlot] = log[curSlot] /\ HasEnd(log'[Other(curSlot)])
    BY <1>3, <2>2 DEF CompactCopy, TypeOK
  <2>4. Goto("write") /\ "write" \in CompactPCs
    BY <1>3 DEF CompactCopy, CompactPCs
  <2>5. TypeOK'
    BY <1>2, <1>3, <2>3, <2>4 DEF CompactCopy, TypeOK, durVars, posVars, fileVars, allocVars, txVars
  <2>6. SlotsEnd'
    BY <1>1, <1>2, <1>3, <2>3, <2>4 DEF CompactCopy, SlotsEnd, posVars
  <2> QED BY <1>2, <2>4, <2>5, <2>6 DEF TypeInv
<1>4. ASSUME ~CompactCopy, UNCHANGED <<log, curSlot, slotOff>>,
             NEW pc \in CompactPCs, Goto(pc), TypeOK'
      PROVE  TypeInv'
  <2>1. HasEnd(log[Other(curSlot)])
    <3>1. op.pc # "copy"
      BY <1>4, <1>1 DEF Compaction, CompactWrite, CompactApply, CompactHeader,
                        CompactIds, CompactInstall, At
    <3> QED BY <1>1, <3>1 DEF SlotsEnd, SlotMade
  <2>2. SlotsEnd'
    BY <1>1, <1>2, <1>4, <2>1 DEF SlotsEnd
  <2> QED BY <1>2, <1>4, <2>2 DEF TypeInv
<1>5. CASE CompactWrite
  <2>1. data' \in [Offs -> Bytes]
    BY <1>5, OverlayType DEF CompactWrite, TypeOK
  <2>2. psize' \in Sizes
    BY <1>5, PastEndType DEF CompactWrite, TypeOK
  <2>3. Goto("apply") /\ "apply" \in CompactPCs /\ ~CompactCopy
    BY <1>5 DEF CompactWrite, CompactCopy, At, CompactPCs
  <2>4. TypeOK'
    BY <1>2, <1>5, <2>1, <2>2, <2>3 DEF CompactWrite, TypeOK, durVars, posVars, fileVars, allocVars, txVars
  <2> QED BY <1>4, <1>5, <2>3, <2>4 DEF CompactWrite, posVars
<1>6. CASE CompactApply
  <2>1. Goto("header") /\ "header" \in CompactPCs /\ ~CompactCopy
    BY <1>6 DEF CompactApply, CompactCopy, At, CompactPCs
  <2>2. TypeOK'
    BY <1>2, <1>6, <2>1 DEF CompactApply, Flush, NoWrites, TypeOK, diskVars, posVars, allocVars, txVars
  <2> QED BY <1>4, <1>6, <2>1, <2>2 DEF CompactApply, diskVars, posVars
<1>7. CASE CompactHeader
  <2>1. Goto("ids") /\ "ids" \in CompactPCs /\ ~CompactCopy
    BY <1>7 DEF CompactHeader, CompactCopy, At, CompactPCs
  <2>2. NewHeader \in Headers
    BY DEF NewHeader, Headers, TypeOK
  <2>3. TypeOK'
    BY <1>2, <1>7, <2>1, <2>2 DEF CompactHeader, TypeOK, durVars, posVars, fileVars, allocVars, txVars
  <2> QED BY <1>4, <1>7, <2>1, <2>3 DEF CompactHeader, posVars
<1>8. CASE CompactIds
  <2>1. Goto("install") /\ "install" \in CompactPCs /\ ~CompactCopy
    BY <1>8 DEF CompactIds, CompactCopy, At, CompactPCs
  <2>2. TrimmedLen \in 0 .. MaxId + 1
    BY TrimmedLenBounds DEF TypeOK
  <2>3. (0 .. TrimmedLen - 1) \ active \subseteq Ids
    BY <2>2 DEF Ids
  <2>4. TypeOK'
    BY <1>2, <1>8, <2>1, <2>2, <2>3 DEF CompactIds, TypeOK, diskVars, durVars, posVars, fileVars, txVars
  <2> QED BY <1>4, <1>8, <2>1, <2>4 DEF CompactIds, diskVars, posVars
<1>9. CASE CompactInstall
  <2>1. HasEnd(log[Other(curSlot)]) /\ EndPos(log[Other(curSlot)]) \in Cells
    <3>1. SlotMade
      BY <1>1, <1>9 DEF SlotMade, CompactInstall, At
    <3> QED BY <3>1, EndPosFirst DEF SlotsEnd
  <2>2. op' = Idle \/ (Goto("body") /\ op.kind \in {"append", "commit"} /\ HasRoom(slotOff'))
    BY <1>9 DEF CompactInstall
  <2>3. /\ op' \in Calls
        /\ \/ op' = Idle
           \/ /\ op'.kind = op.kind /\ op'.pc = "body" /\ op'.tx = op.tx /\ op'.rec = op.rec
              /\ op.kind \in {"append", "commit"} /\ HasRoom(slotOff')
    BY <2>2 DEF Goto, Idle, Call, TypeOK, Calls, PCs
  <2>4. CallShape'
    BY <2>3 DEF CallShape, Idle, Call
  <2>5. TypeOK'
    BY <1>9, <2>1, <2>3 DEF CompactInstall, TypeOK, diskVars, durVars, fileVars, txVars
  <2>6. SlotsEnd'
    <3>1. HasEnd(log'[curSlot'])
      BY <1>9, <2>1 DEF CompactInstall, diskVars
    <3>2. ~SlotMade' /\ (Appending' => op'.pc = "body" /\ HasRoom(slotOff'))
      BY <2>3 DEF SlotMade, Appending, CompactPCs, Idle, Call
    <3>3. HasRoom(slotOff') => slotOff' + 1 \in Cells
      BY <1>9, <2>1 DEF CompactInstall, HasRoom, Cells
    <3> QED BY <3>1, <3>2, <3>3 DEF SlotsEnd
  <2> QED BY <2>4, <2>5, <2>6 DEF TypeInv
<1> QED BY <1>3, <1>5, <1>6, <1>7, <1>8, <1>9 DEF Compaction

\* A crash leaves a file of headers, records and bytes, and no program.
LEMMA TypeInvCrash ==
  ASSUME TypeInv, ProcessCrash \/ SystemCrash
  PROVE  TypeInv'
<1> USE Constants, RecordTypes
<1> TypeOK /\ CallShape /\ SlotsEnd
  BY DEF TypeInv
<1>1. LoseProgram
  BY DEF ProcessCrash, SystemCrash
<1>2. op' = Down /\ op'.kind = "down" /\ op'.pc = "down" /\ Down \in Calls
  BY <1>1 DEF LoseProgram, Down, Call, Calls, PCs
<1>3. CallShape' /\ SlotsEnd'
  BY <1>2 DEF CallShape, SlotsEnd, Appending, SlotMade, Compacting, Up
<1>4. /\ hdr' \in [Slots -> Headers] /\ hdrD' \in [Slots -> Headers]
      /\ log' \in [Slots -> [Cells -> Records]] /\ logD' \in [Slots -> [Cells -> Records]]
      /\ data' \in [Offs -> Bytes] /\ dataD' \in [Offs -> Bytes] /\ psize' \in Sizes
  <2>1. CASE ProcessCrash
    BY <2>1 DEF ProcessCrash, diskVars, durVars, TypeOK
  <2>2. CASE SystemCrash
    <3>1. hdr' \in [Slots -> Headers] /\ hdrD' = hdr'
      BY <2>2 DEF SystemCrash, TypeOK
    <3>2. log' \in [Slots -> [Cells -> Records]] /\ logD' = log'
      <4>1. PICK L \in SUBSET {c \in Slots \X Cells : log[c[1]][c[2]] # logD[c[1]][c[2]]} :
                 log' = [s \in Slots |-> [p \in Cells |->
                          IF <<s, p>> \in L THEN logD[s][p] ELSE log[s][p]]]
        BY <2>2 DEF SystemCrash
      <4>2. \A s \in Slots, p \in Cells :
              (IF <<s, p>> \in L THEN logD[s][p] ELSE log[s][p]) \in Records
        BY DEF TypeOK
      <4> QED BY <2>2, <4>1, <4>2 DEF SystemCrash
    <3>3. data' \in [Offs -> Bytes] /\ dataD' = data'
      BY <2>2 DEF SystemCrash, TypeOK
    <3> QED BY <2>2, <3>1, <3>2, <3>3 DEF SystemCrash, TypeOK
  <2> QED BY <2>1, <2>2
<1>5. TypeOK'
  BY <1>1, <1>2, <1>4 DEF LoseProgram, TypeOK, NoWrites, NoUpdate, Updates, Bytes, Seqs, SeqMod
<1> QED BY <1>3, <1>5 DEF TypeInv

\* What a log replays to: bytes and a size.
LEMMA ReplayedTypes ==
  ASSUME NEW l \in [Cells -> Records], HasEnd(l), NEW h \in Headers
  PROVE  /\ ReplayedWrites(l) \in [Offs -> Bytes \union {None}]
         /\ ReplayedSize(h, l) \in Sizes
<1>1. \A p \in Body(l) : p \in Cells /\ l[p].val \in Bytes /\ l[p].arg \in Sizes
  BY EndPosFirst, CapAssumption DEF Body, Cells, Records
<1>2. \A o \in Offs : LastApplied(l, WritesTo(l, o)) \in Body(l) \union {None}
  <2> TAKE o \in Offs
  <2>1. WritesTo(l, o) \in SUBSET Body(l)
    BY DEF WritesTo
  <2> QED BY <2>1, LastAppliedMember
<1>3. LastApplied(l, Resizes(l)) \in Body(l) \union {None}
  <2>1. Resizes(l) \in SUBSET Body(l)
    BY DEF Resizes
  <2> QED BY <2>1, LastAppliedMember
<1>4. ReplayedWrites(l) \in [Offs -> Bytes \union {None}]
  BY <1>1, <1>2 DEF ReplayedWrites
<1>5. ReplayedSize(h, l) \in Sizes
  BY <1>1, <1>3 DEF ReplayedSize, Headers
<1> QED BY <1>4, <1>5

\* A header with one of its fields written is a header.
LEMMA HeaderUpdates ==
  ASSUME NEW h \in Headers, NEW n \in Seqs, NEW m \in Sizes
  PROVE  [h EXCEPT !.seq = n] \in Headers /\ [h EXCEPT !.size = m] \in Headers
BY DEF Headers

\* The steps of a recovery.
LEMMA TypeInvRecovery ==
  ASSUME TypeInv, Recovery
  PROVE  TypeInv'
<1> USE Constants, RecordTypes
<1> TypeOK /\ CallShape /\ SlotsEnd
  BY DEF TypeInv
<1>1. ASSUME op'.kind = "reopen", op'.pc \in ReopenPCs \ {"done"}, TypeOK'
      PROVE  TypeInv'
  <2>1. CallShape' /\ SlotsEnd'
    BY <1>1 DEF CallShape, SlotsEnd, Appending, SlotMade, Compacting, Up
  <2> QED BY <1>1, <2>1 DEF TypeInv
<1>2. ASSUME NEW pc \in ReopenPCs, Goto(pc), op.kind = "reopen"
      PROVE  op' \in Calls /\ op'.kind = "reopen" /\ op'.pc = pc
  BY <1>2 DEF Goto, TypeOK, Calls, PCs, ReopenPCs
<1>3. CASE RecoverRead
  <2> DEFINE s == Newest(hdr)
  <2>1. s \in Slots /\ HasEnd(log[s])
    BY <1>3 DEF RecoverRead, Newest, Slots
  <2>2. /\ ReplayedSize(hdr[s], log[s]) \in Sizes
        /\ ReplayedWrites(log[s]) \in [Offs -> Bytes \union {None}]
        /\ ReopenSeq(hdr) \in Seqs
    <3>1. hdr[s] \in Headers /\ log[s] \in [Cells -> Records]
      BY <2>1 DEF TypeOK
    <3> QED BY <2>1, <3>1, ReplayedTypes DEF ReopenSeq, Headers
  <2>3. /\ op' = Call("reopen", None, End, "write")
        /\ op' \in Calls /\ op'.kind = "reopen" /\ op'.pc = "write"
    BY <1>3 DEF RecoverRead, Call, Calls, PCs
  <2>4. /\ curSlot' = Other(s) /\ curSeq' = ReopenSeq(hdr)
        /\ size' = ReplayedSize(hdr[s], log[s]) /\ repl' = ReplayedWrites(log[s])
        /\ UNCHANGED <<diskVars, durVars, slotOff, allocVars, txVars>>
    BY <1>3 DEF RecoverRead
  <2> HIDE DEF s
  <2>5. TypeOK'
    BY <2>1, <2>2, <2>3, <2>4 DEF TypeOK, diskVars, durVars, allocVars, txVars
  <2> QED BY <1>1, <2>3, <2>5 DEF ReopenPCs
<1>4. CASE RecoverWrite
  <2>1. data' \in [Offs -> Bytes]
    <3>1. Overlay(data, repl) \in [Offs -> Bytes]
      BY OverlayType DEF TypeOK
    <3> QED BY <1>4, <3>1 DEF RecoverWrite, Bytes
  <2>2. op' \in Calls /\ op'.kind = "reopen" /\ op'.pc = "flush"
    BY <1>2, <1>4 DEF RecoverWrite, At, ReopenPCs
  <2>3. TypeOK'
    BY <1>4, <2>1, <2>2 DEF RecoverWrite, TypeOK, NoWrites, durVars, posVars, allocVars, txVars
  <2> QED BY <1>1, <2>2, <2>3 DEF ReopenPCs
<1>5. CASE RecoverFlush
  <2>1. op' \in Calls /\ op'.kind = "reopen" /\ op'.pc = "seq"
    BY <1>2, <1>5 DEF RecoverFlush, At, ReopenPCs
  <2>2. TypeOK'
    BY <1>5, <2>1 DEF RecoverFlush, Flush, TypeOK, diskVars, posVars, fileVars, allocVars, txVars
  <2> QED BY <1>1, <2>1, <2>2 DEF ReopenPCs
<1>6. CASE RecoverSeq
  <2>1. op' \in Calls /\ op'.kind = "reopen" /\ op'.pc = "size"
    BY <1>2, <1>6 DEF RecoverSeq, At, ReopenPCs
  <2>2. hdr' \in [Slots -> Headers]
    <3>1. [hdr[curSlot] EXCEPT !.seq = curSeq] \in Headers
      <4>1. hdr[curSlot] \in Headers /\ curSeq \in Seqs /\ size \in Sizes
        BY DEF TypeOK
      <4> QED BY <4>1, HeaderUpdates, Zenon
    <3>2. hdr' = [hdr EXCEPT ![curSlot] = [hdr[curSlot] EXCEPT !.seq = curSeq]]
      BY <1>6 DEF RecoverSeq
    <3> QED BY <3>1, <3>2 DEF TypeOK
  <2>3. TypeOK'
    BY <1>6, <2>1, <2>2 DEF RecoverSeq, TypeOK, durVars, posVars, fileVars, allocVars, txVars
  <2> QED BY <1>1, <2>1, <2>3 DEF ReopenPCs
<1>7. CASE RecoverSize
  <2>1. op' \in Calls /\ op'.kind = "reopen" /\ op'.pc = "end"
    BY <1>2, <1>7 DEF RecoverSize, At, ReopenPCs
  <2>2. hdr' \in [Slots -> Headers]
    <3>1. [hdr[curSlot] EXCEPT !.size = size] \in Headers
      <4>1. hdr[curSlot] \in Headers /\ curSeq \in Seqs /\ size \in Sizes
        BY DEF TypeOK
      <4> QED BY <4>1, HeaderUpdates, Zenon
    <3>2. hdr' = [hdr EXCEPT ![curSlot] = [hdr[curSlot] EXCEPT !.size = size]]
      BY <1>7 DEF RecoverSize
    <3> QED BY <3>1, <3>2 DEF TypeOK
  <2>3. TypeOK'
    BY <1>7, <2>1, <2>2 DEF RecoverSize, TypeOK, durVars, fileVars, allocVars, txVars
  <2> QED BY <1>1, <2>1, <2>3 DEF ReopenPCs
<1>8. CASE RecoverEnd
  <2>1. op' \in Calls /\ op'.kind = "reopen" /\ op'.pc = "done"
    BY <1>2, <1>8 DEF RecoverEnd, At, ReopenPCs
  <2>2. TypeOK'
    BY <1>8, <2>1 DEF RecoverEnd, TypeOK, durVars, posVars, fileVars, allocVars, txVars
  <2>3. HasEnd(log'[curSlot'])
    BY <1>8 DEF RecoverEnd, HasEnd, TypeOK, posVars
  <2>4. CallShape' /\ SlotsEnd'
    BY <2>1, <2>3 DEF CallShape, ReopenPCs, SlotsEnd, Appending, SlotMade, Compacting
  <2> QED BY <2>2, <2>4 DEF TypeInv
<1>9. CASE RecoverDone
  <2>1. op' = Idle /\ op'.kind = "idle" /\ op'.pc = "idle" /\ op' \in Calls
    BY <1>9 DEF RecoverDone, Idle, Call, Calls, PCs
  <2>2. TypeOK'
    BY <1>9, <2>1 DEF RecoverDone, Flush, TypeOK, diskVars, posVars, fileVars, allocVars, txVars
  <2>3. HasEnd(log[curSlot])
    BY <1>9 DEF RecoverDone, At, SlotsEnd
  <2>4. CallShape' /\ SlotsEnd'
    BY <1>9, <2>1, <2>3 DEF RecoverDone, CallShape, SlotsEnd, Appending, SlotMade, Compacting,
                            diskVars, posVars
  <2> QED BY <2>2, <2>4 DEF TypeInv
<1> QED BY <1>3, <1>4, <1>5, <1>6, <1>7, <1>8, <1>9 DEF Recovery

LEMMA TypeInvStutter ==
  ASSUME TypeInv, UNCHANGED vars
  PROVE  TypeInv'
BY DEF TypeInv, TypeOK, CallShape, SlotsEnd, Appending, SlotMade, Up, vars,
       diskVars, durVars, posVars, fileVars, allocVars, txVars

LEMMA TypeInvNext == TypeInv /\ [Next]_vars => TypeInv'
<1> SUFFICES ASSUME TypeInv, [Next]_vars PROVE TypeInv'
  OBVIOUS
<1>1. CASE Client
  BY <1>1, TypeInvClient DEF Client
<1>2. CASE Compact
  BY <1>2, TypeInvCompact
<1>3. CASE UNCHANGED vars
  BY <1>3, TypeInvStutter
<1> QED BY <1>1, <1>2, <1>3, TypeInvAppend, TypeInvCompaction, TypeInvCrash, TypeInvRecovery DEF Next

LEMMA TypeInvAlways == Spec => []TypeInv
BY TypeInvInit, TypeInvNext, PTL DEF Spec

\* Every variable of the region and of the file keeps its type: slot_off_ and
\* the records that compact_ copies stay in their slot, and every id that is
\* given out fits the 24 bits of a log record (wal.cc:168-173, 373-404).
THEOREM TypeCorrect == Spec => []TypeOK
<1>1. TypeInv => TypeOK
  BY DEF TypeInv
<1> QED BY <1>1, TypeInvAlways, PTL

-------------------------------------------------------------------------------
(***************************************************************************)
(* Transaction ids.  An id is in use, available, or waiting for the next   *)
(* compaction; one in use or available is within tx_id_states_, so an id   *)
(* that allocate_tx_id adds at its end, or that compact_ trims from it, is *)
(* nobody's.                                                               *)
(***************************************************************************)
IdsInv ==
  /\ IdsDistinct
  /\ active \intersect avail = {}
  /\ \A i \in active \union avail : i < idLen

\* The steps that leave the ids alone.
LEMMA IdsInvUnchanged ==
  ASSUME IdsInv, UNCHANGED <<idLen, active, avail, txId>>
  PROVE  IdsInv'
BY DEF IdsInv, IdsDistinct

LEMMA IdsInvNext == TypeInv /\ IdsInv /\ [Next]_vars => IdsInv'
<1> SUFFICES ASSUME TypeInv, IdsInv, [Next]_vars PROVE IdsInv'
  OBVIOUS
<1> TypeOK
  BY DEF TypeInv
<1> USE Constants
<1>1. ASSUME NEW t \in Txs, Begin(t) PROVE IdsInv'
  <2> DEFINE id == NextId
  <2>1. /\ id \in Ids /\ id \notin active
        /\ IF avail = {} THEN id = idLen ELSE id \in avail
    <3>1. CASE avail = {}
      BY <1>1, <3>1 DEF Begin, NextId, OutOfIds, Ids, TypeOK, IdsInv
    <3>2. CASE avail # {}
      BY <3>2, LeastAvailable DEF NextId, TypeOK, IdsInv
    <3> QED BY <3>1, <3>2
  <2>2. /\ txId' = [txId EXCEPT ![t] = id]
        /\ active' = active \union {id} /\ avail' = avail \ {id}
        /\ idLen' = IF avail = {} THEN idLen + 1 ELSE idLen
    BY <1>1 DEF Begin
  <2> HIDE DEF id
  <2>3. \A i \in active' \union avail' : i < idLen'
    BY <2>1, <2>2 DEF IdsInv, TypeOK, Ids
  <2>4. IdsDistinct'
    BY <2>1, <2>2 DEF IdsInv, IdsDistinct, TypeOK
  <2> QED BY <2>2, <2>3, <2>4 DEF IdsInv
<1>2. ASSUME NEW t \in Txs, txId[t] # None, Finish(txId[t]), Forget(t), UNCHANGED <<idLen, avail>>
      PROVE  IdsInv'
  BY <1>2 DEF Finish, Forget, IdsInv, IdsDistinct, TypeOK
<1>3. CASE CommitDone
  <2>1. op.tx \in Txs
    BY <1>3 DEF CommitDone, At, TypeInv, CallShape
  <2>2. CASE txId[op.tx] # None
    BY <1>2, <1>3, <2>1, <2>2 DEF CommitDone
  <2>3. CASE txId[op.tx] = None
    BY <1>3, <2>1, <2>3 DEF CommitDone, Finish, Forget, IdsInv, IdsDistinct, TypeOK
  <2> QED BY <2>2, <2>3
<1>4. CASE CompactIds
  <2>1. TrimmedLen \in Int /\ \A i \in active : i < TrimmedLen
    BY TrimmedLenBounds DEF TypeOK
  <2>2. /\ idLen' = TrimmedLen /\ avail' = (0 .. TrimmedLen - 1) \ active
        /\ active' = active /\ txId' = txId
    BY <1>4 DEF CompactIds, txVars
  <2>3. \A i \in active' \union avail' : i < idLen'
    BY <2>1, <2>2
  <2>4. IdsDistinct'
    BY <2>2 DEF IdsInv, IdsDistinct
  <2> QED BY <2>2, <2>3, <2>4 DEF IdsInv
<1>5. CASE LoseProgram
  BY <1>5 DEF LoseProgram, IdsInv, IdsDistinct
<1>6. CASE UNCHANGED <<idLen, active, avail, txId>>
  BY <1>6, IdsInvUnchanged
<1>7. CASE Client
  <2>1. PICK t \in Txs :
          \/ Begin(t) \/ BeginCompacts(t) \/ Rollback(t)
          \/ \E o \in Offs, v \in Vals : Write(t, o, v)
          \/ \E n \in Sizes : Resize(t, n)
          \/ Commit(t)
    BY <1>7 DEF Client
  <2>2. CASE Rollback(t)
    BY <1>2, <2>2 DEF Rollback
  <2>3. CASE ~Begin(t) /\ ~Rollback(t)
    <3>1. UNCHANGED <<idLen, active, avail, txId>>
      BY <2>1, <2>3 DEF BeginCompacts, Write, Resize, Commit, Enter, allocVars, txVars
    <3> QED BY <3>1, <1>6
  <2> QED BY <2>1, <1>1, <2>2, <2>3
<1>8. CASE Append
  <2>1. CASE ~CommitDone
    <3>1. UNCHANGED <<idLen, active, avail, txId>>
      BY <1>8, <2>1 DEF Append, WriteBody, FlushBody, AppendMarker, CommitMarker, allocVars, txVars
    <3> QED BY <3>1, <1>6
  <2> QED BY <2>1, <1>3
<1>9. CASE Compaction \/ Compact
  <2>1. CASE ~CompactIds
    <3>1. UNCHANGED <<idLen, active, avail, txId>>
      BY <1>9, <2>1 DEF Compact, Compaction, CompactCopy, CompactWrite, CompactApply, CompactHeader,
                        CompactInstall, allocVars, txVars
    <3> QED BY <3>1, <1>6
  <2> QED BY <2>1, <1>4
<1>10. CASE Recovery \/ UNCHANGED vars
  <2>1. UNCHANGED <<idLen, active, avail, txId>>
    BY <1>10 DEF Recovery, RecoverRead, RecoverWrite, RecoverFlush, RecoverSeq, RecoverSize,
                 RecoverEnd, RecoverDone, vars, allocVars, txVars
  <2> QED BY <2>1, <1>6
<1>11. CASE ProcessCrash \/ SystemCrash
  BY <1>5, <1>11 DEF ProcessCrash, SystemCrash
<1> QED BY <1>7, <1>8, <1>9, <1>10, <1>11 DEF Next

\* Two transactions in progress never share an id, whichever of them begin,
\* commit or roll back while compact_ trims and recycles the ids
\* (wal.cc:373-404, 626-641).
THEOREM IdsAreDistinct == Spec => []IdsDistinct
<1>1. Init => IdsInv
  BY DEF Init, NewFile, NoIds, IdsInv, IdsDistinct
<1>2. IdsInv => IdsDistinct
  BY DEF IdsInv
<1> QED BY <1>1, <1>2, IdsInvNext, TypeInvAlways, PTL DEF Spec

-------------------------------------------------------------------------------
(***************************************************************************)
(* Headers.  The other header is one behind current_seq_, or one ahead     *)
(* once compact_ has written it.  That one is not flushed, so a crash may  *)
(* leave the sequence number before it; HeadersAdjacent needs that the     *)
(* header it follows is flushed by then, which the flush of the pending    *)
(* writes sees to.                                                         *)
(***************************************************************************)
Adjacent(x, y) == y = Succ(x) \/ x = Succ(y)

HeadersInv ==
  /\ HeadersAdjacent
  /\ Up => hdr[curSlot].seq = curSeq
  /\ op.kind = "reopen" => curSeq = Succ(hdr[Other(curSlot)].seq)
  /\ (op.kind = "reopen" /\ op.pc \in {"size", "end", "done"}) => hdr[curSlot].seq = curSeq
  /\ At(Compacting, "header") \/ At({"reopen"}, "seq") => hdrD = hdr
  /\ (op.kind \in Compacting /\ op.pc \in {"ids", "install"}) =>
       hdr[Other(curSlot)].seq = Succ(curSeq)

\* Four sequence numbers, two of each slot.
LEMMA AdjacentBySlot ==
  ASSUME NEW s \in Slots
  PROVE  HeadersAdjacent <=>
           \A x \in {hdr[s].seq, hdrD[s].seq}, y \in {hdr[Other(s)].seq, hdrD[Other(s)].seq} :
             Adjacent(x, y)
BY DEF HeadersAdjacent, Adjacent, Slots, Other

\* The steps that leave the headers and the position alone.
LEMMA HeadersInvUnchanged ==
  ASSUME TypeInv, HeadersInv, UNCHANGED <<hdr, curSlot, curSeq>>, hdrD' \in {hdrD, hdr},
         Up' => Up \/ (op.kind = "reopen" /\ op.pc = "done"),
         op'.kind = "reopen" => op.kind = "reopen",
         (op'.kind = "reopen" /\ op'.pc \in {"size", "end", "done"}) => op.pc \in {"size", "end", "done"},
         At(Compacting, "header")' \/ At({"reopen"}, "seq")' => op' = op \/ hdrD' = hdr,
         (op'.kind \in Compacting /\ op'.pc \in {"ids", "install"}) =>
           op.kind \in Compacting /\ op.pc \in {"ids", "install"}
  PROVE  HeadersInv'
<1>1. HeadersAdjacent'
  BY DEF HeadersInv, HeadersAdjacent
<1>2. Up' => hdr'[curSlot'].seq = curSeq'
  BY DEF HeadersInv
<1>3. (op'.kind = "reopen" => curSeq' = Succ(hdr'[Other(curSlot')].seq))
  BY DEF HeadersInv
<1>4. (op'.kind = "reopen" /\ op'.pc \in {"size", "end", "done"}) => hdr'[curSlot'].seq = curSeq'
  BY DEF HeadersInv
<1>5. At(Compacting, "header")' \/ At({"reopen"}, "seq")' => hdrD' = hdr'
  BY DEF HeadersInv, At
<1>6. (op'.kind \in Compacting /\ op'.pc \in {"ids", "install"}) =>
        hdr'[Other(curSlot')].seq = Succ(curSeq')
  BY DEF HeadersInv
<1> QED BY <1>1, <1>2, <1>3, <1>4, <1>5, <1>6 DEF HeadersInv

LEMMA HeadersInvNext == TypeInv /\ HeadersInv /\ [Next]_vars => HeadersInv'
<1> SUFFICES ASSUME TypeInv, HeadersInv, [Next]_vars PROVE HeadersInv'
  OBVIOUS
<1> USE Constants
<1> TypeOK /\ CallShape
  BY DEF TypeInv
<1>1. CASE CompactHeader
  <2>1. /\ op.kind \in Compacting /\ op.pc = "header" /\ Up /\ hdrD = hdr
        /\ curSlot \in Slots /\ hdr[curSlot].seq = curSeq
    BY <1>1 DEF CompactHeader, At, HeadersInv, Up, Compacting, TypeOK
  <2>2. /\ hdr'[curSlot] = hdr[curSlot] /\ hdr'[Other(curSlot)].seq = Succ(curSeq)
        /\ hdrD' = hdr /\ curSlot' = curSlot /\ curSeq' = curSeq
        /\ op'.kind = op.kind /\ op'.pc = "ids"
    BY <1>1, <2>1 DEF CompactHeader, NewHeader, Goto, TypeOK, Calls, durVars, posVars
  <2>3. Adjacent(curSeq, hdr[Other(curSlot)].seq) /\ Adjacent(curSeq, Succ(curSeq))
    BY <2>1, AdjacentBySlot DEF HeadersInv, Adjacent
  <2>4. HeadersAdjacent'
    <3>1. \A x \in {hdr'[curSlot].seq, hdrD'[curSlot].seq},
             y \in {hdr'[Other(curSlot)].seq, hdrD'[Other(curSlot)].seq} : Adjacent(x, y)
      BY <2>1, <2>2, <2>3
    <3> QED BY <2>1, <3>1 DEF HeadersAdjacent, Adjacent, Slots, Other
  <2> QED BY <2>1, <2>2, <2>4 DEF HeadersInv, At, Compacting
<1>2. CASE RecoverSeq
  <2>1. /\ op.kind = "reopen" /\ op.pc = "seq" /\ hdrD = hdr
        /\ curSlot \in Slots /\ curSeq = Succ(hdr[Other(curSlot)].seq)
    BY <1>2 DEF RecoverSeq, At, HeadersInv, TypeOK
  <2>2. /\ hdr'[curSlot].seq = curSeq /\ hdr'[Other(curSlot)] = hdr[Other(curSlot)]
        /\ hdrD' = hdr /\ curSlot' = curSlot /\ curSeq' = curSeq
    <3>1. hdr' = [hdr EXCEPT ![curSlot] = [hdr[curSlot] EXCEPT !.seq = curSeq]]
      BY <1>2 DEF RecoverSeq
    <3>2. [hdr[curSlot] EXCEPT !.seq = curSeq].seq = curSeq
      BY <2>1 DEF TypeOK, Headers
    <3> QED BY <1>2, <2>1, <3>1, <3>2 DEF RecoverSeq, TypeOK, durVars, posVars
  <2>3. op'.kind = "reopen" /\ op'.pc = "size"
    BY <1>2, <2>1 DEF RecoverSeq, Goto, TypeOK, Calls
  <2>4. /\ Adjacent(hdr[curSlot].seq, hdr[Other(curSlot)].seq)
        /\ Adjacent(curSeq, hdr[Other(curSlot)].seq)
    BY <2>1, AdjacentBySlot DEF HeadersInv, Adjacent
  <2>5. HeadersAdjacent'
    <3>1. \A x \in {hdr'[curSlot].seq, hdrD'[curSlot].seq},
             y \in {hdr'[Other(curSlot)].seq, hdrD'[Other(curSlot)].seq} : Adjacent(x, y)
      BY <2>1, <2>2, <2>4
    <3> QED BY <2>1, <3>1 DEF HeadersAdjacent, Adjacent, Slots, Other
  <2> QED BY <2>1, <2>2, <2>3, <2>5 DEF HeadersInv, At, Compacting, Up
<1>3. CASE RecoverSize
  <2>1. /\ op.kind = "reopen" /\ op.pc = "size" /\ curSlot \in Slots
    BY <1>3 DEF RecoverSize, At, TypeOK
  <2>2. /\ \A s \in Slots : hdr'[s].seq = hdr[s].seq
        /\ hdrD' = hdrD /\ curSlot' = curSlot /\ curSeq' = curSeq
    <3>1. hdr' = [hdr EXCEPT ![curSlot] = [hdr[curSlot] EXCEPT !.size = size]]
      BY <1>3 DEF RecoverSize
    <3>2. [hdr[curSlot] EXCEPT !.size = size].seq = hdr[curSlot].seq
      BY <2>1 DEF TypeOK, Headers
    <3> QED BY <1>3, <2>1, <3>1, <3>2 DEF RecoverSize, TypeOK, durVars
  <2>3. op'.kind = "reopen" /\ op'.pc = "end"
    BY <1>3, <2>1 DEF RecoverSize, Goto, TypeOK, Calls
  <2>4. HeadersAdjacent'
    BY <2>2 DEF HeadersInv, HeadersAdjacent, Slots
  <2> QED BY <2>1, <2>2, <2>3, <2>4 DEF HeadersInv, At, Compacting, Up
<1>4. CASE RecoverRead
  <2>1. /\ Newest(hdr) \in Slots /\ curSlot' = Other(Newest(hdr))
        /\ curSeq' = Succ(hdr[Newest(hdr)].seq) /\ hdr' = hdr /\ hdrD' = hdrD
    BY <1>4 DEF RecoverRead, ReopenSeq, Newest, Slots, diskVars, durVars
  <2>2. op'.kind = "reopen" /\ op'.pc = "write"
    BY <1>4 DEF RecoverRead, Call
  <2>3. HeadersAdjacent'
    BY <2>1 DEF HeadersInv, HeadersAdjacent
  <2> QED BY <2>1, <2>2, <2>3 DEF HeadersInv, At, Compacting, Up
<1>5. CASE CompactInstall
  <2>1. /\ op.kind \in Compacting /\ op.pc = "install"
        /\ hdr[Other(curSlot)].seq = Succ(curSeq)
    BY <1>5 DEF CompactInstall, At, HeadersInv
  <2>2. /\ curSlot' = Other(curSlot) /\ curSeq' = Succ(curSeq) /\ hdr' = hdr /\ hdrD' = hdrD
        /\ op'.kind \in {"idle", "append", "commit"} /\ op'.pc \in {"idle", "body"}
    BY <1>5 DEF CompactInstall, Goto, Idle, Call, TypeOK, Calls, diskVars, durVars
  <2>3. HeadersAdjacent'
    BY <2>2 DEF HeadersInv, HeadersAdjacent
  <2> QED BY <2>1, <2>2, <2>3 DEF HeadersInv, At, Compacting, Up
<1>6. CASE ProcessCrash \/ SystemCrash
  <2>1. op'.kind = "down"
    BY <1>6 DEF ProcessCrash, SystemCrash, LoseProgram, Down, Call
  <2>2. /\ \A s \in Slots : hdr'[s] \in {hdr[s], hdrD[s]} /\ hdrD'[s] \in {hdr[s], hdrD[s]}
    BY <1>6 DEF ProcessCrash, SystemCrash, diskVars, durVars
  <2>3. HeadersAdjacent'
    BY <2>2 DEF HeadersInv, HeadersAdjacent, Slots
  <2> QED BY <2>1, <2>3 DEF HeadersInv, At, Compacting, Up
<1>7. CASE Client \/ Compact
  <2>1. UNCHANGED <<hdr, hdrD, curSlot, curSeq>> /\ Up' = Up /\ Up
    BY <1>7 DEF Client, Compact, Begin, BeginCompacts, Rollback, Write, Resize, Commit, Enter,
                MayRun, Up, Call, diskVars, durVars, posVars
  <2>2. op' = op \/ (op'.kind # "reopen" /\ op'.pc \in {"copy", "body"})
    BY <1>7 DEF Client, Compact, Begin, BeginCompacts, Rollback, Write, Resize, Commit, Enter, Call
  <2> QED BY <2>1, <2>2, HeadersInvUnchanged DEF At, Up
<1>8. CASE Append
  <2>1. UNCHANGED <<hdr, curSlot, curSeq>> /\ hdrD' \in {hdr, hdrD} /\ Up
    BY <1>8 DEF Append, WriteBody, FlushBody, AppendMarker, CommitMarker, CommitDone, Flush,
                At, Up, diskVars, durVars, posVars
  <2>2. op'.kind # "reopen" /\ op'.pc \in {"flush", "marker", "sync", "idle"}
    BY <1>8 DEF Append, WriteBody, FlushBody, AppendMarker, CommitMarker, CommitDone, At, Goto,
                Idle, Call, TypeOK, Calls
  <2> QED BY <2>1, <2>2, HeadersInvUnchanged DEF At
<1>9. CASE CompactCopy \/ CompactWrite \/ CompactApply
  <2>1. UNCHANGED <<hdr, curSlot, curSeq>> /\ hdrD' \in {hdr, hdrD} /\ Up
    BY <1>9 DEF CompactCopy, CompactWrite, CompactApply, Flush, At, Compacting, Up, diskVars, durVars, posVars
  <2>2. op'.kind # "reopen" /\ op'.pc \in {"write", "apply", "header"} /\ (op'.pc = "header" => hdrD' = hdr)
    BY <1>9 DEF CompactCopy, CompactWrite, CompactApply, Flush, At, Compacting, Goto, TypeOK, Calls
  <2> QED BY <2>1, <2>2, HeadersInvUnchanged DEF At
<1>10. CASE CompactIds
  <2>1. UNCHANGED <<hdr, hdrD, curSlot, curSeq>> /\ Up /\ op.kind \in Compacting /\ op.pc = "ids"
    BY <1>10 DEF CompactIds, At, Compacting, Up, diskVars, durVars, posVars
  <2>2. op'.kind # "reopen" /\ op'.pc = "install"
    BY <1>10 DEF CompactIds, At, Compacting, Goto, TypeOK, Calls
  <2> QED BY <2>1, <2>2, HeadersInvUnchanged DEF At
<1>11. CASE RecoverWrite \/ RecoverFlush \/ RecoverEnd \/ RecoverDone
  <2>1. UNCHANGED <<hdr, curSlot, curSeq>> /\ hdrD' \in {hdr, hdrD} /\ op.kind = "reopen"
    BY <1>11 DEF RecoverWrite, RecoverFlush, RecoverEnd, RecoverDone, Flush, At, diskVars, durVars, posVars
  <2>2. \/ op'.kind = "reopen" /\ op'.pc = "flush"
        \/ op'.kind = "reopen" /\ op'.pc = "seq" /\ hdrD' = hdr
        \/ op'.kind = "reopen" /\ op'.pc = "done" /\ op.pc = "end"
        \/ op' = Idle /\ op.pc = "done"
    BY <1>11 DEF RecoverWrite, RecoverFlush, RecoverEnd, RecoverDone, Flush, At, Goto, TypeOK, Calls
  <2> QED BY <2>1, <2>2, HeadersInvUnchanged DEF At, Idle, Call, Compacting, Up
<1>12. CASE UNCHANGED vars
  BY <1>12 DEF vars, diskVars, durVars, posVars, HeadersInv, HeadersAdjacent, At, Up
<1> QED BY <1>1, <1>2, <1>3, <1>4, <1>5, <1>6, <1>7, <1>8, <1>9, <1>10, <1>11, <1>12
        DEF Next, Compaction, Recovery

LEMMA HeadersInvAlways == Spec => []HeadersInv
<1>1. Init => HeadersInv
  <2> SUFFICES ASSUME Init PROVE HeadersInv
    OBVIOUS
  <2>1. op.kind = "idle" /\ op.pc = "idle" /\ hdrD = hdr /\ curSlot = 0 /\ curSeq = 0
    BY DEF Init, NewFile, NoIds, Idle, Call
  <2>2. hdr[0].seq = 0 /\ hdr[1].seq = SeqMod - 1 /\ Succ(SeqMod - 1) = 0
    BY DEF Init, NewFile, NoIds, Slots, Succ
  <2> QED BY <2>1, <2>2 DEF HeadersInv, HeadersAdjacent, At, Compacting
<1> QED BY <1>1, HeadersInvNext, TypeInvAlways, PTL DEF Spec

\* Whatever a crash leaves of the two headers, recovery finds the newer slot:
\* in every interleaving, with any number of compactions between two flushes
\* of the log, and across the wrap-around of the sequence number
\* (wal.cc:267-279, 592-624).
THEOREM HeadersStayAdjacent == Spec => []HeadersAdjacent
<1>1. HeadersInv => HeadersAdjacent
  BY DEF HeadersInv
<1> QED BY <1>1, HeadersInvAlways, PTL

-----------------------------------------------------------------------------
(***************************************************************************)
(* The log, its replay and crashes.  First what an appended record, a      *)
(* commit record and a compaction do to the replay of a log.  Then four    *)
(* invariants, each on the ones before it: the log holds what transactions *)
(* did (LogInv), its replay is what readers see (ReplayInv), what has to   *)
(* be flushed is (DurableInv), and whatever a crash leaves recovers to     *)
(* what readers saw (SurviveInv).  From these, the WAL implements          *)
(* CommittedFile.                                                          *)
(***************************************************************************)

(***************************************************************************)
(* Logs.  The operators that choose a record choose the only one there is. *)
(***************************************************************************)

\* The first end marker is the end.
LEMMA EndPosIs ==
  ASSUME NEW l, NEW e \in Cells, l[e].kind = "end", \A q \in 1 .. e - 1 : l[q].kind # "end"
  PROVE  HasEnd(l) /\ EndPos(l) = e
<1>1. HasEnd(l)
  BY DEF HasEnd
<1>2. EndPos(l) \in Cells /\ l[EndPos(l)].kind = "end"
      /\ \A q \in 1 .. EndPos(l) - 1 : l[q].kind # "end"
  BY <1>1, EndPosFirst
<1>3. ~(EndPos(l) < e) /\ ~(e < EndPos(l))
  BY <1>2, Constants DEF Cells
<1> QED BY <1>1, <1>2, <1>3, Constants DEF Cells

\* The records of a log are in its cells.
LEMMA BodyCells ==
  ASSUME NEW l, HasEnd(l)
  PROVE  /\ Body(l) \subseteq Cells /\ Body(l) \subseteq Int /\ EndPos(l) \in Cells
         /\ \A p \in Body(l) : p < EndPos(l) /\ l[p].kind # "end"
         /\ Body(l) \in SUBSET (0 .. Cap)
BY EndPosFirst, Constants DEF Body, Cells

LEMMA CommitOfIs ==
  ASSUME NEW l, HasEnd(l), NEW p, NEW c \in CommitsAfter(l, p),
         \A r \in CommitsAfter(l, p) : c <= r
  PROVE  CommitOf(l, p) = c
<1>1. CommitsAfter(l, p) \subseteq Int
  BY BodyCells DEF CommitsAfter
<1>2. \A x, y \in CommitsAfter(l, p) :
        (\A r \in CommitsAfter(l, p) : x <= r) /\ (\A r \in CommitsAfter(l, p) : y <= r) => x = y
  BY <1>1
<1> DEFINE Q(x) == \A r \in CommitsAfter(l, p) : x <= r
<1>3. Q(c) /\ CommitOf(l, p) = CHOOSE q \in CommitsAfter(l, p) : Q(q)
  BY DEF CommitOf
<1>4. Q(CHOOSE q \in CommitsAfter(l, p) : Q(q)) /\ (CHOOSE q \in CommitsAfter(l, p) : Q(q)) \in CommitsAfter(l, p)
  <2> HIDE DEF Q
  <2> QED BY <1>3
<1> QED BY <1>2, <1>3, <1>4

\* The commit record that applies a record is the first one after it.
LEMMA CommitOfLeast ==
  ASSUME NEW l, HasEnd(l), NEW p, CommitsAfter(l, p) # {}
  PROVE  CommitOf(l, p) \in CommitsAfter(l, p) /\ \A r \in CommitsAfter(l, p) : CommitOf(l, p) <= r
<1>1. Cap \in Nat /\ CommitsAfter(l, p) \in SUBSET (0 .. Cap)
  BY Constants, BodyCells DEF CommitsAfter
<1>2. PICK m \in CommitsAfter(l, p) : \A n \in CommitsAfter(l, p) : m <= n
  BY <1>1, BoundedFinite, FiniteMin
<1> QED BY <1>2, CommitOfIs

\* Two logs with the same commit records after a record.
LEMMA CommitOfSame ==
  ASSUME NEW l, NEW m, HasEnd(l), HasEnd(m), NEW p,
         CommitsAfter(m, p) = CommitsAfter(l, p), CommitsAfter(l, p) # {}
  PROVE  CommitOf(m, p) = CommitOf(l, p)
BY CommitOfLeast, CommitOfIs

\* Of the records that are applied, the last one.
Applied(l, S) == {p \in S : CommitsAfter(l, p) # {}}

LEMMA LastAppliedNone ==
  ASSUME NEW l, NEW S, Applied(l, S) = {}
  PROVE  LastApplied(l, S) = None
BY DEF LastApplied, Applied

LEMMA LastAppliedIs ==
  ASSUME NEW l, HasEnd(l), NEW S \in SUBSET Body(l), NEW p \in Applied(l, S),
         \A q \in Applied(l, S) : AppliedAfter(l, p, q)
  PROVE  LastApplied(l, S) = p
<1> DEFINE A == Applied(l, S)
           Q(x) == \A q \in A : AppliedAfter(l, x, q)
<1>1. A \subseteq Int /\ \A x \in A : CommitOf(l, x) \in Int
  BY BodyCells, CommitOfLeast DEF Applied, CommitsAfter
<1>2. \A x, y \in A : Q(x) /\ Q(y) => x = y
  <2> SUFFICES ASSUME NEW x \in A, NEW y \in A, Q(x), Q(y) PROVE x = y
    OBVIOUS
  <2>1. AppliedAfter(l, x, y) /\ AppliedAfter(l, y, x) /\ x \in Int /\ y \in Int
        /\ CommitOf(l, x) \in Int /\ CommitOf(l, y) \in Int
    BY <1>1
  <2> QED BY <2>1 DEF AppliedAfter
<1>3. LastApplied(l, S) = CHOOSE x \in A : Q(x)
  BY DEF LastApplied, Applied
<1>4. Q(p) /\ p \in A
  OBVIOUS
<1> HIDE DEF Q, A
<1>5. Q(CHOOSE x \in A : Q(x)) /\ (CHOOSE x \in A : Q(x)) \in A
  BY <1>4
<1> QED BY <1>2, <1>3, <1>4, <1>5

LEMMA LastAppliedSome ==
  ASSUME NEW l, HasEnd(l), NEW S \in SUBSET Body(l), Applied(l, S) # {}
  PROVE  /\ LastApplied(l, S) \in Applied(l, S)
         /\ \A q \in Applied(l, S) : AppliedAfter(l, LastApplied(l, S), q)
<1> DEFINE A == Applied(l, S)
           C == {CommitOf(l, p) : p \in A}
<1>1. Cap \in Nat /\ Body(l) \in SUBSET (0 .. Cap)
  BY Constants, BodyCells
<1>2. A \subseteq Body(l) /\ A # {} /\ \A p \in A : CommitOf(l, p) \in Body(l)
  BY CommitOfLeast DEF CommitsAfter, Applied
<1>3. C \in SUBSET (0 .. Cap) /\ C # {}
  BY <1>1, <1>2
<1>4. PICK c \in C : \A d \in C : d <= c
  <2> HIDE DEF C
  <2> QED BY <1>1, <1>3, BoundedFinite, FiniteMax
<1> DEFINE L == {p \in A : CommitOf(l, p) = c}
<1>5. L \in SUBSET (0 .. Cap) /\ L # {}
  BY <1>1, <1>2, <1>4
<1>6. PICK p \in L : \A q \in L : q <= p
  <2> HIDE DEF L
  <2> QED BY <1>1, <1>5, BoundedFinite, FiniteMax
<1>7. ASSUME NEW q \in A PROVE AppliedAfter(l, p, q)
  <2>1. CommitOf(l, q) \in C /\ CommitOf(l, q) \in Int /\ c \in Int
    BY <1>3
  <2>2. CommitOf(l, q) < c \/ CommitOf(l, q) = c
    BY <1>4, <2>1
  <2> QED BY <2>2, <1>6 DEF AppliedAfter
<1>8. p \in A
  BY <1>6
<1> QED BY <1>7, <1>8, LastAppliedIs

\* Two logs that apply the same records of two sets, in the same order.
LEMMA LastAppliedSame ==
  ASSUME NEW l, NEW m, HasEnd(l), HasEnd(m),
         NEW S \in SUBSET Body(l), NEW T \in SUBSET Body(m),
         Applied(m, T) = Applied(l, S),
         \A p \in Applied(l, S) : CommitOf(m, p) = CommitOf(l, p)
  PROVE  LastApplied(m, T) = LastApplied(l, S)
<1>1. CASE Applied(l, S) = {}
  BY <1>1, LastAppliedNone
<1>2. CASE Applied(l, S) # {}
  <2> DEFINE p == LastApplied(l, S)
  <2>1. p \in Applied(l, S) /\ \A q \in Applied(l, S) : AppliedAfter(l, p, q)
    BY <1>2, LastAppliedSome
  <2> HIDE DEF p
  <2>2. \A q \in Applied(m, T) : AppliedAfter(m, p, q)
    BY <2>1 DEF AppliedAfter
  <2>3. LastApplied(m, T) = p
    BY <2>1, <2>2, LastAppliedIs
  <2> QED BY <2>3 DEF p
<1> QED BY <1>1, <1>2

\* The last of a set of records.
LEMMA LatestIs ==
  ASSUME NEW S \in SUBSET Int, NEW p \in S, \A q \in S : q <= p
  PROVE  Latest(S) = p
<1> DEFINE Q(x) == \A q \in S : q <= x
<1>1. \A x, y \in S : Q(x) /\ Q(y) => x = y
  OBVIOUS
<1>2. Latest(S) = CHOOSE x \in S : Q(x)
  BY DEF Latest
<1>3. Q(p)
  OBVIOUS
<1> HIDE DEF Q
<1>4. Q(CHOOSE x \in S : Q(x)) /\ (CHOOSE x \in S : Q(x)) \in S
  BY <1>3
<1> QED BY <1>1, <1>2, <1>3, <1>4

LEMMA LatestLast ==
  ASSUME NEW l, HasEnd(l), NEW S \in SUBSET Body(l), S # {}
  PROVE  Latest(S) \in S /\ \A q \in S : q <= Latest(S)
<1>1. Cap \in Nat /\ S \in SUBSET (0 .. Cap) /\ S \in SUBSET Int
  BY Constants, BodyCells
<1>2. PICK m \in S : \A n \in S : n <= m
  BY <1>1, BoundedFinite, FiniteMax
<1>3. Latest(S) = m
  BY <1>1, <1>2, LatestIs
<1> QED BY <1>2, <1>3

\* The records of l are in m too, and m applies the same ones in the same order.
LEMMA ReplaySame ==
  ASSUME NEW l, NEW m, HasEnd(l), HasEnd(m),
         \A p \in Body(l) : m[p] = l[p],
         \A o \in Offs : Applied(m, WritesTo(m, o)) = Applied(l, WritesTo(l, o)),
         Applied(m, Resizes(m)) = Applied(l, Resizes(l)),
         \A p \in Body(l) : CommitsAfter(l, p) # {} => CommitOf(m, p) = CommitOf(l, p)
  PROVE  /\ ReplayedWrites(m) = ReplayedWrites(l)
         /\ \A h : ReplayedSize(h, m) = ReplayedSize(h, l)
<1>1. ASSUME NEW S \in SUBSET Body(l), NEW T \in SUBSET Body(m), Applied(m, T) = Applied(l, S)
      PROVE  /\ LastApplied(m, T) = LastApplied(l, S)
             /\ LastApplied(l, S) # None => m[LastApplied(l, S)] = l[LastApplied(l, S)]
  <2>1. \A p \in Applied(l, S) : CommitOf(m, p) = CommitOf(l, p)
    BY DEF Applied
  <2>2. LastApplied(m, T) = LastApplied(l, S)
    BY <1>1, <2>1, LastAppliedSame
  <2>3. LastApplied(l, S) # None => LastApplied(l, S) \in Body(l)
    BY LastAppliedMember
  <2> QED BY <2>2, <2>3
<1>2. \A o \in Offs : WritesTo(l, o) \in SUBSET Body(l) /\ WritesTo(m, o) \in SUBSET Body(m)
  BY DEF WritesTo
<1>3. Resizes(l) \in SUBSET Body(l) /\ Resizes(m) \in SUBSET Body(m)
  BY DEF Resizes
<1>4. \A o \in Offs : /\ LastApplied(m, WritesTo(m, o)) = LastApplied(l, WritesTo(l, o))
                      /\ LastApplied(l, WritesTo(l, o)) # None =>
                           m[LastApplied(l, WritesTo(l, o))] = l[LastApplied(l, WritesTo(l, o))]
  BY <1>1, <1>2
<1>5. /\ LastApplied(m, Resizes(m)) = LastApplied(l, Resizes(l))
      /\ LastApplied(l, Resizes(l)) # None => m[LastApplied(l, Resizes(l))] = l[LastApplied(l, Resizes(l))]
  BY <1>1, <1>3
<1> QED BY <1>4, <1>5 DEF ReplayedWrites, ReplayedSize

\* A log without commit records changes nothing.
LEMMA ReplayNothing ==
  ASSUME NEW l, \A p \in Body(l) : l[p].kind # "commit"
  PROVE  ReplayedWrites(l) = NoWrites /\ \A h : ReplayedSize(h, l) = h.size
<1>1. \A p : CommitsAfter(l, p) = {}
  BY DEF CommitsAfter
<1>2. \A S : LastApplied(l, S) = None
  BY <1>1, LastAppliedNone DEF Applied
<1> QED BY <1>2 DEF ReplayedWrites, ReplayedSize, NoWrites

(***************************************************************************)
(* A log holds, of a transaction with an id, the update u: LoggedAsDone    *)
(* for any log.                                                            *)
(***************************************************************************)
WritesOf(l, id, o) == WritesTo(l, o) \intersect Uncommitted(l, id)
ResizesOf(l, id)   == Resizes(l) \intersect Uncommitted(l, id)

LoggedIn(l, id, u) ==
  /\ \A o \in Offs : u.writes[o] =
       IF WritesOf(l, id, o) = {} THEN None ELSE l[Latest(WritesOf(l, id, o))].val
  /\ u.size = IF ResizesOf(l, id) = {} THEN None ELSE l[Latest(ResizesOf(l, id))].arg

LEMMA LoggedIsLoggedIn ==
  ASSUME NEW t
  PROVE  LoggedAsDone(t) <=> LoggedIn(log[curSlot], txId[t], txUpd[t])
BY DEF LoggedAsDone, LoggedIn, WritesOf, ResizesOf

LEMMA OfBody ==
  ASSUME NEW l, NEW id
  PROVE  ResizesOf(l, id) \in SUBSET Body(l) /\ \A o : WritesOf(l, id, o) \in SUBSET Body(l)
BY DEF WritesOf, ResizesOf, WritesTo, Resizes

\* Nothing is logged of an id without records that are not committed.
LEMMA LoggedNothing ==
  ASSUME NEW l, NEW id, Uncommitted(l, id) = {}
  PROVE  LoggedIn(l, id, NoUpdate)
BY DEF LoggedIn, WritesOf, ResizesOf, NoUpdate, NoWrites

\* Two logs with the same records of a transaction.
LEMMA LoggedSame ==
  ASSUME NEW l, NEW m, HasEnd(l), HasEnd(m), NEW id, NEW u, LoggedIn(l, id, u),
         \A p \in Uncommitted(l, id) : m[p] = l[p],
         \A o \in Offs : WritesOf(m, id, o) = WritesOf(l, id, o),
         ResizesOf(m, id) = ResizesOf(l, id)
  PROVE  LoggedIn(m, id, u)
<1>1. \A o \in Offs : WritesOf(l, id, o) # {} =>
         m[Latest(WritesOf(l, id, o))] = l[Latest(WritesOf(l, id, o))]
  <2> SUFFICES ASSUME NEW o \in Offs, WritesOf(l, id, o) # {}
               PROVE  m[Latest(WritesOf(l, id, o))] = l[Latest(WritesOf(l, id, o))]
    OBVIOUS
  <2>1. Latest(WritesOf(l, id, o)) \in WritesOf(l, id, o)
    BY OfBody, LatestLast
  <2> QED BY <2>1 DEF WritesOf
<1>2. ResizesOf(l, id) # {} => m[Latest(ResizesOf(l, id))] = l[Latest(ResizesOf(l, id))]
  <2> SUFFICES ASSUME ResizesOf(l, id) # {} PROVE m[Latest(ResizesOf(l, id))] = l[Latest(ResizesOf(l, id))]
    OBVIOUS
  <2>1. Latest(ResizesOf(l, id)) \in ResizesOf(l, id)
    BY OfBody, LatestLast
  <2> QED BY <2>1 DEF ResizesOf
<1> QED BY <1>1, <1>2 DEF LoggedIn

-------------------------------------------------------------------------------
(***************************************************************************)
(* What happens to a log.                                                  *)
(***************************************************************************)

\* What follows the end marker of a log is not part of it.
LEMMA SameLog ==
  ASSUME NEW l, NEW m, HasEnd(l), \A p \in 1 .. EndPos(l) : m[p] = l[p]
  PROVE  /\ HasEnd(m) /\ EndPos(m) = EndPos(l) /\ Body(m) = Body(l)
         /\ \A p \in Body(l) : CommitsAfter(m, p) = CommitsAfter(l, p)
         /\ ReplayedWrites(m) = ReplayedWrites(l)
         /\ \A h : ReplayedSize(h, m) = ReplayedSize(h, l)
         /\ \A id : Uncommitted(m, id) = Uncommitted(l, id)
         /\ \A id, u : LoggedIn(l, id, u) => LoggedIn(m, id, u)
<1> DEFINE e == EndPos(l)
<1>1. e \in Cells /\ l[e].kind = "end" /\ \A q \in 1 .. e - 1 : l[q].kind # "end"
  BY EndPosFirst
<1>2. m[e] = l[e] /\ \A q \in 1 .. e - 1 : m[q] = l[q] /\ q \in 1 .. e
  BY <1>1 DEF Cells
<1>3. HasEnd(m) /\ EndPos(m) = e
  BY <1>1, <1>2, EndPosIs
<1>4. Body(m) = Body(l) /\ \A p \in Body(l) : m[p] = l[p]
  BY <1>2, <1>3 DEF Body
<1> HIDE DEF e
<1>5. \A p \in Body(l) : CommitsAfter(m, p) = CommitsAfter(l, p)
  BY <1>4 DEF CommitsAfter
<1>6. \A p \in Body(l) : CommitsAfter(l, p) # {} => CommitOf(m, p) = CommitOf(l, p)
  BY <1>3, <1>5, CommitOfSame
<1>7. Resizes(m) = Resizes(l) /\ \A o : WritesTo(m, o) = WritesTo(l, o)
  BY <1>4 DEF Resizes, WritesTo
<1>8. \A S \in SUBSET Body(l) : Applied(m, S) = Applied(l, S)
  BY <1>5 DEF Applied
<1>9. Resizes(l) \in SUBSET Body(l) /\ \A o : WritesTo(l, o) \in SUBSET Body(l)
  BY DEF Resizes, WritesTo
<1>10. Applied(m, Resizes(m)) = Applied(l, Resizes(l))
       /\ \A o : Applied(m, WritesTo(m, o)) = Applied(l, WritesTo(l, o))
  BY <1>7, <1>8, <1>9
<1>11. ReplayedWrites(m) = ReplayedWrites(l) /\ \A h : ReplayedSize(h, m) = ReplayedSize(h, l)
  BY <1>3, <1>4, <1>6, <1>10, ReplaySame
<1>12. \A id : Uncommitted(m, id) = Uncommitted(l, id)
  BY <1>4, <1>5 DEF Uncommitted
<1>13. ASSUME NEW id, NEW u, LoggedIn(l, id, u) PROVE LoggedIn(m, id, u)
  <2>1. \A p \in Uncommitted(l, id) : m[p] = l[p]
    BY <1>4 DEF Uncommitted
  <2>2. ResizesOf(m, id) = ResizesOf(l, id) /\ \A o : WritesOf(m, id, o) = WritesOf(l, id, o)
    BY <1>7, <1>12 DEF ResizesOf, WritesOf
  <2> QED BY <1>3, <1>13, <2>1, <2>2, LoggedSame
<1> QED BY <1>3, <1>4, <1>5, <1>11, <1>12, <1>13 DEF e

\* m is l with the record rec and an end marker after it.
Appended(l, m, rec) ==
  /\ HasEnd(l)
  /\ EndPos(l) + 1 \in Cells
  /\ m[EndPos(l)] = rec /\ m[EndPos(l) + 1].kind = "end"
  /\ \A p \in 1 .. EndPos(l) - 1 : m[p] = l[p]
  /\ rec.kind # "end"

LEMMA AppendedEnd ==
  ASSUME NEW l, NEW m, NEW rec, Appended(l, m, rec)
  PROVE  /\ HasEnd(m) /\ EndPos(m) = EndPos(l) + 1
         /\ Body(m) = Body(l) \union {EndPos(l)} /\ EndPos(l) \notin Body(l)
         /\ \A p \in Body(l) : m[p] = l[p] /\ p < EndPos(l)
         /\ EndPos(l) \in Cells /\ Body(l) \subseteq Int
<1> DEFINE e == EndPos(l)
<1>1. e \in Cells /\ \A q \in 1 .. e - 1 : l[q].kind # "end"
  BY EndPosFirst DEF Appended
<1>2. e \in Int /\ e >= 1 /\ (e + 1) - 1 = e
  BY <1>1, Constants DEF Cells
<1>3. HasEnd(m) /\ EndPos(m) = e + 1
  <2>1. e + 1 \in Cells /\ m[e + 1].kind = "end"
    BY DEF Appended
  <2>2. \A q \in 1 .. (e + 1) - 1 : m[q].kind # "end"
    BY <1>1, <1>2 DEF Appended
  <2> HIDE DEF e
  <2> QED BY <2>1, <2>2, EndPosIs
<1>4. Body(m) = 1 .. e /\ Body(l) = 1 .. e - 1
  BY <1>2, <1>3 DEF Body
<1> QED BY <1>1, <1>2, <1>3, <1>4 DEF Appended

\* A record that is no commit record is applied by nothing yet: the replay is
\* the same, and the log holds one record more of its transaction.
LEMMA AppendedRecord ==
  ASSUME NEW l, NEW m, NEW rec, Appended(l, m, rec), rec.kind # "commit"
  PROVE  /\ ReplayedWrites(m) = ReplayedWrites(l)
         /\ \A h : ReplayedSize(h, m) = ReplayedSize(h, l)
         /\ \A id : Uncommitted(m, id) =
              IF id = rec.id THEN Uncommitted(l, id) \union {EndPos(l)} ELSE Uncommitted(l, id)
<1> DEFINE e == EndPos(l)
<1>1. /\ HasEnd(m) /\ HasEnd(l) /\ Body(m) = Body(l) \union {e} /\ e \notin Body(l) /\ m[e] = rec
      /\ \A p \in Body(l) : m[p] = l[p] /\ p < e
      /\ e \in Int /\ Body(l) \subseteq Int
  BY AppendedEnd DEF Appended, Cells
<1> HIDE DEF e
<1>2. \A p \in Body(l) : CommitsAfter(m, p) = CommitsAfter(l, p)
  BY <1>1 DEF CommitsAfter
<1>3. CommitsAfter(m, e) = {}
  BY <1>1 DEF CommitsAfter
<1>4. \A p \in Body(l) : CommitsAfter(l, p) # {} => CommitOf(m, p) = CommitOf(l, p)
  BY <1>1, <1>2, CommitOfSame
<1>5. Applied(m, Resizes(m)) = Applied(l, Resizes(l))
      /\ \A o : Applied(m, WritesTo(m, o)) = Applied(l, WritesTo(l, o))
  BY <1>1, <1>2, <1>3 DEF Applied, Resizes, WritesTo
<1>6. ReplayedWrites(m) = ReplayedWrites(l) /\ \A h : ReplayedSize(h, m) = ReplayedSize(h, l)
  BY <1>1, <1>4, <1>5, ReplaySame
<1>7. ASSUME NEW id
      PROVE  Uncommitted(m, id) =
               IF id = rec.id THEN Uncommitted(l, id) \union {e} ELSE Uncommitted(l, id)
  BY <1>1, <1>2, <1>3 DEF Uncommitted
<1> QED BY <1>6, <1>7 DEF e

\* The records of another transaction are what they were.
LEMMA AppendedOther ==
  ASSUME NEW l, NEW m, NEW rec, Appended(l, m, rec),
         NEW id, Uncommitted(m, id) = Uncommitted(l, id), NEW u, LoggedIn(l, id, u)
  PROVE  LoggedIn(m, id, u)
<1> DEFINE e == EndPos(l)
<1>1. /\ HasEnd(m) /\ HasEnd(l) /\ Body(m) = Body(l) \union {e} /\ e \notin Body(l)
      /\ \A p \in Body(l) : m[p] = l[p] /\ p < e
  BY AppendedEnd DEF Appended, Cells
<1> HIDE DEF e
<1>2. Uncommitted(l, id) \subseteq Body(l) /\ Uncommitted(m, id) = Uncommitted(l, id)
  BY DEF Uncommitted
<1>3. ResizesOf(m, id) = ResizesOf(l, id) /\ \A o : WritesOf(m, id, o) = WritesOf(l, id, o)
  BY <1>1, <1>2 DEF ResizesOf, WritesOf, Resizes, WritesTo
<1> QED BY <1>1, <1>2, <1>3, LoggedSame

\* The record of a write or of a resize adds to what its transaction did.
LEMMA AppendedOwn ==
  ASSUME NEW l, NEW m, NEW rec, Appended(l, m, rec), rec.kind \in {"write", "resize"},
         rec.kind = "write" => rec.arg \in Offs,
         NEW u \in Updates, LoggedIn(l, rec.id, u)
  PROVE  LoggedIn(m, rec.id, Performed(u, rec))
<1> DEFINE e == EndPos(l)
           id == rec.id
<1>1. /\ HasEnd(m) /\ HasEnd(l) /\ Body(m) = Body(l) \union {e} /\ e \notin Body(l) /\ m[e] = rec
      /\ \A p \in Body(l) : m[p] = l[p] /\ p < e
      /\ e \in Int /\ Body(l) \subseteq Int
  BY AppendedEnd DEF Appended, Cells
<1>2. Uncommitted(m, id) = Uncommitted(l, id) \union {e} /\ Uncommitted(l, id) \subseteq Body(l)
  BY AppendedRecord DEF Uncommitted
<1> HIDE DEF e
<1>3. \A o \in Offs : WritesOf(m, id, o) =
         IF rec.kind = "write" /\ rec.arg = o THEN WritesOf(l, id, o) \union {e} ELSE WritesOf(l, id, o)
  BY <1>1, <1>2 DEF WritesOf, WritesTo
<1>4. ResizesOf(m, id) = IF rec.kind = "resize" THEN ResizesOf(l, id) \union {e} ELSE ResizesOf(l, id)
  BY <1>1, <1>2 DEF ResizesOf, Resizes
<1>5. ASSUME NEW S \in SUBSET Body(l) PROVE Latest(S \union {e}) = e
  <2>1. S \union {e} \in SUBSET Int /\ \A q \in S \union {e} : q <= e
    BY <1>1
  <2> QED BY <2>1, LatestIs
<1>6. ASSUME NEW S \in SUBSET Body(l), S # {} PROVE m[Latest(S)] = l[Latest(S)]
  BY <1>1, <1>6, LatestLast
<1>7. ResizesOf(l, id) \in SUBSET Body(l) /\ \A o : WritesOf(l, id, o) \in SUBSET Body(l)
  BY OfBody
<1>8. CASE rec.kind = "write"
  <2>1. Performed(u, rec) = [u EXCEPT !.writes[rec.arg] = rec.val]
    BY <1>8 DEF Performed
  <2>2. Performed(u, rec).size = u.size
        /\ \A o \in Offs : Performed(u, rec).writes[o] = IF o = rec.arg THEN rec.val ELSE u.writes[o]
    BY <2>1, <1>8 DEF Updates
  <2>3. ASSUME NEW o \in Offs
        PROVE  Performed(u, rec).writes[o] =
                 IF WritesOf(m, id, o) = {} THEN None ELSE m[Latest(WritesOf(m, id, o))].val
    <3>1. CASE o = rec.arg
      <4>1. WritesOf(m, id, o) = WritesOf(l, id, o) \union {e}
        BY <1>3, <1>8, <3>1
      <4>2. Latest(WritesOf(m, id, o)) = e
        BY <4>1, <1>5, <1>7
      <4> QED BY <4>1, <4>2, <2>2, <3>1, <1>1
    <3>2. CASE o # rec.arg
      <4>1. WritesOf(m, id, o) = WritesOf(l, id, o)
        BY <1>3, <1>8, <3>2
      <4> QED BY <4>1, <2>2, <3>2, <1>6, <1>7 DEF LoggedIn
    <3> QED BY <3>1, <3>2
  <2>4. Performed(u, rec).size = IF ResizesOf(m, id) = {} THEN None ELSE m[Latest(ResizesOf(m, id))].arg
    <3>1. ResizesOf(m, id) = ResizesOf(l, id)
      BY <1>4, <1>8
    <3> QED BY <3>1, <2>2, <1>6, <1>7 DEF LoggedIn
  <2> QED BY <2>3, <2>4 DEF LoggedIn
<1>9. CASE rec.kind = "resize"
  <2>1. Performed(u, rec) = [u EXCEPT !.size = rec.arg]
    BY <1>9 DEF Performed
  <2>2. Performed(u, rec).size = rec.arg /\ Performed(u, rec).writes = u.writes
    BY <2>1 DEF Updates
  <2>3. ASSUME NEW o \in Offs
        PROVE  Performed(u, rec).writes[o] =
                 IF WritesOf(m, id, o) = {} THEN None ELSE m[Latest(WritesOf(m, id, o))].val
    <3>1. WritesOf(m, id, o) = WritesOf(l, id, o)
      BY <1>3, <1>9
    <3> QED BY <3>1, <2>2, <1>6, <1>7 DEF LoggedIn
  <2>4. Performed(u, rec).size = IF ResizesOf(m, id) = {} THEN None ELSE m[Latest(ResizesOf(m, id))].arg
    <3>1. ResizesOf(m, id) = ResizesOf(l, id) \union {e}
      BY <1>4, <1>9
    <3>2. Latest(ResizesOf(m, id)) = e
      BY <3>1, <1>5, <1>7
    <3> QED BY <3>1, <3>2, <2>2, <1>1
  <2> QED BY <2>3, <2>4 DEF LoggedIn
<1> QED BY <1>8, <1>9

\* A commit record applies what its transaction did, on top of what was
\* applied before.
LEMMA AppendedCommit ==
  ASSUME NEW l \in [Cells -> Records], NEW m, NEW rec, Appended(l, m, rec), rec.kind = "commit",
         NEW u, LoggedIn(l, rec.id, u)
  PROVE  /\ ReplayedWrites(m) = Overlay(ReplayedWrites(l), u.writes)
         /\ \A h : ReplayedSize(h, m) = IF u.size = None THEN ReplayedSize(h, l) ELSE u.size
         /\ \A id : Uncommitted(m, id) = IF id = rec.id THEN {} ELSE Uncommitted(l, id)
<1> DEFINE e == EndPos(l)
           U == Uncommitted(l, rec.id)
<1>1. /\ HasEnd(m) /\ HasEnd(l) /\ Body(m) = Body(l) \union {e} /\ e \notin Body(l) /\ m[e] = rec
      /\ \A p \in Body(l) : m[p] = l[p] /\ p < e
      /\ e \in Int /\ Body(l) \subseteq Int
  <2>1. HasEnd(l) /\ m[e] = rec
    BY DEF Appended
  <2>2. Cells \subseteq Int
    BY DEF Cells
  <2> QED BY <2>1, <2>2, AppendedEnd
<1>2. U \subseteq Body(l) /\ \A p \in U : l[p].id = rec.id /\ l[p].kind # "commit" /\ CommitsAfter(l, p) = {}
  BY DEF Uncommitted
<1> HIDE DEF e
<1>3. \A p \in Body(l) : CommitsAfter(m, p) =
        IF l[p].id = rec.id THEN CommitsAfter(l, p) \union {e} ELSE CommitsAfter(l, p)
  BY <1>1 DEF CommitsAfter
<1>4. CommitsAfter(m, e) = {}
  BY <1>1 DEF CommitsAfter
<1>5. ASSUME NEW p \in Body(l), CommitsAfter(l, p) # {}
      PROVE  CommitOf(m, p) = CommitOf(l, p) /\ CommitOf(l, p) < e
  <2>1. CommitOf(l, p) \in CommitsAfter(l, p) /\ \A r \in CommitsAfter(l, p) : CommitOf(l, p) <= r
    BY <1>1, <1>5, CommitOfLeast
  <2>2. CommitOf(l, p) \in CommitsAfter(m, p) /\ CommitOf(l, p) < e
    BY <1>1, <1>3, <2>1 DEF CommitsAfter
  <2>3. \A r \in CommitsAfter(m, p) : CommitOf(l, p) <= r
    BY <1>1, <1>3, <2>1, <2>2 DEF CommitsAfter
  <2> QED BY <1>1, <2>2, <2>3, CommitOfIs
<1>6. ASSUME NEW p \in U
      PROVE  CommitsAfter(m, p) = {e} /\ CommitOf(m, p) = e
  <2>1. CommitsAfter(m, p) = {e}
    BY <1>2, <1>3
  <2> QED BY <1>1, <2>1, CommitOfIs
<1>7. ASSUME NEW S \in SUBSET Body(l), \A p \in S : l[p].kind # "commit"
      PROVE  Applied(m, S) = Applied(l, S) \union (S \intersect U)
  BY <1>1, <1>3, <1>7 DEF Applied, Uncommitted
<1>8. ASSUME NEW S \in SUBSET Body(l), \A p \in S : l[p].kind # "commit"
      PROVE  LastApplied(m, S) = IF S \intersect U = {} THEN LastApplied(l, S) ELSE Latest(S \intersect U)
  <2>1. S \in SUBSET Body(m)
    BY <1>1
  <2>2. CASE S \intersect U = {}
    <3>1. Applied(m, S) = Applied(l, S)
      BY <1>7, <1>8, <2>2
    <3>2. \A p \in Applied(l, S) : CommitOf(m, p) = CommitOf(l, p)
      BY <1>5 DEF Applied
    <3> QED BY <1>1, <2>1, <2>2, <3>1, <3>2, LastAppliedSame
  <2>3. CASE S \intersect U # {}
    <3> DEFINE p == Latest(S \intersect U)
    <3>1. p \in S \intersect U /\ \A q \in S \intersect U : q <= p
      BY <1>1, <2>3, LatestLast
    <3> HIDE DEF p
    <3>2. p \in Applied(m, S) /\ CommitOf(m, p) = e
      BY <1>6, <1>7, <1>8, <3>1
    <3>3. \A q \in Applied(m, S) : AppliedAfter(m, p, q)
      BY <1>1, <1>5, <1>6, <1>7, <1>8, <3>1, <3>2 DEF AppliedAfter, Applied
    <3>4. LastApplied(m, S) = p
      BY <1>1, <2>1, <3>2, <3>3, LastAppliedIs
    <3> QED BY <3>4, <2>3 DEF p
  <2> QED BY <2>2, <2>3
<1>9. /\ \A o : WritesTo(m, o) = WritesTo(l, o) /\ WritesTo(l, o) \in SUBSET Body(l)
               /\ \A p \in WritesTo(l, o) : l[p].kind # "commit"
      /\ Resizes(m) = Resizes(l) /\ Resizes(l) \in SUBSET Body(l)
      /\ \A p \in Resizes(l) : l[p].kind # "commit"
  BY <1>1 DEF WritesTo, Resizes
<1>10. ASSUME NEW S \in SUBSET Body(l), LastApplied(l, S) # None
       PROVE  m[LastApplied(l, S)] = l[LastApplied(l, S)]
  BY <1>1, <1>10, LastAppliedMember
<1>11. ASSUME NEW S \in SUBSET Body(l), S # {}
       PROVE  m[Latest(S)] = l[Latest(S)] /\ Latest(S) # None /\ Latest(S) \in Cells
  <2>1. Latest(S) \in S
    BY <1>1, <1>11, LatestLast
  <2> QED BY <1>1, <2>1, BodyCells, Constants DEF Cells
<1>12. ReplayedWrites(m) = Overlay(ReplayedWrites(l), u.writes)
  <2>1. ASSUME NEW o \in Offs
        PROVE  ReplayedWrites(m)[o] = IF u.writes[o] # None THEN u.writes[o] ELSE ReplayedWrites(l)[o]
    <3> DEFINE S == WritesTo(l, o)
    <3>1. S \in SUBSET Body(l) /\ WritesTo(m, o) = S /\ \A p \in S : l[p].kind # "commit"
      BY <1>9
    <3>2. WritesOf(l, rec.id, o) = S \intersect U
      BY DEF WritesOf
    <3>3. /\ ReplayedWrites(m)[o] = IF LastApplied(m, S) = None THEN None ELSE m[LastApplied(m, S)].val
          /\ ReplayedWrites(l)[o] = IF LastApplied(l, S) = None THEN None ELSE l[LastApplied(l, S)].val
      BY <3>1 DEF ReplayedWrites
    <3>4. u.writes[o] = IF S \intersect U = {} THEN None ELSE l[Latest(S \intersect U)].val
      BY <3>2 DEF LoggedIn
    <3> HIDE DEF S
    <3>5. CASE S \intersect U = {}
      BY <1>8, <1>10, <3>1, <3>3, <3>4, <3>5
    <3>6. CASE S \intersect U # {}
      <4>1. LastApplied(m, S) = Latest(S \intersect U)
        BY <1>8, <3>1, <3>6
      <4>2. LastApplied(m, S) # None /\ m[LastApplied(m, S)] = l[Latest(S \intersect U)]
            /\ Latest(S \intersect U) \in Cells
        BY <1>11, <3>1, <3>6, <4>1
      <4>3. l[Latest(S \intersect U)].val # None
        BY <4>2, Constants DEF Records, Bytes
      <4> QED BY <3>3, <3>4, <3>6, <4>2, <4>3
    <3> QED BY <3>5, <3>6
  <2>2. ReplayedWrites(m) = [o \in Offs |-> IF u.writes[o] # None THEN u.writes[o] ELSE ReplayedWrites(l)[o]]
    <3>1. ReplayedWrites(m) = [o \in Offs |-> ReplayedWrites(m)[o]]
      BY DEF ReplayedWrites
    <3> QED BY <2>1, <3>1, Zenon
  <2> QED BY <2>2 DEF Overlay
<1>13. ASSUME NEW h
       PROVE  ReplayedSize(h, m) = IF u.size = None THEN ReplayedSize(h, l) ELSE u.size
  <2> DEFINE S == Resizes(l)
  <2>1. S \in SUBSET Body(l) /\ Resizes(m) = S /\ \A p \in S : l[p].kind # "commit"
    BY <1>9
  <2>2. ResizesOf(l, rec.id) = S \intersect U
    BY DEF ResizesOf
  <2>3. /\ ReplayedSize(h, m) = IF LastApplied(m, S) = None THEN h.size ELSE m[LastApplied(m, S)].arg
        /\ ReplayedSize(h, l) = IF LastApplied(l, S) = None THEN h.size ELSE l[LastApplied(l, S)].arg
    BY <2>1 DEF ReplayedSize
  <2>4. u.size = IF S \intersect U = {} THEN None ELSE l[Latest(S \intersect U)].arg
    BY <2>2 DEF LoggedIn
  <2> HIDE DEF S
  <2>5. CASE S \intersect U = {}
    BY <1>8, <1>10, <2>1, <2>3, <2>4, <2>5
  <2>6. CASE S \intersect U # {}
    <3>1. LastApplied(m, S) = Latest(S \intersect U)
      BY <1>8, <2>1, <2>6
    <3>2. LastApplied(m, S) # None /\ m[LastApplied(m, S)] = l[Latest(S \intersect U)]
          /\ Latest(S \intersect U) \in Cells
      BY <1>11, <2>1, <2>6, <3>1
    <3>3. l[Latest(S \intersect U)].arg # None
      BY <3>2, Constants DEF Records
    <3> QED BY <2>3, <2>4, <2>6, <3>2, <3>3
  <2> QED BY <2>5, <2>6
<1>14. ASSUME NEW id
       PROVE  Uncommitted(m, id) = IF id = rec.id THEN {} ELSE Uncommitted(l, id)
  BY <1>1, <1>3 DEF Uncommitted
<1> QED BY <1>12, <1>13, <1>14

(***************************************************************************)
(* The slot that compact_ writes holds the records it keeps, in their      *)
(* order: Rank is where a record goes.                                     *)
(***************************************************************************)
Rank(K, k) == Cardinality({j \in K : j <= k})

LEMMA RankOrder ==
  ASSUME NEW n \in Nat, NEW K \in SUBSET (1 .. n)
  PROVE  /\ IsFiniteSet(K) /\ Cardinality(K) \in 0 .. n
         /\ \A k \in K : Rank(K, k) \in 1 .. Cardinality(K)
         /\ \A k, j \in K : k < j => Rank(K, k) < Rank(K, j)
         /\ \A p \in 1 .. Cardinality(K) : \E k \in K : Rank(K, k) = p
<1>0. K \subseteq Int
  OBVIOUS
<1>1. IsFiniteSet(1 .. n) /\ Cardinality(1 .. n) = n
  BY FS_Interval
<1>2. IsFiniteSet(K) /\ Cardinality(K) \in Nat /\ Cardinality(K) <= n
  BY <1>1, FS_Subset, FS_CardinalityType
<1>3. ASSUME NEW k \in K
      PROVE  Rank(K, k) \in Nat /\ 1 <= Rank(K, k) /\ Rank(K, k) <= Cardinality(K)
  <2> DEFINE S == {j \in K : j <= k}
  <2>1. S \in SUBSET K /\ k \in S
    OBVIOUS
  <2>2. IsFiniteSet(S) /\ Cardinality(S) <= Cardinality(K) /\ Cardinality(S) \in Nat
    BY <1>2, <2>1, FS_Subset, FS_CardinalityType
  <2>3. Cardinality(S) # 0
    BY <2>1, <2>2, FS_EmptySet
  <2> QED BY <2>2, <2>3 DEF Rank
<1>4. ASSUME NEW k \in K, NEW j \in K, k < j PROVE Rank(K, k) < Rank(K, j)
  <2> DEFINE S == {i \in K : i <= k}
             T == {i \in K : i <= j}
  <2>0. k \in Int /\ j \in Int /\ k < j
    BY <1>0, <1>4
  <2>1. S \in SUBSET T /\ j \in T /\ j \notin S
    <3>1. \A i \in K : i <= k => i <= j
      BY <1>0, <2>0
    <3>2. S \in SUBSET T
      BY <3>1
    <3>3. j \in T /\ j \notin S
      BY <2>0
    <3> QED BY <3>2, <3>3
  <2>2. IsFiniteSet(T) /\ Rank(K, k) \in Nat /\ Rank(K, j) \in Nat
    BY <1>2, <1>3, FS_Subset
  <2>3. Cardinality(S) <= Cardinality(T) /\ Cardinality(S) # Cardinality(T)
    BY <2>1, <2>2, FS_Subset
  <2> QED BY <2>2, <2>3 DEF Rank
<1> DEFINE c == Cardinality(K)
           f == [k \in K |-> Rank(K, k)]
<1>5. \A k, j \in K : Rank(K, k) = Rank(K, j) => k = j
  <2> SUFFICES ASSUME NEW k \in K, NEW j \in K, k # j PROVE Rank(K, k) # Rank(K, j)
    OBVIOUS
  <2>1. k < j \/ j < k
    BY <1>0
  <2>2. Rank(K, k) \in Int /\ Rank(K, j) \in Int
    BY <1>3
  <2>3. Rank(K, k) < Rank(K, j) \/ Rank(K, j) < Rank(K, k)
    BY <1>4, <2>1
  <2> QED BY <2>2, <2>3
<1>6. f \in Injection(K, 1 .. c)
  <2>1. f \in [K -> 1 .. c]
    <3>1. \A k \in K : Rank(K, k) \in 1 .. c
      BY <1>2, <1>3
    <3> HIDE DEF c
    <3> QED BY <3>1
  <2>2. \A k, j \in K : f[k] = f[j] => k = j
    BY <1>5
  <2> HIDE DEF f
  <2> QED BY <2>1, <2>2 DEF Injection, IsInjective
<1>7. IsFiniteSet(1 .. c) /\ Cardinality(1 .. c) = c
  <2> HIDE DEF c
  <2>1. c \in Nat
    BY <1>2 DEF c
  <2> QED BY <2>1, FS_Interval
<1>8. f \in Surjection(K, 1 .. c)
  <2>1. Cardinality(K) = Cardinality(1 .. c)
    BY <1>7
  <2> HIDE DEF f, c
  <2> QED BY <1>6, <1>7, <2>1, FS_Injection
<1>9. \A p \in 1 .. c : \E k \in K : Rank(K, k) = p
  <2>1. \A p \in 1 .. c : \E k \in K : f[k] = p
    <3> HIDE DEF f, c
    <3> QED BY <1>8 DEF Surjection
  <2> QED BY <2>1
<1> QED BY <1>2, <1>3, <1>4, <1>9

LEMMA CopiedRecords ==
  ASSUME NEW l, HasEnd(l), NEW K \in SUBSET Body(l), NEW old,
         NEW m, m = Copied(l, K, old), NEW n, n = Cardinality(K)
  PROVE  /\ n \in Nat /\ HasEnd(m) /\ EndPos(m) = n + 1 /\ Body(m) = 1 .. n
         /\ \A k \in K : Rank(K, k) \in 1 .. n /\ m[Rank(K, k)] = l[k]
         /\ \A k, j \in K : k < j => Rank(K, k) < Rank(K, j)
         /\ \A p \in 1 .. n : \E k \in K : Rank(K, k) = p
<1> DEFINE e == EndPos(l)
<1>1. e \in Cells /\ e - 1 \in Nat /\ K \in SUBSET (1 .. e - 1) /\ Body(l) = 1 .. e - 1
  BY EndPosFirst, Constants DEF Body, Cells
<1>2. /\ n \in 0 .. e - 1 /\ \A k \in K : Rank(K, k) \in 1 .. n
      /\ \A k, j \in K : k < j => Rank(K, k) < Rank(K, j)
      /\ \A p \in 1 .. n : \E k \in K : Rank(K, k) = p
  <2> HIDE DEF e
  <2> QED BY <1>1, RankOrder
<1>3. n \in Nat /\ n + 1 \in Cells /\ 1 .. n \subseteq Cells
  BY <1>1, <1>2, Constants DEF Cells
<1>4. \A k, j \in K : Rank(K, k) = Rank(K, j) => k = j
  <2> SUFFICES ASSUME NEW k \in K, NEW j \in K, k # j PROVE Rank(K, k) # Rank(K, j)
    OBVIOUS
  <2>1. (k < j \/ j < k) /\ Rank(K, k) \in Int /\ Rank(K, j) \in Int
    BY <1>1, <1>2
  <2> QED BY <2>1, <1>2
<1> DEFINE From(p) == {k \in K : Rank(K, k) = p}
<1>5. m = [p \in Cells |-> IF From(p) # {} THEN l[CHOOSE k \in From(p) : TRUE]
                            ELSE IF p = n + 1 THEN End ELSE old[p]]
  BY DEF Copied, Rank
<1>6. ASSUME NEW k \in K PROVE m[Rank(K, k)] = l[k]
  <2>1. From(Rank(K, k)) = {k}
    BY <1>4
  <2>2. (CHOOSE j \in {k} : TRUE) = k
    OBVIOUS
  <2> HIDE DEF From
  <2> QED BY <1>2, <1>3, <1>5, <2>1, <2>2
<1>7. m[n + 1] = End
  <2>1. From(n + 1) = {}
    BY <1>2, <1>3
  <2> HIDE DEF From
  <2> QED BY <1>3, <1>5, <2>1
<1>8. \A p \in 1 .. n : m[p].kind # "end"
  <2> SUFFICES ASSUME NEW p \in 1 .. n PROVE m[p].kind # "end"
    OBVIOUS
  <2>1. PICK k \in K : Rank(K, k) = p
    BY <1>2
  <2>2. m[p] = l[k] /\ k \in Body(l)
    BY <1>6, <2>1
  <2> QED BY <2>2, BodyCells
<1> HIDE DEF e
<1>9. HasEnd(m) /\ EndPos(m) = n + 1
  <2>1. m[n + 1].kind = "end" /\ (n + 1) - 1 = n
    BY <1>3, <1>7, RecordTypes
  <2> QED BY <1>3, <1>8, <2>1, EndPosIs
<1>10. Body(m) = 1 .. n
  BY <1>3, <1>9 DEF Body
<1> QED BY <1>2, <1>3, <1>6, <1>9, <1>10

\* Where no id in A was committed, the copy of A's records has no commit
\* record, and holds of each transaction with one of these ids what the log did.
LEMMA CopiedLog ==
  ASSUME NEW l, HasEnd(l), NEW A, NEW old,
         NEW K \in SUBSET Body(l), \A p \in Body(l) : p \in K <=> l[p].id \in A,
         \A p \in Body(l) : l[p].kind = "commit" => l[p].id \notin A
  PROVE  /\ HasEnd(Copied(l, K, old))
         /\ \A p \in Body(Copied(l, K, old)) :
              Copied(l, K, old)[p].kind # "commit" /\ Copied(l, K, old)[p].id \in A
         /\ \A id \in A : \A u : LoggedIn(l, id, u) => LoggedIn(Copied(l, K, old), id, u)
<1> DEFINE m == Copied(l, K, old)
           n == Cardinality(K)
           r(k) == Rank(K, k)
<1>0. K \in SUBSET Body(l) /\ \A p \in K : l[p].kind # "commit" /\ l[p].id \in A
  OBVIOUS
<1>1. /\ n \in Nat /\ HasEnd(m) /\ EndPos(m) = n + 1 /\ Body(m) = 1 .. n
      /\ \A k \in K : r(k) \in 1 .. n /\ m[r(k)] = l[k]
      /\ \A k, j \in K : k < j => r(k) < r(j)
      /\ \A p \in 1 .. n : \E k \in K : r(k) = p
  <2>1. K \in SUBSET Body(l) /\ m = Copied(l, K, old) /\ n = Cardinality(K)
    BY <1>0
  <2> HIDE DEF m, n
  <2>2. /\ n \in Nat /\ HasEnd(m) /\ EndPos(m) = n + 1 /\ Body(m) = 1 .. n
        /\ \A k \in K : Rank(K, k) \in 1 .. n /\ m[Rank(K, k)] = l[k]
        /\ \A k, j \in K : k < j => Rank(K, k) < Rank(K, j)
        /\ \A p \in 1 .. n : \E k \in K : Rank(K, k) = p
    <3> HIDE DEF r
    <3> QED BY <2>1, CopiedRecords
  <2> QED BY <2>2
<1> HIDE DEF m, n, r
<1>2. \A p \in Body(m) : \E k \in K : r(k) = p /\ m[p] = l[k]
  BY <1>1
<1>3. \A p \in Body(m) : m[p].kind # "commit" /\ m[p].id \in A
  BY <1>0, <1>2
<1>4. \A p \in K : CommitsAfter(l, p) = {}
  BY <1>0 DEF CommitsAfter
<1>5. \A p : CommitsAfter(m, p) = {}
  BY <1>3 DEF CommitsAfter
<1>6. ASSUME NEW id \in A, NEW u, LoggedIn(l, id, u) PROVE LoggedIn(m, id, u)
  <2>1. \A p : p \in Uncommitted(l, id) <=> p \in K /\ l[p].id = id
    BY <1>4 DEF Uncommitted, CommitsAfter
  <2>2. \A k \in K : r(k) \in Uncommitted(m, id) <=> k \in Uncommitted(l, id)
    BY <1>0, <1>1, <1>5, <2>1 DEF Uncommitted
  <2>3. Uncommitted(m, id) \subseteq Body(m) /\ Uncommitted(l, id) \subseteq K
    BY <2>1 DEF Uncommitted
  <2>4. ASSUME NEW S \in SUBSET K, NEW T \in SUBSET Body(m), \A k \in K : r(k) \in T <=> k \in S
        PROVE  (T = {} <=> S = {}) /\ (S # {} => m[Latest(T)] = l[Latest(S)])
    <3>1. T = {} <=> S = {}
      BY <1>1, <2>4
    <3>2. ASSUME S # {} PROVE m[Latest(T)] = l[Latest(S)]
      <4> DEFINE k == Latest(S)
      <4>1. k \in S /\ \A j \in S : j <= k
        BY <1>0, <3>2, LatestLast
      <4> HIDE DEF k
      <4>2. r(k) \in T /\ T \in SUBSET Int /\ k \in Int /\ K \subseteq Int
        BY <1>0, <1>1, <2>4, <4>1, BodyCells
      <4>3. ASSUME NEW q \in T PROVE q <= r(k)
        <5>1. PICK j \in K : r(j) = q
          BY <1>1
        <5>2. j \in S
          BY <2>4, <5>1
        <5>3. j < k \/ j = k
          BY <4>1, <4>2, <5>2
        <5> QED BY <1>1, <4>1, <4>2, <5>1, <5>3
      <4>4. Latest(T) = r(k)
        BY <4>2, <4>3, LatestIs
      <4>5. m[r(k)] = l[k]
        BY <1>1, <4>1
      <4> QED BY <4>4, <4>5 DEF k
    <3> QED BY <3>1, <3>2
  <2>5. ASSUME NEW o \in Offs
        PROVE  /\ WritesOf(l, id, o) \in SUBSET K /\ WritesOf(m, id, o) \in SUBSET Body(m)
               /\ \A k \in K : r(k) \in WritesOf(m, id, o) <=> k \in WritesOf(l, id, o)
    BY <1>0, <1>1, <2>2, <2>3 DEF WritesOf, WritesTo
  <2>6. /\ ResizesOf(l, id) \in SUBSET K /\ ResizesOf(m, id) \in SUBSET Body(m)
        /\ \A k \in K : r(k) \in ResizesOf(m, id) <=> k \in ResizesOf(l, id)
    BY <1>0, <1>1, <2>2, <2>3 DEF ResizesOf, Resizes
  <2>7. \A o \in Offs : /\ WritesOf(m, id, o) = {} <=> WritesOf(l, id, o) = {}
                        /\ WritesOf(l, id, o) # {} =>
                             m[Latest(WritesOf(m, id, o))] = l[Latest(WritesOf(l, id, o))]
    BY <2>4, <2>5
  <2>8. /\ ResizesOf(m, id) = {} <=> ResizesOf(l, id) = {}
        /\ ResizesOf(l, id) # {} => m[Latest(ResizesOf(m, id))] = l[Latest(ResizesOf(l, id))]
    BY <2>4, <2>6
  <2>9. \A o \in Offs : u.writes[o] =
          IF WritesOf(m, id, o) = {} THEN None ELSE m[Latest(WritesOf(m, id, o))].val
    BY <1>6, <2>7 DEF LoggedIn
  <2>10. u.size = IF ResizesOf(m, id) = {} THEN None ELSE m[Latest(ResizesOf(m, id))].arg
    BY <1>6, <2>8 DEF LoggedIn
  <2> QED BY <2>9, <2>10 DEF LoggedIn
<1> QED BY <1>1, <1>3, <1>6 DEF m

-------------------------------------------------------------------------------
(***************************************************************************)
(* The log and the transactions.  LogMatchesTx is not inductive: that an   *)
(* id's records are all of the transaction that has it needs that no       *)
(* record is of an id that may be given out again, and that compact_'s     *)
(* copy, made some steps before the log moves to it, is still of the       *)
(* transactions in progress by then.                                       *)
(***************************************************************************)
Cur  == log[curSlot]
Made == log[Other(curSlot)]

\* The call in progress is about a transaction with an id, and its record too.
CallInv ==
  /\ op.kind \in {"append", "commit"} => txId[op.tx] # None /\ op.rec.id = txId[op.tx]
  /\ op.kind = "commit" => op.rec.kind = "commit"

\* A transaction without an id did nothing.
TxInv == /\ \A t \in Txs : txId[t] = None => txUpd[t] = NoUpdate
         /\ \A t \in fresh : txId[t] = None

\* slot_off_ is where the log ends; a commit record is written before it moves.
EndInv ==
  Up => IF op.pc = "sync" THEN Cur[slotOff] = op.rec /\ EndPos(Cur) = slotOff + 1
                          ELSE EndPos(Cur) = slotOff

\* The log holds what the transactions in progress did.
LoggedInv ==
  Up => \A t \in Txs : txId[t] # None /\ ~(op.pc = "sync" /\ op.tx = t) =>
          LoggedIn(Cur, txId[t], txUpd[t])

\* The log is of ids that are taken; one that was committed is not in progress.
UsedInv ==
  Up /\ op.pc # "install" =>
    \A p \in Body(Cur) :
      /\ Cur[p].id < idLen /\ Cur[p].id \notin avail
      /\ Cur[p].kind = "commit" /\ Cur[p].id \in active => op.pc = "sync" /\ p = slotOff

\* An id that is not in progress has no records left that a commit would apply.
OldInv ==
  Up /\ MultiThreaded => \A id \in Ids \ active : Uncommitted(Cur, id) = {}

\* The slot that compact_ made is of transactions in progress, and holds what
\* they did.
MadeInv ==
  SlotMade =>
    /\ \A p \in Body(Made) : Made[p].kind # "commit" /\ Made[p].id \in active
    /\ \A t \in Txs : txId[t] # None => LoggedIn(Made, txId[t], txUpd[t])

\* tx_id_completed_count_ counts the ids that a compaction would free.
Freeable == (0 .. idLen - 1) \ (active \union avail)
CountInv ==
  IF op.pc = "install" THEN Freeable = {} ELSE completed = Cardinality(Freeable)

\* A region that is not open has no transactions; one that is about to open
\* has an empty log.
ReopenInv ==
  /\ ~Up => /\ idLen = 0 /\ active = {} /\ avail = {} /\ completed = 0
            /\ \A t \in Txs : txId[t] = None
  /\ op.kind = "reopen" /\ op.pc \in {"end", "done"} => slotOff = 1
  /\ At({"reopen"}, "done") => Cur[1] = End

LogInv == /\ CallInv /\ TxInv /\ EndInv /\ LoggedInv /\ UsedInv
          /\ OldInv /\ MadeInv /\ CountInv /\ ReopenInv

\* No ids: nothing to free.
LEMMA NothingFreeable ==
  ASSUME idLen = 0
  PROVE  Freeable = {} /\ Cardinality(Freeable) = 0
<1>1. Freeable = {}
  BY DEF Freeable
<1> QED BY <1>1, FS_EmptySet

\* The types that the steps below need.
LEMMA LogTypes ==
  ASSUME TypeInv
  PROVE  /\ curSlot \in Slots /\ Other(curSlot) \in Slots /\ Other(curSlot) # curSlot
         /\ Cur \in [Cells -> Records] /\ Made \in [Cells -> Records]
         /\ slotOff \in Cells
         /\ (Up => HasEnd(Cur)) /\ (SlotMade => HasEnd(Made))
BY Constants DEF TypeInv, TypeOK, SlotsEnd, Cur, Made

LEMMA LogInvInit == Init => LogInv
<1> SUFFICES ASSUME Init PROVE LogInv
  OBVIOUS
<1> USE Constants
<1>1. /\ op.kind = "idle" /\ op.pc = "idle" /\ Up /\ ~SlotMade
      /\ idLen = 0 /\ active = {} /\ avail = {} /\ completed = 0
      /\ curSlot = 0 /\ slotOff = 1
      /\ \A t \in Txs : txId[t] = None /\ txUpd[t] = NoUpdate
      /\ fresh = Txs
  BY DEF Init, NewFile, NoIds, Idle, Call, Up, SlotMade, CompactPCs
<1>2. Cur[1].kind = "end" /\ 1 \in Cells
  BY <1>1, RecordTypes DEF Cur, Init, NewFile, NewSegment
<1>3. EndPos(Cur) = 1 /\ HasEnd(Cur)
  BY <1>2, EndPosIs
<1>4. Body(Cur) = {}
  BY <1>3 DEF Body
<1>5. \A id : Uncommitted(Cur, id) = {}
  BY <1>4 DEF Uncommitted
<1>6. CountInv
  BY <1>1, NothingFreeable DEF CountInv
<1>7. CallInv /\ TxInv /\ EndInv /\ LoggedInv /\ UsedInv /\ OldInv /\ MadeInv /\ ReopenInv
  BY <1>1, <1>3, <1>4, <1>5 DEF CallInv, TxInv, EndInv, LoggedInv, UsedInv, OldInv, MadeInv, ReopenInv, At
<1> QED BY <1>6, <1>7 DEF LogInv

\* The steps that leave the log, the ids and the transactions alone.
LEMMA LogInvQuiet ==
  ASSUME LogInv, UNCHANGED <<log, posVars, allocVars, txVars>>, Up, Up',
         op.pc \notin {"sync", "install"}, op'.pc \notin {"sync", "install"},
         SlotMade' => SlotMade, CallInv'
  PROVE  LogInv'
<1>1. UNCHANGED <<Cur, Made, log, curSlot, slotOff, idLen, active, avail, completed, txId, txUpd, fresh>>
  BY DEF Cur, Made, posVars, allocVars, txVars
<1>2. TxInv' /\ EndInv' /\ LoggedInv' /\ UsedInv' /\ OldInv' /\ MadeInv'
  BY <1>1 DEF LogInv, TxInv, EndInv, LoggedInv, UsedInv, OldInv, MadeInv
<1>3. CountInv' /\ ReopenInv'
  BY <1>1 DEF LogInv, CountInv, Freeable, ReopenInv, Up, At
<1> QED BY <1>2, <1>3 DEF LogInv

\* A transaction that begins gets an id that the log knows nothing of.
LEMMA LogInvBegin ==
  ASSUME TypeInv, IdsInv, LogInv, NEW t \in Txs, Begin(t)
  PROVE  LogInv'
<1> TypeOK /\ CallShape
  BY DEF TypeInv
<1> USE Constants
<1> DEFINE id == NextId
<1>1. /\ id \in Ids /\ id \notin active /\ t \in fresh /\ op.tx # t
      /\ IF avail = {} THEN id = idLen ELSE id \in avail
  <2>1. CASE avail = {}
    BY <2>1 DEF Begin, NextId, OutOfIds, Ids, TypeOK, IdsInv
  <2>2. CASE avail # {}
    BY <2>2, LeastAvailable DEF Begin, NextId, TypeOK, IdsInv
  <2> QED BY <2>1, <2>2
<1>2. /\ txId' = [txId EXCEPT ![t] = id]
      /\ active' = active \union {id} /\ avail' = avail \ {id}
      /\ idLen' = IF avail = {} THEN idLen + 1 ELSE idLen
      /\ fresh' = fresh \ {t}
      /\ UNCHANGED <<diskVars, durVars, posVars, fileVars, completed, txUpd, op>>
      /\ Up /\ (op.pc = "install" => MultiThreaded) /\ op.pc # "sync"
  <2>1. Up /\ (op.pc = "install" => MultiThreaded) /\ op.pc # "sync"
    BY DEF Begin, MayRun, Up, AllocLocked, CallShape, CompactPCs, ReopenPCs, TypeOK, Calls
  <2> QED BY <2>1 DEF Begin
<1> HIDE DEF id
<1>3. UNCHANGED <<Cur, Made, slotOff, op, completed, txUpd>> /\ Up' /\ SlotMade' = SlotMade
  BY <1>2 DEF Cur, Made, diskVars, posVars, Up, SlotMade
<1>4. txId[t] = None /\ txUpd[t] = NoUpdate
  BY <1>1 DEF LogInv, TxInv
<1>5. Uncommitted(Cur, id) = {}
  <2>1. CASE op.pc = "install"
    BY <1>1, <1>2, <2>1 DEF LogInv, OldInv
  <2>2. CASE op.pc # "install"
    <3>1. \A p \in Body(Cur) : Cur[p].id < idLen /\ Cur[p].id \notin avail
      BY <1>2, <2>2 DEF LogInv, UsedInv
    <3>2. idLen \in Int
      BY DEF TypeOK
    <3>3. \A p \in Body(Cur) : Cur[p].id # id
      BY <1>1, <3>1, <3>2
    <3> QED BY <3>3 DEF Uncommitted
  <2> QED BY <2>1, <2>2
<1>6. SlotMade => Uncommitted(Made, id) = {}
  BY <1>1 DEF LogInv, MadeInv, Uncommitted
<1>7. CallInv' /\ TxInv' /\ EndInv'
  <2>1. CallInv'
    BY <1>1, <1>2, <1>3 DEF LogInv, CallInv, TypeOK, CallShape
  <2>2. TxInv'
    BY <1>1, <1>2, <1>3 DEF LogInv, TxInv, TypeOK
  <2>3. EndInv'
    BY <1>2, <1>3 DEF LogInv, EndInv
  <2> QED BY <2>1, <2>2, <2>3
<1>8. LoggedInv'
  <2> SUFFICES ASSUME NEW u \in Txs, txId'[u] # None PROVE LoggedIn(Cur, txId'[u], txUpd[u])
    BY <1>3 DEF LoggedInv
  <2>1. CASE u = t
    BY <1>2, <1>4, <1>5, <2>1, LoggedNothing DEF TypeOK
  <2>2. CASE u # t
    BY <1>2, <2>2 DEF LogInv, LoggedInv, TypeOK
  <2> QED BY <2>1, <2>2
<1>9. MadeInv'
  <2> SUFFICES ASSUME SlotMade
               PROVE  /\ \A p \in Body(Made) : Made[p].kind # "commit" /\ Made[p].id \in active'
                      /\ \A u \in Txs : txId'[u] # None => LoggedIn(Made, txId'[u], txUpd[u])
    BY <1>3 DEF MadeInv
  <2>1. \A p \in Body(Made) : Made[p].kind # "commit" /\ Made[p].id \in active'
    BY <1>2 DEF LogInv, MadeInv
  <2>2. ASSUME NEW u \in Txs, txId'[u] # None PROVE LoggedIn(Made, txId'[u], txUpd[u])
    <3>1. CASE u = t
      BY <1>2, <1>4, <1>6, <3>1, LoggedNothing DEF TypeOK
    <3>2. CASE u # t
      BY <1>2, <2>2, <3>2 DEF LogInv, MadeInv, TypeOK
    <3> QED BY <3>1, <3>2
  <2> QED BY <2>1, <2>2
<1>10. UsedInv' /\ OldInv'
  <2>1. ASSUME op.pc # "install", NEW p \in Body(Cur)
        PROVE  /\ Cur[p].id < idLen' /\ Cur[p].id \notin avail'
               /\ ~(Cur[p].kind = "commit" /\ Cur[p].id \in active')
    <3>1. Cur[p].id < idLen /\ Cur[p].id \notin avail /\ ~(Cur[p].kind = "commit" /\ Cur[p].id \in active)
      BY <1>2, <2>1 DEF LogInv, UsedInv
    <3>2. Cur[p].id \in Ids /\ idLen \in Int /\ Ids \subseteq Int
      <4>1. p \in Cells /\ Cur \in [Cells -> Records]
        BY <1>2, LogTypes, BodyCells
      <4> QED BY <4>1 DEF TypeOK, Records, Ids
    <3>3. Cur[p].id # id /\ Cur[p].id < idLen'
      <4>1. Cur[p].id # id
        BY <1>1, <3>1, <3>2
      <4>2. \A n \in Int : n < idLen => n < idLen + 1
        BY <3>2
      <4> QED BY <1>2, <3>1, <3>2, <4>1, <4>2
    <3> QED BY <1>2, <3>1, <3>3
  <2>2. OldInv'
    BY <1>2, <1>3 DEF LogInv, OldInv
  <2> QED BY <1>3, <2>1, <2>2 DEF UsedInv
<1>11. CountInv'
  <2>1. idLen \in Nat
    BY DEF TypeOK
  <2>2. Freeable' = Freeable
    <3>1. CASE avail = {}
      <4>1. 0 .. idLen' - 1 = (0 .. idLen - 1) \union {id}
        BY <1>1, <1>2, <2>1, <3>1
      <4>2. id \notin 0 .. idLen - 1
        BY <1>1, <2>1, <3>1
      <4> QED BY <1>2, <4>1, <4>2 DEF Freeable
    <3>2. CASE avail # {}
      <4>1. idLen' = idLen /\ id \in avail /\ active' \union avail' = active \union avail
        BY <1>1, <1>2, <3>2
      <4> QED BY <4>1 DEF Freeable
    <3> QED BY <3>1, <3>2
  <2> QED BY <1>3, <2>2 DEF LogInv, CountInv
<1>12. ReopenInv'
  BY <1>2, <1>3 DEF ReopenInv, At, Up
<1> QED BY <1>7, <1>8, <1>9, <1>10, <1>11, <1>12 DEF LogInv

\* Only a commit or a rollback counts a finished transaction.
LEMMA OneMoreFreeable ==
  ASSUME TypeOK, IdsInv, NEW i \in active, active' = active \ {i},
         UNCHANGED <<idLen, avail>>, completed = Cardinality(Freeable), completed' = completed + 1
  PROVE  completed' = Cardinality(Freeable')
<1>1. idLen \in Nat /\ i \in 0 .. idLen - 1
  BY DEF TypeOK, IdsInv, Ids
<1>2. i \notin avail /\ i \notin Freeable
  BY DEF IdsInv, Freeable
<1>3. Freeable' = Freeable \union {i}
  BY <1>1, <1>2 DEF Freeable
<1>4. IsFiniteSet(Freeable)
  <2>1. IsFiniteSet(0 .. idLen - 1)
    BY <1>1, FS_Interval
  <2>2. Freeable \in SUBSET (0 .. idLen - 1)
    BY DEF Freeable
  <2> QED BY <2>1, <2>2, FS_Subset
<1>5. Cardinality(Freeable \union {i}) = Cardinality(Freeable) + 1
  BY <1>2, <1>4, FS_AddElement
<1> QED BY <1>3, <1>5

\* A rolled back transaction leaves its records behind, and its id taken.
LEMMA LogInvRollback ==
  ASSUME TypeInv, IdsInv, LogInv, Rollbacks => ~MultiThreaded, NEW t \in Txs, Rollback(t)
  PROVE  LogInv'
<1> TypeOK /\ CallShape
  BY DEF TypeInv
<1> USE Constants
<1>1. /\ op.kind = "idle" /\ op.pc = "idle" /\ Up /\ ~SlotMade /\ ~MultiThreaded
      /\ txId[t] # None /\ active' = active \ {txId[t]} /\ completed' = completed + 1
      /\ txId' = [txId EXCEPT ![t] = None] /\ txUpd' = [txUpd EXCEPT ![t] = NoUpdate]
      /\ UNCHANGED <<diskVars, durVars, posVars, fileVars, idLen, avail, op, fresh>>
  BY DEF Rollback, MayRun, CallShape, Up, SlotMade, CompactPCs, Finish, Forget
<1>2. UNCHANGED <<Cur, Made, slotOff, op, idLen, avail, fresh>> /\ Up' /\ ~SlotMade'
  BY <1>1 DEF Cur, Made, diskVars, posVars, Up, SlotMade
<1>3. CallInv' /\ TxInv' /\ EndInv' /\ UsedInv' /\ OldInv' /\ MadeInv' /\ ReopenInv'
  <2>1. TxInv'
    BY <1>1, <1>2 DEF LogInv, TxInv, TypeOK
  <2>2. EndInv' /\ UsedInv'
    BY <1>1, <1>2 DEF LogInv, EndInv, UsedInv
  <2>3. CallInv' /\ OldInv' /\ MadeInv' /\ ReopenInv'
    BY <1>1, <1>2 DEF CallInv, OldInv, MadeInv, ReopenInv, At, Up
  <2> QED BY <2>1, <2>2, <2>3
<1>4. LoggedInv'
  BY <1>1, <1>2 DEF LogInv, LoggedInv, TypeOK
<1>5. CountInv'
  <2>1. completed = Cardinality(Freeable) /\ txId[t] \in active
    BY <1>1 DEF LogInv, CountInv, IdsInv, IdsDistinct
  <2>2. completed' = Cardinality(Freeable')
    BY <1>1, <1>2, <2>1, OneMoreFreeable
  <2> QED BY <1>1, <1>2, <2>2 DEF CountInv
<1> QED BY <1>3, <1>4, <1>5 DEF LogInv

\* Everything of a record but its first word.
LEMMA LogInvWriteBody ==
  ASSUME TypeInv, LogInv, WriteBody
  PROVE  /\ LogInv' /\ HasEnd(Cur) /\ EndPos(Cur) = slotOff
         /\ \A p \in 1 .. EndPos(Cur) : Cur'[p] = Cur[p]
<1> TypeOK /\ CallShape
  BY DEF TypeInv
<1> USE Constants
<1>1. /\ op.kind \in {"append", "commit"} /\ op.pc = "body" /\ Up
      /\ op' = [op EXCEPT !.pc = "flush"]
      /\ log' = [log EXCEPT ![curSlot][slotOff + 1] = End]
      /\ UNCHANGED <<hdr, data, psize, durVars, posVars, fileVars, allocVars, txVars>>
  BY DEF WriteBody, At, Goto, Up
<1>2. /\ op'.kind = op.kind /\ op'.pc = "flush" /\ op'.tx = op.tx /\ op'.rec = op.rec /\ Up'
      /\ ~SlotMade /\ ~SlotMade'
  BY <1>1 DEF TypeOK, Calls, SlotMade, CompactPCs, Up
<1>3. HasEnd(Cur) /\ EndPos(Cur) = slotOff /\ slotOff \in Int
  BY <1>1, LogTypes DEF LogInv, EndInv, Cells
<1>4. Cur' = [Cur EXCEPT ![slotOff + 1] = End]
  BY <1>1, LogTypes DEF Cur, TypeOK, posVars
<1>5. \A p \in 1 .. EndPos(Cur) : Cur'[p] = Cur[p]
  <2>1. \A p \in 1 .. slotOff : p \in Cells /\ p # slotOff + 1
    BY <1>3, LogTypes DEF Cells
  <2> QED BY <1>3, <1>4, <2>1, LogTypes
<1>6. /\ EndPos(Cur') = EndPos(Cur) /\ Body(Cur') = Body(Cur)
      /\ \A id : Uncommitted(Cur', id) = Uncommitted(Cur, id)
      /\ \A id, u : LoggedIn(Cur, id, u) => LoggedIn(Cur', id, u)
  BY <1>3, <1>5, SameLog
<1>7. \A p \in Body(Cur) : Cur'[p] = Cur[p]
  BY <1>3, <1>5 DEF Body
<1>8. CallInv' /\ TxInv' /\ EndInv' /\ LoggedInv'
  <2>1. CallInv' /\ TxInv'
    BY <1>1, <1>2 DEF LogInv, CallInv, TxInv, txVars
  <2>2. EndInv'
    BY <1>1, <1>2, <1>3, <1>6 DEF EndInv, posVars
  <2>3. LoggedInv'
    BY <1>1, <1>2, <1>6 DEF LogInv, LoggedInv, txVars
  <2> QED BY <2>1, <2>2, <2>3
<1>9. UsedInv' /\ OldInv' /\ MadeInv'
  <2>1. UsedInv'
    BY <1>1, <1>2, <1>6, <1>7 DEF LogInv, UsedInv, allocVars
  <2>2. OldInv'
    BY <1>1, <1>2, <1>6 DEF LogInv, OldInv, allocVars
  <2> QED BY <1>2, <2>1, <2>2 DEF MadeInv
<1>10. CountInv' /\ ReopenInv'
  BY <1>1, <1>2 DEF LogInv, CountInv, Freeable, ReopenInv, At, allocVars
<1> QED BY <1>3, <1>5, <1>8, <1>9, <1>10 DEF LogInv

\* The first word of a record appends it.
LEMMA MarkerAppends ==
  ASSUME TypeInv, LogInv, AppendMarker \/ CommitMarker
  PROVE  /\ HasEnd(Cur) /\ EndPos(Cur) = slotOff
         /\ Appended(Cur, Cur', op.rec)
         /\ op.kind \in {"append", "commit"} /\ op.pc = "marker" /\ op.tx \in Txs
         /\ Up /\ ~SlotMade
<1> TypeOK /\ CallShape /\ SlotsEnd
  BY DEF TypeInv
<1> USE Constants
<1>1. /\ op.kind \in {"append", "commit"} /\ op.pc = "marker" /\ Up /\ Appending /\ op.tx \in Txs
      /\ log' = [log EXCEPT ![curSlot][slotOff] = op.rec] /\ curSlot' = curSlot
      /\ ~SlotMade
  BY DEF AppendMarker, CommitMarker, At, Up, Appending, CallShape, SlotMade, CompactPCs, posVars
<1>2. HasEnd(Cur) /\ EndPos(Cur) = slotOff
  BY <1>1, LogTypes DEF LogInv, EndInv
<1>3. slotOff \in Cells /\ slotOff + 1 \in Cells /\ Cur[slotOff + 1].kind = "end"
  BY <1>1 DEF SlotsEnd, TypeOK, Cur
<1>4. Cur' = [Cur EXCEPT ![slotOff] = op.rec]
  BY <1>1, LogTypes DEF Cur, TypeOK
<1>5. op.rec.kind # "end"
  BY <1>1 DEF LogInv, CallInv, CallShape
<1>6. Appended(Cur, Cur', op.rec)
  <2>1. slotOff # slotOff + 1 /\ \A p \in 1 .. slotOff - 1 : p \in Cells /\ p # slotOff
    BY <1>3 DEF Cells
  <2> QED BY <1>2, <1>3, <1>4, <1>5, <2>1, LogTypes DEF Appended
<1> QED BY <1>1, <1>2, <1>6

LEMMA LogInvAppendMarker ==
  ASSUME TypeInv, IdsInv, LogInv, AppendMarker
  PROVE  LogInv'
<1> TypeOK /\ CallShape
  BY DEF TypeInv
<1> USE Constants
<1> DEFINE t == op.tx
           rec == op.rec
<1>1. /\ HasEnd(Cur) /\ EndPos(Cur) = slotOff /\ Appended(Cur, Cur', rec)
      /\ t \in Txs /\ Up /\ ~SlotMade
  BY MarkerAppends
<1>2. /\ op.kind = "append" /\ op.pc = "marker"
      /\ slotOff' = slotOff + 1 /\ op' = Idle /\ op'.kind = "idle" /\ op'.pc = "idle"
      /\ txUpd' = [txUpd EXCEPT ![t] = Performed(txUpd[t], rec)]
      /\ UNCHANGED <<hdr, data, psize, durVars, curSlot, curSeq, fileVars, allocVars, fresh, txId>>
      /\ UNCHANGED <<idLen, active, avail, completed>> /\ Up' /\ ~SlotMade'
  BY DEF AppendMarker, At, Idle, Call, Up, SlotMade, CompactPCs, allocVars
<1>3. /\ rec.kind \in {"write", "resize"} /\ (rec.kind = "write" => rec.arg \in Offs)
      /\ rec.id = txId[t] /\ txId[t] # None /\ txId[t] \in active
  BY <1>1, <1>2 DEF CallShape, LogInv, CallInv, IdsInv, IdsDistinct
<1>4. /\ EndPos(Cur') = slotOff + 1 /\ Body(Cur') = Body(Cur) \union {slotOff}
      /\ \A p \in Body(Cur) : Cur'[p] = Cur[p] /\ p # slotOff
      /\ Cur'[slotOff] = rec
  BY <1>1, AppendedEnd DEF Appended
<1>5. \A id : id # rec.id => Uncommitted(Cur', id) = Uncommitted(Cur, id)
  BY <1>1, <1>3, AppendedRecord
<1>6. LoggedInv'
  <2> SUFFICES ASSUME NEW u \in Txs, txId[u] # None PROVE LoggedIn(Cur', txId[u], txUpd'[u])
    BY <1>2 DEF LoggedInv
  <2>1. LoggedIn(Cur, txId[u], txUpd[u])
    BY <1>1, <1>2 DEF LogInv, LoggedInv
  <2>2. CASE u = t
    <3>1. txUpd'[u] = Performed(txUpd[t], rec) /\ txUpd[t] \in Updates
      BY <1>1, <1>2, <2>2 DEF TypeOK
    <3>2. LoggedIn(Cur', rec.id, Performed(txUpd[t], rec))
      <4> HIDE DEF t, rec
      <4> QED BY <1>1, <1>3, <2>1, <2>2, <3>1, AppendedOwn
    <3> QED BY <1>3, <2>2, <3>1, <3>2
  <2>3. CASE u # t
    <3>1. txUpd'[u] = txUpd[u] /\ txId[u] # rec.id
      BY <1>1, <1>2, <1>3, <2>3 DEF TypeOK, IdsInv, IdsDistinct
    <3>2. Uncommitted(Cur', txId[u]) = Uncommitted(Cur, txId[u])
      BY <1>5, <3>1
    <3> HIDE DEF t, rec
    <3> QED BY <1>1, <2>1, <3>1, <3>2, AppendedOther
  <2> QED BY <2>2, <2>3
<1>7. UsedInv'
  <2>1. \A p \in Body(Cur) : Cur[p].id < idLen /\ Cur[p].id \notin avail
                             /\ ~(Cur[p].kind = "commit" /\ Cur[p].id \in active)
    BY <1>1, <1>2 DEF LogInv, UsedInv
  <2>2. rec.id < idLen /\ rec.id \notin avail /\ rec.kind # "commit"
    BY <1>3 DEF IdsInv
  <2> QED BY <1>2, <1>4, <2>1, <2>2 DEF UsedInv
<1>8. OldInv'
  BY <1>1, <1>2, <1>3, <1>5 DEF LogInv, OldInv
<1>9. CallInv' /\ TxInv' /\ EndInv' /\ MadeInv' /\ CountInv' /\ ReopenInv'
  <2>1. TxInv'
    BY <1>1, <1>2, <1>3 DEF LogInv, TxInv, TypeOK
  <2>2. CountInv'
    BY <1>2 DEF LogInv, CountInv, Freeable
  <2> QED BY <1>2, <1>4, <2>1, <2>2 DEF CallInv, EndInv, MadeInv, ReopenInv, At, Up
<1> QED BY <1>6, <1>7, <1>8, <1>9 DEF LogInv

LEMMA LogInvCommitMarker ==
  ASSUME TypeInv, IdsInv, LogInv, CommitMarker
  PROVE  LogInv'
<1> TypeOK /\ CallShape
  BY DEF TypeInv
<1> USE Constants
<1> DEFINE t == op.tx
           rec == op.rec
<1>1. /\ HasEnd(Cur) /\ EndPos(Cur) = slotOff /\ Appended(Cur, Cur', rec)
      /\ t \in Txs /\ Up /\ ~SlotMade
  BY MarkerAppends
<1>2. /\ op.kind = "commit" /\ op.pc = "marker" /\ op' = [op EXCEPT !.pc = "sync"]
      /\ UNCHANGED <<hdr, data, psize, durVars, posVars, fileVars, allocVars, txVars>>
      /\ UNCHANGED <<slotOff, curSlot, idLen, active, avail, completed, txId, txUpd, fresh>>
  BY DEF CommitMarker, At, Goto, posVars, allocVars, txVars
<1>3. op'.kind = "commit" /\ op'.pc = "sync" /\ op'.tx = t /\ op'.rec = rec /\ Up' /\ ~SlotMade'
  BY <1>2 DEF TypeOK, Calls, SlotMade, CompactPCs, Up
<1>4. /\ rec.kind = "commit" /\ rec.id = txId[t] /\ txId[t] # None /\ txId[t] \in active
  BY <1>1, <1>2 DEF LogInv, CallInv, IdsInv, IdsDistinct
<1>5. /\ EndPos(Cur') = slotOff + 1 /\ Body(Cur') = Body(Cur) \union {slotOff}
      /\ \A p \in Body(Cur) : Cur'[p] = Cur[p] /\ p # slotOff
      /\ Cur'[slotOff] = rec
  BY <1>1, AppendedEnd DEF Appended
<1>6. LoggedIn(Cur, rec.id, txUpd[t]) /\ Cur \in [Cells -> Records]
  BY <1>1, <1>2, <1>4, LogTypes DEF LogInv, LoggedInv
<1>7. \A id : Uncommitted(Cur', id) = IF id = rec.id THEN {} ELSE Uncommitted(Cur, id)
  <2> DEFINE l == Cur
             m == Cur'
             u == txUpd[t]
  <2>1. /\ l \in [Cells -> Records] /\ Appended(l, m, rec) /\ rec.kind = "commit"
        /\ LoggedIn(l, rec.id, u)
    BY <1>1, <1>4, <1>6
  <2> HIDE DEF t, rec, l, m, u
  <2>2. \A id : Uncommitted(m, id) = IF id = rec.id THEN {} ELSE Uncommitted(l, id)
    BY <2>1, AppendedCommit
  <2> QED BY <2>2 DEF l, m
<1>8. LoggedInv'
  <2> SUFFICES ASSUME NEW u \in Txs, txId[u] # None, u # t PROVE LoggedIn(Cur', txId[u], txUpd[u])
    BY <1>2, <1>3 DEF LoggedInv
  <2>1. LoggedIn(Cur, txId[u], txUpd[u]) /\ txId[u] # rec.id
    BY <1>1, <1>2, <1>4 DEF LogInv, LoggedInv, IdsInv, IdsDistinct
  <2>2. Uncommitted(Cur', txId[u]) = Uncommitted(Cur, txId[u])
    BY <1>7, <2>1
  <2> HIDE DEF t, rec
  <2> QED BY <1>1, <2>1, <2>2, AppendedOther
<1>9. UsedInv'
  <2>1. \A p \in Body(Cur) : Cur[p].id < idLen /\ Cur[p].id \notin avail
                             /\ ~(Cur[p].kind = "commit" /\ Cur[p].id \in active)
    BY <1>1, <1>2 DEF LogInv, UsedInv
  <2>2. rec.id < idLen /\ rec.id \notin avail
    BY <1>4 DEF IdsInv
  <2> QED BY <1>2, <1>3, <1>5, <2>1, <2>2 DEF UsedInv
<1>10. OldInv'
  BY <1>1, <1>2, <1>7 DEF LogInv, OldInv
<1>11. CallInv' /\ TxInv' /\ EndInv' /\ MadeInv' /\ CountInv' /\ ReopenInv'
  <2>1. CallInv' /\ TxInv'
    BY <1>2, <1>3, <1>4 DEF LogInv, CallInv, TxInv
  <2>2. CountInv'
    BY <1>2, <1>3 DEF LogInv, CountInv, Freeable
  <2> QED BY <1>2, <1>3, <1>5, <2>1, <2>2 DEF EndInv, MadeInv, ReopenInv, At
<1> QED BY <1>8, <1>9, <1>10, <1>11 DEF LogInv

\* A committed transaction has no records left that a commit would apply.
LEMMA LogInvCommitDone ==
  ASSUME TypeInv, IdsInv, LogInv, CommitDone
  PROVE  LogInv'
<1> TypeOK /\ CallShape
  BY DEF TypeInv
<1> USE Constants
<1> DEFINE t == op.tx
<1>1. /\ op.kind = "commit" /\ op.pc = "sync" /\ Up /\ t \in Txs /\ ~SlotMade
      /\ op.rec.id = txId[t] /\ op.rec.kind = "commit" /\ txId[t] # None /\ txId[t] \in active
  BY DEF CommitDone, At, Up, CallShape, SlotMade, CompactPCs, LogInv, CallInv, IdsInv, IdsDistinct
<1>2. /\ active' = active \ {txId[t]} /\ completed' = completed + 1
      /\ slotOff' = slotOff + 1 /\ op' = Idle /\ op'.kind = "idle" /\ op'.pc = "idle"
      /\ txId' = [txId EXCEPT ![t] = None] /\ txUpd' = [txUpd EXCEPT ![t] = NoUpdate]
      /\ UNCHANGED <<diskVars, curSlot, curSeq, idLen, avail, fresh>>
  BY DEF CommitDone, Finish, Forget, Idle, Call
<1>3. UNCHANGED <<Cur, Made>> /\ Up' /\ ~SlotMade'
  BY <1>2 DEF Cur, Made, diskVars, Up, SlotMade, CompactPCs
<1>4. /\ HasEnd(Cur) /\ EndPos(Cur) = slotOff + 1 /\ Cur[slotOff] = op.rec
      /\ slotOff \in Body(Cur) /\ \A p \in Body(Cur) : p < slotOff \/ p = slotOff
  <2>1. HasEnd(Cur) /\ EndPos(Cur) = slotOff + 1 /\ Cur[slotOff] = op.rec
    BY <1>1, LogTypes DEF LogInv, EndInv
  <2>2. slotOff \in Nat /\ slotOff >= 1 /\ Body(Cur) = 1 .. slotOff
    BY <2>1, LogTypes DEF Body, Cells
  <2> QED BY <2>1, <2>2
<1>5. Uncommitted(Cur, txId[t]) = {}
  <2> SUFFICES ASSUME NEW p \in Uncommitted(Cur, txId[t]) PROVE FALSE
    OBVIOUS
  <2>1. p \in Body(Cur) /\ Cur[p].id = txId[t] /\ Cur[p].kind # "commit" /\ CommitsAfter(Cur, p) = {}
    BY DEF Uncommitted
  <2>2. p < slotOff
    BY <1>1, <1>4, <2>1
  <2>3. slotOff > p
    BY <1>4, <2>1, <2>2, LogTypes, BodyCells DEF Cells
  <2>4. slotOff \in CommitsAfter(Cur, p)
    BY <1>1, <1>4, <2>1, <2>3 DEF CommitsAfter
  <2> QED BY <2>1, <2>4
<1>6. LoggedInv'
  BY <1>1, <1>2, <1>3 DEF LogInv, LoggedInv, TypeOK
<1>7. UsedInv'
  BY <1>1, <1>2, <1>3, <1>4 DEF LogInv, UsedInv
<1>8. OldInv'
  BY <1>1, <1>2, <1>3, <1>5 DEF LogInv, OldInv
<1>9. CountInv'
  <2>1. completed = Cardinality(Freeable)
    BY <1>1 DEF LogInv, CountInv
  <2>2. completed' = Cardinality(Freeable')
    BY <1>1, <1>2, <2>1, OneMoreFreeable
  <2> QED BY <1>2, <2>2 DEF CountInv
<1>10. TxInv'
  BY <1>1, <1>2 DEF LogInv, TxInv, TypeOK
<1>11. CallInv' /\ EndInv' /\ MadeInv' /\ ReopenInv'
  BY <1>2, <1>3, <1>4 DEF CallInv, EndInv, MadeInv, ReopenInv, At
<1> QED BY <1>6, <1>7, <1>8, <1>9, <1>10, <1>11 DEF LogInv

\* compact_ copies the records of the transactions in progress, and no others.
LEMMA LogInvCopy ==
  ASSUME TypeInv, IdsInv, LogInv, CompactCopy
  PROVE  LogInv' /\ UNCHANGED Cur
<1> TypeOK /\ CallShape
  BY DEF TypeInv
<1> USE Constants
<1>1. /\ op.kind \in Compacting /\ op.pc = "copy" /\ Up /\ HasEnd(Cur)
      /\ op' = [op EXCEPT !.pc = "write"]
      /\ log' = [log EXCEPT ![Other(curSlot)] = Copied(Cur, Kept(Cur), Made)]
      /\ UNCHANGED <<hdr, data, psize, durVars, posVars, fileVars, allocVars, txVars>>
      /\ UNCHANGED <<slotOff, curSlot, idLen, active, avail, completed, txId, txUpd, fresh>>
  <2>1. Up
    BY DEF CompactCopy, At, Compacting, Up
  <2> QED BY <2>1, LogTypes DEF CompactCopy, At, Goto, Cur, Made, posVars, allocVars, txVars
<1>2. /\ op'.kind = op.kind /\ op'.pc = "write" /\ op'.tx = op.tx /\ op'.rec = op.rec /\ Up'
  BY <1>1 DEF TypeOK, Calls, Up
<1>3. Cur' = Cur /\ Made' = Copied(Cur, Kept(Cur), Made)
  BY <1>1, LogTypes DEF Cur, Made, TypeOK
<1>4. /\ Kept(Cur) \in SUBSET Body(Cur) /\ \A p \in Body(Cur) : p \in Kept(Cur) <=> Cur[p].id \in active
      /\ \A p \in Body(Cur) : Cur[p].kind = "commit" => Cur[p].id \notin active
  BY <1>1 DEF Kept, IdsInv, LogInv, UsedInv
<1>5. /\ \A p \in Body(Made') : Made'[p].kind # "commit" /\ Made'[p].id \in active
      /\ \A id \in active : \A u : LoggedIn(Cur, id, u) => LoggedIn(Made', id, u)
  <2> DEFINE K == Kept(Cur)
  <2>1. /\ K \in SUBSET Body(Cur) /\ \A p \in Body(Cur) : p \in K <=> Cur[p].id \in active
        /\ \A p \in Body(Cur) : Cur[p].kind = "commit" => Cur[p].id \notin active
        /\ HasEnd(Cur) /\ Made' = Copied(Cur, K, Made)
    BY <1>1, <1>3, <1>4
  <2> HIDE DEF K
  <2>2. /\ \A p \in Body(Copied(Cur, K, Made)) :
             Copied(Cur, K, Made)[p].kind # "commit" /\ Copied(Cur, K, Made)[p].id \in active
        /\ \A id \in active : \A u : LoggedIn(Cur, id, u) => LoggedIn(Copied(Cur, K, Made), id, u)
    BY <2>1, CopiedLog
  <2> QED BY <2>1, <2>2
<1>6. \A t \in Txs : txId[t] # None => LoggedIn(Made', txId[t], txUpd[t])
  BY <1>1, <1>5 DEF LogInv, LoggedInv, IdsInv, IdsDistinct
<1>7. MadeInv'
  BY <1>1, <1>5, <1>6 DEF MadeInv
<1>8. CallInv' /\ TxInv' /\ EndInv' /\ LoggedInv'
  BY <1>1, <1>2, <1>3 DEF LogInv, CallInv, TxInv, EndInv, LoggedInv
<1>9. UsedInv' /\ OldInv' /\ CountInv' /\ ReopenInv'
  BY <1>1, <1>2, <1>3 DEF LogInv, UsedInv, OldInv, CountInv, Freeable, ReopenInv, At
<1> QED BY <1>3, <1>7, <1>8, <1>9 DEF LogInv

LEMMA LogInvIds ==
  ASSUME TypeInv, IdsInv, LogInv, CompactIds
  PROVE  LogInv'
<1> TypeOK /\ CallShape
  BY DEF TypeInv
<1>1. /\ op.kind \in Compacting /\ op.pc = "ids" /\ Up /\ SlotMade
      /\ op' = [op EXCEPT !.pc = "install"]
      /\ idLen' = TrimmedLen /\ avail' = (0 .. TrimmedLen - 1) \ active
      /\ UNCHANGED <<log, slotOff, curSlot, active, completed, txId, txUpd, fresh>>
  BY DEF CompactIds, At, Goto, Compacting, Up, SlotMade, CompactPCs, diskVars, posVars, txVars
<1>2. /\ op'.kind = op.kind /\ op'.pc = "install" /\ op'.tx = op.tx /\ op'.rec = op.rec /\ Up'
      /\ UNCHANGED <<Cur, Made>>
  BY <1>1 DEF TypeOK, Calls, Up, Cur, Made
<1>3. Freeable' = {}
  BY <1>1 DEF Freeable
<1>4. CallInv' /\ TxInv' /\ EndInv' /\ LoggedInv' /\ OldInv' /\ MadeInv'
  BY <1>1, <1>2 DEF LogInv, CallInv, TxInv, EndInv, LoggedInv, OldInv, MadeInv
<1>5. UsedInv' /\ CountInv' /\ ReopenInv'
  BY <1>1, <1>2, <1>3 DEF UsedInv, CountInv, ReopenInv, At
<1> QED BY <1>4, <1>5 DEF LogInv

LEMMA LogInvInstall ==
  ASSUME TypeInv, IdsInv, LogInv, CompactInstall
  PROVE  LogInv'
<1> TypeOK /\ CallShape
  BY DEF TypeInv
<1> USE Constants
<1>1. /\ op.kind \in Compacting /\ op.pc = "install" /\ Up /\ SlotMade
      /\ curSlot' = Other(curSlot) /\ slotOff' = EndPos(Made) /\ completed' = 0
      /\ \/ op' = [op EXCEPT !.pc = "body"] /\ op.kind \in {"append", "commit"}
         \/ op' = Idle
      /\ UNCHANGED <<log, idLen, active, avail, txId, txUpd, fresh>>
  BY DEF CompactInstall, At, Goto, Compacting, Up, SlotMade, CompactPCs, Made, diskVars, txVars
<1>2. /\ Cur' = Made /\ Up' /\ ~SlotMade' /\ op'.pc \in {"body", "idle"} /\ op'.kind \in Compacting \union {"idle"}
      /\ op'.kind \in {"append", "commit"} => op'.kind = op.kind /\ op'.tx = op.tx /\ op'.rec = op.rec
  <2>1. Cur' = Made
    BY <1>1 DEF Cur, Made
  <2>2. CASE op' = Idle
    BY <2>1, <2>2 DEF Idle, Call, Up, SlotMade, CompactPCs, Compacting
  <2>3. CASE op' = [op EXCEPT !.pc = "body"] /\ op.kind \in {"append", "commit"}
    BY <2>1, <2>3 DEF TypeOK, Calls, Up, SlotMade, CompactPCs, Compacting
  <2> QED BY <1>1, <2>2, <2>3
<1>3. /\ \A p \in Body(Made) : Made[p].kind # "commit" /\ Made[p].id \in active
      /\ \A t \in Txs : txId[t] # None => LoggedIn(Made, txId[t], txUpd[t])
      /\ Freeable = {}
  BY <1>1 DEF LogInv, MadeInv, CountInv
<1>4. CallInv' /\ TxInv' /\ EndInv' /\ LoggedInv' /\ MadeInv'
  BY <1>1, <1>2, <1>3 DEF LogInv, CallInv, TxInv, EndInv, LoggedInv, MadeInv
<1>5. UsedInv' /\ OldInv'
  <2>1. \A p \in Body(Made) : Made[p].id < idLen /\ Made[p].id \notin avail
    BY <1>3 DEF IdsInv
  <2>2. \A id \in Ids \ active : Uncommitted(Made, id) = {}
    BY <1>3 DEF Uncommitted
  <2> QED BY <1>1, <1>2, <1>3, <2>1, <2>2 DEF UsedInv, OldInv
<1>6. CountInv'
  <2>1. Freeable' = {} /\ Cardinality({}) = 0
    BY <1>1, <1>3, FS_EmptySet DEF Freeable
  <2> QED BY <1>1, <1>2, <2>1 DEF CountInv
<1>7. ReopenInv'
  BY <1>2 DEF ReopenInv, At, Compacting
<1> QED BY <1>4, <1>5, <1>6, <1>7 DEF LogInv

\* A crash, and the recovery after it.
LEMMA LogInvCrash ==
  ASSUME TypeInv, LogInv, LoseProgram
  PROVE  LogInv'
<1>1. /\ op'.kind = "down" /\ op'.pc = "down" /\ ~Up' /\ ~SlotMade'
      /\ idLen' = 0 /\ active' = {} /\ avail' = {} /\ completed' = 0
      /\ \A t \in Txs : txId'[t] = None /\ txUpd'[t] = NoUpdate
      /\ fresh' = fresh
  BY DEF LoseProgram, Down, Call, Up, SlotMade, Compacting
<1>2. TxInv'
  BY <1>1 DEF TxInv, TypeInv, TypeOK
<1>3. CountInv'
  <2>1. Freeable' = {} /\ Cardinality({}) = 0
    BY <1>1, FS_EmptySet DEF Freeable
  <2> QED BY <1>1, <2>1 DEF CountInv
<1>4. CallInv' /\ EndInv' /\ LoggedInv' /\ UsedInv' /\ OldInv' /\ MadeInv' /\ ReopenInv'
  BY <1>1 DEF CallInv, EndInv, LoggedInv, UsedInv, OldInv, MadeInv, ReopenInv, At
<1> QED BY <1>2, <1>3, <1>4 DEF LogInv

LEMMA LogInvRecovery ==
  ASSUME TypeInv, LogInv, Recovery
  PROVE  LogInv'
<1> TypeOK /\ CallShape
  BY DEF TypeInv
<1> USE Constants
<1>1. /\ ~Up /\ UNCHANGED <<idLen, active, avail, completed, fresh, txId, txUpd>>
  BY DEF Recovery, RecoverRead, RecoverWrite, RecoverFlush, RecoverSeq, RecoverSize, RecoverEnd,
         RecoverDone, At, Up, allocVars, txVars
<1>2. /\ idLen' = 0 /\ active' = {} /\ avail' = {} /\ completed' = 0
      /\ \A t \in Txs : txId'[t] = None
  BY <1>1 DEF LogInv, ReopenInv
<1>3. TxInv'
  BY <1>1 DEF LogInv, TxInv
<1>4. Freeable' = {} /\ Cardinality({}) = 0
  BY <1>2, FS_EmptySet DEF Freeable
<1>5. CASE RecoverDone
  <2>1. /\ op.kind = "reopen" /\ op.pc = "done" /\ op'.kind = "idle" /\ op'.pc = "idle" /\ op' = Idle
        /\ UNCHANGED <<log, curSlot, slotOff>> /\ Up' /\ ~SlotMade'
    BY <1>5 DEF RecoverDone, At, Idle, Call, Up, SlotMade, CompactPCs, diskVars, posVars
  <2>2. Cur' = Cur /\ slotOff' = 1 /\ Cur[1] = End
    BY <2>1 DEF LogInv, ReopenInv, At, Cur
  <2>3. EndPos(Cur) = 1
    BY <2>2, EndPosIs, RecordTypes
  <2>4. Body(Cur) = {}
    BY <2>3 DEF Body
  <2>5. \A id : Uncommitted(Cur, id) = {}
    BY <2>4 DEF Uncommitted
  <2>6. CountInv'
    BY <1>2, <1>4, <2>1 DEF CountInv
  <2>7. CallInv' /\ EndInv' /\ LoggedInv' /\ UsedInv' /\ OldInv' /\ MadeInv' /\ ReopenInv'
    BY <1>2, <2>1, <2>2, <2>3, <2>4, <2>5
       DEF CallInv, EndInv, LoggedInv, UsedInv, OldInv, MadeInv, ReopenInv, At
  <2> QED BY <1>3, <2>6, <2>7 DEF LogInv
<1>6. CASE ~RecoverDone
  <2>1. /\ op'.kind = "reopen" /\ op'.pc \in {"write", "flush", "seq", "size", "end", "done"}
        /\ op'.pc = "end" => slotOff' = 1
        /\ op'.pc = "done" => /\ slotOff' = slotOff /\ curSlot' = curSlot /\ op.kind = "reopen" /\ op.pc = "end"
                              /\ log' = [log EXCEPT ![curSlot][1] = End]
    BY <1>6 DEF Recovery, RecoverRead, RecoverWrite, RecoverFlush, RecoverSeq, RecoverSize, RecoverEnd,
                At, Goto, Call, TypeOK, Calls, posVars
  <2>2. ~Up' /\ ~SlotMade'
    BY <2>1 DEF Up, SlotMade, Compacting
  <2>3. op'.pc = "done" => slotOff' = 1 /\ Cur'[1] = End
    BY <2>1, LogTypes DEF LogInv, ReopenInv, Cur, TypeOK
  <2>4. CountInv'
    BY <1>2, <1>4, <2>1 DEF CountInv
  <2>5. ReopenInv'
    BY <1>2, <2>1, <2>3 DEF ReopenInv, At
  <2>6. CallInv' /\ EndInv' /\ LoggedInv' /\ UsedInv' /\ OldInv' /\ MadeInv'
    BY <2>1, <2>2 DEF CallInv, EndInv, LoggedInv, UsedInv, OldInv, MadeInv
  <2> QED BY <1>3, <2>4, <2>5, <2>6 DEF LogInv
<1> QED BY <1>5, <1>6

LEMMA LogInvNext ==
  ASSUME Rollbacks => ~MultiThreaded
  PROVE  TypeInv /\ IdsInv /\ LogInv /\ [Next]_vars => LogInv'
<1> SUFFICES ASSUME TypeInv, IdsInv, LogInv, [Next]_vars PROVE LogInv'
  OBVIOUS
<1> TypeOK /\ CallShape
  BY DEF TypeInv
<1>1. ASSUME op.kind = "idle",
             NEW kind, NEW t, NEW rec, NEW pc \in {"body", "copy"}, op' = Call(kind, t, rec, pc),
             kind \in {"append", "commit", "compact", "begin"},
             kind \in {"append", "commit"} => txId[t] # None /\ rec.id = txId[t],
             kind = "commit" => rec.kind = "commit",
             UNCHANGED <<diskVars, durVars, posVars, fileVars, allocVars, txVars>>
      PROVE  LogInv'
  <2>1. /\ op'.kind = kind /\ op'.pc = pc /\ op'.tx = t /\ op'.rec = rec
        /\ UNCHANGED <<log, posVars, allocVars, txVars>>
    BY <1>1 DEF Call, diskVars
  <2>2. Up /\ Up' /\ ~SlotMade' /\ op.pc = "idle" /\ op'.pc \notin {"sync", "install"}
    BY <1>1, <2>1 DEF CallShape, Up, SlotMade, CompactPCs
  <2>3. CallInv'
    BY <1>1, <2>1 DEF CallInv, txVars
  <2> QED BY <2>1, <2>2, <2>3, LogInvQuiet
<1>2. ASSUME NEW t \in Txs, NEW kind \in {"append", "commit"}, NEW rec, Enter(kind, t, rec),
             rec.id = txId[t], kind = "commit" => rec.kind = "commit"
      PROVE  LogInv'
  BY <1>1, <1>2 DEF Enter
<1>3. CASE Client
  <2>1. PICK t \in Txs :
          \/ Begin(t) \/ BeginCompacts(t) \/ Rollback(t)
          \/ \E o \in Offs, v \in Vals : Write(t, o, v)
          \/ \E n \in Sizes : Resize(t, n)
          \/ Commit(t)
    BY <1>3 DEF Client
  <2>2. CASE BeginCompacts(t)
    BY <1>1, <2>2 DEF BeginCompacts
  <2>3. CASE \E o \in Offs, v \in Vals : Write(t, o, v)
    <3>1. PICK o \in Offs, v \in Vals : Enter("append", t, WriteRec(txId[t], o, v))
      BY <2>3 DEF Write
    <3>2. WriteRec(txId[t], o, v).id = txId[t]
      BY DEF WriteRec, Record
    <3> QED BY <1>2, <3>1, <3>2
  <2>4. CASE \E n \in Sizes : Resize(t, n)
    <3>1. PICK n \in Sizes : Enter("append", t, ResizeRec(txId[t], n))
      BY <2>4 DEF Resize
    <3>2. ResizeRec(txId[t], n).id = txId[t]
      BY DEF ResizeRec, Record
    <3> QED BY <1>2, <3>1, <3>2
  <2>5. CASE Commit(t)
    BY <1>2, <2>5 DEF Commit, CommitRec, Record
  <2> QED BY <2>1, <2>2, <2>3, <2>4, <2>5, LogInvBegin, LogInvRollback
<1>4. CASE Compact
  BY <1>1, <1>4 DEF Compact
<1>5. CASE FlushBody \/ CompactWrite \/ CompactApply \/ CompactHeader
  <2>1. /\ UNCHANGED <<log, posVars, allocVars, txVars>>
        /\ op.kind \in Compacting /\ op.pc \in {"flush", "write", "apply", "header"}
        /\ op'.kind = op.kind /\ op'.tx = op.tx /\ op'.rec = op.rec
        /\ op'.pc \in {"marker", "apply", "header", "ids"}
        /\ op'.pc = "marker" <=> op.pc = "flush"
    BY <1>5 DEF FlushBody, CompactWrite, CompactApply, CompactHeader, At, Goto, Compacting,
                TypeOK, Calls, diskVars
  <2>2. Up /\ Up' /\ (SlotMade' => SlotMade)
    BY <2>1 DEF Up, SlotMade, CompactPCs, Compacting
  <2>3. CallInv'
    BY <2>1 DEF LogInv, CallInv, txVars
  <2> QED BY <2>1, <2>2, <2>3, LogInvQuiet
<1>6. CASE UNCHANGED vars
  <2>1. UNCHANGED <<log, curSlot, slotOff, idLen, active, avail, completed, txId, txUpd, fresh, op>>
        /\ UNCHANGED <<Cur, Made>>
    BY <1>6 DEF vars, diskVars, posVars, allocVars, txVars, Cur, Made
  <2>2. Up' = Up /\ SlotMade' = SlotMade
    BY <2>1 DEF Up, SlotMade
  <2>3. CallInv' /\ TxInv' /\ EndInv'
    BY <2>1, <2>2 DEF LogInv, CallInv, TxInv, EndInv
  <2>4. LoggedInv'
    BY <2>1, <2>2 DEF LogInv, LoggedInv
  <2>5. UsedInv' /\ OldInv' /\ MadeInv'
    BY <2>1, <2>2 DEF LogInv, UsedInv, OldInv, MadeInv
  <2>6. CountInv' /\ ReopenInv'
    BY <2>1, <2>2 DEF LogInv, CountInv, Freeable, ReopenInv, At
  <2> QED BY <2>3, <2>4, <2>5, <2>6 DEF LogInv
<1>7. CASE ProcessCrash \/ SystemCrash
  BY <1>7, LogInvCrash DEF ProcessCrash, SystemCrash
<1> QED BY <1>3, <1>4, <1>5, <1>6, <1>7, LogInvWriteBody, LogInvAppendMarker, LogInvCommitMarker,
           LogInvCommitDone, LogInvCopy, LogInvIds, LogInvInstall, LogInvRecovery
        DEF Next, Append, Compaction

LEMMA LogInvAlways ==
  ASSUME Rollbacks => ~MultiThreaded
  PROVE  Spec => [](TypeInv /\ IdsInv /\ LogInv)
<1>1. Init => IdsInv
  BY DEF Init, NewFile, NoIds, IdsInv, IdsDistinct
<1>2. TypeInv /\ IdsInv /\ LogInv /\ [Next]_vars => LogInv'
  BY LogInvNext
<1> QED BY <1>1, <1>2, IdsInvNext, LogInvInit, TypeInvAlways, PTL DEF Spec

\* The log holds of each transaction in progress exactly what it did, and
\* tx_id_completed_count_ counts the ids that a compaction frees: whatever
\* transactions begin, write, commit and compact in, with other transactions
\* beginning during any of these steps, and after any crash and recovery.  A
\* rollback during another's call is excluded: its records stay in the copy
\* that compact_ made, of an id that compact_ then gives out again.
THEOREM TheLogMatches ==
  ASSUME Rollbacks => ~MultiThreaded
  PROVE  Spec => []LogMatchesTx
<1>1. LogInv => LogMatchesTx
  <2> SUFFICES ASSUME LogInv PROVE LogMatchesTx
    OBVIOUS
  <2>1. \A t \in Txs : Up /\ txId[t] # None /\ ~(op.pc = "sync" /\ op.tx = t) => LoggedAsDone(t)
    BY LoggedIsLoggedIn DEF LogInv, LoggedInv, Cur
  <2>2. op.pc # "install" => completed = Cardinality((0 .. idLen - 1) \ (active \union avail))
    BY DEF LogInv, CountInv, Freeable
  <2> QED BY <2>1, <2>2 DEF LogMatchesTx
<1> QED BY <1>1, LogInvAlways, PTL

-------------------------------------------------------------------------------
(***************************************************************************)
(* Recovery gives what readers see.  RecoveryAgrees is not inductive: while *)
(* a commit record waits for its flush, recovery is ahead of readers by    *)
(* that transaction; and compact_ may make the slot without records the    *)
(* current one only because the file has all pending writes by then.       *)
(***************************************************************************)

\* The slot that compact_ made is ahead of the current one.
Switching == op.kind \in Compacting /\ op.pc \in {"ids", "install"}

\* The slots are one sequence number apart.
SeqInv == Up /\ ~Switching => curSeq = Succ(hdr[Other(curSlot)].seq)

\* A slot, with the bytes of the file, gives a file.
Gives(h, l, d, f)    == HasEnd(l) /\ Replayed(h, l, d) = f
Recovers(h, l, d, f) == Gives(h[Newest(h)], l[Newest(h)], d, f)

\* What readers will see when the commit in progress is done.
CommitView ==
  LET u == txUpd[op.tx]
  IN  Contents(IF u.size = None THEN size ELSE u.size, Overlay(repl, u.writes), data)

RecoversInv ==
  /\ Up /\ op.pc # "sync" => Recovers(hdr, log, data, View)
  /\ op.pc = "sync" => Gives(hdr[curSlot], Cur, data, CommitView)

\* What a commit, a recovery and a compaction have done when it comes to the
\* step that makes recovery read something else.
ReadyInv ==
  /\ op.kind = "commit" => Fills(txUpd[op.tx])
  /\ op.kind = "reopen" /\ op.pc # "write" => repl = NoWrites
  /\ op.kind = "reopen" /\ op.pc \in {"end", "done"} => hdr[curSlot].size = size
  /\ At(Compacting, "apply") => data = Overlay(data, repl)
  /\ op.kind \in Compacting /\ op.pc \in {"header", "ids", "install"} => repl = NoWrites

ReplayInv == SeqInv /\ RecoversInv /\ ReadyInv

\* The slot with the next sequence number is the newest.
LEMMA NewestIs ==
  ASSUME NEW h \in [Slots -> Headers], NEW s \in Slots, h[s].seq = Succ(h[Other(s)].seq)
  PROVE  Newest(h) = s
<1>1. \A r \in Slots : h[r].seq \in Seqs
  BY DEF Headers
<1> DEFINE x == h[0].seq
           y == h[1].seq
<1>2. x \in Seqs /\ y \in Seqs /\ SeqHalf \in Nat \ {0, 1}
  BY <1>1, Constants DEF Slots
<1>3. CASE s = 0
  <2>1. x = Succ(y)
    BY <1>3 DEF Other
  <2> HIDE DEF x, y
  <2>2. Dist(y, x) = 1
    BY <1>2, <2>1 DEF Dist, Succ, Seqs, SeqMod
  <2>3. SortsBefore(y, x)
    BY <1>2, <2>2 DEF SortsBefore
  <2> QED BY <1>3, <2>3 DEF Newest, x, y
<1>4. CASE s = 1
  <2>1. y = Succ(x)
    BY <1>4 DEF Other
  <2> HIDE DEF x, y
  <2>2. Dist(y, x) = SeqMod - 1
    BY <1>2, <2>1 DEF Dist, Succ, Seqs, SeqMod
  <2>3. ~SortsBefore(y, x)
    BY <1>2, <2>2 DEF SortsBefore, SeqMod
  <2> QED BY <1>4, <2>3 DEF Newest, x, y
<1> QED BY <1>3, <1>4 DEF Slots

LEMMA NewestUp ==
  ASSUME TypeInv, HeadersInv, SeqInv, Up
  PROVE  Newest(hdr) = IF Switching THEN Other(curSlot) ELSE curSlot
<1>1. hdr \in [Slots -> Headers] /\ curSlot \in Slots /\ hdr[curSlot].seq = curSeq
  BY DEF TypeInv, TypeOK, HeadersInv
<1>2. CASE Switching
  <2>1. hdr[Other(curSlot)].seq = Succ(curSeq)
    BY <1>2 DEF HeadersInv, Switching
  <2> QED BY <1>1, <1>2, <2>1, NewestIs, Constants
<1>3. CASE ~Switching
  BY <1>1, <1>3, NewestIs DEF SeqInv
<1> QED BY <1>2, <1>3

\* Files are the same when their sizes are, and their bytes below the size.
LEMMA SameContents ==
  ASSUME NEW n, NEW w, NEW d, NEW v, NEW e
  PROVE  Contents(n, w, d) = Contents(n, v, e) <=>
           \A o \in Offs : ~(o >= n) => Overlay(d, w)[o] = Overlay(e, v)[o]
<1> DEFINE f == [o \in Offs |-> IF o >= n THEN Zero ELSE Overlay(d, w)[o]]
           g == [o \in Offs |-> IF o >= n THEN Zero ELSE Overlay(e, v)[o]]
<1>1. Contents(n, w, d) = Contents(n, v, e) <=> f = g
  BY DEF Contents
<1>2. f = g <=> \A o \in Offs : f[o] = g[o]
  OBVIOUS
<1>3. (\A o \in Offs : f[o] = g[o]) <=> \A o \in Offs : ~(o >= n) => Overlay(d, w)[o] = Overlay(e, v)[o]
  <2> HIDE DEF Overlay
  <2> QED OBVIOUS
<1> QED BY <1>1, <1>2, <1>3

LEMMA ContentsSize ==
  ASSUME NEW n, NEW w, NEW d, NEW m, NEW v, NEW e, Contents(n, w, d) = Contents(m, v, e)
  PROVE  n = m
BY DEF Contents

\* Pending writes over pending writes.
LEMMA Overlays ==
  ASSUME NEW d, NEW w, NEW o \in Offs
  PROVE  Overlay(d, w)[o] = IF w[o] # None THEN w[o] ELSE d[o]
BY DEF Overlay

\* A commit record: every byte that the transaction adds to the file is one
\* that it wrote.
LEMMA CommitContents ==
  ASSUME NEW n, NEW r, NEW w, NEW d, NEW u, NEW m,
         Contents(n, r, d) = Contents(n, w, d),
         m = IF u.size = None THEN n ELSE u.size,
         \A o \in Offs : u.size # None /\ o >= n /\ ~(o >= m) => u.writes[o] # None
  PROVE  Contents(m, Overlay(r, u.writes), d) = Contents(m, Overlay(w, u.writes), d)
<1>1. \A o \in Offs : ~(o >= n) => Overlay(d, r)[o] = Overlay(d, w)[o]
  BY SameContents
<1> SUFFICES ASSUME NEW o \in Offs, ~(o >= m)
             PROVE  Overlay(d, Overlay(r, u.writes))[o] = Overlay(d, Overlay(w, u.writes))[o]
  BY SameContents
<1>2. CASE u.writes[o] # None
  BY <1>2, Overlays
<1>3. CASE u.writes[o] = None
  <2>1. ~(o >= n)
    BY <1>3
  <2> QED BY <1>1, <1>3, <2>1, Overlays
<1> QED BY <1>2, <1>3

\* What compact_ writes into the file is what readers saw over it.
LEMMA WrittenContents ==
  ASSUME NEW n, NEW r, NEW w, NEW d, Contents(n, r, d) = Contents(n, w, d)
  PROVE  /\ Contents(n, r, Overlay(d, w)) = Contents(n, w, d)
         /\ Contents(n, w, Overlay(d, w)) = Contents(n, w, d)
<1>1. \A o \in Offs : ~(o >= n) => Overlay(d, r)[o] = Overlay(d, w)[o]
  BY SameContents
<1>2. \A o \in Offs : ~(o >= n) => Overlay(Overlay(d, w), r)[o] = Overlay(d, w)[o]
  BY <1>1, Overlays
<1>3. \A o \in Offs : Overlay(Overlay(d, w), w)[o] = Overlay(d, w)[o]
  BY Overlays
<1> QED BY <1>2, <1>3, SameContents

\* Nothing changes for readers, nor in what recovery reads.
LEMMA ReplayInvQuiet ==
  ASSUME TypeInv, HeadersInv, ReplayInv, UNCHANGED <<hdr, log, data, posVars, fileVars>>, Up, Up',
         op.pc # "sync", op'.pc # "sync", Switching' = Switching, ReadyInv'
  PROVE  ReplayInv'
<1>1. SeqInv'
  BY DEF ReplayInv, SeqInv, posVars
<1>2. View' = View
  BY DEF View, Up, fileVars
<1>3. RecoversInv'
  BY <1>2 DEF ReplayInv, RecoversInv, Recovers, Gives
<1> QED BY <1>1, <1>3 DEF ReplayInv

LEMMA ReplayInvInit == Init => ReplayInv
<1> SUFFICES ASSUME Init PROVE ReplayInv
  OBVIOUS
<1> USE Constants
<1>1. /\ op.kind = "idle" /\ op.pc = "idle" /\ Up /\ ~Switching
      /\ curSlot = 0 /\ curSeq = 0 /\ size = 0 /\ repl = NoWrites
      /\ log = [s \in Slots |-> NewSegment]
      /\ hdr = [s \in Slots |-> [seq |-> IF s = 0 THEN 0 ELSE SeqMod - 1, size |-> 0]]
  BY DEF Init, NewFile, NoIds, Idle, Call, Up, Switching
<1>2. /\ hdr[0].seq = 0 /\ hdr[1].seq = SeqMod - 1 /\ hdr[0].size = 0 /\ Succ(SeqMod - 1) = 0
      /\ Other(0) = 1
  BY <1>1 DEF Slots, Succ, Other
<1>3. SeqInv
  BY <1>1, <1>2 DEF SeqInv
<1>4. Newest(hdr) = 0
  BY <1>1, <1>2, <1>3, TypeInvInit, NewestIs DEF TypeInv, TypeOK
<1>5. log[0][1].kind = "end"
  BY <1>1, RecordTypes DEF NewSegment
<1>6. HasEnd(log[0]) /\ Body(log[0]) = {}
  <2>1. HasEnd(log[0]) /\ EndPos(log[0]) = 1
    BY <1>5, EndPosIs
  <2> QED BY <2>1 DEF Body
<1>7. Replayed(hdr[0], log[0], data) = Contents(0, NoWrites, data)
  BY <1>2, <1>6, ReplayNothing DEF Replayed
<1>8. Recovers(hdr, log, data, View)
  BY <1>1, <1>4, <1>6, <1>7 DEF Recovers, Gives, View
<1> QED BY <1>1, <1>3, <1>8 DEF ReplayInv, RecoversInv, ReadyInv, At, Compacting

\* The steps that append to the log.
LEMMA ReplayInvWriteBody ==
  ASSUME TypeInv, HeadersInv, LogInv, ReplayInv, WriteBody
  PROVE  ReplayInv'
<1> TypeOK /\ CallShape
  BY DEF TypeInv
<1> USE Constants
<1>1. /\ op.kind \in {"append", "commit"} /\ op.pc = "body" /\ Up /\ ~Switching
      /\ op' = [op EXCEPT !.pc = "flush"]
      /\ UNCHANGED <<hdr, data, curSlot, curSeq, size, repl, txUpd>>
  BY DEF WriteBody, At, Goto, Up, Switching, posVars, fileVars, txVars
<1>2. /\ op'.kind = op.kind /\ op'.pc = "flush" /\ op'.tx = op.tx /\ Up' /\ ~Switching'
  BY <1>1 DEF TypeOK, Calls, Up, Switching
<1>3. /\ HasEnd(Cur') /\ ReplayedWrites(Cur') = ReplayedWrites(Cur)
      /\ \A h : ReplayedSize(h, Cur') = ReplayedSize(h, Cur)
  BY LogInvWriteBody, SameLog
<1>4. SeqInv' /\ Newest(hdr) = curSlot
  BY <1>1, <1>2, NewestUp DEF ReplayInv, SeqInv
<1>5. Recovers(hdr, log', data, View)
  BY <1>1, <1>3, <1>4 DEF ReplayInv, RecoversInv, Recovers, Gives, Replayed, Cur
<1>6. RecoversInv'
  BY <1>1, <1>2, <1>5 DEF RecoversInv, View, Up
<1>7. ReadyInv'
  BY <1>1, <1>2 DEF ReplayInv, ReadyInv, At, Fills
<1> QED BY <1>4, <1>6, <1>7 DEF ReplayInv

LEMMA ReplayInvAppendMarker ==
  ASSUME TypeInv, HeadersInv, LogInv, ReplayInv, AppendMarker
  PROVE  ReplayInv'
<1> TypeOK /\ CallShape
  BY DEF TypeInv
<1> USE Constants
<1>1. /\ op.kind = "append" /\ op.pc = "marker" /\ Up /\ ~Switching
      /\ op' = Idle /\ op'.kind = "idle" /\ op'.pc = "idle" /\ Up' /\ ~Switching'
      /\ UNCHANGED <<hdr, data, curSlot, curSeq, size, repl>>
  BY DEF AppendMarker, At, Goto, Idle, Call, Up, Switching, posVars, fileVars
<1>2. Appended(Cur, Cur', op.rec) /\ op.rec.kind # "commit"
  BY <1>1, MarkerAppends DEF CallShape
<1>3. /\ HasEnd(Cur') /\ ReplayedWrites(Cur') = ReplayedWrites(Cur)
      /\ \A h : ReplayedSize(h, Cur') = ReplayedSize(h, Cur)
  BY <1>2, AppendedEnd, AppendedRecord
<1>4. SeqInv' /\ Newest(hdr) = curSlot
  BY <1>1, NewestUp DEF ReplayInv, SeqInv
<1>5. Recovers(hdr, log', data, View)
  BY <1>1, <1>3, <1>4 DEF ReplayInv, RecoversInv, Recovers, Gives, Replayed, Cur
<1>6. RecoversInv'
  BY <1>1, <1>5 DEF RecoversInv, View, Up
<1>7. ReadyInv'
  BY <1>1 DEF ReadyInv, At, Compacting
<1> QED BY <1>4, <1>6, <1>7 DEF ReplayInv

LEMMA ReplayInvCommitMarker ==
  ASSUME TypeInv, HeadersInv, LogInv, ReplayInv, CommitMarker
  PROVE  ReplayInv'
<1> TypeOK /\ CallShape
  BY DEF TypeInv
<1> USE Constants
<1> DEFINE u == txUpd[op.tx]
<1>1. /\ op.kind = "commit" /\ op.pc = "marker" /\ Up /\ ~Switching /\ op.tx \in Txs
      /\ op' = [op EXCEPT !.pc = "sync"]
      /\ UNCHANGED <<hdr, data, curSlot, curSeq, size, repl, txUpd>>
  BY DEF CommitMarker, At, Goto, Up, Switching, CallShape, posVars, fileVars, txVars
<1>2. /\ op'.kind = "commit" /\ op'.pc = "sync" /\ op'.tx = op.tx /\ Up' /\ ~Switching'
  BY <1>1 DEF TypeOK, Calls, Up, Switching
<1>3. SeqInv' /\ Newest(hdr) = curSlot
  BY <1>1, <1>2, NewestUp DEF ReplayInv, SeqInv
<1>4. /\ Appended(Cur, Cur', op.rec) /\ op.rec.kind = "commit" /\ Cur \in [Cells -> Records]
      /\ LoggedIn(Cur, op.rec.id, u) /\ u \in Updates
  BY <1>1, MarkerAppends, LogTypes DEF LogInv, CallInv, LoggedInv, TypeOK
<1> DEFINE w == ReplayedWrites(Cur)
           n == ReplayedSize(hdr[curSlot], Cur)
           m == IF u.size = None THEN size ELSE u.size
<1>5. Contents(n, w, data) = Contents(size, repl, data)
  BY <1>1, <1>3 DEF ReplayInv, RecoversInv, Recovers, Gives, Replayed, View, Up, Cur
<1>6. n = size
  <2> HIDE DEF n, w
  <2> QED BY <1>5, ContentsSize
<1>7. /\ HasEnd(Cur') /\ ReplayedWrites(Cur') = Overlay(w, u.writes)
      /\ ReplayedSize(hdr[curSlot], Cur') = m
  <2> DEFINE l == Cur
             k == Cur'
             rec == op.rec
  <2>1. /\ l \in [Cells -> Records] /\ Appended(l, k, rec) /\ rec.kind = "commit"
        /\ LoggedIn(l, rec.id, u)
    BY <1>4
  <2>2. HasEnd(k)
    BY <1>4, AppendedEnd
  <2> HIDE DEF l, k, rec, u
  <2>3. /\ ReplayedWrites(k) = Overlay(ReplayedWrites(l), u.writes)
        /\ \A h : ReplayedSize(h, k) = IF u.size = None THEN ReplayedSize(h, l) ELSE u.size
    BY <2>1, AppendedCommit
  <2> QED BY <2>2, <2>3, <1>6 DEF l, k
<1>8. \A o \in Offs : u.size # None /\ o >= size /\ ~(o >= m) => u.writes[o] # None
  <2>1. Fills(u)
    BY <1>1 DEF ReplayInv, ReadyInv
  <2>2. \A o \in Offs : u.size # None /\ ~(o >= m) => o < u.size
    <3>1. u.size # None => u.size \in Int
      BY <1>4 DEF Updates, Sizes
    <3> HIDE DEF u
    <3> QED BY <3>1 DEF Offs
  <2> HIDE DEF u, m
  <2> QED BY <2>1, <2>2 DEF Fills
<1>9. Contents(m, Overlay(w, u.writes), data) = Contents(m, Overlay(repl, u.writes), data)
  <2>1. Contents(size, w, data) = Contents(size, repl, data)
    BY <1>5, <1>6
  <2>2. m = IF u.size = None THEN size ELSE u.size
    OBVIOUS
  <2> HIDE DEF w, n, m, u
  <2> QED BY <1>8, <2>1, <2>2, CommitContents
<1>10. Gives(hdr[curSlot], Cur', data, CommitView)
  BY <1>7, <1>9 DEF Gives, Replayed, CommitView
<1>11. CommitView' = CommitView
  BY <1>1, <1>2 DEF CommitView
<1>12. RecoversInv'
  BY <1>1, <1>2, <1>10, <1>11 DEF RecoversInv
<1>13. ReadyInv'
  BY <1>1, <1>2 DEF ReplayInv, ReadyInv, At, Fills
<1> QED BY <1>3, <1>12, <1>13 DEF ReplayInv

\* The bytes past the size are cut off, where nobody reads them.
LEMMA TruncatedContents ==
  ASSUME NEW n, NEW w, NEW d
  PROVE  Contents(n, Truncated(w, n), d) = Contents(n, w, d)
<1>1. \A o \in Offs : ~(o >= n) => Truncated(w, n)[o] = w[o]
  BY DEF Truncated
<1>2. \A o \in Offs : ~(o >= n) => Overlay(d, Truncated(w, n))[o] = Overlay(d, w)[o]
  BY <1>1, Overlays
<1> QED BY <1>2, SameContents

LEMMA CommitDoneView ==
  ASSUME TypeInv, CommitDone
  PROVE  Contents(size', repl', data) = CommitView
<1> DEFINE u == txUpd[op.tx]
           w == Overlay(repl, u.writes)
<1>1. CASE u.size = None
  <2>1. size' = size /\ repl' = w
    BY <1>1 DEF CommitDone
  <2> QED BY <1>1, <2>1 DEF CommitView
<1>2. CASE u.size # None
  <2>1. size' = u.size /\ repl' = Truncated(w, u.size)
    BY <1>2 DEF CommitDone
  <2>2. CommitView = Contents(u.size, w, data)
    BY <1>2 DEF CommitView
  <2> HIDE DEF w, u
  <2> QED BY <2>1, <2>2, TruncatedContents
<1> QED BY <1>1, <1>2

LEMMA ReplayInvCommitDone ==
  ASSUME TypeInv, HeadersInv, ReplayInv, CommitDone
  PROVE  ReplayInv'
<1> TypeOK /\ CallShape
  BY DEF TypeInv
<1>1. /\ op.kind = "commit" /\ op.pc = "sync" /\ Up /\ ~Switching
      /\ op' = Idle /\ op'.kind = "idle" /\ op'.pc = "idle" /\ Up' /\ ~Switching'
      /\ UNCHANGED <<hdr, log, data, curSlot, curSeq>>
  BY DEF CommitDone, At, Idle, Call, Up, Switching, diskVars
<1>2. SeqInv' /\ Newest(hdr) = curSlot
  BY <1>1, NewestUp DEF ReplayInv, SeqInv
<1>3. View' = CommitView
  BY <1>1, CommitDoneView DEF View
<1>4. Recovers(hdr, log, data, CommitView)
  BY <1>1, <1>2 DEF ReplayInv, RecoversInv, Recovers, Cur
<1>5. RecoversInv'
  BY <1>1, <1>3, <1>4 DEF RecoversInv
<1>6. ReadyInv'
  BY <1>1 DEF ReadyInv, At, Compacting
<1> QED BY <1>2, <1>5, <1>6 DEF ReplayInv

\* The steps of compact_.
LEMMA ReplayInvCopy ==
  ASSUME TypeInv, IdsInv, HeadersInv, LogInv, ReplayInv, CompactCopy
  PROVE  ReplayInv'
<1> TypeOK /\ CallShape
  BY DEF TypeInv
<1>1. /\ op.kind \in Compacting /\ op.pc = "copy" /\ Up /\ ~Switching
      /\ op' = [op EXCEPT !.pc = "write"]
      /\ UNCHANGED <<hdr, data, curSlot, curSeq, size, repl, txUpd>>
  BY DEF CompactCopy, At, Goto, Compacting, Up, Switching, posVars, fileVars, txVars
<1>2. /\ op'.kind = op.kind /\ op'.pc = "write" /\ op'.tx = op.tx /\ Up' /\ ~Switching'
  BY <1>1 DEF TypeOK, Calls, Up, Switching
<1>3. SeqInv' /\ Newest(hdr) = curSlot
  BY <1>1, <1>2, NewestUp DEF ReplayInv, SeqInv
<1>4. log'[curSlot] = log[curSlot]
  BY <1>1, LogInvCopy DEF Cur
<1>5. Recovers(hdr, log', data, View)
  BY <1>1, <1>3, <1>4 DEF ReplayInv, RecoversInv, Recovers
<1>6. RecoversInv'
  BY <1>1, <1>2, <1>5 DEF RecoversInv, View, Up
<1>7. ReadyInv'
  BY <1>1, <1>2 DEF ReplayInv, ReadyInv, At, Fills, Compacting
<1> QED BY <1>3, <1>6, <1>7 DEF ReplayInv

LEMMA ReplayInvWrite ==
  ASSUME TypeInv, HeadersInv, ReplayInv, CompactWrite
  PROVE  ReplayInv'
<1> TypeOK /\ CallShape
  BY DEF TypeInv
<1>1. /\ op.kind \in Compacting /\ op.pc = "write" /\ Up /\ ~Switching
      /\ op' = [op EXCEPT !.pc = "apply"] /\ data' = Overlay(data, repl)
      /\ UNCHANGED <<hdr, log, curSlot, curSeq, size, repl, txUpd>>
  BY DEF CompactWrite, At, Goto, Compacting, Up, Switching, posVars, fileVars, txVars
<1>2. /\ op'.kind = op.kind /\ op'.pc = "apply" /\ op'.tx = op.tx /\ Up' /\ ~Switching'
  BY <1>1 DEF TypeOK, Calls, Up, Switching
<1>3. SeqInv' /\ Newest(hdr) = curSlot
  BY <1>1, <1>2, NewestUp DEF ReplayInv, SeqInv
<1> DEFINE r == ReplayedWrites(Cur)
           n == ReplayedSize(hdr[curSlot], Cur)
<1>4. HasEnd(Cur) /\ Contents(n, r, data) = Contents(size, repl, data)
  BY <1>1, <1>3 DEF ReplayInv, RecoversInv, Recovers, Gives, Replayed, View, Up, Cur
<1>5. Contents(n, r, data') = Contents(size, repl, data')
  <2> HIDE DEF n, r
  <2>1. n = size
    BY <1>4, ContentsSize
  <2> QED BY <1>1, <1>4, <2>1, WrittenContents
<1>6. Recovers(hdr, log, data', Contents(size, repl, data'))
  BY <1>3, <1>4, <1>5 DEF Recovers, Gives, Replayed, Cur
<1>7. RecoversInv'
  BY <1>1, <1>2, <1>6 DEF RecoversInv, View, Up
<1>8. data' = Overlay(data', repl)
  <2>1. \A o \in Offs : Overlay(data, repl)[o] = Overlay(Overlay(data, repl), repl)[o]
    BY Overlays
  <2>2. \A d : Overlay(d, repl) = [o \in Offs |-> Overlay(d, repl)[o]]
    BY DEF Overlay
  <2> HIDE DEF Overlay
  <2>3. Overlay(data, repl) = Overlay(Overlay(data, repl), repl)
    <3>1. [o \in Offs |-> Overlay(data, repl)[o]] = [o \in Offs |-> Overlay(Overlay(data, repl), repl)[o]]
      BY <2>1
    <3> QED BY <2>2, <3>1
  <2> QED BY <1>1, <2>3
<1>9. ReadyInv'
  <2>1. data' = Overlay(data', repl') /\ UNCHANGED <<size, repl, txUpd>>
    BY <1>1, <1>8
  <2>2. op.kind = "commit" => Fills(txUpd[op.tx])
    BY DEF ReplayInv, ReadyInv
  <2> QED BY <1>1, <1>2, <2>1, <2>2 DEF ReadyInv, At, Fills, Compacting
<1> QED BY <1>3, <1>7, <1>9 DEF ReplayInv

LEMMA ReplayInvApply ==
  ASSUME TypeInv, HeadersInv, ReplayInv, CompactApply
  PROVE  ReplayInv'
<1> TypeOK /\ CallShape
  BY DEF TypeInv
<1>1. /\ op.kind \in Compacting /\ op.pc = "apply" /\ Up /\ ~Switching
      /\ op' = [op EXCEPT !.pc = "header"] /\ repl' = NoWrites
      /\ UNCHANGED <<hdr, log, data, curSlot, curSeq, size, txUpd>>
  BY DEF CompactApply, At, Goto, Compacting, Up, Switching, diskVars, posVars, txVars
<1>2. /\ op'.kind = op.kind /\ op'.pc = "header" /\ op'.tx = op.tx /\ Up' /\ ~Switching'
  BY <1>1 DEF TypeOK, Calls, Up, Switching
<1>3. SeqInv' /\ Newest(hdr) = curSlot
  BY <1>1, <1>2, NewestUp DEF ReplayInv, SeqInv
<1>4. Contents(size, NoWrites, data) = Contents(size, repl, data)
  <2>1. data = Overlay(data, repl)
    BY <1>1 DEF ReplayInv, ReadyInv, At
  <2>2. \A o \in Offs : Overlay(data, NoWrites)[o] = data[o]
    BY Overlays DEF NoWrites
  <2> QED BY <2>1, <2>2, SameContents
<1>5. View' = View
  BY <1>1, <1>2, <1>4 DEF View, Up
<1>6. RecoversInv'
  BY <1>1, <1>2, <1>5 DEF ReplayInv, RecoversInv, Recovers, Gives
<1>7. ReadyInv'
  BY <1>1, <1>2 DEF ReplayInv, ReadyInv, At, Fills
<1> QED BY <1>3, <1>6, <1>7 DEF ReplayInv

LEMMA HeaderTypes ==
  ASSUME TypeInv
  PROVE  /\ NewHeader \in Headers /\ NewHeader.seq = Succ(curSeq) /\ NewHeader.size = size
BY Constants DEF TypeInv, TypeOK, NewHeader, Headers

LEMMA ReplayInvHeader ==
  ASSUME TypeInv, HeadersInv, LogInv, ReplayInv, CompactHeader
  PROVE  ReplayInv'
<1> TypeOK /\ CallShape
  BY DEF TypeInv
<1> USE Constants
<1> DEFINE s == Other(curSlot)
<1>1. /\ op.kind \in Compacting /\ op.pc = "header" /\ Up /\ ~Switching /\ SlotMade
      /\ op' = [op EXCEPT !.pc = "ids"] /\ hdr' = [hdr EXCEPT ![s] = NewHeader]
      /\ UNCHANGED <<log, data, curSlot, curSeq, size, repl, txUpd>>
  BY DEF CompactHeader, At, Goto, Compacting, Up, Switching, SlotMade, CompactPCs, posVars, fileVars, txVars
<1>2. /\ op'.kind = op.kind /\ op'.pc = "ids" /\ op'.tx = op.tx /\ Up' /\ Switching'
  BY <1>1 DEF TypeOK, Calls, Up, Switching
<1>3. /\ s \in Slots /\ Other(s) = curSlot /\ hdr'[s] = NewHeader /\ hdr'[curSlot] = hdr[curSlot]
      /\ hdr' \in [Slots -> Headers] /\ hdr[curSlot].seq = curSeq
  BY <1>1, HeaderTypes DEF TypeOK, HeadersInv
<1>4. Newest(hdr') = s
  BY <1>3, HeaderTypes, NewestIs
<1>5. /\ HasEnd(Made) /\ ReplayedWrites(Made) = NoWrites /\ ReplayedSize(hdr'[s], Made) = size
      /\ repl = NoWrites
  <2>1. HasEnd(Made) /\ \A p \in Body(Made) : Made[p].kind # "commit"
    BY <1>1, LogTypes DEF LogInv, MadeInv
  <2> QED BY <1>1, <1>3, <2>1, HeaderTypes, ReplayNothing DEF ReplayInv, ReadyInv
<1>6. Recovers(hdr', log, data, Contents(size, repl, data))
  BY <1>4, <1>5 DEF Recovers, Gives, Replayed, Made
<1>7. RecoversInv'
  BY <1>1, <1>2, <1>6 DEF RecoversInv, View, Up
<1>8. ReadyInv'
  BY <1>1, <1>2, <1>5 DEF ReplayInv, ReadyInv, At, Fills
<1>9. SeqInv'
  BY <1>2 DEF SeqInv
<1> QED BY <1>7, <1>8, <1>9 DEF ReplayInv

LEMMA ReplayInvInstall ==
  ASSUME TypeInv, HeadersInv, ReplayInv, CompactInstall
  PROVE  ReplayInv'
<1> TypeOK /\ CallShape
  BY DEF TypeInv
<1> USE Constants
<1>1. /\ op.kind \in Compacting /\ op.pc = "install" /\ Up /\ Switching
      /\ curSlot' = Other(curSlot) /\ curSeq' = Succ(curSeq)
      /\ \/ op' = [op EXCEPT !.pc = "body"] /\ op.kind \in {"append", "commit"}
         \/ op' = Idle
      /\ UNCHANGED <<hdr, log, data, size, repl, txUpd>>
  BY DEF CompactInstall, At, Goto, Compacting, Up, Switching, diskVars, fileVars, txVars
<1>2. /\ Up' /\ ~Switching' /\ op'.pc \in {"body", "idle"} /\ op'.kind \in Compacting \union {"idle"}
      /\ op'.kind = "commit" => op.kind = "commit" /\ op'.tx = op.tx
  <2>1. CASE op' = Idle
    BY <2>1 DEF Idle, Call, Up, Switching, Compacting
  <2>2. CASE op' = [op EXCEPT !.pc = "body"] /\ op.kind \in {"append", "commit"}
    BY <2>2 DEF TypeOK, Calls, Up, Switching, Compacting
  <2> QED BY <1>1, <2>1, <2>2
<1>3. SeqInv'
  <2>1. hdr[curSlot].seq = curSeq /\ Other(Other(curSlot)) = curSlot
    BY <1>1 DEF HeadersInv, TypeOK
  <2> QED BY <1>1, <2>1 DEF SeqInv
<1>4. RecoversInv'
  BY <1>1, <1>2 DEF ReplayInv, RecoversInv, Recovers, Gives, View, Up
<1>5. ReadyInv'
  BY <1>1, <1>2 DEF ReplayInv, ReadyInv, At, Fills, Compacting
<1> QED BY <1>3, <1>4, <1>5 DEF ReplayInv

\* A recovery is done when the slot it made, empty, gives what it read.
LEMMA ReplayInvRecovery ==
  ASSUME TypeInv, HeadersInv, LogInv, ReplayInv, Recovery
  PROVE  ReplayInv'
<1> TypeOK /\ CallShape
  BY DEF TypeInv
<1> USE Constants
<1>1. CASE RecoverDone
  <2>1. /\ op.kind = "reopen" /\ op.pc = "done" /\ op'.kind = "idle" /\ op'.pc = "idle"
        /\ UNCHANGED <<hdr, log, data, curSlot, curSeq, size, repl>> /\ Up' /\ ~Switching'
    BY <1>1 DEF RecoverDone, At, Idle, Call, Up, Switching, diskVars, posVars, fileVars
  <2>2. /\ curSeq = Succ(hdr[Other(curSlot)].seq) /\ hdr[curSlot].seq = curSeq
        /\ repl = NoWrites /\ hdr[curSlot].size = size
    BY <2>1 DEF HeadersInv, ReplayInv, ReadyInv
  <2>3. SeqInv' /\ Newest(hdr) = curSlot
    BY <2>1, <2>2, NewestIs DEF SeqInv, TypeOK
  <2>4. HasEnd(Cur) /\ Body(Cur) = {}
    <3>1. Cur[1].kind = "end"
      BY <2>1, RecordTypes DEF LogInv, ReopenInv, At
    <3>2. HasEnd(Cur) /\ EndPos(Cur) = 1
      BY <3>1, EndPosIs
    <3> QED BY <3>2 DEF Body
  <2>5. Replayed(hdr[curSlot], Cur, data) = Contents(size, repl, data)
    BY <2>2, <2>4, ReplayNothing DEF Replayed
  <2>6. RecoversInv'
    BY <2>1, <2>3, <2>4, <2>5 DEF RecoversInv, Recovers, Gives, View, Cur
  <2>7. ReadyInv'
    BY <2>1 DEF ReadyInv, At, Compacting
  <2> QED BY <2>3, <2>6, <2>7 DEF ReplayInv
<1>2. CASE ~RecoverDone
  <2>1. /\ op'.kind = "reopen" /\ op'.pc \in {"write", "flush", "seq", "size", "end", "done"}
    BY <1>2 DEF Recovery, RecoverRead, RecoverWrite, RecoverFlush, RecoverSeq, RecoverSize, RecoverEnd,
                At, Goto, Call, TypeOK, Calls
  <2>2. op'.pc # "write" => repl' = NoWrites
    BY <1>2 DEF Recovery, RecoverRead, RecoverWrite, RecoverFlush, RecoverSeq, RecoverSize, RecoverEnd,
                At, Goto, Call, TypeOK, Calls, fileVars, ReplayInv, ReadyInv
  <2>3. op'.pc \in {"end", "done"} => hdr'[curSlot'].size = size'
    <3>1. CASE RecoverSize
      <4>1. hdr' = [hdr EXCEPT ![curSlot] = [hdr[curSlot] EXCEPT !.size = size]]
            /\ curSlot' = curSlot /\ size' = size
        BY <3>1 DEF RecoverSize, fileVars
      <4>2. [hdr[curSlot] EXCEPT !.size = size].size = size
        BY DEF TypeOK, Headers
      <4> QED BY <4>1, <4>2 DEF TypeOK
    <3>2. CASE RecoverEnd
      BY <3>2 DEF RecoverEnd, At, ReplayInv, ReadyInv, posVars, fileVars
    <3>3. CASE RecoverRead \/ RecoverWrite \/ RecoverFlush \/ RecoverSeq
      BY <3>3 DEF RecoverRead, RecoverWrite, RecoverFlush, RecoverSeq, At, Goto, Call, TypeOK, Calls
    <3> QED BY <1>2, <3>1, <3>2, <3>3 DEF Recovery
  <2>4. ReadyInv'
    BY <2>1, <2>2, <2>3 DEF ReadyInv, At, Compacting
  <2>5. SeqInv' /\ RecoversInv'
    BY <2>1 DEF SeqInv, RecoversInv, Up
  <2> QED BY <2>4, <2>5 DEF ReplayInv
<1> QED BY <1>1, <1>2

LEMMA ReplayInvNext ==
  ASSUME FillOnGrow
  PROVE  TypeInv /\ IdsInv /\ HeadersInv /\ LogInv /\ ReplayInv /\ [Next]_vars => ReplayInv'
<1> SUFFICES ASSUME TypeInv, IdsInv, HeadersInv, LogInv, ReplayInv, [Next]_vars PROVE ReplayInv'
  OBVIOUS
<1> TypeOK /\ CallShape
  BY DEF TypeInv
<1>1. CASE Client \/ Compact
  <2>1. /\ UNCHANGED <<hdr, log, data, posVars, fileVars>> /\ Up
    BY <1>1 DEF Client, Compact, Begin, BeginCompacts, Rollback, Write, Resize, Commit, Enter,
                MayRun, Up, diskVars
  <2>2. CASE op' = op
    <3>1. Up' /\ op.pc # "sync" /\ op'.pc # "sync"
      <4>1. op.kind = "idle" \/ ~AllocLocked
        BY <1>1, <2>2 DEF Client, Compact, Begin, BeginCompacts, Rollback, Write, Resize, Commit, Enter,
                          MayRun
      <4> QED BY <2>1, <2>2, <4>1 DEF Up, AllocLocked, CallShape, CompactPCs, TypeOK, Calls
    <3>2. op.kind = "commit" => txUpd'[op.tx] = txUpd[op.tx]
      BY <1>1, <2>2 DEF Client, Compact, Begin, BeginCompacts, Rollback, Write, Resize, Commit, Enter,
                        Forget, TypeOK, CallShape, txVars
    <3>3. ReadyInv'
      BY <2>1, <2>2, <3>2 DEF ReplayInv, ReadyInv, At, Fills, posVars, fileVars
    <3> QED BY <2>1, <2>2, <3>1, <3>3, ReplayInvQuiet DEF Switching
  <2>3. CASE op' # op
    <3>1. op.kind = "idle" /\ op'.pc \in {"body", "copy"} /\ op'.kind \in Compacting /\ txUpd' = txUpd
      BY <1>1, <2>3 DEF Client, Compact, Begin, BeginCompacts, Rollback, Write, Resize, Commit, Enter,
                        Call, Compacting, txVars
    <3>2. op'.kind = "commit" => op'.tx \in Txs /\ Fills(txUpd[op'.tx])
      BY <1>1, <2>3 DEF Client, Compact, Begin, BeginCompacts, Rollback, Write, Resize, Commit, Enter, Call
    <3>3. Up' /\ op.pc # "sync" /\ Switching' = Switching
      BY <3>1 DEF Up, CallShape, Switching, Compacting
    <3>4. ReadyInv'
      BY <2>1, <3>1, <3>2 DEF ReadyInv, At, Fills, Compacting, fileVars
    <3> QED BY <2>1, <3>1, <3>3, <3>4, ReplayInvQuiet
  <2> QED BY <2>2, <2>3
<1>2. CASE FlushBody \/ CompactIds
  <2>1. /\ UNCHANGED <<hdr, log, data, posVars, fileVars, txUpd>>
        /\ op.kind \in Compacting /\ op'.kind = op.kind /\ op'.tx = op.tx
        /\ \/ op.pc = "flush" /\ op'.pc = "marker"
           \/ op.pc = "ids" /\ op'.pc = "install"
    BY <1>2 DEF FlushBody, CompactIds, At, Goto, Compacting, TypeOK, Calls, diskVars, txVars
  <2>2. Up /\ Up' /\ Switching' = Switching
    BY <2>1 DEF Up, Switching, Compacting
  <2>3. ReadyInv'
    BY <2>1 DEF ReplayInv, ReadyInv, At, Fills, fileVars, Compacting
  <2> QED BY <2>1, <2>2, <2>3, ReplayInvQuiet
<1>3. CASE UNCHANGED vars
  <2>1. UNCHANGED <<hdr, log, data, curSlot, curSeq, size, repl, txUpd, op>> /\ UNCHANGED Cur
    BY <1>3 DEF vars, diskVars, posVars, fileVars, txVars, Cur
  <2>2. Up' = Up /\ Switching' = Switching /\ View' = View /\ CommitView' = CommitView
    BY <2>1 DEF Up, Switching, View, CommitView
  <2>3. SeqInv' /\ ReadyInv'
    BY <2>1, <2>2 DEF ReplayInv, SeqInv, ReadyInv, At, Fills
  <2>4. RecoversInv'
    BY <2>1, <2>2 DEF ReplayInv, RecoversInv, Recovers, Gives
  <2> QED BY <2>3, <2>4 DEF ReplayInv
<1>4. CASE ProcessCrash \/ SystemCrash
  <2>1. op'.kind = "down" /\ op'.pc = "down"
    BY <1>4 DEF ProcessCrash, SystemCrash, LoseProgram, Down, Call
  <2> QED BY <2>1 DEF ReplayInv, SeqInv, RecoversInv, ReadyInv, Up, At, Compacting
<1> QED BY <1>1, <1>2, <1>3, <1>4, ReplayInvWriteBody, ReplayInvAppendMarker, ReplayInvCommitMarker,
           ReplayInvCommitDone, ReplayInvCopy, ReplayInvWrite, ReplayInvApply, ReplayInvHeader,
           ReplayInvInstall, ReplayInvRecovery
        DEF Next, Append, Compaction

LEMMA ReplayInvAlways ==
  ASSUME FillOnGrow, Rollbacks => ~MultiThreaded
  PROVE  Spec => [](TypeInv /\ IdsInv /\ HeadersInv /\ LogInv /\ ReplayInv)
<1>1. TypeInv /\ IdsInv /\ HeadersInv /\ LogInv /\ ReplayInv /\ [Next]_vars => ReplayInv'
  BY ReplayInvNext
<1>2. Spec => [](TypeInv /\ IdsInv /\ LogInv)
  BY LogInvAlways
<1> QED BY <1>1, <1>2, HeadersInvAlways, ReplayInvInit, PTL DEF Spec

\* At any moment outside the last step of a commit, recovery would give the
\* file that readers see: the same bytes and the same size, however appends,
\* commits and compactions of any number of transactions interleave, and after
\* any crash and recovery.  Clients write the bytes that they add to a file:
\* a byte that a transaction adds without writing it may be an older write in
\* the one and what the file has in the other.
THEOREM ReadersSeeTheLog ==
  ASSUME FillOnGrow, Rollbacks => ~MultiThreaded
  PROVE  Spec => []RecoveryAgrees
<1>1. RecoversInv => RecoveryAgrees
  <2> SUFFICES ASSUME RecoversInv, Up, op.pc # "sync" PROVE RecoveryAgrees
    BY DEF RecoveryAgrees
  <2>1. View = Contents(size, repl, data)
    BY DEF View, Up
  <2> QED BY <2>1 DEF RecoversInv, Recovers, Gives, RecoveryAgrees
<1>2. ReplayInv => RecoversInv
  BY DEF ReplayInv
<1> QED BY <1>1, <1>2, ReplayInvAlways, PTL

-------------------------------------------------------------------------------
(***************************************************************************)
(* Crashes.  What a crash of the system would leave of the cells, with     *)
(* every unflushed one lost or not, recovers to what readers see; in the   *)
(* last step of a commit, to that or to what they will see.                *)
(*                                                                         *)
(* This holds where the code is sound.  It is not where one of these is    *)
(* allowed, and for each TLC finds a committed transaction lost, or a part *)
(* of one: a transaction that adds bytes without writing them; a crash     *)
(* while recovery starts its segment; a crash of the system after one of   *)
(* the process, before the recovery in between has flushed what it read; a *)
(* rollback beside a compaction, or with crashes of the system.            *)
(***************************************************************************)
Sound ==
  /\ FillOnGrow
  /\ ~ReopenCrash
  /\ ~({"process", "system"} \subseteq Crashes)
  /\ Rollbacks => ~MultiThreaded /\ "system" \notin Crashes

\* Cells may be lost, or two compactions without a commit between them show
\* what would happen if they were: not where transactions roll back.
Lossy == "system" \in Crashes \/ (Up /\ ~Rollbacks)

AFile(h, l, d) ==
  /\ h \in [Slots -> Headers]
  /\ l \in [Slots -> [Cells -> Records]]
  /\ d \in [Offs -> Bytes]

PartlyLost(h, l, d) ==
  /\ AFile(h, l, d)
  /\ \A s \in Slots : h[s] \in {hdr[s], hdrD[s]}
  /\ \A s \in Slots : \A p \in Cells : l[s][p] \in {log[s][p], logD[s][p]}
  /\ \A o \in Offs : d[o] \in {data[o], dataD[o]}

Survives(h, l, d) == \/ h = hdr /\ l = log /\ d = data
                     \/ Lossy /\ PartlyLost(h, l, d)

\* The steps of a recovery that start its segment.
Opening == op.kind = "reopen" /\ op.pc \in {"size", "end", "done"}

SurviveInv ==
  /\ op.pc # "sync" /\ ~Opening =>
       \A h, l, d : Survives(h, l, d) => Recovers(h, l, d, View)
  /\ op.pc = "sync" =>
       \A h, l, d : Survives(h, l, d) => Recovers(h, l, d, View) \/ Recovers(h, l, d, CommitView)

\* What has to be flushed when.
Flushed == hdrD = hdr /\ logD = log /\ dataD = data

FlushedInv ==
  /\ op.pc \in {"marker", "header", "seq"} => Flushed
  /\ op.pc \in {"header", "ids", "install"} => logD = log
  /\ op.kind \in Compacting /\ op.pc \in {"copy", "write", "apply", "header"} => completed # 0

\* The log that was flushed ends where the log does, or before.
TailInv == Up /\ op.pc # "sync" => logD[curSlot][slotOff].kind = "end"

\* The header of a compaction is flushed before the next one copies anything:
\* by the commit without which the next one would not run.  One that was not
\* flushed is still the header before.
HeadInv ==
  /\ Up /\ Lossy /\ completed # 0 /\ ~Switching => hdrD = hdr
  /\ Up => \A s \in Slots : hdrD[s] = hdr[s] \/ hdr[Other(s)].seq = Succ(hdrD[s].seq)

DoneInv == At({"reopen"}, "done") => Recovers(hdr, log, data, View)

DurableInv == FlushedInv /\ TailInv /\ HeadInv /\ DoneInv

LEMMA DurableInvInit == Init => DurableInv
<1> SUFFICES ASSUME Init PROVE DurableInv
  OBVIOUS
<1>1. /\ op.kind = "idle" /\ op.pc = "idle" /\ completed = 0 /\ hdrD = hdr /\ logD = log /\ dataD = data
      /\ curSlot = 0 /\ slotOff = 1 /\ log = [s \in Slots |-> NewSegment]
  BY DEF Init, NewFile, NoIds, Idle, Call
<1>2. logD[0][1].kind = "end"
  BY <1>1, Constants, RecordTypes DEF NewSegment
<1> QED BY <1>1, <1>2 DEF DurableInv, FlushedInv, TailInv, HeadInv, DoneInv, At

\* After a flush.
LEMMA DurableInvFlush ==
  ASSUME TypeInv', LogInv', Flushed', ~At({"reopen"}, "done")',
         (op'.kind \in Compacting /\ op'.pc \in {"copy", "write", "apply", "header"}) => completed' # 0
  PROVE  DurableInv'
<1>1. FlushedInv' /\ HeadInv' /\ DoneInv'
  BY DEF FlushedInv, HeadInv, DoneInv, Flushed
<1>2. TailInv'
  <2> SUFFICES ASSUME Up', op'.pc # "sync" PROVE logD'[curSlot'][slotOff'].kind = "end"
    BY DEF TailInv
  <2>1. HasEnd(log'[curSlot']) /\ EndPos(log'[curSlot']) = slotOff'
    BY DEF TypeInv, SlotsEnd, LogInv, EndInv, Cur
  <2>2. log'[curSlot'][slotOff'].kind = "end"
    BY <2>1, EndPosFirst
  <2> QED BY <2>2 DEF Flushed
<1> QED BY <1>1, <1>2 DEF DurableInv

LEMMA DurableInvClient ==
  ASSUME Sound, TypeInv, DurableInv, Client \/ Compact
  PROVE  DurableInv'
<1> TypeOK /\ CallShape
  BY DEF TypeInv
<1>1. UNCHANGED <<hdr, log, data, hdrD, logD, dataD, curSlot, slotOff>> /\ Up
  BY DEF Client, Compact, Begin, BeginCompacts, Rollback, Write, Resize, Commit, Enter,
         MayRun, Up, diskVars, durVars, posVars
<1>2. completed' = completed \/ (Rollbacks /\ completed' = completed + 1)
  BY DEF Client, Compact, Begin, BeginCompacts, Rollback, Write, Resize, Commit, Enter, Finish, allocVars
<1>3. \/ op' = op
      \/ /\ op'.pc = "copy" => completed # 0 /\ completed' = completed
         /\ op.kind = "idle" /\ op'.kind \in Compacting /\ op'.pc \in {"copy", "body"}
         /\ completed' = completed
  BY DEF Client, Compact, Begin, BeginCompacts, Rollback, Write, Resize, Commit, Enter, Call,
         Compacting, allocVars
<1>4. completed \in Nat
  BY DEF TypeOK
<1>5. CASE op' = op
  <2>1. Up' = Up /\ Switching' = Switching /\ Lossy' = Lossy
    BY <1>5 DEF Up, Switching, Lossy
  <2>2. FlushedInv'
    BY <1>1, <1>2, <1>4, <1>5 DEF DurableInv, FlushedInv, Flushed
  <2>3. TailInv'
    BY <1>1, <1>5, <2>1 DEF DurableInv, TailInv
  <2>4. HeadInv'
    <3>1. completed' # completed => ~Lossy'
      BY <1>2, <2>1 DEF Sound, Lossy
    <3> QED BY <1>1, <2>1, <3>1 DEF DurableInv, HeadInv
  <2>5. DoneInv'
    BY <1>1, <1>5 DEF DoneInv, At, Up
  <2> QED BY <2>2, <2>3, <2>4, <2>5 DEF DurableInv
<1>6. CASE op' # op
  <2>1. /\ op.kind = "idle" /\ op.pc = "idle" /\ op'.kind \in Compacting /\ op'.pc \in {"copy", "body"}
        /\ completed' = completed /\ (op'.pc = "copy" => completed # 0)
    BY <1>3, <1>6 DEF CallShape
  <2>2. Up' /\ Up /\ ~Switching' /\ ~Switching /\ Lossy' = Lossy
    BY <2>1 DEF Up, Switching, Lossy, Compacting
  <2>3. FlushedInv'
    BY <2>1 DEF FlushedInv
  <2>4. TailInv'
    BY <1>1, <2>1, <2>2 DEF DurableInv, TailInv
  <2>5. HeadInv'
    BY <1>1, <2>1, <2>2 DEF DurableInv, HeadInv
  <2>6. DoneInv'
    BY <2>1 DEF DoneInv, At, Compacting
  <2> QED BY <2>3, <2>4, <2>5, <2>6 DEF DurableInv
<1> QED BY <1>5, <1>6

LEMMA DurableInvAppend ==
  ASSUME TypeInv, TypeInv', LogInv', DurableInv, Append
  PROVE  DurableInv'
<1> TypeOK /\ CallShape /\ SlotsEnd
  BY DEF TypeInv
<1>1. CASE FlushBody \/ CommitDone
  <2>1. Flushed' /\ op'.pc \in {"marker", "idle"}
    BY <1>1 DEF FlushBody, CommitDone, Flush, Flushed, At, Goto, Idle, Call, TypeOK, Calls, diskVars
  <2> QED BY <2>1, DurableInvFlush DEF At
<1>2. CASE WriteBody
  <2>1. /\ op.kind \in {"append", "commit"} /\ op.pc = "body" /\ op'.kind = op.kind /\ op'.pc = "flush"
        /\ UNCHANGED <<hdr, hdrD, logD, curSlot, slotOff, completed>>
    BY <1>2 DEF WriteBody, At, Goto, TypeOK, Calls, durVars, posVars, allocVars
  <2>2. Up' /\ Up /\ ~Switching' /\ ~Switching /\ Lossy' = Lossy
    BY <2>1 DEF Up, Switching, Lossy
  <2>3. FlushedInv' /\ DoneInv'
    BY <2>1 DEF FlushedInv, DoneInv, At
  <2>4. TailInv' /\ HeadInv'
    BY <2>1, <2>2 DEF DurableInv, TailInv, HeadInv
  <2> QED BY <2>3, <2>4 DEF DurableInv
<1>3. CASE AppendMarker \/ CommitMarker
  <2>1. /\ op.kind \in {"append", "commit"} /\ op.pc = "marker"
        /\ op'.kind \in {"idle", "commit"} /\ op'.pc \in {"idle", "sync"}
        /\ (op'.pc = "idle" => slotOff' = slotOff + 1)
        /\ UNCHANGED <<hdr, hdrD, logD, curSlot, completed>>
    BY <1>3 DEF AppendMarker, CommitMarker, At, Goto, Idle, Call, TypeOK, Calls, durVars, posVars, allocVars
  <2>2. Up' /\ Up /\ ~Switching' /\ ~Switching /\ Lossy' = Lossy /\ Appending
    BY <2>1 DEF Up, Switching, Lossy, Appending
  <2>3. logD = log
    BY <2>1 DEF DurableInv, FlushedInv, Flushed
  <2>4. TailInv'
    BY <2>1, <2>2, <2>3 DEF TailInv, SlotsEnd
  <2>5. FlushedInv' /\ DoneInv'
    BY <2>1 DEF FlushedInv, DoneInv, At
  <2>6. HeadInv'
    BY <2>1, <2>2 DEF DurableInv, HeadInv
  <2> QED BY <2>4, <2>5, <2>6 DEF DurableInv
<1> QED BY <1>1, <1>2, <1>3 DEF Append

LEMMA DurableInvCompaction ==
  ASSUME TypeInv, TypeInv', HeadersInv, LogInv', ReplayInv, DurableInv, Compaction
  PROVE  DurableInv'
<1> TypeOK /\ CallShape /\ SlotsEnd
  BY DEF TypeInv
<1> USE Constants
<1>1. CASE CompactApply
  <2>1. Flushed' /\ op'.pc = "header" /\ completed' = completed /\ op.kind \in Compacting /\ op.pc = "apply"
    BY <1>1 DEF CompactApply, Flush, Flushed, At, Goto, TypeOK, Calls, diskVars, allocVars
  <2>2. completed' # 0
    BY <2>1 DEF DurableInv, FlushedInv
  <2> QED BY <2>1, <2>2, DurableInvFlush DEF At
<1>2. CASE CompactCopy \/ CompactWrite
  <2>1. /\ op.kind \in Compacting /\ op.pc \in {"copy", "write"}
        /\ op'.kind = op.kind /\ op'.pc \in {"write", "apply"}
        /\ UNCHANGED <<hdr, hdrD, logD, curSlot, slotOff, completed>>
    BY <1>2 DEF CompactCopy, CompactWrite, At, Goto, TypeOK, Calls, durVars, posVars, allocVars
  <2>2. Up' /\ Up /\ ~Switching' /\ ~Switching /\ Lossy' = Lossy
    BY <2>1 DEF Up, Switching, Lossy, Compacting
  <2>3. FlushedInv' /\ DoneInv'
    BY <2>1 DEF DurableInv, FlushedInv, DoneInv, At, Compacting
  <2>4. TailInv' /\ HeadInv'
    BY <2>1, <2>2 DEF DurableInv, TailInv, HeadInv
  <2> QED BY <2>3, <2>4 DEF DurableInv
<1>3. CASE CompactHeader
  <2> DEFINE r == Other(curSlot)
  <2>1. /\ op.kind \in Compacting /\ op.pc = "header" /\ op'.kind = op.kind /\ op'.pc = "ids"
        /\ hdr' = [hdr EXCEPT ![r] = NewHeader]
        /\ UNCHANGED <<log, hdrD, logD, curSlot, slotOff, completed>>
    BY <1>3 DEF CompactHeader, At, Goto, TypeOK, Calls, durVars, posVars, allocVars
  <2>2. Up' /\ Up /\ Switching' /\ ~Switching /\ Lossy' = Lossy
    BY <2>1 DEF Up, Switching, Lossy, Compacting
  <2>3. Flushed
    BY <2>1 DEF DurableInv, FlushedInv
  <2>4. FlushedInv' /\ DoneInv' /\ TailInv'
    BY <2>1, <2>2, <2>3 DEF DurableInv, FlushedInv, Flushed, DoneInv, TailInv, At, Compacting
  <2>5. hdr[curSlot].seq = Succ(hdr[r].seq)
    BY <2>2 DEF ReplayInv, SeqInv, HeadersInv
  <2>6. \A s \in Slots : s = curSlot \/ s = r
    BY DEF Slots, Other, TypeOK
  <2>7. HeadInv'
    <3>1. /\ hdrD'[curSlot] = hdr'[curSlot]
          /\ hdr'[Other(r)].seq = Succ(hdrD'[r].seq)
      BY <2>1, <2>3, <2>5 DEF Flushed, TypeOK
    <3> QED BY <2>2, <2>6, <3>1 DEF HeadInv
  <2> QED BY <2>4, <2>7 DEF DurableInv
<1>4. CASE CompactIds
  <2>1. /\ op.kind \in Compacting /\ op.pc = "ids" /\ op'.kind = op.kind /\ op'.pc = "install"
        /\ UNCHANGED <<hdr, log, hdrD, logD, curSlot, slotOff, completed>>
    BY <1>4 DEF CompactIds, At, Goto, TypeOK, Calls, diskVars, durVars, posVars
  <2>2. Up' /\ Up /\ Switching' /\ Switching /\ Lossy' = Lossy
    BY <2>1 DEF Up, Switching, Lossy, Compacting
  <2>3. FlushedInv' /\ DoneInv'
    BY <2>1 DEF DurableInv, FlushedInv, DoneInv, At, Compacting
  <2>4. TailInv' /\ HeadInv'
    BY <2>1, <2>2 DEF DurableInv, TailInv, HeadInv
  <2> QED BY <2>3, <2>4 DEF DurableInv
<1>5. CASE CompactInstall
  <2>1. /\ op.kind \in Compacting /\ op.pc = "install" /\ op'.pc \in {"body", "idle"} /\ completed' = 0
        /\ op'.kind \in Compacting \union {"idle"}
        /\ curSlot' = Other(curSlot) /\ slotOff' = EndPos(Made)
        /\ UNCHANGED <<hdr, log, hdrD, logD>>
    BY <1>5 DEF CompactInstall, At, Goto, Idle, Call, Made, TypeOK, Calls, diskVars, durVars
  <2>2. Up' /\ Up /\ SlotMade
    BY <2>1 DEF Up, SlotMade, CompactPCs, Compacting
  <2>3. FlushedInv' /\ DoneInv'
    BY <2>1 DEF FlushedInv, DoneInv, At, Compacting
  <2>4. HeadInv'
    BY <2>1, <2>2 DEF DurableInv, HeadInv
  <2>5. TailInv'
    <3>1. HasEnd(Made) /\ logD = log
      BY <2>1, <2>2 DEF SlotsEnd, Made, DurableInv, FlushedInv
    <3> QED BY <2>1, <3>1, EndPosFirst DEF TailInv, Made
  <2> QED BY <2>3, <2>4, <2>5 DEF DurableInv
<1> QED BY <1>1, <1>2, <1>3, <1>4, <1>5 DEF Compaction

LEMMA DurableInvRecovery ==
  ASSUME TypeInv, TypeInv', HeadersInv, LogInv', ReplayInv, DurableInv, Recovery
  PROVE  DurableInv'
<1> TypeOK /\ CallShape /\ SlotsEnd
  BY DEF TypeInv
<1> USE Constants
<1>1. CASE RecoverFlush \/ RecoverDone
  <2>1. Flushed'
    BY <1>1 DEF RecoverFlush, RecoverDone, Flush, Flushed, diskVars
  <2>2. op'.kind \in {"reopen", "idle"} /\ op'.pc \in {"seq", "idle"}
    BY <1>1 DEF RecoverFlush, RecoverDone, At, Goto, Idle, Call, TypeOK, Calls
  <2> QED BY <2>1, <2>2, DurableInvFlush DEF At, Compacting
<1>2. CASE RecoverEnd
  <2>1. /\ op.kind = "reopen" /\ op.pc = "end" /\ op'.kind = "reopen" /\ op'.pc = "done"
        /\ log' = [log EXCEPT ![curSlot][1] = End]
        /\ UNCHANGED <<hdr, data, curSlot, curSeq, size, repl>>
    BY <1>2 DEF RecoverEnd, At, Goto, TypeOK, Calls, posVars, fileVars
  <2>2. /\ curSeq = Succ(hdr[Other(curSlot)].seq) /\ hdr[curSlot].seq = curSeq
        /\ repl = NoWrites /\ hdr[curSlot].size = size
    BY <2>1 DEF HeadersInv, ReplayInv, ReadyInv
  <2>3. Newest(hdr) = curSlot
    BY <2>2, NewestIs DEF TypeOK
  <2> DEFINE l == log'[curSlot]
  <2>4. HasEnd(l) /\ Body(l) = {}
    <3>1. l[1].kind = "end"
      BY <2>1, RecordTypes DEF TypeOK
    <3> HIDE DEF l
    <3>2. HasEnd(l) /\ EndPos(l) = 1
      BY <3>1, EndPosIs
    <3> QED BY <3>2 DEF Body
  <2>5. Replayed(hdr[curSlot], l, data) = Contents(size, repl, data)
    <3> HIDE DEF l
    <3> QED BY <2>2, <2>4, ReplayNothing DEF Replayed
  <2>6. Recovers(hdr, log, data, View)'
    BY <2>1, <2>3, <2>4, <2>5 DEF Recovers, Gives, View
  <2>7. DoneInv'
    BY <2>6 DEF DoneInv
  <2>8. FlushedInv' /\ TailInv' /\ HeadInv'
    BY <2>1 DEF FlushedInv, TailInv, HeadInv, Up, Compacting
  <2> QED BY <2>7, <2>8 DEF DurableInv
<1>3. CASE RecoverRead \/ RecoverWrite \/ RecoverSeq \/ RecoverSize
  <2>1. op'.kind = "reopen" /\ op'.pc \in {"write", "flush", "size", "end"}
    BY <1>3 DEF RecoverRead, RecoverWrite, RecoverSeq, RecoverSize, At, Goto, Call, TypeOK, Calls
  <2> QED BY <2>1 DEF DurableInv, FlushedInv, TailInv, HeadInv, DoneInv, Up, At, Compacting
<1> QED BY <1>1, <1>2, <1>3 DEF Recovery

LEMMA DurableInvNext ==
  ASSUME Sound, TypeInv, TypeInv', HeadersInv, LogInv', ReplayInv, DurableInv, [Next]_vars
  PROVE  DurableInv'
<1>1. CASE ProcessCrash \/ SystemCrash
  <2>1. op'.kind = "down" /\ op'.pc = "down"
    BY <1>1 DEF ProcessCrash, SystemCrash, LoseProgram, Down, Call
  <2> QED BY <2>1 DEF DurableInv, FlushedInv, TailInv, HeadInv, DoneInv, Up, At, Compacting
<1>2. CASE UNCHANGED vars
  <2>1. UNCHANGED <<hdr, log, data, hdrD, logD, dataD, curSlot, slotOff, size, repl, completed, op>>
    BY <1>2 DEF vars, diskVars, durVars, posVars, fileVars, allocVars
  <2>2. Up' = Up /\ Switching' = Switching /\ Lossy' = Lossy /\ View' = View
    BY <2>1 DEF Up, Switching, Lossy, View
  <2>3. FlushedInv' /\ TailInv' /\ HeadInv'
    BY <2>1, <2>2 DEF DurableInv, FlushedInv, Flushed, TailInv, HeadInv
  <2>4. DoneInv'
    BY <2>1, <2>2 DEF DurableInv, DoneInv, At, Recovers, Gives
  <2> QED BY <2>3, <2>4 DEF DurableInv
<1> QED BY <1>1, <1>2, DurableInvClient, DurableInvAppend, DurableInvCompaction, DurableInvRecovery
        DEF Next

(***************************************************************************)
(* What readers see.                                                       *)
(***************************************************************************)

\* Bytes of a file that are either what they were or what readers saw.
LEMMA WrittenOver ==
  ASSUME NEW h, NEW l, NEW d, NEW e, NEW n, NEW w, NEW c,
         Recovers(h, l, d, Contents(n, w, c)),
         \A o \in Offs : ~(o >= n) => e[o] = Overlay(c, w)[o] \/ e[o] = d[o]
  PROVE  Recovers(h, l, e, Contents(n, w, c))
<1> DEFINE s == Newest(h)
           r == ReplayedWrites(l[s])
           m == ReplayedSize(h[s], l[s])
<1>1. HasEnd(l[s]) /\ Contents(m, r, d) = Contents(n, w, c)
  BY DEF Recovers, Gives, Replayed
<1> HIDE DEF r, m
<1>2. m = n
  BY <1>1, ContentsSize
<1>3. \A o \in Offs : ~(o >= n) => Overlay(d, r)[o] = Overlay(c, w)[o]
  BY <1>1, <1>2, SameContents
<1>4. \A o \in Offs : ~(o >= n) => Overlay(e, r)[o] = Overlay(c, w)[o]
  BY <1>3, Overlays
<1>5. Contents(m, r, e) = Contents(n, w, c)
  BY <1>2, <1>4, SameContents
<1> QED BY <1>1, <1>5 DEF Recovers, Gives, Replayed, r, m

LEMMA ViewOpen ==
  ASSUME op.kind # "down"
  PROVE  View = Contents(size, repl, data)
BY DEF View

\* compact_ and the recovery write what readers see.
LEMMA CompactWriteView ==
  ASSUME TypeInv, CompactWrite
  PROVE  View' = View /\ View = Contents(size, repl, data)
<1>1. /\ data' = Overlay(data, repl) /\ UNCHANGED <<size, repl>>
      /\ op.kind # "down" /\ op'.kind # "down"
  BY DEF CompactWrite, At, Goto, Compacting, fileVars, TypeInv, TypeOK, Calls
<1>2. Contents(size, repl, Overlay(data, repl)) = Contents(size, repl, data)
  BY WrittenContents
<1> QED BY <1>1, <1>2 DEF View

LEMMA CompactApplyView ==
  ASSUME TypeInv, ReplayInv, CompactApply
  PROVE  View' = View
<1>1. /\ repl' = NoWrites /\ UNCHANGED <<size, data>>
      /\ op.kind \in Compacting /\ op.pc = "apply" /\ op'.kind = op.kind
  BY DEF CompactApply, At, Goto, fileVars, TypeInv, TypeOK, Calls, diskVars
<1>2. data = Overlay(data, repl)
  BY <1>1 DEF ReplayInv, ReadyInv, At
<1>3. \A o \in Offs : Overlay(data, NoWrites)[o] = data[o]
  BY Overlays DEF NoWrites
<1>4. Contents(size, NoWrites, data) = Contents(size, repl, data)
  BY <1>2, <1>3, SameContents
<1> QED BY <1>1, <1>4 DEF View, Compacting

LEMMA RecoverReadView ==
  ASSUME RecoverRead
  PROVE  View' = View
BY DEF RecoverRead, View, Replayed, Call, diskVars

LEMMA RecoverWriteView ==
  ASSUME TypeInv, RecoverWrite
  PROVE  /\ View' = View /\ View = Contents(size, repl, data)
         /\ \A o \in Offs : ~(o >= size) => data'[o] = Overlay(data, repl)[o]
<1>1. /\ data' = [o \in Offs |-> IF o < size THEN Overlay(data, repl)[o] ELSE Zero]
      /\ repl' = NoWrites /\ size' = size /\ op.kind = "reopen" /\ op'.kind = "reopen"
  BY DEF RecoverWrite, At, Goto, TypeInv, TypeOK, Calls
<1>2. size \in Int /\ Offs \subseteq Int
  BY DEF TypeInv, TypeOK, Sizes, Offs
<1>3. \A o \in Offs : ~(o >= size) => data'[o] = Overlay(data, repl)[o]
  <2> HIDE DEF Overlay
  <2>1. \A o \in Offs : ~(o >= size) => o < size
    BY <1>2
  <2> QED BY <1>1, <2>1
<1>4. \A o \in Offs : Overlay(data', NoWrites)[o] = data'[o]
  BY Overlays DEF NoWrites
<1>5. Contents(size, NoWrites, data') = Contents(size, repl, data)
  BY <1>3, <1>4, SameContents
<1> QED BY <1>1, <1>3, <1>5 DEF View

\* The other steps that are not part of a commit or a crash.
LEMMA ViewSame ==
  ASSUME UNCHANGED <<data, size, repl>>, op.kind # "down", op'.kind # "down"
  PROVE  View' = View
BY DEF View

(***************************************************************************)
(* What survives.                                                          *)
(***************************************************************************)

\* A file is its cells.
LEMMA OneFile ==
  ASSUME NEW h, NEW l, NEW d, AFile(h, l, d),
         NEW h1, NEW l1, NEW d1, AFile(h1, l1, d1),
         \A s \in Slots : h1[s] = h[s],
         \A s \in Slots : \A p \in Cells : l1[s][p] = l[s][p],
         \A o \in Offs : d1[o] = d[o]
  PROVE  h1 = h /\ l1 = l /\ d1 = d
<1>1. h1 = h /\ d1 = d
  BY DEF AFile
<1>2. ASSUME NEW s \in Slots PROVE l1[s] = l[s]
  <2>1. l1[s] \in [Cells -> Records] /\ l[s] \in [Cells -> Records]
    BY DEF AFile
  <2> QED BY <2>1
<1>3. l1 = l
  BY <1>2 DEF AFile
<1> QED BY <1>1, <1>3

LEMMA TheFile ==
  ASSUME TypeInv
  PROVE  AFile(hdr, log, data) /\ AFile(hdrD, logD, dataD)
BY DEF TypeInv, TypeOK, AFile

\* After a flush, the file is all that survives.
LEMMA SurvivesFlush ==
  ASSUME TypeInv, Flushed, NEW h, NEW l, NEW d, Survives(h, l, d)
  PROVE  h = hdr /\ l = log /\ d = data
<1> SUFFICES ASSUME PartlyLost(h, l, d) PROVE h = hdr /\ l = log /\ d = data
  BY DEF Survives
<1>1. AFile(hdr, log, data) /\ AFile(h, l, d)
  BY TheFile DEF PartlyLost
<1>2. /\ \A s \in Slots : h[s] = hdr[s]
      /\ \A s \in Slots : \A p \in Cells : l[s][p] = log[s][p]
      /\ \A o \in Offs : d[o] = data[o]
  BY DEF PartlyLost, Flushed
<1> QED BY <1>1, <1>2, OneFile

LEMMA SurviveInvFlush ==
  ASSUME TypeInv', Flushed', op'.pc # "sync", Recovers(hdr', log', data', View')
  PROVE  SurviveInv'
<1> SUFFICES ASSUME NEW h, NEW l, NEW d, Survives(h, l, d)'
             PROVE  Recovers(h, l, d, View')
  BY DEF SurviveInv, Recovers, Gives
<1>1. CASE h = hdr' /\ l = log' /\ d = data'
  BY <1>1
<1>2. CASE PartlyLost(h, l, d)'
  <2>1. AFile(hdr', log', data') /\ AFile(h, l, d)
    BY <1>2 DEF PartlyLost, TypeInv, TypeOK, AFile
  <2>2. /\ \A s \in Slots : h[s] = hdr'[s]
        /\ \A s \in Slots : \A p \in Cells : l[s][p] = log'[s][p]
        /\ \A o \in Offs : d[o] = data'[o]
    BY <1>2 DEF PartlyLost, Flushed
  <2>3. h = hdr' /\ l = log' /\ d = data'
    BY <2>1, <2>2, OneFile
  <2> QED BY <2>3
<1> QED BY <1>1, <1>2 DEF Survives

\* Where the region is open, it is what else survives that matters.
LEMMA SurviveInvUp ==
  ASSUME ReplayInv', Up', op'.pc # "sync",
         \A h, l, d : Lossy' /\ PartlyLost(h, l, d)' => Recovers(h, l, d, View')
  PROVE  SurviveInv'
<1>1. Recovers(hdr', log', data', View')
  BY DEF ReplayInv, RecoversInv
<1> SUFFICES ASSUME NEW h, NEW l, NEW d, Survives(h, l, d)'
             PROVE  Recovers(h, l, d, View')
  BY DEF SurviveInv, Recovers, Gives
<1> QED BY <1>1 DEF Survives

LEMMA SurvivorRecovers ==
  ASSUME SurviveInv, op.pc # "sync", ~Opening, NEW h, NEW l, NEW d, Survives(h, l, d)
  PROVE  Recovers(h, l, d, View)
BY DEF SurviveInv

\* Steps that leave the file, what is flushed of it, and what readers see.
LEMMA SurviveInvSame ==
  ASSUME SurviveInv, UNCHANGED <<hdr, log, data, hdrD, logD, dataD, View>>, Lossy' = Lossy,
         op.pc # "sync", op'.pc # "sync", ~Opening
  PROVE  SurviveInv'
<1> SUFFICES ASSUME NEW h, NEW l, NEW d, Survives(h, l, d)'
             PROVE  Recovers(h, l, d, View')
  BY DEF SurviveInv, Recovers, Gives
<1>1. Survives(h, l, d)
  BY DEF Survives, PartlyLost
<1> QED BY <1>1, SurvivorRecovers


LEMMA SurviveInvInit == Init => SurviveInv
<1> SUFFICES ASSUME Init PROVE SurviveInv
  OBVIOUS
<1>1. TypeInv /\ ReplayInv
  BY TypeInvInit, ReplayInvInit
<1>2. op.kind = "idle" /\ op.pc = "idle" /\ Flushed
  BY DEF Init, NewFile, NoIds, Idle, Call, Flushed
<1>3. Recovers(hdr, log, data, View)
  BY <1>1, <1>2 DEF ReplayInv, RecoversInv, Up
<1> SUFFICES ASSUME NEW h, NEW l, NEW d, Survives(h, l, d) PROVE Recovers(h, l, d, View)
  BY <1>2 DEF SurviveInv
<1> QED BY <1>1, <1>2, <1>3, SurvivesFlush

\* The steps of the clients, and those of a compaction that are not about the
\* file.
LEMMA SurviveInvQuiet ==
  ASSUME TypeInv, SurviveInv, UNCHANGED <<hdr, log, data, hdrD, logD, dataD, size, repl>>,
         Up, Up', op.pc # "sync", op'.pc # "sync"
  PROVE  SurviveInv'
<1>1. View' = View
  BY ViewSame DEF Up
<1>2. Lossy' = Lossy /\ ~Opening
  BY DEF Lossy, Opening, Up
<1> QED BY <1>1, <1>2, SurviveInvSame

LEMMA SurviveInvClient ==
  ASSUME TypeInv, SurviveInv, Client \/ Compact
  PROVE  SurviveInv'
<1> TypeOK /\ CallShape
  BY DEF TypeInv
<1>1. UNCHANGED <<hdr, log, data, hdrD, logD, dataD, size, repl>> /\ Up
  BY DEF Client, Compact, Begin, BeginCompacts, Rollback, Write, Resize, Commit, Enter,
         MayRun, Up, diskVars, durVars, fileVars
<1>2. \/ op' = op /\ (op.kind = "idle" \/ ~AllocLocked)
      \/ op.kind = "idle" /\ op'.kind \in Compacting /\ op'.pc \in {"copy", "body"}
  BY DEF Client, Compact, Begin, BeginCompacts, Rollback, Write, Resize, Commit, Enter, Call,
         MayRun, Compacting
<1>3. op.pc # "sync" /\ op'.pc # "sync" /\ Up'
  BY <1>1, <1>2 DEF AllocLocked, CallShape, CompactPCs, Up, Compacting, TypeOK, Calls
<1> QED BY <1>1, <1>3, SurviveInvQuiet

\* The cell after the end marker is no part of a log, whatever it holds.
LEMMA SurviveInvWriteBody ==
  ASSUME TypeInv, TypeInv', LogInv, DurableInv, SurviveInv, ReplayInv', WriteBody
  PROVE  SurviveInv'
<1> TypeOK /\ CallShape
  BY DEF TypeInv
<1> USE Constants
<1>1. /\ op.kind \in {"append", "commit"} /\ op.pc = "body" /\ op'.kind = op.kind /\ op'.pc = "flush"
      /\ log' = [log EXCEPT ![curSlot][slotOff + 1] = End]
      /\ UNCHANGED <<hdr, data, hdrD, logD, dataD, size, repl>>
  BY DEF WriteBody, At, Goto, TypeOK, Calls, durVars, fileVars
<1>2. Up /\ Up' /\ Lossy' = Lossy /\ ~Opening /\ View' = View
  <2>1. Up /\ Up' /\ ~Opening /\ op.kind # "down" /\ op'.kind # "down"
    BY <1>1 DEF Up, Opening
  <2>2. Lossy' = Lossy
    BY <2>1 DEF Lossy
  <2> QED BY <1>1, <2>1, <2>2, ViewSame
<1>3. slotOff \in Cells /\ slotOff \in Int /\ curSlot \in Slots /\ slotOff + 1 \in Cells
  <2>1. slotOff \in Cells /\ slotOff + 1 \in Cells
    BY <1>1 DEF TypeInv, SlotsEnd, Appending, TypeOK
  <2> QED BY <2>1 DEF Cells, TypeOK
<1>4. log[curSlot][slotOff].kind = "end" /\ logD[curSlot][slotOff].kind = "end"
  <2>1. HasEnd(Cur) /\ EndPos(Cur) = slotOff
    BY <1>1, <1>2 DEF LogInv, EndInv, TypeInv, SlotsEnd, Cur
  <2> QED BY <1>1, <1>2, <2>1, EndPosFirst DEF Cur, DurableInv, TailInv
<1> SUFFICES ASSUME NEW h, NEW l, NEW d, Lossy', PartlyLost(h, l, d)'
             PROVE  Recovers(h, l, d, View')
  BY <1>1, <1>2, SurviveInvUp
<1> DEFINE k == [l[curSlot] EXCEPT ![slotOff + 1] = logD[curSlot][slotOff + 1]]
           m == [l EXCEPT ![curSlot] = k]
<1>5. AFile(h, l, d) /\ l \in [Slots -> [Cells -> Records]] /\ l[curSlot] \in [Cells -> Records]
  BY <1>3 DEF PartlyLost, AFile
<1>6. /\ k \in [Cells -> Records]
      /\ \A p \in Cells : p # slotOff + 1 => k[p] = l[curSlot][p]
      /\ k[slotOff + 1] = logD[curSlot][slotOff + 1]
  <2> DEFINE c == slotOff + 1
             v == logD[curSlot][slotOff + 1]
             x == l[curSlot]
  <2>1. c \in Cells /\ v \in Records /\ x \in [Cells -> Records]
    BY <1>3, <1>5 DEF TypeOK
  <2>2. k = [x EXCEPT ![c] = v]
    OBVIOUS
  <2> HIDE DEF k, c, v, x
  <2>3. k \in [Cells -> Records] /\ k[c] = v /\ \A p \in Cells : p # c => k[p] = x[p]
    BY <2>1, <2>2
  <2> QED BY <2>3 DEF c, v, x
<1>7. /\ m \in [Slots -> [Cells -> Records]] /\ m[curSlot] = k
      /\ \A s \in Slots : s # curSlot => m[s] = l[s]
  <2> HIDE DEF k
  <2> QED BY <1>3, <1>5, <1>6
<1> HIDE DEF k, m
<1>8. PartlyLost(h, m, d)
  <2>1. AFile(h, m, d)
    BY <1>5, <1>7 DEF AFile
  <2>2. /\ \A s \in Slots : h[s] \in {hdr[s], hdrD[s]}
        /\ \A s \in Slots : \A p \in Cells : l[s][p] \in {log'[s][p], logD[s][p]}
        /\ \A o \in Offs : d[o] \in {data[o], dataD[o]}
    BY <1>1 DEF PartlyLost
  <2>3. \A s \in Slots : \A p \in Cells : ~(s = curSlot /\ p = slotOff + 1) => log'[s][p] = log[s][p]
    BY <1>1, <1>3
  <2>4. ASSUME NEW s \in Slots, NEW p \in Cells PROVE m[s][p] \in {log[s][p], logD[s][p]}
    <3>1. CASE s = curSlot /\ p = slotOff + 1
      BY <3>1, <1>6, <1>7
    <3>2. CASE ~(s = curSlot /\ p = slotOff + 1)
      <4>1. m[s][p] = l[s][p]
        BY <3>2, <1>6, <1>7
      <4> QED BY <2>2, <2>3, <3>2, <4>1
    <3> QED BY <3>1, <3>2
  <2> QED BY <2>1, <2>2, <2>4 DEF PartlyLost
<1>9. Recovers(h, m, d, View)
  BY <1>1, <1>2, <1>8, SurvivorRecovers DEF Survives
<1>10. CASE Newest(h) = curSlot
  <2>1. HasEnd(k)
    BY <1>7, <1>9, <1>10 DEF Recovers, Gives
  <2>2. k[slotOff].kind = "end"
    BY <1>3, <1>4, <1>7, <1>8 DEF PartlyLost
  <2>3. EndPos(k) \in Cells /\ \A q \in 1 .. EndPos(k) - 1 : k[q].kind # "end"
    BY <2>1, EndPosFirst
  <2>4. ~(slotOff < EndPos(k))
    BY <1>3, <2>2, <2>3 DEF Cells
  <2>5. \A p \in 1 .. EndPos(k) : p \in Cells /\ p # slotOff + 1
    BY <1>3, <2>3, <2>4 DEF Cells
  <2>6. \A p \in 1 .. EndPos(k) : l[curSlot][p] = k[p]
    BY <1>6, <2>5
  <2>7. /\ HasEnd(l[curSlot]) /\ ReplayedWrites(l[curSlot]) = ReplayedWrites(k)
        /\ \A x : ReplayedSize(x, l[curSlot]) = ReplayedSize(x, k)
    BY <2>1, <2>6, SameLog
  <2> QED BY <1>2, <1>7, <1>9, <1>10, <2>7 DEF Recovers, Gives, Replayed
<1>11. CASE Newest(h) # curSlot
  <2>1. m[Newest(h)] = l[Newest(h)]
    BY <1>7, <1>11 DEF Newest, Slots
  <2> QED BY <1>2, <1>9, <2>1 DEF Recovers
<1> QED BY <1>10, <1>11

\* The first word of a record is written over a flushed log: it is there or not.
LEMMA MarkerSurvivors ==
  ASSUME TypeInv, TypeInv', Flushed, UNCHANGED <<hdr, data, hdrD, logD, dataD>>,
         log' = [log EXCEPT ![curSlot][slotOff] = op.rec],
         NEW h, NEW l, NEW d, PartlyLost(h, l, d)'
  PROVE  h = hdr /\ d = data /\ (l = log \/ l = log')
<1> TypeOK
  BY DEF TypeInv
<1>1. AFile(h, l, d) /\ AFile(hdr, log, data) /\ AFile(hdr, log', data)
  BY TheFile DEF PartlyLost, TypeInv, TypeOK, AFile
<1>2. /\ \A s \in Slots : h[s] = hdr[s]
      /\ \A o \in Offs : d[o] = data[o]
      /\ \A s \in Slots : \A p \in Cells : l[s][p] \in {log'[s][p], log[s][p]}
  BY DEF PartlyLost, Flushed
<1>3. \A s \in Slots : \A p \in Cells : ~(s = curSlot /\ p = slotOff) => log'[s][p] = log[s][p]
  OBVIOUS
<1>4. CASE l[curSlot][slotOff] = log[curSlot][slotOff]
  <2>1. \A s \in Slots : \A p \in Cells : l[s][p] = log[s][p]
    BY <1>2, <1>3, <1>4
  <2>2. h = hdr /\ l = log /\ d = data
    BY <1>1, <1>2, <2>1, OneFile
  <2> QED BY <2>2
<1>5. CASE l[curSlot][slotOff] = log'[curSlot][slotOff]
  <2> DEFINE m == log'
  <2>1. \A s \in Slots : \A p \in Cells : l[s][p] = m[s][p]
    BY <1>2, <1>3, <1>5
  <2>2. AFile(hdr, m, data)
    BY <1>1
  <2> HIDE DEF m
  <2>3. h = hdr /\ l = m /\ d = data
    BY <1>1, <1>2, <2>1, <2>2, OneFile
  <2> QED BY <2>3 DEF m
<1>6. curSlot \in Slots /\ slotOff \in Cells
  BY DEF TypeOK
<1> QED BY <1>2, <1>4, <1>5, <1>6

LEMMA SurviveInvMarker ==
  ASSUME TypeInv, TypeInv', HeadersInv, LogInv, ReplayInv, ReplayInv', DurableInv,
         AppendMarker \/ CommitMarker
  PROVE  SurviveInv'
<1> TypeOK /\ CallShape
  BY DEF TypeInv
<1>1. /\ op.kind \in {"append", "commit"} /\ op.pc = "marker" /\ Up /\ Up' /\ ~Switching
      /\ log' = [log EXCEPT ![curSlot][slotOff] = op.rec]
      /\ UNCHANGED <<hdr, data, hdrD, logD, dataD, size, repl, curSlot>>
  BY DEF AppendMarker, CommitMarker, At, Goto, Idle, Call, Up, Switching, TypeOK, Calls, durVars, fileVars, posVars
<1>2. Flushed
  BY <1>1 DEF DurableInv, FlushedInv
<1>3. View' = View
  BY <1>1, ViewSame DEF Up
<1>4. Recovers(hdr, log, data, View)
  BY <1>1 DEF ReplayInv, RecoversInv
<1> DEFINE m == log'
<1>7. ASSUME NEW h, NEW l, NEW d, PartlyLost(h, l, d)'
      PROVE  h = hdr /\ d = data /\ (l = log \/ l = m)
  <2>1. /\ UNCHANGED <<hdr, data, hdrD, logD, dataD>>
        /\ log' = [log EXCEPT ![curSlot][slotOff] = op.rec]
    BY <1>1
  <2> QED BY <1>2, <1>7, <2>1, MarkerSurvivors
<1>5. CASE AppendMarker
  <2>1. op'.pc # "sync"
    BY <1>5 DEF AppendMarker, Idle, Call
  <2>2. Recovers(hdr, log', data, View)
    BY <1>1, <1>3, <2>1 DEF ReplayInv, RecoversInv, Recovers, Gives
  <2> SUFFICES ASSUME NEW h, NEW l, NEW d, Lossy', PartlyLost(h, l, d)'
               PROVE  Recovers(h, l, d, View')
    BY <1>1, <2>1, SurviveInvUp
  <2>3. h = hdr /\ d = data /\ (l = log \/ l = m)
    BY <1>7
  <2> QED BY <1>3, <1>4, <2>2, <2>3
<1>6. CASE CommitMarker
  <2>1. op'.pc = "sync" /\ op'.tx = op.tx /\ txUpd' = txUpd
    BY <1>6 DEF CommitMarker, Goto, TypeOK, Calls, txVars
  <2>2. CommitView' = CommitView
    BY <1>1, <2>1 DEF CommitView
  <2>3. Newest(hdr) = curSlot
    BY <1>1, NewestUp DEF ReplayInv
  <2>4. Recovers(hdr, log', data, CommitView)
    BY <1>1, <2>1, <2>2, <2>3 DEF ReplayInv, RecoversInv, Recovers, Cur
  <2> SUFFICES ASSUME NEW h, NEW l, NEW d, Survives(h, l, d)'
               PROVE  Recovers(h, l, d, View) \/ Recovers(h, l, d, CommitView)
    BY <1>3, <2>1, <2>2 DEF SurviveInv, Recovers, Gives
  <2>5. CASE h = hdr' /\ l = log' /\ d = data'
    BY <1>1, <2>4, <2>5
  <2>6. CASE PartlyLost(h, l, d)'
    <3>1. h = hdr /\ d = data /\ (l = log \/ l = m)
      BY <1>7, <2>6
    <3> QED BY <1>4, <2>4, <3>1
  <2> QED BY <2>5, <2>6 DEF Survives
<1> QED BY <1>5, <1>6

\* Writes into the file are of what readers see, so that it does not matter
\* which of them a crash loses.
LEMMA WriteSurvivors ==
  ASSUME TypeInv, SurviveInv, op.pc # "sync", ~Opening,
         UNCHANGED <<hdr, log, hdrD, logD, dataD>>, Lossy' = Lossy,
         View = Contents(size, repl, data),
         \A o \in Offs : ~(o >= size) => data'[o] = Overlay(data, repl)[o],
         NEW h, NEW l, NEW d, Survives(h, l, d)'
  PROVE  Recovers(h, l, d, View)
<1> TypeOK
  BY DEF TypeInv
<1>1. CASE h = hdr' /\ l = log' /\ d = data'
  <2>1. Recovers(h, l, data, Contents(size, repl, data))
    BY <1>1, SurvivorRecovers DEF Survives
  <2>2. \A o \in Offs : ~(o >= size) => d[o] = Overlay(data, repl)[o] \/ d[o] = data[o]
    BY <1>1
  <2>3. Recovers(h, l, d, Contents(size, repl, data))
    BY <2>1, <2>2, WrittenOver
  <2> QED BY <2>3
<1>2. CASE Lossy' /\ PartlyLost(h, l, d)'
  <2> DEFINE c == [o \in Offs |-> IF d[o] = data'[o] THEN data[o] ELSE dataD[o]]
  <2>1. /\ AFile(h, l, d)
        /\ \A s \in Slots : h[s] \in {hdr[s], hdrD[s]}
        /\ \A s \in Slots : \A p \in Cells : l[s][p] \in {log[s][p], logD[s][p]}
        /\ \A o \in Offs : d[o] \in {data'[o], dataD[o]}
    BY <1>2 DEF PartlyLost
  <2>2. c \in [Offs -> Bytes] /\ \A o \in Offs : c[o] \in {data[o], dataD[o]}
    BY DEF TypeOK
  <2>3. \A o \in Offs : d[o] = data'[o] \/ d[o] = c[o]
    BY <2>1
  <2> HIDE DEF c
  <2>4. AFile(h, l, c)
    BY <2>1, <2>2 DEF AFile
  <2>5. PartlyLost(h, l, c)
    BY <2>1, <2>2, <2>4 DEF PartlyLost
  <2>6. Survives(h, l, c)
    BY <1>2, <2>5 DEF Survives
  <2>7. Recovers(h, l, c, Contents(size, repl, data))
    BY <2>6, SurvivorRecovers
  <2>8. \A o \in Offs : ~(o >= size) => d[o] = Overlay(data, repl)[o] \/ d[o] = c[o]
    BY <2>3
  <2>9. Recovers(h, l, d, Contents(size, repl, data))
    BY <2>7, <2>8, WrittenOver
  <2> QED BY <2>9
<1> QED BY <1>1, <1>2 DEF Survives

LEMMA SurviveInvCopy ==
  ASSUME TypeInv, HeadersInv, ReplayInv, ReplayInv', DurableInv, SurviveInv, CompactCopy
  PROVE  SurviveInv'
<1> TypeOK /\ CallShape
  BY DEF TypeInv
<1> USE Constants
<1>1. /\ op.kind \in Compacting /\ op.pc = "copy" /\ op'.kind = op.kind /\ op'.pc = "write"
      /\ \A p \in Cells : log'[curSlot][p] = log[curSlot][p]
      /\ UNCHANGED <<hdr, data, hdrD, logD, dataD, size, repl>>
  BY DEF CompactCopy, At, Goto, TypeOK, Calls, durVars, fileVars
<1>2. Up /\ Up' /\ ~Opening /\ ~Switching
  BY <1>1 DEF Up, Opening, Switching, Compacting
<1>3. Lossy' = Lossy /\ View' = View
  BY <1>1, <1>2, ViewSame DEF Lossy, Up
<1> SUFFICES ASSUME NEW h, NEW l, NEW d, Lossy', PartlyLost(h, l, d)'
             PROVE  Recovers(h, l, d, View')
  BY <1>1, <1>2, SurviveInvUp
<1>4. hdrD = hdr
  BY <1>1, <1>2, <1>3 DEF DurableInv, FlushedInv, HeadInv
<1>5. /\ AFile(h, l, d)
      /\ \A s \in Slots : h[s] = hdr[s]
      /\ \A s \in Slots : \A p \in Cells : l[s][p] \in {log'[s][p], logD[s][p]}
      /\ \A o \in Offs : d[o] \in {data[o], dataD[o]}
  BY <1>1, <1>4 DEF PartlyLost
<1> DEFINE m == [log EXCEPT ![curSlot] = l[curSlot]]
<1>6. curSlot \in Slots /\ l[curSlot] \in [Cells -> Records]
  BY <1>5 DEF AFile, TypeOK
<1>7. /\ m \in [Slots -> [Cells -> Records]] /\ m[curSlot] = l[curSlot]
      /\ \A s \in Slots : s # curSlot => m[s] = log[s]
  BY <1>6 DEF TypeOK
<1> HIDE DEF m
<1>8. \A s \in Slots : \A p \in Cells : m[s][p] \in {log[s][p], logD[s][p]}
  <2>1. \A p \in Cells : l[curSlot][p] \in {log[curSlot][p], logD[curSlot][p]}
    BY <1>1, <1>5, <1>6
  <2> QED BY <1>7, <2>1
<1>9. AFile(h, m, d)
  BY <1>5, <1>7 DEF AFile
<1>10. PartlyLost(h, m, d)
  BY <1>5, <1>8, <1>9 DEF PartlyLost
<1>11. Recovers(h, m, d, View)
  BY <1>1, <1>2, <1>3, <1>10, SurvivorRecovers DEF Survives
<1>12. Newest(h) = curSlot
  <2>1. h \in [Slots -> Headers] /\ hdr[curSlot].seq = Succ(hdr[Other(curSlot)].seq)
    BY <1>2, <1>5 DEF AFile, ReplayInv, SeqInv, HeadersInv
  <2>2. h[curSlot].seq = Succ(h[Other(curSlot)].seq)
    BY <1>5, <1>6, <2>1
  <2> QED BY <1>6, <2>1, <2>2, NewestIs
<1> QED BY <1>3, <1>7, <1>11, <1>12 DEF Recovers

\* A header is written over a flushed file: it is there or not.
LEMMA SurviveInvHeader ==
  ASSUME TypeInv, TypeInv', ReplayInv, ReplayInv', DurableInv, CompactHeader
  PROVE  SurviveInv'
<1> TypeOK /\ CallShape
  BY DEF TypeInv
<1> USE Constants
<1> DEFINE r == Other(curSlot)
           g == hdr'
<1>1. /\ op.kind \in Compacting /\ op.pc = "header" /\ op'.kind = op.kind /\ op'.pc = "ids"
      /\ \A s \in Slots : s # r => g[s] = hdr[s]
      /\ UNCHANGED <<log, data, hdrD, logD, dataD, size, repl>>
  BY DEF CompactHeader, At, Goto, TypeOK, Calls, durVars, fileVars
<1>2. Up /\ Up' /\ Flushed
  BY <1>1 DEF Up, Compacting, DurableInv, FlushedInv
<1>3. View' = View
  BY <1>1, <1>2, ViewSame DEF Up
<1>4. Recovers(hdr, log, data, View) /\ Recovers(g, log, data, View)
  BY <1>1, <1>2, <1>3 DEF ReplayInv, RecoversInv, Recovers, Gives
<1> SUFFICES ASSUME NEW h, NEW l, NEW d, Lossy', PartlyLost(h, l, d)'
             PROVE  Recovers(h, l, d, View')
  BY <1>1, <1>2, SurviveInvUp
<1>5. AFile(h, l, d) /\ AFile(hdr, log, data) /\ AFile(g, log, data)
  BY TheFile, <1>1 DEF PartlyLost, TypeInv, TypeOK, AFile
<1>6. /\ \A s \in Slots : h[s] \in {g[s], hdr[s]}
      /\ \A s \in Slots : \A p \in Cells : l[s][p] = log[s][p]
      /\ \A o \in Offs : d[o] = data[o]
  BY <1>1, <1>2 DEF PartlyLost, Flushed
<1>7. r \in Slots
  BY DEF TypeOK
<1> HIDE DEF r, g
<1>8. CASE h[r] = hdr[r]
  <2>1. \A s \in Slots : h[s] = hdr[s]
    BY <1>1, <1>6, <1>8
  <2>2. h = hdr /\ l = log /\ d = data
    BY <1>5, <1>6, <2>1, OneFile
  <2> QED BY <1>3, <1>4, <2>2
<1>9. CASE h[r] = g[r]
  <2>1. \A s \in Slots : h[s] = g[s]
    BY <1>1, <1>6, <1>9
  <2>2. h = g /\ l = log /\ d = data
    BY <1>5, <1>6, <2>1, OneFile
  <2> QED BY <1>3, <1>4, <2>2
<1> QED BY <1>6, <1>7, <1>8, <1>9

\* The steps that flush.
LEMMA SurviveInvFlushing ==
  ASSUME TypeInv, TypeInv', ReplayInv', SurviveInv,
         FlushBody \/ CommitDone \/ CompactApply \/ RecoverFlush \/ RecoverDone
  PROVE  SurviveInv'
<1> TypeOK /\ CallShape
  BY DEF TypeInv
<1>1. Flushed' /\ UNCHANGED <<hdr, log, data>>
  BY DEF FlushBody, CommitDone, CompactApply, RecoverFlush, RecoverDone, Flush, Flushed, diskVars
<1>2. op'.pc # "sync"
  BY DEF FlushBody, CommitDone, CompactApply, RecoverFlush, RecoverDone, At, Goto, Idle, Call, TypeOK, Calls
<1>3. CASE RecoverFlush
  <2>1. op.kind = "reopen" /\ op'.kind = "reopen" /\ op.pc = "flush" /\ UNCHANGED <<size, repl>>
    BY <1>3 DEF RecoverFlush, At, Goto, TypeOK, Calls, fileVars
  <2>2. View' = View
    BY <1>1, <2>1, ViewSame
  <2>3. Recovers(hdr, log, data, View)
    BY <2>1, SurvivorRecovers DEF Survives, Opening
  <2>4. Recovers(hdr', log', data', View')
    BY <1>1, <2>2, <2>3
  <2> QED BY <1>1, <1>2, <2>4, SurviveInvFlush
<1>4. CASE ~RecoverFlush
  <2>1. Up'
    BY <1>4 DEF FlushBody, CommitDone, CompactApply, RecoverDone, At, Goto, Idle, Call, TypeOK, Calls,
                Up, Compacting
  <2>2. Recovers(hdr', log', data', View')
    BY <1>2, <2>1 DEF ReplayInv, RecoversInv
  <2> QED BY <1>1, <1>2, <2>2, SurviveInvFlush
<1> QED BY <1>3, <1>4

LEMMA SurviveInvRecovery ==
  ASSUME TypeInv, TypeInv', ReplayInv', SurviveInv, Recovery
  PROVE  SurviveInv'
<1> TypeOK /\ CallShape
  BY DEF TypeInv
<1>1. CASE RecoverFlush \/ RecoverDone
  BY <1>1, SurviveInvFlushing
<1>2. CASE RecoverSeq \/ RecoverSize \/ RecoverEnd
  <2>1. op'.kind = "reopen" /\ op'.pc \in {"size", "end", "done"}
    BY <1>2 DEF RecoverSeq, RecoverSize, RecoverEnd, At, Goto, TypeOK, Calls
  <2> QED BY <2>1 DEF SurviveInv, Opening
<1>3. CASE RecoverRead
  <2>1. /\ op.kind = "down" /\ op.pc = "down" /\ op'.kind = "reopen" /\ op'.pc = "write"
        /\ UNCHANGED <<hdr, log, data, hdrD, logD, dataD>>
    BY <1>3 DEF RecoverRead, Call, CallShape, diskVars, durVars
  <2>2. View' = View
    BY <1>3, RecoverReadView
  <2>3. Lossy' = Lossy /\ ~Opening
    BY <2>1 DEF Lossy, Up, Opening
  <2> QED BY <2>1, <2>2, <2>3, SurviveInvSame
<1>4. CASE RecoverWrite
  <2>1. /\ op.kind = "reopen" /\ op.pc = "write" /\ op'.kind = "reopen" /\ op'.pc = "flush"
        /\ UNCHANGED <<hdr, log, hdrD, logD, dataD>>
    BY <1>4 DEF RecoverWrite, At, Goto, TypeOK, Calls, durVars
  <2>2. /\ View' = View /\ View = Contents(size, repl, data)
        /\ \A o \in Offs : ~(o >= size) => data'[o] = Overlay(data, repl)[o]
    BY <1>4, RecoverWriteView
  <2>3. Lossy' = Lossy /\ ~Opening
    BY <2>1 DEF Lossy, Up, Opening
  <2> SUFFICES ASSUME NEW h, NEW l, NEW d, Survives(h, l, d)' PROVE Recovers(h, l, d, View')
    BY <2>1 DEF SurviveInv, Recovers, Gives
  <2> QED BY <2>1, <2>2, <2>3, WriteSurvivors
<1> QED BY <1>1, <1>2, <1>3, <1>4 DEF Recovery

LEMMA SurviveInvCompaction ==
  ASSUME TypeInv, TypeInv', HeadersInv, ReplayInv, ReplayInv', DurableInv, SurviveInv, Compaction
  PROVE  SurviveInv'
<1> TypeOK /\ CallShape
  BY DEF TypeInv
<1>1. CASE CompactIds \/ CompactInstall
  <2>1. /\ op.kind \in Compacting /\ op.pc \in {"ids", "install"} /\ op'.pc \in {"install", "body", "idle"}
        /\ op'.kind \in Compacting \union {"idle"}
        /\ UNCHANGED <<hdr, log, data, hdrD, logD, dataD, size, repl>>
    BY <1>1 DEF CompactIds, CompactInstall, At, Goto, Idle, Call, TypeOK, Calls, diskVars, durVars, fileVars
  <2>2. Up /\ Up'
    BY <2>1 DEF Up, Compacting
  <2> QED BY <2>1, <2>2, SurviveInvQuiet
<1>2. CASE CompactWrite
  <2>1. /\ op.kind \in Compacting /\ op.pc = "write" /\ op'.kind = op.kind /\ op'.pc = "apply"
        /\ UNCHANGED <<hdr, log, hdrD, logD, dataD>> /\ data' = Overlay(data, repl)
    BY <1>2 DEF CompactWrite, At, Goto, TypeOK, Calls, durVars
  <2>2. View' = View /\ View = Contents(size, repl, data)
    BY <1>2, CompactWriteView
  <2>3. Up /\ Up' /\ ~Opening
    BY <2>1 DEF Up, Compacting, Opening
  <2>4. Lossy' = Lossy
    BY <2>3 DEF Lossy
  <2> SUFFICES ASSUME NEW h, NEW l, NEW d, Lossy', PartlyLost(h, l, d)' PROVE Recovers(h, l, d, View')
    BY <2>1, <2>3, SurviveInvUp
  <2>5. Survives(h, l, d)'
    BY DEF Survives
  <2>6. \A o \in Offs : ~(o >= size) => data'[o] = Overlay(data, repl)[o]
    BY <2>1
  <2> QED BY <2>1, <2>2, <2>3, <2>4, <2>5, <2>6, WriteSurvivors
<1> QED BY <1>1, <1>2, SurviveInvCopy, SurviveInvHeader, SurviveInvFlushing DEF Compaction

\* A crash leaves what readers saw, or would have seen when the commit in
\* progress was done.
LEMMA CrashRecovers ==
  ASSUME Sound, TypeInv, DurableInv, SurviveInv, ProcessCrash \/ SystemCrash
  PROVE  \/ Recovers(hdr', log', data', View)
         \/ op.kind = "commit" /\ op.pc = "sync" /\ Recovers(hdr', log', data', CommitView)
<1> TypeOK /\ CallShape
  BY DEF TypeInv
<1>1. Survives(hdr', log', data')
  <2>1. CASE ProcessCrash
    BY <2>1 DEF ProcessCrash, Survives, diskVars
  <2>2. CASE SystemCrash
    <3>1. PICK L \in SUBSET {s \in Slots : hdr[s] # hdrD[s]} :
            hdr' = [s \in Slots |-> IF s \in L THEN hdrD[s] ELSE hdr[s]]
      BY <2>2 DEF SystemCrash
    <3>2. PICK M \in SUBSET {c \in Slots \X Cells : log[c[1]][c[2]] # logD[c[1]][c[2]]} :
            log' = [s \in Slots |-> [p \in Cells |-> IF <<s, p>> \in M THEN logD[s][p] ELSE log[s][p]]]
      BY <2>2 DEF SystemCrash
    <3>3. PICK N \in SUBSET {o \in Offs : data[o] # dataD[o]} :
            data' = [o \in Offs |-> IF o \in N THEN dataD[o] ELSE data[o]]
      BY <2>2 DEF SystemCrash
    <3>4. hdr' \in [Slots -> Headers] /\ \A s \in Slots : hdr'[s] \in {hdr[s], hdrD[s]}
      BY <3>1 DEF TypeOK
    <3>5. log' \in [Slots -> [Cells -> Records]] /\ \A s \in Slots : \A p \in Cells : log'[s][p] \in {log[s][p], logD[s][p]}
      <4>1. \A s \in Slots : \A p \in Cells : log[s][p] \in Records /\ logD[s][p] \in Records
        BY DEF TypeOK
      <4> QED BY <3>2, <4>1
    <3>6. data' \in [Offs -> Bytes] /\ \A o \in Offs : data'[o] \in {data[o], dataD[o]}
      BY <3>3 DEF TypeOK
    <3>7. Lossy
      BY <2>2 DEF SystemCrash, MayCrash, Lossy
    <3>8. PartlyLost(hdr', log', data')
      BY <3>4, <3>5, <3>6 DEF PartlyLost, AFile
    <3> QED BY <3>7, <3>8 DEF Survives
  <2> QED BY <2>1, <2>2
<1>2. CASE op.pc = "sync"
  <2>1. op.kind = "commit"
    BY <1>2 DEF CallShape, CompactPCs, ReopenPCs, TypeOK, Calls
  <2>2. Recovers(hdr', log', data', View) \/ Recovers(hdr', log', data', CommitView)
    <3> DEFINE h == hdr'
               l == log'
               d == data'
    <3>1. Survives(h, l, d)
      BY <1>1
    <3> HIDE DEF h, l, d
    <3>2. Recovers(h, l, d, View) \/ Recovers(h, l, d, CommitView)
      BY <1>2, <3>1 DEF SurviveInv
    <3> QED BY <3>2 DEF h, l, d
  <2> QED BY <1>2, <2>1, <2>2
<1>3. CASE op.pc # "sync" /\ ~Opening
  <2> DEFINE h == hdr'
             l == log'
             d == data'
  <2>1. Survives(h, l, d)
    BY <1>1
  <2> HIDE DEF h, l, d
  <2>2. Recovers(h, l, d, View)
    BY <1>3, <2>1, SurvivorRecovers
  <2> QED BY <2>2 DEF h, l, d
<1>4. CASE Opening
  <2>1. ProcessCrash /\ op.kind = "reopen" /\ op.pc = "done"
    BY <1>4 DEF Sound, Opening, ProcessCrash, SystemCrash, MayCrash, Starting
  <2> QED BY <2>1 DEF DurableInv, DoneInv, At, ProcessCrash, diskVars
<1> QED BY <1>2, <1>3, <1>4

LEMMA DownView ==
  ASSUME op'.kind = "down", NEW f, Recovers(hdr', log', data', f)
  PROVE  View' = f /\ HasEnd(log'[Newest(hdr')])
BY DEF View, Recovers, Gives

LEMMA SurviveInvCrash ==
  ASSUME Sound, TypeInv, TypeInv', DurableInv, SurviveInv, ProcessCrash \/ SystemCrash
  PROVE  SurviveInv'
<1>1. op'.kind = "down" /\ op'.pc = "down"
  BY DEF ProcessCrash, SystemCrash, LoseProgram, Down, Call
<1>2. Recovers(hdr', log', data', View')
  BY <1>1, CrashRecovers, DownView
<1>3. CASE SystemCrash
  <2>1. Flushed'
    BY <1>3 DEF SystemCrash, Flushed
  <2> QED BY <1>1, <1>2, <2>1, SurviveInvFlush
<1>4. CASE ProcessCrash
  <2>1. ~Lossy'
    BY <1>1, <1>4 DEF Sound, ProcessCrash, MayCrash, Lossy, Up
  <2> SUFFICES ASSUME NEW h, NEW l, NEW d, Survives(h, l, d)' PROVE Recovers(h, l, d, View')
    BY <1>1 DEF SurviveInv, Recovers, Gives
  <2> QED BY <1>2, <2>1 DEF Survives
<1> QED BY <1>3, <1>4

LEMMA SurviveInvNext ==
  ASSUME Sound, TypeInv, TypeInv', HeadersInv, LogInv, ReplayInv, ReplayInv', DurableInv, SurviveInv,
         [Next]_vars
  PROVE  SurviveInv'
<1>1. CASE UNCHANGED vars
  <2>1. UNCHANGED <<hdr, log, data, hdrD, logD, dataD, size, repl, txUpd, op>>
    BY <1>1 DEF vars, diskVars, durVars, fileVars, txVars
  <2>2. View' = View /\ CommitView' = CommitView /\ Lossy' = Lossy /\ Opening' = Opening
    BY <2>1 DEF View, CommitView, Lossy, Up, Opening
  <2>3. ASSUME NEW h, NEW l, NEW d, Survives(h, l, d)' PROVE Survives(h, l, d)
    BY <2>1, <2>2, <2>3 DEF Survives, PartlyLost
  <2>4. CASE op.pc = "sync"
    <3> SUFFICES ASSUME NEW h, NEW l, NEW d, Survives(h, l, d)'
                 PROVE  Recovers(h, l, d, View) \/ Recovers(h, l, d, CommitView)
      BY <2>1, <2>2, <2>4 DEF SurviveInv, Recovers, Gives
    <3> QED BY <2>3, <2>4 DEF SurviveInv
  <2>5. CASE op.pc # "sync" /\ ~Opening
    BY <2>1, <2>2, <2>5, SurviveInvSame
  <2>6. CASE op.pc # "sync" /\ Opening
    BY <2>1, <2>2, <2>6 DEF SurviveInv
  <2> QED BY <2>4, <2>5, <2>6
<1> QED BY <1>1, SurviveInvClient, SurviveInvWriteBody, SurviveInvMarker, SurviveInvFlushing,
           SurviveInvCompaction, SurviveInvRecovery, SurviveInvCrash
        DEF Next, Append

LEMMA SurviveInvAlways ==
  ASSUME Sound
  PROVE  Spec => [](TypeInv /\ HeadersInv /\ LogInv /\ ReplayInv /\ DurableInv /\ SurviveInv)
<1>1. Spec => [](TypeInv /\ IdsInv /\ HeadersInv /\ LogInv /\ ReplayInv)
  BY ReplayInvAlways DEF Sound
<1>2. Init => DurableInv /\ SurviveInv
  BY DurableInvInit, SurviveInvInit
<1>3. /\ TypeInv /\ HeadersInv /\ LogInv /\ ReplayInv /\ DurableInv /\ SurviveInv
      /\ TypeInv' /\ LogInv' /\ ReplayInv' /\ [Next]_vars
      => DurableInv' /\ SurviveInv'
  BY DurableInvNext, SurviveInvNext
<1> QED BY <1>1, <1>2, <1>3, PTL DEF Spec

\* The log that is open ends where slot_off_ says, and the slot that recovery
\* chooses after a crash has an end: whichever cells a crash of the system
\* loses, at whichever step of a call, read_segment_ does not run past the
\* records (wal.cc:86-115, 280-281, 492-503 and 676-687).
THEOREM TheLogEnds ==
  ASSUME Sound
  PROVE  Spec => []LogEnds
<1>1. TypeInv /\ LogInv /\ SurviveInv => LogEnds
  <2> SUFFICES ASSUME TypeInv, LogInv, SurviveInv PROVE LogEnds
    OBVIOUS
  <2>1. Up /\ op.pc # "sync" => HasEnd(log[curSlot]) /\ EndPos(log[curSlot]) = slotOff
    BY DEF TypeInv, SlotsEnd, LogInv, EndInv, Cur
  <2>2. ASSUME op.kind = "down" PROVE HasEnd(log[Newest(hdr)])
    <3>1. op.pc # "sync" /\ ~Opening
      BY <2>2 DEF TypeInv, CallShape, Opening
    <3>2. Recovers(hdr, log, data, View)
      BY <3>1, SurvivorRecovers DEF Survives
    <3> QED BY <3>2 DEF Recovers, Gives
  <2> QED BY <2>1, <2>2 DEF LogEnds
<1> QED BY <1>1, SurviveInvAlways, PTL

\* A compaction does not flush the header that makes its slot the current one,
\* and need not: until the flush of the next commit the old slot and the new
\* one give the same file, however the bytes were written meanwhile
\* (wal.cc:605-613).
THEOREM TheSlotsAgree ==
  ASSUME Sound, ~Rollbacks
  PROVE  Spec => []SlotsEquivalent
<1>1. TypeInv /\ ReplayInv /\ DurableInv /\ SurviveInv => SlotsEquivalent
  <2> SUFFICES ASSUME TypeInv, ReplayInv, DurableInv, SurviveInv,
                      NEW s \in Slots, Up, op.pc # "sync", Newest(hdr) = s, hdrD[s] # hdr[s]
               PROVE  /\ HasEnd(log[Other(s)])
                      /\ Replayed(hdr[Other(s)], log[Other(s)], data) = Replayed(hdr[s], log[s], data)
    BY DEF SlotsEquivalent
  <2> TypeOK
    BY DEF TypeInv
  <2> DEFINE h == [hdr EXCEPT ![s] = hdrD[s]]
             r == Other(s)
  <2>1. r \in Slots /\ r # s /\ Other(r) = s
    BY Constants
  <2>2. /\ h \in [Slots -> Headers] /\ h[s] = hdrD[s] /\ h[r] = hdr[r]
        /\ \A x \in Slots : h[x] \in {hdr[x], hdrD[x]}
    BY <2>1 DEF TypeOK
  <2>3. hdr[r].seq = Succ(hdrD[s].seq)
    BY DEF DurableInv, HeadInv
  <2> HIDE DEF h, r
  <2>4. Newest(h) = r
    BY <2>1, <2>2, <2>3, NewestIs
  <2>5. Survives(h, log, data)
    <3>1. AFile(h, log, data)
      BY <2>2 DEF TypeOK, AFile
    <3>2. PartlyLost(h, log, data)
      BY <2>2, <3>1 DEF PartlyLost
    <3> QED BY <3>2 DEF Survives, Lossy
  <2>6. ~Opening
    BY DEF Opening, Up
  <2>7. Gives(hdr[r], log[r], data, View)
    BY <2>2, <2>4, <2>5, <2>6, SurvivorRecovers DEF Recovers
  <2>8. Gives(hdr[s], log[s], data, View)
    BY DEF ReplayInv, RecoversInv, Recovers
  <2> QED BY <2>7, <2>8 DEF Gives, r
<1> QED BY <1>1, SurviveInvAlways, PTL

-------------------------------------------------------------------------------
(***************************************************************************)
(* The committed file.  A commit asks when it enters and succeeds with its *)
(* last step; it fails where compact_ has no room for it.  A crash fails   *)
(* it, or lets it succeed when its record survives.                        *)
(***************************************************************************)
LEMMA InitIsCommitted == Init => Committed!Init
<1> SUFFICES ASSUME Init PROVE Committed!Init
  OBVIOUS
<1>1. op.kind = "idle" /\ size = 0 /\ repl = NoWrites
  BY DEF Init, NewFile, NoIds, Idle, Call
<1>2. InFlight = None
  BY <1>1 DEF InFlight
<1>3. View = Contents(0, NoWrites, data)
  BY <1>1 DEF View
<1>4. \A o \in Offs : o >= 0
  BY DEF Offs
<1>5. View = Committed!EmptyFile
  <2>1. View = [size |-> 0, data |-> [o \in Offs |-> Zero]]
    BY <1>3, <1>4 DEF Contents
  <2> QED BY <2>1 DEF Committed!EmptyFile, Committed!Offs, Offs
<1> QED BY <1>2, <1>5 DEF Committed!Init

\* What a transaction's update makes of the file.
LEMMA CommitApplies ==
  ASSUME TypeInv, ReplayInv, op.kind = "commit"
  PROVE  CommitView = Apply(View, txUpd[op.tx])
<1> TypeOK /\ CallShape
  BY DEF TypeInv
<1> DEFINE u == txUpd[op.tx]
           m == IF u.size = None THEN size ELSE u.size
           w == Overlay(repl, u.writes)
           f == [o \in Offs |-> IF o >= m THEN Zero ELSE Overlay(data, w)[o]]
           g == [o \in Offs |-> IF o >= m THEN Zero
                                ELSE IF u.writes[o] # None THEN u.writes[o] ELSE View.data[o]]
<1>1. u \in Updates /\ Fills(u)
  BY DEF TypeOK, CallShape, ReplayInv, ReadyInv
<1>2. /\ View.size = size
      /\ \A o \in Offs : ~(o >= size) => View.data[o] = Overlay(data, repl)[o]
  <2>1. View = [size |-> size, data |-> [o \in Offs |-> IF o >= size THEN Zero ELSE Overlay(data, repl)[o]]]
    BY DEF View, Contents
  <2> HIDE DEF Overlay
  <2> QED BY <2>1
<1>3. \A o \in Offs : ~(o >= m) /\ u.writes[o] = None => ~(o >= size)
  <2>1. u.size # None => u.size \in Int
    BY <1>1 DEF Updates, Sizes
  <2>2. \A o \in Offs : u.size # None /\ ~(o >= u.size) => o < u.size
    <3> HIDE DEF u
    <3> QED BY <2>1 DEF Offs
  <2>3. CASE u.size = None
    BY <2>3
  <2>4. CASE u.size # None
    <3>1. m = u.size
      BY <2>4
    <3> HIDE DEF u, m
    <3> QED BY <1>1, <2>2, <2>4, <3>1 DEF Fills
  <2> QED BY <2>3, <2>4
<1>4. ASSUME NEW o \in Offs, ~(o >= m)
      PROVE  Overlay(data, w)[o] = IF u.writes[o] # None THEN u.writes[o] ELSE View.data[o]
  <2>1. Overlay(data, w)[o] = IF w[o] # None THEN w[o] ELSE data[o]
    BY Overlays
  <2>2. w[o] = IF u.writes[o] # None THEN u.writes[o] ELSE repl[o]
    BY Overlays
  <2>3. Overlay(data, repl)[o] = IF repl[o] # None THEN repl[o] ELSE data[o]
    BY Overlays
  <2>4. u.writes[o] = None => View.data[o] = Overlay(data, repl)[o]
    BY <1>2, <1>3, <1>4
  <2> HIDE DEF u, m, w
  <2> QED BY <2>1, <2>2, <2>3, <2>4
<1>5. f = g
  <2> HIDE DEF u, m, w
  <2> QED BY <1>4
<1>6. CommitView = [size |-> m, data |-> f]
  BY DEF CommitView, Contents
<1>7. Apply(View, u) = [size |-> m, data |-> g]
  <2>1. NewSize(View, u) = m
    BY <1>2 DEF NewSize
  <2> HIDE DEF u, m
  <2> QED BY <2>1 DEF Apply
<1> QED BY <1>5, <1>6, <1>7

LEMMA Succeeds ==
  ASSUME TypeInv, ReplayInv, op.kind = "commit", op'.kind # "commit", View' = CommitView
  PROVE  Committed!Succeed
<1> TypeOK /\ CallShape
  BY DEF TypeInv
<1> DEFINE u == txUpd[op.tx]
<1>1. u \in Updates
  BY DEF TypeOK, CallShape
<1>2. InFlight = u /\ u # None /\ InFlight' = None
  BY <1>1, UpdatesAssumption DEF InFlight
<1>3. View' = Apply(View, u)
  BY CommitApplies
<1>4. Apply(View, u) = Committed!Apply(View, u)
  BY DEF Apply, NewSize, Offs, Committed!Apply, Committed!NewSize, Committed!Offs
<1> HIDE DEF u
<1> QED BY <1>2, <1>3, <1>4 DEF Committed!Succeed

LEMMA Fails ==
  ASSUME TypeInv, op.kind = "commit", op'.kind # "commit", View' = View
  PROVE  Committed!Fail
<1> TypeOK /\ CallShape
  BY DEF TypeInv
<1>1. InFlight \in Updates /\ InFlight' = None
  BY DEF InFlight, TypeOK, CallShape
<1>2. InFlight # None
  BY <1>1, UpdatesAssumption
<1> QED BY <1>1, <1>2 DEF Committed!Fail

LEMMA Stutters ==
  ASSUME View' = View,
         \/ op.kind # "commit" /\ op'.kind # "commit"
         \/ op'.kind = op.kind /\ op'.tx = op.tx /\ txUpd'[op.tx] = txUpd[op.tx]
  PROVE  UNCHANGED Committed!cfVars
<1>1. InFlight' = InFlight
  BY DEF InFlight
<1> QED BY <1>1 DEF Committed!cfVars

LEMMA ClientIsCommitted ==
  ASSUME TypeInv, Client \/ Compact
  PROVE  [Committed!Next]_Committed!cfVars
<1> TypeOK /\ CallShape
  BY DEF TypeInv
<1>1. UNCHANGED <<data, size, repl>> /\ op.kind # "down" /\ op'.kind # "down"
  BY DEF Client, Compact, Begin, BeginCompacts, Rollback, Write, Resize, Commit, Enter, Call,
         MayRun, Up, diskVars, fileVars
<1>2. View' = View
  BY <1>1, ViewSame
<1>3. CASE \E t \in Txs : Commit(t)
  <2>1. PICK t \in Txs : Commit(t)
    BY <1>3
  <2>2. op.kind = "idle" /\ op'.kind = "commit" /\ op'.tx = t /\ txUpd' = txUpd
    BY <2>1 DEF Commit, Enter, Call, txVars
  <2>3. InFlight = None /\ InFlight' = txUpd[t] /\ txUpd[t] \in Updates
    BY <2>2 DEF InFlight, TypeOK
  <2>4. txUpd[t] \in Committed!Updates
    BY <2>3 DEF Updates, Offs, Sizes, Committed!Updates, Committed!Offs, Committed!Sizes
  <2>5. Committed!Ask(txUpd[t])
    BY <1>2, <2>3 DEF Committed!Ask
  <2> QED BY <2>4, <2>5 DEF Committed!Next
<1>4. CASE ~\E t \in Txs : Commit(t)
  <2>1. \/ op.kind # "commit" /\ op'.kind # "commit"
        \/ op' = op /\ (op.kind = "commit" => txUpd'[op.tx] = txUpd[op.tx])
    BY <1>4 DEF Client, Compact, Begin, BeginCompacts, Rollback, Write, Resize, Enter, Call, Forget,
                TypeOK, CallShape, txVars
  <2> QED BY <1>2, <2>1, Stutters
<1> QED BY <1>3, <1>4

LEMMA AppendIsCommitted ==
  ASSUME TypeInv, ReplayInv, Append
  PROVE  [Committed!Next]_Committed!cfVars
<1> TypeOK /\ CallShape
  BY DEF TypeInv
<1>1. CASE CommitDone
  <2>1. op.kind = "commit" /\ op'.kind = "idle" /\ data' = data
    BY <1>1 DEF CommitDone, At, Idle, Call, diskVars
  <2>2. View' = CommitView
    BY <1>1, <2>1, CommitDoneView DEF View
  <2> QED BY <2>1, <2>2, Succeeds DEF Committed!Next
<1>2. CASE ~CommitDone
  <2>1. UNCHANGED <<data, size, repl>> /\ op.kind # "down" /\ op'.kind # "down"
    BY <1>2 DEF Append, WriteBody, FlushBody, AppendMarker, CommitMarker, At, Goto, Idle, Call,
                TypeOK, Calls, diskVars, fileVars
  <2>2. \/ op.kind # "commit" /\ op'.kind # "commit"
        \/ op'.kind = op.kind /\ op'.tx = op.tx /\ txUpd'[op.tx] = txUpd[op.tx]
    BY <1>2 DEF Append, WriteBody, FlushBody, AppendMarker, CommitMarker, At, Goto, Idle, Call,
                TypeOK, Calls, txVars
  <2> QED BY <2>1, <2>2, ViewSame, Stutters
<1> QED BY <1>1, <1>2

LEMMA CompactionIsCommitted ==
  ASSUME TypeInv, ReplayInv, Compaction
  PROVE  [Committed!Next]_Committed!cfVars
<1> TypeOK /\ CallShape
  BY DEF TypeInv
<1>1. View' = View
  <2>1. CASE CompactCopy \/ CompactHeader \/ CompactIds \/ CompactInstall
    <3>1. UNCHANGED <<data, size, repl>> /\ op.kind # "down" /\ op'.kind # "down"
      BY <2>1 DEF CompactCopy, CompactHeader, CompactIds, CompactInstall, At, Goto, Idle, Call,
                  Compacting, TypeOK, Calls, diskVars, fileVars
    <3> QED BY <3>1, ViewSame
  <2> QED BY <2>1, CompactWriteView, CompactApplyView DEF Compaction
<1>2. \/ op' = Idle
      \/ op'.kind = op.kind /\ op'.tx = op.tx /\ txUpd' = txUpd
  BY DEF Compaction, CompactCopy, CompactWrite, CompactApply, CompactHeader, CompactIds, CompactInstall,
         At, Goto, TypeOK, Calls, txVars
<1>3. CASE op' = Idle
  <2>1. op'.kind = "idle"
    BY <1>3 DEF Idle, Call
  <2> QED BY <1>1, <2>1, Fails, Stutters DEF Committed!Next
<1>4. CASE op' # Idle
  BY <1>1, <1>2, <1>4, Stutters
<1> QED BY <1>3, <1>4

LEMMA CrashIsCommitted ==
  ASSUME Sound, TypeInv, ReplayInv, DurableInv, SurviveInv, ProcessCrash \/ SystemCrash
  PROVE  [Committed!Next]_Committed!cfVars
<1>1. op'.kind = "down"
  BY DEF ProcessCrash, SystemCrash, LoseProgram, Down, Call
<1>2. View' = View \/ (op.kind = "commit" /\ View' = CommitView)
  BY <1>1, CrashRecovers, DownView
<1>3. CASE View' = View
  BY <1>1, <1>3, Fails, Stutters DEF Committed!Next
<1>4. CASE op.kind = "commit" /\ View' = CommitView
  BY <1>1, <1>4, Succeeds DEF Committed!Next
<1> QED BY <1>2, <1>3, <1>4

LEMMA RecoveryIsCommitted ==
  ASSUME TypeInv, Recovery
  PROVE  [Committed!Next]_Committed!cfVars
<1> TypeOK /\ CallShape
  BY DEF TypeInv
<1>1. op.kind # "commit" /\ op'.kind # "commit"
  BY DEF Recovery, RecoverRead, RecoverWrite, RecoverFlush, RecoverSeq, RecoverSize, RecoverEnd,
         RecoverDone, At, Goto, Idle, Call, TypeOK, Calls
<1>2. View' = View
  <2>1. CASE RecoverFlush \/ RecoverSeq \/ RecoverSize \/ RecoverEnd \/ RecoverDone
    <3>1. UNCHANGED <<data, size, repl>> /\ op.kind # "down" /\ op'.kind # "down"
      BY <2>1 DEF RecoverFlush, RecoverSeq, RecoverSize, RecoverEnd, RecoverDone, At, Goto, Idle, Call,
                  TypeOK, Calls, diskVars, fileVars
    <3> QED BY <3>1, ViewSame
  <2> QED BY <2>1, RecoverReadView, RecoverWriteView DEF Recovery
<1> QED BY <1>1, <1>2, Stutters

LEMMA StepIsCommitted ==
  ASSUME Sound, TypeInv, ReplayInv, DurableInv, SurviveInv, [Next]_vars
  PROVE  [Committed!Next]_Committed!cfVars
<1>1. CASE UNCHANGED vars
  <2>1. UNCHANGED <<hdr, log, data, size, repl, txUpd, op>>
    BY <1>1 DEF vars, diskVars, fileVars, txVars
  <2>2. View' = View
    BY <2>1 DEF View
  <2> QED BY <2>1, <2>2, Stutters
<1> QED BY <1>1, ClientIsCommitted, AppendIsCommitted, CompactionIsCommitted, CrashIsCommitted,
           RecoveryIsCommitted
        DEF Next

\* The region implements the committed file: whatever it does, a crash at any
\* step of a call and the recovery after it included, the file that users see
\* is left alone or has one transaction applied to it, whole, and that one a
\* transaction whose commit was in progress (wal.cc:244-345, 436-631, 690-819).
THEOREM ImplementsCommittedFile ==
  ASSUME Sound
  PROVE  Spec => CommitsAreAtomic
<1>1. /\ TypeInv /\ ReplayInv /\ DurableInv /\ SurviveInv /\ [Next]_vars
      => [Committed!Next]_Committed!cfVars
  BY StepIsCommitted
<1> QED BY <1>1, InitIsCommitted, SurviveInvAlways, PTL DEF Spec, CommitsAreAtomic, Committed!Spec

===============================================================================
