---------------------------- MODULE SequenceProofs ----------------------------
(***************************************************************************)
(* Proofs about Sequence, for any batch size, any range of numbers and any *)
(* set of objects, of which one is open at a time.                         *)
(***************************************************************************)
EXTENDS Sequence, Integers, TLAPS

Count == MaxValue + 1
PlaceFrom(o, v) == (v + MaxValue + 1 - o) % Count

-------------------------------------------------------------------------------
(***************************************************************************)
(* Numbers that wrap.                                                      *)
(***************************************************************************)

\* Below the modulus nothing happens.
LEMMA ModSmall ==
  ASSUME NEW n \in Nat \ {0}, NEW x \in Nat, x < n
  PROVE  x % n = x
  BY SMT

\* Below twice the modulus it is subtracted once.
LEMMA ModOnce ==
  ASSUME NEW n \in Nat \ {0}, NEW x \in Nat, n <= x, x < 2 * n
  PROVE  x % n = x - n
  BY SMT

\* Both cases in one.
LEMMA ModCases ==
  ASSUME NEW n \in Nat \ {0}, NEW x \in Nat, x < 2 * n
  PROVE  x % n = IF x < n THEN x ELSE x - n
<1>1. CASE x < n
  BY <1>1, ModSmall
<1>2. CASE ~(x < n)
  <2>1. n <= x
    BY <1>2, SMT
  <2> QED
    BY <1>2, <2>1, ModOnce
<1> QED
  BY <1>1, <1>2

\* A number is one of the values.
LEMMA PlusIsValue ==
  ASSUME NEW v \in Values, NEW k \in Nat
  PROVE  Plus(v, k) \in Values
  BY MaxValueAssumption, SMT DEF Values, Plus

\* Numbers that follow each other are added up, as long as they wrap once.
LEMMA PlusPlus ==
  ASSUME NEW v \in Values, NEW j \in Nat, NEW k \in Nat, j + k <= Count
  PROVE  Plus(Plus(v, j), k) = Plus(v, j + k)
<1> DEFINE n == Count
<1>1. n \in Nat \ {0} /\ v \in Nat /\ v < n /\ n = MaxValue + 1
  BY MaxValueAssumption, SMT DEF Values, Count
<1> HIDE DEF n
<1>2. CASE v + j < n
  <2>1. (v + j) % n = v + j
    BY <1>1, <1>2, ModSmall, SMT
  <2> QED
    BY <1>1, <2>1, SMT DEF Plus
<1>3. CASE n <= v + j
  <2>1. (v + j) % n = v + j - n
    BY <1>1, <1>3, ModOnce, SMT DEF n
  <2>2. v + j + k < 2 * n /\ n <= v + j + k /\ v + j - n + k \in Nat /\ v + j - n + k < n
    BY <1>1, <1>3, SMT DEF n
  <2> DEFINE m == v + j + k
  <2>a. m \in Nat /\ n <= m /\ m < 2 * n
    BY <1>1, <2>2, SMT
  <2> HIDE DEF m
  <2>b. m % n = m - n
    BY <1>1, <2>a, ModOnce
  <2>3. (v + j + k) % n = v + j + k - n
    BY <1>1, <2>b, SMT DEF m
  <2>4. (v + j - n + k) % n = v + j - n + k
    BY <1>1, <2>2, ModSmall, SMT
  <2> QED
    BY <1>1, <2>1, <2>3, <2>4, SMT DEF Plus
<1> QED
  BY <1>1, <1>2, <1>3, SMT

\* The place of the k-th number is k: no two of one round are the same.
LEMMA PlaceOfNth ==
  ASSUME NEW o \in Values, NEW k \in Nat, k < Count
  PROVE  PlaceFrom(o, Plus(o, k)) = k
<1> DEFINE n == Count
<1>1. n \in Nat \ {0} /\ o \in Nat /\ o < n /\ n = MaxValue + 1 /\ k < n
  BY MaxValueAssumption, SMT DEF Values, Count
<1> DEFINE y == (o + k) % n
<1>2. y = IF o + k < n THEN o + k ELSE o + k - n
  <2> DEFINE x == o + k
  <2>1. x \in Nat /\ x < 2 * n
    BY <1>1, SMT
  <2> HIDE DEF n, x
  <2>2. x % n = IF x < n THEN x ELSE x - n
    BY <1>1, <2>1, ModCases
  <2> QED
    BY <1>1, <2>2, SMT DEF x
<1>3. Plus(o, k) = y /\ PlaceFrom(o, y) = (y + MaxValue + 1 - o) % n
  BY DEF Plus, PlaceFrom, Count
<1> DEFINE z == y + MaxValue + 1 - o
<1> HIDE DEF n, y
<1>4. z = IF o + k < n THEN k + n ELSE k
  BY <1>1, <1>2, MaxValueAssumption, SMT
<1> HIDE DEF z
<1>5. z % n = k
  <2>1. CASE z = k
    BY <1>1, <2>1, ModSmall
  <2>2. CASE z = k + n
    <3>1. z \in Nat /\ n <= z /\ z < 2 * n
      BY <1>1, <2>2, SMT
    <3>2. z % n = z - n
      BY <1>1, <3>1, ModOnce
    <3> QED
      BY <1>1, <2>2, <3>2, SMT
  <2> QED
    BY <1>4, <2>1, <2>2
<1> QED
  BY <1>3, <1>5 DEF z

-------------------------------------------------------------------------------
(***************************************************************************)
(* The types of the variables.                                             *)
(***************************************************************************)

\* A call that is to take a number has one.
TakesOne == \A s \in Objects : pc[s] = "take" => avail[s] > 0

\* No step leaves the types.
LEMMA TypeStep ==
  ASSUME TypeOK, TakesOne, [Next]_vars
  PROVE  TypeOK'
<1> USE DEF TypeOK
<1>0. 0 \in Values /\ CacheSize \in 0 .. CacheSize /\ 0 \in 0 .. CacheSize
  BY MaxValueAssumption, CacheSizeAssumption, SMT DEF Values
<1>1. ASSUME NEW s \in Objects, Open(s) PROVE TypeOK'
  BY <1>0, <1>1 DEF Open
<1>2. ASSUME NEW s \in Objects, Close(s) PROVE TypeOK'
  BY <1>2 DEF Close
<1>3. ASSUME NEW s \in Objects, NEW u \in Objects, Move(s, u) PROVE TypeOK'
  BY <1>0, <1>3 DEF Move
<1>4. ASSUME NEW s \in Objects, Read(s) PROVE TypeOK'
  BY <1>4 DEF Read
<1>5. ASSUME NEW s \in Objects, CommitSucceeds(s) PROVE TypeOK'
  <2>1. stored' \in Values
    BY <1>5, PlusIsValue, CacheSizeAssumption DEF CommitSucceeds, WrittenBack
  <2>2. reserved' \in 0 .. MaxValue + 1
    BY <1>5, CacheSizeAssumption, MaxValueAssumption, SMT DEF CommitSucceeds
  <2> QED
    BY <1>0, <1>5, <2>1, <2>2 DEF CommitSucceeds
<1>6. ASSUME NEW s \in Objects, CommitFails(s) PROVE TypeOK'
  BY <1>6 DEF CommitFails
<1>7. ASSUME NEW s \in Objects, Take(s), avail[s] > 0 PROVE TypeOK'
  <2>1. Plus(val[s], 1) \in Values
    BY PlusIsValue
  <2>2. avail[s] - 1 \in 0 .. CacheSize
    BY <1>7, CacheSizeAssumption, SMT
  <2>3. given[val[s]] + 1 \in Nat
    BY SMT
  <2> QED
    BY <1>7, <2>1, <2>2, <2>3 DEF Take
<1>8. CASE Crash
  BY <1>0, <1>8 DEF Crash
<1>9. CASE UNCHANGED vars
  BY <1>9 DEF vars
<1>10. ASSUME NEW s \in Objects, Take(s) PROVE avail[s] > 0
  BY <1>10 DEF Take, TakesOne
<1> QED
  BY <1>1, <1>2, <1>3, <1>4, <1>5, <1>6, <1>7, <1>8, <1>9, <1>10 DEF Next

-------------------------------------------------------------------------------
(***************************************************************************)
(* The inductive invariant.  Of all numbers from the origin on, those up   *)
(* to `reserved` are reserved; the open object has the last of them in its *)
(* batch, and what was returned comes before the batch.                    *)
(***************************************************************************)
OneOpen      == \A s, u \in open : s = u
Quiet        == \A s \in Objects : s \notin open => pc[s] = "idle"
StoredIsNext == stored = Plus(origin, reserved)
BatchOf(s)   == /\ avail[s] <= reserved
                /\ avail[s] > 0 => val[s] = Plus(origin, reserved - avail[s])
                /\ pc[s] = "commit" => avail[s] = 0 /\ val[s] = stored
Batches      == \A s \in open : BatchOf(s)
Before(v, n) == given[v] > 0 => Place(v) < n
ReturnedBefore ==
  \A v \in Values : /\ Before(v, reserved)
                    /\ \A s \in open : Before(v, reserved - avail[s])

SequenceInv ==
  /\ TypeOK /\ TakesOne /\ OneOpen /\ Quiet /\ StoredIsNext /\ Batches
  /\ ReturnedBefore /\ UniqueNumbers

\* The invariant holds at first, whatever number init wrote.
LEMMA InvInit == ASSUME Init PROVE SequenceInv
<1>1. TypeOK
  BY MaxValueAssumption, CacheSizeAssumption, SMT DEF Init, TypeOK, Values
<1>2. stored = Plus(origin, reserved)
  <2>1. stored \in Nat /\ stored < MaxValue + 1 /\ MaxValue + 1 \in Nat \ {0}
    BY MaxValueAssumption, SMT DEF Init, Values
  <2>2. stored % (MaxValue + 1) = stored
    BY <2>1, ModSmall
  <2> QED
    BY <2>1, <2>2, SMT DEF Init, Plus
<1> QED
  BY <1>1, <1>2 DEF Init, SequenceInv, TakesOne, OneOpen, Quiet, StoredIsNext, Batches,
     ReturnedBefore, Before, UniqueNumbers

\* Refilling keeps it: what a commit reserves follows what was reserved.
LEMMA InvCommit ==
  ASSUME SequenceInv, NEW s \in Objects, CommitSucceeds(s), TypeOK'
  PROVE  SequenceInv'
<1> USE DEF SequenceInv
<1> DEFINE r == reserved + CacheSize
<1>1. s \in open /\ \A u \in open : u = s
  BY DEF CommitSucceeds, Quiet, OneOpen
<1>2. /\ reserved \in Nat /\ CacheSize \in Nat /\ CacheSize > 0
      /\ reserved + CacheSize <= Count /\ r - CacheSize = reserved /\ CacheSize <= r
      /\ reserved <= r
  BY CacheSizeAssumption, MaxValueAssumption, SMT DEF TypeOK, CommitSucceeds, Count
<1>3. /\ reserved' = r /\ open' = open /\ origin' = origin /\ given' = given /\ val' = val
      /\ pc' = [pc EXCEPT ![s] = "take"] /\ avail' = [avail EXCEPT ![s] = CacheSize]
      /\ stored' = WrittenBack(s)
  BY DEF CommitSucceeds
<1>4. avail'[s] = CacheSize /\ pc'[s] = "take" /\ \A u \in Objects : u # s => avail'[u] = avail[u] /\ pc'[u] = pc[u]
  BY <1>3 DEF TypeOK
<1>5. val[s] = Plus(origin, reserved) /\ avail[s] = 0
  BY <1>1 DEF Batches, BatchOf, CommitSucceeds, StoredIsNext
<1>6. stored' = Plus(origin, r)
  BY <1>2, <1>3, <1>5, PlusPlus DEF TypeOK, WrittenBack
<1> HIDE DEF r
<1>7. StoredIsNext'
  BY <1>3, <1>6 DEF StoredIsNext, Plus
<1>8. TakesOne' /\ OneOpen' /\ Quiet' /\ UniqueNumbers'
  BY <1>1, <1>2, <1>3, <1>4 DEF TakesOne, OneOpen, Quiet, UniqueNumbers
<1>9. Batches'
  BY <1>1, <1>2, <1>3, <1>4, <1>5 DEF Batches, BatchOf, Plus
<1>10. ReturnedBefore'
  <2> SUFFICES ASSUME NEW v \in Values, given[v] > 0
               PROVE  Place(v) < r /\ Place(v) < r - CacheSize
    BY <1>1, <1>3, <1>4 DEF ReturnedBefore, Before, Place
  <2>1. Place(v) < reserved
    BY DEF ReturnedBefore, Before
  <2>2. Place(v) \in Int
    BY MaxValueAssumption, SMT DEF Place, TypeOK, Values
  <2> QED
    BY <1>2, <2>1, <2>2, SMT DEF r
<1> QED
  BY <1>7, <1>8, <1>9, <1>10

\* What a call returns has the place right after all that were reserved before
\* the rest of its batch, and nothing was returned from there on.
LEMMA TakenIsNext ==
  ASSUME SequenceInv, NEW s \in Objects, Take(s)
  PROVE  /\ s \in open /\ avail[s] \in Nat /\ avail[s] > 0 /\ avail[s] <= reserved
         /\ reserved \in Nat /\ Count \in Nat /\ reserved <= Count
         /\ val[s] \in Values /\ val[s] = Plus(origin, reserved - avail[s])
         /\ Place(val[s]) = reserved - avail[s]
         /\ given[val[s]] = 0
<1> USE DEF SequenceInv
<1>1. s \in open /\ avail[s] > 0
  BY DEF Take, TakesOne
<1>2. avail[s] \in Nat /\ reserved \in Nat /\ Count \in Nat /\ reserved <= Count
      /\ val[s] \in Values /\ origin \in Values
  BY MaxValueAssumption, CacheSizeAssumption, SMT DEF TypeOK, Count
<1>3. avail[s] <= reserved /\ val[s] = Plus(origin, reserved - avail[s])
  BY <1>1 DEF Batches, BatchOf
<1> DEFINE k == reserved - avail[s]
<1>4. k \in Nat /\ k < Count
  BY <1>1, <1>2, <1>3, SMT
<1> HIDE DEF k
<1>5. PlaceFrom(origin, Plus(origin, k)) = k
  BY <1>2, <1>4, PlaceOfNth
<1>6. Place(val[s]) = k
  BY <1>3, <1>5 DEF k, Place, PlaceFrom, Count
<1>7. given[val[s]] = 0
  <2> SUFFICES ASSUME given[val[s]] # 0 PROVE FALSE
    OBVIOUS
  <2>1. given[val[s]] > 0
    BY <1>2, SMT DEF TypeOK
  <2>2. Place(val[s]) < k
    BY <1>1, <1>2, <2>1 DEF ReturnedBefore, Before, k
  <2> QED
    BY <1>4, <1>6, <2>2, SMT
<1> QED
  BY <1>1, <1>2, <1>3, <1>6, <1>7, SMT DEF k

\* Returning a number keeps the invariant.
LEMMA InvTake ==
  ASSUME SequenceInv, NEW s \in Objects, Take(s), TypeOK'
  PROVE  SequenceInv'
<1> USE DEF SequenceInv
<1> DEFINE a == avail[s]
           n == val[s]
           k == reserved - a
<1>1. /\ s \in open /\ a \in Nat /\ a > 0 /\ a <= reserved /\ reserved \in Nat /\ Count \in Nat /\ reserved <= Count
      /\ n \in Values /\ n = Plus(origin, k) /\ Place(n) = k /\ given[n] = 0
  BY TakenIsNext
<1>2. \A u \in open : u = s
  BY <1>1 DEF OneOpen
<1>3. /\ reserved' = reserved /\ open' = open /\ origin' = origin /\ stored' = stored
      /\ avail' = [avail EXCEPT ![s] = a - 1] /\ val' = [val EXCEPT ![s] = Plus(n, 1)]
      /\ given' = [given EXCEPT ![n] = given[n] + 1] /\ pc' = [pc EXCEPT ![s] = "idle"]
  BY DEF Take
<1>4. avail'[s] = a - 1 /\ val'[s] = Plus(n, 1) /\ pc'[s] = "idle"
      /\ \A u \in Objects : u # s => avail'[u] = avail[u] /\ pc'[u] = pc[u]
  BY <1>3 DEF TypeOK
<1>5. given'[n] = 1 /\ \A v \in Values : v # n => given'[v] = given[v]
  <2>1. given \in [Values -> Nat]
    BY DEF TypeOK
  <2>2. given'[n] = given[n] + 1 /\ \A v \in Values : v # n => given'[v] = given[v]
    BY <1>1, <1>3, <2>1
  <2> QED
    BY <1>1, <2>2, SMT
<1>6. k \in Nat /\ k + 1 <= Count /\ k < reserved /\ reserved - (a - 1) = k + 1 /\ a - 1 <= reserved
  BY <1>1, SMT
<1>7. val'[s] = Plus(origin, reserved - (a - 1))
  <2>1. origin \in Values
    BY DEF TypeOK
  <2>2. Plus(Plus(origin, k), 1) = Plus(origin, k + 1)
    BY <1>6, <2>1, PlusPlus
  <2> QED
    BY <1>1, <1>4, <1>6, <2>2
<1> HIDE DEF a, n, k
<1>8. StoredIsNext' /\ OneOpen' /\ Quiet'
  BY <1>1, <1>3, <1>4 DEF StoredIsNext, Plus, OneOpen, Quiet
<1>9. TakesOne' 
  <2>1. \A u \in Objects : u # s => u \notin open /\ pc[u] = "idle"
    BY <1>2 DEF Quiet
  <2> QED
    BY <1>4, <2>1 DEF TakesOne
<1>10. Batches'
  BY <1>1, <1>2, <1>3, <1>4, <1>6, <1>7 DEF Batches, BatchOf, Plus
<1>11. UniqueNumbers'
  BY <1>5, SMT DEF UniqueNumbers
<1>12. ReturnedBefore'
  <2> SUFFICES ASSUME NEW v \in Values, given'[v] > 0
               PROVE  Place(v) < reserved /\ Place(v) < reserved - (a - 1)
    BY <1>2, <1>3, <1>4 DEF ReturnedBefore, Before, Place
  <2>1. Place(v) \in Int
    BY MaxValueAssumption, SMT DEF Place, TypeOK, Values
  <2>2. CASE v = n
    BY <1>1, <1>6, <2>2, SMT
  <2>3. CASE v # n
    <3>1. Place(v) < k
      BY <1>1, <1>5, <2>3 DEF ReturnedBefore, Before, a, k
    <3> QED
      BY <1>1, <1>6, <2>1, <3>1, SMT
  <2> QED
    BY <2>2, <2>3
<1> QED
  BY <1>8, <1>9, <1>10, <1>11, <1>12

\* The other steps change neither what is stored nor what was returned.
LEMMA InvOther ==
  ASSUME SequenceInv, OneAtATime, NEW s \in Objects, TypeOK',
         \/ Open(s) \/ Close(s) \/ Read(s) \/ CommitFails(s) \/ Crash
         \/ \E u \in Objects : Move(s, u)
  PROVE  SequenceInv'
<1> USE DEF SequenceInv
<1>0. reserved \in Nat /\ \A v \in Values : Place(v) \in Int
  BY MaxValueAssumption, SMT DEF TypeOK, Place, Values
<1>1. /\ stored' = stored /\ reserved' = reserved /\ origin' = origin /\ given' = given
  BY DEF Open, Close, Read, CommitFails, Crash, Move
<1>2. StoredIsNext' /\ UniqueNumbers'
  BY <1>1 DEF StoredIsNext, UniqueNumbers, Plus
<1>3. \A v \in Values : Before(v, reserved)'
  BY <1>1 DEF ReturnedBefore, Before, Place
<1>4. CASE Open(s)
  <2>1. open' = {s} /\ open = {} /\ avail' = [avail EXCEPT ![s] = 0] /\ pc' = pc /\ val' = val
    BY <1>4 DEF Open
  <2>2. avail'[s] = 0 /\ pc[s] = "idle" /\ \A u \in Objects : pc[u] = "idle"
    BY <2>1 DEF TypeOK, Quiet
  <2>3. TakesOne' /\ OneOpen' /\ Quiet'
    BY <2>1, <2>2 DEF TakesOne, OneOpen, Quiet
  <2>4. Batches'
    BY <1>0, <1>1, <2>1, <2>2, SMT DEF Batches, BatchOf
  <2>5. ReturnedBefore'
    <3>1. \A v \in Values : Before(v, reserved - 0)'
      BY <1>0, <1>1, <1>3, SMT DEF Before
    <3> QED
      BY <1>3, <2>1, <2>2, <3>1 DEF ReturnedBefore, Before
  <2> QED
    BY <1>2, <2>3, <2>4, <2>5
<1>5. CASE Close(s) \/ Crash
  <2>1. open' = {}
    BY <1>5 DEF Close, Crash, OneOpen
  <2>2. \A u \in Objects : pc'[u] = "idle"
    BY <1>5 DEF Close, Crash, OneOpen, Quiet
  <2> QED
    BY <1>2, <1>3, <2>1, <2>2 DEF TakesOne, OneOpen, Quiet, Batches, ReturnedBefore
<1>6. CASE Read(s) \/ CommitFails(s)
  <2>1. s \in open /\ open' = open /\ avail' = avail /\ avail[s] = 0
    BY <1>6 DEF Read, CommitFails, Quiet, Batches, BatchOf
  <2>2. \A u \in open : u = s
    BY <2>1 DEF OneOpen
  <2>3. /\ pc'[s] = "idle" \/ (pc'[s] = "commit" /\ val'[s] = stored)
        /\ \A u \in Objects : u # s => pc'[u] = pc[u]
    BY <1>6 DEF Read, CommitFails, TypeOK
  <2>4. TakesOne' /\ OneOpen' /\ Quiet'
    BY <2>1, <2>3 DEF TakesOne, OneOpen, Quiet
  <2>5. Batches'
    BY <1>0, <1>1, <2>1, <2>2, <2>3, SMT DEF Batches, BatchOf
  <2>6. ReturnedBefore'
    BY <1>1, <1>3, <2>1 DEF ReturnedBefore, Before, Place
  <2> QED
    BY <1>2, <2>4, <2>5, <2>6
<1>7. ASSUME NEW u \in Objects, Move(s, u) PROVE SequenceInv'
  <2>1. /\ s \in open /\ u \notin open /\ u # s /\ open' = {u} /\ pc' = pc
        /\ avail' = [avail EXCEPT ![u] = avail[s], ![s] = 0]
        /\ val' = [val EXCEPT ![u] = val[s]] /\ pc[s] = "idle"
    BY <1>7 DEF Move, OneOpen
  <2>2. avail'[u] = avail[s] /\ val'[u] = val[s] /\ \A x \in Objects : pc[x] = "idle"
    BY <2>1 DEF TypeOK, Quiet, OneOpen
  <2>3. TakesOne' /\ OneOpen' /\ Quiet'
    BY <2>1, <2>2 DEF TakesOne, OneOpen, Quiet
  <2>4. Batches'
    BY <1>1, <2>1, <2>2 DEF Batches, BatchOf, Plus
  <2>5. ReturnedBefore'
    BY <1>1, <1>3, <2>1, <2>2 DEF ReturnedBefore, Before, Place
  <2> QED
    BY <1>2, <2>3, <2>4, <2>5
<1> QED
  BY <1>4, <1>5, <1>6, <1>7

\* The invariant is inductive.
LEMMA InvStep == ASSUME SequenceInv, OneAtATime, [Next]_vars PROVE SequenceInv'
<1>0. TypeOK'
  BY TypeStep DEF SequenceInv
<1>1. ASSUME NEW s \in Objects, Open(s) \/ Close(s) \/ Read(s) \/ CommitFails(s) PROVE SequenceInv'
  BY <1>0, <1>1, InvOther
<1>2. ASSUME NEW s \in Objects, NEW u \in Objects, Move(s, u) PROVE SequenceInv'
  BY <1>0, <1>2, InvOther
<1>3. ASSUME NEW s \in Objects, CommitSucceeds(s) PROVE SequenceInv'
  BY <1>0, <1>3, InvCommit
<1>4. ASSUME NEW s \in Objects, Take(s) PROVE SequenceInv'
  BY <1>0, <1>4, InvTake
<1>5. CASE Crash
  <2>1. CASE \E s \in Objects : TRUE
    BY <1>0, <1>5, <2>1, InvOther
  <2>2. CASE Objects = {}
    <3>1. open' = {} /\ stored' = stored /\ reserved' = reserved /\ origin' = origin /\ given' = given
      BY <1>5 DEF Crash
    <3> QED
      BY <1>0, <2>2, <3>1 DEF SequenceInv, TakesOne, OneOpen, Quiet, Batches, ReturnedBefore,
         StoredIsNext, UniqueNumbers, Before, Place, Plus
  <2> QED
    BY <2>1, <2>2
<1>6. CASE UNCHANGED vars
  BY <1>0, <1>6 DEF vars, SequenceInv, TakesOne, OneOpen, Quiet, Batches, BatchOf, ReturnedBefore,
     StoredIsNext, UniqueNumbers, Before, Place, Plus
<1> QED
  BY <1>1, <1>2, <1>3, <1>4, <1>5, <1>6 DEF Next

-------------------------------------------------------------------------------
(***************************************************************************)
(* The theorems.                                                           *)
(***************************************************************************)

\* With one object at a time, no number is returned twice, in any number of
\* runs of the program, whatever commits fail (sequence.h:16).
THEOREM NumbersAreUnique ==
  ASSUME OneAtATime
  PROVE  Spec => [](TypeOK /\ UniqueNumbers)
<1>1. Spec => []SequenceInv
  <2>1. SequenceInv /\ [Next]_vars => SequenceInv'
    BY InvStep
  <2> QED
    BY <2>1, InvInit, PTL DEF Spec
<1>2. SequenceInv => TypeOK /\ UniqueNumbers
  BY DEF SequenceInv
<1> QED
  BY <1>1, <1>2, PTL

\* And each comes after all that were returned before (tests/sequence.cc:27).
THEOREM NumbersFollow ==
  ASSUME OneAtATime
  PROVE  Spec => NumbersIncrease
<1>1. Spec => []SequenceInv
  <2>1. SequenceInv /\ [Next]_vars => SequenceInv'
    BY InvStep
  <2> QED
    BY <2>1, InvInit, PTL DEF Spec
<1>2. SequenceInv /\ [Next]_vars => [Increases]_vars
  <2> SUFFICES ASSUME SequenceInv, [Next]_vars PROVE [Increases]_vars
    OBVIOUS
  <2>1. ASSUME NEW s \in Objects, Take(s) PROVE Increases
    <3>1. /\ s \in open /\ val[s] \in Values /\ Place(val[s]) = reserved - avail[s]
      BY <2>1, TakenIsNext
    <3>2. \A v \in Values : v # val[s] => given'[v] = given[v]
      BY <2>1 DEF Take, SequenceInv, TypeOK
    <3>3. \A w \in Values : given[w] > 0 => Place(w) < Place(val[s])
      BY <3>1 DEF SequenceInv, ReturnedBefore, Before
    <3>4. \A v \in Values : given[v] \in Nat
      BY DEF SequenceInv, TypeOK
    <3> QED
      BY <3>2, <3>3, <3>4, SMT DEF Increases
  <2>2. CASE given' = given
    BY <2>2, SMT DEF Increases, SequenceInv, TypeOK
  <2> QED
    BY <2>1, <2>2 DEF Next, Open, Close, Move, Read, CommitSucceeds, CommitFails, Crash, vars
<1> QED
  BY <1>1, <1>2, PTL DEF Spec, NumbersIncrease

===============================================================================
