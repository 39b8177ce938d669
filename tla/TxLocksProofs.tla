---------------------------- MODULE TxLocksProofs ----------------------------
(***************************************************************************)
(* Proofs about TxLocks.tla, for every set of threads and of operations.   *)
(* What a thread has locked is followed along the steps of its program:    *)
(* every program is built from pieces that leave locked what was locked    *)
(* before them, and takes its mutexes in one order,                        *)
(*                                                                         *)
(*      number, log, file, alloc, sequencer.                               *)
(***************************************************************************)
EXTENDS TxLocks, TLAPS

Steps == {"take", "share", "release", "change"} \X Mutexes

\* What a thread has locked: what it owns and what it shares.
Locked  == [own : SUBSET Mutexes, shr : SUBSET Mutexes]
Has(o, s) == [own |-> o, shr |-> s]
Nothing == Has({}, {})

Order == [m \in Mutexes |->
            IF m = "number" THEN 0 ELSE IF m = "log" THEN 1 ELSE IF m = "file" THEN 2
            ELSE IF m = "alloc" THEN 3 ELSE 4]

\* A thread that has h may wait for m.
MayWait(m, h) ==
  /\ m \notin h.own \union h.shr
  /\ \A n \in h.own \union h.shr :
       /\ n \notin MayNotHold(m)
       /\ "begin_number" \notin Operations => Order[n] < Order[m]

Legal(s, h) ==
  /\ s[1] \in {"take", "share"} => MayWait(s[2], h)
  /\ s[1] = "change" => "log" \in h.own \/ "begin_full" \in Operations

After(s, h) ==
  CASE s[1] = "take"    -> Has(h.own \union {s[2]}, h.shr)
    [] s[1] = "share"   -> Has(h.own, h.shr \union {s[2]})
    [] s[1] = "release" -> IF s[2] \in h.own THEN Has(h.own \ {s[2]}, h.shr)
                                             ELSE Has(h.own, h.shr \ {s[2]})
    [] OTHER            -> h

\* f is what a thread has locked before each step of p, and after them all.
Follows(f, p) ==
  /\ f \in [1..(Len(p) + 1) -> Locked]
  /\ \A i \in 1..Len(p) : Legal(p[i], f[i]) /\ f[i + 1] = After(p[i], f[i])

\* The steps p lead from what is locked in h to what is locked in g.
Leads(p, h, g) ==
  /\ p \in Seq(Steps)
  /\ \E f : Follows(f, p) /\ f[1] = h /\ f[Len(p) + 1] = g

LockedBy(t) == Has({n \in Mutexes : owner[n] = t}, {n \in Mutexes : t \in sharers[n]})

LocksInv ==
  /\ owner \in [Mutexes -> Threads \union {None}]
  /\ sharers \in [Mutexes -> SUBSET Threads]
  /\ \A m \in Mutexes : owner[m] # None => sharers[m] = {}
  /\ todo \in [Threads -> Seq(Steps)]
  /\ \A t \in Threads : Leads(todo[t], LockedBy(t), Nothing)

-------------------------------------------------------------------------------
(***************************************************************************)
(* Programs.                                                               *)
(***************************************************************************)
\* No steps lead nowhere.
LEMMA LeadsEmpty ==
  ASSUME NEW h \in Locked
  PROVE  Leads(<<>>, h, h)
<1>1. Follows([i \in 1..1 |-> h], <<>>) BY DEF Follows
<1>. QED BY <1>1 DEF Leads

LEMMA LeadsNowhere ==
  ASSUME NEW h, NEW g, Leads(<<>>, h, g)
  PROVE  h = g
BY DEF Leads

\* What one legal step leads to.
LEMMA AfterType ==
  ASSUME NEW h \in Locked, NEW s \in Steps
  PROVE  After(s, h) \in Locked
BY DEF After, Locked, Steps, Has

LEMMA LeadsOne ==
  ASSUME NEW h \in Locked, NEW s \in Steps, Legal(s, h)
  PROVE  Leads(<<s>>, h, After(s, h))
<1>. DEFINE f == [i \in 1..2 |-> IF i = 1 THEN h ELSE After(s, h)]
<1>1. Follows(f, <<s>>) BY AfterType DEF Follows
<1>2. f[1] = h /\ f[Len(<<s>>) + 1] = After(s, h) OBVIOUS
<1>. HIDE DEF f
<1>. QED BY <1>1, <1>2 DEF Leads

\* Steps after steps.
LEMMA LeadsThrough ==
  ASSUME NEW h, NEW k, NEW g, NEW p, NEW q, Leads(p, h, k), Leads(q, k, g)
  PROVE  Leads(p \o q, h, g)
<1>1. PICK a : Follows(a, p) /\ a[1] = h /\ a[Len(p) + 1] = k BY DEF Leads
<1>2. PICK b : Follows(b, q) /\ b[1] = k /\ b[Len(q) + 1] = g BY DEF Leads
<1>3. p \in Seq(Steps) /\ q \in Seq(Steps) BY DEF Leads
<1>4. p \o q \in Seq(Steps) /\ Len(p \o q) = Len(p) + Len(q) /\ Len(p) \in Nat /\ Len(q) \in Nat
  BY <1>3
<1>. DEFINE f == [i \in 1..(Len(p) + Len(q) + 1) |-> IF i <= Len(p) THEN a[i] ELSE b[i - Len(p)]]
<1>5. f \in [1..(Len(p \o q) + 1) -> Locked] BY <1>1, <1>2, <1>4 DEF Follows
<1>6. ASSUME NEW i \in 1..Len(p \o q)
      PROVE  Legal((p \o q)[i], f[i]) /\ f[i + 1] = After((p \o q)[i], f[i])
  <2>1. CASE i < Len(p)
    <3>1. (p \o q)[i] = p[i] /\ f[i] = a[i] /\ f[i + 1] = a[i + 1] /\ i \in 1..Len(p)
      BY <1>3, <1>4, <2>1
    <3>. QED BY <3>1, <1>1 DEF Follows
  <2>2. CASE i = Len(p)
    <3>1. (p \o q)[i] = p[i] /\ f[i] = a[i] /\ f[i + 1] = b[1] /\ i \in 1..Len(p)
      BY <1>3, <1>4, <2>2
    <3>. QED BY <3>1, <1>1, <1>2, <2>2 DEF Follows
  <2>3. CASE i > Len(p)
    <3>1. (p \o q)[i] = q[i - Len(p)] BY <1>3, <1>4, <2>3
    <3>2. f[i] = b[i - Len(p)] /\ f[i + 1] = b[(i - Len(p)) + 1] /\ i - Len(p) \in 1..Len(q)
      BY <1>4, <2>3
    <3>. QED BY <3>1, <3>2, <1>2 DEF Follows
  <2>. QED BY <2>1, <2>2, <2>3, <1>4
<1>7. f[1] = h
  <2>1. CASE Len(p) = 0 BY <2>1, <1>1, <1>2, <1>4
  <2>2. CASE Len(p) > 0 BY <2>2, <1>1, <1>4
  <2>. QED BY <2>1, <2>2, <1>4
<1>8. f[Len(p \o q) + 1] = g
  <2>1. f[Len(p) + Len(q) + 1] = b[(Len(p) + Len(q) + 1) - Len(p)] BY <1>4
  <2>2. (Len(p) + Len(q) + 1) - Len(p) = Len(q) + 1 BY <1>4
  <2>. QED BY <2>1, <2>2, <1>2, <1>4
<1>. HIDE DEF f
<1>. QED BY <1>4, <1>5, <1>6, <1>7, <1>8 DEF Leads, Follows

\* The step that comes next is legal, and the others lead on from it.
LEMMA LeadsNext ==
  ASSUME NEW h, NEW g, NEW p, Leads(p, h, g), p # <<>>
  PROVE  /\ Head(p) \in Steps
         /\ Legal(Head(p), h)
         /\ Leads(Tail(p), After(Head(p), h), g)
<1>1. PICK a : Follows(a, p) /\ a[1] = h /\ a[Len(p) + 1] = g BY DEF Leads
<1>2. p \in Seq(Steps) BY DEF Leads
<1>3. /\ Len(p) \in Nat /\ Len(p) > 0 /\ Head(p) = p[1] /\ Head(p) \in Steps
      /\ Tail(p) \in Seq(Steps) /\ Len(Tail(p)) = Len(p) - 1
      /\ \A i \in 1..(Len(p) - 1) : Tail(p)[i] = p[i + 1]
  BY <1>2
<1>4. Legal(Head(p), h) /\ a[2] = After(Head(p), h) BY <1>1, <1>3 DEF Follows
<1>. DEFINE f == [i \in 1..Len(p) |-> a[i + 1]]
<1>5. f \in [1..(Len(Tail(p)) + 1) -> Locked] BY <1>1, <1>3 DEF Follows
<1>6. ASSUME NEW i \in 1..Len(Tail(p))
      PROVE  Legal(Tail(p)[i], f[i]) /\ f[i + 1] = After(Tail(p)[i], f[i])
  <2>1. i + 1 \in 1..Len(p) /\ i \in 1..Len(p) /\ i \in 1..(Len(p) - 1) BY <1>3
  <2>2. f[i] = a[i + 1] /\ f[i + 1] = a[(i + 1) + 1] /\ Tail(p)[i] = p[i + 1] BY <2>1, <1>3
  <2>. QED BY <2>1, <2>2, <1>1 DEF Follows
<1>7. f[1] = After(Head(p), h) /\ f[Len(Tail(p)) + 1] = g BY <1>1, <1>3, <1>4
<1>. HIDE DEF f
<1>. QED BY <1>3, <1>4, <1>5, <1>6, <1>7 DEF Leads, Follows

\* Steps under a mutex, or under a shared one.
LEMMA LeadsUnder ==
  ASSUME NEW o \in SUBSET Mutexes, NEW s \in SUBSET Mutexes, NEW m \in Mutexes, NEW p,
         MayWait(m, Has(o, s)),
         Leads(p, Has(o \union {m}, s), Has(o \union {m}, s))
  PROVE  Leads(Under(m, p), Has(o, s), Has(o, s))
<1>. DEFINE h == Has(o, s)
            k == Has(o \union {m}, s)
<1>1. h \in Locked /\ k \in Locked BY DEF Locked, Has
<1>2. After(Take(m), h) = k /\ Legal(Take(m), h) /\ Take(m) \in Steps
  BY DEF After, Take, Legal, Steps, Has
<1>3. (o \union {m}) \ {m} = o BY DEF MayWait, Has
<1>4. After(Release(m), k) = h /\ Legal(Release(m), k) /\ Release(m) \in Steps
  BY <1>3 DEF After, Release, Legal, Steps, Has
<1>. HIDE DEF h, k
<1>5. Leads(<<Take(m)>>, h, k) BY <1>1, <1>2, LeadsOne
<1>6. Leads(<<Release(m)>>, k, h) BY <1>1, <1>4, LeadsOne
<1>7. Leads(p, k, k) BY DEF k
<1>8. Leads(<<Take(m)>> \o p, h, k) BY <1>5, <1>7, LeadsThrough
<1>9. Leads(Under(m, p), h, h) BY <1>6, <1>8, LeadsThrough DEF Under
<1>. QED BY <1>9 DEF h

LEMMA LeadsSharing ==
  ASSUME NEW o \in SUBSET Mutexes, NEW s \in SUBSET Mutexes, NEW m \in Mutexes, NEW p,
         MayWait(m, Has(o, s)),
         Leads(p, Has(o, s \union {m}), Has(o, s \union {m}))
  PROVE  Leads(Sharing(m, p), Has(o, s), Has(o, s))
<1>. DEFINE h == Has(o, s)
            k == Has(o, s \union {m})
<1>1. h \in Locked /\ k \in Locked BY DEF Locked, Has
<1>2. After(Share(m), h) = k /\ Legal(Share(m), h) /\ Share(m) \in Steps
  BY DEF After, Share, Legal, Steps, Has
<1>3. m \notin o /\ (s \union {m}) \ {m} = s BY DEF MayWait, Has
<1>4. After(Release(m), k) = h /\ Legal(Release(m), k) /\ Release(m) \in Steps
  BY <1>3 DEF After, Release, Legal, Steps, Has
<1>. HIDE DEF h, k
<1>5. Leads(<<Share(m)>>, h, k) BY <1>1, <1>2, LeadsOne
<1>6. Leads(<<Release(m)>>, k, h) BY <1>1, <1>4, LeadsOne
<1>7. Leads(p, k, k) BY DEF k
<1>8. Leads(<<Share(m)>> \o p, h, k) BY <1>5, <1>7, LeadsThrough
<1>9. Leads(Sharing(m, p), h, h) BY <1>6, <1>8, LeadsThrough DEF Sharing
<1>. QED BY <1>9 DEF h

LEMMA LeadsUnderOnly ==
  ASSUME NEW o \in SUBSET Mutexes, NEW s \in SUBSET Mutexes, NEW m \in Mutexes,
         MayWait(m, Has(o, s))
  PROVE  /\ Leads(Under(m, <<>>), Has(o, s), Has(o, s))
         /\ Leads(Sharing(m, <<>>), Has(o, s), Has(o, s))
<1>1. Has(o \union {m}, s) \in Locked /\ Has(o, s \union {m}) \in Locked BY DEF Locked, Has
<1>. QED BY <1>1, LeadsEmpty, LeadsUnder, LeadsSharing

\* A change of the log, where it is allowed.
LEMMA LeadsChange ==
  ASSUME NEW h \in Locked, "log" \in h.own \/ "begin_full" \in Operations
  PROVE  Leads(<<ChangeLog>>, h, h)
<1>1. ChangeLog \in Steps /\ Legal(ChangeLog, h) /\ After(ChangeLog, h) = h
  BY DEF ChangeLog, Steps, Mutexes, Legal, After
<1>. QED BY <1>1, LeadsOne

\* A compaction locks alloc and file, one after the other.
LEMMA LeadsCompact ==
  ASSUME NEW o \in SUBSET Mutexes, NEW s \in SUBSET Mutexes,
         "log" \in o \/ "begin_full" \in Operations,
         MayWait("alloc", Has(o, s)), MayWait("file", Has(o, s))
  PROVE  \A c \in MaybeCompact \union {CompactSteps} : Leads(c, Has(o, s), Has(o, s))
<1>1. Has(o, s) \in Locked /\ ("log" \in Has(o, s).own \/ "begin_full" \in Operations)
  BY DEF Locked, Has
<1>2. "alloc" \in Mutexes /\ "file" \in Mutexes BY DEF Mutexes
<1>3. Leads(Under("alloc", <<>>), Has(o, s), Has(o, s)) BY <1>2, LeadsUnderOnly
<1>4. Leads(Under("file", <<>>), Has(o, s), Has(o, s)) BY <1>2, LeadsUnderOnly
<1>5. Leads(<<ChangeLog>>, Has(o, s), Has(o, s)) BY <1>1, LeadsChange
<1>6. Leads(CompactSteps, Has(o, s), Has(o, s))
  BY <1>3, <1>4, <1>5, LeadsThrough DEF CompactSteps
<1>7. Leads(<<>>, Has(o, s), Has(o, s)) BY <1>1, LeadsEmpty
<1>. QED BY <1>6, <1>7 DEF MaybeCompact

(***************************************************************************)
(* The pieces of the programs start with nothing locked, or with the       *)
(* mutex of a sequence; or with that of the sequencer, when transactions   *)
(* are numbered by a sequence.                                             *)
(***************************************************************************)
Calm(o) == o \subseteq {"number", "sequencer"} /\ ("sequencer" \in o => "begin_number" \in Operations)

LEMMA CalmWaits ==
  ASSUME NEW o, Calm(o)
  PROVE  /\ o \in SUBSET Mutexes
         /\ MayWait("log", Has(o, {})) /\ MayWait("file", Has(o, {})) /\ MayWait("alloc", Has(o, {}))
         /\ MayWait("file", Has(o \union {"log"}, {})) /\ MayWait("alloc", Has(o \union {"log"}, {}))
         /\ MayWait("alloc", Has((o \union {"log"}) \union {"file"}, {}))
         /\ "number" \notin o => MayWait("number", Has(o, {}))
BY DEF Calm, Mutexes, MayWait, Has, MayNotHold, Order

LEMMA LeadsAllocate ==
  ASSUME NEW o, Calm(o)
  PROVE  Leads(Allocate, Has(o, {}), Has(o, {}))
BY CalmWaits, LeadsUnderOnly DEF Allocate, Mutexes

LEMMA LeadsRead ==
  ASSUME NEW o, Calm(o)
  PROVE  Leads(ReadSteps(<<>>), Has(o, {}), Has(o, {}))
BY CalmWaits, LeadsUnderOnly DEF ReadSteps, Mutexes

LEMMA LeadsWrite ==
  ASSUME NEW o, Calm(o), NEW c \in MaybeCompact
  PROVE  Leads(WriteSteps(c), Has(o, {}), Has(o, {}))
<1>. DEFINE l == o \union {"log"}
<1>1. o \in SUBSET Mutexes /\ l \in SUBSET Mutexes /\ {} \in SUBSET Mutexes
      /\ "log" \in Mutexes /\ "file" \in Mutexes
  BY CalmWaits DEF Mutexes
<1>2. MayWait("log", Has(o, {})) /\ MayWait("file", Has(o, {}))
      /\ MayWait("alloc", Has(l, {})) /\ MayWait("file", Has(l, {}))
  BY CalmWaits
<1>3. "log" \in l /\ Has(l, {}) \in Locked /\ Has(l, {}).own = l BY <1>1 DEF Has, Locked
<1>. HIDE DEF l
<1>4. Leads(c, Has(l, {}), Has(l, {})) BY <1>1, <1>2, <1>3, LeadsCompact
<1>5. Leads(<<ChangeLog>>, Has(l, {}), Has(l, {})) BY <1>3, LeadsChange
<1>6. Leads(c \o <<ChangeLog>>, Has(l, {}), Has(l, {})) BY <1>4, <1>5, LeadsThrough
<1>7. Leads(Under("log", c \o <<ChangeLog>>), Has(o, {}), Has(o, {}))
  BY <1>1, <1>2, <1>6, LeadsUnder DEF l
<1>8. Leads(Sharing("file", <<>>), Has(o, {}), Has(o, {})) BY <1>1, <1>2, LeadsUnderOnly
<1>. QED BY <1>7, <1>8, LeadsThrough DEF WriteSteps

LEMMA LeadsCommit ==
  ASSUME NEW o, Calm(o), NEW c \in MaybeCompact, NEW after,
         Leads(after, Has(((o \union {"log"}) \union {"file"}) \union {"alloc"}, {}),
                      Has(((o \union {"log"}) \union {"file"}) \union {"alloc"}, {}))
  PROVE  Leads(CommitSteps(c, after), Has(o, {}), Has(o, {}))
<1>. DEFINE l == o \union {"log"}
            f == l \union {"file"}
            a == f \union {"alloc"}
<1>1. /\ o \in SUBSET Mutexes /\ l \in SUBSET Mutexes /\ f \in SUBSET Mutexes /\ a \in SUBSET Mutexes
      /\ {} \in SUBSET Mutexes
      /\ "log" \in Mutexes /\ "file" \in Mutexes /\ "alloc" \in Mutexes
  BY CalmWaits DEF Mutexes
<1>2. MayWait("log", Has(o, {})) /\ MayWait("file", Has(l, {})) /\ MayWait("alloc", Has(l, {}))
      /\ MayWait("alloc", Has(f, {}))
  BY CalmWaits
<1>3. "log" \in l /\ "log" \in a /\ Has(a, {}) \in Locked /\ Has(a, {}).own = a BY <1>1 DEF Has, Locked
<1>4. Leads(after, Has(a, {}), Has(a, {})) OBVIOUS
<1>. HIDE DEF l, f, a
<1>5. Leads(<<ChangeLog>>, Has(a, {}), Has(a, {})) BY <1>3, LeadsChange
<1>6. Leads(<<ChangeLog>> \o after, Has(a, {}), Has(a, {})) BY <1>4, <1>5, LeadsThrough
<1>7. Leads(Under("alloc", <<ChangeLog>> \o after), Has(f, {}), Has(f, {}))
  BY <1>1, <1>2, <1>6, LeadsUnder DEF a
<1>8. Leads(Under("file", Under("alloc", <<ChangeLog>> \o after)), Has(l, {}), Has(l, {}))
  BY <1>1, <1>2, <1>7, LeadsUnder DEF f
<1>9. Leads(c, Has(l, {}), Has(l, {})) BY <1>1, <1>2, <1>3, LeadsCompact
<1>10. Leads(c \o Under("file", Under("alloc", <<ChangeLog>> \o after)), Has(l, {}), Has(l, {}))
  BY <1>8, <1>9, LeadsThrough
<1>. QED BY <1>1, <1>2, <1>10, LeadsUnder DEF l, CommitSteps

LEMMA LeadsNumber ==
  ASSUME NEW o, Calm(o), "number" \notin o, NEW n \in NextNumber
  PROVE  Leads(n, Has(o, {}), Has(o, {}))
<1>. DEFINE h == Has(o \union {"number"}, {})
<1>1. Calm(o \union {"number"}) /\ o \in SUBSET Mutexes /\ {} \in SUBSET Mutexes
      /\ "number" \in Mutexes /\ MayWait("number", Has(o, {}))
  BY CalmWaits DEF Calm, Mutexes
<1>2. Leads(Under("number", <<>>), Has(o, {}), Has(o, {})) BY <1>1, LeadsUnderOnly
<1>3. ASSUME NEW c \in MaybeCompact, NEW d \in MaybeCompact
      PROVE  Leads(Under("number", Allocate \o ReadSteps(<<>>) \o WriteSteps(c) \o CommitSteps(d, <<>>)),
                   Has(o, {}), Has(o, {}))
  <2>1. Leads(Allocate, h, h) BY <1>1, LeadsAllocate
  <2>2. Leads(ReadSteps(<<>>), h, h) BY <1>1, LeadsRead
  <2>3. Leads(WriteSteps(c), h, h) BY <1>1, LeadsWrite
  <2>. DEFINE a == ((((o \union {"number"}) \union {"log"}) \union {"file"}) \union {"alloc"})
  <2>4. Has(a, {}) \in Locked BY <1>1 DEF Has, Locked, Mutexes
  <2>5. Leads(<<>>, Has(a, {}), Has(a, {})) BY <2>4, LeadsEmpty
  <2>6. Leads(CommitSteps(d, <<>>), h, h) BY <1>1, <2>5, LeadsCommit
  <2>. HIDE DEF h
  <2>7. Leads(Allocate \o ReadSteps(<<>>) \o WriteSteps(c) \o CommitSteps(d, <<>>), h, h)
    BY <2>1, <2>2, <2>3, <2>6, LeadsThrough
  <2>. QED BY <2>7, <1>1, LeadsUnder DEF h
<1>. QED BY <1>2, <1>3 DEF NextNumber

\* Every program is legal, and leaves nothing locked.
LEMMA LeadsProgram ==
  ASSUME NEW operation \in Operations, NEW p \in Programs(operation)
  PROVE  Leads(p, Nothing, Nothing)
<1>1. Nothing = Has({}, {}) /\ Calm({}) /\ {} \in SUBSET Mutexes BY DEF Nothing, Calm
<1>2. MayWait("sequencer", Has({}, {})) /\ "sequencer" \in Mutexes /\ "file" \in Mutexes
      /\ "alloc" \in Mutexes /\ "log" \in Mutexes
  BY DEF MayWait, Has, Mutexes
<1>3. MayWait("log", Has({}, {})) /\ MayWait("file", Has({}, {})) /\ MayWait("alloc", Has({}, {}))
  BY <1>1, CalmWaits
<1>4. Leads(Under("sequencer", <<>>), Has({}, {}), Has({}, {})) BY <1>1, <1>2, LeadsUnderOnly
<1>5. Leads(Allocate, Has({}, {}), Has({}, {})) BY <1>1, LeadsAllocate
<1>6. Leads(Under("alloc", <<>>), Has({}, {}), Has({}, {})) BY <1>1, <1>2, <1>3, LeadsUnderOnly
<1>7. CASE operation = "begin" BY <1>7, <1>1, <1>4, <1>5, LeadsThrough DEF Programs
<1>8. CASE operation = "begin_full"
  <2>1. Leads(CompactSteps, Has({}, {}), Has({}, {})) BY <1>8, <1>1, <1>3, LeadsCompact
  <2>2. Leads(AllocateFull, Has({}, {}), Has({}, {})) BY <2>1, <1>6, LeadsThrough DEF AllocateFull
  <2>. QED BY <2>2, <1>8, <1>1, <1>4, LeadsThrough DEF Programs
<1>9. CASE operation = "begin_number"
  <2>1. PICK n \in NextNumber : p = Under("sequencer", n) \o Allocate BY <1>9 DEF Programs
  <2>2. Calm({"sequencer"}) BY <1>9 DEF Calm
  <2>3. Leads(n, Has({"sequencer"}, {}), Has({"sequencer"}, {})) BY <2>2, LeadsNumber
  <2>4. {} \union {"sequencer"} = {"sequencer"} OBVIOUS
  <2>5. Leads(Under("sequencer", n), Has({}, {}), Has({}, {}))
    BY <2>3, <2>4, <1>1, <1>2, LeadsUnder
  <2>. QED BY <2>1, <2>5, <1>1, <1>5, LeadsThrough
<1>10. CASE operation = "read"
  <2>1. MayWait("sequencer", Has({}, {} \union {"file"})) BY DEF MayWait, Has, MayNotHold, Order, Mutexes
  <2>2. {} \union {"file"} \in SUBSET Mutexes BY <1>2
  <2>3. Leads(Sharing("sequencer", <<>>), Has({}, {} \union {"file"}), Has({}, {} \union {"file"}))
    BY <2>1, <2>2, <1>1, <1>2, LeadsUnderOnly
  <2>4. Leads(ReadSteps(Sharing("sequencer", <<>>)), Has({}, {}), Has({}, {}))
    BY <2>3, <1>1, <1>2, <1>3, LeadsSharing DEF ReadSteps
  <2>. QED BY <2>4, <1>10, <1>1 DEF Programs
<1>11. CASE operation = "write" BY <1>11, <1>1, LeadsWrite DEF Programs
<1>12. CASE operation = "commit"
  <2>. DEFINE a == ((({} \union {"log"}) \union {"file"}) \union {"alloc"})
  <2>1. MayWait("sequencer", Has(a, {})) BY DEF MayWait, Has, MayNotHold, Order, Mutexes
  <2>2. a \in SUBSET Mutexes BY <1>2
  <2>3. Leads(Under("sequencer", <<>>), Has(a, {}), Has(a, {}))
    BY <2>1, <2>2, <1>1, <1>2, LeadsUnderOnly
  <2>4. \A c \in MaybeCompact : Leads(CommitSteps(c, Under("sequencer", <<>>)), Has({}, {}), Has({}, {}))
    BY <2>3, <1>1, LeadsCommit
  <2>. QED BY <2>4, <1>12, <1>1 DEF Programs
<1>13. CASE operation = "compact"
  <2>1. MayWait("alloc", Has({} \union {"log"}, {})) /\ MayWait("file", Has({} \union {"log"}, {}))
    BY <1>1, CalmWaits
  <2>2. {} \union {"log"} \in SUBSET Mutexes /\ "log" \in {} \union {"log"} BY <1>2
  <2>3. Leads(CompactSteps, Has({} \union {"log"}, {}), Has({} \union {"log"}, {}))
    BY <2>1, <2>2, <1>1, LeadsCompact
  <2>4. Leads(Under("log", CompactSteps), Has({}, {}), Has({}, {}))
    BY <2>3, <1>1, <1>2, <1>3, LeadsUnder
  <2>. QED BY <2>4, <1>13, <1>1 DEF Programs
<1>14. CASE operation = "destroy" BY <1>14, <1>1, <1>4, <1>6, LeadsThrough DEF Programs
<1>15. CASE operation = "number" BY <1>15, <1>1, LeadsNumber DEF Programs
<1>. QED BY <1>7, <1>8, <1>9, <1>10, <1>11, <1>12, <1>13, <1>14, <1>15, OperationsAssumption

-------------------------------------------------------------------------------
(***************************************************************************)
(* The invariant.                                                          *)
(***************************************************************************)
LEMMA LocksInvInit ==
  ASSUME Init
  PROVE  LocksInv
<1>1. \A t \in Threads : LockedBy(t) = Nothing
  BY NoneAssumption DEF Init, LockedBy, Nothing, Has
<1>2. Nothing \in Locked BY DEF Nothing, Locked, Has
<1>3. \A t \in Threads : Leads(todo[t], LockedBy(t), Nothing)
  BY <1>1, <1>2, LeadsEmpty DEF Init
<1>. QED BY <1>3 DEF Init, LocksInv

\* What the next step of a thread locks or releases, and that no other
\* thread's mutexes change.
LEMMA LocksInvStep ==
  ASSUME LocksInv, NEW t \in Threads, todo[t] # <<>>,
         owner' \in [Mutexes -> Threads \union {None}],
         sharers' \in [Mutexes -> SUBSET Threads],
         \A m \in Mutexes : owner'[m] # None => sharers'[m] = {},
         Done(t),
         LockedBy(t)' = After(Head(todo[t]), LockedBy(t)),
         \A u \in Threads \ {t} : LockedBy(u)' = LockedBy(u)
  PROVE  LocksInv'
<1>1. Leads(todo[t], LockedBy(t), Nothing) BY DEF LocksInv
<1>2. Leads(Tail(todo[t]), After(Head(todo[t]), LockedBy(t)), Nothing) BY <1>1, LeadsNext
<1>3. Tail(todo[t]) \in Seq(Steps) BY <1>2 DEF Leads
<1>4. todo' \in [Threads -> Seq(Steps)] BY <1>3 DEF Done, LocksInv
<1>5. ASSUME NEW u \in Threads
      PROVE  Leads(todo'[u], LockedBy(u)', Nothing)
  <2>1. CASE u = t
    <3>1. todo'[u] = Tail(todo[t]) BY <2>1 DEF Done, LocksInv
    <3>. QED BY <3>1, <1>2, <2>1
  <2>2. CASE u # t
    <3>1. todo'[u] = todo[u] /\ LockedBy(u)' = LockedBy(u) BY <2>2 DEF Done, LocksInv
    <3>. QED BY <3>1 DEF LocksInv
  <2>. QED BY <2>1, <2>2
<1>. QED BY <1>4, <1>5 DEF LocksInv

LEMMA LocksInvNext ==
  ASSUME LocksInv, [Next]_vars
  PROVE  LocksInv'
<1>1. CASE UNCHANGED vars BY <1>1 DEF vars, LocksInv, LockedBy
<1>2. ASSUME NEW t \in Threads, Call(t)
      PROVE  LocksInv'
  <2>1. PICK operation \in Operations : \E p \in Programs(operation) : todo' = [todo EXCEPT ![t] = p]
    BY <1>2 DEF Call
  <2>2. PICK p \in Programs(operation) : todo' = [todo EXCEPT ![t] = p] BY <2>1
  <2>3. Leads(p, Nothing, Nothing) BY LeadsProgram
  <2>4. LockedBy(t) = Nothing BY <1>2, LeadsNowhere DEF Call, LocksInv
  <2>5. \A u \in Threads : LockedBy(u)' = LockedBy(u) BY <1>2 DEF Call, LockedBy
  <2>6. p \in Seq(Steps) BY <2>3 DEF Leads
  <2>7. todo' \in [Threads -> Seq(Steps)] BY <2>2, <2>6 DEF LocksInv
  <2>8. ASSUME NEW u \in Threads PROVE Leads(todo'[u], LockedBy(u)', Nothing)
    <3>1. CASE u = t
      <4>1. todo'[u] = p BY <2>2, <3>1 DEF LocksInv
      <4>. QED BY <4>1, <2>3, <2>4, <2>5, <3>1
    <3>2. CASE u # t
      <4>1. todo'[u] = todo[u] BY <2>2, <3>2 DEF LocksInv
      <4>. QED BY <4>1, <2>5 DEF LocksInv
    <3>. QED BY <3>1, <3>2
  <2>. QED BY <2>7, <2>8, <1>2 DEF Call, LocksInv
<1>3. ASSUME NEW t \in Threads, todo[t] # <<>>
      PROVE  /\ Head(todo[t]) \in Steps /\ Head(todo[t])[2] \in Mutexes
             /\ Legal(Head(todo[t]), LockedBy(t))
  BY <1>3, LeadsNext DEF LocksInv, Steps
<1>4. ASSUME NEW t \in Threads, TakeMutex(t)
      PROVE  LocksInv'
  <2>. DEFINE m == Head(todo[t])[2]
  <2>1. /\ todo[t] # <<>> /\ Head(todo[t])[1] = "take" /\ m \in Mutexes
        /\ owner[m] = None /\ sharers[m] = {} /\ owner' = [owner EXCEPT ![m] = t] /\ sharers' = sharers
        /\ Done(t)
    BY <1>3, <1>4 DEF TakeMutex, Next1
  <2>2. After(Head(todo[t]), LockedBy(t)) = Has(LockedBy(t).own \union {m}, LockedBy(t).shr)
    BY <2>1 DEF After
  <2>. HIDE DEF m
  <2>3. LockedBy(t)' = Has(LockedBy(t).own \union {m}, LockedBy(t).shr)
    <3>1. {n \in Mutexes : owner'[n] = t} = {n \in Mutexes : owner[n] = t} \union {m}
      BY <2>1 DEF LocksInv
    <3>2. {n \in Mutexes : t \in sharers'[n]} = {n \in Mutexes : t \in sharers[n]} BY <2>1
    <3>3. LockedBy(t)' = Has({n \in Mutexes : owner'[n] = t}, {n \in Mutexes : t \in sharers'[n]}) BY DEF LockedBy
    <3>. QED BY <3>1, <3>2, <3>3 DEF LockedBy, Has
  <2>4. ASSUME NEW u \in Threads \ {t} PROVE LockedBy(u)' = LockedBy(u)
    <3>1. {n \in Mutexes : owner'[n] = u} = {n \in Mutexes : owner[n] = u}
      BY <2>1, NoneAssumption DEF LocksInv
    <3>. QED BY <3>1, <2>1 DEF LockedBy
  <2>5. /\ owner' \in [Mutexes -> Threads \union {None}] /\ sharers' \in [Mutexes -> SUBSET Threads]
        /\ \A n \in Mutexes : owner'[n] # None => sharers'[n] = {}
    BY <2>1 DEF LocksInv
  <2>. QED BY <2>1, <2>2, <2>3, <2>4, <2>5, LocksInvStep
<1>5. ASSUME NEW t \in Threads, ShareMutex(t)
      PROVE  LocksInv'
  <2>. DEFINE m == Head(todo[t])[2]
  <2>1. /\ todo[t] # <<>> /\ Head(todo[t])[1] = "share" /\ m \in Mutexes
        /\ owner[m] = None /\ sharers' = [sharers EXCEPT ![m] = @ \union {t}] /\ owner' = owner
        /\ Done(t)
    BY <1>3, <1>5 DEF ShareMutex, Next1
  <2>2. After(Head(todo[t]), LockedBy(t)) = Has(LockedBy(t).own, LockedBy(t).shr \union {m})
    BY <2>1 DEF After
  <2>. HIDE DEF m
  <2>3. LockedBy(t)' = Has(LockedBy(t).own, LockedBy(t).shr \union {m})
    <3>1. {n \in Mutexes : t \in sharers'[n]} = {n \in Mutexes : t \in sharers[n]} \union {m}
      BY <2>1 DEF LocksInv
    <3>2. {n \in Mutexes : owner'[n] = t} = {n \in Mutexes : owner[n] = t} BY <2>1
    <3>3. LockedBy(t)' = Has({n \in Mutexes : owner'[n] = t}, {n \in Mutexes : t \in sharers'[n]}) BY DEF LockedBy
    <3>. QED BY <3>1, <3>2, <3>3 DEF LockedBy, Has
  <2>4. ASSUME NEW u \in Threads \ {t} PROVE LockedBy(u)' = LockedBy(u)
    <3>1. {n \in Mutexes : u \in sharers'[n]} = {n \in Mutexes : u \in sharers[n]}
      BY <2>1 DEF LocksInv
    <3>. QED BY <3>1, <2>1 DEF LockedBy
  <2>5. /\ owner' \in [Mutexes -> Threads \union {None}] /\ sharers' \in [Mutexes -> SUBSET Threads]
        /\ \A n \in Mutexes : owner'[n] # None => sharers'[n] = {}
    BY <2>1 DEF LocksInv
  <2>. QED BY <2>1, <2>2, <2>3, <2>4, <2>5, LocksInvStep
<1>6. ASSUME NEW t \in Threads, ReleaseMutex(t)
      PROVE  LocksInv'
  <2>. DEFINE m == Head(todo[t])[2]
  <2>1. todo[t] # <<>> /\ Head(todo[t])[1] = "release" /\ m \in Mutexes /\ Done(t)
    BY <1>3, <1>6 DEF ReleaseMutex, Next1
  <2>2. CASE owner[m] = t
    <3>1. owner' = [owner EXCEPT ![m] = None] /\ sharers' = sharers
      BY <2>2, <1>6 DEF ReleaseMutex
    <3>2. After(Head(todo[t]), LockedBy(t)) = Has(LockedBy(t).own \ {m}, LockedBy(t).shr)
      BY <2>1, <2>2 DEF After, LockedBy, Has
    <3>. HIDE DEF m
    <3>3. LockedBy(t)' = Has(LockedBy(t).own \ {m}, LockedBy(t).shr)
      <4>1. {n \in Mutexes : owner'[n] = t} = {n \in Mutexes : owner[n] = t} \ {m}
        BY <2>1, <3>1, NoneAssumption DEF LocksInv
      <4>2. {n \in Mutexes : t \in sharers'[n]} = {n \in Mutexes : t \in sharers[n]} BY <3>1
      <4>3. LockedBy(t)' = Has({n \in Mutexes : owner'[n] = t}, {n \in Mutexes : t \in sharers'[n]}) BY DEF LockedBy
      <4>. QED BY <4>1, <4>2, <4>3 DEF LockedBy, Has
    <3>4. ASSUME NEW u \in Threads \ {t} PROVE LockedBy(u)' = LockedBy(u)
      <4>1. {n \in Mutexes : owner'[n] = u} = {n \in Mutexes : owner[n] = u}
        BY <2>1, <2>2, <3>1, NoneAssumption DEF LocksInv
      <4>. QED BY <4>1, <3>1 DEF LockedBy
    <3>5. /\ owner' \in [Mutexes -> Threads \union {None}] /\ sharers' \in [Mutexes -> SUBSET Threads]
          /\ \A n \in Mutexes : owner'[n] # None => sharers'[n] = {}
      BY <2>1, <3>1 DEF LocksInv
    <3>. QED BY <2>1, <3>2, <3>3, <3>4, <3>5, LocksInvStep
  <2>3. CASE owner[m] # t
    <3>1. sharers' = [sharers EXCEPT ![m] = @ \ {t}] /\ owner' = owner
      BY <2>3, <1>6 DEF ReleaseMutex
    <3>2. After(Head(todo[t]), LockedBy(t)) = Has(LockedBy(t).own, LockedBy(t).shr \ {m})
      BY <2>1, <2>3 DEF After, LockedBy, Has
    <3>. HIDE DEF m
    <3>3. LockedBy(t)' = Has(LockedBy(t).own, LockedBy(t).shr \ {m})
      <4>1. {n \in Mutexes : t \in sharers'[n]} = {n \in Mutexes : t \in sharers[n]} \ {m}
        BY <2>1, <3>1 DEF LocksInv
      <4>2. {n \in Mutexes : owner'[n] = t} = {n \in Mutexes : owner[n] = t} BY <3>1
      <4>3. LockedBy(t)' = Has({n \in Mutexes : owner'[n] = t}, {n \in Mutexes : t \in sharers'[n]}) BY DEF LockedBy
      <4>. QED BY <4>1, <4>2, <4>3 DEF LockedBy, Has
    <3>4. ASSUME NEW u \in Threads \ {t} PROVE LockedBy(u)' = LockedBy(u)
      <4>1. {n \in Mutexes : u \in sharers'[n]} = {n \in Mutexes : u \in sharers[n]}
        BY <2>1, <3>1 DEF LocksInv
      <4>. QED BY <4>1, <3>1 DEF LockedBy
    <3>5. /\ owner' \in [Mutexes -> Threads \union {None}] /\ sharers' \in [Mutexes -> SUBSET Threads]
          /\ \A n \in Mutexes : owner'[n] # None => sharers'[n] = {}
      BY <2>1, <3>1 DEF LocksInv
    <3>. QED BY <2>1, <3>2, <3>3, <3>4, <3>5, LocksInvStep
  <2>. QED BY <2>2, <2>3
<1>7. ASSUME NEW t \in Threads, Work(t)
      PROVE  LocksInv'
  <2>1. todo[t] # <<>> /\ Head(todo[t])[1] = "change" /\ Done(t) /\ owner' = owner /\ sharers' = sharers
    BY <1>7 DEF Work, Next1
  <2>2. After(Head(todo[t]), LockedBy(t)) = LockedBy(t) BY <2>1 DEF After
  <2>3. \A u \in Threads : LockedBy(u)' = LockedBy(u) BY <2>1 DEF LockedBy
  <2>4. /\ owner' \in [Mutexes -> Threads \union {None}] /\ sharers' \in [Mutexes -> SUBSET Threads]
        /\ \A n \in Mutexes : owner'[n] # None => sharers'[n] = {}
    BY <2>1 DEF LocksInv
  <2>. QED BY <2>1, <2>2, <2>3, <2>4, LocksInvStep
<1>. QED BY <1>1, <1>2, <1>4, <1>5, <1>6, <1>7 DEF Next

LEMMA LocksInvAlways == Spec => []LocksInv
<1>1. Init => LocksInv BY LocksInvInit
<1>2. LocksInv /\ [Next]_vars => LocksInv' BY LocksInvNext
<1>. QED BY <1>1, <1>2, PTL DEF Spec

\* A thread that has something to do has a legal step before it.
LEMMA NextIsLegal ==
  ASSUME LocksInv, NEW t \in Threads, todo[t] # <<>>
  PROVE  Head(todo[t]) \in Steps /\ Legal(Head(todo[t]), LockedBy(t))
BY LeadsNext DEF LocksInv

\* What a thread holds is locked by it.
LEMMA HoldsLocked ==
  ASSUME NEW t, NEW m \in Mutexes
  PROVE  Holds(t, m) <=> m \in LockedBy(t).own \union LockedBy(t).shr
BY DEF Holds, LockedBy, Has

\* No mutex is owned and shared, and a call that returned keeps none.
THEOREM TypeCorrect == Spec => []TypeOK
<1>1. ASSUME LocksInv PROVE TypeOK
  <2>1. ASSUME NEW t \in Threads, todo[t] = <<>>, NEW m \in Mutexes PROVE ~Holds(t, m)
    <3>1. LockedBy(t) = Nothing BY <1>1, <2>1, LeadsNowhere DEF LocksInv
    <3>. QED BY <3>1, HoldsLocked DEF Nothing, Has
  <2>. QED BY <1>1, <2>1 DEF LocksInv, TypeOK
<1>. QED BY <1>1, LocksInvAlways, PTL

\* Whatever the threads call, none waits for mtx_ with alloc_mtx_, nor for
\* log_mtx_ with mtx_ or alloc_mtx_, as wal.h:338-342 asks.
THEOREM OrderIsKept == Spec => []LockOrder
<1>1. ASSUME LocksInv PROVE LockOrder
  <2>1. ASSUME NEW t \in Threads, Next1(t, "take") \/ Next1(t, "share"),
               NEW m \in MayNotHold(Head(todo[t])[2])
        PROVE  ~Holds(t, m)
    <3>1. Legal(Head(todo[t]), LockedBy(t)) BY <1>1, <2>1, NextIsLegal DEF Next1
    <3>2. MayWait(Head(todo[t])[2], LockedBy(t)) BY <3>1, <2>1 DEF Legal, Next1
    <3>3. m \in Mutexes BY DEF MayNotHold, Mutexes
    <3>. QED BY <3>2, <3>3, HoldsLocked DEF MayWait
  <2>. QED BY <2>1 DEF LockOrder
<1>. QED BY <1>1, LocksInvAlways, PTL

\* While begin finds an id (allocate_tx_id compacts without log_mtx_ when it
\* finds none, wal.cc:385), only who owns log_mtx_ changes the log.
THEOREM LogIsOwned ==
  ASSUME "begin_full" \notin Operations
  PROVE  Spec => []LogIsProtected
<1>1. ASSUME LocksInv PROVE LogIsProtected
  <2>1. ASSUME NEW t \in Threads, Next1(t, "change") PROVE owner["log"] = t
    <3>1. Legal(Head(todo[t]), LockedBy(t)) BY <1>1, <2>1, NextIsLegal DEF Next1
    <3>. QED BY <3>1, <2>1 DEF Legal, Next1, LockedBy, Has
  <2>. QED BY <2>1 DEF LogIsProtected
<1>. QED BY <1>1, LocksInvAlways, PTL

\* While begin takes its id from the sequencer and not from a sequence
\* (tx_sequencer.h:70 calls it with the sequencer's mutex held), any number
\* of threads never wait for each other in a circle.
THEOREM NoCircle ==
  ASSUME "begin_number" \notin Operations
  PROVE  Spec => []NoDeadlock
<1>1. ASSUME LocksInv PROVE NoDeadlock
  <2>1. SUFFICES ASSUME NEW T \in SUBSET Threads, \A t \in T : WaitsFor(t) \intersect T # {}
                 PROVE  T = {}
    BY DEF NoDeadlock
  <2>. DEFINE Wants(t) == Head(todo[t])[2]
  <2>2. ASSUME NEW t \in T
        PROVE  Wants(t) \in Mutexes /\ MayWait(Wants(t), LockedBy(t))
    <3>1. WaitsFor(t) # {} BY <2>1
    <3>2. Next1(t, "take") \/ Next1(t, "share") BY <3>1 DEF WaitsFor
    <3>3. Head(todo[t]) \in Steps /\ Legal(Head(todo[t]), LockedBy(t)) BY <1>1, <3>2, NextIsLegal DEF Next1
    <3>. QED BY <3>2, <3>3 DEF Legal, Next1, Steps
  <2>3. ASSUME NEW t \in T
        PROVE  \E u \in T : Order[Wants(t)] < Order[Wants(u)]
    <3>1. PICK u \in T : u \in WaitsFor(t) BY <2>1
    <3>2. Holds(u, Wants(t)) BY <3>1 DEF WaitsFor, Holds
    <3>3. Wants(t) \in LockedBy(u).own \union LockedBy(u).shr BY <3>2, <2>2, HoldsLocked
    <3>4. MayWait(Wants(u), LockedBy(u)) BY <2>2
    <3>. QED BY <3>3, <3>4 DEF MayWait
  <2>4. \A t \in T : Order[Wants(t)] \in 0..4 BY <2>2 DEF Order
  <2>. HIDE DEF Wants
  <2>5. \A t \in T : Order[Wants(t)] # 4 BY <2>3, <2>4
  <2>6. \A t \in T : Order[Wants(t)] # 3 BY <2>3, <2>4, <2>5
  <2>7. \A t \in T : Order[Wants(t)] # 2 BY <2>3, <2>4, <2>5, <2>6
  <2>8. \A t \in T : Order[Wants(t)] # 1 BY <2>3, <2>4, <2>5, <2>6, <2>7
  <2>9. \A t \in T : Order[Wants(t)] # 0 BY <2>3, <2>4, <2>5, <2>6, <2>7, <2>8
  <2>. QED BY <2>4, <2>5, <2>6, <2>7, <2>8, <2>9
<1>. QED BY <1>1, LocksInvAlways, PTL

===============================================================================
