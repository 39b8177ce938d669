------------------------------- MODULE TxLocks -------------------------------
(***************************************************************************)
(* The mutexes of lib/tx, and the order in which the operations of a       *)
(* txfile take them:                                                       *)
(*                                                                         *)
(*   log, file, alloc   log_mtx_, mtx_, alloc_mtx_ of wal_region           *)
(*   sequencer          mtx_ of tx_sequencer                               *)
(*   number             mtx_ of a sequence                                 *)
(*                                                                         *)
(* file and sequencer can be shared.  What is done under the mutexes is in *)
(* Wal.tla, TxFile.tla and Sequence.tla; here an operation is the list of  *)
(* its steps, each of which takes, shares or releases a mutex or changes   *)
(* the log.                                                                *)
(***************************************************************************)
EXTENDS Naturals, Sequences

CONSTANTS
  Threads,
  Operations,   \* the operations that the threads call
  None

ASSUME NoneAssumption == None \notin Threads
ASSUME OperationsAssumption ==
  Operations \subseteq {"begin", "begin_full", "begin_number", "read", "write", "commit",
                        "compact", "destroy", "number"}

Mutexes == {"log", "file", "alloc", "sequencer", "number"}

Take(m)    == <<"take", m>>
Share(m)   == <<"share", m>>
Release(m) == <<"release", m>>
ChangeLog  == <<"change", "log">>   \* append to the log, or compact it

Under(m, steps) == <<Take(m)>> \o steps \o <<Release(m)>>
Sharing(m, steps) == <<Share(m)>> \o steps \o <<Release(m)>>

(***************************************************************************)
(* The operations.  A write or a commit that finds the log full compacts   *)
(* it first, and so does a begin that finds no id; it is full or not       *)
(* whatever this thread does.                                              *)
(***************************************************************************)
CompactSteps ==
  Under("alloc", <<>>) \o <<ChangeLog>> \o Under("file", <<>>) \o Under("alloc", <<>>) \o <<ChangeLog>>
MaybeCompact == {<<>>, CompactSteps}

Allocate     == Under("alloc", <<>>)
AllocateFull == Under("alloc", <<>>) \o CompactSteps \o Under("alloc", <<>>)

ReadSteps(seen) == Sharing("file", seen)
WriteFileFirst(compaction) ==
  Sharing("file", Under("log", compaction \o <<ChangeLog>>))
WriteCheckedBefore(compaction) ==
  Sharing("file", <<>>) \o compaction \o Under("log", <<ChangeLog>>)
WriteSteps(compaction) ==
  Sharing("file", <<>>) \o Under("log", compaction \o <<ChangeLog>>)
CommitAllocFirst(compaction, after) ==
  Under("log", compaction \o Under("alloc", Under("file", <<ChangeLog>> \o after)))
CommitSteps(compaction, after) ==
  Under("log", compaction \o Under("file", Under("alloc", <<ChangeLog>> \o after)))

\* sequence::operator(): the batch has a number left, or is refilled.
NextNumber ==
  {Under("number", <<>>)} \union
  {Under("number", Allocate \o ReadSteps(<<>>) \o WriteSteps(c) \o CommitSteps(d, <<>>)) :
     c \in MaybeCompact, d \in MaybeCompact}

Programs(operation) ==
  CASE operation = "begin"        -> {Under("sequencer", <<>>) \o Allocate}
    [] operation = "begin_full"   -> {Under("sequencer", <<>>) \o AllocateFull}
    [] operation = "begin_number" -> {Under("sequencer", n) \o Allocate : n \in NextNumber}
    [] operation = "read"         -> {ReadSteps(Sharing("sequencer", <<>>))}
    [] operation = "write"        -> {WriteSteps(c) : c \in MaybeCompact}
    [] operation = "commit"       -> {CommitSteps(c, Under("sequencer", <<>>)) : c \in MaybeCompact}
    [] operation = "compact"      -> {Under("log", CompactSteps)}
    [] operation = "destroy"      -> {Under("alloc", <<>>) \o Under("sequencer", <<>>)}
    [] operation = "number"       -> NextNumber

VARIABLES
  todo,   \* the steps that each thread has left
  owner,  \* who has each mutex to itself
  sharers \* who shares it

vars == <<todo, owner, sharers>>

Init ==
  /\ todo = [t \in Threads |-> <<>>]
  /\ owner = [m \in Mutexes |-> None]
  /\ sharers = [m \in Mutexes |-> {}]

Call(t) ==
  /\ todo[t] = <<>>
  /\ \E operation \in Operations : \E p \in Programs(operation) :
       todo' = [todo EXCEPT ![t] = p]
  /\ UNCHANGED <<owner, sharers>>

Next1(t, kind) == todo[t] # <<>> /\ Head(todo[t])[1] = kind
Done(t) == todo' = [todo EXCEPT ![t] = Tail(@)]

TakeMutex(t) ==
  /\ Next1(t, "take")
  /\ LET m == Head(todo[t])[2]
     IN  /\ owner[m] = None /\ sharers[m] = {}
         /\ owner' = [owner EXCEPT ![m] = t]
  /\ Done(t)
  /\ UNCHANGED sharers

ShareMutex(t) ==
  /\ Next1(t, "share")
  /\ LET m == Head(todo[t])[2]
     IN  /\ owner[m] = None
         /\ sharers' = [sharers EXCEPT ![m] = @ \union {t}]
  /\ Done(t)
  /\ UNCHANGED owner

ReleaseMutex(t) ==
  /\ Next1(t, "release")
  /\ LET m == Head(todo[t])[2]
     IN  IF owner[m] = t
         THEN owner' = [owner EXCEPT ![m] = None] /\ UNCHANGED sharers
         ELSE sharers' = [sharers EXCEPT ![m] = @ \ {t}] /\ UNCHANGED owner
  /\ Done(t)

Work(t) ==
  /\ Next1(t, "change")
  /\ Done(t)
  /\ UNCHANGED <<owner, sharers>>

Next == \E t \in Threads :
  Call(t) \/ TakeMutex(t) \/ ShareMutex(t) \/ ReleaseMutex(t) \/ Work(t)

Spec == Init /\ [][Next]_vars

-------------------------------------------------------------------------------
(***************************************************************************)
(* Properties.                                                             *)
(***************************************************************************)
Holds(t, m) == owner[m] = t \/ t \in sharers[m]

\* A mutex is owned or shared, and a thread that has nothing to do has none.
TypeOK ==
  /\ owner \in [Mutexes -> Threads \union {None}]
  /\ sharers \in [Mutexes -> SUBSET Threads]
  /\ \A m \in Mutexes : owner[m] # None => sharers[m] = {}
  /\ \A t \in Threads : todo[t] = <<>> => \A m \in Mutexes : ~Holds(t, m)

\* Who keeps t from its next step.
WaitsFor(t) ==
  IF Next1(t, "take")
  THEN {u \in Threads : Holds(u, Head(todo[t])[2])}
  ELSE IF Next1(t, "share")
  THEN {u \in Threads : owner[Head(todo[t])[2]] = u}
  ELSE {}

\* No threads wait for each other: "even if called concurrently from
\* multiple transactions" (sequence.h:16-17), reads, writes, commits and
\* compactions go on.
NoDeadlock ==
  ~ \E T \in SUBSET Threads :
      T # {} /\ \A t \in T : WaitsFor(t) \intersect T # {}

\* The order that wal.h documents: mtx_ "may not be locked with alloc_mtx_
\* held", log_mtx_ "may not be locked with mtx_ or alloc_mtx_ held"
\* (wal.h:338, 342).
MayNotHold(m) == IF m = "file" THEN {"alloc"} ELSE IF m = "log" THEN {"file", "alloc"} ELSE {}
LockOrder ==
  \A t \in Threads : Next1(t, "take") \/ Next1(t, "share") =>
    \A m \in MayNotHold(Head(todo[t])[2]) : ~Holds(t, m)

\* log_mtx_ is the "mutex providing access to the WAL" (wal.h:340): who
\* changes the log has it.
LogIsProtected == \A t \in Threads : Next1(t, "change") => owner["log"] = t

===============================================================================
