------------------------------- MODULE Sequence -------------------------------
(***************************************************************************)
(* monsoon::tx::sequence (sequence.h and .cc): unique numbers, handed out  *)
(* from a batch that is reserved in the file.  Any number of threads call  *)
(* a sequence object, whose mutex is held for the whole of a call.  The    *)
(* stored number changes by a WAL transaction: the commit is atomic, may   *)
(* fail before it takes effect, and survives a crash (CommittedFile.tla);  *)
(* the batch does not.                                                     *)
(***************************************************************************)
EXTENDS Naturals

CONSTANTS
  Objects,    \* sequence objects, all for one offset of one file
  CacheSize,  \* cache_size_
  MaxValue,   \* numbers are modulo MaxValue + 1 (2^64 in the code)
  OneAtATime  \* an object is made only when there is no other

ASSUME CacheSizeAssumption == CacheSize \in Nat \ {0}
ASSUME MaxValueAssumption  == MaxValue \in Nat
ASSUME UseAssumption       == OneAtATime \in BOOLEAN

VARIABLES
  stored,   \* the number in the file
  open,     \* the sequence objects in the program
  avail,    \* cache_avail_
  val,      \* cache_val_
  pc,       \* where the call that holds the object's mutex is
  reserved, \* history: how many numbers were reserved, and from which on
  origin,
  given     \* history: how often each number was returned

vars == <<stored, open, avail, val, pc, reserved, origin, given>>

Values == 0 .. MaxValue
Plus(v, n) == (v + n) % (MaxValue + 1)

\* A sequence that init wrote, with any first number.
Init ==
  /\ stored \in Values
  /\ open = {}
  /\ avail = [s \in Objects |-> 0]
  /\ val = [s \in Objects |-> 0]
  /\ pc = [s \in Objects |-> "idle"]
  /\ reserved = 0 /\ origin = stored
  /\ given = [v \in Values |-> 0]

Open(s) ==
  /\ s \notin open
  /\ OneAtATime => open = {}
  /\ open' = open \union {s}
  /\ avail' = [avail EXCEPT ![s] = 0]
  /\ UNCHANGED <<stored, val, pc, reserved, origin, given>>

Close(s) ==
  /\ s \in open /\ pc[s] = "idle"
  /\ open' = open \ {s}
  /\ UNCHANGED <<stored, avail, val, pc, reserved, origin, given>>

\* The move constructor takes the batch along.
Move(s, u) ==
  /\ s \in open /\ pc[s] = "idle"
  /\ u \notin open
  /\ open' = (open \ {s}) \union {u}
  /\ avail' = [avail EXCEPT ![u] = avail[s], ![s] = 0]
  /\ val' = [val EXCEPT ![u] = val[s]]
  /\ UNCHANGED <<stored, pc, reserved, origin, given>>

(***************************************************************************)
(* operator().  An empty batch is refilled by a transaction that reads the *)
(* stored number, writes it back increased, and commits.  The number of    *)
(* reservations is bounded: past 2^64 of them the numbers repeat.          *)
(***************************************************************************)
Read(s) ==
  /\ s \in open /\ pc[s] = "idle"
  /\ avail[s] = 0
  /\ val' = [val EXCEPT ![s] = stored]
  /\ pc' = [pc EXCEPT ![s] = "commit"]
  /\ UNCHANGED <<stored, open, avail, reserved, origin, given>>

WrittenBackOne(s) == Plus(val[s], 1)
WrittenBack(s)    == Plus(val[s], CacheSize)

CommitSucceeds(s) ==
  /\ pc[s] = "commit"
  /\ reserved + CacheSize <= MaxValue + 1
  /\ stored' = WrittenBack(s)
  /\ reserved' = reserved + CacheSize
  /\ avail' = [avail EXCEPT ![s] = CacheSize]
  /\ pc' = [pc EXCEPT ![s] = "take"]
  /\ UNCHANGED <<open, val, origin, given>>

AvailAnyway(s) ==
  /\ pc[s] = "commit"
  /\ avail' = [avail EXCEPT ![s] = CacheSize]
  /\ pc' = [pc EXCEPT ![s] = "idle"]
  /\ UNCHANGED <<stored, open, val, reserved, origin, given>>

CommitFails(s) ==
  /\ pc[s] = "commit"
  /\ pc' = [pc EXCEPT ![s] = "idle"]
  /\ UNCHANGED <<stored, open, avail, val, reserved, origin, given>>

Take(s) ==
  /\ s \in open
  /\ \/ pc[s] = "take"
     \/ pc[s] = "idle" /\ avail[s] > 0
  /\ avail' = [avail EXCEPT ![s] = @ - 1]
  /\ val' = [val EXCEPT ![s] = Plus(@, 1)]
  /\ given' = [given EXCEPT ![val[s]] = @ + 1]
  /\ pc' = [pc EXCEPT ![s] = "idle"]
  /\ UNCHANGED <<stored, open, reserved, origin>>

Crash ==
  /\ open' = {}
  /\ avail' = [s \in Objects |-> 0]
  /\ val' = [s \in Objects |-> 0]
  /\ pc' = [s \in Objects |-> "idle"]
  /\ UNCHANGED <<stored, reserved, origin, given>>

Next ==
  \/ \E s \in Objects :
       \/ Open(s) \/ Close(s)
       \/ \E u \in Objects : Move(s, u)
       \/ Read(s) \/ CommitSucceeds(s) \/ CommitFails(s) \/ Take(s)
  \/ Crash

Spec == Init /\ [][Next]_vars

-------------------------------------------------------------------------------
\* The types of the variables.
TypeOK ==
  /\ stored \in Values /\ open \subseteq Objects
  /\ avail \in [Objects -> 0 .. CacheSize] /\ val \in [Objects -> Values]
  /\ pc \in [Objects -> {"idle", "commit", "take"}]
  /\ reserved \in 0 .. MaxValue + 1 /\ origin \in Values
  /\ given \in [Values -> Nat]

\* "guaranteeing uniqueness of numbers even if called concurrently from
\* multiple transactions" (sequence.h:16-17), in all runs of the program.
UniqueNumbers == \A v \in Values : given[v] <= 1

\* "Sequence increases" (tests/sequence.cc:27-33): a number is returned only
\* after all those returned before it, whichever object and run they came
\* from; numbers are ordered from the first one on.
Place(v) == (v + MaxValue + 1 - origin) % (MaxValue + 1)
Increases ==
  \A v \in Values : given'[v] > given[v] =>
    \A w \in Values : given[w] > 0 => Place(w) < Place(v)
NumbersIncrease == [][Increases]_vars

===============================================================================
