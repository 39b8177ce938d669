---------------------------------- MODULE Aio ----------------------------------
(***************************************************************************)
(* One use of an aio object as compact_ and recovery make it: writes and   *)
(* flushes of one file are added, start_and_join is called, and the object *)
(* is destroyed (aio.h and aio.cc, built with <aio.h>).  Operations are    *)
(* numbered as their control blocks are in aiocb_vector_: the writes, then *)
(* the flushes.  The system's part is external: it runs the operations in  *)
(* any order, and finishes a flush after the writes that were queued when  *)
(* it was requested.                                                       *)
(***************************************************************************)
EXTENDS Naturals, FiniteSets

CONSTANTS
  NumWrites, NumFlushes,
  Length,      \* bytes of a write
  ShortWrites, \* a write may transfer fewer bytes than it was asked to
  Failures     \* operations and requests may fail, and calls be interrupted

ASSUME CountsAssumption == NumWrites \in Nat /\ NumFlushes \in Nat
ASSUME LengthAssumption == Length \in Nat \ {0}
ASSUME SystemAssumption == ShortWrites \in BOOLEAN /\ Failures \in BOOLEAN

Writes  == 1 .. NumWrites
Flushes == NumWrites + 1 .. NumWrites + NumFlushes
Ops     == Writes \union Flushes
Bytes   == 1 .. Length   \* the bytes of a write, and their places in its range

VARIABLES
  \* aiocb_vector_: the blocks that are not null
  vector,
  \* of each block: the bytes that aio_buf advanced by
  advanced,
  \* the operations: new, running, done, failed or canceled; what aio_return
  \* gives; the writes that a flush waits for
  op, result, waitsFor,
  \* which byte is at each place of a write's range: in the file, and on disk
  file, disk,
  \* where the program is, the block it is at, and whether it is in ~aio
  pc, index, destroying

sysVars == <<op, result, waitsFor, file, disk>>
vars == <<vector, advanced, sysVars, pc, index, destroying>>

Running(o)  == op[o] = "running"
Nothing     == [w \in Writes |-> [b \in Bytes |-> 0]]
AllBytes(w) == [b \in Bytes |-> b]
Left(w)        == Length - advanced[w]

Init ==
  /\ vector = {}
  /\ advanced = [w \in Writes |-> 0]
  /\ op = [o \in Ops |-> "new"]
  /\ result = [w \in Writes |-> 0]
  /\ waitsFor = [f \in Flushes |-> {}]
  /\ file = Nothing /\ disk = Nothing
  /\ pc = "start" /\ index = 0 /\ destroying = FALSE

(***************************************************************************)
(* start: lio_listio for the writes, then aio_fsync for each flush.        *)
(***************************************************************************)
StartWrites ==
  /\ pc = "start"
  /\ vector' = Writes
  /\ op' = [o \in Ops |-> IF o \in Writes THEN "running" ELSE "new"]
  /\ pc' = "flush" /\ index' = NumWrites + 1
  /\ UNCHANGED <<advanced, result, waitsFor, file, disk, destroying>>

\* lio_listio may have queued some of the operations when it fails.
StartFails ==
  /\ Failures
  /\ pc = "start"
  /\ vector' = Writes
  /\ \E queued \in SUBSET Writes :
       op' = [o \in Ops |-> IF o \in queued THEN "running" ELSE "new"]
  /\ pc' = "cancel"
  /\ UNCHANGED <<advanced, result, waitsFor, file, disk, index, destroying>>

FlushAtOnce ==
  /\ pc = "flush" /\ index \in Flushes
  /\ vector' = vector \union {index}
  /\ op' = [op EXCEPT ![index] = "running"]
  /\ index' = index + 1
  /\ UNCHANGED <<advanced, result, waitsFor, file, disk, pc, destroying>>
StartFlush ==
  /\ pc = "flush" /\ index \in Flushes
  /\ vector' = vector \union {index}
  /\ op' = [op EXCEPT ![index] = "running"]
  /\ waitsFor' = [waitsFor EXCEPT ![index] = {w \in Writes : Running(w)}]
  /\ index' = index + 1
  /\ UNCHANGED <<advanced, result, file, disk, pc, destroying>>

StartFlushFails ==
  /\ Failures
  /\ pc = "flush" /\ index \in Flushes
  /\ pc' = "cancel"
  /\ UNCHANGED <<vector, advanced, sysVars, index, destroying>>

Started ==
  /\ pc = "flush" /\ index \notin Flushes
  /\ pc' = "join"
  /\ UNCHANGED <<vector, advanced, sysVars, index, destroying>>

(***************************************************************************)
(* join waits until one of the operations is over, and then goes through   *)
(* the vector once.  It returns at once when the wait is interrupted.      *)
(***************************************************************************)
Suspended == vector # {} /\ \A o \in vector : Running(o)

JoinWaits ==
  /\ pc = "join"
  /\ vector # {} /\ ~Suspended
  /\ pc' = "look" /\ index' = 1
  /\ UNCHANGED <<vector, advanced, sysVars, destroying>>

Return == pc' = IF destroying THEN "gone" ELSE "returned"

JoinReturns ==
  /\ pc = "join"
  /\ vector = {} \/ Failures
  /\ Return
  /\ UNCHANGED <<vector, advanced, sysVars, index, destroying>>

LookOn == index' = index + 1 /\ UNCHANGED pc

LookAtRunning ==
  /\ pc = "look" /\ index \in Ops
  /\ index \in vector => Running(index)
  /\ LookOn
  /\ UNCHANGED <<vector, advanced, sysVars, destroying>>

LookAtDone ==
  /\ pc = "look" /\ index \in vector
  /\ op[index] = "done"
  /\ index \in Writes => result[index] = Left(index)
  /\ vector' = vector \ {index}
  /\ LookOn
  /\ UNCHANGED <<advanced, sysVars, destroying>>

\* A short write is started again for the rest: its buffer is advanced.
LookAtShort ==
  /\ pc = "look" /\ index \in vector \intersect Writes
  /\ op[index] = "done" /\ result[index] \in 1 .. Left(index) - 1
  /\ advanced' = [advanced EXCEPT ![index] = @ + result[index]]
  /\ op' = [op EXCEPT ![index] = "running"]
  /\ LookOn
  /\ UNCHANGED <<vector, result, waitsFor, file, disk, destroying>>

LookThrows ==
  /\ pc = "look" /\ index \in vector
  /\ \/ op[index] = "failed"
     \/ index \in Writes /\ op[index] = "done" /\ result[index] = 0
     \/ Failures /\ index \in Writes /\ op[index] = "done" /\ result[index] < Left(index)
  /\ pc' = "cancel"
  /\ UNCHANGED <<vector, advanced, sysVars, index, destroying>>

Looked ==
  /\ pc = "look" /\ index \notin Ops
  /\ Return
  /\ UNCHANGED <<vector, advanced, sysVars, index, destroying>>

(***************************************************************************)
(* cancel_recover_: blocks of finished and of cancelled operations become  *)
(* null, the others are waited for.  It runs before start or join throws,  *)
(* which ends the program when that is in ~aio.                            *)
(***************************************************************************)
NoWait(C)     == {}
StillInUse(C) == {o \in vector \ C : Running(o) \/ op[o] = "failed"}

Cancel ==
  /\ pc = "cancel"
  /\ \E C \in SUBSET {o \in vector : Running(o)} :
       /\ op' = [o \in Ops |-> IF o \in C THEN "canceled" ELSE op[o]]
       /\ vector' = StillInUse(C)
       /\ waitsFor' = [f \in Flushes |-> waitsFor[f] \ C]
  /\ pc' = "collect"
  /\ UNCHANGED <<advanced, result, file, disk, index, destroying>>

CollectDone ==
  /\ pc = "collect"
  /\ vector # {} /\ ~Suspended
  /\ vector' = {o \in vector : op[o] # "done"}
  /\ UNCHANGED <<advanced, sysVars, pc, index, destroying>>
Collect ==
  /\ pc = "collect"
  /\ vector # {} /\ ~Suspended
  /\ vector' = {o \in vector : Running(o)}
  /\ UNCHANGED <<advanced, sysVars, pc, index, destroying>>

Collected ==
  /\ pc = "collect" /\ vector = {}
  /\ pc' = IF destroying THEN "terminated" ELSE "threw"
  /\ UNCHANGED <<vector, advanced, sysVars, index, destroying>>

\* ~aio joins once more, unless the vector was cleared.
Destroy ==
  /\ pc \in {"returned", "threw"}
  /\ destroying' = TRUE
  /\ pc' = IF pc = "returned" THEN "join" ELSE "gone"
  /\ UNCHANGED <<vector, advanced, sysVars, index>>

Program ==
  \/ StartWrites \/ StartFails \/ StartFlush \/ StartFlushFails \/ Started
  \/ JoinWaits \/ JoinReturns
  \/ LookAtRunning \/ LookAtDone \/ LookAtShort \/ LookThrows \/ Looked
  \/ Cancel \/ Collect \/ Collected \/ Destroy

(***************************************************************************)
(* The system.  A write puts the bytes from its buffer where aio_offset    *)
(* says, the start of its range.                                           *)
(***************************************************************************)
Finish(o, status) ==
  /\ Running(o)
  /\ op' = [op EXCEPT ![o] = status]
  /\ waitsFor' = [f \in Flushes |-> waitsFor[f] \ {o}]

Transferred(w, n) ==
  [b \in Bytes |-> IF b <= n THEN advanced[w] + b ELSE file[w][b]]

WriteDone(w, n) ==
  /\ \/ n = Left(w)
     \/ ShortWrites /\ n < Left(w)
  /\ Finish(w, "done")
  /\ result' = [result EXCEPT ![w] = n]
  /\ file' = [file EXCEPT ![w] = Transferred(w, n)]
  /\ UNCHANGED <<vector, advanced, disk, pc, index, destroying>>

FlushDone(f) ==
  /\ waitsFor[f] = {}
  /\ Finish(f, "done")
  /\ disk' = file
  /\ UNCHANGED <<vector, advanced, result, file, pc, index, destroying>>

Fails(o) ==
  /\ Failures
  /\ Finish(o, "failed")
  /\ UNCHANGED <<vector, advanced, result, file, disk, pc, index, destroying>>

System ==
  \/ \E w \in Writes, n \in 0 .. Length : WriteDone(w, n)
  \/ \E f \in Flushes : FlushDone(f)
  \/ \E o \in Ops : Fails(o)

Next == Program \/ System

Spec == Init /\ [][Next]_vars

\* The program goes on, and the system gets on with what it was asked to do.
FairSpec == Spec /\ WF_vars(Program) /\ WF_vars(System)

-------------------------------------------------------------------------------
\* The types of the variables; a block in the vector was queued or is being
\* cancelled.
TypeOK ==
  /\ vector \subseteq Ops
  /\ advanced \in [Writes -> 0 .. Length] /\ result \in [Writes -> 0 .. Length]
  /\ op \in [Ops -> {"new", "running", "done", "failed", "canceled"}]
  /\ waitsFor \in [Flushes -> SUBSET Writes]
  /\ file \in [Writes -> [Bytes -> 0 .. Length]] /\ disk \in [Writes -> [Bytes -> 0 .. Length]]
  /\ pc \in {"start", "flush", "join", "look", "cancel", "collect",
             "returned", "threw", "gone", "terminated"}
  /\ index \in 0 .. NumWrites + NumFlushes + 1 /\ destroying \in BOOLEAN

\* start_and_join throws only when nothing runs any more that uses the
\* buffers or the control blocks, which the caller frees next
\* ("Wait and collect anything remaining", aio.cc:162).
ThrowsWhenQuiet == pc \in {"threw", "terminated"} => \A o \in Ops : ~Running(o)

\* When join has seen every operation complete, and none was short, the
\* flush has put all bytes on disk: "Ensure all data is on disk, before
\* activating the segment" (wal.cc:597).
CompleteIsDurable ==
  pc = "returned" /\ vector = {} /\ (\A w \in Writes : advanced[w] = 0) =>
    \A w \in Writes : disk[w] = AllBytes(w)

\* When start_and_join returns, the writes are in the file: "Now that the
\* replacement map is written out, we can clear it" (wal.cc:601).
WrittenOut == pc = "returned" => \A w \in Writes : file[w] = AllBytes(w)

\* A byte of the file is the old one or the one written to that place
\* ("Adjust pointers and restart the call", aio.cc:83).
BytesInPlace == \A w \in Writes, b \in Bytes : file[w][b] \in {0, b}

\* A call of start_and_join ends, and so does the destructor.
Ends == <>(pc \in {"gone", "terminated"})

===============================================================================
