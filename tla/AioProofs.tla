------------------------------- MODULE AioProofs -------------------------------
(***************************************************************************)
(* Proofs about Aio, for any number of writes and flushes of any length,   *)
(* with short writes and failures or without.                              *)
(***************************************************************************)
EXTENDS Aio, Integers, TLAPS

\* Operations are numbered, the writes before the flushes.
LEMMA OpsAreNumbered ==
  /\ Writes \subseteq Ops /\ Flushes \subseteq Ops
  /\ \A f \in Flushes : f \notin Writes
  /\ Ops = 1 .. NumWrites + NumFlushes
  /\ NumWrites \in Nat /\ NumFlushes \in Nat /\ Length \in Nat /\ Length > 0
  BY CountsAssumption, LengthAssumption, SMT DEF Ops, Writes, Flushes

-------------------------------------------------------------------------------
(***************************************************************************)
(* Types.                                                                  *)
(***************************************************************************)

\* What a transfer leaves in the range are bytes of the write.
LEMMA TransferredTyped ==
  ASSUME TypeOK, NEW w \in Writes, NEW n \in 0 .. Length, n <= Left(w)
  PROVE  Transferred(w, n) \in [Bytes -> 0 .. Length]
<1>1. ASSUME NEW b \in Bytes, b <= n PROVE advanced[w] + b \in 0 .. Length
  <2>1. advanced[w] \in 0 .. Length
    BY DEF TypeOK
  <2> QED
    BY <1>1, <2>1, OpsAreNumbered, SMT DEF Left, Bytes
<1>2. ASSUME NEW b \in Bytes PROVE file[w][b] \in 0 .. Length
  BY DEF TypeOK
<1> QED
  BY <1>1, <1>2 DEF Transferred

\* No step leaves the types.
LEMMA TypeStep == ASSUME TypeOK, [Next]_vars PROVE TypeOK'
<1> USE OpsAreNumbered DEF TypeOK
<1>1. CASE StartWrites
  <2>1. NumWrites + 1 \in 0 .. NumWrites + NumFlushes + 1
    BY SMT
  <2> QED
    BY <1>1, <2>1 DEF StartWrites, sysVars
<1>2. CASE StartFails
  BY <1>2 DEF StartFails
<1>3. CASE StartFlush
  <2>1. index + 1 \in 0 .. NumWrites + NumFlushes + 1
    BY <1>3, SMT DEF StartFlush, Flushes
  <2> QED
    BY <1>3, <2>1 DEF StartFlush
<1>4. CASE StartFlushFails \/ Started \/ JoinReturns \/ LookThrows \/ Looked \/ Collected \/ Destroy
  BY <1>4 DEF StartFlushFails, Started, JoinReturns, LookThrows, Looked, Collected, Destroy,
              Return, sysVars
<1>5. CASE JoinWaits
  <2>1. 1 \in 0 .. NumWrites + NumFlushes + 1
    BY SMT
  <2> QED
    BY <1>5, <2>1 DEF JoinWaits, sysVars
<1>6. ASSUME index \in Ops, LookOn PROVE index' \in 0 .. NumWrites + NumFlushes + 1 /\ pc' = pc
  BY <1>6, SMT DEF LookOn
<1>7. CASE LookAtRunning
  BY <1>6, <1>7 DEF LookAtRunning, sysVars
<1>8. CASE LookAtDone
  BY <1>6, <1>8 DEF LookAtDone, sysVars
<1>9. CASE LookAtShort
  <2>1. advanced[index] + result[index] \in 0 .. Length
    BY <1>9, SMT DEF LookAtShort, Left
  <2>2. advanced' \in [Writes -> 0 .. Length]
    BY <1>9, <2>1 DEF LookAtShort
  <2> QED
    BY <1>6, <1>9, <2>2 DEF LookAtShort
<1>10. CASE Cancel
  <2>1. PICK C \in SUBSET {o \in vector : Running(o)} :
          /\ op' = [o \in Ops |-> IF o \in C THEN "canceled" ELSE op[o]]
          /\ vector' = StillInUse(C)
          /\ waitsFor' = [f \in Flushes |-> waitsFor[f] \ C]
    BY <1>10 DEF Cancel
  <2>2. vector' \subseteq Ops
    BY <2>1 DEF StillInUse
  <2>3. op' \in [Ops -> {"new", "running", "done", "failed", "canceled"}]
    BY <2>1
  <2>4. waitsFor' \in [Flushes -> SUBSET Writes]
    BY <2>1
  <2> QED
    BY <1>10, <2>2, <2>3, <2>4 DEF Cancel
<1>11. CASE Collect
  BY <1>11 DEF Collect, sysVars
<1>12. ASSUME NEW w \in Writes, NEW n \in 0 .. Length, WriteDone(w, n) PROVE TypeOK'
  <2>1. n <= Left(w)
    BY <1>12, SMT DEF WriteDone, Left
  <2>2. Transferred(w, n) \in [Bytes -> 0 .. Length]
    BY <2>1, TransferredTyped
  <2> QED
    BY <1>12, <2>2 DEF WriteDone, Finish
<1>13. ASSUME NEW f \in Flushes, FlushDone(f) PROVE TypeOK'
  BY <1>13 DEF FlushDone, Finish
<1>14. ASSUME NEW o \in Ops, Fails(o) PROVE TypeOK'
  BY <1>14 DEF Fails, Finish
<1>15. CASE UNCHANGED vars
  BY <1>15 DEF vars, sysVars
<1> QED
  BY <1>1, <1>2, <1>3, <1>4, <1>5, <1>7, <1>8, <1>9, <1>10, <1>11, <1>12, <1>13, <1>14, <1>15
  DEF Next, Program, System

-------------------------------------------------------------------------------
(***************************************************************************)
(* What runs has a block until the end, so that cancelling meets it, and   *)
(* an object has thrown only when it has no block.                         *)
(***************************************************************************)
RunningKept == \A o \in Ops : Running(o) => o \in vector
EmptyAtEnd  == pc \in {"threw", "terminated"} => vector = {}
QuietInv    == TypeOK /\ RunningKept /\ EmptyAtEnd

\* No step loses the block of what runs.
LEMMA QuietStep == ASSUME QuietInv, [Next]_vars PROVE QuietInv'
<1> USE OpsAreNumbered DEF QuietInv, RunningKept, EmptyAtEnd, Running
<1>0. TypeOK'
  BY TypeStep
<1>1. CASE StartWrites \/ StartFails \/ StartFlush
  BY <1>0, <1>1 DEF StartWrites, StartFails, StartFlush, TypeOK
<1>2. CASE StartFlushFails \/ Started \/ JoinWaits \/ JoinReturns \/ LookAtRunning
           \/ LookThrows \/ Looked \/ Collected \/ Destroy
  BY <1>0, <1>2 DEF StartFlushFails, Started, JoinWaits, JoinReturns, LookAtRunning, LookOn,
                    LookThrows, Looked, Collected, Destroy, Return, sysVars
<1>3. CASE LookAtDone \/ LookAtShort
  BY <1>0, <1>3 DEF LookAtDone, LookAtShort, LookOn, sysVars, TypeOK
<1>4. CASE Cancel
  BY <1>0, <1>4 DEF Cancel, StillInUse, TypeOK
<1>5. CASE Collect
  BY <1>0, <1>5 DEF Collect, sysVars
<1>6. CASE System
  BY <1>0, <1>6 DEF System, WriteDone, FlushDone, Fails, Finish, TypeOK
<1>7. CASE UNCHANGED vars
  BY <1>0, <1>7 DEF vars, sysVars
<1> QED
  BY <1>1, <1>2, <1>3, <1>4, <1>5, <1>6, <1>7 DEF Next, Program

\* At first there is no block, and nothing runs.
LEMMA InitQuiet == ASSUME Init PROVE QuietInv
<1> USE OpsAreNumbered DEF Init
<1>1. /\ advanced \in [Writes -> 0 .. Length] /\ result \in [Writes -> 0 .. Length]
      /\ index \in 0 .. NumWrites + NumFlushes + 1
  BY SMT
<1>2. Nothing \in [Writes -> [Bytes -> 0 .. Length]]
  BY SMT DEF Nothing
<1>3. /\ op \in [Ops -> {"new", "running", "done", "failed", "canceled"}]
      /\ waitsFor \in [Flushes -> SUBSET Writes]
  OBVIOUS
<1>4. TypeOK
  BY <1>1, <1>2, <1>3 DEF TypeOK
<1> QED
  BY <1>4 DEF QuietInv, RunningKept, EmptyAtEnd, Running

\* When start_and_join has thrown, or the program has ended because the
\* destructor threw, nothing runs any more that uses a block or a buffer
\* (aio.cc:162), whatever failed, and however many operations there were.
THEOREM ThrowsAreQuiet == Spec => []ThrowsWhenQuiet
<1>1. Init => QuietInv
  BY InitQuiet
<1>2. QuietInv /\ [Next]_vars => QuietInv'
  BY QuietStep
<1>3. QuietInv => ThrowsWhenQuiet
  BY DEF QuietInv, RunningKept, EmptyAtEnd, ThrowsWhenQuiet
<1> QED
  BY <1>1, <1>2, <1>3, PTL DEF Spec

-------------------------------------------------------------------------------
(***************************************************************************)
(* While nothing was cancelled, a write without a block is complete, and a *)
(* flush without one is done or has yet to be requested.                   *)
(***************************************************************************)
Undisturbed  == pc \in {"flush", "join", "look", "returned"}
Complete(w)  == op[w] = "done" /\ result[w] = Left(w)
Requesting   == pc = "flush" => index \in NumWrites + 1 .. NumWrites + NumFlushes + 1
WritesLeave  == Undisturbed => \A w \in Writes \ vector : Complete(w)
FlushesLeave == Undisturbed =>
                  \A f \in Flushes \ vector : op[f] = "done" \/ (pc = "flush" /\ index <= f)
LeaveInv     == QuietInv /\ Requesting /\ WritesLeave /\ FlushesLeave

\* A block leaves the vector only when its operation is complete.
LEMMA LeaveStep == ASSUME LeaveInv, [Next]_vars PROVE (Requesting /\ WritesLeave /\ FlushesLeave)'
<1> USE OpsAreNumbered DEF LeaveInv, Requesting, WritesLeave, FlushesLeave, Undisturbed,
                           Complete, Left, QuietInv, RunningKept, Running
<1>1. CASE StartWrites
  <2>1. NumWrites + 1 \in NumWrites + 1 .. NumWrites + NumFlushes + 1
    BY SMT
  <2>2. \A f \in Flushes : NumWrites + 1 <= f
    BY SMT DEF Flushes
  <2> QED
    BY <1>1, <2>1, <2>2 DEF StartWrites
<1>2. CASE StartFails \/ StartFlushFails \/ LookThrows \/ Cancel \/ Collect \/ Collected
  BY <1>2 DEF StartFails, StartFlushFails, LookThrows, Cancel, Collect, Collected
<1>3. CASE StartFlush
  <2>1. index' \in NumWrites + 1 .. NumWrites + NumFlushes + 1 /\ pc' = "flush"
    BY <1>3, SMT DEF StartFlush, Flushes
  <2>2. \A w \in Writes : op'[w] = op[w]
    BY <1>3 DEF StartFlush, TypeOK
  <2>3. ASSUME NEW f \in Flushes, f \notin vector' PROVE op'[f] = "done" \/ index' <= f
    <3>1. f \notin vector /\ f # index /\ op'[f] = op[f] /\ index' = index + 1
      BY <1>3, <2>3 DEF StartFlush, TypeOK
    <3>2. op[f] = "done" \/ index <= f
      BY <1>3, <3>1 DEF StartFlush
    <3> QED
      BY <1>3, <3>1, <3>2, SMT DEF StartFlush, Flushes
  <2> QED
    BY <1>3, <2>1, <2>2, <2>3 DEF StartFlush
<1>4. CASE Started
  <2>1. \A f \in Flushes : ~(index <= f)
    BY <1>4, SMT DEF Started, Flushes
  <2> QED
    BY <1>4, <2>1 DEF Started, sysVars
<1>5. CASE JoinWaits \/ JoinReturns \/ LookAtRunning \/ Looked \/ Destroy
  <2>1. UNCHANGED <<vector, advanced, op, result>>
    BY <1>5 DEF JoinWaits, JoinReturns, LookAtRunning, Looked, Destroy, sysVars
  <2>2. pc # "flush" /\ pc' # "flush" /\ (Undisturbed' => Undisturbed)
    BY <1>5 DEF JoinWaits, JoinReturns, LookAtRunning, LookOn, Looked, Destroy, Return
  <2> QED
    BY <2>1, <2>2
<1>6. CASE LookAtDone
  <2>1. vector' = vector \ {index} /\ pc' = pc /\ pc = "look" /\ UNCHANGED <<op, result, advanced>>
    BY <1>6 DEF LookAtDone, LookOn, sysVars
  <2>2. op[index] = "done" /\ (index \in Writes => result[index] = Left(index))
    BY <1>6 DEF LookAtDone
  <2> QED
    BY <2>1, <2>2
<1>7. CASE LookAtShort
  <2>1. vector' = vector /\ pc' = pc /\ pc = "look" /\ result' = result
    BY <1>7 DEF LookAtShort, LookOn
  <2>2. \A o \in Ops \ vector : op'[o] = op[o]
    BY <1>7 DEF LookAtShort, TypeOK
  <2>3. \A w \in Writes \ vector : advanced'[w] = advanced[w]
    BY <1>7 DEF LookAtShort, TypeOK
  <2> QED
    BY <2>1, <2>2, <2>3
<1>8. CASE System
  <2>1. vector' = vector /\ pc' = pc /\ index' = index /\ advanced' = advanced
    BY <1>8 DEF System, WriteDone, FlushDone, Fails
  <2>2. \A o \in Ops : o \notin vector => op'[o] = op[o]
    BY <1>8 DEF System, WriteDone, FlushDone, Fails, Finish, TypeOK
  <2>3. \A w \in Writes : w \notin vector => result'[w] = result[w]
    BY <1>8 DEF System, WriteDone, FlushDone, Fails, Finish, TypeOK
  <2> QED
    BY <2>1, <2>2, <2>3
<1>9. CASE UNCHANGED vars
  BY <1>9 DEF vars, sysVars
<1> QED
  BY <1>1, <1>2, <1>3, <1>4, <1>5, <1>6, <1>7, <1>8, <1>9 DEF Next, Program

-------------------------------------------------------------------------------
(***************************************************************************)
(* A write that was never short is in the file when it is complete, and on *)
(* disk once a flush is done, which waited for it.                         *)
(***************************************************************************)
Never(w)      == advanced[w] = 0   \* was never short
InFile        == \A w \in Writes : Complete(w) /\ Never(w) => file[w] = AllBytes(w)
WaitsForAll   == \A f \in Flushes, w \in Writes :
                   Running(f) /\ Running(w) /\ Never(w) => w \in waitsFor[f]
RestartedOnly == \A f \in Flushes, w \in Writes :
                   op[f] = "done" /\ Running(w) => ~Never(w)
OnDisk        == \A f \in Flushes, w \in Writes :
                   op[f] = "done" /\ Complete(w) /\ Never(w) => disk[w] = AllBytes(w)
FlushInv      == LeaveInv /\ InFile /\ WaitsForAll /\ RestartedOnly /\ OnDisk

\* A write that is complete was not changed by what follows.
LEMMA WriteIsInFile ==
  ASSUME FlushInv, NEW w \in Writes, NEW n \in 0 .. Length, WriteDone(w, n),
         NEW v \in Writes, (Complete(v) /\ Never(v))'
  PROVE  file'[v] = AllBytes(v) /\ (v # w => Complete(v) /\ Never(v))
<1> USE OpsAreNumbered DEF FlushInv, LeaveInv, QuietInv, TypeOK
<1>1. CASE v = w
  <2>1. advanced[w] = 0 /\ result'[w] = n /\ n = Length
    BY <1>1, SMT DEF WriteDone, Complete, Never, Left
  <2>2. \A b \in Bytes : b <= n /\ advanced[w] + b = b
    BY <2>1, SMT DEF Bytes
  <2> QED
    BY <1>1, <2>1, <2>2 DEF WriteDone, Transferred, AllBytes
<1>2. CASE v # w
  <2>1. op'[v] = op[v] /\ result'[v] = result[v] /\ file'[v] = file[v] /\ advanced' = advanced
    BY <1>2 DEF WriteDone, Finish
  <2> QED
    BY <1>2, <2>1 DEF Complete, Never, Left, InFile
<1> QED
  BY <1>1, <1>2

\* No step of the system breaks it: a flush is done only after what it waits
\* for.
LEMMA SystemFlushes ==
  ASSUME FlushInv, System PROVE (InFile /\ WaitsForAll /\ RestartedOnly /\ OnDisk)'
<1> USE OpsAreNumbered DEF FlushInv, LeaveInv, QuietInv, Running, Never
<1>1. ASSUME NEW w \in Writes, NEW n \in 0 .. Length, WriteDone(w, n)
      PROVE  (InFile /\ WaitsForAll /\ RestartedOnly /\ OnDisk)'
  <2>1. InFile'
    BY <1>1, WriteIsInFile DEF InFile
  <2>2. /\ Running(w) /\ op'[w] = "done" /\ (\A o \in Ops : o # w => op'[o] = op[o])
        /\ \A f \in Flushes : waitsFor'[f] = waitsFor[f] \ {w}
        /\ UNCHANGED <<advanced, disk>>
    BY <1>1 DEF WriteDone, Finish, TypeOK
  <2>3. WaitsForAll' /\ RestartedOnly'
    BY <2>2 DEF WaitsForAll, RestartedOnly
  <2>4. ASSUME NEW f \in Flushes, NEW v \in Writes, (op[f] = "done" /\ Complete(v) /\ Never(v))'
        PROVE  disk'[v] = AllBytes(v)
    <3>1. op[f] = "done" /\ v # w
      BY <2>2, <2>4 DEF RestartedOnly
    <3>2. Complete(v) /\ Never(v)
      BY <1>1, <2>4, <3>1, WriteIsInFile
    <3> QED
      BY <2>2, <3>1, <3>2 DEF OnDisk
  <2> QED
    BY <2>1, <2>3, <2>4 DEF OnDisk
<1>2. ASSUME NEW f \in Flushes, FlushDone(f)
      PROVE  (InFile /\ WaitsForAll /\ RestartedOnly /\ OnDisk)'
  <2>1. /\ Running(f) /\ op'[f] = "done" /\ (\A o \in Ops : o # f => op'[o] = op[o])
        /\ \A g \in Flushes : waitsFor'[g] = waitsFor[g] \ {f}
        /\ waitsFor[f] = {} /\ disk' = file /\ UNCHANGED <<advanced, result, file>>
    BY <1>2 DEF FlushDone, Finish, TypeOK
  <2>2. \A w \in Writes : op'[w] = op[w] /\ (Complete(w)' <=> Complete(w)) /\ (Never(w)' <=> Never(w))
    BY <2>1 DEF Complete, Left
  <2>3. InFile' /\ WaitsForAll'
    BY <2>1, <2>2 DEF InFile, WaitsForAll, AllBytes
  <2>4. RestartedOnly'
    BY <2>1, <2>2 DEF WaitsForAll, RestartedOnly
  <2>5. OnDisk'
    BY <2>1, <2>2 DEF InFile, OnDisk, AllBytes
  <2> QED
    BY <2>3, <2>4, <2>5
<1>3. ASSUME NEW o \in Ops, Fails(o)
      PROVE  (InFile /\ WaitsForAll /\ RestartedOnly /\ OnDisk)'
  <2>1. /\ op'[o] = "failed" /\ (\A q \in Ops : q # o => op'[q] = op[q])
        /\ \A g \in Flushes : waitsFor'[g] = waitsFor[g] \ {o}
        /\ UNCHANGED <<advanced, result, file, disk>>
    BY <1>3 DEF Fails, Finish, TypeOK
  <2>2. \A w \in Writes : Complete(w)' => Complete(w)
    BY <2>1 DEF Complete, Left
  <2> QED
    BY <2>1, <2>2 DEF InFile, WaitsForAll, RestartedOnly, OnDisk, AllBytes
<1> QED
  BY <1>1, <1>2, <1>3 DEF System

\* No step of the program breaks it: what is started again was short.
LEMMA ProgramFlushes ==
  ASSUME FlushInv, Program PROVE (InFile /\ WaitsForAll /\ RestartedOnly /\ OnDisk)'
<1> USE OpsAreNumbered DEF FlushInv, LeaveInv, QuietInv, InFile, WaitsForAll, RestartedOnly,
                           OnDisk, Running, Never, Complete, Left, AllBytes
<1>1. CASE StartWrites \/ StartFails
  <2>1. /\ \A f \in Flushes : op'[f] = "new"
        /\ \A w \in Writes : op'[w] \in {"new", "running"}
    BY <1>1 DEF StartWrites, StartFails
  <2> QED
    BY <2>1
<1>2. CASE StartFlush
  <2>1. /\ \A o \in Ops : o # index => op'[o] = op[o]
        /\ index \in Flushes /\ op'[index] = "running"
        /\ waitsFor'[index] = {w \in Writes : Running(w)}
        /\ \A g \in Flushes : g # index => waitsFor'[g] = waitsFor[g]
        /\ UNCHANGED <<advanced, result, file, disk>>
    BY <1>2 DEF StartFlush, TypeOK
  <2> QED
    BY <2>1
<1>3. CASE \/ StartFlushFails \/ Started \/ JoinWaits \/ JoinReturns \/ LookAtRunning
           \/ LookAtDone \/ LookThrows \/ Looked \/ Collect \/ Collected \/ Destroy
  <2>1. UNCHANGED <<advanced, op, result, waitsFor, file, disk>>
    BY <1>3 DEF StartFlushFails, Started, JoinWaits, JoinReturns, LookAtRunning, LookAtDone,
                LookThrows, Looked, Collect, Collected, Destroy, sysVars
  <2> QED
    BY <2>1
<1>4. CASE LookAtShort
  <2>1. /\ \A o \in Ops : o # index => op'[o] = op[o]
        /\ index \in Writes /\ op'[index] = "running"
        /\ \A w \in Writes : w # index => advanced'[w] = advanced[w]
        /\ UNCHANGED <<result, waitsFor, file, disk>>
    BY <1>4 DEF LookAtShort, TypeOK
  <2>2. advanced'[index] # 0
    BY <1>4, SMT DEF LookAtShort, TypeOK
  <2>3. \A w \in Writes : /\ Complete(w)' /\ Never(w)' => Complete(w) /\ Never(w)
                          /\ Running(w)' /\ Never(w)' => Running(w) /\ Never(w)
    BY <2>1, <2>2
  <2>4. \A f \in Flushes : op'[f] = op[f]
    BY <2>1
  <2> QED
    BY <2>1, <2>3, <2>4
<1>5. CASE Cancel
  <2>1. PICK C \in SUBSET {o \in vector : Running(o)} :
          /\ \A o \in Ops : op'[o] = IF o \in C THEN "canceled" ELSE op[o]
          /\ \A f \in Flushes : waitsFor'[f] = waitsFor[f] \ C
    BY <1>5 DEF Cancel
  <2>2. UNCHANGED <<advanced, result, file, disk>>
    BY <1>5 DEF Cancel
  <2>3. \A w \in Writes : /\ Complete(w)' => Complete(w)
                          /\ Running(w)' => Running(w) /\ w \notin C
    BY <2>1, <2>2
  <2>4. \A f \in Flushes : /\ op'[f] = "done" => op[f] = "done"
                           /\ op'[f] = "running" => op[f] = "running"
    BY <2>1
  <2>5. InFile' /\ OnDisk' /\ RestartedOnly'
    BY <2>2, <2>3, <2>4
  <2>6. WaitsForAll'
    BY <2>1, <2>2, <2>3, <2>4
  <2> QED
    BY <2>5, <2>6
<1> QED
  BY <1>1, <1>2, <1>3, <1>4, <1>5 DEF Program

\* After a join that saw everything complete, and nothing short, all bytes are
\* on disk (wal.cc:597), whatever the order the system ran the operations in,
\* when there is a flush at all.
THEOREM CompleteWritesAreDurable ==
  ASSUME NumFlushes # 0 PROVE Spec => []CompleteIsDurable
<1>1. ASSUME Init PROVE FlushInv
  <2>1. QuietInv
    BY <1>1, InitQuiet
  <2>2. pc = "start" /\ \A o \in Ops : op[o] = "new"
    BY <1>1 DEF Init
  <2> QED
    BY <2>1, <2>2, OpsAreNumbered
    DEF FlushInv, LeaveInv, Requesting, WritesLeave, FlushesLeave, Undisturbed, InFile,
        WaitsForAll, RestartedOnly, OnDisk, Running, Complete
<1>2. ASSUME FlushInv, [Next]_vars PROVE FlushInv'
  <2>1. LeaveInv'
    BY <1>2, QuietStep, LeaveStep DEF FlushInv, LeaveInv
  <2>2. CASE UNCHANGED vars
    BY <1>2, <2>1, <2>2
    DEF FlushInv, InFile, WaitsForAll, RestartedOnly, OnDisk, Running, Complete, Never, Left,
        AllBytes, vars, sysVars
  <2>3. CASE Next
    BY <1>2, <2>1, <2>3, ProgramFlushes, SystemFlushes DEF FlushInv, Next
  <2> QED
    BY <1>2, <2>2, <2>3
<1>3. ASSUME FlushInv PROVE CompleteIsDurable
  <2>1. SUFFICES ASSUME pc = "returned", vector = {}, \A v \in Writes : advanced[v] = 0,
                        NEW w \in Writes
                 PROVE  disk[w] = AllBytes(w)
    BY DEF CompleteIsDurable
  <2>2. NumWrites + 1 \in Flushes
    BY OpsAreNumbered, SMT DEF Flushes
  <2>3. op[NumWrites + 1] = "done"
    BY <1>3, <2>1, <2>2 DEF FlushInv, LeaveInv, FlushesLeave, Undisturbed
  <2>4. Complete(w) /\ Never(w)
    BY <1>3, <2>1 DEF FlushInv, LeaveInv, WritesLeave, Undisturbed, Never
  <2> QED
    BY <1>3, <2>2, <2>3, <2>4 DEF FlushInv, OnDisk
<1>4. FlushInv /\ [Next]_vars => FlushInv'
  BY <1>2
<1> QED
  BY <1>1, <1>3, <1>4, PTL DEF Spec

================================================================================
