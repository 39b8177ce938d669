--------------------------------- MODULE Wal ---------------------------------
(***************************************************************************)
(* The write-ahead log of lib/tx: wal_region and wal_region::tx            *)
(* (wal.h, wal.cc), with the file it lives in, crashes and recovery.       *)
(*                                                                         *)
(* The log has two slots.  Records are appended to the current one; a      *)
(* compaction copies the records of unfinished transactions to the other   *)
(* slot, writes the committed bytes into the file and makes that slot the  *)
(* current one.  Opening the file replays the slot with the newest header. *)
(*                                                                         *)
(* The file is made of cells (headers, log records, bytes).  A write       *)
(* changes what a read returns (hdr, log, data); a flush makes that        *)
(* durable (hdrD, logD, dataD).  A crash of the process loses the          *)
(* program's variables; a crash of the system any unflushed cells as well. *)
(*                                                                         *)
(* Simplifications.  A record fills one cell whatever its length.  repl_   *)
(* is a partial function from offsets to bytes (ReplacementMap.tla is the  *)
(* data structure).  aio calls are the synchronous ones of the build       *)
(* without <aio.h> (Aio.tla is the other build).  A system crash leaves a  *)
(* cell with its last flushed or its last written contents.                *)
(***************************************************************************)
EXTENDS FileData, FiniteSets

CONSTANTS
  Txs,            \* transaction objects of the clients
  MaxId,          \* tx_id_mask: the largest transaction id
  Cap,            \* records (the end marker included) that fit a slot
  MaxRecords,     \* bound: records a client logs in one transaction
  SeqHalf,        \* sequence numbers are modulo 2 * SeqHalf (2^32 in the code)
  MultiThreaded,  \* transactions begin and roll back during another's call
  Rollbacks,      \* clients roll transactions back
  Crashes,        \* a subset of {"process", "system"}
  ReopenCrash,    \* a crash may hit while a reopened log is being started
  FillOnGrow      \* clients write every byte their transaction adds

ASSUME TxsAssumption     == None \notin Txs
ASSUME MaxIdAssumption   == MaxId \in Nat
ASSUME CapAssumption     == Cap \in Nat \ {0, 1}
ASSUME MaxRecordsAssumption == MaxRecords \in Nat
ASSUME SeqHalfAssumption == SeqHalf \in Nat \ {0, 1}
ASSUME ClientAssumption  == /\ MultiThreaded \in BOOLEAN
                            /\ Rollbacks \in BOOLEAN
                            /\ FillOnGrow \in BOOLEAN
ASSUME CrashAssumption   == /\ Crashes \subseteq {"process", "system"}
                            /\ ReopenCrash \in BOOLEAN

Slots == 0 .. 1
Cells == 1 .. Cap
Ids   == 0 .. MaxId

(***************************************************************************)
(* Sequence numbers wrap around.  Dist is how far y is ahead of x.         *)
(***************************************************************************)
SeqMod     == 2 * SeqHalf
Seqs       == 0 .. SeqMod - 1
Succ(n)    == IF n = SeqMod - 1 THEN 0 ELSE n + 1
Dist(x, y) == IF y >= x THEN y - x ELSE y + SeqMod - x

Other(s) == 1 - s

(***************************************************************************)
(* Log records: wal_record and its four kinds.  A write carries an offset  *)
(* and a byte, a resize the new size.                                      *)
(***************************************************************************)
Record(kind, id, arg, val) == [kind |-> kind, id |-> id, arg |-> arg, val |-> val]
End                == Record("end", 0, 0, Zero)
CommitRec(id)      == Record("commit", id, 0, Zero)
WriteRec(id, o, v) == Record("write", id, o, v)
ResizeRec(id, n)   == Record("resize", id, n, Zero)

Records ==
  [kind : {"end", "commit", "write", "resize"}, id : Ids, arg : Sizes, val : Bytes]

Headers == [seq : Seqs, size : Sizes]

VARIABLES
  \* the file as it is read back, and its durable contents
  hdr, log, data, psize,
  hdrD, logD, dataD,
  \* wal_region: position in the log, file size and pending writes
  curSlot, slotOff, curSeq, size, repl,
  \* wal_region: tx_id_states_ (length and ids in progress), tx_id_avail_,
  \* tx_id_completed_count_
  idLen, active, avail, completed,
  \* wal_region::tx: the objects not made yet, the id of each transaction in
  \* progress and what it did so far
  fresh, txId, txUpd,
  \* the call that holds log_mtx_, or the recovery
  op

diskVars  == <<hdr, log, data, psize>>
durVars   == <<hdrD, logD, dataD>>
posVars   == <<curSlot, slotOff, curSeq>>
fileVars  == <<size, repl>>
allocVars == <<idLen, active, avail, completed>>
txVars    == <<fresh, txId, txUpd>>
vars == <<diskVars, durVars, posVars, fileVars, allocVars, txVars, op>>

(***************************************************************************)
(* Reading a slot: read_segment_ stops at the first end marker, and throws *)
(* when there is none.                                                     *)
(***************************************************************************)
HasEnd(l) == \E p \in Cells : l[p].kind = "end"
EndPos(l) == CHOOSE p \in Cells : /\ l[p].kind = "end"
                                  /\ \A q \in 1 .. p - 1 : l[q].kind # "end"
Body(l) == 1 .. EndPos(l) - 1

(***************************************************************************)
(* Replay: the records of a transaction are applied at its commit record,  *)
(* in their order; those without one are not applied at all.               *)
(***************************************************************************)
CommitsAfter(l, p) ==
  {q \in Body(l) : q > p /\ l[q].kind = "commit" /\ l[q].id = l[p].id}
CommitOf(l, p) ==
  CHOOSE q \in CommitsAfter(l, p) : \A r \in CommitsAfter(l, p) : q <= r
LoggedAfter(l, p, q) == q <= p
AppliedAfter(l, p, q) ==
  \/ CommitOf(l, q) < CommitOf(l, p)
  \/ CommitOf(l, q) = CommitOf(l, p) /\ q <= p

LastApplied(l, S) ==
  LET applied == {p \in S : CommitsAfter(l, p) # {}}
  IN  IF applied = {} THEN None
      ELSE CHOOSE p \in applied : \A q \in applied : AppliedAfter(l, p, q)

WritesTo(l, o) == {p \in Body(l) : l[p].kind = "write" /\ l[p].arg = o}
Resizes(l)     == {p \in Body(l) : l[p].kind = "resize"}

Uncommitted(l, id) ==
  {p \in Body(l) : l[p].id = id /\ l[p].kind # "commit" /\ CommitsAfter(l, p) = {}}

ReplayedWrites(l) ==
  [o \in Offs |-> LET p == LastApplied(l, WritesTo(l, o))
                  IN  IF p = None THEN None ELSE l[p].val]
ReplayedSize(h, l) ==
  LET p == LastApplied(l, Resizes(l))
  IN  IF p = None THEN h.size ELSE l[p].arg

(***************************************************************************)
(* The slot that recovery replays: the segments are sorted by sequence     *)
(* number in a sliding window, and the last one is taken.                  *)
(***************************************************************************)
SortsBefore(x, y) == Dist(x, y) <= SeqHalf - 1
Newest(h) == IF SortsBefore(h[1].seq, h[0].seq) THEN 0 ELSE 1

(***************************************************************************)
(* The call in progress.                                                   *)
(***************************************************************************)
Call(kind, t, rec, pc) == [kind |-> kind, tx |-> t, rec |-> rec, pc |-> pc]
Idle == Call("idle", None, End, "idle")
Down == Call("down", None, End, "down")

At(kinds, pc) == op.kind \in kinds /\ op.pc = pc
Goto(pc)      == op' = [op EXCEPT !.pc = pc]
Up            == op.kind \notin {"down", "reopen"}

Flush == hdrD' = hdr /\ logD' = log /\ dataD' = data

-------------------------------------------------------------------------------
(***************************************************************************)
(* A WAL made by wal_region's create constructor, in a file of zeros (a    *)
(* zeroed record is an end marker), flushed.                               *)
(***************************************************************************)
NewSegment == [p \in Cells |-> End]

NewFile ==
  /\ hdr = [s \in Slots |-> [seq |-> IF s = 0 THEN 0 ELSE SeqMod - 1, size |-> 0]]
  /\ log = [s \in Slots |-> NewSegment]
  /\ data = [o \in Offs |-> Zero]
  /\ psize = 0
  /\ hdrD = hdr /\ logD = log /\ dataD = data
  /\ curSlot = 0 /\ slotOff = 1 /\ curSeq = 0
  /\ size = 0 /\ repl = NoWrites
  /\ fresh = Txs
  /\ txId = [t \in Txs |-> None]
  /\ txUpd = [t \in Txs |-> NoUpdate]
  /\ op = Idle
NoIds == idLen = 0 /\ active = {} /\ avail = {} /\ completed = 0

Init == NewFile /\ NoIds

(***************************************************************************)
(* Transaction ids.  Only alloc_mtx_ is taken, so a transaction may begin  *)
(* or roll back while another's call is in progress, except where          *)
(* tx_commit_ holds that mutex as well.                                    *)
(***************************************************************************)
AllocLocked == op.kind = "commit" /\ op.pc \in {"marker", "sync"}
MayRun      == op.kind = "idle" \/ (MultiThreaded /\ Up /\ ~AllocLocked)

OutOfIds == avail = {} /\ idLen > MaxId

\* An id that was recycled, or one more than there are.
LastId == IF idLen = 0 THEN 0 ELSE idLen - 1
NextId == IF avail = {} THEN idLen
          ELSE CHOOSE i \in avail : \A j \in avail : i <= j

Begin(t) ==
  /\ MayRun
  /\ t \in fresh /\ op.tx # t
  /\ ~OutOfIds
  /\ fresh' = fresh \ {t}
  /\ txId' = [txId EXCEPT ![t] = NextId]
  /\ active' = active \union {NextId}
  /\ avail' = avail \ {NextId}
  /\ idLen' = IF avail = {} THEN idLen + 1 ELSE idLen
  /\ UNCHANGED <<diskVars, durVars, posVars, fileVars, completed, txUpd, op>>

\* allocate_tx_id compacts to get ids back.  It does so without log_mtx_;
\* that it may then run beside another call is in TxLocks.
BeginCompacts(t) ==
  /\ op.kind = "idle"
  /\ t \in fresh
  /\ OutOfIds
  /\ completed # 0
  /\ op' = Call("begin", t, End, "copy")
  /\ UNCHANGED <<diskVars, durVars, posVars, fileVars, allocVars, txVars>>

\* A finished transaction's id stays taken until a compaction frees it.
FinishUncounted(id) == active' = active \ {id} /\ UNCHANGED completed
Finish(id)          == active' = active \ {id} /\ completed' = completed + 1

Forget(t) ==
  /\ txId' = [txId EXCEPT ![t] = None]
  /\ txUpd' = [txUpd EXCEPT ![t] = NoUpdate]
  /\ UNCHANGED fresh

Rollback(t) ==
  /\ Rollbacks
  /\ MayRun
  /\ txId[t] # None
  /\ op.tx # t
  /\ Finish(txId[t])
  /\ Forget(t)
  /\ UNCHANGED <<diskVars, durVars, posVars, fileVars, idLen, avail, op>>

(***************************************************************************)
(* The calls that take log_mtx_.  They go on in the current slot if the    *)
(* record and the end marker after it fit, compact if they do not, and are *)
(* refused (wal_bad_alloc, with no change) when compact_ has no finished   *)
(* transaction to drop.                                                    *)
(***************************************************************************)
RoomForRecordOnly(off) == off <= Cap
HasRoom(off)           == off + 1 <= Cap

Enter(kind, t, rec) ==
  /\ op.kind = "idle"
  /\ txId[t] # None
  /\ \/ HasRoom(slotOff) /\ op' = Call(kind, t, rec, "body")
     \/ ~HasRoom(slotOff) /\ completed # 0 /\ op' = Call(kind, t, rec, "copy")
  /\ UNCHANGED <<diskVars, durVars, posVars, fileVars, allocVars, txVars>>

TxSize(t) == IF txUpd[t].size = None THEN size ELSE txUpd[t].size

MayLog(t) == Cardinality(Uncommitted(log[curSlot], txId[t])) < MaxRecords

Write(t, o, v) ==
  /\ o < TxSize(t)
  /\ Enter("append", t, WriteRec(txId[t], o, v))
  /\ MayLog(t)

Resize(t, n) ==
  /\ Enter("append", t, ResizeRec(txId[t], n))
  /\ MayLog(t)

Fills(u) ==
  \A o \in Offs : u.size # None /\ o >= size /\ o < u.size => u.writes[o] # None

Commit(t) ==
  /\ FillOnGrow => Fills(txUpd[t])
  /\ Enter("commit", t, CommitRec(txId[t]))

Compact ==
  /\ op.kind = "idle"
  /\ completed # 0
  /\ op' = Call("compact", None, End, "copy")
  /\ UNCHANGED <<diskVars, durVars, posVars, fileVars, allocVars, txVars>>

(***************************************************************************)
(* log_write_raw_ and tx_commit_.  First everything but the record's first *)
(* word, which still reads as the end marker; then a flush; then that      *)
(* word.  tx_commit_ first saves the bytes it is about to replace: those   *)
(* that are neither pending nor past the end of the logical file are read  *)
(* from the file itself, in a loop that a read of no bytes does not leave. *)
(***************************************************************************)
UndoIsRead ==
  \A o \in Offs :
    (txUpd[op.tx].writes[o] # None /\ repl[o] = None /\ o < size) => o < psize

WriteBody ==
  /\ At({"append", "commit"}, "body")
  /\ op.kind = "commit" => UndoIsRead
  /\ log' = [log EXCEPT ![curSlot][slotOff + 1] = End]
  /\ Goto("flush")
  /\ UNCHANGED <<hdr, data, psize, durVars, posVars, fileVars, allocVars, txVars>>

SkipFlush ==
  /\ At({"append", "commit"}, "flush")
  /\ Goto("marker")
  /\ UNCHANGED <<diskVars, durVars, posVars, fileVars, allocVars, txVars>>

FlushBody ==
  /\ At({"append", "commit"}, "flush")
  /\ Flush
  /\ Goto("marker")
  /\ UNCHANGED <<diskVars, posVars, fileVars, allocVars, txVars>>

Performed(u, rec) ==
  IF rec.kind = "write" THEN [u EXCEPT !.writes[rec.arg] = rec.val]
                        ELSE [u EXCEPT !.size = rec.arg]

AppendMarker ==
  /\ At({"append"}, "marker")
  /\ log' = [log EXCEPT ![curSlot][slotOff] = op.rec]
  /\ slotOff' = slotOff + 1
  /\ txUpd' = [txUpd EXCEPT ![op.tx] = Performed(@, op.rec)]
  /\ op' = Idle
  /\ UNCHANGED <<hdr, data, psize, durVars, curSlot, curSeq, fileVars, allocVars, fresh, txId>>

CommitMarker ==
  /\ At({"commit"}, "marker")
  /\ log' = [log EXCEPT ![curSlot][slotOff] = op.rec]
  /\ Goto("sync")
  /\ UNCHANGED <<hdr, data, psize, durVars, posVars, fileVars, allocVars, txVars>>

\* The commit record is flushed; then the program's own state follows.
Truncated(w, n) == [o \in Offs |-> IF o >= n THEN None ELSE w[o]]
Overlay(w, u)   == [o \in Offs |-> IF u[o] # None THEN u[o] ELSE w[o]]

CommitDone ==
  /\ At({"commit"}, "sync")
  /\ Flush
  /\ LET u == txUpd[op.tx]
         newRepl == Overlay(repl, u.writes)
     IN  IF u.size = None
         THEN repl' = newRepl /\ size' = size
         ELSE repl' = Truncated(newRepl, u.size) /\ size' = u.size
  /\ Finish(txId[op.tx])
  /\ slotOff' = slotOff + 1
  /\ Forget(op.tx)
  /\ op' = Idle
  /\ UNCHANGED <<diskVars, curSlot, curSeq, idLen, avail>>

(***************************************************************************)
(* compact_.  The records of transactions in progress go to the other      *)
(* slot; the pending writes go to the file; a flush; the new header, not   *)
(* flushed; the ids; and last the position in the log.                     *)
(***************************************************************************)
Compacting == {"append", "commit", "compact", "begin"}

EveryRecord(l) == {p \in Body(l) : l[p].id < idLen}
Kept(l) == {p \in Body(l) : l[p].id < idLen /\ l[p].id \in active}

\* A slot with the records of l at the positions in K written over old.
Copied(l, K, old) ==
  [p \in Cells |->
     LET from == {k \in K : Cardinality({j \in K : j <= k}) = p}
     IN  IF from # {} THEN l[CHOOSE k \in from : TRUE]
         ELSE IF p = Cardinality(K) + 1 THEN End
         ELSE old[p]]

CompactCopy ==
  /\ At(Compacting, "copy")
  /\ LET l == log[curSlot]
     IN  log' = [log EXCEPT ![Other(curSlot)] = Copied(l, Kept(l), @)]
  /\ Goto("write")
  /\ UNCHANGED <<hdr, data, psize, durVars, posVars, fileVars, allocVars, txVars>>

LastWritten(w) == CHOOSE n \in Sizes : n = 0 \/ w[n - 1] # None
PastEnd(w) == CHOOSE n \in Sizes : /\ \A o \in Offs : w[o] # None => o < n
                                   /\ n = 0 \/ w[n - 1] # None

CompactWrite ==
  /\ At(Compacting, "write")
  /\ data' = Overlay(data, repl)
  /\ psize' = IF PastEnd(repl) > psize THEN PastEnd(repl) ELSE psize
  /\ Goto("apply")
  /\ UNCHANGED <<hdr, log, durVars, posVars, fileVars, allocVars, txVars>>

CompactApply ==
  /\ At(Compacting, "apply")
  /\ Flush
  /\ repl' = NoWrites
  /\ Goto("header")
  /\ UNCHANGED <<diskVars, posVars, size, allocVars, txVars>>

SizeAtStart == [seq |-> Succ(curSeq), size |-> hdr[curSlot].size]
NewHeader   == [seq |-> Succ(curSeq), size |-> size]

CompactHeader ==
  /\ At(Compacting, "header")
  /\ hdr' = [hdr EXCEPT ![Other(curSlot)] = NewHeader]
  /\ Goto("ids")
  /\ UNCHANGED <<log, data, psize, durVars, posVars, fileVars, allocVars, txVars>>

\* tx_id_states_ loses its trailing finished transactions; the ids of the
\* other finished ones are available again.
TrimmedLen == IF active = {} THEN 0
              ELSE 1 + CHOOSE i \in active : \A j \in active : j <= i

CompactIds ==
  /\ At(Compacting, "ids")
  /\ idLen' = TrimmedLen
  /\ avail' = (0 .. TrimmedLen - 1) \ active
  /\ Goto("install")
  /\ UNCHANGED <<diskVars, durVars, posVars, fileVars, active, completed, txVars>>

\* The call that needed the space goes on, or is refused; allocate_tx_id
\* and compact() end here.
CompactInstall ==
  /\ At(Compacting, "install")
  /\ curSlot' = Other(curSlot)
  /\ slotOff' = EndPos(log[Other(curSlot)])
  /\ curSeq' = Succ(curSeq)
  /\ completed' = 0
  /\ IF op.kind \in {"append", "commit"} /\ HasRoom(slotOff')
     THEN Goto("body") ELSE op' = Idle
  /\ UNCHANGED <<diskVars, durVars, fileVars, idLen, active, avail, txVars>>

(***************************************************************************)
(* Crashes.  ReopenCrash = FALSE keeps them out of the steps of a recovery *)
(* that start the new segment, where its header is written and its end     *)
(* marker is not (or, for a system crash, is not flushed).                 *)
(***************************************************************************)
Starting(kind) ==
  op.kind = "reopen" /\ op.pc \in {"size", "end"} \union
                          (IF kind = "system" THEN {"done"} ELSE {})

LoseProgram ==
  /\ curSlot' = 0 /\ slotOff' = 1 /\ curSeq' = 0
  /\ size' = 0 /\ repl' = NoWrites
  /\ idLen' = 0 /\ active' = {} /\ avail' = {} /\ completed' = 0
  /\ txId' = [t \in Txs |-> None]
  /\ txUpd' = [t \in Txs |-> NoUpdate]
  /\ UNCHANGED fresh
  /\ op' = Down

MayCrash(kind) ==
  /\ kind \in Crashes
  /\ op.kind # "down"
  /\ Starting(kind) => ReopenCrash

ProcessCrash ==
  /\ MayCrash("process")
  /\ LoseProgram
  /\ UNCHANGED <<diskVars, durVars>>

\* What was not flushed is lost or not, cell by cell.
SystemCrash ==
  /\ MayCrash("system")
  /\ LoseProgram
  /\ \E L \in SUBSET {s \in Slots : hdr[s] # hdrD[s]} :
       hdr' = [s \in Slots |-> IF s \in L THEN hdrD[s] ELSE hdr[s]]
  /\ \E L \in SUBSET {c \in Slots \X Cells : log[c[1]][c[2]] # logD[c[1]][c[2]]} :
       log' = [s \in Slots |-> [p \in Cells |->
                 IF <<s, p>> \in L THEN logD[s][p] ELSE log[s][p]]]
  /\ \E L \in SUBSET {o \in Offs : data[o] # dataD[o]} :
       data' = [o \in Offs |-> IF o \in L THEN dataD[o] ELSE data[o]]
  /\ hdrD' = hdr' /\ logD' = log' /\ dataD' = data'
  /\ UNCHANGED psize

(***************************************************************************)
(* Recovery: wal_region's other constructor.  It replays the newest slot   *)
(* in memory, writes the result into the file, sets the file's length,     *)
(* flushes, and starts an empty segment in the older slot: sequence        *)
(* number, size, end marker, flush.                                        *)
(***************************************************************************)
SeqOfOlder(h) == Succ(h[Other(Newest(h))].seq)
ReopenSeq(h)  == Succ(h[Newest(h)].seq)

RecoverRead ==
  /\ op.kind = "down"
  /\ LET s == Newest(hdr)
     IN  /\ HasEnd(log[s])
         /\ curSlot' = Other(s)
         /\ curSeq' = ReopenSeq(hdr)
         /\ size' = ReplayedSize(hdr[s], log[s])
         /\ repl' = ReplayedWrites(log[s])
  /\ op' = Call("reopen", None, End, "write")
  /\ UNCHANGED <<diskVars, durVars, slotOff, allocVars, txVars>>

RecoverWrite ==
  /\ At({"reopen"}, "write")
  /\ data' = [o \in Offs |-> IF o < size THEN Overlay(data, repl)[o] ELSE Zero]
  /\ psize' = size
  /\ repl' = NoWrites
  /\ Goto("flush")
  /\ UNCHANGED <<hdr, log, durVars, posVars, size, allocVars, txVars>>

RecoverFlush ==
  /\ At({"reopen"}, "flush")
  /\ Flush
  /\ Goto("seq")
  /\ UNCHANGED <<diskVars, posVars, fileVars, allocVars, txVars>>

RecoverSeq ==
  /\ At({"reopen"}, "seq")
  /\ hdr' = [hdr EXCEPT ![curSlot].seq = curSeq]
  /\ Goto("size")
  /\ UNCHANGED <<log, data, psize, durVars, posVars, fileVars, allocVars, txVars>>

RecoverSize ==
  /\ At({"reopen"}, "size")
  /\ hdr' = [hdr EXCEPT ![curSlot].size = size]
  /\ slotOff' = 1
  /\ Goto("end")
  /\ UNCHANGED <<log, data, psize, durVars, curSlot, curSeq, fileVars, allocVars, txVars>>

RecoverEnd ==
  /\ At({"reopen"}, "end")
  /\ log' = [log EXCEPT ![curSlot][1] = End]
  /\ Goto("done")
  /\ UNCHANGED <<hdr, data, psize, durVars, posVars, fileVars, allocVars, txVars>>

RecoverDone ==
  /\ At({"reopen"}, "done")
  /\ Flush
  /\ op' = Idle
  /\ UNCHANGED <<diskVars, posVars, fileVars, allocVars, txVars>>

-------------------------------------------------------------------------------
Client ==
  \E t \in Txs :
    \/ Begin(t)
    \/ BeginCompacts(t)
    \/ Rollback(t)
    \/ \E o \in Offs, v \in Vals : Write(t, o, v)
    \/ \E n \in Sizes : Resize(t, n)
    \/ Commit(t)

Append     == WriteBody \/ FlushBody \/ AppendMarker \/ CommitMarker \/ CommitDone
Compaction == \/ CompactCopy \/ CompactWrite \/ CompactApply
              \/ CompactHeader \/ CompactIds \/ CompactInstall
Recovery   == \/ RecoverRead \/ RecoverWrite \/ RecoverFlush \/ RecoverSeq
              \/ RecoverSize \/ RecoverEnd \/ RecoverDone

Next ==
  \/ Client \/ Compact
  \/ Append \/ Compaction
  \/ ProcessCrash \/ SystemCrash
  \/ Recovery

Spec == Init /\ [][Next]_vars

\* A thread that is in a call goes on with it, and a file is opened again.
FairSpec == Spec /\ WF_vars(Append \/ Compaction) /\ WF_vars(Recovery)

-------------------------------------------------------------------------------

(***************************************************************************)
(* Properties.                                                             *)
(***************************************************************************)
PCs == {"idle", "down", "body", "flush", "marker", "sync",
        "copy", "write", "apply", "header", "ids", "install",
        "seq", "size", "end", "done"}

Calls ==
  [kind : {"idle", "down", "reopen", "append", "commit", "compact", "begin"},
   tx : Txs \union {None}, rec : Records, pc : PCs]

\* The types of the variables of wal.h:323-361 and of the file.
TypeOK ==
  /\ hdr \in [Slots -> Headers] /\ hdrD \in [Slots -> Headers]
  /\ log \in [Slots -> [Cells -> Records]] /\ logD \in [Slots -> [Cells -> Records]]
  /\ data \in [Offs -> Bytes] /\ dataD \in [Offs -> Bytes]
  /\ psize \in Sizes /\ size \in Sizes
  /\ curSlot \in Slots /\ slotOff \in Cells /\ curSeq \in Seqs
  /\ repl \in [Offs -> Bytes \union {None}]
  /\ idLen \in 0 .. MaxId + 1
  /\ active \subseteq Ids /\ avail \subseteq Ids /\ completed \in Nat
  /\ fresh \subseteq Txs
  /\ txId \in [Txs -> Ids \union {None}] /\ txUpd \in [Txs -> Updates]
  /\ op \in Calls

\* Whichever headers a crash leaves, flushed or not, their sequence numbers
\* are next to each other: recovery can tell the newer slot (wal.cc:267-276).
HeadersAdjacent ==
  \A a \in {hdr[0].seq, hdrD[0].seq}, b \in {hdr[1].seq, hdrD[1].seq} :
    b = Succ(a) \/ a = Succ(b)

\* Transactions in progress have ids of their own, that are marked in use
\* and are not for allocation (wal.cc:373-404, 626-641, 804-811).
IdsDistinct ==
  /\ \A t \in Txs : txId[t] # None => txId[t] \in active \ avail
  /\ \A t, u \in Txs : t # u /\ txId[t] # None => txId[t] # txId[u]

\* The log holds of each transaction in progress exactly what it did: what a
\* commit record would make recovery apply is what the commit applies now.  And
\* tx_id_completed_count_ counts the finished transactions whose ids, and
\* records, a compaction would free.
Latest(S) == CHOOSE p \in S : \A q \in S : q <= p
LoggedAsDone(t) ==
  LET l  == log[curSlot]
      ws == [o \in Offs |-> WritesTo(l, o) \intersect Uncommitted(l, txId[t])]
      rs == Resizes(l) \intersect Uncommitted(l, txId[t])
  IN  /\ \A o \in Offs : txUpd[t].writes[o] =
           IF ws[o] = {} THEN None ELSE l[Latest(ws[o])].val
      /\ txUpd[t].size = IF rs = {} THEN None ELSE l[Latest(rs)].arg
LogMatchesTx ==
  /\ Up => \A t \in Txs : txId[t] # None /\ ~(op.pc = "sync" /\ op.tx = t) => LoggedAsDone(t)
  /\ op.pc # "install" =>
       completed = Cardinality((0 .. idLen - 1) \ (active \union avail))

\* The log always ends: at slot_off_ while the region is open (the checks of
\* wal.cc:492-503 and 676-687), and before the end of the slot that recovery
\* reads after a crash.
LogEnds ==
  /\ Up /\ op.pc # "sync" => HasEnd(log[curSlot]) /\ EndPos(log[curSlot]) = slotOff
  /\ op.kind = "down" => HasEnd(log[Newest(hdr)])

\* Until a new commit happens, the slot whose header was not flushed yet and
\* the one before it give the same file (wal.cc:605-613).
Contents(n, w, d) ==
  [size |-> n, data |-> [o \in Offs |-> IF o >= n THEN Zero ELSE Overlay(d, w)[o]]]
Replayed(h, l, d) == Contents(ReplayedSize(h, l), ReplayedWrites(l), d)

SlotsEquivalent ==
  \A s \in Slots :
    Up /\ op.pc # "sync" /\ Newest(hdr) = s /\ hdrD[s] # hdr[s] =>
      LET old == Other(s)
      IN  /\ HasEnd(log[old])
          /\ Replayed(hdr[old], log[old], data) = Replayed(hdr[s], log[s], data)

\* At any moment outside the last step of a commit, the slot that recovery
\* would choose gives exactly the file that readers see: replay applies the
\* updates in the order of the commits, as repl_ and the file got them, not in
\* the order they were logged (wal.cc:282-308 against 782-794).
RecoveryAgrees ==
  Up /\ op.pc # "sync" =>
    LET s == Newest(hdr)
    IN  Replayed(hdr[s], log[s], data) = Contents(size, repl, data)

(***************************************************************************)
(* The file a WAL region shows is the committed file: what its users read, *)
(* and after a crash what recovery is about to replay.                     *)
(***************************************************************************)
View ==
  IF op.kind = "down"
  THEN LET s == Newest(hdr) IN Replayed(hdr[s], log[s], data)
  ELSE Contents(size, repl, data)

InFlight == IF op.kind = "commit" THEN txUpd[op.tx] ELSE None

Committed == INSTANCE CommittedFile WITH file <- View, inflight <- InFlight

\* Every step, a crash or a recovery included, leaves the committed file
\* alone or applies the one transaction whose commit is in progress, whole.
CommitsAreAtomic == Committed!Spec

\* A call that holds log_mtx_ returns, unless the program crashes: tx_commit_
\* is not left waiting for bytes that the file does not have
\* (wal.cc:711-732).
CallsReturn ==
  op.kind \in {"append", "commit", "compact", "begin"} ~> op.kind \in {"idle", "down"}

\* "Don't run a compaction if we know we won't free up any information"
\* (wal.cc:549): a count of 0 means there is none.
CountKnows ==
  op.kind = "idle" /\ completed = 0 => 0 .. idLen - 1 \subseteq active \union avail

\* The documentation of tx_id_completed_count_: it is
\* std::count(tx_id_states_.begin(), tx_id_states_.end(), false).
DocumentedCount == op.kind = "idle" => completed = Cardinality((0 .. idLen - 1) \ active)

===============================================================================
