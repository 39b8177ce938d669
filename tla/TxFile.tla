-------------------------------- MODULE TxFile --------------------------------
(***************************************************************************)
(* txfile, txfile::transaction and tx_sequencer (txfile.h and .cc,         *)
(* tx_sequencer.h and .cc), over the WAL region's committed contents.      *)
(*                                                                         *)
(* A transaction reads the file as it was when it began.  The sequencer    *)
(* keeps a list of records, in the order in which transactions began and   *)
(* committed; the record of a committed one has the bytes that the commit  *)
(* replaced, and a read looks in the records that follow its own first.    *)
(*                                                                         *)
(* The WAL's log, its ids and crashes are in Wal.tla.  Here a commit is    *)
(* two steps, with log_mtx_ and mtx_ held: it changes the contents         *)
(* (tx_commit_), then it calls the sequencer, which has a mutex of its own.*)
(* The log is never full, and the file on disk is never shorter than       *)
(* fd_size_.                                                               *)
(***************************************************************************)
EXTENDS Regions, SequencesExt

CONSTANTS
  Txs,      \* transaction objects
  MaxSize,  \* the largest file
  Bytes,    \* what a byte may be
  Zero,     \* what a byte that nobody wrote reads as
  Lengths,  \* how many bytes one write_at writes
  Resizes,  \* how transactions change the size of the file: "grow", "shrink"
  Moves,    \* transaction objects are moved
  EarlyEnd  \* an object may be destroyed before the one moved from it commits

ASSUME MaxSizeAssumption == MaxSize \in Nat
ASSUME BytesAssumption   == Zero \in Bytes /\ None \notin Bytes \union Nat \union Txs
ASSUME UsesAssumption    == /\ Lengths \subseteq 1 .. MaxSize
                            /\ Resizes \subseteq {"grow", "shrink"}
                            /\ Moves \in BOOLEAN /\ EarlyEnd \in BOOLEAN

Offs  == 0 .. MaxSize - 1
Sizes == 0 .. MaxSize

VARIABLES
  \* wal_region: the file's bytes, fd_size_, repl_
  base, size, repl,
  \* tx_sequencer::c_, and the records that have committed
  records, sealed,
  \* transaction objects: whether they were made, are valid (owner_), may
  \* write (read_only_), record_, writes_ and new_file_size_
  tx,
  \* the transaction that holds log_mtx_ and mtx_, and its undo map
  committing,
  \* history: the contents after the last sequenced commit, and those that a
  \* transaction began with
  contents, start

walVars == <<base, size, repl>>
vars == <<walVars, records, sealed, tx, committing, contents, start>>

NotMade == [made |-> FALSE, valid |-> FALSE, readOnly |-> FALSE, record |-> None,
            writes |-> {}, newSize |-> None]
Record(id) == [id |-> id, committed |-> FALSE, undo |-> {}]
NoCommit   == [tx |-> None, undo |-> {}]

WalByte(o) == IF ByteAt(repl, o) # None THEN ByteAt(repl, o) ELSE base[o]
Now == [size |-> size, data |-> [o \in Offs |-> IF o < size THEN WalByte(o) ELSE Zero]]

Linked(id) == \E i \in DOMAIN records : records[i].id = id
Position(id) == CHOOSE i \in DOMAIN records : records[i].id = id
Unlink(list, id) ==
  LET at == {i \in DOMAIN list : list[i].id = id}
  IN  IF at = {} THEN list ELSE RemoveAt(list, CHOOSE i \in at : TRUE)

\* do_maintenance_: committed records at the front are of no use any more.
DropNothing(list) == list
Maintain(list) ==
  LET used == {i \in DOMAIN list : ~list[i].committed}
  IN  IF used = {} THEN <<>>
      ELSE SubSeq(list, CHOOSE i \in used : \A j \in used : i <= j, Len(list))

-------------------------------------------------------------------------------
Init ==
  /\ base = [o \in Offs |-> Zero]
  /\ size = IF Resizes = {} THEN MaxSize ELSE 0
  /\ repl = {}
  /\ records = <<>> /\ sealed = {}
  /\ tx = [t \in Txs |-> NotMade]
  /\ committing = NoCommit
  /\ contents = Now
  /\ start = [t \in Txs |-> Now]

Begin(t, readOnly) ==
  /\ ~tx[t].made
  /\ tx' = [tx EXCEPT ![t] = [@ EXCEPT !.made = TRUE, !.valid = TRUE,
                                       !.readOnly = readOnly, !.record = t]]
  /\ records' = Append(records, Record(t))
  /\ start' = [start EXCEPT ![t] = contents]
  /\ UNCHANGED <<walVars, sealed, committing, contents>>

Free    == committing.tx = None
MayWrite(t) == tx[t].valid /\ ~tx[t].readOnly /\ committing.tx # t

TxSize(t) == IF tx[t].newSize # None THEN tx[t].newSize ELSE size

WriteAt(t, off, data) ==
  /\ Free
  /\ MayWrite(t)
  /\ off + Len(data) <= TxSize(t)
  /\ tx' = [tx EXCEPT ![t].writes = Overwrite(@, off, data)]
  /\ UNCHANGED <<walVars, records, sealed, committing, contents, start>>

\* "Only one transaction at a time can change the file size."
Resize(t, n) ==
  /\ Free
  /\ MayWrite(t)
  /\ \A u \in Txs \ {t} : tx[u].valid => tx[u].newSize = None
  /\ n > TxSize(t) => "grow" \in Resizes
  /\ n <= TxSize(t) => "shrink" \in Resizes
  /\ tx' = [tx EXCEPT ![t].newSize = n]
  /\ UNCHANGED <<walVars, records, sealed, committing, contents, start>>

(***************************************************************************)
(* tx_commit_.  The writes go to repl_, which is cut to the new size.  The *)
(* bytes that each write replaces go to the undo map; the loop that        *)
(* collects them goes on by the length it asked for, also when repl_ gave  *)
(* fewer bytes.                                                            *)
(***************************************************************************)
FromWal(off, n) ==
  LET r == ReadAt(repl, off, n)
  IN  IF r.data # <<>> THEN [data |-> r.data, len |-> n]
      ELSE IF off >= size
      THEN [data |-> [i \in 1 .. r.left |-> Zero], len |-> r.left]
      ELSE LET len == Least(r.left, size - off)
           IN  [data |-> [i \in 1 .. len |-> base[off + i - 1]], len |-> len]

Saved(w) ==
  LET from[off \in w.first .. EndOf(w)] ==
        IF off = EndOf(w) THEN {}
        ELSE LET r == FromWal(off, EndOf(w) - off)
             IN  {Region(off, r.data)} \union from[off + r.len]
  IN  from[w.first]

Undo(writes) == UNION {Saved(w) : w \in writes}

Merged(m, writes) ==
  FoldSet(LAMBDA w, acc : Overwrite(acc, w.first, w.data), m, writes)

CommitApply(t) ==
  /\ Free
  /\ MayWrite(t)
  /\ committing' = [tx |-> t, undo |-> Undo(tx[t].writes)]
  /\ LET merged == Merged(repl, tx[t].writes)
     IN  IF tx[t].newSize = None
         THEN repl' = merged /\ size' = size
         ELSE repl' = Truncate(merged, tx[t].newSize) /\ size' = tx[t].newSize
  /\ UNCHANGED <<base, records, sealed, tx, contents, start>>

\* tx_sequencer::tx::commit: the record moves to the end of the list.
CommitInPlace(list, t, undo) ==
  [i \in DOMAIN list |-> IF list[i].id = tx[t].record
                         THEN [list[i] EXCEPT !.committed = TRUE, !.undo = undo]
                         ELSE list[i]]
Committed(list, t, undo) ==
  Append(Unlink(list, tx[t].record),
         [id |-> tx[t].record, committed |-> TRUE, undo |-> undo])

CommitSequence(t) ==
  /\ committing.tx = t
  /\ records' = Maintain(Committed(records, t, committing.undo))
  /\ sealed' = sealed \union {tx[t].record}
  /\ tx' = [tx EXCEPT ![t].valid = FALSE]
  /\ committing' = NoCommit
  /\ contents' = Now
  /\ UNCHANGED <<walVars, start>>

CommitReadOnly(t) ==
  /\ tx[t].valid /\ tx[t].readOnly
  /\ tx' = [tx EXCEPT ![t].valid = FALSE]
  /\ UNCHANGED <<walVars, records, sealed, committing, contents, start>>

(***************************************************************************)
(* rollback leaves the record where it is; the destructor unlinks it.  One *)
(* that is not linked any more is undefined behaviour, shown as no change. *)
(***************************************************************************)
Rollback(t) ==
  /\ tx[t].valid
  /\ committing.tx # t
  /\ tx' = [tx EXCEPT ![t].valid = FALSE]
  /\ UNCHANGED <<walVars, records, sealed, committing, contents, start>>

Shared(t) == \E u \in Txs \ {t} : tx[u].record = tx[t].record

Destroy(t) ==
  /\ tx[t].made /\ tx[t].record # None
  /\ committing.tx # t
  /\ EarlyEnd \/ tx[t].record \in sealed \/ ~Shared(t)
  /\ tx' = [tx EXCEPT ![t] = [NotMade EXCEPT !.made = TRUE]]
  /\ records' = IF tx[t].record \in sealed THEN records
                ELSE Maintain(Unlink(records, tx[t].record))
  /\ UNCHANGED <<walVars, sealed, committing, contents, start>>

\* u is constructed from t.  tx_sequencer::tx has no move constructor, so
\* both objects have the record afterwards.
Move(t, u) ==
  /\ Moves
  /\ tx[t].valid /\ ~tx[u].made
  /\ committing.tx # t
  /\ tx' = [tx EXCEPT ![u] = tx[t],
                      ![t] = [@ EXCEPT !.valid = FALSE, !.writes = {}]]
  /\ start' = [start EXCEPT ![u] = start[t]]
  /\ UNCHANGED <<walVars, records, sealed, committing, contents>>

\* wal_region::compact_ moves the pending writes into the file.
Compact ==
  /\ Free
  /\ base' = [o \in Offs |-> WalByte(o)]
  /\ repl' = {}
  /\ UNCHANGED <<size, records, sealed, tx, committing, contents, start>>

Next ==
  \/ \E t \in Txs :
       \/ \E readOnly \in BOOLEAN : Begin(t, readOnly)
       \/ \E off \in Offs, n \in Lengths : \E data \in [1 .. n -> Bytes] : WriteAt(t, off, data)
       \/ \E n \in Sizes : Resize(t, n)
       \/ CommitApply(t) \/ CommitSequence(t) \/ CommitReadOnly(t)
       \/ Rollback(t) \/ Destroy(t)
       \/ \E u \in Txs \ {t} : Move(t, u)
  \/ Compact

Spec == Init /\ [][Next]_vars

-------------------------------------------------------------------------------
(***************************************************************************)
(* txfile::transaction::read_at: the transaction's own writes, then the    *)
(* records from its own on, then the WAL region.  Each may shorten the     *)
(* request to the gap before the next byte it has.                         *)
(***************************************************************************)
SeqRead(id, off, n) ==
  LET later  == {i \in Position(id) .. Len(records) : records[i].committed}
      hits   == {i \in later : Holding(records[i].undo, off) # {}}
      Gap(S) == ClampToGap(UNION {records[i].undo : i \in S}, off, n)
  IN  IF hits = {} THEN [data |-> <<>>, left |-> Gap(later)]
      ELSE LET first == Min(hits)
           IN  ReadAt(records[first].undo, off, Gap({i \in later : i < first}))

WalRead(off, n) ==
  IF off >= size THEN <<>>
  ELSE LET len == Least(n, size - off)
           r   == ReadAt(repl, off, len)
       IN  IF r.data # <<>> THEN r.data
           ELSE [i \in 1 .. r.left |-> base[off + i - 1]]

TxRead(t, off, n) ==
  LET resized == tx[t].newSize # None
      own     == ReadAt(tx[t].writes, off,
                        IF resized THEN Least(n, tx[t].newSize - off) ELSE n)
      seq     == SeqRead(tx[t].record, off, own.left)
      wal     == WalRead(off, seq.left)
  IN  IF resized /\ off >= tx[t].newSize THEN <<>>
      ELSE IF own.data # <<>> THEN own.data
      ELSE IF seq.data # <<>> THEN seq.data
      ELSE IF wal # <<>> THEN wal
      ELSE IF resized THEN [i \in 1 .. seq.left |-> Zero]
      ELSE <<>>

-------------------------------------------------------------------------------
(***************************************************************************)
(* Properties.                                                             *)
(***************************************************************************)

\* The types of the variables; each record is in the list once.
Blocks == UNION {[1 .. n -> Bytes] : n \in 1 .. MaxSize}
Maps   == SUBSET {r \in [first : Offs, data : Blocks] : EndOf(r) <= MaxSize}
Files  == [size : Sizes, data : [Offs -> Bytes]]

TypeOK ==
  /\ base \in [Offs -> Bytes] /\ size \in Sizes /\ repl \in Maps
  /\ \A i \in DOMAIN records :
       /\ records[i] \in [id : Txs, committed : BOOLEAN, undo : Maps]
       /\ \A j \in 1 .. i - 1 : records[j].id # records[i].id
  /\ \A t \in Txs :
       tx[t] \in [made : BOOLEAN, valid : BOOLEAN, readOnly : BOOLEAN, record : Txs \union {None},
                  writes : Maps, newSize : Sizes \union {None}]
  /\ committing \in [tx : Txs \union {None}, undo : Maps]
  /\ sealed \subseteq Txs /\ contents \in Files /\ start \in [Txs -> Files]

\* "The transaction will see all of the data committed before it started"
\* and nothing committed later, but for what it wrote itself
\* (txfile.h:56-58, 280-284): every read gives those bytes, whatever
\* commits, compactions and other transactions' ends came in between.
Reader(t) == tx[t].valid /\ Linked(tx[t].record)
Expected(t, o) ==
  IF ByteAt(tx[t].writes, o) # None THEN ByteAt(tx[t].writes, o) ELSE start[t].data[o]

SnapshotReads ==
  Free => \A t \in Txs : Reader(t) =>
    \A off \in Offs, n \in 1 .. MaxSize :
      off + n <= MaxSize =>
        LET r == TxRead(t, off, n)
        IN  \A i \in DOMAIN r : r[i] = Expected(t, off + i - 1)

\* A transaction that does not resize the file sees it with the size it had:
\* reads give bytes below that size and none past it.
SnapshotSize ==
  Free => \A t \in Txs : Reader(t) /\ tx[t].newSize = None =>
    \A off \in Offs : TxRead(t, off, 1) # <<>> <=> off < start[t].size

\* A valid transaction's record is in the sequencer's list: its reads start
\* from it, and its commit moves it ("Hold on to the transaction sequencer",
\* txfile.h:302).
ReadersLinked == \A t \in Txs : tx[t].valid => Linked(tx[t].record)

\* The bytes a commit replaced are kept only while a transaction that began
\* before that commit can read them (tx_sequencer.cc:50-53).
UndoIsNeeded ==
  \A i \in DOMAIN records : records[i].committed =>
    \E j \in 1 .. i - 1 : ~records[j].committed

===============================================================================
