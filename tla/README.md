# Monsoon++ in TLA+

TLA+ models of Monsoon++: the transactional file of `lib/tx` with everything it
is made of, the history files and the directory of them, the merger of
expressions, the engine's collections, and the values, matchers, texts and byte
streams they use. TLC checks the models on small instances; TLAPS proves the main
properties of the write-ahead log (that it survives crashes among them), of its
replacement maps, of transactions and of the mutexes of `lib/tx`, of the
sequence, of asynchronous I/O and of the history's directory and readers for
every instance.

Paths below are relative to `src/`.

## 1. The system

Monsoon++ collects metrics, stores them as time series and evaluates
expressions over them.

| Component | State it keeps | Operations | Talks to |
|---|---|---|---|
| `wal_region` (`lib/tx`) | two log slots and the file's bytes on disk; current slot, offset and sequence number; file size; `repl_` (committed bytes not in the file yet); transaction ids in use, available and completed | create, open (recovery), begin, write, resize, commit, rollback, compact, read | file descriptor, `aio`, `replacement_map`; calls back into the sequencer during a commit |
| `replacement_map` (`lib/tx`) | ordered regions of bytes | read, prepare a write, commit it, truncate, clear | used for `repl_`, for the writes of a transaction and for undo maps |
| `tx_sequencer`, `txfile` (`lib/tx`) | list of records in order of begin and commit, each committed one with an undo map; transaction objects | begin, read, write, resize, commit, rollback, move, destroy | `wal_region` |
| `sequence` (`lib/tx`) | the number in the file, a batch in memory | init, open, next number, move | a WAL transaction of its own |
| `aio`, `fd` (`lib/misc`) | control blocks of operations in progress | add, start, join, cancel | the system's asynchronous I/O |
| XDR, gzip and pointer streams (`lib/misc`) | buffers | read, write, close | `fd` |
| dirhistory (`history/dirhistory`) | list of files, the file being written | push, emit, emit_time | tsdata files |
| tsdata v0, v1, v2 (`history/dirhistory`) | header, segments chained by offset, dictionaries, column tables | push_back, emit, recover times | streams, `fd` |
| expression merger (`expr`) | per source a queue of speculative and factual values, the time emitted last, closed flags | accept a value, close, emit merged values | object pipes, other mergers |
| expressions, match clauses, selectors (`expr`) | none | build pipes, match tags | merger, metric sources |
| metric values, histograms, names, tags, matchers, interpolation (`intf`) | none | arithmetic, comparison, matching | everywhere |
| instrumentation (`intf`) | counters, timings, gauges in a tree | count, publish, collect | WAL, engine |
| engine, collectors | the collection task | collect a round, push it | collectors, history |
| grammars (`intf`, `expr`), programs, examples | none | parse, print | |

What makes them hard, and what has to be right:

* **WAL.** Clients on several threads under three mutexes that are taken apart;
  crashes of the process and of the system between any two writes; ids and log
  space that run out and are recycled. Right means: the committed file is what
  the commits made it, whole, after any crash; an id never has two owners; the
  log always ends; calls return.
* **replacement_map.** Cutting and gap arithmetic at every boundary. Right
  means: regions never overlap, and users see a partial function from offsets
  to bytes.
* **Sequencer and txfile.** A read puts together three layers, of which one is
  changed by later commits. Right means: each transaction sees its snapshot,
  and what keeps the snapshot is kept as long as needed and no longer.
* **sequence.** Read, increase and write back across transactions, failures and
  restarts. Right means: unique, increasing numbers.
* **Mutexes of lib/tx.** Callbacks run under other components' mutexes. Right
  means: no circular waiting, and the log changes under its mutex.
* **aio.** Operations that are over in any order, partly, or not at all. Right
  means: a call that returns has done its work, and one that throws has left
  nothing running.
* **dirhistory, tsdata.** Failing in the middle of an append; times that repeat
  or go back; merging files that overlap. Right means: what was pushed is read
  back once, in the order of time.
* **Merger.** Values of several sources arrive in any order and change from
  speculation to fact; sources close. Right means: times of facts increase,
  everything known is emitted, and the result closes when the sources have.

`PROJECT.json` lists all components with their sources and state, and the
hazards at the lines where they bite.


## 2. Modules

| Module | Models | Used with |
|---|---|---|
| `Wal`, `FileData` | `wal_region`, `wal_region::tx`, recovery, crashes; contents of a file | `MCWal`, `WalProofs` |
| `CommittedFile` | what the WAL promises: a file that changes by whole commits and survives crashes | abstract; `Wal` implements it (`CommitsAreAtomic`) |
| `Regions`, `ReplacementMap` | what each operation of `replacement_map` computes; a map and the writes prepared on it | `MCReplacementMap`, `ReplacementMapProofs` |
| `ByteMap` | what a replacement map promises | abstract; `ReplacementMap` implements it (`IsByteMap`) |
| `TxFile` | `txfile::transaction`, `tx_sequencer`, the layers of a read | over `Regions`; `MCTxFile`, `TxFileProofs` |
| `Sequence` | `sequence` | `MCSequence`, `SequenceProofs` |
| `TxLocks` | the order in which operations of `lib/tx` take mutexes | `MCTxLocks`, `TxLocksProofs` |
| `Aio` | `aio` with `<aio.h>`, and the system behind it | `AioProofs` |
| `Streams` | gzip, positional, segment and XDR streams | `MCValues` |
| `Histogram`, `MetricValue` | histograms; metric values and their operators | everything below |
| `MatchClause`, `Matchers` | tag sets and match clauses; path and tag matchers | `MCValues` |
| `Expressions` | trees of expressions: their text, the grammar, kinds and values | over `Matchers`; `MCValues` |
| `BuildTask` | what the engine makes of a collector's collections | over `Matchers`; `MCValues` |
| `Series`, `SeriesV1`, `SeriesV2` | records of the tsdata versions and their dictionaries | `TsData`, `Tables` |
| `TsData` | one tsdata file: v0, v1 or a v2 list | `MCTsData` |
| `Tables` | v2 table files: columns, blocks and their readers | over `SeriesV2`; `MCValues` |
| `HistoryReader`, `DirHistory` | the readers that merge files; the directory, its object and its pushes | `MCDirHistory`, `DirHistoryProofs` |
| `Merger` | the merger of an operator's arguments | `MCMerger` |

The layers meet as the code's do. `Wal` shows that commits are whole;
`TxFile` and `Sequence` take the committed contents, and a commit that is done
or fails, as a step. `TxLocks` shows which steps the mutexes keep apart, and the
other modules of `lib/tx` interleave those they do not. `TsData` shows what one
file keeps and emits; `DirHistory` takes a file as the range its header names and
the set of its records, which it emits by time. `BuildTask` says which facts reach a history or a
reader. `Merger` takes its streams as scripts of guesses and facts, and its
match clause as the default one; `MatchClause` has them all.

### Wal: state and actions

Variables have the names of the code's members without the underscore:
`curSlot`, `slotOff`, `curSeq`, `size` (`fd_size_`), `repl`; `idLen` and
`active` are `tx_id_states_` (its length and its true entries), `avail` and
`completed` are `tx_id_avail_` and `tx_id_completed_count_`. The file is
`hdr`, `log`, `data` and `psize` (its real length); `hdrD`, `logD` and `dataD`
are what a system crash is sure to leave. `fresh`, `txId` and `txUpd` are the
`wal_region::tx` objects. `op` is the call that holds `log_mtx_` with the step
it is at, or the recovery.

| Actions | Code (`lib/tx/src/tx/detail/wal.cc`) |
|---|---|
| `Begin`, `BeginCompacts`, `Rollback` | `allocate_tx_id`, `tx_rollback_` |
| `Write`, `Resize`, `Commit`, `Compact` | entry of the calls, guard on room, decision to compact |
| `WriteBody`, `FlushBody`, `AppendMarker` | `log_write_raw_`: body, flush, marker |
| `CommitMarker`, `CommitDone` | `tx_commit_`: marker and flush, then the changes in memory |
| `CompactCopy` to `CompactInstall` | `compact_`: copy, write back, flush, header, ids, installation |
| `ProcessCrash`, `SystemCrash` | any step |
| `RecoverRead` to `RecoverDone` | the recovering constructor |

A record fills one cell, whatever its length; `repl_` is a function from
offsets to bytes, which is what `ReplacementMap` is shown to be; aio calls are
those of the synchronous build; a crash of the system leaves each unflushed cell
old or new; a flush does not fail.

### The rest of lib/tx and lib/misc

* `ReplacementMap`: `map` is the tree of regions, `pending` the `to_erase_` and
  `to_insert_` of each `replacement_map::tx` with the request they were
  prepared for. Several handles may be in use together when the header allows
  it: no overwriting, no overlap.
* `TxFile`: `base`, `size` and `repl` are the WAL region's; `records` is the
  sequencer's list; `tx` are the transaction objects; `committing` is the commit
  between `tx_commit_`'s change and the sequencer's. `contents` and `start` are
  history: the file after the last sequenced commit, and the one each
  transaction began with. Reads change nothing; they are operators (`SeqRead`,
  `WalRead`, `TxRead`) over which the properties quantify. A transaction begins
  at any time, in particular between the two steps of a commit, because it
  takes the sequencer's mutex only.
* `Sequence` holds an object's mutex by `pc`: a call is read, commit (or failed
  commit), take.
* `TxLocks`: each operation is a sequence of steps `take`, `share`, `release`
  and `change` (of the log), composed as the code's scopes and calls are.
* `Aio` numbers operations as `aiocb_vector_` does; the program's half follows
  `start`, `join`, `cancel_recover_` and the destructor step by step, the
  system's half finishes operations in any order, short or failed.
* `Streams`: a writer is the bytes zlib keeps, the buffer `out_` and the file; a
  reader the segment, zlib's input, `pending_` and the buffer of `xdr_istream`.
  `Compressed` writes, finishes and closes; `Got` reads by requests. Compression
  keeps the bytes and adds a header and a trailer, so that what is lost, doubled
  or cut shows.

### Values and the engine

* `MetricValue` has the variant with integers of `Bits` bits; sums and products
  are built from the overflow tests the code makes, a double is an exact
  fraction. `Histogram` normalises as `fixup_` does, in its two passes.
* `MatchClause` has `less`, `equal`, `hash` and `reduce` of the by, without and
  default clauses; `Matchers` the recursive match of paths and the overlap of
  two matchers.
* `Expressions`: `TextOf` is `do_ostream`, on tokens instead of characters;
  `ParseLevel` has the seven rules of binary operators, `ParseUnary` and
  `ParsePrimary` the others, and a rule gives what it makes and the rest of the
  text. Their results are sets, empty where a rule does not match and with
  several elements where the code reads an empty optional (`BuildBy`).
* `BuildTask`: `Accept` is the queue of a converter, `PushTurn` and `PullTurn`
  its two users, `Collect` the engine's turn over the pipes that read. The
  member `complete` of a record is not initialised; it is an input (`rest`).

### The history

* `Series` and its extensions encode an emission to a record and back; a
  dictionary is the sequence of what was entered, so that an index which is
  given twice or lost shows. `SeriesV2` keeps the dictionary as the deltas of
  the records.
* `TsData`: `file` is what a read sees and `synced` what a crash is sure to
  leave; `mem` is the object's copy of the header and `dict` the one v1 keeps.
  `job` is the `push_back` that runs: body, flush, header, flush
  (`PushBack`, `WriteBody`, `FlushBody`, `WriteHeader`, `FlushHeader`), each of
  which may throw (`Fail`). `Crash` and `Open` are as in the code; `Emit`,
  `EmitTime` and `ReadAll` are operators over the state.
* `DirHistory`: `disk` is the directory, `hist` the object with its files and
  the one it writes, `now` the clock that pushes follow, `reader` and `out` the
  reader in use and what it gave. `Open` picks the file to write; `Push`
  starts one (`StartFails` is the catch of a failing creation, which leaves an
  empty file behind, and `CleanUp` somebody who removes it); `PullTime` and
  `PullEmit` are calls of a pulled reader, `SinkInto` and `EmitBatch` a pushed
  one.
* `HistoryReader` is the merge itself. A file emits by time, so a heap of open
  files is the set of the records they have left (`active`) and its front the
  records of the least time, merged (`FrontOf`); the heap of files that are not
  open is the set `unstarted`. The loop of `wait` is said by what it opens: a
  file stays closed when the files that begin before it leave a record that
  comes before its begin (`LeftBefore`, `Wait`). `OpenPast` says the same of the
  loop in `create_emit_for_tp` that reads ahead. Batches are those of the turns
  of the loop in `sink_into_`: what a turn reaches (`Reach`), where it cuts
  (`Cut`), and which files the front of the list has lost by then (`FirstLeft`).
* `Tables` puts optional values into columns by type and presence bits, and
  reads a file's blocks in the three ways the code has.

### Merger

`pushed`, `open` and `taken` are the streams, which other threads fill and
close; `sink` are the acceptors' buffers with their facts, guesses and what
interpolation remembers; `next_tp_`, `pending` and `call` are the pull cycle's.
A call (`pull`, `try_pull`, `wait`, `front`) reads the streams one emission at a
time, waiting or not, before it decides; `out` is what the reader got.
`Emissions` says which streams there are; `StreamsAreOrderly` (`Final`,
`Confirmed`) and `Waits`, with the properties, say of which pipes they hold.

## 3. What TLC checks

| Run | Properties | Shows |
|---|---|---|
| `wal_process` | `IdsDistinct`, `LogMatchesTx`, `LogEnds`, `CommitsAreAtomic` | crashes of the process at any step, ids that run out, a log that fills |
| `wal_system` | `HeadersAdjacent`, `SlotsEquivalent`, `CommitsAreAtomic` | crashes of the system, without rollbacks |
| `wal_returns` | `RecoveryAgrees`, `CallsReturn` | commits in another order than the log's; liveness of calls |
| `regions_write` | `NoOverlap`, `ReadsAgree`, `IsByteMap` | all writes over four offsets, two prepared at once, without assertions (`Assertions = FALSE`; with them fewer writes return) |
| `tx_file` | `SnapshotReads`, `UndoIsNeeded` | repeatable reads under commits, growing files, compactions, moves and destruction |
| `sequence_one` | `NumbersIncrease` | moves, reopening, crashes, failed commits, wrap-around |
| `locks_clients` | `NoDeadlock`, `LogIsProtected`, `LockOrder` | three threads, all operations that are safe together |
| `aio_errors` | `ThrowsWhenQuiet`, `CompleteIsDurable`, `Ends` | short writes, failures, cancellation, flush after writes |
| `values` | `ArithmeticIsExact`, `ValuesAreOrdered`, `HistogramKeepsCounts`, `JoinedKeysAgree`, `OverlapIsSound`, `TablesKeepValues`, `StreamsKeepBytes`, `CollectionsBecomeFacts`, `TextsMeanTheTree` | pure parts on bounded inputs, each against a definition that knows nothing of how they compute it |
| `merger` | `FactsAreFinal`, `SinksAreSound`, `FactsComplete` | any order of delivery and closing, readers that block, try, peek and wait |
| `ts_file` | `ReturnedIsKept`, `OnlyWhatWasPushed`, `EmitIsTheRange` | three versions of file through failing writes, a crash and a reopening |
| `history` | `ReadersComplete`, `EmittedInOrder`, `EmissionsSound`, `RecordsStay` | readers over overlapping files, with pushes between their calls |

Each run leaves out some use or event under which the code does go wrong, and
some promises the code makes it does not keep. The models have those too,
behind a constant or as a definition that no run checks. With the changes below
TLC finds the property violated, most within a minute.

| Configuration with changes | Property | What happens |
|---|---|---|
| `WalSystem`: three transactions, `Vals = {a}`, `Rollbacks = TRUE`, `MultiThreaded = FALSE` | `CommitsAreAtomic` | two compactions without a commit between them, and a lost header: a committed resize is gone (wal.cc:605-613) |
| `WalProcess`: `Spec`, `Rollbacks = FALSE`, `ReopenCrash = TRUE` | `CommitsAreAtomic` | a crash between header and end marker of the segment that recovery starts: old records are replayed over the newer file (wal.cc:326) |
| `WalSystem`: `MultiThreaded = FALSE`, `Crashes = {"process", "system"}` | `CommitsAreAtomic` | recovery replays a commit record that a dead process left unflushed; a crash of the system before recovery's flush can lose the record and keep bytes already written for it (wal.cc:282-321) |
| `WalProcess`: `Spec`, three transactions, `Vals = {a}`, `MultiThreaded = TRUE` | `CommitsAreAtomic` | a rollback during a compaction: the next owner of the id commits the rolled-back writes (wal.cc:580) |
| `WalProcess`: `Spec`, `Vals = {a}`, `MultiThreaded = TRUE`, `Crashes = {}` | `CountKnows` | a rollback during a compaction is not counted (wal.cc:647) |
| `WalProcess`: `Spec`, three transactions, `Vals = {a}`, `Crashes = {}` | `DocumentedCount` | the count is not what wal.h:330 says |
| the same with `Rollbacks = FALSE`, `FillOnGrow = FALSE` | `CommitsAreAtomic` | shrunk and grown again, a file shows its old bytes (wal.cc:791-794) |
| `WalReturns`: `Cap = 4`, `Rollbacks = FALSE`, `FillOnGrow = FALSE` | `CallsReturn` | a commit over bytes nobody wrote never returns (wal.cc:728) |
| `RegionsWrite`: `FillAnywhere = TRUE` | `NoOverlap` | a filling write before the first region covers the others (replacement_map.cc:232) |
| `RegionsWrite` | `FillsReturn` | a filling write over two regions that touch, as [0, 1) and [1, 2) under a fill of [0, 3), fails the assertion `iter_succ->begin_offset() > off` (replacement_map.cc:234), also when nothing is undefined; without assertions it fills what is missing, which is right |
| `TxFile`: `Resizes = {}`, `EarlyEnd = TRUE` | `ReadersLinked` | a moved-from transaction unlinks the one it moved to (tx_sequencer.h:78) |
| `TxFile`: `Resizes = {"grow", "shrink"}`, `Moves = FALSE` | `SnapshotSize` | a snapshot has the size of later commits (wal.h:450) |
| `TxFile`: `Resizes = {"grow", "shrink"}` | `SnapshotReads` | the bytes dropped when a file shrinks and grows are in no undo map |
| `TxFile`: `Resizes = {}`, `Moves = FALSE`, `Lengths = {1, 2}` | `SnapshotReads` | part of the bytes a commit replaced is not saved (wal.cc:730) |
| `SequenceOne`: `OneAtATime = FALSE` | `UniqueNumbers` | two objects at one offset give the same numbers (sequence.cc:50) |
| `LocksClients`: `Operations = {"begin_full", "write"}` | `LogIsProtected` | a begin compacts the log without its mutex (wal.cc:385) |
| `LocksClients`: `Operations = {"begin_number", "commit"}` | `NoDeadlock` | `begin(sequence&)` and a commit wait for each other (tx_sequencer.h:68) |
| `AioErrors` | `WrittenOut` | `join` returns with operations in progress (aio.cc:70) |
| `AioErrors` | `BytesInPlace` | the rest of a short write goes to the start of its range (aio.cc:84) |
| `TsFile`: `Failures = {"body", "header"}` | `ReturnedIsKept` | a header that failed to be written counts as written: later records are outside the range of the file on disk (v1/tsdata.cc:124) |
| `TsFile`: `TornBody = {0, 1, 2}` | `ReturnedIsKept` | records after a torn one are unreadable in v0 |
| `TsFile`: `TornHeader = TRUE` | `FileOpens` | a list's header is written field by field; after a crash between two of them its checksum is wrong and the file cannot be opened |
| `TsFile` | `TimesAreDistinct`, `EmitAscends` | `emit_time` of a list repeats times (v2/tsdata_list.cc:252); `emit` is not in order (:151) |
| `DirHistory` | `EmitsAllValues` | values at the ends of a range are missing although the fact is emitted |
| `DirHistory` | `ReadersReturn` | a reader takes the front of an empty queue |
| `DirHistory` | `DirectoryOpens` | a file whose creation failed is left behind, and opening the directory throws (dirhistory.cc:879-891) |
| `Merger`: `Pipes <- TryPipes` | `FactsAreFinal` | `try_pull` takes what it has for all there is |
| `Merger`: `Pipes <- EarlyGuess` | `AllFactsCome` | after a guess was emitted, its time counts as a fact and its facts are lost |
| `Merger`: `Pipes <- LateFact` | `SinksAreSound`, `FactsAreFinal` | a fact that is appended behind a guess leaves the guess in the buffer, against `scalar_sink::invariant`, as the search at merger.cc:1710 looks past it; a fact is interpolated from the guess (expression.h:82: guesses may be invalidated; :97: facts are known correct) |
| `Merger`: `Pipes <- OtherTags` | `SinksAreSound`, `FactsAreFinal` | the same in a vector, for a guess of a tag set that the fact of its time does not have |
| `Values` | `OneFactForATime`, `PulledIsPushed` | a record's `complete` is not initialised (build_task.cc:170-193); a reader that pulls gets one fact of several (:353) |
| `Values` | `TimesAreTaken` | two or more times cannot be written to a table: an unsigned literal wraps (v2/timestamp_delta.cc:45) |
| `Values` | `NotNegates` | `operator!` returns the truth value it was given (metric_value.cc:804; metric_value.h:259: "Logical not"), so `unequal` answers as `equal`, `less_equal` as `greater` and `greater_equal` as `less` |
| `Values` | `OverlapIsFound` | `a<=1` and `a>2` both take `a=3`, as `<=` is turned around, and `has_overlap` denies it in either order (tag_matcher.h:146) |
| `Values` | `OverlapInBothOrders` | tag matchers overlap in one order of the arguments only (tag_matcher.cc:122, 140) |
| `Values` | `HistogramReturns` | two equal ranges are split forever (histogram.cc:63-119) |
| `Values` | `JoinedValuesAreFound` | joined tag sets hash differently from their parts (match_clause.cc:99) |
| `Values` | `CloseWritesAll`, `EndIsSeen` | closing a compressing stream does not repeat a short write (gzip_stream.cc:283-300); `at_end` looks once (:178) |
| `Values` | `KeepIsKept`, `ClausesArePrinted` | a `keep` in a text is dropped, and one that is missing is read (ast.cc:62); an operator is printed without its clause (operators.cc:197) |
| `Values` | `SelectorsParse` | a selector whose name starts with `inf`, `nan`, `true` or `false` is printed as it is and does not parse (intf/rules.h:160; expression.h:242: "The yielded expression is parsable") |

For a definition that the module's configuration does not list, replace its
invariants and properties by the one named here.

### Bounds

* `Wal`: transaction objects are used once (`fresh`). 2 ids; `wal_process`
  starts from a file one of whose ids is used up (`VisitedSpec`), so that two
  transactions exhaust them. At most 2 records in a transaction (`MaxRecords`:
  the resize and the write that fills what it added); 4 cells to a slot, so
  that one such transaction fills it and a second one forces a compaction, and
  6 in `wal_returns`, so that two transactions log and then commit in the
  opposite order, which replay must follow (`RecoveryAgrees`); files of 0 or 1
  byte, enough to shrink, grow, write and compact; sequence numbers modulo 4,
  where two adjacent numbers are still ordered and every run wraps.
* `ReplacementMap`: 4 offsets hold two regions with a gap between, before and
  after; 2 bytes tell which write a byte came from; 2 handles are the fewest
  that can be prepared together.
* `TxFile`: files of up to 2 bytes, so that a request can meet two layers; 3
  transactions, so that a reader sees two commits in either order.
* `Sequence`: batches of 2, numbers modulo 7: three batches, which leave one
  number unused before they wrap.
* `TxLocks`: 3 threads; a circle of two is what nested mutexes produce first,
  and a third one is there to share a mutex or to wait for it.
* `Aio`: 2 writes of 3 bytes, which can be short twice, and a flush.
* `MCValues`: integers of 4 bits, all of them, and fractions at and beyond
  their limits; histograms of three ranges over four points, which overlap in
  every way; tag sets over two names; matchers of up to three parts and paths
  of up to four; columns of two values of every type and width, and of eight
  truth values, where presence bits fill a byte; two blocks over three times in
  every overlap; three collections in every order; streams with buffers of two
  or three bytes, up to five bytes of data in every division, and any one or
  two calls cut short; trees of up to three levels with every operator over
  every kind of operand, numbers at the limits of their types among them.
* `Merger`: scripts of up to four emissions at times up to 4, slack 1, so that
  a time is interpolated from its neighbours or out of their reach.
* `TsData`: three pushes at three times in any order (before, at and after the
  range so far), two emissions that share and contradict names, one crash.
* `DirHistory`: up to three files over times 1 to 4, which overlap, touch, nest
  or are apart; minutes of three instants and two suffixes, so that names run
  out; two openings.

Symmetry is over interchangeable objects, threads and bytes, and is not used
with liveness. `CHECK_DEADLOCK FALSE` is in the runs where a program ends:
single-use transaction objects run out, an `aio` object is gone, a file has
had its pushes, a history its openings, a pipe is closed.

### Fairness

`Wal!FairSpec`: a thread inside a call, or a recovery, takes its next step
(`WF` of the appends and compactions together, and of recovery): it runs code
that waits for nothing but the file. Clients need not call anything.
`Aio!FairSpec`: the program goes on, and the system finishes some operation as
long as one is in progress. `Merger!Spec`: streams are filled and end
(`WF(Feed)`, which a collector that stops also does), a call that is not waiting
goes on (`WF(Work)`), and the reader, between calls that may look without
taking, takes again and again what there is (`SF(Take)`).

## 4. What is proved

`WalProofs`, for any number of transactions, ids, log cells, bytes and sequence
numbers, and any environment, from the assumptions in `Wal` and `FileData`:

* `TypeCorrect`: `Spec => []TypeOK`. `TypeInv` adds to `TypeOK` what a step
  needs to know of the call in progress: the record it is to write, the slot
  copy it has made and its length, so that no offset leaves the slot.
* `IdsAreDistinct`: `Spec => []IdsDistinct`. `IdsInv` adds that ids of
  transactions in progress are the true entries of `tx_id_states_`, that
  available ids are below its length and false, and that a compaction trims
  only false entries. The rollback that interleaves with `compact_` keeps this,
  although it breaks atomicity.
* `HeadersStayAdjacent`: `Spec => []HeadersAdjacent`. `HeadersInv` relates
  `curSeq` with both headers, as read and as durable, at each step of
  `compact_` and of a recovery; a crash may pick either value of a header, and
  every choice is again a pair of adjacent numbers.

The second part of `WalProofs`, for the same constants, is about the log, its
replay and crashes. Its theorems have hypotheses, which leave out uses for which the
property is false; section 3 has a counterexample for each.

* `TheLogMatches`: `Spec => []LogMatchesTx`, if transactions do not roll back
  beside another's call (`Rollbacks => ~MultiThreaded`: the slot that `compact_`
  has copied would keep the records of an id that is given out again).
* `ReadersSeeTheLog`: `Spec => []RecoveryAgrees`, if clients besides write every
  byte they add (`FillOnGrow`: a byte that nobody wrote is zero after replay, and
  possibly an older one in the file).
* `TheLogEnds`: `Spec => []LogEnds`, `TheSlotsAgree`: `Spec =>
  []SlotsEquivalent` (without rollbacks), and `ImplementsCommittedFile`: `Spec
  => CommitsAreAtomic`, from `Sound`: besides the above, no crash while recovery
  starts its segment, no crash of the system after one of the process, and no
  rollbacks with crashes of the system. The refinement maps `file` to `View`,
  what readers see or recovery is about to replay, and `inflight` to the update
  of the commit in progress; a commit that enters is `Ask`, `CommitDone` is
  `Succeed`, a commit without room is `Fail`, a crash is `Succeed` or `Fail` by
  whether the commit record survives it, and all else stutters.

None of these is inductive. The proof has four invariants, each on the ones
before it:

1. `LogInv`, the log and the transactions: no record in the log is of an id that
   may be given out again, committed ids are not in progress, and the slot that
   `compact_` prepares, some steps before it is the current one, is already of
   the transactions in progress then.
2. `ReplayInv`, replay and readers: the slot with the newest header gives
   `View`, or in the last step of a commit what `View` will be (`CommitView`).
   `ReadyInv` says what makes `compact_`'s new header harmless: `repl_` was
   written and is empty, and the new slot has no commit record.
3. `DurableInv`, what is flushed by when: all of the file before a marker or a
   header is written; the end marker at `slot_off_`; the header of the last
   compaction before the next one copies anything, which holds because a
   compaction without a finished transaction does nothing, and finishing one is
   a commit, which flushes. A rollback finishes one without a flush, and that is
   the first counterexample of section 3.
4. `SurviveInv`, crashes: *every* file that a crash could leave, any mix of
   flushed and unflushed cells, recovers to `View` (or, in the last step of a
   commit, to `CommitView`). A step is shown to keep this by giving, for each
   file that could be left after it, one that could have been left before it
   with the same replay: cells after the end marker do not matter
   (`SurviveInvWriteBody`), a marker or a header over a flushed file is there or
   not (`MarkerSurvivors`, `SurviveInvHeader`), and bytes that are written into
   the file are those that readers saw over it (`WriteSurvivors`).

The lemmas on logs say what a record, a commit record and a copy do to a replay
(`AppendedRecord`, `AppendedCommit`, `CopiedLog`) and that what follows the end
marker is not read (`SameLog`). The hypothesis on both kinds of crash came out
of the proof: the invariant failed at the step where a recovery writes into the
file what it read from a log that nobody had flushed.

`TxLocksProofs`, for any number of threads, from the assumptions in `TxLocks`:

* `NoCircle`: `Spec => []NoDeadlock`, if `begin` takes its id from the sequencer
  and not from a `sequence`; `LogIsOwned`: `Spec => []LogIsProtected`, if `begin`
  finds an id without a compaction; `OrderIsKept`: `Spec => []LockOrder` and
  `TypeCorrect`, for all operations.

A program is a list of steps, and `Leads(p, h, g)` says that the steps `p` can be
taken by a thread that has locked `h` and leave it with `g`. Each piece that
operations are built from has a lemma of this form, so that composing programs
composes lemmas. `LocksInv` says that what each thread has left to do leads from
what it has locked to nothing; a lock that a step waits for comes after those
the thread has, in the order number, log, file, alloc, sequencer, so that in a
set of waiting threads one that waits for the last mutex waits for nobody in it.

`ReplacementMapProofs`, for maps of any length, any bytes and any number of
handles, from the assumptions in `ReplacementMap` and `~FillAnywhere` (a write
that does not overwrite begins at or after the first region; otherwise the
theorems are false, see section 3). They hold of builds with assertions and
without (`Assertions`): the write that fails replacement_map.cc:234 does not
return in the former, and changes nothing; in the latter it fills the gaps.

* `RegionsStayApart`: `Spec => []NoOverlap`.
* `ReadsGiveTheBytes`: `Spec => []ReadsAgree`.
* `ImplementsByteMap`: `Spec => IsByteMap`, that is, initial states and steps of
  the map are initial states and steps (or stutters) of `ByteMap` under the
  mapping of `map` to the byte at each offset.
* `RegionsAreTyped`: `Spec => []TypeOK`.

That regions are apart is not inductive: what a commit inserts was computed on
an earlier map. `ApartInv` adds for each write in preparation that it is still
`Prepared` for the present map (what it erases is there, what it inserts is
apart and clear of the rest) and that it still `Means` its request (after the
commit, each offset has the byte the request says or the one it had). Both hold
when a write is prepared (`OverwriteIsPrepared`, `OverwriteMeans`,
`FillIsPrepared`, `FillMeans`), and a commit by another handle keeps them,
because handles in use together only fill gaps within ranges that are apart
(`PendingApart`, `OtherFill`). The lemmas on regions (what the front, the back
and a part of one are; `OverwrittenMeet`, `GapsAreApart`, `GapAround`) carry the
arithmetic.

`TxFileProofs`, for any transactions, size of the file and bytes, from the
assumptions in `TxFile`:

* `ReadsAreOfTheSnapshot`: `Spec => []SnapshotReads`, if every write has one byte
  and no transaction shrinks the file. Both hypotheses leave out a way in which
  the code does not keep a snapshot (section 3: the loop at wal.cc:730 with
  longer writes, the dropped bytes with files that shrink); the theorem needs
  none on moves, nor on objects that end early, because it speaks of the
  transactions whose record is still in the list.
* `NoUndoIsKeptInVain`: `Spec => []UndoIsNeeded`, for all uses.
* `ValidIsLinked`: `Spec => []ReadersLinked`, if no moved-from object ends
  early (`~EarlyEnd`; otherwise tx_sequencer.h:78 in section 3).

The last two rest on `ListInv`: each record is in the list once, is of a
transaction that was made, and has committed when it is in `sealed`; no valid
object shares its record with another valid one; and the list begins with a
record that has not committed (`Fronted`), which is `UndoIsNeeded` in its
inductive form. `ReadInv` adds what a read finds. `Snapshots` says for each valid
transaction and byte that the first undo map from its record on that has the
byte, or else the contents after the last sequenced commit, has the snapshot's
byte. `Applied` says how those contents are in the region: they are its bytes,
and between the two steps of a commit, those of the undo map that is yet to be
put in the list. `Sized` says why truncation to a new size drops nothing: the
only transaction that resizes is larger than the file, and writes are below the
size their transaction sees. The list lemmas say what an erasure with its
maintenance leaves in which order (`DestroyLeaves`, `CommitLeaves`), as a part of
the list given by a monotone map (`Sublist`), and that a part which keeps the
committed records from a position on reads the same there (`SublistReads`). The
lemmas on maps of single bytes say what the operators compute, the fold over a
transaction's writes (`MergedIs`) and the loop that saves what they replace
(`SavedIs`) among them.

`SequenceProofs`, for any batch size, any range of numbers and any set of
objects, from the assumptions in `Sequence` and `OneAtATime` (with two objects
at one offset the theorems are false: `sequence_two`):

* `NumbersFollow`: `Spec => NumbersIncrease`.
* `NumbersAreUnique`: `Spec => [](TypeOK /\ UniqueNumbers)`.

`SequenceInv` says why: the stored number is the next one after those reserved
(`StoredIsNext`); the open object's batch is the last of the reserved numbers
(`Batches`); every number that was returned comes before that batch
(`ReturnedBefore`). A crash or a close loses the batch and so keeps this; a move
takes the batch along and leaves none behind. The places of the numbers are
counted from the first one, and `ModSmall` to `PlaceOfNth` carry the arithmetic
of numbers that wrap; the bound on reservations in `CommitSucceeds` stands for
the 2^64 numbers the code has.

`AioProofs`, for any number of writes and flushes of any length, from the
assumptions in `Aio`:

* `ThrowsAreQuiet`: `Spec => []ThrowsWhenQuiet`. `QuietInv`: what runs has a
  block in the vector until the end (`RunningKept`), so that cancelling and
  waiting meet all of it, and an object has thrown with no block left.
* `CompleteWritesAreDurable`: `Spec => []CompleteIsDurable`, if there is a flush.
  `FlushInv` adds that, as long as nothing is cancelled, blocks leave the vector
  only when their operations are complete (`WritesLeave`, `FlushesLeave`); that a
  flush waits for every running write that was never short (`WaitsForAll`); and
  that once it is done only short writes still run (`RestartedOnly`), so that a
  complete write that was never short is on disk (`OnDisk`). With a short write
  the conclusion is false, which is why the property excludes them: its rest may
  be written after the flush, and to the wrong place (section 3).

`DirHistoryProofs`, for any keys, any directory of files whose headers bound the
times of their records, any readers (range, interval, slack) and any pushes, from
the assumptions in `DirHistory`:

* `RecordsStayAlways`: `Spec => RecordsStay`.
* `InOrderAlways`: `Spec => []EmittedInOrder`.
* `SoundAlways`: `Spec => []EmissionsSound`.
* `CompleteAlways`: `Spec => []ReadersComplete`.

The inductive invariant `Inv` is the directory's (`DiskInv`: finitely many files
whose records lie within their headers' times, none after `now`; `HistInv`:
what the open history does not have is empty) and, of a reader, `ReaderInv`. Its
parts are stated for any files, reader and output, so that a step of the reader
is a lemma without the rest of the state, and a push is one lemma for all of
them: the files a reader has only grow at their ends (`FilesGrow`).

* *Order.* `After(files, src, t)` says that whatever a source still has, in open
  files or closed ones, comes after `t`. It holds of each time that a pulled
  reader has emitted or read ahead (`OrderInv`, `AheadInv`), because a file stays
  closed only if it begins after the front (`WaitOpens`). The points of `emit`
  move on, by the interval or to the next record, and never beyond the end
  (`NextPoint`). Batches of a pushed reader cover ranges without a common time
  (`BatchesApart`), because cuts never go back (`CutsGrow`).
* *Completeness.* A record that is owed has been emitted or is `Pending`: in a
  closed file, an open one, the queue, or a batch to come that has its file and
  its time. What a step takes out of one place it puts in the next
  (`OpensKeeps`, `ReadAhead`, `PointTakenIs`, `BatchesCover`); with an interval,
  no point is passed over (`GridStep`: two points of a grid are a whole interval
  apart). A reader that closes has nothing pending.
* *Soundness.* What is stamped or ahead was recorded (`StampsInv`, `AheadInv`),
  stamps before the point and the queue after it, so that an interpolation is
  between two records; and the time of the history covers what lies between two
  records of its files (`HistoryCovers`).

A reader that takes the front of an empty queue ends `undefined` in the model,
and is part of the theorems up to there. `Inv` was checked by TLC on the
instance of run `history`, with `Nat` bounded, before it was proved.

`MergerProofs`, for any number of arguments of either kind, any slack and any
calls; the assumptions in `Merger` only say of what kind the constants are:

* `SinksStaySound`: `Spec => [](StreamsAreOrderly => SinksAreSound)`.
* `FactsStayFinal`: `Spec => [](StreamsAreOrderly /\ Waits => FactsAreFinal)`.

What the streams say is not decided in merger.cc, and not every stream is
harmless. `StreamsAreOrderly` asks two things of them. Nothing follows a fact at
or before its time (`Final`): expression.h:97-100 promises it, and `scalar_sink::accept`
asserts it (merger.cc:1690). And guesses meet their facts (`Confirmed`): a fact at
the time of a guess speaks of what was guessed, and one that comes after all that
is buffered finds no older guess there. The code promises the second nowhere;
without it both properties are false, as `LateFact` and `OtherTags` in section 3
show. All pipes of run `merger` are orderly. `Waits` excludes the reader that
never blocks on a pipe with a vector argument, for which the second property is
false (`TryPipes`); for scalars it may call what it likes. The pipe does not
change, so both are conditions on a behaviour, and `IInv` holds in all of it.

The inductive invariant `IInv` knows of every input a cut, the time of the last
fact that was emitted. Of a tag set, `Tracks` relates the sink to the stream as
that tag set hears it (`Hear`): the facts in the buffer are those that were read
after the cut, the guesses are those that nothing has overtaken, and what
interpolation remembers is the last fact up to the cut, unless it is out of reach.
Reading, marking and dropping keep this (`ReadsFact` to `ForwardKeeps`, first for
one tag set, then in `VectorReadsFact` to `VectorForwards` for all of a vector's),
so no emission is refused (`Reads`). `GetIsReference` then says that a factual
value is what the facts of the whole stream give, read or not: its stream has
passed the time (`FactPassed`), so what is still to come is later. For a vector
without entries that needs the call to have waited (`Certain`, `GotIsReference`);
with the choice of the earliest time (`ChosenIs`) it gives `EmitAgrees`, and that
all cuts move to the same time. The binary search is proved to find the first
guess (`SearchFinds`): on the spans of the buffer it is the only function that
satisfies its recursion, by induction over their length. `IInv` was checked by
TLC, on the pipes of run `merger` and on vectors with partial and empty facts,
before it was proved.

Each proof has one step per action; the modules that take extrema of finite sets
of integers (`FiniteMin`, `FiniteMax`) prove first that there are some.

## 5. What is only model-checked

Liveness (`CallsReturn`, `Ends`, `FactsComplete`), which is beyond the prover;
`SnapshotSize`, which holds only without resizes (for writes of more than one
byte and for files that shrink, `SnapshotReads` does not hold either: section 3);
the pure parts, most of whose definitions are folds and recursions over data, in
modules with recursive operators; and `TsData`.

## 6. What is not modelled

* **`lib/tx`**: failing system calls in the WAL (a failing flush of a commit is
  logged and ignored, wal.cc:779), move assignment and swap, allocation failures
  in a `replacement_map`, the destruction of a sequencer that is still in use.
* **`lib/misc`**: `aio` reads, which nobody uses, and its build without
  `<aio.h>`, which `Wal` assumes; byte order; the other wrappers of system calls
  (`fd::open` swallows errors of `fstat`; `positional_reader::at_end` is false
  past the end of a file that has shrunk; the move assignment of a decompressing
  reader forgets `pending_`, gzip_stream.cc:143).
* **History**: compression of v0 and v1 files that are written to (they are
  not), `is_tsdata` on other files, the listings of groups and metrics, caches
  of segments and tables, which hold what was read and cannot change it. Nothing
  writes table files; `Tables` takes them as the readers define them. The
  checks of `owner_write` are inverted (dirhistory.cc:737, 749) and are modelled
  so.
* **Merger**: the push mode (merger.cc:706-822, 1110-1486). Its closed flag is
  never initialised, the time it suggests never refreshed, and a moved-from
  acceptor's destructor follows a null pointer, so that it has no behaviour to
  state. Operators with more than two arguments throw on a mix of scalars and
  vectors.
* **Values**: text forms, calendar times (time_point.cc:89 sets days to hours),
  the caches of names and tags, rounding and range of doubles. Where the code
  departs from its documentation the model follows the code: a product of an
  unsigned and a double subtracts (metric_value.cc:213), the remainder of mixed
  signs (294, 299), signed shifts (345, 405, 415, 432, 444); these operands are
  outside `ArithmeticIsExact`. `operator!` does not negate (804), so that `!=`,
  `<=` and `>=` of expressions and matchers answer what `==`, `>` and `<` do;
  `OverlapIsSound` therefore leaves out the pairs of a `<=` and a `>`, and of a
  `>=` and a `<`, for which `has_overlap` is wrong (section 3).
* **Expressions**: characters and spaces, so also the digits a double loses in
  print, and the names and matchers inside a selector's text. `without` clauses
  are never read: their rule starts with the word `by` (expression/rules.h:144).
* **Others**: the grammar of names and values, beyond what of it an expression
  needs; instrumentation is atomic
  numbers in a tree that static constructors fill; collectors, the interface
  classes, programs and examples keep no state of their own.
