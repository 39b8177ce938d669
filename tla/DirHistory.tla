----------------------------- MODULE DirHistory -----------------------------
(***************************************************************************)
(* dirhistory.cc: a directory of tsdata files as one history.  The         *)
(* constructor opens every tsdata file of the directory and picks the one  *)
(* to write to; a push starts a new list file when there is none; readers  *)
(* and pushes of the program are interleaved, call by call (the class has  *)
(* no lock).                                                               *)
(***************************************************************************)
EXTENDS HistoryReader

CONSTANTS
  Keys,        \* the keys that are recorded
  Disks,       \* the directories a program may find
  Pushes,      \* the sets of keys a pushed record may have
  Readers,     \* the readers a program makes: [kind, tr, slack]
  PerMinute,   \* instants in a minute, the resolution of file names
  SuffixTries,    \* the suffixes tried for a name that exists: 0 .. 99
  DirOwner,    \* the owner of the directory may write it
  MaxTime,     \* bound: no record is pushed later
  MaxOpens     \* bound on the times the directory is opened

Record == [tp : Nat, keys : SUBSET Keys, between : {{}}]

\* A file: its header names the first and the last time of its records.
File ==
  {f \in [begin : Nat, end : Nat, recs : SUBSET Record, valid : BOOLEAN, owner : BOOLEAN] :
     /\ f.begin <= f.end
     /\ IsFiniteSet(f.recs)
     /\ \A x \in f.recs : f.begin <= x.tp /\ x.tp <= f.end
     /\ ~f.valid => f.recs = {}}

OptionalTime == {S \in SUBSET Nat : \A t, u \in S : t = u}

ASSUME HistoryAssumption ==
  /\ DirOwner \in BOOLEAN
  /\ PerMinute \in Nat \ {0} /\ SuffixTries \in Nat /\ MaxTime \in Nat /\ MaxOpens \in Nat

ASSUME DisksAssumption ==
  \A d \in Disks : IsFiniteSet(DOMAIN d) /\ d \in [DOMAIN d -> File]

ASSUME PushesAssumption == Pushes \subseteq SUBSET Keys

ASSUME ReadersAssumption ==
  \A q \in Readers :
    /\ q.kind \in {"emit", "time", "push"} /\ q.slack \in Nat
    /\ q.tr \in [begin : OptionalTime, end : OptionalTime, interval : OptionalTime]
    /\ 0 \notin q.tr.interval

VARIABLES
  disk,       \* the files of the directory by name: [begin, end, recs, valid, owner]
  opens,      \* how often it was opened
  hist,       \* the object: [up, writable, files, writeFile]
  now,        \* the time of the last record
  reader,     \* the one reader, and what was there when it was made
  out         \* what the reader emitted

vars == <<disk, opens, hist, now, reader, out>>

Closed == [up |-> FALSE, writable |-> FALSE, files |-> {}, writeFile |-> {}]

NoReader == [status |-> "none"]

Init ==
  /\ disk \in Disks
  /\ opens = 0
  /\ hist = Closed
  /\ now = Max({0} \union {disk[n].end : n \in DOMAIN disk})
  /\ reader = NoReader
  /\ out = <<>>

\* The files of the object, as the readers see them.
Files == [n \in hist.files |-> disk[n]]

-----------------------------------------------------------------------------
(***************************************************************************)
(* The constructor.                                                        *)
(***************************************************************************)
\* A file is opened for writing when its owner may not write it: the test
\* of its permissions is inverted, as is that of the directory's.
ReadWrite(n, write) == write /\ ~disk[n].owner

WriteCandidates(write) == {n \in DOMAIN disk : ReadWrite(n, write)}

\* The constructor throws for a directory it does not take as writable, and
\* for a file without a whole header.
Open(write) ==
  /\ ~hist.up /\ opens < MaxOpens
  /\ opens' = opens + 1
  /\ IF (write /\ DirOwner) \/ \E n \in DOMAIN disk : ~disk[n].valid
     THEN UNCHANGED hist
     ELSE \E w \in {c \in SUBSET WriteCandidates(write) :
                      /\ Cardinality(c) <= 1
                      /\ c = {} => WriteCandidates(write) = {}
                      /\ \A n \in c, m \in WriteCandidates(write) :
                           disk[m].begin <= disk[n].begin} :
            hist' = [up |-> TRUE, writable |-> write, files |-> DOMAIN disk, writeFile |-> w]
  /\ UNCHANGED <<disk, now, reader, out>>

\* The program ends, with its readers.
Close ==
  /\ hist.up
  /\ hist' = Closed
  /\ reader' = NoReader
  /\ out' = <<>>
  /\ UNCHANGED <<disk, opens, now>>

\* Someone removes the empty files that keep the directory from opening.
CleanUp ==
  /\ ~hist.up
  /\ \E n \in DOMAIN disk : ~disk[n].valid
  /\ disk' = [n \in {m \in DOMAIN disk : disk[m].valid} |-> disk[n]]
  /\ UNCHANGED <<opens, hist, now, reader, out>>

-----------------------------------------------------------------------------
(***************************************************************************)
(* do_push_back_.                                                          *)
(***************************************************************************)
decide_fname_(tp) == <<tp \div PerMinute, -1>>

Exists(n) == n \in DOMAIN disk

\* Mutant: the suffixed names are not tried until one is free.
FirstSuffix(tp) == <<decide_fname_(tp)[1], 0>>

\* io::fd::create of the name, then again of the same name, which fails,
\* then of the suffixed names.  The first file stays behind, empty, unless
\* no suffix is free.
FreshName(tp) ==
  LET base == decide_fname_(tp)
      free == {i \in 0 .. SuffixTries - 1 : ~Exists(<<base[1], i>>)}
  IN IF free = {} THEN base ELSE <<base[1], Min(free)>>

EmptyFile == [begin |-> 0, end |-> 0, recs |-> {}, valid |-> FALSE, owner |-> TRUE]
NewListFile(tp) == [begin |-> tp, end |-> tp, recs |-> {}, valid |-> TRUE, owner |-> TRUE]

\* tsdata::push_back: the record and the times of the file's header.
Appended(f, r) ==
  [f EXCEPT !.recs = @ \union {r}, !.begin = Min({@, r.tp}), !.end = Max({@, r.tp})]

\* The directory with a new file.
With(d, n, f) == [m \in DOMAIN d \union {n} |-> IF m = n THEN f ELSE d[m]]

\* A record for the file that is being written.
PushBack(r) ==
  /\ hist.up /\ hist.writable /\ hist.writeFile # {}
  /\ \E w \in hist.writeFile : disk' = [disk EXCEPT ![w] = Appended(@, r)]
  /\ UNCHANGED hist

\* maybe_start_new_file_, and the record for the new file.
StartAndPush(r) ==
  LET base == decide_fname_(r.tp)
      name == FreshName(r.tp)
  IN /\ hist.up /\ hist.writable /\ hist.writeFile = {}
     /\ ~Exists(base)
     /\ disk' = With(With(disk, base, EmptyFile), name, Appended(NewListFile(r.tp), r))
     /\ hist' = [hist EXCEPT !.files = @ \union {name}, !.writeFile = {name}]

\* The header of the new file cannot be written: it is unlinked, and the
\* push throws.
StartFails(r) ==
  LET base == decide_fname_(r.tp)
      name == FreshName(r.tp)
  IN /\ hist.up /\ hist.writable /\ hist.writeFile = {}
     /\ ~Exists(base)
     /\ disk' = IF name = base THEN disk ELSE With(disk, base, EmptyFile)
     /\ UNCHANGED hist

\* The name of the minute exists already: the first create throws.
PushThrows(r) ==
  /\ hist.up
  /\ ~hist.writable \/ (hist.writeFile = {} /\ Exists(decide_fname_(r.tp)))
  /\ UNCHANGED <<disk, hist>>

Push ==
  /\ now < MaxTime
  /\ \E tp \in now + 1 .. MaxTime, ks \in Pushes :
       LET r == [tp |-> tp, keys |-> ks, between |-> {}]
       IN /\ now' = tp
          /\ PushBack(r) \/ StartAndPush(r) \/ StartFails(r) \/ PushThrows(r)
  /\ UNCHANGED <<opens, reader, out>>

\* time(): from the first begin to the last end of the files.
HistoryTime ==
  IF hist.files = {} THEN [begin |-> {now}, end |-> {now}]
  ELSE [begin |-> {Min({disk[n].begin : n \in hist.files})},
        end |-> {Max({disk[n].end : n \in hist.files})}]

-----------------------------------------------------------------------------
(***************************************************************************)
(* emit and emit_time.  A reader [status, kind, r, due]: due is what the   *)
(* directory held when it was made, for the properties.  A push reader has *)
(* its batches to deliver instead of r.                                    *)
(***************************************************************************)
Recorded == UNION {disk[n].recs : n \in DOMAIN disk}

MakeReader(q) ==
  /\ hist.up /\ reader.status = "none"
  /\ q \in Readers
  /\ reader' = [status |-> "open", kind |-> q.kind, batches |-> {},
                r |-> NewReader(FilterFiles(Files, q.tr), q.tr, q.slack),
                due |-> Recorded]
  /\ out' = <<>>
  /\ UNCHANGED <<disk, opens, hist, now>>

Reads(kind) == reader.status = "open" /\ reader.kind = kind

Leaves(status) == reader' = [reader EXCEPT !.status = status] /\ UNCHANGED out

\* emit_time: merge_emit_t on its own.
PullTime ==
  /\ Reads("time")
  /\ LET src == reader.r.src
         w == Wait(Files, reader.r.tr, src)
     IN \/ ~IsPullable(src) /\ Leaves("closed")
        \/ RunsDry(Files, reader.r.tr, src) /\ Leaves("undefined")
        \/ /\ w.active # {}
           /\ out' = Append(out, FrontOf(w.active))
           /\ reader' = [reader EXCEPT !.r.src = PopFront(w)]
  /\ UNCHANGED <<disk, opens, hist, now>>

\* emit: the transformation.
NothingLeft(r) == r.last \/ (r.ahead = {} /\ ~IsPullable(r.src))
AsksSource(r) == ~r.last /\ r.ahead = {}

PullEmit ==
  /\ Reads("emit")
  /\ LET r == reader.r
     IN \/ NothingLeft(r) /\ Leaves("closed")
        \/ AsksSource(r) /\ RunsDry(Files, r.tr, r.src) /\ Leaves("undefined")
        \/ /\ ~NothingLeft(r)
           /\ AsksSource(r) => ~RunsDry(Files, r.tr, r.src)
           /\ \E s \in {Starts(Files, r)} :
                IF \E e \in s.tr.end : s.emitTp > e
                THEN Leaves("closed")
                ELSE \E f \in {Fill(Files, s)} :
                       \/ (f.dry \/ f.frontOfNone) /\ Leaves("undefined")
                       \/ /\ ~f.dry
                          /\ out' = Append(out, f.out)
                          /\ reader' = [reader EXCEPT !.r = f.reader]
  /\ UNCHANGED <<disk, opens, hist, now>>

\* emit_time into an acceptor: the batches are made by one task,
SinkInto ==
  /\ Reads("push")
  /\ \E list \in ByBegin(Files, reader.r.src.unstarted) :
        \/ Dangles(Files, list) /\ Leaves("undefined")
        \/ /\ ~Dangles(Files, list)
           /\ reader' = [reader EXCEPT !.status = "batches", !.batches = Batches(Files, list)]
           /\ UNCHANGED out
  /\ UNCHANGED <<disk, opens, hist, now>>

\* and each is merged and pushed by a task of its own, in order.
EmitBatch ==
  /\ reader.status = "batches"
  /\ \/ reader.batches = {} /\ Leaves("closed")
     \/ \E b \in reader.batches :
          /\ \E times \in InOrder(BatchTimes(Files, reader.r.tr, b[2])) :
               out' = out \o Pushed(times)
          /\ reader' = [reader EXCEPT !.batches = @ \ {b}]
  /\ UNCHANGED <<disk, opens, hist, now>>

-----------------------------------------------------------------------------
Next ==
  \/ \E write \in BOOLEAN : Open(write)
  \/ Close
  \/ CleanUp
  \/ Push
  \/ \E q \in Readers : MakeReader(q)
  \/ PullTime
  \/ PullEmit
  \/ SinkInto
  \/ EmitBatch

Spec == Init /\ [][Next]_vars

-----------------------------------------------------------------------------
Tr == reader.r.tr

\* A record the reader owes: within the range, for emit strictly, since
\* what is emitted for the ends is interpolated, and for an interval one of
\* its points.
Owed(tp) ==
  /\ InRange(tp, Tr)
  /\ reader.kind = "emit" => {tp} \intersect (Tr.begin \union Tr.end) = {}
  /\ \A i \in Tr.interval : out # <<>> => (tp - out[1].tp) % i = 0

\* A reader that came to its end has emitted every record that was in the
\* directory when it was made, with all its keys, however the files overlap,
\* whenever they are opened, and whatever is pushed meanwhile.
ReadersComplete ==
  reader.status = "closed" =>
    \A x \in reader.due : Owed(x.tp) =>
      \E i \in DOMAIN out : /\ out[i].tp = x.tp
                            /\ reader.kind = "emit" => x.keys \subseteq out[i].keys

\* What is pulled comes in time order, and no time comes twice, also not
\* from two batches.
EmittedInOrder ==
  reader.status # "none" =>
    \A i, j \in DOMAIN out : i < j =>
      IF reader.kind = "push" THEN out[i].tp # out[j].tp ELSE out[i].tp < out[j].tp

\* Every emission lies in the range, and one that holds something in the time
\* the history says it covers; its values were recorded: exact ones at its
\* time, interpolated ones around it.
EmissionsSound ==
  reader.status # "none" =>
    \A i \in DOMAIN out :
      /\ InRange(out[i].tp, Tr)
      /\ InRange(out[i].tp, HistoryTime) \/ out[i].keys \union out[i].between = {}
      /\ \A k \in out[i].keys : \E x \in Recorded : x.tp = out[i].tp /\ k \in x.keys
      /\ \A b \in out[i].between :
           /\ b[2] < out[i].tp /\ out[i].tp < b[3]
           /\ \A t \in {b[2], b[3]} : \E x \in Recorded : x.tp = t /\ b[1] \in x.keys
      /\ reader.kind # "emit" => \E x \in Recorded : x.tp = out[i].tp

\* No record of a file gets lost.
RecordsKept ==
  \A n \in DOMAIN disk : disk[n].recs # {} =>
    /\ n \in DOMAIN disk'
    /\ disk[n].recs \subseteq disk'[n].recs

\* No record ever leaves the directory: a new file never replaces one that
\* is there, whatever minute it is named for, and pushes only append.
RecordsStay == [][RecordsKept]_vars
=============================================================================
