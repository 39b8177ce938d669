--------------------------- MODULE HistoryReader ---------------------------
(***************************************************************************)
(* The readers of dirhistory.cc.  merge_emit_t merges the records of many  *)
(* files by time, opening a file only when the merge reaches its begin;    *)
(* transformation, on top of it, emits the points of a time range; and     *)
(* sink_into_ cuts the time line into batches that are merged separately.  *)
(*                                                                         *)
(* A file is [begin, end, recs]: the two times its header names and its    *)
(* records, a set of [tp, keys, between].  It emits them in the order of   *)
(* their times, so that a queue of records is the set of what is in it and *)
(* its front the record of the least time.  What value a key has does not  *)
(* matter here, only at which time it was recorded: a key with its exact   *)
(* value is in keys, an interpolated one in between, as <<key, time        *)
(* before, time after>>.  An optional time is a set of at most one time.   *)
(***************************************************************************)
EXTENDS Integers, SequencesExt, FiniteSetsExt

InRange(t, tr) == (\A b \in tr.begin : b <= t) /\ (\A e \in tr.end : t <= e)

\* Mutant: a file that ends with the begin of the range is left out.
FilterFilesInside(files, tr) ==
  {f \in DOMAIN files : /\ \A b \in tr.begin : files[f].end > b
                        /\ \A e \in tr.end : files[f].begin < e}

\* The files that intersect the range.
FilterFiles(files, tr) ==
  {f \in DOMAIN files : /\ \A b \in tr.begin : files[f].end >= b
                        /\ \A e \in tr.end : files[f].begin <= e}

\* The range that emit and emit_time ask of a file within a batch.
Clamp(tr, batch) ==
  LET lows == tr.begin \union batch.begin
      highs == tr.end \union batch.end
  IN [begin |-> {b \in lows : \A x \in lows : x <= b},
      end |-> {e \in highs : \A x \in highs : e <= x}]

\* Mutant: the end of the range is not asked for.
EmissionToEnd(file, tr) == {r \in file.recs : \A b \in tr.begin : b <= r.tp}

Emission(file, tr) == {r \in file.recs : InRange(r.tp, tr)}

Times(rs) == {r.tp : r \in rs}

(***************************************************************************)
(* merge_emit_t: a source [unstarted, active].  unstarted are files that   *)
(* are not open yet, active what the open ones have left.                  *)
(***************************************************************************)
NewSource(fs) == [unstarted |-> fs, active |-> {}]

IsPullable(src) == src.unstarted # {} \/ src.active # {}

HeadTime(active) == Min(Times(active))

OpenFiles(files, tr, src, fs) ==
  [unstarted |-> src.unstarted \ fs,
   active |-> src.active \union UNION {Emission(files[f], tr) : f \in fs}]

\* What the open files have left when every file that begins before f is open.
LeftBefore(files, tr, src, f) ==
  OpenFiles(files, tr, src,
            {g \in src.unstarted : files[g].begin < files[f].begin}).active

\* Mutant: a file that begins with the earliest record is opened later.
WaitBefore(files, tr, src) ==
  OpenFiles(files, tr, src,
            {f \in src.unstarted : \A x \in LeftBefore(files, tr, src, f) :
                                      files[f].begin < x.tp})

\* Files are opened, the first to begin first, until one has a record and every
\* file that begins by then is open: a file stays unopened when a record
\* of those before it comes before its begin.
Wait(files, tr, src) ==
  OpenFiles(files, tr, src,
            {f \in src.unstarted : \A x \in LeftBefore(files, tr, src, f) :
                                      files[f].begin <= x.tp})

\* wait found only empty files: its loop goes on with the top of a queue
\* that has run empty.
RunsDry(files, tr, src) == IsPullable(src) /\ Wait(files, tr, src).active = {}

\* read_head_ and merge_matching_elements_: the records of a time, as one.
Merged(rs, t) ==
  [tp |-> t, keys |-> UNION {r.keys : r \in {x \in rs : x.tp = t}}, between |-> {}]

FrontOf(active) == Merged(active, HeadTime(active))

PopFront(src) == [src EXCEPT !.active = {r \in @ : r.tp # HeadTime(@)}]

(***************************************************************************)
(* transformation: the reader of emit.  ahead is its queue of records read *)
(* ahead, stamps the time of the last record of each key, emitTp the next  *)
(* point to emit.                                                          *)
(***************************************************************************)
NewReader(fs, tr, slack) ==
  [src |-> NewSource(fs), tr |-> tr, slack |-> slack, ahead |-> {}, stamps |-> <<>>,
   first |-> TRUE, last |-> FALSE, emitTp |-> 0]

\* create_emit_for_tp's first loop: while its front is not past the limit, the
\* source is read.  It opens files as for wait, but only a record that stays
\* there keeps a file from being opened.
OpenPast(files, tr, src, limit) ==
  OpenFiles(files, tr, src,
            {f \in src.unstarted : \A x \in LeftBefore(files, tr, src, f) :
                                      x.tp <= limit \/ files[f].begin <= x.tp})

ReadFrom(files, r, opened, limit) ==
  LET read == {x \in opened.active : x.tp <= limit}
  IN [src |-> [opened EXCEPT !.active = @ \ read],
      ahead |-> r.ahead \union {Merged(read, t) : t \in Times(read)},
      dry |-> /\ opened.active = read
              /\ \E f \in r.src.unstarted : \A x \in read : x.tp < files[f].begin]

ReadUpTo(files, r) ==
  LET limit == r.emitTp + r.slack
  IN ReadFrom(files, r, OpenPast(files, r.tr, r.src, limit), limit)

\* update_timestamped_map, for records in the order of their times: the last
\* one that has a key leaves its time.
Stamped(stamps, rs) ==
  LET new == UNION {r.keys : r \in rs}
  IN [k \in DOMAIN stamps \union new |->
        IF k \in new THEN Max(Times({r \in rs : k \in r.keys})) ELSE stamps[k]]

\* create_emit_for_tp: records before the point only leave their time
\* behind, and the queue begins with a record of the point.
PointFrom(r, read) ==
  LET past == {x \in read.ahead : x.tp < r.emitTp}
      rest == read.ahead \ past
      found == r.emitTp \in Times(rest)
  IN [reader |-> [r EXCEPT !.src = read.src,
                           !.stamps = Stamped(@, past),
                           !.ahead = IF found THEN rest ELSE rest \union {Merged({}, r.emitTp)}],
      dry |-> read.dry,
      \* the front of an empty queue is compared with the point
      frontOfNone |-> rest = {}]

CreateEmit(files, r) == PointFrom(r, ReadUpTo(files, r))

FirstAhead(ahead) == CHOOSE x \in ahead : x.tp = HeadTime(ahead)

\* interpolate_for: an emission of what can be interpolated, from the last
\* record of a key and its next one in the queue.
InterpolateFor(r) ==
  LET tp == HeadTime(r.ahead)
      Later(k) == Times({x \in r.ahead : tp < x.tp /\ x.tp <= tp + r.slack /\ k \in x.keys})
      known == {k \in DOMAIN r.stamps : r.stamps[k] >= tp - r.slack /\ Later(k) # {}}
  IN [tp |-> tp, keys |-> {}, between |-> {<<k, r.stamps[k], Min(Later(k))>> : k \in known}]

AtEnds(r) == r.emitTp \in r.tr.begin \union r.tr.end

\* The next point: by the interval, or the next record there is.
NextTp(r, waited) ==
  LET next == IF r.tr.interval # {} THEN r.emitTp + Max(r.tr.interval)
              ELSE IF r.ahead # {} THEN HeadTime(r.ahead)
              ELSE IF waited.active # {} THEN HeadTime(waited.active)
              ELSE r.emitTp
  IN Min({next} \union {e \in r.tr.end : next > e})

\* fill_, from the first point on: the emission, and the reader after it.
PointOf(c) == IF AtEnds(c) THEN InterpolateFor(c) ELSE FirstAhead(c.ahead)
PointTaken(c) ==
  [c EXCEPT !.stamps = Stamped(@, {FirstAhead(c.ahead)}), !.ahead = @ \ {FirstAhead(c.ahead)}]
Filled(made, c, waited) ==
  LET asks == c.tr.interval = {} /\ c.ahead = {}
  IN [out |-> PointOf(made.reader),
      reader |-> [c EXCEPT !.emitTp = NextTp(c, waited),
                           !.src = IF asks THEN waited ELSE @,
                           !.last = c.emitTp \in c.tr.end],
      dry |-> made.dry \/ (asks /\ IsPullable(c.src) /\ waited.active = {}),
      frontOfNone |-> made.frontOfNone]
FillFrom(files, made, c) == Filled(made, c, Wait(files, c.tr, c.src))
Refill(files, made) == FillFrom(files, made, PointTaken(made.reader))
Fill(files, r) == Refill(files, CreateEmit(files, r))

\* fill_'s first emission: at the begin of the range, or at the first record.
Starts(files, r) ==
  LET w == Wait(files, r.tr, r.src)
  IN IF ~r.first THEN r
     ELSE [r EXCEPT !.first = FALSE, !.src = w,
                    !.emitTp = IF r.tr.begin # {} THEN Max(r.tr.begin)
                               ELSE HeadTime(w.active)]

(***************************************************************************)
(* sink_into_: the batches in which the files are pushed to an acceptor.   *)
(* Each is the set of its files and the times it covers.  list is the      *)
(* files in the order of their begins, files that begin together in any    *)
(* order, and turn i of the loop stands on the i-th of them.               *)
(***************************************************************************)
ByBegin(files, fs) ==
  {list \in SetToSeqs(fs) : \A i, j \in DOMAIN list :
      i < j => files[list[i]].begin <= files[list[j]].begin}

\* The end of a batch is clamped to the ends of the files it meets: those
\* which begin before the end, as clamped by the files before them.
EarliestEnd(files, list, i, j) == Min({files[list[k]].end : k \in i .. j})
Reach(files, list, i) ==
  Max({j \in i .. Len(list) : \A k \in i + 1 .. j :
         files[list[k]].begin <= EarliestEnd(files, list, i, k - 1)})
Cut(files, list, i) == EarliestEnd(files, list, i, Reach(files, list, i))

\* tr_begin, and where the list begins once the files that ended are dropped.
\* (The cuts do not go back: a file that an earlier turn drops is one this
\* turn would drop.)
BatchBegin(files, list, i) == IF i = 1 THEN {} ELSE {Cut(files, list, i - 1) + 1}
FirstLeft(files, list, i) ==
  Min({j \in 1 .. Len(list) : \A b \in BatchBegin(files, list, i) : files[list[j]].end >= b}
        \union {Len(list) + 1})

\* A turn that drops the file the loop stands on goes on with an iterator into
\* a removed element.
Dangles(files, list) == \E i \in DOMAIN list : FirstLeft(files, list, i) > i

\* The batch of a turn, and the one of what is left after the last.
BatchOf(files, list, i) ==
  [files |-> {list[j] : j \in FirstLeft(files, list, i) .. Reach(files, list, i)},
   begin |-> BatchBegin(files, list, i), end |-> {Cut(files, list, i)}]
LastBatch(files, list) ==
  [files |-> {list[j] : j \in FirstLeft(files, list, Len(list)) .. Len(list)},
   begin |-> BatchBegin(files, list, Len(list) + 1), end |-> {}]
Batches(files, list) ==
  IF list = <<>> THEN {}
  ELSE {<<i, BatchOf(files, list, i)>> : i \in DOMAIN list}
         \union {<<Len(list) + 1, LastBatch(files, list)>>}

\* make_batch_: the times of a batch, each once.
BatchTimes(files, tr, batch) ==
  Times(UNION {Emission(files[f], Clamp(tr, batch)) : f \in batch.files})

InOrder(times) ==
  {list \in SetToSeqs(times) : \A i, j \in DOMAIN list : i < j => list[i] < list[j]}

\* What is pushed of a batch.
Pushed(times) == [i \in DOMAIN times |-> [tp |-> times[i], keys |-> {}, between |-> {}]]
=============================================================================
