------------------------------ MODULE TsData ------------------------------
(***************************************************************************)
(* One history file of version 0, 1 or 2 (a list): push_back with every    *)
(* write and flush it makes, the same failing half-way, a crash that loses *)
(* what was not flushed, opening the file again, and what emit, emit_time, *)
(* read_all and time answer.                                               *)
(*                                                                         *)
(* A v0 or v1 file is a header with the first and last time, and records.  *)
(* A list has a header with a checksum, the file's size, two flags and a   *)
(* pointer to the last record, which points to the one before it: what     *)
(* lies beyond the size does not exist.  The body is a sequence of records *)
(* and a pointer is an index into it; Torn is a record whose writes have   *)
(* not all happened.  The file is new, and new_file has written its first  *)
(* header, or write_all has written it, compressed or not.                 *)
(***************************************************************************)
EXTENDS SeriesV2

CONSTANTS
  Versions,    \* which of 0, 1, 2 are looked at
  Instants,    \* the times series have
  Created,     \* when the file is made
  Exports,     \* the series that write_all may have written a v0 or v1 file of
  Emissions,   \* what they hold
  MaxPushes,   \* how often push_back is called
  Failures,    \* the stages of push_back that may throw: "body", "header"
  MaxCrashes,  \* how often the process or the machine stops
  TornHeader,  \* a list's header may be found half-written
  TornBody     \* the versions whose records may be found half-written

VARIABLES
  version, gzipped,
  file, synced,     \* the file as it is read, and as the disk has it
  is_open, mem,     \* the tsdata object and its copy of the header
  dict,             \* v1's dict_, a sequence of at most one
  job,              \* the push_back that runs
  crashes,
  pushed, returned  \* every series pushed, and those whose push_back returned
vars == <<version, gzipped, file, synced, is_open, mem, dict, job, pushed, returned, crashes>>

Torn == [ts |-> "torn"]
TornHdr == [whole |-> FALSE]
Idle == [at |-> "idle"]

\* new_file and new_list_file, at the time tp.
NewFile(tp) == [first |-> tp, last |-> tp, whole |-> TRUE]
NewListFile(tp) == [first |-> tp, last |-> tp, whole |-> TRUE,
                    sorted |-> TRUE, distinct |-> TRUE, size |-> 0, fdt |-> 0]

-----------------------------------------------------------------------------
\* visit(): the records up to one that cannot be read, decoded in file order.
UpToTorn(body) == LET bad == {i \in DOMAIN body : body[i] = Torn} IN
    IF bad = {} THEN body ELSE SubSeq(body, 1, (CHOOSE i \in bad : \A j \in bad : i <= j) - 1)
VisitThrows(body) == Torn \in ToSet(body)
VisitV0(body) == LET rs == UpToTorn(body) IN [i \in DOMAIN rs |-> DecodeV0(rs[i])]
VisitNextV1(v, r) ==
    IF v.ok /\ IsReadableV1(v.dict, r)
    THEN [v EXCEPT !.dict = DictAfterV1(@, r), !.got = Append(@, DecodeV1(v.dict, r))]
    ELSE [v EXCEPT !.ok = FALSE]
VisitV1(body) == FoldLeft(VisitNextV1, [dict |-> EmptyDictV1, got |-> << >>, ok |-> TRUE], UpToTorn(body)).got

\* fault_dict_(): reads the whole file for its dictionaries.
FaultedDict(body) == IF dict # << >> THEN dict[1] ELSE FoldLeft(DictAfterV1, EmptyDictV1, body)

\* A list is read from its last record back; the chain is given oldest first.
RECURSIVE Chain(_, _)
Chain(body, ptr) == IF ptr = 0 THEN << >>
                    ELSE IF ptr \notin DOMAIN body \/ body[ptr] = Torn THEN <<Torn>>
                    ELSE Append(Chain(body, body[ptr].pred), body[ptr])
\* The dictionary of a chain, and whether its updates can be applied one by one.
DictNext(d, r) == IF r.dict = << >> THEN d ELSE DecodeUpdateV2(d, r.dict[1])
DictOf(rs) == FoldLeft(DictNext, EmptyDictV2, rs)
UpdateNext(v, r) ==
    IF v.ok /\ (r.dict # << >> => UpdateIsReadable(v.dict, r.dict[1]))
    THEN [v EXCEPT !.dict = DictNext(@, r)] ELSE [v EXCEPT !.ok = FALSE]
AllAreKnown(v, rs) == v.ok /\ \A i \in DOMAIN rs : RecordsAreKnown(v.dict, rs[i])
ChainIsReadable(rs) ==
    Torn \notin ToSet(rs) /\ AllAreKnown(FoldLeft(UpdateNext, [dict |-> EmptyDictV2, ok |-> TRUE], rs), rs)

Emission(data) == [k \in EmissionKeys(data) |-> data[k[1]][k[2]]]
Within(tp, b, e) == b <= tp /\ tp <= e

\* emit() of v0 and v1: one emission for each record within the range.
EmitOfVisit(ss, b, e) == LET in == SelectSeq(ss, LAMBDA s : Within(s.ts, b, e))
                         IN  [i \in DOMAIN in |-> <<in[i].ts, Emission(in[i].data)>>]

\* std::stable_sort by descending time, which unsorted files get.
Descending(rs) == LET ix == SortSeq([i \in DOMAIN rs |-> i],
                                    LAMBDA i, j : rs[i].ts > rs[j].ts \/ (rs[i].ts = rs[j].ts /\ i < j))
                  IN  [i \in DOMAIN rs |-> rs[ix[i]]]
ListOrder(rs, hdr) == IF hdr.sorted THEN rs ELSE Descending(rs)

\* Records of one time become one emission; a later record's value replaces
\* the earlier one's (insert_or_assign).
\* A slip: emplace, as where the language is older than C++17.
FirstWins(em, more) == em @@ more
LaterWins(em, more) == more @@ em
Combined(es) ==
    FoldLeft(LAMBDA acc, e :
        IF acc # << >> /\ Last(acc)[1] = e[1]
        THEN [acc EXCEPT ![Len(acc)] = <<e[1], LaterWins(@[2], e[2])>>]
        ELSE Append(acc, e), << >>, es)
EmissionsOf(d, rs) == [i \in DOMAIN rs |-> <<rs[i].ts, RecordEmission(d, rs[i])>>]
CombinedUnlessDistinct(es, hdr) == IF hdr.distinct THEN es ELSE Combined(es)
EmitOfList(rs, hdr, b, e) ==
    CombinedUnlessDistinct(
        EmissionsOf(DictOf(rs), ListOrder(SelectSeq(rs, LAMBDA r : Within(r.ts, b, e)), hdr)), hdr)

\* read_all_raw_ of a list: the records newest first, sorted to be descending,
\* walked backwards; neighbours of one time are merged, the newer one winning.
ReadAllRawList(rs, hdr) ==
    CombinedUnlessDistinct(EmissionsOf(DictOf(rs), Reverse(ListOrder(Reverse(rs), hdr))), hdr)
\* tsdata_v2::read_all sorts and merges what read_all_raw_ returns.
Ascending(es) == LET ix == SortSeq([i \in DOMAIN es |-> i],
                                   LAMBDA i, j : es[i][1] < es[j][1] \/ (es[i][1] = es[j][1] /\ i < j))
                 IN  [i \in DOMAIN es |-> es[ix[i]]]
ReadAllV2(es, hdr) == CombinedUnlessDistinct(IF hdr.sorted THEN es ELSE Ascending(es), hdr)

\* emit_time of a list: std::unique moves what it drops to the end, or leaves
\* there what was there, and nothing is erased.
RECURSIVE Deduplicated(_)
Deduplicated(ts) == IF Len(ts) < 2 THEN ts
                    ELSE IF ts[1] = ts[2] THEN Deduplicated(Tail(ts))
                    ELSE <<ts[1]>> \o Deduplicated(Tail(ts))
NotErased(ts) == LET d == Deduplicated(ts) IN [i \in DOMAIN ts |-> IF i \in DOMAIN d THEN d[i] ELSE ts[i]]
EmitTimeOfList(rs, hdr, b, e) ==
    LET in == SelectSeq([i \in DOMAIN rs |-> rs[i].ts], LAMBDA t : Within(t, b, e))
        ts == IF hdr.sorted THEN in ELSE SortSeq(in, LAMBDA x, y : x < y)
    IN  IF hdr.distinct THEN ts ELSE NotErased(ts)

\* What the file answers, by its version.
Records == Chain(file.body, mem.fdt)
VisitAll == IF version = 0 THEN VisitV0(file.body) ELSE VisitV1(file.body)
Emit(b, e) == IF version = 2 THEN EmitOfList(Records, mem, b, e) ELSE EmitOfVisit(VisitAll, b, e)
ReadAll == IF version = 2 THEN ReadAllV2(ReadAllRawList(Records, mem), mem)
           ELSE EmitOfVisit(VisitAll, 0, 9)
TimesOf(es) == [i \in DOMAIN es |-> es[i][1]]
EmitTime(b, e) == IF version = 2 THEN EmitTimeOfList(Records, mem, b, e)
                  ELSE TimesOf(EmitOfVisit(VisitAll, b, e))

-----------------------------------------------------------------------------
\* write_all: sorted by time, encoded one after the other, flushed.
ByTime(ss) == SortSeq(ss, LAMBDA x, y : x.ts < y.ts)
EncodeNextV1(enc, body) == [dict |-> enc.dict, body |-> Append(body, enc.rec)]
EncodeAllV1(ss) == FoldLeft(LAMBDA acc, s : EncodeNextV1(EncodeV1(acc.dict, s), acc.body),
                            [dict |-> EmptyDictV1, body |-> << >>], ss).body
WriteAllV0(ss) == LET in == ByTime(ss) IN
    [hdr |-> [first |-> in[1].ts, last |-> Last(in).ts, whole |-> TRUE],
     body |-> [i \in DOMAIN in |-> EncodeV0(in[i])]]
WriteAllV1(ss) == LET in == ByTime(ss) IN
    [hdr |-> [first |-> in[1].ts, last |-> Last(in).ts, whole |-> TRUE],
     body |-> EncodeAllV1(in)]

InitNew == /\ gzipped = FALSE /\ pushed = << >>
           /\ file = [hdr |-> IF version = 2 THEN NewListFile(Created) ELSE NewFile(Created), body |-> << >>]
InitWritten == /\ version # 2 /\ gzipped \in BOOLEAN
               /\ \E ss \in Exports : /\ pushed = ByTime(ss)
                                     /\ file = IF version = 0 THEN WriteAllV0(ss) ELSE WriteAllV1(ss)
Init == /\ version \in Versions
        /\ InitNew \/ InitWritten
        /\ synced = file /\ is_open = TRUE /\ mem = file.hdr
        /\ crashes = 0 /\ dict = << >> /\ job = Idle /\ returned = pushed

\* Where push_back writes: at the end of the file, or at the end the header names.
Offset == IF version = 2 THEN mem.size ELSE Len(file.body)

\* A compressed file is not written to.  Before the first write, v1 faults its dictionaries and a list reads its own.
PushThrows == \/ gzipped
              \/ version = 1 /\ dict = << >> /\ VisitThrows(file.body)
              \/ version = 2 /\ ~ChainIsReadable(Records)
\* What is written, and what v1's dict_ then is.
NewDict(enc) == [rec |-> enc.rec, dict |-> <<enc.dict>>]
Encoded(s) == CASE version = 0 -> [rec |-> EncodeV0(s), dict |-> dict]
                [] version = 1 -> NewDict(EncodeV1(FaultedDict(file.body), s))
                [] version = 2 -> [rec |-> EncodeTsdata(DictOf(Records), s, mem.fdt), dict |-> dict]

PushFails(s) ==
    /\ is_open /\ job = Idle /\ Len(pushed) < MaxPushes /\ PushThrows
    /\ pushed' = Append(pushed, s)
    /\ UNCHANGED <<version, gzipped, crashes, file, synced, is_open, mem, dict, job, returned>>

\* The first of the writes of a record has happened.
PushBack(s) ==
    /\ is_open /\ job = Idle /\ Len(pushed) < MaxPushes /\ ~PushThrows
    /\ pushed' = Append(pushed, s)
    /\ \E enc \in {Encoded(s)} : /\ job' = [at |-> "body", s |-> s, rec |-> enc.rec, offset |-> Offset]
                                 /\ dict' = enc.dict
    /\ file' = [file EXCEPT !.body = Append(SubSeq(@, 1, Offset), Torn)]
    /\ UNCHANGED <<version, gzipped, crashes, synced, is_open, mem, returned>>

WriteBody ==
    /\ job.at = "body"
    /\ file' = [file EXCEPT !.body[job.offset + 1] = job.rec]
    /\ job' = [job EXCEPT !.at = "flush"]
    /\ UNCHANGED <<version, gzipped, crashes, synced, is_open, mem, dict, pushed, returned>>

\* v0 and v1 extend their range, a list its header (update_hdr).
MinOf(a, b) == IF a < b THEN a ELSE b
MaxOf(a, b) == IF a > b THEN a ELSE b
ExtendRange(hdr, tp) == [hdr EXCEPT !.first = MinOf(@, tp), !.last = MaxOf(@, tp)]
\* A slip: the flags are computed against the range that the push has extended.
UpdateHdrTooLate(hdr, tp, size) ==
    LET h == ExtendRange(hdr, tp) IN
    [h EXCEPT !.sorted = @ /\ tp >= h.last, !.distinct = @ /\ tp >= h.last, !.size = size, !.fdt = size]
UpdateHdr(hdr, tp, size) ==
    [ExtendRange(hdr, tp) EXCEPT !.sorted = @ /\ tp >= hdr.last, !.distinct = @ /\ tp > hdr.last,
                                 !.size = size, !.fdt = size]
NewHeader(tp) == IF version = 2 THEN UpdateHdr(mem, tp, job.offset + 1) ELSE ExtendRange(mem, tp)

Finish == job' = Idle /\ returned' = Append(returned, job.s)

\* fsync; then a header is written if it is not the same: the first of its
\* writes has happened.
FlushBody ==
    /\ job.at = "flush"
    /\ synced' = file
    /\ mem' = NewHeader(job.s.ts)
    /\ IF version # 2 /\ mem' = mem
       THEN Finish /\ UNCHANGED file
       ELSE /\ job' = [job EXCEPT !.at = "header"]
            /\ file' = [file EXCEPT !.hdr = IF version # 2 THEN [@ EXCEPT !.first = mem'.first]
                                            ELSE IF TornHeader THEN TornHdr ELSE @]
            /\ UNCHANGED returned
    /\ UNCHANGED <<version, gzipped, crashes, is_open, dict, pushed>>

WriteHeader ==
    /\ job.at = "header"
    /\ file' = [file EXCEPT !.hdr = mem]
    /\ job' = [job EXCEPT !.at = "flush header"]
    /\ UNCHANGED <<version, gzipped, crashes, synced, is_open, mem, dict, pushed, returned>>

\* A slip: push_back returns without the second flush.
ReturnUnflushed ==
    /\ job.at = "flush header"
    /\ Finish
    /\ UNCHANGED <<version, gzipped, crashes, file, synced, is_open, mem, dict, pushed>>
FlushHeader ==
    /\ job.at = "flush header"
    /\ synced' = file
    /\ Finish
    /\ UNCHANGED <<version, gzipped, crashes, file, is_open, mem, dict, pushed>>

\* A write or a flush throws: v0 and v1 drop their dictionaries and truncate the
\* file; the copy of the header stays as it is.
Stage == IF job.at \in {"body", "flush"} THEN "body" ELSE "header"
\* A slip: the dictionaries are not dropped.
FailKeepsDict ==
    /\ job # Idle /\ Stage \in Failures
    /\ job' = Idle
    /\ file' = IF version = 2 THEN file ELSE [file EXCEPT !.body = SubSeq(@, 1, job.offset)]
    /\ UNCHANGED <<version, gzipped, crashes, synced, is_open, mem, dict, pushed, returned>>
Fail ==
    /\ job # Idle /\ Stage \in Failures
    /\ job' = Idle
    /\ dict' = << >>
    /\ file' = IF version = 2 THEN file ELSE [file EXCEPT !.body = SubSeq(@, 1, job.offset)]
    /\ UNCHANGED <<version, gzipped, crashes, synced, is_open, mem, pushed, returned>>

-----------------------------------------------------------------------------
WithoutTorn(body) == IF version \in TornBody THEN body ELSE SelectSeq(body, LAMBDA r : r # Torn)
\* The process or the machine stops: what was not flushed is in the file or not.
Crash ==
    /\ is_open /\ crashes < MaxCrashes
    /\ crashes' = crashes + 1
    /\ is_open' = FALSE /\ job' = Idle /\ dict' = << >> /\ mem' = TornHdr
    /\ \E body \in {WithoutTorn(file.body), synced.body}, hdr \in {file.hdr, synced.hdr} :
          file' = [hdr |-> hdr, body |-> body]
    /\ synced' = file'
    /\ UNCHANGED <<version, gzipped, pushed, returned>>

\* tsdata::open: a list's header must have its checksum.
Open == /\ ~is_open /\ file.hdr.whole
        /\ is_open' = TRUE /\ mem' = file.hdr
        /\ UNCHANGED <<version, gzipped, crashes, file, synced, dict, job, pushed, returned>>

Next == \/ \E tp \in Instants, em \in Emissions : LET s == MakeTimeSeries(tp, em) IN PushBack(s) \/ PushFails(s)
        \/ WriteBody \/ FlushBody \/ WriteHeader \/ FlushHeader \/ Fail
        \/ Crash \/ Open

Spec == Init /\ [][Next]_vars
=============================================================================
