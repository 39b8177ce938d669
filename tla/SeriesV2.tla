----------------------------- MODULE SeriesV2 -----------------------------
(***************************************************************************)
(* The v2 dictionary and the record of a list file.                        *)
(*                                                                         *)
(* The words of paths, the keys of tags and the strings that values are    *)
(* share one table, sdd; pdd has the paths of groups and metrics, tdd the  *)
(* tags, both in terms of the indices of sdd.  A record names the segments *)
(* it is made of; here it holds what they hold.                            *)
(***************************************************************************)
EXTENDS SeriesV1

EmptyDictV2 == [sdd |-> EmptyTable, pdd |-> EmptyTable, tdd |-> EmptyTable]
UpdatePendingV2(d) == \E f \in DOMAIN d : Pending(d[f])

\* An unsigned that is no signed is written as a double.
UnsignedAsDouble(v) == v.t = "unsigned" /\ v.q[1] >= SignedMax
PutValueV2(v, sdd) == IF UnsignedAsDouble(v) THEN [k |-> "as is", v |-> [v EXCEPT !.t = "fp"]]
                      ELSE PutValueV1(v, sdd)
GetValueV2(w, sdd) == CASE w.k = "int" -> IntOf(w.n)
                        [] w.k = "ref" -> Str(At(sdd, w.ref))
                        [] w.k = "hist" -> Hist(DecodeHistogram(w.es))
                        [] OTHER -> w.v

\* operator[] of the three tables: the entry at an index, and the index of a
\* value, which enters what is missing.
Word(d, ref) == At(d.sdd, ref)
EnterWord(d, w) == [d EXCEPT !.sdd = Enter(@, w)]
EnterWords(d, ws) == FoldLeft(EnterWord, d, ws)
PathRefs(d, p) == [i \in DOMAIN p |-> RefOf(d.sdd, p[i])]
PathAt(d, ref) == [i \in DOMAIN At(d.pdd, ref) |-> Word(d, At(d.pdd, ref)[i])]
EnterPath(d, p) == LET e == EnterWords(d, p) IN [e EXCEPT !.pdd = Enter(@, PathRefs(e, p))]
PathRef(d, p) == RefOf(d.pdd, PathRefs(d, p))
TagData(d, tags) == [r \in {RefOf(d.sdd, k) : k \in DOMAIN tags} |-> tags[Word(d, r)]]
TagsAt(d, ref) == MapOf(ListOf(At(d.tdd, ref), LAMBDA k, v : <<Word(d, k), v>>),
                        LAMBDA e : e[1], LAMBDA e : e[2])
EnterTags(d, tags) == LET e == EnterWords(d, SetToSeq(DOMAIN tags))
                      IN  [e EXCEPT !.tdd = Enter(@, TagData(e, tags))]
TagsRef(d, tags) == RefOf(d.tdd, TagData(d, tags))

\* encode_update and decode_update: where the new entries start, and what they are.
PutWords(d) == [offset |-> d.sdd.start, vals |-> Unwritten(d.sdd)]
PutPaths(d) == [offset |-> d.pdd.start, vals |-> Unwritten(d.pdd)]
PutTagDatas(d, sdd) ==
    LET new == Unwritten(d.tdd) IN
    [offset |-> d.tdd.start, vals |-> [i \in DOMAIN new |-> ListOf(new[i], LAMBDA k, v : <<k, PutValueV2(v, sdd)>>)]]
Contiguous(t, u) == u.offset = Len(t.vals)
GetWords(d, u) == [d EXCEPT !.sdd = Written([@ EXCEPT !.vals = @ \o u.vals])]
GetPaths(d, u) == [d EXCEPT !.pdd = Written([@ EXCEPT !.vals = @ \o u.vals])]
GetTagDatas(d, u) ==
    [d EXCEPT !.tdd = Written([@ EXCEPT !.vals = @ \o [i \in DOMAIN u.vals |->
        MapOf(u.vals[i], LAMBDA e : e[1], LAMBDA e : GetValueV2(e[2], d.sdd))]])]

\* The paths and tags are encoded first, since that may enter words, and written last.
EncodeUpdateV2(d) ==
    LET e == EnterTagStrings(d) IN
    [words |-> PutWords(e), paths |-> PutPaths(e), tags |-> PutTagDatas(e, e.sdd)]
UpdateIsReadable(d, u) ==
    LET e == GetWords(d, u.words) IN
    /\ Contiguous(d.sdd, u.words) /\ Contiguous(d.pdd, u.paths) /\ Contiguous(d.tdd, u.tags)
    /\ \A i \in DOMAIN u.tags.vals : \A j \in DOMAIN u.tags.vals[i] :
           ValueIsKnown(u.tags.vals[i][j][2], e.sdd)
DecodeUpdateV2(d, u) == GetTagDatas(GetPaths(GetWords(d, u.words), u.paths), u.tags)

\* encode_record_metrics and encode_record_array: what they enter, what they write.
EnterMetrics(d, ms) ==
    FoldLeft(LAMBDA acc, m : [EnterPath(acc, m) EXCEPT !.sdd = EnterAll(@, StringsIn(<<ms[m]>>))],
             d, SetToSeq(DOMAIN ms))
EnterRecords(d, data) ==
    FoldLeft(LAMBDA acc, g : EnterMetrics(EnterTags(EnterPath(acc, g.path), g.tags), data[g]),
             d, SetToSeq(DOMAIN data))
PutRecordMetrics(d, ms) == ListOf(ms, LAMBDA m, v : <<PathRef(d, m), PutValueV2(v, d.sdd)>>)
PutRecordArray(d, data) ==
    ListOf([p \in {g.path : g \in DOMAIN data} |-> {g \in DOMAIN data : g.path = p}],
           LAMBDA p, gs : <<PathRef(d, p),
               ListOf([g \in gs |-> data[g]], LAMBDA g, ms : <<TagsRef(d, g.tags), PutRecordMetrics(d, ms)>>)>>)

\* encode_tsdata: the records, the dictionary's update if there is one, and the
\* record that names them and its predecessor.
EncodeTsdata(d, s, pred) ==
    LET e == EnterRecords(d, s.data) IN
    [ts |-> s.ts, pred |-> pred,
     dict |-> IF UpdatePendingV2(e) THEN <<EncodeUpdateV2(e)>> ELSE << >>,
     records |-> PutRecordArray(e, s.data)]

\* record_array::decode sorts the groups by their indices and drops repeated
\* ones; record_metrics::decode keeps the metrics as they come.
RecordArray(r) ==
    LET all == UNION {{<<r.records[i][1], e[1], e[2]>> : e \in ToSet(r.records[i][2])} : i \in DOMAIN r.records}
    IN  {CHOOSE x \in all : <<x[1], x[2]>> = refs : refs \in {<<y[1], y[2]>> : y \in all}}
RecordsAreKnown(d, r) ==
    \A x \in RecordArray(r) :
        /\ HasRef(d.pdd, x[1]) /\ HasRef(d.tdd, x[2])
        /\ \A m \in ToSet(x[3]) : HasRef(d.pdd, m[1]) /\ ValueIsKnown(m[2], d.sdd)

\* What one record adds to an emission, and the same as the groups of a series.
RecordEmission(d, r) ==
    LET all == UNION {{<<Group(PathAt(d, x[1]), TagsAt(d, x[2])), PathAt(d, m[1]), GetValueV2(m[2], d.sdd)>>
                        : m \in ToSet(x[3])} : x \in RecordArray(r)}
    IN  [k \in {<<e[1], e[2]>> : e \in all} |-> (CHOOSE e \in all : e[1] = k[1] /\ e[2] = k[2])[3]]
=============================================================================
