----------------------------- MODULE SeriesV1 -----------------------------
(***************************************************************************)
(* The v1 record: the names of a series are indices into dictionaries that *)
(* the records build up together.  A record has the entries which those    *)
(* before it lack.                                                         *)
(*                                                                         *)
(* The dictionaries: sdd of the strings that values are, gdd of groups'    *)
(* paths, mdd of metrics' names, tdd of tags.  Only a string is shared:    *)
(* the words of a path and the keys of tags are written out.  An index is  *)
(* never changed once given, so a record is written with the dictionaries  *)
(* as they are when all its names have been entered.                       *)
(***************************************************************************)
EXTENDS Series

EmptyDictV1 == [sdd |-> EmptyTable, gdd |-> EmptyTable, mdd |-> EmptyTable, tdd |-> EmptyTable]
UpdatePendingV1(d) == \E f \in DOMAIN d : Pending(d[f])

PutValueV1(v, sdd) == IF v.t = "string" THEN [k |-> "ref", ref |-> RefOf(sdd, v.s)] ELSE PutValueV0(v)
GetValueV1(w, sdd) == IF w.k = "ref" THEN Str(At(sdd, w.ref)) ELSE GetValueV0(w)
ValueIsKnown(w, sdd) == w.k = "ref" => HasRef(sdd, w.ref)

PutTagsV1(tags, sdd) == ListOf(tags, LAMBDA k, v : <<k, PutValueV1(v, sdd)>>)
GetTagsV1(es, sdd) == MapOf(es, LAMBDA e : e[1], LAMBDA e : GetValueV1(e[2], sdd))

\* dictionary<T>::encode_update writes each entry with its index, and
\* decode_update puts it there, with what is left out default-constructed.
PutEntries(t) == LET new == Unwritten(t) IN [i \in DOMAIN new |-> <<t.start + i - 1, new[i]>>]
NoString == 0
PutAt(vals, i, v, default) == [j \in 1 .. (IF i > Len(vals) THEN i ELSE Len(vals)) |->
                        IF j = i THEN v ELSE IF j <= Len(vals) THEN vals[j] ELSE default]
GetEntries(t, es, default) ==
    Written([t EXCEPT !.vals = FoldLeft(LAMBDA vals, e : PutAt(vals, e[1] + 1, e[2], default), @, es)])

\* Every name of a series gets its index: groups, tags, metrics and strings.
EnterTsvV1(d, g, ms) ==
    [sdd |-> EnterAll(d.sdd, StringsIn(ValuesOf(ms))),
     gdd |-> Enter(d.gdd, g.path),
     mdd |-> EnterAll(d.mdd, ListOf(ms, LAMBDA m, v : m)),
     tdd |-> Enter(d.tdd, g.tags)]
EnterSeriesV1(d, s) ==
    LET gs == SetToSeq(DOMAIN s.data) IN FoldLeft(LAMBDA acc, g : EnterTsvV1(acc, g, s.data[g]), d, gs)

PutTsvV1(d, g, ms) ==
    [group |-> RefOf(d.gdd, g.path), tags |-> RefOf(d.tdd, g.tags),
     metrics |-> ListOf(ms, LAMBDA m, v : <<RefOf(d.mdd, m), PutValueV1(v, d.sdd)>>)]
GetTsvV1(d, e) ==
    <<Group(At(d.gdd, e.group), At(d.tdd, e.tags)),
      MapOf(e.metrics, LAMBDA m : At(d.mdd, m[1]), LAMBDA m : GetValueV1(m[2], d.sdd))>>
TsvIsKnown(d, e) ==
    /\ HasRef(d.gdd, e.group) /\ HasRef(d.tdd, e.tags)
    /\ \A i \in DOMAIN e.metrics : HasRef(d.mdd, e.metrics[i][1]) /\ ValueIsKnown(e.metrics[i][2], d.sdd)

\* The tags are encoded first, since that may enter strings, and written last.
EnterTagStrings(d) ==
    [d EXCEPT !.sdd = FoldLeft(LAMBDA t, tags : EnterAll(t, StringsIn(ValuesOf(tags))), @, Unwritten(d.tdd))]
PutTagEntries(es, sdd) == [i \in DOMAIN es |-> <<es[i][1], PutTagsV1(es[i][2], sdd)>>]
PutUpdate(sdd, e) == [sdd |-> PutEntries(sdd), gdd |-> PutEntries(e.gdd), mdd |-> PutEntries(e.mdd),
                      tdd |-> PutTagEntries(PutEntries(e.tdd), e.sdd)]
\* A slip: the strings are written before the tags have been encoded.
UpdateBeforeTagsV1(d) == PutUpdate(d.sdd, EnterTagStrings(d))
EncodeUpdateV1(d) == LET e == EnterTagStrings(d) IN PutUpdate(e.sdd, e)
AfterUpdateV1(d) == LET e == EnterTagStrings(d) IN [f \in DOMAIN e |-> Written(e[f])]
GetTagEntries(es, sdd) == [i \in DOMAIN es |-> <<es[i][1], GetTagsV1(es[i][2], sdd)>>]
DecodeUpdateV1(d, u) ==
    LET sdd == GetEntries(d.sdd, u.sdd, NoString) IN
    [sdd |-> sdd,
     gdd |-> GetEntries(d.gdd, u.gdd, << >>),
     mdd |-> GetEntries(d.mdd, u.mdd, << >>),
     tdd |-> GetEntries(d.tdd, GetTagEntries(u.tdd, sdd), << >>)]

\* encode_time_series: what it writes, and the dictionaries it leaves.
EncodeWith(e, s) ==
    [rec |-> [ts |-> s.ts,
              update |-> IF UpdatePendingV1(e) THEN <<EncodeUpdateV1(e)>> ELSE << >>,
              tsvs |-> ListOf(s.data, LAMBDA g, ms : PutTsvV1(e, g, ms))],
     dict |-> IF UpdatePendingV1(e) THEN AfterUpdateV1(e) ELSE e]
EncodeV1(d, s) == EncodeWith(EnterSeriesV1(d, s), s)

\* decode_time_series: the dictionaries it leaves, whether it throws, what it returns.
DictAfterV1(d, r) == IF r.update = << >> THEN d ELSE DecodeUpdateV1(d, r.update[1])
TagsAreKnown(d, u) ==
    \A i \in DOMAIN u.tdd : \A j \in DOMAIN u.tdd[i][2] :
        ValueIsKnown(u.tdd[i][2][j][2], GetEntries(d.sdd, u.sdd, NoString))
IsReadableV1(d, r) ==
    /\ r.update # << >> => TagsAreKnown(d, r.update[1])
    /\ \A i \in DOMAIN r.tsvs : TsvIsKnown(DictAfterV1(d, r), r.tsvs[i])
DecodeWith(e, r) ==
    LET tsvs == [i \in DOMAIN r.tsvs |-> GetTsvV1(e, r.tsvs[i])]
    IN  [ts |-> r.ts, data |-> MapOf(tsvs, LAMBDA x : x[1], LAMBDA x : x[2])]
DecodeV1(d, r) == DecodeWith(DictAfterV1(d, r), r)
=============================================================================
