------------------------------ MODULE Series ------------------------------
(***************************************************************************)
(* Time series as the history files keep them, and the parts that the      *)
(* three encodings share: values, histograms, headers and the v0 record,   *)
(* which has every name written out.                                       *)
(*                                                                         *)
(* An emission maps <<group, metric>> to a value; a time series maps a     *)
(* group to its metrics.  A group is a path with tags; a path is a         *)
(* sequence of words, tags map words to values, and a word is a number.    *)
(* The order in which an unordered container is walked is fixed: nothing   *)
(* here depends on it.                                                     *)
(***************************************************************************)
EXTENDS MetricValue

\* tsdata::make_time_series, and how the files' emit() undoes it.
MakeTimeSeries(tp, emit) ==
    [ts |-> tp,
     data |-> [g \in {k[1] : k \in DOMAIN emit} |->
                  [m \in {k[2] : k \in {l \in DOMAIN emit : l[1] = g}} |-> emit[<<g, m>>]]]]

Group(path, tags) == [path |-> path, tags |-> tags]
EmissionKeys(data) == UNION {{<<g, m>> : m \in DOMAIN data[g]} : g \in DOMAIN data}

\* A cast to std::int64_t, and what metric_value(std::int64_t) makes of one.
ToSigned(n) == IF n > SignedMax THEN n - 2^Bits ELSE n
AsInt(v) == IF v.t = "unsigned" THEN [k |-> "int", n |-> ToSigned(v.q[1])]
            ELSE [k |-> "int", n |-> v.q[1]]

\* A histogram is written as ranges with their counts, and read by adding them up.
EncodeHistogram(h) ==
    [i \in DOMAIN h |-> <<h[i].low, h[i].high, h[i].density * (h[i].high - h[i].low)>>]
DecodeHistogram(es) ==
    FoldLeft(LAMBDA h, e : HistAdd(h, Elem(e[1], e[2], e[3] \div (e[2] - e[1]))), << >>, es)

\* A collection is a length and its elements.
ListOf(f, Put(_, _)) == LET ks == SetToSeq(DOMAIN f) IN [i \in DOMAIN ks |-> Put(ks[i], f[ks[i]])]
MapOf(es, Key(_), Val(_)) ==
    [k \in {Key(es[i]) : i \in DOMAIN es} |-> Val(es[CHOOSE i \in DOMAIN es : Key(es[i]) = k])]

\* The v0 encoding of a value: a string is written where it is used.
PutValueV0(v) == CASE v.t \in Integral -> AsInt(v)
                   [] v.t = "histogram" -> [k |-> "hist", es |-> EncodeHistogram(v.h)]
                   [] OTHER -> [k |-> "as is", v |-> v]
GetValueV0(w) == CASE w.k = "int" -> IntOf(w.n)
                   [] w.k = "hist" -> Hist(DecodeHistogram(w.es))
                   [] OTHER -> w.v

PutTagsV0(tags) == ListOf(tags, LAMBDA k, v : <<k, PutValueV0(v)>>)
GetTagsV0(es) == MapOf(es, LAMBDA e : e[1], LAMBDA e : GetValueV0(e[2]))
PutMetricsV0(ms) == ListOf(ms, LAMBDA m, v : <<m, PutValueV0(v)>>)
GetMetricsV0(es) == MapOf(es, LAMBDA e : e[1], LAMBDA e : GetValueV0(e[2]))

\* encode_time_series groups by path, then by tags.
EncodeV0(s) ==
    [ts |-> s.ts,
     groups |-> ListOf([p \in {g.path : g \in DOMAIN s.data} |-> {g \in DOMAIN s.data : g.path = p}],
                       LAMBDA p, gs : <<p, ListOf([g \in gs |-> s.data[g]],
                                          LAMBDA g, ms : <<PutTagsV0(g.tags), PutMetricsV0(ms)>>)>>)]
DecodeV0(r) ==
    LET tsvs == FlattenSeq([i \in DOMAIN r.groups |->
                    [j \in DOMAIN r.groups[i][2] |->
                        <<Group(r.groups[i][1], GetTagsV0(r.groups[i][2][j][1])),
                          GetMetricsV0(r.groups[i][2][j][2])>>]])
    IN  [ts |-> r.ts, data |-> MapOf(tsvs, LAMBDA e : e[1], LAMBDA e : e[2])]

\* One table of a dictionary: what it maps to the indices from 0 on, and from
\* where on its entries have not been written yet.
EmptyTable == [vals |-> << >>, start |-> 0]
HoldsValue(t, v) == \E i \in DOMAIN t.vals : t.vals[i] = v
RefOf(t, v) == (CHOOSE i \in DOMAIN t.vals : t.vals[i] = v) - 1
HasRef(t, ref) == ref < Len(t.vals)
At(t, ref) == t.vals[ref + 1]
Pending(t) == t.start < Len(t.vals)
Unwritten(t) == SubSeq(t.vals, t.start + 1, Len(t.vals))
Written(t) == [t EXCEPT !.start = Len(t.vals)]
Enter(t, v) == IF HoldsValue(t, v) THEN t ELSE [t EXCEPT !.vals = Append(@, v)]
EnterAll(t, vs) == FoldLeft(Enter, t, vs)

StringsIn(vs) == LET ss == SelectSeq(vs, LAMBDA v : v.t = "string") IN [i \in DOMAIN ss |-> ss[i].s]
ValuesOf(f) == ListOf(f, LAMBDA k, v : v)
=============================================================================
