------------------------------- MODULE Tables -------------------------------
(***************************************************************************)
(* The table files of tsdata v2: blocks of timestamps, and for every       *)
(* metric of a group a table of its values over these timestamps, kept as  *)
(* one column per type with the indices at which it has a value.           *)
(*                                                                         *)
(* An optional value is a set of at most one value.  The integer columns   *)
(* have Bits - 2, Bits - 1 and Bits bits, and a counter of a bitset counts *)
(* to RunMax, as the widths 16, 32, 64 and 15 of the code go up.           *)
(***************************************************************************)
EXTENDS SeriesV2, FiniteSetsExt

RunMax == 2^(Bits - 2) - 1

\* The numbers of a set in order.
RECURSIVE InOrder(_)
InOrder(S) == IF S = {} THEN << >> ELSE <<Min(S)>> \o InOrder(S \ {Min(S)})

\* bitset: the lengths of its runs, TRUE first; a long run is cut, with an
\* empty run of the other kind in between.
Leading(bits, b) == Min({i \in DOMAIN bits : bits[i] # b} \cup {Len(bits) + 1}) - 1
\* A slip: a cut run goes on as a run of the other kind.
ChunksUnseparated(n) == IF n > RunMax THEN <<RunMax, n - RunMax>> ELSE <<n>>
RECURSIVE Chunks(_)
Chunks(n) == IF n > RunMax THEN <<RunMax, 0>> \o Chunks(n - RunMax) ELSE <<n>>
RECURSIVE PutBits(_, _)
PutBits(bits, current) ==
    IF bits = << >> THEN << >>
    ELSE LET n == Leading(bits, current)
         IN  Chunks(n) \o PutBits(SubSeq(bits, n + 1, Len(bits)), ~current)
Total(runs) == FoldLeft(+, 0, runs)
TrueBits(runs) ==
    UNION {Total(SubSeq(runs, 1, k - 1)) + 1 .. Total(SubSeq(runs, 1, k)) : k \in {j \in DOMAIN runs : j % 2 = 1}}

\* timestamp_delta.  The lower bound of a difference is written as an
\* unsigned literal with a minus, which is that literal again.
DeltaLow == (-(SignedMax + 1)) % (2 * (SignedMax + 1))
DeltasOf(ts) == [i \in 1 .. Len(ts) - 1 |-> ts[i + 1] - ts[i]]
TimesRefused(ts) ==
    ts = << >> \/ \E d \in ToSet(DeltasOf(ts)) : d > SignedMax \/ d < DeltaLow
PutTimes(ts) == [first |-> ts[1], deltas |-> DeltasOf(ts)]
GetTimes(w) == FoldLeft(LAMBDA ts, d : Append(ts, ts[Len(ts)] + d), <<w.first>>, w.deltas)

\* mt_enc: the column of a value, and what it holds of it.
Columns == {"bool", "int16", "int32", "int64", "double", "string", "histogram", "empty", "other"}
Width == [int16 |-> Bits - 2, int32 |-> Bits - 1, int64 |-> Bits]
FitsWidth(v, w) == v.q[1] >= -(2^(w - 1)) /\ v.q[1] <= 2^(w - 1) - 1
ColumnOf(v) ==
    CASE v.t \in Integral -> IF FitsWidth(v, Width.int16) THEN "int16"
                             ELSE IF FitsWidth(v, Width.int32) THEN "int32"
                             ELSE IF FitsWidth(v, Width.int64) THEN "int64" ELSE "double"
      [] v.t = "fp" -> "double"
      [] OTHER -> v.t

Narrow(n, w) == ((n + 2^(w - 1)) % 2^w) - 2^(w - 1)
PutIn(c, v, sdd) ==
    CASE c \in DOMAIN Width -> Narrow(v.q[1], Width[c])
      [] c = "double" -> [v EXCEPT !.t = "fp"]
      [] c = "string" -> RefOf(sdd, v.s)
      [] c = "histogram" -> EncodeHistogram(v.h)
      [] c = "bool" -> v.b
      [] OTHER -> PutValueV2(v, sdd)
GetFrom(c, w, sdd) ==
    CASE c \in DOMAIN Width -> IntOf(w)
      [] c = "string" -> Str(At(sdd, w))
      [] c = "histogram" -> Hist(DecodeHistogram(w))
      [] c = "other" -> GetValueV2(w, sdd)
      [] OTHER -> w

\* metric_table::encode: the strings it enters, and the columns.
EnterTable(vs, sdd) ==
    EnterAll(sdd, StringsIn(FlattenSeq([i \in DOMAIN vs |-> SetToSeq(vs[i])])))
InColumn(vs, c) == [i \in DOMAIN vs |-> \E v \in vs[i] : ColumnOf(v) = c]
TrueIndices(bits) == InOrder({i \in DOMAIN bits : bits[i]})
PutTable(vs, sdd) ==
    [c \in Columns |->
        LET at == TrueIndices(InColumn(vs, c))
            vals == [k \in DOMAIN at |-> PutIn(c, CHOOSE v \in vs[at[k]] : TRUE, sdd)]
        IN  [presence |-> PutBits(InColumn(vs, c), TRUE),
             vals |-> CASE c = "bool" -> PutBits(vals, TRUE)
                        [] c = "empty" -> << >>
                        [] OTHER -> vals]]

\* metric_table::decode: the k-th value of a column goes where its k-th bit
\* is set.  A table is the set of its <<index, value>>.
GetColumn(c, w, sdd) ==
    LET at == InOrder(TrueBits(w.presence))
        bools == TrueBits(w.vals)
        n == CASE c = "bool" -> Min({Len(at), Total(w.vals)})
               [] c = "empty" -> Len(at)
               [] OTHER -> Min({Len(at), Len(w.vals)})
    IN  {<<at[k], CASE c = "bool" -> Bool(k \in bools)
                    [] c = "empty" -> None
                    [] OTHER -> GetFrom(c, w.vals[k], sdd)>> : k \in 1 .. n}
GetTable(w, sdd) == UNION {GetColumn(c, w[c], sdd) : c \in Columns}

\* group_table and tables: sorted by their indices, a repeated one dropped.
Unrepeated(es) ==
    LET refs == SetToSortSeq({e[1] : e \in ToSet(es)}, LAMBDA x, y : x[1] < y[1] \/ (x[1] = y[1] /\ x[2] < y[2]))
    IN  [i \in DOMAIN refs |-> CHOOSE e \in ToSet(es) : e[1] = refs[i]]
GetGroups(w) ==
    Unrepeated(FlattenSeq([i \in DOMAIN w |-> [j \in DOMAIN w[i][2] |->
                   <<<<w[i][1], w[i][2][j][1]>>, w[i][2][j][2]>>]]))
GetMetrics(gt) == Unrepeated([i \in DOMAIN gt.metrics |-> <<<<gt.metrics[i][1], 0>>, gt.metrics[i][2]>>])

GroupName(d, key) == Group(PathAt(d, key[1]), TagsAt(d, key[2]))

\* A block's groups as [name, presence, metrics], its metrics as <<name, table>>.
GetBlock(b) ==
    {[name |-> GroupName(b.dict, g[1]), presence |-> TrueBits(g[2].presence),
      metrics |-> {<<PathAt(b.dict, m[1][1]), GetTable(m[2], b.dict.sdd)>> : m \in ToSet(GetMetrics(g[2]))}]
        : g \in ToSet(GetGroups(b.tables))}

-----------------------------------------------------------------------------
\* read_all_raw_: a time series for every timestamp of every block.
SeriesAt(groups, ts, i) ==
    LET here == {g \in groups : i \in g.presence}
        Metrics(g) ==
            LET held == UNION {{<<m[1], e[2]>> : e \in {x \in m[2] : x[1] = i}} : m \in g.metrics}
            IN  [p \in {h[1] : h \in held} |-> (CHOOSE h \in held : h[1] = p)[2]]
    IN  [ts |-> ts[i],
         data |-> [n \in {g.name : g \in here} |-> Metrics(CHOOSE g \in here : g.name = n)]]
ReadAllRaw(file) ==
    FlattenSeq([k \in DOMAIN file.blocks |->
        LET b == file.blocks[k]  ts == GetTimes(b.times)  groups == GetBlock(b)
        IN  [i \in DOMAIN ts |-> SeriesAt(groups, ts, i)]])

\* emit_type_merge: the value that is there stays.
EmitTypeMerge(x, y) == [x EXCEPT !.map = @ @@ y.map]

\* objpipe's merge_combine: the first elements in order, equal ones as one.
RECURSIVE MergeCombine(_)
MergeCombine(pipes) ==
    LET live == SelectSeq(pipes, LAMBDA p : p # << >>)
        tp == Min({live[i][1].tp : i \in DOMAIN live})
        firsts == FlattenSeq([i \in DOMAIN live |-> SubSeq(live[i], 1, IF live[i][1].tp = tp THEN 1 ELSE 0)])
        rests == [i \in DOMAIN live |-> IF live[i][1].tp = tp THEN Tail(live[i]) ELSE live[i]]
    IN  IF live = << >> THEN << >>
        ELSE <<FoldLeft(EmitTypeMerge, firsts[1], Tail(firsts))>> \o MergeCombine(rests)
RECURSIVE Merge(_)
Merge(pipes) ==
    LET live == SelectSeq(pipes, LAMBDA p : p # << >>)
        i == CHOOSE j \in DOMAIN live : \A k \in DOMAIN live : live[j][1].tp <= live[k][1].tp
    IN  IF live = << >> THEN << >>
        ELSE <<live[i][1]>> \o Merge([live EXCEPT ![i] = Tail(@)])

WithinRange(t, tr) == (\A b \in tr.begin : b <= t) /\ (\A e \in tr.end : t <= e)

\* emit_fdtblock_pipe and emit_fdtblock: one column, and the columns of the
\* groups and metrics that the filters take.
EmitColumn(ts, name, table, tr) ==
    LET held == {e \in table : e[1] <= Len(ts) /\ WithinRange(ts[e[1]], tr)}
        at == InOrder({e[1] : e \in held})
    IN  [k \in DOMAIN at |-> [tp |-> ts[at[k]], map |-> name :> (CHOOSE e \in held : e[1] = at[k])[2]]]
EmitBlock(b, tr, gs, ms) ==
    LET ts == GetTimes(b.times)
        groups == {g \in GetBlock(b) : g.name \in gs}
        pipes == UNION {{EmitColumn(ts, <<g.name, m[1]>>, m[2], tr) : m \in {x \in g.metrics : x[1] \in ms}}
                          : g \in groups}
    IN  MergeCombine(SetToSeq(pipes))

\* A slip: blocks in order are taken one by one, also where they share a time.
JoinSortedBlocks(file, pipes) ==
    IF file.sorted THEN FlattenSeq(pipes) ELSE MergeCombine(pipes)
\* How the blocks of a file follow each other, by its flags.
JoinBlocks(file, pipes) ==
    IF file.sorted /\ file.distinct THEN FlattenSeq(pipes)
    ELSE IF file.distinct THEN Merge(pipes)
    ELSE MergeCombine(pipes)

EmitTables(file, tr, gs, ms) ==
    JoinBlocks(file, [k \in DOMAIN file.blocks |-> EmitBlock(file.blocks[k], tr, gs, ms)])

\* emit_time: of a block, from the first time not before the begin to the
\* last one not after the end.
BlockTimes(b, tr) ==
    LET ts == SelectSeq(GetTimes(b.times), LAMBDA t : WithinRange(t, tr))
    IN  [i \in DOMAIN ts |-> [tp |-> ts[i], map |-> << >>]]
EmitTablesTime(file, tr) ==
    LET es == JoinBlocks(file, [k \in DOMAIN file.blocks |-> BlockTimes(file.blocks[k], tr)])
    IN  [i \in DOMAIN es |-> es[i].tp]
=============================================================================
