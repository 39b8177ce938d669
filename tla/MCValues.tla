----------------------------- MODULE MCValues -----------------------------
(***************************************************************************)
(* The pure parts of monsoon on bounded inputs: a state is one input, and  *)
(* each property compares what the operators answer with a definition that *)
(* knows nothing of how they compute it.                                   *)
(***************************************************************************)
EXTENDS BuildTask, Tables, Streams, Expressions

VARIABLE in

Ints == {IntOf(n) : n \in SignedMin .. UnsignedMax}
Fracs == {Fp(n, 2) : n \in {-17, -3, -2, -1, 0, 1, 3, 16, 31, 33}}
Hists == {Hist(<< >>), Hist(<<Elem(0, 1, 1)>>), Hist(<<Elem(0, 2, 1)>>)}
SomeValues == Ints \cup Fracs \cup {None, Bool(TRUE), Bool(FALSE), Str(1), Str(2)} \cup Hists

Elems == {Elem(lo, hi, d) : lo \in 0 .. 3, hi \in 1 .. 4, d \in 1 .. 2}
RawHists == {<<x, y, z>> : x, y, z \in {e \in Elems : e.low < e.high}}

TagValues == {IntOf(-1), IntOf(1), Fp(2, 2), Str(1)}
SomeTags == UNION {[ks -> TagValues] : ks \in SUBSET {1, 2}}
Clauses == {By(ns, keep) : ns \in SUBSET {1, 2}, keep \in {"selected", "common", "left", "right"}}
             \cup {Without(ns) : ns \in SUBSET {1, 2}} \cup {DefaultClause}

PushOps == {"w", "d", "a", "b"}
PushAll(ops) == FoldLeft(LAMBDA pm, o : CASE o = "w" -> PushWildcard(pm)
                                          [] o = "d" -> PushDouble(pm)
                                          [] OTHER -> PushLiteral(pm, o), << >>, ops)
Paths == UNION {[1 .. n -> {"a", "b"}] : n \in 0 .. 4}
PathMatchers == {PushAll(ops) : ops \in UNION {[1 .. n -> PushOps] : n \in 0 .. 3}}

Checks == {Presence(1), Absence(1)}
            \cup {Comparison(1, op, v) : op \in Comparisons, v \in {IntOf(1), IntOf(2), Str(1)}}
MatchedTags == {NoTags} \cup [{1} -> {IntOf(n) : n \in 0 .. 3} \cup {Fp(3, 2), Str(1), Str(2), Bool(TRUE)}]

ColumnValues == {IntOf(n) : n \in {-8, -5, -4, -3, -2, -1, 1, 2, 3, 4, 7, 8, 15}}
                  \cup {Fp(1, 2), None, Bool(TRUE), Bool(FALSE), Str(1), Str(2)} \cup Hists
Held(S) == {{}} \cup {{v} : v \in S}
SomeTables == UNION {[1 .. n -> Held(ColumnValues)] : n \in 1 .. 2}
                \cup [1 .. 8 -> Held({Bool(TRUE), Bool(FALSE)})]

\* A block of the times T, in which one metric of a group has a value at the
\* times A, and one of another group of the same path at the times B.
GroupA == Group(<<1>>, << >>)
GroupB == Group(<<1>>, 1 :> Str(2))
DictOfBlock == EnterTags(EnterTags(EnterPath(EnterPath(EmptyDictV2, <<2, 1>>), <<1>>), NoTags), GroupB.tags)
Values(ts, S, n) == [i \in DOMAIN ts |-> IF ts[i] \in S THEN {IntOf(ts[i] + n)} ELSE {}]
TableOf(d, g, ts, S, n) ==
    <<TagsRef(d, g.tags), [presence |-> PutBits([i \in DOMAIN ts |-> ts[i] \in S], TRUE),
                           metrics |-> <<<<PathRef(d, <<2, 1>>), PutTable(Values(ts, S, n), d.sdd)>>>>]>>
BlockWith(d, ts, A, B) ==
    [times |-> PutTimes(ts), dict |-> d,
     tables |-> <<<<PathRef(d, <<1>>), <<TableOf(d, GroupB, ts, B, 4), TableOf(d, GroupA, ts, A, 0)>>>>>>]
BlockOf(x) == BlockWith(DictOfBlock, InOrder(x[1]), x[2], x[3])
Blocks(Ts) == {<<T, A, B>> \in (SUBSET Ts) \X (SUBSET Ts) \X (SUBSET Ts) :
                   T # {} /\ A \subseteq T /\ B \subseteq T}
FileWith(x, y) ==
    [sorted |-> \A s \in x[1], t \in y[1] : s <= t, distinct |-> x[1] \cap y[1] = {},
     blocks |-> <<BlockOf(x), BlockOf(y)>>]
TableRanges == {[begin |-> {}, end |-> {}], [begin |-> {2}, end |-> {2}], [begin |-> {}, end |-> {1}]}

\* The collections of one collector: of two groups, complete or not.
NameA == <<Group(<<"a">>, << >>), <<"b">>>>
NameB == <<Group(<<"b">>, << >>), <<"b">>>>
Collections == {Collection(t, es, k) : t \in 1 .. 3, k \in BOOLEAN,
                  es \in {<<<<NameA, 1>>>>, <<<<NameB, 1>>, <<NameA, 2>>, <<NameB, 2>>>>}}
Every == [group |-> <<DoubleWildcard>>, tags |-> {}, metric |-> <<DoubleWildcard>>]
OnlyB == [Every EXCEPT !.group = <<Literal("b")>>]
Reader(id, filter) == [id |-> id, filter |-> filter, conv |-> [queue |-> << >>, out |-> << >>]]

\* Streams whose buffers hold two or three bytes, over which up to five bytes
\* go, got in requests that end at the totals.
Settings == [gzip : BOOLEAN, out : {2, 3}, lag : {0, 1}, trailer : {2}, inSize : {2, 3, 9},
             pendingSize : {2}, bufferSize : {3}, minPassthrough : {1}, eager : BOOLEAN,
             fewWritten : {{}, {0}, {1}}, fewRead : {{}, {0}, {1}, {0, 1}}]
Numbered(totals) == IF totals = << >> THEN << >> ELSE [i \in 1 .. totals[Len(totals)] |-> i]

\* Trees of up to three levels: every operator over operands of every kind.
Leaves == {Constant(v) : v \in {IntOf(1), IntOf(-2), IntOf(UnsignedMax), Fp(3, 2), Bool(TRUE)}}
            \cup {Selector("a")}
AllSigns == UNION {Signs[n] : n \in DOMAIN Signs}
Negations(S) == {Unop(s, x) : s \in {"!", "-"}, x \in S}
Joins(X, Y) == {Binop(s, x, y, DefaultClause) : s \in AllSigns, x \in X, y \in Y}
Small == Leaves \cup Negations(Leaves) \cup Joins({Constant(IntOf(2))}, {Constant(IntOf(3))})
SomeTrees == Negations(Small \cup Negations(Small)) \cup Joins(Small, Small \cup Negations(Small))
Clauses1 == {By({1}, k) : k \in Keeps} \cup {DefaultClause}
\* 1 + ... a, with the clause after the sign.
TextWith(mc) ==
    <<Digits(1, 1), Sign("+")>>
      \o (IF mc = DefaultClause THEN << >>
          ELSE <<Sign("by"), [tok |-> "names", names |-> mc.names], Sign("keep"), Sign(mc.keep)>>)
      \o <<Named("a")>>

Init == in = [on |-> "nothing"]
Take ==
    \/ \E x, y \in SomeValues : in' = [on |-> "values", x |-> x, y |-> y]
    \/ \E h \in RawHists : in' = [on |-> "histogram", h |-> h]
    \/ \E x, y \in SomeTags, mc \in Clauses : in' = [on |-> "tags", x |-> x, y |-> y, mc |-> mc]
    \/ \E x, y \in PathMatchers : in' = [on |-> "paths", x |-> x, y |-> y]
    \/ \E x, y, z \in Checks : in' = [on |-> "checks", x |-> {x, z}, y |-> {y}]
    \/ \E vs \in SomeTables : in' = [on |-> "table", vs |-> vs]
    \/ \E x \in Blocks({1, 2, 3}), y \in Blocks({2, 3}), tr \in TableRanges :
          in' = [on |-> "file", x |-> x, y |-> y, tr |-> tr]
    \/ \E x, y, z \in Collections, rest \in [1 .. 3 -> BOOLEAN], gone \in {0, 2} :
          in' = [on |-> "collections", cs |-> <<x, y, z>>, rest |-> rest, gone |-> gone]
    \/ \E c \in Settings, T \in SUBSET (1 .. 5) :
          in' = [on |-> "stream", c |-> c, totals |-> InOrder(T)]
    \/ \E e \in SomeTrees : in' = [on |-> "expression", e |-> e]
Next == IF in.on = "nothing" THEN Take ELSE in' = [on |-> "nothing"]

Spec == Init /\ [][Next]_in

-----------------------------------------------------------------------------
Exact(v, n, d) == v.t \in Numbers /\ v.q[1] * d = n * v.q[2]

\* The sum, difference, product and quotient of two integers is the exact one,
\* as an integer of the width or as a double, and never a wrapped one; so are
\* the remainder and the shifts of two that are not negative.
ArithmeticIsExact ==
    (in.on = "values" /\ in.x.t \in Integral /\ in.y.t \in Integral) =>
        LET m == in.x.q[1]  n == in.y.q[1] IN
        /\ Exact(Add(in.x, in.y), m + n, 1)
        /\ Exact(Subtract(in.x, in.y), m - n, 1)
        /\ Exact(Times(in.x, in.y), m * n, 1)
        /\ n # 0 => Exact(Div(in.x, in.y), m, n)
        /\ Exact(Negate(in.x), -m, 1)
        /\ m >= 0 /\ n >= 0 =>
             /\ n # 0 => Exact(Mod(in.x, in.y), m % n, 1)
             /\ Exact(Shl(in.x, in.y), m * 2^n, 1)
             /\ Exact(Shr(in.x, in.y), m \div 2^n, 1)

\* before() and operator== are one order: exactly one of before, after and the
\* same holds, before is transitive, and values that are the same hash alike.
ValuesAreOrdered ==
    in.on = "values" =>
        /\ Cardinality({k \in 1 .. 3 : <<Before(in.x, in.y), Before(in.y, in.x), Same(in.x, in.y)>>[k]}) = 1
        /\ Same(in.x, in.y) => HashOf(in.x) = HashOf(in.y)
        /\ Before(in.x, in.y) => \A z \in SomeValues : Before(in.y, z) => Before(in.x, z)

\* Normalising a histogram, where it returns at all, keeps the density over
\* every stretch and leaves disjoint ranges in order.
DensityAt(h, at) == FoldLeft(LAMBDA acc, e : IF e.low <= at /\ at < e.high THEN acc + e.density ELSE acc, 0, h)
HistogramKeepsCounts ==
    in.on = "histogram" =>
        LET sorted == FixupUnsorted(in.h)  h == FixupImmed(sorted) IN
        ~FixupHangs(sorted) =>
            /\ \A at \in 0 .. 3 : DensityAt(h, at) = DensityAt(in.h, at)
            /\ \A i \in 1 .. Len(h) - 1 : h[i].high <= h[i + 1].low
            /\ HistCount(h) = HistCount(in.h) /\ HistSum2(h) = HistSum2(in.h)
            /\ HistMin(h) = {Min({in.h[i].low : i \in DOMAIN in.h})}
            /\ HistMax(h) = {Max({in.h[i].high : i \in DOMAIN in.h})}

\* Tag sets a by or default clause takes for equal are neither before the other,
\* and what reduce makes of two such sets is equal to both, so that the joined
\* value is found under the key its operands were found by.
Usable(mc, x) == Pass(mc, x)
JoinedKeysAgree ==
    (in.on = "tags" /\ in.mc.kind # "without" /\ Usable(in.mc, in.x) /\ Usable(in.mc, in.y)) =>
        LET r == ClauseReduce(in.mc, in.x, in.y) IN
        /\ (TRUE \in ClauseEq(in.mc, in.x, in.y))
             = (~ClauseLess(in.mc, in.x, in.y) /\ ~ClauseLess(in.mc, in.y, in.x))
        /\ TRUE \in ClauseEq(in.mc, in.x, in.y) =>
             /\ Usable(in.mc, r)
             /\ TRUE \in ClauseEq(in.mc, r, in.x) /\ TRUE \in ClauseEq(in.mc, r, in.y)

\* A hash map of the merger finds the value that a reduced tag set is for
\* (match_clause.h:93-139: the hash and equality of unordered maps).
JoinedValuesAreFound ==
    (in.on = "tags" /\ in.mc.kind # "without" /\ Usable(in.mc, in.x) /\ Usable(in.mc, in.y)
       /\ TRUE \in ClauseEq(in.mc, in.x, in.y)) => Finds(in.mc, {in.x}, in.y) # {}

\* Two path matchers overlap, and a filter intersects the names a collector
\* provides, exactly when some path fits both; two tag matchers are found to
\* overlap, in one order at least, when some tag set fits both, unless a bound
\* that is included meets a strict one of the other side: what the first takes,
\* operator! turns around (metric_value.cc:804), and has_overlap does not know.
RECURSIVE Fits(_, _)
Fits(pm, path) == CASE pm = << >> -> path = << >>
                    [] pm # << >> /\ IsDouble(pm[1]) ->
                         \/ Fits(Tail(pm), path)
                         \/ path # << >> /\ Fits(pm, Tail(path))
                    [] OTHER -> /\ path # << >> /\ pm[1] \in {Wildcard, Literal(path[1])}
                                /\ Fits(Tail(pm), Tail(path))
OverlapFound(xs, ys) ==
    (\E t \in MatchedTags : MatchTags(xs, t) /\ MatchTags(ys, t)) =>
        TagsOverlap(xs, ys) \/ TagsOverlap(ys, xs)
TurnedAround(xs, ys) ==
    \E x \in xs, y \in ys :
        /\ x.check = "comparison" /\ y.check = "comparison"
        /\ {x.op, y.op} \in {{"le", "gt"}, {"ge", "lt"}}
OverlapIsSound ==
    /\ in.on = "paths" =>
         LET meet == \E p \in Paths : Fits(in.x, p) /\ Fits(in.y, p)
             names == [known |-> {}, unknown |-> {[Every EXCEPT !.metric = in.y]}]
         IN  /\ DoOverlap(in.x, in.y) = meet
             /\ Intersects([Every EXCEPT !.metric = in.x], names) = meet
    /\ in.on = "checks" => TurnedAround(in.x, in.y) \/ OverlapFound(in.x, in.y)

\* tag_matcher.h:146: so they are found whatever they compare.
OverlapIsFound == in.on = "checks" => OverlapFound(in.x, in.y)

\* The columns of a table give back every value at its index: integers of any
\* width as the same number, one that is no signed as a double.
Stored(v) == IF UnsignedAsDouble(v) /\ v.q[1] > SignedMax THEN [v EXCEPT !.t = "fp"] ELSE v
ColumnsRoundTrip ==
    in.on = "table" =>
        LET sdd == EnterTable(in.vs, EmptyTable)
            back == GetTable(PutTable(in.vs, sdd), sdd)
        IN  back = UNION {{<<i, Stored(v)>> : v \in in.vs[i]} : i \in DOMAIN in.vs}

\* emit, emit_time and read_all_raw_ of a table file tell the same, each time
\* once and in order, however its blocks overlap, and the filters take from an
\* emission what is not asked for and nothing else.
Found(es) == UNION {{<<es[i].tp, k, es[i].map[k]>> : k \in DOMAIN es[i].map} : i \in DOMAIN es}
FoundRaw(ss) == UNION {{<<ss[i].ts, <<g, m>>, ss[i].data[g][m]>> : <<g, m>> \in EmissionKeys(ss[i].data)} : i \in DOMAIN ss}
Agree(raw, all, some, times, tr) ==
    /\ \A i \in 1 .. Len(all) - 1 : all[i].tp < all[i + 1].tp
    /\ Found(all) = {e \in FoundRaw(raw) : WithinRange(e[1], tr)}
    /\ Found(some) = {e \in Found(all) : e[2][1] = GroupB}
    /\ times = InOrder({t \in {raw[i].ts : i \in DOMAIN raw} : WithinRange(t, tr)})
TablesAgreeIn(file, tr) ==
    Agree(ReadAllRaw(file), EmitTables(file, tr, {GroupA, GroupB}, {<<2, 1>>}),
          EmitTables(file, tr, {GroupB}, {<<2, 1>>}), EmitTablesTime(file, tr), tr)
TablesAgree == in.on = "file" => TablesAgreeIn(FileWith(in.x, in.y), in.tr)

\* A table file gives back what was put in its columns, in every way to read it.
TablesKeepValues == ColumnsRoundTrip /\ TablesAgree

\* What is written through a compressing stream into a segment is read back in
\* order, however the bytes are cut on the way.  Where the end of a stream is
\* missing, since close does not repeat its last write, or a byte is not what
\* was written, reading or closing fails; so does asking for more than there is.
Spoiled(w, i) == [Segment(w.file) EXCEPT !.bytes[i] = 9]
ReadsBack(c, data, w, r, more) ==
    /\ IsPrefix(r.got, data)
    /\ IF w.buf = << >> THEN r.got = data /\ CloseReader(c, r).state = "ok"
                        ELSE CloseReader(c, r).state # "ok"
    /\ more.state # "ok" /\ more.got = r.got
    /\ (w.buf = << >> /\ (c.gzip => c.fewRead = {} /\ Len(w.file) <= c.inSize)) => XdrAtEnd(c, r)
ReadsWritten(c, data, w, totals) ==
    /\ ReadsBack(c, data, w, Got(c, Segment(w.file), totals),
                 Got(c, Segment(w.file), Append(totals, Len(data) + 1)))
    /\ \A i \in DOMAIN w.file : IsData(w.file[i]) =>
          CloseReader(c, Got(c, Spoiled(w, i), totals)).state # "ok"
StreamsKeepBytes ==
    in.on = "stream" =>
        ReadsWritten(in.c, Numbered(in.totals), Compressed(in.c, Numbered(in.totals)), in.totals)

\* gzip_stream.cc:283: closing a stream writes what is left of it.
CloseWritesAll == in.on = "stream" => Compressed(in.c, Numbered(in.totals)).buf = << >>

\* gzip_stream.cc:178: a stream whose bytes were all read is at its end.
EndIsSeenIn(c, w, totals) == w.buf = << >> => XdrAtEnd(c, Got(c, Segment(w.file), totals))
EndIsSeen == in.on = "stream" => EndIsSeenIn(in.c, Compressed(in.c, Numbered(in.totals)), in.totals)

FactsOf(Turn(_, _, _)) ==
    HistoryGets(FoldLeft(LAMBDA conv, k : Turn(conv, in.cs[k], in.rest[k]), [queue |-> << >>, out |-> << >>], <<1, 2, 3>>).out)
\* What the second of two readers gets in each of three turns, and what it is owed.
OutOf(sinks) == sinks[Len(sinks)].conv.out
NewOut(x, y) == SubSeq(OutOf(y), Len(OutOf(x)) + 1, Len(OutOf(y)))
Parts(after) == <<NewOut(after[1], after[2]), NewOut(after[2], after[3]), NewOut(after[3], after[4])>>
Turns(filter, cs, rest, gone) ==
    LET Answers(k) == [id \in 1 .. 2 |-> IF id = 1 /\ k = gone THEN "closed" ELSE "success"]
        Step(got, k) == Append(got, Collect(got[k], cs[k], Answers(k), rest[k]))
    IN  Parts(FoldLeft(Step, <<<<Reader(1, Every), Reader(2, filter)>>>>, <<1, 2, 3>>))
Filtered(filter, cs) == FoldLeft(LAMBDA acc, c : Append(acc, FilterElements(filter, c)), << >>, cs)
Owed(cs, rest, stated, k) ==
    LET Since(t) == {j \in 1 .. k : cs[j].tp = t /\ \A i \in j .. k - 1 : <<i, t>> \notin stated}
        Done(t) == rest[Min(Since(t))] \/ \E j \in Since(t) : cs[j].complete
        Data(t) == FoldLeft(LAMBDA data, j : DataOf(cs[j]) @@ data, << >>, InOrder(Since(t)))
        waiting == {t \in 1 .. 3 : Since(t) # {}}
        ready == {t \in waiting : \A u \in waiting : u <= t => Done(u)}
    IN  IF ready = {} THEN Speculations(cs[k])
        ELSE [i \in DOMAIN InOrder(ready) |-> Fact(InOrder(ready)[i], Data(InOrder(ready)[i]))]
Stated(got) == {<<k, t>> \in (1 .. 3) \X (1 .. 3) : \E e \in ToSet(got[k]) : e.fact /\ e.tp = t}
AsOwed(got, cs, rest) == \A k \in DOMAIN cs : got[k] = Owed(cs, rest, Stated(got), k)

\* Whatever the order of the collections and whenever another reader goes away,
\* a history gets a fact for each time once all times before it are complete,
\* with the latest value of every name collected since the time's last fact; and
\* a reader gets that or, while nothing is complete, each element on its own.
\* Where every collection is complete, pulling gives the same facts as pushing.
CollectionsBecomeFacts ==
    in.on = "collections" =>
      /\ (\A k \in DOMAIN in.cs : in.cs[k].complete) => FactsOf(PullTurn) = FactsOf(PushTurn)
      /\ \A filter \in {Every, OnlyB} :
           AsOwed(Turns(filter, in.cs, in.rest, in.gone), Filtered(filter, in.cs), in.rest)
\* build_task.cc:316: a reader that pulls gets what one that is pushed to gets.
PulledIsPushed == in.on = "collections" => FactsOf(PullTurn) = FactsOf(PushTurn)

\* A time has one fact (metric_source.h: a fact contains all values of its time).
OneFactForATime ==
    in.on = "collections" =>
        ((\A i, j \in DOMAIN in.cs : in.cs[i].complete /\ i < j => in.cs[i].tp # in.cs[j].tp) =>
            LET f == HistoryGets(FlattenSeq(Turns(Every, in.cs, in.rest, 0))) IN
            \A i, j \in DOMAIN f : f[i].tp = f[j].tp => i = j)

\* timestamp_delta.cc: only "time between successive timestamps is too large"
\* keeps times from being written.
TimesAreTaken ==
    in.on = "file" =>
        LET ts == InOrder(in.x[1]) IN TimesRefused(ts) => \E d \in ToSet(DeltasOf(ts)) : d > SignedMax

\* As the documentation of has_overlap has it, whichever matcher comes first.
OverlapInBothOrders ==
    in.on = "checks" =>
         ((\E t \in MatchedTags : MatchTags(in.x, t) /\ MatchTags(in.y, t)) => TagsOverlap(in.x, in.y))

\* metric_value.h:259, 350: operator! is the logical not, unequal the not of equal.
NotNegates ==
    in.on = "values" =>
        /\ AsBool(Not(in.x)) = {~b : b \in AsBool(in.x)}
        /\ AsBool(Unequal(in.x, in.y)) = {~b : b \in AsBool(Equal(in.x, in.y))}

\* A histogram can always be normalised.
HistogramReturns == in.on = "histogram" => ~FixupHangs(FixupUnsorted(in.h))
\* What a tree says: a number is a number, and negating one a number too.
RECURSIVE Meaning(_), Selects(_)
Meaning(e) ==
    CASE e.e = "constant" /\ IsNum(e.v) -> e.v.q
      [] e.e = "unop" /\ e.sign = "-" /\ e.x.e = "constant" /\ IsNum(e.x.v) /\ e.x.v.q[1] > 0 ->
           <<-e.x.v.q[1], e.x.v.q[2]>>
      [] e.e = "unop" -> <<e.sign, Meaning(e.x)>>
      [] e.e = "binop" -> <<e.sign, Meaning(e.x), Meaning(e.y), e.mc>>
      [] OTHER -> e
Selects(e) == CASE e.e = "constant" -> FALSE
                [] e.e = "selector" -> TRUE
                [] e.e = "unop" -> Selects(e.x)
                [] e.e = "binop" -> Selects(e.x) \/ Selects(e.y)
SameValue(v, w) == IF IsNum(v) /\ IsNum(w) THEN v.q = w.q ELSE v = w

\* The text of an expression parses (expression.h:242), to an expression that
\* says the same and evaluates to the same values, whatever precedences meet in
\* it; and exactly one of is_scalar and is_vector holds of it (:219, :225), the
\* one that says which pipe it evaluates to.
TextsMeanTheTree ==
    in.on = "expression" =>
        /\ Parse(TextOf(in.e)) # {}
        /\ \A e \in Parse(TextOf(in.e)) :
             /\ Meaning(e) = Meaning(in.e)
             /\ IsVector(e) = Selects(e) /\ IsScalar(e) = ~Selects(e)
             /\ PipeOf(e) = IF Selects(e) THEN "vector" ELSE "scalar"
             /\ ~Selects(e) => SameValue(Evaluate(e), Evaluate(in.e))

\* ast.cc:60: the clause of a text keeps what the text says.
KeepIsKept == in.on = "nothing" => \A mc \in Clauses1 : \A e \in Parse(TextWith(mc)) : e.mc = mc

\* operators.cc:197: the text of an operator says how it matches its operands.
ClausesArePrinted ==
    in.on = "nothing" =>
        \A mc \in Clauses1 : \A e \in Parse(TextWith(mc)) : e \in Parse(TextOf(e))

\* expression.h:242, of selectors: also a name that starts like a value parses.
SelectorsParse == in.on = "nothing" => \A n \in {"a", "info"} : Parse(TextOf(Selector(n))) = {Selector(n)}
=============================================================================
