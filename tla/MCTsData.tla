----------------------------- MODULE MCTsData -----------------------------
(***************************************************************************)
(* The instance of TsData that TLC checks, and what is said of it.         *)
(***************************************************************************)
EXTENDS TsData

\* Two emissions that disagree on one value, share words between paths, tags
\* and strings, and hold the values that an encoding might change.
Plain == Group(<<1>>, << >>)
Tagged == Group(<<1, 2>>, [w \in {2} |-> Str(3)])
Big == IntOf(UnsignedMax)
Ints == [k \in {<<Plain, <<1>>>>} |-> Big]
Mixed == [k \in {<<Plain, <<1>>>>, <<Tagged, <<2>>>>, <<Tagged, <<3>>>>} |->
             CASE k = <<Plain, <<1>>>> -> Str(2)
               [] k = <<Tagged, <<2>>>> -> IntOf(-1)
               [] OTHER -> Hist(<<Elem(0, 2, 1), Elem(3, 4, 2)>>)]
SomeEmissions == {Ints, Mixed}
SomeExports == {<<MakeTimeSeries(2, Mixed), MakeTimeSeries(0, Ints)>>}

\* What a value comes back as: v0 and v1 cast every integer to a signed one.
Kept(v) == IF v = Big THEN IF version = 2 THEN [v EXCEPT !.t = "fp"] ELSE IntOf(-1) ELSE v
KeptSeries(ss) == [i \in DOMAIN ss |-> <<ss[i].ts, [k \in EmissionKeys(ss[i].data) |-> Kept(ss[i].data[k[1]][k[2]])]>>]

\* What the file holds, in the order of its records.
Decoded == IF version = 2 THEN EmissionsOf(DictOf(Records), Records) ELSE EmitOfVisit(VisitAll, 0, 9)
\* Leaving some elements of t out gives s.
IsPartOf(s, t) == \E ix \in [DOMAIN s -> DOMAIN t] :
                     /\ \A i \in DOMAIN s : s[i] = t[ix[i]]
                     /\ \A i, j \in DOMAIN s : i < j => ix[i] < ix[j]
Quiet == is_open /\ job = Idle
Readable == version = 2 => ChainIsReadable(Records)

\* Every push_back that returned is still in the file, in order, and within the
\* range the file says it covers, after failures, crashes and restarts:
\* push_back (v0/tsdata.cc:106, v1/tsdata.cc:110, v2/tsdata_list.cc:104) flushes
\* before it returns, and the range decides whether a query reads the file.
ReturnedIsKept ==
    Quiet => /\ Readable
             /\ IsPartOf(KeptSeries(returned), Decoded)
             /\ \A i \in DOMAIN returned : Within(returned[i].ts, mem.first, mem.last)

\* Nothing is read but what was pushed, in the order of the pushes: a name or
\* string never decodes as another one, whatever failed before (the shared
\* dictionaries of v1/tsdata.cc:304 and v2/dictionary.h:309).
OnlyWhatWasPushed == (Quiet /\ Readable) => IsPartOf(Decoded, KeptSeries(pushed))

\* What records of one time amount to: the latest value of each name.
Latest(ds, tp) ==
    LET at == SelectSeq(ds, LAMBDA d : d[1] = tp)
    IN  [k \in UNION {DOMAIN at[i][2] : i \in DOMAIN at} |->
           Last(SelectSeq(at, LAMBDA d : k \in DOMAIN d[2]))[2][k]]
LatestOf(ds) == {<<tp, Latest(ds, tp)>> : tp \in ToSet(TimesOf(ds))}

\* Every way of reading gives what the file holds.  A list emits each time of a
\* range once, with the latest value of each name; v0 and v1 emit every record
\* of the range as it is; emit_time names the same times (v0/tsdata.cc:155,
\* v1/tsdata.cc:160, v2/tsdata_list.cc:126 and :230).  read_all of a list is all
\* its times, ascending: the flags that spare it the sort and the merge are
\* true (v2/tsdata.cc:73 and :150).
Ascends(es) == \A i \in 1 .. Len(es) - 1 : es[i][1] < es[i + 1][1]
AllTimes(ds, es) == ToSet(es) = LatestOf(ds) /\ Ascends(es)
ARange(ds, b, e, es, times) ==
    /\ IF version = 2
       THEN /\ ToSet(es) = {x \in LatestOf(ds) : Within(x[1], b, e)}
            /\ IsInjective(TimesOf(es))
       ELSE es = SelectSeq(ds, LAMBDA d : Within(d[1], b, e))
    /\ ToSet(times) = ToSet(TimesOf(es))
EmitIsTheRange ==
    (Quiet /\ Readable) =>
        \A ds \in {Decoded} :
            /\ version = 2 => AllTimes(ds, ReadAll)
            /\ \A b \in Instants : \A e \in {i \in Instants : b <= i} :
                  ARange(ds, b, e, Emit(b, e), EmitTime(b, e))

\* A time that emit_time names is named once.
TimesAreDistinct ==
    (Quiet /\ Readable /\ version = 2) => IsInjective(EmitTime(0, 9))

\* What reading in the order of time takes: emit ascends.
EmitAscends ==
    (Quiet /\ Readable /\ version = 2) =>
        Ascends(Emit(0, 9))

\* A file that was closed can be opened again: what a torn write of the header
\* takes, for nothing repairs it (v0/tsdata.cc:72, v1/tsdata.cc:54 and
\* v2/tsdata.cc:95 verify it and throw).
FileOpens == ~is_open => file.hdr.whole
=============================================================================
