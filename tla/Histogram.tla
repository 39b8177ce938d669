---------------------------- MODULE Histogram ----------------------------
(***************************************************************************)
(* monsoon::histogram: a vector of ranges with counts that the operations  *)
(* normalise to disjoint ranges in order.  A count is kept as the density  *)
(* of its range (count = density * width): splitting a range in proportion *)
(* to the widths, which is all the code does to a count, leaves the        *)
(* density alone, so the counts stay exact.                                *)
(***************************************************************************)
EXTENDS Integers, Sequences, SequencesExt

\* An element of elems_; its third field, the running count, is derived.
Elem(lo, hi, d) == [low |-> lo, high |-> hi, density |-> d]

RangeBefore(x, y) == x.low < y.low \/ (x.low = y.low /\ x.high < y.high)

\* Tuples compare by range, then by count.
ElemBefore(x, y) ==
    \/ RangeBefore(x, y)
    \/ x.low = y.low /\ x.high = y.high /\ x.density < y.density

\* std::upper_bound on a sorted vector, as the number of elements kept before.
UpperBound(elems, e) == LET after == {i \in DOMAIN elems : ElemBefore(e, elems[i])}
                        IN  IF after = {} THEN Len(elems)
                            ELSE (CHOOSE i \in after : \A j \in after : i <= j) - 1

\* fixup_immed_, one turn of its first loop at position i, where x meets y.
\* Neither equal ranges nor a range that ends after its successor of the same
\* start are separated or stepped over: the turn then leaves everything as it was.
SplitAt(elems, i, x, y) ==
    LET head == SubSeq(elems, 1, i - 1)
        rest == SubSeq(elems, i + 2, Len(elems))
        tail == Elem(x.high, y.high, y.density)
    IN  CASE x.high <= y.low -> [elems |-> elems, at |-> i + 1]
          [] x.high > y.low /\ x.low < y.low ->
               [elems |-> head \o << Elem(x.low, y.low, x.density),
                                     Elem(y.low, x.high, x.density), y >> \o rest,
                at |-> i + 1]
          [] x.low = y.low /\ x.high < y.high ->
               [elems |-> head \o << [x EXCEPT !.density = @ + y.density] >>
                            \o InsertAt(rest, UpperBound(rest, tail) + 1, tail),
                at |-> IF UpperBound(rest, tail) = 0 THEN i + 1 ELSE i]
          [] OTHER -> [elems |-> elems, at |-> i]
SplitTurn(s) == IF s.at >= Len(s.elems) THEN s ELSE SplitAt(s.elems, s.at, s.elems[s.at], s.elems[s.at + 1])

\* The first loop run to its end, or to a turn that changes nothing: a hang.
RECURSIVE SplitOn(_, _)
SplitOn(s, next) == IF next = s THEN s ELSE SplitOn(next, SplitTurn(next))
Split(elems) == SplitOn([elems |-> << >>, at |-> 1], [elems |-> elems, at |-> 1])

\* The second loop: the counts of equal neighbours move to the last of them.
RECURSIVE Combine(_, _)
Combine(elems, i) ==
    IF i >= Len(elems) THEN elems
    ELSE IF elems[i].low = elems[i + 1].low /\ elems[i].high = elems[i + 1].high
         THEN Combine([elems EXCEPT ![i + 1].density = @ + elems[i].density,
                                    ![i].density = 0], i + 1)
         ELSE Combine(elems, i + 1)

EraseEmpty(elems) == SelectSeq(elems, LAMBDA e : e.high # e.low)

IsStuck(s) == s.at < Len(s.elems)
FixupHangs(elems) == IsStuck(Split(elems))
\* A slip: the splitting loop left out.
FixupImmedCombinesOnly(elems) == EraseEmpty(Combine(elems, 1))
FixupImmed(elems) == EraseEmpty(Combine(Split(elems).elems, 1))
FixupUnsorted(elems) == SortSeq(elems, ElemBefore)

\* operator+, operator- and unary minus, whichever reference kinds they take.
HistPlus(x, y) == FixupImmed(FixupUnsorted(x \o y))
HistNegate(x) == [i \in DOMAIN x |-> [x[i] EXCEPT !.density = -@]]
HistMinus(x, y) == FixupImmed(FixupUnsorted(x \o HistNegate(y)))
HistAdd(x, e) == FixupImmed(InsertAt(x, UpperBound(x, e) + 1, e))

\* operator* by a number; dividing by zero throws.
HistTimes(x, n) == EraseEmpty([i \in DOMAIN x |-> [x[i] EXCEPT !.density = @ * n]])

\* histogram::count(), min(), max() and twice sum() (its midpoints are halves).
HistCount(x) == FoldLeft(LAMBDA acc, e : acc + e.density * (e.high - e.low), 0, x)
HistSum2(x) == FoldLeft(LAMBDA acc, e : acc + e.density * (e.high - e.low) * (e.low + e.high), 0, x)
HistMin(x) == IF x = << >> THEN {} ELSE {x[1].low}
HistMax(x) == IF x = << >> THEN {} ELSE {x[Len(x)].high}

\* histogram::before: lexicographical over the elements.
RECURSIVE HistBefore(_, _)
HistBefore(x, y) ==
    CASE y = << >> -> FALSE
      [] x = << >> /\ y # << >> -> TRUE
      [] x # << >> /\ y # << >> /\ ElemBefore(x[1], y[1]) -> TRUE
      [] x # << >> /\ y # << >> /\ ElemBefore(y[1], x[1]) -> FALSE
      [] OTHER -> HistBefore(Tail(x), Tail(y))
=============================================================================
