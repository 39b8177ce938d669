----------------------------- MODULE Matchers -----------------------------
(***************************************************************************)
(* path_matcher and tag_matcher: which group paths, metric names and tag   *)
(* sets a selector takes, and has_overlap, which says whether two matchers *)
(* can take the same one.                                                  *)
(***************************************************************************)
EXTENDS MatchClause

\* The elements of a path matcher.
Literal(l) == [m |-> "literal", lit |-> l]
Wildcard == [m |-> "wildcard"]
DoubleWildcard == [m |-> "double_wildcard"]
IsDouble(e) == e.m = "double_wildcard"

\* push_back_wildcard keeps a double wildcard last; push_back_double_wildcard
\* never repeats one.
PushWildcard(pm) == IF pm # << >> /\ IsDouble(pm[Len(pm)])
                    THEN SubSeq(pm, 1, Len(pm) - 1) \o <<Wildcard, DoubleWildcard>>
                    ELSE Append(pm, Wildcard)
PushDouble(pm) == IF pm # << >> /\ IsDouble(pm[Len(pm)]) THEN pm ELSE Append(pm, DoubleWildcard)
PushLiteral(pm, l) == Append(pm, Literal(l))

From(s, i) == SubSeq(s, i, Len(s))

\* do_match: a matcher that is used up accepts whatever is left of the path,
\* which only an assertion objects to.
RECURSIVE DoMatch(_, _)
DoMatch(pm, path) ==
    CASE pm = << >> -> TRUE
      [] pm # << >> /\ IsDouble(pm[1]) ->
           \E i \in 1 .. Len(path) + 1 : DoMatch(Tail(pm), From(path, i))
      [] OTHER -> /\ path # << >>
                  /\ pm[1] \in {Wildcard, Literal(path[1])}
                  /\ DoMatch(Tail(pm), Tail(path))

\* do_overlap.
\* A slip: a wildcard meets only a wildcard.
ElementsMeetEqual(x, y) == x = y
ElementsMeet(x, y) == x.m = "wildcard" \/ y.m = "wildcard" \/ x = y
RECURSIVE DoOverlap(_, _)
DoOverlap(x, y) ==
    CASE x # << >> /\ IsDouble(x[1]) ->
           \E i \in 1 .. Len(y) + 1 : DoOverlap(Tail(x), From(y, i))
      [] (x = << >> \/ ~IsDouble(x[1])) /\ y # << >> /\ IsDouble(y[1]) ->
           \E i \in 1 .. Len(x) + 1 : DoOverlap(From(x, i), Tail(y))
      [] OTHER -> \/ x = << >> /\ y = << >>
                  \/ /\ x # << >> /\ y # << >>
                     /\ ElementsMeet(x[1], y[1])
                     /\ DoOverlap(Tail(x), Tail(y))

-----------------------------------------------------------------------------
\* A tag matcher is a set of checks, each on one tag name.
Comparisons == {"eq", "ne", "lt", "gt", "le", "ge"}
Presence(n) == [name |-> n, check |-> "presence"]
Absence(n) == [name |-> n, check |-> "absence"]
Comparison(n, op, v) == [name |-> n, check |-> "comparison", op |-> op, v |-> v]

Compare(op, x, y) == CASE op = "eq" -> Equal(x, y)
                       [] op = "ne" -> Unequal(x, y)
                       [] op = "lt" -> Less(x, y)
                       [] op = "gt" -> Greater(x, y)
                       [] op = "le" -> LessEqual(x, y)
                       [] op = "ge" -> GreaterEqual(x, y)
Holds(v) == TRUE \in AsBool(v)     \* as_bool().value_or(false)

Satisfies(t, c) == CASE c.check = "presence" -> c.name \in Keys(t)
                     [] c.check = "absence" -> c.name \notin Keys(t)
                     [] c.check = "comparison" ->
                          c.name \in Keys(t) /\ Holds(Compare(c.op, t[c.name], c.v))
MatchTags(tm, t) == \A c \in tm : Satisfies(t, c)

HasDefinedEquality(x, y) == AsBool(Equal(x, y)) # {}
\* A slip: two bounds of one side meet when the first is the lower.
ComparesLess(x, y) == Holds(Less(x, y))
HasDefinedCompare(x, y) == AsBool(Less(x, y)) # {}

\* has_overlap of two comparisons of one tag.  For a bound that is included and a
\* value it asks whether the value is strictly within the bound when the bound is
\* first, and what the comparison answers when the value is.
ComparisonsMeet(x, y) ==
    LET v == x.v  w == y.v
        Ordered == {"lt", "gt", "le", "ge"} IN
    CASE x.op = "eq" -> Holds(Compare(y.op, v, w))
      [] x.op = "ne" /\ y.op = "eq" -> Holds(Unequal(v, w))
      [] x.op = "ne" /\ y.op = "ne" -> HasDefinedEquality(v, w)
      [] x.op = "ne" /\ y.op \in Ordered -> HasDefinedCompare(v, w)
      [] x.op \in {"lt", "le"} /\ y.op \in {"ne", "lt", "le"} -> HasDefinedCompare(v, w)
      [] x.op \in {"gt", "ge"} /\ y.op \in {"ne", "gt", "ge"} -> HasDefinedCompare(v, w)
      [] x.op = "lt" /\ y.op \in {"gt", "ge"} -> Holds(Greater(v, w))
      [] x.op = "lt" /\ y.op = "eq" -> Holds(Less(w, v))
      [] x.op = "gt" /\ y.op \in {"lt", "le"} -> Holds(Less(v, w))
      [] x.op = "gt" /\ y.op = "eq" -> Holds(Greater(w, v))
      [] x.op = "le" /\ y.op = "gt" -> Holds(Greater(v, w))
      [] x.op = "le" /\ y.op = "ge" -> Holds(GreaterEqual(v, w))
      [] x.op = "le" /\ y.op = "eq" -> Holds(Less(w, v))
      [] x.op = "ge" /\ y.op = "lt" -> Holds(Less(v, w))
      [] x.op = "ge" /\ y.op = "le" -> Holds(LessEqual(v, w))
      [] x.op = "ge" /\ y.op = "eq" -> Holds(Greater(w, v))

ChecksMeet(x, y) ==
    CASE x.check = "comparison" /\ y.check = "comparison" -> ComparisonsMeet(x, y)
      [] OTHER -> (x.check = "absence") = (y.check = "absence")
TagsOverlap(xs, ys) == \A x \in xs, y \in ys : x.name = y.name => ChecksMeet(x, y)
=============================================================================
