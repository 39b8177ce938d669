--------------------------- MODULE MatchClause ---------------------------
(***************************************************************************)
(* monsoon::tags and the match clauses that compare and join them.  A tag  *)
(* set is a function from its names to metric values; names are integers   *)
(* in the order of the strings.  A match clause is a record with its kind, *)
(* its names and what reduce keeps.  A hash is modelled without accidental *)
(* collisions: two tag sets hash alike when what is hashed is the same.    *)
(***************************************************************************)
EXTENDS MetricValue

By(names, keep) == [kind |-> "by", names |-> names, keep |-> keep]
Without(names) == [kind |-> "without", names |-> names]
DefaultClause == [kind |-> "default"]

NoTags == << >>
Keys(x) == DOMAIN x
OnlyKeys(x, names) == [k \in Keys(x) \cap names |-> x[k]]
Drop(x, names) == [k \in Keys(x) \ names |-> x[k]]
Ascending(keys) == SetToSortSeq(keys, <)

\* tags::operator== and operator<, lexicographical over the pairs in name order.
TagsEqual(x, y) == Keys(x) = Keys(y) /\ \A k \in Keys(x) : Same(x[k], y[k])
RECURSIVE PairsBefore(_, _, _, _)
PairsBefore(x, y, p, q) ==
    CASE q = << >> -> FALSE
      [] p = << >> /\ q # << >> -> TRUE
      [] p # << >> /\ q # << >> /\ p[1] # q[1] -> p[1] < q[1]
      [] OTHER -> \/ Before(x[p[1]], y[q[1]])
                  \/ ~Before(y[q[1]], x[p[1]]) /\ PairsBefore(x, y, Tail(p), Tail(q))
TagsBefore(x, y) == PairsBefore(x, y, Ascending(Keys(x)), Ascending(Keys(y)))

\* tags::has_keys, and pass() of the clauses.
Pass(mc, x) == mc.kind = "by" => mc.names \subseteq Keys(x)

\* A slip: the first name decides alone.
ByBeforeFirst(names, x, y) == names # << >> /\ Before(x[names[1]], y[names[1]])

\* less_cmp of the by clause: over its names only.
RECURSIVE ByBefore(_, _, _)
ByBefore(names, x, y) ==
    /\ names # << >>
    /\ \/ Before(x[names[1]], y[names[1]])
       \/ ~Before(y[names[1]], x[names[1]]) /\ ByBefore(Tail(names), x, y)

\* less_cmp of the without clause: the tag sets without its names, but a tag
\* set that ends first comes first only through the other's remaining names.
RECURSIVE WithoutBefore(_, _, _, _)
WithoutBefore(x, y, p, q) ==
    CASE p = << >> -> q # << >>
      [] p # << >> /\ q = << >> -> FALSE
      [] p # << >> /\ q # << >> /\ p[1] # q[1] -> p[1] < q[1]
      [] OTHER -> \/ Before(x[p[1]], y[q[1]])
                  \/ ~Before(y[q[1]], x[p[1]]) /\ WithoutBefore(x, y, Tail(p), Tail(q))

ClauseLess(mc, x, y) ==
    CASE mc.kind = "by" -> ByBefore(Ascending(mc.names), x, y)
      [] mc.kind = "without" -> WithoutBefore(x, y, Ascending(Keys(x) \ mc.names),
                                                    Ascending(Keys(y) \ mc.names))
      [] mc.kind = "default" -> TagsBefore(x, y)

\* eq_cmp, as the set of its answers: the without clause never steps over a
\* pair both tag sets have, so on such a pair it does not return.
WithoutEq(x, y) ==
    LET p == Ascending(Keys(x))  q == Ascending(Keys(y)) IN
    CASE p = << >> /\ q = << >> -> {TRUE}
      [] (p = << >>) # (q = << >>) -> {FALSE}
      [] OTHER -> IF p[1] = q[1] /\ Same(x[p[1]], y[q[1]]) THEN {} ELSE {FALSE}
ClauseEq(mc, x, y) ==
    CASE mc.kind = "by" -> {\A n \in mc.names : ~Before(x[n], y[n]) /\ ~Before(y[n], x[n])}
      [] mc.kind = "without" -> WithoutEq(Drop(x, mc.names), Drop(y, mc.names))
      [] mc.kind = "default" -> {TagsEqual(x, y)}

\* hash(): the by clause hashes the tags it does not compare.
HashTags(x) == [k \in Keys(x) |-> HashOf(x[k])]
ClauseHash(mc, x) == CASE mc.kind = "by" -> HashTags(Drop(x, mc.names))
                       [] mc.kind = "without" -> HashTags(Drop(x, mc.names))
                       [] mc.kind = "default" -> HashTags(x)

\* reduce(): the tags of a joined pair.
ClauseReduce(mc, x, y) ==
    CASE mc.kind = "by" ->
           (CASE mc.keep = "selected" -> OnlyKeys(x, mc.names)
              [] mc.keep = "left" -> x
              [] mc.keep = "right" -> y
              [] mc.keep = "common" ->
                   OnlyKeys(x, {k \in Keys(x) \cap Keys(y) : /\ ~Before(x[k], y[k])
                                                             /\ ~Before(y[k], x[k])}))
      [] mc.kind = "without" -> Drop(x, mc.names)
      [] mc.kind = "default" -> x

\* A hash map with a clause's hash and equality finds the keys that agree in both.
Finds(mc, keys, x) == {k \in keys : ClauseHash(mc, k) = ClauseHash(mc, x)
                                    /\ TRUE \in ClauseEq(mc, k, x)}
=============================================================================
