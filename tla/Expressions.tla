--------------------------- MODULE Expressions ---------------------------
(***************************************************************************)
(* monsoon::expression: the trees of constants, selectors and operators,   *)
(* their text, and the grammar that reads a text back.  A text is a        *)
(* sequence of tokens: a sign, the digits of a number without its sign, a  *)
(* value, a selector, or the names of a clause; spaces only separate them. *)
(* The digits of a number are exact.                                       *)
(***************************************************************************)
EXTENDS Matchers

\* expression::precedence, and the signs of each level of binary operators.
Signs == <<{"||"}, {"&&"}, {"=", "!="}, {"<=", ">=", "<", ">"}, {"<<", ">>"},
           {"+", "-"}, {"*", "/", "%"}>>
NegateLevel == Len(Signs) + 1
ValueLevel == NegateLevel + 1
LevelOfSign(s) == CHOOSE n \in DOMAIN Signs : s \in Signs[n]

Constant(v) == [e |-> "constant", v |-> v, level |-> ValueLevel]
Selector(name) == [e |-> "selector", name |-> name, level |-> ValueLevel]
Unop(s, x) == [e |-> "unop", sign |-> s, x |-> x, level |-> NegateLevel]
Binop(s, x, y, mc) ==
    [e |-> "binop", sign |-> s, x |-> x, y |-> y, mc |-> mc, level |-> LevelOfSign(s)]

-----------------------------------------------------------------------------
\* do_ostream.  The match clause of an operator is not printed.
Sign(s) == [tok |-> s]
Digits(n, d) == [tok |-> "number", q |-> <<n, d>>]
Literally(v) == [tok |-> "value", v |-> v]
Named(name) == [tok |-> "selector", name |-> name]
PrintValue(v) ==
    CASE v = None -> <<Sign("("), Sign("none"), Sign(")")>>
      [] IsNum(v) -> (IF v.q[1] < 0 THEN <<Sign("-")>> ELSE << >>) \o <<Digits(Abs(v.q[1]), v.q[2])>>
      [] OTHER -> <<Literally(v)>>

Braced(need_braces, text) ==
    IF need_braces THEN <<Sign("(")>> \o text \o <<Sign(")")>> ELSE text
\* A slip: the right operand is treated as the left one.
BracesLikeLeft(y, level) == y.level < level
LeftNeedsBraces(x, level) == x.level < level
RightNeedsBraces(y, level) == y.level <= level
RECURSIVE TextOf(_)
TextOf(e) ==
    CASE e.e = "constant" -> PrintValue(e.v)
      [] e.e = "selector" -> <<Named(e.name)>>
      [] e.e = "unop" -> <<Sign(e.sign)>> \o Braced(LeftNeedsBraces(e.x, e.level), TextOf(e.x))
      [] e.e = "binop" -> Braced(LeftNeedsBraces(e.x, e.level), TextOf(e.x))
                            \o <<Sign(e.sign)>>
                            \o Braced(RightNeedsBraces(e.y, e.level), TextOf(e.y))

-----------------------------------------------------------------------------
\* The grammar.  A rule, from the start of a text, gives what it makes of it
\* and the rest of the text; nothing where it does not match.  It is ordered:
\* an alternative is tried only where those before it do not match.
Made(e, rest) == [e |-> e, rest |-> rest]
Starts(toks, s) == toks # << >> /\ toks[1].tok = s
Else(first, second) == IF first # {} THEN first ELSE second

\* tag_value: an unsigned number, a signed one, or else a double.
ReadNumber(negative, q) ==
    LET n == IF negative THEN -q[1] ELSE q[1] IN
    IF q[2] = 1 /\ n \in SignedMin .. UnsignedMax THEN IntOf(n) ELSE Fp(n, q[2])
\* A name that starts like a value is taken for that value, up to its end.
StartsAsValue(name) == name \in {"info", "trueish"}
ParseConstant(toks) ==
    CASE Starts(toks, "number") -> {Made(Constant(ReadNumber(FALSE, toks[1].q)), Tail(toks))}
      [] Starts(toks, "-") /\ Starts(Tail(toks), "number") ->
           {Made(Constant(ReadNumber(TRUE, toks[2].q)), Tail(Tail(toks)))}
      [] Starts(toks, "value") -> {Made(Constant(toks[1].v), Tail(toks))}
      [] Starts(toks, "selector") /\ StartsAsValue(toks[1].name) ->
           {Made(Constant(Bool(TRUE)), <<Sign("rest of a name")>> \o Tail(toks))}
      [] OTHER -> {}
ParseSelector(toks) ==
    IF Starts(toks, "selector") THEN {Made(Selector(toks[1].name), Tail(toks))} ELSE {}

\* by_clause_expr::build: the value of `keep` where there is none, whatever its
\* storage holds; and the default where there is one.
Keeps == {"selected", "left", "right", "common"}
BuildBy(names, keep) == IF keep # {} THEN {By(names, "selected")} ELSE {By(names, k) : k \in Keeps}
\* match_clause: without_clause starts with the same word as by_clause and never
\* matches where that does not.
ParseClause(toks) ==
    IF Starts(toks, "by") /\ Starts(Tail(toks), "names")
    THEN LET rest == Tail(Tail(toks))
             keep == {k \in Keeps : Starts(rest, "keep") /\ Starts(Tail(rest), k)}
         IN  {Made(mc, IF keep # {} THEN Tail(Tail(rest)) ELSE rest) : mc \in BuildBy(toks[2].names, keep)}
    ELSE {Made(DefaultClause, toks)}

RECURSIVE ParseLevel(_, _), ParseTail(_, _, _), ParseUnary(_)
ParseBraces(toks) ==
    IF Starts(toks, "(")
    THEN {Made(r.e, Tail(r.rest)) : r \in {x \in ParseLevel(1, Tail(toks)) : Starts(x.rest, ")")}}
    ELSE {}
ParsePrimary(toks) == Else(ParseConstant(toks), Else(ParseBraces(toks), ParseSelector(toks)))
ParseNegation(toks) ==
    IF Starts(toks, "!") \/ Starts(toks, "-")
    THEN {Made(Unop(toks[1].tok, r.e), r.rest) : r \in ParseUnary(Tail(toks))}
    ELSE {}
ParseUnary(toks) == Else(ParsePrimary(toks), ParseNegation(toks))
\* apply, and binop_expr: the operands of one level, joined from the left.
Apply(s, mc, x, y) == Binop(s, x, y, mc)
ParseTail(n, x, toks) ==
    IF toks = << >> \/ toks[1].tok \notin Signs[n] THEN {Made(x, toks)}
    ELSE LET operands == UNION {{[mc |-> c.e, y |-> r.e, rest |-> r.rest] : r \in ParseLevel(n + 1, c.rest)}
                                  : c \in ParseClause(Tail(toks))}
         IN  IF operands = {} THEN {Made(x, toks)}
             ELSE UNION {ParseTail(n, Apply(toks[1].tok, r.mc, x, r.y), r.rest) : r \in operands}
ParseLevel(n, toks) ==
    IF n = NegateLevel THEN ParseUnary(toks)
    ELSE UNION {ParseTail(n, r.e, r.rest) : r \in ParseLevel(n + 1, toks)}

\* expression::parse, as the set of what it may give: none where it throws.
Parse(toks) == {r.e : r \in {x \in ParseLevel(1, toks) : x.rest = << >>}}

-----------------------------------------------------------------------------
RECURSIVE IsScalar(_), IsVector(_), Evaluate(_), PipeOf(_)
IsScalar(e) == CASE e.e = "constant" -> TRUE
                 [] e.e = "selector" -> FALSE
                 [] e.e = "unop" -> IsScalar(e.x)
                 [] e.e = "binop" -> IsScalar(e.x) /\ IsScalar(e.y)
IsVector(e) == CASE e.e = "constant" -> FALSE
                 [] e.e = "selector" -> TRUE
                 [] e.e = "unop" -> IsVector(e.x)
                 [] e.e = "binop" -> IsVector(e.x) \/ IsVector(e.y)

\* operator(): the kind of the pipe, and for a scalar the value at every time.
PipeOf(e) == CASE e.e = "constant" -> "scalar"
               [] e.e = "selector" -> "vector"
               [] e.e = "unop" -> PipeOf(e.x)
               [] e.e = "binop" -> IF PipeOf(e.x) = "scalar" /\ PipeOf(e.y) = "scalar"
                                   THEN "scalar" ELSE "vector"
ApplyUnop(s, v) == CASE s = "!" -> Not(v) [] s = "-" -> Negate(v)
ApplyLogical(s, v, w) == CASE s = "||" -> Or(v, w) [] s = "&&" -> And(v, w)
ApplyComparison(s, v, w) ==
    CASE s = "=" -> Equal(v, w)
      [] s = "!=" -> Unequal(v, w)
      [] s = "<=" -> LessEqual(v, w)
      [] s = ">=" -> GreaterEqual(v, w)
      [] s = "<" -> Less(v, w)
      [] s = ">" -> Greater(v, w)
ApplyNumeric(s, v, w) ==
    CASE s = "<<" -> Shl(v, w)
      [] s = ">>" -> Shr(v, w)
      [] s = "+" -> Add(v, w)
      [] s = "-" -> Subtract(v, w)
      [] s = "*" -> Times(v, w)
      [] s = "/" -> Div(v, w)
      [] s = "%" -> Mod(v, w)
ApplyBinop(s, v, w) ==
    CASE s \in Signs[1] \cup Signs[2] -> ApplyLogical(s, v, w)
      [] s \in Signs[3] \cup Signs[4] -> ApplyComparison(s, v, w)
      [] OTHER -> ApplyNumeric(s, v, w)
Evaluate(e) == CASE e.e = "constant" -> e.v
                 [] e.e = "unop" -> ApplyUnop(e.sign, Evaluate(e.x))
                 [] e.e = "binop" -> ApplyBinop(e.sign, Evaluate(e.x), Evaluate(e.y))
=============================================================================
