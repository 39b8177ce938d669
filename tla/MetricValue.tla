--------------------------- MODULE MetricValue ---------------------------
(***************************************************************************)
(* monsoon::metric_value: the variant, its arithmetic, its two equalities  *)
(* and its order.  Integers have Bits bits; the constructor keeps the      *)
(* negative ones as signed and the others as unsigned.  A double is an     *)
(* exact fraction: its rounding is left out, its range is not modelled.    *)
(* Strings are small integers in the order of the strings.                 *)
(***************************************************************************)
EXTENDS Integers, Sequences, FiniteSets, Histogram

CONSTANT Bits
ASSUME BitsAssumption == Bits \in Nat \ {0, 1}

UnsignedMax == 2^Bits - 1
SignedMin == -(2^(Bits - 1))
SignedMax == 2^(Bits - 1) - 1
AbsSignedMin == 2^(Bits - 1)
Wrap(n) == n % 2^Bits

Abs(n) == IF n < 0 THEN -n ELSE n
RECURSIVE Gcd(_, _)
Gcd(m, n) == IF n = 0 THEN m ELSE Gcd(n, m % n)
Floor(q) == q[1] \div q[2]
\* A slip: std::floor in place of std::ceil.
CeilRoundsDown(q) == q[1] \div q[2]
Ceil(q) == -((-q[1]) \div q[2])

\* The alternatives of internal_types, in their order.
None == [t |-> "empty"]
Bool(b) == [t |-> "bool", b |-> b]
IntOf(n) == [t |-> IF n >= 0 THEN "unsigned" ELSE "signed", q |-> <<n, 1>>]
Lowest(n, d, g) == [t |-> "fp", q |-> <<n \div g, d \div g>>]
Fp(n, d) == Lowest(IF d < 0 THEN -n ELSE n, Abs(d), Gcd(Abs(n), Abs(d)))
Str(i) == [t |-> "string", s |-> i]
Hist(h) == [t |-> "histogram", h |-> h]

Index(v) == CASE v.t = "empty" -> 0
              [] v.t = "bool" -> 1
              [] v.t = "signed" -> 2
              [] v.t = "unsigned" -> 3
              [] v.t = "fp" -> 4
              [] v.t = "string" -> 5
              [] v.t = "histogram" -> 6

Numbers == {"signed", "unsigned", "fp"}
Integral == {"signed", "unsigned"}
IsNum(v) == v.t \in Numbers

\* as_bool(), as_number() and as_number_or_histogram(); None where nothing is returned.
AsBool(v) == CASE v.t = "bool" -> {v.b}
               [] v.t \in Numbers -> {v.q[1] # 0}
               [] v.t = "histogram" -> {v.h # << >>}
               [] OTHER -> {}
AsNumber(v) == CASE v.t = "bool" -> IntOf(IF v.b THEN 1 ELSE 0)
                 [] v.t \in Numbers -> v
                 [] OTHER -> None
AsNumberOrHistogram(v) == IF v.t = "histogram" THEN v ELSE AsNumber(v)

FracPlus(x, y) == Fp(x.q[1] * y.q[2] + y.q[1] * x.q[2], x.q[2] * y.q[2])
FracMinus(x, y) == Fp(x.q[1] * y.q[2] - y.q[1] * x.q[2], x.q[2] * y.q[2])
FracTimes(x, y) == Fp(x.q[1] * y.q[1], x.q[2] * y.q[2])
FracDivide(x, y) == IF y.q[1] = 0 THEN None ELSE Fp(x.q[1] * y.q[2], x.q[2] * y.q[1])
FracLess(x, y) == x.q[1] * y.q[2] < y.q[1] * x.q[2]

-----------------------------------------------------------------------------
\* The functors of namespace metric_value_ops, on numbers.

\* A slip: plus without its overflow check.
PlusUnchecked(x, y) == IF x.t = "fp" \/ y.t = "fp" THEN FracPlus(x, y)
                       ELSE IntOf(Wrap(x.q[1] + y.q[1]))

Plus(x, y) ==
    LET m == x.q[1]  n == y.q[1] IN
    CASE x.t = "fp" \/ y.t = "fp" -> FracPlus(x, y)
      [] x.t = "unsigned" /\ y.t = "unsigned" ->
           IF Wrap(m + n) < n THEN FracPlus(x, y) ELSE IntOf(Wrap(m + n))
      [] x.t = "signed" /\ y.t = "signed" ->
           IF SignedMin - m > n THEN FracPlus(x, y) ELSE IntOf(m + n)
      [] OTHER -> IntOf(IF m + n < 0 THEN m + n ELSE Wrap(m + n))

Minus(x, y) ==
    LET m == x.q[1]  n == y.q[1] IN
    CASE x.t = "fp" \/ y.t = "fp" -> FracMinus(x, y)
      [] x.t = "unsigned" /\ y.t = "unsigned" ->
           IF n > m /\ n - m > AbsSignedMin THEN FracMinus(x, y) ELSE IntOf(m - n)
      [] x.t = "signed" /\ y.t = "signed" -> IntOf(m - n)
      [] x.t = "unsigned" /\ y.t = "signed" -> Plus(x, IntOf(-n))
      [] x.t = "signed" /\ y.t = "unsigned" ->
           LET neg == Wrap(n - m)
           IN  IF neg < n \/ neg > AbsSignedMin THEN FracMinus(x, y) ELSE IntOf(-neg)

\* The overload for an unsigned and a double subtracts.
Multiply(x, y) ==
    LET m == x.q[1]  n == y.q[1] IN
    CASE x.t = "unsigned" /\ y.t = "fp" -> FracMinus(x, y)
      [] (x.t = "fp" \/ y.t = "fp") /\ x.t # "unsigned" -> FracTimes(x, y)
      [] x.t = "fp" /\ y.t = "unsigned" -> FracTimes(x, y)
      [] x.t \in Integral /\ y.t = x.t ->
           IF m # 0 /\ UnsignedMax \div Abs(m) < Abs(n) THEN FracTimes(x, y) ELSE IntOf(m * n)
      [] x.t = "unsigned" /\ y.t = "signed" ->
           IF m # 0 /\ AbsSignedMin \div m < -n THEN FracTimes(x, y) ELSE IntOf(m * n)
      [] x.t = "signed" /\ y.t = "unsigned" ->
           IF n # 0 /\ AbsSignedMin \div n < -m THEN FracTimes(x, y) ELSE IntOf(m * n)

Divide(x, y) ==
    LET m == x.q[1]  n == y.q[1] IN
    CASE n = 0 -> None
      [] n # 0 /\ (x.t = "fp" \/ y.t = "fp") -> FracDivide(x, y)
      [] n # 0 /\ x.t # "fp" /\ y.t # "fp" ->
           IF \/ Abs(m) % Abs(n) # 0
              \/ x.t # y.t /\ m # 0 /\ Abs(m) \div Abs(n) > AbsSignedMin
           THEN FracDivide(x, y)
           ELSE LET quot == Abs(m) \div Abs(n) IN IntOf(IF x.t = y.t THEN quot ELSE -quot)

\* std::remainder: the quotient is rounded to the nearest integer, ties to even.
Nearest(q) == LET lo == Floor(q)
                  twice == <<2 * (q[1] - lo * q[2]), q[2]>>
              IN  CASE twice[1] < twice[2] -> lo
                    [] twice[1] > twice[2] -> lo + 1
                    [] twice[1] = twice[2] -> IF lo % 2 = 0 THEN lo ELSE lo + 1
FracRemainder(x, y) == LET n == Nearest(FracDivide(x, y).q)
                       IN  FracMinus(x, Fp(n * y.q[1], y.q[2]))

\* Where one operand is signed the built-in % first converts it to unsigned.
Modulo(x, y) ==
    LET m == x.q[1]  n == y.q[1] IN
    CASE n = 0 -> None
      [] n # 0 /\ (x.t = "fp" \/ y.t = "fp") -> FracRemainder(x, y)
      [] n # 0 /\ x.t = "signed" /\ y.t = "signed" -> IntOf(-(Abs(m) % Abs(n)))
      [] OTHER -> IntOf(Wrap(m) % Wrap(n))

FracScale(x, e) == IF e >= 0 THEN Fp(x.q[1] * 2^e, x.q[2]) ELSE Fp(x.q[1], x.q[2] * 2^(-e))

\* A shift by a double is a product with pow(2, y); only integral y is modelled.
ShiftLeft(x, y) ==
    LET m == x.q[1]  n == y.q[1] IN
    CASE x.t = "fp" \/ y.t = "fp" -> FracScale(x, n)
      [] x.t = "unsigned" /\ y.t = "unsigned" ->
           IF n >= Bits \/ UnsignedMax \div 2^n < m THEN FracScale(x, n) ELSE IntOf(m * 2^n)
      [] x.t = "signed" /\ y.t = "unsigned" ->
           IF n >= Bits - 2 \/ SignedMin \div 2^n > m THEN FracScale(x, n) ELSE IntOf(m * 2^n)
      [] x.t = "signed" /\ y.t = "signed" -> IntOf(0)   \* -digits - 1u is a large unsigned
      [] x.t = "unsigned" /\ y.t = "signed" ->
           IF n <= -Bits THEN IntOf(0) ELSE IntOf(m \div 2^(-n))

\* Shifting a double right by an integer scales it up again; an unsigned shifted
\* right by a negative count shifts max() by that count, which the target masks.
FracShiftRight(x, y) ==
    LET n == y.q[1] IN
    CASE y.t = "fp" -> FracScale(x, -n)
      [] y.t = "unsigned" /\ n > SignedMax -> FracScale(FracScale(x, -SignedMax), n - SignedMax)
      [] OTHER -> FracScale(x, n)
ShiftRight(x, y) ==
    LET m == x.q[1]  n == y.q[1] IN
    CASE x.t = "fp" \/ y.t = "fp" -> FracShiftRight(x, y)
      [] x.t = "unsigned" /\ y.t = "unsigned" -> IntOf(IF n >= Bits THEN 0 ELSE m \div 2^n)
      [] x.t = "signed" /\ y.t = "unsigned" -> IntOf(IF n >= Bits - 2 THEN 0 ELSE m \div 2^n)
      [] x.t = "signed" /\ y.t = "signed" -> FracShiftRight(x, y)
      [] x.t = "unsigned" /\ y.t = "signed" ->
           IF n <= -Bits \/ UnsignedMax \div 2^(Bits + n) < m
           THEN FracShiftRight(x, y) ELSE IntOf(Wrap(m * 2^(-n)))

-----------------------------------------------------------------------------
\* operator!, &&, ||, unary -, +, -, *, /, %, << and >> of metric_value.

\* operator! gives the truth value itself, so that unequal, less_equal and
\* greater_equal answer what equal, greater and less do.
Not(v) == IF AsBool(v) = {} THEN None ELSE Bool(AsBool(v) = {TRUE})
And(x, y) == IF AsBool(x) = {} \/ AsBool(y) = {} THEN None
             ELSE Bool(AsBool(x) = {TRUE} /\ AsBool(y) = {TRUE})
Or(x, y) == IF AsBool(x) = {} \/ AsBool(y) = {} THEN None
            ELSE Bool(AsBool(x) = {TRUE} \/ AsBool(y) = {TRUE})

Negate(v) == LET x == AsNumberOrHistogram(v) IN
             CASE x.t = "empty" -> None
               [] x.t = "histogram" -> Hist(HistNegate(x.h))
               [] x.t = "fp" \/ (x.t = "unsigned" /\ x.q[1] > AbsSignedMin) ->
                    Fp(-x.q[1], x.q[2])
               [] OTHER -> IntOf(-x.q[1])

\* The shape the binary operators share: numbers go to the functor, histograms
\* to the histogram's operator where there is one, and anything else gives the
\* empty value.  Histograms are multiplied by integers only, and not divided:
\* their counts would not be whole numbers.
Binary(x, y, number, histogram) ==
    CASE IsNum(x) /\ IsNum(y) -> number
      [] x.t = "histogram" \/ y.t = "histogram" -> histogram
      [] OTHER -> None

AreHists(x, y) == x.t = "histogram" /\ y.t = "histogram"

Add(v, w) == LET x == AsNumberOrHistogram(v)  y == AsNumberOrHistogram(w) IN
    Binary(x, y, Plus(x, y), IF AreHists(x, y) THEN Hist(HistPlus(x.h, y.h)) ELSE None)
Subtract(v, w) == LET x == AsNumberOrHistogram(v)  y == AsNumberOrHistogram(w) IN
    Binary(x, y, Minus(x, y), IF AreHists(x, y) THEN Hist(HistMinus(x.h, y.h)) ELSE None)
Times(v, w) == LET x == AsNumberOrHistogram(v)  y == AsNumberOrHistogram(w) IN
    Binary(x, y, Multiply(x, y), CASE IsNum(y) -> Hist(HistTimes(x.h, y.q[1]))
                                   [] IsNum(x) -> Hist(HistTimes(y.h, x.q[1]))
                                   [] OTHER -> None)
Mod(v, w) == LET x == AsNumber(v)  y == AsNumber(w) IN Binary(x, y, Modulo(x, y), None)
Shl(v, w) == LET x == AsNumber(v)  y == AsNumber(w) IN Binary(x, y, ShiftLeft(x, y), None)
Shr(v, w) == LET x == AsNumber(v)  y == AsNumber(w) IN Binary(x, y, ShiftRight(x, y), None)
Div(v, w) == LET x == AsNumber(v)  y == AsNumber(w) IN Binary(x, y, Divide(x, y), None)

-----------------------------------------------------------------------------
\* operator==, which decides what a hash map holds, and std::hash, up to collisions.
Same(x, y) == \/ x.t \in Numbers /\ y.t \in Numbers /\ x.q = y.q
              \/ x.t = y.t /\ x = y
HashOf(v) == IF v.t \in Numbers THEN <<"fp", v.q>> ELSE <<v.t, v>>

\* equal(): the operator of expressions; a bool compares as the integer it is.
AsRational(v) == IF v.t = "bool" THEN AsNumber(v) ELSE v
Equal(x, y) ==
    LET num == Numbers \cup {"bool"} IN
    CASE x.t \in num /\ y.t \in num -> Bool(AsRational(x).q = AsRational(y).q)
      [] x.t = y.t /\ x.t \in {"string", "histogram"} -> Bool(x = y)
      [] OTHER -> None
Unequal(x, y) == Not(Equal(x, y))

\* less(): a signed and an unsigned compare false whichever comes first.
Less(v, w) ==
    LET x == AsNumber(v)  y == AsNumber(w) IN
    CASE ~IsNum(x) \/ ~IsNum(y) -> None
      [] x.t \in Integral /\ y.t \in Integral /\ x.t # y.t -> Bool(FALSE)
      [] OTHER -> Bool(FracLess(x, y))
Greater(x, y) == Less(y, x)
LessEqual(x, y) == Not(Less(y, x))
GreaterEqual(x, y) == Not(Less(x, y))

\* before(): the order of tags and dictionaries.
Before(x, y) ==
    CASE x.t = "fp" /\ y.t = "unsigned" ->
           \/ x.q[1] < 0
           \/ x.q[1] = 0 /\ y.q[1] > 0
           \/ x.q[1] > 0 /\ ~FracLess(IntOf(UnsignedMax), x) /\ Floor(x.q) < y.q[1]
      [] x.t = "unsigned" /\ y.t = "fp" ->
           y.q[1] > 0 /\ (FracLess(IntOf(UnsignedMax), y) \/ x.q[1] < Ceil(y.q))
      [] x.t = "fp" /\ y.t = "signed" ->
           x.q[1] <= 0 /\ (FracLess(x, IntOf(SignedMin)) \/ Floor(x.q) < y.q[1])
      [] x.t = "signed" /\ y.t = "fp" ->
           y.q[1] > 0 \/ (~FracLess(y, IntOf(SignedMin)) /\ x.q[1] < Ceil(y.q))
      [] x.t = "signed" /\ y.t = "unsigned" -> TRUE
      [] x.t = "unsigned" /\ y.t = "signed" -> FALSE
      [] x.t = y.t /\ x.t \in Numbers -> FracLess(x, y)
      [] x.t = y.t /\ x.t = "bool" -> ~x.b /\ y.b
      [] x.t = y.t /\ x.t = "string" -> x.s < y.s
      [] x.t = y.t /\ x.t = "histogram" -> HistBefore(x.h, y.h)
      [] OTHER -> Index(x) < Index(y)
=============================================================================
