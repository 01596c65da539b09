---------------------------- MODULE JcArithmetic ----------------------------
(***************************************************************************)
(* The arithmetic of the calculator (serve.cpp:76-102) on the integers of  *)
(* std::int64_t, of which only the bounds matter.  Every operator of the   *)
(* machine wraps around: where a check that is to prevent an overflow      *)
(* overflowed itself, it would decide on a wrapped number.                 *)
(***************************************************************************)
EXTENDS Integers

CONSTANTS MinInt, MaxInt  \* of std::numeric_limits<std::int64_t>

ASSUME WidthAssumption == MaxInt \in Nat /\ MinInt = -MaxInt - 1

Int64 == MinInt..MaxInt
Wrap(n) == ((n - MinInt) % (MaxInt - MinInt + 1)) + MinInt
Plus(a, b)  == Wrap(a + b)
Minus(a, b) == Wrap(a - b)
Times(a, b) == Wrap(a * b)

\* Division of C++, toward zero; b is not zero.
Magnitude(n) == IF n < 0 THEN -n ELSE n
Quotient(a, b) ==
  LET q == Magnitude(a) \div Magnitude(b) IN Wrap(IF (a < 0) = (b < 0) THEN q ELSE -q)

AddOverflows(a, b) == \/ b > 0 /\ a > Minus(MaxInt, b)
                      \/ b < 0 /\ a < Minus(MinInt, b)

\* Slip: the checks of the addition, for the other sign.
SubOverflowsAsAdd(a, b) == \/ b < 0 /\ a > Minus(MaxInt, b)
                           \/ b > 0 /\ a < Minus(MinInt, b)

SubOverflows(a, b) == \/ b < 0 /\ a > Plus(MaxInt, b)
                      \/ b > 0 /\ a < Plus(MinInt, b)

\* -1 is dealt with first: MinInt / -1 has no result.
MulOverflows(a, b) ==
  /\ a # 0 /\ b # 0
  /\ \/ a = -1 /\ b = MinInt
     \/ a # -1 /\ b = -1 /\ a = MinInt
     \/ a # -1 /\ b # -1 /\ \/ a > 0 /\ b > 0 /\ a > Quotient(MaxInt, b)
                            \/ a > 0 /\ b < 0 /\ b < Quotient(MinInt, a)
                            \/ a < 0 /\ b > 0 /\ a < Quotient(MinInt, b)
                            \/ a < 0 /\ b < 0 /\ a < Quotient(MaxInt, b)

DivOverflows(a, b) == b = 0 \/ (a = MinInt /\ b = -1)

\* The request is answered with 400, or with this number.
Overflows(route, a, b) ==
  \/ route = "/add" /\ AddOverflows(a, b)
  \/ route = "/sub" /\ SubOverflows(a, b)
  \/ route = "/mul" /\ MulOverflows(a, b)
  \/ route = "/div" /\ DivOverflows(a, b)
Calculate(route, a, b) ==
  CASE route = "/add" -> Plus(a, b)
    [] route = "/sub" -> Minus(a, b)
    [] route = "/mul" -> Times(a, b)
    [] route = "/div" -> Quotient(a, b)

-----------------------------------------------------------------------------
\* What the four routes stand for, with the integers of mathematics: n is the
\* result of a and b; the quotient leaves a remainder that is smaller than the
\* divisor and has the sign of the dividend.
IsResult(route, a, b, n) ==
  CASE route = "/add" -> n = a + b
    [] route = "/sub" -> n = a - b
    [] route = "/mul" -> n = a * b
    [] route = "/div" -> LET r == a - n * b IN
                         /\ b # 0 /\ Magnitude(r) < Magnitude(b)
                         /\ r = 0 \/ ((r < 0) = (a < 0))

\* A route has no result when none that fits exists.
HasResult(route, a, b) == \E n \in Int64 : IsResult(route, a, b, n)
=============================================================================
