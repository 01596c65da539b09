------------------------------ MODULE JcProofs ------------------------------
(***************************************************************************)
(* The calculator over any number of connections, for any targets, files   *)
(* and peers, and integers of any width: its types, that serve answers     *)
(* each request once and in order, keeps no connection it is done with,    *)
(* and dies only of a client that leaves too early, and that what b prints *)
(* and how it exits is right.                                              *)
(***************************************************************************)
EXTENDS Jc, SequenceTheorems, FiniteSetTheorems, TLAPS

-----------------------------------------------------------------------------
(* Arithmetic: the checks of the calculator are exact for integers of      *)
(* every width.  A request is refused if and only if its result does not   *)
(* fit, and no number that decides on this, or is printed, has wrapped.    *)

\* A number that fits does not wrap (serve.cpp:78-99).
LEMMA WrapFits == ASSUME NEW n \in Int64 PROVE Wrap(n) = n
BY WidthAssumption, SMT DEF Wrap, Int64

\* The difference of the largest or smallest number and an operand of the
\* same sign fits, and so does the sum with one of the other sign.
LEMMA BoundsFit ==
  ASSUME NEW b \in Int64
  PROVE  /\ b > 0 => Minus(MaxInt, b) = MaxInt - b /\ Plus(MinInt, b) = MinInt + b
         /\ b < 0 => Minus(MinInt, b) = MinInt - b /\ Plus(MaxInt, b) = MaxInt + b
<1>1. b \in Int /\ MinInt \in Int /\ MaxInt \in Int
  BY WidthAssumption DEF Int64
<1>2. CASE b > 0
  <2>1. MaxInt - b \in Int64 /\ MinInt + b \in Int64
    BY <1>1, <1>2, WidthAssumption DEF Int64
  <2> QED BY <2>1, <1>2, <1>1, WrapFits DEF Minus, Plus
<1>3. CASE b < 0
  <2>1. MinInt - b \in Int64 /\ MaxInt + b \in Int64
    BY <1>1, <1>3, WidthAssumption DEF Int64
  <2> QED BY <2>1, <1>3, <1>1, WrapFits DEF Minus, Plus
<1> QED BY <1>1, <1>2, <1>3

\* The addition (serve.cpp:78-81).
LEMMA AddExact ==
  ASSUME NEW a \in Int64, NEW b \in Int64
  PROVE  AddOverflows(a, b) <=> a + b \notin Int64
<1>1. a \in Int /\ b \in Int
  BY WidthAssumption DEF Int64
<1>2. CASE b > 0
  BY <1>1, <1>2, BoundsFit, WidthAssumption DEF AddOverflows, Int64
<1>3. CASE b < 0
  BY <1>1, <1>3, BoundsFit, WidthAssumption DEF AddOverflows, Int64
<1>4. CASE b = 0
  BY <1>1, <1>4, WidthAssumption DEF AddOverflows, Int64
<1> QED BY <1>1, <1>2, <1>3, <1>4

\* The subtraction (serve.cpp:82-85).
LEMMA SubExact ==
  ASSUME NEW a \in Int64, NEW b \in Int64
  PROVE  SubOverflows(a, b) <=> a - b \notin Int64
<1>1. a \in Int /\ b \in Int
  BY WidthAssumption DEF Int64
<1>2. CASE b > 0
  BY <1>1, <1>2, BoundsFit, WidthAssumption DEF SubOverflows, Int64
<1>3. CASE b < 0
  BY <1>1, <1>3, BoundsFit, WidthAssumption DEF SubOverflows, Int64
<1>4. CASE b = 0
  BY <1>1, <1>4, WidthAssumption DEF SubOverflows, Int64
<1> QED BY <1>1, <1>2, <1>3, <1>4

-----------------------------------------------------------------------------
\* Division of natural numbers: the quotient and the remainder.
LEMMA NatDivision ==
  ASSUME NEW x \in Nat, NEW y \in Nat, y > 0
  PROVE  /\ x \div y \in Nat /\ x \div y <= x
         /\ y * (x \div y) <= x /\ x < y * (x \div y) + y
OBVIOUS

\* A factor that is larger than a quotient makes a product that is larger than
\* the dividend, and only such a factor does.
LEMMA ProductBound ==
  ASSUME NEW x \in Nat, NEW y \in Nat, NEW f \in Nat, y > 0
  PROVE  f > x \div y <=> f * y > x
<1> DEFINE q == x \div y
<1>1. q \in Nat /\ y * q <= x /\ x < y * q + y
  BY NatDivision
<1> HIDE DEF q
<1>2. CASE f > q
  <2>1. f >= q + 1
    BY <1>1, <1>2
  <2>2. f * y >= (q + 1) * y
    BY <2>1, <1>1
  <2>3. (q + 1) * y = y * q + y
    BY <1>1
  <2> QED BY <2>2, <2>3, <1>1, <1>2
<1>3. CASE f <= q
  <2>1. f * y <= y * q
    BY <1>1, <1>3
  <2> QED BY <2>1, <1>1, <1>3
<1>4. (f > q) <=> f * y > x
  BY <1>1, <1>2, <1>3
<1> QED BY <1>4 DEF q

\* What C++ computes for the quotients that the checks use.
LEMMA QuotientOf ==
  ASSUME NEW x \in Int64, NEW y \in Int64, y # 0, ~(x = MinInt /\ y = -1)
  PROVE  LET q == Magnitude(x) \div Magnitude(y)
         IN Quotient(x, y) = IF (x < 0) = (y < 0) THEN q ELSE -q
<1> DEFINE q == Magnitude(x) \div Magnitude(y)
           r == IF (x < 0) = (y < 0) THEN q ELSE -q
<1>1. /\ x \in Int /\ y \in Int /\ MinInt \in Int /\ MaxInt \in Nat /\ MinInt = -MaxInt - 1
      /\ x >= MinInt /\ x <= MaxInt
  BY WidthAssumption DEF Int64
<1>2. /\ Magnitude(x) \in Nat /\ Magnitude(y) \in Nat /\ Magnitude(y) > 0
      /\ Magnitude(x) <= MaxInt + 1 /\ (Magnitude(x) = MaxInt + 1 => x = MinInt)
  BY <1>1 DEF Magnitude
<1>3. /\ q \in Nat /\ q <= Magnitude(x)
      /\ Magnitude(y) * q <= Magnitude(x)
  BY <1>2, NatDivision
<1> HIDE DEF q
<1>4. r \in Int64
  <2>1. CASE q <= MaxInt
    BY <2>1, <1>1, <1>3 DEF Int64
  <2>2. CASE q > MaxInt
    <3>1. q = MaxInt + 1 /\ x = MinInt
      BY <2>2, <1>1, <1>2, <1>3
    <3>2. Magnitude(y) = 1
      <4>1. Magnitude(y) * q <= q
        BY <3>1, <1>1, <1>2, <1>3
      <4>2. Magnitude(y) >= 2 => Magnitude(y) * q >= 2 * q
        BY <1>2, <1>3
      <4> QED BY <4>1, <4>2, <3>1, <1>1, <1>2
    <3>3. y = 1
      BY <3>1, <3>2, <1>1 DEF Magnitude
    <3>4. r = -q
      BY <3>1, <3>3, <1>1
    <3> QED BY <3>1, <3>4, <1>1 DEF Int64
  <2> QED BY <2>1, <2>2, <1>1, <1>3
<1>5. Wrap(r) = r
  BY <1>4, WrapFits
<1> QED BY <1>5 DEF Quotient, q

\* The multiplication (serve.cpp:86-95): every case compares one factor with
\* the quotient of a bound by the other.
LEMMA MulExact ==
  ASSUME NEW a \in Int64, NEW b \in Int64
  PROVE  MulOverflows(a, b) <=> a * b \notin Int64
<1>1. /\ a \in Int /\ b \in Int /\ MinInt \in Int /\ MaxInt \in Nat /\ MinInt = -MaxInt - 1
      /\ a >= MinInt /\ a <= MaxInt /\ b >= MinInt /\ b <= MaxInt
  BY WidthAssumption DEF Int64
<1>2. MinInt \in Int64 /\ MaxInt \in Int64
  BY <1>1 DEF Int64
<1>3. a * b \in Int /\ a * b = b * a
  BY <1>1
<1>4. CASE a = 0 \/ b = 0
  <2>1. a * b = 0
    BY <1>1, <1>4
  <2> QED BY <2>1, <1>1, <1>4 DEF MulOverflows, Int64
<1>5. CASE a = -1 /\ b # 0
  <2>1. a * b = -b
    BY <1>1, <1>5
  <2> QED BY <2>1, <1>1, <1>5 DEF MulOverflows, Int64
<1>6. CASE a # -1 /\ a # 0 /\ b = -1
  <2>1. a * b = -a
    BY <1>1, <1>6
  <2> QED BY <2>1, <1>1, <1>6 DEF MulOverflows, Int64
<1>7. CASE a > 0 /\ b > 0
  <2>1. Quotient(MaxInt, b) = MaxInt \div b
    BY <1>1, <1>2, <1>7, QuotientOf DEF Magnitude
  <2>2. a > MaxInt \div b <=> a * b > MaxInt
    BY <1>1, <1>7, ProductBound
  <2>3. a * b >= 0
    BY <1>1, <1>7
  <2>4. MulOverflows(a, b) <=> a > Quotient(MaxInt, b)
    BY <1>1, <1>7 DEF MulOverflows
  <2> QED BY <2>1, <2>2, <2>3, <2>4, <1>1, <1>3 DEF Int64
<1>8. CASE a > 0 /\ b < 0 /\ b # -1
  <2>1. Quotient(MinInt, a) = -((MaxInt + 1) \div a)
    BY <1>1, <1>2, <1>8, QuotientOf DEF Magnitude
  <2>2. -b > (MaxInt + 1) \div a <=> (-b) * a > MaxInt + 1
    BY <1>1, <1>8, ProductBound
  <2>3. (-b) * a = -(a * b) /\ a * b <= 0
    BY <1>1, <1>8
  <2>4. MulOverflows(a, b) <=> b < Quotient(MinInt, a)
    BY <1>1, <1>8 DEF MulOverflows
  <2>5. (MaxInt + 1) \div a \in Int
    BY <1>1, <1>8
  <2> QED BY <2>1, <2>2, <2>3, <2>4, <2>5, <1>1, <1>3 DEF Int64
<1>9. CASE a < 0 /\ a # -1 /\ b > 0
  <2>1. Quotient(MinInt, b) = -((MaxInt + 1) \div b)
    BY <1>1, <1>2, <1>9, QuotientOf DEF Magnitude
  <2>2. -a > (MaxInt + 1) \div b <=> (-a) * b > MaxInt + 1
    BY <1>1, <1>9, ProductBound
  <2>3. (-a) * b = -(a * b) /\ a * b <= 0
    BY <1>1, <1>9
  <2>4. MulOverflows(a, b) <=> a < Quotient(MinInt, b)
    BY <1>1, <1>9 DEF MulOverflows
  <2>5. (MaxInt + 1) \div b \in Int
    BY <1>1, <1>9
  <2> QED BY <2>1, <2>2, <2>3, <2>4, <2>5, <1>1, <1>3 DEF Int64
<1>10. CASE a < 0 /\ a # -1 /\ b < 0 /\ b # -1
  <2>1. Quotient(MaxInt, b) = -(MaxInt \div (-b))
    BY <1>1, <1>2, <1>10, QuotientOf DEF Magnitude
  <2>2. -a > MaxInt \div (-b) <=> (-a) * (-b) > MaxInt
    BY <1>1, <1>10, ProductBound
  <2>3. (-a) * (-b) = a * b /\ a * b >= 0
    BY <1>1, <1>10
  <2>4. MulOverflows(a, b) <=> a < Quotient(MaxInt, b)
    BY <1>1, <1>10 DEF MulOverflows
  <2>5. MaxInt \div (-b) \in Int
    BY <1>1, <1>10
  <2> QED BY <2>1, <2>2, <2>3, <2>4, <2>5, <1>1, <1>3 DEF Int64
<1> QED BY <1>1, <1>4, <1>5, <1>6, <1>7, <1>8, <1>9, <1>10

\* The quotient and the remainder of numbers of any sign.
LEMMA TruncatedDivision ==
  ASSUME NEW a \in Int, NEW b \in Int, b # 0
  PROVE  LET q == Magnitude(a) \div Magnitude(b)
         IN IsResult("/div", a, b, IF (a < 0) = (b < 0) THEN q ELSE -q)
<1> DEFINE q == Magnitude(a) \div Magnitude(b)
           n == IF (a < 0) = (b < 0) THEN q ELSE -q
<1>1. Magnitude(a) \in Nat /\ Magnitude(b) \in Nat /\ Magnitude(b) > 0
  BY DEF Magnitude
<1>2. /\ q \in Nat /\ Magnitude(b) * q <= Magnitude(a)
      /\ Magnitude(a) < Magnitude(b) * q + Magnitude(b)
  BY <1>1, NatDivision
<1> HIDE DEF q
<1>3. n * b = IF a < 0 THEN -(Magnitude(b) * q) ELSE Magnitude(b) * q
  <2>1. b = Magnitude(b) \/ b = -Magnitude(b)
    BY DEF Magnitude
  <2> QED BY <1>2, <2>1 DEF Magnitude
<1>4. Magnitude(b) * q \in Nat
  BY <1>1, <1>2
<1> DEFINE m == Magnitude(b) * q
           r == a - n * b
<1>5. /\ b # 0 /\ Magnitude(r) < Magnitude(b)
      /\ r = 0 \/ ((r < 0) = (a < 0))
  <2> HIDE DEF m, n
  <2>1. m \in Nat /\ m <= Magnitude(a) /\ Magnitude(a) < m + Magnitude(b)
    BY <1>2, <1>4 DEF m
  <2>2. r = IF a < 0 THEN a + m ELSE a - m
    BY <1>3, <2>1 DEF m
  <2>3. CASE a < 0
    BY <2>1, <2>2, <2>3 DEF Magnitude
  <2>4. CASE a >= 0
    BY <2>1, <2>2, <2>4 DEF Magnitude
  <2> QED BY <2>3, <2>4
<1>6. IsResult("/div", a, b, n)
  BY <1>5, Zenon DEF IsResult
<1> QED BY <1>6 DEF q

\* Whatever wraps around fits.
LEMMA WrapInRange == ASSUME NEW n \in Int PROVE Wrap(n) \in Int64
<1>1. MinInt \in Int /\ MaxInt \in Nat
  BY WidthAssumption
<1> DEFINE w == MaxInt - MinInt + 1
<1>2. w \in Nat /\ w > 0
  BY WidthAssumption
<1>3. (n - MinInt) % w \in 0..(w - 1)
  <2> HIDE DEF w
  <2> QED BY <1>1, <1>2
<1> QED BY <1>1, <1>3 DEF Wrap, Int64

\* The two divisions without a result (serve.cpp:96-97): by zero, and of the
\* smallest number by -1.
LEMMA DivWithoutResult ==
  ASSUME NEW a \in Int64, NEW b \in Int64, DivOverflows(a, b)
  PROVE  ~HasResult("/div", a, b)
<1> SUFFICES ASSUME NEW n \in Int64, IsResult("/div", a, b, n) PROVE FALSE
  BY DEF HasResult
<1>1. b # 0 /\ Magnitude(a - n * b) < Magnitude(b)
  BY Zenon DEF IsResult
<1>2. a = MinInt /\ b = -1
  BY <1>1 DEF DivOverflows
<1>3. n \in Int /\ n <= MaxInt /\ MaxInt \in Nat /\ a = -MaxInt - 1
  BY <1>2, WidthAssumption DEF Int64
<1>4. a - n * b = n - MaxInt - 1
  BY <1>2, <1>3
<1> QED BY <1>1, <1>2, <1>3, <1>4 DEF Magnitude

\* Every other division has one, and the quotient of C++ is it (serve.cpp:99).
LEMMA DivExact ==
  ASSUME NEW a \in Int64, NEW b \in Int64, ~DivOverflows(a, b)
  PROVE  Quotient(a, b) \in Int64 /\ IsResult("/div", a, b, Quotient(a, b))
<1> DEFINE q == Magnitude(a) \div Magnitude(b)
           n == IF (a < 0) = (b < 0) THEN q ELSE -q
<1>1. a \in Int /\ b \in Int /\ b # 0 /\ ~(a = MinInt /\ b = -1)
  BY WidthAssumption DEF Int64, DivOverflows
<1>2. Magnitude(a) \in Nat /\ Magnitude(b) \in Nat /\ Magnitude(b) > 0
  BY <1>1 DEF Magnitude
<1>3. n \in Int
  BY <1>2
<1>4. Quotient(a, b) = n /\ IsResult("/div", a, b, n)
  BY <1>1, QuotientOf, TruncatedDivision
<1>5. Quotient(a, b) \in Int64
  BY <1>3, WrapInRange DEF Quotient
<1> QED BY <1>4, <1>5

\* The arithmetic of the calculator is exact (serve.cpp:78-102): a request on
\* the four routes is refused exactly if no result fits, and the number of any
\* other answer fits, has not wrapped around and is the result.
THEOREM ArithmeticIsExact ==
  ASSUME NEW a \in Int64, NEW b \in Int64, NEW route \in {"/add", "/sub", "/mul", "/div"}
  PROVE  /\ Overflows(route, a, b) <=> ~HasResult(route, a, b)
         /\ ~Overflows(route, a, b) => /\ Calculate(route, a, b) \in Int64
                                       /\ IsResult(route, a, b, Calculate(route, a, b))
<1>1. a \in Int /\ b \in Int
  BY WidthAssumption DEF Int64
<1>2. CASE route = "/add"
  <2>1. \A n \in Int64 : IsResult(route, a, b, n) <=> n = a + b
    BY <1>2, Zenon DEF IsResult
  <2>2. HasResult(route, a, b) <=> a + b \in Int64
    BY <2>1, <1>1 DEF HasResult
  <2>3. Overflows(route, a, b) <=> a + b \notin Int64
    BY <1>2, AddExact DEF Overflows
  <2>4. a + b \in Int64 => Calculate(route, a, b) = a + b
    BY <1>2, WrapFits DEF Calculate, Plus
  <2> QED BY <2>1, <2>2, <2>3, <2>4
<1>3. CASE route = "/sub"
  <2>1. \A n \in Int64 : IsResult(route, a, b, n) <=> n = a - b
    BY <1>3, Zenon DEF IsResult
  <2>2. HasResult(route, a, b) <=> a - b \in Int64
    BY <2>1, <1>1 DEF HasResult
  <2>3. Overflows(route, a, b) <=> a - b \notin Int64
    BY <1>3, SubExact DEF Overflows
  <2>4. a - b \in Int64 => Calculate(route, a, b) = a - b
    BY <1>3, WrapFits DEF Calculate, Minus
  <2> QED BY <2>1, <2>2, <2>3, <2>4
<1>4. CASE route = "/mul"
  <2>1. \A n \in Int64 : IsResult(route, a, b, n) <=> n = a * b
    BY <1>4, Zenon DEF IsResult
  <2>2. HasResult(route, a, b) <=> a * b \in Int64
    BY <2>1, <1>1 DEF HasResult
  <2>3. Overflows(route, a, b) <=> a * b \notin Int64
    BY <1>4, MulExact DEF Overflows
  <2>4. a * b \in Int64 => Calculate(route, a, b) = a * b
    BY <1>4, WrapFits DEF Calculate, Times
  <2> QED BY <2>1, <2>2, <2>3, <2>4
<1>5. CASE route = "/div"
  <2>1. Overflows(route, a, b) <=> DivOverflows(a, b)
    BY <1>5 DEF Overflows
  <2>2. Calculate(route, a, b) = Quotient(a, b)
    BY <1>5 DEF Calculate
  <2>3. CASE DivOverflows(a, b)
    BY <1>5, <2>1, <2>3, DivWithoutResult
  <2>4. CASE ~DivOverflows(a, b)
    BY <1>5, <2>1, <2>2, <2>4, DivExact DEF HasResult
  <2> QED BY <2>3, <2>4
<1> QED BY <1>2, <1>3, <1>4, <1>5

-----------------------------------------------------------------------------
(* The calculator                                                          *)

Requests  == Offers \cup {Frame("REQUEST", RequestTo(t.path)) : t \in Targets}
Payloads  == {f.payload : f \in Requests}
Own       == {Error(0), Error(400)} \cup {Answer(p) : p \in Payloads}
Responses == Own \cup Replies
Results   == {f.payload : f \in Responses}

Chan(S) == [q : Seq(S), end : Ends]

-----------------------------------------------------------------------------
(* Channels                                                                *)

LEMMA WriteType ==
  ASSUME NEW S, NEW ch \in Chan(S), NEW f \in S
  PROVE  /\ WriteFrame(ch, f) \in Chan(S) /\ WriteFrame(ch, f).end = ch.end
         /\ ch.end # "open" => WriteFrame(ch, f) = ch
         /\ ch.end = "open" => /\ WriteFrame(ch, f).q = Append(ch.q, f)
                               /\ Len(WriteFrame(ch, f).q) = Len(ch.q) + 1
                               /\ \A i \in 1..Len(ch.q) : WriteFrame(ch, f).q[i] = ch.q[i]
                               /\ WriteFrame(ch, f).q[Len(ch.q) + 1] = f
BY AppendProperties, SMTT(30) DEF WriteFrame, Chan

LEMMA ReadType ==
  ASSUME NEW S, NEW ch \in Chan(S), CanRead(ch)
  PROVE  /\ ReadFrame(ch) \in Chan(S) /\ ReadFrame(ch).end = ch.end
         /\ Len(ReadFrame(ch).q) = Len(ch.q) - 1 /\ Len(ch.q) \in Nat
         /\ \A i \in 1..Len(ReadFrame(ch).q) : ReadFrame(ch).q[i] = ch.q[i + 1]
         /\ Head(ch.q) \in S /\ Head(ch.q) = ch.q[1] /\ Len(ch.q) > 0
BY HeadTailProperties DEF ReadFrame, CanRead, Chan

\* What is left of a channel to which nothing more is written or read.
Leaves(ch, b) ==
  /\ b.end = "none" <=> ch.end = "none"
  /\ b.end = "open" => ch.end = "open"
  /\ Len(b.q) <= Len(ch.q) /\ \A i \in 1..Len(b.q) : b.q[i] = ch.q[i]

LEMMA AbandonedType ==
  ASSUME NEW S, NEW ch \in Chan(S)
  PROVE  /\ Abandoned(ch) \in Chan(S) /\ Leaves(ch, Abandoned(ch))
         /\ Abandoned(ch).end # "open" /\ Abandoned(ch).q = ch.q
BY DEF Abandoned, Chan, Ends, Cuts, Leaves

LEMMA EndedType ==
  ASSUME NEW S, NEW ch \in Chan(S), NEW unread, NEW b \in Ended(ch, unread)
  PROVE  b \in Chan(S) /\ Leaves(ch, b) /\ b.end # "open" /\ (ch.end # "open" => b = ch)
<1>0. ch.q \in Seq(S) /\ Len(ch.q) \in Nat /\ ch.end \in Ends
  BY DEF Chan
<1>1. CASE ch.end # "open"
  <2>1. b = ch
    BY <1>1 DEF Ended
  <2> QED
    BY <1>0, <1>1, <2>1 DEF Leaves
<1>2. CASE ch.end = "open" /\ b = [ch EXCEPT !.end = "eof"]
  BY <1>0, <1>2 DEF Chan, Ends, Cuts, Leaves
<1>3. CASE ch.end = "open" /\ \E n \in 0..Len(ch.q) : b = [q |-> SubSeq(ch.q, 1, n), end |-> "reset"]
  <2>1. PICK n \in 0..Len(ch.q) : b = [q |-> SubSeq(ch.q, 1, n), end |-> "reset"]
    BY <1>3
  <2>2. \A i \in 1..n : ch.q[i] \in S
    BY <1>0
  <2>3. /\ SubSeq(ch.q, 1, n) \in Seq(S) /\ Len(SubSeq(ch.q, 1, n)) = n
        /\ \A i \in 1..n : SubSeq(ch.q, 1, n)[i] = ch.q[i]
    BY <1>0, <2>2, SubSeqProperties
  <2> QED
    BY <1>0, <1>3, <2>1, <2>3 DEF Chan, Ends, Leaves
<1> QED
  BY <1>1, <1>2, <1>3 DEF Ended

LEMMA FreshType == ASSUME NEW S PROVE Fresh \in Chan(S) /\ Closed \in Chan(S)
BY DEF Fresh, Closed, Chan, Ends

-----------------------------------------------------------------------------
(* Types                                                                   *)

ServerLabels == {"accept", "read", "send", "sending", "sorry", "exit", "killed"}
ClientLabels == {"peer", "start", "connect", "send", "recv", "done", "exit", "left"}

Typed ==
  /\ setup \in Setups
  /\ spc \in ServerLabels /\ cur \in Clients \cup {NoClient} /\ reply \in Own
  /\ cur = NoClient <=> spc \in {"accept", "exit", "killed"}
  /\ backlog \in Seq(Clients)
  /\ up \in [Clients -> Chan(Requests)] /\ down \in [Clients -> Chan(Responses)]
  /\ cpc \in [Clients -> ClientLabels] /\ todo \in [Clients -> Seq(Targets)]
  /\ printed \in [Clients -> Seq(Results)] /\ code \in [Clients -> {-1, 0, 1, 141}]
  /\ taken \in [Clients -> Seq(Payloads)] /\ given \in [Clients -> Seq(Responses)]

LEMMA TypedInit == Init => Typed
<1> SUFFICES ASSUME Init PROVE Typed
  OBVIOUS
<1>1. setup \in Setups /\ setup.targets \in [Clients -> Seq(Targets)]
  BY JcAssumption DEF Init
<1>2. /\ spc = "accept" /\ cur = NoClient /\ reply \in Own /\ backlog \in Seq(Clients)
  BY DEF Init, InitServer, Own
<1>3. up \in [Clients -> Chan(Requests)] /\ down \in [Clients -> Chan(Responses)]
  BY FreshType DEF Init
<1>4. /\ cpc \in [Clients -> ClientLabels] /\ todo \in [Clients -> Seq(Targets)]
      /\ printed \in [Clients -> Seq(Results)] /\ code \in [Clients -> {-1, 0, 1, 141}]
  BY <1>1 DEF Init, InitClient, ClientLabels
<1>5. taken \in [Clients -> Seq(Payloads)] /\ given \in [Clients -> Seq(Responses)]
  BY DEF Init
<1> QED
  BY <1>1, <1>2, <1>3, <1>4, <1>5 DEF Typed, ServerLabels

\* Closing the connection in hand.
LEMMA CloseClientFacts ==
  ASSUME Typed, cur \in Clients, CloseClient
  PROVE  /\ up' \in [Clients -> Chan(Requests)] /\ down' \in [Clients -> Chan(Responses)]
         /\ \A k \in Clients : Leaves(up[k], up'[k]) /\ Leaves(down[k], down'[k])
         /\ \A k \in Clients \ {cur} : up'[k] = up[k] /\ down'[k] = down[k]
         /\ up'[cur].end # "open" /\ down'[cur].end # "open"
         /\ spc' = "accept" /\ cur' = NoClient /\ UNCHANGED <<backlog, reply>>
<1>1. /\ up \in [Clients -> Chan(Requests)] /\ down \in [Clients -> Chan(Responses)]
      /\ up[cur] \in Chan(Requests) /\ down[cur] \in Chan(Responses)
  BY DEF Typed
<1>2. PICK d \in Ended(down[cur], CanRead(up[cur])) : down' = [down EXCEPT ![cur] = d]
  BY DEF CloseClient
<1>3. up' = [up EXCEPT ![cur] = Abandoned(up[cur])]
  BY DEF CloseClient
<1>4. /\ d \in Chan(Responses) /\ Leaves(down[cur], d) /\ d.end # "open"
      /\ Abandoned(up[cur]) \in Chan(Requests) /\ Leaves(up[cur], Abandoned(up[cur]))
      /\ Abandoned(up[cur]).end # "open"
  BY <1>1, EndedType, AbandonedType
<1>5. \A k \in Clients \ {cur} : up'[k] = up[k] /\ down'[k] = down[k]
  BY <1>1, <1>2, <1>3
<1>6. \A k \in Clients : Leaves(up[k], up[k]) /\ Leaves(down[k], down[k])
  BY <1>1 DEF Leaves, Chan
<1>7. spc' = "accept" /\ cur' = NoClient /\ UNCHANGED <<backlog, reply>>
  BY DEF CloseClient
<1> QED
  BY <1>1, <1>2, <1>3, <1>4, <1>5, <1>6, <1>7

\* The end of a client, or its leaving.
Quits(k) ==
  /\ down' = [down EXCEPT ![k] = Abandoned(@)]
  /\ \E ch \in Ended(up[k], CanRead(down[k])) : up' = [up EXCEPT ![k] = ch]
  /\ UNCHANGED backlog

LEMMA QuitsFacts ==
  ASSUME Typed, NEW c \in Clients, Quits(c)
  PROVE  /\ up' \in [Clients -> Chan(Requests)] /\ down' \in [Clients -> Chan(Responses)]
         /\ \A k \in Clients : Leaves(up[k], up'[k]) /\ Leaves(down[k], down'[k])
         /\ \A k \in Clients \ {c} : up'[k] = up[k] /\ down'[k] = down[k]
         /\ up'[c].end # "open" /\ down'[c].end # "open"
<1>1. /\ up \in [Clients -> Chan(Requests)] /\ down \in [Clients -> Chan(Responses)]
      /\ up[c] \in Chan(Requests) /\ down[c] \in Chan(Responses)
  BY DEF Typed
<1>2. PICK d \in Ended(up[c], CanRead(down[c])) : up' = [up EXCEPT ![c] = d]
  BY DEF Quits
<1>3. down' = [down EXCEPT ![c] = Abandoned(down[c])]
  BY DEF Quits
<1>4. /\ d \in Chan(Requests) /\ Leaves(up[c], d) /\ d.end # "open"
      /\ Abandoned(down[c]) \in Chan(Responses) /\ Leaves(down[c], Abandoned(down[c]))
      /\ Abandoned(down[c]).end # "open"
  BY <1>1, EndedType, AbandonedType
<1>5. \A k \in Clients \ {c} : up'[k] = up[k] /\ down'[k] = down[k]
  BY <1>1, <1>2, <1>3
<1>6. \A k \in Clients : Leaves(up[k], up[k]) /\ Leaves(down[k], down[k])
  BY <1>1 DEF Leaves, Chan
<1> QED
  BY <1>1, <1>2, <1>3, <1>4, <1>5, <1>6

\* The end of serve.
LEMMA EndServerFacts ==
  ASSUME Typed, NEW how, EndServer(how)
  PROVE  /\ up' \in [Clients -> Chan(Requests)] /\ down' \in [Clients -> Chan(Responses)]
         /\ \A k \in Clients : Leaves(up[k], up'[k]) /\ Leaves(down[k], down'[k])
         /\ \A k \in Clients :
              (k = cur \/ \E i \in 1..Len(backlog) : backlog[i] = k)
                => up'[k].end # "open" /\ down'[k].end # "open"
         /\ \A k \in Clients : \/ up'[k].end # "open" /\ down'[k].end # "open"
                               \/ up'[k] = up[k] /\ down'[k] = down[k]
         /\ spc' = how /\ cur' = NoClient /\ backlog' = <<>> /\ reply' = reply
<1> DEFINE held == {k \in Clients : k = cur \/ \E i \in 1..Len(backlog) : backlog[i] = k}
<1>1. /\ up \in [Clients -> Chan(Requests)] /\ down \in [Clients -> Chan(Responses)]
  BY DEF Typed
<1>2. up' = [k \in Clients |-> IF k \in held THEN Abandoned(up[k]) ELSE up[k]]
  BY DEF EndServer
<1>3. PICK d \in [Clients -> UNION {Ended(down[k], TRUE) : k \in Clients}] :
        /\ \A k \in Clients : d[k] \in IF k \in held THEN Ended(down[k], CanRead(up[k])) ELSE {down[k]}
        /\ down' = d
  BY DEF EndServer
<1>4. spc' = how /\ cur' = NoClient /\ backlog' = <<>> /\ reply' = reply
  BY DEF EndServer
<1>5. ASSUME NEW k \in Clients
      PROVE  /\ up'[k] \in Chan(Requests) /\ down'[k] \in Chan(Responses)
             /\ Leaves(up[k], up'[k]) /\ Leaves(down[k], down'[k])
             /\ k \in held => up'[k].end # "open" /\ down'[k].end # "open"
             /\ k \notin held => up'[k] = up[k] /\ down'[k] = down[k]
  <2>1. up[k] \in Chan(Requests) /\ down[k] \in Chan(Responses)
    BY <1>1
  <2>2. CASE k \in held
    <3>1. up'[k] = Abandoned(up[k]) /\ down'[k] \in Ended(down[k], CanRead(up[k]))
      BY <1>2, <1>3, <2>2
    <3>2. /\ up'[k] \in Chan(Requests) /\ down'[k] \in Chan(Responses)
          /\ Leaves(up[k], up'[k]) /\ Leaves(down[k], down'[k])
          /\ up'[k].end # "open" /\ down'[k].end # "open"
      BY <2>1, <3>1, EndedType, AbandonedType
    <3> QED
      BY <2>2, <3>2
  <2>3. CASE k \notin held
    <3>1. up'[k] = up[k] /\ down'[k] = down[k]
      BY <1>2, <1>3, <2>3
    <3> QED
      BY <2>1, <2>3, <3>1 DEF Leaves, Chan
  <2> QED
    BY <2>2, <2>3
<1>6. up' = [k \in Clients |-> up'[k]] /\ down' = [k \in Clients |-> down'[k]]
  BY <1>2, <1>3
<1> QED
  BY <1>4, <1>5, <1>6

\* What the record of a step of serve says.
Recorded(t, g) == taken' = t /\ given' = g

LEMMA ServeRecord ==
  ASSUME Typed, ServeStep
  PROVE  \/ (Accept \/ Skip \/ CloseAtEnd \/ SendReturns \/ SendThrows \/ SendKills) /\ Recorded(taken, given)
         \/ /\ Take
            /\ Recorded([taken EXCEPT ![cur] = Append(@, Head(up[cur].q).payload)], given)
         \/ /\ Send
            /\ Recorded(taken, IF down[cur].end = "open"
                               THEN [given EXCEPT ![cur] = Append(@, reply)] ELSE given)
<1>1. CASE Accept
  BY <1>1 DEF ServeStep, Accept, Recorded
<1>2. CASE Skip
  BY <1>2 DEF ServeStep, Skip, Takes, Recorded
<1>3. CASE Take
  BY <1>3 DEF ServeStep, Take, Takes, Recorded
<1>4. CASE CloseAtEnd
  <2>1. ~(CanRead(up[cur]) /\ Head(up[cur].q).type = "REQUEST") /\ spc = "read"
    BY <1>4 DEF CloseAtEnd, ReadEnds, CanRead, Readable, TooLarge
  <2> QED
    BY <1>4, <2>1 DEF ServeStep, Recorded
<1>5. CASE Send
  BY <1>5 DEF ServeStep, Send, Recorded
<1>6. CASE SendReturns
  BY <1>6 DEF ServeStep, SendReturns, Recorded
<1>7. CASE SendThrows
  <2>1. spc # "read" /\ ~(spc' \in {"read", "sending"})
    BY <1>7 DEF SendThrows, Writing, CloseClient
  <2> QED
    BY <1>7, <2>1 DEF ServeStep, Recorded
<1>8. CASE SendKills
  <2>1. spc # "read" /\ ~(spc' \in {"read", "sending"})
    BY <1>8 DEF SendKills, Writing, EndServer
  <2> QED
    BY <1>8, <2>1 DEF ServeStep, Recorded
<1> QED
  BY <1>1, <1>2, <1>3, <1>4, <1>5, <1>6, <1>7, <1>8 DEF ServeStep, Serve

LEMMA OwnTypes ==
  /\ Own \subseteq Responses /\ Error(400) \in Own
  /\ \A f \in Requests : f.payload \in Payloads /\ Answer(f.payload) \in Own
  /\ \A f \in Responses : f.payload \in Results
BY DEF Own, Responses, Payloads, Results

\* The client part of the types, which steps of serve leave alone.
ClientTyped ==
  /\ setup \in Setups
  /\ cpc \in [Clients -> ClientLabels] /\ todo \in [Clients -> Seq(Targets)]
  /\ printed \in [Clients -> Seq(Results)] /\ code \in [Clients -> {-1, 0, 1, 141}]

LEMMA TypedServe == ASSUME Typed, ServeStep PROVE Typed'
<1>0. /\ up \in [Clients -> Chan(Requests)] /\ down \in [Clients -> Chan(Responses)]
      /\ cur \in Clients \cup {NoClient} /\ NoClient \notin Clients
      /\ taken \in [Clients -> Seq(Payloads)] /\ given \in [Clients -> Seq(Responses)]
      /\ spc \in ServerLabels /\ reply \in Own /\ backlog \in Seq(Clients)
      /\ cur = NoClient <=> spc \in {"accept", "exit", "killed"}
  BY JcAssumption DEF Typed
<1>1. ClientTyped'
  BY DEF Typed, ClientTyped, ServeStep, client
<1>2. CASE Accept /\ Recorded(taken, given)
  <2>1. Head(backlog) \in Clients /\ Tail(backlog) \in Seq(Clients)
    BY <1>0, <1>2, HeadTailProperties DEF Accept
  <2> QED
    BY <1>0, <1>1, <1>2, <2>1 DEF Typed, ClientTyped, Accept, Recorded, ServerLabels
<1>3. ASSUME Takes
      PROVE  /\ cur \in Clients /\ up' \in [Clients -> Chan(Requests)]
             /\ Head(up[cur].q) \in Requests /\ UNCHANGED <<down, backlog, listening, cur>>
  <2>1. cur \in Clients /\ up[cur] \in Chan(Requests)
    BY <1>0, <1>3 DEF Takes
  <2>2. ReadFrame(up[cur]) \in Chan(Requests) /\ Head(up[cur].q) \in Requests
    BY <1>3, <2>1, ReadType DEF Takes
  <2> QED
    BY <1>0, <1>3, <2>1, <2>2 DEF Takes
<1>4. CASE Skip /\ Recorded(taken, given)
  BY <1>0, <1>1, <1>3, <1>4 DEF Typed, ClientTyped, Skip, Recorded
<1>5. CASE Take /\ Recorded([taken EXCEPT ![cur] = Append(@, Head(up[cur].q).payload)], given)
  <2> DEFINE p == Head(up[cur].q).payload
  <2>1. /\ cur \in Clients /\ up' \in [Clients -> Chan(Requests)]
        /\ p \in Payloads /\ Answer(p) \in Own /\ UNCHANGED <<down, backlog, cur>>
        /\ reply' = Answer(p) /\ spc' = "send" /\ spc = "read"
    BY <1>3, <1>5, OwnTypes DEF Take, Takes
  <2>2. taken' = [taken EXCEPT ![cur] = Append(taken[cur], p)] /\ given' = given
    BY <1>5 DEF Recorded
  <2>3. Append(taken[cur], p) \in Seq(Payloads)
    BY <1>0, <2>1, AppendProperties
  <2> HIDE DEF p
  <2> QED
    BY <1>0, <1>1, <2>1, <2>2, <2>3 DEF Typed, ClientTyped, ServerLabels
<1>6. ASSUME CloseClient, cur \in Clients, Recorded(taken, given)
      PROVE  Typed'
  BY <1>0, <1>1, <1>6, CloseClientFacts, SMTT(30) DEF Typed, ClientTyped, Recorded, ServerLabels
<1>7. CASE CloseAtEnd /\ Recorded(taken, given)
  BY <1>0, <1>6, <1>7 DEF CloseAtEnd
<1>8. CASE SendReturns /\ Recorded(taken, given)
  BY <1>0, <1>1, <1>8 DEF Typed, ClientTyped, SendReturns, Recorded, ServerLabels, net
<1>9. CASE SendThrows /\ Recorded(taken, given)
  <2>1. CASE spc = "sorry"
    BY <1>0, <1>6, <1>9, <2>1 DEF SendThrows
  <2>2. CASE spc # "sorry"
    BY <1>0, <1>1, <1>9, <2>2, OwnTypes DEF Typed, ClientTyped, SendThrows, Writing, Recorded, ServerLabels, net
  <2> QED
    BY <2>1, <2>2
<1>10. CASE SendKills /\ Recorded(taken, given)
  <2>0. EndServer("killed")
    BY <1>10 DEF SendKills
  <2>1. backlog' = <<>> /\ spc' = "killed" /\ <<>> \in Seq(Clients)
    BY <2>0, EndServerFacts
  <2> QED
    BY <1>0, <1>1, <1>10, <2>0, <2>1, EndServerFacts DEF Typed, ClientTyped, Recorded, ServerLabels
<1>11. CASE Send /\ Recorded(taken, IF down[cur].end = "open"
                                    THEN [given EXCEPT ![cur] = Append(@, reply)] ELSE given)
  <2>1. cur \in Clients /\ reply \in Responses /\ down[cur] \in Chan(Responses)
    BY <1>0, <1>11, OwnTypes DEF Send
  <2>2. WriteFrame(down[cur], reply) \in Chan(Responses) /\ Append(given[cur], reply) \in Seq(Responses)
    BY <1>0, <2>1, WriteType, AppendProperties
  <2>3. /\ down' = [down EXCEPT ![cur] = WriteFrame(down[cur], reply)]
        /\ spc' \in {"sending", "read"} /\ UNCHANGED <<up, backlog, listening, cur, reply>>
        /\ given' = given \/ given' = [given EXCEPT ![cur] = Append(given[cur], reply)]
        /\ taken' = taken
    BY <1>11 DEF Send, Recorded
  <2>4. given' \in [Clients -> Seq(Responses)] /\ taken' \in [Clients -> Seq(Payloads)]
    <3> DEFINE g == Append(given[cur], reply)
    <3>1. [given EXCEPT ![cur] = g] \in [Clients -> Seq(Responses)]
      <4> HIDE DEF g
      <4> QED
        BY <1>0, <2>1, <2>2 DEF g
    <3> QED
      BY <1>0, <2>3, <3>1
  <2>5. down' \in [Clients -> Chan(Responses)] /\ up' \in [Clients -> Chan(Requests)]
    BY <1>0, <2>1, <2>2, <2>3
  <2> QED
    BY <1>0, <1>1, <2>1, <2>3, <2>4, <2>5 DEF Typed, ClientTyped, ServerLabels
<1> QED
  BY <1>2, <1>4, <1>5, <1>7, <1>8, <1>9, <1>10, <1>11, ServeRecord

\* The server part of the types, which its clients leave alone.
ServerTyped ==
  /\ setup \in Setups
  /\ spc \in ServerLabels /\ cur \in Clients \cup {NoClient} /\ reply \in Own
  /\ cur = NoClient <=> spc \in {"accept", "exit", "killed"}
  /\ taken \in [Clients -> Seq(Payloads)]

LEMMA TypedFails == ASSUME Typed, ServerFails PROVE Typed'
<1>1. EndServer("exit") /\ UNCHANGED <<client, setup, history>>
  BY DEF ServerFails, AcceptFails
<1>2. /\ up' \in [Clients -> Chan(Requests)] /\ down' \in [Clients -> Chan(Responses)]
      /\ spc' = "exit" /\ cur' = NoClient /\ backlog' = <<>> /\ reply' = reply
  BY <1>1, EndServerFacts
<1>3. UNCHANGED <<cpc, todo, printed, code, setup, taken, given>>
  BY <1>1 DEF client, history
<1> QED
  BY <1>2, <1>3 DEF Typed, ServerLabels

\* Exit is Quits.
LEMMA ExitQuits ==
  ASSUME NEW k \in Clients, NEW s, Exit(k, s)
  PROVE  /\ Quits(k) /\ UNCHANGED <<todo, printed>>
         /\ code' = [code EXCEPT ![k] = s] /\ cpc' = [cpc EXCEPT ![k] = "exit"]
BY DEF Exit, Quits, Goto

LEMMA TypedB ==
  ASSUME Typed, NEW k \in Clients, BStep(k), cpc[k] \in {"send", "recv"} => todo[k] # <<>>
  PROVE  Typed'
<1>0. /\ up \in [Clients -> Chan(Requests)] /\ down \in [Clients -> Chan(Responses)]
      /\ up[k] \in Chan(Requests) /\ down[k] \in Chan(Responses)
      /\ given \in [Clients -> Seq(Responses)] /\ backlog \in Seq(Clients)
      /\ cpc \in [Clients -> ClientLabels] /\ todo \in [Clients -> Seq(Targets)]
      /\ printed \in [Clients -> Seq(Results)] /\ code \in [Clients -> {-1, 0, 1, 141}]
  BY DEF Typed
<1>1. ServerTyped' /\ given' = given
  BY DEF Typed, ServerTyped, BStep, server
<1>2. ASSUME NEW s \in {0, 1, 141}, Exit(k, s) PROVE Typed'
  <2>1. "exit" \in ClientLabels /\ s \in {-1, 0, 1, 141}
    BY DEF ClientLabels
  <2>2. /\ Quits(k) /\ UNCHANGED <<todo, printed>>
        /\ code' = [code EXCEPT ![k] = s] /\ cpc' = [cpc EXCEPT ![k] = "exit"]
    BY <1>2, ExitQuits
  <2>3. /\ up' \in [Clients -> Chan(Requests)] /\ down' \in [Clients -> Chan(Responses)]
        /\ backlog' = backlog
    BY <2>2, QuitsFacts, ZenonT(30) DEF Quits
  <2> QED
    BY <1>0, <1>1, <2>1, <2>2, <2>3 DEF Typed, ServerTyped
<1>3. CASE Parse(k)
  <2>1. CASE Exit(k, 1)
    BY <1>2, <2>1
  <2>2. CASE cpc' = [cpc EXCEPT ![k] = "connect"] /\ UNCHANGED <<net, todo, printed, code>>
    BY <1>0, <1>1, <2>2 DEF Typed, ServerTyped, net, ClientLabels
  <2> QED
    BY <1>3, <2>1, <2>2 DEF Parse, Goto
<1>4. CASE Connect(k)
  <2>1. /\ up' = [up EXCEPT ![k] = Fresh] /\ down' = [down EXCEPT ![k] = Fresh]
        /\ cpc' = [cpc EXCEPT ![k] = "send"] /\ "send" \in ClientLabels
        /\ backlog' = Append(backlog, k) /\ UNCHANGED <<todo, printed, code>>
    BY <1>4 DEF Connect, Goto, ClientLabels
  <2>2. backlog' \in Seq(Clients)
    BY <1>0, <2>1, AppendProperties
  <2> QED
    BY <1>0, <1>1, <2>1, <2>2, FreshType DEF Typed, ServerTyped
<1>5. CASE ConnectFails(k)
  BY <1>2, <1>5 DEF ConnectFails
<1>6. CASE SendRequest(k) /\ todo[k] # <<>>
  <2>1. target(k) \in Targets
    BY <1>0, <1>6, HeadTailProperties DEF target
  <2>2. RequestFrame(k) \in Requests
    BY <2>1 DEF RequestFrame, Requests
  <2>3. WriteFrame(up[k], RequestFrame(k)) \in Chan(Requests) /\ "recv" \in ClientLabels
    BY <1>0, <2>2, WriteType DEF ClientLabels
  <2>4. /\ up' = [up EXCEPT ![k] = WriteFrame(up[k], RequestFrame(k))]
        /\ cpc' = [cpc EXCEPT ![k] = "recv"] /\ UNCHANGED <<down, backlog, todo, printed, code>>
    BY <1>6 DEF SendRequest, Goto
  <2> QED
    BY <1>0, <1>1, <2>3, <2>4 DEF Typed, ServerTyped
<1>7. CASE SendRequestFails(k)
  BY <1>2, <1>7 DEF SendRequestFails
<1>8. ASSUME CanRead(down[k]), down' = [down EXCEPT ![k] = ReadFrame(@)]
      PROVE  /\ down' \in [Clients -> Chan(Responses)] /\ Head(down[k].q).payload \in Results
  BY <1>0, <1>8, ReadType, OwnTypes
<1>9. CASE PassOver(k)
  BY <1>0, <1>1, <1>8, <1>9 DEF Typed, ServerTyped, PassOver, client
<1>10. CASE PrintResponse(k) /\ todo[k] # <<>>
  <2> DEFINE r == Head(down[k].q).payload  label == IF Len(todo[k]) = 1 THEN "done" ELSE "send"
  <2>1. /\ CanRead(down[k]) /\ down' = [down EXCEPT ![k] = ReadFrame(@)] /\ UNCHANGED <<up, backlog, code>>
        /\ printed' = [printed EXCEPT ![k] = Append(printed[k], r)]
        /\ todo' = [todo EXCEPT ![k] = Tail(todo[k])]
        /\ cpc' = [cpc EXCEPT ![k] = label]
    BY <1>10 DEF PrintResponse, Received, Goto
  <2>2. /\ down' \in [Clients -> Chan(Responses)] /\ Append(printed[k], r) \in Seq(Results)
        /\ Tail(todo[k]) \in Seq(Targets) /\ label \in ClientLabels
    BY <1>0, <1>8, <1>10, <2>1, AppendProperties, HeadTailProperties DEF ClientLabels
  <2> HIDE DEF r, label
  <2> QED
    BY <1>0, <1>1, <2>1, <2>2 DEF Typed, ServerTyped
<1>11. CASE ReceiveFails(k)
  BY <1>2, <1>11 DEF ReceiveFails
<1>12. CASE Finish(k)
  BY <1>2, <1>12 DEF Finish
<1>13. (SendRequest(k) => cpc[k] = "send") /\ (PrintResponse(k) => cpc[k] = "recv")
  BY DEF SendRequest, PrintResponse, Received
<1> QED
  BY <1>3, <1>4, <1>5, <1>6, <1>7, <1>9, <1>10, <1>11, <1>12, <1>13 DEF BStep, Run

\* Peers and other servers.
LEMMA TypedOthers ==
  ASSUME Typed, NEW k \in Clients,
         \/ PeerConnects(k) \/ PeerSends(k) \/ PeerReads(k) \/ PeerStops(k) \/ PeerLeaves(k)
         \/ OtherSends(k) \/ OtherStops(k)
  PROVE  Typed'
<1>0. /\ up \in [Clients -> Chan(Requests)] /\ down \in [Clients -> Chan(Responses)]
      /\ up[k] \in Chan(Requests) /\ down[k] \in Chan(Responses)
      /\ given \in [Clients -> Seq(Responses)] /\ backlog \in Seq(Clients)
      /\ cpc \in [Clients -> ClientLabels]
  BY DEF Typed
<1>1. ServerTyped' /\ UNCHANGED <<todo, printed, code>>
  <2>1. UNCHANGED <<setup, spc, cur, reply, taken, todo, printed, code>>
    BY DEF PeerConnects, PeerSends, PeerReads, PeerStops, PeerLeaves,
           OtherSends, OtherStops, server, client, history
  <2> QED
    BY <2>1 DEF Typed, ServerTyped
<1>2. CASE PeerConnects(k)
  <2>1. /\ up' = [up EXCEPT ![k] = Fresh] /\ down' = [down EXCEPT ![k] = Fresh]
        /\ backlog' = Append(backlog, k) /\ cpc' = cpc /\ given' = given
    BY <1>2 DEF PeerConnects, client, history
  <2>2. backlog' \in Seq(Clients)
    BY <1>0, <2>1, AppendProperties
  <2> QED
    BY <1>0, <1>1, <2>1, <2>2, FreshType DEF Typed, ServerTyped
<1>3. CASE PeerSends(k)
  <2>1. PICK f \in Offers : up' = [up EXCEPT ![k] = WriteFrame(up[k], f)]
    BY <1>3 DEF PeerSends
  <2>2. f \in Requests
    BY DEF Requests
  <2>3. WriteFrame(up[k], f) \in Chan(Requests) /\ UNCHANGED <<down, backlog, cpc, given>>
    BY <1>0, <1>3, <2>2, WriteType DEF PeerSends, client
  <2> QED
    BY <1>0, <1>1, <2>1, <2>3 DEF Typed, ServerTyped
<1>4. CASE PeerReads(k)
  <2>1. ReadFrame(down[k]) \in Chan(Responses) /\ UNCHANGED <<up, backlog, cpc, given>>
    BY <1>0, <1>4, ReadType DEF PeerReads, client
  <2>2. down' = [down EXCEPT ![k] = ReadFrame(down[k])]
    BY <1>4 DEF PeerReads
  <2> QED
    BY <1>0, <1>1, <2>1, <2>2 DEF Typed, ServerTyped
<1>5. ASSUME NEW S, NEW ch \in Chan(S), NEW e \in Ends PROVE [ch EXCEPT !.end = e] \in Chan(S)
  BY <1>5 DEF Chan
<1>6. CASE PeerStops(k)
  <2>1. PICK e \in Cuts : up' = [up EXCEPT ![k] = [up[k] EXCEPT !.end = e]]
    BY <1>6 DEF PeerStops
  <2>2. [up[k] EXCEPT !.end = e] \in Chan(Requests) /\ UNCHANGED <<down, backlog, cpc, given>>
    BY <1>0, <1>5, <1>6 DEF PeerStops, client, history, Ends
  <2> QED
    BY <1>0, <1>1, <2>1, <2>2 DEF Typed, ServerTyped
<1>7. CASE PeerLeaves(k)
  <2>1. /\ Quits(k) /\ UNCHANGED <<backlog, given>>
        /\ cpc' = [cpc EXCEPT ![k] = "left"] /\ "left" \in ClientLabels
    BY <1>7 DEF PeerLeaves, Quits, Goto, history, ClientLabels
  <2> QED
    BY <1>0, <1>1, <2>1, QuitsFacts DEF Typed, ServerTyped
<1>8. CASE OtherSends(k)
  <2>1. PICK f \in Replies : /\ down' = [down EXCEPT ![k] = WriteFrame(down[k], f)]
                             /\ given' = [given EXCEPT ![k] = Append(given[k], f)]
    BY <1>8 DEF OtherSends
  <2>2. f \in Responses
    BY DEF Responses
  <2>3. /\ WriteFrame(down[k], f) \in Chan(Responses) /\ Append(given[k], f) \in Seq(Responses)
        /\ UNCHANGED <<up, backlog, cpc>>
    BY <1>0, <1>8, <2>2, WriteType, AppendProperties DEF OtherSends, client
  <2> HIDE <2>2
  <2> QED
    BY <1>0, <1>1, <2>1, <2>3 DEF Typed, ServerTyped
<1>9. CASE OtherStops(k)
  <2>1. PICK e \in Cuts \cup {"reset"} : down' = [down EXCEPT ![k] = [down[k] EXCEPT !.end = e]]
    BY <1>9 DEF OtherStops
  <2>2. [down[k] EXCEPT !.end = e] \in Chan(Responses) /\ UNCHANGED <<backlog, cpc, given>>
    BY <1>0, <1>5, <1>9 DEF OtherStops, client, history, Ends
  <2>3. up' = [up EXCEPT ![k] = Abandoned(up[k])] /\ Abandoned(up[k]) \in Chan(Requests)
    BY <1>0, <1>9, AbandonedType DEF OtherStops
  <2> QED
    BY <1>0, <1>1, <2>1, <2>2, <2>3 DEF Typed, ServerTyped
<1> QED
  BY <1>2, <1>3, <1>4, <1>6, <1>7, <1>8, <1>9

-----------------------------------------------------------------------------
(* What a process of b has done with its targets                           *)

Refused(k) == \E i \in 1..Len(printed[k]) : printed[k][i].status >= 400

Progress(k) ==
  /\ Len(printed[k]) + Len(todo[k]) = Len(setup.targets[k])
  /\ \A i \in 1..Len(todo[k]) : todo[k][i] = setup.targets[k][Len(printed[k]) + i]
  /\ cpc[k] \in {"start", "connect", "send", "recv"} => todo[k] # <<>>
  /\ cpc[k] \in {"start", "connect", "peer", "left"} => printed[k] = <<>>
  /\ cpc[k] = "done" => todo[k] = <<>>
  /\ cpc[k] \in {"peer", "left"} <=> ~IsB(k)
  /\ code[k] = -1 <=> cpc[k] # "exit"
  /\ cpc[k] = "exit" =>
       (code[k] = 0 <=> todo[k] = <<>> /\ ~Refused(k))
  /\ cpc[k] \in {"connect", "send", "recv", "done"} \/ printed[k] # <<>> =>
       \A i \in 1..Len(setup.targets[k]) : setup.targets[k][i] # BadEndpoint

LEMMA ProgressInit == Init => \A k \in Clients : Progress(k)
<1> SUFFICES ASSUME Init, NEW k \in Clients PROVE Progress(k)
  OBVIOUS
<1>1. /\ setup.targets \in [Clients -> Seq(Targets)]
      /\ todo = setup.targets /\ printed[k] = <<>> /\ code[k] = -1
      /\ cpc[k] = IF setup.targets[k] = <<>> THEN "peer" ELSE "start"
  BY JcAssumption DEF Init, InitClient
<1>2. setup.targets[k] \in Seq(Targets)
  BY <1>1
<1> QED
  BY <1>1, <1>2 DEF Progress, IsB

\* A process that stops early has not answered all its targets.
LEMMA ProgressExit ==
  ASSUME Typed, NEW k \in Clients, Progress(k), UNCHANGED setup, IsB(k), cpc[k] # "exit",
         NEW s \in {0, 1, 141}, Exit(k, s),
         s = 0 <=> todo[k] = <<>> /\ ~Refused(k)
  PROVE  Progress(k)'
<1>1. /\ code' = [code EXCEPT ![k] = s] /\ cpc' = [cpc EXCEPT ![k] = "exit"]
      /\ UNCHANGED <<todo, printed, setup>>
  BY ExitQuits
<1>2. code'[k] = s /\ cpc'[k] = "exit" /\ s # -1
  BY <1>1 DEF Typed
<1>3. Refused(k)' <=> Refused(k)
  BY <1>1 DEF Refused
<1> QED
  BY <1>1, <1>2, <1>3, ZenonT(30) DEF Progress, IsB

\* One number grows as the other shrinks.
LEMMA Shifted ==
  /\ \A a, b \in Nat : (a + 1) + (b - 1) = a + b
  /\ \A a, i \in Nat : a + (i + 1) = (a + 1) + i
OBVIOUS

LEMMA Places ==
  /\ \A a, b \in Nat : a + (b + 1) = (a + b) + 1
  /\ \A a, b, c, d \in Nat : a + b <= c /\ d <= b => a + d <= c
  /\ \A a, b \in Nat : \A i \in 1..b : a + i \in 1..(a + b)
  /\ \A a, b \in Nat : \A i \in 1..a : i \in 1..(a + b)
  /\ \A b \in Nat : \A i \in 1..(b + 1) : i \in 1..b \/ i = b + 1
OBVIOUS

LEMMA NoneLeft == \A a, b \in Nat : b = 0 <=> a = a + b
OBVIOUS

LEMMA ProgressB ==
  ASSUME Typed, NEW k \in Clients, Progress(k), BStep(k)
  PROVE  Progress(k)'
<1>0. /\ cpc \in [Clients -> ClientLabels] /\ UNCHANGED setup
      /\ todo[k] \in Seq(Targets) /\ printed[k] \in Seq(Results) /\ setup.targets[k] \in Seq(Targets)
      /\ todo \in [Clients -> Seq(Targets)] /\ printed \in [Clients -> Seq(Results)]
  BY JcAssumption DEF Typed, BStep
<1>1. IsB(k)
  BY DEF BStep, Run, Parse, Connect, ConnectFails, SendRequest, SendRequestFails, PassOver,
         PrintResponse, Received, ReceiveFails, Finish, Progress
<1>2. ASSUME Exit(k, 1) \/ Exit(k, 141), cpc[k] \in {"start", "connect", "send", "recv"}
      PROVE  Progress(k)'
  <2>1. todo[k] # <<>> /\ cpc[k] # "exit"
    BY <1>2 DEF Progress
  <2> QED
    BY <1>0, <1>1, <1>2, <2>1, ProgressExit
<1>3. ASSUME NEW label, cpc' = [cpc EXCEPT ![k] = label], cpc[k] \in {"connect", "send"}, label \in {"send", "recv"},
             UNCHANGED <<todo, printed, code>>
      PROVE  Progress(k)'
  BY <1>0, <1>3 DEF Progress, IsB
<1>4. CASE Parse(k)
  <2>1. CASE Exit(k, 1)
    BY <1>2, <1>4, <2>1 DEF Parse
  <2>2. CASE ~Exit(k, 1)
    <3>1. /\ \A i \in 1..Len(todo[k]) : todo[k][i] # BadEndpoint
          /\ cpc' = [cpc EXCEPT ![k] = "connect"] /\ cpc[k] = "start" /\ UNCHANGED <<todo, printed, code>>
      BY <1>4, <2>2 DEF Parse, Goto
    <3>2. printed[k] = <<>> /\ Len(printed[k]) = 0 /\ Len(todo[k]) = Len(setup.targets[k])
      BY <1>0, <3>1 DEF Progress
    <3>3. \A i \in 1..Len(setup.targets[k]) : setup.targets[k][i] # BadEndpoint
      BY <1>0, <3>1, <3>2 DEF Progress
    <3> QED
      BY <1>0, <3>1, <3>2, <3>3 DEF Progress, IsB
  <2> QED
    BY <2>1, <2>2
<1>5. CASE Connect(k)
  BY <1>3, <1>5 DEF Connect, Goto
<1>6. CASE ConnectFails(k)
  BY <1>2, <1>6 DEF ConnectFails
<1>7. CASE SendRequest(k)
  BY <1>3, <1>7 DEF SendRequest, Goto
<1>8. CASE SendRequestFails(k)
  BY <1>2, <1>8 DEF SendRequestFails
<1>9. CASE PassOver(k)
  BY <1>0, <1>9 DEF PassOver, client, Progress, IsB
<1>10. CASE PrintResponse(k)
  <2> DEFINE r == Head(down[k].q).payload  label == IF Len(todo[k]) = 1 THEN "done" ELSE "send"
  <2>1. /\ CanRead(down[k]) /\ cpc[k] = "recv" /\ UNCHANGED code
        /\ printed' = [printed EXCEPT ![k] = Append(printed[k], r)]
        /\ todo' = [todo EXCEPT ![k] = Tail(todo[k])]
        /\ cpc' = [cpc EXCEPT ![k] = label]
    BY <1>10 DEF PrintResponse, Received, Goto
  <2>2. r \in Results /\ todo[k] # <<>>
    BY <2>1, ReadType, OwnTypes DEF Typed, Progress
  <2> HIDE DEF r
  <2>3. /\ Len(Append(printed[k], r)) = Len(printed[k]) + 1 /\ Len(printed[k]) \in Nat
        /\ Append(printed[k], r) # <<>>
    BY <1>0, <2>2, AppendProperties
  <2>4. /\ Tail(todo[k]) \in Seq(Targets) /\ Len(Tail(todo[k])) = Len(todo[k]) - 1
        /\ \A i \in 1..Len(Tail(todo[k])) : Tail(todo[k])[i] = todo[k][i + 1]
    BY <1>0, <2>2, HeadTailProperties
  <2>5. Len(todo[k]) \in Nat /\ (Tail(todo[k]) = <<>> <=> Len(Tail(todo[k])) = 0)
    BY <1>0, <2>4, LenProperties, EmptySeq
  <2>6. (label = "done" => Tail(todo[k]) = <<>>) /\ (label = "send" => Tail(todo[k]) # <<>>)
    BY <2>4, <2>5
  <2>7. label \in {"done", "send"}
    OBVIOUS
  <2>8. /\ printed'[k] = Append(printed[k], r) /\ todo'[k] = Tail(todo[k]) /\ cpc'[k] = label
        /\ code'[k] = code[k]
    BY <1>0, <2>1
  <2> HIDE DEF label
  <2>0. Len(printed[k]) + Len(todo[k]) = Len(setup.targets[k]) /\ Len(todo'[k]) \in Nat
    BY <2>4, <2>5, <2>8, LenProperties DEF Progress
  <2>9. Len(printed'[k]) + Len(todo'[k]) = Len(setup.targets[k]) /\ Len(printed'[k]) = Len(printed[k]) + 1
    <3>1. Len(printed'[k]) = Len(printed[k]) + 1
      BY <2>3, <2>8
    <3>2. Len(todo'[k]) = Len(todo[k]) - 1
      BY <2>4, <2>8
    <3>3. Len(printed[k]) \in Nat /\ Len(todo[k]) \in Nat
      BY <2>3, <2>5
    <3> QED
      BY <2>0, <3>1, <3>2, <3>3, Shifted, ZenonT(30)
  <2>10. \A i \in 1..Len(todo'[k]) : todo'[k][i] = setup.targets[k][Len(printed'[k]) + i]
    <3> SUFFICES ASSUME NEW i \in 1..Len(todo'[k])
                 PROVE  todo'[k][i] = setup.targets[k][Len(printed'[k]) + i]
      OBVIOUS
    <3>1. i + 1 \in 1..Len(todo[k]) /\ todo'[k][i] = todo[k][i + 1]
      BY <2>4, <2>5, <2>8
    <3>2. Len(printed[k]) \in Nat /\ Len(printed'[k]) = Len(printed[k]) + 1 /\ i \in Nat
      BY <2>0, <2>3, <2>9
    <3>3. Len(printed[k]) + (i + 1) = Len(printed'[k]) + i
      BY <3>2, Shifted, ZenonT(30)
    <3>4. todo[k][i + 1] = setup.targets[k][Len(printed[k]) + (i + 1)]
      BY <3>1 DEF Progress
    <3>5. UNCHANGED setup
      BY <1>0
    <3> QED
      BY <3>1, <3>3, <3>4
  <2>11. code[k] = -1 /\ \A i \in 1..Len(setup.targets[k]) : setup.targets[k][i] # BadEndpoint
    BY <2>1 DEF Progress
  <2> QED
    BY <1>0, <1>1, <2>3, <2>6, <2>7, <2>8, <2>9, <2>10, <2>11 DEF Progress, IsB
<1>11. CASE ReceiveFails(k)
  BY <1>2, <1>11 DEF ReceiveFails, Received
<1>12. CASE Finish(k)
  <2> DEFINE s == IF \E i \in 1..Len(printed[k]) : printed[k][i].status >= 400 THEN 1 ELSE 0
  <2>1. Exit(k, s) /\ cpc[k] = "done" /\ todo[k] = <<>>
    BY <1>12 DEF Finish, Progress
  <2>2. (s = 0 <=> ~Refused(k)) /\ s \in {0, 1, 141}
    BY DEF Refused
  <2> QED
    BY <1>0, <1>1, <2>1, <2>2, ProgressExit
<1> QED
  BY <1>4, <1>5, <1>6, <1>7, <1>8, <1>9, <1>10, <1>11, <1>12 DEF BStep, Run

\* Steps that are not of process k, and the leaving of a peer.
Still(k) ==
  /\ UNCHANGED setup
  /\ todo'[k] = todo[k] /\ printed'[k] = printed[k] /\ code'[k] = code[k]
  /\ cpc'[k] = cpc[k] \/ (cpc[k] = "peer" /\ cpc'[k] = "left")

LEMMA ProgressStill ==
  ASSUME NEW k \in Clients, Progress(k), Still(k)
  PROVE  Progress(k)'
<1>1. CASE cpc'[k] = cpc[k]
  BY <1>1, ZenonT(30) DEF Progress, Still, IsB, Refused
<1>2. CASE cpc[k] = "peer" /\ cpc'[k] = "left"
  BY <1>2 DEF Progress, Still, IsB
<1> QED
  BY <1>1, <1>2 DEF Still

LEMMA StillOfB ==
  ASSUME Typed, NEW c \in Clients, NEW k \in Clients, k # c, BStep(c)
  PROVE  Still(k)
<1>0. /\ cpc \in [Clients -> ClientLabels] /\ todo \in [Clients -> Seq(Targets)]
      /\ printed \in [Clients -> Seq(Results)] /\ code \in [Clients -> {-1, 0, 1, 141}]
  BY DEF Typed
<1>1. ASSUME NEW s, Exit(c, s) PROVE Still(k)
  BY <1>0, <1>1 DEF Exit, Goto, Still, BStep
<1>2. CASE Parse(c)
  BY <1>0, <1>1, <1>2 DEF Parse, Goto, Still, BStep
<1>3. CASE Connect(c) \/ SendRequest(c) \/ PassOver(c) \/ PrintResponse(c)
  BY <1>0, <1>3 DEF Connect, SendRequest, PassOver, PrintResponse, Goto, Still, BStep, client
<1>4. CASE ConnectFails(c) \/ SendRequestFails(c) \/ ReceiveFails(c) \/ Finish(c)
  BY <1>1, <1>4 DEF ConnectFails, SendRequestFails, ReceiveFails, Finish
<1> QED
  BY <1>2, <1>3, <1>4 DEF BStep, Run

LEMMA StillOfOthers ==
  ASSUME Typed, NEW c \in Clients, NEW k \in Clients,
         \/ PeerConnects(c) \/ PeerSends(c) \/ PeerReads(c) \/ PeerStops(c) \/ PeerLeaves(c)
         \/ OtherSends(c) \/ OtherStops(c)
  PROVE  Still(k)
<1>0. cpc \in [Clients -> ClientLabels]
  BY DEF Typed
<1>1. CASE PeerLeaves(c)
  BY <1>0, <1>1 DEF PeerLeaves, Goto, Still
<1>2. CASE ~PeerLeaves(c)
  BY <1>2 DEF PeerConnects, PeerSends, PeerReads, PeerStops, OtherSends, OtherStops, client, Still
<1> QED
  BY <1>1, <1>2

Base == Typed /\ \A k \in Clients : Progress(k)

LEMMA BaseStep == ASSUME Base, [Next]_systemVars PROVE Base'
<1>0. Typed /\ \A k \in Clients : Progress(k)
  BY DEF Base
<1>1. CASE UNCHANGED systemVars
  <2>1. UNCHANGED <<up, down, backlog, spc, cur, reply, cpc, todo, printed, code, setup, taken, given>>
    BY <1>1 DEF systemVars, net, server, client, history
  <2>2. Typed'
    BY <1>0, <2>1 DEF Typed
  <2>3. ASSUME NEW k \in Clients PROVE Progress(k)'
    BY <1>0, <2>1, ProgressStill DEF Still
  <2> QED
    BY <2>2, <2>3 DEF Base
<1>2. CASE ServeStep
  <2>1. \A k \in Clients : Still(k)
    BY <1>2 DEF ServeStep, client, Still
  <2> QED
    BY <1>0, <1>2, <2>1, TypedServe, ProgressStill DEF Base
<1>3. CASE ServerFails
  <2>1. \A k \in Clients : Still(k)
    BY <1>3 DEF ServerFails, client, Still
  <2> QED
    BY <1>0, <1>3, <2>1, TypedFails, ProgressStill DEF Base
<1>4. ASSUME NEW c \in Clients, BStep(c) PROVE Base'
  <2>1. Typed'
    BY <1>0, <1>4, TypedB DEF Progress
  <2>2. ASSUME NEW k \in Clients PROVE Progress(k)'
    BY <1>0, <1>4, ProgressB, StillOfB, ProgressStill
  <2> QED
    BY <2>1, <2>2 DEF Base
<1>5. ASSUME NEW c \in Clients,
             \/ PeerConnects(c) \/ PeerSends(c) \/ PeerReads(c) \/ PeerStops(c) \/ PeerLeaves(c)
             \/ OtherSends(c) \/ OtherStops(c)
      PROVE  Base'
  BY <1>0, <1>5, TypedOthers, StillOfOthers, ProgressStill DEF Base
<1>6. CASE Terminated
  BY <1>1, <1>6 DEF Terminated
<1> QED
  BY <1>1, <1>2, <1>3, <1>4, <1>5, <1>6 DEF Next

LEMMA BaseAlways == Spec => []Base
<1>1. Init => Base
  BY TypedInit, ProgressInit DEF Base
<1> QED
  BY <1>1, BaseStep, PTL DEF Spec

\* The exit status of b tells whether all of its targets have got a response
\* and none of them is an error.
THEOREM ExitIsTold == Spec => []ExitTells
<1>1. ASSUME Base, NEW k \in Clients, code[k] # -1
      PROVE  code[k] = 0 <=> Len(printed[k]) = Len(setup.targets[k]) /\ ~Refused(k)
  <2>1. code[k] = 0 <=> todo[k] = <<>> /\ ~Refused(k)
    BY <1>1 DEF Base, Progress
  <2>2. /\ todo[k] \in Seq(Targets) /\ printed[k] \in Seq(Results)
        /\ Len(printed[k]) + Len(todo[k]) = Len(setup.targets[k])
    BY <1>1 DEF Base, Typed, Progress
  <2>3. Len(todo[k]) \in Nat /\ Len(printed[k]) \in Nat /\ (todo[k] = <<>> <=> Len(todo[k]) = 0)
    BY <2>2, LenProperties, EmptySeq
  <2>4. todo[k] = <<>> <=> Len(printed[k]) = Len(setup.targets[k])
    BY <2>2, <2>3, NoneLeft
  <2> QED
    BY <2>1, <2>4
<1>2. Base => ExitTells
  BY <1>1 DEF ExitTells, Refused
<1> QED
  BY <1>2, BaseAlways, PTL

-----------------------------------------------------------------------------
(* Connections, and who holds them                                         *)

\* The connection of k.
Conn(k) ==
  /\ up[k].end = "none" <=> down[k].end = "none"
  /\ up[k].end = "none" => taken[k] = <<>> /\ given[k] = <<>>
  /\ cpc[k] \in {"start", "connect"} => up[k].end = "none"
  /\ cpc[k] \in {"send", "recv"} => up[k].end # "none"
  /\ Len(up[k].q) <= Capacity /\ Len(down[k].q) <= Capacity

\* What all steps but those that connect k do to its connection.
Kept(k) ==
  /\ up'[k].end = "none" <=> up[k].end = "none"
  /\ down'[k].end = "none" <=> down[k].end = "none"
  /\ down'[k].end = "open" => down[k].end = "open"
  /\ Len(up'[k].q) <= Capacity /\ Len(down'[k].q) <= Capacity
  /\ up[k].end = "none" => taken'[k] = taken[k] /\ given'[k] = given[k]
  /\ cpc'[k] \in {"start", "connect"} => cpc[k] \in {"start", "connect"}
  /\ cpc'[k] \in {"send", "recv"} => cpc[k] \in {"send", "recv"}

LEMMA ConnKept == ASSUME NEW k \in Clients, Conn(k), Kept(k) PROVE Conn(k)'
BY DEF Conn, Kept

LEMMA KeptLeaves ==
  ASSUME Base, Base', NEW k \in Clients, Conn(k),
         Leaves(up[k], up'[k]), Leaves(down[k], down'[k]),
         taken'[k] = taken[k], given'[k] = given[k],
         cpc'[k] = cpc[k] \/ cpc'[k] \in {"exit", "left"}
  PROVE  Kept(k)
<1>1. /\ Len(up[k].q) \in Nat /\ Len(down[k].q) \in Nat
      /\ Len(up'[k].q) \in Nat /\ Len(down'[k].q) \in Nat
  <2>1. /\ up[k] \in Chan(Requests) /\ down[k] \in Chan(Responses)
        /\ up'[k] \in Chan(Requests') /\ down'[k] \in Chan(Responses')
    BY DEF Base, Typed
  <2> QED
    BY <2>1 DEF Chan
<1>2. Len(up'[k].q) <= Capacity /\ Len(down'[k].q) <= Capacity
  BY <1>1, JcWireAssumption DEF Conn, Leaves
<1> QED
  BY <1>2 DEF Kept, Leaves

LEMMA LeavesItself ==
  ASSUME Base, NEW k \in Clients
  PROVE  Leaves(up[k], up[k]) /\ Leaves(down[k], down[k])
BY DEF Base, Typed, Chan, Leaves

\* Reading and writing one of the two channels of a connection.
LEMMA KeptRead ==
  ASSUME NEW S, NEW ch \in Chan(S), CanRead(ch), Len(ch.q) <= Capacity
  PROVE  ReadFrame(ch).end = ch.end /\ Len(ReadFrame(ch).q) <= Capacity
BY ReadType, JcWireAssumption

LEMMA KeptWrite ==
  ASSUME NEW S, NEW ch \in Chan(S), CanWrite(ch), Len(ch.q) <= Capacity, NEW f \in S
  PROVE  /\ WriteFrame(ch, f).end = ch.end /\ Len(WriteFrame(ch, f).q) <= Capacity
         /\ ch.end # "none"
<1>1. Len(ch.q) \in Nat
  BY DEF Chan
<1> QED
  BY <1>1, WriteType, JcWireAssumption DEF CanWrite

LEMMA KeptServe ==
  ASSUME Base, Base', \A k \in Clients : Conn(k), ServeStep \/ ServerFails,
         cur # NoClient => up[cur].end # "none"
  PROVE  \A k \in Clients : Kept(k)
<1> SUFFICES ASSUME NEW k \in Clients PROVE Kept(k)
  OBVIOUS
<1>a. Typed /\ Typed' /\ Conn(k) /\ cpc' = cpc
  BY DEF Base, ServeStep, ServerFails, client
<1>0. /\ Typed /\ Typed' /\ cpc' = cpc /\ Conn(k)
      /\ up \in [Clients -> Chan(Requests)] /\ down \in [Clients -> Chan(Responses)]
      /\ taken \in [Clients -> Seq(Payloads)] /\ given \in [Clients -> Seq(Responses)]
      /\ reply \in Responses /\ cur \in Clients \cup {NoClient} /\ NoClient \notin Clients
      /\ up[k] \in Chan(Requests) /\ down[k] \in Chan(Responses)
      /\ spc \in {"read", "send", "sending", "sorry"} => cur \in Clients
  <2>1. /\ up \in [Clients -> Chan(Requests)] /\ down \in [Clients -> Chan(Responses)]
        /\ taken \in [Clients -> Seq(Payloads)] /\ given \in [Clients -> Seq(Responses)]
        /\ reply \in Own /\ cur \in Clients \cup {NoClient}
        /\ cur = NoClient <=> spc \in {"accept", "exit", "killed"}
    BY <1>a DEF Typed
  <2>2. NoClient \notin Clients /\ Own \subseteq Responses
    BY JcAssumption, OwnTypes
  <2> QED
    BY <1>a, <2>1, <2>2
<1>1. Leaves(up[k], up[k]) /\ Leaves(down[k], down[k])
  BY LeavesItself
<1>2. ASSUME Recorded(taken, given), UNCHANGED <<up, down>> PROVE Kept(k)
  BY <1>0, <1>1, <1>2, KeptLeaves DEF Recorded
<1>3. ASSUME Recorded(taken, given), CloseClient, cur \in Clients PROVE Kept(k)
  BY <1>0, <1>3, CloseClientFacts, KeptLeaves DEF Recorded
<1>4. ASSUME Recorded(taken, given), NEW how, EndServer(how) PROVE Kept(k)
  BY <1>0, <1>4, EndServerFacts, KeptLeaves DEF Recorded
<1>5. CASE ServerFails
  BY <1>4, <1>5 DEF ServerFails, AcceptFails, Recorded, history
<1>6. ASSUME Takes, given' = given, \A c \in Clients \ {cur} : taken'[c] = taken[c] PROVE Kept(k)
  <2>1. /\ spc = "read" /\ CanRead(up[cur]) /\ down' = down
        /\ up' = [up EXCEPT ![cur] = ReadFrame(up[cur])]
    BY <1>6 DEF Takes
  <2>2. CASE k # cur
    BY <1>0, <1>1, <1>6, <2>1, <2>2, KeptLeaves
  <2>3. CASE k = cur
    <3>1. /\ up[k].end # "none" /\ up'[k] = ReadFrame(up[k]) /\ down'[k] = down[k] /\ cpc'[k] = cpc[k]
      BY <1>0, <2>1, <2>3
    <3>2. up'[k].end = up[k].end /\ Len(up'[k].q) <= Capacity /\ Len(down'[k].q) <= Capacity
      BY <1>0, <2>1, <2>3, <3>1, KeptRead DEF Conn
    <3> QED
      BY <3>1, <3>2 DEF Kept
  <2> QED
    BY <2>2, <2>3
<1>7. CASE (Accept \/ Skip \/ CloseAtEnd \/ SendReturns \/ SendThrows \/ SendKills) /\ Recorded(taken, given)
  <2>1. CASE Accept \/ SendReturns
    BY <1>2, <1>7, <2>1 DEF Accept, SendReturns, net
  <2>2. CASE Skip
    BY <1>6, <1>7, <2>2 DEF Skip, Recorded
  <2>3. CASE CloseAtEnd
    BY <1>0, <1>3, <1>7, <2>3 DEF CloseAtEnd
  <2>4. CASE SendThrows
    BY <1>0, <1>2, <1>3, <1>7, <2>4 DEF SendThrows, Writing, net
  <2>5. CASE SendKills
    BY <1>4, <1>7, <2>5 DEF SendKills
  <2> QED
    BY <1>7, <2>1, <2>2, <2>3, <2>4, <2>5
<1>8. CASE Take /\ Recorded([taken EXCEPT ![cur] = Append(@, Head(up[cur].q).payload)], given)
  <2>1. \A c \in Clients \ {cur} : taken'[c] = taken[c]
    BY <1>0, <1>8 DEF Recorded
  <2> QED
    BY <1>6, <1>8, <2>1 DEF Take, Recorded
<1>9. CASE /\ Send
           /\ Recorded(taken, IF down[cur].end = "open"
                              THEN [given EXCEPT ![cur] = Append(@, reply)] ELSE given)
  <2>1. /\ spc \in {"send", "sorry"} /\ CanWrite(down[cur]) /\ up' = up
        /\ down' = [down EXCEPT ![cur] = WriteFrame(down[cur], reply)]
    BY <1>9 DEF Send
  <2>2. taken' = taken /\ \A c \in Clients \ {cur} : given'[c] = given[c]
    BY <1>0, <1>9 DEF Recorded
  <2>3. CASE k # cur
    BY <1>0, <1>1, <2>1, <2>2, <2>3, KeptLeaves
  <2>4. CASE k = cur
    <3>1. up[k].end # "none" /\ up'[k] = up[k] /\ down'[k] = WriteFrame(down[k], reply) /\ cpc'[k] = cpc[k]
      BY <1>0, <2>1, <2>4
    <3>2. down'[k].end = down[k].end /\ Len(up'[k].q) <= Capacity /\ Len(down'[k].q) <= Capacity
      BY <1>0, <2>1, <2>4, <3>1, KeptWrite DEF Conn
    <3> QED
      BY <3>1, <3>2 DEF Kept
  <2> QED
    BY <2>3, <2>4
<1> QED
  BY <1>0, <1>5, <1>7, <1>8, <1>9, ServeRecord

\* A connection is made.
Joins(c) ==
  /\ up[c].end = "none"
  /\ up' = [up EXCEPT ![c] = Fresh] /\ down' = [down EXCEPT ![c] = Fresh]
  /\ backlog' = Append(backlog, c)
  /\ UNCHANGED <<server, setup, taken, given>>
  /\ \A k \in Clients \ {c} : cpc'[k] = cpc[k]
  /\ cpc'[c] \in {"send", "peer"}

LEMMA KeptJoins ==
  ASSUME Base, Base', NEW c \in Clients, Joins(c), NEW k \in Clients, Conn(k)
  PROVE  Conn(k)'
<1>0. /\ up \in [Clients -> Chan(Requests)] /\ down \in [Clients -> Chan(Responses)]
      /\ Leaves(up[k], up[k]) /\ Leaves(down[k], down[k])
  BY LeavesItself DEF Base, Typed
<1>1. CASE k # c
  <2>1. UNCHANGED <<up[k], down[k], taken[k], given[k], cpc[k]>>
    BY <1>0, <1>1 DEF Joins
  <2> QED
    BY <1>0, <2>1, KeptLeaves, ConnKept
<1>2. CASE k = c
  <2>1. up'[k] = Fresh /\ down'[k] = Fresh /\ UNCHANGED <<taken, given>>
    BY <1>0, <1>2 DEF Joins
  <2>2. Len(Fresh.q) = 0 /\ Fresh.end = "open" /\ 0 <= Capacity
    BY JcWireAssumption DEF Fresh
  <2>3. cpc'[k] \in {"send", "peer"}
    BY <1>2 DEF Joins
  <2> QED
    BY <2>1, <2>2, <2>3 DEF Conn
<1> QED
  BY <1>1, <1>2

\* The connections of the others, when only that of c is used.
LEMMA KeptElse ==
  ASSUME Base, Base', NEW c \in Clients, NEW k \in Clients, k # c, Conn(k),
         UNCHANGED <<up[k], down[k], taken[k], given[k]>>,
         cpc'[k] = cpc[k] \/ cpc'[k] \in {"exit", "left"}
  PROVE  Kept(k)
BY LeavesItself, KeptLeaves

LEMMA KeptB ==
  ASSUME Base, Base', \A k \in Clients : Conn(k), NEW c \in Clients, BStep(c)
  PROVE  Joins(c) \/ ((\A k \in Clients : Kept(k)) /\ UNCHANGED <<backlog, server, setup, taken, given>>)
<1>1. Typed /\ Conn(c) /\ Progress(c) /\ UNCHANGED <<server, setup, taken, given>>
  BY DEF Base, BStep
<1>0. /\ up \in [Clients -> Chan(Requests)] /\ down \in [Clients -> Chan(Responses)]
      /\ up[c] \in Chan(Requests) /\ down[c] \in Chan(Responses) /\ cpc \in [Clients -> ClientLabels]
      /\ todo[c] \in Seq(Targets)
  BY <1>1 DEF Typed
<1>2. Leaves(up[c], up[c]) /\ Leaves(down[c], down[c])
  BY LeavesItself
<1>3. ASSUME \A k \in Clients \ {c} : UNCHANGED <<up[k], down[k], cpc[k]>>, Kept(c)
      PROVE  \A k \in Clients : Kept(k)
  BY <1>1, <1>3, KeptElse
<1>4. ASSUME NEW s, Exit(c, s)
      PROVE  (\A k \in Clients : Kept(k)) /\ UNCHANGED backlog
  <2>1. Quits(c) /\ cpc' = [cpc EXCEPT ![c] = "exit"] /\ UNCHANGED backlog
    BY <1>4, ExitQuits DEF Quits
  <2>2. /\ Leaves(up[c], up'[c]) /\ Leaves(down[c], down'[c])
        /\ \A k \in Clients \ {c} : up'[k] = up[k] /\ down'[k] = down[k]
    BY <1>1, <2>1, QuitsFacts
  <2>3. cpc'[c] = "exit" /\ \A k \in Clients \ {c} : cpc'[k] = cpc[k]
    BY <1>0, <2>1
  <2>4. Kept(c)
    BY <1>1, <2>2, <2>3, KeptLeaves
  <2> QED
    BY <1>3, <2>1, <2>2, <2>3, <2>4
<1>5. ASSUME up' = up, down' = down, cpc'[c] = cpc[c] \/ (cpc[c] = "start" /\ cpc'[c] = "connect"),
             \A k \in Clients \ {c} : cpc'[k] = cpc[k]
      PROVE  \A k \in Clients : Kept(k)
  <2>1. Len(up[c].q) <= Capacity /\ Len(down[c].q) <= Capacity
    BY <1>1 DEF Conn
  <2>2. Kept(c)
    BY <1>1, <1>5, <2>1 DEF Kept
  <2> QED
    BY <1>3, <1>5, <2>2
<1>6. CASE Parse(c)
  <2>1. CASE Exit(c, 1)
    BY <1>1, <1>4, <2>1
  <2>2. CASE ~Exit(c, 1)
    <3>1. cpc' = [cpc EXCEPT ![c] = "connect"] /\ cpc[c] = "start" /\ UNCHANGED <<up, down, backlog>>
      BY <1>6, <2>2 DEF Parse, Goto, net
    <3>2. cpc'[c] = "connect" /\ \A k \in Clients \ {c} : cpc'[k] = cpc[k]
      BY <1>0, <3>1
    <3> QED
      BY <1>1, <1>5, <3>1, <3>2
  <2> QED
    BY <2>1, <2>2
<1>7. CASE Connect(c)
  <2>1. cpc[c] = "connect" /\ cpc' = [cpc EXCEPT ![c] = "send"]
    BY <1>7 DEF Connect, Goto
  <2>2. up[c].end = "none"
    BY <1>1, <2>1 DEF Conn
  <2> QED
    BY <1>0, <1>1, <1>7, <2>1, <2>2 DEF Connect, Joins
<1>8. CASE SendRequest(c)
  <2>1. /\ cpc[c] = "send" /\ CanWrite(up[c]) /\ UNCHANGED <<down, backlog>>
        /\ up' = [up EXCEPT ![c] = WriteFrame(up[c], RequestFrame(c))]
        /\ cpc' = [cpc EXCEPT ![c] = "recv"]
    BY <1>8 DEF SendRequest, Goto
  <2>2. todo[c] # <<>>
    BY <1>1, <2>1 DEF Progress
  <2>3. RequestFrame(c) \in Requests
    BY <1>0, <2>2, HeadTailProperties DEF target, RequestFrame, Requests
  <2>4. /\ up'[c].end = up[c].end /\ Len(up'[c].q) <= Capacity /\ down'[c] = down[c]
        /\ up[c].end # "none" /\ Len(down[c].q) <= Capacity
    BY <1>0, <1>1, <2>1, <2>3, KeptWrite DEF Conn
  <2>5. cpc'[c] = "recv" /\ \A k \in Clients \ {c} : UNCHANGED <<up[k], down[k], cpc[k]>>
    BY <1>0, <2>1
  <2>6. Kept(c)
    BY <2>1, <2>4, <2>5 DEF Kept
  <2> QED
    BY <1>1, <1>3, <2>1, <2>5, <2>6
<1>9. ASSUME cpc[c] = "recv", CanRead(down[c]), up' = up, down' = [down EXCEPT ![c] = ReadFrame(@)],
             cpc'[c] \in {"recv", "send", "done"}, \A k \in Clients \ {c} : cpc'[k] = cpc[k]
      PROVE  \A k \in Clients : Kept(k)
  <2>1. \A k \in Clients \ {c} : UNCHANGED <<up[k], down[k], cpc[k]>>
    BY <1>0, <1>9
  <2>2. /\ down'[c].end = down[c].end /\ Len(down'[c].q) <= Capacity /\ up'[c] = up[c]
        /\ up[c].end # "none" /\ Len(up[c].q) <= Capacity
    BY <1>0, <1>1, <1>9, KeptRead DEF Conn
  <2>3. Kept(c)
    BY <1>9, <2>2 DEF Kept
  <2> QED
    BY <1>3, <2>1, <2>3
<1>10. CASE PassOver(c)
  BY <1>1, <1>9, <1>10 DEF PassOver, client
<1>11. CASE PrintResponse(c)
  <2>1. /\ cpc[c] = "recv" /\ CanRead(down[c]) /\ up' = up /\ down' = [down EXCEPT ![c] = ReadFrame(@)]
        /\ UNCHANGED backlog
        /\ cpc' = [cpc EXCEPT ![c] = IF Len(todo[c]) = 1 THEN "done" ELSE "send"]
    BY <1>11 DEF PrintResponse, Received, Goto
  <2>2. cpc'[c] \in {"recv", "send", "done"} /\ \A k \in Clients \ {c} : cpc'[k] = cpc[k]
    BY <1>0, <2>1
  <2> QED
    BY <1>1, <1>9, <2>1, <2>2
<1>12. CASE ConnectFails(c) \/ SendRequestFails(c) \/ ReceiveFails(c) \/ Finish(c)
  BY <1>1, <1>4, <1>12 DEF ConnectFails, SendRequestFails, ReceiveFails, Finish
<1> QED
  BY <1>6, <1>7, <1>8, <1>10, <1>11, <1>12 DEF BStep, Run

LEMMA KeptOthers ==
  ASSUME Base, Base', \A k \in Clients : Conn(k), NEW c \in Clients,
         \/ PeerConnects(c) \/ PeerSends(c) \/ PeerReads(c) \/ PeerStops(c) \/ PeerLeaves(c)
         \/ OtherSends(c) \/ OtherStops(c)
  PROVE  \/ Joins(c)
         \/ /\ \A k \in Clients : Kept(k)
            /\ UNCHANGED <<backlog, server, setup, taken>> /\ (Serving => UNCHANGED given)
<1>1. Typed /\ Conn(c)
  BY DEF Base
<1>0. /\ up \in [Clients -> Chan(Requests)] /\ down \in [Clients -> Chan(Responses)]
      /\ up[c] \in Chan(Requests) /\ down[c] \in Chan(Responses) /\ cpc \in [Clients -> ClientLabels]
      /\ given \in [Clients -> Seq(Responses)]
  BY <1>1 DEF Typed
<1>2. Leaves(up[c], up[c]) /\ Leaves(down[c], down[c])
  BY LeavesItself
<1>3. ASSUME \A k \in Clients \ {c} : UNCHANGED <<up[k], down[k], taken[k], given[k], cpc[k]>>, Kept(c)
      PROVE  \A k \in Clients : Kept(k)
  BY <1>1, <1>3, KeptElse
<1>4. Len(up[c].q) <= Capacity /\ Len(down[c].q) <= Capacity
  BY <1>1 DEF Conn
<1>5. CASE PeerConnects(c)
  BY <1>5 DEF PeerConnects, Joins, server, client, history
<1>6. CASE PeerSends(c)
  <2>1. PICK f \in Offers : up' = [up EXCEPT ![c] = WriteFrame(up[c], f)]
    BY <1>6 DEF PeerSends
  <2>2. f \in Requests /\ CanWrite(up[c]) /\ UNCHANGED <<down, backlog, server, cpc, setup, taken, given>>
    BY <1>6 DEF Requests, PeerSends, client, history
  <2>3. up'[c].end = up[c].end /\ Len(up'[c].q) <= Capacity /\ up[c].end # "none"
    BY <1>0, <1>4, <2>1, <2>2, KeptWrite
  <2>4. Kept(c)
    BY <1>4, <2>2, <2>3 DEF Kept
  <2>5. \A k \in Clients \ {c} : up'[k] = up[k]
    BY <1>0, <2>1
  <2> QED
    BY <1>3, <2>2, <2>4, <2>5
<1>7. CASE PeerReads(c)
  <2>1. /\ down' = [down EXCEPT ![c] = ReadFrame(down[c])] /\ CanRead(down[c])
        /\ UNCHANGED <<up, backlog, server, cpc, setup, taken, given>>
    BY <1>7 DEF PeerReads, client
  <2>2. down'[c].end = down[c].end /\ Len(down'[c].q) <= Capacity
    BY <1>0, <1>4, <2>1, KeptRead
  <2>3. Kept(c)
    BY <1>4, <2>1, <2>2 DEF Kept
  <2>4. \A k \in Clients \ {c} : down'[k] = down[k]
    BY <1>0, <2>1
  <2> QED
    BY <1>3, <2>1, <2>3, <2>4
<1>8. CASE PeerStops(c)
  <2>1. PICK e \in Cuts : up' = [up EXCEPT ![c] = [up[c] EXCEPT !.end = e]]
    BY <1>8 DEF PeerStops
  <2>2. up[c].end = "open" /\ UNCHANGED <<down, backlog, server, cpc, setup, taken, given>> /\ e # "none"
    BY <1>8 DEF PeerStops, client, history, Cuts
  <2>3. up'[c].end = e /\ up'[c].q = up[c].q /\ \A k \in Clients \ {c} : up'[k] = up[k]
    BY <1>0, <2>1 DEF Chan
  <2>4. Kept(c)
    BY <1>4, <2>2, <2>3 DEF Kept
  <2> QED
    BY <1>3, <2>2, <2>3, <2>4
<1>9. CASE PeerLeaves(c)
  <2>1. /\ Quits(c) /\ UNCHANGED <<backlog, server, setup, taken, given>>
        /\ cpc' = [cpc EXCEPT ![c] = "left"]
    BY <1>9 DEF PeerLeaves, Quits, Goto, history
  <2>2. /\ Leaves(up[c], up'[c]) /\ Leaves(down[c], down'[c])
        /\ \A k \in Clients \ {c} : up'[k] = up[k] /\ down'[k] = down[k]
    BY <1>1, <2>1, QuitsFacts
  <2>3. cpc'[c] = "left" /\ \A k \in Clients \ {c} : cpc'[k] = cpc[k]
    BY <1>0, <2>1
  <2>4. Kept(c)
    BY <1>1, <2>1, <2>2, <2>3, KeptLeaves
  <2> QED
    BY <1>3, <2>1, <2>2, <2>3, <2>4
<1>10. CASE OtherSends(c)
  <2>1. PICK f \in Replies : /\ down' = [down EXCEPT ![c] = WriteFrame(down[c], f)]
                             /\ given' = [given EXCEPT ![c] = Append(given[c], f)]
    BY <1>10 DEF OtherSends
  <2>2. /\ f \in Responses /\ CanWrite(down[c]) /\ ~Serving
        /\ UNCHANGED <<up, backlog, server, cpc, setup, taken>>
    BY <1>10 DEF Responses, OtherSends, client
  <2>3. down'[c].end = down[c].end /\ Len(down'[c].q) <= Capacity /\ down[c].end # "none"
    BY <1>0, <1>4, <2>1, <2>2, KeptWrite
  <2>4. Kept(c)
    BY <1>1, <1>4, <2>2, <2>3 DEF Kept, Conn
  <2>5. \A k \in Clients \ {c} : down'[k] = down[k] /\ given'[k] = given[k]
    BY <1>0, <2>1
  <2> QED
    BY <1>3, <2>2, <2>4, <2>5
<1>11. CASE OtherStops(c)
  <2>1. PICK e \in Cuts \cup {"reset"} : down' = [down EXCEPT ![c] = [down[c] EXCEPT !.end = e]]
    BY <1>11 DEF OtherStops
  <2>2. /\ down[c].end = "open" /\ UNCHANGED <<backlog, server, cpc, setup, taken, given>> /\ e \notin {"none", "open"}
        /\ up' = [up EXCEPT ![c] = Abandoned(up[c])]
    BY <1>11 DEF OtherStops, client, history, Cuts
  <2>3. /\ down'[c].end = e /\ down'[c].q = down[c].q
        /\ \A k \in Clients \ {c} : down'[k] = down[k] /\ up'[k] = up[k]
        /\ up'[c] = Abandoned(up[c])
    BY <1>0, <2>1, <2>2 DEF Chan
  <2>4. up'[c].q = up[c].q /\ (up'[c].end = "none" <=> up[c].end = "none")
    BY <1>0, <2>3, AbandonedType DEF Leaves
  <2>5. Kept(c)
    BY <1>4, <2>2, <2>3, <2>4 DEF Kept
  <2> QED
    BY <1>3, <2>2, <2>3, <2>5
<1> QED
  BY <1>5, <1>6, <1>7, <1>8, <1>9, <1>10, <1>11

\* The queue of connections: each is in it once, and the one in hand is not.
Queue ==
  /\ cur # NoClient => up[cur].end # "none"
  /\ \A i \in 1..Len(backlog) : backlog[i] # cur /\ up[backlog[i]].end # "none"
  /\ \A i, j \in 1..Len(backlog) : backlog[i] = backlog[j] => i = j

Waits(k) == \E i \in 1..Len(backlog) : backlog[i] = k

\* What serve has not closed it holds.
Holds == Serving => \A k \in Clients : down[k].end = "open" => k = cur \/ Waits(k)

Connected == Base /\ Queue /\ Holds /\ \A k \in Clients : Conn(k)

LEMMA ConnectedInit == Init => Connected
<1> SUFFICES ASSUME Init PROVE Connected
  OBVIOUS
<1>1. Base
  BY TypedInit, ProgressInit DEF Base
<1>2. cur = NoClient /\ backlog = <<>> /\ Len(backlog) = 0
  BY DEF Init, InitServer
<1>3. Queue
  BY <1>2 DEF Queue
<1>4. ASSUME NEW k \in Clients PROVE down[k].end # "open" /\ Conn(k)
  <2>1. /\ up[k] = Closed /\ down[k] = Closed /\ taken[k] = <<>> /\ given[k] = <<>>
        /\ cpc[k] \in {"peer", "start"}
    BY DEF Init, InitClient
  <2>2. Closed.end = "none" /\ Len(Closed.q) = 0 /\ 0 <= Capacity
    BY JcWireAssumption DEF Closed
  <2> QED
    BY <2>1, <2>2 DEF Conn
<1> QED
  BY <1>1, <1>3, <1>4 DEF Connected, Holds

\* Steps that neither connect nor accept nor close.
LEMMA QueueStill ==
  ASSUME Connected, \A k \in Clients : Kept(k), UNCHANGED <<cur, backlog, setup>>
  PROVE  Queue' /\ Holds'
<1>1. cur \in Clients \cup {NoClient} /\ backlog \in Seq(Clients)
  BY DEF Connected, Base, Typed
<1>2. \A i \in 1..Len(backlog) : backlog[i] \in Clients
  BY <1>1
<1>3. \A k \in Clients : /\ up[k].end # "none" => up'[k].end # "none"
                         /\ down'[k].end = "open" => down[k].end = "open"
  BY DEF Kept
<1>4. Queue'
  BY <1>1, <1>2, <1>3 DEF Connected, Queue
<1>5. Holds'
  BY <1>3 DEF Connected, Holds, Serving, Waits
<1> QED
  BY <1>4, <1>5

LEMMA QueueJoins ==
  ASSUME Connected, NEW c \in Clients, Joins(c)
  PROVE  Queue' /\ Holds'
<1>1. /\ cur \in Clients \cup {NoClient} /\ backlog \in Seq(Clients) /\ Queue /\ Holds
      /\ up \in [Clients -> Chan(Requests)] /\ down \in [Clients -> Chan(Responses)]
  BY DEF Connected, Base, Typed
<1>2. /\ Len(backlog') = Len(backlog) + 1 /\ Len(backlog) \in Nat
      /\ \A i \in 1..Len(backlog) : backlog'[i] = backlog[i] /\ backlog[i] \in Clients
      /\ backlog'[Len(backlog) + 1] = c
  BY <1>1, AppendProperties DEF Joins
<1>3. /\ up[c].end = "none" /\ up'[c].end = "open" /\ UNCHANGED <<cur, setup>>
      /\ \A k \in Clients \ {c} : up'[k] = up[k] /\ down'[k] = down[k]
  BY <1>1 DEF Joins, Fresh, server
<1>4. c # cur
  BY <1>1, <1>3, JcAssumption DEF Queue
<1>5. \A i \in 1..Len(backlog) : backlog[i] # c
  BY <1>1, <1>3 DEF Queue
<1>6. cur' # NoClient => up'[cur'].end # "none"
  BY <1>1, <1>3, <1>4 DEF Queue
<1>7. ASSUME NEW i \in 1..Len(backlog')
      PROVE  /\ backlog'[i] # cur' /\ up'[backlog'[i]].end # "none"
             /\ i \in 1..Len(backlog) \/ i = Len(backlog) + 1
  BY <1>1, <1>2, <1>3, <1>4, <1>5 DEF Queue
<1>8. ASSUME NEW i \in 1..Len(backlog'), NEW j \in 1..Len(backlog'), backlog'[i] = backlog'[j]
      PROVE  i = j
  BY <1>1, <1>2, <1>5, <1>7, <1>8 DEF Queue
<1>9. Queue'
  BY <1>6, <1>7, <1>8 DEF Queue
<1>10. ASSUME NEW k \in Clients, Waits(k) \/ k = c PROVE Waits(k)'
  BY <1>2, <1>10 DEF Waits
<1>11. Holds'
  BY <1>1, <1>3, <1>10 DEF Holds, Serving
<1> QED
  BY <1>9, <1>11

LEMMA QueueServe ==
  ASSUME Connected, \A k \in Clients : Kept(k), ServeStep \/ ServerFails
  PROVE  Queue' /\ Holds'
<1>0. /\ Typed /\ Queue /\ Holds /\ UNCHANGED setup
      /\ cur \in Clients \cup {NoClient} /\ NoClient \notin Clients /\ backlog \in Seq(Clients)
      /\ cur = NoClient <=> spc \in {"accept", "exit", "killed"}
  BY JcAssumption DEF Connected, Base, Typed, ServeStep, ServerFails
<1>1. \A k \in Clients : /\ up[k].end # "none" => up'[k].end # "none"
                         /\ down'[k].end = "open" => down[k].end = "open"
  BY DEF Kept
<1>2. \A i \in 1..Len(backlog) : backlog[i] \in Clients
  BY <1>0
<1>3. ASSUME CloseClient, cur \in Clients PROVE Queue' /\ Holds'
  <2>1. /\ down'[cur].end # "open" /\ cur' = NoClient /\ backlog' = backlog
        /\ \A k \in Clients \ {cur} : down'[k] = down[k]
    BY <1>0, <1>3, CloseClientFacts
  <2>2. Queue'
    BY <1>0, <1>1, <1>2, <2>1 DEF Queue
  <2>3. Holds'
    BY <1>0, <2>1 DEF Holds, Serving, Waits
  <2> QED
    BY <2>2, <2>3
<1>4. ASSUME NEW how, EndServer(how) PROVE Queue' /\ Holds'
  <2>1. /\ cur' = NoClient /\ backlog' = <<>>
        /\ \A k \in Clients : k = cur \/ Waits(k) => down'[k].end # "open"
    BY <1>0, <1>4, EndServerFacts DEF Waits
  <2>2. Len(backlog') = 0
    BY <2>1
  <2>3. Queue'
    BY <2>1, <2>2 DEF Queue
  <2>4. Holds'
    BY <1>0, <1>1, <2>1 DEF Holds, Serving
  <2> QED
    BY <2>3, <2>4
<1>5. CASE Accept
  <2>1. /\ cur = NoClient /\ backlog # <<>> /\ cur' = Head(backlog) /\ backlog' = Tail(backlog)
        /\ UNCHANGED <<up, down>>
    BY <1>0, <1>5 DEF Accept
  <2>2. /\ cur' = backlog[1] /\ Len(backlog) \in Nat /\ Len(backlog) > 0
        /\ Len(backlog') = Len(backlog) - 1
        /\ \A i \in 1..Len(backlog') : backlog'[i] = backlog[i + 1]
    BY <1>0, <2>1, HeadTailProperties
  <2>3. \A i \in 1..Len(backlog') : i + 1 \in 1..Len(backlog) /\ i + 1 # 1
    BY <2>2
  <2>4. 1 \in 1..Len(backlog)
    BY <2>2
  <2>5. Queue'
    <3>1. up'[cur'].end # "none"
      BY <1>0, <2>1, <2>2, <2>4 DEF Queue
    <3>2. \A i \in 1..Len(backlog') : backlog'[i] # cur' /\ up'[backlog'[i]].end # "none"
      BY <1>0, <2>1, <2>2, <2>3, <2>4 DEF Queue
    <3>3. ASSUME NEW i \in 1..Len(backlog'), NEW j \in 1..Len(backlog'), backlog'[i] = backlog'[j]
          PROVE  i = j
      <4>1. i + 1 = j + 1
        BY <1>0, <2>2, <2>3, <3>3 DEF Queue
      <4> QED
        BY <4>1
    <3> QED
      BY <3>1, <3>2, <3>3 DEF Queue
  <2>6. ASSUME NEW k \in Clients, Waits(k) PROVE k = cur' \/ Waits(k)'
    <3>1. PICK i \in 1..Len(backlog) : backlog[i] = k
      BY <2>6 DEF Waits
    <3>2. CASE i = 1
      BY <2>2, <3>1, <3>2
    <3>3. CASE i # 1
      <4>1. i - 1 \in 1..Len(backlog') /\ (i - 1) + 1 = i
        BY <2>2, <3>3
      <4>2. backlog'[i - 1] = k
        BY <2>2, <3>1, <4>1
      <4> QED
        BY <4>1, <4>2 DEF Waits
    <3> QED
      BY <3>2, <3>3
  <2>7. Holds'
    BY <1>0, <2>1, <2>6 DEF Holds, Serving
  <2> QED
    BY <2>5, <2>7
<1>6. ASSUME UNCHANGED <<cur, backlog>> PROVE Queue' /\ Holds'
  BY <1>0, <1>6, QueueStill
<1>7. CASE ServerFails
  BY <1>4, <1>7 DEF ServerFails, AcceptFails
<1>8. CASE ServeStep
  <2>1. CASE Skip \/ Take \/ Send \/ SendReturns
    BY <1>6, <2>1 DEF Skip, Take, Takes, Send, SendReturns, net
  <2>2. CASE CloseAtEnd
    BY <1>0, <1>3, <2>2 DEF CloseAtEnd
  <2>3. CASE SendThrows
    BY <1>0, <1>3, <1>6, <2>3 DEF SendThrows, Writing, net
  <2>4. CASE SendKills
    BY <1>4, <2>4 DEF SendKills
  <2> QED
    BY <1>5, <1>8, <2>1, <2>2, <2>3, <2>4 DEF ServeStep, Serve
<1> QED
  BY <1>7, <1>8

LEMMA ConnectedStep == ASSUME Connected, [Next]_systemVars PROVE Connected'
<1>0. Base /\ Base' /\ \A k \in Clients : Conn(k)
  BY BaseStep DEF Connected
<1>1. CASE UNCHANGED systemVars
  <2>1. UNCHANGED <<up, down, backlog, cur, cpc, setup, taken, given>>
    BY <1>1 DEF systemVars, net, server, client, history
  <2>2. ASSUME NEW k \in Clients PROVE Kept(k)
    BY <1>0, <2>1, LeavesItself, KeptLeaves
  <2> QED
    BY <1>0, <2>1, <2>2, ConnKept, QueueStill DEF Connected
<1>2. CASE ServeStep \/ ServerFails
  <2>1. \A k \in Clients : Kept(k)
    BY <1>0, <1>2, KeptServe DEF Connected, Queue
  <2> QED
    BY <1>0, <1>2, <2>1, ConnKept, QueueServe DEF Connected
<1>3. ASSUME NEW c \in Clients, Joins(c) PROVE Connected'
  BY <1>0, <1>3, KeptJoins, QueueJoins DEF Connected
<1>4. ASSUME \A k \in Clients : Kept(k), UNCHANGED <<backlog, server, setup>> PROVE Connected'
  BY <1>0, <1>4, ConnKept, QueueStill DEF Connected, server
<1>5. ASSUME NEW c \in Clients, BStep(c) PROVE Connected'
  BY <1>0, <1>3, <1>4, <1>5, KeptB
<1>6. ASSUME NEW c \in Clients,
             \/ PeerConnects(c) \/ PeerSends(c) \/ PeerReads(c) \/ PeerStops(c) \/ PeerLeaves(c)
             \/ OtherSends(c) \/ OtherStops(c)
      PROVE  Connected'
  BY <1>0, <1>3, <1>4, <1>6, KeptOthers
<1>7. CASE Terminated
  BY <1>1, <1>7 DEF Terminated
<1> QED
  BY <1>1, <1>2, <1>5, <1>6, <1>7 DEF Next

LEMMA ConnectedAlways == Spec => []Connected
BY ConnectedInit, ConnectedStep, PTL DEF Spec

\* serve keeps no connection it is done with.
THEOREM ConnectionsAreHeld == Spec => []HoldsOne
<1>1. Connected => HoldsOne
  BY DEF Connected, Holds, HoldsOne, Waits
<1> QED
  BY <1>1, ConnectedAlways, PTL

\* The types of the server, of the clients and of their connections, whose
\* buffers never hold more than their capacity.
THEOREM CalculatorTypes == Spec => []TypeOK
<1>1. ASSUME Connected PROVE TypeOK
  <2>0. Typed /\ Queue /\ \A k \in Clients : Conn(k) /\ Progress(k)
    BY <1>1 DEF Connected, Base
  <2>1. /\ spc \in {"accept", "read", "send", "sending", "sorry", "exit", "killed"}
        /\ cur \in Clients \cup {NoClient} /\ (cur = NoClient <=> spc \in {"accept", "exit", "killed"})
    BY <2>0 DEF Typed, ServerLabels
  <2>2. cur # NoClient => up[cur].end # "none" /\ \A i \in 1..Len(backlog) : backlog[i] # cur
    BY <2>0 DEF Queue
  <2>3. ASSUME NEW k \in Clients
        PROVE  /\ up[k].end \in Ends /\ down[k].end \in Ends /\ code[k] \in {-1, 0, 1, 141}
               /\ Len(up[k].q) <= Capacity /\ Len(down[k].q) <= Capacity
               /\ cpc[k] \in {"send", "recv"} => todo[k] # <<>> /\ up[k].end # "none"
    <3>1. up[k] \in Chan(Requests) /\ down[k] \in Chan(Responses) /\ code[k] \in {-1, 0, 1, 141}
      BY <2>0 DEF Typed
    <3> QED
      BY <2>0, <3>1 DEF Chan, Conn, Progress
  <2> QED
    BY <2>1, <2>2, <2>3 DEF TypeOK
<1> QED
  BY <1>1, ConnectedAlways, PTL

-----------------------------------------------------------------------------
(* What serve has answered                                                 *)

\* The answer to the last request is still to be written.
Owes(k) == cur = k /\ spc = "send"
Sorry(k) == cur = k /\ spc = "sorry"

Answered(k) ==
  /\ Len(given[k]) <= Len(taken[k])
  /\ \A i \in 1..Len(given[k]) : given[k][i] = Answer(taken[k][i])
  /\ down[k].end = "open" /\ ~Owes(k) => Len(given[k]) = Len(taken[k])
  /\ down[k].end = "open" /\ Owes(k) => /\ Len(given[k]) + 1 = Len(taken[k])
                                        /\ reply = Answer(taken[k][Len(taken[k])])
  /\ Sorry(k) => down[k].end # "open"

LEMMA AnsweredShut ==
  ASSUME NEW k \in Clients, Answered(k), taken'[k] = taken[k], given'[k] = given[k], down'[k].end # "open"
  PROVE  Answered(k)'
BY DEF Answered

LEMMA AnsweredIdle ==
  ASSUME NEW k \in Clients, Answered(k), taken'[k] = taken[k], given'[k] = given[k],
         down'[k].end = "open" => down[k].end = "open",
         ~Owes(k), ~Owes(k)', ~Sorry(k)'
  PROVE  Answered(k)'
BY DEF Answered

LEMMA AnsweredStill ==
  ASSUME NEW k \in Clients, Answered(k), taken'[k] = taken[k], given'[k] = given[k],
         down'[k].end = "open" => down[k].end = "open", UNCHANGED server
  PROVE  Answered(k)'
BY DEF Answered, Owes, Sorry, server

\* Nothing is taken from the client in hand while it is owed an answer.
LEMMA AnsweredTake ==
  ASSUME Base, NEW k \in Clients, cur = k, Answered(k), Take,
         taken'[k] = Append(taken[k], Head(up[cur].q).payload), given'[k] = given[k]
  PROVE  Answered(k)'
<1> DEFINE p == Head(up[cur].q).payload
<1>1. /\ reply' = Answer(p) /\ spc' = "send" /\ spc = "read" /\ cur' = cur /\ down' = down
      /\ CanRead(up[cur])
  BY DEF Take, Takes
<1>2. p \in Payloads
  BY <1>1, ReadType, OwnTypes DEF Base, Typed
<1> HIDE DEF p
<1>3. taken[k] \in Seq(Payloads) /\ Len(given[k]) \in Nat
  <2>1. taken[k] \in Seq(Payloads) /\ given[k] \in Seq(Responses)
    BY DEF Base, Typed
  <2> QED
    BY <2>1
<1>4. taken'[k] = Append(taken[k], p)
  BY DEF p
<1>5. /\ Len(taken'[k]) = Len(taken[k]) + 1 /\ Len(taken[k]) \in Nat
      /\ \A i \in 1..Len(taken[k]) : taken'[k][i] = taken[k][i]
      /\ taken'[k][Len(taken[k]) + 1] = p
  BY <1>2, <1>3, <1>4, AppendProperties
<1>6. /\ Len(given[k]) <= Len(taken[k]) /\ \A i \in 1..Len(given[k]) : given[k][i] = Answer(taken[k][i])
      /\ down[k].end = "open" => Len(given[k]) = Len(taken[k])
  BY <1>1 DEF Answered, Owes
<1>7. Len(given'[k]) <= Len(taken'[k])
  BY <1>3, <1>5, <1>6
<1>8. \A i \in 1..Len(given'[k]) : given'[k][i] = Answer(taken'[k][i])
  BY <1>3, <1>5, <1>6
<1>9. Owes(k)' /\ ~Sorry(k)'
  BY <1>1 DEF Owes, Sorry
<1>10. down'[k].end = "open" => /\ Len(given'[k]) + 1 = Len(taken'[k])
                                /\ reply' = Answer(taken'[k][Len(taken'[k])])
  BY <1>1, <1>5, <1>6
<1> QED
  BY <1>7, <1>8, <1>9, <1>10 DEF Answered

LEMMA AnsweredSend ==
  ASSUME Base, NEW k \in Clients, cur = k, Answered(k), Send, down[k].end = "open",
         taken'[k] = taken[k], given'[k] = Append(given[k], reply)
  PROVE  Answered(k)'
<1>1. spc' \in {"read", "sending"} /\ spc = "send" /\ cur' = cur
  BY DEF Send, Answered, Sorry
<1>2. /\ Len(given[k]) + 1 = Len(taken[k]) /\ reply = Answer(taken[k][Len(taken[k])])
      /\ \A i \in 1..Len(given[k]) : given[k][i] = Answer(taken[k][i])
  BY <1>1 DEF Answered, Owes
<1>3. reply \in Responses /\ given[k] \in Seq(Responses)
  BY OwnTypes DEF Base, Typed
<1>4. /\ Len(given'[k]) = Len(given[k]) + 1 /\ Len(given[k]) \in Nat
      /\ \A i \in 1..Len(given[k]) : given'[k][i] = given[k][i]
      /\ given'[k][Len(given[k]) + 1] = reply
  BY <1>3, AppendProperties
<1>5. \A i \in 1..Len(given'[k]) : given'[k][i] = Answer(taken'[k][i])
  BY <1>2, <1>4
<1>6. ~Owes(k)' /\ ~Sorry(k)'
  BY <1>1 DEF Owes, Sorry
<1>7. Len(given'[k]) = Len(taken'[k]) /\ Len(given'[k]) <= Len(taken'[k])
  BY <1>2, <1>4
<1> QED
  BY <1>5, <1>6, <1>7 DEF Answered

LEMMA AnsweredServe ==
  ASSUME Connected, \A k \in Clients : Kept(k), ServeStep, NEW k \in Clients, Answered(k)
  PROVE  Answered(k)'
<1>0. /\ Typed /\ Base /\ cur \in Clients \cup {NoClient} /\ NoClient \notin Clients
      /\ cur = NoClient <=> spc \in {"accept", "exit", "killed"}
      /\ taken \in [Clients -> Seq(Payloads)] /\ given \in [Clients -> Seq(Responses)]
      /\ up \in [Clients -> Chan(Requests)] /\ down \in [Clients -> Chan(Responses)]
  BY JcAssumption DEF Connected, Base, Typed
<1>1. down'[k].end = "open" => down[k].end = "open"
  BY DEF Kept
<1>2. ASSUME cur # k, cur' # k, taken'[k] = taken[k], given'[k] = given[k] PROVE Answered(k)'
  BY <1>1, <1>2, AnsweredIdle DEF Owes, Sorry
<1>3. ASSUME CloseClient, cur \in Clients, Recorded(taken, given) PROVE Answered(k)'
  <2>1. down'[cur].end # "open" /\ cur' = NoClient
    BY <1>0, <1>3, CloseClientFacts
  <2> QED
    BY <1>0, <1>2, <1>3, <2>1, AnsweredShut DEF Recorded
<1>4. CASE (Accept \/ Skip \/ SendReturns) /\ Recorded(taken, given)
  <2>1. spc \in {"accept", "read", "sending"} /\ spc' = "read"
    BY <1>4 DEF Accept, Skip, Takes, SendReturns
  <2> QED
    BY <1>1, <1>4, <2>1, AnsweredIdle DEF Owes, Sorry, Recorded
<1>5. CASE CloseAtEnd /\ Recorded(taken, given)
  BY <1>0, <1>3, <1>5 DEF CloseAtEnd
<1>6. CASE SendThrows /\ Recorded(taken, given)
  <2>1. CASE spc = "sorry"
    BY <1>0, <1>3, <1>6, <2>1 DEF SendThrows
  <2>2. CASE spc # "sorry"
    <3>1. down[cur].end # "open" /\ UNCHANGED <<down, cur>>
      BY <1>6, <2>2 DEF SendThrows, Writing, WriteFails, net
    <3> QED
      BY <1>2, <1>6, <3>1, AnsweredShut DEF Recorded
  <2> QED
    BY <2>1, <2>2
<1>7. CASE SendKills /\ Recorded(taken, given)
  <2>1. EndServer("killed")
    BY <1>7 DEF SendKills
  <2>2. cur' = NoClient /\ (k = cur => down'[k].end # "open")
    BY <1>0, <2>1, EndServerFacts
  <2> QED
    BY <1>0, <1>2, <1>7, <2>2, AnsweredShut DEF Recorded
<1>8. CASE Take /\ Recorded([taken EXCEPT ![cur] = Append(@, Head(up[cur].q).payload)], given)
  <2>1. given' = given /\ taken' = [taken EXCEPT ![cur] = Append(taken[cur], Head(up[cur].q).payload)] /\ cur' = cur
    BY <1>8 DEF Recorded, Take, Takes
  <2>2. CASE k = cur
    BY <1>0, <1>8, <2>1, <2>2, AnsweredTake
  <2>3. CASE k # cur
    BY <1>0, <1>2, <2>1, <2>3
  <2> QED
    BY <2>2, <2>3
<1>9. CASE /\ Send
           /\ Recorded(taken, IF down[cur].end = "open"
                              THEN [given EXCEPT ![cur] = Append(@, reply)] ELSE given)
  <2>1. /\ taken' = taken /\ cur' = cur
        /\ given' = IF down[cur].end = "open" THEN [given EXCEPT ![cur] = Append(given[cur], reply)] ELSE given
    BY <1>9 DEF Recorded, Send
  <2>2. CASE k = cur /\ down[cur].end = "open"
    BY <1>0, <1>9, <2>1, <2>2, AnsweredSend
  <2>3. CASE k = cur /\ down[cur].end # "open"
    BY <1>1, <2>1, <2>3, AnsweredShut
  <2>4. CASE k # cur
    BY <1>0, <1>2, <2>1, <2>4
  <2> QED
    BY <2>2, <2>3, <2>4
<1> QED
  BY <1>0, <1>4, <1>5, <1>6, <1>7, <1>8, <1>9, ServeRecord

AllAnswered == Connected /\ (Serving => \A k \in Clients : Answered(k))

LEMMA AllAnsweredInit == Init => AllAnswered
<1> SUFFICES ASSUME Init PROVE AllAnswered
  OBVIOUS
<1>1. Connected /\ cur = NoClient /\ NoClient \notin Clients
  BY ConnectedInit, JcAssumption DEF Init, InitServer
<1>2. ASSUME NEW k \in Clients PROVE Answered(k)
  <2>1. taken[k] = <<>> /\ given[k] = <<>>
    BY DEF Init
  <2> QED
    BY <1>1, <2>1 DEF Answered, Owes, Sorry
<1> QED
  BY <1>1, <1>2 DEF AllAnswered

LEMMA AllAnsweredStep == ASSUME AllAnswered, [Next]_systemVars PROVE AllAnswered'
<1>0. /\ Connected /\ Connected' /\ Base /\ Base' /\ Queue /\ \A k \in Clients : Conn(k)
      /\ Serving => \A k \in Clients : Answered(k)
  BY ConnectedStep DEF AllAnswered, Connected
<1>1. ASSUME \A k \in Clients : Kept(k), UNCHANGED <<server, setup, taken>>, Serving => UNCHANGED given
      PROVE  AllAnswered'
  <2>1. ASSUME Serving, NEW k \in Clients PROVE Answered(k)'
    <3>1. Answered(k) /\ taken'[k] = taken[k] /\ given'[k] = given[k] /\ UNCHANGED server
      BY <1>0, <1>1, <2>1
    <3>2. down'[k].end = "open" => down[k].end = "open"
      BY <1>1 DEF Kept
    <3> QED
      BY <3>1, <3>2, AnsweredStill
  <2> QED
    BY <1>0, <1>1, <2>1 DEF AllAnswered, Serving
<1>2. ASSUME NEW c \in Clients, Joins(c) PROVE AllAnswered'
  <2>1. UNCHANGED <<server, setup, taken, given>> /\ up[c].end = "none"
    BY <1>2 DEF Joins
  <2>2. cur # c
    BY <1>0, <2>1, JcAssumption DEF Queue
  <2>3. ASSUME Serving, NEW k \in Clients PROVE Answered(k)'
    <3>1. CASE k = c
      <4>1. taken'[k] = <<>> /\ given'[k] = <<>>
        BY <1>0, <2>1, <3>1 DEF Conn
      <4>2. ~Owes(k)' /\ ~Sorry(k)'
        BY <2>1, <2>2, <3>1 DEF Owes, Sorry, server
      <4> QED
        BY <4>1, <4>2 DEF Answered
    <3>2. CASE k # c
      <4>1. down'[k] = down[k]
        BY <1>0, <1>2, <3>2 DEF Joins, Base, Typed
      <4> QED
        BY <1>0, <2>1, <2>3, <4>1, AnsweredStill
    <3> QED
      BY <3>1, <3>2
  <2> QED
    BY <1>0, <2>1, <2>3 DEF AllAnswered, Serving
<1>3. CASE UNCHANGED systemVars
  <2>1. UNCHANGED <<up, down, cpc, server, setup, taken, given>>
    BY <1>3 DEF systemVars, net, client, history
  <2>2. ASSUME NEW k \in Clients PROVE Kept(k)
    BY <1>0, <2>1, LeavesItself, KeptLeaves
  <2> QED
    BY <1>1, <2>1, <2>2
<1>4. CASE ServeStep \/ ServerFails
  <2>1. (\A k \in Clients : Kept(k)) /\ UNCHANGED setup /\ Serving
    BY <1>0, <1>4, KeptServe DEF Queue, ServeStep, ServerFails
  <2>2. ASSUME NEW k \in Clients PROVE Answered(k)'
    <3>1. Answered(k)
      BY <1>0, <2>1
    <3>2. CASE ServeStep
      BY <1>0, <2>1, <3>1, <3>2, AnsweredServe
    <3>3. CASE ServerFails
      <4>1. /\ spc = "accept" /\ cur = NoClient /\ NoClient \notin Clients /\ EndServer("exit")
            /\ UNCHANGED <<taken, given>>
        BY <1>0, <3>3, JcAssumption DEF ServerFails, AcceptFails, history, Base, Typed
      <4>2. cur' = NoClient
        BY <4>1 DEF EndServer
      <4>3. down'[k].end = "open" => down[k].end = "open"
        BY <2>1 DEF Kept
      <4> QED
        BY <3>1, <4>1, <4>2, <4>3, AnsweredIdle DEF Owes, Sorry
    <3> QED
      BY <1>4, <3>2, <3>3
  <2> QED
    BY <1>0, <2>1, <2>2 DEF AllAnswered
<1>5. ASSUME NEW c \in Clients, BStep(c) PROVE AllAnswered'
  BY <1>0, <1>1, <1>2, <1>5, KeptB
<1>6. ASSUME NEW c \in Clients,
             \/ PeerConnects(c) \/ PeerSends(c) \/ PeerReads(c) \/ PeerStops(c) \/ PeerLeaves(c)
             \/ OtherSends(c) \/ OtherStops(c)
      PROVE  AllAnswered'
  BY <1>0, <1>1, <1>2, <1>6, KeptOthers
<1>7. CASE Terminated
  BY <1>3, <1>7 DEF Terminated
<1> QED
  BY <1>3, <1>4, <1>5, <1>6, <1>7 DEF Next

LEMMA AllAnsweredAlways == Spec => []AllAnswered
BY AllAnsweredInit, AllAnsweredStep, PTL DEF Spec

LEMMA FunctionIsSeq ==
  ASSUME NEW S, NEW n \in Nat, NEW f \in [1..n -> S]
  PROVE  f \in Seq(S) /\ Len(f) = n
<1>1. f \in Seq(S)
  BY SeqDef
<1>2. DOMAIN f = 1..Len(f) /\ Len(f) \in Nat /\ DOMAIN f = 1..n
  BY <1>1, LenProperties
<1> QED
  BY <1>1, <1>2

\* A sequence that agrees with another as far as it goes is a prefix of it.
LEMMA AgreesIsPrefix ==
  ASSUME NEW S, NEW s \in Seq(S), NEW t \in Seq(S), Len(s) <= Len(t),
         \A i \in 1..Len(s) : s[i] = t[i]
  PROVE  IsPrefixOf(s, t) /\ (Len(s) = Len(t) => s = t)
<1>1. Len(s) \in Nat /\ Len(t) \in Nat /\ \A i \in 1..Len(s) : t[i] \in S
  BY LenProperties
<1>2. /\ SubSeq(t, 1, Len(s)) \in Seq(S) /\ Len(SubSeq(t, 1, Len(s))) = Len(s)
      /\ \A i \in 1..Len(s) : SubSeq(t, 1, Len(s))[i] = t[i]
  BY <1>1, SubSeqProperties
<1>3. s = SubSeq(t, 1, Len(s))
  BY <1>2, SeqEqual
<1>4. Len(s) = Len(t) => s = t
  BY SeqEqual
<1> QED
  BY <1>3, <1>4 DEF IsPrefixOf

\* Each request that serve has read gets one response, in order; and serve
\* reads again only when all it has read is answered.
THEOREM RequestsAreAnswered == Spec => []AnswersInOrder
<1>1. ASSUME AllAnswered, Serving, NEW k \in Clients
      PROVE  /\ IsPrefixOf(given[k], Answers(k))
             /\ cur = k /\ spc = "read" /\ down[k].end = "open" => given[k] = Answers(k)
  <2>1. Answered(k) /\ taken[k] \in Seq(Payloads) /\ given[k] \in Seq(Responses)
    BY <1>1 DEF AllAnswered, Connected, Base, Typed
  <2>2. \A p \in Payloads : Answer(p) \in Responses
    BY OwnTypes DEF Own, Responses
  <2>3. Len(taken[k]) \in Nat /\ \A i \in 1..Len(taken[k]) : taken[k][i] \in Payloads
    BY <2>1, LenProperties
  <2>4. Answers(k) \in [1..Len(taken[k]) -> Responses]
    BY <2>2, <2>3 DEF Answers
  <2>5. Answers(k) \in Seq(Responses) /\ Len(Answers(k)) = Len(taken[k])
    BY <2>3, <2>4, FunctionIsSeq
  <2>6. Len(given[k]) \in Nat /\ Len(given[k]) <= Len(taken[k])
    BY <2>1, LenProperties DEF Answered
  <2>7. \A i \in 1..Len(given[k]) : given[k][i] = Answers(k)[i]
    BY <2>1, <2>3, <2>6 DEF Answered, Answers
  <2>8. IsPrefixOf(given[k], Answers(k)) /\ (Len(given[k]) = Len(taken[k]) => given[k] = Answers(k))
    BY <2>1, <2>5, <2>6, <2>7, AgreesIsPrefix
  <2>9. cur = k /\ spc = "read" /\ down[k].end = "open" => Len(given[k]) = Len(taken[k])
    BY <2>1 DEF Answered, Owes
  <2> QED
    BY <2>8, <2>9
<1>2. AllAnswered => AnswersInOrder
  BY <1>1 DEF AnswersInOrder
<1> QED
  BY <1>2, AllAnsweredAlways, PTL

-----------------------------------------------------------------------------
(* What b prints                                                           *)

\* Two items that name a and b, in either order, are the query of one pair of
\* numbers.
LEMMA SplitsGives ==
  ASSUME NEW N, NEW V, NEW items \in Seq([name : N, value : V]), items # NoQuery, Splits(items)
  PROVE  /\ Parameter(items, "a") \in Int64 /\ Parameter(items, "b") \in Int64
         /\ Gives(items, Parameter(items, "a"), Parameter(items, "b"))
<1>1. Len(items) = 2 /\ items[1].value \in Int64 /\ items[2].value \in Int64
  BY DEF Splits
<1> DEFINE R == [name : N, value : V]
<1>a. items \in Seq(R)
  OBVIOUS
<1> HIDE DEF R
<1>b. items[1] \in R /\ items[2] \in R
  <2>1. 1 \in 1..Len(items) /\ 2 \in 1..Len(items)
    BY <1>1
  <2> QED
    BY <1>a, <2>1, ElementOfSeq
<1>c. items = <<items[1], items[2]>>
  <2> DEFINE x == items[1]  y == items[2]
  <2>1. <<x, y>> \in Seq(R) /\ Len(<<x, y>>) = 2 /\ <<x, y>>[1] = x /\ <<x, y>>[2] = y
    BY <1>b
  <2>2. \A i \in 1..Len(items) : items[i] = <<x, y>>[i]
    BY <1>1, <2>1
  <2> HIDE DEF x, y
  <2>3. items = <<x, y>>
    BY <1>1, <1>a, <2>1, <2>2, SeqEqual
  <2> QED
    BY <2>3 DEF x, y
<1>2. items = <<items[1], items[2]>> /\ items[1] \in [name : N, value : V] /\ items[2] \in [name : N, value : V]
  BY <1>b, <1>c DEF R
<1>3. /\ items[1] = [name |-> items[1].name, value |-> items[1].value]
      /\ items[2] = [name |-> items[2].name, value |-> items[2].value]
  BY <1>2
<1>4. 1..2 = {1, 2}
  OBVIOUS
<1>5. {"a", "b"} = {items[1].name, items[2].name}
  BY <1>4 DEF Splits
<1>6. (items[1].name = "a" /\ items[2].name = "b") \/ (items[1].name = "b" /\ items[2].name = "a")
  BY <1>5
<1> DEFINE at(name) == CHOOSE i \in 1..Len(items) : items[i].name = name
<1>7. ASSUME NEW name \in {"a", "b"} PROVE at(name) \in {1, 2} /\ items[at(name)].name = name
  <2>1. \E i \in 1..Len(items) : items[i].name = name
    BY <1>1, <1>4, <1>6, <1>7
  <2> QED
    BY <1>1, <1>4, <2>1
<1>8. Parameter(items, "a") = items[at("a")].value /\ Parameter(items, "b") = items[at("b")].value
  BY DEF Parameter
<1> HIDE DEF at
<1>9. CASE items[1].name = "a" /\ items[2].name = "b"
  <2>1. at("a") = 1 /\ at("b") = 2
    BY <1>7, <1>9
  <2> QED
    BY <1>1, <1>2, <1>3, <1>8, <1>9, <2>1 DEF Gives
<1>10. CASE items[1].name = "b" /\ items[2].name = "a"
  <2>1. at("a") = 2 /\ at("b") = 1
    BY <1>7, <1>10
  <2> QED
    BY <1>1, <1>2, <1>3, <1>8, <1>10, <2>1 DEF Gives
<1> QED
  BY <1>6, <1>9, <1>10

LEMMA GivesOne ==
  ASSUME NEW items, NEW a, NEW b, NEW c, NEW d, Gives(items, a, b), Gives(items, c, d)
  PROVE  a = c /\ b = d
<1> DEFINE A == [name |-> "a", value |-> a]  B == [name |-> "b", value |-> b]
           C == [name |-> "a", value |-> c]  D == [name |-> "b", value |-> d]
<1>1. items \in {<<A, B>>, <<B, A>>} /\ items \in {<<C, D>>, <<D, C>>}
  BY DEF Gives
<1>2. A.name = "a" /\ B.name = "b" /\ C.name = "a" /\ D.name = "b"
  OBVIOUS
<1>3. A.value = a /\ B.value = b /\ C.value = c /\ D.value = d
  OBVIOUS
<1> HIDE DEF A, B, C, D
<1>4. A # D /\ B # C
  BY <1>2
<1>5. A = C /\ B = D
  BY <1>1, <1>4
<1> QED
  BY <1>3, <1>5

LEMMA GivesSplits ==
  ASSUME NEW items, NEW a \in Int64, NEW b \in Int64, Gives(items, a, b)
  PROVE  Splits(items)
<1> DEFINE A == [name |-> "a", value |-> a]  B == [name |-> "b", value |-> b]
<1>1. items = <<A, B>> \/ items = <<B, A>>
  BY DEF Gives
<1>2. /\ A.name = "a" /\ B.name = "b" /\ A.value = a /\ B.value = b
      /\ A \in [name : {"a", "b"}, value : Int64] /\ B \in [name : {"a", "b"}, value : Int64]
  OBVIOUS
<1> HIDE DEF A, B
<1>3. items \in Seq([name : {"a", "b"}, value : Int64]) /\ Len(items) = 2
  <2> DEFINE R == [name : {"a", "b"}, value : Int64]
  <2>1. A \in R /\ B \in R
    BY <1>2
  <2> HIDE DEF R
  <2>2. <<A, B>> \in Seq(R) /\ <<B, A>> \in Seq(R) /\ Len(<<A, B>>) = 2 /\ Len(<<B, A>>) = 2
    BY <2>1
  <2> QED
    BY <1>1, <2>2 DEF R
<1>4. items # NoQuery /\ NaN \notin Int64
  BY <1>3, JcAssumption
<1>5. 1..2 = {1, 2}
  OBVIOUS
<1>6. \A i \in 1..2 : items[i].value \in Int64
  BY <1>1, <1>2, <1>5
<1>7. {items[i].name : i \in 1..2} = {items[1].name, items[2].name}
  BY <1>5
<1>8. {items[1].name, items[2].name} = {"a", "b"}
  BY <1>1, <1>2
<1> QED
  BY <1>3, <1>4, <1>6, <1>7, <1>8 DEF Splits

LEMMA ErrorParts ==
  ASSUME NEW status, NEW body
  PROVE  /\ Response(status, body).type = "RESPONSE"
         /\ Response(status, body).payload = [status |-> status, body |-> body]
         /\ Error(status) = Response(status, <<>>)
BY DEF Response, Error, Frame

LEMMA AnswersAreResponses == \A p : Answer(p).type = "RESPONSE"
BY Zenon DEF Answer, CalculatorAnswer, FileAnswer, Response, Error, Frame

\* A GET request of b is answered as its path promises.
LEMMA AnswerIsPromised ==
  ASSUME NEW path, RequestTo(path) # Malformed,
         path.items \in {NoQuery} \cup Seq([name : STRING, value : Int \cup {NaN}])
  PROVE  Promised(path, Answer(RequestTo(path)).payload)
<1> DEFINE r == Answer(RequestTo(path)).payload
           a == Parameter(path.items, "a")  b == Parameter(path.items, "b")
<1>1. Answer(RequestTo(path)) = IF path.route \in Prefixed THEN CalculatorAnswer(path) ELSE FileAnswer(path)
  BY DEF Answer, RequestTo
<1>2. Routes \subseteq Prefixed
  BY JcAssumption
<1>3. CASE path.route \in Routes /\ ~Splits(path.items)
  <2>1. r = [status |-> 400, body |-> <<>>]
    BY <1>1, <1>2, <1>3, ErrorParts DEF CalculatorAnswer
  <2>2. \A c, d \in Int64 : ~Gives(path.items, c, d)
    BY <1>3, GivesSplits
  <2> QED
    BY <1>3, <2>1, <2>2 DEF Promised
<1>4. CASE path.route \in Routes /\ Splits(path.items)
  <2>1. path.items # NoQuery /\ path.items \in Seq([name : STRING, value : Int \cup {NaN}])
    BY <1>4 DEF Splits
  <2>2. a \in Int64 /\ b \in Int64 /\ Gives(path.items, a, b)
    BY <1>4, <2>1, SplitsGives
  <2> HIDE DEF a, b
  <2>3. path.route \in {"/add", "/sub", "/mul", "/div"}
    BY <1>4 DEF Routes
  <2>4. CASE Overflows(path.route, a, b)
    <3>1. r = [status |-> 400, body |-> <<>>]
      BY <1>1, <1>2, <1>4, <2>4, ErrorParts DEF CalculatorAnswer, a, b
    <3>2. ~HasResult(path.route, a, b)
      BY <2>2, <2>3, <2>4, ArithmeticIsExact
    <3>3. \A c, d \in Int64 : Gives(path.items, c, d) => c = a /\ d = b
      BY <2>2, GivesOne
    <3> HIDE DEF r
    <3>4. r.status = 400 /\ \A c, d \in Int64 : Gives(path.items, c, d) => ~HasResult(path.route, c, d)
      BY <3>1, <3>2, <3>3
    <3> QED
      BY <1>4, <3>4 DEF Promised, r
  <2>5. CASE ~Overflows(path.route, a, b)
    <3>1. r = [status |-> 200, body |-> <<Calculate(path.route, a, b)>>]
      BY <1>1, <1>2, <1>4, <2>5, ErrorParts DEF CalculatorAnswer, a, b
    <3>2. IsResult(path.route, a, b, Calculate(path.route, a, b))
      BY <2>2, <2>3, <2>5, ArithmeticIsExact
    <3> HIDE DEF r
    <3>3. r.status = 200 /\ r.body[1] = Calculate(path.route, a, b)
      BY <3>1
    <3>4. \E c, d \in Int64 : Gives(path.items, c, d) /\ IsResult(path.route, c, d, r.body[1])
      BY <2>2, <3>2, <3>3
    <3> QED
      BY <1>4, <3>3, <3>4 DEF Promised, r
  <2> QED
    BY <2>4, <2>5
<1>5. CASE path.route \in Prefixed \ Routes
  <2>1. r = [status |-> 400, body |-> <<>>] \/ r = [status |-> 404, body |-> <<>>]
    BY <1>1, <1>5, ErrorParts DEF CalculatorAnswer
  <2> QED
    BY <1>5, <2>1 DEF Promised
<1>6. CASE path.route \notin Prefixed
  <2>1. Unsafe \cap DOMAIN Files = {}
    BY JcAssumption
  <2>2. CASE path.items = NoQuery /\ path.route \in DOMAIN Files \ Prefixed
    <3>1. r = [status |-> 200, body |-> Files[path.route]]
      BY <1>1, <1>6, <2>1, <2>2, ErrorParts DEF FileAnswer
    <3> QED
      BY <1>2, <1>6, <2>2, <3>1 DEF Promised
  <2>3. CASE ~(path.items = NoQuery /\ path.route \in DOMAIN Files \ Prefixed)
    <3>1. r = [status |-> 400, body |-> <<>>] \/ r = [status |-> 404, body |-> <<>>]
      BY <1>1, <1>6, <2>3, ErrorParts DEF FileAnswer
    <3> QED
      BY <1>2, <1>6, <2>3, <3>1 DEF Promised
  <2> QED
    BY <2>2, <2>3
<1> QED
  BY <1>3, <1>4, <1>5, <1>6

Wanted(k, i) == RequestTo(setup.targets[k][i].path)
Sendable(k, i) == setup.targets[k][i].path # LongPath
Expects(k) == IF cpc[k] = "recv" THEN 1 ELSE 0

\* What serve has read and what is on its way are the requests for successive
\* targets; none is missing while the connection is open.
Upward(k) ==
  /\ \A i \in 1..Len(taken[k]) : taken[k][i] = Wanted(k, i) /\ Sendable(k, i)
  /\ \A i \in 1..Len(up[k].q) : /\ up[k].q[i] = Frame("REQUEST", Wanted(k, Len(taken[k]) + i))
                                /\ Sendable(k, Len(taken[k]) + i)
  /\ up[k].end = "open" => Len(taken[k]) + Len(up[k].q) = Len(printed[k]) + Expects(k)

\* What is printed and what is on its way are the responses of serve.
Downward(k) ==
  /\ Len(printed[k]) + Len(down[k].q) <= Len(given[k])
  /\ down[k].end = "open" => Len(printed[k]) + Len(down[k].q) = Len(given[k])
  /\ \A i \in 1..Len(down[k].q) : down[k].q[i] = given[k][Len(printed[k]) + i]
  /\ \A i \in 1..Len(printed[k]) : printed[k][i] = given[k][i].payload

\* The lengths of the sequences of k.
Lengths(k) ==
  /\ Len(taken[k]) \in Nat /\ Len(up[k].q) \in Nat /\ Len(printed[k]) \in Nat
  /\ Len(down[k].q) \in Nat /\ Len(given[k]) \in Nat /\ Len(todo[k]) \in Nat

LEMMA LengthsAreNumbers == ASSUME Base, NEW k \in Clients PROVE Lengths(k)
<1>1. /\ taken[k] \in Seq(Payloads) /\ up[k] \in Chan(Requests) /\ printed[k] \in Seq(Results)
      /\ down[k] \in Chan(Responses) /\ given[k] \in Seq(Responses) /\ todo[k] \in Seq(Targets)
  BY DEF Base, Typed
<1>2. up[k].q \in Seq(Requests) /\ down[k].q \in Seq(Responses)
  BY <1>1 DEF Chan
<1> QED
  BY <1>1, <1>2, LenProperties DEF Lengths

LEMMA UpwardLeaves ==
  ASSUME Base, Base', NEW k \in Clients, Upward(k), Leaves(up[k], up'[k]),
         UNCHANGED <<setup, taken[k], printed[k]>>,
         up'[k].end # "open" \/ (up'[k] = up[k] /\ (cpc'[k] = "recv" <=> cpc[k] = "recv"))
  PROVE  Upward(k)'
<1>1. Len(up'[k].q) \in Nat /\ Len(up[k].q) \in Nat
  <2>1. up[k] \in Chan(Requests) /\ up'[k] \in Chan(Requests')
    BY DEF Base, Typed
  <2> QED
    BY <2>1 DEF Chan
<1>2. \A i \in 1..Len(up'[k].q) : i \in 1..Len(up[k].q) /\ up'[k].q[i] = up[k].q[i]
  BY <1>1 DEF Leaves
<1>3. \A i \in 1..Len(up'[k].q) : /\ up'[k].q[i] = Frame("REQUEST", Wanted(k, Len(taken'[k]) + i))
                                  /\ Sendable(k, Len(taken'[k]) + i)
  BY <1>2 DEF Upward
<1>4. \A i : Wanted(k, i)' = Wanted(k, i) /\ (Sendable(k, i)' <=> Sendable(k, i))
  BY DEF Wanted, Sendable
<1>5. up'[k].end = "open" => Len(taken'[k]) + Len(up'[k].q) = Len(printed'[k]) + Expects(k)'
  BY DEF Upward, Expects
<1> QED
  BY <1>3, <1>4, <1>5 DEF Upward

LEMMA DownwardLeaves ==
  ASSUME Base, Base', NEW k \in Clients, Downward(k), Leaves(down[k], down'[k]),
         UNCHANGED <<given[k], printed[k]>>,
         down'[k].end # "open" \/ down'[k] = down[k]
  PROVE  Downward(k)'
<1>1. Len(down'[k].q) \in Nat /\ Len(down[k].q) \in Nat
  <2>1. down[k] \in Chan(Responses) /\ down'[k] \in Chan(Responses')
    BY DEF Base, Typed
  <2> QED
    BY <2>1 DEF Chan
<1>2. Lengths(k)
  BY LengthsAreNumbers
<1>3. \A i \in 1..Len(down'[k].q) : i \in 1..Len(down[k].q) /\ down'[k].q[i] = down[k].q[i]
  BY <1>1 DEF Leaves
<1>4. Len(printed'[k]) + Len(down'[k].q) <= Len(given'[k])
  <2>1. Len(down'[k].q) <= Len(down[k].q) /\ Len(printed[k]) + Len(down[k].q) <= Len(given[k])
    BY DEF Downward, Leaves
  <2>2. Len(printed[k]) \in Nat /\ Len(given[k]) \in Nat
    BY <1>2 DEF Lengths
  <2> QED
    BY <1>1, <2>1, <2>2, Places
<1> QED
  BY <1>3, <1>4 DEF Downward

LEMMA UpwardTake ==
  ASSUME Base, NEW k \in Clients, cur = k, Upward(k), Take,
         taken'[k] = Append(taken[k], Head(up[k].q).payload),
         UNCHANGED <<setup, printed[k], cpc[k]>>
  PROVE  Upward(k)'
<1>1. up'[k] = ReadFrame(up[k]) /\ CanRead(up[k]) /\ up[k] \in Chan(Requests)
  BY DEF Take, Takes, Base, Typed
<1>2. /\ up'[k].end = up[k].end /\ Len(up'[k].q) = Len(up[k].q) - 1
      /\ \A i \in 1..Len(up'[k].q) : up'[k].q[i] = up[k].q[i + 1]
      /\ Head(up[k].q) = up[k].q[1] /\ Len(up[k].q) > 0 /\ Head(up[k].q) \in Requests
  <2> DEFINE ch == up[k]
  <2>1. ch \in Chan(Requests) /\ CanRead(ch)
    BY <1>1
  <2> HIDE DEF ch
  <2>2. /\ ReadFrame(ch).end = ch.end /\ Len(ReadFrame(ch).q) = Len(ch.q) - 1
        /\ \A i \in 1..Len(ReadFrame(ch).q) : ReadFrame(ch).q[i] = ch.q[i + 1]
        /\ Head(ch.q) = ch.q[1] /\ Len(ch.q) > 0 /\ Head(ch.q) \in Requests
    BY <2>1, ReadType
  <2> QED
    BY <1>1, <2>2 DEF ch
<1>3. Lengths(k) /\ taken[k] \in Seq(Payloads) /\ Head(up[k].q).payload \in Payloads
  BY <1>2, LengthsAreNumbers, OwnTypes DEF Base, Typed
<1>4. /\ Len(taken'[k]) = Len(taken[k]) + 1
      /\ \A i \in 1..Len(taken[k]) : taken'[k][i] = taken[k][i]
      /\ taken'[k][Len(taken[k]) + 1] = Head(up[k].q).payload
  BY <1>3, AppendProperties
<1>5. Head(up[k].q).payload = Wanted(k, Len(taken[k]) + 1) /\ Sendable(k, Len(taken[k]) + 1)
  <2>1. 1 \in 1..Len(up[k].q)
    BY <1>2, <1>3 DEF Lengths
  <2>2. Head(up[k].q) = Frame("REQUEST", Wanted(k, Len(taken[k]) + 1)) /\ Sendable(k, Len(taken[k]) + 1)
    BY <1>2, <2>1 DEF Upward
  <2> QED
    BY <2>2 DEF Frame
<1>6. ASSUME NEW i \in 1..Len(taken'[k]) PROVE taken'[k][i] = Wanted(k, i) /\ Sendable(k, i)
  <2>1. i \in 1..Len(taken[k]) \/ i = Len(taken[k]) + 1
    BY <1>3, <1>4 DEF Lengths
  <2> QED
    BY <1>4, <1>5, <2>1 DEF Upward
<1>7. ASSUME NEW i \in 1..Len(up'[k].q)
      PROVE  /\ up'[k].q[i] = Frame("REQUEST", Wanted(k, Len(taken'[k]) + i))
             /\ Sendable(k, Len(taken'[k]) + i)
  <2>1. i + 1 \in 1..Len(up[k].q) /\ i \in Nat /\ Len(taken[k]) \in Nat
    BY <1>2, <1>3 DEF Lengths
  <2>2. Len(taken[k]) + (i + 1) = Len(taken'[k]) + i
    BY <1>4, <2>1, Shifted, ZenonT(30)
  <2>3. /\ up[k].q[i + 1] = Frame("REQUEST", Wanted(k, Len(taken[k]) + (i + 1)))
        /\ Sendable(k, Len(taken[k]) + (i + 1))
    BY <2>1 DEF Upward
  <2> QED
    BY <1>2, <2>2, <2>3
<1>8. up'[k].end = "open" => Len(taken'[k]) + Len(up'[k].q) = Len(printed'[k]) + Expects(k)'
  <2>1. Len(taken[k]) \in Nat /\ Len(up[k].q) \in Nat
    BY <1>3 DEF Lengths
  <2>2. Len(taken'[k]) + Len(up'[k].q) = Len(taken[k]) + Len(up[k].q)
    BY <1>2, <1>4, <2>1, Shifted, ZenonT(30)
  <2> QED
    BY <1>2, <2>2 DEF Upward, Expects
<1>9. \A i : Wanted(k, i)' = Wanted(k, i) /\ (Sendable(k, i)' <=> Sendable(k, i))
  BY DEF Wanted, Sendable
<1> QED
  BY <1>6, <1>7, <1>8, <1>9 DEF Upward

LEMMA DownwardSend ==
  ASSUME Base, NEW k \in Clients, cur = k, Downward(k), Send, down[k].end = "open",
         given'[k] = Append(given[k], reply), UNCHANGED printed[k]
  PROVE  Downward(k)'
<1>1. down'[k] = WriteFrame(down[k], reply) /\ down[k] \in Chan(Responses) /\ reply \in Responses
  BY OwnTypes DEF Send, Base, Typed
<1>2. /\ down'[k].end = down[k].end /\ Len(down'[k].q) = Len(down[k].q) + 1
      /\ \A i \in 1..Len(down[k].q) : down'[k].q[i] = down[k].q[i]
      /\ down'[k].q[Len(down[k].q) + 1] = reply
  <2> DEFINE ch == down[k]
             f == reply
  <2>1. ch \in Chan(Responses) /\ f \in Responses /\ ch.end = "open" /\ down'[k] = WriteFrame(ch, f)
    BY <1>1
  <2> HIDE DEF ch, f
  <2>2. /\ WriteFrame(ch, f).end = ch.end /\ Len(WriteFrame(ch, f).q) = Len(ch.q) + 1
        /\ \A i \in 1..Len(ch.q) : WriteFrame(ch, f).q[i] = ch.q[i]
        /\ WriteFrame(ch, f).q[Len(ch.q) + 1] = f
    BY <2>1, WriteType
  <2> QED
    BY <2>1, <2>2 DEF ch, f
<1>3. Lengths(k) /\ given[k] \in Seq(Responses)
  BY LengthsAreNumbers DEF Base, Typed
<1>4. /\ Len(given'[k]) = Len(given[k]) + 1
      /\ \A i \in 1..Len(given[k]) : given'[k][i] = given[k][i]
      /\ given'[k][Len(given[k]) + 1] = reply
  BY <1>1, <1>3, AppendProperties
<1>5. Len(printed[k]) + Len(down[k].q) = Len(given[k])
  BY DEF Downward
<1>6. Len(printed[k]) \in Nat /\ Len(down[k].q) \in Nat
  BY <1>3 DEF Lengths
<1>7. Len(printed[k]) + (Len(down[k].q) + 1) = Len(given[k]) + 1
  <2>1. \A p, d, g \in Nat : p + d = g => p + (d + 1) = g + 1
    OBVIOUS
  <2>2. Len(given[k]) \in Nat
    BY <1>3 DEF Lengths
  <2> QED
    BY <1>5, <1>6, <2>1, <2>2, ZenonT(30)
<1>8. Len(printed'[k]) + Len(down'[k].q) = Len(given'[k])
  BY <1>2, <1>4, <1>7
<1>9. ASSUME NEW i \in 1..Len(down'[k].q) PROVE down'[k].q[i] = given'[k][Len(printed'[k]) + i]
  <2>1. CASE i \in 1..Len(down[k].q)
    <3>1. Len(printed[k]) + i \in 1..Len(given[k])
      <4>1. \A p, d, g \in Nat : p + d = g => \A j \in 1..d : p + j \in 1..g
        OBVIOUS
      <4>2. Len(given[k]) \in Nat
        BY <1>3 DEF Lengths
      <4> QED
        BY <1>5, <1>6, <2>1, <4>1, <4>2
    <3> QED
      BY <1>2, <1>4, <2>1, <3>1 DEF Downward
  <2>2. CASE i = Len(down[k].q) + 1
    <3>1. Len(printed'[k]) + i = Len(given[k]) + 1
      BY <1>7, <2>2
    <3> QED
      BY <1>2, <1>4, <2>2, <3>1
  <2>3. i \in 1..Len(down[k].q) \/ i = Len(down[k].q) + 1
    BY <1>2, <1>6, Places
  <2> QED
    BY <2>1, <2>2, <2>3
<1>10. ASSUME NEW i \in 1..Len(printed'[k]) PROVE printed'[k][i] = given'[k][i].payload
  <2>1. i \in 1..Len(given[k]) /\ i \in 1..Len(printed[k])
    BY <1>5, <1>6, Places
  <2> QED
    BY <1>4, <2>1 DEF Downward
<1>11. Len(printed'[k]) + Len(down'[k].q) <= Len(given'[k])
  <2>1. Len(given'[k]) \in Nat
    BY <1>3, <1>4 DEF Lengths
  <2>2. \A a, b \in Nat : a = b => a <= b
    OBVIOUS
  <2> QED
    BY <1>8, <2>1, <2>2
<1> QED
  BY <1>8, <1>9, <1>10, <1>11 DEF Downward

LEMMA UpwardRequest ==
  ASSUME Base, NEW k \in Clients, Upward(k), SendRequest(k), UNCHANGED <<setup, taken[k]>>
  PROVE  Upward(k)'
<1>1. /\ up'[k] = WriteFrame(up[k], RequestFrame(k)) /\ up[k] \in Chan(Requests)
      /\ cpc[k] = "send" /\ cpc'[k] = "recv" /\ printed' = printed /\ target(k).path # LongPath
  BY DEF SendRequest, Goto, Base, Typed
<1>2. Lengths(k) /\ Progress(k) /\ todo[k] \in Seq(Targets) /\ todo[k] # <<>>
  BY <1>1, LengthsAreNumbers DEF Base, Typed, Progress
<1>3. /\ Len(taken[k]) \in Nat /\ Len(up[k].q) \in Nat /\ Len(printed[k]) \in Nat
      /\ 1 \in 1..Len(todo[k]) /\ target(k) = todo[k][1]
  BY <1>2, EmptySeq DEF Lengths, target
<1>4. target(k) = setup.targets[k][Len(printed[k]) + 1] /\ RequestFrame(k) \in Requests
  <2>1. todo[k][1] = setup.targets[k][Len(printed[k]) + 1] /\ todo[k][1] \in Targets
    BY <1>2, <1>3, ElementOfSeq DEF Progress
  <2>2. RequestFrame(k) = Frame("REQUEST", RequestTo(todo[k][1].path))
    BY <1>3 DEF RequestFrame
  <2> QED
    BY <1>3, <2>1, <2>2 DEF Requests
<1>5. \A i : Wanted(k, i)' = Wanted(k, i) /\ (Sendable(k, i)' <=> Sendable(k, i))
  BY DEF Wanted, Sendable
<1>6. CASE up[k].end # "open"
  <2>1. up'[k] = up[k]
    BY <1>1, <1>4, <1>6, WriteType
  <2>2. /\ \A i \in 1..Len(taken'[k]) : taken'[k][i] = Wanted(k, i) /\ Sendable(k, i)
        /\ \A i \in 1..Len(up'[k].q) : /\ up'[k].q[i] = Frame("REQUEST", Wanted(k, Len(taken'[k]) + i))
                                       /\ Sendable(k, Len(taken'[k]) + i)
    BY <2>1 DEF Upward
  <2> QED
    BY <1>5, <1>6, <2>1, <2>2 DEF Upward
<1>7. CASE up[k].end = "open"
  <2>1. /\ up'[k].end = "open" /\ Len(up'[k].q) = Len(up[k].q) + 1
        /\ \A i \in 1..Len(up[k].q) : up'[k].q[i] = up[k].q[i]
        /\ up'[k].q[Len(up[k].q) + 1] = RequestFrame(k)
    <3> DEFINE f == RequestFrame(k)  ch == up[k]
    <3>1. f \in Requests /\ ch \in Chan(Requests) /\ up'[k] = WriteFrame(ch, f) /\ ch.end = "open"
      BY <1>1, <1>4, <1>7
    <3> HIDE DEF f, ch
    <3>2. /\ WriteFrame(ch, f).end = "open" /\ Len(WriteFrame(ch, f).q) = Len(ch.q) + 1
          /\ \A i \in 1..Len(ch.q) : WriteFrame(ch, f).q[i] = ch.q[i]
          /\ WriteFrame(ch, f).q[Len(ch.q) + 1] = f
      BY <3>1, WriteType
    <3> QED
      BY <3>1, <3>2 DEF f, ch
  <2>2. Len(taken[k]) + Len(up[k].q) = Len(printed[k])
    <3>1. Len(taken[k]) + Len(up[k].q) = Len(printed[k]) + 0
      BY <1>1, <1>7 DEF Upward, Expects
    <3>2. \A a \in Nat : a + 0 = a
      OBVIOUS
    <3> QED
      BY <1>3, <3>1, <3>2
  <2>3. Len(taken[k]) + (Len(up[k].q) + 1) = Len(printed[k]) + 1
    <3>1. Len(taken[k]) \in Nat /\ Len(up[k].q) \in Nat
      BY <1>3
    <3>2. Len(taken[k]) + (Len(up[k].q) + 1) = (Len(taken[k]) + Len(up[k].q)) + 1
      BY <3>1, Places
    <3> QED
      BY <2>2, <3>2
  <2>4. ASSUME NEW i \in 1..Len(up'[k].q)
        PROVE  /\ up'[k].q[i] = Frame("REQUEST", Wanted(k, Len(taken[k]) + i))
               /\ Sendable(k, Len(taken[k]) + i)
    <3>1. i \in 1..Len(up[k].q) \/ i = Len(up[k].q) + 1
      BY <1>3, <2>1, Places
    <3>2. CASE i \in 1..Len(up[k].q)
      BY <2>1, <3>2 DEF Upward
    <3>3. CASE i = Len(up[k].q) + 1
      <4>1. Len(taken[k]) + i = Len(printed[k]) + 1
        BY <2>3, <3>3
      <4>2. setup.targets[k][Len(taken[k]) + i] = target(k)
        BY <1>4, <4>1
      <4> QED
        BY <1>1, <2>1, <3>3, <4>2 DEF RequestFrame, Wanted, Sendable
    <3> QED
      BY <3>1, <3>2, <3>3
  <2>5. Len(taken'[k]) + Len(up'[k].q) = Len(printed'[k]) + Expects(k)'
    BY <1>1, <2>1, <2>3 DEF Expects
  <2> QED
    BY <1>5, <2>4, <2>5, ZenonT(30) DEF Upward
<1> QED
  BY <1>6, <1>7

\* Reading the response to the last request.
LEMMA FlowPrint ==
  ASSUME Base, NEW k \in Clients, Upward(k), Downward(k), PrintResponse(k), BStep(k)
  PROVE  Upward(k)' /\ Downward(k)'
<1> DEFINE r == Head(down[k].q).payload
<1>1. /\ CanRead(down[k]) /\ cpc[k] = "recv" /\ up' = up
      /\ down' = [down EXCEPT ![k] = ReadFrame(down[k])]
      /\ printed' = [printed EXCEPT ![k] = Append(printed[k], r)]
      /\ cpc' = [cpc EXCEPT ![k] = IF Len(todo[k]) = 1 THEN "done" ELSE "send"]
      /\ UNCHANGED <<setup, taken, given>>
  BY DEF PrintResponse, Received, Goto, BStep
<1>2. /\ down[k] \in Chan(Responses) /\ printed[k] \in Seq(Results) /\ cpc \in [Clients -> ClientLabels]
      /\ printed \in [Clients -> Seq(Results)] /\ down \in [Clients -> Chan(Responses)]
      /\ Lengths(k)
  BY LengthsAreNumbers DEF Base, Typed
<1>3. down'[k] = ReadFrame(down[k]) /\ printed'[k] = Append(printed[k], r) /\ cpc'[k] # "recv"
  BY <1>1, <1>2
<1>4. /\ down'[k].end = down[k].end /\ Len(down'[k].q) = Len(down[k].q) - 1
      /\ \A i \in 1..Len(down'[k].q) : down'[k].q[i] = down[k].q[i + 1]
      /\ Head(down[k].q) = down[k].q[1] /\ Len(down[k].q) > 0 /\ Head(down[k].q) \in Responses
  <2> DEFINE ch == down[k]
  <2>1. ch \in Chan(Responses) /\ CanRead(ch)
    BY <1>1, <1>2
  <2> HIDE DEF ch
  <2>2. /\ ReadFrame(ch).end = ch.end /\ Len(ReadFrame(ch).q) = Len(ch.q) - 1
        /\ \A i \in 1..Len(ReadFrame(ch).q) : ReadFrame(ch).q[i] = ch.q[i + 1]
        /\ Head(ch.q) = ch.q[1] /\ Len(ch.q) > 0 /\ Head(ch.q) \in Responses
    BY <2>1, ReadType
  <2> QED
    BY <1>3, <2>2 DEF ch
<1>5. r \in Results
  BY <1>4, OwnTypes
<1>6. Len(printed[k]) \in Nat /\ Len(down[k].q) \in Nat /\ Len(given[k]) \in Nat /\ 1 \in 1..Len(down[k].q)
  BY <1>2, <1>4 DEF Lengths
<1>7. r = given[k][Len(printed[k]) + 1].payload
  BY <1>4, <1>6 DEF Downward
<1> HIDE DEF r
<1>8. /\ Len(printed'[k]) = Len(printed[k]) + 1
      /\ \A i \in 1..Len(printed[k]) : printed'[k][i] = printed[k][i]
      /\ printed'[k][Len(printed[k]) + 1] = r
  BY <1>2, <1>3, <1>5, AppendProperties
<1>9. Len(printed'[k]) + Len(down'[k].q) = Len(printed[k]) + Len(down[k].q)
  BY <1>4, <1>6, <1>8, Shifted, ZenonT(30)
<1>10. ASSUME NEW i \in 1..Len(down'[k].q) PROVE down'[k].q[i] = given'[k][Len(printed'[k]) + i]
  <2>1. i + 1 \in 1..Len(down[k].q) /\ i \in Nat
    BY <1>4, <1>6
  <2>2. Len(printed[k]) + (i + 1) = Len(printed'[k]) + i
    <3>1. Len(printed[k]) \in Nat /\ Len(printed'[k]) = Len(printed[k]) + 1 /\ i \in Nat
      BY <1>6, <1>8, <2>1
    <3> QED
      BY <3>1, Shifted, ZenonT(30)
  <2>3. down[k].q[i + 1] = given[k][Len(printed[k]) + (i + 1)]
    BY <2>1 DEF Downward
  <2> QED
    BY <1>1, <1>4, <2>2, <2>3
<1>11. ASSUME NEW i \in 1..Len(printed'[k]) PROVE printed'[k][i] = given'[k][i].payload
  <2>1. i \in 1..Len(printed[k]) \/ i = Len(printed[k]) + 1
    BY <1>6, <1>8, Places
  <2> QED
    BY <1>1, <1>7, <1>8, <2>1 DEF Downward
<1>12. Downward(k)'
  BY <1>1, <1>4, <1>9, <1>10, <1>11 DEF Downward
<1>13. up[k].end = "open" => Len(taken'[k]) + Len(up'[k].q) = Len(printed'[k]) + Expects(k)'
  <2>1. Len(printed'[k]) + 0 = Len(printed[k]) + 1
    <3>1. \A a \in Nat : (a + 1) + 0 = a + 1
      OBVIOUS
    <3> QED
      BY <1>6, <1>8, <3>1
  <2>2. Expects(k)' = 0 /\ Expects(k) = 1
    BY <1>1, <1>3 DEF Expects
  <2> QED
    BY <1>1, <2>1, <2>2 DEF Upward
<1>14. \A i : Wanted(k, i)' = Wanted(k, i) /\ (Sendable(k, i)' <=> Sendable(k, i))
  BY <1>1 DEF Wanted, Sendable
<1>15. Upward(k)'
  BY <1>1, <1>13, <1>14 DEF Upward
<1> QED
  BY <1>12, <1>15

Flow(k) == IsB(k) => Upward(k) /\ Downward(k)

\* Of a connection that is closed, or not used.
LEMMA FlowLeaves ==
  ASSUME Base, Base', NEW k \in Clients, Flow(k), UNCHANGED <<setup, taken[k], given[k], printed[k]>>,
         Leaves(up[k], up'[k]), Leaves(down[k], down'[k]),
         up'[k].end # "open" \/ (up'[k] = up[k] /\ (cpc'[k] = "recv" <=> cpc[k] = "recv")),
         down'[k].end # "open" \/ down'[k] = down[k]
  PROVE  Flow(k)'
<1>1. IsB(k)' <=> IsB(k)
  BY DEF IsB
<1> QED
  BY <1>1, UpwardLeaves, DownwardLeaves DEF Flow

LEMMA FlowElse ==
  ASSUME Base, Base', NEW k \in Clients, Flow(k),
         UNCHANGED <<setup, taken[k], given[k], printed[k], up[k], down[k], cpc[k]>>
  PROVE  Flow(k)'
<1>1. /\ Leaves(up[k], up'[k]) /\ Leaves(down[k], down'[k])
      /\ up'[k] = up[k] /\ down'[k] = down[k] /\ cpc'[k] = cpc[k]
  BY LeavesItself
<1> QED
  BY <1>1, FlowLeaves

LEMMA FlowServe ==
  ASSUME AllAnswered, Base', ServeStep, NEW k \in Clients, Flow(k)
  PROVE  Flow(k)'
<1>0. /\ Base /\ Typed /\ UNCHANGED <<setup, printed, cpc>>
      /\ cur \in Clients \cup {NoClient} /\ NoClient \notin Clients
      /\ cur = NoClient <=> spc \in {"accept", "exit", "killed"}
      /\ taken \in [Clients -> Seq(Payloads)] /\ given \in [Clients -> Seq(Responses)]
      /\ up \in [Clients -> Chan(Requests)] /\ down \in [Clients -> Chan(Responses)]
  BY JcAssumption DEF AllAnswered, Connected, Base, Typed, ServeStep, client
<1>1. ASSUME UNCHANGED <<up[k], down[k], taken[k], given[k]>> PROVE Flow(k)'
  BY <1>0, <1>1, FlowElse
<1>2. ASSUME CloseClient, cur \in Clients, Recorded(taken, given) PROVE Flow(k)'
  <2>1. /\ Leaves(up[k], up'[k]) /\ Leaves(down[k], down'[k])
        /\ \/ up'[k].end # "open" /\ down'[k].end # "open"
           \/ up'[k] = up[k] /\ down'[k] = down[k]
    BY <1>0, <1>2, CloseClientFacts
  <2> QED
    BY <1>0, <1>2, <2>1, FlowLeaves DEF Recorded
<1>3. ASSUME EndServer("killed"), Recorded(taken, given) PROVE Flow(k)'
  <2>1. /\ Leaves(up[k], up'[k]) /\ Leaves(down[k], down'[k])
        /\ \/ up'[k].end # "open" /\ down'[k].end # "open"
           \/ up'[k] = up[k] /\ down'[k] = down[k]
    BY <1>0, <1>3, EndServerFacts
  <2> QED
    BY <1>0, <1>3, <2>1, FlowLeaves DEF Recorded
<1>4. CASE (Accept \/ SendReturns) /\ Recorded(taken, given)
  BY <1>1, <1>4 DEF Accept, SendReturns, net, Recorded
<1>5. CASE CloseAtEnd /\ Recorded(taken, given)
  BY <1>0, <1>2, <1>5 DEF CloseAtEnd
<1>6. CASE SendThrows /\ Recorded(taken, given)
  BY <1>0, <1>1, <1>2, <1>6 DEF SendThrows, Writing, net, Recorded
<1>7. CASE SendKills /\ Recorded(taken, given)
  BY <1>3, <1>7 DEF SendKills
<1>8. CASE Skip /\ Recorded(taken, given)
  <2>1. /\ CanRead(up[cur]) /\ Head(up[cur].q).type # "REQUEST" /\ cur \in Clients
        /\ up' = [up EXCEPT ![cur] = ReadFrame(up[cur])] /\ down' = down
    BY <1>0, <1>8 DEF Skip, Takes
  <2>2. CASE k # cur
    BY <1>0, <1>1, <1>8, <2>1, <2>2 DEF Recorded
  <2>3. CASE k = cur
    <3>1. Upward(k) => Head(up[k].q) = Frame("REQUEST", Wanted(k, Len(taken[k]) + 1))
      <4> DEFINE ch == up[k]
      <4>0. ch \in Chan(Requests) /\ CanRead(ch)
        BY <1>0, <2>1, <2>3
      <4> HIDE DEF ch
      <4>a. Head(ch.q) = ch.q[1] /\ Len(ch.q) \in Nat /\ Len(ch.q) > 0
        BY <4>0, ReadType
      <4>1. Head(up[k].q) = up[k].q[1] /\ 1 \in 1..Len(up[k].q)
        BY <4>a DEF ch
      <4> QED
        BY <4>1 DEF Upward
    <3>2. ~Upward(k)
      BY <2>1, <2>3, <3>1 DEF Frame
    <3> QED
      BY <1>0, <3>2 DEF Flow, IsB
  <2> QED
    BY <2>2, <2>3
<1>9. CASE Take /\ Recorded([taken EXCEPT ![cur] = Append(@, Head(up[cur].q).payload)], given)
  <2>1. /\ cur \in Clients /\ up' = [up EXCEPT ![cur] = ReadFrame(up[cur])] /\ down' = down
        /\ taken' = [taken EXCEPT ![cur] = Append(taken[cur], Head(up[cur].q).payload)] /\ given' = given
    BY <1>0, <1>9 DEF Take, Takes, Recorded
  <2>2. CASE k # cur
    BY <1>0, <1>1, <2>1, <2>2
  <2>3. CASE k = cur
    <3>1. Upward(k) => Upward(k)'
      BY <1>0, <1>9, <2>1, <2>3, UpwardTake
    <3>2. Downward(k) => Downward(k)'
      BY <1>0, <2>1, LeavesItself, DownwardLeaves
    <3> QED
      BY <1>0, <3>1, <3>2 DEF Flow, IsB
  <2> QED
    BY <2>2, <2>3
<1>10. CASE /\ Send
            /\ Recorded(taken, IF down[cur].end = "open"
                               THEN [given EXCEPT ![cur] = Append(@, reply)] ELSE given)
  <2>1. /\ cur \in Clients /\ up' = up /\ taken' = taken
        /\ down' = [down EXCEPT ![cur] = WriteFrame(down[cur], reply)]
        /\ given' = IF down[cur].end = "open" THEN [given EXCEPT ![cur] = Append(given[cur], reply)] ELSE given
    BY <1>0, <1>10 DEF Send, Recorded
  <2>2. CASE k # cur
    BY <1>0, <1>1, <2>1, <2>2
  <2>3. CASE k = cur /\ down[k].end # "open"
    <3>1. down'[k] = down[k]
      BY <1>0, <2>1, <2>3, WriteType, OwnTypes DEF Typed
    <3> QED
      BY <1>1, <2>1, <2>3, <3>1
  <2>4. CASE k = cur /\ down[k].end = "open"
    <3>1. Downward(k) => Downward(k)'
      BY <1>0, <1>10, <2>1, <2>4, DownwardSend
    <3>2. Upward(k) => Upward(k)'
      BY <1>0, <2>1, LeavesItself, UpwardLeaves
    <3> QED
      BY <1>0, <3>1, <3>2 DEF Flow, IsB
  <2> QED
    BY <2>2, <2>3, <2>4
<1> QED
  BY <1>0, <1>4, <1>5, <1>6, <1>7, <1>8, <1>9, <1>10, ServeRecord

\* The steps of one client leave the connections of the others alone.
LEMMA ElseOfB ==
  ASSUME Typed, NEW c \in Clients, NEW k \in Clients, k # c, BStep(c)
  PROVE  UNCHANGED <<up[k], down[k], cpc[k], printed[k]>>
<1>0. /\ cpc \in [Clients -> ClientLabels] /\ printed \in [Clients -> Seq(Results)]
      /\ up \in [Clients -> Chan(Requests)] /\ down \in [Clients -> Chan(Responses)]
  BY DEF Typed
<1>1. ASSUME NEW s, Exit(c, s) PROVE UNCHANGED <<up[k], down[k], cpc[k], printed[k]>>
  <2>1. Quits(c) /\ printed' = printed /\ cpc' = [cpc EXCEPT ![c] = "exit"]
    BY <1>1, ExitQuits
  <2> QED
    BY <1>0, <2>1, QuitsFacts
<1>2. CASE Parse(c)
  BY <1>0, <1>1, <1>2 DEF Parse, Goto, net
<1>3. CASE Connect(c) \/ SendRequest(c) \/ PassOver(c) \/ PrintResponse(c)
  BY <1>0, <1>3 DEF Connect, SendRequest, PassOver, PrintResponse, Goto, client
<1>4. CASE ConnectFails(c) \/ SendRequestFails(c) \/ ReceiveFails(c) \/ Finish(c)
  BY <1>1, <1>4 DEF ConnectFails, SendRequestFails, ReceiveFails, Finish
<1> QED
  BY <1>2, <1>3, <1>4 DEF BStep, Run

LEMMA FlowB ==
  ASSUME AllAnswered, Base', Serving, NEW k \in Clients, BStep(k), Flow(k)
  PROVE  Flow(k)'
<1>0. /\ Base /\ Typed /\ Conn(k) /\ Progress(k) /\ UNCHANGED <<setup, taken, given>>
      /\ cpc \in [Clients -> ClientLabels] /\ Answered(k)
      /\ up \in [Clients -> Chan(Requests)] /\ down \in [Clients -> Chan(Responses)]
      /\ NoClient \notin Clients
  BY JcAssumption DEF AllAnswered, Connected, Base, Typed, BStep
<1>1. IsB(k) => IsB(k)' /\ Upward(k) /\ Downward(k)
  BY <1>0 DEF Flow, IsB
<1>2. ASSUME NEW s, Exit(k, s) PROVE Flow(k)'
  <2>1. Quits(k) /\ printed' = printed
    BY <1>2, ExitQuits
  <2>2. /\ Leaves(up[k], up'[k]) /\ Leaves(down[k], down'[k])
        /\ up'[k].end # "open" /\ down'[k].end # "open"
    BY <1>0, <2>1, QuitsFacts
  <2> QED
    BY <1>0, <2>1, <2>2, FlowLeaves
<1>3. CASE Parse(k)
  <2>1. CASE Exit(k, 1)
    BY <1>2, <2>1
  <2>2. CASE ~Exit(k, 1)
    <3>1. /\ cpc[k] = "start" /\ cpc' = [cpc EXCEPT ![k] = "connect"] /\ UNCHANGED <<up, down, printed>>
      BY <1>3, <2>2 DEF Parse, Goto, net
    <3>2. cpc'[k] = "connect" /\ Leaves(up[k], up'[k]) /\ Leaves(down[k], down'[k])
      BY <1>0, <3>1, LeavesItself
    <3> QED
      BY <1>0, <3>1, <3>2, FlowLeaves
  <2> QED
    BY <2>1, <2>2
<1>4. CASE Connect(k)
  <2>1. /\ up'[k] = Fresh /\ down'[k] = Fresh /\ cpc[k] = "connect" /\ cpc'[k] = "send" /\ printed' = printed
    BY <1>0, <1>4 DEF Connect, Goto
  <2>2. printed'[k] = <<>> /\ taken'[k] = <<>> /\ given'[k] = <<>>
    BY <1>0, <2>1 DEF Conn, Progress
  <2>3. Len(Fresh.q) = 0 /\ Expects(k)' = 0
    BY <2>1 DEF Fresh, Expects
  <2>4. Upward(k)'
    BY <2>1, <2>2, <2>3 DEF Upward
  <2>5. Downward(k)'
    BY <2>1, <2>2, <2>3 DEF Downward
  <2> QED
    BY <2>4, <2>5 DEF Flow
<1>5. CASE SendRequest(k)
  <2>1. down' = down /\ printed' = printed
    BY <1>5 DEF SendRequest
  <2>2. Downward(k) => Downward(k)'
    BY <1>0, <2>1, LeavesItself, DownwardLeaves
  <2>3. Upward(k) => Upward(k)'
    BY <1>0, <1>5, UpwardRequest
  <2> QED
    BY <1>0, <2>2, <2>3 DEF Flow, IsB
<1>6. CASE PassOver(k)
  <2>1. CanRead(down[k]) /\ Head(down[k].q).type # "RESPONSE"
    BY <1>6 DEF PassOver
  <2>2. Head(down[k].q) = down[k].q[1] /\ Len(down[k].q) \in Nat /\ Len(down[k].q) > 0
    <3> DEFINE ch == down[k]
    <3>1. ch \in Chan(Responses) /\ CanRead(ch)
      BY <1>0, <2>1
    <3> HIDE DEF ch
    <3>2. Head(ch.q) = ch.q[1] /\ Len(ch.q) \in Nat /\ Len(ch.q) > 0
      BY <3>1, ReadType
    <3> QED
      BY <3>2 DEF ch
  <2>3. ASSUME Downward(k) PROVE FALSE
    <3>1. 1 \in 1..Len(down[k].q)
      BY <2>2
    <3>2. Head(down[k].q) = given[k][Len(printed[k]) + 1]
      BY <2>2, <2>3, <3>1 DEF Downward
    <3>3. Len(printed[k]) + 1 \in 1..Len(given[k])
      <4>1. /\ Len(printed[k]) \in Nat /\ Len(given[k]) \in Nat
            /\ Len(printed[k]) + Len(down[k].q) <= Len(given[k])
        BY <1>0, <2>3, LengthsAreNumbers DEF Lengths, Downward
      <4>2. \A p, d, g \in Nat : p + d <= g /\ d > 0 => p + 1 \in 1..g
        OBVIOUS
      <4> QED
        BY <2>2, <4>1, <4>2
    <3>4. given[k][Len(printed[k]) + 1] = Answer(taken[k][Len(printed[k]) + 1])
      BY <1>0, <3>3 DEF Answered
    <3> QED
      BY <2>1, <3>2, <3>4, AnswersAreResponses
  <2> QED
    BY <1>0, <2>3 DEF Flow, IsB
<1>7. CASE PrintResponse(k)
  <2>1. Upward(k) /\ Downward(k) => Upward(k)' /\ Downward(k)'
    BY <1>0, <1>7, FlowPrint
  <2> QED
    BY <1>0, <2>1 DEF Flow, IsB
<1>8. CASE ConnectFails(k) \/ SendRequestFails(k) \/ ReceiveFails(k) \/ Finish(k)
  BY <1>2, <1>8 DEF ConnectFails, SendRequestFails, ReceiveFails, Finish
<1> QED
  BY <1>3, <1>4, <1>5, <1>6, <1>7, <1>8 DEF BStep, Run

LEMMA FlowOthers ==
  ASSUME AllAnswered, Base', Serving, NEW k \in Clients, Flow(k), NEW c \in Clients,
         \/ PeerConnects(c) \/ PeerSends(c) \/ PeerReads(c) \/ PeerStops(c) \/ PeerLeaves(c)
         \/ OtherSends(c) \/ OtherStops(c)
  PROVE  Flow(k)'
<1>0. /\ Base /\ Typed /\ Progress(c) /\ cpc \in [Clients -> ClientLabels]
      /\ up \in [Clients -> Chan(Requests)] /\ down \in [Clients -> Chan(Responses)]
  BY DEF AllAnswered, Connected, Base, Typed
<1>1. cpc[c] = "peer" /\ UNCHANGED <<setup, printed, taken, given>>
  BY DEF PeerConnects, PeerSends, PeerReads, PeerStops, PeerLeaves, OtherSends, OtherStops, client, history
<1>2. ~IsB(c)
  BY <1>0, <1>1 DEF Progress
<1>3. CASE k = c
  BY <1>1, <1>2, <1>3 DEF Flow, IsB
<1>4. CASE k # c
  <2>1. UNCHANGED <<up[k], down[k], cpc[k]>>
    <3>1. CASE PeerLeaves(c)
      <4>1. Quits(c) /\ cpc' = [cpc EXCEPT ![c] = "left"]
        BY <3>1 DEF PeerLeaves, Quits, Goto
      <4> QED
        BY <1>0, <1>4, <4>1, QuitsFacts
    <3>2. CASE PeerConnects(c)
      BY <1>0, <1>4, <3>2 DEF PeerConnects, client
    <3>3. CASE PeerSends(c) \/ PeerReads(c) \/ PeerStops(c)
      BY <1>0, <1>4, <3>3 DEF PeerSends, PeerReads, PeerStops, client
    <3>4. ~OtherSends(c) /\ ~OtherStops(c)
      BY DEF OtherSends, OtherStops
    <3> QED
      BY <3>1, <3>2, <3>3, <3>4
  <2> QED
    BY <1>0, <1>1, <2>1, FlowElse
<1> QED
  BY <1>3, <1>4

Flows == AllAnswered /\ (Serving => \A k \in Clients : Flow(k))

LEMMA FlowsInit == Init => Flows
<1> SUFFICES ASSUME Init PROVE Flows
  OBVIOUS
<1>1. ASSUME NEW k \in Clients PROVE Flow(k)
  <2>1. /\ up[k] = Closed /\ down[k] = Closed /\ printed[k] = <<>> /\ taken[k] = <<>> /\ given[k] = <<>>
    BY DEF Init, InitClient
  <2>2. Closed.end = "none" /\ Len(Closed.q) = 0
    BY DEF Closed
  <2> QED
    BY <2>1, <2>2 DEF Flow, Upward, Downward
<1> QED
  BY <1>1, AllAnsweredInit DEF Flows

LEMMA FlowsStep == ASSUME Flows, [Next]_systemVars PROVE Flows'
<1>0. /\ AllAnswered /\ AllAnswered' /\ Base /\ Base' /\ Typed
      /\ Serving => \A k \in Clients : Flow(k)
  BY AllAnsweredStep, BaseStep DEF Flows, AllAnswered, Connected, Base
<1>1. UNCHANGED setup
  BY DEF Next, ServeStep, ServerFails, BStep, PeerConnects, PeerSends, PeerReads, PeerStops, PeerLeaves,
         OtherSends, OtherStops, Terminated, systemVars
<1>2. ASSUME Serving, NEW k \in Clients PROVE Flow(k)'
  <2>0. Flow(k)
    BY <1>0, <1>2
  <2>1. CASE UNCHANGED systemVars
    <3>1. UNCHANGED <<up, down, cpc, printed, taken, given>>
      BY <2>1 DEF systemVars, net, client, history
    <3> QED
      BY <1>0, <1>1, <2>0, <3>1, FlowElse
  <2>2. CASE ServeStep
    BY <1>0, <2>0, <2>2, FlowServe
  <2>3. CASE ServerFails
    <3>1. EndServer("exit") /\ UNCHANGED <<cpc, printed, taken, given>>
      BY <2>3 DEF ServerFails, AcceptFails, client, history
    <3>2. /\ Leaves(up[k], up'[k]) /\ Leaves(down[k], down'[k])
          /\ \/ up'[k].end # "open" /\ down'[k].end # "open"
             \/ up'[k] = up[k] /\ down'[k] = down[k]
      BY <1>0, <3>1, EndServerFacts
    <3> QED
      BY <1>0, <1>1, <2>0, <3>1, <3>2, FlowLeaves
  <2>4. ASSUME NEW c \in Clients, BStep(c) PROVE Flow(k)'
    <3>1. CASE k = c
      BY <1>0, <1>2, <2>0, <2>4, <3>1, FlowB
    <3>2. CASE k # c
      <4>1. UNCHANGED <<up[k], down[k], cpc[k], printed[k]>>
        BY <1>0, <2>4, <3>2, ElseOfB
      <4>2. UNCHANGED <<taken, given>>
        BY <2>4 DEF BStep
      <4> QED
        BY <1>0, <1>1, <2>0, <4>1, <4>2, FlowElse
    <3> QED
      BY <3>1, <3>2
  <2>5. ASSUME NEW c \in Clients,
               \/ PeerConnects(c) \/ PeerSends(c) \/ PeerReads(c) \/ PeerStops(c) \/ PeerLeaves(c)
               \/ OtherSends(c) \/ OtherStops(c)
        PROVE  Flow(k)'
    BY <1>0, <1>2, <2>0, <2>5, FlowOthers
  <2>6. CASE Terminated
    BY <2>1, <2>6 DEF Terminated
  <2> QED
    BY <2>1, <2>2, <2>3, <2>4, <2>5, <2>6 DEF Next
<1>3. Serving' <=> Serving
  BY <1>1 DEF Serving
<1> QED
  BY <1>0, <1>2, <1>3 DEF Flows

LEMMA FlowsAlways == Spec => []Flows
BY FlowsInit, FlowsStep, PTL DEF Spec

\* What b prints for a target is the exact result of its arithmetic, for
\* integers of any width, or the whole file, and an error otherwise.
THEOREM AnswersArePrinted == Spec => []PrintsAnswers
<1>1. ASSUME Flows, Serving, NEW k \in Clients, NEW i \in 1..Len(printed[k])
      PROVE  Promised(setup.targets[k][i].path, printed[k][i])
  <2>0. /\ Base /\ Typed /\ Answered(k) /\ Flow(k) /\ Progress(k) /\ Lengths(k)
        /\ setup.targets[k] \in Seq(Targets) /\ printed[k] \in Seq(Results)
    BY <1>1, JcAssumption, LengthsAreNumbers, SMTT(30) DEF Flows, AllAnswered, Connected, Base, Typed
  <2>1. printed[k] # <<>>
    BY <1>1
  <2>2. IsB(k) /\ \A j \in 1..Len(setup.targets[k]) : setup.targets[k][j] # BadEndpoint
    BY <2>0, <2>1 DEF Progress
  <2>3. Upward(k) /\ Downward(k)
    BY <2>0, <2>2 DEF Flow
  <2>4. i \in 1..Len(given[k]) /\ i \in 1..Len(taken[k]) /\ i \in 1..Len(setup.targets[k])
    <3>1. Len(printed[k]) + Len(down[k].q) <= Len(given[k]) /\ Len(given[k]) <= Len(taken[k])
      BY <2>0, <2>3 DEF Downward, Answered
    <3>2. Len(printed[k]) + Len(todo[k]) = Len(setup.targets[k])
      BY <2>0 DEF Progress
    <3>3. \A p, d, g, t \in Nat : p + d <= g /\ g <= t => p <= g /\ p <= t
      OBVIOUS
    <3>4. \A p, d \in Nat : p <= p + d /\ p + d \in Nat
      OBVIOUS
    <3>5. Len(printed[k]) <= Len(given[k]) /\ Len(printed[k]) <= Len(taken[k])
      BY <2>0, <3>1, <3>3 DEF Lengths
    <3>6. Len(printed[k]) <= Len(setup.targets[k]) /\ Len(setup.targets[k]) \in Nat
      BY <2>0, <3>2, <3>4 DEF Lengths
    <3>7. \A p, n \in Nat : p <= n => \A j \in 1..p : j \in 1..n
      OBVIOUS
    <3> QED
      BY <2>0, <3>5, <3>6, <3>7 DEF Lengths
  <2> DEFINE t == setup.targets[k][i]
  <2>5. t \in Targets \ {BadEndpoint} /\ t.path # LongPath /\ taken[k][i] = RequestTo(t.path)
    BY <2>0, <2>2, <2>3, <2>4, ElementOfSeq DEF Upward, Wanted, Sendable
  <2>6. printed[k][i] = Answer(RequestTo(t.path)).payload
    BY <2>0, <2>3, <2>4, <2>5 DEF Downward, Answered
  <2> HIDE DEF t
  <2>7. /\ RequestTo(t.path) # Malformed
        /\ t.path.items \in {NoQuery} \cup Seq([name : STRING, value : Int \cup {NaN}])
    BY <2>5, JcAssumption
  <2>8. Promised(t.path, printed[k][i])
    BY <2>6, <2>7, AnswerIsPromised
  <2> QED
    BY <2>8 DEF t
<1>2. Flows => PrintsAnswers
  BY <1>1 DEF PrintsAnswers
<1> QED
  BY <1>2, FlowsAlways, PTL

-----------------------------------------------------------------------------
(* How serve may die                                                       *)

\* Each request that is still on its way to serve is one of the first n that
\* were sent, and comes after the t that serve has read.
Ranked(q, t, n) ==
  \E r \in [1..Len(q) -> Nat] :
    \A i \in 1..Len(q) : q[i].type = "REQUEST" =>
      /\ t < r[i] /\ r[i] <= n
      /\ \A j \in 1..(i - 1) : q[j].type = "REQUEST" => r[j] < r[i]

LEMMA RankedEmpty == ASSUME NEW t \in Nat, NEW n \in Nat PROVE Ranked(<<>>, t, n)
<1>1. Len(<<>>) = 0 /\ 1..0 = {}
  OBVIOUS
<1>2. [i \in 1..0 |-> 0] \in [1..0 -> Nat]
  OBVIOUS
<1> QED
  BY <1>1, <1>2 DEF Ranked

\* What is left of the stream is ranked like the whole.
LEMMA RankedPrefix ==
  ASSUME NEW q, NEW b, NEW t \in Nat, NEW n \in Nat, Len(q) \in Nat, Len(b) \in Nat,
         Ranked(q, t, n), Len(b) <= Len(q), \A i \in 1..Len(b) : b[i] = q[i]
  PROVE  Ranked(b, t, n)
<1>1. PICK r \in [1..Len(q) -> Nat] :
        \A i \in 1..Len(q) : q[i].type = "REQUEST" =>
          /\ t < r[i] /\ r[i] <= n
          /\ \A j \in 1..(i - 1) : q[j].type = "REQUEST" => r[j] < r[i]
  BY DEF Ranked
<1> DEFINE s == [i \in 1..Len(b) |-> r[i]]
<1>2. \A i \in 1..Len(b) : i \in 1..Len(q) /\ \A j \in 1..(i - 1) : j \in 1..Len(b)
  OBVIOUS
<1>3. s \in [1..Len(b) -> Nat] /\ \A i \in 1..Len(b) : s[i] = r[i]
  BY <1>1, <1>2
<1> HIDE DEF s
<1>4. ASSUME NEW i \in 1..Len(b), b[i].type = "REQUEST"
      PROVE  /\ t < s[i] /\ s[i] <= n
             /\ \A j \in 1..(i - 1) : b[j].type = "REQUEST" => s[j] < s[i]
  BY <1>1, <1>2, <1>3, <1>4
<1> QED
  BY <1>3, <1>4 DEF Ranked

\* A frame is written; a request is the last of them.
LEMMA RankedAppend ==
  ASSUME NEW q, NEW b, NEW t \in Nat, NEW n \in Nat, NEW m \in Nat,
         Len(q) \in Nat, Len(b) = Len(q) + 1, \A i \in 1..Len(q) : b[i] = q[i],
         Ranked(q, t, n), t <= n,
         IF b[Len(b)].type = "REQUEST" THEN m = n + 1 ELSE m = n
  PROVE  Ranked(b, t, m)
<1> DEFINE l == Len(q)
<1>1. PICK r \in [1..l -> Nat] :
        \A i \in 1..l : q[i].type = "REQUEST" =>
          /\ t < r[i] /\ r[i] <= n
          /\ \A j \in 1..(i - 1) : q[j].type = "REQUEST" => r[j] < r[i]
  BY DEF Ranked
<1> DEFINE s == [i \in 1..(l + 1) |-> IF i = l + 1 THEN m ELSE r[i]]
<1>2. Len(b) = l + 1 /\ l \in Nat /\ n <= m
  OBVIOUS
<1>3. /\ \A i \in 1..l : i \in 1..(l + 1) /\ i # l + 1 /\ \A j \in 1..(i - 1) : j \in 1..l
      /\ \A i \in 1..(l + 1) : i # l + 1 => i \in 1..l
      /\ \A j \in 1..((l + 1) - 1) : j \in 1..l
      /\ l + 1 \in 1..(l + 1)
  OBVIOUS
<1> HIDE DEF l
<1>4. s \in [1..(l + 1) -> Nat] /\ s[l + 1] = m /\ \A i \in 1..l : s[i] = r[i]
  BY <1>2, <1>3
<1> HIDE DEF s
<1>5. \A i \in 1..l : b[i] = q[i] /\ r[i] \in Nat
  BY DEF l
<1>6. ASSUME NEW i \in 1..l, b[i].type = "REQUEST"
      PROVE  /\ t < s[i] /\ s[i] <= m
             /\ \A j \in 1..(i - 1) : b[j].type = "REQUEST" => s[j] < s[i]
  <2>1. /\ t < r[i] /\ r[i] <= n /\ r[i] \in Nat
        /\ \A j \in 1..(i - 1) : q[j].type = "REQUEST" => r[j] < r[i]
    BY <1>1, <1>5, <1>6
  <2>2. r[i] <= m
    BY <1>2, <2>1
  <2> QED
    BY <1>3, <1>4, <1>5, <2>1, <2>2
<1>7. ASSUME b[l + 1].type = "REQUEST"
      PROVE  /\ t < s[l + 1] /\ s[l + 1] <= m
             /\ \A j \in 1..((l + 1) - 1) : b[j].type = "REQUEST" => s[j] < s[l + 1]
  <2>1. m = n + 1 /\ t < m
    BY <1>2, <1>7
  <2>2. ASSUME NEW j \in 1..l, b[j].type = "REQUEST" PROVE s[j] < m
    <3>1. r[j] <= n /\ r[j] \in Nat
      BY <1>1, <1>5, <2>2
    <3>2. r[j] < m
      BY <2>1, <3>1
    <3> QED
      BY <1>4, <3>2
  <2> QED
    BY <1>3, <1>4, <2>1, <2>2
<1> QED
  BY <1>2, <1>3, <1>4, <1>6, <1>7 DEF Ranked

\* More were sent, and lost.
LEMMA RankedMore ==
  ASSUME NEW q, NEW t \in Nat, NEW n \in Nat, NEW m \in Nat, n <= m, Ranked(q, t, n)
  PROVE  Ranked(q, t, m)
<1>1. PICK r \in [1..Len(q) -> Nat] :
        \A i \in 1..Len(q) : q[i].type = "REQUEST" =>
          /\ t < r[i] /\ r[i] <= n
          /\ \A j \in 1..(i - 1) : q[j].type = "REQUEST" => r[j] < r[i]
  BY DEF Ranked
<1>2. \A i \in 1..Len(q) : r[i] \in Nat
  BY <1>1
<1>3. \A x \in Nat : x <= n => x <= m
  OBVIOUS
<1> QED
  BY <1>1, <1>2, <1>3 DEF Ranked

\* A frame is read; a request makes one more of those that have been.
LEMMA RankedRead ==
  ASSUME NEW q, NEW b, NEW t \in Nat, NEW n \in Nat, NEW u \in Nat,
         Len(q) \in Nat, Len(q) > 0, Len(b) = Len(q) - 1, \A i \in 1..Len(b) : b[i] = q[i + 1],
         Ranked(q, t, n), t <= n,
         IF q[1].type = "REQUEST" THEN u = t + 1 ELSE u = t
  PROVE  Ranked(b, u, n) /\ u <= n
<1> DEFINE l == Len(b)
<1>1. PICK r \in [1..Len(q) -> Nat] :
        \A i \in 1..Len(q) : q[i].type = "REQUEST" =>
          /\ t < r[i] /\ r[i] <= n
          /\ \A j \in 1..(i - 1) : q[j].type = "REQUEST" => r[j] < r[i]
  BY DEF Ranked
<1> DEFINE s == [i \in 1..l |-> r[i + 1]]
<1>2. /\ 1 \in 1..Len(q)
      /\ \A i \in 1..l : /\ i + 1 \in 1..Len(q) /\ 1 \in 1..((i + 1) - 1)
                         /\ \A j \in 1..(i - 1) : j \in 1..l /\ j + 1 \in 1..((i + 1) - 1)
  OBVIOUS
<1>3. s \in [1..l -> Nat] /\ (\A i \in 1..l : s[i] = r[i + 1]) /\ \A i \in 1..Len(q) : r[i] \in Nat
  BY <1>1, <1>2
<1>4. \A i \in 1..l : b[i] = q[i + 1]
  OBVIOUS
<1>5. \A a, c \in Nat : t < a /\ a < c => t + 1 < c
  OBVIOUS
<1>6. \A a \in Nat : t < a /\ a <= n => t + 1 <= n
  OBVIOUS
<1> HIDE DEF l, s
<1>7. u <= n
  BY <1>1, <1>2, <1>3, <1>6
<1>8. ASSUME NEW i \in 1..l, b[i].type = "REQUEST"
      PROVE  /\ u < s[i] /\ s[i] <= n
             /\ \A j \in 1..(i - 1) : b[j].type = "REQUEST" => s[j] < s[i]
  <2>1. /\ t < r[i + 1] /\ r[i + 1] <= n
        /\ \A j \in 1..((i + 1) - 1) : q[j].type = "REQUEST" => r[j] < r[i + 1]
    BY <1>1, <1>2, <1>4, <1>8
  <2>2. u < r[i + 1]
    <3>1. CASE q[1].type = "REQUEST"
      BY <1>1, <1>2, <1>3, <1>5, <2>1, <3>1
    <3>2. CASE q[1].type # "REQUEST"
      BY <2>1, <3>2
    <3> QED
      BY <3>1, <3>2
  <2>3. ASSUME NEW j \in 1..(i - 1), b[j].type = "REQUEST" PROVE s[j] < s[i]
    <3>1. j \in 1..l /\ j + 1 \in 1..((i + 1) - 1)
      BY <1>2
    <3> QED
      BY <1>3, <1>4, <2>1, <2>3, <3>1
  <2> QED
    BY <1>3, <2>1, <2>2, <2>3
<1> QED
  BY <1>3, <1>7, <1>8 DEF Ranked, l

Counted == asked \in [Clients -> Nat] /\ heard \in [Clients -> Nat]

\* What serve has read was asked, and what the client has read was given.
Tally(k) ==
  /\ Len(taken[k]) <= asked[k] /\ Ranked(up[k].q, Len(taken[k]), asked[k])
  /\ heard[k] + Len(down[k].q) <= Len(given[k])

LEMMA CountIsNat ==
  ASSUME NEW f \in [Clients -> Nat], NEW c \in Clients, NEW b \in BOOLEAN
  PROVE  /\ Count(f, c, b) \in [Clients -> Nat]
         /\ \A k \in Clients : k # c => Count(f, c, b)[k] = f[k]
         /\ Count(f, c, b)[c] = IF b THEN f[c] + 1 ELSE f[c]
<1>1. Count(f, c, b) = IF b THEN [f EXCEPT ![c] = f[c] + 1] ELSE f
  BY DEF Count
<1>2. f[c] + 1 \in Nat
  OBVIOUS
<1>3. CASE b
  BY <1>1, <1>2, <1>3
<1>4. CASE ~b
  BY <1>1, <1>4
<1> QED
  BY <1>3, <1>4

LEMMA CountedStep == ASSUME Counted, [Next]_systemVars PROVE Counted'
<1>1. CASE ServeStep \/ ServerFails \/ Terminated \/ UNCHANGED systemVars
  BY <1>1 DEF Counted, ServeStep, ServerFails, Terminated, systemVars, history
<1>2. ASSUME NEW c \in Clients, BStep(c) PROVE Counted'
  <2>1. /\ asked \in [Clients -> Nat] /\ heard \in [Clients -> Nat]
        /\ asked' = Count(asked, c, cpc[c] = "send" /\ cpc'[c] = "recv")
        /\ heard' = Count(heard, c, printed'[c] # printed[c])
    BY <1>2 DEF BStep, Counted
  <2>2. asked' \in [Clients -> Nat] /\ heard' \in [Clients -> Nat]
    BY <2>1 DEF Count
  <2> QED
    BY <2>2 DEF Counted
<1>3. ASSUME NEW c \in Clients, PeerSends(c) \/ PeerReads(c) PROVE Counted'
  <2>1. CASE PeerReads(c)
    <3>1. heard' = Count(heard, c, TRUE) /\ asked' = asked
      BY <2>1 DEF PeerReads
    <3> QED
      BY <3>1, CountIsNat DEF Counted
  <2>2. CASE PeerSends(c)
    <3>1. PICK f \in Offers : asked' = Count(asked, c, f.type = "REQUEST")
      BY <2>2 DEF PeerSends
    <3>2. heard' = heard
      BY <2>2 DEF PeerSends
    <3> QED
      BY <3>1, <3>2 DEF Count, Counted
  <2> QED
    BY <1>3, <2>1, <2>2
<1>4. ASSUME NEW c \in Clients,
             PeerConnects(c) \/ PeerStops(c) \/ PeerLeaves(c) \/ OtherSends(c) \/ OtherStops(c)
      PROVE  Counted'
  BY <1>4 DEF Counted, PeerConnects, PeerStops, PeerLeaves, OtherSends, OtherStops, history
<1> QED
  BY <1>1, <1>2, <1>3, <1>4 DEF Next

LEMMA TallyNumbers ==
  ASSUME Base, Counted, NEW k \in Clients
  PROVE  /\ Lengths(k) /\ asked[k] \in Nat /\ heard[k] \in Nat
         /\ up[k] \in Chan(Requests) /\ down[k] \in Chan(Responses)
         /\ taken[k] \in Seq(Payloads) /\ given[k] \in Seq(Responses)
BY LengthsAreNumbers DEF Counted, Base, Typed

LEMMA TallyLeaves ==
  ASSUME Base, Base', Counted, NEW k \in Clients, Tally(k),
         Leaves(up[k], up'[k]), Leaves(down[k], down'[k]),
         UNCHANGED <<taken[k], given[k], asked[k], heard[k]>>
  PROVE  Tally(k)'
<1>1. /\ Len(taken[k]) \in Nat /\ asked[k] \in Nat /\ heard[k] \in Nat /\ Len(given[k]) \in Nat
      /\ Len(up[k].q) \in Nat /\ Len(down[k].q) \in Nat
  BY TallyNumbers DEF Lengths
<1>2. Len(up'[k].q) \in Nat /\ Len(down'[k].q) \in Nat
  <2>1. up'[k] \in Chan(Requests') /\ down'[k] \in Chan(Responses')
    BY DEF Base, Typed
  <2> QED
    BY <2>1 DEF Chan
<1>3. Ranked(up'[k].q, Len(taken[k]), asked[k])
  BY <1>1, <1>2, RankedPrefix DEF Leaves, Tally
<1>4. heard[k] + Len(down'[k].q) <= Len(given[k])
  <2>1. \A h, a, b, g \in Nat : b <= a /\ h + a <= g => h + b <= g
    OBVIOUS
  <2>2. Len(down'[k].q) <= Len(down[k].q) /\ heard[k] + Len(down[k].q) <= Len(given[k])
    BY DEF Leaves, Tally
  <2> QED
    BY <1>1, <1>2, <2>1, <2>2
<1> QED
  BY <1>3, <1>4 DEF Tally

LEMMA TallyElse ==
  ASSUME NEW k \in Clients, Tally(k),
         UNCHANGED <<up[k], down[k], taken[k], given[k], asked[k], heard[k]>>
  PROVE  Tally(k)'
BY DEF Tally

\* The client reads a frame.
LEMMA TallyHear ==
  ASSUME Base, Counted, NEW k \in Clients, Tally(k), CanRead(down[k]),
         down'[k] = ReadFrame(down[k]), UNCHANGED <<up[k], taken[k], given[k], asked[k]>>,
         heard'[k] = heard[k] \/ heard'[k] = heard[k] + 1
  PROVE  Tally(k)'
<1>1. heard[k] \in Nat /\ Len(given[k]) \in Nat /\ down[k] \in Chan(Responses)
  BY TallyNumbers DEF Lengths
<1>2. Len(down'[k].q) = Len(down[k].q) - 1 /\ Len(down[k].q) \in Nat
  BY <1>1, ReadType
<1>3. heard'[k] + Len(down'[k].q) <= Len(given[k])
  BY <1>1, <1>2, SMTT(30) DEF Tally
<1> QED
  BY <1>3 DEF Tally

\* The client writes a frame.
LEMMA TallyAsk ==
  ASSUME Base, Counted, NEW k \in Clients, Tally(k), NEW f \in Requests,
         up'[k] = WriteFrame(up[k], f), UNCHANGED <<down[k], taken[k], given[k], heard[k]>>,
         IF f.type = "REQUEST" THEN asked'[k] = asked[k] + 1 ELSE asked'[k] = asked[k]
  PROVE  Tally(k)'
<1> DEFINE t == Len(taken[k])  n == asked[k]  m == asked'[k]
<1>1. t \in Nat /\ n \in Nat /\ up[k] \in Chan(Requests) /\ Len(up[k].q) \in Nat
  BY TallyNumbers DEF Lengths
<1>2. m \in Nat /\ n <= m /\ t <= n /\ t <= m /\ Ranked(up[k].q, t, n)
  BY <1>1 DEF Tally
<1>3. Ranked(up'[k].q, t, m)
  <2>1. CASE up[k].end = "open"
    <3> DEFINE q == up[k].q  b == up'[k].q
    <3>1. /\ Len(b) = Len(q) + 1 /\ b[Len(q) + 1] = f
          /\ \A i \in 1..Len(q) : b[i] = q[i]
      BY <1>1, <2>1, WriteType
    <3>2. IF b[Len(b)].type = "REQUEST" THEN m = n + 1 ELSE m = n
      BY <3>1
    <3> HIDE DEF q, b, t, n, m
    <3>3. Len(q) \in Nat /\ Ranked(q, t, n)
      BY <1>1, <1>2 DEF q
    <3>4. Ranked(b, t, m)
      BY <1>1, <1>2, <3>1, <3>2, <3>3, RankedAppend
    <3> QED
      BY <3>4 DEF b
  <2>2. CASE up[k].end # "open"
    <3>1. up'[k] = up[k]
      BY <1>1, <2>2, WriteType
    <3> HIDE DEF t, n, m
    <3>2. Ranked(up[k].q, t, m)
      BY <1>1, <1>2, RankedMore
    <3> QED
      BY <3>1, <3>2
  <2> QED
    BY <2>1, <2>2
<1> QED
  BY <1>2, <1>3 DEF Tally

LEMMA TallyServe ==
  ASSUME Base, Base', Counted, ServeStep \/ ServerFails, NEW k \in Clients, Tally(k)
  PROVE  Tally(k)'
<1>0. /\ Typed /\ cur \in Clients \cup {NoClient} /\ NoClient \notin Clients
      /\ cur = NoClient <=> spc \in {"accept", "exit", "killed"}
      /\ taken \in [Clients -> Seq(Payloads)] /\ given \in [Clients -> Seq(Responses)]
      /\ up \in [Clients -> Chan(Requests)] /\ down \in [Clients -> Chan(Responses)]
      /\ reply \in Responses
  BY JcAssumption, OwnTypes DEF Base, Typed
<1>1. UNCHANGED <<asked, heard>>
  BY DEF ServeStep, ServerFails, history
<1>2. /\ Len(taken[k]) \in Nat /\ asked[k] \in Nat /\ heard[k] \in Nat /\ Len(given[k]) \in Nat
      /\ Len(up[k].q) \in Nat /\ Len(down[k].q) \in Nat
  BY TallyNumbers DEF Lengths
<1>3. ASSUME UNCHANGED <<up[k], down[k], taken[k], given[k]>> PROVE Tally(k)'
  BY <1>1, <1>3, TallyElse
<1>4. ASSUME CloseClient, cur \in Clients, Recorded(taken, given) PROVE Tally(k)'
  BY <1>0, <1>1, <1>4, CloseClientFacts, TallyLeaves DEF Recorded
<1>5. ASSUME NEW how, EndServer(how), Recorded(taken, given) PROVE Tally(k)'
  BY <1>0, <1>1, <1>5, EndServerFacts, TallyLeaves DEF Recorded
<1>6. ASSUME Takes, cur = k, given' = given,
             IF Head(up[k].q).type = "REQUEST"
             THEN taken'[k] = Append(taken[k], Head(up[k].q).payload) ELSE taken'[k] = taken[k]
      PROVE  Tally(k)'
  <2>1. CanRead(up[k]) /\ up'[k] = ReadFrame(up[k]) /\ down' = down
    BY <1>0, <1>6 DEF Takes
  <2> DEFINE q == up[k].q  b == up'[k].q  ch == up[k]
  <2>2. /\ Len(b) = Len(q) - 1 /\ Len(q) > 0 /\ q[1] = Head(up[k].q) /\ q[1] \in Requests
        /\ \A i \in 1..Len(b) : b[i] = q[i + 1]
    <3>1. ch \in Chan(Requests) /\ CanRead(ch)
      BY <1>0, <2>1
    <3> HIDE DEF ch
    <3>2. /\ Len(ReadFrame(ch).q) = Len(ch.q) - 1 /\ Len(ch.q) > 0
          /\ Head(ch.q) = ch.q[1] /\ Head(ch.q) \in Requests
          /\ \A i \in 1..Len(ReadFrame(ch).q) : ReadFrame(ch).q[i] = ch.q[i + 1]
      BY <3>1, ReadType
    <3> QED
      BY <2>1, <3>2 DEF ch
  <2>3. IF q[1].type = "REQUEST" THEN Len(taken'[k]) = Len(taken[k]) + 1 ELSE Len(taken'[k]) = Len(taken[k])
    <3>1. q[1].payload \in Payloads
      BY <2>2, OwnTypes
    <3> QED
      BY <1>0, <1>6, <2>2, <3>1, AppendProperties
  <2>4. Len(taken'[k]) \in Nat
    BY <1>2, <2>3
  <2>5. Ranked(q, Len(taken[k]), asked[k]) /\ Len(taken[k]) <= asked[k]
    BY DEF Tally
  <2>6. Len(q) \in Nat
    BY <1>2
  <2> HIDE DEF q, b
  <2>7. Ranked(b, Len(taken'[k]), asked[k]) /\ Len(taken'[k]) <= asked[k]
    BY <1>2, <2>2, <2>3, <2>4, <2>5, <2>6, RankedRead
  <2>8. heard'[k] + Len(down'[k].q) <= Len(given'[k])
    BY <1>1, <1>6, <2>1 DEF Tally
  <2> QED
    BY <1>1, <2>7, <2>8 DEF Tally, b
<1>7. CASE Skip /\ Recorded(taken, given)
  <2>1. Takes /\ up' = [up EXCEPT ![cur] = ReadFrame(@)] /\ down' = down
    BY <1>7 DEF Skip, Takes
  <2>2. CASE k = cur
    BY <1>6, <1>7, <2>1, <2>2 DEF Skip, Recorded
  <2>3. CASE k # cur
    BY <1>0, <1>3, <1>7, <2>1, <2>3 DEF Recorded
  <2> QED
    BY <2>2, <2>3
<1>8. CASE Take /\ Recorded([taken EXCEPT ![cur] = Append(@, Head(up[cur].q).payload)], given)
  <2>1. /\ Takes /\ up' = [up EXCEPT ![cur] = ReadFrame(@)] /\ down' = down /\ given' = given
        /\ Head(up[cur].q).type = "REQUEST"
        /\ taken' = [taken EXCEPT ![cur] = Append(taken[cur], Head(up[cur].q).payload)]
    BY <1>8 DEF Take, Takes, Recorded
  <2>2. CASE k = cur
    BY <1>0, <1>6, <2>1, <2>2
  <2>3. CASE k # cur
    BY <1>0, <1>3, <2>1, <2>3
  <2> QED
    BY <2>2, <2>3
<1>9. CASE /\ Send
           /\ Recorded(taken, IF down[cur].end = "open"
                              THEN [given EXCEPT ![cur] = Append(@, reply)] ELSE given)
  <2>1. /\ taken' = taken /\ up' = up
        /\ down' = [down EXCEPT ![cur] = WriteFrame(down[cur], reply)]
        /\ given' = IF down[cur].end = "open" THEN [given EXCEPT ![cur] = Append(given[cur], reply)] ELSE given
    BY <1>9 DEF Recorded, Send
  <2>2. CASE k # cur
    BY <1>0, <1>3, <2>1, <2>2
  <2>3. CASE k = cur /\ down[k].end # "open"
    <3>1. down'[k] = down[k]
      BY <1>0, <2>1, <2>3, WriteType
    <3> QED
      BY <1>3, <2>1, <2>3, <3>1
  <2>4. CASE k = cur /\ down[k].end = "open"
    <3>1. Len(down'[k].q) = Len(down[k].q) + 1
      BY <1>0, <2>1, <2>4, WriteType
    <3>2. Len(given'[k]) = Len(given[k]) + 1
      <4>1. given'[k] = Append(given[k], reply)
        BY <1>0, <2>1, <2>4
      <4> QED
        BY <1>0, <4>1, AppendProperties
    <3>3. heard'[k] + Len(down'[k].q) <= Len(given'[k])
      BY <1>1, <1>2, <3>1, <3>2 DEF Tally
    <3> QED
      BY <1>1, <2>1, <3>3 DEF Tally
  <2> QED
    BY <2>2, <2>3, <2>4
<1>10. CASE ServerFails
  BY <1>5, <1>10 DEF ServerFails, AcceptFails, history, Recorded
<1>11. CASE (Accept \/ SendReturns) /\ Recorded(taken, given)
  BY <1>3, <1>11 DEF Accept, SendReturns, Recorded, net
<1>12. CASE CloseAtEnd /\ Recorded(taken, given)
  BY <1>0, <1>4, <1>12 DEF CloseAtEnd
<1>13. CASE SendThrows /\ Recorded(taken, given)
  <2>1. CASE spc = "sorry"
    BY <1>0, <1>4, <1>13, <2>1 DEF SendThrows
  <2>2. CASE spc # "sorry"
    BY <1>3, <1>13, <2>2 DEF SendThrows, Recorded, net
  <2> QED
    BY <2>1, <2>2
<1>14. CASE SendKills /\ Recorded(taken, given)
  BY <1>5, <1>14 DEF SendKills
<1> QED
  BY <1>0, <1>7, <1>8, <1>9, <1>10, <1>11, <1>12, <1>13, <1>14, ServeRecord

LEMMA TallyJoins ==
  ASSUME Base, Counted, NEW k \in Clients, Tally(k), taken[k] = <<>>, given[k] = <<>>,
         up'[k] = Fresh, down'[k] = Fresh, UNCHANGED <<taken[k], given[k], asked[k], heard[k]>>
  PROVE  Tally(k)'
<1>1. asked[k] \in Nat /\ heard[k] \in Nat /\ Len(down[k].q) \in Nat
  BY TallyNumbers DEF Lengths
<1>2. Len(taken[k]) = 0 /\ Len(given[k]) = 0 /\ Fresh.q = <<>> /\ Len(Fresh.q) = 0
  BY DEF Fresh
<1>3. heard[k] + 0 <= 0 /\ 0 <= asked[k]
  BY <1>1, <1>2 DEF Tally
<1>4. Ranked(<<>>, 0, asked[k])
  BY <1>1, RankedEmpty
<1> QED
  BY <1>2, <1>3, <1>4 DEF Tally

LEMMA TallyB ==
  ASSUME Connected, Base', Counted, NEW c \in Clients, BStep(c), NEW k \in Clients, Tally(k)
  PROVE  Tally(k)'
<1>0. /\ Base /\ Typed /\ Conn(k) /\ Progress(k) /\ UNCHANGED <<taken, given>>
      /\ cpc \in [Clients -> ClientLabels] /\ printed \in [Clients -> Seq(Results)]
      /\ todo \in [Clients -> Seq(Targets)]
      /\ up \in [Clients -> Chan(Requests)] /\ down \in [Clients -> Chan(Responses)]
  BY DEF Connected, Base, Typed, BStep
<1>1. /\ \A j \in Clients : j # c => asked'[j] = asked[j] /\ heard'[j] = heard[j]
      /\ asked'[c] = IF cpc[c] = "send" /\ cpc'[c] = "recv" THEN asked[c] + 1 ELSE asked[c]
      /\ heard'[c] = IF printed'[c] # printed[c] THEN heard[c] + 1 ELSE heard[c]
  <2>1. /\ asked \in [Clients -> Nat] /\ heard \in [Clients -> Nat]
        /\ asked' = Count(asked, c, cpc[c] = "send" /\ cpc'[c] = "recv")
        /\ heard' = Count(heard, c, printed'[c] # printed[c])
    BY DEF BStep, Counted
  <2> QED
    BY <2>1 DEF Count
<1>2. CASE k # c
  BY <1>0, <1>1, <1>2, ElseOfB, TallyElse
<1>3. ASSUME k = c, NEW s, Exit(c, s) PROVE Tally(k)'
  <2>1. Quits(c) /\ printed' = printed /\ cpc'[c] = "exit"
    BY <1>0, <1>3, ExitQuits
  <2> QED
    BY <1>0, <1>1, <1>3, <2>1, QuitsFacts, TallyLeaves
<1>4. CASE k = c /\ Parse(c)
  <2>1. CASE Exit(c, 1)
    BY <1>3, <1>4, <2>1
  <2>2. CASE ~Exit(c, 1)
    <3>1. cpc' = [cpc EXCEPT ![c] = "connect"] /\ UNCHANGED <<up, down, printed>>
      BY <1>4, <2>2 DEF Parse, Goto, net
    <3>2. cpc'[c] = "connect"
      BY <1>0, <3>1
    <3> QED
      BY <1>0, <1>1, <1>4, <3>1, <3>2, TallyElse
  <2> QED
    BY <2>1, <2>2
<1>5. CASE k = c /\ Connect(c)
  <2>1. /\ up'[k] = Fresh /\ down'[k] = Fresh /\ cpc[k] = "connect" /\ printed' = printed
    BY <1>0, <1>5 DEF Connect
  <2>2. taken[k] = <<>> /\ given[k] = <<>>
    BY <1>0, <2>1 DEF Conn
  <2> QED
    BY <1>0, <1>1, <1>5, <2>1, <2>2, TallyJoins
<1>6. CASE k = c /\ SendRequest(c)
  <2>1. /\ cpc[k] = "send" /\ cpc' = [cpc EXCEPT ![k] = "recv"] /\ down' = down /\ printed' = printed
        /\ up' = [up EXCEPT ![k] = WriteFrame(up[k], RequestFrame(k))]
    BY <1>6 DEF SendRequest, Goto
  <2>2. RequestFrame(k) \in Requests /\ RequestFrame(k).type = "REQUEST"
    <3>1. todo[k] # <<>> /\ todo[k] \in Seq(Targets)
      BY <1>0, <2>1 DEF Progress
    <3>2. Head(todo[k]) \in Targets
      BY <3>1, HeadTailProperties
    <3> QED
      BY <3>2 DEF target, RequestFrame, Requests, Frame
  <2>3. /\ up'[k] = WriteFrame(up[k], RequestFrame(k)) /\ asked'[k] = asked[k] + 1 /\ heard'[k] = heard[k]
    BY <1>0, <1>1, <1>6, <2>1
  <2> QED
    BY <1>0, <2>1, <2>2, <2>3, TallyAsk
<1>7. CASE k = c /\ (PassOver(c) \/ PrintResponse(c))
  <2>1. /\ cpc[k] = "recv" /\ CanRead(down[k]) /\ up' = up
        /\ down' = [down EXCEPT ![k] = ReadFrame(down[k])]
    BY <1>7 DEF PassOver, PrintResponse, Received
  <2>2. down'[k] = ReadFrame(down[k])
    BY <1>0, <2>1
  <2>3. asked'[k] = asked[k] /\ (heard'[k] = heard[k] \/ heard'[k] = heard[k] + 1)
    BY <1>1, <1>7, <2>1
  <2> QED
    BY <1>0, <2>1, <2>2, <2>3, TallyHear
<1>8. CASE k = c /\ (ConnectFails(c) \/ SendRequestFails(c) \/ ReceiveFails(c) \/ Finish(c))
  BY <1>3, <1>8 DEF ConnectFails, SendRequestFails, ReceiveFails, Finish
<1> QED
  BY <1>2, <1>4, <1>5, <1>6, <1>7, <1>8 DEF BStep, Run

LEMMA TallyOthers ==
  ASSUME Connected, Base', Counted, NEW c \in Clients, NEW k \in Clients, Tally(k),
         \/ PeerConnects(c) \/ PeerSends(c) \/ PeerReads(c) \/ PeerStops(c) \/ PeerLeaves(c)
         \/ OtherSends(c) \/ OtherStops(c)
  PROVE  Tally(k)'
<1>0. /\ Base /\ Typed /\ Conn(k) /\ taken' = taken
      /\ up \in [Clients -> Chan(Requests)] /\ down \in [Clients -> Chan(Responses)]
      /\ given \in [Clients -> Seq(Responses)]
      /\ Leaves(up[k], up[k]) /\ Leaves(down[k], down[k])
  BY LeavesItself
     DEF Connected, Base, Typed, PeerConnects, PeerSends, PeerReads, PeerStops, PeerLeaves, OtherSends,
         OtherStops, history
<1>1. CASE PeerConnects(c)
  <2>1. /\ up[c].end = "none" /\ UNCHANGED <<taken, given, asked, heard>>
        /\ up' = [up EXCEPT ![c] = Fresh] /\ down' = [down EXCEPT ![c] = Fresh]
    BY <1>1 DEF PeerConnects, history
  <2>2. CASE k = c
    <3>1. taken[k] = <<>> /\ given[k] = <<>> /\ up'[k] = Fresh /\ down'[k] = Fresh
      BY <1>0, <2>1, <2>2 DEF Conn
    <3> QED
      BY <1>0, <2>1, <3>1, TallyJoins
  <2>3. CASE k # c
    BY <1>0, <2>1, <2>3, TallyElse
  <2> QED
    BY <2>2, <2>3
<1>2. CASE PeerSends(c)
  <2>1. PICK f \in Offers : /\ up' = [up EXCEPT ![c] = WriteFrame(up[c], f)]
                            /\ asked' = Count(asked, c, f.type = "REQUEST")
    BY <1>2 DEF PeerSends
  <2>2. UNCHANGED <<down, given, heard>> /\ f \in Requests
    BY <1>2 DEF PeerSends, Requests
  <2>3. /\ \A j \in Clients : j # c => asked'[j] = asked[j]
        /\ asked'[c] = IF f.type = "REQUEST" THEN asked[c] + 1 ELSE asked[c]
    <3> DEFINE b == f.type = "REQUEST"
    <3>1. b \in BOOLEAN /\ asked' = Count(asked, c, b) /\ asked \in [Clients -> Nat]
      BY <2>1 DEF Counted
    <3> HIDE DEF b
    <3>2. /\ \A j \in Clients : j # c => Count(asked, c, b)[j] = asked[j]
          /\ Count(asked, c, b)[c] = IF b THEN asked[c] + 1 ELSE asked[c]
      BY <3>1, CountIsNat
    <3> QED
      BY <3>1, <3>2 DEF b
  <2>4. CASE k = c
    <3>1. up'[k] = WriteFrame(up[k], f)
      BY <1>0, <2>1, <2>4
    <3> QED
      BY <1>0, <2>2, <2>3, <2>4, <3>1, TallyAsk
  <2>5. CASE k # c
    BY <1>0, <2>1, <2>2, <2>3, <2>5, TallyElse
  <2> QED
    BY <2>4, <2>5
<1>3. CASE PeerReads(c)
  <2>1. /\ CanRead(down[c]) /\ down' = [down EXCEPT ![c] = ReadFrame(down[c])]
        /\ heard' = Count(heard, c, TRUE) /\ UNCHANGED <<up, given, asked>>
    BY <1>3 DEF PeerReads
  <2>2. /\ \A j \in Clients : j # c => heard'[j] = heard[j]
        /\ heard'[c] = heard[c] + 1
    BY <2>1, CountIsNat DEF Counted
  <2>3. CASE k = c
    <3>1. down'[k] = ReadFrame(down[k])
      BY <1>0, <2>1, <2>3
    <3> QED
      BY <1>0, <2>1, <2>2, <2>3, <3>1, TallyHear
  <2>4. CASE k # c
    BY <1>0, <2>1, <2>2, <2>4, TallyElse
  <2> QED
    BY <2>3, <2>4
<1>4. CASE PeerStops(c)
  <2>1. UNCHANGED <<down, taken, given, asked, heard>>
    BY <1>4 DEF PeerStops, history
  <2>2. up'[k].q = up[k].q
    BY <1>0, <1>4 DEF PeerStops, Chan
  <2> QED
    BY <2>1, <2>2 DEF Tally
<1>5. CASE PeerLeaves(c)
  <2>1. Quits(c) /\ UNCHANGED <<taken, given, asked, heard>>
    BY <1>5 DEF PeerLeaves, Quits, history
  <2> QED
    BY <1>0, <2>1, QuitsFacts, TallyLeaves
<1>6. CASE OtherSends(c)
  <2>1. PICK f \in Replies : /\ down' = [down EXCEPT ![c] = WriteFrame(down[c], f)]
                             /\ given' = [given EXCEPT ![c] = Append(given[c], f)]
    BY <1>6 DEF OtherSends
  <2>2. down[c].end = "open" /\ UNCHANGED <<up, asked, heard>> /\ f \in Responses
    BY <1>6 DEF OtherSends, Responses
  <2>3. CASE k = c
    <3>1. down'[k] = WriteFrame(down[k], f) /\ given'[k] = Append(given[k], f)
      BY <1>0, <2>1, <2>3
    <3>2. Len(down'[k].q) = Len(down[k].q) + 1
      BY <1>0, <2>2, <2>3, <3>1, WriteType
    <3>3. Len(given'[k]) = Len(given[k]) + 1
      BY <1>0, <2>2, <3>1, AppendProperties
    <3>4. heard[k] \in Nat /\ Len(given[k]) \in Nat /\ Len(down[k].q) \in Nat
      BY <1>0, TallyNumbers DEF Lengths
    <3>5. heard[k] + Len(down'[k].q) <= Len(given'[k])
      BY <3>2, <3>3, <3>4 DEF Tally
    <3> QED
      BY <1>0, <2>2, <3>5 DEF Tally
  <2>4. CASE k # c
    BY <1>0, <2>1, <2>2, <2>4, TallyElse
  <2> QED
    BY <2>3, <2>4
<1>7. CASE OtherStops(c)
  <2>1. UNCHANGED <<given, asked, heard>> /\ up' = [up EXCEPT ![c] = Abandoned(up[c])]
    BY <1>7 DEF OtherStops, history
  <2>2. down'[k].q = down[k].q
    BY <1>0, <1>7 DEF OtherStops, Chan
  <2>3. up'[k].q = up[k].q
    BY <1>0, <2>1, AbandonedType
  <2> QED
    BY <1>0, <2>1, <2>2, <2>3 DEF Tally
<1> QED
  BY <1>1, <1>2, <1>3, <1>4, <1>5, <1>6, <1>7

\* What serve holds its client reads, or has left; and when serve has to say
\* sorry, to a client that has left, it had not given all that was asked.
Held(k) ==
  /\ down[k].end = "gone" => cpc[k] \in {"left", "exit"}
  /\ k = cur \/ Waits(k) => down[k].end \in {"open", "gone"}
  /\ Owes(k) => Len(given[k]) < Len(taken[k])
  /\ Sorry(k) => heard[k] < Len(taken[k]) /\ down[k].end = "gone"

LEMMA EndedGone ==
  ASSUME NEW S, NEW ch \in Chan(S), NEW unread, NEW b \in Ended(ch, unread)
  PROVE  b.end = "gone" => ch.end = "gone"
<1>1. CASE ch.end # "open"
  BY <1>1, EndedType
<1>2. CASE ch.end = "open" /\ b = [ch EXCEPT !.end = "eof"]
  BY <1>2 DEF Chan
<1>3. CASE ch.end = "open" /\ \E n \in 0..Len(ch.q) : b = [q |-> SubSeq(ch.q, 1, n), end |-> "reset"]
  BY <1>3
<1> QED
  BY <1>1, <1>2, <1>3 DEF Ended

\* serve leaves to its client what it still holds, and never takes itself for
\* a reader.
LEMMA ServeEnds ==
  ASSUME Connected, ServeStep \/ ServerFails, NEW k \in Clients
  PROVE  /\ down'[k].end = "gone" => down[k].end = "gone"
         /\ k = cur' \/ Waits(k)' => /\ down'[k].end = down[k].end
                                     /\ k = cur \/ Waits(k)
<1>0. /\ Base /\ Typed /\ Queue /\ cur \in Clients \cup {NoClient} /\ NoClient \notin Clients
      /\ cur = NoClient <=> spc \in {"accept", "exit", "killed"}
      /\ up \in [Clients -> Chan(Requests)] /\ down \in [Clients -> Chan(Responses)]
      /\ reply \in Responses /\ backlog \in Seq(Clients)
  BY JcAssumption, OwnTypes DEF Connected, Base, Typed
<1> DEFINE Goal == /\ down'[k].end = "gone" => down[k].end = "gone"
                   /\ k = cur' \/ Waits(k)' => /\ down'[k].end = down[k].end
                                               /\ k = cur \/ Waits(k)
<1>1. ASSUME down'[k].end = down[k].end, cur' = cur, backlog' = backlog PROVE Goal
  BY <1>1 DEF Waits
<1>2. ASSUME CloseClient, cur \in Clients PROVE Goal
  <2>1. PICK d \in Ended(down[cur], CanRead(up[cur])) : down' = [down EXCEPT ![cur] = d]
    BY <1>2 DEF CloseClient
  <2>2. cur' = NoClient /\ backlog' = backlog
    BY <1>2 DEF CloseClient
  <2>3. CASE k = cur
    <3>1. down'[k] = d /\ down[k] \in Chan(Responses)
      BY <1>0, <2>1, <2>3
    <3>2. d.end = "gone" => down[k].end = "gone"
      BY <2>1, <2>3, <3>1, EndedGone
    <3>3. ~Waits(k)
      BY <1>0, <2>3 DEF Queue, Waits
    <3>4. ~Waits(k)' /\ k # cur'
      BY <1>0, <2>2, <3>3 DEF Waits
    <3> QED
      BY <3>1, <3>2, <3>4
  <2>4. CASE k # cur
    <3>1. down'[k] = down[k]
      BY <1>0, <2>1, <2>4
    <3>2. k # cur' /\ (Waits(k)' => Waits(k))
      BY <1>0, <2>2 DEF Waits
    <3> QED
      BY <3>1, <3>2
  <2> QED
    BY <2>3, <2>4
<1>3. ASSUME NEW how, EndServer(how) PROVE Goal
  <2> DEFINE held == {c \in Clients : c = cur \/ \E i \in 1..Len(backlog) : backlog[i] = c}
  <2>1. cur' = NoClient /\ backlog' = <<>>
    BY <1>3 DEF EndServer
  <2>2. down'[k] \in IF k \in held THEN Ended(down[k], CanRead(up[k])) ELSE {down[k]}
    <3>1. PICK d \in [Clients -> UNION {Ended(down[c], TRUE) : c \in Clients}] :
            /\ \A c \in Clients : d[c] \in IF c \in held THEN Ended(down[c], CanRead(up[c])) ELSE {down[c]}
            /\ down' = d
      BY <1>3 DEF EndServer
    <3> HIDE DEF held
    <3> QED
      BY <3>1
  <2>3. down'[k].end = "gone" => down[k].end = "gone"
    <3> HIDE DEF held
    <3>1. down[k] \in Chan(Responses)
      BY <1>0
    <3>2. CASE down'[k] \in Ended(down[k], CanRead(up[k]))
      BY <3>1, <3>2, EndedGone
    <3>3. CASE down'[k] = down[k]
      BY <3>3
    <3> QED
      BY <2>2, <3>2, <3>3
  <2>4. ~Waits(k)' /\ k # cur'
    <3>1. Len(backlog') = 0
      BY <2>1
    <3> QED
      BY <1>0, <2>1, <3>1 DEF Waits
  <2> QED
    BY <2>3, <2>4
<1>4. CASE Accept
  <2>1. /\ backlog # <<>> /\ cur' = Head(backlog) /\ backlog' = Tail(backlog) /\ down' = down
    BY <1>4 DEF Accept
  <2>2. /\ cur' = backlog[1] /\ Len(backlog) \in Nat /\ Len(backlog) > 0
        /\ Len(backlog') = Len(backlog) - 1
        /\ \A i \in 1..Len(backlog') : backlog'[i] = backlog[i + 1]
    BY <1>0, <2>1, HeadTailProperties
  <2>3. 1 \in 1..Len(backlog) /\ \A i \in 1..Len(backlog') : i + 1 \in 1..Len(backlog)
    BY <2>2
  <2>4. k = cur' \/ Waits(k)' => Waits(k)
    BY <2>2, <2>3 DEF Waits
  <2> QED
    BY <2>1, <2>4
<1>5. CASE Skip \/ Take \/ SendReturns
  BY <1>1, <1>5 DEF Skip, Take, Takes, SendReturns, net
<1>6. CASE CloseAtEnd
  BY <1>0, <1>2, <1>6 DEF CloseAtEnd
<1>7. CASE Send
  <2>1. /\ down' = [down EXCEPT ![cur] = WriteFrame(down[cur], reply)] /\ cur' = cur /\ backlog' = backlog
        /\ cur \in Clients
    BY <1>0, <1>7 DEF Send
  <2>2. down'[k].end = down[k].end
    <3>1. CASE k = cur
      BY <1>0, <2>1, <3>1, WriteType
    <3>2. CASE k # cur
      BY <1>0, <2>1, <3>2
    <3> QED
      BY <3>1, <3>2
  <2> QED
    BY <1>1, <2>1, <2>2
<1>8. CASE SendThrows
  BY <1>0, <1>1, <1>2, <1>8 DEF SendThrows, Writing, net
<1>9. CASE SendKills \/ ServerFails
  BY <1>3, <1>9 DEF SendKills, ServerFails, AcceptFails
<1>10. Goal
  BY <1>4, <1>5, <1>6, <1>7, <1>8, <1>9 DEF ServeStep, Serve
<1> QED
  BY <1>10

\* When a send to the client in hand fails, that client has left too early.
LEMMA FailsToHasty ==
  ASSUME Base, Counted, Writing, cur \in Clients, Held(cur), Tally(cur), Answered(cur)
  PROVE  down[cur].end = "gone" /\ cpc[cur] \in {"left", "exit"} /\ heard[cur] < Len(taken[cur])
<1>1. /\ WriteFails(down[cur]) /\ spc \in {"send", "sending", "sorry"}
      /\ spc = "sending" => CanRead(down[cur])
  BY DEF Writing
<1>2. down[cur].end = "gone" /\ cpc[cur] \in {"left", "exit"}
  BY <1>1 DEF WriteFails, Held
<1>3. /\ heard[cur] \in Nat /\ Len(given[cur]) \in Nat /\ Len(taken[cur]) \in Nat
      /\ Len(down[cur].q) \in Nat /\ down[cur] \in Chan(Responses)
  BY TallyNumbers DEF Lengths
<1>4. heard[cur] + Len(down[cur].q) <= Len(given[cur]) /\ Len(given[cur]) <= Len(taken[cur])
  BY DEF Tally, Answered
<1>5. CASE spc = "send"
  <2>1. Len(given[cur]) < Len(taken[cur])
    BY <1>5 DEF Held, Owes
  <2> QED
    BY <1>2, <1>3, <1>4, <2>1
<1>6. CASE spc = "sending"
  <2>1. Len(down[cur].q) > 0
    BY <1>1, <1>3, <1>6, ReadType
  <2> QED
    BY <1>2, <1>3, <1>4, <2>1
<1>7. CASE spc = "sorry"
  BY <1>2, <1>7 DEF Held, Sorry
<1> QED
  BY <1>1, <1>5, <1>6, <1>7

LEMMA HeldServe ==
  ASSUME AllAnswered, Base', Counted, Serving, ServeStep \/ ServerFails, NEW k \in Clients,
         \A c \in Clients : Tally(c) /\ Held(c)
  PROVE  Held(k)'
<1>0. /\ Connected /\ Base /\ Typed /\ Answered(k) /\ UNCHANGED <<cpc, heard>>
      /\ cur \in Clients \cup {NoClient} /\ NoClient \notin Clients
      /\ cur = NoClient <=> spc \in {"accept", "exit", "killed"}
      /\ taken \in [Clients -> Seq(Payloads)]
      /\ \A c \in Clients : Answered(c)
  BY JcAssumption DEF AllAnswered, Connected, Base, Typed, ServeStep, ServerFails, client, history
<1>1. /\ down'[k].end = "gone" => cpc'[k] \in {"left", "exit"}
      /\ k = cur' \/ Waits(k)' => down'[k].end \in {"open", "gone"}
  BY <1>0, ServeEnds DEF Held
<1>2. ASSUME spc' \notin {"send", "sorry"} PROVE Held(k)'
  BY <1>1, <1>2 DEF Held, Owes, Sorry
<1>3. CASE Take /\ Recorded([taken EXCEPT ![cur] = Append(@, Head(up[cur].q).payload)], given)
  <2>1. /\ spc' = "send" /\ cur' = cur /\ CanRead(up[cur]) /\ cur \in Clients /\ given' = given
        /\ taken' = [taken EXCEPT ![cur] = Append(taken[cur], Head(up[cur].q).payload)]
    BY <1>0, <1>3 DEF Take, Takes, Recorded
  <2>2. ASSUME k = cur PROVE Len(given'[k]) < Len(taken'[k])
    <3>1. up[k] \in Chan(Requests) /\ CanRead(up[k])
      BY <1>0, <2>1, <2>2 DEF Typed
    <3>2. Head(up[k].q).payload \in Payloads
      BY <3>1, ReadType, OwnTypes
    <3>3. Len(taken'[k]) = Len(taken[k]) + 1
      BY <1>0, <2>1, <2>2, <3>2, AppendProperties
    <3>4. Len(given[k]) \in Nat /\ Len(taken[k]) \in Nat /\ Len(given[k]) <= Len(taken[k])
      BY <1>0, TallyNumbers DEF Lengths, Answered
    <3> QED
      BY <2>1, <3>3, <3>4
  <2>3. ~Sorry(k)' /\ (Owes(k)' => k = cur)
    BY <2>1 DEF Sorry, Owes
  <2> QED
    BY <1>1, <2>2, <2>3 DEF Held
<1>4. CASE SendThrows /\ Recorded(taken, given)
  <2>1. CASE spc = "sorry"
    BY <1>2, <1>4, <2>1 DEF SendThrows, CloseClient
  <2>2. CASE spc # "sorry"
    <3>1. Writing /\ spc' = "sorry" /\ UNCHANGED <<down, cur, taken>> /\ cur \in Clients
      BY <1>0, <1>4, <2>2 DEF SendThrows, Writing, Recorded, net
    <3>2. down[cur].end = "gone" /\ heard[cur] < Len(taken[cur])
      BY <1>0, <3>1, FailsToHasty
    <3>3. ~Owes(k)' /\ (Sorry(k)' => k = cur)
      BY <3>1 DEF Sorry, Owes
    <3> QED
      BY <1>0, <1>1, <3>1, <3>2, <3>3 DEF Held
  <2> QED
    BY <2>1, <2>2
<1>5. CASE ServerFails
  BY <1>2, <1>5 DEF ServerFails, AcceptFails, EndServer
<1>6. CASE ServeStep /\ (Accept \/ Skip \/ CloseAtEnd \/ Send \/ SendReturns \/ SendKills)
  <2>1. spc' \notin {"send", "sorry"}
    BY <1>6 DEF Accept, Skip, Takes, CloseAtEnd, CloseClient, Send, SendReturns, SendKills, EndServer
  <2> QED
    BY <1>2, <2>1
<1> QED
  BY <1>0, <1>3, <1>4, <1>5, <1>6, ServeRecord

LEMMA HeldElse ==
  ASSUME NEW k \in Clients, Held(k), Waits(k)' => Waits(k), UNCHANGED server,
         UNCHANGED <<down[k], cpc[k], taken[k], given[k], heard[k]>>
  PROVE  Held(k)'
BY DEF Held, Owes, Sorry, server

LEMMA HeldActs ==
  ASSUME NEW k \in Clients, Held(k), UNCHANGED server, UNCHANGED <<taken[k], given[k]>>,
         cpc[k] \notin {"left", "exit"},
         \/ down'[k].end = "open"
         \/ down'[k].end = down[k].end /\ (Waits(k)' => Waits(k))
         \/ /\ down'[k] = Abandoned(down[k]) /\ cpc'[k] \in {"left", "exit"}
            /\ down[k] \in Chan(Responses) /\ (Waits(k)' => Waits(k))
  PROVE  Held(k)'
<1>1. down[k].end # "gone" /\ ~Sorry(k) /\ ~Sorry(k)' /\ (Owes(k)' <=> Owes(k)) /\ cur' = cur
  BY DEF Held, Owes, Sorry, server
<1>2. Owes(k)' => Len(given'[k]) < Len(taken'[k])
  BY <1>1 DEF Held
<1>3. CASE down'[k].end = "open"
  BY <1>1, <1>2, <1>3 DEF Held
<1>4. CASE down'[k].end = down[k].end /\ (Waits(k)' => Waits(k))
  BY <1>1, <1>2, <1>4 DEF Held
<1>5. CASE /\ down'[k] = Abandoned(down[k]) /\ cpc'[k] \in {"left", "exit"}
           /\ down[k] \in Chan(Responses) /\ (Waits(k)' => Waits(k))
  <2>1. down[k].end = "open" => down'[k].end = "gone"
    BY <1>5 DEF Abandoned, Chan
  <2>2. k = cur' \/ Waits(k)' => down'[k].end \in {"open", "gone"}
    BY <1>1, <1>5, <2>1 DEF Held
  <2> QED
    BY <1>1, <1>2, <1>5, <2>2 DEF Held
<1> QED
  BY <1>3, <1>4, <1>5

LEMMA WaitsJoined ==
  ASSUME backlog \in Seq(Clients), NEW c \in Clients, backlog' = Append(backlog, c),
         NEW k \in Clients, k # c, Waits(k)'
  PROVE  Waits(k)
<1>1. PICK i \in 1..Len(backlog') : backlog'[i] = k
  BY DEF Waits
<1>2. /\ Len(backlog') = Len(backlog) + 1 /\ Len(backlog) \in Nat
      /\ backlog'[Len(backlog) + 1] = c
      /\ \A j \in 1..Len(backlog) : backlog'[j] = backlog[j]
  BY AppendProperties
<1>3. i \in 1..Len(backlog)
  BY <1>1, <1>2
<1> QED
  BY <1>1, <1>2, <1>3 DEF Waits

LEMMA HeldB ==
  ASSUME Connected, Counted, NEW c \in Clients, BStep(c), NEW k \in Clients, Held(k)
  PROVE  Held(k)'
<1>0. /\ Typed /\ cpc \in [Clients -> ClientLabels] /\ backlog \in Seq(Clients)
      /\ up \in [Clients -> Chan(Requests)] /\ down \in [Clients -> Chan(Responses)]
      /\ UNCHANGED <<server, taken, given>>
  BY DEF Connected, Base, Typed, BStep
<1>1. \A j \in Clients : j # c => heard'[j] = heard[j]
  <2>1. heard \in [Clients -> Nat] /\ heard' = Count(heard, c, printed'[c] # printed[c])
    BY DEF BStep, Counted
  <2> QED
    BY <2>1 DEF Count
<1>2. cpc[c] \in {"start", "connect", "send", "recv", "done"}
  BY DEF BStep, Run, Parse, Connect, ConnectFails, SendRequest, SendRequestFails, PassOver, PrintResponse,
         Received, ReceiveFails, Finish
<1>3. backlog' = backlog \/ (Connect(c) /\ backlog' = Append(backlog, c))
  BY DEF BStep, Run, Parse, Connect, ConnectFails, SendRequest, SendRequestFails, PassOver, PrintResponse,
         ReceiveFails, Finish, Exit, net
<1>4. backlog' = backlog => (Waits(k)' => Waits(k))
  BY DEF Waits
<1>5. CASE k # c
  <2>1. UNCHANGED <<down[k], cpc[k], heard[k]>>
    BY <1>0, <1>1, <1>5, ElseOfB
  <2>2. Waits(k)' => Waits(k)
    BY <1>0, <1>3, <1>4, <1>5, WaitsJoined
  <2> QED
    BY <1>0, <2>1, <2>2, HeldElse
<1>6. ASSUME k = c, NEW s, Exit(c, s) PROVE Held(k)'
  <2>1. /\ down' = [down EXCEPT ![c] = Abandoned(down[c])] /\ cpc' = [cpc EXCEPT ![c] = "exit"]
        /\ backlog' = backlog
    BY <1>6 DEF Exit, Goto
  <2>2. down'[k] = Abandoned(down[k]) /\ cpc'[k] = "exit" /\ down[k] \in Chan(Responses)
    BY <1>0, <1>6, <2>1
  <2> QED
    BY <1>0, <1>2, <1>4, <1>6, <2>1, <2>2, HeldActs
<1>7. ASSUME k = c, down'[k].end = down[k].end, backlog' = backlog PROVE Held(k)'
  BY <1>0, <1>2, <1>4, <1>7, HeldActs
<1>8. CASE k = c /\ Parse(c)
  BY <1>6, <1>7, <1>8 DEF Parse, net
<1>9. CASE k = c /\ Connect(c)
  <2>1. down'[k] = Fresh /\ Fresh.end = "open"
    BY <1>0, <1>9 DEF Connect, Fresh
  <2> QED
    BY <1>0, <1>2, <1>9, <2>1, HeldActs
<1>10. CASE k = c /\ SendRequest(c)
  BY <1>7, <1>10 DEF SendRequest
<1>11. CASE k = c /\ (PassOver(c) \/ PrintResponse(c))
  <2>1. down' = [down EXCEPT ![k] = ReadFrame(down[k])] /\ CanRead(down[k]) /\ backlog' = backlog
    BY <1>11 DEF PassOver, PrintResponse, Received
  <2>2. down'[k] = ReadFrame(down[k]) /\ down[k] \in Chan(Responses)
    BY <1>0, <2>1
  <2>3. ReadFrame(down[k]).end = down[k].end
    BY <2>1, <2>2, ReadType
  <2> QED
    BY <1>7, <1>11, <2>1, <2>2, <2>3
<1>12. CASE k = c /\ (ConnectFails(c) \/ SendRequestFails(c) \/ ReceiveFails(c) \/ Finish(c))
  BY <1>6, <1>12 DEF ConnectFails, SendRequestFails, ReceiveFails, Finish
<1> QED
  BY <1>5, <1>8, <1>9, <1>10, <1>11, <1>12 DEF BStep, Run

LEMMA HeldOthers ==
  ASSUME Connected, Counted, Serving, NEW c \in Clients, NEW k \in Clients, Held(k),
         \/ PeerConnects(c) \/ PeerSends(c) \/ PeerReads(c) \/ PeerStops(c) \/ PeerLeaves(c)
         \/ OtherSends(c) \/ OtherStops(c)
  PROVE  Held(k)'
<1>0. /\ Typed /\ cpc \in [Clients -> ClientLabels] /\ backlog \in Seq(Clients)
      /\ down \in [Clients -> Chan(Responses)]
  BY DEF Connected, Base, Typed
<1>1. /\ PeerConnects(c) \/ PeerSends(c) \/ PeerReads(c) \/ PeerStops(c) \/ PeerLeaves(c)
      /\ cpc[c] = "peer" /\ UNCHANGED <<server, taken, given>>
  BY DEF PeerConnects, PeerSends, PeerReads, PeerStops, PeerLeaves, OtherSends, OtherStops, history
<1>2. backlog' = backlog => (Waits(k)' => Waits(k))
  BY DEF Waits
<1>3. CASE PeerConnects(c)
  <2>1. /\ down' = [down EXCEPT ![c] = Fresh] /\ backlog' = Append(backlog, c) /\ UNCHANGED <<cpc, heard>>
    BY <1>3 DEF PeerConnects, client, history
  <2>2. CASE k = c
    <3>1. down'[k].end = "open"
      BY <1>0, <2>1, <2>2 DEF Fresh
    <3> QED
      BY <1>1, <2>2, <3>1, HeldActs
  <2>3. CASE k # c
    <3>1. Waits(k)' => Waits(k)
      BY <1>0, <2>1, <2>3, WaitsJoined
    <3>2. down'[k] = down[k]
      BY <1>0, <2>1, <2>3
    <3> QED
      BY <1>1, <2>1, <3>1, <3>2, HeldElse
  <2> QED
    BY <2>2, <2>3
<1>4. CASE PeerSends(c) \/ PeerStops(c)
  <2>1. UNCHANGED <<down, backlog, cpc, heard>>
    BY <1>4 DEF PeerSends, PeerStops, client, history
  <2> QED
    BY <1>1, <1>2, <2>1, HeldElse
<1>5. CASE PeerReads(c)
  <2>1. /\ CanRead(down[c]) /\ down' = [down EXCEPT ![c] = ReadFrame(down[c])]
        /\ heard' = Count(heard, c, TRUE) /\ UNCHANGED <<backlog, cpc>>
    BY <1>5 DEF PeerReads, client
  <2>2. CASE k = c
    <3>1. down'[k] = ReadFrame(down[k]) /\ down[k] \in Chan(Responses)
      BY <1>0, <2>1, <2>2
    <3>2. down'[k].end = down[k].end
      BY <2>1, <2>2, <3>1, ReadType
    <3> QED
      BY <1>1, <1>2, <2>1, <2>2, <3>2, HeldActs
  <2>3. CASE k # c
    <3>1. heard'[k] = heard[k] /\ down'[k] = down[k]
      BY <1>0, <2>1, <2>3, CountIsNat DEF Counted
    <3> QED
      BY <1>1, <1>2, <2>1, <3>1, HeldElse
  <2> QED
    BY <2>2, <2>3
<1>6. CASE PeerLeaves(c)
  <2>1. /\ down' = [down EXCEPT ![c] = Abandoned(down[c])] /\ cpc' = [cpc EXCEPT ![c] = "left"]
        /\ UNCHANGED <<backlog, heard>>
    BY <1>6 DEF PeerLeaves, Goto, history
  <2>2. CASE k = c
    <3>1. down'[k] = Abandoned(down[k]) /\ cpc'[k] = "left" /\ down[k] \in Chan(Responses)
      BY <1>0, <2>1, <2>2
    <3> QED
      BY <1>1, <1>2, <2>1, <2>2, <3>1, HeldActs
  <2>3. CASE k # c
    <3>1. cpc'[k] = cpc[k] /\ down'[k] = down[k]
      BY <1>0, <2>1, <2>3
    <3> QED
      BY <1>1, <1>2, <2>1, <3>1, HeldElse
  <2> QED
    BY <2>2, <2>3
<1> QED
  BY <1>1, <1>3, <1>4, <1>5, <1>6

\* Only serve dies, and then is dead.
Accounts ==
  /\ AllAnswered /\ Counted /\ (\A k \in Clients : Tally(k))
  /\ IF Serving THEN (\A k \in Clients : Held(k)) /\ DiesOnlyOfHaste ELSE spc = "accept"

LEMMA AccountsInit == Init => Accounts
<1> SUFFICES ASSUME Init PROVE Accounts
  OBVIOUS
<1>1. /\ AllAnswered /\ Connected /\ spc = "accept" /\ cur = NoClient /\ NoClient \notin Clients
      /\ backlog = <<>> /\ Len(backlog) = 0
  BY AllAnsweredInit, JcAssumption DEF AllAnswered, Init, InitServer
<1>2. Counted
  BY DEF Init, Counted
<1>3. ASSUME NEW k \in Clients PROVE Tally(k) /\ Held(k)
  <2>1. /\ up[k] = Closed /\ down[k] = Closed /\ taken[k] = <<>> /\ given[k] = <<>>
        /\ asked[k] = 0 /\ heard[k] = 0
    BY DEF Init
  <2>2. Closed.q = <<>> /\ Closed.end = "none" /\ Len(Closed.q) = 0 /\ Ranked(<<>>, 0, 0)
    BY RankedEmpty DEF Closed
  <2>3. ~Waits(k) /\ ~Owes(k) /\ ~Sorry(k) /\ k # cur
    BY <1>1 DEF Waits, Owes, Sorry
  <2> QED
    BY <2>1, <2>2, <2>3 DEF Tally, Held
<1> QED
  BY <1>1, <1>2, <1>3 DEF Accounts, DiesOnlyOfHaste

LEMMA HasteServe ==
  ASSUME Accounts, Serving, ServeStep \/ ServerFails
  PROVE  DiesOnlyOfHaste'
<1>0. /\ Base /\ Typed /\ Counted /\ UNCHANGED <<cpc, asked, heard>>
      /\ cur \in Clients \cup {NoClient}
      /\ cur = NoClient <=> spc \in {"accept", "exit", "killed"}
      /\ taken \in [Clients -> Seq(Payloads)]
      /\ \A k \in Clients : Tally(k) /\ Held(k) /\ Answered(k)
  BY DEF Accounts, AllAnswered, Connected, Base, Typed, ServeStep, ServerFails, client, history
<1>1. ASSUME spc' = "killed" PROVE SendKills
  BY <1>1 DEF ServeStep, ServerFails, AcceptFails, Serve, Accept, Skip, Take, Takes, CloseAtEnd, CloseClient,
              Send, SendReturns, SendThrows, EndServer
<1>2. ASSUME SendKills PROVE \E k \in Clients : cpc[k] \in {"left", "exit"} /\ asked[k] > heard[k]
  <2>1. Writing /\ cur \in Clients
    BY <1>0, <1>2 DEF SendKills, Writing
  <2>2. cpc[cur] \in {"left", "exit"} /\ heard[cur] < Len(taken[cur])
    BY <1>0, <2>1, FailsToHasty
  <2>3. /\ heard[cur] \in Nat /\ asked[cur] \in Nat /\ Len(taken[cur]) \in Nat
        /\ Len(taken[cur]) <= asked[cur]
    BY <1>0, <2>1, TallyNumbers DEF Lengths, Tally
  <2>4. asked[cur] > heard[cur]
    BY <2>2, <2>3
  <2> QED
    BY <2>1, <2>2, <2>4
<1> QED
  BY <1>0, <1>1, <1>2 DEF DiesOnlyOfHaste

LEMMA HasteB ==
  ASSUME Accounts, Serving, NEW c \in Clients, BStep(c)
  PROVE  DiesOnlyOfHaste'
<1>0. /\ Typed /\ Counted /\ UNCHANGED spc /\ DiesOnlyOfHaste
      /\ cpc[c] \notin {"left", "exit"}
  BY DEF Accounts, AllAnswered, Connected, Base, BStep, server, Run, Parse, Connect, ConnectFails,
         SendRequest, SendRequestFails, PassOver, PrintResponse, Received, ReceiveFails, Finish
<1>1. \A k \in Clients : k # c => asked'[k] = asked[k] /\ heard'[k] = heard[k]
  <2>1. /\ asked \in [Clients -> Nat] /\ heard \in [Clients -> Nat]
        /\ asked' = Count(asked, c, cpc[c] = "send" /\ cpc'[c] = "recv")
        /\ heard' = Count(heard, c, printed'[c] # printed[c])
    BY <1>0 DEF BStep, Counted
  <2> QED
    BY <2>1 DEF Count
<1>2. \A k \in Clients : k # c => cpc'[k] = cpc[k]
  BY <1>0, ElseOfB
<1> QED
  BY <1>0, <1>1, <1>2 DEF DiesOnlyOfHaste

LEMMA HasteOthers ==
  ASSUME Accounts, Serving, NEW c \in Clients,
         \/ PeerConnects(c) \/ PeerSends(c) \/ PeerReads(c) \/ PeerStops(c) \/ PeerLeaves(c)
         \/ OtherSends(c) \/ OtherStops(c)
  PROVE  DiesOnlyOfHaste'
<1>0. Typed /\ Counted /\ DiesOnlyOfHaste /\ cpc \in [Clients -> ClientLabels]
  BY DEF Accounts, AllAnswered, Connected, Base, Typed
<1>1. /\ PeerConnects(c) \/ PeerSends(c) \/ PeerReads(c) \/ PeerStops(c) \/ PeerLeaves(c)
      /\ cpc[c] = "peer" /\ UNCHANGED spc
  BY DEF PeerConnects, PeerSends, PeerReads, PeerStops, PeerLeaves, OtherSends, OtherStops, server
<1>2. \A k \in Clients : k # c => cpc'[k] = cpc[k]
  BY <1>0, <1>1 DEF PeerConnects, PeerSends, PeerReads, PeerStops, PeerLeaves, Goto, client
<1>3. \A k \in Clients : k # c => asked'[k] = asked[k] /\ heard'[k] = heard[k]
  <2>1. CASE PeerSends(c)
    <3>1. PICK f \in Offers : asked' = Count(asked, c, f.type = "REQUEST")
      BY <2>1 DEF PeerSends
    <3>2. heard' = heard
      BY <2>1 DEF PeerSends
    <3> QED
      BY <1>0, <3>1, <3>2 DEF Count, Counted
  <2>2. CASE PeerReads(c)
    BY <1>0, <2>2 DEF PeerReads, Count, Counted
  <2>3. CASE PeerConnects(c) \/ PeerStops(c) \/ PeerLeaves(c)
    BY <2>3 DEF PeerConnects, PeerStops, PeerLeaves, history
  <2> QED
    BY <1>1, <2>1, <2>2, <2>3
<1>4. cpc[c] \notin {"left", "exit"}
  BY <1>1
<1> QED
  BY <1>0, <1>1, <1>2, <1>3, <1>4 DEF DiesOnlyOfHaste

LEMMA AccountsStep == ASSUME Accounts, [Next]_systemVars PROVE Accounts'
<1>0. /\ AllAnswered /\ AllAnswered' /\ Connected /\ Base /\ Base' /\ Counted /\ Counted'
      /\ \A k \in Clients : Tally(k)
  BY AllAnsweredStep, BaseStep, CountedStep DEF Accounts, AllAnswered, Connected
<1>1. UNCHANGED setup /\ (Serving' <=> Serving)
  BY DEF Next, ServeStep, ServerFails, BStep, PeerConnects, PeerSends, PeerReads, PeerStops, PeerLeaves,
         OtherSends, OtherStops, Terminated, systemVars, Serving
<1>2. CASE UNCHANGED systemVars
  <2>1. UNCHANGED <<up, down, backlog, server, spc, cpc, taken, given, asked, heard>>
    BY <1>2 DEF systemVars, net, server, client, history
  <2>2. ASSUME NEW k \in Clients PROVE Tally(k)' /\ (Held(k) => Held(k)')
    <3>1. Waits(k)' => Waits(k)
      BY <2>1 DEF Waits
    <3> QED
      BY <1>0, <2>1, <3>1, TallyElse, HeldElse
  <2>3. DiesOnlyOfHaste => DiesOnlyOfHaste'
    BY <2>1 DEF DiesOnlyOfHaste
  <2> QED
    BY <1>0, <1>1, <2>1, <2>2, <2>3 DEF Accounts
<1>3. CASE ServeStep \/ ServerFails
  <2>1. Serving
    BY <1>3 DEF ServeStep, ServerFails
  <2>2. \A k \in Clients : Tally(k)' /\ Held(k)'
    BY <1>0, <1>3, <2>1, TallyServe, HeldServe DEF Accounts
  <2>3. DiesOnlyOfHaste'
    BY <1>3, <2>1, HasteServe
  <2> QED
    BY <1>0, <1>1, <2>1, <2>2, <2>3 DEF Accounts
<1>4. ASSUME NEW c \in Clients, BStep(c) PROVE Accounts'
  <2>1. \A k \in Clients : Tally(k)'
    BY <1>0, <1>4, TallyB
  <2>2. ASSUME Serving PROVE (\A k \in Clients : Held(k)') /\ DiesOnlyOfHaste'
    <3>1. \A k \in Clients : Held(k)
      BY <2>2 DEF Accounts
    <3>2. \A k \in Clients : Held(k)'
      BY <1>0, <1>4, <3>1, HeldB
    <3> QED
      BY <1>4, <2>2, <3>2, HasteB
  <2>3. spc' = spc
    BY <1>4 DEF BStep, server
  <2> QED
    BY <1>0, <1>1, <2>1, <2>2, <2>3 DEF Accounts
<1>5. ASSUME NEW c \in Clients,
             \/ PeerConnects(c) \/ PeerSends(c) \/ PeerReads(c) \/ PeerStops(c) \/ PeerLeaves(c)
             \/ OtherSends(c) \/ OtherStops(c)
      PROVE  Accounts'
  <2>1. \A k \in Clients : Tally(k)'
    BY <1>0, <1>5, TallyOthers
  <2>2. ASSUME Serving PROVE (\A k \in Clients : Held(k)') /\ DiesOnlyOfHaste'
    <3>1. \A k \in Clients : Held(k)
      BY <2>2 DEF Accounts
    <3>2. \A k \in Clients : Held(k)'
      BY <1>0, <1>5, <2>2, <3>1, HeldOthers
    <3> QED
      BY <1>5, <2>2, <3>2, HasteOthers
  <2>3. spc' = spc
    BY <1>5 DEF PeerConnects, PeerSends, PeerReads, PeerStops, PeerLeaves, OtherSends, OtherStops, server
  <2> QED
    BY <1>0, <1>1, <2>1, <2>2, <2>3 DEF Accounts
<1>6. CASE Terminated
  BY <1>2, <1>6 DEF Terminated
<1> QED
  BY <1>2, <1>3, <1>4, <1>5, <1>6 DEF Next

\* "A truncated or malformed peer frame ends this connection" and not the
\* server: a signal ends serve only when a client has left before it read all
\* the responses it had asked for (serve.cpp:156-173).
THEOREM ServeDiesOnlyOfHaste == Spec => []DiesOnlyOfHaste
<1>1. Accounts => DiesOnlyOfHaste
  BY DEF Accounts, DiesOnlyOfHaste
<1>2. Spec => []Accounts
  BY AccountsInit, AccountsStep, PTL DEF Spec
<1> QED
  BY <1>1, <1>2, PTL

-----------------------------------------------------------------------------
(* What came                                                               *)

\* The places of the responses among the first n frames.
Came(frames, n) == {i \in 1..n : frames[i].type = "RESPONSE"}

LEMMA CameCount ==
  ASSUME NEW s, NEW n \in Nat
  PROVE  /\ IsFiniteSet(Came(s, n)) /\ Cardinality(Came(s, n)) \in Nat
         /\ Cardinality(Came(s, 0)) = 0
<1>1. IsFiniteSet(1..n)
  BY FS_Interval
<1>2. IsFiniteSet(Came(s, n))
  BY <1>1, FS_Subset DEF Came
<1>3. Came(s, 0) = {}
  BY DEF Came
<1> QED
  BY <1>2, <1>3, FS_CardinalityType, FS_EmptySet

LEMMA CameStep ==
  ASSUME NEW s, NEW n \in Nat
  PROVE  Cardinality(Came(s, n + 1)) =
           IF s[n + 1].type = "RESPONSE" THEN Cardinality(Came(s, n)) + 1 ELSE Cardinality(Came(s, n))
<1>1. IsFiniteSet(Came(s, n))
  BY CameCount
<1>2. \A i : i \in 1..(n + 1) <=> i \in 1..n \/ i = n + 1
  OBVIOUS
<1>3. CASE s[n + 1].type = "RESPONSE"
  <2>1. Came(s, n + 1) = Came(s, n) \cup {n + 1}
    BY <1>2, <1>3 DEF Came
  <2>2. n + 1 \notin Came(s, n)
    BY DEF Came
  <2> QED
    BY <1>1, <1>3, <2>1, <2>2, FS_AddElement
<1>4. CASE s[n + 1].type # "RESPONSE"
  <2>1. Came(s, n + 1) = Came(s, n)
    BY <1>2, <1>4 DEF Came
  <2> QED
    BY <1>4, <2>1
<1> QED
  BY <1>3, <1>4

LEMMA CameSame ==
  ASSUME NEW s, NEW t, NEW n \in Nat, \A i \in 1..n : t[i] = s[i]
  PROVE  Came(t, n) = Came(s, n)
BY DEF Came

\* With n frames read, what is queued downwards follows in what was given, and
\* as many responses are printed as there were among them.
ReadAt(k, n) ==
  /\ n + Len(down[k].q) <= Len(given[k])
  /\ down[k].end = "open" => n + Len(down[k].q) = Len(given[k])
  /\ \A i \in 1..Len(down[k].q) : down[k].q[i] = given[k][n + i]
  /\ Cardinality(Came(given[k], n)) = Len(printed[k])

\* PrintsWhatCame, for one client.
Prints(k) ==
  \A n \in 1..Len(printed[k]) :
    /\ printed[k][n] # Malformed
    /\ \E j \in 1..Len(given[k]) : IsResponse(given[k], n, j) /\ given[k][j].payload = printed[k][n]

Tracked(k) == IsB(k) => Prints(k) /\ \E n \in Nat : ReadAt(k, n)

LEMMA TrackedLeaves ==
  ASSUME Base, Base', NEW k \in Clients, Tracked(k), UNCHANGED <<setup, given[k], printed[k]>>,
         Leaves(down[k], down'[k]), down'[k].end # "open" \/ down'[k] = down[k]
  PROVE  Tracked(k)'
<1>1. SUFFICES ASSUME IsB(k) PROVE Prints(k)' /\ \E n \in Nat : ReadAt(k, n)'
  BY DEF Tracked, IsB
<1>2. PICK n \in Nat : ReadAt(k, n)
  BY <1>1 DEF Tracked
<1>3. Prints(k)'
  BY <1>1 DEF Tracked, Prints
<1>4. Len(down'[k].q) \in Nat /\ Len(down[k].q) \in Nat
  <2>1. down[k] \in Chan(Responses) /\ down'[k] \in Chan(Responses')
    BY DEF Base, Typed
  <2> QED
    BY <2>1 DEF Chan
<1>5. Lengths(k)
  BY LengthsAreNumbers
<1>6. \A i \in 1..Len(down'[k].q) : i \in 1..Len(down[k].q) /\ down'[k].q[i] = down[k].q[i]
  BY <1>4 DEF Leaves
<1>7. n + Len(down'[k].q) <= Len(given'[k])
  <2>1. Len(down'[k].q) <= Len(down[k].q) /\ n + Len(down[k].q) <= Len(given[k])
    BY <1>2 DEF ReadAt, Leaves
  <2>2. Len(given[k]) \in Nat
    BY <1>5 DEF Lengths
  <2> QED
    BY <1>4, <2>1, <2>2, Places
<1>8. ReadAt(k, n)'
  BY <1>2, <1>6, <1>7 DEF ReadAt
<1> QED
  BY <1>3, <1>8

LEMMA TrackedElse ==
  ASSUME Base, Base', NEW k \in Clients, Tracked(k), UNCHANGED <<setup, given[k], printed[k], down[k]>>
  PROVE  Tracked(k)'
<1>1. Leaves(down[k], down'[k]) /\ down'[k] = down[k]
  BY LeavesItself
<1> QED
  BY <1>1, TrackedLeaves

\* A frame more from the server.
LEMMA TrackedGiven ==
  ASSUME Base, NEW k \in Clients, Tracked(k), NEW f \in Responses, down[k].end = "open",
         down'[k] = WriteFrame(down[k], f), given'[k] = Append(given[k], f), UNCHANGED <<setup, printed[k]>>
  PROVE  Tracked(k)'
<1>1. SUFFICES ASSUME IsB(k) PROVE Prints(k)' /\ \E n \in Nat : ReadAt(k, n)'
  BY DEF Tracked, IsB
<1>2. PICK n \in Nat : ReadAt(k, n)
  BY <1>1 DEF Tracked
<1>3. down[k] \in Chan(Responses) /\ given[k] \in Seq(Responses)
  BY DEF Base, Typed
<1>4. /\ down'[k].end = down[k].end /\ Len(down'[k].q) = Len(down[k].q) + 1
      /\ \A i \in 1..Len(down[k].q) : down'[k].q[i] = down[k].q[i]
      /\ down'[k].q[Len(down[k].q) + 1] = f
  BY <1>3, WriteType
<1>5. /\ Len(given'[k]) = Len(given[k]) + 1
      /\ \A i \in 1..Len(given[k]) : given'[k][i] = given[k][i]
      /\ given'[k][Len(given[k]) + 1] = f
  BY <1>3, AppendProperties
<1>6. PICK d \in Nat, g \in Nat : d = Len(down[k].q) /\ g = Len(given[k]) /\ n + d = g
  BY <1>2, LengthsAreNumbers DEF ReadAt, Lengths
<1>7. n + Len(down'[k].q) = Len(given'[k]) /\ n + Len(down'[k].q) <= Len(given'[k])
  <2>1. n + (d + 1) = g + 1 /\ g + 1 <= g + 1
    BY <1>6
  <2> QED
    BY <1>4, <1>5, <1>6, <2>1
<1>8. ASSUME NEW i \in 1..Len(down'[k].q) PROVE down'[k].q[i] = given'[k][n + i]
  <2>0. i \in 1..(d + 1)
    BY <1>4, <1>6
  <2>1. (i \in 1..d /\ n + i \in 1..g) \/ (i = d + 1 /\ n + i = g + 1)
    <3>1. \A m, a, b \in Nat : m + a = b =>
            \A j \in 1..(a + 1) : (j \in 1..a /\ m + j \in 1..b) \/ (j = a + 1 /\ m + j = b + 1)
      OBVIOUS
    <3>2. n + d = g
      BY <1>6
    <3> QED
      BY <2>0, <3>1, <3>2
  <2>2. CASE i \in 1..d /\ n + i \in 1..g
    BY <1>2, <1>4, <1>5, <1>6, <2>2 DEF ReadAt
  <2>3. CASE i = d + 1 /\ n + i = g + 1
    BY <1>4, <1>5, <1>6, <2>3
  <2> QED
    BY <2>1, <2>2, <2>3
<1>9. Cardinality(Came(given'[k], n)) = Len(printed'[k])
  <2>1. \A i \in 1..n : i \in 1..Len(given[k])
    BY <1>6
  <2>2. Came(given'[k], n) = Came(given[k], n)
    BY <1>5, <2>1, CameSame
  <2> QED
    BY <1>2, <2>2 DEF ReadAt
<1>10. ReadAt(k, n)'
  BY <1>7, <1>8, <1>9 DEF ReadAt
<1>11. ASSUME NEW i \in 1..Len(printed'[k])
       PROVE  /\ printed'[k][i] # Malformed
              /\ \E j \in 1..Len(given'[k]) : IsResponse(given'[k], i, j) /\ given'[k][j].payload = printed'[k][i]
  <2>1. PICK j \in 1..g : IsResponse(given[k], i, j) /\ given[k][j].payload = printed[k][i]
    BY <1>1, <1>6 DEF Tracked, Prints
  <2>2. /\ j \in Nat /\ j \in 1..Len(given'[k]) /\ given'[k][j] = given[k][j]
        /\ \A m \in 1..j : given'[k][m] = given[k][m]
    BY <1>5, <1>6
  <2>3. Came(given'[k], j) = Came(given[k], j)
    BY <2>2, CameSame
  <2>4. IsResponse(given'[k], i, j)
    BY <2>1, <2>2, <2>3 DEF IsResponse, Came
  <2> QED
    BY <1>1, <2>1, <2>2, <2>4 DEF Tracked, Prints
<1>12. Prints(k)'
  BY <1>11 DEF Prints
<1> QED
  BY <1>10, <1>12

\* A frame less: a response that is printed, or another frame.
LEMMA TrackedRead ==
  ASSUME Base, NEW k \in Clients, Tracked(k), CanRead(down[k]), down'[k] = ReadFrame(down[k]),
         UNCHANGED <<setup, given[k]>>,
         IF Head(down[k].q).type = "RESPONSE"
         THEN /\ Head(down[k].q).payload # Malformed
              /\ printed'[k] = Append(printed[k], Head(down[k].q).payload)
         ELSE printed'[k] = printed[k]
  PROVE  Tracked(k)'
<1>1. SUFFICES ASSUME IsB(k) PROVE Prints(k)' /\ \E n \in Nat : ReadAt(k, n)'
  BY DEF Tracked, IsB
<1>2. PICK n \in Nat : ReadAt(k, n)
  BY <1>1 DEF Tracked
<1>3. down[k] \in Chan(Responses) /\ given[k] \in Seq(Responses) /\ printed[k] \in Seq(Results)
  BY DEF Base, Typed
<1>4. /\ down'[k].end = down[k].end /\ Len(down'[k].q) = Len(down[k].q) - 1
      /\ \A i \in 1..Len(down'[k].q) : down'[k].q[i] = down[k].q[i + 1]
      /\ Head(down[k].q) = down[k].q[1] /\ Len(down[k].q) > 0 /\ Head(down[k].q) \in Responses
  <2> DEFINE ch == down[k]
  <2>1. ch \in Chan(Responses) /\ CanRead(ch)
    BY <1>3
  <2> HIDE DEF ch
  <2>2. /\ ReadFrame(ch).end = ch.end /\ Len(ReadFrame(ch).q) = Len(ch.q) - 1
        /\ \A i \in 1..Len(ReadFrame(ch).q) : ReadFrame(ch).q[i] = ch.q[i + 1]
        /\ Head(ch.q) = ch.q[1] /\ Len(ch.q) > 0 /\ Head(ch.q) \in Responses
    BY <2>1, ReadType
  <2> QED
    BY <2>2 DEF ch
<1>5. PICK d \in Nat, g \in Nat : d = Len(down[k].q) - 1 /\ g = Len(given[k])
  BY <1>4, LengthsAreNumbers DEF Lengths
<1>6. /\ Len(down[k].q) = d + 1 /\ n + (d + 1) <= g /\ Len(down'[k].q) = d
      /\ down[k].end = "open" => n + (d + 1) = g
  BY <1>2, <1>4, <1>5, LengthsAreNumbers DEF ReadAt, Lengths
<1>7. n + 1 \in 1..g /\ (n + 1) + d = n + (d + 1) /\ 1 \in 1..(d + 1)
  BY <1>6
<1>8. PICK f : f = Head(down[k].q) /\ f = given[k][n + 1]
  BY <1>2, <1>4, <1>6, <1>7 DEF ReadAt
<1>9. Cardinality(Came(given[k], n + 1)) =
        IF f.type = "RESPONSE" THEN Len(printed[k]) + 1 ELSE Len(printed[k])
  BY <1>2, <1>8, CameStep DEF ReadAt
<1>10. Len(printed[k]) \in Nat /\ f.payload \in Results
  BY <1>3, <1>4, <1>8, OwnTypes
<1>11. IF f.type = "RESPONSE"
       THEN /\ f.payload # Malformed
            /\ Len(printed'[k]) = Len(printed[k]) + 1 /\ printed'[k][Len(printed[k]) + 1] = f.payload
            /\ \A i \in 1..Len(printed[k]) : printed'[k][i] = printed[k][i]
       ELSE printed'[k] = printed[k]
  BY <1>3, <1>8, <1>10, AppendProperties
<1>12. Cardinality(Came(given'[k], n + 1)) = Len(printed'[k])
  BY <1>9, <1>11
<1>13. ASSUME NEW i \in 1..Len(down'[k].q) PROVE down'[k].q[i] = given'[k][(n + 1) + i]
  <2>1. i + 1 \in 1..Len(down[k].q) /\ n + (i + 1) = (n + 1) + i
    BY <1>6
  <2> QED
    BY <1>2, <1>4, <2>1 DEF ReadAt
<1>14. ReadAt(k, n + 1)'
  <2>1. (n + 1) + Len(down'[k].q) <= Len(given'[k])
    BY <1>5, <1>6, <1>7
  <2>2. down'[k].end = "open" => (n + 1) + Len(down'[k].q) = Len(given'[k])
    BY <1>4, <1>5, <1>6, <1>7
  <2> QED
    BY <1>12, <1>13, <2>1, <2>2 DEF ReadAt
<1>15. ASSUME NEW i \in 1..Len(printed'[k])
       PROVE  /\ printed'[k][i] # Malformed
              /\ \E j \in 1..Len(given'[k]) : IsResponse(given'[k], i, j) /\ given'[k][j].payload = printed'[k][i]
  <2>1. CASE i \in 1..Len(printed[k])
    <3>1. printed'[k][i] = printed[k][i]
      BY <1>11, <2>1
    <3> QED
      BY <1>1, <2>1, <3>1 DEF Tracked, Prints
  <2>2. CASE i \notin 1..Len(printed[k])
    <3>1. f.type = "RESPONSE" /\ i = Len(printed[k]) + 1
      BY <1>10, <1>11, <2>2
    <3>2. IsResponse(given[k], i, n + 1)
      BY <1>8, <1>9, <3>1 DEF IsResponse, Came
    <3> QED
      BY <1>5, <1>7, <1>8, <1>11, <3>1, <3>2
  <2> QED
    BY <2>1, <2>2
<1>16. Prints(k)'
  BY <1>15 DEF Prints
<1>17. n + 1 \in Nat
  OBVIOUS
<1> QED
  BY <1>14, <1>16, <1>17

LEMMA TrackedServe ==
  ASSUME Base, Base', ServeStep, NEW k \in Clients, Tracked(k)
  PROVE  Tracked(k)'
<1>0. /\ Typed /\ UNCHANGED <<setup, printed>>
      /\ cur \in Clients \cup {NoClient} /\ NoClient \notin Clients
      /\ cur = NoClient <=> spc \in {"accept", "exit", "killed"}
      /\ given \in [Clients -> Seq(Responses)] /\ down \in [Clients -> Chan(Responses)]
      /\ reply \in Responses
  BY JcAssumption, OwnTypes DEF Base, Typed, ServeStep, client
<1>1. ASSUME UNCHANGED <<down[k], given[k]>> PROVE Tracked(k)'
  BY <1>0, <1>1, TrackedElse
<1>2. ASSUME CloseClient, cur \in Clients, Recorded(taken, given) PROVE Tracked(k)'
  <2>1. Leaves(down[k], down'[k]) /\ (down'[k].end # "open" \/ down'[k] = down[k])
    BY <1>0, <1>2, CloseClientFacts
  <2> QED
    BY <1>0, <1>2, <2>1, TrackedLeaves DEF Recorded
<1>3. CASE (Accept \/ Skip \/ SendReturns) /\ Recorded(taken, given)
  BY <1>1, <1>3 DEF Accept, Skip, Takes, SendReturns, net, Recorded
<1>4. CASE CloseAtEnd /\ Recorded(taken, given)
  BY <1>0, <1>2, <1>4 DEF CloseAtEnd
<1>5. CASE SendThrows /\ Recorded(taken, given)
  BY <1>0, <1>1, <1>2, <1>5 DEF SendThrows, Writing, net, Recorded
<1>6. CASE SendKills /\ Recorded(taken, given)
  <2>1. EndServer("killed") /\ given' = given
    BY <1>6 DEF SendKills, Recorded
  <2>2. Leaves(down[k], down'[k]) /\ (down'[k].end # "open" \/ down'[k] = down[k])
    BY <1>0, <2>1, EndServerFacts
  <2> QED
    BY <1>0, <2>1, <2>2, TrackedLeaves
<1>7. CASE Take /\ Recorded([taken EXCEPT ![cur] = Append(@, Head(up[cur].q).payload)], given)
  BY <1>1, <1>7 DEF Take, Takes, Recorded
<1>8. CASE /\ Send
           /\ Recorded(taken, IF down[cur].end = "open"
                              THEN [given EXCEPT ![cur] = Append(@, reply)] ELSE given)
  <2>1. /\ cur \in Clients /\ down' = [down EXCEPT ![cur] = WriteFrame(down[cur], reply)]
        /\ given' = IF down[cur].end = "open" THEN [given EXCEPT ![cur] = Append(given[cur], reply)] ELSE given
    BY <1>0, <1>8 DEF Send, Recorded
  <2>2. CASE k # cur
    BY <1>0, <1>1, <2>1, <2>2
  <2>3. CASE k = cur /\ down[k].end # "open"
    <3>1. down'[k] = down[k]
      BY <1>0, <2>1, <2>3, WriteType
    <3> QED
      BY <1>1, <2>1, <2>3, <3>1
  <2>4. CASE k = cur /\ down[k].end = "open"
    <3>1. down'[k] = WriteFrame(down[k], reply) /\ given'[k] = Append(given[k], reply)
      BY <1>0, <2>1, <2>4
    <3> QED
      BY <1>0, <2>4, <3>1, TrackedGiven
  <2> QED
    BY <2>2, <2>3, <2>4
<1> QED
  BY <1>0, <1>3, <1>4, <1>5, <1>6, <1>7, <1>8, ServeRecord

LEMMA TrackedB ==
  ASSUME Connected, Base', NEW k \in Clients, BStep(k), Tracked(k)
  PROVE  Tracked(k)'
<1>0. /\ Base /\ Typed /\ Conn(k) /\ Progress(k) /\ UNCHANGED <<setup, given>>
      /\ printed \in [Clients -> Seq(Results)] /\ down \in [Clients -> Chan(Responses)]
  BY DEF Connected, Base, Typed, BStep
<1>1. ASSUME NEW s, Exit(k, s) PROVE Tracked(k)'
  <2>1. Quits(k) /\ printed' = printed
    BY <1>1, ExitQuits
  <2>2. Leaves(down[k], down'[k]) /\ down'[k].end # "open"
    BY <1>0, <2>1, QuitsFacts
  <2> QED
    BY <1>0, <2>1, <2>2, TrackedLeaves
<1>2. ASSUME down' = down, printed' = printed PROVE Tracked(k)'
  BY <1>0, <1>2, TrackedElse
<1>3. CASE Parse(k)
  BY <1>1, <1>2, <1>3 DEF Parse, net
<1>4. CASE Connect(k)
  <2>1. down'[k] = Fresh /\ cpc[k] = "connect" /\ printed' = printed
    BY <1>0, <1>4 DEF Connect
  <2>2. printed'[k] = <<>> /\ given'[k] = <<>>
    BY <1>0, <2>1 DEF Conn, Progress
  <2>3. Len(Fresh.q) = 0
    BY DEF Fresh
  <2>4. Cardinality(Came(given'[k], 0)) = 0
    BY CameCount
  <2>5. ReadAt(k, 0)'
    BY <2>1, <2>2, <2>3, <2>4 DEF ReadAt
  <2>6. Prints(k)'
    BY <2>2 DEF Prints
  <2> QED
    BY <2>5, <2>6 DEF Tracked
<1>5. CASE SendRequest(k)
  BY <1>2, <1>5 DEF SendRequest
<1>6. CASE PassOver(k) \/ PrintResponse(k)
  <2>1. CanRead(down[k]) /\ down'[k] = ReadFrame(down[k])
    BY <1>0, <1>6 DEF PassOver, PrintResponse, Received
  <2>2. IF Head(down[k].q).type = "RESPONSE"
        THEN /\ Head(down[k].q).payload # Malformed
             /\ printed'[k] = Append(printed[k], Head(down[k].q).payload)
        ELSE printed'[k] = printed[k]
    BY <1>0, <1>6 DEF PassOver, PrintResponse, Received, client
  <2> QED
    BY <1>0, <2>1, <2>2, TrackedRead
<1>7. CASE ConnectFails(k) \/ SendRequestFails(k) \/ ReceiveFails(k) \/ Finish(k)
  BY <1>1, <1>7 DEF ConnectFails, SendRequestFails, ReceiveFails, Finish
<1> QED
  BY <1>3, <1>4, <1>5, <1>6, <1>7 DEF BStep, Run

LEMMA TrackedOthers ==
  ASSUME Connected, Base', NEW k \in Clients, Tracked(k), NEW c \in Clients,
         \/ PeerConnects(c) \/ PeerSends(c) \/ PeerReads(c) \/ PeerStops(c) \/ PeerLeaves(c)
         \/ OtherSends(c) \/ OtherStops(c)
  PROVE  Tracked(k)'
<1>0. /\ Base /\ Typed /\ Progress(c) /\ UNCHANGED <<setup, printed>>
      /\ given \in [Clients -> Seq(Responses)] /\ down \in [Clients -> Chan(Responses)]
  BY DEF Connected, Base, Typed, PeerConnects, PeerSends, PeerReads, PeerStops, PeerLeaves, OtherSends,
         OtherStops, client
<1>1. ASSUME UNCHANGED <<down[k], given[k]>> PROVE Tracked(k)'
  BY <1>0, <1>1, TrackedElse
<1>2. CASE cpc[c] = "peer" /\ k = c
  <2>1. ~IsB(k)
    BY <1>0, <1>2 DEF Progress
  <2> QED
    BY <1>0, <2>1 DEF Tracked, IsB
<1>3. CASE k # c /\ PeerLeaves(c)
  <2>1. Quits(c) /\ given' = given
    BY <1>3 DEF PeerLeaves, Quits, history
  <2> QED
    BY <1>0, <1>1, <1>3, <2>1, QuitsFacts
<1>4. CASE k # c /\ (PeerConnects(c) \/ PeerSends(c) \/ PeerReads(c) \/ PeerStops(c))
  BY <1>0, <1>1, <1>4 DEF PeerConnects, PeerSends, PeerReads, PeerStops, history
<1>5. CASE OtherSends(c)
  <2>1. PICK f \in Replies : /\ down' = [down EXCEPT ![c] = WriteFrame(down[c], f)]
                             /\ given' = [given EXCEPT ![c] = Append(given[c], f)]
    BY <1>5 DEF OtherSends
  <2>2. down[c].end = "open" /\ f \in Responses
    BY <1>5 DEF OtherSends, Responses
  <2>3. CASE k = c
    <3>1. down'[k] = WriteFrame(down[k], f) /\ given'[k] = Append(given[k], f)
      BY <1>0, <2>1, <2>3
    <3> QED
      BY <1>0, <2>2, <2>3, <3>1, TrackedGiven
  <2>4. CASE k # c
    BY <1>0, <1>1, <2>1, <2>4
  <2> QED
    BY <2>3, <2>4
<1>6. CASE OtherStops(c)
  <2>1. PICK e \in Cuts \cup {"reset"} : down' = [down EXCEPT ![c].end = e]
    BY <1>6 DEF OtherStops
  <2>2. given' = given
    BY <1>6 DEF OtherStops, history
  <2>3. CASE k # c
    BY <1>0, <1>1, <2>1, <2>2, <2>3
  <2>4. CASE k = c
    <3>1. /\ down'[k].q = down[k].q /\ down'[k].end = e /\ e \notin {"none", "open"}
          /\ down[k].end = "open"
      BY <1>0, <1>6, <2>1, <2>4 DEF Cuts, OtherStops, Chan
    <3>2. Leaves(down[k], down'[k])
      BY <1>0, <3>1 DEF Leaves, Chan
    <3> QED
      BY <1>0, <2>2, <3>1, <3>2, TrackedLeaves
  <2> QED
    BY <2>3, <2>4
<1>7. PeerConnects(c) \/ PeerSends(c) \/ PeerReads(c) \/ PeerStops(c) \/ PeerLeaves(c) => cpc[c] = "peer"
  BY DEF PeerConnects, PeerSends, PeerReads, PeerStops, PeerLeaves
<1> QED
  BY <1>2, <1>3, <1>4, <1>5, <1>6, <1>7

Tracks == Connected /\ \A k \in Clients : Tracked(k)

LEMMA TracksInit == Init => Tracks
<1> SUFFICES ASSUME Init PROVE Tracks
  OBVIOUS
<1>1. ASSUME NEW k \in Clients PROVE Tracked(k)
  <2>1. down[k] = Closed /\ printed[k] = <<>> /\ given[k] = <<>>
    BY DEF Init, InitClient
  <2>2. Closed.end = "none" /\ Len(Closed.q) = 0
    BY DEF Closed
  <2>3. Cardinality(Came(given[k], 0)) = 0
    BY CameCount
  <2>4. ReadAt(k, 0)
    BY <2>1, <2>2, <2>3 DEF ReadAt
  <2>5. Prints(k)
    BY <2>1 DEF Prints
  <2> QED
    BY <2>4, <2>5 DEF Tracked
<1> QED
  BY <1>1, ConnectedInit DEF Tracks

LEMMA TracksStep == ASSUME Tracks, [Next]_systemVars PROVE Tracks'
<1>0. Connected /\ Connected' /\ Base /\ Base' /\ Typed /\ \A k \in Clients : Tracked(k)
  BY ConnectedStep DEF Tracks, Connected, Base
<1>1. ASSUME NEW k \in Clients PROVE Tracked(k)'
  <2>1. CASE UNCHANGED systemVars
    <3>1. UNCHANGED <<down, setup, printed, given>>
      BY <2>1 DEF systemVars, net, client, history
    <3> QED
      BY <1>0, <3>1, TrackedElse
  <2>2. CASE ServeStep
    BY <1>0, <2>2, TrackedServe
  <2>3. CASE ServerFails
    <3>1. EndServer("exit") /\ UNCHANGED <<setup, printed, given>>
      BY <2>3 DEF ServerFails, AcceptFails, client, history
    <3>2. Leaves(down[k], down'[k]) /\ (down'[k].end # "open" \/ down'[k] = down[k])
      BY <1>0, <3>1, EndServerFacts
    <3> QED
      BY <1>0, <3>1, <3>2, TrackedLeaves
  <2>4. ASSUME NEW c \in Clients, BStep(c) PROVE Tracked(k)'
    <3>1. CASE k = c
      BY <1>0, <2>4, <3>1, TrackedB
    <3>2. CASE k # c
      <4>1. UNCHANGED <<down[k], printed[k]>>
        BY <1>0, <2>4, <3>2, ElseOfB
      <4>2. UNCHANGED <<setup, given>>
        BY <2>4 DEF BStep
      <4> QED
        BY <1>0, <4>1, <4>2, TrackedElse
    <3> QED
      BY <3>1, <3>2
  <2>5. ASSUME NEW c \in Clients,
               \/ PeerConnects(c) \/ PeerSends(c) \/ PeerReads(c) \/ PeerStops(c) \/ PeerLeaves(c)
               \/ OtherSends(c) \/ OtherStops(c)
        PROVE  Tracked(k)'
    BY <1>0, <2>5, TrackedOthers
  <2>6. CASE Terminated
    BY <2>1, <2>6 DEF Terminated
  <2> QED
    BY <2>1, <2>2, <2>3, <2>4, <2>5, <2>6 DEF Next
<1> QED
  BY <1>0, <1>1 DEF Tracks

LEMMA TracksAlways == Spec => []Tracks
BY TracksInit, TracksStep, PTL DEF Spec

\* Against any server, and whatever else it sends, what b prints are the
\* responses that came, in order, each once, and none that does not decode.
THEOREM WhatCameIsPrinted == Spec => []PrintsWhatCame
<1>1. ASSUME Tracks PROVE PrintsWhatCame
  <2>1. ASSUME NEW k \in Clients PROVE Prints(k)
    <3>1. CASE IsB(k)
      BY <1>1, <3>1 DEF Tracks, Tracked
    <3>2. CASE ~IsB(k)
      <4>1. printed[k] = <<>>
        BY <1>1, <3>2 DEF Tracks, Connected, Base, Progress
      <4> QED
        BY <4>1 DEF Prints
    <3> QED
      BY <3>1, <3>2
  <2> QED
    BY <2>1 DEF Prints, PrintsWhatCame
<1> QED
  BY <1>1, TracksAlways, PTL
=============================================================================
