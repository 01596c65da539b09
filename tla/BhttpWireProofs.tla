--------------------------- MODULE BhttpWireProofs ---------------------------
(***************************************************************************)
(* What the operators of BhttpWire make of a channel: the lemmas that the  *)
(* proofs about servers and clients share.                                 *)
(***************************************************************************)
EXTENDS BhttpWire, SequencesExt, SequenceTheorems, WellFoundedInduction, TLAPS

-----------------------------------------------------------------------------
(* Sequences of sequences                                                  *)

\* Induction, for sets of numbers: no operator is a parameter.
LEMMA LeastNumber ==
  ASSUME NEW T, T \subseteq Nat, T # {}
  PROVE  \E n \in T : \A m \in T : n <= m
<1> DEFINE R == {ss \in Nat \X Nat : ss[1] < ss[2]}
<1>1. IsWellFoundedOn(R, Nat)
  BY NatLessThanWellFounded DEF OpToRel
<1> HIDE DEF R
<1>2. \E n \in T : \A m \in T : ~(<<m, n>> \in R)
  BY <1>1, WFMin
<1>3. PICK n \in T : \A m \in T : ~(<<m, n>> \in R)
  BY <1>2
<1>4. \A m \in T : ~(m < n)
  BY <1>3 DEF R
<1> QED
  BY <1>4

LEMMA Induction ==
  ASSUME NEW N \in Nat, NEW S, 0 \in S, \A n \in 0..(N - 1) : n \in S => n + 1 \in S
  PROVE  0..N \subseteq S
<1> SUFFICES ASSUME ~(0..N \subseteq S) PROVE FALSE
  OBVIOUS
<1> DEFINE T == (0..N) \ S
<1>1. T \subseteq Nat /\ T # {}
  OBVIOUS
<1> HIDE DEF T
<1>2. PICK n \in T : \A m \in T : n <= m
  BY <1>1, LeastNumber
<1>3. n # 0 /\ n \in 0..N /\ n \notin S
  BY <1>2 DEF T
<1>4. n - 1 \in 0..(N - 1) /\ n - 1 \notin T
  BY <1>2, <1>3
<1>5. n - 1 \in S
  BY <1>4 DEF T
<1>6. n - 1 + 1 = n
  BY <1>3
<1> QED
  BY <1>3, <1>4, <1>5, <1>6

-----------------------------------------------------------------------------
\* g flattens ss, step by step.
Flattens(g, ss) ==
  g = [i \in 1..Len(ss) |-> IF i = 1 THEN ss[i] ELSE g[i - 1] \o ss[i]]

LEMMA FlattenUnfold ==
  ASSUME NEW ss, Len(ss) # 0
  PROVE  FlattenSeq(ss) = (CHOOSE g : Flattens(g, ss))[Len(ss)]
BY DEF FlattenSeq, Flattens

LEMMA FlattensAt ==
  ASSUME NEW ss, NEW g, Flattens(g, ss), NEW i \in 1..Len(ss)
  PROVE  g[i] = IF i = 1 THEN ss[i] ELSE g[i - 1] \o ss[i]
<1> DEFINE e(k) == IF k = 1 THEN ss[k] ELSE g[k - 1] \o ss[k]
<1>1. g = [k \in 1..Len(ss) |-> e(k)]
  BY DEF Flattens
<1> HIDE DEF e
<1>2. g[i] = e(i)
  BY <1>1, Zenon
<1> QED
  BY <1>2 DEF e

LEMMA FlattensUnique ==
  ASSUME NEW ss, Len(ss) \in Nat, NEW tt, Len(tt) \in Nat, NEW n \in 1..Len(ss), n <= Len(tt),
         \A i \in 1..n : ss[i] = tt[i],
         NEW g, NEW h, Flattens(g, ss), Flattens(h, tt)
  PROVE  g[n] = h[n]
<1>1. Len(ss) \in Nat /\ Len(tt) \in Nat /\ n \in Nat /\ n >= 1
  OBVIOUS
<1>a. \A i \in 1..Len(ss) : g[i] = IF i = 1 THEN ss[i] ELSE g[i - 1] \o ss[i]
  BY FlattensAt
<1>b. \A i \in 1..Len(tt) : h[i] = IF i = 1 THEN tt[i] ELSE h[i - 1] \o tt[i]
  BY FlattensAt
<1> DEFINE T == {0} \cup {i \in 1..n : g[i] = h[i]}
<1>2. ASSUME NEW i \in 0..(n - 1), i \in T
      PROVE  i + 1 \in T
  <2>1. i + 1 \in 1..Len(ss) /\ i + 1 \in 1..Len(tt) /\ i + 1 \in 1..n /\ ss[i + 1] = tt[i + 1] /\ i + 1 - 1 = i
    BY <1>1
  <2>2. CASE i = 0
    <3>1. g[1] = ss[1] /\ h[1] = tt[1]
      BY <1>1, <1>a, <1>b, <2>1, <2>2
    <3> QED
      BY <2>1, <2>2, <3>1
  <2>3. CASE i # 0
    <3>1. g[i] = h[i]
      BY <1>2, <2>3
    <3>2. g[i + 1] = g[i] \o ss[i + 1] /\ h[i + 1] = h[i] \o tt[i + 1]
      <4>1. PICK j \in 1..n : j = i + 1 /\ j # 1 /\ j - 1 = i /\ j \in 1..Len(ss) /\ j \in 1..Len(tt)
        BY <2>1, <2>3
      <4>2. g[j] = g[j - 1] \o ss[j] /\ h[j] = h[j - 1] \o tt[j]
        BY <1>a, <1>b, <4>1
      <4> QED
        BY <4>1, <4>2, Zenon
    <3> QED
      BY <2>1, <3>1, <3>2
  <2> QED
    BY <2>2, <2>3
<1>3. 0 \in T
  OBVIOUS
<1> HIDE DEF T
<1>4. 0..n \subseteq T
  BY <1>1, <1>2, <1>3, Induction
<1>5. n \in T
  BY <1>1, <1>4
<1> QED
  BY <1>1, <1>5 DEF T

\* A step from g to the next sequence.
LEMMA FlattensStep ==
  ASSUME NEW S, NEW ss \in Seq(Seq(S)), NEW x \in Seq(S),
         NEW g \in [1..Len(ss) -> Seq(S)], Flattens(g, ss)
  PROVE  LET h == [i \in 1..(Len(ss) + 1) |-> IF i <= Len(ss) THEN g[i]
                                              ELSE IF Len(ss) = 0 THEN x ELSE g[Len(ss)] \o x]
         IN h \in [1..Len(Append(ss, x)) -> Seq(S)] /\ Flattens(h, Append(ss, x))
<1> DEFINE n == Len(ss)
           tt == Append(ss, x)
           e == IF n = 0 THEN x ELSE g[n] \o x
           h == [i \in 1..(n + 1) |-> IF i <= n THEN g[i] ELSE e]
<1>1. n \in Nat /\ Len(tt) = n + 1 /\ (\A i \in 1..n : tt[i] = ss[i]) /\ tt[n + 1] = x
  BY AppendProperties
<1>2. \A i \in 1..n : g[i] = (IF i = 1 THEN ss[i] ELSE g[i - 1] \o ss[i]) /\ g[i] \in Seq(S)
  BY FlattensAt
<1>3. e \in Seq(S)
  <2>1. CASE n = 0
    BY <2>1
  <2>2. CASE n # 0
    <3>0. n \in 1..n
      BY <1>1, <2>2
    <3>1. g[n] \in Seq(S)
      BY <1>2, <3>0
    <3> QED
      BY <2>2, <3>1, ConcatProperties
  <2> QED
    BY <2>1, <2>2
<1> HIDE DEF n, tt
<1>4. \A i \in 1..(n + 1) : h[i] = IF i = 1 THEN tt[i] ELSE h[i - 1] \o tt[i]
  <2>1. TAKE i \in 1..(n + 1)
  <2>2. CASE i <= n
    <3>1. i \in 1..n /\ h[i] = g[i] /\ (i # 1 => i - 1 \in 1..n /\ i - 1 \in 1..(n + 1) /\ i - 1 <= n)
      BY <1>1, <2>2
    <3>2. i # 1 => h[i - 1] = g[i - 1]
      BY <3>1
    <3>3. tt[i] = ss[i] /\ g[i] = IF i = 1 THEN ss[i] ELSE g[i - 1] \o ss[i]
      BY <1>1, <1>2, <3>1
    <3> HIDE DEF h
    <3> QED
      BY <3>1, <3>2, <3>3
  <2>3. CASE ~(i <= n)
    <3>1. i = n + 1 /\ h[i] = e
      BY <1>1, <2>3
    <3>2. tt[i] = x
      BY <1>1, <3>1
    <3>3. CASE n = 0
      <4>1. i = 1 /\ e = x
        BY <3>1, <3>3
      <4> HIDE DEF h, e
      <4> QED
        BY <3>1, <3>2, <4>1
    <3>4. CASE n # 0
      <4>1. i # 1 /\ i - 1 = n /\ n \in 1..(n + 1) /\ e = g[n] \o x
        BY <1>1, <3>1, <3>4
      <4>2. h[n] = g[n]
        BY <1>1, <4>1
      <4> HIDE DEF h, e
      <4>3. h[i - 1] = g[n]
        BY <4>1, <4>2
      <4> QED
        BY <3>1, <3>2, <4>1, <4>3
    <3> QED
      BY <3>3, <3>4
  <2> QED
    BY <2>2, <2>3
<1>5. h \in [1..(n + 1) -> Seq(S)]
  <2> HIDE DEF e
  <2> QED
    BY <1>1, <1>2, <1>3
<1>6. h = [i \in 1..(n + 1) |-> h[i]]
  OBVIOUS
<1>7. h = [i \in 1..(n + 1) |-> IF i = 1 THEN tt[i] ELSE h[i - 1] \o tt[i]]
  <2> HIDE DEF h
  <2> QED
    BY <1>4, <1>6
<1>8. Flattens(h, tt)
  <2> HIDE DEF h
  <2> QED
    BY <1>1, <1>7 DEF Flattens
<1> QED
  BY <1>1, <1>5, <1>8 DEF n, tt

LEMMA FlattensPrefixes ==
  ASSUME NEW S, NEW ss \in Seq(Seq(S))
  PROVE  \E g \in [1..Len(ss) -> Seq(S)] : Flattens(g, ss)
<1> DEFINE N == Len(ss)
           pre(n) == SubSeq(ss, 1, n)
           T == {n \in 0..N : \E g \in [1..n -> Seq(S)] : Flattens(g, pre(n))}
<1>1. N \in Nat /\ \A n \in 0..N : pre(n) \in Seq(Seq(S)) /\ Len(pre(n)) = n /\ \A i \in 1..n : pre(n)[i] = ss[i]
  <2>1. ASSUME NEW n \in 0..N
        PROVE  pre(n) \in Seq(Seq(S)) /\ Len(pre(n)) = n /\ \A i \in 1..n : pre(n)[i] = ss[i]
    <3>1. \A i \in 1..n : ss[i] \in Seq(S)
      OBVIOUS
    <3> QED
      BY <3>1, SubSeqProperties
  <2> QED
    BY <2>1
<1>2. 0 \in T
  <2> DEFINE g == [i \in 1..0 |-> <<>>]
  <2>1. g \in [1..0 -> Seq(S)]
    OBVIOUS
  <2>2. Len(pre(0)) = 0 /\ 0 \in 0..N
    BY <1>1
  <2> DEFINE e(i) == IF i = 1 THEN pre(0)[i] ELSE g[i - 1] \o pre(0)[i]
  <2> HIDE DEF pre
  <2>4. [i \in 1..0 |-> e(i)] = g
    <3>1. \A i \in 1..0 : FALSE
      OBVIOUS
    <3> HIDE DEF e
    <3> QED
      BY <3>1
  <2>3. Flattens(g, pre(0))
    <3>1. g = [i \in 1..Len(pre(0)) |-> e(i)]
      BY <2>2, <2>4, Zenon
    <3> QED
      BY <3>1, Zenon DEF Flattens
  <2> HIDE DEF g
  <2> QED
    BY <2>1, <2>2, <2>3
<1>3. ASSUME NEW n \in 0..(N - 1), n \in T
      PROVE  n + 1 \in T
  <2>1. PICK g \in [1..n -> Seq(S)] : Flattens(g, pre(n))
    BY <1>3
  <2>2. n \in Nat /\ n \in 0..N /\ n + 1 \in 0..N /\ n + 1 \in 1..N /\ Len(pre(n)) = n
    BY <1>1
  <2>3. ss[n + 1] \in Seq(S) /\ pre(n) \in Seq(Seq(S))
    BY <1>1, <2>2
  <2>4. pre(n + 1) = Append(pre(n), ss[n + 1])
    <3> DEFINE a == pre(n + 1)
               b == Append(pre(n), ss[n + 1])
    <3>1. a \in Seq(Seq(S)) /\ Len(a) = n + 1 /\ \A i \in 1..(n + 1) : a[i] = ss[i]
      BY <1>1, <2>2
    <3>2. b \in Seq(Seq(S)) /\ Len(b) = n + 1 /\ b[n + 1] = ss[n + 1] /\ \A i \in 1..n : b[i] = pre(n)[i]
      <4> HIDE DEF pre
      <4> QED
        BY <2>2, <2>3, AppendProperties
    <3>3. \A i \in 1..n : b[i] = ss[i]
      BY <1>1, <2>2, <3>2
    <3> HIDE DEF a, b
    <3>4. ASSUME NEW i \in 1..(n + 1) PROVE a[i] = b[i]
      <4>1. i \in 1..n \/ i = n + 1
        BY <2>2
      <4>2. a[i] = ss[i]
        BY <3>1
      <4> QED
        BY <4>1, <4>2, <3>2, <3>3
    <3>5. a = b
      BY <3>1, <3>2, <3>4, SeqEqual
    <3> QED
      BY <3>5 DEF a, b
  <2> HIDE DEF pre
  <2>5. \E h \in [1..Len(Append(pre(n), ss[n + 1])) -> Seq(S)] : Flattens(h, Append(pre(n), ss[n + 1]))
    BY <2>1, <2>2, <2>3, FlattensStep
  <2>6. Len(Append(pre(n), ss[n + 1])) = n + 1
    BY <2>2, <2>3, AppendProperties
  <2> QED
    BY <2>2, <2>4, <2>5, <2>6
<1> HIDE DEF T
<1>4. 0..N \subseteq T
  BY <1>1, <1>2, <1>3, Induction
<1>5. N \in T
  BY <1>1, <1>4
<1>6. PICK g \in [1..N -> Seq(S)] : Flattens(g, pre(N))
  BY <1>5 DEF T
<1>7. pre(N) = ss
  BY <1>1
<1> QED
  BY <1>6, <1>7

\* What FlattenSeq is: empty for no sequences, and one sequence more is put behind.
LEMMA FlattenValue ==
  ASSUME NEW S, NEW ss \in Seq(Seq(S)), Len(ss) # 0,
         NEW g \in [1..Len(ss) -> Seq(S)], Flattens(g, ss)
  PROVE  FlattenSeq(ss) = g[Len(ss)]
<1> DEFINE h == CHOOSE k : Flattens(k, ss)
<1>1. Flattens(h, ss)
  OBVIOUS
<1>2. FlattenSeq(ss) = h[Len(ss)]
  BY FlattenUnfold
<1>3. Len(ss) \in 1..Len(ss) /\ Len(ss) <= Len(ss) /\ \A i \in 1..Len(ss) : ss[i] = ss[i]
  OBVIOUS
<1> HIDE DEF h
<1>5. Len(ss) \in Nat
  OBVIOUS
<1>4. h[Len(ss)] = g[Len(ss)]
  BY <1>1, <1>3, <1>5, FlattensUnique, ZenonT(30)
<1> QED
  BY <1>2, <1>4

LEMMA FlattenEmpty ==
  ASSUME NEW ss, Len(ss) = 0
  PROVE  FlattenSeq(ss) = ss
BY DEF FlattenSeq

LEMMA FlattenType ==
  ASSUME NEW S, NEW ss \in Seq(Seq(S))
  PROVE  FlattenSeq(ss) \in Seq(S)
<1>1. CASE Len(ss) = 0
  BY <1>1, FlattenEmpty, EmptySeq
<1>2. CASE Len(ss) # 0
  <2>1. PICK g \in [1..Len(ss) -> Seq(S)] : Flattens(g, ss)
    BY FlattensPrefixes
  <2>2. FlattenSeq(ss) = g[Len(ss)]
    BY <1>2, <2>1, FlattenValue
  <2>3. Len(ss) \in 1..Len(ss)
    BY <1>2
  <2> QED
    BY <2>2, <2>3
<1> QED
  BY <1>1, <1>2

LEMMA FlattenAppend ==
  ASSUME NEW S, NEW ss \in Seq(Seq(S)), NEW x \in Seq(S)
  PROVE  FlattenSeq(Append(ss, x)) = FlattenSeq(ss) \o x
<1> DEFINE n == Len(ss)
           tt == Append(ss, x)
<1>1. PICK g \in [1..n -> Seq(S)] : Flattens(g, ss)
  BY FlattensPrefixes
<1> DEFINE h == [i \in 1..(n + 1) |-> IF i <= n THEN g[i] ELSE IF n = 0 THEN x ELSE g[n] \o x]
<1>2. h \in [1..Len(tt) -> Seq(S)] /\ Flattens(h, tt)
  BY <1>1, FlattensStep
<1>3. tt \in Seq(Seq(S)) /\ Len(tt) = n + 1 /\ n \in Nat
  BY AppendProperties
<1>4. h[n + 1] = IF n = 0 THEN x ELSE g[n] \o x
  BY <1>3
<1> HIDE DEF h, tt
<1>5. FlattenSeq(tt) = h[n + 1]
  BY <1>2, <1>3, FlattenValue
<1>6. CASE n = 0
  <2>1. FlattenSeq(ss) = <<>>
    BY <1>6, FlattenEmpty, EmptySeq
  <2>2. <<>> \o x = x
    BY ConcatEmptySeq
  <2> QED
    BY <1>4, <1>5, <1>6, <2>1, <2>2 DEF tt
<1>7. CASE n # 0
  <2>1. FlattenSeq(ss) = g[n]
    BY <1>1, <1>7, FlattenValue
  <2> QED
    BY <1>4, <1>5, <1>7, <2>1 DEF tt
<1> QED
  BY <1>6, <1>7

-----------------------------------------------------------------------------
(* Channels                                                                *)

Chan(S) == [q : Seq(S), end : Ends]

LEMMA WriteFrameType ==
  ASSUME NEW S, NEW ch \in Chan(S), NEW f \in S
  PROVE  WriteFrame(ch, f) \in Chan(S)
BY AppendProperties DEF WriteFrame, Chan

LEMMA ReadFrameType ==
  ASSUME NEW S, NEW ch \in Chan(S), CanRead(ch)
  PROVE  ReadFrame(ch) \in Chan(S) /\ Head(ch.q) \in S
BY HeadTailProperties DEF ReadFrame, CanRead, Chan

LEMMA BrokenType ==
  ASSUME NEW S, NEW ch \in Chan(S), NEW b \in Broken(ch)
  PROVE  /\ b \in Chan(S) /\ b.end = "reset"
         /\ \E n \in 0..Len(ch.q) : b.q = SubSeq(ch.q, 1, n)
<1>1. PICK n \in 0..Len(ch.q) : b = [q |-> SubSeq(ch.q, 1, n), end |-> "reset"]
  BY DEF Broken
<1>2. ch.q \in Seq(S)
  BY DEF Chan
<1>3. \A i \in 1..n : ch.q[i] \in S
  BY <1>2
<1>4. SubSeq(ch.q, 1, n) \in Seq(S)
  BY <1>2, <1>3, SubSeqProperties
<1> QED
  BY <1>1, <1>4 DEF Chan, Ends, Cuts

LEMMA ClosedType ==
  ASSUME NEW S, NEW ch \in Chan(S), NEW unread \in BOOLEAN
  PROVE  /\ ClosedByReader(ch) \in Chan(S)
         /\ ClosedByWriter(ch, unread) \subseteq Chan(S)
BY BrokenType DEF ClosedByReader, ClosedByWriter, Chan, Ends, Cuts

\* The channel b is what is left of ch: its writer has written nothing more.
IsRestOf(b, ch) ==
  /\ \E n \in 0..Len(ch.q) : b.q = SubSeq(ch.q, 1, n)
  /\ b.end = "none" <=> ch.end = "none"
  /\ b.end = "open" => ch.end = "open"

LEMMA Unchanged ==
  ASSUME NEW S, NEW ch \in Chan(S), NEW e
  PROVE  /\ ch.q = SubSeq(ch.q, 1, Len(ch.q))
         /\ IsRestOf(ch, ch)
         /\ (e = "none" <=> ch.end = "none") /\ (e = "open" => ch.end = "open")
              => IsRestOf([ch EXCEPT !.end = e], ch)
<1>1. ch.q \in Seq(S) /\ Len(ch.q) \in 0..Len(ch.q)
  BY DEF Chan
<1>2. ch.q = SubSeq(ch.q, 1, Len(ch.q))
  BY <1>1
<1> QED
  BY <1>1, <1>2 DEF IsRestOf, Chan

LEMMA ClosedRest ==
  ASSUME NEW S, NEW ch \in Chan(S), NEW unread \in BOOLEAN
  PROVE  /\ IsRestOf(ClosedByReader(ch), ch) /\ ClosedByReader(ch).end # "open"
         /\ \A b \in ClosedByWriter(ch, unread) : IsRestOf(b, ch) /\ b.end # "open"
         /\ ch.end # "none" => \A b \in Broken(ch) : IsRestOf(b, ch) /\ b.end # "open"
<1>1. IsRestOf(ClosedByReader(ch), ch) /\ ClosedByReader(ch).end # "open"
  BY Unchanged DEF ClosedByReader, Chan
<1>2. ASSUME ch.end # "none", NEW b \in Broken(ch)
      PROVE  IsRestOf(b, ch) /\ b.end # "open"
  BY <1>2, BrokenType DEF IsRestOf
<1>3. ASSUME NEW b \in ClosedByWriter(ch, unread)
      PROVE  IsRestOf(b, ch) /\ b.end # "open"
  BY <1>2, <1>3, Unchanged DEF ClosedByWriter, Chan
<1> QED
  BY <1>1, <1>2, <1>3

\* Its queue is a prefix.
LEMMA RestFacts ==
  ASSUME NEW S, NEW ch \in Chan(S), NEW b, IsRestOf(b, ch)
  PROVE  Len(b.q) \in 0..Len(ch.q) /\ \A i \in 1..Len(b.q) : b.q[i] = ch.q[i]
<1>1. PICK n \in 0..Len(ch.q) : b.q = SubSeq(ch.q, 1, n)
  BY DEF IsRestOf
<1>2. ch.q \in Seq(S) /\ Len(ch.q) \in Nat
  BY DEF Chan
<1> QED
  BY <1>1, <1>2

\* A frame is written behind the others, or lost.
LEMMA WriteFacts ==
  ASSUME NEW S, NEW ch \in Chan(S), NEW f \in S
  PROVE  LET b == WriteFrame(ch, f) IN
         /\ Len(b.q) \in Len(ch.q)..(Len(ch.q) + 1) /\ b.end = ch.end
         /\ \A i \in 1..Len(b.q) : b.q[i] = IF i <= Len(ch.q) THEN ch.q[i] ELSE f
<1>1. ch.q \in Seq(S) /\ Len(ch.q) \in Nat
  BY DEF Chan
<1>2. CASE ch.end = "open"
  <2>1. WriteFrame(ch, f).q = Append(ch.q, f) /\ WriteFrame(ch, f).end = ch.end
    BY <1>2 DEF WriteFrame, Chan
  <2> QED
    BY <1>1, <2>1
<1>3. CASE ch.end # "open"
  BY <1>1, <1>3 DEF WriteFrame
<1> QED
  BY <1>2, <1>3
=============================================================================
