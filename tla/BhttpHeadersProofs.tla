------------------------- MODULE BhttpHeadersProofs -------------------------
(***************************************************************************)
(* Theorems about the header codec and the hexdumps, for octets, tables,   *)
(* blocks and payloads of any size.                                        *)
(***************************************************************************)
EXTENDS BhttpDump, BhttpWireProofs

Octets == 0..(Base - 1)
Fields == [name : Seq(Octets), value : Seq(Octets)]
Entry  == [from : Nat, to : Nat, name : Seq(Octets), value : Seq(Octets)]

LEMMA Constants ==
  /\ Base \in Nat /\ Base > Len(Table) /\ Len(Table) \in Nat /\ Base > 0
  /\ Octets \subseteq Nat
  /\ \A i \in 1..Len(Table) : Table[i] \in Seq(Octets)
  /\ Lower \in [Octets -> Octets]
  /\ Blocks \subseteq Seq(Fields) /\ Payloads \subseteq Seq(Octets)
<1>1. /\ Base \in Nat /\ Table \in Seq(Seq(Octets)) /\ Base > Len(Table)
      /\ Lower \in [Octets -> Octets]
      /\ Blocks \subseteq Seq(Fields) /\ Payloads \subseteq Seq(Octets)
  BY HeadersAssumption DEF Octets, Fields
<1>2. Octets \subseteq Nat
  BY <1>1 DEF Octets
<1>3. Len(Table) \in Nat /\ Base > 0 /\ \A i \in 1..Len(Table) : Table[i] \in Seq(Octets)
  <2> HIDE DEF Octets
  <2> QED
    BY <1>1
<1> QED
  BY <1>1, <1>2, <1>3

LEMMA Products ==
  ASSUME NEW a \in Nat, NEW b \in Nat
  PROVE  a * b \in Nat
OBVIOUS

-----------------------------------------------------------------------------
(* Strings in the payload                                                  *)

\* A string the decoder finds is within the payload.
LEMMA StringFacts ==
  ASSUME payload \in Seq(Octets), NEW p \in Nat, p >= 1, HasString(p)
  PROVE  /\ StringEnd(p) \in Nat /\ StringEnd(p) >= p + 1 /\ StringEnd(p) <= Len(payload)
         /\ StringEnd(p) - p - 1 = payload[p] * Base + payload[p + 1]
         /\ StringAt(p) \in Seq(Octets) /\ Len(StringAt(p)) = StringEnd(p) - p - 1
<1>1. p \in 1..Len(payload) /\ p + 1 \in 1..Len(payload)
  BY DEF HasString
<1>2. payload[p] \in Nat /\ payload[p + 1] \in Nat
  <2>1. payload[p] \in Octets /\ payload[p + 1] \in Octets
    BY <1>1
  <2> QED
    BY <2>1, Constants
<1> DEFINE k == payload[p] * Base
           n == payload[p + 1]
<1>3. k \in Nat /\ n \in Nat /\ StringEnd(p) = p + 1 + k + n /\ p + 1 + k + n <= Len(payload)
  BY <1>1, <1>2, Constants, Products DEF HasString, StringEnd
<1> HIDE DEF k, n
<1> DEFINE e == StringEnd(p)
<1>4. e \in Nat /\ e >= p + 1 /\ e <= Len(payload) /\ e - p - 1 = k + n
  BY <1>3
<1> HIDE DEF e
<1>5. SubSeq(payload, p + 2, e) \in Seq(Octets) /\ Len(SubSeq(payload, p + 2, e)) = e - p - 1
  <2>1. \A i \in (p + 2)..e : payload[i] \in Octets
    BY <1>4
  <2> QED
    BY <1>4, <2>1, SubSeqProperties
<1> QED
  BY <1>4, <1>5 DEF e, k, n, StringAt

-----------------------------------------------------------------------------
(* The entries of the decoder                                              *)

\* What stands on the wire for an entry, in either format.
IsIndexedEntry(e) ==
  /\ payload[e.from] \in 1..Len(Table) /\ HasString(e.from + 1)
  /\ e.to = StringEnd(e.from + 1)
  /\ e.name = Table[payload[e.from]] /\ e.value = StringAt(e.from + 1)
IsLiteralEntry(e) ==
  /\ payload[e.from] = 0 /\ HasString(e.from + 1) /\ HasString(StringEnd(e.from + 1) + 1)
  /\ e.to = StringEnd(StringEnd(e.from + 1) + 1)
  /\ e.name = StringAt(e.from + 1) /\ e.value = StringAt(StringEnd(e.from + 1) + 1)
IsEntry(e) ==
  /\ e \in Entry /\ e.from >= 1 /\ e.to <= Len(payload) /\ e.to > e.from + 1
  /\ IsIndexedEntry(e) \/ IsLiteralEntry(e)

\* Where the i-th entry begins, and where the next one would.
Begins(i) == IF i = 1 THEN 1 ELSE entries[i - 1].to + 1

Typed ==
  /\ payload \in Seq(Octets) /\ pos \in 1..(Len(payload) + 1)
  /\ result \in {"none", "ok", "ErrMalformedHeader", "ErrInvalidIndex"}
Parsed ==
  /\ entries \in Seq(Entry)
  /\ \A i \in 1..Len(entries) : IsEntry(entries[i]) /\ entries[i].from = Begins(i)
  /\ pos = Begins(Len(entries) + 1)
  /\ result = "ok" => pos = Len(payload) + 1

\* An entry more.
LEMMA TakeKeeps ==
  ASSUME Typed, Parsed, UNCHANGED payload, NEW name, NEW from, Take(name, from),
         IsEntry([from |-> pos, to |-> StringEnd(from), name |-> name, value |-> StringAt(from)]),
         result = "none"
  PROVE  Typed' /\ Parsed'
<1> DEFINE e == [from |-> pos, to |-> StringEnd(from), name |-> name, value |-> StringAt(from)]
           n == Len(entries)
<1>1. entries' = Append(entries, e) /\ pos' = e.to + 1 /\ UNCHANGED <<result, payload>>
  BY DEF Take
<1>2. IsEntry(e) /\ e \in Entry /\ e.from = pos
  BY DEF IsEntry
<1> HIDE DEF e
<1>3. n \in Nat /\ entries \in Seq(Entry)
  BY DEF Parsed
<1>4. /\ entries' \in Seq(Entry) /\ Len(entries') = n + 1 /\ entries'[n + 1] = e
      /\ \A i \in 1..n : entries'[i] = entries[i]
  BY <1>1, <1>2, <1>3, AppendProperties
<1>5. e.to \in Nat /\ e.to <= Len(payload) /\ payload \in Seq(Octets)
  BY <1>2 DEF IsEntry, Entry, Typed
<1>6. Typed'
  BY <1>1, <1>5 DEF Typed
<1>7. ASSUME NEW i \in 1..Len(entries'), NEW x, x = entries'[i], IsEntry(x)
      PROVE  IsEntry(entries[i])'
  <2>1. IsEntry(entries'[i])
    BY <1>7
  <2> QED
    BY <1>1, <2>1, ZenonT(30) DEF IsEntry, IsIndexedEntry, IsLiteralEntry, HasString, StringEnd, StringAt
<1>8. ASSUME NEW i \in 1..Len(entries')
      PROVE  (IsEntry(entries[i]) /\ entries[i].from = Begins(i))'
  <2>1. CASE i \in 1..n
    <3>1. entries'[i] = entries[i] /\ (i # 1 => i - 1 \in 1..n /\ entries'[i - 1] = entries[i - 1])
      BY <1>3, <1>4, <2>1
    <3>2. Begins(i)' = Begins(i)
      BY <3>1 DEF Begins
    <3>3. IsEntry(entries[i]) /\ entries[i].from = Begins(i)
      BY <2>1 DEF Parsed
    <3>4. IsEntry(entries[i])'
      BY <1>7, <3>1, <3>3
    <3> QED
      BY <3>1, <3>2, <3>3, <3>4
  <2>2. CASE i = n + 1
    <3>1. i - 1 = n /\ (n # 0 => n \in 1..n /\ entries'[n] = entries[n])
      BY <1>3, <1>4, <2>2
    <3>2. Begins(i)' = Begins(i)
      <4>1. i # 1 => entries'[i - 1] = entries[i - 1]
        BY <1>3, <1>4, <2>2, <3>1
      <4> QED
        BY <4>1 DEF Begins
    <3>3. e.from = Begins(i)
      BY <1>2, <2>2 DEF Parsed
    <3>4. entries'[i] = e
      BY <1>4, <2>2
    <3>5. IsEntry(entries[i])'
      BY <1>2, <1>7, <3>4
    <3> QED
      BY <3>2, <3>3, <3>4, <3>5
  <2> QED
    BY <1>3, <1>4, <2>1, <2>2
<1>9. pos' = Begins(Len(entries) + 1)'
  <2>1. Len(entries') + 1 # 1 /\ (Len(entries') + 1) - 1 = n + 1
    BY <1>3, <1>4
  <2> QED
    BY <1>1, <1>4, <2>1 DEF Begins
<1>10. (result = "ok")' => (pos = Len(payload) + 1)'
  BY <1>1
<1> QED
  BY <1>4, <1>6, <1>8, <1>9, <1>10 DEF Parsed

-----------------------------------------------------------------------------
(* What the encoder writes                                                 *)

LEMMA Division ==
  ASSUME NEW B \in Nat, B > 0, NEW n \in Nat
  PROVE  n \div B \in Nat /\ n % B \in 0..(B - 1)
OBVIOUS

LEMMA Quotient ==
  ASSUME NEW B \in Nat, B > 0, NEW n \in Nat, NEW q \in Nat, q = n \div B, NEW r \in Nat, r = n % B
  PROVE  q * B + r = n
OBVIOUS

LEMMA Fits ==
  ASSUME NEW n \in Nat, n <= MaxString
  PROVE  n \div Base \in Octets /\ n % Base \in Octets
<1>1. PICK B \in Nat : B = Base /\ B > 0
  BY Constants
<1>2. n <= B * B - 1
  BY <1>1 DEF MaxString
<1>3. PICK q \in Nat : q = n \div B
  BY <1>1, Division
<1>4. q * B <= n
  BY <1>1, <1>3
<1>5. q < B
  <2> SUFFICES ASSUME q >= B PROVE FALSE
    BY <1>1
  <2>1. PICK d \in Nat : q = B + d
    <3>1. q - B \in Nat /\ q = B + (q - B)
      OBVIOUS
    <3> QED
      BY <3>1
  <2>2. q * B = B * B + d * B
    BY <2>1
  <2> QED
    BY <1>2, <1>4, <2>2, Products
<1>6. n % B \in 0..(B - 1) /\ q \in 0..(B - 1)
  BY <1>1, <1>5, Division
<1> QED
  BY <1>1, <1>3, <1>6, Zenon DEF Octets

LEMMA Rejoins ==
  ASSUME NEW n \in Nat, NEW q, q = n \div Base, NEW r, r = n % Base
  PROVE  q * Base + r = n
<1>1. Base \in Nat /\ Base > 0
  BY Constants
<1>2. q \in Nat /\ r \in Nat
  BY <1>1, Division
<1> QED
  BY <1>1, <1>2, Quotient

LEMMA MinFacts ==
  ASSUME NEW T, T \subseteq Nat, T # {}
  PROVE  Min(T) \in T /\ \A m \in T : Min(T) <= m
BY LeastNumber DEF Min

LEMMA MaxFacts ==
  ASSUME NEW N \in Nat, NEW T, T \subseteq 0..N, T # {}
  PROVE  Max(T) \in T /\ \A m \in T : Max(T) >= m
<1> DEFINE U == {N - j : j \in T}
<1>1. \A j \in T : N - j \in Nat /\ j \in 0..N
  OBVIOUS
<1>2. U \subseteq Nat /\ U # {}
  BY <1>1
<1>3. \A j \in T : N - j \in U
  OBVIOUS
<1>4. \A k \in U : \E j \in T : k = N - j
  OBVIOUS
<1> HIDE DEF U
<1>5. PICK k \in U : \A m \in U : k <= m
  BY <1>2, LeastNumber
<1>6. PICK i \in T : k = N - i
  BY <1>4
<1>7. \A m \in T : i >= m
  BY <1>1, <1>3, <1>5, <1>6
<1> QED
  BY <1>6, <1>7 DEF Max

\* The places of a sequence that TrimSpace looks for.
Kept(s) == {i \in 1..Len(s) : s[i] \notin Blank}

LEMMA TrimFacts ==
  ASSUME NEW s \in Seq(Octets), Kept(s) # {}
  PROVE  /\ Min(Kept(s)) \in Kept(s) /\ Max(Kept(s)) \in Kept(s)
         /\ \A i \in Kept(s) : Min(Kept(s)) <= i /\ i <= Max(Kept(s))
         /\ TrimSpace(s) = SubSeq(s, Min(Kept(s)), Max(Kept(s)))
<1>1. Len(s) \in Nat /\ Kept(s) \subseteq 0..Len(s) /\ Kept(s) \subseteq Nat
  BY DEF Kept
<1>2. Min(Kept(s)) \in Kept(s) /\ \A i \in Kept(s) : Min(Kept(s)) <= i
  BY <1>1, MinFacts
<1>3. Max(Kept(s)) \in Kept(s) /\ \A i \in Kept(s) : Max(Kept(s)) >= i
  BY <1>1, MaxFacts
<1>4. TrimSpace(s) = SubSeq(s, Min(Kept(s)), Max(Kept(s)))
  BY Zenon DEF TrimSpace, Kept
<1> QED
  BY <1>1, <1>2, <1>3, <1>4

LEMMA Trimmed ==
  ASSUME NEW s \in Seq(Octets)
  PROVE  TrimSpace(s) \in Seq(Octets)
<1>1. CASE Kept(s) = {}
  BY <1>1, EmptySeq DEF TrimSpace, Kept
<1>2. CASE Kept(s) # {}
  <2>1. PICK a \in 1..Len(s), b \in 1..Len(s) : TrimSpace(s) = SubSeq(s, a, b)
    BY <1>2, TrimFacts DEF Kept
  <2>2. \A i \in a..b : s[i] \in Octets
    OBVIOUS
  <2>3. SubSeq(s, a, b) \in Seq(Octets)
    BY <2>2, SubSeqProperties
  <2> QED
    BY <2>1, <2>3
<1> QED
  BY <1>1, <1>2

LEMMA Lowered ==
  ASSUME NEW s \in Seq(Octets)
  PROVE  /\ ToLower(s) \in Seq(Octets) /\ Len(ToLower(s)) = Len(s)
         /\ \A i \in 1..Len(s) : ToLower(s)[i] = Lower[s[i]]
<1>1. ASSUME NEW i \in 1..Len(s)
      PROVE  Lower[s[i]] \in Octets
  <2>1. s[i] \in Octets
    OBVIOUS
  <2> QED
    BY <2>1, Constants
<1> QED
  BY <1>1 DEF ToLower

LEMMA NormalType ==
  ASSUME NEW s \in Seq(Octets)
  PROVE  Normal(s) \in Seq(Octets)
BY Trimmed, Lowered DEF Normal

LEMMA JoinType ==
  ASSUME NEW S, NEW s \in Seq(S), NEW t \in Seq(S)
  PROVE  s \o t \in Seq(S) /\ Len(s \o t) = Len(s) + Len(t)
BY ConcatProperties

LEMMA JoinFirst ==
  ASSUME NEW S, NEW s \in Seq(S), NEW t \in Seq(S), NEW i \in 1..Len(s)
  PROVE  (s \o t)[i] = s[i]
BY i \in 1..(Len(s) + Len(t)), ConcatProperties

LEMMA JoinSecond ==
  ASSUME NEW S, NEW s \in Seq(S), NEW t \in Seq(S), NEW i \in 1..Len(t)
  PROVE  (s \o t)[Len(s) + i] = t[i]
<1>1. PICK k \in 1..(Len(s) + Len(t)) : k = Len(s) + i /\ ~(k <= Len(s)) /\ k - Len(s) = i
  <2>1. Len(s) + i \in 1..(Len(s) + Len(t))
    OBVIOUS
  <2> QED
    BY <2>1
<1>2. (s \o t)[k] = t[k - Len(s)]
  BY <1>1, ConcatProperties
<1> QED
  BY <1>1, <1>2, Zenon

LEMMA PutStringFacts ==
  ASSUME NEW s \in Seq(Octets), Len(s) <= MaxString
  PROVE  /\ PutString(s) \in Seq(Octets) /\ Len(PutString(s)) = Len(s) + 2
         /\ PutString(s)[1] = Len(s) \div Base /\ PutString(s)[2] = Len(s) % Base
         /\ \A i \in 1..Len(s) : PutString(s)[i + 2] = s[i]
<1>1. PICK a \in Octets, b \in Octets : a = Len(s) \div Base /\ b = Len(s) % Base
  BY Fits
<1>2. PICK t \in Seq(Octets) : t = <<a, b>>
  <2>1. <<a, b>> \in Seq(Octets)
    OBVIOUS
  <2> QED
    BY <2>1, Zenon
<1>3. Len(t) = 2 /\ t[1] = a /\ t[2] = b
  BY <1>2
<1>4. PutString(s) = t \o s
  BY <1>1, <1>2 DEF PutString
<1>5. t \o s \in Seq(Octets) /\ Len(t \o s) = Len(s) + 2
  <2>1. t \o s \in Seq(Octets) /\ Len(t \o s) = Len(t) + Len(s)
    BY JoinType, Zenon
  <2> QED
    BY <1>3, <2>1
<1>6. (t \o s)[1] = t[1] /\ (t \o s)[2] = t[2]
  <2>1. \A i \in 1..Len(t) : (t \o s)[i] = t[i]
    BY JoinFirst, Zenon
  <2>2. 1 \in 1..Len(t) /\ 2 \in 1..Len(t)
    BY <1>3
  <2> QED
    BY <2>1, <2>2, Zenon
<1>7. \A i \in 1..Len(s) : (t \o s)[i + 2] = s[i]
  <2> TAKE i \in 1..Len(s)
  <2>1. (t \o s)[Len(t) + i] = s[i]
    BY JoinSecond
  <2>2. i + 2 = Len(t) + i
    BY <1>3
  <2> QED
    BY <2>1, <2>2
<1> QED
  BY <1>1, <1>3, <1>4, <1>5, <1>6, <1>7

-----------------------------------------------------------------------------
(* Where a string stands                                                   *)

\* x stands in y behind its first n octets.
StandsIn(x, y, n) == n + Len(x) <= Len(y) /\ \A i \in 1..Len(x) : y[n + i] = x[i]

\* The string s stands in x, with its length, from place k on.
StringIn(x, k, s) ==
  /\ k + 1 + Len(s) <= Len(x)
  /\ x[k] = Len(s) \div Base /\ x[k + 1] = Len(s) % Base
  /\ \A i \in 1..Len(s) : x[k + 1 + i] = s[i]

LEMMA StringStands ==
  ASSUME NEW x \in Seq(Octets), NEW y \in Seq(Octets), NEW n \in Nat, StandsIn(x, y, n),
         NEW k \in Nat, k >= 1, NEW s \in Seq(Octets), StringIn(x, k, s)
  PROVE  StringIn(y, n + k, s)
<1>1. /\ k \in 1..Len(x) /\ k + 1 \in 1..Len(x) /\ n + Len(x) <= Len(y) /\ Len(x) \in Nat /\ Len(s) \in Nat
      /\ k + 1 + Len(s) <= Len(x)
      /\ \A i \in 1..Len(x) : y[n + i] = x[i]
  BY DEF StringIn, StandsIn
<1>2. y[n + k] = x[k] /\ y[n + k + 1] = x[k + 1]
  <2>1. n + k + 1 = n + (k + 1)
    BY <1>1
  <2> QED
    BY <1>1, <2>1
<1>3. \A i \in 1..Len(s) : y[n + k + 1 + i] = s[i]
  <2> TAKE i \in 1..Len(s)
  <2>1. k + 1 + i \in 1..Len(x) /\ n + k + 1 + i = n + (k + 1 + i)
    BY <1>1
  <2>2. y[n + (k + 1 + i)] = x[k + 1 + i]
    BY <1>1, <2>1
  <2> QED
    BY <2>1, <2>2 DEF StringIn
<1>4. n + k + 1 + Len(s) <= Len(y)
  BY <1>1
<1> QED
  BY <1>2, <1>3, <1>4 DEF StringIn

\* What the decoder makes of it.
LEMMA StringIsRead ==
  ASSUME payload \in Seq(Octets), NEW p \in Nat, p >= 1, NEW s \in Seq(Octets), StringIn(payload, p, s)
  PROVE  HasString(p) /\ StringEnd(p) = p + 1 + Len(s) /\ StringAt(p) = s
<1>1. p + 1 + Len(s) <= Len(payload) /\ Len(s) \in Nat /\ p \in 1..Len(payload) /\ p + 1 \in 1..Len(payload)
  BY DEF StringIn
<1>2. payload[p] = Len(s) \div Base /\ payload[p + 1] = Len(s) % Base
  BY DEF StringIn
<1>3. payload[p] * Base + payload[p + 1] = Len(s)
  BY <1>1, <1>2, Rejoins, Zenon
<1>4. PICK k \in Nat : k = payload[p] * Base
  <2>1. payload[p] \in Octets
    BY <1>1
  <2> QED
    BY <2>1, Constants, Products
<1>5. PICK m \in Nat : m = payload[p + 1]
  <2>1. payload[p + 1] \in Octets
    BY <1>1
  <2> QED
    BY <2>1, Constants
<1>6. k + m = Len(s)
  BY <1>3, <1>4, <1>5, Zenon
<1>7. p + 1 + k + m = p + 1 + Len(s)
  BY <1>1, <1>6
<1>8. HasString(p) /\ StringEnd(p) = p + 1 + Len(s)
  BY <1>1, <1>4, <1>5, <1>7 DEF HasString, StringEnd
<1>9. StringAt(p) = s
  <2>1. PICK e \in Nat : e = p + 1 + Len(s)
    BY <1>1
  <2>2. \A i \in (p + 2)..e : payload[i] \in Octets
    BY <1>1, <2>1
  <2>3. PICK t : t = SubSeq(payload, p + 2, e)
    OBVIOUS
  <2>4. /\ t \in Seq(Octets) /\ Len(t) = Len(s)
        /\ \A i \in 1..Len(s) : t[i] = payload[p + 1 + i]
    BY <1>1, <2>1, <2>2, <2>3
  <2>5. \A i \in 1..Len(s) : t[i] = s[i]
    BY <2>4 DEF StringIn
  <2>6. t = s
    BY <2>4, <2>5, SeqEqual
  <2> QED
    BY <1>8, <2>1, <2>3, <2>6 DEF StringAt
<1> QED
  BY <1>8, <1>9

-----------------------------------------------------------------------------
(* Fields                                                                  *)

\* x is a field, in either format.
IsField(x, h) ==
  LET name == Normal(h.name) IN
  \/ /\ \E i \in 1..Len(Table) : Table[i] = name /\ x[1] = i
     /\ Len(x) = 3 + Len(h.value) /\ StringIn(x, 2, h.value)
  \/ /\ x[1] = 0 /\ Len(x) = 5 + Len(name) + Len(h.value)
     /\ StringIn(x, 2, name) /\ StringIn(x, 4 + Len(name), h.value)

LEMMA PutStringIn ==
  ASSUME NEW s \in Seq(Octets), Len(s) <= MaxString
  PROVE  PutString(s) \in Seq(Octets) /\ Len(PutString(s)) = Len(s) + 2 /\ StringIn(PutString(s), 1, s)
<1>1. \A i \in 1..Len(s) : 1 + 1 + i = i + 2
  OBVIOUS
<1> QED
  BY <1>1, PutStringFacts DEF StringIn

LEMMA StandsFirst ==
  ASSUME NEW S, NEW x \in Seq(S), NEW y \in Seq(S)
  PROVE  StandsIn(x, x \o y, 0)
<1>1. Len(x \o y) = Len(x) + Len(y) /\ Len(x) \in Nat /\ Len(y) \in Nat
  BY JoinType
<1>2. \A i \in 1..Len(x) : (x \o y)[i] = x[i] /\ 0 + i = i
  BY JoinFirst
<1> QED
  BY <1>1, <1>2 DEF StandsIn

LEMMA StandsSecond ==
  ASSUME NEW S, NEW x \in Seq(S), NEW y \in Seq(S)
  PROVE  StandsIn(y, x \o y, Len(x))
<1>1. Len(x \o y) = Len(x) + Len(y) /\ Len(x) \in Nat /\ Len(y) \in Nat
  BY JoinType
<1>2. \A i \in 1..Len(y) : (x \o y)[Len(x) + i] = y[i]
  BY JoinSecond
<1> QED
  BY <1>1, <1>2 DEF StandsIn

LEMMA EncodeFieldFacts ==
  ASSUME NEW h \in Fields, ~TooLarge(h)
  PROVE  EncodeField(h) \in Seq(Octets) /\ IsField(EncodeField(h), h)
<1>1. h.name \in Seq(Octets) /\ h.value \in Seq(Octets) /\ Len(h.value) <= MaxString
  <2>1. Len(h.value) \in Nat /\ MaxString \in Int
    BY Constants DEF Fields, MaxString
  <2> QED
    BY <2>1 DEF TooLarge, Fields
<1>2. PICK v \in Seq(Octets) : v = PutString(h.value) /\ Len(v) = Len(h.value) + 2 /\ StringIn(v, 1, h.value)
  BY <1>1, PutStringIn, Zenon
<1>3. PICK name \in Seq(Octets) : name = Normal(h.name)
  BY <1>1, NormalType
<1>4. CASE Indices(name) # {}
  <2>1. PICK k \in Indices(name) : k = CHOOSE i \in Indices(name) : TRUE
    BY <1>4
  <2>2. k \in 1..Len(Table) /\ Table[k] = name
    BY DEF Indices
  <2>3. k \in Octets
    BY <2>2, Constants DEF Octets
  <2>4. PICK t \in Seq(Octets) : t = <<k>> /\ Len(t) = 1 /\ t[1] = k
    <3>1. <<k>> \in Seq(Octets) /\ Len(<<k>>) = 1 /\ <<k>>[1] = k
      BY <2>3
    <3> QED
      BY <3>1, Zenon
  <2>5. EncodeField(h) = t \o v
    BY <1>2, <1>3, <1>4, <2>1, <2>4, Zenon DEF EncodeField
  <2>6. PICK x \in Seq(Octets) : x = t \o v /\ Len(x) = Len(t) + Len(v)
    BY JoinType, Zenon
  <2>7. StandsIn(v, x, Len(t))
    BY <2>6, StandsSecond, Zenon
  <2>8. StringIn(x, Len(t) + 1, h.value)
    BY <1>1, <1>2, <2>4, <2>7, StringStands
  <2>9. x[1] = k
    <3>1. 1 \in 1..Len(t)
      BY <2>4
    <3> QED
      BY <2>4, <2>6, <3>1, JoinFirst, Zenon
  <2>10. Len(t) + 1 = 2 /\ Len(x) = 3 + Len(h.value)
    BY <1>1, <1>2, <2>4, <2>6
  <2> QED
    BY <1>3, <2>2, <2>5, <2>6, <2>8, <2>9, <2>10 DEF IsField
<1>5. CASE Indices(name) = {}
  <2>1. Len(name) <= MaxString
    <3>1. Len(name) \in Nat /\ MaxString \in Int
      BY Constants DEF MaxString
    <3> QED
      BY <1>3, <1>5, <3>1 DEF TooLarge
  <2>2. PICK w \in Seq(Octets) : w = PutString(name) /\ Len(w) = Len(name) + 2 /\ StringIn(w, 1, name)
    BY <2>1, PutStringIn, Zenon
  <2>3. PICK t \in Seq(Octets) : t = <<0>> /\ Len(t) = 1 /\ t[1] = 0
    <3>1. 0 \in Octets
      BY Constants DEF Octets
    <3>2. <<0>> \in Seq(Octets) /\ Len(<<0>>) = 1 /\ <<0>>[1] = 0
      BY <3>1
    <3> QED
      BY <3>2, Zenon
  <2>4. PICK u \in Seq(Octets) : u = t \o w /\ Len(u) = Len(t) + Len(w)
    BY JoinType, Zenon
  <2>5. EncodeField(h) = u \o v
    BY <1>2, <1>3, <1>5, <2>2, <2>3, <2>4, Zenon DEF EncodeField
  <2>6. PICK x \in Seq(Octets) : x = u \o v /\ Len(x) = Len(u) + Len(v)
    BY JoinType, Zenon
  <2>7. StandsIn(w, u, Len(t)) /\ StandsIn(u, x, 0) /\ StandsIn(v, x, Len(u))
    BY <2>4, <2>6, StandsFirst, StandsSecond, Zenon
  <2>8. StringIn(u, Len(t) + 1, name)
    BY <1>1, <2>2, <2>3, <2>7, StringStands
  <2>9. StringIn(x, 0 + (Len(t) + 1), name)
    <3>1. Len(t) + 1 \in Nat /\ Len(t) + 1 >= 1 /\ 0 \in Nat
      BY <2>3
    <3> QED
      BY <2>7, <2>8, <3>1, StringStands
  <2>10. StringIn(x, Len(u) + 1, h.value)
    BY <1>1, <1>2, <2>7, StringStands
  <2>11. x[1] = 0
    <3>1. 1 \in 1..Len(t) /\ 1 \in 1..Len(u)
      BY <2>2, <2>3, <2>4
    <3>2. u[1] = t[1]
      BY <2>4, <3>1, JoinFirst, Zenon
    <3>3. x[1] = u[1]
      BY <2>6, <3>1, JoinFirst, Zenon
    <3> QED
      BY <2>3, <3>2, <3>3
  <2>12. 0 + (Len(t) + 1) = 2 /\ Len(u) + 1 = 4 + Len(name) /\ Len(x) = 5 + Len(name) + Len(h.value)
    <3>1. Len(name) \in Nat /\ Len(h.value) \in Nat
      BY <1>1
    <3>2. Len(w) = Len(name) + 2 /\ Len(v) = Len(h.value) + 2 /\ Len(t) = 1
      BY <1>2, <2>2, <2>3
    <3>3. Len(u) = Len(t) + Len(w) /\ Len(x) = Len(u) + Len(v)
      BY <2>4, <2>6
    <3>4. Len(u) = Len(name) + 3
      BY <3>1, <3>2, <3>3
    <3>5. Len(x) = Len(name) + 3 + (Len(h.value) + 2)
      BY <3>2, <3>3, <3>4
    <3>6. 0 + (Len(t) + 1) = 2
      BY <3>2
    <3>7. Len(u) + 1 = 4 + Len(name)
      BY <3>1, <3>4
    <3>8. Len(x) = 5 + Len(name) + Len(h.value)
      <4>1. PICK n \in Nat, m \in Nat : n = Len(name) /\ m = Len(h.value)
        BY <3>1
      <4>2. n + 3 + (m + 2) = 5 + n + m
        OBVIOUS
      <4> QED
        BY <3>5, <4>1, <4>2, Zenon
    <3> QED
      BY <3>6, <3>7, <3>8, Zenon
  <2> QED
    BY <1>3, <2>5, <2>6, <2>9, <2>10, <2>11, <2>12 DEF IsField
<1> QED
  BY <1>4, <1>5

-----------------------------------------------------------------------------
(* Blocks                                                                  *)

Small(hb) == hb \in Seq(Fields) /\ \A i \in 1..Len(hb) : ~TooLarge(hb[i])
Encoded(hb) == [i \in 1..Len(hb) |-> EncodeField(hb[i])]
Prefix(hb, n) == SubSeq(hb, 1, n)

LEMMA EncodedType ==
  ASSUME NEW hb, Small(hb)
  PROVE  /\ Encoded(hb) \in Seq(Seq(Octets)) /\ Len(Encoded(hb)) = Len(hb)
         /\ \A i \in 1..Len(hb) : Encoded(hb)[i] = EncodeField(hb[i])
         /\ Encode(hb) = FlattenSeq(Encoded(hb)) /\ Encode(hb) \in Seq(Octets)
<1>1. hb \in Seq(Fields) /\ Len(hb) \in Nat
  BY DEF Small
<1>2. \A i \in 1..Len(hb) : EncodeField(hb[i]) \in Seq(Octets)
  <2> TAKE i \in 1..Len(hb)
  <2>1. hb[i] \in Fields /\ ~TooLarge(hb[i])
    BY <1>1 DEF Small
  <2> QED
    BY <2>1, EncodeFieldFacts
<1>3. /\ Encoded(hb) \in Seq(Seq(Octets)) /\ Len(Encoded(hb)) = Len(hb)
      /\ \A i \in 1..Len(hb) : Encoded(hb)[i] = EncodeField(hb[i])
  BY <1>1, <1>2 DEF Encoded
<1>4. Encode(hb) = FlattenSeq(Encoded(hb))
  BY DEF Encode, Encoded
<1> QED
  BY <1>3, <1>4, FlattenType

LEMMA PrefixFacts ==
  ASSUME NEW hb, Small(hb), NEW n \in 0..Len(hb)
  PROVE  /\ Small(Prefix(hb, n)) /\ Len(Prefix(hb, n)) = n
         /\ \A i \in 1..n : Prefix(hb, n)[i] = hb[i]
<1>1. hb \in Seq(Fields) /\ Len(hb) \in Nat /\ n \in Nat /\ n <= Len(hb)
  BY DEF Small
<1>2. \A i \in 1..n : hb[i] \in Fields /\ ~TooLarge(hb[i])
  BY <1>1 DEF Small
<1>3. PICK t : t = SubSeq(hb, 1, n)
  OBVIOUS
<1>4. t \in Seq(Fields) /\ Len(t) = n /\ \A i \in 1..n : t[i] = hb[i]
  BY <1>1, <1>2, <1>3
<1> QED
  BY <1>2, <1>3, <1>4 DEF Small, Prefix

LEMMA EncodeStep ==
  ASSUME NEW hb, Small(hb), NEW n \in 0..(Len(hb) - 1)
  PROVE  Encode(Prefix(hb, n + 1)) = Encode(Prefix(hb, n)) \o EncodeField(hb[n + 1])
<1>1. Len(hb) \in Nat /\ n \in 0..Len(hb) /\ n + 1 \in 0..Len(hb) /\ n + 1 \in 1..(n + 1) /\ n \in Nat
  BY DEF Small
<1>2. PICK a : a = Prefix(hb, n) /\ Small(a) /\ Len(a) = n /\ \A i \in 1..n : a[i] = hb[i]
  BY <1>1, PrefixFacts
<1>3. PICK b : b = Prefix(hb, n + 1) /\ Small(b) /\ Len(b) = n + 1 /\ \A i \in 1..(n + 1) : b[i] = hb[i]
  BY <1>1, PrefixFacts
<1>4. PICK s \in Seq(Seq(Octets)) : /\ s = Encoded(a) /\ Len(s) = n
                                    /\ \A i \in 1..n : s[i] = EncodeField(hb[i])
  <2>1. /\ Encoded(a) \in Seq(Seq(Octets)) /\ Len(Encoded(a)) = n
        /\ \A i \in 1..n : Encoded(a)[i] = EncodeField(a[i])
    BY <1>2, EncodedType
  <2>2. \A i \in 1..n : Encoded(a)[i] = EncodeField(hb[i])
    BY <1>2, <2>1
  <2> QED
    BY <2>1, <2>2, Zenon
<1>5. PICK t \in Seq(Seq(Octets)) : /\ t = Encoded(b) /\ Len(t) = n + 1
                                    /\ \A i \in 1..(n + 1) : t[i] = EncodeField(hb[i])
  <2>1. /\ Encoded(b) \in Seq(Seq(Octets)) /\ Len(Encoded(b)) = n + 1
        /\ \A i \in 1..(n + 1) : Encoded(b)[i] = EncodeField(b[i])
    BY <1>3, EncodedType
  <2>2. \A i \in 1..(n + 1) : Encoded(b)[i] = EncodeField(hb[i])
    BY <1>3, <2>1
  <2> QED
    BY <2>1, <2>2, Zenon
<1>6. PICK x \in Seq(Octets) : x = EncodeField(hb[n + 1])
  BY <1>1, <1>5
<1>7. t = Append(s, x)
  <2>1. /\ Append(s, x) \in Seq(Seq(Octets)) /\ Len(Append(s, x)) = n + 1
        /\ Append(s, x)[n + 1] = x /\ \A i \in 1..n : Append(s, x)[i] = s[i]
    BY <1>4, AppendProperties
  <2>2. ASSUME NEW i \in 1..(n + 1) PROVE t[i] = Append(s, x)[i]
    <3>1. i \in 1..n \/ i = n + 1
      BY <1>1
    <3> QED
      BY <1>4, <1>5, <1>6, <2>1, <3>1
  <2> QED
    BY <1>5, <2>1, <2>2, SeqEqual
<1>8. FlattenSeq(t) = FlattenSeq(s) \o x
  BY <1>7, FlattenAppend
<1>9. Encode(a) = FlattenSeq(s) /\ Encode(b) = FlattenSeq(t)
  BY <1>2, <1>3, <1>4, <1>5, EncodedType
<1> QED
  BY <1>2, <1>3, <1>6, <1>8, <1>9, Zenon

LEMMA EncodeNothing ==
  ASSUME NEW hb, Small(hb)
  PROVE  Encode(Prefix(hb, 0)) = <<>> /\ Encode(Prefix(hb, Len(hb))) = Encode(hb)
<1>1. hb \in Seq(Fields) /\ Len(hb) \in Nat /\ 0 \in 0..Len(hb)
  BY DEF Small
<1>2. PICK a : a = Prefix(hb, 0) /\ Small(a) /\ Len(a) = 0
  BY <1>1, PrefixFacts
<1>3. PICK s \in Seq(Seq(Octets)) : s = Encoded(a) /\ Len(s) = 0 /\ Encode(a) = FlattenSeq(s)
  BY <1>2, EncodedType
<1>4. FlattenSeq(s) = s /\ s = <<>>
  BY <1>3, FlattenEmpty
<1>5. Prefix(hb, Len(hb)) = hb
  BY <1>1 DEF Prefix
<1> QED
  BY <1>2, <1>3, <1>4, <1>5

\* The octets of a field stand in the encoded block behind those of the fields
\* before it.
LEMMA FieldStands ==
  ASSUME NEW hb, Small(hb), NEW n \in 0..(Len(hb) - 1)
  PROVE  StandsIn(EncodeField(hb[n + 1]), Encode(hb), Len(Encode(Prefix(hb, n))))
<1>1. hb \in Seq(Fields) /\ Len(hb) \in Nat /\ n \in Nat /\ n + 1 \in 1..Len(hb) /\ n \in 0..Len(hb) /\ n + 1 <= Len(hb)
  BY DEF Small
<1> DEFINE e(k) == Encode(Prefix(hb, k))
<1>2. \A k \in 0..Len(hb) : e(k) \in Seq(Octets)
  BY PrefixFacts, EncodedType
<1>3. PICK x \in Seq(Octets) : x = EncodeField(hb[n + 1])
  <2>1. hb[n + 1] \in Fields /\ ~TooLarge(hb[n + 1])
    BY <1>1 DEF Small
  <2> QED
    BY <2>1, EncodeFieldFacts
<1>4. \A k \in 0..(Len(hb) - 1) : e(k + 1) = e(k) \o EncodeField(hb[k + 1]) /\ EncodeField(hb[k + 1]) \in Seq(Octets)
  <2> TAKE k \in 0..(Len(hb) - 1)
  <2>1. hb[k + 1] \in Fields /\ ~TooLarge(hb[k + 1])
    BY <1>1 DEF Small
  <2> QED
    BY <2>1, EncodeFieldFacts, EncodeStep
<1>5. e(Len(hb)) = Encode(hb)
  BY EncodeNothing
<1>6. PICK p \in Seq(Octets) : p = e(n)
  BY <1>1, <1>2
<1> HIDE DEF e
<1> DEFINE N == Len(hb) - (n + 1)
           S == {m \in 0..N : StandsIn(x, e(n + 1 + m), Len(p))}
<1>7. N \in Nat
  BY <1>1
<1>8. 0 \in S
  <2>1. n + 1 + 0 = n + 1 /\ n \in 0..(Len(hb) - 1)
    BY <1>1
  <2>2. e(n + 1) = p \o x
    BY <1>3, <1>4, <1>6
  <2>3. StandsIn(x, p \o x, Len(p))
    BY StandsSecond, Zenon
  <2> QED
    <3>1. StandsIn(x, e(n + 1 + 0), Len(p))
      BY <2>1, <2>2, <2>3, Zenon
    <3> QED
      BY <1>7, <3>1
<1>9. ASSUME NEW m \in 0..(N - 1), m \in S
      PROVE  m + 1 \in S
  <2>1. PICK k \in 0..(Len(hb) - 1) : k = n + 1 + m /\ k + 1 = n + 1 + (m + 1)
    BY <1>1
  <2>2. PICK y \in Seq(Octets) : y = e(k)
    BY <1>1, <1>2
  <2>3. PICK z \in Seq(Octets) : e(k + 1) = y \o z
    BY <1>4, <2>2
  <2>4. StandsIn(x, y, Len(p))
    BY <1>9, <2>1, <2>2
  <2>5. StandsIn(x, y \o z, Len(p))
    <3>1. Len(p) \in Nat /\ Len(x) \in Nat /\ Len(y) \in Nat /\ Len(z) \in Nat
      OBVIOUS
    <3>2. Len(y \o z) = Len(y) + Len(z)
      BY JoinType
    <3>3. Len(p) + Len(x) <= Len(y)
      BY <2>4 DEF StandsIn
    <3>4. ASSUME NEW i \in 1..Len(x) PROVE (y \o z)[Len(p) + i] = x[i]
      <4>1. Len(p) + i \in 1..Len(y)
        BY <3>1, <3>3
      <4>2. (y \o z)[Len(p) + i] = y[Len(p) + i]
        BY <4>1, JoinFirst, Zenon
      <4> QED
        BY <2>4, <4>2 DEF StandsIn
    <3>5. Len(p) + Len(x) <= Len(y \o z)
      BY <3>1, <3>2, <3>3
    <3> QED
      BY <3>4, <3>5 DEF StandsIn
  <2>6. m + 1 \in 0..N
    BY <1>7
  <2> QED
    BY <2>1, <2>3, <2>5, <2>6
<1> HIDE DEF S
<1>10. N \in S
  <2>1. \A m \in 0..(N - 1) : m \in S => m + 1 \in S
    BY <1>9
  <2> HIDE DEF N
  <2>2. 0..N \subseteq S
    BY <1>7, <1>8, <2>1, Induction
  <2> QED
    BY <1>7, <2>2
<1>11. n + 1 + N = Len(hb)
  BY <1>1
<1> HIDE DEF N
<1>12. StandsIn(x, e(Len(hb)), Len(p))
  BY <1>10, <1>11 DEF S
<1> QED
  BY <1>3, <1>5, <1>6, <1>12 DEF e

-----------------------------------------------------------------------------
(* The decoder                                                             *)

Source == block = <<>> \/ (Small(block) /\ payload = Encode(block))
Decoding == Typed /\ Parsed /\ Source

LEMMA Starts == Init => Decoding
<1> SUFFICES ASSUME Init PROVE Decoding
  OBVIOUS
<1>1. pos = 1 /\ entries = <<>> /\ result = "none" /\ Len(entries) = 0
  BY DEF Init
<1>2. payload \in Seq(Octets) /\ Source
  <2>1. CASE block \in {hb \in Blocks : \A i \in 1..Len(hb) : ~TooLarge(hb[i])} /\ payload = Encode(block)
    <3>1. Small(block)
      BY <2>1, Constants DEF Small
    <3> QED
      BY <2>1, <3>1, EncodedType DEF Source
  <2>2. CASE block = <<>> /\ payload \in Payloads
    BY <2>2, Constants DEF Source
  <2> QED
    BY <2>1, <2>2 DEF Init
<1>3. Typed
  BY <1>1, <1>2 DEF Typed
<1>4. Parsed
  <2>1. entries \in Seq(Entry)
    BY <1>1
  <2>2. Begins(Len(entries) + 1) = 1
    BY <1>1 DEF Begins
  <2> QED
    BY <1>1, <2>1, <2>2 DEF Parsed
<1> QED
  BY <1>2, <1>3, <1>4 DEF Decoding

LEMMA IndexedKeeps ==
  ASSUME Decoding, Indexed
  PROVE  Typed' /\ Parsed'
<1>1. /\ result = "none" /\ pos <= Len(payload) /\ UNCHANGED <<block, payload>>
      /\ payload[pos] \in 1..Len(Table) /\ payload \in Seq(Octets) /\ pos \in Nat /\ pos >= 1
  BY DEF Decoding, Typed, Indexed, Running
<1>2. CASE HasString(pos + 1) /\ Take(Table[payload[pos]], pos + 1)
  <2>1. /\ StringEnd(pos + 1) \in Nat /\ StringEnd(pos + 1) >= pos + 2 /\ StringEnd(pos + 1) <= Len(payload)
        /\ StringAt(pos + 1) \in Seq(Octets)
    <3>1. pos + 1 \in Nat /\ pos + 1 >= 1 /\ (pos + 1) + 1 = pos + 2
      BY <1>1
    <3> QED
      BY <1>1, <1>2, <3>1, StringFacts
  <2>2. Table[payload[pos]] \in Seq(Octets)
    BY <1>1, Constants
  <2>3. PICK name \in Seq(Octets) : name = Table[payload[pos]]
    BY <2>2
  <2>4. PICK e : e = [from |-> pos, to |-> StringEnd(pos + 1), name |-> name, value |-> StringAt(pos + 1)]
    OBVIOUS
  <2>5. IsIndexedEntry(e)
    BY <1>1, <1>2, <2>3, <2>4 DEF IsIndexedEntry
  <2>6. e \in Entry /\ e.from >= 1 /\ e.to <= Len(payload) /\ e.to > e.from + 1
    BY <1>1, <2>1, <2>4 DEF Entry
  <2>7. IsEntry(e)
    BY <2>5, <2>6 DEF IsEntry
  <2> QED
    BY <1>1, <1>2, <2>3, <2>4, <2>7, TakeKeeps DEF Decoding
<1>3. CASE Stop("ErrMalformedHeader")
  BY <1>1, <1>3, SMTT(30) DEF Stop, Decoding, Typed, Parsed, IsEntry, IsIndexedEntry, IsLiteralEntry,
                    HasString, StringEnd, StringAt, Begins
<1> QED
  BY <1>2, <1>3 DEF Indexed

LEMMA LiteralKeeps ==
  ASSUME Decoding, Literal
  PROVE  Typed' /\ Parsed'
<1>1. /\ result = "none" /\ pos <= Len(payload) /\ UNCHANGED <<block, payload>>
      /\ payload[pos] = 0 /\ payload \in Seq(Octets) /\ pos \in Nat /\ pos >= 1
  BY DEF Decoding, Typed, Literal, Running
<1>2. CASE HasString(pos + 1) /\ HasString(StringEnd(pos + 1) + 1)
           /\ Take(StringAt(pos + 1), StringEnd(pos + 1) + 1)
  <2>1. PICK q \in Nat : q = StringEnd(pos + 1) + 1 /\ q >= pos + 3
    <3>1. pos + 1 \in Nat /\ pos + 1 >= 1 /\ (pos + 1) + 1 = pos + 2
      BY <1>1
    <3>2. StringEnd(pos + 1) \in Nat /\ StringEnd(pos + 1) >= (pos + 1) + 1
      BY <1>1, <1>2, <3>1, StringFacts
    <3> QED
      BY <1>1, <3>2
  <2>2. PICK name \in Seq(Octets) : name = StringAt(pos + 1)
    <3>1. pos + 1 \in Nat /\ pos + 1 >= 1
      BY <1>1
    <3> QED
      BY <1>1, <1>2, <3>1, StringFacts
  <2>3. /\ StringEnd(q) \in Nat /\ StringEnd(q) >= q + 1 /\ StringEnd(q) <= Len(payload)
        /\ StringAt(q) \in Seq(Octets) /\ HasString(q)
    <3>1. q >= 1 /\ HasString(q)
      BY <1>1, <1>2, <2>1
    <3> QED
      BY <1>1, <3>1, StringFacts
  <2>4. PICK e : e = [from |-> pos, to |-> StringEnd(q), name |-> name, value |-> StringAt(q)]
    OBVIOUS
  <2>5. IsLiteralEntry(e)
    BY <1>1, <1>2, <2>1, <2>2, <2>3, <2>4 DEF IsLiteralEntry
  <2>6. e \in Entry /\ e.from >= 1 /\ e.to <= Len(payload) /\ e.to > e.from + 1
    BY <1>1, <2>1, <2>3, <2>4 DEF Entry
  <2>7. IsEntry(e)
    BY <2>5, <2>6 DEF IsEntry
  <2>8. Take(name, q)
    BY <1>2, <2>1, <2>2
  <2> QED
    BY <1>1, <2>4, <2>7, <2>8, TakeKeeps DEF Decoding
<1>3. CASE Stop("ErrMalformedHeader")
  BY <1>1, <1>3, SMTT(30) DEF Stop, Decoding, Typed, Parsed, IsEntry, IsIndexedEntry, IsLiteralEntry,
                    HasString, StringEnd, StringAt, Begins
<1> QED
  BY <1>2, <1>3 DEF Literal

LEMMA DecodingGoesOn ==
  ASSUME Decoding, [Next]_vars
  PROVE  Decoding'
<1>1. UNCHANGED <<block, payload>>
  BY DEF Next, Indexed, Literal, UnknownIndex, Finish, Terminated, Running, vars
<1>2. Source'
  <2>1. Source
    BY DEF Decoding
  <2> QED
    BY <1>1, <2>1 DEF Source
<1>3. CASE Indexed
  BY <1>2, <1>3, IndexedKeeps DEF Decoding
<1>4. CASE Literal
  BY <1>2, <1>4, LiteralKeeps DEF Decoding
<1>5. CASE UnknownIndex \/ Finish
  <2>1. /\ UNCHANGED <<pos, entries>> /\ result' \in {"ok", "ErrInvalidIndex"}
        /\ result' = "ok" => pos > Len(payload)
    BY <1>5 DEF UnknownIndex, Finish, Stop
  <2>2. Typed'
    BY <1>1, <2>1 DEF Decoding, Typed
  <2>3. result' = "ok" => pos = Len(payload) + 1
    BY <2>1 DEF Decoding, Typed
  <2>4. Parsed'
    BY <1>1, <2>1, <2>3, SMTT(30) DEF Decoding, Parsed, IsEntry, IsIndexedEntry, IsLiteralEntry,
                            HasString, StringEnd, StringAt, Begins
  <2> QED
    BY <1>2, <2>2, <2>4 DEF Decoding
<1>6. CASE UNCHANGED vars
  <2>1. UNCHANGED <<pos, entries, result>>
    BY <1>6 DEF vars
  <2>2. Typed'
    BY <1>1, <2>1 DEF Decoding, Typed
  <2>4. Parsed'
    BY <1>1, <2>1, SMTT(30) DEF Decoding, Parsed, IsEntry, IsIndexedEntry, IsLiteralEntry,
                      HasString, StringEnd, StringAt, Begins
  <2> QED
    BY <1>2, <2>2, <2>4 DEF Decoding
<1> QED
  BY <1>3, <1>4, <1>5, <1>6 DEF Next, Terminated

LEMMA AlwaysDecoding == Spec => []Decoding
<1>1. Init => Decoding
  BY Starts
<1>2. Decoding /\ [Next]_vars => Decoding'
  BY DecodingGoesOn
<1> QED
  BY <1>1, <1>2, PTL DEF Spec

\* TypeOK of BhttpHeaders: the decoder stays within the payload, whatever it
\* holds.
THEOREM DecoderTypes == Spec => []TypeOK
<1>1. Decoding => TypeOK
  <2> SUFFICES ASSUME Decoding PROVE TypeOK
    OBVIOUS
  <2>1. ASSUME NEW i \in 1..Len(entries)
        PROVE  entries[i].from \in 1..Len(payload) /\ entries[i].to \in 1..Len(payload)
    <3>1. PICK e \in Entry : e = entries[i] /\ e.from >= 1 /\ e.to <= Len(payload) /\ e.to > e.from + 1
      BY DEF Decoding, Parsed, IsEntry
    <3>2. e.from \in Nat /\ e.to \in Nat /\ Len(payload) \in Nat
      BY DEF Entry, Decoding, Typed
    <3> QED
      BY <3>1, <3>2
  <2> QED
    BY <2>1 DEF Decoding, Typed, TypeOK
<1> QED
  BY <1>1, AlwaysDecoding, PTL

\* EntriesPartition of BhttpHeaders: the WireBytes of the entries follow one
\* another without gaps and reach the end of a payload that decodes.
THEOREM EntriesArePartition == Spec => []EntriesPartition
<1>1. Decoding => EntriesPartition
  <2> SUFFICES ASSUME Decoding PROVE EntriesPartition
    OBVIOUS
  <2>1. entries \in Seq(Entry) /\ Len(entries) \in Nat
    BY DEF Decoding, Parsed
  <2>2. ASSUME NEW i \in 1..Len(entries)
        PROVE  /\ entries[i].from = (IF i = 1 THEN 1 ELSE entries[i - 1].to + 1)
               /\ entries[i].to > entries[i].from + 1
    BY DEF Decoding, Parsed, IsEntry, Begins
  <2>3. pos = (IF entries = <<>> THEN 1 ELSE entries[Len(entries)].to + 1)
    <3>1. entries = <<>> <=> Len(entries) + 1 = 1
      BY <2>1
    <3>2. (Len(entries) + 1) - 1 = Len(entries)
      BY <2>1
    <3> QED
      BY <3>1, <3>2 DEF Decoding, Parsed, Begins
  <2> QED
    BY <2>2, <2>3 DEF Decoding, Parsed, EntriesPartition
<1> QED
  BY <1>1, AlwaysDecoding, PTL

-----------------------------------------------------------------------------
(* The round trip                                                          *)

\* The field the decoder has before it, and what it has of the block.
Ahead(n) ==
  /\ n \in 0..(Len(block) - 1) /\ block[n + 1] \in Fields
  /\ EncodeField(block[n + 1]) \in Seq(Octets) /\ IsField(EncodeField(block[n + 1]), block[n + 1])
  /\ StandsIn(EncodeField(block[n + 1]), payload, pos - 1)
Matches ==
  block # <<>> =>
    /\ Len(entries) <= Len(block)
    /\ \A i \in 1..Len(entries) :
         entries[i].name = Normal(block[i].name) /\ entries[i].value = block[i].value
    /\ pos = Len(Encode(Prefix(block, Len(entries)))) + 1
    /\ result \in {"none", "ok"}

LEMMA FieldIsAhead ==
  ASSUME Decoding, Matches, block # <<>>, Len(entries) # Len(block)
  PROVE  Ahead(Len(entries)) /\ pos <= Len(payload)
<1>1. PICK n \in Nat : n = Len(entries)
  BY DEF Decoding, Parsed
<1>2. Small(block) /\ payload = Encode(block) /\ block \in Seq(Fields) /\ Len(block) \in Nat
  BY DEF Decoding, Source, Small
<1>3. n \in 0..(Len(block) - 1) /\ n + 1 \in 1..Len(block)
  BY <1>1, <1>2 DEF Matches
<1>4. block[n + 1] \in Fields /\ ~TooLarge(block[n + 1])
  BY <1>2, <1>3 DEF Small
<1>5. PICK h \in Fields : h = block[n + 1] /\ ~TooLarge(h)
  BY <1>4
<1>6. PICK x \in Seq(Octets) : x = EncodeField(h) /\ IsField(x, h)
  BY <1>5, EncodeFieldFacts
<1>7. PICK m : m = Len(Encode(Prefix(block, n)))
  OBVIOUS
<1>8. pos - 1 = m
  <2>1. pos = m + 1 /\ pos \in Nat
    BY <1>1, <1>7 DEF Matches, Decoding, Typed
  <2>2. m \in Nat
    <3>1. n \in 0..Len(block)
      BY <1>2, <1>3
    <3>2. Small(Prefix(block, n))
      BY <1>2, <3>1, PrefixFacts
    <3> QED
      BY <1>7, <3>2, EncodedType
  <2> QED
    BY <2>1, <2>2
<1>9. StandsIn(x, payload, pos - 1)
  BY <1>2, <1>3, <1>5, <1>6, <1>7, <1>8, FieldStands
<1>10. Len(x) >= 1
  <2>1. h.value \in Seq(Octets) /\ Normal(h.name) \in Seq(Octets)
    BY NormalType DEF Fields
  <2>2. Len(h.value) \in Nat /\ Len(Normal(h.name)) \in Nat
    BY <2>1
  <2>3. Len(x) = 3 + Len(h.value) \/ Len(x) = 5 + Len(Normal(h.name)) + Len(h.value)
    BY <1>6 DEF IsField
  <2>4. PICK k \in Nat, m2 \in Nat : k = Len(h.value) /\ m2 = Len(Normal(h.name))
    BY <2>2
  <2>5. Len(x) = 3 + k \/ Len(x) = 5 + m2 + k
    BY <2>3, <2>4, Zenon
  <2> QED
    BY <2>5
<1>11. pos <= Len(payload)
  <2>1. pos - 1 + Len(x) <= Len(payload) /\ pos \in Nat /\ Len(payload) \in Nat /\ Len(x) \in Nat
    BY <1>9 DEF StandsIn, Decoding, Typed
  <2> QED
    BY <1>10, <2>1
<1>12. Ahead(n)
  BY <1>3, <1>5, <1>6, <1>9 DEF Ahead
<1> QED
  BY <1>1, <1>11, <1>12

\* The next field is the one that was encoded.
LEMMA FieldIsTaken ==
  ASSUME Decoding, NEW n, Ahead(n), result = "none",
         Indexed \/ Literal \/ UnknownIndex
  PROVE  /\ \E e : /\ entries' = Append(entries, e)
                   /\ e.name = Normal(block[n + 1].name) /\ e.value = block[n + 1].value
         /\ pos' = pos + Len(EncodeField(block[n + 1])) /\ result' = "none"
<1>1. PICK h \in Fields, x \in Seq(Octets) :
        h = block[n + 1] /\ x = EncodeField(h) /\ IsField(x, h) /\ StandsIn(x, payload, pos - 1)
  BY Zenon DEF Ahead
<1>2. PICK v \in Seq(Octets), name \in Seq(Octets) : v = h.value /\ name = Normal(h.name)
  <2>1. h.value \in Seq(Octets) /\ Normal(h.name) \in Seq(Octets)
    BY NormalType DEF Fields
  <2> QED
    BY <2>1, Zenon
<1>3. /\ payload \in Seq(Octets) /\ pos \in Nat /\ pos >= 1 /\ pos - 1 \in Nat
      /\ Len(v) \in Nat /\ Len(name) \in Nat /\ Len(x) \in Nat
  BY DEF Decoding, Typed
<1>4. \/ /\ \E i \in 1..Len(Table) : Table[i] = name /\ x[1] = i
         /\ Len(x) = 3 + Len(v) /\ StringIn(x, 2, v)
      \/ /\ x[1] = 0 /\ Len(x) = 5 + Len(name) + Len(v)
         /\ StringIn(x, 2, name) /\ StringIn(x, 4 + Len(name), v)
  BY <1>1, <1>2, Zenon DEF IsField
<1>5. payload[pos] = x[1]
  <2>1. 1 \in 1..Len(x) /\ (pos - 1) + 1 = pos
    BY <1>3, <1>4
  <2> QED
    BY <1>1, <2>1 DEF StandsIn
<1>6. CASE /\ \E i \in 1..Len(Table) : Table[i] = name /\ x[1] = i
           /\ Len(x) = 3 + Len(v) /\ StringIn(x, 2, v)
  <2>1. PICK i \in 1..Len(Table) : Table[i] = name /\ payload[pos] = i /\ i # 0 /\ ~(i > Len(Table))
    BY <1>5, <1>6, Constants
  <2>2. ~Literal /\ ~UnknownIndex
    BY <2>1 DEF Literal, UnknownIndex
  <2>3. StringIn(payload, pos + 1, v)
    <3>1. (pos - 1) + 2 = pos + 1 /\ 2 \in Nat /\ 2 >= 1
      BY <1>3
    <3>2. StringIn(payload, (pos - 1) + 2, v)
      BY <1>1, <1>3, <1>6, <3>1, StringStands
    <3> QED
      BY <3>1, <3>2
  <2>4. HasString(pos + 1) /\ StringEnd(pos + 1) = pos + 1 + 1 + Len(v) /\ StringAt(pos + 1) = v
    BY <1>3, <2>3, StringIsRead
  <2>5. Take(name, pos + 1)
    BY <2>1, <2>2, <2>4 DEF Indexed
  <2>6. PICK e : /\ e = [from |-> pos, to |-> StringEnd(pos + 1), name |-> name, value |-> StringAt(pos + 1)]
                 /\ entries' = Append(entries, e)
    BY <2>5 DEF Take
  <2>7. e.name = name /\ e.value = v
    BY <2>4, <2>6
  <2>8. pos' = pos + Len(x) /\ result' = "none"
    BY <1>3, <1>6, <2>4, <2>5 DEF Take
  <2> QED
    BY <1>1, <1>2, <2>6, <2>7, <2>8, Zenon
<1>7. CASE /\ x[1] = 0 /\ Len(x) = 5 + Len(name) + Len(v)
           /\ StringIn(x, 2, name) /\ StringIn(x, 4 + Len(name), v)
  <2>1. payload[pos] = 0
    BY <1>5, <1>7
  <2>2. ~Indexed /\ ~UnknownIndex
    BY <2>1, Constants DEF Indexed, UnknownIndex
  <2>3. StringIn(payload, pos + 1, name)
    <3>1. (pos - 1) + 2 = pos + 1 /\ 2 \in Nat /\ 2 >= 1
      BY <1>3
    <3>2. StringIn(payload, (pos - 1) + 2, name)
      BY <1>1, <1>3, <1>7, <3>1, StringStands
    <3> QED
      BY <3>1, <3>2
  <2>4. HasString(pos + 1) /\ StringEnd(pos + 1) = pos + 1 + 1 + Len(name) /\ StringAt(pos + 1) = name
    BY <1>3, <2>3, StringIsRead
  <2>5. PICK q \in Nat : q = StringEnd(pos + 1) + 1 /\ q = (pos - 1) + (4 + Len(name)) /\ q >= 1
    BY <1>3, <2>4
  <2>6. StringIn(payload, q, v)
    <3>1. PICK k \in Nat : k = 4 + Len(name) /\ k >= 1
      BY <1>3
    <3>2. StringIn(x, k, v)
      BY <1>7, <3>1
    <3>3. PICK o \in Nat : o = pos - 1 /\ StandsIn(x, payload, o) /\ q = o + k
      BY <1>1, <1>3, <2>5, <3>1
    <3>4. StringIn(payload, o + k, v)
      <4>1. k >= 1 /\ StandsIn(x, payload, o) /\ payload \in Seq(Octets)
        BY <1>3, <3>1, <3>3
      <4> QED
        BY <3>2, <4>1, StringStands
    <3> QED
      BY <3>3, <3>4
  <2>7. HasString(q) /\ StringEnd(q) = q + 1 + Len(v) /\ StringAt(q) = v
    BY <1>3, <2>5, <2>6, StringIsRead
  <2>8. Take(name, q)
    BY <2>2, <2>4, <2>5, <2>7 DEF Literal
  <2>9. PICK e : /\ e = [from |-> pos, to |-> StringEnd(q), name |-> name, value |-> StringAt(q)]
                 /\ entries' = Append(entries, e)
    BY <2>8 DEF Take
  <2>10. e.name = name /\ e.value = v
    BY <2>7, <2>9
  <2>11. pos' = pos + Len(x) /\ result' = "none"
    BY <1>3, <1>7, <2>5, <2>7, <2>8 DEF Take
  <2> QED
    BY <1>1, <1>2, <2>9, <2>10, <2>11, Zenon
<1> QED
  BY <1>4, <1>6, <1>7

LEMMA MatchingGoesOn ==
  ASSUME Decoding, Matches, [Next]_vars
  PROVE  Matches'
<1>1. UNCHANGED <<block, payload>>
  BY DEF Next, Indexed, Literal, UnknownIndex, Finish, Terminated, Running, vars
<1>2. CASE block = <<>>
  BY <1>1, <1>2 DEF Matches
<1>3. CASE UNCHANGED <<entries, pos>> /\ result' \in {result, "ok"}
  BY <1>1, <1>3 DEF Matches, Prefix
<1>4. CASE block # <<>> /\ result = "none" /\ (Indexed \/ Literal \/ UnknownIndex)
  <2>1. PICK n \in Nat : n = Len(entries)
    BY DEF Decoding, Parsed
  <2>2. Small(block) /\ payload = Encode(block) /\ Len(block) \in Nat
    BY <1>4 DEF Decoding, Source, Small
  <2>3. pos <= Len(payload) /\ pos \in Nat /\ Len(payload) \in Nat
    BY <1>4 DEF Indexed, Literal, UnknownIndex, Running, Decoding, Typed
  <2>4. n # Len(block)
    <3> SUFFICES ASSUME n = Len(block) PROVE FALSE
      OBVIOUS
    <3>1. Encode(Prefix(block, n)) = payload
      BY <2>2, EncodeNothing
    <3> QED
      BY <1>4, <2>1, <2>3, <3>1 DEF Matches
  <2>5. Ahead(n)
    BY <1>4, <2>1, <2>4, FieldIsAhead
  <2>6. PICK e : /\ entries' = Append(entries, e)
                 /\ e.name = Normal(block[n + 1].name) /\ e.value = block[n + 1].value
    BY <1>4, <2>5, FieldIsTaken
  <2>7. pos' = pos + Len(EncodeField(block[n + 1])) /\ result' = "none"
    BY <1>4, <2>5, FieldIsTaken
  <2>8. /\ Len(entries') = n + 1 /\ entries'[n + 1] = e
        /\ \A i \in 1..n : entries'[i] = entries[i]
    BY <2>1, <2>6 DEF Decoding, Parsed
  <2>9. n \in 0..(Len(block) - 1) /\ n + 1 <= Len(block) /\ n \in 0..Len(block)
    BY <2>1, <2>2, <2>5 DEF Ahead
  <2>10. ASSUME NEW i \in 1..(n + 1)
         PROVE  entries'[i].name = Normal(block[i].name) /\ entries'[i].value = block[i].value
    <3>1. CASE i \in 1..n
      BY <1>4, <2>1, <2>8, <3>1 DEF Matches
    <3>2. CASE i = n + 1
      BY <2>6, <2>8, <3>2
    <3> QED
      BY <3>1, <3>2
  <2>11. pos' = Len(Encode(Prefix(block, n + 1))) + 1
    <3>1. PICK p \in Seq(Octets) : p = Encode(Prefix(block, n))
      <4>1. Small(Prefix(block, n))
        BY <2>2, <2>9, PrefixFacts
      <4> QED
        BY <4>1, EncodedType
    <3>2. PICK x \in Seq(Octets) : x = EncodeField(block[n + 1])
      BY <2>5 DEF Ahead
    <3>3. Encode(Prefix(block, n + 1)) = p \o x
      BY <2>2, <2>9, <3>1, <3>2, EncodeStep
    <3>4. pos = Len(p) + 1
      BY <1>4, <2>1, <3>1 DEF Matches
    <3>5. Len(p \o x) = Len(p) + Len(x) /\ Len(p) \in Nat /\ Len(x) \in Nat
      BY JoinType
    <3>6. pos' = Len(p) + 1 + Len(x)
      BY <2>7, <3>2, <3>4
    <3> QED
      BY <3>3, <3>5, <3>6
  <2> QED
    BY <1>1, <2>7, <2>8, <2>9, <2>10, <2>11 DEF Matches, Prefix
<1>5. CASE Finish
  BY <1>3, <1>5 DEF Finish, Stop
<1>6. CASE UNCHANGED vars \/ Terminated
  BY <1>3, <1>6 DEF Terminated, vars
<1> QED
  BY <1>2, <1>4, <1>5, <1>6 DEF Next, Indexed, Literal, UnknownIndex, Running

\* RoundTrip of BhttpHeaders: every block that the encoder does not refuse
\* decodes to its fields, in order, with their names trimmed and in lower case.
THEOREM BlocksRoundTrip == Spec => []RoundTrip
<1>1. Init => Matches
  <2> SUFFICES ASSUME Init, block # <<>> PROVE Matches
    BY DEF Matches
  <2>1. Decoding /\ entries = <<>> /\ Len(entries) = 0 /\ pos = 1 /\ result = "none"
    BY Starts DEF Init
  <2>2. Small(block) /\ Len(block) \in Nat
    BY <2>1 DEF Decoding, Source, Small
  <2>3. Encode(Prefix(block, 0)) = <<>>
    BY <2>2, EncodeNothing
  <2>4. pos = Len(Encode(Prefix(block, Len(entries)))) + 1
    BY <2>1, <2>3
  <2> QED
    BY <2>1, <2>2, <2>4 DEF Matches
<1>2. Decoding /\ Matches /\ [Next]_vars => Matches'
  BY MatchingGoesOn
<1>3. Decoding /\ Matches => RoundTrip
  <2> SUFFICES ASSUME Decoding, Matches, block # <<>>, result # "none"
               PROVE  result = "ok" /\ Decoded = Received(block)
    BY DEF RoundTrip
  <2>1. result = "ok" /\ pos = Len(payload) + 1 /\ Len(payload) \in Nat
    BY DEF Matches, Decoding, Parsed, Typed
  <2>2. Len(entries) = Len(block)
    BY <2>1, FieldIsAhead
  <2>3. \A i \in 1..Len(entries) :
          entries[i].name = Normal(block[i].name) /\ entries[i].value = block[i].value
    BY DEF Matches
  <2>4. Decoded = Received(block)
    BY <2>2, <2>3, Zenon DEF Decoded, Received
  <2> QED
    BY <2>1, <2>4
<1> QED
  BY <1>1, <1>2, <1>3, AlwaysDecoding, PTL DEF Spec

-----------------------------------------------------------------------------
(* Get and Set                                                             *)

LEMMA LowerFacts ==
  ASSUME NEW o \in Octets
  PROVE  Lower[o] \in Octets /\ Lower[Lower[o]] = Lower[o] /\ (Lower[o] \in Blank <=> o \in Blank)
BY HeadersAssumption DEF Octets

LEMMA LowerTwice ==
  ASSUME NEW s \in Seq(Octets)
  PROVE  ToLower(ToLower(s)) = ToLower(s)
<1>1. PICK t \in Seq(Octets) : t = ToLower(s) /\ Len(t) = Len(s) /\ \A i \in 1..Len(s) : t[i] = Lower[s[i]]
  BY Lowered
<1>2. PICK u \in Seq(Octets) : u = ToLower(t) /\ Len(u) = Len(t) /\ \A i \in 1..Len(t) : u[i] = Lower[t[i]]
  BY Lowered
<1>3. ASSUME NEW i \in 1..Len(u) PROVE u[i] = t[i]
  <2>1. i \in 1..Len(s) /\ i \in 1..Len(t) /\ s[i] \in Octets
    BY <1>1, <1>2
  <2>2. Lower[Lower[s[i]]] = Lower[s[i]]
    BY <2>1, LowerFacts
  <2> QED
    BY <1>1, <1>2, <2>1, <2>2
<1>4. u = t
  BY <1>2, <1>3, SeqEqual
<1> QED
  BY <1>1, <1>2, <1>4, Zenon

LEMMA NormalIsLower ==
  ASSUME NEW s \in Seq(Octets)
  PROVE  Normal(s) \in Seq(Octets) /\ ToLower(Normal(s)) = Normal(s)
<1>1. TrimSpace(s) \in Seq(Octets)
  BY Trimmed
<1> QED
  BY <1>1, NormalType, LowerTwice DEF Normal

\* Names that Set takes for the same are the same for the encoder.
LEMMA SameName ==
  ASSUME NEW s \in Seq(Octets), NEW t \in Seq(Octets), ToLower(s) = ToLower(t)
  PROVE  Normal(s) = Normal(t)
<1>1. Len(s) = Len(t) /\ Len(s) \in Nat
  BY Lowered
<1>2. \A i \in 1..Len(s) : Lower[s[i]] = Lower[t[i]]
  BY <1>1, Lowered
<1>3. \A i \in 1..Len(s) : s[i] \in Blank <=> t[i] \in Blank
  <2> TAKE i \in 1..Len(s)
  <2>1. s[i] \in Octets /\ t[i] \in Octets
    BY <1>1
  <2> QED
    BY <1>2, <2>1, LowerFacts
<1>4. Kept(s) = Kept(t)
  BY <1>1, <1>3 DEF Kept
<1>5. CASE Kept(s) = {}
  BY <1>4, <1>5, Zenon DEF Normal, TrimSpace, Kept
<1>6. CASE Kept(s) # {}
  <2>1. PICK a, b : a = Min(Kept(s)) /\ b = Max(Kept(s))
    OBVIOUS
  <2>2. a \in 1..Len(s) /\ b \in 1..Len(s) /\ a <= b
    BY <1>6, <2>1, TrimFacts DEF Kept
  <2>3. TrimSpace(s) = SubSeq(s, a, b) /\ TrimSpace(t) = SubSeq(t, a, b)
    BY <1>4, <1>6, <2>1, TrimFacts
  <2>4. PICK u \in Seq(Octets) : /\ u = TrimSpace(s) /\ Len(u) = b - a + 1
                                 /\ \A i \in 1..(b - a + 1) : u[i] = s[a + i - 1]
    <3>1. \A i \in a..b : s[i] \in Octets
      BY <1>1, <2>2
    <3>2. PICK u : u = SubSeq(s, a, b)
      OBVIOUS
    <3>3. u \in Seq(Octets) /\ Len(u) = b - a + 1 /\ \A i \in 1..(b - a + 1) : u[i] = s[a + i - 1]
      BY <2>2, <3>1, <3>2
    <3> QED
      BY <2>3, <3>2, <3>3
  <2>5. PICK v \in Seq(Octets) : /\ v = TrimSpace(t) /\ Len(v) = b - a + 1
                                 /\ \A i \in 1..(b - a + 1) : v[i] = t[a + i - 1]
    <3>1. \A i \in a..b : t[i] \in Octets
      BY <1>1, <2>2
    <3>2. PICK u2 : u2 = SubSeq(t, a, b)
      OBVIOUS
    <3>3. u2 \in Seq(Octets) /\ Len(u2) = b - a + 1 /\ \A i \in 1..(b - a + 1) : u2[i] = t[a + i - 1]
      BY <1>1, <2>2, <3>1, <3>2
    <3> QED
      BY <2>3, <3>2, <3>3
  <2>6. \A i \in 1..Len(u) : Lower[u[i]] = Lower[v[i]]
    <3> TAKE i \in 1..Len(u)
    <3>1. i \in 1..(b - a + 1) /\ a + i - 1 \in 1..Len(s)
      BY <2>2, <2>4
    <3> QED
      BY <1>2, <2>4, <2>5, <3>1
  <2>7. Len(u) = Len(v)
    BY <2>4, <2>5
  <2>8. ToLower(u) = ToLower(v)
    BY <2>6, <2>7, Zenon DEF ToLower
  <2> QED
    BY <2>4, <2>5, <2>8, Zenon DEF Normal
<1> QED
  BY <1>5, <1>6

\* The fields of a block that the receiver finds under a name.
Named(hb, name) == {i \in 1..Len(hb) : Normal(hb[i].name) = name}

LEMMA FoundByName ==
  ASSUME NEW hb \in Seq(Fields), NEW name \in Seq(Octets), ToLower(name) = name
  PROVE  /\ Named(hb, name) = {} => Get(Received(hb), name) = <<>>
         /\ Named(hb, name) # {} => /\ Get(Received(hb), name) = hb[Min(Named(hb, name))].value
                                    /\ Min(Named(hb, name)) \in Named(hb, name)
                                    /\ \A i \in Named(hb, name) : Min(Named(hb, name)) <= i
<1>1. Len(hb) \in Nat /\ Len(Received(hb)) = Len(hb)
  BY DEF Received
<1>2. \A i \in 1..Len(hb) : /\ Received(hb)[i].name = Normal(hb[i].name)
                             /\ Received(hb)[i].value = hb[i].value
  <2> DEFINE e(i) == [name |-> Normal(hb[i].name), value |-> hb[i].value]
  <2>1. Received(hb) = [i \in 1..Len(hb) |-> e(i)]
    BY DEF Received
  <2>2. \A i : e(i).name = Normal(hb[i].name) /\ e(i).value = hb[i].value
    OBVIOUS
  <2> HIDE DEF e
  <2>3. \A i \in 1..Len(hb) : Received(hb)[i] = e(i)
    BY <2>1
  <2> QED
    BY <2>2, <2>3
<1>3. \A i \in 1..Len(hb) : ToLower(Received(hb)[i].name) = Normal(hb[i].name)
  <2> TAKE i \in 1..Len(hb)
  <2>1. hb[i].name \in Seq(Octets)
    <3>1. hb[i] \in Fields
      OBVIOUS
    <3> QED
      BY <3>1 DEF Fields
  <2>2. ToLower(Normal(hb[i].name)) = Normal(hb[i].name)
    BY <2>1, NormalIsLower
  <2> QED
    BY <1>2, <2>2
<1>4. FieldsNamed(Received(hb), name) = Named(hb, name)
  BY <1>1, <1>3 DEF FieldsNamed, Named
<1>5. Named(hb, name) \subseteq Nat
  BY DEF Named
<1>6. CASE Named(hb, name) = {}
  BY <1>4, <1>6, Zenon DEF Get
<1>7. CASE Named(hb, name) # {}
  <2>1. Min(Named(hb, name)) \in Named(hb, name) /\ \A i \in Named(hb, name) : Min(Named(hb, name)) <= i
    BY <1>5, <1>7, MinFacts
  <2>2. PICK m \in 1..Len(hb) : m = Min(Named(hb, name))
    BY <2>1 DEF Named
  <2>3. Get(Received(hb), name) = Received(hb)[m].value
    BY <1>4, <1>7, <2>2, Zenon DEF Get
  <2>4. Received(hb)[m].value = hb[m].value
    BY <1>2
  <2> QED
    BY <1>7, <2>1, <2>2, <2>3, <2>4, Zenon
<1> QED
  BY <1>6, <1>7

\* What the receiver finds before and after a Set.
LEMMA SetIsFound ==
  ASSUME NEW hb \in Seq(Fields), NEW put \in Fields, NEW after, after = Set(hb, put.name, put.value),
         NEW name \in Seq(Octets), ToLower(name) = name,
         \/ name = Normal(put.name)
         \/ Named(hb, name) # {}
  PROVE  Get(Received(after), name) =
           IF name # Normal(put.name) THEN Get(Received(hb), name)
           ELSE IF \E i \in 1..Len(hb) :
                      /\ Normal(hb[i].name) = name
                      /\ \A j \in 1..i : ToLower(hb[j].name) # ToLower(put.name)
                THEN Get(Received(hb), name)
                ELSE put.value
<1> DEFINE F == FieldsNamed(hb, put.name)
           N == Named(hb, name)
           passed == \E i \in 1..Len(hb) :
                       /\ Normal(hb[i].name) = name
                       /\ \A j \in 1..i : ToLower(hb[j].name) # ToLower(put.name)
<1>1. Len(hb) \in Nat /\ N \subseteq 1..Len(hb) /\ F \subseteq 1..Len(hb)
  BY DEF Named, FieldsNamed
<1>2. \A i \in 1..Len(hb) : hb[i] \in Fields /\ hb[i].name \in Seq(Octets)
  <2> TAKE i \in 1..Len(hb)
  <2>1. hb[i] \in Fields
    OBVIOUS
  <2> QED
    BY <2>1 DEF Fields
<1>3. put.name \in Seq(Octets) /\ put.value \in Seq(Octets)
  BY DEF Fields
<1>4. \A i \in F : Normal(hb[i].name) = Normal(put.name)
  BY <1>2, <1>3, SameName DEF FieldsNamed
<1>5. \A i \in 1..Len(hb) : i \in N <=> Normal(hb[i].name) = name
  BY DEF Named
<1>6. \A i \in 1..Len(hb) : i \in F <=> ToLower(hb[i].name) = ToLower(put.name)
  BY DEF FieldsNamed
<1>7. passed <=> \E i \in N : \A j \in 1..i : j \notin F
  BY <1>1, <1>5, <1>6
<1>8. CASE F = {}
  <2>1. PICK g \in Fields : g = [name |-> put.name, value |-> put.value]
    BY <1>3 DEF Fields
  <2>2. after = Append(hb, g)
    BY <1>8, <2>1, Zenon DEF Set
  <2>3. /\ after \in Seq(Fields) /\ Len(after) = Len(hb) + 1 /\ after[Len(hb) + 1] = g
        /\ \A i \in 1..Len(hb) : after[i] = hb[i]
    BY <2>2, AppendProperties
  <2>4. CASE N # {}
    <3>1. N \subseteq Named(after, name) /\ Named(after, name) \subseteq N \cup {Len(hb) + 1}
      BY <1>1, <2>3 DEF Named
    <3>2. /\ Min(N) \in N /\ \A i \in N : Min(N) <= i
          /\ Get(Received(hb), name) = hb[Min(N)].value
      BY <2>4, FoundByName
    <3>3. /\ Min(Named(after, name)) \in Named(after, name)
          /\ \A i \in Named(after, name) : Min(Named(after, name)) <= i
          /\ Get(Received(after), name) = after[Min(Named(after, name))].value
      <4>1. Named(after, name) # {}
        BY <2>4, <3>1
      <4> QED
        BY <2>3, <4>1, FoundByName
    <3>4. PICK m, k : m = Min(N) /\ k = Min(Named(after, name))
      OBVIOUS
    <3>5. m = k /\ m \in 1..Len(hb)
      BY <1>1, <3>1, <3>2, <3>3, <3>4
    <3>6. Get(Received(after), name) = Get(Received(hb), name)
      BY <2>3, <3>2, <3>3, <3>4, <3>5, Zenon
    <3>7. passed
      BY <1>7, <1>8, <2>4
    <3> HIDE DEF passed
    <3> QED
      BY <3>6, <3>7, Zenon DEF passed
  <2>5. CASE N = {}
    <3>1. Named(after, name) = {Len(hb) + 1}
      BY <1>1, <2>1, <2>3, <2>5 DEF Named
    <3>2. Min(Named(after, name)) = Len(hb) + 1 /\ Get(Received(after), name) = after[Len(hb) + 1].value
      BY <2>3, <3>1, FoundByName
    <3>3. ~passed /\ name = Normal(put.name)
      BY <1>7, <2>5
    <3>4. Get(Received(after), name) = put.value
      BY <2>1, <2>3, <3>2
    <3> HIDE DEF passed
    <3> QED
      BY <3>3, <3>4, Zenon DEF passed
  <2> QED
    BY <2>4, <2>5
<1>9. CASE F # {}
  <2>1. PICK m \in F : m = Min(F) /\ \A i \in F : m <= i
    BY <1>1, <1>9, MinFacts
  <2>2. m \in 1..Len(hb)
    BY <1>1
  <2>3. PICK g \in Fields : g = [hb[m] EXCEPT !.value = put.value]
    BY <1>2, <1>3, <2>2 DEF Fields
  <2>4. after = [hb EXCEPT ![m] = g]
    BY <1>9, <2>1, <2>3 DEF Set
  <2>5. /\ after \in Seq(Fields) /\ Len(after) = Len(hb)
        /\ \A i \in 1..Len(hb) : after[i] = IF i = m THEN g ELSE hb[i]
    BY <2>2, <2>4, ExceptSeq
  <2>6. g.name = hb[m].name /\ g.value = put.value
    BY <1>2, <2>2, <2>3 DEF Fields
  <2>7. Named(after, name) = N
    <3>1. \A i \in 1..Len(hb) : after[i].name = hb[i].name
      BY <2>5, <2>6
    <3> QED
      BY <2>5, <3>1 DEF Named
  <2>8. CASE N = {}
    <3>1. name = Normal(put.name)
      BY <2>8
    <3>2. m \in N
      BY <1>4, <1>5, <2>2, <3>1
    <3> QED
      BY <2>8, <3>2
  <2>9. CASE N # {}
    <3>1. PICK n \in N : /\ \A i \in N : n <= i
                         /\ Get(Received(hb), name) = hb[n].value
                         /\ Get(Received(after), name) = after[n].value
      <4>1. /\ Min(N) \in N /\ \A i \in N : Min(N) <= i
            /\ Get(Received(hb), name) = hb[Min(N)].value
        BY <2>9, FoundByName
      <4>2. Get(Received(after), name) = after[Min(N)].value
        <5>1. Named(after, name) # {}
          BY <2>7, <2>9
        <5>2. Get(Received(after), name) = after[Min(Named(after, name))].value
          BY <2>5, <5>1, FoundByName
        <5> QED
          BY <2>7, <5>2, Zenon
      <4> QED
        BY <4>1, <4>2
    <3>2. n \in 1..Len(hb)
      BY <1>1
    <3>3. CASE name # Normal(put.name)
      <4>1. n # m
        BY <1>4, <1>5, <2>2, <3>2, <3>3
      <4>2. after[n] = hb[n]
        BY <2>5, <3>2, <4>1
      <4> QED
        BY <3>1, <3>3, <4>2, Zenon
    <3>4. CASE name = Normal(put.name)
      <4>1. m \in N /\ n <= m
        BY <1>4, <1>5, <2>2, <3>1, <3>4
      <4>2. CASE passed
        <5>1. PICK i \in N : \A j \in 1..i : j \notin F
          BY <1>7, <4>2
        <5>2. i < m
          BY <1>1, <2>2, <5>1
        <5>3. n # m
          BY <1>1, <3>1, <5>2
        <5>4. after[n] = hb[n]
          BY <2>5, <3>2, <5>3
        <5>5. Get(Received(after), name) = Get(Received(hb), name)
          BY <3>1, <5>4, Zenon
        <5> HIDE DEF passed
        <5> QED
          BY <3>4, <4>2, <5>5, Zenon DEF passed
      <4>3. CASE ~passed
        <5>1. PICK j \in 1..n : j \in F
          BY <1>7, <4>3
        <5>2. n = m
          BY <1>1, <2>1, <2>2, <3>2, <4>1, <5>1
        <5>3. after[n] = g
          BY <2>5, <3>2, <5>2
        <5>4. Get(Received(after), name) = put.value
          BY <2>6, <3>1, <5>3
        <5> HIDE DEF passed
        <5> QED
          BY <3>4, <4>3, <5>4, Zenon DEF passed
      <4> QED
        BY <4>2, <4>3
    <3> QED
      BY <3>3, <3>4
  <2> QED
    BY <2>8, <2>9
<1> QED
  BY <1>8, <1>9

\* SetSurvives of BhttpHeaders: the receiver finds the value that was Set, and
\* what it would have found before under every other name of the block; unless
\* the name was there with blanks around it.
THEOREM SetsSurvive == Spec => []SetSurvives
<1>1. Decoding => SetSurvives
  <2> SUFFICES ASSUME Decoding, block # <<>> PROVE SetSurvives
    BY DEF SetSurvives
  <2>1. block \in Seq(Fields) /\ Len(block) \in Nat /\ Len(block) >= 1
    BY DEF Decoding, Source, Small
  <2>2. PICK hb \in Seq(Fields) : hb = Front(block) /\ Len(hb) = Len(block) - 1 /\ \A i \in 1..Len(hb) : hb[i] = block[i]
    <3>1. PICK k \in 0..Len(block) : k = Len(block) - 1
      <4>1. Len(block) - 1 \in 0..Len(block)
        BY <2>1
      <4> QED
        BY <4>1, Zenon
    <3>2. PICK t : t = SubSeq(block, 1, k)
      OBVIOUS
    <3>3. t \in Seq(Fields) /\ Len(t) = k /\ \A i \in 1..k : t[i] = block[i]
      BY <2>1, <3>1, <3>2
    <3>4. t = Front(block)
      BY <3>1, <3>2 DEF Front
    <3> QED
      BY <3>1, <3>3, <3>4
  <2>3. PICK put \in Fields : put = Last(block) /\ put = block[Len(block)]
    <3>1. block[Len(block)] \in Fields
      BY <2>1
    <3> QED
      BY <3>1, Zenon DEF Last
  <2>4. PICK after : after = Set(hb, put.name, put.value)
    OBVIOUS
  <2>5. ASSUME NEW i \in 1..Len(block), NEW name, name = Normal(block[i].name)
        PROVE  Get(Received(after), name) =
                 IF name # Normal(put.name) THEN Get(Received(hb), name)
                 ELSE IF \E k \in 1..Len(hb) :
                            /\ Normal(hb[k].name) = name
                            /\ \A j \in 1..k : ToLower(hb[j].name) # ToLower(put.name)
                      THEN Get(Received(hb), name)
                      ELSE put.value
    <3>1. name \in Seq(Octets) /\ ToLower(name) = name
      <4>1. block[i] \in Fields
        BY <2>1
      <4>2. block[i].name \in Seq(Octets)
        BY <4>1 DEF Fields
      <4> QED
        BY <2>5, <4>2, NormalIsLower
    <3>2. name = Normal(put.name) \/ Named(hb, name) # {}
      <4>1. CASE i = Len(block)
        BY <2>3, <2>5, <4>1
      <4>2. CASE i # Len(block)
        <5>1. i \in 1..Len(hb) /\ hb[i] = block[i]
          BY <2>1, <2>2, <4>2
        <5>2. i \in Named(hb, name)
          BY <2>5, <5>1 DEF Named
        <5> QED
          BY <5>2
      <4> QED
        BY <4>1, <4>2
    <3> QED
      BY <2>4, <3>1, <3>2, SetIsFound
  <2>6. ASSUME NEW name \in {Normal(block[i].name) : i \in 1..Len(block)}
        PROVE  Get(Received(after), name) =
                 IF name # Normal(put.name) THEN Get(Received(hb), name)
                 ELSE IF \E k \in 1..Len(hb) :
                            /\ Normal(hb[k].name) = name
                            /\ \A j \in 1..k : ToLower(hb[j].name) # ToLower(put.name)
                      THEN Get(Received(hb), name)
                      ELSE put.value
    <3>1. PICK i \in 1..Len(block) : name = Normal(block[i].name)
      OBVIOUS
    <3> QED
      BY <2>5, <3>1, Zenon
  <2>7. Front(block) = hb /\ Last(block) = put /\ Set(hb, put.name, put.value) = after
    BY <2>2, <2>3, <2>4
  <2> QED
    BY <2>6, <2>7, Zenon DEF SetSurvives
<1> QED
  BY <1>1, AlwaysDecoding, PTL

-----------------------------------------------------------------------------
(* Lines of a dump                                                         *)

Lines == [first : Int, last : Int, octets : Seq(Nat)]

\* The lines follow one another from offset a to before b, and each shows the
\* octets of w that stand there: Tile of BhttpDump, for a part of a dump.
TilesFrom(lines, w, a, b) ==
  /\ lines \in Seq(Lines)
  /\ \A i \in 1..Len(lines) :
       /\ lines[i].first = (IF i = 1 THEN a ELSE lines[i - 1].last + 1)
       /\ lines[i].last < Len(w)
       /\ lines[i].octets = SubSeq(w, lines[i].first + 1, lines[i].last + 1)
  /\ IF Len(lines) = 0 THEN a = b ELSE lines[Len(lines)].last = b - 1

LEMMA TilesWhole ==
  ASSUME NEW lines, NEW w, NEW b, TilesFrom(lines, w, 0, b), Len(lines) # 0
  PROVE  Tile(lines, w, b)
BY DEF TilesFrom, Tile

LEMMA TilesNothing ==
  ASSUME NEW w, NEW a
  PROVE  TilesFrom(<<>>, w, a, a)
BY DEF TilesFrom

\* A line more.
LEMMA TilesAppend ==
  ASSUME NEW w \in Seq(Nat), NEW a \in Nat, NEW b \in Nat, NEW c \in Nat, b <= c, c <= Len(w),
         NEW x, TilesFrom(x, w, a, b), NEW octets, octets = SubSeq(w, b + 1, c),
         NEW last, last = c - 1
  PROVE  TilesFrom(Append(x, Line(b, last, octets)), w, a, c)
<1>1. x \in Seq(Lines) /\ Len(x) \in Nat
  BY DEF TilesFrom
<1>2. octets \in Seq(Nat)
  <2>1. \A i \in (b + 1)..c : w[i] \in Nat
    OBVIOUS
  <2> QED
    BY <2>1, SubSeqProperties
<1>3. PICK l \in Lines : l = Line(b, last, octets) /\ l.first = b /\ l.last = last /\ l.octets = octets
  <2>1. last \in Int /\ Line(b, last, octets) \in Lines
    BY <1>2 DEF Line, Lines
  <2> QED
    BY <2>1 DEF Line
<1>4. PICK y \in Seq(Lines) : /\ y = Append(x, l) /\ Len(y) = Len(x) + 1 /\ y[Len(x) + 1] = l
                              /\ \A i \in 1..Len(x) : y[i] = x[i]
  <2>1. /\ Append(x, l) \in Seq(Lines) /\ Len(Append(x, l)) = Len(x) + 1 /\ Append(x, l)[Len(x) + 1] = l
        /\ \A i \in 1..Len(x) : Append(x, l)[i] = x[i]
    BY <1>1, AppendProperties
  <2> QED
    BY <2>1
<1>5. ASSUME NEW i \in 1..Len(y)
      PROVE  /\ y[i].first = (IF i = 1 THEN a ELSE y[i - 1].last + 1)
             /\ y[i].last < Len(w)
             /\ y[i].octets = SubSeq(w, y[i].first + 1, y[i].last + 1)
  <2>1. CASE i <= Len(x)
    <3>1. i \in 1..Len(x) /\ y[i] = x[i] /\ (i # 1 => i - 1 \in 1..Len(x) /\ y[i - 1] = x[i - 1])
      BY <1>1, <1>4, <2>1
    <3> QED
      BY <3>1 DEF TilesFrom
  <2>2. CASE i = Len(x) + 1
    <3>1. y[i] = l
      BY <1>4, <2>2
    <3>2. l.first = (IF i = 1 THEN a ELSE y[i - 1].last + 1)
      <4>1. CASE Len(x) = 0
        BY <1>3, <2>2, <4>1 DEF TilesFrom
      <4>2. CASE Len(x) # 0
        <5>1. i - 1 = Len(x) /\ i # 1 /\ Len(x) \in 1..Len(x)
          BY <1>1, <2>2, <4>2
        <5>2. y[i - 1] = x[Len(x)]
          BY <1>4, <5>1
        <5>3. x[Len(x)].last = b - 1
          BY <4>2 DEF TilesFrom
        <5> QED
          BY <1>3, <5>1, <5>2, <5>3
      <4> QED
        BY <4>1, <4>2
    <3>3. l.last < Len(w) /\ l.last + 1 = c
      <4>1. last < Len(w) /\ last + 1 = c
        OBVIOUS
      <4> QED
        BY <1>3, <4>1
    <3> QED
      BY <1>3, <3>1, <3>2, <3>3
  <2> QED
    BY <1>1, <1>4, <2>1, <2>2
<1>6. Len(y) # 0 /\ y[Len(y)].last = c - 1
  BY <1>1, <1>3, <1>4
<1> QED
  BY <1>3, <1>4, <1>5, <1>6 DEF TilesFrom

\* One part of a dump and the part below it.
LEMMA TilesJoin ==
  ASSUME NEW w, NEW a, NEW b \in Int, NEW c, NEW x, NEW y, TilesFrom(x, w, a, b), TilesFrom(y, w, b, c)
  PROVE  TilesFrom(x \o y, w, a, c)
<1>1. x \in Seq(Lines) /\ y \in Seq(Lines) /\ Len(x) \in Nat /\ Len(y) \in Nat
  BY DEF TilesFrom
<1>2. PICK n \in Nat, m \in Nat : n = Len(x) /\ m = Len(y)
  BY <1>1
<1>3. PICK z \in Seq(Lines) : /\ z = x \o y /\ Len(z) = n + m
                              /\ \A i \in 1..n : z[i] = x[i]
                              /\ \A i \in 1..m : z[n + i] = y[i]
  <2>1. x \o y \in Seq(Lines) /\ Len(x \o y) = Len(x) + Len(y)
    BY <1>1, JoinType
  <2>2. \A i \in 1..Len(x) : (x \o y)[i] = x[i]
    BY <1>1, JoinFirst
  <2>3. \A i \in 1..Len(y) : (x \o y)[Len(x) + i] = y[i]
    BY <1>1, JoinSecond
  <2> QED
    BY <1>2, <2>1, <2>2, <2>3
<1>4. ASSUME NEW i \in 1..Len(z)
      PROVE  /\ z[i].first = (IF i = 1 THEN a ELSE z[i - 1].last + 1)
             /\ z[i].last < Len(w)
             /\ z[i].octets = SubSeq(w, z[i].first + 1, z[i].last + 1)
  <2>1. CASE i <= n
    <3>1. i \in 1..n /\ (i # 1 => i - 1 \in 1..n)
      BY <1>3, <2>1
    <3>2. z[i] = x[i] /\ (i # 1 => z[i - 1] = x[i - 1])
      BY <1>3, <3>1
    <3> QED
      BY <1>2, <3>1, <3>2 DEF TilesFrom
  <2>2. CASE i > n
    <3>1. PICK k \in 1..m : i = n + k
      <4>1. i - n \in 1..m /\ i = n + (i - n)
        BY <1>3, <2>2
      <4> QED
        BY <4>1
    <3>2. z[i] = y[k]
      BY <1>3, <3>1
    <3>3. /\ y[k].first = (IF k = 1 THEN b ELSE y[k - 1].last + 1)
          /\ y[k].last < Len(w)
          /\ y[k].octets = SubSeq(w, y[k].first + 1, y[k].last + 1)
      BY <1>2 DEF TilesFrom
    <3>4. CASE k # 1
      <4>1. k - 1 \in 1..m /\ i - 1 = n + (k - 1) /\ i # 1
        BY <3>1, <3>4
      <4>2. z[i - 1] = y[k - 1]
        BY <1>3, <4>1
      <4> QED
        BY <3>2, <3>3, <3>4, <4>1, <4>2
    <3>5. CASE k = 1 /\ n = 0
      <4>1. a = b /\ i = 1
        BY <1>2, <3>1, <3>5 DEF TilesFrom
      <4> QED
        BY <3>2, <3>3, <3>5, <4>1
    <3>6. CASE k = 1 /\ n # 0
      <4>1. n \in 1..n /\ i - 1 = n /\ i # 1
        BY <3>1, <3>6
      <4>2. z[i - 1] = x[n] /\ x[n].last = b - 1
        BY <1>2, <1>3, <3>6, <4>1 DEF TilesFrom
      <4>3. z[i - 1].last + 1 = b
        BY <4>2
      <4> QED
        BY <3>2, <3>3, <3>6, <4>1, <4>3
    <3> QED
      BY <3>4, <3>5, <3>6
  <2>3. i <= n \/ i > n
    BY <1>3
  <2> QED
    BY <2>1, <2>2, <2>3, Zenon
<1>5. IF Len(z) = 0 THEN a = c ELSE z[Len(z)].last = c - 1
  <2>1. CASE m = 0
    <3>1. b = c /\ Len(z) = n
      BY <1>2, <1>3, <2>1 DEF TilesFrom
    <3>2. n # 0 => n \in 1..n /\ z[n] = x[n]
      BY <1>3
    <3> QED
      BY <1>2, <3>1, <3>2 DEF TilesFrom
  <2>2. CASE m # 0
    <3>1. m \in 1..m /\ Len(z) # 0 /\ Len(z) = n + m
      BY <1>3, <2>2
    <3>2. z[Len(z)] = y[m] /\ y[m].last = c - 1
      BY <1>2, <1>3, <2>2, <3>1 DEF TilesFrom
    <3> QED
      BY <3>1, <3>2
  <2> QED
    BY <2>1, <2>2
<1> QED
  BY <1>3, <1>4, <1>5 DEF TilesFrom


LEMMA OneOctet ==
  ASSUME NEW w \in Seq(Nat), NEW i \in 1..Len(w)
  PROVE  SubSeq(w, i, i) = <<w[i]>>
<1>1. \A k \in i..i : w[k] \in Nat
  OBVIOUS
<1>2. PICK z : z = SubSeq(w, i, i)
  OBVIOUS
<1>3. z \in Seq(Nat) /\ Len(z) = 1 /\ z[1] = w[i]
  BY <1>1, <1>2, SubSeqProperties
<1>4. PICK o \in Nat : o = w[i]
  OBVIOUS
<1>5. <<o>> \in Seq(Nat) /\ Len(<<o>>) = 1 /\ <<o>>[1] = o
  OBVIOUS
<1>6. z = <<o>>
  <2>1. \A k \in 1..Len(z) : z[k] = <<o>>[k]
    BY <1>3, <1>4, <1>5
  <2> QED
    BY <1>3, <1>5, <2>1, SeqEqual
<1> QED
  BY <1>2, <1>4, <1>6

\* Tuples are what Append makes of them.
LEMMA AppendIs ==
  ASSUME NEW S, NEW x \in Seq(S), NEW l \in S, NEW y \in Seq(S), Len(y) = Len(x) + 1,
         y[Len(x) + 1] = l, \A i \in 1..Len(x) : y[i] = x[i]
  PROVE  Append(x, l) = y
<1>1. PICK z \in Seq(S) : /\ z = Append(x, l) /\ Len(z) = Len(x) + 1 /\ z[Len(x) + 1] = l
                          /\ \A i \in 1..Len(x) : z[i] = x[i]
  <2>1. /\ Append(x, l) \in Seq(S) /\ Len(Append(x, l)) = Len(x) + 1 /\ Append(x, l)[Len(x) + 1] = l
        /\ \A i \in 1..Len(x) : Append(x, l)[i] = x[i]
    BY AppendProperties
  <2> QED
    BY <2>1
<1>2. \A i \in 1..Len(z) : z[i] = y[i]
  <2> TAKE i \in 1..Len(z)
  <2>1. i \in 1..Len(x) \/ i = Len(x) + 1
    BY <1>1
  <2> QED
    BY <1>1, <2>1
<1>3. z = y
  BY <1>1, <1>2, SeqEqual
<1> QED
  BY <1>1, <1>3

LEMMA AppendMembers ==
  ASSUME NEW S, NEW a \in S, NEW b \in S, NEW c \in S, NEW d \in S, NEW e \in S
  PROVE  /\ Append(<<>>, a) = <<a>> /\ Append(<<a>>, b) = <<a, b>>
         /\ Append(<<a, b>>, c) = <<a, b, c>> /\ Append(<<a, b, c>>, d) = <<a, b, c, d>>
         /\ Append(<<a, b, c, d>>, e) = <<a, b, c, d, e>>
<1>1. Append(<<>>, a) = <<a>>
  OBVIOUS
<1>2. Append(<<a>>, b) = <<a, b>>
  <2>1. PICK x : x = <<a>> /\ x \in Seq(S) /\ Len(x) = 1
    <3>1. <<a>> \in Seq(S) /\ Len(<<a>>) = 1
      OBVIOUS
    <3> QED
      BY <3>1, Zenon
  <2>2. PICK y : /\ y = <<a, b>> /\ y \in Seq(S) /\ Len(y) = 2 /\ y[2] = b
                 /\ \A i \in 1..1 : y[i] = x[i]
    <3>1. <<a, b>> \in Seq(S) /\ Len(<<a, b>>) = 2 /\ <<a, b>>[2] = b
      OBVIOUS
    <3>2. \A i \in 1..1 : <<a, b>>[i] = <<a>>[i]
      OBVIOUS
    <3> QED
      BY <2>1, <3>1, <3>2, Zenon
  <2>3. Append(x, b) = y
    <3>1. Len(y) = Len(x) + 1 /\ y[Len(x) + 1] = b /\ \A i \in 1..Len(x) : y[i] = x[i]
      BY <2>1, <2>2
    <3>2. x \in Seq(S) /\ y \in Seq(S)
      BY <2>1, <2>2, Zenon
    <3> QED
      BY <3>1, <3>2, AppendIs
  <2> QED
    BY <2>1, <2>2, <2>3, Zenon
<1>3. Append(<<a, b>>, c) = <<a, b, c>>
  <2>1. PICK x : x = <<a, b>> /\ x \in Seq(S) /\ Len(x) = 2
    <3>1. <<a, b>> \in Seq(S) /\ Len(<<a, b>>) = 2
      OBVIOUS
    <3> QED
      BY <3>1, Zenon
  <2>2. PICK y : /\ y = <<a, b, c>> /\ y \in Seq(S) /\ Len(y) = 3 /\ y[3] = c
                 /\ \A i \in 1..2 : y[i] = x[i]
    <3>1. <<a, b, c>> \in Seq(S) /\ Len(<<a, b, c>>) = 3 /\ <<a, b, c>>[3] = c
      OBVIOUS
    <3>2. \A i \in 1..2 : <<a, b, c>>[i] = <<a, b>>[i]
      OBVIOUS
    <3> QED
      BY <2>1, <3>1, <3>2, Zenon
  <2>3. Append(x, c) = y
    <3>1. Len(y) = Len(x) + 1 /\ y[Len(x) + 1] = c /\ \A i \in 1..Len(x) : y[i] = x[i]
      BY <2>1, <2>2
    <3>2. x \in Seq(S) /\ y \in Seq(S)
      BY <2>1, <2>2, Zenon
    <3> QED
      BY <3>1, <3>2, AppendIs
  <2> QED
    BY <2>1, <2>2, <2>3, Zenon
<1>4. Append(<<a, b, c>>, d) = <<a, b, c, d>>
  <2>1. PICK x : x = <<a, b, c>> /\ x \in Seq(S) /\ Len(x) = 3
    <3>1. <<a, b, c>> \in Seq(S) /\ Len(<<a, b, c>>) = 3
      OBVIOUS
    <3> QED
      BY <3>1, Zenon
  <2>2. PICK y : /\ y = <<a, b, c, d>> /\ y \in Seq(S) /\ Len(y) = 4 /\ y[4] = d
                 /\ \A i \in 1..3 : y[i] = x[i]
    <3>1. <<a, b, c, d>> \in Seq(S) /\ Len(<<a, b, c, d>>) = 4 /\ <<a, b, c, d>>[4] = d
      OBVIOUS
    <3>2. \A i \in 1..3 : <<a, b, c, d>>[i] = <<a, b, c>>[i]
      OBVIOUS
    <3> QED
      BY <2>1, <3>1, <3>2, Zenon
  <2>3. Append(x, d) = y
    <3>1. Len(y) = Len(x) + 1 /\ y[Len(x) + 1] = d /\ \A i \in 1..Len(x) : y[i] = x[i]
      BY <2>1, <2>2
    <3>2. x \in Seq(S) /\ y \in Seq(S)
      BY <2>1, <2>2, Zenon
    <3> QED
      BY <3>1, <3>2, AppendIs
  <2> QED
    BY <2>1, <2>2, <2>3, Zenon
<1>5. Append(<<a, b, c, d>>, e) = <<a, b, c, d, e>>
  <2>1. PICK x : x = <<a, b, c, d>> /\ x \in Seq(S) /\ Len(x) = 4
    <3>1. <<a, b, c, d>> \in Seq(S) /\ Len(<<a, b, c, d>>) = 4
      OBVIOUS
    <3> QED
      BY <3>1, Zenon
  <2>2. PICK y : /\ y = <<a, b, c, d, e>> /\ y \in Seq(S) /\ Len(y) = 5 /\ y[5] = e
                 /\ \A i \in 1..4 : y[i] = x[i]
    <3>1. <<a, b, c, d, e>> \in Seq(S) /\ Len(<<a, b, c, d, e>>) = 5 /\ <<a, b, c, d, e>>[5] = e
      OBVIOUS
    <3>2. \A i \in 1..4 : <<a, b, c, d, e>>[i] = <<a, b, c, d>>[i]
      OBVIOUS
    <3> QED
      BY <2>1, <3>1, <3>2, Zenon
  <2>3. Append(x, e) = y
    <3>1. Len(y) = Len(x) + 1 /\ y[Len(x) + 1] = e /\ \A i \in 1..Len(x) : y[i] = x[i]
      BY <2>1, <2>2
    <3>2. x \in Seq(S) /\ y \in Seq(S)
      BY <2>1, <2>2, Zenon
    <3> QED
      BY <3>1, <3>2, AppendIs
  <2> QED
    BY <2>1, <2>2, <2>3, Zenon
<1> QED
  BY <1>1, <1>2, <1>3, <1>4, <1>5

LEMMA AppendTuples ==
  ASSUME NEW a, NEW b, NEW c, NEW d, NEW e
  PROVE  /\ Append(<<>>, a) = <<a>> /\ Append(<<a>>, b) = <<a, b>>
         /\ Append(<<a, b>>, c) = <<a, b, c>> /\ Append(<<a, b, c>>, d) = <<a, b, c, d>>
         /\ Append(<<a, b, c, d>>, e) = <<a, b, c, d, e>>
<1>1. PICK S : a \in S /\ b \in S /\ c \in S /\ d \in S /\ e \in S
  <2>1. a \in {a, b, c, d, e} /\ b \in {a, b, c, d, e} /\ c \in {a, b, c, d, e} /\ d \in {a, b, c, d, e} /\ e \in {a, b, c, d, e}
    OBVIOUS
  <2> QED
    BY <2>1, Zenon
<1> QED
  BY <1>1, AppendMembers

LEMMA Tuple3 ==
  ASSUME NEW a, NEW b, NEW c
  PROVE  Append(Append(Append(<<>>, a), b), c) = <<a, b, c>>
<1>1. /\ Append(<<>>, a) = <<a>> /\ Append(<<a>>, b) = <<a, b>>
      /\ Append(<<a, b>>, c) = <<a, b, c>> /\ Append(<<a, b, c>>, a) = <<a, b, c, a>>
      /\ Append(<<a, b, c, a>>, a) = <<a, b, c, a, a>>
  BY AppendTuples
<1> QED
  BY <1>1

LEMMA Tuple4 ==
  ASSUME NEW a, NEW b, NEW c, NEW d
  PROVE  Append(Append(Append(Append(<<>>, a), b), c), d) = <<a, b, c, d>>
<1>1. /\ Append(<<>>, a) = <<a>> /\ Append(<<a>>, b) = <<a, b>>
      /\ Append(<<a, b>>, c) = <<a, b, c>> /\ Append(<<a, b, c>>, d) = <<a, b, c, d>>
      /\ Append(<<a, b, c, d>>, a) = <<a, b, c, d, a>>
  BY AppendTuples
<1> QED
  BY <1>1

LEMMA Tuple5 ==
  ASSUME NEW a, NEW b, NEW c, NEW d, NEW e
  PROVE  Append(Append(Append(Append(Append(<<>>, a), b), c), d), e) = <<a, b, c, d, e>>
<1>1. /\ Append(<<>>, a) = <<a>> /\ Append(<<a>>, b) = <<a, b>>
      /\ Append(<<a, b>>, c) = <<a, b, c>> /\ Append(<<a, b, c>>, d) = <<a, b, c, d>>
      /\ Append(<<a, b, c, d>>, e) = <<a, b, c, d, e>>
  BY AppendTuples
<1> QED
  BY <1>1

LEMMA LesserFacts ==
  ASSUME NEW x \in Nat, NEW y \in Nat
  PROVE  Min({x, y}) = IF x <= y THEN x ELSE y
<1>1. Min({x, y}) \in {x, y} /\ \A m \in {x, y} : Min({x, y}) <= m
  BY MinFacts
<1> QED
  BY <1>1

\* How many rows n octets take.
LEMMA RowsFacts ==
  ASSUME NEW R \in Nat, R > 0, NEW n \in Nat, NEW q \in Nat, q = (n + R - 1) \div R
  PROVE  /\ q * R >= n
         /\ n = 0 => q = 0
         /\ \A r \in 1..q : (r - 1) * R \in Nat /\ r * R \in Nat /\ (r - 1) * R + R = r * R /\ (r - 1) * R < n
         /\ \A r \in 1..(q - 1) : r * R < n
<1>1. PICK k \in Nat : k = q * R /\ k <= n + R - 1 /\ n + R - 1 < k + R
  <2>1. n + R - 1 \in Nat
    OBVIOUS
  <2>2. PICK m \in Nat : m = (n + R - 1) % R /\ m < R
    BY <2>1, Division
  <2>3. q * R + m = n + R - 1
    BY <2>1, <2>2, Quotient
  <2>4. q * R \in Nat
    BY Products
  <2> QED
    BY <2>2, <2>3, <2>4
<1>2. k >= n
  BY <1>1
<1>3. n = 0 => q = 0
  <2> SUFFICES ASSUME n = 0, q # 0 PROVE FALSE
    OBVIOUS
  <2>1. PICK d \in Nat : q = d + 1
    <3>1. q - 1 \in Nat /\ q = (q - 1) + 1
      OBVIOUS
    <3> QED
      BY <3>1
  <2>2. q * R = d * R + R /\ d * R \in Nat
    BY <2>1, Products
  <2> QED
    BY <1>1, <2>2
<1>4. ASSUME NEW r \in 1..q
      PROVE  /\ (r - 1) * R \in Nat /\ r * R \in Nat /\ (r - 1) * R + R = r * R /\ r * R <= k
             /\ r # q => r * R + R <= k
  <2>1. PICK c \in Nat, d \in Nat : c = r - 1 /\ d = q - r
    <3>1. r - 1 \in Nat /\ q - r \in Nat
      OBVIOUS
    <3> QED
      BY <3>1
  <2>2. r = c + 1 /\ q = c + 1 + d
    BY <2>1
  <2>3. c * R \in Nat /\ d * R \in Nat /\ r * R = c * R + R /\ k = c * R + R + d * R
    BY <1>1, <2>2, Products
  <2>4. r # q => d * R >= R
    <3> SUFFICES ASSUME r # q PROVE d * R >= R
      OBVIOUS
    <3>1. PICK f \in Nat : d = f + 1
      <4>1. d - 1 \in Nat /\ d = (d - 1) + 1
        BY <2>1
      <4> QED
        BY <4>1
    <3>2. d * R = f * R + R /\ f * R \in Nat
      BY <3>1, Products
    <3> QED
      BY <3>2
  <2>5. (r - 1) * R = c * R
    BY <2>1
  <2> QED
    BY <2>3, <2>4, <2>5
<1>5. ASSUME NEW r \in 1..q
      PROVE  (r - 1) * R < n
  <2>1. PICK u \in Nat : u = (r - 1) * R /\ u + R <= k
    BY <1>4
  <2> QED
    BY <1>1, <2>1
<1>6. ASSUME NEW r \in 1..(q - 1)
      PROVE  r * R < n
  <2>1. PICK u \in Nat : u = r * R /\ u + R <= k
    BY <1>4, r \in 1..q /\ r # q
  <2> QED
    BY <1>1, <2>1
<1> QED
  BY <1>1, <1>2, <1>3, <1>4, <1>5, <1>6


LEMMA TilesThree ==
  ASSUME NEW w \in Seq(Nat), NEW a \in Nat, NEW b \in Nat, NEW c \in Nat, NEW d \in Nat,
         a <= b, b <= c, c <= d, d <= Len(w),
         NEW z1, z1 = b - 1, NEW o1, o1 = SubSeq(w, a + 1, b),
         NEW z2, z2 = c - 1, NEW o2, o2 = SubSeq(w, b + 1, c),
         NEW z3, z3 = d - 1, NEW o3, o3 = SubSeq(w, c + 1, d)
  PROVE  TilesFrom(<<Line(a, z1, o1), Line(b, z2, o2), Line(c, z3, o3)>>, w, a, d)
<1>0. TilesFrom(<<>>, w, a, a)
  BY TilesNothing
<1>p. PICK l1, l2, l3 : l1 = Line(a, z1, o1) /\ l2 = Line(b, z2, o2) /\ l3 = Line(c, z3, o3)
  OBVIOUS
<1>1. PICK x1 : x1 = Append(<<>>, l1) /\ TilesFrom(x1, w, a, b)
  <2>1. b <= Len(w)
    OBVIOUS
  <2>2. TilesFrom(Append(<<>>, Line(a, z1, o1)), w, a, b)
    BY <1>0, <2>1, TilesAppend
  <2> QED
    BY <1>p, <2>2
<1>2. PICK x2 : x2 = Append(x1, l2) /\ TilesFrom(x2, w, a, c)
  <2>1. c <= Len(w)
    OBVIOUS
  <2>2. TilesFrom(Append(x1, Line(b, z2, o2)), w, a, c)
    BY <1>1, <2>1, TilesAppend
  <2> QED
    BY <1>p, <2>2
<1>3. PICK x3 : x3 = Append(x2, l3) /\ TilesFrom(x3, w, a, d)
  <2>1. d <= Len(w)
    OBVIOUS
  <2>2. TilesFrom(Append(x2, Line(c, z3, o3)), w, a, d)
    BY <1>2, <2>1, TilesAppend
  <2> QED
    BY <1>p, <2>2
<1>t. x3 = <<l1, l2, l3>>
  BY <1>1, <1>2, <1>3, Tuple3
<1> QED
  BY <1>p, <1>3, <1>t

LEMMA TilesFour ==
  ASSUME NEW w \in Seq(Nat), NEW a \in Nat, NEW b \in Nat, NEW c \in Nat, NEW d \in Nat, NEW e \in Nat,
         a <= b, b <= c, c <= d, d <= e, e <= Len(w),
         NEW z1, z1 = b - 1, NEW o1, o1 = SubSeq(w, a + 1, b),
         NEW z2, z2 = c - 1, NEW o2, o2 = SubSeq(w, b + 1, c),
         NEW z3, z3 = d - 1, NEW o3, o3 = SubSeq(w, c + 1, d),
         NEW z4, z4 = e - 1, NEW o4, o4 = SubSeq(w, d + 1, e)
  PROVE  TilesFrom(<<Line(a, z1, o1), Line(b, z2, o2), Line(c, z3, o3), Line(d, z4, o4)>>, w, a, e)
<1>0. TilesFrom(<<>>, w, a, a)
  BY TilesNothing
<1>p. PICK l1, l2, l3, l4 : l1 = Line(a, z1, o1) /\ l2 = Line(b, z2, o2) /\ l3 = Line(c, z3, o3) /\ l4 = Line(d, z4, o4)
  OBVIOUS
<1>1. PICK x1 : x1 = Append(<<>>, l1) /\ TilesFrom(x1, w, a, b)
  <2>1. b <= Len(w)
    OBVIOUS
  <2>2. TilesFrom(Append(<<>>, Line(a, z1, o1)), w, a, b)
    BY <1>0, <2>1, TilesAppend
  <2> QED
    BY <1>p, <2>2
<1>2. PICK x2 : x2 = Append(x1, l2) /\ TilesFrom(x2, w, a, c)
  <2>1. c <= Len(w)
    OBVIOUS
  <2>2. TilesFrom(Append(x1, Line(b, z2, o2)), w, a, c)
    BY <1>1, <2>1, TilesAppend
  <2> QED
    BY <1>p, <2>2
<1>3. PICK x3 : x3 = Append(x2, l3) /\ TilesFrom(x3, w, a, d)
  <2>1. d <= Len(w)
    OBVIOUS
  <2>2. TilesFrom(Append(x2, Line(c, z3, o3)), w, a, d)
    BY <1>2, <2>1, TilesAppend
  <2> QED
    BY <1>p, <2>2
<1>4. PICK x4 : x4 = Append(x3, l4) /\ TilesFrom(x4, w, a, e)
  <2>1. e <= Len(w)
    OBVIOUS
  <2>2. TilesFrom(Append(x3, Line(d, z4, o4)), w, a, e)
    BY <1>3, <2>1, TilesAppend
  <2> QED
    BY <1>p, <2>2
<1>t. x4 = <<l1, l2, l3, l4>>
  BY <1>1, <1>2, <1>3, <1>4, Tuple4
<1> QED
  BY <1>p, <1>4, <1>t

LEMMA TilesFive ==
  ASSUME NEW w \in Seq(Nat), NEW a \in Nat, NEW b \in Nat, NEW c \in Nat, NEW d \in Nat, NEW e \in Nat, NEW f \in Nat,
         a <= b, b <= c, c <= d, d <= e, e <= f, f <= Len(w),
         NEW z1, z1 = b - 1, NEW o1, o1 = SubSeq(w, a + 1, b),
         NEW z2, z2 = c - 1, NEW o2, o2 = SubSeq(w, b + 1, c),
         NEW z3, z3 = d - 1, NEW o3, o3 = SubSeq(w, c + 1, d),
         NEW z4, z4 = e - 1, NEW o4, o4 = SubSeq(w, d + 1, e),
         NEW z5, z5 = f - 1, NEW o5, o5 = SubSeq(w, e + 1, f)
  PROVE  TilesFrom(<<Line(a, z1, o1), Line(b, z2, o2), Line(c, z3, o3), Line(d, z4, o4), Line(e, z5, o5)>>, w, a, f)
<1>0. TilesFrom(<<>>, w, a, a)
  BY TilesNothing
<1>p. PICK l1, l2, l3, l4, l5 : l1 = Line(a, z1, o1) /\ l2 = Line(b, z2, o2) /\ l3 = Line(c, z3, o3) /\ l4 = Line(d, z4, o4) /\ l5 = Line(e, z5, o5)
  OBVIOUS
<1>1. PICK x1 : x1 = Append(<<>>, l1) /\ TilesFrom(x1, w, a, b)
  <2>1. b <= Len(w)
    OBVIOUS
  <2>2. TilesFrom(Append(<<>>, Line(a, z1, o1)), w, a, b)
    BY <1>0, <2>1, TilesAppend
  <2> QED
    BY <1>p, <2>2
<1>2. PICK x2 : x2 = Append(x1, l2) /\ TilesFrom(x2, w, a, c)
  <2>1. c <= Len(w)
    OBVIOUS
  <2>2. TilesFrom(Append(x1, Line(b, z2, o2)), w, a, c)
    BY <1>1, <2>1, TilesAppend
  <2> QED
    BY <1>p, <2>2
<1>3. PICK x3 : x3 = Append(x2, l3) /\ TilesFrom(x3, w, a, d)
  <2>1. d <= Len(w)
    OBVIOUS
  <2>2. TilesFrom(Append(x2, Line(c, z3, o3)), w, a, d)
    BY <1>2, <2>1, TilesAppend
  <2> QED
    BY <1>p, <2>2
<1>4. PICK x4 : x4 = Append(x3, l4) /\ TilesFrom(x4, w, a, e)
  <2>1. e <= Len(w)
    OBVIOUS
  <2>2. TilesFrom(Append(x3, Line(d, z4, o4)), w, a, e)
    BY <1>3, <2>1, TilesAppend
  <2> QED
    BY <1>p, <2>2
<1>5. PICK x5 : x5 = Append(x4, l5) /\ TilesFrom(x5, w, a, f)
  <2>1. f <= Len(w)
    OBVIOUS
  <2>2. TilesFrom(Append(x4, Line(e, z5, o5)), w, a, f)
    BY <1>4, <2>1, TilesAppend
  <2> QED
    BY <1>p, <2>2
<1>t. x5 = <<l1, l2, l3, l4, l5>>
  BY <1>1, <1>2, <1>3, <1>4, <1>5, Tuple5
<1> QED
  BY <1>p, <1>5, <1>t

\* The four fields of the frame header.
LEMMA HeaderTiles ==
  ASSUME NEW w \in Seq(Nat), Len(w) >= 8
  PROVE  TilesFrom(HeaderLines(w), w, 0, 8) /\ Len(HeaderLines(w)) = 4
<1>2. <<w[4]>> = SubSeq(w, 4, 4) /\ <<w[5]>> = SubSeq(w, 5, 5)
  <2>1. 4 \in 1..Len(w) /\ 5 \in 1..Len(w)
    OBVIOUS
  <2> QED
    BY <2>1, OneOctet
<1>3. PICK a, b, c, d, e \in Nat : a = 0 /\ b = 3 /\ c = 4 /\ d = 5 /\ e = 8
  OBVIOUS
<1>4. PICK o1, o2, o3, o4 : /\ o1 = SubSeq(w, 1, 3) /\ o2 = <<w[4]>> /\ o3 = <<w[5]>> /\ o4 = SubSeq(w, 6, 8)
  OBVIOUS
<1>5. /\ a <= b /\ b <= c /\ c <= d /\ d <= e /\ e <= Len(w)
      /\ 2 = b - 1 /\ 3 = c - 1 /\ 4 = d - 1 /\ 7 = e - 1
      /\ o1 = SubSeq(w, a + 1, b) /\ o2 = SubSeq(w, b + 1, c) /\ o3 = SubSeq(w, c + 1, d) /\ o4 = SubSeq(w, d + 1, e)
  BY <1>2, <1>3, <1>4
<1>6. TilesFrom(<< Line(a, 2, o1), Line(b, 3, o2), Line(c, 4, o3), Line(d, 7, o4) >>, w, a, e)
  BY <1>5, TilesFour
<1>7. TilesFrom(<< Line(0, 2, SubSeq(w, 1, 3)), Line(3, 3, <<w[4]>>), Line(4, 4, <<w[5]>>), Line(5, 7, SubSeq(w, 6, 8)) >>, w, 0, 8)
  BY <1>3, <1>4, <1>6
<1> QED
  BY <1>7 DEF HeaderLines

\* A part of x from octet u on.
PartsStand(x, w, at) ==
  \A u, v \in Nat : v <= Len(x) => /\ SubSeq(x, u + 1, v) \in Seq(Nat)
                                  /\ SubSeq(x, u + 1, v) = SubSeq(w, at + (u + 1), at + v)
LEMMA RowOctets ==
  ASSUME NEW w \in Seq(Nat), NEW x \in Seq(Nat), NEW at \in Nat, StandsIn(x, w, at)
  PROVE  PartsStand(x, w, at)
<1> USE DEF PartsStand
<1> TAKE u, v \in Nat
<1> HAVE v <= Len(x)
<1>1. PICK i \in Nat, j \in Int : i = u + 1 /\ i >= 1 /\ j = v /\ j <= Len(x)
  BY u + 1 \in Nat
<1>2. PICK a \in Nat, b \in Int : a = at + i /\ b = at + j /\ b <= Len(w) /\ a >= 1 /\ Len(w) \in Nat /\ Len(x) \in Nat
  <2>1. at + i \in Nat /\ at + i >= 1 /\ at + j \in Int /\ Len(w) \in Nat /\ Len(x) \in Nat
    BY <1>1
  <2>2. at + Len(x) <= Len(w)
    BY DEF StandsIn
  <2>3. at + j <= Len(w)
    BY <1>1, <2>1, <2>2
  <2> QED
    BY <1>1, <2>1, <2>3
<1>3. \A k \in i..j : x[k] \in Nat
  BY <1>1
<1>4. \A k \in a..b : w[k] \in Nat
  BY <1>2
<1>5. PICK s \in Seq(Nat) : /\ s = SubSeq(x, i, j) /\ Len(s) = (IF i <= j THEN j - i + 1 ELSE 0)
                            /\ \A k \in 1..(j - i + 1) : s[k] = x[i + k - 1]
  <2>1. PICK z : z = SubSeq(x, i, j)
    OBVIOUS
  <2>2. /\ z \in Seq(Nat) /\ Len(z) = (IF i <= j THEN j - i + 1 ELSE 0)
        /\ \A k \in 1..(j - i + 1) : z[k] = x[i + k - 1]
    BY <1>3, <2>1, SubSeqProperties
  <2> QED
    BY <2>1, <2>2
<1>6. PICK t \in Seq(Nat) : /\ t = SubSeq(w, a, b) /\ Len(t) = (IF a <= b THEN b - a + 1 ELSE 0)
                            /\ \A k \in 1..(b - a + 1) : t[k] = w[a + k - 1]
  <2>1. PICK z : z = SubSeq(w, a, b)
    OBVIOUS
  <2>2. /\ z \in Seq(Nat) /\ Len(z) = (IF a <= b THEN b - a + 1 ELSE 0)
        /\ \A k \in 1..(b - a + 1) : z[k] = w[a + k - 1]
    BY <1>4, <2>1, SubSeqProperties
  <2> QED
    BY <2>1, <2>2
<1>7. b - a + 1 = j - i + 1 /\ (a <= b <=> i <= j)
  BY <1>2
<1>8. Len(s) = Len(t)
  BY <1>5, <1>6, <1>7
<1>9. \A k \in 1..Len(s) : s[k] = t[k]
  <2> TAKE k \in 1..Len(s)
  <2>1. k \in 1..(j - i + 1) /\ k \in 1..(b - a + 1)
    BY <1>5, <1>7
  <2>2. PICK m \in 1..Len(x) : m = i + k - 1 /\ a + k - 1 = at + m
    <3>1. i + k - 1 \in 1..Len(x) /\ a + k - 1 = at + (i + k - 1)
      BY <1>1, <1>2, <2>1
    <3> QED
      BY <3>1
  <2>3. w[at + m] = x[m]
    BY DEF StandsIn
  <2> QED
    BY <1>5, <1>6, <2>1, <2>2, <2>3
<1>10. s = t
  BY <1>8, <1>9, SeqEqual
<1> QED
  BY <1>1, <1>2, <1>5, <1>6, <1>10

\* The rows of HexDumpBlock.
LEMMA RowsTile ==
  ASSUME NEW w \in Seq(Nat), NEW x \in Seq(Nat), NEW at \in Nat, StandsIn(x, w, at)
  PROVE  /\ TilesFrom(HexDumpBlock(x, at), w, at, at + Len(x))
         /\ Len(x) # 0 => Len(HexDumpBlock(x, at)) # 0
<1>1. PICK R \in Nat : R = RowSize /\ R > 0
  BY DumpAssumption
<1>2. PICK n \in Nat : n = Len(x) /\ at + n <= Len(w)
  BY DEF StandsIn
<1>3. PICK q \in Nat : q = (n + R - 1) \div R
  <2>1. n + R - 1 \in Nat
    BY <1>1
  <2> QED
    BY <1>1, <2>1, Division
<1>4. PICK k \in Nat : k = q * R /\ k >= n /\ (n = 0 => q = 0)
  <2>1. R > 0
    BY <1>1
  <2>2. q * R \in Nat
    BY Products
  <2>3. q * R >= n /\ (n = 0 => q = 0)
    BY <1>3, <2>1, RowsFacts
  <2> QED
    BY <2>2, <2>3
<1>a. ASSUME NEW r \in 1..q
      PROVE  /\ (r - 1) * R \in Nat /\ r * R \in Nat /\ (r - 1) * R + R = r * R /\ (r - 1) * R < n
             /\ r \in 1..(q - 1) => r * R < n
  <2>1. R > 0
    BY <1>1
  <2> QED
    BY <1>3, <2>1, RowsFacts
<1>b. PartsStand(x, w, at)
  BY RowOctets
<1> DEFINE end(r) == Min({r * R, n})
           e(r) == Line(at + (r - 1) * R, at + end(r) - 1, SubSeq(x, (r - 1) * R + 1, end(r)))
           rows == [r \in 1..q |-> e(r)]
<1>5. HexDumpBlock(x, at) = rows
  BY <1>1, <1>2, <1>3 DEF HexDumpBlock
<1>6. ASSUME NEW r \in 1..q
      PROVE  \E u, v \in Nat : /\ u = (r - 1) * R /\ v = end(r) /\ u < v /\ v <= n
                               /\ v = IF r = q THEN n ELSE r * R
  <2>1. PICK u \in Nat, y \in Nat : u = (r - 1) * R /\ y = r * R
    BY <1>a
  <2>2. u + R = y /\ u < n /\ (r # q => y < n)
    <3>1. r # q => r \in 1..(q - 1)
      OBVIOUS
    <3> QED
      BY <1>a, <2>1, <3>1
  <2>3. r = q => y >= n
    BY <1>4, <2>1
  <2>4. end(r) = Min({y, n})
    BY <2>1
  <2>5. end(r) = IF y <= n THEN y ELSE n
    BY <2>4, LesserFacts
  <2> HIDE DEF end
  <2>6. PICK v \in Nat : v = end(r) /\ u < v /\ v <= n /\ (r = q => v = n) /\ (r # q => v = y)
    <3>1. R > 0
      BY <1>1
    <3> QED
      BY <2>2, <2>3, <2>5, <3>1
  <2> QED
    BY <2>1, <2>6
<1>7. ASSUME NEW r \in 1..q
      PROVE  /\ e(r) \in Lines
             /\ e(r).first = (IF r = 1 THEN at ELSE e(r - 1).last + 1)
             /\ e(r).last < Len(w)
             /\ e(r).octets = SubSeq(w, e(r).first + 1, e(r).last + 1)
             /\ r = q => e(r).last = at + n - 1
  <2>1. PICK u \in Nat, v \in Nat : /\ u = (r - 1) * R /\ v = end(r) /\ u < v /\ v <= n
                                   /\ v = IF r = q THEN n ELSE r * R
    BY <1>6
  <2>2. e(r) = Line(at + u, at + v - 1, SubSeq(x, u + 1, v))
    BY <2>1, Zenon
  <2>a. u < v /\ v <= n /\ (r = q => v = n) /\ n = Len(x)
    BY <1>2, <2>1, Zenon
  <2>3. PICK o \in Seq(Nat) : o = SubSeq(x, u + 1, v) /\ o = SubSeq(w, at + (u + 1), at + v)
    <3>1. v <= Len(x)
      BY <2>a
    <3>3. /\ SubSeq(x, u + 1, v) \in Seq(Nat)
          /\ SubSeq(x, u + 1, v) = SubSeq(w, at + (u + 1), at + v)
      BY <1>b, <3>1, Zenon DEF PartsStand
    <3> QED
      BY <3>3, Zenon
  <2>5. PICK i \in Int, j \in Int : i = at + u /\ j = at + v - 1 /\ i + 1 = at + (u + 1) /\ j + 1 = at + v /\ j < Len(w)
    BY <1>2, <2>a
  <2>6. e(r) = Line(i, j, o)
    BY <2>2, <2>3, <2>5, Zenon
  <2> HIDE DEF e
  <2>7. e(r) \in Lines /\ e(r).first = i /\ e(r).last = j /\ e(r).octets = o
    BY <2>6 DEF Line, Lines
  <2>8. r = q => j = at + n - 1
    BY <2>5, <2>a
  <2>9. i = (IF r = 1 THEN at ELSE e(r - 1).last + 1)
    <3>1. CASE r = 1
      BY <1>1, <2>1, <2>5, <3>1
    <3>2. CASE r # 1
      <4>1. PICK p \in 1..q : p = r - 1 /\ p # q
        BY <3>2
      <4>2. PICK c \in Nat, d \in Nat : c = (p - 1) * R /\ d = end(p) /\ d = p * R
        BY <1>6, <4>1
      <4>3. e(p) = Line(at + c, at + d - 1, SubSeq(x, c + 1, d))
        BY <4>2, Zenon DEF e
      <4>4. e(p).last = at + d - 1
        BY <4>3 DEF Line
      <4>5. d = u
        BY <2>1, <4>1, <4>2
      <4> QED
        BY <2>5, <3>2, <4>1, <4>4, <4>5
    <3> QED
      BY <3>1, <3>2
  <2> QED
    BY <2>3, <2>5, <2>7, <2>8, <2>9
<1> HIDE DEF e
<1>8. rows \in Seq(Lines) /\ Len(rows) = q /\ \A r \in 1..q : rows[r] = e(r)
  BY <1>7
<1> HIDE DEF rows
<1>9. ASSUME NEW i \in 1..Len(rows)
      PROVE  /\ rows[i].first = (IF i = 1 THEN at ELSE rows[i - 1].last + 1)
             /\ rows[i].last < Len(w)
             /\ rows[i].octets = SubSeq(w, rows[i].first + 1, rows[i].last + 1)
  <2>1. i \in 1..q /\ rows[i] = e(i) /\ (i # 1 => rows[i - 1] = e(i - 1))
    BY <1>8
  <2> QED
    BY <1>7, <2>1
<1>10. IF Len(rows) = 0 THEN at = at + Len(x) ELSE rows[Len(rows)].last = (at + Len(x)) - 1
  <2>1. CASE q = 0
    <3>1. n = 0
      BY <1>4, <2>1
    <3> QED
      BY <1>2, <1>8, <2>1, <3>1
  <2>2. CASE q # 0
    <3>1. q \in 1..q /\ rows[q] = e(q)
      BY <1>8, <2>2
    <3> QED
      BY <1>2, <1>7, <1>8, <2>2, <3>1
  <2> QED
    BY <2>1, <2>2
<1>11. Len(x) # 0 => Len(rows) # 0
  <2>1. q = 0 => n = 0
    BY <1>1, <1>4
  <2> QED
    BY <1>2, <1>8, <2>1
<1> QED
  BY <1>5, <1>8, <1>9, <1>10, <1>11 DEF TilesFrom


\* The WireBytes of an entry stand on the wire where its offset says.
LEMMA WireBytesStand ==
  ASSUME NEW w \in Seq(Nat), NEW x \in Seq(Nat), NEW n \in Nat, StandsIn(x, w, n),
         NEW f \in Nat, f >= 1, NEW b \in Seq(Nat), f + Len(b) - 1 <= Len(x),
         \A i \in 1..Len(b) : b[i] = x[f + i - 1], NEW at \in Nat, at = n + f - 1
  PROVE  PartsStand(b, w, at)
<1>1. StandsIn(b, w, at)
  <2>1. n + Len(x) <= Len(w) /\ Len(x) \in Nat /\ Len(w) \in Nat /\ \A k \in 1..Len(x) : w[n + k] = x[k]
    <3>1. Len(x) \in Nat /\ Len(w) \in Nat
      OBVIOUS
    <3> QED
      BY <3>1 DEF StandsIn
  <2>2. at + Len(b) <= Len(w)
    <3>1. PICK l \in Nat, m \in Nat, k \in Nat : l = Len(b) /\ m = Len(x) /\ k = Len(w)
      OBVIOUS
    <3> QED
      BY <2>1, <3>1
  <2>3. ASSUME NEW i \in 1..Len(b)
        PROVE  w[at + i] = b[i]
    <3>1. PICK k \in 1..Len(x) : k = f + i - 1 /\ at + i = n + k
      <4>1. f + i - 1 \in 1..Len(x) /\ at + i = n + (f + i - 1)
        OBVIOUS
      <4> QED
        BY <4>1
    <3>2. w[n + k] = x[k] /\ b[i] = x[k]
      BY <2>1, <3>1
    <3> QED
      BY <3>1, <3>2
  <2> QED
    BY <2>2, <2>3 DEF StandsIn
<1> QED
  BY <1>1, RowOctets

\* The lines of an entry, of whichever format.
LEMMA EntryTiles ==
  ASSUME payload \in Seq(Octets), NEW w \in Seq(Nat), StandsIn(payload, w, 8), NEW e, IsEntry(e)
  PROVE  TilesFrom(EntryLines(e), w, e.from + 7, e.to + 8)
<1>1. PICK f \in Nat, t \in Nat : f = e.from /\ t = e.to /\ f >= 1 /\ t <= Len(payload) /\ t > f + 1
  BY DEF IsEntry, Entry
<1>2. PICK x \in Seq(Nat) : x = payload
  <2>1. \A i \in 1..Len(payload) : payload[i] \in Nat
    <3> TAKE i \in 1..Len(payload)
    <3>1. payload[i] \in Octets
      OBVIOUS
    <3> QED
      BY <3>1, Constants
  <2>2. payload \in Seq(Nat)
    BY <2>1
  <2> QED
    BY <2>2
<1>3. PICK at \in Nat, end \in Nat : at = f + 7 /\ end = t + 8 /\ at = HdrWireOffset(e) /\ end <= Len(w)
  <2>1. 8 + Len(payload) <= Len(w) /\ Len(payload) \in Nat /\ Len(w) \in Nat
    BY DEF StandsIn
  <2>2. t + 8 <= Len(w) /\ f + 7 \in Nat /\ t + 8 \in Nat
    <3>1. PICK n \in Nat, m \in Nat : n = Len(payload) /\ m = Len(w) /\ 8 + n <= m
      BY <2>1
    <3>2. t <= n
      BY <1>1, <3>1
    <3>3. t + 8 <= m
      BY <3>1, <3>2
    <3> QED
      BY <3>1, <3>3
  <2>3. HdrWireOffset(e) = 8 + f - 1
    BY <1>1 DEF HdrWireOffset, FrameHeaderSize
  <2>4. 8 + f - 1 = f + 7
    OBVIOUS
  <2> QED
    BY <2>2, <2>3, <2>4
<1>4. PICK b \in Seq(Nat) : /\ b = WireBytes(e) /\ Len(b) = t - f + 1 /\ PartsStand(b, w, at)
                            /\ \A i \in 1..(t - f + 1) : b[i] = x[f + i - 1]
  <2>1. f <= t /\ t <= Len(x) /\ f >= 1
    BY <1>1, <1>2
  <2>2. StandsIn(x, w, 8) /\ at = 8 + f - 1
    BY <1>2, <1>3
  <2>5. PICK b : b = SubSeq(x, f, t)
    OBVIOUS
  <2>6. /\ b \in Seq(Nat) /\ Len(b) = t - f + 1 /\ \A i \in 1..(t - f + 1) : b[i] = x[f + i - 1]
    <3>1. \A k \in f..t : x[k] \in Nat
      BY <2>1
    <3> QED
      BY <2>1, <2>5, <3>1, SubSeqProperties
  <2>3. PartsStand(b, w, at)
    <3>1. f + Len(b) - 1 <= Len(x) /\ \A i \in 1..Len(b) : b[i] = x[f + i - 1]
      BY <2>1, <2>6
    <3> QED
      BY <2>1, <2>2, <2>6, <3>1, WireBytesStand
  <2>4. b = WireBytes(e)
    BY <1>1, <1>2, <2>5 DEF WireBytes
  <2> QED
    BY <2>3, <2>4, <2>6
<1>5. PartsStand(x, w, 8)
  BY <1>2, RowOctets
<1>6. b[1] = x[f] /\ b[2] = x[f + 1] /\ b[3] = x[f + 2] /\ Len(b) \in Nat /\ Len(b) >= 3
  <2>1. t - f + 1 >= 3 /\ t - f + 1 \in Nat
    <3>1. t > f + 1
      BY <1>1, Zenon
    <3> QED
      BY <3>1
  <2>2. 1 \in 1..(t - f + 1) /\ 2 \in 1..(t - f + 1) /\ 3 \in 1..(t - f + 1)
    BY <2>1
  <2>3. f + 1 - 1 = f /\ f + 2 - 1 = f + 1 /\ f + 3 - 1 = f + 2
    OBVIOUS
  <2> QED
    BY <1>4, <2>1, <2>2, <2>3
<1>7. PICK m \in Octets : m = x[f] /\ m \in Nat
  <2>1. x[f] \in Octets
    BY <1>1, <1>2
  <2> QED
    BY <2>1, Constants
<1>8. PICK o2 : o2 = SubSeq(b, 2, 3) /\ o2 = SubSeq(w, at + 2, at + 3)
  <2>1. PICK o : o = SubSeq(b, 2, 3)
    OBVIOUS
  <2>2. PICK u \in Nat, v \in Nat, i \in Nat : u = 1 /\ v = 3 /\ i = 2 /\ i = u + 1 /\ v <= Len(b)
    <3>1. 1 \in Nat /\ 3 \in Nat /\ 2 \in Nat /\ 3 <= Len(b) /\ 2 = 1 + 1
      BY <1>6
    <3> QED
      BY <3>1, Zenon
  <2>3. SubSeq(b, u + 1, v) = SubSeq(w, at + (u + 1), at + v)
    BY <1>4, <2>2, Zenon DEF PartsStand
  <2> QED
    BY <2>1, <2>2, <2>3
<1>9. PICK o1 : o1 = SubSeq(b, 1, 1) /\ o1 = SubSeq(w, at + 1, at + 1) /\ o1 = <<m>>
  <2>1. PICK o : o = SubSeq(b, 1, 1)
    OBVIOUS
  <2>2. PICK u \in Nat, v \in Nat, i \in Nat : u = 0 /\ v = 1 /\ i = 1 /\ i = u + 1 /\ v <= Len(b)
    <3>1. 0 \in Nat /\ 1 \in Nat /\ 1 <= Len(b) /\ 1 = 0 + 1
      BY <1>6
    <3> QED
      BY <3>1, Zenon
  <2>3. SubSeq(b, u + 1, v) = SubSeq(w, at + (u + 1), at + v)
    BY <1>4, <2>2, Zenon DEF PartsStand
  <2>4. SubSeq(b, 1, 1) = <<b[1]>>
    BY <1>6, 1 \in 1..Len(b), OneOctet
  <2> QED
    BY <1>6, <1>7, <2>1, <2>2, <2>3, <2>4
<1>10. CASE IsIndexedEntry(e)
  <2>1. IsIndexed(e)
    <3>1. m # 0
      BY <1>1, <1>2, <1>7, <1>10, Constants DEF IsIndexedEntry
    <3> QED
      BY <1>4, <1>6, <1>7, <3>1 DEF IsIndexed
  <2>2. t >= f + 2 /\ e.value = SubSeq(x, f + 3, t)
    <3>1. f + 1 \in Nat /\ f + 1 >= 1 /\ (f + 1) + 1 = f + 2 /\ (f + 1) + 2 = f + 3
      BY <1>1
    <3>2. HasString(f + 1) /\ t = StringEnd(f + 1) /\ e.value = StringAt(f + 1)
      BY <1>1, <1>10 DEF IsIndexedEntry
    <3>3. StringEnd(f + 1) >= (f + 1) + 1
      BY <3>1, <3>2, StringFacts
    <3> QED
      BY <1>2, <3>1, <3>2, <3>3 DEF StringAt
  <2>3. PICK o3 : o3 = e.value /\ o3 = SubSeq(w, at + 4, end)
    <3>1. PICK u \in Nat, i \in Nat : u = f + 2 /\ i = f + 3 /\ i = u + 1 /\ 8 + i = at + 4 /\ 8 + t = end
      BY <1>3
    <3>2. PICK o : o = SubSeq(x, i, t) /\ o = e.value
      BY <2>2, <3>1
    <3>3. t <= Len(x)
      BY <1>1, <1>2
    <3>4. SubSeq(x, u + 1, t) = SubSeq(w, 8 + (u + 1), 8 + t)
      BY <1>5, <3>3, Zenon DEF PartsStand
    <3> QED
      BY <3>1, <3>2, <3>4
  <2>4. PICK c1 \in Nat, c2 \in Nat, z2 \in Int, z3 \in Int : /\ c1 = at + 1 /\ c2 = at + 3 /\ z2 = at + 2 /\ z3 = at + Len(b) - 1
                                            /\ at <= c1 /\ c1 <= c2 /\ c2 <= end
                                            /\ at = c1 - 1 /\ z2 = c2 - 1 /\ z3 = end - 1
                                            /\ c1 + 1 = at + 2 /\ c2 + 1 = at + 4
    BY <1>3, <1>4, <2>2
  <2>5. o1 = SubSeq(w, at + 1, c1) /\ o2 = SubSeq(w, c1 + 1, c2) /\ o3 = SubSeq(w, c2 + 1, end)
    BY <1>8, <1>9, <2>3, <2>4
  <2>6. TilesFrom(<<Line(at, at, o1), Line(c1, z2, o2), Line(c2, z3, o3)>>, w, at, end)
    BY <1>3, <2>4, <2>5, TilesThree
  <2>7. EntryLines(e) = <<Line(at, at, o1), Line(c1, z2, o2), Line(c2, z3, o3)>>
    BY <1>3, <1>4, <1>8, <1>9, <2>1, <2>3, <2>4 DEF EntryLines, IndexedLines
  <2> QED
    BY <1>1, <1>3, <2>6, <2>7
<1>11. CASE IsLiteralEntry(e)
  <2>1. m = 0 /\ ~IsIndexed(e)
    <3>1. m = 0
      BY <1>1, <1>2, <1>7, <1>11 DEF IsLiteralEntry
    <3> QED
      BY <1>4, <1>6, <1>7, <3>1 DEF IsIndexed
  <2>2. PICK g \in Nat : /\ g = StringEnd(f + 1) /\ g >= f + 2 /\ g <= Len(payload)
                         /\ g - f - 2 = x[f + 1] * Base + x[f + 2]
                         /\ HasString(g + 1) /\ t = StringEnd(g + 1)
                         /\ e.name = SubSeq(x, f + 3, g) /\ e.value = StringAt(g + 1)
    <3>1. f + 1 \in Nat /\ f + 1 >= 1 /\ (f + 1) + 1 = f + 2 /\ (f + 1) + 2 = f + 3
      BY <1>1
    <3>2. /\ HasString(f + 1) /\ HasString(StringEnd(f + 1) + 1) /\ t = StringEnd(StringEnd(f + 1) + 1)
          /\ e.name = StringAt(f + 1) /\ e.value = StringAt(StringEnd(f + 1) + 1)
      BY <1>1, <1>11 DEF IsLiteralEntry
    <3>3. PICK g \in Nat : /\ g = StringEnd(f + 1) /\ g >= (f + 1) + 1 /\ g <= Len(payload)
                           /\ g - (f + 1) - 1 = payload[f + 1] * Base + payload[(f + 1) + 1]
      BY <3>1, <3>2, StringFacts
    <3>4. g - f - 2 = g - (f + 1) - 1
      BY <1>1
    <3>5. g - f - 2 = x[f + 1] * Base + x[f + 2]
      BY <1>2, <3>1, <3>3, <3>4, Zenon
    <3>6. e.name = SubSeq(x, f + 3, g)
      BY <1>2, <3>1, <3>2, <3>3, Zenon DEF StringAt
    <3> QED
      BY <3>1, <3>2, <3>3, <3>5, <3>6
  <2>3. t >= g + 2 /\ e.value = SubSeq(x, g + 3, t)
    <3>1. g + 1 \in Nat /\ g + 1 >= 1 /\ (g + 1) + 1 = g + 2 /\ (g + 1) + 2 = g + 3
      OBVIOUS
    <3>2. StringEnd(g + 1) >= (g + 1) + 1
      BY <2>2, <3>1, StringFacts
    <3> QED
      BY <1>2, <2>2, <3>1, <3>2 DEF StringAt
  <2>4. PICK k \in Nat : k = NameLen(e) /\ g = f + 2 + k
    <3>1. NameLen(e) = x[f + 1] * Base + x[f + 2]
      BY <1>4, <1>6, Zenon DEF NameLen
    <3>2. NameLen(e) = g - f - 2
      BY <2>2, <3>1, Zenon
    <3> QED
      BY <2>2, <3>2
  <2>a. g = f + 2 + k /\ at = f + 7 /\ end = t + 8 /\ t >= g + 2
    BY <1>3, <2>3, <2>4, Zenon
  <2>b. Len(b) = t - f + 1
    BY <1>4, Zenon
  <2>5. PICK o3 : o3 = e.name /\ o3 = SubSeq(w, at + 4, at + 3 + k)
    <3>1. PICK u \in Nat, i \in Nat : u = f + 2 /\ i = f + 3 /\ i = u + 1 /\ 8 + i = at + 4 /\ 8 + g = at + 3 + k
      BY <2>a
    <3>2. PICK o : o = SubSeq(x, i, g) /\ o = e.name
      BY <2>2, <3>1
    <3>3. g <= Len(x)
      BY <1>2, <2>2
    <3>4. SubSeq(x, u + 1, g) = SubSeq(w, 8 + (u + 1), 8 + g)
      BY <1>5, <3>3, Zenon DEF PartsStand
    <3> QED
      BY <3>1, <3>2, <3>4
  <2>6. PICK o4 : o4 = SubSeq(b, k + 4, k + 5) /\ o4 = SubSeq(w, at + (k + 4), at + (k + 5))
    <3>1. PICK u \in Nat, v \in Nat, i \in Nat : u = k + 3 /\ i = k + 4 /\ v = k + 5 /\ i = u + 1 /\ v <= Len(b)
      BY <2>a, <2>b
    <3>2. PICK o : o = SubSeq(b, i, v)
      OBVIOUS
    <3>3. SubSeq(b, u + 1, v) = SubSeq(w, at + (u + 1), at + v)
      BY <1>4, <3>1, Zenon DEF PartsStand
    <3> QED
      BY <3>1, <3>2, <3>3
  <2>7. PICK o5 : o5 = e.value /\ o5 = SubSeq(w, at + 6 + k, end)
    <3>1. PICK u \in Nat, i \in Nat : u = g + 2 /\ i = g + 3 /\ i = u + 1 /\ 8 + i = at + 6 + k /\ 8 + t = end
      BY <2>a
    <3>2. PICK o : o = SubSeq(x, i, t) /\ o = e.value
      BY <2>3, <3>1
    <3>3. t <= Len(x)
      BY <1>1, <1>2
    <3>4. SubSeq(x, u + 1, t) = SubSeq(w, 8 + (u + 1), 8 + t)
      BY <1>5, <3>3, Zenon DEF PartsStand
    <3> QED
      BY <3>1, <3>2, <3>4
  <2>8. PICK c1 \in Nat, c2 \in Nat, c3 \in Nat, c4 \in Nat, z2 \in Int, z3 \in Int, z4 \in Int, z5 \in Int :
          /\ c1 = at + 1 /\ c2 = at + 3 /\ c3 = at + (3 + k) /\ c4 = at + (3 + k) + 2
          /\ z2 = at + 2 /\ z3 = at + 2 + k /\ z4 = at + (3 + k) + 1 /\ z5 = at + Len(b) - 1
          /\ at <= c1 /\ c1 <= c2 /\ c2 <= c3 /\ c3 <= c4 /\ c4 <= end
          /\ at = c1 - 1 /\ z2 = c2 - 1 /\ z3 = c3 - 1 /\ z4 = c4 - 1 /\ z5 = end - 1
          /\ c1 + 1 = at + 2 /\ c2 + 1 = at + 4 /\ c3 = at + 3 + k /\ c3 + 1 = at + (k + 4)
          /\ c4 = at + (k + 5) /\ c4 + 1 = at + 6 + k
    BY <2>a, <2>b
  <2>9. /\ o1 = SubSeq(w, at + 1, c1) /\ o2 = SubSeq(w, c1 + 1, c2) /\ o3 = SubSeq(w, c2 + 1, c3)
        /\ o4 = SubSeq(w, c3 + 1, c4) /\ o5 = SubSeq(w, c4 + 1, end)
    BY <1>8, <1>9, <2>5, <2>6, <2>7, <2>8
  <2>10. TilesFrom(<<Line(at, at, o1), Line(c1, z2, o2), Line(c2, z3, o3), Line(c3, z4, o4), Line(c4, z5, o5)>>, w, at, end)
    BY <1>3, <2>8, <2>9, TilesFive, ZenonT(30)
  <2>11. o4 = SubSeq(b, (3 + k) + 1, (3 + k) + 2)
    <3>1. (3 + k) + 1 = k + 4 /\ (3 + k) + 2 = k + 5
      BY <2>4
    <3> QED
      BY <2>6, <3>1
  <2>12. EntryLines(e) = <<Line(at, at, o1), Line(c1, z2, o2), Line(c2, z3, o3), Line(c3, z4, o4), Line(c4, z5, o5)>>
    <3>1. EntryLines(e) = LiteralLines(e)
      BY <2>1 DEF EntryLines
    <3> QED
      BY <1>3, <1>4, <1>8, <1>9, <2>1, <2>4, <2>5, <2>7, <2>8, <2>11, <3>1 DEF LiteralLines
  <2> QED
    BY <1>1, <1>3, <2>10, <2>12
<1> QED
  BY <1>10, <1>11 DEF IsEntry


\* The lines of all entries, up to the end of the payload.
LEMMA EntriesTile ==
  ASSUME Decoding, result = "ok", NEW w \in Seq(Nat), StandsIn(payload, w, 8)
  PROVE  TilesFrom(AllEntryLines, w, 8, Len(payload) + 8)
<1>1. PICK N \in Nat : N = Len(entries)
  BY DEF Decoding, Parsed
<1> DEFINE e(i) == EntryLines(entries[i])
           ss(n) == [i \in 1..n |-> e(i)]
           here(n) == Begins(n + 1) + 7
           T == {n \in 0..N : TilesFrom(FlattenSeq(ss(n)), w, 8, here(n))}
<1>2. ASSUME NEW n \in 0..(N - 1)
      PROVE  TilesFrom(e(n + 1), w, here(n), here(n + 1)) /\ here(n) \in Int
  <2>1. n + 1 \in 1..Len(entries)
    BY <1>1
  <2>2. PICK y : y = entries[n + 1] /\ IsEntry(y) /\ y.from = Begins(n + 1)
    BY <2>1 DEF Decoding, Parsed
  <2>3. y.from \in Nat /\ y.to \in Nat
    BY <2>2 DEF IsEntry, Entry
  <2>4. Begins((n + 1) + 1) = y.to + 1
    <3>1. (n + 1) + 1 # 1 /\ ((n + 1) + 1) - 1 = n + 1
      OBVIOUS
    <3> QED
      BY <2>2, <3>1 DEF Begins
  <2>5. here(n + 1) = y.to + 8 /\ here(n) = y.from + 7
    BY <2>2, <2>3, <2>4
  <2>6. TilesFrom(EntryLines(y), w, y.from + 7, y.to + 8)
    BY <2>2, EntryTiles DEF Decoding, Typed
  <2> QED
    BY <2>2, <2>3, <2>5, <2>6
<1>3. \A i \in 1..N : e(i) \in Seq(Lines)
  <2> TAKE i \in 1..N
  <2>1. PICK n \in 0..(N - 1) : i = n + 1
    <3>1. i - 1 \in 0..(N - 1) /\ i = (i - 1) + 1
      OBVIOUS
    <3> QED
      BY <3>1, Zenon
  <2>2. TilesFrom(e(n + 1), w, here(n), here(n + 1))
    BY <1>2
  <2> HIDE DEF here, e
  <2> QED
    BY <2>1, <2>2 DEF TilesFrom
<1> HIDE DEF e, here
<1>4. \A n \in 0..N : ss(n) \in Seq(Seq(Lines)) /\ Len(ss(n)) = n /\ \A i \in 1..n : ss(n)[i] = e(i)
  BY <1>3
<1>5. ASSUME NEW n \in 0..(N - 1)
      PROVE  FlattenSeq(ss(n + 1)) = FlattenSeq(ss(n)) \o e(n + 1)
  <2>1. n \in 0..N /\ n + 1 \in 0..N /\ n + 1 \in 1..N /\ n + 1 \in 1..(n + 1)
    OBVIOUS
  <2>2. PICK x : x = ss(n) /\ x \in Seq(Seq(Lines)) /\ Len(x) = n /\ \A i \in 1..n : x[i] = e(i)
    BY <1>4, <2>1
  <2>3. PICK y : y = ss(n + 1) /\ y \in Seq(Seq(Lines)) /\ Len(y) = n + 1 /\ \A i \in 1..(n + 1) : y[i] = e(i)
    BY <1>4, <2>1
  <2>4. PICK l \in Seq(Lines) : l = e(n + 1)
    BY <1>3, <2>1
  <2> HIDE DEF ss
  <2>5. Append(x, l) = y
    <3>1. Len(y) = Len(x) + 1 /\ y[Len(x) + 1] = l /\ \A i \in 1..Len(x) : y[i] = x[i]
      BY <2>1, <2>2, <2>3, <2>4
    <3>2. x \in Seq(Seq(Lines)) /\ y \in Seq(Seq(Lines)) /\ l \in Seq(Lines)
      BY <2>2, <2>3
    <3> QED
      BY <3>1, <3>2, AppendIs
  <2>6. FlattenSeq(Append(x, l)) = FlattenSeq(x) \o l
    BY <2>2, FlattenAppend
  <2> QED
    BY <2>2, <2>3, <2>4, <2>5, <2>6
<1>6. 0 \in T
  <2>1. FlattenSeq(ss(0)) = <<>>
    <3>1. ss(0) \in Seq(Seq(Lines)) /\ Len(ss(0)) = 0
      BY <1>4, 0 \in 0..N
    <3>2. ss(0) = <<>>
      BY <3>1
    <3>3. FlattenSeq(ss(0)) = ss(0)
      BY <3>1, FlattenEmpty
    <3> QED
      BY <3>2, <3>3
  <2>2. here(0) = 8
    BY DEF here, Begins
  <2> HIDE DEF ss
  <2> QED
    BY <2>1, <2>2, TilesNothing
<1>7. ASSUME NEW n \in 0..(N - 1), n \in T
      PROVE  n + 1 \in T
  <2>1. TilesFrom(FlattenSeq(ss(n)), w, 8, here(n))
    BY <1>7
  <2> HIDE DEF ss
  <2>2. TilesFrom(FlattenSeq(ss(n)) \o e(n + 1), w, 8, here(n + 1))
    BY <1>2, <2>1, TilesJoin
  <2>3. TilesFrom(FlattenSeq(ss(n + 1)), w, 8, here(n + 1))
    BY <1>5, <2>2, Zenon
  <2>4. n + 1 \in 0..N
    OBVIOUS
  <2> QED
    BY <2>3, <2>4, Zenon
<1>8. N \in T
  <2> HIDE DEF T
  <2>1. \A n \in 0..(N - 1) : n \in T => n + 1 \in T
    BY <1>7
  <2>2. 0..N \subseteq T
    BY <1>6, <2>1, Induction, Zenon
  <2> QED
    BY <2>2
<1>9. TilesFrom(FlattenSeq(ss(N)), w, 8, here(N))
  BY <1>8
<1>10. here(N) = Len(payload) + 8
  <2>1. Begins(N + 1) = Len(payload) + 1 /\ Len(payload) \in Nat
    BY <1>1 DEF Decoding, Parsed, Typed
  <2> QED
    BY <2>1 DEF here
<1>11. AllEntryLines = FlattenSeq(ss(N))
  BY <1>1 DEF AllEntryLines, e
<1> HIDE DEF ss
<1> QED
  BY <1>9, <1>10, <1>11, Zenon

-----------------------------------------------------------------------------
(* The frames                                                              *)

LEMMA EightOctets ==
  ASSUME NEW h, h.length \in Nat, h.type \in Nat, h.flags \in Nat, h.stream \in Nat
  PROVE  EncodeHeader(h) \in Seq(Nat) /\ Len(EncodeHeader(h)) = 8
<1>1. PICK l \in Nat, m \in Nat, i \in Nat, j \in Nat : l = h.length /\ m = h.stream /\ i = h.type /\ j = h.flags
  OBVIOUS
<1>2. ASSUME NEW n \in Nat
      PROVE  n % 256 \in Nat /\ (n \div 256) % 256 \in Nat /\ (n \div 65536) % 256 \in Nat
  OBVIOUS
<1>3. PICK a \in Nat, b \in Nat, c \in Nat : a = (l \div 65536) % 256 /\ b = (l \div 256) % 256 /\ c = l % 256
  BY <1>2
<1>4. PICK d \in Nat, e \in Nat, f \in Nat : d = (m \div 65536) % 256 /\ e = (m \div 256) % 256 /\ f = m % 256
  BY <1>2
<1>5. <<a, b, c, i, j, d, e, f>> \in Seq(Nat) /\ Len(<<a, b, c, i, j, d, e, f>>) = 8
  OBVIOUS
<1>6. EncodeHeader(h) = <<a, b, c, i, j, d, e, f>>
  BY <1>1, <1>3, <1>4 DEF EncodeHeader
<1> QED
  BY <1>5, <1>6, Zenon

LEMMA WireFacts ==
  ASSUME payload \in Seq(Octets), NEW type \in Nat
  PROVE  /\ SerializeFrame(Dumped(type)) \in Seq(Nat)
         /\ Len(SerializeFrame(Dumped(type))) = 8 + Len(payload)
         /\ StandsIn(payload, SerializeFrame(Dumped(type)), 8)
<1>1. PICK x \in Seq(Nat) : x = payload
  <2>1. \A i \in 1..Len(payload) : payload[i] \in Nat
    <3> TAKE i \in 1..Len(payload)
    <3>1. payload[i] \in Octets
      OBVIOUS
    <3> QED
      BY <3>1, Constants
  <2>2. payload \in Seq(Nat)
    BY <2>1
  <2> QED
    BY <2>2
<1>2. PICK h \in Seq(Nat) : /\ Len(h) = 8
                            /\ h = EncodeHeader([length |-> Len(x), type |-> type, flags |-> 5, stream |-> Stream])
  <2>1. Len(x) \in Nat /\ 5 \in Nat /\ Stream \in Nat
    BY DumpAssumption DEF Uint24
  <2>2. PICK r : r = [length |-> Len(x), type |-> type, flags |-> 5, stream |-> Stream]
    OBVIOUS
  <2>3. r.length \in Nat /\ r.type \in Nat /\ r.flags \in Nat /\ r.stream \in Nat
    BY <2>1, <2>2
  <2>4. EncodeHeader(r) \in Seq(Nat) /\ Len(EncodeHeader(r)) = 8
    BY <2>3, EightOctets
  <2> QED
    BY <2>2, <2>4
<1>3. SerializeFrame(Dumped(type)) = h \o x
  BY <1>1, <1>2 DEF SerializeFrame, Serialize, Dumped
<1>4. h \o x \in Seq(Nat) /\ Len(h \o x) = 8 + Len(x)
  BY <1>2, JoinType
<1>5. StandsIn(x, h \o x, 8)
  BY <1>2, StandsSecond
<1> QED
  BY <1>1, <1>3, <1>4, <1>5


LEMMA BelowHeader ==
  ASSUME NEW w \in Seq(Nat), Len(w) >= 8, NEW b, NEW y, TilesFrom(y, w, 8, b)
  PROVE  Tile(HeaderLines(w) \o y, w, b)
<1>1. PICK x : x = HeaderLines(w) /\ TilesFrom(x, w, 0, 8) /\ Len(x) = 4
  BY HeaderTiles
<1>2. TilesFrom(x \o y, w, 0, b)
  BY <1>1, 8 \in Int, TilesJoin, Zenon
<1>3. Len(x \o y) # 0
  <2>1. x \in Seq(Lines) /\ y \in Seq(Lines)
    BY <1>1 DEF TilesFrom
  <2>2. Len(x \o y) = Len(x) + Len(y) /\ Len(y) \in Nat
    BY <2>1, JoinType
  <2> QED
    BY <1>1, <2>2
<1> QED
  BY <1>1, <1>2, <1>3, TilesWhole, Zenon

\* All of a sequence that stands in w, in one line.
LEMMA OneTile ==
  ASSUME NEW w \in Seq(Nat), NEW x \in Seq(Nat), NEW at \in Nat, StandsIn(x, w, at)
  PROVE  TilesFrom(<<Line(at, at + Len(x) - 1, x)>>, w, at, at + Len(x))
<1>1. PICK n \in Nat : n = Len(x) /\ at + n <= Len(w)
  <2>1. at + Len(x) <= Len(w) /\ Len(x) \in Nat
    BY DEF StandsIn
  <2> QED
    BY <2>1
<1>2. x = SubSeq(w, at + 1, at + n)
  <2>1. SubSeq(x, 0 + 1, n) \in Seq(Nat) /\ SubSeq(x, 0 + 1, n) = SubSeq(w, at + (0 + 1), at + n)
    <3>1. PartsStand(x, w, at)
      BY RowOctets
    <3>2. 0 \in Nat /\ n <= Len(x)
      BY <1>1
    <3> QED
      BY <3>1, <3>2, Zenon DEF PartsStand
  <2>2. PICK y \in Seq(Nat) : y = SubSeq(x, 1, n) /\ y = SubSeq(w, at + 1, at + n)
    <3>1. 0 + 1 = 1
      OBVIOUS
    <3>2. SubSeq(x, 1, n) \in Seq(Nat) /\ SubSeq(x, 1, n) = SubSeq(w, at + 1, at + n)
      BY <2>1, <3>1, Zenon
    <3> QED
      BY <3>2, Zenon
  <2>3. Len(y) = n /\ \A i \in 1..n : y[i] = x[i]
    <3>1. \A i \in 1..n : x[i] \in Nat
      BY <1>1
    <3>2. \A i \in 1..(n - 1 + 1) : y[i] = x[1 + i - 1]
      BY <2>2, <3>1, SubSeqProperties
    <3> QED
      BY <2>2, <3>1, <3>2, SubSeqProperties
  <2>4. y = x
    BY <1>1, <2>3, SeqEqual
  <2> QED
    BY <2>2, <2>4
<1>3. PICK c \in Nat, z \in Int : c = at + n /\ z = c - 1 /\ at <= c /\ c <= Len(w) /\ x = SubSeq(w, at + 1, c)
  BY <1>1, <1>2
<1>4. TilesFrom(<<>>, w, at, at)
  BY TilesNothing
<1>5. TilesFrom(Append(<<>>, Line(at, z, x)), w, at, c)
  BY <1>3, <1>4, TilesAppend
<1>6. Append(<<>>, Line(at, z, x)) = <<Line(at, z, x)>>
  OBVIOUS
<1> QED
  BY <1>1, <1>3, <1>5, <1>6

\* LinesTile of BhttpDump: the dumps of bcurl -v and annotate show every octet
\* they are to show once, and at its place.
THEOREM LinesAreTiled == Spec => []LinesTile
<1>1. ASSUME Decoding, result # "none", NEW type \in {FrameHeaders, FrameData, 153},
             NEW f, f = Dumped(type), NEW w, w = SerializeFrame(f),
             NEW dump, dump = DumpFrame(f), NEW markdown, markdown = FormatMarkdownAnnotatedHexdump(f)
      PROVE  /\ Tile(HexDumpBlock(w, 0), w, Len(w))
             /\ type = FrameHeaders =>
                  /\ Tile(dump, w, IF result = "ok" THEN Len(w) ELSE FrameHeaderSize)
                  /\ Tile(markdown, w, IF result = "ok" THEN Len(w) ELSE FrameHeaderSize)
             /\ type = FrameData =>
                  /\ Tile(dump, w, Min({Len(w), FrameHeaderSize + PreviewSize}))
                  /\ Tile(markdown, w, Len(w))
             /\ type = 153 => Tile(dump, w, Len(w))
  <2>1. payload \in Seq(Octets) /\ type \in Nat
    BY <1>1 DEF Decoding, Typed, FrameHeaders, FrameData
  <2>2. PICK x \in Seq(Nat), n \in Nat : x = payload /\ n = Len(x)
    <3>1. \A i \in 1..Len(payload) : payload[i] \in Nat
      <4> TAKE i \in 1..Len(payload)
      <4>1. payload[i] \in Octets
        BY <2>1
      <4> QED
        BY <4>1, Constants, ZenonT(30)
    <3>2. payload \in Seq(Nat) /\ Len(payload) \in Nat
      BY <2>1, <3>1
    <3> QED
      BY <3>2
  <2>3. w \in Seq(Nat) /\ Len(w) = 8 + n /\ StandsIn(x, w, 8) /\ Len(w) >= 8
    <3>1. w \in Seq(Nat) /\ Len(w) = 8 + n /\ StandsIn(x, w, 8)
      BY <1>1, <2>1, <2>2, WireFacts
    <3> QED
      BY <3>1
  <2>4. f.type = type /\ f.payload = x /\ FrameHeaderSize = 8
    BY <1>1, <2>2 DEF Dumped, FrameHeaderSize
  <2>5. Tile(HexDumpBlock(w, 0), w, Len(w))
    <3>1. StandsIn(w, w, 0)
      BY <2>3 DEF StandsIn
    <3>2. TilesFrom(HexDumpBlock(w, 0), w, 0, 0 + Len(w)) /\ Len(HexDumpBlock(w, 0)) # 0
      BY <2>3, <3>1, RowsTile
    <3>3. 0 + Len(w) = Len(w)
      BY <2>3
    <3> QED
      BY <3>2, <3>3, TilesWhole
  <2>6. ASSUME type = FrameHeaders
        PROVE  /\ Tile(dump, w, IF result = "ok" THEN Len(w) ELSE FrameHeaderSize)
               /\ Tile(markdown, w, IF result = "ok" THEN Len(w) ELSE FrameHeaderSize)
    <3>1. PICK y, b : /\ y = AllEntryLines /\ b = (IF result = "ok" THEN Len(w) ELSE FrameHeaderSize)
                      /\ TilesFrom(y, w, 8, b)
      <4>1. CASE result = "ok"
        <5>1. TilesFrom(AllEntryLines, w, 8, Len(payload) + 8)
          BY <1>1, <2>2, <2>3, <4>1, EntriesTile
        <5>2. Len(payload) + 8 = Len(w)
          BY <2>2, <2>3
        <5> QED
          BY <4>1, <5>1, <5>2
      <4>2. CASE result # "ok"
        <5>1. AllEntryLines = <<>>
          BY <4>2 DEF AllEntryLines
        <5> QED
          BY <2>4, <4>2, <5>1, TilesNothing
      <4> QED
        BY <4>1, <4>2
    <3>2. dump = HeaderLines(w) \o y /\ markdown = HeaderLines(w) \o y
      <4>1. dump = HeaderLines(w) \o AllEntryLines
        BY <1>1, <2>4, <2>6 DEF DumpFrame, FrameHeaders, FrameData
      <4>2. markdown = HeaderLines(w) \o AllEntryLines
        BY <1>1, <2>4, <2>6 DEF FormatMarkdownAnnotatedHexdump, FrameHeaders, FrameData
      <4> QED
        BY <3>1, <4>1, <4>2, Zenon
    <3>3. Tile(HeaderLines(w) \o y, w, b)
      BY <2>3, <3>1, BelowHeader
    <3> QED
      BY <3>1, <3>2, <3>3
  <2>7. ASSUME type = FrameData
        PROVE  /\ Tile(dump, w, Min({Len(w), FrameHeaderSize + PreviewSize}))
               /\ Tile(markdown, w, Len(w))
    <3>1. type # FrameHeaders
      BY <2>7 DEF FrameData, FrameHeaders
    <3>2. PICK p \in Nat : /\ p = Min({n, PreviewSize}) /\ p <= n
                           /\ Min({Len(w), FrameHeaderSize + PreviewSize}) = 8 + p
      <4>1. PICK m \in Nat : m = PreviewSize
        BY DumpAssumption
      <4>2. Min({n, m}) = IF n <= m THEN n ELSE m
        BY LesserFacts
      <4>3. PICK k \in Nat, j \in Nat : k = Len(w) /\ j = FrameHeaderSize + m /\ k = 8 + n /\ j = 8 + m
        BY <2>3, <2>4
      <4>4. Min({k, j}) = IF k <= j THEN k ELSE j
        BY LesserFacts
      <4>5. PICK p \in Nat : p = Min({n, m}) /\ p <= n /\ Min({k, j}) = 8 + p
        BY <4>2, <4>3, <4>4
      <4> QED
        BY <4>1, <4>3, <4>5, Zenon
    <3>3. PICK s \in Seq(Nat) : s = Preview(f) /\ Len(s) = p /\ StandsIn(s, w, 8)
      <4>1. \A i \in 1..p : x[i] \in Nat
        BY <2>2, <3>2
      <4>2. PICK s : s = SubSeq(x, 1, p)
        OBVIOUS
      <4>3. s \in Seq(Nat) /\ Len(s) = p /\ \A i \in 1..p : s[i] = x[i]
        <5>1. \A i \in 1..(p - 1 + 1) : s[i] = x[1 + i - 1]
          BY <4>1, <4>2, SubSeqProperties
        <5> QED
          BY <4>1, <4>2, <5>1, SubSeqProperties
      <4>4. s = Preview(f)
        BY <2>2, <2>4, <3>2, <4>2, Zenon DEF Preview
      <4>5. StandsIn(s, w, 8)
        <5>1. 8 + p <= Len(w)
          BY <2>3, <3>2
        <5>2. \A i \in 1..p : w[8 + i] = x[i]
          <6> TAKE i \in 1..p
          <6>1. i \in 1..Len(x)
            BY <2>2, <3>2
          <6> QED
            BY <2>3, <6>1 DEF StandsIn
        <5> QED
          BY <4>3, <5>1, <5>2 DEF StandsIn
      <4> QED
        BY <4>3, <4>4, <4>5
    <3>4. dump = HeaderLines(w) \o HexDumpBlock(s, 8)
      BY <1>1, <2>4, <2>7, <3>1, <3>3 DEF DumpFrame
    <3>5. markdown = HeaderLines(w) \o <<Line(8, 8 + Len(x) - 1, x)>>
      BY <1>1, <2>4, <2>7, <3>1 DEF FormatMarkdownAnnotatedHexdump
    <3>6. Tile(dump, w, 8 + p)
      <4>1. TilesFrom(HexDumpBlock(s, 8), w, 8, 8 + p)
        BY <2>3, <3>3, RowsTile
      <4> QED
        BY <2>3, <3>4, <4>1, BelowHeader
    <3>7. Tile(markdown, w, Len(w))
      <4>1. TilesFrom(<<Line(8, 8 + Len(x) - 1, x)>>, w, 8, 8 + Len(x))
        BY <2>3, OneTile
      <4>2. 8 + Len(x) = Len(w)
        BY <2>2, <2>3
      <4> QED
        BY <2>3, <3>5, <4>1, <4>2, BelowHeader
    <3> QED
      BY <3>2, <3>6, <3>7
  <2>8. ASSUME type = 153
        PROVE  Tile(dump, w, Len(w))
    <3>1. type # FrameHeaders /\ type # FrameData
      BY <2>8 DEF FrameData, FrameHeaders
    <3>2. dump = HeaderLines(w) \o HexDumpBlock(x, 8)
      BY <1>1, <2>4, <3>1 DEF DumpFrame
    <3>3. TilesFrom(HexDumpBlock(x, 8), w, 8, Len(w))
      <4>1. TilesFrom(HexDumpBlock(x, 8), w, 8, 8 + Len(x))
        BY <2>3, RowsTile
      <4> QED
        BY <2>2, <2>3, <4>1
    <3> QED
      BY <2>3, <3>2, <3>3, BelowHeader
  <2> QED
    BY <2>5, <2>6, <2>7, <2>8
<1>2. Decoding => LinesTile
  <2> SUFFICES ASSUME Decoding, result # "none", NEW type \in {FrameHeaders, FrameData, 153}
      PROVE  LET f == Dumped(type)  wire == SerializeFrame(f)
                 dump == DumpFrame(f)  markdown == FormatMarkdownAnnotatedHexdump(f)
             IN /\ Tile(HexDumpBlock(wire, 0), wire, Len(wire))
                /\ type = FrameHeaders =>
                     \A lines \in {dump, markdown} :
                       Tile(lines, wire, IF result = "ok" THEN Len(wire) ELSE FrameHeaderSize)
                /\ type = FrameData =>
                     /\ Tile(dump, wire, Min({Len(wire), FrameHeaderSize + PreviewSize}))
                     /\ Tile(markdown, wire, Len(wire))
                /\ type = 153 => Tile(dump, wire, Len(wire))
    BY DEF LinesTile
  <2>1. PICK f, w, dump, markdown : /\ f = Dumped(type) /\ w = SerializeFrame(f)
                                    /\ dump = DumpFrame(f) /\ markdown = FormatMarkdownAnnotatedHexdump(f)
    OBVIOUS
  <2>2. /\ Tile(HexDumpBlock(w, 0), w, Len(w))
        /\ type = FrameHeaders =>
             /\ Tile(dump, w, IF result = "ok" THEN Len(w) ELSE FrameHeaderSize)
             /\ Tile(markdown, w, IF result = "ok" THEN Len(w) ELSE FrameHeaderSize)
        /\ type = FrameData =>
             /\ Tile(dump, w, Min({Len(w), FrameHeaderSize + PreviewSize}))
             /\ Tile(markdown, w, Len(w))
        /\ type = 153 => Tile(dump, w, Len(w))
    BY <1>1, <2>1, ZenonT(30)
  <2>3. type = FrameHeaders =>
          \A lines \in {dump, markdown} : Tile(lines, w, IF result = "ok" THEN Len(w) ELSE FrameHeaderSize)
    BY <2>2
  <2> QED
    BY <2>1, <2>2, <2>3
<1> QED
  BY <1>2, AlwaysDecoding, PTL
=============================================================================
