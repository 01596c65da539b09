------------------------- MODULE BhttpFramingProofs -------------------------
(***************************************************************************)
(* The frame header loses nothing that fits, and WriteFrame refuses        *)
(* exactly the frames that do not fit, for every length and identifier     *)
(* (frame.go:113-170): TLC could try a few of the 2^64 headers.  On top of *)
(* this, octets implement the channel of frames (frame.go:149-201), for    *)
(* any frames, any number of them and pieces of any size.  The proof keeps *)
(* the place where each frame ends in the stream of octets: what the       *)
(* reader has not taken yet is the stream from where it stands.            *)
(***************************************************************************)
EXTENDS BhttpFraming, SequenceTheorems, TLAPS

-----------------------------------------------------------------------------
(* The header.  The leaves name SMT because Zenon does not take numerals   *)
(* of this size.                                                           *)

\* A number of any size cut to 24 bits, and its last three octets.
Cut24(n)  == n % 16777216
High(n)   == (n \div 65536) % 256
Middle(n) == (n \div 256) % 256
Low(n)    == n % 256

LEMMA OctetsAreOctets ==
  ASSUME NEW n \in Nat
  PROVE  High(n) \in Octet /\ Middle(n) \in Octet /\ Low(n) \in Octet
BY SMT DEF Octet, High, Middle, Low

LEMMA MaxType == MaxPayloadSize \in Nat
BY SMT DEF MaxPayloadSize

\* What fits is not cut, what does not fit is.
LEMMA CutIsExact ==
  ASSUME NEW n \in Nat
  PROVE  Cut24(n) = n <=> n <= MaxPayloadSize
BY SMT DEF MaxPayloadSize, Cut24

\* Put together again the octets are the number cut to 24 bits.
LEMMA OctetsTruncate ==
  ASSUME NEW n \in Nat
  PROVE  High(n) * 65536 + Middle(n) * 256 + Low(n) = Cut24(n)
<1> DEFINE a == n \div 256
           b == n \div 65536
           c == n \div 16777216
<1>1. a \in Nat /\ n = a * 256 + (n % 256) /\ n % 256 \in 0..255
  BY SMT
<1>2. b \in Nat /\ a = b * 256 + (a % 256) /\ a % 256 \in 0..255
  BY SMT
<1>3. c \in Nat /\ b = c * 256 + (b % 256) /\ b % 256 \in 0..255
  BY SMT
<1>4. n = c * 16777216 + Cut24(n) /\ Cut24(n) \in Nat
  BY SMT DEF Cut24
<1>5. High(n) = b % 256 /\ Middle(n) = a % 256 /\ Low(n) = n % 256
  BY SMT DEF High, Middle, Low
<1> HIDE DEF a, b, c
<1>6. (b % 256) * 65536 + (a % 256) * 256 + (n % 256) = n - c * 16777216
  BY <1>1, <1>2, <1>3, SMT
<1> QED
  BY <1>3, <1>4, <1>5, <1>6, SMT

\* What DecodeHeader makes of an encoded header: the numbers cut to 24 bits.
LEMMA DecodeEncode ==
  ASSUME NEW h \in [length : Nat, type : Octet, flags : Octet, stream : Nat]
  PROVE  DecodeHeader(EncodeHeader(h)) = [length |-> Cut24(h.length), type |-> h.type,
                                          flags |-> h.flags, stream |-> Cut24(h.stream)]
<1> DEFINE e == EncodeHeader(h)
<1>1. e = << High(h.length), Middle(h.length), Low(h.length), h.type, h.flags,
             High(h.stream), Middle(h.stream), Low(h.stream) >>
  BY SMT DEF EncodeHeader, High, Middle, Low
<1>2. h.length \in Nat /\ h.stream \in Nat
  BY SMT
<1> HIDE DEF e
<1>3. /\ High(h.length) * 65536 + Middle(h.length) * 256 + Low(h.length) = Cut24(h.length)
      /\ High(h.stream) * 65536 + Middle(h.stream) * 256 + Low(h.stream) = Cut24(h.stream)
  BY <1>2, OctetsTruncate, SMT
<1>4. /\ e[1] * 65536 + e[2] * 256 + e[3] = Cut24(h.length)
      /\ e[4] = h.type /\ e[5] = h.flags
      /\ e[6] * 65536 + e[7] * 256 + e[8] = Cut24(h.stream)
  BY <1>1, <1>3, SMT
<1>5. DecodeHeader(e) = [length |-> Cut24(h.length), type |-> h.type, flags |-> h.flags,
                         stream |-> Cut24(h.stream)]
  BY <1>4, SMT DEF DecodeHeader
<1> QED
  BY <1>5, SMT DEF e

\* A header that fits is eight octets, and decodes to itself: ReadFrame sees
\* the length, type, flags and stream that WriteFrame was given.
THEOREM HeaderRoundTrip ==
  \A h \in FrameHeader : /\ EncodeHeader(h) \in [1..FrameHeaderSize -> Octet]
                         /\ DecodeHeader(EncodeHeader(h)) = h
<1> SUFFICES ASSUME NEW h \in FrameHeader
             PROVE  /\ EncodeHeader(h) \in [1..FrameHeaderSize -> Octet]
                    /\ DecodeHeader(EncodeHeader(h)) = h
  BY SMT
<1>1. h \in [length : Nat, type : Octet, flags : Octet, stream : Nat]
      /\ h.length \in Nat /\ h.length <= MaxPayloadSize /\ h.stream \in Nat /\ h.stream <= MaxPayloadSize
  BY MaxType, SMT DEF FrameHeader, Uint24
<1>2. Cut24(h.length) = h.length /\ Cut24(h.stream) = h.stream
  BY <1>1, CutIsExact, SMT
<1>3. DecodeHeader(EncodeHeader(h)) = h
  BY <1>1, <1>2, DecodeEncode, SMT
<1>4. /\ EncodeHeader(h) = << High(h.length), Middle(h.length), Low(h.length), h.type, h.flags,
                              High(h.stream), Middle(h.stream), Low(h.stream) >>
      /\ h.type \in Octet /\ h.flags \in Octet
  BY <1>1, SMT DEF EncodeHeader, High, Middle, Low
<1>5. EncodeHeader(h) \in [1..8 -> Octet]
  BY <1>1, <1>4, OctetsAreOctets, SMT
<1> QED
  BY <1>3, <1>5, SMT DEF FrameHeaderSize

\* The refusals of WriteFrame (frame.go:151-156) are exact: the header of a
\* frame survives encoding and decoding if and only if WriteFrame takes it.
THEOREM RefusalIsExact ==
  \A f \in [payload : Seq(Octet), type : Octet, flags : Octet, stream : Nat] :
    LET h == [length |-> Len(f.payload), type |-> f.type, flags |-> f.flags, stream |-> f.stream]
    IN ~Refused(f) <=> DecodeHeader(EncodeHeader(h)) = h
<1> SUFFICES ASSUME NEW f \in [payload : Seq(Octet), type : Octet, flags : Octet, stream : Nat]
             PROVE  LET h == [length |-> Len(f.payload), type |-> f.type, flags |-> f.flags,
                              stream |-> f.stream]
                    IN ~Refused(f) <=> DecodeHeader(EncodeHeader(h)) = h
  BY SMT
<1> DEFINE h == [length |-> Len(f.payload), type |-> f.type, flags |-> f.flags, stream |-> f.stream]
<1>1. h \in [length : Nat, type : Octet, flags : Octet, stream : Nat]
  BY SMT
<1>2. h.length = Len(f.payload) /\ h.stream = f.stream
  BY SMT
<1> HIDE DEF h
<1>3. h.length \in Nat /\ h.stream \in Nat
  BY <1>1, SMT
<1>4. DecodeHeader(EncodeHeader(h)) = [length |-> Cut24(h.length), type |-> h.type,
                                       flags |-> h.flags, stream |-> Cut24(h.stream)]
  BY <1>1, DecodeEncode, SMT
<1>5. DecodeHeader(EncodeHeader(h)) = h <=> Cut24(h.length) = h.length /\ Cut24(h.stream) = h.stream
  BY <1>1, <1>4, SMT
<1>6. ~Refused(f) <=> h.length <= MaxPayloadSize /\ h.stream <= MaxPayloadSize
  BY <1>2, <1>3, MaxType, SMT DEF Refused
<1>7. ~Refused(f) <=> DecodeHeader(EncodeHeader(h)) = h
  BY <1>3, <1>5, <1>6, CutIsExact, SMT
<1> QED
  BY <1>7, SMT DEF h

-----------------------------------------------------------------------------
(* The stream of octets                                                    *)

\* The frames that are written.
Fits == {f \in Offers : ~Refused(f)}

HeaderOf(f) == [length |-> Len(f.payload), type |-> f.type, flags |-> f.flags, stream |-> f.stream]
Size(f) == FrameHeaderSize + Len(f.payload)

LEMMA EightOctets ==
  ASSUME NEW e \in [1..8 -> Octet]
  PROVE  e \in Seq(Octet) /\ Len(e) = 8
<1>1. e = [i \in 1..8 |-> e[i]] /\ [i \in 1..8 |-> e[i]] \in Seq(Octet)
  BY SMT
<1>2. e \in Seq(Octet)
  BY <1>1, Zenon
<1>3. DOMAIN e = 1..8
  OBVIOUS
<1>4. Len(e) \in Nat /\ DOMAIN e = 1..Len(e)
  BY <1>2, LenProperties
<1> QED
  BY <1>2, <1>3, <1>4, SMT

\* A frame's octets: its header, which decodes to its fields wherever it is
\* found, and its payload behind.
LEMMA Octets ==
  ASSUME NEW f \in Fits
  PROVE  /\ f.payload \in Seq(Octet) /\ Len(f.payload) \in Nat /\ Size(f) \in Nat
         /\ Size(f) = 8 + Len(f.payload)
         /\ HeaderOf(f) \in FrameHeader /\ HeaderOf(f) # NoHeader
         /\ HeaderOf(f).length = Len(f.payload)
         /\ Serialize(f) \in Seq(Octet) /\ Len(Serialize(f)) = Size(f)
         /\ \A b : (\A x \in 1..8 : b[x] = Serialize(f)[x]) => DecodeHeader(b) = HeaderOf(f)
         /\ \A x \in 1..Len(f.payload) : Serialize(f)[8 + x] = f.payload[x]
<1> DEFINE h == HeaderOf(f)
           e == EncodeHeader(h)
<1>1. f \in [payload : Seq(Octet), type : Octet, flags : Octet, stream : Nat] /\ ~Refused(f)
  BY FramingAssumption, Zenon DEF Fits
<1>2. f.payload \in Seq(Octet) /\ Len(f.payload) \in Nat /\ f.type \in Octet /\ f.flags \in Octet
      /\ f.stream \in Nat
  BY <1>1, SMT
<1>3. Len(f.payload) \in Uint24 /\ f.stream \in Uint24
  BY <1>1, <1>2, MaxType, SMT DEF Refused, Uint24
<1>4. h \in FrameHeader /\ h.length = Len(f.payload) /\ h.type = f.type
  BY <1>2, <1>3, SMT DEF HeaderOf, FrameHeader
<1>5. h # NoHeader
  <2>1. NoHeader.type \notin Octet
    BY SMT DEF NoHeader, Octet
  <2> QED
    BY <1>2, <1>4, <2>1, Zenon
<1>6. e \in [1..8 -> Octet] /\ DecodeHeader(e) = h
  BY <1>4, HeaderRoundTrip, SMT DEF FrameHeaderSize
<1>7. Serialize(f) = e \o f.payload
  BY Zenon DEF Serialize, HeaderOf
<1> HIDE DEF h, e
<1>8. e \in Seq(Octet) /\ Len(e) = 8
  BY <1>6, EightOctets
<1>9. /\ Serialize(f) \in Seq(Octet) /\ Len(Serialize(f)) = 8 + Len(f.payload)
      /\ \A x \in 1..(8 + Len(f.payload)) :
           Serialize(f)[x] = IF x <= 8 THEN e[x] ELSE f.payload[x - 8]
  <2> DEFINE q == f.payload
  <2>1. q \in Seq(Octet) /\ Len(q) \in Nat
    BY <1>2
  <2> HIDE DEF q
  <2>2. /\ e \o q \in Seq(Octet) /\ Len(e \o q) = Len(e) + Len(q)
        /\ \A x \in 1..(Len(e) + Len(q)) : (e \o q)[x] = IF x <= Len(e) THEN e[x] ELSE q[x - Len(e)]
    BY <1>8, <2>1, ConcatProperties, Zenon
  <2>3. Serialize(f) = e \o q
    BY <1>7 DEF q
  <2> QED
    BY <1>8, <2>2, <2>3 DEF q
<1>10. \A x \in 1..8 : Serialize(f)[x] = e[x]
  BY <1>2, <1>9, SMT
<1>11. \A x \in 1..Len(f.payload) : Serialize(f)[8 + x] = f.payload[x]
  BY <1>2, <1>9, SMT
<1>12. ASSUME NEW b, \A x \in 1..8 : b[x] = Serialize(f)[x] PROVE DecodeHeader(b) = h
  <2>1. /\ b[1] = e[1] /\ b[2] = e[2] /\ b[3] = e[3] /\ b[4] = e[4]
        /\ b[5] = e[5] /\ b[6] = e[6] /\ b[7] = e[7] /\ b[8] = e[8]
    BY <1>10, <1>12, SMT
  <2>2. DecodeHeader(b) = DecodeHeader(e)
    BY <2>1, SMT DEF DecodeHeader
  <2> QED
    BY <1>6, <2>2
<1>13. Size(f) = 8 + Len(f.payload) /\ Size(f) \in Nat
  BY <1>2, SMT DEF Size, FrameHeaderSize
<1> QED
  BY <1>2, <1>4, <1>5, <1>9, <1>11, <1>12, <1>13, Zenon DEF h

\* A frame is its header and its payload.
LEMMA FrameOfParts ==
  ASSUME NEW f \in Fits, NEW payload, payload = f.payload
  PROVE  LET h == HeaderOf(f) IN
         f = [type |-> h.type, flags |-> h.flags, stream |-> h.stream, payload |-> payload]
<1>1. f \in [payload : Seq(Octet), type : Octet, flags : Octet, stream : Nat]
  BY FramingAssumption, Zenon DEF Fits
<1> QED
  BY <1>1, SMT DEF HeaderOf

-----------------------------------------------------------------------------
(* Where the frames stand in the stream                                    *)

\* Frame i ends at at[i].
Places(all, at) ==
  /\ at \in [Nat -> Nat]
  /\ \A i \in 1..Len(all) : at[i] = at[i - 1] + Size(all[i])
  /\ \A i \in 0..Len(all) : \A j \in i..Len(all) : at[i] <= at[j]

\* What follows the first n frames, from the octet behind p on, is rest.
Stands(all, rest, n, p, at) ==
  /\ p + Len(rest) = at[Len(all)]
  /\ \A i \in (n + 1)..Len(all) : \A x \in 1..Size(all[i]) :
       at[i - 1] + x > p => rest[at[i - 1] + x - p] = Serialize(all[i])[x]

LEMMA PlaceFacts ==
  ASSUME NEW all \in Seq(Fits), NEW at, Places(all, at)
  PROVE  /\ Len(all) \in Nat
         /\ \A i \in Nat : at[i] \in Nat
         /\ \A i \in 1..Len(all) : /\ all[i] \in Fits /\ i \in Nat /\ i - 1 \in Nat
                                   /\ Size(all[i]) = 8 + Len(all[i].payload)
                                   /\ Size(all[i]) \in Nat
                                   /\ Len(all[i].payload) \in Nat
                                   /\ at[i] = at[i - 1] + Size(all[i])
<1>1. Len(all) \in Nat /\ \A i \in 1..Len(all) : all[i] \in Fits
  BY LenProperties, ElementOfSeq
<1>2. \A i \in Nat : at[i] \in Nat
  BY DEF Places
<1>3. ASSUME NEW i \in 1..Len(all)
      PROVE  /\ all[i] \in Fits /\ i \in Nat /\ i - 1 \in Nat
             /\ Size(all[i]) = 8 + Len(all[i].payload)
             /\ Size(all[i]) \in Nat
             /\ Len(all[i].payload) \in Nat
             /\ at[i] = at[i - 1] + Size(all[i])
  <2>1. all[i] \in Fits /\ i \in Nat /\ i - 1 \in Nat
    BY <1>1
  <2> QED
    BY <2>1, Octets DEF Places
<1> QED
  BY <1>1, <1>2, <1>3

\* Another frame is written behind the last.
LEMMA OneMore ==
  ASSUME NEW all \in Seq(Fits), NEW rest \in Seq(Octet), NEW n \in 0..Len(all), NEW p \in Nat,
         NEW at, Places(all, at), Stands(all, rest, n, p, at), NEW f \in Fits
  PROVE  \E after : /\ Places(Append(all, f), after)
                    /\ Stands(Append(all, f), rest \o Serialize(f), n, p, after)
                    /\ \A i \in 0..Len(all) : after[i] = at[i]
<1> DEFINE l == Len(all)
           more == Append(all, f)
           s == Serialize(f)
           size == Size(f)
           after == [at EXCEPT ![l + 1] = at[l] + size]
           longer == rest \o s
<1>1. /\ l \in Nat /\ n \in Nat /\ n <= l
      /\ \A i \in Nat : at[i] \in Nat
  BY PlaceFacts
<1>2. size \in Nat /\ s \in Seq(Octet) /\ Len(s) = size
  BY Octets
<1>3. /\ Len(more) = l + 1 /\ \A i \in 1..l : more[i] = all[i]
      /\ more[l + 1] = f
  BY AppendProperties
<1>4. at \in [Nat -> Nat] /\ l + 1 \in Nat /\ at[l] + size \in Nat
  <2>1. at \in [Nat -> Nat]
    BY DEF Places
  <2>2. at[l] \in Nat
    BY <1>1
  <2>3. size \in Nat /\ l \in Nat
    BY <1>1, <1>2
  <2>4. \A i, j \in Nat : i + j \in Nat /\ i + 1 \in Nat
    OBVIOUS
  <2> HIDE DEF l, size
  <2> QED
    BY <2>1, <2>2, <2>3, <2>4, Zenon
<1>5. /\ after \in [Nat -> Nat] /\ after[l + 1] = at[l] + size
      /\ \A i \in 0..l : after[i] = at[i]
  <2> HIDE DEF l, size
  <2>1. \A i \in 0..l : i \in Nat /\ i # l + 1
    BY <1>1
  <2> QED
    BY <1>4, <2>1
<1>6. \A i \in 1..l : at[i] = at[i - 1] + Size(all[i])
  BY DEF Places
<1>7. \A i \in 0..l : \A j \in i..l : at[i] <= at[j]
  BY DEF Places
<1>8. Len(rest) \in Nat /\ p + Len(rest) = at[l]
  BY LenProperties DEF Stands
<1>9. /\ Len(longer) = Len(rest) + size
      /\ \A y \in 1..(Len(rest) + size) : longer[y] = IF y <= Len(rest) THEN rest[y] ELSE s[y - Len(rest)]
  BY <1>2, ConcatProperties
<1>10. \A i \in (n + 1)..l : \A x \in 1..Size(all[i]) :
         at[i - 1] + x > p => rest[at[i - 1] + x - p] = Serialize(all[i])[x]
  BY DEF Stands
<1>11. \A i \in 1..l : Size(all[i]) \in Nat
  BY PlaceFacts
<1> HIDE DEF l, more, s, size, after, longer
<1>12. Places(more, after)
  <2>1. ASSUME NEW i \in 1..(l + 1) PROVE after[i] = after[i - 1] + Size(more[i])
    <3>1. CASE i = l + 1
      <4>1. i - 1 = l /\ l \in 0..l
        BY <1>1, <3>1
      <4>2. after[i - 1] = at[l]
        BY <1>5, <4>1
      <4>3. more[i] = f
        BY <1>3, <3>1
      <4> QED
        BY <1>5, <3>1, <4>2, <4>3 DEF size
    <3>2. CASE i # l + 1
      <4>1. i \in 1..l /\ i \in 0..l /\ i - 1 \in 0..l
        BY <1>1, <3>2
      <4> QED
        BY <1>3, <1>5, <1>6, <4>1
    <3> QED
      BY <3>1, <3>2
  <2>2. ASSUME NEW i \in 0..(l + 1), NEW j \in i..(l + 1) PROVE after[i] <= after[j]
    <3>1. CASE i = l + 1
      <4>1. i = j /\ after[i] \in Nat
        BY <1>1, <1>5, <3>1
      <4> QED
        BY <4>1
    <3>2. CASE i # l + 1 /\ j = l + 1
      <4>1. i \in 0..l /\ l \in i..l /\ i \in Nat
        BY <1>1, <3>2
      <4>2. at[i] <= at[l] /\ at[i] \in Nat /\ at[l] \in Nat
        BY <1>1, <1>7, <4>1
      <4>3. at[i] <= at[l] + size
        BY <1>2, <4>2
      <4> QED
        BY <1>5, <3>2, <4>1, <4>3
    <3>3. CASE i # l + 1 /\ j # l + 1
      <4>1. i \in 0..l /\ j \in i..l /\ j \in 0..l
        BY <1>1, <3>3
      <4> QED
        BY <1>5, <1>7, <4>1
    <3> QED
      BY <3>1, <3>2, <3>3
  <2> QED
    BY <1>3, <1>5, <2>1, <2>2 DEF Places
<1>13. Stands(more, longer, n, p, after)
  <2>1. p + Len(longer) = after[Len(more)]
    <3>1. at[l] \in Nat
      BY <1>1
    <3>2. p + (Len(rest) + size) = at[l] + size
      BY <1>2, <1>8, <3>1
    <3> QED
      BY <1>3, <1>5, <1>9, <3>2
  <2>2. ASSUME NEW i \in (n + 1)..(l + 1), NEW x \in 1..Size(more[i]), after[i - 1] + x > p
        PROVE  longer[after[i - 1] + x - p] = Serialize(more[i])[x]
    <3>1. CASE i = l + 1
      <4>1. more[i] = f /\ after[i - 1] = at[l] /\ x \in 1..size
        <5>1. i - 1 = l /\ l \in 0..l
          BY <1>1, <3>1
        <5>2. more[i] = f
          BY <1>3, <3>1
        <5> QED
          BY <1>5, <5>1, <5>2 DEF size
      <4>2. after[i - 1] + x - p = Len(rest) + x
        BY <1>1, <1>2, <1>8, <4>1
      <4>3. longer[Len(rest) + x] = s[x]
        BY <1>2, <1>8, <1>9, <4>1, SMTT(30)
      <4> QED
        BY <4>1, <4>2, <4>3 DEF s
    <3>2. CASE i # l + 1
      <4>1. /\ i \in (n + 1)..l /\ i \in 1..l /\ i - 1 \in 0..l /\ i \in 0..l /\ l \in i..l
            /\ i - 1 \in Nat
        BY <1>1, <3>2
      <4>2. more[i] = all[i] /\ after[i - 1] = at[i - 1] /\ x \in 1..Size(all[i])
        BY <1>3, <1>5, <4>1
      <4>3. at[i] <= at[l] /\ at[i] = at[i - 1] + Size(all[i])
        BY <1>6, <1>7, <4>1
      <4>4. at[i - 1] \in Nat /\ at[i] \in Nat /\ Size(all[i]) \in Nat /\ at[l] \in Nat
        BY <1>1, <1>11, <4>1
      <4>5. at[i - 1] + x - p \in 1..Len(rest)
        <5>1. \A a, z, b, e, r, m \in Nat :
                z \in 1..e /\ b <= m /\ b = a + e /\ a + z > p /\ p + r = m => a + z - p \in 1..r
          OBVIOUS
        <5>2. x \in Nat /\ at[i - 1] + x > p
          BY <2>2, <4>2
        <5> QED
          BY <1>8, <4>2, <4>3, <4>4, <5>1, <5>2, Zenon
      <4>6. rest[at[i - 1] + x - p] = Serialize(all[i])[x]
        BY <1>10, <2>2, <4>1, <4>2
      <4>7. longer[at[i - 1] + x - p] = rest[at[i - 1] + x - p]
        BY <1>2, <1>8, <1>9, <4>5
      <4> QED
        BY <4>2, <4>6, <4>7
    <3> QED
      BY <3>1, <3>2
  <2> QED
    BY <1>3, <2>1, <2>2 DEF Stands
<1> QED
  BY <1>5, <1>12, <1>13 DEF more, longer, s, l

\* The reader takes the octets in front.
LEMMA Advance ==
  ASSUME NEW all \in Seq(Fits), NEW front \in Seq(Octet), NEW tail \in Seq(Octet),
         NEW n \in 0..Len(all), NEW p \in Nat, NEW at, Places(all, at),
         Stands(all, front \o tail, n, p, at)
  PROVE  /\ Stands(all, tail, n, p + Len(front), at)
         /\ n < Len(all) => Stands(all, tail, n + 1, p + Len(front), at)
<1> DEFINE rest == front \o tail
           l == Len(all)
           b == Len(front)
<1>1. l \in Nat /\ n \in Nat /\ b \in Nat /\ Len(tail) \in Nat
  BY LenProperties
<1>2. /\ Len(rest) = b + Len(tail)
      /\ \A y \in 1..(b + Len(tail)) : rest[y] = IF y <= b THEN front[y] ELSE tail[y - b]
  BY ConcatProperties
<1>3. /\ p + Len(rest) = at[l]
      /\ \A i \in (n + 1)..l : \A x \in 1..Size(all[i]) :
           at[i - 1] + x > p => rest[at[i - 1] + x - p] = Serialize(all[i])[x]
  BY DEF Stands
<1>4. \A i \in 1..l : \A j \in i..l : at[i] <= at[j]
  BY <1>1 DEF Places
<1>5. /\ \A i \in Nat : at[i] \in Nat
      /\ \A i \in 1..l : /\ i - 1 \in Nat /\ i \in Nat /\ Size(all[i]) \in Nat
                         /\ at[i] = at[i - 1] + Size(all[i])
  BY PlaceFacts
<1> HIDE DEF rest, l, b
<1>6. p + b + Len(tail) = at[l]
  BY <1>1, <1>2, <1>3
<1>7. ASSUME NEW i \in (n + 1)..l, NEW x \in 1..Size(all[i]), at[i - 1] + x > p + b
      PROVE  tail[at[i - 1] + x - (p + b)] = Serialize(all[i])[x]
  <2>1. i \in 1..l /\ l \in i..l /\ l \in Nat
    BY <1>1
  <2>2. at[i] <= at[l] /\ at[i] = at[i - 1] + Size(all[i])
    BY <1>4, <1>5, <2>1
  <2>3. at[i - 1] \in Nat /\ at[i] \in Nat /\ at[l] \in Nat /\ Size(all[i]) \in Nat
    BY <1>5, <2>1
  <2> HIDE <1>2, <1>3, <1>4, <1>5
  <2> DEFINE y == at[i - 1] + x - p
             a == at[i - 1]
  <2>4. a \in Nat /\ x \in Nat
    BY <2>3
  <2>5. y \in Nat /\ a + x > p + b /\ y = a + x - p
    BY <1>1, <1>7, <2>4
  <2>6. a + x <= at[l]
    BY <2>2, <2>3, <2>4, SMTT(30)
  <2> HIDE DEF a, y
  <2>7. y \in 1..(b + Len(tail)) /\ ~(y <= b) /\ y - b = a + x - (p + b)
    BY <1>1, <1>6, <2>3, <2>4, <2>5, <2>6
  <2>8. rest[y] = tail[y - b]
    BY <1>2, <2>7
  <2>9. a + x > p
    BY <1>1, <2>4, <2>5
  <2>10. rest[y] = Serialize(all[i])[x]
    BY <1>3, <2>9 DEF a, y
  <2> QED
    BY <2>7, <2>8, <2>10 DEF a
<1>8. n < l => \A i \in (n + 1 + 1)..l : i \in (n + 1)..l
  BY <1>1
<1> QED
  BY <1>6, <1>7, <1>8 DEF Stands, l, b

\* Eight octets gathered at the end of a frame are the header of the next.
LEMMA HeaderHere ==
  ASSUME NEW all \in Seq(Fits), NEW b \in Seq(Octet), NEW tail \in Seq(Octet), Len(b) = 8,
         NEW n \in 0..Len(all), NEW at, Places(all, at), Stands(all, b \o tail, n, at[n], at)
  PROVE  n < Len(all) /\ DecodeHeader(b) = HeaderOf(all[n + 1])
<1> DEFINE rest == b \o tail
           l == Len(all)
<1>1. l \in Nat /\ n \in Nat /\ n <= l /\ Len(tail) \in Nat /\ at[n] \in Nat /\ at[l] \in Nat
  BY LenProperties, PlaceFacts
<1>2. Len(rest) = 8 + Len(tail) /\ \A y \in 1..(8 + Len(tail)) : rest[y] = IF y <= 8 THEN b[y] ELSE tail[y - 8]
  <2>1. /\ Len(rest) = Len(b) + Len(tail)
        /\ \A y \in 1..(Len(b) + Len(tail)) : rest[y] = IF y <= Len(b) THEN b[y] ELSE tail[y - Len(b)]
    BY ConcatProperties
  <2> HIDE DEF rest
  <2> QED
    BY <2>1, Zenon
<1>3. /\ at[n] + Len(rest) = at[l]
      /\ \A i \in (n + 1)..l : \A x \in 1..Size(all[i]) :
           at[i - 1] + x > at[n] => rest[at[i - 1] + x - at[n]] = Serialize(all[i])[x]
  BY DEF Stands
<1>4. n < l
  <2>1. n = l => at[n] = at[l]
    OBVIOUS
  <2> HIDE DEF rest, l
  <2> QED
    BY <1>1, <1>2, <1>3, <2>1
<1>5. n + 1 \in 1..l /\ n + 1 \in (n + 1)..l /\ n + 1 - 1 = n
  BY <1>1, <1>4
<1>6. all[n + 1] \in Fits /\ Len(all[n + 1].payload) \in Nat /\ Size(all[n + 1]) = 8 + Len(all[n + 1].payload)
  BY <1>5, PlaceFacts
<1> DEFINE f == all[n + 1]
           s == Serialize(f)
<1>7. \A x \in 1..Size(f) : at[n] + x > at[n] => rest[at[n] + x - at[n]] = s[x]
  <2> DEFINE k == n + 1
  <2>1. k \in (n + 1)..l /\ k - 1 = n /\ f = all[k]
    BY <1>5
  <2> HIDE DEF k, f, rest, l
  <2> QED
    BY <1>3, <2>1, Zenon
<1> HIDE DEF rest, l, f, s
<1>8. ASSUME NEW x \in 1..8 PROVE b[x] = s[x]
  <2>1. x \in 1..Size(f) /\ x \in 1..(8 + Len(tail))
    <3>1. \A m \in Nat : \A y \in 1..8 : y \in 1..(8 + m)
      OBVIOUS
    <3> QED
      BY <1>1, <1>6, <3>1, Zenon DEF f
  <2>2. at[n] + x > at[n] /\ at[n] + x - at[n] = x
    BY <1>1
  <2>3. rest[x] = s[x]
    BY <1>7, <2>1, <2>2
  <2> QED
    BY <1>2, <2>1, <2>3
<1>9. f \in Fits /\ s = Serialize(f)
  BY <1>6 DEF f, s
<1>10. DecodeHeader(b) = HeaderOf(f)
  BY <1>8, <1>9, Octets
<1> QED
  BY <1>4, <1>10 DEF f, l

\* As many octets behind a header as it announces are its payload.
LEMMA PayloadHere ==
  ASSUME NEW all \in Seq(Fits), NEW b \in Seq(Octet), NEW tail \in Seq(Octet),
         NEW n \in 0..Len(all), n < Len(all), Len(b) = Len(all[n + 1].payload),
         NEW at, Places(all, at), Stands(all, b \o tail, n, at[n] + 8, at)
  PROVE  b = all[n + 1].payload
<1> DEFINE rest == b \o tail
           l == Len(all)
<1>1. l \in Nat /\ n \in Nat /\ Len(tail) \in Nat /\ at[n] \in Nat /\ Len(b) \in Nat
  BY LenProperties, PlaceFacts
<1>2. \A y \in 1..(Len(b) + Len(tail)) : rest[y] = IF y <= Len(b) THEN b[y] ELSE tail[y - Len(b)]
  BY ConcatProperties
<1>3. \A i \in (n + 1)..l : \A x \in 1..Size(all[i]) :
        at[i - 1] + x > at[n] + 8 => rest[at[i - 1] + x - (at[n] + 8)] = Serialize(all[i])[x]
  BY DEF Stands
<1>4. n + 1 \in 1..l /\ n + 1 \in (n + 1)..l /\ n + 1 - 1 = n
  BY <1>1
<1> DEFINE f == all[n + 1]
<1>5. f \in Fits
  BY <1>4, PlaceFacts
<1>6. \A x \in 1..Size(f) : at[n] + x > at[n] + 8 => rest[at[n] + x - (at[n] + 8)] = Serialize(f)[x]
  <2> DEFINE k == n + 1
  <2>1. k \in (n + 1)..l /\ k - 1 = n /\ f = all[k]
    BY <1>4
  <2> HIDE DEF k, f, rest, l
  <2> QED
    BY <1>3, <2>1, Zenon
<1>7. Len(b) = Len(f.payload)
  OBVIOUS
<1> HIDE DEF rest, l, f
<1>8. /\ f.payload \in Seq(Octet) /\ Size(f) = 8 + Len(b)
      /\ \A x \in 1..Len(b) : Serialize(f)[8 + x] = f.payload[x]
  BY <1>5, <1>7, Octets
<1>9. ASSUME NEW x \in 1..Len(b) PROVE b[x] = f.payload[x]
  <2>1. /\ 8 + x \in 1..Size(f) /\ at[n] + (8 + x) > at[n] + 8
        /\ at[n] + (8 + x) - (at[n] + 8) = x
    <3>1. \A a, m, k \in Nat : k \in 1..m => /\ 8 + k \in 1..(8 + m) /\ a + (8 + k) > a + 8
                                            /\ a + (8 + k) - (a + 8) = k
      OBVIOUS
    <3>2. x \in Nat
      OBVIOUS
    <3> QED
      BY <1>1, <1>8, <3>1, <3>2, Zenon
  <2>2. rest[x] = Serialize(f)[8 + x]
    BY <1>6, <2>1
  <2>3. rest[x] = b[x]
    BY <1>1, <1>2
  <2> QED
    BY <1>8, <2>2, <2>3
<1>10. b = f.payload
  BY <1>7, <1>8, <1>9, SeqEqual
<1> QED
  BY <1>10 DEF f

-----------------------------------------------------------------------------
(* The inductive invariant                                                 *)

\* Every frame that has been begun, and the octets the reader has not used.
All  == IF pending = <<>> THEN written ELSE Append(written, current)
Rest == buf \o (wire \o pending)

\* What the reader has used of the frame it is in.
Used == IF header = NoHeader THEN 0 ELSE 8

Typed ==
  /\ pending \in Seq(Octet) /\ wire \in Seq(Octet) /\ buf \in Seq(Octet)
  /\ written \in Seq(Fits) /\ got \in Seq(Fits)
  /\ Len(got) <= Len(written) /\ Len(written) <= MaxFrames
  /\ pending # <<>> => /\ current \in Fits /\ Len(pending) <= Size(current)
                       /\ Len(written) < MaxFrames
  /\ header # NoHeader => Len(got) < Len(All) /\ header = HeaderOf(All[Len(got) + 1])
  /\ Len(buf) <= Need
  /\ closed \in BOOLEAN
  /\ err \in {"none", "EOF", "ErrUnexpectedEOF", "ErrTruncatedPayload"}

\* Where the reader stands, the rest of the stream follows.
Aligned ==
  \E at : Places(All, at) /\ Stands(All, Rest, Len(got), at[Len(got)] + Used, at)

LEMMA AllFacts ==
  ASSUME Typed
  PROVE  /\ Len(written) \in Nat /\ Len(got) \in Nat /\ MaxFrames \in Nat
         /\ All \in Seq(Fits) /\ Len(All) \in Nat /\ Rest \in Seq(Octet)
         /\ Len(got) \in 0..Len(All) /\ Len(written) \in 0..Len(All)
         /\ \A i \in 1..Len(written) : All[i] = written[i]
         /\ pending = <<>> => All = written
         /\ pending # <<>> => Len(All) = Len(written) + 1 /\ All[Len(All)] = current
         /\ Len(Rest) = Len(buf) + Len(wire) + Len(pending)
         /\ Len(buf) \in Nat /\ Len(wire) \in Nat /\ Len(pending) \in Nat
         /\ Used \in Nat
<1>1. /\ Len(written) \in Nat /\ Len(got) \in Nat /\ MaxFrames \in Nat
      /\ Len(buf) \in Nat /\ Len(wire) \in Nat /\ Len(pending) \in Nat /\ Used \in Nat
  BY FramingAssumption, LenProperties DEF Typed, Used
<1>2. pending # <<>> => /\ All \in Seq(Fits) /\ Len(All) = Len(written) + 1
                        /\ All[Len(All)] = current
                        /\ \A i \in 1..Len(written) : All[i] = written[i]
  BY AppendProperties DEF Typed, All
<1>3. pending = <<>> => All = written
  BY DEF All
<1>4. All \in Seq(Fits) /\ \A i \in 1..Len(written) : All[i] = written[i]
  BY <1>2, <1>3 DEF Typed
<1>5. Len(All) \in Nat /\ Len(written) <= Len(All)
  BY <1>1, <1>2, <1>3
<1>6. Len(got) \in 0..Len(All) /\ Len(written) \in 0..Len(All)
  BY <1>1, <1>5 DEF Typed
<1>7. wire \o pending \in Seq(Octet) /\ Len(wire \o pending) = Len(wire) + Len(pending)
  BY ConcatProperties DEF Typed
<1>8. Rest \in Seq(Octet) /\ Len(Rest) = Len(buf) + (Len(wire) + Len(pending))
  BY <1>7, ConcatProperties DEF Typed, Rest
<1>9. Len(Rest) = Len(buf) + Len(wire) + Len(pending)
  BY <1>1, <1>8
<1> QED
  BY <1>1, <1>2, <1>3, <1>4, <1>5, <1>6, <1>8, <1>9

\* The pieces a sequence is cut into are the sequence.
LEMMA Pieces ==
  ASSUME NEW S, NEW s \in Seq(S), NEW k \in 1..Len(s)
  PROVE  /\ SubSeq(s, 1, k) \in Seq(S) /\ SubSeq(s, k + 1, Len(s)) \in Seq(S)
         /\ Len(SubSeq(s, 1, k)) = k /\ Len(SubSeq(s, k + 1, Len(s))) = Len(s) - k
         /\ SubSeq(s, 1, k) \o SubSeq(s, k + 1, Len(s)) = s
<1>1. Len(s) \in Nat /\ k \in Nat /\ k <= Len(s) /\ \A i \in 1..Len(s) : s[i] \in S
  BY LenProperties
<1>2. SubSeq(s, 1, k) \in Seq(S) /\ Len(SubSeq(s, 1, k)) = k
  BY <1>1, SubSeqProperties
<1>3. SubSeq(s, k + 1, Len(s)) \in Seq(S) /\ Len(SubSeq(s, k + 1, Len(s))) = Len(s) - k
  <2>1. k + 1 \in Int /\ Len(s) \in Int /\ \A i \in (k + 1)..Len(s) : s[i] \in S
    BY <1>1
  <2>2. /\ SubSeq(s, k + 1, Len(s)) \in Seq(S)
        /\ Len(SubSeq(s, k + 1, Len(s))) = IF k + 1 <= Len(s) THEN Len(s) - (k + 1) + 1 ELSE 0
    BY <2>1, SubSeqProperties
  <2> QED
    BY <1>1, <2>2
<1>4. SubSeq(s, 1, k) \o SubSeq(s, k + 1, Len(s)) = SubSeq(s, 1, Len(s))
  <2>1. 1 \in 1..(Len(s) + 1) /\ k \in (1 - 1)..Len(s) /\ Len(s) \in k..Len(s)
    BY <1>1
  <2> QED
    BY <2>1, ConcatAdjacentSubSeq
<1> QED
  BY <1>2, <1>3, <1>4, SubSeqFull

\* What a step leaves aligned that neither takes a frame nor writes one.
LEMMA StaysAligned ==
  ASSUME Aligned, All' = All, Rest' = Rest, got' = got, header' = header
  PROVE  Aligned'
<1>1. PICK at : Places(All, at) /\ Stands(All, Rest, Len(got), at[Len(got)] + Used, at)
  BY DEF Aligned
<1>2. Used' = Used
  BY DEF Used
<1>3. Places(All', at) /\ Stands(All', Rest', Len(got'), at[Len(got')] + Used', at)
  BY <1>1, <1>2
<1> QED
  BY <1>3 DEF Aligned

LEMMA WriteKeeps ==
  ASSUME Typed, Aligned, WriteFrame, ~UNCHANGED vars
  PROVE  Typed' /\ Aligned'
<1>1. PICK f \in Fits : current' = f /\ pending' = Serialize(f)
  BY Zenon DEF WriteFrame, vars, Fits
<1>2. /\ pending = <<>> /\ Len(written) < MaxFrames
      /\ UNCHANGED <<wire, closed, written, header, buf, got, err>>
  BY DEF WriteFrame
<1>3. /\ Serialize(f) \in Seq(Octet) /\ Len(Serialize(f)) = Size(f) /\ Size(f) = 8 + Len(f.payload)
      /\ Len(f.payload) \in Nat
  BY Octets
<1>4. Serialize(f) # <<>>
  <2>1. Len(Serialize(f)) # 0
    BY <1>3
  <2> QED
    BY <2>1, EmptySeq
<1>5. /\ All = written /\ All' = Append(All, f) /\ All \in Seq(Fits)
      /\ Len(All) \in Nat /\ Len(got) \in 0..Len(All) /\ Used \in Nat /\ Rest \in Seq(Octet)
  BY <1>1, <1>2, <1>4, AllFacts DEF All
<1>6. /\ Len(All') = Len(All) + 1 /\ \A i \in 1..Len(All) : All'[i] = All[i]
  BY <1>5, AppendProperties
<1>7. Rest' = Rest \o Serialize(f)
  <2>1. buf \in Seq(Octet) /\ wire \in Seq(Octet)
    BY DEF Typed
  <2>2. Rest = buf \o wire
    BY <1>2, <2>1, ConcatEmptySeq DEF Rest
  <2>3. Rest' = buf \o (wire \o Serialize(f))
    BY <1>1, <1>2 DEF Rest
  <2> QED
    <3> DEFINE e == Serialize(f)
    <3>1. buf \in Seq(Octet) /\ wire \in Seq(Octet) /\ e \in Seq(Octet)
      BY <1>3, <2>1
    <3> HIDE DEF e
    <3>2. (buf \o wire) \o e = buf \o (wire \o e)
      BY <3>1, ConcatAssociative, SMTT(30)
    <3> QED
      BY <2>2, <2>3, <3>2, Zenon DEF e
<1>8. ASSUME header # NoHeader
      PROVE  Len(got') < Len(All') /\ header' = HeaderOf(All'[Len(got') + 1])
  <2>1. Len(got) < Len(All) /\ header = HeaderOf(All[Len(got) + 1])
    BY <1>8 DEF Typed
  <2>2. Len(got) + 1 \in 1..Len(All) /\ Len(got) < Len(All) + 1
    BY <1>5, <2>1
  <2> QED
    BY <1>2, <1>6, <2>1, <2>2
<1>9. Typed'
  <2>1. Len(pending') <= Size(current')
    BY <1>1, <1>3
  <2>2. Need' = Need
    BY <1>2 DEF Need
  <2>3. header' # NoHeader => Len(got') < Len(All') /\ header' = HeaderOf(All'[Len(got') + 1])
    BY <1>2, <1>8
  <2>4. /\ pending' \in Seq(Octet) /\ wire' \in Seq(Octet) /\ buf' \in Seq(Octet)
        /\ written' \in Seq(Fits) /\ got' \in Seq(Fits)
        /\ Len(got') <= Len(written') /\ Len(written') <= MaxFrames
        /\ Len(written') < MaxFrames /\ current' \in Fits
        /\ closed' \in BOOLEAN
        /\ err' \in {"none", "EOF", "ErrUnexpectedEOF", "ErrTruncatedPayload"}
    BY <1>1, <1>2, <1>3 DEF Typed
  <2>5. Len(buf') <= Need'
    BY <1>2, <2>2 DEF Typed
  <2> QED
    BY <2>1, <2>3, <2>4, <2>5 DEF Typed
<1>10. Aligned'
  <2>1. PICK at : Places(All, at) /\ Stands(All, Rest, Len(got), at[Len(got)] + Used, at)
    BY DEF Aligned
  <2>2. at[Len(got)] + Used \in Nat
    <3>1. at[Len(got)] \in Nat /\ Used \in Nat
      BY <1>5, <2>1, PlaceFacts
    <3> QED
      BY <3>1
  <2>3. PICK after : /\ Places(Append(All, f), after)
                     /\ Stands(Append(All, f), Rest \o Serialize(f), Len(got), at[Len(got)] + Used, after)
                     /\ \A i \in 0..Len(All) : after[i] = at[i]
    BY <1>5, <2>1, <2>2, OneMore
  <2>4. after[Len(got)] = at[Len(got)] /\ Used' = Used /\ got' = got
    BY <1>2, <1>5, <2>3 DEF Used
  <2>5. Places(All', after) /\ Stands(All', Rest', Len(got'), after[Len(got')] + Used', after)
    BY <1>5, <1>7, <2>3, <2>4
  <2> QED
    BY <2>5 DEF Aligned
<1> QED
  BY <1>9, <1>10

LEMMA TransmitKeeps ==
  ASSUME Typed, Aligned, Transmit
  PROVE  Typed' /\ Aligned'
<1>1. PICK k \in 1..Len(pending) :
         /\ wire' = wire \o SubSeq(pending, 1, k)
         /\ pending' = SubSeq(pending, k + 1, Len(pending))
         /\ written' = IF k = Len(pending) THEN Append(written, current) ELSE written
  BY Zenon DEF Transmit
<1>2. UNCHANGED <<current, closed, header, buf, got, err>>
  BY DEF Transmit
<1> DEFINE front == SubSeq(pending, 1, k)
           back == SubSeq(pending, k + 1, Len(pending))
<1>3. /\ front \in Seq(Octet) /\ back \in Seq(Octet) /\ Len(back) = Len(pending) - k
      /\ front \o back = pending
  BY Pieces DEF Typed
<1>4. Len(pending) \in Nat \ {0} /\ pending # <<>>
  <2>1. Len(pending) \in Nat
    BY AllFacts
  <2>2. Len(pending) # 0
    BY <2>1
  <2> QED
    BY <2>1, <2>2, EmptySeq DEF Typed
<1>5. wire' = wire \o front /\ pending' = back
  BY <1>1
<1>6. back = <<>> <=> k = Len(pending)
  <2> HIDE DEF back
  <2>1. Len(back) = 0 <=> k = Len(pending)
    BY <1>3, <1>4
  <2>2. Len(back) = 0 <=> back = <<>>
    BY <1>3, EmptySeq
  <2> QED
    BY <2>1, <2>2
<1> HIDE DEF front, back
<1>7. /\ current \in Fits /\ written \in Seq(Fits) /\ Len(written) < MaxFrames
      /\ Len(pending) <= Size(current) /\ wire \in Seq(Octet) /\ buf \in Seq(Octet)
      /\ Len(written) \in Nat /\ MaxFrames \in Nat /\ Len(got) \in Nat /\ Len(got) <= Len(written)
  BY <1>4, AllFacts DEF Typed
<1>8. All' = All
  <2>1. All = Append(written, current)
    BY <1>4 DEF All
  <2>2. CASE k = Len(pending)
    <3>1. pending' = <<>> /\ written' = Append(written, current)
      BY <1>1, <1>5, <1>6, <2>2
    <3> QED
      BY <2>1, <3>1 DEF All
  <2>3. CASE k # Len(pending)
    <3>1. pending' # <<>> /\ written' = written
      BY <1>1, <1>5, <1>6, <2>3
    <3> QED
      BY <1>2, <2>1, <3>1 DEF All
  <2> QED
    BY <2>2, <2>3
<1>9. Rest' = Rest
  <2>1. Rest' = buf \o ((wire \o front) \o back) /\ Rest = buf \o (wire \o (front \o back))
    BY <1>2, <1>3, <1>5 DEF Rest
  <2>2. front \in Seq(Octet) /\ back \in Seq(Octet) /\ wire \in Seq(Octet)
    BY <1>3, <1>7
  <2>3. (wire \o front) \o back = wire \o (front \o back)
    BY <2>2, ConcatAssociative, SMTT(30)
  <2> QED
    BY <2>1, <2>3
<1>10. /\ written' \in Seq(Fits) /\ Len(written') <= MaxFrames /\ Len(got) <= Len(written')
       /\ back # <<>> => written' = written
  BY <1>1, <1>6, <1>7, AppendProperties, SMTT(30)
<1>11. wire' \in Seq(Octet)
  BY <1>3, <1>5, <1>7, ConcatProperties
<1>12. Len(pending') <= Size(current')
  <2>1. Size(current) \in Nat
    BY <1>7, Octets
  <2> QED
    BY <1>2, <1>3, <1>4, <1>5, <1>7, <2>1
<1>13. Typed'
  <2>1. Need' = Need
    BY <1>2 DEF Need
  <2>2. header' # NoHeader => Len(got') < Len(All') /\ header' = HeaderOf(All'[Len(got') + 1])
    BY <1>2, <1>8 DEF Typed
  <2>3. /\ buf' \in Seq(Octet) /\ got' \in Seq(Fits) /\ Len(buf') <= Need' /\ closed' \in BOOLEAN
        /\ err' \in {"none", "EOF", "ErrUnexpectedEOF", "ErrTruncatedPayload"}
    BY <1>2, <2>1 DEF Typed
  <2>4. pending' # <<>> => /\ current' \in Fits /\ Len(pending') <= Size(current')
                           /\ Len(written') < MaxFrames
    BY <1>2, <1>5, <1>7, <1>10, <1>12
  <2> QED
    BY <1>2, <1>3, <1>5, <1>10, <1>11, <2>2, <2>3, <2>4 DEF Typed
<1> QED
  BY <1>2, <1>8, <1>9, <1>13, StaysAligned

LEMMA ReadKeeps ==
  ASSUME Typed, Aligned, ReadSome
  PROVE  Typed' /\ Aligned'
<1>1. PICK k \in 1..Len(wire) : /\ Len(buf) + k <= Need
                                /\ buf' = buf \o SubSeq(wire, 1, k)
                                /\ wire' = SubSeq(wire, k + 1, Len(wire))
  BY Zenon DEF ReadSome
<1>2. UNCHANGED <<pending, current, written, closed, header, got, err>>
  BY DEF ReadSome, writer
<1> DEFINE front == SubSeq(wire, 1, k)
           back == SubSeq(wire, k + 1, Len(wire))
<1>3. /\ front \in Seq(Octet) /\ back \in Seq(Octet) /\ Len(front) = k
      /\ front \o back = wire
  BY Pieces DEF Typed
<1>4. buf' = buf \o front /\ wire' = back
  BY <1>1
<1> HIDE DEF front, back
<1>5. buf \in Seq(Octet) /\ pending \in Seq(Octet)
  BY DEF Typed
<1>6. buf' \in Seq(Octet) /\ Len(buf') = Len(buf) + k
  BY <1>3, <1>4, <1>5, ConcatProperties
<1>7. All' = All
  BY <1>2 DEF All
<1>8. Rest' = Rest
  <2>1. Rest' = (buf \o front) \o (back \o pending) /\ Rest = buf \o ((front \o back) \o pending)
    BY <1>2, <1>3, <1>4 DEF Rest
  <2>2. back \o pending \in Seq(Octet)
    BY <1>3, <1>5, ConcatProperties
  <2>3. (front \o back) \o pending = front \o (back \o pending)
    <3>1. front \in Seq(Octet) /\ back \in Seq(Octet) /\ pending \in Seq(Octet)
      BY <1>3, <1>5
    <3> QED
      BY <3>1, ConcatAssociative, SMTT(30)
  <2>4. (buf \o front) \o (back \o pending) = buf \o (front \o (back \o pending))
    <3>1. buf \in Seq(Octet) /\ front \in Seq(Octet)
      BY <1>3, <1>5
    <3> DEFINE more == back \o pending
    <3>2. more \in Seq(Octet)
      BY <2>2
    <3> HIDE DEF more
    <3>3. (buf \o front) \o more = buf \o (front \o more)
      BY <3>1, <3>2, ConcatAssociative, SMTT(30)
    <3> QED
      BY <3>3 DEF more
  <2> QED
    BY <2>1, <2>3, <2>4
<1>9. Typed'
  <2>1. Need' = Need
    BY <1>2 DEF Need
  <2>2. header' # NoHeader => Len(got') < Len(All') /\ header' = HeaderOf(All'[Len(got') + 1])
    BY <1>2, <1>7 DEF Typed
  <2>3. Len(buf') <= Need'
    BY <1>1, <1>6, <2>1
  <2> QED
    BY <1>2, <1>3, <1>4, <1>6, <2>2, <2>3 DEF Typed
<1> QED
  BY <1>2, <1>7, <1>8, <1>9, StaysAligned

\* The next frame has been written to its end.
Whole == Len(got) < Len(written) /\ got' = Append(got, written[Len(got) + 1])

\* A frame is complete at the octet the next one begins at.
LEMMA TakeKeeps ==
  ASSUME Typed, Len(got) < Len(All), NEW at, Places(All, at),
         Stands(All, wire \o pending, Len(got) + 1, at[Len(got) + 1], at),
         got' = Append(got, All[Len(got) + 1]), header' = NoHeader, buf' = <<>>,
         UNCHANGED <<wire, pending, written, current, closed, err>>
  PROVE  Typed' /\ Aligned' /\ Whole
<1> DEFINE n == Len(got)
<1>1. /\ n \in Nat /\ Len(written) \in Nat /\ Len(All) \in Nat /\ Len(wire) \in Nat
      /\ Len(pending) \in Nat /\ All \in Seq(Fits) /\ n <= Len(written)
      /\ \A i \in 1..Len(written) : All[i] = written[i]
      /\ pending = <<>> => All = written
      /\ pending # <<>> => Len(All) = Len(written) + 1
  BY AllFacts DEF Typed
<1>2. wire \o pending \in Seq(Octet) /\ Len(wire \o pending) = Len(wire) + Len(pending)
  BY ConcatProperties DEF Typed
<1>3. at[n + 1] + Len(wire \o pending) = at[Len(All)]
  BY DEF Stands
<1>4. n + 1 \in 1..Len(All) /\ n + 1 \in Nat
  BY <1>1
<1>5. at[n + 1] \in Nat /\ at[Len(All)] \in Nat /\ All[n + 1] \in Fits
  BY <1>1, <1>4, PlaceFacts
<1>6. n < Len(written)
  <2> SUFFICES ASSUME n = Len(written) PROVE FALSE
    BY <1>1
  <2>1. pending # <<>> /\ Len(All) = n + 1
    BY <1>1
  <2>2. Len(wire \o pending) = 0
    BY <1>2, <1>3, <1>5, <2>1
  <2>3. Len(pending) = 0
    BY <1>1, <1>2, <2>2
  <2> QED
    BY <2>1, <2>3, EmptySeq DEF Typed
<1>7. All[n + 1] = written[n + 1]
  BY <1>1, <1>6
<1>8. Whole
  BY <1>6, <1>7 DEF Whole
<1>9. Len(got') = n + 1 /\ got' \in Seq(Fits)
  BY <1>5, AppendProperties DEF Typed
<1>10. Typed'
  <2>1. buf' \in Seq(Octet) /\ Len(buf') = 0
    BY EmptySeq
  <2>2. Len(buf') <= Need'
    BY <2>1 DEF Need, FrameHeaderSize
  <2>3. Len(got') <= Len(written')
    BY <1>1, <1>6, <1>9
  <2> QED
    BY <1>9, <2>1, <2>2, <2>3 DEF Typed
<1>11. Rest' = wire \o pending /\ All' = All
  <2>1. Rest' = <<>> \o (wire \o pending)
    BY DEF Rest
  <2>2. All' = All
    BY DEF All
  <2> QED
    BY <1>2, <2>1, <2>2, ConcatEmptySeq
<1>12. Used' = 0 /\ at[n + 1] + 0 = at[n + 1]
  BY <1>5 DEF Used
<1>13. Places(All', at) /\ Stands(All', Rest', Len(got'), at[Len(got')] + Used', at)
  BY <1>9, <1>11, <1>12
<1> QED
  BY <1>8, <1>10, <1>13 DEF Aligned

LEMMA HeaderKeeps ==
  ASSUME Typed, Aligned, HeaderComplete
  PROVE  Typed' /\ Aligned' /\ (UNCHANGED got \/ Whole)
<1> DEFINE n == Len(got)
           h == DecodeHeader(buf)
           tail == wire \o pending
           f == All[n + 1]
<1>1. /\ header = NoHeader /\ Len(buf) = 8 /\ buf' = <<>>
      /\ UNCHANGED <<wire, pending, written, current, closed, err>>
  BY DEF HeaderComplete, writer, FrameHeaderSize
<1>2. IF h.length = 0 THEN Return(h, <<>>) ELSE header' = h /\ UNCHANGED got
  BY DEF HeaderComplete
<1>3. buf \in Seq(Octet) /\ tail \in Seq(Octet) /\ All \in Seq(Fits) /\ n \in 0..Len(All) /\ n \in Nat
      /\ Len(All) \in Nat /\ got \in Seq(Fits)
  BY AllFacts, ConcatProperties DEF Typed
<1>4. PICK at : Places(All, at) /\ Stands(All, Rest, n, at[n] + Used, at)
  BY DEF Aligned
<1>5. at[n] \in Nat
  BY <1>3, <1>4, PlaceFacts
<1>6. Stands(All, buf \o tail, n, at[n], at)
  <2>1. at[n] + Used = at[n]
    BY <1>1, <1>5 DEF Used
  <2> QED
    BY <1>4, <2>1 DEF Rest
<1> HIDE DEF h, tail, f, n
<1>7. n < Len(All) /\ h = HeaderOf(f)
  BY <1>1, <1>3, <1>4, <1>6, HeaderHere DEF h, f
<1>8. n + 1 \in 1..Len(All) /\ n + 1 - 1 = n
  BY <1>3, <1>7
<1>9. f \in Fits /\ Len(f.payload) \in Nat /\ at[n + 1] = at[n] + (8 + Len(f.payload))
  <2>1. /\ f \in Fits /\ Len(f.payload) \in Nat /\ Size(f) = 8 + Len(f.payload)
        /\ at[n + 1] = at[n + 1 - 1] + Size(f)
    BY <1>3, <1>4, <1>8, PlaceFacts DEF f
  <2> QED
    BY <1>8, <2>1
<1>10. h.length = Len(f.payload) /\ h # NoHeader /\ f.payload \in Seq(Octet)
  BY <1>7, <1>9, Octets
<1>11. /\ Stands(All, tail, n, at[n] + 8, at)
       /\ Stands(All, tail, n + 1, at[n] + 8, at)
  BY <1>1, <1>3, <1>4, <1>5, <1>6, <1>7, Advance
<1>12. CASE h.length = 0
  <2>1. f.payload = <<>>
    BY <1>10, <1>12, EmptySeq
  <2>2. f = [type |-> h.type, flags |-> h.flags, stream |-> h.stream, payload |-> <<>>]
    BY <1>7, <1>9, <2>1, FrameOfParts
  <2>3. got' = Append(got, f) /\ header' = NoHeader
    BY <1>2, <1>12, <2>2 DEF Return
  <2>4. at[n + 1] = at[n] + 8
    BY <1>5, <1>9, <1>10, <1>12
  <2>5. Stands(All, tail, n + 1, at[n + 1], at)
    BY <1>11, <2>4
  <2> QED
    BY <1>1, <1>4, <1>7, <2>3, <2>5, TakeKeeps DEF n, f, tail
<1>13. CASE h.length # 0
  <2>1. header' = h /\ got' = got
    BY <1>2, <1>13
  <2>2. All' = All
    BY <1>1 DEF All
  <2>3. Typed'
    <3>1. buf' \in Seq(Octet) /\ Len(buf') = 0
      BY <1>1, EmptySeq
    <3>2. Len(buf') <= Need'
      BY <1>10, <1>9, <2>1, <3>1 DEF Need
    <3>3. header' # NoHeader => Len(got') < Len(All') /\ header' = HeaderOf(All'[Len(got') + 1])
      BY <1>7, <2>1, <2>2 DEF n, f
    <3> QED
      BY <1>1, <2>1, <3>1, <3>2, <3>3 DEF Typed
  <2>4. Rest' = tail
    <3>1. Rest' = <<>> \o tail
      BY <1>1 DEF Rest, tail
    <3> QED
      BY <1>3, <3>1, ConcatEmptySeq
  <2>5. Used' = 8
    BY <1>10, <2>1 DEF Used
  <2>6. Places(All', at) /\ Stands(All', Rest', Len(got'), at[Len(got')] + Used', at)
    BY <1>4, <1>11, <2>1, <2>2, <2>4, <2>5 DEF n
  <2> QED
    BY <2>1, <2>3, <2>6 DEF Aligned
<1> QED
  BY <1>12, <1>13

LEMMA PayloadKeeps ==
  ASSUME Typed, Aligned, PayloadComplete
  PROVE  Typed' /\ Aligned' /\ Whole
<1> DEFINE n == Len(got)
           tail == wire \o pending
           f == All[n + 1]
<1>1. /\ header # NoHeader /\ Len(buf) = header.length /\ buf' = <<>> /\ header' = NoHeader
      /\ UNCHANGED <<wire, pending, written, current, closed, err>>
      /\ got' = Append(got, [type |-> header.type, flags |-> header.flags, stream |-> header.stream,
                             payload |-> buf])
  BY DEF PayloadComplete, writer, Return
<1>2. buf \in Seq(Octet) /\ tail \in Seq(Octet) /\ All \in Seq(Fits) /\ n \in 0..Len(All) /\ n \in Nat
      /\ Len(All) \in Nat /\ got \in Seq(Fits)
  BY AllFacts, ConcatProperties DEF Typed
<1>3. n < Len(All) /\ header = HeaderOf(f)
  BY <1>1 DEF Typed
<1>4. PICK at : Places(All, at) /\ Stands(All, Rest, n, at[n] + Used, at)
  BY DEF Aligned
<1>5. at[n] \in Nat
  BY <1>2, <1>4, PlaceFacts
<1>6. Stands(All, buf \o tail, n, at[n] + 8, at)
  BY <1>1, <1>4 DEF Rest, Used
<1> HIDE DEF tail, f, n
<1>7. n + 1 \in 1..Len(All) /\ n + 1 - 1 = n
  BY <1>2, <1>3
<1>8. f \in Fits /\ Len(f.payload) \in Nat /\ at[n + 1] = at[n] + (8 + Len(f.payload))
  <2>1. /\ f \in Fits /\ Len(f.payload) \in Nat /\ Size(f) = 8 + Len(f.payload)
        /\ at[n + 1] = at[n + 1 - 1] + Size(f)
    BY <1>2, <1>4, <1>7, PlaceFacts DEF f
  <2> QED
    BY <1>7, <2>1
<1>9. Len(buf) = Len(f.payload)
  BY <1>1, <1>3, <1>8, Octets
<1>10. buf = f.payload
  BY <1>2, <1>3, <1>4, <1>6, <1>9, PayloadHere DEF f
<1>11. got' = Append(got, f)
  BY <1>1, <1>3, <1>8, <1>10, FrameOfParts
<1>12. Stands(All, tail, n + 1, at[n + 1], at)
  <2>1. at[n] + 8 \in Nat /\ at[n] + 8 + Len(buf) = at[n + 1]
    BY <1>5, <1>8, <1>9
  <2>2. Stands(All, tail, n + 1, at[n] + 8 + Len(buf), at)
    BY <1>2, <1>3, <1>4, <1>6, <2>1, Advance
  <2> QED
    BY <2>1, <2>2
<1> QED
  BY <1>1, <1>3, <1>4, <1>11, <1>12, TakeKeeps DEF n, f, tail

\* Nothing is left to read: the reader has every frame that was sent whole,
\* and of the frame that was not it has just what was sent.
LEMMA AtTheEnd ==
  ASSUME Typed, Aligned, wire = <<>>, Len(buf) < Need
  PROVE  /\ Len(got) = Len(written)
         /\ pending = <<>> => header = NoHeader /\ buf = <<>>
         /\ pending # <<>> => SentOfCurrent = Used + Len(buf)
<1> DEFINE n == Len(got)
           w == Len(written)
           l == Len(All)
           b == Len(buf)
           k == Len(pending)
<1>1. /\ n \in Nat /\ w \in Nat /\ l \in Nat /\ b \in Nat /\ k \in Nat /\ All \in Seq(Fits)
      /\ n <= w /\ w <= l /\ Used \in Nat
      /\ \A i \in 1..w : All[i] = written[i]
      /\ pending = <<>> => All = written
      /\ pending # <<>> => l = w + 1 /\ All[l] = current
      /\ Len(Rest) = b + Len(wire) + k
  BY AllFacts DEF Typed
<1>2. PICK at : Places(All, at) /\ Stands(All, Rest, n, at[n] + Used, at)
  BY DEF Aligned
<1>3. at[n] \in Nat /\ at[w] \in Nat /\ at[l] \in Nat
  BY <1>1, <1>2, PlaceFacts
<1>4. at[n] + Used + b + k = at[l]
  <2>1. at[n] + Used + Len(Rest) = at[l]
    BY <1>2 DEF Stands
  <2>2. Len(wire) = 0
    BY EmptySeq
  <2> HIDE DEF n, w, l, b, k
  <2> QED
    BY <1>1, <1>3, <2>1, <2>2
<1>5. pending = <<>> => k = 0 /\ l = w
  BY <1>1, EmptySeq
<1>6. pending # <<>> => /\ at[l] = at[w] + Size(current) /\ k <= Size(current)
                        /\ Size(current) = 8 + Len(current.payload) /\ Len(current.payload) \in Nat
                        /\ l = w + 1
  <2> SUFFICES ASSUME pending # <<>>
               PROVE  /\ at[l] = at[w] + Size(current) /\ k <= Size(current)
                      /\ Size(current) = 8 + Len(current.payload) /\ Len(current.payload) \in Nat
                      /\ l = w + 1
    OBVIOUS
  <2>1. l = w + 1 /\ All[l] = current /\ k <= Size(current)
    BY <1>1 DEF Typed
  <2>2. l \in 1..l /\ l - 1 = w
    BY <1>1, <2>1
  <2>3. /\ at[l] = at[l - 1] + Size(All[l]) /\ Size(All[l]) = 8 + Len(All[l].payload)
        /\ Len(All[l].payload) \in Nat
    BY <1>1, <1>2, <2>2, PlaceFacts
  <2> QED
    BY <2>1, <2>2, <2>3
<1>7. ASSUME n < w PROVE at[n] + Used + b < at[n + 1] /\ at[n + 1] <= at[w] /\ at[n + 1] \in Nat
  <2> DEFINE f == All[n + 1]
  <2>1. n + 1 \in 1..l /\ n + 1 - 1 = n /\ n + 1 \in Nat /\ n + 1 \in 0..l /\ w \in (n + 1)..l
    BY <1>1, <1>7
  <2>2. /\ f \in Fits /\ Size(f) = 8 + Len(f.payload) /\ Len(f.payload) \in Nat
        /\ at[n + 1] = at[n + 1 - 1] + Size(f) /\ at[n + 1] \in Nat
    BY <1>1, <1>2, <2>1, PlaceFacts, SMTT(30)
  <2>3. at[n + 1] <= at[w]
    BY <1>2, <2>1 DEF Places
  <2>4. Used + b < 8 + Len(f.payload)
    <3>1. CASE header = NoHeader
      <4>1. Used = 0 /\ b < 8
        BY <3>1 DEF Used, Need, FrameHeaderSize
      <4> HIDE DEF b, f
      <4> QED
        BY <1>1, <2>2, <4>1
    <3>2. CASE header # NoHeader
      <4>1. Used = 8 /\ b < header.length /\ header = HeaderOf(f)
        BY <3>2 DEF Used, Need, Typed
      <4>2. header.length = Len(f.payload)
        BY <2>2, <4>1, Octets
      <4> HIDE DEF b, f
      <4> QED
        BY <1>1, <2>2, <4>1, <4>2
    <3> QED
      BY <3>1, <3>2
  <2>5. at[n + 1] = at[n] + (8 + Len(f.payload))
    BY <2>1, <2>2
  <2>6. \A i, u, j, g \in Nat : u + j < g => i + u + j < i + g
    OBVIOUS
  <2>7. 8 + Len(f.payload) \in Nat
    BY <2>2
  <2> HIDE DEF n, w, b, l, f
  <2>8. at[n] + Used + b < at[n + 1]
    BY <1>1, <1>3, <2>4, <2>5, <2>6, <2>7, ZenonT(30)
  <2> QED
    BY <2>2, <2>3, <2>8, Zenon
<1> HIDE DEF n, w, l, b, k
<1>8. n = w
  <2> SUFFICES ASSUME n < w PROVE FALSE
    BY <1>1
  <2>1. at[n] + Used + b < at[w]
    <3>1. \A i, j, m \in Nat : i < j /\ j <= m => i < m
      OBVIOUS
    <3>2. \A i, j, m \in Nat : i + j + m \in Nat
      OBVIOUS
    <3>3. at[n] + Used + b \in Nat
      BY <1>1, <1>3, <3>2, Zenon
    <3> QED
      BY <1>3, <1>7, <3>1, <3>3, Zenon
  <2>2. CASE pending = <<>>
    BY <1>1, <1>3, <1>4, <1>5, <2>1, <2>2
  <2>3. CASE pending # <<>>
    <3>1. at[l] = at[w] + Size(current) /\ k <= Size(current) /\ Size(current) \in Nat
      BY <1>6, <2>3
    <3>2. \A i, u, j, m, x, z \in Nat : i + u + j < x /\ i + u + j + m = x + z => ~(m <= z)
      OBVIOUS
    <3> QED
      BY <1>1, <1>3, <1>4, <2>1, <3>1, <3>2, Zenon
  <2> QED
    BY <2>2, <2>3
<1>9. ASSUME pending = <<>> PROVE header = NoHeader /\ buf = <<>>
  <2>1. Used = 0 /\ b = 0
    BY <1>1, <1>3, <1>4, <1>5, <1>8, <1>9
  <2> QED
    BY <2>1, EmptySeq DEF Used, Typed, b
<1>10. ASSUME pending # <<>> PROVE SentOfCurrent = Used + Len(buf)
  <2>1. SentOfCurrent = 8 + Len(current.payload) - k
    BY <1>10 DEF SentOfCurrent, FrameHeaderSize, k
  <2>2. at[w] + Used + b + k = at[w] + (8 + Len(current.payload)) /\ Len(current.payload) \in Nat
    BY <1>4, <1>6, <1>8, <1>10
  <2>3. 8 + Len(current.payload) - k = Used + b
    <3> DEFINE c == Len(current.payload)
               a == at[w]
    <3>2. a \in Nat /\ c \in Nat /\ a + Used + b + k = a + (8 + c)
      BY <1>3, <2>2
    <3> HIDE DEF c, a
    <3>3. 8 + c - k = Used + b
      BY <1>1, <3>2
    <3> QED
      BY <3>3 DEF c
  <2> QED
    BY <2>1, <2>3 DEF b
<1> QED
  BY <1>8, <1>9, <1>10 DEF n, w

LEMMA Starts ==
  ASSUME Init
  PROVE  Typed /\ Aligned
<1> DEFINE at == [i \in Nat |-> 0]
<1>1. /\ pending = <<>> /\ wire = <<>> /\ written = <<>> /\ got = <<>> /\ buf = <<>>
      /\ closed = FALSE /\ header = NoHeader /\ err = "none"
  BY DEF Init
<1>2. All = <<>> /\ Used = 0
  BY <1>1 DEF All, Used
<1>3. /\ <<>> \in Seq(Octet) /\ <<>> \in Seq(Fits) /\ Len(<<>>) = 0
  BY EmptySeq
<1>4. Typed
  <2>1. 0 <= 0 /\ 0 <= MaxFrames /\ 0 <= 8
    BY FramingAssumption
  <2>2. Need = 8
    BY <1>1 DEF Need, FrameHeaderSize
  <2> QED
    BY <1>1, <1>3, <2>1, <2>2, Zenon DEF Typed
<1>5. Rest = <<>>
  <2>1. <<>> \o (<<>> \o <<>>) = <<>>
    BY <1>3, ConcatEmptySeq
  <2> QED
    BY <1>1, <2>1 DEF Rest
<1>6. at \in [Nat -> Nat] /\ at[0] = 0
  OBVIOUS
<1> HIDE DEF at
<1>7. Places(All, at)
  <2>1. \A i \in 0..0 : \A j \in i..0 : i = 0 /\ j = 0
    OBVIOUS
  <2>2. \A i \in 1..0 : FALSE
    OBVIOUS
  <2> QED
    BY <1>2, <1>3, <1>6, <2>1, <2>2 DEF Places
<1>8. Stands(All, Rest, Len(got), at[Len(got)] + Used, at)
  <2>1. \A i \in (0 + 1)..0 : FALSE
    OBVIOUS
  <2>2. 0 + 0 = 0
    OBVIOUS
  <2> QED
    BY <1>1, <1>2, <1>3, <1>5, <1>6, <2>1, <2>2 DEF Stands
<1> QED
  BY <1>4, <1>7, <1>8 DEF Aligned

\* Steps that move no octet.
LEMMA RestsKeep ==
  ASSUME Typed, Aligned,
         UNCHANGED <<pending, current, wire, written, header, buf, got>>,
         closed' \in BOOLEAN, err' \in {"none", "EOF", "ErrUnexpectedEOF", "ErrTruncatedPayload"}
  PROVE  Typed' /\ Aligned'
<1>1. All' = All /\ Rest' = Rest
  BY DEF All, Rest
<1>2. Need' = Need
  BY DEF Need
<1>3. header' # NoHeader => Len(got') < Len(All') /\ header' = HeaderOf(All'[Len(got') + 1])
  BY <1>1 DEF Typed
<1>4. Typed'
  BY <1>2, <1>3 DEF Typed
<1> QED
  BY <1>1, <1>4, StaysAligned

LEMMA StepKeeps ==
  ASSUME Typed, Aligned, [Next]_vars
  PROVE  Typed' /\ Aligned'
<1>1. closed \in BOOLEAN /\ err \in {"none", "EOF", "ErrUnexpectedEOF", "ErrTruncatedPayload"}
  BY DEF Typed
<1>2. CASE UNCHANGED vars
  BY <1>1, <1>2, RestsKeep DEF vars
<1>3. CASE WriteFrame
  BY <1>2, <1>3, WriteKeeps
<1>4. CASE Transmit
  BY <1>4, TransmitKeeps
<1>5. CASE CloseWriter
  BY <1>1, <1>5, RestsKeep DEF CloseWriter
<1>6. CASE ReadSome
  BY <1>6, ReadKeeps
<1>7. CASE HeaderComplete
  BY <1>7, HeaderKeeps
<1>8. CASE PayloadComplete
  BY <1>8, PayloadKeeps
<1>9. CASE ReadFails
  BY <1>1, <1>9, RestsKeep DEF ReadFails, writer
<1>10. CASE Terminated
  BY <1>2, <1>10 DEF Terminated
<1> QED
  BY <1>2, <1>3, <1>4, <1>5, <1>6, <1>7, <1>8, <1>9, <1>10 DEF Next

LEMMA InvHolds == Spec => [](Typed /\ Aligned)
<1>1. Init => Typed /\ Aligned
  BY Starts
<1>2. Typed /\ Aligned /\ [Next]_vars => (Typed /\ Aligned)'
  BY StepKeeps
<1> QED
  BY <1>1, <1>2, PTL DEF Spec

\* The octets keep their types, and no read goes beyond what the frame it is
\* in needs, a header or a payload that fits 24 bits (frame.go:178-195).
THEOREM FramingTypes == Spec => []TypeOK
<1>1. ASSUME Typed PROVE TypeOK
  <2>1. \A s \in {pending, wire, buf} : \A i \in 1..Len(s) : s[i] \in Octet
    BY <1>1, ElementOfSeq DEF Typed
  <2>2. header.length \in Uint24
    <3>1. CASE header = NoHeader
      BY <3>1, MaxType, SMT DEF NoHeader, Uint24
    <3>2. CASE header # NoHeader
      <4>1. Len(got) + 1 \in 1..Len(All) /\ All \in Seq(Fits)
        BY <1>1, <3>2, AllFacts, SMTT(30) DEF Typed
      <4>2. All[Len(got) + 1] \in Fits /\ header = HeaderOf(All[Len(got) + 1])
        BY <1>1, <3>2, <4>1, ElementOfSeq DEF Typed
      <4>3. header \in FrameHeader
        BY <4>2, Octets
      <4> QED
        BY <4>3 DEF FrameHeader
    <3> QED
      BY <3>1, <3>2
  <2> QED
    BY <1>1, <2>1, <2>2 DEF Typed, TypeOK
<1> QED
  BY <1>1, InvHolds, PTL

-----------------------------------------------------------------------------
(* The channel                                                             *)

Queue == SubSeq(written, Len(got) + 1, Len(written))

LEMMA QueueGrows ==
  ASSUME NEW S, NEW s \in Seq(S), NEW e \in S, NEW n \in 0..Len(s)
  PROVE  SubSeq(Append(s, e), n + 1, Len(Append(s, e))) = Append(SubSeq(s, n + 1, Len(s)), e)
<1> DEFINE l == Len(s)
           t == Append(s, e)
           q == SubSeq(s, n + 1, l)
           r == SubSeq(t, n + 1, l + 1)
<1>1. l \in Nat /\ n \in Nat /\ n <= l /\ \A i \in 1..l : s[i] \in S
  BY LenProperties
<1>2. /\ t \in Seq(S) /\ Len(t) = l + 1 /\ t[l + 1] = e /\ \A i \in 1..l : t[i] = s[i]
  BY AppendProperties
<1> HIDE DEF l, t
<1>3. n + 1 \in Int /\ l \in Int /\ l + 1 \in Int /\ \A i \in (n + 1)..l : s[i] \in S
  BY <1>1
<1>4. /\ q \in Seq(S) /\ Len(q) = l - n
      /\ \A i \in 1..(l - n) : q[i] = s[n + i]
  <2>1. /\ q \in Seq(S) /\ Len(q) = IF n + 1 <= l THEN l - (n + 1) + 1 ELSE 0
        /\ \A i \in 1..(l - (n + 1) + 1) : q[i] = s[n + 1 + i - 1]
    BY <1>3, SubSeqProperties
  <2> HIDE DEF q
  <2>2. l - (n + 1) + 1 = l - n /\ \A i \in 1..(l - n) : n + 1 + i - 1 = n + i
    BY <1>1
  <2> QED
    BY <1>1, <2>1, <2>2
<1>5. \A i \in (n + 1)..(l + 1) : t[i] \in S
  <2>1. \A i \in 1..(l + 1) : t[i] \in S
    BY <1>2, ElementOfSeq
  <2> QED
    BY <1>1, <2>1
<1>6. /\ r \in Seq(S) /\ Len(r) = l + 1 - n
      /\ \A i \in 1..(l + 1 - n) : r[i] = t[n + i]
  <2>1. /\ r \in Seq(S) /\ Len(r) = IF n + 1 <= l + 1 THEN l + 1 - (n + 1) + 1 ELSE 0
        /\ \A i \in 1..(l + 1 - (n + 1) + 1) : r[i] = t[n + 1 + i - 1]
    BY <1>3, <1>5, SubSeqProperties
  <2> HIDE DEF r
  <2>2. l + 1 - (n + 1) + 1 = l + 1 - n /\ \A i \in 1..(l + 1 - n) : n + 1 + i - 1 = n + i
    BY <1>1
  <2> QED
    BY <1>1, <2>1, <2>2
<1> HIDE DEF q, r
<1> DEFINE a == Append(q, e)
<1>7. /\ a \in Seq(S) /\ Len(a) = l - n + 1 /\ a[l - n + 1] = e
      /\ \A i \in 1..(l - n) : a[i] = q[i]
  BY <1>4, AppendProperties
<1> HIDE DEF a
<1>8. ASSUME NEW i \in 1..(l + 1 - n) PROVE r[i] = a[i]
  <2>1. CASE i = l + 1 - n
    <3>1. n + i = l + 1 /\ i = l - n + 1
      BY <1>1, <2>1
    <3> QED
      BY <1>2, <1>6, <1>7, <3>1
  <2>2. CASE i # l + 1 - n
    <3>1. i \in 1..(l - n) /\ n + i \in 1..l
      BY <1>1, <2>2
    <3> QED
      BY <1>2, <1>4, <1>6, <1>7, <3>1
  <2> QED
    BY <2>1, <2>2
<1>9. Len(r) = Len(a)
  BY <1>1, <1>6, <1>7
<1>10. r = a
  BY <1>6, <1>7, <1>8, <1>9, SeqEqual
<1> QED
  BY <1>2, <1>10 DEF r, a, q, t, l

\* Of a frame that was written and not taken the queue has something.
LEMMA QueueShrinks ==
  ASSUME NEW S, NEW s \in Seq(S), NEW n \in Nat, n < Len(s)
  PROVE  /\ SubSeq(s, n + 1, Len(s)) # <<>> /\ Head(SubSeq(s, n + 1, Len(s))) = s[n + 1]
         /\ Tail(SubSeq(s, n + 1, Len(s))) = SubSeq(s, n + 1 + 1, Len(s))
<1>1. n + 1 \in 1..Len(s) /\ Len(s) \in (n + 1)..Len(s)
  BY LenProperties
<1>2. /\ Head(SubSeq(s, n + 1, Len(s))) = s[n + 1]
      /\ Tail(SubSeq(s, n + 1, Len(s))) = SubSeq(s, n + 1 + 1, Len(s))
  BY <1>1, HeadTailOfSubSeq
<1>3. Len(SubSeq(s, n + 1, Len(s))) # 0
  <2>1. n + 1 \in Int /\ Len(s) \in Int /\ \A i \in (n + 1)..Len(s) : s[i] \in S
    BY <1>1
  <2>2. Len(SubSeq(s, n + 1, Len(s))) = Len(s) - (n + 1) + 1
    BY <1>1, <2>1, SubSeqProperties
  <2>3. Len(s) \in Nat /\ Len(s) - (n + 1) + 1 # 0
    BY <1>1, LenProperties
  <2> QED
    BY <2>2, <2>3, Zenon
<1> QED
  BY <1>2, <1>3, EmptySeq

\* The channel a step leaves.
LEMMA TailOfChannel ==
  ASSUME NEW q, NEW e, NEW c, c = [q |-> q, end |-> e]
  PROVE  [c EXCEPT !.q = Tail(@)] = [q |-> Tail(q), end |-> e]
<1>1. [c EXCEPT !.q = Tail(@)] = [c EXCEPT !.q = Tail(q)]
  OBVIOUS
<1>2. \A r : [c EXCEPT !.q = r] = [q |-> r, end |-> e]
  OBVIOUS
<1> QED
  BY <1>1, <1>2, Zenon

LEMMA AppendToChannel ==
  ASSUME NEW q, NEW e, NEW c, c = [q |-> q, end |-> e], NEW f
  PROVE  [c EXCEPT !.q = Append(@, f)] = [q |-> Append(q, f), end |-> e]
OBVIOUS

\* A step that takes a frame.
LEMMA TakesWhole ==
  ASSUME Typed, Whole, UNCHANGED <<pending, current, written, closed, err>>
  PROVE  Channel!Take
<1>1. written \in Seq(Fits) /\ got \in Seq(Fits) /\ Len(got) \in Nat
  BY AllFacts DEF Typed
<1>2. Len(got) < Len(written) /\ got' = Append(got, written[Len(got) + 1])
  BY DEF Whole
<1>3. /\ Queue # <<>> /\ Head(Queue) = written[Len(got) + 1]
      /\ Tail(Queue) = SubSeq(written, Len(got) + 1 + 1, Len(written))
  BY <1>1, <1>2, QueueShrinks DEF Queue
<1>4. written[Len(got) + 1] \in Fits
  <2>1. Len(got) + 1 \in 1..Len(written)
    BY <1>1, <1>2, LenProperties
  <2> QED
    BY <1>1, <2>1, ElementOfSeq
<1>5. Len(got') = Len(got) + 1
  BY <1>1, <1>2, <1>4, AppendProperties
<1>6. Queue' = Tail(Queue)
  BY <1>3, <1>5 DEF Queue
<1>7. EndKind' = EndKind
  BY DEF EndKind, SentOfCurrent
<1> DEFINE ch == [q |-> Queue, end |-> EndKind]
<1>8. ch.q = Queue /\ ch' = [ch EXCEPT !.q = Tail(@)]
  <2>1. ch = [q |-> Queue, end |-> EndKind]
    OBVIOUS
  <2>3. ch' = [q |-> Tail(Queue), end |-> EndKind]
    BY <1>6, <1>7
  <2>4. ch.q = Queue
    OBVIOUS
  <2> HIDE DEF ch
  <2>2. [ch EXCEPT !.q = Tail(@)] = [q |-> Tail(Queue), end |-> EndKind]
    BY <2>1, TailOfChannel
  <2> QED
    BY <2>2, <2>3, <2>4, Zenon
<1> HIDE DEF ch
<1>9. ch.q # <<>> /\ got' = Append(got, Head(ch.q)) /\ ch' = [ch EXCEPT !.q = Tail(@)] /\ err' = err
  BY <1>2, <1>3, <1>8
<1> QED
  BY <1>9 DEF Channel!Take, Queue, ch

\* The step that sends the last octet of a frame, and the one that closes.
LEMMA SendsWhole ==
  ASSUME Typed, Transmit
  PROVE  Channel!Put \/ UNCHANGED Channel!vars
<1>1. PICK k \in 1..Len(pending) :
         written' = IF k = Len(pending) THEN Append(written, current) ELSE written
  BY Zenon DEF Transmit
<1>2. ~closed /\ closed' = closed /\ got' = got /\ err' = err
  BY DEF Transmit
<1>3. EndKind = "open" /\ EndKind' = "open"
  BY <1>2 DEF EndKind
<1>4. written \in Seq(Fits) /\ Len(got) \in 0..Len(written)
  BY AllFacts DEF Typed
<1>5. CASE written' = written
  BY <1>2, <1>3, <1>5 DEF Channel!vars
<1>6. CASE written' = Append(written, current)
  <2>1. current \in Fits
    <3>1. Len(pending) # 0
      BY <1>1, AllFacts
    <3> QED
      BY <3>1, EmptySeq DEF Typed
  <2>2. Queue' = Append(Queue, current)
    BY <1>2, <1>4, <1>6, <2>1, QueueGrows DEF Queue
  <2> DEFINE ch == [q |-> Queue, end |-> EndKind]
  <2>3. ch' = [ch EXCEPT !.q = Append(@, current)]
    <3>1. ch = [q |-> Queue, end |-> EndKind]
      OBVIOUS
    <3>2. ch' = [q |-> Append(Queue, current), end |-> EndKind]
      BY <1>3, <2>2
    <3> HIDE DEF ch
    <3>3. [ch EXCEPT !.q = Append(@, current)] = [q |-> Append(Queue, current), end |-> EndKind]
      BY <3>1, AppendToChannel
    <3> QED
      BY <3>2, <3>3, Zenon
  <2>4. ch.end = "open"
    BY <1>3
  <2> HIDE DEF ch
  <2>5. /\ ch.end = "open" /\ \E f \in Fits : ch' = [ch EXCEPT !.q = Append(@, f)]
        /\ got' = got /\ err' = err
    BY <1>2, <2>1, <2>3, <2>4
  <2> QED
    BY <2>5 DEF Channel!Put, Queue, ch, Fits
<1> QED
  BY <1>1, <1>5, <1>6

LEMMA ClosesChannel ==
  ASSUME CloseWriter
  PROVE  Channel!Cut
<1>1. ~closed /\ closed' /\ UNCHANGED <<pending, current, written, got, err>>
  BY DEF CloseWriter
<1>2. EndKind = "open" /\ EndKind' \in {"eof", "inHeader", "noPayload", "inPayload"}
  BY <1>1 DEF EndKind
<1>3. Queue' = Queue
  BY <1>1 DEF Queue
<1> DEFINE ch == [q |-> Queue, end |-> EndKind]
<1>4. ch.end = "open" /\ \E e \in {"eof", "inHeader", "noPayload", "inPayload"} : ch' = [ch EXCEPT !.end = e]
  BY <1>2, <1>3
<1> HIDE DEF ch
<1>5. UNCHANGED <<got, err>>
  BY <1>1
<1> QED
  BY <1>4, <1>5 DEF Channel!Cut, Queue, ch

\* The step that reports the end.
LEMMA EndsChannel ==
  ASSUME Typed, Aligned, ReadFails
  PROVE  Channel!TakeEnd
<1>1. /\ err = "none" /\ closed /\ wire = <<>> /\ Len(buf) < Need
      /\ err' = IF buf # <<>> THEN "ErrUnexpectedEOF"
                ELSE IF header = NoHeader THEN "EOF" ELSE "ErrTruncatedPayload"
      /\ UNCHANGED <<pending, current, written, closed, got>>
  BY DEF ReadFails, writer
<1>2. /\ Len(got) = Len(written)
      /\ pending = <<>> => header = NoHeader /\ buf = <<>>
      /\ pending # <<>> => SentOfCurrent = Used + Len(buf)
  BY <1>1, AtTheEnd
<1>3. Queue = <<>> /\ Queue' = Queue
  <2>1. Len(written) \in Int /\ Len(written) + 1 \in Int /\ Len(written) < Len(written) + 1
    BY AllFacts
  <2>2. SubSeq(written, Len(written) + 1, Len(written)) = <<>>
    BY <2>1, SubSeqEmpty
  <2> QED
    BY <1>1, <1>2, <2>2 DEF Queue
<1>4. EndKind' = EndKind
  BY <1>1 DEF EndKind, SentOfCurrent
<1>5. Len(buf) \in Nat /\ (buf = <<>> <=> Len(buf) = 0)
  BY AllFacts, EmptySeq DEF Typed
<1>6. EndKind \in {"eof", "inHeader", "noPayload", "inPayload"}
  BY <1>1 DEF EndKind
<1>7. err' = IF EndKind = "eof" THEN "EOF"
             ELSE IF EndKind = "noPayload" THEN "ErrTruncatedPayload" ELSE "ErrUnexpectedEOF"
  <2>1. CASE pending = <<>>
    <3>1. SentOfCurrent = 0
      BY <2>1 DEF SentOfCurrent
    <3>2. EndKind = "eof"
      BY <1>1, <3>1 DEF EndKind
    <3>3. err' = "EOF"
      BY <1>1, <1>2, <2>1
    <3> QED
      BY <3>2, <3>3
  <2>2. CASE pending # <<>> /\ header = NoHeader
    <3>1. Used = 0 /\ SentOfCurrent = Len(buf) /\ Len(buf) < 8
      BY <1>1, <1>2, <1>5, <2>2 DEF Used, Need, FrameHeaderSize
    <3>2. EndKind = IF Len(buf) = 0 THEN "eof" ELSE "inHeader"
      BY <1>1, <1>5, <3>1 DEF EndKind, FrameHeaderSize
    <3> QED
      BY <1>1, <1>5, <2>2, <3>2
  <2>3. CASE pending # <<>> /\ header # NoHeader
    <3>1. Used = 8 /\ SentOfCurrent = 8 + Len(buf)
      BY <1>2, <2>3 DEF Used
    <3>2. EndKind = IF Len(buf) = 0 THEN "noPayload" ELSE "inPayload"
      BY <1>1, <1>5, <3>1 DEF EndKind, FrameHeaderSize
    <3> QED
      BY <1>1, <1>5, <2>3, <3>2
  <2> QED
    BY <2>1, <2>2, <2>3
<1> DEFINE ch == [q |-> Queue, end |-> EndKind]
<1>8. ch.q = <<>> /\ ch.end = EndKind /\ ch' = ch
  BY <1>3, <1>4
<1> HIDE DEF ch
<1>9. /\ ch.q = <<>> /\ ch.end # "open" /\ err = "none"
      /\ err' = CASE ch.end = "eof"       -> "EOF"
                  [] ch.end = "noPayload" -> "ErrTruncatedPayload"
                  [] OTHER                -> "ErrUnexpectedEOF"
      /\ UNCHANGED <<ch, got>>
  <2>1. ch.end # "open"
    BY <1>6, <1>8
  <2>2. err' = CASE ch.end = "eof"       -> "EOF"
                 [] ch.end = "noPayload" -> "ErrTruncatedPayload"
                 [] OTHER                -> "ErrUnexpectedEOF"
    BY <1>6, <1>7, <1>8
  <2> QED
    BY <1>1, <1>8, <2>1, <2>2
<1> QED
  BY <1>9 DEF Channel!TakeEnd, Queue, ch

LEMMA StepMaps ==
  ASSUME Typed, Aligned, [Next]_vars
  PROVE  [Channel!Next]_(Channel!vars)
<1>1. ASSUME UNCHANGED <<pending, current, written, closed, got, err>>
      PROVE  UNCHANGED Channel!vars
  <2>1. EndKind' = EndKind
    BY <1>1 DEF EndKind, SentOfCurrent
  <2> QED
    BY <1>1, <2>1 DEF Channel!vars
<1>2. CASE UNCHANGED vars
  BY <1>1, <1>2 DEF vars
<1>3. CASE WriteFrame
  <2>1. EndKind = "open" /\ EndKind' = "open" /\ UNCHANGED <<written, got, err>>
    BY <1>3 DEF WriteFrame, EndKind
  <2> QED
    BY <2>1 DEF Channel!vars
<1>4. CASE Transmit
  BY <1>4, SendsWhole DEF Channel!Next
<1>5. CASE CloseWriter
  BY <1>5, ClosesChannel DEF Channel!Next
<1>6. CASE ReadSome
  BY <1>1, <1>6 DEF ReadSome, writer
<1>7. CASE HeaderComplete
  <2>1. UNCHANGED <<pending, current, written, closed, err>>
    BY <1>7 DEF HeaderComplete, writer
  <2>2. UNCHANGED got \/ Whole
    BY <1>7, HeaderKeeps
  <2> QED
    BY <1>1, <2>1, <2>2, TakesWhole DEF Channel!Next
<1>8. CASE PayloadComplete
  <2>1. UNCHANGED <<pending, current, written, closed, err>>
    BY <1>8 DEF PayloadComplete, writer
  <2> QED
    BY <1>8, <2>1, PayloadKeeps, TakesWhole DEF Channel!Next
<1>9. CASE ReadFails
  BY <1>9, EndsChannel DEF Channel!Next
<1>10. CASE Terminated
  BY <1>2, <1>10 DEF Terminated
<1> QED
  BY <1>2, <1>3, <1>4, <1>5, <1>6, <1>7, <1>8, <1>9, <1>10 DEF Next

\* Cut into pieces of any size, the octets bring the reader the frames that
\* were written, whole and in order, and then the error of the place where
\* the stream stops (frame.go:149-201): the octets of a connection implement
\* the channel of frames that the client and the server are modelled on.
THEOREM OctetsImplementChannel == Spec => ImplementsChannel
<1>1. Init => Channel!Init
  <2> SUFFICES ASSUME Init PROVE Channel!Init
    OBVIOUS
  <2>1. closed = FALSE /\ written = <<>> /\ got = <<>> /\ err = "none"
    BY DEF Init
  <2>2. SubSeq(<<>>, Len(<<>>) + 1, Len(<<>>)) = <<>>
    <3>1. Len(<<>>) = 0 /\ 0 + 1 \in Int /\ 0 \in Int /\ 0 < 0 + 1
      BY EmptySeq
    <3> QED
      BY <3>1, SubSeqEmpty
  <2>3. EndKind = "open"
    BY <2>1 DEF EndKind
  <2> QED
    BY <2>1, <2>2, <2>3 DEF Channel!Init
<1>2. Typed /\ Aligned /\ [Next]_vars => [Channel!Next]_(Channel!vars)
  BY StepMaps
<1> QED
  BY <1>1, <1>2, InvHolds, PTL DEF Spec, Channel!Spec, ImplementsChannel
=============================================================================
