----------------------------- MODULE BhttpProofs -----------------------------
(***************************************************************************)
(* bcurl and bserve together, for any lists of targets, any tree, any      *)
(* number of connections, buffers of any size and any breaks: the          *)
(* inductive invariant that relates the two ends of the connection held.   *)
(***************************************************************************)
EXTENDS Bhttp, BhttpWireProofs

-----------------------------------------------------------------------------
(* The invariant                                                           *)

\* The answer to the target being requested.
Due == Answer(Tree, Get(Client!target))

\* The request of stream s.
Request(s, hdr) == Frame("HEADERS", {FlagEndStream, FlagEndHeaders}, s, hdr, <<>>)

\* A response to stream s with answer a is at position -1 before its HEADERS
\* frame, then at the number of octets of the body.  A frame takes it from
\* position p to position r:
Follows(a, p, r) ==
  /\ p \in -1..Len(a.body) /\ r \in 0..Len(a.body) /\ p <= r
  /\ IF p = -1 THEN r = 0 ELSE p # Len(a.body)
Piece(s, a, p, r) ==
  IF p = -1
  THEN Frame("HEADERS", {FlagEndHeaders} \cup (IF r = Len(a.body) THEN {FlagEndStream} ELSE {}),
             s, [status |-> a.status, length |-> Len(a.body)], <<>>)
  ELSE Frame("DATA", IF r = Len(a.body) THEN {FlagEndStream} ELSE {}, s, NoHdr,
             SubSeq(a.body, p + 1, r))

\* cut is a way from position p to position r in n frames.
IsWay(cut, n, a, p, r) ==
  /\ cut \in [0..n -> -1..Len(a.body)] /\ cut[0] = p /\ cut[n] = r
  /\ \A i \in 1..n : Follows(a, cut[i - 1], cut[i])

\* q takes the response from position p to position r.
Pieces(q, s, a, p, r) ==
  \E n \in Nat : \E cut \in [0..n -> -1..Len(a.body)] :
    IsWay(cut, n, a, p, r) /\ q = [i \in 1..n |-> Piece(s, a, cut[i - 1], cut[i])]

\* What the client has of the response at position p.
Received(s, a, p) ==
  [stream |-> s, status |-> IF p = -1 THEN 0 ELSE a.status,
   body |-> IF p = -1 THEN <<>> ELSE SubSeq(a.body, 1, p)]

\* The handler has still to write the response from position off on.
IsWriting(o, s, a, off) ==
  /\ o = [stream |-> s, status |-> a.status, body |-> a.body, off |-> off,
          ends |-> o.ends, last |-> o.last]
  /\ o.ends <=> a.body = <<>>
  /\ ~o.last

\* The handler of c is on the way to the response and has written nothing.
IsRequest(r, s, p) == r = [stream |-> s, head |-> r.head, path |-> p] /\ ~r.head
Asked(c, s, hdr) ==
  LET p == Resolve(hdr.path) IN
  /\ HeadersStatus(hdr) = 200
  /\ \/ pc[c] = "stat" /\ IsRequest(req[c], s, p)
     \/ pc[c] = "index" /\ IsRequest(req[c], s, p) /\ Stat(Tree, p) = "dir"
     \/ pc[c] = "open" /\ IsRequest(req[c], s, p) /\ IsRegular(Stat(Tree, p))
     \/ /\ pc[c] = "open" /\ IsRequest(req[c], s, Index(p))
        /\ Stat(Tree, p) = "dir" /\ IsRegular(Stat(Tree, Index(p)))

\* The handler of c has written the response up to position w.
Handling(c, s, a, hdr, w) ==
  \/ pc[c] \in {"none", "read"} /\ up[c].q = <<Request(s, hdr)>> /\ w = -1
  \/ up[c].q = <<>> /\ Asked(c, s, hdr) /\ w = -1
  \/ up[c].q = <<>> /\ pc[c] = "headers" /\ w = -1 /\ IsWriting(out[c], s, a, 0)
  \/ /\ up[c].q = <<>> /\ pc[c] = "data"
     /\ w \in 0..(Len(a.body) - 1) /\ IsWriting(out[c], s, a, w)
  \/ up[c].q = <<>> /\ pc[c] = "read" /\ w = Len(a.body)

\* The connection holds a part of the response the client waits for, from
\* where the client is, and unless it is broken the handler writes the rest.
ExchangeAt(p, w) ==
  LET s == resp.stream IN
  /\ p = -1 \/ p # Len(Due.body)
  /\ resp = Received(s, Due, p)
  /\ Pieces(down[conn].q, s, Due, p, w)
  /\ up[conn].end = "open" => Handling(conn, s, Due, Get(Client!target), w)
Exchange == \E p, w \in -1..Len(Due.body) : ExchangeAt(p, w)

Quiet == up[conn].q = <<>> /\ down[conn].q = <<>> /\ pc[conn] \in {"none", "read"}

IsChannel(ch) == ch = [q |-> ch.q, end |-> ch.end] /\ ch.end \in Ends

Shapes ==
  /\ DOMAIN up = Conns /\ DOMAIN down = Conns
  /\ DOMAIN pc = Conns /\ DOMAIN req = Conns /\ DOMAIN out = Conns
  /\ \A c \in Conns : IsChannel(up[c]) /\ IsChannel(down[c]) /\ (up[c].end = "none" => pc[c] = "none")
  /\ fs = Tree

\* Where the client may be, and with which connection.
Places ==
  /\ nextStreamID \in Nat /\ conn \in Conns \cup {NoConn} /\ breaks \in Nat
  /\ cpc \in {"next", "dial", "send", "recv", "exit"}
  /\ cpc \in {"dial", "exit"} => conn = NoConn
  /\ cpc \in {"send", "recv"} => conn # NoConn
  /\ cpc \in {"dial", "send", "recv"} => urls # <<>> /\ Client!target # BadURL
  /\ cpc = "recv" => Client!target.path # LongPath

\* The connection held, between two requests and during one.
Held ==
  conn # NoConn =>
    /\ up[conn].end \in {"open", "reset"} /\ down[conn].end = up[conn].end
    /\ breaks = 0 => up[conn].end = "open"
    /\ cpc \in {"next", "send"} /\ up[conn].end = "open" => Quiet
    /\ cpc = "recv" => Exchange

Responses == [stream : Nat, status : Int, body : Seq(STRING)]
Reasons == {"url", "dial", "send", "headers", "goaway", "read"} \cup Types
Entries == [ok : BOOLEAN, status : Int, body : Seq(STRING), stream : Nat,
            conn : Conns \cup {NoConn}, by : Reasons]

\* The results so far, and the flag and the exit status that follow from them.
Books ==
  /\ resp \in Responses /\ log \in Seq(Entries)
  /\ code = -1 <=> cpc # "exit"
  /\ hasError <=> \E i \in 1..Len(log) : ~Service!Good(Result(log[i]))

IInv == Shapes /\ Places /\ Held /\ Books

\* What an answer is made of.
LEMMA AnswerType ==
  ASSUME NEW hdr
  PROVE  /\ Answer(Tree, hdr).body \in Seq(STRING)
         /\ Answer(Tree, hdr).status \in {200, 400, 404, 405, 500}
<1> DEFINE named  == Resolve(hdr.path)
           target == IF Stat(Tree, named) = "dir" THEN Index(named) ELSE named
<1>1. Stat(Tree, target) = "file" => target \in DOMAIN Tree
  BY DEF Stat
<1>2. HeadersStatus(hdr) \in {200, 400, 405}
  BY DEF HeadersStatus
<1> HIDE DEF target
<1>3. Stat(Tree, target) = "file" => Tree[target].data \in Seq(STRING)
  BY <1>1, SystemAssumption
<1>4. Answer(Tree, hdr) =
        LET kind == Stat(Tree, target)
            error(status) == [status |-> status, body |-> Message, sent |-> TRUE]
        IN IF HeadersStatus(hdr) # 200 THEN error(HeadersStatus(hdr))
           ELSE IF kind = "file" THEN [status |-> 200, body |-> Tree[target].data,
                                       sent |-> hdr.method = "GET" /\ Tree[target].data # <<>>]
           ELSE IF kind = "missing" \/ (Stat(Tree, named) = "dir" /\ ~IsRegular(kind)) THEN error(404)
           ELSE error(500)
  BY DEF Answer, target
<1> QED
  BY <1>2, <1>3, <1>4, ServerAssumption

LEMMA WritingFailure ==
  ASSUME NEW s, NEW status, NEW a, a.status = status, a.body = Message
  PROVE  IsWriting(Failure(s, status, FALSE), s, a, 0)
BY ServerAssumption DEF Failure, IsWriting

LEMMA WritingSuccess ==
  ASSUME NEW s, NEW body, NEW a, a.status = 200, a.body = body, NEW head, ~head
  PROVE  IsWriting(Success(s, body, head), s, a, 0)
BY DEF Success, IsWriting

LEMMA RequestFields ==
  ASSUME NEW r, NEW s, NEW p, IsRequest(r, s, p)
  PROVE  /\ r.stream = s /\ r.path = p /\ ~r.head
         /\ \A x : IsRequest([r EXCEPT !.path = x], s, x)
<1>1. r = [stream |-> s, head |-> r.head, path |-> p] /\ ~r.head
  BY DEF IsRequest
<1>2. r.stream = s /\ r.path = p
  BY <1>1
<1> DEFINE h == r.head
<1>3. r = [stream |-> s, head |-> h, path |-> p] /\ ~h
  BY <1>1
<1> HIDE DEF h
<1>4. ASSUME NEW x
      PROVE  IsRequest([r EXCEPT !.path = x], s, x)
  <2>1. [r EXCEPT !.path = x] = [stream |-> s, head |-> h, path |-> x]
    BY <1>3
  <2>2. [r EXCEPT !.path = x].head = h
    BY <2>1
  <2>3. ~[r EXCEPT !.path = x].head
    BY <2>2, <1>3, Zenon
  <2> QED
    BY <2>1, <2>2, <2>3 DEF IsRequest
<1> QED
  BY <1>1, <1>2, <1>4

\* The way of a position.
LEMMA FollowsType ==
  ASSUME NEW a, a.body \in Seq(STRING), NEW p, NEW r, Follows(a, p, r)
  PROVE  p \in Int /\ r \in Nat /\ p <= r /\ Len(a.body) \in Nat /\ r <= Len(a.body)
BY DEF Follows

LEMMA NoPieces ==
  ASSUME NEW s, NEW a, a.body \in Seq(STRING), NEW p \in -1..Len(a.body)
  PROVE  Pieces(<<>>, s, a, p, p)
<1> DEFINE cut == [i \in 0..0 |-> p]
<1>1. IsWay(cut, 0, a, p, p) /\ cut \in [0..0 -> -1..Len(a.body)]
  BY DEF IsWay
<1>2. <<>> = [i \in 1..0 |-> Piece(s, a, cut[i - 1], cut[i])]
  OBVIOUS
<1> HIDE DEF cut
<1> QED
  BY <1>1, <1>2 DEF Pieces

LEMMA AsFunction ==
  ASSUME NEW S, NEW q \in Seq(S)
  PROVE  q = [i \in 1..Len(q) |-> q[i]]
OBVIOUS

LEMMA IsSequence ==
  ASSUME NEW n \in Nat, NEW q, q = [i \in 1..n |-> q[i]]
  PROVE  \E S : q \in Seq(S) /\ Len(q) = n
<1> DEFINE S == {q[i] : i \in 1..n}
<1>1. \A i \in 1..n : q[i] \in S
  OBVIOUS
<1> HIDE DEF S
<1>2. q \in Seq(S) /\ Len(q) = n
  BY <1>1
<1> QED
  BY <1>2

\* Nothing follows the last position.
LEMMA PiecesEnd ==
  ASSUME NEW q, NEW s, NEW a, a.body \in Seq(STRING), NEW w, Pieces(q, s, a, Len(a.body), w)
  PROVE  q = <<>> /\ w = Len(a.body)
<1>1. PICK n \in Nat : \E cut \in [0..n -> -1..Len(a.body)] :
             IsWay(cut, n, a, Len(a.body), w) /\ q = [i \in 1..n |-> Piece(s, a, cut[i - 1], cut[i])]
  BY DEF Pieces
<1>2. PICK cut \in [0..n -> -1..Len(a.body)] :
             IsWay(cut, n, a, Len(a.body), w) /\ q = [i \in 1..n |-> Piece(s, a, cut[i - 1], cut[i])]
  BY <1>1
<1>3. n = 0
  <2>1. SUFFICES ASSUME n # 0 PROVE FALSE
    OBVIOUS
  <2>2. Follows(a, cut[0], cut[1]) /\ cut[0] = Len(a.body)
    <3>1. 1 \in 1..n /\ 1 - 1 = 0
      BY <2>1
    <3> QED
      BY <3>1, <1>2 DEF IsWay
  <2> QED
    BY <2>2 DEF Follows
<1> QED
  BY <1>2, <1>3 DEF IsWay

\* The first frame and the others.
LEMMA PiecesHead ==
  ASSUME NEW q, NEW s, NEW a, a.body \in Seq(STRING), NEW p, NEW w, Pieces(q, s, a, p, w), q # <<>>
  PROVE  \E r \in 0..Len(a.body) :
           Head(q) = Piece(s, a, p, r) /\ Follows(a, p, r) /\ Pieces(Tail(q), s, a, r, w)
<1>1. PICK n \in Nat : \E cut \in [0..n -> -1..Len(a.body)] :
             IsWay(cut, n, a, p, w) /\ q = [i \in 1..n |-> Piece(s, a, cut[i - 1], cut[i])]
  BY DEF Pieces
<1>2. PICK cut \in [0..n -> -1..Len(a.body)] :
             IsWay(cut, n, a, p, w) /\ q = [i \in 1..n |-> Piece(s, a, cut[i - 1], cut[i])]
  BY <1>1
<1> DEFINE rest == [i \in 0..(n - 1) |-> cut[i + 1]]
<1>s. \E S : q \in Seq(S) /\ Len(q) = n
  <2>1. q = [i \in 1..n |-> Piece(s, a, cut[i - 1], cut[i])]
    BY <1>2
  <2>2. q = [i \in 1..n |-> q[i]]
    BY <2>1
  <2> QED
    BY <2>2, IsSequence
<1>3. PICK S : q \in Seq(S) /\ Len(q) = n
  BY <1>s
<1>4. n >= 1
  BY <1>2
<1>5. Head(q) = q[1] /\ Tail(q) \in Seq(S) /\ Len(Tail(q)) = n - 1
      /\ \A i \in 1..(n - 1) : Tail(q)[i] = q[i + 1]
  BY <1>3, <1>4
<1>6. /\ Follows(a, cut[0], cut[1]) /\ cut[0] = p /\ cut[n] = w
      /\ \A i \in 1..n : Follows(a, cut[i - 1], cut[i])
      /\ q[1] = Piece(s, a, cut[0], cut[1])
  <2>1. 1 \in 1..n /\ 1 - 1 = 0
    BY <1>4
  <2> QED
    BY <2>1, <1>2 DEF IsWay
<1>7. \A i \in 1..(n - 1) : /\ i + 1 \in 1..n /\ (i + 1) - 1 = i
                            /\ rest[i - 1] = cut[i] /\ rest[i] = cut[i + 1]
  BY <1>4
<1>8. rest \in [0..(n - 1) -> -1..Len(a.body)] /\ rest[0] = cut[1] /\ rest[n - 1] = cut[n]
  BY <1>4
<1> HIDE DEF rest
<1>9. IsWay(rest, n - 1, a, cut[1], w)
  <2>1. \A i \in 1..(n - 1) : Follows(a, rest[i - 1], rest[i])
    <3>1. TAKE i \in 1..(n - 1)
    <3>2. Follows(a, cut[(i + 1) - 1], cut[i + 1])
      BY <1>6, <1>7
    <3> QED
      BY <3>2, <1>7
  <2> QED
    BY <1>6, <1>8, <2>1 DEF IsWay
<1>10. Tail(q) = [i \in 1..(n - 1) |-> Piece(s, a, rest[i - 1], rest[i])]
  <2>1. \A i \in 1..(n - 1) : Tail(q)[i] = Piece(s, a, rest[i - 1], rest[i])
    <3>1. TAKE i \in 1..(n - 1)
    <3>2. q[i + 1] = Piece(s, a, cut[(i + 1) - 1], cut[i + 1])
      BY <1>2, <1>7
    <3> QED
      BY <3>2, <1>5, <1>7
  <2>2. Tail(q) = [i \in 1..(n - 1) |-> Tail(q)[i]]
    <3>1. Tail(q) = [i \in 1..Len(Tail(q)) |-> Tail(q)[i]]
      BY <1>5, AsFunction
    <3> QED
      BY <3>1, <1>5
  <2> QED
    BY <2>1, <2>2
<1>11. Pieces(Tail(q), s, a, cut[1], w)
  <2>1. n - 1 \in Nat
    BY <1>4
  <2> QED
    BY <2>1, <1>8, <1>9, <1>10 DEF Pieces
<1> QED
  BY <1>5, <1>6, <1>11 DEF Follows

\* One more frame.
LEMMA PiecesAppend ==
  ASSUME NEW q, NEW s, NEW a, a.body \in Seq(STRING), NEW p, NEW w, Pieces(q, s, a, p, w),
         NEW r, Follows(a, w, r)
  PROVE  Pieces(Append(q, Piece(s, a, w, r)), s, a, p, r)
<1>1. PICK n \in Nat : \E cut \in [0..n -> -1..Len(a.body)] :
             IsWay(cut, n, a, p, w) /\ q = [i \in 1..n |-> Piece(s, a, cut[i - 1], cut[i])]
  BY DEF Pieces
<1>2. PICK cut \in [0..n -> -1..Len(a.body)] :
             IsWay(cut, n, a, p, w) /\ q = [i \in 1..n |-> Piece(s, a, cut[i - 1], cut[i])]
  BY <1>1
<1> DEFINE f == Piece(s, a, w, r)
           long == [i \in 0..(n + 1) |-> IF i = n + 1 THEN r ELSE cut[i]]
<1>s. \E S : q \in Seq(S) /\ Len(q) = n
  <2>1. q = [i \in 1..n |-> Piece(s, a, cut[i - 1], cut[i])]
    BY <1>2
  <2>2. q = [i \in 1..n |-> q[i]]
    BY <2>1
  <2> QED
    BY <2>2, IsSequence
<1>3. PICK S : q \in Seq(S) /\ Len(q) = n
  BY <1>s
<1> HIDE DEF f
<1>4. /\ Append(q, f) = [i \in 1..(n + 1) |-> Append(q, f)[i]]
      /\ \A i \in 1..n : Append(q, f)[i] = q[i]
      /\ Append(q, f)[n + 1] = f
  <2>1. q \in Seq(S \cup {f})
    BY <1>3
  <2>2. /\ Append(q, f) \in Seq(S \cup {f}) /\ Len(Append(q, f)) = n + 1
        /\ \A i \in 1..n : Append(q, f)[i] = q[i]
        /\ Append(q, f)[n + 1] = f
    BY <1>3, <2>1, AppendProperties
  <2>3. Append(q, f) = [i \in 1..Len(Append(q, f)) |-> Append(q, f)[i]]
    BY <2>2, AsFunction
  <2> QED
    BY <2>2, <2>3
<1>5. /\ long \in [0..(n + 1) -> -1..Len(a.body)] /\ long[0] = cut[0] /\ long[n + 1] = r
      /\ \A i \in 1..n : long[i - 1] = cut[i - 1] /\ long[i] = cut[i]
      /\ long[n] = cut[n]
  BY DEF Follows
<1>6. cut[0] = p /\ cut[n] = w /\ \A i \in 1..n : Follows(a, cut[i - 1], cut[i])
  BY <1>2 DEF IsWay
<1>e. \A i \in 1..(n + 1) : i \in 1..n \/ (i = n + 1 /\ i - 1 = n)
  OBVIOUS
<1> HIDE DEF long
<1>7. \A i \in 1..(n + 1) : Follows(a, long[i - 1], long[i])
  BY <1>5, <1>6, <1>e
<1>8. \A i \in 1..(n + 1) : Append(q, f)[i] = Piece(s, a, long[i - 1], long[i])
  <2>1. TAKE i \in 1..(n + 1)
  <2>2. CASE i \in 1..n
    <3>1. q[i] = Piece(s, a, cut[i - 1], cut[i])
      BY <1>2, <2>2
    <3> QED
      BY <3>1, <2>2, <1>4, <1>5
  <2>3. CASE i = n + 1 /\ i - 1 = n
    BY <2>3, <1>4, <1>5, <1>6 DEF f
  <2> QED
    BY <2>2, <2>3, <1>e
<1>9. IsWay(long, n + 1, a, p, r)
  BY <1>5, <1>6, <1>7 DEF IsWay
<1>10. Append(q, f) = [i \in 1..(n + 1) |-> Piece(s, a, long[i - 1], long[i])]
  BY <1>4, <1>8
<1>11. n + 1 \in Nat
  OBVIOUS
<1>12. Pieces(Append(q, f), s, a, p, r)
  BY <1>5, <1>9, <1>10, <1>11 DEF Pieces
<1> QED
  BY <1>12 DEF f

\* What is left of them when the connection breaks.
LEMMA PiecesPrefix ==
  ASSUME NEW q, NEW s, NEW a, a.body \in Seq(STRING), NEW p, NEW w, Pieces(q, s, a, p, w),
         NEW k \in 0..Len(q)
  PROVE  \E r \in -1..Len(a.body) : Pieces(SubSeq(q, 1, k), s, a, p, r)
<1>1. PICK n \in Nat : \E cut \in [0..n -> -1..Len(a.body)] :
             IsWay(cut, n, a, p, w) /\ q = [i \in 1..n |-> Piece(s, a, cut[i - 1], cut[i])]
  BY DEF Pieces
<1>2. PICK cut \in [0..n -> -1..Len(a.body)] :
             IsWay(cut, n, a, p, w) /\ q = [i \in 1..n |-> Piece(s, a, cut[i - 1], cut[i])]
  BY <1>1
<1> DEFINE short == [i \in 0..k |-> cut[i]]
<1>s. \E S : q \in Seq(S) /\ Len(q) = n
  <2>1. q = [i \in 1..n |-> Piece(s, a, cut[i - 1], cut[i])]
    BY <1>2
  <2>2. q = [i \in 1..n |-> q[i]]
    BY <2>1
  <2> QED
    BY <2>2, IsSequence
<1>3. PICK S : q \in Seq(S) /\ Len(q) = n
  BY <1>s
<1>4. k \in Nat /\ k <= n
  BY <1>3
<1>5. SubSeq(q, 1, k) = [i \in 1..k |-> q[i]]
  BY <1>3, <1>4
<1>6. /\ short \in [0..k -> -1..Len(a.body)] /\ short[0] = p /\ short[k] = cut[k]
      /\ \A i \in 1..k : i \in 1..n /\ short[i - 1] = cut[i - 1] /\ short[i] = cut[i]
  BY <1>2, <1>4 DEF IsWay
<1> HIDE DEF short
<1>7. IsWay(short, k, a, p, cut[k])
  BY <1>2, <1>6 DEF IsWay
<1>8. SubSeq(q, 1, k) = [i \in 1..k |-> Piece(s, a, short[i - 1], short[i])]
  BY <1>2, <1>5, <1>6
<1>9. cut[k] \in -1..Len(a.body)
  BY <1>4
<1> QED
  BY <1>4, <1>6, <1>7, <1>8, <1>9 DEF Pieces

-----------------------------------------------------------------------------
(* The handler                                                             *)

\* What any step of the handler of c does to the connections.
LEMMA HandlerFrame ==
  ASSUME Shapes, NEW c \in Conns, Handle(c)
  PROVE  /\ DOMAIN up' = Conns /\ DOMAIN down' = Conns
         /\ DOMAIN pc' = Conns /\ DOMAIN req' = Conns /\ DOMAIN out' = Conns
         /\ \A d \in Conns \ {c} : /\ up'[d] = up[d] /\ down'[d] = down[d] /\ pc'[d] = pc[d]
                                   /\ req'[d] = req[d] /\ out'[d] = out[d]
         /\ fs' = fs /\ up[c].end # "none"
         /\ \/ up'[c] = up[c] \/ up'[c] = ReadFrame(up[c]) \/ up'[c] = ClosedByReader(up[c])
         /\ \/ down'[c] = down[c]
            \/ CanWrite(down[c]) /\ \E f : down'[c] = WriteFrame(down[c], f)
            \/ down'[c] \in ClosedByWriter(down[c], CanRead(up[c]))
<1> DEFINE Goal ==
         /\ DOMAIN up' = Conns /\ DOMAIN down' = Conns
         /\ DOMAIN pc' = Conns /\ DOMAIN req' = Conns /\ DOMAIN out' = Conns
         /\ \A d \in Conns \ {c} : /\ up'[d] = up[d] /\ down'[d] = down[d] /\ pc'[d] = pc[d]
                                   /\ req'[d] = req[d] /\ out'[d] = out[d]
         /\ fs' = fs /\ up[c].end # "none"
         /\ \/ up'[c] = up[c] \/ up'[c] = ReadFrame(up[c]) \/ up'[c] = ClosedByReader(up[c])
         /\ \/ down'[c] = down[c]
            \/ CanWrite(down[c]) /\ \E f : down'[c] = WriteFrame(down[c], f)
            \/ down'[c] \in ClosedByWriter(down[c], CanRead(up[c]))
<1> SUFFICES Goal
  OBVIOUS
<1>a. /\ DOMAIN up = Conns /\ DOMAIN down = Conns
      /\ DOMAIN pc = Conns /\ DOMAIN req = Conns /\ DOMAIN out = Conns
      /\ up[c].end = "none" => pc[c] = "none"
  BY DEF Shapes
<1>b. ASSUME NEW type, Takes(c, type)
      PROVE  /\ up' = [up EXCEPT ![c] = ReadFrame(up[c])] /\ pc[c] = "read" /\ UNCHANGED <<down, fs>>
  BY <1>b DEF Takes
<1>c. ASSUME NEW f, Writes(c, f) \/ WriteError(c)
      PROVE  /\ UNCHANGED <<up, fs, req>> /\ DOMAIN down' = Conns
             /\ \A d \in Conns \ {c} : down'[d] = down[d]
             /\ \/ down'[c] = down[c]
                \/ CanWrite(down[c]) /\ \E g : down'[c] = WriteFrame(down[c], g)
  <2>1. CASE Writes(c, f)
    <3>1. down' = [down EXCEPT ![c] = WriteFrame(down[c], f)] /\ CanWrite(down[c])
      BY <2>1 DEF Writes
    <3> QED
      BY <3>1, <2>1, <1>a DEF Writes
  <2>2. CASE WriteError(c)
    <3>1. up' = up /\ down' = down /\ fs' = fs /\ req' = req
      BY <2>2 DEF WriteError
    <3> QED
      BY <3>1, <1>a
  <2> QED
    BY <1>c, <2>1, <2>2
<1>1. CASE Accept(c)
  BY <1>1, <1>a DEF Accept, Goto, local
<1>2. CASE SkipUnknown(c)
  BY <1>2, <1>a, <1>b DEF SkipUnknown, local
<1>3. CASE IgnoreData(c)
  BY <1>3, <1>a, <1>b DEF IgnoreData, local
<1>4. CASE TakePing(c)
  BY <1>4, <1>a, <1>b DEF TakePing, Goto
<1>5. CASE TakeGoAway(c)
  BY <1>5, <1>a, <1>b DEF TakeGoAway, Goto, local
<1>6. CASE TakeHeaders(c)
  <2>1. /\ up' = [up EXCEPT ![c] = ReadFrame(up[c])] /\ pc[c] = "read" /\ UNCHANGED <<down, fs>>
    BY <1>6, <1>b DEF TakeHeaders
  <2>2. /\ (\E l : pc' = [pc EXCEPT ![c] = l])
        /\ (\E r : req' = [req EXCEPT ![c] = r]) \/ req' = req
        /\ (\E o : out' = [out EXCEPT ![c] = o]) \/ out' = out
    BY <1>6 DEF TakeHeaders, Reply, Goto
  <2> QED
    BY <1>a, <2>1, <2>2
<1>7. CASE StatPath(c)
  <2>1. /\ \E l : pc' = [pc EXCEPT ![c] = l]
        /\ (\E o : out' = [out EXCEPT ![c] = o]) \/ out' = out
        /\ UNCHANGED <<up, down, fs, req>> /\ pc[c] = "stat"
    BY <1>7, ZenonT(30) DEF StatPath, Reply, Goto
  <2> QED
    BY <1>a, <2>1
<1>8. CASE StatIndex(c)
  BY <1>8, <1>a, ZenonT(30) DEF StatIndex, Reply, Goto
<1>9. CASE ReadFile(c)
  BY <1>9, <1>a DEF ReadFile, Reply, Goto
<1>10. CASE Pong(c)
  BY <1>10, <1>a, <1>c DEF Pong, Goto
<1>11. CASE SendHeaders(c)
  <2>1. /\ Writes(c, HeadersFrame(out[c])) \/ WriteError(c)
        /\ (\E l : pc' = [pc EXCEPT ![c] = l]) /\ out' = out /\ pc[c] = "headers"
    BY <1>11 DEF SendHeaders, Goto
  <2> QED
    BY <2>1, <1>a, <1>c
<1>12. CASE SendData(c)
  <2>1. /\ Writes(c, DataFrame(out[c])) \/ WriteError(c)
        /\ (\E l : pc' = [pc EXCEPT ![c] = l]) /\ pc[c] = "data"
        /\ (\E e : out' = [out EXCEPT ![c].off = e]) \/ out' = out
    BY <1>12 DEF SendData, Goto
  <2> QED
    BY <2>1, <1>a, <1>c
<1>13. CASE ReadFails(c)
  BY <1>13, <1>a, ZenonT(30) DEF ReadFails, Reply, Goto
<1>14. CASE Close(c)
  BY <1>14, <1>a DEF Close, Goto, local
<1> QED
  BY <1>1, <1>2, <1>3, <1>4, <1>5, <1>6, <1>7, <1>8, <1>9, <1>10, <1>11, <1>12, <1>13, <1>14
  DEF Handle

\* What becomes of a channel.
LEMMA ChannelSteps ==
  ASSUME NEW ch, IsChannel(ch)
  PROVE  /\ IsChannel(ReadFrame(ch)) /\ ReadFrame(ch).end = ch.end /\ ReadFrame(ch).q = Tail(ch.q)
         /\ IsChannel(ClosedByReader(ch))
         /\ ClosedByReader(ch).end = (IF ch.end = "open" THEN "gone" ELSE ch.end)
         /\ \A f : /\ IsChannel(WriteFrame(ch, f)) /\ WriteFrame(ch, f).end = ch.end
                   /\ ch.end = "open" => WriteFrame(ch, f).q = Append(ch.q, f)
         /\ \A unread \in BOOLEAN : \A b \in ClosedByWriter(ch, unread) :
              /\ IsChannel(b)
              /\ IF ch.end = "open" THEN b.end \in {"eof", "reset"} ELSE b = ch
         /\ \A b \in Broken(ch) : /\ IsChannel(b) /\ b.end = "reset"
                                  /\ \E n \in 0..Len(ch.q) : b.q = SubSeq(ch.q, 1, n)
<1>1. \A b \in Broken(ch) : /\ IsChannel(b) /\ b.end = "reset"
                            /\ \E n \in 0..Len(ch.q) : b.q = SubSeq(ch.q, 1, n)
  BY DEF Broken, IsChannel, Ends, Cuts
<1>2. ASSUME NEW unread \in BOOLEAN, NEW b \in ClosedByWriter(ch, unread)
      PROVE  /\ IsChannel(b)
             /\ IF ch.end = "open" THEN b.end \in {"eof", "reset"} ELSE b = ch
  <2>1. CASE ch.end # "open"
    BY <1>2, <2>1 DEF ClosedByWriter
  <2>2. CASE ch.end = "open"
    <3>1. b = [ch EXCEPT !.end = "eof"] \/ b \in Broken(ch)
      BY <1>2, <2>2 DEF ClosedByWriter
    <3>2. CASE b = [ch EXCEPT !.end = "eof"]
      BY <3>2, <2>2 DEF IsChannel, Ends, Cuts
    <3> QED
      BY <3>1, <3>2, <2>2, <1>1
  <2> QED
    BY <2>1, <2>2
<1>3. IsChannel(ReadFrame(ch)) /\ ReadFrame(ch).end = ch.end /\ ReadFrame(ch).q = Tail(ch.q)
  <2> DEFINE t == Tail(ch.q)
  <2>1. ReadFrame(ch) = [ch EXCEPT !.q = t]
    BY DEF ReadFrame
  <2> HIDE DEF t
  <2>2. IsChannel(ReadFrame(ch)) /\ ReadFrame(ch).end = ch.end /\ ReadFrame(ch).q = t
    BY <2>1 DEF IsChannel
  <2> QED
    BY <2>2 DEF t
<1>4. /\ IsChannel(ClosedByReader(ch))
      /\ ClosedByReader(ch).end = (IF ch.end = "open" THEN "gone" ELSE ch.end)
  BY DEF ClosedByReader, IsChannel, Ends, Cuts
<1>5. ASSUME NEW f
      PROVE  /\ IsChannel(WriteFrame(ch, f)) /\ WriteFrame(ch, f).end = ch.end
             /\ ch.end = "open" => WriteFrame(ch, f).q = Append(ch.q, f)
  BY DEF WriteFrame, IsChannel
<1> QED
  BY <1>1, <1>2, <1>3, <1>4, <1>5

\* The shape of the connections is kept.
LEMMA HandlerShapes ==
  ASSUME Shapes, NEW c \in Conns, Handle(c)
  PROVE  Shapes'
<1>a. IsChannel(up[c]) /\ IsChannel(down[c]) /\ CanRead(up[c]) \in BOOLEAN
  BY DEF Shapes, CanRead
<1>1. IsChannel(up'[c]) /\ up'[c].end # "none"
  <2>1. up[c].end # "none" /\ (up'[c] = up[c] \/ up'[c] = ReadFrame(up[c]) \/ up'[c] = ClosedByReader(up[c]))
    BY HandlerFrame
  <2> QED
    BY <1>a, <2>1, ChannelSteps
<1>2. IsChannel(down'[c])
  <2>1. \/ down'[c] = down[c]
        \/ CanWrite(down[c]) /\ \E f : down'[c] = WriteFrame(down[c], f)
        \/ down'[c] \in ClosedByWriter(down[c], CanRead(up[c]))
    BY HandlerFrame
  <2> DEFINE ch == down[c]
             b  == down'[c]
             unread == CanRead(up[c])
  <2>2. /\ IsChannel(ch) /\ unread \in BOOLEAN
        /\ \/ b = ch
           \/ \E f : b = WriteFrame(ch, f)
           \/ b \in ClosedByWriter(ch, unread)
    BY <1>a, <2>1
  <2> HIDE DEF ch, b, unread
  <2>3. IsChannel(b)
    BY <2>2, ChannelSteps
  <2> QED
    BY <2>3 DEF b
<1>3. \A d \in Conns : IsChannel(up'[d]) /\ IsChannel(down'[d]) /\ (up'[d].end = "none" => pc'[d] = "none")
  <2>1. TAKE d \in Conns
  <2>2. CASE d = c
    BY <1>1, <1>2, <2>2
  <2>3. CASE d # c
    BY <2>3, HandlerFrame DEF Shapes
  <2> QED
    BY <2>2, <2>3
<1> QED
  BY <1>3, HandlerFrame DEF Shapes, IsChannel

\* On a connection that broke the handler reads what is left and writes
\* nothing.
LEMMA HandlerOnBroken ==
  ASSUME Shapes, NEW c \in Conns, Handle(c), up[c].end = "reset", down[c].end = "reset"
  PROVE  up'[c].end = "reset" /\ down'[c] = down[c]
<1>a. IsChannel(up[c]) /\ IsChannel(down[c]) /\ CanRead(up[c]) \in BOOLEAN /\ ~CanWrite(down[c])
  BY DEF Shapes, CanRead, CanWrite
<1>1. up'[c].end = "reset"
  <2>1. up'[c] = up[c] \/ up'[c] = ReadFrame(up[c]) \/ up'[c] = ClosedByReader(up[c])
    BY HandlerFrame
  <2> QED
    BY <1>a, <2>1, ChannelSteps
<1>2. down'[c] = down[c]
  <2> DEFINE ch == down[c]
             b  == down'[c]
             unread == CanRead(up[c])
  <2>1. b = ch \/ b \in ClosedByWriter(ch, unread)
    BY <1>a, HandlerFrame
  <2>2. IsChannel(ch) /\ unread \in BOOLEAN /\ ch.end # "open"
    BY <1>a
  <2> HIDE DEF ch, b, unread
  <2>3. b = ch
    BY <2>1, <2>2, ChannelSteps
  <2> QED
    BY <2>3 DEF b, ch
<1> QED
  BY <1>1, <1>2

\* Between two requests a handler at most begins.
LEMMA HandlerWhenQuiet ==
  ASSUME Shapes, NEW c \in Conns, Handle(c), up[c].end = "open", up[c].q = <<>>,
         pc[c] \in {"none", "read"}
  PROVE  pc'[c] = "read" /\ up'[c] = up[c] /\ down'[c] = down[c]
<1>1. \A type : ~Takes(c, type)
  BY DEF Takes, CanRead
<1>2. Accept(c)
  BY <1>1 DEF Handle, SkipUnknown, IgnoreData, TakePing, TakeGoAway, TakeHeaders, StatPath,
     StatIndex, ReadFile, Pong, SendHeaders, SendData, ReadFails, AtEnd, Close
<1> QED
  BY <1>2 DEF Accept, Goto, Shapes

\* The frames the handler writes take the response on.
LEMMA HeadersPiece ==
  ASSUME NEW s, NEW a, a.body \in Seq(STRING), NEW o, IsWriting(o, s, a, 0)
  PROVE  HeadersFrame(o) = Piece(s, a, -1, 0) /\ Follows(a, -1, 0)
<1>1. a.body = <<>> <=> Len(a.body) = 0
  OBVIOUS
<1>2. o.ends <=> Len(a.body) = 0
  BY <1>1 DEF IsWriting
<1>3. o.stream = s /\ o.status = a.status /\ o.body = a.body
  BY DEF IsWriting
<1>4. HeadersFrame(o) = Piece(s, a, -1, 0)
  BY <1>2, <1>3 DEF HeadersFrame, Piece
<1> QED
  BY <1>4 DEF Follows

LEMMA DataPiece ==
  ASSUME NEW s, NEW a, a.body \in Seq(STRING), NEW w \in 0..(Len(a.body) - 1),
         NEW o, IsWriting(o, s, a, w)
  PROVE  /\ ChunkEnd(o) \in (w + 1)..Len(a.body) /\ Follows(a, w, ChunkEnd(o))
         /\ DataFrame(o) = Piece(s, a, w, ChunkEnd(o))
<1> DEFINE e == ChunkEnd(o)
<1>1. o.body = a.body /\ o.off = w /\ o.stream = s /\ Len(a.body) \in Nat
  BY DEF IsWriting
<1>2. e \in (w + 1)..Len(a.body)
  BY <1>1, ServerAssumption DEF ChunkEnd
<1>3. DataFrame(o) = Frame("DATA", IF e = Len(a.body) THEN {FlagEndStream} ELSE {}, s, NoHdr,
                           SubSeq(a.body, w + 1, e))
  BY <1>1 DEF DataFrame
<1> HIDE DEF e
<1>4. Follows(a, w, e) /\ DataFrame(o) = Piece(s, a, w, e)
  BY <1>1, <1>2, <1>3 DEF Follows, Piece
<1> QED
  BY <1>2, <1>4 DEF e

\* The handler on the connection of a request takes the response on.
LEMMA HandlerAnswers ==
  ASSUME Shapes, NEW c \in Conns, Handle(c), up[c].end = "open", down[c].end = "open",
         NEW t, NEW s, NEW hdr, hdr = Get(t), NEW a, a = Answer(Tree, hdr),
         NEW p \in -1..Len(a.body), NEW w \in -1..Len(a.body),
         Pieces(down[c].q, s, a, p, w), Handling(c, s, a, hdr, w)
  PROVE  /\ up'[c].end = "open" /\ down'[c].end = "open"
         /\ \E w2 \in -1..Len(a.body) : /\ Pieces(down'[c].q, s, a, p, w2)
                                        /\ Handling(c, s, a, hdr, w2)'
<1> DEFINE Goal == /\ up'[c].end = "open" /\ down'[c].end = "open"
                   /\ \E w2 \in -1..Len(a.body) : /\ Pieces(down'[c].q, s, a, p, w2)
                                                  /\ Handling(c, s, a, hdr, w2)'
<1>a. a.body \in Seq(STRING) /\ Len(a.body) \in Nat /\ a.status \in {200, 400, 404, 405, 500}
  BY AnswerType
<1>b. /\ DOMAIN up = Conns /\ DOMAIN down = Conns /\ IsChannel(up[c]) /\ IsChannel(down[c])
      /\ DOMAIN pc = Conns /\ DOMAIN req = Conns /\ DOMAIN out = Conns /\ fs = Tree
  BY DEF Shapes
<1>c. -1 \in -1..Len(a.body) /\ Len(a.body) \in -1..Len(a.body)
  BY <1>a
\* Nothing is read and nothing can be read.
<1>d. ASSUME NEW type, up[c].q = <<>> PROVE ~Takes(c, type)
  BY <1>d DEF Takes, CanRead
<1>e. ~AtEnd(up[c])
  BY DEF AtEnd
<1>f. ASSUME UNCHANGED <<up, down>>, NEW w2 \in -1..Len(a.body), w2 = w, Handling(c, s, a, hdr, w2)'
      PROVE  Goal
  BY <1>f
\* A frame is written.
<1>g. ASSUME NEW f, Writes(c, f) \/ WriteError(c)
      PROVE  /\ up' = up /\ fs' = fs /\ req' = req
             /\ down'[c].end = "open" /\ down'[c].q = Append(down[c].q, f)
  <2>1. Writes(c, f)
    BY <1>g DEF WriteError, WriteFails
  <2>2. down'[c] = WriteFrame(down[c], f)
    BY <2>1, <1>b DEF Writes
  <2> QED
    BY <2>1, <2>2, <1>b, ChannelSteps DEF Writes
<1> SUFFICES Goal
  OBVIOUS
<1> HIDE DEF Goal
<1>1. CASE pc[c] \in {"none", "read"} /\ up[c].q = <<Request(s, hdr)>> /\ w = -1
  <2>1. CASE pc[c] = "none"
    <3>1. Accept(c)
      BY <2>1 DEF Handle, SkipUnknown, IgnoreData, TakePing, TakeGoAway, TakeHeaders, Takes, StatPath,
         StatIndex, ReadFile, Pong, SendHeaders, SendData, ReadFails, Close
    <3>2. UNCHANGED <<up, down>> /\ pc'[c] = "read"
      BY <3>1, <1>b DEF Accept, Goto
    <3>3. Handling(c, s, a, hdr, -1)'
      BY <3>2, <1>1 DEF Handling
    <3> QED
      BY <1>1, <1>c, <1>f, <3>2, <3>3
  <2>2. CASE pc[c] = "read"
    <3>1. Head(up[c].q) = Request(s, hdr) /\ Tail(up[c].q) = <<>> /\ up[c].q # <<>>
      BY <1>1
    <3>2. TakeHeaders(c)
      BY <2>2, <3>1 DEF Handle, Accept, SkipUnknown, IgnoreData, TakePing, TakeGoAway, Takes, StatPath,
         StatIndex, ReadFile, Pong, SendHeaders, SendData, ReadFails, AtEnd, Close, Request, Frame
    <3>3. up'[c] = ReadFrame(up[c]) /\ UNCHANGED <<down, fs>>
      BY <3>2, <1>b DEF TakeHeaders, Takes
    <3>4. up'[c].q = <<>> /\ up'[c].end = "open"
      <4>1. ReadFrame(up[c]).q = Tail(up[c].q) /\ ReadFrame(up[c]).end = up[c].end
        BY <1>b, ChannelSteps, Zenon
      <4> QED
        BY <3>1, <3>3, <4>1
    <3>5. /\ Head(up[c].q).hdr = hdr /\ Head(up[c].q).stream = s /\ hdr.method = "GET"
          /\ hdr.method # "HEAD"
      BY <3>1 DEF Request, Frame, Get
    <3>6. Handling(c, s, a, hdr, -1)'
      <4>1. CASE HeadersStatus(hdr) = 200
        <5>1. /\ req' = [req EXCEPT ![c] = [stream |-> s, head |-> hdr.method = "HEAD",
                                            path |-> Resolve(hdr.path)]]
              /\ pc' = [pc EXCEPT ![c] = "stat"]
          BY <3>2, <3>5, <4>1 DEF TakeHeaders, Goto
        <5>2. /\ req'[c] = [stream |-> s, head |-> hdr.method = "HEAD", path |-> Resolve(hdr.path)]
              /\ pc'[c] = "stat"
          BY <5>1, <1>b
        <5>3. ~req'[c].head
          <6>1. req'[c].head = (hdr.method = "HEAD")
            BY <5>2
          <6> QED
            BY <6>1, <3>5, Zenon
        <5>4. IsRequest(req'[c], s, Resolve(hdr.path))
          BY <5>2, <5>3 DEF IsRequest
        <5> QED
          BY <5>2, <5>4, <3>4, <4>1 DEF Handling, Asked
      <4>2. CASE HeadersStatus(hdr) # 200
        <5>1. Reply(c, Failure(s, HeadersStatus(hdr), FALSE))
          BY <3>2, <3>5, <4>2 DEF TakeHeaders
        <5>2. out'[c] = Failure(s, HeadersStatus(hdr), FALSE) /\ pc'[c] = "headers"
          BY <5>1, <1>b DEF Reply, Goto
        <5>3. a.status = HeadersStatus(hdr) /\ a.body = Message
          BY <4>2 DEF Answer
        <5>4. IsWriting(out'[c], s, a, 0)
          BY <5>2, <5>3, WritingFailure
        <5> QED
          BY <5>2, <5>4, <3>4 DEF Handling
      <4> QED
        BY <4>1, <4>2
    <3> QED
      BY <1>1, <1>c, <3>3, <3>4, <3>6 DEF Goal
  <2> QED
    BY <1>1, <2>1, <2>2
<1>2. CASE up[c].q = <<>> /\ Asked(c, s, hdr) /\ w = -1
  <2> DEFINE path == Resolve(hdr.path)
  <2>0. ASSUME UNCHANGED <<up, down>>, (Asked(c, s, hdr)' \/ (pc'[c] = "headers" /\ IsWriting(out'[c], s, a, 0)))
        PROVE  Goal
    <3>1. Handling(c, s, a, hdr, -1)'
      BY <1>2, <2>0 DEF Handling
    <3> QED
      BY <1>2, <1>c, <1>f, <2>0, <3>1
  <2>f. ASSUME NEW status, Reply(c, Failure(s, status, FALSE)), a.status = status, a.body = Message,
               UNCHANGED <<up, down>>
        PROVE  Goal
    <3>1. out'[c] = Failure(s, status, FALSE) /\ pc'[c] = "headers"
      BY <2>f, <1>b DEF Reply, Goto
    <3>2. IsWriting(out'[c], s, a, 0)
      BY <2>f, <3>1, WritingFailure
    <3> QED
      BY <2>0, <2>f, <3>1, <3>2
  <2>1. CASE pc[c] = "stat"
    <3>1. StatPath(c)
      BY <2>1, <1>2, <1>d DEF Handle, Accept, SkipUnknown, IgnoreData, TakePing, TakeGoAway, TakeHeaders,
         StatIndex, ReadFile, Pong, SendHeaders, SendData, ReadFails, Close
    <3>2. /\ IsRequest(req[c], s, path) /\ HeadersStatus(hdr) = 200
          /\ UNCHANGED <<up, down, req>>
      BY <2>1, <3>1, <1>2 DEF Asked, StatPath
    <3>a. req[c].path = path /\ req[c].stream = s /\ fs = Tree
      BY <3>2, <1>b, RequestFields
    <3>b. \/ Stat(fs, req[c].path) \in {"dir", "file", "locked"}
          \/ Stat(fs, req[c].path) = "missing" /\ Reply(c, Failure(req[c].stream, 404, FALSE))
          \/ Stat(fs, req[c].path) # "missing" /\ Reply(c, Failure(req[c].stream, 500, FALSE))
      BY <3>1 DEF StatPath, IsRegular
    <3>3. CASE Stat(Tree, path) = "dir"
      <4>1. pc'[c] = "index" /\ req'[c] = req[c]
        BY <3>1, <3>a, <3>3, <1>b DEF StatPath, Goto, IsRegular
      <4>2. Asked(c, s, hdr)'
        BY <4>1, <3>2, <3>3 DEF Asked
      <4> QED
        BY <2>0, <3>2, <4>2
    <3>4. CASE IsRegular(Stat(Tree, path))
      <4>1. pc'[c] = "open" /\ req'[c] = req[c]
        BY <3>1, <3>a, <3>4, <1>b DEF StatPath, Goto, IsRegular
      <4>2. Asked(c, s, hdr)'
        BY <4>1, <3>2, <3>4 DEF Asked
      <4> QED
        BY <2>0, <3>2, <4>2
    <3>5. CASE Stat(Tree, path) = "missing"
      <4>1. Reply(c, Failure(s, 404, FALSE))
        <5>1. Reply(c, Failure(req[c].stream, 404, FALSE))
          <6>1. Stat(fs, req[c].path) \notin {"dir", "file", "locked"} /\ Stat(fs, req[c].path) = "missing"
            BY <3>a, <3>5
          <6> QED
            BY <6>1, <3>b
        <5> QED
          BY <5>1, <3>a
      <4>2. a.status = 404 /\ a.body = Message
        BY <3>2, <3>5 DEF Answer
      <4> QED
        BY <2>f, <3>2, <4>1, <4>2, ServerAssumption, ZenonT(30)
    <3>6. CASE Stat(Tree, path) # "missing" /\ ~IsRegular(Stat(Tree, path)) /\ Stat(Tree, path) # "dir"
      <4>1. Reply(c, Failure(s, 500, FALSE))
        <5>1. Reply(c, Failure(req[c].stream, 500, FALSE))
          <6>1. Stat(fs, req[c].path) \notin {"dir", "file", "locked", "missing"}
            BY <3>a, <3>6 DEF IsRegular
          <6> QED
            BY <6>1, <3>b
        <5> QED
          BY <5>1, <3>a
      <4>2. a.status = 500 /\ a.body = Message
        BY <3>2, <3>6 DEF Answer, IsRegular
      <4> QED
        BY <2>f, <3>2, <4>1, <4>2, ServerAssumption, ZenonT(30)
    <3> QED
      BY <3>3, <3>4, <3>5, <3>6
  <2>2. CASE pc[c] = "index"
    <3>1. StatIndex(c)
      BY <2>2, <1>2, <1>d DEF Handle, Accept, SkipUnknown, IgnoreData, TakePing, TakeGoAway, TakeHeaders,
         StatPath, ReadFile, Pong, SendHeaders, SendData, ReadFails, Close
    <3>2. /\ IsRequest(req[c], s, path) /\ HeadersStatus(hdr) = 200
          /\ UNCHANGED <<up, down>> /\ Stat(Tree, path) = "dir"
      BY <2>2, <3>1, <1>2 DEF Asked, StatIndex
    <3>a. req[c].path = path /\ req[c].stream = s /\ fs = Tree
      BY <3>2, <1>b, RequestFields
    <3>3. CASE IsRegular(Stat(Tree, Index(path)))
      <4>1. pc'[c] = "open" /\ IsRequest(req'[c], s, Index(path))
        <5>1. pc'[c] = "open" /\ req'[c] = [req[c] EXCEPT !.path = Index(path)]
          BY <3>1, <3>a, <3>3, <1>b DEF StatIndex, Goto
        <5> QED
          BY <5>1, <3>2, RequestFields
      <4>2. Asked(c, s, hdr)'
        BY <4>1, <3>2, <3>3 DEF Asked
      <4> QED
        BY <2>0, <3>2, <4>2
    <3>4. CASE ~IsRegular(Stat(Tree, Index(path)))
      <4>1. Reply(c, Failure(s, 404, FALSE))
        BY <3>1, <3>a, <3>4, <1>b DEF StatIndex
      <4>2. a.status = 404 /\ a.body = Message
        BY <3>2, <3>4 DEF Answer, IsRegular
      <4> QED
        BY <2>f, <3>2, <4>1, <4>2, ServerAssumption
    <3> QED
      BY <3>3, <3>4
  <2>3. CASE pc[c] = "open"
    <3>1. ReadFile(c)
      BY <2>3, <1>2, <1>d DEF Handle, Accept, SkipUnknown, IgnoreData, TakePing, TakeGoAway, TakeHeaders,
         StatPath, StatIndex, Pong, SendHeaders, SendData, ReadFails, Close
    <3>2. PICK named : /\ IsRequest(req[c], s, named) /\ HeadersStatus(hdr) = 200
                       /\ UNCHANGED <<up, down>> /\ IsRegular(Stat(Tree, named))
                       /\ named = IF Stat(Tree, path) = "dir" THEN Index(path) ELSE path
      BY <2>3, <3>1, <1>2 DEF Asked, ReadFile, IsRegular
    <3>a. req[c].path = named /\ req[c].stream = s /\ ~req[c].head /\ fs = Tree
      BY <3>2, <1>b, RequestFields
    <3>3. CASE Stat(Tree, named) = "file"
      <4>1. Reply(c, Success(s, Tree[named].data, req[c].head))
        BY <3>1, <3>a, <3>3, <1>b DEF ReadFile
      <4>2. a.status = 200 /\ a.body = Tree[named].data
        BY <3>2, <3>3 DEF Answer
      <4>3. out'[c] = Success(s, Tree[named].data, req[c].head) /\ pc'[c] = "headers"
        BY <4>1, <1>b DEF Reply, Goto
      <4>4. IsWriting(out'[c], s, a, 0)
        <5>1. IsWriting(Success(s, Tree[named].data, req[c].head), s, a, 0)
          BY <3>a, <4>2, WritingSuccess, Zenon
        <5> QED
          BY <4>3, <5>1
      <4> QED
        BY <2>0, <3>2, <4>3, <4>4
    <3>4. CASE Stat(Tree, named) # "file"
      <4>1. Reply(c, Failure(s, 500, FALSE))
        BY <3>1, <3>a, <3>4, <1>b DEF ReadFile
      <4>2. a.status = 500 /\ a.body = Message
        BY <3>2, <3>4 DEF Answer, IsRegular
      <4> QED
        BY <2>f, <3>2, <4>1, <4>2, ServerAssumption, ZenonT(30)
    <3> QED
      BY <3>3, <3>4
  <2> QED
    BY <1>2, <2>1, <2>2, <2>3 DEF Asked
<1>3. CASE up[c].q = <<>> /\ pc[c] = "headers" /\ w = -1 /\ IsWriting(out[c], s, a, 0)
  <2>1. SendHeaders(c)
    BY <1>3, <1>d DEF Handle, Accept, SkipUnknown, IgnoreData, TakePing, TakeGoAway, TakeHeaders,
       StatPath, StatIndex, ReadFile, Pong, SendData, ReadFails, Close
  <2>2. Writes(c, HeadersFrame(out[c])) \/ WriteError(c)
    BY <2>1 DEF SendHeaders
  <2>3. up' = up /\ down'[c].end = "open" /\ down'[c].q = Append(down[c].q, Piece(s, a, -1, 0))
    <3>1. HeadersFrame(out[c]) = Piece(s, a, -1, 0)
      BY <1>3, <1>a, HeadersPiece
    <3> DEFINE f == HeadersFrame(out[c])
    <3> HIDE DEF f
    <3>2. up' = up /\ down'[c].end = "open" /\ down'[c].q = Append(down[c].q, f)
      BY <1>g, <2>2 DEF f
    <3> QED
      BY <3>1, <3>2 DEF f
  <2>4. Pieces(down'[c].q, s, a, p, 0)
    BY <1>3, <1>a, <2>3, HeadersPiece, PiecesAppend
  <2>5. Handling(c, s, a, hdr, 0)'
    <3>1. ~WriteError(c)
      BY DEF WriteError, WriteFails
    <3>2. pc'[c] = (IF a.body = <<>> THEN "read" ELSE "data") /\ out'[c] = out[c]
      BY <1>3, <1>b, <2>1, <3>1 DEF SendHeaders, Goto, AfterResponse, IsWriting
    <3> QED
      BY <1>3, <1>a, <2>3, <3>2 DEF Handling
  <2>6. 0 \in -1..Len(a.body)
    BY <1>a
  <2> QED
    BY <2>3, <2>4, <2>5, <2>6 DEF Goal
<1>4. CASE /\ up[c].q = <<>> /\ pc[c] = "data"
           /\ w \in 0..(Len(a.body) - 1) /\ IsWriting(out[c], s, a, w)
  <2>0. PICK e \in (w + 1)..Len(a.body) :
          /\ e = ChunkEnd(out[c]) /\ Follows(a, w, e) /\ DataFrame(out[c]) = Piece(s, a, w, e)
    BY <1>4, <1>a, DataPiece
  <2>1. SendData(c)
    BY <1>4, <1>d DEF Handle, Accept, SkipUnknown, IgnoreData, TakePing, TakeGoAway, TakeHeaders,
       StatPath, StatIndex, ReadFile, Pong, SendHeaders, ReadFails, Close
  <2>2. Writes(c, DataFrame(out[c])) \/ WriteError(c)
    BY <2>1 DEF SendData
  <2>3. up' = up /\ down'[c].end = "open" /\ down'[c].q = Append(down[c].q, Piece(s, a, w, e))
    BY <2>0, <1>g, <2>2
  <2>4. Pieces(down'[c].q, s, a, p, e)
    BY <1>4, <1>a, <2>0, <2>3, PiecesAppend
  <2>5. Handling(c, s, a, hdr, e)'
    <3>1. ~WriteError(c)
      BY DEF WriteError, WriteFails
    <3>2. /\ pc'[c] = (IF e = Len(out[c].body) THEN AfterResponse(out[c]) ELSE "data")
          /\ out'[c] = [out[c] EXCEPT !.off = e]
      BY <1>b, <2>0, <2>1, <3>1 DEF SendData, Goto
    <3>3. /\ pc'[c] = (IF e = Len(a.body) THEN "read" ELSE "data")
          /\ IsWriting(out'[c], s, a, e)
      <4> DEFINE o == out[c]
                 n == out'[c]
      <4>1. /\ o = [stream |-> s, status |-> a.status, body |-> a.body, off |-> w,
                     ends |-> o.ends, last |-> o.last]
            /\ ~o.last /\ (o.ends <=> a.body = <<>>) /\ n = [o EXCEPT !.off = e]
        BY <1>4, <3>2 DEF IsWriting
      <4>2. pc'[c] = IF e = Len(a.body) THEN "read" ELSE "data"
        BY <4>1, <3>2 DEF AfterResponse
      <4> HIDE DEF o, n
      <4>3. /\ n = [stream |-> s, status |-> a.status, body |-> a.body, off |-> e,
                     ends |-> o.ends, last |-> o.last]
            /\ n.ends = o.ends /\ n.last = o.last
        BY <4>1
      <4>4. n = [stream |-> s, status |-> a.status, body |-> a.body, off |-> e,
                 ends |-> n.ends, last |-> n.last]
        BY <4>3
      <4>5. IsWriting(n, s, a, e)
        BY <4>1, <4>3, <4>4, Zenon DEF IsWriting
      <4> QED
        BY <4>2, <4>5 DEF n
    <3>4. up'[c].q = <<>>
      BY <1>4, <2>3
    <3>5. e = Len(a.body) \/ e \in 0..(Len(a.body) - 1)
      BY <1>a, <1>4
    <3> QED
      BY <3>3, <3>4, <3>5 DEF Handling
  <2>6. e \in -1..Len(a.body)
    BY <1>4
  <2> QED
    BY <2>3, <2>4, <2>5, <2>6 DEF Goal
<1>5. CASE up[c].q = <<>> /\ pc[c] = "read" /\ w = Len(a.body)
  <2>1. FALSE
    BY <1>5, <1>d, <1>e DEF Handle, Accept, SkipUnknown, IgnoreData, TakePing, TakeGoAway, TakeHeaders,
       StatPath, StatIndex, ReadFile, Pong, SendHeaders, SendData, ReadFails, Close
  <2> QED
    BY <2>1
<1> QED
  BY <1>1, <1>2, <1>3, <1>4, <1>5 DEF Handling

-----------------------------------------------------------------------------
(* The client                                                              *)

LEMMA KeepBooks ==
  ASSUME Books, UNCHANGED <<hasError, log, code>>, resp' \in Responses,
         cpc' = "exit" <=> cpc = "exit"
  PROVE  Books'
BY DEF Books

\* A target is settled.
LEMMA SettleBooks ==
  ASSUME Books, conn \in Conns \cup {NoConn}, cpc # "exit", NEW ok \in BOOLEAN, NEW r \in Responses,
         NEW by \in Reasons, Client!Settle(ok, r, by), resp' \in Responses
  PROVE  /\ Books' /\ urls' = Tail(urls) /\ cpc' = "next" /\ code' = code
         /\ (Service!vars)' = <<Tail(urls),
                                Append([i \in 1..Len(log) |-> Result(log[i])],
                                       IF ok THEN [ok |-> TRUE, status |-> r.status, body |-> r.body]
                                       ELSE Failed), code>>
<1> DEFINE e == [ok |-> ok, status |-> r.status, body |-> r.body,
                 stream |-> r.stream, conn |-> conn, by |-> by]
           x == IF ok THEN [ok |-> TRUE, status |-> r.status, body |-> r.body] ELSE Failed
           old == [i \in 1..Len(log) |-> Result(log[i])]
<1>1. e \in Entries
  BY DEF Entries, Responses
<1>2. /\ log' = Append(log, e) /\ (hasError' <=> (hasError \/ ~ok \/ r.status >= 400))
      /\ urls' = Tail(urls) /\ cpc' = "next" /\ code' = code
  BY DEF Client!Settle
<1>3. Result(e) = x
  BY DEF Result
<1>4. Service!Good(x) <=> ok /\ r.status < 400
  BY DEF Service!Good, Failed
<1>5. r.status \in Int
  BY DEF Responses
<1> HIDE DEF e, x
<1>6. /\ log' \in Seq(Entries) /\ Len(log') = Len(log) + 1 /\ Len(log) \in Nat
      /\ \A i \in 1..Len(log) : log'[i] = log[i]
      /\ log'[Len(log) + 1] = e
  BY <1>1, <1>2, AppendProperties DEF Books
<1>7. hasError' <=> \E i \in 1..Len(log') : ~Service!Good(Result(log'[i]))
  <2>1. \A i \in 1..Len(log') : i \in 1..Len(log) \/ i = Len(log) + 1
    BY <1>6
  <2>2. Len(log) + 1 \in 1..Len(log') /\ \A i \in 1..Len(log) : i \in 1..Len(log')
    BY <1>6
  <2>3. ~Service!Good(Result(e)) <=> (~ok \/ r.status >= 400)
    BY <1>3, <1>4, <1>5
  <2>4. hasError <=> \E i \in 1..Len(log) : ~Service!Good(Result(log[i]))
    BY DEF Books
  <2> QED
    BY <1>2, <1>6, <2>1, <2>2, <2>3, <2>4
<1>8. Books'
  BY <1>2, <1>6, <1>7 DEF Books
<1>9. [i \in 1..Len(log') |-> Result(log'[i])] = Append(old, x)
  <2>1. DOMAIN old = 1..Len(log) /\ \A i \in 1..Len(log) : old[i] = Result(log[i])
    OBVIOUS
  <2>2. old = [i \in 1..Len(log) |-> old[i]]
    OBVIOUS
  <2> HIDE DEF old
  <2>s. \E S : old \in Seq(S) /\ Len(old) = Len(log)
    BY <1>6, <2>2, IsSequence
  <2>3. PICK S : old \in Seq(S) /\ Len(old) = Len(log)
    BY <2>s
  <2>4. old \in Seq(S \cup {x})
    BY <2>3
  <2>5. /\ Append(old, x) \in Seq(S \cup {x}) /\ Len(Append(old, x)) = Len(log) + 1
        /\ \A i \in 1..Len(log) : Append(old, x)[i] = old[i]
        /\ Append(old, x)[Len(log) + 1] = x
    BY <2>3, <2>4, AppendProperties
  <2>6. Append(old, x) = [i \in 1..(Len(log) + 1) |-> Append(old, x)[i]]
    BY <2>5, AsFunction
  <2>7. \A i \in 1..(Len(log) + 1) : Result(log'[i]) = Append(old, x)[i]
    <3>1. TAKE i \in 1..(Len(log) + 1)
    <3>2. i \in 1..Len(log) \/ i = Len(log) + 1
      BY <1>6
    <3> QED
      BY <3>2, <1>3, <1>6, <2>1, <2>5
  <2> QED
    BY <1>6, <2>6, <2>7
<1> QED
  BY <1>2, <1>8, <1>9 DEF Service!vars, x

\* A target that failed is settled as the service allows.
LEMMA FailureAllowed ==
  ASSUME Books, conn \in Conns \cup {NoConn}, cpc # "exit", urls # <<>>, NEW r \in Responses,
         NEW by \in Reasons, Client!Settle(FALSE, r, by), resp' \in Responses
  PROVE  Books' /\ urls' = Tail(urls) /\ cpc' = "next" /\ code' = code /\ Service!Next
<1>1. /\ Books' /\ urls' = Tail(urls) /\ cpc' = "next" /\ code' = code
      /\ (Service!vars)' = <<Tail(urls), Append([i \in 1..Len(log) |-> Result(log[i])], Failed), code>>
  BY SettleBooks
<1>2. Failed \in Allowed(Head(urls))
  BY DEF Allowed
<1> QED
  BY <1>1, <1>2 DEF Service!Next, Service!Settle, Service!vars

LEMMA SuccessAllowed ==
  ASSUME Books, conn \in Conns \cup {NoConn}, cpc # "exit", urls # <<>>, NEW r \in Responses,
         NEW by \in Reasons, Client!Settle(TRUE, r, by), resp' \in Responses,
         Client!target # BadURL, Client!target.path # LongPath,
         r.status = Due.status, r.body = Due.body
  PROVE  Books' /\ urls' = Tail(urls) /\ cpc' = "next" /\ code' = code /\ Service!Next
<1> DEFINE x == [ok |-> TRUE, status |-> r.status, body |-> r.body]
<1>1. /\ Books' /\ urls' = Tail(urls) /\ cpc' = "next" /\ code' = code
      /\ (Service!vars)' = <<Tail(urls), Append([i \in 1..Len(log) |-> Result(log[i])], x), code>>
  BY SettleBooks
<1>2. x \in Allowed(Head(urls))
  BY DEF Allowed, Served, Due, Client!target
<1> HIDE DEF x
<1> QED
  BY <1>1, <1>2 DEF Service!Next, Service!Settle, Service!vars

\* The operators of BhttpWire, as the instance of the client names them.
LEMMA SameWire ==
  /\ Client!FlagEndStream = FlagEndStream /\ Client!FlagEndHeaders = FlagEndHeaders
  /\ \A type, flags, stream, hdr, data :
       Client!Frame(type, flags, stream, hdr, data) = Frame(type, flags, stream, hdr, data)
  /\ \A f, flag : Client!HasFlag(f, flag) <=> HasFlag(f, flag)
  /\ \A ch : /\ Client!CanRead(ch) <=> CanRead(ch)
             /\ Client!AtEnd(ch) <=> AtEnd(ch)
             /\ Client!CanWrite(ch) <=> CanWrite(ch)
             /\ Client!ReadFrame(ch) = ReadFrame(ch)
             /\ Client!ClosedByReader(ch) = ClosedByReader(ch)
             /\ \A f : Client!WriteFrame(ch, f) = WriteFrame(ch, f)
             /\ \A unread : Client!ClosedByWriter(ch, unread) = ClosedByWriter(ch, unread)
  /\ Client!Fresh = Fresh
BY DEF Client!FlagEndStream, FlagEndStream, Client!FlagEndHeaders, FlagEndHeaders, Client!Frame, Frame,
   Client!HasFlag, HasFlag, Client!CanRead, CanRead, Client!AtEnd, AtEnd, Client!CanWrite, CanWrite,
   Client!ReadFrame, ReadFrame, Client!ClosedByReader, ClosedByReader, Client!WriteFrame, WriteFrame,
   Client!ClosedByWriter, ClosedByWriter, Client!Broken, Broken, Client!Fresh, Fresh

\* What is received of a response is one.
LEMMA ReceivedType ==
  ASSUME NEW s \in Nat, NEW a, a.body \in Seq(STRING), a.status \in {200, 400, 404, 405, 500},
         NEW p \in -1..Len(a.body)
  PROVE  Received(s, a, p) \in Responses
<1>1. p # -1 => SubSeq(a.body, 1, p) \in Seq(STRING)
  <2> HAVE p # -1
  <2>1. \A i \in 1..p : a.body[i] \in STRING
    OBVIOUS
  <2> QED
    BY <2>1, SubSeqProperties
<1>2. CASE p = -1
  BY <1>2 DEF Received, Responses
<1>3. CASE p # -1
  BY <1>1, <1>3 DEF Received, Responses
<1> QED
  BY <1>2, <1>3

\* The next octets of a body.
LEMMA NextOctets ==
  ASSUME NEW b \in Seq(STRING), NEW p \in 0..Len(b), NEW r \in p..Len(b)
  PROVE  SubSeq(b, 1, p) \o SubSeq(b, p + 1, r) = SubSeq(b, 1, r)
<1> DEFINE x == SubSeq(b, 1, p)
           y == SubSeq(b, p + 1, r)
           z == SubSeq(b, 1, r)
<1>1. /\ x \in Seq(STRING) /\ Len(x) = p /\ \A i \in 1..p : x[i] = b[i]
      /\ y \in Seq(STRING) /\ Len(y) = r - p /\ \A i \in 1..(r - p) : y[i] = b[p + i]
      /\ z \in Seq(STRING) /\ Len(z) = r /\ \A i \in 1..r : z[i] = b[i]
  <2>1. \A i \in 1..r : b[i] \in STRING
    OBVIOUS
  <2>2. x \in Seq(STRING) /\ Len(x) = p /\ \A i \in 1..p : x[i] = b[i]
    BY <2>1, SubSeqProperties
  <2>3. z \in Seq(STRING) /\ Len(z) = r /\ \A i \in 1..r : z[i] = b[i]
    BY <2>1, SubSeqProperties
  <2>4. y \in Seq(STRING) /\ Len(y) = r - p /\ \A i \in 1..(r - p) : y[i] = b[p + i]
    <3>1. \A i \in (p + 1)..r : b[i] \in STRING
      BY <2>1
    <3> QED
      BY <3>1, SubSeqProperties
  <2> QED
    BY <2>2, <2>3, <2>4
<1> HIDE DEF x, y, z
<1>2. /\ x \o y \in Seq(STRING) /\ Len(x \o y) = r
      /\ \A i \in 1..r : (x \o y)[i] = IF i <= p THEN x[i] ELSE y[i - p]
  <2>1. x \o y \in Seq(STRING) /\ Len(x \o y) = Len(x) + Len(y)
        /\ \A i \in 1..Len(x) + Len(y) : (x \o y)[i] = IF i <= Len(x) THEN x[i] ELSE y[i - Len(x)]
    <3>1. x \in Seq(STRING) /\ y \in Seq(STRING)
      BY <1>1
    <3> QED
      BY <3>1, ConcatProperties
  <2>2. Len(x) = p /\ Len(x) + Len(y) = r
    BY <1>1
  <2> QED
    BY <2>1, <2>2
<1>n. p \in Nat /\ r \in Nat /\ p <= r
  OBVIOUS
<1>3. \A i \in 1..r : (x \o y)[i] = z[i]
  <2>1. TAKE i \in 1..r
  <2>2. CASE i <= p
    <3>1. i \in 1..p
      BY <1>n, <2>2
    <3>2. x[i] = b[i] /\ z[i] = b[i] /\ (x \o y)[i] = x[i]
      BY <1>1, <1>2, <2>2, <3>1
    <3> QED
      BY <3>2
  <2>3. CASE ~(i <= p)
    <3>1. i - p \in 1..(r - p) /\ p + (i - p) = i
      BY <1>n, <2>3
    <3>2. y[i - p] = b[p + (i - p)] /\ z[i] = b[i] /\ (x \o y)[i] = y[i - p]
      BY <1>1, <1>2, <2>3, <3>1
    <3> QED
      BY <3>1, <3>2
  <2> QED
    BY <2>2, <2>3
<1>4. x \o y = z
  BY <1>1, <1>2, <1>3, SeqEqual
<1> QED
  BY <1>4 DEF x, y, z

\* A response that is received to its end is the answer.
LEMMA WholeBody ==
  ASSUME NEW a, a.body \in Seq(STRING), NEW s
  PROVE  Received(s, a, Len(a.body)).body = a.body
<1>1. SubSeq(a.body, 1, Len(a.body)) = a.body /\ Len(a.body) \in Nat
  OBVIOUS
<1> QED
  BY <1>1 DEF Received

LEMMA WholeStatus ==
  ASSUME NEW a, a.body \in Seq(STRING), NEW s
  PROVE  Received(s, a, Len(a.body)).status = a.status
<1>1. Len(a.body) # -1
  OBVIOUS
<1> QED
  BY <1>1 DEF Received

\* The frames of a response.
LEMMA PieceStream ==
  ASSUME NEW s, NEW a, NEW p, NEW r
  PROVE  Piece(s, a, p, r).stream = s
BY DEF Piece, Frame

LEMMA PieceHeaders ==
  ASSUME NEW s, NEW a, NEW r
  PROVE  /\ Piece(s, a, -1, r).type = "HEADERS"
         /\ Piece(s, a, -1, r).hdr = [status |-> a.status, length |-> Len(a.body)]
<1> DEFINE hdr == [status |-> a.status, length |-> Len(a.body)]
           flags == {FlagEndHeaders} \cup (IF r = Len(a.body) THEN {FlagEndStream} ELSE {})
<1>1. Piece(s, a, -1, r) = Frame("HEADERS", flags, s, hdr, <<>>)
  BY DEF Piece
<1> HIDE DEF hdr, flags
<1>2. Piece(s, a, -1, r).type = "HEADERS" /\ Piece(s, a, -1, r).hdr = hdr
  BY <1>1 DEF Frame
<1> QED
  BY <1>2 DEF hdr

LEMMA PieceType ==
  ASSUME NEW s, NEW a, NEW p \in Nat, NEW r
  PROVE  Piece(s, a, p, r).type = "DATA"
BY DEF Piece, Frame

LEMMA PieceData ==
  ASSUME NEW s, NEW a, NEW p \in Nat, NEW r
  PROVE  Piece(s, a, p, r).data = SubSeq(a.body, p + 1, r)
<1> DEFINE d == SubSeq(a.body, p + 1, r)
           flags == IF r = Len(a.body) THEN {FlagEndStream} ELSE {}
<1>1. Piece(s, a, p, r) = Frame("DATA", flags, s, NoHdr, d)
  BY DEF Piece
<1> HIDE DEF d, flags
<1>2. Piece(s, a, p, r).data = d
  BY <1>1 DEF Frame
<1> QED
  BY <1>2 DEF d

LEMMA PieceEnds ==
  ASSUME NEW s, NEW a, NEW p, NEW r
  PROVE  HasFlag(Piece(s, a, p, r), FlagEndStream) <=> r = Len(a.body)
<1> DEFINE n == Len(a.body)
           hdr == [status |-> a.status, length |-> n]
           d == SubSeq(a.body, p + 1, r)
<1>1. CASE p = -1
  <2>1. Piece(s, a, p, r) = Frame("HEADERS", {FlagEndHeaders} \cup (IF r = n THEN {FlagEndStream} ELSE {}),
                                  s, hdr, <<>>)
    BY <1>1 DEF Piece
  <2> HIDE DEF hdr, n
  <2>2. HasFlag(Piece(s, a, p, r), FlagEndStream) <=> r = n
    BY <2>1 DEF Frame, HasFlag, FlagEndStream, FlagEndHeaders
  <2> QED
    BY <2>2 DEF n
<1>2. CASE p # -1
  <2>1. Piece(s, a, p, r) = Frame("DATA", IF r = n THEN {FlagEndStream} ELSE {}, s, NoHdr, d)
    BY <1>2 DEF Piece
  <2> HIDE DEF d, n
  <2>2. HasFlag(Piece(s, a, p, r), FlagEndStream) <=> r = n
    BY <2>1 DEF Frame, HasFlag
  <2> QED
    BY <2>2 DEF n
<1> QED
  BY <1>1, <1>2

\* A frame arrives in the receive loop: the client is where it was told to be,
\* or the response is complete.
LEMMA ClientReads ==
  ASSUME IInv,
         Client!Discard \/ Client!RecvHeaders \/ Client!RecvData \/ Client!RecvPing \/ Client!RecvGoAway
  PROVE  /\ cpc = "recv" /\ UNCHANGED <<up, host, conn, currentAddr, nextStreamID>>
         /\ down' = [down EXCEPT ![conn] = ReadFrame(@)]
         /\ \E r \in 0..Len(Due.body), w \in -1..Len(Due.body) :
              /\ Pieces(Tail(down[conn].q), resp.stream, Due, r, w)
              /\ up[conn].end = "open" => Handling(conn, resp.stream, Due, Get(Client!target), w)
              /\ resp' = Received(resp.stream, Due, r)
              /\ IF r = Len(Due.body)
                 THEN \E by \in Reasons : Client!Settle(TRUE, resp', by)
                 ELSE UNCHANGED <<urls, cpc, hasError, log, code>>
<1> DEFINE f == Head(down[conn].q)
           s == resp.stream
           a == Due
<1>1. /\ cpc = "recv" /\ UNCHANGED <<up, host, conn, currentAddr, nextStreamID>>
      /\ down' = [down EXCEPT ![conn] = ReadFrame(@)] /\ down[conn].q # <<>>
  <2>1. PICK type : Client!Receives(type)
    BY DEF Client!Discard, Client!RecvHeaders, Client!RecvData, Client!RecvPing, Client!RecvGoAway
  <2> QED
    BY <2>1, SameWire DEF Client!Receives, Client!session, CanRead
<1>2. Exchange
  BY <1>1 DEF IInv, Places, Held
<1>3. PICK p \in -1..Len(a.body), w \in -1..Len(a.body) : ExchangeAt(p, w)
  BY <1>2 DEF Exchange
<1>a. a.body \in Seq(STRING) /\ Len(a.body) \in Nat /\ a.status \in {200, 400, 404, 405, 500}
  BY AnswerType DEF Due
<1> HIDE DEF a
<1>4. Pieces(down[conn].q, s, a, p, w) /\ resp = Received(s, a, p)
      /\ (up[conn].end = "open" => Handling(conn, s, a, Get(Client!target), w))
  BY <1>3 DEF ExchangeAt, a
<1>5. PICK r \in 0..Len(a.body) :
        f = Piece(s, a, p, r) /\ Follows(a, p, r) /\ Pieces(Tail(down[conn].q), s, a, r, w)
  BY <1>1, <1>4, <1>a, PiecesHead
<1> HIDE DEF f
<1>6. /\ f.stream = s
      /\ p = -1 => f.type = "HEADERS" /\ f.hdr = [status |-> a.status, length |-> Len(a.body)]
      /\ p # -1 => f.type = "DATA" /\ f.data = SubSeq(a.body, p + 1, r)
      /\ HasFlag(f, FlagEndStream) <=> r = Len(a.body)
  <2>1. f = Piece(s, a, p, r)
    BY <1>5
  <2> HIDE DEF s
  <2>2. f.stream = s
    BY <2>1, PieceStream
  <2>3. ASSUME p = -1
        PROVE  f.type = "HEADERS" /\ f.hdr = [status |-> a.status, length |-> Len(a.body)]
    BY <2>1, <2>3, PieceHeaders
  <2>4. ASSUME p # -1
        PROVE  f.type = "DATA" /\ f.data = SubSeq(a.body, p + 1, r)
    <3>1. p \in Nat
      BY <2>4, <1>a
    <3>2. Piece(s, a, p, r).type = "DATA"
      BY <3>1, PieceType, Zenon
    <3>3. Piece(s, a, p, r).data = SubSeq(a.body, p + 1, r)
      BY <3>1, PieceData, Zenon
    <3> QED
      BY <2>1, <3>2, <3>3, Zenon
  <2>5. HasFlag(f, FlagEndStream) <=> r = Len(a.body)
    BY <2>1, PieceEnds
  <2> QED
    BY <2>2, <2>3, <2>4, <2>5
<1>7. f.stream = resp.stream /\ f.type \in {"HEADERS", "DATA"}
  BY <1>6
<1>8. ~Client!Discard /\ ~Client!RecvPing /\ ~Client!RecvGoAway
  <2>1. ~Client!Discard
    BY <1>7 DEF Client!Discard, Client!Ours, Client!IsKnownType, f
  <2>2. ~Client!RecvPing
    BY <1>7 DEF Client!RecvPing, Client!Receives, f
  <2>3. ~Client!RecvGoAway
    BY <1>7 DEF Client!RecvGoAway, Client!Receives, f
  <2> QED
    BY <2>1, <2>2, <2>3
<1>b. f.type \in Reasons /\ (Client!HasFlag(f, Client!FlagEndStream) <=> r = Len(a.body))
  <2>1. Client!HasFlag(f, Client!FlagEndStream) <=> HasFlag(f, FlagEndStream)
    BY SameWire, Zenon
  <2>2. HasFlag(f, FlagEndStream) <=> r = Len(a.body)
    BY <1>6, Zenon
  <2>3. Client!HasFlag(f, Client!FlagEndStream) <=> r = Len(a.body)
    BY <2>1, <2>2, Zenon
  <2>4. f.type \in Reasons
    BY <1>7 DEF Reasons, Types
  <2> QED
    BY <2>3, <2>4
<1>c. ASSUME Client!Continue(f, Received(s, a, r))
      PROVE  /\ resp' = Received(s, a, r)
             /\ IF r = Len(a.body) THEN \E by \in Reasons : Client!Settle(TRUE, resp', by)
                ELSE UNCHANGED <<urls, cpc, hasError, log, code>>
  BY <1>b, <1>c DEF Client!Continue, Client!report
<1>9. /\ resp' = Received(s, a, r)
      /\ IF r = Len(a.body) THEN \E by \in Reasons : Client!Settle(TRUE, resp', by)
         ELSE UNCHANGED <<urls, cpc, hasError, log, code>>
  <2>1. CASE Client!RecvHeaders
    <3>1. p = -1 /\ r = 0
      BY <2>1, <1>5, <1>6 DEF Client!RecvHeaders, Client!Receives, f, Follows
    <3>2. f.hdr = [status |-> a.status, length |-> Len(a.body)] /\ f.hdr.status = a.status
      BY <3>1, <1>6
    <3>3. f.hdr # Malformed /\ f.hdr.status # NoStatus
      BY <3>2, <1>a, SystemAssumption
    <3>4. Client!Continue(f, [resp EXCEPT !.status = a.status])
      BY <2>1, <3>2, <3>3 DEF Client!RecvHeaders, f
    <3>5. [resp EXCEPT !.status = a.status] = Received(s, a, r)
      <4>1. SubSeq(a.body, 1, 0) = <<>>
        BY <1>a
      <4>2. resp = [stream |-> s, status |-> 0, body |-> <<>>]
        BY <1>4, <3>1 DEF Received
      <4> QED
        BY <4>1, <4>2, <3>1 DEF Received
    <3> QED
      BY <3>4, <3>5, <1>c
  <2>2. CASE Client!RecvData
    <3>1. p # -1 /\ p \in 0..Len(a.body) /\ r \in p..Len(a.body)
      BY <2>2, <1>5, <1>6, <1>a DEF Client!RecvData, Client!Receives, f, Follows
    <3>2. Client!Continue(f, [resp EXCEPT !.body = @ \o f.data])
      BY <2>2 DEF Client!RecvData, f
    <3>3. [resp EXCEPT !.body = @ \o f.data] = Received(s, a, r)
      <4>1. resp = [stream |-> s, status |-> a.status, body |-> SubSeq(a.body, 1, p)]
        BY <1>4, <3>1 DEF Received
      <4>2. SubSeq(a.body, 1, p) \o f.data = SubSeq(a.body, 1, r)
        <5>1. f.data = SubSeq(a.body, p + 1, r)
          BY <3>1, <1>6
        <5>2. a.body \in Seq(STRING)
          BY <1>a
        <5>3. SubSeq(a.body, 1, p) \o SubSeq(a.body, p + 1, r) = SubSeq(a.body, 1, r)
          BY <3>1, <5>2, NextOctets
        <5> QED
          BY <5>1, <5>3, Zenon
      <4>3. [resp EXCEPT !.body = @ \o f.data] = [resp EXCEPT !.body = SubSeq(a.body, 1, r)]
        <5> DEFINE whole == SubSeq(a.body, 1, r)
        <5>1. resp.body \o f.data = whole
          <6>1. resp.body = SubSeq(a.body, 1, p)
            BY <4>1
          <6> QED
            BY <6>1, <4>2, Zenon
        <5> HIDE DEF whole
        <5>2. [resp EXCEPT !.body = @ \o f.data] = [resp EXCEPT !.body = whole]
          BY <5>1
        <5> QED
          BY <5>2 DEF whole
      <4>4. r # -1
        BY <3>1
      <4> DEFINE whole == SubSeq(a.body, 1, r)
      <4>5. [resp EXCEPT !.body = whole] = [stream |-> s, status |-> a.status, body |-> whole]
        <5> DEFINE part == SubSeq(a.body, 1, p)
        <5>1. resp = [stream |-> s, status |-> a.status, body |-> part]
          BY <4>1
        <5> HIDE DEF whole, part
        <5> QED
          BY <5>1
      <4> QED
        BY <4>3, <4>4, <4>5 DEF Received
    <3> QED
      BY <3>2, <3>3, <1>c
  <2> QED
    BY <2>1, <2>2, <1>8
<1> QED
  BY <1>1, <1>4, <1>5, <1>9 DEF a

\* The connections stay as they are, between two requests or broken.
LEMMA HeldStays ==
  ASSUME Shapes, Places, Held, UNCHANGED <<up, down, conn, serverOnly, breaks>>, cpc' \in {"next", "send"},
         cpc \in {"next", "send"} \/ conn = NoConn \/ up[conn].end # "open"
  PROVE  Shapes' /\ Held'
<1>1. UNCHANGED <<up, down, conn, fs, pc, req, out, breaks>>
  BY DEF serverOnly, local
<1>2. Shapes'
  BY <1>1 DEF Shapes, IsChannel
<1>3. ASSUME conn # NoConn
      PROVE  /\ up[conn].end \in {"open", "reset"} /\ down[conn].end = up[conn].end
             /\ breaks = 0 => up[conn].end = "open"
             /\ up[conn].end = "open" => Quiet
  <2>1. CASE up[conn].end = "open"
    BY <1>3, <2>1 DEF Held
  <2>2. CASE up[conn].end # "open"
    BY <1>3, <2>2 DEF Held
  <2> QED
    BY <2>1, <2>2
<1>4. Held'
  BY <1>1, <1>3 DEF Held, Quiet
<1> QED
  BY <1>2, <1>4

\* Conn.Close leaves the shape of the connections.
LEMMA CloseShapes ==
  ASSUME Shapes, Places, Client!CloseConn, UNCHANGED serverOnly
  PROVE  Shapes'
<1>1. UNCHANGED <<fs, pc, req, out>>
  BY DEF serverOnly, local
<1>2. CASE conn = NoConn
  BY <1>1, <1>2 DEF Client!CloseConn, Shapes, IsChannel
<1>3. CASE conn # NoConn
  <2>a. conn \in Conns
    BY <1>3 DEF Places
  <2> DEFINE ch == up[conn]
             dh == down[conn]
             unread == Client!CanRead(dh)
             b == up'[conn]
             d == down'[conn]
  <2>1. /\ down' = [down EXCEPT ![conn] = Client!ClosedByReader(dh)]
        /\ \E x \in Client!ClosedByWriter(ch, unread) : up' = [up EXCEPT ![conn] = x]
    BY <1>3 DEF Client!CloseConn
  <2>b. DOMAIN up = Conns /\ DOMAIN down = Conns /\ IsChannel(ch) /\ IsChannel(dh)
    BY <2>a DEF Shapes
  <2>2. b \in Client!ClosedByWriter(ch, unread) /\ d = Client!ClosedByReader(dh)
    BY <2>1, <2>a, <2>b
  <2>3. unread \in BOOLEAN
    BY DEF Client!CanRead
  <2> HIDE DEF ch, dh, unread, b, d
  <2>4. b \in ClosedByWriter(ch, unread) /\ d = ClosedByReader(dh)
    BY <2>2, SameWire
  <2>5. IsChannel(b) /\ (b.end = "none" => ch.end = "none")
    BY <2>b, <2>3, <2>4, ChannelSteps
  <2>6. IsChannel(d)
    BY <2>b, <2>4, ChannelSteps
  <2>7. /\ DOMAIN up' = Conns /\ DOMAIN down' = Conns
        /\ \A c \in Conns \ {conn} : up'[c] = up[c] /\ down'[c] = down[c]
    BY <2>1, <2>b
  <2>8. \A c \in Conns : IsChannel(up'[c]) /\ IsChannel(down'[c]) /\ (up'[c].end = "none" => pc[c] = "none")
    <3>1. TAKE c \in Conns
    <3>2. CASE c = conn
      BY <2>5, <2>6, <3>2 DEF b, d, ch, Shapes
    <3>3. CASE c # conn
      BY <2>7, <3>3 DEF Shapes
    <3> QED
      BY <3>2, <3>3
  <2> QED
    BY <1>1, <2>7, <2>8 DEF Shapes, IsChannel
<1> QED
  BY <1>2, <1>3

\* Steps that settle nothing.
LEMMA ServiceStutters ==
  ASSUME UNCHANGED <<urls, log, code>>
  PROVE  UNCHANGED Service!vars
BY DEF Service!vars

Kept == IInv' /\ (Service!Next \/ UNCHANGED Service!vars)

LEMMA RejectURLKeeps ==
  ASSUME IInv, Client!RejectURL, UNCHANGED <<serverOnly, breaks>>
  PROVE  Kept
<1>1. /\ cpc = "next" /\ urls # <<>> /\ UNCHANGED <<up, down, conn, nextStreamID, resp>>
      /\ Client!Settle(FALSE, Client!NoResponse, "url")
  BY DEF Client!RejectURL, Client!session
<1>2. Client!NoResponse \in Responses /\ "url" \in Reasons /\ resp' \in Responses /\ conn \in Conns \cup {NoConn}
  BY <1>1 DEF Client!NoResponse, Responses, Reasons, IInv, Books, Places
<1>3. Books' /\ cpc' = "next" /\ Service!Next
  BY <1>1, <1>2, FailureAllowed DEF IInv
<1>4. Shapes' /\ Held'
  BY <1>1, <1>3, HeldStays DEF IInv
<1>5. Places'
  BY <1>1, <1>3 DEF IInv, Places
<1> QED
  BY <1>3, <1>4, <1>5 DEF Kept, IInv

LEMMA EnsureConnectionKeeps ==
  ASSUME IInv, Client!EnsureConnection, UNCHANGED <<serverOnly, breaks>>
  PROVE  Kept
<1>1. /\ cpc = "next" /\ urls # <<>> /\ Client!target # BadURL /\ resp' = Client!NoResponse
      /\ UNCHANGED <<urls, nextStreamID, hasError, log, code>>
      /\ \/ conn # NoConn /\ cpc' = "send" /\ UNCHANGED <<up, down, conn>>
         \/ cpc' = "dial" /\ Client!CloseConn /\ conn' = NoConn
  BY DEF Client!EnsureConnection, Client!report
<1>2. Client!NoResponse \in Responses
  BY DEF Client!NoResponse, Responses
<1>3. Books'
  BY <1>1, <1>2, KeepBooks DEF IInv
<1>4. Client!target' = Client!target
  BY <1>1 DEF Client!target
<1>5. Places'
  BY <1>1, <1>4 DEF IInv, Places
<1>6. Shapes' /\ Held'
  <2>1. CASE cpc' = "send" /\ UNCHANGED <<up, down, conn>>
    BY <1>1, <2>1, HeldStays DEF IInv
  <2>2. CASE Client!CloseConn /\ conn' = NoConn
    BY <2>2, CloseShapes DEF IInv, Held
  <2> QED
    BY <1>1, <2>1, <2>2
<1> QED
  BY <1>1, <1>3, <1>5, <1>6, ServiceStutters DEF Kept, IInv

LEMMA DialKeeps ==
  ASSUME IInv, Client!Dial, UNCHANGED <<serverOnly, breaks>>
  PROVE  Kept
<1> DEFINE c == Client!NewConn
<1>1. /\ cpc = "dial" /\ \E x \in Conns : up[x].end = "none"
      /\ up' = [up EXCEPT ![c] = Fresh] /\ down' = [down EXCEPT ![c] = Fresh]
      /\ conn' = c /\ cpc' = "send" /\ UNCHANGED <<urls, nextStreamID, resp, hasError, log, code>>
      /\ UNCHANGED <<fs, pc, req, out, breaks>>
  BY SameWire DEF Client!Dial, Client!CanDial, Client!report, serverOnly, local
<1>2. c \in Conns /\ up[c].end = "none"
  BY <1>1 DEF Client!NewConn
<1>3. pc[c] = "none" /\ DOMAIN up = Conns /\ DOMAIN down = Conns
  BY <1>2 DEF IInv, Shapes
<1> HIDE DEF c
<1>4. /\ DOMAIN up' = Conns /\ DOMAIN down' = Conns /\ up'[c] = Fresh /\ down'[c] = Fresh
      /\ \A x \in Conns \ {c} : up'[x] = up[x] /\ down'[x] = down[x]
  BY <1>1, <1>2, <1>3
<1>5. IsChannel(Fresh) /\ Fresh.end = "open" /\ Fresh.q = <<>>
  BY DEF IsChannel, Fresh, Ends
<1>6. Shapes'
  <2>1. \A x \in Conns : IsChannel(up'[x]) /\ IsChannel(down'[x]) /\ (up'[x].end = "none" => pc[x] = "none")
    <3>1. TAKE x \in Conns
    <3>2. CASE x = c
      BY <1>4, <1>5, <3>2
    <3>3. CASE x # c
      BY <1>4, <3>3 DEF IInv, Shapes
    <3> QED
      BY <3>2, <3>3
  <2> QED
    BY <1>1, <1>4, <2>1 DEF IInv, Shapes, IsChannel
<1>7. Held'
  BY <1>1, <1>3, <1>4, <1>5 DEF Held, Quiet
<1>8. Client!target' = Client!target /\ c # NoConn
  BY <1>1, <1>2, SystemAssumption DEF Client!target
<1>9. Places'
  BY <1>1, <1>2, <1>8 DEF IInv, Places
<1>10. Books'
  BY <1>1, KeepBooks DEF IInv, Books
<1> QED
  BY <1>1, <1>6, <1>7, <1>9, <1>10, ServiceStutters DEF Kept, IInv

LEMMA DialFailsKeeps ==
  ASSUME IInv, Client!DialFails, UNCHANGED <<serverOnly, breaks>>
  PROVE  Kept
<1>1. /\ cpc = "dial" /\ urls # <<>> /\ conn = NoConn /\ UNCHANGED <<up, down, conn, nextStreamID, resp>>
      /\ Client!Settle(FALSE, resp, "dial")
  BY DEF Client!DialFails, Client!Fail, Client!session, IInv, Places
<1>2. resp \in Responses /\ "dial" \in Reasons /\ resp' \in Responses /\ conn \in Conns \cup {NoConn}
  BY <1>1 DEF Reasons, IInv, Books, Places
<1>3. Books' /\ cpc' = "next" /\ Service!Next
  BY <1>1, <1>2, FailureAllowed DEF IInv
<1>4. Shapes' /\ Held'
  BY <1>1, <1>3, HeldStays DEF IInv
<1>5. Places'
  BY <1>1, <1>3 DEF IInv, Places
<1> QED
  BY <1>3, <1>4, <1>5 DEF Kept, IInv

LEMMA SendKeeps ==
  ASSUME IInv, Client!Send, UNCHANGED <<serverOnly, breaks>>
  PROVE  Kept
<1> DEFINE frame == Request(nextStreamID, Get(Client!target))
<1>1. /\ cpc = "send" /\ UNCHANGED <<down, conn, urls, hasError, log, code, fs, pc, req, out, breaks>>
      /\ nextStreamID' = (nextStreamID + 2) % StreamMod
      /\ Client!target.path # LongPath /\ CanWrite(up[conn])
      /\ up' = [up EXCEPT ![conn] = WriteFrame(up[conn], frame)]
      /\ resp' = [stream |-> nextStreamID, status |-> 0, body |-> <<>>] /\ cpc' = "recv"
  <2>1. Client!RequestFrame = frame
    BY SameWire DEF Client!RequestFrame, Request, Get
  <2>2. Client!AllocStream /\ UNCHANGED <<fs, pc, req, out, breaks>>
    BY DEF Client!Send, serverOnly, local
  <2>3. /\ cpc = "send" /\ UNCHANGED <<down, conn>> /\ nextStreamID' = (nextStreamID + 2) % StreamMod
    BY <2>2 DEF Client!AllocStream, Client!session
  <2>4. /\ Client!target.path # LongPath /\ Client!CanWrite(up[conn])
        /\ up' = [up EXCEPT ![conn] = Client!WriteFrame(up[conn], Client!RequestFrame)]
        /\ resp' = [stream |-> nextStreamID, status |-> 0, body |-> <<>>] /\ cpc' = "recv"
        /\ UNCHANGED <<urls, hasError, log, code>>
    BY DEF Client!Send, Client!NoResponse, Client!report
  <2>5. CanWrite(up[conn]) /\ Client!WriteFrame(up[conn], frame) = WriteFrame(up[conn], frame)
    BY <2>4, SameWire
  <2> HIDE DEF frame
  <2> QED
    BY <2>1, <2>2, <2>3, <2>4, <2>5
<1>2. conn \in Conns /\ DOMAIN up = Conns /\ IsChannel(up[conn]) /\ nextStreamID \in Nat
  BY <1>1 DEF IInv, Places, Shapes
<1>3. up[conn].end = "open" /\ down[conn].end = "open" /\ Quiet
  BY <1>1, <1>2, SystemAssumption DEF IInv, Held, CanWrite
<1>4. up'[conn] = WriteFrame(up[conn], frame) /\ \A c \in Conns \ {conn} : up'[c] = up[c]
  BY <1>1, <1>2
<1>5. IsChannel(up'[conn]) /\ up'[conn].end = "open" /\ up'[conn].q = <<frame>>
  <2> DEFINE ch == up[conn]
             b == up'[conn]
  <2>1. IsChannel(ch) /\ b = WriteFrame(ch, frame) /\ ch.end = "open" /\ ch.q = <<>>
    BY <1>2, <1>3, <1>4 DEF Quiet
  <2> HIDE DEF ch, b, frame
  <2>2. IsChannel(b) /\ b.end = "open" /\ b.q = Append(ch.q, frame)
    BY <2>1, ChannelSteps
  <2>3. Append(<<>>, frame) = <<frame>>
    OBVIOUS
  <2>4. IsChannel(b) /\ b.end = "open" /\ b.q = <<frame>>
    BY <2>1, <2>2, <2>3
  <2> QED
    BY <2>4 DEF b
<1>6. Shapes'
  <2>1. \A c \in Conns : IsChannel(up'[c]) /\ IsChannel(down'[c]) /\ (up'[c].end = "none" => pc[c] = "none")
    <3>1. TAKE c \in Conns
    <3>2. CASE c = conn
      BY <1>1, <1>5, <3>2 DEF IInv, Shapes
    <3>3. CASE c # conn
      BY <1>1, <1>4, <3>3 DEF IInv, Shapes
    <3> QED
      BY <3>2, <3>3
  <2> QED
    BY <1>1, <1>2, <2>1 DEF IInv, Shapes, IsChannel
<1>7. Client!target' = Client!target
  BY <1>1 DEF Client!target
<1>8. Due' = Due
  BY <1>7 DEF Due
<1>9. Exchange'
  <2>a. Due.body \in Seq(STRING) /\ Len(Due.body) \in Nat /\ -1 \in -1..Len(Due.body)
    BY AnswerType DEF Due
  <2>1. resp' = Received(nextStreamID, Due, -1) /\ resp'.stream = nextStreamID
    BY <1>1 DEF Received
  <2>2. Pieces(down'[conn].q, nextStreamID, Due, -1, -1)
    <3>1. down'[conn].q = <<>>
      BY <1>1, <1>3 DEF Quiet
    <3> QED
      BY <3>1, <2>a, NoPieces
  <2>3. Handling(conn, resp.stream, Due, Get(Client!target), -1)'
    <3>1. pc'[conn] \in {"none", "read"} /\ up'[conn].q = <<frame>>
      BY <1>1, <1>3, <1>5 DEF Quiet
    <3>2. frame = Request(resp'.stream, Get(Client!target)')
      BY <1>7, <2>1 DEF Get
    <3> HIDE DEF frame
    <3>3. pc'[conn'] \in {"none", "read"} /\ up'[conn'].q = <<Request(resp'.stream, Get(Client!target)')>>
      BY <1>1, <3>1, <3>2
    <3> QED
      BY <3>3 DEF Handling
  <2>4. ExchangeAt(-1, -1)'
    <3>1. Pieces(down[conn].q, resp.stream, Due, -1, -1)'
      BY <1>1, <1>8, <2>1, <2>2, Zenon
    <3>2. (resp = Received(resp.stream, Due, -1))'
      BY <1>8, <2>1, Zenon
    <3> QED
      BY <3>1, <3>2, <2>3 DEF ExchangeAt
  <2> QED
    BY <1>8, <2>a, <2>4 DEF Exchange
<1>10. Held'
  BY <1>1, <1>3, <1>5, <1>9 DEF Held
<1>11. Places'
  <2>1. nextStreamID' \in Nat
    BY <1>1, <1>2, SystemAssumption
  <2> QED
    BY <1>1, <1>7, <2>1 DEF IInv, Places
<1>12. resp' \in Responses
  BY <1>1, <1>2 DEF Responses
<1>13. Books'
  BY <1>1, <1>12, KeepBooks DEF IInv
<1> QED
  BY <1>1, <1>6, <1>10, <1>11, <1>13, ServiceStutters DEF Kept, IInv

LEMMA SendFailsKeeps ==
  ASSUME IInv, Client!SendFails, UNCHANGED <<serverOnly, breaks>>
  PROVE  Kept
<1>1. /\ cpc = "send" /\ urls # <<>> /\ UNCHANGED <<up, down, conn, resp>>
      /\ nextStreamID' = (nextStreamID + 2) % StreamMod
      /\ Client!Settle(FALSE, resp, "send")
  BY DEF Client!SendFails, Client!AllocStream, Client!Fail, Client!session, IInv, Places
<1>2. resp \in Responses /\ "send" \in Reasons /\ resp' \in Responses /\ conn \in Conns \cup {NoConn}
  BY <1>1 DEF Reasons, IInv, Books, Places
<1>3. Books' /\ cpc' = "next" /\ Service!Next
  BY <1>1, <1>2, FailureAllowed DEF IInv
<1>4. Shapes' /\ Held'
  BY <1>1, <1>3, HeldStays DEF IInv
<1>5. nextStreamID' \in Nat
  BY <1>1, SystemAssumption DEF IInv, Places
<1>6. Places'
  BY <1>1, <1>3, <1>5 DEF IInv, Places
<1> QED
  BY <1>3, <1>4, <1>6 DEF Kept, IInv

LEMMA RecvFailsKeeps ==
  ASSUME IInv, Client!RecvFails, UNCHANGED <<serverOnly, breaks>>
  PROVE  Kept
<1>1. /\ cpc = "recv" /\ urls # <<>> /\ UNCHANGED <<up, down, conn, nextStreamID, resp>>
      /\ Client!Settle(FALSE, resp, "read") /\ down[conn].end # "open"
  BY SameWire DEF Client!RecvFails, Client!Fail, Client!session, AtEnd, IInv, Places
<1>2. resp \in Responses /\ "read" \in Reasons /\ resp' \in Responses /\ conn \in Conns \cup {NoConn}
  BY <1>1 DEF Reasons, IInv, Books, Places
<1>3. Books' /\ cpc' = "next" /\ Service!Next
  BY <1>1, <1>2, FailureAllowed DEF IInv
<1>4. Shapes' /\ Held'
  <2>1. conn = NoConn \/ up[conn].end # "open"
    BY <1>1 DEF IInv, Held
  <2> QED
    BY <1>1, <1>3, <2>1, HeldStays DEF IInv
<1>5. Places'
  BY <1>1, <1>3 DEF IInv, Places
<1> QED
  BY <1>3, <1>4, <1>5 DEF Kept, IInv

LEMMA ExitKeeps ==
  ASSUME IInv, Client!Exit, UNCHANGED <<serverOnly, breaks>>
  PROVE  Kept
<1>1. /\ cpc = "next" /\ urls = <<>> /\ code' = (IF hasError THEN 1 ELSE 0) /\ cpc' = "exit"
      /\ Client!CloseConn /\ conn' = NoConn
      /\ UNCHANGED <<urls, nextStreamID, resp, hasError, log, breaks>>
  BY DEF Client!Exit
<1>2. Shapes' /\ Held'
  BY <1>1, CloseShapes DEF IInv, Held
<1>3. Places'
  BY <1>1 DEF IInv, Places
<1>4. Books'
  BY <1>1 DEF IInv, Books
<1>5. Service!Finish
  <2> DEFINE results == [i \in 1..Len(log) |-> Result(log[i])]
  <2>1. code = -1
    BY <1>1 DEF IInv, Books
  <2>2. Len(log) \in Nat
    BY DEF IInv, Books
  <2>3. Len(results) = Len(log) /\ \A i \in 1..Len(log) : results[i] = Result(log[i])
    BY <2>2
  <2>4. (\A i \in 1..Len(results) : Service!Good(results[i])) <=> ~hasError
    BY <2>3 DEF IInv, Books
  <2>5. results' = results
    BY <1>1
  <2> HIDE DEF results
  <2>6. code' = IF \A i \in 1..Len(results) : Service!Good(results[i]) THEN 0 ELSE 1
    BY <1>1, <2>4
  <2> QED
    BY <1>1, <2>1, <2>5, <2>6 DEF Service!Finish, results
<1> QED
  BY <1>2, <1>3, <1>4, <1>5 DEF Kept, IInv, Service!Next

\* The response is still being handled when nothing of it changes.
LEMMA HandlingStays ==
  ASSUME NEW w, UNCHANGED <<conn, resp.stream, Due, Get(Client!target), up[conn], pc[conn], req[conn], out[conn]>>,
         Handling(conn, resp.stream, Due, Get(Client!target), w)
  PROVE  Handling(conn, resp.stream, Due, Get(Client!target), w)'
<1>1. PICK c, s, a, hdr : c = conn /\ s = resp.stream /\ a = Due /\ hdr = Get(Client!target)
  OBVIOUS
<1>2. /\ conn' = c /\ resp'.stream = s /\ Due' = a /\ Get(Client!target)' = hdr
      /\ up'[c] = up[c] /\ pc'[c] = pc[c] /\ req'[c] = req[c] /\ out'[c] = out[c]
  BY <1>1
<1>3. Handling(c, s, a, hdr, w)
  BY <1>1, Zenon
<1>4. Asked(c, s, hdr) => Asked(conn, resp.stream, Get(Client!target))'
  BY <1>2, Zenon DEF Asked
<1> QED
  BY <1>2, <1>3, <1>4, Zenon DEF Handling

\* What is under way stays when nothing of it changes.
LEMMA ExchangeStays ==
  ASSUME Exchange, UNCHANGED <<conn, resp, Due, Get(Client!target)>>,
         UNCHANGED <<up[conn], down[conn], pc[conn], req[conn], out[conn]>>
  PROVE  Exchange'
<1>1. PICK p \in -1..Len(Due.body), w \in -1..Len(Due.body) : ExchangeAt(p, w)
  BY DEF Exchange
<1>2. up[conn].end = "open" => Handling(conn, resp.stream, Due, Get(Client!target), w)
  BY <1>1 DEF ExchangeAt
<1>3. (up[conn].end = "open" => Handling(conn, resp.stream, Due, Get(Client!target), w))'
  <2>1. CASE up[conn].end = "open"
    BY <1>2, <2>1, HandlingStays
  <2>2. CASE up[conn].end # "open"
    BY <2>2
  <2> QED
    BY <2>1, <2>2
<1>4. /\ (p = -1 \/ p # Len(Due.body))' /\ (resp = Received(resp.stream, Due, p))'
      /\ Pieces(down[conn].q, resp.stream, Due, p, w)'
  BY <1>1, Zenon DEF ExchangeAt
<1>5. ExchangeAt(p, w)'
  BY <1>3, <1>4 DEF ExchangeAt
<1> QED
  BY <1>5 DEF Exchange

\* A frame of the response is received, the last one or another one.
LEMMA ReadsKeep ==
  ASSUME IInv, UNCHANGED <<serverOnly, breaks>>,
         Client!Discard \/ Client!RecvHeaders \/ Client!RecvData \/ Client!RecvPing \/ Client!RecvGoAway
  PROVE  Kept
<1>a. Due.body \in Seq(STRING) /\ Len(Due.body) \in Nat /\ Due.status \in {200, 400, 404, 405, 500}
  BY AnswerType DEF Due
<1>1. /\ cpc = "recv" /\ UNCHANGED <<up, conn, nextStreamID, fs, pc, req, out, breaks>>
      /\ down' = [down EXCEPT ![conn] = ReadFrame(@)]
  BY ClientReads DEF serverOnly, local
<1>2. PICK r \in 0..Len(Due.body), w \in -1..Len(Due.body) :
         /\ Pieces(Tail(down[conn].q), resp.stream, Due, r, w)
         /\ up[conn].end = "open" => Handling(conn, resp.stream, Due, Get(Client!target), w)
         /\ resp' = Received(resp.stream, Due, r)
         /\ IF r = Len(Due.body)
            THEN \E by \in Reasons : Client!Settle(TRUE, resp', by)
            ELSE UNCHANGED <<urls, cpc, hasError, log, code>>
  BY ClientReads
<1>3. /\ conn \in Conns /\ conn # NoConn /\ DOMAIN down = Conns /\ IsChannel(down[conn]) /\ urls # <<>>
      /\ Client!target # BadURL /\ Client!target.path # LongPath
  BY <1>1 DEF IInv, Places, Shapes
<1>4. /\ IsChannel(down'[conn]) /\ down'[conn].end = down[conn].end
      /\ down'[conn].q = Tail(down[conn].q)
      /\ DOMAIN down' = Conns /\ \A c \in Conns \ {conn} : down'[c] = down[c]
  <2> DEFINE ch == down[conn]
             b == down'[conn]
  <2>1. IsChannel(ch) /\ b = ReadFrame(ch)
    BY <1>1, <1>3
  <2> HIDE DEF ch, b
  <2>2. IsChannel(b) /\ b.end = ch.end /\ b.q = Tail(ch.q)
    BY <2>1, ChannelSteps
  <2> QED
    BY <1>1, <1>3, <2>2 DEF ch, b
<1>5. Shapes'
  <2>1. \A c \in Conns : IsChannel(up'[c]) /\ IsChannel(down'[c]) /\ (up'[c].end = "none" => pc[c] = "none")
    <3>1. TAKE c \in Conns
    <3>2. CASE c = conn
      BY <1>1, <1>4, <3>2 DEF IInv, Shapes
    <3>3. CASE c # conn
      BY <1>1, <1>4, <3>3 DEF IInv, Shapes
    <3> QED
      BY <3>2, <3>3
  <2> QED
    BY <1>1, <1>4, <2>1 DEF IInv, Shapes, IsChannel
<1>6. resp' \in Responses /\ resp'.stream = resp.stream
  <2>1. resp.stream \in Nat
    BY DEF IInv, Books, Responses
  <2>2. Received(resp.stream, Due, r) \in Responses
    BY <1>a, <2>1, ReceivedType
  <2>3. Received(resp.stream, Due, r).stream = resp.stream
    BY DEF Received
  <2> QED
    BY <1>2, <2>2, <2>3
<1>7. CASE r # Len(Due.body)
  <2>1. UNCHANGED <<urls, cpc, hasError, log, code>>
    BY <1>2, <1>7
  <2>2. Client!target' = Client!target
    BY <2>1 DEF Client!target
  <2>3. Due' = Due
    BY <2>2 DEF Due
  <2>4. ExchangeAt(r, w)'
    <3>1. (r = -1 \/ r # Len(Due.body))'
      BY <1>7, <2>3
    <3>2. (resp = Received(resp.stream, Due, r))'
      BY <1>2, <1>6, <2>3
    <3>3. Pieces(down[conn].q, resp.stream, Due, r, w)'
      BY <1>1, <1>2, <1>4, <1>6, <2>3, Zenon
    <3>4. (up[conn].end = "open" => Handling(conn, resp.stream, Due, Get(Client!target), w))'
      <4>1. Get(Client!target)' = Get(Client!target)
        BY <2>2 DEF Get
      <4>2. ASSUME up[conn].end = "open"
            PROVE  Handling(conn, resp.stream, Due, Get(Client!target), w)'
        <5>1. Handling(conn, resp.stream, Due, Get(Client!target), w)
          BY <1>2, <4>2
        <5>2. UNCHANGED <<conn, resp.stream, Due, Get(Client!target), up[conn], pc[conn], req[conn], out[conn]>>
          BY <1>1, <1>6, <2>3, <4>1
        <5> QED
          BY <5>1, <5>2, HandlingStays
      <4> QED
        BY <4>2, <1>1
    <3> QED
      BY <3>1, <3>2, <3>3, <3>4 DEF ExchangeAt
  <2>5. Exchange'
    BY <1>a, <2>3, <2>4 DEF Exchange
  <2>6. Held'
    BY <1>1, <1>3, <1>4, <2>1, <2>5 DEF IInv, Held
  <2>7. Places'
    BY <1>1, <2>1, <2>2 DEF IInv, Places
  <2>8. Books'
    BY <1>6, <2>1, KeepBooks DEF IInv
  <2> QED
    BY <1>5, <2>1, <2>6, <2>7, <2>8, ServiceStutters DEF Kept, IInv
<1>8. CASE r = Len(Due.body)
  <2>1. PICK by \in Reasons : Client!Settle(TRUE, resp', by)
    BY <1>2, <1>8
  <2>2. resp'.status = Due.status /\ resp'.body = Due.body
    <3>1. PICK a, s : a = Due /\ s = resp.stream
      OBVIOUS
    <3>2. resp' = Received(s, a, Len(a.body)) /\ a.body \in Seq(STRING)
      BY <1>2, <1>8, <1>a, <3>1
    <3>3. resp'.status = a.status /\ resp'.body = a.body
      <4>1. Received(s, a, Len(a.body)).status = a.status
        BY <3>2, WholeStatus
      <4>2. Received(s, a, Len(a.body)).body = a.body
        BY <3>2, WholeBody
      <4> QED
        BY <3>2, <4>1, <4>2
    <3> QED
      BY <3>1, <3>3
  <2>3. Books' /\ urls' = Tail(urls) /\ cpc' = "next" /\ Service!Next
    BY <1>1, <1>3, <1>6, <2>1, <2>2, SuccessAllowed DEF IInv
  <2>4. Tail(down[conn].q) = <<>> /\ w = Len(Due.body)
    <3>1. Pieces(Tail(down[conn].q), resp.stream, Due, Len(Due.body), w)
      BY <1>2, <1>8
    <3>2. PICK a, q, s : a = Due /\ q = Tail(down[conn].q) /\ s = resp.stream
      OBVIOUS
    <3>3. a.body \in Seq(STRING) /\ Pieces(q, s, a, Len(a.body), w)
      BY <3>1, <3>2, <1>a, Zenon
    <3>4. q = <<>> /\ w = Len(a.body)
      BY <3>3, PiecesEnd
    <3> QED
      BY <3>2, <3>4
  <2>5. ASSUME up[conn].end = "open"
        PROVE  Quiet'
    <3>1. up[conn].q = <<>> /\ pc[conn] = "read"
      BY <1>2, <1>a, <2>4, <2>5 DEF Handling
    <3> QED
      BY <1>1, <1>4, <2>4, <3>1 DEF Quiet
  <2>6. Held'
    BY <1>1, <1>3, <1>4, <2>3, <2>5 DEF IInv, Held
  <2>7. Places'
    BY <1>1, <2>3 DEF IInv, Places
  <2> QED
    BY <1>5, <2>3, <2>6, <2>7 DEF Kept, IInv
<1> QED
  BY <1>7, <1>8

\* A handler moves on: the client does not notice.
LEMMA HandlerKeeps ==
  ASSUME IInv, NEW c \in Conns, Bserve(c)
  PROVE  IInv' /\ UNCHANGED Service!vars
<1>1. /\ Handle(c) /\ UNCHANGED <<host, urls, cpc, conn, currentAddr, nextStreamID, resp>>
      /\ UNCHANGED <<hasError, log, code, breaks>>
  BY DEF Bserve, clientOnly
<1>2. Client!target' = Client!target /\ Get(Client!target)' = Get(Client!target) /\ Due' = Due
  <2>1. Client!target' = Client!target
    BY <1>1 DEF Client!target
  <2> QED
    BY <2>1 DEF Due, Get
<1>3. Shapes'
  BY <1>1, HandlerShapes DEF IInv
<1>4. Places'
  BY <1>1, <1>2 DEF IInv, Places
<1>5. Books'
  BY <1>1 DEF IInv, Books
<1>6. Held'
  <2>1. CASE conn = NoConn
    BY <1>1, <2>1 DEF Held
  <2>2. CASE conn # NoConn
    <3>a. /\ conn \in Conns /\ up[conn].end \in {"open", "reset"} /\ down[conn].end = up[conn].end
          /\ breaks = 0 => up[conn].end = "open"
          /\ cpc \in {"next", "send", "recv"}
          /\ cpc \in {"next", "send"} /\ up[conn].end = "open" => Quiet
          /\ cpc = "recv" => Exchange
      BY <2>2 DEF IInv, Held, Places
    <3>b. Due.body \in Seq(STRING) /\ Len(Due.body) \in Nat
      BY AnswerType DEF Due
    <3>1. CASE c # conn
      <4>1. UNCHANGED <<up[conn], down[conn], pc[conn], req[conn], out[conn]>>
        BY <1>1, <3>1, <3>a, HandlerFrame DEF IInv
      <4>2. cpc = "recv" => Exchange'
        BY <1>1, <1>2, <3>a, <4>1, ExchangeStays
      <4>3. Quiet => Quiet'
        BY <1>1, <4>1 DEF Quiet
      <4> QED
        BY <1>1, <3>a, <4>1, <4>2, <4>3 DEF Held
    <3>2. CASE c = conn /\ up[conn].end = "reset"
      <4>1. up'[conn].end = "reset" /\ down'[conn] = down[conn]
        BY <1>1, <3>2, <3>a, HandlerOnBroken DEF IInv
      <4>2. cpc = "recv" => Exchange'
        <5>1. HAVE cpc = "recv"
        <5>2. PICK p \in -1..Len(Due.body), w \in -1..Len(Due.body) : ExchangeAt(p, w)
          BY <3>a, <5>1 DEF Exchange
        <5>3. ~(up[conn].end = "open")'
          BY <1>1, <4>1
        <5>5. /\ (p = -1 \/ p # Len(Due.body))' /\ (resp = Received(resp.stream, Due, p))'
              /\ Pieces(down[conn].q, resp.stream, Due, p, w)'
          BY <1>1, <1>2, <4>1, <5>2, Zenon DEF ExchangeAt
        <5>6. ExchangeAt(p, w)'
          BY <5>3, <5>5 DEF ExchangeAt
        <5> QED
          BY <1>2, <5>6 DEF Exchange
      <4> QED
        BY <1>1, <3>2, <3>a, <4>1, <4>2 DEF Held
    <3>3. CASE c = conn /\ up[conn].end = "open" /\ cpc \in {"next", "send"}
      <4>1. pc'[conn] = "read" /\ up'[conn] = up[conn] /\ down'[conn] = down[conn]
        BY <1>1, <3>3, <3>a, HandlerWhenQuiet DEF IInv, Quiet
      <4> QED
        BY <1>1, <3>3, <3>a, <4>1 DEF Held, Quiet
    <3>4. CASE c = conn /\ up[conn].end = "open" /\ cpc = "recv"
      <4>1. PICK p \in -1..Len(Due.body), w \in -1..Len(Due.body) : ExchangeAt(p, w)
        BY <3>a, <3>4 DEF Exchange
      <4>2. PICK t, s, a, hdr : t = Client!target /\ s = resp.stream /\ a = Due /\ hdr = Get(t)
        OBVIOUS
      <4>3. /\ Pieces(down[c].q, s, a, p, w) /\ Handling(c, s, a, hdr, w)
            /\ p \in -1..Len(a.body) /\ w \in -1..Len(a.body)
        BY <3>4, <4>1, <4>2, Zenon DEF ExchangeAt
      <4>4. a = Answer(Tree, hdr)
        BY <4>2 DEF Due
      <4>5. /\ up'[c].end = "open" /\ down'[c].end = "open"
            /\ \E w2 \in -1..Len(a.body) : Pieces(down'[c].q, s, a, p, w2) /\ Handling(c, s, a, hdr, w2)'
        BY <1>1, <3>4, <3>a, <4>2, <4>3, <4>4, HandlerAnswers DEF IInv
      <4>6. PICK w2 \in -1..Len(a.body) : Pieces(down'[c].q, s, a, p, w2) /\ Handling(c, s, a, hdr, w2)'
        BY <4>5
      <4>7. /\ conn' = c /\ resp'.stream = s /\ Due' = a /\ Get(Client!target)' = hdr
        BY <1>1, <1>2, <3>4, <4>2
      <4>8. Handling(conn, resp.stream, Due, Get(Client!target), w2)'
        <5>1. Asked(c, s, hdr)' => Asked(conn, resp.stream, Get(Client!target))'
          BY <4>7, Zenon DEF Asked
        <5> QED
          BY <4>6, <4>7, <5>1, Zenon DEF Handling
      <4>9. /\ (p = -1 \/ p # Len(Due.body))' /\ (resp = Received(resp.stream, Due, p))'
        BY <1>1, <1>2, <4>1, Zenon DEF ExchangeAt
      <4>10. Pieces(down[conn].q, resp.stream, Due, p, w2)'
        BY <4>6, <4>7, Zenon
      <4>11. ExchangeAt(p, w2)'
        BY <4>8, <4>9, <4>10 DEF ExchangeAt
      <4>12. Exchange'
        BY <1>2, <4>2, <4>11 DEF Exchange
      <4> QED
        BY <1>1, <3>4, <3>a, <4>5, <4>12 DEF Held
    <3> QED
      BY <3>1, <3>2, <3>3, <3>4, <3>a
  <2> QED
    BY <2>1, <2>2
<1>7. UNCHANGED Service!vars
  BY <1>1, ServiceStutters
<1> QED
  BY <1>3, <1>4, <1>5, <1>6, <1>7 DEF IInv

\* A connection breaks: the client still gets a beginning of the response.
LEMMA BreakKeeps ==
  ASSUME IInv, NEW c \in Conns, Break(c)
  PROVE  IInv' /\ UNCHANGED Service!vars
<1>1. /\ up[c].end = "open" /\ breaks' = breaks + 1
      /\ UNCHANGED <<host, urls, cpc, conn, currentAddr, nextStreamID, resp, hasError, log, code>>
      /\ UNCHANGED <<fs, pc, req, out>>
  BY DEF Break, clientOnly, serverOnly, local
<1>2. PICK u \in Broken(up[c]), d \in Broken(down[c]) :
         up' = [up EXCEPT ![c] = u] /\ down' = [down EXCEPT ![c] = d]
  BY DEF Break
<1>3. IsChannel(up[c]) /\ IsChannel(down[c]) /\ DOMAIN up = Conns /\ DOMAIN down = Conns
  BY DEF IInv, Shapes
<1>4. IsChannel(u) /\ u.end = "reset"
  BY <1>3, ChannelSteps
<1>5. IsChannel(d) /\ d.end = "reset" /\ \E n \in 0..Len(down[c].q) : d.q = SubSeq(down[c].q, 1, n)
  BY <1>3, ChannelSteps
<1>6. /\ DOMAIN up' = Conns /\ DOMAIN down' = Conns /\ up'[c] = u /\ down'[c] = d
      /\ \A x \in Conns \ {c} : up'[x] = up[x] /\ down'[x] = down[x]
  BY <1>2, <1>3
<1>7. Shapes'
  <2>1. \A x \in Conns : IsChannel(up'[x]) /\ IsChannel(down'[x]) /\ (up'[x].end = "none" => pc[x] = "none")
    <3>1. TAKE x \in Conns
    <3>2. CASE x = c
      BY <1>4, <1>5, <1>6, <3>2
    <3>3. CASE x # c
      BY <1>6, <3>3 DEF IInv, Shapes
    <3> QED
      BY <3>2, <3>3
  <2> QED
    BY <1>1, <1>6, <2>1 DEF IInv, Shapes, IsChannel
<1>8. Client!target' = Client!target /\ Get(Client!target)' = Get(Client!target) /\ Due' = Due
  <2>1. Client!target' = Client!target
    BY <1>1 DEF Client!target
  <2> QED
    BY <2>1 DEF Due, Get
<1>9. Places' /\ breaks' # 0
  BY <1>1, <1>8 DEF IInv, Places
<1>10. Books'
  BY <1>1 DEF IInv, Books
<1>11. Held'
  <2>1. CASE conn = NoConn
    BY <1>1, <2>1 DEF Held
  <2>2. CASE conn # NoConn
    <3>a. /\ conn \in Conns /\ up[conn].end \in {"open", "reset"} /\ down[conn].end = up[conn].end
          /\ cpc \in {"next", "send"} /\ up[conn].end = "open" => Quiet
          /\ cpc = "recv" => Exchange
      BY <2>2 DEF IInv, Held, Places
    <3>b. Due.body \in Seq(STRING) /\ Len(Due.body) \in Nat
      BY AnswerType DEF Due
    <3>1. cpc = "recv" => Exchange'
      <4>1. HAVE cpc = "recv"
      <4>2. PICK p \in -1..Len(Due.body), w \in -1..Len(Due.body) : ExchangeAt(p, w)
        BY <3>a, <4>1 DEF Exchange
      <4>3. (p = -1 \/ p # Len(Due.body))' /\ (resp = Received(resp.stream, Due, p))'
        BY <1>1, <1>8, <4>2, Zenon DEF ExchangeAt
      <4>4. CASE c = conn
        <5>1. PICK s, a, q : s = resp.stream /\ a = Due /\ q = down[c].q
          OBVIOUS
        <5>2. a.body \in Seq(STRING) /\ Pieces(q, s, a, p, w)
          BY <3>b, <4>2, <4>4, <5>1, Zenon DEF ExchangeAt
        <5>3. PICK n \in 0..Len(q) : d.q = SubSeq(q, 1, n)
          BY <1>5, <5>1
        <5>4. \E r \in -1..Len(a.body) : Pieces(SubSeq(q, 1, n), s, a, p, r)
          BY <5>2, PiecesPrefix
        <5>5. PICK r \in -1..Len(a.body) : Pieces(SubSeq(q, 1, n), s, a, p, r)
          BY <5>4
        <5>6. down'[conn'].q = SubSeq(q, 1, n) /\ resp'.stream = s /\ Due' = a
          BY <1>1, <1>6, <1>8, <4>4, <5>1, <5>3
        <5>7. Pieces(down[conn].q, resp.stream, Due, p, r)'
          BY <5>5, <5>6, Zenon
        <5>8. ~(up[conn].end = "open")'
          BY <1>1, <1>4, <1>6, <4>4
        <5>9. ExchangeAt(p, r)'
          BY <4>3, <5>7, <5>8 DEF ExchangeAt
        <5> QED
          BY <1>8, <5>1, <5>9 DEF Exchange
      <4>5. CASE c # conn
        <5>1. UNCHANGED <<up[conn], down[conn], pc[conn], req[conn], out[conn]>>
          BY <1>1, <1>6, <3>a, <4>5
        <5> QED
          BY <1>1, <1>8, <3>a, <4>1, <5>1, ExchangeStays
      <4> QED
        BY <4>4, <4>5
    <3>2. CASE c = conn
      BY <1>1, <1>4, <1>5, <1>6, <1>9, <3>1, <3>2 DEF Held
    <3>3. CASE c # conn
      <4>1. UNCHANGED <<up[conn], down[conn], pc[conn]>>
        BY <1>1, <1>6, <3>a, <3>3
      <4> QED
        BY <1>1, <1>9, <3>1, <3>a, <4>1 DEF Held, Quiet
    <3> QED
      BY <3>2, <3>3
  <2> QED
    BY <2>1, <2>2
<1>12. UNCHANGED Service!vars
  BY <1>1, ServiceStutters
<1> QED
  BY <1>7, <1>9, <1>10, <1>11, <1>12 DEF IInv

-----------------------------------------------------------------------------
(* The steps together                                                      *)

LEMMA InitHolds == Init => IInv /\ Service!Init
<1> SUFFICES ASSUME Init PROVE IInv /\ Service!Init
  OBVIOUS
<1>1. /\ pc = [c \in Conns |-> "none"] /\ DOMAIN req = Conns /\ DOMAIN out = Conns /\ fs = Tree
      /\ up = [c \in Conns |-> NoChannel] /\ down = [c \in Conns |-> NoChannel] /\ breaks = 0
  BY DEF Init, InitServer
<1>2. /\ urls \in Scripts /\ cpc = "next" /\ conn = NoConn /\ nextStreamID = 1
      /\ resp = [stream |-> 0, status |-> 0, body |-> <<>>] /\ ~hasError /\ log = <<>> /\ code = -1
  BY DEF Init, Client!InitClient, Client!NoResponse
<1>3. IsChannel(NoChannel) /\ NoChannel.end = "none"
  BY DEF IsChannel, NoChannel, Ends
<1>4. Shapes
  BY <1>1, <1>3 DEF Shapes
<1>5. Places
  BY <1>1, <1>2 DEF Places
<1>6. Held
  BY <1>2 DEF Held
<1>7. Books
  <2>1. resp \in Responses
    BY <1>2 DEF Responses
  <2>2. log \in Seq(Entries) /\ Len(log) = 0
    BY <1>2
  <2>3. code = -1 /\ cpc # "exit"
    BY <1>2
  <2>4. hasError <=> \E i \in 1..Len(log) : ~Service!Good(Result(log[i]))
    BY <1>2, <2>2
  <2> QED
    BY <2>1, <2>2, <2>3, <2>4 DEF Books
<1>8. Service!Init
  <2>1. Len(log) = 0
    BY <1>2
  <2>2. [i \in 1..Len(log) |-> Result(log[i])] = <<>>
    BY <2>1
  <2> QED
    BY <1>2, <2>2 DEF Service!Init
<1> QED
  BY <1>4, <1>5, <1>6, <1>7, <1>8 DEF IInv

LEMMA StepKeeps ==
  ASSUME IInv, [Next]_systemVars
  PROVE  IInv' /\ [Service!Next]_(Service!vars)
<1>1. CASE Bcurl
  <2>1. Client!ClientStep /\ UNCHANGED <<serverOnly, breaks>>
    BY <1>1 DEF Bcurl
  <2>2. Kept
    BY <2>1, RejectURLKeeps, EnsureConnectionKeeps, DialKeeps, DialFailsKeeps, SendKeeps, SendFailsKeeps,
       ReadsKeep, RecvFailsKeeps, ExitKeeps DEF Client!ClientStep
  <2> QED
    BY <2>2 DEF Kept
<1>2. CASE \E c \in Conns : Bserve(c)
  BY <1>2, HandlerKeeps
<1>3. CASE \E c \in Conns : Break(c)
  BY <1>3, BreakKeeps
<1>4. CASE UNCHANGED systemVars
  <2>1. /\ UNCHANGED <<up, down, fs, pc, req, out, host, urls, cpc, conn, currentAddr, nextStreamID, resp>>
        /\ UNCHANGED <<hasError, log, code, breaks>>
    BY <1>4 DEF systemVars, vars, clientOnly
  <2>2. UNCHANGED <<Client!target, Due, Get(Client!target)>>
    BY <2>1 DEF Client!target, Due, Get
  <2>3. Exchange => Exchange'
    BY <2>1, <2>2, ExchangeStays
  <2>4. Shapes'
    BY <2>1 DEF IInv, Shapes, IsChannel
  <2>5. Held'
    BY <2>1, <2>3 DEF IInv, Held, Quiet
  <2>6. Places'
    BY <2>1, <2>2 DEF IInv, Places
  <2>7. Books'
    BY <2>1 DEF IInv, Books
  <2> QED
    BY <2>1, <2>4, <2>5, <2>6, <2>7, ServiceStutters DEF IInv
<1> QED
  BY <1>1, <1>2, <1>3, <1>4 DEF Next, Terminated

\* The client is where the invariant says, whatever is read, written or lost.
THEOREM SystemInvariant == Spec => []IInv
<1>1. Init => IInv
  BY InitHolds
<1>2. IInv /\ [Next]_systemVars => IInv'
  BY StepKeeps
<1> QED
  BY <1>1, <1>2, PTL DEF Spec

\* No client reads what was meant for an earlier request: between two requests
\* nothing is under way and the handler waits.
THEOREM AlwaysQuietBetweenRequests == Spec => []QuietBetweenRequests
<1>1. IInv => QuietBetweenRequests
  BY DEF IInv, Held, Quiet, QuietBetweenRequests
<1> QED
  BY <1>1, SystemInvariant, PTL

\* bcurl and bserve implement the service: every target is settled, in order,
\* with an error or with exactly the answer to its GET.
THEOREM SystemImplementsService == Spec => Service!SafeSpec
<1>1. Init => Service!Init
  BY InitHolds
<1>2. IInv /\ [Next]_systemVars => [Service!Next]_(Service!vars)
  BY StepKeeps
<1> QED
  BY <1>1, <1>2, SystemInvariant, PTL DEF Spec, Service!SafeSpec
=============================================================================
