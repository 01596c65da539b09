-------------------------- MODULE BhttpServerProofs --------------------------
(***************************************************************************)
(* Theorems about the handlers of BhttpServerPeer, for any number of       *)
(* connections, any requests, any tree and any chunk size.                 *)
(***************************************************************************)
EXTENDS BhttpServerPeer, BhttpWireProofs

-----------------------------------------------------------------------------
(* The frames and the responses of the handler                             *)

OutgoingOK(o) == o \in Outgoing /\ o.off <= Len(o.body)

LEMMA FailureType ==
  ASSUME NEW stream \in 0..MaxStreamID, NEW status \in Statuses, NEW last \in BOOLEAN
  PROVE  OutgoingOK(Failure(stream, status, last))
BY ServerAssumption DEF Failure, Outgoing, OutgoingOK

LEMMA SuccessType ==
  ASSUME NEW stream \in 0..MaxStreamID, NEW body \in Seq(STRING), NEW head \in BOOLEAN
  PROVE  OutgoingOK(Success(stream, body, head))
BY DEF Success, Outgoing, Statuses, OutgoingOK

LEMMA HeadersFrameType ==
  ASSUME NEW o \in Outgoing
  PROVE  HeadersFrame(o) \in AnyFrame
BY DEF HeadersFrame, Frame, AnyFrame, Outgoing, Types, FlagEndStream, FlagEndHeaders

LEMMA ChunkEndType ==
  ASSUME NEW o \in Outgoing, o.off <= Len(o.body)
  PROVE  ChunkEnd(o) \in o.off..Len(o.body)
BY ServerAssumption DEF ChunkEnd, Outgoing

LEMMA DataFrameType ==
  ASSUME NEW o \in Outgoing, o.off <= Len(o.body)
  PROVE  DataFrame(o) \in AnyFrame
<1>1. o.body \in Seq(STRING) /\ o.off \in Nat /\ o.stream \in 0..MaxStreamID
  BY DEF Outgoing
<1>2. \A i \in (o.off + 1)..ChunkEnd(o) : o.body[i] \in STRING
  BY <1>1, ChunkEndType
<1>3. SubSeq(o.body, o.off + 1, ChunkEnd(o)) \in Seq(STRING)
  BY <1>1, <1>2, ChunkEndType, SubSeqProperties
<1> QED
  BY <1>1, <1>3 DEF DataFrame, Frame, AnyFrame, Types, FlagEndStream, FlagEndHeaders

LEMMA PongFrameType ==
  ASSUME NEW f \in Offers
  PROVE  PongFrame(f) \in AnyFrame
BY PeerAssumption, WireAssumption DEF PongFrame, Frame, AnyFrame, Types, FlagAck, FlagEndStream, FlagEndHeaders

LEMMA HeadersStatusType ==
  ASSUME NEW hdr
  PROVE  HeadersStatus(hdr) \in {200, 400, 405}
BY DEF HeadersStatus

LEMMA ResolvedType ==
  ASSUME NEW tree \in Trees, NEW p, Stat(tree, p) = "file"
  PROVE  tree[p].data \in Seq(STRING)
BY PeerAssumption DEF Stat

-----------------------------------------------------------------------------
(* Type correctness                                                        *)

Ups   == [Conns -> [q : Seq(Offers), end : Ends]]
Downs == [Conns -> [q : Seq(AnyFrame), end : Ends]]

RequestOK(label, r) ==
  /\ label = "pong" => r \in Offers
  /\ label \in {"stat", "index", "open"} => r.stream \in 0..MaxStreamID /\ r.head \in BOOLEAN

\* A step of the handler of c: its label, request and response become label,
\* r and o.
LEMMA TypeStep ==
  ASSUME TypeOK, NEW c \in Conns, NEW label \in Labels, NEW r, NEW o,
         pc' = [pc EXCEPT ![c] = label], req' = [req EXCEPT ![c] = r], out' = [out EXCEPT ![c] = o],
         OutgoingOK(o), RequestOK(label, r), up' \in Ups, down' \in Downs,
         UNCHANGED <<fs, offered, edits>>
  PROVE  TypeOK'
<1>1. pc' \in [Conns -> Labels] /\ out' \in [Conns -> Outgoing]
      /\ req' = [d \in Conns |-> req'[d]]
  BY DEF TypeOK, OutgoingOK
<1>2. ASSUME NEW d \in Conns
      PROVE  /\ out'[d].off <= Len(out'[d].body)
             /\ pc'[d] = "pong" => req'[d] \in Offers
             /\ pc'[d] \in {"stat", "index", "open"} =>
                  req'[d].stream \in 0..MaxStreamID /\ req'[d].head \in BOOLEAN
  <2>1. CASE d = c
    BY <2>1 DEF TypeOK, OutgoingOK, RequestOK
  <2>2. CASE d # c
    <3>1. out'[d] = out[d] /\ pc'[d] = pc[d] /\ req'[d] = req[d]
      BY <2>2 DEF TypeOK
    <3> QED
      BY <3>1 DEF TypeOK
  <2> QED
    BY <2>1, <2>2
<1> QED
  BY <1>1, <1>2 DEF TypeOK, Ups, Downs

\* What is known of c before a step.
LEMMA HandlerFacts ==
  ASSUME TypeOK, NEW c \in Conns
  PROVE  /\ up[c] \in Chan(Offers) /\ down[c] \in Chan(AnyFrame) /\ OutgoingOK(out[c])
         /\ pc[c] \in Labels /\ RequestOK(pc[c], req[c])
         /\ up \in Ups /\ down \in Downs
         /\ pc = [pc EXCEPT ![c] = pc[c]] /\ req = [req EXCEPT ![c] = req[c]]
         /\ out = [out EXCEPT ![c] = out[c]]
<1>1. req = [req EXCEPT ![c] = req[c]]
  BY DEF TypeOK
<1> QED
  BY <1>1 DEF TypeOK, Chan, OutgoingOK, RequestOK, Ups, Downs

LEMMA TakesFacts ==
  ASSUME TypeOK, NEW c \in Conns, NEW type, Takes(c, type)
  PROVE  /\ up' \in Ups /\ Head(up[c].q) \in Offers /\ down' \in Downs
         /\ UNCHANGED <<down, fs>> /\ pc[c] = "read"
         /\ Head(up[c].q).stream \in 0..MaxStreamID
<1>1. ReadFrame(up[c]) \in Chan(Offers) /\ Head(up[c].q) \in Offers
  BY HandlerFacts, ReadFrameType DEF Takes
<1>2. Head(up[c].q).stream \in 0..MaxStreamID
  BY <1>1, PeerAssumption DEF AnyFrame
<1> QED
  BY <1>1, <1>2, HandlerFacts DEF Takes, Chan, Ups

LEMMA WritesFacts ==
  ASSUME TypeOK, NEW c \in Conns, NEW f \in AnyFrame, Writes(c, f) \/ WriteError(c)
  PROVE  down' \in Downs /\ UNCHANGED <<up, fs, req>>
<1>1. WriteFrame(down[c], f) \in Chan(AnyFrame)
  BY HandlerFacts, WriteFrameType
<1> QED
  BY <1>1, HandlerFacts DEF Writes, WriteError, Chan, Downs

\* One step of a handler.
LEMMA HandlerType ==
  ASSUME TypeOK, NEW c \in Conns, Handle(c), UNCHANGED <<offered, edits>>
  PROVE  TypeOK'
<1>a. /\ up[c] \in Chan(Offers) /\ down[c] \in Chan(AnyFrame) /\ OutgoingOK(out[c])
      /\ pc[c] \in Labels /\ RequestOK(pc[c], req[c])
      /\ up \in Ups /\ down \in Downs
      /\ pc = [pc EXCEPT ![c] = pc[c]] /\ req = [req EXCEPT ![c] = req[c]]
      /\ out = [out EXCEPT ![c] = out[c]]
  BY HandlerFacts
<1>b. {"read", "close", "data", "headers", "index", "open", "stat", "pong", "done"} \subseteq Labels
  BY DEF Labels
<1>c. \A label \in {"read", "close", "data", "headers", "done"} : RequestOK(label, req[c])
  BY DEF RequestOK
<1>e. 400 \in Statuses /\ 404 \in Statuses /\ 500 \in Statuses /\ 1 \in 0..MaxStreamID
  BY ServerAssumption, WireAssumption DEF Statuses
<1>f. TRUE \in BOOLEAN /\ FALSE \in BOOLEAN
  OBVIOUS
<1>d. ASSUME NEW o, Reply(c, o), OutgoingOK(o), UNCHANGED <<fs, req>>, up' \in Ups, down' \in Downs
      PROVE  TypeOK'
  <2>1. pc' = [pc EXCEPT ![c] = "headers"] /\ out' = [out EXCEPT ![c] = o]
    BY <1>d DEF Reply, Goto
  <2>2. req' = [req EXCEPT ![c] = req[c]]
    BY <1>a, <1>d
  <2>3. "headers" \in Labels /\ RequestOK("headers", req[c])
    BY <1>b, <1>c
  <2> QED
    BY <1>d, <2>1, <2>2, <2>3, TypeStep
<1>1. CASE Accept(c)
  BY <1>1, <1>a, <1>b, <1>c, TypeStep DEF Accept, Goto, local
<1>2. CASE SkipUnknown(c)
  BY <1>2, <1>a, TakesFacts, TypeStep DEF SkipUnknown, local
<1>3. CASE IgnoreData(c)
  BY <1>3, <1>a, TakesFacts, TypeStep DEF IgnoreData, local
<1>4. CASE TakePing(c)
  <2>1. RequestOK("pong", Head(up[c].q))
    BY <1>4, TakesFacts DEF TakePing, RequestOK
  <2> QED
    BY <1>4, <1>a, <1>b, <2>1, TakesFacts, TypeStep DEF TakePing, Goto
<1>5. CASE TakeGoAway(c)
  BY <1>5, <1>a, <1>b, <1>c, TakesFacts, TypeStep DEF TakeGoAway, Goto, local
<1>6. CASE TakeHeaders(c)
  <2> DEFINE f == Head(up[c].q)
             r == [stream |-> f.stream, head |-> f.hdr.method = "HEAD", path |-> Resolve(f.hdr.path)]
  <2>1. f.stream \in 0..MaxStreamID /\ up' \in Ups /\ down' \in Downs /\ UNCHANGED fs
    BY <1>6, TakesFacts DEF TakeHeaders
  <2>2. CASE HeadersStatus(f.hdr) = 200
    <3>1. RequestOK("stat", r)
      BY <2>1 DEF RequestOK
    <3>2. req' = [req EXCEPT ![c] = r] /\ pc' = [pc EXCEPT ![c] = "stat"] /\ UNCHANGED out
      BY <1>6, <2>2 DEF TakeHeaders, Goto
    <3> HIDE DEF r
    <3> QED
      BY <1>a, <1>b, <2>1, <3>1, <3>2, TypeStep
  <2>3. CASE HeadersStatus(f.hdr) # 200
    <3>1. HeadersStatus(f.hdr) \in Statuses
      BY HeadersStatusType DEF Statuses
    <3>2. OutgoingOK(Failure(f.stream, HeadersStatus(f.hdr), FALSE))
      BY <2>1, <3>1, FailureType
    <3>3. Reply(c, Failure(f.stream, HeadersStatus(f.hdr), FALSE)) /\ UNCHANGED req
      BY <1>6, <2>3 DEF TakeHeaders
    <3> QED
      BY <1>d, <2>1, <3>2, <3>3
  <2> QED
    BY <2>2, <2>3
<1>7. CASE StatPath(c)
  <2>1. req[c].stream \in 0..MaxStreamID /\ RequestOK("index", req[c]) /\ RequestOK("open", req[c])
    BY <1>7, <1>a DEF StatPath, RequestOK
  <2>2. OutgoingOK(Failure(req[c].stream, 404, FALSE))
    BY <2>1, <1>e, <1>f, FailureType, Zenon
  <2>8. OutgoingOK(Failure(req[c].stream, 500, FALSE))
    BY <2>1, <1>e, <1>f, FailureType, ZenonT(30)
  <2>3. UNCHANGED <<fs, req>> /\ up' \in Ups /\ down' \in Downs
    BY <1>7, <1>a DEF StatPath
  <2>4. \/ \E label \in {"index", "open"} : Goto(c, label) /\ UNCHANGED out
        \/ Reply(c, Failure(req[c].stream, 404, FALSE))
        \/ Reply(c, Failure(req[c].stream, 500, FALSE))
    BY <1>7 DEF StatPath
  <2>5. CASE \E label \in {"index", "open"} : Goto(c, label) /\ UNCHANGED out
    BY <1>a, <1>b, <2>1, <2>3, <2>5, TypeStep DEF Goto
  <2>6. CASE Reply(c, Failure(req[c].stream, 404, FALSE))
    BY <1>d, <2>2, <2>3, <2>6, Zenon
  <2>7. CASE Reply(c, Failure(req[c].stream, 500, FALSE))
    BY <1>d, <2>8, <2>3, <2>7, Zenon
  <2> QED
    BY <2>4, <2>5, <2>6, <2>7
<1>8. CASE StatIndex(c)
  <2> DEFINE r == [req[c] EXCEPT !.path = Index(@)]
  <2>1. req[c].stream \in 0..MaxStreamID /\ req[c].head \in BOOLEAN
    BY <1>8, <1>a DEF StatIndex, RequestOK
  <2>2. OutgoingOK(Failure(req[c].stream, 404, FALSE))
    BY <2>1, <1>e, <1>f, FailureType, ZenonT(30)
  <2>3. UNCHANGED <<up, down, fs>>
    BY <1>8 DEF StatIndex
  <2>4. CASE IsRegular(Stat(fs, Index(req[c].path)))
    <3>1. req' = [req EXCEPT ![c] = r] /\ pc' = [pc EXCEPT ![c] = "open"] /\ UNCHANGED out
      BY <1>8, <2>4 DEF StatIndex, Goto
    <3>2. RequestOK("open", r)
      BY <2>1 DEF RequestOK
    <3> HIDE DEF r
    <3> QED
      BY <1>a, <1>b, <2>3, <3>1, <3>2, TypeStep
  <2>5. CASE ~IsRegular(Stat(fs, Index(req[c].path)))
    BY <1>8, <1>a, <1>d, <2>2, <2>3, <2>5 DEF StatIndex
  <2> QED
    BY <2>4, <2>5
<1>9. CASE ReadFile(c)
  <2> DEFINE r == req[c]
             o == IF Stat(fs, r.path) = "file" THEN Success(r.stream, fs[r.path].data, r.head)
                  ELSE Failure(r.stream, 500, FALSE)
  <2>1. r.stream \in 0..MaxStreamID /\ r.head \in BOOLEAN /\ fs \in Trees
    BY <1>9, <1>a DEF ReadFile, RequestOK, TypeOK
  <2>2. OutgoingOK(o)
    <3>1. OutgoingOK(Failure(r.stream, 500, FALSE))
      BY <2>1, <1>e, <1>f, FailureType, ZenonT(30)
    <3>2. Stat(fs, r.path) = "file" => OutgoingOK(Success(r.stream, fs[r.path].data, r.head))
      BY <2>1, ResolvedType, SuccessType, Zenon
    <3> QED
      BY <3>1, <3>2
  <2>3. Reply(c, o) /\ UNCHANGED <<up, down, fs, req>>
    BY <1>9 DEF ReadFile
  <2> QED
    BY <1>a, <1>d, <2>2, <2>3
<1>10. CASE Pong(c)
  <2>1. PongFrame(req[c]) \in AnyFrame
    BY <1>10, <1>a, PongFrameType DEF Pong, RequestOK
  <2>2. down' \in Downs /\ UNCHANGED <<up, fs, req>>
    BY <1>10, <2>1, WritesFacts DEF Pong
  <2> QED
    BY <1>10, <1>a, <1>b, <1>c, <2>2, TypeStep DEF Pong, Goto
<1>11. CASE SendHeaders(c)
  <2>1. HeadersFrame(out[c]) \in AnyFrame /\ AfterResponse(out[c]) \in {"close", "read"}
    BY <1>a, HeadersFrameType DEF AfterResponse, OutgoingOK
  <2>2. down' \in Downs /\ UNCHANGED <<up, fs, req, out>>
    BY <1>11, <2>1, WritesFacts DEF SendHeaders
  <2>3. PICK label \in {"close", "read", "data"} : pc' = [pc EXCEPT ![c] = label]
    BY <1>11, <2>1 DEF SendHeaders, Goto
  <2> QED
    BY <1>a, <1>b, <1>c, <2>2, <2>3, TypeStep
<1>12. CASE SendData(c)
  <2> DEFINE o == [out[c] EXCEPT !.off = ChunkEnd(out[c])]
  <2>1. DataFrame(out[c]) \in AnyFrame /\ AfterResponse(out[c]) \in {"close", "read"}
    BY <1>a, DataFrameType DEF AfterResponse, OutgoingOK
  <2>2. down' \in Downs /\ UNCHANGED <<up, fs, req>>
    BY <1>12, <2>1, WritesFacts DEF SendData
  <2>3. PICK label \in {"close", "read", "data"} : pc' = [pc EXCEPT ![c] = label]
    BY <1>12, <2>1 DEF SendData, Goto
  <2>4. out' = [out EXCEPT ![c] = o] \/ out' = [out EXCEPT ![c] = out[c]]
    BY <1>12, <1>a DEF SendData
  <2>5. ChunkEnd(out[c]) \in Nat /\ ChunkEnd(out[c]) <= Len(out[c].body)
    BY <1>a, ChunkEndType DEF OutgoingOK, Outgoing
  <2>6. OutgoingOK(o)
    BY <1>a, <2>5 DEF OutgoingOK, Outgoing
  <2> HIDE DEF o
  <2> QED
    BY <1>a, <1>b, <1>c, <2>2, <2>3, <2>4, <2>6, TypeStep
<1>13. CASE ReadFails(c)
  <2>1. OutgoingOK(Failure(1, 400, TRUE))
    BY <1>e, <1>f, FailureType, ZenonT(30)
  <2>2. UNCHANGED <<up, down, fs, req>>
    BY <1>13 DEF ReadFails
  <2>3. CASE Reply(c, Failure(1, 400, TRUE))
    BY <1>a, <1>d, <2>1, <2>2, <2>3
  <2>4. CASE Goto(c, "close") /\ UNCHANGED out
    BY <1>a, <1>b, <1>c, <2>2, <2>4, TypeStep DEF Goto
  <2> QED
    BY <1>13, <2>3, <2>4 DEF ReadFails
<1>14. CASE Close(c)
  <2>1. ClosedByReader(up[c]) \in Chan(Offers)
    BY <1>a, ClosedType
  <2>2. ClosedByWriter(down[c], CanRead(up[c])) \subseteq Chan(AnyFrame)
    BY <1>a, ClosedType DEF CanRead
  <2>3. up' \in Ups /\ down' \in Downs
    BY <1>14, <1>a, <2>1, <2>2 DEF Close, Chan, Ups, Downs
  <2> QED
    BY <1>14, <1>a, <1>b, <1>c, <2>3, TypeStep DEF Close, Goto, local
<1> QED
  BY <1>1, <1>2, <1>3, <1>4, <1>5, <1>6, <1>7, <1>8, <1>9, <1>10, <1>11, <1>12, <1>13, <1>14
  DEF Handle

\* The environment's steps.
LEMMA PeerType ==
  ASSUME TypeOK, NEW c \in Conns, PeerSend(c) \/ PeerCut(c) \/ PeerGone(c) \/ Break(c)
  PROVE  TypeOK'
<1>a. up[c] \in Chan(Offers) /\ down[c] \in Chan(AnyFrame) /\ up \in Ups /\ down \in Downs
  BY HandlerFacts
<1>b. SUFFICES /\ up' \in Ups /\ down' \in Downs /\ offered' \in [Conns -> Seq(Offers)]
               /\ UNCHANGED <<fs, pc, local, edits>>
  BY DEF TypeOK, Ups, Downs, local
<1>1. CASE PeerSend(c)
  <2>1. PICK f \in Offers : /\ up' = [up EXCEPT ![c] = WriteFrame(@, f)]
                            /\ offered' = [offered EXCEPT ![c] = Append(@, f)]
    BY <1>1 DEF PeerSend
  <2>2. WriteFrame(up[c], f) \in Chan(Offers)
    BY <1>a, WriteFrameType
  <2>3. up' \in Ups
    BY <1>a, <2>1, <2>2 DEF Ups, Chan
  <2>4. offered' \in [Conns -> Seq(Offers)]
    BY <2>1, AppendProperties DEF TypeOK
  <2> QED
    BY <1>1, <1>a, <2>3, <2>4 DEF PeerSend
<1>2. CASE PeerCut(c)
  <2>1. PICK e \in Cuts : up' = [up EXCEPT ![c].end = e]
    BY <1>2 DEF PeerCut
  <2>2. up' = [up EXCEPT ![c] = [up[c] EXCEPT !.end = e]] /\ e \in Ends
    BY <2>1 DEF Ends
  <2>3. [up[c] EXCEPT !.end = e] \in Chan(Offers)
    BY <1>a, <2>2 DEF Chan
  <2>4. up' \in Ups
    BY <1>a, <2>2, <2>3 DEF Ups, Chan
  <2> QED
    BY <1>2, <1>a, <2>4 DEF PeerCut, TypeOK
<1>3. CASE PeerGone(c)
  <2>1. ClosedByReader(down[c]) \in Chan(AnyFrame)
    BY <1>a, ClosedType
  <2>2. down' \in Downs
    BY <1>3, <1>a, <2>1 DEF PeerGone, Downs, Chan
  <2>3. up' \in Ups
    BY <1>3, <1>a DEF PeerGone, Ups, Ends, Cuts
  <2> QED
    BY <1>3, <2>2, <2>3 DEF PeerGone, TypeOK
<1>4. CASE Break(c)
  <2>1. PICK ch \in Broken(up[c]) :
          /\ up' = [up EXCEPT ![c] = ch]
          /\ offered' = [offered EXCEPT ![c] = SubSeq(@, 1, Len(@) - Len(up[c].q) + Len(ch.q))]
    BY <1>4 DEF Break
  <2>2. ch \in Chan(Offers) /\ \E n \in 0..Len(up[c].q) : ch.q = SubSeq(up[c].q, 1, n)
    BY <1>a, BrokenType
  <2>3. up' \in Ups
    BY <1>a, <2>1, <2>2 DEF Ups, Chan
  <2>4. Len(ch.q) \in 0..Len(up[c].q) /\ Len(up[c].q) \in Nat
    <3>1. PICK n \in 0..Len(up[c].q) : ch.q = SubSeq(up[c].q, 1, n)
      BY <2>2
    <3>2. up[c].q \in Seq(Offers)
      BY <1>a DEF Chan
    <3>3. \A i \in 1..n : up[c].q[i] \in Offers
      BY <3>2
    <3>4. Len(SubSeq(up[c].q, 1, n)) = IF 1 <= n THEN n - 1 + 1 ELSE 0
      BY <3>2, <3>3, SubSeqProperties
    <3> QED
      BY <3>1, <3>2, <3>4
  <2>5. offered' \in [Conns -> Seq(Offers)]
    <3> DEFINE n == Len(offered[c]) - Len(up[c].q) + Len(ch.q)
    <3>1. offered[c] \in Seq(Offers)
      BY DEF TypeOK
    <3>2. n \in Int /\ n <= Len(offered[c])
      BY <3>1, <2>4
    <3>3. offered' = [offered EXCEPT ![c] = SubSeq(offered[c], 1, n)]
      BY <2>1
    <3> HIDE DEF n
    <3>4. \A i \in 1..n : offered[c][i] \in Offers
      BY <3>1, <3>2
    <3>5. SubSeq(offered[c], 1, n) \in Seq(Offers)
      BY <3>1, <3>2, <3>4, SubSeqProperties
    <3> QED
      BY <3>3, <3>5 DEF TypeOK
  <2>6. down' \in Downs
    BY <1>4, <1>a DEF Break, Downs, Ends
  <2> QED
    BY <1>4, <2>3, <2>5, <2>6 DEF Break
<1> QED
  BY <1>1, <1>2, <1>3, <1>4

\* TypeOK of BhttpServerPeer holds for every value of the constants.
THEOREM TypeCorrect == Spec => []TypeOK
<1>1. Init => TypeOK
  <2> SUFFICES ASSUME Init PROVE TypeOK
    OBVIOUS
  <2>1. OutgoingOK(Failure(0, 0, FALSE))
    <3>1. 0 \in 0..MaxStreamID /\ 0 \in Statuses
      BY ServerAssumption, WireAssumption DEF Statuses
    <3>2. FALSE \in BOOLEAN
      OBVIOUS
    <3> QED
      BY <3>1, <3>2, FailureType, Zenon
  <2>2. Fresh \in Chan(Offers) /\ Fresh \in Chan(AnyFrame)
    BY DEF Fresh, Chan, Ends
  <2>3. up \in Ups /\ down \in Downs /\ offered \in [Conns -> Seq(Offers)]
    BY <2>2 DEF Init, Chan, Ups, Downs
  <2>4. pc \in [Conns -> Labels] /\ fs \in Trees /\ edits \in 0..MaxEdits
    BY PeerAssumption, WireAssumption DEF Init, InitServer, Labels
  <2> DEFINE o == Failure(0, 0, FALSE)
  <2>5. out = [c \in Conns |-> o] /\ req = [c \in Conns |-> <<>>]
    BY DEF Init, InitServer
  <2>6. OutgoingOK(o)
    BY <2>1
  <2> HIDE DEF o
  <2>7. out \in [Conns -> Outgoing] /\ req = [c \in Conns |-> req[c]]
    BY <2>5, <2>6 DEF OutgoingOK
  <2>8. \A c \in Conns : out[c].off <= Len(out[c].body) /\ pc[c] = "none"
    BY <2>5, <2>6 DEF OutgoingOK, Init, InitServer
  <2> QED
    BY <2>3, <2>4, <2>7, <2>8 DEF TypeOK, Ups, Downs
<1>2. TypeOK /\ [Next]_peerVars => TypeOK'
  <2> SUFFICES ASSUME TypeOK, [Next]_peerVars PROVE TypeOK'
    OBVIOUS
  <2>1. CASE UNCHANGED peerVars
    BY <2>1 DEF peerVars, vars, TypeOK
  <2>2. ASSUME NEW c \in Conns, Handler(c) PROVE TypeOK'
    BY <2>2, HandlerType DEF Handler
  <2>3. ASSUME NEW c \in Conns, PeerSend(c) \/ PeerCut(c) \/ PeerGone(c) \/ Break(c) PROVE TypeOK'
    BY <2>3, PeerType
  <2>4. CASE Edit
    BY <2>4, PeerAssumption DEF Edit, TypeOK, local
  <2>5. CASE Terminated
    BY <2>1, <2>5 DEF Terminated
  <2> QED
    BY <2>1, <2>2, <2>3, <2>4, <2>5 DEF Next
<1> QED
  BY <1>1, <1>2, PTL DEF Spec
-----------------------------------------------------------------------------
(* Responses are not cut into by one another                               *)

\* What a handler at label, with o to write, has written to ch: the invariant
\* ResponsesContiguous rests on.  It adds what is true in the middle of a
\* response: there is more of it to come, and the last frame is one of its own.
Written(ch, label, o) ==
  LET w == ch.q IN
  /\ Contiguous(w)
  /\ label = "headers" => o.off = 0 /\ (o.body # <<>> \/ (o.ends /\ o.status = 200))
  /\ label = "data" => o.off < Len(o.body)
  /\ ch.end = "open" /\ label = "data" =>
       w # <<>> /\ ~HasFlag(w[Len(w)], FlagEndStream) /\ w[Len(w)].stream = o.stream
  /\ ch.end = "open" /\ label # "data" /\ w # <<>> => HasFlag(w[Len(w)], FlagEndStream)

AllWritten == \A c \in Conns : Written(down[c], pc[c], out[c])

LEMMA AppendContiguous ==
  ASSUME NEW w \in Seq(AnyFrame), NEW f \in AnyFrame, Contiguous(w),
         w = <<>> => f.type # "DATA",
         w # <<>> => /\ HasFlag(w[Len(w)], FlagEndStream) <=> f.type # "DATA"
                     /\ f.type = "DATA" => f.stream = w[Len(w)].stream
  PROVE  Contiguous(Append(w, f))
<1> DEFINE v == Append(w, f)
<1>1. /\ v \in Seq(AnyFrame) /\ Len(v) = Len(w) + 1 /\ v[Len(w) + 1] = f
      /\ \A i \in 1..Len(w) : v[i] = w[i]
  BY AppendProperties
<1>2. Len(w) \in Nat /\ (w = <<>> <=> Len(w) = 0)
  BY EmptySeq
<1> HIDE DEF v
<1>3. v[1].type # "DATA"
  <2>1. CASE w = <<>>
    BY <1>1, <1>2, <2>1
  <2>2. CASE w # <<>>
    <3>1. 1 \in 1..Len(w) /\ v[1] = w[1]
      BY <1>1, <1>2, <2>2
    <3>2. w[1].type # "DATA"
      BY <2>2 DEF Contiguous
    <3> QED
      BY <3>1, <3>2
  <2> QED
    BY <2>1, <2>2
<1>4. ASSUME NEW i \in 1..(Len(v) - 1)
      PROVE  /\ HasFlag(v[i], FlagEndStream) <=> v[i + 1].type # "DATA"
             /\ v[i + 1].type = "DATA" => v[i + 1].stream = v[i].stream
  <2>1. CASE i = Len(w)
    BY <1>1, <1>2, <2>1
  <2>2. CASE i # Len(w)
    <3>1. i \in 1..(Len(w) - 1) /\ v[i] = w[i] /\ v[i + 1] = w[i + 1]
      BY <1>1, <1>2, <2>2
    <3> QED
      BY <3>1 DEF Contiguous
  <2> QED
    BY <2>1, <2>2
<1>5. Contiguous(v)
  BY <1>3, <1>4 DEF Contiguous
<1> QED
  BY <1>5 DEF v

LEMMA PrefixContiguous ==
  ASSUME NEW w \in Seq(AnyFrame), Contiguous(w), NEW n \in 0..Len(w)
  PROVE  Contiguous(SubSeq(w, 1, n))
<1> DEFINE v == SubSeq(w, 1, n)
<1>1. \A i \in 1..n : w[i] \in AnyFrame
  OBVIOUS
<1>2. v \in Seq(AnyFrame) /\ Len(v) = n /\ \A i \in 1..n : v[i] = w[i]
  BY <1>1, SubSeqProperties
<1> HIDE DEF v
<1>3. v # <<>> => n >= 1 /\ w # <<>>
  BY <1>2, EmptySeq
<1>4. v # <<>> => v[1].type # "DATA"
  BY <1>2, <1>3 DEF Contiguous
<1>5. ASSUME NEW i \in 1..(Len(v) - 1)
      PROVE  i \in 1..(Len(w) - 1) /\ v[i] = w[i] /\ v[i + 1] = w[i + 1]
  BY <1>2
<1>6. Contiguous(v)
  BY <1>4, <1>5 DEF Contiguous
<1> QED
  BY <1>6 DEF v

\* A channel whose writer is at a label between two responses goes on to
\* another such label.
LEMMA BetweenResponses ==
  ASSUME NEW ch, NEW label, NEW o, Written(ch, label, o), label # "data",
         NEW next, next \notin {"headers", "data"}
  PROVE  Written(ch, next, o)
BY DEF Written

\* What a response that has been decided on looks like before it is written.
LEMMA FailureWritten ==
  ASSUME NEW ch, NEW label, NEW o, Written(ch, label, o), label # "data",
         NEW stream, NEW status, NEW last
  PROVE  Written(ch, "headers", Failure(stream, status, last))
BY ServerAssumption DEF Written, Failure

LEMMA SuccessWritten ==
  ASSUME NEW ch, NEW label, NEW o, Written(ch, label, o), label # "data",
         NEW stream, NEW body, NEW head
  PROVE  Written(ch, "headers", Success(stream, body, head))
BY DEF Written, Success

\* A channel that stops being open, with a prefix of what it held.
LEMMA ClosedWritten ==
  ASSUME NEW ch \in Chan(AnyFrame), NEW label, NEW o, Written(ch, label, o),
         NEW n \in 0..Len(ch.q), NEW after, after.q = SubSeq(ch.q, 1, n) \/ after.q = ch.q,
         after.end # "open"
  PROVE  Written(after, label, o)
<1>1. ch.q \in Seq(AnyFrame) /\ Contiguous(ch.q)
  BY DEF Chan, Written
<1>2. Contiguous(after.q)
  BY <1>1, PrefixContiguous
<1> QED
  BY <1>2 DEF Written

LEMMA WrittenStep ==
  ASSUME TypeOK, AllWritten, NEW c \in Conns, NEW ch, NEW label, NEW o, Written(ch, label, o),
         down' = [down EXCEPT ![c] = ch], pc' = [pc EXCEPT ![c] = label], out' = [out EXCEPT ![c] = o]
  PROVE  AllWritten'
<1> SUFFICES ASSUME NEW d \in Conns PROVE Written(down'[d], pc'[d], out'[d])
  BY DEF AllWritten, Written, Contiguous, HasFlag
<1>1. CASE d = c
  <2>1. down'[d] = ch /\ pc'[d] = label /\ out'[d] = o
    BY <1>1 DEF TypeOK
  <2> QED
    BY <2>1
<1>2. CASE d # c
  <2>1. down'[d] = down[d] /\ pc'[d] = pc[d] /\ out'[d] = out[d]
    BY <1>2 DEF TypeOK
  <2> QED
    BY <2>1 DEF AllWritten
<1> QED
  BY <1>1, <1>2

\* Writing one frame of a response, or a PING.
LEMMA FrameWritten ==
  ASSUME NEW ch \in Chan(AnyFrame), NEW label, NEW o, Written(ch, label, o),
         NEW f \in AnyFrame, f.type # "DATA" <=> label # "data",
         f.type = "DATA" => f.stream = o.stream,
         NEW next, NEW p, next # "headers",
         next = "data" => p.off < Len(p.body) /\ ~HasFlag(f, FlagEndStream) /\ f.stream = p.stream,
         next # "data" => HasFlag(f, FlagEndStream)
  PROVE  Written(WriteFrame(ch, f), next, p)
<1>1. ch.q \in Seq(AnyFrame) /\ Contiguous(ch.q)
  BY DEF Chan, Written
<1>2. CASE ch.end = "open"
  <2> DEFINE v == Append(ch.q, f)
  <2>1. WriteFrame(ch, f).q = v /\ WriteFrame(ch, f).end = "open"
    BY <1>2 DEF WriteFrame, Chan
  <2>2. Contiguous(v)
    BY <1>1, <1>2, AppendContiguous DEF Written
  <2>3. v # <<>> /\ v[Len(v)] = f
    BY <1>1, AppendProperties
  <2> HIDE DEF v
  <2> QED
    BY <2>1, <2>2, <2>3 DEF Written
<1>3. CASE ch.end # "open"
  BY <1>1, <1>3 DEF Written, WriteFrame
<1> QED
  BY <1>2, <1>3

\* What WriteFrame and a failed write leave of a channel.
LEMMA WritesStep ==
  ASSUME TypeOK, NEW c \in Conns, NEW f, Writes(c, f)
  PROVE  down' = [down EXCEPT ![c] = WriteFrame(down[c], f)]
BY DEF Writes

\* Only a connection that is no longer open makes a write fail.
LEMMA ErrorWritten ==
  ASSUME NEW ch, NEW label, NEW o, Written(ch, label, o), WriteFails(ch),
         NEW next, next # "headers", next = "data" => o.off < Len(o.body)
  PROVE  Written(ch, next, o)
BY DEF Written, WriteFails

LEMMA HandlerWritten ==
  ASSUME TypeOK, AllWritten, NEW c \in Conns, Handle(c)
  PROVE  AllWritten'
<1>a. /\ down[c] \in Chan(AnyFrame) /\ OutgoingOK(out[c]) /\ RequestOK(pc[c], req[c])
      /\ pc = [pc EXCEPT ![c] = pc[c]] /\ out = [out EXCEPT ![c] = out[c]]
      /\ down = [down EXCEPT ![c] = down[c]]
  BY HandlerFacts DEF TypeOK
<1>b. Written(down[c], pc[c], out[c])
  BY DEF AllWritten
<1>c. CASE UNCHANGED <<down, out>> /\ pc[c] # "data"
           /\ \E next \in Labels \ {"headers", "data"} : Goto(c, next)
  <2>1. PICK next \in Labels \ {"headers", "data"} : pc' = [pc EXCEPT ![c] = next]
    BY <1>c DEF Goto
  <2>2. Written(down[c], next, out[c])
    BY <1>b, <1>c, BetweenResponses
  <2>3. down' = [down EXCEPT ![c] = down[c]] /\ out' = [out EXCEPT ![c] = out[c]]
    BY <1>a, <1>c
  <2> QED
    BY <2>1, <2>2, <2>3, WrittenStep, Zenon
<1>d. CASE UNCHANGED down /\ pc[c] # "data" /\ \E o : Reply(c, o) /\ Written(down[c], "headers", o)
  <2>1. PICK o : Reply(c, o) /\ Written(down[c], "headers", o)
    BY <1>d
  <2>2. /\ pc' = [pc EXCEPT ![c] = "headers"] /\ out' = [out EXCEPT ![c] = o]
        /\ down' = [down EXCEPT ![c] = down[c]]
    BY <1>a, <1>d, <2>1 DEF Reply, Goto
  <2> QED
    BY <2>1, <2>2, WrittenStep, Zenon
<1>1. CASE Accept(c) \/ TakePing(c) \/ TakeGoAway(c)
  BY <1>1, <1>c DEF Accept, TakePing, TakeGoAway, Takes, local, Labels, Goto
<1>2. CASE SkipUnknown(c) \/ IgnoreData(c)
  <2>1. UNCHANGED <<down, pc, out>>
    BY <1>2 DEF SkipUnknown, IgnoreData, Takes, local
  <2> QED
    BY <2>1 DEF AllWritten
<1>3. CASE TakeHeaders(c)
  <2>1. UNCHANGED down /\ pc[c] = "read"
    BY <1>3 DEF TakeHeaders, Takes
  <2>2. CASE Goto(c, "stat") /\ UNCHANGED out
    BY <1>c, <2>1, <2>2 DEF Labels
  <2>3. CASE \E stream, status, last : Reply(c, Failure(stream, status, last))
    BY <1>b, <1>d, <2>1, <2>3, FailureWritten
  <2> QED
    BY <1>3, <2>2, <2>3 DEF TakeHeaders
<1>4. CASE StatPath(c) \/ StatIndex(c)
  <2>1. UNCHANGED down /\ pc[c] \in {"stat", "index"}
    BY <1>4 DEF StatPath, StatIndex
  <2>2. CASE (Goto(c, "index") \/ Goto(c, "open")) /\ UNCHANGED out
    BY <1>c, <2>1, <2>2 DEF Labels
  <2>3. CASE \E stream, status, last : Reply(c, Failure(stream, status, last))
    BY <1>b, <1>d, <2>1, <2>3, FailureWritten
  <2>4. \/ (Goto(c, "index") \/ Goto(c, "open")) /\ UNCHANGED out
        \/ Reply(c, Failure(req[c].stream, 404, FALSE))
        \/ Reply(c, Failure(req[c].stream, 500, FALSE))
    BY <1>4 DEF StatPath, StatIndex
  <2>5. CASE \E status : Reply(c, Failure(req[c].stream, status, FALSE))
    BY <2>3, <2>5
  <2> QED
    BY <2>2, <2>4, <2>5
<1>5. CASE ReadFile(c)
  <2>1. UNCHANGED down /\ pc[c] = "open"
    BY <1>5 DEF ReadFile
  <2>2. CASE \E stream, status, last : Reply(c, Failure(stream, status, last))
    BY <1>b, <1>d, <2>1, <2>2, FailureWritten
  <2>3. CASE \E stream, body, head : Reply(c, Success(stream, body, head))
    BY <1>b, <1>d, <2>1, <2>3, SuccessWritten
  <2> QED
    BY <1>5, <2>2, <2>3, ZenonT(30) DEF ReadFile
<1>6. CASE Pong(c)
  <2> DEFINE f == PongFrame(req[c])
  <2>1. f \in AnyFrame /\ f.type = "PING" /\ HasFlag(f, FlagEndStream)
    BY <1>6, <1>a, PongFrameType
    DEF Pong, RequestOK, PongFrame, Frame, HasFlag, FlagEndStream, FlagAck
  <2>2. pc[c] = "pong" /\ UNCHANGED out /\ pc' = [pc EXCEPT ![c] = "read"]
    BY <1>6 DEF Pong, Goto
  <2> HIDE DEF f
  <2>3. CASE Writes(c, f)
    <3>1. Written(WriteFrame(down[c], f), "read", out[c])
      BY <1>a, <1>b, <2>1, <2>2, FrameWritten
    <3>2. /\ down' = [down EXCEPT ![c] = WriteFrame(down[c], f)]
          /\ out' = [out EXCEPT ![c] = out[c]]
      BY <1>a, <2>2, <2>3, WritesStep
    <3> QED
      BY <2>2, <3>1, <3>2, WrittenStep, Zenon
  <2>4. CASE WriteError(c)
    <3>1. Written(down[c], "read", out[c])
      BY <1>b, <2>2, BetweenResponses
    <3>2. down' = [down EXCEPT ![c] = down[c]] /\ out' = [out EXCEPT ![c] = out[c]]
      BY <1>a, <2>2, <2>4 DEF WriteError
    <3> QED
      BY <2>2, <3>1, <3>2, WrittenStep, Zenon
  <2> QED
    BY <1>6, <2>3, <2>4 DEF Pong, f
<1>7. CASE SendHeaders(c)
  <2> DEFINE f == HeadersFrame(out[c])
  <2>1. /\ f \in AnyFrame /\ f.type = "HEADERS" /\ f.stream = out[c].stream
        /\ HasFlag(f, FlagEndStream) <=> out[c].ends
    BY <1>a, HeadersFrameType
    DEF OutgoingOK, HeadersFrame, Frame, HasFlag, FlagEndStream, FlagEndHeaders
  <2>2. pc[c] = "headers" /\ UNCHANGED out
    BY <1>7 DEF SendHeaders
  <2>3. ~out[c].ends \/ out[c].status # 200 => out[c].off < Len(out[c].body)
    <3>1. out[c].off = 0 /\ out[c].body \in Seq(STRING)
      BY <1>a, <1>b, <2>2 DEF Written, OutgoingOK, Outgoing
    <3>2. ~out[c].ends \/ out[c].status # 200 => out[c].body # <<>>
      BY <1>b, <2>2 DEF Written
    <3> QED
      BY <3>1, <3>2, EmptySeq
  <2>4. AfterResponse(out[c]) \in {"read", "close"}
    BY DEF AfterResponse
  <2> HIDE DEF f
  <2>5. CASE Writes(c, f) /\ Goto(c, IF out[c].ends THEN AfterResponse(out[c]) ELSE "data")
    <3> DEFINE next == IF out[c].ends THEN AfterResponse(out[c]) ELSE "data"
    <3>1. next # "headers" /\ (next = "data" <=> ~out[c].ends) /\ pc' = [pc EXCEPT ![c] = next]
      BY <2>4, <2>5 DEF Goto
    <3> HIDE DEF next
    <3>2. Written(WriteFrame(down[c], f), next, out[c])
      BY <1>a, <1>b, <2>1, <2>2, <2>3, <3>1, FrameWritten
    <3>3. /\ down' = [down EXCEPT ![c] = WriteFrame(down[c], f)]
          /\ out' = [out EXCEPT ![c] = out[c]]
      BY <1>a, <2>2, <2>5, WritesStep
    <3> QED
      BY <3>1, <3>2, <3>3, WrittenStep, Zenon
  <2>6. CASE WriteError(c) /\ Goto(c, IF out[c].status = 200 THEN "read" ELSE "data")
    <3>1. PICK next \in {"read", "data"} : /\ pc' = [pc EXCEPT ![c] = next]
                                           /\ next = "data" => out[c].status # 200
      BY <2>6 DEF Goto
    <3>2. Written(down[c], next, out[c])
      BY <1>b, <2>3, <2>6, <3>1, ErrorWritten DEF WriteError
    <3>3. down' = [down EXCEPT ![c] = down[c]] /\ out' = [out EXCEPT ![c] = out[c]]
      BY <1>a, <2>2, <2>6 DEF WriteError
    <3> QED
      BY <3>1, <3>2, <3>3, WrittenStep, Zenon
  <2> QED
    BY <1>7, <2>5, <2>6 DEF SendHeaders, f
<1>8. CASE SendData(c)
  <2> DEFINE f == DataFrame(out[c])
             end == ChunkEnd(out[c])
             o == [out[c] EXCEPT !.off = end]
  <2>1. end \in Nat /\ end <= Len(out[c].body) /\ Len(out[c].body) \in Nat
    BY <1>a, ChunkEndType DEF OutgoingOK, Outgoing
  <2>2. /\ f \in AnyFrame /\ f.type = "DATA" /\ f.stream = out[c].stream
        /\ HasFlag(f, FlagEndStream) <=> end = Len(out[c].body)
    BY <1>a, DataFrameType DEF OutgoingOK, DataFrame, Frame, HasFlag, FlagEndStream
  <2>3. o.stream = out[c].stream /\ o.body = out[c].body /\ o.off = end
    BY <1>a DEF OutgoingOK, Outgoing
  <2>4. pc[c] = "data" /\ AfterResponse(out[c]) \in {"read", "close"}
    BY <1>8 DEF SendData, AfterResponse
  <2>5. CASE Writes(c, f) /\ out' = [out EXCEPT ![c] = o]
             /\ Goto(c, IF end = Len(out[c].body) THEN AfterResponse(out[c]) ELSE "data")
    <3> DEFINE next == IF end = Len(out[c].body) THEN AfterResponse(out[c]) ELSE "data"
    <3>1. next # "headers" /\ (next = "data" <=> end # Len(out[c].body)) /\ pc' = [pc EXCEPT ![c] = next]
      BY <2>4, <2>5 DEF Goto
    <3> HIDE DEF next, f, end, o
    <3>2. Written(WriteFrame(down[c], f), next, o)
      BY <1>a, <1>b, <2>1, <2>2, <2>3, <2>4, <3>1, FrameWritten
    <3>3. down' = [down EXCEPT ![c] = WriteFrame(down[c], f)]
      BY <2>5, WritesStep
    <3> QED
      BY <2>5, <3>1, <3>2, <3>3, WrittenStep, Zenon
  <2>6. CASE WriteError(c) /\ Goto(c, AfterResponse(out[c])) /\ UNCHANGED out
    <3> HIDE DEF f, end, o
    <3>1. Written(down[c], AfterResponse(out[c]), out[c])
      BY <1>b, <2>4, <2>6, ErrorWritten DEF WriteError
    <3>2. /\ down' = [down EXCEPT ![c] = down[c]] /\ out' = [out EXCEPT ![c] = out[c]]
          /\ pc' = [pc EXCEPT ![c] = AfterResponse(out[c])]
      BY <1>a, <2>6 DEF WriteError, Goto
    <3> QED
      BY <3>1, <3>2, WrittenStep, Zenon
  <2> QED
    BY <1>8, <2>5, <2>6 DEF SendData
<1>9. CASE ReadFails(c)
  <2>1. UNCHANGED down /\ pc[c] = "read"
    BY <1>9 DEF ReadFails
  <2>2. CASE Goto(c, "close") /\ UNCHANGED out
    BY <1>c, <2>1, <2>2 DEF Labels
  <2>3. CASE \E stream, status, last : Reply(c, Failure(stream, status, last))
    BY <1>b, <1>d, <2>1, <2>3, FailureWritten
  <2>4. (Goto(c, "close") /\ UNCHANGED out) \/ Reply(c, Failure(1, 400, TRUE))
    BY <1>9 DEF ReadFails
  <2> QED
    BY <2>2, <2>3, <2>4, ZenonT(30)
<1>10. CASE Close(c)
  <2>1. PICK ch \in ClosedByWriter(down[c], CanRead(up[c])) : down' = [down EXCEPT ![c] = ch]
    BY <1>10 DEF Close
  <2>2. pc[c] = "close" /\ pc' = [pc EXCEPT ![c] = "done"] /\ UNCHANGED out
    BY <1>10 DEF Close, Goto, local
  <2>3. Written(ch, "close", out[c])
    <3>1. CASE ch \in Broken(down[c])
      <4>1. PICK n \in 0..Len(down[c].q) : ch = [q |-> SubSeq(down[c].q, 1, n), end |-> "reset"]
        BY <3>1 DEF Broken
      <4>2. ch.q = SubSeq(down[c].q, 1, n) /\ ch.end # "open"
        BY <4>1
      <4> QED
        BY <1>a, <1>b, <2>2, <4>2, ClosedWritten
    <3>2. CASE ch = [down[c] EXCEPT !.end = "eof"]
      <4>1. ch.q = down[c].q /\ ch.end # "open" /\ 0 \in 0..Len(down[c].q)
        BY <1>a, <3>2 DEF Chan
      <4> QED
        BY <1>a, <1>b, <2>2, <4>1, ClosedWritten
    <3>3. CASE ch = down[c]
      BY <1>b, <2>2, <3>3
    <3> QED
      BY <2>1, <3>1, <3>2, <3>3 DEF ClosedByWriter
  <2>4. Written(ch, "done", out[c])
    BY <2>3, BetweenResponses
  <2> QED
    BY <1>a, <2>1, <2>2, <2>4, WrittenStep
<1> QED
  BY <1>1, <1>2, <1>3, <1>4, <1>5, <1>6, <1>7, <1>8, <1>9, <1>10 DEF Handle

LEMMA PeerWritten ==
  ASSUME TypeOK, AllWritten, NEW c \in Conns, PeerSend(c) \/ PeerCut(c) \/ PeerGone(c) \/ Break(c)
  PROVE  AllWritten'
<1>a. /\ down[c] \in Chan(AnyFrame) /\ 0 \in 0..Len(down[c].q)
      /\ pc = [pc EXCEPT ![c] = pc[c]] /\ out = [out EXCEPT ![c] = out[c]]
  BY HandlerFacts DEF Chan
<1>b. Written(down[c], pc[c], out[c])
  BY DEF AllWritten
<1>c. UNCHANGED <<pc, out>>
  BY DEF PeerSend, PeerCut, PeerGone, Break, local
<1>d. pc' = [pc EXCEPT ![c] = pc[c]] /\ out' = [out EXCEPT ![c] = out[c]]
  BY <1>a, <1>c
<1>1. CASE PeerSend(c) \/ PeerCut(c)
  BY <1>1, <1>c DEF PeerSend, PeerCut, AllWritten
<1>2. CASE PeerGone(c)
  <2>1. down[c].end = "open" /\ down' = [down EXCEPT ![c] = [down[c] EXCEPT !.end = "gone"]]
    BY <1>2 DEF PeerGone, ClosedByReader
  <2>2. Written([down[c] EXCEPT !.end = "gone"], pc[c], out[c])
    BY <1>a, <1>b, ClosedWritten DEF Chan
  <2> QED
    BY <1>d, <2>1, <2>2, WrittenStep, Zenon
<1>3. CASE Break(c)
  <2>1. down' = [down EXCEPT ![c] = [down[c] EXCEPT !.end = "reset"]]
    BY <1>3 DEF Break
  <2>2. Written([down[c] EXCEPT !.end = "reset"], pc[c], out[c])
    BY <1>a, <1>b, ClosedWritten DEF Chan
  <2> QED
    BY <1>d, <2>1, <2>2, WrittenStep, Zenon
<1> QED
  BY <1>1, <1>2, <1>3

LEMMA AlwaysWritten == Spec => []AllWritten
<1>1. Init => AllWritten
  <2> SUFFICES ASSUME Init, NEW c \in Conns PROVE Written(down[c], pc[c], out[c])
    BY DEF AllWritten
  <2>1. down[c].q = <<>> /\ pc[c] = "none" /\ Len(down[c].q) = 0
    BY DEF Init, InitServer, Fresh
  <2> QED
    BY <2>1 DEF Written, Contiguous
<1>2. TypeOK /\ AllWritten /\ [Next]_peerVars => AllWritten'
  <2> SUFFICES ASSUME TypeOK, AllWritten, [Next]_peerVars PROVE AllWritten'
    OBVIOUS
  <2>1. CASE UNCHANGED <<down, pc, out>>
    BY <2>1 DEF AllWritten
  <2>2. ASSUME NEW c \in Conns, Handler(c) PROVE AllWritten'
    BY <2>2, HandlerWritten DEF Handler
  <2>3. ASSUME NEW c \in Conns, PeerSend(c) \/ PeerCut(c) \/ PeerGone(c) \/ Break(c)
        PROVE  AllWritten'
    BY <2>3, PeerWritten
  <2>4. CASE Edit \/ Terminated \/ UNCHANGED peerVars
    BY <2>1, <2>4 DEF Edit, Terminated, peerVars, vars, local
  <2> QED
    BY <2>2, <2>3, <2>4 DEF Next
<1> QED
  BY <1>1, <1>2, TypeCorrect, PTL DEF Spec

\* ResponsesContiguous of BhttpServerPeer: what a handler has written is at
\* every moment a sequence of whole responses, the last one perhaps unfinished.
THEOREM ResponsesAreContiguous == Spec => []ResponsesContiguous
<1>1. AllWritten => ResponsesContiguous
  BY DEF AllWritten, Written, ResponsesContiguous
<1> QED
  BY <1>1, AlwaysWritten, PTL

-----------------------------------------------------------------------------
(* When handlers end                                                       *)

\* Frames taken of those offered.
Taken(off, ch) == Len(off) - Len(ch.q)

Finished == {"close", "done"}
NoMore(ch) == ch.q = <<>> /\ ch.end \in Cuts \cup {"reset"}

\* The frames still in the channel are the last ones offered, a GOAWAY was
\* taken last if at all, and a response that is to be the handler's last has
\* its reason in the channel.
ObeysFor(n, off, ch, label, o) ==
  /\ n \in Nat
  /\ \A i \in 1..Len(ch.q) : ch.q[i] = off[n + i]
  /\ \A i \in 1..n : off[i].type = "GOAWAY" => i = n /\ label \in Finished
  /\ label \in Finished => (n # 0 /\ off[n].type = "GOAWAY") \/ NoMore(ch)
  /\ label \in {"headers", "data"} /\ o.last => NoMore(ch)
  /\ ch.end = "gone" => label = "done"

Obeys(off, ch, label, o) == ObeysFor(Taken(off, ch), off, ch, label, o)

LEMMA PrefixFacts ==
  ASSUME NEW S, NEW s \in Seq(S), NEW k \in 0..Len(s)
  PROVE  /\ SubSeq(s, 1, k) \in Seq(S) /\ Len(SubSeq(s, 1, k)) = k
         /\ \A i \in 1..k : SubSeq(s, 1, k)[i] = s[i]
<1>1. \A i \in 1..k : s[i] \in S
  OBVIOUS
<1> QED
  BY <1>1, SubSeqProperties

AllObey == \A c \in Conns : Obeys(offered[c], up[c], pc[c], out[c])

LEMMA Untaken ==
  ASSUME NEW off \in Seq(Offers), NEW ch \in Chan(Offers)
  PROVE  SubSeq(off, 1, Len(off) - Len(ch.q) + Len(ch.q)) = off
<1>1. Len(off) \in Nat /\ Len(ch.q) \in Nat
  BY DEF Chan
<1>2. \A i, j \in Nat : i - j + j = i
  OBVIOUS
<1>3. SubSeq(off, 1, Len(off)) = off
  OBVIOUS
<1> QED
  BY <1>1, <1>2, <1>3

\* A step that takes no frame.
LEMMA ObeysNext ==
  ASSUME NEW off \in Seq(Offers), NEW ch \in Chan(Offers), NEW label, NEW o, Obeys(off, ch, label, o),
         label \notin Finished, NEW next, NEW p, next # "done", next = "close" => NoMore(ch),
         next \in {"headers", "data"} /\ p.last => NoMore(ch)
  PROVE  Obeys(off, ch, next, p)
BY DEF Obeys, ObeysFor, Finished

\* A step that takes one.
LEMMA ObeysTake ==
  ASSUME NEW off \in Seq(Offers), NEW ch \in Chan(Offers), NEW o, Obeys(off, ch, "read", o),
         CanRead(ch), NEW next, NEW p, next # "done", next = "close" <=> Head(ch.q).type = "GOAWAY",
         next \in {"headers", "data"} => ~p.last
  PROVE  Obeys(off, ReadFrame(ch), next, p)
<1> DEFINE n == Taken(off, ch)
           b == ReadFrame(ch)
<1>1. ch.q \in Seq(Offers) /\ ch.q # <<>> /\ Len(ch.q) \in Nat \ {0} /\ Len(off) \in Nat
  BY DEF CanRead, Chan
<1>2. b.q = Tail(ch.q) /\ b.end = ch.end
  BY DEF ReadFrame, Chan
<1>3. /\ Len(b.q) = Len(ch.q) - 1
      /\ \A i \in 1..Len(b.q) : b.q[i] = ch.q[i + 1]
      /\ Head(ch.q) = ch.q[1]
  BY <1>1, <1>2
<1>4. n \in Nat /\ Taken(off, b) = n + 1 /\ n = Len(off) - Len(ch.q)
  BY <1>1, <1>3 DEF Obeys, ObeysFor, Taken
<1>5. off[n + 1] = Head(ch.q)
  <2>1. 1 \in 1..Len(ch.q)
    BY <1>1
  <2>2. \A i \in 1..Len(ch.q) : ch.q[i] = off[n + i]
    BY DEF Obeys, ObeysFor
  <2> QED
    BY <1>3, <2>1, <2>2
<1>6. \A i \in 1..Len(b.q) : b.q[i] = off[(n + 1) + i]
  <2> SUFFICES ASSUME NEW i \in 1..Len(b.q) PROVE b.q[i] = off[(n + 1) + i]
    OBVIOUS
  <2>1. i + 1 \in 1..Len(ch.q) /\ n + (i + 1) = (n + 1) + i
    BY <1>1, <1>3, <1>4
  <2>2. ch.q[i + 1] = off[n + (i + 1)]
    BY <2>1 DEF Obeys, ObeysFor
  <2> QED
    BY <1>3, <2>1, <2>2
<1>7. \A i \in 1..n : off[i].type # "GOAWAY"
  BY DEF Obeys, ObeysFor, Finished
<1>8. \A i \in 1..(n + 1) : off[i].type = "GOAWAY" => i = n + 1 /\ next \in Finished
  <2> SUFFICES ASSUME NEW i \in 1..(n + 1), off[i].type = "GOAWAY" PROVE i = n + 1 /\ next \in Finished
    OBVIOUS
  <2>1. \A k \in Nat : \A j \in 1..(k + 1) : j = k + 1 \/ j \in 1..k
    OBVIOUS
  <2> HIDE DEF n, b
  <2>2. i = n + 1 \/ i \in 1..n
    BY <1>4, <2>1
  <2>3. i = n + 1
    BY <1>7, <2>2, Zenon
  <2> QED
    BY <1>5, <2>3, Zenon DEF Finished
<1>9. next \in Finished => off[n + 1].type = "GOAWAY"
  BY <1>5 DEF Finished
<1>10. ch.end # "gone" /\ n + 1 # 0
  BY <1>4 DEF Obeys, ObeysFor
<1>11. ASSUME NEW t, t = n + 1 PROVE ObeysFor(t, off, b, next, p)
  <2> HIDE DEF n, b
  <2>1. t \in Nat /\ t # 0
    BY <1>4, <1>11
  <2> QED
    BY <1>2, <1>6, <1>8, <1>9, <1>10, <1>11, <2>1 DEF ObeysFor
<1> QED
  BY <1>4, <1>11 DEF Obeys

\* A step of the peer that sends.
LEMMA ObeysSend ==
  ASSUME NEW off \in Seq(Offers), NEW ch \in Chan(Offers), NEW label, NEW o, Obeys(off, ch, label, o),
         ch.end = "open", NEW f \in Offers
  PROVE  Obeys(Append(off, f), WriteFrame(ch, f), label, o)
<1> DEFINE n == Taken(off, ch)
           b == WriteFrame(ch, f)
           after == Append(off, f)
<1>1. ch.q \in Seq(Offers) /\ Len(ch.q) \in Nat /\ Len(off) \in Nat
  BY DEF Chan
<1>2. b.q = Append(ch.q, f) /\ b.end = "open"
  BY DEF WriteFrame, Chan
<1>3. /\ Len(b.q) = Len(ch.q) + 1 /\ Len(after) = Len(off) + 1
      /\ \A i \in 1..Len(ch.q) : b.q[i] = ch.q[i]
      /\ \A i \in 1..Len(off) : after[i] = off[i]
      /\ b.q[Len(ch.q) + 1] = f /\ after[Len(off) + 1] = f
  BY <1>1, <1>2
<1>4. n \in Nat /\ Taken(after, b) = n /\ n = Len(off) - Len(ch.q)
  BY <1>1, <1>3 DEF Obeys, ObeysFor, Taken
<1>5. \A i \in 1..Len(b.q) : b.q[i] = after[n + i]
  <2> SUFFICES ASSUME NEW i \in 1..Len(b.q) PROVE b.q[i] = after[n + i]
    OBVIOUS
  <2>1. CASE i = Len(ch.q) + 1
    BY <1>1, <1>3, <1>4, <2>1
  <2>2. CASE i # Len(ch.q) + 1
    <3>1. i \in 1..Len(ch.q) /\ n + i \in 1..Len(off)
      BY <1>1, <1>3, <1>4, <2>2
    <3>2. ch.q[i] = off[n + i]
      BY <3>1 DEF Obeys, ObeysFor
    <3> QED
      BY <1>3, <3>1, <3>2
  <2> QED
    BY <2>1, <2>2
<1>6. \A i \in 1..n : after[i] = off[i]
  BY <1>1, <1>3, <1>4
<1>7. ~NoMore(ch)
  BY DEF NoMore, Cuts
<1>8. n # 0 => n \in 1..n
  BY <1>4
<1> HIDE DEF after, b
<1>9. \A i \in 1..n : after[i].type = "GOAWAY" => i = n /\ label \in Finished
  BY <1>6 DEF Obeys, ObeysFor
<1>10. label \in Finished => n # 0 /\ after[n].type = "GOAWAY"
  BY <1>6, <1>7, <1>8 DEF Obeys, ObeysFor
<1>11. label \in {"headers", "data"} => ~o.last
  BY <1>7 DEF Obeys, ObeysFor
<1> HIDE DEF n
<1>12. ObeysFor(n, after, b, label, o)
  BY <1>2, <1>4, <1>5, <1>9, <1>10, <1>11 DEF ObeysFor
<1> QED
  BY <1>4, <1>12 DEF Obeys, after, b

\* What is left of the input when it ends, in any way.
LEMMA ObeysEnds ==
  ASSUME NEW off \in Seq(Offers), NEW ch \in Chan(Offers), NEW label, NEW o, Obeys(off, ch, label, o),
         NEW m \in 0..Len(ch.q), NEW b \in Chan(Offers), b.q = SubSeq(ch.q, 1, m),
         NEW next, next = label \/ (label = "close" /\ next = "done"),
         \/ b.end \in Cuts \cup {"reset"}
         \/ b.end = ch.end
         \/ next = "done" /\ b.end = "gone" /\ ~NoMore(ch)
  PROVE  Obeys(SubSeq(off, 1, Len(off) - Len(ch.q) + Len(b.q)), b, next, o)
<1> DEFINE n == Taken(off, ch)
           after == SubSeq(off, 1, Len(off) - Len(ch.q) + Len(b.q))
<1>1. ch.q \in Seq(Offers) /\ Len(ch.q) \in Nat /\ Len(off) \in Nat
  BY DEF Chan
<1>2. Len(b.q) = m /\ \A i \in 1..m : b.q[i] = ch.q[i]
  BY <1>1
<1>3. n \in Nat /\ n = Len(off) - Len(ch.q) /\ n + m \in 0..Len(off)
  BY <1>1 DEF Obeys, ObeysFor, Taken
<1>4. after = SubSeq(off, 1, n + m)
  <2>1. Len(off) - Len(ch.q) + Len(b.q) = n + m
    BY <1>2, <1>3
  <2> QED
    BY <2>1
<1>5. Len(after) = n + m /\ \A i \in 1..(n + m) : after[i] = off[i]
  <2> HIDE DEF n, after
  <2>1. n + m \in 0..Len(off)
    BY <1>3
  <2> HIDE <1>3
  <2> QED
    BY <1>4, <2>1, PrefixFacts, SMTT(20)
<1>6. Taken(after, b) = n
  <2>1. Taken(after, b) = (n + m) - m
    BY <1>2, <1>5 DEF Taken
  <2>2. m \in Nat /\ n \in Nat
    BY <1>1, <1>3
  <2>3. \A i, j \in Nat : (i + j) - j = i
    OBVIOUS
  <2> HIDE DEF n, after
  <2> QED
    BY <2>1, <2>2, <2>3
<1>7. \A i \in 1..Len(b.q) : b.q[i] = after[n + i]
  <2> SUFFICES ASSUME NEW i \in 1..m PROVE b.q[i] = after[n + i]
    BY <1>2
  <2>1. n + i \in 1..(n + m) /\ i \in 1..Len(ch.q)
    BY <1>1, <1>3
  <2>2. ch.q[i] = off[n + i]
    BY <2>1 DEF Obeys, ObeysFor
  <2> QED
    BY <1>2, <1>5, <2>1, <2>2
<1>8. \A i \in 1..n : after[i] = off[i]
  <2>1. \A i \in 1..n : i \in 1..(n + m)
    <3> HIDE DEF n
    <3> QED BY <1>3
  <2> QED
    BY <1>5, <2>1
<1>9. n # 0 => n \in 1..n
  BY <1>3
<1>10. NoMore(ch) => m = 0
  BY <1>1 DEF NoMore
<1>11. NoMore(ch) => NoMore(b)
  <2> SUFFICES ASSUME NoMore(ch) PROVE NoMore(b)
    OBVIOUS
  <2>1. b.q = <<>>
    BY <1>2, <1>10 DEF Chan
  <2> QED
    BY <2>1 DEF NoMore
<1> HIDE DEF after
<1>12. \A i \in 1..n : after[i].type = "GOAWAY" => i = n /\ next \in Finished
  BY <1>8 DEF Obeys, ObeysFor, Finished
<1>13. next \in Finished => \/ n # 0 /\ after[n].type = "GOAWAY"
                            \/ NoMore(b)
  BY <1>8, <1>9, <1>11 DEF Obeys, ObeysFor, Finished
<1>14. next \in {"headers", "data"} /\ o.last => NoMore(b)
  BY <1>11 DEF Obeys, ObeysFor
<1>15. b.end = "gone" => next = "done"
  BY DEF Obeys, ObeysFor, Cuts
<1> HIDE DEF n
<1>16. ObeysFor(n, after, b, next, o)
  BY <1>3, <1>7, <1>12, <1>13, <1>14, <1>15 DEF ObeysFor
<1> QED
  BY <1>6, <1>16 DEF Obeys, after

\* A step of c that leaves the other connections alone.
LEMMA ObeyStep ==
  ASSUME TypeOK, AllObey, NEW c \in Conns, Obeys(offered'[c], up'[c], pc'[c], out'[c]),
         \A d \in Conns \ {c} : UNCHANGED <<offered[d], up[d], pc[d], out[d]>>
  PROVE  AllObey'
<1> SUFFICES ASSUME NEW d \in Conns PROVE Obeys(offered'[d], up'[d], pc'[d], out'[d])
  BY DEF AllObey, Obeys, ObeysFor, Taken, NoMore
<1> QED
  BY DEF AllObey

\* The handler goes on to another label, and to another response perhaps.
LEMMA ObeyGoes ==
  ASSUME TypeOK, AllObey, NEW c \in Conns, pc[c] \notin Finished, NEW next, NEW p,
         next # "done", next = "close" => NoMore(up[c]),
         next \in {"headers", "data"} /\ p.last => NoMore(up[c]),
         UNCHANGED <<up, offered>>, pc' = [pc EXCEPT ![c] = next], out' = [out EXCEPT ![c] = p]
  PROVE  AllObey'
<1>1. offered[c] \in Seq(Offers) /\ up[c] \in Chan(Offers) /\ Obeys(offered[c], up[c], pc[c], out[c])
  BY HandlerFacts DEF TypeOK, AllObey
<1>2. Obeys(offered[c], up[c], next, p)
  BY <1>1, ObeysNext
<1>3. /\ pc'[c] = next /\ out'[c] = p /\ up'[c] = up[c] /\ offered'[c] = offered[c]
      /\ \A d \in Conns \ {c} : UNCHANGED <<offered[d], up[d], pc[d], out[d]>>
  BY DEF TypeOK
<1> QED
  BY <1>2, <1>3, ObeyStep

\* The handler takes a frame.
LEMMA ObeyTakes ==
  ASSUME TypeOK, AllObey, NEW c \in Conns, NEW type, Takes(c, type), NEW next, NEW p,
         next # "done", next = "close" => type = "GOAWAY", type = "GOAWAY" => next = "close",
         next \in {"headers", "data"} => ~p.last,
         UNCHANGED offered, pc' = [pc EXCEPT ![c] = next], out' = [out EXCEPT ![c] = p]
  PROVE  AllObey'
<1>1. offered[c] \in Seq(Offers) /\ up[c] \in Chan(Offers) /\ Obeys(offered[c], up[c], pc[c], out[c])
  BY HandlerFacts DEF TypeOK, AllObey
<1>2. pc[c] = "read" /\ CanRead(up[c]) /\ Head(up[c].q).type = type
  BY DEF Takes
<1>3. Obeys(offered[c], ReadFrame(up[c]), next, p)
  BY <1>1, <1>2, ObeysTake
<1>4. /\ pc'[c] = next /\ out'[c] = p /\ up'[c] = ReadFrame(up[c]) /\ offered'[c] = offered[c]
      /\ \A d \in Conns \ {c} : UNCHANGED <<offered[d], up[d], pc[d], out[d]>>
  BY DEF TypeOK, Takes
<1> QED
  BY <1>3, <1>4, ObeyStep

LEMMA HandlerObeys ==
  ASSUME TypeOK, AllObey, NEW c \in Conns, Handler(c)
  PROVE  AllObey'
<1>a. /\ up[c] \in Chan(Offers) /\ OutgoingOK(out[c]) /\ Obeys(offered[c], up[c], pc[c], out[c])
      /\ out = [out EXCEPT ![c] = out[c]] /\ pc = [pc EXCEPT ![c] = pc[c]] /\ UNCHANGED offered
  BY HandlerFacts DEF AllObey, Handler
<1>b. ASSUME NEW o, Reply(c, o) PROVE out' = [out EXCEPT ![c] = o] /\ pc' = [pc EXCEPT ![c] = "headers"]
  BY <1>b DEF Reply, Goto
<1>c. \A stream, status : ~Failure(stream, status, FALSE).last
  BY DEF Failure
<1>d. \A stream, body, head : ~Success(stream, body, head).last
  BY DEF Success
<1>1. CASE Accept(c)
  <2>1. pc[c] = "none" /\ pc' = [pc EXCEPT ![c] = "read"] /\ UNCHANGED <<up, out>>
    BY <1>1 DEF Accept, Goto, local
  <2>2. pc[c] \notin Finished /\ out' = [out EXCEPT ![c] = out[c]]
    BY <1>a, <2>1 DEF Finished
  <2> QED
    BY <1>a, <2>1, <2>2, ObeyGoes
<1>2. CASE SkipUnknown(c) \/ IgnoreData(c)
  <2>1. PICK type \in {"UNKNOWN", "DATA"} : Takes(c, type)
    BY <1>2 DEF SkipUnknown, IgnoreData
  <2>2. pc[c] = "read" /\ UNCHANGED <<pc, out>>
    BY <1>2, <2>1 DEF SkipUnknown, IgnoreData, Takes, local
  <2>3. pc' = [pc EXCEPT ![c] = "read"] /\ out' = [out EXCEPT ![c] = out[c]]
    BY <1>a, <2>2
  <2>4. "read" \notin {"done", "close", "headers", "data"} /\ type # "GOAWAY"
    OBVIOUS
  <2> QED
    BY <1>a, <2>1, <2>3, <2>4, ObeyTakes, Zenon
<1>3. CASE TakePing(c)
  <2>1. /\ Takes(c, "PING") /\ pc' = [pc EXCEPT ![c] = "pong"]
        /\ out' = [out EXCEPT ![c] = out[c]]
    BY <1>3, <1>a DEF TakePing, Goto
  <2>2. "pong" \notin {"done", "close", "headers", "data"} /\ "PING" # "GOAWAY"
    OBVIOUS
  <2> QED
    BY <1>a, <2>1, <2>2, ObeyTakes, Zenon
<1>4. CASE TakeGoAway(c)
  <2>1. /\ Takes(c, "GOAWAY") /\ pc' = [pc EXCEPT ![c] = "close"]
        /\ out' = [out EXCEPT ![c] = out[c]]
    BY <1>4, <1>a DEF TakeGoAway, Goto, local
  <2> QED
    BY <1>a, <2>1, ObeyTakes
<1>5. CASE TakeHeaders(c)
  <2>1. Takes(c, "HEADERS")
    BY <1>5 DEF TakeHeaders
  <2>2. CASE pc' = [pc EXCEPT ![c] = "stat"] /\ UNCHANGED out
    <3>1. out' = [out EXCEPT ![c] = out[c]]
      BY <1>a, <2>2
    <3>2. "stat" \notin {"done", "close", "headers", "data"} /\ "HEADERS" # "GOAWAY"
      OBVIOUS
    <3> QED
      BY <1>a, <2>1, <2>2, <3>1, <3>2, ObeyTakes, Zenon
  <2>3. ASSUME NEW o, Reply(c, o), ~o.last PROVE AllObey'
    <3>1. out' = [out EXCEPT ![c] = o] /\ pc' = [pc EXCEPT ![c] = "headers"]
      BY <1>b, <2>3
    <3>2. "headers" # "done" /\ "headers" # "close" /\ "HEADERS" # "GOAWAY"
      OBVIOUS
    <3> QED
      BY <1>a, <2>1, <2>3, <3>1, <3>2, ObeyTakes, ZenonT(30)
  <2> QED
    BY <1>5, <1>c, <2>2, <2>3 DEF TakeHeaders, Goto
<1>6. CASE StatPath(c) \/ StatIndex(c) \/ ReadFile(c)
  <2>1. pc[c] \notin Finished /\ UNCHANGED <<up, offered>>
    BY <1>6, <1>a DEF StatPath, StatIndex, ReadFile, Finished
  <2>2. ASSUME NEW next \in {"index", "open"}, Goto(c, next), UNCHANGED out PROVE AllObey'
    <3>1. pc' = [pc EXCEPT ![c] = next] /\ out' = [out EXCEPT ![c] = out[c]]
      BY <1>a, <2>2 DEF Goto
    <3>2. next \notin {"done", "close", "headers", "data"}
      BY <2>2
    <3> QED
      BY <2>1, <3>1, <3>2, ObeyGoes
  <2>3. ASSUME NEW o, Reply(c, o), ~o.last PROVE AllObey'
    BY <1>b, <2>1, <2>3, ObeyGoes
  <2>4. CASE StatPath(c) \/ StatIndex(c)
    <3>1. \/ Goto(c, "index") /\ UNCHANGED out
          \/ Goto(c, "open") /\ UNCHANGED out
          \/ Reply(c, Failure(req[c].stream, 404, FALSE))
          \/ Reply(c, Failure(req[c].stream, 500, FALSE))
      BY <2>4 DEF StatPath, StatIndex
    <3> QED
      BY <1>c, <2>2, <2>3, <3>1, ZenonT(30)
  <2>5. CASE ReadFile(c)
    <3>1. \/ Reply(c, Success(req[c].stream, fs[req[c].path].data, req[c].head))
          \/ Reply(c, Failure(req[c].stream, 500, FALSE))
      BY <2>5 DEF ReadFile
    <3> QED
      BY <1>c, <1>d, <2>3, <3>1, Zenon
  <2> QED
    BY <1>6, <2>4, <2>5
<1>7. CASE Pong(c) \/ SendHeaders(c) \/ SendData(c)
  <2>1. pc[c] \in {"pong", "headers", "data"} /\ pc[c] \notin Finished /\ UNCHANGED <<up, offered>>
    BY <1>7, <1>a DEF Pong, SendHeaders, SendData, Writes, WriteError, Finished
  <2>2. pc[c] # "pong" /\ out[c].last => NoMore(up[c])
    BY <1>a, <2>1 DEF Obeys, ObeysFor
  <2>3. PICK p : out' = [out EXCEPT ![c] = p] /\ p.last = out[c].last
    <3>1. CASE UNCHANGED out
      BY <1>a, <3>1
    <3>2. CASE out' = [out EXCEPT ![c].off = ChunkEnd(out[c])]
      <4>1. /\ out' = [out EXCEPT ![c] = [out[c] EXCEPT !.off = ChunkEnd(out[c])]]
            /\ [out[c] EXCEPT !.off = ChunkEnd(out[c])].last = out[c].last
        BY <1>a, <3>2 DEF OutgoingOK, Outgoing
      <4> QED
        BY <4>1
    <3> QED
      BY <1>7, <3>1, <3>2 DEF Pong, SendHeaders, SendData
  <2>4. PICK next \in {"read", "data", "close"} :
          /\ pc' = [pc EXCEPT ![c] = next]
          /\ next # "read" => pc[c] # "pong"
          /\ next = "close" => out[c].last
    BY <1>7 DEF Pong, SendHeaders, SendData, Goto, AfterResponse
  <2> QED
    BY <2>1, <2>2, <2>3, <2>4, ObeyGoes
<1>8. CASE ReadFails(c)
  <2>1. pc[c] = "read" /\ pc[c] \notin Finished /\ UNCHANGED <<up, offered>>
    BY <1>8, <1>a DEF ReadFails, Finished
  <2>2. NoMore(up[c])
    <3>1. up[c].q = <<>> /\ up[c].end \notin {"none", "open", "gone"} /\ up[c].end \in Ends
      BY <1>8, <1>a, <2>1 DEF ReadFails, AtEnd, Obeys, ObeysFor, Chan
    <3> QED
      BY <3>1 DEF NoMore, Ends
  <2>3. CASE Goto(c, "close") /\ UNCHANGED out
    <3>1. pc' = [pc EXCEPT ![c] = "close"] /\ out' = [out EXCEPT ![c] = out[c]]
      BY <1>a, <2>3 DEF Goto
    <3> QED
      BY <2>1, <2>2, <3>1, ObeyGoes
  <2>4. CASE Reply(c, Failure(1, 400, TRUE))
    BY <1>b, <2>1, <2>2, <2>4, ObeyGoes, ZenonT(30)
  <2> QED
    BY <1>8, <2>3, <2>4 DEF ReadFails
<1>9. CASE Close(c)
  <2> DEFINE b == ClosedByReader(up[c])
             m == Len(up[c].q)
  <2>1. pc[c] = "close" /\ up' = [up EXCEPT ![c] = b] /\ pc' = [pc EXCEPT ![c] = "done"] /\ UNCHANGED out
    BY <1>9 DEF Close, Goto, local
  <2>2. b \in Chan(Offers) /\ m \in 0..Len(up[c].q) /\ b.q = SubSeq(up[c].q, 1, m) /\ b.q = up[c].q
    <3>1. b \in Chan(Offers) /\ b.q = up[c].q
      BY <1>a DEF ClosedByReader, Chan, Ends, Cuts
    <3>2. up[c].q = SubSeq(up[c].q, 1, m) /\ m \in 0..Len(up[c].q)
      BY <1>a, Unchanged DEF Chan
    <3> QED
      BY <3>1, <3>2
  <2>3. b.end = up[c].end \/ (b.end = "gone" /\ ~NoMore(up[c]))
    BY <1>a DEF ClosedByReader, NoMore, Cuts, Chan
  <2>4. /\ offered[c] \in Seq(Offers)
        /\ SubSeq(offered[c], 1, Len(offered[c]) - Len(up[c].q) + Len(b.q)) = offered[c]
    <3>1. offered[c] \in Seq(Offers)
      BY DEF TypeOK
    <3>2. SubSeq(offered[c], 1, Len(offered[c]) - Len(up[c].q) + Len(up[c].q)) = offered[c]
      BY <1>a, <3>1, Untaken
    <3> HIDE DEF b, m
    <3> QED
      BY <2>2, <3>1, <3>2
  <2> HIDE DEF b
  <2>5. Obeys(SubSeq(offered[c], 1, Len(offered[c]) - Len(up[c].q) + Len(b.q)), b, "done", out[c])
    BY <1>a, <2>1, <2>2, <2>3, <2>4, ObeysEnds
  <2>6. Obeys(offered[c], b, "done", out[c])
    BY <2>4, <2>5
  <2>7. /\ pc'[c] = "done" /\ out'[c] = out[c] /\ up'[c] = b /\ offered'[c] = offered[c]
        /\ \A d \in Conns \ {c} : UNCHANGED <<offered[d], up[d], pc[d], out[d]>>
    BY <1>a, <2>1 DEF TypeOK
  <2> QED
    BY <2>6, <2>7, ObeyStep
<1> QED
  BY <1>1, <1>2, <1>3, <1>4, <1>5, <1>6, <1>7, <1>8, <1>9 DEF Handler, Handle

LEMMA PeerObeys ==
  ASSUME TypeOK, AllObey, NEW c \in Conns, PeerSend(c) \/ PeerCut(c) \/ PeerGone(c) \/ Break(c)
  PROVE  AllObey'
<1>a. /\ up[c] \in Chan(Offers) /\ offered[c] \in Seq(Offers) /\ Obeys(offered[c], up[c], pc[c], out[c])
      /\ UNCHANGED <<pc, out>>
  BY HandlerFacts DEF AllObey, TypeOK, PeerSend, PeerCut, PeerGone, Break, local
<1>1. CASE PeerSend(c)
  <2>1. PICK f \in Offers : /\ up' = [up EXCEPT ![c] = WriteFrame(up[c], f)]
                            /\ offered' = [offered EXCEPT ![c] = Append(offered[c], f)]
    BY <1>1 DEF PeerSend
  <2>2. up[c].end = "open"
    BY <1>1 DEF PeerSend
  <2>3. Obeys(Append(offered[c], f), WriteFrame(up[c], f), pc[c], out[c])
    BY <1>a, <2>2, ObeysSend
  <2>4. /\ up'[c] = WriteFrame(up[c], f) /\ offered'[c] = Append(offered[c], f)
        /\ \A d \in Conns \ {c} : UNCHANGED <<offered[d], up[d], pc[d], out[d]>>
    BY <1>a, <2>1 DEF TypeOK
  <2> QED
    BY <1>a, <2>3, <2>4, ObeyStep
<1>2. CASE PeerCut(c) \/ PeerGone(c)
  <2>1. PICK e \in Cuts \cup {up[c].end} : up' = [up EXCEPT ![c] = [up[c] EXCEPT !.end = e]]
    <3>1. CASE PeerCut(c)
      BY <3>1 DEF PeerCut
    <3>2. CASE PeerGone(c)
      <4> DEFINE e == IF up[c].end = "open" THEN "eof" ELSE up[c].end
      <4>1. up' = [up EXCEPT ![c] = [up[c] EXCEPT !.end = e]]
        BY <3>2 DEF PeerGone
      <4>2. e \in Cuts \cup {up[c].end}
        BY DEF Cuts
      <4> HIDE DEF e
      <4> QED
        BY <4>1, <4>2
    <3> QED
      BY <1>2, <3>1, <3>2
  <2> DEFINE b == [up[c] EXCEPT !.end = e]
             m == Len(up[c].q)
  <2>2. b \in Chan(Offers) /\ b.q = up[c].q /\ b.end = e
    BY <1>a DEF Chan, Ends
  <2>3. up[c].q = SubSeq(up[c].q, 1, m) /\ m \in 0..Len(up[c].q)
    BY <1>a, Unchanged DEF Chan
  <2>4. SubSeq(offered[c], 1, Len(offered[c]) - Len(up[c].q) + Len(b.q)) = offered[c]
    BY <1>a, <2>2, Untaken
  <2> HIDE DEF b
  <2>5. Obeys(offered[c], b, pc[c], out[c])
    BY <1>a, <2>1, <2>2, <2>3, <2>4, ObeysEnds
  <2>6. UNCHANGED offered
    BY <1>2 DEF PeerCut, PeerGone
  <2>7. /\ up'[c] = b /\ offered'[c] = offered[c]
        /\ \A d \in Conns \ {c} : UNCHANGED <<offered[d], up[d], pc[d], out[d]>>
    BY <1>a, <2>1, <2>6 DEF TypeOK, b
  <2> QED
    BY <1>a, <2>5, <2>7, ObeyStep
<1>3. CASE Break(c)
  <2>1. PICK b \in Broken(up[c]) :
          /\ up' = [up EXCEPT ![c] = b]
          /\ offered' = [offered EXCEPT ![c] = SubSeq(offered[c], 1, Len(offered[c]) - Len(up[c].q) + Len(b.q))]
    BY <1>3 DEF Break
  <2>2. b \in Chan(Offers) /\ b.end = "reset"
    BY <1>a, BrokenType
  <2>3. PICK m \in 0..Len(up[c].q) : b.q = SubSeq(up[c].q, 1, m)
    BY <1>a, BrokenType
  <2>4. Obeys(SubSeq(offered[c], 1, Len(offered[c]) - Len(up[c].q) + Len(b.q)), b, pc[c], out[c])
    BY <1>a, <2>2, <2>3, ObeysEnds
  <2>5. /\ up'[c] = b
        /\ offered'[c] = SubSeq(offered[c], 1, Len(offered[c]) - Len(up[c].q) + Len(b.q))
        /\ \A d \in Conns \ {c} : UNCHANGED <<offered[d], up[d], pc[d], out[d]>>
    BY <1>a, <2>1 DEF TypeOK
  <2> QED
    BY <1>a, <2>4, <2>5, ObeyStep
<1> QED
  BY <1>1, <1>2, <1>3

LEMMA AlwaysObeys == Spec => []AllObey
<1>1. Init => AllObey
  <2> SUFFICES ASSUME Init, NEW c \in Conns PROVE Obeys(offered[c], up[c], pc[c], out[c])
    BY DEF AllObey
  <2>1. offered[c] = <<>> /\ up[c].q = <<>> /\ up[c].end = "open" /\ pc[c] = "none"
    BY DEF Init, InitServer, Fresh
  <2>2. Taken(offered[c], up[c]) = 0 /\ Len(up[c].q) = 0
    BY <2>1 DEF Taken
  <2> QED
    BY <2>1, <2>2 DEF Obeys, ObeysFor, Finished
<1>2. TypeOK /\ AllObey /\ [Next]_peerVars => AllObey'
  <2> SUFFICES ASSUME TypeOK, AllObey, [Next]_peerVars PROVE AllObey'
    OBVIOUS
  <2>1. CASE UNCHANGED <<up, offered, pc, out>>
    BY <2>1 DEF AllObey, Obeys, ObeysFor, Taken, NoMore
  <2>2. ASSUME NEW c \in Conns, Handler(c) PROVE AllObey'
    BY <2>2, HandlerObeys
  <2>3. ASSUME NEW c \in Conns, PeerSend(c) \/ PeerCut(c) \/ PeerGone(c) \/ Break(c)
        PROVE  AllObey'
    BY <2>3, PeerObeys
  <2>4. CASE Edit \/ Terminated \/ UNCHANGED peerVars
    BY <2>1, <2>4 DEF Edit, Terminated, peerVars, vars, local
  <2> QED
    BY <2>2, <2>3, <2>4 DEF Next
<1> QED
  BY <1>1, <1>2, TypeCorrect, PTL DEF Spec

\* ClosesOnlyWhenTold of BhttpServerPeer: whatever the requests, the tree and
\* the failures of writes, a handler ends only after a GOAWAY, which it takes
\* no frame after, or when its input has ended.
THEOREM HandlersEndWhenTold == Spec => []ClosesOnlyWhenTold
<1>1. TypeOK /\ AllObey => ClosesOnlyWhenTold
  <2> SUFFICES ASSUME TypeOK, AllObey, NEW c \in Conns
               PROVE  LET taken == TakenFrames(c)
                          told  == taken # <<>> /\ Last(taken).type = "GOAWAY" IN
                      /\ \A i \in 1..(Len(taken) - 1) : taken[i].type # "GOAWAY"
                      /\ pc[c] \in {"close", "done"} =>
                           told \/ (up[c].q = <<>> /\ up[c].end \in Cuts \cup {"reset"})
                      /\ told => pc[c] \in {"close", "done"}
    BY DEF ClosesOnlyWhenTold
  <2> DEFINE taken == TakenFrames(c)
             n     == Taken(offered[c], up[c])
  <2>1. offered[c] \in Seq(Offers) /\ up[c] \in Chan(Offers) /\ ObeysFor(n, offered[c], up[c], pc[c], out[c])
    BY HandlerFacts DEF TypeOK, AllObey, Obeys
  <2>2. n \in 0..Len(offered[c])
    <3>1. n \in Nat /\ Len(offered[c]) \in Nat /\ Len(up[c].q) \in Nat
      BY <2>1 DEF ObeysFor, Chan
    <3>2. n = Len(offered[c]) - Len(up[c].q)
      BY DEF Taken
    <3>3. \A i, j, k \in Nat : k = i - j => k \in 0..i
      OBVIOUS
    <3> HIDE DEF n
    <3> QED
      BY <3>1, <3>2, <3>3
  <2>3. taken = SubSeq(offered[c], 1, n)
    BY DEF TakenFrames, Taken
  <2>4. taken \in Seq(Offers) /\ Len(taken) = n /\ \A i \in 1..n : taken[i] = offered[c][i]
    <3> HIDE DEF n
    <3> QED BY <2>1, <2>2, <2>3, PrefixFacts
  <2> HIDE DEF n, taken
  <2>5. n \in Nat /\ (n # 0 => n \in 1..n) /\ (taken # <<>> <=> n # 0)
    BY <2>2, <2>4, EmptySeq
  <2>6. n # 0 => Last(taken) = offered[c][n]
    BY <2>4, <2>5 DEF Last
  <2>7. \A i \in 1..(n - 1) : i \in 1..n /\ i # n
    BY <2>5
  <2>8. \A i \in 1..(Len(taken) - 1) : taken[i].type # "GOAWAY"
    BY <2>1, <2>4, <2>7 DEF ObeysFor
  <2>9. pc[c] \in Finished => (taken # <<>> /\ Last(taken).type = "GOAWAY") \/ NoMore(up[c])
    BY <2>1, <2>5, <2>6 DEF ObeysFor
  <2>10. taken # <<>> /\ Last(taken).type = "GOAWAY" => pc[c] \in Finished
    BY <2>1, <2>5, <2>6 DEF ObeysFor
  <2> QED
    BY <2>8, <2>9, <2>10 DEF Finished, NoMore, taken
<1> QED
  BY <1>1, TypeCorrect, AlwaysObeys, PTL

-----------------------------------------------------------------------------
(* The frames of a response                                                *)

LEMMA ConcatType ==
  ASSUME NEW S, NEW s \in Seq(S), NEW t \in Seq(S)
  PROVE  s \o t \in Seq(S)
BY ConcatProperties

LEMMA SubSeqIn ==
  ASSUME NEW S, NEW s \in Seq(S), NEW m \in Nat, m >= 1, NEW n \in Nat, n <= Len(s)
  PROVE  SubSeq(s, m, n) \in Seq(S)
<1>1. \A i \in m..n : s[i] \in S
  OBVIOUS
<1> QED
  BY <1>1, SubSeqProperties

LEMMA OneElement ==
  ASSUME NEW S, NEW x \in S
  PROVE  <<x>> \in Seq(S)
OBVIOUS

\* The first of the frames left goes from the ones left to the ones written.
LEMMA ShiftOne ==
  ASSUME NEW S, NEW w \in Seq(S), NEW x \in S, NEW r \in Seq(S)
  PROVE  Append(w, x) \o r = w \o (<<x>> \o r)
<1>1. Append(w, x) = w \o <<x>>
  BY AppendIsConcat
<1>2. <<x>> \in Seq(S)
  BY OneElement
<1>3. (w \o <<x>>) \o r = w \o (<<x>> \o r)
  BY <1>2, ConcatAssociative
<1> QED
  BY <1>1, <1>3

LEMMA FirstOfRest ==
  ASSUME NEW S, NEW s \in Seq(S), NEW k \in 0..(Len(s) - 1)
  PROVE  SubSeq(s, k + 1, Len(s)) = <<s[k + 1]>> \o SubSeq(s, k + 1 + 1, Len(s))
<1>1. k + 1 \in 1..Len(s) /\ Len(s) \in (k + 1)..Len(s)
  OBVIOUS
<1> QED
  BY <1>1, SubSeqRecursiveFirst

\* A number of octets in full parts and a rest.
LEMMA Division ==
  ASSUME NEW x \in Nat, NEW y \in Nat \ {0}
  PROVE  x \div y \in Nat /\ y * (x \div y) <= x /\ x < y * (x \div y) + y
OBVIOUS

LEMMA PartsCount ==
  ASSUME NEW l \in Nat, NEW s \in Nat \ {0}, NEW n, n = (l + s - 1) \div s
  PROVE  n \in Nat /\ l <= n * s /\ n * s < l + s
<1> DEFINE a == l + s - 1
<1>1. a \in Nat
  OBVIOUS
<1>2. n \in Nat /\ s * n <= a /\ a < s * n + s
  <2> HIDE DEF a
  <2>1. n = a \div s
    BY DEF a
  <2> QED
    BY <1>1, <2>1, Division
<1>3. s * n = n * s /\ n * s \in Nat
  BY <1>2
<1> QED
  BY <1>2, <1>3

\* All parts but the last are full, and do not reach the end.
LEMMA PartsInside ==
  ASSUME NEW l \in Nat, NEW s \in Nat \ {0}, NEW n, n = (l + s - 1) \div s, NEW i \in 0..(n - 1)
  PROVE  i * s \in Nat /\ i * s < l
<1>1. n \in Nat /\ n * s < l + s
  BY PartsCount
<1>2. PICK d \in Nat : n = i + 1 + d
  <2>1. n - (i + 1) \in Nat /\ n = i + 1 + (n - (i + 1))
    BY <1>1
  <2> QED
    BY <2>1
<1>3. i \in Nat /\ d * s \in Nat /\ i * s \in Nat /\ n * s = i * s + s + d * s
  BY <1>2
<1> QED
  BY <1>1, <1>3

Size(o)  == IF o.status = 200 THEN ChunkSize ELSE Len(o.body)
Parts(o) == Chunks(o.stream, o.body, Size(o))

\* The handler has sent k of the parts, and not all.
IsAt(o, k) == k \in 0..(Len(Parts(o)) - 1) /\ o.off = k * Size(o)

LEMMA PartsFacts ==
  ASSUME NEW o, OutgoingOK(o), o.body # <<>>
  PROVE  /\ Size(o) \in Nat \ {0}
         /\ Len(Parts(o)) = (Len(o.body) + Size(o) - 1) \div Size(o)
         /\ Len(Parts(o)) \in Nat
         /\ \A i \in 1..Len(Parts(o)) :
              Parts(o)[i] = Frame("DATA", IF i = Len(Parts(o)) THEN {FlagEndStream} ELSE {},
                                  o.stream, NoHdr,
                                  SubSeq(o.body, (i - 1) * Size(o) + 1,
                                         IF i = Len(Parts(o)) THEN Len(o.body) ELSE i * Size(o)))
         /\ Parts(o) = [i \in 1..Len(Parts(o)) |-> Parts(o)[i]]
<1>1. o.body \in Seq(STRING) /\ Len(o.body) \in Nat \ {0}
  BY DEF OutgoingOK, Outgoing
<1>2. Size(o) \in Nat \ {0}
  BY <1>1, ServerAssumption DEF Size
<1> DEFINE n == (Len(o.body) + Size(o) - 1) \div Size(o)
           e(i) == Frame("DATA", IF i = n THEN {FlagEndStream} ELSE {}, o.stream, NoHdr,
                         SubSeq(o.body, (i - 1) * Size(o) + 1, IF i = n THEN Len(o.body) ELSE i * Size(o)))
<1>3. n \in Nat
  BY <1>1, <1>2, PartsCount
<1>4. Parts(o) = [i \in 1..n |-> e(i)]
  BY DEF Parts, Chunks
<1> HIDE DEF e, n
<1>5. Len(Parts(o)) = n /\ \A i \in 1..n : Parts(o)[i] = e(i)
  BY <1>3, <1>4
<1>6. Parts(o) = [i \in 1..n |-> Parts(o)[i]]
  BY <1>4
<1> QED
  BY <1>2, <1>3, <1>5, <1>6 DEF n, e

LEMMA PartsType ==
  ASSUME NEW o, OutgoingOK(o), o.body # <<>>
  PROVE  Parts(o) \in Seq(AnyFrame)
<1> DEFINE n == Len(Parts(o))
           s == Size(o)
<1>0. /\ o.body \in Seq(STRING) /\ Len(o.body) \in Nat /\ o.stream \in 0..MaxStreamID
  BY DEF OutgoingOK, Outgoing
<1>a. \A i \in 1..n :
           Parts(o)[i] = Frame("DATA", IF i = n THEN {FlagEndStream} ELSE {}, o.stream, NoHdr,
                               SubSeq(o.body, (i - 1) * s + 1, IF i = n THEN Len(o.body) ELSE i * s))
  BY PartsFacts
<1>b. s \in Nat /\ n \in Nat
  BY PartsFacts
<1>1. /\ o.body \in Seq(STRING) /\ Len(o.body) \in Nat /\ o.stream \in 0..MaxStreamID
      /\ s \in Nat /\ n \in Nat
  BY <1>0, <1>b
<1>2. n = (Len(o.body) + s - 1) \div s /\ s \in Nat \ {0}
  BY PartsFacts
<1>4. ASSUME NEW i \in 1..n PROVE Parts(o)[i] \in AnyFrame
  <2> DEFINE e == IF i = n THEN Len(o.body) ELSE i * s
             d == SubSeq(o.body, (i - 1) * s + 1, e)
             g == IF i = n THEN {FlagEndStream} ELSE {}
  <2>1. (i - 1) * s \in Nat /\ e \in Nat /\ e <= Len(o.body)
    <3>1. i - 1 \in 0..(n - 1) /\ (i # n => i \in 0..(n - 1))
      <4> HIDE DEF n
      <4> QED
        BY <1>1
    <3> HIDE DEF n, s
    <3>2. (i - 1) * s \in Nat /\ (i # n => i * s \in Nat /\ i * s < Len(o.body))
      BY <1>1, <1>2, <3>1, PartsInside
    <3> QED
      BY <1>1, <3>2
  <2> HIDE DEF s, e, n
  <2>2. d \in Seq(STRING)
    <3>1. (i - 1) * s + 1 \in Nat /\ (i - 1) * s + 1 >= 1
      BY <2>1
    <3> QED
      BY <1>1, <2>1, <3>1, SubSeqIn
  <2>3. Parts(o)[i] = Frame("DATA", g, o.stream, NoHdr, d)
    BY <1>a DEF e
  <2> HIDE DEF d
  <2> QED
    BY <1>1, <2>2, <2>3 DEF Frame, AnyFrame, Types, FlagEndStream
<1>5. Parts(o) = [i \in 1..n |-> Parts(o)[i]]
  BY PartsFacts
<1> QED
  BY <1>1, <1>4, <1>5

\* What SendData writes is the part that is due.
LEMMA PartDue ==
  ASSUME NEW o, OutgoingOK(o), o.body # <<>>, NEW k, IsAt(o, k)
  PROVE  /\ DataFrame(o) = Parts(o)[k + 1]
         /\ ChunkEnd(o) = Len(o.body) <=> k + 1 = Len(Parts(o))
         /\ k + 1 # Len(Parts(o)) => ChunkEnd(o) = (k + 1) * Size(o)
<1> DEFINE l == Len(o.body)
           s == Size(o)
           n == Len(Parts(o))
<1>1. /\ l \in Nat /\ s \in Nat \ {0} /\ n \in Nat /\ l <= n * s /\ n * s < l + s
      /\ n = (l + s - 1) \div s
  <2>1. l \in Nat
    BY DEF OutgoingOK, Outgoing
  <2>2. s \in Nat \ {0} /\ n \in Nat /\ n = (l + s - 1) \div s
    BY PartsFacts
  <2> HIDE DEF l, s, n
  <2> QED
    BY <2>1, <2>2, PartsCount
<1>2. k \in 0..(n - 1) /\ o.off = k * s
  BY DEF IsAt
<1>3. k * s \in Nat /\ (k + 1) * s = k * s + s
  <2> HIDE DEF s, n
  <2> QED
    BY <1>1, <1>2
<1>4. k + 1 = n => k * s + s >= l
  <2> HIDE DEF l, s, n
  <2> QED
    BY <1>1, <1>2, <1>3
<1>5. k + 1 # n => k * s + s < l
  <2> HIDE DEF l, s, n
  <2> SUFFICES ASSUME k + 1 # n PROVE k * s + s < l
    OBVIOUS
  <2>1. k + 1 \in 0..(n - 1)
    BY <1>1, <1>2
  <2>2. (k + 1) * s < l
    BY <1>1, <2>1, PartsInside
  <2> QED
    BY <1>3, <2>2
<1>6. o.status # 200 => s = l /\ n = 1
  <2>1. o.status # 200 => s = l
    BY DEF Size
  <2> HIDE DEF l, s, n
  <2>2. ASSUME s = l PROVE n = 1
    <3>1. n * l < l + l /\ l <= n * l /\ l > 0
      BY <1>1, <2>2
    <3>2. CASE n = 0
      BY <1>1, <3>1, <3>2
    <3>3. CASE n >= 2
      <4>1. PICK d \in Nat : n = 2 + d
        <5>1. n - 2 \in Nat /\ n = 2 + (n - 2)
          BY <1>1, <3>3
        <5> QED
          BY <5>1
      <4>2. n * l = 2 * l + d * l /\ d * l \in Nat
        BY <1>1, <4>1
      <4> QED
        BY <1>1, <3>1, <4>2
    <3> QED
      BY <1>1, <3>2, <3>3
  <2> QED
    BY <2>1, <2>2
<1>7. o.status = 200 => s = ChunkSize
  BY DEF Size
<1>8. ChunkEnd(o) = IF k + 1 = n THEN l ELSE (k + 1) * s
  <2>1. ChunkEnd(o) = IF o.status # 200 \/ k * s + ChunkSize > l THEN l ELSE k * s + ChunkSize
    BY <1>2 DEF ChunkEnd
  <2> HIDE DEF l, s, n
  <2>2. CASE o.status = 200
    <3>1. ChunkEnd(o) = IF k * s + s > l THEN l ELSE k * s + s
      BY <1>7, <2>1, <2>2
    <3> QED
      BY <1>1, <1>3, <1>4, <1>5, <3>1
  <2>3. CASE o.status # 200
    BY <1>2, <1>6, <2>1, <2>3
  <2> QED
    BY <2>2, <2>3
<1>9. ChunkEnd(o) = l <=> k + 1 = n
  <2> HIDE DEF l, s, n
  <2> QED
    BY <1>1, <1>3, <1>5, <1>8
<1>10. k + 1 \in 1..n /\ (k + 1) - 1 = k
  <2> HIDE DEF n
  <2> QED
    BY <1>1, <1>2
<1> DEFINE g(j) == IF j = n THEN {FlagEndStream} ELSE {}
           d(j) == SubSeq(o.body, (j - 1) * s + 1, IF j = n THEN l ELSE j * s)
<1>11. \A j \in 1..n : Parts(o)[j] = Frame("DATA", g(j), o.stream, NoHdr, d(j))
  BY PartsFacts
<1>12. g(k + 1) = IF k + 1 = n THEN {FlagEndStream} ELSE {}
  OBVIOUS
<1>13. d(k + 1) = SubSeq(o.body, ((k + 1) - 1) * s + 1, IF k + 1 = n THEN l ELSE (k + 1) * s)
  OBVIOUS
<1> HIDE DEF n, s, g, d
<1>14. DataFrame(o) = Frame("DATA", IF ChunkEnd(o) = l THEN {FlagEndStream} ELSE {}, o.stream, NoHdr,
                            SubSeq(o.body, k * s + 1, ChunkEnd(o)))
  BY <1>2 DEF DataFrame
<1> HIDE DEF l
<1>15. d(k + 1) = SubSeq(o.body, k * s + 1, ChunkEnd(o))
  BY <1>8, <1>10, <1>13
<1>16. g(k + 1) = IF ChunkEnd(o) = l THEN {FlagEndStream} ELSE {}
  BY <1>9, <1>12
<1>17. Parts(o)[k + 1] = Frame("DATA", g(k + 1), o.stream, NoHdr, d(k + 1))
  BY <1>10, <1>11
<1>18. DataFrame(o) = Parts(o)[k + 1]
  BY <1>14, <1>15, <1>16, <1>17
<1> QED
  BY <1>8, <1>9, <1>18 DEF n, s, l

-----------------------------------------------------------------------------
(* What is owed                                                            *)

\* The answer to a request, on a tree without edits.
LEMMA AnswerFacts ==
  ASSUME NEW hdr
  PROVE  /\ Answer(Tree, hdr).body \in Seq(STRING)
         /\ Answer(Tree, hdr).status \in Statuses
         /\ Answer(Tree, hdr).sent \in BOOLEAN
         /\ Answer(Tree, hdr).sent => Answer(Tree, hdr).body # <<>>
<1> DEFINE named  == Resolve(hdr.path)
           isDir  == Stat(Tree, named) = "dir"
           target == IF isDir THEN Index(named) ELSE named
           kind   == Stat(Tree, target)
           error(status) == [status |-> status, body |-> Message, sent |-> TRUE]
           b == hdr.method = "GET" /\ Tree[target].data # <<>>
<1>1. kind = "file" => Tree[target].data \in Seq(STRING)
  BY ResolvedType, PeerAssumption
<1>2. HeadersStatus(hdr) \in {200, 400, 405}
  BY HeadersStatusType
<1>3. Answer(Tree, hdr) =
        IF HeadersStatus(hdr) # 200 THEN error(HeadersStatus(hdr))
        ELSE IF kind = "file" THEN [status |-> 200, body |-> Tree[target].data, sent |-> b]
        ELSE IF kind = "missing" \/ (isDir /\ ~IsRegular(kind)) THEN error(404)
        ELSE error(500)
  BY DEF Answer
<1>4. b \in BOOLEAN /\ (b => Tree[target].data # <<>>)
  OBVIOUS
<1> HIDE DEF kind, target, isDir, named, b
<1>5. CASE \E status \in Statuses : Answer(Tree, hdr) = error(status)
  BY <1>5, ServerAssumption
<1>6. CASE kind = "file" /\ Answer(Tree, hdr) = [status |-> 200, body |-> Tree[target].data, sent |-> b]
  <2>1. Answer(Tree, hdr).body = Tree[target].data /\ Answer(Tree, hdr).status = 200
    BY <1>6
  <2>2. Answer(Tree, hdr).sent = b
    BY <1>6
  <2>3. 200 \in Statuses
    BY DEF Statuses
  <2> QED
    BY <1>1, <1>4, <1>6, <2>1, <2>2, <2>3, Zenon
<1>7. {400, 405, 404, 500} \subseteq Statuses
  BY DEF Statuses
<1> HIDE DEF error
<1>8. \/ HeadersStatus(hdr) \in {400, 405} /\ Answer(Tree, hdr) = error(HeadersStatus(hdr))
      \/ kind = "file" /\ Answer(Tree, hdr) = [status |-> 200, body |-> Tree[target].data, sent |-> b]
      \/ Answer(Tree, hdr) = error(404)
      \/ Answer(Tree, hdr) = error(500)
  BY <1>2, <1>3
<1> QED
  BY <1>5, <1>6, <1>7, <1>8

\* a answers the request o is the response to.
IsAnswer(o, a) ==
  /\ o.status = a.status /\ o.body = a.body /\ o.off = 0
  /\ o.ends <=> ~a.sent

\* The frames of a response, as the handler writes it.
Planned(o) == <<HeadersFrame(o)>> \o (IF o.ends THEN <<>> ELSE Parts(o))

LEMMA PlannedType ==
  ASSUME NEW o, OutgoingOK(o), ~o.ends => o.body # <<>>
  PROVE  Planned(o) \in Seq(AnyFrame)
<1>1. HeadersFrame(o) \in AnyFrame
  BY HeadersFrameType DEF OutgoingOK
<1>2. <<HeadersFrame(o)>> \in Seq(AnyFrame)
  BY <1>1, OneElement
<1> DEFINE r == IF o.ends THEN <<>> ELSE Parts(o)
<1>3. r \in Seq(AnyFrame)
  BY PartsType
<1> HIDE DEF r
<1>4. <<HeadersFrame(o)>> \o r \in Seq(AnyFrame)
  BY <1>2, <1>3, ConcatType
<1> QED
  BY <1>4 DEF Planned, r

LEMMA PlannedIsResponse ==
  ASSUME NEW o, NEW a, IsAnswer(o, a)
  PROVE  Planned(o) = Response(o.stream, a)
<1>1. HeadersFrame(o) =
        Frame("HEADERS", IF a.sent THEN {FlagEndHeaders} ELSE {FlagEndHeaders, FlagEndStream},
              o.stream, [status |-> a.status, length |-> Len(a.body)], <<>>)
  <2>1. {FlagEndHeaders} \cup (IF o.ends THEN {FlagEndStream} ELSE {}) =
          IF a.sent THEN {FlagEndHeaders} ELSE {FlagEndHeaders, FlagEndStream}
    <3>1. CASE a.sent
      <4>1. ~o.ends
        BY <3>1 DEF IsAnswer
      <4> QED
        BY <3>1, <4>1
    <3>2. CASE ~a.sent
      <4>1. o.ends
        BY <3>2 DEF IsAnswer
      <4> QED
        BY <3>2, <4>1
    <3> QED
      BY <3>1, <3>2
  <2>2. o.status = a.status /\ o.body = a.body
    BY DEF IsAnswer
  <2> QED
    BY <2>1, <2>2 DEF HeadersFrame
<1>2. Parts(o) = Chunks(o.stream, a.body, IF a.status = 200 THEN ChunkSize ELSE Len(a.body))
  BY DEF Parts, Size, IsAnswer
<1>3. CASE a.sent
  <2>1. ~o.ends
    BY <1>3 DEF IsAnswer
  <2> QED
    BY <1>1, <1>2, <1>3, <2>1 DEF Planned, Response
<1>4. CASE ~a.sent
  <2>1. o.ends
    BY <1>4 DEF IsAnswer
  <2> QED
    BY <1>1, <1>4, <2>1 DEF Planned, Response
<1> QED
  BY <1>3, <1>4

LEMMA ResponseType ==
  ASSUME NEW s \in 0..MaxStreamID, NEW a, a.body \in Seq(STRING), a.status \in Statuses,
         a.sent \in BOOLEAN, a.sent => a.body # <<>>
  PROVE  Response(s, a) \in Seq(AnyFrame)
<1> DEFINE o == [stream |-> s, status |-> a.status, body |-> a.body, off |-> 0,
                 ends |-> ~a.sent, last |-> FALSE]
<1>1. OutgoingOK(o)
  BY DEF OutgoingOK, Outgoing
<1>2. o.ends = ~a.sent
  OBVIOUS
<1>3. o.stream = s /\ o.status = a.status /\ o.body = a.body /\ o.off = 0
  OBVIOUS
<1> HIDE DEF o
<1>4. ~o.ends => o.body # <<>>
  BY <1>2, <1>3, Zenon
<1>5. IsAnswer(o, a)
  BY <1>2, <1>3 DEF IsAnswer
<1>6. Planned(o) \in Seq(AnyFrame)
  BY <1>1, <1>4, PlannedType
<1> QED
  BY <1>3, <1>5, <1>6, PlannedIsResponse

\* The 400 that a broken stream is answered with.
LEMMA TruncatedIsPlanned ==
  /\ OutgoingOK(Failure(1, 400, TRUE))
  /\ Planned(Failure(1, 400, TRUE)) = Truncated
  /\ Truncated \in Seq(AnyFrame)
<1> DEFINE o == Failure(1, 400, TRUE)
           a == [status |-> 400, body |-> Message, sent |-> TRUE]
<1>1. OutgoingOK(o)
  <2>1. 1 \in 0..MaxStreamID /\ 400 \in Statuses /\ TRUE \in BOOLEAN
    BY WireAssumption DEF Statuses
  <2> QED
    BY <2>1, FailureType, Zenon
<1>2. o.stream = 1 /\ IsAnswer(o, a) /\ ~o.ends /\ o.body # <<>>
  BY ServerAssumption DEF Failure, IsAnswer
<1>3. Truncated = Response(1, a)
  BY DEF Truncated
<1> HIDE DEF o, a
<1>4. Planned(o) = Truncated
  BY <1>2, <1>3, PlannedIsResponse
<1>5. Planned(o) \in Seq(AnyFrame)
  BY <1>1, <1>2, PlannedType
<1> QED
  BY <1>1, <1>4, <1>5 DEF o

LEMMA RepliesTo ==
  ASSUME NEW f
  PROVE  /\ f.type = "HEADERS" => Replies(Tree, f) = Response(f.stream, Answer(Tree, f.hdr))
         /\ f.type = "PING" => Replies(Tree, f) = <<PongFrame(f)>>
         /\ f.type \notin {"HEADERS", "PING"} => Replies(Tree, f) = <<>>
BY DEF Replies, PongFrame

LEMMA RepliesType ==
  ASSUME NEW f \in Offers
  PROVE  Replies(Tree, f) \in Seq(AnyFrame)
<1>1. f.stream \in 0..MaxStreamID
  BY PeerAssumption DEF AnyFrame
<1>2. CASE f.type = "HEADERS"
  <2>1. Response(f.stream, Answer(Tree, f.hdr)) \in Seq(AnyFrame)
    BY <1>1, AnswerFacts, ResponseType
  <2> QED
    BY <1>2, <2>1, RepliesTo
<1>3. CASE f.type = "PING"
  <2>1. PongFrame(f) \in AnyFrame
    BY PongFrameType
  <2>2. <<PongFrame(f)>> \in Seq(AnyFrame)
    BY <2>1, OneElement
  <2> QED
    BY <1>3, <2>2, RepliesTo
<1>4. CASE f.type \notin {"HEADERS", "PING"}
  BY <1>4, RepliesTo, EmptySeq
<1> QED
  BY <1>2, <1>3, <1>4

\* All that is owed for the frames t.
OwedFor(t) == FlattenSeq([i \in 1..Len(t) |-> Replies(Tree, t[i])])

LEMMA OwedType ==
  ASSUME NEW t \in Seq(Offers)
  PROVE  /\ [i \in 1..Len(t) |-> Replies(Tree, t[i])] \in Seq(Seq(AnyFrame))
         /\ OwedFor(t) \in Seq(AnyFrame)
<1> DEFINE ss == [i \in 1..Len(t) |-> Replies(Tree, t[i])]
<1>1. \A i \in 1..Len(t) : Replies(Tree, t[i]) \in Seq(AnyFrame)
  BY RepliesType
<1>2. ss \in [1..Len(t) -> Seq(AnyFrame)] /\ Len(t) \in Nat
  BY <1>1
<1>3. ss \in Seq(Seq(AnyFrame))
  <2> HIDE DEF ss
  <2> QED
    BY <1>2
<1> HIDE DEF ss
<1>4. FlattenSeq(ss) \in Seq(AnyFrame)
  BY <1>3, FlattenType
<1> QED
  BY <1>3, <1>4 DEF OwedFor, ss

LEMMA OwedNothing ==
  OwedFor(<<>>) = <<>>
<1> DEFINE ss == [i \in 1..Len(<<>>) |-> Replies(Tree, <<>>[i])]
<1>1. <<>> \in Seq(Offers) /\ Len(<<>>) = 0
  BY EmptySeq
<1>2. ss \in Seq(Seq(AnyFrame))
  BY <1>1, OwedType
<1>3. Len(ss) = 0
  BY <1>1
<1> HIDE DEF ss
<1>4. ss = <<>>
  BY <1>2, <1>3, EmptySeq
<1> QED
  BY <1>3, <1>4, FlattenEmpty DEF OwedFor, ss

\* One frame more.
LEMMA OwedMore ==
  ASSUME NEW t \in Seq(Offers), NEW f \in Offers
  PROVE  OwedFor(Append(t, f)) = OwedFor(t) \o Replies(Tree, f)
<1> DEFINE u == Append(t, f)
           ss == [i \in 1..Len(t) |-> Replies(Tree, t[i])]
           tt == [i \in 1..Len(u) |-> Replies(Tree, u[i])]
           x == Replies(Tree, f)
<1>1. /\ u \in Seq(Offers) /\ Len(u) = Len(t) + 1 /\ u[Len(t) + 1] = f /\ Len(t) \in Nat
      /\ \A i \in 1..Len(t) : u[i] = t[i]
  BY AppendProperties
<1>2. ss \in Seq(Seq(AnyFrame)) /\ x \in Seq(AnyFrame)
  BY OwedType, RepliesType
<1>3. tt \in Seq(Seq(AnyFrame))
  <2> HIDE DEF u
  <2> QED
    BY <1>1, OwedType
<1>4. Len(ss) = Len(t) /\ Len(tt) = Len(t) + 1
  <2> HIDE DEF u
  <2> QED
    BY <1>1
<1>5. \A i \in 1..Len(t) : tt[i] = ss[i]
  <2> HIDE DEF u
  <2> QED
    BY <1>1
<1>6. tt[Len(t) + 1] = x
  <2> HIDE DEF u
  <2> QED
    BY <1>1
<1> HIDE DEF ss, tt, x, u
<1>7. Append(ss, x) = tt
  <2> DEFINE a == Append(ss, x)
  <2>1. /\ a \in Seq(Seq(AnyFrame)) /\ Len(a) = Len(t) + 1 /\ a[Len(t) + 1] = x
        /\ \A i \in 1..Len(t) : a[i] = ss[i]
    BY <1>2, <1>4, AppendProperties
  <2> HIDE DEF a
  <2>2. ASSUME NEW i \in 1..Len(a) PROVE a[i] = tt[i]
    <3>1. i \in 1..Len(t) \/ i = Len(t) + 1
      BY <1>1, <2>1
    <3> QED
      BY <1>5, <1>6, <2>1, <3>1
  <2>3. a = tt
    BY <1>3, <1>4, <2>1, <2>2, SeqEqual
  <2> QED
    BY <2>3 DEF a
<1>8. FlattenSeq(Append(ss, x)) = FlattenSeq(ss) \o x
  BY <1>2, FlattenAppend
<1>9. OwedFor(u) = FlattenSeq(tt) /\ OwedFor(t) = FlattenSeq(ss)
  BY DEF OwedFor, tt, ss
<1> QED
  BY <1>7, <1>8, <1>9 DEF u, x

-----------------------------------------------------------------------------
(* Replies are in order                                                    *)

Begins(w, a) == \E r \in Seq(AnyFrame) : a = w \o r

\* The stream ended inside a frame, after the frames t.
AtCut(t, u) ==
  /\ u.q = <<>> /\ u.end \in (Cuts \ {"eof"}) \cup {"reset"}
  /\ t # <<>> => Last(t).type # "GOAWAY"
Full(t, u) == OwedFor(t) \o (IF AtCut(t, u) THEN Truncated ELSE <<>>)

\* What has been written when the handler is done with what it has in hand.
Closing(label, o) == label \in Finished \/ (label \in {"headers", "data"} /\ o.last)
Goal(t, u, label, o) == IF Closing(label, o) THEN Full(t, u) ELSE OwedFor(t)

\* The handler is on its way to the file a request with hdr names.
Pending(label, r, hdr) ==
  LET p == Resolve(hdr.path) IN
  /\ HeadersStatus(hdr) = 200
  /\ r = [stream |-> r.stream, head |-> r.head, path |-> r.path]
  /\ r.head <=> hdr.method = "HEAD"
  /\ \/ label = "stat" /\ r.path = p
     \/ label = "index" /\ r.path = p /\ Stat(Tree, p) = "dir"
     \/ label = "open" /\ r.path = p /\ IsRegular(Stat(Tree, p))
     \/ label = "open" /\ r.path = Index(p) /\ Stat(Tree, p) = "dir" /\ IsRegular(Stat(Tree, Index(p)))

\* p is what a handler at label has still to write.
ToWrite(label, r, o, p) ==
  /\ label \in {"none", "read", "close", "done"} => p = <<>>
  /\ label = "pong" => p = <<PongFrame(r)>>
  /\ label \in {"stat", "index", "open"} =>
       \E hdr : Pending(label, r, hdr) /\ p = Response(r.stream, Answer(Tree, hdr))
  /\ label = "headers" => p = Planned(o)
  /\ label = "data" => \E k : IsAt(o, k) /\ p = SubSeq(Parts(o), k + 1, Len(Parts(o)))

InOrder(t, u, ch, label, r, o) ==
  /\ label = "done" => u.end # "open"
  /\ ch.end = "open" => /\ label \in {"headers", "data"} /\ o.last => AtCut(t, u)
                        /\ \E p \in Seq(AnyFrame) :
                             ToWrite(label, r, o, p) /\ ch.q \o p = Goal(t, u, label, o)
  /\ ch.end # "open" => Begins(ch.q, Full(t, u))
  /\ ch.end = "eof" => label = "done" /\ ch.q = Full(t, u)

LEMMA FullType ==
  ASSUME NEW t \in Seq(Offers), NEW u
  PROVE  /\ Full(t, u) \in Seq(AnyFrame) /\ OwedFor(t) \in Seq(AnyFrame)
         /\ AtCut(t, u) => Full(t, u) = OwedFor(t) \o Truncated
         /\ ~AtCut(t, u) => Full(t, u) = OwedFor(t)
         /\ Begins(OwedFor(t), Full(t, u))
<1>1. OwedFor(t) \in Seq(AnyFrame) /\ Truncated \in Seq(AnyFrame)
  BY OwedType, TruncatedIsPlanned
<1>2. <<>> \in Seq(AnyFrame) /\ OwedFor(t) \o <<>> = OwedFor(t)
  BY <1>1, EmptySeq, ConcatEmptySeq
<1>3. AtCut(t, u) => Full(t, u) = OwedFor(t) \o Truncated
  BY DEF Full
<1>4. ~AtCut(t, u) => Full(t, u) = OwedFor(t)
  BY <1>2 DEF Full
<1>5. Full(t, u) \in Seq(AnyFrame)
  BY <1>1, <1>3, <1>4, ConcatType
<1>6. Begins(OwedFor(t), Full(t, u))
  BY <1>1, <1>2, <1>3, <1>4 DEF Begins
<1> QED
  BY <1>1, <1>3, <1>4, <1>5, <1>6

LEMMA BeginsTransitive ==
  ASSUME NEW w \in Seq(AnyFrame), NEW a \in Seq(AnyFrame), NEW b, Begins(w, a), Begins(a, b)
  PROVE  Begins(w, b)
<1>1. PICK r \in Seq(AnyFrame) : a = w \o r
  BY DEF Begins
<1>2. PICK s \in Seq(AnyFrame) : b = a \o s
  BY DEF Begins
<1>3. b = w \o (r \o s)
  BY <1>1, <1>2, ConcatAssociative
<1>4. r \o s \in Seq(AnyFrame)
  BY <1>1, <1>2, ConcatType
<1> QED
  BY <1>3, <1>4 DEF Begins

LEMMA PrefixBegins ==
  ASSUME NEW w \in Seq(AnyFrame), NEW n \in 0..Len(w)
  PROVE  Begins(SubSeq(w, 1, n), w)
<1> DEFINE r == SubSeq(w, n + 1, Len(w))
<1>1. r \in Seq(AnyFrame)
  <2>1. n + 1 \in Nat /\ n + 1 >= 1 /\ Len(w) \in Nat /\ Len(w) <= Len(w)
    OBVIOUS
  <2> QED
    BY <2>1, SubSeqIn
<1>2. SubSeq(w, 1, n) \o r = SubSeq(w, 1, Len(w))
  <2>1. 1 \in 1..(Len(w) + 1) /\ n \in (1 - 1)..Len(w) /\ Len(w) \in n..Len(w)
    OBVIOUS
  <2> QED
    BY <2>1, ConcatAdjacentSubSeq
<1>3. SubSeq(w, 1, Len(w)) = w
  BY SubSeqFull
<1> HIDE DEF r
<1>4. w = SubSeq(w, 1, n) \o r
  BY <1>2, <1>3
<1> QED
  BY <1>1, <1>4 DEF Begins

\* Whatever the handler has still to write, what it has written is a beginning.
LEMMA AlwaysBegins ==
  ASSUME NEW t \in Seq(Offers), NEW u, NEW ch \in Chan(AnyFrame), NEW label, NEW r, NEW o,
         InOrder(t, u, ch, label, r, o)
  PROVE  Begins(ch.q, Full(t, u))
<1>1. CASE ch.end # "open"
  BY <1>1 DEF InOrder
<1>2. CASE ch.end = "open"
  <2>1. PICK p \in Seq(AnyFrame) : ch.q \o p = Goal(t, u, label, o)
    BY <1>2 DEF InOrder
  <2>2. Begins(ch.q, Goal(t, u, label, o))
    BY <2>1 DEF Begins
  <2>3. CASE Closing(label, o)
    BY <2>2, <2>3 DEF Goal
  <2>4. CASE ~Closing(label, o)
    <3>1. Begins(ch.q, OwedFor(t))
      BY <2>2, <2>4 DEF Goal
    <3>2. ch.q \in Seq(AnyFrame)
      BY DEF Chan
    <3> QED
      BY <3>1, <3>2, FullType, BeginsTransitive
  <2> QED
    BY <2>3, <2>4
<1> QED
  BY <1>1, <1>2

-----------------------------------------------------------------------------
(* Steps of the handler                                                    *)

\* It goes on without reading or writing, with the same to write.
LEMMA OrderGoes ==
  ASSUME NEW t \in Seq(Offers), NEW u, NEW ch \in Chan(AnyFrame),
         NEW label, NEW r, NEW o, NEW next, NEW r2, NEW o2, InOrder(t, u, ch, label, r, o),
         label # "done", next # "done", Closing(label, o) <=> Closing(next, o2),
         next \in {"headers", "data"} => ~o2.last,
         \A p \in Seq(AnyFrame) : ToWrite(label, r, o, p) => ToWrite(next, r2, o2, p)
  PROVE  InOrder(t, u, ch, next, r2, o2)
<1>1. Goal(t, u, next, o2) = Goal(t, u, label, o)
  BY DEF Goal
<1>2. ch.end = "open" => \E p \in Seq(AnyFrame) : ToWrite(next, r2, o2, p) /\ ch.q \o p = Goal(t, u, next, o2)
  <2>1. SUFFICES ASSUME ch.end = "open"
                 PROVE  \E p \in Seq(AnyFrame) : ToWrite(next, r2, o2, p) /\ ch.q \o p = Goal(t, u, next, o2)
    OBVIOUS
  <2>2. PICK p \in Seq(AnyFrame) : ToWrite(label, r, o, p) /\ ch.q \o p = Goal(t, u, label, o)
    BY <2>1 DEF InOrder
  <2> QED
    BY <1>1, <2>2
<1>3. ch.end # "open" => Begins(ch.q, Full(t, u))
  BY DEF InOrder
<1> QED
  BY <1>2, <1>3 DEF InOrder

\* A connection that is not open holds what it held.
LEMMA OrderLost ==
  ASSUME NEW t \in Seq(Offers), NEW u, NEW ch, ch.end # "open",
         NEW label, NEW r, NEW o, NEW next, NEW r2, NEW o2, InOrder(t, u, ch, label, r, o),
         label # "done", next # "done"
  PROVE  InOrder(t, u, ch, next, r2, o2)
BY DEF InOrder

\* It writes the first of the frames it has to write.
LEMMA OrderWrites ==
  ASSUME NEW t \in Seq(Offers), NEW u, NEW ch \in Chan(AnyFrame),
         NEW label, NEW r, NEW o, NEW f \in AnyFrame, NEW next, NEW o2, InOrder(t, u, ch, label, r, o),
         label # "done", next # "done", Closing(label, o) <=> Closing(next, o2),
         next \in {"headers", "data"} /\ o2.last => label \in {"headers", "data"} /\ o.last,
         \A p \in Seq(AnyFrame) : ToWrite(label, r, o, p) =>
            \E q \in Seq(AnyFrame) : p = <<f>> \o q /\ ToWrite(next, r, o2, q)
  PROVE  InOrder(t, u, WriteFrame(ch, f), next, r, o2)
<1>1. CASE ch.end # "open"
  <2>1. WriteFrame(ch, f) = ch
    BY <1>1 DEF WriteFrame
  <2> QED
    BY <1>1, <2>1, OrderLost
<1>2. CASE ch.end = "open"
  <2>1. ch.q \in Seq(AnyFrame) /\ WriteFrame(ch, f).q = Append(ch.q, f) /\ WriteFrame(ch, f).end = "open"
    BY <1>2 DEF WriteFrame, Chan
  <2>2. PICK p \in Seq(AnyFrame) : ToWrite(label, r, o, p) /\ ch.q \o p = Goal(t, u, label, o)
    BY <1>2 DEF InOrder
  <2>3. PICK q \in Seq(AnyFrame) : p = <<f>> \o q /\ ToWrite(next, r, o2, q)
    BY <2>2
  <2>4. Append(ch.q, f) \o q = ch.q \o p
    <3>1. PICK w \in Seq(AnyFrame) : w = ch.q
      BY <2>1
    <3>2. Append(w, f) \o q = w \o (<<f>> \o q)
      BY ShiftOne
    <3> QED
      BY <2>3, <3>1, <3>2, Zenon
  <2>5. Goal(t, u, next, o2) = Goal(t, u, label, o)
    BY DEF Goal
  <2>6. next \in {"headers", "data"} /\ o2.last => AtCut(t, u)
    BY <1>2 DEF InOrder
  <2>7. WriteFrame(ch, f).q \o q = Goal(t, u, next, o2)
    BY <2>1, <2>2, <2>4, <2>5
  <2> QED
    BY <2>1, <2>3, <2>6, <2>7 DEF InOrder
<1> QED
  BY <1>1, <1>2

\* It takes the next frame.
LEMMA OrderTakes ==
  ASSUME NEW t \in Seq(Offers), NEW u, CanRead(u), NEW b, NEW ch \in Chan(AnyFrame),
         NEW r, NEW o, NEW f \in Offers, InOrder(t, u, ch, "read", r, o),
         NEW next, NEW r2, NEW o2, next # "done",
         next = "close" => f.type = "GOAWAY", next \in {"headers", "data"} => ~o2.last,
         ToWrite(next, r2, o2, Replies(Tree, f))
  PROVE  InOrder(Append(t, f), b, ch, next, r2, o2)
<1> DEFINE v == Append(t, f)
           x == Replies(Tree, f)
<1>1. v \in Seq(Offers) /\ v # <<>> /\ Last(v) = f
  BY AppendProperties DEF Last
<1>2. x \in Seq(AnyFrame) /\ OwedFor(v) = OwedFor(t) \o x
  BY RepliesType, OwedMore
<1>3. Full(t, u) = OwedFor(t)
  BY FullType DEF AtCut, CanRead
<1> HIDE DEF v, x
<1>4. Begins(OwedFor(t), OwedFor(v))
  BY <1>2 DEF Begins
<1>5. ch.q \in Seq(AnyFrame) /\ OwedFor(t) \in Seq(AnyFrame) /\ OwedFor(v) \in Seq(AnyFrame)
  BY <1>1, FullType DEF Chan
<1>6. Begins(ch.q, OwedFor(t))
  BY <1>3, AlwaysBegins
<1>7. Begins(ch.q, OwedFor(v))
  BY <1>4, <1>5, <1>6, BeginsTransitive
<1>8. Begins(ch.q, Full(v, b))
  BY <1>1, <1>5, <1>7, FullType, BeginsTransitive
<1>9. Goal(v, b, next, o2) = OwedFor(v)
  <2>1. CASE next = "close"
    <3>1. ~AtCut(v, b)
      BY <1>1, <2>1 DEF AtCut
    <3>2. Full(v, b) = OwedFor(v)
      BY <1>1, <3>1, FullType
    <3> QED
      BY <3>2 DEF Goal
  <2>2. CASE next # "close"
    BY <2>2 DEF Goal, Closing, Finished
  <2> QED
    BY <2>1, <2>2
<1>10. ASSUME ch.end = "open" PROVE ch.q \o x = OwedFor(v)
  <2>1. PICK p \in Seq(AnyFrame) : ToWrite("read", r, o, p) /\ ch.q \o p = Goal(t, u, "read", o)
    BY <1>10 DEF InOrder
  <2>2. p = <<>> /\ Goal(t, u, "read", o) = OwedFor(t)
    BY <2>1 DEF ToWrite, Goal, Closing, Finished
  <2>3. ch.q = OwedFor(t)
    BY <1>5, <2>1, <2>2, ConcatEmptySeq
  <2> QED
    BY <1>2, <2>3
<1>11. InOrder(v, b, ch, next, r2, o2)
  BY <1>2, <1>8, <1>9, <1>10 DEF InOrder, x
<1> QED
  BY <1>11 DEF v

\* Its input has ended.
LEMMA OrderEnds ==
  ASSUME NEW t \in Seq(Offers), NEW u \in Chan(Offers), NEW ch \in Chan(AnyFrame),
         NEW r, NEW o, InOrder(t, u, ch, "read", r, o), AtEnd(u), u.end # "gone",
         t # <<>> => Last(t).type # "GOAWAY"
  PROVE  /\ ReadError(u) = "EOF" => InOrder(t, u, ch, "close", r, o)
         /\ ReadError(u) # "EOF" => InOrder(t, u, ch, "headers", r, Failure(1, 400, TRUE))
<1> DEFINE e == Failure(1, 400, TRUE)
<1>1. ReadError(u) = "EOF" <=> u.end = "eof"
  BY DEF ReadError
<1>2. u.q = <<>> /\ u.end \in Cuts \cup {"reset"}
  BY DEF AtEnd, Chan, Ends
<1>3. /\ ch.q \in Seq(AnyFrame) /\ OwedFor(t) \in Seq(AnyFrame) /\ Planned(e) = Truncated
      /\ Truncated \in Seq(AnyFrame) /\ <<>> \in Seq(AnyFrame)
  BY FullType, TruncatedIsPlanned, EmptySeq DEF Chan
<1>4. ASSUME ch.end = "open" PROVE ch.q = OwedFor(t)
  <2>1. PICK p \in Seq(AnyFrame) : ToWrite("read", r, o, p) /\ ch.q \o p = Goal(t, u, "read", o)
    BY <1>4 DEF InOrder
  <2>2. p = <<>> /\ Goal(t, u, "read", o) = OwedFor(t)
    BY <2>1 DEF ToWrite, Goal, Closing, Finished
  <2> QED
    BY <1>3, <2>1, <2>2, ConcatEmptySeq
<1>5. e.last
  BY DEF Failure
<1> HIDE DEF e
<1>6. CASE ch.end # "open"
  <2>1. InOrder(t, u, ch, "close", r, o)
    BY <1>6, OrderLost, Zenon
  <2>2. InOrder(t, u, ch, "headers", r, e)
    BY <1>6, OrderLost, Zenon
  <2> QED
    BY <2>1, <2>2 DEF e
<1>7. CASE ch.end = "open"
  <2>1. ch.q \o <<>> = OwedFor(t)
    BY <1>3, <1>4, <1>7, ConcatEmptySeq
  <2>2. ASSUME u.end = "eof" PROVE InOrder(t, u, ch, "close", r, o)
    <3>1. ~AtCut(t, u)
      BY <2>2 DEF AtCut
    <3>2. Goal(t, u, "close", o) = OwedFor(t)
      BY <3>1, FullType DEF Goal, Closing, Finished
    <3>3. ToWrite("close", r, o, <<>>)
      BY DEF ToWrite
    <3> QED
      BY <1>3, <1>7, <2>1, <3>2, <3>3 DEF InOrder
  <2>3. ASSUME u.end # "eof" PROVE InOrder(t, u, ch, "headers", r, e)
    <3>1. AtCut(t, u)
      BY <1>2, <2>3 DEF AtCut
    <3>2. Goal(t, u, "headers", e) = OwedFor(t) \o Truncated
      BY <1>5, <3>1, FullType DEF Goal, Closing
    <3>3. ToWrite("headers", r, e, Truncated)
      BY <1>3 DEF ToWrite
    <3>4. ch.q \o Truncated = Goal(t, u, "headers", e)
      BY <1>4, <1>7, <3>2
    <3> QED
      BY <1>3, <1>7, <3>1, <3>3, <3>4 DEF InOrder
  <2>4. ReadError(u) = "EOF" => InOrder(t, u, ch, "close", r, o)
    BY <1>1, <2>2
  <2>5. ReadError(u) # "EOF" => InOrder(t, u, ch, "headers", r, e)
    BY <1>1, <2>3
  <2> QED
    BY <2>4, <2>5 DEF e
<1> QED
  BY <1>6, <1>7

-----------------------------------------------------------------------------
(* Steps of the connection                                                 *)

LEMMA FullGrows ==
  ASSUME NEW t \in Seq(Offers), NEW u, NEW v, AtCut(t, u) => AtCut(t, v),
         NEW w \in Seq(AnyFrame), Begins(w, Full(t, u))
  PROVE  Begins(w, Full(t, v))
<1>1. CASE AtCut(t, u)
  <2>1. Full(t, v) = Full(t, u)
    BY <1>1 DEF Full
  <2> QED
    BY <2>1
<1>2. CASE ~AtCut(t, u)
  <2>1. Full(t, u) = OwedFor(t) /\ OwedFor(t) \in Seq(AnyFrame)
    BY <1>2, FullType
  <2>2. Begins(OwedFor(t), Full(t, v))
    BY FullType
  <2>3. Begins(w, OwedFor(t))
    BY <2>1
  <2> QED
    BY <2>1, <2>2, <2>3, BeginsTransitive
<1> QED
  BY <1>1, <1>2

\* More arrives, or the peer stops sending.
LEMMA OrderSent ==
  ASSUME NEW t \in Seq(Offers), NEW u, NEW v, NEW ch \in Chan(AnyFrame),
         NEW label, NEW r, NEW o, InOrder(t, u, ch, label, r, o), label # "done",
         ~AtCut(t, u), Closing(label, o) /\ AtCut(t, v) => FALSE
  PROVE  InOrder(t, v, ch, label, r, o)
<1>1. ch.q \in Seq(AnyFrame)
  BY DEF Chan
<1>2. ch.end # "open" => Begins(ch.q, Full(t, v))
  BY <1>1, FullGrows DEF InOrder
<1>3. Goal(t, v, label, o) = Goal(t, u, label, o)
  BY FullType DEF Goal, Full
<1>4. ch.end = "open" => ~(label \in {"headers", "data"} /\ o.last)
  BY DEF InOrder
<1> QED
  BY <1>2, <1>3, <1>4 DEF InOrder

\* The connection is lost, or its reader is gone.
LEMMA OrderBreaks ==
  ASSUME NEW t \in Seq(Offers), NEW u, NEW v, NEW ch \in Chan(AnyFrame), NEW d,
         NEW label, NEW r, NEW o, InOrder(t, u, ch, label, r, o),
         AtCut(t, u) => AtCut(t, v), label = "done" => v.end # "open",
         d.q = ch.q, d.end \in {"gone", "reset"}
  PROVE  InOrder(t, v, d, label, r, o)
<1>1. Begins(ch.q, Full(t, u)) /\ ch.q \in Seq(AnyFrame)
  BY AlwaysBegins DEF Chan
<1>2. Begins(d.q, Full(t, v))
  BY <1>1, FullGrows
<1> QED
  BY <1>2 DEF InOrder

\* The handler closes the connection.
LEMMA OrderCloses ==
  ASSUME NEW t \in Seq(Offers), NEW u \in Chan(Offers), NEW ch \in Chan(AnyFrame),
         NEW r, NEW o, InOrder(t, u, ch, "close", r, o), NEW d \in ClosedByWriter(ch, CanRead(u))
  PROVE  InOrder(t, ClosedByReader(u), d, "done", r, o)
<1> DEFINE v == ClosedByReader(u)
<1>1. v.end # "open" /\ (AtCut(t, u) <=> AtCut(t, v))
  BY DEF ClosedByReader, AtCut, Chan, Cuts
<1> HIDE DEF v
<1>2. Full(t, v) = Full(t, u)
  BY <1>1 DEF Full
<1>3. Begins(ch.q, Full(t, v)) /\ ch.q \in Seq(AnyFrame) /\ Full(t, v) \in Seq(AnyFrame)
  BY <1>2, AlwaysBegins, FullType DEF Chan
<1>4. CASE ch.end # "open"
  <2>1. d = ch
    BY <1>4 DEF ClosedByWriter
  <2>2. ch.end # "eof"
    BY DEF InOrder
  <2> QED
    BY <1>1, <1>3, <1>4, <2>1, <2>2 DEF InOrder, v
<1>5. CASE ch.end = "open" /\ d = [ch EXCEPT !.end = "eof"]
  <2>1. PICK p \in Seq(AnyFrame) : ToWrite("close", r, o, p) /\ ch.q \o p = Goal(t, u, "close", o)
    BY <1>5 DEF InOrder
  <2>2. p = <<>> /\ Goal(t, u, "close", o) = Full(t, u)
    BY <2>1 DEF ToWrite, Goal, Closing, Finished
  <2>3. ch.q = Full(t, v)
    BY <1>2, <1>3, <2>1, <2>2, ConcatEmptySeq
  <2>4. d.q = ch.q /\ d.end = "eof"
    BY <1>5 DEF Chan
  <2> QED
    BY <1>1, <1>3, <2>3, <2>4 DEF InOrder, v
<1>6. CASE ch.end = "open" /\ d \in Broken(ch)
  <2>1. PICK n \in 0..Len(ch.q) : d = [q |-> SubSeq(ch.q, 1, n), end |-> "reset"]
    BY <1>6 DEF Broken
  <2>2. Begins(SubSeq(ch.q, 1, n), ch.q) /\ SubSeq(ch.q, 1, n) \in Seq(AnyFrame)
    BY <1>3, PrefixBegins, PrefixFacts
  <2>3. Begins(SubSeq(ch.q, 1, n), Full(t, v))
    BY <1>3, <2>2, BeginsTransitive
  <2>4. d.q = SubSeq(ch.q, 1, n) /\ d.end = "reset"
    BY <2>1
  <2> QED
    BY <1>1, <2>3, <2>4 DEF InOrder, v
<1> QED
  BY <1>4, <1>5, <1>6 DEF ClosedByWriter

-----------------------------------------------------------------------------
(* The answer the handler arrives at                                       *)

Refusal(status) == [status |-> status, body |-> Message, sent |-> TRUE]

LEMMA AnswerRefused ==
  ASSUME NEW hdr, HeadersStatus(hdr) # 200
  PROVE  Answer(Tree, hdr) = Refusal(HeadersStatus(hdr))
BY DEF Answer, Refusal

LEMMA AnswerFile ==
  ASSUME NEW hdr, HeadersStatus(hdr) = 200, NEW p, p = Resolve(hdr.path), NEW path,
         \/ path = p /\ IsRegular(Stat(Tree, p))
         \/ path = Index(p) /\ Stat(Tree, p) = "dir" /\ IsRegular(Stat(Tree, path))
  PROVE  Answer(Tree, hdr) =
           IF Stat(Tree, path) = "file"
           THEN [status |-> 200, body |-> Tree[path].data,
                 sent |-> hdr.method = "GET" /\ Tree[path].data # <<>>]
           ELSE Refusal(500)
<1> DEFINE isDir  == Stat(Tree, p) = "dir"
           target == IF isDir THEN Index(p) ELSE p
           b == hdr.method = "GET" /\ Tree[path].data # <<>>
<1>1. target = path
  BY DEF IsRegular
<1>2. IsRegular(Stat(Tree, path))
  OBVIOUS
<1>3. Answer(Tree, hdr) =
        IF Stat(Tree, target) = "file"
        THEN [status |-> 200, body |-> Tree[target].data,
              sent |-> hdr.method = "GET" /\ Tree[target].data # <<>>]
        ELSE IF Stat(Tree, target) = "missing" \/ (isDir /\ ~IsRegular(Stat(Tree, target)))
             THEN Refusal(404) ELSE Refusal(500)
  BY DEF Answer, Refusal
<1> HIDE DEF target, isDir
<1>4. Answer(Tree, hdr) =
        IF Stat(Tree, path) = "file"
        THEN [status |-> 200, body |-> Tree[path].data, sent |-> b]
        ELSE IF Stat(Tree, path) = "missing" \/ (isDir /\ ~IsRegular(Stat(Tree, path)))
             THEN Refusal(404) ELSE Refusal(500)
  BY <1>1, <1>3
<1> HIDE DEF b
<1>5. Stat(Tree, path) # "missing"
  BY <1>2 DEF IsRegular
<1>6. Answer(Tree, hdr) =
        IF Stat(Tree, path) = "file" THEN [status |-> 200, body |-> Tree[path].data, sent |-> b]
        ELSE Refusal(500)
  BY <1>2, <1>4, <1>5
<1> QED
  BY <1>6 DEF b

LEMMA AnswerNotFound ==
  ASSUME NEW hdr, HeadersStatus(hdr) = 200, NEW p, p = Resolve(hdr.path),
         \/ Stat(Tree, p) = "missing"
         \/ Stat(Tree, p) = "dir" /\ ~IsRegular(Stat(Tree, Index(p)))
  PROVE  Answer(Tree, hdr) = Refusal(404)
<1> DEFINE isDir  == Stat(Tree, p) = "dir"
           target == IF isDir THEN Index(p) ELSE p
           kind == Stat(Tree, target)
<1>1. kind # "file" /\ (kind = "missing" \/ (isDir /\ ~IsRegular(kind)))
  BY DEF IsRegular
<1>2. Answer(Tree, hdr) =
        IF kind = "file"
        THEN [status |-> 200, body |-> Tree[target].data,
              sent |-> hdr.method = "GET" /\ Tree[target].data # <<>>]
        ELSE IF kind = "missing" \/ (isDir /\ ~IsRegular(kind))
             THEN Refusal(404) ELSE Refusal(500)
  BY DEF Answer, Refusal
<1> HIDE DEF kind, isDir, target
<1> QED
  BY <1>1, <1>2

LEMMA AnswerNoFile ==
  ASSUME NEW hdr, HeadersStatus(hdr) = 200, NEW p, p = Resolve(hdr.path),
         Stat(Tree, p) # "missing", Stat(Tree, p) # "dir", ~IsRegular(Stat(Tree, p))
  PROVE  Answer(Tree, hdr) = Refusal(500)
<1> DEFINE isDir  == Stat(Tree, p) = "dir"
           target == IF isDir THEN Index(p) ELSE p
           kind == Stat(Tree, target)
<1>1. kind # "file" /\ kind # "missing" /\ ~isDir
  BY DEF IsRegular
<1>2. Answer(Tree, hdr) =
        IF kind = "file"
        THEN [status |-> 200, body |-> Tree[target].data,
              sent |-> hdr.method = "GET" /\ Tree[target].data # <<>>]
        ELSE IF kind = "missing" \/ (isDir /\ ~IsRegular(kind))
             THEN Refusal(404) ELSE Refusal(500)
  BY DEF Answer, Refusal
<1> HIDE DEF kind, isDir, target
<1> QED
  BY <1>1, <1>2

\* An error response answers what it refuses.
LEMMA FailurePlanned ==
  ASSUME NEW stream, NEW status, NEW last, NEW hdr, Answer(Tree, hdr) = Refusal(status), NEW r
  PROVE  ToWrite("headers", r, Failure(stream, status, last), Response(stream, Answer(Tree, hdr)))
<1>1. IsAnswer(Failure(stream, status, last), Answer(Tree, hdr))
  BY DEF IsAnswer, Failure, Refusal
<1>2. Failure(stream, status, last).stream = stream
  BY DEF Failure
<1>3. Planned(Failure(stream, status, last)) = Response(stream, Answer(Tree, hdr))
  BY <1>1, <1>2, PlannedIsResponse
<1> QED
  BY <1>3 DEF ToWrite

LEMMA SuccessPlanned ==
  ASSUME NEW stream, NEW body, NEW head, NEW hdr, HeadersStatus(hdr) = 200,
         head <=> hdr.method = "HEAD",
         Answer(Tree, hdr) = [status |-> 200, body |-> body, sent |-> hdr.method = "GET" /\ body # <<>>],
         NEW r
  PROVE  ToWrite("headers", r, Success(stream, body, head), Response(stream, Answer(Tree, hdr)))
<1> DEFINE a == Answer(Tree, hdr)
           o == Success(stream, body, head)
<1>1. hdr.method \in {"GET", "HEAD"}
  BY DEF HeadersStatus
<1>2. a.status = 200 /\ a.body = body
  OBVIOUS
<1>3. a.sent = (hdr.method = "GET" /\ body # <<>>)
  OBVIOUS
<1>4. o.status = 200 /\ o.body = body /\ o.off = 0 /\ o.stream = stream
  BY DEF Success
<1>5. o.ends = (head \/ body = <<>>)
  BY DEF Success
<1> HIDE DEF a, o
<1>6. a.sent <=> hdr.method = "GET" /\ body # <<>>
  BY <1>3
<1>7. o.ends <=> head \/ body = <<>>
  BY <1>5
<1>8. o.ends <=> ~a.sent
  BY <1>1, <1>6, <1>7
<1>9. IsAnswer(o, a)
  BY <1>2, <1>4, <1>8 DEF IsAnswer
<1>10. Planned(o) = Response(stream, a)
  BY <1>4, <1>9, PlannedIsResponse
<1> QED
  BY <1>10 DEF ToWrite, a, o

-----------------------------------------------------------------------------
(* The handlers and their peers                                            *)

AllInOrder ==
  edits = 0 =>
    /\ fs = Tree
    /\ \A c \in Conns : InOrder(TakenFrames(c), up[c], down[c], pc[c], req[c], out[c])

LEMMA TakenFacts ==
  ASSUME TypeOK, AllObey, NEW c \in Conns
  PROVE  /\ offered[c] \in Seq(Offers) /\ up[c] \in Chan(Offers)
         /\ Taken(offered[c], up[c]) \in 0..Len(offered[c])
         /\ TakenFrames(c) = SubSeq(offered[c], 1, Taken(offered[c], up[c]))
         /\ TakenFrames(c) \in Seq(Offers)
         /\ ObeysFor(Taken(offered[c], up[c]), offered[c], up[c], pc[c], out[c])
<1> DEFINE n == Taken(offered[c], up[c])
<1>1. offered[c] \in Seq(Offers) /\ up[c] \in Chan(Offers) /\ ObeysFor(n, offered[c], up[c], pc[c], out[c])
  BY HandlerFacts DEF TypeOK, AllObey, Obeys
<1>2. n \in 0..Len(offered[c])
  <2>1. n \in Nat /\ Len(offered[c]) \in Nat /\ Len(up[c].q) \in Nat
    BY <1>1 DEF ObeysFor, Chan
  <2>2. n = Len(offered[c]) - Len(up[c].q)
    BY DEF Taken
  <2>3. \A i, j, k \in Nat : k = i - j => k \in 0..i
    OBVIOUS
  <2> HIDE DEF n
  <2> QED
    BY <2>1, <2>2, <2>3
<1>3. TakenFrames(c) = SubSeq(offered[c], 1, n)
  BY DEF TakenFrames, Taken
<1> HIDE DEF n
<1>4. TakenFrames(c) \in Seq(Offers)
  BY <1>1, <1>2, <1>3, PrefixFacts
<1> QED
  BY <1>1, <1>2, <1>3, <1>4 DEF n

LEMMA OrderStep ==
  ASSUME TypeOK, AllInOrder, edits = 0, NEW c \in Conns, UNCHANGED <<fs, edits>>,
         InOrder(TakenFrames(c)', up'[c], down'[c], pc'[c], req'[c], out'[c]),
         \A d \in Conns \ {c} : UNCHANGED <<offered[d], up[d], down[d], pc[d], req[d], out[d]>>
  PROVE  AllInOrder'
<1>1. fs' = Tree
  BY DEF AllInOrder
<1>2. ASSUME NEW d \in Conns
      PROVE  InOrder(TakenFrames(d)', up'[d], down'[d], pc'[d], req'[d], out'[d])
  <2>1. CASE d = c
    BY <2>1
  <2>2. CASE d # c
    <3>1. /\ offered'[d] = offered[d] /\ up'[d] = up[d] /\ down'[d] = down[d]
          /\ pc'[d] = pc[d] /\ req'[d] = req[d] /\ out'[d] = out[d]
      BY <2>2
    <3>2. TakenFrames(d)' = TakenFrames(d)
      BY <3>1 DEF TakenFrames
    <3>3. InOrder(TakenFrames(d), up[d], down[d], pc[d], req[d], out[d])
      BY DEF AllInOrder
    <3> QED
      BY <3>1, <3>2, <3>3
  <2> QED
    BY <2>1, <2>2
<1> QED
  BY <1>1, <1>2 DEF AllInOrder

\* The handler of c takes no frame.
LEMMA OrderMoves ==
  ASSUME TypeOK, AllInOrder, edits = 0, NEW c \in Conns, NEW b, NEW d, NEW label, NEW r, NEW o,
         UNCHANGED <<fs, edits, offered>>, up' = [up EXCEPT ![c] = b], b.q = up[c].q,
         down' = [down EXCEPT ![c] = d], pc' = [pc EXCEPT ![c] = label],
         req' = [req EXCEPT ![c] = r], out' = [out EXCEPT ![c] = o],
         InOrder(TakenFrames(c), b, d, label, r, o)
  PROVE  AllInOrder'
<1>1. /\ up'[c] = b /\ down'[c] = d /\ pc'[c] = label /\ req'[c] = r /\ out'[c] = o
      /\ offered'[c] = offered[c]
      /\ \A e \in Conns \ {c} : UNCHANGED <<offered[e], up[e], down[e], pc[e], req[e], out[e]>>
  BY DEF TypeOK
<1>2. TakenFrames(c)' = TakenFrames(c)
  BY <1>1 DEF TakenFrames
<1>3. InOrder(TakenFrames(c)', up'[c], down'[c], pc'[c], req'[c], out'[c])
  BY <1>1, <1>2
<1> QED
  BY <1>1, <1>3, OrderStep

LEMMA TakesNext ==
  ASSUME TypeOK, AllObey, NEW c \in Conns, NEW type, Takes(c, type), UNCHANGED offered
  PROVE  /\ TakenFrames(c)' = Append(TakenFrames(c), Head(up[c].q))
         /\ Head(up[c].q) \in Offers
<1> DEFINE q == up[c].q
           n == Taken(offered[c], up[c])
           f == Head(q)
<1>1. /\ q \in Seq(Offers) /\ q # <<>> /\ up'[c] = ReadFrame(up[c]) /\ f \in Offers
      /\ ReadFrame(up[c]).q = Tail(q)
  <2>1. up[c] \in Chan(Offers) /\ CanRead(up[c]) /\ up' = [up EXCEPT ![c] = ReadFrame(up[c])]
    BY HandlerFacts DEF Takes
  <2> QED
    BY <2>1, TakesFacts DEF Chan, CanRead, ReadFrame, TypeOK
<1>2. /\ n \in 0..Len(offered[c]) /\ offered[c] \in Seq(Offers)
      /\ TakenFrames(c) = SubSeq(offered[c], 1, n) /\ q[1] = offered[c][n + 1]
  <2>1. 1 \in 1..Len(q)
    BY <1>1, EmptySeq
  <2> QED
    BY <2>1, TakenFacts DEF ObeysFor
<1>3. Len(Tail(q)) = Len(q) - 1 /\ f = q[1] /\ Len(q) \in Nat \ {0} /\ n = Len(offered[c]) - Len(q)
  BY <1>1, EmptySeq DEF Taken
<1>4. TakenFrames(c)' = SubSeq(offered[c], 1, Len(offered[c]) - Len(Tail(q)))
  BY <1>1 DEF TakenFrames
<1> HIDE DEF q, n, f
<1>5. Len(offered[c]) - Len(Tail(q)) = n + 1 /\ n + 1 \in 1..Len(offered[c])
  BY <1>2, <1>3
<1>6. SubSeq(offered[c], 1, n + 1) = Append(SubSeq(offered[c], 1, n), offered[c][n + 1])
  <2> DEFINE m == n + 1
  <2>1. 1 \in 1..(m) /\ m \in 1..Len(offered[c]) /\ m - 1 = n
    BY <1>2, <1>5
  <2> HIDE DEF m
  <2>2. 1 \in 1..Len(offered[c]) /\ m \in 1..Len(offered[c])
    BY <1>2, <2>1
  <2>3. SubSeq(offered[c], 1, m) = Append(SubSeq(offered[c], 1, m - 1), offered[c][m])
    BY <1>2, <2>2, SubSeqRecursiveSecond
  <2> QED
    BY <2>1, <2>3 DEF m
<1> QED
  BY <1>1, <1>2, <1>3, <1>4, <1>5, <1>6 DEF f, q

\* It takes one.
LEMMA OrderTaken ==
  ASSUME TypeOK, AllObey, AllInOrder, edits = 0, NEW c \in Conns, NEW type, Takes(c, type),
         UNCHANGED <<offered, edits>>, NEW label, NEW r, NEW o, label # "done",
         label = "close" => type = "GOAWAY", label \in {"headers", "data"} => ~o.last,
         pc' = [pc EXCEPT ![c] = label], req' = [req EXCEPT ![c] = r], out' = [out EXCEPT ![c] = o],
         ToWrite(label, r, o, Replies(Tree, Head(up[c].q)))
  PROVE  AllInOrder'
<1> DEFINE f == Head(up[c].q)
           t == TakenFrames(c)
           u == up[c]
           b == ReadFrame(up[c])
           ch == down[c]
<1>1. t \in Seq(Offers) /\ CanRead(u) /\ ch \in Chan(AnyFrame) /\ f \in Offers
  BY TakenFacts, HandlerFacts, TakesNext DEF Takes
<1>2. InOrder(t, u, ch, "read", req[c], out[c])
  BY DEF AllInOrder, Takes
<1>3. label = "close" => f.type = "GOAWAY"
  BY DEF Takes
<1>4. ToWrite(label, r, o, Replies(Tree, f))
  OBVIOUS
<1>5. /\ up'[c] = b /\ down'[c] = ch /\ pc'[c] = label /\ req'[c] = r /\ out'[c] = o
      /\ UNCHANGED <<fs, edits>>
      /\ \A e \in Conns \ {c} : UNCHANGED <<offered[e], up[e], down[e], pc[e], req[e], out[e]>>
  BY DEF Takes, TypeOK
<1>6. TakenFrames(c)' = Append(t, f)
  BY TakesNext
<1>7. InOrder(Append(t, f), b, ch, label, r, o)
  <2> HIDE DEF f, t, u, b, ch
  <2> QED
    BY <1>1, <1>2, <1>3, <1>4, OrderTakes
<1>8. InOrder(TakenFrames(c)', up'[c], down'[c], pc'[c], req'[c], out'[c])
  <2> HIDE DEF f, t, u, b, ch
  <2> QED
    BY <1>5, <1>6, <1>7
<1> QED
  BY <1>5, <1>8, OrderStep

-----------------------------------------------------------------------------
(* What is left to write                                                   *)

LEMMA StatLeaves ==
  ASSUME NEW r, NEW o, NEW p, ToWrite("stat", r, o, p)
  PROVE  /\ Stat(Tree, r.path) = "dir" => ToWrite("index", r, o, p)
         /\ IsRegular(Stat(Tree, r.path)) => ToWrite("open", r, o, p)
         /\ Stat(Tree, r.path) = "missing" => ToWrite("headers", r, Failure(r.stream, 404, FALSE), p)
         /\ /\ Stat(Tree, r.path) # "dir" /\ Stat(Tree, r.path) # "missing"
            /\ ~IsRegular(Stat(Tree, r.path))
            => ToWrite("headers", r, Failure(r.stream, 500, FALSE), p)
<1>1. PICK hdr : Pending("stat", r, hdr) /\ p = Response(r.stream, Answer(Tree, hdr))
  BY DEF ToWrite
<1>2. HeadersStatus(hdr) = 200 /\ r.path = Resolve(hdr.path)
  BY <1>1 DEF Pending
<1>3. ASSUME Stat(Tree, r.path) = "dir" PROVE ToWrite("index", r, o, p)
  <2>1. Pending("index", r, hdr)
    BY <1>1, <1>2, <1>3 DEF Pending
  <2> QED
    BY <1>1, <2>1 DEF ToWrite
<1>4. ASSUME IsRegular(Stat(Tree, r.path)) PROVE ToWrite("open", r, o, p)
  <2>1. Pending("open", r, hdr)
    BY <1>1, <1>2, <1>4 DEF Pending
  <2> QED
    BY <1>1, <2>1 DEF ToWrite
<1>5. ASSUME Stat(Tree, r.path) = "missing"
      PROVE  ToWrite("headers", r, Failure(r.stream, 404, FALSE), p)
  <2>1. Answer(Tree, hdr) = Refusal(404)
    BY <1>2, <1>5, AnswerNotFound
  <2> QED
    BY <1>1, <2>1, FailurePlanned, ZenonT(30)
<1>6. ASSUME Stat(Tree, r.path) # "dir", Stat(Tree, r.path) # "missing", ~IsRegular(Stat(Tree, r.path))
      PROVE  ToWrite("headers", r, Failure(r.stream, 500, FALSE), p)
  <2>1. Answer(Tree, hdr) = Refusal(500)
    BY <1>2, <1>6, AnswerNoFile
  <2> QED
    BY <1>1, <2>1, FailurePlanned, ZenonT(30)
<1> QED
  BY <1>3, <1>4, <1>5, <1>6

LEMMA IndexLeaves ==
  ASSUME NEW r, NEW o, NEW p, ToWrite("index", r, o, p)
  PROVE  /\ IsRegular(Stat(Tree, Index(r.path))) =>
              ToWrite("open", [r EXCEPT !.path = Index(r.path)], o, p)
         /\ ~IsRegular(Stat(Tree, Index(r.path))) =>
              ToWrite("headers", r, Failure(r.stream, 404, FALSE), p)
<1>1. PICK hdr : Pending("index", r, hdr) /\ p = Response(r.stream, Answer(Tree, hdr))
  BY DEF ToWrite
<1>2. /\ HeadersStatus(hdr) = 200 /\ r.path = Resolve(hdr.path) /\ Stat(Tree, r.path) = "dir"
      /\ r = [stream |-> r.stream, head |-> r.head, path |-> r.path]
      /\ (r.head <=> hdr.method = "HEAD")
  BY <1>1 DEF Pending
<1>3. ASSUME IsRegular(Stat(Tree, Index(r.path)))
      PROVE  ToWrite("open", [r EXCEPT !.path = Index(r.path)], o, p)
  <2> DEFINE r2 == [stream |-> r.stream, head |-> r.head, path |-> Index(r.path)]
  <2>1. [r EXCEPT !.path = Index(r.path)] = r2
    BY <1>2
  <2>2. r2.stream = r.stream /\ r2.path = Index(r.path) /\ r2.head = r.head
    OBVIOUS
  <2>3. r2 = [stream |-> r2.stream, head |-> r2.head, path |-> r2.path]
    BY <2>2
  <2> HIDE DEF r2
  <2>4. r2.head <=> hdr.method = "HEAD"
    BY <1>2, <2>2, Zenon
  <2>5. Pending("open", r2, hdr)
    BY <1>2, <1>3, <2>2, <2>3, <2>4 DEF Pending
  <2>6. p = Response(r2.stream, Answer(Tree, hdr))
    BY <1>1, <2>2
  <2>7. ToWrite("open", r2, o, p)
    BY <2>5, <2>6 DEF ToWrite
  <2> QED
    BY <2>1, <2>7
<1>4. ASSUME ~IsRegular(Stat(Tree, Index(r.path)))
      PROVE  ToWrite("headers", r, Failure(r.stream, 404, FALSE), p)
  <2>1. Answer(Tree, hdr) = Refusal(404)
    BY <1>2, <1>4, AnswerNotFound
  <2> QED
    BY <1>1, <2>1, FailurePlanned, ZenonT(30)
<1> QED
  BY <1>3, <1>4

LEMMA OpenLeaves ==
  ASSUME NEW r, NEW o, NEW p, ToWrite("open", r, o, p)
  PROVE  /\ Stat(Tree, r.path) = "file" =>
              ToWrite("headers", r, Success(r.stream, Tree[r.path].data, r.head), p)
         /\ Stat(Tree, r.path) # "file" => ToWrite("headers", r, Failure(r.stream, 500, FALSE), p)
<1>1. PICK hdr : Pending("open", r, hdr) /\ p = Response(r.stream, Answer(Tree, hdr))
  BY DEF ToWrite
<1>2. HeadersStatus(hdr) = 200 /\ (r.head <=> hdr.method = "HEAD")
  BY <1>1 DEF Pending
<1>3. \/ r.path = Resolve(hdr.path) /\ IsRegular(Stat(Tree, Resolve(hdr.path)))
      \/ /\ r.path = Index(Resolve(hdr.path)) /\ Stat(Tree, Resolve(hdr.path)) = "dir"
         /\ IsRegular(Stat(Tree, r.path))
  BY <1>1 DEF Pending
<1>4. Answer(Tree, hdr) =
        IF Stat(Tree, r.path) = "file"
        THEN [status |-> 200, body |-> Tree[r.path].data,
              sent |-> hdr.method = "GET" /\ Tree[r.path].data # <<>>]
        ELSE Refusal(500)
  BY <1>2, <1>3, AnswerFile
<1>5. ASSUME Stat(Tree, r.path) = "file"
      PROVE  ToWrite("headers", r, Success(r.stream, Tree[r.path].data, r.head), p)
  <2>1. Answer(Tree, hdr) = [status |-> 200, body |-> Tree[r.path].data,
                             sent |-> hdr.method = "GET" /\ Tree[r.path].data # <<>>]
    BY <1>4, <1>5
  <2> QED
    BY <1>1, <1>2, <2>1, SuccessPlanned
<1>6. ASSUME Stat(Tree, r.path) # "file"
      PROVE  ToWrite("headers", r, Failure(r.stream, 500, FALSE), p)
  <2>1. Answer(Tree, hdr) = Refusal(500)
    BY <1>4, <1>6
  <2> QED
    BY <1>1, <2>1, FailurePlanned, ZenonT(30)
<1> QED
  BY <1>5, <1>6

LEMMA HeadersLeave ==
  ASSUME NEW r, NEW o, OutgoingOK(o), o.off = 0, o.body # <<>> \/ o.ends,
         NEW p, ToWrite("headers", r, o, p)
  PROVE  \E q \in Seq(AnyFrame) :
           p = <<HeadersFrame(o)>> \o q /\ ToWrite(IF o.ends THEN AfterResponse(o) ELSE "data", r, o, q)
<1>1. p = Planned(o)
  BY DEF ToWrite
<1>2. CASE o.ends
  <2>1. p = <<HeadersFrame(o)>> \o <<>>
    BY <1>1, <1>2 DEF Planned
  <2>2. ToWrite(AfterResponse(o), r, o, <<>>)
    BY DEF ToWrite, AfterResponse
  <2>3. <<>> \in Seq(AnyFrame)
    BY EmptySeq
  <2> QED
    BY <1>2, <2>1, <2>2, <2>3
<1>3. CASE ~o.ends
  <2>1. p = <<HeadersFrame(o)>> \o Parts(o)
    BY <1>1, <1>3 DEF Planned
  <2>2. o.body # <<>>
    BY <1>3
  <2>3. Size(o) \in Nat \ {0} /\ Len(Parts(o)) \in Nat /\ Len(Parts(o)) = (Len(o.body) + Size(o) - 1) \div Size(o)
    BY <2>2, PartsFacts
  <2>4. Parts(o) \in Seq(AnyFrame)
    BY <2>2, PartsType
  <2>5. Len(Parts(o)) # 0
    <3> DEFINE l == Len(o.body)
               s == Size(o)
               n == Len(Parts(o))
    <3>1. l \in Nat /\ l # 0
      BY <2>2, EmptySeq DEF OutgoingOK, Outgoing
    <3>2. s \in Nat \ {0} /\ n \in Nat /\ n = (l + s - 1) \div s
      BY <2>3
    <3> HIDE DEF l, s, n
    <3>3. l <= n * s
      BY <3>1, <3>2, PartsCount
    <3>4. n # 0
      BY <3>1, <3>2, <3>3
    <3> QED
      BY <3>4 DEF n
  <2>6. IsAt(o, 0)
    BY <2>3, <2>5 DEF IsAt
  <2>7. SubSeq(Parts(o), 0 + 1, Len(Parts(o))) = Parts(o)
    <3>1. PICK s \in Seq(AnyFrame) : s = Parts(o)
      BY <2>4
    <3>2. SubSeq(s, 1, Len(s)) = s
      BY SubSeqFull
    <3> QED
      BY <3>1, <3>2
  <2>8. ToWrite("data", r, o, Parts(o))
    BY <2>6, <2>7 DEF ToWrite
  <2> QED
    BY <1>3, <2>1, <2>4, <2>8
<1> QED
  BY <1>2, <1>3

LEMMA DataLeaves ==
  ASSUME NEW r, NEW o, OutgoingOK(o), o.body # <<>>, NEW p, ToWrite("data", r, o, p),
         NEW o2, o2 = [o EXCEPT !.off = ChunkEnd(o)]
  PROVE  \E q \in Seq(AnyFrame) :
           /\ p = <<DataFrame(o)>> \o q
           /\ ToWrite(IF ChunkEnd(o) = Len(o.body) THEN AfterResponse(o) ELSE "data", r, o2, q)
<1>1. PICK k : IsAt(o, k) /\ p = SubSeq(Parts(o), k + 1, Len(Parts(o)))
  BY DEF ToWrite
<1>2. k \in 0..(Len(Parts(o)) - 1) /\ Len(Parts(o)) \in Nat /\ Parts(o) \in Seq(AnyFrame)
  BY <1>1, PartsFacts, PartsType DEF IsAt
<1>3. /\ DataFrame(o) = Parts(o)[k + 1]
      /\ ChunkEnd(o) = Len(o.body) <=> k + 1 = Len(Parts(o))
      /\ k + 1 # Len(Parts(o)) => ChunkEnd(o) = (k + 1) * Size(o)
  BY <1>1, PartDue
<1>4. PICK s \in Seq(AnyFrame) : s = Parts(o)
  BY <1>2
<1> DEFINE q == SubSeq(s, k + 1 + 1, Len(s))
<1>5. p = <<DataFrame(o)>> \o q
  <2>1. SubSeq(s, k + 1, Len(s)) = <<s[k + 1]>> \o q
    BY <1>2, <1>4, FirstOfRest
  <2> QED
    BY <1>1, <1>3, <1>4, <2>1
<1>6. q \in Seq(AnyFrame)
  <2>1. k + 1 + 1 \in Nat /\ k + 1 + 1 >= 1 /\ Len(s) \in Nat /\ Len(s) <= Len(s)
    BY <1>2
  <2> QED
    BY <2>1, SubSeqIn
<1>7. Parts(o2) = Parts(o) /\ Size(o2) = Size(o)
  <2>1. o2.stream = o.stream /\ o2.body = o.body /\ o2.status = o.status
    BY DEF OutgoingOK, Outgoing
  <2> QED
    BY <2>1 DEF Parts, Size
<1>8. o2.off = ChunkEnd(o)
  BY DEF OutgoingOK, Outgoing
<1>9. CASE k + 1 = Len(Parts(o))
  <2>1. q = <<>>
    BY <1>2, <1>4, <1>9
  <2>2. ToWrite(AfterResponse(o), r, o2, <<>>)
    BY DEF ToWrite, AfterResponse
  <2>3. ChunkEnd(o) = Len(o.body)
    BY <1>3, <1>9
  <2> HIDE DEF q
  <2> QED
    BY <1>5, <1>6, <2>1, <2>2, <2>3
<1>10. CASE k + 1 # Len(Parts(o))
  <2>1. k + 1 \in 0..(Len(Parts(o2)) - 1)
    BY <1>2, <1>7, <1>10
  <2>2. o2.off = (k + 1) * Size(o2)
    BY <1>3, <1>7, <1>8, <1>10
  <2>3. IsAt(o2, k + 1)
    BY <2>1, <2>2 DEF IsAt
  <2>4. q = SubSeq(Parts(o2), (k + 1) + 1, Len(Parts(o2)))
    BY <1>4, <1>7
  <2>5. ToWrite("data", r, o2, q)
    BY <2>3, <2>4 DEF ToWrite
  <2>6. ChunkEnd(o) # Len(o.body)
    BY <1>3, <1>10
  <2> HIDE DEF q
  <2> QED
    BY <1>5, <1>6, <2>5, <2>6
<1> QED
  BY <1>9, <1>10

LEMMA HandlerInOrder ==
  ASSUME TypeOK, AllObey, AllWritten, AllInOrder, edits = 0, NEW c \in Conns, Handler(c)
  PROVE  AllInOrder'
<1> DEFINE t  == TakenFrames(c)
           u  == up[c]
           ch == down[c]
           r  == req[c]
           o  == out[c]
<1>a. /\ t \in Seq(Offers) /\ u \in Chan(Offers) /\ ch \in Chan(AnyFrame) /\ OutgoingOK(o)
      /\ InOrder(t, u, ch, pc[c], r, o) /\ UNCHANGED <<offered, edits>>
      /\ Written(ch, pc[c], o) /\ fs = Tree /\ RequestOK(pc[c], r)
  BY TakenFacts, HandlerFacts DEF AllInOrder, AllWritten, Handler
<1>b. /\ up = [up EXCEPT ![c] = u] /\ down = [down EXCEPT ![c] = ch] /\ pc = [pc EXCEPT ![c] = pc[c]]
      /\ req = [req EXCEPT ![c] = r] /\ out = [out EXCEPT ![c] = o]
  BY HandlerFacts DEF Ups, Downs
\* Steps that neither read nor write.
<1>c. ASSUME pc[c] # "done", ~Closing(pc[c], o), NEW next, NEW r2, NEW o2, next # "done",
             ~Closing(next, o2),
             \A p \in Seq(AnyFrame) : ToWrite(pc[c], r, o, p) => ToWrite(next, r2, o2, p),
             UNCHANGED <<up, down, fs>>, pc' = [pc EXCEPT ![c] = next],
             req' = [req EXCEPT ![c] = r2], out' = [out EXCEPT ![c] = o2]
      PROVE  AllInOrder'
  <2>1. next \in {"headers", "data"} => ~o2.last
    BY <1>c DEF Closing
  <2>2. InOrder(t, u, ch, next, r2, o2)
    BY <1>a, <1>c, <2>1, OrderGoes
  <2>3. /\ UNCHANGED <<fs, edits, offered>> /\ up' = [up EXCEPT ![c] = u]
        /\ down' = [down EXCEPT ![c] = ch] /\ u.q = up[c].q
    BY <1>a, <1>b, <1>c
  <2> HIDE DEF u, ch, r, o
  <2> QED
    BY <1>c, <2>2, <2>3, OrderMoves
\* Steps that write f, and writes that fail.
<1>d. ASSUME NEW f \in AnyFrame, NEW next, NEW o2, pc[c] # "done", next # "done",
             Closing(pc[c], o) <=> Closing(next, o2),
             next \in {"headers", "data"} /\ o2.last => pc[c] \in {"headers", "data"} /\ o.last,
             \A p \in Seq(AnyFrame) : ToWrite(pc[c], r, o, p) =>
               \E q \in Seq(AnyFrame) : p = <<f>> \o q /\ ToWrite(next, r, o2, q),
             Writes(c, f), pc' = [pc EXCEPT ![c] = next], out' = [out EXCEPT ![c] = o2]
      PROVE  AllInOrder'
  <2>1. InOrder(t, u, WriteFrame(ch, f), next, r, o2)
    BY <1>a, <1>d, OrderWrites
  <2>2. /\ UNCHANGED <<fs, edits, offered>> /\ up' = [up EXCEPT ![c] = u]
        /\ down' = [down EXCEPT ![c] = WriteFrame(ch, f)] /\ u.q = up[c].q
        /\ req' = [req EXCEPT ![c] = r]
    BY <1>a, <1>b, <1>d DEF Writes
  <2> HIDE DEF u, ch, r, o
  <2> QED
    BY <1>d, <2>1, <2>2, OrderMoves
<1>e. ASSUME NEW next, pc[c] # "done", next # "done", WriteError(c),
             pc' = [pc EXCEPT ![c] = next], UNCHANGED out
      PROVE  AllInOrder'
  <2>1. ch.end # "open"
    BY <1>e DEF WriteError, WriteFails
  <2>2. InOrder(t, u, ch, next, r, o)
    BY <1>a, <1>e, <2>1, OrderLost
  <2>3. /\ UNCHANGED <<fs, edits, offered>> /\ up' = [up EXCEPT ![c] = u]
        /\ down' = [down EXCEPT ![c] = ch] /\ u.q = up[c].q
        /\ req' = [req EXCEPT ![c] = r] /\ out' = [out EXCEPT ![c] = o]
    BY <1>a, <1>b, <1>e DEF WriteError
  <2> HIDE DEF u, ch, r, o
  <2> QED
    BY <1>e, <2>2, <2>3, OrderMoves
<1>f. ASSUME NEW p, Reply(c, p) PROVE out' = [out EXCEPT ![c] = p] /\ pc' = [pc EXCEPT ![c] = "headers"]
  BY <1>f DEF Reply, Goto
<1>g. \A stream, status : ~Closing("headers", Failure(stream, status, FALSE))
  BY DEF Failure, Closing, Finished
<1>h. \A stream, body, head : ~Closing("headers", Success(stream, body, head))
  BY DEF Success, Closing, Finished
<1>i. ASSUME NEW label \in {"none", "read", "pong", "stat", "index", "open"}, NEW p PROVE ~Closing(label, p)
  BY <1>i DEF Closing, Finished
<1>1. CASE Accept(c)
  <2>1. pc[c] = "none" /\ pc' = [pc EXCEPT ![c] = "read"] /\ UNCHANGED <<up, down, fs, req, out>>
    BY <1>1 DEF Accept, Goto, local
  <2>2. \A p : ToWrite("none", r, o, p) => ToWrite("read", r, o, p)
    BY DEF ToWrite
  <2>3. ~Closing("none", o) /\ ~Closing("read", o)
    BY <1>i
  <2>4. req' = [req EXCEPT ![c] = r] /\ out' = [out EXCEPT ![c] = o]
    BY <1>b, <2>1
  <2> HIDE DEF r, o, u, ch, t
  <2> QED
    BY <1>c, <2>1, <2>2, <2>3, <2>4
<1> DEFINE f == Head(up[c].q)
<1>2. CASE SkipUnknown(c) \/ IgnoreData(c)
  <2>1. PICK type \in {"UNKNOWN", "DATA"} : Takes(c, type)
    BY <1>2 DEF SkipUnknown, IgnoreData
  <2>2. pc[c] = "read" /\ UNCHANGED <<pc, req, out>> /\ f.type = type
    BY <1>2, <2>1 DEF SkipUnknown, IgnoreData, Takes, local
  <2>3. Replies(Tree, f) = <<>>
    BY <2>1, <2>2, RepliesTo
  <2>4. ToWrite("read", r, o, Replies(Tree, f))
    BY <2>3 DEF ToWrite
  <2>5. /\ pc' = [pc EXCEPT ![c] = "read"] /\ req' = [req EXCEPT ![c] = r]
        /\ out' = [out EXCEPT ![c] = o]
    BY <1>b, <2>2
  <2>6. "read" \notin {"done", "close", "headers", "data"} /\ UNCHANGED <<offered, edits>>
    BY <1>a
  <2> HIDE DEF r, o
  <2> QED
    BY <2>1, <2>4, <2>5, <2>6, OrderTaken, Zenon
<1>3. CASE TakePing(c)
  <2>1. /\ Takes(c, "PING") /\ pc' = [pc EXCEPT ![c] = "pong"]
        /\ req' = [req EXCEPT ![c] = f] /\ out' = [out EXCEPT ![c] = o] /\ f.type = "PING"
    BY <1>3, <1>b DEF TakePing, Goto, Takes
  <2>2. Replies(Tree, f) = <<PongFrame(f)>>
    BY <2>1, RepliesTo
  <2>3. ToWrite("pong", f, o, Replies(Tree, f))
    BY <2>2 DEF ToWrite
  <2>4. "pong" \notin {"done", "close", "headers", "data"} /\ UNCHANGED <<offered, edits>>
    BY <1>a
  <2> HIDE DEF r, o
  <2> QED
    BY <2>1, <2>3, <2>4, OrderTaken, Zenon
<1>4. CASE TakeGoAway(c)
  <2>1. /\ Takes(c, "GOAWAY") /\ pc' = [pc EXCEPT ![c] = "close"]
        /\ req' = [req EXCEPT ![c] = r] /\ out' = [out EXCEPT ![c] = o] /\ f.type = "GOAWAY"
    BY <1>4, <1>b DEF TakeGoAway, Goto, Takes, local
  <2>2. Replies(Tree, f) = <<>>
    BY <2>1, RepliesTo
  <2>3. ToWrite("close", r, o, Replies(Tree, f))
    BY <2>2 DEF ToWrite
  <2> HIDE DEF r, o, f
  <2> QED
    BY <1>a, <2>1, <2>3, OrderTaken DEF f
<1>5. CASE TakeHeaders(c)
  <2> DEFINE path == Resolve(f.hdr.path)
             r2 == [stream |-> f.stream, head |-> f.hdr.method = "HEAD", path |-> path]
  <2>1. Takes(c, "HEADERS") /\ f.type = "HEADERS"
    BY <1>5 DEF TakeHeaders, Takes
  <2>2. Replies(Tree, f) = Response(f.stream, Answer(Tree, f.hdr))
    BY <2>1, RepliesTo
  <2>3. CASE /\ HeadersStatus(f.hdr) = 200 /\ req' = [req EXCEPT ![c] = r2]
             /\ pc' = [pc EXCEPT ![c] = "stat"] /\ UNCHANGED out
    <3>1. r2.stream = f.stream /\ r2.path = path
      OBVIOUS
    <3>2. r2.head = (f.hdr.method = "HEAD")
      OBVIOUS
    <3>3. r2 = [stream |-> r2.stream, head |-> r2.head, path |-> r2.path]
      BY <3>1, <3>2
    <3> HIDE DEF r2
    <3>4. r2.head <=> f.hdr.method = "HEAD"
      BY <3>2
    <3>5. Pending("stat", r2, f.hdr)
      BY <2>3, <3>1, <3>3, <3>4 DEF Pending
    <3>6. ToWrite("stat", r2, o, Replies(Tree, f))
      BY <2>2, <3>1, <3>5 DEF ToWrite
    <3>7. out' = [out EXCEPT ![c] = o]
      BY <1>b, <2>3
    <3>8. "stat" \notin {"done", "close", "headers", "data"} /\ UNCHANGED <<offered, edits>>
      BY <1>a
    <3>9. req' = [req EXCEPT ![c] = r2] /\ pc' = [pc EXCEPT ![c] = "stat"]
      BY <2>3
    <3> HIDE DEF r, o
    <3> QED
      BY <2>1, <3>6, <3>7, <3>8, <3>9, OrderTaken, Zenon
  <2>4. CASE HeadersStatus(f.hdr) # 200 /\ Reply(c, Failure(f.stream, HeadersStatus(f.hdr), FALSE)) /\ UNCHANGED req
    <3> DEFINE e == Failure(f.stream, HeadersStatus(f.hdr), FALSE)
    <3>1. Answer(Tree, f.hdr) = Refusal(HeadersStatus(f.hdr))
      BY <2>4, AnswerRefused
    <3>2. ToWrite("headers", r, e, Replies(Tree, f))
      BY <2>2, <3>1, FailurePlanned
    <3>3. ~e.last
      BY DEF Failure
    <3>4. out' = [out EXCEPT ![c] = e] /\ pc' = [pc EXCEPT ![c] = "headers"] /\ req' = [req EXCEPT ![c] = r]
      BY <1>b, <1>f, <2>4
    <3>5. "headers" # "done" /\ "headers" # "close" /\ UNCHANGED <<offered, edits>>
      BY <1>a
    <3> HIDE DEF r, o, e
    <3> QED
      BY <2>1, <3>2, <3>3, <3>4, <3>5, OrderTaken, Zenon
  <2> QED
    BY <1>5, <2>3, <2>4 DEF TakeHeaders, Goto
<1>6. CASE StatPath(c)
  <2> DEFINE kind == Stat(Tree, r.path)
  <2>1. pc[c] = "stat" /\ UNCHANGED <<up, down, fs, req>> /\ req' = [req EXCEPT ![c] = r] /\ ~Closing("stat", o)
    BY <1>6, <1>b, <1>i DEF StatPath
  <2>2. ASSUME NEW next \in {"index", "open"}, Goto(c, next), UNCHANGED out,
               \A p : ToWrite("stat", r, o, p) => ToWrite(next, r, o, p)
        PROVE  AllInOrder'
    <3>1. pc' = [pc EXCEPT ![c] = next] /\ out' = [out EXCEPT ![c] = o] /\ ~Closing(next, o) /\ next # "done"
      BY <1>b, <1>i, <2>2 DEF Goto
    <3> HIDE DEF r, o, u, ch, t
    <3> QED
      BY <1>c, <2>1, <2>2, <3>1
  <2>3. ASSUME NEW e, Reply(c, e), ~Closing("headers", e),
               \A p : ToWrite("stat", r, o, p) => ToWrite("headers", r, e, p)
        PROVE  AllInOrder'
    <3>1. pc' = [pc EXCEPT ![c] = "headers"] /\ out' = [out EXCEPT ![c] = e]
      BY <1>f, <2>3
    <3> HIDE DEF r, o, u, ch, t
    <3> QED
      BY <1>c, <2>1, <2>3, <3>1
  <2>4. CASE kind = "dir" /\ Goto(c, "index") /\ UNCHANGED out
    <3>1. \A p : ToWrite("stat", r, o, p) => ToWrite("index", r, o, p)
      BY <2>4, StatLeaves
    <3> QED
      BY <2>2, <2>4, <3>1
  <2>5. CASE IsRegular(kind) /\ Goto(c, "open") /\ UNCHANGED out
    <3>1. \A p : ToWrite("stat", r, o, p) => ToWrite("open", r, o, p)
      BY <2>5, StatLeaves
    <3> QED
      BY <2>2, <2>5, <3>1
  <2>6. CASE kind = "missing" /\ Reply(c, Failure(r.stream, 404, FALSE))
    <3>1. \A p : ToWrite("stat", r, o, p) => ToWrite("headers", r, Failure(r.stream, 404, FALSE), p)
      BY <2>6, StatLeaves, ZenonT(30)
    <3> QED
      BY <1>g, <2>3, <2>6, <3>1
  <2>7. CASE /\ kind # "dir" /\ kind # "missing" /\ ~IsRegular(kind)
             /\ Reply(c, Failure(r.stream, 500, FALSE))
    <3>1. \A p : ToWrite("stat", r, o, p) => ToWrite("headers", r, Failure(r.stream, 500, FALSE), p)
      BY <2>7, StatLeaves, ZenonT(30)
    <3> QED
      BY <1>g, <2>3, <2>7, <3>1
  <2>8. \/ kind = "dir" /\ Goto(c, "index") /\ UNCHANGED out
        \/ IsRegular(kind) /\ Goto(c, "open") /\ UNCHANGED out
        \/ kind = "missing" /\ Reply(c, Failure(r.stream, 404, FALSE))
        \/ /\ kind # "dir" /\ kind # "missing" /\ ~IsRegular(kind)
           /\ Reply(c, Failure(r.stream, 500, FALSE))
    <3>1. fs = Tree
      BY <1>a
    <3>2. Stat(fs, req[c].path) = kind
      BY <3>1
    <3> HIDE DEF kind
    <3>3. CASE (kind # "dir" /\ ~IsRegular(kind)) /\ kind # "missing"
      BY <1>6, <3>2, <3>3 DEF StatPath
    <3>4. CASE kind = "dir"
      BY <1>6, <3>2, <3>4 DEF StatPath, IsRegular
    <3>5. CASE kind = "missing"
      <4>1. ~IsRegular("missing") /\ Stat(fs, req[c].path) = "missing"
        BY <3>2, <3>5 DEF IsRegular
      <4>2. Reply(c, Failure(req[c].stream, 404, FALSE))
        BY <1>6, <4>1 DEF StatPath
      <4> QED
        BY <3>5, <4>2
    <3>6. CASE IsRegular(kind)
      BY <1>6, <3>2, <3>6 DEF StatPath, IsRegular
    <3> QED
      BY <3>3, <3>4, <3>5, <3>6
  <2> QED
    BY <2>4, <2>5, <2>6, <2>7, <2>8, ZenonT(30)
<1>7. CASE StatIndex(c)
  <2> DEFINE r2 == [r EXCEPT !.path = Index(r.path)]
  <2>1. pc[c] = "index" /\ UNCHANGED <<up, down, fs>> /\ ~Closing("index", o)
    BY <1>7, <1>i DEF StatIndex
  <2>2. CASE /\ IsRegular(Stat(Tree, Index(r.path))) /\ req' = [req EXCEPT ![c] = r2]
             /\ Goto(c, "open") /\ UNCHANGED out
    <3>1. \A p : ToWrite("index", r, o, p) => ToWrite("open", r2, o, p)
      BY <2>2, IndexLeaves
    <3>2. pc' = [pc EXCEPT ![c] = "open"] /\ out' = [out EXCEPT ![c] = o] /\ ~Closing("open", o)
      BY <1>b, <1>i, <2>2 DEF Goto
    <3> HIDE DEF r, o, u, ch, t, r2
    <3> QED
      BY <1>c, <2>1, <2>2, <3>1, <3>2
  <2>3. CASE /\ ~IsRegular(Stat(Tree, Index(r.path))) /\ UNCHANGED req
             /\ Reply(c, Failure(r.stream, 404, FALSE))
    <3>1. \A p : ToWrite("index", r, o, p) => ToWrite("headers", r, Failure(r.stream, 404, FALSE), p)
      BY <2>3, IndexLeaves
    <3>2. /\ pc' = [pc EXCEPT ![c] = "headers"] /\ req' = [req EXCEPT ![c] = r]
          /\ out' = [out EXCEPT ![c] = Failure(r.stream, 404, FALSE)]
      BY <1>b, <1>f, <2>3, ZenonT(30)
    <3> HIDE DEF r, o, u, ch, t
    <3> QED
      BY <1>c, <1>g, <2>1, <3>1, <3>2, ZenonT(30)
  <2>4. [req EXCEPT ![c].path = Index(@)] = [req EXCEPT ![c] = r2]
    OBVIOUS
  <2> QED
    BY <1>7, <1>a, <2>2, <2>3, <2>4 DEF StatIndex
<1>8. CASE ReadFile(c)
  <2>1. pc[c] = "open" /\ UNCHANGED <<up, down, fs, req>> /\ req' = [req EXCEPT ![c] = r] /\ ~Closing("open", o)
    BY <1>8, <1>b, <1>i DEF ReadFile
  <2>3. ASSUME NEW e, Reply(c, e), ~Closing("headers", e),
               \A p : ToWrite("open", r, o, p) => ToWrite("headers", r, e, p)
        PROVE  AllInOrder'
    <3>1. pc' = [pc EXCEPT ![c] = "headers"] /\ out' = [out EXCEPT ![c] = e]
      BY <1>f, <2>3
    <3> HIDE DEF r, o, u, ch, t
    <3> QED
      BY <1>c, <2>1, <2>3, <3>1
  <2>4. CASE Stat(Tree, r.path) = "file" /\ Reply(c, Success(r.stream, Tree[r.path].data, r.head))
    <3>1. \A p : ToWrite("open", r, o, p) => ToWrite("headers", r, Success(r.stream, Tree[r.path].data, r.head), p)
      <4> SUFFICES ASSUME NEW p, ToWrite("open", r, o, p)
                   PROVE  ToWrite("headers", r, Success(r.stream, Tree[r.path].data, r.head), p)
        OBVIOUS
      <4>1. Stat(Tree, r.path) = "file"
        BY <2>4
      <4> HIDE DEF r, o
      <4> QED
        BY <4>1, OpenLeaves
    <3> QED
      BY <1>h, <2>3, <2>4, <3>1
  <2>5. CASE Stat(Tree, r.path) # "file" /\ Reply(c, Failure(r.stream, 500, FALSE))
    <3>1. \A p : ToWrite("open", r, o, p) => ToWrite("headers", r, Failure(r.stream, 500, FALSE), p)
      <4> SUFFICES ASSUME NEW p, ToWrite("open", r, o, p)
                   PROVE  ToWrite("headers", r, Failure(r.stream, 500, FALSE), p)
        OBVIOUS
      <4>1. Stat(Tree, r.path) # "file"
        BY <2>5
      <4> HIDE DEF r, o
      <4> QED
        BY <4>1, OpenLeaves
    <3> QED
      BY <1>g, <2>3, <2>5, <3>1
  <2> QED
    BY <1>8, <1>a, <2>4, <2>5 DEF ReadFile
<1>9. CASE Pong(c)
  <2>1. pc[c] = "pong" /\ pc' = [pc EXCEPT ![c] = "read"] /\ UNCHANGED out /\ out' = [out EXCEPT ![c] = o]
    BY <1>9, <1>b DEF Pong, Goto
  <2>2. CASE WriteError(c)
    BY <1>e, <2>1, <2>2
  <2>3. CASE Writes(c, PongFrame(r))
    <3>1. PongFrame(r) \in AnyFrame
      BY <1>a, <2>1, PongFrameType DEF RequestOK
    <3>2. ASSUME NEW p \in Seq(AnyFrame), ToWrite("pong", r, o, p)
          PROVE  \E q \in Seq(AnyFrame) : p = <<PongFrame(r)>> \o q /\ ToWrite("read", r, o, q)
      <4>1. p = <<PongFrame(r)>>
        BY <3>2 DEF ToWrite
      <4>2. p = p \o <<>> /\ <<>> \in Seq(AnyFrame)
        BY ConcatEmptySeq, EmptySeq
      <4>3. ToWrite("read", r, o, <<>>)
        BY DEF ToWrite
      <4> QED
        BY <4>1, <4>2, <4>3
    <3>3. ~Closing("pong", o) /\ ~Closing("read", o)
      BY <1>i
    <3> HIDE DEF r, o, u, ch, t
    <3> QED
      BY <1>d, <2>1, <2>3, <3>1, <3>2, <3>3
  <2> QED
    BY <1>9, <2>2, <2>3 DEF Pong
<1>10. CASE SendHeaders(c)
  <2> DEFINE next == IF o.ends THEN AfterResponse(o) ELSE "data"
  <2>1. pc[c] = "headers" /\ UNCHANGED out /\ out' = [out EXCEPT ![c] = o]
    BY <1>10, <1>b DEF SendHeaders
  <2>2. CASE WriteError(c) /\ Goto(c, IF o.status = 200 THEN "read" ELSE "data")
    <3>1. pc' = [pc EXCEPT ![c] = IF o.status = 200 THEN "read" ELSE "data"]
      BY <2>2 DEF Goto
    <3> QED
      BY <1>e, <2>1, <2>2, <3>1
  <2>3. CASE Writes(c, HeadersFrame(o)) /\ Goto(c, next)
    <3>1. HeadersFrame(o) \in AnyFrame
      BY <1>a, HeadersFrameType DEF OutgoingOK
    <3>2. o.off = 0 /\ (o.body # <<>> \/ o.ends)
      BY <1>a, <2>1 DEF Written
    <3>3. \A p \in Seq(AnyFrame) : ToWrite("headers", r, o, p) =>
            \E q \in Seq(AnyFrame) : p = <<HeadersFrame(o)>> \o q /\ ToWrite(next, r, o, q)
      BY <1>a, <3>2, HeadersLeave
    <3>4. next \in {"read", "close", "data"} /\ (next = "close" => o.last) /\ (next = "read" => ~o.last)
      BY DEF AfterResponse
    <3>5. pc' = [pc EXCEPT ![c] = next]
      BY <2>3 DEF Goto
    <3> HIDE DEF r, o, u, ch, t, next
    <3>6. Closing("headers", o) <=> Closing(next, o)
      BY <3>4 DEF Closing, Finished
    <3>7. next \in {"headers", "data"} /\ o.last => "headers" \in {"headers", "data"} /\ o.last
      OBVIOUS
    <3>8. next # "done"
      BY <3>4
    <3>9. Writes(c, HeadersFrame(o))
      BY <2>3
    <3> QED
      BY <1>d, <2>1, <3>1, <3>3, <3>5, <3>6, <3>7, <3>8, <3>9, ZenonT(30)
  <2> QED
    BY <1>10, <2>2, <2>3 DEF SendHeaders
<1>11. CASE SendData(c)
  <2> DEFINE o2 == [o EXCEPT !.off = ChunkEnd(o)]
             next == IF ChunkEnd(o) = Len(o.body) THEN AfterResponse(o) ELSE "data"
  <2>1. pc[c] = "data"
    BY <1>11 DEF SendData
  <2>2. CASE WriteError(c) /\ Goto(c, AfterResponse(o)) /\ UNCHANGED out
    <3>1. pc' = [pc EXCEPT ![c] = AfterResponse(o)] /\ AfterResponse(o) # "done"
      BY <2>2 DEF Goto, AfterResponse
    <3> QED
      BY <1>e, <2>1, <2>2, <3>1
  <2>3. CASE Writes(c, DataFrame(o)) /\ out' = [out EXCEPT ![c].off = ChunkEnd(o)] /\ Goto(c, next)
    <3>1. o.off < Len(o.body)
      BY <1>a, <2>1 DEF Written
    <3>2. DataFrame(o) \in AnyFrame
      BY <1>a, <3>1, DataFrameType DEF OutgoingOK
    <3>3. o.body # <<>>
      BY <1>a, <3>1 DEF OutgoingOK, Outgoing
    <3>4. \A p \in Seq(AnyFrame) : ToWrite("data", r, o, p) =>
            \E q \in Seq(AnyFrame) : p = <<DataFrame(o)>> \o q /\ ToWrite(next, r, o2, q)
      BY <1>a, <3>3, DataLeaves
    <3>5. next \in {"read", "close", "data"} /\ (next = "close" => o.last) /\ (next = "read" => ~o.last)
      BY DEF AfterResponse
    <3>6. o2.last = o.last
      BY <1>a DEF OutgoingOK, Outgoing
    <3>7. pc' = [pc EXCEPT ![c] = next] /\ out' = [out EXCEPT ![c] = o2]
      BY <1>b, <2>3 DEF Goto
    <3> HIDE DEF r, o, u, ch, t, next, o2
    <3>8. Closing("data", o) <=> Closing(next, o2)
      BY <3>5, <3>6 DEF Closing, Finished
    <3>9. next \in {"headers", "data"} /\ o2.last => "data" \in {"headers", "data"} /\ o.last
      BY <3>6
    <3>10. next # "done" /\ Writes(c, DataFrame(o))
      BY <2>3, <3>5
    <3> QED
      BY <1>d, <2>1, <3>2, <3>4, <3>7, <3>8, <3>9, <3>10, ZenonT(30)
  <2> QED
    BY <1>11, <2>2, <2>3 DEF SendData
<1>12. CASE ReadFails(c)
  <2> DEFINE e == Failure(1, 400, TRUE)
  <2>1. pc[c] = "read" /\ AtEnd(u) /\ UNCHANGED <<up, down, fs, req>> /\ req' = [req EXCEPT ![c] = r]
    BY <1>12, <1>b DEF ReadFails
  <2>2. ObeysFor(Taken(offered[c], u), offered[c], u, "read", o)
    BY <2>1, TakenFacts
  <2>3. u.end # "gone"
    BY <2>2 DEF ObeysFor
  <2>4. t # <<>> => Last(t).type # "GOAWAY"
    <3> DEFINE n == Taken(offered[c], u)
    <3>1. t = SubSeq(offered[c], 1, n) /\ offered[c] \in Seq(Offers) /\ n \in 0..Len(offered[c])
      BY TakenFacts
    <3>2. \A i \in 1..n : offered[c][i].type # "GOAWAY"
      BY <2>2 DEF ObeysFor, Finished
    <3> HIDE DEF n, t
    <3>3. t \in Seq(Offers) /\ Len(t) = n /\ \A i \in 1..n : t[i] = offered[c][i]
      BY <3>1, PrefixFacts
    <3> SUFFICES ASSUME t # <<>> PROVE Last(t).type # "GOAWAY"
      OBVIOUS
    <3>4. n \in 1..n
      BY <3>1, <3>3, EmptySeq
    <3>5. Last(t) = t[n]
      BY <3>3 DEF Last
    <3> QED
      BY <3>2, <3>3, <3>4, <3>5
  <2>5. InOrder(t, u, ch, "read", r, o)
    BY <1>a, <2>1
  <2>6. /\ ReadError(u) = "EOF" => InOrder(t, u, ch, "close", r, o)
        /\ ReadError(u) # "EOF" => InOrder(t, u, ch, "headers", r, e)
    <3> HIDE DEF t, u, ch, r, o
    <3> QED
      BY <1>a, <2>1, <2>3, <2>4, <2>5, OrderEnds
  <2>7. ASSUME NEW label, NEW p, InOrder(t, u, ch, label, r, p), pc' = [pc EXCEPT ![c] = label],
               out' = [out EXCEPT ![c] = p]
        PROVE  AllInOrder'
    <3>1. /\ UNCHANGED <<fs, edits, offered>> /\ up' = [up EXCEPT ![c] = u]
          /\ down' = [down EXCEPT ![c] = ch] /\ u.q = up[c].q
      BY <1>a, <1>b, <2>1
    <3> HIDE DEF u, ch, r, o
    <3> QED
      BY <2>1, <2>7, <3>1, OrderMoves
  <2>8. CASE ReadError(u) = "EOF" /\ Goto(c, "close") /\ UNCHANGED out
    <3>1. pc' = [pc EXCEPT ![c] = "close"] /\ out' = [out EXCEPT ![c] = o]
      BY <1>b, <2>8 DEF Goto
    <3> QED
      BY <2>6, <2>7, <2>8, <3>1
  <2>9. CASE ReadError(u) # "EOF" /\ Reply(c, e)
    BY <1>f, <2>6, <2>7, <2>9
  <2> QED
    BY <1>12, <2>8, <2>9 DEF ReadFails
<1>13. CASE Close(c)
  <2> DEFINE b == ClosedByReader(u)
  <2>1. /\ pc[c] = "close" /\ up' = [up EXCEPT ![c] = b] /\ pc' = [pc EXCEPT ![c] = "done"]
        /\ UNCHANGED <<fs, req, out>>
        /\ req' = [req EXCEPT ![c] = r] /\ out' = [out EXCEPT ![c] = o]
    BY <1>13, <1>b DEF Close, Goto, local
  <2>2. PICK d \in ClosedByWriter(ch, CanRead(u)) : down' = [down EXCEPT ![c] = d]
    BY <1>13 DEF Close
  <2>3. InOrder(t, u, ch, "close", r, o)
    BY <1>a, <2>1
  <2>4. InOrder(t, b, d, "done", r, o)
    <3> HIDE DEF t, u, ch, r, o
    <3> QED
      BY <1>a, <2>2, <2>3, OrderCloses
  <2>5. b.q = up[c].q
    BY <1>a DEF ClosedByReader, Chan
  <2> HIDE DEF b, r, o
  <2> QED
    BY <1>a, <2>1, <2>2, <2>4, <2>5, OrderMoves
<1> QED
  BY <1>1, <1>2, <1>3, <1>4, <1>5, <1>6, <1>7, <1>8, <1>9, <1>10, <1>11, <1>12, <1>13
  DEF Handler, Handle

LEMMA BreakTakes ==
  ASSUME NEW off \in Seq(Offers), NEW ch \in Chan(Offers), Taken(off, ch) \in 0..Len(off),
         NEW m \in 0..Len(ch.q), NEW b, b.q = SubSeq(ch.q, 1, m),
         NEW cut, cut = SubSeq(off, 1, Len(off) - Len(ch.q) + Len(b.q))
  PROVE  SubSeq(cut, 1, Len(cut) - Len(b.q)) = SubSeq(off, 1, Taken(off, ch))
<1> DEFINE n == Taken(off, ch)
           k == n + m
<1>1. ch.q \in Seq(Offers) /\ Len(b.q) = m
  BY PrefixFacts DEF Chan
<1>2. n = Len(off) - Len(ch.q) /\ n \in 0..Len(off) /\ Len(off) \in Nat /\ Len(ch.q) \in Nat /\ m \in Nat
  BY <1>1 DEF Taken
<1> HIDE DEF n
<1>3. k \in 0..Len(off) /\ n \in 0..k /\ k - m = n /\ Len(off) - Len(ch.q) + Len(b.q) = k
  BY <1>1, <1>2, SMTT(30)
<1> HIDE DEF k
<1>4. cut = SubSeq(off, 1, k)
  BY <1>3
<1>5. cut \in Seq(Offers) /\ Len(cut) = k /\ \A i \in 1..k : cut[i] = off[i]
  BY <1>3, <1>4, PrefixFacts, ZenonT(30)
<1>6. /\ SubSeq(cut, 1, n) \in Seq(Offers) /\ Len(SubSeq(cut, 1, n)) = n
      /\ \A i \in 1..n : SubSeq(cut, 1, n)[i] = cut[i]
  <2>1. n \in 0..Len(cut) /\ cut \in Seq(Offers)
    BY <1>3, <1>5
  <2> QED
    BY <2>1, PrefixFacts
<1>7. /\ SubSeq(off, 1, n) \in Seq(Offers) /\ Len(SubSeq(off, 1, n)) = n
      /\ \A i \in 1..n : SubSeq(off, 1, n)[i] = off[i]
  BY <1>2, PrefixFacts
<1>8. \A i \in 1..n : SubSeq(cut, 1, n)[i] = SubSeq(off, 1, n)[i]
  <2>1. \A i \in 1..n : i \in 1..k
    BY <1>3
  <2> QED
    BY <1>5, <1>6, <1>7, <2>1
<1>9. SubSeq(cut, 1, n) = SubSeq(off, 1, n)
  <2> DEFINE x == SubSeq(cut, 1, n)
             y == SubSeq(off, 1, n)
  <2>1. x \in Seq(Offers) /\ y \in Seq(Offers) /\ Len(x) = Len(y) /\ \A i \in 1..Len(x) : x[i] = y[i]
    BY <1>6, <1>7, <1>8
  <2> HIDE DEF x, y
  <2>2. x = y
    BY <2>1, SeqEqual
  <2> QED
    BY <2>2 DEF x, y
<1>10. Len(cut) - Len(b.q) = n
  BY <1>1, <1>3, <1>5
<1> QED
  BY <1>9, <1>10 DEF n

LEMMA PeerInOrder ==
  ASSUME TypeOK, AllObey, AllInOrder, edits = 0, NEW c \in Conns,
         PeerSend(c) \/ PeerCut(c) \/ PeerGone(c) \/ Break(c)
  PROVE  AllInOrder'
<1> DEFINE t  == TakenFrames(c)
           u  == up[c]
           ch == down[c]
           r  == req[c]
           o  == out[c]
           n  == Taken(offered[c], up[c])
<1>a. /\ t \in Seq(Offers) /\ u \in Chan(Offers) /\ ch \in Chan(AnyFrame)
      /\ InOrder(t, u, ch, pc[c], r, o) /\ UNCHANGED <<fs, edits, pc, req, out>>
      /\ t = SubSeq(offered[c], 1, n) /\ n \in 0..Len(offered[c]) /\ offered[c] \in Seq(Offers)
      /\ ObeysFor(n, offered[c], u, pc[c], o)
  BY TakenFacts, HandlerFacts DEF AllInOrder, PeerSend, PeerCut, PeerGone, Break, local
<1>b. up = [up EXCEPT ![c] = u] /\ down = [down EXCEPT ![c] = ch]
  BY HandlerFacts DEF Ups, Downs
<1>c. pc[c] = "done" => u.end # "open"
  BY <1>a DEF InOrder
<1>d. ASSUME NEW off, NEW b, NEW d, up' = [up EXCEPT ![c] = b], down' = [down EXCEPT ![c] = d],
             offered' = [offered EXCEPT ![c] = off],
             SubSeq(off, 1, Len(off) - Len(b.q)) = t, InOrder(t, b, d, pc[c], r, o)
      PROVE  AllInOrder'
  <2>1. /\ offered'[c] = off /\ up'[c] = b /\ down'[c] = d /\ pc'[c] = pc[c] /\ req'[c] = r /\ out'[c] = o
        /\ \A e \in Conns \ {c} : UNCHANGED <<offered[e], up[e], down[e], pc[e], req[e], out[e]>>
    BY <1>a, <1>d DEF TypeOK
  <2>2. TakenFrames(c)' = t
    BY <1>d, <2>1 DEF TakenFrames
  <2>3. InOrder(TakenFrames(c)', up'[c], down'[c], pc'[c], req'[c], out'[c])
    <3> HIDE DEF t, u, ch, r, o
    <3> QED
      BY <1>d, <2>1, <2>2
  <2> QED
    BY <1>a, <2>1, <2>3, OrderStep
\* While the peer may send, nothing has been cut.
<1>e. ASSUME u.end = "open", NEW v
      PROVE  pc[c] # "done" /\ ~AtCut(t, u) /\ (Closing(pc[c], o) /\ AtCut(t, v) => FALSE)
  <2>1. ~AtCut(t, u)
    BY <1>e DEF AtCut, Cuts
  <2>2. SUFFICES ASSUME Closing(pc[c], o) PROVE ~AtCut(t, v)
    BY <1>c, <1>e, <2>1
  <2>3. ~NoMore(u)
    BY <1>e DEF NoMore, Cuts
  <2>4. n # 0 /\ offered[c][n].type = "GOAWAY"
    BY <1>a, <2>2, <2>3 DEF Closing, ObeysFor
  <2>5. t # <<>> /\ Last(t) = offered[c][n]
    <3>1. t \in Seq(Offers) /\ Len(t) = n /\ \A i \in 1..n : t[i] = offered[c][i]
      <4> HIDE DEF n, t
      <4> QED
        BY <1>a, PrefixFacts
    <3>2. n \in 1..n
      BY <1>a, <2>4
    <3> HIDE DEF n, t
    <3> QED
      BY <2>4, <3>1, <3>2, EmptySeq DEF Last
  <2> QED
    BY <2>4, <2>5 DEF AtCut
<1>1. CASE PeerSend(c)
  <2>1. PICK f \in Offers : /\ up' = [up EXCEPT ![c] = WriteFrame(u, f)]
                            /\ offered' = [offered EXCEPT ![c] = Append(offered[c], f)]
    BY <1>1 DEF PeerSend
  <2>2. u.end = "open" /\ down' = [down EXCEPT ![c] = ch]
    BY <1>1, <1>b DEF PeerSend
  <2> DEFINE b == WriteFrame(u, f)
             off == Append(offered[c], f)
  <2>3. InOrder(t, b, ch, pc[c], r, o)
    <3>1. pc[c] # "done" /\ ~AtCut(t, u) /\ (Closing(pc[c], o) /\ AtCut(t, b) => FALSE)
      BY <1>e, <2>2
    <3> HIDE DEF t, u, ch, r, o, b
    <3> QED
      BY <1>a, <3>1, OrderSent
  <2>4. SubSeq(off, 1, Len(off) - Len(b.q)) = t
    <3>1. b.q = Append(u.q, f) /\ u.q \in Seq(Offers)
      BY <1>a, <2>2 DEF WriteFrame, Chan
    <3>2. Len(off) = Len(offered[c]) + 1 /\ Len(b.q) = Len(u.q) + 1
      BY <1>a, <3>1
    <3>3. Len(off) - Len(b.q) = n
      BY <1>a, <3>1, <3>2 DEF Taken
    <3>4. SubSeq(off, 1, n) = SubSeq(offered[c], 1, n)
      BY <1>a
    <3> HIDE DEF t, n, off, b
    <3> QED
      BY <1>a, <3>3, <3>4
  <2> HIDE DEF b, off, t, r, o
  <2>5. up' = [up EXCEPT ![c] = b] /\ offered' = [offered EXCEPT ![c] = off]
    BY <2>1 DEF b, off
  <2> QED
    BY <1>d, <2>2, <2>3, <2>4, <2>5
<1>f. /\ offered = [offered EXCEPT ![c] = offered[c]]
      /\ SubSeq(offered[c], 1, Len(offered[c]) - Len(u.q)) = t
  BY DEF TypeOK, TakenFrames
<1>2. CASE PeerCut(c)
  <2>1. PICK e \in Cuts : up' = [up EXCEPT ![c] = [u EXCEPT !.end = e]]
    BY <1>2 DEF PeerCut
  <2> DEFINE b == [u EXCEPT !.end = e]
  <2>2. u.end = "open" /\ down' = [down EXCEPT ![c] = ch] /\ offered' = [offered EXCEPT ![c] = offered[c]]
    BY <1>2, <1>b, <1>f DEF PeerCut
  <2>3. InOrder(t, b, ch, pc[c], r, o)
    <3>1. pc[c] # "done" /\ ~AtCut(t, u) /\ (Closing(pc[c], o) /\ AtCut(t, b) => FALSE)
      BY <1>e, <2>2
    <3> HIDE DEF t, u, ch, r, o, b
    <3> QED
      BY <1>a, <3>1, OrderSent
  <2>4. b.q = u.q
    BY <1>a DEF Chan
  <2>5. SubSeq(offered[c], 1, Len(offered[c]) - Len(b.q)) = t
    BY <1>f, <2>4
  <2>6. up' = [up EXCEPT ![c] = b]
    BY <2>1
  <2> HIDE DEF b, t, r, o, ch
  <2> QED
    BY <1>d, <2>2, <2>3, <2>5, <2>6
<1>3. CASE PeerGone(c)
  <2> DEFINE b == [u EXCEPT !.end = IF @ = "open" THEN "eof" ELSE @]
             d == ClosedByReader(ch)
  <2>1. /\ ch.end = "open" /\ up' = [up EXCEPT ![c] = b] /\ down' = [down EXCEPT ![c] = d]
        /\ offered' = [offered EXCEPT ![c] = offered[c]]
    BY <1>3, <1>f DEF PeerGone
  <2>2. d.q = ch.q /\ d.end = "gone"
    BY <1>a, <2>1 DEF ClosedByReader, Chan
  <2>3. b.q = u.q /\ b.end # "open" /\ (u.end # "open" => b.end = u.end)
    BY <1>a DEF Chan
  <2>4. AtCut(t, u) => AtCut(t, b)
    BY <2>3 DEF AtCut, Cuts
  <2>5. InOrder(t, b, d, pc[c], r, o)
    <3> HIDE DEF t, u, ch, r, o, b, d
    <3> QED
      BY <1>a, <2>2, <2>3, <2>4, OrderBreaks
  <2>6. SubSeq(offered[c], 1, Len(offered[c]) - Len(b.q)) = t
    BY <1>f, <2>3
  <2> HIDE DEF b, d, t, r, o, ch
  <2> QED
    BY <1>d, <2>1, <2>5, <2>6
<1>4. CASE Break(c)
  <2>1. PICK b \in Broken(u) :
          /\ up' = [up EXCEPT ![c] = b]
          /\ offered' = [offered EXCEPT ![c] = SubSeq(offered[c], 1, Len(offered[c]) - Len(u.q) + Len(b.q))]
    BY <1>4 DEF Break
  <2> DEFINE d == [ch EXCEPT !.end = "reset"]
             off == SubSeq(offered[c], 1, Len(offered[c]) - Len(u.q) + Len(b.q))
  <2>2. down' = [down EXCEPT ![c] = d] /\ d.q = ch.q /\ d.end = "reset"
    BY <1>4, <1>a DEF Break, Chan
  <2>3. b.end = "reset"
    BY <1>a, BrokenType
  <2>4. PICK m \in 0..Len(u.q) : b.q = SubSeq(u.q, 1, m)
    BY DEF Broken
  <2>5. AtCut(t, u) => AtCut(t, b)
    <3> SUFFICES ASSUME AtCut(t, u) PROVE AtCut(t, b)
      OBVIOUS
    <3>1. u.q = <<>> /\ m = 0
      BY <2>4 DEF AtCut
    <3>2. b.q = <<>>
      BY <2>4, <3>1
    <3> QED
      BY <2>3, <3>2 DEF AtCut
  <2>6. InOrder(t, b, d, pc[c], r, o)
    <3> HIDE DEF t, u, ch, r, o, d
    <3> QED
      BY <1>a, <2>2, <2>3, <2>5, OrderBreaks
  <2>7. SubSeq(off, 1, Len(off) - Len(b.q)) = t
    <3> HIDE DEF off
    <3>1. off = SubSeq(offered[c], 1, Len(offered[c]) - Len(u.q) + Len(b.q))
      BY DEF off
    <3>2. SubSeq(off, 1, Len(off) - Len(b.q)) = SubSeq(offered[c], 1, n)
      BY <1>a, <2>4, <3>1, BreakTakes
    <3> QED
      BY <1>a, <3>2
  <2>8. offered' = [offered EXCEPT ![c] = off]
    BY <2>1
  <2> HIDE DEF d, t, r, o, ch, off
  <2> QED
    BY <1>d, <2>1, <2>2, <2>6, <2>7, <2>8
<1> QED
  BY <1>1, <1>2, <1>3, <1>4

LEMMA BeginsIsPrefix ==
  ASSUME NEW w \in Seq(AnyFrame), NEW a \in Seq(AnyFrame), Begins(w, a)
  PROVE  IsPrefix(w, a)
<1>1. PICK r \in Seq(AnyFrame) : a = w \o r
  BY DEF Begins
<1>2. /\ Len(w) \in Nat /\ Len(r) \in Nat /\ Len(w \o r) = Len(w) + Len(r)
      /\ \A i \in 1..Len(w) : (w \o r)[i] = w[i]
  BY ConcatProperties
<1>3. Len(w) <= Len(a) /\ Len(w) \in 0..Len(a) /\ \A i \in 1..Len(w) : a[i] = w[i]
  BY <1>1, <1>2
<1>4. SubSeq(a, 1, Len(w)) = w
  <2> DEFINE x == SubSeq(a, 1, Len(w))
  <2>1. x \in Seq(AnyFrame) /\ Len(x) = Len(w) /\ \A i \in 1..Len(w) : x[i] = a[i]
    BY <1>3, PrefixFacts
  <2> HIDE DEF x
  <2>2. x = w
    BY <1>3, <2>1, SeqEqual
  <2> QED
    BY <2>2 DEF x
<1>5. SubSeq(w, 1, Len(w)) = w
  BY SubSeqFull
<1> QED
  BY <1>3, <1>4, <1>5 DEF IsPrefix

LEMMA AlwaysInOrder == Spec => []AllInOrder
<1>1. Init => AllInOrder
  <2> SUFFICES ASSUME Init, NEW c \in Conns
               PROVE  /\ fs = Tree
                      /\ InOrder(TakenFrames(c), up[c], down[c], pc[c], req[c], out[c])
    BY DEF AllInOrder, Init
  <2>1. /\ fs = Tree /\ offered[c] = <<>> /\ up[c] = Fresh /\ down[c] = Fresh /\ pc[c] = "none"
    BY DEF Init, InitServer
  <2>2. TakenFrames(c) = <<>>
    <3>1. Len(offered[c]) - Len(up[c].q) = 0
      BY <2>1 DEF Fresh
    <3>2. SubSeq(<<>>, 1, 0) = <<>>
      <4>1. <<>> \in Seq(Offers) /\ 0 \in 0..Len(<<>>)
        BY EmptySeq
      <4>2. SubSeq(<<>>, 1, 0) \in Seq(Offers) /\ Len(SubSeq(<<>>, 1, 0)) = 0
        BY <4>1, PrefixFacts
      <4> QED
        BY <4>2, EmptySeq
    <3> QED
      BY <2>1, <3>1, <3>2 DEF TakenFrames
  <2>3. ToWrite("none", req[c], out[c], <<>>)
    BY DEF ToWrite
  <2>4. Goal(<<>>, up[c], "none", out[c]) = <<>>
    BY OwedNothing DEF Goal, Closing, Finished
  <2>5. <<>> \in Seq(AnyFrame) /\ <<>> \o <<>> = <<>>
    BY EmptySeq, ConcatEmptySeq
  <2>6. down[c].q = <<>> /\ down[c].end = "open"
    BY <2>1 DEF Fresh
  <2> QED
    BY <2>1, <2>2, <2>3, <2>4, <2>5, <2>6 DEF InOrder
<1>2. TypeOK /\ AllObey /\ AllWritten /\ AllInOrder /\ [Next]_peerVars => AllInOrder'
  <2> SUFFICES ASSUME TypeOK, AllObey, AllWritten, AllInOrder, [Next]_peerVars PROVE AllInOrder'
    OBVIOUS
  <2>1. CASE edits' # 0
    BY <2>1 DEF AllInOrder
  <2>2. CASE UNCHANGED <<peerVars>>
    <3>1. UNCHANGED <<up, down, fs, pc, req, out, offered, edits>>
      BY <2>2 DEF peerVars, vars
    <3>2. \A c \in Conns : TakenFrames(c)' = TakenFrames(c)
      BY <3>1 DEF TakenFrames
    <3>3. ASSUME edits = 0, NEW c \in Conns
          PROVE  InOrder(TakenFrames(c)', up'[c], down'[c], pc'[c], req'[c], out'[c])
      <4>1. InOrder(TakenFrames(c), up[c], down[c], pc[c], req[c], out[c])
        BY <3>3 DEF AllInOrder
      <4>2. /\ up'[c] = up[c] /\ down'[c] = down[c] /\ pc'[c] = pc[c] /\ req'[c] = req[c] /\ out'[c] = out[c]
        BY <3>1
      <4> QED
        BY <3>2, <4>1, <4>2
    <3>4. edits = 0 => fs' = Tree
      BY <3>1 DEF AllInOrder
    <3> QED
      BY <3>1, <3>3, <3>4 DEF AllInOrder
  <2>3. ASSUME NEW c \in Conns, Handler(c), edits' = 0 PROVE AllInOrder'
    <3>1. edits = 0
      BY <2>3 DEF Handler
    <3> QED
      BY <2>3, <3>1, HandlerInOrder
  <2>4. ASSUME NEW c \in Conns, PeerSend(c) \/ PeerCut(c) \/ PeerGone(c) \/ Break(c), edits' = 0
        PROVE  AllInOrder'
    <3>1. edits = 0
      BY <2>4 DEF PeerSend, PeerCut, PeerGone, Break
    <3> QED
      BY <2>4, <3>1, PeerInOrder
  <2>5. CASE Edit
    <3>1. edits' # 0
      BY <2>5 DEF Edit, TypeOK
    <3> QED
      BY <2>1, <3>1
  <2> QED
    BY <2>1, <2>2, <2>3, <2>4, <2>5 DEF Next, Terminated
<1> QED
  BY <1>1, <1>2, TypeCorrect, AlwaysObeys, AlwaysWritten, PTL DEF Spec

\* RepliesInOrder of BhttpServerPeer: with a tree that is not edited, what a
\* handler writes is at every moment the beginning of what it owes, frame by
\* frame and in the order of the requests; all of it once it reads again or
\* has closed without a failure.
THEOREM RepliesAreInOrder == Spec => []RepliesInOrder
<1>1. TypeOK /\ AllObey /\ AllInOrder => RepliesInOrder
  <2> SUFFICES ASSUME TypeOK, AllObey, AllInOrder, NEW c \in Conns, edits = 0
               PROVE  LET cut == /\ up[c].q = <<>> /\ up[c].end \in (Cuts \ {"eof"}) \cup {"reset"}
                                 /\ (TakenFrames(c) # <<>> => Last(TakenFrames(c)).type # "GOAWAY")
                          all == Owed(c) \o (IF cut THEN Truncated ELSE <<>>)
                      IN /\ IsPrefix(down[c].q, all)
                         /\ pc[c] = "read" /\ down[c].end = "open" => down[c].q = Owed(c)
                         /\ pc[c] = "done" /\ down[c].end = "eof" => down[c].q = all
    BY DEF RepliesInOrder
  <2> DEFINE t  == TakenFrames(c)
             u  == up[c]
             ch == down[c]
  <2>1. t \in Seq(Offers) /\ ch \in Chan(AnyFrame) /\ ch.q \in Seq(AnyFrame)
    BY TakenFacts, HandlerFacts DEF Chan
  <2>2. InOrder(t, u, ch, pc[c], req[c], out[c]) /\ fs = Tree
    BY DEF AllInOrder
  <2>3. Owed(c) = OwedFor(t)
    BY <2>2 DEF Owed, OwedFor
  <2>4. IsPrefix(ch.q, Full(t, u))
    <3> HIDE DEF t, u, ch
    <3>1. Begins(ch.q, Full(t, u)) /\ Full(t, u) \in Seq(AnyFrame)
      BY <2>1, <2>2, AlwaysBegins, FullType
    <3> QED
      BY <2>1, <3>1, BeginsIsPrefix
  <2>5. ASSUME pc[c] = "read", ch.end = "open" PROVE ch.q = OwedFor(t)
    <3> HIDE DEF t, u, ch
    <3>1. PICK p \in Seq(AnyFrame) : ToWrite("read", req[c], out[c], p) /\ ch.q \o p = Goal(t, u, "read", out[c])
      BY <2>2, <2>5 DEF InOrder
    <3>2. p = <<>> /\ Goal(t, u, "read", out[c]) = OwedFor(t)
      BY <3>1 DEF ToWrite, Goal, Closing, Finished
    <3> QED
      BY <2>1, <3>1, <3>2, ConcatEmptySeq
  <2>6. ch.end = "eof" => ch.q = Full(t, u)
    BY <2>2 DEF InOrder
  <2>7. Full(t, u) = Owed(c) \o (IF AtCut(t, u) THEN Truncated ELSE <<>>)
    BY <2>3 DEF Full
  <2> QED
    BY <2>3, <2>4, <2>5, <2>6, <2>7 DEF AtCut
<1> QED
  BY <1>1, TypeCorrect, AlwaysObeys, AlwaysInOrder, PTL

-----------------------------------------------------------------------------
(* Bodies                                                                  *)

\* The octets of the frames after the i-th up to the j-th.
Body(w, i, j) == FlattenSeq([k \in 1..(j - i) |-> w[i + k].data])

\* b is the whole of a version of a file.
IsFile(b) == \E t \in Trees : \E p \in DOMAIN t : t[p].kind = "file" /\ t[p].data = b
IsWhole(hdr, b) == Len(b) = hdr.length /\ (hdr.status = 200 => IsFile(b))

\* The response that begins with the i-th frame ends with the j-th; it has not ended.
Spans(w, i, j) ==
  /\ w[i].type = "HEADERS" /\ HasFlag(w[j], FlagEndStream)
  /\ \A k \in i..(j - 1) : ~HasFlag(w[k], FlagEndStream)
Begun(w, i) == w[i].type = "HEADERS" /\ \A k \in i..Len(w) : ~HasFlag(w[k], FlagEndStream)

Wholes(w) == \A i \in 1..Len(w) : \A j \in (i + 1)..Len(w) : Spans(w, i, j) => IsWhole(w[i].hdr, Body(w, i, j))

\* What has been written, with a response under way.
WholeFor(ch, label, o) ==
  /\ Wholes(ch.q)
  /\ ch.end = "open" =>
       \A i \in 1..Len(ch.q) : Begun(ch.q, i) =>
         /\ label = "data"
         /\ ch.q[i].hdr = [status |-> o.status, length |-> Len(o.body)]
         /\ Body(ch.q, i, Len(ch.q)) = SubSeq(o.body, 1, o.off)
  /\ label \in {"headers", "data"} /\ o.status = 200 => IsFile(o.body)

AllWhole == \A c \in Conns : WholeFor(down[c], pc[c], out[c])

LEMMA BodySame ==
  ASSUME NEW w, NEW v, NEW i \in Nat, NEW j \in Nat, \A k \in (i + 1)..j : w[k] = v[k]
  PROVE  Body(w, i, j) = Body(v, i, j)
<1> DEFINE d(k) == w[i + k].data
           e(k) == v[i + k].data
<1>1. \A k \in 1..(j - i) : i + k \in (i + 1)..j
  OBVIOUS
<1>2. \A k \in 1..(j - i) : d(k) = e(k)
  BY <1>1
<1>3. Body(w, i, j) = FlattenSeq([k \in 1..(j - i) |-> d(k)])
  BY DEF Body
<1>4. Body(v, i, j) = FlattenSeq([k \in 1..(j - i) |-> e(k)])
  BY DEF Body
<1> HIDE DEF d, e
<1>5. [k \in 1..(j - i) |-> d(k)] = [k \in 1..(j - i) |-> e(k)]
  BY <1>2
<1> QED
  BY <1>3, <1>4, <1>5

LEMMA BodyParts ==
  ASSUME NEW w \in Seq(AnyFrame), NEW i \in 1..Len(w), NEW j \in i..Len(w)
  PROVE  /\ [k \in 1..(j - i) |-> w[i + k].data] \in Seq(Seq(STRING))
         /\ Len([k \in 1..(j - i) |-> w[i + k].data]) = j - i
<1> DEFINE d(k) == w[i + k].data
           n == j - i
<1>1. n \in Nat /\ \A k \in 1..n : i + k \in 1..Len(w)
  OBVIOUS
<1>2. \A k \in 1..n : d(k) \in Seq(STRING)
  <2>1. \A x \in AnyFrame : x.data \in Seq(STRING)
    BY DEF AnyFrame
  <2>2. \A k \in 1..Len(w) : w[k] \in AnyFrame
    OBVIOUS
  <2> QED
    BY <1>1, <2>1, <2>2
<1> HIDE DEF d, n
<1>3. [k \in 1..n |-> d(k)] \in Seq(Seq(STRING)) /\ Len([k \in 1..n |-> d(k)]) = n
  BY <1>1, <1>2
<1> QED
  BY <1>3 DEF d, n

LEMMA BodyNone ==
  ASSUME NEW w \in Seq(AnyFrame), NEW i \in 1..Len(w)
  PROVE  Body(w, i, i) = <<>>
<1> DEFINE ss == [k \in 1..(i - i) |-> w[i + k].data]
<1>1. ss \in Seq(Seq(STRING)) /\ Len(ss) = i - i
  BY BodyParts
<1>2. Len(ss) = 0
  BY <1>1
<1>3. Body(w, i, i) = FlattenSeq(ss)
  BY DEF Body
<1> HIDE DEF ss
<1>4. ss = <<>>
  BY <1>1, <1>2, EmptySeq
<1> QED
  BY <1>2, <1>3, <1>4, FlattenEmpty

LEMMA BodyMore ==
  ASSUME NEW w \in Seq(AnyFrame), NEW f \in AnyFrame, NEW i \in 1..Len(w)
  PROVE  Body(Append(w, f), i, Len(w) + 1) = Body(w, i, Len(w)) \o f.data
<1> DEFINE v == Append(w, f)
           n == Len(w) - i
           ss == [k \in 1..(Len(w) - i) |-> w[i + k].data]
           tt == [k \in 1..((Len(w) + 1) - i) |-> v[i + k].data]
<1>1. /\ v \in Seq(AnyFrame) /\ Len(v) = Len(w) + 1 /\ v[Len(w) + 1] = f
      /\ \A k \in 1..Len(w) : v[k] = w[k]
  BY AppendProperties
<1>2. n \in Nat /\ (Len(w) + 1) - i = n + 1 /\ i + (n + 1) = Len(w) + 1 /\ Len(w) \in Nat
      /\ \A k \in 1..n : i + k \in 1..Len(w)
  OBVIOUS
<1>3. ss \in Seq(Seq(STRING)) /\ Len(ss) = n
  <2>1. Len(w) \in i..Len(w)
    OBVIOUS
  <2> QED
    BY <2>1, BodyParts
<1>4. tt \in Seq(Seq(STRING)) /\ Len(tt) = n + 1
  <2>1. i \in 1..Len(v) /\ Len(w) + 1 \in i..Len(v)
    BY <1>1
  <2> HIDE DEF v, n
  <2> QED
    BY <1>1, <1>2, <2>1, BodyParts
<1>5. f.data \in Seq(STRING)
  BY DEF AnyFrame
<1> DEFINE d(k) == w[i + k].data
           e(k) == v[i + k].data
<1>6. \A k \in 1..n : d(k) = e(k)
  <2> HIDE DEF v, n
  <2> QED
    BY <1>1, <1>2
<1>7. e(n + 1) = f.data
  <2> HIDE DEF v, n
  <2> QED
    BY <1>1, <1>2
<1>8. ss = [k \in 1..n |-> d(k)] /\ tt = [k \in 1..(n + 1) |-> e(k)]
  <2> HIDE DEF v
  <2> QED
    BY <1>2
<1> HIDE DEF v, n, ss, tt, d, e
<1>9. \A k \in 1..n : ss[k] = tt[k]
  BY <1>2, <1>6, <1>8
<1>10. tt[n + 1] = f.data
  BY <1>2, <1>7, <1>8
<1>11. Append(ss, f.data) = tt
  <2> DEFINE a == Append(ss, f.data)
  <2>1. /\ a \in Seq(Seq(STRING)) /\ Len(a) = n + 1 /\ a[n + 1] = f.data
        /\ \A k \in 1..n : a[k] = ss[k]
    BY <1>3, <1>5, AppendProperties
  <2> HIDE DEF a
  <2>2. ASSUME NEW k \in 1..Len(a) PROVE a[k] = tt[k]
    <3>1. k \in 1..n \/ k = n + 1
      BY <1>2, <2>1
    <3> QED
      BY <1>9, <1>10, <2>1, <3>1
  <2>3. a = tt
    BY <1>4, <2>1, <2>2, SeqEqual
  <2> QED
    BY <2>3 DEF a
<1>12. FlattenSeq(Append(ss, f.data)) = FlattenSeq(ss) \o f.data
  BY <1>3, <1>5, FlattenAppend
<1>13. Body(v, i, Len(w) + 1) = FlattenSeq(tt) /\ Body(w, i, Len(w)) = FlattenSeq(ss)
  BY DEF Body, tt, ss
<1> QED
  BY <1>11, <1>12, <1>13 DEF v

LEMMA WholesPrefix ==
  ASSUME NEW w \in Seq(AnyFrame), NEW n \in 0..Len(w), Wholes(w)
  PROVE  Wholes(SubSeq(w, 1, n))
<1> DEFINE v == SubSeq(w, 1, n)
<1>1. v \in Seq(AnyFrame) /\ Len(v) = n /\ \A k \in 1..n : v[k] = w[k]
  BY PrefixFacts
<1> HIDE DEF v
<1> SUFFICES ASSUME NEW i \in 1..Len(v), NEW j \in (i + 1)..Len(v), Spans(v, i, j)
             PROVE  IsWhole(v[i].hdr, Body(v, i, j))
  BY DEF Wholes, v
<1>2. i \in 1..n /\ j \in 1..n /\ i \in 1..Len(w) /\ j \in (i + 1)..Len(w)
  BY <1>1
<1>3. \A k \in i..j : v[k] = w[k]
  <2>1. \A k \in i..j : k \in 1..n
    BY <1>2
  <2> QED
    BY <1>1, <2>1
<1>4. v[i] = w[i] /\ v[j] = w[j]
  BY <1>1, <1>2
<1>5. \A k \in i..(j - 1) : ~HasFlag(w[k], FlagEndStream)
  <2>1. \A k \in i..(j - 1) : k \in i..j
    BY <1>2
  <2> QED
    BY <1>3, <2>1 DEF Spans
<1>6. Spans(w, i, j)
  BY <1>4, <1>5 DEF Spans
<1>7. IsWhole(w[i].hdr, Body(w, i, j))
  BY <1>2, <1>6 DEF Wholes
<1>8. Body(v, i, j) = Body(w, i, j)
  <2>1. \A k \in (i + 1)..j : k \in i..j
    BY <1>2
  <2>2. i \in Nat /\ j \in Nat /\ \A k \in (i + 1)..j : v[k] = w[k]
    BY <1>2, <1>3, <2>1
  <2> QED
    BY <2>2, BodySame
<1> QED
  BY <1>4, <1>7, <1>8

LEMMA BegunAppend ==
  ASSUME NEW w \in Seq(AnyFrame), NEW f \in AnyFrame, NEW i \in 1..(Len(w) + 1), Begun(Append(w, f), i)
  PROVE  /\ ~HasFlag(f, FlagEndStream)
         /\ (i \in 1..Len(w) /\ Begun(w, i)) \/ (i = Len(w) + 1 /\ f.type = "HEADERS")
<1> DEFINE v == Append(w, f)
<1>1. /\ v \in Seq(AnyFrame) /\ Len(v) = Len(w) + 1 /\ v[Len(w) + 1] = f /\ Len(w) \in Nat
      /\ \A k \in 1..Len(w) : v[k] = w[k]
  BY AppendProperties
<1> HIDE DEF v
<1>2. v[i].type = "HEADERS" /\ \A k \in i..Len(v) : ~HasFlag(v[k], FlagEndStream)
  BY DEF Begun, v
<1>3. Len(w) + 1 \in i..Len(v)
  BY <1>1
<1>4. ~HasFlag(f, FlagEndStream)
  BY <1>1, <1>2, <1>3
<1>5. CASE i \in 1..Len(w)
  <2>1. \A k \in i..Len(w) : k \in i..Len(v) /\ k \in 1..Len(w)
    BY <1>1, <1>5
  <2>2. \A k \in i..Len(w) : ~HasFlag(w[k], FlagEndStream)
    BY <1>1, <1>2, <2>1
  <2>3. w[i].type = "HEADERS"
    BY <1>1, <1>2, <1>5
  <2> QED
    BY <1>4, <1>5, <2>2, <2>3 DEF Begun
<1>6. CASE i = Len(w) + 1
  BY <1>1, <1>2, <1>4, <1>6
<1> QED
  BY <1>1, <1>5, <1>6

LEMMA WholesAppend ==
  ASSUME NEW w \in Seq(AnyFrame), NEW f \in AnyFrame, Wholes(w),
         \A i \in 1..Len(w) : HasFlag(f, FlagEndStream) /\ Begun(w, i) =>
            IsWhole(w[i].hdr, Body(w, i, Len(w)) \o f.data)
  PROVE  Wholes(Append(w, f))
<1> DEFINE v == Append(w, f)
<1>1. /\ v \in Seq(AnyFrame) /\ Len(v) = Len(w) + 1 /\ v[Len(w) + 1] = f /\ Len(w) \in Nat
      /\ \A k \in 1..Len(w) : v[k] = w[k]
  BY AppendProperties
<1> HIDE DEF v
<1> SUFFICES ASSUME NEW i \in 1..Len(v), NEW j \in (i + 1)..Len(v), Spans(v, i, j)
             PROVE  IsWhole(v[i].hdr, Body(v, i, j))
  BY DEF Wholes, v
<1>2. i \in 1..Len(w) /\ v[i] = w[i] /\ j \in Nat /\ i \in Nat
  BY <1>1
<1>3. \A k \in i..(j - 1) : k \in 1..Len(w)
  BY <1>1, <1>2
<1>4. \A k \in i..(j - 1) : ~HasFlag(w[k], FlagEndStream)
  BY <1>1, <1>3 DEF Spans
<1>5. CASE j \in 1..Len(w)
  <2>1. Spans(w, i, j)
    BY <1>1, <1>2, <1>4, <1>5 DEF Spans
  <2>2. IsWhole(w[i].hdr, Body(w, i, j))
    <3>1. j \in (i + 1)..Len(w)
      BY <1>5
    <3> QED
      BY <1>2, <2>1, <3>1 DEF Wholes
  <2>3. Body(v, i, j) = Body(w, i, j)
    <3>1. \A k \in (i + 1)..j : k \in 1..Len(w)
      BY <1>2, <1>5
    <3>2. \A k \in (i + 1)..j : v[k] = w[k]
      BY <1>1, <3>1
    <3> QED
      BY <1>2, <3>2, BodySame
  <2> QED
    BY <1>2, <2>2, <2>3
<1>6. CASE j = Len(w) + 1
  <2>1. HasFlag(f, FlagEndStream)
    BY <1>1, <1>6 DEF Spans
  <2>2. Begun(w, i)
    <3>1. \A k \in i..Len(w) : k \in i..(j - 1)
      BY <1>6
    <3> QED
      BY <1>2, <1>4, <3>1 DEF Begun, Spans
  <2>3. Body(v, i, j) = Body(w, i, Len(w)) \o f.data
    BY <1>2, <1>6, BodyMore DEF v
  <2> QED
    BY <1>2, <2>1, <2>2, <2>3
<1> QED
  BY <1>1, <1>5, <1>6

-----------------------------------------------------------------------------
(* Whole files                                                             *)

\* A frame written between two responses: a whole answer, or the HEADERS frame
\* of one.
LEMMA WholeBegins ==
  ASSUME NEW ch \in Chan(AnyFrame), NEW label, NEW o, WholeFor(ch, label, o), label # "data",
         NEW f \in AnyFrame, NEW next, NEW o2,
         next \in {"headers", "data"} /\ o2.status = 200 => IsFile(o2.body),
         ~HasFlag(f, FlagEndStream) => /\ next = "data" /\ o2.off = 0
                                       /\ f.hdr = [status |-> o2.status, length |-> Len(o2.body)]
  PROVE  WholeFor(WriteFrame(ch, f), next, o2)
<1>1. ch.q \in Seq(AnyFrame) /\ Wholes(ch.q)
  BY DEF Chan, WholeFor
<1>2. CASE ch.end # "open"
  <2>1. WriteFrame(ch, f) = ch
    BY <1>2 DEF WriteFrame
  <2> QED
    BY <1>1, <1>2, <2>1 DEF WholeFor
<1>3. CASE ch.end = "open"
  <2> DEFINE w == ch.q
             v == Append(w, f)
  <2>1. WriteFrame(ch, f).q = v /\ WriteFrame(ch, f).end = "open"
    BY <1>3 DEF WriteFrame, Chan
  <2>2. \A i \in 1..Len(w) : ~Begun(w, i)
    BY <1>3 DEF WholeFor
  <2>3. /\ v \in Seq(AnyFrame) /\ Len(v) = Len(w) + 1 /\ v[Len(w) + 1] = f /\ Len(w) \in Nat
    BY <1>1, AppendProperties
  <2> HIDE DEF w
  <2>4. w \in Seq(AnyFrame) /\ Wholes(w)
    BY <1>1 DEF w
  <2>5. Wholes(v)
    BY <2>2, <2>4, WholesAppend
  <2>6. ASSUME NEW i \in 1..Len(v), Begun(v, i)
        PROVE  /\ next = "data" /\ v[i].hdr = [status |-> o2.status, length |-> Len(o2.body)]
               /\ Body(v, i, Len(v)) = SubSeq(o2.body, 1, o2.off)
    <3>1. i \in 1..(Len(w) + 1)
      BY <2>3
    <3>2. ~HasFlag(f, FlagEndStream) /\ i = Len(w) + 1
      BY <2>2, <2>4, <2>6, <3>1, BegunAppend
    <3>3. v[i] = f /\ Len(v) = i
      BY <2>3, <3>2
    <3>4. Body(v, i, i) = <<>>
      <4> HIDE DEF v
      <4> QED
        BY <2>3, BodyNone
    <3>5. SubSeq(o2.body, 1, 0) = <<>>
      OBVIOUS
    <3> HIDE DEF v
    <3> QED
      BY <3>2, <3>3, <3>4, <3>5
  <2> HIDE DEF v
  <2> QED
    BY <2>1, <2>5, <2>6 DEF WholeFor
<1> QED
  BY <1>2, <1>3

\* The next DATA frame of a response.
LEMMA WholeGoesOn ==
  ASSUME NEW ch \in Chan(AnyFrame), NEW o, OutgoingOK(o), WholeFor(ch, "data", o),
         NEW next, next # "headers", ChunkEnd(o) # Len(o.body) => next = "data",
         NEW o2, o2 = [o EXCEPT !.off = ChunkEnd(o)]
  PROVE  WholeFor(WriteFrame(ch, DataFrame(o)), next, o2)
<1> DEFINE f == DataFrame(o)
           e == ChunkEnd(o)
<1>1. ch.q \in Seq(AnyFrame) /\ Wholes(ch.q)
  BY DEF Chan, WholeFor
<1>2. /\ f \in AnyFrame /\ f.type = "DATA" /\ f.data = SubSeq(o.body, o.off + 1, e)
      /\ HasFlag(f, FlagEndStream) <=> e = Len(o.body)
  <2>1. f \in AnyFrame
    BY DataFrameType DEF OutgoingOK
  <2>2. f.type = "DATA" /\ f.data = SubSeq(o.body, o.off + 1, e)
    BY DEF DataFrame, Frame
  <2>3. HasFlag(f, FlagEndStream) <=> e = Len(o.body)
    BY DEF HasFlag, DataFrame, Frame, FlagEndStream
  <2> QED
    BY <2>1, <2>2, <2>3
<1>3. /\ o.body \in Seq(STRING) /\ o.off \in 0..Len(o.body) /\ e \in o.off..Len(o.body)
      /\ o2.body = o.body /\ o2.status = o.status /\ o2.off = e
  BY ChunkEndType DEF OutgoingOK, Outgoing
<1> HIDE DEF f, e
<1>4. SubSeq(o.body, 1, o.off) \o f.data = SubSeq(o.body, 1, e)
  <2>1. 1 \in 1..(Len(o.body) + 1) /\ o.off \in (1 - 1)..Len(o.body) /\ e \in o.off..Len(o.body)
    BY <1>3
  <2> QED
    BY <1>2, <1>3, <2>1, ConcatAdjacentSubSeq
<1>5. o2.status = 200 => IsFile(o2.body)
  BY <1>3 DEF WholeFor
<1>6. CASE ch.end # "open"
  <2>1. WriteFrame(ch, f) = ch
    BY <1>6 DEF WriteFrame
  <2> QED
    BY <1>1, <1>5, <1>6, <2>1 DEF WholeFor, f
<1>7. CASE ch.end = "open"
  <2> DEFINE w == ch.q
             v == Append(w, f)
  <2>1. WriteFrame(ch, f).q = v /\ WriteFrame(ch, f).end = "open"
    BY <1>7 DEF WriteFrame, Chan
  <2>2. \A i \in 1..Len(w) : Begun(w, i) =>
          /\ w[i].hdr = [status |-> o.status, length |-> Len(o.body)]
          /\ Body(w, i, Len(w)) = SubSeq(o.body, 1, o.off)
    BY <1>7 DEF WholeFor
  <2>3. /\ v \in Seq(AnyFrame) /\ Len(v) = Len(w) + 1 /\ Len(w) \in Nat
        /\ \A i \in 1..Len(w) : v[i] = w[i]
    BY <1>1, <1>2, AppendProperties
  <2> HIDE DEF w
  <2>4. w \in Seq(AnyFrame) /\ Wholes(w)
    BY <1>1 DEF w
  <2>5. ASSUME NEW i \in 1..Len(w), Begun(w, i)
        PROVE  Body(w, i, Len(w)) \o f.data = SubSeq(o.body, 1, e)
    BY <1>4, <2>2, <2>5
  <2>6. ASSUME NEW i \in 1..Len(w), HasFlag(f, FlagEndStream), Begun(w, i)
        PROVE  IsWhole(w[i].hdr, Body(w, i, Len(w)) \o f.data)
    <3>1. SubSeq(o.body, 1, e) = o.body
      BY <1>2, <1>3, <2>6, SubSeqFull
    <3>2. Body(w, i, Len(w)) \o f.data = o.body
      BY <2>5, <2>6, <3>1
    <3>3. w[i].hdr.status = o.status /\ w[i].hdr.length = Len(o.body)
      BY <2>2, <2>6
    <3>4. w[i].hdr.status = 200 => IsFile(o.body)
      BY <1>3, <1>5, <3>3
    <3> QED
      BY <3>2, <3>3, <3>4 DEF IsWhole
  <2>7. Wholes(v)
    BY <1>2, <2>4, <2>6, WholesAppend
  <2>8. ASSUME NEW i \in 1..Len(v), Begun(v, i)
        PROVE  /\ next = "data" /\ v[i].hdr = [status |-> o2.status, length |-> Len(o2.body)]
               /\ Body(v, i, Len(v)) = SubSeq(o2.body, 1, o2.off)
    <3>1. i \in 1..(Len(w) + 1)
      BY <2>3
    <3>2. ~HasFlag(f, FlagEndStream) /\ i \in 1..Len(w) /\ Begun(w, i)
      BY <1>2, <2>4, <2>8, <3>1, BegunAppend
    <3>3. next = "data"
      BY <1>2, <3>2 DEF e
    <3>4. v[i].hdr = [status |-> o2.status, length |-> Len(o2.body)]
      BY <1>3, <2>2, <2>3, <3>2
    <3>5. Body(v, i, Len(w) + 1) = Body(w, i, Len(w)) \o f.data
      BY <1>2, <2>4, <3>2, BodyMore
    <3>6. Body(v, i, Len(v)) = SubSeq(o.body, 1, e)
      BY <2>3, <2>5, <3>2, <3>5
    <3> QED
      BY <1>3, <3>3, <3>4, <3>6
  <2> HIDE DEF v
  <2> QED
    BY <1>5, <2>1, <2>7, <2>8 DEF WholeFor, f
<1> QED
  BY <1>6, <1>7

\* No frame is written.
LEMMA WholeMoves ==
  ASSUME NEW ch, NEW label, NEW o, WholeFor(ch, label, o), label # "data" \/ ch.end # "open",
         NEW next, NEW o2, next \in {"headers", "data"} /\ o2.status = 200 => IsFile(o2.body)
  PROVE  WholeFor(ch, next, o2)
BY DEF WholeFor

\* The channel ends.
LEMMA WholeEnds ==
  ASSUME NEW ch \in Chan(AnyFrame), NEW label, NEW o, WholeFor(ch, label, o), NEW d,
         d.end # "open", d.q = ch.q \/ \E n \in 0..Len(ch.q) : d.q = SubSeq(ch.q, 1, n),
         NEW next, next = label \/ next \notin {"headers", "data"}
  PROVE  WholeFor(d, next, o)
<1>1. ch.q \in Seq(AnyFrame) /\ Wholes(ch.q)
  BY DEF Chan, WholeFor
<1>2. Wholes(d.q)
  BY <1>1, WholesPrefix
<1> QED
  BY <1>2 DEF WholeFor

LEMMA WholeStep ==
  ASSUME TypeOK, AllWhole, NEW c \in Conns, NEW ch, NEW label, NEW o, WholeFor(ch, label, o),
         down' = [down EXCEPT ![c] = ch], pc' = [pc EXCEPT ![c] = label], out' = [out EXCEPT ![c] = o]
  PROVE  AllWhole'
<1> SUFFICES ASSUME NEW d \in Conns PROVE WholeFor(down'[d], pc'[d], out'[d])
  BY DEF AllWhole
<1>1. CASE d = c
  <2>1. down'[c] = ch /\ pc'[c] = label /\ out'[c] = o
    BY DEF TypeOK
  <2> QED
    BY <1>1, <2>1
<1>2. CASE d # c
  <2>1. down'[d] = down[d] /\ pc'[d] = pc[d] /\ out'[d] = out[d]
    BY <1>2 DEF TypeOK
  <2> QED
    BY <2>1 DEF AllWhole
<1> QED
  BY <1>1, <1>2

LEMMA ServedIsFile ==
  ASSUME TypeOK, NEW p, Stat(fs, p) = "file"
  PROVE  IsFile(fs[p].data)
<1>1. p \in DOMAIN fs /\ fs[p].kind = "file"
  BY DEF Stat
<1>2. fs \in Trees
  BY DEF TypeOK
<1> QED
  BY <1>1, <1>2 DEF IsFile

LEMMA HandlerWhole ==
  ASSUME TypeOK, AllWritten, AllWhole, NEW c \in Conns, Handle(c)
  PROVE  AllWhole'
<1> DEFINE ch == down[c]
           o  == out[c]
<1>a. /\ ch \in Chan(AnyFrame) /\ OutgoingOK(o) /\ RequestOK(pc[c], req[c])
      /\ pc = [pc EXCEPT ![c] = pc[c]] /\ out = [out EXCEPT ![c] = o]
      /\ down = [down EXCEPT ![c] = ch] /\ Written(ch, pc[c], o)
  BY HandlerFacts DEF TypeOK, AllWritten
<1>b. WholeFor(ch, pc[c], o)
  BY DEF AllWhole
<1>c. ASSUME NEW next, next \notin {"headers", "data"}, UNCHANGED <<down, out>>,
             pc[c] # "data" \/ ch.end # "open", pc' = [pc EXCEPT ![c] = next]
      PROVE  AllWhole'
  <2>1. WholeFor(ch, next, o)
    BY <1>b, <1>c, WholeMoves
  <2>2. down' = [down EXCEPT ![c] = ch] /\ out' = [out EXCEPT ![c] = o]
    BY <1>a, <1>c
  <2> HIDE DEF ch, o
  <2> QED
    BY <1>c, <2>1, <2>2, WholeStep
<1>d. ASSUME NEW p, p.status = 200 => IsFile(p.body), Reply(c, p), UNCHANGED down, pc[c] # "data"
      PROVE  AllWhole'
  <2>1. WholeFor(ch, "headers", p)
    BY <1>b, <1>d, WholeMoves
  <2>2. /\ down' = [down EXCEPT ![c] = ch] /\ out' = [out EXCEPT ![c] = p]
        /\ pc' = [pc EXCEPT ![c] = "headers"]
    BY <1>a, <1>d DEF Reply, Goto
  <2> HIDE DEF ch, o
  <2> QED
    BY <2>1, <2>2, WholeStep
<1>e. ASSUME NEW stream, NEW status, NEW last, status # 200, Reply(c, Failure(stream, status, last)),
             UNCHANGED down, pc[c] # "data"
      PROVE  AllWhole'
  <2> DEFINE p == Failure(stream, status, last)
  <2>1. p.status # 200
    BY <1>e DEF Failure
  <2>2. Reply(c, p)
    BY <1>e
  <2> HIDE DEF p
  <2> QED
    BY <1>d, <1>e, <2>1, <2>2
<1>1. CASE Accept(c) \/ TakePing(c) \/ TakeGoAway(c)
  <2>1. PICK next \in {"read", "pong", "close"} : pc' = [pc EXCEPT ![c] = next]
    BY <1>1 DEF Accept, TakePing, TakeGoAway, Goto
  <2>2. UNCHANGED <<down, out>> /\ pc[c] # "data"
    BY <1>1 DEF Accept, TakePing, TakeGoAway, Takes, local
  <2> QED
    BY <1>c, <2>1, <2>2
<1>2. CASE SkipUnknown(c) \/ IgnoreData(c)
  <2>1. UNCHANGED <<down, pc, out>>
    BY <1>2 DEF SkipUnknown, IgnoreData, Takes, local
  <2> QED
    BY <2>1 DEF AllWhole
<1>3. CASE TakeHeaders(c)
  <2>1. UNCHANGED down /\ pc[c] = "read"
    BY <1>3 DEF TakeHeaders, Takes
  <2>2. CASE Goto(c, "stat") /\ UNCHANGED out
    BY <1>c, <2>1, <2>2 DEF Goto
  <2>3. CASE \E stream, status, last : status # 200 /\ Reply(c, Failure(stream, status, last))
    BY <1>e, <2>1, <2>3
  <2> QED
    BY <1>3, <2>2, <2>3 DEF TakeHeaders
<1>4. CASE StatPath(c) \/ StatIndex(c)
  <2>1. UNCHANGED down /\ pc[c] \in {"stat", "index"}
    BY <1>4 DEF StatPath, StatIndex
  <2>2. CASE (Goto(c, "index") \/ Goto(c, "open")) /\ UNCHANGED out
    BY <1>c, <2>1, <2>2 DEF Goto
  <2>4. \/ (Goto(c, "index") \/ Goto(c, "open")) /\ UNCHANGED out
        \/ Reply(c, Failure(req[c].stream, 404, FALSE))
        \/ Reply(c, Failure(req[c].stream, 500, FALSE))
    BY <1>4 DEF StatPath, StatIndex
  <2>5. pc[c] # "data"
    BY <2>1
  <2>6. CASE Reply(c, Failure(req[c].stream, 404, FALSE))
    <3> DEFINE p == Failure(req[c].stream, 404, FALSE)
    <3>1. p.status # 200
      BY DEF Failure
    <3>2. Reply(c, p)
      BY <2>6
    <3> HIDE DEF p
    <3> QED
      BY <1>d, <2>1, <2>5, <3>1, <3>2
  <2>7. CASE Reply(c, Failure(req[c].stream, 500, FALSE))
    <3> DEFINE p == Failure(req[c].stream, 500, FALSE)
    <3>1. p.status # 200
      BY DEF Failure
    <3>2. Reply(c, p)
      BY <2>7
    <3> HIDE DEF p
    <3> QED
      BY <1>d, <2>1, <2>5, <3>1, <3>2
  <2> QED
    BY <2>2, <2>4, <2>6, <2>7
<1>5. CASE ReadFile(c)
  <2> DEFINE r == req[c]
             body == fs[r.path].data
  <2>1. UNCHANGED down /\ pc[c] = "open"
    BY <1>5 DEF ReadFile
  <2>2. CASE Reply(c, Failure(r.stream, 500, FALSE))
    <3> DEFINE p == Failure(r.stream, 500, FALSE)
    <3>1. p.status # 200
      BY DEF Failure
    <3>2. Reply(c, p)
      BY <2>2
    <3> HIDE DEF p
    <3> QED
      BY <1>d, <2>1, <3>1, <3>2
  <2>3. CASE Stat(fs, r.path) = "file" /\ Reply(c, Success(r.stream, body, r.head))
    <3> DEFINE p == Success(r.stream, body, r.head)
    <3>1. p.body = body
      BY DEF Success
    <3>2. IsFile(body)
      BY <2>3, ServedIsFile
    <3>3. Reply(c, p)
      BY <2>3
    <3> HIDE DEF p, body
    <3> QED
      BY <1>d, <2>1, <3>1, <3>2, <3>3
  <2>4. \/ Stat(fs, r.path) = "file" /\ Reply(c, Success(r.stream, body, r.head))
        \/ Reply(c, Failure(r.stream, 500, FALSE))
    BY <1>5 DEF ReadFile
  <2> QED
    BY <2>2, <2>3, <2>4
<1>6. CASE Pong(c)
  <2> DEFINE f == PongFrame(req[c])
  <2>1. f \in AnyFrame /\ HasFlag(f, FlagEndStream)
    BY <1>6, <1>a, PongFrameType
    DEF Pong, RequestOK, PongFrame, Frame, HasFlag, FlagEndStream, FlagAck
  <2>2. pc[c] = "pong" /\ UNCHANGED out /\ pc' = [pc EXCEPT ![c] = "read"]
    BY <1>6 DEF Pong, Goto
  <2> HIDE DEF f
  <2>3. CASE Writes(c, f)
    <3>1. WholeFor(WriteFrame(ch, f), "read", o)
      BY <1>a, <1>b, <2>1, <2>2, WholeBegins
    <3>2. down' = [down EXCEPT ![c] = WriteFrame(ch, f)] /\ out' = [out EXCEPT ![c] = o]
      BY <1>a, <2>2, <2>3, WritesStep
    <3> HIDE DEF ch, o
    <3> QED
      BY <2>2, <3>1, <3>2, WholeStep, Zenon
  <2>4. CASE WriteError(c)
    BY <1>c, <2>2, <2>4 DEF WriteError
  <2> QED
    BY <1>6, <2>3, <2>4 DEF Pong, f
<1>7. CASE SendHeaders(c)
  <2> DEFINE f == HeadersFrame(o)
  <2>1. /\ f \in AnyFrame
        /\ HasFlag(f, FlagEndStream) <=> o.ends
        /\ f.hdr = [status |-> o.status, length |-> Len(o.body)]
    BY <1>a, HeadersFrameType
    DEF OutgoingOK, HeadersFrame, Frame, HasFlag, FlagEndStream, FlagEndHeaders
  <2>2. pc[c] = "headers" /\ UNCHANGED out
    BY <1>7 DEF SendHeaders
  <2>3. o.off = 0 /\ (o.status = 200 => IsFile(o.body))
    BY <1>a, <1>b, <2>2 DEF Written, WholeFor
  <2> HIDE DEF f
  <2>4. CASE Writes(c, f) /\ Goto(c, IF o.ends THEN AfterResponse(o) ELSE "data")
    <3> DEFINE next == IF o.ends THEN AfterResponse(o) ELSE "data"
    <3>1. (~o.ends => next = "data") /\ pc' = [pc EXCEPT ![c] = next]
      BY <2>4 DEF Goto
    <3> HIDE DEF next
    <3>2. WholeFor(WriteFrame(ch, f), next, o)
      <4>1. ~HasFlag(f, FlagEndStream) => next = "data"
        BY <2>1, <3>1
      <4> HIDE DEF ch, o
      <4> QED
        BY <1>a, <1>b, <2>1, <2>2, <2>3, <4>1, WholeBegins
    <3>3. down' = [down EXCEPT ![c] = WriteFrame(ch, f)] /\ out' = [out EXCEPT ![c] = o]
      BY <1>a, <2>2, <2>4, WritesStep
    <3> HIDE DEF ch, o
    <3> QED
      BY <3>1, <3>2, <3>3, WholeStep, Zenon
  <2>5. CASE WriteError(c) /\ Goto(c, IF o.status = 200 THEN "read" ELSE "data")
    <3>1. PICK next \in {"read", "data"} : pc' = [pc EXCEPT ![c] = next]
      BY <2>5 DEF Goto
    <3>2. WholeFor(ch, next, o)
      BY <1>b, <2>2, <2>3, <3>1, WholeMoves
    <3>3. down' = [down EXCEPT ![c] = ch] /\ out' = [out EXCEPT ![c] = o]
      BY <1>a, <2>2, <2>5 DEF WriteError
    <3> HIDE DEF ch, o
    <3> QED
      BY <3>1, <3>2, <3>3, WholeStep, Zenon
  <2> QED
    BY <1>7, <2>4, <2>5 DEF SendHeaders, f
<1>8. CASE SendData(c)
  <2> DEFINE o2 == [o EXCEPT !.off = ChunkEnd(o)]
             next == IF ChunkEnd(o) = Len(o.body) THEN AfterResponse(o) ELSE "data"
  <2>1. pc[c] = "data" /\ AfterResponse(o) \in {"read", "close"}
    BY <1>8 DEF SendData, AfterResponse
  <2>2. CASE Writes(c, DataFrame(o)) /\ out' = [out EXCEPT ![c].off = ChunkEnd(o)] /\ Goto(c, next)
    <3>1. next # "headers" /\ (ChunkEnd(o) # Len(o.body) => next = "data")
      BY <2>1
    <3>2. pc' = [pc EXCEPT ![c] = next] /\ out' = [out EXCEPT ![c] = o2]
      BY <1>a, <2>2 DEF Goto
    <3>3. down' = [down EXCEPT ![c] = WriteFrame(ch, DataFrame(o))]
      BY <2>2, WritesStep
    <3>4. WholeFor(WriteFrame(ch, DataFrame(o)), next, o2)
      <4>1. o2 = [o EXCEPT !.off = ChunkEnd(o)]
        OBVIOUS
      <4> HIDE DEF ch, o, next, o2
      <4> QED
        BY <1>a, <1>b, <2>1, <3>1, <4>1, WholeGoesOn
    <3> HIDE DEF ch, o, next, o2
    <3> QED
      BY <3>2, <3>3, <3>4, WholeStep, Zenon
  <2>3. CASE WriteError(c) /\ Goto(c, AfterResponse(o)) /\ UNCHANGED out
    <3>1. UNCHANGED down /\ ch.end # "open"
      BY <2>3 DEF WriteError, WriteFails
    <3>2. AfterResponse(o) \notin {"headers", "data"}
      BY <2>1
    <3> QED
      BY <1>c, <2>3, <3>1, <3>2 DEF Goto
  <2> QED
    BY <1>8, <2>2, <2>3 DEF SendData
<1>9. CASE ReadFails(c)
  <2>1. UNCHANGED down /\ pc[c] = "read"
    BY <1>9 DEF ReadFails
  <2>2. CASE Goto(c, "close") /\ UNCHANGED out
    BY <1>c, <2>1, <2>2 DEF Goto
  <2>3. CASE Reply(c, Failure(1, 400, TRUE))
    <3> DEFINE p == Failure(1, 400, TRUE)
    <3>1. p.status # 200
      BY DEF Failure
    <3>2. Reply(c, p)
      BY <2>3
    <3> HIDE DEF p
    <3> QED
      BY <1>d, <2>1, <3>1, <3>2
  <2>4. (Goto(c, "close") /\ UNCHANGED out) \/ Reply(c, Failure(1, 400, TRUE))
    BY <1>9 DEF ReadFails
  <2> QED
    BY <2>2, <2>3, <2>4, Zenon
<1>10. CASE Close(c)
  <2>1. PICK d \in ClosedByWriter(ch, CanRead(up[c])) : down' = [down EXCEPT ![c] = d]
    BY <1>10 DEF Close
  <2>2. pc[c] = "close" /\ pc' = [pc EXCEPT ![c] = "done"] /\ UNCHANGED out
    BY <1>10 DEF Close, Goto, local
  <2>3. WholeFor(d, "done", o)
    <3>1. CASE d \in Broken(ch)
      <4>1. PICK n \in 0..Len(ch.q) : d = [q |-> SubSeq(ch.q, 1, n), end |-> "reset"]
        BY <3>1 DEF Broken
      <4>2. d.q = SubSeq(ch.q, 1, n) /\ d.end # "open"
        BY <4>1
      <4> HIDE DEF ch, o
      <4> QED
        BY <1>a, <1>b, <2>2, <4>2, WholeEnds
    <3>2. CASE d = [ch EXCEPT !.end = "eof"]
      <4>1. d.q = ch.q /\ d.end # "open"
        BY <1>a, <3>2 DEF Chan
      <4> HIDE DEF ch, o
      <4> QED
        BY <1>a, <1>b, <2>2, <4>1, WholeEnds
    <3>3. CASE d = ch
      BY <1>b, <2>2, <3>3, WholeMoves
    <3> QED
      BY <2>1, <3>1, <3>2, <3>3 DEF ClosedByWriter
  <2>4. out' = [out EXCEPT ![c] = o]
    BY <1>a, <2>2
  <2> HIDE DEF ch, o
  <2> QED
    BY <2>1, <2>2, <2>3, <2>4, WholeStep
<1> QED
  BY <1>1, <1>2, <1>3, <1>4, <1>5, <1>6, <1>7, <1>8, <1>9, <1>10 DEF Handle

LEMMA PeerWhole ==
  ASSUME TypeOK, AllWhole, NEW c \in Conns, PeerSend(c) \/ PeerCut(c) \/ PeerGone(c) \/ Break(c)
  PROVE  AllWhole'
<1>a. /\ down[c] \in Chan(AnyFrame) /\ WholeFor(down[c], pc[c], out[c])
      /\ pc = [pc EXCEPT ![c] = pc[c]] /\ out = [out EXCEPT ![c] = out[c]]
  BY HandlerFacts DEF AllWhole
<1>b. UNCHANGED <<pc, out>>
  BY DEF PeerSend, PeerCut, PeerGone, Break, local
<1>1. CASE PeerSend(c) \/ PeerCut(c)
  BY <1>1, <1>b DEF PeerSend, PeerCut, AllWhole
<1>2. CASE PeerGone(c) \/ Break(c)
  <2>1. PICK e \in {"gone", "reset"} : down' = [down EXCEPT ![c] = [down[c] EXCEPT !.end = e]]
    BY <1>2 DEF PeerGone, Break, ClosedByReader
  <2> DEFINE d == [down[c] EXCEPT !.end = e]
  <2>2. d.q = down[c].q /\ d.end # "open"
    BY <1>a DEF Chan
  <2> HIDE DEF d
  <2>3. WholeFor(d, pc[c], out[c])
    BY <1>a, <2>2, WholeEnds
  <2>4. down' = [down EXCEPT ![c] = d] /\ pc' = [pc EXCEPT ![c] = pc[c]] /\ out' = [out EXCEPT ![c] = out[c]]
    BY <1>a, <1>b, <2>1 DEF d
  <2> QED
    BY <2>3, <2>4, WholeStep
<1> QED
  BY <1>1, <1>2

LEMMA AlwaysWhole == Spec => []AllWhole
<1>1. Init => AllWhole
  <2> SUFFICES ASSUME Init, NEW c \in Conns PROVE WholeFor(down[c], pc[c], out[c])
    BY DEF AllWhole
  <2>1. down[c].q = <<>> /\ pc[c] = "none" /\ Len(down[c].q) = 0
    BY DEF Init, InitServer, Fresh
  <2> QED
    BY <2>1 DEF WholeFor, Wholes
<1>2. TypeOK /\ AllWritten /\ AllWhole /\ [Next]_peerVars => AllWhole'
  <2> SUFFICES ASSUME TypeOK, AllWritten, AllWhole, [Next]_peerVars PROVE AllWhole'
    OBVIOUS
  <2>1. CASE UNCHANGED <<down, pc, out>>
    BY <2>1 DEF AllWhole
  <2>2. ASSUME NEW c \in Conns, Handler(c) PROVE AllWhole'
    BY <2>2, HandlerWhole DEF Handler
  <2>3. ASSUME NEW c \in Conns, PeerSend(c) \/ PeerCut(c) \/ PeerGone(c) \/ Break(c)
        PROVE  AllWhole'
    BY <2>3, PeerWhole
  <2>4. CASE Edit \/ Terminated \/ UNCHANGED peerVars
    BY <2>1, <2>4 DEF Edit, Terminated, peerVars, vars, local
  <2> QED
    BY <2>2, <2>3, <2>4 DEF Next
<1> QED
  BY <1>1, <1>2, TypeCorrect, AlwaysWritten, PTL DEF Spec

\* The first frame with END_STREAM from the i-th on.
LEMMA FirstEnd ==
  ASSUME NEW w \in Seq(AnyFrame), NEW i \in 1..Len(w), ~HasFlag(w[i], FlagEndStream),
         \E j \in i..Len(w) : HasFlag(w[j], FlagEndStream),
         NEW n, n = CHOOSE j \in i..Len(w) : /\ HasFlag(w[j], FlagEndStream)
                                             /\ \A k \in i..(j - 1) : ~HasFlag(w[k], FlagEndStream)
  PROVE  /\ n \in (i + 1)..Len(w) /\ HasFlag(w[n], FlagEndStream)
         /\ \A k \in i..(n - 1) : ~HasFlag(w[k], FlagEndStream)
<1> DEFINE T == {j \in i..Len(w) : HasFlag(w[j], FlagEndStream)}
<1>1. PICK m \in T : \A j \in T : m <= j
  <2>1. T \subseteq Nat /\ T # {}
    OBVIOUS
  <2> HIDE DEF T
  <2> QED
    BY <2>1, LeastNumber
<1>2. m \in i..Len(w) /\ HasFlag(w[m], FlagEndStream)
  OBVIOUS
<1>3. \A k \in i..(m - 1) : ~HasFlag(w[k], FlagEndStream)
  <2> SUFFICES ASSUME NEW k \in i..(m - 1), HasFlag(w[k], FlagEndStream) PROVE FALSE
    OBVIOUS
  <2>1. k \in T /\ k < m
    BY <1>2
  <2> HIDE DEF T
  <2> QED
    BY <1>1, <1>2, <2>1
<1> HIDE DEF T
<1>4. /\ n \in i..Len(w) /\ HasFlag(w[n], FlagEndStream)
      /\ \A k \in i..(n - 1) : ~HasFlag(w[k], FlagEndStream)
  BY <1>2, <1>3
<1>5. n # i
  BY <1>4
<1> QED
  BY <1>4, <1>5

\* WholeFiles of BhttpServerPeer: a response that was written to its end
\* carries the whole of one version of a file, and the length its HEADERS frame
\* announced, however the tree is edited while the handler works.
THEOREM FilesAreWhole == Spec => []WholeFiles
<1>1. TypeOK /\ AllWhole => WholeFiles
  <2> SUFFICES ASSUME TypeOK, AllWhole, NEW c \in Conns
               PROVE  LET w == down[c].q
                          lastOf(i) == CHOOSE j \in i..Len(w) :
                                         /\ HasFlag(w[j], FlagEndStream)
                                         /\ \A k \in i..(j - 1) : ~HasFlag(w[k], FlagEndStream)
                          body(i) == FlattenSeq([k \in 1..(lastOf(i) - i) |-> w[i + k].data])
                      IN \A i \in 1..Len(w) :
                           /\ w[i].type = "HEADERS" /\ ~HasFlag(w[i], FlagEndStream)
                           /\ \E j \in i..Len(w) : HasFlag(w[j], FlagEndStream)
                           => /\ Len(body(i)) = w[i].hdr.length
                              /\ w[i].hdr.status = 200 =>
                                   \E t \in Trees : \E p \in DOMAIN t :
                                     t[p].kind = "file" /\ t[p].data = body(i)
    BY DEF WholeFiles
  <2> DEFINE w == down[c].q
             lastOf(i) == CHOOSE j \in i..Len(w) :
                            /\ HasFlag(w[j], FlagEndStream)
                            /\ \A k \in i..(j - 1) : ~HasFlag(w[k], FlagEndStream)
             body(i) == FlattenSeq([k \in 1..(lastOf(i) - i) |-> w[i + k].data])
  <2> SUFFICES ASSUME NEW i \in 1..Len(w), w[i].type = "HEADERS", ~HasFlag(w[i], FlagEndStream),
                      \E j \in i..Len(w) : HasFlag(w[j], FlagEndStream)
               PROVE  IsWhole(w[i].hdr, body(i))
    BY DEF IsWhole, IsFile
  <2> DEFINE n == lastOf(i)
  <2>1. w \in Seq(AnyFrame) /\ Wholes(w)
    BY HandlerFacts DEF Chan, AllWhole, WholeFor
  <2>5. body(i) = Body(w, i, n)
    BY DEF Body
  <2>2. /\ n \in (i + 1)..Len(w) /\ HasFlag(w[n], FlagEndStream)
        /\ \A k \in i..(n - 1) : ~HasFlag(w[k], FlagEndStream)
    <3> HIDE DEF w
    <3>1. n = CHOOSE j \in i..Len(w) : /\ HasFlag(w[j], FlagEndStream)
                                       /\ \A k \in i..(j - 1) : ~HasFlag(w[k], FlagEndStream)
      OBVIOUS
    <3> HIDE DEF n
    <3> QED
      BY <2>1, <3>1, FirstEnd
  <2> HIDE DEF w, n, body
  <2>3. Spans(w, i, n)
    BY <2>2 DEF Spans
  <2>4. IsWhole(w[i].hdr, Body(w, i, n))
    BY <2>1, <2>2, <2>3 DEF Wholes
  <2> QED
    BY <2>4, <2>5
<1> QED
  BY <1>1, TypeCorrect, AlwaysWhole, PTL

=============================================================================
