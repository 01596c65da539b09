-------------------------- MODULE BhttpClientProofs --------------------------
(***************************************************************************)
(* Theorems about the client of BhttpClientPeer, for any targets, any      *)
(* frames the servers send and any number of connections.                  *)
(***************************************************************************)
EXTENDS BhttpClientPeer, BhttpWireProofs

USE WireAssumption, ClientAssumption, ClientPeerAssumption

-----------------------------------------------------------------------------
(* The inductive invariant                                                 *)

Request(n, t) ==
  Frame("HEADERS", {FlagEndStream, FlagEndHeaders}, n,
        [method |-> "GET", path |-> t.path, host |-> t.host], <<>>)
Requests  == {Request(n, t) : n \in Nat, t \in Targets}
Addresses == {t.host : t \in Targets} \cup {"none"}
Responses == [stream : Nat, status : Nat, body : Seq(Nat)]
Causes    == Types \cup {"url", "dial", "send", "headers", "goaway", "read"}
Entries   == [ok : BOOLEAN, status : Nat, body : Seq(Nat), stream : Nat,
              conn : Conns \cup {NoConn}, by : Causes]

Typed ==
  /\ cpc \in {"next", "dial", "send", "recv", "exit"} /\ code \in {-1, 0, 1}
  /\ conn \in Conns \cup {NoConn} /\ hasError \in BOOLEAN /\ sent \in 0..MaxFrames
  /\ up \in [Conns -> Chan(Requests)] /\ down \in [Conns -> Chan(Offers)]
  /\ host \in [Conns -> Addresses] /\ urls \in Seq(Targets)
  /\ resp \in Responses /\ log \in Seq(Entries)

\* The counter is odd, and the targets that are left do not make it wrap; one
\* that is being received has had its identifier.
Counted ==
  /\ nextStreamID \in Nat /\ nextStreamID % 2 = 1
  /\ nextStreamID + 2 * Len(urls) < IF cpc = "recv" THEN StreamMod + 2 ELSE StreamMod

\* A connection that is held is the one to currentAddr; none is held while
\* another is dialled.
Held ==
  /\ conn # NoConn => host[conn] = currentAddr /\ up[conn].end # "none"
  /\ cpc = "dial" => conn = NoConn
  /\ cpc \in {"send", "recv"} => conn # NoConn /\ currentAddr = target.host
  /\ cpc \in {"dial", "send", "recv"} => urls # <<>> /\ target # BadURL

Base == Typed /\ Counted /\ Held

-----------------------------------------------------------------------------
(* The parts of the steps                                                  *)

LEMMA TargetType ==
  ASSUME Typed, urls # <<>>
  PROVE  /\ target \in Targets /\ target.host \in Addresses
         /\ Tail(urls) \in Seq(Targets) /\ Len(Tail(urls)) = Len(urls) - 1 /\ Len(urls) \in Nat
BY HeadTailProperties DEF Typed, target, Addresses

\* A step that ends a target.
Settled == \E ok \in BOOLEAN, r \in Responses, by \in Causes : Settle(ok, r, by)

LEMMA FailSettles ==
  ASSUME resp \in Responses, NEW by \in Causes, Fail(by)
  PROVE  Settled
<1>1. Settle(FALSE, resp, by)
  BY DEF Fail
<1>2. FALSE \in BOOLEAN
  OBVIOUS
<1> QED
  BY <1>1, <1>2, Zenon DEF Settled

\* Settle keeps the types of what it changes.
LEMMA SettleType ==
  ASSUME Typed, urls # <<>>, Settled
  PROVE  /\ log' \in Seq(Entries) /\ hasError' \in BOOLEAN /\ urls' \in Seq(Targets)
         /\ cpc' = "next" /\ code' = code /\ Len(urls') = Len(urls) - 1
<1> PICK ok \in BOOLEAN, r \in Responses, by \in Causes : Settle(ok, r, by)
  BY Zenon DEF Settled
<1> DEFINE e == [ok |-> ok, status |-> r.status, body |-> r.body, stream |-> r.stream,
                 conn |-> conn, by |-> by]
<1>1. e \in Entries
  BY DEF Typed, Responses, Entries
<1>2. log' = Append(log, e) /\ log \in Seq(Entries)
  BY DEF Settle, Typed
<1>3. log' \in Seq(Entries)
  <2> HIDE DEF e
  <2> QED BY <1>1, <1>2, AppendProperties
<1>4. hasError' \in BOOLEAN
  BY DEF Settle, Typed
<1> QED
  BY <1>3, <1>4, TargetType DEF Settle

\* Whatever is closed stays as it was, but that nothing more is written.
LEMMA CloseConnFacts ==
  ASSUME Typed, CloseConn
  PROVE  /\ up' \in [Conns -> Chan(Requests)] /\ down' \in [Conns -> Chan(Offers)]
         /\ \A c \in Conns : IsRestOf(up'[c], up[c]) /\ (c # conn => up'[c] = up[c])
         /\ conn # NoConn => up'[conn].end # "open"
<1>1. CASE conn = NoConn
  <2>1. up' = up /\ down' = down
    BY <1>1 DEF CloseConn
  <2> QED
    BY <2>1, <1>1, Unchanged DEF Typed
<1>2. CASE conn # NoConn
  <2>1. conn \in Conns /\ up[conn] \in Chan(Requests) /\ down[conn] \in Chan(Offers)
    BY <1>2 DEF Typed
  <2>2. PICK ch \in ClosedByWriter(up[conn], CanRead(down[conn])) : up' = [up EXCEPT ![conn] = ch]
    BY <1>2 DEF CloseConn
  <2>3. CanRead(down[conn]) \in BOOLEAN
    BY DEF CanRead
  <2>4. ch \in Chan(Requests) /\ IsRestOf(ch, up[conn]) /\ ch.end # "open"
    BY <2>1, <2>2, <2>3, ClosedType, ClosedRest
  <2>5. down' = [down EXCEPT ![conn] = ClosedByReader(down[conn])] /\ ClosedByReader(down[conn]) \in Chan(Offers)
    BY <1>2, <2>1, ClosedType DEF CloseConn
  <2>6. \A c \in Conns : IsRestOf(up[c], up[c])
    BY Unchanged DEF Typed
  <2> QED
    BY <2>1, <2>2, <2>4, <2>5, <2>6 DEF Typed
<1> QED
  BY <1>1, <1>2

LEMMA RequestType ==
  ASSUME Typed, Counted, urls # <<>>
  PROVE  RequestFrame \in Requests /\ RequestFrame.stream = nextStreamID
         /\ RequestFrame.hdr.host = target.host
<1>1. RequestFrame = Request(nextStreamID, target)
  BY DEF RequestFrame, Request
<1>2. nextStreamID \in Nat /\ target \in Targets
  BY TargetType DEF Counted
<1>3. RequestFrame \in Requests
  BY <1>1, <1>2 DEF Requests
<1> QED
  BY <1>1, <1>3 DEF Request, Frame

\* The connection that is dialled is one that did not exist.
LEMMA NewConnFacts ==
  ASSUME Typed, CanDial
  PROVE  NewConn \in Conns /\ up[NewConn].end = "none"
BY DEF CanDial, NewConn

LEMMA EndType ==
  ASSUME NEW S, NEW ch \in Chan(S), NEW e \in Ends
  PROVE  [ch EXCEPT !.end = e] \in Chan(S)
BY DEF Chan

LEMMA FreshType == Fresh \in Chan(Requests) /\ Fresh \in Chan(Offers)
BY DEF Fresh, Chan, Ends

\* The frame at the head of a channel to the client.
LEMMA ReceivedType ==
  ASSUME Typed, conn \in Conns, CanRead(down[conn])
  PROVE  /\ Head(down[conn].q) \in Offers
         /\ [down EXCEPT ![conn] = ReadFrame(@)] \in [Conns -> Chan(Offers)]
BY ReadFrameType DEF Typed

-----------------------------------------------------------------------------
(* Types and what is held                                                  *)

LEMMA BaseInit == Init => Base
<1> SUFFICES ASSUME Init PROVE Base
  OBVIOUS
<1>1. PICK s \in Scripts : InitClient(s)
  BY DEF Init
<1>2. s \in Seq(Targets) /\ 2 * Len(s) + 1 < StreamMod /\ Len(s) \in Nat
  OBVIOUS
<1>3. NoChannel \in Chan(Requests) /\ NoChannel \in Chan(Offers)
  BY DEF NoChannel, Chan, Ends
<1>4. Typed
  <2>1. resp \in Responses /\ log \in Seq(Entries) /\ host \in [Conns -> Addresses]
    BY <1>1 DEF InitClient, NoResponse, Responses, Addresses
  <2>2. urls \in Seq(Targets)
    BY <1>1, <1>2 DEF InitClient
  <2>3. up \in [Conns -> Chan(Requests)] /\ down \in [Conns -> Chan(Offers)] /\ sent \in 0..MaxFrames
    BY <1>3 DEF Init
  <2> QED
    BY <1>1, <2>1, <2>2, <2>3 DEF InitClient, Typed
<1>5. Counted
  BY <1>1, <1>2 DEF InitClient, Counted
<1>6. Held
  BY <1>1 DEF InitClient, Held
<1> QED
  BY <1>4, <1>5, <1>6 DEF Base

LEMMA NextOdd ==
  ASSUME NEW n \in Nat, n % 2 = 1
  PROVE  (n + 2) % 2 = 1
OBVIOUS

\* A step that ends a target keeps the invariant.
LEMMA BaseSettle ==
  ASSUME Base, urls # <<>>, cpc # "exit", Settled,
         up' = up, down' \in [Conns -> Chan(Offers)], sent' = sent, session' = session,
         resp' \in Responses,
         nextStreamID' = nextStreamID \/ (cpc = "send" /\ nextStreamID' = nextStreamID + 2)
  PROVE  Base'
<1>1. /\ log' \in Seq(Entries) /\ hasError' \in BOOLEAN /\ urls' \in Seq(Targets)
      /\ cpc' = "next" /\ code' = code /\ Len(urls') = Len(urls) - 1
  BY SettleType DEF Base
<1>2. Typed'
  BY <1>1 DEF Base, Typed, session
<1>3. Counted'
  <2>1. Len(urls) \in Nat /\ Len(urls) > 0
    BY TargetType DEF Base, Typed
  <2>2. /\ nextStreamID \in Nat /\ nextStreamID % 2 = 1
        /\ nextStreamID + 2 * Len(urls) < IF cpc = "recv" THEN StreamMod + 2 ELSE StreamMod
    BY DEF Base, Counted
  <2>3. nextStreamID' \in Nat /\ nextStreamID' % 2 = 1
    <3>1. nextStreamID + 2 \in Nat /\ (nextStreamID + 2) % 2 = 1
      BY <2>2, NextOdd
    <3> QED
      BY <2>2, <3>1
  <2>4. nextStreamID' + 2 * (Len(urls) - 1) < StreamMod
    <3>1. CASE cpc = "send"
      BY <2>1, <2>2, <3>1
    <3>2. CASE cpc # "send"
      BY <2>1, <2>2, <3>2
    <3> QED
      BY <3>1, <3>2
  <2> QED
    BY <1>1, <2>3, <2>4 DEF Counted
<1>4. Held'
  BY <1>1 DEF Base, Held, session
<1> QED
  BY <1>2, <1>3, <1>4 DEF Base

LEMMA NoWrap ==
  ASSUME NEW n \in Nat, n + 2 < StreamMod
  PROVE  (n + 2) % StreamMod = n + 2
OBVIOUS

\* AllocStream moves the counter by two.
LEMMA AllocFacts ==
  ASSUME Base, AllocStream
  PROVE  /\ nextStreamID' = nextStreamID + 2 /\ nextStreamID \in Nat
         /\ cpc = "send" /\ conn \in Conns /\ urls # <<>> /\ target.host = host[conn]
<1>1. Len(urls) \in Nat /\ Len(urls) > 0 /\ urls # <<>>
  BY TargetType DEF Base, Typed, Held, AllocStream
<1>2. nextStreamID \in Nat /\ nextStreamID + 2 < StreamMod
  BY <1>1 DEF Base, Counted, AllocStream
<1> QED
  BY <1>1, <1>2, NoWrap DEF Base, Typed, Held, AllocStream

\* The receive loop.
LEMMA ReceivesFacts ==
  ASSUME Base, NEW type \in Types, Receives(type)
  PROVE  LET f == Head(down[conn].q)
         IN /\ f \in Offers /\ f.type = type /\ down' \in [Conns -> Chan(Offers)]
            /\ up' = up /\ session' = session /\ nextStreamID' = nextStreamID
            /\ cpc = "recv" /\ conn \in Conns /\ urls # <<>>
<1>1. cpc = "recv" /\ conn \in Conns /\ urls # <<>> /\ CanRead(down[conn])
  BY DEF Receives, Base, Held, Typed
<1> QED
  BY <1>1, ReceivedType DEF Receives, Base

\* A step of the receive loop that does not end the target.
LEMMA BaseReceive ==
  ASSUME Base, cpc = "recv", up' = up, down' \in [Conns -> Chan(Offers)], sent' = sent,
         session' = session, resp' \in Responses, nextStreamID' = nextStreamID,
         UNCHANGED <<urls, cpc, report>>
  PROVE  Base'
BY DEF Base, Typed, Counted, Held, session, report, target

LEMMA BaseContinue ==
  ASSUME Base, cpc = "recv", urls # <<>>, up' = up, down' \in [Conns -> Chan(Offers)], sent' = sent,
         session' = session, nextStreamID' = nextStreamID,
         NEW f, f.type \in Types, NEW r \in Responses, Continue(f, r)
  PROVE  Base'
<1>1. CASE HasFlag(f, FlagEndStream)
  <2>1. Settle(TRUE, r, f.type) /\ resp' = r /\ TRUE \in BOOLEAN /\ f.type \in Causes
    BY <1>1 DEF Continue, Causes
  <2>2. Settled
    BY <2>1, Zenon DEF Settled
  <2> QED
    BY <2>1, <2>2, BaseSettle
<1>2. CASE ~HasFlag(f, FlagEndStream)
  BY <1>2, BaseReceive DEF Continue
<1> QED
  BY <1>1, <1>2

\* Types, the counter and what is held: an inductive invariant.
LEMMA BaseNext == ASSUME Base, Next PROVE Base'
<1>0. Typed /\ Counted /\ Held
  BY DEF Base
<1>1. ASSUME Client PROVE Base'
  <2>0. sent' = sent
    BY <1>1 DEF Client
  <2>1. CASE RejectURL
    <3>1. urls # <<>> /\ cpc = "next" /\ NoResponse \in Responses
      BY <1>0, <2>1 DEF RejectURL, NoResponse, Responses
    <3>2. Settle(FALSE, NoResponse, "url") /\ FALSE \in BOOLEAN /\ "url" \in Causes
      BY <2>1 DEF RejectURL, Causes
    <3>3. Settled
      BY <3>1, <3>2, Zenon DEF Settled
    <3> QED
      BY <1>0, <2>0, <2>1, <3>1, <3>3, BaseSettle DEF RejectURL, Typed
  <2>2. CASE EnsureConnection
    <3>1. CASE conn # NoConn /\ currentAddr = target.host
      <4>1. cpc' = "send" /\ up' = up /\ down' = down /\ conn' = conn
        BY <1>0, <2>2, <3>1 DEF EnsureConnection
      <4>2. Typed'
        BY <1>0, <2>0, <2>2, <4>1 DEF EnsureConnection, Typed, NoResponse, Responses, report
      <4> QED
        BY <1>0, <2>2, <3>1, <4>1, <4>2 DEF Base, EnsureConnection, Counted, Held, target
    <3>2. CASE ~(conn # NoConn /\ currentAddr = target.host)
      <4>1. cpc' = "dial" /\ CloseConn /\ conn' = NoConn
        BY <1>0, <2>2, <3>2 DEF EnsureConnection
      <4>2. up' \in [Conns -> Chan(Requests)] /\ down' \in [Conns -> Chan(Offers)]
        BY <1>0, <4>1, CloseConnFacts
      <4>3. Typed'
        BY <1>0, <2>0, <2>2, <4>1, <4>2 DEF EnsureConnection, Typed, NoResponse, Responses, report
      <4> QED
        BY <1>0, <2>2, <4>1, <4>3 DEF Base, EnsureConnection, Counted, Held, target
    <3> QED
      BY <1>0, <3>1, <3>2
  <2>3. CASE Dial
    <3>1. NewConn \in Conns /\ Fresh \in Chan(Requests) /\ Fresh \in Chan(Offers)
          /\ target.host \in Addresses
      BY <1>0, <2>3, NewConnFacts, FreshType, TargetType DEF Dial, Held
    <3>2. Typed'
      BY <1>0, <2>0, <2>3, <3>1 DEF Dial, Typed, report
    <3>3. host'[NewConn] = target.host /\ up'[NewConn].end = "open"
      BY <1>0, <2>3, <3>1 DEF Dial, Typed, Fresh
    <3> QED
      BY <1>0, <2>3, <3>1, <3>2, <3>3 DEF Base, Dial, Counted, Held, target
  <2>4. CASE DialFails
    <3>1. urls # <<>> /\ cpc = "dial" /\ resp \in Responses
      BY <1>0, <2>4 DEF DialFails, Held, Typed
    <3> QED
      BY <1>0, <2>0, <2>4, <3>1, FailSettles, BaseSettle DEF Causes, DialFails, Typed
  <2>5. CASE Send
    <3>1. /\ nextStreamID' = nextStreamID + 2 /\ nextStreamID \in Nat
          /\ cpc = "send" /\ conn \in Conns /\ urls # <<>>
      BY <1>0, <2>5, AllocFacts DEF Send
    <3>2. up' = [up EXCEPT ![conn] = WriteFrame(up[conn], RequestFrame)]
          /\ WriteFrame(up[conn], RequestFrame) \in Chan(Requests)
      BY <1>0, <2>5, <3>1, RequestType, WriteFrameType DEF Send, Typed
    <3>3. resp' \in Responses
      <4>1. resp' = [stream |-> nextStreamID, status |-> 0, body |-> <<>>]
        BY <2>5 DEF Send, NoResponse
      <4> QED
        BY <3>1, <4>1 DEF Responses
    <3>4. /\ cpc' = "recv" /\ UNCHANGED <<urls, report, down, session, sent>>
      BY <1>0, <2>0, <2>5 DEF Send, AllocStream
    <3>5. Typed'
      BY <1>0, <3>1, <3>2, <3>3, <3>4 DEF Typed, session, report
    <3>6. Counted'
      <4>1. Len(urls) \in Nat
        BY <1>0, <3>1, TargetType
      <4>2. nextStreamID + 2 \in Nat /\ (nextStreamID + 2) % 2 = 1
        BY <1>0, <3>1, NextOdd DEF Counted
      <4> QED
        BY <1>0, <3>1, <3>4, <4>1, <4>2 DEF Counted
    <3>7. up'[conn].end = up[conn].end
      BY <1>0, <3>1, <3>2 DEF WriteFrame, Typed
    <3> QED
      BY <1>0, <3>1, <3>4, <3>5, <3>6, <3>7 DEF Base, Held, session, target
  <2>6. CASE SendFails
    <3>1. /\ nextStreamID' = nextStreamID + 2
          /\ cpc = "send" /\ conn \in Conns /\ urls # <<>> /\ resp \in Responses
      BY <1>0, <2>6, AllocFacts DEF SendFails, Typed
    <3> QED
      BY <1>0, <2>0, <2>6, <3>1, FailSettles, BaseSettle DEF Causes, SendFails, AllocStream, Typed
  <2>7. CASE Discard
    <3>1. PICK type \in Types : Receives(type)
      BY <1>0, <2>7 DEF Discard
    <3> QED
      BY <1>0, <2>0, <2>7, <3>1, ReceivesFacts, BaseReceive DEF Discard, Typed
  <2>8. CASE RecvHeaders
    <3> DEFINE f == Head(down[conn].q)
               r == IF f.hdr.status = NoStatus THEN resp ELSE [resp EXCEPT !.status = f.hdr.status]
    <3>1. /\ f \in Offers /\ f.type = "HEADERS" /\ down' \in [Conns -> Chan(Offers)]
          /\ up' = up /\ session' = session /\ nextStreamID' = nextStreamID
          /\ cpc = "recv" /\ conn \in Conns /\ urls # <<>>
      BY <1>0, <2>8, ReceivesFacts DEF RecvHeaders, Types
    <3>2. CASE f.hdr = Malformed
      BY <1>0, <2>0, <2>8, <3>1, <3>2, FailSettles, BaseSettle DEF Causes, RecvHeaders, Typed
    <3>3. CASE f.hdr # Malformed
      <4>1. r \in Responses
        BY <1>0, <3>1, <3>3 DEF Typed, Responses
      <4>2. Continue(f, r)
        BY <1>0, <2>8, <3>3 DEF RecvHeaders
      <4> QED
        <5> HIDE DEF f, r
        <5> QED
          BY <2>0, <3>1, <4>1, <4>2, BaseContinue DEF Types
    <3> QED
      BY <1>0, <3>2, <3>3
  <2>9. CASE RecvData
    <3> DEFINE f == Head(down[conn].q)
               r == [resp EXCEPT !.body = @ \o f.data]
    <3>1. /\ f \in Offers /\ f.type = "DATA" /\ down' \in [Conns -> Chan(Offers)]
          /\ up' = up /\ session' = session /\ nextStreamID' = nextStreamID
          /\ cpc = "recv" /\ conn \in Conns /\ urls # <<>>
      BY <1>0, <2>9, ReceivesFacts DEF RecvData, Types
    <3>2. r \in Responses
      <4>1. resp.body \in Seq(Nat) /\ f.data \in Seq(Nat)
        BY <1>0, <3>1 DEF Typed, Responses
      <4>2. resp.body \o f.data \in Seq(Nat)
        BY <4>1, ConcatProperties
      <4> QED
        BY <1>0, <4>2 DEF Typed, Responses
    <3>3. Continue(f, r)
      BY <1>0, <2>9 DEF RecvData
    <3> QED
      <4> HIDE DEF f, r
      <4> QED
        BY <2>0, <3>1, <3>2, <3>3, BaseContinue DEF Types
  <2>10. CASE RecvPing
    <3> DEFINE f == Head(down[conn].q)
    <3>1. /\ f.type = "PING" /\ down' \in [Conns -> Chan(Offers)]
          /\ up' = up /\ session' = session /\ nextStreamID' = nextStreamID
          /\ cpc = "recv" /\ urls # <<>>
      BY <2>10, ReceivesFacts DEF RecvPing, Types
    <3>2. Continue(f, resp) /\ resp \in Responses
      BY <1>0, <2>10 DEF RecvPing, Typed
    <3> HIDE DEF f
    <3> QED
      BY <2>0, <3>1, <3>2, BaseContinue DEF Types
  <2>11. CASE RecvGoAway
    <3>1. /\ down' \in [Conns -> Chan(Offers)]
          /\ up' = up /\ session' = session /\ nextStreamID' = nextStreamID
          /\ cpc = "recv" /\ urls # <<>>
      BY <2>11, ReceivesFacts DEF RecvGoAway, Types
    <3>2. Fail("goaway") /\ resp' = resp /\ resp \in Responses
      BY <1>0, <2>11 DEF RecvGoAway, Typed
    <3> QED
      BY <2>0, <3>1, <3>2, FailSettles, BaseSettle DEF Causes
  <2>12. CASE RecvFails
    <3>1. cpc = "recv" /\ urls # <<>> /\ resp \in Responses
      BY <1>0, <2>12 DEF RecvFails, Held, Typed
    <3> QED
      BY <1>0, <2>0, <2>12, <3>1, FailSettles, BaseSettle DEF Causes, RecvFails, Typed
  <2>13. CASE Exit
    <3>1. up' \in [Conns -> Chan(Requests)] /\ down' \in [Conns -> Chan(Offers)]
      BY <1>0, <2>13, CloseConnFacts DEF Exit
    <3>2. Typed'
      BY <1>0, <2>0, <2>13, <3>1 DEF Exit, Typed
    <3> QED
      BY <1>0, <2>13, <3>2 DEF Base, Exit, Counted, Held
  <2> QED
    BY <1>0, <1>1, <2>1, <2>2, <2>3, <2>4, <2>5, <2>6, <2>7, <2>8, <2>9, <2>10, <2>11, <2>12, <2>13
       DEF Client, ClientStep
<1>2. ASSUME NEW c \in Conns, ServerSend(c) \/ ServerCut(c) \/ ServerGone(c) \/ Break(c)
      PROVE  Base'
  <2>1. up' \in [Conns -> Chan(Requests)] /\ down' \in [Conns -> Chan(Offers)]
    <3>1. up[c] \in Chan(Requests) /\ down[c] \in Chan(Offers)
      BY <1>0 DEF Typed
    <3>2. CASE ServerSend(c)
      BY <1>0, <3>1, <3>2, WriteFrameType DEF ServerSend, Typed
    <3>3. CASE ServerCut(c)
      <4>1. PICK e \in {"eof", "inPayload"} : down' = [down EXCEPT ![c].end = e]
        BY <3>3 DEF ServerCut
      <4>2. down' = [down EXCEPT ![c] = [down[c] EXCEPT !.end = e]] /\ e \in Ends
        BY <1>0, <4>1 DEF Typed, Ends, Cuts
      <4> QED
        BY <1>0, <3>1, <3>3, <4>2, EndType DEF ServerCut, Typed
    <3>4. CASE ServerGone(c)
      <4> DEFINE e == IF down[c].end = "open" THEN "eof" ELSE down[c].end
      <4>1. e \in Ends
        BY <3>1 DEF Chan, Ends, Cuts
      <4>2. down' = [down EXCEPT ![c] = [down[c] EXCEPT !.end = e]]
        BY <1>0, <3>4 DEF ServerGone, Typed
      <4>3. up' = [up EXCEPT ![c] = ClosedByReader(up[c])]
        BY <3>4 DEF ServerGone
      <4> HIDE DEF e
      <4> QED
        BY <1>0, <3>1, <4>1, <4>2, <4>3, EndType, ClosedType DEF Typed
    <3>5. CASE Break(c)
      <4>1. PICK ch \in Broken(down[c]) : down' = [down EXCEPT ![c] = ch]
        BY <3>5 DEF Break
      <4>2. up' = [up EXCEPT ![c] = [up[c] EXCEPT !.end = "reset"]] /\ "reset" \in Ends
        BY <1>0, <3>5 DEF Break, Typed, Ends
      <4> QED
        BY <1>0, <3>1, <4>1, <4>2, EndType, BrokenType DEF Typed
    <3> QED
      BY <1>2, <3>2, <3>3, <3>4, <3>5
  <2>2. sent' \in 0..MaxFrames /\ UNCHANGED clientOnly
    BY <1>0, <1>2 DEF ServerSend, ServerCut, ServerGone, Break, Typed
  <2>3. conn # NoConn => (up[conn].end # "none" => up'[conn].end # "none")
    BY <1>0, <1>2 DEF ServerSend, ServerCut, ServerGone, Break, Typed, ClosedByReader, Chan
  <2> QED
    BY <1>0, <2>1, <2>2, <2>3 DEF Base, Typed, Counted, Held, clientOnly, report, target
<1>3. CASE Terminated
  BY <1>0, <1>3 DEF Base, Terminated, peerVars, clientVars, report, session, Typed, Counted, Held, target
<1> QED
  BY <1>0, <1>1, <1>2, <1>3 DEF Next

LEMMA BaseStep == Base /\ [Next]_peerVars => Base'
<1> SUFFICES ASSUME Base, [Next]_peerVars PROVE Base'
  OBVIOUS
<1>1. CASE Next
  BY <1>1, BaseNext
<1>2. CASE UNCHANGED peerVars
  BY <1>2 DEF Base, peerVars, clientVars, report, session, Typed, Counted, Held, target
<1> QED
  BY <1>1, <1>2

LEMMA BaseAlways == Spec => []Base
BY BaseInit, BaseStep, PTL DEF Spec

\* The client and its connections keep their types, and the client only sends
\* or receives on a connection to the address of its target (client.go:85-106),
\* for any targets and any number of connections.
THEOREM ClientTypes == Spec => []TypeOK
<1>1. Base => TypeOK
  <2> SUFFICES ASSUME Base PROVE TypeOK
    OBVIOUS
  <2>1. Len(urls) \in Nat /\ (cpc = "recv" => Len(urls) > 0)
    BY TargetType DEF Base, Typed, Held
  <2>2. nextStreamID \in 0..(StreamMod - 1)
    BY <2>1 DEF Base, Counted
  <2>3. \A c \in Conns : up[c].end \in Ends /\ down[c].end \in Ends
    BY DEF Base, Typed, Chan
  <2> QED
    BY <2>2, <2>3 DEF Base, Typed, Held, TypeOK
<1> QED
  BY <1>1, BaseAlways, PTL

-----------------------------------------------------------------------------
(* What a step does to the channels to the servers                         *)

\* Nothing more is written to c, and it is not forgotten while it is open.
Rests(c) ==
  /\ IsRestOf(up'[c], up[c]) /\ host'[c] = host[c]
  /\ c # conn' => c # conn \/ up'[c].end # "open"
Dials(c) == up[c].end = "none" /\ up'[c] = Fresh /\ c = conn'
Asks(c) ==
  /\ up'[c] = WriteFrame(up[c], RequestFrame) /\ c = conn /\ conn' = conn /\ urls # <<>>
  /\ host'[c] = host[c] /\ target.host = host[c]
  /\ nextStreamID' = nextStreamID + 2 /\ ~WriteRefused(nextStreamID)

LEMMA UpStep ==
  ASSUME Base, [Next]_peerVars
  PROVE  /\ nextStreamID' \in Nat /\ nextStreamID' >= nextStreamID
         /\ \A c \in Conns : Rests(c) \/ Dials(c) \/ Asks(c)
<1>0. Typed /\ Counted /\ Held /\ \A c \in Conns : IsRestOf(up[c], up[c])
  BY Unchanged DEF Base, Typed
<1>1. ASSUME UNCHANGED <<up, host, conn, nextStreamID>>
      PROVE  /\ nextStreamID' \in Nat /\ nextStreamID' >= nextStreamID
             /\ \A c \in Conns : Rests(c) \/ Dials(c) \/ Asks(c)
  BY <1>0, <1>1 DEF Rests, Counted
<1>2. ASSUME CloseConn, UNCHANGED <<host, nextStreamID>>, conn' \in {conn, NoConn}
      PROVE  /\ nextStreamID' \in Nat /\ nextStreamID' >= nextStreamID
             /\ \A c \in Conns : Rests(c) \/ Dials(c) \/ Asks(c)
  BY <1>0, <1>2, CloseConnFacts DEF Rests, Counted
<1>3. CASE EnsureConnection
  BY <1>1, <1>2, <1>3 DEF EnsureConnection
<1>4. CASE Exit
  BY <1>2, <1>4 DEF Exit
<1>5. CASE Dial
  <2>1. NewConn \in Conns /\ conn = NoConn /\ conn' = NewConn /\ nextStreamID' = nextStreamID
        /\ up[NewConn].end = "none"
        /\ up' = [up EXCEPT ![NewConn] = Fresh] /\ host' = [host EXCEPT ![NewConn] = target.host]
    BY <1>0, <1>5, NewConnFacts DEF Dial, Held
  <2>2. \A c \in Conns : IF c = NewConn THEN Dials(c) ELSE Rests(c)
    BY <1>0, <2>1 DEF Dials, Rests, Typed
  <2> QED
    BY <1>0, <2>1, <2>2 DEF Counted
<1>6. CASE Send
  <2>1. /\ nextStreamID' = nextStreamID + 2 /\ nextStreamID \in Nat /\ ~WriteRefused(nextStreamID)
        /\ conn \in Conns /\ urls # <<>> /\ target.host = host[conn]
        /\ conn' = conn /\ host' = host
        /\ up' = [up EXCEPT ![conn] = WriteFrame(up[conn], RequestFrame)]
    BY <1>6, AllocFacts DEF Send, AllocStream, session
  <2>2. \A c \in Conns : IF c = conn THEN Asks(c) ELSE Rests(c)
    BY <1>0, <2>1 DEF Asks, Rests, Typed
  <2> QED
    BY <2>1, <2>2
<1>7. CASE SendFails
  <2>1. nextStreamID' = nextStreamID + 2 /\ nextStreamID \in Nat /\ up' = up /\ conn' = conn /\ host' = host
    BY <1>7, AllocFacts DEF SendFails, AllocStream, session
  <2> QED
    BY <1>0, <2>1 DEF Rests
<1>8. ASSUME NEW d \in Conns, ServerGone(d) \/ Break(d)
      PROVE  /\ nextStreamID' \in Nat /\ nextStreamID' >= nextStreamID
             /\ \A c \in Conns : Rests(c) \/ Dials(c) \/ Asks(c)
  <2>1. UNCHANGED <<host, conn, nextStreamID>> /\ conn = d
    BY <1>8 DEF ServerGone, Break, clientOnly
  <2>2. up[d] \in Chan(Requests) /\ up[d].end # "none"
    BY <1>0, <2>1 DEF Typed, Held
  <2>3. PICK ch : up' = [up EXCEPT ![d] = ch] /\ IsRestOf(ch, up[d])
    <3>1. CASE ServerGone(d)
      BY <2>2, <3>1, ClosedRest DEF ServerGone
    <3>2. CASE Break(d)
      <4>1. up' = [up EXCEPT ![d] = [up[d] EXCEPT !.end = "reset"]]
        BY <1>0, <3>2 DEF Break, Typed
      <4> QED
        BY <2>2, <4>1, Unchanged
    <3> QED
      BY <1>8, <3>1, <3>2
  <2> QED
    BY <1>0, <2>1, <2>3 DEF Rests, Typed, Counted
<1>9. CASE \/ RejectURL \/ DialFails \/ Discard \/ RecvHeaders \/ RecvData \/ RecvPing \/ RecvGoAway
           \/ RecvFails \/ Terminated \/ UNCHANGED peerVars
           \/ \E c \in Conns : ServerSend(c) \/ ServerCut(c)
  BY <1>1, <1>9 DEF RejectURL, DialFails, Discard, RecvHeaders, RecvData, RecvPing, RecvGoAway,
     RecvFails, Terminated, peerVars, clientVars, session, Receives, ServerSend, ServerCut, clientOnly
<1> QED
  BY <1>3, <1>4, <1>5, <1>6, <1>7, <1>8, <1>9 DEF Next, Client, ClientStep

-----------------------------------------------------------------------------
(* Connections and requests                                                *)

\* Whatever the targets come to, no connection but the one the client holds is
\* still open to a server (client.go:84-103, cmd/bcurl/main.go:39).
THEOREM NoConnectionIsLeft == Spec => []NoConnectionLeft
<1>1. Init => NoConnectionLeft
  BY DEF Init, NoChannel, NoConnectionLeft
<1>2. Base /\ NoConnectionLeft /\ [Next]_peerVars => NoConnectionLeft'
  <2> SUFFICES ASSUME Base, NoConnectionLeft, [Next]_peerVars, NEW c \in Conns, c # conn'
               PROVE  up'[c].end # "open"
    BY DEF NoConnectionLeft
  <2>1. Rests(c)
    BY UpStep DEF Dials, Asks
  <2> QED
    BY <2>1 DEF Rests, IsRestOf, NoConnectionLeft
<1> QED
  BY <1>1, <1>2, BaseAlways, PTL DEF Spec

\* What the frames of up[c] look like after a step, from what they were.
LEMMA FramesStep ==
  ASSUME Base, [Next]_peerVars, NEW c \in Conns
  PROVE  \/ /\ host'[c] = host[c] /\ Len(up'[c].q) \in 0..Len(up[c].q)
            /\ \A i \in 1..Len(up'[c].q) : up'[c].q[i] = up[c].q[i]
         \/ Len(up'[c].q) = 0
         \/ /\ host'[c] = host[c] /\ target.host = host[c] /\ urls # <<>>
            /\ nextStreamID' = nextStreamID + 2 /\ nextStreamID <= MaxStreamID
            /\ Len(up'[c].q) \in Len(up[c].q)..(Len(up[c].q) + 1)
            /\ \A i \in 1..Len(up'[c].q) :
                 up'[c].q[i] = IF i <= Len(up[c].q) THEN up[c].q[i] ELSE RequestFrame
<1>1. up[c] \in Chan(Requests) /\ Typed /\ Counted
  BY DEF Base, Typed
<1>2. CASE Rests(c)
  BY <1>1, <1>2, RestFacts DEF Rests
<1>3. CASE Dials(c)
  BY <1>3 DEF Dials, Fresh
<1>4. CASE Asks(c)
  <2>1. RequestFrame \in Requests
    BY <1>1, <1>4, RequestType DEF Asks
  <2>2. nextStreamID <= MaxStreamID
    BY <1>1, <1>4 DEF Asks, WriteRefused, Counted
  <2> QED
    BY <1>1, <1>4, <2>1, <2>2, WriteFacts, SMTT(30) DEF Asks
<1> QED
  BY <1>2, <1>3, <1>4, UpStep

\* Every request reaches a server at the address its target names, and no
\* connection carries requests for two addresses (client.go:86, 118).
THEOREM RequestsReachTheirHost == Spec => []SentToHost
<1>1. Init => SentToHost
  BY DEF Init, NoChannel, SentToHost
<1>2. Base /\ SentToHost /\ [Next]_peerVars => SentToHost'
  <2> SUFFICES ASSUME Base, SentToHost, [Next]_peerVars, NEW c \in Conns, NEW i \in 1..Len(up'[c].q)
               PROVE  up'[c].q[i].hdr.host = host'[c]
    BY DEF SentToHost
  <2>1. Len(up[c].q) \in Nat /\ (urls # <<>> => RequestFrame.hdr.host = target.host)
    BY RequestType DEF Base, Typed, Chan
  <2>2. \A j \in 1..Len(up[c].q) : up[c].q[j].hdr.host = host[c]
    BY DEF SentToHost
  <2>3. CASE host'[c] = host[c] /\ \A j \in 1..Len(up'[c].q) : j <= Len(up[c].q) /\ up'[c].q[j] = up[c].q[j]
    <3>1. up'[c].q[i] = up[c].q[i] /\ i \in 1..Len(up[c].q)
      BY <2>1, <2>3
    <3> QED
      BY <2>2, <2>3, <3>1
  <2>4. CASE /\ host'[c] = host[c] /\ target.host = host[c] /\ urls # <<>>
             /\ \A j \in 1..Len(up'[c].q) :
                  up'[c].q[j] = IF j <= Len(up[c].q) THEN up[c].q[j] ELSE RequestFrame
    <3>1. CASE i <= Len(up[c].q)
      <4>1. up'[c].q[i] = up[c].q[i] /\ i \in 1..Len(up[c].q)
        BY <2>1, <2>4, <3>1
      <4> QED
        BY <2>2, <2>4, <4>1
    <3>2. CASE ~(i <= Len(up[c].q))
      <4>1. up'[c].q[i] = RequestFrame
        BY <2>4, <3>2
      <4> QED
        BY <2>1, <2>4, <4>1
    <3> QED
      BY <3>1, <3>2
  <2> QED
    BY <2>1, <2>3, <2>4, FramesStep
<1> QED
  BY <1>1, <1>2, BaseAlways, PTL DEF Spec

\* The identifiers a connection has seen are behind the counter.
StreamsBehind ==
  \A c \in Conns : \A i \in 1..Len(up[c].q) :
    /\ up[c].q[i].stream \in Nat /\ up[c].q[i].stream < nextStreamID
    /\ up[c].q[i].stream % 2 = 1 /\ up[c].q[i].stream <= MaxStreamID
    /\ i > 1 => up[c].q[i].stream > up[c].q[i - 1].stream

\* Identifiers are odd, increase on each connection and fit in 24 bits, for
\* any command line (client.go:111, frame.go:154).
THEOREM StreamIdentifiersIncrease == Spec => []StreamIdsIncrease
<1>1. Init => StreamsBehind
  BY DEF Init, NoChannel, StreamsBehind
<1>2. Base /\ StreamsBehind /\ [Next]_peerVars => StreamsBehind'
  <2> SUFFICES ASSUME Base, StreamsBehind, [Next]_peerVars, NEW c \in Conns,
                      NEW i \in 1..Len(up'[c].q)
               PROVE  /\ up'[c].q[i].stream \in Nat /\ up'[c].q[i].stream < nextStreamID'
                      /\ up'[c].q[i].stream % 2 = 1 /\ up'[c].q[i].stream <= MaxStreamID
                      /\ i > 1 => up'[c].q[i].stream > up'[c].q[i - 1].stream
    BY DEF StreamsBehind
  <2> DEFINE old == up[c].q
             new == up'[c].q
  <2>1. /\ Len(old) \in Nat /\ nextStreamID \in Nat /\ nextStreamID % 2 = 1
        /\ nextStreamID' \in Nat /\ nextStreamID' >= nextStreamID
    BY UpStep DEF Base, Typed, Chan, Counted
  <2>2. \A j \in 1..Len(old) :
          /\ old[j].stream \in Nat /\ old[j].stream < nextStreamID
          /\ old[j].stream % 2 = 1 /\ old[j].stream <= MaxStreamID
          /\ j > 1 => old[j].stream > old[j - 1].stream
    BY DEF StreamsBehind
  <2>3. urls # <<>> => RequestFrame.stream = nextStreamID
    BY RequestType DEF Base
  <2>4. \/ Len(new) \in 0..Len(old) /\ \A j \in 1..Len(new) : new[j] = old[j]
        \/ /\ Len(new) \in Len(old)..(Len(old) + 1) /\ urls # <<>>
           /\ nextStreamID' = nextStreamID + 2 /\ nextStreamID <= MaxStreamID
           /\ \A j \in 1..Len(new) : new[j] = IF j <= Len(old) THEN old[j] ELSE RequestFrame
    BY <2>1, FramesStep
  <2> HIDE DEF old, new
  <2>5. i \in 1..Len(new)
    BY DEF new
  <2>6. CASE i <= Len(old)
    <3>1. new[i] = old[i] /\ (i > 1 => new[i - 1] = old[i - 1]) /\ i \in 1..Len(old)
      BY <2>1, <2>4, <2>5, <2>6
    <3>2. /\ new[i].stream \in Nat /\ new[i].stream < nextStreamID'
          /\ new[i].stream % 2 = 1 /\ new[i].stream <= MaxStreamID
          /\ i > 1 => new[i].stream > new[i - 1].stream
      BY <2>1, <2>2, <3>1
    <3> QED
      BY <3>2 DEF new
  <2>7. CASE i > Len(old)
    <3>1. i = Len(old) + 1 /\ new[i] = RequestFrame /\ new[i].stream = nextStreamID
          /\ nextStreamID' = nextStreamID + 2 /\ nextStreamID <= MaxStreamID
      BY <2>1, <2>3, <2>4, <2>5, <2>7
    <3>2. i > 1 => new[i - 1] = old[i - 1] /\ i - 1 \in 1..Len(old)
      BY <2>1, <2>4, <2>5, <3>1
    <3> QED
      BY <2>1, <2>2, <3>1, <3>2 DEF new
  <2> QED
    BY <2>1, <2>5, <2>6, <2>7
<1>3. StreamsBehind => StreamIdsIncrease
  BY DEF StreamsBehind, StreamIdsIncrease
<1> QED
  BY <1>1, <1>2, <1>3, BaseAlways, PTL DEF Spec

-----------------------------------------------------------------------------
(* What a step does to the log                                             *)

\* The entry that a step adds for the target it ends, and what r it is of.
Adds(ok, r, by) ==
  /\ Settle(ok, r, by) /\ urls # <<>> /\ cpc # "exit"
  /\ r \in {NoResponse, resp, resp'} /\ conn' = conn /\ host' = host

LEMMA LogStep ==
  ASSUME Base, [Next]_peerVars
  PROVE  \/ UNCHANGED <<log, hasError, code>>
         \/ Exit /\ UNCHANGED log
         \/ \E ok \in BOOLEAN, r \in Responses, by \in Causes : Adds(ok, r, by)
<1>0. /\ Typed /\ Held /\ resp \in Responses /\ resp' \in Responses /\ NoResponse \in Responses
      /\ TRUE \in BOOLEAN /\ FALSE \in BOOLEAN
  BY BaseStep DEF Base, Typed, NoResponse, Responses
<1>1. ASSUME NEW by \in Causes, Fail(by), urls # <<>>, cpc # "exit", UNCHANGED session
      PROVE  \E ok \in BOOLEAN, r \in Responses, b \in Causes : Adds(ok, r, b)
  <2>1. Adds(FALSE, resp, by)
    BY <1>1 DEF Adds, Fail, session
  <2> QED
    BY <1>0, <2>1, Zenon
<1>2. ASSUME NEW f, NEW r, Continue(f, r), f.type \in Types, cpc = "recv", urls # <<>>, UNCHANGED session
      PROVE  \/ UNCHANGED <<log, hasError, code>>
             \/ \E ok \in BOOLEAN, rr \in Responses, by \in Causes : Adds(ok, rr, by)
  <2>1. CASE HasFlag(f, FlagEndStream)
    <3>1. Adds(TRUE, resp', f.type) /\ f.type \in Causes
      BY <1>2, <2>1 DEF Adds, Continue, session, Causes
    <3> QED
      BY <1>0, <3>1, Zenon
  <2>2. CASE ~HasFlag(f, FlagEndStream)
    BY <1>2, <2>2 DEF Continue, report
  <2> QED
    BY <2>1, <2>2
<1>3. CASE RejectURL
  <2>1. Adds(FALSE, NoResponse, "url") /\ "url" \in Causes
    BY <1>3 DEF RejectURL, Adds, session, Causes
  <2> QED
    BY <1>0, <2>1, Zenon
<1>4. CASE DialFails
  BY <1>0, <1>1, <1>4 DEF DialFails, Held, Causes
<1>5. CASE SendFails
  BY <1>0, <1>1, <1>5 DEF SendFails, AllocStream, Held, Causes
<1>6. CASE RecvHeaders
  <2> DEFINE f == Head(down[conn].q)
  <2>1. f.type \in Types /\ cpc = "recv" /\ urls # <<>> /\ session' = session
    BY <1>6, ReceivesFacts DEF RecvHeaders, Types
  <2> QED
    BY <1>1, <1>2, <1>6, <2>1 DEF RecvHeaders, Causes
<1>7. CASE RecvData
  <2> DEFINE f == Head(down[conn].q)
  <2>1. f.type \in Types /\ cpc = "recv" /\ urls # <<>> /\ session' = session
    BY <1>7, ReceivesFacts DEF RecvData, Types
  <2> QED
    BY <1>2, <1>7, <2>1 DEF RecvData
<1>8. CASE RecvPing
  <2> DEFINE f == Head(down[conn].q)
  <2>1. f.type \in Types /\ cpc = "recv" /\ urls # <<>> /\ session' = session
    BY <1>8, ReceivesFacts DEF RecvPing, Types
  <2> QED
    BY <1>2, <1>8, <2>1 DEF RecvPing
<1>9. CASE RecvGoAway
  <2>1. cpc = "recv" /\ urls # <<>> /\ session' = session
    BY <1>9, ReceivesFacts DEF RecvGoAway, Types
  <2> QED
    BY <1>1, <1>9, <2>1 DEF RecvGoAway, Causes
<1>10. CASE RecvFails
  BY <1>0, <1>1, <1>10 DEF RecvFails, Held, Causes
<1>11. CASE \/ EnsureConnection \/ Dial \/ Send \/ Discard \/ Terminated \/ UNCHANGED peerVars
            \/ \E c \in Conns : ServerSend(c) \/ ServerCut(c) \/ ServerGone(c) \/ Break(c)
  BY <1>11 DEF EnsureConnection, Dial, Send, Discard, Terminated, peerVars, clientVars, report,
     ServerSend, ServerCut, ServerGone, Break, clientOnly
<1>12. CASE Exit
  BY <1>12 DEF Exit
<1> QED
  BY <1>3, <1>4, <1>5, <1>6, <1>7, <1>8, <1>9, <1>10, <1>11, <1>12 DEF Next, Client, ClientStep

\* The log after Settle: what it was, and the new entry.
LEMMA SettleFacts ==
  ASSUME Typed, NEW ok \in BOOLEAN, NEW r \in Responses, NEW by \in Causes, Settle(ok, r, by)
  PROVE  /\ Len(log) \in Nat /\ Len(log') = Len(log) + 1
         /\ \A i \in 1..Len(log) : log'[i] = log[i]
         /\ log'[Len(log) + 1].ok = ok /\ log'[Len(log) + 1].status = r.status
         /\ log'[Len(log) + 1].body = r.body /\ log'[Len(log) + 1].stream = r.stream
         /\ log'[Len(log) + 1].conn = conn
<1> DEFINE e == [ok |-> ok, status |-> r.status, body |-> r.body, stream |-> r.stream,
                 conn |-> conn, by |-> by]
<1>1. e \in Entries /\ log' = Append(log, e) /\ log \in Seq(Entries)
  BY DEF Typed, Responses, Entries, Settle
<1>2. Len(log) \in Nat /\ Len(log') = Len(log) + 1 /\ log'[Len(log) + 1] = e
      /\ \A i \in 1..Len(log) : log'[i] = log[i]
  <2> HIDE DEF e
  <2> QED BY <1>1
<1> QED
  BY <1>2

-----------------------------------------------------------------------------
(* The exit status                                                         *)

Failed(e) == ~e.ok \/ e.status >= 400

\* hasError remembers every target, and the exit is the last thing to happen.
Remembers ==
  /\ hasError <=> \E i \in 1..Len(log) : Failed(log[i])
  /\ code # -1 => cpc = "exit" /\ code = IF hasError THEN 1 ELSE 0

\* bcurl exits with 0 exactly if every target was answered below 400, however
\* many there are and whatever becomes of each (cmd/bcurl/main.go:40-66).
THEOREM ExitStatusTells == Spec => []ExitStatus
<1>1. Init => Remembers
  BY DEF Init, InitClient, Remembers
<1>2. Base /\ Remembers /\ [Next]_peerVars => Remembers'
  <2> SUFFICES ASSUME Base, Remembers, [Next]_peerVars PROVE Remembers'
    OBVIOUS
  <2>0. Typed
    BY DEF Base
  <2>1. CASE UNCHANGED <<log, hasError, code>>
    <3>1. cpc = "exit" => cpc' = "exit"
      BY DEF Next, Client, ClientStep, RejectURL, EnsureConnection, Dial, DialFails, Send, SendFails,
         AllocStream, Discard, RecvHeaders, RecvData, RecvPing, RecvGoAway, Receives, RecvFails, Exit,
         ServerSend, ServerCut, ServerGone, Break, clientOnly, Terminated, peerVars, clientVars
    <3> QED
      BY <2>1, <3>1 DEF Remembers
  <2>2. CASE Exit /\ UNCHANGED log
    BY <2>2 DEF Exit, Remembers
  <2>3. ASSUME NEW ok \in BOOLEAN, NEW r \in Responses, NEW by \in Causes, Adds(ok, r, by)
        PROVE  Remembers'
    <3>1. Settle(ok, r, by) /\ code = -1 /\ code' = code
      BY <2>0, <2>3 DEF Adds, Settle, Remembers
    <3>2. /\ Len(log) \in Nat /\ Len(log') = Len(log) + 1
          /\ \A i \in 1..Len(log) : log'[i] = log[i]
          /\ log'[Len(log) + 1].ok = ok /\ log'[Len(log) + 1].status = r.status
      BY <2>0, <3>1, SettleFacts
    <3>3. Failed(log'[Len(log) + 1]) <=> ~ok \/ r.status >= 400
      BY <3>2 DEF Failed
    <3>4. (\E i \in 1..Len(log') : Failed(log'[i]))
            <=> (\E i \in 1..Len(log) : Failed(log[i])) \/ Failed(log'[Len(log) + 1])
      BY <3>2, SMTT(30)
    <3>5. hasError' <=> hasError \/ ~ok \/ r.status >= 400
      BY <3>1 DEF Settle
    <3> QED
      BY <3>1, <3>3, <3>4, <3>5 DEF Remembers
  <2> QED
    BY <2>1, <2>2, <2>3, LogStep
<1>3. Base /\ Remembers => ExitStatus
  <2> SUFFICES ASSUME Base, Remembers PROVE ExitStatus
    OBVIOUS
  <2>1. ASSUME NEW i \in 1..Len(log) PROVE log[i].status \in Nat
    <3>1. log[i] \in Entries
      BY DEF Base, Typed
    <3> QED
      BY <3>1 DEF Entries
  <2> QED
    BY <2>1 DEF Remembers, Failed, ExitStatus
<1> QED
  BY <1>1, <1>2, <1>3, BaseAlways, PTL DEF Spec

-----------------------------------------------------------------------------
(* The reuse of connections                                                *)

\* Where the connection of the last entry is, seen from the target that is
\* worked on: it is held, or leads to another address.
LastHeld ==
  LET c == log[Len(log)].conn IN
  log # <<>> /\ c # NoConn =>
    /\ cpc = "next" => conn = c
    /\ cpc \in {"dial", "send", "recv"} => conn = c \/ target.host # host[c]

Reuses ==
  /\ \A i \in 1..Len(log) : log[i].conn # NoConn => up[log[i].conn].end # "none"
  /\ ReuseConnection /\ LastHeld

\* A connection that exists goes on existing, to the same address.
LEMMA StaysDialled ==
  ASSUME Base, [Next]_peerVars, NEW c \in Conns, up[c].end # "none"
  PROVE  up'[c].end # "none" /\ host'[c] = host[c]
<1>1. CASE Rests(c)
  BY <1>1 DEF Rests, IsRestOf
<1>2. CASE Asks(c)
  <2>1. up[c] \in Chan(Requests) /\ RequestFrame \in Requests
    BY <1>2, RequestType DEF Base, Typed, Asks
  <2> QED
    BY <1>2, <2>1, WriteFacts DEF Asks
<1> QED
  BY <1>1, <1>2, UpStep DEF Dials

\* What a step that adds nothing to the log does to conn and to the target.
LEMMA LastHeldStep ==
  ASSUME Base, [Next]_peerVars, UNCHANGED <<log, hasError, code>> \/ Exit, NEW c \in Conns,
         up[c].end # "none", log' = log, log # <<>>, log[Len(log)].conn = c, LastHeld
  PROVE  LastHeld'
<1>0. /\ Typed /\ Held /\ host'[c] = host[c] /\ NoConn \notin Conns /\ Len(log) \in Nat
  BY StaysDialled DEF Base, Typed
<1>1. CASE EnsureConnection
  BY <1>0, <1>1 DEF EnsureConnection, LastHeld, Held, target
<1>2. CASE Dial
  BY <1>0, <1>2 DEF Dial, LastHeld, Held, target
<1>3. CASE Send
  BY <1>0, <1>3 DEF Send, AllocStream, session, LastHeld, target
<1>4. CASE Exit
  BY <1>0, <1>4 DEF Exit, LastHeld
<1>5. CASE Client /\ ~(EnsureConnection \/ Dial \/ Send \/ Exit)
  <2>1. log' # log \/ UNCHANGED <<cpc, conn, urls>>
    <3>1. ASSUME NEW ok, NEW r, NEW by, Settle(ok, r, by) PROVE log' # log
      <4>1. \E e : log' = Append(log, e)
        BY <3>1 DEF Settle
      <4> QED
        BY <1>0, <4>1
    <3> QED
      BY <1>5, <3>1 DEF Client, ClientStep, RejectURL, DialFails, SendFails, Discard, RecvHeaders, RecvData,
         RecvPing, RecvGoAway, RecvFails, Fail, Continue, Receives, AllocStream, session, report
  <2> QED
    BY <1>0, <2>1 DEF LastHeld, target
<1>6. CASE \/ Terminated \/ UNCHANGED peerVars
           \/ \E d \in Conns : ServerSend(d) \/ ServerCut(d) \/ ServerGone(d) \/ Break(d)
  <2>1. UNCHANGED <<cpc, conn, urls>>
    BY <1>6 DEF Terminated, peerVars, clientVars, session, ServerSend, ServerCut, ServerGone, Break, clientOnly
  <2> QED
    BY <1>0, <2>1 DEF LastHeld, target
<1> QED
  BY <1>1, <1>2, <1>3, <1>4, <1>5, <1>6 DEF Next

\* Two targets in a row at one address go over one connection, whatever the
\* first came to, unless one of them had none (client.go:86-88, SPEC.md:24).
THEOREM ConnectionsAreReused == Spec => []ReuseConnection
<1>1. Init => Reuses
  BY DEF Init, InitClient, Reuses, ReuseConnection, LastHeld
<1>2. Base /\ Reuses /\ [Next]_peerVars => Reuses'
  <2> SUFFICES ASSUME Base, Reuses, [Next]_peerVars PROVE Reuses'
    OBVIOUS
  <2>0. /\ Typed /\ Held /\ Len(log) \in Nat /\ NoConn \notin Conns
        /\ \A i \in 1..Len(log) : log[i].conn \in Conns \cup {NoConn}
    <3>1. ASSUME NEW i \in 1..Len(log) PROVE log[i].conn \in Conns \cup {NoConn}
      <4>1. log[i] \in Entries
        BY DEF Base, Typed
      <4> QED
        BY <4>1 DEF Entries
    <3> QED
      BY <3>1 DEF Base, Typed
  <2>1. \A i \in 1..Len(log) : log[i].conn # NoConn =>
          up'[log[i].conn].end # "none" /\ host'[log[i].conn] = host[log[i].conn]
    BY <2>0, StaysDialled DEF Reuses
  <2>2. CASE UNCHANGED log /\ (UNCHANGED <<log, hasError, code>> \/ Exit)
    <3>1. ReuseConnection'
      <4>1. ASSUME NEW i \in 1..(Len(log) - 1), log[i].conn # NoConn, log[i + 1].conn # NoConn,
                   host'[log[i].conn] = host'[log[i + 1].conn]
            PROVE  log[i].conn = log[i + 1].conn
        <5>1. i \in 1..Len(log) /\ i + 1 \in 1..Len(log)
          BY <2>0
        <5>2. host[log[i].conn] = host[log[i + 1].conn]
          BY <2>1, <4>1, <5>1
        <5> QED
          BY <4>1, <5>2 DEF Reuses, ReuseConnection
      <4> QED
        BY <2>2, <4>1 DEF ReuseConnection
    <3>2. LastHeld'
      <4>1. CASE log # <<>> /\ log[Len(log)].conn # NoConn
        <5>1. Len(log) \in 1..Len(log)
          BY <2>0, <4>1 DEF Typed
        <5>2. log[Len(log)].conn \in Conns /\ up[log[Len(log)].conn].end # "none"
          BY <2>0, <4>1, <5>1 DEF Reuses
        <5> QED
          BY <2>2, <4>1, <5>2, LastHeldStep DEF Reuses
      <4>2. CASE ~(log # <<>> /\ log[Len(log)].conn # NoConn)
        BY <2>2, <4>2 DEF LastHeld
      <4> QED
        BY <4>1, <4>2
    <3> QED
      BY <2>1, <2>2, <3>1, <3>2 DEF Reuses
  <2>3. ASSUME NEW ok \in BOOLEAN, NEW r \in Responses, NEW by \in Causes, Adds(ok, r, by)
        PROVE  Reuses'
    <3> DEFINE n == Len(log)
    <3>1. /\ n \in Nat /\ Len(log') = n + 1
          /\ \A i \in 1..n : log'[i] = log[i]
          /\ log'[n + 1].conn = conn
          /\ conn' = conn /\ host' = host /\ cpc' = "next" /\ cpc # "exit" /\ urls # <<>>
      BY <2>0, <2>3, SettleFacts DEF Adds, Settle
    <3>2. conn # NoConn => conn \in Conns /\ up'[conn].end # "none"
      BY <2>0, StaysDialled DEF Typed, Held
    <3>3. \A i \in 1..Len(log') : log'[i].conn # NoConn => up'[log'[i].conn].end # "none"
      <4> SUFFICES ASSUME NEW i \in 1..(n + 1), log'[i].conn # NoConn
                   PROVE  up'[log'[i].conn].end # "none"
        BY <3>1
      <4>1. i \in 1..n \/ i = n + 1
        BY <3>1
      <4> QED
        BY <2>1, <3>1, <3>2, <4>1
    <3>4. n > 0 /\ log[n].conn # NoConn /\ conn # NoConn /\ host[log[n].conn] = host[conn]
            => log[n].conn = conn
      <4>1. cpc \in {"next", "dial", "send", "recv"} /\ (n > 0 => log # <<>>)
        BY <2>0, <3>1 DEF Typed
      <4>2. CASE cpc \in {"send", "recv"}
        BY <2>0, <4>1, <4>2 DEF Held, Reuses, LastHeld
      <4>3. CASE cpc \in {"next", "dial"}
        BY <2>0, <4>1, <4>3 DEF Held, Reuses, LastHeld
      <4> QED
        BY <4>1, <4>2, <4>3
    <3>5. ReuseConnection'
      <4> SUFFICES ASSUME NEW i \in 1..n, log'[i].conn # NoConn, log'[i + 1].conn # NoConn,
                          host[log'[i].conn] = host[log'[i + 1].conn]
                   PROVE  log'[i].conn = log'[i + 1].conn
        BY <3>1 DEF ReuseConnection
      <4>1. CASE i = n
        BY <3>1, <3>4, <4>1
      <4>2. CASE i # n
        <5>1. i \in 1..(n - 1) /\ i + 1 \in 1..n
          BY <3>1, <4>2
        <5>2. log'[i] = log[i] /\ log'[i + 1] = log[i + 1]
          BY <3>1, <5>1
        <5> QED
          BY <5>1, <5>2 DEF Reuses, ReuseConnection
      <4> QED
        BY <4>1, <4>2
    <3>6. LastHeld'
      BY <3>1 DEF LastHeld
    <3> QED
      BY <3>3, <3>5, <3>6 DEF Reuses
  <2> QED
    BY <2>2, <2>3, LogStep
<1>3. Reuses => ReuseConnection
  BY DEF Reuses
<1> QED
  BY <1>1, <1>2, <1>3, BaseAlways, PTL DEF Spec

-----------------------------------------------------------------------------
(* The bodies                                                              *)

\* What came on the stream, or on stream 0, which Get takes as well.
OfStream(body, stream) == ToSet(body) \subseteq {stream, 0}

Unmixed ==
  /\ OfStream(resp.body, resp.stream)
  /\ \A i \in 1..Len(log) : OfStream(log[i].body, log[i].stream)

\* A body is of a stream when each of its octets is, or is of stream 0.
LEMMA OfStreamEach ==
  ASSUME NEW n, NEW s \in Seq(Nat)
  PROVE  OfStream(s, n) <=> \A i \in 1..Len(s) : s[i] \in {n, 0}
<1>1. DOMAIN s = 1..Len(s)
  OBVIOUS
<1>2. ASSUME OfStream(s, n), NEW i \in 1..Len(s) PROVE s[i] \in {n, 0}
  <2>1. s[i] \in ToSet(s)
    BY <1>1, Zenon DEF ToSet
  <2> QED
    BY <1>2, <2>1, Zenon DEF OfStream
<1>3. ASSUME \A i \in 1..Len(s) : s[i] \in {n, 0} PROVE OfStream(s, n)
  BY <1>1, <1>3 DEF OfStream, ToSet
<1> QED
  BY <1>2, <1>3, Zenon

\* Appending to a body what came on its stream or on stream 0 leaves it a body of
\* that stream.
LEMMA OfStreamConcat ==
  ASSUME NEW n, NEW s \in Seq(Nat), NEW t \in Seq(Nat), OfStream(s, n), OfStream(t, n)
  PROVE  OfStream(s \o t, n)
<1>1. /\ s \o t \in Seq(Nat) /\ Len(s \o t) = Len(s) + Len(t) /\ Len(s) \in Nat /\ Len(t) \in Nat
      /\ \A i \in 1..(Len(s) + Len(t)) : (s \o t)[i] = IF i <= Len(s) THEN s[i] ELSE t[i - Len(s)]
  BY ConcatProperties
<1>2. (\A i \in 1..Len(s) : s[i] \in {n, 0}) /\ (\A i \in 1..Len(t) : t[i] \in {n, 0})
  BY OfStreamEach
<1>3. ASSUME NEW i \in 1..(Len(s) + Len(t)) PROVE (s \o t)[i] \in {n, 0}
  <2>1. i \in 1..Len(s) \/ (i > Len(s) /\ i - Len(s) \in 1..Len(t))
    BY <1>1
  <2> QED
    BY <1>1, <1>2, <2>1
<1> QED
  BY <1>1, <1>3, OfStreamEach

\* A body holds nothing of another stream but 0, whatever the servers send on
\* whichever streams and when, and whatever is left of abandoned responses
\* (client.go:175).  DATA on stream 0 does get into it (191-192).
THEOREM BodiesDoNotMix == Spec => []BodyOfOwnStream
<1>1. Init => Unmixed
  BY DEF Init, InitClient, NoResponse, Unmixed, OfStream, ToSet
<1>2. Base /\ Unmixed /\ [Next]_peerVars => Unmixed'
  <2> SUFFICES ASSUME Base, Unmixed, [Next]_peerVars PROVE Unmixed'
    OBVIOUS
  <2>0. Typed /\ resp \in Responses
    BY DEF Base, Typed
  <2>1. OfStream(resp'.body, resp'.stream)
    <3>1. OfStream(<<>>, 0) /\ OfStream(<<>>, nextStreamID)
      BY DEF OfStream, ToSet
    <3>2. CASE resp' = NoResponse
      BY <3>1, <3>2 DEF NoResponse
    <3>3. CASE resp' = resp
      BY <3>3 DEF Unmixed
    <3>4. CASE Send
      BY <3>1, <3>4 DEF Send, NoResponse
    <3>5. CASE RecvHeaders
      BY <2>0, <3>5 DEF RecvHeaders, Continue, Unmixed, Responses
    <3>6. CASE RecvData
      <4> DEFINE f == Head(down[conn].q)
      <4>1. f \in Offers /\ f.type = "DATA"
        BY <3>6, ReceivesFacts DEF RecvData, Types
      <4>2. ToSet(f.data) \subseteq {f.stream} /\ f.data \in Seq(Nat)
        BY <4>1
      <4>3. f.stream = resp.stream \/ f.stream = 0
        BY <3>6 DEF RecvData, Ours
      <4>4. OfStream(resp.body \o f.data, resp.stream)
        <5>1. resp.body \in Seq(Nat) /\ OfStream(resp.body, resp.stream)
          BY <2>0 DEF Unmixed, Responses
        <5>2. OfStream(f.data, resp.stream)
          BY <4>2, <4>3 DEF OfStream
        <5> QED
          BY <4>2, <5>1, <5>2, OfStreamConcat
      <4>5. resp' = [resp EXCEPT !.body = resp.body \o f.data]
        BY <3>6 DEF RecvData, Continue
      <4> HIDE DEF f
      <4> QED
        BY <2>0, <4>4, <4>5 DEF Responses
    <3> QED
      BY <3>2, <3>3, <3>4, <3>5, <3>6 DEF Next, Client, ClientStep, RejectURL, EnsureConnection, Dial,
         DialFails, SendFails, Discard, RecvPing, RecvGoAway, Continue, RecvFails, Exit, ServerSend,
         ServerCut, ServerGone, Break, clientOnly, Terminated, peerVars, clientVars
  <2>2. CASE UNCHANGED log
    BY <2>1, <2>2 DEF Unmixed
  <2>3. ASSUME NEW ok \in BOOLEAN, NEW r \in Responses, NEW by \in Causes, Adds(ok, r, by)
        PROVE  Unmixed'
    <3>1. OfStream(r.body, r.stream)
      <4>1. OfStream(NoResponse.body, NoResponse.stream)
        BY DEF NoResponse, OfStream, ToSet
      <4>2. r = NoResponse \/ r = resp \/ r = resp'
        BY <2>3 DEF Adds
      <4> QED
        BY <2>1, <4>1, <4>2 DEF Unmixed
    <3>2. /\ Len(log) \in Nat /\ Len(log') = Len(log) + 1
          /\ \A i \in 1..Len(log) : log'[i] = log[i]
          /\ log'[Len(log) + 1].body = r.body /\ log'[Len(log) + 1].stream = r.stream
      BY <2>0, <2>3, SettleFacts DEF Adds
    <3>3. \A i \in 1..Len(log') : i \in 1..Len(log) \/ i = Len(log) + 1
      BY <3>2
    <3> QED
      BY <2>1, <3>1, <3>2, <3>3 DEF Unmixed
  <2> QED
    BY <2>2, <2>3, LogStep
<1>3. Unmixed => BodyOfOwnStream
  BY DEF Unmixed, OfStream, BodyOfOwnStream
<1> QED
  BY <1>1, <1>2, <1>3, BaseAlways, PTL DEF Spec
=============================================================================
