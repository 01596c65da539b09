----------------------------- MODULE BhttpClient -----------------------------
(***************************************************************************)
(* bcurl and its Client (client.go, cmd/bcurl/main.go): one process that   *)
(* requests its URLs one after the other over at most one connection.      *)
(***************************************************************************)
EXTENDS BhttpWire

CONSTANTS Conns,      \* the connections DialTimeout may return
          NoConn,     \* the client holds no connection
          BadURL,     \* an argument ParseURL rejects
          NoStatus,   \* a header block whose :status is not a number
          LongPath,   \* a path EncodeHeaderBlock rejects
          StreamMod   \* nextStreamID is a uint32: it wraps here

ASSUME ClientAssumption ==
  /\ NoConn \notin Conns
  /\ StreamMod \in Nat /\ StreamMod > MaxStreamID + 2 /\ StreamMod % 2 = 0

VARIABLES up, down,      \* the two channels of each connection
          host,          \* host[c]: the address c was dialled to
          urls,          \* the targets still to be requested
          cpc,           \* where the client is
          conn,          \* Client.Conn
          currentAddr,   \* Client.currentAddr
          nextStreamID,  \* Client.nextStreamID
          resp,          \* the Response under construction
          hasError,      \* main's flag: a target failed or had status >= 400
          log,           \* what became of each target so far
          code           \* the exit status, -1 while bcurl runs

session == <<host, conn, currentAddr>>
report  == <<hasError, log, code>>
clientVars == <<up, down, host, urls, cpc, conn, currentAddr, nextStreamID, resp, report>>

NoResponse == [stream |-> 0, status |-> 0, body |-> <<>>]

InitClient(targets) ==
  /\ host = [c \in Conns |-> "none"]
  /\ urls = targets
  /\ cpc = "next" /\ conn = NoConn /\ currentAddr = "none" /\ nextStreamID = 1
  /\ resp = NoResponse
  /\ hasError = FALSE /\ log = <<>> /\ code = -1

target == Head(urls)

\* Slip: only the last target decides on the exit status.
SettleForgets(ok, r, by) ==
  /\ log' = Append(log, [ok |-> ok, status |-> r.status, body |-> r.body,
                         stream |-> r.stream, conn |-> conn, by |-> by])
  /\ hasError' = (~ok \/ r.status >= 400)
  /\ urls' = Tail(urls) /\ cpc' = "next" /\ UNCHANGED code

\* The loop of main goes on to the next target: ok is FALSE when Get, or
\* ParseURL, returned an error; by names the frame type that ended the response.
Settle(ok, r, by) ==
  /\ log' = Append(log, [ok |-> ok, status |-> r.status, body |-> r.body,
                         stream |-> r.stream, conn |-> conn, by |-> by])
  /\ hasError' = (hasError \/ ~ok \/ r.status >= 400)
  /\ urls' = Tail(urls)
  /\ cpc' = "next"
  /\ UNCHANGED code

Fail(why) == Settle(FALSE, resp, why)

\* Conn.Close, or the exit of the process.
CloseConn ==
  IF conn = NoConn THEN UNCHANGED <<up, down>>
  ELSE /\ down' = [down EXCEPT ![conn] = ClosedByReader(@)]
       /\ \E ch \in ClosedByWriter(up[conn], CanRead(down[conn])) : up' = [up EXCEPT ![conn] = ch]

-----------------------------------------------------------------------------
\* ParseURL fails: main reports it and continues.
RejectURL ==
  /\ cpc = "next" /\ urls # <<>> /\ target = BadURL
  /\ Settle(FALSE, NoResponse, "url")
  /\ UNCHANGED <<up, down, session, nextStreamID, resp>>

\* Slips: the old connection is not closed; every target is dialled; any
\* connection will do.
EnsureConnectionLeaks ==
  /\ cpc = "next" /\ urls # <<>> /\ target # BadURL
  /\ resp' = NoResponse
  /\ IF conn # NoConn /\ currentAddr = target.host THEN cpc' = "send" /\ UNCHANGED conn
     ELSE cpc' = "dial" /\ conn' = NoConn
  /\ UNCHANGED <<up, down, host, urls, currentAddr, nextStreamID, report>>
EnsureConnectionRedials ==
  /\ cpc = "next" /\ urls # <<>> /\ target # BadURL
  /\ resp' = NoResponse
  /\ cpc' = "dial" /\ CloseConn /\ conn' = NoConn
  /\ UNCHANGED <<host, urls, currentAddr, nextStreamID, report>>
EnsureAnyConnection ==
  /\ cpc = "next" /\ urls # <<>> /\ target # BadURL
  /\ resp' = NoResponse
  /\ cpc' = IF conn # NoConn THEN "send" ELSE "dial"
  /\ UNCHANGED <<up, down, conn, host, urls, currentAddr, nextStreamID, report>>

\* EnsureConnection: the connection is reused for the same address only, else
\* it is closed before another one is dialled.
EnsureConnection ==
  /\ cpc = "next" /\ urls # <<>> /\ target # BadURL
  /\ resp' = NoResponse
  /\ IF conn # NoConn /\ currentAddr = target.host
     THEN cpc' = "send" /\ UNCHANGED <<up, down, conn>>
     ELSE cpc' = "dial" /\ CloseConn /\ conn' = NoConn
  /\ UNCHANGED <<host, urls, currentAddr, nextStreamID, report>>

\* DialTimeout returns a connection that did not exist before; such connections
\* are alike.
CanDial == \E c \in Conns : up[c].end = "none"
NewConn == CHOOSE c \in Conns : up[c].end = "none"

\* Slip: the address of the new connection is not kept.
DialForgets ==
  /\ cpc = "dial" /\ CanDial
  /\ up' = [up EXCEPT ![NewConn] = Fresh] /\ down' = [down EXCEPT ![NewConn] = Fresh]
  /\ host' = [host EXCEPT ![NewConn] = target.host]
  /\ conn' = NewConn /\ cpc' = "send"
  /\ UNCHANGED <<urls, currentAddr, nextStreamID, resp, report>>

Dial ==
  /\ cpc = "dial" /\ CanDial
  /\ up' = [up EXCEPT ![NewConn] = Fresh] /\ down' = [down EXCEPT ![NewConn] = Fresh]
  /\ host' = [host EXCEPT ![NewConn] = target.host]
  /\ conn' = NewConn /\ currentAddr' = target.host
  /\ cpc' = "send"
  /\ UNCHANGED <<urls, nextStreamID, resp, report>>

DialFails ==
  /\ cpc = "dial"
  /\ Fail("dial")
  /\ UNCHANGED <<up, down, session, nextStreamID, resp>>

\* Get: the identifier is used up whatever happens next.
AllocStream ==
  /\ cpc = "send"
  /\ nextStreamID' = (nextStreamID + 2) % StreamMod
  /\ UNCHANGED <<down, session>>

RequestFrame ==
  Frame("HEADERS", {FlagEndStream, FlagEndHeaders}, nextStreamID,
        [method |-> "GET", path |-> target.path, host |-> target.host], <<>>)

Send ==
  /\ AllocStream
  /\ target.path # LongPath /\ ~WriteRefused(nextStreamID) /\ CanWrite(up[conn])
  /\ up' = [up EXCEPT ![conn] = WriteFrame(@, RequestFrame)]
  /\ resp' = [NoResponse EXCEPT !.stream = nextStreamID]
  /\ cpc' = "recv"
  /\ UNCHANGED <<urls, report>>

SendFails ==
  /\ AllocStream
  /\ target.path = LongPath \/ WriteRefused(nextStreamID) \/ WriteFails(up[conn])
  /\ Fail("send")
  /\ UNCHANGED <<up, resp>>

-----------------------------------------------------------------------------
\* ReadFrame returned a frame of this type in the receive loop.
Receives(type) ==
  /\ cpc = "recv" /\ CanRead(down[conn]) /\ Head(down[conn].q).type = type
  /\ down' = [down EXCEPT ![conn] = ReadFrame(@)]
  /\ UNCHANGED <<up, session, nextStreamID>>

\* Slip: no frame is discarded.
OursAnyway(f) == TRUE

\* Another stream's frames are discarded, those of stream 0 are not.
Ours(f) == f.stream = resp.stream \/ f.stream = 0

Discard ==
  LET f == Head(down[conn].q) IN
  /\ \E type \in Types : Receives(type)
  /\ ~IsKnownType(f.type) \/ ~Ours(f)
  /\ UNCHANGED <<urls, cpc, resp, report>>

\* The end of the loop body: END_STREAM, on whatever type of frame, ends it.
Continue(f, r) ==
  /\ resp' = r
  /\ IF HasFlag(f, FlagEndStream) THEN Settle(TRUE, r, f.type)
     ELSE UNCHANGED <<urls, cpc, report>>

RecvHeaders ==
  LET f == Head(down[conn].q) IN
  /\ Receives("HEADERS") /\ Ours(f)
  /\ IF f.hdr = Malformed THEN Fail("headers") /\ UNCHANGED resp
     ELSE Continue(f, IF f.hdr.status = NoStatus THEN resp
                      ELSE [resp EXCEPT !.status = f.hdr.status])

RecvData ==
  LET f == Head(down[conn].q) IN
  /\ Receives("DATA") /\ Ours(f)
  /\ Continue(f, [resp EXCEPT !.body = @ \o f.data])

RecvPing ==
  LET f == Head(down[conn].q) IN
  Receives("PING") /\ Ours(f) /\ Continue(f, resp)

RecvGoAway ==
  LET f == Head(down[conn].q) IN
  Receives("GOAWAY") /\ Ours(f) /\ Fail("goaway") /\ UNCHANGED resp

\* Slips: the receive loop goes on after an error; the end of the connection
\* is taken for the end of the response.
RecvFailsRetries ==
  /\ cpc = "recv" /\ AtEnd(down[conn])
  /\ UNCHANGED clientVars
RecvFailsAccepts ==
  /\ cpc = "recv" /\ AtEnd(down[conn])
  /\ Settle(TRUE, resp, "read")
  /\ UNCHANGED <<up, down, session, nextStreamID, resp>>

\* A read error ends the request and leaves the connection in place.
RecvFails ==
  /\ cpc = "recv" /\ AtEnd(down[conn])
  /\ Fail("read")
  /\ UNCHANGED <<up, down, session, nextStreamID, resp>>

\* main returns, or calls os.Exit(1) when a target failed or had status >= 400.
Exit ==
  /\ cpc = "next" /\ urls = <<>>
  /\ code' = IF hasError THEN 1 ELSE 0
  /\ cpc' = "exit"
  /\ CloseConn /\ conn' = NoConn
  /\ UNCHANGED <<host, urls, currentAddr, nextStreamID, resp, hasError, log>>

ClientStep ==
  \/ RejectURL \/ EnsureConnection \/ Dial \/ DialFails
  \/ Send \/ SendFails \/ Discard \/ RecvHeaders \/ RecvData \/ RecvPing \/ RecvGoAway
  \/ RecvFails \/ Exit
=============================================================================
