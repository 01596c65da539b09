--------------------------- MODULE BhttpClientPeer ---------------------------
(***************************************************************************)
(* The client of BhttpClient against servers that send any frames at any   *)
(* time, stop inside a frame, go away or lose the connection.  The servers *)
(* leave what they receive in up[c].q (Capacity is never reached), so it   *)
(* is all the client has sent, but for what a reset lost.  A server is     *)
(* given steps only on the connection the client holds: the client never   *)
(* looks at another, whatever happens to it.                               *)
(***************************************************************************)
EXTENDS BhttpClient, SequencesExt

CONSTANTS Scripts,   \* the lists of targets bcurl may be started with
          Offers,    \* the frames a server may send
          MaxFrames  \* bound on the frames the servers send in all

Targets == UNION {ToSet(s) : s \in Scripts}

\* No command line has 2^31 arguments: the counter does not wrap.  Nothing is
\* assumed of which frames a server sends, on which stream, when: DATA on stream
\* 0 and frames of other requests are among them.  That the octets of a DATA
\* frame are the number of its stream only lets the properties tell them apart.
ASSUME ClientPeerAssumption ==
  /\ MaxFrames \in Nat
  /\ \A s \in Scripts : s \in Seq(Targets) /\ 2 * Len(s) + 1 < StreamMod
  /\ \A f \in Offers :
       /\ f.type \in Types /\ f.data \in Seq(Nat)
       /\ f.type = "HEADERS" =>
            f.hdr = Malformed \/ f.hdr.status = NoStatus \/ f.hdr.status \in Nat
       /\ f.type = "DATA" => ToSet(f.data) \subseteq {f.stream}

VARIABLE sent  \* frames the servers have sent

peerVars == <<clientVars, sent>>
clientOnly == <<host, urls, cpc, conn, currentAddr, nextStreamID, resp, report>>

Init ==
  /\ \E s \in Scripts : InitClient(s)
  /\ up = [c \in Conns |-> NoChannel] /\ down = [c \in Conns |-> NoChannel]
  /\ sent = 0

Client == ClientStep /\ UNCHANGED sent

\* Frames sent earlier would wait in the queue for the client to receive.
ServerSend(c) ==
  /\ c = conn /\ cpc = "recv" /\ down[c].end = "open" /\ sent < MaxFrames
  /\ \E f \in Offers : down' = [down EXCEPT ![c] = WriteFrame(@, f)]
  /\ sent' = sent + 1
  /\ UNCHANGED <<up, clientOnly>>

\* The server stops sending, perhaps inside a frame, and goes on reading.
\* Get treats the ways to stop inside a frame alike, so one stands for all.
ServerCut(c) ==
  /\ c = conn /\ down[c].end = "open"
  /\ \E e \in {"eof", "inPayload"} : down' = [down EXCEPT ![c].end = e]
  /\ UNCHANGED <<up, clientOnly, sent>>

\* The server closes its socket.
ServerGone(c) ==
  /\ c = conn /\ up[c].end = "open"
  /\ up' = [up EXCEPT ![c] = ClosedByReader(@)]
  /\ down' = [down EXCEPT ![c].end = IF @ = "open" THEN "eof" ELSE @]
  /\ UNCHANGED <<clientOnly, sent>>

\* The connection is lost, and with it what the client has not read.
Break(c) ==
  /\ c = conn /\ up[c].end # "reset"
  /\ \E ch \in Broken(down[c]) : down' = [down EXCEPT ![c] = ch]
  /\ up' = [up EXCEPT ![c].end = "reset"]
  /\ UNCHANGED <<clientOnly, sent>>

Terminated == cpc = "exit" /\ UNCHANGED peerVars

Next ==
  \/ Client
  \/ \E c \in Conns : ServerSend(c) \/ ServerCut(c) \/ ServerGone(c) \/ Break(c)
  \/ Terminated

\* bcurl runs; the servers need not do anything.
Spec == Init /\ [][Next]_peerVars /\ WF_peerVars(Client)

-----------------------------------------------------------------------------
\* Types: a held connection exists, and the client only sends or receives on
\* one it holds to the address of the current target (client.go:85-106).
TypeOK ==
  /\ cpc \in {"next", "dial", "send", "recv", "exit"} /\ code \in {-1, 0, 1}
  /\ conn \in Conns \cup {NoConn} /\ hasError \in BOOLEAN
  /\ nextStreamID \in 0..(StreamMod - 1) /\ sent \in 0..MaxFrames
  /\ \A c \in Conns : up[c].end \in Ends /\ down[c].end \in Ends
  /\ conn # NoConn => host[conn] = currentAddr /\ up[conn].end # "none"
  /\ cpc \in {"send", "recv"} => conn # NoConn /\ currentAddr = target.host
  /\ cpc \in {"dial", "send", "recv"} => urls # <<>> /\ target # BadURL

\* "and never open a second connection" (client.go:84, cmd/bcurl/main.go:39):
\* whatever connection was dialled before has been closed, so no server is
\* left with a connection that the client forgot.
NoConnectionLeft == \A c \in Conns : c # conn => up[c].end # "open"

\* SPEC.md:24: the connection is reused, so two requests to one address that
\* follow each other went over one connection, whatever the first came to
\* (client.go:86-88, cmd/bcurl/main.go:40-53).
ReuseConnection ==
  \A i \in 1..(Len(log) - 1) :
    LET a == log[i].conn  b == log[i + 1].conn IN
    a # NoConn /\ b # NoConn /\ host[a] = host[b] => a = b

\* A request reaches the server its target names (client.go:86, 118), and no
\* connection carries two targets' addresses.
SentToHost ==
  \A c \in Conns : \A i \in 1..Len(up[c].q) : up[c].q[i].hdr.host = host[c]

\* SPEC.md:27: odd and increasing on each connection, and never more than 24
\* bits: an identifier the header has no room for is not sent (client.go:111,
\* frame.go:154).
StreamIdsIncrease ==
  \A c \in Conns : LET w == up[c].q IN
    \A i \in 1..Len(w) : /\ w[i].stream % 2 = 1 /\ w[i].stream <= MaxStreamID
                         /\ i > 1 => w[i].stream > w[i - 1].stream

\* The octets of an abandoned response never show up in a later one: a body
\* holds what was sent on the stream of its request (client.go:175), and, which
\* is the exception, DATA that came on stream 0.  SPEC.md:28 reserves that
\* stream for control frames, but client.go:175 lets all of its frames through
\* and 191-192 appends such DATA to whichever body is being received.
BodyOfOwnStream ==
  \A i \in 1..Len(log) : log[i].ok => ToSet(log[i].body) \subseteq {log[i].stream, 0}

\* SPEC.md:147: bcurl exits with 0 when every target was answered below 400,
\* and with 1 when one was not, however early (cmd/bcurl/main.go:40-66).
ExitStatus ==
  code # -1 =>
    (code = 0 <=> \A i \in 1..Len(log) : log[i].ok /\ log[i].status < 400)

\* Get has no deadline once connected (client.go:154-158): bcurl comes to an
\* end when every connection it opens ends.
GivesUp == (\A c \in Conns : []<>(down[c].end # "open")) => <>(cpc = "exit")

\* SPEC.md:75 and frame.go:19, END_STREAM is "Valid on HEADERS and DATA": only
\* a frame of those types completes a response.
OnlyEndStreamCompletes ==
  \A i \in 1..Len(log) : log[i].ok => log[i].by \in {"HEADERS", "DATA"}
=============================================================================
