--------------------------- MODULE BhttpServerPeer ---------------------------
(***************************************************************************)
(* The handlers of BhttpServer against peers that pipeline frames without  *)
(* waiting for answers, stop inside a frame, go away or lose the           *)
(* connection, while the served tree is edited.  The peers read all that   *)
(* is written to them (Capacity is never reached), so down[c].q is all     *)
(* the handler of c has written.                                           *)
(***************************************************************************)
EXTENDS BhttpAnswer, SequencesExt

CONSTANTS Offers,     \* the frames a peer may send
          Tree,       \* the served tree at the start
          Trees,      \* that, and the trees an edit may leave
          MaxFrames,  \* bound on the frames of one peer
          MaxEdits    \* bound on the edits

Statuses == {0, 200, 400, 404, 405, 500}

\* Any frame that can be on a connection: those a peer may send, and answers.
AnyFrame == [type : Types, flags : SUBSET {FlagEndStream, FlagEndHeaders}, stream : 0..MaxStreamID,
             hdr : {f.hdr : f \in Offers} \cup {NoHdr} \cup [status : Statuses, length : Nat],
             data : Seq(STRING)]

ASSUME PeerAssumption ==
  /\ Offers \subseteq AnyFrame /\ Tree \in Trees
  /\ \A t \in Trees : \A p \in DOMAIN t : t[p].data \in Seq(STRING)
  /\ MaxFrames \in Nat /\ MaxEdits \in Nat

VARIABLES offered,  \* offered[c]: all the frames that reached, or may reach, the handler
          edits     \* edits made

peerVars == <<vars, offered, edits>>

Init ==
  /\ InitServer
  /\ up = [c \in Conns |-> Fresh] /\ down = [c \in Conns |-> Fresh]
  /\ fs = Tree
  /\ offered = [c \in Conns |-> <<>>]
  /\ edits = 0

Handler(c) == Handle(c) /\ UNCHANGED <<offered, edits>>

PeerSend(c) ==
  /\ up[c].end = "open" /\ Len(offered[c]) < MaxFrames /\ CanWrite(up[c])
  /\ \E f \in Offers : /\ up' = [up EXCEPT ![c] = WriteFrame(@, f)]
                       /\ offered' = [offered EXCEPT ![c] = Append(@, f)]
  /\ UNCHANGED <<down, fs, pc, local, edits>>

\* The peer stops sending, perhaps inside a frame, and goes on reading.
PeerCut(c) ==
  /\ up[c].end = "open"
  /\ \E e \in Cuts : up' = [up EXCEPT ![c].end = e]
  /\ UNCHANGED <<down, fs, pc, local, offered, edits>>

\* The peer closes its socket.
PeerGone(c) ==
  /\ down[c].end = "open"
  /\ up' = [up EXCEPT ![c].end = IF @ = "open" THEN "eof" ELSE @]
  /\ down' = [down EXCEPT ![c] = ClosedByReader(@)]
  /\ UNCHANGED <<fs, pc, local, offered, edits>>

\* The connection is lost, and with it input the handler has not read.
Break(c) ==
  /\ pc[c] # "done" /\ up[c].end # "reset"
  /\ \E ch \in Broken(up[c]) :
       /\ up' = [up EXCEPT ![c] = ch]
       /\ offered' = [offered EXCEPT ![c] = SubSeq(@, 1, Len(@) - Len(up[c].q) + Len(ch.q))]
  /\ down' = [down EXCEPT ![c].end = "reset"]
  /\ UNCHANGED <<fs, pc, local, edits>>

Edit ==
  /\ edits < MaxEdits
  /\ \E t \in Trees \ {fs} : fs' = t
  /\ edits' = edits + 1
  /\ UNCHANGED <<up, down, pc, local, offered>>

Terminated == (\A c \in Conns : pc[c] = "done") /\ UNCHANGED peerVars

Next ==
  \/ \E c \in Conns : Handler(c) \/ PeerSend(c) \/ PeerCut(c) \/ PeerGone(c) \/ Break(c)
  \/ Edit
  \/ Terminated

\* The goroutines run; the peers and the editor need not do anything.
Spec == Init /\ [][Next]_peerVars /\ \A c \in Conns : WF_peerVars(Handler(c))

-----------------------------------------------------------------------------
Labels == {"none", "read", "pong", "stat", "index", "open", "headers", "data", "close", "done"}

Outgoing == [stream : 0..MaxStreamID, status : Statuses, body : Seq(STRING), off : Nat,
             ends : BOOLEAN, last : BOOLEAN]

\* Types: queues of frames, a response whose offset stays within its body
\* (server.go:309-340), a request where the label says there is one.
TypeOK ==
  /\ pc \in [Conns -> Labels]
  /\ fs \in Trees /\ edits \in 0..MaxEdits
  /\ up \in [Conns -> [q : Seq(Offers), end : Ends]]
  /\ down \in [Conns -> [q : Seq(AnyFrame), end : Ends]]
  /\ offered \in [Conns -> Seq(Offers)]
  /\ out \in [Conns -> Outgoing]
  /\ req = [c \in Conns |-> req[c]]
  /\ \A c \in Conns :
       /\ out[c].off <= Len(out[c].body)
       /\ pc[c] = "pong" => req[c] \in Offers
       /\ pc[c] \in {"stat", "index", "open"} => req[c].stream \in 0..MaxStreamID /\ req[c].head \in BOOLEAN

\* The frames the handler of c has taken, in order.
TakenFrames(c) == SubSeq(offered[c], 1, Len(offered[c]) - Len(up[c].q))

\* A sequence of frames that can be cut into responses: END_STREAM is on the
\* last frame of a response and on no other, and the DATA frames of a response
\* follow its HEADERS frame with nothing in between.
Contiguous(w) ==
  /\ w # <<>> => w[1].type # "DATA"
  /\ \A i \in 1..(Len(w) - 1) :
       /\ HasFlag(w[i], FlagEndStream) <=> w[i + 1].type # "DATA"
       /\ w[i + 1].type = "DATA" => w[i + 1].stream = w[i].stream

\* What the handler writes is at every moment a sequence of responses, none
\* cut into by the next, and outside of the loop that sends the body no
\* response is left half written (server.go:266-381): that is what a client
\* that reads until END_STREAM (client.go:154-201) relies on.
ResponsesContiguous ==
  \A c \in Conns :
    LET w == down[c].q IN
    /\ Contiguous(w)
    /\ down[c].end = "open" /\ pc[c] # "data" /\ w # <<>> => HasFlag(w[Len(w)], FlagEndStream)

\* All that is owed for the frames taken.
Owed(c) == FlattenSeq([i \in 1..Len(TakenFrames(c)) |-> Replies(fs, TakenFrames(c)[i])])

\* With a tree that is not edited, what the handler writes is at every moment
\* the beginning of what it owes, frame by frame and in the order of the
\* requests; all of it once it reads again or has closed without a failure
\* (server.go:107-381).
RepliesInOrder ==
  \A c \in Conns : edits = 0 =>
    LET cut == up[c].q = <<>> /\ up[c].end \in (Cuts \ {"eof"}) \cup {"reset"}
               /\ (TakenFrames(c) # <<>> => Last(TakenFrames(c)).type # "GOAWAY")
        all == Owed(c) \o (IF cut THEN Truncated ELSE <<>>)
    IN /\ IsPrefix(down[c].q, all)
       /\ pc[c] = "read" /\ down[c].end = "open" => down[c].q = Owed(c)
       /\ pc[c] = "done" /\ down[c].end = "eof" => down[c].q = all

\* SPEC.md:23, "A server MUST keep the TCP connection open": whatever the
\* requests were, the handler ends only after a GOAWAY, which it takes no
\* frame after, or when its input has ended (server.go:118-131, 156-160).
ClosesOnlyWhenTold ==
  \A c \in Conns :
    LET taken == TakenFrames(c)
        told  == taken # <<>> /\ Last(taken).type = "GOAWAY" IN
    /\ \A i \in 1..(Len(taken) - 1) : taken[i].type # "GOAWAY"
    /\ pc[c] \in {"close", "done"} => told \/ (up[c].q = <<>> /\ up[c].end \in Cuts \cup {"reset"})
    /\ told => pc[c] \in {"close", "done"}

\* A response that was written to its end carries the whole of one version of
\* a file, and the length its HEADERS frame announced, however the tree is
\* edited between os.Stat, os.ReadFile and the writes (server.go:228-340).
WholeFiles ==
  \A c \in Conns :
    LET w == down[c].q
        lastOf(i) == CHOOSE j \in i..Len(w) :
                       HasFlag(w[j], FlagEndStream) /\ \A k \in i..(j - 1) : ~HasFlag(w[k], FlagEndStream)
        body(i) == FlattenSeq([k \in 1..(lastOf(i) - i) |-> w[i + k].data])
    IN \A i \in 1..Len(w) :
         /\ w[i].type = "HEADERS" /\ ~HasFlag(w[i], FlagEndStream)
         /\ \E j \in i..Len(w) : HasFlag(w[j], FlagEndStream)
         => /\ Len(body(i)) = w[i].hdr.length
            /\ w[i].hdr.status = 200 =>
                 \E t \in Trees : \E p \in DOMAIN t : t[p].kind = "file" /\ t[p].data = body(i)

\* Once the peer has stopped sending or the connection is lost, the handler
\* returns: Stop waits for that (server.go:95, 108).
HandlerEnds == \A c \in Conns : up[c].end \notin {"none", "open"} ~> pc[c] = "done"

\* SPEC.md:156, "If file does not exist or cannot be read: responds with
\* status 404 Not Found": no request is answered with 500.
UnreadableIs404 ==
  \A c \in Conns : \A i \in 1..Len(down[c].q) :
    down[c].q[i].type = "HEADERS" => down[c].q[i].hdr.status # 500
=============================================================================
