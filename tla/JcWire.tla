------------------------------- MODULE JcWire -------------------------------
(***************************************************************************)
(* JC/1 frames and connections as serve and b see them                     *)
(* (calculator/src/protocol.hpp).  Every client process opens at most one  *)
(* connection, so a connection goes by the name of its client.             *)
(*                                                                         *)
(* A channel is the frames written and not yet read, and how the stream    *)
(* goes on after them: "none", "open", "eof", "inHeader", "inPayload",     *)
(* "reset", or "gone" when its reader has closed.                          *)
(***************************************************************************)
EXTENDS Integers, Sequences

CONSTANTS Clients,    \* the client processes
          Capacity,   \* frames a connection buffers before send blocks
          Malformed,  \* a payload that does not decode
          Huge,       \* a body of more than 64 MiB
          Sigpipe     \* send on a dead connection raises SIGPIPE, as on POSIX

ASSUME JcWireAssumption == Capacity \in Nat \ {0} /\ Sigpipe \in BOOLEAN

VARIABLES up, down,   \* up[k] from client k to the server, down[k] back
          backlog,    \* connections that accept has not returned yet
          listening   \* the listening socket is open

net == <<up, down, backlog, listening>>

\* "INVALID" stands for a header that read_frame rejects: magic, version,
\* reserved octets, or a length of more than 64 MiB.
Frame(type, payload) == [type |-> type, payload |-> payload]

\* encode_frame puts no limit on a payload that read_frame refuses.
TooLarge(f) == f.type = "RESPONSE" /\ f.payload # Malformed /\ f.payload.body = Huge
Readable(f) == f.type # "INVALID" /\ ~TooLarge(f)

Closed == [q |-> <<>>, end |-> "none"]
Fresh  == [q |-> <<>>, end |-> "open"]
Cuts   == {"eof", "inHeader", "inPayload"}
Ends   == Cuts \cup {"none", "open", "reset", "gone"}

CanRead(ch) == ch.q # <<>>
ReadFrame(ch) == [ch EXCEPT !.q = Tail(@)]

\* read_frame gives up: it returns false at an end of the stream, even inside
\* a header, and throws inside a payload, at a reset and on a bad header.
ReadEnds(ch) == \/ ch.q = <<>> /\ ch.end \notin {"none", "open"}
                \/ ch.q # <<>> /\ ~Readable(Head(ch.q))

\* send_frame: what is written to a peer that has left may be accepted and
\* lost, or fail.
CanWrite(ch) == ch.end = "gone" \/ (ch.end = "open" /\ Len(ch.q) < Capacity)
WriteFails(ch) == ch.end \in {"gone", "reset"}
WriteFrame(ch, f) == IF ch.end = "open" THEN [ch EXCEPT !.q = Append(@, f)] ELSE ch

\* close_socket, or the end of the process: one channel is no longer read, the
\* other ends.  If input was left unread the connection is reset, and what was
\* not delivered may be lost.
Abandoned(ch) == IF ch.end \in {"none", "reset"} THEN ch ELSE [ch EXCEPT !.end = "gone"]
Ended(ch, unread) ==
  IF ch.end # "open" THEN {ch}
  ELSE {[ch EXCEPT !.end = "eof"]}
       \cup (IF unread THEN {[q |-> SubSeq(ch.q, 1, n), end |-> "reset"] : n \in 0..Len(ch.q)} ELSE {})
=============================================================================
