------------------------------ MODULE BhttpWire ------------------------------
(***************************************************************************)
(* Frames and connections as both ends of BHTTP see them (frame.go).       *)
(*                                                                         *)
(* A TCP connection is a pair of channels.  A channel holds the frames     *)
(* written and not yet read, and how the byte stream continues after them: *)
(*   "none"       the connection does not exist yet                        *)
(*   "open"       the writer may still write                               *)
(*   "eof"        the writer closed between two frames                     *)
(*   "inHeader"   the writer closed inside the eight octets of a header    *)
(*   "noPayload"  it closed after a header that announces a payload        *)
(*   "inPayload"  it closed inside a payload                               *)
(*   "reset"      the connection was reset                                 *)
(*   "gone"       the reader closed: nothing more is read                  *)
(***************************************************************************)
EXTENDS Integers, Sequences

CONSTANTS MaxStreamID,  \* the largest 24-bit stream identifier, frame.go:28
          Capacity,     \* frames a connection buffers before Write blocks
          NoHdr,        \* a frame that carries no header block
          Malformed     \* a header block that does not decode

ASSUME WireAssumption == MaxStreamID \in Nat \ {0} /\ Capacity \in Nat \ {0}

FlagEndStream  == 1
FlagEndHeaders == 4
FlagAck        == 1

Types == {"HEADERS", "DATA", "GOAWAY", "PING", "UNKNOWN"}

\* IsKnownType: every other type octet is abstracted to "UNKNOWN".
IsKnownType(type) == type # "UNKNOWN"

\* The flags octet is a set of bits, and the payload is split into what it
\* decodes to: a header block, or octets.
Frame(type, flags, stream, hdr, data) ==
  [type |-> type, flags |-> flags, stream |-> stream, hdr |-> hdr, data |-> data]

\* HasFlag looks at the bit alone, whatever the type of the frame.
HasFlag(f, flag) == flag \in f.flags

NoChannel == [q |-> <<>>, end |-> "none"]
Fresh     == [q |-> <<>>, end |-> "open"]

Cuts == {"eof", "inHeader", "noPayload", "inPayload"}
Ends == Cuts \cup {"none", "open", "reset", "gone"}

\* Slip: the size of an identifier is not looked at.
WriteAnyStream(stream) == FALSE

\* WriteFrame: an identifier of more than 24 bits is refused before anything
\* is written; a full buffer blocks; once the reader is gone a write may be
\* accepted and lost, or fail; after a reset it fails.
WriteRefused(stream) == stream > MaxStreamID
CanWrite(ch) == ch.end = "gone" \/ (ch.end = "open" /\ Len(ch.q) < Capacity)
WriteFails(ch) == ch.end \in {"gone", "reset"}
WriteFrame(ch, f) == IF ch.end = "open" THEN [ch EXCEPT !.q = Append(@, f)] ELSE ch

\* ReadFrame: the next frame, or the error of a stream that ended.
CanRead(ch) == ch.q # <<>>
AtEnd(ch)   == ch.q = <<>> /\ ch.end \notin {"none", "open"}
ReadFrame(ch) == [ch EXCEPT !.q = Tail(@)]
ReadError(ch) ==
  CASE ch.end = "eof"                       -> "EOF"
    [] ch.end \in {"inHeader", "inPayload"} -> "ErrUnexpectedEOF"
    [] ch.end = "noPayload"                 -> "ErrTruncatedPayload"
    [] OTHER                                -> "ECONNRESET"

\* What a connection that breaks may leave of a channel.
Broken(ch) == {[q |-> SubSeq(ch.q, 1, n), end |-> "reset"] : n \in 0..Len(ch.q)}

\* Close: the closing end stops reading one channel and ends the other.  A
\* close that leaves input unread resets the connection, and what was written
\* but not delivered may be lost.
ClosedByReader(ch) == IF ch.end = "open" THEN [ch EXCEPT !.end = "gone"] ELSE ch
ClosedByWriter(ch, unread) ==
  IF ch.end # "open" THEN {ch}
  ELSE {[ch EXCEPT !.end = "eof"]} \cup (IF unread THEN Broken(ch) ELSE {})
=============================================================================
