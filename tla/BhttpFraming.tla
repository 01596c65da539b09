---------------------------- MODULE BhttpFraming ----------------------------
(***************************************************************************)
(* WriteFrame and ReadFrame over a byte stream (frame.go:149-201): the     *)
(* octets of a frame reach the reader in pieces of any size, io.ReadFull   *)
(* gathers first a header and then its payload, and the writer may close   *)
(* after any octet.                                                        *)
(***************************************************************************)
EXTENDS BhttpFrameHeader

CONSTANTS Offers,    \* the frames the writer is given
          MaxFrames  \* bound on the frames written

ASSUME FramingAssumption ==
  /\ Offers \subseteq [payload : Seq(Octet), type : Octet, flags : Octet, stream : Nat]
  /\ MaxFrames \in Nat

VARIABLES pending,  \* octets of the frame being written that are not sent yet
          current,  \* the frame being written
          wire,     \* octets sent and not read
          closed,   \* the writer has closed
          written,  \* frames sent to their last octet
          header,   \* the header ReadFrame has decoded, NoHeader before
          buf,      \* what the current io.ReadFull has gathered
          got,      \* frames ReadFrame has returned
          err       \* the error it returned, "none" before

vars == <<pending, current, wire, closed, written, header, buf, got, err>>
writer == <<pending, current, written, closed>>

NoHeader == [length |-> 0, type |-> -1, flags |-> 0, stream |-> 0]
NoFrame  == [type |-> -1, flags |-> 0, stream |-> 0, payload |-> <<>>]

Init ==
  /\ pending = <<>> /\ current = NoFrame /\ wire = <<>> /\ closed = FALSE /\ written = <<>>
  /\ header = NoHeader /\ buf = <<>> /\ got = <<>> /\ err = "none"

WriteFrame ==
  /\ ~closed /\ pending = <<>> /\ Len(written) < MaxFrames
  /\ \E f \in Offers : IF Refused(f) THEN UNCHANGED <<current, pending>>
                       ELSE current' = f /\ pending' = Serialize(f)
  /\ UNCHANGED <<wire, closed, written, header, buf, got, err>>

Transmit ==
  /\ ~closed
  /\ \E k \in 1..Len(pending) :
       /\ wire' = wire \o SubSeq(pending, 1, k)
       /\ pending' = SubSeq(pending, k + 1, Len(pending))
       /\ written' = IF k = Len(pending) THEN Append(written, current) ELSE written
  /\ UNCHANGED <<current, closed, header, buf, got, err>>

CloseWriter ==
  /\ ~closed /\ closed' = TRUE
  /\ UNCHANGED <<pending, current, wire, written, header, buf, got, err>>

-----------------------------------------------------------------------------
\* What the current io.ReadFull asks for.
Need == IF header = NoHeader THEN FrameHeaderSize ELSE header.length

ReadSome ==
  /\ err = "none"
  /\ \E k \in 1..Len(wire) : /\ Len(buf) + k <= Need
                             /\ buf' = buf \o SubSeq(wire, 1, k)
                             /\ wire' = SubSeq(wire, k + 1, Len(wire))
  /\ UNCHANGED <<writer, header, got, err>>

Return(h, payload) ==
  /\ got' = Append(got, [type |-> h.type, flags |-> h.flags, stream |-> h.stream, payload |-> payload])
  /\ header' = NoHeader

\* Slip: the payload is gathered behind the header.
HeaderKept ==
  LET h == DecodeHeader(buf) IN
  /\ err = "none" /\ header = NoHeader /\ Len(buf) = FrameHeaderSize
  /\ IF h.length = 0 THEN Return(h, <<>>) ELSE header' = h /\ UNCHANGED got
  /\ UNCHANGED <<writer, wire, buf, err>>

HeaderComplete ==
  LET h == DecodeHeader(buf) IN
  /\ err = "none" /\ header = NoHeader /\ Len(buf) = FrameHeaderSize
  /\ buf' = <<>>
  /\ IF h.length = 0 THEN Return(h, <<>>) ELSE header' = h /\ UNCHANGED got
  /\ UNCHANGED <<writer, wire, err>>

PayloadComplete ==
  /\ err = "none" /\ header # NoHeader /\ Len(buf) = header.length
  /\ buf' = <<>> /\ Return(header, buf)
  /\ UNCHANGED <<writer, wire, err>>

\* Slip: the error of the second io.ReadFull is dropped.
ReadFailsInHeader ==
  /\ err = "none" /\ closed /\ wire = <<>> /\ header = NoHeader /\ Len(buf) < Need
  /\ err' = IF buf # <<>> THEN "ErrUnexpectedEOF" ELSE "EOF"
  /\ UNCHANGED <<writer, wire, header, buf, got>>

\* io.ReadFull: EOF when it has read nothing, ErrUnexpectedEOF when it has
\* read a part; ReadFrame turns the EOF of a payload into another error.
ReadFails ==
  /\ err = "none" /\ closed /\ wire = <<>> /\ Len(buf) < Need
  /\ err' = IF buf # <<>> THEN "ErrUnexpectedEOF"
            ELSE IF header = NoHeader THEN "EOF" ELSE "ErrTruncatedPayload"
  /\ UNCHANGED <<writer, wire, header, buf, got>>

Terminated == err # "none" /\ UNCHANGED vars

Next ==
  \/ WriteFrame \/ Transmit \/ CloseWriter
  \/ ReadSome \/ HeaderComplete \/ PayloadComplete \/ ReadFails
  \/ Terminated

Spec == Init /\ [][Next]_vars /\ WF_vars(ReadSome \/ HeaderComplete \/ PayloadComplete \/ ReadFails)

-----------------------------------------------------------------------------
\* Types: no read goes beyond what the current frame needs.
TypeOK ==
  /\ \A s \in {pending, wire, buf} : \A i \in 1..Len(s) : s[i] \in Octet
  /\ Len(buf) <= Need /\ header.length \in Uint24
  /\ closed \in BOOLEAN /\ Len(written) <= MaxFrames
  /\ err \in {"none", "EOF", "ErrUnexpectedEOF", "ErrTruncatedPayload"}

\* How the stream ends, seen from the frames: how much of the frame that was
\* being written has been sent.
SentOfCurrent == IF pending = <<>> THEN 0
                 ELSE FrameHeaderSize + Len(current.payload) - Len(pending)
EndKind ==
  IF ~closed THEN "open"
  ELSE IF SentOfCurrent = 0 THEN "eof"
  ELSE IF SentOfCurrent < FrameHeaderSize THEN "inHeader"
  ELSE IF SentOfCurrent = FrameHeaderSize THEN "noPayload"
  ELSE "inPayload"

Channel == INSTANCE BhttpChannel
             WITH Offers <- {f \in Offers : ~Refused(f)},
                  ch <- [q |-> SubSeq(written, Len(got) + 1, Len(written)), end |-> EndKind]

\* However the octets are cut into pieces, the reader gets the frames that
\* were written, whole and in order, and then the error of the place where
\* the stream stops (frame.go:178-195): octets implement the channel that
\* the other modules are built on.
ImplementsChannel == Channel!Spec

\* A stream that has been closed is read to its end (frame.go:178, 189): a
\* length that announces more than there is does not leave the reader waiting.
ReaderEnds == closed ~> err # "none"
=============================================================================
