-------------------------- MODULE BhttpFrameHeader --------------------------
(***************************************************************************)
(* The eight octets in front of every frame (frame.go:37-147), with the    *)
(* widths of the code: a 24-bit length, a type, a flags octet, a 24-bit    *)
(* stream identifier, big-endian.  A frame is [type, flags, stream,        *)
(* payload], every part of it a number or a sequence of numbers.           *)
(***************************************************************************)
EXTENDS Integers, Sequences

MaxPayloadSize == 16777215  \* the bound of stream identifiers too
Octet  == 0..255
Uint24 == 0..MaxPayloadSize

FrameHeaderSize == 8

\* The headers that fit.
FrameHeader == [length : Uint24, type : Octet, flags : Octet, stream : Uint24]

\* Slip: a stream identifier of 16 bits.
EncodeHeaderNarrow(h) ==
  << (h.length \div 65536) % 256, (h.length \div 256) % 256, h.length % 256, h.type, h.flags,
     0, (h.stream \div 256) % 256, h.stream % 256 >>

\* byte(n >> 16), byte(n >> 8), byte(n)
EncodeHeader(h) ==
  << (h.length \div 65536) % 256, (h.length \div 256) % 256, h.length % 256, h.type, h.flags,
     (h.stream \div 65536) % 256, (h.stream \div 256) % 256, h.stream % 256 >>

DecodeHeader(buf) ==
  [length |-> buf[1] * 65536 + buf[2] * 256 + buf[3], type |-> buf[4], flags |-> buf[5],
   stream |-> buf[6] * 65536 + buf[7] * 256 + buf[8]]

\* WriteFrame refuses what the header has no room for.
Refused(f) == Len(f.payload) > MaxPayloadSize \/ f.stream > MaxPayloadSize

\* What WriteFrame puts on the wire for a frame it does not refuse.
Serialize(f) ==
  EncodeHeader([length |-> Len(f.payload), type |-> f.type, flags |-> f.flags, stream |-> f.stream])
  \o f.payload
=============================================================================
