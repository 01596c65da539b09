----------------------------- MODULE BhttpDump -----------------------------
(***************************************************************************)
(* The hexdumps of bcurl -v and annotate (hexdump.go): what each line says *)
(* stands where on the wire, for frames of every type that carry the       *)
(* payload the decoder of BhttpHeaders is run on.  A line is [first, last, *)
(* octets], offsets counting from 0; the wording is left out.              *)
(***************************************************************************)
EXTENDS BhttpHeaders, BhttpFrameHeader

CONSTANTS RowSize,      \* octets in a row of HexDumpBlock, 16 in the code
          PreviewSize,  \* octets of a DATA payload that are shown, 64 in the code
          Stream        \* the stream identifier of the frame

ASSUME DumpAssumption == RowSize \in Nat \ {0} /\ PreviewSize \in Nat /\ Stream \in Uint24

FrameHeaders == 1
FrameData    == 2

Dumped(type) == [type |-> type, flags |-> 5, stream |-> Stream, payload |-> payload]

\* SerializeFrame, which checks no size.
SerializeFrame(f) == Serialize(f)

Line(first, last, octets) == [first |-> first, last |-> last, octets |-> octets]

\* A row for each RowSize octets and one for the rest.
HexDumpBlock(data, base) ==
  [r \in 1..((Len(data) + RowSize - 1) \div RowSize) |->
     LET end == Min({r * RowSize, Len(data)}) IN
     Line(base + (r - 1) * RowSize, base + end - 1, SubSeq(data, (r - 1) * RowSize + 1, end))]

HeaderLines(wire) ==
  << Line(0, 2, SubSeq(wire, 1, 3)), Line(3, 3, <<wire[4]>>),
     Line(4, 4, <<wire[5]>>), Line(5, 7, SubSeq(wire, 6, 8)) >>

\* An entry's WireBytes, its offset on the wire and the length of its name.
WireBytes(e)     == SubSeq(payload, e.from, e.to)
HdrWireOffset(e) == FrameHeaderSize + e.from - 1
NameLen(e)       == WireBytes(e)[2] * Base + WireBytes(e)[3]

\* Format A: index, length of the value, value.
IndexedLines(e) ==
  LET at == HdrWireOffset(e) IN
  << Line(at, at, SubSeq(WireBytes(e), 1, 1)),
     Line(at + 1, at + 2, SubSeq(WireBytes(e), 2, 3)),
     Line(at + 3, at + Len(WireBytes(e)) - 1, e.value) >>

\* Slip: the value is looked for without the two octets of the name's length.
LiteralLinesShort(e) ==
  LET at == HdrWireOffset(e)  val == 1 + NameLen(e) IN
  << Line(at, at, <<0>>),
     Line(at + 1, at + 2, SubSeq(WireBytes(e), 2, 3)),
     Line(at + 3, at + 2 + NameLen(e), e.name),
     Line(at + val, at + val + 1, SubSeq(WireBytes(e), val + 1, val + 2)),
     Line(at + val + 2, at + Len(WireBytes(e)) - 1, e.value) >>

\* Format B: marker, length of the name, name, length of the value, value.
LiteralLines(e) ==
  LET at == HdrWireOffset(e)  val == 3 + NameLen(e) IN
  << Line(at, at, <<0>>),
     Line(at + 1, at + 2, SubSeq(WireBytes(e), 2, 3)),
     Line(at + 3, at + 2 + NameLen(e), e.name),
     Line(at + val, at + val + 1, SubSeq(WireBytes(e), val + 1, val + 2)),
     Line(at + val + 2, at + Len(WireBytes(e)) - 1, e.value) >>

IsIndexed(e) == WireBytes(e)[1] # 0
EntryLines(e) == IF IsIndexed(e) THEN IndexedLines(e) ELSE LiteralLines(e)

\* DecodeHeaderBlockDetailed returns no entries with an error, and the second
\* of its callers ignores the error: both show nothing of such a payload here.
AllEntryLines ==
  IF result # "ok" THEN <<>>
  ELSE FlattenSeq([i \in 1..Len(entries) |-> EntryLines(entries[i])])

Preview(f) == SubSeq(f.payload, 1, Min({Len(f.payload), PreviewSize}))

\* The lines below the rows of the whole frame.
DumpFrame(f) ==
  HeaderLines(SerializeFrame(f)) \o
    (CASE f.type = FrameHeaders -> AllEntryLines
       [] f.type = FrameData    -> HexDumpBlock(Preview(f), FrameHeaderSize)
       [] OTHER                 -> HexDumpBlock(f.payload, FrameHeaderSize))

FormatMarkdownAnnotatedHexdump(f) ==
  HeaderLines(SerializeFrame(f)) \o
    (CASE f.type = FrameHeaders -> AllEntryLines
       [] f.type = FrameData    -> << Line(FrameHeaderSize, FrameHeaderSize + Len(f.payload) - 1, f.payload) >>
       [] OTHER                 -> <<>>)

-----------------------------------------------------------------------------
\* The lines follow one another from offset 0 to before end, and each shows
\* the octets that stand there.
Tile(lines, wire, end) ==
  /\ \A i \in 1..Len(lines) :
       /\ lines[i].first = (IF i = 1 THEN 0 ELSE lines[i - 1].last + 1)
       /\ lines[i].last < Len(wire)
       /\ lines[i].octets = SubSeq(wire, lines[i].first + 1, lines[i].last + 1)
  /\ lines[Len(lines)].last = end - 1

\* Every octet of a frame is shown once and at its place.  The breakdown of a
\* HEADERS frame assigns each to a field of the header or of an entry, whichever
\* mixture of formats and empty strings a peer has encoded (hexdump.go:32-76,
\* 167-206); a block that does not decode is not broken down.  DATA is shown to
\* the end of the preview by bcurl -v, to its end by annotate, other frames to
\* their end, and the rows above show all of any frame (hexdump.go:22, 78-100,
\* 105-137, 207-210).
LinesTile ==
  result # "none" =>
    \A type \in {FrameHeaders, FrameData, 153} :
      LET f == Dumped(type)  wire == SerializeFrame(f)
          dump == DumpFrame(f)  markdown == FormatMarkdownAnnotatedHexdump(f)
      IN /\ Tile(HexDumpBlock(wire, 0), wire, Len(wire))
         /\ type = FrameHeaders =>
              \A lines \in {dump, markdown} :
                Tile(lines, wire, IF result = "ok" THEN Len(wire) ELSE FrameHeaderSize)
         /\ type = FrameData =>
              /\ Tile(dump, wire, Min({Len(wire), FrameHeaderSize + PreviewSize}))
              /\ Tile(markdown, wire, Len(wire))
         /\ type = 153 => Tile(dump, wire, Len(wire))
=============================================================================
