---------------------------- MODULE BhttpHeaders ----------------------------
(***************************************************************************)
(* The HPACK-lite header block (header.go): the encoder as an operator,    *)
(* the decoder as the loop it is, one step for each field.  Names and      *)
(* values are sequences of octets; a field is [name, value].               *)
(***************************************************************************)
EXTENDS Integers, Sequences, SequencesExt

CONSTANTS Base,      \* octets are 0..Base-1; 256 in the code
          Table,     \* StaticTable: index -> name, from 1
          Lower,     \* lower case, octet by octet
          Blank,     \* the octets TrimSpace removes
          Blocks,    \* header blocks to encode
          Payloads   \* payloads that come from somewhere else

\* Octets in lower case stay as they are, and blanks have no case.
ASSUME HeadersAssumption ==
  LET octets == 0..(Base - 1) IN
  /\ Base \in Nat /\ Table \in Seq(Seq(octets)) /\ Base > Len(Table)
  /\ Lower \in [octets -> octets]
  /\ \A o \in octets : Lower[Lower[o]] = Lower[o] /\ (Lower[o] \in Blank <=> o \in Blank)
  /\ Blocks \subseteq Seq([name : Seq(octets), value : Seq(octets)]) /\ Payloads \subseteq Seq(octets)

VARIABLES block,    \* what was encoded, if anything was
          payload,  \* the payload to decode
          pos,      \* DecodeHeaderBlockDetailed's pos, from 1
          entries,  \* its entries: [from, to, name, value], from and to the WireBytes
          result    \* "none" while it runs, then "ok" or the error

vars == <<block, payload, pos, entries, result>>

-----------------------------------------------------------------------------
\* The largest string a two-octet length can announce, 65535 in the code.
MaxString == Base * Base - 1

TrimSpace(s) ==
  LET kept == {i \in 1..Len(s) : s[i] \notin Blank}
  IN IF kept = {} THEN <<>> ELSE SubSeq(s, Min(kept), Max(kept))
ToLower(s) == [i \in 1..Len(s) |-> Lower[s[i]]]
Normal(name) == ToLower(TrimSpace(name))

\* A length and a string.
PutString(s) == <<Len(s) \div Base, Len(s) % Base>> \o s

Indices(name) == {i \in 1..Len(Table) : Table[i] = name}
\* Slip: a literal name is written as it was given.
EncodeFieldAsGiven(h) ==
  LET name == Normal(h.name) IN
  IF Indices(name) # {} THEN <<CHOOSE i \in Indices(name) : TRUE>> \o PutString(h.value)
  ELSE <<0>> \o PutString(h.name) \o PutString(h.value)

EncodeField(h) ==
  LET name == Normal(h.name) IN
  IF Indices(name) # {} THEN <<CHOOSE i \in Indices(name) : TRUE>> \o PutString(h.value)
  ELSE <<0>> \o PutString(name) \o PutString(h.value)

TooLarge(h) == \/ Len(h.value) > MaxString
               \/ Indices(Normal(h.name)) = {} /\ Len(Normal(h.name)) > MaxString

\* EncodeHeaderBlock, for a block with no field that is too large.
Encode(hb) == FlattenSeq([i \in 1..Len(hb) |-> EncodeField(hb[i])])

-----------------------------------------------------------------------------
\* Slip: names are compared as they stand.
FieldsExactly(hb, name) == {i \in 1..Len(hb) : hb[i].name = name}

\* HeaderBlock.Get and Set look at the first of the fields with a name; they
\* know of upper and lower case, but not of blanks.
FieldsNamed(hb, name) == {i \in 1..Len(hb) : ToLower(hb[i].name) = ToLower(name)}
Get(hb, name) ==
  IF FieldsNamed(hb, name) = {} THEN <<>> ELSE hb[Min(FieldsNamed(hb, name))].value
Set(hb, name, value) ==
  IF FieldsNamed(hb, name) = {} THEN Append(hb, [name |-> name, value |-> value])
  ELSE [hb EXCEPT ![Min(FieldsNamed(hb, name))].value = value]

-----------------------------------------------------------------------------
\* The string whose length stands at p, if the payload holds all of it.
HasString(p) == /\ p + 1 <= Len(payload)
                /\ p + 1 + payload[p] * Base + payload[p + 1] <= Len(payload)
StringEnd(p) == p + 1 + payload[p] * Base + payload[p + 1]
StringAt(p)  == SubSeq(payload, p + 2, StringEnd(p))

Init ==
  /\ \/ block \in {hb \in Blocks : \A i \in 1..Len(hb) : ~TooLarge(hb[i])} /\ payload = Encode(block)
     \/ block = <<>> /\ payload \in Payloads
  /\ pos = 1 /\ entries = <<>> /\ result = "none"

Running == result = "none" /\ pos <= Len(payload) /\ UNCHANGED <<block, payload>>

\* Slip: one octet too far.
TakeTooFar(name, from) ==
  /\ entries' = Append(entries, [from |-> pos, to |-> StringEnd(from), name |-> name,
                                 value |-> StringAt(from)])
  /\ pos' = StringEnd(from) + 2
  /\ UNCHANGED result

Take(name, from) ==
  /\ entries' = Append(entries, [from |-> pos, to |-> StringEnd(from), name |-> name,
                                 value |-> StringAt(from)])
  /\ pos' = StringEnd(from) + 1
  /\ UNCHANGED result

Stop(error) == result' = error /\ UNCHANGED <<pos, entries>>

\* Format A: an index and a value.
Indexed ==
  /\ Running /\ payload[pos] \in 1..Len(Table)
  /\ IF HasString(pos + 1) THEN Take(Table[payload[pos]], pos + 1)
     ELSE Stop("ErrMalformedHeader")

\* Format B: a zero, a name and a value.
Literal ==
  /\ Running /\ payload[pos] = 0
  /\ IF HasString(pos + 1) /\ HasString(StringEnd(pos + 1) + 1)
     THEN Take(StringAt(pos + 1), StringEnd(pos + 1) + 1)
     ELSE Stop("ErrMalformedHeader")

\* Slip: an index that is not in the table is passed over in place.
IgnoreIndex ==
  /\ Running /\ payload[pos] > Len(Table)
  /\ UNCHANGED <<pos, entries, result>>

UnknownIndex ==
  /\ Running /\ payload[pos] > Len(Table)
  /\ Stop("ErrInvalidIndex")

\* Slip: the loop stops one octet early.
FinishEarly ==
  /\ result = "none" /\ pos >= Len(payload)
  /\ Stop("ok") /\ UNCHANGED <<block, payload>>

Finish ==
  /\ result = "none" /\ pos > Len(payload)
  /\ Stop("ok") /\ UNCHANGED <<block, payload>>

Terminated == result # "none" /\ UNCHANGED vars

Next == Indexed \/ Literal \/ UnknownIndex \/ Finish \/ Terminated
Spec == Init /\ [][Next]_vars /\ WF_vars(Indexed \/ Literal \/ UnknownIndex \/ Finish)

-----------------------------------------------------------------------------
\* Types.
TypeOK ==
  /\ pos \in 1..(Len(payload) + 1)
  /\ result \in {"none", "ok", "ErrMalformedHeader", "ErrInvalidIndex"}
  /\ \A i \in 1..Len(entries) : entries[i].from \in 1..Len(payload) /\ entries[i].to \in 1..Len(payload)

\* The decoder never reads an octet twice, skips one or leaves one over
\* (header.go:157-225): the WireBytes of the entries follow one another from
\* the first octet of the payload, and reach its last when it decodes.
EntriesPartition ==
  /\ \A i \in 1..Len(entries) :
       /\ entries[i].from = (IF i = 1 THEN 1 ELSE entries[i - 1].to + 1)
       /\ entries[i].to > entries[i].from + 1
  /\ pos = (IF entries = <<>> THEN 1 ELSE entries[Len(entries)].to + 1)
  /\ result = "ok" => pos = Len(payload) + 1

\* DecodeHeaderBlock's result, and what is to come of a block that is encoded.
Decoded == [i \in 1..Len(entries) |-> [name |-> entries[i].name, value |-> entries[i].value]]
Received(hb) == [i \in 1..Len(hb) |-> [name |-> Normal(hb[i].name), value |-> hb[i].value]]

\* What EncodeHeaderBlock produced decodes to the fields it was given, in
\* order, the names trimmed and in lower case (header.go:90-126, 139-149).
RoundTrip == block # <<>> /\ result # "none" => result = "ok" /\ Decoded = Received(block)

\* A value that Set has put into a block is the one Get finds at the receiver
\* (header.go:49-69, 94), and the receiver finds what it would have found
\* before under every other name; unless the block held the name with blanks
\* around it, which Set passes over and the encoder takes away.
SetSurvives ==
  block # <<>> /\ result = "none" /\ pos = 1 =>
    LET before == Front(block)
        put    == Last(block)
        after  == Set(before, put.name, put.value)
    IN \A name \in {Normal(block[i].name) : i \in 1..Len(block)} :
         Get(Received(after), name) =
           IF name # Normal(put.name) THEN Get(Received(before), name)
           ELSE IF \E i \in 1..Len(before) :
                      /\ Normal(before[i].name) = name
                      /\ \A j \in 1..i : ToLower(before[j].name) # ToLower(put.name)
                THEN Get(Received(before), name)
                ELSE put.value

\* The decoder comes to an end on every payload.
DecoderEnds == <>(result # "none")
=============================================================================
