----------------------------- MODULE MCHeaders -----------------------------
(***************************************************************************)
(* An instance of BhttpHeaders and BhttpDump for TLC: octets 0..3, of      *)
(* which 3 is the upper case of 2 and 0 is blank, and a table of two       *)
(* names; dumps in rows of four octets, with a preview of eight.           *)
(***************************************************************************)
EXTENDS BhttpDump

MCTable == << <<1>>, <<2>> >>
MCLower == [o \in 0..3 |-> IF o = 3 THEN 2 ELSE o]
MCBlank == {0}

Names  == { <<1>>, <<2>>, <<3>>, <<0, 3, 0>>, <<>>, <<0>>, <<1, 0, 3>> }
Values == { <<>>, <<3>>, <<0, 2, 1, 0, 3>>, [i \in 1..15 |-> 1], [i \in 1..16 |-> 1] }
Fields == [name : Names, value : Values]
ShortFields == [name : Names, value : {<<>>, <<3>>}]
MCBlocks == UNION {[1..n -> Fields] : n \in 1..2} \cup [1..3 -> ShortFields]

\* Every payload of up to six octets.
MCPayloads == UNION {[1..n -> 0..3] : n \in 0..6}
=============================================================================
