------------------------------ MODULE MCFraming ------------------------------
(***************************************************************************)
(* An instance of BhttpFraming for TLC: frames with no payload, with one   *)
(* and with two octets, one that looks like a header, and one whose stream *)
(* identifier does not fit.                                                *)
(***************************************************************************)
EXTENDS BhttpFraming

F(type, stream, payload) == [type |-> type, flags |-> 5, stream |-> stream, payload |-> payload]

MCOffers == { F(1, 16777215, <<0, 0>>), F(2, 1, <<>>), F(9, 65536, <<7>>), F(4, 16777216, <<>>) }
=============================================================================
