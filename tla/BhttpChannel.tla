---------------------------- MODULE BhttpChannel ----------------------------
(***************************************************************************)
(* One direction of a connection as the modules of the client and of the   *)
(* server take it (BhttpWire): whole frames arrive in order, and the       *)
(* reader is told how the stream ended once it has taken them all.         *)
(***************************************************************************)
EXTENDS Sequences

CONSTANT Offers  \* the frames that may be written

VARIABLES ch,   \* [q, end]: frames on their way, and how the stream ends
          got,  \* frames read so far
          err   \* the error ReadFrame returned, "none" before

vars == <<ch, got, err>>

Init == ch = [q |-> <<>>, end |-> "open"] /\ got = <<>> /\ err = "none"

Put ==
  /\ ch.end = "open"
  /\ \E f \in Offers : ch' = [ch EXCEPT !.q = Append(@, f)]
  /\ UNCHANGED <<got, err>>

Cut ==
  /\ ch.end = "open"
  /\ \E e \in {"eof", "inHeader", "noPayload", "inPayload"} : ch' = [ch EXCEPT !.end = e]
  /\ UNCHANGED <<got, err>>

Take ==
  /\ ch.q # <<>>
  /\ got' = Append(got, Head(ch.q)) /\ ch' = [ch EXCEPT !.q = Tail(@)]
  /\ UNCHANGED err

TakeEnd ==
  /\ ch.q = <<>> /\ ch.end # "open" /\ err = "none"
  /\ err' = CASE ch.end = "eof"       -> "EOF"
              [] ch.end = "noPayload" -> "ErrTruncatedPayload"
              [] OTHER                -> "ErrUnexpectedEOF"
  /\ UNCHANGED <<ch, got>>

Next == Put \/ Cut \/ Take \/ TakeEnd
Spec == Init /\ [][Next]_vars
=============================================================================
