------------------------------ MODULE MCClient ------------------------------
(***************************************************************************)
(* Instances of BhttpClientPeer for TLC: two addresses, visited in every   *)
(* order that reuses, leaves and comes back to a connection.               *)
(***************************************************************************)
EXTENDS BhttpClientPeer

A(path) == [host |-> "A", path |-> path]
B(path) == [host |-> "B", path |-> path]

MCScripts == { <<A("p"), A("q"), B("p")>>, <<A("p"), BadURL, A("q")>>, <<A("p"), B("p"), A("q")>>,
               <<A(LongPath), A("p")>>, <<A("p"), A("q"), A("r"), A("s")>> }
MCScriptsLong == { <<A("p"), A("q"), A("r")>> }

Headers(flags, stream, status) ==
  Frame("HEADERS", flags, stream, [status |-> status, length |-> 1], <<>>)
Data(flags, stream) == Frame("DATA", flags, stream, NoHdr, <<stream>>)
Control(type, flags) == Frame(type, flags, 0, NoHdr, <<>>)

MCOffers ==
  { Headers({FlagEndHeaders}, 1, 200), Headers({FlagEndHeaders, FlagEndStream}, 3, 404),
    Headers({FlagEndHeaders}, 3, NoStatus), Frame("HEADERS", {FlagEndHeaders}, 1, Malformed, <<>>),
    Data({}, 1), Data({FlagEndStream}, 1), Data({FlagEndStream}, 3),
    Data({}, 0), Data({FlagEndStream}, 0), Headers({FlagEndHeaders}, 0, 404),
    Control("PING", {}), Control("PING", {FlagAck}), Control("GOAWAY", {}),
    Control("UNKNOWN", {FlagEndStream}) }
MCOffersPing == { Headers({FlagEndHeaders}, 1, 200), Data({FlagEndStream}, 1), Control("PING", {FlagAck}) }
=============================================================================
