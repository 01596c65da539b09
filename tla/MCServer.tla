------------------------------ MODULE MCServer ------------------------------
(***************************************************************************)
(* Instances of BhttpServerPeer for TLC: the requests reach every branch   *)
(* of handleHeadersFrame, and files are shorter than, as long as and       *)
(* longer than a chunk.                                                    *)
(***************************************************************************)
EXTENDS BhttpServerPeer

\* Paths
Path(segs)    == [rooted |-> TRUE, segs |-> segs, query |-> <<>>]
Query(segs)   == [rooted |-> TRUE, segs |-> segs, query |-> <<"..", "x">>]
Unrooted      == [rooted |-> FALSE, segs |-> <<"long">>, query |-> <<>>]

File(data)    == [kind |-> "file", data |-> data]
Node(kind)    == [kind |-> kind, data |-> <<>>]

TheTree ==
  << >> :> Node("dir") @@ <<"index.html">> :> File(<<"i", "j">>)
  @@ <<"long">> :> File(<<"a", "b", "c">>) @@ <<"empty">> :> File(<<>>)
  @@ <<"sub">> :> Node("dir") @@ <<"locked">> :> Node("locked") @@ <<"denied">> :> Node("denied")

Request(method, path, stream) ==
  Frame("HEADERS", {FlagEndStream, FlagEndHeaders}, stream, [method |-> method, path |-> path], <<>>)
Other(type, flags, stream) == Frame(type, flags, stream, NoHdr, <<"p">>)

Gets(paths, stream) == {Request("GET", p, stream) : p \in paths}

MCOffersAll ==
  Gets({Path(<<"">>), Path(<<"empty">>), Path(<<"sub">>), Path(<<"locked">>),
        Path(<<"denied">>), Path(<<"absent">>), Path(<<"long", "x">>), Query(<<".", "long">>),
        Path(<<"sub", "..", "long">>), Unrooted}, 1)
  \cup {Request("HEAD", Path(<<"long">>), 3), Request("POST", Path(<<"long">>), 3),
        Frame("HEADERS", {FlagEndHeaders}, 3, Malformed, <<>>),
        Other("PING", {}, 0), Other("PING", {FlagAck}, 3), Other("GOAWAY", {}, 0),
        Other("DATA", {}, 3), Other("UNKNOWN", {FlagEndStream}, 3)}

MCOffersUnreadable == Gets({Path(<<"locked">>), Path(<<"absent">>), Path(<<"long", "x">>)}, 1)
                      \cup {Other("PING", {}, 0)}

\* Files replaced by others (by a rename, so that os.ReadFile sees one or the
\* other), by a directory, removed; an index that appears.
MCTrees == { TheTree,
             <<"sub", "index.html">> :> File(<<"s">>) @@
               [TheTree EXCEPT ![<<"long">>].data = <<"d", "e", "f", "g", "h">>, ![<<"index.html">>] = Node("dir")],
             [TheTree EXCEPT ![<<"long">>] = Node("missing"), ![<<"index.html">>] = File(<<"k", "l", "m">>)] }
MCOneTree == {TheTree}

MCMessage == <<"e", "r", "r">>
MCDotDot  == {"..", "a..b"}
=============================================================================
