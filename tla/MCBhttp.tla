------------------------------- MODULE MCBhttp -------------------------------
(***************************************************************************)
(* Instances of Bhttp for TLC.                                             *)
(***************************************************************************)
EXTENDS Bhttp, TLC

Path(segs) == [rooted |-> TRUE, segs |-> segs, query |-> <<>>]
At(h, segs) == [host |-> h, path |-> Path(segs)]
File(data) == [kind |-> "file", data |-> data]
Node(kind) == [kind |-> kind, data |-> <<>>]

MCTree == << >> :> Node("dir") @@ <<"index.html">> :> File(<<"i", "j">>)
          @@ <<"long">> :> File(<<"a", "b", "c", "d", "e">>) @@ <<"empty">> :> File(<<>>)
          @@ <<"locked">> :> Node("locked")

MCScripts ==
  { <<At("A", <<"long">>), At("A", <<"">>), At("A", <<"empty">>)>>,
    <<At("A", <<"long">>), At("B", <<"locked">>), At("A", <<"long">>)>>,
    <<At("A", <<"absent">>), BadURL, At("A", <<"long">>)>>,
    <<At("A", <<"empty">>), [host |-> "A", path |-> LongPath], At("A", <<"..">>)>>,
    <<At("A", <<"empty">>), At("A", <<"">>)>> }

MCMessage == <<"e", "r", "r">>
MCDotDot  == {".."}
=============================================================================
