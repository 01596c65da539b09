-------------------------------- MODULE MCJc --------------------------------
(***************************************************************************)
(* An instance of Jc for TLC: integers of three bits, two clients.         *)
(***************************************************************************)
EXTENDS Jc

CONSTANTS k1, k2, Text

MCMinInt == -4

Item(name, value) == [name |-> name, value |-> value]
Path(route, items) == [route |-> route, items |-> items]
Calc(route, a, b) == Path(route, <<Item("a", a), Item("b", b)>>)
File(name) == Path(name, NoQuery)
To(path) == [addr |-> Here, path |-> path]

MCPrefixed == Routes \cup {"/address.html"}
MCUnsafe == {"/../x"}
MCFiles == [name \in {"/index.html", "/film"} |-> IF name = "/film" THEN Huge ELSE Text]

\* Every pair of operands, some that do not fit, and queries of other forms.
Operands == {Calc(r, a, b) : r \in Routes, a \in MinInt..(MaxInt + 1), b \in MinInt..MaxInt}
Queries == { <<>>, <<Item("a", 1)>>, <<Item("b", 2), Item("a", 3)>>, <<Item("a", 1), Item("a", 2)>>,
             <<Item("a", 1), Item("c", 2)>>, <<Item("a", NaN), Item("b", 1)>>,
             <<Item("a", 1), Item("b", 2), Item("a", 3)>> }
Paths == Operands \cup {Path("/add", q) : q \in Queries}
         \cup { File("/add"), Calc("/address.html", 1, 1), File("/address.html"), File("/../x"), File("/none"),
                File("/index.html"), Path("/index.html", <<Item("a", 1)>>), LongPath }

Setup(which, first, second) ==
  [server |-> which, targets |-> [k \in Clients |-> IF k = k1 THEN first ELSE second]]

Sum == To(Calc("/add", 1, 2))
Page == To(File("/index.html"))
Film == To(File("/film"))
Never == <<BadEndpoint>>
MCSetups ==
  {Setup("serve", <<To(p)>>, Never) : p \in Paths} \cup
  { Setup("serve", <<Page>>, <<>>), Setup("serve", <<Film, Sum>>, <<Page>>),
    Setup("serve", <<To(File("/none")), Sum>>, <<Sum>>),
    Setup("serve", <<Sum, [addr |-> "there", path |-> Sum.path]>>, <<[addr |-> "there", path |-> Sum.path]>>),
    Setup("other", <<Sum, Page>>, Never) }

Request(method, host, body, path) ==
  Frame("REQUEST", [method |-> method, host |-> host, body |-> body, path |-> path])
MCOffers ==
  { Request("GET", TRUE, FALSE, Calc("/mul", 2, 3)), Request("GET", TRUE, FALSE, File("/film")),
    Request("POST", TRUE, FALSE, Calc("/add", 1, 1)), Request("GET", FALSE, FALSE, File("/index.html")),
    Request("GET", TRUE, TRUE, File("/index.html")),
    Frame("REQUEST", Malformed), Frame("OTHER", Malformed), Frame("INVALID", Malformed) }
MCReplies ==
  { Response(200, <<3>>), Response(404, <<>>), Response(200, Huge), Frame("RESPONSE", Malformed),
    Frame("OTHER", Malformed), Frame("INVALID", Malformed) }
=============================================================================
