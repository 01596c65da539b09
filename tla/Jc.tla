--------------------------------- MODULE Jc ---------------------------------
(***************************************************************************)
(* serve and its clients: processes of b, and peers that send any frames   *)
(* without waiting, stop inside a frame, do not read, or leave.  In some   *)
(* behaviours the server is not serve but one that sends anything, so that *)
(* b has to deal with that too.                                            *)
(***************************************************************************)
EXTENDS JcServer, JcClient, FiniteSets

CONSTANTS Setups,         \* [server, targets]: which server, and what the clients do
          Offers,         \* the frames a peer may send
          Replies,        \* the frames a server that is not serve may send
          MaxFrames       \* bound on the frames of each of those

Targets == UNION {{s.targets[k][i] : i \in 1..Len(s.targets[k])} : s \in Setups, k \in Clients}

\* Names keep apart what the code tells apart; a route begins with itself.
ASSUME JcAssumption ==
  /\ NoClient \notin Clients
  /\ \A s \in Setups : s.targets \in [Clients -> Seq(Targets)]
  /\ Routes \subseteq Prefixed /\ Unsafe \cap DOMAIN Files = {}
  /\ NaN \notin Int64 /\ NoQuery \notin Seq([name : {"a", "b"}, value : Int64])
  /\ \A t \in Targets \ {BadEndpoint} : t.path # LongPath =>
       /\ RequestTo(t.path) # Malformed
       /\ t.path.items \in {NoQuery} \cup Seq([name : STRING, value : Int \cup {NaN}])

VARIABLES setup,  \* the one chosen of Setups
          taken,  \* taken[k]: the payloads of the REQUEST frames serve has read
          given,  \* given[k]: the frames its server has put on the connection of k
          asked,  \* asked[k]: REQUEST frames client k has sent
          heard   \* heard[k]: responses client k has read

history == <<taken, given, asked, heard>>
systemVars == <<net, server, client, setup, history>>

IsB(k) == setup.targets[k] # <<>>
Serving == setup.server = "serve"

Init ==
  /\ setup \in Setups
  /\ InitServer /\ InitClient(setup.targets)
  /\ up = [k \in Clients |-> Closed] /\ down = [k \in Clients |-> Closed]
  /\ backlog = <<>> /\ listening = TRUE
  /\ taken = [k \in Clients |-> <<>>] /\ given = [k \in Clients |-> <<>>]
  /\ asked = [k \in Clients |-> 0] /\ heard = [k \in Clients |-> 0]

\* One more in the count of k, if this is so.
Count(f, k, happened) == IF happened THEN [f EXCEPT ![k] = @ + 1] ELSE f

-----------------------------------------------------------------------------
\* A step of serve, and its record.
ServeStep ==
  /\ Serving /\ Serve
  /\ taken' = IF spc = "read" /\ CanRead(up[cur]) /\ Head(up[cur].q).type = "REQUEST"
              THEN [taken EXCEPT ![cur] = Append(@, Head(up[cur].q).payload)] ELSE taken
  /\ given' = IF spc \in {"send", "sorry"} /\ spc' \in {"read", "sending"} /\ down[cur].end = "open"
              THEN [given EXCEPT ![cur] = Append(@, reply)] ELSE given
  /\ UNCHANGED <<client, setup, asked, heard>>

ServerFails == Serving /\ AcceptFails /\ UNCHANGED <<client, setup, history>>

\* A step of a process of b.
BStep(k) ==
  /\ Run(k)
  /\ asked' = Count(asked, k, cpc[k] = "send" /\ cpc'[k] = "recv")
  /\ heard' = Count(heard, k, printed'[k] # printed[k])
  /\ UNCHANGED <<server, setup, taken, given>>

-----------------------------------------------------------------------------
\* A peer connects, sends, reads, stops sending or leaves.
PeerConnects(k) ==
  /\ cpc[k] = "peer" /\ up[k].end = "none" /\ listening
  /\ up' = [up EXCEPT ![k] = Fresh] /\ down' = [down EXCEPT ![k] = Fresh]
  /\ backlog' = Append(backlog, k)
  /\ UNCHANGED <<listening, server, client, setup, history>>

PeerSends(k) ==
  /\ cpc[k] = "peer" /\ up[k].end = "open" /\ CanWrite(up[k])
  /\ \E f \in Offers :
       /\ f.type = "REQUEST" => asked[k] < MaxFrames
       /\ up' = [up EXCEPT ![k] = WriteFrame(@, f)]
       /\ asked' = Count(asked, k, f.type = "REQUEST")
  /\ UNCHANGED <<down, backlog, listening, server, client, setup, taken, given, heard>>

PeerReads(k) ==
  /\ cpc[k] = "peer" /\ CanRead(down[k]) /\ down[k].end # "gone"
  /\ down' = [down EXCEPT ![k] = ReadFrame(@)]
  /\ heard' = Count(heard, k, TRUE)
  /\ UNCHANGED <<up, backlog, listening, server, client, setup, taken, given, asked>>

PeerStops(k) ==
  /\ cpc[k] = "peer" /\ up[k].end = "open"
  /\ \E e \in Cuts : up' = [up EXCEPT ![k].end = e]
  /\ UNCHANGED <<down, backlog, listening, server, client, setup, history>>

PeerLeaves(k) ==
  /\ cpc[k] = "peer" /\ down[k].end \in {"open", "eof", "reset"}
  /\ Goto(k, "left")
  /\ down' = [down EXCEPT ![k] = Abandoned(@)]
  /\ \E ch \in Ended(up[k], CanRead(down[k])) : up' = [up EXCEPT ![k] = ch]
  /\ UNCHANGED <<backlog, listening, server, todo, printed, code, setup, history>>

-----------------------------------------------------------------------------
\* Another server answers anything, or stops in any way.
OtherSends(k) ==
  /\ ~Serving /\ down[k].end = "open" /\ CanWrite(down[k]) /\ Len(given[k]) < MaxFrames
  /\ \E f \in Replies : /\ down' = [down EXCEPT ![k] = WriteFrame(@, f)]
                        /\ given' = [given EXCEPT ![k] = Append(@, f)]
  /\ UNCHANGED <<up, backlog, listening, server, client, setup, taken, asked, heard>>

OtherStops(k) ==
  /\ ~Serving /\ down[k].end = "open"
  /\ \E e \in Cuts \cup {"reset"} : down' = [down EXCEPT ![k].end = e]
  /\ up' = [up EXCEPT ![k] = Abandoned(@)]
  /\ UNCHANGED <<backlog, listening, server, client, setup, history>>

Terminated ==
  /\ \A k \in Clients : cpc[k] \in {"exit", "left"} \/ (cpc[k] = "peer" /\ up[k].end = "none" /\ ~listening)
  /\ UNCHANGED systemVars

Next ==
  \/ ServeStep \/ ServerFails
  \/ \E k \in Clients : \/ BStep(k)
                        \/ PeerConnects(k) \/ PeerSends(k) \/ PeerReads(k)
                        \/ PeerStops(k) \/ PeerLeaves(k)
                        \/ OtherSends(k) \/ OtherStops(k)
  \/ Terminated

\* serve and the processes of b run; peers and other servers need not do anything.
Spec == /\ Init /\ [][Next]_systemVars
        /\ WF_systemVars(ServeStep) /\ \A k \in Clients : WF_systemVars(BStep(k))
-----------------------------------------------------------------------------
\* Types: the connection in hand exists, and a process that sends or receives
\* still has a target (serve.cpp:156-173, b.cpp:76-93).
TypeOK ==
  /\ spc \in {"accept", "read", "send", "sending", "sorry", "exit", "killed"}
  /\ cur \in Clients \cup {NoClient} /\ (cur = NoClient <=> spc \in {"accept", "exit", "killed"})
  /\ cur # NoClient => up[cur].end # "none" /\ \A i \in 1..Len(backlog) : backlog[i] # cur
  /\ \A k \in Clients :
       /\ up[k].end \in Ends /\ down[k].end \in Ends /\ code[k] \in {-1, 0, 1, 141}
       /\ Len(up[k].q) <= Capacity /\ Len(down[k].q) <= Capacity
       /\ cpc[k] \in {"send", "recv"} => todo[k] # <<>> /\ up[k].end # "none"

IsPrefixOf(s, t) == Len(s) <= Len(t) /\ s = SubSeq(t, 1, Len(s))
Answers(k) == [i \in 1..Len(taken[k]) |-> Answer(taken[k][i])]

\* "Six requests and six ordered responses on one TCP connection", and 400 for
\* a request that does not decode (calculator/README.md): whatever else was on
\* the connection, each request gets one response, in order, and serve reads
\* again only when all that it has read is answered (serve.cpp:159-169).
AnswersInOrder ==
  Serving => \A k \in Clients :
    /\ IsPrefixOf(given[k], Answers(k))
    /\ cur = k /\ spc = "read" /\ down[k].end = "open" => given[k] = Answers(k)

\* A response to path: the exact result if it fits, one that is refused, or
\* the contents of a file.
Gives(items, a, b) ==
  LET A == [name |-> "a", value |-> a]  B == [name |-> "b", value |-> b]
  IN items \in {<<A, B>>, <<B, A>>}
Promised(path, r) ==
  IF path.route \in Routes
  THEN \/ r.status = 200 /\ \E a, b \in Int64 : Gives(path.items, a, b) /\ IsResult(path.route, a, b, r.body[1])
       \/ r.status = 400 /\ \A a, b \in Int64 : Gives(path.items, a, b) => ~HasResult(path.route, a, b)
  ELSE IF path.items = NoQuery /\ path.route \in DOMAIN Files \ Prefixed
  THEN r = [status |-> 200, body |-> Files[path.route]]
  ELSE r.status \in {400, 404} /\ r.body = <<>>

\* What b prints for a target is the exact result of its arithmetic, never one
\* that has wrapped around, or the whole file, and an error otherwise
\* (serve.cpp:76-119, b.cpp:89-92).
PrintsAnswers ==
  Serving => \A k \in Clients : \A i \in 1..Len(printed[k]) :
    Promised(setup.targets[k][i].path, printed[k][i])

\* Frame j is the n-th of the frames that are responses.
IsResponse(frames, n, j) ==
  /\ frames[j].type = "RESPONSE"
  /\ Cardinality({i \in 1..j : frames[i].type = "RESPONSE"}) = n

\* Against any server, b prints the responses that came for it, in order and
\* each once, and nothing that is not a response (b.cpp:84-91).
PrintsWhatCame ==
  \A k \in Clients : \A n \in 1..Len(printed[k]) :
    /\ printed[k][n] # Malformed
    /\ \E j \in 1..Len(given[k]) : IsResponse(given[k], n, j) /\ given[k][j].payload = printed[k][n]

\* "The client exits with a non-zero status if any response is 400 or higher"
\* (calculator/README.md), and if any target has no response (b.cpp:75-98).
ExitTells ==
  \A k \in Clients : code[k] # -1 =>
    (code[k] = 0 <=> /\ Len(printed[k]) = Len(setup.targets[k])
                     /\ ~\E i \in 1..Len(printed[k]) : printed[k][i].status >= 400)

\* serve keeps no connection it is done with: what is not closed is the one in
\* hand or waits to be accepted (serve.cpp:159-173).
HoldsOne ==
  Serving => \A k \in Clients : down[k].end = "open" =>
    k = cur \/ \E i \in 1..Len(backlog) : backlog[i] = k

\* "A truncated or malformed peer frame ends this connection" (serve.cpp:171),
\* and not the server: a signal ends serve only when a client has left before
\* it read all the responses it had asked for.  No connection is lost by the
\* network here; serve could not tell that from such a client.
DiesOnlyOfHaste ==
  spc = "killed" => \E k \in Clients : cpc[k] \in {"left", "exit"} /\ asked[k] > heard[k]

\* serve holds everybody up while it waits for one client (serve.cpp:156-173),
\* and neither end has a deadline: b comes to an end if every peer that
\* connects leaves some day.
BEnds ==
  Serving /\ (\A k \in Clients : []<>(cpc[k] = "peer" => up[k].end = "none"))
    => \A k \in Clients : <>(IsB(k) => code[k] # -1)
=============================================================================
