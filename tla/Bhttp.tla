-------------------------------- MODULE Bhttp --------------------------------
(***************************************************************************)
(* bcurl and bserve together: the client of BhttpClient and the handlers   *)
(* of BhttpServer on the two ends of the same connections, which buffer    *)
(* Capacity frames in each direction and may break.  Every address is      *)
(* served from the same tree, and any dial may fail.                       *)
(***************************************************************************)
EXTENDS BhttpAnswer

CONSTANTS NoConn, BadURL, NoStatus, LongPath, StreamMod,  \* see BhttpClient
          Scripts,   \* the lists of targets bcurl may be started with
          Tree,      \* the served tree
          MaxBreaks  \* bound on the connections that break

\* What BhttpClient assumes of its constants, as far as they matter here; a
\* header block that bserve writes decodes, and its :status is a number; the
\* files are sequences of octets.
ASSUME SystemAssumption ==
  /\ NoConn \notin Conns
  /\ StreamMod \in Nat \ {0}
  /\ NoStatus \notin Int /\ Malformed \notin [status : Int, length : Nat]
  /\ \A p \in DOMAIN Tree : Tree[p].data \in Seq(STRING)

VARIABLES host, urls, cpc, conn, currentAddr, nextStreamID, resp,
          hasError, log, code,  \* see BhttpClient
          breaks                \* connections broken so far

Client == INSTANCE BhttpClient

clientOnly == <<host, urls, cpc, conn, currentAddr, nextStreamID, resp, hasError, log, code>>
serverOnly == <<fs, pc, local>>
systemVars == <<vars, clientOnly, breaks>>

Init ==
  /\ InitServer /\ fs = Tree
  /\ \E s \in Scripts : Client!InitClient(s)
  /\ up = [c \in Conns |-> NoChannel] /\ down = [c \in Conns |-> NoChannel]
  /\ breaks = 0

Bcurl    == Client!ClientStep /\ UNCHANGED <<serverOnly, breaks>>
Bserve(c) == Handle(c) /\ UNCHANGED <<clientOnly, breaks>>

\* The connection is lost, with what is under way in both directions.
Break(c) ==
  /\ breaks < MaxBreaks /\ up[c].end = "open"
  /\ \E u \in Broken(up[c]), d \in Broken(down[c]) :
       up' = [up EXCEPT ![c] = u] /\ down' = [down EXCEPT ![c] = d]
  /\ breaks' = breaks + 1
  /\ UNCHANGED <<serverOnly, clientOnly>>

Terminated == cpc = "exit" /\ (\A c \in Conns : pc[c] \in {"none", "done"}) /\ UNCHANGED systemVars

Next == Bcurl \/ (\E c \in Conns : Bserve(c) \/ Break(c)) \/ Terminated

\* Both processes run; nothing has to break and no dial has to fail.
Spec ==
  /\ Init /\ [][Next]_systemVars
  /\ WF_systemVars(Bcurl) /\ \A c \in Conns : WF_systemVars(Bserve(c))

-----------------------------------------------------------------------------
\* Between two requests the connection is quiet: a response has been received
\* to its last frame and the handler waits for the next request, so no client
\* ever reads what was meant for an earlier one (client.go:154-200,
\* server.go:116-173).  Only a break can disturb this.
QuietBetweenRequests ==
  cpc \in {"next", "send"} /\ conn # NoConn /\ breaks = 0 =>
    up[conn].q = <<>> /\ down[conn].q = <<>> /\ pc[conn] \in {"none", "read"}

\* bcurl leaves no handler behind: when it has exited, every handler returns
\* (server.go:108, 120-124; what Stop waits for).
HandlersEnd == cpc = "exit" ~> \A c \in Conns : pc[c] \in {"none", "done"}

\* The results a target may have: an error, or the answer to its GET.
Failed == [ok |-> FALSE, status |-> 0, body |-> <<>>]
Get(t) == [method |-> "GET", path |-> t.path, host |-> t.host]
Served(t) == LET a == Answer(Tree, Get(t)) IN [ok |-> TRUE, status |-> a.status, body |-> a.body]
Allowed(t) == IF t = BadURL THEN {Failed}
              ELSE IF t.path = LongPath THEN {Failed}
              ELSE {Failed, Served(t)}

Result(entry) == IF entry.ok THEN [ok |-> TRUE, status |-> entry.status, body |-> entry.body]
                 ELSE Failed

Service == INSTANCE BhttpService
             WITH todo <- urls, results <- [i \in 1..Len(log) |-> Result(log[i])]

\* bcurl and bserve implement the service: whatever breaks, a target gets an
\* error or exactly the file it names, never a part of it or another's, all
\* targets are settled in order, and bcurl exits with the right status.
ImplementsService == Service!Spec
=============================================================================
