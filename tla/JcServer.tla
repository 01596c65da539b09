------------------------------ MODULE JcServer ------------------------------
(***************************************************************************)
(* serve (calculator/src/serve.cpp): one thread, which accepts a           *)
(* connection, answers its requests until the stream ends, and only then   *)
(* accepts the next one.                                                   *)
(***************************************************************************)
EXTENDS JcWire, JcArithmetic

CONSTANTS NoClient,  \* the server holds no connection
          NoQuery,   \* a path without "?"
          NaN,       \* a parameter that is not a decimal number
          Prefixed,  \* the routes that begin with /add, /sub, /mul or /div
          Unsafe,    \* the names that are refused or cannot be resolved
          Files      \* the other names of files: name -> contents, or Huge

VARIABLES spc,    \* where the server is
          cur,    \* the connection being served
          reply   \* the response to be written

server == <<spc, cur, reply>>

-----------------------------------------------------------------------------
(* handle_request: a path is its route, the text before "?", and the       *)
(* items [name, value] of its query.                                       *)

Routes == {"/add", "/sub", "/mul", "/div"}

\* split_query: a and b, each of them once, in any order, and nothing else;
\* parse_int64 takes a number that fits only.
Splits(items) ==
  /\ items # NoQuery /\ Len(items) = 2
  /\ \A i \in 1..2 : items[i].value # NaN /\ items[i].value \in Int64
  /\ {"a", "b"} = {items[i].name : i \in 1..2}
Parameter(items, name) == LET i == CHOOSE i \in 1..Len(items) : items[i].name = name
                          IN items[i].value

Response(status, body) == Frame("RESPONSE", [status |-> status, body |-> body])
Error(status) == Response(status, <<>>)

CalculatorAnswer(path) ==
  LET a == Parameter(path.items, "a")  b == Parameter(path.items, "b") IN
  IF ~Splits(path.items) THEN Error(400)
  ELSE IF path.route \notin Routes THEN Error(404)
  ELSE IF Overflows(path.route, a, b) THEN Error(400)
  ELSE Response(200, <<Calculate(path.route, a, b)>>)

\* The query is part of the name of a file.
FileAnswer(path) ==
  IF path.route \in Unsafe THEN Error(400)
  ELSE IF path.items # NoQuery \/ path.route \notin DOMAIN Files THEN Error(404)
  ELSE Response(200, Files[path.route])

\* What decode_request and handle_request make of a REQUEST frame.
Answer(request) ==
  IF request = Malformed THEN Error(400)
  ELSE IF request.method # "GET" THEN Error(405)
  ELSE IF ~request.host \/ request.body THEN Error(400)
  ELSE IF request.path.route \in Prefixed THEN CalculatorAnswer(request.path)
  ELSE FileAnswer(request.path)

-----------------------------------------------------------------------------
\* The process ends, and with it all its sockets.
EndServer(how) ==
  /\ spc' = how /\ cur' = NoClient /\ listening' = FALSE /\ backlog' = <<>>
  /\ LET held == {k \in Clients : k = cur \/ \E i \in 1..Len(backlog) : backlog[i] = k} IN
     /\ up' = [k \in Clients |-> IF k \in held THEN Abandoned(up[k]) ELSE up[k]]
     /\ \E d \in [Clients -> UNION {Ended(down[k], TRUE) : k \in Clients}] :
          /\ \A k \in Clients : d[k] \in IF k \in held THEN Ended(down[k], CanRead(up[k])) ELSE {down[k]}
          /\ down' = d
  /\ UNCHANGED reply

\* Slip: the exception is caught and the socket is not closed.
CloseClientForgets ==
  /\ spc' = "accept" /\ cur' = NoClient
  /\ UNCHANGED <<net, reply>>

CloseClient ==
  /\ up' = [up EXCEPT ![cur] = Abandoned(@)]
  /\ \E d \in Ended(down[cur], CanRead(up[cur])) : down' = [down EXCEPT ![cur] = d]
  /\ spc' = "accept" /\ cur' = NoClient
  /\ UNCHANGED <<backlog, listening, reply>>

Accept ==
  /\ spc = "accept" /\ backlog # <<>>
  /\ cur' = Head(backlog) /\ backlog' = Tail(backlog) /\ spc' = "read"
  /\ UNCHANGED <<up, down, listening, reply>>

\* accept fails: main reports it and returns.
AcceptFails == spc = "accept" /\ EndServer("exit")

\* read_frame returns a frame of type REQUEST, or of another type.
Takes ==
  /\ spc = "read" /\ CanRead(up[cur]) /\ Readable(Head(up[cur].q))
  /\ up' = [up EXCEPT ![cur] = ReadFrame(@)]
  /\ UNCHANGED <<down, backlog, listening, cur>>

\* Slip: what is not a request is answered like a malformed one.
SkipAnswers ==
  /\ Takes /\ Head(up[cur].q).type # "REQUEST"
  /\ reply' = Error(400) /\ spc' = "send"

Skip == Takes /\ Head(up[cur].q).type # "REQUEST" /\ UNCHANGED <<spc, reply>>

\* Slip: a request that does not decode is dropped without an answer.
TakeDrops ==
  /\ Takes /\ Head(up[cur].q).type = "REQUEST"
  /\ IF Head(up[cur].q).payload = Malformed THEN UNCHANGED <<spc, reply>>
     ELSE reply' = Answer(Head(up[cur].q).payload) /\ spc' = "send"

Take ==
  /\ Takes /\ Head(up[cur].q).type = "REQUEST"
  /\ reply' = Answer(Head(up[cur].q).payload) /\ spc' = "send"

\* Slip: false is taken for "nothing has come yet".
CloseSpins == spc = "read" /\ ReadEnds(up[cur]) /\ UNCHANGED <<net, server>>

\* read_frame returns false or throws: the connection is closed.
CloseAtEnd == spc = "read" /\ ReadEnds(up[cur]) /\ CloseClient

\* "sorry" is the send of the catch handler.  A response that is too large is
\* written while the client reads it.
Send ==
  /\ spc \in {"send", "sorry"} /\ CanWrite(down[cur])
  /\ down' = [down EXCEPT ![cur] = WriteFrame(@, reply)]
  /\ spc' = IF TooLarge(reply) THEN "sending" ELSE "read"
  /\ UNCHANGED <<up, backlog, listening, cur, reply>>

SendReturns ==
  /\ spc = "sending" /\ ~CanRead(down[cur])
  /\ spc' = "read"
  /\ UNCHANGED <<net, cur, reply>>

\* A send that can fail, or fails half way.
Writing == /\ spc \in {"send", "sending", "sorry"} /\ WriteFails(down[cur])
           /\ spc = "sending" => CanRead(down[cur])

\* send throws: the catch handler writes a second response, with status 400,
\* and if that throws too the connection is closed.
SendThrows ==
  /\ Writing
  /\ IF spc = "sorry" THEN CloseClient
     ELSE spc' = "sorry" /\ reply' = Error(400) /\ UNCHANGED <<net, cur>>

\* No handler is installed for the signal.
SendKills == Writing /\ Sigpipe /\ EndServer("killed")

Serve ==
  \/ Accept \/ Skip \/ Take \/ CloseAtEnd
  \/ Send \/ SendReturns \/ SendThrows \/ SendKills

InitServer == spc = "accept" /\ cur = NoClient /\ reply = Error(0)
=============================================================================
