------------------------------ MODULE JcClient ------------------------------
(***************************************************************************)
(* b (calculator/src/b.cpp): every process k requests its targets one      *)
(* after the other over one connection, and gives up at the first error.   *)
(***************************************************************************)
EXTENDS JcWire

CONSTANTS Here,         \* the address of the server
          BadEndpoint,  \* an argument that parse_endpoint rejects
          LongPath      \* a path that encode_request rejects

VARIABLES cpc,      \* where process k is
          todo,     \* its targets to be requested
          printed,  \* the responses whose bodies it has printed
          code      \* its exit status, -1 before the end

client == <<cpc, todo, printed, code>>

\* A target is [addr, path]; a client without targets is not b.
InitClient(targets) ==
  /\ todo = targets
  /\ cpc = [k \in Clients |-> IF targets[k] = <<>> THEN "peer" ELSE "start"]
  /\ printed = [k \in Clients |-> <<>>]
  /\ code = [k \in Clients |-> -1]

Goto(k, label) == cpc' = [cpc EXCEPT ![k] = label]
target(k) == Head(todo[k])

\* main returns: its socket is closed, if it has one.
Exit(k, status) ==
  /\ code' = [code EXCEPT ![k] = status] /\ Goto(k, "exit")
  /\ down' = [down EXCEPT ![k] = Abandoned(@)]
  /\ \E ch \in Ended(up[k], CanRead(down[k])) : up' = [up EXCEPT ![k] = ch]
  /\ UNCHANGED <<backlog, listening, todo, printed>>

\* All arguments are parsed, and must name one address, before anything is
\* sent.
Parse(k) ==
  /\ cpc[k] = "start"
  /\ IF \E i \in 1..Len(todo[k]) : todo[k][i] = BadEndpoint
     THEN Exit(k, 1)
     ELSE IF \E i \in 1..Len(todo[k]) : todo[k][i].addr # todo[k][1].addr
     THEN Exit(k, 1)
     ELSE Goto(k, "connect") /\ UNCHANGED <<net, todo, printed, code>>

Connect(k) ==
  /\ cpc[k] = "connect" /\ listening /\ target(k).addr = Here
  /\ up' = [up EXCEPT ![k] = Fresh] /\ down' = [down EXCEPT ![k] = Fresh]
  /\ backlog' = Append(backlog, k)
  /\ Goto(k, "send")
  /\ UNCHANGED <<listening, todo, printed, code>>

ConnectFails(k) == cpc[k] = "connect" /\ Exit(k, 1)

RequestTo(path) == [method |-> "GET", host |-> TRUE, body |-> FALSE, path |-> path]
RequestFrame(k) == Frame("REQUEST", RequestTo(target(k).path))

SendRequest(k) ==
  /\ cpc[k] = "send" /\ target(k).path # LongPath /\ CanWrite(up[k])
  /\ up' = [up EXCEPT ![k] = WriteFrame(@, RequestFrame(k))]
  /\ Goto(k, "recv")
  /\ UNCHANGED <<down, backlog, listening, todo, printed, code>>

\* encode_request or send_frame throws, or the signal ends the process.
SendRequestFails(k) ==
  /\ cpc[k] = "send"
  /\ \/ (target(k).path = LongPath \/ WriteFails(up[k])) /\ Exit(k, 1)
     \/ target(k).path # LongPath /\ WriteFails(up[k]) /\ Sigpipe /\ Exit(k, 141)

\* Frames that are not responses are passed over.
PassOver(k) ==
  /\ cpc[k] = "recv" /\ CanRead(down[k])
  /\ Readable(Head(down[k].q)) /\ Head(down[k].q).type # "RESPONSE"
  /\ down' = [down EXCEPT ![k] = ReadFrame(@)]
  /\ UNCHANGED <<up, backlog, listening, client>>

Received(k) ==
  /\ cpc[k] = "recv" /\ CanRead(down[k])
  /\ Readable(Head(down[k].q)) /\ Head(down[k].q).type = "RESPONSE"

\* Slips: there is always another target; whatever has the right type is the
\* answer.
PrintsAndAsks(k) ==
  /\ Received(k) /\ Head(down[k].q).payload # Malformed
  /\ down' = [down EXCEPT ![k] = ReadFrame(@)]
  /\ printed' = [printed EXCEPT ![k] = Append(@, Head(down[k].q).payload)]
  /\ todo' = [todo EXCEPT ![k] = Tail(@)]
  /\ Goto(k, "send")
  /\ UNCHANGED <<up, backlog, listening, code>>
PrintsAll(k) ==
  /\ Received(k)
  /\ down' = [down EXCEPT ![k] = ReadFrame(@)]
  /\ printed' = [printed EXCEPT ![k] =
       Append(@, IF Head(down[k].q).payload = Malformed THEN [status |-> 0, body |-> <<>>]
                 ELSE Head(down[k].q).payload)]
  /\ todo' = [todo EXCEPT ![k] = Tail(@)]
  /\ Goto(k, IF Len(todo[k]) = 1 THEN "done" ELSE "send")
  /\ UNCHANGED <<up, backlog, listening, code>>

PrintResponse(k) ==
  /\ Received(k) /\ Head(down[k].q).payload # Malformed
  /\ down' = [down EXCEPT ![k] = ReadFrame(@)]
  /\ printed' = [printed EXCEPT ![k] = Append(@, Head(down[k].q).payload)]
  /\ todo' = [todo EXCEPT ![k] = Tail(@)]
  /\ Goto(k, IF Len(todo[k]) = 1 THEN "done" ELSE "send")
  /\ UNCHANGED <<up, backlog, listening, code>>

\* decode_response throws, or read_frame throws or returns false.
ReceiveFails(k) ==
  /\ \/ Received(k) /\ Head(down[k].q).payload = Malformed
     \/ cpc[k] = "recv" /\ ReadEnds(down[k])
  /\ Exit(k, 1)

\* Slip: the last response decides.
FinishByLast(k) ==
  /\ cpc[k] = "done"
  /\ Exit(k, IF printed[k][Len(printed[k])].status >= 400 THEN 1 ELSE 0)

Finish(k) ==
  /\ cpc[k] = "done"
  /\ Exit(k, IF \E i \in 1..Len(printed[k]) : printed[k][i].status >= 400 THEN 1 ELSE 0)

Run(k) ==
  \/ Parse(k) \/ Connect(k) \/ ConnectFails(k) \/ SendRequest(k) \/ SendRequestFails(k)
  \/ PassOver(k) \/ PrintResponse(k) \/ ReceiveFails(k) \/ Finish(k)
=============================================================================
