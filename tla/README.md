# Verification of BHTTP

TLA+ specifications of the programs of this repository: the BHTTP library
(`pkg/bhttp`) with the client `bcurl` and the server `bserve`, and the JC/1
calculator (`calculator/src`) with the server `serve` and the client `b`. TLC
checks them on small instances; TLAPS proves the theorems named below for every
value of the constants. File names are relative to the root of the repository;
`frame.go`, `header.go`, `hexdump.go`, `server.go` and `client.go` are in
`pkg/bhttp`, `protocol.hpp`, `serve.cpp` and `b.cpp` in `calculator/src`.

## 1. The system

| Component | State | Operations | Models |
|---|---|---|---|
| Frame codec, `frame.go` | none; the octets of a connection | `WriteFrame`, `ReadFrame`, `EncodeHeader`, `DecodeHeader` | `BhttpFrameHeader`, `BhttpFraming`, `BhttpChannel`, `BhttpWire` |
| Header codec, `header.go` | the decoder's position and entries | `EncodeHeaderBlock`, `DecodeHeaderBlockDetailed`, `Get`, `Set` | `BhttpHeaders` |
| Connection handler, `server.go` | a goroutine per connection: the frame, request and response in hand; the file tree | `handleConnection`, `handleHeadersFrame`, `sendSuccessResponse`, `sendErrorResponse` | `BhttpServer`, `BhttpAnswer`, `BhttpServerPeer` |
| Life of the server, `server.go`, `cmd/bserve/main.go` | `Listener`, `active`, `mu`, `connWg`, the signal | `Start`, `Stop`, `ServeConnection` | `BhttpLifecycle` |
| Client, `client.go`, `cmd/bcurl/main.go` | `Conn`, `currentAddr`, `nextStreamID`, the response in hand, `hasError` | `EnsureConnection`, `Get`, `Close`, the loop of `main` | `BhttpClient`, `BhttpClientPeer` |
| Both together | the two ends of the same connections | | `Bhttp`, `BhttpService` |
| Hexdumps, `hexdump.go` | none; offsets worked out anew from the payload | `DumpFrame`, `FormatMarkdownAnnotatedHexdump`, `HexDumpBlock`, `SerializeFrame` | `BhttpDump` |
| JC/1 frames, `protocol.hpp`, `net.hpp` | none; a connection | `read_frame`, `send_frame`, `close_socket` | `JcWire` |
| JC/1 server, `serve.cpp` | one connection and its request; the backlog | the accept loop, `handle_request` and its arithmetic | `JcServer`, `JcArithmetic` |
| JC/1 client, `b.cpp` | the socket, the targets left, the worst status | the loop of `main` | `JcClient` |
| The calculator together | the two ends of the same connections | | `Jc` |

How they interact. `bcurl` calls `Get` for one target after another; `Get`
writes one HEADERS frame and reads frames until END_STREAM. `bserve` runs one
handler per accepted connection; a handler reads a frame, acts on it and writes
the reply before it reads the next. The handlers share nothing but the file
tree, which others may edit, and `connWg`, which `Stop` waits for. Client and
server share nothing but the TCP connection, and see it as a sequence of frames
that ends in one of several ways. The calculator is a system of its own: `serve`
is one thread that answers the requests of one connection until it ends and then
accepts the next; `b` sends the requests for its targets over one connection, one
after the other, and gives up at the first error.

What is hard, and the property that answers it (`PROJECT.json`, "hazards", has
the list line by line):

- The byte stream may stop anywhere and arrives in pieces of any size; the
  server tells a clean end from a broken frame: `ImplementsChannel`,
  `ReaderEnds`, `RepliesInOrder`.
- A peer pipelines requests; bodies are cut into chunks; writes fail half way:
  `ResponsesContiguous`, `RepliesInOrder`, `ClosesOnlyWhenTold`, `HandlerEnds`.
- The tree changes between `os.Stat`, `os.ReadFile` and the writes:
  `WholeFiles`.
- `Start`, `Stop`, the handlers and the signal goroutine interleave:
  `WgCountsHandlers`, `StartReturnsAfterStop`, `StartEnds`, `StopEnds`,
  `SignalEndsProcess`, and three claims that fail (section 4).
- The client keeps its connection after errors, and what an abandoned response
  left in it: `BodyOfOwnStream`, `ReuseConnection`, `NoConnectionLeft`,
  `SentToHost`, `QuietBetweenRequests`.
- Stream identifiers are 32-bit in the client and 24-bit on the wire:
  `StreamIdsIncrease`, `RefusalIsExact`.
- No read or write has a deadline: `GivesUp`, `StopEnds`, `HandlersEnd` and
  `BEnds` say what each program then depends on.
- The hexdumps work out offsets from lengths inside the payload, without a check:
  `LinesTile`.
- `serve` reads pipelined requests, frames of other types and payloads that do
  not decode: `AnswersInOrder`. Its operands come from the request, and the checks
  of overflow are done in the same 64 bits: `PrintsAnswers`.
- A client of `serve` leaves in the middle of a response: `HoldsOne`,
  `DiesOnlyOfHaste`. `b` meets any server: `PrintsWhatCame`, `ExitTells`.

`SetSurvives` answers no hazard of these programs, since none of them calls `Set`:
it says what the exported `Set`, `Get` and the encoder do together for a caller.

## 2. The modules

Modules build on one another in three layers: octets, frames, programs.

**Octets.** `BhttpFrameHeader` has the eight octets of a frame header, with the
code's widths. `BhttpFraming` runs a writer and a reader over a stream of
octets: `WriteFrame` queues the octets of a frame, `Transmit` delivers any
number of them, `CloseWriter` may come after any octet; `ReadSome` is one `Read`
inside `io.ReadFull`, `HeaderComplete`, `PayloadComplete` and `ReadFails` are the
ways `ReadFrame` goes on. `BhttpChannel` is the abstraction: whole frames in
order, then the error of the place where the stream stops. `BhttpHeaders` has
the encoder as the operator `Encode` and the decoder as a loop with one step for
each field (`Indexed`, `Literal`, `UnknownIndex`, `Finish`); `Get` and `Set` are
operators on blocks. `BhttpDump` adds the hexdumps to it: which octets each line
claims to show, as an operator of the payload and of the decoder's entries.

**Frames.** `BhttpWire` is what both programs use: a connection is a pair of
channels, each a queue of frames and the way the stream ends (`"eof"`,
`"inHeader"`, `"noPayload"`, `"inPayload"`, `"reset"`, or `"gone"` when the
reader closed). `CanWrite`, `WriteFails`, `WriteFrame`, `ReadFrame`, `ReadError`
and the two halves of `Close` are defined there. A frame's payload is either a
header block (a record, `Malformed` or `NoHdr`) or a sequence of octets.

**The server.** `BhttpServer` is the handler: one variable each for the label
(`pc`), the request (`req`) and the response (`out`) of every connection, and the
tree (`fs`). Every frame read, every file-system call and every frame written is
a step of its own, since a write blocks and the tree changes in between:

| Actions | Code |
|---|---|
| `Accept` | `Start`, server.go:69-82 |
| `SkipUnknown`, `IgnoreData`, `TakePing`, `Pong`, `TakeGoAway`, `ReadFails` | the loop of `handleConnection`, 116-173 |
| `TakeHeaders`, `StatPath`, `StatIndex`, `ReadFile` | `handleHeadersFrame`, 177-263 |
| `SendHeaders`, `SendData` | `sendSuccessResponse` and `sendErrorResponse`, 266-381 |
| `Close` | the deferred calls, 108-109 |

`BhttpAnswer` is the reference: what one request should be answered with, as a
function of the request and a tree that does not change. `BhttpServerPeer` adds
peers that send any frames, stop, leave or lose the connection, and an editor of
the tree. `BhttpLifecycle` has the server around the handlers: `Listen`,
`Register`, `AcceptConn`, `AcceptFails`, `CheckActive`, `Spawn` are `Start`;
`Deactivate`, `Wait`, `WaitReturns` are `Stop`. Its handlers are only idle or
replying.

**The client.** `BhttpClient` is `bcurl` as one process with the labels `"next"`
(the loop of `main`), `"dial"`, `"send"`, `"recv"` and `"exit"`. `RejectURL`,
`EnsureConnection`, `Dial`, `DialFails`, `Send`, `SendFails` start a request;
`Discard` and the `Recv...` actions are the branches of the receive loop of
`Get`; `Settle` is what `main` does with the outcome. `BhttpClientPeer` adds
servers that send anything.

**Together.** `Bhttp` puts the actions of `BhttpClient` (by `INSTANCE`) and of
`BhttpServer` on the two ends of the same connections, which buffer `Capacity`
frames in each direction and may break. `BhttpService` is what the two promise,
with no connections and no frames.

**The calculator.** `JcWire` has its frames, whose end, limits and errors differ
from BHTTP's: a frame is read whole or `read_frame` gives up (`ReadEnds`), and
what the two ends of a connection see of a `close` is `Abandoned` and `Ended`.
`JcArithmetic` has `Calculate` and the four checks of overflow in integers that
wrap around, and next to them what the results ought to be (`IsResult`).

| Actions | Code |
|---|---|
| `Accept`, `AcceptFails`, `Skip`, `Take`, `CloseAtEnd` | the loops of `main`, serve.cpp:156-173 |
| `Send`, `SendReturns`, `SendThrows`, `SendKills` | `send_frame` and the `catch` that answers 400, serve.cpp:164-169 |
| `Parse`, `Connect`, `ConnectFails`, `SendRequest`, `SendRequestFails` | b.cpp:67-83, 37-54 |
| `PassOver`, `PrintResponse`, `ReceiveFails`, `Finish` | b.cpp:84-98 |

`Answer` in `JcServer` is `handle_request` with what surrounds it; a path is a
route and the items of its query. `Jc` puts `serve` and several processes of `b` on
the ends of the same connections, beside peers that send any frames without
waiting, do not read, stop inside a frame or leave; in some of its behaviours the
server is one that sends anything, for the sake of `b`. It also keeps the record
the properties need: the requests taken and the frames given on each connection.

The `MC...` modules give the constants their values. Operators under a comment
that begins with "Slip:" are variants of the operator that follows them, with a
bug that could easily be made; no specification uses them. Each property has one
of them with which TLC finds it violated, so that a property which no error
could break would be noticed.

## 3. The runs that pass

| Run | Instance | What it shows |
|---|---|---|
| `server_replies` | `MCServer`, `ServerReplies.cfg`: one connection, any 2 of 18 frames, one edit | What a handler writes is a sequence of whole responses; with an unedited tree it is at every moment the beginning of what `BhttpAnswer` says, in the order of the requests, and all of it when the handler reads again; with an edit, a complete response still carries one whole version of a file and the length it announced; the handler closes only after GOAWAY or the end of its input, and then does |
| `client_any_server` | `MCClient`, `ClientAnyServer.cfg`: five lists of two to four targets, 3 connections, any 2 of 14 frames | A connection is reused for the same address and closed before another is dialled; requests go to their host with odd, increasing identifiers, and one that does not fit is not sent; no octet sent for one request gets into the body of another, but DATA on stream 0 does get into bodies; the exit status is right; `bcurl` exits if every connection it opens ends |
| `end_to_end` | `MCBhttp`, `BhttpEndToEnd.cfg`: five lists, 3 connections of capacity 2, two breaks | `bcurl` and `bserve` implement `BhttpService`: a target gets an error or exactly its file, in order. Without a break the connection is quiet between two requests; no handler outlives `bcurl` for ever |
| `lifecycle` | `MCLifecycle`, `Lifecycle.cfg`: 3 connections, as a library and in `bserve` | `connWg` is the number of running handlers; `Start` reports a clean shutdown only after `Stop`, and does; `Stop` returns when the clients leave; in `bserve` a signal ends the process whatever the clients do |
| `framing` | `MCFraming`, `Framing.cfg`: 3 frames of 0 to 2 octets, cut anywhere, delivered in any pieces | Octets implement `BhttpChannel`; a closed stream is read to its end |
| `headers` | `MCHeaders`, `Headers.cfg`: all payloads of up to 6 octets of 4 values, all blocks of one or two of 35 fields, of three of 14 | The entries of the decoder partition the payload; what was encoded decodes to the fields it was given, normalised; a value that was `Set` is the one `Get` finds at the other end; every octet of a frame is in one line of a hexdump, at its place; the decoder ends |
| `calculator` | `MCJc`, `Calculator.cfg`: 2 clients, capacity 2, integers of 3 bits, peers with 8 kinds of frame | Each request is answered once and in order, others not at all; what is printed is the exact result, the whole file or an error; `b` prints what came and exits as it should; `serve` keeps no connection it is done with, and only a client that leaves early can end it (no connection is lost by the network here); `b` ends if the peers leave |

Why these bounds are enough.

- *Server.* Handlers of different connections share only the tree, and one
  handler reads it at three points at most in a request; one connection and one
  edit at any moment show what an edit can do. Two frames give every pair
  "what was owed, what comes next". With `ChunkSize` 2 the bodies have 0, 1, 2,
  3 and 5 octets: empty, shorter than a chunk, a whole chunk, and not a multiple.
- *Client.* At most three connections are ever dialled for three hosts visited;
  two frames are enough to leave one behind for the next request. `MaxStreamID`
  is 5, so that the fourth request has an identifier that does not fit.
- *Together.* Capacity 2 makes the server block in the middle of a body of five
  octets (four frames with its header). Two breaks can hit any connections at any
  time.
- *Lifecycle.* Three connections are one that is being served, one in Start's
  hands and one in the backlog.
- *Calculator.* With two clients one is served while the other is in the backlog,
  and a peer can hold up a process of `b`. Three bits have every operand there is,
  and one that does not fit (4); the proof covers the other widths. `MaxFrames` 2
  and capacity 2 let a peer have one request answered, one in hand and the queues
  full. `/film` is larger than 64 MiB. `Sigpipe` is TRUE, which includes the
  behaviours in which the send fails with an error.
- *Dumps.* Rows of four octets and a preview of eight are passed by frames of up
  to 54 octets; `Stream` has three different octets.
- *Headers.* The base of the octets is 4, so the largest string is 15 octets and
  fields of 15 and of 16 octets exist. A wrong length or index anywhere in the
  first two fields shows up within six octets.

## 4. The runs that end in a violation

Each checks one claim that a comment or the specification makes of the program
and that the code does not keep.

| Run | Claim | What happens |
|---|---|---|
| `server_unreadable` | SPEC.md:156: a file that "cannot be read" is answered with 404 | `handleHeadersFrame` answers 500 (server.go:246, 254), also for a path below a regular file |
| `client_ping` | frame.go:19 and SPEC.md:51: END_STREAM means something on HEADERS and DATA only | `Get` tests the bit on every frame (client.go:198). A PING with ACK on stream 0 has the same bit and ends the response, with the body missing and no error |
| `lifecycle_stop_early` | server.go:86: `Stop` shuts down gracefully | `Start` calls `connWg.Add` after `Accept` without the mutex, so `Wait` can return before it: `Stop` returns and a connection is served afterwards. If the `Add` falls between the last `Done` and the return of `Wait`, `sync.WaitGroup` panics (`WaitGroupPanics`) |
| `lifecycle_stop_first` | the same | A `Stop` before `Start` has registered its listener finds none; `Start` then sets `active` to true and accepts for ever |
| `lifecycle_exit` | cmd/bserve/main.go:36: "graceful exit" | `main` returns as soon as `Start` does, while `Stop` still waits in the signal goroutine: a reply is cut |

## 5. Fairness

- Goroutines and processes run: weak fairness on each handler, on `Start`, on
  `Stop`, on the client, on the reader. A step that stays enabled is taken; Go's
  scheduler promises as much. A blocked write or read is a disabled step, so it
  is not forced.
- Nothing else is fair: peers need not send, read, leave or close, nobody needs
  to call `Stop` or edit the tree, connections need not break, and a dial need
  not fail or succeed.
- What depends on the environment is a premise of the property: `GivesUp` assumes
  that every connection ends, `StopEnds` that every client leaves, `HandlerEnds`
  that the peer stopped sending, `BEnds` that every peer that connects leaves some
  day.
- In `Jc`, `serve` is fair as a whole (it is one thread) and so is each process of
  `b`. That `accept` fails is no part of the fair step: it need not happen.
- `AcceptFails` may happen at any time. `Start` is fair as a whole, so it may fail
  for ever; `StartEnds` holds all the same, since `Stop` has made the server
  inactive.

## 6. Proofs

| Theorem | Module | Statement |
|---|---|---|
| `TypeCorrect` | `BhttpServerProofs` | `Spec => []TypeOK` of `BhttpServerPeer` |
| `ResponsesAreContiguous` | `BhttpServerProofs` | `Spec => []ResponsesContiguous` |
| `HandlersEndWhenTold` | `BhttpServerProofs` | `Spec => []ClosesOnlyWhenTold` |
| `RepliesAreInOrder` | `BhttpServerProofs` | `Spec => []RepliesInOrder` |
| `FilesAreWhole` | `BhttpServerProofs` | `Spec => []WholeFiles` |
| `WgIsExact` | `BhttpLifecycleProofs` | `Spec => []WgCountsHandlers` |
| `CleanShutdown` | `BhttpLifecycleProofs` | `Spec => []StartReturnsAfterStop` |
| `LifecycleTypes` | `BhttpLifecycleProofs` | `Spec => []TypeOK` |
| `HeaderRoundTrip` | `BhttpFramingProofs` | decoding the encoding of a header that fits gives it back |
| `RefusalIsExact` | `BhttpFramingProofs` | `WriteFrame` refuses exactly the frames whose header would not survive |
| `OctetsImplementChannel` | `BhttpFramingProofs` | `Spec => Channel!Spec`: the refinement |
| `FramingTypes` | `BhttpFramingProofs` | `Spec => []TypeOK` of `BhttpFraming` |
| `ClientTypes`, `NoConnectionIsLeft`, `RequestsReachTheirHost`, `StreamIdentifiersIncrease`, `ExitStatusTells`, `ConnectionsAreReused`, `BodiesDoNotMix` | `BhttpClientProofs` | the seven safety properties of `BhttpClientPeer` |
| `SystemInvariant` | `BhttpProofs` | `Spec => []` of the inductive invariant of both programs together |
| `AlwaysQuietBetweenRequests` | `BhttpProofs` | `Spec => []QuietBetweenRequests` |
| `SystemImplementsService` | `BhttpProofs` | `Spec` implies the initial condition and the steps of `BhttpService`: the safety part of `ImplementsService` |
| `DecoderTypes` | `BhttpHeadersProofs` | `Spec => []TypeOK` of `BhttpHeaders` |
| `EntriesArePartition` | `BhttpHeadersProofs` | `Spec => []EntriesPartition` |
| `BlocksRoundTrip` | `BhttpHeadersProofs` | `Spec => []RoundTrip` |
| `SetsSurvive` | `BhttpHeadersProofs` | `Spec => []SetSurvives` |
| `LinesAreTiled` | `BhttpHeadersProofs` | `Spec => []LinesTile` of `BhttpDump` |
| `ArithmeticIsExact` | `JcProofs` | `Calculate` refuses exactly what has no result or one that does not fit, and is exact otherwise, for integers of any width |
| `CalculatorTypes`, `ConnectionsAreHeld`, `RequestsAreAnswered`, `AnswersArePrinted`, `ExitIsTold`, `ServeDiesOnlyOfHaste`, `WhatCameIsPrinted` | `JcProofs` | `Spec => []` of `TypeOK`, `HoldsOne`, `AnswersInOrder`, `PrintsAnswers`, `ExitTells`, `DiesOnlyOfHaste` and `PrintsWhatCame` of `Jc` |

`BhttpWireProofs` has what the proofs about server and client share: that a
channel which is closed, broken or cut is the beginning of what it was, and what
`FlattenSeq` makes of a sequence of sequences. `FlattenSeq` is a recursive
function, and no prover here can apply an induction theorem that takes a
predicate; `LeastNumber` (a set of numbers that is not empty has a least one,
from well-founded induction over a set) and `Induction` (a set that has 0 and
the successors of its members has all numbers) do the same with sets.

**Assumptions.** `WireAssumption`, `ServerAssumption`, `PeerAssumption`,
`LifecycleAssumption`, `ClientAssumption`, `FramingAssumption`, `JcWireAssumption`
`SystemAssumption` and `JcAssumption` give the constants the types their comments say, and keep
apart the names that the code tells apart. Two say more.
`ClientPeerAssumption`: the scripts are so short that `nextStreamID` does not
wrap (`2 * Len(s) + 1 < StreamMod`; the code's `StreamMod` is 2^32, a run of 2^31
requests). Of the frames a server sends it says only that the octets of a DATA
frame are the number of the frame's stream, which labels them; it excludes no
frame, on no stream. `WidthAssumption`: the least and the greatest integer are those of two's
complement. `HeadersAssumption` says of `Lower` that octets in lower case stay as
they are and that it makes no blank and no blank into something else: without it,
a name that was trimmed and lowered could change when it is lowered again.
`DumpAssumption` is the types of the constants of a dump. TLC evaluates all of
them in every run.

**The octets.** The reader's state says nothing of what it has yet to read, so
neither the order of the frames nor the error at the end is inductive. The
invariant is `Typed /\ Aligned`: there is a function `at` that gives the place
where each frame ends in the stream of all octets ever written; `got` and `header`
say where the reader stands, and what it has gathered, what is on the wire and
what is pending, in this order, is the stream from there on. A writer's step makes
the stream longer (`OneMore`); `Transmit` and `ReadSome` move octets between parts
whose concatenation stays (`TransmitKeeps`, `ReadKeeps`); the end of a header or a
payload moves the place (`Advance`), and what was gathered there decodes to the
frame that was written by `HeaderRoundTrip` (`HeaderHere`, `PayloadHere`). At the
end of the stream the equation of lengths leaves no frame that was sent whole
untaken, and tells how much of the last was sent (`AtTheEnd`). `StepMaps` then
takes each step to one of `BhttpChannel` or to a stutter: the octet that ends a
frame to `Put`, `CloseWriter` to `Cut`, the end of a frame in the reader to `Take`,
`ReadFails` to `TakeEnd`.

**The headers.** The decoder's invariant is `Decoding == Typed /\ Parsed /\ Source`.
`Parsed`: each entry is what stands in the payload between its two places in one of
the two formats (`IsIndexedEntry`, `IsLiteralEntry`), begins where the one before it
ended (`Begins`), and `pos` is where the next begins; `EntriesPartition` and `TypeOK`
follow. `Source`: the payload of a block is its `Encode`. For `RoundTrip` this is not
enough, since it says nothing of the block; `Matches` adds that with n entries
decoded `pos` is behind the encoding of the first n fields (`Prefix`, `EncodeStep`),
that the entries are these fields, and that the decoder has not failed. A step
then finds the next field where it has to be (`FieldStands`), in the format in which
it was written, and takes exactly it; the quotient and the remainder that
`PutString` writes for a length are the length again (`Division`). `SetSurvives`
rests on what names that are equal for `Set` are for the encoder (`SameName`): those
that it lowers and trims to the same, but not the other way round, which is where the
exception in `SetSurvives` comes from.

**The dumps.** `TilesFrom(lines, w, a, b)` is what `Tile` says of the part of a dump
that shows the octets a to b - 1; it is composed line by line and part by part
(`TilesAppend`, `TilesJoin`), and empty lines are allowed wherever a peer has encoded
an empty string. The rows of `HexDumpBlock` are such a part for any row size
(`RowsTile`, where the division of the code has to round up), the header is one
(`HeaderTiles`), and so are the lines of an entry in each format (`EntryTiles`),
which uses from `Decoding` that name and value stand where the lengths in the
WireBytes say. `EntriesTile` joins all entries by `Induction`.

**The handler.** `ResponsesContiguous` is not inductive: while a body is being
sent, that no DATA frame comes too late or for the wrong stream depends on what
the handler still has in hand. The invariant proved is
`Written(down[c], pc[c], out[c])` for every connection: what was written is
contiguous; with a response not begun its offset is 0 and its HEADERS frame will
end it exactly if no body follows; in the middle of a body the offset is short of
the body's length and the last frame written is an unfinished one of that stream;
between responses the last frame ended one. Its proof has a case for each action
of the handler (`HandlerWritten`) and one for each action of the peer
(`PeerWritten`): a break cuts the queue to a prefix, and a prefix of a contiguous
sequence is contiguous (`PrefixContiguous`). `ClosesOnlyWhenTold` speaks of the
frames taken, which no variable holds: `AllObey` adds that the frames still in the
channel are the last of those offered, so that the ones before them are those
taken; that a GOAWAY among these is the last and the handler has finished; and that
a response which is to be the last one (the answer to a broken frame) is only
written when the channel is at its end.

`RepliesInOrder` says of what was written only that it is a beginning of what is
owed. The invariant `InOrder` says which: what was written, followed by what a
handler at its label has still to write, is what is owed for the frames taken.
`ToWrite(label, r, o, p)` is what is left of the reply `p` (`Replies` of the
frame in hand), for each label: all of it while the path is looked up, the frames
of `out` while they are written, the DATA frames from `off` on in the middle of a
body. After a stream that ended inside a frame (`AtCut`) the 400 is owed as well
(`Full`). A handler whose write failed has written a beginning, and nothing more
comes. Its proof (`HandlerInOrder`) compares each step with the reference: that
the path leads where `Resolve` says (`StatLeaves` and its like), and that the
frames of a response are those of `Answer`. A break makes the frames that were
not read untaken, which changes nothing that is owed (`BreakTakes`).

`WholeFiles` holds under edits, so that the invariant cannot speak of the tree as
it is. `WholeFor`: every response in the queue that was ended is whole, its body
as long as its HEADERS frame says and, with status 200, that of a file of some
tree; one that is begun is at label `"data"`, and the octets sent of it are the
first `off` of `out.body`; and the body of a 200 is a file of some tree from the
moment `ReadFile` has taken it.

**The life of the server.** The invariant is
`IInv == Shape /\ WgCountsHandlers /\ Shutdown`. `Shape` is `TypeOK` without the
bound on `wg`, which is a consequence of the count and not inductive by itself.
`Shutdown` adds to `StartReturnsAfterStop` that the listener is registered whenever
`Start` accepts, and that an inactive server which accepts has had its listener
closed by `Stop`; without it, `CheckActive` could return for another reason.

**The client.** All seven rest on `Base == Typed /\ Counted /\ Held`: the types;
that `nextStreamID` is odd and that the targets left do not make it wrap; and that
a connection in hand is the one to `currentAddr`, which is the target's while it is
requested. On top of it each theorem has the part it needs, which `UpStep`,
`FramesStep` or `LogStep` carries over a step: for the identifiers, that those
sent on a connection are below `nextStreamID` and increase; for the bodies, that
what was put into one came on its stream or on stream 0; for the exit status, that `hasError` is
what the results so far say (`Remembers`); for the reuse of connections, that the
last result was got on the connection in hand, if there is one (`LastHeld`).

**Both programs together.** `QuietBetweenRequests` and each step of
`ImplementsService` need to know what is under way. The invariant
(`SystemInvariant`) is `Shapes /\ Places /\ Held /\ Books`: the shapes of the
variables; where the client may be, and with which connection; what is on that
connection; and what has been settled so far. For a connection on
which a request is under way and that has not failed, what the client has of the
response, what is on the connection and what the handler has still to write are, in
this order, the answer to the request: `Pieces` and `IsWay` put the three together
at the places where they were cut. Each step of the client or of a handler moves
frames from one part to the next, and `Settle` finds the whole answer in the first.
`SystemImplementsService` maps the steps: one that adds to `log` is a `Settle` of
`BhttpService`, the exit of `bcurl` is its `Finish`, all others stutter. The
fairness of `BhttpService` is not proved.

**The calculator.** The invariants form a chain. `Base == Typed /\ Progress(k)`
for each client: what `b` has printed, the worst status and the targets left go
with the script (`ExitIsTold`). `Connected` adds `Queue`, `Holds` and `Conn(k)`:
the backlog has no connection twice, none that is in hand, and each that was opened
and not closed is in one of the two places (`CalculatorTypes`,
`ConnectionsAreHeld`). `AllAnswered` adds `Answered(k)`: the frames given are the
answers to those taken, one by one, and there is one more taken than given
exactly while `serve` has a response to send (`RequestsAreAnswered`). `Flows` adds
both directions of a connection of `b`: what was taken and what is queued upwards
are the requests of its targets in order, and what it printed and what is queued
downwards are the responses given in order. With `AnswerIsPromised`, which is
`ArithmeticIsExact` in the terms of `Jc`, what `b` prints for a target is then
what was promised for it (`AnswersArePrinted`).

That `serve` dies of nothing else than a client that left too early
(`ServeDiesOnlyOfHaste`) is a matter of counts, which `DiesOnlyOfHaste` alone does
not keep. `Tally(k)`: the frames heard and those queued downwards are no more than
those given, and the requests taken and those queued upwards no more than those
asked; since other frames are queued between the requests, the latter says that the
queued requests can be numbered increasingly from the taken ones to the asked ones
(`Ranked`), which needs no induction over the queue. `Held(k)`: a connection that
`serve` holds is read by its client, or the client has left; while a response is
owed fewer were given than taken; and when `serve` writes its 400 after a failed send
the client has left and had not heard all. A send can then only fail (`FailsToHasty`)
to a client that has heard less than was given or taken, and so less than it asked.

`WhatCameIsPrinted` holds against any server, so that neither `Answered` nor `Flows`
helps. `Tracked(k)`: with n frames read (`ReadAt`), what is queued downwards is what
follows in `given`, and as many responses are printed as there were among the first n
frames; a frame that `b` reads adds one to both counts or to none (`TrackedRead`).
A sequence of the responses alone would take an induction over `given`; the count of
their places is a cardinality, which a frame more changes by at most one (`CameStep`).

`ArithmeticIsExact` has a case for each route; `MulExact` needs that the
checks divide exactly, which is why the sign cases of `Times` are taken apart.

**Only model-checked.**

- Liveness, which is out of the provers' reach: `HandlerEnds`, `GivesUp`,
  `HandlersEnd`, `StartEnds`, `StopEnds`, `SignalEndsProcess`, `ReaderEnds`,
  `DecoderEnds`, `BEnds`.
- The liveness of `BhttpService` in `ImplementsService`.

Every invariant and every action property that a passing run checks has a theorem.

## 7. What is left out, and the plan

Abstractions.

- `os.ReadFile` is one step, and edits replace files as a rename does. A file
  that is overwritten in place while it is read is not modelled.
- In `BhttpServerPeer` and `BhttpClientPeer` no write ever blocks (`Capacity` is
  out of reach); writes that block are the matter of `Bhttp`. That queues keep
  all that was written is what lets the properties speak of it.
- Names and values of header fields are reduced to the method, path, host,
  status and length in the modules of the programs; `BhttpHeaders` stands by
  itself for the encoding, `Get` and `Set`. MIME types are left out.
- Paths are sequences of segments; `DotDot` names those that contain "..".
  The query was cut off before the segments are looked at, as in the code.
- `nextStreamID` wraps at `StreamMod`, but no run makes that many requests.
- Handlers of `BhttpLifecycle` have no content; `ServeConnection` is not called
  once `Stop` has been asked for, which is what the `sync.WaitGroup` demands of
  its users.
- The connections of JC/1 end only by what the programs and their peers do: a
  connection that the network loses is not modelled. To `serve` it would look like
  a client that leaves early, so `DiesOnlyOfHaste` and its theorem hold up to such
  losses: a reset of the network in the middle of a response may end `serve` too.
- The octets of JC/1: `read_frame` takes a frame or reports its end, and requests,
  responses and header lists are reduced to whether they decode. Of a frame, its
  type, its size against the limit and its content are kept. The backlog of 16
  connections does not fill up with the clients there are.
- Where `serve` writes to a connection that its client has closed, the model
  lets the send fail with an error or a SIGPIPE: which of the two comes first
  depends on the operating system.
- The wire carries at most `MaxFrames` frames of a peer, `MaxEdits` edits and
  `MaxBreaks` breaks: the bounds on what is counted.
- Of the hexdumps, the wording and the layout of a line (`HexSummary`, the
  columns, the escaping) are left out; what is modelled is which octets a line
  claims to show.

Not modelled: `cmd/annotate`, which prints fixed frames with fixed remarks;
`detectMimeType`; the tests, the scripts and the pages under `www`.

**Observations.** Met while reading, and not the matter of a run of their own:

- `serve.cpp:166` sends without `MSG_NOSIGNAL` and no handler ignores SIGPIPE: a
  client that leaves before its response ends the server for all. `DiesOnlyOfHaste`
  says that nothing else does, as long as the network loses no connection.
- `encode_frame` has no limit and `read_frame` refuses what is above 64 MiB
  (`protocol.hpp:228`): a larger file is sent, `b` gives up in the middle, and the
  server may end as above.
- `read_frame` takes an end of the stream inside a header for a clean end
  (`protocol.hpp:198`), and the server closes without the 400 that
  `calculator/README.md` promises for malformed frames; it keeps the promise for
  payloads that do not decode.
- Routes are told by their beginning (`serve.cpp:70`): a file `/address.html` is
  taken for `/add` and answered with an error.
- Any failure of `accept` ends `serve` (`serve.cpp:157`).
- `encode_headers` allows 255 headers, `decode_headers` refuses more than 32.
- `Get` takes DATA on stream 0 for its own: `client.go:175` lets every frame of
  stream 0 through, which SPEC.md:28 reserves for control frames, and 191-192
  appends the payload to whichever body is being received. HEADERS on stream 0
  replace the status in the same way. `BodyOfOwnStream` names the exception, and
  `client_any_server` offers such frames.
- A peer that pipelines requests and does not read blocks its handler in a write
  (`server.go:298`, 334) until it leaves. `bcurl` does not pipeline:
  `QuietBetweenRequests` and `HandlersEnd` speak of `bcurl` alone.
- `Set` compares names as they are given, while the encoder lowers and trims them
  (`header.go:61`).
- `bcurl -v` dumps an identifier cut to 24 bits for a frame that `WriteFrame` then
  refuses (`client.go:141`).
- A response without a readable `:status` leaves `StatusCode` at 0 and counts as
  a success (`client.go:187`).
- `hexdump.go:22` prints a literal `%d`; `FormatMarkdownAnnotatedHexdump` ignores
  errors of the decoder; `cmd/annotate/main.go:108` announces 64 octets for a body
  of 67.

**What could follow.** The octets of JC/1 payloads, with the header limits of the
two sides.
