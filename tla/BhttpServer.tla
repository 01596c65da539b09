----------------------------- MODULE BhttpServer -----------------------------
(***************************************************************************)
(* handleConnection and what it calls (server.go): one goroutine for each  *)
(* accepted connection reads frames in order and writes the replies.  A    *)
(* frame, a write and a file-system call are separate steps: a write       *)
(* blocks, and the tree can change between two calls.                      *)
(***************************************************************************)
EXTENDS BhttpWire

CONSTANTS Conns,      \* the TCP connections
          ChunkSize,  \* octets of a DATA frame, 64 KiB in the code
          Message,    \* the octets of an error body
          DotDot      \* the path segments that contain ".."

ASSUME ServerAssumption ==
  /\ ChunkSize \in Nat \ {0}
  /\ Message \in Seq(STRING) /\ Message # <<>>

VARIABLES up,    \* up[c]: the channel from the client to the handler
          down,  \* down[c]: the channel from the handler to the client
          fs,    \* the served tree: resolved path -> [kind, data]
          pc,    \* pc[c]: where the handler of c is
          req,   \* req[c]: the request being handled, or the PING to echo
          out    \* out[c]: the response being written

vars == <<up, down, fs, pc, req, out>>
local == <<req, out>>

-----------------------------------------------------------------------------
(* The request: its path, and the file it names                            *)

\* Join and Clean leave the segments that are neither empty nor ".".
Resolve(path) == SelectSeq(path.segs, LAMBDA s : s \notin {"", "."})

\* A segment that contains ".." is refused; the query was cut off before.
Traversal(path) == \E i \in 1..Len(path.segs) : path.segs[i] \in DotDot

\* os.Stat: a file on the way to the name is an error of its own (ENOTDIR).
Stat(tree, p) ==
  IF \E n \in 1..(Len(p) - 1) : /\ SubSeq(p, 1, n) \in DOMAIN tree
                                /\ tree[SubSeq(p, 1, n)].kind \in {"file", "locked"}
  THEN "notdir"
  ELSE IF p \in DOMAIN tree THEN tree[p].kind ELSE "missing"

IsRegular(kind) == kind \in {"file", "locked"}
Index(p) == Append(p, "index.html")

\* sendSuccessResponse and sendErrorResponse: a response still to be written.
\* ends: its HEADERS frame carries END_STREAM; last: the handler then returns.
\* Slip: a HEAD request gets the body.
SuccessWithBody(stream, body, head) ==
  [stream |-> stream, status |-> 200, body |-> body, off |-> 0, ends |-> body = <<>>, last |-> FALSE]

Success(stream, body, head) ==
  [stream |-> stream, status |-> 200, body |-> body, off |-> 0,
   ends |-> head \/ body = <<>>, last |-> FALSE]
\* Slip: the handler returns after every error.
FailureCloses(stream, status, last) ==
  [stream |-> stream, status |-> status, body |-> Message, off |-> 0, ends |-> FALSE, last |-> TRUE]

Failure(stream, status, last) ==
  [stream |-> stream, status |-> status, body |-> Message, off |-> 0,
   ends |-> FALSE, last |-> last]

\* Slip: END_STREAM on every HEADERS frame.
HeadersFrameEnds(o) ==
  Frame("HEADERS", {FlagEndHeaders, FlagEndStream}, o.stream,
        [status |-> o.status, length |-> Len(o.body)], <<>>)

HeadersFrame(o) ==
  Frame("HEADERS", {FlagEndHeaders} \cup (IF o.ends THEN {FlagEndStream} ELSE {}),
        o.stream, [status |-> o.status, length |-> Len(o.body)], <<>>)

ChunkEnd(o) ==
  IF o.status # 200 \/ o.off + ChunkSize > Len(o.body) THEN Len(o.body)
  ELSE o.off + ChunkSize
DataFrame(o) ==
  Frame("DATA", IF ChunkEnd(o) = Len(o.body) THEN {FlagEndStream} ELSE {},
        o.stream, NoHdr, SubSeq(o.body, o.off + 1, ChunkEnd(o)))

PongFrame(f) == Frame("PING", {FlagAck}, f.stream, f.hdr, f.data)
-----------------------------------------------------------------------------
(* The handler                                                             *)

Goto(c, label) == pc' = [pc EXCEPT ![c] = label]

\* The handler of c goes on to write o.
Reply(c, o) == out' = [out EXCEPT ![c] = o] /\ Goto(c, "headers")

\* Start: Accept returns a connection and its handler begins.
Accept(c) ==
  /\ pc[c] = "none" /\ up[c].end # "none"
  /\ Goto(c, "read")
  /\ UNCHANGED <<up, down, fs, local>>

\* ReadFrame returned a frame of this type.
Takes(c, type) ==
  /\ pc[c] = "read" /\ CanRead(up[c]) /\ Head(up[c].q).type = type
  /\ up' = [up EXCEPT ![c] = ReadFrame(@)]
  /\ UNCHANGED <<down, fs>>

SkipUnknown(c) == Takes(c, "UNKNOWN") /\ UNCHANGED <<pc, local>>

IgnoreData(c) == Takes(c, "DATA") /\ UNCHANGED <<pc, local>>

\* Slip: the frame to echo is not kept.
TakePingForgets(c) == Takes(c, "PING") /\ Goto(c, "pong") /\ UNCHANGED local

TakePing(c) ==
  /\ Takes(c, "PING")
  /\ req' = [req EXCEPT ![c] = Head(up[c].q)]
  /\ Goto(c, "pong")
  /\ UNCHANGED out

TakeGoAway(c) == Takes(c, "GOAWAY") /\ Goto(c, "close") /\ UNCHANGED local

\* handleHeadersFrame up to the first call on the file system.
HeadersStatus(hdr) ==
  IF hdr = Malformed THEN 400
  ELSE IF hdr.method \notin {"GET", "HEAD"} THEN 405
  ELSE IF ~hdr.path.rooted \/ Traversal(hdr.path) THEN 400
  ELSE 200

TakeHeaders(c) ==
  LET f == Head(up[c].q) IN
  /\ Takes(c, "HEADERS")
  /\ IF HeadersStatus(f.hdr) = 200
     THEN /\ req' = [req EXCEPT ![c] = [stream |-> f.stream, head |-> f.hdr.method = "HEAD",
                                        path |-> Resolve(f.hdr.path)]]
          /\ Goto(c, "stat") /\ UNCHANGED out
     ELSE Reply(c, Failure(f.stream, HeadersStatus(f.hdr), FALSE)) /\ UNCHANGED req

StatPath(c) ==
  LET kind == Stat(fs, req[c].path) IN
  /\ pc[c] = "stat"
  /\ CASE kind = "dir"     -> Goto(c, "index") /\ UNCHANGED out
       [] IsRegular(kind)  -> Goto(c, "open") /\ UNCHANGED out
       [] kind = "missing" -> Reply(c, Failure(req[c].stream, 404, FALSE))
       [] OTHER            -> Reply(c, Failure(req[c].stream, 500, FALSE))
  /\ UNCHANGED <<up, down, fs, req>>

StatIndex(c) ==
  /\ pc[c] = "index"
  /\ IF IsRegular(Stat(fs, Index(req[c].path)))
     THEN /\ req' = [req EXCEPT ![c].path = Index(@)]
          /\ Goto(c, "open") /\ UNCHANGED out
     ELSE Reply(c, Failure(req[c].stream, 404, FALSE)) /\ UNCHANGED req
  /\ UNCHANGED <<up, down, fs>>

ReadFile(c) ==
  LET r == req[c] IN
  /\ pc[c] = "open"
  /\ Reply(c, IF Stat(fs, r.path) = "file" THEN Success(r.stream, fs[r.path].data, r.head)
              ELSE Failure(r.stream, 500, FALSE))
  /\ UNCHANGED <<up, down, fs, req>>

\* WriteFrame returns, with or without an error.
Writes(c, f) ==
  /\ CanWrite(down[c]) /\ down' = [down EXCEPT ![c] = WriteFrame(@, f)]
  /\ UNCHANGED <<up, fs, req>>
WriteError(c) == WriteFails(down[c]) /\ UNCHANGED <<up, down, fs, req>>

Pong(c) ==
  /\ pc[c] = "pong"
  /\ Writes(c, PongFrame(req[c])) \/ WriteError(c)
  /\ Goto(c, "read") /\ UNCHANGED out

AfterResponse(o) == IF o.last THEN "close" ELSE "read"

SendHeaders(c) ==
  /\ pc[c] = "headers"
  /\ \/ /\ Writes(c, HeadersFrame(out[c]))
        /\ Goto(c, IF out[c].ends THEN AfterResponse(out[c]) ELSE "data")
     \/ /\ WriteError(c)  \* only sendErrorResponse goes on to the body
        /\ Goto(c, IF out[c].status = 200 THEN "read" ELSE "data")
  /\ UNCHANGED out

\* Slip: the body is read from the file again for every chunk.
SendDataRereads(c) ==
  LET p == req[c].path
      o == IF out[c].status = 200 /\ Stat(fs, p) = "file" THEN [out[c] EXCEPT !.body = fs[p].data]
           ELSE out[c]
      end == ChunkEnd(o)
  IN /\ pc[c] = "data"
     /\ Writes(c, DataFrame(o))
     /\ out' = [out EXCEPT ![c].off = end]
     /\ Goto(c, IF end = Len(o.body) THEN AfterResponse(o) ELSE "data")

SendData(c) ==
  LET end == ChunkEnd(out[c]) IN
  /\ pc[c] = "data"
  /\ \/ /\ Writes(c, DataFrame(out[c]))
        /\ out' = [out EXCEPT ![c].off = end]
        /\ Goto(c, IF end = Len(out[c].body) THEN AfterResponse(out[c]) ELSE "data")
     \/ WriteError(c) /\ Goto(c, AfterResponse(out[c])) /\ UNCHANGED out

\* Slip: the loop goes on after a clean end.
ReadFailsContinues(c) ==
  /\ pc[c] = "read" /\ AtEnd(up[c])
  /\ IF ReadError(up[c]) = "EOF" THEN UNCHANGED <<pc, out>> ELSE Reply(c, Failure(1, 400, TRUE))
  /\ UNCHANGED <<up, down, fs, req>>

\* ReadFrame failed: a clean end is silent, any other answers 400 on stream 1.
ReadFails(c) ==
  /\ pc[c] = "read" /\ AtEnd(up[c])
  /\ IF ReadError(up[c]) = "EOF" THEN Goto(c, "close") /\ UNCHANGED out
     ELSE Reply(c, Failure(1, 400, TRUE))
  /\ UNCHANGED <<up, down, fs, req>>

\* The deferred conn.Close and connWg.Done.
Close(c) ==
  /\ pc[c] = "close"
  /\ up' = [up EXCEPT ![c] = ClosedByReader(@)]
  /\ \E ch \in ClosedByWriter(down[c], CanRead(up[c])) : down' = [down EXCEPT ![c] = ch]
  /\ Goto(c, "done")
  /\ UNCHANGED <<fs, local>>

Handle(c) ==
  \/ Accept(c) \/ SkipUnknown(c) \/ IgnoreData(c) \/ TakePing(c) \/ TakeGoAway(c)
  \/ TakeHeaders(c) \/ StatPath(c) \/ StatIndex(c) \/ ReadFile(c) \/ Pong(c)
  \/ SendHeaders(c) \/ SendData(c) \/ ReadFails(c) \/ Close(c)

InitServer ==
  /\ pc = [c \in Conns |-> "none"]
  /\ req = [c \in Conns |-> <<>>]
  /\ out = [c \in Conns |-> Failure(0, 0, FALSE)]
=============================================================================
