----------------------------- MODULE BhttpAnswer -----------------------------
(***************************************************************************)
(* What one request should be answered with, as a function of the request  *)
(* and of a tree that does not change: the reference the step-by-step      *)
(* handler of BhttpServer is compared with.                                *)
(***************************************************************************)
EXTENDS BhttpServer

\* The status, the body and whether the body is sent.
Answer(tree, hdr) ==
  LET named  == Resolve(hdr.path)
      isDir  == Stat(tree, named) = "dir"
      target == IF isDir THEN Index(named) ELSE named
      kind   == Stat(tree, target)
      error(status) == [status |-> status, body |-> Message, sent |-> TRUE]
  IN IF HeadersStatus(hdr) # 200 THEN error(HeadersStatus(hdr))
     ELSE IF kind = "file" THEN [status |-> 200, body |-> tree[target].data,
                                 sent |-> hdr.method = "GET" /\ tree[target].data # <<>>]
     ELSE IF kind = "missing" \/ (isDir /\ ~IsRegular(kind)) THEN error(404)
     ELSE error(500)

\* The DATA frames of a body: full chunks, then the rest with END_STREAM.
Chunks(stream, body, size) ==
  LET n == (Len(body) + size - 1) \div size
  IN [i \in 1..n |-> Frame("DATA", IF i = n THEN {FlagEndStream} ELSE {}, stream, NoHdr,
        SubSeq(body, (i - 1) * size + 1, IF i = n THEN Len(body) ELSE i * size))]

\* The frames of a response.
Response(stream, a) ==
  <<Frame("HEADERS", IF a.sent THEN {FlagEndHeaders} ELSE {FlagEndHeaders, FlagEndStream},
          stream, [status |-> a.status, length |-> Len(a.body)], <<>>)>>
  \o (IF a.sent
      THEN Chunks(stream, a.body, IF a.status = 200 THEN ChunkSize ELSE Len(a.body))
      ELSE <<>>)

\* The answer to a byte stream that ends inside a frame.
Truncated == Response(1, [status |-> 400, body |-> Message, sent |-> TRUE])

\* What the server owes for one frame.
Replies(tree, f) ==
  CASE f.type = "HEADERS" -> Response(f.stream, Answer(tree, f.hdr))
    [] f.type = "PING"    -> <<Frame("PING", {FlagAck}, f.stream, f.hdr, f.data)>>
    [] OTHER              -> <<>>
=============================================================================
