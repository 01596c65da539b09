SPECIFICATION Spec
CONSTANTS
  MaxStreamID = 7
  Capacity = 99
  NoHdr = NoHdr
  Malformed = Malformed
  Conns = {c1}
  ChunkSize = 2
  Message <- MCMessage
  DotDot <- MCDotDot
  Offers <- MCOffersUnreadable
  Tree <- TheTree
  Trees <- MCOneTree
  MaxFrames = 1
  MaxEdits = 0
INVARIANT UnreadableIs404
