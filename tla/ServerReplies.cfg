SPECIFICATION Spec
CONSTANTS
  MaxStreamID = 7
  Capacity = 99
  NoHdr = NoHdr
  Malformed = Malformed
  Conns = {c1}
  ChunkSize = 2
  Message <- MCMessage
  DotDot <- MCDotDot
  Offers <- MCOffersAll
  Tree <- TheTree
  Trees <- MCTrees
  MaxFrames = 2
  MaxEdits = 1
INVARIANTS TypeOK ResponsesContiguous RepliesInOrder ClosesOnlyWhenTold WholeFiles
PROPERTIES HandlerEnds
