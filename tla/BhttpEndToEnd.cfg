SPECIFICATION Spec
CONSTANTS
  MaxStreamID = 7
  Capacity = 2
  NoHdr = NoHdr
  Malformed = Malformed
  Conns = {c1, c2, c3}
  ChunkSize = 2
  Message <- MCMessage
  DotDot <- MCDotDot
  NoConn = NoConn
  BadURL = BadURL
  NoStatus = NoStatus
  LongPath = LongPath
  StreamMod = 20
  Scripts <- MCScripts
  Tree <- MCTree
  MaxBreaks = 2
INVARIANT QuietBetweenRequests
PROPERTIES HandlersEnd ImplementsService
