SPECIFICATION Spec
CONSTANTS
  MaxStreamID = 7
  Capacity = 99
  NoHdr = NoHdr
  Malformed = Malformed
  Conns = {c1, c2}
  NoConn = NoConn
  BadURL = BadURL
  NoStatus = NoStatus
  LongPath = LongPath
  StreamMod = 20
  Scripts <- MCScriptsLong
  Offers <- MCOffersPing
  MaxFrames = 2
INVARIANT OnlyEndStreamCompletes
