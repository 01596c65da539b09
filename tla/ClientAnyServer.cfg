SPECIFICATION Spec
CONSTANTS
  MaxStreamID = 5
  Capacity = 99
  NoHdr = NoHdr
  Malformed = Malformed
  Conns = {c1, c2, c3}
  NoConn = NoConn
  BadURL = BadURL
  NoStatus = NoStatus
  LongPath = LongPath
  StreamMod = 20
  Scripts <- MCScripts
  Offers <- MCOffers
  MaxFrames = 2
INVARIANTS TypeOK NoConnectionLeft ReuseConnection SentToHost StreamIdsIncrease BodyOfOwnStream ExitStatus
PROPERTY GivesUp
