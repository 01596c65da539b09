SPECIFICATION Spec
CONSTANTS
  k1 = k1
  k2 = k2
  Text = Text
  Clients = {k1, k2}
  Capacity = 2
  Malformed = Malformed
  Huge = Huge
  Sigpipe = TRUE
  MinInt <- MCMinInt
  MaxInt = 3
  NoClient = NoClient
  NoQuery = NoQuery
  NaN = NaN
  Prefixed <- MCPrefixed
  Unsafe <- MCUnsafe
  Files <- MCFiles
  Here = "here"
  BadEndpoint = BadEndpoint
  LongPath = LongPath
  Setups <- MCSetups
  Offers <- MCOffers
  Replies <- MCReplies
  MaxFrames = 2
INVARIANTS TypeOK AnswersInOrder PrintsAnswers PrintsWhatCame ExitTells HoldsOne DiesOnlyOfHaste
PROPERTY BEnds
