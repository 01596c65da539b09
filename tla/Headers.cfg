SPECIFICATION Spec
CONSTANTS
  Base = 4
  Table <- MCTable
  Lower <- MCLower
  Blank <- MCBlank
  Blocks <- MCBlocks
  Payloads <- MCPayloads
  RowSize = 4
  PreviewSize = 8
  Stream = 66051
INVARIANTS TypeOK EntriesPartition RoundTrip SetSurvives LinesTile
PROPERTY DecoderEnds
