SPECIFICATION Spec
CONSTANTS
  Offers <- MCOffers
  MaxFrames = 3
INVARIANT TypeOK
PROPERTIES ImplementsChannel ReaderEnds
