SPECIFICATION WholeSpec
CONSTANTS
  Packets = 3
  MaxPieces = 2
  RingSize = 1
INVARIANT TypeOK
INVARIANT PacketsInOrder
INVARIANT NothingLeftBehind
INVARIANT ReadsAlone
INVARIANT SendsAccepted
INVARIANT EndIsComplete
INVARIANT ReadsLiveReader
INVARIANT ReadsOnDemand
PROPERTY ImplementsStreams
PROPERTY ComesNearer
PROPERTY AudioReturns
PROPERTY VideoGoesOn
PROPERTY DeleteReturns
