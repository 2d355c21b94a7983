SPECIFICATION FairSpec
CONSTANTS
  BufferSize = 3
  SilenceSize = 3
  Capacity = 7
  MaxBytes = 12
  MaxOffset = 4
INVARIANT TypeOK
INVARIANT CopyInBounds
INVARIANT AudioContinues
PROPERTY Returns
