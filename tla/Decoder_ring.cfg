SPECIFICATION Spec
CONSTANTS
  NumFrames = 4
  Packets = 5
  FramesPerPacket = {0, 1, 2}
  ForeignUnlock = {"releases", "refused"}
INVARIANT TypeOK
INVARIANT FramesInOrder
PROPERTY ImplementsVideo
INVARIANT NoUseAfterFree
PROPERTY HeldFrameStable
