SPECIFICATION FairSpec
CONSTANTS
  NumFrames = 4
  Packets = 4
  FramesPerPacket = {0, 1, 2}
  ForeignUnlock = {"refused"}
INVARIANT NoLostWakeup
PROPERTY Refills
PROPERTY DeleteFinishes
