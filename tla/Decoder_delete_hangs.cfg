SPECIFICATION FairSpec
CONSTANTS
  NumFrames = 3
  Packets = 4
  FramesPerPacket = {0, 1, 2}
  ForeignUnlock = {"releases", "refused"}
PROPERTY DeleteFinishes
