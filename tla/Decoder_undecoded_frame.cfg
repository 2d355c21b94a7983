SPECIFICATION Spec
CONSTANTS
  NumFrames = 3
  Packets = 3
  FramesPerPacket = {0, 1, 2}
  ForeignUnlock = {"releases", "refused"}
INVARIANT ReturnsDecodedFrame
