SPECIFICATION Spec
CONSTANTS
  Files = {"film", "clip"}
  MaxStreams = 2
  MaxFrames = 3
  FramePeriod = 2
  LibraryLoads = {TRUE}
INVARIANT TypeOK
INVARIANT ReadsOpenChannel
INVARIANT SizesFit
INVARIANT RenderHasTexture
INVARIANT NoStreamLeak
PROPERTY NeverAhead
INVARIANT TimeKept
PROPERTY PausedStandsStill
