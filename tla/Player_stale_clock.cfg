SPECIFICATION Spec
CONSTANTS
  Files = {"film"}
  MaxStreams = 1
  MaxFrames = 2
  FramePeriod = 2
  LibraryLoads = {TRUE}
INVARIANT ClockIsTimePlayed
