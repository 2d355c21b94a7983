SPECIFICATION FairSpec
CONSTANTS
  Files = {"film"}
  MaxStreams = 1
  MaxFrames = 2
  FramePeriod = 2
  LibraryLoads = {TRUE, FALSE}
PROPERTY Finishes
PROPERTY StartsOver
