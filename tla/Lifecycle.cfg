SPECIFICATION Spec
CONSTANTS
  MaxLoads = 3
INVARIANT TypeOK
INVARIANT FreesWhatItOwns
INVARIANT ReaderLive
INVARIANT ContextsFreed
INVARIANT ReaderReleased
