SPECIFICATION Spec
CONSTANTS
  MaxLoads = 2
INVARIANT AllReadersReleased
