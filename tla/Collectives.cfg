SPECIFICATION AllFairSpec
CONSTANTS
  N = 3
  Programs <- AllSequences
INVARIANTS Exact SeenBeforeReset
PROPERTIES CallsReturn
