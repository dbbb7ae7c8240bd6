SPECIFICATION AllFairSpec
CONSTANTS
  N = 3
  Programs <- LongReduces
PROPERTIES CallsReturn
