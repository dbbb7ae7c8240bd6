SPECIFICATION BarrierSpec
CONSTANTS
  N = 3
  MaxRounds = 2
  Forms = {"atomic"}
  NumWaves = 2
  Stride = 1
  MaxAtomic = 2
PROPERTIES EveryoneLeaves
