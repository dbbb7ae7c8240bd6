SPECIFICATION BarrierSpec
CONSTANTS
  N = 5
  MaxRounds = 3
  Forms = {"ipc", "thread", "wg", "atomic"}
  NumWaves = 2
  Stride = 1
  MaxAtomic = 1
INVARIANTS FlagsFresh
PROPERTIES ImplementsBarrier EveryoneLeaves
