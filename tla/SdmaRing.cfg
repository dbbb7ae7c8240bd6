SPECIFICATION FairSpec
CONSTANTS
  w1 = w1  w2 = w2  w3 = w3  a = a  b = b
  Waves = {w1, w2, w3}
  Contexts = {a, b}
  CtxOf <- OwnContexts
  S = 5
  Size = 2
  Programs <- LapsAndRace
INVARIANTS NoOverrun Exposed InOrder
PROPERTIES CallsReturn
