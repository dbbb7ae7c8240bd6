SPECIFICATION Spec
CONSTANTS
  w1 = w1  w2 = w2  w3 = w3  a = a  b = b
  Waves = {w1, w2}
  Contexts = {a, b}
  CtxOf <- OneContext
  S = 5
  Size = 2
  Programs <- PutThenQuiet
INVARIANTS QuietDrains
