SPECIFICATION FairSpec
CONSTANTS
  w1 = w1  w2 = w2
  Waves = {w1, w2}
  Handles = {h1}
  HandleOf <- OneHandle
  CallsOf <- OnlyGets
  World = world
  WfSize = 1
  QSize = 2
  MaxCalls <- TwoAndOne
INVARIANTS OwnCompletion
