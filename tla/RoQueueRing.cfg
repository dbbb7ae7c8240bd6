SPECIFICATION FairSpec
CONSTANTS
  w1 = w1  w2 = w2
  Waves = {w1, w2}
  Handles = {h1}
  HandleOf <- OneHandle
  CallsOf <- GetsAndPuts
  World = world
  WfSize = 2
  QSize = 3
  MaxCalls <- TwoAndOne
INVARIANTS NoOverrun FreshSlot InOrder CallersFlag
PROPERTIES EveryReservationInserted
