SPECIFICATION Spec
CONSTANTS
  w1 = w1  w2 = w2
  Waves = {w1}
  Depth = 4
  W = 16
  FetchCnt = 4
  WfSize = 2
  Providers = {"bnxt"}
  Starts = {0}
  Programs <- Fill
INVARIANTS QuietMeansDone
