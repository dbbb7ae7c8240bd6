SPECIFICATION FairSpec
CONSTANTS
  w1 = w1  w2 = w2
  Waves = {w1, w2}
  Depth = 4
  W = 16
  FetchCnt = 4
  WfSize = 2
  Providers = {"mlx5", "ionic", "bnxt"}
  Starts = {0, 13}
  Programs <- Mixes
INVARIANTS OnceInOrder QuietMeansDone OwnResult
PROPERTIES CallsReturn
