SPECIFICATION PartsSpec
CONSTANTS
  p1 = p1  p2 = p2  p3 = p3  p4 = p4  t1 = t1  t2 = t2  t3 = t3  a = a  b = b
  w1 = w1  w2 = w2  w3 = w3
  Procs = {p1, p2, p3, p4}
  Channels = 3
  MaxLocks = 2
  Length = 2
  PEs = {p1, p2}
  Threads = {t1, t2, t3}
  Ctxs = {a, b}
  CtxOf <- SharedCtx
  Programs <- StreamsAndCollectives
  MaxLength = 3
  Window = 2
  Waves = {w1, w2, w3}
  Calls = {"PUT", "NBI", "G"}
  NumBuffers = 2
  QSize = 2
  None = none
  MaxCalls = 3
INVARIANTS MutualExclusion Conserved
INVARIANTS OutstandingCounts OwnCallOver QuietCompletes EveryoneEntered
INVARIANTS OnePlace
PROPERTIES ImplementsFifoLock CallsReturn AllCompleted
PROPERTIES ActsAsPool PoolServes NobodyStopped
