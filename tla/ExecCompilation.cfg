SPECIFICATION FairSpec
CONSTANTS
  r1 = r1
  r2 = r2
  r3 = r3
  r4 = r4
  a = a
  b = b
  c = c
  x = x
  y = y
  main = main
  w1 = w1
  Threads = {main, w1}
  Main = main
  Roots = {r1, r2, r3, r4}
  Rounds <- BothRounds
  Keys = {a, b, c, x, y}
  InputKeys <- Graph
  Cached = {}
  Failing = {}
  MaxDepth = 1
  Bias = 64
  None = None
INVARIANTS
  TypeOK
  NotReentrant
  NoUseAfterDelete
  CompiledInOrder
  CountersExact
  NoFalseAlarm
  NoSilentLoss
  AbortMeansCycle
PROPERTIES
  RoundCompletes
  CycleIsReported
