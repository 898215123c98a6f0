SPECIFICATION FairSpec
CONSTANTS
  t1 = t1
  t2 = t2
  t3 = t3
  a = a
  b = b
  Tasks = {t1, t2, t3}
  Keys = {a, b}
  OutputKeys <- CrossedKeys
  Cached = {}
  Failing = {b}
  NotifiedTag = NotifiedTag
  NoNode = NoNode
INVARIANTS
  TypeOK
  CountIsExact
  NotReentrant
  NoLostWakeup
  OutputsReady
  ClaimedOnce
  NoDanglingTask
PROPERTIES
  EveryTaskCompletes
  KeepsPromise
