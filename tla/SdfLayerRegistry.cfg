SPECIFICATION FairSpec
CONSTANTS
  Threads = {t1, t2}
  Identifiers = {i, j, m}
  Missing = {m}
  Layers = {l1, l2, l3}
  Unreadable = {i}
  Unsavable = {j}
  Throwing = {j}
  None = None
INVARIANTS
  TypeOK
  OneLayer
  NoDanglingEntry
  OnlyInitialized
  OthersAreUnblocked
PROPERTIES
  CallsReturn
