SPECIFICATION Spec
CONSTANTS
  Threads = {t1, t2, t3}
  Identifiers = {i}
  Missing = {}
  Layers = {l1, l2, l3}
  Unreadable = {}
  Unsavable = {i}
  Throwing = {}
  None = None
PROPERTIES
  DroppedIsDestroyed
