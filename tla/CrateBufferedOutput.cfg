SPECIFICATION FairSpec
CONSTANTS
  Wakers = {s}
  Runners = {s, w}
  Saver = s
  Workers = {w}
  NumBuffers = 3
  BufferCap = 2
  FileSize = 5
  MaxOps = 3
  MaxFailures = 1
  None = None
  End = End
CHECK_DEADLOCK FALSE
INVARIANTS
  TypeOK
  NotConcurrent
  FileIsWritten
PROPERTIES
  SaveReturns
