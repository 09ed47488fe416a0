\* A blocking eventfd whose socket buffer is full: eventfd_write waits for
\* room while holding the context lock.
CONSTANTS
  Threads = {t1, t2}
  NFds = 2
  MAX_EVENTFDS = 1
  MaxPairs = 1
  W = 2
  BufCap = 1
  FlagSets <- FlagsBlocking
  InitVals = {0, 1}
  WriteVals = {1, 2}
  Ops = {"eventfd", "read", "write"}
  MaxOps = 5
SPECIFICATION Spec
CHECK_DEADLOCK FALSE
PROPERTY WriterReturns
