\* Two threads reading a blocking eventfd: the blocking path drops the
\* lock between the socket read and taking the counter.
CONSTANTS
  Threads = {t1, t2}
  NFds = 2
  MAX_EVENTFDS = 1
  MaxPairs = 1
  W = 2
  BufCap = 3
  FlagSets <- FlagsBlocking
  InitVals = {0, 1}
  WriteVals = {1, 2}
  Ops = {"eventfd", "read", "write"}
  MaxOps = 5
SPECIFICATION Spec
CHECK_DEADLOCK FALSE
INVARIANT ReadValuePositive
