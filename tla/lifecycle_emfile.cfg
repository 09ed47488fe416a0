\* Two threads preparing Loopers, rebinding and dropping them, with a
\* context table of two slots and descriptors for three wake fds.
CONSTANTS
  Threads = {t1, t2}
  NFds = 6
  MAX_EVENTFDS = 2
  MaxPairs = 3
  W = 1
  BufCap = 1
  FlagSets <- FlagsLooper
  InitVals = {0}
  WriteVals = {1}
  Ops = {"eventfd", "close"}
  MaxOps = 0
SPECIFICATION LifeSpec
CHECK_DEADLOCK FALSE
INVARIANT LooperCreationBounded
