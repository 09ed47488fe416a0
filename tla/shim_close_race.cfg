\* Two threads creating eventfds and closing them with eventfd_close, with
\* two context slots and two descriptor numbers, so that numbers are
\* reused while a close is between its close() calls and remove_ctx.
CONSTANTS
  Threads = {t1, t2}
  NFds = 2
  MAX_EVENTFDS = 2
  MaxPairs = 3
  W = 2
  BufCap = 1
  FlagSets <- FlagsNonBlocking
  InitVals = {0}
  WriteVals = {1}
  Ops = {"eventfd", "eventfd_close"}
  MaxOps = 3
SPECIFICATION Spec
CHECK_DEADLOCK FALSE
INVARIANT TableHoldsLiveContexts
