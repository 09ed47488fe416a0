\* Two threads creating, reading, writing, closing and eventfd_closing
\* eventfds in both the nonblocking mode Looper uses and the blocking mode;
\* the socket holds one byte, a write of 3 = UINT64_MAX is refused, and the
\* one-slot context table refuses a second eventfd().
CONSTANTS
  Threads = {t1, t2}
  NFds = 4
  MAX_EVENTFDS = 1
  MaxPairs = 2
  W = 2
  BufCap = 1
  FlagSets <- FlagsBoth
  InitVals = {0, 1}
  WriteVals = {1, 2, 3}
  Ops = {"eventfd", "eventfd_close", "close", "read", "write"}
  MaxOps = 5
SPECIFICATION Spec
CHECK_DEADLOCK FALSE
INVARIANT TypeOK
INVARIANT ReadableIffCounter
 
