\* epoll with an identifier registration: pollOnce returns an identifier
\* response from an inner poll that also decided a result.
CONSTANTS
  Clients = {c1}
  FdNums = {n1}
  Files = {fa, fb, fc}
  SharedFiles = {fa}
  NoFile = NoFile
  Idents = {0}
  EventMasks <- MasksInputOutput
  AllowNonCallbacks = TRUE
  Backend = "epoll"
  WakeImpl = "eventfd"
  CallbackOutcomes = {"keep"}
  PollTimeouts <- TimeoutsInfinite
  ClientOps = {"addFd"}
  Handlers = {h1}
  Whats = {w1}
  Delays = {0}
  MaxSeq = 4
  MaxMsgs = 0
  MaxTime = 0
SPECIFICATION Spec
CHECK_DEADLOCK FALSE
PROPERTY InnerResultReturned
