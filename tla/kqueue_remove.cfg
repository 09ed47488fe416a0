\* kqueue backend (macOS port): removeFd and the callback unregistration
\* leave knotes behind.
CONSTANTS
  Clients = {c1}
  FdNums = {n1}
  Files = {fa, fb, fc}
  SharedFiles = {fa}
  NoFile = NoFile
  Idents = {0}
  EventMasks <- MasksInputOutput
  AllowNonCallbacks = TRUE
  Backend = "kqueue"
  WakeImpl = "eventfd"
  CallbackOutcomes = {"keep", "remove", "closeRemove"}
  PollTimeouts <- TimeoutsInfinite
  ClientOps = {"addFd", "removeFd", "repoll"}
  Handlers = {h1}
  Whats = {w1}
  Delays = {0}
  MaxSeq = 4
  MaxMsgs = 0
  MaxTime = 0
SPECIFICATION Spec
CHECK_DEADLOCK FALSE
INVARIANT KernelCoherent
