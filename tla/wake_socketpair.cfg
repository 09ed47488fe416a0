\* The message queue on macOS: the wake descriptor is the macport eventfd()
\* socketpair shim.
CONSTANTS
  Clients = {c1, c2}
  FdNums = {}
  Files = {}
  SharedFiles = {}
  NoFile = NoFile
  Idents = {0}
  EventMasks <- MasksInput
  AllowNonCallbacks = FALSE
  Backend = "kqueue"
  WakeImpl = "socketpair"
  CallbackOutcomes = {"keep"}
  PollTimeouts <- TimeoutsAll
  ClientOps = {"sendMessage", "removeMessages", "wake"}
  Handlers = {h1, h2}
  Whats = {w1}
  Delays = {0, 1}
  MaxSeq = 2
  MaxMsgs = 3
  MaxTime = 2
SPECIFICATION Spec
CHECK_DEADLOCK FALSE
INVARIANT WakeupNotMissed
