\* The message queue and the wake protocol on Linux (eventfd), two sending
\* threads, no descriptors registered.
CONSTANTS
  Clients = {c1, c2}
  FdNums = {}
  Files = {}
  SharedFiles = {}
  NoFile = NoFile
  Idents = {0}
  EventMasks <- MasksInput
  AllowNonCallbacks = FALSE
  Backend = "epoll"
  WakeImpl = "eventfd"
  CallbackOutcomes = {"keep"}
  PollTimeouts <- TimeoutsAll
  ClientOps = {"sendMessage", "removeMessages", "wake"}
  Handlers = {h1, h2}
  Whats = {w1}
  Delays = {0, 1}
  MaxSeq = 2
  MaxMsgs = 3
  MaxTime = 2
SPECIFICATION Spec
CHECK_DEADLOCK FALSE
INVARIANTS
  WakeupNotMissed
PROPERTIES
  MessageQueueRefined
