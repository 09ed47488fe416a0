------------------------------- MODULE Looper -------------------------------
(***************************************************************************)
(* The per-thread event loop of libutils/Looper.cpp: the request table     *)
(* (mRequests, mSequenceNumberByFd), the kernel readiness set it keeps in  *)
(* step with it (epoll or kqueue), the wake descriptor, the message queue  *)
(* and the looper thread running pollOnce/pollInner, with any number of    *)
(* other threads calling addFd, removeFd, repoll, sendMessage*,            *)
(* removeMessages and wake.                                                *)
(*                                                                         *)
(* Every region the code runs under mLock is one atomic step; the looper   *)
(* thread's steps are split exactly where it drops the lock: around the    *)
(* kernel wait, around each handleMessage, and around each fd callback.    *)
(***************************************************************************)
EXTENDS Integers, Sequences, FiniteSets, SequencesExt, Functions, TLC

CONSTANTS
  Clients,           \* threads other than the looper thread
  FdNums,            \* descriptor numbers the process may use
  Files,             \* open files the process may create, each opened at most once
  SharedFiles,       \* files with another reference (dup, fork) that outlives close()
  NoFile,            \* marks a descriptor number that is not open
  Idents,            \* identifiers passed to addFd
  EventMasks,        \* event masks passed to addFd
  AllowNonCallbacks, \* PREPARE_ALLOW_NON_CALLBACKS given to the constructor
  Backend,           \* "epoll" or "kqueue" (HAVE_EPOLL / HAVE_KQUEUE)
  WakeImpl,          \* "eventfd" (Linux) or "socketpair" (macport eventfd.c)
  CallbackOutcomes,  \* what an fd callback does: "keep", "remove", "closeRemove"
  PollTimeouts,      \* timeoutMillis values the looper thread passes to pollOnce
  ClientOps,         \* the public operations the other threads call
  Handlers,          \* message handlers
  Whats,             \* Message.what values
  Delays,            \* uptimeDelay values of sendMessageDelayed (0 = sendMessage)
  MaxSeq,            \* bound on allocated sequence numbers
  MaxMsgs,           \* bound on messages sent
  MaxTime            \* bound on the monotonic clock, in milliseconds

Filters == {"IN", "OUT"}

ASSUME /\ Backend \in {"epoll", "kqueue"}
       /\ WakeImpl \in {"eventfd", "socketpair"}
       /\ SharedFiles \subseteq Files /\ NoFile \notin Files
       /\ Idents \subseteq Nat
       /\ EventMasks \subseteq (SUBSET Filters \ {{}})
       /\ CallbackOutcomes \subseteq {"keep", "remove", "closeRemove"}
       /\ PollTimeouts \subseteq Int /\ Delays \subseteq Nat
       /\ ClientOps \subseteq {"addFd", "removeFd", "repoll", "sendMessage",
                               "removeMessages", "wake"}
       /\ MaxSeq \in Nat /\ MaxMsgs \in Nat /\ MaxTime \in Nat

\* Poll result codes (Looper.h) and the sequence number of the wake fd.
POLL_WAKE == -1
POLL_CALLBACK == -2
POLL_TIMEOUT == -3
POLL_ERROR == -4
WAKE_EVENT_FD_SEQ == 1

\* LLONG_MAX: an uptime later than any the model reaches.
LLONG_MAX == MaxTime + (IF Delays = {} THEN 0 ELSE Max(Delays)) + 1

VARIABLES
  fdTable,        \* descriptor number -> open file, or NoFile
  opened,         \* files opened so far
  kernel,         \* kernel interest set: [fd, file, filter, seq] per filter
  wakeReadable,   \* the wake descriptor mWakeEventFd is readable
  requests,       \* mRequests: seq -> Request
  seqByFd,        \* mSequenceNumberByFd: fd -> seq
  nextSeq,        \* mNextRequestSeq
  rebuildRequired,\* mEpollRebuildRequired
  queue,          \* mMessageEnvelopes
  msgCount,       \* messages sent so far (gives each envelope an id)
  sendingMessage, \* mSendingMessage
  nextMessageUptime, \* mNextMessageUptime
  now,            \* systemTime(SYSTEM_TIME_MONOTONIC), in ms
  lpc,            \* where the looper thread is
  waitDeadline,   \* the instant the current kernel wait times out
  items,          \* the fd event items the kernel wait returned
  itemsWake,      \* ... and whether the wake fd was among them
  waitErr,        \* errno of a failed wait, or "none"
  responses,      \* mResponses
  responseIndex,  \* mResponseIndex
  cbIndex,        \* the response the callback loop of pollInner is at
  result,         \* the local result of pollOnce/pollInner
  cpc             \* where each other thread is

fdVars == <<fdTable, opened>>
regVars == <<kernel, wakeReadable, requests, seqByFd, nextSeq, rebuildRequired>>
msgVars == <<queue, msgCount, sendingMessage, nextMessageUptime, now>>
loopVars == <<lpc, waitDeadline, items, itemsWake, waitErr, responses,
              responseIndex, cbIndex, result>>
vars == <<fdVars, regVars, msgVars, loopVars, cpc>>

-----------------------------------------------------------------------------
(* Types *)

SeqNums == 2..MaxSeq
KernelEntry == [fd : FdNums, file : Files, filter : Filters, seq : SeqNums]
Item == [seq : SeqNums, fd : FdNums, file : Files, events : SUBSET Filters]
CallbackRequest == [fd : FdNums, file : Files, events : EventMasks,
                    ident : {POLL_CALLBACK}, callback : {TRUE}]
IdentRequest == [fd : FdNums, file : Files, events : EventMasks,
                 ident : Idents, callback : {FALSE}]
Request == CallbackRequest \cup IdentRequest
Response == [seq : SeqNums, req : Request, from : Files, events : SUBSET Filters]
Message == [id : 1..MaxMsgs, uptime : 0..(LLONG_MAX - 1),
            handler : Handlers, what : Whats]
LoopPcs == {"idle", "wait", "awake", "handler", "callbacks", "unregister",
            "resume"}

\* mPolling is true exactly while the looper thread is in the kernel wait.
polling == lpc = "wait"

-----------------------------------------------------------------------------
(* The kernel: descriptors, files and the readiness set. A file keeps its  *)
(* epoll entries after close() while another reference to it lives; a      *)
(* kqueue drops the knotes of a descriptor when it is closed.              *)

FileAlive(f) == f \in Range(fdTable) \/ f \in SharedFiles

Entries(n, f, mask, s) ==
  {[fd |-> n, file |-> f, filter |-> x, seq |-> s] : x \in mask}

DroppedOnClose(n) ==
  IF Backend = "epoll"
  THEN {e \in kernel : e.file = fdTable[n] /\ fdTable[n] \notin SharedFiles}
  ELSE {e \in kernel : e.fd = n}

CloseFd(n) ==
  /\ fdTable' = [fdTable EXCEPT ![n] = NoFile]
  /\ kernel' = kernel \ DroppedOnClose(n)

\* epoll_ctl(EPOLL_CTL_ADD / MOD / DEL) on descriptor n: [err, k] with k the
\* resulting interest set.
EpollAdd(n, mask, s) ==
  LET f == fdTable[n] IN
  CASE f = NoFile -> [err |-> "EBADF", k |-> kernel]
    [] \E e \in kernel : e.fd = n /\ e.file = f -> [err |-> "EEXIST", k |-> kernel]
    [] OTHER -> [err |-> "OK", k |-> kernel \cup Entries(n, f, mask, s)]

EpollMod(n, mask, s) ==
  LET f == fdTable[n]
      old == {e \in kernel : e.fd = n /\ e.file = f}
  IN CASE f = NoFile -> [err |-> "EBADF", k |-> kernel]
       [] old = {} -> [err |-> "ENOENT", k |-> kernel]
       [] OTHER -> [err |-> "OK", k |-> (kernel \ old) \cup Entries(n, f, mask, s)]

EpollDel(n) ==
  LET f == fdTable[n]
      old == {e \in kernel : e.fd = n /\ e.file = f}
  IN CASE f = NoFile -> [err |-> "EBADF", k |-> kernel]
       [] old = {} -> [err |-> "ENOENT", k |-> kernel]
       [] OTHER -> [err |-> "OK", k |-> kernel \ old]

\* kevent() with one EV_ADD|EV_ENABLE change per filter of the mask
\* (createKqueueEvents): adds the knote or retags it with the new seq; the
\* knotes of filters outside the mask are left as they are.
KqueueAdd(n, mask, s) ==
  LET f == fdTable[n] IN
  IF f = NoFile THEN [err |-> "EBADF", k |-> kernel]
  ELSE [err |-> "OK",
        k |-> {e \in kernel : ~(e.fd = n /\ e.filter \in mask)}
                \cup Entries(n, f, mask, s)]

\* The wake descriptor after wake() writes to it. eventfd: the counter grows
\* and the descriptor is readable. macport eventfd(): mWakeEventFd is
\* sockets[0] of a socketpair, and write() on sockets[0] queues the bytes
\* for sockets[1]; the registered descriptor does not become readable.
WakeWritten == IF WakeImpl = "eventfd" THEN TRUE ELSE wakeReadable

\* Looper::wake(): EAGAIN (counter or socket buffer full) is ignored.
Wake == wakeReadable' = WakeWritten

\* rebuildEpollLocked(): a fresh set holding the wake fd and one entry per
\* request, on whatever file its descriptor now refers to; failed adds
\* (descriptor closed) are logged and skipped.
Rebuilt ==
  UNION {Entries(requests[s].fd, fdTable[requests[s].fd], requests[s].events, s) :
           s \in {t \in DOMAIN requests : fdTable[requests[t].fd] # NoFile}}

\* Mutant: scheduling a rebuild without waking the looper.
ScheduleRebuildNoWake ==
  IF rebuildRequired THEN UNCHANGED <<rebuildRequired, wakeReadable>>
  ELSE rebuildRequired' = TRUE /\ UNCHANGED wakeReadable

\* scheduleEpollRebuildLocked()
ScheduleRebuild ==
  IF rebuildRequired THEN UNCHANGED <<rebuildRequired, wakeReadable>>
  ELSE rebuildRequired' = TRUE /\ Wake

-----------------------------------------------------------------------------
(* The request table: addFd, removeFd, repoll, removeSequenceNumberLocked *)

\* Mutant: a callback given to addFd keeps the caller's ident.
RequestIdentUnforced(ident, hasCallback) == ident

\* addFd: a request with a callback always carries POLL_CALLBACK.
RequestIdent(ident, hasCallback) ==
  IF hasCallback THEN POLL_CALLBACK ELSE ident

\* addFd rejects a request without a callback unless the looper allows them
\* and the ident is non-negative (returns -1, nothing changes).
Accepted(ident, hasCallback) ==
  hasCallback \/ (AllowNonCallbacks /\ ident >= 0)

\* The next sequence number; WAKE_EVENT_FD_SEQ is skipped when reached.
AllocSeq ==
  IF nextSeq = WAKE_EVENT_FD_SEQ THEN nextSeq + 1 ELSE nextSeq

\* First registration of descriptor n: EPOLL_CTL_ADD, or kevent EV_ADD.
Register(n, mask, s) ==
  LET r == IF Backend = "epoll" THEN EpollAdd(n, mask, s) ELSE KqueueAdd(n, mask, s)
  IN [err |-> r.err, k |-> r.k, rebuild |-> FALSE]

\* Registration of a descriptor that already has a request: EPOLL_CTL_MOD,
\* falling back on EPOLL_CTL_ADD plus a rebuild when MOD finds no entry (the
\* number was closed and reused); kevent EV_ADD on kqueue.
Reregister(n, mask, s) ==
  IF Backend = "kqueue" THEN [err |-> KqueueAdd(n, mask, s).err,
                               k |-> KqueueAdd(n, mask, s).k, rebuild |-> FALSE]
  ELSE LET m == EpollMod(n, mask, s)
           a == EpollAdd(n, mask, s)
       IN CASE m.err = "OK" -> [err |-> "OK", k |-> m.k, rebuild |-> FALSE]
            [] m.err = "ENOENT" /\ a.err = "OK" -> [err |-> "OK", k |-> a.k, rebuild |-> TRUE]
            [] m.err = "ENOENT" -> [err |-> a.err, k |-> kernel, rebuild |-> FALSE]
            [] OTHER -> [err |-> m.err, k |-> kernel, rebuild |-> FALSE]

\* Mutant: the request of the old epoch is left in mRequests.
ReplaceRequestKeepOld(n, s, req) ==
  /\ requests' = requests @@ (s :> req)
  /\ seqByFd' = [seqByFd EXCEPT ![n] = s]

\* addFd on a descriptor with a request: the old epoch's request is erased
\* and the fd's index entry now names the new sequence number.
ReplaceRequest(n, s, req) ==
  /\ requests' = Restrict(requests, DOMAIN requests \ {seqByFd[n]}) @@ (s :> req)
  /\ seqByFd' = [seqByFd EXCEPT ![n] = s]

AddFd(c, n, ident, hasCallback, mask) ==
  LET s == AllocSeq
      req == [fd |-> n, file |-> fdTable[n], events |-> mask,
              ident |-> RequestIdent(ident, hasCallback), callback |-> hasCallback]
      known == n \in DOMAIN seqByFd
      r == IF known THEN Reregister(n, mask, s) ELSE Register(n, mask, s)
  IN /\ "addFd" \in ClientOps /\ cpc[c] = "idle"
     /\ Accepted(ident, hasCallback)
     /\ s <= MaxSeq
     /\ nextSeq' = s + 1
     /\ IF r.err # "OK"
        THEN UNCHANGED <<kernel, requests, seqByFd, rebuildRequired, wakeReadable>>
        ELSE /\ kernel' = r.k
             /\ IF known THEN ReplaceRequest(n, s, req)
                ELSE /\ requests' = requests @@ (s :> req)
                     /\ seqByFd' = seqByFd @@ (n :> s)
             /\ IF r.rebuild THEN ScheduleRebuild
                ELSE UNCHANGED <<rebuildRequired, wakeReadable>>
     /\ UNCHANGED <<fdVars, msgVars, loopVars, cpc>>

\* Mutant: removal does not touch the kernel set.
UnregisterSkipped(n) == [err |-> "OK", k |-> kernel]

\* The kernel half of removeSequenceNumberLocked. epoll: EPOLL_CTL_DEL on the
\* descriptor. kqueue: createKqueueEventsForDelete is passed mKqueueFd rather
\* than the request's fd, so the EV_DELETE changes name knotes of the kqueue
\* descriptor itself, which it never holds: ENOENT, and the set is unchanged.
Unregister(n) ==
  IF Backend = "epoll" THEN EpollDel(n) ELSE [err |-> "ENOENT", k |-> kernel]

\* removeSequenceNumberLocked(seq): both maps are erased before the kernel
\* is touched; EBADF/ENOENT (and any other error) schedule a rebuild.
RemoveSequenceNumber(s) ==
  IF s \notin DOMAIN requests
  THEN UNCHANGED <<requests, seqByFd, kernel, rebuildRequired, wakeReadable>>
  ELSE LET n == requests[s].fd
           r == Unregister(n)
       IN /\ requests' = Restrict(requests, DOMAIN requests \ {s})
          /\ seqByFd' = Restrict(seqByFd, DOMAIN seqByFd \ {n})
          /\ kernel' = r.k
          /\ IF r.err = "OK" THEN UNCHANGED <<rebuildRequired, wakeReadable>>
             ELSE ScheduleRebuild

\* removeFd(fd): returns 0 with no effect when fd has no request.
RemoveFd(c, n) ==
  /\ "removeFd" \in ClientOps /\ cpc[c] = "idle"
  /\ n \in DOMAIN seqByFd
  /\ RemoveSequenceNumber(seqByFd[n])
  /\ UNCHANGED <<fdVars, nextSeq, msgVars, loopVars, cpc>>

\* repoll(fd): re-applies the request's mask with its sequence number;
\* returns 0 with no effect when there is no request or the kernel refuses.
Repoll(c, n) ==
  /\ "repoll" \in ClientOps /\ cpc[c] = "idle"
  /\ n \in DOMAIN seqByFd /\ seqByFd[n] \in DOMAIN requests
  /\ LET s == seqByFd[n]
         r == IF Backend = "epoll" THEN EpollMod(n, requests[s].events, s)
              ELSE KqueueAdd(n, requests[s].events, s)
     IN kernel' = r.k
  /\ UNCHANGED <<fdVars, wakeReadable, requests, seqByFd, nextSeq,
                 rebuildRequired, msgVars, loopVars, cpc>>

\* Looper::wake() called by another thread.
WakeCall(c) ==
  /\ "wake" \in ClientOps /\ cpc[c] = "idle"
  /\ Wake
  /\ UNCHANGED <<fdVars, kernel, requests, seqByFd, nextSeq, rebuildRequired,
                 msgVars, loopVars, cpc>>

\* The process opens a file on a free descriptor number (the lowest free
\* number in POSIX; any free one here).
OpenFd(n, f) ==
  /\ fdTable[n] = NoFile /\ f \notin opened
  /\ fdTable' = [fdTable EXCEPT ![n] = f]
  /\ opened' = opened \cup {f}
  /\ UNCHANGED <<regVars, msgVars, loopVars, cpc>>

\* The process closes a descriptor that has no request (callbacks close
\* their own descriptor in InvokeCallback).
CloseFdAction(n) ==
  /\ fdTable[n] # NoFile /\ n \notin DOMAIN seqByFd
  /\ CloseFd(n)
  /\ UNCHANGED <<opened, wakeReadable, requests, seqByFd, nextSeq,
                 rebuildRequired, msgVars, loopVars, cpc>>

-----------------------------------------------------------------------------
(* The message queue: sendMessageAtTime, removeMessages                    *)

\* Mutant: a new envelope goes before the envelopes with an equal uptime.
InsertPosBeforeEqual(q, uptime) ==
  LET later == {i \in 1..Len(q) : q[i].uptime >= uptime}
  IN IF later = {} THEN Len(q) + 1 ELSE Min(later)

\* sendMessageAtTime: the scan stops at the first envelope whose uptime is
\* strictly greater, so equal uptimes keep their sending order.
InsertPos(q, uptime) ==
  LET later == {i \in 1..Len(q) : q[i].uptime > uptime}
  IN IF later = {} THEN Len(q) + 1 ELSE Min(later)

\* Mutant: the sender wakes the looper only when the queue was empty.
WakesLooperIfEmpty(pos) == ~sendingMessage /\ pos = 1 /\ queue = <<>>

\* sendMessageAtTime wakes the looper after releasing the lock when the new
\* envelope is at the head, unless the looper is delivering messages.
WakesLooper(pos) == ~sendingMessage /\ pos = 1

\* sendMessage / sendMessageDelayed / sendMessageAtTime, the locked part.
SendMessage(c, delay, h, w) ==
  LET uptime == now + delay
      pos == InsertPos(queue, uptime)
  IN /\ "sendMessage" \in ClientOps /\ cpc[c] = "idle"
     /\ msgCount < MaxMsgs
     /\ queue' = InsertAt(queue, pos, [id |-> msgCount + 1, uptime |-> uptime,
                                       handler |-> h, what |-> w])
     /\ msgCount' = msgCount + 1
     /\ cpc' = [cpc EXCEPT ![c] = IF WakesLooper(pos) THEN "wake" ELSE "idle"]
     /\ UNCHANGED <<fdVars, regVars, sendingMessage, nextMessageUptime, now, loopVars>>

\* sendMessageAtTime, the wake() after the lock is released.
SendMessageWake(c) ==
  /\ cpc[c] = "wake"
  /\ Wake
  /\ cpc' = [cpc EXCEPT ![c] = "idle"]
  /\ UNCHANGED <<fdVars, kernel, requests, seqByFd, nextSeq, rebuildRequired,
                 msgVars, loopVars>>

\* removeMessages(handler) and removeMessages(handler, what).
RemoveMessages(c, h, w) ==
  /\ "removeMessages" \in ClientOps /\ cpc[c] = "idle"
  /\ queue' = SelectSeq(queue, LAMBDA m : ~(m.handler = h /\ (w = "any" \/ m.what = w)))
  /\ UNCHANGED <<fdVars, regVars, msgCount, sendingMessage, nextMessageUptime,
                 now, loopVars, cpc>>

\* The monotonic clock advances.
Tick ==
  /\ now < MaxTime
  /\ now' = now + 1
  /\ UNCHANGED <<fdVars, regVars, queue, msgCount, sendingMessage,
                 nextMessageUptime, loopVars, cpc>>

-----------------------------------------------------------------------------
(* The looper thread: pollOnce and pollInner                               *)

\* Identifier responses of the last pollInner not yet returned.
PendingIdents ==
  {j \in (responseIndex + 1)..Len(responses) : responses[j].req.ident >= 0}

\* pollOnce returns the next identifier response with its fd, events and
\* data; a result pollInner produced in the same call is dropped.
ReturnIdentResponse ==
  /\ lpc \in {"idle", "resume"}
  /\ PendingIdents # {}
  /\ responseIndex' = Min(PendingIdents)
  /\ lpc' = "idle"
  /\ result' = 0
  /\ UNCHANGED <<fdVars, regVars, msgVars, waitDeadline, items, itemsWake,
                 waitErr, responses, cbIndex, cpc>>

\* pollOnce returns the result of pollInner once no identifier is pending.
ReturnResult ==
  /\ lpc = "resume"
  /\ PendingIdents = {}
  /\ responseIndex' = Len(responses)
  /\ lpc' = "idle"
  /\ result' = 0
  /\ UNCHANGED <<fdVars, regVars, msgVars, waitDeadline, items, itemsWake,
                 waitErr, responses, cbIndex, cpc>>

\* toMillisecondTimeoutDelay(now, uptime) (Timers.cpp).
MillisUntil(uptime) == IF uptime <= now THEN 0 ELSE uptime - now

\* pollInner: the timeout is shortened to the next message's uptime.
AdjustedTimeout(t) ==
  IF t # 0 /\ nextMessageUptime # LLONG_MAX
     /\ (t < 0 \/ MillisUntil(nextMessageUptime) < t)
  THEN MillisUntil(nextMessageUptime) ELSE t

\* pollOnce finds nothing to return and calls pollInner, which computes the
\* timeout, clears mResponses, sets mPolling and enters the kernel wait.
EnterPollInner(t) ==
  /\ lpc = "idle"
  /\ PendingIdents = {}
  /\ waitDeadline' = IF AdjustedTimeout(t) < 0 THEN LLONG_MAX
                     ELSE now + AdjustedTimeout(t)
  /\ responses' = <<>>
  /\ responseIndex' = 0
  /\ lpc' = "wait"
  /\ UNCHANGED <<fdVars, regVars, msgVars, items, itemsWake, waitErr, cbIndex,
                 result, cpc>>

\* The ready items the kernel may report: entries whose file is still alive
\* (each names its descriptor, file, filter and the seq stored with it).
ReadyItems ==
  {e \in kernel : FileAlive(e.file)}

\* The event items for the ready kernel entries S: kevent reports one per
\* filter; epoll_wait one per registration, with all its ready bits.
EventItems(S) ==
  LET same(e) == {x \in S : x.seq = e.seq /\ x.fd = e.fd /\ x.file = e.file}
      bits(e) == IF Backend = "kqueue" THEN {e.filter}
                 ELSE {x.filter : x \in same(e)}
  IN {[seq |-> e.seq, fd |-> e.fd, file |-> e.file, events |-> bits(e)] : e \in S}

\* epoll_wait / kevent returns the ready descriptors S, in some order, and
\* the wake fd whenever it is readable.
WaitReturn(S) ==
  /\ lpc = "wait"
  /\ S # {} \/ wakeReadable
  /\ items' \in SetToSeqs(EventItems(S))
  /\ itemsWake' = wakeReadable
  /\ waitErr' = "none"
  /\ lpc' = "awake"
  /\ UNCHANGED <<fdVars, regVars, msgVars, waitDeadline, responses,
                 responseIndex, cbIndex, result, cpc>>

\* The wait returns because the wake fd is readable.
WaitWoken == wakeReadable /\ \E S \in SUBSET ReadyItems : WaitReturn(S)

\* The wait times out with nothing ready.
WaitTimeout ==
  /\ lpc = "wait"
  /\ now >= waitDeadline /\ ~wakeReadable
  /\ items' = <<>> /\ itemsWake' = FALSE /\ waitErr' = "none"
  /\ lpc' = "awake"
  /\ UNCHANGED <<fdVars, regVars, msgVars, waitDeadline, responses,
                 responseIndex, cbIndex, result, cpc>>

\* The wait fails: EINTR (a signal), or any other error.
WaitFailed(err) ==
  /\ lpc = "wait"
  /\ items' = <<>> /\ itemsWake' = FALSE /\ waitErr' = err
  /\ lpc' = "awake"
  /\ UNCHANGED <<fdVars, regVars, msgVars, waitDeadline, responses,
                 responseIndex, cbIndex, result, cpc>>

\* Mutant: an event item is matched to a request through its descriptor
\* number instead of its sequence number.
RequestSeqOfFd(it) ==
  IF it.fd \in DOMAIN seqByFd THEN {seqByFd[it.fd]} ELSE {}

\* pollInner looks an event item up by the sequence number the kernel hands
\* back; an item whose request is gone is ignored with a warning.
RequestSeqOf(it) ==
  IF it.seq \in DOMAIN requests THEN {it.seq} ELSE {}

\* The responses pollInner builds from the items, in kernel order, each with
\* a copy of its request.
Responses(its) ==
  LET known == SelectSeq(its, LAMBDA it : RequestSeqOf(it) # {})
      seqOf(i) == CHOOSE x \in RequestSeqOf(known[i]) : TRUE
  IN [i \in 1..Len(known) |->
        [seq |-> seqOf(i), req |-> requests[seqOf(i)], from |-> known[i].file,
         events |-> known[i].events]]

\* The "Done:" loop of pollInner under the lock: a due head envelope is
\* removed, mSendingMessage set and the lock dropped to call handleMessage;
\* otherwise the head's uptime is the next wakeup and the lock is released
\* for the fd callbacks.
DrainMessages(res) ==
  /\ result' = res
  /\ IF queue # <<>> /\ Head(queue).uptime <= now
     THEN /\ queue' = Tail(queue)
          /\ sendingMessage' = TRUE
          /\ nextMessageUptime' = LLONG_MAX
          /\ lpc' = "handler"
          /\ UNCHANGED cbIndex
     ELSE /\ nextMessageUptime' = IF queue = <<>> THEN LLONG_MAX
                                  ELSE Head(queue).uptime
          /\ sendingMessage' = FALSE
          /\ lpc' = "callbacks"
          /\ cbIndex' = 1
          /\ UNCHANGED queue

\* pollInner after the wait, with the lock: a pending rebuild takes
\* precedence over everything the wait returned; then the wait's error or
\* timeout; otherwise the items are translated, the wake fd drained by
\* awoken(). Then the due messages.
PostWait ==
  /\ lpc = "awake"
  /\ CASE rebuildRequired ->
            /\ rebuildRequired' = FALSE /\ kernel' = Rebuilt
            /\ UNCHANGED <<wakeReadable, responses>>
            /\ DrainMessages(POLL_WAKE)
       [] waitErr # "none" ->
            /\ UNCHANGED <<kernel, rebuildRequired, wakeReadable, responses>>
            /\ DrainMessages(IF waitErr = "EINTR" THEN POLL_WAKE ELSE POLL_ERROR)
       [] items = <<>> /\ ~itemsWake ->
            /\ UNCHANGED <<kernel, rebuildRequired, wakeReadable, responses>>
            /\ DrainMessages(POLL_TIMEOUT)
       [] OTHER ->
            /\ wakeReadable' = IF itemsWake THEN FALSE ELSE wakeReadable
            /\ responses' = Responses(items)
            /\ UNCHANGED <<kernel, rebuildRequired>>
            /\ DrainMessages(POLL_WAKE)
  /\ items' = <<>> /\ itemsWake' = FALSE /\ waitErr' = "none"
  /\ UNCHANGED <<fdVars, requests, seqByFd, nextSeq, msgCount, now,
                 waitDeadline, responseIndex, cpc>>

\* handleMessage has returned: the lock is taken again, mSendingMessage
\* cleared, the result becomes POLL_CALLBACK and the loop goes on.
RelockAfterHandler ==
  /\ lpc = "handler"
  /\ DrainMessages(POLL_CALLBACK)
  /\ UNCHANGED <<fdVars, regVars, msgCount, now, waitDeadline, items,
                 itemsWake, waitErr, responses, responseIndex, cpc>>

\* Callback responses not yet invoked.
PendingCallbacks ==
  {j \in cbIndex..Len(responses) : responses[j].req.ident = POLL_CALLBACK}

\* All callbacks of the batch have run; pollInner returns to pollOnce.
CallbacksDone ==
  /\ lpc = "callbacks"
  /\ PendingCallbacks = {}
  /\ lpc' = "resume"
  /\ cbIndex' = 1
  /\ UNCHANGED <<fdVars, regVars, msgVars, waitDeadline, items, itemsWake,
                 waitErr, responses, responseIndex, result, cpc>>

\* handleEvent runs without the lock on the copy of the request. It keeps
\* the registration (returns 1), or returns 0, possibly after closing its
\* own descriptor.
InvokeCallback(outcome) ==
  LET j == Min(PendingCallbacks)
      n == responses[j].req.fd
  IN /\ lpc = "callbacks"
     /\ PendingCallbacks # {}
     /\ result' = POLL_CALLBACK
     /\ CASE outcome = "keep" ->
               /\ cbIndex' = j + 1 /\ UNCHANGED <<lpc, fdTable, kernel>>
          [] outcome = "remove" ->
               /\ cbIndex' = j /\ lpc' = "unregister"
               /\ UNCHANGED <<fdTable, kernel>>
          [] outcome = "closeRemove" ->
               /\ cbIndex' = j /\ lpc' = "unregister"
               /\ IF fdTable[n] # NoFile THEN CloseFd(n)
                  ELSE UNCHANGED <<fdTable, kernel>>
     /\ UNCHANGED <<opened, wakeReadable, requests, seqByFd, nextSeq,
                    rebuildRequired, msgVars, waitDeadline, items, itemsWake,
                    waitErr, responses, responseIndex, cpc>>

\* A callback that returned 0 is unregistered, under the lock, by the
\* sequence number recorded in its response.
CallbackUnregister(r) == RemoveSequenceNumber(r.seq)

UnregisterAfterCallback ==
  /\ lpc = "unregister"
  /\ CallbackUnregister(responses[cbIndex])
  /\ cbIndex' = cbIndex + 1
  /\ lpc' = "callbacks"
  /\ UNCHANGED <<fdVars, nextSeq, msgVars, waitDeadline, items, itemsWake,
                 waitErr, responses, responseIndex, result, cpc>>

-----------------------------------------------------------------------------
(* The specification *)

EmptyMap == [x \in {} |-> 0]

\* The constructor: eventfd created, an empty set holding the wake fd.
Init ==
  /\ fdTable = [n \in FdNums |-> NoFile]
  /\ opened = {}
  /\ kernel = {}
  /\ wakeReadable = FALSE
  /\ requests = EmptyMap
  /\ seqByFd = EmptyMap
  /\ nextSeq = WAKE_EVENT_FD_SEQ + 1
  /\ rebuildRequired = FALSE
  /\ queue = <<>>
  /\ msgCount = 0
  /\ sendingMessage = FALSE
  /\ nextMessageUptime = LLONG_MAX
  /\ now = 0
  /\ lpc = "idle"
  /\ waitDeadline = LLONG_MAX
  /\ items = <<>>
  /\ itemsWake = FALSE
  /\ waitErr = "none"
  /\ responses = <<>>
  /\ responseIndex = 0
  /\ cbIndex = 1
  /\ result = 0
  /\ cpc = [c \in Clients |-> "idle"]

ClientStep(c) ==
  \/ \E n \in FdNums, i \in Idents, cb \in BOOLEAN, m \in EventMasks :
       AddFd(c, n, i, cb, m)
  \/ \E n \in FdNums : RemoveFd(c, n) \/ Repoll(c, n)
  \/ WakeCall(c)
  \/ \E d \in Delays, h \in Handlers, w \in Whats : SendMessage(c, d, h, w)
  \/ SendMessageWake(c)
  \/ \E h \in Handlers, w \in Whats \cup {"any"} : RemoveMessages(c, h, w)

Environment ==
  \/ \E n \in FdNums, f \in Files : OpenFd(n, f)
  \/ \E n \in FdNums : CloseFdAction(n)
  \/ Tick

LooperStep ==
  \/ ReturnIdentResponse
  \/ ReturnResult
  \/ \E t \in PollTimeouts : EnterPollInner(t)
  \/ \E S \in SUBSET ReadyItems : WaitReturn(S)
  \/ WaitTimeout
  \/ \E err \in {"EINTR", "EOTHER"} : WaitFailed(err)
  \/ PostWait
  \/ RelockAfterHandler
  \/ CallbacksDone
  \/ \E o \in CallbackOutcomes : InvokeCallback(o)
  \/ UnregisterAfterCallback

Next == (\E c \in Clients : ClientStep(c)) \/ Environment \/ LooperStep

\* The looper thread keeps calling pollOnce and runs whenever it can; a wait
\* returns when the wake fd is readable or its timeout has passed (fd
\* readiness and signals are up to the environment). Other threads finish
\* the wake() of a sendMessage they started; the clock advances.
Fairness ==
  /\ WF_vars(ReturnIdentResponse) /\ WF_vars(ReturnResult)
  /\ WF_vars(\E t \in PollTimeouts : EnterPollInner(t))
  /\ WF_vars(WaitWoken) /\ WF_vars(WaitTimeout)
  /\ WF_vars(PostWait) /\ WF_vars(RelockAfterHandler)
  /\ WF_vars(CallbacksDone) /\ WF_vars(\E o \in CallbackOutcomes : InvokeCallback(o))
  /\ WF_vars(UnregisterAfterCallback)
  /\ \A c \in Clients : WF_vars(SendMessageWake(c))
  /\ WF_vars(Tick)

Spec == Init /\ [][Next]_vars /\ Fairness

-----------------------------------------------------------------------------
(* Properties *)

\* Every variable has its type; in particular a request with a callback
\* carries POLL_CALLBACK and one without a callback a non-negative ident
\* (addFd), and the wake fd's sequence number is never given to a request.
TypeOK ==
  /\ fdTable \in [FdNums -> Files \cup {NoFile}]
  /\ opened \subseteq Files
  /\ kernel \subseteq KernelEntry
  /\ wakeReadable \in BOOLEAN
  /\ DOMAIN requests \subseteq SeqNums
  /\ \A s \in DOMAIN requests : requests[s] \in Request
  /\ DOMAIN seqByFd \subseteq FdNums /\ Range(seqByFd) \subseteq SeqNums
  /\ nextSeq \in SeqNums \cup {MaxSeq + 1}
  /\ rebuildRequired \in BOOLEAN
  /\ queue \in Seq(Message) /\ msgCount \in 0..MaxMsgs
  /\ sendingMessage \in BOOLEAN
  /\ nextMessageUptime \in 0..LLONG_MAX /\ now \in 0..MaxTime
  /\ lpc \in LoopPcs /\ waitDeadline \in Int
  /\ items \in Seq(Item) /\ itemsWake \in BOOLEAN
  /\ waitErr \in {"none", "EINTR", "EOTHER"}
  /\ responses \in Seq(Response)
  /\ responseIndex \in 0..Len(responses) /\ cbIndex \in 1..(Len(responses) + 1)
  /\ result \in {0, POLL_WAKE, POLL_CALLBACK, POLL_TIMEOUT, POLL_ERROR}
  /\ cpc \in [Clients -> {"idle", "wake"}]

\* The fd index and the request map agree (Looper.h invariant the code's
\* removeSequenceNumberLocked relies on when it erases the index by fd):
\* an indexed fd names a request for that fd, and every request is the one
\* its fd is indexed to.
IndexConsistent ==
  /\ \A n \in DOMAIN seqByFd :
       seqByFd[n] \in DOMAIN requests /\ requests[seqByFd[n]].fd = n
  /\ \A s \in DOMAIN requests :
       requests[s].fd \in DOMAIN seqByFd /\ seqByFd[requests[s].fd] = s

\* The kernel set never holds a stale entry for a descriptor that is still
\* open on the same file: every such entry belongs to a live request and a
\* filter it subscribed. Stale entries may only remain for files that were
\* closed (and a rebuild then clears them). This is what addFd's MOD/ADD,
\* removeSequenceNumberLocked's DEL and close() together must keep.
KernelCoherent ==
  \A e \in kernel :
    fdTable[e.fd] = e.file =>
      /\ e.seq \in DOMAIN requests
      /\ e.filter \in requests[e.seq].events

\* A response carries an event of the file its registration was made for,
\* on filters that registration subscribed: an event of an earlier
\* registration of the same descriptor (removed, replaced with another
\* mask, or of an old file whose number was reused) never reaches the new
\* one (the sequence-number defence of addFd and pollInner). A registration
\* whose descriptor was closed and reopened on another file under it is
\* excluded: the rebuild re-adds it on whatever file the number now names.
ResponsesFromRegisteredFile ==
  \A i \in 1..Len(responses) :
    LET r == responses[i] IN
    fdTable[r.req.fd] = r.req.file =>
      r.from = r.req.file /\ r.events \subseteq r.req.events

\* The message queue as its callers see it (MessageQueue.tla): the pending
\* messages are the envelopes in mMessageEnvelopes; a message sent by
\* sendMessageAtTime gets the next sending number; pollInner's "Done:" loop
\* hands out only due messages, each before every message sent later for
\* the same uptime and every message due later, and eventually hands out
\* every due one.
AbsQueue == INSTANCE MessageQueue
              WITH pending <- {queue[k] : k \in 1..Len(queue)},
                   nextId <- msgCount + 1,
                   Uptimes <- 0..(LLONG_MAX - 1)

MessageQueueRefined == AbsQueue!Spec

\* While the looper thread is blocked in the kernel wait, the wait ends by
\* the head message's uptime, or the wake fd is readable, or a sender that
\* put a new head is about to call wake(): sendMessageAtTime and pollInner
\* together never leave a message behind a sleeping looper.
WakeupNotMissed ==
  lpc = "wait" /\ queue # <<>> =>
    \/ waitDeadline <= Head(queue).uptime \/ waitDeadline <= now
    \/ wakeReadable
    \/ \E c \in Clients : cpc[c] = "wake"

\* A rebuild that addFd or removeFd scheduled is eventually carried out by
\* the looper thread.
RebuildEventuallyDone == rebuildRequired ~> ~rebuildRequired

\* An fd callback is only invoked while its registration is live: once
\* removeFd, or an addFd replacing it, has returned, the old callback is
\* not invoked again (Looper spec, testable property 5).
CallbackTargetsLive ==
  lpc = "callbacks" /\ PendingCallbacks # {} =>
    responses[Min(PendingCallbacks)].seq \in DOMAIN requests

\* The result pollInner decided (WAKE, CALLBACK, TIMEOUT, ERROR) is given
\* up only by returning it from pollOnce, after every identifier response
\* of that inner poll (spec 4.E pollOnce step 2, 5 ordering (4)): pollOnce
\* must not discard it while returning an identifier.
InnerResultReturned ==
  [][result # 0 /\ result' = 0 => PendingIdents = {}]_vars


=============================================================================
