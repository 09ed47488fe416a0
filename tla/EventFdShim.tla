----------------------------- MODULE EventFdShim -----------------------------
(***************************************************************************)
(* The macOS eventfd emulation of the port (eventfd.h / eventfd.c): an     *)
(* eventfd is the read end sockets[0] of an AF_UNIX socketpair plus a      *)
(* context (counter, flags, mutex) kept in a global table of MAX_EVENTFDS  *)
(* slots, found again by the descriptor number of its read end.            *)
(* eventfd_write adds to the counter and writes one byte to sockets[1],   *)
(* so that sockets[0] polls readable; eventfd_read takes the counter and   *)
(* drains the bytes.                                                       *)
(*                                                                         *)
(* Threads call eventfd, eventfd_read, eventfd_write, eventfd_close, and   *)
(* close() on a descriptor (what Looper's unique_fd does with its wake     *)
(* fd). Each region under table_lock or a context lock is one step; a      *)
(* blocking eventfd_read drops the context lock around its socket read.   *)
(***************************************************************************)
EXTENDS Integers, FiniteSets, FiniteSetsExt, Functions

CONSTANTS
  Threads,      \* threads using the shim
  NFds,         \* descriptor numbers 0..NFds-1
  MAX_EVENTFDS, \* slots of ctx_table
  MaxPairs,     \* bound on eventfd() calls (socketpairs created)
  W,            \* width of the counter in bits (uint64_t in the code)
  BufCap,       \* bytes a socket buffer holds
  FlagSets,     \* flags passed to eventfd(): subsets of {"NONBLOCK", "SEMAPHORE"}
  InitVals,     \* initval values passed to eventfd()
  WriteVals,    \* values passed to eventfd_write()
  Ops,          \* the calls threads make
  MaxOps        \* bound on eventfd_read/eventfd_write/eventfd_close calls

ASSUME /\ NFds \in Nat /\ MAX_EVENTFDS \in Nat /\ MaxPairs \in Nat
       /\ W \in Nat \ {0} /\ BufCap \in Nat /\ MaxOps \in Nat
       /\ FlagSets \subseteq SUBSET {"NONBLOCK", "SEMAPHORE"}
       /\ Ops \subseteq {"eventfd", "read", "write", "close", "eventfd_close"}

Fds == 0..(NFds - 1)
Pairs == 1..MaxPairs
Ends == {0, 1}
UINT64_MAX == 2^W - 1
NoSock == [pair |-> 0, end |-> 0]
NoThread == "none"

VARIABLES
  fdTable,   \* descriptor number -> socket end [pair, end], or NoSock
  buf,       \* pair -> end -> bytes waiting to be read at that end
  pairs,     \* socketpairs created so far (pair p has context p)
  ctx,       \* pair -> its eventfd_ctx: sock_r, sock_w, counter, flags, state
  ctxTable,  \* ctx_table: slot -> pair of the context stored there, or 0
  lockOwner, \* pair -> thread holding ctx->lock, or NoThread
  pc,        \* thread -> where it is in a call
  cur,       \* thread -> the context pointer find_ctx gave it, or 0
  wval,      \* thread -> value of the eventfd_write in progress
  returned,  \* thread -> *value of its last successful eventfd_read, or -1
  cfd,       \* thread -> the fd argument of its eventfd_close in progress
  ops        \* eventfd_read/eventfd_write/eventfd_close calls made

vars == <<fdTable, buf, pairs, ctx, ctxTable, lockOwner, pc, cur, wval,
          returned, cfd, ops>>

Ctx == [sock_r : Fds, sock_w : Fds, counter : 0..UINT64_MAX,
        flags : SUBSET {"NONBLOCK", "SEMAPHORE"},
        state : {"none", "live", "freed"}]

-----------------------------------------------------------------------------
(* Descriptors and sockets                                                 *)

FreeFds == {n \in Fds : fdTable[n] = NoSock}

\* The socket end a descriptor number refers to, and the end it writes to.
Peer(s) == [pair |-> s.pair, end |-> 1 - s.end]
EndOpen(s) == \E n \in Fds : fdTable[n] = s

\* close() of the descriptor numbers ns: their ends are gone, and so are
\* the bytes waiting on them.
CloseFds(ns) ==
  /\ fdTable' = [n \in Fds |-> IF n \in ns THEN NoSock ELSE fdTable[n]]
  /\ buf' = [p \in Pairs |-> [e \in Ends |->
              IF \E n \in ns : fdTable[n] = [pair |-> p, end |-> e] THEN 0
              ELSE buf[p][e]]]

SocketWrite(n, nonblock) ==
  LET s == fdTable[n] IN
  CASE s = NoSock -> [err |-> "EBADF", buf |-> buf]
    [] ~EndOpen(Peer(s)) -> [err |-> "EPIPE", buf |-> buf]
    [] buf[s.pair][1 - s.end] >= BufCap ->
         [err |-> IF nonblock THEN "EAGAIN" ELSE "block", buf |-> buf]
    [] OTHER -> [err |-> "OK",
                 buf |-> [buf EXCEPT ![s.pair][1 - s.end] = @ + 1]]

-----------------------------------------------------------------------------
(* The context table                                                       *)

\* find_ctx(fd): the first slot whose context has sock_r = fd, or 0.
FindCtx(n) ==
  LET hits == {i \in 1..MAX_EVENTFDS : ctxTable[i] # 0 /\ ctx[ctxTable[i]].sock_r = n}
  IN IF hits = {} THEN 0 ELSE ctxTable[Min(hits)]

\* add_ctx: the first empty slot, or 0 (EMFILE).
FreeSlot ==
  LET empty == {i \in 1..MAX_EVENTFDS : ctxTable[i] = 0}
  IN IF empty = {} THEN 0 ELSE Min(empty)

\* remove_ctx(fd): clears the first slot whose context has sock_r = fd.
RemoveCtx(n) ==
  LET hits == {i \in 1..MAX_EVENTFDS : ctxTable[i] # 0 /\ ctx[ctxTable[i]].sock_r = n}
  IN IF hits = {} THEN ctxTable ELSE [ctxTable EXCEPT ![Min(hits)] = 0]

-----------------------------------------------------------------------------
(* The counter                                                             *)

\* Mutant: drain_socket does not empty the read end.
DrainSocketSkipped(p) == buf

\* drain_socket(ctx->sock_r): non-blocking reads until none succeeds; the
\* descriptor number is resolved now and may name another socket.
DrainSocket(p) ==
  LET s == fdTable[ctx[p].sock_r] IN
  IF s = NoSock THEN buf ELSE [buf EXCEPT ![s.pair][s.end] = 0]

\* The end of eventfd_read: semaphore mode returns 1 and decrements the
\* unsigned counter (wrapping below zero); otherwise the whole counter.
Take(c, flags) ==
  IF "SEMAPHORE" \in flags
  THEN [value |-> 1, counter |-> (c - 1) % (UINT64_MAX + 1)]
  ELSE [value |-> c, counter |-> 0]

\* Mutant: eventfd_write does not check the counter for overflow.
FitsUnchecked(c, v) == TRUE

\* eventfd_write: EAGAIN unless UINT64_MAX - counter >= value.
Fits(c, v) == UINT64_MAX - c >= v

\* ctx->flags & EFD_NONBLOCK
NonBlocking(flags) == "NONBLOCK" \in flags
-----------------------------------------------------------------------------
(* The calls                                                               *)

\* eventfd(initval, flags): a socketpair on the two lowest free numbers
\* (-1 when there are not two), a context, add_ctx (EMFILE: both sockets
\* closed, the context freed), and one byte on sockets[1] when initval > 0.
EventFd(t, init, flags) ==
  LET p == pairs + 1
      r == Min(FreeFds)
      w == Min(FreeFds \ {r})
      slot == FreeSlot
      c == [sock_r |-> r, sock_w |-> w, counter |-> init, flags |-> flags,
            state |-> IF slot = 0 THEN "freed" ELSE "live"]
  IN /\ "eventfd" \in Ops /\ pc[t] = "idle"
     /\ pairs < MaxPairs /\ Cardinality(FreeFds) >= 2
     /\ pairs' = p
     /\ ctx' = [ctx EXCEPT ![p] = c]
     /\ IF slot = 0
        THEN UNCHANGED <<fdTable, buf, ctxTable>>
        ELSE /\ fdTable' = [fdTable EXCEPT ![r] = [pair |-> p, end |-> 0],
                                           ![w] = [pair |-> p, end |-> 1]]
             /\ ctxTable' = [ctxTable EXCEPT ![slot] = p]
             /\ buf' = IF init > 0 THEN [buf EXCEPT ![p][0] = 1] ELSE buf
     /\ UNCHANGED <<lockOwner, pc, cur, wval, returned, cfd, ops>>

\* A call returns to its caller.
Return(t) == pc' = [pc EXCEPT ![t] = "idle"] /\ cur' = [cur EXCEPT ![t] = 0]

\* eventfd_read, eventfd_write and eventfd_close start with find_ctx: EBADF
\* when the number has no context; eventfd_write then rejects UINT64_MAX
\* (EINVAL).
CallStart(t, n, op, v) ==
  LET p == FindCtx(n) IN
  /\ op \in Ops /\ pc[t] = "idle" /\ ops < MaxOps
  /\ ops' = ops + 1
  /\ IF p = 0 \/ (op = "write" /\ v = UINT64_MAX)
     THEN UNCHANGED <<pc, cur, wval, cfd>>
     ELSE /\ pc' = [pc EXCEPT ![t] = op]
          /\ cur' = [cur EXCEPT ![t] = p]
          /\ wval' = [wval EXCEPT ![t] = v]
          /\ cfd' = [cfd EXCEPT ![t] = n]
  /\ UNCHANGED <<fdTable, buf, pairs, ctx, ctxTable, lockOwner, returned>>

\* The end of a read, under the lock: the value is returned.
Finish(t, p, c) ==
  LET tk == Take(c, ctx[p].flags) IN
  /\ ctx' = [ctx EXCEPT ![p].counter = tk.counter]
  /\ returned' = [returned EXCEPT ![t] = tk.value]
  /\ Return(t)

\* eventfd_read with ctx->lock: counter 0 gives EAGAIN (nonblocking) or
\* drops the lock to block in read(sock_r, 1); otherwise the socket is
\* drained and the counter taken.
ReadLocked(t) ==
  LET p == cur[t] IN
  /\ pc[t] = "read" /\ lockOwner[p] = NoThread
  /\ IF ctx[p].counter = 0
     THEN /\ IF NonBlocking(ctx[p].flags) THEN Return(t)
             ELSE pc' = [pc EXCEPT ![t] = "blockread"] /\ UNCHANGED cur
          /\ UNCHANGED <<buf, ctx, returned>>
     ELSE /\ buf' = DrainSocket(p)
          /\ Finish(t, p, ctx[p].counter)
  /\ UNCHANGED <<fdTable, pairs, ctxTable, lockOwner, wval, cfd, ops>>

\* The blocking read(ctx->sock_r, &dummy, 1) without the lock: -1 on a
\* closed number; otherwise it waits for a byte (or end of file, which
\* returns 0 and is taken as success) and then relocks.
BlockRead(t) ==
  LET s == fdTable[ctx[cur[t]].sock_r] IN
  /\ pc[t] = "blockread"
  /\ IF s = NoSock
     THEN Return(t) /\ UNCHANGED buf
     ELSE /\ buf[s.pair][s.end] > 0 \/ ~EndOpen(Peer(s))
          /\ buf' = IF buf[s.pair][s.end] > 0
                    THEN [buf EXCEPT ![s.pair][s.end] = @ - 1] ELSE buf
          /\ pc' = [pc EXCEPT ![t] = "relock"] /\ UNCHANGED cur
  /\ UNCHANGED <<fdTable, pairs, ctx, ctxTable, lockOwner, wval, returned,
                 cfd, ops>>

\* After the blocking read: the lock is taken again and the counter taken,
\* whatever another reader left of it.
Relock(t) ==
  LET p == cur[t] IN
  /\ pc[t] = "relock" /\ lockOwner[p] = NoThread
  /\ Finish(t, p, ctx[p].counter)
  /\ UNCHANGED <<fdTable, buf, pairs, ctxTable, lockOwner, wval, cfd, ops>>

\* eventfd_write with ctx->lock: EAGAIN when the value does not fit;
\* otherwise the counter grows and one byte is written to sock_w. A failed
\* write returns -1 with the counter already raised; a blocking socket
\* with a full buffer waits for room while holding the lock.
WriteLocked(t) ==
  LET p == cur[t]
      v == wval[t]
      sw == SocketWrite(ctx[p].sock_w, NonBlocking(ctx[p].flags))
  IN /\ pc[t] = "write" /\ lockOwner[p] = NoThread
     /\ IF ~Fits(ctx[p].counter, v)
        THEN Return(t) /\ UNCHANGED <<ctx, buf, lockOwner>>
        ELSE /\ ctx' = [ctx EXCEPT ![p].counter = @ + v]
             /\ IF sw.err = "block"
                THEN /\ pc' = [pc EXCEPT ![t] = "writeblocked"]
                     /\ lockOwner' = [lockOwner EXCEPT ![p] = t]
                     /\ UNCHANGED <<cur, buf>>
                ELSE /\ buf' = sw.buf
                     /\ Return(t) /\ UNCHANGED lockOwner
     /\ UNCHANGED <<fdTable, pairs, ctxTable, wval, returned, cfd, ops>>

\* The blocked write completes once the peer's buffer has room, and the
\* lock is released.
WriteBlocked(t) ==
  LET p == cur[t]
      sw == SocketWrite(ctx[p].sock_w, FALSE)
  IN /\ pc[t] = "writeblocked" /\ sw.err # "block"
     /\ buf' = sw.buf
     /\ lockOwner' = [lockOwner EXCEPT ![p] = NoThread]
     /\ Return(t)
     /\ UNCHANGED <<fdTable, pairs, ctx, ctxTable, wval, returned, cfd, ops>>

\* close(n) on the number eventfd() returned (sockets[0]; sockets[1] is
\* never handed out), as Looper's unique_fd does with mWakeEventFd: the
\* context and sockets[1] stay behind.
Close(t, n) ==
  /\ "close" \in Ops /\ pc[t] = "idle"
  /\ fdTable[n] # NoSock /\ fdTable[n].end = 0
  /\ CloseFds({n})
  /\ UNCHANGED <<pairs, ctx, ctxTable, lockOwner, pc, cur, wval, returned,
                 cfd, ops>>

\* eventfd_close after find_ctx: close(ctx->sock_r). The context is still
\* in the table, and the number is free for the next socketpair.
CloseSockR(t) ==
  /\ pc[t] = "eventfd_close"
  /\ CloseFds({ctx[cur[t]].sock_r})
  /\ pc' = [pc EXCEPT ![t] = "close_w"]
  /\ UNCHANGED <<pairs, ctx, ctxTable, lockOwner, cur, wval, returned, cfd, ops>>

\* close(ctx->sock_w) and pthread_mutex_destroy.
CloseSockW(t) ==
  /\ pc[t] = "close_w"
  /\ CloseFds({ctx[cur[t]].sock_w})
  /\ pc' = [pc EXCEPT ![t] = "remove"]
  /\ UNCHANGED <<pairs, ctx, ctxTable, lockOwner, cur, wval, returned, cfd, ops>>

\* remove_ctx(fd) under table_lock, which clears the first slot whose
\* context has sock_r = fd (by now perhaps another eventfd's), then
\* free(ctx).
RemoveAndFree(t) ==
  /\ pc[t] = "remove"
  /\ ctxTable' = RemoveCtx(cfd[t])
  /\ ctx' = [ctx EXCEPT ![cur[t]].state = "freed"]
  /\ Return(t)
  /\ UNCHANGED <<fdTable, buf, pairs, lockOwner, wval, returned, cfd, ops>>

-----------------------------------------------------------------------------

Init ==
  /\ fdTable = [n \in Fds |-> NoSock]
  /\ buf = [p \in Pairs |-> [e \in Ends |-> 0]]
  /\ pairs = 0
  /\ ctx = [p \in Pairs |-> [sock_r |-> 0, sock_w |-> 0, counter |-> 0,
                             flags |-> {}, state |-> "none"]]
  /\ ctxTable = [i \in 1..MAX_EVENTFDS |-> 0]
  /\ lockOwner = [p \in Pairs |-> NoThread]
  /\ pc = [t \in Threads |-> "idle"]
  /\ cur = [t \in Threads |-> 0]
  /\ wval = [t \in Threads |-> 0]
  /\ returned = [t \in Threads |-> -1]
  /\ cfd = [t \in Threads |-> 0]
  /\ ops = 0

\* Continuing a call that has started.
Continue(t) ==
  \/ ReadLocked(t) \/ BlockRead(t) \/ Relock(t)
  \/ WriteLocked(t) \/ WriteBlocked(t)
  \/ CloseSockR(t) \/ CloseSockW(t) \/ RemoveAndFree(t)

\* The callers' rule for a descriptor: eventfd_close(n) does not overlap
\* another thread's call on the same eventfd. (The shim, unlike the kernel,
\* holds no reference across a call, so breaking it is a use after free.)
NotClosing(t, n, op) ==
  \A u \in Threads \ {t} :
    pc[u] # "idle" /\ ctx[cur[u]].sock_r = n =>
      op # "eventfd_close" /\ pc[u] \notin {"eventfd_close", "close_w", "remove"}

Next ==
  \E t \in Threads :
    \/ \E i \in InitVals, f \in FlagSets : EventFd(t, i, f)
    \/ \E n \in Fds : CallStart(t, n, "read", 0) /\ NotClosing(t, n, "read")
    \/ \E n \in Fds, v \in WriteVals :
         CallStart(t, n, "write", v) /\ NotClosing(t, n, "write")
    \/ \E n \in Fds :
         CallStart(t, n, "eventfd_close", 0) /\ NotClosing(t, n, "eventfd_close")
    \/ \E n \in Fds : Close(t, n)
    \/ Continue(t)

\* A thread inside a call keeps running; which calls are made is up to the
\* callers.
Spec == Init /\ [][Next]_vars /\ \A t \in Threads : WF_vars(Continue(t))

-----------------------------------------------------------------------------
(* Properties                                                              *)

TypeOK ==
  /\ fdTable \in [Fds -> [pair : Pairs, end : Ends] \cup {NoSock}]
  /\ buf \in [Pairs -> [Ends -> 0..BufCap]]
  /\ pairs \in 0..MaxPairs
  /\ ctx \in [Pairs -> Ctx]
  /\ ctxTable \in [1..MAX_EVENTFDS -> 0..MaxPairs]
  /\ lockOwner \in [Pairs -> Threads \cup {NoThread}]
  /\ pc \in [Threads -> {"idle", "read", "blockread", "relock", "write",
                         "writeblocked", "eventfd_close", "close_w", "remove"}]
  /\ cur \in [Threads -> 0..MaxPairs]
  /\ returned \in [Threads -> Int] /\ cfd \in [Threads -> Fds \cup {0}]
  /\ ops \in 0..MaxOps

\* A nonblocking eventfd (the mode Looper creates) whose read end is open
\* on its own socket.
Settled(p) ==
  /\ ctx[p].state = "live" /\ NonBlocking(ctx[p].flags)
  /\ fdTable[ctx[p].sock_r] = [pair |-> p, end |-> 0]

\* The eventfd polls readable exactly when its counter is non-zero (what
\* Looper, poll and kqueue rely on): eventfd_write's byte and
\* eventfd_read's drain keep the socket and the counter in step.
ReadableIffCounter ==
  \A p \in 1..pairs : Settled(p) => (buf[p][0] > 0 <=> ctx[p].counter > 0)

\* A successful eventfd_read returns a positive value (eventfd(2)): no
\* reader is handed a counter another reader already took.
ReadValuePositive == \A t \in Threads : returned[t] # 0

TableHoldsLiveContexts ==
  {ctxTable[i] : i \in 1..MAX_EVENTFDS} \ {0} =
    {p \in 1..pairs : ctx[p].state = "live"}

\* An eventfd_write blocked on a full socket returns once a reader of the
\* same eventfd has come to drain it (eventfd(2) never blocks a write that
\* fits the counter).
WriterReturns ==
  \A t, r \in Threads :
    pc[t] = "writeblocked" /\ pc[r] = "read" /\ cur[r] = cur[t] ~> pc[t] = "idle"

====
