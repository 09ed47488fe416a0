# TLA+ models of libutils `Looper` (android-native-mac-ports)

This directory holds TLA+ specifications of `src/libutils/Looper.cpp` and of
the macOS `eventfd()` shim in `src/unnamed/part_001`. It also holds the TLC
configurations that check them.

## 1. The system

A `Looper` is a per-thread event loop. One thread (the *looper thread*) calls
`pollOnce`. Any thread may call `addFd`, `removeFd`, `repoll`, `sendMessage*`,
`removeMessages` and `wake`. Its parts:

| Part | Code | State |
|---|---|---|
| Wake channel | `wake`, `awoken` (Looper.cpp 491-513); `eventfd()` shim (part_001 124-278) | `mWakeEventFd`; on macOS a socketpair plus the shim's counter |
| Request table | `addFd` 523-646, `removeFd` 663-670, `repoll` 672-702, `removeSequenceNumberLocked` 704-757 | `mRequests` (seq → Request), `mSequenceNumberByFd` (fd → seq), `mNextRequestSeq` |
| Readiness multiplexer | epoll / kqueue calls in the functions above, `rebuildEpollLocked` 168-220, `scheduleEpollRebuildLocked` 222-230 | the kernel interest set, `mEpollRebuildRequired` |
| Message queue | `sendMessage*` 759-802, `removeMessages` 804-837 | `mMessageEnvelopes`, `mSendingMessage`, `mNextMessageUptime` |
| Loop core | `pollOnce` 232-266, `pollInner` 268-463, `pollAll` 465-489 | `mResponses`, `mResponseIndex`, `mPolling` |
| Thread binding | `prepare`, `getForThread`, `setForThread` 142-162 | the thread-local `gThreadLocalLooper` |
| Logging | part_000 (`ALOG*` macros) | none |

How the parts interact:
- All tables live under one mutex `mLock`. The looper thread drops the lock
  in three places: around the kernel wait, around each `handleMessage`, and
  around each fd callback.
- Other threads may change the tables in those windows.
- The kernel set carries a *sequence number* per registration (not the fd).
  This is the defence against fd recycling: an event is matched to a request
  by seq, and a callback that returns 0 is unregistered by the seq in its
  response.
- When the kernel refuses to delete or modify an entry (the fd was closed),
  the code sets `mEpollRebuildRequired` and calls `wake()`. The looper then
  rebuilds the whole set after its next wait, and drops that wait's events.

The behaviours that make the system hard:
- fd closing and reuse while a registration or a kernel entry still exists;
- a callback running on a snapshot of its request while another thread
  replaces or removes the request;
- `sendMessageAtTime` inserting a new head while the looper computes its
  timeout or sleeps;
- the wake on macOS, where `eventfd()` is a socketpair shim;
- kqueue removal and mask narrowing.

## 2. The modules

`Looper.tla` models the Looper and the kernel around it, parameterised by
`Backend` ("epoll"/"kqueue") and `WakeImpl` ("eventfd"/"socketpair").
`MCLooper.tla` gives TLC the set-valued constants (event masks, timeouts).

The other modules:
- `MessageQueue.tla` is the abstract message queue, as callers see it.
  Looper implements it (section "Refinement" below).
- `EventFdShim.tla` models the macOS `eventfd()` emulation (part_001).
  `MCEventFdShim.tla` holds its flag sets.
- `LooperLifecycle.tla` extends `EventFdShim` with the thread binding and
  the Looper's construction and destruction. `MCLooperLifecycle.tla`
  instantiates it.

### State

| Variable | Code |
|---|---|
| `requests`, `seqByFd`, `nextSeq` | `mRequests`, `mSequenceNumberByFd`, `mNextRequestSeq` |
| `kernel` | the epoll set / kqueue: entries `[fd, file, filter, seq]`, one per subscribed filter |
| `items` | the events the wait returned: `[fd, file, seq, events]`; epoll gives one item per registration with all its ready bits, kqueue one per filter (`EventItems`) |
| `wakeReadable` | the wake fd is readable (the eventfd counter is non-zero) |
| `rebuildRequired` | `mEpollRebuildRequired` |
| `queue`, `sendingMessage`, `nextMessageUptime` | `mMessageEnvelopes`, `mSendingMessage`, `mNextMessageUptime` |
| `responses`, `responseIndex` | `mResponses`, `mResponseIndex` |
| `lpc`, `cbIndex`, `items`, `itemsWake`, `waitErr`, `waitDeadline`, `result` | the looper thread's position in pollOnce/pollInner and its locals |
| `cpc` | each other thread: idle, or between sendMessageAtTime's unlock and its `wake()` |
| `fdTable`, `opened`, `now` | the process's descriptor table, files opened so far, the monotonic clock |

Files are model values. A descriptor number may be closed and reopened on
another file, which is how fd recycling happens. Files in `SharedFiles` have
another reference (a dup or a fork), so on epoll their entry outlives
`close()`. This is the case the rebuild exists for. kqueue drops a
descriptor's knotes on close.

### Actions

Each action is one `mLock` region, or one step of the looper thread between
two lock drops.

| Action | Code |
|---|---|
| `AddFd` | `addFd`: ident forcing and rejection, seq allocation, ADD or MOD, the ENOENT fallback to ADD plus rebuild, replacement of the old epoch |
| `RemoveFd`, `RemoveSequenceNumber` | `removeFd`, `removeSequenceNumberLocked`: maps erased first, then the kernel DEL; an error schedules a rebuild |
| `Repoll` | `repoll` |
| `WakeCall` | `wake()` from another thread |
| `SendMessage`, `SendMessageWake` | `sendMessageAtTime` under the lock, and its `wake()` after the unlock |
| `RemoveMessages` | both overloads (`w = "any"` is the handler-only one) |
| `ReturnIdentResponse`, `ReturnResult` | pollOnce's replay loop and its return of `result` |
| `EnterPollInner` | pollInner up to the wait: timeout adjustment, clearing responses, `mPolling = true` |
| `WaitReturn`/`WaitWoken`, `WaitTimeout`, `WaitFailed` | `epoll_wait`/`kevent` returning events, timing out, or failing (EINTR or another error) |
| `PostWait` | everything from `mLock.lock()` to the first `handleMessage` or the unlock: rebuild, error, timeout or translation of the items (with `awoken()`), then the `Done:` loop |
| `RelockAfterHandler` | the `Done:` loop after `handleMessage` returns |
| `InvokeCallback`, `UnregisterAfterCallback`, `CallbacksDone` | the callback loop; a callback keeps its registration, returns 0, or closes its fd and returns 0 |
| `OpenFd`, `CloseFdAction`, `Tick` | the environment: the process opening and closing descriptors, and time passing |

### Refinement: `MessageQueue`

`MessageQueue.tla` has one variable, `pending`, the set of messages sent
and not yet delivered or removed. Each message carries its uptime and its
sending number `id`. It also has `nextId` and the clock `now`. Its actions:
- `Post` is `sendMessage*`;
- `Remove` is either `removeMessages` overload;
- `Deliver(m)` hands out `m`, which must be due and must precede every other
  pending message, by uptime and then by sending order;
- `Tick` advances the clock.

Weak fairness on `Deliver` says a due message is eventually delivered.

Looper's `AbsQueue` maps:
- `pending` to the envelopes in `queue`;
- `nextId` to `msgCount + 1`;
- `now` to `now`.

`MessageQueueRefined` (`AbsQueue!Spec`) is checked as a PROPERTY in
messages_eventfd. Every Looper step is then a `MessageQueue` step or a
stutter:
- the locked part of `sendMessageAtTime` is `Post`;
- the `Done:` loop's `removeAt(0)` is `Deliver`;
- the looper's fairness implies `Deliver`'s.

It replaces an earlier invariant, "the envelope list is sorted". That
invariant constrained only the list's layout. The refinement states what
callers observe: delivery order, the due time, removal, and that nothing
is lost or repeated.

### `EventFdShim`

State:
- `fdTable` maps descriptor numbers to socket ends. `buf` holds the bytes
  readable at each end of each socketpair.
- `ctx` holds each pair's context: `sock_r`, `sock_w`, `counter`, `flags`,
  and whether it is live or freed.
- `ctxTable` is `ctx_table` (pair ids). `lockOwner` is each `ctx->lock`.
- `pc`, `cur`, `wval` and `returned` are each calling thread's position,
  its context pointer, its write value and the last value it read.
- `cfd` is the `fd` argument of an `eventfd_close` in progress.

The counter is `W` bits wide, so `UINT64_MAX` is `2^W - 1`. `eventfd()`
takes the two lowest free numbers. Each `table_lock` or `ctx->lock` region
is one step. The blocking read is three steps:
- `ReadLocked` finds counter 0 and unlocks;
- `BlockRead` is `read(sock_r, 1)` without the lock;
- `Relock` takes the counter under the lock.

A blocking write on a full socket keeps the lock (`WriteBlocked`).
`Close` is a raw `close()` of the descriptor `eventfd()` returned. That is
what the Looper's `unique_fd` does.

`eventfd_close` is four steps, as the code runs them (part_001:263-278):
- `CallStart` is `find_ctx(fd)`, with `EBADF` when nothing is found;
- `CloseSockR` is `close(ctx->sock_r)`, which frees the number for the next
  `socketpair()`;
- `CloseSockW` is `close(ctx->sock_w)` and `pthread_mutex_destroy`;
- `RemoveAndFree` is `remove_ctx(fd)`, which looks the context up again by
  number, and `free(ctx)`.

`NotClosing` is the one rule the model puts on callers. It is the usual
rule for descriptors: `eventfd_close(n)` does not overlap another thread's
call on the same eventfd. The kernel would keep a closed eventfd alive
until a call in progress ends. The shim holds no reference, so breaking
the rule is a use after free; the model leaves that case out.

### `LooperLifecycle`

`bound` is each thread's `gThreadLocalLooper`. A Looper is named by the
pair of its wake fd.
- `Prepare` constructs a Looper on a thread without one. It calls
  `eventfd(0, EFD_NONBLOCK|EFD_CLOEXEC)`, and a failure (no descriptors, or
  `EMFILE` from a full table) aborts the process (`aborted`).
- `SetForThread` rebinds a thread or clears it. Clearing is also what
  thread exit does.
- When no thread holds a Looper any more, `Destroy` closes its wake fd
  with `close()`.

## 3. Runs

| Run | Config | Expect | What it shows |
|---|---|---|---|
| fd_epoll | `fd_epoll.cfg` | pass | On epoll, with fd close and reuse, shared files and callbacks that close their fd: the index agrees with the request map, the kernel set has no live stale entry, responses come from the registered file and carry only its filters, and rebuilds happen |
| kqueue_fd | `kqueue_fd.cfg` | pass | On kqueue, the knotes that removal leaves behind never reach a live registration, because the seq lookup drops them; rebuilds happen |
| messages_eventfd | `messages_eventfd.cfg` | pass | With two senders, delays, removals and every timeout kind: no message sits behind a sleeping looper, and Looper refines `MessageQueue` (whose fairness says every due message is delivered) |
| shim_modes | `shim_modes.cfg` | pass | Nonblocking and blocking eventfds, two threads, a one-byte socket, counter overflow, `UINT64_MAX`, raw close, `eventfd_close` and a full table: the counter never wraps, a nonblocking eventfd's socket is readable iff its counter is non-zero, and a reader blocked on a non-zero counter is woken |
| kqueue_remove | `kqueue_remove.cfg` | violation | `removeSequenceNumberLocked` on kqueue never deletes the knote (finding 2) |
| stale_callback | `stale_callback.cfg` | violation | A callback is invoked after another thread replaced or removed its registration (finding 3) |
| wake_socketpair | `wake_socketpair.cfg` | violation | On kqueue (the macOS backend) with the eventfd shim, `wake()` does not wake the looper (finding 1) |
| poll_result | `poll_result.cfg` | violation | pollOnce drops the inner poll's result when it returns an identifier (finding 4) |
| shim_blocking_readers | `shim_blocking_readers.cfg` | violation | Two blocking readers: one returns success with value 0 (finding 5) |
| shim_writer_blocks | `shim_writer_blocks.cfg` | violation | A blocking writer holds `ctx->lock` in `write()`, and its reader waits for that lock (finding 6) |
| lifecycle_emfile | `lifecycle_emfile.cfg` | violation | Loopers created and destroyed exhaust the shim's table, and a constructor aborts (finding 7) |
| shim_close_race | `shim_close_race.cfg` | violation | `eventfd_close` racing `eventfd()` removes the new eventfd's context and leaves a freed one in the table (finding 8) |

### Bounds

- The fd runs use one descriptor number and three files, one of them shared.
  That is enough for one close-and-reuse and for a shared file surviving a
  close.
- They use `MaxSeq = 4`: three registrations, so the first one can be
  replaced and then replaced again.
- Masks are `{IN}` and `{IN, OUT}`, so a mask can be narrowed.
- The message run uses:
  - two senders, so one sender can insert while another is between its
    unlock and its `wake()`;
  - three messages, two handlers and delays 0 and 1, so messages tie and
    get reordered;
  - a clock up to 2;
  - timeouts -1 (infinite), 0 and 2.
- The shim runs use:
  - two threads;
  - a 2-bit counter (`UINT64_MAX = 3`), so writes of 1 and 2 reach the
    overflow check (`EAGAIN`);
  - in shim_modes, also a write of 3, which is `UINT64_MAX` and is refused
    with `EINVAL`;
  - five read, write and `eventfd_close` calls.
- shim_modes's socket holds one byte, so a blocking write blocks and a
  nonblocking one gets `EAGAIN`. Its table has one slot and there are two
  eventfds, so `eventfd()` meets `EMFILE`, and a slot is reused after
  `eventfd_close`.
- shim_close_race has two slots, two descriptor numbers and three eventfds.
  That is the least that lets a number be reused while a close is between
  its `close()` calls and `remove_ctx`.
- The lifecycle run has two table slots and descriptors for three wake fds.
  Three Loopers over the process's life are enough to fill the table.
- Each bound is the smallest that shows the case a property is about. Every
  mutant (PROJECT.json) is caught with these bounds.

Three more shim disagreements appear when the shim_modes constants are
changed. They are listed as hazards, not as runs:
- `FlagSets <- FlagsSemaphore` violates `ReadableIffCounter`: a semaphore
  read drains every byte but leaves the counter positive (part_001:208).
- `WriteVals = {0, 1}` violates `ReadableIffCounter`: `eventfd_write(fd, 0)`
  writes a byte and leaves the counter 0 (part_001:250).
- `ReadableIffCounter` is violated when it is extended to blocking
  eventfds, even when a reader between `BlockRead` and `Relock` is left
  out. A blocked reader consumes one byte, a second write adds one, and the
  relocked reader takes the whole counter. One byte is then left on a zero
  counter (part_001:205). The Looper only creates nonblocking eventfds.

The shim also raises the counter before a socket write that can fail with
`EAGAIN`, and then returns -1 (part_001:247). This is listed as a hazard
with no property: the Looper's `awoken()` reads whatever is there and does
not depend on that -1.

### Fairness

- The looper thread's steps are weakly fair. The code's `pollOnce` caller
  loops forever, and a runnable thread eventually runs.
- The wait is weakly fair to return when the wake fd is readable
  (`WaitWoken`) or its deadline has passed (`WaitTimeout`). This is what
  the kernel guarantees.
- A sender between unlock and `wake()` eventually calls it, and the clock
  advances.
- Fd readiness and signals get no fairness. They are the environment's
  choice and the properties must not rely on them.
- In the shim, a thread inside a call continues weakly fairly (`Continue`).
  Which calls are made is the callers' choice and gets no fairness.
- The runs set `CHECK_DEADLOCK FALSE`:
  - `pollOnce(-1)` with nothing registered, no message and no wake blocks
    forever in the real code too;
  - a shim caller may stop calling;
  - an aborted process stops.

## 4. Findings

1. **macOS wake is lost.**
   - The shim's `eventfd()` returns `sockets[0]` (part_001:178).
   - `Looper::wake()` writes to `mWakeEventFd` with a raw `write()`
     (Looper.cpp:497), so the bytes go to `sockets[1]`.
   - The registered descriptor never becomes readable.
   - As a result, `sendMessage` from another thread does not end an
     infinite wait, and neither do `wake()` or a scheduled rebuild.
2. **kqueue removal never deletes.** `removeSequenceNumberLocked` passes
   `mKqueueFd` where it should pass the request's fd to
   `createKqueueEventsForDelete` (Looper.cpp:724). The EV_DELETE therefore
   always fails with ENOENT. Every removal leaves its knote and schedules a
   full rebuild.
3. **Callbacks run after removal or replacement.**
   - The callback loop invokes `response.request.callback` from the snapshot
     taken under the lock (Looper.cpp:450).
   - A `removeFd`, or an `addFd` on the same fd, made by another thread in
     between does not stop it.
   - This contradicts spec §8 properties 2 and 5.
   - If that callback closes "its" fd, it closes the fd of the new
     registration.
4. **pollOnce drops the inner poll's result.**
   - `result` is a local of `pollOnce` that starts at 0 on every call
     (Looper.cpp:233).
   - When `pollInner` produced identifier responses, `pollOnce` returns the
     first identifier and the result is lost (Looper.cpp:249). The result
     is `POLL_WAKE` for every translated wait, or `POLL_CALLBACK` after a
     handler.
   - Spec §4.E step 2 and §5 ordering (4) say the result follows the
     identifiers.
5. **A blocking `eventfd_read` returns 0.**
   - The blocking path unlocks, reads a byte and relocks
     (part_001:198-205).
   - A second reader that took the counter in between leaves 0, and the
     first returns success with `*value = 0`.
   - In semaphore mode the counter is decremented from 0 and wraps.
6. **A blocking `eventfd_write` deadlocks with its readers.**
   - The socket write runs with `ctx->lock` held (part_001:251).
   - On a full socket it waits for a reader, and every reader first waits
     for that lock.
7. **Looper construction aborts after `MAX_EVENTFDS` Loopers.**
   - `unique_fd` closes the wake fd with `close()`, never `eventfd_close`
     (Looper.cpp:132).
   - A destroyed Looper's context stays in `ctx_table`, and its
     `sockets[1]` stays open.
   - Once 1024 Loopers have existed, `eventfd()` fails with `EMFILE`, and
     the constructor's `LOG_ALWAYS_FATAL_IF` (Looper.cpp:133) aborts,
     however few Loopers are alive.
   - A reused descriptor number is matched by `find_ctx` to the stale
     context first.
8. **`eventfd_close` can remove another eventfd's context.**
   - `eventfd_close` closes both sockets before `remove_ctx(fd)`
     (part_001:271-274).
   - `remove_ctx` clears the first slot whose context has `sock_r == fd`.
   - Between the two, another thread's `eventfd()` can get the same
     number.
   - If a free slot lies before the closing context's slot, the new context
     takes it, and `remove_ctx` clears the new context instead.
   - The closed context is then freed while it stays in `ctx_table`.
     `find_ctx` on the number returns freed memory, and the new eventfd is
     never found again.
   - TLC finds this with two slots and two threads in 12 states.

## 5. What is not modelled, and the plan

Modelled:
- the request table, the readiness multiplexer (epoll and kqueue), the
  message queue (with its abstract specification) and pollOnce/pollInner;
- the wake channel on both sides (Looper and the eventfd shim);
- the thread binding with the Looper's construction and destruction.

`pollAll` (Looper.cpp:465-489) changes no Looper state. It calls `pollOnce`
again while the result is `POLL_CALLBACK`, with the remaining time when the
timeout is positive. Those calls are among the looper thread's behaviours
already modelled, since it calls pollOnce repeatedly with any timeout in
`PollTimeouts`. Its own return value is not a model variable.

Not modelled:
- handler and callback reference counting (`WeakMessageHandler`,
  `SimpleLooperCallback`): they forward calls and hold no Looper state;
- logging (part_000);
- the CMake build;
- event bits ERROR/HANGUP, which are a translation with no control effect;
- `EPOLL_MAX_EVENTS`: the model's wait returns any subset of ready items;
- the 64-bit wrap of sequence numbers (out of reach at 2^64);
- `drain_socket`'s 128-byte reads: the model drains the whole buffer in
  one step, which is what the loop does;
- `malloc` and `pthread_mutex_init` failure in `eventfd()`: they free
  everything they took and return -1, with no state left behind.

Planned:
- a composition of Looper's wake with the shim's socket state, in place of
  the `WakeImpl` flag;
- an abstract specification of the request table (fd → registration) with
  Looper as a refinement.
