--------------------------- MODULE LooperLifecycle ---------------------------
(***************************************************************************)
(* Looper's thread binding (prepare / getForThread / setForThread) over    *)
(* the macOS eventfd shim. Each thread's gThreadLocalLooper holds a strong *)
(* reference; prepare on a thread without one constructs a Looper, whose   *)
(* constructor takes its wake fd from eventfd(0, EFD_NONBLOCK |            *)
(* EFD_CLOEXEC) and aborts (LOG_ALWAYS_FATAL) when that fails. When the    *)
(* last reference goes, the Looper is destroyed and its unique_fd closes   *)
(* the wake fd with close().                                               *)
(*                                                                         *)
(* A Looper is named by the socketpair of its wake fd. Only thread-local   *)
(* references are counted: the sp<Looper> prepare returns lives no longer *)
(* than the caller's frame.                                                *)
(***************************************************************************)
EXTENDS EventFdShim

VARIABLES
  bound,    \* thread -> the Looper its gThreadLocalLooper holds, or 0
  aborted   \* the process aborted in a Looper constructor

lifeVars == <<bound, aborted>>
allVars == <<vars, lifeVars>>

\* EFD_NONBLOCK | EFD_CLOEXEC; close-on-exec has no effect in the model.
LooperFlags == {"NONBLOCK"}

\* The Loopers some thread-local still holds.
LiveLoopers == Range(bound) \ {0}

\* prepare(opts) on a thread with no Looper: the constructor's eventfd()
\* either fails (socketpair out of descriptors, or ctx_table full: EMFILE)
\* and the process aborts, or gives the wake fd of a new Looper that
\* setForThread binds. On a thread that has one, prepare only returns it.
Prepare(t) ==
  /\ ~aborted /\ bound[t] = 0 /\ pc[t] = "idle"
  /\ \/ /\ Cardinality(FreeFds) < 2
        /\ aborted' = TRUE
        /\ UNCHANGED <<vars, bound>>
     \/ /\ EventFd(t, 0, LooperFlags)
        /\ IF FreeSlot = 0
           THEN aborted' = TRUE /\ UNCHANGED bound
           ELSE bound' = [bound EXCEPT ![t] = pairs + 1] /\ UNCHANGED aborted

\* The last reference to Looper l is dropped: ~Looper closes mWakeEventFd.
Destroy(t, l) == Close(t, ctx[l].sock_r)

\* setForThread(looper) replaces the thread-local reference: looper is
\* nullptr (also what the thread-local's destructor does when the thread
\* exits) or a Looper another thread prepared. The Looper it held is
\* destroyed if no other thread-local holds it.
SetForThread(t, l) ==
  LET old == bound[t] IN
  /\ ~aborted /\ pc[t] = "idle" /\ l # old
  /\ bound' = [bound EXCEPT ![t] = l]
  /\ IF old # 0 /\ \A u \in Threads \ {t} : bound[u] # old
     THEN Destroy(t, old)
     ELSE UNCHANGED vars
  /\ UNCHANGED aborted

LifeInit == Init /\ bound = [t \in Threads |-> 0] /\ aborted = FALSE

LifeNext ==
  \E t \in Threads :
    \/ Prepare(t)
    \/ \E l \in LiveLoopers \cup {0} : SetForThread(t, l)

LifeSpec == LifeInit /\ [][LifeNext]_allVars

-----------------------------------------------------------------------------
(* Properties                                                              *)

\* Creating Loopers on new threads does not abort the process while fewer
\* than MAX_EVENTFDS Loopers are alive: a destroyed Looper gives back its
\* wake fd's descriptors and its ctx_table slot.
LooperCreationBounded ==
  aborted => Cardinality(LiveLoopers) >= MAX_EVENTFDS

====
