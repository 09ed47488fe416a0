---------------------------- MODULE MCEventFdShim ----------------------------
EXTENDS EventFdShim

\* Flags as Looper passes them (EFD_NONBLOCK | EFD_CLOEXEC; CLOEXEC has no
\* effect here), and the other modes eventfd(2) offers.
FlagsNonBlocking == {{"NONBLOCK"}}
FlagsSemaphore == {{"NONBLOCK", "SEMAPHORE"}}
FlagsBlocking == {{}}
FlagsBoth == {{"NONBLOCK"}, {}}
====
