------------------------------ MODULE MCLooper ------------------------------
(***************************************************************************)
(* Model-checking instance of Looper. The .cfg files give the constants:   *)
(* threads, descriptor numbers, files and handlers are model values; the   *)
(* workload (ClientOps, CallbackOutcomes, PollTimeouts) and the bounds     *)
(* (MaxSeq, MaxMsgs, MaxTime) choose which question a run asks.            *)
(***************************************************************************)
EXTENDS Looper

\* Event masks: read only, or read and write.
MasksInput == {{"IN"}}
MasksInputOutput == {{"IN"}, {"IN", "OUT"}}

\* pollOnce(-1) only, or -1, 0 and a finite timeout.
TimeoutsInfinite == {-1}
TimeoutsAll == {-1, 0, 2}

\* The other threads are interchangeable (used only in safety runs).
ClientSymmetry == Permutations(Clients)

=============================================================================
