-------------------------- MODULE MCLooperLifecycle --------------------------
(***************************************************************************)
(* Model-checking instance of LooperLifecycle: threads are model values;   *)
(* the .cfg gives the descriptor numbers, the table size and the bound on  *)
(* Loopers constructed.                                                    *)
(***************************************************************************)
EXTENDS LooperLifecycle

\* The flags Looper's constructor passes to eventfd().
FlagsLooper == {LooperFlags}

=============================================================================
