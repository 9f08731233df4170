------------------------------- MODULE MCCtx -------------------------------
(***************************************************************************)
(* Three goroutines: one that waits for slot events, one that finalises or *)
(* destroys, one that calls, in every assignment of those roles.           *)
(***************************************************************************)
EXTENDS Ctx

CONSTANTS t1, t2, t3

ThreeThreads == {t1, t2, t3}
TwoThreads   == {t1, t2}
=============================================================================
