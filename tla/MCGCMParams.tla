---------------------------- MODULE MCGCMParams ----------------------------
(* Three goroutines use one parameter block; anybody may free it.          *)
EXTENDS GCMParams

CONSTANTS t1, t2, t3

ThreeThreads == {t1, t2, t3}
=============================================================================
