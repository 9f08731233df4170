---------------------------- MODULE MCP11Module ----------------------------
(* Three goroutines share one p11.Module and all of them may close it.     *)
EXTENDS P11Module, TLC

CONSTANTS t1, t2, t3

ThreeThreads == {t1, t2, t3}
=============================================================================
