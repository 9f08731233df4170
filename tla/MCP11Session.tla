--------------------------- MODULE MCP11Session ---------------------------
(***************************************************************************)
(* Two goroutines, two Sessions, two token handles: a closed handle may be *)
(* given to the second Session while the first is still referenced, or the *)
(* Sessions are open at once.                                              *)
(***************************************************************************)
EXTENDS P11Session

CONSTANTS t1, t2, s1, s2, h1, h2

TwoThreads  == {t1, t2}
TwoSessions == {s1, s2}
TwoHandles  == {h1, h2}
=============================================================================
