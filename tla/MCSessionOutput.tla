-------------------------- MODULE MCSessionOutput --------------------------
(***************************************************************************)
(* One session with all seven operations, at most two of them at a time.   *)
(* The limit is 3 bytes instead of 64 MiB and 3 retries instead of 8: a    *)
(* module may report nothing, a byte, a length in between, the limit, one  *)
(* byte over it, and more, on each of its calls.                           *)
(***************************************************************************)
EXTENDS SessionOutput

SmallLengths == 0..(maxOutBuf + 2)
=============================================================================
