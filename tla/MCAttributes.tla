---------------------------- MODULE MCAttributes ----------------------------
(***************************************************************************)
(* Templates of up to two attributes; a value is empty, or one, two, four  *)
(* or nine bytes long, or unavailable, and may become any of these while   *)
(* the method runs.  A C.int has three bits, and three is its greatest     *)
(* value: it makes a negative number of four bytes, and one of nine.       *)
(***************************************************************************)
EXTENDS Attributes
=============================================================================
