--------------------------- MODULE MCMarshalling ---------------------------
(***************************************************************************)
(* Templates of up to two attributes whose values are empty, one or two    *)
(* bytes long, unavailable, or too long for a C.int, which has three bits: *)
(* of nine bytes it keeps one.  Lists of up to two entries, reported       *)
(* counts beyond the limit, searches of up to five objects in batches of   *)
(* two.                                                                    *)
(* Bytes of two values, a Go uint of four bytes and every narrower         *)
(* CK_ULONG, in both byte orders; every number and some that do not fit.   *)
(* Templates of up to three attributes, the nil pointer among them.        *)
(* Headers of three defines, of two bits, with aliases and names that are  *)
(* not known (which stand for any form genconst does not evaluate).        *)
(***************************************************************************)
EXTENDS Marshalling, SequencesExt

SmallValues == -1..(2 ^ 4)

SmallTemplates ==
    LET attributes == [type : {"SENSITIVE", "EXTRACTABLE", "PRIVATE", "LABEL"}, value : BOOLEAN]
    IN  BoundedSeq(attributes \cup {nil}, 3)

SmallHeaders ==
    LET literals == [bits : {{0}, {1}}, names : {{}}, bare : {FALSE}]
        aliases  == [bits : {{}}, names : {{0}, {1}, {2}, {3}}, bare : BOOLEAN]
        unions   == [bits : {{1}}, names : {{1}}, bare : {FALSE}]
        forms    == literals \cup aliases \cup unions
    IN  [1..3 -> {[bits |-> f.bits, names |-> f.names, bare |-> f.bare, cka |-> c] :
                     f \in forms, c \in BOOLEAN}]
=============================================================================
