------------------------------ MODULE CKULong ------------------------------
(***************************************************************************)
(* Numbers between Go and the module.  A Go uint is 64 bits wide; a        *)
(* CK_ULONG has the size and the byte order of the platform, 8 bytes or    *)
(* (Windows) 4.  A byte string is a sequence of bytes.                     *)
(***************************************************************************)
LOCAL INSTANCE Integers
LOCAL INSTANCE Sequences

CONSTANTS
    ByteValues,    \* how many values a byte has: 256
    UintSize       \* the size of a Go uint in bytes: 8

ASSUME CKULongAssumption == ByteValues \in Nat \ {0, 1} /\ UintSize \in Nat \ {0}

\* A platform p: the size of its CK_ULONG and whether it is big-endian.
Platforms == [size : 1..UintSize, big : BOOLEAN]

\* The weight of the byte at place k, the least significant byte being at 0.
Weight[k \in 0..UintSize] == IF k = 0 THEN 1 ELSE ByteValues * Weight[k - 1]

\* The least number that does not fit.
Beyond(p) == Weight[p.size]

\* The place of byte i of a CK_ULONG.
Place(p, i) == IF p.big THEN p.size - i ELSE i - 1

\* What ckULong does in place of returning: it returns no empty byte string.
Panic == <<>>

\* Mutant: the value is truncated to the width of the platform.
ckULong_Truncates(p, v) ==
    [i \in 1..p.size |-> (v \div Weight[Place(p, i)]) % ByteValues]

ckULong(p, v) ==
    IF v % Beyond(p) # v
    THEN Panic
    ELSE [i \in 1..p.size |-> (v \div Weight[Place(p, i)]) % ByteValues]

\* NewAttribute of an int; of a uint it is ckULong.
NewAttributeInt(p, v) == IF v < 0 THEN Panic ELSE ckULong(p, v)

\* The byte of b at place k, 0 where b has none.
ByteAt(p, b, k) ==
    LET i == IF p.big THEN p.size - k ELSE k + 1
    IN  IF i \in DOMAIN b THEN b[i] ELSE 0

\* The number that the bytes of b at the places below k stand for.
Lower(p, b) ==
    LET sum[k \in 0..p.size] ==
            IF k = 0 THEN 0 ELSE sum[k - 1] + ByteAt(p, b, k - 1) * Weight[k - 1]
    IN  sum

\* The first bytes of b, as many as a CK_ULONG has, zeros added at the end.
BytesToULong(p, b) == Lower(p, b)[p.size]

\* ~0 in the width of a CK_ULONG, and in that of a Go uint.
ulongUnavailable(p)        == Beyond(p) - 1
CK_UNAVAILABLE_INFORMATION == Weight[UintSize] - 1

\* Mutant: the module's number is handed on as it is.
infoULong_Widened(p, v) == v

infoULong(p, v) == IF v = ulongUnavailable(p) THEN CK_UNAVAILABLE_INFORMATION ELSE v
=============================================================================
