-------------------------- MODULE MarshallingProofs --------------------------
(***************************************************************************)
(* Proofs about the helpers, as Marshalling runs them.  Attributes and     *)
(* Lists: for every template, every set of lengths and counts, every limit *)
(* and batch size, and any answers of the module.  The pure functions: for *)
(* every width and number, every template and every header; a definition   *)
(* by recursion over its data is first shown to have its table (Recursion),*)
(* and then followed entry by entry (UpTo).                                *)
(***************************************************************************)
EXTENDS Marshalling, WellFoundedInduction, TLAPS

-----------------------------------------------------------------------------
(* Induction and recursion over an interval of the naturals.               *)

\* The least-number principle, for sets.
LEMMA LeastElement ==
    ASSUME NEW T, T \subseteq Nat, T # {}
    PROVE  \E x \in T : \A y \in T : x <= y
  <1> DEFINE R == {ss \in Nat \X Nat : ss[1] < ss[2]}
  <1>1. IsWellFoundedOn(R, Nat)
    BY NatLessThanWellFounded DEF OpToRel
  <1>2. PICK x \in T : \A y \in T : <<y, x>> \notin R
    <2> HIDE DEF R
    <2> QED
      BY <1>1, WFMin
  <1>3. ASSUME NEW y \in T
        PROVE  x <= y
    <2>1. x \in Nat /\ y \in Nat
      OBVIOUS
    <2>2. <<y, x>> \in Nat \X Nat /\ <<y, x>>[1] = y /\ <<y, x>>[2] = x
      BY <2>1
    <2> QED
      BY <1>2, <2>1, <2>2
  <1> QED
    BY <1>3

\* What holds of 0 and is handed on up to n holds of each number up to n.
LEMMA UpTo ==
    ASSUME NEW n \in Nat, NEW P, 0 \in P, \A i \in 1..n : i - 1 \in P => i \in P
    PROVE  0..n \subseteq P
  <1> DEFINE T == {i \in 0..n : i \notin P}
  <1> SUFFICES ASSUME T # {}
               PROVE  FALSE
    OBVIOUS
  <1>1. PICK x \in T : \A y \in T : x <= y
    <2>1. T \subseteq Nat
      OBVIOUS
    <2> HIDE DEF T
    <2> QED
      BY <2>1, LeastElement
  <1>2. x \in 1..n /\ x - 1 \in 0..n /\ x - 1 \notin T
    BY <1>1
  <1> QED
    BY <1>2

\* A step function, applied over and over, has a table of its results.
LEMMA Recursion ==
    ASSUME NEW S, NEW s0 \in S, NEW n \in Nat, NEW F \in [1..n -> [S -> S]]
    PROVE  \E f \in [0..n -> S] : f[0] = s0 /\ \A i \in 1..n : f[i] = F[i][f[i - 1]]
  <1> DEFINE Table(f, m) == f[0] = s0 /\ \A i \in 1..m : f[i] = F[i][f[i - 1]]
             P == {m \in 0..n : \E f \in [0..m -> S] : Table(f, m)}
  <1>1. 0 \in P
    <2> DEFINE f == [i \in 0..0 |-> s0]
    <2>1. f \in [0..0 -> S] /\ Table(f, 0)
      OBVIOUS
    <2> HIDE DEF f
    <2> QED
      BY <2>1
  <1>2. ASSUME NEW m \in 1..n, m - 1 \in P
        PROVE  m \in P
    <2>1. PICK g \in [0..(m - 1) -> S] : Table(g, m - 1)
      BY <1>2
    <2> DEFINE f == [i \in 0..m |-> IF i = m THEN F[m][g[m - 1]] ELSE g[i]]
    <2>2. f \in [0..m -> S] /\ Table(f, m)
      BY <2>1
    <2>3. \E h \in [0..m -> S] : Table(h, m)
      <3> HIDE DEF f
      <3> QED
        BY <2>2
    <2>4. m \in 0..n
      OBVIOUS
    <2> QED
      BY <2>3, <2>4
  <1>3. 0..n \subseteq P
    <2> HIDE DEF P
    <2> QED
      BY <1>1, <1>2, UpTo
  <1> QED
    BY <1>3

-----------------------------------------------------------------------------
(* Numbers.                                                                *)

LEMMA WeightDef ==
    /\ Weight \in [0..UintSize -> Nat \ {0}]
    /\ Weight[0] = 1
    /\ \A k \in 1..UintSize : Weight[k] = ByteValues * Weight[k - 1]
  <1> DEFINE S == Nat
             one == 1
             F == [i \in 1..UintSize |-> [s \in S |-> ByteValues * s]]
             Def(f) == [k \in 0..UintSize |-> IF k = 0 THEN 1 ELSE ByteValues * f[k - 1]]
  <1>0. UintSize \in Nat /\ one \in S /\ F \in [1..UintSize -> [S -> S]]
    BY CKULongAssumption
  <1>1. \A i \in 1..UintSize, s \in S : F[i][s] = ByteValues * s
    OBVIOUS
  <1>2. PICK f \in [0..UintSize -> S] : f[0] = one /\ \A i \in 1..UintSize : f[i] = F[i][f[i - 1]]
    <2> HIDE DEF S, one, F
    <2> QED
      BY <1>0, Recursion
  <1>3. f = Def(f)
    <2>1. ASSUME NEW k \in 0..UintSize
          PROVE  f[k] = IF k = 0 THEN 1 ELSE ByteValues * f[k - 1]
      <3>1. CASE k # 0
        <4>1. k \in 1..UintSize /\ f[k - 1] \in S
          BY <3>1, CKULongAssumption
        <4> QED
          BY <4>1, <1>1, <1>2
      <3> QED
        BY <3>1, <1>2
    <2> QED
      BY <2>1
  <1>4. Weight = Def(Weight)
    <2>1. Weight = CHOOSE g : g = Def(g)
      BY DEF Weight
    <2> HIDE DEF Def
    <2> QED
      BY <2>1, <1>3
  <1>5. Weight[0] = 1 /\ \A k \in 1..UintSize : Weight[k] = ByteValues * Weight[k - 1]
    <2>1. \A k \in 0..UintSize : Weight[k] = IF k = 0 THEN 1 ELSE ByteValues * Weight[k - 1]
      BY <1>4
    <2> QED
      BY <2>1, <1>0
  <1>6. 0..UintSize \subseteq {k \in 0..UintSize : Weight[k] \in Nat \ {0}}
    <2> DEFINE P == {k \in 0..UintSize : Weight[k] \in Nat \ {0}}
    <2>1. 0 \in P
      BY <1>5, CKULongAssumption
    <2>2. ASSUME NEW k \in 1..UintSize, k - 1 \in P
          PROVE  k \in P
      BY <2>2, <1>5, CKULongAssumption
    <2>3. 0..UintSize \subseteq P
      <3> HIDE DEF P
      <3> QED
        BY <2>1, <2>2, UpTo, CKULongAssumption
    <2> QED
      BY <2>3
  <1>7. Weight \in [0..UintSize -> Nat \ {0}]
    BY <1>4, <1>6
  <1> QED
    BY <1>5, <1>7

LEMMA WeightGrows ==
    ASSUME NEW j \in 0..UintSize, NEW k \in 0..j
    PROVE  Weight[k] <= Weight[j] /\ (k < j => Weight[k] < Weight[j])
  <1> DEFINE P == {i \in 0..j : k <= i => Weight[k] <= Weight[i] /\ (k < i => Weight[k] < Weight[i])}
  <1>1. 0 \in P
    BY WeightDef, CKULongAssumption
  <1>2. ASSUME NEW i \in 1..j, i - 1 \in P
        PROVE  i \in P
    <2>1. i \in 1..UintSize /\ i - 1 \in 0..UintSize /\ k \in 0..UintSize
      BY CKULongAssumption
    <2>2. Weight[i - 1] \in Nat \ {0} /\ Weight[k] \in Nat \ {0} /\ Weight[i] = ByteValues * Weight[i - 1]
      BY <2>1, WeightDef
    <2>3. Weight[i] \in Nat /\ Weight[i] > Weight[i - 1]
      BY <2>2, CKULongAssumption
    <2> QED
      BY <1>2, <2>2, <2>3
  <1>3. 0..j \subseteq P
    <2> HIDE DEF P
    <2>1. j \in Nat
      BY CKULongAssumption
    <2> QED
      BY <1>1, <1>2, <2>1, UpTo
  <1> QED
    BY <1>3

\* The partial sums of n numbers.
LEMMA PartialSums ==
    ASSUME NEW n \in Nat, NEW T, \A i \in 1..n : T[i] \in Nat
    PROVE  \E f \in [0..n -> Nat] : f[0] = 0 /\ \A i \in 1..n : f[i] = f[i - 1] + T[i]
  <1> DEFINE S == Nat
             zero == 0
             F == [i \in 1..n |-> [s \in S |-> s + T[i]]]
  <1>1. F \in [1..n -> [S -> S]] /\ zero \in S
    OBVIOUS
  <1>2. PICK f \in [0..n -> S] : f[0] = zero /\ \A i \in 1..n : f[i] = F[i][f[i - 1]]
    <2> HIDE DEF S, zero, F
    <2> QED
      BY <1>1, Recursion
  <1>3. ASSUME NEW i \in 1..n
        PROVE  f[i] = f[i - 1] + T[i]
    <2>1. f[i - 1] \in S
      OBVIOUS
    <2> QED
      BY <1>2, <2>1
  <1> QED
    BY <1>2, <1>3

LEMMA LowerDef ==
    ASSUME NEW p \in Platforms, NEW b, \A k \in 0..(p.size - 1) : ByteAt(p, b, k) \in Nat
    PROVE  /\ Lower(p, b) \in [0..p.size -> Nat]
           /\ Lower(p, b)[0] = 0
           /\ \A k \in 1..p.size :
                  Lower(p, b)[k] = Lower(p, b)[k - 1] + ByteAt(p, b, k - 1) * Weight[k - 1]
  <1> DEFINE n == p.size
             Term(k) == ByteAt(p, b, k - 1) * Weight[k - 1]
             Def(f) == [k \in 0..n |-> IF k = 0 THEN 0 ELSE f[k - 1] + Term(k)]
             L == Lower(p, b)
  <1>1. n \in 1..UintSize /\ n \in Nat
    BY CKULongAssumption DEF Platforms
  <1>2. ASSUME NEW k \in 1..n
        PROVE  Term(k) \in Nat
    <2>1. k - 1 \in 0..(p.size - 1) /\ k - 1 \in 0..UintSize
      BY <1>1, CKULongAssumption
    <2>2. ByteAt(p, b, k - 1) \in Nat /\ Weight[k - 1] \in Nat
      BY <2>1, WeightDef
    <2> QED
      BY <2>2
  <1> HIDE DEF n, Term
  <1>3. PICK f \in [0..n -> Nat] : f[0] = 0 /\ \A i \in 1..n : f[i] = f[i - 1] + Term(i)
    <2> DEFINE T == [k \in 1..n |-> Term(k)]
    <2>1. \A k \in 1..n : T[k] = Term(k) /\ T[k] \in Nat
      BY <1>2
    <2> HIDE DEF T
    <2>2. PICK f \in [0..n -> Nat] : f[0] = 0 /\ \A i \in 1..n : f[i] = f[i - 1] + T[i]
      BY <1>1, <2>1, PartialSums
    <2> QED
      BY <2>1, <2>2
  <1>4. f = Def(f)
    <2>1. ASSUME NEW k \in 0..n
          PROVE  f[k] = IF k = 0 THEN 0 ELSE f[k - 1] + Term(k)
      BY <1>1, <1>3
    <2> QED
      BY <2>1
  <1>5. L = Def(L)
    <2>1. L = CHOOSE g : g = Def(g)
      BY DEF Lower, n, Term
    <2> HIDE DEF Def, L
    <2> QED
      BY <2>1, <1>4
  <1> HIDE DEF L
  <1>6. L[0] = 0 /\ \A k \in 1..n : L[k] = L[k - 1] + Term(k)
    <2>1. \A k \in 0..n : L[k] = IF k = 0 THEN 0 ELSE L[k - 1] + Term(k)
      BY <1>5
    <2> QED
      BY <2>1, <1>1
  <1>7. \A k \in 0..n : L[k] \in Nat
    <2> DEFINE P == {k \in 0..n : L[k] \in Nat}
    <2>1. 0 \in P
      BY <1>6, <1>1
    <2>2. ASSUME NEW k \in 1..n, k - 1 \in P
          PROVE  k \in P
      BY <2>2, <1>6, <1>2
    <2>3. 0..n \subseteq P
      <3> HIDE DEF P
      <3> QED
        BY <2>1, <2>2, <1>1, UpTo
    <2> QED
      BY <2>3
  <1>8. L \in [0..n -> Nat]
    BY <1>5, <1>7
  <1> QED
    BY <1>6, <1>8 DEF n, Term, L

\* Dividing by w and then by b divides by b * w.
LEMMA DivideTwice ==
    ASSUME NEW v \in Nat, NEW w \in Nat \ {0}, NEW b \in Nat \ {0}
    PROVE  v % (b * w) = (v % w) + ((v \div w) % b) * w
  <1> DEFINE q == v \div w
             r == v % w
             d == q % b
             q2 == q \div b
  <1>1. q \in Nat /\ r \in 0..(w - 1) /\ v = w * q + r
    OBVIOUS
  <1>2. q2 \in Nat /\ d \in 0..(b - 1) /\ q = b * q2 + d
    BY <1>1
  <1> HIDE DEF q, r, d, q2
  <1>3. v = (b * w) * q2 + (d * w + r)
    <2>1. w * (b * q2 + d) = (b * w) * q2 + d * w
      BY <1>2
    <2> QED
      BY <1>1, <1>2, <2>1
  <1>4. d * w + r \in 0..(b * w - 1)
    <2>1. d * w <= (b - 1) * w
      BY <1>2
    <2>2. (b - 1) * w = b * w - w
      OBVIOUS
    <2>3. d * w >= 0
      BY <1>2
    <2> QED
      BY <1>1, <1>2, <2>1, <2>2, <2>3
  <1>5. b * w \in Nat \ {0}
    OBVIOUS
  <1>6. ASSUME NEW n \in Nat \ {0}, NEW x \in Nat, NEW y \in 0..(n - 1)
        PROVE  (n * x + y) % n = y
    OBVIOUS
  <1>7. v % (b * w) = d * w + r
    BY <1>2, <1>3, <1>4, <1>5, <1>6
  <1> QED
    BY <1>1, <1>2, <1>7 DEF q, r, d

\* Bytes that are the digits of v, from the least significant one on, stand
\* for v modulo the weight of the next.
LEMMA LowerOfDigits ==
    ASSUME NEW p \in Platforms, NEW b, NEW v \in Nat,
           \A k \in 0..(p.size - 1) : ByteAt(p, b, k) = (v \div Weight[k]) % ByteValues
    PROVE  BytesToULong(p, b) = v % Beyond(p)
  <1> DEFINE L == Lower(p, b)
             P == {k \in 0..p.size : L[k] = v % Weight[k]}
  <1>1. p.size \in Nat /\ p.size \in 1..UintSize
    BY CKULongAssumption DEF Platforms
  <1>2. ASSUME NEW k \in 0..(p.size - 1)
        PROVE  /\ Weight[k] \in Nat \ {0}
               /\ v \div Weight[k] \in Nat
               /\ ByteAt(p, b, k) \in Nat
    <2>1. Weight[k] \in Nat \ {0}
      BY <1>1, WeightDef, CKULongAssumption
    <2>2. v \div Weight[k] \in Nat
      BY <2>1
    <2>3. ByteAt(p, b, k) = (v \div Weight[k]) % ByteValues
      OBVIOUS
    <2> QED
      BY <2>1, <2>2, <2>3, CKULongAssumption
  <1>3. /\ L[0] = 0
        /\ \A k \in 1..p.size : L[k] = L[k - 1] + ByteAt(p, b, k - 1) * Weight[k - 1]
    BY <1>2, LowerDef
  <1> HIDE DEF L
  <1>4. 0 \in P
    BY <1>1, <1>3, WeightDef
  <1>5. ASSUME NEW k \in 1..p.size, k - 1 \in P
        PROVE  k \in P
    <2>1. k \in 1..UintSize /\ k - 1 \in 0..(p.size - 1)
      BY <1>1, CKULongAssumption
    <2>2. L[k] = (v % Weight[k - 1]) + ((v \div Weight[k - 1]) % ByteValues) * Weight[k - 1]
      BY <1>3, <1>5, <2>1
    <2>3. Weight[k] = ByteValues * Weight[k - 1] /\ Weight[k - 1] \in Nat \ {0}
      BY <2>1, <1>2, WeightDef
    <2>4. v % (ByteValues * Weight[k - 1])
             = (v % Weight[k - 1]) + ((v \div Weight[k - 1]) % ByteValues) * Weight[k - 1]
      BY <2>3, DivideTwice, CKULongAssumption
    <2> QED
      BY <2>2, <2>3, <2>4
  <1>6. p.size \in P
    <2> HIDE DEF P
    <2>1. 0..p.size \subseteq P
      BY <1>1, <1>4, <1>5, UpTo
    <2> QED
      BY <1>1, <2>1
  <1> QED
    BY <1>6 DEF BytesToULong, Beyond, L

LEMMA BeyondType == ASSUME NEW p \in Platforms PROVE Beyond(p) \in Nat \ {0}
  BY WeightDef, CKULongAssumption DEF Beyond, Platforms

\* A number that fits is encoded in the bytes of a CK_ULONG; another one panics.
LEMMA Encoded ==
    ASSUME NEW p \in Platforms, NEW v \in Int
    PROVE  IF v \in 0..(Beyond(p) - 1)
           THEN NewAttributeInt(p, v) =
                    [i \in 1..p.size |-> (v \div Weight[Place(p, i)]) % ByteValues]
           ELSE NewAttributeInt(p, v) = Panic
  <1>1. v >= 0 => (v % Beyond(p) = v <=> v < Beyond(p))
    BY BeyondType
  <1> QED
    BY <1>1, BeyondType DEF NewAttributeInt, ckULong

\* Decoding what was encoded, whatever follows, and without the leading zeros
\* of a little-endian value.
LEMMA Decoded ==
    ASSUME NEW p \in Platforms, NEW v \in 0..(Beyond(p) - 1), NEW b,
           b = [i \in 1..p.size |-> (v \div Weight[Place(p, i)]) % ByteValues]
    PROVE  /\ BytesToULong(p, b \o <<1>>) = v
           /\ \A k \in 1..p.size :
                  ~p.big /\ (\A i \in (k + 1)..p.size : b[i] = 0)
                      => BytesToULong(p, SubSeq(b, 1, k)) = v
  <1>1. p.size \in 1..UintSize /\ p.size \in Nat /\ p.big \in BOOLEAN
    BY CKULongAssumption DEF Platforms
  <1>2. v \in Nat /\ v % Beyond(p) = v
    BY BeyondType
  <1>0. ASSUME NEW k \in 0..(p.size - 1)
        PROVE  Weight[k] \in Nat \ {0} /\ (v \div Weight[k]) % ByteValues \in Nat
    <2>1. Weight[k] \in Nat \ {0}
      BY <1>1, WeightDef, CKULongAssumption
    <2>2. v \div Weight[k] \in Nat
      BY <2>1, <1>2
    <2> QED
      BY <2>1, <2>2, CKULongAssumption
  <1>3. b \in Seq(Nat) /\ Len(b) = p.size
    <2>1. ASSUME NEW i \in 1..p.size
          PROVE  (v \div Weight[Place(p, i)]) % ByteValues \in Nat
      <3>1. Place(p, i) \in 0..(p.size - 1)
        BY <1>1 DEF Place
      <3> QED
        BY <3>1, <1>0
    <2>2. b \in [1..p.size -> Nat]
      BY <2>1
    <2> QED
      BY <2>2, <1>1
  <1>4. BytesToULong(p, b \o <<1>>) = v
    <2>1. ASSUME NEW k \in 0..(p.size - 1)
          PROVE  ByteAt(p, b \o <<1>>, k) = (v \div Weight[k]) % ByteValues
      <3> DEFINE i == IF p.big THEN p.size - k ELSE k + 1
      <3>1. i \in 1..p.size /\ Place(p, i) = k
        BY <1>1 DEF Place
      <3> HIDE DEF i
      <3>2. DOMAIN (b \o <<1>>) = 1..(p.size + 1) /\ (b \o <<1>>)[i] = b[i]
        BY <1>1, <1>3, <3>1
      <3>3. b[i] = (v \div Weight[k]) % ByteValues
        BY <3>1
      <3> QED
        BY <1>1, <3>1, <3>2, <3>3 DEF ByteAt, i
    <2> QED
      BY <1>2, <2>1, LowerOfDigits
  <1>5. ASSUME NEW n \in 1..p.size, ~p.big, \A i \in (n + 1)..p.size : b[i] = 0
        PROVE  BytesToULong(p, SubSeq(b, 1, n)) = v
    <2>1. ASSUME NEW k \in 0..(p.size - 1)
          PROVE  ByteAt(p, SubSeq(b, 1, n), k) = (v \div Weight[k]) % ByteValues
      <3>1. DOMAIN SubSeq(b, 1, n) = 1..n /\ \A i \in 1..n : SubSeq(b, 1, n)[i] = b[i]
        BY <1>1, <1>3
      <3>2. k + 1 \in 1..p.size /\ Place(p, k + 1) = k
        BY <1>1, <1>5 DEF Place
      <3>3. b[k + 1] = (v \div Weight[k]) % ByteValues
        BY <3>2
      <3>4. CASE k < n
        <4>1. k + 1 \in 1..n
          BY <3>2, <3>4
        <4> QED
          BY <1>5, <3>1, <3>3, <4>1 DEF ByteAt
      <3>5. CASE n <= k
        <4>1. k + 1 \in (n + 1)..p.size /\ k + 1 \notin 1..n
          BY <3>2, <3>5
        <4>2. ByteAt(p, SubSeq(b, 1, n), k) = 0
          BY <1>5, <3>1, <4>1 DEF ByteAt
        <4> QED
          BY <1>5, <3>3, <4>1, <4>2
      <3> QED
        BY <3>4, <3>5, <1>1
    <2> QED
      BY <1>2, <2>1, LowerOfDigits
  <1> QED
    BY <1>4, <1>5

\* The marker of the module, all bits set, is the greatest number of its width.
LEMMA MarkerIsGreatest ==
    ASSUME NEW p \in Platforms
    PROVE  BytesToULong(p, [i \in 1..p.size |-> ByteValues - 1]) = ulongUnavailable(p)
  <1> DEFINE b == [i \in 1..p.size |-> ByteValues - 1]
             L == Lower(p, b)
             P == {k \in 0..p.size : L[k] = Weight[k] - 1}
  <1>1. p.size \in 1..UintSize /\ p.size \in Nat /\ p.big \in BOOLEAN
    BY CKULongAssumption DEF Platforms
  <1>2. \A k \in 0..(p.size - 1) : ByteAt(p, b, k) = ByteValues - 1 /\ ByteAt(p, b, k) \in Nat
    BY <1>1, CKULongAssumption DEF ByteAt
  <1> HIDE DEF b
  <1>3. /\ L[0] = 0
        /\ \A k \in 1..p.size : L[k] = L[k - 1] + ByteAt(p, b, k - 1) * Weight[k - 1]
    BY <1>2, LowerDef
  <1> HIDE DEF L
  <1>4. 0 \in P
    BY <1>1, <1>3, WeightDef
  <1>5. ASSUME NEW k \in 1..p.size, k - 1 \in P
        PROVE  k \in P
    <2>1. k \in 1..UintSize /\ k - 1 \in 0..(p.size - 1) /\ k - 1 \in 0..UintSize
      BY <1>1, CKULongAssumption
    <2>2. Weight[k] = ByteValues * Weight[k - 1] /\ Weight[k - 1] \in Nat
      BY <2>1, WeightDef
    <2>3. L[k] = (Weight[k - 1] - 1) + (ByteValues - 1) * Weight[k - 1]
      BY <1>2, <1>3, <1>5, <2>1
    <2>4. (ByteValues - 1) * Weight[k - 1] = ByteValues * Weight[k - 1] - Weight[k - 1]
      BY <2>2, CKULongAssumption
    <2> QED
      BY <2>2, <2>3, <2>4, CKULongAssumption
  <1>6. p.size \in P
    <2> HIDE DEF P
    <2>1. 0..p.size \subseteq P
      BY <1>1, <1>4, <1>5, UpTo
    <2> QED
      BY <1>1, <2>1
  <1> QED
    BY <1>6 DEF BytesToULong, ulongUnavailable, Beyond, L, b

\* Only the module's marker becomes the marker of Go.
LEMMA OnlyMarkerMatches ==
    ASSUME NEW p \in Platforms, NEW v \in 0..(Beyond(p) - 1), v # ulongUnavailable(p)
    PROVE  v # CK_UNAVAILABLE_INFORMATION
  <1>1. p.size \in 1..UintSize /\ UintSize \in 0..UintSize /\ p.size \in 0..UintSize
    BY CKULongAssumption DEF Platforms
  <1>2. Weight[p.size] <= Weight[UintSize]
    BY <1>1, WeightGrows
  <1>3. Weight[p.size] \in Nat /\ Weight[UintSize] \in Nat
    BY <1>1, WeightDef
  <1> QED
    BY <1>2, <1>3 DEF ulongUnavailable, CK_UNAVAILABLE_INFORMATION, Beyond

-----------------------------------------------------------------------------
(* Templates.                                                              *)

\* The places of full after the caller's own attributes.
Added(caller, full) == (Len(caller) + 1)..Len(full)

\* full is caller, completed by those attributes of done that it does not set.
Completes(full, caller, done) ==
    /\ \A i \in Added(caller, full) : full[i] \in done /\ ~hasAttribute(caller, full[i])
    /\ \A i, j \in Added(caller, full) : full[i] = full[j] => i = j
    /\ \A d \in done : hasAttribute(caller, d) \/ \E i \in Added(caller, full) : full[i] = d

\* ... and caller is the beginning of full.
FilledUp(X, full, caller, done) ==
    /\ full \in Seq(X) /\ Len(caller) <= Len(full)
    /\ \A i \in 1..Len(caller) : full[i] = caller[i]
    /\ Completes(full, caller, done)

LEMMA FillCompletes ==
    ASSUME NEW X, Defaults \subseteq X, NEW caller \in Seq(X), NEW full, NEW done,
           FilledUp(X, full, caller, done), NEW a \in Defaults \ done
    PROVE  FilledUp(X, Fill(full, caller, a), caller, done \cup {a})
  <1> USE DEF FilledUp
  <1>1. CASE hasAttribute(caller, a)
    BY <1>1 DEF Fill, Completes
  <1>2. CASE ~hasAttribute(caller, a)
    <2> DEFINE more == Append(full, a)
               last == Len(full) + 1
    <2>1. /\ more \in Seq(X) /\ Len(more) = last /\ more[last] = a
          /\ \A i \in 1..Len(full) : more[i] = full[i]
      OBVIOUS
    <2>2. Len(caller) \in Nat /\ Len(full) \in Nat
      OBVIOUS
    <2> HIDE DEF more
    <2>3. Added(caller, more) = Added(caller, full) \cup {last} /\ last \notin Added(caller, full)
      BY <2>1, <2>2 DEF Added
    <2>4. \A i \in Added(caller, full) : more[i] = full[i]
      BY <2>1, <2>2 DEF Added
    <2>5. Completes(more, caller, done \cup {a})
      <3> HIDE DEF last
      <3>1. \A i \in Added(caller, more) : more[i] \in done \cup {a} /\ ~hasAttribute(caller, more[i])
        BY <1>2, <2>1, <2>3, <2>4 DEF Completes
      <3>2. \A i, j \in Added(caller, more) : more[i] = more[j] => i = j
        BY <2>1, <2>3, <2>4 DEF Completes
      <3>3. \A d \in done \cup {a} :
                hasAttribute(caller, d) \/ \E i \in Added(caller, more) : more[i] = d
        BY <2>1, <2>3, <2>4 DEF Completes
      <3> QED
        BY <3>1, <3>2, <3>3 DEF Completes
    <2>6. Fill(full, caller, a) = more
      BY <1>2 DEF Fill, more
    <2> QED
      BY <2>1, <2>2, <2>5, <2>6
  <1> QED
    BY <1>1, <1>2

LEMMA WithDefaults ==
    ASSUME NEW X, Defaults \subseteq X, NEW caller \in Seq(X)
    PROVE  FilledUp(X, withSecureDefaults(caller, TRUE), caller, Defaults)
  <1> DEFINE one   == Fill(caller, caller, Sensitive)
             two   == Fill(one, caller, Unextractable)
             three == Fill(two, caller, Private)
  <1>1. /\ Sensitive \in Defaults /\ Unextractable \in Defaults /\ Private \in Defaults
        /\ Sensitive # Unextractable /\ Sensitive # Private /\ Unextractable # Private
    BY DEF Defaults, Sensitive, Unextractable, Private
  <1>2. FilledUp(X, caller, caller, {})
    <2>1. Added(caller, caller) = {}
      BY DEF Added
    <2> QED
      BY <2>1 DEF Completes, FilledUp
  <1>3. FilledUp(X, one, caller, {Sensitive})
    <2>1. FilledUp(X, one, caller, {} \cup {Sensitive})
      BY <1>1, <1>2, FillCompletes
    <2> QED
      BY <2>1
  <1> HIDE DEF one
  <1>4. FilledUp(X, two, caller, {Sensitive} \cup {Unextractable})
    BY <1>1, <1>3, FillCompletes
  <1> HIDE DEF two
  <1>5. FilledUp(X, three, caller, ({Sensitive} \cup {Unextractable}) \cup {Private})
    <2>1. Private \in Defaults \ ({Sensitive} \cup {Unextractable})
      BY <1>1
    <2> QED
      BY <1>4, <2>1, FillCompletes
  <1>6. ({Sensitive} \cup {Unextractable}) \cup {Private} = Defaults
    BY DEF Defaults
  <1>7. withSecureDefaults(caller, TRUE) = three
    BY DEF withSecureDefaults, three, two, one
  <1> QED
    BY <1>5, <1>6, <1>7

\* The defaults are of different types.
LEMMA DefaultsDiffer == \A c, d \in Defaults : c.type = d.type => c = d
  <1>1. Sensitive.type = "SENSITIVE" /\ Unextractable.type = "EXTRACTABLE" /\ Private.type = "PRIVATE"
    BY DEF Sensitive, Unextractable, Private
  <1> QED
    BY <1>1 DEF Defaults

LEMMA GapsFilled ==
    ASSUME NEW X, Defaults \subseteq X, NEW caller \in Seq(X)
    PROVE  LET key == withSecureDefaults(caller, TRUE)
           IN  /\ SubSeq(key, 1, Len(caller)) = caller
               /\ \A i \in DOMAIN key \ 1..Len(caller) : key[i] \in Defaults
               /\ \A d \in Defaults :
                      LET set == Settings(key, d.type)
                      IN  IF set \cap 1..Len(caller) # {} THEN set \subseteq 1..Len(caller)
                          ELSE \E i \in DOMAIN key : set = {i} /\ key[i] = d
  <1> DEFINE key == withSecureDefaults(caller, TRUE)
  <1>1. /\ key \in Seq(X) /\ Len(caller) <= Len(key)
        /\ \A i \in 1..Len(caller) : key[i] = caller[i]
        /\ Completes(key, caller, Defaults)
    BY WithDefaults DEF FilledUp
  <1> HIDE DEF key
  <1>2. /\ DOMAIN key = 1..Len(key) /\ DOMAIN caller = 1..Len(caller)
        /\ Len(caller) \in Nat /\ Len(key) \in Nat
    BY <1>1
  <1>3. DOMAIN key \ 1..Len(caller) = Added(caller, key)
    BY <1>1, <1>2 DEF Added
  <1>4. SubSeq(key, 1, Len(caller)) = caller
    <2>1. SubSeq(key, 1, Len(caller)) \in Seq(X) /\ Len(SubSeq(key, 1, Len(caller))) = Len(caller)
      BY <1>1, <1>2
    <2>2. \A i \in 1..Len(caller) : SubSeq(key, 1, Len(caller))[i] = caller[i]
      BY <1>1, <1>2
    <2> QED
      BY <2>1, <2>2, <1>2
  <1>6. ASSUME NEW d \in Defaults
        PROVE  LET set == Settings(key, d.type)
               IN  IF set \cap 1..Len(caller) # {} THEN set \subseteq 1..Len(caller)
                   ELSE \E i \in DOMAIN key : set = {i} /\ key[i] = d
    <2> DEFINE set == Settings(key, d.type)
               own == 1..Len(caller)
    <2>0. \A i : i \in set <=> i \in DOMAIN key /\ key[i] # nil /\ key[i].type = d.type
      BY DEF Settings
    <2>5. own \subseteq DOMAIN key
      BY <1>1, <1>2
    <2> HIDE DEF set
    <2>1. hasAttribute(caller, d) <=> set \cap own # {}
      <3>1. own = DOMAIN caller /\ \A i \in own : key[i] = caller[i]
        BY <1>1, <1>2
      <3> HIDE DEF own
      <3> QED
        BY <2>0, <2>5, <3>1 DEF hasAttribute
    <2>2. ASSUME NEW i \in set, i \notin own
          PROVE  i \in Added(caller, key) /\ key[i] = d /\ ~hasAttribute(caller, d)
      <3>1. i \in Added(caller, key) /\ key[i].type = d.type
        BY <2>0, <2>2, <1>3
      <3>2. key[i] \in Defaults /\ ~hasAttribute(caller, key[i])
        BY <3>1, <1>1 DEF Completes
      <3> QED
        BY <3>1, <3>2, DefaultsDiffer
    <2>3. CASE hasAttribute(caller, d)
      BY <2>1, <2>2, <2>3 DEF set
    <2>4. CASE ~hasAttribute(caller, d)
      <3>1. PICK i \in Added(caller, key) : key[i] = d
        BY <2>4, <1>1 DEF Completes
      <3>2. i \in DOMAIN key /\ i \in set
        BY <2>0, <3>1, <1>3, NilAssumption
      <3>3. ASSUME NEW j \in set
            PROVE  j = i
        <4>1. j \in Added(caller, key) /\ key[j] = d
          <5>1. j \notin own
            BY <2>1, <2>4
          <5> QED
            BY <2>2, <5>1
        <4> QED
          BY <4>1, <3>1, <1>1 DEF Completes
      <3>4. set = {i}
        BY <3>2, <3>3
      <3> QED
        BY <2>1, <2>4, <3>1, <3>2, <3>4 DEF set
    <2> QED
      BY <2>3, <2>4
  <1>7. \A i \in DOMAIN key \ 1..Len(caller) : key[i] \in Defaults
    BY <1>1, <1>3 DEF Completes
  <1> QED
    BY <1>4, <1>6, <1>7 DEF key

-----------------------------------------------------------------------------
(* Values of defines.                                                      *)

\* Define i gets its value from those before it, or none.
Valued(defines, i, before) ==
    LET e == evalExpr(defines[i], before)
    IN  IF e.ok THEN [k \in DOMAIN before \cup {i} |-> IF k = i THEN e.value ELSE before[k]]
                ELSE before

LEMMA KnownDef ==
    ASSUME NEW defines, Len(defines) \in Nat
    PROVE  LET known == Known(defines)
           IN  /\ known[0] = <<>>
               /\ \A i \in 1..Len(defines) : known[i] = Valued(defines, i, known[i - 1])
  <1> DEFINE n == Len(defines)
             B == UNION {defines[i].bits : i \in 1..n}
             S == UNION {[W -> SUBSET B] : W \in SUBSET (1..n)}
             none == <<>>
             Step(i, s) == Valued(defines, i, s)
             F == [i \in 1..n |-> [s \in S |-> Step(i, s)]]
             Def(f) == [i \in 0..n |-> IF i = 0 THEN none ELSE Step(i, f[i - 1])]
             known == Known(defines)
  <1>1. none \in S
    <2>1. none \in [{} -> SUBSET B]
      OBVIOUS
    <2> QED
      BY <2>1
  <1>2. ASSUME NEW i \in 1..n, NEW s \in S
        PROVE  Step(i, s) \in S
    <2>1. PICK W \in SUBSET (1..n) : s \in [W -> SUBSET B]
      OBVIOUS
    <2> DEFINE e == evalExpr(defines[i], s)
               set == [k \in DOMAIN s \cup {i} |-> IF k = i THEN e.value ELSE s[k]]
    <2>2. e.value \in SUBSET B
      <3>1. defines[i].bits \subseteq B
        OBVIOUS
      <3>2. \A k \in DOMAIN s : s[k] \subseteq B
        BY <2>1
      <3> HIDE DEF B
      <3> QED
        BY <3>1, <3>2 DEF evalExpr
    <2> HIDE DEF e
    <2>3. CASE Step(i, s) = s
      BY <2>3
    <2>4. CASE Step(i, s) = set
      <3>1. set \in [W \cup {i} -> SUBSET B]
        <4> HIDE DEF B
        <4> QED
          BY <2>1, <2>2
      <3>2. W \cup {i} \in SUBSET (1..n)
        OBVIOUS
      <3> QED
        BY <2>4, <3>1, <3>2
    <2> QED
      BY <2>3, <2>4 DEF Valued, e
  <1>9. n \in Nat
    OBVIOUS
  <1> HIDE DEF S, none, Step, n
  <1>3. F \in [1..n -> [S -> S]]
    BY <1>2
  <1>4. \A i \in 1..n, s \in S : F[i][s] = Step(i, s)
    OBVIOUS
  <1>5. PICK f \in [0..n -> S] : f[0] = none /\ \A i \in 1..n : f[i] = F[i][f[i - 1]]
    <2> HIDE DEF F
    <2> QED
      BY <1>9, <1>1, <1>3, Recursion
  <1> HIDE DEF F
  <1>6. f = Def(f)
    <2>1. ASSUME NEW i \in 0..n
          PROVE  f[i] = IF i = 0 THEN none ELSE Step(i, f[i - 1])
      <3>1. CASE i # 0
        <4>1. i \in 1..n /\ f[i - 1] \in S
          BY <3>1, <1>9
        <4> QED
          BY <4>1, <1>4, <1>5
      <3> QED
        BY <3>1, <1>5
    <2> QED
      BY <2>1
  <1>7. known = Def(known)
    <2>1. known = CHOOSE g : g = Def(g)
      BY DEF Known, n, none, Step, Valued
    <2> HIDE DEF Def, known
    <2> QED
      BY <2>1, <1>6
  <1> HIDE DEF known
  <1>8. known[0] = none /\ \A i \in 1..n : known[i] = Step(i, known[i - 1])
    <2>1. \A i \in 0..n : known[i] = IF i = 0 THEN none ELSE Step(i, known[i - 1])
      BY <1>7
    <2> QED
      BY <2>1, <1>9
  <1> QED
    BY <1>8 DEF n, none, Step, known

\* The value of define i, and of what it names, according to f.
Solves(defines, i, f) ==
    /\ \A k \in defines[i].names : k \in DOMAIN f /\ k < i
    /\ f[i] = defines[i].bits \cup UNION {f[k] : k \in defines[i].names}

LEMMA EvaluateSolves ==
    ASSUME NEW defines, Len(defines) \in Nat
    PROVE  \A i \in DOMAIN evaluate(defines) : Solves(defines, i, evaluate(defines))
  <1> DEFINE n == Len(defines)
             known == Known(defines)
             Good(i) == /\ DOMAIN known[i] \subseteq 1..i
                        /\ \A k \in DOMAIN known[i] : Solves(defines, k, known[i])
             P == {i \in 0..n : Good(i)}
  <1>1. known[0] = <<>> /\ \A i \in 1..n : known[i] = Valued(defines, i, known[i - 1])
    BY KnownDef
  <1>2. n \in Nat
    OBVIOUS
  <1>0. evaluate(defines) = known[n]
    BY DEF evaluate
  <1> HIDE DEF n, known
  <1>3. 0 \in P
    BY <1>1, <1>2
  <1>4. ASSUME NEW i \in 1..n, i - 1 \in P
        PROVE  i \in P
    <2> DEFINE before == known[i - 1]
               e == evalExpr(defines[i], before)
               after == known[i]
    <2>1. /\ DOMAIN before \subseteq 1..(i - 1)
          /\ \A k \in DOMAIN before : Solves(defines, k, before)
      BY <1>4
    <2>2. after = IF e.ok THEN [k \in DOMAIN before \cup {i} |-> IF k = i THEN e.value ELSE before[k]]
                          ELSE before
      BY <1>1 DEF Valued
    <2>3. /\ e.ok <=> defines[i].names \subseteq DOMAIN before
          /\ e.value = defines[i].bits
                 \cup UNION {before[k] : k \in defines[i].names \cap DOMAIN before}
      BY DEF evalExpr
    <2>0. i \in 0..n /\ 1..(i - 1) \subseteq 1..i /\ i \in 1..i /\ i \notin 1..(i - 1)
          /\ \A k \in 1..(i - 1) : k < i
      BY <1>2
    <2> HIDE DEF before, e, after
    <2>4. CASE ~e.ok
      <3>1. Good(i)
        BY <2>1, <2>2, <2>4, <2>0 DEF before, after
      <3> QED
        BY <3>1, <2>0
    <2>5. CASE e.ok
      <3>1. DOMAIN after = DOMAIN before \cup {i} /\ after[i] = e.value
            /\ \A k \in DOMAIN before : after[k] = before[k]
        BY <2>1, <2>2, <2>5, <2>0
      <3>2. Solves(defines, i, after)
        <4>1. defines[i].names \subseteq DOMAIN before
          BY <2>3, <2>5
        <4>2. \A k \in defines[i].names : k \in DOMAIN after /\ k < i
          BY <4>1, <3>1, <2>1, <2>0
        <4>3. defines[i].names \cap DOMAIN before = defines[i].names
          BY <4>1
        <4>4. {before[k] : k \in defines[i].names} = {after[k] : k \in defines[i].names}
          BY <4>1, <3>1
        <4> QED
          BY <2>3, <3>1, <4>2, <4>3, <4>4 DEF Solves
      <3>3. ASSUME NEW j \in DOMAIN before
            PROVE  Solves(defines, j, after)
        <4>1. Solves(defines, j, before)
          BY <2>1
        <4>2. {before[k] : k \in defines[j].names} = {after[k] : k \in defines[j].names}
          BY <4>1, <3>1 DEF Solves
        <4> QED
          BY <3>1, <4>1, <4>2 DEF Solves
      <3>4. DOMAIN after \subseteq 1..i
        BY <2>1, <2>0, <3>1
      <3>5. Good(i)
        BY <3>1, <3>2, <3>3, <3>4 DEF after
      <3> QED
        BY <3>5, <2>0
    <2> QED
      BY <2>4, <2>5
  <1>5. 0..n \subseteq P
    <2> HIDE DEF P
    <2> QED
      BY <1>2, <1>3, <1>4, UpTo
  <1>6. Good(n)
    <2>1. n \in 0..n
      BY <1>2
    <2> QED
      BY <1>5, <2>1
  <1> QED
    BY <1>6, <1>0

-----------------------------------------------------------------------------
(* Names.                                                                  *)

\* Define i takes its value from the names before it, or leaves them.
Named(defines, values, i, before) ==
    LET v == values[i]
    IN  IF defines[i].cka /\ Supersedes(defines[i], v, before)
        THEN [w \in DOMAIN before \cup {v} |-> IF w = v THEN i ELSE before[w]]
        ELSE before

LEMMA NamesDef ==
    ASSUME NEW defines, Len(defines) \in Nat, NEW values
    PROVE  LET names == Names(defines, values)
           IN  /\ names[0] = <<>>
               /\ \A i \in 1..Len(defines) : names[i] = Named(defines, values, i, names[i - 1])
  <1> DEFINE n == Len(defines)
             V == {values[i] : i \in 1..n}
             S == UNION {[W -> 1..n] : W \in SUBSET V}
             none == <<>>
             Step(i, s) == Named(defines, values, i, s)
             F == [i \in 1..n |-> [s \in S |-> Step(i, s)]]
             Def(f) == [i \in 0..n |-> IF i = 0 THEN none ELSE Step(i, f[i - 1])]
             names == Names(defines, values)
  <1>1. none \in S
    <2>1. none \in [{} -> 1..n]
      OBVIOUS
    <2> QED
      BY <2>1
  <1>2. ASSUME NEW i \in 1..n, NEW s \in S
        PROVE  Step(i, s) \in S
    <2>1. PICK W \in SUBSET V : s \in [W -> 1..n]
      OBVIOUS
    <2>2. CASE Step(i, s) = s
      BY <2>2
    <2>3. CASE Step(i, s) = [w \in DOMAIN s \cup {values[i]} |-> IF w = values[i] THEN i ELSE s[w]]
      <3>1. Step(i, s) \in [W \cup {values[i]} -> 1..n]
        BY <2>1, <2>3
      <3>2. W \cup {values[i]} \in SUBSET V
        OBVIOUS
      <3> QED
        BY <3>1, <3>2
    <2> QED
      BY <2>2, <2>3 DEF Named
  <1>9. n \in Nat
    OBVIOUS
  <1> HIDE DEF S, none, Step, n
  <1>3. F \in [1..n -> [S -> S]]
    BY <1>2
  <1>8. \A i \in 1..n, s \in S : F[i][s] = Step(i, s)
    OBVIOUS
  <1>4. PICK f \in [0..n -> S] : f[0] = none /\ \A i \in 1..n : f[i] = F[i][f[i - 1]]
    <2> HIDE DEF F
    <2> QED
      BY <1>9, <1>1, <1>3, Recursion
  <1> HIDE DEF F
  <1>5. f = Def(f)
    <2>1. ASSUME NEW i \in 0..n
          PROVE  f[i] = IF i = 0 THEN none ELSE Step(i, f[i - 1])
      <3>1. CASE i # 0
        <4>1. i \in 1..n /\ f[i - 1] \in S
          BY <3>1, <1>9
        <4> QED
          BY <4>1, <1>8, <1>4
      <3> QED
        BY <3>1, <1>4
    <2> QED
      BY <2>1
  <1>6. names = Def(names)
    <2>1. names = CHOOSE g : g = Def(g)
      BY DEF Names, n, none, Step, Named
    <2> HIDE DEF Def, names
    <2> QED
      BY <2>1, <1>5
  <1> HIDE DEF names
  <1>7. names[0] = none /\ \A i \in 1..n : names[i] = Step(i, names[i - 1])
    <2>1. \A i \in 0..n : names[i] = IF i = 0 THEN none ELSE Step(i, names[i - 1])
      BY <1>6
    <2> QED
      BY <2>1, <1>9
  <1> QED
    BY <1>7 DEF n, none, Step, names

\* The attributes of value v among the first i defines, and those that do not
\* only repeat another name.
Attrs(defines, values, i, v) == {k \in 1..i : defines[k].cka /\ values[k] = v}
Own(defines, values, i, v)   == {k \in Attrs(defines, values, i, v) : ~defines[k].bare}

\* That f names each of them once, with its last own name or its first alias.
Current(defines, values, i, f) ==
    /\ \A v : v \in DOMAIN f <=> Attrs(defines, values, i, v) # {}
    /\ \A v \in DOMAIN f :
           IF Own(defines, values, i, v) # {}
           THEN f[v] \in Own(defines, values, i, v) /\ \A k \in Own(defines, values, i, v) : k <= f[v]
           ELSE f[v] \in Attrs(defines, values, i, v) /\ \A k \in Attrs(defines, values, i, v) : f[v] <= k

LEMMA OneMore ==
    ASSUME NEW defines, NEW values, NEW i \in Nat \ {0}, NEW before,
           Current(defines, values, i - 1, before)
    PROVE  Current(defines, values, i, Named(defines, values, i, before))
  <1> DEFINE A(k, v) == Attrs(defines, values, k, v)
             O(k, v) == Own(defines, values, k, v)
             x == values[i]
             after == Named(defines, values, i, before)
             set == [w \in DOMAIN before \cup {x} |-> IF w = x THEN i ELSE before[w]]
  <1>1. 1..i = (1..(i - 1)) \cup {i} /\ i \notin 1..(i - 1) /\ \A k \in 1..(i - 1) : k < i /\ k \in Int
    OBVIOUS
  <1>2. \A v : A(i, v) = A(i - 1, v) \cup {k \in {i} : defines[i].cka /\ x = v}
    BY <1>1 DEF Attrs
  <1>3. \A v : O(i, v) = O(i - 1, v) \cup {k \in {i} : defines[i].cka /\ x = v /\ ~defines[i].bare}
    BY <1>2 DEF Own
  <1>4. \A v : O(i - 1, v) \subseteq A(i - 1, v) /\ A(i - 1, v) \subseteq 1..(i - 1)
    BY DEF Own, Attrs
  <1>5. /\ \A v : v \in DOMAIN before <=> A(i - 1, v) # {}
        /\ \A v \in DOMAIN before :
               IF O(i - 1, v) # {}
               THEN before[v] \in O(i - 1, v) /\ \A k \in O(i - 1, v) : k <= before[v]
               ELSE before[v] \in A(i - 1, v) /\ \A k \in A(i - 1, v) : before[v] <= k
    BY DEF Current
  <1> HIDE DEF A, O, x
  <1>6. CASE ~defines[i].cka
    <2>1. after = before
      BY <1>6 DEF Named
    <2>2. \A v : A(i, v) = A(i - 1, v) /\ O(i, v) = O(i - 1, v)
      BY <1>2, <1>3, <1>6
    <2> QED
      BY <1>5, <2>1, <2>2 DEF Current, A, O
  <1>7. CASE defines[i].cka /\ Supersedes(defines[i], x, before)
    <2>1. after = set
      BY <1>7 DEF Named, x
    <2> HIDE DEF after
    <2>2. DOMAIN after = DOMAIN before \cup {x} /\ after[x] = i
          /\ \A v \in DOMAIN before : v # x => after[v] = before[v]
      BY <2>1
    <2>3. A(i, x) = A(i - 1, x) \cup {i} /\ \A v : v # x => A(i, v) = A(i - 1, v) /\ O(i, v) = O(i - 1, v)
      BY <1>2, <1>3, <1>7
    <2>4. \A v : v \in DOMAIN after <=> A(i, v) # {}
      BY <1>5, <2>2, <2>3
    <2>5. IF O(i, x) # {}
          THEN i \in O(i, x) /\ \A k \in O(i, x) : k <= i
          ELSE i \in A(i, x) /\ \A k \in A(i, x) : i <= k
      <3>1. CASE defines[i].bare
        <4>1. x \notin DOMAIN before
          BY <1>7, <3>1 DEF Supersedes
        <4>2. A(i - 1, x) = {} /\ O(i - 1, x) = {}
          BY <1>4, <1>5, <4>1
        <4>3. O(i, x) = {} /\ A(i, x) = {i}
          BY <1>3, <2>3, <3>1, <4>2
        <4> QED
          BY <4>3
      <3>2. CASE ~defines[i].bare
        <4>1. O(i, x) = O(i - 1, x) \cup {i}
          BY <1>3, <1>7, <3>2
        <4> QED
          BY <1>1, <1>4, <4>1
      <3> QED
        BY <3>1, <3>2
    <2>6. ASSUME NEW v \in DOMAIN after
          PROVE  IF O(i, v) # {}
                 THEN after[v] \in O(i, v) /\ \A k \in O(i, v) : k <= after[v]
                 ELSE after[v] \in A(i, v) /\ \A k \in A(i, v) : after[v] <= k
      <3>1. CASE v = x
        BY <2>2, <2>5, <3>1
      <3>2. CASE v # x
        BY <1>5, <2>2, <2>3, <3>2
      <3> QED
        BY <3>1, <3>2
    <2> QED
      BY <2>4, <2>6 DEF Current, A, O, after
  <1>8. CASE defines[i].cka /\ ~Supersedes(defines[i], x, before)
    <2>1. after = before
      BY <1>8 DEF Named, x
    <2>2. x \in DOMAIN before /\ defines[i].bare
      BY <1>8 DEF Supersedes
    <2>3. A(i, x) = A(i - 1, x) \cup {i} /\ \A v : v # x => A(i, v) = A(i - 1, v)
      BY <1>2, <1>8
    <2>4. \A v : O(i, v) = O(i - 1, v)
      BY <1>3, <2>2
    <2>5. \A v : v \in DOMAIN before <=> A(i, v) # {}
      BY <1>5, <2>2, <2>3
    <2>6. ASSUME NEW v \in DOMAIN before
          PROVE  IF O(i, v) # {}
                 THEN before[v] \in O(i, v) /\ \A k \in O(i, v) : k <= before[v]
                 ELSE before[v] \in A(i, v) /\ \A k \in A(i, v) : before[v] <= k
      <3>1. CASE v = x
        <4>1. CASE O(i - 1, x) # {}
          BY <1>5, <2>4, <3>1, <4>1
        <4>2. CASE O(i - 1, x) = {}
          <5>1. before[x] \in A(i - 1, x) /\ \A k \in A(i - 1, x) : before[x] <= k
            BY <1>5, <2>2, <4>2
          <5>2. before[x] <= i
            BY <1>1, <1>4, <5>1
          <5> QED
            BY <2>3, <2>4, <3>1, <4>2, <5>1, <5>2
        <4> QED
          BY <4>1, <4>2
      <3>2. CASE v # x
        BY <1>5, <2>3, <2>4, <3>2
      <3> QED
        BY <3>1, <3>2
    <2> QED
      BY <2>1, <2>5, <2>6 DEF Current, A, O
  <1> QED
    BY <1>6, <1>7, <1>8

LEMMA AllNamed ==
    ASSUME NEW defines, Len(defines) \in Nat, NEW values
    PROVE  Current(defines, values, Len(defines), Names(defines, values)[Len(defines)])
  <1> DEFINE n == Len(defines)
             names == Names(defines, values)
             P == {i \in 0..n : Current(defines, values, i, names[i])}
  <1>1. names[0] = <<>> /\ \A i \in 1..n : names[i] = Named(defines, values, i, names[i - 1])
    BY NamesDef
  <1>2. n \in Nat
    OBVIOUS
  <1> HIDE DEF n, names
  <1>3. 0 \in P
    <2>1. \A v : Attrs(defines, values, 0, v) = {}
      BY DEF Attrs
    <2>2. DOMAIN names[0] = {}
      BY <1>1
    <2> QED
      BY <1>2, <2>1, <2>2 DEF Current
  <1>4. ASSUME NEW i \in 1..n, i - 1 \in P
        PROVE  i \in P
    BY <1>1, <1>2, <1>4, OneMore
  <1>5. 0..n \subseteq P
    <2> HIDE DEF P
    <2> QED
      BY <1>2, <1>3, <1>4, UpTo
  <1>6. Current(defines, values, n, names[n])
    BY <1>2, <1>5
  <1> QED
    BY <1>6 DEF n, names

-----------------------------------------------------------------------------
(* The pure functions, in a behaviour of Marshalling.                      *)

\* What each is called with, and what it has returned.
PureInv ==
    /\ helper \in {"NewAttribute", "infoULong"} => input \in [p : Platforms, v : Values]
    /\ helper = "infoULong" => input.v \in 0..(Beyond(input.p) - 1)
    /\ helper = "defaults" => input \in Templates
    /\ helper = "names" => input \in Headers
    /\ computed =>
          /\ helper = "NewAttribute" => output = NewAttributeInt(input.p, input.v)
          /\ helper = "infoULong" => output = <<infoULong(input.p, input.v)>>
          /\ helper = "defaults" =>
                output \in {CreateObject(input), GenerateKey(input), Unwrap(input),
                            Encapsulate(input), Derive(input), Decapsulate(input),
                            GenerateKeyPair(input, input)}
          /\ helper = "names" => output = renderAttributes(input)

LEMMA InitPure == MInit => PureInv
  BY DEF MInit, Pure, PureInv

LEMMA NextPure == PureInv /\ [MNext]_allVars => PureInv'
  <1> SUFFICES ASSUME PureInv, [MNext]_allVars PROVE PureInv'
    OBVIOUS
  <1> USE DEF PureInv
  <1>1. CASE GetAttributeValue \/ ListStep(ListNext)
    BY <1>1 DEF GetAttributeValue, ListStep, pureVars
  <1>2. CASE EncodeNumber
    BY <1>2 DEF EncodeNumber, Compute
  <1>3. CASE DecodeInfo
    BY <1>3 DEF DecodeInfo, Compute
  <1>4. CASE CompleteTemplates
    BY <1>4 DEF CompleteTemplates, Compute
  <1>5. CASE TranslateHeader
    BY <1>5 DEF TranslateHeader, Compute
  <1>6. CASE UNCHANGED allVars
    BY <1>6 DEF allVars, pureVars
  <1> QED
    BY <1>1, <1>2, <1>3, <1>4, <1>5, <1>6 DEF MNext

LEMMA PureInvariant == MSpec => []PureInv
  BY InitPure, NextPure, PTL DEF MSpec

(***************************************************************************)
(* BytesToULong is the inverse of NewAttribute: what a CK_ULONG of the     *)
(* platform holds comes back, from more bytes than it has and, in          *)
(* little-endian order, without its leading zeros; what it does not hold   *)
(* panics (marshal.go ckULong, BytesToULong; object.go NewAttribute).      *)
(***************************************************************************)
THEOREM NumbersComeBack == MSpec => []NumbersSurvive
  <1>1. PureInv => NumbersSurvive
    <2> SUFFICES ASSUME PureInv, helper = "NewAttribute", computed
                 PROVE  LET p == input.p
                            v == input.v
                        IN  IF v \notin 0..(Beyond(p) - 1) THEN output = Panic
                            ELSE /\ Len(output) = p.size
                                 /\ BytesToULong(p, output \o <<1>>) = v
                                 /\ \A k \in 1..p.size :
                                        ~p.big /\ (\A i \in (k + 1)..p.size : output[i] = 0)
                                            => BytesToULong(p, SubSeq(output, 1, k)) = v
      BY DEF NumbersSurvive
    <2> DEFINE p == input.p
               v == input.v
    <2>1. p \in Platforms /\ v \in Int /\ output = NewAttributeInt(p, v)
      BY MarshallingAssumption DEF PureInv
    <2> HIDE DEF p, v
    <2>2. CASE v \notin 0..(Beyond(p) - 1)
      BY <2>1, <2>2, Encoded DEF p, v
    <2>3. CASE v \in 0..(Beyond(p) - 1)
      <3>1. output = [i \in 1..p.size |-> (v \div Weight[Place(p, i)]) % ByteValues]
        BY <2>1, <2>3, Encoded
      <3>2. Len(output) = p.size
        <4>1. p.size \in Nat
          BY <2>1 DEF Platforms
        <4> QED
          BY <3>1, <4>1
      <3>3. /\ BytesToULong(p, output \o <<1>>) = v
            /\ \A k \in 1..p.size :
                   ~p.big /\ (\A i \in (k + 1)..p.size : output[i] = 0)
                       => BytesToULong(p, SubSeq(output, 1, k)) = v
        BY <2>1, <2>3, <3>1, Decoded
      <3> QED
        BY <2>3, <3>2, <3>3 DEF p, v
    <2> QED
      BY <2>2, <2>3
  <1> QED
    BY <1>1, PureInvariant, PTL

(***************************************************************************)
(* The module's marker for "not available", and no other number, becomes   *)
(* Go's, in every width of the CK_ULONG (slot.go infoULong).               *)
(***************************************************************************)
THEOREM MarkersAreRecognised == MSpec => []MarkerIsRecognised
  <1>1. PureInv => MarkerIsRecognised
    <2> SUFFICES ASSUME PureInv, helper = "infoULong", computed
                 PROVE  LET marker == [i \in 1..input.p.size |-> ByteValues - 1]
                        IN  IF input.v = BytesToULong(input.p, marker)
                            THEN output = <<CK_UNAVAILABLE_INFORMATION>>
                            ELSE output = <<input.v>> /\ input.v # CK_UNAVAILABLE_INFORMATION
      BY DEF MarkerIsRecognised
    <2> DEFINE p == input.p
               v == input.v
    <2>1. p \in Platforms /\ v \in 0..(Beyond(p) - 1) /\ output = <<infoULong(p, v)>>
      BY DEF PureInv
    <2> HIDE DEF p, v
    <2>2. BytesToULong(p, [i \in 1..p.size |-> ByteValues - 1]) = ulongUnavailable(p)
      BY <2>1, MarkerIsGreatest
    <2>3. v # ulongUnavailable(p) => v # CK_UNAVAILABLE_INFORMATION
      BY <2>1, OnlyMarkerMatches
    <2> QED
      BY <2>1, <2>2, <2>3 DEF infoULong, p, v
  <1> QED
    BY <1>1, PureInvariant, PTL

(***************************************************************************)
(* The template of a private or secret key sets each of the secure         *)
(* defaults exactly once where the caller did not, contradicts none of the *)
(* caller's, and keeps them all, in order, nil pointers included           *)
(* (p11/defaults.go withSecureDefaults).                                   *)
(***************************************************************************)
THEOREM GapsAreFilled == MSpec => []DefaultsFillGaps
  <1>1. PureInv => DefaultsFillGaps
    <2> SUFFICES ASSUME PureInv, helper = "defaults", computed
                 PROVE  DefaultsFillGaps
      BY DEF DefaultsFillGaps
    <2> DEFINE Y   == {input[i] : i \in DOMAIN input}
               X   == Y \cup Defaults
               key == withSecureDefaults(input, TRUE)
    <2>1. input \in Seq(X) /\ Defaults \subseteq X
      <3>1. input \in Seq(Y)
        BY MarshallingAssumption DEF PureInv, IsSequence
      <3> HIDE DEF Y
      <3>2. Y \subseteq X /\ Defaults \subseteq X
        OBVIOUS
      <3> HIDE DEF X
      <3> QED
        BY <3>1, <3>2
    <2> HIDE DEF X
    <2>2. /\ SubSeq(key, 1, Len(input)) = input
          /\ \A i \in DOMAIN key \ 1..Len(input) : key[i] \in Defaults
          /\ \A d \in Defaults :
                 LET set == Settings(key, d.type)
                 IN  IF set \cap 1..Len(input) # {} THEN set \subseteq 1..Len(input)
                     ELSE \E i \in DOMAIN key : set = {i} /\ key[i] = d
      BY <2>1, GapsFilled
    <2> HIDE DEF key
    <2>3. output[Len(output)] = key
      <3> DEFINE pub == withSecureDefaults(input, FALSE)
      <3>1. output = <<key>> \/ output = <<pub, key>>
        BY DEF PureInv, CreateObject, GenerateKey, Unwrap, Encapsulate, Derive, Decapsulate,
               GenerateKeyPair, key
      <3> HIDE DEF pub
      <3>2. CASE output = <<key>>
        BY <3>2
      <3>3. CASE output = <<pub, key>>
        BY <3>3
      <3> QED
        BY <3>1, <3>2, <3>3
    <2> QED
      BY <2>2, <2>3 DEF DefaultsFillGaps
  <1> QED
    BY <1>1, PureInvariant, PTL

(***************************************************************************)
(* In a header of any length and with any aliases, what evaluate returns   *)
(* solves the defines, and every attribute type gets one name: the last    *)
(* that is not an alias, else the first alias (genconst evaluate,          *)
(* renderAttributes).                                                      *)
(***************************************************************************)
THEOREM NamesAreTheCurrentOnes == MSpec => []NamesAreCurrent
  <1>1. PureInv => NamesAreCurrent
    <2> SUFFICES ASSUME PureInv, helper = "names", computed
                 PROVE  NamesAreCurrent
      BY DEF NamesAreCurrent
    <2> DEFINE value    == evaluate(input)
               n        == Len(input)
               attrs(v) == {i \in DOMAIN input : input[i].cka /\ value[i] = v}
               own(v)   == {i \in attrs(v) : ~input[i].bare}
    <2>1. n \in Nat /\ DOMAIN input = 1..n
      <3>1. input \in Seq({input[i] : i \in DOMAIN input})
        BY MarshallingAssumption DEF PureInv, IsSequence
      <3> QED
        BY <3>1
    <2>2. output = Names(input, value)[n]
      BY DEF PureInv, renderAttributes
    <2>8. \A i \in DOMAIN value :
              /\ \A k \in input[i].names : k \in DOMAIN value /\ k < i
              /\ value[i] = input[i].bits \cup UNION {value[k] : k \in input[i].names}
      BY <2>1, EvaluateSolves DEF Solves
    <2> HIDE DEF value
    <2>3. Current(input, value, n, output)
      BY <2>1, <2>2, AllNamed
    <2>4. \A v : attrs(v) = Attrs(input, value, n, v) /\ own(v) = Own(input, value, n, v)
      BY <2>1 DEF Attrs, Own
    <2> HIDE DEF n
    <2>5. \A v : v \in DOMAIN output <=> attrs(v) # {}
      BY <2>3, <2>4 DEF Current
    <2>6. DOMAIN output = {value[i] : i \in {k \in DOMAIN input : input[k].cka}}
      BY <2>5
    <2>7. \A v \in DOMAIN output :
              IF own(v) # {} THEN output[v] \in own(v) /\ \A i \in own(v) : i <= output[v]
                             ELSE output[v] \in attrs(v) /\ \A i \in attrs(v) : output[v] <= i
      BY <2>3, <2>4 DEF Current
    <2> QED
      BY <2>6, <2>7, <2>8 DEF NamesAreCurrent, value
  <1> QED
    BY <1>1, PureInvariant, PTL

-----------------------------------------------------------------------------
(* GetAttributeValue.                                                      *)

\* Until it returns, no value has been copied; its buffers live from Allocate
\* to the deferred cleanup, and have the sizes that were saved.  The module gets
\* them with the second call.
BufferInv ==
    /\ exact
    /\ pc # "done" => result = "none"
    /\ result \notin Soft => out = None
    /\ heap = IF pc \in {"fetch", "fetched"} \/ result = "panicked"
              THEN {i \in Positions : allocs[i] > 0} ELSE {}
    /\ filled = IF pc = "fetched" THEN heap ELSE {}

\* The size of the buffer for an attribute that the first call saw as v.
Room(v) == IF v = Unavailable THEN 0 ELSE v

\* With a module that has kept the rules, the buffers have the sizes of the
\* values at the first call.
SizedInv ==
    /\ pc = "sized" /\ honest /\ rv \in Soft => \A i \in tmpl : list[i] = first[i]
    /\ pc \in {"fetch", "fetched"} /\ honest => \A i \in tmpl : allocs[i] = Room(first[i])
    /\ result \in Soft /\ honest => \A i \in tmpl : allocs[i] = Room(first[i])

Outgrown(i) == second[i] # Unavailable /\ allocs[i] > 0 /\ second[i] > allocs[i]

\* The second call fetched the values as they were then, and the code tells
\* why some are missing.
FetchedInv ==
    (pc = "fetched" \/ result \in Soft) /\ honest /\ rv \in Soft =>
        /\ \A i \in tmpl : list[i] = IF Outgrown(i) THEN Unavailable ELSE second[i]
        /\ rv = "OK" => \A i \in tmpl : second[i] # Unavailable /\ ~Outgrown(i)
        /\ rv = "SENSITIVE" => \E i \in tmpl : second[i] = Unavailable

\* What came back is what fits.
CollectedInv ==
    result \in Soft =>
        /\ rv = result
        /\ out = [i \in Positions |-> IF Fits(i) THEN Copied(list[i]) ELSE 0]

AttributesInv == TypeOK /\ BufferInv /\ SizedInv /\ FetchedInv /\ CollectedInv

USE AttributesAssumption DEF Reported, Soft, RVs, Results

\* A copy is never longer than the value, and whole if a C.int holds its length.
LEMMA CopiedLength ==
    ASSUME NEW n \in Nat
    PROVE  /\ Copied(n) \in 0..MaxInt
           /\ Copied(n) <= n
           /\ n <= MaxInt => Copied(n) = n
  <1> DEFINE w == 2 * (MaxInt + 1)
             low == n % w
  <1>1. w \in Nat \ {0} /\ MaxInt \in Nat /\ MaxInt < w
    BY AttributesAssumption
  <1>2. Copied(n) = IF low <= MaxInt THEN low ELSE 0
    BY DEF Copied
  <1> HIDE DEF w
  <1>3. n \div w \in Nat /\ low \in 0..(w - 1) /\ n = w * (n \div w) + low
    BY <1>1
  <1>4. w * (n \div w) >= 0
    BY <1>1, <1>3
  <1>5. n <= MaxInt => low = n
    BY <1>1
  <1> HIDE DEF low
  <1> QED
    BY <1>1, <1>2, <1>3, <1>4, <1>5

LEMMA InitAttributes == Init => AttributesInv
  <1> SUFFICES ASSUME Init PROVE AttributesInv
    OBVIOUS
  <1>1. TypeOK
    BY DEF Init, TypeOK, None
  <1>2. BufferInv /\ SizedInv /\ FetchedInv /\ CollectedInv
    BY DEF Init, BufferInv, SizedInv, FetchedInv, CollectedInv
  <1> QED
    BY <1>1, <1>2 DEF AttributesInv

\* What a call leaves, whatever the module answers.
LEMMA CallTypes ==
    ASSUME TypeOK, NEW cap, Call(cap)
    PROVE  list' \in [Positions -> Reported] /\ rv' \in RVs /\ honest' \in BOOLEAN
  <1>1. CASE Answer(cap) /\ honest' = honest
    BY <1>1 DEF TypeOK, Answer
  <1>2. CASE Misanswer
    <2>1. PICK l \in [tmpl -> Reported] :
              list' = [i \in Positions |-> IF i \in tmpl THEN l[i] ELSE 0]
      BY <1>2 DEF Misanswer
    <2> QED
      BY <1>2, <2>1 DEF TypeOK, Misanswer
  <1> QED
    BY <1>1, <1>2 DEF Call

\* An answer within the rules, unless the module has broken them: a hard error is
\* the only one that Misanswer counts as such.
LEMMA CallAnswers ==
    ASSUME TypeOK, NEW cap, Call(cap), honest', rv' \in Soft
    PROVE  honest /\ Answer(cap)
  BY DEF Call, Misanswer

LEMMA NextTypeOK == TypeOK /\ [Next]_vars => TypeOK'
  <1> SUFFICES ASSUME TypeOK, [Next]_vars PROVE TypeOK'
    OBVIOUS
  <1> USE DEF TypeOK
  <1>1. CASE Change
    BY <1>1 DEF Change, bufVars
  <1>2. CASE Reject
    BY <1>2 DEF Reject, objVars, bufVars
  <1>3. CASE FirstCall
    BY <1>3, CallTypes DEF FirstCall, bufVars
  <1>4. CASE FirstFails
    BY <1>4 DEF FirstFails, objVars, bufVars
  <1>5. CASE Allocate
    <2>1. allocs' \in [Positions -> Lengths]
      BY <1>5 DEF Allocate, Sized
    <2> QED
      BY <1>5, <2>1 DEF Allocate, objVars
  <1>6. CASE SecondCall
    BY <1>6, CallTypes DEF SecondCall
  <1>7. CASE SecondFails
    BY <1>7 DEF SecondFails, Cleanup, objVars
  <1>8. CASE Collect
    <2>1. out' \in [Positions -> 0..MaxInt]
      <3>1. ASSUME NEW i \in Positions, Fits(i)
            PROVE  Copied(list[i]) \in 0..MaxInt
        BY <3>1, CopiedLength DEF Fits
      <3> QED
        BY <1>8, <3>1 DEF Collect
    <2> QED
      BY <1>8, <2>1 DEF Collect, Cleanup, objVars
  <1>9. ASSUME NEW i \in Positions, OutOfMemory(i)
        PROVE  TypeOK'
    <2>1. allocs' \in [Positions -> Lengths]
      BY <1>9 DEF OutOfMemory, Sized
    <2> QED
      BY <1>9, <2>1 DEF OutOfMemory, objVars
  <1>10. CASE UNCHANGED vars
    BY <1>10 DEF vars, objVars, bufVars
  <1> QED
    BY <1>1, <1>2, <1>3, <1>4, <1>5, <1>6, <1>7, <1>8, <1>9, <1>10 DEF Next

LEMMA SizedLength ==
    ASSUME TypeOK, NEW i \in Positions, Sized(i)
    PROVE  list[i] > 0
  <1>1. list[i] \in Nat /\ list[i] # 0
    BY DEF TypeOK, Sized
  <1> QED
    BY <1>1

LEMMA NextBufferInv == TypeOK /\ BufferInv /\ [Next]_vars => BufferInv'
  <1> SUFFICES ASSUME TypeOK, BufferInv, [Next]_vars PROVE BufferInv'
    OBVIOUS
  <1> USE DEF BufferInv
  <1>1. CASE Change
    BY <1>1 DEF Change, bufVars, None
  <1>2. CASE Reject \/ FirstFails
    BY <1>2 DEF Reject, FirstFails, bufVars, None
  <1>3. CASE FirstCall \/ SecondCall
    BY <1>3 DEF FirstCall, SecondCall, bufVars, None
  <1>4. CASE Allocate
    <2>1. ASSUME NEW i \in Positions
          PROVE  allocs'[i] > 0 <=> Sized(i)
      BY <1>4, SizedLength DEF Allocate
    <2>2. heap' = {i \in Positions : allocs'[i] > 0}
      BY <1>4, <2>1 DEF Allocate
    <2> QED
      BY <1>4, <2>2 DEF Allocate, None
  <1>5. CASE SecondFails
    BY <1>5 DEF SecondFails, Cleanup, None
  <1>6. CASE Collect
    BY <1>6 DEF Collect, Cleanup
  <1>7. ASSUME NEW i \in Positions, OutOfMemory(i)
        PROVE  BufferInv'
    <2>1. ASSUME NEW k \in Positions
          PROVE  allocs'[k] > 0 <=> Sized(k) /\ k < i
      BY <1>7, SizedLength DEF OutOfMemory
    <2>2. heap' = {k \in Positions : allocs'[k] > 0}
      BY <1>7, <2>1 DEF OutOfMemory
    <2> QED
      BY <1>7, <2>2 DEF OutOfMemory, None
  <1>8. CASE UNCHANGED vars
    BY <1>8 DEF vars, bufVars, None
  <1> QED
    BY <1>1, <1>2, <1>3, <1>4, <1>5, <1>6, <1>7, <1>8 DEF Next

\* At the first call no buffer is too small, so the lengths are the object's.
LEMMA NextSizedInv == TypeOK /\ BufferInv /\ SizedInv /\ [Next]_vars => SizedInv'
  <1> SUFFICES ASSUME TypeOK, BufferInv, SizedInv, [Next]_vars PROVE SizedInv'
    OBVIOUS
  <1> USE DEF SizedInv
  <1>1. CASE Change
    BY <1>1 DEF Change, bufVars
  <1>2. CASE Reject \/ FirstFails \/ SecondFails \/ \E i \in Positions : OutOfMemory(i)
    BY <1>2 DEF Reject, FirstFails, SecondFails, OutOfMemory
  <1>3. CASE FirstCall
    <2> SUFFICES ASSUME honest', rv' \in Soft, NEW i \in tmpl PROVE list'[i] = first'[i]
      BY <1>3 DEF FirstCall, BufferInv
    <2>1. Answer(None)
      BY <1>3, CallAnswers DEF FirstCall
    <2>2. i \in Positions /\ None[i] = 0
      BY DEF TypeOK, None
    <2> QED
      BY <1>3, <2>1, <2>2 DEF FirstCall, Answer
  <1>4. CASE Allocate
    <2> SUFFICES ASSUME honest', NEW i \in tmpl PROVE allocs'[i] = Room(first'[i])
      BY <1>4 DEF Allocate, objVars, BufferInv
    <2> QED
      BY <1>4 DEF Allocate, Sized, objVars, Room, TypeOK
  <1>5. CASE SecondCall
    <2>1. honest' => honest
      BY <1>5 DEF SecondCall, Call, Misanswer
    <2> QED
      BY <1>5, <2>1 DEF SecondCall, BufferInv
  <1>6. CASE Collect
    BY <1>6 DEF Collect, objVars
  <1>7. CASE UNCHANGED vars
    BY <1>7 DEF vars, objVars, bufVars
  <1> QED
    BY <1>1, <1>2, <1>3, <1>4, <1>5, <1>6, <1>7 DEF Next

LEMMA NextFetchedInv == TypeOK /\ BufferInv /\ FetchedInv /\ [Next]_vars => FetchedInv'
  <1> SUFFICES ASSUME TypeOK, BufferInv, FetchedInv, [Next]_vars PROVE FetchedInv'
    OBVIOUS
  <1> USE DEF FetchedInv, Outgrown
  <1>1. CASE Change
    BY <1>1 DEF Change, bufVars
  <1>2. CASE Reject \/ FirstFails \/ SecondFails \/ \E i \in Positions : OutOfMemory(i)
    BY <1>2 DEF Reject, FirstFails, SecondFails, OutOfMemory
  <1>3. CASE FirstCall \/ Allocate
    BY <1>3 DEF FirstCall, Allocate, BufferInv, bufVars
  <1>4. CASE SecondCall
    <2> SUFFICES ASSUME honest', rv' \in Soft
                 PROVE  /\ \A i \in tmpl : list'[i] = IF Outgrown(i)' THEN Unavailable ELSE second'[i]
                        /\ rv' = "OK" => \A i \in tmpl : second'[i] # Unavailable /\ ~Outgrown(i)'
                        /\ rv' = "SENSITIVE" => \E i \in tmpl : second'[i] = Unavailable
      BY <1>4 DEF SecondCall
    <2>1. Answer(allocs)
      BY <1>4, CallAnswers DEF SecondCall
    <2>2. tmpl \subseteq Positions /\ second' = obj /\ allocs' = allocs
      BY <1>4 DEF SecondCall, TypeOK
    <2> QED
      BY <2>1, <2>2 DEF Answer
  <1>5. CASE Collect
    BY <1>5 DEF Collect, objVars
  <1>6. CASE UNCHANGED vars
    BY <1>6 DEF vars, objVars, bufVars
  <1> QED
    BY <1>1, <1>2, <1>3, <1>4, <1>5, <1>6 DEF Next

LEMMA NextCollectedInv == BufferInv /\ CollectedInv /\ [Next]_vars => CollectedInv'
  <1> SUFFICES ASSUME BufferInv, CollectedInv, [Next]_vars PROVE CollectedInv'
    OBVIOUS
  <1> USE DEF CollectedInv, Fits
  <1>1. CASE Change
    BY <1>1 DEF Change, bufVars
  <1>2. CASE Reject \/ FirstFails \/ SecondFails \/ \E i \in Positions : OutOfMemory(i)
    BY <1>2 DEF Reject, FirstFails, SecondFails, OutOfMemory
  <1>3. CASE FirstCall \/ Allocate \/ SecondCall
    BY <1>3 DEF FirstCall, Allocate, SecondCall, BufferInv, bufVars
  <1>4. CASE Collect
    BY <1>4 DEF Collect
  <1>5. CASE UNCHANGED vars
    BY <1>5 DEF vars, bufVars
  <1> QED
    BY <1>1, <1>2, <1>3, <1>4, <1>5 DEF Next

LEMMA NextAttributes == AttributesInv /\ [Next]_vars => AttributesInv'
  BY NextTypeOK, NextBufferInv, NextSizedInv, NextFetchedInv, NextCollectedInv DEF AttributesInv

-----------------------------------------------------------------------------
(* The lists and the search.                                               *)

ListTypeOK ==
    /\ at \in {"start", "counted", "fetched", "search", "batch", "end"}
    /\ entries \in Nat /\ asked \in Nat /\ room \in Nat /\ count \in Nat /\ found \in Nat
    /\ code \in Codes /\ outcome \in Outcomes /\ truthful \in BOOLEAN

\* Where the method is, and what a module that has kept the rules has told it.
ProgressInv ==
    /\ at # "end" => outcome = "none"
    /\ at \in {"start", "counted", "fetched"} => found = 0
    /\ at = "start" => asked = entries
    /\ truthful =>
          /\ at \in {"counted", "fetched"} /\ code = "OK" => count = asked
          /\ at \in {"fetched", "batch"} /\ code = "OK" => count <= room
          /\ at = "search" => asked = found + entries
          /\ at = "batch" /\ code = "OK" =>
                asked = found + count + entries /\ (count = 0 => entries = 0)

ListsInv == ListTypeOK /\ ProgressInv /\ ListIsWhole /\ PanicOnlyOnOverclaim

USE ListsAssumption DEF Codes, Outcomes

LEMMA InitLists == ListInit => ListsInv
  BY DEF ListInit, ListsInv, ListTypeOK, ProgressInv, ListIsWhole, PanicOnlyOnOverclaim

\* What a call leaves, within the rules or not.
LEMMA AnythingTypes ==
    ASSUME ListTypeOK, Anything
    PROVE  code' \in Codes /\ count' \in Nat /\ truthful' \in BOOLEAN
  BY DEF ListTypeOK, Anything

LEMMA NextListTypeOK == ListTypeOK /\ [ListNext]_listVars => ListTypeOK'
  <1> SUFFICES ASSUME ListTypeOK, [ListNext]_listVars PROVE ListTypeOK'
    OBVIOUS
  <1> USE DEF ListTypeOK, Return, Reports
  <1>1. CASE TokenChanges
    BY <1>1 DEF TokenChanges
  <1>2. CASE CountEntries \/ FetchEntries
    BY <1>2, AnythingTypes DEF CountEntries, FetchEntries
  <1>3. CASE Refuse \/ EmptyList \/ FetchFails \/ Collected
    BY <1>3 DEF Refuse, EmptyList, FetchFails, Collected
  <1>4. CASE SearchInit
    BY <1>4 DEF SearchInit
  <1>5. CASE FetchBatch
    BY <1>5, AnythingTypes DEF FetchBatch
  <1>6. CASE BatchFails \/ BatchPanics \/ BatchTaken \/ LastBatch
    BY <1>6 DEF BatchFails, BatchPanics, BatchTaken, LastBatch
  <1>7. CASE UNCHANGED listVars
    BY <1>7 DEF listVars
  <1> QED
    BY <1>1, <1>2, <1>3, <1>4, <1>5, <1>6, <1>7 DEF ListNext, GetList, FindObjects

LEMMA NextLists == ListsInv /\ [ListNext]_listVars => ListsInv'
  <1> SUFFICES ASSUME ListsInv, [ListNext]_listVars PROVE ListsInv'
    OBVIOUS
  <1>1. ListTypeOK'
    BY NextListTypeOK DEF ListsInv
  <1>2. ProgressInv' /\ ListIsWhole' /\ PanicOnlyOnOverclaim'
    <2> USE DEF ListsInv, ListTypeOK, ProgressInv, ListIsWhole, PanicOnlyOnOverclaim, Return, Reports
    <2>1. CASE TokenChanges
      BY <2>1 DEF TokenChanges
    <2>2. CASE CountEntries
      BY <2>2 DEF CountEntries, Anything
    <2>3. CASE Refuse \/ EmptyList
      BY <2>3 DEF Refuse, EmptyList
    <2>4. CASE FetchEntries
      BY <2>4 DEF FetchEntries, Anything
    <2>5. CASE FetchFails \/ Collected
      BY <2>5 DEF FetchFails, Collected
    <2>6. CASE SearchInit
      BY <2>6 DEF SearchInit
    <2>7. CASE FetchBatch
      <3>1. ASSUME NEW k \in 0..maxObjects, k <= entries, k = 0 => entries = 0,
                   Reports("OK", k), entries' = entries - k
            PROVE  ProgressInv' /\ ListIsWhole' /\ PanicOnlyOnOverclaim'
        BY <2>7, <3>1 DEF FetchBatch
      <3>2. CASE Anything /\ UNCHANGED entries
        BY <2>7, <3>2 DEF FetchBatch, Anything
      <3> QED
        BY <2>7, <3>1, <3>2 DEF FetchBatch
    <2>8. CASE BatchFails \/ BatchPanics
      BY <2>8 DEF BatchFails, BatchPanics
    <2>9. CASE BatchTaken \/ LastBatch
      BY <2>9 DEF BatchTaken, LastBatch
    <2>10. CASE UNCHANGED listVars
      BY <2>10 DEF listVars
    <2> QED
      BY <2>1, <2>2, <2>3, <2>4, <2>5, <2>6, <2>7, <2>8, <2>9, <2>10
         DEF ListNext, GetList, FindObjects
  <1> QED
    BY <1>1, <1>2 DEF ListsInv

-----------------------------------------------------------------------------
(* Both, in a behaviour of Marshalling.                                    *)

IInv == AttributesInv /\ ListsInv

LEMMA InitIInv == MInit => IInv
  BY InitAttributes, InitLists DEF MInit, IInv

\* A step of a helper is a step of Attributes or of Lists, or of neither.
LEMMA NextIInv == IInv /\ [MNext]_allVars => IInv'
  <1> SUFFICES ASSUME IInv, [MNext]_allVars PROVE IInv'
    OBVIOUS
  <1>1. [Next]_vars /\ [ListNext]_listVars
    <2>1. CASE GetAttributeValue
      BY <2>1 DEF GetAttributeValue
    <2>2. CASE ListStep(ListNext)
      BY <2>2 DEF ListStep
    <2>3. CASE EncodeNumber \/ DecodeInfo \/ CompleteTemplates \/ TranslateHeader
      BY <2>3 DEF EncodeNumber, DecodeInfo, CompleteTemplates, TranslateHeader, Compute
    <2>4. CASE UNCHANGED allVars
      BY <2>4 DEF allVars
    <2> QED
      BY <2>1, <2>2, <2>3, <2>4 DEF MNext
  <1> QED
    BY <1>1, NextAttributes, NextLists DEF IInv

LEMMA Invariant == MSpec => []IInv
  BY InitIInv, NextIInv, PTL DEF MSpec

(***************************************************************************)
(* GetAttributeValue scrubs every value buffer over its own length and     *)
(* frees it, for any template and whatever lengths come back; the buffers  *)
(* it loses when an allocation fails were not given to the module          *)
(* (object.go GetAttributeValue).                                          *)
(***************************************************************************)
THEOREM BuffersAreScrubbed == MSpec => []BuffersScrubbed
  <1>1. AttributesInv => BuffersScrubbed
    <2> SUFFICES ASSUME AttributesInv, NEW i \in Positions PROVE out[i] <= allocs[i]
      BY DEF AttributesInv, BufferInv, BuffersScrubbed
    <2>1. allocs[i] \in Nat
      BY DEF AttributesInv, TypeOK
    <2>2. CASE result \in Soft
      <3>1. out[i] = IF Fits(i) THEN Copied(list[i]) ELSE 0
        BY <2>2 DEF AttributesInv, CollectedInv
      <3>2. ASSUME Fits(i)
            PROVE  list[i] \in Nat /\ list[i] <= allocs[i]
        BY <3>2 DEF Fits, AttributesInv, TypeOK
      <3>3. ASSUME Fits(i)
            PROVE  Copied(list[i]) \in Nat /\ Copied(list[i]) <= list[i]
        BY <3>2, <3>3, CopiedLength
      <3> QED
        BY <2>1, <3>1, <3>2, <3>3
    <2>3. CASE result \notin Soft
      <3>1. out[i] = 0
        BY <2>3 DEF AttributesInv, BufferInv, None
      <3> QED
        BY <2>1, <3>1
    <2> QED
      BY <2>2, <2>3
  <1> QED
    BY <1>1, Invariant, PTL DEF IInv

\* What a method that answered found in the object, attribute by attribute.
LEMMA AnsweredFacts ==
    ASSUME AttributesInv, Answered, NEW i \in tmpl
    PROVE  /\ allocs[i] = Room(first[i])
           /\ list[i] = IF Outgrown(i) THEN Unavailable ELSE second[i]
           /\ result = "OK" => second[i] # Unavailable /\ ~Outgrown(i)
           /\ out[i] = IF Fits(i) THEN Copied(list[i]) ELSE 0
           /\ first[i] \in Reported /\ second[i] \in Reported
  <1>1. result \in Soft /\ honest /\ rv = result
    BY DEF Answered, AttributesInv, CollectedInv
  <1> QED
    BY <1>1 DEF AttributesInv, SizedInv, FetchedInv, CollectedInv, TypeOK

(***************************************************************************)
(* A value that comes back is the one the object had at the second call,   *)
(* complete, if a C.int holds its length (object.go GetAttributeValue).    *)
(***************************************************************************)
THEOREM ValuesAreComplete == MSpec => []ValuesComplete
  <1>1. AttributesInv => ValuesComplete
    <2> SUFFICES ASSUME AttributesInv, Answered, NEW i \in tmpl, second[i] \notin Wide, out[i] # 0
                 PROVE  out[i] = second[i]
      BY DEF ValuesComplete
    <2>1. Fits(i) /\ out[i] = Copied(list[i])
      BY AnsweredFacts
    <2>2. list[i] = second[i] /\ second[i] \in Lengths
      BY <2>1, AnsweredFacts DEF Fits
    <2>3. second[i] \in Nat /\ second[i] <= MaxInt
      <3>1. second[i] \in Nat /\ MaxInt \in Nat
        BY <2>2
      <3>2. ~(second[i] > MaxInt)
        BY <2>2 DEF Wide
      <3> QED
        BY <3>1, <3>2
    <2> QED
      BY <2>1, <2>2, <2>3, CopiedLength
  <1> QED
    BY <1>1, Invariant, PTL DEF IInv

(***************************************************************************)
(* An attribute comes back nil only if it was unavailable or empty at one  *)
(* of the two calls, or grew beside a sensitive one, or is longer than a   *)
(* C.int can say (object.go GetAttributeValue, partialOK and the copy).    *)
(***************************************************************************)
THEOREM NilsAreExplained == MSpec => []NilIsExplained
  <1>1. AttributesInv => NilIsExplained
    <2> SUFFICES ASSUME AttributesInv, Answered, NEW i \in tmpl, out[i] = 0,
                        first[i] \notin {0, Unavailable}, second[i] \notin {0, Unavailable},
                        second[i] \notin Wide
                 PROVE  /\ second[i] > first[i]
                        /\ result = "SENSITIVE"
                        /\ \E k \in tmpl \ {i} : second[k] = Unavailable
      BY DEF NilIsExplained
    <2>1. allocs[i] = first[i] /\ first[i] \in Nat \ {0} /\ second[i] \in Nat \ {0}
      BY AnsweredFacts DEF Room
    <2>2. Outgrown(i)
      <3> SUFFICES ASSUME ~Outgrown(i) PROVE FALSE
        OBVIOUS
      <3>1. list[i] = second[i] /\ second[i] <= allocs[i]
        BY <2>1, AnsweredFacts DEF Outgrown
      <3>2. Fits(i)
        BY <2>1, <3>1 DEF Fits
      <3>3. second[i] <= MaxInt
        BY <2>1, AnsweredFacts DEF Wide
      <3>4. out[i] = Copied(second[i]) /\ Copied(second[i]) = second[i]
        BY <2>1, <3>1, <3>2, <3>3, AnsweredFacts, CopiedLength
      <3> QED
        BY <2>1, <3>4
    <2>3. second[i] > first[i]
      BY <2>1, <2>2 DEF Outgrown
    <2>4. result = "SENSITIVE"
      BY <2>2, AnsweredFacts DEF Answered
    <2>5. \E k \in tmpl : second[k] = Unavailable
      BY <2>4 DEF Answered, AttributesInv, FetchedInv, CollectedInv
    <2> QED
      BY <2>3, <2>4, <2>5
  <1> QED
    BY <1>1, Invariant, PTL DEF IInv

(***************************************************************************)
(* The error that comes with the values tells whether all of them could be *)
(* read (object.go GetAttributeValue).                                     *)
(***************************************************************************)
THEOREM ErrorsTellHidden == MSpec => []ErrorTellsHidden
  <1>1. AttributesInv => ErrorTellsHidden
    <2> SUFFICES ASSUME AttributesInv, Answered
                 PROVE  result = "OK" <=> \A i \in tmpl : second[i] # Unavailable
      BY DEF ErrorTellsHidden
    <2>1. result = "OK" \/ result = "SENSITIVE"
      BY DEF Answered
    <2>2. result = "SENSITIVE" => \E i \in tmpl : second[i] = Unavailable
      BY DEF Answered, AttributesInv, FetchedInv, CollectedInv
    <2> QED
      BY <2>1, <2>2, AnsweredFacts
  <1> QED
    BY <1>1, Invariant, PTL DEF IInv

(***************************************************************************)
(* A list is the token's, whole, however the token changed meanwhile and   *)
(* however the batches were cut (slot.go, p11/session.go FindObjects).     *)
(***************************************************************************)
THEOREM ListsAreWhole == MSpec => []ListIsWhole
  BY Invariant, PTL DEF IInv, ListsInv

(***************************************************************************)
(* Only a module that claims more than it was given room for makes the     *)
(* copying of a list panic (slot.go, object.go FindObjects).               *)
(***************************************************************************)
THEOREM PanicsAreOverclaims == MSpec => []PanicOnlyOnOverclaim
  BY Invariant, PTL DEF IInv, ListsInv
=============================================================================
