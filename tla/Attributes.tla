----------------------------- MODULE Attributes -----------------------------
(***************************************************************************)
(* cryptoki GetAttributeValue: one C call asks for the length of every     *)
(* attribute of a template, a second one fetches the values into buffers   *)
(* of those lengths.  The object may change between the two, through       *)
(* another session or application.                                         *)
(*                                                                         *)
(* A value is abstracted to its length.  The module answers by the rules   *)
(* of PKCS #11, or else with any code and any lengths; honest remembers    *)
(* whether it has kept the rules so far.  Lengths are CK_ULONGs, and the   *)
(* copy that is returned is made with a length of type C.int.              *)
(***************************************************************************)
EXTENDS Naturals

CONSTANTS
    Positions,       \* the places of a template, in its order
    Lengths,         \* the lengths a value may have, or a module may report
    MaxInt,          \* the greatest C.int
    Unavailable      \* CK_UNAVAILABLE_INFORMATION; as the state of an
                     \* attribute: sensitive, or not an attribute of the object

ASSUME AttributesAssumption ==
    /\ Positions \subseteq Nat
    /\ Lengths \subseteq Nat
    /\ 0 \in Lengths
    /\ MaxInt \in Nat
    /\ Unavailable \notin Nat

VARIABLES
    pc,
    tmpl,      \* the places in use
    obj,       \* obj[i]: the length of the attribute's value, or Unavailable
    first,     \* first[i], second[i]: what obj[i] was at the first and the
    second,    \* second call
    list,      \* list[i].ulValueLen, which the module overwrites
    allocs,    \* allocs[i]: the saved size of the value buffer, 0 for none
    rv,        \* the code of the last call
    heap,      \* the value buffers not yet freed
    filled,    \* those of them that the module was given and may have filled
    exact,     \* every buffer freed so far was scrubbed in full, no further
    out,       \* out[i]: the length of the value returned, 0 for nil
    result,    \* the outcome of GetAttributeValue
    honest

objVars == <<obj, first, second, honest>>
bufVars == <<allocs, heap, filled, exact>>
vars    == <<pc, tmpl, objVars, list, bufVars, rv, out, result>>

Reported == Lengths \cup {Unavailable}
Soft     == {"OK", "SENSITIVE"}      \* also CKR_ATTRIBUTE_TYPE_INVALID
RVs      == Soft \cup {"BUFFER_TOO_SMALL", "ERROR"}
Results  == Soft \cup {"none", "rejected", "failed", "panicked"}

None == [i \in Positions |-> 0]

-----------------------------------------------------------------------------
Init ==
    /\ pc = "start"
    /\ tmpl \in SUBSET Positions
    /\ obj \in [Positions -> Reported]
    /\ first = obj
    /\ second = obj
    /\ list = None
    /\ allocs = None
    /\ rv = "OK"
    /\ heap = {}
    /\ filled = {}
    /\ exact = TRUE
    /\ out = None
    /\ result = "none"
    /\ honest = TRUE

\* Somebody else changes an attribute while the method runs.
Change ==
    /\ pc \in {"sized", "fetch"}
    /\ \E i \in Positions, v \in Reported : obj' = [obj EXCEPT ![i] = v]
    /\ UNCHANGED <<pc, tmpl, first, second, list, bufVars, rv, out, result, honest>>

\* An empty template returns nil, one with an array attribute is refused.
Reject ==
    /\ pc = "start"
    /\ pc' = "done"
    /\ result' = "rejected"
    /\ UNCHANGED <<tmpl, objVars, list, bufVars, rv, out>>

\* C_GetAttributeValue by its rules, with buffers of the sizes cap (0: NULL,
\* which asks for the length).
Answer(cap) ==
    LET tooSmall == {i \in tmpl : obj[i] # Unavailable /\ cap[i] > 0 /\ obj[i] > cap[i]}
        hidden   == {i \in tmpl : obj[i] = Unavailable}
    IN  /\ list' = [i \in Positions |->
                       IF i \notin tmpl THEN 0
                       ELSE IF i \in tooSmall THEN Unavailable ELSE obj[i]]
        /\ \/ hidden = {} /\ tooSmall = {} /\ rv' = "OK"
           \/ hidden # {} /\ rv' = "SENSITIVE"
           \/ tooSmall # {} /\ rv' = "BUFFER_TOO_SMALL"

\* Any answer at all.  A hard error is within the rules.
Misanswer ==
    /\ rv' \in RVs
    /\ \E l \in [tmpl -> Reported] :
           list' = [i \in Positions |-> IF i \in tmpl THEN l[i] ELSE 0]
    /\ honest' = (honest /\ rv' = "ERROR")

Call(cap) == (Answer(cap) /\ honest' = honest) \/ Misanswer

\* The first call: no buffers, lengths only.
FirstCall ==
    /\ pc = "start"
    /\ tmpl # {}
    /\ Call(None)
    /\ pc' = "sized"
    /\ first' = obj
    /\ UNCHANGED <<tmpl, obj, second, bufVars, out, result>>

FirstFails ==
    /\ pc = "sized"
    /\ rv \notin Soft
    /\ pc' = "done"
    /\ result' = "failed"
    /\ UNCHANGED <<tmpl, objVars, list, bufVars, rv, out>>

\* Whether an attribute has a length and so gets a buffer.
Sized(i) == i \in tmpl /\ list[i] \notin {0, Unavailable}

\* A buffer for every attribute that has a length.
Allocate ==
    /\ pc = "sized"
    /\ rv \in Soft
    /\ pc' = "fetch"
    /\ allocs' = [i \in Positions |-> IF Sized(i) THEN list[i] ELSE 0]
    /\ heap' = {i \in Positions : Sized(i)}
    /\ UNCHANGED <<tmpl, objVars, list, rv, filled, exact, out, result>>

\* calloc fails for place i: the method panics before its cleanup is deferred,
\* and the buffers of the places before i stay allocated.
OutOfMemory(i) ==
    /\ pc = "sized"
    /\ rv \in Soft
    /\ Sized(i)
    /\ pc' = "done"
    /\ result' = "panicked"
    /\ allocs' = [k \in Positions |-> IF Sized(k) /\ k < i THEN list[k] ELSE 0]
    /\ heap' = {k \in Positions : Sized(k) /\ k < i}
    /\ UNCHANGED <<tmpl, objVars, list, rv, filled, exact, out>>

\* The second call: it sees the lengths of the first in list.
SecondCall ==
    /\ pc = "fetch"
    /\ Call(allocs)
    /\ pc' = "fetched"
    /\ second' = obj
    /\ filled' = heap
    /\ UNCHANGED <<tmpl, obj, first, allocs, heap, exact, out, result>>

\* The deferred cleanup: zfree every buffer with the size it was given.
Cleanup(size) ==
    /\ heap' = {}
    /\ filled' = {}
    /\ exact' = (exact /\ \A i \in heap : size[i] = allocs[i])

\* Mutant: the buffers are scrubbed over the lengths the second call left.
SecondFails_ScrubsReported ==
    /\ pc = "fetched"
    /\ rv \notin Soft
    /\ pc' = "done"
    /\ result' = "failed"
    /\ Cleanup(list)
    /\ UNCHANGED <<tmpl, objVars, list, allocs, rv, out>>

SecondFails ==
    /\ pc = "fetched"
    /\ rv \notin Soft
    /\ pc' = "done"
    /\ result' = "failed"
    /\ Cleanup(allocs)
    /\ UNCHANGED <<tmpl, objVars, list, allocs, rv, out>>

\* Copy out what was allocated, is not unavailable and fits.
Fits(i) == allocs[i] > 0 /\ list[i] # Unavailable /\ list[i] <= allocs[i]

\* How much of a value of length n is copied: C.int(n) keeps the lower bits of
\* n, and where that is not positive nothing is copied.
Copied(n) == LET low == n % (2 * (MaxInt + 1)) IN IF low <= MaxInt THEN low ELSE 0

\* Mutant: the whole buffer is copied out, not the length of the value.
Collect_WholeBuffer ==
    /\ pc = "fetched"
    /\ rv \in Soft
    /\ pc' = "done"
    /\ out' = [i \in Positions |-> IF Fits(i) THEN Copied(allocs[i]) ELSE 0]
    /\ result' = rv
    /\ Cleanup(allocs)
    /\ UNCHANGED <<tmpl, objVars, list, allocs, rv>>

\* Mutant: a value that has outgrown its buffer is a soft failure, too.
Collect_SoftTooSmall ==
    /\ pc = "fetched"
    /\ rv # "ERROR"
    /\ pc' = "done"
    /\ out' = [i \in Positions |-> IF Fits(i) THEN Copied(list[i]) ELSE 0]
    /\ result' = IF rv = "OK" THEN "OK" ELSE "SENSITIVE"
    /\ Cleanup(allocs)
    /\ UNCHANGED <<tmpl, objVars, list, allocs, rv>>

\* Mutant: the soft failure of the second call is dropped.
Collect_HidesCode ==
    /\ pc = "fetched"
    /\ rv \in Soft
    /\ pc' = "done"
    /\ out' = [i \in Positions |-> IF Fits(i) THEN Copied(list[i]) ELSE 0]
    /\ result' = "OK"
    /\ Cleanup(allocs)
    /\ UNCHANGED <<tmpl, objVars, list, allocs, rv>>

Collect ==
    /\ pc = "fetched"
    /\ rv \in Soft
    /\ pc' = "done"
    /\ out' = [i \in Positions |-> IF Fits(i) THEN Copied(list[i]) ELSE 0]
    /\ result' = rv
    /\ Cleanup(allocs)
    /\ UNCHANGED <<tmpl, objVars, list, allocs, rv>>

Next ==
    \/ Change
    \/ Reject \/ FirstCall \/ FirstFails
    \/ Allocate \/ \E i \in Positions : OutOfMemory(i)
    \/ SecondCall \/ SecondFails \/ Collect

Spec == Init /\ [][Next]_vars

-----------------------------------------------------------------------------
TypeOK ==
    /\ pc \in {"start", "sized", "fetch", "fetched", "done"}
    /\ tmpl \subseteq Positions
    /\ obj \in [Positions -> Reported]
    /\ first \in [Positions -> Reported]
    /\ second \in [Positions -> Reported]
    /\ list \in [Positions -> Reported]
    /\ allocs \in [Positions -> Lengths]
    /\ rv \in RVs
    /\ heap \subseteq Positions
    /\ filled \subseteq Positions
    /\ exact \in BOOLEAN
    /\ out \in [Positions -> 0..MaxInt]
    /\ result \in Results
    /\ honest \in BOOLEAN

(***************************************************************************)
(* Whatever lengths the module leaves in the template: no value is read    *)
(* beyond its buffer, and every buffer is scrubbed over its whole length,  *)
(* no further, and freed (object.go GetAttributeValue: "the allocation     *)
(* size must be retained and used for cleanup").  When an allocation fails *)
(* the buffers made before it are lost, but the module was not given them. *)
(***************************************************************************)
BuffersScrubbed ==
    /\ TypeOK
    /\ exact
    /\ \A i \in Positions : out[i] <= allocs[i]
    /\ pc = "done" => filled = {} /\ (result # "panicked" => heap = {})

Answered == honest /\ result \in Soft

\* Lengths that a C.int does not hold.
Wide == {n \in Lengths : n > MaxInt}

(***************************************************************************)
(* With a module that keeps the rules, a value that comes back is the one  *)
(* the object had at the second call, complete, although the buffer was    *)
(* sized for the one it had at the first.  A value longer than a C.int can *)
(* say is the exception: it comes back cut (object.go GetAttributeValue,   *)
(* the copy).                                                              *)
(***************************************************************************)
ValuesComplete ==
    Answered => \A i \in tmpl : out[i] \in {0, second[i]} \/ second[i] \in Wide

(***************************************************************************)
(* An attribute comes back nil only if at one of the two calls it was      *)
(* unavailable or empty, or if a C.int cannot hold its length.  One that   *)
(* merely grew in between makes the method fail - unless another attribute *)
(* of the template is sensitive, because the token may then answer         *)
(* CKR_ATTRIBUTE_SENSITIVE for both reasons (object.go GetAttributeValue,  *)
(* partialOK).                                                             *)
(***************************************************************************)
NilIsExplained ==
    Answered => \A i \in tmpl : out[i] = 0 =>
        \/ {first[i], second[i]} \cap {0, Unavailable} # {}
        \/ second[i] \in Wide
        \/ /\ second[i] > first[i]
           /\ result = "SENSITIVE" /\ \E k \in tmpl \ {i} : second[k] = Unavailable

(***************************************************************************)
(* The error that comes with the values says whether all of the requested  *)
(* attributes could be read when they were read (object.go                 *)
(* GetAttributeValue: "so a caller can tell sensitive/absent apart").      *)
(***************************************************************************)
ErrorTellsHidden ==
    Answered => (result = "OK" <=> \A i \in tmpl : second[i] # Unavailable)

(***************************************************************************)
(* "Copy a value only when ... the returned length still fits both the     *)
(* allocation and the C.int length C.GoBytes accepts.  ...  one that       *)
(* overflows C.int would mis-size the copy" (object.go GetAttributeValue): *)
(* of a module that keeps the rules, what is copied is the whole value.    *)
(***************************************************************************)
CopiesAreWhole ==
    Answered => \A i \in tmpl : out[i] \in {0, second[i]}
=============================================================================
