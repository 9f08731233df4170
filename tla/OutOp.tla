------------------------------- MODULE OutOp -------------------------------
(***************************************************************************)
(* cryptoki.outOp: the two-pass call behind every method that returns a    *)
(* byte string of a length only the module knows (Sign, Encrypt, Decrypt,  *)
(* Digest, their Final forms, WrapKey, GetOperationState, ...).            *)
(*                                                                         *)
(* The module is not trusted: each call returns any code and leaves any    *)
(* length in *outLen.  What it is trusted with is the rule of PKCS #11     *)
(* that says when a function has been executed: a call that answers a size *)
(* question, or that reports CKR_BUFFER_TOO_SMALL, has done nothing yet;   *)
(* any other answer is final.  What execution means for the operations of  *)
(* a session is the subject of SessionOps and SessionOutput.               *)
(***************************************************************************)
EXTENDS Naturals

CONSTANTS
    maxOutBuf,     \* the largest output the binding allocates for
    maxRetries,    \* how often it allocates and runs the data pass
    Lengths        \* the lengths a module may report

ASSUME OutOpAssumption ==
    /\ maxOutBuf \in Nat \ {0}
    /\ maxRetries \in Nat
    /\ Lengths \subseteq Nat

VARIABLES
    pc,
    n,             \* the length in-out parameter shared with the module
    allocCap,      \* the saved size of the allocation
    retries,
    rv,            \* the code of the last call
    heap,          \* size of the live native buffer, 0 when there is none
    exact,         \* every buffer freed so far was scrubbed in full, no further
    due,           \* the function is still to be executed by the token
    calls,         \* calls into the module so far
    result,        \* what outOp returned
    outLen         \* length of the byte string it returned

vars == <<pc, n, allocCap, retries, rv, heap, exact, due, calls, result, outLen>>

RVs     == {"OK", "BUFFER_TOO_SMALL", "ERROR"}
Results == {"none", "bytes", "module_error", "too_large", "retries_exhausted"}

-----------------------------------------------------------------------------
Init ==
    /\ pc = "sizing"
    /\ n = 0
    /\ allocCap = 0
    /\ retries = 0
    /\ rv = "OK"
    /\ heap = 0
    /\ exact = TRUE
    /\ due = TRUE
    /\ calls = 0
    /\ result = "none"
    /\ outLen = 0

Return(r) == pc' = "done" /\ result' = r

\* zfree(buf, k): scrub k bytes and free.
zfree(k) == heap' = 0 /\ exact' = (exact /\ k = heap)

\* A call into the module: any code, any length.
Call(data) ==
    /\ rv' \in RVs
    /\ n' \in Lengths
    /\ calls' = calls + 1
    /\ due' = (due /\ IF data THEN rv' = "BUFFER_TOO_SMALL" ELSE rv' # "ERROR")

\* Mutant: a reported size of zero is taken for a finished operation.
Sizing_ZeroIsDone ==
    /\ pc = "sizing"
    /\ Call(FALSE)
    /\ CASE rv' # "OK"            -> Return("module_error")
         [] rv' = "OK" /\ n' = 0  -> Return("bytes")
         [] rv' = "OK" /\ n' > 0  -> pc' = "loop" /\ result' = result
    /\ UNCHANGED <<allocCap, retries, heap, exact, outLen>>

\* The sizing pass: a NULL buffer.
Sizing ==
    /\ pc = "sizing"
    /\ Call(FALSE)
    /\ IF rv' = "OK" THEN pc' = "loop" /\ result' = result
                     ELSE Return("module_error")
    /\ UNCHANGED <<allocCap, retries, heap, exact, outLen>>

\* Mutant: after the last retry the module's code is handed on as it is.
Exhausted_ReturnsCode ==
    /\ pc = "loop"
    /\ retries >= maxRetries
    /\ Return("module_error")
    /\ UNCHANGED <<n, allocCap, retries, rv, heap, exact, due, calls, outLen>>

\* The loop is left when its bound is reached.
Exhausted ==
    /\ pc = "loop"
    /\ retries >= maxRetries
    /\ Return("retries_exhausted")
    /\ UNCHANGED <<n, allocCap, retries, rv, heap, exact, due, calls, outLen>>

\* Mutant: a size over the limit is asked for again.
TooLarge_Continue ==
    /\ pc = "loop"
    /\ retries < maxRetries
    /\ n > maxOutBuf
    /\ UNCHANGED vars

\* Top of the loop: check the reported size.
TooLarge ==
    /\ pc = "loop"
    /\ retries < maxRetries
    /\ n > maxOutBuf
    /\ Return("too_large")
    /\ UNCHANGED <<n, allocCap, retries, rv, heap, exact, due, calls, outLen>>

\* Mutant: allocate exactly the reported size, zero included.
Allocate_ExactSize ==
    /\ pc = "loop"
    /\ retries < maxRetries
    /\ n <= maxOutBuf
    /\ allocCap' = n
    /\ heap' = allocCap'
    /\ pc' = "data"
    /\ UNCHANGED <<n, retries, rv, exact, due, calls, result, outLen>>

\* Allocate at least one byte, so that the data pass gets a pointer.
Allocate ==
    /\ pc = "loop"
    /\ retries < maxRetries
    /\ n <= maxOutBuf
    /\ allocCap' = IF n = 0 THEN 1 ELSE n
    /\ heap' = allocCap'
    /\ pc' = "data"
    /\ UNCHANGED <<n, retries, rv, exact, due, calls, result, outLen>>

\* The data pass; the callback may overwrite n.
DataPass ==
    /\ pc = "data"
    /\ Call(TRUE)
    /\ pc' = "check"
    /\ UNCHANGED <<allocCap, retries, heap, exact, result, outLen>>

\* Mutant: CKR_BUFFER_TOO_SMALL is an error like any other.
Retry_IsAnError ==
    /\ pc = "check"
    /\ rv = "BUFFER_TOO_SMALL"
    /\ zfree(allocCap)
    /\ Return("module_error")
    /\ UNCHANGED <<n, allocCap, retries, rv, due, calls, outLen>>

\* CKR_BUFFER_TOO_SMALL: free, and go round again unless n is over the limit.
Retry ==
    /\ pc = "check"
    /\ rv = "BUFFER_TOO_SMALL"
    /\ zfree(allocCap)
    /\ IF n > maxOutBuf
       THEN Return("too_large") /\ UNCHANGED retries
       ELSE pc' = "loop" /\ retries' = retries + 1 /\ UNCHANGED result
    /\ UNCHANGED <<n, allocCap, rv, due, calls, outLen>>

\* Mutant: scrub the length the module left behind, not the allocation.
Fail_ScrubsN ==
    /\ pc = "check"
    /\ rv = "ERROR"
    /\ zfree(n)
    /\ Return("module_error")
    /\ UNCHANGED <<n, allocCap, retries, rv, due, calls, outLen>>

Fail ==
    /\ pc = "check"
    /\ rv = "ERROR"
    /\ zfree(allocCap)
    /\ Return("module_error")
    /\ UNCHANGED <<n, allocCap, retries, rv, due, calls, outLen>>

\* A successful call that claims more than it was given room for.
Overclaim ==
    /\ pc = "check"
    /\ rv = "OK"
    /\ n > allocCap \/ n > maxOutBuf
    /\ zfree(allocCap)
    /\ Return("too_large")
    /\ UNCHANGED <<n, allocCap, retries, rv, due, calls, outLen>>

\* Copy n bytes out (none when n = 0), scrub and free.
Copy ==
    /\ pc = "check"
    /\ rv = "OK"
    /\ n <= allocCap /\ n <= maxOutBuf
    /\ outLen' = n
    /\ zfree(allocCap)
    /\ Return("bytes")
    /\ UNCHANGED <<n, allocCap, retries, rv, due, calls>>

Next ==
    \/ Sizing \/ Exhausted \/ TooLarge \/ Allocate \/ DataPass
    \/ Retry \/ Fail \/ Overclaim \/ Copy

Spec == Init /\ [][Next]_vars

-----------------------------------------------------------------------------
TypeOK ==
    /\ pc \in {"sizing", "loop", "data", "check", "done"}
    /\ n \in Nat
    /\ allocCap \in Nat
    /\ retries \in Nat
    /\ rv \in RVs
    /\ heap \in Nat
    /\ exact \in BOOLEAN
    /\ due \in BOOLEAN
    /\ calls \in Nat
    /\ result \in Results
    /\ outLen \in Nat

\* The inductive invariant: the buffer exists exactly during the data pass and
\* has the saved size, and every loop iteration made one call.
BufferInv ==
    /\ exact
    /\ heap = IF pc \in {"data", "check"} THEN allocCap ELSE 0
    /\ pc \in {"data", "check"} => allocCap \in 1..maxOutBuf
    /\ result # "none" <=> pc = "done"

CallsInv ==
    /\ pc = "sizing" => calls = 0 /\ retries = 0
    /\ pc = "loop"  => calls = 1 + retries /\ retries <= maxRetries
    /\ pc = "data"  => calls = 1 + retries /\ retries < maxRetries
    /\ pc = "check" => calls = 2 + retries /\ retries < maxRetries
    /\ pc = "done"  => calls <= 1 + maxRetries

EndedInv ==
    /\ pc = "check" => (due => rv = "BUFFER_TOO_SMALL")
    /\ result = "bytes" => ~due /\ rv = "OK" /\ calls >= 2 /\ outLen <= allocCap
                           /\ allocCap <= maxOutBuf
    /\ result = "module_error" /\ calls >= 2 => ~due

(***************************************************************************)
(* Where outOp is, what it holds and what it has done agree: the buffer    *)
(* exists exactly during the data pass and has the saved size, each round  *)
(* of the loop made one call, and after a success or an error the function *)
(* has been executed, once (marshal.go outOp).                             *)
(***************************************************************************)
OutOpInv == TypeOK /\ BufferInv /\ CallsInv /\ EndedInv

(***************************************************************************)
(* The native buffer: never larger than the limit, always scrubbed over    *)
(* its whole length and no further - although the module may have          *)
(* overwritten the length - and always freed when outOp returns (marshal.go*)
(* outOp: "Always scrub and free using allocCap").                         *)
(***************************************************************************)
BufferScrubbed == exact /\ heap <= maxOutBuf /\ (pc = "done" => heap = 0)

(***************************************************************************)
(* outOp reports success only when the data pass itself succeeded, never   *)
(* on the strength of the sizing pass, and the bytes it copies lie inside  *)
(* the buffer (marshal.go outOp: "returning success here would bypass      *)
(* authentication").                                                       *)
(***************************************************************************)
SuccessIsExecuted ==
    result = "bytes" => /\ rv = "OK" /\ calls >= 2 /\ ~due
                        /\ outLen <= allocCap /\ outLen <= maxOutBuf

(***************************************************************************)
(* A module that keeps answering CKR_BUFFER_TOO_SMALL is asked at most     *)
(* maxRetries times after the sizing pass (marshal.go "Retries are         *)
(* bounded by maxRetries").                                                *)
(***************************************************************************)
CallsBounded == calls <= 1 + maxRetries
=============================================================================
