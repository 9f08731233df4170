---------------------------- MODULE KeyCreation ----------------------------
(***************************************************************************)
(* The methods of Ctx that create a key from a Mechanism, after the check  *)
(* of the policy.  GenerateKey, GenerateKeyPair, UnwrapKey,                *)
(* UnwrapKeyAuthenticated, DeriveKey and DecapsulateKey make one call;     *)
(* EncapsulateKey asks for the length of the ciphertext first, by its own  *)
(* two calls rather than by outOp.                                         *)
(*                                                                         *)
(* The module may report any length.  It creates a key by the rules of     *)
(* PKCS #11: in a call that succeeds and was not given a NULL buffer.      *)
(***************************************************************************)
EXTENDS Policy, Naturals

CONSTANTS
    Lengths,         \* what the module may report as a length
    CiphertextLen,   \* the true one
    MaxOutBuf,       \* maxOutBuf
    NoKey            \* the handle 0

ASSUME KeyCreationAssumption ==
    /\ Lengths \subseteq Nat
    /\ CiphertextLen \in Lengths \ {0}
    /\ MaxOutBuf \in Nat
    /\ NoKey \notin Nat

VARIABLES
    op,          \* the method
    keys,        \* the keys in the token that the method created
    key,         \* the variable the module writes the handle to
    ctLen,       \* ctLen, which the module writes to
    allocLen,    \* the capacity of buf; 0: buf is NULL
    out,         \* the length of the ciphertext returned
    result,      \* the outcome of the method
    stuck        \* C_DestroyObject failed

callVars == <<op, keys, key, ctLen, allocLen, out, result, stuck>>
vars     == <<policyVars, callVars>>

Ops == {"GenerateKey", "GenerateKeyPair", "UnwrapKey", "DeriveKey",
        "DecapsulateKey", "UnwrapKeyAuthenticated", "EncapsulateKey"}

TheKey  == 1
Handles == {NoKey, TheKey}

Goto(from, to) ==
    /\ pc = from
    /\ pc' = to
    /\ UNCHANGED <<policy, mech, todo, since>>

Finish(from, r) == Goto(from, "done") /\ result' = r

-----------------------------------------------------------------------------
Init ==
    /\ PolicyInit
    /\ op \in Ops
    /\ keys = {}
    /\ key = NoKey
    /\ ctLen = 0
    /\ allocLen = 0
    /\ out = 0
    /\ result = "none"
    /\ stuck = FALSE

\* The module refuses; it has created nothing.
CallFails(from) ==
    /\ Finish(from, "failed")
    /\ UNCHANGED <<op, keys, key, ctLen, allocLen, out, stuck>>

Create ==
    /\ keys' = {TheKey}
    /\ key' = TheKey

ReportLength == ctLen' \in Lengths

\* A method of one call.  A key pair counts as one key.
OneCall(m) ==
    /\ op = m
    /\ \/ CallFails("allowed")
       \/ /\ Finish("allowed", "success")
          /\ Create
          /\ UNCHANGED <<op, ctLen, allocLen, out, stuck>>

GenerateKey            == OneCall("GenerateKey")
GenerateKeyPair        == OneCall("GenerateKeyPair")
UnwrapKey              == OneCall("UnwrapKey")
DeriveKey              == OneCall("DeriveKey")
DecapsulateKey         == OneCall("DecapsulateKey")
UnwrapKeyAuthenticated == OneCall("UnwrapKeyAuthenticated")

-----------------------------------------------------------------------------
\* EncapsulateKey's sizing pass.
SizingFails == op = "EncapsulateKey" /\ CallFails("allowed")

Sizing ==
    /\ op = "EncapsulateKey"
    /\ Goto("allowed", "sized")
    /\ ReportLength
    /\ UNCHANGED <<op, keys, key, allocLen, out, result, stuck>>

TooLong ==
    /\ ctLen > MaxOutBuf
    /\ Finish("sized", "failed")
    /\ UNCHANGED <<op, keys, key, ctLen, allocLen, out, stuck>>

\* A buffer of that length, none when it is 0.
Allocate ==
    /\ ctLen <= MaxOutBuf
    /\ Goto("sized", "data")
    /\ allocLen' = ctLen
    /\ UNCHANGED <<op, keys, key, ctLen, out, result, stuck>>

DataFails == CallFails("data")

\* The data pass.  With no buffer it is a sizing pass once more.
DataPass ==
    /\ Goto("data", "called")
    /\ ReportLength
    /\ IF allocLen > 0 THEN Create ELSE UNCHANGED <<keys, key>>
    /\ UNCHANGED <<op, allocLen, out, result, stuck>>

\* Mutant: the key stays behind.
Overclaim_KeepsKey ==
    /\ ctLen > allocLen
    /\ Finish("called", "failed")
    /\ UNCHANGED <<op, keys, key, ctLen, allocLen, out, stuck>>

\* More ciphertext than there was room for: the key is destroyed, or that
\* fails and the error is ignored.
Overclaim ==
    /\ ctLen > allocLen
    /\ Finish("called", "failed")
    /\ \/ keys' = keys \ {key} /\ UNCHANGED stuck
       \/ stuck' = TRUE /\ UNCHANGED keys
    /\ UNCHANGED <<op, key, ctLen, allocLen, out>>

\* Mutant: the whole buffer is the ciphertext.
Deliver_WholeBuffer ==
    /\ ctLen <= allocLen
    /\ Finish("called", "success")
    /\ out' = allocLen
    /\ UNCHANGED <<op, keys, key, ctLen, allocLen, stuck>>

Deliver ==
    /\ ctLen <= allocLen
    /\ Finish("called", "success")
    /\ out' = ctLen
    /\ UNCHANGED <<op, keys, key, ctLen, allocLen, stuck>>

-----------------------------------------------------------------------------
Method ==
    \/ GenerateKey \/ GenerateKeyPair \/ UnwrapKey \/ DeriveKey
    \/ DecapsulateKey \/ UnwrapKeyAuthenticated
    \/ SizingFails \/ Sizing \/ TooLong \/ Allocate
    \/ DataFails \/ DataPass \/ Overclaim \/ Deliver

Next ==
    \/ (PolicyNext \/ SetMechanismPolicy) /\ UNCHANGED callVars
    \/ Method

Spec == Init /\ [][Next]_vars

-----------------------------------------------------------------------------
TypeOK ==
    /\ PolicyTypeOK
    /\ pc \in {"start", "construct", "panicked", "made", "check", "rejected",
               "allowed", "sized", "data", "called", "done"}
    /\ op \in Ops
    /\ keys \subseteq {TheKey}
    /\ key \in Handles
    /\ ctLen \in Lengths \cup {0}
    /\ allocLen \in 0..MaxOutBuf
    /\ out \in 0..MaxOutBuf
    /\ result \in {"none", "failed", "success"}
    /\ stuck \in BOOLEAN

(***************************************************************************)
(* What the policy decided when the method was called is what happens:     *)
(* Judged, with the module reached once the checks are passed (policy.go   *)
(* checkMechanismUse, marshal.go cMechanism).                              *)
(***************************************************************************)
PolicyHolds ==
    Judged(pc \in {"allowed", "sized", "data", "called", "done"})

(***************************************************************************)
(* A method that returns an error leaves no key behind that its caller has *)
(* no handle of, whatever lengths the module reports, except when the      *)
(* module refuses to destroy it (v32.go EncapsulateKey: "destroy it rather *)
(* than hand back an orphan").                                             *)
(***************************************************************************)
NoOrphanKey ==
    result = "failed" => keys = {} \/ stuck

(***************************************************************************)
(* A method that succeeds returns the handle of a key that exists, and the *)
(* ciphertext lies within its buffer and is whole if the data pass         *)
(* reported its true length.  The exception: when the sizing pass reports  *)
(* 0, EncapsulateKey passes NULL again, so that its data pass creates no   *)
(* key, and returns the handle 0 (v32.go EncapsulateKey, ctPtr; "allocLen  *)
(* is the capacity of buf").                                               *)
(***************************************************************************)
SuccessIsWhole ==
    /\ out <= allocLen
    /\ result = "success" =>
           \/ key \in keys /\ (ctLen = CiphertextLen => out = CiphertextLen)
           \/ key \in keys /\ op # "EncapsulateKey"
           \/ key = NoKey /\ op = "EncapsulateKey" /\ allocLen = 0
=============================================================================
