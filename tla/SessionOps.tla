----------------------------- MODULE SessionOps -----------------------------
(***************************************************************************)
(* The cryptographic operations of the sessions behind one Ctx: every      *)
(* method of cryptoki.Ctx that starts, continues or ends one.              *)
(*                                                                         *)
(* A session is a state machine kept by the token, and the caller learns   *)
(* its state from what the methods return.  The module follows both: the   *)
(* operations the token holds active, and the ones the caller must believe *)
(* active from the results so far.  A method that returns bytes is a       *)
(* sizing call and a data call (outOp, see OutOp), and other sessions run  *)
(* between the two.  Callers serialise the use of one session, as the      *)
(* comment on Ctx asks of them.  A call that fails without changing the    *)
(* session is a stuttering step.                                           *)
(***************************************************************************)
EXTENDS Naturals

CONSTANT Handles    \* session handles

VARIABLES
    open,           \* sessions open in the token
    active,         \* active[h]: operations active in session h
    believed,       \* believed[h]: operations the caller takes for active
    abandoned,      \* abandoned[h]: operations outOp gave up on while active
    pending         \* pending[h]: the output method between its two calls

vars == <<open, active, believed, abandoned, pending>>

Kinds == {"sign", "verify", "encrypt", "decrypt", "digest", "find", "vsig"}

Answers == {"OK", "BUFFER_TOO_SMALL", "ERROR"}

NoCall == [uses |-> {}, ends |-> {}, data |-> FALSE]

\* The caller of h is between two methods, and h is a session it has.
Ready(h) == h \in open /\ ~pending[h].data

\* The token and the caller after a call: the operations of h that remain
\* active, and those the caller goes on believing in.  Whatever is still
\* active and no longer believed in was abandoned.
Settle(h, act, bel) ==
    /\ active'    = [active EXCEPT ![h] = act]
    /\ believed'  = [believed EXCEPT ![h] = bel]
    /\ abandoned' = [abandoned EXCEPT ![h] = @ \cap (act \ bel)]

-----------------------------------------------------------------------------
Init ==
    /\ open = {}
    /\ active    = [h \in Handles |-> {}]
    /\ believed  = [h \in Handles |-> {}]
    /\ abandoned = [h \in Handles |-> {}]
    /\ pending   = [h \in Handles |-> NoCall]

\* C_OpenSession picks a handle that is not in use.
OpenSession(h) ==
    /\ h \notin open
    /\ open' = open \cup {h}
    /\ UNCHANGED <<active, believed, abandoned, pending>>

\* C_CloseSession ends the session and its operations.
CloseSession(h) ==
    /\ Ready(h)
    /\ open' = open \ {h}
    /\ Settle(h, {}, {})
    /\ UNCHANGED pending

CloseAllSessions ==
    /\ \A h \in open : Ready(h)
    /\ open' = {}
    /\ active'    = [h \in Handles |-> {}]
    /\ believed'  = [h \in Handles |-> {}]
    /\ abandoned' = [h \in Handles |-> {}]
    /\ UNCHANGED pending

-----------------------------------------------------------------------------
(* Shapes of methods.                                                      *)

\* An Init method: the mechanism policy or the token refuses and nothing
\* changes (always when the operation is active: CKR_OPERATION_ACTIVE), or the
\* operation starts.
Start(h, k) ==
    /\ Ready(h)
    /\ \/ UNCHANGED <<active, believed, abandoned>>
       \/ /\ k \notin active[h]
          /\ Settle(h, active[h] \cup {k}, believed[h] \cup {k})
    /\ UNCHANGED <<open, pending>>

\* A method of one call that continues an operation: an error ends it.
Continue(h, k) ==
    /\ Ready(h)
    /\ \/ k \in active[h] /\ Settle(h, active[h], believed[h] \cup {k})
       \/ Settle(h, active[h] \ {k}, believed[h] \ {k})
    /\ UNCHANGED <<open, pending>>

\* A method of one call that ends an operation, with whatever result.
Finish(h, k) ==
    /\ Ready(h)
    /\ Settle(h, active[h] \ {k}, believed[h] \ {k})
    /\ UNCHANGED <<open, pending>>

\* The sizing pass of an output method that works on the operations uses and
\* ends the operations ends, by the token's answer a: an error
\* (CKR_OPERATION_NOT_INITIALIZED when one of them is not active, or one that
\* ends them); a refusal to size, which is the method's result although
\* CKR_BUFFER_TOO_SMALL ends nothing; or a size.
Output(h, uses, ends, a) ==
    /\ Ready(h)
    /\ \/ /\ a = "ERROR" /\ ~(uses \subseteq active[h])
          /\ Settle(h, active[h], believed[h] \ (uses \ active[h]))
          /\ UNCHANGED pending
       \/ /\ a = "ERROR" /\ uses \subseteq active[h]
          /\ Settle(h, active[h] \ uses, believed[h] \ uses)
          /\ UNCHANGED pending
       \/ /\ a = "BUFFER_TOO_SMALL" /\ uses \subseteq active[h]
          /\ Settle(h, active[h], believed[h] \cup uses)
          /\ UNCHANGED pending
       \/ /\ a = "OK" /\ uses \subseteq active[h]
          /\ pending' = [pending EXCEPT ![h] = [uses |-> uses, ends |-> ends, data |-> TRUE]]
          /\ UNCHANGED <<active, believed, abandoned>>
    /\ UNCHANGED open

-----------------------------------------------------------------------------
(* The data pass of an output method, by its outcome.                      *)

\* Give up without an answer from the token: mark what stays active.
GiveUp(h, act) ==
    /\ active'    = [active EXCEPT ![h] = act]
    /\ believed'  = [believed EXCEPT ![h] = @ \ pending[h].uses]
    /\ abandoned' = [abandoned EXCEPT ![h] = (@ \cup pending[h].uses) \cap act]

DataOK(h) ==
    /\ pending[h].data
    /\ LET p == pending[h]
       IN  Settle(h, active[h] \ p.ends, (believed[h] \cup p.uses) \ p.ends)
    /\ pending' = [pending EXCEPT ![h] = NoCall]
    /\ UNCHANGED open

DataError(h) ==
    /\ pending[h].data
    /\ Settle(h, active[h] \ pending[h].uses, believed[h] \ pending[h].uses)
    /\ pending' = [pending EXCEPT ![h] = NoCall]
    /\ UNCHANGED open

\* The reported size is over the limit, or the retries are used up.
DataLimit(h) ==
    /\ pending[h].data
    /\ GiveUp(h, active[h])
    /\ pending' = [pending EXCEPT ![h] = NoCall]
    /\ UNCHANGED open

\* The call succeeded in the token but claims more bytes than it had room for.
DataOverclaim(h) ==
    /\ pending[h].data
    /\ GiveUp(h, active[h] \ pending[h].ends)
    /\ pending' = [pending EXCEPT ![h] = NoCall]
    /\ UNCHANGED open

-----------------------------------------------------------------------------
(* sign.go                                                                 *)
SignInit(h)       == Start(h, "sign")
Sign(h, a)        == Output(h, {"sign"}, {"sign"}, a)
SignUpdate(h)     == Continue(h, "sign")
SignFinal(h, a)   == Output(h, {"sign"}, {"sign"}, a)
VerifyInit(h)     == Start(h, "verify")
Verify(h)         == Finish(h, "verify")
VerifyUpdate(h)   == Continue(h, "verify")
VerifyFinal(h)    == Finish(h, "verify")

(* crypt.go                                                                *)
EncryptInit(h)    == Start(h, "encrypt")
Encrypt(h, a)     == Output(h, {"encrypt"}, {"encrypt"}, a)
EncryptUpdate(h, a) == Output(h, {"encrypt"}, {}, a)
EncryptFinal(h, a) == Output(h, {"encrypt"}, {"encrypt"}, a)
DecryptInit(h)    == Start(h, "decrypt")
Decrypt(h, a)     == Output(h, {"decrypt"}, {"decrypt"}, a)
DecryptUpdate(h, a) == Output(h, {"decrypt"}, {}, a)
DecryptFinal(h, a) == Output(h, {"decrypt"}, {"decrypt"}, a)

(* digest.go                                                               *)
DigestInit(h)     == Start(h, "digest")
Digest(h, a)      == Output(h, {"digest"}, {"digest"}, a)
DigestUpdate(h)   == Continue(h, "digest")
DigestKey(h)      == Continue(h, "digest")
DigestFinal(h, a) == Output(h, {"digest"}, {"digest"}, a)

(* combined.go                                                             *)
DigestEncryptUpdate(h, a) == Output(h, {"digest", "encrypt"}, {}, a)
DecryptDigestUpdate(h, a) == Output(h, {"decrypt", "digest"}, {}, a)
SignEncryptUpdate(h, a) == Output(h, {"sign", "encrypt"}, {}, a)
DecryptVerifyUpdate(h, a) == Output(h, {"decrypt", "verify"}, {}, a)

(* object.go: a search stays active until FindObjectsFinal, whatever       *)
(* FindObjects returns.                                                    *)
FindObjectsInit(h)  == Start(h, "find")
FindObjects(h)      == Ready(h) /\ UNCHANGED vars
FindObjectsFinal(h) == Finish(h, "find")

(* v32.go                                                                  *)
VerifySignatureInit(h)   == Start(h, "vsig")
VerifySignature(h)       == Finish(h, "vsig")
VerifySignatureUpdate(h) == Continue(h, "vsig")
VerifySignatureFinal(h)  == Finish(h, "vsig")

(* wrap.go, v32.go, state.go: output methods that belong to no operation.  *)
WrapKey(h, a)           == Output(h, {}, {}, a)
WrapKeyAuthenticated(h, a) == Output(h, {}, {}, a)
GetOperationState(h, a) == Output(h, {}, {}, a)

-----------------------------------------------------------------------------
DataPass(h) == DataOK(h) \/ DataError(h) \/ DataLimit(h) \/ DataOverclaim(h)

\* The methods of one call, and those of a sizing call and a data call.
OneCall(h) ==
    \/ SignInit(h) \/ SignUpdate(h)
    \/ VerifyInit(h) \/ Verify(h) \/ VerifyUpdate(h) \/ VerifyFinal(h)
    \/ EncryptInit(h) \/ DecryptInit(h)
    \/ DigestInit(h) \/ DigestUpdate(h) \/ DigestKey(h)
    \/ FindObjectsInit(h) \/ FindObjects(h) \/ FindObjectsFinal(h)
    \/ VerifySignatureInit(h) \/ VerifySignature(h)
    \/ VerifySignatureUpdate(h) \/ VerifySignatureFinal(h)

TwoCalls(h, a) ==
    \/ Sign(h, a) \/ SignFinal(h, a)
    \/ Encrypt(h, a) \/ EncryptUpdate(h, a) \/ EncryptFinal(h, a)
    \/ Decrypt(h, a) \/ DecryptUpdate(h, a) \/ DecryptFinal(h, a)
    \/ Digest(h, a) \/ DigestFinal(h, a)
    \/ DigestEncryptUpdate(h, a) \/ DecryptDigestUpdate(h, a)
    \/ SignEncryptUpdate(h, a) \/ DecryptVerifyUpdate(h, a)
    \/ WrapKey(h, a) \/ WrapKeyAuthenticated(h, a) \/ GetOperationState(h, a)

Next ==
    \/ CloseAllSessions
    \/ \E h \in Handles :
           \/ OpenSession(h) \/ CloseSession(h) \/ OneCall(h) \/ DataPass(h)
           \/ \E a \in Answers : TwoCalls(h, a)

Spec == Init /\ [][Next]_vars

-----------------------------------------------------------------------------
TypeOK ==
    /\ open \subseteq Handles
    /\ active    \in [Handles -> SUBSET Kinds]
    /\ believed  \in [Handles -> SUBSET Kinds]
    /\ abandoned \in [Handles -> SUBSET Kinds]
    /\ pending   \in [Handles -> [uses : SUBSET Kinds, ends : SUBSET Kinds, data : BOOLEAN]]

(***************************************************************************)
(* What the methods return tells the caller the state of the session: the  *)
(* operations active in the token are the ones the results so far say are  *)
(* active, together with the ones outOp abandoned at one of its own        *)
(* limits.  No method reports an end that the token did not reach.         *)
(***************************************************************************)
ResultsTellState ==
    \A h \in Handles :
        /\ active[h] = believed[h] \cup abandoned[h]
        /\ believed[h] \cap abandoned[h] = {}
=============================================================================
