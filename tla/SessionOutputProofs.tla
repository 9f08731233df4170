------------------------ MODULE SessionOutputProofs ------------------------
(***************************************************************************)
(* Proofs about OutOp and SessionOutput, for every limit, number of        *)
(* retries and set of lengths: outOp has an invariant and keeps it in the  *)
(* methods that use it, and they implement SessionOps, from which its      *)
(* theorem follows.                                                        *)
(***************************************************************************)
EXTENDS SessionOutput, TLAPS

-----------------------------------------------------------------------------
(* outOp by itself.                                                        *)

USE OutOpAssumption DEF RVs, Results

LEMMA InitOutOpInv == Init => OutOpInv
  BY DEF Init, TypeOK, OutOpInv, BufferInv, CallsInv, EndedInv

\* Each step keeps the types.
LEMMA NextTypeOK == TypeOK /\ [Next]_vars => TypeOK'
  <1> SUFFICES ASSUME TypeOK, [Next]_vars PROVE TypeOK'
    OBVIOUS
  <1> USE DEF TypeOK, Return, zfree, Call
  <1>1. CASE Sizing
    BY <1>1 DEF Sizing
  <1>2. CASE Exhausted \/ TooLarge
    BY <1>2 DEF Exhausted, TooLarge
  <1>3. CASE Allocate
    BY <1>3 DEF Allocate
  <1>4. CASE DataPass
    BY <1>4 DEF DataPass
  <1>5. CASE Retry
    BY <1>5 DEF Retry
  <1>6. CASE Fail \/ Overclaim \/ Copy
    <2>1. exact' \in BOOLEAN /\ heap' = 0
      BY <1>6 DEF Fail, Overclaim, Copy
    <2> HIDE DEF zfree
    <2> QED
      BY <1>6, <2>1 DEF Fail, Overclaim, Copy
  <1>7. CASE UNCHANGED vars
    BY <1>7 DEF vars
  <1> QED
    BY <1>1, <1>2, <1>3, <1>4, <1>5, <1>6, <1>7 DEF Next

LEMMA NextBufferInv == TypeOK /\ BufferInv /\ [Next]_vars => BufferInv'
  <1> SUFFICES ASSUME TypeOK, BufferInv, [Next]_vars PROVE BufferInv'
    OBVIOUS
  <1> USE DEF TypeOK, BufferInv, Return, zfree
  <1>1. CASE Sizing
    BY <1>1 DEF Sizing
  <1>2. CASE Exhausted \/ TooLarge
    BY <1>2 DEF Exhausted, TooLarge
  <1>3. CASE Allocate
    BY <1>3 DEF Allocate
  <1>4. CASE DataPass
    BY <1>4 DEF DataPass
  <1>5. CASE Retry
    BY <1>5 DEF Retry
  <1>6. CASE Fail \/ Overclaim \/ Copy
    BY <1>6 DEF Fail, Overclaim, Copy
  <1>7. CASE UNCHANGED vars
    BY <1>7 DEF vars
  <1> QED
    BY <1>1, <1>2, <1>3, <1>4, <1>5, <1>6, <1>7 DEF Next

LEMMA NextCallsInv == TypeOK /\ CallsInv /\ [Next]_vars => CallsInv'
  <1> SUFFICES ASSUME TypeOK, CallsInv, [Next]_vars PROVE CallsInv'
    OBVIOUS
  <1> USE DEF TypeOK, CallsInv, Return
  <1>1. CASE Sizing
    BY <1>1 DEF Sizing, Call
  <1>2. CASE Exhausted \/ TooLarge
    BY <1>2 DEF Exhausted, TooLarge
  <1>3. CASE Allocate
    BY <1>3 DEF Allocate
  <1>4. CASE DataPass
    BY <1>4 DEF DataPass, Call
  <1>5. CASE Retry
    BY <1>5 DEF Retry
  <1>6. CASE Fail \/ Overclaim \/ Copy
    BY <1>6 DEF Fail, Overclaim, Copy
  <1>7. CASE UNCHANGED vars
    BY <1>7 DEF vars
  <1> QED
    BY <1>1, <1>2, <1>3, <1>4, <1>5, <1>6, <1>7 DEF Next

LEMMA NextEndedInv ==
    TypeOK /\ BufferInv /\ CallsInv /\ EndedInv /\ [Next]_vars => EndedInv'
  <1> SUFFICES ASSUME TypeOK, BufferInv, CallsInv, EndedInv, [Next]_vars
               PROVE  EndedInv'
    OBVIOUS
  <1> USE DEF TypeOK, BufferInv, CallsInv, EndedInv, Return
  <1>1. CASE Sizing
    BY <1>1 DEF Sizing, Call
  <1>2. CASE Exhausted \/ TooLarge
    BY <1>2 DEF Exhausted, TooLarge
  <1>3. CASE Allocate
    BY <1>3 DEF Allocate
  <1>4. CASE DataPass
    BY <1>4 DEF DataPass, Call
  <1>5. CASE Retry
    BY <1>5 DEF Retry
  <1>6. CASE Fail \/ Overclaim \/ Copy
    BY <1>6 DEF Fail, Overclaim, Copy
  <1>7. CASE UNCHANGED vars
    BY <1>7 DEF vars
  <1> QED
    BY <1>1, <1>2, <1>3, <1>4, <1>5, <1>6, <1>7 DEF Next

\* A step of outOp keeps all of it.
LEMMA NextOutOpInv == OutOpInv /\ [Next]_vars => OutOpInv'
  BY NextTypeOK, NextBufferInv, NextCallsInv, NextEndedInv DEF OutOpInv

-----------------------------------------------------------------------------

(***************************************************************************)
(* The inductive invariant of outOp, for all limits (marshal.go outOp).    *)
(***************************************************************************)
THEOREM OutOpInvariant == Spec => []OutOpInv
  BY InitOutOpInv, NextOutOpInv, PTL DEF Spec

(***************************************************************************)
(* The module is called at most 1 + maxRetries times (marshal.go).         *)
(***************************************************************************)
THEOREM CallsAreBounded == Spec => []CallsBounded
  <1>1. OutOpInv => CallsBounded
    BY DEF TypeOK, OutOpInv, CallsInv, CallsBounded
  <1> QED
    BY <1>1, OutOpInvariant, PTL

HIDE OutOpAssumption DEF RVs, Results

-----------------------------------------------------------------------------
(* outOp in the methods.                                                   *)

\* The theorems of SessionOps about the session as it is seen from outside.
P == INSTANCE SessionOpsProofs WITH
         Handles <- {session},
         active  <- [h \in {session} |-> active[h] \cup pending[h].uses]

SessionType ==
    /\ open \subseteq {session}
    /\ active    \in [{session} -> SUBSET T!Kinds]
    /\ believed  \in [{session} -> SUBSET T!Kinds]
    /\ abandoned \in [{session} -> SUBSET T!Kinds]
    /\ pending   \in [{session} -> [uses : SUBSET T!Kinds, ends : SUBSET T!Kinds, data : BOOLEAN]]
    /\ pending[session].ends \subseteq pending[session].uses

\* What the token has made of a pending call.
Intact   == pending[session].uses \subseteq active[session]
Ended    == pending[session].uses \cap active[session] = {}
Executed == /\ pending[session].ends \cap active[session] = {}
            /\ pending[session].uses \ pending[session].ends \subseteq active[session]

\* Where outOp is, and what the token has made of the call.
CallInv ==
    IF pending[session].data
    THEN /\ session \in open
         /\ pc # "sizing"
         /\ pc \in {"loop", "data"} => Intact
         /\ pc = "check" => /\ rv = "OK" => Executed
                            /\ rv = "ERROR" => Ended
                            /\ rv = "BUFFER_TOO_SMALL" => Intact
         /\ pc = "done" => /\ result = "bytes" => Executed
                           /\ result = "module_error" => Ended
                           /\ result \in {"too_large", "retries_exhausted"} => Intact \/ Executed
    ELSE /\ pending[session] = T!NoCall
         /\ pc \in {"sizing", "done"}

IInv == OutOpInv /\ SessionType /\ CallInv

\* The operations of the session, seen from outside.
Seen == [h \in {session} |-> active[h] \cup pending[h].uses]

-----------------------------------------------------------------------------
(* outOp between two methods, and in one.                                  *)

LEMMA ResetStarts == Reset => OutOpInv'
  <1> SUFFICES ASSUME Reset PROVE OutOpInv'
    OBVIOUS
  <1>1. TypeOK'
    <2>1. exact' \in BOOLEAN /\ due' \in BOOLEAN
      BY DEF Reset
    <2>2. n' \in Nat /\ allocCap' \in Nat /\ retries' \in Nat /\ heap' \in Nat
          /\ calls' \in Nat /\ outLen' \in Nat
      BY DEF Reset
    <2>3. pc' = "sizing" /\ rv' = "OK" /\ result' = "none"
      BY DEF Reset
    <2> QED
      BY <2>1, <2>2, <2>3 DEF TypeOK, RVs, Results
  <1>2. BufferInv' /\ CallsInv' /\ EndedInv'
    BY DEF Reset, BufferInv, CallsInv, EndedInv
  <1> QED
    BY <1>1, <1>2 DEF OutOpInv

LEMMA StepOutOpInv == OutOpInv /\ [SNext]_allVars => OutOpInv'
  <1> SUFFICES ASSUME OutOpInv, [SNext]_allVars PROVE OutOpInv'
    OBVIOUS
  <1>1. CASE Finish
    BY <1>1, ResetStarts DEF Finish
  <1>2. CASE Plain \/ Begin \/ Data \/ Local \/ UNCHANGED allVars
    <2>1. [Next]_vars
      BY <1>2 DEF Plain, Begin, Data, Local, allVars, Next
    <2> QED
      BY <2>1, NextOutOpInv
  <1> QED
    BY <1>1, <1>2 DEF SNext

-----------------------------------------------------------------------------
(* The shapes of methods.                                                  *)

\* Between two methods the session is seen as it is.
LEMMA SeenAtRest ==
    ASSUME SessionType, ~pending[session].data, CallInv
    PROVE  Seen = active
  BY DEF SessionType, CallInv, Seen, T!NoCall

\* Every output method has a shape.
Shaped(a) ==
    \E uses \in SUBSET T!Kinds : \E ends \in SUBSET uses : T!Output(session, uses, ends, a)

LEMMA TwoCallsShaped == ASSUME NEW a, T!TwoCalls(session, a) PROVE Shaped(a)
  <1>1. \A k \in T!Kinds : {k} \in SUBSET T!Kinds /\ {k} \in SUBSET {k} /\ {} \in SUBSET {k}
    OBVIOUS
  <1>2. "sign" \in T!Kinds /\ "encrypt" \in T!Kinds /\ "decrypt" \in T!Kinds /\ "digest" \in T!Kinds
    BY DEF T!Kinds
  <1>3. /\ {} \in SUBSET T!Kinds
        /\ {"digest", "encrypt"} \in SUBSET T!Kinds /\ {"decrypt", "digest"} \in SUBSET T!Kinds
        /\ {"sign", "encrypt"} \in SUBSET T!Kinds /\ {"decrypt", "verify"} \in SUBSET T!Kinds
    BY DEF T!Kinds
  <1>4. \A uses \in SUBSET T!Kinds : {} \in SUBSET uses
    OBVIOUS
  <1> QED
    BY <1>1, <1>2, <1>3, <1>4
       DEF Shaped, T!TwoCalls, T!Sign, T!SignFinal, T!Encrypt, T!EncryptUpdate, T!EncryptFinal,
           T!Decrypt, T!DecryptUpdate, T!DecryptFinal, T!Digest, T!DigestFinal,
           T!DigestEncryptUpdate, T!DecryptDigestUpdate, T!SignEncryptUpdate,
           T!DecryptVerifyUpdate, T!WrapKey, T!WrapKeyAuthenticated, T!GetOperationState

\* A step of a method that changes only what the token itself holds looks the
\* same from outside.
LEMMA OneCallSeen ==
    ASSUME Seen = active, Seen' = active', T!OneCall(session)
    PROVE  S!OneCall(session)
  <1>1. /\ \A k : T!Start(session, k) => S!Start(session, k)
        /\ \A k : T!Continue(session, k) => S!Continue(session, k)
        /\ \A k : T!Finish(session, k) => S!Finish(session, k)
    BY DEF Seen, T!Start, T!Continue, T!Finish, T!Ready, T!Settle,
           S!Start, S!Continue, S!Finish, S!Ready, S!Settle
  <1>2. T!FindObjects(session) => S!FindObjects(session)
    BY DEF Seen, T!FindObjects, T!Ready, T!vars, S!FindObjects, S!Ready, S!vars
  <1> QED
    BY <1>1, <1>2
       DEF T!OneCall, T!SignInit, T!SignUpdate, T!VerifyInit, T!Verify, T!VerifyUpdate,
           T!VerifyFinal, T!EncryptInit, T!DecryptInit, T!DigestInit,
           T!DigestUpdate, T!DigestKey, T!FindObjectsInit, T!FindObjectsFinal,
           T!VerifySignatureInit, T!VerifySignature, T!VerifySignatureUpdate,
           T!VerifySignatureFinal,
           S!OneCall, S!SignInit, S!SignUpdate, S!VerifyInit, S!Verify, S!VerifyUpdate,
           S!VerifyFinal, S!EncryptInit, S!DecryptInit, S!DigestInit,
           S!DigestUpdate, S!DigestKey, S!FindObjectsInit, S!FindObjectsFinal,
           S!VerifySignatureInit, S!VerifySignature, S!VerifySignatureUpdate,
           S!VerifySignatureFinal

LEMMA SessionSeen ==
    ASSUME Seen = active, Seen' = active',
           T!OpenSession(session) \/ T!CloseSession(session) \/ T!CloseAllSessions
    PROVE  S!OpenSession(session) \/ S!CloseSession(session) \/ S!CloseAllSessions
  BY DEF Seen, T!OpenSession, T!CloseSession, T!CloseAllSessions, T!Ready, T!Settle,
         S!OpenSession, S!CloseSession, S!CloseAllSessions, S!Ready, S!Settle

\* So does the sizing pass.
LEMMA TwoCallsSeen ==
    ASSUME NEW a, Seen = active, Seen' = active', T!TwoCalls(session, a)
    PROVE  S!TwoCalls(session, a)
  <1>1. \A uses, ends : T!Output(session, uses, ends, a) => S!Output(session, uses, ends, a)
    BY DEF Seen, T!Output, T!Ready, T!Settle, S!Output, S!Ready, S!Settle
  <1> QED
    BY <1>1
       DEF T!TwoCalls, T!Sign, T!SignFinal, T!Encrypt, T!EncryptUpdate, T!EncryptFinal, T!Decrypt,
           T!DecryptUpdate, T!DecryptFinal, T!Digest, T!DigestFinal,
           T!DigestEncryptUpdate, T!DecryptDigestUpdate, T!SignEncryptUpdate,
           T!DecryptVerifyUpdate, T!WrapKey, T!WrapKeyAuthenticated,
           T!GetOperationState,
           S!TwoCalls, S!Sign, S!SignFinal, S!Encrypt, S!EncryptUpdate, S!EncryptFinal, S!Decrypt,
           S!DecryptUpdate, S!DecryptFinal, S!Digest, S!DigestFinal,
           S!DigestEncryptUpdate, S!DecryptDigestUpdate, S!SignEncryptUpdate,
           S!DecryptVerifyUpdate, S!WrapKey, S!WrapKeyAuthenticated,
           S!GetOperationState

-----------------------------------------------------------------------------
(* The invariant.                                                          *)

LEMMA InitIInv == SInit => IInv
  <1> SUFFICES ASSUME SInit PROVE IInv
    OBVIOUS
  <1>1. OutOpInv
    BY InitOutOpInv DEF SInit
  <1>2. SessionType /\ CallInv
    BY DEF SInit, Init, T!Init, T!NoCall, SessionType, CallInv
  <1> QED
    BY <1>1, <1>2 DEF IInv

\* What a method of one call leaves of the session, and what it leaves alone.
LEMMA OneCallKeeps ==
    ASSUME SessionType,
           \/ T!OneCall(session) \/ T!OpenSession(session)
           \/ T!CloseSession(session) \/ T!CloseAllSessions
    PROVE  SessionType' /\ pending' = pending
  <1> USE DEF SessionType
  <1>1. \A k \in T!Kinds : T!Start(session, k) \/ T!Continue(session, k) \/ T!Finish(session, k)
                             => SessionType' /\ pending' = pending
    BY DEF T!Start, T!Continue, T!Finish, T!Settle
  <1>2. T!FindObjects(session) => SessionType' /\ pending' = pending
    BY DEF T!FindObjects, T!vars
  <1>3. T!OpenSession(session) \/ T!CloseSession(session) \/ T!CloseAllSessions
           => SessionType' /\ pending' = pending
    BY DEF T!OpenSession, T!CloseSession, T!CloseAllSessions, T!Settle
  <1>4. {"sign", "verify", "encrypt", "decrypt", "digest", "find", "vsig"} \subseteq T!Kinds
    BY DEF T!Kinds
  <1> HIDE DEF SessionType
  <1> QED
    BY <1>1, <1>2, <1>3, <1>4
       DEF T!OneCall, T!SignInit, T!SignUpdate, T!VerifyInit, T!Verify, T!VerifyUpdate,
           T!VerifyFinal, T!EncryptInit, T!DecryptInit, T!DigestInit, T!DigestUpdate,
           T!DigestKey, T!FindObjectsInit, T!FindObjectsFinal,
           T!VerifySignatureInit, T!VerifySignature, T!VerifySignatureUpdate,
           T!VerifySignatureFinal

LEMMA PlainKeeps == ASSUME IInv, Plain PROVE SessionType' /\ CallInv'
  <1>1. SessionType' /\ pending' = pending
    BY OneCallKeeps DEF IInv, Plain
  <1>2. CallInv'
    BY <1>1 DEF IInv, Plain, CallInv, vars, T!NoCall
  <1> QED
    BY <1>1, <1>2

LEMMA BeginKeeps == ASSUME IInv, Begin PROVE SessionType' /\ CallInv'
  <1>0. \E uses \in SUBSET T!Kinds : \E ends \in SUBSET uses :
            T!Output(session, uses, ends, rv')
    BY TwoCallsShaped DEF Begin, Shaped
  <1>1. PICK uses \in SUBSET T!Kinds :
            \E ends \in SUBSET uses : T!Output(session, uses, ends, rv')
    BY <1>0
  <1>2. PICK ends \in SUBSET uses : T!Output(session, uses, ends, rv')
    BY <1>1
  <1>3. pc = "sizing" /\ ~pending[session].data /\ pending[session] = T!NoCall
    BY DEF IInv, CallInv, Begin, Sizing
  <1>4. SessionType'
    <2>1. \/ UNCHANGED <<active, believed, abandoned>>
          \/ \E act \in SUBSET T!Kinds, bel \in SUBSET T!Kinds : T!Settle(session, act, bel)
      <3>1. /\ active[session] \in SUBSET T!Kinds /\ active[session] \ uses \in SUBSET T!Kinds
            /\ believed[session] \ (uses \ active[session]) \in SUBSET T!Kinds
            /\ believed[session] \ uses \in SUBSET T!Kinds
            /\ believed[session] \cup uses \in SUBSET T!Kinds
        BY DEF IInv, SessionType
      <3>2. \/ UNCHANGED <<active, believed, abandoned>>
            \/ T!Settle(session, active[session], believed[session] \ (uses \ active[session]))
            \/ T!Settle(session, active[session] \ uses, believed[session] \ uses)
            \/ T!Settle(session, active[session], believed[session] \cup uses)
        BY <1>2 DEF T!Output
      <3> QED
        BY <3>1, <3>2, Zenon
    <2>2. /\ active'    \in [{session} -> SUBSET T!Kinds]
          /\ believed'  \in [{session} -> SUBSET T!Kinds]
          /\ abandoned' \in [{session} -> SUBSET T!Kinds]
      BY <2>1 DEF IInv, SessionType, T!Settle
    <2>3. \/ pending' = pending
          \/ pending' = [pending EXCEPT ![session] =
                            [uses |-> uses, ends |-> ends, data |-> TRUE]]
      BY <1>2 DEF T!Output
    <2>4. open' = open
      BY <1>2 DEF T!Output
    <2>5. uses \in SUBSET T!Kinds /\ ends \in SUBSET T!Kinds /\ ends \subseteq uses
      OBVIOUS
    <2>6. pending \in [{session} -> [uses : SUBSET T!Kinds, ends : SUBSET T!Kinds, data : BOOLEAN]]
          /\ pending[session].ends \subseteq pending[session].uses
      BY DEF IInv, SessionType
    <2>7. pending' \in [{session} -> [uses : SUBSET T!Kinds, ends : SUBSET T!Kinds, data : BOOLEAN]]
          /\ pending'[session].ends \subseteq pending'[session].uses
      <3>1. CASE pending' = pending
        BY <2>6, <3>1
      <3>2. CASE pending' = [pending EXCEPT ![session] =
                                [uses |-> uses, ends |-> ends, data |-> TRUE]]
        <4>1. [uses |-> uses, ends |-> ends, data |-> TRUE]
                  \in [uses : SUBSET T!Kinds, ends : SUBSET T!Kinds, data : BOOLEAN]
          BY <2>5
        <4>2. pending'[session] = [uses |-> uses, ends |-> ends, data |-> TRUE]
          BY <2>6, <3>2
        <4>3. pending' \in [{session} -> [uses : SUBSET T!Kinds, ends : SUBSET T!Kinds, data : BOOLEAN]]
          BY <2>6, <3>2, <4>1
        <4> QED
          BY <2>5, <4>2, <4>3
      <3> QED
        BY <2>3, <3>1, <3>2
    <2>8. open' \subseteq {session}
      BY <2>4 DEF IInv, SessionType
    <2> QED
      BY <2>2, <2>7, <2>8 DEF SessionType
  <1>5. CASE rv' = "OK"
    <2>1. /\ uses \subseteq active[session] /\ session \in open
          /\ pending' = [pending EXCEPT ![session] =
                            [uses |-> uses, ends |-> ends, data |-> TRUE]]
          /\ UNCHANGED <<open, active>>
      BY <1>2, <1>5 DEF T!Output, T!Ready
    <2>2. pc' = "loop"
      BY <1>5 DEF Begin, Sizing
    <2> QED
      BY <1>4, <2>1, <2>2 DEF IInv, SessionType, CallInv, Intact
  <1>6. CASE rv' # "OK"
    <2>1. pending' = pending
      BY <1>2, <1>6 DEF T!Output
    <2>2. pc' = "done"
      BY <1>6 DEF Begin, Sizing, Return
    <2> QED
      BY <1>3, <1>4, <2>1, <2>2 DEF CallInv, T!NoCall
  <1> QED
    BY <1>5, <1>6

LEMMA DataKeeps == ASSUME IInv, Data PROVE SessionType' /\ CallInv'
  <1>1. pc = "data" /\ pc' = "check" /\ pending[session].data /\ Intact /\ session \in open
    BY DEF IInv, CallInv, Data, DataPass
  <1>2. SessionType'
    BY DEF IInv, SessionType, Data
  <1>3. /\ rv' = "OK" => Executed'
        /\ rv' = "ERROR" => Ended'
        /\ rv' = "BUFFER_TOO_SMALL" => Intact'
    BY <1>1 DEF IInv, SessionType, Data, Executed, Ended, Intact
  <1> QED
    BY <1>1, <1>2, <1>3 DEF CallInv, Data

LEMMA LocalKeeps == ASSUME IInv, Local PROVE SessionType' /\ CallInv'
  <1>1. SessionType' /\ (Intact' <=> Intact) /\ (Ended' <=> Ended) /\ (Executed' <=> Executed)
    BY DEF IInv, SessionType, Local, sessionVars, Intact, Ended, Executed
  <1>2. UNCHANGED <<open, pending>>
    BY DEF Local, sessionVars
  <1>3. pc \in {"loop", "check"} /\ pc' \in {"loop", "data", "done"} /\ pc' # "sizing"
    BY DEF Local, Exhausted, TooLarge, Allocate, Retry, Fail, Overclaim, Copy, Return
  <1>4. pending[session].data /\ session \in open
    BY <1>3 DEF IInv, CallInv
  <1>5. pc' \in {"loop", "data"} => Intact
    BY <1>4, <1>3 DEF IInv, CallInv, Local, Exhausted, TooLarge, Allocate, Retry, Fail,
       Overclaim, Copy, Return
  <1>6. pc' = "done" => /\ result' = "bytes" => Executed
                        /\ result' = "module_error" => Ended
                        /\ result' \in {"too_large", "retries_exhausted"} => Intact \/ Executed
    BY <1>4, <1>3 DEF IInv, CallInv, Local, Exhausted, TooLarge, Allocate, Retry, Fail,
       Overclaim, Copy, Return
  <1> QED
    BY <1>1, <1>2, <1>3, <1>4, <1>5, <1>6 DEF CallInv

LEMMA FinishKeeps == ASSUME IInv, Finish PROVE SessionType' /\ CallInv'
  <1>1. pc' = "sizing" /\ UNCHANGED open
    BY DEF Finish, Reset
  <1>2. CASE pending[session].data
    <2>1. pending' = [pending EXCEPT ![session] = T!NoCall] /\ Conclude(pending[session])
      BY <1>2 DEF Finish
    <2>2. /\ active'    \in [{session} -> SUBSET T!Kinds]
          /\ believed'  \in [{session} -> SUBSET T!Kinds]
          /\ abandoned' \in [{session} -> SUBSET T!Kinds]
      BY <2>1 DEF IInv, SessionType, Conclude, Believe, T!Settle, T!GiveUp
    <2>3. pending'[session] = T!NoCall
      BY <2>1 DEF IInv, SessionType
    <2>4. SessionType'
      BY <2>1, <2>2, <2>3, <1>1 DEF IInv, SessionType, T!NoCall
    <2> QED
      BY <1>1, <2>3, <2>4 DEF CallInv, T!NoCall
  <1>3. CASE ~pending[session].data
    <2>1. UNCHANGED sessionVars
      BY <1>1, <1>3 DEF Finish, sessionVars
    <2>2. SessionType'
      BY <2>1 DEF IInv, SessionType, sessionVars
    <2> QED
      BY <1>1, <1>3, <2>1, <2>2 DEF IInv, CallInv, sessionVars, T!NoCall
  <1> QED
    BY <1>2, <1>3

LEMMA NextIInv == IInv /\ [SNext]_allVars => IInv'
  <1> SUFFICES ASSUME IInv, [SNext]_allVars PROVE IInv'
    OBVIOUS
  <1>1. OutOpInv'
    BY StepOutOpInv DEF IInv
  <1>2. SessionType' /\ CallInv'
    <2>1. CASE UNCHANGED allVars
      BY <2>1 DEF allVars, vars, sessionVars, IInv, SessionType, CallInv, Intact, Ended,
         Executed, T!NoCall
    <2> QED
      BY <2>1, PlainKeeps, BeginKeeps, DataKeeps, LocalKeeps, FinishKeeps DEF SNext
  <1> QED
    BY <1>1, <1>2 DEF IInv

-----------------------------------------------------------------------------
(* Every step is one of SessionOps, or is not seen.                        *)

LEMMA FinishSeen ==
    ASSUME IInv, Finish, pending[session].data
    PROVE  S!DataPass(session)
  <1> DEFINE p == pending[session]
  <1>1. pc = "done" /\ UNCHANGED open /\ pending' = [pending EXCEPT ![session] = T!NoCall]
        /\ Conclude(p)
    BY DEF Finish
  <1>2. pending' = [pending EXCEPT ![session] = S!NoCall]
    BY <1>1 DEF T!NoCall, S!NoCall
  <1>3. active' = active
    BY <1>1 DEF IInv, SessionType, Conclude, Believe, T!Settle, T!GiveUp
  <1>4. Seen' = active
    BY <1>1, <1>3 DEF IInv, SessionType, Seen, T!NoCall
  <1>5. CASE result = "bytes"
    <2>1. Seen[session] \ p.ends = active[session]
      BY <1>1, <1>5 DEF IInv, SessionType, CallInv, Executed, Seen
    <2>2. Seen' = [Seen EXCEPT ![session] = Seen[session] \ p.ends]
      BY <1>4, <2>1 DEF IInv, SessionType, Seen
    <2>3. T!Settle(session, active[session], (believed[session] \cup p.uses) \ p.ends)
      BY <1>1, <1>5 DEF Conclude, Believe
    <2>4. S!Settle(session, Seen[session] \ p.ends, (believed[session] \cup p.uses) \ p.ends)
      BY <2>1, <2>2, <2>3 DEF T!Settle, S!Settle, Seen
    <2>5. S!DataOK(session)
      BY <1>1, <1>2, <2>4 DEF S!DataOK, Seen
    <2> QED
      BY <2>5 DEF S!DataPass
  <1>6. CASE result = "module_error"
    <2>1. Seen[session] \ p.uses = active[session]
      BY <1>1, <1>6 DEF IInv, SessionType, CallInv, Ended, Seen
    <2>2. Seen' = [Seen EXCEPT ![session] = Seen[session] \ p.uses]
      BY <1>4, <2>1 DEF IInv, SessionType, Seen
    <2>3. T!Settle(session, active[session], believed[session] \ p.uses)
      BY <1>1, <1>6 DEF Conclude, Believe
    <2>4. S!Settle(session, Seen[session] \ p.uses, believed[session] \ p.uses)
      BY <2>1, <2>2, <2>3 DEF T!Settle, S!Settle, Seen
    <2>5. S!DataError(session)
      BY <1>1, <1>2, <2>4 DEF S!DataError, Seen
    <2> QED
      BY <2>5 DEF S!DataPass
  <1>7. CASE result \notin {"bytes", "module_error"}
    <2>1. T!GiveUp(session, active[session])
      BY <1>1, <1>7 DEF Conclude
    <2>2. Intact \/ Executed
      <3>1. result \in {"too_large", "retries_exhausted"}
        BY <1>1, <1>7 DEF IInv, OutOpInv, TypeOK, BufferInv, Results
      <3> QED
        BY <1>1, <3>1 DEF IInv, CallInv
    <2>3. CASE Intact
      <3>1. Seen[session] = active[session]
        BY <2>3 DEF IInv, SessionType, Intact, Seen
      <3>2. Seen' = [Seen EXCEPT ![session] = Seen[session]]
        BY <1>4, <3>1 DEF IInv, SessionType, Seen
      <3>3. S!GiveUp(session, Seen[session])
        BY <2>1, <3>1, <3>2 DEF T!GiveUp, S!GiveUp, Seen
      <3>4. S!DataLimit(session)
        BY <1>1, <1>2, <3>3 DEF S!DataLimit, Seen
      <3> QED
        BY <3>4 DEF S!DataPass
    <2>4. CASE Executed
      <3>1. Seen[session] \ p.ends = active[session]
        BY <2>4 DEF IInv, SessionType, Executed, Seen
      <3>2. Seen' = [Seen EXCEPT ![session] = Seen[session] \ p.ends]
        BY <1>4, <3>1 DEF IInv, SessionType, Seen
      <3>3. S!GiveUp(session, Seen[session] \ p.ends)
        BY <2>1, <3>1, <3>2 DEF T!GiveUp, S!GiveUp, Seen
      <3>4. S!DataOverclaim(session)
        BY <1>1, <1>2, <3>3 DEF S!DataOverclaim, Seen
      <3> QED
        BY <3>4 DEF S!DataPass
    <2> QED
      BY <2>2, <2>3, <2>4
  <1> QED
    BY <1>5, <1>6, <1>7

LEMMA StepSeen == IInv /\ [SNext]_allVars => [S!Next]_(S!vars)
  <1> SUFFICES ASSUME IInv, [SNext]_allVars PROVE [S!Next]_(S!vars)
    OBVIOUS
  <1>a. SessionType' /\ CallInv'
    BY NextIInv DEF IInv
  <1>1. CASE Plain
    <2>1. pc = "sizing" /\ pc' = "sizing"
      BY <1>1 DEF Plain, vars
    <2>2. ~pending[session].data /\ ~pending'[session].data
      BY <2>1, <1>a DEF IInv, CallInv
    <2>3. Seen = active /\ Seen' = active'
      BY <2>2, <1>a, SeenAtRest DEF IInv, SessionType, CallInv, Seen, T!NoCall
    <2>4. \/ S!OneCall(session) \/ S!OpenSession(session)
          \/ S!CloseSession(session) \/ S!CloseAllSessions
      BY <1>1, <2>3, OneCallSeen, SessionSeen DEF Plain
    <2> QED
      BY <2>4 DEF S!Next
  <1>2. CASE Begin
    <2>1. Seen = active
      BY <1>2, SeenAtRest DEF IInv, CallInv, Begin, Sizing
    <2>2. T!TwoCalls(session, rv') /\ rv' \in S!Answers
      BY <1>2 DEF Begin, Sizing, Call, RVs, S!Answers
    <2>3. Seen' = active'
      <3>1. CASE pending'[session].data
        <4>1. pc' = "loop"
          <5>1. pc' \in {"loop", "done"} /\ (pc' = "loop" <=> rv' = "OK")
            BY <1>2 DEF Begin, Sizing, Return
          <5>2. rv' # "OK" => pending' = pending
            BY <1>2, TwoCallsShaped DEF Begin, Shaped, T!Output
          <5> QED
            BY <1>2, <3>1, <5>1, <5>2 DEF IInv, CallInv, Begin, Sizing
        <4>2. Intact'
          BY <3>1, <4>1, <1>a DEF CallInv
        <4> QED
          BY <4>2, <1>a DEF SessionType, Intact, Seen
      <3>2. CASE ~pending'[session].data
        BY <3>2, <1>a DEF SessionType, CallInv, Seen, T!NoCall
      <3> QED
        BY <3>1, <3>2
    <2>4. S!TwoCalls(session, rv')
      BY <2>1, <2>2, <2>3, TwoCallsSeen
    <2> QED
      BY <2>2, <2>4 DEF S!Next
  <1>3. CASE Data
    <2>1. Seen' = Seen
      BY <1>3 DEF IInv, SessionType, CallInv, Data, DataPass, Intact, Seen
    <2> QED
      BY <1>3, <2>1 DEF Data, S!vars, Seen
  <1>4. CASE Local \/ UNCHANGED allVars
    <2>1. UNCHANGED sessionVars
      BY <1>4 DEF Local, allVars
    <2> QED
      BY <2>1 DEF sessionVars, S!vars
  <1>5. CASE Finish
    <2>1. CASE pending[session].data
      BY <1>5, <2>1, FinishSeen DEF S!Next
    <2>2. CASE ~pending[session].data
      BY <1>5, <2>2 DEF Finish, S!vars
    <2> QED
      BY <2>1, <2>2
  <1> QED
    BY <1>1, <1>2, <1>3, <1>4, <1>5 DEF SNext

-----------------------------------------------------------------------------
LEMMA Invariant == SSpec => []IInv
  BY InitIInv, NextIInv, PTL DEF SSpec

(***************************************************************************)
(* outOp keeps its invariant in every method that uses it (marshal.go).    *)
(***************************************************************************)
THEOREM OutOpInvariantInMethods == SSpec => []OutOpInv
  <1>1. IInv => OutOpInv
    BY DEF IInv
  <1> QED
    BY <1>1, Invariant, PTL

(***************************************************************************)
(* Every native output buffer is bounded, scrubbed in full with its own    *)
(* size and freed, whatever length the module wrote back (marshal.go).     *)
(***************************************************************************)
THEOREM BuffersAreScrubbed == SSpec => []BufferScrubbed
  <1>1. OutOpInv => BufferScrubbed
    BY OutOpAssumption DEF TypeOK, OutOpInv, BufferInv, BufferScrubbed, RVs, Results
  <1> QED
    BY <1>1, OutOpInvariantInMethods, PTL

(***************************************************************************)
(* Success means that the data pass ran and succeeded, and that the copy   *)
(* stayed inside the buffer (marshal.go).                                  *)
(***************************************************************************)
THEOREM SuccessMeansExecution == SSpec => []SuccessIsExecuted
  <1>1. OutOpInv => SuccessIsExecuted
    BY OutOpAssumption DEF TypeOK, OutOpInv, EndedInv, SuccessIsExecuted, RVs, Results
  <1> QED
    BY <1>1, OutOpInvariantInMethods, PTL

(***************************************************************************)
(* The methods with outOp spelled out implement SessionOps: outOp has the  *)
(* outcomes SessionOps takes it to have, and no other.                     *)
(***************************************************************************)
THEOREM MethodsImplementOps == SSpec => OpsSpec
  <1>1. SInit => S!Init
    BY DEF SInit, T!Init, S!Init, T!NoCall, S!NoCall
  <1>2. IInv /\ [SNext]_allVars => [S!Next]_(S!vars)
    BY StepSeen
  <1> QED
    BY <1>1, <1>2, Invariant, PTL DEF SSpec, OpsSpec, S!Spec

\* The two instances are the same specification.
LEMMA SameOps == P!Spec <=> S!Spec
  BY PTL
       DEF P!Spec, S!Spec, P!Init, S!Init, P!Next, S!Next, P!vars, S!vars,
           P!NoCall, S!NoCall, P!Ready, S!Ready, P!Settle, S!Settle,
           P!OpenSession, S!OpenSession, P!CloseSession, S!CloseSession,
           P!CloseAllSessions, S!CloseAllSessions, P!Start, S!Start,
           P!Continue, S!Continue, P!Finish, S!Finish, P!Output, S!Output,
           P!GiveUp, S!GiveUp, P!DataOK, S!DataOK, P!DataError, S!DataError,
           P!DataLimit, S!DataLimit, P!DataOverclaim, S!DataOverclaim,
           P!DataPass, S!DataPass, P!OneCall, S!OneCall, P!TwoCalls, S!TwoCalls,
           P!Answers, S!Answers, P!SignInit, S!SignInit, P!Sign, S!Sign,
           P!SignUpdate, S!SignUpdate, P!SignFinal, S!SignFinal,
           P!VerifyInit, S!VerifyInit, P!Verify, S!Verify,
           P!VerifyUpdate, S!VerifyUpdate, P!VerifyFinal, S!VerifyFinal,
           P!EncryptInit, S!EncryptInit, P!Encrypt, S!Encrypt,
           P!EncryptUpdate, S!EncryptUpdate, P!EncryptFinal, S!EncryptFinal,
           P!DecryptInit, S!DecryptInit, P!Decrypt, S!Decrypt,
           P!DecryptUpdate, S!DecryptUpdate, P!DecryptFinal, S!DecryptFinal,
           P!DigestInit, S!DigestInit, P!Digest, S!Digest,
           P!DigestUpdate, S!DigestUpdate, P!DigestKey, S!DigestKey,
           P!DigestFinal, S!DigestFinal, P!DigestEncryptUpdate, S!DigestEncryptUpdate,
           P!DecryptDigestUpdate, S!DecryptDigestUpdate,
           P!SignEncryptUpdate, S!SignEncryptUpdate,
           P!DecryptVerifyUpdate, S!DecryptVerifyUpdate,
           P!FindObjectsInit, S!FindObjectsInit, P!FindObjects, S!FindObjects,
           P!FindObjectsFinal, S!FindObjectsFinal,
           P!VerifySignatureInit, S!VerifySignatureInit,
           P!VerifySignature, S!VerifySignature,
           P!VerifySignatureUpdate, S!VerifySignatureUpdate,
           P!VerifySignatureFinal, S!VerifySignatureFinal, P!WrapKey, S!WrapKey,
           P!WrapKeyAuthenticated, S!WrapKeyAuthenticated,
           P!GetOperationState, S!GetOperationState

(***************************************************************************)
(* The caller of any sequence of methods knows what is active in its       *)
(* session, but for what outOp abandoned at a limit of its own: by the     *)
(* theorem of SessionOps, of which the methods are an implementation.      *)
(***************************************************************************)
THEOREM ResultsAreTruthful == SSpec => []ResultsTellState
  <1>1. P!Spec => []P!IInv
    BY P!SessionInvariant
  <1>2. P!IInv => ResultsTellState
    BY DEF P!IInv, P!TypeOK, S!TypeOK, P!ResultsTellState, S!ResultsTellState,
           P!Kinds, S!Kinds, ResultsTellState
  <1> QED
    BY <1>1, <1>2, SameOps, MethodsImplementOps, PTL DEF OpsSpec
=============================================================================
