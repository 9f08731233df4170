-------------------------- MODULE SessionOpsProofs --------------------------
(***************************************************************************)
(* Proofs about SessionOps, for any set of sessions.  The invariant is     *)
(* proved for each shape of method; the methods of Ctx are instances.      *)
(***************************************************************************)
EXTENDS SessionOps, TLAPS

\* Between the two calls of an output method its operations stay active.
PendingInv ==
    \A h \in Handles :
        IF pending[h].data
        THEN /\ h \in open
             /\ pending[h].uses \subseteq active[h]
             /\ pending[h].ends \subseteq pending[h].uses
        ELSE pending[h] = NoCall

IInv == TypeOK /\ ResultsTellState /\ PendingInv

-----------------------------------------------------------------------------
\* Results that take nothing for active that is not, and forget only what was
\* abandoned before, keep the caller informed.
LEMMA SettleKeeps ==
    ASSUME IInv, NEW h \in Handles, NEW act \in SUBSET Kinds, NEW bel \in SUBSET Kinds,
           Settle(h, act, bel), bel \subseteq act, act \ bel \subseteq abandoned[h],
           open' \subseteq Handles, open \ {h} \subseteq open',
           pending' = [pending EXCEPT ![h] = NoCall]
    PROVE  IInv'
  <1>1. ResultsTellState'
    BY DEF IInv, TypeOK, ResultsTellState, Settle
  <1>2. TypeOK'
    BY DEF IInv, TypeOK, Settle, NoCall
  <1>3. PendingInv'
    BY DEF IInv, TypeOK, PendingInv, Settle, NoCall
  <1> QED
    BY <1>1, <1>2, <1>3 DEF IInv

\* So does giving up, for what it was about stays active or ends.
LEMMA GiveUpKeeps ==
    ASSUME IInv, NEW h \in Handles, NEW act \in SUBSET Kinds, GiveUp(h, act),
           act \subseteq active[h], active[h] \ act \subseteq pending[h].uses,
           pending[h].uses \subseteq active[h],
           UNCHANGED open, pending' = [pending EXCEPT ![h] = NoCall]
    PROVE  IInv'
  <1>1. ResultsTellState'
    BY DEF IInv, TypeOK, ResultsTellState, GiveUp
  <1>2. TypeOK'
    BY DEF IInv, TypeOK, GiveUp, NoCall
  <1>3. PendingInv'
    BY DEF IInv, TypeOK, PendingInv, GiveUp, NoCall
  <1> QED
    BY <1>1, <1>2, <1>3 DEF IInv

\* What is known of every session.
LEMMA Told ==
    ASSUME IInv, NEW h \in Handles
    PROVE  /\ active[h] \in SUBSET Kinds /\ believed[h] \subseteq active[h]
           /\ active[h] \ believed[h] \subseteq abandoned[h]
           /\ abandoned[h] \subseteq active[h]
  BY DEF IInv, TypeOK, ResultsTellState

\* Between two methods no call is pending.
LEMMA NothingPending ==
    ASSUME IInv, NEW h \in Handles, Ready(h), UNCHANGED <<open, pending>>
    PROVE  /\ pending' = [pending EXCEPT ![h] = NoCall]
           /\ open' \subseteq Handles /\ open \ {h} \subseteq open'
  BY DEF IInv, TypeOK, PendingInv, Ready

-----------------------------------------------------------------------------
LEMMA StartKeeps ==
    ASSUME IInv, NEW h \in Handles, NEW k \in Kinds, Start(h, k)
    PROVE  IInv'
  <1>1. /\ pending' = [pending EXCEPT ![h] = NoCall]
        /\ open' \subseteq Handles /\ open \ {h} \subseteq open'
    BY NothingPending DEF Start
  <1>2. CASE UNCHANGED <<active, believed, abandoned>>
    BY <1>2 DEF Start, IInv, TypeOK, ResultsTellState, PendingInv
  <1>3. CASE Settle(h, active[h] \cup {k}, believed[h] \cup {k})
    <2> DEFINE act == active[h] \cup {k}
               bel == believed[h] \cup {k}
    <2>1. /\ act \in SUBSET Kinds /\ bel \in SUBSET Kinds
          /\ bel \subseteq act /\ act \ bel \subseteq abandoned[h]
      BY Told
    <2>2. Settle(h, act, bel)
      BY <1>3
    <2> HIDE DEF act, bel
    <2> QED
      BY <2>1, <2>2, <1>1, SettleKeeps
  <1> QED
    BY <1>2, <1>3 DEF Start

LEMMA ContinueKeeps ==
    ASSUME IInv, NEW h \in Handles, NEW k \in Kinds, Continue(h, k)
    PROVE  IInv'
  <1>1. /\ pending' = [pending EXCEPT ![h] = NoCall]
        /\ open' \subseteq Handles /\ open \ {h} \subseteq open'
    BY NothingPending DEF Continue
  <1>2. CASE k \in active[h] /\ Settle(h, active[h], believed[h] \cup {k})
    <2> DEFINE act == active[h]
               bel == believed[h] \cup {k}
    <2>1. /\ act \in SUBSET Kinds /\ bel \in SUBSET Kinds
          /\ bel \subseteq act /\ act \ bel \subseteq abandoned[h]
      BY <1>2, Told
    <2>2. Settle(h, act, bel)
      BY <1>2
    <2> HIDE DEF act, bel
    <2> QED
      BY <2>1, <2>2, <1>1, SettleKeeps
  <1>3. CASE Settle(h, active[h] \ {k}, believed[h] \ {k})
    <2> DEFINE act == active[h] \ {k}
               bel == believed[h] \ {k}
    <2>1. /\ act \in SUBSET Kinds /\ bel \in SUBSET Kinds
          /\ bel \subseteq act /\ act \ bel \subseteq abandoned[h]
      BY Told
    <2>2. Settle(h, act, bel)
      BY <1>3
    <2> HIDE DEF act, bel
    <2> QED
      BY <2>1, <2>2, <1>1, SettleKeeps
  <1> QED
    BY <1>2, <1>3 DEF Continue

LEMMA FinishKeeps ==
    ASSUME IInv, NEW h \in Handles, NEW k \in Kinds, Finish(h, k)
    PROVE  IInv'
  <1>1. /\ pending' = [pending EXCEPT ![h] = NoCall]
        /\ open' \subseteq Handles /\ open \ {h} \subseteq open'
    BY NothingPending DEF Finish
  <1> DEFINE act == active[h] \ {k}
             bel == believed[h] \ {k}
  <1>2. /\ act \in SUBSET Kinds /\ bel \in SUBSET Kinds
        /\ bel \subseteq act /\ act \ bel \subseteq abandoned[h]
    BY Told
  <1>3. Settle(h, act, bel)
    BY DEF Finish
  <1> HIDE DEF act, bel
  <1> QED
    BY <1>1, <1>2, <1>3, SettleKeeps

LEMMA OutputKeeps ==
    ASSUME IInv, NEW h \in Handles, NEW uses \in SUBSET Kinds, NEW ends \in SUBSET uses,
           NEW a, Output(h, uses, ends, a)
    PROVE  IInv'
  <1>1. UNCHANGED pending => /\ pending' = [pending EXCEPT ![h] = NoCall]
                             /\ open' \subseteq Handles /\ open \ {h} \subseteq open'
    BY NothingPending DEF Output
  <1>2. CASE Settle(h, active[h], believed[h] \ (uses \ active[h])) /\ UNCHANGED pending
    <2> DEFINE act == active[h]
               bel == believed[h] \ (uses \ active[h])
    <2>1. /\ act \in SUBSET Kinds /\ bel \in SUBSET Kinds
          /\ bel \subseteq act /\ act \ bel \subseteq abandoned[h]
      BY Told
    <2>2. Settle(h, act, bel)
      BY <1>2
    <2> HIDE DEF act, bel
    <2> QED
      BY <2>1, <2>2, <1>1, <1>2, SettleKeeps
  <1>3. CASE Settle(h, active[h] \ uses, believed[h] \ uses) /\ UNCHANGED pending
    <2> DEFINE act == active[h] \ uses
               bel == believed[h] \ uses
    <2>1. /\ act \in SUBSET Kinds /\ bel \in SUBSET Kinds
          /\ bel \subseteq act /\ act \ bel \subseteq abandoned[h]
      BY Told
    <2>2. Settle(h, act, bel)
      BY <1>3
    <2> HIDE DEF act, bel
    <2> QED
      BY <2>1, <2>2, <1>1, <1>3, SettleKeeps
  <1>4. CASE /\ uses \subseteq active[h]
             /\ Settle(h, active[h], believed[h] \cup uses) /\ UNCHANGED pending
    <2> DEFINE act == active[h]
               bel == believed[h] \cup uses
    <2>1. /\ act \in SUBSET Kinds /\ bel \in SUBSET Kinds
          /\ bel \subseteq act /\ act \ bel \subseteq abandoned[h]
      BY <1>4, Told
    <2>2. Settle(h, act, bel)
      BY <1>4
    <2> HIDE DEF act, bel
    <2> QED
      BY <2>1, <2>2, <1>1, <1>4, SettleKeeps
  <1>5. CASE /\ uses \subseteq active[h]
             /\ pending' = [pending EXCEPT ![h] = [uses |-> uses, ends |-> ends, data |-> TRUE]]
             /\ UNCHANGED <<active, believed, abandoned>>
    <2>1. TypeOK' /\ ResultsTellState'
      BY <1>5 DEF Output, IInv, TypeOK, ResultsTellState
    <2>2. PendingInv'
      BY <1>5 DEF Output, IInv, TypeOK, PendingInv, Ready
    <2> QED
      BY <2>1, <2>2 DEF IInv
  <1> QED
    BY <1>2, <1>3, <1>4, <1>5 DEF Output

LEMMA DataPassKeeps ==
    ASSUME IInv, NEW h \in Handles, DataPass(h)
    PROVE  IInv'
  <1> DEFINE p == pending[h]
  <1>a. UNCHANGED open /\ pending' = [pending EXCEPT ![h] = NoCall] /\ p.data
    BY DEF DataPass, DataOK, DataError, DataLimit, DataOverclaim
  <1>1. open' \subseteq Handles /\ open \ {h} \subseteq open'
        /\ pending' = [pending EXCEPT ![h] = NoCall]
    BY <1>a DEF IInv, TypeOK
  <1>b. p.uses \subseteq active[h] /\ p.ends \subseteq p.uses
    BY <1>a DEF IInv, PendingInv
  <1>2. CASE DataOK(h)
    <2> DEFINE act == active[h] \ p.ends
               bel == (believed[h] \cup p.uses) \ p.ends
    <2>1. /\ act \in SUBSET Kinds /\ bel \in SUBSET Kinds
          /\ bel \subseteq act /\ act \ bel \subseteq abandoned[h]
      BY <1>b, Told
    <2>2. Settle(h, act, bel)
      BY <1>2 DEF DataOK
    <2> HIDE DEF act, bel
    <2> QED
      BY <2>1, <2>2, <1>1, SettleKeeps
  <1>3. CASE DataError(h)
    <2> DEFINE act == active[h] \ p.uses
               bel == believed[h] \ p.uses
    <2>1. /\ act \in SUBSET Kinds /\ bel \in SUBSET Kinds
          /\ bel \subseteq act /\ act \ bel \subseteq abandoned[h]
      BY <1>b, Told
    <2>2. Settle(h, act, bel)
      BY <1>3 DEF DataError
    <2> HIDE DEF act, bel
    <2> QED
      BY <2>1, <2>2, <1>1, SettleKeeps
  <1>4. CASE DataLimit(h)
    BY <1>4, <1>a, <1>b, Told, GiveUpKeeps DEF DataLimit
  <1>5. CASE DataOverclaim(h)
    <2> DEFINE act == active[h] \ p.ends
    <2>1. act \in SUBSET Kinds /\ act \subseteq active[h] /\ active[h] \ act \subseteq p.uses
      BY <1>b, Told
    <2>2. GiveUp(h, act)
      BY <1>5 DEF DataOverclaim
    <2> HIDE DEF act
    <2> QED
      BY <2>1, <2>2, <1>a, <1>b, GiveUpKeeps
  <1> QED
    BY <1>2, <1>3, <1>4, <1>5 DEF DataPass

-----------------------------------------------------------------------------
LEMMA SessionKeeps ==
    ASSUME IInv, CloseAllSessions \/ \E h \in Handles : OpenSession(h) \/ CloseSession(h)
    PROVE  IInv'
  <1>1. CASE CloseAllSessions
    <2>1. TypeOK' /\ ResultsTellState'
      BY <1>1 DEF CloseAllSessions, IInv, TypeOK, ResultsTellState
    <2>2. PendingInv'
      BY <1>1 DEF CloseAllSessions, IInv, PendingInv, Ready
    <2> QED
      BY <2>1, <2>2 DEF IInv
  <1>2. ASSUME NEW h \in Handles, OpenSession(h) PROVE IInv'
    BY <1>2 DEF OpenSession, IInv, TypeOK, ResultsTellState, PendingInv
  <1>3. ASSUME NEW h \in Handles, CloseSession(h) PROVE IInv'
    <2>1. pending' = [pending EXCEPT ![h] = NoCall]
      BY <1>3 DEF CloseSession, IInv, TypeOK, PendingInv, Ready
    <2>2. open' \subseteq Handles /\ open \ {h} \subseteq open'
      BY <1>3 DEF CloseSession, IInv, TypeOK
    <2>3. Settle(h, {}, {})
      BY <1>3 DEF CloseSession
    <2> QED
      BY <2>1, <2>2, <2>3, SettleKeeps
  <1> QED
    BY <1>1, <1>2, <1>3

\* The methods of Ctx by their shapes.
LEMMA OneCallKeeps ==
    ASSUME IInv, NEW h \in Handles, OneCall(h)
    PROVE  IInv'
  <1>1. ASSUME NEW k \in Kinds, Start(h, k) \/ Continue(h, k) \/ Finish(h, k)
        PROVE  IInv'
    BY <1>1, StartKeeps, ContinueKeeps, FinishKeeps
  <1>2. {"sign", "verify", "encrypt", "decrypt", "digest", "find", "vsig"} \subseteq Kinds
    BY DEF Kinds
  <1>3. CASE FindObjects(h)
    BY <1>3 DEF FindObjects, vars, IInv, TypeOK, ResultsTellState, PendingInv
  <1> QED
    BY <1>1, <1>2, <1>3
       DEF OneCall, SignInit, SignUpdate, VerifyInit, Verify, VerifyUpdate, VerifyFinal,
           EncryptInit, DecryptInit, DigestInit, DigestUpdate, DigestKey,
           FindObjectsInit, FindObjectsFinal, VerifySignatureInit, VerifySignature,
           VerifySignatureUpdate, VerifySignatureFinal

LEMMA TwoCallsKeep ==
    ASSUME IInv, NEW h \in Handles, NEW a, TwoCalls(h, a)
    PROVE  IInv'
  <1>1. ASSUME NEW uses \in SUBSET Kinds, NEW ends \in SUBSET uses, Output(h, uses, ends, a)
        PROVE  IInv'
    BY <1>1, OutputKeeps
  <1>2. CASE \/ Sign(h, a) \/ SignFinal(h, a)
             \/ Encrypt(h, a) \/ EncryptUpdate(h, a) \/ EncryptFinal(h, a)
             \/ Decrypt(h, a) \/ DecryptUpdate(h, a) \/ DecryptFinal(h, a)
             \/ Digest(h, a) \/ DigestFinal(h, a)
    <2>1. \A k \in Kinds : {k} \in SUBSET Kinds /\ {k} \in SUBSET {k} /\ {} \in SUBSET {k}
      OBVIOUS
    <2>2. "sign" \in Kinds /\ "encrypt" \in Kinds /\ "decrypt" \in Kinds /\ "digest" \in Kinds
      BY DEF Kinds
    <2> QED
      BY <1>1, <1>2, <2>1, <2>2
         DEF Sign, SignFinal, Encrypt, EncryptUpdate, EncryptFinal, Decrypt,
             DecryptUpdate, DecryptFinal, Digest, DigestFinal
  <1>3. CASE \/ DigestEncryptUpdate(h, a) \/ DecryptDigestUpdate(h, a)
             \/ SignEncryptUpdate(h, a) \/ DecryptVerifyUpdate(h, a)
             \/ WrapKey(h, a) \/ WrapKeyAuthenticated(h, a) \/ GetOperationState(h, a)
    <2>1. \A uses \in SUBSET Kinds : Output(h, uses, {}, a) => IInv'
      BY <1>1
    <2>2. /\ {} \in SUBSET Kinds
          /\ {"digest", "encrypt"} \in SUBSET Kinds /\ {"decrypt", "digest"} \in SUBSET Kinds
          /\ {"sign", "encrypt"} \in SUBSET Kinds /\ {"decrypt", "verify"} \in SUBSET Kinds
      BY DEF Kinds
    <2> QED
      BY <1>3, <2>1, <2>2
         DEF DigestEncryptUpdate, DecryptDigestUpdate, SignEncryptUpdate,
             DecryptVerifyUpdate, WrapKey, WrapKeyAuthenticated, GetOperationState
  <1> QED
    BY <1>2, <1>3 DEF TwoCalls

\* The invariant: results tell the state, and pending calls find what they need.
THEOREM SessionInvariant == Spec => []IInv
  <1>1. Init => IInv
    BY DEF Init, IInv, TypeOK, ResultsTellState, PendingInv, NoCall
  <1>2. IInv /\ [Next]_vars => IInv'
    <2> SUFFICES ASSUME IInv, [Next]_vars PROVE IInv'
      OBVIOUS
    <2>1. CASE UNCHANGED vars
      BY <2>1 DEF vars, IInv, TypeOK, ResultsTellState, PendingInv
    <2>2. CASE Next
      BY <2>2, SessionKeeps, OneCallKeeps, TwoCallsKeep, DataPassKeeps DEF Next
    <2> QED
      BY <2>1, <2>2
  <1> QED
    BY <1>1, <1>2, PTL DEF Spec

\* Whatever sequence of methods is called, and whatever each call answers: the
\* operations active in the token are those the caller has been told of and
\* those that outOp gave up on at one of its limits (marshal.go outOp).
THEOREM ResultsAreTruthful == Spec => []ResultsTellState
  <1>1. IInv => ResultsTellState
    BY DEF IInv
  <1> QED
    BY <1>1, SessionInvariant, PTL
=============================================================================
