------------------------- MODULE KeyCreationProofs -------------------------
(***************************************************************************)
(* Proofs about KeyCreation and the Policy it extends, for any             *)
(* identifiers, policies, parameters, lengths and limit.                   *)
(***************************************************************************)
EXTENDS KeyCreation, TLAPS

Beyond == {"allowed", "sized", "data", "called", "done"}

Allowed(id) == \E p \in since : id \in p

\* While a check runs, what it has to ask about are identifiers of the
\* Mechanism, and the others have been allowed; it asks the policy in force.
CheckInv ==
    Checking =>
        /\ policy \in since
        /\ \A i \in 1..Len(todo) : todo[i] \in NamedIds
        /\ \A id \in NamedIds : (\E i \in 1..Len(todo) : todo[i] = id) \/ Allowed(id)

\* Where the method is tells which key exists.
KeyInv ==
    /\ pc \in {"sized", "data", "called"} => op = "EncapsulateKey"
    /\ pc \notin {"called", "done"} => keys = {} /\ key = NoKey /\ out = 0
    /\ pc # "done" => result = "none"
    /\ pc = "called" =>
           /\ out = 0
           /\ IF allocLen > 0 THEN keys = {TheKey} /\ key = TheKey
                              ELSE keys = {} /\ key = NoKey
    /\ pc \in {"start", "construct", "panicked", "made", "check", "rejected",
               "allowed", "sized"} => allocLen = 0

Inv == TypeOK /\ CheckInv /\ PolicyHolds /\ KeyInv /\ NoOrphanKey /\ SuccessIsWhole

USE PolicyAssumption, KeyCreationAssumption

-----------------------------------------------------------------------------
(* The policy.                                                             *)

LEMMA AskedSeq == ASSUME PolicyTypeOK PROVE Asked(mech) \in Seq(Ids)
  BY DEF PolicyTypeOK, Mechanisms, Asked

LEMMA NamedAreIds == ASSUME PolicyTypeOK PROVE NamedIds \subseteq Ids
  BY AskedSeq DEF NamedIds

\* A check that begins has everything left to ask.
LEMMA StartsWhole ==
    ASSUME PolicyTypeOK, NEW from, NEW to, StartCheck(from, to, Asked(mech))
    PROVE  PolicyTypeOK' /\ CheckInv'
  <1>1. PolicyTypeOK'
    BY AskedSeq DEF PolicyTypeOK, StartCheck
  <1>2. UNCHANGED mech /\ todo' = Asked(mech) /\ policy' \in since'
    BY DEF StartCheck
  <1>3. NamedIds' = NamedIds
    BY <1>2 DEF NamedIds, Asked
  <1>4. DOMAIN Asked(mech) = 1..Len(Asked(mech))
    BY AskedSeq
  <1>5. \A i \in 1..Len(todo') : todo'[i] \in NamedIds'
    BY <1>2, <1>3, <1>4 DEF NamedIds
  <1>6. \A id \in NamedIds' : \E i \in 1..Len(todo') : todo'[i] = id
    BY <1>2, <1>3, <1>4 DEF NamedIds
  <1> QED
    BY <1>1, <1>2, <1>5, <1>6 DEF CheckInv

\* Each answer moves one identifier from what is left to what is allowed.
LEMMA ChecksOne ==
    ASSUME PolicyTypeOK, CheckInv, checkMechanism
    PROVE  PolicyTypeOK' /\ CheckInv' /\ Judged(pc \in Beyond)'
  <1>1. Checking /\ todo # <<>> /\ UNCHANGED <<policy, mech, since>>
    BY DEF checkMechanism
  <1>2. todo \in Seq(Ids) /\ Len(todo) \in Nat \ {0} /\ Head(todo) = todo[1]
    BY <1>1 DEF PolicyTypeOK
  <1>3. NamedIds' = NamedIds
    BY <1>1 DEF NamedIds, Asked
  <1>4. CASE Head(todo) \in policy
    <2>1. todo' = Tail(todo) /\ pc' = pc
      BY <1>4 DEF checkMechanism
    <2>2. /\ Tail(todo) \in Seq(Ids)
          /\ Len(Tail(todo)) = Len(todo) - 1
          /\ \A i \in 1..Len(Tail(todo)) : Tail(todo)[i] = todo[i + 1]
      BY <1>2
    <2>3. \A i \in 1..Len(todo') : todo'[i] \in NamedIds
      BY <1>1, <1>2, <2>1, <2>2 DEF CheckInv
    <2>4. ASSUME NEW id \in NamedIds
          PROVE  (\E i \in 1..Len(todo') : todo'[i] = id) \/ Allowed(id)
      <3>1. CASE Allowed(id)
        BY <3>1
      <3>2. CASE \E i \in 1..Len(todo) : todo[i] = id
        <4>1. PICK i \in 1..Len(todo) : todo[i] = id
          BY <3>2
        <4>2. CASE i = 1
          BY <1>1, <1>2, <1>4, <4>1, <4>2 DEF CheckInv, Allowed
        <4>3. CASE i # 1
          <5>1. i - 1 \in 1..Len(Tail(todo)) /\ Tail(todo)[i - 1] = id
            BY <1>2, <2>2, <4>1, <4>3
          <5> QED
            BY <5>1, <2>1
        <4> QED
          BY <4>2, <4>3
      <3> QED
        BY <3>1, <3>2, <1>1 DEF CheckInv
    <2>5. PolicyTypeOK'
      BY <1>1, <2>1, <2>2 DEF PolicyTypeOK
    <2>6. CheckInv'
      BY <1>1, <1>3, <2>3, <2>4 DEF CheckInv, Allowed
    <2> QED
      BY <2>1, <2>5, <2>6, <1>1 DEF Judged, Checking, Beyond
  <1>5. CASE Head(todo) \notin policy
    <2>1. todo' = <<>> /\ pc' \in {"panicked", "rejected"}
      BY <1>5 DEF checkMechanism
    <2>2. todo[1] \in NamedIds /\ policy \in since
      BY <1>1, <1>2 DEF CheckInv
    <2>3. Judged(pc \in Beyond)'
      BY <1>1, <1>2, <1>3, <1>5, <2>1, <2>2 DEF Judged, Beyond
    <2>4. PolicyTypeOK'
      BY <1>1, <2>1 DEF PolicyTypeOK
    <2> QED
      BY <2>1, <2>3, <2>4 DEF CheckInv, Checking
  <1> QED
    BY <1>4, <1>5

\* Whatever happens to the policy in between.
LEMMA PolicyKept ==
    ASSUME PolicyTypeOK, CheckInv, Judged(pc \in Beyond),
           PolicyNext \/ SetMechanismPolicy
    PROVE  PolicyTypeOK' /\ CheckInv' /\ Judged(pc \in Beyond)'
  <1> USE DEF Beyond
  <1>1. CASE SetMechanismPolicy
    <2>1. UNCHANGED <<pc, mech, todo>> /\ policy' \in Policies
      BY <1>1 DEF SetMechanismPolicy
    <2>2. since' = IF Checking THEN since \cup {policy'} ELSE since
      BY <1>1 DEF SetMechanismPolicy
    <2>3. NamedIds' = NamedIds
      BY <2>1 DEF NamedIds, Asked
    <2>4. PolicyTypeOK'
      BY <2>1, <2>2 DEF PolicyTypeOK
    <2>5. CheckInv'
      BY <2>1, <2>2, <2>3 DEF CheckInv, Checking, Allowed
    <2>6. Judged(pc \in Beyond)'
      BY <2>1, <2>2, <2>3 DEF Judged
    <2> QED
      BY <2>4, <2>5, <2>6
  <1>2. CASE NewMechanism \/ cMechanism
    <2>1. pc' \in {"construct", "check"}
      BY <1>2 DEF NewMechanism, cMechanism, StartCheck
    <2> QED
      BY <1>2, <2>1, StartsWhole DEF NewMechanism, cMechanism, Judged
  <1>3. CASE Literal
    BY <1>3 DEF Literal, PolicyTypeOK, CheckInv, Checking, Judged
  <1>4. CASE Retarget
    <2>1. PICK id \in Ids : mech' = [mech EXCEPT !.type = id]
      BY <1>4 DEF Retarget
    <2>2. mech' \in Mechanisms
      BY <2>1 DEF PolicyTypeOK, Mechanisms
    <2> QED
      BY <1>4, <2>2 DEF Retarget, PolicyTypeOK, CheckInv, Checking, Judged
  <1>5. CASE checkMechanism
    BY <1>5, ChecksOne
  <1>6. CASE CheckPassed
    <2>1. /\ Checking /\ todo = <<>> /\ pc' \in {"made", "allowed"}
          /\ UNCHANGED <<policy, mech, todo, since>>
      BY <1>6 DEF CheckPassed
    <2>2. NamedIds' = NamedIds
      BY <2>1 DEF NamedIds, Asked
    <2>3. \A id \in NamedIds : Allowed(id)
      BY <2>1 DEF CheckInv
    <2> QED
      BY <2>1, <2>2, <2>3 DEF PolicyTypeOK, CheckInv, Checking, Judged, Allowed
  <1> QED
    BY <1>1, <1>2, <1>3, <1>4, <1>5, <1>6 DEF PolicyNext

\* The methods leave the policy and the Mechanism alone.
LEMMA MethodsKeepPolicy ==
    ASSUME PolicyTypeOK, Judged(pc \in Beyond), pc \in Beyond, pc' \in Beyond,
           UNCHANGED <<policy, mech, todo, since>>
    PROVE  PolicyTypeOK' /\ CheckInv' /\ Judged(pc \in Beyond)'
  <1>1. NamedIds' = NamedIds
    BY DEF NamedIds, Asked
  <1> QED
    BY <1>1 DEF PolicyTypeOK, CheckInv, Checking, Judged, Beyond

-----------------------------------------------------------------------------
(* The methods.                                                            *)

LEMMA InitInv == Init => Inv
  <1> SUFFICES ASSUME Init PROVE Inv
    OBVIOUS
  <1>1. TypeOK
    <2>1. PolicyTypeOK
      BY DEF Init, PolicyInit, PolicyTypeOK
    <2>2. 0 \in 0..MaxOutBuf
      BY KeyCreationAssumption
    <2> QED
      BY <2>1, <2>2 DEF Init, PolicyInit, TypeOK, Handles
  <1>2. CheckInv /\ PolicyHolds
    BY DEF Init, PolicyInit, CheckInv, Checking, PolicyHolds, Judged
  <1>3. KeyInv /\ NoOrphanKey /\ SuccessIsWhole
    BY DEF Init, PolicyInit, KeyInv, NoOrphanKey, SuccessIsWhole
  <1> QED
    BY <1>1, <1>2, <1>3 DEF Inv

\* The part of the invariant that is about keys and buffers.
Made ==
    /\ op \in Ops
    /\ keys \subseteq {TheKey}
    /\ key \in Handles
    /\ ctLen \in Lengths \cup {0}
    /\ allocLen \in 0..MaxOutBuf
    /\ out \in 0..MaxOutBuf
    /\ result \in {"none", "failed", "success"}
    /\ stuck \in BOOLEAN
    /\ KeyInv /\ NoOrphanKey /\ SuccessIsWhole

LEMMA MethodKeeps ==
    ASSUME Made, Method
    PROVE  /\ Made'
           /\ pc \in Beyond /\ pc' \in Beyond
           /\ UNCHANGED <<policy, mech, todo, since>>
  <1> USE DEF Made, KeyInv, NoOrphanKey, SuccessIsWhole, Handles, TheKey,
              Goto, Finish, Beyond
  <1>1. ASSUME NEW m \in Ops \ {"EncapsulateKey"}, OneCall(m)
        PROVE  /\ Made'
               /\ pc \in Beyond /\ pc' \in Beyond
               /\ UNCHANGED <<policy, mech, todo, since>>
    BY <1>1 DEF OneCall, CallFails, Create
  <1>2. CASE SizingFails \/ DataFails
    BY <1>2 DEF SizingFails, DataFails, CallFails
  <1>3. CASE Sizing
    BY <1>3 DEF Sizing, ReportLength
  <1>4. CASE TooLong
    BY <1>4 DEF TooLong
  <1>5. CASE Allocate
    BY <1>5 DEF Allocate
  <1>6. CASE DataPass
    BY <1>6 DEF DataPass, ReportLength, Create
  <1>7. CASE Overclaim
    BY <1>7 DEF Overclaim
  <1>8. CASE Deliver
    BY <1>8 DEF Deliver
  <1> QED
    BY <1>1, <1>2, <1>3, <1>4, <1>5, <1>6, <1>7, <1>8
       DEF Method, Ops, GenerateKey, GenerateKeyPair, UnwrapKey, DeriveKey,
           DecapsulateKey, UnwrapKeyAuthenticated

\* A step of the policy does not come from or lead into a method.
LEMMA PolicyKeepsMade ==
    ASSUME Made, PolicyNext \/ SetMechanismPolicy, UNCHANGED callVars
    PROVE  Made'
  <1>1. \/ pc' = pc
        \/ /\ pc \in {"start", "construct", "made", "check"}
           /\ pc' \in {"construct", "panicked", "made", "check", "rejected", "allowed"}
    BY DEF PolicyNext, SetMechanismPolicy, NewMechanism, Literal, Retarget, cMechanism,
           StartCheck, checkMechanism, CheckPassed, Checking
  <1> QED
    BY <1>1 DEF Made, KeyInv, NoOrphanKey, SuccessIsWhole, callVars

PcOK == pc \in {"start", "construct", "panicked", "made", "check", "rejected"} \cup Beyond

LEMMA PcKept == ASSUME PcOK, PolicyNext \/ SetMechanismPolicy PROVE PcOK'
  BY DEF PcOK, Beyond, PolicyNext, SetMechanismPolicy, NewMechanism, Literal, Retarget,
         cMechanism, StartCheck, checkMechanism, CheckPassed

LEMMA InvParts == Inv <=> /\ PcOK /\ PolicyTypeOK
                          /\ CheckInv /\ Judged(pc \in Beyond)
                          /\ Made
  BY DEF Inv, PcOK, Beyond, TypeOK, PolicyHolds, Made

LEMMA InvPartsPrime == Inv' <=> /\ PcOK' /\ PolicyTypeOK'
                                /\ CheckInv' /\ Judged(pc \in Beyond)'
                                /\ Made'
  BY InvParts, PTL

LEMMA NextInv == Inv /\ [Next]_vars => Inv'
  <1> SUFFICES ASSUME Inv, [Next]_vars PROVE Inv'
    OBVIOUS
  <1>a. PcOK /\ PolicyTypeOK /\ CheckInv /\ Judged(pc \in Beyond) /\ Made
    BY InvParts
  <1>1. CASE UNCHANGED vars
    <2>1. UNCHANGED <<policy, pc, mech, todo, since>> /\ UNCHANGED callVars
      BY <1>1 DEF vars, policyVars
    <2>2. NamedIds' = NamedIds
      BY <2>1 DEF NamedIds, Asked
    <2>3. PolicyTypeOK' /\ CheckInv' /\ Judged(pc \in Beyond)' /\ PcOK'
      <3>1. PolicyTypeOK' /\ PcOK'
        BY <2>1, <1>a DEF PolicyTypeOK, PcOK
      <3>2. CheckInv'
        BY <2>2, <2>1, <1>a DEF CheckInv, Checking, Allowed
      <3>3. Judged(pc \in Beyond)'
        BY <2>2, <2>1, <1>a DEF Judged
      <3> QED
        BY <3>1, <3>2, <3>3
    <2>4. Made'
      BY <2>1, <1>a DEF Made, KeyInv, NoOrphanKey, SuccessIsWhole, callVars
    <2> QED
      BY <2>3, <2>4, InvPartsPrime
  <1>2. CASE (PolicyNext \/ SetMechanismPolicy) /\ UNCHANGED callVars
    BY <1>2, <1>a, PolicyKept, PolicyKeepsMade, PcKept, InvPartsPrime
  <1>3. CASE Method
    <2>1. /\ Made'
          /\ pc \in Beyond /\ pc' \in Beyond
          /\ UNCHANGED <<policy, mech, todo, since>>
      BY <1>3, <1>a, MethodKeeps
    <2>2. PolicyTypeOK' /\ CheckInv' /\ Judged(pc \in Beyond)'
      BY <2>1, <1>a, MethodsKeepPolicy
    <2>3. PcOK'
      BY <2>1 DEF PcOK
    <2> QED
      BY <2>1, <2>2, <2>3, InvPartsPrime
  <1> QED
    BY <1>1, <1>2, <1>3 DEF Next

\* The invariant of KeyCreation.
THEOREM KeyCreationInvariant == Spec => []Inv
  <1> QED
    BY InitInv, NextInv, PTL DEF Spec

\* No Mechanism reaches the module without each of its identifiers having
\* been allowed while the operation was checking it (policy.go, marshal.go).
THEOREM PolicyIsEnforced == Spec => []PolicyHolds
  <1>1. Inv => PolicyHolds
    BY DEF Inv
  <1> QED
    BY <1>1, KeyCreationInvariant, PTL

\* Failing methods leave no key behind (v32.go EncapsulateKey).
THEOREM FailuresLeaveNoKey == Spec => []NoOrphanKey
  <1>1. Inv => NoOrphanKey
    BY DEF Inv
  <1> QED
    BY <1>1, KeyCreationInvariant, PTL

\* Successful methods return a key, and its whole ciphertext (v32.go).
THEOREM SuccessesAreWhole == Spec => []SuccessIsWhole
  <1>1. Inv => SuccessIsWhole
    BY DEF Inv
  <1> QED
    BY <1>1, KeyCreationInvariant, PTL
=============================================================================
