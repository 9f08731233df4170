-------------------------- MODULE GCMParamsProofs --------------------------
(***************************************************************************)
(* Proofs about GCMParams, for any finite set of goroutines.               *)
(***************************************************************************)
EXTENDS GCMParams, FiniteSetTheorems, TLAPS

IInv == TypeOK /\ GCMInv

USE DEF BuildPcs

LEMMA BuildSetFinite == IsFiniteSet({t \in Threads : pc[t] \in BuildPcs})
  <1>1. {t \in Threads : pc[t] \in BuildPcs} \subseteq Threads
    OBVIOUS
  <1> QED
    BY <1>1, ThreadsFinite, FS_Subset

\* Nobody starts or finishes a build.
LEMMA InUseSame ==
    ASSUME InUseInv, UNCHANGED inUse,
           \A t \in Threads : pc'[t] \in BuildPcs <=> pc[t] \in BuildPcs
    PROVE  InUseInv'
  <1>1. {t \in Threads : pc'[t] \in BuildPcs} = {t \in Threads : pc[t] \in BuildPcs}
    OBVIOUS
  <1> QED
    BY <1>1 DEF InUseInv

\* p.inUse++ in build.
LEMMA InUseUp ==
    ASSUME NEW t \in Threads, InUseInv, inUse' = inUse + 1,
           pc[t] \notin BuildPcs, pc'[t] \in BuildPcs,
           \A u \in Threads \ {t} : pc'[u] = pc[u]
    PROVE  InUseInv'
  <1> DEFINE B == {u \in Threads : pc[u] \in BuildPcs}
  <1>1. {u \in Threads : pc'[u] \in BuildPcs} = B \cup {t}
    OBVIOUS
  <1>2. IsFiniteSet(B) /\ t \notin B
    BY BuildSetFinite
  <1>3. Cardinality(B \cup {t}) = Cardinality(B) + 1
    BY <1>2, FS_AddElement
  <1> QED
    BY <1>1, <1>3 DEF InUseInv

\* p.inUse-- in the cleanup; when it reaches zero no build is left.
LEMMA InUseDown ==
    ASSUME NEW t \in Threads, InUseInv, inUse' = inUse - 1,
           pc[t] \in BuildPcs, pc'[t] \notin BuildPcs,
           \A u \in Threads \ {t} : pc'[u] = pc[u]
    PROVE  /\ InUseInv' /\ inUse' \in Nat
           /\ inUse' = 0 => \A u \in Threads : pc'[u] \notin BuildPcs
  <1> DEFINE B == {u \in Threads : pc[u] \in BuildPcs}
  <1>1. {u \in Threads : pc'[u] \in BuildPcs} = B \ {t}
    OBVIOUS
  <1>2. IsFiniteSet(B) /\ t \in B
    BY BuildSetFinite
  <1>3. /\ IsFiniteSet(B \ {t})
        /\ Cardinality(B \ {t}) = Cardinality(B) - 1
    BY <1>2, FS_RemoveElement
  <1>4. Cardinality(B \ {t}) \in Nat /\ (Cardinality(B \ {t}) = 0 <=> B \ {t} = {})
    BY <1>3, FS_CardinalityType, FS_EmptySet
  <1> QED
    BY <1>1, <1>3, <1>4 DEF InUseInv

\* The counter is zero exactly when no build is outstanding.
LEMMA InUseZero ==
    ASSUME InUseInv
    PROVE  inUse = 0 <=> \A t \in Threads : pc[t] \notin BuildPcs
  <1>1. Cardinality({t \in Threads : pc[t] \in BuildPcs}) = 0
           <=> {t \in Threads : pc[t] \in BuildPcs} = {}
    BY BuildSetFinite, FS_EmptySet
  <1> QED
    BY <1>1 DEF InUseInv

\* What freeLocked does to a block that exists.
LEMMA FreeLockedEffect ==
    ASSUME gp, freeLocked
    PROVE  frees' = frees + 1 /\ gp' = FALSE /\ freePending' = FALSE
  BY DEF freeLocked

LEMMA InitIInv == Init => IInv
  <1> SUFFICES ASSUME Init PROVE IInv
    OBVIOUS
  <1>1. TypeOK /\ BlockInv
    BY DEF Init, TypeOK, BlockInv
  <1>2. InUseInv
    <2>1. {t \in Threads : pc[t] \in BuildPcs} = {}
      BY DEF Init
    <2> QED
      BY <2>1, FS_EmptySet DEF Init, InUseInv
  <1> QED
    BY <1>1, <1>2 DEF IInv, GCMInv

LEMMA NextIInv == IInv /\ [Next]_vars => IInv'
  <1> USE DEF Goto
  <1> SUFFICES ASSUME IInv, [Next]_vars PROVE TypeOK' /\ InUseInv' /\ BlockInv'
    BY DEF IInv, GCMInv
  <1>a. TypeOK /\ InUseInv /\ BlockInv
    BY DEF IInv, GCMInv
  <1>1. CASE UNCHANGED vars
    <2>1. TypeOK' /\ BlockInv'
      BY <1>1, <1>a DEF vars, TypeOK, BlockInv
    <2> QED
      BY <2>1, <1>1, <1>a, InUseSame DEF vars
  <1>2. CASE Free
    <2>1. UNCHANGED <<inUse, pc, ptr>> /\ freeCalled' = TRUE
      BY <1>2 DEF Free
    <2>2. CASE ~gp /\ UNCHANGED <<gp, freePending, frees>>
      BY <2>1, <2>2, <1>a, InUseSame DEF TypeOK, BlockInv
    <2>3. CASE gp /\ inUse > 0 /\ freePending' = TRUE /\ UNCHANGED <<gp, frees>>
      BY <2>1, <2>3, <1>a, InUseSame DEF TypeOK, BlockInv
    <2>4. CASE gp /\ inUse = 0 /\ freeLocked
      <3>1. frees' = frees + 1 /\ gp' = FALSE /\ freePending' = FALSE
        BY <2>4, FreeLockedEffect
      <3> QED
        <4>1. frees' = 1 /\ ~gp' /\ ~freePending' /\ ~(inUse' > 0)
          <5>1. frees = 0
            BY <2>1, <2>4, <1>a DEF BlockInv
          <5>2. ~gp' /\ ~freePending'
            BY <3>1
          <5>3. frees' = 1
            BY <3>1, <5>1
          <5>4. ~(inUse' > 0)
            BY <2>1, <2>4, <1>a DEF TypeOK
          <5> QED
            BY <5>2, <5>3, <5>4
        <4>2. TypeOK'
          <5>1. gp' \in BOOLEAN /\ freePending' \in BOOLEAN
            BY <3>1
          <5>2. frees' \in Nat /\ inUse' \in Nat
            BY <2>1, <4>1, <1>a DEF TypeOK
          <5>3. /\ freeCalled' \in BOOLEAN
                /\ pc' \in [Threads -> {"idle", "panicked", "active"} \cup BuildPcs]
                /\ ptr' \in [Threads -> {"nil", "block"}]
            BY <2>1, <1>a DEF TypeOK
          <5> QED
            BY <5>1, <5>2, <5>3 DEF TypeOK
        <4>3. BlockInv'
          BY <2>1, <4>1, <1>a DEF BlockInv
        <4>4. InUseInv'
          BY <2>1, <1>a, InUseSame
        <4> QED
          BY <4>2, <4>3, <4>4
    <2> QED
      BY <2>2, <2>3, <2>4, <1>2 DEF Free
  <1>3. ASSUME NEW t \in Threads, Build(t)
        PROVE  TypeOK' /\ InUseInv' /\ BlockInv'
    <2>1. TypeOK' /\ BlockInv'
      BY <1>3, <1>a DEF Build, TypeOK, BlockInv
    <2>2. InUseInv'
      BY <1>3, <1>a, InUseUp DEF Build, TypeOK
    <2> QED
      BY <2>1, <2>2
  <1>4. ASSUME NEW t \in Threads, BuildPanic(t) \/ ModuleInit(t) \/ ModuleCrypt(t)
        PROVE  TypeOK' /\ InUseInv' /\ BlockInv'
    <2> USE DEF BuildPanic, ModuleInit, ModuleCrypt
    <2>1. TypeOK' /\ BlockInv'
      BY <1>4, <1>a DEF TypeOK, BlockInv
    <2>2. InUseInv'
      BY <1>4, <1>a, InUseSame DEF TypeOK
    <2> QED
      BY <2>1, <2>2
  <1>5. ASSUME NEW t \in Threads, BuildReturn(t)
        PROVE  TypeOK' /\ InUseInv' /\ BlockInv'
    <2>1. gp
      BY <1>5, <1>a, InUseZero DEF BuildReturn, TypeOK, BlockInv
    <2>2. TypeOK' /\ BlockInv'
      BY <1>5, <1>a, <2>1 DEF BuildReturn, TypeOK, BlockInv
    <2>3. InUseInv'
      BY <1>5, <1>a, InUseSame DEF BuildReturn, TypeOK
    <2> QED
      BY <2>2, <2>3
  <1>6. ASSUME NEW t \in Threads, Cleanup(t)
        PROVE  TypeOK' /\ InUseInv' /\ BlockInv'
    <2>1. InUseInv' /\ inUse' \in Nat
      BY <1>6, <1>a, InUseDown DEF Cleanup, TypeOK
    <2>2. gp
      BY <1>6, <1>a, InUseZero DEF Cleanup, TypeOK, BlockInv
    <2>3. /\ pc' \in [Threads -> {"idle", "panicked", "active"} \cup BuildPcs]
          /\ \A u \in Threads : pc'[u] \in {"init", "cleanup", "failed"} => ptr[u] = "block"
          /\ UNCHANGED <<freeCalled, ptr>>
      BY <1>6, <1>a DEF Cleanup, TypeOK, BlockInv
    <2>4. CASE inUse' = 0 /\ freePending
      <3>1. frees' = frees + 1 /\ gp' = FALSE /\ freePending' = FALSE
        BY <1>6, <2>2, <2>4, FreeLockedEffect DEF Cleanup
      <3> QED
        <4>1. frees' = 1 /\ ~gp' /\ ~freePending' /\ ~(inUse' > 0)
          <5>1. frees = 0
            BY <2>2, <2>4, <1>a DEF BlockInv
          <5>2. ~gp' /\ ~freePending'
            BY <3>1
          <5>3. frees' = 1
            BY <3>1, <5>1
          <5>4. ~(inUse' > 0)
            BY <2>2, <2>4, <1>a DEF TypeOK
          <5> QED
            BY <5>2, <5>3, <5>4
        <4>2. TypeOK'
          <5>1. gp' \in BOOLEAN /\ freePending' \in BOOLEAN
            BY <3>1
          <5>2. frees' \in Nat /\ inUse' \in Nat
            BY <2>1, <4>1, <1>a DEF TypeOK
          <5>3. /\ freeCalled' \in BOOLEAN
                /\ pc' \in [Threads -> {"idle", "panicked", "active"} \cup BuildPcs]
                /\ ptr' \in [Threads -> {"nil", "block"}]
            BY <2>1, <2>3, <1>a DEF TypeOK
          <5> QED
            BY <5>1, <5>2, <5>3 DEF TypeOK
        <4>3. BlockInv'
          BY <2>3, <4>1 DEF BlockInv
        <4> QED
          BY <2>1, <4>2, <4>3
    <2>5. CASE ~(inUse' = 0 /\ freePending)
      <3>1. UNCHANGED <<gp, freePending, frees>>
        BY <1>6, <2>5 DEF Cleanup
      <3> QED
        BY <2>1, <2>2, <2>3, <2>5, <3>1, <1>a DEF TypeOK, BlockInv
    <2> QED
      BY <2>4, <2>5
  <1> QED
    BY <1>1, <1>2, <1>3, <1>4, <1>5, <1>6 DEF Next, Operation

-----------------------------------------------------------------------------

(***************************************************************************)
(* The reference count is exact and the block is freed at most once, for   *)
(* any number of goroutines (params.go build, Free, freeLocked).           *)
(***************************************************************************)
THEOREM GCMInvariant == Spec => [](TypeOK /\ GCMInv)
  <1>1. Init => IInv
    BY InitIInv
  <1>2. IInv /\ [Next]_vars => IInv'
    BY NextIInv
  <1> QED
    BY <1>1, <1>2, PTL DEF Spec, IInv

(***************************************************************************)
(* The module never reads a freed block during an Init call (params.go     *)
(* Free, M-P10).                                                           *)
(***************************************************************************)
THEOREM InitIsSafe == Spec => []InitReadsLiveBlock
  <1>1. TypeOK /\ GCMInv => InitReadsLiveBlock
    <2> SUFFICES ASSUME TypeOK, InUseInv, BlockInv, NEW t \in Threads, pc[t] = "init"
                 PROVE  ptr[t] = "block" /\ frees = 0
      BY DEF GCMInv, InitReadsLiveBlock
    <2>1. inUse # 0
      BY InUseZero
    <2> QED
      BY <2>1 DEF TypeOK, BlockInv
  <1> QED
    BY <1>1, GCMInvariant, PTL

-----------------------------------------------------------------------------
(* Refinement of SharedBlock.                                              *)

\* freePending is what is left to do of the requests so far.
PendingInv == freePending <=> freeCalled /\ gp

LEMMA NextPending == IInv /\ PendingInv /\ [Next]_vars => PendingInv'
  <1> SUFFICES ASSUME TypeOK, BlockInv, PendingInv, [Next]_vars PROVE PendingInv'
    BY DEF IInv, GCMInv
  <1> USE DEF PendingInv
  <1>1. CASE UNCHANGED vars
    BY <1>1 DEF vars
  <1>2. CASE Free
    <2>1. CASE gp /\ inUse = 0 /\ freeLocked
      BY <2>1, FreeLockedEffect
    <2> QED
      BY <1>2, <2>1 DEF Free, TypeOK
  <1>3. ASSUME NEW t \in Threads, Cleanup(t) PROVE PendingInv'
    <2>1. CASE freeLocked /\ freePending
      BY <2>1, FreeLockedEffect
    <2> QED
      BY <1>3, <2>1 DEF Cleanup
  <1>4. ASSUME NEW t \in Threads,
               Build(t) \/ BuildPanic(t) \/ BuildReturn(t) \/ ModuleInit(t) \/ ModuleCrypt(t)
        PROVE  PendingInv'
    BY <1>4 DEF Build, BuildPanic, BuildReturn, ModuleInit, ModuleCrypt
  <1> QED
    BY <1>1, <1>2, <1>3, <1>4 DEF Next, Operation

\* A step within a build, or outside of one, shows nothing.
LEMMA UsersSame ==
    ASSUME \A t \in Threads : pc'[t] \in BuildPcs <=> pc[t] \in BuildPcs
    PROVE  Users' = Users
  BY DEF Users

LEMMA NextShared ==
    ASSUME IInv, PendingInv, [Next]_vars
    PROVE  [Shared!Next]_<<Users, freeCalled, frees>>
  <1>a. TypeOK /\ InUseInv /\ BlockInv
    BY DEF IInv, GCMInv
  <1>b. inUse = 0 <=> Users = {}
    BY <1>a, InUseZero DEF Users
  <1> USE DEF Goto
  <1>1. CASE UNCHANGED vars
    BY <1>1, UsersSame DEF vars
  <1>2. CASE Free
    <2>1. Users' = Users /\ freeCalled' = TRUE
      BY <1>2, UsersSame DEF Free
    <2>2. frees' = IF Users = {} /\ frees = 0 THEN 1 ELSE frees
      <3>1. CASE ~gp /\ UNCHANGED frees
        BY <3>1, <1>a DEF BlockInv
      <3>2. CASE gp /\ inUse > 0 /\ UNCHANGED frees
        BY <3>2, <1>b
      <3>3. CASE gp /\ inUse = 0 /\ freeLocked
        BY <3>3, <1>a, <1>b, FreeLockedEffect DEF BlockInv
      <3> QED
        BY <1>2, <3>1, <3>2, <3>3 DEF Free
    <2>3. Shared!Request
      BY <2>1, <2>2 DEF Shared!Request
    <2> QED
      BY <2>3 DEF Shared!Next
  <1>3. ASSUME NEW t \in Threads, Build(t)
        PROVE  Shared!Take(t)
    <2>1. frees = 0 /\ t \notin Users /\ Users' = Users \cup {t}
      BY <1>3, <1>a DEF Build, TypeOK, BlockInv, Users
    <2> QED
      BY <1>3, <2>1 DEF Build, Shared!Take
  <1>4. ASSUME NEW t \in Threads, Cleanup(t)
        PROVE  Shared!Leave(t)
    <2>1. t \in Users /\ Users' = Users \ {t}
      BY <1>4, <1>a DEF Cleanup, TypeOK, Users
    <2>2. gp
      BY <1>a, <1>b, <2>1 DEF TypeOK, BlockInv
    <2>3. InUseInv' /\ (inUse' = 0 <=> Users' = {})
      <3>1. InUseInv'
        BY <1>4, <1>a, InUseDown DEF Cleanup, TypeOK
      <3>2. inUse' = 0 <=> \A u \in Threads : pc'[u] \notin BuildPcs
        <4>1. Cardinality({u \in Threads : pc'[u] \in BuildPcs}) = 0
                 <=> {u \in Threads : pc'[u] \in BuildPcs} = {}
          <5>1. {u \in Threads : pc'[u] \in BuildPcs} \subseteq Threads
            OBVIOUS
          <5> QED
            BY <5>1, ThreadsFinite, FS_Subset, FS_EmptySet
        <4> QED
          BY <3>1, <4>1 DEF InUseInv
      <3> QED
        BY <3>1, <3>2 DEF Users
    <2>4. frees' = IF freeCalled /\ Users' = {} THEN frees + 1 ELSE frees
      <3>1. freePending <=> freeCalled
        BY <2>2 DEF PendingInv
      <3>2. CASE inUse' = 0 /\ freePending
        BY <1>4, <2>2, <2>3, <3>1, <3>2, FreeLockedEffect DEF Cleanup
      <3>3. CASE ~(inUse' = 0 /\ freePending)
        BY <1>4, <2>3, <3>1, <3>3 DEF Cleanup
      <3> QED
        BY <3>2, <3>3
    <2> QED
      BY <1>4, <2>1, <2>4 DEF Cleanup, Shared!Leave
  <1>5. ASSUME NEW t \in Threads,
               BuildPanic(t) \/ BuildReturn(t) \/ ModuleInit(t) \/ ModuleCrypt(t)
        PROVE  UNCHANGED <<Users, freeCalled, frees>>
    <2>1. \A u \in Threads : pc'[u] \in BuildPcs <=> pc[u] \in BuildPcs
      BY <1>5, <1>a DEF BuildPanic, BuildReturn, ModuleInit, ModuleCrypt, TypeOK
    <2> QED
      BY <1>5, <2>1, UsersSame DEF BuildPanic, BuildReturn, ModuleInit, ModuleCrypt
  <1> QED
    BY <1>1, <1>2, <1>3, <1>4, <1>5 DEF Next, Operation, Shared!Next

(***************************************************************************)
(* GCMParams implements SharedBlock for any number of goroutines: the      *)
(* block is freed once, on request, in the step that finds it without a    *)
(* build outstanding (params.go build, Free, freeLocked).                  *)
(***************************************************************************)
THEOREM GCMImplementsSharedBlock == Spec => SharedSpec
  <1>1. Init => PendingInv /\ Shared!Init
    BY DEF Init, PendingInv, Shared!Init, Users
  <1>2. IInv /\ PendingInv /\ [Next]_vars
            => PendingInv' /\ [Shared!Next]_<<Users, freeCalled, frees>>
    BY NextPending, NextShared
  <1>3. Spec => []IInv
    BY GCMInvariant DEF IInv
  <1> QED
    BY <1>1, <1>2, <1>3, PTL DEF Spec, SharedSpec, Shared!Spec
=============================================================================
