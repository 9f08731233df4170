----------------------------- MODULE CtxProofs -----------------------------
(***************************************************************************)
(* Proofs about Ctx, and about p11.Module on top of it, for any finite set *)
(* of goroutines.                                                          *)
(***************************************************************************)
EXTENDS P11Module, FiniteSetTheorems, TLAPS

IInv == TypeOK /\ CtxInv

USE DEF ReadPcs, WaitPcs, HeldPcs, WritePcs, Pcs

\* The set of registered waits is a finite set.
LEMMA WaitSetFinite == IsFiniteSet({t \in Threads : pc[t] \in WaitPcs})
  <1>1. {t \in Threads : pc[t] \in WaitPcs} \subseteq Threads
    OBVIOUS
  <1> QED
    BY <1>1, ThreadsAssumption, FS_Subset

\* The counter of a set of waits that nobody joins or leaves stays the same.
LEMMA WaitersSame ==
    ASSUME WaitersInv, UNCHANGED waiters,
           \A t \in Threads : pc'[t] \in WaitPcs <=> pc[t] \in WaitPcs
    PROVE  WaitersInv'
  <1>1. {t \in Threads : pc'[t] \in WaitPcs} = {t \in Threads : pc[t] \in WaitPcs}
    OBVIOUS
  <1> QED
    BY <1>1 DEF WaitersInv

\* A goroutine registers: waiters.Add(1).
LEMMA WaitersAdd ==
    ASSUME NEW t \in Threads, TypeOK, WaitersInv, waiters' = waiters + 1,
           pc[t] \notin WaitPcs, pc'[t] \in WaitPcs,
           \A u \in Threads \ {t} : pc'[u] = pc[u]
    PROVE  WaitersInv'
  <1> DEFINE W == {u \in Threads : pc[u] \in WaitPcs}
  <1>1. {u \in Threads : pc'[u] \in WaitPcs} = W \cup {t}
    OBVIOUS
  <1>2. IsFiniteSet(W) /\ t \notin W
    BY WaitSetFinite
  <1>3. Cardinality(W \cup {t}) = Cardinality(W) + 1
    BY <1>2, FS_AddElement
  <1> QED
    BY <1>1, <1>3 DEF WaitersInv

\* A goroutine deregisters: waiters.Done().
LEMMA WaitersDone ==
    ASSUME NEW t \in Threads, TypeOK, WaitersInv, waiters' = waiters - 1,
           pc[t] \in WaitPcs, pc'[t] \notin WaitPcs,
           \A u \in Threads \ {t} : pc'[u] = pc[u]
    PROVE  WaitersInv' /\ waiters' \in Nat
  <1> DEFINE W == {u \in Threads : pc[u] \in WaitPcs}
  <1>1. {u \in Threads : pc'[u] \in WaitPcs} = W \ {t}
    OBVIOUS
  <1>2. IsFiniteSet(W) /\ t \in W
    BY WaitSetFinite
  <1>3. /\ IsFiniteSet(W \ {t})
        /\ Cardinality(W \ {t}) = Cardinality(W) - 1
    BY <1>2, FS_RemoveElement
  <1>4. Cardinality(W \ {t}) \in Nat
    BY <1>3, FS_CardinalityType
  <1> QED
    BY <1>1, <1>3, <1>4 DEF WaitersInv

\* When the counter is zero no goroutine is registered.
LEMMA NoWaiters ==
    ASSUME WaitersInv, waiters = 0
    PROVE  \A t \in Threads : pc[t] \notin WaitPcs
  <1> {t \in Threads : pc[t] \in WaitPcs} = {}
    BY WaitSetFinite, FS_EmptySet DEF WaitersInv
  <1> QED
    OBVIOUS

LEMMA InitIInv == Init => IInv
  <1> SUFFICES ASSUME Init PROVE IInv
    OBVIOUS
  <1>1. TypeOK
    BY DEF Init, TypeOK
  <1>2. LockInv /\ LibraryInv
    BY ThreadsAssumption DEF Init, LockInv, LibraryInv
  <1>3. WaitersInv
    <2>1. {t \in Threads : pc[t] \in WaitPcs} = {}
      BY DEF Init
    <2> QED
      BY <2>1, FS_EmptySet DEF Init, WaitersInv
  <1> QED
    BY <1>1, <1>2, <1>3 DEF IInv, CtxInv

\* Giving up the write lock admits the queued readers and keeps every
\* invariant about the lock and the counter.
LEMMA UnlockKeepsLock ==
    ASSUME IInv, NEW t \in Threads, NEW from \in HeldPcs,
           UnlockReturn(t, from), UNCHANGED waiters
    PROVE  /\ pc' \in [Threads -> Pcs]
           /\ op' \in [Threads -> Ops \cup {"none"}]
           /\ readers' \subseteq Threads
           /\ writer' \in Threads \cup {NoThread}
           /\ LockInv'
           /\ WaitersInv'
           /\ \A u \in Threads : pc'[u] = pc[u] \/ pc'[u] \in {"idle", "read"}
  <1>1. /\ pc' \in [Threads -> Pcs]
        /\ op' \in [Threads -> Ops \cup {"none"}]
        /\ readers' \subseteq Threads
        /\ writer' \in Threads \cup {NoThread}
    BY DEF IInv, TypeOK, UnlockReturn
  <1>2. \A u \in Threads \ {t} : pc[u] \notin WritePcs
    BY ThreadsAssumption DEF IInv, CtxInv, LockInv, UnlockReturn
  <1>3. readers = {}
    BY DEF IInv, CtxInv, LockInv, UnlockReturn
  <1>4. \A u \in Threads : pc'[u] \notin WritePcs
    BY <1>2 DEF UnlockReturn
  <1>5. LockInv'
    BY <1>3, <1>4, ThreadsAssumption DEF IInv, TypeOK, CtxInv, LockInv, UnlockReturn
  <1>6. \A u \in Threads : pc'[u] \in WaitPcs <=> pc[u] \in WaitPcs
    BY DEF UnlockReturn, IInv, TypeOK
  <1>7. WaitersInv'
    BY <1>6, WaitersSame DEF IInv, CtxInv
  <1> QED
    BY <1>1, <1>5, <1>7 DEF UnlockReturn

LEMMA NextIInv == IInv /\ [Next]_vars => IInv'
  <1> USE DEF lockVars, ctxVars, libVars, Goto, Return, RUnlock
  <1> SUFFICES ASSUME IInv, [Next]_vars PROVE IInv'
    OBVIOUS
  <1>a. TypeOK /\ LockInv /\ WaitersInv /\ LibraryInv
    BY DEF IInv, CtxInv
  <1>b. SUFFICES TypeOK' /\ LockInv' /\ WaitersInv' /\ LibraryInv'
    BY DEF IInv, CtxInv
  <1>1. CASE UNCHANGED vars
    <2>1. TypeOK' /\ LockInv' /\ LibraryInv'
      BY <1>1, <1>a DEF vars, TypeOK, LockInv, LibraryInv
    <2>2. WaitersInv'
      BY <1>1, <1>a, WaitersSame DEF vars
    <2> QED
      BY <2>1, <2>2
  <1>2. ASSUME NEW t \in Threads, NEW o \in Ops, Invoke(t, o)
        PROVE  TypeOK' /\ LockInv' /\ WaitersInv' /\ LibraryInv'
    <2>1. TypeOK' /\ LockInv' /\ LibraryInv'
      BY <1>2, <1>a DEF Invoke, TypeOK, LockInv, LibraryInv
    <2>2. WaitersInv'
      BY <1>2, <1>a, WaitersSame DEF Invoke, TypeOK
    <2> QED
      BY <2>1, <2>2
  <1>3. ASSUME NEW t \in Threads, RLock(t)
        PROVE  TypeOK' /\ LockInv' /\ WaitersInv' /\ LibraryInv'
    <2>1. TypeOK' /\ LibraryInv'
      BY <1>3, <1>a DEF RLock, TypeOK, LibraryInv
    <2>2. LockInv'
      BY <1>3, <1>a, ThreadsAssumption DEF RLock, TypeOK, LockInv
    <2>3. WaitersInv'
      BY <1>3, <1>a, WaitersSame DEF RLock, TypeOK
    <2> QED
      BY <2>1, <2>2, <2>3
  <1>4. ASSUME NEW t \in Threads, LockAnnounce(t)
        PROVE  TypeOK' /\ LockInv' /\ WaitersInv' /\ LibraryInv'
    <2>1. TypeOK' /\ LibraryInv'
      BY <1>4, <1>a DEF LockAnnounce, TypeOK, LibraryInv
    <2>2. LockInv'
      BY <1>4, <1>a, ThreadsAssumption DEF LockAnnounce, TypeOK, LockInv
    <2>3. WaitersInv'
      BY <1>4, <1>a, WaitersSame DEF LockAnnounce, TypeOK
    <2> QED
      BY <2>1, <2>2, <2>3
  <1>5. ASSUME NEW t \in Threads, LockAcquire(t)
        PROVE  TypeOK' /\ LockInv' /\ WaitersInv' /\ LibraryInv'
    <2>1. TypeOK' /\ LibraryInv' /\ LockInv'
      BY <1>5, <1>a DEF LockAcquire, TypeOK, LibraryInv, LockInv
    <2>2. WaitersInv'
      BY <1>5, <1>a, WaitersSame DEF LockAcquire, TypeOK
    <2> QED
      BY <2>1, <2>2
  <1>6. ASSUME NEW t \in Threads, GrabClosed(t) \/ CallReturn(t)
        PROVE  TypeOK' /\ LockInv' /\ WaitersInv' /\ LibraryInv'
    <2>1. TypeOK' /\ LibraryInv'
      BY <1>6, <1>a DEF GrabClosed, CallReturn, TypeOK, LibraryInv
    <2>2. LockInv'
      BY <1>6, <1>a DEF GrabClosed, CallReturn, TypeOK, LockInv
    <2>3. WaitersInv'
      BY <1>6, <1>a, WaitersSame DEF GrabClosed, CallReturn, TypeOK
    <2> QED
      BY <2>1, <2>2, <2>3
  <1>7. ASSUME NEW t \in Threads, GrabCall(t)
        PROVE  TypeOK' /\ LockInv' /\ WaitersInv' /\ LibraryInv'
    <2>1. TypeOK' /\ LockInv'
      BY <1>7, <1>a DEF GrabCall, TypeOK, LockInv
    <2>2. mapped
      <3>1. t \in readers
        BY <1>7, <1>a DEF GrabCall, LockInv
      <3> QED
        BY <3>1, <1>7, <1>a DEF GrabCall, LockInv, LibraryInv
    <2>3. LibraryInv'
      BY <1>7, <1>a, <2>2 DEF GrabCall, TypeOK, LibraryInv
    <2>4. WaitersInv'
      BY <1>7, <1>a, WaitersSame DEF GrabCall, TypeOK
    <2> QED
      BY <2>1, <2>3, <2>4
  <1>8. ASSUME NEW t \in Threads, WaitAdd(t)
        PROVE  TypeOK' /\ LockInv' /\ WaitersInv' /\ LibraryInv'
    <2>1. TypeOK' /\ LockInv'
      BY <1>8, <1>a DEF WaitAdd, TypeOK, LockInv
    <2>2. mapped
      <3>1. t \in readers
        BY <1>8, <1>a DEF WaitAdd, LockInv
      <3> QED
        BY <3>1, <1>8, <1>a DEF WaitAdd, LockInv, LibraryInv
    <2>3. LibraryInv'
      BY <1>8, <1>a, <2>2 DEF WaitAdd, TypeOK, LibraryInv
    <2>4. WaitersInv'
      BY <1>8, <1>a, WaitersAdd DEF WaitAdd, TypeOK
    <2> QED
      BY <2>1, <2>3, <2>4
  <1>9. ASSUME NEW t \in Threads, WaitRelease(t)
        PROVE  TypeOK' /\ LockInv' /\ WaitersInv' /\ LibraryInv'
    <2>1. TypeOK' /\ LibraryInv'
      BY <1>9, <1>a DEF WaitRelease, TypeOK, LibraryInv
    <2>2. LockInv'
      BY <1>9, <1>a DEF WaitRelease, TypeOK, LockInv
    <2>3. WaitersInv'
      BY <1>9, <1>a, WaitersSame DEF WaitRelease, TypeOK
    <2> QED
      BY <2>1, <2>2, <2>3
  <1>10. ASSUME NEW t \in Threads,
                \/ WaitEnter(t) \/ WaitPark(t) \/ WaitAnswer(t)
                \/ SlotEvent(t) \/ WaitWoken(t)
         PROVE  TypeOK' /\ LockInv' /\ WaitersInv' /\ LibraryInv'
    <2> USE DEF WaitEnter, WaitPark, WaitAnswer, SlotEvent, WaitWoken
    <2>1. TypeOK' /\ LibraryInv'
      BY <1>10, <1>a DEF TypeOK, LibraryInv
    <2>2. LockInv'
      BY <1>10, <1>a DEF TypeOK, LockInv
    <2>3. WaitersInv'
      BY <1>10, <1>a, WaitersSame DEF TypeOK
    <2> QED
      BY <2>1, <2>2, <2>3
  <1>11. ASSUME NEW t \in Threads, WaitDone(t)
         PROVE  TypeOK' /\ LockInv' /\ WaitersInv' /\ LibraryInv'
    <2>1. WaitersInv' /\ waiters' \in Nat
      BY <1>11, <1>a, WaitersDone DEF WaitDone, TypeOK
    <2>2. TypeOK' /\ LibraryInv'
      BY <1>11, <1>a, <2>1 DEF WaitDone, TypeOK, LibraryInv
    <2>3. LockInv'
      BY <1>11, <1>a DEF WaitDone, TypeOK, LockInv
    <2> QED
      BY <2>1, <2>2, <2>3
  <1>12. ASSUME NEW t \in Threads,
                WriteClosed(t) \/ InitializeReturn(t) \/ FinalizeReturn(t)
         PROVE  TypeOK' /\ LockInv' /\ WaitersInv' /\ LibraryInv'
    <2> USE DEF WriteClosed, InitializeReturn, FinalizeReturn
    <2>1. PICK from \in {"write", "lifecycle"} : UnlockReturn(t, from)
      BY <1>12
    <2>2. UNCHANGED <<waiters, module, mapped>> /\ initialized' \in BOOLEAN
      BY <1>12, <1>a DEF TypeOK
    <2>3. /\ TypeOK' /\ LockInv' /\ WaitersInv'
          /\ \A u \in Threads : pc'[u] = pc[u] \/ pc'[u] \in {"idle", "read"}
      BY <2>1, <2>2, <1>a, UnlockKeepsLock DEF TypeOK
    <2>4. \A u \in Threads : pc[u] # "unloaded"
      BY <2>1, <1>a, ThreadsAssumption DEF UnlockReturn, LockInv
    <2>5. LibraryInv'
      BY <2>2, <2>3, <2>4, <1>a DEF LibraryInv
    <2> QED
      BY <2>3, <2>5
  <1>13. ASSUME NEW t \in Threads, LifecycleEnter(t) \/ DestroyDrain(t)
         PROVE  TypeOK' /\ LockInv' /\ WaitersInv' /\ LibraryInv'
    <2> USE DEF LifecycleEnter, DestroyDrain
    <2>1. TypeOK' /\ LockInv'
      BY <1>13, <1>a DEF TypeOK, LockInv
    <2>2. mapped
      BY <1>13, <1>a, ThreadsAssumption DEF LockInv, LibraryInv
    <2>3. LibraryInv'
      BY <1>13, <1>a, <2>2 DEF TypeOK, LibraryInv
    <2>4. WaitersInv'
      BY <1>13, <1>a, WaitersSame DEF TypeOK
    <2> QED
      BY <2>1, <2>3, <2>4
  <1>14. ASSUME NEW t \in Threads, DestroyUnload(t)
         PROVE  TypeOK' /\ LockInv' /\ WaitersInv' /\ LibraryInv'
    <2>1. TypeOK' /\ LockInv'
      BY <1>14, <1>a DEF DestroyUnload, TypeOK, LockInv
    <2>2. \A u \in Threads : pc[u] \notin WaitPcs
      BY <1>14, <1>a, NoWaiters DEF DestroyUnload
    <2>3. \A u \in Threads \ {t} : pc[u] \notin WritePcs \cup ReadPcs
      BY <1>14, <1>a DEF DestroyUnload, LockInv
    <2>4. LibraryInv'
      BY <1>14, <1>a, <2>2, <2>3 DEF DestroyUnload, TypeOK, LibraryInv
    <2>5. WaitersInv'
      BY <1>14, <1>a, WaitersSame DEF DestroyUnload, TypeOK
    <2> QED
      BY <2>1, <2>4, <2>5
  <1>15. ASSUME NEW t \in Threads, DestroyReturn(t)
         PROVE  TypeOK' /\ LockInv' /\ WaitersInv' /\ LibraryInv'
    <2>1. UnlockReturn(t, "unloaded") /\ module' = FALSE /\ UNCHANGED <<waiters, libVars>>
      BY <1>15 DEF DestroyReturn
    <2>2. /\ TypeOK' /\ LockInv' /\ WaitersInv'
          /\ \A u \in Threads : pc'[u] = pc[u] \/ pc'[u] \in {"idle", "read"}
      BY <2>1, <1>a, UnlockKeepsLock DEF TypeOK
    <2>3. LibraryInv'
      BY <2>1, <2>2, <1>a DEF LibraryInv
    <2> QED
      BY <2>2, <2>3
  <1> QED
    BY <1>1, <1>2, <1>3, <1>4, <1>5, <1>6, <1>7, <1>8, <1>9, <1>10, <1>11,
       <1>12, <1>13, <1>14, <1>15 DEF Next, Step

-----------------------------------------------------------------------------

(***************************************************************************)
(* Type correctness and the inductive invariant, for every finite set of   *)
(* goroutines: the lock, the WaitGroup counter and the mapping of the      *)
(* library agree with where the goroutines are (binding.go, lifecycle.go). *)
(***************************************************************************)
THEOREM CtxInvariant == Spec => [](TypeOK /\ CtxInv)
  <1>1. Init => IInv
    BY InitIInv
  <1>2. IInv /\ [Next]_vars => IInv'
    BY NextIInv
  <1> QED
    BY <1>1, <1>2, PTL DEF Spec, IInv

(***************************************************************************)
(* No goroutine is in the library, or on its way into it after giving up   *)
(* the lock, once Destroy has unloaded it (binding.go Destroy, slot.go     *)
(* WaitForSlotEvent).                                                      *)
(***************************************************************************)
THEOREM UnloadIsSafe == Spec => []NoUseAfterUnload
  <1>1. TypeOK /\ CtxInv => NoUseAfterUnload
    BY DEF TypeOK, CtxInv, LibraryInv, NoUseAfterUnload, Inside, LibPcs
  <1> QED
    BY <1>1, CtxInvariant, PTL

(***************************************************************************)
(* C_Initialize, C_Finalize and ck_unload share the module with slot-event *)
(* waits only (lifecycle.go).                                              *)
(***************************************************************************)
THEOREM LifecycleIsExclusive == Spec => []LifecycleExclusive
  <1>1. TypeOK /\ CtxInv => LifecycleExclusive
    BY DEF TypeOK, CtxInv, LockInv, LifecycleExclusive
  <1> QED
    BY <1>1, CtxInvariant, PTL

(***************************************************************************)
(* The WaitGroup is used by its rules: no Add while Destroy is in Wait     *)
(* (slot.go WaitForSlotEvent).                                             *)
(***************************************************************************)
THEOREM WaitGroupUsedByItsRules == Spec => NoAddDuringWait
  <1> DEFINE A == waiters' > waiters => \A t \in Threads : pc[t] # "drain"
  <1>1. IInv /\ [Next]_vars => [A]_vars
    <2> SUFFICES ASSUME IInv, Next, waiters' > waiters
                 PROVE  \A t \in Threads : pc[t] # "drain"
      BY DEF vars, ctxVars
    <2>1. waiters \in Nat
      BY DEF IInv, TypeOK
    <2>2. PICK t \in Threads : WaitAdd(t)
      <3> USE DEF ctxVars
      <3>0. ASSUME NEW t \in Threads, NEW o \in Ops, Invoke(t, o)
            PROVE  waiters' = waiters
        BY <3>0 DEF Invoke
      <3>1. ASSUME NEW t \in Threads,
                   \/ LockAnnounce(t) \/ SlotEvent(t)
                   \/ RLock(t) \/ LockAcquire(t)
                   \/ GrabClosed(t) \/ GrabCall(t) \/ CallReturn(t)
            PROVE  waiters' = waiters
        BY <3>1 DEF RLock, LockAnnounce, LockAcquire, GrabClosed,
           GrabCall, CallReturn, SlotEvent
      <3>2. ASSUME NEW t \in Threads,
                   \/ WaitRelease(t) \/ WaitEnter(t) \/ WaitPark(t)
                   \/ WaitAnswer(t) \/ WaitWoken(t)
            PROVE  waiters' = waiters
        BY <3>2 DEF WaitRelease, WaitEnter, WaitPark, WaitAnswer, WaitWoken
      <3>3. ASSUME NEW t \in Threads,
                   \/ WriteClosed(t) \/ LifecycleEnter(t)
                   \/ InitializeReturn(t) \/ FinalizeReturn(t)
                   \/ DestroyDrain(t) \/ DestroyUnload(t) \/ DestroyReturn(t)
            PROVE  waiters' = waiters
        BY <3>3 DEF WriteClosed, LifecycleEnter, InitializeReturn,
           FinalizeReturn, DestroyDrain, DestroyUnload, DestroyReturn
      <3>4. ASSUME NEW t \in Threads, WaitDone(t)
            PROVE  waiters' = waiters - 1
        BY <3>4 DEF WaitDone
      <3> HIDE DEF ctxVars
      <3> QED
        BY <2>1, <3>0, <3>1, <3>2, <3>3, <3>4 DEF Next, Step
    <2>3. t \in readers
      BY <2>2 DEF WaitAdd, Goto, IInv, CtxInv, LockInv
    <2> QED
      BY <2>3 DEF IInv, CtxInv, LockInv
  <1>2. Spec => []IInv
    BY CtxInvariant DEF IInv
  <1> QED
    BY <1>1, <1>2, PTL DEF Spec, NoAddDuringWait

-----------------------------------------------------------------------------
(* Refinement of ModuleAccess.                                             *)

\* A step that changes neither what any goroutine does in the library nor
\* whether it is mapped is a stuttering step of ModuleAccess.
LEMMA SameAtStutters ==
    ASSUME \A u \in Threads : At(u)' = At(u), UNCHANGED mapped
    PROVE  UNCHANGED <<mapped, at>>
  BY DEF at

\* A step that moves one goroutine and no other.
LEMMA OneMoves ==
    ASSUME NEW t \in Threads, \A u \in Threads \ {t} : At(u)' = At(u)
    PROVE  at' = [at EXCEPT ![t] = At(t)']
  BY DEF at

(***************************************************************************)
(* The Ctx implements ModuleAccess, the protocol it promises its users:    *)
(* every step of a goroutine enters the library, leaves it, unloads it,    *)
(* or is invisible there (binding.go, lifecycle.go, slot.go).              *)
(***************************************************************************)
THEOREM CtxImplementsModuleAccess == Spec => AccessSpec
  <1>1. Init => Access!Init
    BY DEF Init, Access!Init, at, At
  <1>2. IInv /\ [Next]_vars => [Access!Next]_<<mapped, at>>
    <2> USE DEF lockVars, ctxVars, libVars, Goto, Return, RUnlock
    <2> SUFFICES ASSUME IInv, [Next]_vars
                 PROVE  Access!Next \/ UNCHANGED <<mapped, at>>
      OBVIOUS
    <2>a. TypeOK /\ LockInv /\ WaitersInv /\ LibraryInv
      BY DEF IInv, CtxInv
    <2>1. CASE UNCHANGED vars
      BY <2>1, SameAtStutters DEF vars, At
    <2>2. ASSUME NEW t \in Threads, NEW o \in Ops, Invoke(t, o)
          PROVE  UNCHANGED <<mapped, at>>
      <3>1. \A u \in Threads : At(u)' = At(u)
        BY <2>2, <2>a DEF Invoke, At, TypeOK
      <3> QED
        BY <2>2, <3>1, SameAtStutters DEF Invoke
    <2>3. ASSUME NEW t \in Threads,
                 \/ RLock(t) \/ LockAnnounce(t) \/ LockAcquire(t)
                 \/ GrabClosed(t) \/ WaitAdd(t) \/ WaitRelease(t)
                 \/ WaitPark(t) \/ WaitDone(t) \/ DestroyDrain(t)
          PROVE  UNCHANGED <<mapped, at>>
      <3> USE DEF RLock, LockAnnounce, LockAcquire, GrabClosed, WaitAdd,
                  WaitRelease, WaitPark, WaitDone, DestroyDrain
      <3>1. \A u \in Threads : At(u)' = At(u)
        BY <2>3, <2>a DEF At, TypeOK
      <3>2. UNCHANGED mapped
        BY <2>3
      <3> QED
        BY <3>1, <3>2, SameAtStutters
    <2>4. ASSUME NEW t \in Threads, WriteClosed(t) \/ DestroyReturn(t)
          PROVE  UNCHANGED <<mapped, at>>
      <3> USE DEF WriteClosed, DestroyReturn, UnlockReturn
      <3>1. \A u \in Threads : At(u)' = At(u)
        BY <2>4, <2>a DEF At, TypeOK
      <3>2. UNCHANGED mapped
        BY <2>4
      <3> QED
        BY <3>1, <3>2, SameAtStutters
    <2>5. ASSUME NEW t \in Threads, GrabCall(t)
          PROVE  Access!Enter(t, "call")
      <3>1. mapped /\ UNCHANGED mapped /\ At(t) = "out" /\ At(t)' = "call"
        <4>1. t \in readers
          BY <2>5, <2>a DEF GrabCall, LockInv
        <4> QED
          BY <4>1, <2>5, <2>a DEF GrabCall, TypeOK, LockInv, LibraryInv, At
      <3>2. \A u \in Threads \ {t} : At(u)' = At(u)
        BY <2>5, <2>a DEF GrabCall, TypeOK, At
      <3>3. \A u \in Threads \ {t} : At(u) \in {"out", "call", "wait"}
        BY <2>5, <2>a DEF GrabCall, LockInv, TypeOK, At
      <3> QED
        BY <3>1, <3>2, <3>3, OneMoves DEF Access!Enter, Access!Compatible, at
    <2>6. ASSUME NEW t \in Threads, WaitEnter(t)
          PROVE  Access!Enter(t, "wait")
      <3>1. mapped /\ UNCHANGED mapped /\ At(t) = "out" /\ At(t)' = "wait"
        BY <2>6, <2>a DEF WaitEnter, TypeOK, LibraryInv, At
      <3>2. \A u \in Threads \ {t} : At(u)' = At(u)
        BY <2>6, <2>a DEF WaitEnter, TypeOK, At
      <3>3. \A u \in Threads \ {t} : At(u) \in {"out", "call", "wait", "lifecycle"}
        BY DEF At
      <3> QED
        BY <3>1, <3>2, <3>3, OneMoves DEF Access!Enter, Access!Compatible, at
    <2>7. ASSUME NEW t \in Threads, LifecycleEnter(t)
          PROVE  Access!Enter(t, "lifecycle")
      <3>1. \A u \in Threads \ {t} : pc[u] \notin WritePcs \cup ReadPcs
        BY <2>7, <2>a DEF LifecycleEnter, LockInv
      <3>2. mapped /\ UNCHANGED mapped /\ At(t) = "out" /\ At(t)' = "lifecycle"
        BY <2>7, <2>a, <3>1 DEF LifecycleEnter, TypeOK, LibraryInv, At
      <3>3. \A u \in Threads \ {t} : At(u)' = At(u)
        BY <2>7, <2>a DEF LifecycleEnter, TypeOK, At
      <3>4. \A u \in Threads \ {t} : At(u) \in {"out", "wait"}
        BY <3>1, <2>a DEF TypeOK, At
      <3> QED
        BY <3>2, <3>3, <3>4, OneMoves DEF Access!Enter, Access!Compatible, at
    <2>8. ASSUME NEW t \in Threads,
                 \/ CallReturn(t) \/ WaitAnswer(t) \/ SlotEvent(t)
                 \/ WaitWoken(t) \/ InitializeReturn(t) \/ FinalizeReturn(t)
          PROVE  Access!Leave(t)
      <3> USE DEF CallReturn, WaitAnswer, SlotEvent, WaitWoken,
                  InitializeReturn, FinalizeReturn, UnlockReturn
      <3>1. UNCHANGED mapped /\ At(t) # "out" /\ At(t)' = "out"
        BY <2>8, <2>a DEF TypeOK, At
      <3>2. \A u \in Threads \ {t} : At(u)' = At(u)
        BY <2>8, <2>a DEF TypeOK, At
      <3> QED
        BY <3>1, <3>2, OneMoves DEF Access!Leave, at
    <2>9. ASSUME NEW t \in Threads, DestroyUnload(t)
          PROVE  Access!Unload
      <3>1. \A u \in Threads : pc[u] \notin WaitPcs
        BY <2>9, <2>a, NoWaiters DEF DestroyUnload
      <3>2. \A u \in Threads \ {t} : pc[u] \notin WritePcs \cup ReadPcs
        BY <2>9, <2>a DEF DestroyUnload, LockInv
      <3>3. \A u \in Threads : At(u) = "out" /\ At(u)' = At(u)
        BY <2>9, <2>a, <3>1, <3>2 DEF DestroyUnload, TypeOK, At
      <3>4. mapped /\ mapped' = FALSE
        BY <2>9, <2>a DEF DestroyUnload, LibraryInv
      <3> QED
        BY <3>3, <3>4 DEF Access!Unload, at
    <2> QED
      <3>1. "call" \in Access!Kinds /\ "wait" \in Access!Kinds /\ "lifecycle" \in Access!Kinds
        BY DEF Access!Kinds
      <3> QED
        BY <2>1, <2>2, <2>3, <2>4, <2>5, <2>6, <2>7, <2>8, <2>9, <3>1
           DEF Next, Step, Access!Next
  <1>3. Spec => []IInv
    BY CtxInvariant DEF IInv
  <1> QED
    BY <1>1, <1>2, <1>3, PTL DEF Spec, AccessSpec, Access!Spec

-----------------------------------------------------------------------------
(* p11.Module.  What it does with its Ctx is a behaviour of the Ctx, so    *)
(* everything above holds of it.                                           *)

LEMMA ModuleStep == [PNext]_allVars => [Next]_vars
  <1> SUFFICES ASSUME [PNext]_allVars
               PROVE  [Next]_vars
    OBVIOUS
  <1>1. CASE UNCHANGED allVars
    BY <1>1 DEF allVars
  <1>2. ASSUME NEW t \in Threads, Begin(t)
        PROVE  Next \/ UNCHANGED vars
    <2>1. CASE CloseAgain(t)
      BY <2>1 DEF CloseAgain
    <2>2. CASE OpenInitialize(t) \/ OpenDestroy(t) \/ Operation(t) \/ CloseFirst(t)
      <3>1. \E o \in Ops : Invoke(t, o)
        BY <2>2 DEF OpenInitialize, OpenDestroy, Operation, CloseFirst,
                    Ops, ReadOps, WriteOps
      <3> QED
        BY <3>1 DEF Next
    <2> QED
      BY <1>2, <2>1, <2>2 DEF Begin
  <1>3. ASSUME NEW t \in Threads, PLock(t)
        PROVE  Next
    BY <1>3 DEF PLock, Next
  <1>4. ASSUME NEW t \in Threads, PStep(t)
        PROVE  Next \/ UNCHANGED vars
    <2>1. CASE CtxStep(t)
      BY <2>1 DEF CtxStep, Step, Next
    <2>2. CASE CloseDestroy(t)
      BY <2>2 DEF CloseDestroy, Next, Ops, WriteOps
    <2>3. CASE CloseReturn(t)
      BY <2>3 DEF CloseReturn
    <2>4. CASE OpenInitialized(t) \/ OpenDestroyed(t) \/ CloseFinalized(t) \/ CloseDestroyed(t)
      BY <2>4 DEF OpenInitialized, OpenDestroyed, CloseFinalized, CloseDestroyed, Step, Next
    <2> QED
      BY <1>4, <2>1, <2>2, <2>3, <2>4 DEF PStep
  <1> QED
    BY <1>1, <1>2, <1>3, <1>4 DEF PNext

(***************************************************************************)
(* OpenModule, the operations and Close drive the Ctx as its callers may:  *)
(* the library is never used after Close has unloaded it, and every other  *)
(* theorem about the Ctx holds of a Module (p11/module.go).                *)
(***************************************************************************)
THEOREM ModuleIsCtxCaller == PSpec => Spec
  <1>1. PInit => Init
    BY DEF PInit
  <1> QED
    BY <1>1, ModuleStep, PTL DEF PSpec, Spec

(***************************************************************************)
(* A Module, with OpenModule and its failure path and any number of calls  *)
(* of Close, keeps the promise of a Ctx: whatever its goroutines do is     *)
(* what ModuleAccess allows in a library (p11/module.go).                  *)
(***************************************************************************)
THEOREM ModuleImplementsAccess == PSpec => AccessSpec
  BY ModuleIsCtxCaller, CtxImplementsModuleAccess, PTL

\* Close has progressed no further than its bookkeeping says, and the library
\* is gone when it is done.
ProgressInv ==
    /\ \A t \in Threads : closing[t] = "destroy" => closeErr # "none"
    /\ \A t \in Threads : closing[t] = "returned" => once = "done"
    /\ once = "done" => ~mapped /\ ~module /\ closeErr # "none"
    /\ phase # "open" => once = "fresh"
    /\ once = "fresh" => closeErr = "none" /\ \A t \in Threads : closing[t] = "no"

\* Only OpenModule initialises, and only the one goroutine that runs the
\* function of closeOnce finalises, once.
LifecycleInv ==
    /\ \A t \in Threads : op[t] = "Initialize" => phase = "opening"
    /\ \A t \in Threads : op[t] = "Finalize" => closing[t] = "finalize" /\ closeErr = "none"
    /\ \A t, u \in Threads : op[t] = "Initialize" /\ op[u] = "Initialize" => t = u
    /\ \A t, u \in Threads : closing[t] = "finalize" /\ closing[u] = "finalize" => t = u

PInv == PTypeOK /\ ProgressInv /\ LifecycleInv

LEMMA InitPInv == PInit => PInv
  BY DEF PInit, PInv, PTypeOK, ProgressInv, LifecycleInv, Init, ClosePoints,
         TypeOK, Ops, WriteOps, ReadOps, WaitOps

\* What a step inside a method may do: it never brings the library back, and
\* it starts no method.
LEMMA StepKeepsClosed ==
    ASSUME TypeOK, NEW t \in Threads, CtxStep(t)
    PROVE  /\ UNCHANGED modVars
           /\ mapped' => mapped
           /\ module' => module
           /\ \A u \in Threads : op'[u] \in {op[u], "none"}
  <1> USE DEF TypeOK, lockVars, ctxVars, libVars, Goto, Return, RUnlock, CtxStep
  <1>1. CASE RLock(t) \/ LockAcquire(t) \/ GrabClosed(t) \/ GrabCall(t) \/ CallReturn(t)
    BY <1>1 DEF RLock, LockAcquire, GrabClosed, GrabCall, CallReturn
  <1>2. CASE LifecycleEnter(t) \/ DestroyDrain(t) \/ DestroyUnload(t)
    BY <1>2 DEF LifecycleEnter, DestroyDrain, DestroyUnload
  <1> QED
    BY <1>1, <1>2

LEMMA NextPInv ==
    ASSUME IInv, PInv, [PNext]_allVars
    PROVE  PInv'
  <1> USE DEF modVars, lockVars, ctxVars, libVars, Goto, UnlockReturn
  <1>a. /\ TypeOK /\ LibraryInv
        /\ phase \in {"new", "opening", "undo", "undoing", "open", "failed"}
        /\ once \in {"fresh", "running", "done"}
        /\ closing \in [Threads -> ClosePoints]
        /\ closeErr \in {"none", "nil", "err"}
        /\ ProgressInv /\ LifecycleInv
    BY DEF PInv, PTypeOK, IInv, CtxInv
  <1>b. TypeOK'
    BY ModuleStep, NextIInv DEF IInv
  <1>t. /\ op \in [Threads -> Ops \cup {"none"}]
        /\ "no" \in ClosePoints /\ "finalize" \in ClosePoints /\ "destroy" \in ClosePoints
        /\ "blocked" \in ClosePoints /\ "returned" \in ClosePoints
    BY <1>a DEF TypeOK, ClosePoints
  <1>1. CASE UNCHANGED allVars
    BY <1>1, <1>a, <1>b DEF allVars, vars, PInv, PTypeOK, ProgressInv, LifecycleInv
  <1>2. ASSUME NEW t \in Threads, CtxStep(t)
        PROVE  PInv'
    <2>1. /\ UNCHANGED modVars
          /\ mapped' => mapped
          /\ module' => module
          /\ \A u \in Threads : op'[u] \in {op[u], "none"}
      BY <1>2, <1>a, StepKeepsClosed
    <2> QED
      BY <2>1, <1>a, <1>b DEF PInv, PTypeOK, ProgressInv, LifecycleInv
  <1>3. ASSUME NEW t \in Threads, PLock(t)
        PROVE  PInv'
    BY <1>3, <1>a, <1>b DEF PLock, LockAnnounce, PInv, PTypeOK, ProgressInv, LifecycleInv
  <1>4. ASSUME NEW t \in Threads,
               OpenInitialize(t) \/ OpenDestroy(t) \/ Operation(t)
        PROVE  PInv'
    <2>1. PICK o \in Ops : op' = [op EXCEPT ![t] = o] /\ o # "Finalize"
                           /\ (o = "Initialize" => phase = "new" /\ phase' = "opening")
      BY <1>4 DEF OpenInitialize, OpenDestroy, Operation, Invoke, Ops, ReadOps, WriteOps, WaitOps
    <2>2. /\ UNCHANGED <<once, closing, closeErr, mapped, module>>
          /\ phase' \in {"opening", "undoing", "open"}
          /\ phase' = phase \/ (phase # "open" /\ phase' # "open")
          /\ phase = "opening" => phase' = "opening"
      BY <1>4 DEF OpenInitialize, OpenDestroy, Operation, Invoke
    <2>3. ProgressInv'
      BY <2>2, <1>a DEF ProgressInv
    <2>4. LifecycleInv'
      BY <2>1, <2>2, <1>a, <1>t DEF LifecycleInv
    <2> QED
      BY <2>2, <2>3, <2>4, <1>a, <1>b DEF PInv, PTypeOK
  <1>5. ASSUME NEW t \in Threads, OpenInitialized(t) \/ OpenDestroyed(t)
        PROVE  PInv'
    <2>1. /\ UNCHANGED <<once, closing, closeErr, mapped>>
          /\ module' => module
          /\ op' = [op EXCEPT ![t] = "none"]
          /\ phase # "open" /\ phase' \in {"open", "undo", "failed"}
      <3>1. CASE OpenInitialized(t)
        BY <3>1, Zenon DEF OpenInitialized, InitializeReturn
      <3>2. CASE OpenDestroyed(t)
        BY <3>2, Zenon DEF OpenDestroyed, DestroyReturn
      <3> QED
        BY <1>5, <3>1, <3>2
    <2>2. phase = "opening" => op[t] = "Initialize"
      BY <1>5 DEF OpenInitialized, OpenDestroyed, InitializeReturn
    <2>3. ProgressInv'
      BY <2>1, <1>a DEF ProgressInv
    <2>4. LifecycleInv'
      BY <2>1, <2>2, <1>a, <1>t DEF LifecycleInv
    <2> QED
      BY <2>1, <2>3, <2>4, <1>a, <1>b DEF PInv, PTypeOK
  <1>6. ASSUME NEW t \in Threads, CloseFirst(t)
        PROVE  PInv'
    <2> USE DEF CloseFirst, Invoke
    <2>1. ProgressInv'
      BY <1>6, <1>a, <1>t DEF ProgressInv
    <2>2. LifecycleInv'
      BY <1>6, <1>a, <1>t DEF ProgressInv, LifecycleInv
    <2> QED
      BY <1>6, <2>1, <2>2, <1>a, <1>b, <1>t DEF PInv, PTypeOK
  <1>7. ASSUME NEW t \in Threads, CloseAgain(t) \/ CloseReturn(t)
        PROVE  PInv'
    <2> USE DEF CloseAgain, CloseReturn, Free
    <2>1. UNCHANGED <<vars, phase, once, closeErr>>
      BY <1>7
    <2>2. \/ once # "fresh" /\ closing' = [closing EXCEPT ![t] = "blocked"] /\ pc[t] = "idle"
              /\ closing[t] \in {"no", "returned"}
          \/ once = "done" /\ closing' = [closing EXCEPT ![t] = "returned"] /\ closing[t] = "blocked"
      BY <1>7
    <2>3. ProgressInv'
      BY <2>1, <2>2, <1>a, <1>t DEF vars, ProgressInv
    <2>4. LifecycleInv'
      BY <2>1, <2>2, <1>a, <1>t DEF vars, LifecycleInv
    <2> QED
      BY <2>1, <2>2, <2>3, <2>4, <1>a, <1>b, <1>t DEF PInv, PTypeOK
  <1>8. ASSUME NEW t \in Threads, CloseFinalized(t)
        PROVE  PInv'
    <2>1. /\ UNCHANGED <<phase, once, closing, mapped, module>>
          /\ closing[t] = "finalize" /\ op[t] = "Finalize"
          /\ op' = [op EXCEPT ![t] = "none"]
          /\ closeErr' \in {"nil", "err"}
      BY <1>8 DEF CloseFinalized, FinalizeReturn
    <2>2. ProgressInv'
      BY <2>1, <1>a DEF ProgressInv
    <2>3. LifecycleInv'
      BY <2>1, <1>a, <1>t DEF LifecycleInv
    <2> QED
      BY <2>1, <2>2, <2>3, <1>a, <1>b DEF PInv, PTypeOK
  <1>9. ASSUME NEW t \in Threads, CloseDestroy(t)
        PROVE  PInv'
    <2> USE DEF CloseDestroy, Invoke
    <2>1. ProgressInv'
      BY <1>9, <1>a, <1>t DEF ProgressInv
    <2>2. LifecycleInv'
      BY <1>9, <1>a, <1>t DEF LifecycleInv
    <2> QED
      BY <1>9, <2>1, <2>2, <1>a, <1>b, <1>t DEF PInv, PTypeOK
  <1>10. ASSUME NEW t \in Threads, CloseDestroyed(t)
         PROVE  PInv'
    <2>1. /\ UNCHANGED <<phase, closeErr, mapped>>
          /\ closing[t] = "destroy" /\ pc[t] = "unloaded" /\ ~module'
          /\ once' = "done"
          /\ closing' = [closing EXCEPT ![t] = "returned"]
          /\ op' = [op EXCEPT ![t] = "none"]
      BY <1>10 DEF CloseDestroyed, DestroyReturn
    <2>2. ~mapped /\ closeErr # "none" /\ once # "fresh" /\ phase = "open"
      BY <2>1, <1>a DEF LibraryInv, ProgressInv
    <2>3. ProgressInv'
      BY <2>1, <2>2, <1>a, <1>t DEF ProgressInv
    <2>4. LifecycleInv'
      BY <2>1, <2>2, <1>a, <1>t DEF LifecycleInv
    <2> QED
      BY <2>1, <2>3, <2>4, <1>a, <1>b, <1>t DEF PInv, PTypeOK
  <1> QED
    BY <1>1, <1>2, <1>3, <1>4, <1>5, <1>6, <1>7, <1>8, <1>9, <1>10
       DEF PNext, Begin, PStep

LEMMA ModuleInvariant == PSpec => [](IInv /\ PInv)
  <1>1. PSpec => []IInv
    BY ModuleIsCtxCaller, CtxInvariant, PTL DEF IInv
  <1>2. PInit => PInv
    BY InitPInv
  <1>3. IInv /\ PInv /\ [PNext]_allVars => PInv'
    BY NextPInv
  <1> QED
    BY <1>1, <1>2, <1>3, PTL DEF PSpec

(***************************************************************************)
(* Whatever the number of concurrent callers, Close returns to none of     *)
(* them before the library is unloaded and the error they all get is       *)
(* settled (p11/module.go Close).                                          *)
(***************************************************************************)
THEOREM CloseUnloads == PSpec => []CloseMeansUnloaded
  <1>1. PInv => CloseMeansUnloaded
    BY DEF PInv, ProgressInv, CloseMeansUnloaded
  <1> QED
    BY <1>1, ModuleInvariant, PTL

(***************************************************************************)
(* The error of the first Close is the error of every Close, and neither   *)
(* C_Finalize nor C_Initialize is entered again after it (p11/module.go    *)
(* Close: sync.Once).                                                      *)
(***************************************************************************)
THEOREM CloseErrIsSettled == PSpec => CloseErrSettled
  <1> DEFINE A == /\ closeErr # "none" => closeErr' = closeErr
                  /\ closeErr # "none" => \A t \in Threads :
                         ~(pc[t] # "lifecycle" /\ pc'[t] = "lifecycle")
  <1>1. IInv /\ PInv /\ [PNext]_allVars => [A]_allVars
    <2> USE DEF modVars, lockVars, ctxVars, libVars, Goto, Return, UnlockReturn, TypeOK
    <2> SUFFICES ASSUME IInv, PInv, [PNext]_allVars, closeErr # "none"
                 PROVE  /\ closeErr' = closeErr
                        /\ \A u \in Threads : pc'[u] = "lifecycle" => pc[u] = "lifecycle"
      OBVIOUS
    <2>a. TypeOK /\ \A t \in Threads : op[t] \notin {"Initialize", "Finalize"}
      BY DEF PInv, PTypeOK, ProgressInv, LifecycleInv
    <2>1. CASE UNCHANGED allVars
      BY <2>1 DEF allVars, vars
    <2>2. ASSUME NEW t \in Threads, Begin(t) \/ PLock(t) \/ CloseDestroy(t) \/ CloseReturn(t)
          PROVE  A
      BY <2>2, <2>a DEF Begin, OpenInitialize, OpenDestroy, Operation, CloseFirst,
         CloseAgain, PLock, LockAnnounce, CloseDestroy, CloseReturn, Invoke, vars
    <2>3. ASSUME NEW t \in Threads, CtxStep(t)
          PROVE  A
      <3>1. CASE RLock(t) \/ LockAcquire(t) \/ GrabClosed(t) \/ GrabCall(t) \/ CallReturn(t)
        BY <2>3, <3>1, <2>a DEF CtxStep, RLock, LockAcquire, GrabClosed, GrabCall, CallReturn
      <3>2. CASE LifecycleEnter(t) \/ DestroyDrain(t) \/ DestroyUnload(t)
        BY <2>3, <3>2, <2>a DEF CtxStep, LifecycleEnter, DestroyDrain, DestroyUnload
      <3> QED
        BY <2>3, <3>1, <3>2 DEF CtxStep
    <2>4. ASSUME NEW t \in Threads,
                 \/ OpenInitialized(t) \/ OpenDestroyed(t)
                 \/ CloseFinalized(t) \/ CloseDestroyed(t)
          PROVE  A
      BY <2>4, <2>a DEF OpenInitialized, OpenDestroyed, CloseFinalized, CloseDestroyed,
         InitializeReturn, FinalizeReturn, DestroyReturn
    <2> QED
      BY <2>1, <2>2, <2>3, <2>4 DEF PNext, PStep
  <1> QED
    BY <1>1, ModuleInvariant, PTL DEF PSpec, CloseErrSettled
=============================================================================
