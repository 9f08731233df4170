-------------------------------- MODULE Ctx --------------------------------
(***************************************************************************)
(* cryptoki.Ctx: one loaded PKCS #11 module shared by many goroutines.     *)
(*                                                                         *)
(* A Ctx is a pointer to the loaded module, a sync.RWMutex that orders     *)
(* calls into the module against the lifecycle operations Initialize,      *)
(* Finalize and Destroy, and a sync.WaitGroup that counts the slot-event   *)
(* waits, which run in the module WITHOUT the lock.                        *)
(*                                                                         *)
(* Threads are the goroutines of the application.  Each runs one method of *)
(* the Ctx at a time, in any order: the callers are not disciplined.       *)
(***************************************************************************)
EXTENDS Naturals, FiniteSets

CONSTANTS
    Threads,      \* the goroutines that use the Ctx
    NoThread      \* "nobody": the writer mutex is free

ASSUME ThreadsAssumption == IsFiniteSet(Threads) /\ NoThread \notin Threads

VARIABLES
    pc,           \* pc[t]: the point of its method a goroutine has reached
    op,           \* op[t]: the method it runs
    readers,      \* mu: the goroutines that hold the read lock
    writer,       \* mu: the goroutine that holds, or waits for the readers to
                  \*     leave and then holds, the write lock
    module,       \* c.module # nil
    waiters,      \* c.waiters, the counter of the WaitGroup
    mapped,       \* the shared library is mapped in the process
    initialized   \* the library is between C_Initialize and C_Finalize

lockVars == <<readers, writer>>
ctxVars  == <<module, waiters>>
libVars  == <<mapped, initialized>>
vars     == <<pc, op, lockVars, ctxVars, libVars>>

-----------------------------------------------------------------------------
(* Methods and control points.                                             *)

WaitOps  == {"WaitForSlotEvent", "PollSlotEvent"}   \* CKF_DONT_BLOCK: Poll
ReadOps  == WaitOps \cup {"Call", "SupportsV32"}
WriteOps == {"Initialize", "Finalize", "Destroy"}
Ops      == ReadOps \cup WriteOps

\* Holding the read lock: before the nil check, in the module, and between
\* waiters.Add and release in WaitForSlotEvent.
ReadPcs == {"read", "call", "added"}

\* After waiters.Add, until waiters.Done.
WaitPcs == {"added", "released", "wait", "parked", "woken"}

\* Holding the write lock: before the nil check, in C_Initialize or
\* C_Finalize, in waiters.Wait, and after ck_unload.
HeldPcs  == {"write", "lifecycle", "drain", "unloaded"}
WritePcs == HeldPcs \cup {"pending"}

Pcs == {"idle", "rlock", "rblocked", "lock"} \cup ReadPcs \cup WaitPcs \cup WritePcs

\* Executing code or reading memory of the loaded library.
LibPcs == {"call", "wait", "parked", "lifecycle"}

Inside(t) == pc[t] \in LibPcs

Goto(t, from, to) == pc[t] = from /\ pc' = [pc EXCEPT ![t] = to]

-----------------------------------------------------------------------------
(* cryptoki.New has returned: the library is mapped and the pointer set.   *)
(* Another library of the process may have initialised the module already. *)

Init ==
    /\ pc = [t \in Threads |-> "idle"]
    /\ op \in [Threads -> {"none"}]
    /\ readers = {}
    /\ writer = NoThread
    /\ module = TRUE
    /\ waiters = 0
    /\ mapped = TRUE
    /\ initialized \in BOOLEAN

\* A goroutine calls a method.
Invoke(t, o) ==
    /\ Goto(t, "idle", IF o \in ReadOps THEN "rlock" ELSE "lock")
    /\ op' = [op EXCEPT ![t] = o]
    /\ UNCHANGED <<lockVars, ctxVars, libVars>>

-----------------------------------------------------------------------------
(* sync.RWMutex.  A writer announces itself before it waits for the        *)
(* readers inside to leave; a reader that arrives meanwhile queues behind  *)
(* it, and Unlock admits every queued reader before the next writer.       *)

RLock(t) ==
    /\ Goto(t, "rlock", IF writer = NoThread THEN "read" ELSE "rblocked")
    /\ readers' = IF writer = NoThread THEN readers \cup {t} ELSE readers
    /\ UNCHANGED <<op, writer, ctxVars, libVars>>

\* Lock, first half: take the mutex between writers and announce the writer.
LockAnnounce(t) ==
    /\ writer = NoThread
    /\ Goto(t, "lock", "pending")
    /\ writer' = t
    /\ UNCHANGED <<op, readers, ctxVars, libVars>>

\* Lock, second half: the last reader has left.
LockAcquire(t) ==
    /\ readers = {}
    /\ Goto(t, "pending", "write")
    /\ UNCHANGED <<op, lockVars, ctxVars, libVars>>

RUnlock(t) == readers' = readers \ {t} /\ writer' = writer

\* Unlock by t, and the return of the method t runs.
UnlockReturn(t, from) ==
    LET queued == {u \in Threads : pc[u] = "rblocked"}
    IN  /\ pc[t] = from
        /\ writer' = NoThread
        /\ readers' = readers \cup queued
        /\ pc' = [u \in Threads |-> IF u = t THEN "idle"
                                     ELSE IF u \in queued THEN "read" ELSE pc[u]]
        /\ op' = [op EXCEPT ![t] = "none"]

Return(t, from) == Goto(t, from, "idle") /\ op' = [op EXCEPT ![t] = "none"]

-----------------------------------------------------------------------------
(* Methods that run under the read lock.                                   *)

\* Mutant: the early return forgets to give up the read lock.
GrabClosed_KeepsLock(t) ==
    /\ ~module
    /\ Return(t, "read")
    /\ UNCHANGED <<lockVars, ctxVars, libVars>>

\* grab finds c.module nil: unlock and return errClosed (SupportsV32: false).
GrabClosed(t) ==
    /\ ~module
    /\ Return(t, "read")
    /\ RUnlock(t)
    /\ UNCHANGED <<ctxVars, libVars>>

\* grab succeeds: the method enters the module with the read lock held.
GrabCall(t) ==
    /\ module
    /\ op[t] \notin WaitOps
    /\ Goto(t, "read", "call")
    /\ UNCHANGED <<op, lockVars, ctxVars, libVars>>

\* The C call returns, with whatever result, and the deferred release runs.
CallReturn(t) ==
    /\ Return(t, "call")
    /\ RUnlock(t)
    /\ UNCHANGED <<ctxVars, libVars>>

-----------------------------------------------------------------------------
(* WaitForSlotEvent: registers under the read lock, then drops it.         *)

\* Mutant: the wait registers without taking the read lock first.
WaitAdd_Unlocked(t) ==
    /\ module
    /\ op[t] \in WaitOps
    /\ Goto(t, "rlock", "added")
    /\ waiters' = waiters + 1
    /\ UNCHANGED <<op, lockVars, module, libVars>>

WaitAdd(t) ==
    /\ module
    /\ op[t] \in WaitOps
    /\ Goto(t, "read", "added")
    /\ waiters' = waiters + 1
    /\ UNCHANGED <<op, lockVars, module, libVars>>

\* Mutant: the wait keeps the read lock while it is in the module.
WaitRelease_Holds(t) ==
    /\ Goto(t, "added", "released")
    /\ UNCHANGED <<op, lockVars, ctxVars, libVars>>

WaitRelease(t) ==
    /\ Goto(t, "added", "released")
    /\ RUnlock(t)
    /\ UNCHANGED <<op, ctxVars, libVars>>

WaitEnter(t) ==
    /\ Goto(t, "released", "wait")
    /\ UNCHANGED <<op, lockVars, ctxVars, libVars>>

\* C_WaitForSlotEvent: parks when it may block and the module is initialised,
\* and returns at once otherwise (or when an event is pending already).
WaitPark(t) ==
    /\ initialized
    /\ op[t] = "WaitForSlotEvent"
    /\ Goto(t, "wait", "parked")
    /\ UNCHANGED <<op, lockVars, ctxVars, libVars>>

WaitAnswer(t) ==
    /\ Goto(t, "wait", "woken")
    /\ UNCHANGED <<op, lockVars, ctxVars, libVars>>

\* A slot event reaches a parked wait.
SlotEvent(t) ==
    /\ initialized
    /\ Goto(t, "parked", "woken")
    /\ UNCHANGED <<op, lockVars, ctxVars, libVars>>

\* A parked wait finds the module finalised: CKR_CRYPTOKI_NOT_INITIALIZED.
WaitWoken(t) ==
    /\ ~initialized
    /\ Goto(t, "parked", "woken")
    /\ UNCHANGED <<op, lockVars, ctxVars, libVars>>

\* Mutant: the wait takes the read lock again before Done.
WaitDone_Relocks(t) ==
    /\ writer = NoThread
    /\ Return(t, "woken")
    /\ waiters' = waiters - 1
    /\ UNCHANGED <<lockVars, module, libVars>>

WaitDone(t) ==
    /\ Return(t, "woken")
    /\ waiters' = waiters - 1
    /\ UNCHANGED <<lockVars, module, libVars>>

-----------------------------------------------------------------------------
(* Methods that run under the write lock.                                  *)

\* Initialize, Finalize (errClosed) and Destroy find c.module nil.
WriteClosed(t) ==
    /\ ~module
    /\ UnlockReturn(t, "write")
    /\ UNCHANGED <<ctxVars, libVars>>

\* Mutant: Initialize and Finalize do not look whether the Ctx was destroyed.
LifecycleEnter_NoNilCheck(t) ==
    /\ op[t] \in {"Initialize", "Finalize"}
    /\ Goto(t, "write", "lifecycle")
    /\ UNCHANGED <<op, lockVars, ctxVars, libVars>>

LifecycleEnter(t) ==
    /\ module
    /\ op[t] \in {"Initialize", "Finalize"}
    /\ Goto(t, "write", "lifecycle")
    /\ UNCHANGED <<op, lockVars, ctxVars, libVars>>

\* C_Initialize succeeds, or fails (CKR_CRYPTOKI_ALREADY_INITIALIZED among the
\* reasons) and changes nothing.
InitializeReturn(t) ==
    /\ op[t] = "Initialize"
    /\ initialized' \in {TRUE, initialized}
    /\ UnlockReturn(t, "lifecycle")
    /\ UNCHANGED <<ctxVars, mapped>>

\* C_Finalize succeeds, or fails and leaves the module as it was.
FinalizeReturn(t) ==
    /\ op[t] = "Finalize"
    /\ initialized' \in {FALSE, initialized}
    /\ UnlockReturn(t, "lifecycle")
    /\ UNCHANGED <<ctxVars, mapped>>

\* Destroy reaches waiters.Wait().
DestroyDrain(t) ==
    /\ module
    /\ op[t] = "Destroy"
    /\ Goto(t, "write", "drain")
    /\ UNCHANGED <<op, lockVars, ctxVars, libVars>>

\* Mutant: Destroy does not wait for the slot-event waits.
DestroyUnload_NoWait(t) ==
    /\ Goto(t, "drain", "unloaded")
    /\ mapped' = FALSE
    /\ initialized' = FALSE
    /\ UNCHANGED <<op, lockVars, ctxVars>>

\* waiters.Wait() returns and ck_unload closes the library, taking its state
\* with it.
DestroyUnload(t) ==
    /\ waiters = 0
    /\ Goto(t, "drain", "unloaded")
    /\ mapped' = FALSE
    /\ initialized' = FALSE
    /\ UNCHANGED <<op, lockVars, ctxVars>>

\* c.module = nil, and the deferred Unlock.
DestroyReturn(t) ==
    /\ module' = FALSE
    /\ UnlockReturn(t, "unloaded")
    /\ UNCHANGED <<waiters, libVars>>

-----------------------------------------------------------------------------
\* The steps a goroutine takes by itself once it has called a method.  A
\* library call returns; only the slot event is up to the world outside.
Step(t) ==
    \/ RLock(t) \/ LockAcquire(t)
    \/ GrabClosed(t) \/ GrabCall(t) \/ CallReturn(t)
    \/ WaitAdd(t) \/ WaitRelease(t) \/ WaitEnter(t) \/ WaitPark(t)
    \/ WaitAnswer(t) \/ WaitWoken(t) \/ WaitDone(t)
    \/ WriteClosed(t) \/ LifecycleEnter(t)
    \/ InitializeReturn(t) \/ FinalizeReturn(t)
    \/ DestroyDrain(t) \/ DestroyUnload(t) \/ DestroyReturn(t)

Next ==
    \E t \in Threads :
        \/ \E o \in Ops : Invoke(t, o)
        \/ LockAnnounce(t)
        \/ Step(t)
        \/ SlotEvent(t)

Spec == Init /\ [][Next]_vars

(***************************************************************************)
(* Fairness.  The Go scheduler runs every goroutine that can run, and the  *)
(* module's functions return (a parked wait excepted), so Step is weakly   *)
(* fair.  The mutex between writers is a sync.Mutex, whose starvation mode *)
(* hands it to the longest waiting goroutine: taking it is strongly fair.  *)
(***************************************************************************)
Fairness == \A t \in Threads : WF_vars(Step(t)) /\ SF_vars(LockAnnounce(t))

FairSpec == Spec /\ Fairness

-----------------------------------------------------------------------------
(* Properties.                                                             *)

TypeOK ==
    /\ pc \in [Threads -> Pcs]
    /\ op \in [Threads -> Ops \cup {"none"}]
    /\ readers \subseteq Threads
    /\ writer \in Threads \cup {NoThread}
    /\ module \in BOOLEAN
    /\ waiters \in Nat
    /\ mapped \in BOOLEAN
    /\ initialized \in BOOLEAN

(***************************************************************************)
(* The inductive invariant behind the safety properties.  It is a run's    *)
(* invariant as well: TLC checks it before it is proved.                   *)
(***************************************************************************)
LockInv ==
    /\ readers = {t \in Threads : pc[t] \in ReadPcs}
    /\ \A t \in Threads : writer = t <=> pc[t] \in WritePcs
    /\ \A t \in Threads : pc[t] \in HeldPcs => readers = {}

WaitersInv == waiters = Cardinality({t \in Threads : pc[t] \in WaitPcs})

LibraryInv ==
    /\ module /\ (\A t \in Threads : pc[t] # "unloaded") => mapped
    /\ \A t \in Threads : pc[t] = "unloaded" => ~mapped
    /\ \A t \in Threads :
           pc[t] \in WaitPcs \cup {"call", "lifecycle", "drain"} => mapped

(***************************************************************************)
(* The counter, the lock and the library agree with where the goroutines   *)
(* are: waiters is the number of registered waits (so it never goes        *)
(* negative and Wait returns exactly when the last one is done), a holder  *)
(* of the write lock is alone, and the library stays mapped under every    *)
(* registered wait (binding.go grab, Destroy; slot.go WaitForSlotEvent).   *)
(***************************************************************************)
CtxInv == TypeOK /\ LockInv /\ WaitersInv /\ LibraryInv

(***************************************************************************)
(* No goroutine executes in the library, or is about to use the module     *)
(* pointer it read, once Destroy has unloaded it - although a slot-event   *)
(* wait keeps the pointer after it has given up the lock (slot.go          *)
(* WaitForSlotEvent, binding.go Destroy).                                  *)
(***************************************************************************)
NoUseAfterUnload ==
    \A t \in Threads : Inside(t) \/ pc[t] \in {"added", "released"} => mapped

(***************************************************************************)
(* While C_Initialize, C_Finalize or ck_unload runs, the only other        *)
(* goroutines in the module are slot-event waits: no other call and no     *)
(* other lifecycle call overlaps it (lifecycle.go InitializeWithFlags and  *)
(* Finalize, binding.go grab).                                             *)
(***************************************************************************)
LifecycleExclusive ==
    \A t \in Threads : pc[t] \in {"lifecycle", "unloaded"} =>
        \A u \in Threads \ {t} : pc[u] \notin {"call", "lifecycle", "unloaded"}

(***************************************************************************)
(* The rule of sync.WaitGroup that WaitForSlotEvent's comment relies on:   *)
(* "ordering the Add before any Destroy's Wait".  No goroutine adds to the *)
(* counter while Destroy waits on it, so Wait cannot miss one.             *)
(***************************************************************************)
NoAddDuringWait ==
    [][waiters' > waiters => \A t \in Threads : pc[t] # "drain"]_vars

(***************************************************************************)
(* A Destroy that finds the module finalised returns: the waits it waits   *)
(* for find the module finalised too, and nobody can initialise it again   *)
(* behind the write lock that Destroy holds (binding.go Destroy).          *)
(***************************************************************************)
DestroyReturns ==
    \A t \in Threads : (pc[t] = "drain" /\ ~initialized) ~> pc[t] = "idle"

\* Destroy holds the write lock and waits for a wait parked in the module,
\* which is initialised and can no longer be finalised.
DestroyStuck ==
    initialized /\ \E t, u \in Threads : pc[t] = "drain" /\ pc[u] = "parked"

(***************************************************************************)
(* Every method other than a slot-event wait returns, whatever the other   *)
(* goroutines call, unless the Ctx is frozen by a Destroy that waits for a *)
(* wait parked in the module.  That is the one way to freeze it: the       *)
(* writer that is never admitted, the reader queued for ever and the lost  *)
(* wake-up are excluded (binding.go grab and Destroy, lifecycle.go).       *)
(***************************************************************************)
CallsReturn ==
    \A t \in Threads :
        (op[t] \notin WaitOps \cup {"none"}) ~> (op[t] = "none" \/ DestroyStuck)

(***************************************************************************)
(* The Ctx implements ModuleAccess: what goroutines do in the library      *)
(* follows the abstract protocol of calls, waits, lifecycle calls and one  *)
(* unload (binding.go, lifecycle.go, slot.go WaitForSlotEvent).            *)
(***************************************************************************)
At(t) ==
    IF      pc[t] \in {"call", "lifecycle"} THEN pc[t]
    ELSE IF pc[t] \in {"wait", "parked"}    THEN "wait"
    ELSE                                         "out"

at == [t \in Threads |-> At(t)]

Access == INSTANCE ModuleAccess WITH loaded <- mapped

AccessSpec == Access!Spec

(***************************************************************************)
(* lifecycle.go, on Finalize: "A write-lock is held so that Finalize       *)
(* cannot race a concurrent operation".                                    *)
(***************************************************************************)
FinalizeRacesNoOperation ==
    \A t, u \in Threads :
        t # u /\ pc[t] = "lifecycle" /\ op[t] = "Finalize" =>
            ~(pc[u] = "call" \/ (Inside(u) /\ op[u] = "PollSlotEvent"))
=============================================================================
