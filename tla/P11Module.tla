----------------------------- MODULE P11Module -----------------------------
(***************************************************************************)
(* p11.Module on top of cryptoki.Ctx: OpenModule loads and initialises,    *)
(* Close finalises and unloads exactly once (sync.Once) however many       *)
(* goroutines call it.  p11 offers no slot-event wait and no second        *)
(* Initialize, so its goroutines only ever run calls under the read lock,  *)
(* and Close.                                                              *)
(***************************************************************************)
EXTENDS Ctx

VARIABLES
    phase,       \* how far OpenModule is, and how it ended
    once,        \* closeOnce: "fresh", "running", "done"
    closing,     \* closing[t]: where goroutine t is in Close
    closeErr     \* m.closeErr: "none" until Finalize has returned

modVars == <<phase, once, closing, closeErr>>
allVars == <<vars, modVars>>

ClosePoints == {"no", "finalize", "destroy", "blocked", "returned"}

\* A goroutine that is in no method of the Ctx and not in Close.
Free(t) == pc[t] = "idle" /\ closing[t] \in {"no", "returned"}

-----------------------------------------------------------------------------
\* New has succeeded and OpenModule calls Initialize.
PInit ==
    /\ Init
    /\ phase = "new"
    /\ once = "fresh"
    /\ closing = [t \in Threads |-> "no"]
    /\ closeErr = "none"

OpenInitialize(t) ==
    /\ phase = "new"
    /\ Invoke(t, "Initialize")
    /\ phase' = "opening"
    /\ UNCHANGED <<once, closing, closeErr>>

\* Mutant: the failed OpenModule returns without Destroy.
OpenInitialized_NoDestroy(t) ==
    /\ phase = "opening"
    /\ InitializeReturn(t)
    /\ phase' = IF initialized' # initialized THEN "open" ELSE "failed"
    /\ UNCHANGED <<once, closing, closeErr>>

\* C_Initialize returned CKR_OK exactly when it made the module initialised;
\* OpenModule returns the Module, or calls Destroy and returns the error.
OpenInitialized(t) ==
    /\ phase = "opening"
    /\ InitializeReturn(t)
    /\ phase' = IF initialized' # initialized THEN "open" ELSE "undo"
    /\ UNCHANGED <<once, closing, closeErr>>

OpenDestroy(t) ==
    /\ phase = "undo"
    /\ \A u \in Threads : pc[u] = "idle"
    /\ Invoke(t, "Destroy")
    /\ phase' = "undoing"
    /\ UNCHANGED <<once, closing, closeErr>>

OpenDestroyed(t) ==
    /\ phase = "undoing"
    /\ DestroyReturn(t)
    /\ phase' = "failed"
    /\ UNCHANGED <<once, closing, closeErr>>

-----------------------------------------------------------------------------
\* Info, Slots, and every operation of a slot, session, object or key.
Operation(t) ==
    /\ phase = "open"
    /\ Free(t)
    /\ \E o \in {"Call", "SupportsV32"} : Invoke(t, o)
    /\ UNCHANGED modVars

\* Mutant: Close is not guarded by closeOnce.
CloseFirst_NoOnce(t) ==
    /\ phase = "open"
    /\ Free(t)
    /\ Invoke(t, "Finalize")
    /\ once' = "running"
    /\ closing' = [closing EXCEPT ![t] = "finalize"]
    /\ UNCHANGED <<phase, closeErr>>

\* Close: the first caller runs the function, the others wait for it.
CloseFirst(t) ==
    /\ phase = "open"
    /\ Free(t)
    /\ once = "fresh"
    /\ Invoke(t, "Finalize")
    /\ once' = "running"
    /\ closing' = [closing EXCEPT ![t] = "finalize"]
    /\ UNCHANGED <<phase, closeErr>>

CloseAgain(t) ==
    /\ phase = "open"
    /\ Free(t)
    /\ once # "fresh"
    /\ closing' = [closing EXCEPT ![t] = "blocked"]
    /\ UNCHANGED <<vars, phase, once, closeErr>>

\* m.closeErr = m.ctx.Finalize()
CloseFinalized(t) ==
    /\ closing[t] = "finalize"
    /\ FinalizeReturn(t)
    /\ closeErr' = IF initialized' # initialized THEN "nil" ELSE "err"
    /\ UNCHANGED <<phase, once, closing>>

\* Mutant: Close gives up when C_Finalize fails.
CloseDestroy_IfFinalized(t) ==
    /\ closing[t] = "finalize"
    /\ closeErr = "nil"
    /\ Invoke(t, "Destroy")
    /\ closing' = [closing EXCEPT ![t] = "destroy"]
    /\ UNCHANGED <<phase, once, closeErr>>

\* m.ctx.Destroy(), whatever Finalize returned.
CloseDestroy(t) ==
    /\ closing[t] = "finalize"
    /\ closeErr # "none"
    /\ Invoke(t, "Destroy")
    /\ closing' = [closing EXCEPT ![t] = "destroy"]
    /\ UNCHANGED <<phase, once, closeErr>>

CloseDestroyed(t) ==
    /\ closing[t] = "destroy"
    /\ DestroyReturn(t)
    /\ once' = "done"
    /\ closing' = [closing EXCEPT ![t] = "returned"]
    /\ UNCHANGED <<phase, closeErr>>

\* Mutant: a flag instead of sync.Once: later callers do not wait.
CloseReturn_NoWait(t) ==
    /\ closing[t] = "blocked"
    /\ closing' = [closing EXCEPT ![t] = "returned"]
    /\ UNCHANGED <<vars, phase, once, closeErr>>

\* once.Do returns to a caller that did not run the function.
CloseReturn(t) ==
    /\ closing[t] = "blocked"
    /\ once = "done"
    /\ closing' = [closing EXCEPT ![t] = "returned"]
    /\ UNCHANGED <<vars, phase, once, closeErr>>

-----------------------------------------------------------------------------
\* The steps of the Ctx between the call and the return of a method.
CtxStep(t) ==
    /\ \/ RLock(t) \/ LockAcquire(t)
       \/ GrabClosed(t) \/ GrabCall(t) \/ CallReturn(t)
       \/ LifecycleEnter(t) \/ DestroyDrain(t) \/ DestroyUnload(t)
    /\ UNCHANGED modVars

PStep(t) ==
    \/ CtxStep(t)
    \/ OpenInitialized(t) \/ OpenDestroyed(t)
    \/ CloseFinalized(t) \/ CloseDestroy(t) \/ CloseDestroyed(t) \/ CloseReturn(t)

PLock(t) == LockAnnounce(t) /\ UNCHANGED modVars

Begin(t) ==
    \/ OpenInitialize(t) \/ OpenDestroy(t)
    \/ Operation(t) \/ CloseFirst(t) \/ CloseAgain(t)

PNext == \E t \in Threads : Begin(t) \/ PLock(t) \/ PStep(t)

(***************************************************************************)
(* The fairness of Ctx.  OpenModule's Destroy follows its failed           *)
(* Initialize in the same goroutine.                                       *)
(***************************************************************************)
PSpec ==
    /\ PInit /\ [][PNext]_allVars
    /\ \A t \in Threads : WF_allVars(PStep(t)) /\ SF_allVars(PLock(t))
    /\ WF_allVars(\E t \in Threads : OpenDestroy(t))

-----------------------------------------------------------------------------
PTypeOK ==
    /\ TypeOK
    /\ phase \in {"new", "opening", "undo", "undoing", "open", "failed"}
    /\ once \in {"fresh", "running", "done"}
    /\ closing \in [Threads -> ClosePoints]
    /\ closeErr \in {"none", "nil", "err"}

(***************************************************************************)
(* Close returns to no caller, the first or a concurrent one, before the   *)
(* library is unloaded and the error every caller gets is settled          *)
(* (p11/module.go Close: "every call returns that first call's error").    *)
(***************************************************************************)
CloseMeansUnloaded ==
    /\ PTypeOK
    /\ \A t \in Threads : closing[t] = "returned" => ~mapped /\ ~module /\ closeErr # "none"

(***************************************************************************)
(* The error Close reports never changes once Finalize has returned, and   *)
(* C_Finalize is never entered again ("only the first call runs C_Finalize *)
(* and Destroy").                                                          *)
(***************************************************************************)
CloseErrSettled ==
    [][/\ closeErr # "none" => closeErr' = closeErr
       /\ closeErr # "none" => \A t \in Threads :
              ~(pc[t] # "lifecycle" /\ pc'[t] = "lifecycle")]_allVars

(***************************************************************************)
(* OpenModule ends with an open Module, or with the library unloaded again *)
(* when C_Initialize fails - because somebody else had initialised the     *)
(* module, too (p11/module.go OpenModule).                                 *)
(***************************************************************************)
OpenSettles ==
    (phase = "opening") ~> (phase = "open" \/ (phase = "failed" /\ ~mapped))

(***************************************************************************)
(* Every Close returns, though calls are in flight, others keep arriving,  *)
(* and C_Finalize may fail (p11/module.go Close, binding.go Destroy).      *)
(***************************************************************************)
CloseReturns ==
    \A t \in Threads : (closing[t] \notin {"no", "returned"}) ~> (closing[t] = "returned")
=============================================================================
