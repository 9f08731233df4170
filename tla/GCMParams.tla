----------------------------- MODULE GCMParams -----------------------------
(***************************************************************************)
(* cryptoki.GCMParams: one native CK_GCM_PARAMS block with its IV and AAD  *)
(* buffers, shared by the goroutines that use it in EncryptInit or         *)
(* DecryptInit and by whoever calls Free.                                  *)
(*                                                                         *)
(* Every method body runs under p.mu and is one action here, except build, *)
(* which reads p.gp for its caller after it has given up p.mu.  A          *)
(* goroutine's operation is: build, the C Init call (the module reads the  *)
(* block), build's cleanup, and later the C Encrypt/Decrypt call, in which *)
(* a token that generates the nonce writes it back into the block.         *)
(***************************************************************************)
EXTENDS Naturals, FiniteSets

CONSTANT Threads   \* the goroutines that encrypt or decrypt with the block

ASSUME ThreadsFinite == IsFiniteSet(Threads)

VARIABLES
    gp,            \* p.gp # nil
    inUse,         \* p.inUse
    freePending,   \* p.freePending
    frees,         \* how often the block has been given to C.free
    freeCalled,    \* Free has been called
    pc,            \* pc[t]: where goroutine t is in its operation
    ptr            \* ptr[t]: the block the module was handed by t ("nil" if
                   \* p.gp was nil when build read it)

vars == <<gp, inUse, freePending, frees, freeCalled, pc, ptr>>

\* Between inUse++ and inUse--.
BuildPcs == {"built", "init", "cleanup", "failed"}

Goto(t, from, to) == pc[t] = from /\ pc' = [pc EXCEPT ![t] = to]

-----------------------------------------------------------------------------
\* NewGCMParams or NewGCMParamsHSMIV has allocated the block.
Init ==
    /\ gp = TRUE
    /\ inUse = 0
    /\ freePending = FALSE
    /\ frees = 0
    /\ freeCalled = FALSE
    /\ pc = [t \in Threads |-> "idle"]
    /\ ptr = [t \in Threads |-> "nil"]

\* Mutant: the pointer is not cleared after the free.
freeLocked_KeepsPointer ==
    /\ frees' = IF gp THEN frees + 1 ELSE frees
    /\ freePending' = IF gp THEN FALSE ELSE freePending
    /\ UNCHANGED gp

\* Scrub and free IV, AAD and block; forget them.  The caller holds p.mu.
freeLocked ==
    /\ frees' = IF gp THEN frees + 1 ELSE frees
    /\ gp' = FALSE
    /\ freePending' = IF gp THEN FALSE ELSE freePending

\* build: the part under p.mu.
Build(t) ==
    /\ gp
    /\ Goto(t, "idle", "built")
    /\ inUse' = inUse + 1
    /\ UNCHANGED <<gp, freePending, frees, freeCalled, ptr>>

\* build after the block is gone panics.
BuildPanic(t) ==
    /\ ~gp
    /\ Goto(t, "idle", "panicked")
    /\ UNCHANGED <<gp, inUse, freePending, frees, freeCalled, ptr>>

\* The return statement of build: p.gp is read without p.mu, and handed to
\* the C Init call.
BuildReturn(t) ==
    /\ Goto(t, "built", "init")
    /\ ptr' = [ptr EXCEPT ![t] = IF gp THEN "block" ELSE "nil"]
    /\ UNCHANGED <<gp, inUse, freePending, frees, freeCalled>>

\* C_EncryptInit or C_DecryptInit has read the block and succeeds or fails.
ModuleInit(t) ==
    /\ \E to \in {"cleanup", "failed"} : Goto(t, "init", to)
    /\ UNCHANGED <<gp, inUse, freePending, frees, freeCalled, ptr>>

\* Mutant: the last cleanup frees the block although nobody asked for it.
Cleanup_FreesAlways(t) ==
    /\ \/ Goto(t, "cleanup", "active")
       \/ Goto(t, "failed", "idle")
    /\ inUse' = inUse - 1
    /\ IF inUse' = 0
       THEN freeLocked
       ELSE UNCHANGED <<gp, freePending, frees>>
    /\ UNCHANGED <<freeCalled, ptr>>

\* The free func that build returned, run when the Init method returns.
Cleanup(t) ==
    /\ \/ Goto(t, "cleanup", "active")
       \/ Goto(t, "failed", "idle")
    /\ inUse' = inUse - 1
    /\ IF inUse' = 0 /\ freePending
       THEN freeLocked
       ELSE UNCHANGED <<gp, freePending, frees>>
    /\ UNCHANGED <<freeCalled, ptr>>

\* C_Encrypt or C_Decrypt ends the operation.
ModuleCrypt(t) ==
    /\ Goto(t, "active", "idle")
    /\ ptr' = [ptr EXCEPT ![t] = "nil"]
    /\ UNCHANGED <<gp, inUse, freePending, frees, freeCalled>>

\* Mutant: Free does not look for outstanding builds.
Free_Immediate ==
    /\ freeCalled' = TRUE
    /\ freeLocked
    /\ UNCHANGED <<inUse, pc, ptr>>

\* Free, called by any goroutine at any time.
Free ==
    /\ freeCalled' = TRUE
    /\ \/ ~gp /\ UNCHANGED <<gp, freePending, frees>>
       \/ gp /\ inUse > 0 /\ freePending' = TRUE /\ UNCHANGED <<gp, frees>>
       \/ gp /\ inUse = 0 /\ freeLocked
    /\ UNCHANGED <<inUse, pc, ptr>>

Operation(t) ==
    \/ Build(t) \/ BuildPanic(t) \/ BuildReturn(t) \/ ModuleInit(t)
    \/ Cleanup(t) \/ ModuleCrypt(t)

Next == Free \/ \E t \in Threads : Operation(t)

Spec == Init /\ [][Next]_vars

-----------------------------------------------------------------------------
TypeOK ==
    /\ gp \in BOOLEAN
    /\ inUse \in Nat
    /\ freePending \in BOOLEAN
    /\ frees \in Nat
    /\ freeCalled \in BOOLEAN
    /\ pc \in [Threads -> {"idle", "panicked", "active"} \cup BuildPcs]
    /\ ptr \in [Threads -> {"nil", "block"}]

\* The inductive invariant: the counter counts the outstanding builds, and
\* the block exists as long as one is outstanding.
InUseInv == inUse = Cardinality({t \in Threads : pc[t] \in BuildPcs})

BlockInv ==
    /\ frees = IF gp THEN 0 ELSE 1
    /\ inUse > 0 => gp
    /\ freePending => inUse > 0
    /\ \A t \in Threads : pc[t] \in {"init", "cleanup", "failed"} => ptr[t] = "block"

(***************************************************************************)
(* The counter and the pending flag stand for what is really outstanding:  *)
(* inUse is the number of unfinished builds, the block is freed exactly    *)
(* when p.gp becomes nil and only once, and a deferred free is never       *)
(* forgotten - it waits for a build whose cleanup will do it (params.go    *)
(* build, Free, freeLocked).                                               *)
(***************************************************************************)
GCMInv == TypeOK /\ InUseInv /\ BlockInv

(***************************************************************************)
(* While C_EncryptInit or C_DecryptInit runs, the module reads a block     *)
(* that exists: whatever Free and other users of the same parameters do,   *)
(* and although build reads p.gp without the lock (params.go, "so it       *)
(* cannot free the AAD/IV buffers while the module is still reading them").*)
(***************************************************************************)
InitReadsLiveBlock ==
    \A t \in Threads : pc[t] = "init" => ptr[t] = "block" /\ frees = 0

\* The goroutines between build and its cleanup.
Users == {t \in Threads : pc[t] \in BuildPcs}

Shared == INSTANCE SharedBlock WITH users <- Users, wanted <- freeCalled

(***************************************************************************)
(* The parameters implement SharedBlock: the block is freed in the very    *)
(* step that finds it asked for and without a build outstanding - not      *)
(* before, whoever joined late, not twice, and not left to a later Free    *)
(* that may never come (params.go build, Free, freeLocked).                *)
(***************************************************************************)
SharedSpec == Shared!Spec

(***************************************************************************)
(* CHANGELOG.md: "GCMParams.Free defers the native free while a GCM        *)
(* operation is in flight, so a caller cannot free the parameter block out *)
(* from under an active Encrypt/Decrypt".                                  *)
(***************************************************************************)
ActiveOperationKeepsBlock ==
    \A t \in Threads : pc[t] = "active" => frees = 0
=============================================================================
