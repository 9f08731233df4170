---------------------------- MODULE ModuleAccess ----------------------------
(***************************************************************************)
(* What a Ctx promises about the native library behind it, with no lock,   *)
(* no counter and no method in sight:                                      *)
(*   - goroutines enter and leave the library while it is loaded;          *)
(*   - a lifecycle call (C_Initialize, C_Finalize) shares the library with *)
(*     slot-event waits only;                                              *)
(*   - the library is unloaded once, when nobody is inside, and nobody     *)
(*     enters it again.                                                    *)
(* Ctx implements this specification (Ctx!Access).                         *)
(***************************************************************************)
CONSTANT Threads

VARIABLES
    loaded,    \* the library is mapped
    at         \* at[t]: what goroutine t does in the library

Kinds == {"call", "wait", "lifecycle"}

\* The calls that may be in the library while another of kind k is.
Compatible(k) ==
    {"out", "wait"} \cup (IF k = "lifecycle" THEN {} ELSE {"call"})
                    \cup (IF k = "wait" THEN {"lifecycle"} ELSE {})

Init ==
    /\ loaded = TRUE
    /\ at = [t \in Threads |-> "out"]

Enter(t, k) ==
    /\ loaded
    /\ at[t] = "out"
    /\ \A u \in Threads \ {t} : at[u] \in Compatible(k)
    /\ at' = [at EXCEPT ![t] = k]
    /\ UNCHANGED loaded

Leave(t) ==
    /\ at[t] # "out"
    /\ at' = [at EXCEPT ![t] = "out"]
    /\ UNCHANGED loaded

Unload ==
    /\ loaded
    /\ \A t \in Threads : at[t] = "out"
    /\ loaded' = FALSE
    /\ UNCHANGED at

Next ==
    \/ \E t \in Threads : Leave(t) \/ \E k \in Kinds : Enter(t, k)
    \/ Unload

Spec == Init /\ [][Next]_<<loaded, at>>
=============================================================================
