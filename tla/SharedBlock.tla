---------------------------- MODULE SharedBlock ----------------------------
(***************************************************************************)
(* What GCMParams promises about its native block, with no lock, no        *)
(* counter and no pending flag in sight:                                   *)
(*   - users take the block while it exists;                               *)
(*   - anyone may ask for it to be freed, again and again;                 *)
(*   - it is freed once, in the step that finds it both wanted back and    *)
(*     without users: at once if nobody uses it, else as the last user     *)
(*     leaves.  Others may still join until then.                          *)
(* GCMParams implements this specification (GCMParams!Shared).             *)
(***************************************************************************)
LOCAL INSTANCE Naturals

CONSTANT Threads

VARIABLES
    users,     \* the goroutines that use the block
    wanted,    \* someone has asked for it to be freed
    frees      \* how often it has been freed

Init ==
    /\ users = {}
    /\ wanted = FALSE
    /\ frees = 0

Take(t) ==
    /\ frees = 0
    /\ t \notin users
    /\ users' = users \cup {t}
    /\ UNCHANGED <<wanted, frees>>

Leave(t) ==
    /\ t \in users
    /\ users' = users \ {t}
    /\ frees' = IF wanted /\ users' = {} THEN frees + 1 ELSE frees
    /\ UNCHANGED wanted

Request ==
    /\ wanted' = TRUE
    /\ frees' = IF users = {} /\ frees = 0 THEN 1 ELSE frees
    /\ UNCHANGED users

Next == Request \/ \E t \in Threads : Take(t) \/ Leave(t)

Spec == Init /\ [][Next]_<<users, wanted, frees>>
=============================================================================
