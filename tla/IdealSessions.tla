--------------------------- MODULE IdealSessions ---------------------------
(***************************************************************************)
(* What p11 promises to goroutines that share Sessions, with no mutex, no  *)
(* flag and no handle in sight: a Session is a token session of its own,   *)
(*   - which one goroutine uses at a time;                                 *)
(*   - in which only the goroutine that started an operation ends it;      *)
(*   - which nobody uses any more once a Close has begun;                  *)
(*   - and which no other Session has anything to do with, whatever        *)
(*     handles the token gives out.                                        *)
(* It promises nothing after a Slot.CloseAllSessions.  The use of a        *)
(* Session by its own methods that do not check the closed flag, and the   *)
(* searches, are left out.  P11Session implements this specification       *)
(* (P11Session!Ideal).                                                     *)
(***************************************************************************)
CONSTANTS Threads, Sessions, Nobody

VARIABLES
    life,      \* life[s]: "new", "open", "closing", "gone"
    user,      \* user[s]: the goroutine that is in the module with s
    active,    \* active[s]: who started the active operation of s
    swept

vars == <<life, user, active, swept>>

Init ==
    /\ life = [s \in Sessions |-> "new"]
    /\ user = [s \in Sessions |-> Nobody]
    /\ active = [s \in Sessions |-> Nobody]
    /\ swept = FALSE

Open(s) ==
    /\ life[s] = "new"
    /\ life' = [life EXCEPT ![s] = "open"]
    /\ UNCHANGED <<user, active>>

\* To use the Session, or to close it.
Enter(t, s) ==
    /\ life[s] = "open"
    /\ user[s] = Nobody
    /\ user' = [user EXCEPT ![s] = t]
    /\ \E to \in {"open", "closing"} : life' = [life EXCEPT ![s] = to]
    /\ UNCHANGED active

Start(t, s) ==
    /\ user[s] = t
    /\ life[s] = "open"
    /\ active[s] = Nobody
    /\ active' = [active EXCEPT ![s] = t]
    /\ UNCHANGED <<life, user>>

\* The operation is finished, or another time, or never; a Close may fail.
Leave(t, s) ==
    /\ user[s] = t
    /\ user' = [user EXCEPT ![s] = Nobody]
    /\ \/ active[s] = t /\ active' = [active EXCEPT ![s] = Nobody]
       \/ UNCHANGED active
    /\ UNCHANGED life

Closed(t, s) ==
    /\ user[s] = t
    /\ life[s] = "closing"
    /\ user' = [user EXCEPT ![s] = Nobody]
    /\ life' = [life EXCEPT ![s] = "gone"]
    /\ active' = [active EXCEPT ![s] = Nobody]

Next ==
    \/ /\ \E s \in Sessions :
            \/ Open(s)
            \/ \E t \in Threads : Enter(t, s) \/ Start(t, s) \/ Leave(t, s) \/ Closed(t, s)
       /\ UNCHANGED swept
    \/ swept' = TRUE

Spec == Init /\ [][Next]_vars
=============================================================================
