----------------------------- MODULE P11Session -----------------------------
(***************************************************************************)
(* p11.Session and the objects and keys obtained from it, used by several  *)
(* goroutines, over a token that hands out session handles and may hand    *)
(* out again a handle that was closed.                                     *)
(*                                                                         *)
(* A Session is a handle, a mutex and a closed flag.  Every method but     *)
(* Info takes the mutex for all its calls into the module.  The methods    *)
(* of objects and keys, and the Session methods that create objects,       *)
(* check the flag; Login, Logout, the PIN methods, GenerateRandom and      *)
(* FindObjects do not.                                                     *)
(***************************************************************************)
EXTENDS Naturals, FiniteSets

CONSTANTS
    Threads,         \* goroutines
    Sessions,        \* p11.Session values the application may create
    Handles,         \* the token's session handles
    Nobody,          \* no goroutine, no session, no handle
    Stuck            \* whoever started the search, the token failed to end it

ASSUME P11SessionAssumption ==
    /\ Nobody \notin Threads \cup Sessions \cup Handles
    /\ Stuck \notin Threads \cup {Nobody}

VARIABLES
    owner,     \* token: owner[h], the Session h was opened for; Nobody: closed
    running,   \* token: running[h][k], who started the active operation k of h
    handle,    \* s.handle; Nobody before OpenSession has returned
    closed,    \* s.closed
    swept,     \* Slot.CloseAllSessions was called
    mu,        \* s.mu: the holder
    pc,        \* pc[t]: where goroutine t is in its method
    meth,      \* meth[t]: the shape of that method
    cur        \* cur[t]: the Session it runs on

tokenVars == <<owner, running, swept>>
sessVars  == <<handle, closed, mu>>
vars      == <<tokenVars, sessVars, pc, meth, cur>>

\* Crypt: EncryptInit and Encrypt and their like.  Object: one call after the
\* check of the flag.  Plain: one call with no check.  Find: a whole search.
Methods == {"Crypt", "Object", "Plain", "Find", "Close"}
Checked == {"Crypt", "Object"}
Kinds   == {"crypt", "find"}

Kind(t) == IF meth[t] = "Find" THEN "find" ELSE "crypt"

Idle == [k \in Kinds |-> Nobody]

Goto(t, from, to) == pc[t] = from /\ pc' = [pc EXCEPT ![t] = to]

-----------------------------------------------------------------------------
Init ==
    /\ owner = [h \in Handles |-> Nobody]
    /\ running = [h \in Handles |-> Idle]
    /\ swept = FALSE
    /\ handle = [s \in Sessions |-> Nobody]
    /\ closed = [s \in Sessions |-> FALSE]
    /\ mu = [s \in Sessions |-> Nobody]
    /\ pc = [t \in Threads |-> "idle"]
    /\ meth = [t \in Threads |-> "none"]
    /\ cur = [t \in Threads |-> Nobody]

\* OpenSessionWithFlags: the token picks any handle that is not open, one
\* that was closed before included.
OpenSession(t) ==
    /\ pc[t] = "idle"
    /\ \E s \in Sessions, h \in Handles :
        /\ handle[s] = Nobody
        /\ owner[h] = Nobody
        /\ handle' = [handle EXCEPT ![s] = h]
        /\ owner' = [owner EXCEPT ![h] = s]
    /\ UNCHANGED <<running, swept, closed, mu, pc, meth, cur>>

\* Slot.CloseAllSessions: the token closes every session; no Session learns.
CloseAllSessions(t) ==
    /\ pc[t] = "idle"
    /\ swept' = TRUE
    /\ owner' = [h \in Handles |-> Nobody]
    /\ running' = [h \in Handles |-> Idle]
    /\ UNCHANGED <<sessVars, pc, meth, cur>>

Invoke(t, s, m) ==
    /\ handle[s] # Nobody
    /\ Goto(t, "idle", "lock")
    /\ meth' = [meth EXCEPT ![t] = m]
    /\ cur' = [cur EXCEPT ![t] = s]
    /\ UNCHANGED <<tokenVars, sessVars>>

\* Mutant: the methods do not take the mutex.
Lock_Shared(t) ==
    /\ Goto(t, "lock", "locked")
    /\ mu' = [mu EXCEPT ![cur[t]] = t]
    /\ UNCHANGED <<tokenVars, handle, closed, meth, cur>>

\* s.mu.Lock()
Lock(t) ==
    /\ Goto(t, "lock", "locked")
    /\ mu[cur[t]] = Nobody
    /\ mu' = [mu EXCEPT ![cur[t]] = t]
    /\ UNCHANGED <<tokenVars, handle, closed, meth, cur>>

\* The deferred s.mu.Unlock().
Return(t, from) ==
    /\ Goto(t, from, "idle")
    /\ mu' = [mu EXCEPT ![cur[t]] = Nobody]
    /\ meth' = [meth EXCEPT ![t] = "none"]
    /\ cur' = [cur EXCEPT ![t] = Nobody]

\* checkOpen fails, or Close finds the session closed.
CheckFails(t) ==
    /\ Return(t, "locked")
    /\ meth[t] \in Checked \cup {"Close"}
    /\ closed[cur[t]]
    /\ UNCHANGED <<tokenVars, handle, closed>>

\* Mutant: Close does not set the flag.
Proceed_NoFlag(t) ==
    /\ Goto(t, "locked", "call")
    /\ meth[t] \in Checked \cup {"Close"} => ~closed[cur[t]]
    /\ UNCHANGED <<tokenVars, sessVars, meth, cur>>

\* Go on to the first call into the module.  Close sets the flag before it.
Proceed(t) ==
    /\ Goto(t, "locked", "call")
    /\ meth[t] \in Checked \cup {"Close"} => ~closed[cur[t]]
    /\ closed' = IF meth[t] = "Close" THEN [closed EXCEPT ![cur[t]] = TRUE] ELSE closed
    /\ UNCHANGED <<tokenVars, handle, mu, meth, cur>>

\* The handle a goroutine passes to the module.
Passed(t) == handle[cur[t]]

-----------------------------------------------------------------------------
\* A method of one call: it works on whatever session the handle denotes.
SingleCall(t) ==
    /\ Return(t, "call")
    /\ meth[t] \in {"Object", "Plain"}
    /\ UNCHANGED <<tokenVars, handle, closed>>

\* C_CloseSession ends the session the handle denotes, or fails; the flag is
\* set either way.
CloseCall(t) ==
    /\ Return(t, "call")
    /\ meth[t] = "Close"
    /\ \/ /\ owner' = [owner EXCEPT ![Passed(t)] = Nobody]
          /\ running' = [running EXCEPT ![Passed(t)] = Idle]
       \/ UNCHANGED <<owner, running>>
    /\ UNCHANGED <<swept, handle, closed>>

\* Mutant: the early return after an Init that failed leaves the mutex locked.
InitFails_KeepsLock(t) ==
    /\ Goto(t, "call", "idle")
    /\ meth[t] \in {"Crypt", "Find"}
    /\ meth' = [meth EXCEPT ![t] = "none"]
    /\ cur' = [cur EXCEPT ![t] = Nobody]
    /\ UNCHANGED <<tokenVars, sessVars>>

\* EncryptInit, FindObjectsInit, ...: the token refuses, always when the
\* session is not open or the operation is active, or starts the operation.
InitFails(t) ==
    /\ Return(t, "call")
    /\ meth[t] \in {"Crypt", "Find"}
    /\ UNCHANGED <<tokenVars, handle, closed>>

InitStarts(t) ==
    /\ Goto(t, "call", "continue")
    /\ meth[t] \in {"Crypt", "Find"}
    /\ owner[Passed(t)] # Nobody
    /\ running[Passed(t)][Kind(t)] = Nobody
    /\ running' = [running EXCEPT ![Passed(t)][Kind(t)] = t]
    /\ UNCHANGED <<owner, swept, sessVars, meth, cur>>

\* FindObjects returns another batch, not an empty one.
FindBatch(t) ==
    /\ pc[t] = "continue"
    /\ meth[t] = "Find"
    /\ UNCHANGED vars

\* FindObjects returns an empty batch or fails; either way FindObjectsFinal
\* follows.  It ends the search of the session, or fails, too: after an empty
\* batch that error is the method's, after an error it is dropped.
FindObjectsFinal(t) ==
    /\ Return(t, "continue")
    /\ meth[t] = "Find"
    /\ \/ running' = [running EXCEPT ![Passed(t)]["find"] = Nobody]
       \/ /\ running[Passed(t)]["find"] # Nobody
          /\ running' = [running EXCEPT ![Passed(t)]["find"] = Stuck]
    /\ UNCHANGED <<owner, swept, handle, closed>>

\* Encrypt, Sign, ... ends the operation of the session.
EndCall(t) ==
    /\ Return(t, "continue")
    /\ meth[t] = "Crypt"
    /\ running' = [running EXCEPT ![Passed(t)]["crypt"] = Nobody]
    /\ UNCHANGED <<owner, swept, handle, closed>>

\* Mutant: FindObjects returns on an error without FindObjectsFinal.
GiveUp_Search(t) ==
    /\ Return(t, "continue")
    /\ UNCHANGED <<tokenVars, handle, closed>>

\* outOp gives up on one of its limits and the operation stays active.
GiveUp(t) ==
    /\ Return(t, "continue")
    /\ meth[t] = "Crypt"
    /\ UNCHANGED <<tokenVars, handle, closed>>

-----------------------------------------------------------------------------
Step(t) ==
    \/ CheckFails(t) \/ Proceed(t)
    \/ SingleCall(t) \/ CloseCall(t)
    \/ InitFails(t) \/ InitStarts(t)
    \/ FindBatch(t) \/ FindObjectsFinal(t)
    \/ EndCall(t) \/ GiveUp(t)

Next ==
    \E t \in Threads :
        \/ OpenSession(t) \/ CloseAllSessions(t)
        \/ \E s \in Sessions, m \in Methods : Invoke(t, s, m)
        \/ Lock(t)
        \/ Step(t)

Spec == Init /\ [][Next]_vars

(***************************************************************************)
(* Goroutines are scheduled and calls into the module return: the steps    *)
(* of a method are weakly fair.  s.mu is a sync.Mutex, which hands itself  *)
(* to the longest waiter once one starves: Lock is strongly fair.  A       *)
(* search comes to an end, because FindBatch changes nothing.              *)
(***************************************************************************)
FairSpec == Spec /\ \A t \in Threads : WF_vars(Step(t)) /\ SF_vars(Lock(t))

-----------------------------------------------------------------------------
TypeOK ==
    /\ owner \in [Handles -> Sessions \cup {Nobody}]
    /\ running \in [Handles -> [Kinds -> Threads \cup {Nobody, Stuck}]]
    /\ handle \in [Sessions -> Handles \cup {Nobody}]
    /\ closed \in [Sessions -> BOOLEAN]
    /\ swept \in BOOLEAN
    /\ mu \in [Sessions -> Threads \cup {Nobody}]
    /\ pc \in [Threads -> {"idle", "lock", "locked", "call", "continue"}]
    /\ meth \in [Threads -> Methods \cup {"none"}]
    /\ cur \in [Threads -> Sessions \cup {Nobody}]

InModule(t) == pc[t] \in {"call", "continue"}

(***************************************************************************)
(* "a handle cannot be used after the session it belongs to is gone"       *)
(* (p11/session.go, on the closed flag): whenever a method of an object or *)
(* key, a method that creates one, or Close is in the module, the session  *)
(* handle it passes still denotes its own session - not a closed one, and  *)
(* not a later session to which the token gave the same handle.            *)
(***************************************************************************)
OwnHandleAlways ==
    \A t \in Threads :
        InModule(t) /\ meth[t] \in Checked \cup {"Close"} => owner[Passed(t)] = cur[t]

(***************************************************************************)
(* That is so in a program that ends its sessions with Session.Close,      *)
(* however many goroutines use and close them at once (p11/session.go      *)
(* Close, checkOpen).                                                      *)
(***************************************************************************)
OwnHandleOnly == ~swept => OwnHandleAlways

(***************************************************************************)
(* In such a program the call that ends a cryptographic operation runs on  *)
(* the operation its own goroutine started, never on one that another      *)
(* goroutine started with another key or data (p11/session.go: methods     *)
(* "are safe to call from multiple goroutines that share one Session").    *)
(***************************************************************************)
NoCrossTalk ==
    ~swept => \A t \in Threads :
        pc[t] = "continue" /\ meth[t] = "Crypt" => running[Passed(t)]["crypt"] = t

\* The token session of s exists.
Alive(s) == handle[s] # Nobody /\ owner[handle[s]] = s

\* How a Session appears to the methods of its objects and keys.
Life(s) ==
    IF handle[s] = Nobody THEN "new"
    ELSE IF ~closed[s] THEN "open"
    ELSE IF Alive(s) THEN "closing" ELSE "gone"

User(s) ==
    IF mu[s] # Nobody /\ InModule(mu[s]) /\ meth[mu[s]] \in Checked \cup {"Close"}
    THEN mu[s] ELSE Nobody

Active(s) == IF Alive(s) THEN running[handle[s]]["crypt"] ELSE Nobody

life   == [s \in Sessions |-> Life(s)]
user   == [s \in Sessions |-> User(s)]
active == [s \in Sessions |-> Active(s)]

Ideal == INSTANCE IdealSessions

(***************************************************************************)
(* A program that ends its sessions with Session.Close sees IdealSessions: *)
(* each Session is a token session of its own, used by one goroutine at a  *)
(* time, though the token gives out handles again, methods wait for the    *)
(* mutex of a Session that is closed meanwhile, and outOp gives up with    *)
(* operations active (p11/session.go Close, checkOpen, "safe to call from  *)
(* multiple goroutines that share one Session").                           *)
(***************************************************************************)
IdealSpec == Ideal!Spec

(***************************************************************************)
(* No search stays active in an open session once FindObjects has          *)
(* returned, unless the module has failed to end it: the method ends what  *)
(* it began, on its error path too, so the session is not left refusing    *)
(* the next search (p11/session.go FindObjects).                           *)
(***************************************************************************)
SearchesEnd ==
    \A s \in Sessions :
        handle[s] # Nobody /\ owner[handle[s]] = s /\ running[handle[s]]["find"] \in Threads
            => \E t \in Threads : pc[t] = "continue" /\ meth[t] = "Find"
                                  /\ Passed(t) = handle[s]

(***************************************************************************)
(* A goroutine that waits for the mutex of a Session gets it, and a Close  *)
(* returns, whatever the other goroutines do with the Session: every path  *)
(* gives up the mutex.  Every search of the module ends with an empty      *)
(* batch, or FindObjects would not return (p11/session.go).                *)
(***************************************************************************)
GoroutinesReturn ==
    \A t \in Threads : (pc[t] # "idle") ~> (pc[t] = "idle")
=============================================================================
