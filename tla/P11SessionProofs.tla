-------------------------- MODULE P11SessionProofs --------------------------
(***************************************************************************)
(* Proofs about P11Session, for any goroutines, Sessions and handles.      *)
(***************************************************************************)
EXTENDS P11Session, TLAPS

\* A goroutine in a method runs it on a Session that has its handle, and only
\* the two-call methods come to their second call.
CallInv ==
    \A t \in Threads : pc[t] # "idle" =>
        /\ cur[t] \in Sessions
        /\ handle[cur[t]] \in Handles
        /\ meth[t] \in Methods
        /\ pc[t] = "continue" => meth[t] \in {"Crypt", "Find"}

\* Whoever is past s.mu.Lock() holds the mutex.
MutexInv ==
    \A t \in Threads : pc[t] \in {"locked", "call", "continue"} => mu[cur[t]] = t

\* An active search that the module did not fail to end belongs to a goroutine
\* that is going to end it.
SearchInv ==
    \A h \in Handles, t \in Threads :
        running[h]["find"] = t => pc[t] = "continue" /\ meth[t] = "Find" /\ Passed(t) = h

\* An open Session's handle denotes it, unless Slot.CloseAllSessions was
\* called; Close has set the flag.
HandleInv ==
    /\ ~swept => \A s \in Sessions : handle[s] # Nobody /\ ~closed[s] => owner[handle[s]] = s
    /\ \A t \in Threads : pc[t] = "call" /\ meth[t] = "Close" => closed[cur[t]]

BaseInv == TypeOK /\ CallInv /\ MutexInv /\ SearchInv

OwnInv == HandleInv /\ OwnHandleOnly /\ NoCrossTalk

USE P11SessionAssumption DEF P11SessionAssumption
USE DEF Methods, Checked, Kinds, Kind, Idle, Goto, Passed, InModule

-----------------------------------------------------------------------------
LEMMA InitBase == Init => BaseInv
  <1> SUFFICES ASSUME Init PROVE BaseInv
    OBVIOUS
  <1>1. TypeOK
    BY DEF Init, TypeOK
  <1>2. CallInv /\ MutexInv
    BY DEF Init, CallInv, MutexInv
  <1>3. SearchInv
    BY DEF Init, SearchInv
  <1> QED
    BY <1>1, <1>2, <1>3 DEF BaseInv

\* Two goroutines past the lock are on different Sessions.
LEMMA OneInside ==
    ASSUME MutexInv, NEW t \in Threads, NEW u \in Threads, t # u,
           pc[t] \in {"locked", "call", "continue"},
           pc[u] \in {"locked", "call", "continue"}
    PROVE  cur[t] # cur[u]
  BY DEF MutexInv

LEMMA NextBase == BaseInv /\ [Next]_vars => BaseInv'
  <1> SUFFICES ASSUME BaseInv, [Next]_vars PROVE BaseInv'
    OBVIOUS
  <1>a. TypeOK /\ CallInv /\ MutexInv /\ SearchInv
    BY DEF BaseInv
  <1> USE DEF TypeOK, CallInv, MutexInv, SearchInv, BaseInv, tokenVars, sessVars
  <1>1. CASE UNCHANGED vars
    BY <1>1, <1>a DEF vars
  <1>2. ASSUME NEW t \in Threads, OpenSession(t) PROVE BaseInv'
    <2>1. PICK s \in Sessions, h \in Handles :
              /\ handle[s] = Nobody
              /\ handle' = [handle EXCEPT ![s] = h]
              /\ owner' = [owner EXCEPT ![h] = s]
      BY <1>2 DEF OpenSession
    <2>2. UNCHANGED <<running, swept, closed, mu, pc, meth, cur>>
      BY <1>2 DEF OpenSession
    <2>3. \A u \in Threads : pc[u] # "idle" => cur[u] # s
      BY <2>1, <1>a
    <2>4. TypeOK'
      BY <2>1, <2>2, <1>a
    <2>5. CallInv' /\ MutexInv'
      BY <2>1, <2>2, <2>3, <1>a
    <2>6. SearchInv'
      BY <2>1, <2>2, <2>3, <1>a
    <2> QED
      BY <2>4, <2>5, <2>6
  <1>3. ASSUME NEW t \in Threads, CloseAllSessions(t) PROVE BaseInv'
    BY <1>3, <1>a DEF CloseAllSessions
  <1>4. ASSUME NEW t \in Threads, NEW s \in Sessions, NEW m \in Methods, Invoke(t, s, m)
        PROVE  BaseInv'
    BY <1>4, <1>a DEF Invoke
  <1>5. ASSUME NEW t \in Threads, Lock(t) PROVE BaseInv'
    <2>1. \A u \in Threads \ {t} :
              pc[u] \in {"locked", "call", "continue"} => cur[u] # cur[t]
      BY <1>5, <1>a DEF Lock
    <2> QED
      BY <2>1, <1>5, <1>a DEF Lock
  <1>6. ASSUME NEW t \in Threads, CheckFails(t) PROVE BaseInv'
    <2>1. \A u \in Threads \ {t} :
              pc[u] \in {"locked", "call", "continue"} => cur[u] # cur[t]
      BY <1>6, <1>a, OneInside DEF CheckFails, Return
    <2> QED
      BY <2>1, <1>6, <1>a DEF CheckFails, Return
  <1>7. ASSUME NEW t \in Threads, Proceed(t) PROVE BaseInv'
    BY <1>7, <1>a DEF Proceed
  <1>8. ASSUME NEW t \in Threads, Return(t, "call"), UNCHANGED <<tokenVars, handle, closed>>
        PROVE  BaseInv'
    <2>1. \A u \in Threads \ {t} :
              pc[u] \in {"locked", "call", "continue"} => cur[u] # cur[t]
      BY <1>8, <1>a, OneInside DEF Return
    <2> QED
      BY <2>1, <1>8, <1>a DEF Return
  <1>9. ASSUME NEW t \in Threads, CloseCall(t) PROVE BaseInv'
    <2>1. CASE UNCHANGED <<owner, running>>
      BY <2>1, <1>8, <1>9 DEF CloseCall
    <2>2. CASE /\ owner' = [owner EXCEPT ![Passed(t)] = Nobody]
               /\ running' = [running EXCEPT ![Passed(t)] = Idle]
      <3>1. \A u \in Threads \ {t} :
                pc[u] \in {"locked", "call", "continue"} => cur[u] # cur[t]
        BY <1>9, <1>a, OneInside DEF CloseCall, Return
      <3>2. Return(t, "call") /\ UNCHANGED <<swept, handle, closed>>
        BY <1>9 DEF CloseCall
      <3>3. TypeOK' /\ CallInv' /\ MutexInv'
        BY <2>2, <3>1, <3>2, <1>a DEF Return
      <3>4. SearchInv'
        BY <2>2, <3>2, <1>a DEF Return
      <3> QED
        BY <3>3, <3>4
    <2> QED
      BY <2>1, <2>2, <1>9 DEF CloseCall
  <1>10. ASSUME NEW t \in Threads, InitStarts(t) PROVE BaseInv'
    <2>1. TypeOK' /\ CallInv' /\ MutexInv'
      BY <1>10, <1>a DEF InitStarts
    <2>2. SearchInv'
      BY <1>10, <1>a DEF InitStarts
    <2> QED
      BY <2>1, <2>2
  <1>11. ASSUME NEW t \in Threads, EndCall(t) PROVE BaseInv'
    <2>1. \A u \in Threads \ {t} :
              pc[u] \in {"locked", "call", "continue"} => cur[u] # cur[t]
      BY <1>11, <1>a, OneInside DEF EndCall, Return
    <2>2. TypeOK' /\ CallInv' /\ MutexInv'
      BY <2>1, <1>11, <1>a DEF EndCall, Return
    <2>3. SearchInv'
      BY <1>11, <1>a DEF EndCall, Return
    <2> QED
      BY <2>2, <2>3
  <1>12. ASSUME NEW t \in Threads, GiveUp(t) PROVE BaseInv'
    <2>1. \A u \in Threads \ {t} :
              pc[u] \in {"locked", "call", "continue"} => cur[u] # cur[t]
      BY <1>12, <1>a, OneInside DEF GiveUp, Return
    <2> QED
      BY <2>1, <1>12, <1>a DEF GiveUp, Return
  <1>13. ASSUME NEW t \in Threads, FindObjectsFinal(t) PROVE BaseInv'
    <2>1. \A u \in Threads \ {t} :
              pc[u] \in {"locked", "call", "continue"} => cur[u] # cur[t]
      BY <1>13, <1>a, OneInside DEF FindObjectsFinal, Return
    <2>2. TypeOK' /\ CallInv' /\ MutexInv'
      BY <2>1, <1>13, <1>a DEF FindObjectsFinal, Return
    <2>3. SearchInv'
      BY <1>13, <1>a DEF FindObjectsFinal, Return
    <2> QED
      BY <2>2, <2>3
  <1>14. ASSUME NEW t \in Threads, Step(t) PROVE BaseInv'
    <2>1. SingleCall(t) \/ InitFails(t)
              => Return(t, "call") /\ UNCHANGED <<tokenVars, handle, closed>>
      BY DEF SingleCall, InitFails
    <2>2. FindBatch(t) => UNCHANGED vars
      BY DEF FindBatch
    <2> QED
      BY <2>1, <2>2, <1>1, <1>6, <1>7, <1>8, <1>9, <1>10, <1>11, <1>12, <1>13, <1>14 DEF Step
  <1> QED
    BY <1>1, <1>2, <1>3, <1>4, <1>5, <1>14 DEF Next

THEOREM BaseInvariant == Spec => []BaseInv
  <1>1. Init => BaseInv
    BY InitBase
  <1>2. BaseInv /\ [Next]_vars => BaseInv'
    BY NextBase
  <1> QED
    BY <1>1, <1>2, PTL DEF Spec

\* No search outlives its FindObjects, CloseAllSessions or not, but where the
\* module failed to end it: whoever the token runs one for is still in
\* FindObjects, on that handle.
THEOREM SearchesAreEnded == Spec => []SearchesEnd
  <1>1. BaseInv => SearchesEnd
    BY DEF BaseInv, TypeOK, SearchInv, SearchesEnd
  <1> QED
    BY <1>1, BaseInvariant, PTL

-----------------------------------------------------------------------------
LEMMA InitOwn == Init => OwnInv
  BY DEF Init, OwnInv, HandleInv, OwnHandleOnly, OwnHandleAlways, NoCrossTalk

LEMMA NextOwn == BaseInv /\ OwnInv /\ [Next]_vars => OwnInv'
  <1> SUFFICES ASSUME BaseInv, OwnInv, [Next]_vars PROVE OwnInv'
    OBVIOUS
  <1>a. TypeOK /\ CallInv /\ MutexInv
    BY DEF BaseInv
  <1>b. HandleInv /\ OwnHandleOnly /\ NoCrossTalk
    BY DEF OwnInv
  <1> USE DEF TypeOK, CallInv, OwnInv, HandleInv, OwnHandleOnly, OwnHandleAlways, NoCrossTalk, tokenVars, sessVars
  <1>1. CASE UNCHANGED vars
    BY <1>1, <1>b DEF vars
  <1>2. ASSUME NEW t \in Threads, OpenSession(t) PROVE OwnInv'
    <2>1. PICK s \in Sessions, h \in Handles :
              /\ handle[s] = Nobody
              /\ owner[h] = Nobody
              /\ handle' = [handle EXCEPT ![s] = h]
              /\ owner' = [owner EXCEPT ![h] = s]
      BY <1>2 DEF OpenSession
    <2>2. UNCHANGED <<running, swept, closed, mu, pc, meth, cur>>
      BY <1>2 DEF OpenSession
    <2>3. \A u \in Threads : pc[u] # "idle" => cur[u] # s
      BY <2>1, <1>a
    <2>4. HandleInv'
      BY <2>1, <2>2, <1>a, <1>b
    <2>5. OwnHandleOnly'
      BY <2>1, <2>2, <2>3, <1>a, <1>b
    <2>6. NoCrossTalk'
      BY <2>1, <2>2, <2>3, <1>a, <1>b
    <2> QED
      BY <2>4, <2>5, <2>6
  <1>3. ASSUME NEW t \in Threads, CloseAllSessions(t) PROVE OwnInv'
    BY <1>3 DEF CloseAllSessions
  <1>4. ASSUME NEW t \in Threads, NEW s \in Sessions, NEW m \in Methods, Invoke(t, s, m)
        PROVE  OwnInv'
    BY <1>4, <1>a, <1>b DEF Invoke
  <1>5. ASSUME NEW t \in Threads, Lock(t) PROVE OwnInv'
    BY <1>5, <1>a, <1>b DEF Lock
  <1>6. ASSUME NEW t \in Threads, NEW from \in {"locked", "call", "continue"},
               Return(t, from), UNCHANGED <<tokenVars, handle, closed>>
        PROVE  OwnInv'
    BY <1>6, <1>a, <1>b DEF Return
  \* Close sets the flag of a Session that nobody else is inside of; any other
  \* checked method goes on with the handle of an open Session.
  <1>7. ASSUME NEW t \in Threads, Proceed(t) PROVE OwnInv'
    <2>1. UNCHANGED <<tokenVars, handle, meth, cur>>
      BY <1>7 DEF Proceed
    <2>2. HandleInv'
      BY <1>7, <1>a, <1>b DEF Proceed
    <2>3. ~swept /\ meth[t] \in Checked \cup {"Close"} => owner[Passed(t)] = cur[t]
      BY <1>7, <1>a, <1>b DEF Proceed
    <2>4. OwnHandleOnly' /\ NoCrossTalk'
      BY <2>1, <2>3, <1>7, <1>a, <1>b DEF Proceed
    <2> QED
      BY <2>2, <2>4
  <1>8. ASSUME NEW t \in Threads, CloseCall(t) PROVE OwnInv'
    <2>1. Return(t, "call") /\ UNCHANGED <<swept, handle, closed>> /\ meth[t] = "Close"
      BY <1>8 DEF CloseCall
    <2>2. CASE UNCHANGED <<owner, running>>
      BY <2>1, <2>2, <1>6
    <2>3. CASE /\ owner' = [owner EXCEPT ![Passed(t)] = Nobody]
               /\ running' = [running EXCEPT ![Passed(t)] = Idle]
      <3>1. (~swept => owner[Passed(t)] = cur[t]) /\ closed[cur[t]]
        BY <2>1, <1>b DEF Return
      <3>2. \A u \in Threads \ {t} :
                pc[u] \in {"locked", "call", "continue"} => cur[u] # cur[t]
        BY <2>1, <1>a, OneInside DEF Return
      <3>3. ~swept => \A u \in Threads \ {t} : InModule(u) /\ meth[u] \in Checked \cup {"Close"}
                                        => Passed(u) # Passed(t)
        BY <3>1, <3>2, <1>b
      <3>4. HandleInv'
        BY <2>1, <2>3, <3>1, <1>a, <1>b DEF Return
      <3>5. OwnHandleOnly'
        BY <2>1, <2>3, <3>3, <1>a, <1>b DEF Return
      <3>6. NoCrossTalk'
        BY <2>1, <2>3, <3>3, <1>a, <1>b DEF Return
      <3> QED
        BY <3>4, <3>5, <3>6
    <2> QED
      BY <2>2, <2>3, <1>8 DEF CloseCall
  \* The token lets nobody start an operation over one that is active.
  <1>9. ASSUME NEW t \in Threads, InitStarts(t) PROVE OwnInv'
    <2>1. HandleInv' /\ OwnHandleOnly'
      BY <1>9, <1>a, <1>b DEF InitStarts
    <2>2. NoCrossTalk'
      BY <1>9, <1>a, <1>b DEF InitStarts
    <2> QED
      BY <2>1, <2>2
  <1>10. ASSUME NEW t \in Threads, EndCall(t) PROVE OwnInv'
    <2>1. Return(t, "continue") /\ UNCHANGED <<owner, swept, handle, closed>>
      BY <1>10 DEF EndCall
    <2>2. HandleInv' /\ OwnHandleOnly'
      BY <2>1, <1>a, <1>b DEF Return
    <2>3. \A u \in Threads \ {t} : pc[u] = "continue" => cur[u] # cur[t]
      BY <2>1, <1>a, OneInside DEF Return
    <2>4. ~swept => \A u \in Threads \ {t} :
              pc[u] = "continue" /\ meth[u] = "Crypt" /\ meth[t] = "Crypt" => Passed(u) # Passed(t)
      BY <2>1, <2>3, <1>b DEF Return
    <2>5. NoCrossTalk'
      BY <2>1, <2>4, <1>10, <1>a, <1>b DEF Return, EndCall
    <2> QED
      BY <2>2, <2>5
  \* The end of a search concerns no other operation.
  <1>11. ASSUME NEW t \in Threads, FindObjectsFinal(t) PROVE OwnInv'
    <2>1. Return(t, "continue") /\ UNCHANGED <<owner, swept, handle, closed>>
      BY <1>11 DEF FindObjectsFinal
    <2>2. HandleInv' /\ OwnHandleOnly'
      BY <2>1, <1>a, <1>b DEF Return
    <2>3. \A h \in Handles : running'[h]["crypt"] = running[h]["crypt"]
      BY <1>11, <1>a DEF FindObjectsFinal
    <2>4. NoCrossTalk'
      BY <2>1, <2>3, <1>a, <1>b DEF Return
    <2> QED
      BY <2>2, <2>4
  <1>12. ASSUME NEW t \in Threads, Step(t) PROVE OwnInv'
    <2>1. \/ Return(t, "locked") /\ UNCHANGED <<tokenVars, handle, closed>>
          \/ Return(t, "call") /\ UNCHANGED <<tokenVars, handle, closed>>
          \/ Return(t, "continue") /\ UNCHANGED <<tokenVars, handle, closed>>
          \/ UNCHANGED vars
          \/ Proceed(t) \/ CloseCall(t) \/ InitStarts(t) \/ EndCall(t) \/ FindObjectsFinal(t)
      BY <1>12 DEF Step, CheckFails, SingleCall, InitFails, GiveUp, FindBatch
    <2> QED
      BY <2>1, <1>1, <1>6, <1>7, <1>8, <1>9, <1>10, <1>11
  <1> QED
    BY <1>1, <1>2, <1>3, <1>4, <1>5, <1>12 DEF Next

THEOREM OwnInvariant == Spec => []OwnInv
  <1>1. Init => OwnInv
    BY InitOwn
  <1>2. BaseInv /\ OwnInv /\ [Next]_vars => OwnInv'
    BY NextOwn
  <1> QED
    BY <1>1, <1>2, BaseInvariant, PTL DEF Spec

\* As long as nobody calls Slot.CloseAllSessions, the methods of objects and
\* keys only ever use the handle of their own, open, session.
THEOREM HandlesAreOwn == Spec => []OwnHandleOnly
  <1>1. OwnInv => OwnHandleOnly
    BY DEF OwnInv
  <1> QED
    BY <1>1, OwnInvariant, PTL

\* Nor does any of them end an operation that another goroutine started.
THEOREM OperationsAreOwn == Spec => []NoCrossTalk
  <1>1. OwnInv => NoCrossTalk
    BY DEF OwnInv
  <1> QED
    BY <1>1, OwnInvariant, PTL

-----------------------------------------------------------------------------
(* Refinement of IdealSessions.                                            *)

\* Who holds a mutex is past its Lock, nothing runs in a token session that is
\* closed, a Session in which a checked method is stays open, and no Session is
\* closed before it has its handle.
LinkInv ==
    /\ \A s \in Sessions, t \in Threads :
           mu[s] = t => pc[t] \in {"locked", "call", "continue"} /\ cur[t] = s
    /\ \A h \in Handles : owner[h] = Nobody => running[h]["crypt"] = Nobody
    /\ \A t \in Threads : InModule(t) /\ meth[t] \in Checked => ~closed[cur[t]]
    /\ \A s \in Sessions : closed[s] => handle[s] # Nobody

LEMMA InitLink == Init => LinkInv
  BY DEF Init, LinkInv

LEMMA NextLink == BaseInv /\ LinkInv /\ [Next]_vars => LinkInv'
  <1> SUFFICES ASSUME BaseInv, LinkInv, [Next]_vars PROVE LinkInv'
    OBVIOUS
  <1>a. TypeOK /\ CallInv /\ MutexInv
    BY DEF BaseInv
  <1> USE DEF TypeOK, CallInv, LinkInv, tokenVars, sessVars
  <1>1. CASE UNCHANGED vars
    BY <1>1 DEF vars
  <1>2. ASSUME NEW t \in Threads, OpenSession(t) PROVE LinkInv'
    BY <1>2, <1>a DEF OpenSession
  <1>3. ASSUME NEW t \in Threads, CloseAllSessions(t) PROVE LinkInv'
    BY <1>3, <1>a DEF CloseAllSessions
  <1>4. ASSUME NEW t \in Threads, NEW s \in Sessions, NEW m \in Methods, Invoke(t, s, m)
        PROVE  LinkInv'
    BY <1>4, <1>a DEF Invoke
  <1>5. ASSUME NEW t \in Threads, Lock(t) PROVE LinkInv'
    BY <1>5, <1>a DEF Lock
  <1>6. ASSUME NEW t \in Threads, NEW from \in {"locked", "call", "continue"},
               Return(t, from), UNCHANGED <<handle, closed>>,
               \A h \in Handles : owner'[h] = Nobody => running'[h]["crypt"] = Nobody
        PROVE  LinkInv'
    BY <1>6, <1>a DEF Return
  <1>7. ASSUME NEW t \in Threads, Proceed(t) PROVE LinkInv'
    <2>1. \A u \in Threads \ {t} : InModule(u) => cur[u] # cur[t]
      BY <1>7, <1>a, OneInside DEF Proceed
    <2> QED
      BY <2>1, <1>7, <1>a DEF Proceed
  <1>8. ASSUME NEW t \in Threads, CloseCall(t) PROVE LinkInv'
    <2>1. \A h \in Handles : owner'[h] = Nobody => running'[h]["crypt"] = Nobody
      BY <1>8, <1>a DEF CloseCall, Return
    <2> QED
      BY <2>1, <1>6, <1>8 DEF CloseCall
  <1>9. ASSUME NEW t \in Threads, InitStarts(t) PROVE LinkInv'
    BY <1>9, <1>a DEF InitStarts
  <1>10. ASSUME NEW t \in Threads, EndCall(t) PROVE LinkInv'
    <2>1. \A h \in Handles : owner'[h] = Nobody => running'[h]["crypt"] = Nobody
      BY <1>10, <1>a DEF EndCall, Return
    <2> QED
      BY <2>1, <1>6, <1>10 DEF EndCall
  <1>11. ASSUME NEW t \in Threads, FindObjectsFinal(t) PROVE LinkInv'
    <2>1. \A h \in Handles : owner'[h] = Nobody => running'[h]["crypt"] = Nobody
      BY <1>11, <1>a DEF FindObjectsFinal
    <2> QED
      BY <2>1, <1>6, <1>11 DEF FindObjectsFinal
  <1>12. ASSUME NEW t \in Threads, Step(t) PROVE LinkInv'
    <2>1. \/ \E from \in {"locked", "call", "continue"} :
                 Return(t, from) /\ UNCHANGED <<tokenVars, handle, closed>>
          \/ UNCHANGED vars
          \/ Proceed(t) \/ CloseCall(t) \/ InitStarts(t) \/ EndCall(t) \/ FindObjectsFinal(t)
      BY <1>12 DEF Step, CheckFails, SingleCall, InitFails, GiveUp, FindBatch
    <2> QED
      BY <2>1, <1>1, <1>6, <1>7, <1>8, <1>9, <1>10, <1>11
  <1> QED
    BY <1>1, <1>2, <1>3, <1>4, <1>5, <1>12 DEF Next

IdealInv == BaseInv /\ OwnInv /\ LinkInv

\* Steps that Sessions do not show, or only one of them.
LEMMA NothingShown ==
    ASSUME \A s \in Sessions : Life(s)' = Life(s) /\ User(s)' = User(s) /\ Active(s)' = Active(s),
           UNCHANGED swept
    PROVE  UNCHANGED Ideal!vars
  BY DEF life, user, active, Ideal!vars

LEMMA OneShown ==
    ASSUME NEW s \in Sessions
    PROVE  /\ (\A r \in Sessions \ {s} : Life(r)' = Life(r)) => life' = [life EXCEPT ![s] = Life(s)']
           /\ (\A r \in Sessions \ {s} : User(r)' = User(r)) => user' = [user EXCEPT ![s] = User(s)']
           /\ (\A r \in Sessions \ {s} : Active(r)' = Active(r))
                  => active' = [active EXCEPT ![s] = Active(s)']
           /\ (\A r \in Sessions : Life(r)' = Life(r)) => life' = life
           /\ (\A r \in Sessions : User(r)' = User(r)) => user' = user
           /\ (\A r \in Sessions : Active(r)' = Active(r)) => active' = active
           /\ life[s] = Life(s) /\ user[s] = User(s) /\ active[s] = Active(s)
  BY DEF life, user, active

\* A goroutine that does not hold the mutex of s is not the user of s.
LEMMA UserElsewhere ==
    ASSUME TypeOK, NEW t \in Threads, NEW s \in Sessions, mu[s] # t, mu'[s] = mu[s],
           \A u \in Threads \ {t} : pc'[u] = pc[u] /\ meth'[u] = meth[u]
    PROVE  User(s)' = User(s)
  BY DEF TypeOK, User

\* The return of a method, but for a Close that the module answered.
LEMMA ReturnShown ==
    ASSUME IdealInv, NEW t \in Threads, NEW from \in {"locked", "call", "continue"},
           Return(t, from), UNCHANGED <<owner, swept, handle, closed>>,
           \A h \in Handles : running'[h]["crypt"] = running[h]["crypt"]
    PROVE  [Ideal!Next]_Ideal!vars
  <1>a. TypeOK /\ CallInv /\ MutexInv /\ LinkInv
    BY DEF IdealInv, BaseInv
  <1>1. PICK s \in Sessions :
            s = cur[t] /\ mu[s] = t /\ mu'[s] = Nobody /\ t # Nobody
    BY <1>a DEF Return, CallInv, MutexInv, TypeOK
  <1>2. \A r \in Sessions : Life(r)' = Life(r) /\ Active(r)' = Active(r)
    BY <1>a DEF TypeOK, Life, Active, Alive
  <1>3. \A r \in Sessions \ {s} : User(r)' = User(r)
    <2> SUFFICES ASSUME NEW r \in Sessions \ {s} PROVE User(r)' = User(r)
      OBVIOUS
    <2>1. mu[r] # t /\ mu'[r] = mu[r]
      BY <1>a, <1>1 DEF LinkInv, Return, TypeOK
    <2>2. \A u \in Threads \ {t} : pc'[u] = pc[u] /\ meth'[u] = meth[u]
      BY <1>a DEF Return, TypeOK
    <2> QED
      BY <1>a, <2>1, <2>2, UserElsewhere
  <1>4. User(s)' = Nobody
    BY <1>1 DEF User
  <1>5. User(s) = Nobody \/ User(s) = t
    BY <1>1 DEF User
  <1>6. CASE User(s) = Nobody
    BY <1>2, <1>3, <1>4, <1>6, NothingShown
  <1>7. CASE User(s) = t
    <2>1. Ideal!Leave(t, s)
      BY <1>1, <1>2, <1>3, <1>4, <1>7, OneShown DEF Ideal!Leave
    <2> QED
      BY <1>1, <2>1 DEF Ideal!Next, tokenVars
  <1> QED
    BY <1>5, <1>6, <1>7

LEMMA OpenShown ==
    ASSUME IdealInv, NEW t \in Threads, OpenSession(t)
    PROVE  [Ideal!Next]_Ideal!vars
  <1>a. TypeOK /\ CallInv /\ MutexInv /\ LinkInv
    BY DEF IdealInv, BaseInv
  <1>1. PICK s \in Sessions, h \in Handles :
            /\ handle[s] = Nobody /\ owner[h] = Nobody
            /\ handle' = [handle EXCEPT ![s] = h]
            /\ owner' = [owner EXCEPT ![h] = s]
    BY DEF OpenSession
  <1>2. UNCHANGED <<running, swept, closed, mu, pc, meth, cur>>
    BY DEF OpenSession
  <1>3. \A r \in Sessions : User(r)' = User(r)
    BY <1>2 DEF User
  <1>4. \A r \in Sessions \ {s} : Alive(r)' = Alive(r) /\ handle'[r] = handle[r]
    BY <1>1, <1>a DEF TypeOK, Alive
  <1>5. \A r \in Sessions \ {s} : Life(r)' = Life(r) /\ Active(r)' = Active(r)
    BY <1>2, <1>4 DEF Life, Active
  <1>6. handle'[s] = h /\ Alive(s)' /\ ~Alive(s) /\ h # Nobody
    BY <1>1, <1>a DEF TypeOK, Alive
  <1>7. Active(s) = Nobody /\ Active(s)' = Nobody
    BY <1>1, <1>2, <1>6, <1>a DEF Active, LinkInv
  <1>8. Life(s) = "new" /\ Life(s)' = "open"
    BY <1>1, <1>2, <1>6, <1>a DEF Life, LinkInv
  <1>9. Ideal!Open(s)
    BY <1>3, <1>5, <1>7, <1>8, OneShown DEF Ideal!Open
  <1> QED
    BY <1>2, <1>9 DEF Ideal!Next

\* A goroutine takes the mutex; it is not in the module yet.
LEMMA LockShown ==
    ASSUME IdealInv, NEW t \in Threads, Lock(t)
    PROVE  [Ideal!Next]_Ideal!vars
  <1>a. TypeOK /\ CallInv /\ LinkInv
    BY DEF IdealInv, BaseInv
  <1>1. \A r \in Sessions : Life(r)' = Life(r) /\ Active(r)' = Active(r)
    BY DEF Lock, tokenVars, Life, Active, Alive
  <1>2. ASSUME NEW r \in Sessions PROVE User(r)' = User(r)
    <2>1. CASE r = cur[t]
      BY <2>1, <1>a DEF Lock, User, TypeOK
    <2>2. CASE r # cur[t]
      <3>1. mu[r] # t /\ mu'[r] = mu[r]
        BY <2>2, <1>a DEF Lock, LinkInv, TypeOK
      <3>2. \A u \in Threads \ {t} : pc'[u] = pc[u] /\ meth'[u] = meth[u]
        BY <1>a DEF Lock, TypeOK
      <3> QED
        BY <1>a, <3>1, <3>2, UserElsewhere
    <2> QED
      BY <2>1, <2>2
  <1> QED
    BY <1>1, <1>2, NothingShown DEF Lock, tokenVars

LEMMA InvokeShown ==
    ASSUME IdealInv, NEW t \in Threads, NEW s \in Sessions, NEW m \in Methods, Invoke(t, s, m)
    PROVE  [Ideal!Next]_Ideal!vars
  <1>a. TypeOK /\ LinkInv
    BY DEF IdealInv, BaseInv
  <1>1. \A r \in Sessions : Life(r)' = Life(r) /\ Active(r)' = Active(r)
    BY DEF Invoke, tokenVars, sessVars, Life, Active, Alive
  <1>2. ASSUME NEW r \in Sessions PROVE User(r)' = User(r)
    <2>1. mu[r] # t /\ mu'[r] = mu[r]
      BY <1>a DEF Invoke, sessVars, LinkInv, TypeOK
    <2>2. \A u \in Threads \ {t} : pc'[u] = pc[u] /\ meth'[u] = meth[u]
      BY <1>a DEF Invoke, TypeOK
    <2> QED
      BY <1>a, <2>1, <2>2, UserElsewhere
  <1> QED
    BY <1>1, <1>2, NothingShown DEF Invoke, tokenVars

\* A checked method, or Close, becomes the user of its Session; Close leaves
\* the token session alive, closing.
LEMMA ProceedShown ==
    ASSUME IdealInv, ~swept, NEW t \in Threads, Proceed(t)
    PROVE  [Ideal!Next]_Ideal!vars
  <1>a. TypeOK /\ CallInv /\ MutexInv /\ LinkInv /\ HandleInv
    BY DEF IdealInv, BaseInv, OwnInv
  <1>1. PICK s \in Sessions :
            s = cur[t] /\ mu[s] = t /\ mu' = mu /\ t # Nobody /\ handle[s] \in Handles
    BY <1>a DEF Proceed, CallInv, MutexInv, TypeOK
  <1>2. \A r \in Sessions : Active(r)' = Active(r) /\ Alive(r)' = Alive(r)
    BY DEF Proceed, tokenVars, Active, Alive
  <1>3. \A r \in Sessions \ {s} : Life(r)' = Life(r)
    BY <1>1, <1>2, <1>a DEF Proceed, Life, TypeOK
  <1>4. ASSUME NEW r \in Sessions \ {s} PROVE User(r)' = User(r)
    <2>1. mu[r] # t /\ mu'[r] = mu[r]
      BY <1>a, <1>1 DEF LinkInv
    <2>2. \A u \in Threads \ {t} : pc'[u] = pc[u] /\ meth'[u] = meth[u]
      BY <1>a DEF Proceed, TypeOK
    <2> QED
      BY <1>a, <2>1, <2>2, UserElsewhere
  <1>5. User(s) = Nobody
    BY <1>1 DEF Proceed, User
  <1>6. CASE meth[t] \notin Checked \cup {"Close"}
    <2>1. User(s)' = Nobody
      BY <1>1, <1>6 DEF Proceed, User
    <2>2. Life(s)' = Life(s)
      BY <1>2, <1>6 DEF Proceed, Life
    <2> QED
      BY <1>2, <1>3, <1>4, <1>5, <2>1, <2>2, NothingShown DEF Proceed, tokenVars
  <1>7. CASE meth[t] \in Checked \cup {"Close"}
    <2>1. ~closed[s] /\ pc'[t] = "call" /\ meth'[t] = meth[t]
      BY <1>1, <1>7, <1>a DEF Proceed, TypeOK
    <2>2. User(s)' = t
      BY <1>1, <1>7, <2>1 DEF User
    <2>3. Life(s) = "open" /\ Alive(s)
      BY <1>1, <1>a, <2>1 DEF Life, Alive, HandleInv
    <2>4. Life(s)' \in {"open", "closing"}
      <3>1. handle'[s] # Nobody /\ Alive(s)'
        BY <1>1, <1>2, <2>3 DEF Proceed
      <3> QED
        BY <3>1 DEF Life
    <2>5. Ideal!Enter(t, s)
      BY <1>1, <1>2, <1>3, <1>4, <1>5, <2>2, <2>3, <2>4, OneShown DEF Ideal!Enter
    <2> QED
      BY <1>1, <2>5 DEF Ideal!Next, Proceed, tokenVars
  <1> QED
    BY <1>6, <1>7

\* C_CloseSession ends the token session of the Session, and of no other: the
\* handle Close passes is its own.
LEMMA CloseShown ==
    ASSUME IdealInv, ~swept, NEW t \in Threads, CloseCall(t)
    PROVE  [Ideal!Next]_Ideal!vars
  <1>a. TypeOK /\ CallInv /\ MutexInv /\ LinkInv /\ HandleInv /\ OwnHandleOnly
    BY DEF IdealInv, BaseInv, OwnInv
  <1>b. Return(t, "call") /\ meth[t] = "Close" /\ UNCHANGED <<swept, handle, closed>>
    BY DEF CloseCall
  <1>1. CASE UNCHANGED <<owner, running>>
    BY <1>1, <1>b, ReturnShown DEF tokenVars
  <1>2. CASE /\ owner' = [owner EXCEPT ![Passed(t)] = Nobody]
             /\ running' = [running EXCEPT ![Passed(t)] = Idle]
    <2>1. PICK s \in Sessions :
              s = cur[t] /\ mu[s] = t /\ mu'[s] = Nobody /\ t # Nobody /\ handle[s] \in Handles
      BY <1>a, <1>b DEF Return, CallInv, MutexInv, TypeOK
    <2>2. owner[handle[s]] = s /\ closed[s]
      BY <2>1, <1>a, <1>b DEF Return, OwnHandleOnly, OwnHandleAlways, HandleInv
    <2>3. User(s) = t /\ User(s)' = Nobody
      BY <2>1, <1>b DEF User, Return
    <2>4. Life(s) = "closing"
      BY <2>1, <2>2 DEF Life, Alive
    <2>5. ~Alive(s)'
      BY <1>2, <1>b, <2>1, <1>a DEF Alive, TypeOK
    <2>6. Life(s)' = "gone" /\ Active(s)' = Nobody
      BY <1>b, <2>1, <2>2, <2>5 DEF Life, Active
    <2>7. ASSUME NEW r \in Sessions \ {s}
          PROVE  Life(r)' = Life(r) /\ Active(r)' = Active(r)
      <3>1. CASE handle[r] = handle[s]
        <4>1. ~Alive(r) /\ ~Alive(r)'
          BY <1>2, <1>b, <1>a, <2>1, <2>2, <3>1 DEF Alive, TypeOK
        <4> QED
          BY <4>1, <1>b DEF Life, Active
      <3>2. CASE handle[r] # handle[s]
        <4>1. Alive(r)' = Alive(r)
          BY <2>1, <1>2, <1>b, <1>a, <3>2 DEF Alive, TypeOK
        <4>2. Alive(r) => running'[handle[r]] = running[handle[r]]
          BY <2>1, <1>2, <1>a, <3>2 DEF Alive, TypeOK
        <4> QED
          BY <4>1, <4>2, <1>b DEF Life, Active
      <3> QED
        BY <3>1, <3>2
    <2>8. ASSUME NEW r \in Sessions \ {s} PROVE User(r)' = User(r)
      <3>1. mu[r] # t /\ mu'[r] = mu[r]
        BY <1>a, <1>b, <2>1 DEF LinkInv, Return, TypeOK
      <3>2. \A u \in Threads \ {t} : pc'[u] = pc[u] /\ meth'[u] = meth[u]
        BY <1>a, <1>b DEF Return, TypeOK
      <3> QED
        BY <1>a, <3>1, <3>2, UserElsewhere
    <2>9. Ideal!Closed(t, s)
      BY <2>1, <2>3, <2>4, <2>6, <2>7, <2>8, OneShown DEF Ideal!Closed
    <2> QED
      BY <2>1, <2>9, <1>b DEF Ideal!Next
  <1> QED
    BY <1>1, <1>2 DEF CloseCall

\* The token starts an operation in the Session of the goroutine that asks.
LEMMA InitShown ==
    ASSUME IdealInv, ~swept, NEW t \in Threads, InitStarts(t)
    PROVE  [Ideal!Next]_Ideal!vars
  <1>a. TypeOK /\ CallInv /\ MutexInv /\ LinkInv /\ OwnHandleOnly
    BY DEF IdealInv, BaseInv, OwnInv
  <1>1. PICK s \in Sessions :
            s = cur[t] /\ mu[s] = t /\ t # Nobody /\ handle[s] \in Handles
    BY <1>a DEF InitStarts, CallInv, MutexInv, TypeOK
  <1>2. \A r \in Sessions : Life(r)' = Life(r) /\ Alive(r)' = Alive(r)
    BY DEF InitStarts, sessVars, Life, Alive
  <1>3. ASSUME NEW r \in Sessions PROVE User(r)' = User(r)
    <2>1. \A u \in Threads : InModule(u)' = InModule(u) /\ meth'[u] = meth[u]
      BY <1>a DEF InitStarts, TypeOK
    <2> QED
      BY <2>1, <1>a DEF InitStarts, sessVars, User, TypeOK
  <1>4. CASE meth[t] = "Find"
    <2>1. ASSUME NEW h \in Handles PROVE running'[h]["crypt"] = running[h]["crypt"]
      BY <1>4, <1>a DEF InitStarts, TypeOK
    <2>2. \A r \in Sessions : Active(r)' = Active(r)
      BY <1>2, <2>1, <1>a DEF InitStarts, sessVars, Active, Alive, TypeOK
    <2> QED
      BY <1>2, <1>3, <2>2, NothingShown DEF InitStarts
  <1>5. CASE meth[t] = "Crypt"
    <2>1. owner[handle[s]] = s /\ ~closed[s]
      BY <1>1, <1>5, <1>a DEF InitStarts, OwnHandleOnly, OwnHandleAlways, LinkInv
    <2>2. User(s) = t /\ Life(s) = "open" /\ Alive(s)
      BY <1>1, <1>5, <2>1 DEF InitStarts, User, Life, Alive
    <2>3. Active(s) = Nobody /\ Active(s)' = t
      BY <1>1, <1>2, <1>5, <2>2, <1>a DEF InitStarts, sessVars, Active, TypeOK
    <2>4. ASSUME NEW r \in Sessions \ {s} PROVE Active(r)' = Active(r)
      <3>1. Alive(r) => handle[r] # handle[s] /\ handle[r] \in Handles
        BY <2>1, <1>a DEF Alive, TypeOK
      <3>2. Alive(r) => running'[handle[r]] = running[handle[r]]
        BY <1>1, <3>1, <1>a DEF InitStarts, TypeOK
      <3> QED
        BY <1>2, <3>2 DEF InitStarts, sessVars, Active
    <2>5. Ideal!Start(t, s)
      BY <1>1, <1>2, <1>3, <2>2, <2>3, <2>4, OneShown DEF Ideal!Start
    <2> QED
      BY <1>1, <2>5 DEF Ideal!Next, InitStarts
  <1> QED
    BY <1>4, <1>5 DEF InitStarts

\* The call that ends an operation ends the one its goroutine started.
LEMMA EndShown ==
    ASSUME IdealInv, ~swept, NEW t \in Threads, EndCall(t)
    PROVE  [Ideal!Next]_Ideal!vars
  <1>a. TypeOK /\ CallInv /\ MutexInv /\ LinkInv /\ OwnHandleOnly /\ NoCrossTalk
    BY DEF IdealInv, BaseInv, OwnInv
  <1>b. Return(t, "continue") /\ meth[t] = "Crypt" /\ UNCHANGED <<owner, swept, handle, closed>>
    BY DEF EndCall
  <1>1. PICK s \in Sessions :
            s = cur[t] /\ mu[s] = t /\ mu'[s] = Nobody /\ t # Nobody /\ handle[s] \in Handles
    BY <1>a, <1>b DEF Return, CallInv, MutexInv, TypeOK
  <1>2. \A r \in Sessions : Life(r)' = Life(r) /\ Alive(r)' = Alive(r)
    BY <1>b DEF Life, Alive
  <1>3. ASSUME NEW r \in Sessions \ {s} PROVE User(r)' = User(r)
    <2>1. mu[r] # t /\ mu'[r] = mu[r]
      BY <1>a, <1>b, <1>1 DEF LinkInv, Return, TypeOK
    <2>2. \A u \in Threads \ {t} : pc'[u] = pc[u] /\ meth'[u] = meth[u]
      BY <1>a, <1>b DEF Return, TypeOK
    <2> QED
      BY <1>a, <2>1, <2>2, UserElsewhere
  <1>4. owner[handle[s]] = s /\ running[handle[s]]["crypt"] = t
    BY <1>1, <1>a, <1>b DEF Return, OwnHandleOnly, OwnHandleAlways, NoCrossTalk
  <1>5. User(s) = t /\ User(s)' = Nobody
    BY <1>1, <1>b DEF User, Return
  <1>6. Alive(s) /\ Active(s) = t
    BY <1>1, <1>4 DEF Active, Alive
  <1>7. Active(s)' = Nobody
    BY <1>1, <1>2, <1>b, <1>6, <1>a DEF EndCall, Active, TypeOK
  <1>8. ASSUME NEW r \in Sessions \ {s} PROVE Active(r)' = Active(r)
    <2>1. Alive(r) => handle[r] # handle[s] /\ handle[r] \in Handles
      BY <1>4, <1>a DEF Alive, TypeOK
    <2>2. Alive(r) => running'[handle[r]] = running[handle[r]]
      BY <1>1, <2>1, <1>a DEF EndCall, TypeOK
    <2> QED
      BY <1>2, <1>b, <2>2 DEF Active
  <1>9. Ideal!Leave(t, s)
    BY <1>1, <1>2, <1>3, <1>5, <1>6, <1>7, <1>8, OneShown DEF Ideal!Leave
  <1> QED
    BY <1>1, <1>b, <1>9 DEF Ideal!Next

\* The end of a search is not shown.
LEMMA FinalShown ==
    ASSUME IdealInv, NEW t \in Threads, FindObjectsFinal(t)
    PROVE  [Ideal!Next]_Ideal!vars
  <1>1. Return(t, "continue") /\ UNCHANGED <<owner, swept, handle, closed>>
    BY DEF FindObjectsFinal
  <1>2. ASSUME NEW h \in Handles
        PROVE  running'[h]["crypt"] = running[h]["crypt"]
    <2>1. running \in [Handles -> [Kinds -> Threads \cup {Nobody, Stuck}]]
      BY DEF IdealInv, BaseInv, TypeOK
    <2>2. PICK w : running' = [running EXCEPT ![Passed(t)]["find"] = w]
      BY DEF FindObjectsFinal
    <2> QED
      BY <2>1, <2>2
  <1> QED
    BY <1>1, <1>2, ReturnShown

LEMMA StepShown ==
    ASSUME IdealInv, [Next]_vars
    PROVE  [Ideal!Next]_Ideal!vars
  <1>1. CASE UNCHANGED vars
    BY <1>1 DEF vars, tokenVars, sessVars, life, user, active, Life, User, Active, Alive, Ideal!vars
  <1>2. ASSUME NEW t \in Threads, CloseAllSessions(t) PROVE Ideal!Next
    BY <1>2 DEF CloseAllSessions, Ideal!Next
  <1>3. CASE Next /\ swept
    <2>1. swept' = TRUE
      BY <1>3 DEF IdealInv, BaseInv, TypeOK, Next, Step, OpenSession, CloseAllSessions, Invoke, Lock,
                  CheckFails, Proceed, SingleCall, CloseCall, InitFails, InitStarts,
                  FindBatch, FindObjectsFinal, EndCall, GiveUp, vars, tokenVars
    <2> QED
      BY <2>1 DEF Ideal!Next
  <1>4. ASSUME ~swept, NEW t \in Threads, Step(t) PROVE [Ideal!Next]_Ideal!vars
    <2>1. \/ \E from \in {"locked", "call", "continue"} :
                 Return(t, from) /\ UNCHANGED <<tokenVars, handle, closed>>
          \/ UNCHANGED vars
          \/ Proceed(t) \/ CloseCall(t) \/ InitStarts(t) \/ EndCall(t) \/ FindObjectsFinal(t)
      BY <1>4 DEF Step, CheckFails, SingleCall, InitFails, GiveUp, FindBatch
    <2>2. UNCHANGED <<tokenVars, handle, closed>>
              => /\ UNCHANGED <<owner, swept, handle, closed>>
                 /\ \A h \in Handles : running'[h]["crypt"] = running[h]["crypt"]
      BY DEF tokenVars
    <2> QED
      BY <2>1, <2>2, <1>1, <1>4, ReturnShown, ProceedShown, CloseShown, InitShown, EndShown, FinalShown
  <1> QED
    BY <1>1, <1>2, <1>3, <1>4, OpenShown, InvokeShown, LockShown DEF Next

\* Goroutines that share Sessions and end them with Session.Close have what
\* IdealSessions promises, whatever handles the token gives out
\* (p11/session.go).
THEOREM SessionsAreIdeal == Spec => IdealSpec
  <1>1. Init => Ideal!Init
    BY DEF Init, Ideal!Init, life, user, active, Life, User, Active, Alive
  <1>2. Init => LinkInv
    BY InitLink
  <1>3. BaseInv /\ LinkInv /\ [Next]_vars => LinkInv'
    BY NextLink
  <1>4. BaseInv /\ OwnInv /\ LinkInv /\ [Next]_vars => [Ideal!Next]_Ideal!vars
    BY StepShown DEF IdealInv
  <1> QED
    BY <1>1, <1>2, <1>3, <1>4, BaseInvariant, OwnInvariant, PTL DEF Spec, IdealSpec, Ideal!Spec
=============================================================================
