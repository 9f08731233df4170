--------------------------- MODULE SessionOutput ---------------------------
(***************************************************************************)
(* outOp inside the methods that use it: one session, whose output methods *)
(* run outOp statement by statement while the token executes the calls and *)
(* the caller waits for the result.  SessionOps takes the data pass of an  *)
(* output method for one step with four outcomes; this module shows that   *)
(* outOp has no other.                                                     *)
(*                                                                         *)
(* The token changes what is active when it executes a call, the caller    *)
(* learns of it when the method returns.  Between methods the variables of *)
(* OutOp have their initial values.                                        *)
(***************************************************************************)
EXTENDS OutOp, FiniteSets

CONSTANTS
    session,       \* the session's handle
    maxActive      \* how many operations it holds at a time

VARIABLES
    open, active, believed, abandoned, pending    \* as in SessionOps

sessionVars == <<open, active, believed, abandoned, pending>>
allVars     == <<vars, sessionVars>>

\* The methods, on the token's own state ...
T == INSTANCE SessionOps WITH Handles <- {session}

\* ... and the session as SessionOps sees it: what a method works on is active
\* until the method returns.
S == INSTANCE SessionOps WITH
         Handles <- {session},
         active  <- [h \in {session} |-> active[h] \cup pending[h].uses]

-----------------------------------------------------------------------------
SInit == Init /\ T!Init

\* The methods that do not use outOp.
Plain ==
    /\ pc = "sizing"
    /\ \/ T!OpenSession(session) \/ T!CloseSession(session) \/ T!CloseAllSessions
       \/ T!OneCall(session)
    /\ Cardinality(active'[session]) <= maxActive
    /\ UNCHANGED vars

\* An output method is called: the sizing pass, which returns if it fails.
Begin ==
    /\ Sizing
    /\ T!TwoCalls(session, rv')

\* The token executes the data pass, or reports CKR_BUFFER_TOO_SMALL.
Data ==
    /\ DataPass
    /\ \/ rv' = "OK"               /\ active' = [active EXCEPT ![session] = @ \ pending[session].ends]
       \/ rv' = "ERROR"            /\ active' = [active EXCEPT ![session] = @ \ pending[session].uses]
       \/ rv' = "BUFFER_TOO_SMALL" /\ active' = active
    /\ UNCHANGED <<open, believed, abandoned, pending>>

\* The other steps of outOp are Go code.
Local ==
    /\ Exhausted \/ TooLarge \/ Allocate \/ Retry \/ Fail \/ Overclaim \/ Copy
    /\ UNCHANGED sessionVars

\* The caller's belief after the method p, with what the token holds active now.
Believe(bel) == T!Settle(session, active[session], bel)

\* What the caller makes of the result of the method p: bytes and PKCS #11 errors
\* tell it the state; an error of outOp's own does not.
Conclude(p) ==
    \/ result = "bytes"        /\ Believe((believed[session] \cup p.uses) \ p.ends)
    \/ result = "module_error" /\ Believe(believed[session] \ p.uses)
    \/ result \notin {"bytes", "module_error"} /\ T!GiveUp(session, active[session])

\* The locals of outOp are gone; the next call of it starts afresh.
Reset ==
    /\ pc' = "sizing" /\ result' = "none"
    /\ n' = 0 /\ allocCap' = 0 /\ retries' = 0 /\ heap' = 0 /\ calls' = 0 /\ outLen' = 0
    /\ rv' = "OK" /\ exact' = TRUE /\ due' = TRUE

\* The method returns.  A sizing pass that failed has told the caller already.
Finish ==
    /\ pc = "done"
    /\ IF pending[session].data
       THEN /\ Conclude(pending[session])
            /\ pending' = [pending EXCEPT ![session] = T!NoCall]
       ELSE UNCHANGED <<active, believed, abandoned, pending>>
    /\ Reset
    /\ UNCHANGED open

SNext == Plain \/ Begin \/ Data \/ Local \/ Finish

SSpec == SInit /\ [][SNext]_allVars

(***************************************************************************)
(* A method that has been called runs: it is one goroutine's own code, and *)
(* calls into the module return.                                           *)
(***************************************************************************)
FairSpec == SSpec /\ WF_allVars(Data \/ Local \/ Finish)

-----------------------------------------------------------------------------
(***************************************************************************)
(* Output methods as written are the output methods of SessionOps: an      *)
(* answer to the size question, and one of four outcomes - however often   *)
(* outOp calls the module, and whatever lengths it is told (sign.go,       *)
(* crypt.go, digest.go, combined.go over marshal.go outOp).                *)
(***************************************************************************)
OpsSpec == S!Spec

(***************************************************************************)
(* What the methods return tells the caller the state of the session: the  *)
(* operations active in the token are the ones the results so far say are  *)
(* active, together with those outOp abandoned at a limit of its own.  In  *)
(* particular a method that fails with an error of the token leaves        *)
(* nothing behind, and one that succeeds has been executed.                *)
(***************************************************************************)
ResultsTellState == S!TypeOK /\ S!ResultsTellState

(***************************************************************************)
(* Every method that is called returns, also with a module that answers    *)
(* CKR_BUFFER_TOO_SMALL for ever (marshal.go "Retries are bounded by       *)
(* maxRetries").                                                           *)
(***************************************************************************)
MethodsReturn == (pc # "sizing") ~> (pc = "sizing")
=============================================================================
