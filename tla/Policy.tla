------------------------------- MODULE Policy -------------------------------
(***************************************************************************)
(* The process-wide mechanism policy of package cryptoki, and one          *)
(* Mechanism on its way through it: the policy is consulted when the       *)
(* Mechanism is constructed and again when it is passed to an operation,   *)
(* for the mechanism and for each digest its parameter names.  Other       *)
(* goroutines may install another policy between any two of these checks.  *)
(*                                                                         *)
(* A policy is the set of identifiers it allows; Ids stands for nil.  The  *)
(* operations that take a Mechanism begin at pc = "allowed".               *)
(***************************************************************************)
EXTENDS Sequences

CONSTANTS
    Ids,         \* mechanisms and digests
    Policies,    \* the policies the application installs
    Digests      \* hashMechanisms() of the parameters, <<>> for a raw one

ASSUME PolicyAssumption ==
    /\ Policies \subseteq SUBSET Ids
    /\ Digests \subseteq Seq(Ids)
    /\ <<>> \in Digests

VARIABLES
    policy,    \* the installed policy
    pc,
    mech,      \* the Mechanism: its type and the digests of its parameter
    todo,      \* what the running check has yet to ask the policy about
    since      \* the policies in force at some time during the last check

policyVars == <<policy, pc, mech, todo, since>>

Mechanisms == [type : Ids, digests : Digests]

\* What the check of a Mechanism asks about, in this order.
Asked(m) == <<m.type>> \o m.digests

Checking == pc \in {"construct", "check"}

-----------------------------------------------------------------------------
PolicyInit ==
    /\ policy = Ids
    /\ pc = "start"
    /\ mech \in Mechanisms
    /\ todo = <<>>
    /\ since = {}

\* Another goroutine calls SetMechanismPolicy.
SetMechanismPolicy ==
    /\ policy' \in Policies
    /\ since' = IF Checking THEN since \cup {policy'} ELSE since
    /\ UNCHANGED <<pc, mech, todo>>

StartCheck(from, to, ids) ==
    /\ pc = from
    /\ pc' = to
    /\ todo' = ids
    /\ since' = {policy}
    /\ UNCHANGED <<policy, mech>>

\* NewMechanism (a raw parameter) and NewMechanismWithParams.
NewMechanism == StartCheck("start", "construct", Asked(mech))

\* A struct literal of another package; its parameter can only be raw.
Literal ==
    /\ pc = "start"
    /\ mech.digests = <<>>
    /\ pc' = "made"
    /\ UNCHANGED <<policy, mech, todo, since>>

\* The application assigns to the exported field Mechanism.
Retarget ==
    /\ pc = "made"
    /\ \E id \in Ids : mech' = [mech EXCEPT !.type = id]
    /\ UNCHANGED <<policy, pc, todo, since>>

\* Mutant: the digests are only looked at when the Mechanism is constructed.
cMechanism_TypeOnly == StartCheck("made", "check", <<mech.type>>)

\* cMechanism: checkMechanismUse, whatever was checked before.
cMechanism == StartCheck("made", "check", Asked(mech))

\* checkMechanism of the next identifier; the policy is read under its lock.
checkMechanism ==
    /\ Checking
    /\ todo # <<>>
    /\ IF Head(todo) \in policy
       THEN /\ todo' = Tail(todo)
            /\ pc' = pc
       ELSE /\ todo' = <<>>
            /\ pc' = IF pc = "construct" THEN "panicked" ELSE "rejected"
    /\ UNCHANGED <<policy, mech, since>>

CheckPassed ==
    /\ Checking
    /\ todo = <<>>
    /\ pc' = IF pc = "construct" THEN "made" ELSE "allowed"
    /\ UNCHANGED <<policy, mech, todo, since>>

PolicyNext ==
    \/ NewMechanism \/ Literal \/ Retarget
    \/ cMechanism \/ checkMechanism \/ CheckPassed

-----------------------------------------------------------------------------
PolicyTypeOK ==
    /\ policy \in SUBSET Ids
    /\ mech \in Mechanisms
    /\ todo \in Seq(Ids)
    /\ since \subseteq SUBSET Ids

NamedIds == {Asked(mech)[i] : i \in DOMAIN Asked(mech)}

(***************************************************************************)
(* A Mechanism is handed to the module only if the policy allowed its type *)
(* and every digest its parameter names while the operation was checking   *)
(* it - not at construction, before the policy or the Mechanism was        *)
(* changed - and it is refused only if a policy in force during the check  *)
(* refuses one of them (policy.go: "so a Mechanism built as a struct       *)
(* literal cannot bypass it").  Reached says that the module may have it.  *)
(***************************************************************************)
Judged(reached) ==
    /\ reached => \A id \in NamedIds : \E p \in since : id \in p
    /\ pc = "rejected" => \E id \in NamedIds, p \in since : id \notin p
=============================================================================
