------------------------------- MODULE Lists -------------------------------
(***************************************************************************)
(* The methods that return a list: GetSlotList and GetMechanismList ask    *)
(* the module for the number of entries, allocate, and ask for the entries *)
(* in a second call; p11 FindObjects asks for batches until one is empty.  *)
(*                                                                         *)
(* A list is abstracted to its length.  The token may change between two   *)
(* calls.  The module answers by the rules of PKCS #11, or else with any   *)
(* code and any count; truthful remembers whether it has kept the rules.   *)
(***************************************************************************)
EXTENDS Naturals

CONSTANTS
    maxListLen,     \* the most entries a module may announce
    maxObjects,     \* the size of a batch of FindObjects
    Counts,         \* the counts a module may report
    maxFound        \* bound of the model: the most objects a search collects

ASSUME ListsAssumption ==
    /\ maxListLen \in Nat /\ maxObjects \in Nat \ {0} /\ maxFound \in Nat
    /\ Counts \subseteq Nat /\ 0 \in Counts

VARIABLES
    at,          \* where the method is
    entries,     \* slots, mechanisms, or matching objects not returned yet
    asked,       \* how many there were when the module was asked for them
    room,        \* entries the buffer of the last call has room for
    count,       \* the count the last call left behind
    code,        \* the code of the last call
    found,       \* the length of the slice returned, or collected so far
    outcome,
    truthful

listVars == <<at, entries, asked, room, count, code, found, outcome, truthful>>

Codes    == {"OK", "BUFFER_TOO_SMALL", "ERROR"}
Outcomes == {"none", "list", "failed", "panic"}

-----------------------------------------------------------------------------
ListInit ==
    /\ at = "start"
    /\ entries \in Counts
    /\ asked = entries
    /\ room = 0
    /\ count = 0
    /\ code = "OK"
    /\ found = 0
    /\ outcome = "none"
    /\ truthful = TRUE

Return(r) == at' = "end" /\ outcome' = r

\* The module reports k entries with code c, and these are within the rules ...
Reports(c, k) == code' = c /\ count' = k /\ truthful' = truthful

\* ... or it reports anything.  A hard error is always within the rules.
Anything ==
    /\ code' \in Codes
    /\ count' \in Counts
    /\ truthful' = (truthful /\ code' = "ERROR")

\* A slot or a mechanism comes or goes.
TokenChanges ==
    /\ at = "counted"
    /\ entries' \in Counts
    /\ UNCHANGED <<at, asked, room, count, code, found, outcome, truthful>>

-----------------------------------------------------------------------------
(* GetSlotList, GetMechanismList                                           *)

\* The first call: no buffer.
CountEntries ==
    /\ at = "start"
    /\ Reports("OK", entries) \/ Anything
    /\ at' = "counted"
    /\ asked' = entries
    /\ UNCHANGED <<entries, room, found, outcome>>

\* The call failed, or announced more entries than the limit.
Refuse ==
    /\ at = "counted"
    /\ code # "OK" \/ count > maxListLen
    /\ Return("failed")
    /\ UNCHANGED <<entries, asked, room, count, code, found, truthful>>

EmptyList ==
    /\ at = "counted"
    /\ code = "OK" /\ count = 0
    /\ Return("list")
    /\ UNCHANGED <<entries, asked, room, count, code, found, truthful>>

\* The second call: a buffer of the size the first one announced.
FetchEntries ==
    /\ at = "counted"
    /\ code = "OK" /\ count \in 1..maxListLen
    /\ room' = count
    /\ \/ entries <= room' /\ Reports("OK", entries)
       \/ entries > room' /\ Reports("BUFFER_TOO_SMALL", entries)
       \/ Anything
    /\ at' = "fetched"
    /\ asked' = entries
    /\ UNCHANGED <<entries, found, outcome>>

\* Mutant: a list that has outgrown the buffer is copied like any other.
FetchFails_GrowthIgnored ==
    /\ at = "fetched"
    /\ code # "OK"
    /\ IF code = "BUFFER_TOO_SMALL" /\ count > room THEN Return("panic") ELSE Return("failed")
    /\ UNCHANGED <<entries, asked, room, count, code, found, truthful>>

\* An error is the method's own, CKR_BUFFER_TOO_SMALL included: no second try.
FetchFails ==
    /\ at = "fetched"
    /\ code # "OK"
    /\ Return("failed")
    /\ UNCHANGED <<entries, asked, room, count, code, found, truthful>>

\* As many entries as the second call reports; an index past the buffer panics.
Collected ==
    /\ at = "fetched"
    /\ code = "OK"
    /\ IF count <= room THEN found' = count /\ Return("list")
                        ELSE UNCHANGED found /\ Return("panic")
    /\ UNCHANGED <<entries, asked, room, count, code, truthful>>

-----------------------------------------------------------------------------
(* p11 Session.FindObjects, over Ctx.FindObjectsInit, FindObjects and      *)
(* FindObjectsFinal.  What matches is settled by the first.                *)

SearchInit ==
    /\ at = "start"
    /\ \/ Reports("OK", 0) /\ at' = "search" /\ UNCHANGED outcome
       \/ Reports("ERROR", 0) /\ Return("failed")
    /\ UNCHANGED <<entries, asked, room, found>>

\* A batch: some of the objects that are left, and none only when none is left.
FetchBatch ==
    /\ at = "search"
    /\ room' = maxObjects
    /\ \/ \E k \in 0..maxObjects :
              /\ k <= entries /\ (k = 0 => entries = 0)
              /\ Reports("OK", k)
              /\ entries' = entries - k
       \/ Anything /\ UNCHANGED entries
    /\ at' = "batch"
    /\ UNCHANGED <<asked, found, outcome>>

\* The search is finished and its objects are dropped.
BatchFails ==
    /\ at = "batch"
    /\ code # "OK"
    /\ found' = 0
    /\ Return("failed")
    /\ UNCHANGED <<entries, asked, room, count, code, truthful>>

BatchPanics ==
    /\ at = "batch"
    /\ code = "OK" /\ count > room
    /\ Return("panic")
    /\ UNCHANGED <<entries, asked, room, count, code, found, truthful>>

\* Mutant: a batch that is not full is taken for the last one.
BatchTaken_ShortIsLast ==
    /\ at = "batch"
    /\ code = "OK" /\ count \in 1..room
    /\ found + count <= maxFound
    /\ found' = found + count
    /\ IF count < room THEN Return("list") ELSE at' = "search" /\ UNCHANGED outcome
    /\ UNCHANGED <<entries, asked, room, count, code, truthful>>

BatchTaken ==
    /\ at = "batch"
    /\ code = "OK" /\ count \in 1..room
    /\ found + count <= maxFound
    /\ found' = found + count
    /\ at' = "search"
    /\ UNCHANGED <<entries, asked, room, count, code, outcome, truthful>>

\* Mutant: an empty batch is no reason to stop.
LastBatch_AsksAgain ==
    /\ at = "batch"
    /\ code = "OK" /\ count = 0
    /\ at' = "search"
    /\ UNCHANGED <<entries, asked, room, count, code, found, outcome, truthful>>

\* An empty batch ends the loop; an error of C_FindObjectsFinal is returned
\* together with the objects.
LastBatch ==
    /\ at = "batch"
    /\ code = "OK" /\ count = 0
    /\ code' \in {"OK", "ERROR"}
    /\ IF code' = "OK" THEN Return("list") ELSE Return("failed")
    /\ UNCHANGED <<entries, asked, room, count, found, truthful>>

GetList     == CountEntries \/ Refuse \/ EmptyList \/ FetchEntries \/ FetchFails \/ Collected
FindObjects == SearchInit \/ FetchBatch \/ BatchFails \/ BatchPanics \/ BatchTaken \/ LastBatch

ListNext == TokenChanges \/ GetList \/ FindObjects

-----------------------------------------------------------------------------
(***************************************************************************)
(* With a module that keeps the rules, a list that is returned is the one  *)
(* the token had when it was asked for it - every entry and nothing after  *)
(* them - although the buffer was sized for an earlier one, and although a *)
(* batch of a search need not be full (slot.go GetSlotList,                *)
(* GetMechanismList; p11/session.go FindObjects).                          *)
(***************************************************************************)
ListIsWhole ==
    /\ at \in {"start", "counted", "fetched", "search", "batch", "end"}
    /\ code \in Codes /\ outcome \in Outcomes
    /\ truthful /\ outcome = "list" => found = asked

(***************************************************************************)
(* Copying out a list indexes past the buffer only after a module claimed, *)
(* with CKR_OK, more entries than it was given room for: a list that grew  *)
(* between the two calls is an error (slot.go GetSlotList,                 *)
(* GetMechanismList; object.go FindObjects).                               *)
(***************************************************************************)
PanicOnlyOnOverclaim == outcome = "panic" => ~truthful /\ code = "OK" /\ count > room

(***************************************************************************)
(* The loop of FindObjects ends, with the session mutex it holds, unless   *)
(* the module breaks the rules: it is the module's empty batch that ends   *)
(* it (p11/session.go FindObjects).                                        *)
(***************************************************************************)
SearchEnds == at = "search" ~> (at = "end" \/ ~truthful)
=============================================================================
