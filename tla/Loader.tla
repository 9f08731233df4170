------------------------------- MODULE Loader -------------------------------
(***************************************************************************)
(* Several p11.Modules that are opened on one library path: the native     *)
(* loader (shim.c ck_load, ck_resolve_v32, ck_unload) under OpenModule and *)
(* Close.                                                                  *)
(*                                                                         *)
(* The dynamic linker maps a library once, however often it is opened, and *)
(* counts the handles.  The Modules therefore share what the library keeps *)
(* in its own memory: whether it is initialised.  A library that is        *)
(* unmapped loses that, and every pointer into it dangles.  What happens   *)
(* inside a Ctx once it is loaded is the subject of Ctx and P11Module.     *)
(***************************************************************************)
EXTENDS Naturals, FiniteSets

CONSTANTS
    Modules,     \* the p11.Modules of the process, all on one path
    Versions,    \* interface versions, 10 * major + minor
    NULL

ASSUME LoaderAssumption ==
    /\ IsFiniteSet(Modules)
    /\ Versions \subseteq Nat
    /\ NULL \notin Nat

VARIABLES
    lib,           \* what the library offers
    refs,          \* handles dlopen has given out and dlclose has not taken back
    initialized,   \* the library's own state
    phase,         \* phase[m]: where OpenModule or Close of m is
    fns,           \* fns[m]: the base function list, "live" or "dangling"
    fns32,         \* fns32[m]: the version of the 3.2 function list, or NULL
    fnsBase        \* fnsBase[m]: the list the common entry points go through

native == <<refs, initialized>>
lists  == <<fns, fns32, fnsBase>>
vars   == <<lib, native, phase, lists>>

want == 32    \* CK_VERSION want = {3, 2}
base == 20    \* the version of the base function list

Loading == {"linked", "listed", "default", "resolved"}
Phases  == Loading \cup {"new", "failed", "loaded", "undo", "open", "finalized", "closed"}

\* m has a handle of the library.
Holds(m) == phase[m] \in Loading \cup {"loaded", "undo", "open", "finalized"}

\* What libraries there are: with or without either entry point; interfaces
\* offered by version, one of them the default; some ignore the version they
\* are asked for; some stay mapped when the last handle is closed.
Libraries ==
    {l \in [list : BOOLEAN, interface : BOOLEAN, offers : SUBSET Versions,
            default : Versions \cup {NULL}, exact : BOOLEAN, resident : BOOLEAN] :
        l.default \in l.offers \cup {NULL}}

Goto(m, from, to) ==
    /\ phase[m] \in from
    /\ phase' = [phase EXCEPT ![m] = to]

-----------------------------------------------------------------------------
Init ==
    /\ lib \in Libraries
    /\ refs = 0
    /\ initialized = FALSE
    /\ phase   = [m \in Modules |-> "new"]
    /\ fns     = [m \in Modules |-> NULL]
    /\ fns32   = [m \in Modules |-> NULL]
    /\ fnsBase = [m \in Modules |-> NULL]

\* ck_close and free(m): with the last handle the library goes, and what
\* pointed into it dangles.
Release(m) ==
    LET unmapped == refs = 1 /\ ~lib.resident
        left     == [fns EXCEPT ![m] = NULL]
    IN  /\ refs' = refs - 1
        /\ initialized' = (initialized /\ ~unmapped)
        /\ fns' = IF unmapped
                  THEN [x \in Modules |-> IF left[x] = NULL THEN NULL ELSE "dangling"]
                  ELSE left
        /\ fns32'   = [fns32 EXCEPT ![m] = NULL]
        /\ fnsBase' = [fnsBase EXCEPT ![m] = NULL]

\* New fails before there is a handle: a relative path, no memory, dlopen.
OpenFails(m) ==
    /\ Goto(m, {"new", "failed", "closed"}, "failed")
    /\ UNCHANGED <<lib, native, lists>>

\* dlopen.
Dlopen(m) ==
    /\ Goto(m, {"new", "failed", "closed"}, "linked")
    /\ refs' = refs + 1
    /\ UNCHANGED <<lib, initialized, lists>>

\* Mutant: the failure path of ck_load frees m and forgets the handle.
GetListFails_KeepsHandle(m) ==
    /\ Goto(m, {"linked"}, "failed")
    /\ UNCHANGED <<lib, native, lists>>

\* No C_GetFunctionList, or it fails, or it leaves m->fns NULL.
GetListFails(m) ==
    /\ Goto(m, {"linked"}, "failed")
    /\ Release(m)
    /\ UNCHANGED lib

GetList(m) ==
    /\ Goto(m, {"linked"}, "listed")
    /\ lib.list
    /\ fns' = [fns EXCEPT ![m] = "live"]
    /\ UNCHANGED <<lib, native, fns32, fnsBase>>

-----------------------------------------------------------------------------
(* ck_resolve_v32.                                                         *)

\* C_GetInterface("PKCS 11", version): NULL for an error and for CKR_OK without
\* an interface.
Interface(version) ==
    IF version = NULL \/ ~lib.exact THEN lib.default
    ELSE IF version \in lib.offers THEN version ELSE NULL

\* The 3.2 list is kept if its version is at least 3.2.
Keep(m, version) ==
    fns32' = [fns32 EXCEPT ![m] = IF version # NULL /\ version >= want THEN version ELSE NULL]

\* No C_GetInterface, or one whose interfaces have no function list.
NoInterface(m) ==
    /\ ~lib.interface
    /\ Goto(m, {"listed"}, "resolved")
    /\ UNCHANGED <<lib, native, lists>>

\* Mutant: only the default interface is asked for.
AskVersion_DefaultOnly(m) ==
    /\ lib.interface
    /\ Goto(m, {"listed"}, "default")
    /\ UNCHANGED <<lib, native, lists>>

\* Version 3.2 by name; the default interface when there is none.
AskVersion(m) ==
    /\ lib.interface
    /\ IF Interface(want) = NULL
       THEN Goto(m, {"listed"}, "default") /\ UNCHANGED fns32
       ELSE Goto(m, {"listed"}, "resolved") /\ Keep(m, Interface(want))
    /\ UNCHANGED <<lib, native, fns, fnsBase>>

AskDefault(m) ==
    /\ Goto(m, {"default"}, "resolved")
    /\ Keep(m, Interface(NULL))
    /\ UNCHANGED <<lib, native, fns, fnsBase>>

\* ck_load returns; New returns the Ctx.
Loaded(m) ==
    /\ Goto(m, {"resolved"}, "loaded")
    /\ fnsBase' = [fnsBase EXCEPT ![m] = IF fns32[m] # NULL THEN fns32[m] ELSE base]
    /\ UNCHANGED <<lib, native, fns, fns32>>

-----------------------------------------------------------------------------
(* p11/module.go.                                                          *)

\* OpenModule: C_Initialize, which refuses when the library is initialised
\* already, by whomever, and may fail for reasons of its own.
Initialize(m) ==
    /\ ~initialized
    /\ Goto(m, {"loaded"}, "open")
    /\ initialized' = TRUE
    /\ UNCHANGED <<lib, refs, lists>>

InitializeFails(m) ==
    /\ Goto(m, {"loaded"}, "undo")
    /\ UNCHANGED <<lib, native, lists>>

\* Mutant: the failed OpenModule cleans up with Close.
Undo_Finalizes(m) ==
    /\ Goto(m, {"undo"}, "finalized")
    /\ initialized' = FALSE
    /\ UNCHANGED <<lib, refs, lists>>

\* ... and calls Destroy.
Undo(m) ==
    /\ Goto(m, {"undo"}, "failed")
    /\ Release(m)
    /\ UNCHANGED lib

\* Close: C_Finalize, which may fail, and Destroy all the same.
Finalize(m) ==
    /\ Goto(m, {"open"}, "finalized")
    /\ initialized' \in {FALSE, initialized}
    /\ UNCHANGED <<lib, refs, lists>>

Destroy(m) ==
    /\ Goto(m, {"finalized"}, "closed")
    /\ Release(m)
    /\ UNCHANGED lib

-----------------------------------------------------------------------------
Load(m) ==
    \/ OpenFails(m) \/ Dlopen(m) \/ GetListFails(m) \/ GetList(m)
    \/ NoInterface(m) \/ AskVersion(m) \/ AskDefault(m) \/ Loaded(m)

OpenClose(m) ==
    \/ Initialize(m) \/ InitializeFails(m) \/ Undo(m)
    \/ Finalize(m) \/ Destroy(m)

Next == \E m \in Modules : Load(m) \/ OpenClose(m)

Spec == Init /\ [][Next]_vars

-----------------------------------------------------------------------------
TypeOK ==
    /\ lib \in Libraries
    /\ refs \in Nat
    /\ initialized \in BOOLEAN
    /\ phase   \in [Modules -> Phases]
    /\ fns     \in [Modules -> {NULL, "live", "dangling"}]
    /\ fns32   \in [Modules -> Versions \cup {NULL}]
    /\ fnsBase \in [Modules -> Versions \cup {NULL, base}]

(***************************************************************************)
(* Every handle dlopen gave out belongs to a Module that will give it      *)
(* back: no failure path of ck_load or OpenModule loses one, and none is   *)
(* given back twice (shim.c ck_load, ck_unload).                           *)
(***************************************************************************)
HandlesBalanced == TypeOK /\ refs = Cardinality({m \in Modules : Holds(m)})

(***************************************************************************)
(* While a Module is open, its library is mapped and initialised and its   *)
(* function lists are those of this mapping - whatever other Modules on    *)
(* the same path do, in particular when an OpenModule fails because the    *)
(* library is initialised already (p11/module.go OpenModule, Close).       *)
(***************************************************************************)
OpenIsUsable ==
    \A m \in Modules : phase[m] = "open" => refs > 0 /\ initialized /\ fns[m] = "live"

\* The library has a 3.2 interface that one of the two lookups returns.
OffersV32 ==
    /\ lib.interface
    /\ \/ lib.exact /\ want \in lib.offers
       \/ lib.default # NULL /\ lib.default >= want

(***************************************************************************)
(* A loaded Ctx goes through a 3.2 list if and only if the library returns *)
(* one for version 3.2 or as its default, also if its default is an older  *)
(* one (shim.c ck_resolve_v32: "a module whose default is 3.0 but which    *)
(* also implements 3.2 would otherwise be treated as having no 3.2         *)
(* interface"); it is the one SupportsV32 tells of.                        *)
(***************************************************************************)
V32Negotiated ==
    \A m \in Modules : phase[m] \in {"loaded", "undo", "open", "finalized"} =>
        /\ OffersV32 <=> fns32[m] # NULL
        /\ fnsBase[m] = IF OffersV32 THEN fns32[m] ELSE base
        /\ fns32[m] # NULL => fns32[m] >= want
=============================================================================
