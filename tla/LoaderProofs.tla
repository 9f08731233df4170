---------------------------- MODULE LoaderProofs ----------------------------
(***************************************************************************)
(* Proofs about Loader, for any finite set of Modules and any versions.    *)
(***************************************************************************)
EXTENDS Loader, FiniteSetTheorems, TLAPS

Holders == {m \in Modules : Holds(m)}

RefsInv == refs = Cardinality(Holders)

Unlisted == {"new", "linked", "failed", "closed"}
Resolved == {"resolved", "loaded", "undo", "open", "finalized"}
Returned == {"loaded", "undo", "open", "finalized"}

\* A Module has lists exactly from C_GetFunctionList to ck_unload.
ListInv ==
    \A m \in Modules :
        IF phase[m] \in Unlisted THEN fns[m] = NULL /\ fns32[m] = NULL
                                 ELSE fns[m] = "live"

\* C_Initialize succeeds for one Module at a time.
OpenInv ==
    /\ \A m \in Modules : phase[m] = "open" => initialized
    /\ \A m, x \in Modules : phase[m] = "open" /\ phase[x] = "open" => m = x

V32Inv ==
    \A m \in Modules :
        /\ phase[m] = "listed" => fns32[m] = NULL
        /\ phase[m] = "default" => lib.interface /\ Interface(want) = NULL /\ fns32[m] = NULL
        /\ phase[m] \in Resolved =>
              /\ OffersV32 <=> fns32[m] # NULL
              /\ fns32[m] # NULL => fns32[m] >= want
        /\ phase[m] \in Returned => fnsBase[m] = IF OffersV32 THEN fns32[m] ELSE base

IInv == TypeOK /\ RefsInv /\ ListInv /\ OpenInv /\ V32Inv

USE DEF Loading

-----------------------------------------------------------------------------
(* The handles, counted.                                                   *)

LEMMA HoldersFinite == IsFiniteSet(Holders) /\ Cardinality(Holders) \in Nat
  <1>1. Holders \subseteq Modules
    BY DEF Holders
  <1> QED
    BY <1>1, LoaderAssumption, FS_Subset, FS_CardinalityType DEF LoaderAssumption

LEMMA HoldersSame ==
    ASSUME RefsInv, refs' = refs, \A x \in Modules : Holds(x)' <=> Holds(x)
    PROVE  RefsInv'
  <1>1. Holders' = Holders
    BY DEF Holders
  <1> QED
    BY <1>1 DEF RefsInv

LEMMA HoldersUp ==
    ASSUME NEW m \in Modules, RefsInv, refs' = refs + 1, ~Holds(m), Holds(m)',
           \A x \in Modules \ {m} : Holds(x)' <=> Holds(x)
    PROVE  RefsInv'
  <1>1. Holders' = Holders \cup {m} /\ m \notin Holders
    BY DEF Holders
  <1>2. Cardinality(Holders \cup {m}) = Cardinality(Holders) + 1
    BY <1>1, HoldersFinite, FS_AddElement
  <1> QED
    BY <1>1, <1>2 DEF RefsInv

\* A handle given back; with the last one nobody else holds any.
LEMMA HoldersDown ==
    ASSUME NEW m \in Modules, RefsInv, refs' = refs - 1, Holds(m), ~Holds(m)',
           \A x \in Modules \ {m} : Holds(x)' <=> Holds(x)
    PROVE  /\ RefsInv' /\ refs' \in Nat
           /\ refs = 1 => \A x \in Modules \ {m} : ~Holds(x)
  <1>1. Holders' = Holders \ {m} /\ m \in Holders
    BY DEF Holders
  <1>2. IsFiniteSet(Holders \ {m}) /\ Cardinality(Holders \ {m}) = Cardinality(Holders) - 1
    BY <1>1, HoldersFinite, FS_RemoveElement
  <1>3. Cardinality(Holders \ {m}) \in Nat
        /\ (Cardinality(Holders \ {m}) = 0 <=> Holders \ {m} = {})
    BY <1>2, FS_CardinalityType, FS_EmptySet
  <1>4. refs = 1 => Holders \ {m} = {}
    BY <1>2, <1>3, HoldersFinite DEF RefsInv
  <1>5. refs = 1 => \A x \in Modules \ {m} : ~Holds(x)
    BY <1>4 DEF Holders
  <1> QED
    BY <1>1, <1>2, <1>3, <1>5 DEF RefsInv

\* A Module that holds a handle is counted.
LEMMA HolderCounted ==
    ASSUME NEW m \in Modules, RefsInv, Holds(m)
    PROVE  refs \in Nat /\ refs > 0
  <1>1. m \in Holders
    BY DEF Holders
  <1>2. Cardinality(Holders) # 0
    BY <1>1, HoldersFinite, FS_EmptySet
  <1> QED
    BY <1>2, HoldersFinite DEF RefsInv

-----------------------------------------------------------------------------
(* ck_unload leaves every other Module what it had.                        *)

LEMMA ReleaseKeeps ==
    ASSUME NEW m \in Modules, IInv, Release(m), UNCHANGED lib, Holds(m),
           phase' \in [Modules -> Phases], phase'[m] \in {"failed", "closed"},
           \A x \in Modules \ {m} : phase'[x] = phase[x]
    PROVE  IInv'
  <1> USE DEF IInv
  <1>1. /\ ~Holds(m)'
        /\ \A x \in Modules \ {m} : Holds(x)' <=> Holds(x)
    BY DEF Holds
  <1>2. /\ RefsInv' /\ refs' \in Nat
        /\ refs = 1 => \A x \in Modules \ {m} : ~Holds(x)
    BY <1>1, HoldersDown DEF Release
  <1>3. /\ fns'[m] = NULL
        /\ \A x \in Modules \ {m} : fns'[x] \in {fns[x], NULL, "dangling"}
        /\ \A x \in Modules \ {m} : Holds(x) \/ fns[x] = NULL => fns'[x] = fns[x]
    BY <1>2 DEF Release, TypeOK
  <1>4. /\ fns32' = [fns32 EXCEPT ![m] = NULL]
        /\ fnsBase' = [fnsBase EXCEPT ![m] = NULL]
    BY DEF Release
  <1>5. \A x \in Modules \ {m} : phase[x] \in Unlisted => fns[x] = NULL
    BY DEF ListInv
  <1>6. \A x \in Modules \ {m} : phase[x] \notin Unlisted => Holds(x)
    BY DEF TypeOK, Phases, Holds, Unlisted
  <1>7. \A x \in Modules \ {m} : fns'[x] = fns[x]
    BY <1>3, <1>5, <1>6
  <1>8. TypeOK'
    <2>1. fns' \in [Modules -> {NULL, "live", "dangling"}]
      BY DEF Release, TypeOK
    <2>2. initialized' \in BOOLEAN
      BY DEF Release
    <2> QED
      BY <2>1, <2>2, <1>2, <1>4 DEF TypeOK
  <1>9. ListInv'
    BY <1>3, <1>4, <1>7 DEF ListInv, Unlisted, TypeOK
  <1>10. OpenInv'
    <2>1. \A x \in Modules : phase'[x] = "open" => x # m /\ Holds(x) /\ phase[x] = "open"
      BY DEF Holds
    <2>2. \A x \in Modules : phase'[x] = "open" => initialized'
      BY <2>1, <1>2 DEF Release, OpenInv
    <2> QED
      BY <2>1, <2>2 DEF OpenInv
  <1>11. V32Inv'
    BY <1>4 DEF V32Inv, OffersV32, Interface, Resolved, Returned, TypeOK
  <1> QED
    BY <1>2, <1>8, <1>9, <1>10, <1>11

-----------------------------------------------------------------------------
(* The inductive invariant.                                                *)

LEMMA InitIInv == Init => IInv
  <1> SUFFICES ASSUME Init PROVE IInv
    OBVIOUS
  <1>1. TypeOK
    BY DEF Init, TypeOK, Phases
  <1>2. RefsInv
    <2>1. Holders = {}
      BY DEF Init, Holders, Holds
    <2> QED
      BY <2>1, FS_EmptySet DEF Init, RefsInv
  <1>3. ListInv /\ OpenInv /\ V32Inv
    BY DEF Init, ListInv, OpenInv, V32Inv, Unlisted, Resolved, Returned
  <1> QED
    BY <1>1, <1>2, <1>3 DEF IInv

LEMMA LoadKeeps ==
    ASSUME NEW m \in Modules, IInv, Load(m)
    PROVE  IInv'
  <1> USE DEF IInv, Goto
  <1>1. CASE OpenFails(m)
    <2>1. TypeOK'
      BY <1>1 DEF OpenFails, TypeOK, Phases, native, lists
    <2>2. RefsInv'
      <3>1. \A x \in Modules : Holds(x)' <=> Holds(x)
        BY <1>1 DEF OpenFails, TypeOK, Holds
      <3> QED
        BY <1>1, <3>1, HoldersSame DEF OpenFails, native
    <2>3. ListInv' /\ OpenInv'
      BY <1>1 DEF OpenFails, TypeOK, ListInv, OpenInv, Unlisted, native, lists
    <2>4. V32Inv'
      BY <1>1 DEF OpenFails, TypeOK, V32Inv, OffersV32, Interface, Resolved, Returned, lists
    <2> QED
      BY <2>1, <2>2, <2>3, <2>4
  <1>2. CASE Dlopen(m)
    <2>1. RefsInv'
      <3>1. ~Holds(m) /\ Holds(m)' /\ \A x \in Modules \ {m} : Holds(x)' <=> Holds(x)
        BY <1>2 DEF Dlopen, TypeOK, Holds
      <3> QED
        BY <1>2, <3>1, HoldersUp DEF Dlopen
    <2>2. TypeOK'
      BY <1>2 DEF Dlopen, TypeOK, Phases, lists
    <2>3. ListInv' /\ OpenInv'
      BY <1>2 DEF Dlopen, TypeOK, ListInv, OpenInv, Unlisted, lists
    <2>4. V32Inv'
      BY <1>2 DEF Dlopen, TypeOK, V32Inv, OffersV32, Interface, Resolved, Returned, lists
    <2> QED
      BY <2>1, <2>2, <2>3, <2>4
  <1>3. CASE GetListFails(m)
    <2>1. /\ Holds(m) /\ phase'[m] = "failed"
          /\ phase' \in [Modules -> Phases]
          /\ \A x \in Modules \ {m} : phase'[x] = phase[x]
      BY <1>3 DEF GetListFails, Holds, TypeOK, Phases
    <2> QED
      BY <1>3, <2>1, ReleaseKeeps DEF GetListFails
  <1>4. CASE GetList(m)
    <2>1. RefsInv'
      <3>1. \A x \in Modules : Holds(x)' <=> Holds(x)
        BY <1>4 DEF GetList, TypeOK, Holds
      <3> QED
        BY <1>4, <3>1, HoldersSame DEF GetList, native
    <2>2. TypeOK'
      BY <1>4 DEF GetList, TypeOK, Phases, native
    <2>3. ListInv' /\ OpenInv'
      BY <1>4 DEF GetList, TypeOK, ListInv, OpenInv, Unlisted, native
    <2>4. V32Inv'
      BY <1>4 DEF GetList, TypeOK, ListInv, Unlisted, V32Inv, OffersV32, Interface,
         Resolved, Returned
    <2> QED
      BY <2>1, <2>2, <2>3, <2>4
  <1>5. CASE NoInterface(m)
    <2>1. RefsInv'
      <3>1. \A x \in Modules : Holds(x)' <=> Holds(x)
        BY <1>5 DEF NoInterface, TypeOK, Holds
      <3> QED
        BY <1>5, <3>1, HoldersSame DEF NoInterface, native
    <2>2. TypeOK'
      BY <1>5 DEF NoInterface, TypeOK, Phases, native, lists
    <2>3. ListInv' /\ OpenInv'
      BY <1>5 DEF NoInterface, TypeOK, ListInv, OpenInv, Unlisted, native, lists
    <2>4. V32Inv'
      BY <1>5 DEF NoInterface, TypeOK, V32Inv, OffersV32, Interface,
         Resolved, Returned, lists
    <2> QED
      BY <2>1, <2>2, <2>3, <2>4
  <1>6. CASE AskVersion(m)
    <2>1. /\ phase[m] = "listed" /\ lib' = lib /\ fnsBase' = fnsBase
          /\ \/ /\ Interface(want) = NULL
                /\ phase' = [phase EXCEPT ![m] = "default"] /\ fns32' = fns32
             \/ /\ Interface(want) # NULL
                /\ phase' = [phase EXCEPT ![m] = "resolved"] /\ Keep(m, Interface(want))
      BY <1>6 DEF AskVersion
    <2>2. RefsInv'
      <3>1. \A x \in Modules : Holds(x)' <=> Holds(x)
        BY <2>1 DEF TypeOK, Holds
      <3> QED
        BY <1>6, <3>1, HoldersSame DEF AskVersion, native
    <2>3. lib.default \in Versions \cup {NULL} /\ Interface(want) \in Versions \cup {NULL}
      BY DEF TypeOK, Libraries, Interface
    <2>4. TypeOK'
      <3>1. fns32' \in [Modules -> Versions \cup {NULL}]
        BY <2>1, <2>3 DEF TypeOK, Keep
      <3>2. phase' \in [Modules -> Phases]
        BY <2>1 DEF TypeOK, Phases
      <3> QED
        BY <1>6, <3>1, <3>2 DEF AskVersion, TypeOK, native
    <2>5. ListInv' /\ OpenInv'
      BY <1>6, <2>1 DEF AskVersion, TypeOK, ListInv, OpenInv, Unlisted, native, Keep
    <2>6. V32Inv'
      <3>1. CASE Interface(want) = NULL
        BY <1>6, <2>1, <3>1 DEF AskVersion, TypeOK, V32Inv, OffersV32, Interface,
           Resolved, Returned
      <3>2. CASE Interface(want) # NULL
        <4>1. phase'[m] = "resolved" /\ Keep(m, Interface(want))
          BY <2>1, <3>2 DEF TypeOK
        <4>2. OffersV32 <=> Interface(want) >= want
          BY <1>6, <2>3, <3>2, LoaderAssumption
             DEF AskVersion, OffersV32, Interface, want, LoaderAssumption
        <4>3. /\ OffersV32 <=> fns32'[m] # NULL
              /\ fns32'[m] # NULL => fns32'[m] >= want
          BY <4>1, <4>2, <3>2 DEF Keep, TypeOK
        <4>4. OffersV32' <=> OffersV32
          BY <2>1 DEF OffersV32
        <4>5. \A x \in Modules \ {m} : fns32'[x] = fns32[x] /\ phase'[x] = phase[x]
          BY <2>1, <4>1 DEF Keep, TypeOK
        <4> QED
          BY <2>1, <4>1, <4>3, <4>4, <4>5 DEF V32Inv, Interface, Resolved, Returned
      <3> QED
        BY <3>1, <3>2
    <2> QED
      BY <2>2, <2>4, <2>5, <2>6
  <1>7. CASE AskDefault(m)
    <2>1. /\ phase[m] = "default" /\ lib' = lib /\ fnsBase' = fnsBase
          /\ phase' = [phase EXCEPT ![m] = "resolved"] /\ Keep(m, Interface(NULL))
      BY <1>7 DEF AskDefault
    <2>2. RefsInv'
      <3>1. \A x \in Modules : Holds(x)' <=> Holds(x)
        BY <2>1 DEF TypeOK, Holds
      <3> QED
        BY <1>7, <3>1, HoldersSame DEF AskDefault, native
    <2>3. Interface(NULL) = lib.default /\ lib.default \in Versions \cup {NULL}
      BY DEF TypeOK, Libraries, Interface
    <2>4. TypeOK'
      <3>1. fns32' \in [Modules -> Versions \cup {NULL}]
        BY <2>1, <2>3 DEF TypeOK, Keep
      <3>2. phase' \in [Modules -> Phases]
        BY <2>1 DEF TypeOK, Phases
      <3> QED
        BY <1>7, <3>1, <3>2 DEF AskDefault, TypeOK, native
    <2>5. ListInv' /\ OpenInv'
      BY <1>7, <2>1 DEF AskDefault, TypeOK, ListInv, OpenInv, Unlisted, native, Keep
    <2>6. V32Inv'
      <3>1. lib.interface /\ Interface(want) = NULL
        BY <2>1 DEF V32Inv
      <3>2. OffersV32 <=> lib.default # NULL /\ lib.default >= want
        BY <3>1, LoaderAssumption DEF OffersV32, Interface, want, LoaderAssumption
      <3>3. /\ OffersV32 <=> fns32'[m] # NULL
            /\ fns32'[m] # NULL => fns32'[m] >= want
        BY <2>1, <2>3, <3>2 DEF Keep, TypeOK
      <3>4. OffersV32' <=> OffersV32
        BY <2>1 DEF OffersV32
      <3>5. /\ phase'[m] = "resolved"
            /\ \A x \in Modules \ {m} : fns32'[x] = fns32[x] /\ phase'[x] = phase[x]
        BY <2>1 DEF Keep, TypeOK
      <3> QED
        BY <2>1, <3>3, <3>4, <3>5 DEF V32Inv, Interface, Resolved, Returned
    <2> QED
      BY <2>2, <2>4, <2>5, <2>6
  <1>8. CASE Loaded(m)
    <2>1. RefsInv'
      <3>1. \A x \in Modules : Holds(x)' <=> Holds(x)
        BY <1>8 DEF Loaded, TypeOK, Holds
      <3> QED
        BY <1>8, <3>1, HoldersSame DEF Loaded, native
    <2>2. TypeOK'
      BY <1>8 DEF Loaded, TypeOK, Phases, native
    <2>3. ListInv' /\ OpenInv'
      BY <1>8 DEF Loaded, TypeOK, ListInv, OpenInv, Unlisted, native
    <2>4. V32Inv'
      BY <1>8 DEF Loaded, TypeOK, V32Inv, OffersV32, Interface, Resolved, Returned
    <2> QED
      BY <2>1, <2>2, <2>3, <2>4
  <1> QED
    BY <1>1, <1>2, <1>3, <1>4, <1>5, <1>6, <1>7, <1>8 DEF Load

LEMMA OpenCloseKeeps ==
    ASSUME NEW m \in Modules, IInv, OpenClose(m)
    PROVE  IInv'
  <1> USE DEF IInv, Goto
  <1>1. CASE Initialize(m) \/ InitializeFails(m) \/ Finalize(m)
    <2>1. /\ UNCHANGED <<lib, refs, lists>>
          /\ \/ /\ phase[m] = "loaded" /\ ~initialized /\ initialized' = TRUE
                /\ phase' = [phase EXCEPT ![m] = "open"]
             \/ /\ phase[m] = "loaded" /\ initialized' = initialized
                /\ phase' = [phase EXCEPT ![m] = "undo"]
             \/ /\ phase[m] = "open" /\ initialized' \in {FALSE, initialized}
                /\ phase' = [phase EXCEPT ![m] = "finalized"]
      BY <1>1 DEF Initialize, InitializeFails, Finalize, native
    <2>2. RefsInv'
      <3>1. \A x \in Modules : Holds(x)' <=> Holds(x)
        BY <2>1 DEF TypeOK, Holds
      <3> QED
        BY <2>1, <3>1, HoldersSame
    <2>3. TypeOK'
      BY <2>1 DEF TypeOK, Phases, lists
    <2>4. ListInv'
      BY <2>1 DEF TypeOK, ListInv, Unlisted, lists
    <2>5. OpenInv'
      BY <2>1 DEF TypeOK, OpenInv
    <2>6. V32Inv'
      BY <2>1 DEF TypeOK, V32Inv, OffersV32, Interface, Resolved, Returned, lists
    <2> QED
      BY <2>2, <2>3, <2>4, <2>5, <2>6
  <1>2. CASE Undo(m) \/ Destroy(m)
    <2>1. /\ Holds(m) /\ phase'[m] \in {"failed", "closed"}
          /\ phase' \in [Modules -> Phases]
          /\ \A x \in Modules \ {m} : phase'[x] = phase[x]
      BY <1>2 DEF Undo, Destroy, Holds, TypeOK, Phases
    <2> QED
      BY <1>2, <2>1, ReleaseKeeps DEF Undo, Destroy
  <1> QED
    BY <1>1, <1>2 DEF OpenClose

LEMMA NextIInv == IInv /\ [Next]_vars => IInv'
  <1> SUFFICES ASSUME IInv, [Next]_vars PROVE IInv'
    OBVIOUS
  <1>1. CASE UNCHANGED vars
    <2>1. \A x \in Modules : Holds(x)' <=> Holds(x)
      BY <1>1 DEF vars, Holds
    <2>2. RefsInv'
      BY <1>1, <2>1, HoldersSame DEF IInv, vars, native
    <2>3. TypeOK' /\ ListInv' /\ OpenInv'
      BY <1>1 DEF IInv, vars, native, lists, TypeOK, ListInv, OpenInv
    <2>4. V32Inv'
      BY <1>1 DEF IInv, vars, native, lists, V32Inv, OffersV32, Interface
    <2> QED
      BY <2>2, <2>3, <2>4 DEF IInv
  <1>2. ASSUME NEW m \in Modules, Load(m) \/ OpenClose(m)
        PROVE  IInv'
    BY <1>2, LoadKeeps, OpenCloseKeeps
  <1> QED
    BY <1>1, <1>2 DEF Next

-----------------------------------------------------------------------------
LEMMA Invariant == Spec => []IInv
  BY InitIInv, NextIInv, PTL DEF Spec

(***************************************************************************)
(* No handle of the library is lost or given back twice (shim.c ck_load,   *)
(* ck_unload; module.go OpenModule, Close).                                *)
(***************************************************************************)
THEOREM HandlesAreBalanced == Spec => []HandlesBalanced
  <1>1. IInv => HandlesBalanced
    BY DEF IInv, RefsInv, Holders, HandlesBalanced
  <1> QED
    BY <1>1, Invariant, PTL

(***************************************************************************)
(* An open Module has a mapped, initialised library and live function      *)
(* lists, whatever the other Modules on its path do (module.go OpenModule).*)
(***************************************************************************)
THEOREM OpenStaysUsable == Spec => []OpenIsUsable
  <1>1. IInv => OpenIsUsable
    <2> SUFFICES ASSUME IInv, NEW m \in Modules, phase[m] = "open"
                 PROVE  refs > 0 /\ initialized /\ fns[m] = "live"
      BY DEF OpenIsUsable
    <2>1. Holds(m)
      BY DEF Holds
    <2> QED
      BY <2>1, HolderCounted DEF IInv, OpenInv, ListInv, Unlisted
  <1> QED
    BY <1>1, Invariant, PTL

(***************************************************************************)
(* The 3.2 list is used if and only if one of the two lookups gives it     *)
(* (shim.c ck_resolve_v32).                                                *)
(***************************************************************************)
THEOREM V32IsNegotiated == Spec => []V32Negotiated
  <1>1. IInv => V32Negotiated
    BY DEF IInv, V32Inv, V32Negotiated, Resolved, Returned
  <1> QED
    BY <1>1, Invariant, PTL
=============================================================================
