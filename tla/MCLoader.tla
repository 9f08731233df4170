------------------------------ MODULE MCLoader ------------------------------
(***************************************************************************)
(* Three Modules on one path, and every library with interfaces below, at  *)
(* and above version 3.2, any of them its default.                         *)
(***************************************************************************)
EXTENDS Loader, TLC

CONSTANTS m1, m2, m3

ThreeModules == {m1, m2, m3}

Symmetry == Permutations(ThreeModules)
=============================================================================
