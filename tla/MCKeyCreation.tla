--------------------------- MODULE MCKeyCreation ---------------------------
(***************************************************************************)
(* Two mechanisms or digests, any policy over them, parameters that name   *)
(* none, one or two digests; lengths 0, the true one and its neighbours,   *)
(* the limit and beyond.                                                   *)
(***************************************************************************)
EXTENDS KeyCreation

CONSTANTS strong, weak

AnyPolicy == SUBSET {strong, weak}

UpToTwo == {<<>>} \cup {<<d>> : d \in Ids} \cup {<<d, e>> : d, e \in Ids}
=============================================================================
