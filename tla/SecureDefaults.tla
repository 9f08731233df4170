--------------------------- MODULE SecureDefaults ---------------------------
(***************************************************************************)
(* p11 withSecureDefaults: the template of every private or secret key     *)
(* that is made - created, generated, unwrapped, derived, encapsulated or  *)
(* decapsulated - gets CKA_SENSITIVE, CKA_EXTRACTABLE and CKA_PRIVATE     *)
(* unless the caller set them.  A template is a sequence of attributes,    *)
(* and may hold nil pointers.                                              *)
(***************************************************************************)
LOCAL INSTANCE Sequences

CONSTANT nil       \* the nil pointer

\* The attributes added, and their values.
Sensitive     == [type |-> "SENSITIVE",   value |-> TRUE]
Unextractable == [type |-> "EXTRACTABLE", value |-> FALSE]
Private       == [type |-> "PRIVATE",     value |-> TRUE]
Defaults      == {Sensitive, Unextractable, Private}

ASSUME NilAssumption == nil \notin Defaults

\* Mutant: an attribute the caller set to its opposite counts as not set.
hasAttribute_SameValue(tmpl, a) == \E i \in DOMAIN tmpl : tmpl[i] = a

hasAttribute(tmpl, a) ==
    \E i \in DOMAIN tmpl : tmpl[i] # nil /\ tmpl[i].type = a.type

\* out, with a added unless the caller's template has its type.
Fill(out, tmpl, a) == IF hasAttribute(tmpl, a) THEN out ELSE Append(out, a)

withSecureDefaults(tmpl, private) ==
    IF private THEN Fill(Fill(Fill(tmpl, tmpl, Sensitive), tmpl, Unextractable), tmpl, Private)
               ELSE tmpl

\* The templates that reach the module.
CreateObject(tmpl)         == <<withSecureDefaults(tmpl, TRUE)>>
GenerateKey(tmpl)          == <<withSecureDefaults(tmpl, TRUE)>>
Unwrap(tmpl)               == <<withSecureDefaults(tmpl, TRUE)>>
Encapsulate(tmpl)          == <<withSecureDefaults(tmpl, TRUE)>>
Derive(tmpl)               == <<withSecureDefaults(tmpl, TRUE)>>
Decapsulate(tmpl)          == <<withSecureDefaults(tmpl, TRUE)>>
GenerateKeyPair(pub, priv) == <<withSecureDefaults(pub, FALSE), withSecureDefaults(priv, TRUE)>>
=============================================================================
