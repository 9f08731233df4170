--------------------------- MODULE AttributeNames ---------------------------
(***************************************************************************)
(* cmd/genconst evaluate and renderAttributes: from the #define lines of   *)
(* the PKCS #11 header to the table of attribute names (zattr.go).         *)
(*                                                                         *)
(* A header is a sequence of defines, named by their places.  A define     *)
(* has the prefix CKA_ or not, and stands for terms joined by "|":         *)
(* literals, which are sets of bits, and names.  It is bare when it is     *)
(* a single name without parentheses.                                      *)
(***************************************************************************)
LOCAL INSTANCE Naturals
LOCAL INSTANCE Sequences

\* evalExpr: FALSE in ok when a name is not known.
evalExpr(d, known) ==
    [ok    |-> d.names \subseteq DOMAIN known,
     value |-> d.bits \cup UNION {known[k] : k \in d.names \cap DOMAIN known}]

\* The values of those of the first i defines that can be evaluated, each from
\* the ones before it.
Known(defines) ==
    LET known[i \in 0..Len(defines)] ==
            IF i = 0 THEN <<>>
            ELSE LET before == known[i - 1]
                     e == evalExpr(defines[i], before)
                 IN  IF e.ok
                     THEN [k \in DOMAIN before \cup {i} |-> IF k = i THEN e.value ELSE before[k]]
                     ELSE before
    IN  known

evaluate(defines) == Known(defines)[Len(defines)]

\* It fails when that leaves out an attribute.
Evaluates(defines) ==
    \A i \in DOMAIN defines : defines[i].cka => i \in DOMAIN evaluate(defines)

\* Mutant: a later name always supersedes an earlier one.
Supersedes_Always(d, v, names) == TRUE

\* A define takes a value that has no name yet, or that it defines anew.
Supersedes(d, v, names) == v \notin DOMAIN names \/ ~d.bare

\* The names after the first i defines.
Names(defines, values) ==
    LET names[i \in 0..Len(defines)] ==
            IF i = 0 THEN <<>>
            ELSE LET before == names[i - 1]
                     v == values[i]
                 IN  IF defines[i].cka /\ Supersedes(defines[i], v, before)
                     THEN [w \in DOMAIN before \cup {v} |-> IF w = v THEN i ELSE before[w]]
                     ELSE before
    IN  names

renderAttributes(defines) == Names(defines, evaluate(defines))[Len(defines)]
=============================================================================
