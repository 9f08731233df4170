---------------------------- MODULE Marshalling ----------------------------
(***************************************************************************)
(* The helpers that keep no state between calls: GetAttributeValue         *)
(* (Attributes), the lists (Lists), the numbers (CKULong), the templates   *)
(* of new keys (SecureDefaults), and the table of attribute names that     *)
(* genconst computes (AttributeNames).  A behaviour is one call of one     *)
(* helper; the variables of the others keep their initial values.          *)
(***************************************************************************)
EXTENDS Attributes, Lists, CKULong, SecureDefaults, AttributeNames, Integers, Sequences

CONSTANTS
    Values,        \* numbers to convert
    Templates,     \* templates to complete
    Headers        \* headers to translate

IsSequence(s) == s \in Seq({s[i] : i \in DOMAIN s})

ASSUME MarshallingAssumption ==
    /\ Values \subseteq Int
    /\ \A s \in Templates \cup Headers : IsSequence(s)

VARIABLES
    helper,        \* which one is called
    input,         \* the argument of a pure function ...
    output,        \* ... and its result
    computed

pureVars == <<input, output, computed>>
allVars  == <<helper, vars, listVars, pureVars>>

Pure(h, inputs) == helper = h /\ input \in inputs
NotPure == input = <<>>

MInit ==
    /\ output = <<>> /\ computed = FALSE
    /\ \/ helper = "GetAttributeValue" /\ Init /\ ListInit /\ entries = 0 /\ NotPure
       \/ helper = "lists" /\ ListInit /\ Init /\ tmpl = {} /\ obj = None /\ NotPure
       \/ /\ Init /\ tmpl = {} /\ obj = None /\ ListInit /\ entries = 0
          /\ \/ Pure("NewAttribute", [p : Platforms, v : Values])
             \/ Pure("infoULong", [p : Platforms, v : Values]) /\ input.v \in 0..(Beyond(input.p) - 1)
             \/ Pure("defaults", Templates)
             \/ Pure("names", Headers)

Compute(h, value) ==
    /\ helper = h /\ ~computed
    /\ output' = value
    /\ computed' = TRUE
    /\ UNCHANGED <<helper, input, vars, listVars>>

\* Steps of the helpers.
GetAttributeValue == helper = "GetAttributeValue" /\ Next /\ UNCHANGED <<helper, listVars, pureVars>>
ListStep(A)       == helper = "lists" /\ A /\ UNCHANGED <<helper, vars, pureVars>>
EncodeNumber      == Compute("NewAttribute", NewAttributeInt(input.p, input.v))
DecodeInfo        == Compute("infoULong", <<infoULong(input.p, input.v)>>)
CompleteTemplates == \/ Compute("defaults", CreateObject(input))
                     \/ Compute("defaults", GenerateKey(input))
                     \/ Compute("defaults", Unwrap(input))
                     \/ Compute("defaults", Encapsulate(input))
                     \/ Compute("defaults", Derive(input))
                     \/ Compute("defaults", Decapsulate(input))
                     \/ Compute("defaults", GenerateKeyPair(input, input))
TranslateHeader   == helper = "names" /\ Evaluates(input) /\ Compute("names", renderAttributes(input))

MNext ==
    \/ GetAttributeValue
    \/ ListStep(ListNext)
    \/ EncodeNumber \/ DecodeInfo \/ CompleteTemplates \/ TranslateHeader

(***************************************************************************)
(* A search that has begun goes on: it is one goroutine's own code, and    *)
(* calls into the module return.                                           *)
(***************************************************************************)
MSpec == MInit /\ [][MNext]_allVars /\ WF_allVars(ListStep(FindObjects))

-----------------------------------------------------------------------------
(***************************************************************************)
(* A number survives the way into an attribute value and back, on every    *)
(* platform; one that the platform's CK_ULONG cannot hold, or a negative   *)
(* one, panics and is never truncated.  Bytes after the first CK_ULONG are *)
(* ignored, and in little-endian order a value that the token shortened by *)
(* its leading zeros still decodes to itself (marshal.go ckULong,          *)
(* BytesToULong; object.go NewAttribute).                                  *)
(***************************************************************************)
NumbersSurvive ==
    helper = "NewAttribute" /\ computed =>
        LET p == input.p
            v == input.v
        IN  IF v \notin 0..(Beyond(p) - 1) THEN output = Panic
            ELSE /\ Len(output) = p.size
                 /\ BytesToULong(p, output \o <<1>>) = v
                 /\ \A k \in 1..p.size :
                        ~p.big /\ (\A i \in (k + 1)..p.size : output[i] = 0)
                            => BytesToULong(p, SubSeq(output, 1, k)) = v

(***************************************************************************)
(* A field of CK_TOKEN_INFO and the size of an object equal the Go         *)
(* constant CK_UNAVAILABLE_INFORMATION exactly when the module wrote its   *)
(* own marker, in the width of its CK_ULONG, and are the module's number   *)
(* otherwise (slot.go infoULong).                                          *)
(***************************************************************************)
MarkerIsRecognised ==
    helper = "infoULong" /\ computed =>
        LET marker == [i \in 1..input.p.size |-> ByteValues - 1]
        IN  IF input.v = BytesToULong(input.p, marker)
            THEN output = <<CK_UNAVAILABLE_INFORMATION>>
            ELSE output = <<input.v>> /\ input.v # CK_UNAVAILABLE_INFORMATION

\* How often a template sets an attribute type.
Settings(t, type) == {i \in DOMAIN t : t[i] # nil /\ t[i].type = type}

(***************************************************************************)
(* The template of a private or secret key begins with the caller's own    *)
(* attributes, and sets each of CKA_SENSITIVE, CKA_EXTRACTABLE and         *)
(* CKA_PRIVATE: as often as the caller did - so that the caller's value is *)
(* never contradicted - or else once, to the secure value                  *)
(* (p11/defaults.go withSecureDefaults and its seven callers).             *)
(***************************************************************************)
DefaultsFillGaps ==
    helper = "defaults" /\ computed =>
        LET key == output[Len(output)]
            own == 1..Len(input)
        IN  /\ SubSeq(key, 1, Len(input)) = input
            /\ \A i \in DOMAIN key \ own : key[i] \in Defaults
            /\ \A d \in Defaults :
                   LET set == Settings(key, d.type)
                   IN  IF set \cap own # {} THEN set \subseteq own
                       ELSE \E i \in DOMAIN key : set = {i} /\ key[i] = d

(***************************************************************************)
(* A define has the value that its bits and the defines before it give.    *)
(* Every attribute type of the header has one name: the last of its        *)
(* defines that is not an alias; aliases name a value only when nothing    *)
(* else does, and then the first of them (genconst evaluate,               *)
(* renderAttributes).                                                      *)
(***************************************************************************)
NamesAreCurrent ==
    helper = "names" /\ computed =>
        LET value == evaluate(input)
            attrs(v) == {i \in DOMAIN input : input[i].cka /\ value[i] = v}
            own(v)   == {i \in attrs(v) : ~input[i].bare}
        IN  /\ \A i \in DOMAIN value :
                   /\ \A k \in input[i].names : k \in DOMAIN value /\ k < i
                   /\ value[i] = input[i].bits \cup UNION {value[k] : k \in input[i].names}
            /\ DOMAIN output = {value[i] : i \in {k \in DOMAIN input : input[k].cka}}
            /\ \A v \in DOMAIN output :
                   IF own(v) # {} THEN /\ output[v] \in own(v)
                                       /\ \A i \in own(v) : i <= output[v]
                                  ELSE /\ output[v] \in attrs(v)
                                       /\ \A i \in attrs(v) : output[v] <= i
=============================================================================
