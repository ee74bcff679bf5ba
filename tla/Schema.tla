-------------------------------- MODULE Schema --------------------------------
(***************************************************************************)
(* Schemas and values.  A route's schema is a Go type whose fields carry    *)
(* tags; it is compiled once into rule definitions (compiler.go, rules.go), *)
(* which the binding of requests and the encoding of responses interpret.   *)
(* Go values and JSON documents share one representation: a record whose   *)
(* only field says what it is.  A nil slice or map is an empty one, a nil  *)
(* pointer or interface is Nil, as is JSON's null.                         *)
(***************************************************************************)
EXTENDS Integers, Sequences, FiniteSets, TLC

CONSTANT Number  \* the texts that are numbers, and which

Str(s)  == [str |-> s]
Num(n)  == [num |-> n]
Bool(b) == [bool |-> b]
List(s) == [list |-> s]
Obj(f)  == [obj |-> f]      \* a struct, a map or a JSON object
Nil     == [nil |-> TRUE]
Missing == [missing |-> TRUE]  \* no node at all
Bad     == [bad |-> TRUE]      \* a conversion failed

Is(v, k) == k \in DOMAIN v

\* A type: a scalar kind, or "struct", "slice", "map", "any", "file".  A field
\* is [name, type, rules, default, omit]; a rule is [rule, arg].
Scalar(k)    == [kind |-> k, ptr |-> FALSE, elem |-> <<>>, fields |-> <<>>]
Pointer(t)   == [t EXCEPT !.ptr = TRUE]
SliceOf(t)   == [kind |-> "slice", ptr |-> FALSE, elem |-> <<t>>, fields |-> <<>>]
MapOf(t)     == [kind |-> "map", ptr |-> FALSE, elem |-> <<t>>, fields |-> <<>>]
StructOf(fs) == [kind |-> "struct", ptr |-> FALSE, elem |-> <<>>, fields |-> fs]

Rule(r) == [rule |-> r, arg |-> 0]
Limit(r, n) == [rule |-> r, arg |-> n]

IsPrimitiveKind(k) == k \in {"string", "int", "int8", "bool"}

-----------------------------------------------------------------------------
(* Texts                                                                   *)

Int8Range == -128 .. 127

\* int8(v) of a wider number.
Wrap8(n) == ((n + 128) % 256) - 128

\* The texts strconv.ParseBool takes.
Truths == {"1", "t", "T", "true", "TRUE", "True"}
Falses == {"0", "f", "F", "false", "FALSE", "False"}

\* An empty string is no value; a number must fit its type.
PrimitiveFromStr(kind, text) ==
  CASE kind = "string" -> IF text = "" THEN Nil ELSE Str(text)
    [] kind = "bool" -> IF text \in Truths \cup Falses THEN Bool(text \in Truths) ELSE Bad
    [] kind = "int" -> IF text \in DOMAIN Number THEN Num(Number[text]) ELSE Bad
    [] kind = "int8" -> IF text \in DOMAIN Number /\ Number[text] \in Int8Range
                          THEN Num(Number[text]) ELSE Bad
    [] OTHER -> Bad

-----------------------------------------------------------------------------
(* Validators: "ok", "error" or "panic".  kind is that of the tagged field. *)

\* Empty, zero and false are not enough; a struct always is.
IsRequired(kind, v) ==
  CASE Is(v, "nil")  -> FALSE
    [] Is(v, "str")  -> v.str # ""
    [] Is(v, "num")  -> v.num # 0
    [] Is(v, "bool") -> v.bool
    [] Is(v, "list") -> v.list # <<>>
    [] OTHER         -> kind # "map" \/ DOMAIN v.obj # {}

IsPresent(v) == ~Is(v, "nil")

\* The size min and max look at; Bad for a type they do not support.
Size(kind, v) ==
  CASE kind = "slice" /\ Is(v, "list") -> Len(v.list)
    [] kind = "map" /\ Is(v, "obj")    -> Cardinality(DOMAIN v.obj)
    [] Is(v, "num")                    -> v.num
    [] Is(v, "str")                    -> Len(v.str)
    [] OTHER                           -> -1000

Passes(r, kind, v) ==
  CASE r.rule = "required" -> IsRequired(kind, v)
    [] r.rule = "present"  -> IsPresent(v)
    [] r.rule = "min"      -> Size(kind, v) # -1000 /\ Size(kind, v) >= r.arg
    [] r.rule = "max"      -> Size(kind, v) # -1000 /\ Size(kind, v) <= r.arg
    [] OTHER               -> TRUE

\* The length of an untyped nil.
Panics(r, kind, v) == r.rule \in {"min", "max"} /\ kind \in {"slice", "map"} /\ Is(v, "nil")

\* runValidation: every rule is tried and the errors are joined.
Validated(rules, kind, v) ==
  CASE \E r \in rules : Panics(r, kind, v)   -> "panic"
    [] \A r \in rules : Passes(r, kind, v)   -> "ok"
    [] OTHER                                 -> "error"

-----------------------------------------------------------------------------
(* Rule definitions                                                        *)

HasRule(rules, name) == \E r \in rules : r.rule = name

\* Variant of FieldRules: allow_zero keeps the validator that rejects zeros.
FieldRulesStrict(rules) == rules

\* required with allow_zero is checked like present.
FieldRules(rules) ==
  IF HasRule(rules, "required") /\ HasRule(rules, "allow_zero")
    THEN {r \in rules : r.rule # "required"} \cup {Rule("present")}
    ELSE rules

\* A field's own part of its definition; the required flag stays set.
FieldRuleDef(f) ==
  [field |-> f.name, kind |-> f.type.kind, ptr |-> f.type.ptr, omit |-> f.omit,
   rules |-> FieldRules(f.rules), required |-> HasRule(f.rules, "required"),
   present |-> HasRule(FieldRules(f.rules), "present"), default |-> f.default]

\* Slice and map elements have no tags.
ItemField(t) == [name |-> "", type |-> t, rules |-> {}, default |-> "", omit |-> FALSE]

RECURSIVE RuleDef(_)

\* getTypeInfoRecursive attaches the definitions of the element and the fields.
RuleDef(f) ==
  FieldRuleDef(f)
    @@ [item  |-> [i \in DOMAIN f.type.elem |-> RuleDef(ItemField(f.type.elem[i]))],
        props |-> [i \in DOMAIN f.type.fields |-> RuleDef(f.type.fields[i])]]

\* stripValidationRules: for a body that is bound without being selected.
RECURSIVE StripValidation(_)
StripValidation(rd) ==
  [rd EXCEPT !.required = FALSE, !.rules = {},
             !.item = [i \in DOMAIN rd.item |-> StripValidation(rd.item[i])],
             !.props = [i \in DOMAIN rd.props |-> StripValidation(rd.props[i])]]

\* The kind a field's validators were made for, and its parsed default.
TagKind(rd) == IF rd.ptr THEN "pointer" ELSE rd.kind

DefVal(rd) ==
  IF rd.default = "" \/ TagKind(rd) = "pointer" THEN Nil ELSE PrimitiveFromStr(rd.kind, rd.default)

RECURSIVE Zero(_)
Zero(rd) ==
  CASE rd.ptr \/ rd.kind \in {"any", "file"} -> Nil
    [] ~rd.ptr /\ rd.kind = "string" -> Str("")
    [] ~rd.ptr /\ rd.kind \in {"int", "int8"} -> Num(0)
    [] ~rd.ptr /\ rd.kind = "bool"   -> Bool(FALSE)
    [] ~rd.ptr /\ rd.kind = "slice"  -> List(<<>>)
    [] ~rd.ptr /\ rd.kind = "map"    -> Obj(<<>>)
    [] ~rd.ptr /\ rd.kind = "struct" ->
         Obj([n \in {rd.props[i].field : i \in DOMAIN rd.props} |->
                Zero(rd.props[CHOOSE i \in DOMAIN rd.props : rd.props[i].field = n])])

-----------------------------------------------------------------------------
(* Outcomes of binding and encoding                                        *)

Outcome(st, v) == [st |-> st, val |-> v]

\* Steps in order, of which the first that is neither "ok" nor "skip" decides.
FirstBad(rs) ==
  LET bad == {i \in DOMAIN rs : rs[i].st \notin {"ok", "skip"}}
  IN  IF bad = {} THEN "ok" ELSE rs[CHOOSE i \in bad : \A j \in bad : i <= j].st

\* A struct's value from the outcomes of its fields.
Struct(rd, rs) ==
  Obj([n \in {rd.props[i].field : i \in DOMAIN rd.props} |->
         rs[CHOOSE i \in DOMAIN rd.props : rd.props[i].field = n].val])
===============================================================================
