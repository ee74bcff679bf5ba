-------------------------------- MODULE Bodies --------------------------------
(***************************************************************************)
(* The body parsers: JSON in both directions (bodyparser_json.go,          *)
(* cont/json.go) and forms, urlencoded and multipart (bodyparser_form.go,  *)
(* bodyparser_multipart.go).  Decoding walks the rule definitions, not the *)
(* document; what the document has beyond them is ignored.                 *)
(***************************************************************************)
EXTENDS Schema

-----------------------------------------------------------------------------
(* JSON: decoding                                                          *)

\* node.Get(name), also of a missing node or of one that is no object.
Get(node, name) ==
  IF Is(node, "obj") /\ name \in DOMAIN node.obj THEN node.obj[name] ELSE Missing

Absent(node) == Is(node, "missing") \/ Is(node, "nil")

\* GetNodeByKind: a scalar of its kind, cut to its width; of structs, slices,
\* maps and interfaces only that there is something.
GetNodeByKind(node, kind) ==
  CASE Absent(node)                            -> Nil
    [] ~Absent(node) /\ kind = "string"        -> IF Is(node, "str") THEN node ELSE Bad
    [] ~Absent(node) /\ kind = "int"           -> IF Is(node, "num") THEN node ELSE Bad
    [] ~Absent(node) /\ kind = "int8"          -> IF Is(node, "num") THEN Num(Wrap8(node.num)) ELSE Bad
    [] ~Absent(node) /\ kind = "bool"          -> IF Is(node, "bool") THEN node ELSE Bad
    [] OTHER                                   -> node

\* Array and Object of a node: the node itself must exist.
NotA(node) == Outcome(IF Is(node, "missing") THEN "panic" ELSE "error", Nil)

\* What becomes of a struct's fields, and of the elements of a list.
Fields(rd, rs) == Outcome(FirstBad(rs), Struct(rd, rs))
Items(rs) == Outcome(FirstBad(rs), List([i \in DOMAIN rs |-> rs[i].val]))

RECURSIVE Walk(_, _, _)

WalkStruct(node, rd, bind) ==
  Fields(rd, [i \in DOMAIN rd.props |-> Walk(Get(node, rd.props[i].field), rd.props[i], bind)])

Entries(rs) ==
  LET Some(st) == \E k \in DOMAIN rs : rs[k].st = st
  IN  Outcome(IF Some("panic") THEN "panic" ELSE IF Some("error") THEN "error" ELSE "ok",
              Obj([k \in DOMAIN rs |-> rs[k].val]))

\* A null entry is not walked further and keeps its zero.  There is no making a
\* map of a pointer's type.
WalkMap(node, rd, bind) ==
  IF ~Is(node, "obj") THEN NotA(node) ELSE
  IF bind /\ rd.ptr THEN Outcome("panic", Nil) ELSE
  Entries([k \in DOMAIN node.obj |-> Walk(node.obj[k], rd.item[1], bind)])

\* Of primitive elements nulls are dropped; the rules see the list.  RuleDef.max,
\* for which the code looks first, is never set (compiler.go:248).
WalkScalars(node, rd) ==
  IF ~Is(node, "list") THEN NotA(node) ELSE
  LET vs == [i \in DOMAIN node.list |-> GetNodeByKind(node.list[i], rd.item[1].kind)]
      l  == List(SelectSeq(vs, LAMBDA v : ~Is(v, "nil")))
  IN  IF \E i \in DOMAIN vs : Is(vs[i], "bad") THEN Outcome("error", Nil)
      ELSE Outcome(Validated(rd.rules, TagKind(rd), l), l)

Ruled(r, rd, bind) ==
  IF r.st # "ok" THEN Outcome(r.st, Nil)
  ELSE Outcome(Validated(rd.rules, TagKind(rd), IF bind THEN r.val ELSE Nil), r.val)

\* Of others each is walked; the rules see the list only when it is bound.
WalkElements(node, rd, bind) ==
  IF ~Is(node, "list") THEN NotA(node)
  ELSE IF node.list = <<>> /\ rd.required /\ ~rd.present THEN Outcome("error", Nil) ELSE
  Ruled(Items([i \in DOMAIN node.list |-> Walk(node.list[i], rd.item[1], bind)]), rd, bind)

\* GetAnyValueFromNode: objects and lists are not supported.
WalkAny(node, rd) ==
  IF Is(node, "obj") \/ Is(node, "list") \/ Is(node, "missing")
    THEN Outcome("error", Nil)
    ELSE Outcome(Validated(rd.rules, "any", node), node)

\* decodeFieldValue: nil leaves alone what is there, which for a pointer is what
\* walkStruct has just allocated for it.
Decoded(rd, v) == IF Is(v, "nil") THEN Zero([rd EXCEPT !.ptr = FALSE]) ELSE v

\* walkStruct: the node, else the default, else nothing if it is optional.
Walk(node, rd, bind) ==
  LET g == GetNodeByKind(node, rd.kind)
      v == IF Is(g, "nil") THEN DefVal(rd) ELSE g
      optional == ~rd.required /\ ~rd.present
      kind == IF Is(v, "bad") THEN "bad"
              ELSE IF optional /\ Is(v, "nil") THEN "skip" ELSE rd.kind
  IN  CASE kind = "bad"    -> Outcome("error", Nil)
        [] kind = "skip"   -> Outcome("skip", Zero(rd))
        [] kind = "struct" -> WalkStruct(node, rd, bind)
        [] kind = "map"    -> WalkMap(node, rd, bind)
        [] kind = "slice"  -> IF IsPrimitiveKind(rd.item[1].kind)
                                THEN WalkScalars(node, rd) ELSE WalkElements(node, rd, bind)
        [] kind = "any"    -> WalkAny(node, rd)
        [] OTHER           -> Outcome(Validated(rd.rules, TagKind(rd), v), Decoded(rd, v))

\* The text of a scalar document, with a string's quotes.
Raw(doc) ==
  CASE Is(doc, "str")  -> "'" \o doc.str \o "'"
    [] Is(doc, "bool") -> IF doc.bool THEN "true" ELSE "false"
    [] Is(doc, "num") /\ \E t \in DOMAIN Number : Number[t] = doc.num ->
         CHOOSE t \in DOMAIN Number : Number[t] = doc.num
    [] OTHER           -> "?"

NotSkipped(r) == IF r.st = "skip" THEN Outcome("error", Nil) ELSE r

\* The JSON parser on a body: none, one for a scalar type, any other.
DecodeJSON(doc, rd, bind) ==
  IF Is(doc, "missing") THEN Outcome(IF rd.required \/ rd.present THEN "error" ELSE "ok", Zero(rd))
  ELSE IF IsPrimitiveKind(rd.kind)
    THEN LET v == PrimitiveFromStr(rd.kind, Raw(doc))
         IN  IF Is(v, "bad") THEN Outcome("error", Nil)
             ELSE Outcome(Validated(rd.rules, TagKind(rd), v), v)
    ELSE NotSkipped(Walk(doc, rd, bind))

-----------------------------------------------------------------------------
(* JSON: encoding                                                          *)

Empty(v) == v \in {Str(""), Num(0), Bool(FALSE), List(<<>>), Obj(<<>>), Nil}

RECURSIVE Encode(_, _)

\* Variant of EncodeStruct: every empty field is left out.
EncodeStructTerse(v, rd) ==
  LET written == {i \in DOMAIN rd.props : ~Empty(v.obj[rd.props[i].field])}
      rs == [i \in DOMAIN rd.props |->
               IF i \in written THEN Encode(v.obj[rd.props[i].field], rd.props[i])
                                ELSE Outcome("skip", Nil)]
  IN  Outcome(FirstBad(rs),
              Obj([n \in {rd.props[i].field : i \in written} |->
                     rs[CHOOSE i \in written : rd.props[i].field = n].val]))

EncodeStruct(v, rd) ==
  LET written == {i \in DOMAIN rd.props : ~(rd.props[i].omit /\ Empty(v.obj[rd.props[i].field]))}
      rs == [i \in DOMAIN rd.props |->
               IF i \in written THEN Encode(v.obj[rd.props[i].field], rd.props[i])
                                ELSE Outcome("skip", Nil)]
  IN  Outcome(FirstBad(rs),
              Obj([n \in {rd.props[i].field : i \in written} |->
                     rs[CHOOSE i \in written : rd.props[i].field = n].val]))

EncodeArr(v, rd) ==
  Items([i \in DOMAIN v.list |-> Encode(v.list[i], rd.item[1])])

EncodeMap(v, rd) ==
  LET rs == [k \in DOMAIN v.obj |-> Encode(v.obj[k], rd.item[1])]
  IN  Outcome(IF \A k \in DOMAIN rs : rs[k].st = "ok" THEN "ok" ELSE "error",
              Obj([k \in DOMAIN rs |-> rs[k].val]))

\* The rules see a pointer first, of which min and max know nothing, and what
\* it points to then.
PointerHolds(rd, v) ==
  rd.ptr => /\ ~HasRule(rd.rules, "min") /\ ~HasRule(rd.rules, "max")
            /\ HasRule(rd.rules, "required") => ~Is(v, "nil")

\* An empty value of a field with a default is the default.
Defaulted(v, rd) == IF rd.default # "" /\ Empty(v) /\ ~rd.ptr THEN DefVal(rd) ELSE v

Encode(v0, rd) ==
  LET v == Defaulted(v0, rd)
      checked == Validated(rd.rules, IF rd.ptr THEN "pointer" ELSE rd.kind, v)
  IN  CASE ~PointerHolds(rd, v) -> Outcome("error", Nil)
        [] PointerHolds(rd, v) /\ checked # "ok" -> Outcome(checked, Nil)
        [] PointerHolds(rd, v) /\ checked = "ok" ->
             CASE Is(v, "list") -> EncodeArr(v, rd)
               [] Is(v, "obj") /\ rd.kind = "map" -> EncodeMap(v, rd)
               [] Is(v, "obj") /\ rd.kind # "map" -> EncodeStruct(v, rd)
               [] OTHER -> Outcome("ok", v)

-----------------------------------------------------------------------------
(* Forms: [value, file], the texts at each dotted key and the keys of files. *)

Under(key, k) == Len(k) > Len(key) /\ SubSeq(k, 1, Len(key)) = key

HasPrefix(form, key) == \E k \in DOMAIN form.value \cup form.file : Under(key, k)

\* The entries below a key, with the key removed; files are not looked at.
SubForm(form, key) ==
  LET tails == {SubSeq(k, Len(key) + 1, Len(k)) : k \in {j \in DOMAIN form.value : Under(key, j)}}
  IN  [value |-> [t \in tails |-> form.value[key \o t]], file |-> {}]

Texts(form, key) == IF key \in DOMAIN form.value THEN form.value[key] ELSE <<>>

\* bindValue: nil leaves the field alone, and a pointer with it.
Bound(rd, v) == IF Is(v, "nil") THEN Zero(rd) ELSE v

\* parseVal and bindValue, without a rule.
Parsed(text, rd) ==
  LET v == PrimitiveFromStr(rd.kind, text)
  IN  IF Is(v, "bad") THEN Outcome("error", Nil) ELSE Outcome("ok", Bound(rd, v))

FormScalars(form, p) ==
  LET texts == Texts(form, <<p.field>>)
  IN  Items([i \in DOMAIN texts |-> Parsed(texts[i], p.item[1])])

\* Indices are used from 0 up to the first that is not there.
Indices == <<"0", "1", "2">>
Elements(form, name) ==
  CHOOSE n \in 0 .. Len(Indices) :
    /\ \A i \in 1 .. n : HasPrefix(form, <<name, Indices[i]>>)
    /\ n < Len(Indices) => ~HasPrefix(form, <<name, Indices[n + 1]>>)

RECURSIVE BindStruct(_, _)

FormElements(form, p) ==
  Items([i \in 1 .. Elements(form, p.field) |->
           BindStruct(SubForm(form, <<p.field, Indices[i]>>), p.item[1])])

FormNested(form, p) == BindStruct(SubForm(form, <<p.field>>), p)

\* bindStruct: a nested scalar must be there if it is required, but no rule is
\* checked; a nested struct or list need not be there.
BindStruct(form, rd) ==
  LET Field(p) ==
        CASE p.kind = "struct" -> FormNested(form, p)
          [] p.kind = "slice" /\ p.item[1].kind = "struct" -> FormElements(form, p)
          [] p.kind = "slice" /\ p.item[1].kind # "struct" -> FormScalars(form, p)
          [] p.kind \notin {"struct", "slice"} ->
               CASE Texts(form, <<p.field>>) # <<>> -> Parsed(Texts(form, <<p.field>>)[1], p)
                 [] Texts(form, <<p.field>>) = <<>> /\ (p.required \/ p.present) -> Outcome("error", Nil)
                 [] OTHER -> Outcome("skip", Zero(p))
  IN  Fields(rd, [i \in DOMAIN rd.props |-> Field(rd.props[i])])

\* Variant of FormScalar: the rules are forgotten, as they are below.
FormScalarUnchecked(form, p) ==
  IF Texts(form, <<p.field>>) = <<>> THEN Outcome("ok", Zero(p))
  ELSE Parsed(Texts(form, <<p.field>>)[1], p)

\* A scalar of the body itself: the first text, checked.
FormScalar(form, p) ==
  IF Texts(form, <<p.field>>) = <<>> THEN Outcome("ok", Zero(p)) ELSE
  LET v == PrimitiveFromStr(p.kind, Texts(form, <<p.field>>)[1])
  IN  IF Is(v, "bad") THEN Outcome("error", Nil)
      ELSE Outcome(Validated(p.rules, TagKind(p), v), Bound(p, v))

\* A field of the body.  A file answers for a field of any kind, but binds only
\* one that is a file; a text does not answer for a file.
FormField(form, p) ==
  LET key == <<p.field>>
      there == IF p.kind = "file" THEN key \in form.file
               ELSE \/ key \in DOMAIN form.value \cup form.file
                    \/ p.kind \in {"slice", "struct"} /\ HasPrefix(form, key)
  IN  CASE ~there -> IF p.required \/ p.present THEN Outcome("error", Nil)
                                                ELSE Outcome("skip", Zero(p))
        [] there /\ key \in form.file ->
             Outcome("ok", IF p.kind = "file" THEN Str("file") ELSE Zero(p))
        [] OTHER ->
             CASE p.kind = "struct" -> FormNested(form, p)
               [] p.kind = "slice" /\ p.item[1].kind # "struct" -> FormScalars(form, p)
               [] p.kind = "slice" /\ p.item[1].kind = "struct" ->
                    IF Elements(form, p.field) = 0 /\ p.required /\ ~p.present
                      THEN Outcome("error", Nil) ELSE FormElements(form, p)
               [] OTHER -> FormScalar(form, p)

\* The form parsers: only a struct, and only when it is bound.
DecodeForm(form, rd, bind) ==
  CASE rd.kind # "struct" -> Outcome("error", Nil)
    [] rd.kind = "struct" /\ ~bind -> Outcome("ok", Zero(rd))
    [] OTHER -> Fields(rd, [i \in DOMAIN rd.props |-> FormField(form, rd.props[i])])
===============================================================================
