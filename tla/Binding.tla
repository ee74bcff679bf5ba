------------------------------- MODULE Binding --------------------------------
(***************************************************************************)
(* Validate and ValidateAndBind on one request, and Send (requests.go,     *)
(* responses.go).  A call checks the selected parts in a fixed order,       *)
(* collects the errors within a part and stops after the first part with   *)
(* any; a body that is not selected is bound all the same, unchecked.  The *)
(* result of a call that selects everything is kept for the next such call. *)
(***************************************************************************)
EXTENDS Bodies

CONSTANTS
  Input,     \* [route, req]: a route's schema, with the response headers a
             \* middleware has written by then, and a request to it
  MaxCalls   \* bound on the calls a chain makes

Parts == <<"header", "query", "path", "cookie", "body">>
Part  == {Parts[i] : i \in DOMAIN Parts}
All   == Part

VARIABLES
  input,  \* the route and the request
  call,   \* the call in progress: part is 0 when there is none
  calls,  \* the calls that have returned
  cached, \* bindedCacheResult
  sent    \* what Send has encoded

vars == <<input, call, calls, cached, sent>>

NoCall  == [bind |-> FALSE, mask |-> {}, part |-> 0, bound |-> [p \in Part |-> Nil]]
NoCache == [st |-> "none", bind |-> FALSE, bound |-> NoCall.bound]
NotSent == [st |-> "none", header |-> <<>>, body |-> Nil]

Route == input.route
Req   == input.req
BodyDef == RuleDef(Route.body)

Init ==
  /\ input \in Input
  /\ call = NoCall /\ calls = <<>> /\ cached = NoCache /\ sent = NotSent

-----------------------------------------------------------------------------
(* Calls                                                                   *)

\* What a call returns, if it binds.
Return(c, st, value) ==
  LET bound == IF c.bind /\ st = "ok" THEN value ELSE NoCall.bound IN
  calls' = Append(calls, [bind |-> c.bind, mask |-> c.mask, st |-> st, bound |-> bound])

\* The part a call turns to after part i: one without fields is passed over.
NextPart(i) ==
  CHOOSE k \in i + 1 .. Len(Parts) :
    /\ Parts[k] = "body" \/ Route[Parts[k]] # <<>>
    /\ \A j \in i + 1 .. k - 1 : Route[Parts[j]] = <<>>

\* The selections calls are made with.
Mask == {All, {"body"}, {"query", "cookie"}}

\* A call that selects everything may find its result: an error, or a success,
\* with the value if it was bound.
Begin(bind, mask) ==
  LET c == [NoCall EXCEPT !.bind = bind, !.mask = mask, !.part = NextPart(0)]
      hit == mask = All /\ (cached.st = "error" \/ (cached.st = "ok" /\ (cached.bind \/ ~bind)))
  IN  /\ call.part = 0 /\ Len(calls) < MaxCalls /\ sent = NotSent
      /\ \A i \in DOMAIN calls : calls[i].st # "panic"
      /\ IF hit THEN Return(c, cached.st, cached.bound) /\ UNCHANGED call
                ELSE call' = c /\ UNCHANGED calls
  /\ UNCHANGED <<input, cached, sent>>

\* The call returns, and its result is kept if everything was selected.
Done(st, bound) ==
  /\ Return(call, st, bound)
  /\ call' = NoCall
  /\ cached' = IF call.mask = All /\ st # "panic"
                 THEN [st |-> st, bind |-> call.bind,
                       bound |-> IF call.bind THEN bound ELSE NoCall.bound] ELSE cached
  /\ UNCHANGED <<input, sent>>

GoOn(bound) ==
  /\ call' = [call EXCEPT !.part = NextPart(@), !.bound = bound]
  /\ UNCHANGED <<input, calls, cached, sent>>

At(p) == call.part > 0 /\ Parts[call.part] = p

\* doValidateStrAndBind: the text, else the default; a pointer is not bound.
StrAndBind(text, def) ==
  LET qv == IF text = "" THEN def.default ELSE text
      v  == PrimitiveFromStr(def.kind, qv)
  IN  CASE ~def.required /\ qv = ""                  -> Outcome("skip", Zero(def))
        [] (def.required \/ qv # "") /\ Is(v, "bad") -> Outcome("error", Nil)
        [] OTHER -> Outcome(Validated(def.rules, def.kind, v), IF def.ptr THEN Nil ELSE v)

\* A cookie has no default, and a pointer to hold one is not allocated.
CookieAndBind(text, def, bind) ==
  LET v == PrimitiveFromStr(def.kind, text)
  IN  CASE text = "" -> Outcome(IF def.required THEN "error" ELSE "skip", Zero(def))
        [] text # "" /\ Is(v, "bad") -> Outcome("error", Nil)
        [] OTHER -> LET st == Validated(def.rules, def.kind, v)
                    IN  Outcome(IF st = "ok" /\ bind /\ def.ptr THEN "panic" ELSE st, v)

\* The definitions of a part, and what each makes of the request.
Defs(p) == [i \in DOMAIN Route[p] |-> RuleDef(Route[p][i])]

PartOutcomes(p) ==
  [i \in DOMAIN Route[p] |->
     IF p = "cookie" THEN CookieAndBind(Req[p][Route[p][i].name], Defs(p)[i], call.bind)
                     ELSE StrAndBind(Req[p][Route[p][i].name], Defs(p)[i])]

\* One of header, query, path and cookie.
CheckPart(p) ==
  /\ At(p) /\ p # "body"
  /\ LET rs == PartOutcomes(p)
         value == Obj([n \in {Route[p][i].name : i \in DOMAIN rs} |->
                         rs[CHOOSE i \in DOMAIN rs : Route[p][i].name = n].val])
     IN  IF p \notin call.mask THEN GoOn(call.bound)
         ELSE IF FirstBad(rs) = "ok" THEN GoOn([call.bound EXCEPT ![p] = value])
         ELSE Done(FirstBad(rs), NoCall.bound)

Decode(doc, rd, bind) ==
  IF Route.format = "json" THEN DecodeJSON(doc, rd, bind) ELSE DecodeForm(doc, rd, bind)

NoBody == Req.body = Missing

\* The call ends with what became of the body.
DoneBody(r) ==
  Done(r.st, IF r.st = "ok" THEN [call.bound EXCEPT !.body = r.val] ELSE NoCall.bound)

\* The selected body.
CheckBody ==
  /\ At("body") /\ "body" \in call.mask
  /\ DoneBody(IF NoBody THEN Outcome(IF BodyDef.required THEN "error" ELSE "ok", Zero(BodyDef))
                        ELSE Decode(Req.body, BodyDef, call.bind))

\* Variant of TakeBody: a body that is not selected is not bound either.
TakeBodyEmpty ==
  /\ At("body") /\ "body" \notin call.mask
  /\ Done("ok", [call.bound EXCEPT !.body = Zero(BodyDef)])

\* bindRequestBodyWithoutValidation: an error is dropped, with what was bound
\* by then; that is not modelled.
Dropped(r) ==
  Outcome(IF r.st = "panic" THEN "panic" ELSE "ok", IF r.st = "ok" THEN r.val ELSE Bad)

TakeBody ==
  /\ At("body") /\ "body" \notin call.mask
  /\ DoneBody(Dropped(IF NoBody \/ ~call.bind THEN Outcome("ok", Zero(BodyDef))
                      ELSE Decode(Req.body, StripValidation(BodyDef), TRUE)))

-----------------------------------------------------------------------------
(* Send                                                                    *)

\* getRespRulesByCode, for codes without a field of their own.
RespField(declared, code) ==
  LET Pick(names) == IF \E i \in DOMAIN names : names[i] \in declared
                       THEN names[CHOOSE i \in DOMAIN names : /\ names[i] \in declared
                                    /\ \A j \in 1 .. i - 1 : names[j] \notin declared]
                       ELSE "none"
  IN  CASE code = 2 -> Pick(<<"Success", "Default">>)
        [] code = 3 -> Pick(<<"Redirection", "Default">>)
        [] code = 4 -> Pick(<<"Redirection", "Err", "Default">>)
        [] code = 5 -> Pick(<<"Err", "Default">>)
        [] OTHER    -> Pick(<<"Default">>)

\* A header: the default replaces an empty value, and one that is still empty
\* leaves a header that is already written as it is; Content-Type is not set here.
EncodeHeader(v, def, written) ==
  LET w == IF Empty(v) /\ DefVal(def) # Nil THEN DefVal(def) ELSE v
  IN  IF def.field = "content-type" \/ (Empty(w) /\ def.field \in written)
        THEN Outcome("skip", Nil)
        ELSE Outcome(Validated(def.rules, TagKind(def), w), w)

\* The handler answers with what it was given, by a schema of the same types.
Send(code) ==
  /\ call.part = 0 /\ sent = NotSent /\ calls # <<>>
  /\ LET last == calls[Len(calls)]
         hs == [i \in DOMAIN Route.header |->
                  EncodeHeader(last.bound.header.obj[Route.header[i].name], Defs("header")[i],
                               Route.written)]
         set == {i \in DOMAIN hs : hs[i].st = "ok"}
         body == Encode(last.bound.body, BodyDef)
     IN  /\ last.st = "ok" /\ last.bind /\ last.mask = All
         /\ sent' = IF RespField(Route.resps, code) = "none" \/ FirstBad(hs) # "ok"
                      THEN [NotSent EXCEPT !.st = "error"]
                    ELSE IF body.st # "ok" THEN [NotSent EXCEPT !.st = body.st]
                    ELSE [st |-> "ok", body |-> body.val,
                          header |-> [n \in {Route.header[i].name : i \in set} |->
                                        hs[CHOOSE i \in set : Route.header[i].name = n].val]]
  /\ UNCHANGED <<input, call, calls, cached>>

-----------------------------------------------------------------------------
Next ==
  \/ \E bind \in BOOLEAN, mask \in Mask :
       Begin(bind, mask)
  \/ \E p \in Part : CheckPart(p)
  \/ CheckBody \/ TakeBody
  \/ \E code \in 2 .. 5 : Send(code)

Spec == Init /\ [][Next]_vars

-----------------------------------------------------------------------------
(* What docs/validations.md asks for                                       *)

Owed(f) == HasRule(f.rules, "required") \/ HasRule(f.rules, "present")
NonZero(f) == HasRule(f.rules, "required") /\ ~HasRule(f.rules, "allow_zero")

\* min and max are about a number, or the length of a text or a list.
Within(f, n) ==
  \A r \in f.rules : (r.rule = "min" => n >= r.arg) /\ (r.rule = "max" => n <= r.arg)

OfType(k, d) ==
  CASE k = "string" -> Is(d, "str")
    [] k = "int"    -> Is(d, "num")
    [] k = "int8"   -> Is(d, "num") /\ d.num \in Int8Range
    [] k = "bool"   -> Is(d, "bool")
    [] k = "slice"  -> Is(d, "list")
    [] k \in {"struct", "map"} -> Is(d, "obj")
    [] k = "any"    -> ~Is(d, "bad")

\* A field and what the document has for it (docs/validations.md:69-76 and the
\* table at :238-243): a missing one must be neither required nor present, or have a
\* default (docs/schema-info.md:195).
Holds(f, d) ==
  IF Absent(d) THEN ~Owed(f) \/ f.default # ""
  ELSE /\ OfType(f.type.kind, d)
       /\ NonZero(f) => ~Empty(d)
       /\ Is(d, "num")  => Within(f, d.num)
       /\ Is(d, "str")  => Within(f, Len(d.str))
       /\ Is(d, "list") => Within(f, Len(d.list))

\* The fields the tags of f are about, each with its part of the document and how
\* deep it is in it: not those of a struct that may be missing and is.
RECURSIVE Places(_, _, _)
Places(f, doc, depth) ==
  {[field |-> f, node |-> doc, depth |-> depth]} \cup
  CASE f.type.kind = "struct" /\ (Owed(f) \/ ~Absent(doc)) ->
         UNION {Places(g, Get(doc, g.name), depth + 1) :
                  g \in {f.type.fields[i] : i \in DOMAIN f.type.fields}}
    [] f.type.kind = "slice" /\ Is(doc, "list") ->
         UNION {Places(ItemField(f.type.elem[1]), e, depth + 1) :
                  e \in {doc.list[i] : i \in DOMAIN doc.list}}
    [] f.type.kind = "map" /\ Is(doc, "obj") ->
         UNION {Places(ItemField(f.type.elem[1]), doc.obj[k], depth + 1) : k \in DOMAIN doc.obj}
    [] OTHER -> {}

-----------------------------------------------------------------------------
(* Where the JSON parser is known to differ                                *)

OfScalars(f) == f.type.kind = "slice" /\ IsPrimitiveKind(f.type.elem[1].kind)
NoNulls(d) == List(SelectSeq(d.list, LAMBDA e : ~Absent(e)))

\* It accepts: of a struct anything, its own tags and type count for nothing
\* (bodyparser_json.go:267, against docs/validations.md:69 and :241); a number by what
\* is left of it in its type (cont/json.go:197); any object for a map, of which no
\* rule is checked (bodyparser_json.go:326-365); a list of scalars by what is left of
\* it without its nulls (cont/json.go:347).
Lenient(f, d) ==
  \/ f.type.kind = "struct"
  \/ f.type.kind = "int8" /\ Is(d, "num") /\ Holds(f, Num(Wrap8(d.num)))
  \/ f.type.kind = "map" /\ Is(d, "obj")
  \/ OfScalars(f) /\ Is(d, "list") /\ Holds(f, NoNulls(d))

\* It refuses: an object or a list for an interface (cont/json.go:432); a list of
\* scalars by what is left of it; any object for a pointer to a map, with a panic
\* (bodyparser_json.go:337).
Stricter(f, d) ==
  \/ f.type.kind = "any" /\ (Is(d, "obj") \/ Is(d, "list"))
  \/ OfScalars(f) /\ Is(d, "list") /\ ~Holds(f, NoNulls(d))
  \/ f.type.kind = "map" /\ f.type.ptr /\ Is(d, "obj")

JSONBody == Route.format = "json" /\ ~NoBody /\ ~IsPrimitiveKind(Route.body.type.kind)

\* Bodies with a list of structs that has rules: a call that does not bind runs
\* these rules on nothing, and always fails.
RuledList(f) == f.type.kind = "slice" /\ f.rules # {} /\ ~IsPrimitiveKind(f.type.elem[1].kind)
ListsRuled(f) == RuledList(f) \/ \E i \in DOMAIN f.type.fields : RuledList(f.type.fields[i])

\* Bodies that only a call that binds looks at: forms; and those on which a call
\* that binds may panic though it does not select them, for it makes a map for a
\* pointer (bodyparser_json.go:337), or reads a missing list or map that must be
\* present (:331, :378, :412).
Unsafe(f) ==
  \/ f.type.kind = "map" /\ f.type.ptr
  \/ f.type.kind \in {"map", "slice"} /\ HasRule(FieldRules(f.rules), "present")
BoundJudged(f) ==
  Route.format = "form" \/ Unsafe(f) \/ \E i \in DOMAIN f.type.fields : Unsafe(f.type.fields[i])

-----------------------------------------------------------------------------
(* Where the form parsers are known to differ                              *)

\* A form as the document it stands for: of several texts the first counts, one
\* that cannot be converted is Bad, and so is a text where a struct is expected.
RECURSIVE FormDoc(_, _)
FormNode(f, form) ==
  LET key == <<f.name>>
      texts == Texts(form, key)
      Node(t, text) == IF t.kind = "string" THEN Str(text) ELSE PrimitiveFromStr(t.kind, text)
      Alone == IF texts = <<>> THEN Missing ELSE Bad
  IN  CASE f.type.kind = "struct" -> IF HasPrefix(form, key)
                                       THEN FormDoc(f.type, SubForm(form, key)) ELSE Alone
        [] OfScalars(f) /\ texts # <<>> ->
             List([i \in DOMAIN texts |-> Node(f.type.elem[1], texts[i])])
        [] f.type.kind = "slice" /\ ~OfScalars(f) /\ (HasPrefix(form, key) \/ texts # <<>>) ->
             List([i \in 1 .. Elements(form, f.name) |->
                     FormDoc(f.type.elem[1], SubForm(form, <<f.name, Indices[i]>>))])
        [] f.type.kind \notin {"struct", "slice"} /\ texts # <<>> -> Node(f.type, texts[1])
        [] OTHER -> Missing

FormDoc(t, form) ==
  LET names == {t.fields[i].name : i \in DOMAIN t.fields}
      node == [n \in names |-> FormNode(t.fields[CHOOSE i \in DOMAIN t.fields : t.fields[i].name = n], form)]
  IN  Obj([n \in {m \in names : ~Is(node[m], "missing")} |-> node[n]])

\* They accept: a list of any length, its rules are not checked
\* (bodyparser_form.go:102-178); a text for a struct; and below the fields of the
\* body anything that is there if it must be and is of its type (:258), the absence
\* of a struct or a list included.
FormLenient(f, d, depth) ==
  CASE f.type.kind = "struct" -> depth > 1 \/ ~Absent(d)
    [] f.type.kind = "slice"  -> depth > 1 \/ Is(d, "list")
    [] OTHER -> depth > 1 /\ Holds([f EXCEPT !.rules = IF Owed(f) THEN {Rule("present")} ELSE {}], d)

\* They refuse: an empty text for a string with rules, which they take for none
\* (utils/primitives.go:18, against docs/validations.md:242); what is missing and has
\* a default, of which they know nothing (against docs/schema-info.md:195); and a
\* missing struct below the fields of the body, whose fields must be there.
RECURSIVE Demands(_)
Demands(t) ==
  \E i \in DOMAIN t.fields :
    IF t.fields[i].type.kind = "struct" THEN Demands(t.fields[i].type)
    ELSE Owed(t.fields[i]) /\ t.fields[i].type.kind # "slice"

FormStricter(f, d, depth) ==
  \/ f.type.kind = "string" /\ d = Str("") /\ f.rules # {}
  \/ Absent(d) /\ Owed(f) /\ f.default # ""
  \/ f.type.kind = "struct" /\ depth > 1 /\ Absent(d) /\ Demands(f.type)

-----------------------------------------------------------------------------
(* Properties                                                              *)

Full == {i \in DOMAIN calls : calls[i].mask = All}

\* A call that binds a JSON body accepts it only if every field meets its tags as
\* docs/validations.md reads, or is one of those Lenient names; and fails only if
\* some field does not, or is one of those Stricter names.  What the chain called
\* before does not matter.  Left out are a body that is a scalar itself, which is
\* parsed as a text, and a call after one that did not bind a body of ListsRuled,
\* the error of which it finds.
BodyJudged ==
  \A i \in DOMAIN calls :
    calls[i].bind /\ "body" \in calls[i].mask /\ JSONBody
    /\ (\A p \in calls[i].mask \ {"body"} : Route[p] = <<>>)
    /\ (ListsRuled(Route.body) => \A j \in 1 .. i - 1 : calls[j].bind)
      => LET places == Places(Route.body, Req.body, 0)
         IN  IF calls[i].st = "ok"
               THEN \A p \in places : Holds(p.field, p.node) \/ Lenient(p.field, p.node)
               ELSE \E p \in places : ~Holds(p.field, p.node) \/ Stricter(p.field, p.node)

\* Calls of one chain agree.  What one accepts is accepted by each that selects no
\* more parts, before or after it, whether they bind or not; and what two calls bind
\* they bind alike, a body also when it was not selected
\* (requests_partial_test.go), but for a null body, which is only bound when it is.
\* Two kinds of body are left out, on which calls do disagree: one of BoundJudged
\* when the first call did not bind and another did, although docs/validations.md:21
\* has both check it; and one of ListsRuled when not all calls of the chain bind, of
\* which those that do not are refused.  In both the error is then given to every later
\* call that selects everything (requests.go:108).
CallsAgree ==
  \A i, j \in DOMAIN calls :
    /\ calls[i].st = "ok" /\ calls[j].mask \subseteq calls[i].mask
       /\ (BoundJudged(Route.body) => calls[i].bind \/ \A k \in DOMAIN calls : ~calls[k].bind)
       /\ (ListsRuled(Route.body) => \A k \in DOMAIN calls : calls[k].bind)
         => calls[j].st = "ok"
    /\ (\A k \in {i, j} : calls[k].st = "ok" /\ calls[k].bind) /\ "body" \in calls[i].mask
         => /\ \A p \in calls[i].mask \cap calls[j].mask : calls[i].bound[p] = calls[j].bound[p]
            /\ calls[i].bound.body = calls[j].bound.body \/ Req.body = Nil

\* A body that has been received, sent again.
SentAgain(body) == body.st = "ok" /\ Encode(body.val, BodyDef).val = sent.body

\* A client that sends a response back gets it accepted: the body bound to a value
\* that is sent as the same body again, each header bound to the value it was sent for.
RoundTrip ==
  sent.st = "ok" =>
    /\ JSONBody => SentAgain(DecodeJSON(sent.body, BodyDef, TRUE))
    /\ \A i \in DOMAIN Route.header : Route.header[i].name \in DOMAIN sent.header =>
         LET v == sent.header[Route.header[i].name]
             back == StrAndBind(IF Is(v, "str") THEN v.str ELSE Raw(v), Defs("header")[i])
         IN  back.st \in {"ok", "skip"} /\ back.val = v

\* A call c, against the fields and what the JSON parser makes of the document.
FormJudged(c, places, json) ==
  IF c.st = "ok"
    THEN /\ \A p \in places : Holds(p.field, p.node) \/ FormLenient(p.field, p.node, p.depth)
         /\ json.st = "ok" /\ (\A p \in places : /\ Absent(p.node) => p.field.default = ""
                                                 /\ p.node = Str("") => ~p.field.type.ptr)
              => c.bound.body = json.val
    ELSE \E p \in places : ~Holds(p.field, p.node) \/ FormStricter(p.field, p.node, p.depth)

JudgedAs(c, doc) == FormJudged(c, Places(Route.body, doc, 0), DecodeJSON(doc, BodyDef, TRUE))

\* A call that binds a form judges it as the document it stands for: it accepts it
\* only if every field meets its tags or is one of those FormLenient names, and
\* refuses it only if some field does not or is one of those FormStricter names;
\* and what it binds is what the JSON parser binds of that document, when that
\* accepts it, but for a missing field with a default and for an empty text, which
\* leaves a pointer nil.  A form with a field for a file is left out.
FormsAgree ==
  \A i \in Full :
    Route.format = "form" /\ ~NoBody /\ calls[i].bind
    /\ (\A k \in DOMAIN Route.body.type.fields : Route.body.type.fields[k].type.kind # "file")
      => JudgedAs(calls[i], FormDoc(Route.body.type, Req.body))
===============================================================================
