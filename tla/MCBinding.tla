------------------------------ MODULE MCBinding -------------------------------
(***************************************************************************)
(* Small schemas for Binding, and for each the documents that are absent,  *)
(* null, of another type, zero, and at, below and above its limits; and a  *)
(* websocket route with contracts of one and two variants.                 *)
(***************************************************************************)
EXTENDS WebSocketRoute

MCNumber == ("0" :> 0) @@ ("1" :> 1) @@ ("3" :> 3) @@ ("7" :> 7) @@ ("200" :> 200)

F(n, t, r)        == [name |-> n, type |-> t, rules |-> r, default |-> "", omit |-> FALSE]
WithDefault(f, d) == [f EXCEPT !.default = d]
Omitted(f)        == [f EXCEPT !.omit = TRUE]

Required == {Rule("required")}
Present  == {Rule("present")}
AllowZero == {Rule("required"), Rule("allow_zero")}
Text  == Scalar("string")
IntT  == Scalar("int")
Short == Scalar("int8")
Flag  == Scalar("bool")
AnyT  == Scalar("any")

Pair == StructOf(<<F("n", IntT, Required), WithDefault(F("s", Text, {}), "abc")>>)

Bodies == <<
  StructOf(<<F("s", Text, Required \cup {Limit("min", 2)}), F("n", IntT, {Limit("max", 5)})>>),
  StructOf(<<F("s", Text, {Limit("min", 2)}), WithDefault(F("n", IntT, Required), "3")>>),
  StructOf(<<F("b", Flag, AllowZero), F("n", Short, Required \cup {Limit("max", 5)})>>),
  StructOf(<<Omitted(F("b", Flag, {})), F("n", Pointer(IntT), Present)>>),
  StructOf(<<F("p", Pair, Required), F("b", Flag, {})>>),
  StructOf(<<F("p", StructOf(<<F("s", Text, {})>>), Required), F("n", Pointer(Pair), {})>>),
  StructOf(<<F("l", SliceOf(IntT), {Limit("max", 1)}), F("m", MapOf(IntT), {})>>),
  StructOf(<<F("l", SliceOf(Text), Present), F("a", AnyT, {})>>),
  StructOf(<<F("m", Pointer(MapOf(IntT)), {})>>),
  StructOf(<<F("l", SliceOf(Pair), {})>>),
  StructOf(<<F("l", SliceOf(Pair), Required)>>),
  SliceOf(Pair), SliceOf(IntT), Short >>

\* What may stand where a value of a type is expected.
Scalars(k) ==
  CASE k = "string" -> {Str(""), Str("a"), Str("abc")}
    [] k \in {"int", "int8"} -> {Num(0), Num(3), Num(7), Num(200)}
    [] k = "bool" -> {Bool(TRUE), Bool(FALSE)}
    [] k = "any" -> {Str("a"), Num(0)}

RECURSIVE Docs(_)
Objects(fs) ==
  LET names == {fs[i].name : i \in DOMAIN fs}
      ds == [n \in names |-> Docs(fs[CHOOSE i \in DOMAIN fs : fs[i].name = n].type)]
      Some == UNION {ds[n] : n \in names}
  IN  {Obj([n \in {m \in names : ~Is(f[m], "missing")} |-> f[n]]) :
         f \in {g \in [names -> Some] : \A n \in names : g[n] \in ds[n]}}

\* The elements of lists and maps, fewer of them.
Elements1(t) == IF t.kind = "struct"
                  THEN {Nil, Obj(<<>>), Obj([n |-> Num(3)]), Obj([n |-> Num(3), s |-> Str("a")])}
                  ELSE {Nil, Num(3), Str("a")}

Docs(t) ==
  {Missing, Nil, IF t.kind \in {"string", "any"} THEN Obj(<<>>) ELSE Str("a")} \cup
  CASE t.kind = "struct" -> Objects(t.fields)
    [] t.kind = "slice" -> {List(<<>>)} \cup {List(<<e>>) : e \in Elements1(t.elem[1])}
                             \cup {List(<<e, e>>) : e \in Elements1(t.elem[1])}
    [] t.kind = "map" -> {Obj(<<>>)} \cup {Obj([k |-> e]) : e \in Elements1(t.elem[1])}
    [] OTHER -> Scalars(t.kind)

NoText == [header |-> <<>>, query |-> <<>>, path |-> <<>>, cookie |-> <<>>]

Plain(t, format) ==
  [header |-> <<>>, query |-> <<>>, path |-> <<>>, cookie |-> <<>>,
   body |-> F("body", t, Required), format |-> format, resps |-> {"Default"}, written |-> {},
   ws |-> FALSE, family |-> [disc |-> "type", variants |-> <<>>]]

\* One body after another.
JSONRoutes == [i \in DOMAIN Bodies |-> Plain(Bodies[i], "json")]
JSONRequests(t) == {NoText @@ [body |-> d] : d \in Docs(t)}

\* The other parts, each with a text.
PartsRoute ==
  [Plain(StructOf(<<F("s", Text, {})>>), "json") EXCEPT
     !.header = <<WithDefault(F("h", Text, {Limit("min", 2)}), "abc")>>,
     !.query  = <<F("q", Short, Present), F("r", IntT, Required)>>,
     !.path   = <<F("i", Short, AllowZero)>>,
     !.cookie = <<F("c", IntT, Required)>>,
     !.resps  = {"Success", "Err"}]

PartsRequests ==
  {[header |-> [h |-> h], query |-> [q |-> q, r |-> r], path |-> [i |-> i],
    cookie |-> [c |-> c], body |-> b] :
     h \in {"", "a", "abc"}, q \in {"", "0", "200"}, r \in {"", "3"}, i \in {"0", "x"},
     c \in {"", "7"}, b \in {Missing, Obj([s |-> Str("a")]), Str("a")}}

\* Headers, some of which a middleware has written.
HeaderRoute(written) ==
  [Plain(StructOf(<<>>), "json") EXCEPT
     !.header = <<WithDefault(F("h", Text, {Limit("min", 2)}), "abc"), F("x", Text, {Limit("max", 2)}),
                  F("content-type", Text, {})>>,
     !.written = written]

HeaderRoutes == [i \in 1 .. 4 |-> HeaderRoute(<<{}, {"h"}, {"x"}, {"h", "x"}>>[i])]
HeaderRequests ==
  {[NoText EXCEPT !.header = ("h" :> h) @@ ("x" :> x) @@ ("content-type" :> "abc")]
     @@ [body |-> Obj(<<>>)] : h \in {"", "abc"}, x \in {"", "a", "abc"}}

\* Forms.
Upload == StructOf(<<F("f", Scalar("file"), Required), F("s", Text, {})>>)
DeepForm == StructOf(<<F("p", Pair, Required), F("l", SliceOf(Pair), {}), F("t", SliceOf(IntT), {})>>)
NestedForm ==
  StructOf(<<F("p", StructOf(<<F("o", Pair, {}), F("s", Text, Required \cup {Limit("min", 2)}),
                               F("l", SliceOf(IntT), Required)>>), {}),
             F("t", SliceOf(Text), Required \cup {Limit("max", 1)})>>)

Form(value, file) == [value |-> value, file |-> file]

\* What the tags of a form's scalars may say.
TextForms == <<
  StructOf(<<F("s", Text, Required \cup {Limit("min", 2)}), F("n", Short, {})>>),
  StructOf(<<F("s", Text, Present), F("n", IntT, AllowZero)>>),
  StructOf(<<F("s", Text, {Limit("max", 2)}), WithDefault(F("n", IntT, Required), "3")>>),
  StructOf(<<F("s", Pointer(Text), {}), F("n", Flag, Required)>>) >>

\* Some of the keys, each with some of the texts.
Keys(keys, texts) == UNION {[k -> texts] : k \in SUBSET keys}

FormDocs(t) ==
  CASE t = DeepForm ->
         {Form(v, {}) : v \in Keys({<<"p", "n">>, <<"l", "0", "n">>, <<"l", "1", "n">>, <<"t">>},
                                   {<<"3">>, <<"x">>})}
    [] t = NestedForm ->
         {Form(v, {}) : v \in Keys({<<"p">>, <<"p", "o", "n">>, <<"p", "s">>, <<"t">>},
                                   {<<"">>, <<"3">>})}
    [] t = Upload ->
         {Form(v, f) : v \in Keys({<<"f">>, <<"s">>}, {<<"abc">>}), f \in SUBSET {<<"f">>, <<"s">>}}
    [] OTHER ->
         {Form(v, {}) : v \in Keys({<<"s">>, <<"n">>},
                                   {<<"">>, <<"a">>, <<"abc">>, <<"3", "7">>, <<"0">>, <<"1">>})}

FormTypes == TextForms \o <<DeepForm, NestedForm, Upload>>
FormRoutes == [i \in DOMAIN FormTypes |-> Plain(FormTypes[i], "form")]
FormRequests(t) == {NoText @@ [body |-> d] : d \in FormDocs(t)}

-----------------------------------------------------------------------------
(* Messages: one that demands a field, one that demands nothing, one that  *)
(* names its own kind, and the envelopes, one with a convertible payload.  *)

JoinT  == StructOf(<<F("nick", Text, Required \cup {Limit("min", 2)}), F("age", IntT, {Limit("max", 5)})>>)
NoteT  == StructOf(<<F("text", Text, {Limit("max", 2)})>>)
AlertT == StructOf(<<F("kind", Text, {}), F("msg", Text, Required)>>)
Bare   == StructOf(<<F("nick", Text, {}), F("age", IntT, {})>>)
Envelope(t) == StructOf(<<F("kind", Text, {}), F("payload", t, {})>>)

MCTypeDef ==
  ("Join" :> JoinT) @@ ("Note" :> NoteT) @@ ("Alert" :> AlertT) @@ ("Bare" :> Bare) @@
  ("JoinEnv" :> Envelope(JoinT)) @@ ("BareEnv" :> Envelope(Bare)) @@ ("AnyEnv" :> Envelope(AnyT))

MCPayloadType == ("JoinEnv" :> "Join") @@ ("BareEnv" :> "Bare") @@ ("AnyEnv" :> "any")

Contracted(vs) == [disc |-> "kind", variants |-> vs]
V(type, schema) == [type |-> type, schema |-> schema]

MCContract == <<Contracted(<<>>), Contracted(<<V("join", "Join"), V("note", "Note")>>),
                Contracted(<<V("join", "Join"), V("alert", "Alert")>>),
                Contracted(<<V("join", "Note"), V("join", "Join")>>)>>

Joins  == {Obj([nick |-> n, age |-> a]) : n \in {Str(""), Str("abc")}, a \in {Num(0), Num(7)}}
Notes  == {Obj([text |-> t]) : t \in {Str(""), Str("a"), Str("abc")}}
Alerts == {Obj([kind |-> Str("alert"), msg |-> m]) : m \in {Str(""), Str("a")}}
Wrap(k, p) == Obj([kind |-> Str(k), payload |-> p])
Out(ty, inner, vs) == {[type |-> ty, inner |-> inner, val |-> v] : v \in vs}

MCOutgoing ==
  Out("Join", "Join", Joins) \cup Out("Note", "Note", Notes) \cup Out("Alert", "Alert", Alerts)
  \cup Out("JoinEnv", "Join", {Wrap("join", p) : p \in Joins})
  \cup Out("AnyEnv", "Alert", {Wrap(k, p) : k \in {"note", "alert"}, p \in Alerts})
  \cup Out("AnyEnv", "Note", {Wrap("note", p) : p \in Notes})

MCIncoming ==
  {Bad, Obj(<<>>), Obj([nick |-> Str("abc")]), Wrap("other", Nil),
   Obj([kind |-> Num(3), payload |-> Nil]), Obj([kind |-> Nil, payload |-> Nil])}
  \cup {Wrap(k, p) : k \in {"join", "note"},
          p \in {Nil, Obj(<<>>), Obj([nick |-> Str("abc")]), Obj([age |-> Num(3)]), Obj([nick |-> Num(3)])}}

\* The handshake of a websocket route: a query parameter, and no body.
Handshakes ==
  [i \in DOMAIN MCContract |->
     [Plain(StructOf(<<>>), "json") EXCEPT !.query = <<F("q", IntT, Required)>>,
        !.body.rules = {}, !.ws = TRUE, !.family = MCContract[i]]]
HandshakeRequests ==
  {[NoText EXCEPT !.query = [q |-> q]] @@ [body |-> Missing] : q \in {"", "3"}}

MCRoutes == JSONRoutes \o FormRoutes \o HeaderRoutes \o Handshakes \o <<PartsRoute>>

RequestsTo(route) ==
  CASE route = PartsRoute -> PartsRequests
    [] route.ws -> HandshakeRequests
    [] route.format = "form" -> FormRequests(route.body.type)
    [] \E i \in DOMAIN HeaderRoutes : route = HeaderRoutes[i] -> HeaderRequests
    [] OTHER -> JSONRequests(route.body.type)

MCInput ==
  UNION {{[route |-> MCRoutes[i], req |-> r] : r \in RequestsTo(MCRoutes[i])} : i \in DOMAIN MCRoutes}
===============================================================================
