-------------------------------- MODULE Router --------------------------------
(***************************************************************************)
(* Building a router (mux.go): Use, With, Group, Route, the registration   *)
(* of routes and of static files, and Inject.                              *)
(*                                                                         *)
(* With copies the mux struct.  The copy has its maps and options in common*)
(* with its parent, and a slice header of its own over the same backing    *)
(* array of middlewares: heap holds these arrays, and append writes into   *)
(* the array it finds when there is room.  Inline middlewares are copied   *)
(* to a full array each time, so a sequence stands for them.               *)
(*                                                                         *)
(* The scope of a mux is what its stack is meant to be.  A program is      *)
(* nested while it calls no mux after it went back to one that encloses it,*)
(* as the callbacks of Group and Route do; a Router they return, or one    *)
(* that is kept, allows anything.  Calls are made one after the other.     *)
(*                                                                         *)
(* A path is a sequence of "/" and names, a method is given in upper case. *)
(* Which patterns make addRoute panic is the subject of RouteTree: here    *)
(* only a duplicate does, and the caller may recover.  OpenAPI documents   *)
(* are left out.                                                           *)
(***************************************************************************)
EXTENDS Naturals, Sequences, FiniteSets

CONSTANTS
  Mux,         \* serveMux objects
  Root,        \* the one made by NewRouter
  Arr,         \* backing arrays of middleware slices
  First,       \* the first of them
  InitCap,     \* its capacity
  Middleware,  \* the middlewares; each is given once
  None,        \* an array element not yet written; no schema
  Batch,       \* the lists of them given to Use
  Inline,      \* the lists of them given to With
  Method,      \* the methods routes are registered with
  Get,         \* the one Static uses
  Token,       \* what paths are made of
  Given,       \* the paths given to Get, Post, ... and Static
  Prefix,      \* the patterns given to Route
  Schema,      \* the schemas of routes
  Opts,        \* the RouteOptions: a schema or None, and whether there is meta
  MaxRoutes,   \* bound on the number of routes
  MaxLeft      \* bound on the number of replaced schemas

ASSUME MuxAssumption == Root \in Mux
ASSUME ArrAssumption == First \in Arr /\ InitCap \in Nat \ {0}
ASSUME BatchAssumption == Batch \cup Inline \subseteq Seq(Middleware) \ {<<>>}
ASSUME MethodAssumption == Get \in Method
ASSUME OptsAssumption ==
  None \notin Schema /\ Opts \subseteq [schema : Schema \cup {None}, meta : BOOLEAN]
ASSUME PathAssumption ==
  /\ {"/", "*filepath"} \subseteq Token
  /\ Given \subseteq Seq(Token) /\ Prefix \subseteq Seq(Token)

VARIABLES
  made,      \* the muxes that exist
  heap,      \* the elements of each array, <<>> before it is allocated
  mws,       \* s.middlewares: an array and a length
  inline,    \* s.inlineMiddlewares
  prefix,    \* s.prefix
  routes,    \* the routes in s.trees
  rules,     \* s.opts.schemaRules: the schema of each path and method that has one
  meta,      \* s.routeMeta: the paths and methods that have meta
  scope,     \* history: what each stack is meant to be
  outer,     \* history: the names in the prefixes of the enclosing Routes
  depth,     \* history: how many muxes enclose each
  live,      \* history: the muxes whose blocks have not ended
  nested,    \* history: whether all calls have been nested
  replaced   \* history: where an Inject or a refused registration left its schema

vars == <<made, heap, mws, inline, prefix, routes, rules, meta,
          scope, outer, depth, live, nested, replaced>>

\* s.middlewares.
Stack(m) == [i \in 1 .. mws[m].len |-> heap[mws[m].arr][i]]

Key == [path : Seq(Token), method : Method]

KeyOf(r) == [path |-> r.path, method |-> r.method]

\* GetRules, with which a request finds the schema of the route it was led to.
GetRules(k) == IF k \in DOMAIN rules THEN rules[k] ELSE None

\* The names in the first i elements of a path, for each i.
NamesIn(path) ==
  LET names[i \in Nat] ==
        IF i = 0 THEN <<>>
        ELSE IF path[i] = "/" THEN names[i - 1] ELSE Append(names[i - 1], path[i])
  IN  names

Names(path) == NamesIn(path)[Len(path)]

\* One slash between two names, and none missing.
Alternates(path) == \A i \in 1 .. Len(path) - 1 : path[i] = "/" <=> path[i + 1] # "/"

\* joinPath looks at the ends of what it joins only.
ASSUME SlashAssumption == \A p \in Given \cup Prefix : Alternates(p)

\* Types, and that every slice of middlewares ends within its array.
TypeOK ==
  /\ made \subseteq Mux
  /\ heap \in [Arr -> Seq(Middleware \cup {None})]
  /\ mws \in [Mux -> [arr : Arr, len : Nat]]
  /\ inline \in [Mux -> Seq(Middleware)]
  /\ prefix \in [Mux -> Seq(Token)]
  /\ \A r \in routes : KeyOf(r) \in Key
  /\ DOMAIN rules \subseteq Key /\ \A k \in DOMAIN rules : rules[k] \in Schema
  /\ meta \subseteq Key /\ replaced \subseteq Key
  /\ scope \in [Mux -> Seq(Middleware)]
  /\ depth \in [Mux -> Nat]
  /\ live \subseteq made
  /\ nested \in BOOLEAN
  /\ \A m \in made : /\ mws[m].len <= Len(heap[mws[m].arr])
                     /\ heap[mws[m].arr] # <<>>
                     /\ Stack(m) \in Seq(Middleware)

-----------------------------------------------------------------------------
Init ==
  /\ made = {Root}
  /\ heap = [a \in Arr |-> IF a = First THEN [i \in 1 .. InitCap |-> None] ELSE <<>>]
  /\ mws = [m \in Mux |-> [arr |-> First, len |-> 0]]
  /\ inline = [m \in Mux |-> <<>>]
  /\ prefix = [m \in Mux |-> <<>>]
  /\ routes = {} /\ rules = [k \in {} |-> None] /\ meta = {} /\ replaced = {}
  /\ scope = [m \in Mux |-> <<>>]
  /\ outer = [m \in Mux |-> <<>>]
  /\ depth = [m \in Mux |-> 0]
  /\ live = {Root} /\ nested = TRUE

\* A call of a method of m, during which the muxes in new are made: it ends the
\* blocks inside m's.
Call(m, new) ==
  /\ m \in made
  /\ nested' = (nested /\ m \in live)
  /\ live' = {x \in live : depth[x] <= depth[m]} \cup new

\* Each middleware is given once, in one place.
Unused(ws) ==
  \A m \in made, i \in DOMAIN ws :
    /\ \A j \in DOMAIN scope[m] : scope[m][j] # ws[i]
    /\ \A j \in DOMAIN inline[m] : inline[m][j] # ws[i]

\* append within the capacity: the array has one element more for each of ws.
Write(s, n, ws) == [i \in DOMAIN s |-> IF i \in n + 1 .. n + Len(ws) THEN ws[i - n] ELSE s[i]]

\* append beyond it: a new array, with twice the capacity or what is needed.
Grown(s, n, ws) ==
  LET cap == IF n + Len(ws) > 2 * Len(s) THEN n + Len(ws) ELSE 2 * Len(s)
  IN  [i \in 1 .. cap |-> IF i <= n THEN s[i] ELSE IF i <= n + Len(ws) THEN ws[i - n] ELSE None]

\* s.middlewares = append(s.middlewares, ws...)
AppendTo(m, ws) ==
  LET a == mws[m].arr
      n == mws[m].len
  IN  IF n + Len(ws) <= Len(heap[a])
        THEN /\ heap' = [heap EXCEPT ![a] = Write(heap[a], n, ws)]
             /\ mws' = [mws EXCEPT ![m] = [arr |-> a, len |-> n + Len(ws)]]
        ELSE \E b \in Arr :
               /\ heap[b] = <<>>
               /\ heap' = [heap EXCEPT ![b] = Grown(heap[a], n, ws)]
               /\ mws' = [mws EXCEPT ![m] = [arr |-> b, len |-> n + Len(ws)]]

Use(m, ws) ==
  /\ Call(m, {})
  /\ Unused(ws)
  /\ AppendTo(m, ws)
  /\ scope' = [scope EXCEPT ![m] = @ \o ws]
  /\ UNCHANGED <<made, inline, prefix, routes, rules, meta, outer, depth, replaced>>

\* Variant of Join: without a look at the slashes.
JoinPlain(p, q) == p \o q

\* joinPath: one slash between a prefix and a path.
Join(p, q) ==
  CASE p = <<>> -> q
    [] q = <<>> -> p
    [] OTHER -> LET before == p[Len(p)] = "/"
                    after == Head(q) = "/"
                IN  CASE before /\ after -> p \o Tail(q)
                      [] ~before /\ ~after -> p \o <<"/">> \o q
                      [] OTHER -> p \o q

\* With copies m into c, with more inline middlewares.
Copy(m, c, ws, pattern) ==
  /\ Call(m, {c})
  /\ c \notin made
  /\ made' = made \cup {c}
  /\ mws' = [mws EXCEPT ![c] = mws[m]]
  /\ inline' = [inline EXCEPT ![c] = inline[m] \o ws]
  /\ prefix' = [prefix EXCEPT ![c] = Join(prefix[m], pattern)]
  /\ scope' = [scope EXCEPT ![c] = scope[m]]
  /\ outer' = [outer EXCEPT ![c] = outer[m] \o Names(pattern)]
  /\ depth' = [depth EXCEPT ![c] = depth[m] + 1]
  /\ UNCHANGED <<heap, routes, rules, meta, replaced>>

With(m, c, ws) == Unused(ws) /\ Copy(m, c, ws, <<>>)

Group(m, c) == Copy(m, c, <<>>, <<>>)

Route(m, c, pattern) == Copy(m, c, <<>>, pattern)

\* Variant of SetRules: what the path has for other methods is dropped.
SetRulesAlone(path, method, schema) ==
  [k \in {k \in DOMAIN rules : k.path # path} \cup {[path |-> path, method |-> method]} |->
     IF k.path = path THEN schema ELSE rules[k]]

\* SetRules adds to what the path has for other methods, and replaces what it has
\* for this one.
SetRules(path, method, schema) ==
  LET key == [path |-> path, method |-> method]
  IN  [k \in DOMAIN rules \cup {key} |-> IF k = key THEN schema ELSE rules[k]]

\* s.routeMeta[path] = v drops what the path has for other methods.
SetMeta(path, method) ==
  {k \in meta : k.path # path} \cup {[path |-> path, method |-> method]}

\* What a registration and an Inject store of their options.
Store(path, method, opts) ==
  /\ rules' = IF opts.schema # None THEN SetRules(path, method, opts.schema) ELSE rules
  /\ meta' = IF opts.meta THEN SetMeta(path, method) ELSE meta

\* Variant of Chain: inline middlewares come first.
ChainInlineFirst(m) == inline[m] \o Stack(m)

\* What runs before a handler.
Chain(m) == Stack(m) \o inline[m]

\* s.method: a route gets the chain of its mux.  given, a history, names the path
\* the caller gave.  Nobody registers an empty path.
AddRoute(m, method, path, given, opts, static) ==
  LET full == Join(prefix[m], path)
      key == [path |-> full, method |-> method]
  IN  /\ Call(m, {})
      /\ full # <<>> /\ Cardinality(routes) < MaxRoutes
      /\ \A r \in routes : KeyOf(r) # key
      /\ Store(full, method, opts)
      /\ replaced' = IF opts.schema # None THEN replaced \ {key} ELSE replaced
      /\ routes' = routes \cup
           {[path |-> full, method |-> method, chain |-> Chain(m), schema |-> opts.schema,
             scope |-> scope[m] \o inline[m], outer |-> outer[m], given |-> given,
             static |-> static]}
      /\ UNCHANGED <<made, heap, mws, inline, prefix, scope, outer, depth>>

Register(m, method, path, opts) == AddRoute(m, method, path, Names(path), opts, FALSE)

\* Static joins the prefix, and s.method joins it again.
Static(m, path) ==
  LET joined == Join(prefix[m], path)
  IN  AddRoute(m, Get, Join(joined, <<"/", "*filepath">>), Names(path) \o <<"*filepath">>,
               [schema |-> None, meta |-> FALSE], TRUE)

\* Where a schema is stored for a route that is not registered with it.
Leave(path, method, opts) ==
  /\ Cardinality(replaced) < MaxLeft
  /\ Store(path, method, opts)
  /\ replaced' = IF opts.schema # None
                   THEN replaced \cup {[path |-> path, method |-> method]} ELSE replaced
  /\ UNCHANGED <<made, heap, mws, inline, prefix, routes, scope, outer, depth>>

\* A second registration of a path and method panics in addRoute, after it has
\* stored its schema and meta.
RegisterTwice(m, method, path, opts) ==
  LET full == Join(prefix[m], path)
  IN  /\ Call(m, {})
      /\ \E r \in routes : KeyOf(r) = [path |-> full, method |-> method]
      /\ Leave(full, method, opts)

\* Inject runs a handler that no tree has, at a path without the prefix; it
\* leaves its schema and meta in the maps of the mux.
Inject(m, method, path, opts) == Call(m, {}) /\ Leave(path, method, opts)

Next == \E m \in Mux :
  \/ \E ws \in Batch : Use(m, ws)
  \/ \E c \in Mux :
       \/ Group(m, c)
       \/ \E ws \in Inline : With(m, c, ws)
       \/ \E p \in Prefix : Route(m, c, p)
  \/ \E p \in Given : Static(m, p)
  \/ \E method \in Method, p \in Given, opts \in Opts :
       \/ Register(m, method, p, opts)
       \/ RegisterTwice(m, method, p, opts)
       \/ Inject(m, method, p, opts)

Spec == Init /\ [][Next]_vars

-----------------------------------------------------------------------------
(* Properties                                                              *)

\* README.md:325: "Middleware applied within a `Route` block will only affect
\* routes within that block."  As long as blocks are nested and no mux is used
\* after its block, each route runs the middlewares of the blocks around it, in
\* order, although all muxes may share one array.
BlockScoped ==
  nested => /\ \A m \in live : Stack(m) = scope[m]
            /\ \A r \in routes : r.chain = r.scope

\* docs/routing.md:93: "The prefix join is slash-safe".  A route is found below
\* the prefixes of all blocks around it, in order, and under the path given, with
\* one slash between two names and none missing.  This is not so of Static in a
\* block with a prefix: its routes have the prefix twice, although README.md:601
\* has them "at "/assets" route"; nothing is claimed of their names.
Joined(r) == Names(r.path) = r.outer \o r.given

PathsJoined ==
  \A r \in routes : Alternates(r.path) /\ (~r.static \/ r.outer = <<>> => Joined(r))

\* Requests for a route are bound with the schema it was registered with, and
\* with none if it has none, whatever is registered or injected later under its
\* path for other methods or elsewhere.  An Inject for the very path and method
\* of the route, and a registration of them that is refused, do leave their
\* schema to it, and also to a route without one that comes after.
RulesKept == \A r \in routes : KeyOf(r) \notin replaced => GetRules(KeyOf(r)) = r.schema
=============================================================================
