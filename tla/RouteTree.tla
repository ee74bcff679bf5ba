------------------------------ MODULE RouteTree -------------------------------
(***************************************************************************)
(* The radix tree of one method's routes (tree.go): addRoute and           *)
(* insertChild, run while routes are registered, and getValue, run for each*)
(* request.                                                                *)
(*                                                                         *)
(* A pattern is a sequence of tokens: a character, or a whole wildcard     *)
(* (":name" or "*name"), which is how the code compares them: a static     *)
(* node's path holds no wildcard, and a wildcard is only ever compared to  *)
(* another as a whole.                                                     *)
(*                                                                         *)
(* The nodes are records in memory, found by pointers.  An action is one   *)
(* turn of the loop of addRoute or of insertChild.  countParams and        *)
(* maxParams, which only size a slice, are left out.                       *)
(***************************************************************************)
EXTENDS Naturals, SequencesExt

CONSTANTS
  Char,       \* the characters
  Param,      \* the ":name" tokens
  CatchAll,   \* the "*name" tokens
  Nameless,   \* those with an empty name
  Pattern,    \* the patterns that may be registered
  Path        \* the request paths

Wildcard == Param \cup CatchAll

\* The characters and the wildcards are told apart by their first byte.
ASSUME TokenAssumption ==
  "/" \in Char /\ Char \cap Wildcard = {} /\ Param \cap CatchAll = {}

\* A pattern begins with a slash, as a path does (the mux does not check it), and
\* a wildcard ends where a slash or another wildcard begins (findWildcard).
ASSUME PatternAssumption ==
  \A p \in Pattern :
    /\ p \in Seq(Char \cup Wildcard) /\ p # <<>> /\ p[1] = "/"
    /\ \A i \in 2 .. Len(p) : p[i - 1] \in Wildcard => p[i] \in Wildcard \cup {"/"}

ASSUME PathAssumption == \A q \in Path : q \in Seq(Char) /\ q # <<>> /\ q[1] = "/"

\* fasthttp has normalised the path: it has no empty segment.
ASSUME NormalAssumption ==
  \A q \in Path : \A i \in 2 .. Len(q) : ~(q[i - 1] = "/" /\ q[i] = "/")

VARIABLES
  node,       \* the nodes, by pointer
  routes,     \* the patterns registered so far
  call        \* the registration under way: its loop, node, rest of the path, pattern

vars == <<node, routes, call>>

NoData == <<>>        \* n.data = nil, else the pattern of its routeData

Node(type, path, prio) ==
  [path |-> path, type |-> type, priority |-> prio, indices |-> <<>>,
   children |-> <<>>, wild |-> <<>>, data |-> NoData]

\* A pointer to a new node.  Which one it is does not matter: it is named by the
\* text above the node and its first token, so that memory looks the same whatever
\* the order of the registrations.
New(h, name) == IF name \notin DOMAIN h THEN name ELSE CHOOSE x : x \notin DOMAIN h

Root == <<<<>>, "/">>

\* The memory h with n at x.
Put(h, x, n) == [y \in DOMAIN h \cup {x} |-> IF y = x THEN n ELSE h[y]]

\* x.priority++
Count(h, x) == Put(h, x, [h[x] EXCEPT !.priority = @ + 1])

\* path[i:], for i tokens already matched.
From(path, i) == SubSeq(path, i + 1, Len(path))

\* longestCommonPrefix: how many tokens two paths share.
SharedLength(p, q) ==
  CHOOSE i \in 0 .. Len(p) :
    /\ i <= Len(q) /\ SubSeq(p, 1, i) = SubSeq(q, 1, i)
    /\ i < Len(p) /\ i < Len(q) => p[i + 1] # q[i + 1]

\* Where a token is among the indices, 0 if it is not.
Index(s, c) == SelectInSeq(s, LAMBDA d : d = c)

-----------------------------------------------------------------------------
(* Registration                                                            *)

Idle == [loop |-> "idle", n |-> Root, path |-> <<>>, pattern |-> <<>>]

\* Where the child at pos of n ends up: behind those that have its priority.
Place(h, n, pos) ==
  LET prio(i) == h[h[n].children[i]].priority
  IN  CHOOSE i \in 1 .. pos :
        /\ \A j \in i .. pos - 1 : prio(j) < prio(pos)
        /\ i > 1 => prio(i - 1) >= prio(pos)

\* A sequence whose element at pos has moved forward to new.
Moved(s, pos, new) ==
  [i \in 1 .. Len(s) |->
     IF i = new THEN s[pos] ELSE IF i \in new + 1 .. pos THEN s[i - 1] ELSE s[i]]

\* Variant of IncrementChildPrio: the indices are not moved with the children.
IncrementOnlyChild(h, n, pos) ==
  LET g == Count(h, h[n].children[pos])
      new == Place(g, n, pos)
  IN  Put(g, n, [g[n] EXCEPT !.children = Moved(@, pos, new)])

\* The child at pos gains a point and moves in front of those with fewer, its
\* index character with it.
IncrementChildPrio(h, n, pos) ==
  LET g == Count(h, h[n].children[pos])
      new == Place(g, n, pos)
  IN  Put(g, n, [g[n] EXCEPT !.children = Moved(@, pos, new),
                             !.indices = Moved(@, pos, new)])

\* Variant of Split: the wildcard child stays behind.
SplitWildLost(h, n, i, above) ==
  LET m == h[n]
      child == New(h, <<above, m.path[i + 1]>>)
      lower == [m EXCEPT !.type = "static", !.path = From(@, i), !.priority = @ - 1,
                         !.wild = <<>>]
      upper == [m EXCEPT !.path = SubSeq(@, 1, i), !.indices = <<m.path[i + 1]>>,
                         !.children = <<child>>, !.wild = <<>>, !.data = NoData]
  IN  Put(Put(h, child, lower), n, upper)

\* Variant of Split: the handler is also left behind.
SplitDataKept(h, n, i, above) ==
  LET m == h[n]
      child == New(h, <<above, m.path[i + 1]>>)
      lower == [m EXCEPT !.type = "static", !.path = From(@, i), !.priority = @ - 1]
      upper == [m EXCEPT !.path = SubSeq(@, 1, i), !.indices = <<m.path[i + 1]>>,
                         !.children = <<child>>, !.wild = <<>>]
  IN  Put(Put(h, child, lower), n, upper)

\* "Split edge": all that n has moves to a new child with the rest of its path.
Split(h, n, i, above) ==
  LET m == h[n]
      child == New(h, <<above, m.path[i + 1]>>)
      lower == [m EXCEPT !.type = "static", !.path = From(@, i), !.priority = @ - 1]
      upper == [m EXCEPT !.path = SubSeq(@, 1, i), !.indices = <<m.path[i + 1]>>,
                         !.children = <<child>>, !.wild = <<>>, !.data = NoData]
  IN  Put(Put(h, child, lower), n, upper)

\* The pattern without its last i tokens.
Above(i) == SubSeq(call.pattern, 1, Len(call.pattern) - i)

\* The loop goes on with rest at x, which is already in h.
Continue(loop, h, x, rest) ==
  /\ node' = h
  /\ call' = [call EXCEPT !.loop = loop, !.n = x, !.path = rest]
  /\ UNCHANGED routes

\* addRoute returns: the mux has the route.
Return(h) == node' = h /\ routes' = routes \cup {call.pattern} /\ call' = Idle

\* The registration panics, and with it the start of the program.
Panic(h) == node' = h /\ call' = [Idle EXCEPT !.loop = "panic"] /\ UNCHANGED routes

Blank(m) == m.path = <<>> /\ m.children = <<>> /\ m.wild = <<>>

\* A route is registered: into an empty tree, or along the nodes that share a prefix
\* with it.  (The code sets the type of the root after the insertion, which does
\* not read it.)
AddRoute(p) ==
  LET empty == Blank(node[Root]) IN
  /\ call.loop = "idle"
  /\ node' = Put(node, Root, [node[Root] EXCEPT !.priority = @ + 1,
                                                !.type = IF empty THEN "root" ELSE @])
  /\ call' = [loop |-> IF empty THEN "insert" ELSE "walk", n |-> Root, path |-> p,
              pattern |-> p]
  /\ UNCHANGED routes

\* What a turn of the walk loop begins with: the prefix that the path shares with
\* n's, the edge split where they part, and the rest of the path.
Shared == SharedLength(call.path, node[call.n].path)
Rest == From(call.path, Shared)
Edge ==
  IF Shared < Len(node[call.n].path) THEN Split(node, call.n, Shared, Above(Len(Rest)))
  ELSE node
Here == Edge[call.n]

Walking == call.loop = "walk"

\* The path ends at n.
WalkEnd ==
  /\ Walking /\ Rest = <<>>
  /\ IF Here.data # NoData THEN Panic(Edge)
     ELSE Return(Put(Edge, call.n, [Here EXCEPT !.data = call.pattern]))

\* A wildcard goes on in the one n has, if they are the same.
WalkWildcard ==
  /\ Walking /\ Rest # <<>> /\ Rest[1] \in Wildcard /\ Here.wild # <<>>
  /\ LET x == Here.wild[1] IN
     IF /\ Edge[x].path = <<Rest[1]>> /\ Edge[x].type # "catchAll"
        /\ Len(Rest) = 1 \/ Rest[2] = "/"
     THEN Continue("walk", Count(Edge, x), x, Rest)
     ELSE Panic(Count(Edge, x))

WalkNewWildcard ==
  /\ Walking /\ Rest # <<>> /\ Rest[1] \in Wildcard /\ Here.wild = <<>>
  /\ Continue("insert", Edge, call.n, Rest)

AfterParam == Here.type = "param" /\ Rest[1] = "/" /\ Len(Here.children) = 1

\* "slash after param"
WalkAfterParam ==
  /\ Walking /\ Rest # <<>> /\ Rest[1] \notin Wildcard /\ AfterParam
  /\ LET x == Here.children[1] IN Continue("walk", Count(Edge, x), x, Rest)

WalkStatic ==
  /\ Walking /\ Rest # <<>> /\ Rest[1] \notin Wildcard /\ ~AfterParam
  /\ Contains(Here.indices, Rest[1])
  /\ LET pos == Index(Here.indices, Rest[1]) IN
     Continue("walk", IncrementChildPrio(Edge, call.n, pos), Here.children[pos], Rest)

\* No child shares a prefix: a new one, unless n is followed by a catch-all.
WalkNewStatic ==
  /\ Walking /\ Rest # <<>> /\ Rest[1] \notin Wildcard /\ ~AfterParam
  /\ ~Contains(Here.indices, Rest[1])
  /\ IF Here.wild # <<>> /\ Edge[Here.wild[1]].type = "catchAll" THEN Panic(Edge)
     ELSE LET x == New(Edge, <<Above(Len(Rest)), Rest[1]>>)
              h == Put(Put(Edge, x, Node("static", <<>>, 0)), call.n,
                       [Here EXCEPT !.indices = Append(@, Rest[1]),
                                    !.children = Append(@, x)])
          IN  Continue("insert", IncrementChildPrio(h, call.n, Len(Here.indices) + 1), x, Rest)

\* The first wildcard of a path, 0 if it has none, and whether another one
\* follows in the same segment.
FindWildcard(path) == SelectInSeq(path, LAMBDA c : c \in Wildcard)

Valid(path, i) ==
  \A j \in i + 1 .. Len(path) :
    path[j] \in Wildcard => \E k \in i .. j : path[k] = "/"

Inserting == call.loop = "insert"
First == FindWildcard(call.path)
Name == call.path[First]

InsertStatic ==
  /\ Inserting /\ First = 0
  /\ Return(Put(node, call.n, [node[call.n] EXCEPT !.path = call.path,
                                                   !.data = call.pattern]))

\* The panics of insertChild.
Refused ==
  \/ ~Valid(call.path, First)
  \/ Name \in Nameless
  \/ /\ Name \in CatchAll
     /\ \/ First < Len(call.path)
        \/ node[call.n].path # <<>> /\ Last(node[call.n].path) = "/"
        \/ ~(First > 1 /\ call.path[First - 1] = "/")

InsertRefused == Inserting /\ First > 0 /\ Refused /\ Panic(node)

\* A ":name" child of n, which takes what is before it as its path; the insertion
\* goes on below it.
InsertParam ==
  /\ Inserting /\ First > 0 /\ ~Refused /\ Name \in Param
  /\ LET above == Above(Len(call.path) - First + 1)
         x == New(node, <<above, Name>>)
         wc == Node("param", <<Name>>, 1)
         h == Put(node, call.n,
                  [node[call.n] EXCEPT !.wild = <<x>>,
                     !.path = IF First > 1 THEN SubSeq(call.path, 1, First - 1) ELSE @])
         y == New(Put(h, x, wc), <<Append(above, Name), "/">>)
     IN  IF First = Len(call.path) THEN Return(Put(h, x, [wc EXCEPT !.data = call.pattern]))
         ELSE Continue("insert", Put(Put(h, x, [wc EXCEPT !.children = <<y>>]),
                                     y, Node("static", <<>>, 1)),
                       y, From(call.path, First))

\* A "*name": a node with an empty path, and below it the one with the handler.
InsertCatchAll ==
  /\ Inserting /\ First > 0 /\ ~Refused /\ Name \in CatchAll
  /\ LET above == Above(2)
         x == New(node, <<above, "catchAll">>)
         y == New(Put(node, x, Node("catchAll", <<>>, 1)), <<above, Name>>)
         h == Put(node, call.n, [node[call.n] EXCEPT !.wild = <<x>>,
                                   !.path = SubSeq(call.path, 1, First - 2)])
     IN  Return(Put(Put(h, x, [Node("catchAll", <<>>, 1) EXCEPT !.children = <<y>>]),
                    y, [Node("catchAll", From(call.path, First - 2), 1) EXCEPT
                          !.data = call.pattern]))

-----------------------------------------------------------------------------
(* Lookup                                                                  *)

\* A turn of the loop of getValue is at a node, with the rest of the path; the last
\* one finds a handler, or may recommend the path with or without a slash.
Looking(x, path, params) == [over |-> FALSE, n |-> x, path |-> path, params |-> params]
Found(data, params) == [over |-> TRUE, data |-> data, params |-> params, tsr |-> FALSE]
Missing(tsr) == [over |-> TRUE, data |-> NoData, params |-> <<>>, tsr |-> tsr]

\* The length of a path's first segment.
SegmentLength(path) ==
  LET i == Index(path, "/") IN IF i = 0 THEN Len(path) ELSE i - 1

\* Variant of AtNode: it recommends a slash for a child without a handler.
AtNodeAnyChild(n, path, params) ==
  LET i == Index(n.indices, "/") IN
  IF n.data # NoData THEN Found(n.data, params)
  ELSE Missing(i > 0)

\* The path ends at n: its handler, or whether one more or less slash finds one.
\* (The clause for a catch-all among the static children is never true.)
AtNode(n, path, params) ==
  LET i == Index(n.indices, "/")
      child == node[n.children[i]]
  IN
  IF n.data # NoData THEN Found(n.data, params)
  ELSE IF path = <<"/">> /\ n.wild # <<>> /\ n.type # "root" THEN Missing(TRUE)
  ELSE Missing(i > 0 /\ Len(child.path) = 1 /\ child.data # NoData)

\* What a wildcard takes from the path.
Capture(name, value) == [name |-> name, value |-> value]

\* A ":name" node takes the rest of the segment.
TakeSegment(wc, rest, params) ==
  LET end == SegmentLength(rest)
      taken == Append(params, Capture(wc.path[1], SubSeq(rest, 1, end)))
      child == node[wc.children[1]]
  IN
  IF end < Len(rest)
    THEN IF wc.children # <<>> THEN Looking(wc.children[1], From(rest, end), taken)
         ELSE Missing(Len(rest) = end + 1)
  ELSE IF wc.data # NoData THEN Found(wc.data, taken)
  ELSE Missing(Len(wc.children) = 1 /\ child.path = <<"/">> /\ child.data # NoData)

\* A "*name" node takes all but the first character, which is or should be a slash.
TakeRest(leaf, rest, params) ==
  Found(leaf.data, Append(params, Capture(Last(leaf.path), Tail(rest))))

LookTurn(s) ==
  LET n == node[s.n]
      rest == From(s.path, Len(n.path))
      wc == node[n.wild[1]]
  IN
  IF s.over THEN s
  ELSE IF Len(s.path) > Len(n.path) /\ IsPrefix(n.path, s.path) THEN
    IF Contains(n.indices, rest[1])
      THEN Looking(n.children[Index(n.indices, rest[1])], rest, s.params)
    ELSE IF n.wild = <<>> THEN Missing(rest = <<"/">> /\ n.data # NoData)
    ELSE IF wc.type = "param" THEN TakeSegment(wc, rest, s.params)
    ELSE TakeRest(node[wc.children[1]], rest, s.params)
  ELSE IF s.path = n.path THEN AtNode(n, s.path, s.params)
  ELSE Missing(\/ s.path = <<"/">>
               \/ n.path = Append(s.path, "/") /\ n.data # NoData)

\* The turns of getValue for a path: each but the last one takes a character.
Look(path) ==
  LET turn[k \in Nat] ==
        IF k = 0 THEN Looking(Root, path, <<>>) ELSE LookTurn(turn[k - 1])
  IN  turn

Lookup(path) == Look(path)[Len(path) + 1]

-----------------------------------------------------------------------------
Init ==
  /\ node = [x \in {Root} |-> Node("static", <<>>, 0)]
  /\ routes = {}
  /\ call = Idle

Walk ==
  WalkEnd \/ WalkWildcard \/ WalkNewWildcard \/ WalkAfterParam \/ WalkStatic \/ WalkNewStatic

InsertChild == InsertStatic \/ InsertRefused \/ InsertParam \/ InsertCatchAll

Next == (\E p \in Pattern : AddRoute(p)) \/ Walk \/ InsertChild

Spec == Init /\ [][Next]_vars

-----------------------------------------------------------------------------
(* Properties: between two registrations, when requests are served         *)

\* The index character of a child is the first one of its path; the child with
\* an empty path that leads to a catch-all stands for "/".
IndexOf(n) == IF n.path = <<>> THEN "/" ELSE n.path[1]

\* The shape getValue relies on: each index leads to its own child, no two to
\* children with a common prefix, and the children asked for most come first.
TypeOK ==
  /\ routes \subseteq Pattern
  /\ call.loop \in {"idle", "walk", "insert", "panic"}
  /\ call.loop = "idle" =>
       \A x \in DOMAIN node :
         LET n == node[x] IN
         /\ n.type \in {"static", "root", "param", "catchAll"}
         /\ n.data \in routes \cup {NoData}
         /\ \A i \in 1 .. Len(n.children) : n.children[i] \in DOMAIN node
         /\ n.type \in {"static", "root"} =>
              /\ n.indices = [i \in 1 .. Len(n.children) |-> IndexOf(node[n.children[i]])]
              /\ IsInjective(n.indices)
              /\ \A i \in 2 .. Len(n.children) :
                   node[n.children[i - 1]].priority >= node[n.children[i]].priority

\* What reading a pattern along a path comes to, with no tree: whether the path has
\* what the tokens so far ask for, how much of it they take, and the parameters.
\* A ":name" takes the rest of a segment, of a path that has not ended; a "*name"
\* takes all that is left.
Read(c, path, r) ==
  LET rest == From(path, r.at)
      end == SegmentLength(rest)
  IN
  IF c \in Param
    THEN [ok |-> r.ok /\ rest # <<>>, at |-> r.at + end,
          params |-> Append(r.params, Capture(c, SubSeq(rest, 1, end)))]
  ELSE IF c \in CatchAll
    THEN [ok |-> r.ok, at |-> Len(path), params |-> Append(r.params, Capture(c, rest))]
  ELSE [ok |-> r.ok /\ rest # <<>> /\ rest[1] = c, at |-> r.at + 1, params |-> r.params]

Reading(p, path) ==
  LET read[i \in Nat] ==
        IF i = 0 THEN [ok |-> TRUE, at |-> 0, params |-> <<>>]
        ELSE Read(p[i], path, read[i - 1])
  IN  read

\* A pattern matches a path: it can be read along it, to its end.
Matches(p, path) ==
  LET r == Reading(p, path)[Len(p)] IN r.ok /\ r.at = Len(path)

Served == [p \in Pattern |-> {q \in Path : Matches(p, q)}]

\* No route agrees with p up to one of its parameters and goes on there with the
\* character of the path, which is preferred.
Preferred(p, path) ==
  \A i \in 1 .. Len(p) :
    p[i] \in Param =>
      LET at == Reading(p, path)[i - 1].at IN
      \A r \in routes :
        ~(Len(r) >= i /\ SubSeq(r, 1, i - 1) = SubSeq(p, 1, i - 1) /\ r[i] = path[at + 1])

\* Whatever the order of registration, the splits and the priorities, which of the
\* routes that match a path is found depends on the set of patterns alone: it is
\* the one that no other is preferred to, a character being preferred over a
\* parameter, and it is found with its parameters.  That is less than the
\* documentation says.  One character is enough to be preferred: with /matches/live
\* and /matches/:id, no route is found for /matches/last, which docs/routing.md:60
\* gives to /matches/:id.  And a catch-all takes what follows its slash, while
\* docs/routing.md:13 and :41 include the slash.
RoutesFound ==
  call.loop = "idle" =>
    \A p \in routes : \A q \in Served[p] :
      Preferred(p, q) <=> Lookup(q) = Found(p, Reading(p, q)[Len(p)].params)

\* The handler that runs is one whose pattern matches the request, or one with a
\* catch-all whose pattern matches the beginning of the request, up to the slash
\* before the catch-all.
LookupMatches ==
  call.loop = "idle" =>
    \A q \in Path :
      LET p == Lookup(q).data IN
      p # NoData =>
        /\ p \in routes
        /\ \/ q \in Served[p]
           \/ /\ Last(p) \in CatchAll
              /\ Reading(p, q)[Len(p) - 2].ok

\* handleFastHTTP's redirect: the slash at the end taken off, or added.
Redirected(q) == IF Last(q) = "/" THEN Front(q) ELSE Append(q, "/")

Redirects(q) == Len(q) > 1 /\ Lookup(q).data = NoData /\ Lookup(q).tsr

\* No client is sent back and forth between a path with and one without the
\* slash.
NoRedirectLoop ==
  call.loop = "idle" => \A q \in Path : Redirects(q) => ~Redirects(Redirected(q))
=============================================================================
